SPECIFICATION Spec
CONSTANTS
  W1 = W1
  W2 = W2
  Workers <- Two
  Rpm = 3
  Tpm = 4
  Rpd = 2
  Window = 3
  DayLength = 4
  Slots = 2
  Lag = 1
  Timeout = 2
  Inputs = {2}
  Refusals = {4}
  MaxRequests = 4
  MaxTime = 5
  MaxFaults = 1
SYMMETRY Same2
CHECK_DEADLOCK FALSE
INVARIANTS
  RequestsFit
  TokensFit
  SlotsReturn
  DayIsBounded
PROPERTIES
  PausesAreKept
