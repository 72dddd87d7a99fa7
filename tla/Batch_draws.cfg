SPECIFICATION Spec
CONSTANTS
  p1 = p1
  p2 = p2
  Pages = {p1, p2}
  Total = 2
  MaxLeases = 2
  MaxSends = 2
  MaxCuts = 1
  MaxRetries = 0
  MaxFaults = 1
SYMMETRY Symmetric
CHECK_DEADLOCK FALSE
INVARIANTS
  OneHolderDraws
  CountIsDrawn
