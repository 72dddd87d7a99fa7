SPECIFICATION FairSpec
CONSTANTS
  p1 = p1
  Pages = {p1}
  Total = 2
  MaxLeases = 2
  MaxSends = 2
  MaxCuts = 2
  MaxRetries = 1
  MaxFaults = 1
CHECK_DEADLOCK FALSE
INVARIANTS
  CountIsDrawn
PROPERTIES
  RunEnds
  BatchIsOffered
