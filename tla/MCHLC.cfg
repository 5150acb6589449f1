SPECIFICATION Spec
CONSTANTS
  Node = {n1, n2}
  Caller = {g1}
  MaxOffset = 2
  LogicalMod = 5
  SkipOnRestart = TRUE
  MaxReal = 3
  MaxCalls = 4
  MaxCrashes = 1
  MaxInFlight = 1
SYMMETRY Symmetry
INVARIANTS TypeOK
  
CHECK_DEADLOCK FALSE
