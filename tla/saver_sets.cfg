CONSTANTS
  Keys = {1, 2}
  Callers = {c1, c2}
  MaxRev = 2
  MaxGen = 2
  MaxVersion = 2
  MaxInc = 1
  MaxFaults = 1
  OwnersWait = TRUE
SPECIFICATION Spec
SYMMETRY CallerSymmetry
INVARIANT HoldsOnlyEarlierGates
INVARIANT CleanIsDurable
PROPERTY ImplementsDurableRoots
CHECK_DEADLOCK FALSE
