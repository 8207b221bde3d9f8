CONSTANTS
  Keys = {1}
  Callers = {c1, c2}
  MaxRev = 3
  MaxGen = 3
  MaxVersion = 3
  MaxInc = 2
  MaxFaults = 1
  OwnersWait = FALSE
SPECIFICATION Spec
SYMMETRY CallerSymmetry
PROPERTY NewerSnapshotSurvives
CHECK_DEADLOCK FALSE
