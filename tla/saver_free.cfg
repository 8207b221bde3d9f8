CONSTANTS
  Keys = {1}
  Callers = {c1, c2}
  MaxRev = 2
  MaxGen = 2
  MaxVersion = 3
  MaxInc = 2
  MaxFaults = 1
  OwnersWait = FALSE
SPECIFICATION RunSpec
INVARIANT OneWriter
INVARIANT FencedIsAtRest
INVARIANT ReservationPinsRevision
PROPERTY DirtySettles
PROPERTY GateWaitEnds
CHECK_DEADLOCK FALSE
