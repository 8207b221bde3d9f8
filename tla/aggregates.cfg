SPECIFICATION MCSpec
CONSTANTS
  MaxEntities = 2
  Positions <- Spots
  CellOf <- SpotCell
  MaxGeneration = 3
  Modulus = 8
  Inputs = {0, 1, 4, 7}
  QueueCapacity = 2
  Ops = {x}
  OpCapacity = 2
  Owners = {a, b}
  MaxRevision = 2
  SeenCapacity = 1
  Workers = {1, 2}
  MaxDelta = 1
  MaxWorker = 2
  MaxSequence = 1
  OpIDs <- Identities
  RecentOpIDCapacity = 2
  PositionSamples = {p, q}
  NoSample = none
  HistoryCapacity = 3
INVARIANTS
  RegistryWhole
  NewestInputControls
  AppliedOnce
  NoCommitSlipsBy
  MemoryIsPrefix
PROPERTIES
  BridgeReturnsWhole
  NeverReused
  MemoriesKeepTheLast
CHECK_DEADLOCK FALSE
