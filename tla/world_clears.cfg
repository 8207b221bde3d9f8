CONSTANTS
  Session = {s1, s2}
  Account = {a1}
  Character = {c1}
  AccountOf <- OneAccount
  OwnerOf <- OneOwner
  Sweeper = Sweeper
  None = None
  MaxEntities = 2
SPECIFICATION FairSpec
PROPERTY DisconnectIsCleared
CHECK_DEADLOCK FALSE
