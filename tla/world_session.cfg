CONSTANTS
  Session = {s1, s2, s3}
  Account = {a1}
  Character = {c1, c2}
  AccountOf <- OneAccount
  OwnerOf <- OneOwner
  Sweeper = Sweeper
  None = None
  MaxEntities = 2
SPECIFICATION Spec
SYMMETRY Interchangeable
INVARIANT OnePerAccount
INVARIANT WholeBetweenHolds
INVARIANT BaselineIsFresh
CHECK_DEADLOCK FALSE
