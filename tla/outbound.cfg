SPECIFICATION MCSpec
CONSTANTS
    Modulus = 8
    MaxUnacked = 1
    Senders = {"s1"}
    Keys = {"k1"}
    Sizes = {1, 2}
    MaxMessages = 2
    MaxBytes = 3
    FirstSeq = 7
    MaxItems = 3
    MaxVisits = 1
INVARIANTS
    BudgetKept
    NoSilentLoss
    LagIsTrue
PROPERTIES
    FramesInOrder
    SendersReturn
CHECK_DEADLOCK FALSE
