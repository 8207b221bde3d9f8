SPECIFICATION FairSpec
CONSTANTS
    MaxInt = 1000000000
    Character = Character
    Items <- MCItems
    Costs <- MCCosts
    Contexts <- MCContexts
    Powers <- MCPowers
    Start = 2
    MaxTime = 4
    MaxEpoch = 2
    MaxProgress = 1
    MaxFaults = 1
    MaxCrashes = 1
INVARIANTS
    PaidOnce
    NothingUnproved
PROPERTIES
    DebtOnlyShrinks
    ProgressKept
    HeldIsReleased
CHECK_DEADLOCK FALSE
