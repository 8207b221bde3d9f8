SPECIFICATION FairSpec
CONSTANTS
    MaxInt = 1000000000
    TickHz = 1
    Modulus = 64
    Inputs <- MCInputs
    Stored <- MCStored
    Blows <- MCBlows
    Settings <- MCSettings
    Amounts <- MCAmounts
    Costs <- MCCosts
    Off = Off
    MaxOps = 2
    MaxHeld = 2
INVARIANTS
    NeverImpossible
    NotLost
PROPERTIES
    PoolsSettle
