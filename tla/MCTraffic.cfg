SPECIFICATION FairSpec
CONSTANTS
    Users = {u1, u2}
    BatchSize = 1
    MaxCarried = 2
    MaxCores = 2
    MaxChanges = 2
    MaxFaults = 2
INVARIANTS
    EveryByteOnce
    NeverOvercounts
    TotalsMatchLedger
PROPERTIES
    ImplementsLedger
    BoundOutboxDrains
CHECK_DEADLOCK FALSE
