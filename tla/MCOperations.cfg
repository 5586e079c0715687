SPECIFICATION FairSpec
CONSTANTS
    Types <- MCTypes
    Last = 3
    Capacity = 2
    Keep = 1
    MaxFaults = 1
INVARIANTS
    OutboxIsAccepted
    ExecutedOnce
    StatusIsTrue
    AlertTracksFailures
PROPERTIES
    OperationsSettle
