SPECIFICATION FairSpec
CONSTANTS
    Settings <- MCSettings
    MaxVersion = 3
    MaxGeneration = 2
    MaxFaults = 3
    LapseKinds <- MCLapses
INVARIANTS
    RolledBackIsPrevious
PROPERTIES
    AckedIsServed
    KeyIsPinned
    Converges
CHECK_DEADLOCK FALSE
