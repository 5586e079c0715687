SPECIFICATION FairSpec
CONSTANTS
    MaxTokens = 3
    MaxIDs = 14
    MaxFaults = 4
INVARIANTS
    CredentialIsLive
PROPERTIES
    EnrollmentCompletes
CHECK_DEADLOCK FALSE
