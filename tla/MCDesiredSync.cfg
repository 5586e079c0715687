SPECIFICATION FairSpec
CONSTANTS
    Users = {u1}
    CredIds = {c1, c2}
    NoCred = NoCred
    MaxVersion = 4
    MaxInst = 2
    MaxFaults = 2
INVARIANTS
    RenderedCredentialIsAccepted
    AcknowledgedMeansInstalled
    RetiredCredentialIsRefused
PROPERTIES
    Converges
CHECK_DEADLOCK FALSE
