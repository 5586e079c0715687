SPECIFICATION FairSpec
CONSTANTS
    u1 = u1
    u2 = u2
    hy = hy
    vl = vl
    Users = {u1, u2}
    Nodes = {hy, vl}
    Adapter <- MCAdapter
    Host = hy
    KickLimit = 1
    Limits = {0, 1}
    Batch = 1
    LastTime = 1
    MaxLag = 1
    Scenarios <- MCScenarios
INVARIANTS
    DeniedIsDisconnected
    RenderedIsAdmitted
    EnforcedIsWithdrawn
    LastRequestHolds
PROPERTIES
    LossIsKicked
    KicksAreExecuted
    ExpiryIsEnforced
CHECK_DEADLOCK FALSE
