SPECIFICATION Spec
CONSTANTS
    Users = {u1}
    CredIds = {c1, c2}
    NoCred = NoCred
    MaxVersion = 3
    MaxInst = 2
    MaxFaults = 2
CHECK_DEADLOCK FALSE
INVARIANTS
    QuiescentAgreement
