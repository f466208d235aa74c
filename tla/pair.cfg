SPECIFICATION Spec
CONSTANTS
    ann = ann
    bob = bob
    cyd = cyd
    Uuid = {ann, bob}
    InitialFriends <- Strangers
    MaxCalls = 2
    MaxTaps = 4
    MaxFaults = 0
SYMMETRY Symmetry
INVARIANTS
    TypeOK
    RequestsWereSent
    AsymmetryHasCause
    DuplicateHasCause
    RequestGoneHasCause
CHECK_DEADLOCK FALSE
