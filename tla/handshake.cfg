SPECIFICATION Spec
CONSTANTS
    ann = ann
    bob = bob
    cyd = cyd
    Uuid = {ann, bob, cyd}
    InitialFriends <- Befriended
    MaxCalls = 2
    MaxTaps = 2
    MaxFaults = 1
INVARIANTS
    BlockLossHasCause
    RequestGoneHasCause
PROPERTIES
    ImplementsHandshake
CHECK_DEADLOCK FALSE
