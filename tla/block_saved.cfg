SPECIFICATION Spec
CONSTANTS
    ann = ann
    bob = bob
    cyd = cyd
    Uuid = {ann, bob}
    InitialFriends <- Befriended
    MaxCalls = 2
    MaxTaps = 2
    MaxFaults = 0
SYMMETRY Symmetry
INVARIANTS
    BlocksAreSaved
CHECK_DEADLOCK FALSE
