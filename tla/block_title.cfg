SPECIFICATION Spec
CONSTANTS
    ann = ann
    bob = bob
    cyd = cyd
    Uuid = {ann, bob}
    InitialFriends <- Strangers
    MaxCalls = 2
    MaxTaps = 2
    MaxFaults = 0
PROPERTIES
    BlockActionBlocks
CHECK_DEADLOCK FALSE
