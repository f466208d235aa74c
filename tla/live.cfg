SPECIFICATION FairSpec
CONSTANTS
    ann = ann
    bob = bob
    cyd = cyd
    Uuid = {ann, bob}
    InitialFriends <- Strangers
    MaxCalls = 2
    MaxTaps = 3
    MaxFaults = 0
PROPERTIES
    RequestShown
    AcceptReachesOriginator
CHECK_DEADLOCK FALSE
