SPECIFICATION FairSpec
CONSTANTS
    ann = ann
    bob = bob
    Nobody = Nobody
    Uuid = {ann, bob}
    MaxCalls = 1
    MaxTaps = 2
    MaxFaults = 2
PROPERTY
    ScreenLoads
CHECK_DEADLOCK FALSE
