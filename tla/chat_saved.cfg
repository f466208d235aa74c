SPECIFICATION Spec
CONSTANTS
    ann = ann
    bob = bob
    Nobody = Nobody
    Uuid = {ann, bob}
    MaxCalls = 1
    MaxTaps = 3
    MaxFaults = 0
INVARIANT SentIsSaved
CHECK_DEADLOCK FALSE
