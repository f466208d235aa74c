SPECIFICATION Spec
CONSTANTS
    ann = ann
    bob = bob
    Nobody = Nobody
    Uuid = {ann, bob}
    MaxCalls = 1
    MaxTaps = 3
    MaxFaults = 1
SYMMETRY Symmetry
INVARIANTS
    TypeOK
    MessageStaysInPair
    SplitHasCause
    LostMessageHasCause
    ScreenShowsThread
CHECK_DEADLOCK FALSE
