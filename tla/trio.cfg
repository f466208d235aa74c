SPECIFICATION Spec
CONSTANTS
    ann = ann
    bob = bob
    cyd = cyd
    Uuid = {ann, bob, cyd}
    InitialFriends <- Star
    MaxCalls = 1
    MaxTaps = 3
    MaxFaults = 0
SYMMETRY StarSymmetry
INVARIANTS
    FriendsMetInDocs
    BlockedByOwner
    AsymmetryHasCause
CHECK_DEADLOCK FALSE
