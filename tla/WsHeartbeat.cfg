SPECIFICATION HhSpec
CONSTANTS
    Kinds = {"sync", "ws"}
    MaxRequests = 2
    MaxPieces = 1
    MaxUses = 1
    Pipelining = FALSE
    Overtaking = FALSE
INVARIANT PingsAfterUpgrade
CHECK_DEADLOCK FALSE
