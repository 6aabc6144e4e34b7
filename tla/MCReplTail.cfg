SPECIFICATION Spec
CONSTANTS
    Replicas = {r1}
    Keys = {k1, k2}
    SegCap = 2
    MaxSeg = 2
    MaxOps = 3
    ChunkMax = 2
    Quorum = 1
    Lossy = FALSE
INVARIANT SealedIsWhole
CHECK_DEADLOCK FALSE
