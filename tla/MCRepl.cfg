SPECIFICATION FairSpec
CONSTANTS
    Replicas = {r1}
    Keys = {k1, k2}
    SegCap = 2
    MaxSeg = 2
    MaxOps = 3
    ChunkMax = 1
    Quorum = 1
    Lossy = TRUE
INVARIANTS ReplicaIsPrefix PollCatchesUp
PROPERTY ReplicatedIsStored EventuallyConverges
CHECK_DEADLOCK FALSE
