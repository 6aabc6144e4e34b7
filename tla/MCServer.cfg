SPECIFICATION FairSpec
CONSTANTS
    None = None
    Conns = {1, 2}
    Cap = 2
    BufCap = 3
    SndBuf = 3
    Budget = 1
    MaxReq = 3
    IdleAge = 1
    Scripts <- TestScripts
    Faults = {"fin", "rst"}
INVARIANTS PoolIsPartitioned BodiesAreReleased AnswersInOrder
PROPERTY EveryConnectionEnds
