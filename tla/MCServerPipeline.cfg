SPECIFICATION FairSpec
CONSTANTS
    None = None
    Conns = {1}
    Cap = 1
    BufCap = 3
    SndBuf = 8
    Budget = 1
    MaxReq = 0
    IdleAge = 1
    Scripts <- Pipelined
    Faults = {}
PROPERTY LeftoverIsDispatched
