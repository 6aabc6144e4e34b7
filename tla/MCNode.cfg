SPECIFICATION NodeSpec
CONSTANTS
    Keys = {k1, k2}
    SegCap = 2
    MaxSeg = 2
    MaxOps = 3
    SbInterval = 2
    Durabilities = {"LOCAL", "FAF"}
    UseTxns = TRUE
    Faults = {"eio_commit"}
    MaxFaults = 1
    Empty = Empty
    Torn = Torn
    Pool <- MCPool
    Records = {1}
    Owner <- MCOwner
    Usages <- MCUsages
    Routings = {"proxy", "redirect"}
    MaxCalls = 3
    Sites <- MCSites
    Lower <- MCLower
    Hashes <- MCHashes
    Reserved = {"_pages", "_inc"}
    MinCap = 16
    MaxKnown = 4
    MaxFailures = 1
INVARIANTS   SiteIsServed 
PROPERTIES  CallsEnd
CHECK_DEADLOCK FALSE
