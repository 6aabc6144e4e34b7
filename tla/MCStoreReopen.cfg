SPECIFICATION Spec
CONSTANTS
    Keys = {k1}
    SegCap = 1
    MaxSeg = 2
    MaxOps = 2
    SbInterval = 2
    Durabilities = {"LOCAL"}
    UseTxns = FALSE
    Faults = {"kill"}
    MaxFaults = 1
    Empty = Empty
    Torn = Torn
INVARIANTS AlwaysOpens
SYMMETRY KeySymmetry
CHECK_DEADLOCK FALSE
