SPECIFICATION ClusterSpec
CONSTANTS
    Followers = {1, 2}
    Primary = 100
    None = 0
    FailThreshold = 1
    MaxTerm = 2
    MaxRestarts = 1
    Threads = {t1, t2}
    NoThread = none
    Granted = 3
    LeaseCap = 2
    IoTimeout = 2
    MaxTime = 12
    Objects = {o1}
    Digests = {d1}
    Loads <- MCLoads
    MaxRequests = 3
    ApiThreads = 2
    MaxIoErrors = 1
    MaxStops = 1
    Parents = {p1}
    Children = {c1, c2}
    States = {1, 2}
    Transitions <- MCTransitions
    Workloads <- MCWorkloads
    Mutations = {m1, m2}
    ScanCap = 1
    NoValue = NoValue
INVARIANTS TallyIsHonest LeadersAreElected StalenessIsBounded  
PROPERTIES TermsOnlyGrow GateClosesAfterAppointment  
CHECK_DEADLOCK FALSE
