\* TCP: one peer that sends two units, a slot that a late duplicate of its SYN may
\* open again, two tracked segments, a receive buffer of one unit.
\* QUIC: four packets over five time units, a tracker of three, windows of three
\* datagrams.
SPECIFICATION TransportSpec
CHECK_DEADLOCK FALSE
CONSTANTS
    None = None
    Slots = {1}
    Peers = {client}
    SeqMod = 16
    PeerIss <- MCPeerIss
    StackIss <- MCStackIss
    PeerData <- MCPeerData
    PeerWnd = 4
    MSS = 1
    InitCwnd = 2
    RtxMax = 2
    RcvCap = 1
    MaxOpen = 2
    MaxSend = 2
    CwndMax = 5
    Results = {"none", "close", "reset"}
    Granularity = 2
    Threshold = 2
    MaxTracked = 3
    MaxAckDelay = 1
    AckDelays = {2}
    InitialRtt = 1
    Mds = 2
    InitialFloor = 6
    MaxPn = 4
    MaxNow = 5
    MaxPto = 2
INVARIANTS
    StreamInOrder
    AcksWhatItDelivered
    OpenClosePaired
    
    TimersCoverFlight
    FlightIsAccounted
