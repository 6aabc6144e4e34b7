\* One connection with no flow control, as the TLS server sets it up.
SPECIFICATION TransportSpec
CHECK_DEADLOCK FALSE
CONSTANTS
    None = None
    Slots = {1}
    Peers = {client}
    SeqMod = 16
    PeerIss <- MCPeerIss
    StackIss <- MCStackIss
    PeerData <- MCPeerData
    PeerWnd = 4
    MSS = 1
    InitCwnd = 2
    RtxMax = 1
    RcvCap = 0
    MaxOpen = 1
    MaxSend = 1
    CwndMax = 5
    Results = {"none", "output"}
    Granularity = 2
    Threshold = 2
    MaxTracked = 3
    MaxAckDelay = 1
    AckDelays = {2}
    InitialRtt = 1
    Mds = 2
    InitialFloor = 6
    MaxPn = 0
    MaxNow = 0
    MaxPto = 2
INVARIANT DataIsInOrder
