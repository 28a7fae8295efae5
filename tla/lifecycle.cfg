SPECIFICATION FairSpec
CONSTANTS
    c1 = c1  c2 = c2
    p1 = p1  p2 = p2  w1 = w1
    None = None
    Caller <- TwoCallers
    Peer <- OnePeer
    Keepalive <- OnePeer
    Worker <- OneWorker
    Ops <- AllOps
    InboundSize = 1
    MaxOps = 3
    BindMayFail = TRUE

    
CHECK_DEADLOCK FALSE
INVARIANTS
    NoSendOnClosedChannel
    RefsExact
    NoRemovedPeerRuns
    ClosedIsQuiet
    ReceiveOnlyWhenUp
