SPECIFICATION Spec
CONSTANTS
    tun = tun  timer = timer  receiver = receiver
    Nil = Nil
    Thread <- TwoThreads
    Tun = tun
    Workers = 2
    Batch = 2
    StagedSize = 1
    OutboundSize = 2
    RejectAfter = 2
    Counter = 6
    MaxPackets = 2
    MaxKeepalives = 1
    MaxKeys = 1
    MaxStops = 1
INVARIANTS
    NonceOnce
    SentAsQueued
    PoolsExact
CHECK_DEADLOCK FALSE
