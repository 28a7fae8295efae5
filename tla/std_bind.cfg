SPECIFICATION Spec
CONSTANTS
    peer = peer  cookie = cookie
    Sender <- Senders
    Locked <- Peers
    Systems <- AnySystem
    Port <- Ports
    Batches <- SomeBatches
    Incoming <- Reads
    MaxTries = 1
    MaxPayload = 5
    MaxDatagrams = 3
    BufferCap = 5
    BatchSize = 6
INVARIANTS
    NoSocketLeak
    OnePort
    PeersSendOnOpenSocket
    BatchArrives
    SplitGivesBack
CHECK_DEADLOCK FALSE
