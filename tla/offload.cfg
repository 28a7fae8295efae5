SPECIFICATION Spec
CONSTANTS
    a = a  u = u
    Flow <- Flows
    SeqRange = 8
    BufferCap = 6
    OutBuffers = 3
    KernelPacket <- KernelPackets
    Stray <- Neighbours
    MaxBatch = 4
INVARIANTS
    EveryPacketOnce
    UdpInOrder
    PshNotMoved
CHECK_DEADLOCK FALSE
