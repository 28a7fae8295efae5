SPECIFICATION Spec
CONSTANTS
    BlockBits = 2
    RingBlocks = 3
    Limit = 15
    Counter <- Counters
INVARIANTS
    RingIsExact
PROPERTIES
    ImplementsWindow
