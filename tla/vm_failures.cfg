SPECIFICATION Spec
CONSTANTS
    memsize = 2
    SwapSize = 1
    SIMPAGESIZE = 1
    TableSize = 3
    IntModulus = 8
    Algorithms <- All
    Vpns <- OddPages
    TraceOffsets <- InPage
    Values <- Bits
    NULL = NULL
    FreshIsZero = FALSE
    DiskFails = {"write"}
INVARIANTS
    TypeOK
    FramesMatchPages
    SlotsApart
PROPERTIES
    ImplementsLossyMemory
