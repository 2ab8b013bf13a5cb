SPECIFICATION Spec
CONSTANTS
    memsize = 2
    SwapSize = 3
    SIMPAGESIZE = 1
    TableSize = 3
    IntModulus = 8
    Algorithms <- Rand
    Vpns <- ThreePages
    TraceOffsets <- InPage
    Values <- Bits
    NULL = NULL
    FreshIsZero = TRUE
    DiskFails = {}
INVARIANTS
    CleanHasCopy
    SwappedOnlyWhenFull
PROPERTIES
    ImplementsFlatMemory
