SPECIFICATION Spec
CONSTANTS
    memsize = 3
    SwapSize = 4
    SIMPAGESIZE = 1
    TableSize = 4
    IntModulus = 8
    Algorithms <- Ordered
    Vpns <- FourPages
    TraceOffsets <- InPage
    Values <- OnlyZero
    NULL = NULL
    FreshIsZero = TRUE
    DiskFails = {"read"}
INVARIANTS
    EvictsInOrder
    HandAtFirstFree
PROPERTIES
    SecondChance
