SPECIFICATION Spec
CONSTANTS
    MaxThreads = 3
    Addresses = {a, b, c}
    NULL = NULL
    MallocCanFail = FALSE
INVARIANTS
    NoDoubleFree
