SPECIFICATION FairSpec
CONSTANTS
    MaxThreads = 4
    Addresses = {a, b, c, d}
    NULL = NULL
    MallocCanFail = TRUE
INVARIANTS
    TypeOK
    QueueHoldsReady
    StacksApart
    StacksHeld
PROPERTIES
    ReadyRuns
    ImplementsScheduler
