SPECIFICATION Spec
CONSTANTS
    MaxThreads = 3
    WaitQueues = {q1}
    ExitCodes <- Codes
    NULL = NULL
    MaskSettings <- NoMasks
    MaxJoiners = 1
    KillSleepers = TRUE
    MemoryCanFail = FALSE
INVARIANTS
    WaitQueueRep
