SPECIFICATION Spec
CONSTANTS
    MaxThreads = 3
    WaitQueues = {q1, q2}
    ExitCodes <- Codes
    NULL = NULL
    MaskSettings <- Masks
    MaxJoiners = 1
    KillSleepers = FALSE
    MemoryCanFail = TRUE
INVARIANTS
    ThreadInv
    MaskRestored
    JoinerSeesExitCode
