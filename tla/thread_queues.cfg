SPECIFICATION FairSpec
CONSTANTS
    MaxThreads = 4
    WaitQueues = {q1}
    ExitCodes <- NormalOnly
    NULL = NULL
    MaskSettings <- NoMasks
    MaxJoiners = 2
    KillSleepers = FALSE
    MemoryCanFail = FALSE
INVARIANTS
    TypeOK
    QueuesMatchStates
    ReadyAreQueued
    JoinTargetsLive
    RunnableHasStack
PROPERTIES
    LeaveInOrder
    KilledStaysDead
    ReadyRuns
    JoinersReturn
