---------------------------- MODULE CSC369Thread ----------------------------
(***************************************************************************)
(* The preemptive user-level thread library of a2-chenz347                 *)
(* (csc369_thread.c and csc369_interrupts.c) and the programs that call it.*)
(*                                                                         *)
(* One kernel thread runs everything: SIGALRM is the only source of        *)
(* concurrency, and a library call blocks it from its first line           *)
(* (CSC369_InterruptsDisable) to its return or to the setcontext that      *)
(* leaves it.  An action is therefore one library call up to its context   *)
(* switch; what a suspended call still does when its thread runs again     *)
(* (the lines after getcontext) is an action of its own.  A call that      *)
(* returns an error code changes no state and is not an action.            *)
(***************************************************************************)
EXTENDS Integers, SequencesExt

CONSTANTS
    MaxThreads,     \* CSC369_MAX_THREADS
    WaitQueues,     \* the wait queues a program may own
    ExitCodes,      \* codes a program passes to ThreadExit or to exit
    NULL,           \* the null pointer
    MaskSettings,   \* what a program passes to CSC369_InterruptsSet
    MaxJoiners,     \* threads a program lets join one target at a time
    KillSleepers,   \* may a program kill a thread that sleeps on its queue?
    MemoryCanFail   \* may calloc return NULL?

Tid == 0 .. MaxThreads - 1
EXIT_CODE_NORMAL == 0
EXIT_CODE_KILL_Unset == NULL
EXIT_CODE_KILL == -999

ASSUME ThreadsAssumption == MaxThreads \in Nat \ {0}
ASSUME CodesAssumption == ExitCodes \subseteq Int /\ EXIT_CODE_NORMAL \in ExitCodes
ASSUME NamesAssumption ==
    /\ NULL \notin WaitQueues \cup Tid \cup Int
    /\ WaitQueues \cap Tid = {}
ASSUME ClientAssumption ==
    /\ MaskSettings \subseteq BOOLEAN
    /\ MaxJoiners \in Nat
    /\ KillSleepers \in BOOLEAN
    /\ MemoryCanFail \in BOOLEAN

VARIABLES
    thread_state,   \* TCB.thread_state of every slot of gThreadTotal
    exit_code,      \* TCB.exit_code
    join_threads,   \* the queue behind TCB.join_threads
    joinable,       \* TCB.join_threads # NULL
    stack,          \* user_level_context.uc_stack.ss_sp # NULL
    ready_threads,
    zombie_threads,
    wait_queues,    \* the content of every wait queue of the program
    allocated,      \* the wait queues created and not yet destroyed
    running,        \* gThreadRunningHead, or NULL
    ctx,            \* where user_level_context resumes the thread
    arg,            \* argument of the call the thread is suspended in
    saved,          \* prev_state of that call
    interrupts,     \* SIGALRM is unblocked
    program,        \* the life of the process
    status,         \* the status given to exit, or NULL
    owed,           \* history: code the joined thread left with, or NULL
    mask_set        \* history: mask the thread last asked for

tcb == <<thread_state, exit_code, join_threads, joinable, stack>>
queues == <<wait_queues, allocated>>
suspended == <<ctx, arg, saved>>
process == <<program, status>>
vars == <<tcb, ready_threads, zombie_threads, queues, running, suspended,
          interrupts, process, owed, mask_set>>

ThreadStates == {"FREE", "READY", "RUNNING", "ZOMBIE", "BLOCKED"}

\* Where a saved context takes its thread: the entry stub of a new thread, the
\* end of a yield, sleep or join call, or the end of the signal handler;
\* "user" is the running thread in its own code, "none" a slot nobody runs.
Contexts == {"none", "stub", "yield", "handler", "sleep", "join", "user"}

-----------------------------------------------------------------------------
(* Queues: Queue_Dequeue is Head and Tail.  A name with a suffix is a bug that
   could have been made in the definition that follows it. *)

Holds(queue, t) == \E i \in DOMAIN queue : queue[i] = t

Queue_Enqueue_AtHead(queue, t) == <<t>> \o queue
Queue_Enqueue(queue, t) == Append(queue, t)

Queue_Remove_NotHead(queue, t) ==
    IF Holds(queue, t) /\ queue[1] # t
    THEN RemoveAt(queue, CHOOSE i \in DOMAIN queue : queue[i] = t)
    ELSE queue

Queue_Remove_CutsTail(queue, t) ==
    IF Holds(queue, t)
    THEN SubSeq(queue, 1, (CHOOSE i \in DOMAIN queue : queue[i] = t) - 1)
    ELSE queue

Queue_Remove(queue, t) ==
    IF Holds(queue, t)
    THEN RemoveAt(queue, CHOOSE i \in DOMAIN queue : queue[i] = t)
    ELSE queue

\* Dequeue one by one until empty, enqueueing each one on the other queue.
DrainTo_Reversed(queue, other) == other \o Reverse(queue)
DrainTo(queue, other) == other \o queue

Queue_IsEmpty(queue) == queue = <<>>

-----------------------------------------------------------------------------

\* CSC369_ThreadInit, called by main: slot 0 is main itself.
Init ==
    /\ thread_state = [t \in Tid |-> IF t = 0 THEN "RUNNING" ELSE "FREE"]
    /\ exit_code = [t \in Tid |-> 0]
    /\ join_threads = [t \in Tid |-> <<>>]
    /\ joinable = [t \in Tid |-> t = 0]
    /\ stack = [t \in Tid |-> t = 0]
    /\ ready_threads = <<>>
    /\ zombie_threads = <<>>
    /\ wait_queues = [w \in WaitQueues |-> <<>>]
    /\ allocated = {}
    /\ running = 0
    /\ ctx = [t \in Tid |-> IF t = 0 THEN "user" ELSE "none"]
    /\ arg = [t \in Tid |-> NULL]
    /\ saved = [t \in Tid |-> FALSE]
    /\ interrupts = TRUE
    /\ program = "up"
    /\ status = NULL
    /\ owed = [t \in Tid |-> NULL]
    /\ mask_set = [t \in Tid |-> TRUE]

InUserCode ==
    /\ program = "up"
    /\ running # NULL
    /\ ctx[running] = "user"

\* getcontext then setcontext: the running thread will resume in kind of
\* context k with argument a, and the mask every saved context carries is the
\* blocked one it was saved under.
SwitchFrom(k, a, prev) ==
    /\ ctx' = [ctx EXCEPT ![running] = k]
    /\ arg' = [arg EXCEPT ![running] = a]
    /\ saved' = [saved EXCEPT ![running] = prev]
    /\ interrupts' = FALSE

\* The state of a slot whose thread will never run again.
Retire(t) ==
    /\ ctx' = [ctx EXCEPT ![t] = "none"]
    /\ arg' = [arg EXCEPT ![t] = NULL]
    /\ saved' = [saved EXCEPT ![t] = FALSE]
    /\ mask_set' = [mask_set EXCEPT ![t] = TRUE]

\* An assertion fails, or a null or stale pointer is followed.
Stop(outcome) ==
    /\ program' = outcome
    /\ UNCHANGED <<tcb, ready_threads, zombie_threads, queues, running,
                   suspended, interrupts, status, owed, mask_set>>

-----------------------------------------------------------------------------
(* Creating threads. *)

\* findNewTcb: the lowest FREE slot.
IsNewTcb_Zombie(t) ==
    LET free(u) == thread_state[u] \in {"FREE", "ZOMBIE"}
    IN  free(t) /\ \A u \in Tid : free(u) => t <= u

IsNewTcb(t) ==
    /\ thread_state[t] = "FREE"
    /\ \A u \in Tid : thread_state[u] = "FREE" => t <= u

ThreadCreate ==
    /\ InUserCode
    /\ \E t \in Tid :
        /\ IsNewTcb(t)
        /\ thread_state' = [thread_state EXCEPT ![t] = "READY"]
        /\ exit_code' = [exit_code EXCEPT ![t] = EXIT_CODE_NORMAL]
        /\ join_threads' = [join_threads EXCEPT ![t] = <<>>]
        /\ joinable' = [joinable EXCEPT ![t] = TRUE]
        /\ stack' = [stack EXCEPT ![t] = TRUE]
        /\ ready_threads' = Queue_Enqueue(ready_threads, t)
        /\ ctx' = [ctx EXCEPT ![t] = "stub"]
    /\ UNCHANGED <<zombie_threads, queues, running, arg, saved, interrupts,
                   process, owed, mask_set>>

\* calloc finds no memory for the stack: the call returns SYS_MEM, and the slot
\* findNewTcb took stays READY.
ThreadCreateNoStack ==
    /\ InUserCode
    /\ MemoryCanFail
    /\ \E t \in Tid :
        /\ IsNewTcb(t)
        /\ thread_state' = [thread_state EXCEPT ![t] = "READY"]
        /\ exit_code' = [exit_code EXCEPT ![t] = EXIT_CODE_NORMAL]
        /\ stack' = [stack EXCEPT ![t] = FALSE]
    /\ UNCHANGED <<join_threads, joinable, ready_threads, zombie_threads,
                   queues, running, suspended, interrupts, process, owed,
                   mask_set>>

\* The stack is there but the join queue is not: Queue_Init asserts.
ThreadCreateNoQueue ==
    /\ InUserCode
    /\ MemoryCanFail
    /\ \E t \in Tid : IsNewTcb(t)
    /\ Stop("aborted")

-----------------------------------------------------------------------------
(* Giving the processor away. *)

\* CSC369_ThreadYield with a thread to yield to; k tells a call of the program
\* from the call HandleSignal makes.
YieldFrom(k, prev) ==
    /\ ~ Queue_IsEmpty(ready_threads)
    /\ thread_state' = [thread_state EXCEPT ![running] = "READY",
                                            ![Head(ready_threads)] = "RUNNING"]
    /\ ready_threads' = Queue_Enqueue(Tail(ready_threads), running)
    /\ running' = Head(ready_threads)
    /\ SwitchFrom(k, NULL, prev)
    /\ UNCHANGED <<exit_code, join_threads, joinable, stack, zombie_threads,
                   queues, process, owed, mask_set>>

ThreadYield == InUserCode /\ YieldFrom("yield", interrupts)

\* SIGALRM is delivered in user code.  In the exit window (program =
\* "exiting") the handler finds no ready thread and returns.
HandleSignal == InUserCode /\ interrupts /\ YieldFrom("handler", FALSE)

ThreadYieldTo(t) ==
    /\ InUserCode
    /\ thread_state[t] = "READY"
    /\ stack[t]
    /\ thread_state' = [thread_state EXCEPT ![running] = "READY",
                                            ![t] = "RUNNING"]
    /\ ready_threads' = Queue_Enqueue(Queue_Remove(ready_threads, t), running)
    /\ running' = t
    /\ SwitchFrom("yield", NULL, interrupts)
    /\ UNCHANGED <<exit_code, join_threads, joinable, stack, zombie_threads,
                   queues, process, owed, mask_set>>

\* The context of a READY slot that never got a stack is zero or stale.
ThreadYieldToNoStack(t) ==
    /\ InUserCode
    /\ thread_state[t] = "READY"
    /\ ~ stack[t]
    /\ Stop("undefined")

-----------------------------------------------------------------------------
(* Ending threads. *)

\* CSC369_ThreadExit with no joiner and a ready thread.
ThreadExitToReady(code) ==
    /\ InUserCode
    /\ Queue_IsEmpty(join_threads[running])
    /\ ~ Queue_IsEmpty(ready_threads)
    /\ thread_state' = [thread_state EXCEPT ![running] = "FREE",
                                            ![Head(ready_threads)] = "RUNNING"]
    /\ exit_code' = [exit_code EXCEPT ![running] = code]
    /\ ready_threads' = Tail(ready_threads)
    /\ running' = Head(ready_threads)
    /\ Retire(running)
    /\ interrupts' = FALSE
    /\ UNCHANGED <<join_threads, joinable, stack, zombie_threads, queues,
                   process, owed>>

\* With no joiner and nobody ready, the program exits: interrupts are as the
\* caller had them until my_on_exit disables them.
ThreadExitLast(code) ==
    /\ InUserCode
    /\ Queue_IsEmpty(join_threads[running])
    /\ Queue_IsEmpty(ready_threads)
    /\ thread_state' = [thread_state EXCEPT ![running] = "FREE"]
    /\ exit_code' = [exit_code EXCEPT ![running] = code]
    /\ running' = NULL
    /\ Retire(running)
    /\ program' = "exiting"
    /\ status' = code
    /\ UNCHANGED <<join_threads, joinable, stack, ready_threads,
                   zombie_threads, queues, interrupts, owed>>

\* With joiners, the first one runs at once and the others become ready.
ThreadExitToJoiner(code) ==
    LET joiners == join_threads[running]
        first == Head(joiners)
    IN  /\ InUserCode
        /\ ~ Queue_IsEmpty(joiners)
        /\ thread_state' = [t \in Tid |->
                IF t = first THEN "RUNNING"
                ELSE IF Holds(Tail(joiners), t) THEN "READY"
                ELSE IF t = running THEN "FREE"
                ELSE thread_state[t]]
        /\ exit_code' = [exit_code EXCEPT ![running] = code]
        /\ join_threads' = [join_threads EXCEPT ![running] = <<>>]
        /\ ready_threads' = DrainTo(Tail(joiners), ready_threads)
        /\ running' = first
        /\ Retire(running)
        /\ owed' = [t \in Tid |-> IF Holds(joiners, t) THEN code ELSE owed[t]]
        /\ interrupts' = FALSE
        /\ UNCHANGED <<joinable, stack, zombie_threads, queues, process>>

ThreadExit(code) ==
    \/ ThreadExitToReady(code)
    \/ ThreadExitLast(code)
    \/ ThreadExitToJoiner(code)

\* CSC369_ThreadKill of a READY or BLOCKED thread: it leaves the ready queue or
\* the join queue it is in (never a wait queue of the program), its joiners
\* become ready, and it becomes a zombie without a stack.
ThreadKill(t) ==
    /\ InUserCode
    /\ thread_state[t] \in {"READY", "BLOCKED"}
    /\ arg[t] \in WaitQueues => KillSleepers
    /\ joinable[t]
    /\ ready_threads' =
            DrainTo(join_threads[t],
                    IF thread_state[t] = "READY"
                    THEN Queue_Remove(ready_threads, t) ELSE ready_threads)
    /\ join_threads' = [k \in Tid |->
            IF k = t THEN <<>>
            ELSE IF thread_state[t] = "BLOCKED"
            THEN Queue_Remove(join_threads[k], t) ELSE join_threads[k]]
    /\ zombie_threads' = Queue_Enqueue(zombie_threads, t)
    /\ thread_state' = [k \in Tid |->
            IF k = t THEN "ZOMBIE"
            ELSE IF Holds(join_threads[t], k) THEN "READY"
            ELSE thread_state[k]]
    /\ stack' = [stack EXCEPT ![t] = FALSE]
    /\ exit_code' = [exit_code EXCEPT ![t] = EXIT_CODE_KILL]
    /\ Retire(t)
    /\ owed' = [k \in Tid |->
            IF k = t THEN NULL
            ELSE IF Holds(join_threads[t], k) THEN EXIT_CODE_KILL
            ELSE owed[k]]
    /\ UNCHANGED <<joinable, queues, running, interrupts, process>>

\* A slot that never got a join queue: Queue_IsEmpty(NULL) asserts.
ThreadKillNoQueue(t) ==
    /\ InUserCode
    /\ thread_state[t] \in {"READY", "BLOCKED"}
    /\ ~ joinable[t]
    /\ Stop("aborted")

-----------------------------------------------------------------------------
(* Wait queues. *)

WaitQueueCreate(w) ==
    /\ InUserCode
    /\ w \notin allocated
    /\ allocated' = allocated \cup {w}
    /\ wait_queues' = [wait_queues EXCEPT ![w] = <<>>]
    /\ UNCHANGED <<tcb, ready_threads, zombie_threads, running, suspended,
                   interrupts, process, owed, mask_set>>

WaitQueueDestroy(w) ==
    /\ InUserCode
    /\ w \in allocated
    /\ Queue_IsEmpty(wait_queues[w])
    /\ allocated' = allocated \ {w}
    /\ UNCHANGED <<tcb, ready_threads, zombie_threads, wait_queues, running,
                   suspended, interrupts, process, owed, mask_set>>

ThreadSleep(w) ==
    /\ InUserCode
    /\ w \in allocated
    /\ ~ Queue_IsEmpty(ready_threads)
    /\ thread_state' = [thread_state EXCEPT ![running] = "BLOCKED",
                                            ![Head(ready_threads)] = "RUNNING"]
    /\ wait_queues' = [wait_queues EXCEPT ![w] = Queue_Enqueue(@, running)]
    /\ ready_threads' = Tail(ready_threads)
    /\ running' = Head(ready_threads)
    /\ SwitchFrom("sleep", w, interrupts)
    /\ UNCHANGED <<exit_code, join_threads, joinable, stack, zombie_threads,
                   allocated, process, owed, mask_set>>

ThreadWakeNext(w) ==
    /\ InUserCode
    /\ w \in allocated
    /\ ~ Queue_IsEmpty(wait_queues[w])
    /\ LET wakeup == Head(wait_queues[w])
       IN  /\ thread_state' = [thread_state EXCEPT ![wakeup] = "READY"]
           /\ ready_threads' = Queue_Enqueue(ready_threads, wakeup)
           /\ arg' = [arg EXCEPT ![wakeup] = NULL]
    /\ wait_queues' = [wait_queues EXCEPT ![w] = Tail(@)]
    /\ UNCHANGED <<exit_code, join_threads, joinable, stack, zombie_threads,
                   allocated, running, ctx, saved, interrupts, process, owed,
                   mask_set>>

ThreadWakeAll(w) ==
    /\ InUserCode
    /\ w \in allocated
    /\ ~ Queue_IsEmpty(wait_queues[w])
    /\ thread_state' = [t \in Tid |->
            IF Holds(wait_queues[w], t) THEN "READY" ELSE thread_state[t]]
    /\ arg' = [t \in Tid |-> IF Holds(wait_queues[w], t) THEN NULL ELSE arg[t]]
    /\ ready_threads' = DrainTo(wait_queues[w], ready_threads)
    /\ wait_queues' = [wait_queues EXCEPT ![w] = <<>>]
    /\ UNCHANGED <<exit_code, join_threads, joinable, stack, zombie_threads,
                   allocated, running, ctx, saved, interrupts, process, owed,
                   mask_set>>

-----------------------------------------------------------------------------
(* Waiting for the end of a thread. *)

CanJoin_AnyState(t) ==
    /\ InUserCode
    /\ t # running
    /\ Len(join_threads[t]) < MaxJoiners

CanJoin(t) ==
    /\ InUserCode
    /\ thread_state[t] \in {"READY", "BLOCKED"}
    /\ Len(join_threads[t]) < MaxJoiners

ThreadJoin(t) ==
    /\ CanJoin(t)
    /\ joinable[t]
    /\ ~ Queue_IsEmpty(ready_threads)
    /\ thread_state' = [thread_state EXCEPT ![running] = "BLOCKED",
                                            ![Head(ready_threads)] = "RUNNING"]
    /\ join_threads' = [join_threads EXCEPT ![t] = Queue_Enqueue(@, running)]
    /\ ready_threads' = Tail(ready_threads)
    /\ running' = Head(ready_threads)
    /\ SwitchFrom("join", t, interrupts)
    /\ UNCHANGED <<exit_code, joinable, stack, zombie_threads, queues, process,
                   owed, mask_set>>

\* Nobody is ready: the NULL that Queue_Dequeue returns is written through.
ThreadJoinNobodyReady(t) ==
    /\ CanJoin(t)
    /\ joinable[t]
    /\ Queue_IsEmpty(ready_threads)
    /\ Stop("undefined")

\* A slot that never got a join queue: Queue_Enqueue(NULL, ...) asserts.
ThreadJoinNoQueue(t) ==
    /\ CanJoin(t)
    /\ ~ joinable[t]
    /\ Stop("aborted")

-----------------------------------------------------------------------------
(* What a thread does when a switch brings it back, and its mask. *)

\* running enters user code with SIGALRM unblocked or not.
EnterUserCode_Unmasked(mask) ==
    /\ ctx' = [ctx EXCEPT ![running] = "user"]
    /\ arg' = [arg EXCEPT ![running] = NULL]
    /\ saved' = [saved EXCEPT ![running] = FALSE]
    /\ interrupts' = TRUE
    /\ UNCHANGED <<tcb, ready_threads, zombie_threads, queues, running,
                   process>>

EnterUserCode(mask) ==
    /\ ctx' = [ctx EXCEPT ![running] = "user"]
    /\ arg' = [arg EXCEPT ![running] = NULL]
    /\ saved' = [saved EXCEPT ![running] = FALSE]
    /\ interrupts' = mask
    /\ UNCHANGED <<tcb, ready_threads, zombie_threads, queues, running,
                   process>>

Resumes(kinds) == program = "up" /\ running # NULL /\ ctx[running] \in kinds

\* MyThreadStub unblocks SIGALRM and calls the thread's function.
MyThreadStub ==
    /\ Resumes({"stub"})
    /\ EnterUserCode(TRUE)
    /\ UNCHANGED <<owed, mask_set>>

\* A yield or sleep call restores the mask it was called with and returns.
ReturnFromSwitch ==
    /\ Resumes({"yield", "sleep"})
    /\ EnterUserCode(saved[running])
    /\ UNCHANGED <<owed, mask_set>>

\* The handler returns, and the kernel restores the mask of the code it
\* interrupted, which had SIGALRM unblocked.
ReturnFromSignal ==
    /\ Resumes({"handler"})
    /\ EnterUserCode(TRUE)
    /\ UNCHANGED <<owed, mask_set>>

\* CSC369_ThreadJoin after its switch: it reads exit_code of its target and
\* returns; the debt is settled.
ReturnFromJoin ==
    /\ Resumes({"join"})
    /\ EnterUserCode(saved[running])
    /\ owed' = [owed EXCEPT ![running] = NULL]
    /\ UNCHANGED mask_set

\* CSC369_InterruptsSet, Enable and Disable, called by the program.
InterruptsSet(state) ==
    /\ InUserCode
    /\ interrupts' = state
    /\ mask_set' = [mask_set EXCEPT ![running] = state]
    /\ UNCHANGED <<tcb, ready_threads, zombie_threads, queues, running,
                   suspended, process, owed>>

-----------------------------------------------------------------------------
(* The end of the process. *)

\* my_on_exit, run by exit().
my_on_exit ==
    /\ interrupts' = FALSE
    /\ stack' = [t \in Tid |-> FALSE]
    /\ join_threads' = [t \in Tid |-> <<>>]
    /\ joinable' = [t \in Tid |-> FALSE]
    /\ program' = "exited"
    /\ UNCHANGED <<thread_state, exit_code, ready_threads, zombie_threads,
                   queues, running, suspended, owed, mask_set>>

\* The exit() of ThreadExit reaches the handlers of atexit.
ExitHandlers ==
    /\ program = "exiting"
    /\ my_on_exit
    /\ UNCHANGED status

\* A thread returns from main or calls exit() itself.
ProgramExit(code) ==
    /\ InUserCode
    /\ my_on_exit
    /\ status' = code

Over == program \in {"exited", "aborted", "undefined"}

Terminated == Over /\ UNCHANGED vars

-----------------------------------------------------------------------------

\* What a program may call.
Call ==
    \/ ThreadCreate
    \/ ThreadCreateNoStack
    \/ ThreadCreateNoQueue
    \/ ThreadYield
    \/ \E t \in Tid :
        \/ ThreadYieldTo(t)
        \/ ThreadYieldToNoStack(t)
        \/ ThreadKill(t)
        \/ ThreadKillNoQueue(t)
        \/ ThreadJoin(t)
        \/ ThreadJoinNobodyReady(t)
        \/ ThreadJoinNoQueue(t)
    \/ \E code \in ExitCodes : ThreadExit(code) \/ ProgramExit(code)
    \/ \E w \in WaitQueues :
        \/ WaitQueueCreate(w)
        \/ WaitQueueDestroy(w)
        \/ ThreadSleep(w)
        \/ ThreadWakeNext(w)
        \/ ThreadWakeAll(w)
    \/ \E state \in MaskSettings : InterruptsSet(state)

\* What happens without the program's doing.
Resume == MyThreadStub \/ ReturnFromSwitch \/ ReturnFromSignal \/ ReturnFromJoin

Next == Call \/ HandleSignal \/ Resume \/ ExitHandlers \/ Terminated

Spec == Init /\ [][Next]_vars

\* A thread that was switched to goes on, the process that called exit() ends,
\* and SIGALRM comes again and again: HandleSignal re-arms the timer before it
\* yields, and a signal that arrives while blocked stays pending until the mask
\* is lifted, so it is enough that user code is entered unmasked repeatedly.
FairSpec ==
    /\ Spec
    /\ WF_vars(Resume)
    /\ WF_vars(ExitHandlers)
    /\ SF_vars(HandleSignal)
-----------------------------------------------------------------------------
(* Properties. *)

\* Types of the state.
TypeOK ==
    /\ thread_state \in [Tid -> ThreadStates]
    /\ exit_code \in [Tid -> Int]
    /\ join_threads \in [Tid -> Seq(Tid)]
    /\ joinable \in [Tid -> BOOLEAN]
    /\ stack \in [Tid -> BOOLEAN]
    /\ ready_threads \in Seq(Tid)
    /\ zombie_threads \in Seq(Tid)
    /\ wait_queues \in [WaitQueues -> Seq(Tid)]
    /\ allocated \in SUBSET WaitQueues
    /\ running \in Tid \cup {NULL}
    /\ ctx \in [Tid -> Contexts]
    /\ arg \in [Tid -> Tid \cup WaitQueues \cup {NULL}]
    /\ saved \in [Tid -> BOOLEAN]
    /\ interrupts \in BOOLEAN
    /\ program \in {"up", "exiting"} \cup {"exited", "aborted", "undefined"}
    /\ status \in Int \cup {NULL}
    /\ owed \in [Tid -> Int \cup {NULL}]
    /\ mask_set \in [Tid -> BOOLEAN]

\* While the process runs, every thread is where its state says and nowhere
\* else: exactly the thread gThreadRunningHead points at is RUNNING, the ready
\* and zombie queues hold only READY and ZOMBIE threads, a BLOCKED thread hangs
\* on the one wait or join queue it was put in, and no queue holds a thread
\* twice.  The single pair of next and prev pointers of a TCB relies on it.
OneRunning ==
    \A t \in Tid : thread_state[t] = "RUNNING" <=> running = t

ReadyInState ==
    /\ IsInjective(ready_threads)
    /\ \A t \in Tid : Holds(ready_threads, t) => thread_state[t] = "READY"

ZombiesInState ==
    /\ IsInjective(zombie_threads)
    /\ \A t \in Tid : Holds(zombie_threads, t) <=> thread_state[t] = "ZOMBIE"

SleepersInState ==
    \A w \in WaitQueues :
        /\ IsInjective(wait_queues[w])
        /\ \A t \in Tid : Holds(wait_queues[w], t)
                            <=> thread_state[t] = "BLOCKED" /\ arg[t] = w

JoinersInState ==
    \A k \in Tid :
        /\ IsInjective(join_threads[k])
        /\ \A t \in Tid : Holds(join_threads[k], t)
                            <=> thread_state[t] = "BLOCKED" /\ arg[t] = k

QueuesMatchStates ==
    program = "up" => /\ OneRunning
                      /\ ReadyInState
                      /\ ZombiesInState
                      /\ SleepersInState
                      /\ JoinersInState

\* What the two above rest on: a wait queue that is not allocated holds nobody,
\* nobody waits for a thread that has ended, a thread that may still run has
\* the stack and the context to do so, and a blocked thread is in the one call
\* that can have blocked it.
NobodyOnFreedQueue ==
    \A w \in WaitQueues \ allocated : wait_queues[w] = <<>>

EndedHaveNoJoiners ==
    \A t \in Tid :
        thread_state[t] \in {"FREE", "ZOMBIE"} => join_threads[t] = <<>>

AliveCanRun ==
    \A t \in Tid :
        /\ thread_state[t] \in {"RUNNING", "BLOCKED"} \/ Holds(ready_threads, t)
            => stack[t]
        /\ thread_state[t] \in {"READY", "RUNNING", "BLOCKED"} /\ stack[t]
            => joinable[t] /\ ctx[t] # "none"

BlockedInCall ==
    \A t \in Tid : thread_state[t] = "BLOCKED" =>
        \/ ctx[t] = "join" /\ arg[t] \in Tid \ {t}
        \/ ctx[t] = "sleep" /\ arg[t] \in WaitQueues

\* The inductive invariant of the specification, for programs that do not kill
\* their own sleepers.
Consistent ==
    /\ running \in Tid
    /\ OneRunning
    /\ ReadyInState
    /\ ZombiesInState
    /\ SleepersInState
    /\ JoinersInState
    /\ NobodyOnFreedQueue
    /\ EndedHaveNoJoiners
    /\ AliveCanRun
    /\ BlockedInCall

ThreadInv == TypeOK /\ (program = "up" => Consistent)

\* Every thread that is READY is in the ready queue: READY and being about to
\* run never come apart (no lost wake-up, no forgotten yielder).
ReadyAreQueued ==
    program = "up" =>
        \A t \in Tid : thread_state[t] = "READY" => Holds(ready_threads, t)

\* The representation invariants the header gives a wait queue: its threads
\* are not running, and a thread is in no other queue of waiting threads; a
\* killed thread is no longer waiting.
WaitQueueRep ==
    program = "up" =>
        \A w \in WaitQueues, t \in Tid : Holds(wait_queues[w], t) =>
            /\ thread_state[t] = "BLOCKED"
            /\ ~ Holds(zombie_threads, t)
            /\ \A v \in WaitQueues \ {w} : ~ Holds(wait_queues[v], t)

\* A thread blocked in ThreadJoin waits for a thread that can still end: both
\* ThreadExit and ThreadKill let every joiner go.
JoinTargetsLive ==
    program = "up" =>
        \A t \in Tid : thread_state[t] = "BLOCKED" /\ ctx[t] = "join" =>
            thread_state[arg[t]] \in {"READY", "RUNNING", "BLOCKED"}

\* Only a thread with a stack is ever switched to; the assertions of
\* ThreadYield on ss_sp never fail, and a kill frees no stack still in use.
RunnableHasStack ==
    program = "up" =>
        \A t \in Tid : thread_state[t] = "RUNNING" \/ Holds(ready_threads, t)
            => stack[t] /\ joinable[t] /\ ctx[t] # "none"

\* In its own code a thread runs under the mask it last asked for, whatever
\* switches, preemptions and hand-overs lie between; a new thread is unmasked.
MaskRestored == InUserCode => interrupts = mask_set[running]

\* When ThreadJoin goes on to read exit_code, it reads the code its target left
\* with, not that of a later thread in the same slot.
JoinerSeesExitCode ==
    Resumes({"join"}) => exit_code[arg[running]] = owed[running]

Before(queue, a, b) ==
    \E i, j \in DOMAIN queue : i < j /\ queue[i] = a /\ queue[j] = b

\* a waits before b in queue q; b leaves it alive only with or after a, and if
\* both are ready then, in their order.
Overtakes(q, qq, b, a) ==
    /\ Before(q, a, b)
    /\ ~ Holds(qq, b)
    /\ thread_state'[b] # "ZOMBIE"
    /\ \/ Holds(qq, a)
       \/ Holds(ready_threads', a) /\ ~ Before(ready_threads', a, b)

\* Wait queues and join queues are left in first-in first-out order, one by
\* one (ThreadWakeNext), all at once (ThreadWakeAll, ThreadKill) or with the
\* first one handed the processor (ThreadExit).
LeaveInOrder ==
    [][program' # "exited" => \A a, b \in Tid :
        /\ \A w \in WaitQueues :
                ~ Overtakes(wait_queues[w], wait_queues'[w], b, a)
        /\ \A k \in Tid : ~ Overtakes(join_threads[k], join_threads'[k], b, a)]_vars

\* A killed thread stays dead: nothing that wakes, joins or creates threads
\* takes a zombie for one of its own, and its exit code stays the killed one.
KilledStaysDead ==
    [][\A t \in Tid : thread_state[t] = "ZOMBIE" =>
            thread_state'[t] = "ZOMBIE" /\ exit_code'[t] = EXIT_CODE_KILL]_vars

\* Every ready thread eventually runs, is killed, or the process is over.
ReadyRuns ==
    \A t \in Tid : thread_state[t] = "READY" ~> thread_state[t] # "READY" \/ Over

\* A joiner whose target has ended gets to read its code and return, unless it
\* is killed first or the process is over.
JoinersReturn ==
    \A t \in Tid : owed[t] # NULL ~> owed[t] = NULL \/ Over
=============================================================================
