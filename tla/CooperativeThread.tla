-------------------------- MODULE CooperativeThread --------------------------
(***************************************************************************)
(* The cooperative thread library of a1-chenz347/src/csc369_thread.c.  One *)
(* thread runs until it calls the library, so an action is one call of the *)
(* running thread; what the call does after it is switched back to is to   *)
(* return.  A thread whose function returns calls ThreadExit               *)
(* (MyThreadStub).  Calls that return an error without a change are        *)
(* stutters.                                                               *)
(*                                                                         *)
(* The ready queue is the chain of next pointers from gThreadReadyHead.    *)
(* Stacks are the addresses malloc returned.  A call that hands free an    *)
(* address that is not allocated, or the stack of another live thread, is  *)
(* undefined behaviour: it ends the model, and outcome says which it was.  *)
(***************************************************************************)
EXTENDS Integers, Sequences, FiniteSets

CONSTANTS
    MaxThreads,     \* CSC369_MAX_THREADS
    Addresses,      \* what malloc may return
    NULL,
    MallocCanFail   \* also when an address is left

Tids == 0 .. MaxThreads - 1

ASSUME ThreadsAssumption == MaxThreads \in Nat \ {0}
ASSUME AddressesAssumption == NULL \notin Tids \cup Addresses
ASSUME MallocAssumption == MallocCanFail \in BOOLEAN

VARIABLES
    thread_state,
    next,
    ss_sp,                  \* user_level_context.uc_stack.ss_sp
    gThreadRunningHead, gThreadReadyHead,
    allocated,              \* the addresses that have not been freed
    outcome                 \* "run", or how the program ended

threads == <<thread_state, next, gThreadRunningHead, gThreadReadyHead>>
vars == <<threads, ss_sp, allocated, outcome>>

States == {"BLOCKED", "RUNNING", "READY"}
Outcomes == {"run", "exit", "NULL dereference", "double free", "stack freed"}

-----------------------------------------------------------------------------
(* The ready queue. *)

\* The threads a walk along link from head meets: they are in every set that
\* holds the head and, with a thread, the one behind it.
OnChain(link, head) ==
    {t \in Tids : \A S \in SUBSET Tids :
        head \in S \cup {NULL} /\ (\A p \in S : link[p] \in S \cup {NULL})
            => t \in S}

\* The last thread of the chain, and the one before t, as one-element sets.
LastOf(link, head) == {p \in OnChain(link, head) : link[p] = NULL}
Before(link, head, t) == {p \in OnChain(link, head) : link[p] = t}

\* The links, and the head, when t is put at the end of the chain.  A name with
\* a suffix is a bug that could have been made in the definition of the name
\* before the suffix.
AppendedHead(head, t) == IF head = NULL THEN t ELSE head
Appended_KeepsNext(link, head, t) ==
    [p \in Tids |-> IF p \in LastOf(link, head) THEN t ELSE link[p]]
Appended_BehindHead(link, head, t) ==
    [p \in Tids |-> IF p = t THEN (IF head = NULL THEN NULL ELSE link[head])
                    ELSE IF p = head THEN t
                    ELSE link[p]]
Appended(link, head, t) ==
    [p \in Tids |-> IF p = t THEN NULL
                    ELSE IF p \in LastOf(link, head) THEN t
                    ELSE link[p]]

\* The links, and the head, when t is taken out.
RemovedHead(link, head, t) == IF head = t THEN link[t] ELSE head
Removed_CutsRest(link, head, t) ==
    [p \in Tids |-> IF head # t /\ p \in Before(link, head, t) THEN NULL
                    ELSE link[p]]
Removed(link, head, t) ==
    [p \in Tids |-> IF head # t /\ p \in Before(link, head, t) THEN link[t]
                    ELSE link[p]]

\* The search of ThreadKill and ThreadYieldTo runs into the end of the queue.
NotFound(t) == t \notin OnChain(next, gThreadReadyHead)

-----------------------------------------------------------------------------
(* The stacks. *)

Live(t) == thread_state[t] # "BLOCKED"

\* How a free of the pointer in t's slot ends.
FreeEnds(t) ==
    IF ss_sp[t] = NULL THEN "run"
    ELSE IF ss_sp[t] \notin allocated THEN "double free"
    ELSE IF \E u \in Tids \ {t} : Live(u) /\ ss_sp[u] = ss_sp[t]
    THEN "stack freed"
    ELSE "run"

End(how) ==
    /\ outcome' = how
    /\ UNCHANGED <<threads, ss_sp, allocated>>

-----------------------------------------------------------------------------

Init ==
    /\ thread_state = [t \in Tids |-> IF t = 0 THEN "RUNNING" ELSE "BLOCKED"]
    /\ next = [t \in Tids |-> NULL]
    /\ ss_sp = [t \in Tids |-> NULL]
    /\ gThreadRunningHead = 0
    /\ gThreadReadyHead = NULL
    /\ allocated = {}
    /\ outcome = "run"

\* findNewTcb: the first slot that is free.
IsNewTcb(t) ==
    /\ thread_state[t] = "BLOCKED"
    /\ \A u \in Tids : thread_state[u] = "BLOCKED" => t <= u

\* The stack the slot's last thread left is freed before malloc, which may
\* return the same address again.
OldStackFreed_Kept(t) == allocated
OldStackFreed(t) == allocated \ {ss_sp[t]}

ThreadCreate(t) ==
    /\ IsNewTcb(t)
    /\ FreeEnds(t) = "run"
    /\ \E stack \in Addresses \ OldStackFreed(t) :
        /\ ss_sp' = [ss_sp EXCEPT ![t] = stack]
        /\ allocated' = OldStackFreed(t) \cup {stack}
    /\ gThreadReadyHead' = AppendedHead(gThreadReadyHead, t)
    /\ next' = Appended(next, gThreadReadyHead, t)
    /\ thread_state' = [thread_state EXCEPT ![t] = "READY"]
    /\ UNCHANGED <<gThreadRunningHead, outcome>>

\* The slot keeps the pointer that has just been freed.
ThreadCreateNoMemory(t) ==
    /\ IsNewTcb(t)
    /\ FreeEnds(t) = "run"
    /\ MallocCanFail \/ Addresses \subseteq OldStackFreed(t)
    /\ allocated' = OldStackFreed(t)
    /\ UNCHANGED <<threads, ss_sp, outcome>>

ThreadCreateUndefined(t) ==
    /\ IsNewTcb(t)
    /\ FreeEnds(t) # "run"
    /\ End(FreeEnds(t))

\* The next thread runs; the stack of the one that exits stays until its slot
\* is used again.
Exited_OtherState(t) == [thread_state EXCEPT ![t] = "EXITED"]
Exited(t) == [thread_state EXCEPT ![t] = "BLOCKED"]

ThreadExit ==
    LET first_ready == gThreadReadyHead
    IN  /\ first_ready # NULL
        /\ thread_state' = [Exited(gThreadRunningHead)
                                EXCEPT ![first_ready] = "RUNNING"]
        /\ next' = [next EXCEPT ![gThreadRunningHead] = NULL]
        /\ gThreadReadyHead' = next[first_ready]
        /\ gThreadRunningHead' = first_ready
        /\ UNCHANGED <<ss_sp, allocated, outcome>>

\* The last thread frees the stack it runs on and exits with code 0.
ThreadExitLast ==
    /\ gThreadReadyHead = NULL
    /\ IF FreeEnds(gThreadRunningHead) = "run"
       THEN /\ thread_state' = Exited(gThreadRunningHead)
            /\ next' = [next EXCEPT ![gThreadRunningHead] = NULL]
            /\ gThreadRunningHead' = NULL
            /\ allocated' = allocated \ {ss_sp[gThreadRunningHead]}
            /\ outcome' = "exit"
            /\ UNCHANGED <<gThreadReadyHead, ss_sp>>
       ELSE End(FreeEnds(gThreadRunningHead))

\* The stack is freed, and the slot keeps the pointer.
Killed_StaysReady(t) == thread_state
Killed(t) == [thread_state EXCEPT ![t] = "BLOCKED"]

ThreadKill(t) ==
    /\ thread_state[t] = "READY"
    /\ IF NotFound(t) THEN End("NULL dereference")
       ELSE IF FreeEnds(t) # "run" THEN End(FreeEnds(t))
       ELSE /\ gThreadReadyHead' = RemovedHead(next, gThreadReadyHead, t)
            /\ next' = [Removed(next, gThreadReadyHead, t) EXCEPT ![t] = NULL]
            /\ thread_state' = Killed(t)
            /\ allocated' = allocated \ {ss_sp[t]}
            /\ UNCHANGED <<gThreadRunningHead, ss_sp, outcome>>

\* The running thread goes to the end of the queue that head and link are, and
\* t runs.
SwitchTo(t, link, head) ==
    /\ gThreadReadyHead' = AppendedHead(head, gThreadRunningHead)
    /\ next' = Appended(link, head, gThreadRunningHead)
    /\ thread_state' = [thread_state EXCEPT ![gThreadRunningHead] = "READY",
                                            ![t] = "RUNNING"]
    /\ gThreadRunningHead' = t
    /\ UNCHANGED <<ss_sp, allocated, outcome>>

ThreadYield ==
    /\ gThreadReadyHead # NULL
    /\ SwitchTo(gThreadReadyHead, next, next[gThreadReadyHead])

ThreadYieldTo(t) ==
    /\ thread_state[t] = "READY"
    /\ IF NotFound(t) THEN End("NULL dereference")
       ELSE SwitchTo(t, Removed(next, gThreadReadyHead, t),
                     RemovedHead(next, gThreadReadyHead, t))

Call(t) ==
    \/ ThreadCreate(t)
    \/ ThreadCreateNoMemory(t)
    \/ ThreadCreateUndefined(t)
    \/ ThreadKill(t)
    \/ ThreadYieldTo(t)

Ended == outcome # "run" /\ UNCHANGED vars

Next ==
    \/ /\ outcome = "run"
       /\ \/ ThreadExit
          \/ ThreadExitLast
          \/ ThreadYield
          \/ \E t \in Tids : Call(t)
    \/ Ended

Spec == Init /\ [][Next]_vars

\* Nothing preempts a thread: the others only run if the running one goes on
\* calling ThreadYield.
YieldFairness == WF_vars(outcome = "run" /\ ThreadYield)
FairSpec == Spec /\ YieldFairness

-----------------------------------------------------------------------------
(* Properties. *)

\* Types of the state.
TypeOK ==
    /\ thread_state \in [Tids -> States]
    /\ next \in [Tids -> Tids \cup {NULL}]
    /\ ss_sp \in [Tids -> Addresses \cup {NULL}]
    /\ gThreadRunningHead \in Tids \cup {NULL}
    /\ gThreadReadyHead \in Tids \cup {NULL}
    /\ allocated \subseteq Addresses
    /\ outcome \in Outcomes

\* The chain of next pointers from the head holds the READY threads and no
\* other, although the running thread and free slots keep pointers into it;
\* one thread is RUNNING, until the last one exits.  So the searches of
\* ThreadKill and ThreadYieldTo never run into the end of the chain.
QueueHoldsReady ==
    /\ OnChain(next, gThreadReadyHead) = {t \in Tids : thread_state[t] = "READY"}
    /\ {t \in Tids : thread_state[t] = "RUNNING"} = {gThreadRunningHead} \ {NULL}
    /\ outcome # "NULL dereference"

\* Until the library has freed a pointer it should not have, every thread that
\* is alive has a stack of its own (the main thread the one it started on),
\* although slots keep pointers to stacks that were freed and handed out again.
StacksApart ==
    \A t \in Tids : Live(t) =>
        /\ ss_sp[t] = NULL => t = 0
        /\ ss_sp[t] # NULL => ss_sp[t] \in allocated
        /\ \A u \in Tids \ {t} : Live(u) => ss_sp[u] # ss_sp[t]

\* No stack is leaked: a slot still points at it, and frees it when it is used
\* again, although ThreadExit leaves the stack of the thread that exits.
StacksHeld == \A a \in allocated : \E t \in Tids : ss_sp[t] = a

\* free is never called twice for the same stack.
NoDoubleFree == outcome # "double free"

\* A ready thread runs, or is killed, as long as threads go on yielding: a
\* ThreadYieldTo that goes past it never takes it back in the queue.
ReadyRuns ==
    \A t \in Tids :
        thread_state[t] = "READY" ~>
            thread_state[t] # "READY" \/ outcome # "run"

\* The nodes a walk along the chain meets, NULL from its end on.
Walk ==
    LET nth[k \in 1 .. MaxThreads] ==
            IF k = 1 THEN gThreadReadyHead
            ELSE IF nth[k - 1] = NULL THEN NULL
            ELSE next[nth[k - 1]]
    IN  nth

\* The threads of the chain in order.
Waiting ==
    LET length == Cardinality({k \in 1 .. MaxThreads : Walk[k] # NULL})
    IN  [k \in 1 .. length |-> Walk[k]]

Scheduler == INSTANCE CooperativeScheduler WITH
                Main <- 0,
                running <- gThreadRunningHead,
                waiting <- Waiting,
                ended <- outcome = "exit"

\* The linked list implements the abstract queue: ThreadYield puts the caller
\* behind all threads that are ready then, ThreadYieldTo and ThreadKill take
\* out the thread they name and leave the others in order, and the program
\* exits only with the last thread.
ImplementsScheduler == Scheduler!SchedSpec
=============================================================================
