-------------------------- MODULE ThreadCallProofs --------------------------
(***************************************************************************)
(* More proofs about CSC369Thread, on top of ThreadInv: what a thread      *)
(* finds when a call returns to it, that killed threads stay dead, and     *)
(* that no thread that is READY is lost.                                   *)
(***************************************************************************)
EXTENDS ThreadProofs

USE ThreadsAssumption, CodesAssumption, NamesAssumption, ClientAssumption

\* A thread that is neither running, nor in the ready queue, nor waiting.
InNoQueue(t) ==
    /\ t # running
    /\ ~ Holds(ready_threads, t)
    /\ \A w \in WaitQueues : ~ Holds(wait_queues[w], t)
    /\ \A k \in Tid : ~ Holds(join_threads[k], t)

\* A thread that has ended, or whose slot is free, is in none of the queues.
LEMMA EndedInNoQueue ==
    ASSUME ThreadInv, program = "up", NEW t \in Tid,
           thread_state[t] \in {"FREE", "ZOMBIE"}
    PROVE  InNoQueue(t)
  BY DEF ThreadInv, Consistent, OneRunning, ReadyInState, SleepersInState,
         JoinersInState, InNoQueue

\* The first ready thread is one, and it is not the one that runs.
LEMMA HeadIsReady ==
    ASSUME ThreadInv, program = "up", ~ Queue_IsEmpty(ready_threads)
    PROVE  /\ Head(ready_threads) \in Tid
           /\ Holds(ready_threads, Head(ready_threads))
           /\ thread_state[Head(ready_threads)] = "READY"
           /\ Head(ready_threads) # running
  BY DequeueFacts
     DEF ThreadInv, TypeOK, Consistent, OneRunning, ReadyInState, Queue_IsEmpty

-----------------------------------------------------------------------------
(* Killed threads. *)

\* No step touches the state or the code of a killed thread.
LEMMA ZombieStep ==
    ASSUME ThreadInv, [Next]_vars,
           NEW t \in Tid, thread_state[t] = "ZOMBIE"
    PROVE  thread_state'[t] = "ZOMBIE" /\ exit_code'[t] = exit_code[t]
<1> USE DEF ThreadInv, TypeOK
<1>1. program = "up" => InNoQueue(t)
  BY EndedInNoQueue
<1>2. ASSUME UNCHANGED <<thread_state, exit_code>>
      PROVE  thread_state'[t] = "ZOMBIE" /\ exit_code'[t] = exit_code[t]
  BY <1>2
<1>3. CASE ThreadCreate \/ ThreadCreateNoStack
  BY <1>3 DEF ThreadCreate, ThreadCreateNoStack, IsNewTcb
<1>4. ASSUME NEW k, NEW prev, InUserCode, YieldFrom(k, prev)
      PROVE  thread_state'[t] = "ZOMBIE" /\ exit_code'[t] = exit_code[t]
  BY <1>1, <1>4, HeadIsReady DEF InNoQueue, YieldFrom, InUserCode
<1>5. ASSUME NEW u \in Tid, ThreadYieldTo(u)
      PROVE  thread_state'[t] = "ZOMBIE" /\ exit_code'[t] = exit_code[t]
  BY <1>1, <1>5 DEF InNoQueue, ThreadYieldTo, InUserCode
<1>6. ASSUME NEW code, ThreadExit(code)
      PROVE  thread_state'[t] = "ZOMBIE" /\ exit_code'[t] = exit_code[t]
  <2>1. CASE ThreadExitToReady(code)
    BY <1>1, <2>1, HeadIsReady DEF InNoQueue, ThreadExitToReady, InUserCode
  <2>2. CASE ThreadExitLast(code)
    BY <1>1, <2>2 DEF InNoQueue, ThreadExitLast, InUserCode
  <2>3. CASE ThreadExitToJoiner(code)
    <3> DEFINE joiners == join_threads[running]
    <3>1. running \in Tid /\ joiners \in Seq(Tid) /\ joiners # <<>>
      BY <2>3 DEF ThreadExitToJoiner, InUserCode, Queue_IsEmpty
    <3>2. t # Head(joiners) /\ ~ Holds(Tail(joiners), t)
      BY <1>1, <2>3, <3>1, DequeueFacts
         DEF InNoQueue, ThreadExitToJoiner, InUserCode
    <3> QED
      BY <1>1, <2>3, <3>1, <3>2
         DEF InNoQueue, ThreadExitToJoiner, InUserCode
  <2> QED BY <1>6, <2>1, <2>2, <2>3 DEF ThreadExit
<1>7. ASSUME NEW u \in Tid, ThreadKill(u)
      PROVE  thread_state'[t] = "ZOMBIE" /\ exit_code'[t] = exit_code[t]
  BY <1>1, <1>7 DEF InNoQueue, ThreadKill, InUserCode
<1>8. ASSUME NEW w \in WaitQueues, ThreadSleep(w)
      PROVE  thread_state'[t] = "ZOMBIE" /\ exit_code'[t] = exit_code[t]
  BY <1>1, <1>8, HeadIsReady DEF InNoQueue, ThreadSleep, InUserCode
<1>9. ASSUME NEW w \in WaitQueues, ThreadWakeNext(w)
      PROVE  thread_state'[t] = "ZOMBIE" /\ exit_code'[t] = exit_code[t]
  <2>1. wait_queues[w] \in Seq(Tid) /\ wait_queues[w] # <<>>
    BY <1>9 DEF ThreadWakeNext, Queue_IsEmpty
  <2>2. t # Head(wait_queues[w])
    BY <1>1, <1>9, <2>1, DequeueFacts DEF InNoQueue, ThreadWakeNext, InUserCode
  <2> QED BY <1>9, <2>2 DEF ThreadWakeNext
<1>10. ASSUME NEW w \in WaitQueues, ThreadWakeAll(w)
       PROVE  thread_state'[t] = "ZOMBIE" /\ exit_code'[t] = exit_code[t]
  BY <1>1, <1>10 DEF InNoQueue, ThreadWakeAll, InUserCode
<1>11. ASSUME NEW u \in Tid, ThreadJoin(u)
       PROVE  thread_state'[t] = "ZOMBIE" /\ exit_code'[t] = exit_code[t]
  BY <1>1, <1>11, HeadIsReady DEF InNoQueue, ThreadJoin, CanJoin, InUserCode
<1>12. ASSUME NEW w \in WaitQueues, WaitQueueCreate(w) \/ WaitQueueDestroy(w)
       PROVE  UNCHANGED <<thread_state, exit_code>>
  BY <1>12 DEF WaitQueueCreate, WaitQueueDestroy, tcb
<1>13. ASSUME NEW outcome, Stop(outcome)
       PROVE  UNCHANGED <<thread_state, exit_code>>
  BY <1>13 DEF Stop, tcb
<1>14. ASSUME Resume \/ ExitHandlers \/ (\E state : InterruptsSet(state))
                \/ (\E code : ProgramExit(code)) \/ UNCHANGED vars
       PROVE  UNCHANGED <<thread_state, exit_code>>
  BY <1>14
     DEF Resume, MyThreadStub, ReturnFromSwitch, ReturnFromSignal,
         ReturnFromJoin, EnterUserCode, ExitHandlers, my_on_exit, ProgramExit,
         InterruptsSet, vars, tcb
<1> QED
  BY <1>2, <1>3, <1>4, <1>5, <1>6, <1>7, <1>8, <1>9, <1>10, <1>11, <1>12,
     <1>13, <1>14
     DEF Next, Call, ThreadYield, HandleSignal, ThreadCreateNoQueue,
         ThreadYieldToNoStack, ThreadKillNoQueue, ThreadJoinNobodyReady,
         ThreadJoinNoQueue, Terminated

\* Only a kill makes a zombie, and it leaves the killed code.
ZombiesHaveKillCode ==
    \A t \in Tid : thread_state[t] = "ZOMBIE" => exit_code[t] = EXIT_CODE_KILL

\* No step changes the code of a zombie or makes one with another code.
LEMMA KillCodeStep ==
    ASSUME ThreadInv, ZombiesHaveKillCode, [Next]_vars
    PROVE  ZombiesHaveKillCode'
<1> SUFFICES ASSUME NEW t \in Tid, thread_state'[t] = "ZOMBIE",
                    thread_state[t] # "ZOMBIE"
             PROVE  exit_code'[t] = EXIT_CODE_KILL
  BY ZombieStep DEF ZombiesHaveKillCode
<1> USE DEF ThreadInv, TypeOK
<1>1. ASSUME ThreadCreate \/ ThreadCreateNoStack PROVE FALSE
  BY <1>1 DEF ThreadCreate, ThreadCreateNoStack
<1>2. ASSUME NEW k, NEW prev, YieldFrom(k, prev) PROVE FALSE
  BY <1>2 DEF YieldFrom
<1>3. ASSUME NEW u \in Tid, ThreadYieldTo(u) \/ ThreadJoin(u) PROVE FALSE
  <2>1. CASE ThreadYieldTo(u)
    BY <2>1 DEF ThreadYieldTo
  <2>2. CASE ThreadJoin(u)
    BY <2>2 DEF ThreadJoin
  <2> QED BY <1>3, <2>1, <2>2
<1>4. ASSUME NEW code, ThreadExit(code) PROVE FALSE
  <2>1. CASE ThreadExitToReady(code)
    BY <2>1 DEF ThreadExitToReady
  <2>2. CASE ThreadExitLast(code)
    BY <2>2 DEF ThreadExitLast
  <2>3. CASE ThreadExitToJoiner(code)
    BY <2>3 DEF ThreadExitToJoiner
  <2> QED BY <1>4, <2>1, <2>2, <2>3 DEF ThreadExit
<1>5. ASSUME NEW u \in Tid, ThreadKill(u)
      PROVE  exit_code'[t] = EXIT_CODE_KILL
  BY <1>5 DEF ThreadKill
<1>6. ASSUME NEW w \in WaitQueues,
             ThreadSleep(w) \/ ThreadWakeNext(w) \/ ThreadWakeAll(w)
      PROVE  FALSE
  <2>1. CASE ThreadSleep(w)
    BY <2>1 DEF ThreadSleep
  <2>2. CASE ThreadWakeNext(w)
    BY <2>2 DEF ThreadWakeNext
  <2>3. CASE ThreadWakeAll(w)
    BY <2>3 DEF ThreadWakeAll
  <2> QED BY <1>6, <2>1, <2>2, <2>3
<1>7. ASSUME NEW w \in WaitQueues, WaitQueueCreate(w) \/ WaitQueueDestroy(w)
      PROVE  FALSE
  BY <1>7 DEF WaitQueueCreate, WaitQueueDestroy, tcb
<1>8. ASSUME NEW outcome, Stop(outcome) PROVE FALSE
  BY <1>8 DEF Stop, tcb
<1>9. ASSUME Resume \/ ExitHandlers \/ (\E state : InterruptsSet(state))
               \/ (\E code : ProgramExit(code)) \/ UNCHANGED vars
      PROVE  FALSE
  BY <1>9
     DEF Resume, MyThreadStub, ReturnFromSwitch, ReturnFromSignal,
         ReturnFromJoin, EnterUserCode, ExitHandlers, my_on_exit, ProgramExit,
         InterruptsSet, vars, tcb
<1> QED
  BY <1>1, <1>2, <1>3, <1>4, <1>5, <1>6, <1>7, <1>8, <1>9
     DEF Next, Call, ThreadYield, HandleSignal, ThreadCreateNoQueue,
         ThreadYieldToNoStack, ThreadKillNoQueue, ThreadJoinNobodyReady,
         ThreadJoinNoQueue, Terminated

\* A killed thread is never run, woken or created again, and the code a join
\* would read stays the one of the kill.
THEOREM KilledCorrect == ~ KillSleepers => (Spec => KilledStaysDead)
<1> SUFFICES ASSUME ~ KillSleepers PROVE Spec => KilledStaysDead
  OBVIOUS
<1>1. Init => ZombiesHaveKillCode
  BY DEF Init, ZombiesHaveKillCode
<1>2. ThreadInv /\ ZombiesHaveKillCode /\ [Next]_vars => ZombiesHaveKillCode'
  BY KillCodeStep
<1>3. ThreadInv /\ ZombiesHaveKillCode /\ [Next]_vars =>
        [\A t \in Tid : thread_state[t] = "ZOMBIE" =>
            thread_state'[t] = "ZOMBIE" /\ exit_code'[t] = EXIT_CODE_KILL]_vars
  BY ZombieStep DEF ZombiesHaveKillCode
<1>4. Spec => []ThreadInv
  BY Invariance
<1> QED BY <1>1, <1>2, <1>3, <1>4, PTL DEF Spec, KilledStaysDead

-----------------------------------------------------------------------------
(* READY threads. *)

\* A process that is up was up before: its end is final.
LEMMA UpBefore ==
    ASSUME [Next]_vars, program' = "up"
    PROVE  program = "up"
  BY DEF Next, vars, process, Call, ThreadCreate, ThreadCreateNoStack,
         ThreadCreateNoQueue, ThreadYield, YieldFrom, HandleSignal,
         ThreadYieldTo, ThreadYieldToNoStack, ThreadKill, ThreadKillNoQueue,
         ThreadJoin, ThreadJoinNobodyReady, ThreadJoinNoQueue, ThreadExit,
         ThreadExitToReady, ThreadExitLast, ThreadExitToJoiner, ProgramExit,
         WaitQueueCreate, WaitQueueDestroy, ThreadSleep, ThreadWakeNext,
         ThreadWakeAll, InterruptsSet, Resume, MyThreadStub, ReturnFromSwitch,
         ReturnFromSignal, ReturnFromJoin, EnterUserCode, ExitHandlers,
         Terminated, InUserCode, CanJoin, Resumes, my_on_exit, Stop

\* Whatever makes a thread READY puts it in the ready queue, and whatever takes
\* it out gives it another state, if no slot is lost to failing memory.
LEMMA ReadyStep ==
    ASSUME ThreadInv, ReadyAreQueued, ~ MemoryCanFail, [Next]_vars
    PROVE  ReadyAreQueued'
<1> SUFFICES ASSUME program' = "up", NEW t \in Tid, thread_state'[t] = "READY"
             PROVE  Holds(ready_threads', t)
  BY DEF ReadyAreQueued
<1> USE DEF ThreadInv, TypeOK
<1>1. program = "up" /\ (thread_state[t] = "READY" => Holds(ready_threads, t))
  BY UpBefore DEF ReadyAreQueued
<1>2. running \in Tid /\ ready_threads \in Seq(Tid) /\ IsInjective(ready_threads)
  BY <1>1 DEF Consistent, ReadyInState
<1>3. ASSUME UNCHANGED <<thread_state, ready_threads>>
      PROVE  Holds(ready_threads', t)
  BY <1>1, <1>3
<1>4. CASE ThreadCreate
  <2>1. PICK u \in Tid : ThreadCreate!2!(u)
    BY <1>4 DEF ThreadCreate
  <2> QED BY <1>1, <1>2, <2>1, EnqueueFacts
<1>5. ASSUME ThreadCreateNoStack PROVE FALSE
  BY <1>5 DEF ThreadCreateNoStack
<1>6. ASSUME ~ Queue_IsEmpty(ready_threads)
      PROVE  /\ Tail(ready_threads) \in Seq(Tid)
             /\ Holds(ready_threads, t) /\ t # Head(ready_threads)
                    => Holds(Tail(ready_threads), t)
  BY <1>2, <1>6, DequeueFacts DEF Queue_IsEmpty
<1>7. ASSUME NEW k, NEW prev, YieldFrom(k, prev)
      PROVE  Holds(ready_threads', t)
  <2>1. thread_state'[t] = IF t = Head(ready_threads) THEN "RUNNING"
                           ELSE IF t = running THEN "READY"
                           ELSE thread_state[t]
    BY <1>2, <1>7, HeadIsReady DEF YieldFrom
  <2>2. Holds(Tail(ready_threads), t) \/ t = running
    BY <1>1, <1>6, <1>7, <2>1 DEF YieldFrom
  <2> QED BY <1>2, <1>6, <1>7, <2>2, EnqueueFacts DEF YieldFrom
<1>8. ASSUME NEW u \in Tid, ThreadYieldTo(u)
      PROVE  Holds(ready_threads', t)
  <2>1. t # u /\ (Holds(ready_threads, t) \/ t = running)
    BY <1>1, <1>2, <1>8 DEF ThreadYieldTo
  <2>2. Queue_Remove(ready_threads, u) \in Seq(Tid)
        /\ (Holds(Queue_Remove(ready_threads, u), t) \/ t = running)
    BY <1>2, <2>1, RemoveFacts
  <2> QED BY <1>2, <1>8, <2>2, EnqueueFacts DEF ThreadYieldTo
<1>9. ASSUME NEW code, ThreadExit(code) PROVE Holds(ready_threads', t)
  <2>1. CASE ThreadExitToReady(code)
    <3>1. t # Head(ready_threads) /\ Holds(ready_threads, t)
      BY <1>1, <1>2, <2>1, HeadIsReady DEF ThreadExitToReady
    <3>2. Holds(Tail(ready_threads), t)
      BY <1>6, <2>1, <3>1 DEF ThreadExitToReady
    <3>3. ready_threads' = Tail(ready_threads)
      BY <2>1 DEF ThreadExitToReady
    <3> QED BY <3>2, <3>3
  <2>2. ASSUME ThreadExitLast(code) PROVE FALSE
    BY <2>2 DEF ThreadExitLast
  <2>3. CASE ThreadExitToJoiner(code)
    <3> DEFINE joiners == join_threads[running]
    <3>1. Tail(joiners) \in Seq(Tid)
      BY <1>2, <2>3, DequeueFacts DEF ThreadExitToJoiner, Queue_IsEmpty
    <3>2. Holds(Tail(joiners), t) \/ Holds(ready_threads, t)
      BY <1>1, <2>3 DEF ThreadExitToJoiner
    <3> QED BY <1>2, <2>3, <3>1, <3>2, DrainFacts DEF ThreadExitToJoiner
  <2> QED BY <1>9, <2>1, <2>2, <2>3 DEF ThreadExit
<1>10. ASSUME NEW u \in Tid, ThreadKill(u) PROVE Holds(ready_threads', t)
  <2> DEFINE rest == IF thread_state[u] = "READY"
                     THEN Queue_Remove(ready_threads, u) ELSE ready_threads
  <2>1. t # u /\ (Holds(join_threads[u], t) \/ Holds(ready_threads, t))
    BY <1>1, <1>10 DEF ThreadKill
  <2>2. rest \in Seq(Tid) /\ (Holds(join_threads[u], t) \/ Holds(rest, t))
    BY <1>2, <2>1, RemoveFacts
  <2>3. ready_threads' = DrainTo(join_threads[u], rest)
    BY <1>10 DEF ThreadKill
  <2> QED BY <2>2, <2>3, DrainFacts
<1>11. ASSUME NEW w \in WaitQueues, ThreadSleep(w)
       PROVE  Holds(ready_threads', t)
  <2>1. t # Head(ready_threads) /\ Holds(ready_threads, t)
    BY <1>1, <1>2, <1>11, HeadIsReady DEF ThreadSleep
  <2> QED BY <1>6, <1>11, <2>1 DEF ThreadSleep
<1>12. ASSUME NEW w \in WaitQueues, ThreadWakeNext(w)
       PROVE  Holds(ready_threads', t)
  <2>1. Head(wait_queues[w]) \in Tid
    BY <1>12, DequeueFacts DEF ThreadWakeNext, Queue_IsEmpty
  <2>2. t = Head(wait_queues[w]) \/ Holds(ready_threads, t)
    BY <1>1, <1>12, <2>1 DEF ThreadWakeNext
  <2>3. ready_threads' = Queue_Enqueue(ready_threads, Head(wait_queues[w]))
    BY <1>12 DEF ThreadWakeNext
  <2>4. PICK woken \in Tid : woken = Head(wait_queues[w])
    BY <2>1
  <2>5. Holds(Queue_Enqueue(ready_threads, woken), t)
            <=> Holds(ready_threads, t) \/ t = woken
    BY <1>2, EnqueueFacts
  <2> QED BY <2>2, <2>3, <2>4, <2>5
<1>13. ASSUME NEW w \in WaitQueues, ThreadWakeAll(w)
       PROVE  Holds(ready_threads', t)
  <2>1. Holds(wait_queues[w], t) \/ Holds(ready_threads, t)
    BY <1>1, <1>13 DEF ThreadWakeAll
  <2> QED BY <1>2, <1>13, <2>1, DrainFacts DEF ThreadWakeAll
<1>14. ASSUME NEW u \in Tid, ThreadJoin(u) PROVE Holds(ready_threads', t)
  <2>1. t # Head(ready_threads) /\ Holds(ready_threads, t)
    BY <1>1, <1>2, <1>14, HeadIsReady DEF ThreadJoin
  <2> QED BY <1>6, <1>14, <2>1 DEF ThreadJoin
<1>15. ASSUME NEW w \in WaitQueues, WaitQueueCreate(w) \/ WaitQueueDestroy(w)
       PROVE  UNCHANGED <<thread_state, ready_threads>>
  BY <1>15 DEF WaitQueueCreate, WaitQueueDestroy, tcb
<1>16. ASSUME NEW outcome, Stop(outcome)
       PROVE  UNCHANGED <<thread_state, ready_threads>>
  BY <1>16 DEF Stop, tcb
<1>17. ASSUME Resume \/ ExitHandlers \/ (\E state : InterruptsSet(state))
                \/ (\E code : ProgramExit(code)) \/ UNCHANGED vars
       PROVE  UNCHANGED <<thread_state, ready_threads>>
  BY <1>17
     DEF Resume, MyThreadStub, ReturnFromSwitch, ReturnFromSignal,
         ReturnFromJoin, EnterUserCode, ExitHandlers, my_on_exit, ProgramExit,
         InterruptsSet, vars, tcb
<1> QED
  BY <1>3, <1>4, <1>5, <1>7, <1>8, <1>9, <1>10, <1>11, <1>12, <1>13, <1>14,
     <1>15, <1>16, <1>17
     DEF Next, Call, ThreadYield, HandleSignal, ThreadCreateNoQueue,
         ThreadYieldToNoStack, ThreadKillNoQueue, ThreadJoinNobodyReady,
         ThreadJoinNoQueue, Terminated

\* No wake-up is lost: a thread that is READY is in the ready queue, when no
\* creation has run out of memory and the program kills no sleeper.
THEOREM ReadyCorrect ==
    ~ KillSleepers /\ ~ MemoryCanFail => (Spec => []ReadyAreQueued)
<1> SUFFICES ASSUME ~ KillSleepers, ~ MemoryCanFail
             PROVE  Spec => []ReadyAreQueued
  OBVIOUS
<1>1. Init => ReadyAreQueued
  BY DEF Init, ReadyAreQueued
<1>2. ThreadInv /\ ReadyAreQueued /\ [Next]_vars => ReadyAreQueued'
  BY ReadyStep
<1>3. Spec => []ThreadInv
  BY Invariance
<1> QED BY <1>1, <1>2, <1>3, PTL DEF Spec

-----------------------------------------------------------------------------
(* Signal masks. *)

\* What a suspended call will restore is what its thread last asked for; a
\* thread that the handler switched away, or that never ran, is unmasked; only
\* the running thread can be in its own code.
MaskToRestore(t) ==
    /\ ctx[t] \in {"yield", "sleep", "join"} => saved[t] = mask_set[t]
    /\ ctx[t] \in {"stub", "handler"} => mask_set[t] = TRUE
    /\ thread_state[t] = "FREE" => mask_set[t] = TRUE
    /\ ctx[t] = "user" => t = running

\* The invariant behind MaskRestored.
MasksKept ==
    program = "up" => MaskRestored /\ \A t \in Tid : MaskToRestore(t)

\* A call that switches keeps the mask its thread had.
LEMMA SwitchMaskStep ==
    ASSUME TypeOK, MasksKept, InUserCode, running' \in Tid \ {running},
           NEW k, NEW a, NEW prev, SwitchFrom(k, a, prev),
           \/ k \in {"yield", "sleep", "join"} /\ prev = interrupts
           \/ k = "handler" /\ interrupts = TRUE,
           mask_set' = mask_set,
           \A t \in Tid : thread_state'[t] = "FREE" => thread_state[t] = "FREE"
    PROVE  MasksKept'
<1> USE DEF MasksKept, TypeOK
<1>1. /\ running \in Tid /\ ctx[running] = "user"
      /\ interrupts = mask_set[running]
      /\ \A t \in Tid : MaskToRestore(t)
  BY DEF InUserCode, MaskRestored
<1>2. ASSUME NEW t \in Tid PROVE MaskToRestore(t)'
  <2>1. CASE t = running
    BY <1>1, <2>1 DEF MaskToRestore, SwitchFrom
  <2>2. CASE t # running
    BY <1>1, <2>2 DEF MaskToRestore, SwitchFrom
  <2> QED BY <2>1, <2>2
<1>3. ~ InUserCode'
  BY <1>1 DEF InUserCode, SwitchFrom, MaskToRestore
<1> QED BY <1>2, <1>3 DEF MaskRestored

\* The slot of a thread that has ended is unmasked, and the others keep theirs;
\* when it is the running one, another one goes on.
LEMMA RetireMaskStep ==
    ASSUME TypeOK, MasksKept, InUserCode, NEW u \in Tid, Retire(u),
           \/ u # running /\ running' = running /\ interrupts' = interrupts
           \/ u = running /\ running' \in Tid \ {u},
           \A t \in Tid \ {u} :
                thread_state'[t] = "FREE" => thread_state[t] = "FREE"
    PROVE  MasksKept'
<1> USE DEF MasksKept, TypeOK
<1>1. /\ running \in Tid /\ ctx[running] = "user"
      /\ interrupts = mask_set[running]
      /\ \A t \in Tid : MaskToRestore(t)
  BY DEF InUserCode, MaskRestored
<1>2. ASSUME NEW t \in Tid PROVE MaskToRestore(t)'
  <2>1. CASE t = u
    BY <2>1 DEF MaskToRestore, Retire
  <2>2. CASE t # u
    BY <1>1, <2>2 DEF MaskToRestore, Retire
  <2> QED BY <2>1, <2>2
<1>3. MaskRestored'
  <2>1. CASE u # running /\ running' = running /\ interrupts' = interrupts
    BY <1>1, <2>1 DEF MaskRestored, Retire
  <2>2. CASE u = running /\ running' \in Tid \ {u}
    <3>1. ctx'[running'] = ctx[running'] /\ ctx[running'] # "user"
      BY <1>1, <2>2 DEF Retire, MaskToRestore
    <3> QED BY <3>1 DEF MaskRestored, InUserCode
  <2> QED BY <2>1, <2>2
<1> QED BY <1>2, <1>3

\* So do calls that return at once.
LEMMA StayMaskStep ==
    ASSUME TypeOK, MasksKept, program = "up", running \in Tid,
           UNCHANGED <<running, interrupts, mask_set, saved>>,
           \A t \in Tid : thread_state'[t] = "FREE" => thread_state[t] = "FREE",
           \A t \in Tid :
                ctx'[t] # ctx[t] => ctx'[t] = "stub" /\ mask_set[t] = TRUE
    PROVE  MasksKept'
<1> USE DEF MasksKept, TypeOK
<1>1. MaskRestored /\ \A t \in Tid : MaskToRestore(t)
  OBVIOUS
<1>2. ASSUME NEW t \in Tid PROVE MaskToRestore(t)'
  BY <1>1, <1>2 DEF MaskToRestore
<1>3. MaskRestored'
  BY <1>1 DEF MaskRestored, InUserCode
<1> QED BY <1>2, <1>3

\* A call that returns restores the mask of its thread.
LEMMA ReturnMaskStep ==
    ASSUME TypeOK, MasksKept, program = "up", running \in Tid,
           EnterUserCode(mask_set[running]), mask_set' = mask_set
    PROVE  MasksKept'
<1> USE DEF MasksKept, TypeOK
<1>1. \A t \in Tid : MaskToRestore(t)
  OBVIOUS
<1>2. ASSUME NEW t \in Tid PROVE MaskToRestore(t)'
  BY <1>1, <1>2 DEF MaskToRestore, EnterUserCode, tcb
<1>3. MaskRestored'
  BY DEF MaskRestored, InUserCode, EnterUserCode
<1> QED BY <1>2, <1>3

\* Every step keeps what the masks will be restored to.
LEMMA MaskStep ==
    ASSUME ThreadInv, MasksKept, [Next]_vars
    PROVE  MasksKept'
<1> SUFFICES ASSUME program' = "up" PROVE MasksKept'
  BY DEF MasksKept
<1>1. TypeOK /\ program = "up" /\ running \in Tid /\ Consistent
  BY UpBefore DEF ThreadInv, Consistent
<1>2. \A t \in Tid : MaskToRestore(t)
  BY <1>1 DEF MasksKept
<1>3. thread_state \in [Tid -> ThreadStates] /\ thread_state[running] = "RUNNING"
  BY <1>1 DEF TypeOK, Consistent, OneRunning
<1>4. CASE ThreadCreate \/ ThreadCreateNoStack
  <2>1. CASE ThreadCreate
    <3>1. PICK u \in Tid : ThreadCreate!2!(u)
      BY <2>1 DEF ThreadCreate
    <3>2. mask_set[u] = TRUE
      BY <1>2, <3>1 DEF IsNewTcb, MaskToRestore
    <3>3. \A t \in Tid : ctx'[t] # ctx[t] => ctx'[t] = "stub" /\ mask_set[t] = TRUE
      BY <1>1, <3>1, <3>2 DEF TypeOK
    <3>4. \A t \in Tid : thread_state'[t] = "FREE" => thread_state[t] = "FREE"
      BY <1>3, <3>1
    <3>5. UNCHANGED <<running, interrupts, mask_set, saved>>
      BY <2>1 DEF ThreadCreate
    <3> QED BY <1>1, <3>3, <3>4, <3>5, StayMaskStep
  <2>2. CASE ThreadCreateNoStack
    <3>1. \A t \in Tid : thread_state'[t] = "FREE" => thread_state[t] = "FREE"
      BY <1>3, <2>2 DEF ThreadCreateNoStack
    <3>2. UNCHANGED <<running, interrupts, mask_set, saved, ctx>>
      BY <2>2 DEF ThreadCreateNoStack, suspended
    <3> QED BY <1>1, <3>1, <3>2, StayMaskStep
  <2> QED BY <1>4, <2>1, <2>2
<1>5. ASSUME NEW k, NEW prev, InUserCode, YieldFrom(k, prev),
             \/ k = "yield" /\ prev = interrupts
             \/ k = "handler" /\ interrupts = TRUE
      PROVE  MasksKept'
  <2>1. running' \in Tid \ {running}
    BY <1>1, <1>5, HeadIsReady DEF YieldFrom
  <2>2. \A t \in Tid : thread_state'[t] = "FREE" => thread_state[t] = "FREE"
    BY <1>3, <1>5 DEF YieldFrom
  <2>3. SwitchFrom(k, NULL, prev) /\ mask_set' = mask_set
    BY <1>5 DEF YieldFrom
  <2> QED BY <1>1, <1>5, <2>1, <2>2, <2>3, SwitchMaskStep
<1>6. ASSUME NEW u \in Tid, ThreadYieldTo(u) PROVE MasksKept'
  <2>1. running' \in Tid \ {running}
    BY <1>3, <1>6 DEF ThreadYieldTo
  <2>2. \A t \in Tid : thread_state'[t] = "FREE" => thread_state[t] = "FREE"
    BY <1>3, <1>6 DEF ThreadYieldTo
  <2>3. InUserCode /\ SwitchFrom("yield", NULL, interrupts) /\ mask_set' = mask_set
    BY <1>6 DEF ThreadYieldTo
  <2> QED BY <1>1, <2>1, <2>2, <2>3, SwitchMaskStep
<1>7. ASSUME NEW w \in WaitQueues, ThreadSleep(w) PROVE MasksKept'
  <2>1. running' \in Tid \ {running}
    BY <1>1, <1>7, HeadIsReady DEF ThreadSleep
  <2>2. \A t \in Tid : thread_state'[t] = "FREE" => thread_state[t] = "FREE"
    BY <1>3, <1>7 DEF ThreadSleep
  <2>3. InUserCode /\ SwitchFrom("sleep", w, interrupts) /\ mask_set' = mask_set
    BY <1>7 DEF ThreadSleep
  <2> QED BY <1>1, <2>1, <2>2, <2>3, SwitchMaskStep
<1>8. ASSUME NEW u \in Tid, ThreadJoin(u) PROVE MasksKept'
  <2>1. running' \in Tid \ {running}
    BY <1>1, <1>8, HeadIsReady DEF ThreadJoin
  <2>2. \A t \in Tid : thread_state'[t] = "FREE" => thread_state[t] = "FREE"
    BY <1>3, <1>8 DEF ThreadJoin
  <2>3. InUserCode /\ SwitchFrom("join", u, interrupts) /\ mask_set' = mask_set
    BY <1>8 DEF ThreadJoin, CanJoin
  <2> QED BY <1>1, <2>1, <2>2, <2>3, SwitchMaskStep
<1>9. ASSUME NEW code, ThreadExit(code) PROVE MasksKept'
  <2>1. CASE ThreadExitToReady(code)
    <3>1. running' \in Tid \ {running}
      BY <1>1, <2>1, HeadIsReady DEF ThreadExitToReady
    <3>2. \A t \in Tid \ {running} :
            thread_state'[t] = "FREE" => thread_state[t] = "FREE"
      BY <1>3, <2>1 DEF ThreadExitToReady
    <3>3. InUserCode /\ Retire(running)
      BY <2>1 DEF ThreadExitToReady
    <3> QED BY <1>1, <3>1, <3>2, <3>3, RetireMaskStep
  <2>2. ASSUME ThreadExitLast(code) PROVE FALSE
    BY <2>2 DEF ThreadExitLast
  <2>3. CASE ThreadExitToJoiner(code)
    <3>1. running' \in Tid \ {running}
      <4>1. join_threads[running] \in Seq(Tid) /\ join_threads[running] # <<>>
        BY <1>1, <2>3 DEF TypeOK, ThreadExitToJoiner, Queue_IsEmpty
      <4>2. Head(join_threads[running]) \in Tid
            /\ Holds(join_threads[running], Head(join_threads[running]))
        BY <4>1, DequeueFacts
      <4>3. thread_state[Head(join_threads[running])] = "BLOCKED"
        BY <1>1, <4>2 DEF Consistent, JoinersInState
      <4> QED BY <1>3, <2>3, <4>2, <4>3 DEF ThreadExitToJoiner
    <3>2. \A t \in Tid \ {running} :
            thread_state'[t] = "FREE" => thread_state[t] = "FREE"
      BY <2>3 DEF ThreadExitToJoiner
    <3>3. InUserCode /\ Retire(running)
      BY <2>3 DEF ThreadExitToJoiner
    <3> QED BY <1>1, <3>1, <3>2, <3>3, RetireMaskStep
  <2> QED BY <1>9, <2>1, <2>2, <2>3 DEF ThreadExit
<1>10. ASSUME NEW u \in Tid, ThreadKill(u) PROVE MasksKept'
  <2>1. u # running
    BY <1>3, <1>10 DEF ThreadKill
  <2>2. \A t \in Tid \ {u} : thread_state'[t] = "FREE" => thread_state[t] = "FREE"
    BY <1>10 DEF ThreadKill
  <2>3. InUserCode /\ Retire(u) /\ running' = running /\ interrupts' = interrupts
    BY <1>10 DEF ThreadKill
  <2> QED BY <1>1, <2>1, <2>2, <2>3, RetireMaskStep
<1>11. ASSUME NEW w \in WaitQueues, ThreadWakeNext(w) \/ ThreadWakeAll(w)
       PROVE  MasksKept'
  <2>1. \A t \in Tid : thread_state'[t] = "FREE" => thread_state[t] = "FREE"
    BY <1>3, <1>11 DEF ThreadWakeNext, ThreadWakeAll
  <2>2. UNCHANGED <<running, interrupts, mask_set, saved, ctx>>
    BY <1>11 DEF ThreadWakeNext, ThreadWakeAll
  <2> QED BY <1>1, <2>1, <2>2, StayMaskStep
<1>12. ASSUME UNCHANGED <<thread_state, running, interrupts, mask_set, saved, ctx>>
       PROVE  MasksKept'
  BY <1>1, <1>12, StayMaskStep
<1>13. ASSUME NEW w \in WaitQueues, WaitQueueCreate(w) \/ WaitQueueDestroy(w)
       PROVE  UNCHANGED <<thread_state, running, interrupts, mask_set, saved, ctx>>
  BY <1>13 DEF WaitQueueCreate, WaitQueueDestroy, tcb, suspended
<1>14. ASSUME NEW outcome \in {"aborted", "undefined"}, Stop(outcome) PROVE FALSE
  BY <1>14 DEF Stop
<1>15. CASE Resume
  <2>1. mask_set' = mask_set /\ EnterUserCode(mask_set[running])
    BY <1>1, <1>2, <1>15
       DEF Resume, MyThreadStub, ReturnFromSwitch, ReturnFromSignal,
           ReturnFromJoin, Resumes, MaskToRestore
  <2> QED BY <1>1, <2>1, ReturnMaskStep
<1>16. ASSUME NEW state, InterruptsSet(state) PROVE MasksKept'
  <2>1. ASSUME NEW t \in Tid PROVE MaskToRestore(t)'
    <3>1. CASE t = running
      BY <1>3, <1>16, <3>1
         DEF InterruptsSet, InUserCode, MaskToRestore, tcb, suspended
    <3>2. CASE t # running
      BY <1>1, <1>2, <1>16, <3>2
         DEF TypeOK, InterruptsSet, MaskToRestore, tcb, suspended
    <3> QED BY <3>1, <3>2
  <2>2. MaskRestored'
    BY <1>1, <1>16 DEF TypeOK, InterruptsSet, MaskRestored
  <2> QED BY <2>1, <2>2 DEF MasksKept
<1>17. ASSUME NEW code, ProgramExit(code) \/ ExitHandlers PROVE FALSE
  BY <1>17 DEF ProgramExit, ExitHandlers, my_on_exit
<1>18. CASE UNCHANGED vars
  BY <1>12, <1>18 DEF vars, tcb, suspended
<1> QED
  BY <1>4, <1>5, <1>6, <1>7, <1>8, <1>9, <1>10, <1>11, <1>12, <1>13, <1>14,
     <1>15, <1>16, <1>17, <1>18
     DEF Next, Call, ThreadYield, HandleSignal, ThreadCreateNoQueue,
         ThreadYieldToNoStack, ThreadKillNoQueue, ThreadJoinNobodyReady,
         ThreadJoinNoQueue, Terminated

\* In its own code a thread always runs under the mask it last asked for.
THEOREM MasksCorrect == ~ KillSleepers => (Spec => []MaskRestored)
<1> SUFFICES ASSUME ~ KillSleepers PROVE Spec => []MaskRestored
  OBVIOUS
<1>1. Init => MasksKept
  <2> SUFFICES ASSUME Init PROVE MasksKept
    OBVIOUS
  <2>1. 0 \in Tid /\ running = 0 /\ interrupts = TRUE
    BY DEF Init, Tid
  <2>2. \A t \in Tid : mask_set[t] = TRUE
    BY DEF Init
  <2>3. \A t \in Tid : ctx[t] = IF t = 0 THEN "user" ELSE "none"
    BY DEF Init
  <2>4. \A t \in Tid : MaskToRestore(t)
    BY <2>1, <2>2, <2>3 DEF MaskToRestore
  <2> QED BY <2>1, <2>2, <2>4 DEF MasksKept, MaskRestored
<1>2. ThreadInv /\ MasksKept /\ [Next]_vars => MasksKept'
  BY MaskStep
<1>3. MasksKept => MaskRestored
  BY DEF MasksKept, MaskRestored, InUserCode
<1>4. Spec => []ThreadInv
  BY Invariance
<1> QED BY <1>1, <1>2, <1>3, <1>4, PTL DEF Spec

-----------------------------------------------------------------------------
(* What a join reads, with one joiner per target. *)

\* No join queue holds two threads.
OneJoiner ==
    program = "up" => \A k, a, b \in Tid :
        Holds(join_threads[k], a) /\ Holds(join_threads[k], b) => a = b

\* No action but these changes a join queue of a process that stays up.
LEMMA OneJoinerStep ==
    ASSUME MaxJoiners <= 1, ThreadInv, OneJoiner, [Next]_vars
    PROVE  OneJoiner'
<1> SUFFICES ASSUME program' = "up", NEW k \in Tid, NEW a \in Tid, NEW b \in Tid,
                    Holds(join_threads'[k], a), Holds(join_threads'[k], b)
             PROVE  a = b
  BY DEF OneJoiner
<1>1. TypeOK /\ program = "up" /\ running \in Tid /\ Consistent
  BY UpBefore DEF ThreadInv, Consistent
<1>2. /\ join_threads \in [Tid -> Seq(Tid)]
      /\ \A u \in Tid : IsInjective(join_threads[u])
      /\ Holds(join_threads[k], a) /\ Holds(join_threads[k], b) => a = b
  BY <1>1 DEF TypeOK, Consistent, JoinersInState, OneJoiner
<1>3. \A u : ~ Holds(<<>>, u)
  BY DEF Holds
<1>4. ASSUME UNCHANGED join_threads PROVE a = b
  BY <1>2, <1>4
<1>5. CASE ThreadCreate
  BY <1>2, <1>3, <1>5 DEF ThreadCreate
<1>6. ASSUME NEW code, ThreadExit(code) PROVE a = b
  <2>1. CASE ThreadExitToReady(code)
    BY <1>4, <2>1 DEF ThreadExitToReady
  <2>2. CASE ThreadExitLast(code)
    BY <1>4, <2>2 DEF ThreadExitLast
  <2>3. CASE ThreadExitToJoiner(code)
    <3>1. join_threads' = [join_threads EXCEPT ![running] = <<>>]
      BY <2>3 DEF ThreadExitToJoiner
    <3> QED BY <1>2, <1>3, <3>1
  <2> QED BY <1>6, <2>1, <2>2, <2>3 DEF ThreadExit
<1>7. ASSUME NEW u \in Tid, ThreadKill(u) PROVE a = b
  <2>1. \A t : Holds(Queue_Remove(join_threads[k], u), t)
                    => Holds(join_threads[k], t)
    BY <1>2, RemoveFacts
  <2> QED BY <1>2, <1>3, <1>7, <2>1 DEF ThreadKill
<1>8. ASSUME NEW u \in Tid, ThreadJoin(u) PROVE a = b
  <2>1. join_threads[u] \in Seq(Tid) /\ Len(join_threads[u]) < 1
    BY <1>2, <1>8 DEF ThreadJoin, CanJoin
  <2>2. join_threads[u] = <<>>
    BY <2>1
  <2>3. \A t : Holds(Queue_Enqueue(join_threads[u], running), t) => t = running
    <3>1. \A t : Holds(Queue_Enqueue(join_threads[u], running), t)
                    <=> Holds(join_threads[u], t) \/ t = running
      BY <1>1, <2>1, EnqueueFacts
    <3>2. \A t : ~ Holds(join_threads[u], t)
      BY <1>3, <2>2
    <3> QED BY <3>1, <3>2
  <2> QED BY <1>2, <1>8, <2>3 DEF ThreadJoin
<1>9. ASSUME NEW u \in Tid, ThreadYieldTo(u) PROVE UNCHANGED join_threads
  BY <1>9 DEF ThreadYieldTo
<1>10. ASSUME NEW p, NEW prev, YieldFrom(p, prev) PROVE UNCHANGED join_threads
  BY <1>10 DEF YieldFrom
<1>11. ASSUME NEW w \in WaitQueues,
              \/ WaitQueueCreate(w) \/ WaitQueueDestroy(w) \/ ThreadSleep(w)
              \/ ThreadWakeNext(w) \/ ThreadWakeAll(w)
       PROVE  UNCHANGED join_threads
  BY <1>11 DEF WaitQueueCreate, WaitQueueDestroy, ThreadSleep, ThreadWakeNext,
               ThreadWakeAll, tcb
<1>12. ASSUME NEW outcome, Stop(outcome) PROVE UNCHANGED join_threads
  BY <1>12 DEF Stop, tcb
<1>13. ASSUME ThreadCreateNoStack \/ Resume \/ UNCHANGED vars
                \/ (\E state : InterruptsSet(state))
       PROVE  UNCHANGED join_threads
  BY <1>13 DEF ThreadCreateNoStack, Resume, MyThreadStub, ReturnFromSwitch,
               ReturnFromSignal, ReturnFromJoin, EnterUserCode, InterruptsSet,
               vars, tcb
<1>14. ASSUME NEW code, ProgramExit(code) \/ ExitHandlers PROVE FALSE
  BY <1>14 DEF ProgramExit, ExitHandlers, my_on_exit
<1> QED
  BY <1>4, <1>5, <1>6, <1>7, <1>8, <1>9, <1>10, <1>11, <1>12, <1>13, <1>14
     DEF Next, Call, ThreadYield, HandleSignal, ThreadCreateNoQueue,
         ThreadYieldToNoStack, ThreadKillNoQueue, ThreadJoinNobodyReady,
         ThreadJoinNoQueue, Terminated

\* A thread that was let go from a join is owed the code its target has; unless
\* it already runs, the target is a zombie, whose code stays.
JoinDebt(t) ==
    thread_state[t] \in {"READY", "RUNNING"} /\ ctx[t] = "join" =>
        /\ arg[t] \in Tid
        /\ exit_code[arg[t]] = owed[t]
        /\ t = running \/ thread_state[arg[t]] = "ZOMBIE"

\* A free slot is in no call, so that a new thread in it is owed nothing.
FreeHasNoCall(t) == thread_state[t] = "FREE" => ctx[t] = "none"

\* The invariant behind JoinerSeesExitCode.
JoinsOwed ==
    program = "up" => \A t \in Tid : JoinDebt(t) /\ FreeHasNoCall(t)

\* A call of the running thread leaves the debts of threads it does not touch.
LEMMA DebtKept ==
    ASSUME ThreadInv, JoinsOwed, [Next]_vars, InUserCode, NEW t \in Tid,
           thread_state[t] \in {"READY", "RUNNING"},
           ctx'[t] = ctx[t], arg'[t] = arg[t], owed'[t] = owed[t]
    PROVE  JoinDebt(t)'
<1>1. JoinDebt(t)
  BY DEF JoinsOwed, InUserCode
<1> SUFFICES ASSUME ctx[t] = "join" PROVE JoinDebt(t)'
  BY DEF JoinDebt
<1>2. /\ arg[t] \in Tid /\ exit_code[arg[t]] = owed[t]
      /\ thread_state[arg[t]] = "ZOMBIE"
  BY <1>1 DEF JoinDebt, InUserCode
<1>3. thread_state'[arg[t]] = "ZOMBIE" /\ exit_code'[arg[t]] = exit_code[arg[t]]
  BY <1>2, ZombieStep
<1> QED BY <1>2, <1>3 DEF JoinDebt

\* Every step keeps the debts, and settles those of the joiners it lets go.
LEMMA DebtStep ==
    ASSUME ThreadInv, OneJoiner, JoinsOwed, [Next]_vars
    PROVE  JoinsOwed'
<1> SUFFICES ASSUME program' = "up", NEW t \in Tid
             PROVE  JoinDebt(t)' /\ FreeHasNoCall(t)'
  BY DEF JoinsOwed
<1>1. TypeOK /\ program = "up" /\ running \in Tid /\ Consistent
  BY UpBefore DEF ThreadInv, Consistent
<1>2. JoinDebt(t) /\ FreeHasNoCall(t)
  BY <1>1 DEF JoinsOwed
<1>3. /\ thread_state \in [Tid -> ThreadStates]
      /\ ctx \in [Tid -> Contexts]
      /\ arg \in [Tid -> Tid \cup WaitQueues \cup {NULL}]
      /\ owed \in [Tid -> Int \cup {NULL}]
      /\ exit_code \in [Tid -> Int]
      /\ thread_state[running] = "RUNNING"
  BY <1>1 DEF TypeOK, Consistent, OneRunning
<1>4. ASSUME InUserCode, ctx'[t] = ctx[t], arg'[t] = arg[t], owed'[t] = owed[t],
             thread_state'[t] = "FREE" => thread_state[t] = "FREE",
             thread_state'[t] \in {"READY", "RUNNING"} =>
                \/ thread_state[t] \in {"READY", "RUNNING"}
                \/ ctx[t] # "join"
      PROVE  JoinDebt(t)' /\ FreeHasNoCall(t)'
  <2>1. FreeHasNoCall(t)'
    BY <1>2, <1>4 DEF FreeHasNoCall
  <2>2. CASE thread_state[t] \in {"READY", "RUNNING"}
    BY <1>4, <2>1, <2>2, DebtKept
  <2>3. CASE thread_state[t] \notin {"READY", "RUNNING"}
    BY <1>4, <2>1, <2>3 DEF JoinDebt
  <2> QED BY <2>2, <2>3
<1>5. ASSUME ctx'[t] # "join", thread_state'[t] = "FREE" => ctx'[t] = "none"
      PROVE  JoinDebt(t)' /\ FreeHasNoCall(t)'
  BY <1>5 DEF JoinDebt, FreeHasNoCall
<1>6. CASE ThreadCreate \/ ThreadCreateNoStack
  <2>1. CASE ThreadCreate
    <3>1. PICK u \in Tid : ThreadCreate!2!(u)
      BY <2>1 DEF ThreadCreate
    <3>2. InUserCode /\ arg' = arg /\ owed' = owed
      BY <2>1 DEF ThreadCreate
    <3>3. CASE t = u
      BY <1>3, <1>5, <3>1, <3>3
    <3>4. CASE t # u
      BY <1>3, <1>4, <3>1, <3>2, <3>4
    <3> QED BY <3>3, <3>4
  <2>2. CASE ThreadCreateNoStack
    <3>1. PICK u \in Tid : ThreadCreateNoStack!3!(u)
      BY <2>2 DEF ThreadCreateNoStack
    <3>2. InUserCode /\ ctx' = ctx /\ arg' = arg /\ owed' = owed
      BY <2>2 DEF ThreadCreateNoStack, suspended
    <3>3. CASE t = u
      BY <1>2, <1>3, <1>5, <3>1, <3>2, <3>3 DEF IsNewTcb, FreeHasNoCall
    <3>4. CASE t # u
      BY <1>3, <1>4, <3>1, <3>2, <3>4
    <3> QED BY <3>3, <3>4
  <2> QED BY <1>6, <2>1, <2>2
<1>7. ASSUME NEW k \in {"yield", "handler"}, NEW prev, InUserCode,
             YieldFrom(k, prev)
      PROVE  JoinDebt(t)' /\ FreeHasNoCall(t)'
  <2>1. Head(ready_threads) \in Tid
        /\ thread_state[Head(ready_threads)] = "READY"
    BY <1>1, <1>7, HeadIsReady DEF YieldFrom
  <2>2. CASE t = running
    BY <1>3, <1>5, <1>7, <2>1, <2>2 DEF YieldFrom, SwitchFrom
  <2>3. CASE t # running
    BY <1>3, <1>4, <1>7, <2>1, <2>3 DEF YieldFrom, SwitchFrom
  <2> QED BY <2>2, <2>3
<1>8. ASSUME NEW u \in Tid, ThreadYieldTo(u)
      PROVE  JoinDebt(t)' /\ FreeHasNoCall(t)'
  <2>1. CASE t = running
    BY <1>3, <1>5, <1>8, <2>1 DEF ThreadYieldTo, SwitchFrom
  <2>2. CASE t # running
    BY <1>3, <1>4, <1>8, <2>2 DEF ThreadYieldTo, SwitchFrom
  <2> QED BY <2>1, <2>2
<1>9. ASSUME NEW w \in WaitQueues, ThreadSleep(w)
      PROVE  JoinDebt(t)' /\ FreeHasNoCall(t)'
  <2>1. /\ Head(ready_threads) \in Tid
        /\ thread_state[Head(ready_threads)] = "READY"
    BY <1>1, <1>9, HeadIsReady DEF ThreadSleep
  <2>2. CASE t = running
    BY <1>3, <1>5, <1>9, <2>1, <2>2 DEF ThreadSleep, SwitchFrom
  <2>3. CASE t # running
    BY <1>3, <1>4, <1>9, <2>1, <2>3 DEF ThreadSleep, SwitchFrom
  <2> QED BY <2>2, <2>3
<1>10. ASSUME NEW u \in Tid, ThreadJoin(u)
       PROVE  JoinDebt(t)' /\ FreeHasNoCall(t)'
  <2>1. /\ Head(ready_threads) \in Tid
        /\ thread_state[Head(ready_threads)] = "READY"
    BY <1>1, <1>10, HeadIsReady DEF ThreadJoin
  <2>2. CASE t = running
    <3>1. thread_state'[t] = "BLOCKED"
      BY <1>3, <1>10, <2>1, <2>2 DEF ThreadJoin
    <3> QED BY <3>1 DEF JoinDebt, FreeHasNoCall
  <2>3. CASE t # running
    BY <1>3, <1>4, <1>10, <2>1, <2>3 DEF ThreadJoin, CanJoin, SwitchFrom
  <2> QED BY <2>2, <2>3
<1>11. ASSUME NEW code \in Int, ThreadExit(code)
       PROVE  JoinDebt(t)' /\ FreeHasNoCall(t)'
  <2>1. CASE ThreadExitToReady(code)
    <3>1. /\ Head(ready_threads) \in Tid
          /\ thread_state[Head(ready_threads)] = "READY"
      BY <1>1, <2>1, HeadIsReady DEF ThreadExitToReady
    <3>2. CASE t = running
      BY <1>3, <1>5, <2>1, <3>1, <3>2 DEF ThreadExitToReady, Retire
    <3>3. CASE t # running
      BY <1>3, <1>4, <2>1, <3>1, <3>3 DEF ThreadExitToReady, Retire
    <3> QED BY <3>2, <3>3
  <2>2. ASSUME ThreadExitLast(code) PROVE FALSE
    BY <2>2 DEF ThreadExitLast
  <2>3. CASE ThreadExitToJoiner(code)
    <3> DEFINE joiners == join_threads[running]
               first == Head(joiners)
    <3>1. /\ joiners \in Seq(Tid) /\ joiners # <<>> /\ IsInjective(joiners)
          /\ \A u \in Tid : Holds(joiners, u)
                    => thread_state[u] = "BLOCKED" /\ arg[u] = running
      BY <1>1, <2>3
         DEF TypeOK, ThreadExitToJoiner, Queue_IsEmpty, Consistent,
             JoinersInState
    <3>2. first \in Tid /\ Holds(joiners, first)
          /\ \A u : Holds(Tail(joiners), u) => Holds(joiners, u) /\ u # first
      BY <3>1, DequeueFacts
    <3>3. \A u \in Tid : ~ Holds(Tail(joiners), u) /\ (Holds(joiners, u) => u = first)
      BY <1>1, <3>2 DEF OneJoiner
    <3>4. CASE t = running
      BY <1>3, <1>5, <2>3, <3>4 DEF ThreadExitToJoiner, Retire
    <3>5. CASE t = first /\ t # running
      <4>1. exit_code'[running] = code /\ owed'[t] = code
        BY <1>1, <1>3, <2>3, <3>2, <3>5 DEF ThreadExitToJoiner
      <4>2. arg'[t] = running /\ running' = t /\ thread_state'[t] = "RUNNING"
        BY <1>3, <2>3, <3>1, <3>2, <3>5 DEF ThreadExitToJoiner, Retire
      <4> QED BY <1>1, <4>1, <4>2 DEF JoinDebt, FreeHasNoCall
    <3>6. CASE t # first /\ t # running
      <4>1. InUserCode /\ thread_state'[t] = thread_state[t]
        BY <2>3, <3>3, <3>6 DEF ThreadExitToJoiner
      <4>2. ctx'[t] = ctx[t] /\ arg'[t] = arg[t] /\ owed'[t] = owed[t]
        BY <1>3, <2>3, <3>3, <3>6 DEF ThreadExitToJoiner, Retire
      <4> QED BY <1>4, <4>1, <4>2
    <3> QED BY <3>4, <3>5, <3>6
  <2> QED BY <1>11, <2>1, <2>2, <2>3 DEF ThreadExit
<1>12. ASSUME NEW u \in Tid, ThreadKill(u)
       PROVE  JoinDebt(t)' /\ FreeHasNoCall(t)'
  <2>1. CASE t = u
    BY <1>3, <1>5, <1>12, <2>1 DEF ThreadKill, Retire
  <2>2. CASE t # u /\ Holds(join_threads[u], t)
    <3>1. arg[t] = u
      BY <1>1, <2>2 DEF Consistent, JoinersInState
    <3>2. arg'[t] = u /\ owed'[t] = EXIT_CODE_KILL /\ thread_state'[t] = "READY"
      BY <1>3, <1>12, <2>2, <3>1 DEF ThreadKill, Retire
    <3>3. thread_state'[u] = "ZOMBIE" /\ exit_code'[u] = EXIT_CODE_KILL
      BY <1>3, <1>12 DEF ThreadKill
    <3> QED BY <3>2, <3>3 DEF JoinDebt, FreeHasNoCall
  <2>3. CASE t # u /\ ~ Holds(join_threads[u], t)
    <3>1. InUserCode /\ thread_state'[t] = thread_state[t] /\ owed'[t] = owed[t]
      BY <1>12, <2>3 DEF ThreadKill
    <3>2. ctx'[t] = ctx[t] /\ arg'[t] = arg[t]
      BY <1>3, <1>12, <2>3 DEF ThreadKill, Retire
    <3> QED BY <1>4, <3>1, <3>2
  <2> QED BY <2>1, <2>2, <2>3
<1>13. ASSUME NEW w \in WaitQueues, ThreadWakeNext(w) \/ ThreadWakeAll(w)
       PROVE  JoinDebt(t)' /\ FreeHasNoCall(t)'
  <2>1. wait_queues[w] \in Seq(Tid) /\ wait_queues[w] # <<>>
    BY <1>1, <1>13 DEF TypeOK, ThreadWakeNext, ThreadWakeAll, Queue_IsEmpty
  <2>2. InUserCode /\ ctx' = ctx /\ owed' = owed
    BY <1>13 DEF ThreadWakeNext, ThreadWakeAll
  <2>3. CASE Holds(wait_queues[w], t)
    <3>1. thread_state[t] = "BLOCKED" /\ ctx[t] = "sleep"
      BY <1>1, <2>3 DEF Consistent, SleepersInState, BlockedInCall
    <3>2. thread_state'[t] # "FREE"
      BY <1>3, <1>13, <3>1 DEF ThreadWakeNext, ThreadWakeAll
    <3> QED BY <1>5, <2>2, <3>1, <3>2
  <2>4. CASE ~ Holds(wait_queues[w], t)
    <3>1. t # Head(wait_queues[w])
      BY <2>1, <2>4, DequeueFacts
    <3>2. thread_state'[t] = thread_state[t] /\ arg'[t] = arg[t]
      BY <1>3, <1>13, <2>4, <3>1 DEF ThreadWakeNext, ThreadWakeAll
    <3> QED BY <1>4, <2>2, <3>2
  <2> QED BY <2>3, <2>4
<1>14. ASSUME UNCHANGED <<thread_state, exit_code, running, ctx, arg, owed>>
       PROVE  JoinDebt(t)' /\ FreeHasNoCall(t)'
  BY <1>2, <1>14 DEF JoinDebt, FreeHasNoCall
<1>15. ASSUME NEW w \in WaitQueues, WaitQueueCreate(w) \/ WaitQueueDestroy(w)
       PROVE  UNCHANGED <<thread_state, exit_code, running, ctx, arg, owed>>
  BY <1>15 DEF WaitQueueCreate, WaitQueueDestroy, tcb, suspended
<1>16. ASSUME NEW outcome \in {"aborted", "undefined"}, Stop(outcome) PROVE FALSE
  BY <1>16 DEF Stop
<1>17. CASE Resume
  <2>1. /\ ctx' = [ctx EXCEPT ![running] = "user"]
        /\ arg' = [arg EXCEPT ![running] = NULL]
        /\ owed' = owed \/ owed' = [owed EXCEPT ![running] = NULL]
        /\ UNCHANGED <<thread_state, exit_code, running>>
    BY <1>17 DEF Resume, MyThreadStub, ReturnFromSwitch, ReturnFromSignal,
                 ReturnFromJoin, EnterUserCode, tcb
  <2>2. CASE t = running
    BY <1>3, <1>5, <2>1, <2>2
  <2>3. CASE t # running
    BY <1>2, <1>3, <2>1, <2>3 DEF JoinDebt, FreeHasNoCall
  <2> QED BY <2>2, <2>3
<1>18. ASSUME (\E state : InterruptsSet(state)) \/ UNCHANGED vars
       PROVE  UNCHANGED <<thread_state, exit_code, running, ctx, arg, owed>>
  BY <1>18 DEF InterruptsSet, vars, tcb, suspended
<1>19. ASSUME NEW code, ProgramExit(code) \/ ExitHandlers PROVE FALSE
  BY <1>19 DEF ProgramExit, ExitHandlers, my_on_exit
<1> QED
  BY <1>6, <1>7, <1>8, <1>9, <1>10, <1>11, <1>12, <1>13, <1>14, <1>15, <1>16,
     <1>17, <1>18, <1>19
     DEF Next, Call, ThreadYield, HandleSignal, ThreadCreateNoQueue,
         ThreadYieldToNoStack, ThreadKillNoQueue, ThreadJoinNobodyReady,
         ThreadJoinNoQueue, Terminated

\* A join reads the code its own target left with, when a thread has at most
\* one joiner: a zombie keeps its slot, and the joiner of a thread that exits
\* runs before anyone can take the slot.
THEOREM JoinCorrect ==
    ~ KillSleepers /\ MaxJoiners <= 1 => (Spec => []JoinerSeesExitCode)
<1> SUFFICES ASSUME ~ KillSleepers, MaxJoiners <= 1
             PROVE  Spec => []JoinerSeesExitCode
  OBVIOUS
<1>1. Init => OneJoiner /\ JoinsOwed
  BY DEF Init, OneJoiner, JoinsOwed, JoinDebt, FreeHasNoCall, Holds
<1>2. ThreadInv /\ OneJoiner /\ [Next]_vars => OneJoiner'
  BY OneJoinerStep
<1>3. ThreadInv /\ OneJoiner /\ JoinsOwed /\ [Next]_vars => JoinsOwed'
  BY DebtStep
<1>4. ThreadInv /\ JoinsOwed => JoinerSeesExitCode
  BY DEF ThreadInv, Consistent, OneRunning, JoinsOwed, JoinDebt,
         JoinerSeesExitCode, Resumes
<1>5. Spec => []ThreadInv
  BY Invariance
<1> QED BY <1>1, <1>2, <1>3, <1>4, <1>5, PTL DEF Spec

-----------------------------------------------------------------------------
(* The order in which waiting threads are let go. *)

\* A queue that loses nobody lets nobody overtake.
LEMMA KeptInOrder ==
    ASSUME NEW q \in Seq(Tid), NEW qq, \A u : Holds(q, u) => Holds(qq, u),
           NEW a \in Tid, NEW b \in Tid
    PROVE  ~ Overtakes(q, qq, b, a)
  BY BeforeFacts DEF Overtakes

WaitersInOrder(a, b) ==
    \A w \in WaitQueues : ~ Overtakes(wait_queues[w], wait_queues'[w], b, a)

JoinersInOrder(a, b) ==
    \A k \in Tid : ~ Overtakes(join_threads[k], join_threads'[k], b, a)

\* Wait queues lose their first thread, or all of them to the ready queue.
LEMMA WaitersStep ==
    ASSUME ThreadInv, [Next]_vars, NEW a \in Tid, NEW b \in Tid
    PROVE  WaitersInOrder(a, b)
<1> USE DEF ThreadInv, TypeOK
<1>1. ASSUME wait_queues' = wait_queues PROVE WaitersInOrder(a, b)
  BY <1>1, KeptInOrder DEF WaitersInOrder
<1>2. ASSUME NEW w \in WaitQueues, WaitQueueCreate(w)
      PROVE  WaitersInOrder(a, b)
  <2>1. wait_queues[w] = <<>>
    BY <1>2 DEF WaitQueueCreate, InUserCode, Consistent, NobodyOnFreedQueue
  <2>2. wait_queues' = wait_queues
    BY <1>2, <2>1 DEF WaitQueueCreate
  <2> QED BY <1>1, <2>2
<1>3. ASSUME NEW w \in WaitQueues, ThreadSleep(w) PROVE WaitersInOrder(a, b)
  <2>1. running \in Tid
    BY <1>3 DEF ThreadSleep, InUserCode
  <2>2. wait_queues' = [wait_queues EXCEPT ![w] =
                            Queue_Enqueue(wait_queues[w], running)]
    BY <1>3 DEF ThreadSleep
  <2>3. \A u : Holds(wait_queues[w], u)
                    => Holds(Queue_Enqueue(wait_queues[w], running), u)
    BY <2>1, EnqueueFacts
  <2>4. ASSUME NEW v \in WaitQueues, NEW u, Holds(wait_queues[v], u)
        PROVE  Holds(wait_queues'[v], u)
    <3>1. wait_queues'[v] = IF v = w THEN Queue_Enqueue(wait_queues[w], running)
                            ELSE wait_queues[v]
      BY <2>2
    <3> QED BY <2>3, <2>4, <3>1
  <2> QED BY <2>4, KeptInOrder DEF WaitersInOrder
<1>4. ASSUME NEW w \in WaitQueues, ThreadWakeNext(w) PROVE WaitersInOrder(a, b)
  <2>1. wait_queues' = [wait_queues EXCEPT ![w] = Tail(wait_queues[w])]
    BY <1>4 DEF ThreadWakeNext
  <2>2. ~ Overtakes(wait_queues[w], wait_queues'[w], b, a)
    BY <2>1, BeforeFacts DEF Overtakes
  <2>3. \A v \in WaitQueues \ {w} : wait_queues'[v] = wait_queues[v]
    BY <2>1
  <2> QED BY <2>2, <2>3, KeptInOrder DEF WaitersInOrder
<1>5. ASSUME NEW w \in WaitQueues, ThreadWakeAll(w) PROVE WaitersInOrder(a, b)
  <2>1. /\ wait_queues' = [wait_queues EXCEPT ![w] = <<>>]
        /\ ready_threads' = DrainTo(wait_queues[w], ready_threads)
    BY <1>5 DEF ThreadWakeAll
  <2>2. ~ Overtakes(wait_queues[w], wait_queues'[w], b, a)
    <3>1. ~ Holds(wait_queues'[w], a)
      BY <2>1 DEF Holds
    <3>2. Before(wait_queues[w], a, b) => Before(ready_threads', a, b)
      BY <2>1, BeforeFacts
    <3> QED BY <3>1, <3>2 DEF Overtakes
  <2>3. \A v \in WaitQueues \ {w} : wait_queues'[v] = wait_queues[v]
    BY <2>1
  <2> QED BY <2>2, <2>3, KeptInOrder DEF WaitersInOrder
<1>6. CASE UNCHANGED vars
  BY <1>1, <1>6 DEF vars, queues
<1>7. ASSUME NEW outcome, Stop(outcome) PROVE WaitersInOrder(a, b)
  BY <1>1, <1>7 DEF Stop, queues
<1>8. ASSUME \/ Resume \/ ExitHandlers
             \/ ThreadCreate \/ ThreadCreateNoStack
             \/ \E k, prev : YieldFrom(k, prev)
             \/ \E t : ThreadYieldTo(t) \/ ThreadKill(t) \/ ThreadJoin(t)
             \/ \E code : ThreadExit(code) \/ ProgramExit(code)
             \/ \E w : WaitQueueDestroy(w)
             \/ \E state : InterruptsSet(state)
      PROVE  wait_queues' = wait_queues
  BY <1>8
     DEF Resume, MyThreadStub, ReturnFromSwitch, ReturnFromSignal,
         ReturnFromJoin, EnterUserCode, ExitHandlers, my_on_exit, ProgramExit,
         InterruptsSet, WaitQueueDestroy, ThreadCreate, ThreadCreateNoStack,
         YieldFrom, ThreadYieldTo, ThreadKill, ThreadJoin, ThreadExit,
         ThreadExitToReady, ThreadExitLast, ThreadExitToJoiner, queues
<1> QED
  BY <1>1, <1>2, <1>3, <1>4, <1>5, <1>6, <1>7, <1>8
     DEF Next, Call, ThreadYield, HandleSignal, ThreadCreateNoQueue,
         ThreadYieldToNoStack, ThreadKillNoQueue, ThreadJoinNobodyReady,
         ThreadJoinNoQueue, Terminated

\* The first joiner of a thread that exits runs, and the others follow it in
\* order; a kill takes a joiner out of the middle, and it is dead then.
LEMMA JoinersStep ==
    ASSUME ThreadInv, [Next]_vars, program' # "exited",
           NEW a \in Tid, NEW b \in Tid
    PROVE  JoinersInOrder(a, b)
<1> USE DEF ThreadInv, TypeOK
<1>1. ASSUME join_threads' = join_threads PROVE JoinersInOrder(a, b)
  BY <1>1, KeptInOrder DEF JoinersInOrder
<1>2. CASE ThreadCreate
  <2>1. PICK t \in Tid : ThreadCreate!2!(t)
    BY <1>2 DEF ThreadCreate
  <2>2. join_threads[t] = <<>>
    BY <1>2, <2>1
       DEF ThreadCreate, InUserCode, IsNewTcb, Consistent, EndedHaveNoJoiners
  <2>3. join_threads' = join_threads
    BY <2>1, <2>2
  <2> QED BY <1>1, <2>3
<1>3. ASSUME NEW t \in Tid, ThreadJoin(t) PROVE JoinersInOrder(a, b)
  <2>1. running \in Tid
    BY <1>3 DEF ThreadJoin, CanJoin, InUserCode
  <2>2. join_threads' = [join_threads EXCEPT ![t] =
                            Queue_Enqueue(join_threads[t], running)]
    BY <1>3 DEF ThreadJoin
  <2>3. \A u : Holds(join_threads[t], u)
                    => Holds(Queue_Enqueue(join_threads[t], running), u)
    BY <2>1, EnqueueFacts
  <2>4. ASSUME NEW k \in Tid, NEW u, Holds(join_threads[k], u)
        PROVE  Holds(join_threads'[k], u)
    <3>1. join_threads'[k] = IF k = t THEN Queue_Enqueue(join_threads[t], running)
                             ELSE join_threads[k]
      BY <2>2
    <3> QED BY <2>3, <2>4, <3>1
  <2> QED BY <2>4, KeptInOrder DEF JoinersInOrder
<1>4. ASSUME NEW code, ThreadExitToJoiner(code) PROVE JoinersInOrder(a, b)
  <2> DEFINE joiners == join_threads[running]
  <2>1. /\ running \in Tid /\ program = "up" /\ joiners # <<>>
        /\ join_threads' = [join_threads EXCEPT ![running] = <<>>]
        /\ ready_threads' = DrainTo(Tail(joiners), ready_threads)
    BY <1>4 DEF ThreadExitToJoiner, InUserCode, Queue_IsEmpty
  <2>2. joiners \in Seq(Tid) /\ Tail(joiners) \in Seq(Tid)
    BY <2>1, DequeueFacts
  <2>3. ~ Overtakes(joiners, join_threads'[running], b, a)
    <3> SUFFICES ASSUME Before(joiners, a, b), Holds(ready_threads', a)
                 PROVE  Before(ready_threads', a, b)
      BY <2>1 DEF Overtakes, Holds
    <3>1. a # Head(joiners)
      <4> SUFFICES ASSUME a = Head(joiners) PROVE FALSE
        OBVIOUS
      <4>1. Holds(joiners, a) /\ ~ Holds(Tail(joiners), a)
        BY <2>1, <2>2, DequeueFacts DEF Consistent, JoinersInState
      <4>2. ~ Holds(ready_threads, a)
        BY <2>1, <4>1 DEF Consistent, JoinersInState, ReadyInState
      <4> QED BY <2>1, <2>2, <4>1, <4>2, DrainFacts
    <3>2. Before(Tail(joiners), a, b)
      BY <2>2, <3>1, BeforeFacts
    <3> QED BY <2>1, <2>2, <3>2, BeforeFacts
  <2>4. \A k \in Tid \ {running} : join_threads'[k] = join_threads[k]
    BY <2>1
  <2> QED BY <2>3, <2>4, KeptInOrder DEF JoinersInOrder
<1>5. ASSUME NEW t \in Tid, ThreadKill(t) PROVE JoinersInOrder(a, b)
  <2> DEFINE rest == IF thread_state[t] = "READY"
                     THEN Queue_Remove(ready_threads, t) ELSE ready_threads
  <2>1. /\ program = "up"
        /\ ready_threads' = DrainTo(join_threads[t], rest)
        /\ join_threads' = [k \in Tid |->
                IF k = t THEN <<>>
                ELSE IF thread_state[t] = "BLOCKED"
                THEN Queue_Remove(join_threads[k], t) ELSE join_threads[k]]
        /\ thread_state'[t] = "ZOMBIE"
    BY <1>5 DEF ThreadKill, InUserCode
  <2>2. rest \in Seq(Tid)
    BY RemoveFacts
  <2>3. ~ Overtakes(join_threads[t], join_threads'[t], b, a)
    <3>1. ~ Holds(join_threads'[t], a)
      BY <2>1 DEF Holds
    <3>2. Before(join_threads[t], a, b) => Before(ready_threads', a, b)
      BY <2>1, <2>2, BeforeFacts
    <3> QED BY <3>1, <3>2 DEF Overtakes
  <2>4. ASSUME NEW k \in Tid \ {t}
        PROVE  ~ Overtakes(join_threads[k], join_threads'[k], b, a)
    <3>1. \A u : Holds(join_threads[k], u) /\ u # t => Holds(join_threads'[k], u)
      BY <2>1, RemoveFacts DEF Consistent, JoinersInState
    <3> QED BY <2>1, <3>1, BeforeFacts DEF Overtakes
  <2> QED BY <2>3, <2>4 DEF JoinersInOrder
<1>6. CASE UNCHANGED vars
  BY <1>1, <1>6 DEF vars, tcb
<1>7. ASSUME NEW outcome, Stop(outcome) PROVE JoinersInOrder(a, b)
  BY <1>1, <1>7 DEF Stop, tcb
<1>8. ASSUME \/ Resume \/ ThreadCreateNoStack
             \/ \E k, prev : YieldFrom(k, prev)
             \/ \E t : ThreadYieldTo(t)
             \/ \E code : ThreadExitToReady(code) \/ ThreadExitLast(code)
             \/ \E w : \/ WaitQueueCreate(w) \/ WaitQueueDestroy(w)
                       \/ ThreadSleep(w) \/ ThreadWakeNext(w) \/ ThreadWakeAll(w)
             \/ \E state : InterruptsSet(state)
      PROVE  join_threads' = join_threads
  BY <1>8
     DEF Resume, MyThreadStub, ReturnFromSwitch, ReturnFromSignal,
         ReturnFromJoin, EnterUserCode, InterruptsSet, WaitQueueCreate,
         WaitQueueDestroy, ThreadCreateNoStack, YieldFrom, ThreadYieldTo,
         ThreadExitToReady, ThreadExitLast, ThreadSleep, ThreadWakeNext,
         ThreadWakeAll, tcb
<1>9. ASSUME NEW code, ProgramExit(code) \/ ExitHandlers PROVE FALSE
  BY <1>9 DEF ProgramExit, ExitHandlers, my_on_exit
<1> QED
  BY <1>1, <1>2, <1>3, <1>4, <1>5, <1>6, <1>7, <1>8, <1>9
     DEF Next, Call, ThreadYield, HandleSignal, ThreadCreateNoQueue,
         ThreadYieldToNoStack, ThreadKillNoQueue, ThreadJoinNobodyReady,
         ThreadJoinNoQueue, ThreadExit, Terminated

\* Threads leave a wait queue or a join queue in the order in which they came,
\* whatever wakes, exits, kills and switches lie between.
THEOREM OrderCorrect == ~ KillSleepers => (Spec => LeaveInOrder)
<1> SUFFICES ASSUME ~ KillSleepers PROVE Spec => LeaveInOrder
  OBVIOUS
<1>1. ThreadInv /\ [Next]_vars =>
        [program' # "exited" => \A a, b \in Tid :
            /\ \A w \in WaitQueues :
                    ~ Overtakes(wait_queues[w], wait_queues'[w], b, a)
            /\ \A k \in Tid :
                    ~ Overtakes(join_threads[k], join_threads'[k], b, a)]_vars
  BY WaitersStep, JoinersStep DEF WaitersInOrder, JoinersInOrder
<1>2. Spec => []ThreadInv
  BY Invariance
<1> QED BY <1>1, <1>2, PTL DEF Spec, LeaveInOrder
=============================================================================
