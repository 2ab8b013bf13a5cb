---------------------------- MODULE ThreadProofs ----------------------------
(***************************************************************************)
(* Proofs about CSC369Thread: type correctness, and the inductive invariant*)
(* ThreadInv with the safety properties that follow from it.               *)
(***************************************************************************)
EXTENDS CSC369Thread, TLAPS

-----------------------------------------------------------------------------
(* What the queue operations do to the threads a queue holds, for queues over *)
(* any set.                                                                  *)

\* Elements of a concatenation.
LEMMA ConcatFacts ==
    ASSUME NEW S, NEW a \in Seq(S), NEW b \in Seq(S)
    PROVE  /\ a \o b \in Seq(S) /\ Len(a \o b) = Len(a) + Len(b)
           /\ \A i \in 1 .. Len(a) + Len(b) :
                (a \o b)[i] = IF i <= Len(a) THEN a[i] ELSE b[i - Len(a)]
  OBVIOUS

\* Queue_Enqueue adds its thread and nothing else.
LEMMA EnqueueFacts ==
    ASSUME NEW S, NEW q \in Seq(S), NEW t \in S
    PROVE  /\ Queue_Enqueue(q, t) \in Seq(S)
           /\ \A u : Holds(Queue_Enqueue(q, t), u) <=> Holds(q, u) \/ u = t
           /\ IsInjective(q) /\ ~ Holds(q, t) => IsInjective(Queue_Enqueue(q, t))
<1> DEFINE n == Len(q)
           e == Queue_Enqueue(q, t)
<1>1. /\ n \in Nat
      /\ DOMAIN q = 1 .. n
      /\ \A i \in 1 .. n : q[i] \in S
  OBVIOUS
<1>2. /\ e \in Seq(S)
      /\ DOMAIN e = 1 .. n + 1
      /\ \A i \in 1 .. n : e[i] = q[i]
      /\ e[n + 1] = t
  BY DEF Queue_Enqueue
<1>3. \A u : Holds(e, u) <=> Holds(q, u) \/ u = t
  <2> SUFFICES ASSUME NEW u PROVE Holds(e, u) <=> Holds(q, u) \/ u = t
    OBVIOUS
  <2>1. ASSUME Holds(e, u) PROVE Holds(q, u) \/ u = t
    BY <1>1, <1>2, <2>1 DEF Holds
  <2>2. ASSUME Holds(q, u) PROVE Holds(e, u)
    BY <1>1, <1>2, <2>2 DEF Holds
  <2>3. ASSUME u = t PROVE Holds(e, u)
    BY <1>1, <1>2, <2>3 DEF Holds
  <2> QED BY <2>1, <2>2, <2>3
<1>4. ASSUME IsInjective(q), ~ Holds(q, t) PROVE IsInjective(e)
  BY <1>1, <1>2, <1>4 DEF Holds, IsInjective
<1> QED BY <1>2, <1>3, <1>4

\* Queue_Dequeue (Head and Tail) takes one occurrence of the first thread.
LEMMA DequeueFacts ==
    ASSUME NEW S, NEW q \in Seq(S), q # <<>>
    PROVE  /\ Head(q) \in S
           /\ Tail(q) \in Seq(S)
           /\ Holds(q, Head(q))
           /\ \A u : Holds(Tail(q), u) => Holds(q, u)
           /\ \A u : Holds(q, u) => Holds(Tail(q), u) \/ u = Head(q)
           /\ IsInjective(q) => IsInjective(Tail(q)) /\ ~ Holds(Tail(q), Head(q))
<1> DEFINE n == Len(q)
           r == Tail(q)
<1>1. /\ n \in Nat \ {0}
      /\ DOMAIN q = 1 .. n
      /\ \A i \in 1 .. n : q[i] \in S
      /\ Head(q) = q[1]
  OBVIOUS
<1>2. /\ r \in Seq(S)
      /\ DOMAIN r = 1 .. n - 1
      /\ \A i \in 1 .. n - 1 : r[i] = q[i + 1]
  OBVIOUS
<1>3. Holds(q, Head(q))
  BY <1>1 DEF Holds
<1>4. ASSUME NEW u, Holds(r, u) PROVE Holds(q, u)
  BY <1>1, <1>2, <1>4 DEF Holds
<1>5. ASSUME NEW u, Holds(q, u), u # Head(q) PROVE Holds(r, u)
  <2>1. PICK i \in 2 .. n : q[i] = u
    BY <1>1, <1>5 DEF Holds
  <2>2. r[i - 1] = u /\ i - 1 \in 1 .. n - 1
    BY <1>1, <1>2, <2>1
  <2> QED BY <1>2, <2>2 DEF Holds
<1>6. ASSUME IsInjective(q) PROVE IsInjective(r) /\ ~ Holds(r, Head(q))
  BY <1>1, <1>2, <1>6 DEF Holds, IsInjective
<1> QED BY <1>1, <1>2, <1>3, <1>4, <1>5, <1>6

\* Draining one queue onto another keeps every thread of both.
LEMMA DrainFacts ==
    ASSUME NEW S, NEW q \in Seq(S), NEW other \in Seq(S)
    PROVE  /\ DrainTo(q, other) \in Seq(S)
           /\ \A u : Holds(DrainTo(q, other), u) <=> Holds(q, u) \/ Holds(other, u)
           /\ /\ IsInjective(q)
              /\ IsInjective(other)
              /\ \A u : ~ (Holds(q, u) /\ Holds(other, u))
              => IsInjective(DrainTo(q, other))
<1> DEFINE m == Len(other)
           n == Len(q)
           d == DrainTo(q, other)
<1>1. /\ m \in Nat /\ n \in Nat
      /\ DOMAIN q = 1 .. n /\ DOMAIN other = 1 .. m
  OBVIOUS
<1>2. /\ d \in Seq(S)
      /\ DOMAIN d = 1 .. m + n
      /\ \A i \in 1 .. m : d[i] = other[i]
      /\ \A i \in m + 1 .. m + n : d[i] = q[i - m]
  BY DEF DrainTo
<1> HIDE DEF d, m, n
<1>3. \A u : Holds(d, u) <=> Holds(q, u) \/ Holds(other, u)
  <2> SUFFICES ASSUME NEW u
               PROVE  Holds(d, u) <=> Holds(q, u) \/ Holds(other, u)
    OBVIOUS
  <2>1. ASSUME Holds(d, u) PROVE Holds(q, u) \/ Holds(other, u)
    <3>1. PICK i \in 1 .. m + n : d[i] = u
      BY <1>2, <2>1 DEF Holds
    <3>2. CASE i <= m
      BY <1>1, <1>2, <3>1, <3>2 DEF Holds
    <3>3. CASE i > m
      <4>1. i - m \in 1 .. n /\ q[i - m] = u
        BY <1>1, <1>2, <3>1, <3>3
      <4> QED BY <1>1, <4>1 DEF Holds
    <3> QED BY <1>1, <3>2, <3>3
  <2>2. ASSUME Holds(q, u) PROVE Holds(d, u)
    <3>1. PICK i \in 1 .. n : q[i] = u
      BY <1>1, <2>2 DEF Holds
    <3>2. i + m \in m + 1 .. m + n /\ (i + m) - m = i
      BY <1>1, <3>1
    <3>3. d[i + m] = u
      BY <1>2, <3>1, <3>2
    <3> QED BY <1>1, <1>2, <3>2, <3>3 DEF Holds
  <2>3. ASSUME Holds(other, u) PROVE Holds(d, u)
    BY <1>1, <1>2, <2>3 DEF Holds
  <2> QED BY <2>1, <2>2, <2>3
<1>4. ASSUME /\ IsInjective(q)
             /\ IsInjective(other)
             /\ \A u : ~ (Holds(q, u) /\ Holds(other, u))
      PROVE  IsInjective(d)
  <2> SUFFICES ASSUME NEW i \in 1 .. m + n, NEW j \in 1 .. m + n,
                      d[i] = d[j], i < j
               PROVE  FALSE
    BY <1>1, <1>2 DEF IsInjective
  <2>1. CASE j <= m
    <3>1. i \in 1 .. m /\ j \in 1 .. m /\ i # j
      BY <1>1, <2>1
    <3>2. other[i] = other[j]
      BY <1>2, <3>1
    <3> QED BY <1>1, <1>4, <3>1, <3>2 DEF IsInjective
  <2>2. CASE i > m
    <3>1. /\ i - m \in 1 .. n /\ j - m \in 1 .. n /\ i - m # j - m
          /\ q[i - m] = q[j - m]
      BY <1>1, <1>2, <2>2
    <3> QED BY <1>1, <1>4, <3>1 DEF IsInjective
  <2>3. CASE i <= m /\ j > m
    <3>1. /\ i \in 1 .. m /\ j - m \in 1 .. n
          /\ other[i] = q[j - m]
      BY <1>1, <1>2, <2>3
    <3>2. Holds(other, other[i]) /\ Holds(q, other[i])
      BY <1>1, <3>1 DEF Holds
    <3> QED BY <1>4, <3>2
  <2> QED BY <1>1, <2>1, <2>2, <2>3
<1> QED BY <1>2, <1>3, <1>4 DEF d

\* Queue_Remove takes its thread out of a queue that holds it once, wherever it
\* stands, and leaves the others.
LEMMA RemoveFacts ==
    ASSUME NEW S, NEW q \in Seq(S), NEW t
    PROVE  /\ Queue_Remove(q, t) \in Seq(S)
           /\ IsInjective(q) => IsInjective(Queue_Remove(q, t))
           /\ IsInjective(q) => \A u : Holds(Queue_Remove(q, t), u)
                                          <=> Holds(q, u) /\ u # t
<1> DEFINE n == Len(q)
           r == Queue_Remove(q, t)
<1>1. CASE ~ Holds(q, t)
  BY <1>1 DEF Queue_Remove, Holds
<1>2. CASE Holds(q, t)
  <2>1. n \in Nat /\ DOMAIN q = 1 .. n
    OBVIOUS
  <2>2. PICK k : /\ k = CHOOSE i \in DOMAIN q : q[i] = t
                 /\ k \in 1 .. n /\ q[k] = t
    BY <1>2, <2>1 DEF Holds
  <2>3. r = SubSeq(q, 1, k - 1) \o SubSeq(q, k + 1, n)
    BY <1>2, <2>2 DEF Queue_Remove, RemoveAt
  <2> DEFINE front == SubSeq(q, 1, k - 1)
             back == SubSeq(q, k + 1, n)
  <2>4. /\ front \in Seq(S) /\ Len(front) = k - 1
        /\ \A i \in 1 .. k - 1 : front[i] = q[i]
    BY <2>1, <2>2
  <2>5. /\ back \in Seq(S) /\ Len(back) = n - k
        /\ \A i \in 1 .. n - k : back[i] = q[i + k]
    BY <2>1, <2>2
  <2>k. k \in 1 .. n /\ q[k] = t
    BY <2>2
  <2> HIDE DEF r, n, front, back
  <2>6. /\ r \in Seq(S)
        /\ DOMAIN r = 1 .. n - 1
        /\ \A i \in 1 .. k - 1 : r[i] = q[i]
        /\ \A i \in k .. n - 1 : r[i] = q[i + 1]
    <3>1. r = front \o back
      BY <2>3 DEF front, back, n
    <3>a. /\ r \in Seq(S) /\ Len(r) = Len(front) + Len(back)
          /\ \A i \in 1 .. Len(front) + Len(back) :
                r[i] = IF i <= Len(front) THEN front[i] ELSE back[i - Len(front)]
      BY <2>4, <2>5, <3>1, ConcatFacts
    <3>2. /\ r \in Seq(S) /\ Len(r) = n - 1
          /\ \A i \in 1 .. n - 1 : r[i] = IF i <= k - 1 THEN front[i]
                                         ELSE back[i - (k - 1)]
      BY <2>1, <2>k, <2>4, <2>5, <3>a
    <3>3. ASSUME NEW i \in k .. n - 1 PROVE r[i] = q[i + 1]
      <4>1. i \in 1 .. n - 1 /\ ~ (i <= k - 1)
        BY <2>1, <2>k
      <4>2. i - (k - 1) \in 1 .. n - k /\ (i - (k - 1)) + k = i + 1
        BY <2>1, <2>k
      <4> QED BY <2>5, <3>2, <4>1, <4>2
    <3>4. ASSUME NEW i \in 1 .. k - 1 PROVE r[i] = q[i]
      BY <2>1, <2>k, <2>4, <3>2
    <3> QED BY <2>1, <2>k, <3>2, <3>3, <3>4
  <2>7. ASSUME IsInjective(q) PROVE IsInjective(r)
    <3>1. \A a, b \in 1 .. n : q[a] = q[b] => a = b
      BY <2>1, <2>7 DEF IsInjective
    <3> SUFFICES ASSUME NEW i \in 1 .. n - 1, NEW j \in 1 .. n - 1,
                        r[i] = r[j], i < j
                 PROVE  FALSE
      BY <2>1, <2>6 DEF IsInjective
    <3>2. CASE j < k
      <4>1. i \in 1 .. k - 1 /\ j \in 1 .. k - 1 /\ i \in 1 .. n /\ j \in 1 .. n
        BY <2>1, <2>k, <3>2
      <4> QED BY <2>6, <3>1, <4>1
    <3>3. CASE i < k /\ j >= k
      <4>1. /\ i \in 1 .. k - 1 /\ j \in k .. n - 1
            /\ i \in 1 .. n /\ j + 1 \in 1 .. n /\ i # j + 1
        BY <2>1, <2>k, <3>3
      <4> QED BY <2>6, <3>1, <4>1
    <3>4. CASE i >= k
      <4>1. /\ i \in k .. n - 1 /\ j \in k .. n - 1
            /\ i + 1 \in 1 .. n /\ j + 1 \in 1 .. n /\ i + 1 # j + 1
        BY <2>1, <2>k, <3>4
      <4> QED BY <2>6, <3>1, <4>1
    <3> QED BY <2>1, <2>k, <3>2, <3>3, <3>4
  <2>8. ASSUME IsInjective(q), NEW u
        PROVE  Holds(r, u) <=> Holds(q, u) /\ u # t
    <3>0. \A a, b \in 1 .. n : q[a] = q[b] => a = b
      BY <2>1, <2>8 DEF IsInjective
    <3>1. ASSUME Holds(r, u) PROVE Holds(q, u) /\ u # t
      <4>1. PICK i \in 1 .. n - 1 : r[i] = u
        BY <2>6, <3>1 DEF Holds
      <4>2. CASE i < k
        <5>1. i \in 1 .. k - 1 /\ i \in 1 .. n /\ i # k
          BY <2>1, <2>k, <4>1, <4>2
        <5>2. q[i] = u
          BY <2>6, <4>1, <5>1
        <5> QED BY <2>1, <2>k, <3>0, <5>1, <5>2 DEF Holds
      <4>3. CASE i >= k
        <5>1. i + 1 \in 1 .. n /\ i + 1 # k /\ i \in k .. n - 1
          BY <2>1, <2>k, <4>1, <4>3
        <5>2. q[i + 1] = u
          BY <2>6, <4>1, <5>1
        <5> QED BY <2>1, <2>k, <3>0, <5>1, <5>2 DEF Holds
      <4> QED BY <2>1, <2>k, <4>2, <4>3
    <3>2. ASSUME Holds(q, u), u # t PROVE Holds(r, u)
      <4>1. PICK i \in 1 .. n : q[i] = u /\ i # k
        BY <2>1, <2>k, <3>2 DEF Holds
      <4>2. CASE i < k
        <5>1. i \in 1 .. k - 1 /\ i \in 1 .. n - 1
          BY <2>1, <2>k, <4>1, <4>2
        <5> QED BY <2>6, <4>1, <5>1 DEF Holds
      <4>3. CASE i > k
        <5>1. i - 1 \in k .. n - 1 /\ (i - 1) + 1 = i
          BY <2>1, <2>k, <4>1, <4>3
        <5>2. r[i - 1] = u
          BY <2>6, <4>1, <5>1
        <5> QED BY <2>k, <2>6, <5>1, <5>2 DEF Holds
      <4> QED BY <2>1, <2>k, <4>1, <4>2, <4>3
    <3> QED BY <3>1, <3>2
  <2> QED BY <2>6, <2>7, <2>8 DEF r
<1> QED BY <1>1, <1>2

\* What is in order in a queue stays so when the head leaves or the queue is
\* drained to the end of another.
LEMMA BeforeFacts ==
    ASSUME NEW S, NEW q \in Seq(S), NEW a, NEW b, Before(q, a, b)
    PROVE  /\ q # <<>> /\ Holds(q, a) /\ Holds(q, b) /\ Holds(Tail(q), b)
           /\ a # Head(q) => Before(Tail(q), a, b)
           /\ \A other \in Seq(S) : Before(DrainTo(q, other), a, b)
<1>1. PICK i \in DOMAIN q, j \in DOMAIN q : i < j /\ q[i] = a /\ q[j] = b
  BY DEF Before
<1>2. /\ Len(q) \in Nat /\ i \in 1 .. Len(q) /\ j \in 2 .. Len(q)
      /\ Head(q) = q[1]
  BY <1>1
<1>3. q # <<>> /\ Holds(q, a) /\ Holds(q, b)
  BY <1>1, <1>2 DEF Holds
<1>4. /\ DOMAIN Tail(q) = 1 .. Len(q) - 1
      /\ \A k \in 1 .. Len(q) - 1 : Tail(q)[k] = q[k + 1]
  BY <1>3
<1>5. j - 1 \in DOMAIN Tail(q) /\ Tail(q)[j - 1] = b
  BY <1>1, <1>2, <1>4
<1>6. ASSUME a # Head(q) PROVE Before(Tail(q), a, b)
  <2>1. i - 1 \in DOMAIN Tail(q) /\ Tail(q)[i - 1] = a
    BY <1>1, <1>2, <1>4, <1>6
  <2>2. i - 1 < j - 1
    BY <1>1, <1>2
  <2> QED BY <1>5, <2>1, <2>2 DEF Before
<1>7. ASSUME NEW other \in Seq(S) PROVE Before(DrainTo(q, other), a, b)
  <2> DEFINE m == Len(other)
             d == DrainTo(q, other)
  <2>1. /\ m \in Nat /\ DOMAIN d = 1 .. m + Len(q)
        /\ \A k \in m + 1 .. m + Len(q) : d[k] = q[k - m]
    BY DEF DrainTo
  <2> HIDE DEF d, m
  <2>2. /\ m + i \in m + 1 .. m + Len(q) /\ m + j \in m + 1 .. m + Len(q)
        /\ m + i < m + j
    BY <1>1, <1>2, <2>1
  <2>3. (m + i) - m = i /\ (m + j) - m = j
    BY <1>2, <2>1
  <2>4. d[m + i] = a /\ d[m + j] = b
    BY <1>1, <2>1, <2>2, <2>3
  <2>5. m + i \in DOMAIN d /\ m + j \in DOMAIN d
    BY <2>1, <2>2
  <2> QED BY <2>2, <2>4, <2>5 DEF Before, d
<1> QED BY <1>3, <1>5, <1>6, <1>7 DEF Holds

-----------------------------------------------------------------------------
USE ThreadsAssumption, CodesAssumption, NamesAssumption, ClientAssumption

(* Types. *)

\* The initial state has the type TypeOK gives it.
LEMMA TypeInit == Init => TypeOK
  BY DEF Init, TypeOK, ThreadStates, Contexts, Tid

\* Every step keeps the types.
LEMMA TypeStep == TypeOK /\ [Next]_vars => TypeOK'
<1> SUFFICES ASSUME TypeOK, [Next]_vars PROVE TypeOK'
  OBVIOUS
<1> USE DEF TypeOK, ThreadStates, Contexts, EXIT_CODE_NORMAL, EXIT_CODE_KILL
<1>0. <<>> \in Seq(Tid)
  OBVIOUS
<1>1. CASE ThreadCreate
  <2>1. PICK t \in Tid : ThreadCreate!2!(t)
    BY <1>1 DEF ThreadCreate
  <2>2. Queue_Enqueue(ready_threads, t) \in Seq(Tid)
    BY EnqueueFacts
  <2> QED BY <1>0, <1>1, <2>1, <2>2 DEF ThreadCreate, queues, process
<1>2. CASE ThreadCreateNoStack
  BY <1>2 DEF ThreadCreateNoStack, queues, process, suspended
<1>3. ASSUME NEW outcome \in {"aborted", "undefined"}, Stop(outcome)
      PROVE  TypeOK'
  BY <1>3 DEF Stop, tcb, queues, suspended
<1>4. ASSUME NEW k \in {"yield", "handler"}, NEW prev \in BOOLEAN,
             InUserCode, YieldFrom(k, prev)
      PROVE  TypeOK'
  BY <1>4, EnqueueFacts, DequeueFacts
     DEF InUserCode, YieldFrom, SwitchFrom, Queue_IsEmpty, queues, process
<1>5. ASSUME NEW t \in Tid, ThreadYieldTo(t) PROVE TypeOK'
  BY <1>5, EnqueueFacts, RemoveFacts
     DEF InUserCode, ThreadYieldTo, SwitchFrom, queues, process
<1>6. ASSUME NEW code \in ExitCodes, ThreadExitToReady(code) PROVE TypeOK'
  BY <1>6, DequeueFacts
     DEF InUserCode, ThreadExitToReady, Retire, Queue_IsEmpty, queues, process
<1>7. ASSUME NEW code \in ExitCodes, ThreadExitLast(code) PROVE TypeOK'
  BY <1>7 DEF InUserCode, ThreadExitLast, Retire, queues
<1>8. ASSUME NEW code \in ExitCodes, ThreadExitToJoiner(code) PROVE TypeOK'
  <2>1. running \in Tid /\ join_threads[running] \in Seq(Tid)
    BY <1>8 DEF ThreadExitToJoiner, InUserCode
  <2>2. /\ Head(join_threads[running]) \in Tid
        /\ Tail(join_threads[running]) \in Seq(Tid)
    BY <1>8, <2>1, DequeueFacts DEF ThreadExitToJoiner, Queue_IsEmpty
  <2>3. DrainTo(Tail(join_threads[running]), ready_threads) \in Seq(Tid)
    BY <2>2, DrainFacts
  <2> QED
    BY <1>0, <1>8, <2>1, <2>2, <2>3
       DEF ThreadExitToJoiner, Retire, queues, process
<1>9. ASSUME NEW t \in Tid, ThreadKill(t) PROVE TypeOK'
  <2>1. join_threads[t] \in Seq(Tid)
    OBVIOUS
  <2>2. /\ Queue_Remove(ready_threads, t) \in Seq(Tid)
        /\ \A k \in Tid : Queue_Remove(join_threads[k], t) \in Seq(Tid)
    BY RemoveFacts
  <2>3. ready_threads' \in Seq(Tid)
    BY <1>9, <2>1, <2>2, DrainFacts DEF ThreadKill
  <2>4. zombie_threads' \in Seq(Tid)
    BY <1>9, EnqueueFacts DEF ThreadKill
  <2>5. join_threads' \in [Tid -> Seq(Tid)]
    BY <1>0, <1>9, <2>2 DEF ThreadKill
  <2> QED
    BY <1>9, <2>3, <2>4, <2>5 DEF ThreadKill, Retire, queues, process
<1>10. ASSUME NEW w \in WaitQueues,
              WaitQueueCreate(w) \/ WaitQueueDestroy(w)
       PROVE  TypeOK'
  <2>1. CASE WaitQueueCreate(w)
    <3>1. [wait_queues EXCEPT ![w] = <<>>] \in [WaitQueues -> Seq(Tid)]
      BY <1>0
    <3> QED BY <2>1, <3>1 DEF WaitQueueCreate, tcb, suspended, process
  <2>2. CASE WaitQueueDestroy(w)
    BY <2>2 DEF WaitQueueDestroy, tcb, suspended, process
  <2> QED BY <1>10, <2>1, <2>2
<1>11. ASSUME NEW w \in WaitQueues, ThreadSleep(w) PROVE TypeOK'
  <2>1. running \in Tid /\ wait_queues[w] \in Seq(Tid)
    BY <1>11 DEF ThreadSleep, InUserCode
  <2>2. Head(ready_threads) \in Tid /\ Tail(ready_threads) \in Seq(Tid)
    BY <1>11, DequeueFacts DEF ThreadSleep, Queue_IsEmpty
  <2>3. Queue_Enqueue(wait_queues[w], running) \in Seq(Tid)
    BY <2>1, EnqueueFacts
  <2> QED BY <1>11, <2>1, <2>2, <2>3 DEF ThreadSleep, SwitchFrom, process
<1>12. ASSUME NEW w \in WaitQueues, ThreadWakeNext(w) PROVE TypeOK'
  <2>1. wait_queues[w] \in Seq(Tid) /\ wait_queues[w] # <<>>
    BY <1>12 DEF ThreadWakeNext, Queue_IsEmpty
  <2>2. Head(wait_queues[w]) \in Tid /\ Tail(wait_queues[w]) \in Seq(Tid)
    BY <2>1, DequeueFacts
  <2>3. Queue_Enqueue(ready_threads, Head(wait_queues[w])) \in Seq(Tid)
    BY <2>2, EnqueueFacts
  <2> QED BY <1>12, <2>1, <2>2, <2>3 DEF ThreadWakeNext, process
<1>13. ASSUME NEW w \in WaitQueues, ThreadWakeAll(w) PROVE TypeOK'
  BY <1>13, DrainFacts DEF ThreadWakeAll, process
<1>14. ASSUME NEW t \in Tid, ThreadJoin(t) PROVE TypeOK'
  <2>1. running \in Tid /\ join_threads[t] \in Seq(Tid)
    BY <1>14 DEF ThreadJoin, CanJoin, InUserCode
  <2>2. Head(ready_threads) \in Tid /\ Tail(ready_threads) \in Seq(Tid)
    BY <1>14, DequeueFacts DEF ThreadJoin, Queue_IsEmpty
  <2>3. Queue_Enqueue(join_threads[t], running) \in Seq(Tid)
    BY <2>1, EnqueueFacts
  <2> QED BY <1>14, <2>1, <2>2, <2>3 DEF ThreadJoin, SwitchFrom, queues, process
<1>15. CASE Resume
  <2>1. running \in Tid
    BY <1>15 DEF Resume, MyThreadStub, ReturnFromSwitch, ReturnFromSignal,
                 ReturnFromJoin, Resumes
  <2>2. /\ \E mask \in BOOLEAN : EnterUserCode(mask)
        /\ mask_set' = mask_set
        /\ owed' = owed \/ owed' = [owed EXCEPT ![running] = NULL]
    BY <1>15, <2>1 DEF Resume, MyThreadStub, ReturnFromSwitch, ReturnFromSignal,
                       ReturnFromJoin
  <2>3. owed' \in [Tid -> Int \cup {NULL}] /\ mask_set' \in [Tid -> BOOLEAN]
    BY <2>1, <2>2
  <2>4. PICK mask \in BOOLEAN : EnterUserCode(mask)
    BY <2>2
  <2>5. /\ ctx' \in [Tid -> Contexts]
        /\ arg' \in [Tid -> Tid \cup WaitQueues \cup {NULL}]
        /\ saved' \in [Tid -> BOOLEAN]
        /\ interrupts' \in BOOLEAN
    BY <2>1, <2>4 DEF EnterUserCode
  <2> QED BY <2>3, <2>4, <2>5 DEF EnterUserCode, tcb, queues, process
<1>16. ASSUME NEW state \in MaskSettings, InterruptsSet(state) PROVE TypeOK'
  BY <1>16 DEF InUserCode, InterruptsSet, tcb, queues, suspended, process
<1>17. CASE ExitHandlers
  BY <1>0, <1>17 DEF ExitHandlers, my_on_exit, queues, suspended
<1>18. ASSUME NEW code \in ExitCodes, ProgramExit(code) PROVE TypeOK'
  BY <1>0, <1>18 DEF ProgramExit, my_on_exit, queues, suspended
<1>19. CASE UNCHANGED vars
  BY <1>19 DEF vars, tcb, queues, suspended, process
<1> QED
  BY <1>1, <1>2, <1>3, <1>4, <1>5, <1>6, <1>7, <1>8, <1>9, <1>10, <1>11,
     <1>12, <1>13, <1>14, <1>15, <1>16, <1>17, <1>18, <1>19
     DEF Next, Call, ThreadCreateNoQueue, ThreadYield, HandleSignal,
         ThreadYieldToNoStack, ThreadKillNoQueue, ThreadJoinNobodyReady,
         ThreadJoinNoQueue, ThreadExit, Terminated

-----------------------------------------------------------------------------
(* Each action keeps the threads and the queues consistent.  A lemma states
   first what the action does to the queues in terms of what they hold, and
   then takes the parts of the invariant one by one. *)

\* A created thread is appended to the ready queue, once.
LEMMA CreateStep ==
    ASSUME TypeOK, Consistent, ThreadCreate
    PROVE  Consistent'
<1>1. PICK t \in Tid : ThreadCreate!2!(t)
  BY DEF ThreadCreate
<1>2. thread_state[t] = "FREE" /\ running \in Tid /\ running # t
  BY <1>1 DEF IsNewTcb, Consistent, OneRunning
<1>3. /\ thread_state' = [thread_state EXCEPT ![t] = "READY"]
      /\ UNCHANGED <<running, zombie_threads, wait_queues, allocated, arg>>
  BY <1>1 DEF ThreadCreate, queues
<1>4. /\ joinable' = [joinable EXCEPT ![t] = TRUE]
      /\ stack' = [stack EXCEPT ![t] = TRUE]
      /\ ctx' = [ctx EXCEPT ![t] = "stub"]
  BY <1>1 DEF ThreadCreate
<1>5. join_threads' = join_threads
  BY <1>1, <1>2 DEF Consistent, EndedHaveNoJoiners, TypeOK
<1>6. /\ ~ Holds(ready_threads, t)
      /\ \A u : Holds(ready_threads', u) <=> Holds(ready_threads, u) \/ u = t
      /\ IsInjective(ready_threads')
  <2>1. /\ ready_threads \in Seq(Tid) /\ IsInjective(ready_threads)
        /\ ~ Holds(ready_threads, t)
    BY <1>2 DEF Consistent, ReadyInState, TypeOK
  <2>2. ready_threads' = Queue_Enqueue(ready_threads, t)
    BY <1>1
  <2> QED BY <2>1, <2>2, EnqueueFacts
<1>7. OneRunning'
  BY <1>2, <1>3 DEF Consistent, OneRunning, TypeOK
<1>8. ReadyInState'
  BY <1>3, <1>6 DEF Consistent, ReadyInState, TypeOK
<1>9. ZombiesInState'
  BY <1>2, <1>3 DEF Consistent, ZombiesInState, TypeOK
<1>10. SleepersInState'
  BY <1>2, <1>3 DEF Consistent, SleepersInState, TypeOK
<1>11. JoinersInState'
  BY <1>2, <1>3, <1>5 DEF Consistent, JoinersInState, TypeOK
<1>12. NobodyOnFreedQueue'
  BY <1>3 DEF Consistent, NobodyOnFreedQueue
<1>13. EndedHaveNoJoiners'
  BY <1>3, <1>5 DEF Consistent, EndedHaveNoJoiners, TypeOK
<1>14. AliveCanRun'
  BY <1>2, <1>3, <1>4, <1>6 DEF Consistent, AliveCanRun, TypeOK
<1>15. BlockedInCall'
  BY <1>2, <1>3, <1>4 DEF Consistent, BlockedInCall, TypeOK
<1> QED
  BY <1>2, <1>3, <1>7, <1>8, <1>9, <1>10, <1>11, <1>12, <1>13, <1>14, <1>15
     DEF Consistent

\* A creation that runs out of memory leaves the queues alone.
LEMMA CreateNoStackStep ==
    ASSUME TypeOK, Consistent, ThreadCreateNoStack
    PROVE  Consistent'
<1>1. PICK t \in Tid : ThreadCreateNoStack!3!(t)
  BY DEF ThreadCreateNoStack
<1>2. thread_state[t] = "FREE" /\ running \in Tid /\ running # t
  BY <1>1 DEF IsNewTcb, Consistent, OneRunning
<1>3. /\ thread_state' = [thread_state EXCEPT ![t] = "READY"]
      /\ stack' = [stack EXCEPT ![t] = FALSE]
      /\ UNCHANGED <<join_threads, joinable, ready_threads, zombie_threads,
                     wait_queues, allocated, running, ctx, arg>>
  BY <1>1 DEF ThreadCreateNoStack, queues, suspended
<1>4. ~ Holds(ready_threads, t)
  BY <1>2 DEF Consistent, ReadyInState
<1>5. OneRunning'
  BY <1>2, <1>3 DEF Consistent, OneRunning, TypeOK
<1>6. ReadyInState'
  BY <1>3 DEF Consistent, ReadyInState, TypeOK
<1>7. ZombiesInState'
  BY <1>2, <1>3 DEF Consistent, ZombiesInState, TypeOK
<1>8. SleepersInState'
  BY <1>2, <1>3 DEF Consistent, SleepersInState, TypeOK
<1>9. JoinersInState'
  BY <1>2, <1>3 DEF Consistent, JoinersInState, TypeOK
<1>10. NobodyOnFreedQueue' /\ EndedHaveNoJoiners'
  BY <1>3 DEF Consistent, NobodyOnFreedQueue, EndedHaveNoJoiners, TypeOK
<1>11. AliveCanRun'
  BY <1>2, <1>3, <1>4 DEF Consistent, AliveCanRun, TypeOK
<1>12. BlockedInCall'
  BY <1>2, <1>3 DEF Consistent, BlockedInCall, TypeOK
<1> QED
  BY <1>2, <1>3, <1>5, <1>6, <1>7, <1>8, <1>9, <1>10, <1>11, <1>12
     DEF Consistent

\* What is known of the head of a ready queue that is not empty.
LEMMA FirstReady ==
    ASSUME TypeOK, Consistent, ready_threads # <<>>
    PROVE  /\ Head(ready_threads) \in Tid
           /\ Tail(ready_threads) \in Seq(Tid)
           /\ IsInjective(Tail(ready_threads))
           /\ thread_state[Head(ready_threads)] = "READY"
           /\ Head(ready_threads) # running
           /\ stack[Head(ready_threads)]
           /\ \A u : Holds(Tail(ready_threads), u)
                        <=> Holds(ready_threads, u) /\ u # Head(ready_threads)
<1>1. /\ Head(ready_threads) \in Tid
      /\ Tail(ready_threads) \in Seq(Tid)
      /\ Holds(ready_threads, Head(ready_threads))
      /\ IsInjective(Tail(ready_threads))
      /\ \A u : Holds(Tail(ready_threads), u)
                    <=> Holds(ready_threads, u) /\ u # Head(ready_threads)
  BY DequeueFacts DEF TypeOK, Consistent, ReadyInState
<1>2. /\ thread_state[Head(ready_threads)] = "READY"
      /\ stack[Head(ready_threads)]
  BY <1>1 DEF Consistent, ReadyInState, AliveCanRun
<1>3. Head(ready_threads) # running
  BY <1>1, <1>2 DEF Consistent, OneRunning
<1> QED BY <1>1, <1>2, <1>3

\* A yield, voluntary or by SIGALRM, swaps caller and head.
LEMMA YieldStep ==
    ASSUME TypeOK, Consistent, NEW k \in {"yield", "handler"}, NEW prev,
           YieldFrom(k, prev)
    PROVE  Consistent'
<1> DEFINE h == Head(ready_threads)
<1>1. /\ h \in Tid /\ running \in Tid /\ h # running
      /\ thread_state[h] = "READY" /\ thread_state[running] = "RUNNING"
      /\ stack[h] /\ ~ Holds(ready_threads, running)
  BY FirstReady DEF YieldFrom, Queue_IsEmpty, Consistent, OneRunning, ReadyInState
<1>2. /\ IsInjective(ready_threads')
      /\ \A u : Holds(ready_threads', u)
                    <=> (Holds(ready_threads, u) /\ u # h) \/ u = running
  <2> DEFINE rest == Tail(ready_threads)
  <2>1. /\ rest \in Seq(Tid) /\ IsInjective(rest)
        /\ \A u : Holds(rest, u) <=> Holds(ready_threads, u) /\ u # h
    BY FirstReady DEF YieldFrom, Queue_IsEmpty
  <2>2. ready_threads' = Queue_Enqueue(rest, running)
    BY DEF YieldFrom
  <2> HIDE DEF rest, h
  <2> QED BY <1>1, <2>1, <2>2, EnqueueFacts
<1> HIDE DEF h
<1>3. /\ thread_state' = [thread_state EXCEPT ![running] = "READY",
                                              ![h] = "RUNNING"]
      /\ running' = h
      /\ ctx' = [ctx EXCEPT ![running] = k]
      /\ arg' = [arg EXCEPT ![running] = NULL]
      /\ UNCHANGED <<join_threads, joinable, stack, zombie_threads,
                     wait_queues, allocated>>
  BY DEF YieldFrom, SwitchFrom, queues, h
<1>4. OneRunning'
  BY <1>1, <1>3 DEF Consistent, OneRunning, TypeOK
<1>5. ReadyInState'
  BY <1>1, <1>2, <1>3 DEF Consistent, ReadyInState, TypeOK
<1>6. ZombiesInState'
  BY <1>1, <1>3 DEF Consistent, ZombiesInState, TypeOK
<1>7. SleepersInState'
  BY <1>1, <1>3 DEF Consistent, SleepersInState, TypeOK
<1>8. JoinersInState'
  BY <1>1, <1>3 DEF Consistent, JoinersInState, TypeOK
<1>9. NobodyOnFreedQueue' /\ EndedHaveNoJoiners'
  BY <1>3 DEF Consistent, NobodyOnFreedQueue, EndedHaveNoJoiners, TypeOK
<1>10. AliveCanRun'
  BY <1>1, <1>2, <1>3 DEF Consistent, AliveCanRun, TypeOK
<1>11. BlockedInCall'
  BY <1>1, <1>3 DEF Consistent, BlockedInCall, TypeOK
<1> QED
  BY <1>1, <1>3, <1>4, <1>5, <1>6, <1>7, <1>8, <1>9, <1>10, <1>11
     DEF Consistent

\* A directed yield takes its target out of the ready queue.
LEMMA YieldToStep ==
    ASSUME TypeOK, Consistent, NEW t \in Tid, ThreadYieldTo(t)
    PROVE  Consistent'
<1>1. /\ running \in Tid /\ t # running
      /\ thread_state[t] = "READY" /\ thread_state[running] = "RUNNING"
      /\ stack[t] /\ ~ Holds(ready_threads, running)
  BY DEF ThreadYieldTo, Consistent, OneRunning, ReadyInState
<1>2. /\ Queue_Remove(ready_threads, t) \in Seq(Tid)
      /\ IsInjective(Queue_Remove(ready_threads, t))
      /\ \A u : Holds(Queue_Remove(ready_threads, t), u)
                    <=> Holds(ready_threads, u) /\ u # t
  BY RemoveFacts DEF TypeOK, Consistent, ReadyInState
<1>3. /\ IsInjective(ready_threads')
      /\ \A u : Holds(ready_threads', u)
                    <=> (Holds(ready_threads, u) /\ u # t) \/ u = running
  BY <1>1, <1>2, EnqueueFacts DEF ThreadYieldTo
<1>4. /\ thread_state' = [thread_state EXCEPT ![running] = "READY",
                                              ![t] = "RUNNING"]
      /\ running' = t
      /\ ctx' = [ctx EXCEPT ![running] = "yield"]
      /\ arg' = [arg EXCEPT ![running] = NULL]
      /\ UNCHANGED <<join_threads, joinable, stack, zombie_threads,
                     wait_queues, allocated>>
  BY DEF ThreadYieldTo, SwitchFrom, queues
<1>5. OneRunning'
  BY <1>1, <1>4 DEF Consistent, OneRunning, TypeOK
<1>6. ReadyInState'
  BY <1>1, <1>3, <1>4 DEF Consistent, ReadyInState, TypeOK
<1>7. ZombiesInState'
  BY <1>1, <1>4 DEF Consistent, ZombiesInState, TypeOK
<1>8. SleepersInState'
  BY <1>1, <1>4 DEF Consistent, SleepersInState, TypeOK
<1>9. JoinersInState'
  BY <1>1, <1>4 DEF Consistent, JoinersInState, TypeOK
<1>10. NobodyOnFreedQueue' /\ EndedHaveNoJoiners'
  BY <1>4 DEF Consistent, NobodyOnFreedQueue, EndedHaveNoJoiners, TypeOK
<1>11. AliveCanRun'
  BY <1>1, <1>3, <1>4 DEF Consistent, AliveCanRun, TypeOK
<1>12. BlockedInCall'
  BY <1>1, <1>4 DEF Consistent, BlockedInCall, TypeOK
<1> QED
  BY <1>1, <1>4, <1>5, <1>6, <1>7, <1>8, <1>9, <1>10, <1>11, <1>12
     DEF Consistent

\* An exit without joiners runs the head of the ready queue.
LEMMA ExitToReadyStep ==
    ASSUME TypeOK, Consistent, NEW code, ThreadExitToReady(code)
    PROVE  Consistent'
<1> DEFINE h == Head(ready_threads)
<1>1. /\ h \in Tid /\ running \in Tid /\ h # running
      /\ thread_state[h] = "READY" /\ thread_state[running] = "RUNNING"
      /\ stack[h] /\ ~ Holds(ready_threads, running)
  BY FirstReady
     DEF ThreadExitToReady, Queue_IsEmpty, Consistent, OneRunning, ReadyInState
<1>2. /\ IsInjective(ready_threads')
      /\ \A u : Holds(ready_threads', u) <=> Holds(ready_threads, u) /\ u # h
  BY FirstReady DEF ThreadExitToReady, Queue_IsEmpty
<1> HIDE DEF h
<1>3. /\ thread_state' = [thread_state EXCEPT ![running] = "FREE",
                                              ![h] = "RUNNING"]
      /\ running' = h
      /\ join_threads[running] = <<>>
      /\ ctx' = [ctx EXCEPT ![running] = "none"]
      /\ arg' = [arg EXCEPT ![running] = NULL]
      /\ UNCHANGED <<join_threads, joinable, stack, zombie_threads,
                     wait_queues, allocated>>
  BY DEF ThreadExitToReady, Retire, Queue_IsEmpty, queues, h
<1>4. OneRunning'
  BY <1>1, <1>3 DEF Consistent, OneRunning, TypeOK
<1>5. ReadyInState'
  BY <1>1, <1>2, <1>3 DEF Consistent, ReadyInState, TypeOK
<1>6. ZombiesInState'
  BY <1>1, <1>3 DEF Consistent, ZombiesInState, TypeOK
<1>7. SleepersInState'
  BY <1>1, <1>3 DEF Consistent, SleepersInState, TypeOK
<1>8. JoinersInState'
  BY <1>1, <1>3 DEF Consistent, JoinersInState, TypeOK
<1>9. NobodyOnFreedQueue' /\ EndedHaveNoJoiners'
  BY <1>1, <1>3 DEF Consistent, NobodyOnFreedQueue, EndedHaveNoJoiners, TypeOK
<1>10. AliveCanRun'
  BY <1>1, <1>2, <1>3 DEF Consistent, AliveCanRun, TypeOK
<1>11. BlockedInCall'
  BY <1>1, <1>3 DEF Consistent, BlockedInCall, TypeOK
<1> QED
  BY <1>1, <1>3, <1>4, <1>5, <1>6, <1>7, <1>8, <1>9, <1>10, <1>11
     DEF Consistent

\* An exit hands over to one joiner and readies the others.
LEMMA ExitToJoinerStep ==
    ASSUME TypeOK, Consistent, NEW code, ThreadExitToJoiner(code)
    PROVE  Consistent'
<1> DEFINE joiners == join_threads[running]
           first == Head(joiners)
           others == Tail(joiners)
<1>1. /\ running \in Tid /\ thread_state[running] = "RUNNING"
      /\ joiners \in Seq(Tid) /\ joiners # <<>> /\ IsInjective(joiners)
      /\ ~ Holds(ready_threads, running)
      /\ \A t \in Tid : Holds(joiners, t)
                            <=> thread_state[t] = "BLOCKED" /\ arg[t] = running
  BY DEF ThreadExitToJoiner, Queue_IsEmpty, Consistent, OneRunning,
         ReadyInState, JoinersInState, TypeOK
<1>2. /\ first \in Tid /\ others \in Seq(Tid) /\ IsInjective(others)
      /\ Holds(joiners, first)
      /\ \A u : Holds(others, u) <=> Holds(joiners, u) /\ u # first
  BY <1>1, DequeueFacts
<1>3. /\ thread_state[first] = "BLOCKED" /\ first # running
      /\ ~ Holds(ready_threads, first)
      /\ \A u \in Tid : ~ (Holds(others, u) /\ Holds(ready_threads, u))
  BY <1>1, <1>2 DEF Consistent, ReadyInState
<1>4. ready_threads' = DrainTo(others, ready_threads)
  BY DEF ThreadExitToJoiner
<1>5. \A u : Holds(others, u) => u \in Tid
  BY <1>2 DEF Holds
<1>6. /\ IsInjective(ready_threads')
      /\ \A u : Holds(ready_threads', u)
                    <=> Holds(ready_threads, u) \/ Holds(others, u)
  <2>1. /\ ready_threads \in Seq(Tid) /\ IsInjective(ready_threads)
        /\ \A u : ~ (Holds(others, u) /\ Holds(ready_threads, u))
    BY <1>3, <1>5 DEF Consistent, ReadyInState, TypeOK
  <2> QED BY <1>2, <1>4, <2>1, DrainFacts
<1>7. /\ thread_state' = [t \in Tid |->
                IF t = first THEN "RUNNING"
                ELSE IF Holds(others, t) THEN "READY"
                ELSE IF t = running THEN "FREE"
                ELSE thread_state[t]]
      /\ join_threads' = [join_threads EXCEPT ![running] = <<>>]
      /\ running' = first
      /\ ctx' = [ctx EXCEPT ![running] = "none"]
      /\ arg' = [arg EXCEPT ![running] = NULL]
      /\ UNCHANGED <<joinable, stack, zombie_threads, wait_queues, allocated>>
  BY DEF ThreadExitToJoiner, Retire, queues
<1>8. ~ Holds(<<>>, NULL) /\ \A u : ~ Holds(<<>>, u)
  BY DEF Holds
<1>9. IsInjective(<<>>)
  BY DEF IsInjective
<1> HIDE DEF joiners, first, others
<1>10. OneRunning'
  BY <1>1, <1>2, <1>3, <1>7 DEF Consistent, OneRunning, TypeOK
<1>11. ReadyInState'
  BY <1>1, <1>2, <1>3, <1>5, <1>6, <1>7 DEF Consistent, ReadyInState, TypeOK
<1>12. ZombiesInState'
  BY <1>1, <1>2, <1>3, <1>7 DEF Consistent, ZombiesInState, TypeOK
<1>13. SleepersInState'
  BY <1>1, <1>2, <1>3, <1>7, NamesAssumption
     DEF Consistent, SleepersInState, TypeOK
<1>14. JoinersInState'
  <2> SUFFICES ASSUME NEW k \in Tid
               PROVE  /\ IsInjective(join_threads'[k])
                      /\ \A t \in Tid : Holds(join_threads'[k], t)
                            <=> thread_state'[t] = "BLOCKED" /\ arg'[t] = k
    BY DEF JoinersInState
  <2>1. CASE k = running
    <3>1. join_threads'[k] = <<>>
      BY <1>1, <1>7, <2>1 DEF TypeOK
    <3>2. ASSUME NEW t \in Tid, thread_state'[t] = "BLOCKED", arg'[t] = running
          PROVE  FALSE
      BY <1>1, <1>2, <1>7, <3>2 DEF TypeOK
    <3> QED BY <1>8, <1>9, <2>1, <3>1, <3>2
  <2>2. CASE k # running
    <3>1. join_threads'[k] = join_threads[k]
      BY <1>7, <2>2 DEF TypeOK
    <3>2. /\ IsInjective(join_threads[k])
          /\ \A t \in Tid : Holds(join_threads[k], t)
                            <=> thread_state[t] = "BLOCKED" /\ arg[t] = k
      BY DEF Consistent, JoinersInState
    <3>3. ASSUME NEW t \in Tid
          PROVE  thread_state'[t] = "BLOCKED" /\ arg'[t] = k
                    <=> thread_state[t] = "BLOCKED" /\ arg[t] = k
      BY <1>1, <1>2, <1>7, <2>2, <3>3 DEF TypeOK
    <3> QED BY <3>1, <3>2, <3>3
  <2> QED BY <2>1, <2>2
<1>15. NobodyOnFreedQueue'
  BY <1>7 DEF Consistent, NobodyOnFreedQueue
<1>16. EndedHaveNoJoiners'
  BY <1>1, <1>2, <1>3, <1>7 DEF Consistent, EndedHaveNoJoiners, TypeOK
<1>17. AliveCanRun'
  BY <1>1, <1>2, <1>3, <1>6, <1>7 DEF Consistent, AliveCanRun, TypeOK
<1>18. BlockedInCall'
  BY <1>1, <1>2, <1>3, <1>7 DEF Consistent, BlockedInCall, TypeOK
<1> QED
  BY <1>2, <1>7, <1>10, <1>11, <1>12, <1>13, <1>14, <1>15, <1>16, <1>17, <1>18
     DEF Consistent

\* A kill unlinks its victim, frees its joiners and buries it.
LEMMA KillStep ==
    ASSUME TypeOK, Consistent, ~ KillSleepers, NEW t \in Tid, ThreadKill(t)
    PROVE  Consistent'
<1> DEFINE joiners == join_threads[t]
           rest == IF thread_state[t] = "READY"
                   THEN Queue_Remove(ready_threads, t) ELSE ready_threads
<1>1. /\ running \in Tid /\ running # t
      /\ thread_state[t] \in {"READY", "BLOCKED"}
      /\ arg[t] \notin WaitQueues \/ thread_state[t] = "READY"
      /\ joiners \in Seq(Tid) /\ IsInjective(joiners)
      /\ \A u \in Tid : Holds(joiners, u)
                            <=> thread_state[u] = "BLOCKED" /\ arg[u] = t
  BY DEF ThreadKill, Consistent, OneRunning, JoinersInState, TypeOK
<1>2. /\ rest \in Seq(Tid) /\ IsInjective(rest)
      /\ \A u : Holds(rest, u) <=> Holds(ready_threads, u) /\ u # t
  <2>1. /\ ready_threads \in Seq(Tid) /\ IsInjective(ready_threads)
        /\ thread_state[t] # "READY" => ~ Holds(ready_threads, t)
    BY DEF TypeOK, Consistent, ReadyInState
  <2> QED BY <2>1, RemoveFacts
<1>3. \A u : Holds(joiners, u) => u \in Tid
  BY <1>1 DEF Holds
<1> HIDE DEF rest
<1>4. /\ IsInjective(ready_threads')
      /\ \A u : Holds(ready_threads', u)
                    <=> (Holds(ready_threads, u) /\ u # t) \/ Holds(joiners, u)
  <2>1. \A u : ~ (Holds(joiners, u) /\ Holds(rest, u))
    BY <1>1, <1>2, <1>3 DEF Consistent, ReadyInState
  <2>2. ready_threads' = DrainTo(joiners, rest)
    BY DEF ThreadKill, rest
  <2> QED BY <1>1, <1>2, <2>1, <2>2, DrainFacts
<1>5. /\ ~ Holds(zombie_threads, t)
      /\ IsInjective(zombie_threads')
      /\ \A u : Holds(zombie_threads', u) <=> Holds(zombie_threads, u) \/ u = t
  <2>1. /\ zombie_threads \in Seq(Tid) /\ IsInjective(zombie_threads)
        /\ ~ Holds(zombie_threads, t)
    BY <1>1 DEF Consistent, ZombiesInState, TypeOK
  <2>2. zombie_threads' = Queue_Enqueue(zombie_threads, t)
    BY DEF ThreadKill
  <2> QED BY <2>1, <2>2, EnqueueFacts
<1>6. ASSUME NEW k \in Tid
      PROVE  /\ join_threads[k] = <<>> => join_threads'[k] = <<>>
             /\ IsInjective(join_threads'[k])
             /\ \A u \in Tid : Holds(join_threads'[k], u)
                    <=> k # t /\ u # t /\ Holds(join_threads[k], u)
  <2>1. /\ join_threads[k] \in Seq(Tid) /\ IsInjective(join_threads[k])
        /\ thread_state[t] = "READY" => ~ Holds(join_threads[k], t)
    BY DEF Consistent, JoinersInState, TypeOK
  <2>2. CASE k = t
    <3>1. join_threads'[k] = <<>>
      BY <2>2 DEF ThreadKill
    <3> QED BY <2>2, <3>1 DEF Holds, IsInjective
  <2>3. CASE k # t /\ thread_state[t] = "BLOCKED"
    <3>1. join_threads'[k] = Queue_Remove(join_threads[k], t)
      BY <2>3 DEF ThreadKill
    <3>2. join_threads[k] = <<>> => Queue_Remove(join_threads[k], t) = <<>>
      BY DEF Queue_Remove, Holds
    <3> QED BY <2>1, <2>3, <3>1, <3>2, RemoveFacts
  <2>4. CASE k # t /\ thread_state[t] = "READY"
    <3>1. join_threads'[k] = join_threads[k]
      BY <2>4 DEF ThreadKill
    <3> QED BY <2>1, <2>4, <3>1
  <2> QED BY <1>1, <2>2, <2>3, <2>4
<1>7. /\ thread_state' = [k \in Tid |->
                IF k = t THEN "ZOMBIE"
                ELSE IF Holds(joiners, k) THEN "READY"
                ELSE thread_state[k]]
      /\ stack' = [stack EXCEPT ![t] = FALSE]
      /\ ctx' = [ctx EXCEPT ![t] = "none"]
      /\ arg' = [arg EXCEPT ![t] = NULL]
      /\ UNCHANGED <<joinable, running, wait_queues, allocated>>
  BY DEF ThreadKill, Retire, queues
<1>17. thread_state'[t] = "ZOMBIE"
  BY <1>7
<1> HIDE DEF joiners
<1>8. OneRunning'
  BY <1>1, <1>7 DEF Consistent, OneRunning, TypeOK
<1>9. ReadyInState'
  <2>1. ASSUME NEW u \in Tid, Holds(ready_threads', u)
        PROVE  thread_state'[u] = "READY"
    <3>1. CASE Holds(joiners, u)
      <4>1. u # t
        BY <1>1, <3>1 DEF Consistent, BlockedInCall
      <4> QED BY <1>7, <3>1, <4>1
    <3>2. CASE Holds(ready_threads, u) /\ u # t
      BY <1>7, <3>2 DEF Consistent, ReadyInState
    <3> QED BY <1>4, <2>1, <3>1, <3>2
  <2> QED BY <1>4, <2>1 DEF ReadyInState
<1>10. ZombiesInState'
  BY <1>1, <1>5, <1>7 DEF Consistent, ZombiesInState, TypeOK
<1>11. SleepersInState'
  BY <1>1, <1>7, NamesAssumption DEF Consistent, SleepersInState, TypeOK
<1>12. JoinersInState'
  BY <1>1, <1>6, <1>7, NamesAssumption DEF Consistent, JoinersInState, TypeOK
<1>13. NobodyOnFreedQueue'
  BY <1>7 DEF Consistent, NobodyOnFreedQueue
<1>14. EndedHaveNoJoiners'
  <2>1. join_threads'[t] = <<>>
    BY DEF ThreadKill
  <2> QED BY <1>6, <1>7, <2>1 DEF Consistent, EndedHaveNoJoiners, TypeOK
<1>15. AliveCanRun'
  <2> SUFFICES ASSUME NEW u \in Tid, u # t
               PROVE  /\ thread_state'[u] \in {"RUNNING", "BLOCKED"}
                            \/ Holds(ready_threads', u) => stack'[u]
                      /\ /\ thread_state'[u] \in {"READY", "RUNNING", "BLOCKED"}
                         /\ stack'[u]
                         => joinable'[u] /\ ctx'[u] # "none"
    BY <1>1, <1>4, <1>7, <1>9, <1>17 DEF AliveCanRun, ReadyInState
  <2>1. stack'[u] = stack[u] /\ ctx'[u] = ctx[u] /\ joinable'[u] = joinable[u]
    BY <1>7 DEF TypeOK
  <2>2. CASE Holds(joiners, u)
    BY <1>1, <2>1, <2>2 DEF Consistent, AliveCanRun
  <2>3. CASE ~ Holds(joiners, u)
    <3>1. thread_state'[u] = thread_state[u]
      BY <1>7, <2>3
    <3>2. Holds(ready_threads', u) => Holds(ready_threads, u)
      BY <1>4, <2>3
    <3> QED BY <2>1, <3>1, <3>2 DEF Consistent, AliveCanRun
  <2> QED BY <2>2, <2>3
<1>16. BlockedInCall'
  BY <1>1, <1>7 DEF Consistent, BlockedInCall, TypeOK
<1> QED
  BY <1>1, <1>7, <1>8, <1>9, <1>10, <1>11, <1>12, <1>13, <1>14, <1>15, <1>16
     DEF Consistent

\* Wait queues come and go empty.
LEMMA QueueStep ==
    ASSUME TypeOK, Consistent, NEW w \in WaitQueues,
           WaitQueueCreate(w) \/ WaitQueueDestroy(w)
    PROVE  Consistent'
<1>1. /\ wait_queues' = wait_queues
      /\ UNCHANGED <<thread_state, join_threads, joinable, stack, ready_threads,
                     zombie_threads, running, ctx, arg>>
      /\ \/ allocated' = allocated \cup {w}
         \/ allocated' = allocated \ {w} /\ wait_queues[w] = <<>>
  <2>1. CASE WaitQueueCreate(w)
    BY <2>1 DEF WaitQueueCreate, Consistent, NobodyOnFreedQueue, TypeOK,
                tcb, suspended
  <2>2. CASE WaitQueueDestroy(w)
    BY <2>2 DEF WaitQueueDestroy, Queue_IsEmpty, tcb, suspended
  <2> QED BY <2>1, <2>2
<1>2. NobodyOnFreedQueue'
  BY <1>1 DEF Consistent, NobodyOnFreedQueue
<1>3. SleepersInState' /\ JoinersInState'
  BY <1>1 DEF Consistent, SleepersInState, JoinersInState
<1> QED
  BY <1>1, <1>2, <1>3
     DEF Consistent, OneRunning, ReadyInState, ZombiesInState,
         EndedHaveNoJoiners, AliveCanRun, BlockedInCall

\* A sleep moves the caller to its wait queue.
LEMMA SleepStep ==
    ASSUME TypeOK, Consistent, NEW w \in WaitQueues, ThreadSleep(w)
    PROVE  Consistent'
<1> DEFINE h == Head(ready_threads)
<1>1. /\ h \in Tid /\ running \in Tid /\ h # running
      /\ thread_state[h] = "READY" /\ thread_state[running] = "RUNNING"
      /\ stack[h] /\ ~ Holds(ready_threads, running)
  BY FirstReady
     DEF ThreadSleep, Queue_IsEmpty, Consistent, OneRunning, ReadyInState
<1>2. /\ IsInjective(ready_threads')
      /\ \A u : Holds(ready_threads', u) <=> Holds(ready_threads, u) /\ u # h
  BY FirstReady DEF ThreadSleep, Queue_IsEmpty
<1> HIDE DEF h
<1>3. /\ w \in allocated
      /\ thread_state' = [thread_state EXCEPT ![running] = "BLOCKED",
                                              ![h] = "RUNNING"]
      /\ running' = h
      /\ ctx' = [ctx EXCEPT ![running] = "sleep"]
      /\ arg' = [arg EXCEPT ![running] = w]
      /\ UNCHANGED <<join_threads, joinable, stack, zombie_threads, allocated>>
  BY DEF ThreadSleep, SwitchFrom, h
<1>4. /\ \A v \in WaitQueues \ {w} : wait_queues'[v] = wait_queues[v]
      /\ wait_queues'[w] = Queue_Enqueue(wait_queues[w], running)
  BY DEF ThreadSleep, TypeOK
<1>5. /\ IsInjective(wait_queues'[w])
      /\ \A u : Holds(wait_queues'[w], u)
                    <=> Holds(wait_queues[w], u) \/ u = running
  <2>1. /\ wait_queues[w] \in Seq(Tid) /\ IsInjective(wait_queues[w])
        /\ ~ Holds(wait_queues[w], running)
    BY <1>1 DEF Consistent, SleepersInState, TypeOK
  <2> QED BY <1>1, <1>4, <2>1, EnqueueFacts
<1>6. OneRunning'
  BY <1>1, <1>3 DEF Consistent, OneRunning, TypeOK
<1>7. ReadyInState'
  BY <1>1, <1>2, <1>3 DEF Consistent, ReadyInState, TypeOK
<1>8. ZombiesInState'
  BY <1>1, <1>3 DEF Consistent, ZombiesInState, TypeOK
<1>9. SleepersInState'
  <2> SUFFICES ASSUME NEW v \in WaitQueues
               PROVE  /\ IsInjective(wait_queues'[v])
                      /\ \A u \in Tid : Holds(wait_queues'[v], u)
                            <=> thread_state'[u] = "BLOCKED" /\ arg'[u] = v
    BY DEF SleepersInState
  <2>1. /\ IsInjective(wait_queues[v])
        /\ \A u \in Tid : Holds(wait_queues[v], u)
                            <=> thread_state[u] = "BLOCKED" /\ arg[u] = v
    BY DEF Consistent, SleepersInState
  <2>2. CASE v = w
    BY <1>1, <1>3, <1>5, <2>1, <2>2 DEF TypeOK
  <2>3. CASE v # w
    BY <1>1, <1>3, <1>4, <2>1, <2>3 DEF TypeOK
  <2> QED BY <2>2, <2>3
<1>10. JoinersInState'
  BY <1>1, <1>3, NamesAssumption DEF Consistent, JoinersInState, TypeOK
<1>11. NobodyOnFreedQueue'
  BY <1>3, <1>4 DEF Consistent, NobodyOnFreedQueue
<1>12. EndedHaveNoJoiners'
  BY <1>1, <1>3 DEF Consistent, EndedHaveNoJoiners, TypeOK
<1>13. AliveCanRun'
  BY <1>1, <1>2, <1>3 DEF Consistent, AliveCanRun, TypeOK
<1>14. BlockedInCall'
  BY <1>1, <1>3 DEF Consistent, BlockedInCall, TypeOK
<1> QED
  BY <1>1, <1>3, <1>6, <1>7, <1>8, <1>9, <1>10, <1>11, <1>12, <1>13, <1>14
     DEF Consistent

\* Waking one sleeper moves the head of its queue.
LEMMA WakeNextStep ==
    ASSUME TypeOK, Consistent, NEW w \in WaitQueues, ThreadWakeNext(w)
    PROVE  Consistent'
<1> DEFINE wakeup == Head(wait_queues[w])
<1>1. /\ wakeup \in Tid
      /\ Holds(wait_queues[w], wakeup)
      /\ IsInjective(Tail(wait_queues[w]))
      /\ \A u : Holds(Tail(wait_queues[w]), u)
                    <=> Holds(wait_queues[w], u) /\ u # wakeup
  <2>1. /\ wait_queues[w] \in Seq(Tid) /\ wait_queues[w] # <<>>
        /\ IsInjective(wait_queues[w])
    BY DEF ThreadWakeNext, Queue_IsEmpty, Consistent, SleepersInState, TypeOK
  <2> QED BY <2>1, DequeueFacts
<1>2. /\ thread_state[wakeup] = "BLOCKED" /\ arg[wakeup] = w
      /\ stack[wakeup] /\ joinable[wakeup] /\ ctx[wakeup] # "none"
      /\ running \in Tid /\ running # wakeup
      /\ ~ Holds(ready_threads, wakeup)
  BY <1>1 DEF Consistent, SleepersInState, AliveCanRun, OneRunning, ReadyInState
<1>3. /\ ready_threads' = Queue_Enqueue(ready_threads, wakeup)
      /\ w \in allocated
      /\ thread_state' = [thread_state EXCEPT ![wakeup] = "READY"]
      /\ arg' = [arg EXCEPT ![wakeup] = NULL]
      /\ \A v \in WaitQueues \ {w} : wait_queues'[v] = wait_queues[v]
      /\ wait_queues'[w] = Tail(wait_queues[w])
      /\ UNCHANGED <<join_threads, joinable, stack, zombie_threads, allocated,
                     running, ctx>>
  BY DEF ThreadWakeNext, TypeOK
<1> HIDE DEF wakeup
<1>4. /\ IsInjective(ready_threads')
      /\ \A u : Holds(ready_threads', u)
                    <=> Holds(ready_threads, u) \/ u = wakeup
  BY <1>1, <1>2, <1>3, EnqueueFacts DEF Consistent, ReadyInState, TypeOK
<1>5. OneRunning'
  BY <1>1, <1>2, <1>3 DEF Consistent, OneRunning, TypeOK
<1>6. ReadyInState'
  BY <1>1, <1>2, <1>3, <1>4 DEF Consistent, ReadyInState, TypeOK
<1>7. ZombiesInState'
  BY <1>1, <1>2, <1>3 DEF Consistent, ZombiesInState, TypeOK
<1>8. SleepersInState'
  <2> SUFFICES ASSUME NEW v \in WaitQueues
               PROVE  /\ IsInjective(wait_queues'[v])
                      /\ \A u \in Tid : Holds(wait_queues'[v], u)
                            <=> thread_state'[u] = "BLOCKED" /\ arg'[u] = v
    BY DEF SleepersInState
  <2>1. /\ IsInjective(wait_queues[v])
        /\ \A u \in Tid : Holds(wait_queues[v], u)
                            <=> thread_state[u] = "BLOCKED" /\ arg[u] = v
    BY DEF Consistent, SleepersInState
  <2>2. CASE v = w
    <3>1. /\ IsInjective(wait_queues'[v])
          /\ \A u : Holds(wait_queues'[v], u)
                        <=> Holds(wait_queues[v], u) /\ u # wakeup
      BY <1>1, <1>3, <2>2
    <3>2. ASSUME NEW u \in Tid
          PROVE  thread_state'[u] = "BLOCKED" /\ arg'[u] = v
                    <=> thread_state[u] = "BLOCKED" /\ arg[u] = v /\ u # wakeup
      BY <1>1, <1>3, <2>2 DEF TypeOK
    <3> QED BY <2>1, <3>1, <3>2
  <2>3. CASE v # w
    <3>1. wait_queues'[v] = wait_queues[v]
      BY <1>3, <2>3
    <3>2. ASSUME NEW u \in Tid
          PROVE  thread_state'[u] = "BLOCKED" /\ arg'[u] = v
                    <=> thread_state[u] = "BLOCKED" /\ arg[u] = v
      BY <1>1, <1>2, <1>3, <2>3 DEF TypeOK
    <3> QED BY <2>1, <3>1, <3>2
  <2> QED BY <2>2, <2>3
<1>9. JoinersInState'
  BY <1>1, <1>2, <1>3, NamesAssumption DEF Consistent, JoinersInState, TypeOK
<1>10. NobodyOnFreedQueue'
  BY <1>3 DEF Consistent, NobodyOnFreedQueue
<1>11. EndedHaveNoJoiners'
  BY <1>1, <1>3 DEF Consistent, EndedHaveNoJoiners, TypeOK
<1>12. AliveCanRun'
  BY <1>1, <1>2, <1>3, <1>4 DEF Consistent, AliveCanRun, TypeOK
<1>13. BlockedInCall'
  BY <1>1, <1>2, <1>3 DEF Consistent, BlockedInCall, TypeOK
<1> QED
  BY <1>2, <1>3, <1>5, <1>6, <1>7, <1>8, <1>9, <1>10, <1>11, <1>12, <1>13
     DEF Consistent

\* Waking all moves the whole queue.
LEMMA WakeAllStep ==
    ASSUME TypeOK, Consistent, NEW w \in WaitQueues, ThreadWakeAll(w)
    PROVE  Consistent'
<1> DEFINE sleepers == wait_queues[w]
<1>1. /\ sleepers \in Seq(Tid) /\ IsInjective(sleepers)
      /\ \A u \in Tid : Holds(sleepers, u)
                            <=> thread_state[u] = "BLOCKED" /\ arg[u] = w
  BY DEF Consistent, SleepersInState, TypeOK
<1>2. \A u : Holds(sleepers, u) => u \in Tid
  BY <1>1 DEF Holds
<1>3. /\ w \in allocated
      /\ thread_state' = [t \in Tid |->
            IF Holds(sleepers, t) THEN "READY" ELSE thread_state[t]]
      /\ arg' = [t \in Tid |-> IF Holds(sleepers, t) THEN NULL ELSE arg[t]]
      /\ ready_threads' = DrainTo(sleepers, ready_threads)
      /\ \A v \in WaitQueues \ {w} : wait_queues'[v] = wait_queues[v]
      /\ wait_queues'[w] = <<>>
      /\ UNCHANGED <<join_threads, joinable, stack, zombie_threads, allocated,
                     running, ctx>>
  BY DEF ThreadWakeAll, TypeOK
<1> HIDE DEF sleepers
<1>4. /\ IsInjective(ready_threads')
      /\ \A u : Holds(ready_threads', u)
                    <=> Holds(ready_threads, u) \/ Holds(sleepers, u)
  <2>1. /\ ready_threads \in Seq(Tid) /\ IsInjective(ready_threads)
        /\ \A u : ~ (Holds(sleepers, u) /\ Holds(ready_threads, u))
    BY <1>1, <1>2 DEF Consistent, ReadyInState, TypeOK
  <2> QED BY <1>1, <1>3, <2>1, DrainFacts
<1>5. IsInjective(<<>>) /\ \A u : ~ Holds(<<>>, u)
  BY DEF Holds, IsInjective
<1>6. OneRunning'
  BY <1>1, <1>3 DEF Consistent, OneRunning, TypeOK
<1>7. ReadyInState'
  BY <1>1, <1>2, <1>3, <1>4 DEF Consistent, ReadyInState, TypeOK
<1>8. ZombiesInState'
  BY <1>1, <1>3 DEF Consistent, ZombiesInState, TypeOK
<1>9. SleepersInState'
  <2> SUFFICES ASSUME NEW v \in WaitQueues
               PROVE  /\ IsInjective(wait_queues'[v])
                      /\ \A t \in Tid : Holds(wait_queues'[v], t)
                            <=> thread_state'[t] = "BLOCKED" /\ arg'[t] = v
    BY DEF SleepersInState
  <2>1. CASE v = w
    BY <1>1, <1>3, <1>5, <2>1
  <2>2. CASE v # w
    BY <1>1, <1>3, <2>2 DEF Consistent, SleepersInState
  <2> QED BY <2>1, <2>2
<1>10. JoinersInState'
  BY <1>1, <1>3, NamesAssumption DEF Consistent, JoinersInState, TypeOK
<1>11. NobodyOnFreedQueue'
  BY <1>3 DEF Consistent, NobodyOnFreedQueue
<1>12. EndedHaveNoJoiners'
  BY <1>3 DEF Consistent, EndedHaveNoJoiners, TypeOK
<1>13. AliveCanRun'
  BY <1>1, <1>3, <1>4 DEF Consistent, AliveCanRun, TypeOK
<1>14. BlockedInCall'
  BY <1>1, <1>3 DEF Consistent, BlockedInCall, TypeOK
<1> QED
  BY <1>3, <1>6, <1>7, <1>8, <1>9, <1>10, <1>11, <1>12, <1>13, <1>14
     DEF Consistent

\* A join moves the caller to the queue of its target.
LEMMA JoinStep ==
    ASSUME TypeOK, Consistent, NEW t \in Tid, ThreadJoin(t)
    PROVE  Consistent'
<1> DEFINE h == Head(ready_threads)
<1>1. /\ h \in Tid /\ running \in Tid /\ h # running
      /\ thread_state[h] = "READY" /\ thread_state[running] = "RUNNING"
      /\ thread_state[t] \in {"READY", "BLOCKED"} /\ t # running
      /\ stack[h] /\ ~ Holds(ready_threads, running)
  BY FirstReady
     DEF ThreadJoin, CanJoin, Queue_IsEmpty, Consistent, OneRunning, ReadyInState
<1>2. /\ IsInjective(ready_threads')
      /\ \A u : Holds(ready_threads', u) <=> Holds(ready_threads, u) /\ u # h
  BY FirstReady DEF ThreadJoin, Queue_IsEmpty
<1> HIDE DEF h
<1>3. /\ thread_state' = [thread_state EXCEPT ![running] = "BLOCKED",
                                              ![h] = "RUNNING"]
      /\ running' = h
      /\ ctx' = [ctx EXCEPT ![running] = "join"]
      /\ arg' = [arg EXCEPT ![running] = t]
      /\ UNCHANGED <<joinable, stack, zombie_threads, wait_queues, allocated>>
  BY DEF ThreadJoin, SwitchFrom, queues, h
<1>4. /\ \A k \in Tid \ {t} : join_threads'[k] = join_threads[k]
      /\ join_threads'[t] = Queue_Enqueue(join_threads[t], running)
  BY DEF ThreadJoin, TypeOK
<1>5. /\ IsInjective(join_threads'[t])
      /\ \A u : Holds(join_threads'[t], u)
                    <=> Holds(join_threads[t], u) \/ u = running
  <2> DEFINE joiners == join_threads[t]
  <2>1. /\ joiners \in Seq(Tid) /\ IsInjective(joiners)
        /\ ~ Holds(joiners, running)
    BY <1>1 DEF Consistent, JoinersInState, TypeOK
  <2>2. join_threads'[t] = Queue_Enqueue(joiners, running)
    BY <1>4
  <2> HIDE DEF joiners
  <2>3. /\ IsInjective(Queue_Enqueue(joiners, running))
        /\ \A u : Holds(Queue_Enqueue(joiners, running), u)
                    <=> Holds(joiners, u) \/ u = running
    BY <1>1, <2>1, EnqueueFacts
  <2> QED BY <2>2, <2>3 DEF joiners
<1>6. OneRunning'
  BY <1>1, <1>3 DEF Consistent, OneRunning, TypeOK
<1>7. ReadyInState'
  BY <1>1, <1>2, <1>3 DEF Consistent, ReadyInState, TypeOK
<1>8. ZombiesInState'
  BY <1>1, <1>3 DEF Consistent, ZombiesInState, TypeOK
<1>9. SleepersInState'
  BY <1>1, <1>3, NamesAssumption DEF Consistent, SleepersInState, TypeOK
<1>10. JoinersInState'
  <2> SUFFICES ASSUME NEW v \in Tid
               PROVE  /\ IsInjective(join_threads'[v])
                      /\ \A u \in Tid : Holds(join_threads'[v], u)
                            <=> thread_state'[u] = "BLOCKED" /\ arg'[u] = v
    BY DEF JoinersInState
  <2>1. /\ IsInjective(join_threads[v])
        /\ \A u \in Tid : Holds(join_threads[v], u)
                            <=> thread_state[u] = "BLOCKED" /\ arg[u] = v
    BY DEF Consistent, JoinersInState
  <2>2. CASE v = t
    BY <1>1, <1>3, <1>5, <2>1, <2>2 DEF TypeOK
  <2>3. CASE v # t
    BY <1>1, <1>3, <1>4, <2>1, <2>3 DEF TypeOK
  <2> QED BY <2>2, <2>3
<1>11. NobodyOnFreedQueue'
  BY <1>3 DEF Consistent, NobodyOnFreedQueue
<1>12. EndedHaveNoJoiners'
  BY <1>1, <1>3, <1>4 DEF Consistent, EndedHaveNoJoiners, TypeOK
<1>13. AliveCanRun'
  BY <1>1, <1>2, <1>3 DEF Consistent, AliveCanRun, TypeOK
<1>14. BlockedInCall'
  BY <1>1, <1>3 DEF Consistent, BlockedInCall, TypeOK
<1> QED
  BY <1>1, <1>3, <1>6, <1>7, <1>8, <1>9, <1>10, <1>11, <1>12, <1>13, <1>14
     DEF Consistent

\* Coming back to user code leaves the queues alone.
LEMMA UserCodeStep ==
    ASSUME TypeOK, Consistent, NEW mask, EnterUserCode(mask)
    PROVE  Consistent'
<1>1. /\ running \in Tid /\ thread_state[running] = "RUNNING"
      /\ ctx' = [ctx EXCEPT ![running] = "user"]
      /\ arg' = [arg EXCEPT ![running] = NULL]
      /\ UNCHANGED <<thread_state, join_threads, joinable, stack, ready_threads,
                     zombie_threads, wait_queues, allocated, running>>
  BY DEF EnterUserCode, Consistent, OneRunning, tcb, queues
<1>2. SleepersInState' /\ JoinersInState'
  BY <1>1 DEF Consistent, SleepersInState, JoinersInState, TypeOK
<1>3. AliveCanRun' /\ BlockedInCall'
  BY <1>1 DEF Consistent, AliveCanRun, BlockedInCall, TypeOK
<1> QED
  BY <1>1, <1>2, <1>3
     DEF Consistent, OneRunning, ReadyInState, ZombiesInState,
         NobodyOnFreedQueue, EndedHaveNoJoiners

\* So does anything that only touches masks.
LEMMA MaskOrStutterStep ==
    ASSUME Consistent,
           UNCHANGED <<thread_state, join_threads, joinable, stack,
                       ready_threads, zombie_threads, wait_queues, allocated,
                       running, ctx, arg>>
    PROVE  Consistent'
  BY DEF Consistent, OneRunning, ReadyInState, ZombiesInState, SleepersInState,
         JoinersInState, NobodyOnFreedQueue, EndedHaveNoJoiners, AliveCanRun,
         BlockedInCall

-----------------------------------------------------------------------------
(* Theorems. *)

\* Every state of every program has the type TypeOK gives it.
THEOREM TypeCorrect == Spec => []TypeOK
<1>1. TypeOK /\ [Next]_vars => TypeOK'
  BY TypeStep
<1> QED BY TypeInit, <1>1, PTL DEF Spec

\* The invariant holds at the start.
LEMMA InvInit == Init => ThreadInv
<1> SUFFICES ASSUME Init PROVE ThreadInv
  OBVIOUS
<1>1. TypeOK
  BY TypeInit
<1>2. 0 \in Tid
  BY ThreadsAssumption DEF Tid
<1>3. IsInjective(<<>>) /\ \A u : ~ Holds(<<>>, u)
  BY DEF Holds, IsInjective
<1>4. Consistent
  BY <1>2, <1>3
     DEF Init, Consistent, OneRunning, ReadyInState, ZombiesInState,
         SleepersInState, JoinersInState, NobodyOnFreedQueue,
         EndedHaveNoJoiners, AliveCanRun, BlockedInCall
<1> QED BY <1>1, <1>4 DEF ThreadInv

\* Every step keeps the invariant.
LEMMA InvStep ==
    ASSUME ~ KillSleepers, ThreadInv, [Next]_vars
    PROVE  ThreadInv'
<1>1. TypeOK /\ TypeOK'
  BY TypeStep DEF ThreadInv
<1> SUFFICES ASSUME program' = "up" PROVE Consistent'
  BY <1>1 DEF ThreadInv
<1>2. program = "up"
  BY DEF Next, vars, process, Call, ThreadCreate, ThreadCreateNoStack,
         ThreadCreateNoQueue, ThreadYield, YieldFrom, HandleSignal,
         ThreadYieldTo, ThreadYieldToNoStack, ThreadKill, ThreadKillNoQueue,
         ThreadJoin, ThreadJoinNobodyReady, ThreadJoinNoQueue, ThreadExit,
         ThreadExitToReady, ThreadExitLast, ThreadExitToJoiner, ProgramExit,
         WaitQueueCreate, WaitQueueDestroy, ThreadSleep, ThreadWakeNext,
         ThreadWakeAll, InterruptsSet, Resume, MyThreadStub, ReturnFromSwitch,
         ReturnFromSignal, ReturnFromJoin, EnterUserCode, ExitHandlers,
         Terminated, InUserCode, CanJoin, Resumes, my_on_exit, Stop
<1>3. Consistent
  BY <1>2 DEF ThreadInv
<1>4. CASE ThreadCreate
  BY <1>1, <1>3, <1>4, CreateStep
<1>5. CASE ThreadCreateNoStack
  BY <1>1, <1>3, <1>5, CreateNoStackStep
<1>6. CASE ThreadYield
  BY <1>1, <1>3, <1>6, YieldStep DEF ThreadYield
<1>7. CASE HandleSignal
  BY <1>1, <1>3, <1>7, YieldStep DEF HandleSignal
<1>8. ASSUME NEW t \in Tid, ThreadYieldTo(t) \/ ThreadKill(t) \/ ThreadJoin(t)
      PROVE  Consistent'
  BY <1>1, <1>3, <1>8, YieldToStep, KillStep, JoinStep
<1>9. ASSUME NEW code,
             ThreadExitToReady(code) \/ ThreadExitToJoiner(code)
      PROVE  Consistent'
  BY <1>1, <1>3, <1>9, ExitToReadyStep, ExitToJoinerStep
<1>10. ASSUME NEW w \in WaitQueues,
              \/ WaitQueueCreate(w) \/ WaitQueueDestroy(w) \/ ThreadSleep(w)
              \/ ThreadWakeNext(w) \/ ThreadWakeAll(w)
       PROVE  Consistent'
  BY <1>1, <1>3, <1>10, QueueStep, SleepStep, WakeNextStep, WakeAllStep
<1>11. ASSUME NEW mask, EnterUserCode(mask) PROVE Consistent'
  BY <1>1, <1>3, <1>11, UserCodeStep
<1>12. CASE Resume
  BY <1>11, <1>12 DEF Resume, MyThreadStub, ReturnFromSwitch,
                      ReturnFromSignal, ReturnFromJoin
<1>13. ASSUME NEW state, InterruptsSet(state) PROVE Consistent'
  BY <1>3, <1>13, MaskOrStutterStep DEF InterruptsSet, tcb, queues, suspended
<1>14. CASE UNCHANGED vars
  BY <1>3, <1>14, MaskOrStutterStep DEF vars, tcb, queues, suspended
<1>15. ASSUME NEW outcome \in {"aborted", "undefined"}, Stop(outcome)
       PROVE  FALSE
  BY <1>15 DEF Stop
<1>16. ASSUME NEW code,
              ThreadExitLast(code) \/ ProgramExit(code) \/ ExitHandlers
       PROVE  FALSE
  BY <1>16 DEF ThreadExitLast, ProgramExit, ExitHandlers, my_on_exit
<1> QED
  BY <1>4, <1>5, <1>6, <1>7, <1>8, <1>9, <1>10, <1>12, <1>13, <1>14, <1>15,
     <1>16
     DEF Next, Call, ThreadExit, ThreadCreateNoQueue, ThreadYieldToNoStack,
         ThreadKillNoQueue, ThreadJoinNobodyReady, ThreadJoinNoQueue, Terminated

\* The inductive invariant holds in every program that does not kill a thread
\* sleeping on its own queue, whether or not memory runs out.
THEOREM Invariance == ~ KillSleepers => (Spec => []ThreadInv)
<1> SUFFICES ASSUME ~ KillSleepers PROVE Spec => []ThreadInv
  OBVIOUS
<1>1. ThreadInv /\ [Next]_vars => ThreadInv'
  BY InvStep
<1> QED BY InvInit, <1>1, PTL DEF Spec

\* Every thread is in the one queue its state names, once.
THEOREM QueuesCorrect == ~ KillSleepers => (Spec => []QueuesMatchStates)
<1> SUFFICES ASSUME ~ KillSleepers PROVE Spec => []QueuesMatchStates
  OBVIOUS
<1>1. ThreadInv => QueuesMatchStates
  BY DEF ThreadInv, Consistent, QueuesMatchStates
<1>2. Spec => []ThreadInv
  BY Invariance
<1> QED BY <1>1, <1>2, PTL

\* Nobody waits in ThreadJoin for a thread that has already ended.
THEOREM JoinTargetsCorrect == ~ KillSleepers => (Spec => []JoinTargetsLive)
<1> SUFFICES ASSUME ~ KillSleepers PROVE Spec => []JoinTargetsLive
  OBVIOUS
<1>1. ThreadInv => JoinTargetsLive
  <2> SUFFICES ASSUME ThreadInv, program = "up", NEW t \in Tid,
                      thread_state[t] = "BLOCKED", ctx[t] = "join"
               PROVE  thread_state[arg[t]] \in {"READY", "RUNNING", "BLOCKED"}
    BY DEF JoinTargetsLive
  <2>1. arg[t] \in Tid /\ Holds(join_threads[arg[t]], t)
    BY DEF ThreadInv, Consistent, BlockedInCall, JoinersInState
  <2>2. join_threads[arg[t]] # <<>>
    BY <2>1 DEF Holds
  <2> QED
    BY <2>1, <2>2
       DEF ThreadInv, TypeOK, ThreadStates, Consistent, EndedHaveNoJoiners
<1>2. Spec => []ThreadInv
  BY Invariance
<1> QED BY <1>1, <1>2, PTL

\* The assertions of ThreadYield on ss_sp never fail, and no thread is switched
\* to whose stack a kill has freed.
THEOREM StacksCorrect == ~ KillSleepers => (Spec => []RunnableHasStack)
<1> SUFFICES ASSUME ~ KillSleepers PROVE Spec => []RunnableHasStack
  OBVIOUS
<1>1. ThreadInv => RunnableHasStack
  BY DEF ThreadInv, Consistent, RunnableHasStack, AliveCanRun, ReadyInState
<1>2. Spec => []ThreadInv
  BY Invariance
<1> QED BY <1>1, <1>2, PTL
=============================================================================
