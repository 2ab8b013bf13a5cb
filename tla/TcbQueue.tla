------------------------------ MODULE TcbQueue ------------------------------
(***************************************************************************)
(* The intrusive queues of csc369_thread.c: a queue is a head pointer, and *)
(* the links are the next and prev fields of the TCBs themselves, one pair *)
(* per TCB whatever queue it is in.  Enqueue and Remove find their place by*)
(* walking next from the head, at most CSC369_MAX_THREADS nodes.           *)
(***************************************************************************)
EXTENDS Naturals, Sequences, FiniteSets

CONSTANTS Tcbs, Queues, NULL

\* CSC369_MAX_THREADS TCBs; a link to none of them is NULL.
ASSUME TcbsAssumption == IsFiniteSet(Tcbs) /\ NULL \notin Tcbs

VARIABLES
    head,       \* CSC369_WaitQueue.head of each queue
    next, prev, \* TCB.next, TCB.prev
    returned    \* what the last Queue_Dequeue returned

vars == <<head, next, prev, returned>>

MAX_THREADS == Cardinality(Tcbs)

\* The nodes the walk from the head of q meets, NULL from the end on.
Nodes(q) ==
    LET node[i \in 1 .. MAX_THREADS] ==
            IF i = 1 THEN head[q]
            ELSE IF node[i - 1] = NULL THEN NULL ELSE next[node[i - 1]]
    IN  node

Met(q) == {Nodes(q)[i] : i \in 1 .. MAX_THREADS} \ {NULL}

\* A TCB that some queue's walk reaches.
IsLinked(t) == \E q \in Queues : t \in Met(q)

Queue_Init ==
    /\ head = [q \in Queues |-> NULL]
    /\ next = [t \in Tcbs |-> NULL]
    /\ prev = [t \in Tcbs |-> NULL]
    /\ returned = NULL

\* The callers enqueue a TCB that is in no queue.  When the walk finds no end
\* within its bound, nothing is linked.
Queue_Enqueue(q, tcb) ==
    LET ends == {t \in Met(q) : next[t] = NULL}
    IN  /\ ~ IsLinked(tcb)
        /\ UNCHANGED returned
        /\ \/ /\ head[q] = NULL
              /\ head' = [head EXCEPT ![q] = tcb]
              /\ next' = [next EXCEPT ![tcb] = NULL]
              /\ prev' = [prev EXCEPT ![tcb] = NULL]
           \/ \E temp \in ends :
              /\ next' = [next EXCEPT ![temp] = tcb, ![tcb] = NULL]
              /\ prev' = [prev EXCEPT ![tcb] = temp]
              /\ UNCHANGED head

Queue_Dequeue_StalePrev(q) ==
    LET temp == head[q]
    IN  /\ returned' = temp
        /\ IF temp = NULL
           THEN UNCHANGED <<head, next, prev>>
           ELSE /\ head' = [head EXCEPT ![q] = next[temp]]
                /\ next' = [next EXCEPT ![temp] = NULL]
                /\ prev' = [prev EXCEPT ![temp] = NULL]

Queue_Dequeue(q) ==
    LET temp == head[q]
    IN  /\ returned' = temp
        /\ IF temp = NULL
           THEN UNCHANGED <<head, next, prev>>
           ELSE /\ head' = [head EXCEPT ![q] = next[temp]]
                /\ next' = [next EXCEPT ![temp] = NULL]
                /\ prev' = [t \in Tcbs |->
                        IF t \in {temp, next[temp]} THEN NULL ELSE prev[t]]

\* A node whose prev is NULL is taken for the head.
Queue_Remove(q, tcb) ==
    /\ UNCHANGED returned
    /\ IF tcb \notin Met(q)
       THEN UNCHANGED <<head, next, prev>>
       ELSE /\ head' = [head EXCEPT ![q] =
                    IF prev[tcb] = NULL THEN next[tcb] ELSE @]
            /\ next' = [t \in Tcbs |-> IF t = tcb THEN NULL
                                       ELSE IF t = prev[tcb] THEN next[tcb]
                                       ELSE next[t]]
            /\ prev' = [t \in Tcbs |-> IF t = tcb THEN NULL
                                       ELSE IF t = next[tcb] THEN prev[tcb]
                                       ELSE prev[t]]

Next ==
    \E q \in Queues :
        \/ Queue_Dequeue(q)
        \/ \E t \in Tcbs : Queue_Enqueue(q, t) \/ Queue_Remove(q, t)

Spec == Queue_Init /\ [][Next]_vars

-----------------------------------------------------------------------------
(* Properties. *)

\* Types of the state.
TypeOK ==
    /\ head \in [Queues -> Tcbs \cup {NULL}]
    /\ next \in [Tcbs -> Tcbs \cup {NULL}]
    /\ prev \in [Tcbs -> Tcbs \cup {NULL}]
    /\ returned \in Tcbs \cup {NULL}

\* prev undoes next along every queue, a head has no prev, and a TCB in no
\* queue points nowhere.  Removing from the middle relies on all three.
LinksMirror ==
    /\ \A t \in Tcbs : next[t] # NULL => prev[next[t]] = t
    /\ \A t \in Tcbs : prev[t] # NULL => next[prev[t]] = t
    /\ \A q \in Queues : head[q] # NULL => prev[head[q]] = NULL
    /\ \A t \in Tcbs : ~ IsLinked(t) => next[t] = NULL /\ prev[t] = NULL

\* The sequence a queue stands for: its nodes up to the end.
Length(q) == Cardinality({i \in 1 .. MAX_THREADS : Nodes(q)[i] # NULL})
AsSequence(q) == [i \in 1 .. Length(q) |-> Nodes(q)[i]]
Contents == [q \in Queues |-> AsSequence(q)]

\* The linked queues behave as first-in first-out sequences and return the
\* thread such a sequence would: no walk loses, repeats or misorders a thread.
Fifo == INSTANCE FifoQueues WITH contents <- Contents
ImplementsFifo == Fifo!FifoSpec
=============================================================================
