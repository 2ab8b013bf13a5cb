----------------------------- MODULE FifoQueues -----------------------------
(***************************************************************************)
(* What the Queue_ functions of csc369_thread.c promise: first-in first-out*)
(* queues of threads, as the sequences CSC369Thread works with.  A thread  *)
(* is put in a queue only when it is in none; CSC369Thread!QueuesMatchStates*)
(* shows that the library keeps to that.                                   *)
(***************************************************************************)
EXTENDS SequencesExt

CONSTANTS Tcbs, Queues, NULL

VARIABLES
    contents,   \* the threads in each queue, in order
    returned    \* what the last Dequeue returned

fifoVars == <<contents, returned>>

Linked(t) == \E q \in Queues : Contains(contents[q], t)

FifoInit ==
    /\ contents = [q \in Queues |-> <<>>]
    /\ returned = NULL

Enqueue(q, t) ==
    /\ ~ Linked(t)
    /\ contents' = [contents EXCEPT ![q] = Append(@, t)]
    /\ UNCHANGED returned

Dequeue(q) ==
    IF contents[q] = <<>>
    THEN returned' = NULL /\ UNCHANGED contents
    ELSE /\ returned' = Head(contents[q])
         /\ contents' = [contents EXCEPT ![q] = Tail(@)]

Take(q, t) ==
    /\ contents' = [contents EXCEPT ![q] = RemoveFirst(@, t)]
    /\ UNCHANGED returned

FifoNext ==
    \E q \in Queues :
        \/ Dequeue(q)
        \/ \E t \in Tcbs : Enqueue(q, t) \/ Take(q, t)

FifoSpec == FifoInit /\ [][FifoNext]_fifoVars
=============================================================================
