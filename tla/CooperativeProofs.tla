-------------------------- MODULE CooperativeProofs --------------------------
(***************************************************************************)
(* Proofs about CooperativeThread: the chain of next pointers holds the    *)
(* ready threads and no other, no stack is shared or leaked before the     *)
(* first wrong free, and the list is the queue of the abstract scheduler.  *)
(***************************************************************************)
EXTENDS CooperativeThread, TLAPS, FiniteSetTheorems, WellFoundedInduction

USE ThreadsAssumption
USE AddressesAssumption
USE MallocAssumption

\* A chain that does not close a circle: it has one end, no thread is behind
\* two others, and none is behind the head again.
WellLinked(link, head) ==
    LET chain == OnChain(link, head)
    IN  /\ \A p, q \in chain : link[p] = link[q] => p = q
        /\ \A p \in chain : link[p] # head
        /\ chain = {} \/ \E p \in chain : link[p] = NULL

-----------------------------------------------------------------------------
(* Chains. *)

Links == [Tids -> Tids \cup {NULL}]
Heads == Tids \cup {NULL}

\* The chain holds the head and what its threads point at, and is the least
\* set that does.
LEMMA ChainFacts ==
    ASSUME NEW link \in Links, NEW head \in Heads
    PROVE  /\ OnChain(link, head) \subseteq Tids
           /\ head \in OnChain(link, head) \cup {NULL}
           /\ \A p \in OnChain(link, head) :
                link[p] \in OnChain(link, head) \cup {NULL}
           /\ \A S \in SUBSET Tids :
                /\ head \in S \cup {NULL}
                /\ \A p \in S : link[p] \in S \cup {NULL}
                => OnChain(link, head) \subseteq S
<1> DEFINE C == OnChain(link, head)
           Closed(S) == head \in S \cup {NULL}
                            /\ \A p \in S : link[p] \in S \cup {NULL}
<1>1. C = {t \in Tids : \A S \in SUBSET Tids : Closed(S) => t \in S}
  BY DEF OnChain
<1>2. head \in C \cup {NULL}
  BY <1>1 DEF Heads
<1>3. ASSUME NEW p \in C PROVE link[p] \in C \cup {NULL}
  <2> SUFFICES ASSUME link[p] # NULL PROVE link[p] \in C
    OBVIOUS
  <2>1. link[p] \in Tids
    BY <1>1 DEF Links
  <2>2. ASSUME NEW S \in SUBSET Tids, Closed(S) PROVE link[p] \in S
    <3>1. p \in S
      BY <1>1, <1>3, <2>2
    <3> QED BY <2>2, <3>1
  <2> QED BY <1>1, <2>1, <2>2
<1>4. ASSUME NEW S \in SUBSET Tids, Closed(S) PROVE C \subseteq S
  BY <1>1, <1>4
<1> QED BY <1>1, <1>2, <1>3, <1>4

\* An empty queue has no thread.
LEMMA EmptyChain ==
    ASSUME NEW link \in Links PROVE OnChain(link, NULL) = {}
<1> DEFINE S == {}
<1>1. /\ NULL \in Heads /\ S \in SUBSET Tids
      /\ NULL \in S \cup {NULL}
      /\ \A p \in S : link[p] \in S \cup {NULL}
  BY DEF Heads
<1> HIDE DEF S
<1>2. OnChain(link, NULL) \subseteq S
  BY <1>1, ChainFacts
<1> QED BY <1>2 DEF S

\* A pointer of a thread outside the chain does not matter.
LEMMA OffChain ==
    ASSUME NEW link \in Links, NEW head \in Heads,
           NEW t \in Tids, t \notin OnChain(link, head)
    PROVE  LET cut == [link EXCEPT ![t] = NULL]
           IN  /\ cut \in Links
               /\ OnChain(cut, head) = OnChain(link, head)
               /\ WellLinked(link, head) => WellLinked(cut, head)
<1> DEFINE C == OnChain(link, head)
           cut == [link EXCEPT ![t] = NULL]
           D == OnChain(cut, head)
<1>1. cut \in Links /\ \A p \in Tids : p # t => cut[p] = link[p]
  BY DEF Links
<1>2. C \subseteq Tids /\ t \notin C
  BY ChainFacts
<1>3. D \subseteq C
  <2>1. head \in C \cup {NULL} /\ \A p \in C : cut[p] \in C \cup {NULL}
    BY <1>1, <1>2, ChainFacts
  <2> QED BY <1>1, <1>2, <2>1, ChainFacts
<1>4. C \subseteq D
  <2>1. head \in D \cup {NULL} /\ D \subseteq Tids
    BY <1>1, ChainFacts
  <2>2. \A p \in D : link[p] \in D \cup {NULL}
    <3> TAKE p \in D
    <3>1. cut[p] \in D \cup {NULL}
      BY <1>1, ChainFacts
    <3>2. cut[p] = link[p]
      BY <1>1, <1>2, <1>3
    <3> QED BY <3>1, <3>2
  <2> HIDE DEF D
  <2> QED BY <2>1, <2>2, ChainFacts
<1>5. D = C /\ \A p \in C : cut[p] = link[p]
  BY <1>1, <1>2, <1>3, <1>4
<1>6. ASSUME WellLinked(link, head) PROVE WellLinked(cut, head)
  <2> HIDE DEF cut, C, D
  <2>1. /\ \A p, q \in C : link[p] = link[q] => p = q
        /\ \A p \in C : link[p] # head
        /\ C = {} \/ \E p \in C : link[p] = NULL
    BY <1>6 DEF WellLinked, C
  <2>2. /\ \A p, q \in D : cut[p] = cut[q] => p = q
        /\ \A p \in D : cut[p] # head
    BY <1>5, <2>1
  <2>3. D = {} \/ \E p \in D : cut[p] = NULL
    BY <1>5, <2>1
  <2> QED BY <2>2, <2>3 DEF WellLinked, D
<1> QED BY <1>1, <1>5, <1>6

\* Putting a thread at the end adds it and nothing else.
LEMMA AppendFacts ==
    ASSUME NEW link \in Links, NEW head \in Heads, WellLinked(link, head),
           NEW t \in Tids, t \notin OnChain(link, head)
    PROVE  /\ Appended(link, head, t) \in Links
           /\ AppendedHead(head, t) \in Heads
           /\ OnChain(Appended(link, head, t), AppendedHead(head, t)) =
                OnChain(link, head) \cup {t}
           /\ WellLinked(Appended(link, head, t), AppendedHead(head, t))
<1> DEFINE C == OnChain(link, head)
           new == Appended(link, head, t)
           front == AppendedHead(head, t)
           D == OnChain(new, front)
<1>1. /\ new \in Links
      /\ new[t] = NULL
      /\ \A p \in C : new[p] = IF link[p] = NULL THEN t ELSE link[p]
  BY ChainFacts DEF Appended, LastOf, Links
<1>2. front \in Heads /\ front # NULL
  BY DEF AppendedHead, Heads
<1>3. /\ C \subseteq Tids /\ t \notin C
      /\ head \in C \cup {NULL}
      /\ \A p \in C : link[p] \in C \cup {NULL}
  BY ChainFacts
<1>4. (front = t /\ C = {}) \/ (front = head /\ head \in C)
  BY <1>3, EmptyChain DEF AppendedHead
<1> HIDE DEF new, front
<1>5. /\ D \subseteq Tids /\ front \in D
      /\ \A p \in D : new[p] \in D \cup {NULL}
  BY <1>1, <1>2, ChainFacts
<1>6. D \subseteq C \cup {t}
  <2> DEFINE S == C \cup {t}
  <2>1. S \in SUBSET Tids /\ front \in S \cup {NULL}
    BY <1>3, <1>4
  <2>2. \A p \in S : new[p] \in S \cup {NULL}
    BY <1>1, <1>3
  <2> HIDE DEF S
  <2>3. D \subseteq S
    BY <1>1, <1>2, <2>1, <2>2, ChainFacts
  <2> QED BY <2>3 DEF S
<1>7. C \subseteq D
  <2>1. CASE front = t /\ C = {}
    BY <2>1
  <2>2. CASE front = head /\ head \in C
    <3> DEFINE S == C \cap D
    <3>1. S \in SUBSET Tids /\ head \in S \cup {NULL}
      BY <1>3, <1>5, <2>2
    <3>2. \A p \in S : link[p] \in S \cup {NULL}
      BY <1>1, <1>3, <1>5
    <3>3. C \subseteq S
      <4> HIDE DEF S
      <4> QED BY <3>1, <3>2, ChainFacts
    <3> QED BY <3>3
  <2> QED BY <1>4, <2>1, <2>2
<1>8. t \in D
  <2>1. CASE C = {}
    BY <1>4, <1>5, <2>1
  <2>2. CASE C # {}
    <3>1. PICK p \in C : link[p] = NULL
      BY <2>2 DEF WellLinked
    <3>2. new[p] = t
      BY <1>1, <3>1
    <3> QED BY <1>5, <1>7, <3>1, <3>2
  <2> QED BY <2>1, <2>2
<1>9. D = C \cup {t}
  BY <1>6, <1>7, <1>8
<1>10. WellLinked(new, front)
  <2>1. \A p, q \in C : link[p] = link[q] => p = q
    BY DEF WellLinked
  <2>2. \A p \in C : link[p] # head
    BY DEF WellLinked
  <2>3. ASSUME NEW p \in D, NEW q \in D, new[p] = new[q] PROVE p = q
    BY <1>1, <1>3, <1>9, <2>1, <2>3
  <2>4. ASSUME NEW p \in D PROVE new[p] # front
    BY <1>1, <1>2, <1>3, <1>4, <1>9, <2>2
  <2>5. \E p \in D : new[p] = NULL
    BY <1>1, <1>8
  <2> QED BY <2>3, <2>4, <2>5 DEF WellLinked
<1> QED BY <1>1, <1>2, <1>9, <1>10 DEF new, front

\* Taking a thread out takes out no other.
LEMMA RemoveFacts ==
    ASSUME NEW link \in Links, NEW head \in Heads, WellLinked(link, head),
           NEW t \in OnChain(link, head)
    PROVE  /\ Removed(link, head, t) \in Links
           /\ RemovedHead(link, head, t) \in Heads
           /\ OnChain(Removed(link, head, t), RemovedHead(link, head, t)) =
                OnChain(link, head) \ {t}
           /\ WellLinked(Removed(link, head, t), RemovedHead(link, head, t))
<1> DEFINE C == OnChain(link, head)
           new == Removed(link, head, t)
           front == RemovedHead(link, head, t)
           D == OnChain(new, front)
<1>1. /\ C \subseteq Tids /\ t \in C
      /\ head \in C \cup {NULL}
      /\ \A p \in C : link[p] \in C \cup {NULL}
      /\ head # NULL
  BY ChainFacts, EmptyChain
<1>2. /\ new \in Links
      /\ \A p \in C : new[p] = IF head # t /\ link[p] = t THEN link[t]
                               ELSE link[p]
  BY <1>1 DEF Removed, Before, Links
<1>3. front \in Heads /\ front = IF head = t THEN link[t] ELSE head
  BY <1>1 DEF RemovedHead, Heads, Links
<1>4. \A p, q \in C : link[p] = link[q] => p = q
  BY DEF WellLinked
<1>5. \A p \in C : link[p] # head
  BY DEF WellLinked
<1>6. PICK last \in C : link[last] = NULL
  BY <1>1 DEF WellLinked
<1> HIDE DEF new, front
<1>7. /\ D \subseteq Tids /\ front \in D \cup {NULL}
      /\ \A p \in D : new[p] \in D \cup {NULL}
  BY <1>2, <1>3, ChainFacts
<1>8. head = t \/ \E r \in C \ {t} : link[r] = t
  <2> SUFFICES ASSUME head # t, \A r \in C \ {t} : link[r] # t PROVE FALSE
    OBVIOUS
  <2> DEFINE S == C \ {t}
  <2>1. S \in SUBSET Tids /\ head \in S \cup {NULL}
    BY <1>1
  <2>2. \A p \in S : link[p] \in S \cup {NULL}
    BY <1>1
  <2>3. C \subseteq S
    <3> HIDE DEF S
    <3> QED BY <2>1, <2>2, ChainFacts
  <2> QED BY <1>1, <2>3
<1>9. link[t] # t
  BY <1>1, <1>4, <1>5, <1>8
<1>10. D \subseteq C \ {t}
  <2> DEFINE S == C \ {t}
  <2>1. S \in SUBSET Tids /\ front \in S \cup {NULL}
    BY <1>1, <1>3, <1>9
  <2>2. \A p \in S : new[p] \in S \cup {NULL}
    BY <1>1, <1>2, <1>5, <1>9
  <2> HIDE DEF S
  <2>3. D \subseteq S
    BY <1>2, <1>3, <2>1, <2>2, ChainFacts
  <2> QED BY <2>3 DEF S
<1>11. C \ {t} \subseteq D
  <2> DEFINE T == IF link[t] \in D \cup {NULL} THEN {t} ELSE {}
             S == D \cup T
  <2>1. S \in SUBSET Tids
    BY <1>1, <1>7
  <2>2. head \in S \cup {NULL}
    BY <1>3, <1>7
  <2>3. ASSUME NEW p \in S PROVE link[p] \in S \cup {NULL}
    <3>1. CASE p \in T
      BY <3>1
    <3>2. CASE p \in D
      <4>1. p \in C /\ new[p] \in D \cup {NULL}
        BY <1>7, <1>10, <3>2
      <4>2. CASE head # t /\ link[p] = t
        BY <1>2, <4>1, <4>2
      <4>3. CASE ~ (head # t /\ link[p] = t)
        BY <1>2, <4>1, <4>3
      <4> QED BY <4>2, <4>3
    <3> QED BY <2>3, <3>1, <3>2
  <2>4. C \subseteq S
    <3> HIDE DEF S
    <3> QED BY <2>1, <2>2, <2>3, ChainFacts
  <2> QED BY <2>4
<1>12. D = C \ {t}
  BY <1>10, <1>11
<1>13. WellLinked(new, front)
  <2>1. ASSUME NEW p \in D, NEW q \in D, new[p] = new[q] PROVE p = q
    BY <1>1, <1>2, <1>4, <1>12, <2>1
  <2>2. ASSUME NEW p \in D PROVE new[p] # front
    BY <1>1, <1>2, <1>3, <1>4, <1>5, <1>12
  <2>3. D = {} \/ \E p \in D : new[p] = NULL
    <3>1. CASE last # t
      <4>1. last \in D /\ new[last] = NULL
        BY <1>1, <1>2, <1>6, <1>12, <3>1
      <4> QED BY <4>1
    <3>2. CASE last = t /\ head = t
      <4>1. front = NULL
        BY <1>3, <1>6, <3>2
      <4> QED BY <1>2, <4>1, EmptyChain
    <3>3. CASE last = t /\ head # t
      <4>1. PICK r \in C \ {t} : link[r] = t
        BY <1>8, <3>3
      <4>2. r \in D /\ new[r] = NULL
        BY <1>2, <1>6, <1>12, <3>3, <4>1
      <4> QED BY <4>2
    <3> QED BY <3>1, <3>2, <3>3
  <2> QED BY <2>1, <2>2, <2>3 DEF WellLinked
<1> QED BY <1>2, <1>3, <1>12, <1>13 DEF new, front

-----------------------------------------------------------------------------
(* The types, and the ready queue. *)

\* Every step keeps the types.
LEMMA TypeStep == TypeOK /\ [Next]_vars => TypeOK'
<1> SUFFICES ASSUME TypeOK, [Next]_vars PROVE TypeOK'
  OBVIOUS
<1> USE DEF TypeOK, States, Outcomes
<1>1. ASSUME NEW t PROVE FreeEnds(t) \in Outcomes
  BY DEF FreeEnds
<1>2. ASSUME NEW how \in Outcomes, End(how) PROVE TypeOK'
  BY <1>2 DEF End, threads
<1>3. ASSUME NEW link \in Links, NEW head \in Heads, NEW t \in Heads
      PROVE  /\ Appended(link, head, t) \in Links
             /\ AppendedHead(head, t) \in Heads
  BY DEF Appended, AppendedHead, Links, Heads
<1>4. ASSUME NEW t \in Tids
      PROVE  /\ Removed(next, gThreadReadyHead, t) \in Links
             /\ RemovedHead(next, gThreadReadyHead, t) \in Heads
  BY DEF Removed, RemovedHead, Links, Heads
<1>5. next \in Links /\ gThreadReadyHead \in Heads /\ gThreadRunningHead \in Heads
  BY DEF Links, Heads
<1>6. ASSUME NEW t \in Tids, NEW link \in Links, NEW head \in Heads,
             SwitchTo(t, link, head)
      PROVE  TypeOK'
  <2>1. /\ Appended(link, head, gThreadRunningHead) \in Links
        /\ AppendedHead(head, gThreadRunningHead) \in Heads
    BY <1>3, <1>5
  <2> QED BY <1>6, <2>1 DEF SwitchTo, Links, Heads
<1>7. ASSUME ThreadExit PROVE TypeOK'
  BY <1>7 DEF ThreadExit, Exited
<1>8. ASSUME ThreadExitLast PROVE TypeOK'
  <2>1. CASE FreeEnds(gThreadRunningHead) = "run"
    BY <1>8, <2>1 DEF ThreadExitLast, Exited
  <2>2. CASE FreeEnds(gThreadRunningHead) # "run"
    BY <1>1, <1>2, <1>8, <2>2 DEF ThreadExitLast
  <2> QED BY <2>1, <2>2
<1>9. ASSUME ThreadYield PROVE TypeOK'
  BY <1>5, <1>6, <1>9 DEF ThreadYield, Links, Heads
<1>10. ASSUME NEW t \in Tids, ThreadCreate(t) PROVE TypeOK'
  <2>1. /\ Appended(next, gThreadReadyHead, t) \in Links
        /\ AppendedHead(gThreadReadyHead, t) \in Heads
    BY <1>3, <1>5 DEF Heads
  <2>2. thread_state' \in [Tids -> States] /\ outcome' \in Outcomes
    BY <1>10 DEF ThreadCreate
  <2>3. /\ ss_sp' \in [Tids -> Addresses \cup {NULL}]
        /\ allocated' \subseteq Addresses
    <3>1. PICK stack \in Addresses \ OldStackFreed(t) :
            /\ ss_sp' = [ss_sp EXCEPT ![t] = stack]
            /\ allocated' = OldStackFreed(t) \cup {stack}
      BY <1>10 DEF ThreadCreate
    <3> QED BY <3>1 DEF OldStackFreed
  <2> QED BY <1>10, <2>1, <2>2, <2>3 DEF ThreadCreate, Links, Heads
<1>11. ASSUME NEW t \in Tids, ThreadCreateNoMemory(t) PROVE TypeOK'
  BY <1>11 DEF ThreadCreateNoMemory, OldStackFreed, threads
<1>12. ASSUME NEW t \in Tids, ThreadCreateUndefined(t) PROVE TypeOK'
  BY <1>1, <1>2, <1>12 DEF ThreadCreateUndefined
<1>13. ASSUME NEW t \in Tids, ThreadKill(t) PROVE TypeOK'
  <2>1. CASE NotFound(t)
    BY <1>2, <1>13, <2>1 DEF ThreadKill
  <2>2. CASE ~ NotFound(t) /\ FreeEnds(t) # "run"
    BY <1>1, <1>2, <1>13, <2>2 DEF ThreadKill
  <2>3. CASE ~ NotFound(t) /\ FreeEnds(t) = "run"
    <3> DEFINE new == Removed(next, gThreadReadyHead, t)
    <3>1. /\ next' = [new EXCEPT ![t] = NULL]
          /\ gThreadReadyHead' = RemovedHead(next, gThreadReadyHead, t)
      BY <1>13, <2>3 DEF ThreadKill
    <3>3. new \in Links
      BY <1>4
    <3> HIDE DEF new
    <3>4. next' \in Links /\ gThreadReadyHead' \in Heads
      BY <1>4, <3>1, <3>3 DEF Links
    <3>2. thread_state' \in [Tids -> States] /\ allocated' \subseteq Addresses
      BY <1>13, <2>3 DEF ThreadKill, Killed
    <3> QED BY <1>13, <2>3, <3>2, <3>4 DEF ThreadKill, Links, Heads
  <2> QED BY <2>1, <2>2, <2>3
<1>14. ASSUME NEW t \in Tids, ThreadYieldTo(t) PROVE TypeOK'
  BY <1>2, <1>4, <1>6, <1>14 DEF ThreadYieldTo
<1>15. CASE UNCHANGED vars
  BY <1>15 DEF vars, threads
<1> QED BY <1>7, <1>8, <1>9, <1>10, <1>11, <1>12, <1>13, <1>14, <1>15
        DEF Next, Call, Ended

\* TypeOK holds in every behaviour: the fields of the control blocks keep
\* their types, for any number of threads and stacks.
THEOREM TypeCorrect == Spec => []TypeOK
<1>1. Init => TypeOK
  BY DEF Init, TypeOK, States, Outcomes, Tids
<1> QED BY <1>1, TypeStep, PTL DEF Spec

\* The inductive invariant of the ready queue.
QueueInv ==
    /\ TypeOK
    /\ QueueHoldsReady
    /\ WellLinked(next, gThreadReadyHead)
    /\ outcome = "run" => gThreadRunningHead # NULL

\* Every call leaves the queue whole.
LEMMA QueueStep == QueueInv /\ [Next]_vars => QueueInv'
<1> SUFFICES ASSUME QueueInv, [Next]_vars PROVE QueueInv'
  OBVIOUS
<1> DEFINE chain == OnChain(next, gThreadReadyHead)
           ready(s) == {t \in Tids : s[t] = "READY"}
           runs(s) == {t \in Tids : s[t] = "RUNNING"}
<1>1. TypeOK'
  BY TypeStep DEF QueueInv
<1>2. /\ next \in Links /\ gThreadReadyHead \in Heads
      /\ thread_state \in [Tids -> States]
      /\ WellLinked(next, gThreadReadyHead)
      /\ chain = ready(thread_state)
      /\ runs(thread_state) = {gThreadRunningHead} \ {NULL}
      /\ outcome # "NULL dereference"
      /\ gThreadRunningHead \in Heads
  BY DEF QueueInv, QueueHoldsReady, TypeOK, Links, Heads
\* What is left to show of a step.
<1>3. ASSUME OnChain(next', gThreadReadyHead') = ready(thread_state'),
             WellLinked(next', gThreadReadyHead'),
             runs(thread_state') = {gThreadRunningHead'} \ {NULL},
             outcome' # "NULL dereference",
             outcome' = "run" => gThreadRunningHead' # NULL
      PROVE  QueueInv'
  BY <1>1, <1>3 DEF QueueInv, QueueHoldsReady
<1>4. ASSUME NEW t PROVE FreeEnds(t) # "NULL dereference"
  BY DEF FreeEnds
<1>5. ASSUME UNCHANGED threads, outcome' # "NULL dereference",
             outcome' = "run" => outcome = "run"
      PROVE  QueueInv'
  BY <1>2, <1>3, <1>5 DEF threads, QueueInv
<1>6. CASE UNCHANGED vars
  BY <1>2, <1>5, <1>6 DEF vars
<1>7. ASSUME outcome = "run" PROVE gThreadRunningHead \in Tids /\ gThreadRunningHead \notin chain
  BY <1>2, <1>7 DEF QueueInv, Heads
\* The queue without a thread, and without its head.
<1>queue. next \in Links /\ gThreadReadyHead \in Heads /\ WellLinked(next, gThreadReadyHead)
  BY <1>2
<1>remove. ASSUME NEW t \in chain
       PROVE  LET link == Removed(next, gThreadReadyHead, t)
                  head == RemovedHead(next, gThreadReadyHead, t)
              IN  /\ link \in Links /\ head \in Heads
                  /\ OnChain(link, head) = chain \ {t}
                  /\ WellLinked(link, head)
  BY <1>queue, <1>remove, RemoveFacts
<1>pop. ASSUME gThreadReadyHead # NULL
       PROVE  /\ gThreadReadyHead \in chain
              /\ next[gThreadReadyHead] \in Heads
              /\ OnChain(next, next[gThreadReadyHead]) = chain \ {gThreadReadyHead}
              /\ WellLinked(next, next[gThreadReadyHead])
  <2>1. gThreadReadyHead \in chain
    BY <1>2, <1>pop, ChainFacts
  <2>2. /\ Removed(next, gThreadReadyHead, gThreadReadyHead) = next
        /\ RemovedHead(next, gThreadReadyHead, gThreadReadyHead) =
                next[gThreadReadyHead]
    BY <1>2 DEF Removed, RemovedHead, Links
  <2>3. LET link == Removed(next, gThreadReadyHead, gThreadReadyHead)
            head == RemovedHead(next, gThreadReadyHead, gThreadReadyHead)
        IN  /\ link \in Links /\ head \in Heads
            /\ OnChain(link, head) = chain \ {gThreadReadyHead}
            /\ WellLinked(link, head)
    BY <1>remove, <2>1
  <2> HIDE DEF chain
  <2> QED BY <2>1, <2>2, <2>3
<1>8. ASSUME outcome = "run", ThreadExit PROVE QueueInv'
  <2> DEFINE r == gThreadRunningHead
             h == gThreadReadyHead
  <2>1. /\ h # NULL
        /\ thread_state' = [Exited(r) EXCEPT ![h] = "RUNNING"]
        /\ next' = [next EXCEPT ![r] = NULL]
        /\ gThreadReadyHead' = next[h]
        /\ gThreadRunningHead' = h
        /\ outcome' = outcome
    BY <1>8 DEF ThreadExit
  <2>2. /\ r \in Tids /\ r \notin chain /\ h \in chain /\ chain \subseteq Tids
    BY <1>2, <1>7, <1>8, <1>pop, <2>1, ChainFacts
  <2>3. /\ OnChain(next, next[h]) = chain \ {h}
        /\ WellLinked(next, next[h]) /\ next[h] \in Heads
    BY <1>pop, <2>1
  <2>4. OnChain(next', next[h]) = chain \ {h} /\ WellLinked(next', next[h])
    <3>1. r \notin OnChain(next, next[h])
      BY <2>2, <2>3
    <3> QED BY <1>2, <2>1, <2>2, <2>3, <3>1, OffChain
  <2>5. thread_state' = [t \in Tids |-> IF t = h THEN "RUNNING"
                                        ELSE IF t = r THEN "BLOCKED"
                                        ELSE thread_state[t]]
    BY <1>2, <2>1, <2>2 DEF Exited
  <2>6. ready(thread_state') = chain \ {h}
    BY <1>2, <2>2, <2>5
  <2>7. runs(thread_state') = {h}
    BY <1>2, <2>2, <2>5
  <2>8. h # NULL
    BY <2>1
  <2> QED BY <1>2, <1>3, <2>1, <2>4, <2>6, <2>7, <2>8
<1>9. ASSUME outcome = "run", ThreadExitLast PROVE QueueInv'
  <2>1. CASE FreeEnds(gThreadRunningHead) # "run"
    BY <1>2, <1>4, <1>5, <1>9, <2>1 DEF ThreadExitLast, End
  <2>2. CASE FreeEnds(gThreadRunningHead) = "run"
    <3> DEFINE r == gThreadRunningHead
    <3>1. /\ gThreadReadyHead = NULL /\ gThreadReadyHead' = NULL
          /\ thread_state' = Exited(r)
          /\ next' = [next EXCEPT ![r] = NULL]
          /\ gThreadRunningHead' = NULL
          /\ outcome' = "exit"
      BY <1>9, <2>2 DEF ThreadExitLast
    <3>2. next' \in Links
      BY <1>2, <3>1 DEF Links
    <3>3. OnChain(next', gThreadReadyHead') = {} /\ chain = {}
      BY <1>2, <3>1, <3>2, EmptyChain
    <3>4. thread_state' = [t \in Tids |-> IF t = r THEN "BLOCKED"
                                          ELSE thread_state[t]]
      BY <1>2, <3>1 DEF Exited
    <3>5. ready(thread_state') = {} /\ runs(thread_state') = {}
      <4>1. \A t \in Tids : thread_state[t] # "READY"
        BY <1>2, <3>3
      <4>2. \A t \in Tids : thread_state[t] = "RUNNING" => t = r
        BY <1>2
      <4> QED BY <3>4, <4>1, <4>2
    <3>6. WellLinked(next', gThreadReadyHead')
      BY <3>3 DEF WellLinked
    <3> QED BY <1>3, <3>1, <3>3, <3>5, <3>6
  <2> QED BY <2>1, <2>2
<1>10. ASSUME outcome = "run", NEW t \in Tids, NEW link \in Links, NEW head \in Heads,
              thread_state[t] = "READY",
              OnChain(link, head) = chain \ {t}, WellLinked(link, head),
              SwitchTo(t, link, head)
       PROVE  QueueInv'
  <2> DEFINE r == gThreadRunningHead
  <2>1. /\ gThreadReadyHead' = AppendedHead(head, r)
        /\ next' = Appended(link, head, r)
        /\ thread_state' = [thread_state EXCEPT ![r] = "READY", ![t] = "RUNNING"]
        /\ gThreadRunningHead' = t
        /\ outcome' = outcome
    BY <1>10 DEF SwitchTo
  <2>2. /\ r \in Tids /\ r \notin chain /\ t \in chain /\ t # NULL
    BY <1>2, <1>7, <1>10
  <2>3. /\ OnChain(next', gThreadReadyHead') = (chain \ {t}) \cup {r}
        /\ WellLinked(next', gThreadReadyHead')
    <3>1. r \notin OnChain(link, head)
      BY <1>10, <2>2
    <3> QED BY <1>10, <2>1, <2>2, <3>1, AppendFacts
  <2>4. thread_state' = [u \in Tids |-> IF u = t THEN "RUNNING"
                                        ELSE IF u = r THEN "READY"
                                        ELSE thread_state[u]]
    BY <1>2, <2>1, <2>2
  <2>5. ready(thread_state') = (chain \ {t}) \cup {r}
    BY <1>2, <2>2, <2>4
  <2>6. runs(thread_state') = {t}
    BY <1>2, <2>2, <2>4
  <2> QED BY <1>2, <1>3, <2>1, <2>2, <2>3, <2>5, <2>6
<1>11. ASSUME outcome = "run", ThreadYield PROVE QueueInv'
  <2>1. /\ gThreadReadyHead # NULL
        /\ SwitchTo(gThreadReadyHead, next, next[gThreadReadyHead])
    BY <1>11 DEF ThreadYield
  <2>2. gThreadReadyHead \in Tids /\ thread_state[gThreadReadyHead] = "READY"
    BY <1>2, <1>pop, <2>1
  <2> QED BY <1>2, <1>10, <1>11, <1>pop, <2>1, <2>2
<1>12. ASSUME outcome = "run", NEW t \in Tids, ThreadYieldTo(t) PROVE QueueInv'
  <2>1. t \in chain /\ thread_state[t] = "READY"
    BY <1>2, <1>12 DEF ThreadYieldTo
  <2>2. SwitchTo(t, Removed(next, gThreadReadyHead, t),
                 RemovedHead(next, gThreadReadyHead, t))
    BY <1>12, <2>1 DEF ThreadYieldTo, NotFound
  <2> QED BY <1>10, <1>12, <1>remove, <2>1, <2>2
<1>13. ASSUME outcome = "run", NEW t \in Tids, ThreadCreate(t) PROVE QueueInv'
  <2>1. /\ gThreadReadyHead' = AppendedHead(gThreadReadyHead, t)
        /\ next' = Appended(next, gThreadReadyHead, t)
        /\ thread_state' = [thread_state EXCEPT ![t] = "READY"]
        /\ gThreadRunningHead' = gThreadRunningHead
        /\ outcome' = outcome
        /\ thread_state[t] = "BLOCKED"
    BY <1>13 DEF ThreadCreate, IsNewTcb
  <2>2. t \notin chain
    BY <1>2, <2>1
  <2>3. /\ OnChain(next', gThreadReadyHead') = chain \cup {t}
        /\ WellLinked(next', gThreadReadyHead')
    <3>1. /\ OnChain(Appended(next, gThreadReadyHead, t),
                     AppendedHead(gThreadReadyHead, t)) = chain \cup {t}
          /\ WellLinked(Appended(next, gThreadReadyHead, t),
                        AppendedHead(gThreadReadyHead, t))
      BY <1>13, <1>queue, <2>2, AppendFacts
    <3> QED BY <2>1, <3>1
  <2>4. thread_state' = [u \in Tids |-> IF u = t THEN "READY"
                                        ELSE thread_state[u]]
    BY <1>2, <2>1
  <2>5. ready(thread_state') = chain \cup {t}
    BY <1>2, <2>4
  <2>6. runs(thread_state') = runs(thread_state)
    BY <2>1, <2>4
  <2> QED BY <1>2, <1>3, <1>7, <1>13, <2>1, <2>3, <2>5, <2>6
<1>14. ASSUME outcome = "run", NEW t \in Tids,
              ThreadCreateNoMemory(t) \/ ThreadCreateUndefined(t)
       PROVE  QueueInv'
  BY <1>2, <1>4, <1>5, <1>14
     DEF ThreadCreateNoMemory, ThreadCreateUndefined, End
<1>15. ASSUME outcome = "run", NEW t \in Tids, ThreadKill(t) PROVE QueueInv'
  <2> DEFINE h == gThreadReadyHead
  <2>1. t \in chain /\ ~ NotFound(t)
    BY <1>2, <1>15 DEF ThreadKill, NotFound
  <2>2. CASE FreeEnds(t) # "run"
    BY <1>2, <1>4, <1>5, <1>15, <2>1, <2>2 DEF ThreadKill, End
  <2>3. CASE FreeEnds(t) = "run"
    <3> DEFINE link == Removed(next, h, t)
               head == RemovedHead(next, h, t)
    <3>1. /\ gThreadReadyHead' = head
          /\ next' = [link EXCEPT ![t] = NULL]
          /\ thread_state' = Killed(t)
          /\ gThreadRunningHead' = gThreadRunningHead
          /\ outcome' = outcome
      BY <1>15, <2>1, <2>3 DEF ThreadKill
    <3>2. /\ link \in Links /\ head \in Heads
          /\ OnChain(link, head) = chain \ {t} /\ WellLinked(link, head)
      BY <1>remove, <2>1
    <3> HIDE DEF link, head
    <3>3. OnChain(next', head) = chain \ {t} /\ WellLinked(next', head)
      BY <1>15, <3>1, <3>2, OffChain
    <3>4. thread_state' = [u \in Tids |-> IF u = t THEN "BLOCKED"
                                          ELSE thread_state[u]]
      BY <1>2, <3>1 DEF Killed
    <3>5. ready(thread_state') = chain \ {t}
      BY <1>2, <2>1, <3>4
    <3>6. runs(thread_state') = runs(thread_state)
      BY <1>2, <2>1, <3>4
    <3> QED BY <1>2, <1>3, <1>7, <1>15, <3>1, <3>3, <3>5, <3>6
  <2> QED BY <2>2, <2>3
<1> QED BY <1>6, <1>8, <1>9, <1>11, <1>12, <1>13, <1>14, <1>15
        DEF Next, Call, Ended

\* What the initial state establishes.
LEMMA InitFacts == Init => QueueInv /\ StacksApart /\ StacksHeld
<1> SUFFICES ASSUME Init PROVE QueueInv /\ StacksApart /\ StacksHeld
  OBVIOUS
<1>1. TypeOK
  BY DEF Init, TypeOK, States, Outcomes, Tids
<1>2. next \in Links /\ gThreadReadyHead = NULL
  BY DEF Init, Links
<1>3. OnChain(next, gThreadReadyHead) = {}
  BY <1>2, EmptyChain
<1>4. 0 \in Tids /\ gThreadRunningHead = 0 /\ 0 # NULL
  BY DEF Init, Tids
<1>5. QueueInv
  BY <1>1, <1>3, <1>4 DEF Init, QueueInv, QueueHoldsReady, WellLinked
<1> QED BY <1>5 DEF Init, StacksApart, StacksHeld, Live

\* QueueHoldsReady in every behaviour: the READY threads are the ones in the
\* linked list, so ThreadKill and ThreadYieldTo find the thread they look for.
THEOREM QueueCorrect == Spec => []QueueHoldsReady
<1>1. QueueInv => QueueHoldsReady
  BY DEF QueueInv
<1> QED BY <1>1, InitFacts, QueueStep, PTL DEF Spec

-----------------------------------------------------------------------------
(* The stacks. *)

\* Threads come alive only through ThreadCreate; a call without an undefined
\* free takes no stack away from a live thread.
LEMMA StacksStep == QueueInv /\ StacksApart /\ [Next]_vars => StacksApart'
<1> SUFFICES ASSUME QueueInv, StacksApart, [Next]_vars PROVE StacksApart'
  OBVIOUS
<1>1. /\ thread_state \in [Tids -> States]
      /\ ss_sp \in [Tids -> Addresses \cup {NULL}]
      /\ gThreadRunningHead \in Tids \cup {NULL}
      /\ gThreadReadyHead \in Tids \cup {NULL}
      /\ outcome = "run" => gThreadRunningHead # NULL
  BY DEF QueueInv, TypeOK
\* No thread comes alive and no stack of a live one is freed.
<1>2. ASSUME \A t \in Tids : Live(t)' => Live(t),
             ss_sp' = ss_sp,
             \A t \in Tids : Live(t)' /\ ss_sp[t] \in allocated => ss_sp[t] \in allocated'
      PROVE  StacksApart'
  BY <1>2 DEF StacksApart
<1>3. ASSUME UNCHANGED <<thread_state, ss_sp, allocated>> PROVE StacksApart'
  BY <1>2, <1>3 DEF Live
<1>4. ASSUME NEW how, End(how) PROVE StacksApart'
  BY <1>3, <1>4 DEF End, threads
<1>5. ASSUME outcome = "run", gThreadReadyHead # NULL
      PROVE  Live(gThreadReadyHead) /\ Live(gThreadRunningHead)
  <2>1. /\ next \in Links /\ gThreadReadyHead \in Heads
        /\ OnChain(next, gThreadReadyHead) = {t \in Tids : thread_state[t] = "READY"}
        /\ {t \in Tids : thread_state[t] = "RUNNING"} = {gThreadRunningHead} \ {NULL}
    BY DEF QueueInv, QueueHoldsReady, TypeOK, Links, Heads
  <2>2. gThreadReadyHead \in OnChain(next, gThreadReadyHead)
    BY <1>5, <2>1, ChainFacts
  <2> QED BY <1>1, <1>5, <2>1, <2>2 DEF Live
<1>6. ASSUME outcome = "run", ThreadExit PROVE StacksApart'
  <2>1. /\ gThreadReadyHead \in Tids /\ Live(gThreadReadyHead)
        /\ thread_state' = [Exited(gThreadRunningHead)
                                EXCEPT ![gThreadReadyHead] = "RUNNING"]
        /\ ss_sp' = ss_sp /\ allocated' = allocated
    BY <1>1, <1>5, <1>6 DEF ThreadExit
  <2>2. \A t \in Tids : Live(t)' => Live(t)
    BY <1>1, <2>1 DEF Live, Exited
  <2> QED BY <1>2, <2>1, <2>2
<1>7. ASSUME outcome = "run", ThreadExitLast PROVE StacksApart'
  <2>1. CASE FreeEnds(gThreadRunningHead) # "run"
    BY <1>4, <1>7, <2>1 DEF ThreadExitLast
  <2>2. CASE FreeEnds(gThreadRunningHead) = "run"
    <3>1. /\ thread_state' = Exited(gThreadRunningHead)
          /\ allocated' = allocated \ {ss_sp[gThreadRunningHead]}
          /\ ss_sp' = ss_sp
      BY <1>7, <2>2 DEF ThreadExitLast
    <3>2. gThreadRunningHead \in Tids /\ Live(gThreadRunningHead)
      <4>1. gThreadRunningHead \in {t \in Tids : thread_state[t] = "RUNNING"}
        BY <1>1, <1>7 DEF QueueInv, QueueHoldsReady
      <4> QED BY <4>1 DEF Live
    <3>3. \A t \in Tids : Live(t)' => Live(t) /\ t # gThreadRunningHead
      BY <1>1, <3>1 DEF Live, Exited
    <3>4. \A t \in Tids : Live(t)' => ss_sp[t] # ss_sp[gThreadRunningHead]
      BY <3>2, <3>3 DEF StacksApart
    <3> QED BY <1>2, <3>1, <3>3, <3>4
  <2> QED BY <2>1, <2>2
<1>8. ASSUME outcome = "run", NEW t \in Tids, NEW link, NEW head,
             thread_state[t] = "READY", SwitchTo(t, link, head)
      PROVE  StacksApart'
  <2>1. /\ thread_state' = [thread_state EXCEPT ![gThreadRunningHead] = "READY",
                                                ![t] = "RUNNING"]
        /\ ss_sp' = ss_sp /\ allocated' = allocated
    BY <1>8 DEF SwitchTo
  <2>2. gThreadRunningHead \in {u \in Tids : thread_state[u] = "RUNNING"}
    BY <1>1, <1>8 DEF QueueInv, QueueHoldsReady
  <2>3. \A u \in Tids : Live(u)' => Live(u)
    BY <1>1, <1>8, <2>1, <2>2 DEF Live
  <2> QED BY <1>2, <2>1, <2>3
<1>9. ASSUME outcome = "run", ThreadYield PROVE StacksApart'
  <2>1. /\ gThreadReadyHead # NULL
        /\ SwitchTo(gThreadReadyHead, next, next[gThreadReadyHead])
    BY <1>9 DEF ThreadYield
  <2>2. thread_state[gThreadReadyHead] = "READY"
    <3>1. /\ next \in Links /\ gThreadReadyHead \in Heads
          /\ OnChain(next, gThreadReadyHead) = {t \in Tids : thread_state[t] = "READY"}
      BY DEF QueueInv, QueueHoldsReady, TypeOK, Links, Heads
    <3> QED BY <2>1, <3>1, ChainFacts
  <2> QED BY <1>1, <1>8, <1>9, <2>1, <2>2
<1>10. ASSUME outcome = "run", NEW t \in Tids, ThreadYieldTo(t) PROVE StacksApart'
  <2>1. CASE NotFound(t)
    BY <1>4, <1>10, <2>1 DEF ThreadYieldTo
  <2>2. CASE ~ NotFound(t)
    BY <1>8, <1>10, <2>2 DEF ThreadYieldTo
  <2> QED BY <2>1, <2>2
\* A slot that is not in use frees its old stack without harm.
<1>11. ASSUME NEW t \in Tids, FreeEnds(t) = "run", thread_state[t] = "BLOCKED",
              NEW u \in Tids, Live(u)
       PROVE  /\ u # t
              /\ ss_sp[u] # NULL => ss_sp[u] \in OldStackFreed(t)
  BY <1>1, <1>11 DEF FreeEnds, OldStackFreed, Live, StacksApart
<1>12. ASSUME outcome = "run", NEW t \in Tids, ThreadCreate(t) PROVE StacksApart'
  <2>1. /\ thread_state[t] = "BLOCKED" /\ FreeEnds(t) = "run"
        /\ thread_state' = [thread_state EXCEPT ![t] = "READY"]
    BY <1>12 DEF ThreadCreate, IsNewTcb
  <2>2. PICK stack \in Addresses \ OldStackFreed(t) :
            /\ ss_sp' = [ss_sp EXCEPT ![t] = stack]
            /\ allocated' = OldStackFreed(t) \cup {stack}
    BY <1>12 DEF ThreadCreate
  <2>3. stack # NULL
    OBVIOUS
  <2>4. \A u \in Tids \ {t} : Live(u)' <=> Live(u)
    BY <1>1, <2>1 DEF Live
  <2>5. ss_sp'[t] = stack /\ \A u \in Tids \ {t} : ss_sp'[u] = ss_sp[u]
    BY <1>1, <2>2
  <2>6. ASSUME NEW u \in Tids \ {t}, Live(u)
        PROVE  /\ ss_sp[u] = NULL => u = 0
               /\ ss_sp[u] # NULL => ss_sp[u] \in allocated'
               /\ ss_sp[u] # stack
               /\ \A v \in Tids \ {u} : Live(v) => ss_sp[v] # ss_sp[u]
    BY <1>11, <2>1, <2>2, <2>3, <2>6 DEF StacksApart
  <2> QED BY <2>2, <2>3, <2>4, <2>5, <2>6 DEF StacksApart
<1>13. ASSUME outcome = "run", NEW t \in Tids, ThreadCreateNoMemory(t) PROVE StacksApart'
  <2>1. /\ thread_state[t] = "BLOCKED" /\ FreeEnds(t) = "run"
        /\ allocated' = OldStackFreed(t)
        /\ UNCHANGED <<thread_state, ss_sp>>
    BY <1>13 DEF ThreadCreateNoMemory, IsNewTcb, threads
  <2>2. \A u \in Tids : Live(u)' => Live(u)
    BY <2>1 DEF Live
  <2>3. \A u \in Tids : Live(u) /\ ss_sp[u] # NULL => ss_sp[u] \in allocated'
    BY <1>11, <2>1
  <2>4. ASSUME NEW u \in Tids, Live(u)', ss_sp[u] \in allocated
        PROVE  ss_sp[u] \in allocated'
    <3>1. ss_sp[u] # NULL
      BY <2>4 DEF QueueInv, TypeOK
    <3> QED BY <2>2, <2>3, <2>4, <3>1
  <2> QED BY <1>2, <2>1, <2>2, <2>4
<1>14. ASSUME outcome = "run", NEW t \in Tids, ThreadCreateUndefined(t) PROVE StacksApart'
  BY <1>4, <1>14 DEF ThreadCreateUndefined
<1>15. ASSUME outcome = "run", NEW t \in Tids, ThreadKill(t) PROVE StacksApart'
  <2>1. CASE NotFound(t) \/ FreeEnds(t) # "run"
    BY <1>4, <1>15, <2>1 DEF ThreadKill
  <2>2. CASE ~ NotFound(t) /\ FreeEnds(t) = "run"
    <3>1. /\ thread_state[t] = "READY" /\ thread_state' = Killed(t)
          /\ allocated' = allocated \ {ss_sp[t]}
          /\ ss_sp' = ss_sp
      BY <1>15, <2>2 DEF ThreadKill
    <3>2. \A u \in Tids : Live(u)' => Live(u) /\ u # t
      BY <1>1, <3>1 DEF Live, Killed
    <3>3. \A u \in Tids : Live(u)' => ss_sp[u] # ss_sp[t]
      BY <3>1, <3>2 DEF StacksApart, Live
    <3> QED BY <1>2, <3>1, <3>2, <3>3
  <2> QED BY <2>1, <2>2
<1>16. CASE UNCHANGED vars
  BY <1>3, <1>16 DEF vars, threads
<1> QED BY <1>6, <1>7, <1>9, <1>10, <1>12, <1>13, <1>14, <1>15, <1>16
        DEF Next, Call, Ended

\* StacksApart in every behaviour: until a pointer is freed that should not be,
\* no two threads that are alive run on the same stack.
THEOREM StacksCorrect == Spec => []StacksApart
  BY InitFacts, QueueStep, StacksStep, PTL DEF Spec

\* StacksHeld in every behaviour: the library leaks no stack.
THEOREM NoStackLeaked == Spec => []StacksHeld
<1>1. TypeOK /\ StacksHeld /\ [Next]_vars => StacksHeld'
  <2> SUFFICES ASSUME TypeOK, StacksHeld, [Next]_vars PROVE StacksHeld'
    OBVIOUS
  <2>1. ASSUME allocated' \subseteq allocated, ss_sp' = ss_sp PROVE StacksHeld'
    BY <2>1 DEF StacksHeld
  <2>2. ASSUME NEW t \in Tids, ThreadCreate(t) PROVE StacksHeld'
    <3>1. PICK stack \in Addresses \ OldStackFreed(t) :
            /\ ss_sp' = [ss_sp EXCEPT ![t] = stack]
            /\ allocated' = OldStackFreed(t) \cup {stack}
      BY <2>2 DEF ThreadCreate
    <3>2. ss_sp'[t] = stack /\ \A u \in Tids \ {t} : ss_sp'[u] = ss_sp[u]
      BY <3>1 DEF TypeOK
    <3>3. ASSUME NEW a \in OldStackFreed(t) PROVE \E u \in Tids \ {t} : ss_sp[u] = a
      BY <3>3 DEF OldStackFreed, StacksHeld
    <3> QED BY <3>1, <3>2, <3>3 DEF StacksHeld
  <2>3. ASSUME NEW how, End(how) PROVE StacksHeld'
    BY <2>1, <2>3 DEF End
  <2>4. ASSUME NEW t \in Tids, NEW link, NEW head, SwitchTo(t, link, head)
        PROVE  StacksHeld'
    BY <2>1, <2>4 DEF SwitchTo
  <2>5. ASSUME NEW t \in Tids, Call(t) PROVE StacksHeld'
    BY <2>1, <2>2, <2>3, <2>4, <2>5
       DEF Call, ThreadCreateNoMemory, OldStackFreed, ThreadCreateUndefined,
           ThreadKill, ThreadYieldTo
  <2>6. CASE ThreadExit
    BY <2>1, <2>6 DEF ThreadExit
  <2>7. CASE ThreadExitLast
    BY <2>1, <2>3, <2>7 DEF ThreadExitLast
  <2>8. CASE ThreadYield
    BY <2>1, <2>8 DEF ThreadYield, SwitchTo
  <2>9. CASE UNCHANGED vars
    BY <2>1, <2>9 DEF vars
  <2> QED BY <2>5, <2>6, <2>7, <2>8, <2>9 DEF Next, Ended
<1>2. QueueInv => TypeOK
  BY DEF QueueInv
<1> QED BY <1>1, <1>2, InitFacts, QueueStep, PTL DEF Spec

-----------------------------------------------------------------------------
(* The order of the ready queue.  The assumptions on the constants are not *)
(* used from here on unless they are cited: the arithmetic of places has   *)
(* no use for them.                                                        *)

HIDE ThreadsAssumption
HIDE AddressesAssumption
HIDE MallocAssumption

\* The chain from head along link is the sequence s.
InOrder(s, link, head) ==
    /\ s \in Seq(Tids)
    /\ \A i, j \in 1 .. Len(s) : s[i] = s[j] => i = j
    /\ head = IF Len(s) = 0 THEN NULL ELSE s[1]
    /\ \A i \in 1 .. Len(s) :
          link[s[i]] = IF i = Len(s) THEN NULL ELSE s[i + 1]

\* The number of places of a sequence.
LEMMA PlacesFacts ==
    ASSUME NEW n \in Nat PROVE Cardinality(1 .. n) = n
BY FS_Interval

\* A chain is no longer than the table of threads.
LEMMA OrderTypes ==
    ASSUME NEW s, NEW link, NEW head, InOrder(s, link, head)
    PROVE  /\ s \in Seq(Tids) /\ Len(s) \in Nat
           /\ MaxThreads \in Nat \ {0} /\ Len(s) <= MaxThreads
           /\ \A i \in 1 .. Len(s) : s[i] \in Tids /\ s[i] # NULL
           /\ head \in Heads
<1>1. s \in Seq(Tids) /\ MaxThreads \in Nat \ {0}
  BY ThreadsAssumption DEF InOrder
<1>2. Len(s) \in Nat /\ s \in [1 .. Len(s) -> Tids]
  BY <1>1
<1>3. \A i \in 1 .. Len(s) : s[i] \in Tids /\ s[i] # NULL
  BY <1>2, AddressesAssumption
<1>4. head \in Heads
  <2>1. Len(s) # 0 => 1 \in 1 .. Len(s)
    BY <1>2
  <2> QED BY <1>3, <2>1 DEF InOrder, Heads
<1>5. s \in Injection(1 .. Len(s), Tids)
  <2>1. \A i, j \in 1 .. Len(s) : s[i] = s[j] => i = j
    BY DEF InOrder
  <2> QED BY <1>2, <2>1 DEF Injection, IsInjective
<1>6. IsFiniteSet(Tids) /\ Cardinality(Tids) = MaxThreads
  <2>1. MaxThreads - 1 \in Int /\ ~ (0 > MaxThreads - 1) /\ (MaxThreads - 1) - 0 + 1 = MaxThreads
    BY <1>1
  <2> QED BY <2>1, FS_Interval DEF Tids
<1>7. Cardinality(1 .. Len(s)) <= Cardinality(Tids)
  BY <1>5, <1>6, FS_Injection
<1>8. Cardinality(1 .. Len(s)) = Len(s)
  <2>1. Len(s) \in Nat
    BY <1>2
  <2> QED BY <2>1, PlacesFacts
<1> QED BY <1>1, <1>2, <1>3, <1>4, <1>6, <1>7, <1>8

\* A set of numbers that is not empty has a least one.
LEMMA LeastFacts ==
    ASSUME NEW S \in SUBSET Nat, S # {}
    PROVE  \E x \in S : \A y \in S : ~ (y < x)
<1>1. IsWellFoundedOn(OpToRel(<, Nat), Nat)
  BY NatLessThanWellFounded
<1>2. \E x \in S : \A y \in S : ~ (<<y, x>> \in OpToRel(<, Nat))
  BY <1>1, WFMin
<1> QED BY <1>2 DEF OpToRel

\* The chain holds the threads of the sequence.
LEMMA ChainInOrder ==
    ASSUME NEW s, NEW link \in Links, NEW head, InOrder(s, link, head)
    PROVE  OnChain(link, head) = {s[i] : i \in 1 .. Len(s)}
<1> DEFINE C == OnChain(link, head)
           S == {s[i] : i \in 1 .. Len(s)}
           missed == {i \in 1 .. Len(s) : s[i] \notin C}
<1>1. /\ Len(s) \in Nat /\ head \in Heads
      /\ \A i \in 1 .. Len(s) : s[i] \in Tids /\ s[i] # NULL
  BY OrderTypes
<1>2. /\ head = IF Len(s) = 0 THEN NULL ELSE s[1]
      /\ \A i \in 1 .. Len(s) :
            link[s[i]] = IF i = Len(s) THEN NULL ELSE s[i + 1]
  BY DEF InOrder
<1>3. C \subseteq S
  <2>1. S \in SUBSET Tids
    BY <1>1
  <2>2. head \in S \cup {NULL}
    <3>1. Len(s) # 0 => 1 \in 1 .. Len(s)
      BY <1>1
    <3> QED BY <1>2, <3>1
  <2>3. ASSUME NEW p \in S PROVE link[p] \in S \cup {NULL}
    <3>1. PICK i \in 1 .. Len(s) : p = s[i]
      OBVIOUS
    <3>2. i # Len(s) => i + 1 \in 1 .. Len(s)
      BY <1>1
    <3> QED BY <1>2, <3>1, <3>2
  <2> HIDE DEF S
  <2> QED BY <1>1, <2>1, <2>2, <2>3, ChainFacts
<1>4. missed = {}
  <2> SUFFICES ASSUME missed # {} PROVE FALSE
    OBVIOUS
  <2>1. missed \subseteq Nat
    BY <1>1
  <2>2. PICK i \in missed : \A j \in missed : ~ (j < i)
    <3> HIDE DEF missed
    <3> QED BY <2>1, LeastFacts
  <2>3. i \in 1 .. Len(s) /\ s[i] \notin C
    OBVIOUS
  <2>4. head \in C \cup {NULL} /\ \A p \in C : link[p] \in C \cup {NULL}
    BY <1>1, ChainFacts
  <2>5. CASE i = 1
    <3>1. head = s[1] /\ s[1] # NULL
      BY <1>1, <1>2, <2>3, <2>5
    <3> QED BY <2>3, <2>4, <2>5, <3>1
  <2>6. CASE i # 1
    <3>1. i - 1 \in 1 .. Len(s) /\ i - 1 # Len(s) /\ i - 1 + 1 = i /\ i - 1 < i
      BY <1>1, <2>3, <2>6
    <3>2. s[i - 1] \in C
      BY <2>2, <3>1
    <3>3. link[s[i - 1]] = s[i]
      BY <1>2, <3>1
    <3> QED BY <1>1, <2>3, <2>4, <3>2, <3>3
  <2> QED BY <2>5, <2>6
<1>5. S \subseteq C
  BY <1>4
<1> QED BY <1>3, <1>5

\* A pointer of a thread that does not wait does not matter.
LEMMA OffOrder ==
    ASSUME NEW s, NEW link \in Links, NEW head, InOrder(s, link, head),
           NEW t \in Tids, t \notin OnChain(link, head)
    PROVE  InOrder(s, [link EXCEPT ![t] = NULL], head)
<1> DEFINE cut == [link EXCEPT ![t] = NULL]
<1>1. \A i \in 1 .. Len(s) : s[i] \in Tids /\ s[i] # t
  BY OrderTypes, ChainInOrder
<1>2. \A p \in Tids : p # t => cut[p] = link[p]
  BY DEF Links
<1> HIDE DEF cut
<1>3. InOrder(s, cut, head)
  BY <1>1, <1>2 DEF InOrder
<1> QED BY <1>3 DEF cut

\* The thread that is put at the end of the chain is the last of the sequence.
LEMMA AppendInOrder ==
    ASSUME NEW s, NEW link \in Links, NEW head, InOrder(s, link, head),
           NEW t \in Tids, t \notin OnChain(link, head)
    PROVE  InOrder(Append(s, t), Appended(link, head, t), AppendedHead(head, t))
<1> DEFINE L == Len(s)
           r == Append(s, t)
           new == Appended(link, head, t)
           front == AppendedHead(head, t)
<1>1. /\ s \in Seq(Tids) /\ L \in Nat
      /\ \A i \in 1 .. L : s[i] \in Tids /\ s[i] # NULL
  BY OrderTypes
<1>2. \A i \in 1 .. L : s[i] \in OnChain(link, head) /\ s[i] # t
  BY ChainInOrder
<1>3. /\ \A i, j \in 1 .. L : s[i] = s[j] => i = j
      /\ head = IF L = 0 THEN NULL ELSE s[1]
      /\ \A i \in 1 .. L : link[s[i]] = IF i = L THEN NULL ELSE s[i + 1]
  BY DEF InOrder
<1>4. /\ r \in Seq(Tids) /\ Len(r) = L + 1 /\ r[L + 1] = t
      /\ \A i \in 1 .. L : r[i] = s[i]
  BY <1>1
<1>5. new[t] = NULL
  BY DEF Appended
<1>6. ASSUME NEW i \in 1 .. L PROVE new[s[i]] = IF i = L THEN t ELSE s[i + 1]
  <2>1. new[s[i]] = IF link[s[i]] = NULL THEN t ELSE link[s[i]]
    BY <1>1, <1>2 DEF Appended, LastOf
  <2>2. i # L => i + 1 \in 1 .. L
    BY <1>1
  <2> QED BY <1>1, <1>3, <2>1, <2>2
<1>7. front = IF L = 0 THEN t ELSE s[1]
  <2>1. L # 0 => 1 \in 1 .. L
    BY <1>1
  <2> QED BY <1>1, <1>3, <2>1 DEF AppendedHead
<1> HIDE DEF L, r, new, front
<1>8. ASSUME NEW i \in 1 .. L + 1, NEW j \in 1 .. L + 1, r[i] = r[j] PROVE i = j
  <2>1. \A k \in 1 .. L + 1 : k = L + 1 \/ k \in 1 .. L
    BY <1>1
  <2> QED BY <1>2, <1>3, <1>4, <1>8, <2>1
<1>9. front = IF Len(r) = 0 THEN NULL ELSE r[1]
  <2>1. CASE L = 0
    BY <1>4, <1>7, <2>1
  <2>2. CASE L # 0
    <3>1. 1 \in 1 .. L /\ L + 1 # 0
      BY <1>1, <2>2
    <3> QED BY <1>4, <1>7, <2>2, <3>1
  <2> QED BY <2>1, <2>2
<1>10. ASSUME NEW i \in 1 .. L + 1
       PROVE  new[r[i]] = IF i = L + 1 THEN NULL ELSE r[i + 1]
  <2>1. CASE i = L + 1
    BY <1>4, <1>5, <2>1
  <2>2. CASE i # L + 1
    <3>1. i \in 1 .. L /\ (i # L => i + 1 \in 1 .. L)
      BY <1>1, <2>2
    <3>2. CASE i = L
      BY <1>4, <1>6, <2>2, <3>1, <3>2
    <3>3. CASE i # L
      BY <1>4, <1>6, <2>2, <3>1, <3>3
    <3> QED BY <3>2, <3>3
  <2> QED BY <2>1, <2>2
<1>11. InOrder(r, new, front)
  BY <1>4, <1>8, <1>9, <1>10 DEF InOrder
<1> QED BY <1>11 DEF r, new, front

\* r is s without its place k.
Without(s, k, r) ==
    /\ r \in Seq(Tids) /\ Len(r) = Len(s) - 1
    /\ \A i \in 1 .. Len(s) - 1 : r[i] = IF i < k THEN s[i] ELSE s[i + 1]

\* The thread that is taken out leaves the others in their order.
LEMMA RemoveInOrder ==
    ASSUME NEW s, NEW link \in Links, NEW head, InOrder(s, link, head),
           NEW k \in 1 .. Len(s), NEW r, Without(s, k, r)
    PROVE  InOrder(r, Removed(link, head, s[k]), RemovedHead(link, head, s[k]))
<1> DEFINE L == Len(s)
           t == s[k]
           new == Removed(link, head, t)
           front == RemovedHead(link, head, t)
           old(i) == IF i < k THEN i ELSE i + 1
<1>1. /\ s \in Seq(Tids) /\ L \in Nat /\ k \in 1 .. L /\ k \in Nat
      /\ \A i \in 1 .. L : s[i] \in Tids /\ s[i] # NULL
  BY OrderTypes
<1>2. OnChain(link, head) = {s[i] : i \in 1 .. L}
  BY ChainInOrder
<1>3. /\ \A i, j \in 1 .. L : s[i] = s[j] => i = j
      /\ head = s[1] /\ 1 \in 1 .. L
      /\ \A i \in 1 .. L : link[s[i]] = IF i = L THEN NULL ELSE s[i + 1]
  <2>1. 1 \in 1 .. L /\ L # 0
    BY <1>1
  <2> QED BY <2>1 DEF InOrder
<1>4. /\ r \in Seq(Tids) /\ Len(r) = L - 1
      /\ \A i \in 1 .. L - 1 : r[i] = s[old(i)]
  BY <1>1 DEF Without
<1>5. ASSUME NEW i \in 1 .. L - 1
      PROVE  old(i) \in 1 .. L /\ old(i) # k /\ i \in Nat /\ old(i) \in Nat
  BY <1>1
<1>6. head = t <=> k = 1
  BY <1>1, <1>3
<1>7. front = IF k = 1 THEN link[t] ELSE s[1]
  BY <1>3, <1>6 DEF RemovedHead
<1>8. link[t] = IF k = L THEN NULL ELSE s[k + 1]
  BY <1>1, <1>3
<1>9. ASSUME NEW i \in 1 .. L, i # k
      PROVE  new[s[i]] = IF i = k - 1 THEN link[t] ELSE link[s[i]]
  <2>1. s[i] \in OnChain(link, head) /\ s[i] \in Tids
    BY <1>1, <1>2
  <2>2. link[s[i]] = t <=> i = k - 1
    <3>1. CASE i = L
      BY <1>1, <1>3, <3>1
    <3>2. CASE i # L
      <4>1. i + 1 \in 1 .. L /\ (i + 1 = k <=> i = k - 1)
        BY <1>1, <3>2
      <4>2. link[s[i]] = s[i + 1]
        BY <1>3, <3>2
      <4>3. s[i + 1] = s[k] <=> i + 1 = k
        BY <1>1, <1>3, <4>1
      <4> QED BY <4>1, <4>2, <4>3
    <3> QED BY <3>1, <3>2
  <2>3. new[s[i]] = IF head # t /\ link[s[i]] = t THEN link[t] ELSE link[s[i]]
    BY <2>1 DEF Removed, Before
  <2>4. i = k - 1 => k # 1
    BY <1>1
  <2> HIDE DEF t, new
  <2> QED BY <1>6, <2>2, <2>3, <2>4
<1> HIDE DEF L, t, new, front
<1>10. ASSUME NEW i \in 1 .. L - 1, NEW j \in 1 .. L - 1, r[i] = r[j] PROVE i = j
  <2>1. old(i) = old(j)
    <3> HIDE DEF old
    <3> QED BY <1>3, <1>4, <1>5, <1>10
  <2>2. i \in Nat /\ j \in Nat
    BY <1>5
  <2> QED BY <1>1, <2>1, <2>2
<1>11. front = IF Len(r) = 0 THEN NULL ELSE r[1]
  <2>1. CASE L = 1
    <3>1. k = 1 /\ k = L
      BY <1>1, <2>1
    <3> QED BY <1>4, <1>7, <1>8, <2>1, <3>1
  <2>2. CASE L # 1
    <3>1. 1 \in 1 .. L - 1 /\ L - 1 # 0
      BY <1>1, <2>2
    <3>2. r[1] = s[old(1)]
      BY <1>4, <3>1
    <3>3. CASE k = 1
      <4>1. old(1) = k + 1 /\ k # L
        BY <1>1, <2>2, <3>3
      <4> QED BY <1>4, <1>7, <1>8, <3>1, <3>2, <3>3, <4>1
    <3>4. CASE k # 1
      <4>1. old(1) = 1
        BY <1>1, <3>4
      <4> QED BY <1>4, <1>7, <3>1, <3>2, <3>4, <4>1
    <3> QED BY <3>3, <3>4
  <2> QED BY <2>1, <2>2
<1>12. ASSUME NEW i \in 1 .. L - 1
       PROVE  new[r[i]] = IF i = L - 1 THEN NULL ELSE r[i + 1]
  <2>1. r[i] = s[old(i)] /\ old(i) \in 1 .. L /\ old(i) # k
    BY <1>4, <1>5
  <2>2. new[s[old(i)]] = IF old(i) = k - 1 THEN link[t] ELSE link[s[old(i)]]
    <3> HIDE DEF old
    <3> QED BY <1>9, <2>1
  <2>3. link[s[old(i)]] = IF old(i) = L THEN NULL ELSE s[old(i) + 1]
    <3> HIDE DEF old
    <3> QED BY <1>3, <2>1
  <2>4. i \in Nat
    BY <1>5
  <2>5. CASE i < k - 1
    <3>1. /\ old(i) = i /\ i # k - 1 /\ i # L /\ i # L - 1
          /\ i + 1 \in 1 .. L - 1 /\ old(i + 1) = i + 1
      BY <1>1, <2>4, <2>5
    <3>2. r[i + 1] = s[i + 1]
      BY <1>4, <3>1
    <3> HIDE DEF old
    <3> QED BY <2>1, <2>2, <2>3, <3>1, <3>2
  <2>6. CASE i = k - 1
    <3>1. old(i) = k - 1 /\ (i = L - 1 <=> k = L)
      BY <1>1, <2>4, <2>6
    <3>2. k # L => r[i + 1] = s[k + 1]
      <4>1. k # L => i + 1 \in 1 .. L - 1 /\ old(i + 1) = k + 1
        BY <1>1, <2>4, <2>6
      <4> HIDE DEF old
      <4> QED BY <1>4, <4>1
    <3> HIDE DEF old
    <3> QED BY <1>8, <2>1, <2>2, <3>1, <3>2
  <2>7. CASE i > k - 1
    <3>1. old(i) = i + 1 /\ old(i) # k - 1 /\ (old(i) = L <=> i = L - 1)
      BY <1>1, <2>4, <2>7
    <3>2. i # L - 1 => r[i + 1] = s[old(i) + 1]
      <4>1. i # L - 1 => i + 1 \in 1 .. L - 1 /\ old(i + 1) = old(i) + 1
        BY <1>1, <2>4, <2>7
      <4> HIDE DEF old
      <4> QED BY <1>4, <4>1
    <3> HIDE DEF old
    <3> QED BY <2>1, <2>2, <2>3, <3>1, <3>2
  <2> QED BY <1>1, <2>4, <2>5, <2>6, <2>7
<1>13. InOrder(r, new, front)
  BY <1>4, <1>10, <1>11, <1>12 DEF InOrder
<1> QED BY <1>13 DEF new, front, t

\* The walk meets the threads of the sequence in order, and NULL from there on.
LEMMA WalkFacts ==
    ASSUME NEW s, InOrder(s, next, gThreadReadyHead)
    PROVE  \A k \in 1 .. MaxThreads : Walk[k] = IF k <= Len(s) THEN s[k] ELSE NULL
<1> DEFINE L == Len(s)
           walk == [k \in 1 .. MaxThreads |-> IF k <= L THEN s[k] ELSE NULL]
           IsWalk(f) == f = [k \in 1 .. MaxThreads |->
                                IF k = 1 THEN gThreadReadyHead
                                ELSE IF f[k - 1] = NULL THEN NULL
                                ELSE next[f[k - 1]]]
<1>1. /\ L \in Nat /\ MaxThreads \in Nat
      /\ \A i \in 1 .. L : s[i] \in Tids /\ s[i] # NULL
  BY OrderTypes
<1>2. /\ gThreadReadyHead = IF L = 0 THEN NULL ELSE s[1]
      /\ \A i \in 1 .. L : next[s[i]] = IF i = L THEN NULL ELSE s[i + 1]
  BY DEF InOrder
<1>3. ASSUME NEW k \in 1 .. MaxThreads
      PROVE  walk[k] = IF k = 1 THEN gThreadReadyHead
                       ELSE IF walk[k - 1] = NULL THEN NULL ELSE next[walk[k - 1]]
  <2> HIDE DEF L
  <2>1. CASE k = 1
    BY <1>1, <1>2, <2>1
  <2>2. CASE k # 1 /\ k <= L
    <3>1. /\ k - 1 \in 1 .. MaxThreads /\ k - 1 \in 1 .. L /\ k - 1 # L
          /\ k - 1 <= L /\ k - 1 + 1 = k
      BY <1>1, <2>2
    <3>2. walk[k - 1] = s[k - 1] /\ s[k - 1] # NULL /\ next[s[k - 1]] = s[k]
      BY <1>1, <1>2, <3>1
    <3> QED BY <2>2, <3>2
  <2>3. CASE k # 1 /\ k = L + 1
    <3>1. k - 1 \in 1 .. MaxThreads /\ k - 1 \in 1 .. L /\ k - 1 = L /\ k - 1 <= L /\ ~ (k <= L)
      BY <1>1, <2>3
    <3>2. walk[k - 1] = s[k - 1] /\ s[k - 1] # NULL /\ next[s[k - 1]] = NULL
      BY <1>1, <1>2, <3>1
    <3> QED BY <2>3, <3>1, <3>2
  <2>4. CASE k # 1 /\ k > L + 1
    <3>1. k - 1 \in 1 .. MaxThreads /\ ~ (k - 1 <= L) /\ ~ (k <= L)
      BY <1>1, <2>4
    <3> QED BY <2>4, <3>1
  <2> QED BY <1>1, <2>1, <2>2, <2>3, <2>4
<1>4. walk = [k \in 1 .. MaxThreads |-> walk[k]]
  OBVIOUS
<1> HIDE DEF walk, L
<1>5. IsWalk(walk)
  <2>1. [k \in 1 .. MaxThreads |-> walk[k]] =
            [k \in 1 .. MaxThreads |-> IF k = 1 THEN gThreadReadyHead
                                       ELSE IF walk[k - 1] = NULL THEN NULL
                                       ELSE next[walk[k - 1]]]
    BY <1>3
  <2> QED BY <1>4, <2>1
<1>6. ASSUME NEW f, IsWalk(f) PROVE f = walk
  <2>1. \A k \in 1 .. MaxThreads :
            f[k] = IF k = 1 THEN gThreadReadyHead
                   ELSE IF f[k - 1] = NULL THEN NULL ELSE next[f[k - 1]]
    BY <1>6
  <2> DEFINE wrong == {k \in 1 .. MaxThreads : f[k] # walk[k]}
  <2>2. wrong = {}
    <3> SUFFICES ASSUME wrong # {} PROVE FALSE
      OBVIOUS
    <3>1. wrong \in SUBSET Nat
      BY <1>1
    <3>2. PICK k \in wrong : \A j \in wrong : ~ (j < k)
      <4> HIDE DEF wrong
      <4> QED BY <3>1, LeastFacts
    <3>3. k \in 1 .. MaxThreads /\ f[k] # walk[k]
      OBVIOUS
    <3>4. k # 1
      BY <1>3, <2>1, <3>3
    <3>5. k - 1 \in 1 .. MaxThreads /\ k - 1 < k
      BY <1>1, <3>3, <3>4
    <3>6. f[k - 1] = walk[k - 1]
      BY <3>2, <3>5
    <3> QED BY <1>3, <2>1, <3>3, <3>4, <3>6
  <2>3. f = [k \in 1 .. MaxThreads |-> f[k]]
    BY <1>6
  <2> QED BY <1>4, <2>2, <2>3
<1>7. Walk = CHOOSE f : IsWalk(f)
  BY DEF Walk
<1> HIDE DEF IsWalk
<1>8. Walk = walk
  BY <1>5, <1>6, <1>7
<1> QED BY <1>8 DEF walk, L

\* The links hold one sequence only, which the walk reads.
OneOrder == \A s : InOrder(s, next, gThreadReadyHead) => Waiting = s

\* The walk reads the sequence of the links.
LEMMA Reading == OneOrder
<1> SUFFICES ASSUME NEW s, InOrder(s, next, gThreadReadyHead) PROVE Waiting = s
  BY DEF OneOrder
<1>1. /\ s \in Seq(Tids) /\ Len(s) \in Nat /\ MaxThreads \in Nat /\ Len(s) <= MaxThreads
      /\ \A i \in 1 .. Len(s) : s[i] # NULL
  BY OrderTypes
<1>2. \A k \in 1 .. MaxThreads : Walk[k] = IF k <= Len(s) THEN s[k] ELSE NULL
  BY WalkFacts
<1>3. {k \in 1 .. MaxThreads : Walk[k] # NULL} = 1 .. Len(s)
  BY <1>1, <1>2
<1>4. Cardinality(1 .. Len(s)) = Len(s)
  <2>1. Len(s) \in Nat
    BY <1>1
  <2> QED BY <2>1, PlacesFacts
<1>5. Waiting = [k \in 1 .. Len(s) |-> Walk[k]]
  BY <1>3, <1>4 DEF Waiting
<1>6. \A k \in 1 .. Len(s) : Walk[k] = s[k]
  BY <1>1, <1>2
<1>7. s = [k \in 1 .. Len(s) |-> s[k]]
  BY <1>1
<1>8. [k \in 1 .. Len(s) |-> Walk[k]] = [k \in 1 .. Len(s) |-> s[k]]
  BY <1>6
<1> QED BY <1>5, <1>7, <1>8

\* The places of two sequences one behind the other.
LEMMA ConcatFacts ==
    ASSUME NEW S, NEW a \in Seq(S), NEW b \in Seq(S)
    PROVE  /\ a \o b \in Seq(S) /\ Len(a \o b) = Len(a) + Len(b)
           /\ \A i \in 1 .. Len(a) + Len(b) :
                (a \o b)[i] = IF i <= Len(a) THEN a[i] ELSE b[i - Len(a)]
OBVIOUS

\* RemoveFirst takes out the only place of its argument.
LEMMA RemoveFirstFacts ==
    ASSUME NEW s \in Seq(Tids), NEW k \in 1 .. Len(s),
           \A i, j \in 1 .. Len(s) : s[i] = s[j] => i = j
    PROVE  Without(s, k, Scheduler!RemoveFirst(s, s[k]))
<1> DEFINE front == SubSeq(s, 1, k - 1)
           back == SubSeq(s, k + 1, Len(s))
<1>1. Len(s) \in Nat /\ k \in Nat /\ 1 <= k /\ k <= Len(s)
  OBVIOUS
<1>2. {i \in 1 .. Len(s) : s[i] = s[k]} = {k}
  OBVIOUS
<1>3. Scheduler!Min({k}) = k
  BY <1>1 DEF Scheduler!Min
<1>4. Scheduler!RemoveFirst(s, s[k]) = Scheduler!RemoveAt(s, k)
  BY <1>2, <1>3 DEF Scheduler!RemoveFirst, Scheduler!SelectInSeq
<1>5. Scheduler!RemoveAt(s, k) = front \o back
  BY DEF Scheduler!RemoveAt
<1>6. /\ front \in Seq(Tids) /\ Len(front) = k - 1
      /\ \A i \in 1 .. k - 1 : front[i] = s[i]
  BY <1>1
<1>7. /\ back \in Seq(Tids) /\ Len(back) = Len(s) - k
      /\ \A i \in 1 .. Len(s) - k : back[i] = s[i + k]
  BY <1>1
<1> HIDE DEF front, back
<1>8. /\ front \o back \in Seq(Tids)
      /\ Len(front \o back) = Len(front) + Len(back)
      /\ \A i \in 1 .. Len(front) + Len(back) :
            (front \o back)[i] = IF i <= Len(front) THEN front[i] ELSE back[i - Len(front)]
  <2>1. front \in Seq(Tids) /\ back \in Seq(Tids)
    BY <1>6, <1>7
  <2> QED BY <2>1, ConcatFacts
<1>9. Len(front) + Len(back) = Len(s) - 1
  BY <1>1, <1>6, <1>7
<1>10. ASSUME NEW i \in 1 .. Len(s) - 1
       PROVE  (front \o back)[i] = IF i < k THEN s[i] ELSE s[i + 1]
  <2>1. CASE i < k
    <3>1. i \in 1 .. k - 1 /\ i <= Len(front)
      BY <1>1, <1>6, <2>1
    <3> QED BY <1>6, <1>8, <1>9, <2>1, <3>1
  <2>2. CASE ~ (i < k)
    <3>1. /\ ~ (i <= Len(front)) /\ i - Len(front) \in 1 .. Len(s) - k
          /\ i - Len(front) + k = i + 1
      BY <1>1, <1>6, <2>2
    <3>2. (front \o back)[i] = back[i - Len(front)]
      BY <1>8, <1>9, <3>1
    <3> QED BY <1>7, <2>2, <3>1, <3>2
  <2> QED BY <2>1, <2>2
<1> QED BY <1>4, <1>5, <1>8, <1>9, <1>10 DEF Without

\* The invariant: QueueInv, and the links are those of the sequence they are
\* read as.
OrderInv == QueueInv /\ InOrder(Waiting, next, gThreadReadyHead)

\* Every call does to the sequence what the abstract scheduler does.
LEMMA OrderStep ==
    ASSUME OrderInv, OneOrder', QueueInv', [Next]_vars
    PROVE  OrderInv' /\ [Scheduler!SchedNext]_(Scheduler!schedulerVars)
<1> DEFINE w == Waiting
           h == gThreadReadyHead
           r == gThreadRunningHead
           chain == OnChain(next, h)
           Goal == OrderInv' /\ [Scheduler!SchedNext]_(Scheduler!schedulerVars)
<1>1. /\ InOrder(w, next, h)
      /\ next \in Links /\ h \in Heads /\ r \in Heads
      /\ thread_state \in [Tids -> States]
      /\ chain = {t \in Tids : thread_state[t] = "READY"}
      /\ outcome = "run" => r \in Tids /\ r \notin chain
  <2>1. InOrder(w, next, h)
    BY DEF OrderInv
  <2>2. /\ next \in Links /\ h \in Heads /\ r \in Heads
        /\ thread_state \in [Tids -> States]
    BY DEF OrderInv, QueueInv, TypeOK, Links, Heads
  <2>3. /\ chain = {t \in Tids : thread_state[t] = "READY"}
        /\ {t \in Tids : thread_state[t] = "RUNNING"} = {r} \ {NULL}
        /\ outcome = "run" => r # NULL
    BY DEF OrderInv, QueueInv, QueueHoldsReady
  <2>4. r # NULL => r \in Tids /\ r \notin chain
    BY <2>2, <2>3 DEF Heads
  <2> QED BY <2>1, <2>2, <2>3, <2>4
<1>2. /\ w \in Seq(Tids) /\ Len(w) \in Nat
      /\ \A i \in 1 .. Len(w) : w[i] \in Tids /\ w[i] # NULL
      /\ \A i, j \in 1 .. Len(w) : w[i] = w[j] => i = j
      /\ h = IF Len(w) = 0 THEN NULL ELSE w[1]
      /\ chain = {w[i] : i \in 1 .. Len(w)}
  <2>1. /\ w \in Seq(Tids) /\ Len(w) \in Nat
        /\ \A i \in 1 .. Len(w) : w[i] \in Tids /\ w[i] # NULL
    BY <1>1, OrderTypes
  <2>2. /\ \A i, j \in 1 .. Len(w) : w[i] = w[j] => i = j
        /\ h = IF Len(w) = 0 THEN NULL ELSE w[1]
    BY <1>1 DEF InOrder
  <2>3. chain = {w[i] : i \in 1 .. Len(w)}
    BY <1>1, ChainInOrder
  <2> QED BY <2>1, <2>2, <2>3
<1>3. \A t : Scheduler!Contains(w, t) <=> t \in chain
  BY <1>2 DEF Scheduler!Contains
<1>4. ASSUME NEW s, InOrder(s, next', gThreadReadyHead')
      PROVE  Waiting' = s /\ OrderInv'
  BY <1>4 DEF OneOrder, OrderInv
\* The sequence without a thread of it.
<1>5. ASSUME NEW t \in chain
      PROVE  /\ InOrder(Scheduler!RemoveFirst(w, t), Removed(next, h, t),
                        RemovedHead(next, h, t))
             /\ Removed(next, h, t) \in Links /\ RemovedHead(next, h, t) \in Heads
             /\ OnChain(Removed(next, h, t), RemovedHead(next, h, t)) = chain \ {t}
  <2>1. PICK k \in 1 .. Len(w) : t = w[k]
    BY <1>2
  <2>2. Without(w, k, Scheduler!RemoveFirst(w, w[k]))
    BY <1>2, RemoveFirstFacts
  <2>3. InOrder(Scheduler!RemoveFirst(w, w[k]), Removed(next, h, w[k]),
                RemovedHead(next, h, w[k]))
    BY <1>1, <2>2, RemoveInOrder
  <2>4. WellLinked(next, h)
    BY DEF OrderInv, QueueInv
  <2>5. t \in OnChain(next, h)
    BY <1>5
  <2> QED BY <1>1, <2>1, <2>3, <2>4, <2>5, RemoveFacts
\* What is left to show of a step that changes no queue.
<1>6. ASSUME UNCHANGED threads, outcome = "exit" <=> outcome' = "exit"
      PROVE  OrderInv' /\ UNCHANGED Scheduler!schedulerVars
  <2>1. InOrder(w, next', gThreadReadyHead')
    BY <1>1, <1>6 DEF threads
  <2>2. Waiting' = w /\ OrderInv'
    BY <1>4, <2>1
  <2> QED BY <1>6, <2>2 DEF threads, Scheduler!schedulerVars
<1>7. ASSUME NEW t PROVE FreeEnds(t) # "exit"
  BY DEF FreeEnds
<1>8. ASSUME UNCHANGED vars PROVE Goal
  BY <1>6, <1>8 DEF vars
\* The head of the queue, and the queue behind it.
<1>9. ASSUME h # NULL
      PROVE  /\ w # << >> /\ Head(w) = h /\ h \in chain
             /\ Scheduler!RemoveFirst(w, h) = Tail(w)
             /\ InOrder(Tail(w), next, next[h])
             /\ next[h] \in Heads
             /\ OnChain(next, next[h]) = chain \ {h}
  <2>1. Len(w) # 0 /\ 1 \in 1 .. Len(w) /\ h = w[1] /\ h \in chain
    BY <1>2, <1>9
  <2>2. w # << >> /\ Head(w) = h
    BY <1>2, <2>1
  <2>3. /\ Removed(next, h, h) = next
        /\ RemovedHead(next, h, h) = next[h]
    BY <1>1 DEF Removed, RemovedHead, Links
  <2>4. Without(w, 1, Scheduler!RemoveFirst(w, h))
    BY <1>2, <2>1, RemoveFirstFacts
  <2>5. Scheduler!RemoveFirst(w, h) = Tail(w)
    <3> DEFINE q == Scheduler!RemoveFirst(w, h)
    <3>1. /\ q \in Seq(Tids) /\ Len(q) = Len(w) - 1
          /\ \A i \in 1 .. Len(w) - 1 : q[i] = w[i + 1]
      <4> HIDE DEF q
      <4>1. \A i \in 1 .. Len(w) - 1 : ~ (i < 1)
        BY <1>2
      <4> QED BY <2>4, <4>1 DEF Without, q
    <3>2. /\ Tail(w) \in Seq(Tids) /\ Len(Tail(w)) = Len(w) - 1
          /\ \A i \in 1 .. Len(w) - 1 : Tail(w)[i] = w[i + 1]
      BY <1>2, <2>1, <2>2
    <3> HIDE DEF q
    <3>3. q = [i \in 1 .. Len(w) - 1 |-> q[i]]
      BY <3>1
    <3>4. Tail(w) = [i \in 1 .. Len(w) - 1 |-> Tail(w)[i]]
      <4> DEFINE u == Tail(w)
      <4>1. u \in Seq(Tids) /\ Len(u) = Len(w) - 1
        BY <3>2
      <4> HIDE DEF u
      <4>2. u = [i \in 1 .. Len(w) - 1 |-> u[i]]
        BY <4>1
      <4> QED BY <4>2 DEF u
    <3>5. [i \in 1 .. Len(w) - 1 |-> q[i]] = [i \in 1 .. Len(w) - 1 |-> Tail(w)[i]]
      BY <3>1, <3>2
    <3>6. q = Tail(w)
      BY <3>3, <3>4, <3>5
    <3> QED BY <3>6 DEF q
  <2>6. /\ InOrder(Scheduler!RemoveFirst(w, h), Removed(next, h, h), RemovedHead(next, h, h))
        /\ RemovedHead(next, h, h) \in Heads
        /\ OnChain(Removed(next, h, h), RemovedHead(next, h, h)) = chain \ {h}
    BY <1>5, <2>1
  <2> QED BY <2>1, <2>2, <2>3, <2>5, <2>6
<1> HIDE DEF chain
\* The running thread goes to the end, and t runs.
<1>10. ASSUME NEW t \in chain, NEW link \in Links, NEW head \in Heads,
              InOrder(Scheduler!RemoveFirst(w, t), link, head),
              OnChain(link, head) = chain \ {t},
              SwitchTo(t, link, head), outcome = "run"
       PROVE  OrderInv' /\ Scheduler!YieldTo(t)
  <2>1. r \in Tids /\ r \notin OnChain(link, head)
    BY <1>1, <1>10
  <2>2. InOrder(Append(Scheduler!RemoveFirst(w, t), r), Appended(link, head, r),
                AppendedHead(head, r))
    BY <1>10, <2>1, AppendInOrder
  <2>3. Waiting' = Append(Scheduler!RemoveFirst(w, t), r) /\ OrderInv'
    BY <1>4, <1>10, <2>2 DEF SwitchTo
  <2>4. Scheduler!Contains(w, t)
    BY <1>3
  <2> QED BY <1>10, <2>3, <2>4 DEF SwitchTo, Scheduler!YieldTo
<1>11. ASSUME outcome = "run", ThreadExit PROVE OrderInv' /\ Scheduler!Exit
  <2>1. /\ w # << >> /\ Head(w) = h /\ h \in chain
        /\ InOrder(Tail(w), next, next[h]) /\ next[h] \in Heads
        /\ OnChain(next, next[h]) = chain \ {h}
    BY <1>9, <1>11 DEF ThreadExit
  <2>2. r \in Tids /\ r \notin OnChain(next, next[h])
    BY <1>1, <1>11, <2>1
  <2>3. InOrder(Tail(w), [next EXCEPT ![r] = NULL], next[h])
    BY <1>1, <2>1, <2>2, OffOrder
  <2>4. Waiting' = Tail(w) /\ OrderInv'
    BY <1>4, <1>11, <2>3 DEF ThreadExit
  <2> QED BY <1>11, <2>1, <2>4 DEF ThreadExit, Scheduler!Exit
<1>12. ASSUME outcome = "run", ThreadExitLast
       PROVE  OrderInv' /\ (Scheduler!Exit \/ UNCHANGED Scheduler!schedulerVars)
  <2>1. CASE FreeEnds(r) = "run"
    <3>1. w = << >> /\ h = NULL
      BY <1>2, <1>12 DEF ThreadExitLast
    <3>2. InOrder(w, [next EXCEPT ![r] = NULL], h)
      BY <1>1, <1>12, OffOrder DEF chain
    <3>3. Waiting' = w /\ OrderInv'
      BY <1>4, <1>12, <2>1, <3>2 DEF ThreadExitLast
    <3> QED BY <1>12, <2>1, <3>1, <3>3 DEF ThreadExitLast, Scheduler!Exit
  <2>2. CASE FreeEnds(r) # "run"
    <3>1. FreeEnds(r) # "exit"
      BY <1>7
    <3>2. UNCHANGED threads /\ outcome' = FreeEnds(r)
      BY <1>12, <2>2 DEF ThreadExitLast, End
    <3> QED BY <1>6, <1>12, <3>1, <3>2
  <2> QED BY <2>1, <2>2
<1>13. ASSUME outcome = "run", ThreadYield PROVE OrderInv' /\ Scheduler!Yield
  <2>1. /\ w # << >> /\ Head(w) = h /\ h \in chain
        /\ InOrder(Scheduler!RemoveFirst(w, h), next, next[h])
        /\ next[h] \in Heads
        /\ OnChain(next, next[h]) = chain \ {h}
    BY <1>9, <1>13 DEF ThreadYield
  <2>2. OrderInv' /\ Scheduler!YieldTo(h)
    BY <1>1, <1>10, <1>13, <2>1 DEF ThreadYield
  <2> QED BY <2>1, <2>2 DEF Scheduler!Yield
<1>14. ASSUME outcome = "run", NEW t \in Tids, ThreadCreate(t)
       PROVE  OrderInv' /\ Scheduler!Create(t)
  <2>1. thread_state[t] = "BLOCKED" /\ t \notin chain
    BY <1>1, <1>14 DEF ThreadCreate, IsNewTcb
  <2>2. t # r
    <3>1. {u \in Tids : thread_state[u] = "RUNNING"} = {r} \ {NULL}
      BY DEF OrderInv, QueueInv, QueueHoldsReady
    <3> QED BY <2>1, <3>1, AddressesAssumption
  <2>3. ~ Scheduler!Alive(t)
    BY <1>3, <2>1, <2>2 DEF Scheduler!Alive
  <2>4. InOrder(Append(w, t), Appended(next, h, t), AppendedHead(h, t))
    BY <1>1, <2>1, AppendInOrder DEF chain
  <2>5. Waiting' = Append(w, t) /\ OrderInv'
    BY <1>4, <1>14, <2>4 DEF ThreadCreate
  <2> QED BY <1>14, <2>3, <2>5 DEF ThreadCreate, Scheduler!Create
<1>15. ASSUME outcome = "run", NEW t \in Tids,
              ThreadCreateNoMemory(t) \/ ThreadCreateUndefined(t)
       PROVE  OrderInv' /\ UNCHANGED Scheduler!schedulerVars
  <2>1. CASE ThreadCreateNoMemory(t)
    BY <1>6, <2>1 DEF ThreadCreateNoMemory
  <2>2. CASE ThreadCreateUndefined(t)
    <3>1. FreeEnds(t) # "exit"
      BY <1>7
    <3>2. UNCHANGED threads /\ outcome' = FreeEnds(t)
      BY <2>2 DEF ThreadCreateUndefined, End
    <3> QED BY <1>6, <1>15, <3>1, <3>2
  <2> QED BY <1>15, <2>1, <2>2
<1>16. ASSUME outcome = "run", NEW t \in Tids, ThreadKill(t)
       PROVE  OrderInv' /\ (Scheduler!Kill(t) \/ UNCHANGED Scheduler!schedulerVars)
  <2>1. t \in chain /\ ~ NotFound(t)
    BY <1>1, <1>16 DEF ThreadKill, NotFound, chain
  <2>2. CASE FreeEnds(t) # "run"
    <3>1. FreeEnds(t) # "exit"
      BY <1>7
    <3>2. UNCHANGED threads /\ outcome' = FreeEnds(t)
      BY <1>16, <2>1, <2>2 DEF ThreadKill, End
    <3> QED BY <1>6, <1>16, <3>1, <3>2
  <2>3. CASE FreeEnds(t) = "run"
    <3>1. InOrder(Scheduler!RemoveFirst(w, t),
                  [Removed(next, h, t) EXCEPT ![t] = NULL], RemovedHead(next, h, t))
      BY <1>5, <2>1, OffOrder
    <3>2. Waiting' = Scheduler!RemoveFirst(w, t) /\ OrderInv'
      BY <1>4, <1>16, <2>1, <2>3, <3>1 DEF ThreadKill
    <3>3. Scheduler!Contains(w, t)
      BY <1>3, <2>1
    <3> QED BY <1>16, <2>1, <2>3, <3>2, <3>3 DEF ThreadKill, Scheduler!Kill
  <2> QED BY <2>2, <2>3
<1>17. ASSUME outcome = "run", NEW t \in Tids, ThreadYieldTo(t)
       PROVE  OrderInv' /\ Scheduler!YieldTo(t)
  <2>1. t \in chain /\ ~ NotFound(t)
    BY <1>1, <1>17 DEF ThreadYieldTo, NotFound, chain
  <2>2. SwitchTo(t, Removed(next, h, t), RemovedHead(next, h, t))
    BY <1>17, <2>1 DEF ThreadYieldTo
  <2> QED BY <1>5, <1>10, <1>17, <2>1, <2>2
\* The program has not ended before a call.
<1>18. ASSUME outcome = "run", OrderInv',
              \/ Scheduler!Exit
              \/ Scheduler!Yield
              \/ \E t \in Tids :
                    \/ Scheduler!Create(t)
                    \/ Scheduler!Kill(t)
                    \/ Scheduler!YieldTo(t)
       PROVE  Goal
  BY <1>18 DEF Scheduler!SchedNext
<1>19. ASSUME OrderInv', UNCHANGED Scheduler!schedulerVars PROVE Goal
  BY <1>19
<1> HIDE DEF Goal
<1>20. ASSUME Ended PROVE Goal
  BY <1>8, <1>20 DEF Ended
<1>21. ASSUME outcome = "run", NEW t \in Tids, Call(t) PROVE Goal
  <2>1. CASE ThreadCreate(t)
    BY <1>14, <1>18, <1>21, <2>1
  <2>2. CASE ThreadCreateNoMemory(t) \/ ThreadCreateUndefined(t)
    BY <1>15, <1>19, <1>21, <2>2
  <2>3. CASE ThreadKill(t)
    BY <1>16, <1>18, <1>19, <1>21, <2>3
  <2>4. CASE ThreadYieldTo(t)
    BY <1>17, <1>18, <1>21, <2>4
  <2> QED BY <1>21, <2>1, <2>2, <2>3, <2>4 DEF Call
<1>22. ASSUME outcome = "run", ThreadExit PROVE Goal
  BY <1>11, <1>18, <1>22
<1>23. ASSUME outcome = "run", ThreadExitLast PROVE Goal
  BY <1>12, <1>18, <1>19, <1>23
<1>24. ASSUME outcome = "run", ThreadYield PROVE Goal
  BY <1>13, <1>18, <1>24
<1>25. Goal
  BY <1>8, <1>20, <1>21, <1>22, <1>23, <1>24 DEF Next
<1> QED BY <1>25 DEF Goal

\* ImplementsScheduler in every behaviour: the list of ready threads and the
\* calls that change it are the abstract queue and its operations.
THEOREM SchedulerCorrect == Spec => ImplementsScheduler
<1>1. Init => OrderInv /\ Scheduler!SchedInit
  <2> SUFFICES ASSUME Init PROVE OrderInv /\ Scheduler!SchedInit
    OBVIOUS
  <2>1. InOrder(<< >>, next, gThreadReadyHead)
    BY DEF Init, InOrder
  <2>2. Waiting = << >>
    BY <2>1, Reading DEF OneOrder
  <2>3. OrderInv
    BY <2>1, <2>2, InitFacts DEF OrderInv
  <2>4. Scheduler!SchedInit
    BY <2>2 DEF Init, Scheduler!SchedInit
  <2> QED BY <2>3, <2>4
<1>2. OrderInv /\ QueueInv' /\ OneOrder' /\ [Next]_vars
        => OrderInv' /\ [Scheduler!SchedNext]_(Scheduler!schedulerVars)
  BY OrderStep
<1>3. OrderInv => QueueInv
  BY DEF OrderInv
<1> QED BY <1>1, <1>2, <1>3, InitFacts, QueueStep, Reading,
           PTL DEF Spec, ImplementsScheduler, Scheduler!SchedSpec
=============================================================================
