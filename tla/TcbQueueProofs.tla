--------------------------- MODULE TcbQueueProofs ---------------------------
(***************************************************************************)
(* Proofs about TcbQueue, for any finite set of TCBs and any queues: the   *)
(* links mirror each other, and the queues behave as the sequences of      *)
(* FifoQueues.                                                             *)
(***************************************************************************)
EXTENDS TcbQueue, TLAPS, WellFoundedInduction, FiniteSetTheorems

\* What the links h, n and p say when the queues hold the sequences c.
Distinct(c) ==
    \A q, r \in Queues : \A i \in 1 .. Len(c[q]), j \in 1 .. Len(c[r]) :
        c[q][i] = c[r][j] => q = r /\ i = j
Free(c, t) == \A q \in Queues : \A i \in 1 .. Len(c[q]) : c[q][i] # t
Links == [Tcbs -> Tcbs \cup {NULL}]
Linked(c, h, n, p) ==
    /\ h \in [Queues -> Tcbs \cup {NULL}] /\ n \in Links /\ p \in Links
    /\ c \in [Queues -> Seq(Tcbs)]
    /\ Distinct(c)
    /\ \A q \in Queues : h[q] = IF c[q] = << >> THEN NULL ELSE c[q][1]
    /\ \A q \in Queues : \A i \in 1 .. Len(c[q]) :
          /\ n[c[q][i]] = IF i = Len(c[q]) THEN NULL ELSE c[q][i + 1]
          /\ p[c[q][i]] = IF i = 1 THEN NULL ELSE c[q][i - 1]
    /\ \A t \in Tcbs : Free(c, t) => n[t] = NULL /\ p[t] = NULL

\* The inductive invariant: the links are those of the sequences a walk reads.
LinkInv == Linked(Contents, head, next, prev) /\ returned \in Tcbs \cup {NULL}

-----------------------------------------------------------------------------
(* The walk. *)

\* There are no more places in a queue than TCBs.
LEMMA QueueFits ==
    ASSUME NEW c, NEW h, NEW n, NEW p, Linked(c, h, n, p), NEW q \in Queues
    PROVE  MAX_THREADS \in Nat /\ Len(c[q]) \in Nat /\ Len(c[q]) <= MAX_THREADS
<1>1. c[q] \in Seq(Tcbs)
  BY DEF Linked
<1>2. Len(c[q]) \in Nat /\ c[q] \in [1 .. Len(c[q]) -> Tcbs]
  BY <1>1
<1>3. c[q] \in Injection(1 .. Len(c[q]), Tcbs)
  <2>1. \A i, j \in 1 .. Len(c[q]) : c[q][i] = c[q][j] => i = j
    BY DEF Linked, Distinct
  <2> QED BY <1>2, <2>1 DEF Injection, IsInjective
<1>4. Cardinality(1 .. Len(c[q])) <= Cardinality(Tcbs)
  BY <1>3, TcbsAssumption, FS_Injection
<1>5. Cardinality(1 .. Len(c[q])) = Len(c[q])
  BY <1>2, FS_Interval
<1>6. Cardinality(Tcbs) \in Nat
  BY TcbsAssumption, FS_CardinalityType
<1> QED BY <1>2, <1>4, <1>5, <1>6 DEF MAX_THREADS

\* The walk meets the threads of the sequence in order, and NULL from there on.
LEMMA WalkFacts ==
    ASSUME NEW c, Linked(c, head, next, prev), NEW q \in Queues
    PROVE  Nodes(q) = [i \in 1 .. MAX_THREADS |->
                        IF i <= Len(c[q]) THEN c[q][i] ELSE NULL]
<1> DEFINE walk == [i \in 1 .. MAX_THREADS |-> IF i <= Len(c[q]) THEN c[q][i] ELSE NULL]
           Walk(f) == f = [i \in 1 .. MAX_THREADS |->
                            IF i = 1 THEN head[q]
                            ELSE IF f[i - 1] = NULL THEN NULL ELSE next[f[i - 1]]]
<1>1. /\ MAX_THREADS \in Nat /\ Len(c[q]) \in Nat /\ Len(c[q]) <= MAX_THREADS
      /\ c[q] \in Seq(Tcbs)
      /\ \A i \in 1 .. Len(c[q]) : c[q][i] \in Tcbs /\ c[q][i] # NULL
  <2>1. MAX_THREADS \in Nat /\ Len(c[q]) \in Nat /\ Len(c[q]) <= MAX_THREADS
    BY QueueFits
  <2>2. c[q] \in Seq(Tcbs)
    BY DEF Linked
  <2> QED BY <2>1, <2>2, TcbsAssumption
<1>2. Walk(walk)
  <2> SUFFICES ASSUME NEW i \in 1 .. MAX_THREADS
               PROVE  walk[i] = IF i = 1 THEN head[q]
                                ELSE IF walk[i - 1] = NULL THEN NULL
                                     ELSE next[walk[i - 1]]
    OBVIOUS
  <2>1. CASE i = 1
    BY <1>1, <2>1 DEF Linked
  <2>2. CASE i # 1
    <3>1. i - 1 \in 1 .. MAX_THREADS /\ i \in Nat /\ i - 1 + 1 = i
      BY <1>1, <2>2
    <3>2. CASE i <= Len(c[q])
      <4>1. i - 1 \in 1 .. Len(c[q]) /\ i - 1 # Len(c[q])
        BY <1>1, <2>2, <3>2
      <4>2. next[c[q][i - 1]] = c[q][i]
        <5>1. next[c[q][i - 1]] = IF i - 1 = Len(c[q]) THEN NULL ELSE c[q][i - 1 + 1]
          BY <4>1 DEF Linked
        <5> QED BY <3>1, <4>1, <5>1
      <4> QED BY <1>1, <2>2, <3>1, <3>2, <4>1, <4>2
    <3>3. CASE i > Len(c[q])
      <4>1. CASE i - 1 > Len(c[q])
        BY <1>1, <2>2, <3>1, <3>3, <4>1
      <4>2. CASE i - 1 = Len(c[q])
        <5>1. next[c[q][i - 1]] = NULL /\ i - 1 \in 1 .. Len(c[q])
          BY <3>1, <4>2 DEF Linked
        <5> QED BY <1>1, <2>2, <3>1, <3>3, <4>2, <5>1
      <4> QED BY <1>1, <3>1, <3>3, <4>1, <4>2
    <3> QED BY <1>1, <3>2, <3>3
  <2> QED BY <2>1, <2>2
<1>3. ASSUME NEW f, Walk(f) PROVE f = walk
  <2>1. \A i \in 1 .. MAX_THREADS :
            f[i] = IF i = 1 THEN head[q]
                   ELSE IF f[i - 1] = NULL THEN NULL ELSE next[f[i - 1]]
    BY <1>3
  <2>2. \A i \in 1 .. MAX_THREADS :
            walk[i] = IF i = 1 THEN head[q]
                   ELSE IF walk[i - 1] = NULL THEN NULL ELSE next[walk[i - 1]]
    BY <1>2
  <2> DEFINE wrong == {i \in 1 .. MAX_THREADS : f[i] # walk[i]}
  <2>3. f = [i \in 1 .. MAX_THREADS |-> f[i]] /\ walk = [i \in 1 .. MAX_THREADS |-> walk[i]]
    BY <1>3
  <2> HIDE DEF walk
  <2>4. wrong = {}
    <3> SUFFICES ASSUME wrong # {} PROVE FALSE
      OBVIOUS
    <3>1. IsWellFoundedOn(OpToRel(<, Nat), Nat)
      BY NatLessThanWellFounded
    <3>2. wrong \subseteq Nat
      BY <1>1
    <3>3. \E x \in wrong : \A y \in wrong : ~ (<<y, x>> \in OpToRel(<, Nat))
      <4> HIDE DEF wrong
      <4> QED BY <3>1, <3>2, WFMin
    <3>4. PICK x \in wrong : \A y \in wrong : ~ (y < x)
      BY <3>2, <3>3 DEF OpToRel
    <3>5. x \in 1 .. MAX_THREADS /\ f[x] # walk[x]
      OBVIOUS
    <3>6. x # 1
      BY <2>1, <2>2, <3>5
    <3>7. x - 1 \in 1 .. MAX_THREADS /\ x - 1 < x
      BY <1>1, <3>5, <3>6
    <3>8. f[x - 1] = walk[x - 1]
      BY <3>4, <3>7
    <3> QED BY <2>1, <2>2, <3>5, <3>6, <3>8
  <2> QED BY <2>3, <2>4
<1>4. Nodes(q) = CHOOSE f : Walk(f)
  BY DEF Nodes
<1> HIDE DEF Walk, walk
<1>5. Nodes(q) = walk
  BY <1>2, <1>3, <1>4
<1> QED BY <1>5 DEF walk

\* So the walk reads the sequence, and Met is the set of its threads.
LEMMA ReadFacts ==
    ASSUME NEW c, Linked(c, head, next, prev)
    PROVE  /\ Contents = c
           /\ \A q \in Queues : Met(q) = {c[q][i] : i \in 1 .. Len(c[q])}
<1>1. ASSUME NEW q \in Queues
      PROVE  /\ Met(q) = {c[q][i] : i \in 1 .. Len(c[q])}
             /\ AsSequence(q) = c[q]
  <2>1. /\ MAX_THREADS \in Nat /\ Len(c[q]) \in Nat /\ Len(c[q]) <= MAX_THREADS
        /\ c[q] \in Seq(Tcbs)
        /\ \A i \in 1 .. Len(c[q]) : c[q][i] \in Tcbs /\ c[q][i] # NULL
    <3>1. MAX_THREADS \in Nat /\ Len(c[q]) \in Nat /\ Len(c[q]) <= MAX_THREADS
      BY QueueFits
    <3>2. c[q] \in Seq(Tcbs)
      BY DEF Linked
    <3> QED BY <3>1, <3>2, TcbsAssumption
  <2>2. \A i \in 1 .. MAX_THREADS :
            Nodes(q)[i] = IF i <= Len(c[q]) THEN c[q][i] ELSE NULL
    <3>1. Nodes(q) = [i \in 1 .. MAX_THREADS |->
                        IF i <= Len(c[q]) THEN c[q][i] ELSE NULL]
      BY WalkFacts
    <3> QED BY <3>1
  <2>3. \A i \in 1 .. MAX_THREADS :
            /\ Nodes(q)[i] # NULL <=> i \in 1 .. Len(c[q])
            /\ i \in 1 .. Len(c[q]) => Nodes(q)[i] = c[q][i]
    BY <2>1, <2>2
  <2>4. 1 .. Len(c[q]) \subseteq 1 .. MAX_THREADS
    BY <2>1
  <2>5. Met(q) = {c[q][i] : i \in 1 .. Len(c[q])}
    BY <2>1, <2>3, <2>4 DEF Met
  <2>6. {i \in 1 .. MAX_THREADS : Nodes(q)[i] # NULL} = 1 .. Len(c[q])
    BY <2>3, <2>4
  <2>7. Length(q) = Len(c[q])
    <3>1. Cardinality(1 .. Len(c[q])) = Len(c[q])
      <4>1. Len(c[q]) \in Nat
        BY <2>1
      <4> QED BY <4>1, FS_Interval
    <3> QED BY <2>6, <3>1 DEF Length
  <2>8. AsSequence(q) = [i \in 1 .. Len(c[q]) |-> c[q][i]]
    BY <2>3, <2>4, <2>7 DEF AsSequence
  <2> QED BY <2>1, <2>5, <2>8
<1>2. c = [q \in Queues |-> c[q]]
  BY DEF Linked
<1> QED BY <1>1, <1>2 DEF Contents

\* The links hold one contents only, which the walk reads.
OneReading ==
    \A c : Linked(c, head, next, prev) =>
        /\ Contents = c
        /\ \A q \in Queues : Met(q) = {c[q][i] : i \in 1 .. Len(c[q])}

\* The same as a formula without hypotheses.
LEMMA Reading == OneReading
BY ReadFacts DEF OneReading

-----------------------------------------------------------------------------
(* Linking and unlinking. *)

\* What Queue_Enqueue makes of the links.
Appends(c, h, n, p, q, t, h2, n2, p2) ==
    /\ h2 \in [Queues -> Tcbs \cup {NULL}] /\ n2 \in Links /\ p2 \in Links
    /\ \A r \in Queues : h2[r] = IF r = q /\ Len(c[q]) = 0 THEN t ELSE h[r]
    /\ \A x \in Tcbs :
          /\ n2[x] = IF x = t THEN NULL
                     ELSE IF Len(c[q]) # 0 /\ x = c[q][Len(c[q])] THEN t ELSE n[x]
          /\ p2[x] = IF x # t THEN p[x]
                     ELSE IF Len(c[q]) = 0 THEN NULL ELSE c[q][Len(c[q])]

\* A free TCB that is linked behind the last one ends the sequence.
LEMMA AppendFacts ==
    ASSUME NEW c, NEW h, NEW n, NEW p, Linked(c, h, n, p),
           NEW q \in Queues, NEW t \in Tcbs, Free(c, t),
           NEW h2, NEW n2, NEW p2, Appends(c, h, n, p, q, t, h2, n2, p2)
    PROVE  Linked([c EXCEPT ![q] = Append(@, t)], h2, n2, p2)
<1> DEFINE L == Len(c[q])
           d == [c EXCEPT ![q] = Append(@, t)]
<1>1. c \in [Queues -> Seq(Tcbs)] /\ c[q] \in Seq(Tcbs) /\ L \in Nat
  BY DEF Linked
<1>2. /\ d \in [Queues -> Seq(Tcbs)]
      /\ \A r \in Queues \ {q} : d[r] = c[r]
      /\ Len(d[q]) = L + 1 /\ d[q][L + 1] = t
      /\ \A i \in 1 .. L : d[q][i] = c[q][i]
  <2>1. d[q] = Append(c[q], t)
    BY <1>1
  <2>2. /\ Append(c[q], t) \in Seq(Tcbs) /\ Len(Append(c[q], t)) = L + 1
        /\ Append(c[q], t)[L + 1] = t
        /\ \A i \in 1 .. L : Append(c[q], t)[i] = c[q][i]
    BY <1>1
  <2>3. d \in [Queues -> Seq(Tcbs)] /\ \A r \in Queues \ {q} : d[r] = c[r]
    BY <1>1, <2>2
  <2> QED BY <2>1, <2>2, <2>3
<1>3. \A r \in Queues : \A i \in 1 .. Len(c[r]) : c[r][i] \in Tcbs /\ c[r][i] # t
  BY <1>1 DEF Free
<1> HIDE DEF d, L
<1>4. ASSUME NEW r \in Queues, NEW i \in 1 .. Len(d[r])
      PROVE  \/ r = q /\ i = L + 1 /\ d[r][i] = t
             \/ i \in 1 .. Len(c[r]) /\ d[r][i] = c[r][i]
  <2>1. CASE r # q
    BY <1>2, <2>1
  <2>2. CASE r = q /\ i = L + 1
    BY <1>2, <2>2
  <2>3. CASE r = q /\ i # L + 1
    BY <1>1, <1>2, <2>3 DEF L
  <2> QED BY <2>1, <2>2, <2>3
<1>5. Distinct(d)
  <2> SUFFICES ASSUME NEW r \in Queues, NEW s \in Queues,
                      NEW i \in 1 .. Len(d[r]), NEW j \in 1 .. Len(d[s]),
                      d[r][i] = d[s][j]
               PROVE  r = s /\ i = j
    BY DEF Distinct
  <2>1. CASE d[r][i] = t
    <3>1. r = q /\ i = L + 1
      BY <1>3, <1>4, <2>1
    <3>2. s = q /\ j = L + 1
      BY <1>3, <1>4, <2>1
    <3> QED BY <3>1, <3>2
  <2>2. CASE d[r][i] # t
    <3>1. i \in 1 .. Len(c[r]) /\ d[r][i] = c[r][i]
      BY <1>4, <2>2
    <3>2. j \in 1 .. Len(c[s]) /\ d[s][j] = c[s][j]
      BY <1>4, <2>2
    <3>3. c[r][i] = c[s][j]
      BY <3>1, <3>2
    <3>4. Distinct(c)
      BY DEF Linked
    <3> QED BY <3>1, <3>2, <3>3, <3>4 DEF Distinct
  <2> QED BY <2>1, <2>2
<1>6. ASSUME NEW r \in Queues
      PROVE  h2[r] = IF d[r] = << >> THEN NULL ELSE d[r][1]
  <2>1. h[r] = IF c[r] = << >> THEN NULL ELSE c[r][1]
    BY DEF Linked
  <2>2. h2[r] = IF r = q /\ L = 0 THEN t ELSE h[r]
    BY DEF Appends, L
  <2>3. CASE r # q
    BY <1>2, <2>1, <2>2, <2>3
  <2>4. CASE r = q
    <3>1. d[q] # << >>
      BY <1>1, <1>2
    <3>2. CASE L = 0
      BY <1>2, <2>2, <2>4, <3>1, <3>2
    <3>3. CASE L # 0
      <4>1. 1 \in 1 .. L /\ c[q] # << >>
        BY <1>1, <3>3 DEF L
      <4> QED BY <1>2, <2>1, <2>2, <2>4, <3>1, <3>3, <4>1
    <3> QED BY <3>2, <3>3
  <2> QED BY <2>3, <2>4
<1>7. ASSUME NEW r \in Queues, NEW i \in 1 .. Len(d[r])
      PROVE  /\ n2[d[r][i]] = IF i = Len(d[r]) THEN NULL ELSE d[r][i + 1]
             /\ p2[d[r][i]] = IF i = 1 THEN NULL ELSE d[r][i - 1]
  <2>1. CASE d[r][i] = t
    <3>1. r = q /\ i = L + 1
      BY <1>3, <1>4, <2>1
    <3>2. n2[t] = NULL /\ p2[t] = IF L = 0 THEN NULL ELSE c[q][L]
      BY DEF Appends, L
    <3>3. L # 0 => d[q][L] = c[q][L]
      BY <1>1, <1>2
    <3>4. L + 1 - 1 = L /\ (L + 1 = 1 <=> L = 0)
      BY <1>1
    <3>5. i = Len(d[r]) /\ (i = 1 <=> L = 0)
      BY <1>2, <3>1, <3>4
    <3>6. d[r][i - 1] = d[q][L]
      <4>1. i - 1 = L
        BY <1>1, <3>1
      <4> QED BY <3>1, <4>1
    <3>7. n2[d[r][i]] = NULL
      BY <2>1, <3>2
    <3>8. p2[d[r][i]] = IF i = 1 THEN NULL ELSE d[r][i - 1]
      BY <2>1, <3>2, <3>3, <3>5, <3>6
    <3> QED BY <3>5, <3>7, <3>8
  <2>2. CASE d[r][i] # t
    <3> DEFINE x == c[r][i]
    <3>1. i \in 1 .. Len(c[r]) /\ d[r][i] = x
      BY <1>4, <2>2
    <3>2. /\ n[x] = IF i = Len(c[r]) THEN NULL ELSE c[r][i + 1]
          /\ p[x] = IF i = 1 THEN NULL ELSE c[r][i - 1]
      BY <3>1 DEF Linked
    <3>3. x \in Tcbs /\ x # t
      BY <1>3, <3>1
    <3>4. /\ n2[x] = IF L # 0 /\ x = c[q][L] THEN t ELSE n[x]
          /\ p2[x] = p[x]
      BY <3>3 DEF Appends, L
    <3>5. i \in Nat /\ Len(c[r]) \in Nat
      BY <1>1, <3>1
    <3>6. i # 1 => d[r][i - 1] = c[r][i - 1]
      <4>1. i # 1 => i - 1 \in 1 .. Len(c[r])
        BY <3>1, <3>5
      <4> QED BY <1>2, <4>1 DEF L
    <3>7. x = c[q][L] /\ L # 0 <=> r = q /\ i = L
      <4>1. L # 0 => L \in 1 .. Len(c[q])
        BY <1>1 DEF L
      <4>2. r = q /\ i = L => L # 0
        BY <3>1, <3>5
      <4>3. ASSUME x = c[q][L], L # 0 PROVE r = q /\ i = L
        BY <3>1, <4>1, <4>3 DEF Linked, Distinct
      <4> QED BY <4>2, <4>3
    <3> HIDE DEF x
    <3>8. CASE r = q /\ i = L
      <4>1. n2[x] = t
        BY <3>4, <3>7, <3>8
      <4>2. i # L + 1
        BY <1>1, <3>8
      <4> QED BY <1>2, <3>1, <3>2, <3>4, <3>6, <3>8, <4>1, <4>2
    <3>9. CASE ~ (r = q /\ i = L)
      <4>1. n2[x] = n[x]
        BY <3>4, <3>7, <3>9
      <4>2. i # Len(c[r]) => i # Len(d[r]) /\ d[r][i + 1] = c[r][i + 1]
        <5>1. i # Len(c[r]) => i + 1 \in 1 .. Len(c[r])
          BY <3>1, <3>5
        <5>2. CASE r # q
          BY <1>2, <5>2
        <5>3. CASE r = q
          <6>1. i # L /\ i \in 1 .. L /\ i + 1 \in 1 .. L
            BY <3>9, <3>1, <5>1, <5>3 DEF L
          <6>2. i # L + 1
            BY <1>1, <6>1
          <6> QED BY <1>2, <5>3, <6>1, <6>2
        <5> QED BY <5>2, <5>3
      <4>3. i = Len(c[r]) => i = Len(d[r])
        BY <1>2, <3>9 DEF L
      <4> QED BY <3>1, <3>2, <3>4, <3>6, <4>1, <4>2, <4>3
    <3> QED BY <3>8, <3>9
  <2> QED BY <2>1, <2>2
<1>8. ASSUME NEW x \in Tcbs, Free(d, x) PROVE n2[x] = NULL /\ p2[x] = NULL
  <2>1. x # t
    <3>1. L + 1 \in 1 .. Len(d[q])
      BY <1>1, <1>2
    <3> QED BY <1>2, <1>8, <3>1 DEF Free
  <2>2. Free(c, x)
    <3> SUFFICES ASSUME NEW r \in Queues, NEW i \in 1 .. Len(c[r]) PROVE c[r][i] # x
      BY DEF Free
    <3>1. i \in 1 .. Len(d[r]) /\ d[r][i] = c[r][i]
      <4>1. CASE r # q
        BY <1>2, <4>1
      <4>2. CASE r = q
        BY <1>1, <1>2, <4>2 DEF L
      <4> QED BY <4>1, <4>2
    <3> QED BY <1>8, <3>1 DEF Free
  <2>3. n[x] = NULL /\ p[x] = NULL
    BY <2>2 DEF Linked
  <2>4. L # 0 => x # c[q][L]
    <3>1. L # 0 => L \in 1 .. Len(c[q])
      BY <1>1 DEF L
    <3> QED BY <2>2, <3>1 DEF Free
  <2> QED BY <2>1, <2>3, <2>4 DEF Appends, L
<1>9. Linked(d, h2, n2, p2)
  BY <1>2, <1>5, <1>6, <1>7, <1>8 DEF Linked, Appends
<1> QED BY <1>9 DEF d

\* What Queue_Remove makes of the links.
Unlinks(h, n, p, q, t, h2, n2, p2) ==
    /\ h2 \in [Queues -> Tcbs \cup {NULL}] /\ n2 \in Links /\ p2 \in Links
    /\ \A r \in Queues : h2[r] = IF r = q /\ p[t] = NULL THEN n[t] ELSE h[r]
    /\ \A x \in Tcbs :
          /\ n2[x] = IF x = t THEN NULL ELSE IF x = p[t] THEN n[t] ELSE n[x]
          /\ p2[x] = IF x = t THEN NULL ELSE IF x = n[t] THEN p[t] ELSE p[x]

\* s2 is s without its place k.
Without(s, k, s2) ==
    /\ s2 \in Seq(Tcbs) /\ Len(s2) = Len(s) - 1
    /\ \A i \in 1 .. Len(s) - 1 : s2[i] = IF i < k THEN s[i] ELSE s[i + 1]

\* A TCB that is unlinked leaves the others of its queue in their order.
LEMMA UnlinkFacts ==
    ASSUME NEW c, NEW h, NEW n, NEW p, Linked(c, h, n, p),
           NEW q \in Queues, NEW k \in 1 .. Len(c[q]), NEW s, Without(c[q], k, s),
           NEW h2, NEW n2, NEW p2, Unlinks(h, n, p, q, c[q][k], h2, n2, p2)
    PROVE  Linked([c EXCEPT ![q] = s], h2, n2, p2)
<1> DEFINE L == Len(c[q])
           t == c[q][k]
           d == [c EXCEPT ![q] = s]
           old(r, i) == IF r = q /\ k <= i THEN i + 1 ELSE i
<1>1. /\ c \in [Queues -> Seq(Tcbs)] /\ c[q] \in Seq(Tcbs) /\ L \in Nat /\ k \in 1 .. L
      /\ \A r \in Queues : \A i \in 1 .. Len(c[r]) : c[r][i] \in Tcbs /\ c[r][i] # NULL
      /\ \A r \in Queues : Len(c[r]) \in Nat
  BY TcbsAssumption DEF Linked
<1>2. /\ d \in [Queues -> Seq(Tcbs)]
      /\ \A r \in Queues \ {q} : d[r] = c[r]
      /\ Len(d[q]) = L - 1
      /\ \A i \in 1 .. L - 1 : d[q][i] = IF i < k THEN c[q][i] ELSE c[q][i + 1]
  BY <1>1 DEF Without
<1>3. t \in Tcbs /\ t # NULL
  BY <1>1
<1>4. /\ n[t] = IF k = L THEN NULL ELSE c[q][k + 1]
      /\ p[t] = IF k = 1 THEN NULL ELSE c[q][k - 1]
  BY <1>1 DEF Linked
<1>5. /\ \A r \in Queues : h2[r] = IF r = q /\ p[t] = NULL THEN n[t] ELSE h[r]
      /\ \A x \in Tcbs :
          /\ n2[x] = IF x = t THEN NULL ELSE IF x = p[t] THEN n[t] ELSE n[x]
          /\ p2[x] = IF x = t THEN NULL ELSE IF x = n[t] THEN p[t] ELSE p[x]
  BY DEF Unlinks
<1>6. \A r, u \in Queues : \A i \in 1 .. Len(c[r]), j \in 1 .. Len(c[u]) :
        c[r][i] = c[u][j] => r = u /\ i = j
  BY DEF Linked, Distinct
<1> HIDE DEF d, t
<1>7. ASSUME NEW r \in Queues, NEW i \in 1 .. Len(d[r])
      PROVE  /\ old(r, i) \in 1 .. Len(c[r])
             /\ d[r][i] = c[r][old(r, i)]
             /\ d[r][i] # t /\ d[r][i] \in Tcbs
             /\ ~ (r = q /\ old(r, i) = k)
  <2>1. i \in Nat /\ k \in Nat
    BY <1>1, <1>2
  <2>2. /\ old(r, i) \in 1 .. Len(c[r])
        /\ d[r][i] = c[r][old(r, i)]
        /\ ~ (r = q /\ old(r, i) = k)
    <3>1. CASE r # q
      BY <1>2, <3>1
    <3>2. CASE r = q
      <4>1. i \in 1 .. L - 1
        BY <1>2, <3>2
      <4> QED BY <1>1, <1>2, <2>1, <3>2, <4>1
    <3> QED BY <3>1, <3>2
  <2> HIDE DEF old
  <2>3. d[r][i] # t
    BY <1>1, <1>6, <2>2 DEF t
  <2> QED BY <1>1, <2>2, <2>3
<1>8. Distinct(d)
  <2> SUFFICES ASSUME NEW r \in Queues, NEW u \in Queues,
                      NEW i \in 1 .. Len(d[r]), NEW j \in 1 .. Len(d[u]),
                      d[r][i] = d[u][j]
               PROVE  r = u /\ i = j
    BY DEF Distinct
  <2>1. r = u /\ old(r, i) = old(u, j)
    <3> HIDE DEF old
    <3>1. /\ old(r, i) \in 1 .. Len(c[r]) /\ old(u, j) \in 1 .. Len(c[u])
          /\ c[r][old(r, i)] = c[u][old(u, j)]
      BY <1>7
    <3> QED BY <1>6, <3>1
  <2>2. i \in Nat /\ j \in Nat /\ k \in Nat
    BY <1>1, <1>2
  <2> QED BY <2>1, <2>2
<1>9. ASSUME NEW r \in Queues
      PROVE  h2[r] = IF d[r] = << >> THEN NULL ELSE d[r][1]
  <2>1. h[r] = IF c[r] = << >> THEN NULL ELSE c[r][1]
    BY DEF Linked
  <2>2. CASE r # q
    BY <1>2, <1>5, <2>1, <2>2
  <2>3. CASE r = q /\ k = 1
    <3>1. p[t] = NULL /\ h2[r] = n[t]
      BY <1>4, <1>5, <2>3
    <3>2. CASE L = 1
      <4>1. Len(d[q]) = 0
        BY <1>2, <3>2
      <4>2. d[q] = << >>
        BY <1>2, <4>1
      <4> QED BY <1>4, <2>3, <3>1, <3>2, <4>2
    <3>3. CASE L # 1
      <4>1. 1 \in 1 .. L - 1 /\ 1 + 1 = k + 1 /\ ~ (1 < k)
        <5>1. L \in Nat \ {0}
          BY <1>1
        <5>2. 1 \in 1 .. L - 1
          <6>1. ASSUME NEW m \in Nat \ {0}, m # 1 PROVE 1 \in 1 .. m - 1
            BY <6>1
          <6> HIDE DEF L
          <6> QED BY <3>3, <5>1, <6>1
        <5> QED BY <2>3, <5>2
      <4>2. d[q][1] = c[q][k + 1] /\ d[q] # << >>
        <5>1. d[q][1] = c[q][k + 1]
          BY <1>2, <2>3, <4>1
        <5>2. Len(d[q]) # 0
          BY <1>1, <1>2, <3>3
        <5> QED BY <5>1, <5>2
      <4> QED BY <1>4, <2>3, <3>1, <3>3, <4>2
    <3> QED BY <3>2, <3>3
  <2>4. CASE r = q /\ k # 1
    <3>1. /\ k \in Nat /\ 1 \in 1 .. L - 1 /\ 1 < k /\ k - 1 \in 1 .. L
      BY <1>1, <2>4
    <3>2. p[t] # NULL
      BY <1>1, <1>4, <2>4, <3>1
    <3>3. d[q][1] = c[q][1] /\ Len(d[q]) # 0 /\ Len(c[q]) # 0
      <4>1. d[q][1] = c[q][1]
        BY <1>2, <3>1
      <4> QED BY <1>1, <1>2, <3>1, <4>1
    <3>4. d[q] # << >> /\ c[q] # << >>
      BY <3>3
    <3> QED BY <1>5, <2>1, <2>4, <3>2, <3>3, <3>4
  <2> QED BY <2>2, <2>3, <2>4
<1>10. ASSUME NEW r \in Queues, NEW i \in 1 .. Len(d[r])
       PROVE  /\ n2[d[r][i]] = IF i = Len(d[r]) THEN NULL ELSE d[r][i + 1]
              /\ p2[d[r][i]] = IF i = 1 THEN NULL ELSE d[r][i - 1]
  <2> DEFINE o == old(r, i)
             x == d[r][i]
  <2>1. o \in 1 .. Len(c[r]) /\ x = c[r][o] /\ x # t /\ x \in Tcbs /\ ~ (r = q /\ o = k)
    BY <1>7
  <2>2. /\ n[x] = IF o = Len(c[r]) THEN NULL ELSE c[r][o + 1]
        /\ p[x] = IF o = 1 THEN NULL ELSE c[r][o - 1]
    <3> HIDE DEF o
    <3> QED BY <2>1 DEF Linked
  <2>3. /\ n2[x] = IF x = p[t] THEN n[t] ELSE n[x]
        /\ p2[x] = IF x = n[t] THEN p[t] ELSE p[x]
    <3> HIDE DEF o, x
    <3> QED BY <1>5, <2>1
  <2>4. x = p[t] <=> r = q /\ o = k - 1
    <3> HIDE DEF o, x
    <3>1. k # 1 => k - 1 \in 1 .. L
      BY <1>1
    <3>2. r = q /\ o = k - 1 => k # 1
      BY <1>1, <2>1
    <3>3. x # NULL
      BY <2>1, TcbsAssumption
    <3>4. k # 1 => (x = c[q][k - 1] <=> r = q /\ o = k - 1)
      BY <1>6, <2>1, <3>1
    <3> QED BY <1>4, <3>2, <3>3, <3>4
  <2>5. x = n[t] <=> r = q /\ o = k + 1
    <3> HIDE DEF o, x
    <3>1. k # L => k + 1 \in 1 .. L
      BY <1>1
    <3>2. r = q /\ o = k + 1 => k # L
      BY <1>1, <2>1
    <3>3. x # NULL
      BY <2>1, TcbsAssumption
    <3>4. k # L => (x = c[q][k + 1] <=> r = q /\ o = k + 1)
      BY <1>6, <2>1, <3>1
    <3> QED BY <1>4, <3>2, <3>3, <3>4
  <2>6. CASE r # q
    <3>1. d[r] = c[r] /\ o = i
      BY <1>2, <2>6
    <3> QED BY <2>2, <2>3, <2>4, <2>5, <2>6, <3>1
  <2>7. CASE r = q
    <3> HIDE DEF x
    <3>1. /\ i \in 1 .. L - 1 /\ i \in Nat /\ k \in Nat
          /\ o = IF k <= i THEN i + 1 ELSE i
      BY <1>1, <1>2, <2>7
    <3>2. ASSUME NEW j \in 1 .. L - 1
          PROVE  /\ j < k => d[q][j] = c[q][j]
                 /\ k <= j => d[q][j] = c[q][j + 1]
      BY <1>1, <1>2
    <3> HIDE DEF o
    <3>3. n2[x] = IF i = L - 1 THEN NULL ELSE d[q][i + 1]
      <4>1. CASE o = k - 1
        <5>1. i = k - 1 /\ i + 1 = k /\ (i = L - 1 <=> k = L)
          BY <1>1, <3>1, <4>1
        <5>2. n2[x] = n[t]
          BY <2>3, <2>4, <2>7, <4>1
        <5>3. k # L => d[q][i + 1] = c[q][k + 1]
          <6>1. k # L => k \in 1 .. L - 1 /\ k <= k
            BY <1>1
          <6> QED BY <3>2, <5>1, <6>1
        <5> QED BY <1>4, <5>1, <5>2, <5>3
      <4>2. CASE o # k - 1
        <5>1. n2[x] = IF o = L THEN NULL ELSE c[q][o + 1]
          BY <2>2, <2>3, <2>4, <2>7, <4>2
        <5>2. o = L <=> i = L - 1
          BY <1>1, <2>1, <2>7, <3>1, <4>2
        <5>3. i # L - 1 => d[q][i + 1] = c[q][o + 1]
          <6>1. CASE k <= i
            <7>1. i # L - 1 => i + 1 \in 1 .. L - 1 /\ k <= i + 1 /\ i + 1 + 1 = o + 1
              BY <1>1, <3>1, <6>1
            <7> QED BY <3>2, <7>1
          <6>2. CASE ~ (k <= i)
            <7>1. i # L - 1 => i + 1 \in 1 .. L - 1 /\ i + 1 < k /\ i + 1 = o + 1
              BY <1>1, <3>1, <4>2, <6>2
            <7> QED BY <3>2, <7>1
          <6> QED BY <6>1, <6>2
        <5> QED BY <5>1, <5>2, <5>3
      <4> QED BY <4>1, <4>2
    <3>4. p2[x] = IF i = 1 THEN NULL ELSE d[q][i - 1]
      <4>1. CASE o = k + 1
        <5>1. i = k
          BY <1>1, <2>1, <2>7, <3>1, <4>1
        <5>2. p2[x] = p[t]
          BY <2>3, <2>5, <2>7, <4>1
        <5>3. i # 1 => d[q][i - 1] = c[q][k - 1]
          <6>1. i # 1 => i - 1 \in 1 .. L - 1 /\ i - 1 < k /\ i - 1 = k - 1
            BY <1>1, <3>1, <5>1
          <6> QED BY <3>2, <6>1
        <5> QED BY <1>4, <5>1, <5>2, <5>3
      <4>2. CASE o # k + 1
        <5>1. p2[x] = IF o = 1 THEN NULL ELSE c[q][o - 1]
          BY <2>2, <2>3, <2>5, <2>7, <4>2
        <5>2. o = 1 <=> i = 1
          BY <1>1, <2>1, <2>7, <3>1, <4>2
        <5>3. i # 1 => d[q][i - 1] = c[q][o - 1]
          <6>1. CASE k <= i
            <7>1. i # 1 => i - 1 \in 1 .. L - 1 /\ k <= i - 1 /\ i - 1 + 1 = o - 1
              BY <1>1, <3>1, <4>2, <6>1
            <7> QED BY <3>2, <7>1
          <6>2. CASE ~ (k <= i)
            <7>1. i # 1 => i - 1 \in 1 .. L - 1 /\ i - 1 < k /\ i - 1 = o - 1
              BY <1>1, <3>1, <6>2
            <7> QED BY <3>2, <7>1
          <6> QED BY <6>1, <6>2
        <5> QED BY <5>1, <5>2, <5>3
      <4> QED BY <4>1, <4>2
    <3>5. Len(d[r]) = L - 1 /\ d[r] = d[q]
      BY <1>2, <2>7
    <3> QED BY <3>3, <3>4, <3>5 DEF x
  <2> QED BY <2>6, <2>7
<1>11. ASSUME NEW x \in Tcbs, Free(d, x) PROVE n2[x] = NULL /\ p2[x] = NULL
  <2>1. CASE x = t
    BY <1>5, <2>1
  <2>2. CASE x # t
    <3>1. Free(c, x)
      <4> SUFFICES ASSUME NEW r \in Queues, NEW i \in 1 .. Len(c[r]), c[r][i] = x
                   PROVE FALSE
        BY DEF Free
      <4>1. CASE r # q
        BY <1>2, <1>11, <4>1 DEF Free
      <4>2. CASE r = q /\ i < k
        <5>1. i \in 1 .. L - 1
          BY <1>1, <4>2
        <5>2. i \in 1 .. Len(d[q]) /\ d[q][i] = x
          BY <1>2, <4>2, <5>1
        <5> QED BY <1>11, <5>2 DEF Free
      <4>3. CASE r = q /\ k < i
        <5>1. i - 1 \in 1 .. L - 1 /\ ~ (i - 1 < k) /\ i - 1 + 1 = i
          BY <1>1, <4>3
        <5>2. i - 1 \in 1 .. Len(d[q]) /\ d[q][i - 1] = x
          BY <1>2, <4>3, <5>1
        <5> QED BY <1>11, <5>2 DEF Free
      <4>4. i # k \/ r # q
        BY <2>2 DEF t
      <4>5. i \in Nat /\ k \in Nat
        BY <1>1
      <4> QED BY <4>1, <4>2, <4>3, <4>4, <4>5
    <3>2. n[x] = NULL /\ p[x] = NULL
      BY <3>1 DEF Linked
    <3>3. x # p[t] /\ x # n[t]
      <4>1. k # 1 => k - 1 \in 1 .. Len(c[q])
        BY <1>1
      <4>2. k # L => k + 1 \in 1 .. Len(c[q])
        BY <1>1
      <4>3. k # 1 => c[q][k - 1] # x
        BY <3>1, <4>1 DEF Free
      <4>4. k # L => c[q][k + 1] # x
        BY <3>1, <4>2 DEF Free
      <4>5. x # NULL
        BY TcbsAssumption
      <4> QED BY <1>4, <4>3, <4>4, <4>5
    <3> QED BY <1>5, <2>2, <3>2, <3>3
  <2> QED BY <2>1, <2>2
<1>12. Linked(d, h2, n2, p2)
  BY <1>2, <1>8, <1>9, <1>10, <1>11 DEF Linked, Unlinks
<1> QED BY <1>12 DEF d

-----------------------------------------------------------------------------
(* The invariant. *)

\* The empty queues are linked.
LEMMA InitLinked == Queue_Init => Linked([q \in Queues |-> << >>], head, next, prev)
<1> SUFFICES ASSUME Queue_Init PROVE Linked([q \in Queues |-> << >>], head, next, prev)
  OBVIOUS
<1> DEFINE c == [q \in Queues |-> << >>]
<1>1. \A q \in Queues : c[q] = << >> /\ Len(c[q]) = 0 /\ 1 .. Len(c[q]) = {}
  OBVIOUS
<1>2. c \in [Queues -> Seq(Tcbs)]
  OBVIOUS
<1>3. /\ head \in [Queues -> Tcbs \cup {NULL}] /\ next \in Links /\ prev \in Links
      /\ \A q \in Queues : head[q] = NULL
      /\ \A t \in Tcbs : next[t] = NULL /\ prev[t] = NULL
  BY DEF Queue_Init, Links
<1> HIDE DEF c
<1>4. Linked(c, head, next, prev)
  BY <1>1, <1>2, <1>3 DEF Linked, Distinct
<1> QED BY <1>4 DEF c

\* What holds of the links in a state of the invariant.
LEMMA StateFacts ==
    ASSUME LinkInv
    PROVE  /\ head \in [Queues -> Tcbs \cup {NULL}] /\ next \in Links /\ prev \in Links
           /\ Contents \in [Queues -> Seq(Tcbs)]
           /\ \A q \in Queues : Met(q) = {Contents[q][i] : i \in 1 .. Len(Contents[q])}
           /\ \A t \in Tcbs : Free(Contents, t) <=> ~ IsLinked(t)
<1>1. \A q \in Queues : Met(q) = {Contents[q][i] : i \in 1 .. Len(Contents[q])}
  BY Reading DEF OneReading, LinkInv
<1>2. \A t \in Tcbs : Free(Contents, t) <=> ~ IsLinked(t)
  BY <1>1 DEF Free, IsLinked
<1> QED BY <1>1, <1>2 DEF LinkInv, Linked

\* Queue_Enqueue appends to the sequence.
LEMMA EnqueueStep ==
    ASSUME LinkInv, NEW q \in Queues, NEW t \in Tcbs, Queue_Enqueue(q, t)
    PROVE  /\ Linked([Contents EXCEPT ![q] = Append(@, t)], head', next', prev')
           /\ Free(Contents, t)
<1> DEFINE c == Contents
<1>1. /\ Linked(c, head, next, prev)
      /\ head \in [Queues -> Tcbs \cup {NULL}] /\ next \in Links /\ prev \in Links
      /\ c \in [Queues -> Seq(Tcbs)]
      /\ Met(q) = {c[q][i] : i \in 1 .. Len(c[q])}
      /\ Free(c, t)
  BY StateFacts DEF LinkInv, Queue_Enqueue
<1> HIDE DEF c
<1>2. /\ c[q] \in Seq(Tcbs) /\ Len(c[q]) \in Nat
      /\ Len(c[q]) = 0 <=> c[q] = << >>
      /\ \A i \in 1 .. Len(c[q]) : c[q][i] \in Tcbs /\ c[q][i] # NULL
  <2>1. c[q] \in Seq(Tcbs)
    BY <1>1
  <2> QED BY <2>1, TcbsAssumption
<1>3. head[q] = IF Len(c[q]) = 0 THEN NULL ELSE c[q][1]
  BY <1>1, <1>2 DEF Linked
<1>4. Appends(c, head, next, prev, q, t, head', next', prev')
  <2>1. CASE head[q] = NULL
    <3>1. Len(c[q]) = 0
      <4>1. Len(c[q]) # 0 => 1 \in 1 .. Len(c[q])
        BY <1>2
      <4> QED BY <1>2, <1>3, <2>1, <4>1
    <3>2. Met(q) = {}
      BY <1>1, <3>1
    <3>3. /\ head' = [head EXCEPT ![q] = t]
          /\ next' = [next EXCEPT ![t] = NULL]
          /\ prev' = [prev EXCEPT ![t] = NULL]
      BY <3>2 DEF Queue_Enqueue
    <3> QED BY <1>1, <3>1, <3>3 DEF Appends, Links
  <2>2. CASE head[q] # NULL
    <3>1. PICK temp \in Met(q) :
              /\ next[temp] = NULL
              /\ next' = [next EXCEPT ![temp] = t, ![t] = NULL]
              /\ prev' = [prev EXCEPT ![t] = temp]
              /\ UNCHANGED head
      BY <2>2 DEF Queue_Enqueue
    <3>2. PICK k \in 1 .. Len(c[q]) : temp = c[q][k]
      BY <1>1
    <3>3. k = Len(c[q])
      <4>1. next[c[q][k]] = IF k = Len(c[q]) THEN NULL ELSE c[q][k + 1]
        BY <1>1 DEF Linked
      <4>2. k # Len(c[q]) => k + 1 \in 1 .. Len(c[q])
        BY <1>2
      <4> QED BY <1>2, <3>1, <3>2, <4>1, <4>2
    <3>4. temp \in Tcbs /\ temp # t /\ Len(c[q]) # 0 /\ temp = c[q][Len(c[q])]
      <4>1. temp # t
        BY <1>1, <3>2 DEF Free
      <4> QED BY <1>2, <3>2, <3>3, <4>1
    <3>5. \A x \in Tcbs : next'[x] = IF x = t THEN NULL ELSE IF x = temp THEN t ELSE next[x]
      BY <1>1, <3>1, <3>4 DEF Links
    <3>6. \A x \in Tcbs : prev'[x] = IF x = t THEN temp ELSE prev[x]
      BY <1>1, <3>1, <3>4 DEF Links
    <3>7. head' \in [Queues -> Tcbs \cup {NULL}] /\ next' \in Links /\ prev' \in Links
      BY <1>1, <3>1, <3>4 DEF Links
    <3>8. \A r \in Queues : head'[r] = head[r]
      BY <3>1
    <3> QED BY <3>4, <3>5, <3>6, <3>7, <3>8 DEF Appends
  <2> QED BY <2>1, <2>2
<1>5. Linked([c EXCEPT ![q] = Append(@, t)], head', next', prev')
  BY <1>1, <1>4, AppendFacts
<1> QED BY <1>1, <1>5 DEF c

\* Queue_Remove takes its TCB out of the sequence, wherever it is.
LEMMA RemoveStep ==
    ASSUME LinkInv, NEW q \in Queues, NEW k \in 1 .. Len(Contents[q]),
           Queue_Remove(q, Contents[q][k]), NEW s, Without(Contents[q], k, s)
    PROVE  Linked([Contents EXCEPT ![q] = s], head', next', prev')
<1> DEFINE c == Contents
           t == c[q][k]
<1>1. /\ Linked(c, head, next, prev)
      /\ head \in [Queues -> Tcbs \cup {NULL}] /\ next \in Links /\ prev \in Links
      /\ c \in [Queues -> Seq(Tcbs)]
      /\ t \in Met(q)
      /\ Without(c[q], k, s) /\ k \in 1 .. Len(c[q])
  BY StateFacts DEF LinkInv
<1>2. /\ head' = [head EXCEPT ![q] = IF prev[t] = NULL THEN next[t] ELSE @]
      /\ next' = [x \in Tcbs |-> IF x = t THEN NULL
                                 ELSE IF x = prev[t] THEN next[t] ELSE next[x]]
      /\ prev' = [x \in Tcbs |-> IF x = t THEN NULL
                                 ELSE IF x = next[t] THEN prev[t] ELSE prev[x]]
  BY <1>1 DEF Queue_Remove
<1> HIDE DEF c
<1>3. t \in Tcbs
  <2>1. c[q] \in Seq(Tcbs)
    BY <1>1
  <2> QED BY <1>1, <2>1
<1> HIDE DEF t
<1>4. Unlinks(head, next, prev, q, t, head', next', prev')
  <2>1. next[t] \in Tcbs \cup {NULL} /\ prev[t] \in Tcbs \cup {NULL}
    BY <1>1, <1>3 DEF Links
  <2> QED BY <1>1, <1>2, <2>1 DEF Unlinks, Links
<1>5. Linked([c EXCEPT ![q] = s], head', next', prev')
  BY <1>1, <1>4, UnlinkFacts DEF t
<1> QED BY <1>5 DEF c

\* Queue_Dequeue takes the first TCB out of the sequence.
LEMMA DequeueStep ==
    ASSUME LinkInv, NEW q \in Queues, Contents[q] # << >>, Queue_Dequeue(q)
    PROVE  /\ Linked([Contents EXCEPT ![q] = Tail(@)], head', next', prev')
           /\ returned' = Head(Contents[q]) /\ returned' \in Tcbs
<1> DEFINE c == Contents
           t == c[q][1]
<1>1. /\ Linked(c, head, next, prev)
      /\ head \in [Queues -> Tcbs \cup {NULL}] /\ next \in Links /\ prev \in Links
      /\ c \in [Queues -> Seq(Tcbs)]
      /\ c[q] # << >>
  BY StateFacts DEF LinkInv
<1> HIDE DEF c
<1>2. /\ c[q] \in Seq(Tcbs) /\ Len(c[q]) \in Nat \ {0} /\ 1 \in 1 .. Len(c[q])
      /\ t \in Tcbs /\ t # NULL /\ Head(c[q]) = t
      /\ Without(c[q], 1, Tail(c[q]))
  <2>1. c[q] \in Seq(Tcbs)
    BY <1>1
  <2> QED BY <1>1, <2>1, TcbsAssumption DEF Without
<1>3. head[q] = t /\ prev[t] = NULL
  BY <1>1, <1>2 DEF Linked
<1> HIDE DEF t
<1>4. /\ returned' = t
      /\ head' = [head EXCEPT ![q] = next[t]]
      /\ next' = [next EXCEPT ![t] = NULL]
      /\ prev' = [x \in Tcbs |-> IF x \in {t, next[t]} THEN NULL ELSE prev[x]]
  BY <1>2, <1>3 DEF Queue_Dequeue
<1>5. Unlinks(head, next, prev, q, t, head', next', prev')
  <2>1. next[t] \in Tcbs \cup {NULL}
    BY <1>1, <1>2 DEF Links
  <2>2. head' \in [Queues -> Tcbs \cup {NULL}] /\ next' \in Links /\ prev' \in Links
    BY <1>1, <1>2, <1>4, <2>1 DEF Links
  <2>3. \A r \in Queues : head'[r] = IF r = q THEN next[t] ELSE head[r]
    BY <1>1, <1>4
  <2>4. \A x \in Tcbs : next'[x] = IF x = t THEN NULL ELSE next[x]
    BY <1>1, <1>4 DEF Links
  <2>5. \A x \in Tcbs : prev'[x] = IF x = t \/ x = next[t] THEN NULL ELSE prev[x]
    BY <1>4
  <2>6. \A x \in Tcbs : x # prev[t]
    BY <1>3, TcbsAssumption
  <2> QED BY <1>3, <2>2, <2>3, <2>4, <2>5, <2>6 DEF Unlinks
<1>6. Linked([c EXCEPT ![q] = Tail(c[q])], head', next', prev')
  BY <1>1, <1>2, <1>5, UnlinkFacts DEF t
<1> QED BY <1>2, <1>4, <1>6 DEF c

\* The places of two sequences one behind the other.
LEMMA ConcatFacts ==
    ASSUME NEW S, NEW a \in Seq(S), NEW b \in Seq(S)
    PROVE  /\ a \o b \in Seq(S) /\ Len(a \o b) = Len(a) + Len(b)
           /\ \A i \in 1 .. Len(a) + Len(b) :
                (a \o b)[i] = IF i <= Len(a) THEN a[i] ELSE b[i - Len(a)]
OBVIOUS

\* RemoveFirst takes out the only place of its argument.
LEMMA RemoveFirstFacts ==
    ASSUME NEW s \in Seq(Tcbs), NEW k \in 1 .. Len(s),
           \A i, j \in 1 .. Len(s) : s[i] = s[j] => i = j
    PROVE  Without(s, k, Fifo!RemoveFirst(s, s[k]))
<1> DEFINE front == SubSeq(s, 1, k - 1)
           back == SubSeq(s, k + 1, Len(s))
<1>1. Len(s) \in Nat /\ k \in Nat /\ 1 <= k /\ k <= Len(s)
  OBVIOUS
<1>2. {i \in 1 .. Len(s) : s[i] = s[k]} = {k}
  OBVIOUS
<1>3. Fifo!Min({k}) = k
  BY <1>1 DEF Fifo!Min
<1>4. Fifo!RemoveFirst(s, s[k]) = Fifo!RemoveAt(s, k)
  BY <1>2, <1>3 DEF Fifo!RemoveFirst, Fifo!SelectInSeq
<1>5. Fifo!RemoveAt(s, k) = front \o back
  BY DEF Fifo!RemoveAt
<1>6. /\ front \in Seq(Tcbs) /\ Len(front) = k - 1
      /\ \A i \in 1 .. k - 1 : front[i] = s[i]
  BY <1>1
<1>7. /\ back \in Seq(Tcbs) /\ Len(back) = Len(s) - k
      /\ \A i \in 1 .. Len(s) - k : back[i] = s[i + k]
  BY <1>1
<1> HIDE DEF front, back
<1>8. /\ front \o back \in Seq(Tcbs)
      /\ Len(front \o back) = Len(front) + Len(back)
      /\ \A i \in 1 .. Len(front) + Len(back) :
            (front \o back)[i] = IF i <= Len(front) THEN front[i] ELSE back[i - Len(front)]
  <2>1. front \in Seq(Tcbs) /\ back \in Seq(Tcbs)
    BY <1>6, <1>7
  <2> QED BY <2>1, ConcatFacts
<1>9. Len(front) + Len(back) = Len(s) - 1
  BY <1>1, <1>6, <1>7
<1>10. ASSUME NEW i \in 1 .. Len(s) - 1
       PROVE  (front \o back)[i] = IF i < k THEN s[i] ELSE s[i + 1]
  <2>1. CASE i < k
    <3>1. i \in 1 .. k - 1 /\ i <= Len(front)
      BY <1>1, <1>6, <2>1
    <3> QED BY <1>6, <1>8, <1>9, <2>1, <3>1
  <2>2. CASE ~ (i < k)
    <3>1. /\ ~ (i <= Len(front)) /\ i - Len(front) \in 1 .. Len(s) - k
          /\ i - Len(front) + k = i + 1
      BY <1>1, <1>6, <2>2
    <3>2. (front \o back)[i] = back[i - Len(front)]
      BY <1>8, <1>9, <3>1
    <3> QED BY <1>7, <2>2, <3>1, <3>2
  <2> QED BY <2>1, <2>2
<1> QED BY <1>4, <1>5, <1>8, <1>9, <1>10 DEF Without

\* A step of the links is the step of the sequences, and keeps the invariant.
LEMMA QueueStep ==
    ASSUME LinkInv, OneReading', NEW q \in Queues,
           Queue_Dequeue(q) \/ \E t \in Tcbs : Queue_Enqueue(q, t) \/ Queue_Remove(q, t)
    PROVE  LinkInv' /\ Fifo!FifoNext
<1> DEFINE c == Contents
<1>1. /\ c \in [Queues -> Seq(Tcbs)] /\ c[q] \in Seq(Tcbs)
      /\ Linked(c, head, next, prev) /\ returned \in Tcbs \cup {NULL}
  BY StateFacts DEF LinkInv
<1>2. \A d : Linked(d, head', next', prev') => Contents' = d
  BY DEF OneReading
<1>3. ASSUME NEW d, Linked(d, head', next', prev'), returned' \in Tcbs \cup {NULL}
      PROVE  LinkInv' /\ Contents' = d
  BY <1>2, <1>3 DEF LinkInv
<1> HIDE DEF c
<1>4. CASE Queue_Dequeue(q)
  <2>1. CASE c[q] = << >>
    <3>1. head[q] = NULL
      BY <1>1, <2>1 DEF Linked
    <3>2. UNCHANGED <<head, next, prev>> /\ returned' = NULL
      BY <1>4, <3>1 DEF Queue_Dequeue
    <3>3. LinkInv' /\ Contents' = c
      BY <1>1, <1>3, <3>2
    <3>4. Fifo!Dequeue(q)
      BY <2>1, <3>2, <3>3 DEF Fifo!Dequeue, c
    <3> QED BY <3>3, <3>4 DEF Fifo!FifoNext
  <2>2. CASE c[q] # << >>
    <3>1. /\ Linked([c EXCEPT ![q] = Tail(@)], head', next', prev')
          /\ returned' = Head(c[q]) /\ returned' \in Tcbs
      BY <1>4, <2>2, DequeueStep DEF c
    <3>2. LinkInv' /\ Contents' = [c EXCEPT ![q] = Tail(@)]
      BY <1>3, <3>1
    <3>3. Fifo!Dequeue(q)
      BY <2>2, <3>1, <3>2 DEF Fifo!Dequeue, c
    <3> QED BY <3>2, <3>3 DEF Fifo!FifoNext
  <2> QED BY <2>1, <2>2
<1>5. ASSUME NEW t \in Tcbs, Queue_Enqueue(q, t)
      PROVE  LinkInv' /\ Fifo!FifoNext
  <2>1. /\ Linked([c EXCEPT ![q] = Append(@, t)], head', next', prev')
        /\ Free(c, t)
    BY <1>5, EnqueueStep DEF c
  <2>2. returned' = returned
    BY <1>5 DEF Queue_Enqueue
  <2>3. LinkInv' /\ Contents' = [c EXCEPT ![q] = Append(@, t)]
    BY <1>1, <1>3, <2>1, <2>2
  <2>4. ~ Fifo!Linked(t)
    BY <2>1 DEF Fifo!Linked, Fifo!Contains, Free, c
  <2>5. Fifo!Enqueue(q, t)
    BY <2>2, <2>3, <2>4 DEF Fifo!Enqueue, c
  <2> QED BY <2>3, <2>5 DEF Fifo!FifoNext
<1>6. ASSUME NEW t \in Tcbs, Queue_Remove(q, t)
      PROVE  LinkInv' /\ Fifo!FifoNext
  <2>1. returned' = returned
    BY <1>6 DEF Queue_Remove
  <2>2. Met(q) = {c[q][i] : i \in 1 .. Len(c[q])}
    BY StateFacts DEF c
  <2>3. CASE t \in Met(q)
    <3>1. PICK k \in 1 .. Len(c[q]) : t = c[q][k]
      BY <2>2, <2>3
    <3>2. Without(c[q], k, Fifo!RemoveFirst(c[q], t))
      <4>1. \A i, j \in 1 .. Len(c[q]) : c[q][i] = c[q][j] => i = j
        BY <1>1 DEF Linked, Distinct
      <4> QED BY <1>1, <3>1, <4>1, RemoveFirstFacts
    <3>3. Linked([c EXCEPT ![q] = Fifo!RemoveFirst(c[q], t)], head', next', prev')
      BY <1>6, <3>1, <3>2, RemoveStep DEF c
    <3>4. LinkInv' /\ Contents' = [c EXCEPT ![q] = Fifo!RemoveFirst(c[q], t)]
      BY <1>1, <1>3, <2>1, <3>3
    <3>5. Fifo!Take(q, t)
      BY <2>1, <3>4 DEF Fifo!Take, c
    <3> QED BY <3>4, <3>5 DEF Fifo!FifoNext
  <2>4. CASE t \notin Met(q)
    <3>1. UNCHANGED <<head, next, prev>>
      BY <1>6, <2>4 DEF Queue_Remove
    <3>2. LinkInv' /\ Contents' = c
      BY <1>1, <1>3, <2>1, <3>1
    <3>3. Fifo!RemoveFirst(c[q], t) = c[q]
      BY <2>2, <2>4 DEF Fifo!RemoveFirst
    <3>4. c = [c EXCEPT ![q] = c[q]]
      BY <1>1
    <3>5. Fifo!Take(q, t)
      BY <2>1, <3>2, <3>3, <3>4 DEF Fifo!Take, c
    <3> QED BY <3>2, <3>5 DEF Fifo!FifoNext
  <2> QED BY <2>3, <2>4
<1> QED BY <1>4, <1>5, <1>6

\* In every state of every behaviour the links are those of the sequences they
\* are read as, for any finite set of TCBs and any queues.
THEOREM LinkInvariance == Spec => []LinkInv
<1>1. Queue_Init => LinkInv
  <2> SUFFICES ASSUME Queue_Init PROVE LinkInv
    OBVIOUS
  <2>1. Linked([q \in Queues |-> << >>], head, next, prev)
    BY InitLinked
  <2>2. Contents = [q \in Queues |-> << >>]
    BY <2>1, Reading DEF OneReading
  <2> QED BY <2>1, <2>2 DEF LinkInv, Queue_Init
<1>2. LinkInv /\ OneReading' /\ [Next]_vars => LinkInv'
  <2> SUFFICES ASSUME LinkInv, OneReading', [Next]_vars PROVE LinkInv'
    OBVIOUS
  <2>1. CASE Next
    BY <2>1, QueueStep DEF Next
  <2>2. CASE UNCHANGED vars
    <3>1. Linked(Contents, head', next', prev') /\ returned' \in Tcbs \cup {NULL}
      BY <2>2 DEF vars, LinkInv
    <3>2. Contents' = Contents
      BY <3>1 DEF OneReading
    <3> QED BY <3>1, <3>2 DEF LinkInv
  <2> QED BY <2>1, <2>2
<1> QED BY <1>1, <1>2, Reading, PTL DEF Spec

\* Heads and links are TCBs or NULL in every state.
THEOREM TypeCorrect == Spec => []TypeOK
<1>1. LinkInv => TypeOK
  BY DEF LinkInv, Linked, Links, TypeOK
<1> QED BY <1>1, LinkInvariance, PTL

\* Every behaviour of the links is one of first-in first-out sequences, which
\* never lose, repeat or misorder a thread.
THEOREM FifoCorrect == Spec => ImplementsFifo
<1>1. Queue_Init => Fifo!FifoInit
  <2> SUFFICES ASSUME Queue_Init PROVE Fifo!FifoInit
    OBVIOUS
  <2>1. Linked([q \in Queues |-> << >>], head, next, prev)
    BY InitLinked
  <2>2. Contents = [q \in Queues |-> << >>]
    BY <2>1, Reading DEF OneReading
  <2> QED BY <2>2 DEF Fifo!FifoInit, Queue_Init
<1>2. LinkInv /\ OneReading' /\ [Next]_vars => [Fifo!FifoNext]_Fifo!fifoVars
  <2> SUFFICES ASSUME LinkInv, OneReading', [Next]_vars
               PROVE  [Fifo!FifoNext]_Fifo!fifoVars
    OBVIOUS
  <2>1. CASE Next
    BY <2>1, QueueStep DEF Next
  <2>2. CASE UNCHANGED vars
    <3>1. Linked(Contents, head', next', prev')
      BY <2>2 DEF vars, LinkInv
    <3>2. Contents' = Contents
      BY <3>1 DEF OneReading
    <3> QED BY <2>2, <3>2 DEF vars, Fifo!fifoVars
  <2> QED BY <2>1, <2>2
<1> QED BY <1>1, <1>2, LinkInvariance, Reading, PTL DEF Spec, ImplementsFifo, Fifo!FifoSpec

\* The links mirror each other: prev undoes next, a head has no prev, and a TCB
\* in no queue points nowhere.
THEOREM MirrorCorrect == Spec => []LinksMirror
<1>1. LinkInv => LinksMirror
  <2> SUFFICES ASSUME LinkInv PROVE LinksMirror
    OBVIOUS
  <2> DEFINE c == Contents
  <2>1. /\ Linked(c, head, next, prev)
        /\ next \in Links /\ prev \in Links
        /\ c \in [Queues -> Seq(Tcbs)]
        /\ \A t \in Tcbs : Free(c, t) <=> ~ IsLinked(t)
    BY StateFacts DEF LinkInv
  <2> HIDE DEF c
  <2>2. \A q \in Queues : /\ Len(c[q]) \in Nat
                          /\ \A i \in 1 .. Len(c[q]) : c[q][i] \in Tcbs /\ c[q][i] # NULL
                          /\ c[q] = << >> <=> Len(c[q]) = 0
    BY <2>1, TcbsAssumption
  <2>3. \A q \in Queues : \A i \in 1 .. Len(c[q]) :
            /\ next[c[q][i]] = IF i = Len(c[q]) THEN NULL ELSE c[q][i + 1]
            /\ prev[c[q][i]] = IF i = 1 THEN NULL ELSE c[q][i - 1]
    BY <2>1 DEF Linked
  <2>4. \A t \in Tcbs : Free(c, t) => next[t] = NULL /\ prev[t] = NULL
    BY <2>1 DEF Linked
  <2>5. ASSUME NEW t \in Tcbs, next[t] # NULL PROVE prev[next[t]] = t
    <3>1. PICK q \in Queues : \E i \in 1 .. Len(c[q]) : c[q][i] = t
      BY <2>4, <2>5 DEF Free
    <3>2. PICK i \in 1 .. Len(c[q]) : c[q][i] = t
      BY <3>1
    <3>3. next[t] = IF i = Len(c[q]) THEN NULL ELSE c[q][i + 1]
      BY <2>3, <3>2
    <3>4. i # Len(c[q]) /\ next[t] = c[q][i + 1]
      BY <2>5, <3>3
    <3>5. i + 1 \in 1 .. Len(c[q]) /\ i + 1 # 1 /\ (i + 1) - 1 = i
      BY <2>2, <3>2, <3>4
    <3>6. prev[c[q][i + 1]] = c[q][(i + 1) - 1]
      BY <2>3, <3>5
    <3> QED BY <3>2, <3>4, <3>5, <3>6
  <2>6. ASSUME NEW t \in Tcbs, prev[t] # NULL PROVE next[prev[t]] = t
    <3>1. PICK q \in Queues : \E i \in 1 .. Len(c[q]) : c[q][i] = t
      BY <2>4, <2>6 DEF Free
    <3>2. PICK i \in 1 .. Len(c[q]) : c[q][i] = t
      BY <3>1
    <3>3. prev[t] = IF i = 1 THEN NULL ELSE c[q][i - 1]
      BY <2>3, <3>2
    <3>4. i # 1 /\ prev[t] = c[q][i - 1]
      BY <2>6, <3>3
    <3>5. i - 1 \in 1 .. Len(c[q]) /\ i - 1 # Len(c[q]) /\ (i - 1) + 1 = i
      BY <2>2, <3>2, <3>4
    <3>6. next[c[q][i - 1]] = c[q][(i - 1) + 1]
      BY <2>3, <3>5
    <3> QED BY <3>2, <3>4, <3>5, <3>6
  <2>7. ASSUME NEW q \in Queues, head[q] # NULL PROVE prev[head[q]] = NULL
    <3>1. head[q] = IF c[q] = << >> THEN NULL ELSE c[q][1]
      BY <2>1 DEF Linked
    <3>2. head[q] = c[q][1] /\ Len(c[q]) # 0
      BY <2>2, <2>7, <3>1
    <3>3. 1 \in 1 .. Len(c[q])
      BY <2>2, <3>2
    <3> QED BY <2>3, <3>2, <3>3
  <2> QED BY <2>1, <2>4, <2>5, <2>6, <2>7 DEF LinksMirror
<1> QED BY <1>1, LinkInvariance, PTL
=============================================================================
