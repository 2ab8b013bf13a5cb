---------------------------- MODULE MemoryProofs ----------------------------
(***************************************************************************)
(* Proofs about VirtualMemory: the page table, the coremap and the swap    *)
(* file agree, for any sizes, any algorithm, any trace and a swap file     *)
(* that may fill up or fail; and, from there, that rr and lru evict in the *)
(* order they promise and that clock gives second chances.                 *)
(***************************************************************************)
EXTENDS VirtualMemory, TLAPS, WellFoundedInduction, SequenceTheorems

USE SizesAssumption
USE TraceAssumption

-----------------------------------------------------------------------------
(* Numbers and lists. *)

\* A search finds the least index of a set that has one.
LEMMA FirstFacts ==
    ASSUME NEW S \in SUBSET Nat, S # {}
    PROVE  First(S) \in S /\ \A j \in S : First(S) <= j
<1>1. IsWellFoundedOn(OpToRel(<, Nat), Nat)
  BY NatLessThanWellFounded
<1>2. \E x \in S : \A y \in S : ~ (<<y, x>> \in OpToRel(<, Nat))
  BY <1>1, WFMin
<1>3. \E x \in S : \A y \in S : ~ (y < x)
  BY <1>2 DEF OpToRel
<1>4. \E x \in S : \A y \in S : x <= y
  BY <1>3
<1> QED BY <1>4 DEF First

\* Going around the frames stays among them.
LEMMA AroundFacts ==
    ASSUME NEW n \in Nat
    PROVE  n % memsize \in Frames
BY DEF Frames

\* The bytes of a frame, and the one behind them, are bytes of physmem.
LEMMA ByteFacts ==
    ASSUME NEW f \in Frames, NEW o \in 0 .. SIMPAGESIZE
    PROVE  Byte(f, o) \in 0 .. memsize * SIMPAGESIZE
<1>1. /\ f \in Nat /\ f + 1 <= memsize /\ o \in Nat /\ o <= SIMPAGESIZE
      /\ memsize \in Nat /\ SIMPAGESIZE \in Nat
  BY DEF Frames
<1>2. /\ f * SIMPAGESIZE \in Nat /\ memsize * SIMPAGESIZE \in Nat
      /\ (f + 1) * SIMPAGESIZE = f * SIMPAGESIZE + SIMPAGESIZE
  BY <1>1
<1>3. (f + 1) * SIMPAGESIZE <= memsize * SIMPAGESIZE
  BY <1>1
<1> QED BY <1>1, <1>2, <1>3 DEF Byte

\* Taking out of a list and putting at its end keep its type.
LEMMA ListFacts ==
    ASSUME NEW S, NEW list \in Seq(S), NEW x \in S
    PROVE  Append(Without(list, x), x) \in Seq(S)
           /\ Append(Without(list, x), x) # <<>>
<1>1. Without(list, x) \in Seq(S)
  <2>1. CASE ~ Contains(list, x)
    BY <2>1 DEF Without
  <2>2. CASE Contains(list, x)
    <3>1. PICK k : /\ k = CHOOSE i \in 1 .. Len(list) : list[i] = x
                   /\ k \in 1 .. Len(list)
      BY <2>2 DEF Contains
    <3>2. k \in 1 .. Len(list)
      BY <3>1
    <3>3. /\ SubSeq(list, 1, k - 1) \in Seq(S)
          /\ SubSeq(list, k + 1, Len(list)) \in Seq(S)
      <4>1. Len(list) \in Nat /\ \A i \in 1 .. Len(list) : list[i] \in S
        OBVIOUS
      <4>2. /\ 1 \in 1 .. Len(list) + 1 /\ k - 1 \in 0 .. Len(list)
            /\ k + 1 \in 1 .. Len(list) + 1
        BY <3>2, <4>1
      <4> QED BY <4>1, <4>2, SubSeqProperties
    <3>4. Without(list, x) = SubSeq(list, 1, k - 1) \o SubSeq(list, k + 1, Len(list))
      BY <2>2, <3>1 DEF Without, RemoveAt
    <3> QED BY <3>3, <3>4
  <2> QED BY <2>1, <2>2
<1> QED BY <1>1

-----------------------------------------------------------------------------
(* The inductive invariant. *)

\* A page that is in no frame was never touched, or is in the swap file.
AbsentPages ==
    \A p \in Table : "VALID" \notin flag[p] => flag[p] \in {{}, {"ONSWAP"}}

\* lru finds a victim once a frame holds a page.
LruHasVictim ==
    Uses("lru") /\ lru_list = <<>> => \A f \in Frames : pte[f] = NULL

\* SlotsApart, also for a page table of one entry.
SlotsOwned ==
    \A p \in Table : swap_offset[p] # INVALID_SWAP =>
        /\ swap_offset[p] \in swapmap
        /\ \A q \in Table : q # p => swap_offset[q] # swap_offset[p]

MemoryInv ==
    /\ TypeOK
    /\ FramesMatchPages
    /\ AbsentPages
    /\ LruHasVictim
    /\ SlotsOwned
    /\ SwappedOnlyWhenFull
    /\ HandAtFirstFree

-----------------------------------------------------------------------------
(* What the parts of a step do. *)

\* A victim that holds a page is a frame, and what evict_func leaves has the
\* types of the policy's state.
LEMMA VictimFacts ==
    ASSUME MemoryInv, NEW f \in Victims, pte[f] # NULL
    PROVE  /\ f \in Frames
           /\ AdvancedHand \in Frames
           /\ ShortenedList \in Seq(Frames)
<1>1. /\ hand \in Frames /\ lru_list \in Seq(Frames) /\ replacement_alg \in Names
  BY DEF MemoryInv, TypeOK
<1>2. SecondChances \in Nat
  <2> DEFINE tries == {n \in 0 .. memsize - 1 : ~ ref[pte[Ahead(n)]]}
  <2>1. tries # {} => First(tries) \in Nat
    BY FirstFacts
  <2> QED BY <2>1 DEF SecondChances
<1>3. \A n \in Nat : Ahead(n) \in Frames
  <2> TAKE n \in Nat
  <2>1. hand + n \in Nat
    BY <1>1 DEF Frames
  <2> QED BY <2>1, AroundFacts DEF Ahead
<1>4. AdvancedHand \in Frames
  BY <1>1, <1>2, <1>3 DEF AdvancedHand, rr_next, clock_next
<1>5. CASE Uses("lru")
  <2>1. CASE lru_list = <<>>
    BY <1>5, <2>1 DEF Victims, lru_evict, Uses, MemoryInv, LruHasVictim
  <2>2. CASE lru_list # <<>>
    <3>1. Head(lru_list) \in Frames /\ Tail(lru_list) \in Seq(Frames)
      BY <1>1, <2>2
    <3>2. f = Head(lru_list)
      BY <1>5, <2>2 DEF Victims, lru_evict, Uses
    <3> QED BY <1>4, <1>5, <3>1, <3>2 DEF ShortenedList
  <2> QED BY <2>1, <2>2
<1>6. CASE ~ Uses("lru")
  <2>1. ShortenedList \in Seq(Frames)
    BY <1>1, <1>6 DEF ShortenedList
  <2>2. f \in Frames
    BY <1>1, <1>2, <1>3, <1>6 DEF Victims, rand_evict, rr_evict, clock_evict, Uses, Names
  <2> QED BY <1>4, <2>1, <2>2
<1> QED BY <1>5, <1>6

\* ref_func keeps the types, and leaves lru with a list.
LEMMA RefFuncFacts ==
    ASSUME NEW f \in Frames, NEW p \in Table, NEW refs \in [Table -> BOOLEAN],
           NEW h \in Frames, NEW list \in Seq(Frames), mem_full \in BOOLEAN,
           RefFunc(f, p, refs, h, list)
    PROVE  /\ ref' \in [Table -> BOOLEAN] /\ hand' \in Frames
           /\ mem_full' \in BOOLEAN /\ lru_list' \in Seq(Frames)
           /\ Uses("lru") => lru_list' # <<>>
<1>1. ref' \in [Table -> BOOLEAN]
  <2>1. ref' = [refs EXCEPT ![p] = refs[p] \/ Uses("clock")]
    BY DEF RefFunc
  <2> QED BY <2>1
<1>2. hand' \in Frames
  <2>1. h + 1 \in Nat
    BY DEF Frames
  <2> QED BY <2>1, AroundFacts DEF RefFunc
<1>3. mem_full' \in BOOLEAN
  BY DEF RefFunc
<1>4. lru_list' \in Seq(Frames) /\ (Uses("lru") => lru_list' # <<>>)
  BY ListFacts DEF RefFunc
<1> QED BY <1>1, <1>2, <1>3, <1>4

PhysicalMemory == [0 .. memsize * SIMPAGESIZE -> Values]

\* The access keeps the types of memory and of its result.
LEMMA TouchFacts ==
    ASSUME NEW vpn \in Vpns, NEW o \in TraceOffsets, NEW type, NEW val \in Values,
           NEW f \in Frames, NEW bytes \in PhysicalMemory,
           Touch(vpn, o, type, val, f, bytes)
    PROVE  /\ physmem' \in PhysicalMemory
           /\ got' \in Values \cup {NULL}
           /\ request' \in (Vpns \X TraceOffsets) \cup {NULL}
<1>1. Byte(f, o) \in 0 .. memsize * SIMPAGESIZE
  BY ByteFacts
<1>2. bytes[Byte(f, o)] \in Values
  BY <1>1 DEF PhysicalMemory
<1>3. [bytes EXCEPT ![Byte(f, o)] = val] \in PhysicalMemory
  BY DEF PhysicalMemory
<1> QED BY <1>2, <1>3 DEF Touch

\* Pages between frames and slots.
LEMMA PageFacts ==
    ASSUME physmem \in PhysicalMemory, NEW f \in Frames,
           NEW page \in [PageBytes -> Values]
    PROVE  /\ HeldPage(f) \in [PageBytes -> Values]
           /\ ZeroPage \in [PageBytes -> Values]
           /\ Filled(f, page) \in PhysicalMemory
<1>1. HeldPage(f) \in [PageBytes -> Values]
  <2>1. ASSUME NEW o \in PageBytes PROVE physmem[Byte(f, o)] \in Values
    <3>1. o \in 0 .. SIMPAGESIZE
      BY DEF PageBytes
    <3> QED BY <3>1, ByteFacts DEF PhysicalMemory
  <2> QED BY <2>1 DEF HeldPage
<1>2. ZeroPage \in [PageBytes -> Values]
  BY DEF ZeroPage
<1>3. Filled(f, page) \in PhysicalMemory
  <2>1. DOMAIN physmem = 0 .. memsize * SIMPAGESIZE
    BY DEF PhysicalMemory
  <2>2. ASSUME NEW b \in 0 .. memsize * SIMPAGESIZE,
               b \in Byte(f, 0) .. Byte(f, SIMPAGESIZE - 1)
        PROVE  page[b - Byte(f, 0)] \in Values
    <3>1. f * SIMPAGESIZE \in Nat
      BY DEF Frames
    <3>2. b - Byte(f, 0) \in PageBytes
      BY <2>2, <3>1 DEF Byte, PageBytes
    <3> QED BY <3>2
  <2> QED BY <2>1, <2>2 DEF Filled, PhysicalMemory
<1> QED BY <1>1, <1>2, <1>3

-----------------------------------------------------------------------------
(* The steps. *)

\* A hit changes no frame and no slot.
LEMMA HitStep ==
    ASSUME MemoryInv, replacement_alg' = replacement_alg,
           NEW p \in Table, NEW vpn \in Vpns, NEW o \in TraceOffsets,
           NEW type, NEW val \in Values, Hit(p, vpn, o, type, val)
    PROVE  MemoryInv'
<1>1. /\ "VALID" \in flag[p]
      /\ flag' = [flag EXCEPT ![p] = IF type \in Writes THEN flag[p] \cup {"DIRTY"}
                                     ELSE flag[p]]
      /\ UNCHANGED <<frame, swap_offset, in_use, pte, swapmap, swapfile, outcome>>
  BY DEF Hit, coremap, swap
<1>2. frame[p] \in Frames /\ in_use[frame[p]]
  BY <1>1 DEF MemoryInv, TypeOK, FramesMatchPages
<1>3. /\ ref' \in [Table -> BOOLEAN] /\ hand' \in Frames
      /\ mem_full' \in BOOLEAN /\ lru_list' \in Seq(Frames)
      /\ Uses("lru") => lru_list' # <<>>
  BY <1>2, RefFuncFacts DEF Hit, MemoryInv, TypeOK
<1>4. /\ physmem' \in PhysicalMemory /\ got' \in Values \cup {NULL}
      /\ request' \in (Vpns \X TraceOffsets) \cup {NULL}
  BY <1>2, TouchFacts DEF Hit, MemoryInv, TypeOK, PhysicalMemory
<1>5. queue' \in Seq(Table) /\ recent' \in SUBSET Table
  <2>1. queue' \in Seq(Table)
    BY ListFacts DEF Hit, MemoryInv, TypeOK
  <2> QED BY <2>1 DEF Hit, Referenced, MemoryInv, TypeOK
<1>6. flag' \in [Table -> SUBSET {"VALID", "DIRTY", "ONSWAP"}]
  BY <1>1 DEF MemoryInv, TypeOK
<1>7. TypeOK'
  BY <1>1, <1>3, <1>4, <1>5, <1>6 DEF MemoryInv, TypeOK, PhysicalMemory
<1>8. \A q \in Table :
        /\ "VALID" \in flag'[q] <=> "VALID" \in flag[q]
        /\ "ONSWAP" \in flag'[q] <=> "ONSWAP" \in flag[q]
        /\ q # p => flag'[q] = flag[q]
  <2>1. \A q \in Table \ {p} : flag'[q] = flag[q]
    BY <1>1 DEF MemoryInv, TypeOK
  <2>2. flag'[p] = flag[p] \/ flag'[p] = flag[p] \cup {"DIRTY"}
    BY <1>1 DEF MemoryInv, TypeOK
  <2>3. /\ "VALID" \in flag'[p] <=> "VALID" \in flag[p]
        /\ "ONSWAP" \in flag'[p] <=> "ONSWAP" \in flag[p]
    BY <2>2
  <2> QED BY <2>1, <2>3
<1>9. "ONSWAP" \notin flag[p]
  BY <1>1 DEF MemoryInv, FramesMatchPages
<1>10. FramesMatchPages'
  <2>1. \A q \in Table : "ONSWAP" \in flag'[q] => flag'[q] = {"ONSWAP"}
    <3> SUFFICES ASSUME NEW q \in Table, "ONSWAP" \in flag'[q]
                 PROVE  flag'[q] = {"ONSWAP"}
      OBVIOUS
    <3>1. "ONSWAP" \in flag[q] /\ q # p
      BY <1>8, <1>9
    <3> QED BY <1>8, <3>1 DEF MemoryInv, FramesMatchPages
  <2> QED BY <1>1, <1>8, <2>1 DEF MemoryInv, TypeOK, FramesMatchPages
<1>11. AbsentPages'
  BY <1>1, <1>8 DEF MemoryInv, AbsentPages
<1>12. LruHasVictim'
  BY <1>3 DEF LruHasVictim, Uses
<1>13. SlotsOwned'
  BY <1>1 DEF MemoryInv, SlotsOwned
<1>14. SwappedOnlyWhenFull'
  BY <1>1, <1>8 DEF MemoryInv, SwappedOnlyWhenFull
<1>15. HandAtFirstFree'
  <2> SUFFICES ASSUME Uses("clock") PROVE HandAtFirstFree'
    BY DEF HandAtFirstFree, Uses
  <2>1. ~ mem_full => frame[p] # hand
    BY <1>2 DEF MemoryInv, TypeOK, HandAtFirstFree, Frames
  <2>2. hand' = hand \/ mem_full
    BY <2>1 DEF Hit, RefFunc
  <2>3. mem_full' = mem_full
    BY <2>1 DEF Hit, RefFunc, MemoryInv, TypeOK
  <2> QED BY <1>1, <2>2, <2>3 DEF MemoryInv, HandAtFirstFree, Uses
<1> QED BY <1>7, <1>10, <1>11, <1>12, <1>13, <1>14, <1>15 DEF MemoryInv

\* The first free frame holds no page, and is where clock's hand waits.
LEMMA MissFreeStep ==
    ASSUME MemoryInv, replacement_alg' = replacement_alg,
           NEW p \in Table, NEW vpn \in Vpns, NEW o \in TraceOffsets,
           NEW type, NEW val \in Values, MissFree(p, vpn, o, type, val)
    PROVE  MemoryInv'
<1> DEFINE f == First(FreeFrames)
<1>1. f \in FreeFrames /\ \A g \in FreeFrames : f <= g
  <2>1. FreeFrames \in SUBSET Nat
    BY DEF FreeFrames, Frames
  <2>2. FreeFrames # {}
    BY DEF MissFree
  <2> QED BY <2>1, <2>2, FirstFacts
<1>2. /\ "VALID" \notin flag[p]
      /\ flag' = [flag EXCEPT ![p] = NewFlag(p, type)]
      /\ frame' = [frame EXCEPT ![p] = f]
      /\ in_use' = [in_use EXCEPT ![f] = TRUE]
      /\ pte' = [pte EXCEPT ![f] = p]
      /\ RefFunc(f, p, ref, hand, lru_list)
      /\ Touch(vpn, o, type, val, f,
               IF flag[p] = {} THEN Filled(f, ZeroPage) ELSE physmem)
      /\ queue' = Append(queue, p)
      /\ recent' = Referenced(p, recent)
      /\ UNCHANGED <<swap_offset, swapmap, swapfile, outcome>>
  BY DEF MissFree, swap
<1> HIDE DEF f
<1>3. f \in Frames /\ ~ in_use[f]
  BY <1>1 DEF FreeFrames
<1>4. pte[f] = NULL
  BY <1>3 DEF MemoryInv, FramesMatchPages
<1>5. \A g \in Frames : pte[g] # p
  <2>1. p # NULL
    BY DEF Table
  <2> QED BY <1>2, <2>1 DEF MemoryInv, FramesMatchPages
<1>6. /\ NewFlag(p, type) \in SUBSET {"VALID", "DIRTY", "ONSWAP"}
      /\ "VALID" \in NewFlag(p, type) /\ "ONSWAP" \notin NewFlag(p, type)
  BY DEF NewFlag
<1>7. /\ ref' \in [Table -> BOOLEAN] /\ hand' \in Frames
      /\ mem_full' \in BOOLEAN /\ lru_list' \in Seq(Frames)
      /\ Uses("lru") => lru_list' # <<>>
  BY <1>2, <1>3, RefFuncFacts DEF MemoryInv, TypeOK
<1>8. /\ physmem' \in PhysicalMemory /\ got' \in Values \cup {NULL}
      /\ request' \in (Vpns \X TraceOffsets) \cup {NULL}
  <2>1. physmem \in PhysicalMemory
    BY DEF MemoryInv, TypeOK, PhysicalMemory
  <2>2. ZeroPage \in [PageBytes -> Values]
    BY DEF ZeroPage
  <2>3. Filled(f, ZeroPage) \in PhysicalMemory
    BY <1>3, <2>1, <2>2, PageFacts
  <2> QED BY <1>2, <1>3, <2>1, <2>3, TouchFacts
<1>9. TypeOK'
  <2>1. /\ flag' \in [Table -> SUBSET {"VALID", "DIRTY", "ONSWAP"}]
        /\ frame' \in [Table -> Frames]
    BY <1>2, <1>3, <1>6 DEF MemoryInv, TypeOK
  <2>2. /\ in_use' \in [Frames -> BOOLEAN]
        /\ pte' \in [Frames -> Table \cup {NULL}]
    BY <1>2, <1>3 DEF MemoryInv, TypeOK
  <2>3. queue' \in Seq(Table)
    BY <1>2 DEF MemoryInv, TypeOK
  <2>4. recent' \in SUBSET Table
    BY <1>2 DEF Referenced, MemoryInv, TypeOK
  <2> QED BY <1>2, <1>7, <1>8, <2>1, <2>2, <2>3, <2>4
          DEF MemoryInv, TypeOK, PhysicalMemory
<1>10. /\ flag'[p] = NewFlag(p, type) /\ frame'[p] = f
       /\ in_use'[f] /\ pte'[f] = p
       /\ \A q \in Table \ {p} : flag'[q] = flag[q] /\ frame'[q] = frame[q]
       /\ \A g \in Frames \ {f} : in_use'[g] = in_use[g] /\ pte'[g] = pte[g]
  BY <1>2, <1>3 DEF MemoryInv, TypeOK
<1>11. FramesMatchPages'
  <2>1. ASSUME NEW q \in Table, "VALID" \in flag'[q]
        PROVE  in_use'[frame'[q]] /\ pte'[frame'[q]] = q
    <3>1. CASE q = p
      BY <1>10, <3>1
    <3>2. CASE q # p
      <4>1. in_use[frame[q]] /\ pte[frame[q]] = q /\ frame[q] \in Frames
        BY <1>10, <2>1, <3>2 DEF MemoryInv, TypeOK, FramesMatchPages
      <4> QED BY <1>3, <1>10, <3>2, <4>1
    <3> QED BY <3>1, <3>2
  <2>2. ASSUME NEW g \in Frames, pte'[g] # NULL
        PROVE  in_use'[g] /\ "VALID" \in flag'[pte'[g]] /\ frame'[pte'[g]] = g
    <3>1. CASE g = f
      BY <1>6, <1>10, <3>1
    <3>2. CASE g # f
      <4>1. /\ in_use[g] /\ pte[g] \in Table \ {p}
            /\ "VALID" \in flag[pte[g]] /\ frame[pte[g]] = g
        BY <1>5, <1>10, <2>2, <3>2 DEF MemoryInv, TypeOK, FramesMatchPages
      <4> QED BY <1>10, <3>2, <4>1
    <3> QED BY <3>1, <3>2
  <2>3. \A q \in Table : "ONSWAP" \in flag'[q] => flag'[q] = {"ONSWAP"}
    BY <1>6, <1>10 DEF MemoryInv, FramesMatchPages
  <2> QED BY <2>1, <2>2, <2>3 DEF FramesMatchPages
<1>12. AbsentPages'
  BY <1>6, <1>10 DEF MemoryInv, AbsentPages
<1>13. LruHasVictim'
  BY <1>7 DEF LruHasVictim, Uses
<1>14. SlotsOwned'
  BY <1>2 DEF MemoryInv, SlotsOwned
<1>15. SwappedOnlyWhenFull'
  BY <1>3, <1>6, <1>10 DEF MemoryInv, SwappedOnlyWhenFull
<1>16. HandAtFirstFree'
  <2> SUFFICES ASSUME Uses("clock") PROVE HandAtFirstFree'
    BY DEF HandAtFirstFree, Uses
  <2>1. ~ mem_full /\ \A g \in Frames : in_use[g] <=> g < hand
    BY <1>3 DEF MemoryInv, HandAtFirstFree
  <2>2. f = hand /\ hand \in 0 .. memsize - 1
    <3>1. hand \in FreeFrames
      BY <2>1 DEF MemoryInv, TypeOK, FreeFrames, Frames
    <3> QED BY <1>1, <1>3, <2>1, <3>1 DEF Frames
  <2>3. /\ hand' = (hand + 1) % memsize
        /\ mem_full' <=> hand = memsize - 1
    BY <1>2, <2>1, <2>2 DEF RefFunc
  <2>4. \A g \in Frames : in_use'[g] <=> g <= hand
    BY <1>10, <2>1, <2>2 DEF Frames
  <2>5. mem_full' <=> \A g \in Frames : in_use'[g]
    BY <2>2, <2>3, <2>4 DEF Frames
  <2>6. ~ mem_full' => \A g \in Frames : in_use'[g] <=> g < hand'
    <3>1. ~ mem_full' => hand' = hand + 1
      BY <2>2, <2>3
    <3> QED BY <2>2, <2>4, <3>1 DEF Frames
  <2> QED BY <2>5, <2>6 DEF HandAtFirstFree
<1> QED BY <1>9, <1>11, <1>12, <1>13, <1>14, <1>15, <1>16 DEF MemoryInv

\* A page-out keeps or takes a slot that no other page has.
LEMMA PageOutFacts ==
    ASSUME MemoryInv, NEW q \in Table, NEW f \in Frames, PageOut(q, f)
    PROVE  /\ swapmap' \in SUBSET Slots
           /\ swapfile' \in [Slots -> [PageBytes -> Values]]
           /\ swap_offset' \in [Table -> Slots \cup {INVALID_SWAP}]
           /\ SlotsOwned'
           /\ swap_offset'[q] # INVALID_SWAP =>
                swapfile'[swap_offset'[q]] = HeldPage(f)
           /\ \A p \in Table \ {q} :
                /\ swap_offset'[p] = swap_offset[p]
                /\ swap_offset[p] # INVALID_SWAP =>
                        swapfile'[swap_offset[p]] = swapfile[swap_offset[p]]
<1> DEFINE s == SlotOf(q)
<1>1. /\ swap_offset \in [Table -> Slots \cup {INVALID_SWAP}]
      /\ swapmap \in SUBSET Slots
      /\ swapfile \in [Slots -> [PageBytes -> Values]]
      /\ SlotsOwned
  BY DEF MemoryInv, TypeOK
<1>2. INVALID_SWAP \notin Slots
  BY DEF INVALID_SWAP, Slots
<1>3. \/ s = INVALID_SWAP
      \/ s \in Slots \ swapmap
      \/ s = swap_offset[q] /\ s \in Slots
  <2>1. CASE swap_offset[q] # INVALID_SWAP
    BY <1>1, <2>1 DEF SlotOf
  <2>2. CASE swap_offset[q] = INVALID_SWAP /\ Slots \subseteq swapmap
    BY <2>2 DEF SlotOf
  <2>3. CASE swap_offset[q] = INVALID_SWAP /\ ~ (Slots \subseteq swapmap)
    <3>1. Slots \ swapmap \in SUBSET Nat /\ Slots \ swapmap # {}
      BY <2>3 DEF Slots
    <3>2. First(Slots \ swapmap) \in Slots \ swapmap
      BY <3>1, FirstFacts
    <3> QED BY <2>3, <3>2 DEF SlotOf
  <2> QED BY <2>1, <2>2, <2>3
<1>4. \A p \in Table \ {q} : s # INVALID_SWAP => swap_offset[p] # s
  BY <1>1, <1>2, <1>3 DEF SlotsOwned
<1>5. swapmap' = IF s = INVALID_SWAP THEN swapmap ELSE swapmap \cup {s}
  BY DEF PageOut, Taken
<1>6. \/ /\ s # INVALID_SWAP
         /\ swapfile' = [swapfile EXCEPT ![s] = HeldPage(f)]
         /\ swap_offset' = [swap_offset EXCEPT ![q] = s]
      \/ /\ swap_offset' = [swap_offset EXCEPT ![q] = INVALID_SWAP]
         /\ swapfile' = swapfile
  BY DEF PageOut
<1>7. HeldPage(f) \in [PageBytes -> Values]
  <2>1. physmem \in PhysicalMemory /\ ZeroPage \in [PageBytes -> Values]
    BY DEF MemoryInv, TypeOK, PhysicalMemory, ZeroPage
  <2> QED BY <2>1, PageFacts
<1> HIDE DEF s
<1>8. /\ swapmap' \in SUBSET Slots
      /\ swapmap \subseteq swapmap' /\ (s # INVALID_SWAP => s \in swapmap')
  BY <1>1, <1>3, <1>5
<1>9. swapfile' \in [Slots -> [PageBytes -> Values]]
  BY <1>1, <1>6, <1>7
<1>10. swap_offset' \in [Table -> Slots \cup {INVALID_SWAP}]
  BY <1>1, <1>3, <1>6
<1>11. /\ \A p \in Table \ {q} : swap_offset'[p] = swap_offset[p]
       /\ swap_offset'[q] \in {s, INVALID_SWAP}
  BY <1>1, <1>6
<1>12. SlotsOwned'
  <2> SUFFICES ASSUME NEW p \in Table, swap_offset'[p] # INVALID_SWAP
               PROVE  /\ swap_offset'[p] \in swapmap'
                      /\ \A r \in Table : r # p => swap_offset'[r] # swap_offset'[p]
    BY DEF SlotsOwned
  <2>1. CASE p = q
    BY <1>4, <1>8, <1>11, <2>1
  <2>2. CASE p # q
    BY <1>1, <1>4, <1>8, <1>11, <2>2 DEF SlotsOwned
  <2> QED BY <2>1, <2>2
<1>13. swap_offset'[q] # INVALID_SWAP =>
            swapfile'[swap_offset'[q]] = HeldPage(f)
  BY <1>1, <1>3, <1>6
<1>14. ASSUME NEW p \in Table \ {q}, swap_offset[p] # INVALID_SWAP
       PROVE  swapfile'[swap_offset[p]] = swapfile[swap_offset[p]]
  <2>1. swap_offset[p] # s \/ s = INVALID_SWAP
    BY <1>4
  <2> QED BY <1>1, <1>6, <1>14, <2>1
<1> QED BY <1>8, <1>9, <1>10, <1>11, <1>12, <1>13, <1>14

\* The victim's frame changes hands: its old page leaves the coremap in the
\* same step in which the new one enters it.
LEMMA MissEvictStep ==
    ASSUME MemoryInv, replacement_alg' = replacement_alg,
           NEW p \in Table, NEW vpn \in Vpns, NEW o \in TraceOffsets,
           NEW type, NEW val \in Values, MissEvict(p, vpn, o, type, val)
    PROVE  MemoryInv'
<1>1. PICK f \in Victims :
        /\ pte[f] # NULL
        /\ IF "DIRTY" \in flag[pte[f]] THEN PageOut(pte[f], f)
           ELSE UNCHANGED <<swap, swap_offset>>
        /\ flag' = [flag EXCEPT ![pte[f]] = EvictedFlag, ![p] = NewFlag(p, type)]
        /\ frame' = [frame EXCEPT ![pte[f]] = 0, ![p] = f]
        /\ pte' = [pte EXCEPT ![f] = p]
        /\ RefFunc(f, p, [k \in Table |-> SparedRef(k)], AdvancedHand, ShortenedList)
        /\ \/ Touch(vpn, o, type, val, f,
                    Filled(f, IF flag[p] = {} THEN ZeroPage
                              ELSE swapfile[swap_offset[p]]))
           \/ Touch(vpn, o, type, val, f, physmem)
        /\ queue' = Append(Without(queue, pte[f]), p)
        /\ recent' = Referenced(p, recent \ Passed)
        /\ UNCHANGED <<in_use, outcome>>
  BY DEF MissEvict
<1> DEFINE q == pte[f]
<1>2. "VALID" \notin flag[p] /\ CanRead(p) /\ FreeFrames = {}
  BY DEF MissEvict
<1>3. /\ f \in Frames /\ AdvancedHand \in Frames
      /\ ShortenedList \in Seq(Frames)
  BY <1>1, VictimFacts
<1>4. /\ q \in Table /\ "VALID" \in flag[q] /\ frame[q] = f /\ q # p
      /\ in_use[f]
  BY <1>1, <1>2, <1>3 DEF MemoryInv, TypeOK, FramesMatchPages
<1>5. \A g \in Frames : pte[g] # p
  <2>1. p # NULL
    BY DEF Table
  <2> QED BY <1>2, <2>1 DEF MemoryInv, FramesMatchPages
<1>6. /\ NewFlag(p, type) \in SUBSET {"VALID", "DIRTY", "ONSWAP"}
      /\ "VALID" \in NewFlag(p, type) /\ "ONSWAP" \notin NewFlag(p, type)
      /\ EvictedFlag = {"ONSWAP"} /\ "VALID" \notin EvictedFlag
  BY DEF NewFlag, EvictedFlag
<1>7. /\ ref' \in [Table -> BOOLEAN] /\ hand' \in Frames
      /\ mem_full' \in BOOLEAN /\ lru_list' \in Seq(Frames)
      /\ Uses("lru") => lru_list' # <<>>
  <2>1. [k \in Table |-> SparedRef(k)] \in [Table -> BOOLEAN]
    BY DEF SparedRef, MemoryInv, TypeOK
  <2>2. mem_full \in BOOLEAN
    BY DEF MemoryInv, TypeOK
  <2> QED BY <1>1, <1>3, <2>1, <2>2, RefFuncFacts
<1>8. /\ swapmap' \in SUBSET Slots
      /\ swapfile' \in [Slots -> [PageBytes -> Values]]
      /\ swap_offset' \in [Table -> Slots \cup {INVALID_SWAP}]
      /\ SlotsOwned'
  <2>1. CASE "DIRTY" \in flag[q]
    BY <1>1, <1>3, <1>4, <2>1, PageOutFacts
  <2>2. CASE "DIRTY" \notin flag[q]
    <3>1. UNCHANGED <<swapmap, swapfile, swap_offset>>
      BY <1>1, <2>2 DEF swap
    <3> QED BY <3>1 DEF MemoryInv, TypeOK, SlotsOwned
  <2> QED BY <2>1, <2>2
<1>9. /\ physmem' \in PhysicalMemory /\ got' \in Values \cup {NULL}
      /\ request' \in (Vpns \X TraceOffsets) \cup {NULL}
  <2>1. physmem \in PhysicalMemory
    BY DEF MemoryInv, TypeOK, PhysicalMemory
  <2>2. flag[p] # {} => swapfile[swap_offset[p]] \in [PageBytes -> Values]
    <3>1. flag[p] # {} => swap_offset[p] # INVALID_SWAP
      BY <1>2 DEF MemoryInv, AbsentPages, CanRead
    <3> QED BY <3>1 DEF MemoryInv, TypeOK
  <2>3. ZeroPage \in [PageBytes -> Values]
    BY DEF ZeroPage
  <2>4. Filled(f, IF flag[p] = {} THEN ZeroPage ELSE swapfile[swap_offset[p]])
            \in PhysicalMemory
    BY <1>3, <2>1, <2>2, <2>3, PageFacts
  <2> QED BY <1>1, <1>3, <2>1, <2>4, TouchFacts
<1>10. queue' \in Seq(Table) /\ recent' \in SUBSET Table
  <2>1. queue \in Seq(Table)
    BY DEF MemoryInv, TypeOK
  <2>2. Without(queue, q) \in Seq(Table)
    BY <1>4, <2>1, ListFacts
  <2>3. queue' \in Seq(Table)
    BY <1>1, <2>2
  <2>4. recent' \in SUBSET Table
    BY <1>1 DEF Referenced, MemoryInv, TypeOK
  <2> QED BY <2>3, <2>4
<1>11. TypeOK'
  <2>1. flag' \in [Table -> SUBSET {"VALID", "DIRTY", "ONSWAP"}]
    BY <1>1, <1>4, <1>6 DEF MemoryInv, TypeOK
  <2>2. frame' \in [Table -> Frames]
    <3>1. 0 \in Frames
      BY DEF Frames
    <3> QED BY <1>1, <1>3, <1>4, <3>1 DEF MemoryInv, TypeOK
  <2>3. pte' \in [Frames -> Table \cup {NULL}]
    BY <1>1, <1>3 DEF MemoryInv, TypeOK
  <2> QED BY <1>1, <1>7, <1>8, <1>9, <1>10, <2>1, <2>2, <2>3
          DEF MemoryInv, TypeOK, PhysicalMemory
<1>12. /\ flag'[p] = NewFlag(p, type) /\ flag'[q] = {"ONSWAP"}
       /\ frame'[p] = f /\ pte'[f] = p /\ in_use' = in_use
       /\ \A k \in Table \ {p, q} : flag'[k] = flag[k] /\ frame'[k] = frame[k]
       /\ \A g \in Frames \ {f} : pte'[g] = pte[g]
  BY <1>1, <1>3, <1>4, <1>6 DEF MemoryInv, TypeOK
<1> HIDE DEF q
<1>13. FramesMatchPages'
  <2>1. ASSUME NEW k \in Table, "VALID" \in flag'[k]
        PROVE  in_use'[frame'[k]] /\ pte'[frame'[k]] = k
    <3>1. CASE k = p
      BY <1>4, <1>12, <3>1
    <3>2. CASE k # p
      <4>1. k # q
        BY <1>12, <2>1
      <4>2. /\ in_use[frame[k]] /\ pte[frame[k]] = k /\ frame[k] \in Frames
            /\ frame'[k] = frame[k]
        BY <1>12, <2>1, <3>2, <4>1 DEF MemoryInv, TypeOK, FramesMatchPages
      <4>3. frame[k] # f
        BY <4>1, <4>2 DEF q
      <4> QED BY <1>12, <4>2, <4>3
    <3> QED BY <3>1, <3>2
  <2>2. ASSUME NEW g \in Frames, pte'[g] # NULL
        PROVE  in_use'[g] /\ "VALID" \in flag'[pte'[g]] /\ frame'[pte'[g]] = g
    <3>1. CASE g = f
      BY <1>4, <1>6, <1>12, <3>1
    <3>2. CASE g # f
      <4>1. /\ in_use[g] /\ pte[g] \in Table \ {p}
            /\ "VALID" \in flag[pte[g]] /\ frame[pte[g]] = g
        BY <1>5, <1>12, <2>2, <3>2 DEF MemoryInv, TypeOK, FramesMatchPages
      <4>2. pte[g] # q
        BY <1>4, <3>2, <4>1
      <4> QED BY <1>12, <3>2, <4>1, <4>2
    <3> QED BY <3>1, <3>2
  <2>3. \A k \in Table : "ONSWAP" \in flag'[k] => flag'[k] = {"ONSWAP"}
    BY <1>6, <1>12 DEF MemoryInv, FramesMatchPages
  <2> QED BY <2>1, <2>2, <2>3 DEF FramesMatchPages
<1>14. AbsentPages'
  BY <1>6, <1>12 DEF MemoryInv, AbsentPages
<1>15. LruHasVictim'
  BY <1>7 DEF LruHasVictim, Uses
<1>16. \A g \in Frames : in_use[g]
  BY <1>2 DEF FreeFrames
<1>17. SwappedOnlyWhenFull'
  BY <1>12, <1>16 DEF SwappedOnlyWhenFull
<1>18. HandAtFirstFree'
  <2> SUFFICES ASSUME Uses("clock") PROVE HandAtFirstFree'
    BY DEF HandAtFirstFree, Uses
  <2>1. mem_full'
    BY <1>1, <1>16 DEF RefFunc, MemoryInv, HandAtFirstFree
  <2> QED BY <1>12, <1>16, <2>1 DEF HandAtFirstFree
<1> QED BY <1>8, <1>11, <1>13, <1>14, <1>15, <1>17, <1>18 DEF MemoryInv

\* A process that ends leaves the state as it is.
LEMMA StopStep ==
    ASSUME MemoryInv, replacement_alg' = replacement_alg,
           NEW end \in {"aborted", "undefined"}, Stop(end)
    PROVE  MemoryInv'
<1>1. /\ UNCHANGED <<flag, frame, ref, swap_offset, in_use, pte, physmem, swapmap,
                     swapfile, hand, mem_full, lru_list, request, got, queue,
                     recent>>
      /\ outcome' = end
  BY DEF Stop, table, coremap, swap, policy
<1>2. TypeOK'
  BY <1>1 DEF MemoryInv, TypeOK
<1> QED BY <1>1, <1>2 DEF MemoryInv, FramesMatchPages, AbsentPages, LruHasVictim,
        SlotsOwned, SwappedOnlyWhenFull, HandAtFirstFree, Uses

\* One step, whichever it is.
LEMMA MemoryStep == MemoryInv /\ [Next]_vars => MemoryInv'
<1> SUFFICES ASSUME MemoryInv, [Next]_vars PROVE MemoryInv'
  OBVIOUS
<1>1. ASSUME NEW type \in Types, NEW vpn \in Vpns, NEW o \in TraceOffsets,
             NEW val \in Values, access_mem(type, vpn, o, val)
      PROVE  MemoryInv'
  <2> DEFINE p == Index(vpn)
  <2>1. /\ replacement_alg' = replacement_alg
        /\ \/ OutOfTable(p)
           \/ /\ p \in Table
              /\ \/ Hit(p, vpn, o, type, val)
                 \/ MissFree(p, vpn, o, type, val)
                 \/ MissEvict(p, vpn, o, type, val)
                 \/ MissLost(p)
                 \/ EvictUnowned(p)
    BY <1>1 DEF access_mem
  <2> HIDE DEF p
  <2>2. CASE OutOfTable(p)
    BY <2>1, <2>2, StopStep DEF OutOfTable
  <2>3. CASE p \in Table /\ Hit(p, vpn, o, type, val)
    BY <2>1, <2>3, HitStep
  <2>4. CASE p \in Table /\ MissFree(p, vpn, o, type, val)
    BY <2>1, <2>4, MissFreeStep
  <2>5. CASE p \in Table /\ MissEvict(p, vpn, o, type, val)
    BY <2>1, <2>5, MissEvictStep
  <2>6. CASE MissLost(p)
    BY <2>1, <2>6, StopStep DEF MissLost
  <2>7. CASE EvictUnowned(p)
    BY <2>1, <2>7, StopStep DEF EvictUnowned
  <2> QED BY <2>1, <2>2, <2>3, <2>4, <2>5, <2>6, <2>7
<1>2. CASE UNCHANGED vars
  <2>1. UNCHANGED <<replacement_alg, flag, frame, ref, swap_offset, in_use, pte,
                    physmem, swapmap, swapfile, hand, mem_full, lru_list, outcome,
                    request, got, queue, recent>>
    BY <1>2 DEF vars, table, coremap, swap, policy
  <2>2. TypeOK'
    BY <2>1 DEF MemoryInv, TypeOK
  <2> QED BY <2>1, <2>2 DEF MemoryInv, FramesMatchPages, AbsentPages, LruHasVictim,
          SlotsOwned, SwappedOnlyWhenFull, HandAtFirstFree, Uses
<1> QED BY <1>1, <1>2 DEF Next, Ended

\* The state main leaves before it replays the trace.
LEMMA InitFacts == Init => MemoryInv
<1> SUFFICES ASSUME Init PROVE MemoryInv
  OBVIOUS
<1>1. TypeOK
  <2>1. /\ flag \in [Table -> SUBSET {"VALID", "DIRTY", "ONSWAP"}]
        /\ frame \in [Table -> Frames] /\ ref \in [Table -> BOOLEAN]
        /\ swap_offset \in [Table -> Slots \cup {INVALID_SWAP}]
    BY DEF Init, Frames
  <2>2. /\ in_use \in [Frames -> BOOLEAN]
        /\ pte \in [Frames -> Table \cup {NULL}]
        /\ physmem \in [0 .. memsize * SIMPAGESIZE -> Values]
        /\ swapmap \in SUBSET Slots
        /\ swapfile \in [Slots -> [PageBytes -> Values]]
    BY DEF Init
  <2>3. lru_list \in Seq(Frames) /\ queue \in Seq(Table)
    BY EmptySeq DEF Init
  <2>4. hand \in Frames
    BY DEF Init, Frames
  <2>5. mem_full \in BOOLEAN /\ replacement_alg \in Algorithms
    BY Zenon DEF Init
  <2>6. outcome = "run" /\ request = NULL /\ got = NULL /\ recent = {}
    BY DEF Init
  <2> QED BY <2>1, <2>2, <2>3, <2>4, <2>5, <2>6 DEF TypeOK
<1>2. FramesMatchPages /\ AbsentPages /\ SlotsOwned /\ SwappedOnlyWhenFull
  BY DEF Init, FramesMatchPages, AbsentPages, SlotsOwned, SwappedOnlyWhenFull
<1>3. LruHasVictim
  BY DEF Init, LruHasVictim
<1>4. HandAtFirstFree
  BY DEF Init, HandAtFirstFree, Frames
<1> QED BY <1>1, <1>2, <1>3, <1>4 DEF MemoryInv

\* The page table, the coremap, the swap file and clock's hand agree in every
\* state.
LEMMA MemoryInvariance == Spec => []MemoryInv
<1> QED BY InitFacts, MemoryStep, PTL DEF Spec

-----------------------------------------------------------------------------
(* What the invariant gives. *)

\* Every reference of every trace keeps the types of the state: frames, slots
\* and bytes that find_physpage, evict_func and swap_pageout compute exist.  The
\* accesses for which that is false, to an entry outside the page table and to
\* the page of a frame that has none, end the model (OutOfTable, EvictUnowned).
THEOREM TypeCorrect == Spec => []TypeOK
<1>1. MemoryInv => TypeOK
  BY DEF MemoryInv
<1> QED BY <1>1, MemoryInvariance, PTL

\* No two pages share a frame: allocate_frame and find_physpage keep page table
\* and coremap inverse to each other, whatever the algorithm and the trace.
THEOREM FramesCorrect == Spec => []FramesMatchPages
<1>1. MemoryInv => FramesMatchPages
  BY DEF MemoryInv
<1> QED BY <1>1, MemoryInvariance, PTL

\* No two pages share a slot of the swap file, although swap_pageout loses
\* slots when it fails or finds none free.
THEOREM SlotsCorrect == Spec => []SlotsApart
<1>1. MemoryInv => SlotsApart
  BY DEF MemoryInv, SlotsOwned, SlotsApart
<1> QED BY <1>1, MemoryInvariance, PTL

\* allocate_frame need not read the swap file on its path with a free frame.
THEOREM PageInCorrect == Spec => []SwappedOnlyWhenFull
<1>1. MemoryInv => SwappedOnlyWhenFull
  BY DEF MemoryInv
<1> QED BY <1>1, MemoryInvariance, PTL

\* clock's hand waits at the first free frame, whatever hits come between the
\* first misses, so the eviction starts at the page loaded first.
THEOREM HandCorrect == Spec => []HandAtFirstFree
<1>1. MemoryInv => HandAtFirstFree
  BY DEF MemoryInv
<1> QED BY <1>1, MemoryInvariance, PTL

-----------------------------------------------------------------------------
(* Going around the frames. *)

HIDE SizesAssumption
HIDE TraceAssumption

\* Where n < 2 * memsize steps from frame 0 lead.
Around(n) == IF n < memsize THEN n ELSE n - memsize

\* Counting frames modulo their number is going around once.
LEMMA AroundOnce ==
    ASSUME NEW n \in 0 .. 2 * memsize - 1
    PROVE  n % memsize = Around(n)
<1>1. memsize \in Nat \ {0}
  BY SizesAssumption
<1>2. CASE n < memsize
  BY <1>1, <1>2 DEF Around
<1>3. CASE n >= memsize
  BY <1>1, <1>3 DEF Around
<1> QED BY <1>1, <1>2, <1>3

\* The hand reaches every frame in less than memsize steps, at different ones.
LEMMA AheadFacts ==
    ASSUME hand \in Frames
    PROVE  /\ \A n \in 0 .. memsize : Ahead(n) = Around(hand + n)
           /\ \A f \in Frames : \E n \in 0 .. memsize - 1 : Ahead(n) = f
<1>1. memsize \in Nat \ {0} /\ hand \in 0 .. memsize - 1
  BY SizesAssumption DEF Frames
<1>2. ASSUME NEW n \in 0 .. memsize PROVE Ahead(n) = Around(hand + n)
  <2>1. hand + n \in 0 .. 2 * memsize - 1
    BY <1>1
  <2> QED BY <2>1, AroundOnce DEF Ahead
<1>3. ASSUME NEW f \in Frames PROVE \E n \in 0 .. memsize - 1 : Ahead(n) = f
  <2>1. CASE f >= hand
    <3>1. f - hand \in 0 .. memsize - 1 /\ Around(hand + (f - hand)) = f
      BY <1>1, <2>1 DEF Frames, Around
    <3> QED BY <1>1, <1>2, <3>1
  <2>2. CASE f < hand
    <3>1. /\ f - hand + memsize \in 0 .. memsize - 1
          /\ Around(hand + (f - hand + memsize)) = f
      BY <1>1, <2>2 DEF Frames, Around
    <3> QED BY <1>1, <1>2, <3>1
  <2> QED BY <1>1, <2>1, <2>2 DEF Frames
<1> QED BY <1>2, <1>3

-----------------------------------------------------------------------------
(* clock. *)

\* Where the sweep of clock stops: at the first page without a reference bit,
\* or, when all of them have one, where it began.
LEMMA SweepEnds ==
    ASSUME MemoryInv
    PROVE  /\ SecondChances \in Nat
           /\ \/ ~ ref[pte[Ahead(SecondChances)]]
              \/ /\ \A f \in Frames : ref[pte[f]]
                 /\ SecondChances = memsize
                 /\ Ahead(memsize) = hand /\ Ahead(0) = hand
<1> DEFINE tries == {n \in 0 .. memsize - 1 : ~ ref[pte[Ahead(n)]]}
<1>1. memsize \in Nat \ {0} /\ hand \in Frames
  BY SizesAssumption DEF MemoryInv, TypeOK
<1>2. CASE tries = {}
  <2>1. \A f \in Frames : \E n \in 0 .. memsize - 1 : Ahead(n) = f
    BY <1>1, AheadFacts
  <2>2. \A f \in Frames : ref[pte[f]]
    BY <1>2, <2>1
  <2>3. SecondChances = memsize
    BY <1>2 DEF SecondChances
  <2>4. Ahead(memsize) = Around(hand + memsize) /\ Ahead(0) = Around(hand + 0)
    BY <1>1, AheadFacts
  <2>5. Around(hand + memsize) = hand /\ Around(hand + 0) = hand
    BY <1>1 DEF Around, Frames
  <2> QED BY <1>1, <2>2, <2>3, <2>4, <2>5
<1>3. CASE tries # {}
  <2>1. tries \in SUBSET Nat
    BY <1>1
  <2>2. First(tries) \in tries /\ First(tries) \in Nat
    BY <1>3, <2>1, FirstFacts
  <2>3. SecondChances = First(tries)
    BY <1>3 DEF SecondChances
  <2> QED BY <2>2, <2>3
<1> QED BY <1>2, <1>3

\* The sweep takes the reference bits of the pages its hand passes, and of no
\* other.
LEMMA SweepClears ==
    ASSUME MemoryInv, Uses("clock"), NEW p \in Table
    PROVE  SparedRef(p) <=> ref[p] /\ p \notin Passed
<1>1. memsize \in Nat \ {0} /\ SecondChances \in Nat
  BY SweepEnds, SizesAssumption
<1>2. p \notin Passed <=> \A n \in 0 .. SecondChances : pte[Ahead(n)] # p
  BY DEF Passed
<1>3. SparedRef(p) <=> ref[p] /\ \A n \in 0 .. SecondChances - 1 : pte[Ahead(n)] # p
  BY DEF SparedRef
<1>4. ref[p] /\ (\A n \in 0 .. SecondChances - 1 : pte[Ahead(n)] # p)
        => pte[Ahead(SecondChances)] # p
  <2>1. CASE ~ ref[pte[Ahead(SecondChances)]]
    BY <2>1
  <2>2. CASE SecondChances = memsize /\ Ahead(memsize) = hand /\ Ahead(0) = hand
    <3>1. 0 \in 0 .. SecondChances - 1 /\ Ahead(SecondChances) = Ahead(0)
      BY <1>1, <2>2
    <3> QED BY <3>1
  <2> QED BY <2>1, <2>2, SweepEnds
<1>5. \A n \in 0 .. SecondChances : n \in 0 .. SecondChances - 1 \/ n = SecondChances
  BY <1>1
<1>6. \A n \in 0 .. SecondChances - 1 : n \in 0 .. SecondChances
  BY <1>1
<1> QED BY <1>2, <1>3, <1>4, <1>5, <1>6

\* A page has its reference bit just when it was referenced since the hand
\* last passed it.
BitsAreRecent == Uses("clock") => \A p \in Table : ref[p] <=> p \in recent

\* Every reference keeps the bits true to the history.
LEMMA RecentStep == MemoryInv /\ BitsAreRecent /\ [Next]_vars => BitsAreRecent'
<1> SUFFICES ASSUME MemoryInv, BitsAreRecent, [Next]_vars, Uses("clock")'
             PROVE  \A k \in Table : ref'[k] <=> k \in recent'
  BY DEF BitsAreRecent
<1>1. CASE UNCHANGED <<replacement_alg, ref, recent>>
  BY <1>1 DEF BitsAreRecent, Uses
<1>2. ASSUME NEW type \in Types, NEW vpn \in Vpns, NEW o \in TraceOffsets,
             NEW val \in Values, access_mem(type, vpn, o, val)
      PROVE  \A k \in Table : ref'[k] <=> k \in recent'
  <2> DEFINE p == Index(vpn)
  <2>1. /\ replacement_alg' = replacement_alg
        /\ \/ OutOfTable(p)
           \/ /\ p \in Table
              /\ \/ Hit(p, vpn, o, type, val)
                 \/ MissFree(p, vpn, o, type, val)
                 \/ MissEvict(p, vpn, o, type, val)
                 \/ MissLost(p)
                 \/ EvictUnowned(p)
    BY <1>2 DEF access_mem
  <2> HIDE DEF p
  <2>2. Uses("clock") /\ ref \in [Table -> BOOLEAN]
    BY <2>1 DEF Uses, MemoryInv, TypeOK
  <2>3. \A k \in Table : ref[k] <=> k \in recent
    BY <2>2 DEF BitsAreRecent
  <2>4. CASE OutOfTable(p) \/ MissLost(p) \/ EvictUnowned(p)
    <3>1. UNCHANGED <<ref, recent>>
      BY <2>4 DEF OutOfTable, MissLost, EvictUnowned, Stop, table
    <3> QED BY <1>1, <2>1, <3>1
  <2>5. CASE p \in Table /\ (Hit(p, vpn, o, type, val) \/ MissFree(p, vpn, o, type, val))
    <3>1. recent' = recent \cup {p}
      BY <2>2, <2>5 DEF Hit, MissFree, Referenced
    <3>2. ref' = [ref EXCEPT ![p] = ref[p] \/ Uses("clock")]
      BY <2>5 DEF Hit, MissFree, RefFunc
    <3>3. ref'[p] /\ \A k \in Table \ {p} : ref'[k] = ref[k]
      BY <2>2, <2>5, <3>2
    <3> QED BY <2>3, <2>5, <3>1, <3>3
  <2>6. CASE p \in Table /\ MissEvict(p, vpn, o, type, val)
    <3>1. recent' = (recent \ Passed) \cup {p}
      BY <2>2, <2>6 DEF MissEvict, Referenced
    <3> DEFINE refs == [k \in Table |-> SparedRef(k)]
    <3>2. ref' = [refs EXCEPT ![p] = refs[p] \/ Uses("clock")]
      BY <2>6 DEF MissEvict, RefFunc
    <3>3. ref'[p] /\ \A k \in Table \ {p} : ref'[k] = SparedRef(k)
      BY <2>2, <2>6, <3>2
    <3>4. \A k \in Table : SparedRef(k) <=> ref[k] /\ k \notin Passed
      BY <2>2, SweepClears
    <3> QED BY <2>3, <2>6, <3>1, <3>3, <3>4
  <2> QED BY <2>1, <2>4, <2>5, <2>6
<1>3. UNCHANGED vars => UNCHANGED <<replacement_alg, ref, recent>>
  BY DEF vars, table
<1> QED BY <1>1, <1>2, <1>3 DEF Next, Ended

\* Only an eviction makes a page invalid, and the page is the victim's.
LEMMA Evicted ==
    ASSUME MemoryInv, [Next]_vars, NEW q \in Table,
           "VALID" \in flag[q], "VALID" \notin flag'[q]
    PROVE  \E f \in Victims : pte[f] = q
<1>1. flag' # flag
  OBVIOUS
<1>2. PICK type \in Types, vpn \in Vpns, o \in TraceOffsets, val \in Values :
        access_mem(type, vpn, o, val)
  BY <1>1 DEF Next, Ended, vars, table
<1> DEFINE p == Index(vpn)
<1>3. \/ OutOfTable(p)
      \/ /\ p \in Table
         /\ \/ Hit(p, vpn, o, type, val)
            \/ MissFree(p, vpn, o, type, val)
            \/ MissEvict(p, vpn, o, type, val)
            \/ MissLost(p)
            \/ EvictUnowned(p)
  BY <1>2 DEF access_mem
<1> HIDE DEF p
<1>4. ~ (OutOfTable(p) \/ MissLost(p) \/ EvictUnowned(p))
  BY <1>1 DEF OutOfTable, MissLost, EvictUnowned, Stop, table
<1>5. ~ (p \in Table /\ Hit(p, vpn, o, type, val))
  BY DEF Hit, MemoryInv, TypeOK
<1>6. ~ (p \in Table /\ MissFree(p, vpn, o, type, val))
  BY DEF MissFree, NewFlag, MemoryInv, TypeOK
<1>7. CASE p \in Table /\ MissEvict(p, vpn, o, type, val)
  <2>1. PICK f \in Victims :
          flag' = [flag EXCEPT ![pte[f]] = EvictedFlag, ![p] = NewFlag(p, type)]
    BY <1>7 DEF MissEvict
  <2>2. "VALID" \in NewFlag(p, type)
    BY DEF NewFlag
  <2> QED BY <1>7, <2>1, <2>2 DEF MemoryInv, TypeOK
<1> QED BY <1>3, <1>4, <1>5, <1>6, <1>7

\* clock_evict takes a page that was referenced since its hand last passed it
\* only when all pages in memory were, and then the one the hand is at.
THEOREM SecondChanceCorrect == Spec => SecondChance
<1>1. Init => BitsAreRecent
  BY DEF Init, BitsAreRecent
<1>2. ASSUME MemoryInv, BitsAreRecent, [Next]_vars, Uses("clock"),
             NEW p \in recent, "VALID" \in flag[p], "VALID" \notin flag'[p]
      PROVE  (\A q \in Table : "VALID" \in flag[q] => q \in recent) /\ pte[hand] = p
  <2>1. p \in Table /\ ref[p]
    BY <1>2 DEF BitsAreRecent, MemoryInv, TypeOK
  <2>2. PICK f \in Victims : pte[f] = p
    BY <1>2, <2>1, Evicted
  <2>3. f = Ahead(SecondChances)
    BY <1>2, <2>2 DEF Victims, clock_evict, Uses
  <2>4. (\A g \in Frames : ref[pte[g]]) /\ f = hand
    BY <1>2, <2>1, <2>2, <2>3, SweepEnds
  <2>5. ASSUME NEW q \in Table, "VALID" \in flag[q] PROVE q \in recent
    <3>1. frame[q] \in Frames /\ pte[frame[q]] = q
      BY <1>2, <2>5 DEF MemoryInv, TypeOK, FramesMatchPages
    <3>2. ref[q]
      BY <2>4, <3>1
    <3> QED BY <1>2, <3>2 DEF BitsAreRecent
  <2> QED BY <2>2, <2>4, <2>5
<1>3. MemoryInv /\ BitsAreRecent /\ [Next]_vars =>
        (Uses("clock") => \A p \in recent :
            "VALID" \in flag[p] /\ "VALID" \notin flag'[p] =>
                /\ \A q \in Table : "VALID" \in flag[q] => q \in recent
                /\ pte[hand] = p)
  BY <1>2
<1> QED BY <1>1, <1>3, RecentStep, MemoryInvariance, PTL DEF Spec, SecondChance

-----------------------------------------------------------------------------
(* Lists that move together. *)

\* Taking an element that occurs once out of a list closes the gap.
LEMMA WithoutFacts ==
    ASSUME NEW S, NEW list \in Seq(S), NEW k \in 1 .. Len(list),
           \A j \in 1 .. Len(list) : list[j] = list[k] => j = k
    PROVE  /\ Without(list, list[k]) \in Seq(S)
           /\ Len(Without(list, list[k])) = Len(list) - 1
           /\ \A i \in 1 .. Len(list) - 1 : Without(list, list[k])[i] =
                    IF i < k THEN list[i] ELSE list[i + 1]
<1> DEFINE front == SubSeq(list, 1, k - 1)
           back == SubSeq(list, k + 1, Len(list))
<1>1. Len(list) \in Nat /\ \A i \in 1 .. Len(list) : list[i] \in S
  BY LenProperties, ElementOfSeq
<1>2. Without(list, list[k]) = front \o back
  <2>1. Contains(list, list[k])
    BY DEF Contains
  <2>2. k = CHOOSE i \in 1 .. Len(list) : list[i] = list[k]
    OBVIOUS
  <2> QED BY <2>1, <2>2 DEF Without, RemoveAt
<1>3. /\ front \in Seq(S) /\ Len(front) = k - 1
      /\ \A i \in 1 .. k - 1 : front[i] = list[i]
  <2>1. \A i \in 1 .. k - 1 : list[i] \in S
    BY <1>1
  <2> QED BY <1>1, <2>1, SubSeqProperties
<1>4. /\ back \in Seq(S) /\ Len(back) = Len(list) - k
      /\ \A i \in 1 .. Len(list) - k : back[i] = list[k + i]
  <2>1. \A i \in k + 1 .. Len(list) : list[i] \in S
    BY <1>1
  <2> QED BY <1>1, <2>1, SubSeqProperties
<1> HIDE DEF front, back
<1>5. /\ front \o back \in Seq(S) /\ Len(front \o back) = Len(list) - 1
      /\ \A i \in 1 .. Len(list) - 1 :
            (front \o back)[i] = IF i <= k - 1 THEN front[i] ELSE back[i - (k - 1)]
  <2>1. /\ front \o back \in Seq(S)
        /\ Len(front \o back) = Len(front) + Len(back)
        /\ \A i \in 1 .. Len(front) + Len(back) : (front \o back)[i] =
                IF i <= Len(front) THEN front[i] ELSE back[i - Len(front)]
    BY <1>3, <1>4, ConcatProperties
  <2>2. Len(front) + Len(back) = Len(list) - 1
    BY <1>1, <1>3, <1>4
  <2> QED BY <1>3, <2>1, <2>2
<1> QED BY <1>1, <1>2, <1>3, <1>4, <1>5

\* Moving such an element to the end leaves it there once.
LEMMA MovedFacts ==
    ASSUME NEW S, NEW list \in Seq(S), NEW k \in 1 .. Len(list), NEW x \in S,
           \A j \in 1 .. Len(list) : list[j] = list[k] => j = k
    PROVE  LET moved == Append(Without(list, list[k]), x)
           IN  /\ moved \in Seq(S)
               /\ Len(moved) = Len(list)
               /\ \A i \in 1 .. Len(list) : moved[i] =
                        IF i = Len(list) THEN x
                        ELSE IF i < k THEN list[i] ELSE list[i + 1]
<1> DEFINE rest == Without(list, list[k])
<1>1. /\ rest \in Seq(S) /\ Len(rest) = Len(list) - 1 /\ Len(list) \in Nat
      /\ \A i \in 1 .. Len(list) - 1 : rest[i] = IF i < k THEN list[i] ELSE list[i + 1]
  BY WithoutFacts, LenProperties
<1> HIDE DEF rest
<1>2. /\ Append(rest, x) \in Seq(S) /\ Len(Append(rest, x)) = Len(list)
      /\ \A i \in 1 .. Len(list) : Append(rest, x)[i] =
            IF i = Len(list) THEN x ELSE rest[i]
  BY <1>1
<1>3. \A i \in 1 .. Len(list) : Append(rest, x)[i] =
            IF i = Len(list) THEN x
            ELSE IF i < k THEN list[i] ELSE list[i + 1]
  BY <1>1, <1>2
<1> QED BY <1>2, <1>3 DEF rest

\* A list of frames names the pages of a queue, and no frame twice.
Lists(list, que, ptes) ==
    /\ Len(list) = Len(que)
    /\ \A i \in 1 .. Len(que) : ptes[list[i]] = que[i]
    /\ \A i, j \in 1 .. Len(list) : list[i] = list[j] => i = j

\* If the frames hold their pages apart, the pages of the queue are apart.
LEMMA PagesApart ==
    ASSUME MemoryInv,
           NEW f \in Frames, NEW g \in Frames, pte[f] = pte[g], pte[f] # NULL
    PROVE  f = g
BY DEF MemoryInv, FramesMatchPages

-----------------------------------------------------------------------------
(* lru. *)

LruOrder == Uses("lru") => Lists(lru_list, queue, pte)

\* A hit moves the page and its frame to the ends of their lists.
LEMMA LruHit ==
    ASSUME MemoryInv, Lists(lru_list, queue, pte),
           NEW f \in Frames, NEW p \in Table, pte[f] = p
    PROVE  Lists(Append(Without(lru_list, f), f), Append(Without(queue, p), p), pte)
<1>1. /\ lru_list \in Seq(Frames) /\ queue \in Seq(Table)
      /\ Len(lru_list) \in Nat /\ Len(queue) = Len(lru_list)
      /\ \A i \in 1 .. Len(queue) : lru_list[i] \in Frames /\ pte[lru_list[i]] = queue[i]
      /\ \A i, j \in 1 .. Len(queue) : lru_list[i] = lru_list[j] => i = j
  BY LenProperties, ElementOfSeq DEF MemoryInv, TypeOK, Lists
<1>2. \A i \in 1 .. Len(queue) : queue[i] = p <=> lru_list[i] = f
  <2>1. p # NULL
    BY TraceAssumption DEF Table
  <2> QED BY <1>1, <2>1, PagesApart
<1>3. CASE Contains(lru_list, f)
  <2>1. PICK k \in 1 .. Len(lru_list) : lru_list[k] = f
    BY <1>3 DEF Contains
  <2>2. queue[k] = p
    BY <1>1, <1>2, <2>1
  <2>3. \A j \in 1 .. Len(lru_list) : lru_list[j] = lru_list[k] => j = k
    BY <1>1, <2>1
  <2>4. \A j \in 1 .. Len(queue) : queue[j] = queue[k] => j = k
    BY <1>1, <1>2, <2>1, <2>2
  <2> DEFINE l == Append(Without(lru_list, f), f)
             m == Append(Without(queue, p), p)
  <2>5. /\ Len(l) = Len(lru_list)
        /\ \A i \in 1 .. Len(lru_list) : l[i] =
                IF i = Len(lru_list) THEN f
                ELSE IF i < k THEN lru_list[i] ELSE lru_list[i + 1]
    <3>1. l = Append(Without(lru_list, lru_list[k]), f)
      BY <2>1
    <3> HIDE DEF l
    <3> QED BY <1>1, <2>3, <3>1, MovedFacts
  <2>6. /\ Len(m) = Len(queue)
        /\ \A i \in 1 .. Len(queue) : m[i] =
                IF i = Len(queue) THEN p
                ELSE IF i < k THEN queue[i] ELSE queue[i + 1]
    BY <1>1, <2>1, <2>2, <2>4, MovedFacts
  <2> HIDE DEF l, m
  <2>7. \A i \in 1 .. Len(queue) : pte[l[i]] = m[i]
    BY <1>1, <2>1, <2>5, <2>6
  <2>8. ASSUME NEW i \in 1 .. Len(queue), NEW j \in 1 .. Len(queue), l[i] = l[j]
        PROVE  i = j
    <3> DEFINE at(n) == IF n = Len(queue) THEN k ELSE IF n < k THEN n ELSE n + 1
    <3>1. /\ at(i) \in 1 .. Len(queue) /\ at(j) \in 1 .. Len(queue)
          /\ l[i] = lru_list[at(i)] /\ l[j] = lru_list[at(j)]
      BY <1>1, <2>1, <2>5
    <3>2. at(i) = at(j)
      BY <1>1, <2>8, <3>1
    <3> QED BY <1>1, <2>1, <3>2
  <2> QED BY <1>1, <2>5, <2>6, <2>7, <2>8 DEF Lists, l, m
<1>4. CASE ~ Contains(lru_list, f)
  <2>1. ~ Contains(queue, p)
    BY <1>1, <1>2, <1>4 DEF Contains
  <2>2. Without(lru_list, f) = lru_list /\ Without(queue, p) = queue
    BY <1>4, <2>1 DEF Without
  <2>3. \A i \in 1 .. Len(queue) : lru_list[i] # f
    BY <1>1, <1>4 DEF Contains
  <2> QED BY <1>1, <2>2, <2>3 DEF Lists
<1> QED BY <1>3, <1>4

\* A frame that was free comes to the end with its page.
LEMMA LruFree ==
    ASSUME MemoryInv, Lists(lru_list, queue, pte),
           NEW f \in Frames, NEW p \in Table, pte[f] = NULL
    PROVE  Lists(Append(Without(lru_list, f), f), Append(queue, p),
                 [pte EXCEPT ![f] = p])
<1>1. /\ lru_list \in Seq(Frames) /\ queue \in Seq(Table)
      /\ Len(lru_list) \in Nat /\ Len(queue) = Len(lru_list)
      /\ \A i \in 1 .. Len(queue) :
            lru_list[i] \in Frames /\ queue[i] \in Table /\ pte[lru_list[i]] = queue[i]
      /\ \A i, j \in 1 .. Len(queue) : lru_list[i] = lru_list[j] => i = j
  BY LenProperties, ElementOfSeq DEF MemoryInv, TypeOK, Lists
<1>2. \A i \in 1 .. Len(queue) : lru_list[i] # f
  <2>1. NULL \notin Table
    BY TraceAssumption DEF Table
  <2> QED BY <1>1, <2>1
<1>3. Without(lru_list, f) = lru_list
  BY <1>1, <1>2 DEF Without, Contains
<1>4. \A g \in Frames : [pte EXCEPT ![f] = p][g] = IF g = f THEN p ELSE pte[g]
  BY DEF MemoryInv, TypeOK
<1> QED BY <1>1, <1>2, <1>3, <1>4 DEF Lists

\* The victim is the head of both lists, and its frame comes to the end with
\* the new page.
LEMMA LruEvict ==
    ASSUME MemoryInv, Lists(lru_list, queue, pte),
           NEW f \in Frames, NEW p \in Table, lru_list # <<>>, f = Head(lru_list)
    PROVE  Lists(Append(Without(Tail(lru_list), f), f),
                 Append(Without(queue, pte[f]), p), [pte EXCEPT ![f] = p])
<1>1. /\ lru_list \in Seq(Frames) /\ queue \in Seq(Table)
      /\ Len(lru_list) \in Nat \ {0} /\ Len(queue) = Len(lru_list)
      /\ \A i \in 1 .. Len(queue) :
            lru_list[i] \in Frames /\ queue[i] \in Table /\ pte[lru_list[i]] = queue[i]
      /\ \A i, j \in 1 .. Len(queue) : lru_list[i] = lru_list[j] => i = j
  BY LenProperties, ElementOfSeq, EmptySeq DEF MemoryInv, TypeOK, Lists
<1>2. f = lru_list[1] /\ pte[f] = queue[1]
  BY <1>1
<1>3. \A i \in 1 .. Len(queue) : queue[i] = queue[1] => i = 1
  <2>1. NULL \notin Table
    BY TraceAssumption DEF Table
  <2> QED BY <1>1, <1>2, <2>1, PagesApart
<1> DEFINE rest == Tail(lru_list)
           l == Append(Without(rest, f), f)
           m == Append(Without(queue, pte[f]), p)
<1>4. /\ rest \in Seq(Frames) /\ Len(rest) = Len(queue) - 1
      /\ \A i \in 1 .. Len(queue) - 1 : rest[i] = lru_list[i + 1]
  BY <1>1, HeadTailProperties
<1>5. \A i \in 1 .. Len(rest) : rest[i] # f
  <2> SUFFICES ASSUME NEW i \in 1 .. Len(rest), rest[i] = f PROVE FALSE
    OBVIOUS
  <2>1. i + 1 \in 1 .. Len(queue) /\ 1 \in 1 .. Len(queue) /\ i + 1 # 1
    BY <1>1, <1>4
  <2>2. lru_list[i + 1] = lru_list[1]
    BY <1>2, <1>4
  <2> QED BY <1>1, <2>1, <2>2
<1>6. Without(rest, f) = rest
  BY <1>5 DEF Without, Contains
<1> HIDE DEF rest
<1>7. /\ Len(l) = Len(queue)
      /\ \A i \in 1 .. Len(queue) : l[i] =
            IF i = Len(queue) THEN f ELSE lru_list[i + 1]
  BY <1>1, <1>4, <1>6
<1>8. /\ Len(m) = Len(queue)
      /\ \A i \in 1 .. Len(queue) : m[i] =
            IF i = Len(queue) THEN p ELSE queue[i + 1]
  <2>1. /\ Len(m) = Len(queue)
        /\ \A i \in 1 .. Len(queue) : m[i] =
                IF i = Len(queue) THEN p
                ELSE IF i < 1 THEN queue[i] ELSE queue[i + 1]
    <3>1. 1 \in 1 .. Len(queue)
      BY <1>1
    <3> QED BY <1>1, <1>2, <1>3, <3>1, MovedFacts
  <2> QED BY <1>1, <2>1
<1> HIDE DEF l, m
<1>9. \A i \in 1 .. Len(queue) - 1 : lru_list[i + 1] # f
  BY <1>4, <1>5
<1>10. \A g \in Frames : [pte EXCEPT ![f] = p][g] = IF g = f THEN p ELSE pte[g]
  BY DEF MemoryInv, TypeOK
<1>11. \A i \in 1 .. Len(queue) : [pte EXCEPT ![f] = p][l[i]] = m[i]
  BY <1>1, <1>7, <1>8, <1>9, <1>10
<1>12. ASSUME NEW i \in 1 .. Len(queue), NEW j \in 1 .. Len(queue), l[i] = l[j]
       PROVE  i = j
  <2>1. CASE i = Len(queue) \/ j = Len(queue)
    BY <1>1, <1>7, <1>9, <1>12, <2>1
  <2>2. CASE i # Len(queue) /\ j # Len(queue)
    <3>1. i + 1 \in 1 .. Len(queue) /\ j + 1 \in 1 .. Len(queue)
      BY <1>1, <2>2
    <3>2. lru_list[i + 1] = lru_list[j + 1]
      BY <1>7, <1>12, <2>2
    <3>3. i + 1 = j + 1
      BY <1>1, <3>1, <3>2
    <3> QED BY <3>3
  <2> QED BY <2>1, <2>2
<1> QED BY <1>7, <1>8, <1>11, <1>12 DEF Lists, l, m, rest

-----------------------------------------------------------------------------
(* rr. *)

\* When no frame was in use from the start, frames fill up from the first on,
\* and rr's index is at the frame whose page came first.
RoundRobin ==
    Uses("rr") /\ (\A f \in Frames : in_use[f] => pte[f] # NULL) =>
        /\ Len(queue) <= memsize
        /\ \A f \in Frames : in_use[f] <=> f < Len(queue)
        /\ Len(queue) < memsize => hand = 0
        /\ \A i \in 1 .. Len(queue) : queue[i] = pte[Around(hand + i - 1)]

\* The first free frame is the next one.
LEMMA RoundRobinFree ==
    ASSUME MemoryInv, RoundRobin, replacement_alg' = replacement_alg,
           NEW p \in Table, NEW vpn, NEW o, NEW type, NEW val,
           MissFree(p, vpn, o, type, val)
    PROVE  RoundRobin'
<1> DEFINE f == First(FreeFrames)
<1>1. f \in FreeFrames /\ \A g \in FreeFrames : f <= g
  <2>1. FreeFrames \in SUBSET Nat /\ FreeFrames # {}
    BY DEF FreeFrames, Frames, MissFree
  <2> QED BY <2>1, FirstFacts
<1>2. /\ in_use' = [in_use EXCEPT ![f] = TRUE] /\ pte' = [pte EXCEPT ![f] = p]
      /\ RefFunc(f, p, ref, hand, lru_list) /\ queue' = Append(queue, p)
  BY DEF MissFree
<1> HIDE DEF f
<1>3. f \in Frames /\ ~ in_use[f]
  BY <1>1 DEF FreeFrames
<1>4. \A g \in Frames : /\ in_use'[g] = IF g = f THEN TRUE ELSE in_use[g]
                        /\ pte'[g] = IF g = f THEN p ELSE pte[g]
  BY <1>2 DEF MemoryInv, TypeOK
<1> SUFFICES ASSUME Uses("rr"), \A g \in Frames : in_use'[g] => pte'[g] # NULL
             PROVE  /\ Len(queue') <= memsize
                    /\ \A g \in Frames : in_use'[g] <=> g < Len(queue')
                    /\ Len(queue') < memsize => hand' = 0
                    /\ \A i \in 1 .. Len(queue') :
                            queue'[i] = pte'[Around(hand' + i - 1)]
  BY DEF RoundRobin, Uses, Around
<1>5. /\ memsize \in Nat \ {0} /\ Len(queue) \in Nat /\ Len(queue) <= memsize
      /\ \A g \in Frames : in_use[g] <=> g < Len(queue)
      /\ Len(queue) < memsize => hand = 0
      /\ \A i \in 1 .. Len(queue) : queue[i] = pte[Around(hand + i - 1)]
  <2>1. queue \in Seq(Table)
    BY DEF MemoryInv, TypeOK
  <2> QED BY <1>3, <1>4, <2>1, LenProperties, SizesAssumption DEF RoundRobin
<1>6. f = Len(queue)
  <2>1. f >= Len(queue) /\ f < memsize /\ f \in Nat /\ Len(queue) \in Frames
    BY <1>3, <1>5 DEF Frames
  <2>2. Len(queue) \in FreeFrames
    BY <1>5, <2>1 DEF FreeFrames
  <2> QED BY <1>1, <1>5, <2>1, <2>2
<1>7. hand = 0 /\ hand' = 0
  BY <1>2, <1>3, <1>5, <1>6 DEF RefFunc, Uses, Frames
<1>8. /\ Len(queue') = Len(queue) + 1
      /\ \A i \in 1 .. Len(queue) + 1 :
            queue'[i] = IF i = Len(queue) + 1 THEN p ELSE queue[i]
  <2>1. queue \in Seq(Table)
    BY DEF MemoryInv, TypeOK
  <2> QED BY <1>2, <2>1
<1>9. \A i \in 1 .. Len(queue') : queue'[i] = pte'[Around(hand' + i - 1)]
  <2> SUFFICES ASSUME NEW i \in 1 .. Len(queue) + 1
               PROVE  queue'[i] = pte'[Around(hand' + i - 1)]
    BY <1>8
  <2>1. Around(hand + i - 1) = i - 1 /\ Around(hand' + i - 1) = i - 1 /\ i - 1 \in Frames
    BY <1>3, <1>5, <1>6, <1>7 DEF Around, Frames
  <2>2. CASE i = Len(queue) + 1
    <3>1. queue'[i] = p
      BY <1>8, <2>2
    <3>2. i - 1 = f
      BY <1>5, <1>6, <2>2
    <3> QED BY <1>4, <2>1, <3>1, <3>2
  <2>3. CASE i # Len(queue) + 1
    <3>1. i \in 1 .. Len(queue) /\ i - 1 # f
      BY <1>5, <1>6, <2>3
    <3>2. queue'[i] = queue[i]
      BY <1>8, <2>3
    <3>3. pte'[i - 1] = pte[i - 1]
      BY <1>4, <2>1, <3>1
    <3> QED BY <1>5, <2>1, <3>1, <3>2, <3>3
  <2> QED BY <2>2, <2>3
<1>10. /\ Len(queue') <= memsize
       /\ \A g \in Frames : in_use'[g] <=> g < Len(queue')
  <2>1. Len(queue') = f + 1 /\ f \in 0 .. memsize - 1
    BY <1>3, <1>6, <1>8 DEF Frames
  <2>2. Len(queue') <= memsize
    BY <1>5, <2>1
  <2>3. ASSUME NEW g \in Frames PROVE in_use'[g] <=> g < f + 1
    <3>1. g \in Nat /\ f \in Nat
      BY <1>5, <2>1 DEF Frames
    <3>2. CASE g = f
      <4>1. in_use'[g]
        BY <1>4, <3>2, Zenon
      <4> QED BY <3>1, <3>2, <4>1
    <3>3. CASE g # f
      <4>1. in_use'[g] = in_use[g]
        BY <1>4, <3>3
      <4>2. in_use[g] <=> g < f
        BY <1>5, <1>6
      <4> QED BY <3>1, <3>3, <4>1, <4>2
    <3> QED BY <3>2, <3>3
  <2> QED BY <2>1, <2>2, <2>3
<1> QED BY <1>7, <1>9, <1>10

\* The victim is the page that came first, and the index goes to the next.
LEMMA RoundRobinEvict ==
    ASSUME MemoryInv, RoundRobin, replacement_alg' = replacement_alg,
           NEW p \in Table, NEW vpn, NEW o, NEW type, NEW val,
           MissEvict(p, vpn, o, type, val)
    PROVE  RoundRobin'
<1> SUFFICES ASSUME Uses("rr"), \A g \in Frames : in_use'[g] => pte'[g] # NULL
             PROVE  /\ Len(queue') <= memsize
                    /\ \A g \in Frames : in_use'[g] <=> g < Len(queue')
                    /\ Len(queue') < memsize => hand' = 0
                    /\ \A i \in 1 .. Len(queue') :
                            queue'[i] = pte'[Around(hand' + i - 1)]
  BY DEF RoundRobin, Uses, Around
<1>1. PICK f \in Victims :
        /\ pte[f] # NULL /\ pte' = [pte EXCEPT ![f] = p] /\ in_use' = in_use
        /\ RefFunc(f, p, [k \in Table |-> SparedRef(k)], AdvancedHand, ShortenedList)
        /\ queue' = Append(Without(queue, pte[f]), p)
  BY DEF MissEvict
<1>2. f = hand /\ hand' = Ahead(1) /\ hand \in Frames
  BY <1>1 DEF Victims, rr_evict, AdvancedHand, rr_next, RefFunc, Uses, MemoryInv, TypeOK
<1>3. \A g \in Frames : in_use[g]
  BY DEF MissEvict, FreeFrames
<1>4. \A g \in Frames : pte'[g] = IF g = f THEN p ELSE pte[g]
  BY <1>1 DEF MemoryInv, TypeOK
<1>5. \A g \in Frames : in_use[g] => pte[g] # NULL
  BY <1>1, <1>4
<1>6. /\ queue \in Seq(Table) /\ Len(queue) = memsize /\ memsize \in Nat \ {0}
      /\ \A g \in Frames : g < Len(queue)
      /\ \A i \in 1 .. memsize : queue[i] = pte[Around(hand + i - 1)]
  <2>1. queue \in Seq(Table) /\ Len(queue) \in Nat /\ memsize \in Nat \ {0}
    BY LenProperties, SizesAssumption DEF MemoryInv, TypeOK
  <2>2. /\ Len(queue) <= memsize /\ \A g \in Frames : g < Len(queue)
        /\ \A i \in 1 .. Len(queue) : queue[i] = pte[Around(hand + i - 1)]
    BY <1>3, <1>5 DEF RoundRobin
  <2>3. memsize - 1 < Len(queue)
    BY <2>1, <2>2 DEF Frames
  <2>4. Len(queue) = memsize
    BY <2>1, <2>2, <2>3
  <2> QED BY <2>1, <2>2, <2>4
<1>7. \A i \in 1 .. memsize : /\ Around(hand + i - 1) \in Frames
                              /\ Around(hand + i - 1) = hand => i = 1
  BY <1>2, <1>6 DEF Around, Frames
<1>8. queue[1] = pte[f] /\ \A j \in 1 .. Len(queue) : queue[j] = queue[1] => j = 1
  <2>1. Around(hand + 1 - 1) = hand /\ 1 \in 1 .. memsize
    BY <1>2, <1>6 DEF Around, Frames
  <2>2. queue[1] = pte[hand]
    BY <1>6, <2>1
  <2>3. ASSUME NEW j \in 1 .. memsize, queue[j] = queue[1] PROVE j = 1
    <3>1. pte[Around(hand + j - 1)] = pte[hand] /\ Around(hand + j - 1) \in Frames
      BY <1>6, <1>7, <2>2, <2>3
    <3>2. Around(hand + j - 1) = hand
      BY <1>1, <1>2, <3>1, PagesApart
    <3> QED BY <1>7, <3>2
  <2> QED BY <1>2, <1>6, <2>2, <2>3
<1>9. /\ Len(queue') = memsize
      /\ \A i \in 1 .. memsize :
            queue'[i] = IF i = memsize THEN p ELSE queue[i + 1]
  <2>1. 1 \in 1 .. Len(queue) /\ queue' = Append(Without(queue, queue[1]), p)
    BY <1>1, <1>6, <1>8
  <2>2. /\ Len(queue') = Len(queue)
        /\ \A i \in 1 .. Len(queue) : queue'[i] =
                IF i = Len(queue) THEN p
                ELSE IF i < 1 THEN queue[i] ELSE queue[i + 1]
    <3>1. /\ queue \in Seq(Table) /\ 1 \in 1 .. Len(queue)
          /\ \A j \in 1 .. Len(queue) : queue[j] = queue[1] => j = 1
      BY <1>6, <1>8, <2>1
    <3> QED BY <2>1, <3>1, MovedFacts
  <2> QED BY <1>6, <2>2
<1>10. hand' = Around(hand + 1)
  BY <1>2, <1>6, AheadFacts
<1>11. \A i \in 1 .. memsize : queue'[i] = pte'[Around(hand' + i - 1)]
  <2> SUFFICES ASSUME NEW i \in 1 .. memsize
               PROVE  queue'[i] = pte'[Around(hand' + i - 1)]
    OBVIOUS
  <2>1. CASE i = memsize
    <3>1. Around(hand' + i - 1) = hand
      BY <1>2, <1>6, <1>10, <2>1 DEF Around, Frames
    <3> QED BY <1>2, <1>4, <1>9, <2>1, <3>1
  <2>2. CASE i # memsize
    <3>1. i + 1 \in 1 .. memsize /\ Around(hand' + i - 1) = Around(hand + (i + 1) - 1)
      BY <1>2, <1>6, <1>10, <2>2 DEF Around, Frames
    <3>2. Around(hand + (i + 1) - 1) \in Frames \ {hand}
      BY <1>6, <1>7, <3>1
    <3>3. pte'[Around(hand' + i - 1)] = pte[Around(hand + (i + 1) - 1)]
      BY <1>2, <1>4, <3>1, <3>2
    <3> QED BY <1>6, <1>9, <2>2, <3>1, <3>3
  <2> QED BY <2>1, <2>2
<1>12. \A g \in Frames : in_use'[g] <=> g < Len(queue')
  BY <1>1, <1>3, <1>6, <1>9
<1> QED BY <1>6, <1>9, <1>11, <1>12

-----------------------------------------------------------------------------
(* The order of evictions. *)

\* What ties the history variable queue to the state of lru and of rr.
OrderInv == LruOrder /\ RoundRobin

\* Every line of the trace keeps the history and the algorithms in step.
LEMMA OrderStep == MemoryInv /\ OrderInv /\ [Next]_vars => OrderInv'
<1> SUFFICES ASSUME MemoryInv, LruOrder, RoundRobin, [Next]_vars PROVE OrderInv'
  BY DEF OrderInv
<1>1. ASSUME UNCHANGED <<replacement_alg, in_use, pte, hand, lru_list, queue>>
      PROVE  OrderInv'
  BY <1>1 DEF OrderInv, LruOrder, RoundRobin, Uses
<1>2. ASSUME NEW end, Stop(end), replacement_alg' = replacement_alg
      PROVE  OrderInv'
  BY <1>1, <1>2 DEF Stop, coremap, policy
<1>3. ASSUME NEW type \in Types, NEW vpn \in Vpns, NEW o \in TraceOffsets,
             NEW val \in Values, access_mem(type, vpn, o, val)
      PROVE  OrderInv'
  <2> DEFINE p == Index(vpn)
  <2>1. /\ replacement_alg' = replacement_alg
        /\ \/ OutOfTable(p)
           \/ /\ p \in Table
              /\ \/ Hit(p, vpn, o, type, val)
                 \/ MissFree(p, vpn, o, type, val)
                 \/ MissEvict(p, vpn, o, type, val)
                 \/ MissLost(p)
                 \/ EvictUnowned(p)
    BY <1>3 DEF access_mem
  <2> HIDE DEF p
  <2>2. CASE OutOfTable(p) \/ MissLost(p) \/ EvictUnowned(p)
    BY <1>2, <2>1, <2>2 DEF OutOfTable, MissLost, EvictUnowned
  <2>3. CASE p \in Table /\ Hit(p, vpn, o, type, val)
    <3>1. /\ RefFunc(frame[p], p, ref, hand, lru_list)
          /\ queue' = IF Uses("lru") THEN Append(Without(queue, p), p) ELSE queue
          /\ in_use' = in_use /\ pte' = pte
          /\ frame[p] \in Frames /\ pte[frame[p]] = p
      BY <2>3 DEF Hit, coremap, MemoryInv, TypeOK, FramesMatchPages
    <3>2. LruOrder'
      <4>1. CASE Uses("lru")
        <5>1. lru_list' = Append(Without(lru_list, frame[p]), frame[p])
          BY <3>1, <4>1 DEF RefFunc
        <5>2. Lists(lru_list, queue, pte)
          BY <4>1 DEF LruOrder
        <5>3. Lists(lru_list', queue', pte')
          BY <2>3, <3>1, <4>1, <5>1, <5>2, LruHit
        <5> QED BY <5>3 DEF LruOrder
      <4> QED BY <2>1, <4>1 DEF LruOrder, Uses
    <3>3. RoundRobin'
      <4>1. Uses("rr") => hand' = hand /\ queue' = queue
        BY <3>1 DEF RefFunc, Uses
      <4> QED BY <2>1, <3>1, <4>1 DEF RoundRobin, Uses
    <3> QED BY <3>2, <3>3 DEF OrderInv
  <2>4. CASE p \in Table /\ MissFree(p, vpn, o, type, val)
    <3> DEFINE f == First(FreeFrames)
    <3>1. /\ RefFunc(f, p, ref, hand, lru_list) /\ queue' = Append(queue, p)
          /\ pte' = [pte EXCEPT ![f] = p]
      BY <2>4 DEF MissFree
    <3>2. f \in Frames /\ pte[f] = NULL
      <4>1. FreeFrames \in SUBSET Nat /\ FreeFrames # {}
        BY <2>4 DEF FreeFrames, Frames, MissFree
      <4>2. f \in FreeFrames
        BY <4>1, FirstFacts
      <4> QED BY <4>2 DEF FreeFrames, MemoryInv, FramesMatchPages
    <3> HIDE DEF f
    <3>3. LruOrder'
      <4>1. CASE Uses("lru")
        <5>1. lru_list' = Append(Without(lru_list, f), f)
          BY <3>1, <4>1 DEF RefFunc
        <5>2. Lists(lru_list, queue, pte)
          BY <4>1 DEF LruOrder
        <5>3. Lists(lru_list', queue', pte')
          BY <2>4, <3>1, <3>2, <5>1, <5>2, LruFree
        <5> QED BY <5>3 DEF LruOrder
      <4> QED BY <2>1, <4>1 DEF LruOrder, Uses
    <3> QED BY <2>1, <2>4, <3>3, RoundRobinFree DEF OrderInv
  <2>5. CASE p \in Table /\ MissEvict(p, vpn, o, type, val)
    <3>1. PICK f \in Victims :
            /\ pte[f] # NULL /\ pte' = [pte EXCEPT ![f] = p]
            /\ RefFunc(f, p, [k \in Table |-> SparedRef(k)], AdvancedHand,
                       ShortenedList)
            /\ queue' = Append(Without(queue, pte[f]), p)
      BY <2>5 DEF MissEvict
    <3>2. f \in Frames
      BY <3>1, VictimFacts
    <3>3. LruOrder'
      <4>1. CASE Uses("lru")
        <5>1. lru_list # <<>> /\ f = Head(lru_list)
          BY <3>1, <3>2, <4>1 DEF Victims, lru_evict, Uses, MemoryInv, LruHasVictim
        <5>2. lru_list' = Append(Without(Tail(lru_list), f), f)
          BY <3>1, <4>1 DEF RefFunc, ShortenedList
        <5>3. Lists(lru_list, queue, pte)
          BY <4>1 DEF LruOrder
        <5>4. Lists(lru_list', queue', pte')
          BY <2>5, <3>1, <3>2, <5>1, <5>2, <5>3, LruEvict
        <5> QED BY <5>4 DEF LruOrder
      <4> QED BY <2>1, <4>1 DEF LruOrder, Uses
    <3> QED BY <2>1, <2>5, <3>3, RoundRobinEvict DEF OrderInv
  <2> QED BY <2>1, <2>2, <2>3, <2>4, <2>5
<1>4. CASE UNCHANGED vars
  BY <1>1, <1>4 DEF vars, coremap, policy
<1> QED BY <1>3, <1>4 DEF Next, Ended

\* rr_evict returns the frame of the page that came first, and the list of lru
\* is the order of last references.
THEOREM OrderCorrect == Spec => []EvictsInOrder
<1>1. Init => OrderInv
  <2> SUFFICES ASSUME Init PROVE OrderInv
    OBVIOUS
  <2>1. queue = <<>> /\ lru_list = <<>> /\ hand = 0
        /\ \A f \in Frames : pte[f] = NULL
    BY DEF Init
  <2>2. LruOrder
    BY <2>1 DEF LruOrder, Lists
  <2>3. RoundRobin
    BY <2>1, SizesAssumption DEF RoundRobin, Frames
  <2> QED BY <2>2, <2>3 DEF OrderInv
<1>2. MemoryInv /\ OrderInv => EvictsInOrder
  <2> SUFFICES ASSUME MemoryInv, OrderInv, \A f \in Frames : pte[f] # NULL
               PROVE  /\ Uses("rr") => pte[hand] = Head(queue)
                      /\ Uses("lru") =>
                            [i \in DOMAIN lru_list |-> pte[lru_list[i]]] = queue
    BY DEF EvictsInOrder
  <2>1. /\ queue \in Seq(Table) /\ lru_list \in Seq(Frames) /\ hand \in Frames
        /\ memsize \in Nat \ {0}
    BY SizesAssumption DEF MemoryInv, TypeOK
  <2>2. CASE Uses("rr")
    <3>1. /\ \A g \in Frames : g < Len(queue)
          /\ \A i \in 1 .. Len(queue) : queue[i] = pte[Around(hand + i - 1)]
      BY <2>2 DEF OrderInv, RoundRobin, MemoryInv, FramesMatchPages
    <3>2. 1 \in 1 .. Len(queue)
      BY <2>1, <3>1, LenProperties DEF Frames
    <3>3. Around(hand + 1 - 1) = hand
      BY <2>1 DEF Around, Frames
    <3> QED BY <2>1, <2>2, <3>1, <3>2, <3>3 DEF Uses
  <2>3. CASE Uses("lru")
    <3>1. DOMAIN lru_list = 1 .. Len(queue) /\ DOMAIN queue = 1 .. Len(queue)
      BY <2>1, <2>3, LenProperties DEF OrderInv, LruOrder, Lists
    <3>2. \A i \in 1 .. Len(queue) : pte[lru_list[i]] = queue[i]
      BY <2>3 DEF OrderInv, LruOrder, Lists
    <3>3. queue = [i \in 1 .. Len(queue) |-> queue[i]]
      BY <2>1, LenProperties
    <3>4. [i \in DOMAIN lru_list |-> pte[lru_list[i]]] = queue
      BY <3>1, <3>2, <3>3
    <3> QED BY <2>3, <3>4 DEF Uses
  <2> QED BY <2>2, <2>3
<1> QED BY <1>1, <1>2, OrderStep, MemoryInvariance, PTL DEF Spec
=============================================================================
