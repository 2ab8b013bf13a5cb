-------------------------- MODULE FlatMemoryProofs --------------------------
(***************************************************************************)
(* VirtualMemory implements FlatMemory: whatever is evicted, paged out and *)
(* paged in, the trace cannot tell the simulator from a flat array of      *)
(* zeroed bytes, of which pages disappear when the swap file fails.        *)
(***************************************************************************)
EXTENDS MemoryProofs, FiniteSetTheorems

\* The bytes of a reference lie in one page, and reads of the swap file
\* succeed.  sim.c accepts one offset more, and allocate_frame ignores a read
\* that fails.
StaysInPage ==
    /\ TraceOffsets \subseteq PageBytes
    /\ "read" \notin DiskFails

\* No two page numbers of the trace have the same low bits.
NoAliases == Vpns \subseteq 0 .. IntModulus - 1

-----------------------------------------------------------------------------
(* Bytes of frames. *)

USE SizesAssumption

\* A byte is in one frame at one offset.
LEMMA ByteApart ==
    ASSUME NEW f \in Frames, NEW g \in Frames,
           NEW o \in PageBytes, NEW i \in PageBytes, Byte(f, o) = Byte(g, i)
    PROVE  f = g /\ o = i
<1>1. /\ f \in Nat /\ g \in Nat /\ o \in Nat /\ i \in Nat
      /\ o < SIMPAGESIZE /\ i < SIMPAGESIZE
  BY DEF Frames, PageBytes
<1>2. f * SIMPAGESIZE \in Nat /\ g * SIMPAGESIZE \in Nat
  BY <1>1
<1>3. f * SIMPAGESIZE + o = g * SIMPAGESIZE + i
  BY DEF Byte
<1>4. ASSUME NEW a \in Nat, NEW b \in Nat, a < b
      PROVE  a * SIMPAGESIZE + SIMPAGESIZE <= b * SIMPAGESIZE
  <2>1. a + 1 <= b /\ (a + 1) * SIMPAGESIZE = a * SIMPAGESIZE + SIMPAGESIZE
    BY <1>4
  <2> QED BY <1>4, <2>1
<1>5. ~ f < g
  BY <1>1, <1>2, <1>3, <1>4
<1>6. ~ g < f
  BY <1>1, <1>2, <1>3, <1>4
<1>7. f = g
  BY <1>1, <1>5, <1>6
<1> QED BY <1>1, <1>2, <1>3, <1>7

\* An access changes one byte of the frames, and only when it writes.
LEMMA TouchedBytes ==
    ASSUME NEW vpn, NEW o \in PageBytes, NEW type, NEW val, NEW f \in Frames,
           NEW bytes \in PhysicalMemory, Touch(vpn, o, type, val, f, bytes)
    PROVE  \A g \in Frames, i \in PageBytes :
                physmem'[Byte(g, i)] = IF type \in Writes /\ g = f /\ i = o
                                       THEN val ELSE bytes[Byte(g, i)]
<1> SUFFICES ASSUME NEW g \in Frames, NEW i \in PageBytes
             PROVE  physmem'[Byte(g, i)] = IF type \in Writes /\ g = f /\ i = o
                                           THEN val ELSE bytes[Byte(g, i)]
  OBVIOUS
<1>1. Byte(g, i) \in 0 .. memsize * SIMPAGESIZE
  BY ByteFacts DEF PageBytes
<1>2. CASE type \notin Writes
  BY <1>2 DEF Touch
<1>3. CASE type \in Writes
  <2>1. physmem' = [bytes EXCEPT ![Byte(f, o)] = val]
    BY <1>3 DEF Touch
  <2>2. Byte(g, i) = Byte(f, o) <=> g = f /\ i = o
    BY ByteApart
  <2> QED BY <1>1, <1>3, <2>1, <2>2 DEF PhysicalMemory
<1> QED BY <1>2, <1>3

\* Filling a frame replaces the bytes of that frame and of no other.
LEMMA FilledBytes ==
    ASSUME physmem \in PhysicalMemory, NEW f \in Frames, NEW page
    PROVE  \A g \in Frames, i \in PageBytes :
                Filled(f, page)[Byte(g, i)] =
                    IF g = f THEN page[i] ELSE physmem[Byte(g, i)]
<1> SUFFICES ASSUME NEW g \in Frames, NEW i \in PageBytes
             PROVE  Filled(f, page)[Byte(g, i)] =
                        IF g = f THEN page[i] ELSE physmem[Byte(g, i)]
  OBVIOUS
<1>1. Byte(g, i) \in DOMAIN physmem
  BY ByteFacts DEF PageBytes, PhysicalMemory
<1>2. f * SIMPAGESIZE \in Nat /\ i \in Nat /\ i < SIMPAGESIZE
  BY DEF Frames, PageBytes
<1>3. CASE g = f
  <2>1. Byte(g, i) \in Byte(f, 0) .. Byte(f, SIMPAGESIZE - 1)
    BY <1>2, <1>3 DEF Byte
  <2>2. Byte(g, i) - Byte(f, 0) = i
    BY <1>2, <1>3 DEF Byte
  <2> QED BY <1>1, <1>3, <2>1, <2>2 DEF Filled
<1>4. CASE g # f
  <2>1. ASSUME Byte(g, i) \in Byte(f, 0) .. Byte(f, SIMPAGESIZE - 1)
        PROVE  FALSE
    <3>1. PICK k \in PageBytes : Byte(g, i) = Byte(f, k)
      <4>1. g * SIMPAGESIZE \in Nat
        BY DEF Frames
      <4>2. Byte(g, i) - f * SIMPAGESIZE \in PageBytes
        BY <1>2, <2>1, <4>1 DEF Byte, PageBytes
      <4>3. Byte(g, i) = Byte(f, Byte(g, i) - f * SIMPAGESIZE)
        BY <1>2, <4>1 DEF Byte
      <4> QED BY <4>2, <4>3
    <3> QED BY <1>4, <3>1, ByteApart
  <2> QED BY <1>1, <1>4, <2>1 DEF Filled
<1> QED BY <1>3, <1>4

HIDE SizesAssumption

-----------------------------------------------------------------------------
(* The contents of pages, step by step. *)

\* What a reference at offset o of entry p does to the contents of the pages:
\* it touches its own byte, and another page keeps its bytes or gets lost.
PageStep(p, o, type, val) ==
    /\ ~ IsLost(p)
    /\ ~ IsLost(p)'
    /\ Contents(p)' = IF type \in Writes THEN [Contents(p) EXCEPT ![o] = val]
                      ELSE Contents(p)
    /\ got' = IF type \in Writes THEN NULL ELSE Contents(p)[o]
    /\ \A k \in Table \ {p} :
        \/ IsLost(k)'
        \/ ~ IsLost(k) /\ Contents(k)' = Contents(k)

\* Frame f of the given memory has the contents of page p.
HasContents(p, f, bytes) ==
    \A i \in TraceOffsets : Contents(p)[i] = bytes[Byte(f, i)]

\* When page p is in frame f with the given bytes, an access in f makes of its
\* contents what a flat memory would.
LEMMA AccessContents ==
    ASSUME StaysInPage, NEW p \in Table, NEW vpn \in Vpns,
           NEW o \in TraceOffsets, NEW type, NEW val, NEW f \in Frames,
           NEW bytes \in PhysicalMemory, Touch(vpn, o, type, val, f, bytes),
           HasContents(p, f, bytes),
           flag'[p] # {}, "VALID" \in flag'[p], frame'[p] = f
    PROVE  /\ got' = IF type \in Writes THEN NULL ELSE Contents(p)[o]
           /\ Contents(p)' = IF type \in Writes THEN [Contents(p) EXCEPT ![o] = val]
                             ELSE Contents(p)
<1>1. got' = IF type \in Writes THEN NULL ELSE Contents(p)[o]
  BY DEF Touch, HasContents
<1>2. Contents(p)' = [i \in TraceOffsets |-> physmem'[Byte(f, i)]]
  BY DEF Contents
<1>3. \A i \in TraceOffsets : physmem'[Byte(f, i)] =
            IF type \in Writes /\ i = o THEN val ELSE bytes[Byte(f, i)]
  BY TouchedBytes DEF StaysInPage
<1>4. CASE type \in Writes
  <2>1. [Contents(p) EXCEPT ![o] = val] =
            [i \in TraceOffsets |-> IF i = o THEN val ELSE bytes[Byte(f, i)]]
    BY DEF Contents, HasContents
  <2>2. Contents(p)' =
            [i \in TraceOffsets |-> IF i = o THEN val ELSE bytes[Byte(f, i)]]
    BY <1>2, <1>3, <1>4
  <2> QED BY <1>1, <1>4, <2>1, <2>2
<1>5. CASE type \notin Writes
  <2>1. Contents(p) = [i \in TraceOffsets |-> bytes[Byte(f, i)]]
    BY DEF Contents, HasContents
  <2> QED BY <1>1, <1>2, <1>3, <1>5, <2>1
<1> QED BY <1>4, <1>5

\* A hit finds the page in its frame.
LEMMA HitContents ==
    ASSUME StaysInPage, MemoryInv, CleanHasCopy,
           NEW p \in Table, NEW vpn \in Vpns, NEW o \in TraceOffsets,
           NEW type, NEW val \in Values, Hit(p, vpn, o, type, val)
    PROVE  CleanHasCopy' /\ PageStep(p, o, type, val)
<1> DEFINE f == frame[p]
<1>1. /\ "VALID" \in flag[p]
      /\ flag' = [flag EXCEPT ![p] = IF type \in Writes THEN flag[p] \cup {"DIRTY"}
                                     ELSE flag[p]]
      /\ Touch(vpn, o, type, val, f, physmem)
      /\ UNCHANGED <<frame, swap_offset, swapfile>>
  BY DEF Hit, swap
<1>2. /\ f \in Frames /\ pte[f] = p /\ "ONSWAP" \notin flag[p]
      /\ \A k \in Table : frame[k] \in Frames
      /\ \A k \in Table \ {p} : "VALID" \in flag[k] => frame[k] # f
  BY <1>1 DEF MemoryInv, TypeOK, FramesMatchPages
<1>3. /\ flag'[p] = IF type \in Writes THEN flag[p] \cup {"DIRTY"} ELSE flag[p]
      /\ \A k \in Table \ {p} : flag'[k] = flag[k]
  BY <1>1 DEF MemoryInv, TypeOK
<1>4. TraceOffsets \subseteq PageBytes /\ physmem \in PhysicalMemory
  BY DEF StaysInPage, MemoryInv, TypeOK, PhysicalMemory
<1> HIDE DEF f
<1>5. \A g \in Frames, i \in PageBytes :
            physmem'[Byte(g, i)] = IF type \in Writes /\ g = f /\ i = o
                                   THEN val ELSE physmem[Byte(g, i)]
  BY <1>1, <1>2, <1>4, TouchedBytes
<1>6. ASSUME NEW k \in Table, "VALID" \in flag'[k], "DIRTY" \notin flag'[k]
      PROVE  /\ swap_offset'[k] # INVALID_SWAP
             /\ swapfile'[swap_offset'[k]] = HeldPage(frame[k])'
  <2>1. "VALID" \in flag[k] /\ "DIRTY" \notin flag[k]
    BY <1>1, <1>3, <1>6
  <2>2. \A i \in PageBytes :
            physmem'[Byte(frame[k], i)] = physmem[Byte(frame[k], i)]
    BY <1>2, <1>3, <1>5, <1>6, <2>1
  <2>3. HeldPage(frame[k])' = HeldPage(frame[k])
    BY <1>1, <2>2 DEF HeldPage
  <2> QED BY <1>1, <2>1, <2>3 DEF CleanHasCopy
<1>7. CleanHasCopy'
  BY <1>1, <1>6 DEF CleanHasCopy
<1>8. PageStep(p, o, type, val)
  <2>1. ~ IsLost(p) /\ ~ IsLost(p)'
    BY <1>2, <1>3 DEF IsLost
  <2>2. HasContents(p, f, physmem)
    BY <1>1 DEF Contents, HasContents, f
  <2>3. flag'[p] # {} /\ "VALID" \in flag'[p] /\ frame'[p] = f
    BY <1>1, <1>3 DEF f
  <2>4. /\ got' = IF type \in Writes THEN NULL ELSE Contents(p)[o]
        /\ Contents(p)' = IF type \in Writes THEN [Contents(p) EXCEPT ![o] = val]
                          ELSE Contents(p)
    <3>1. f \in Frames /\ physmem \in PhysicalMemory
             /\ Touch(vpn, o, type, val, f, physmem)
      BY <1>1, <1>2, <1>4
    <3> QED BY <2>2, <2>3, <3>1, AccessContents
  <2>5. ASSUME NEW k \in Table \ {p}, ~ IsLost(k)'
        PROVE  ~ IsLost(k) /\ Contents(k)' = Contents(k)
    <3>1. ~ IsLost(k)
      BY <1>1, <1>3, <2>5 DEF IsLost
    <3>2. "VALID" \in flag[k] => \A i \in TraceOffsets :
            physmem'[Byte(frame[k], i)] = physmem[Byte(frame[k], i)]
      BY <1>2, <1>4, <1>5
    <3> QED BY <1>1, <1>3, <3>1, <3>2 DEF Contents
  <2> QED BY <2>1, <2>4, <2>5 DEF PageStep
<1> QED BY <1>7, <1>8

\* A page that is absent while a frame is free was never touched: it starts out
\* as zeroes.
LEMMA MissFreeContents ==
    ASSUME StaysInPage, MemoryInv, CleanHasCopy,
           NEW p \in Table, NEW vpn \in Vpns, NEW o \in TraceOffsets,
           NEW type, NEW val \in Values, MissFree(p, vpn, o, type, val)
    PROVE  CleanHasCopy' /\ PageStep(p, o, type, val)
<1> DEFINE f == First(FreeFrames)
           bytes == Filled(f, ZeroPage)
<1>1. f \in Frames /\ ~ in_use[f]
  <2>1. FreeFrames \in SUBSET Nat /\ FreeFrames # {}
    BY DEF MissFree, FreeFrames, Frames
  <2>2. f \in FreeFrames
    BY <2>1, FirstFacts
  <2> QED BY <2>2 DEF FreeFrames
<1>2. flag[p] = {}
  <2>1. "VALID" \notin flag[p] /\ "ONSWAP" \notin flag[p]
    BY <1>1 DEF MissFree, MemoryInv, SwappedOnlyWhenFull
  <2> QED BY <2>1 DEF MemoryInv, AbsentPages
<1>3. /\ flag' = [flag EXCEPT ![p] = {"VALID", "DIRTY"}]
      /\ frame' = [frame EXCEPT ![p] = f]
      /\ Touch(vpn, o, type, val, f, bytes)
      /\ UNCHANGED <<swap_offset, swapfile>>
  BY <1>2 DEF MissFree, NewFlag, swap
<1>4. TraceOffsets \subseteq PageBytes /\ physmem \in PhysicalMemory
  BY DEF StaysInPage, MemoryInv, TypeOK, PhysicalMemory
<1>5. bytes \in PhysicalMemory
  BY <1>1, <1>4, PageFacts, TraceAssumption DEF ZeroPage
<1>6. \A g \in Frames, i \in PageBytes :
            bytes[Byte(g, i)] = IF g = f THEN 0 ELSE physmem[Byte(g, i)]
  BY <1>1, <1>4, FilledBytes DEF ZeroPage
<1> HIDE DEF bytes, f
<1>7. \A g \in Frames \ {f}, i \in PageBytes :
            physmem'[Byte(g, i)] = physmem[Byte(g, i)]
  <2>1. \A g \in Frames, i \in PageBytes :
            physmem'[Byte(g, i)] = IF type \in Writes /\ g = f /\ i = o
                                   THEN val ELSE bytes[Byte(g, i)]
    BY <1>1, <1>3, <1>4, <1>5, TouchedBytes
  <2> QED BY <1>6, <2>1
<1>8. /\ \A k \in Table : frame[k] \in Frames
      /\ \A k \in Table : "VALID" \in flag[k] => frame[k] # f
      /\ flag'[p] = {"VALID", "DIRTY"} /\ frame'[p] = f
      /\ \A k \in Table \ {p} : flag'[k] = flag[k] /\ frame'[k] = frame[k]
  BY <1>1, <1>3 DEF MemoryInv, TypeOK, FramesMatchPages
<1>9. ASSUME NEW k \in Table, "VALID" \in flag'[k], "DIRTY" \notin flag'[k]
      PROVE  /\ swap_offset'[k] # INVALID_SWAP
             /\ swapfile'[swap_offset'[k]] = HeldPage(frame[k])'
  <2>1. k # p /\ "VALID" \in flag[k] /\ "DIRTY" \notin flag[k]
    BY <1>8, <1>9
  <2>2. \A i \in PageBytes :
            physmem'[Byte(frame[k], i)] = physmem[Byte(frame[k], i)]
    BY <1>7, <1>8, <2>1
  <2>3. HeldPage(frame[k])' = HeldPage(frame[k])
    BY <1>8, <2>1, <2>2 DEF HeldPage
  <2> QED BY <1>3, <2>1, <2>3 DEF CleanHasCopy
<1>10. CleanHasCopy'
  BY <1>9 DEF CleanHasCopy
<1>11. PageStep(p, o, type, val)
  <2>1. ~ IsLost(p) /\ ~ IsLost(p)'
    BY <1>2, <1>8 DEF IsLost
  <2>2. HasContents(p, f, bytes)
    BY <1>1, <1>2, <1>4, <1>6 DEF Contents, HasContents
  <2>3. /\ got' = IF type \in Writes THEN NULL ELSE Contents(p)[o]
        /\ Contents(p)' = IF type \in Writes THEN [Contents(p) EXCEPT ![o] = val]
                          ELSE Contents(p)
    BY <1>1, <1>3, <1>5, <1>8, <2>2, AccessContents
  <2>4. ASSUME NEW k \in Table \ {p}, ~ IsLost(k)'
        PROVE  ~ IsLost(k) /\ Contents(k)' = Contents(k)
    <3>1. ~ IsLost(k)
      BY <1>3, <1>8, <2>4 DEF IsLost
    <3>2. "VALID" \in flag[k] => \A i \in TraceOffsets :
            physmem'[Byte(frame[k], i)] = physmem[Byte(frame[k], i)]
      BY <1>4, <1>7, <1>8
    <3> QED BY <1>3, <1>8, <3>1, <3>2 DEF Contents
  <2> QED BY <2>1, <2>3, <2>4 DEF PageStep
<1> QED BY <1>10, <1>11

\* What an eviction leaves in the slots: the victim's bytes are in its slot or
\* the victim has none, and the slots of the other pages stay.
LEMMA SlotContents ==
    ASSUME MemoryInv, CleanHasCopy, NEW f \in Frames, NEW q \in Table,
           "VALID" \in flag[q], frame[q] = f,
           IF "DIRTY" \in flag[q] THEN PageOut(q, f)
           ELSE UNCHANGED <<swap, swap_offset>>
    PROVE  /\ swap_offset'[q] # INVALID_SWAP =>
                swapfile'[swap_offset'[q]] = HeldPage(f)
           /\ \A k \in Table \ {q} :
                /\ swap_offset'[k] = swap_offset[k]
                /\ swap_offset[k] # INVALID_SWAP =>
                        swapfile'[swap_offset[k]] = swapfile[swap_offset[k]]
<1>1. CASE "DIRTY" \in flag[q]
  BY <1>1, PageOutFacts
<1>2. CASE "DIRTY" \notin flag[q]
  BY <1>2 DEF CleanHasCopy, swap
<1> QED BY <1>1, <1>2

\* An eviction moves the victim's bytes to its slot, or loses them, and brings
\* in those of the new page.
LEMMA MissEvictContents ==
    ASSUME StaysInPage, MemoryInv, CleanHasCopy,
           NEW p \in Table, NEW vpn \in Vpns, NEW o \in TraceOffsets,
           NEW type, NEW val \in Values, MissEvict(p, vpn, o, type, val)
    PROVE  CleanHasCopy' /\ PageStep(p, o, type, val)
<1> DEFINE page == IF flag[p] = {} THEN ZeroPage ELSE swapfile[swap_offset[p]]
<1>1. PICK f \in Victims :
        /\ pte[f] # NULL
        /\ IF "DIRTY" \in flag[pte[f]] THEN PageOut(pte[f], f)
           ELSE UNCHANGED <<swap, swap_offset>>
        /\ flag' = [flag EXCEPT ![pte[f]] = EvictedFlag, ![p] = NewFlag(p, type)]
        /\ frame' = [frame EXCEPT ![pte[f]] = 0, ![p] = f]
        /\ Touch(vpn, o, type, val, f, Filled(f, page))
  BY DEF MissEvict, StaysInPage
<1> DEFINE bytes == Filled(f, page)
<1>2. "VALID" \notin flag[p] /\ CanRead(p)
  BY DEF MissEvict
<1>3. f \in Frames
  BY <1>1, VictimFacts
<1>4. PICK q \in Table :
        q = pte[f] /\ "VALID" \in flag[q] /\ frame[q] = f /\ q # p
  BY <1>1, <1>2, <1>3 DEF MemoryInv, TypeOK, FramesMatchPages
<1>5. flag[p] \in {{}, {"ONSWAP"}}
  BY <1>2 DEF MemoryInv, AbsentPages
<1>6. flag[p] # {} => swap_offset[p] # INVALID_SWAP
  BY <1>2, <1>5 DEF CanRead
<1>7. /\ swap_offset'[q] # INVALID_SWAP =>
            swapfile'[swap_offset'[q]] = HeldPage(f)
      /\ \A k \in Table \ {q} :
            /\ swap_offset'[k] = swap_offset[k]
            /\ swap_offset[k] # INVALID_SWAP =>
                    swapfile'[swap_offset[k]] = swapfile[swap_offset[k]]
  BY <1>1, <1>3, <1>4, SlotContents
<1>8. TraceOffsets \subseteq PageBytes /\ physmem \in PhysicalMemory
  BY DEF StaysInPage, MemoryInv, TypeOK, PhysicalMemory
<1>9. page \in [PageBytes -> Values]
  BY <1>6, TraceAssumption DEF MemoryInv, TypeOK, ZeroPage
<1>10. bytes \in PhysicalMemory
  BY <1>3, <1>8, <1>9, PageFacts
<1>11. /\ flag'[p] = NewFlag(p, type) /\ frame'[p] = f
       /\ flag'[q] = {"ONSWAP"}
       /\ \A k \in Table \ {p, q} : flag'[k] = flag[k] /\ frame'[k] = frame[k]
  BY <1>1, <1>3, <1>4 DEF MemoryInv, TypeOK, EvictedFlag
<1>12. /\ "VALID" \in NewFlag(p, type) /\ "ONSWAP" \notin NewFlag(p, type)
       /\ "DIRTY" \notin NewFlag(p, type) => flag[p] # {} /\ type \notin Writes
  BY DEF NewFlag
<1>13. /\ \A k \in Table : frame[k] \in Frames
       /\ \A k \in Table \ {q} : "VALID" \in flag[k] => frame[k] # f
  BY <1>4 DEF MemoryInv, TypeOK, FramesMatchPages
<1>14. \A g \in Frames, i \in PageBytes :
            bytes[Byte(g, i)] = IF g = f THEN page[i] ELSE physmem[Byte(g, i)]
  BY <1>3, <1>8, FilledBytes
<1>15. Touch(vpn, o, type, val, f, bytes)
  BY <1>1
<1> HIDE DEF bytes
<1>16. \A g \in Frames, i \in PageBytes :
            physmem'[Byte(g, i)] = IF type \in Writes /\ g = f /\ i = o
                                   THEN val ELSE bytes[Byte(g, i)]
  BY <1>3, <1>8, <1>10, <1>15, TouchedBytes
<1>17. \A g \in Frames \ {f}, i \in PageBytes :
            physmem'[Byte(g, i)] = physmem[Byte(g, i)]
  BY <1>14, <1>16
<1>18. CleanHasCopy'
  <2> SUFFICES ASSUME NEW k \in Table, "VALID" \in flag'[k], "DIRTY" \notin flag'[k]
               PROVE  /\ swap_offset'[k] # INVALID_SWAP
                      /\ swapfile'[swap_offset'[k]] = HeldPage(frame[k])'
    BY DEF CleanHasCopy
  <2>1. CASE k = p
    <3>1. flag[p] # {} /\ type \notin Writes
      BY <1>11, <1>12, <2>1
    <3>2. /\ swap_offset'[p] = swap_offset[p] /\ swap_offset[p] # INVALID_SWAP
          /\ swapfile'[swap_offset'[p]] = page
      BY <1>4, <1>6, <1>7, <3>1
    <3>3. \A i \in PageBytes : physmem'[Byte(f, i)] = page[i]
      BY <1>3, <1>14, <1>16, <3>1
    <3>4. HeldPage(frame[p])' = [i \in PageBytes |-> page[i]]
      BY <1>11, <3>3 DEF HeldPage
    <3>5. page = [i \in PageBytes |-> page[i]]
      BY <1>9
    <3> QED BY <2>1, <3>2, <3>4, <3>5
  <2>2. CASE k # p
    <3>1. k # q /\ "VALID" \in flag[k] /\ "DIRTY" \notin flag[k]
      BY <1>11, <2>2
    <3>2. \A i \in PageBytes :
            physmem'[Byte(frame[k], i)] = physmem[Byte(frame[k], i)]
      BY <1>13, <1>17, <3>1
    <3>3. HeldPage(frame[k])' = HeldPage(frame[k])
      BY <1>11, <2>2, <3>1, <3>2 DEF HeldPage
    <3> QED BY <1>7, <3>1, <3>3 DEF CleanHasCopy
  <2> QED BY <2>1, <2>2
<1>19. PageStep(p, o, type, val)
  <2>1. ~ IsLost(p) /\ ~ IsLost(p)'
    BY <1>5, <1>6, <1>11, <1>12 DEF IsLost
  <2>2. HasContents(p, f, bytes)
    <3>1. CASE flag[p] = {}
      BY <1>3, <1>8, <1>14, <3>1 DEF HasContents, Contents, ZeroPage
    <3>2. CASE flag[p] = {"ONSWAP"}
      BY <1>3, <1>8, <1>14, <3>2 DEF HasContents, Contents
    <3> QED BY <1>5, <3>1, <3>2
  <2>3. flag'[p] # {} /\ "VALID" \in flag'[p] /\ frame'[p] = f
    BY <1>11, <1>12
  <2>4. /\ got' = IF type \in Writes THEN NULL ELSE Contents(p)[o]
        /\ Contents(p)' = IF type \in Writes THEN [Contents(p) EXCEPT ![o] = val]
                          ELSE Contents(p)
    BY <1>3, <1>10, <1>15, <2>2, <2>3, AccessContents
  <2>5. ASSUME NEW k \in Table \ {p}, ~ IsLost(k)'
        PROVE  ~ IsLost(k) /\ Contents(k)' = Contents(k)
    <3>1. CASE k = q
      <4>1. swapfile'[swap_offset'[q]] = HeldPage(f)
        BY <1>7, <1>11, <2>5, <3>1 DEF IsLost
      <4>2. Contents(q)' = [i \in TraceOffsets |-> HeldPage(f)[i]]
        BY <1>8, <1>11, <4>1 DEF Contents
      <4>3. Contents(q) = [i \in TraceOffsets |-> HeldPage(f)[i]]
        BY <1>4, <1>8 DEF Contents, HeldPage
      <4>4. "ONSWAP" \notin flag[q]
        BY <1>4 DEF MemoryInv, FramesMatchPages
      <4> QED BY <3>1, <4>2, <4>3, <4>4 DEF IsLost
    <3>2. CASE k # q
      <4>1. ~ IsLost(k)
        BY <1>7, <1>11, <2>5, <3>2 DEF IsLost
      <4>2. "VALID" \in flag[k] => \A i \in TraceOffsets :
                physmem'[Byte(frame[k], i)] = physmem[Byte(frame[k], i)]
        BY <1>8, <1>13, <1>17, <3>2
      <4>3. flag[k] # {} /\ "VALID" \notin flag[k] =>
                swapfile'[swap_offset'[k]] = swapfile[swap_offset[k]]
        <5>1. flag[k] # {} /\ "VALID" \notin flag[k] => flag[k] = {"ONSWAP"}
          BY DEF MemoryInv, AbsentPages
        <5> QED BY <1>7, <3>2, <4>1, <5>1 DEF IsLost
      <4> QED BY <1>11, <3>2, <4>1, <4>2, <4>3 DEF Contents
    <3> QED BY <3>1, <3>2
  <2> QED BY <2>1, <2>4, <2>5 DEF PageStep
<1> QED BY <1>18, <1>19

\* One step of the simulator: it ends, or it is a reference of the trace.
Reference ==
    \E v \in Vpns, o \in TraceOffsets, type \in Types, val \in Values :
        /\ Index(v) \in Table
        /\ request' = <<v, o>>
        /\ PageStep(Index(v), o, type, val)

\* A step that ends the simulator, or none, leaves the memory as it is.
NoReference == UNCHANGED <<flag, frame, swap_offset, physmem, swapfile, request, got>>

\* Every step of the simulator is one of the two for the contents of its pages.
LEMMA ContentsStep ==
    ASSUME StaysInPage, MemoryInv, CleanHasCopy, [Next]_vars
    PROVE  CleanHasCopy' /\ (NoReference \/ Reference)
<1>1. ASSUME NoReference PROVE CleanHasCopy'
  BY <1>1 DEF NoReference, CleanHasCopy, HeldPage
<1>2. ASSUME NEW end, Stop(end) PROVE NoReference
  BY <1>2 DEF Stop, table, swap, NoReference
<1>3. ASSUME NEW type \in Types, NEW vpn \in Vpns, NEW o \in TraceOffsets,
             NEW val \in Values, access_mem(type, vpn, o, val)
      PROVE  CleanHasCopy' /\ (NoReference \/ Reference)
  <2> DEFINE p == Index(vpn)
  <2>1. \/ OutOfTable(p)
        \/ /\ p \in Table
           /\ \/ Hit(p, vpn, o, type, val)
              \/ MissFree(p, vpn, o, type, val)
              \/ MissEvict(p, vpn, o, type, val)
              \/ MissLost(p)
              \/ EvictUnowned(p)
    BY <1>3 DEF access_mem
  <2> HIDE DEF p
  <2>2. CASE OutOfTable(p) \/ MissLost(p) \/ EvictUnowned(p)
    BY <1>1, <1>2, <2>2 DEF OutOfTable, MissLost, EvictUnowned
  <2>3. CASE p \in Table /\ (\/ Hit(p, vpn, o, type, val)
                            \/ MissFree(p, vpn, o, type, val)
                            \/ MissEvict(p, vpn, o, type, val))
    <3>1. CleanHasCopy' /\ PageStep(p, o, type, val)
      BY <2>3, HitContents, MissFreeContents, MissEvictContents
    <3>2. request' = <<vpn, o>>
      BY <2>3 DEF Hit, MissFree, MissEvict, Touch
    <3> QED BY <2>3, <3>1, <3>2 DEF Reference, p
  <2> QED BY <2>1, <2>2, <2>3
<1>4. CASE UNCHANGED vars
  BY <1>1, <1>4 DEF vars, table, swap, NoReference
<1> QED BY <1>3, <1>4 DEF Next, Ended

\* Every clean page in a frame has its bytes in the swap file, so that evicting
\* it without writing loses nothing.
THEOREM CopiesCorrect == StaysInPage => (Spec => []CleanHasCopy)
<1> SUFFICES ASSUME StaysInPage PROVE Spec => []CleanHasCopy
  OBVIOUS
<1>1. Init => CleanHasCopy
  BY DEF Init, CleanHasCopy
<1>2. MemoryInv /\ CleanHasCopy /\ [Next]_vars => CleanHasCopy'
  BY ContentsStep
<1> QED BY <1>1, <1>2, MemoryInvariance, PTL DEF Spec

-----------------------------------------------------------------------------
(* The refinement. *)

\* Page numbers that fit in an int have entries of their own.
LEMMA IndexApart ==
    ASSUME NoAliases, NEW u \in Vpns, NEW v \in Vpns, Index(u) = Index(v)
    PROVE  u = v
<1>1. \A w \in 0 .. IntModulus - 1 :
        Index(w) = IF w >= IntModulus \div 2 THEN w - IntModulus ELSE w
  BY SizesAssumption DEF Index
<1>2. IntModulus \div 2 \in Nat /\ IntModulus \in Nat
  BY SizesAssumption
<1>3. u \in 0 .. IntModulus - 1 /\ v \in 0 .. IntModulus - 1
  BY DEF NoAliases
<1> QED BY <1>1, <1>2, <1>3

\* A page that is not lost has a byte at every offset.
LEMMA ContentsType ==
    ASSUME StaysInPage, MemoryInv, NEW p \in Table, ~ IsLost(p)
    PROVE  Contents(p) \in [TraceOffsets -> Values]
<1> SUFFICES ASSUME NEW o \in TraceOffsets
             PROVE  Contents(p)[o] \in Values
  BY DEF Contents
<1>1. o \in PageBytes
  BY DEF StaysInPage
<1>2. CASE flag[p] = {}
  BY <1>2, TraceAssumption DEF Contents
<1>3. CASE "VALID" \in flag[p]
  <2>1. frame[p] \in Frames /\ physmem \in PhysicalMemory
    BY DEF MemoryInv, TypeOK, PhysicalMemory
  <2>2. Byte(frame[p], o) \in 0 .. memsize * SIMPAGESIZE
    BY <1>1, <2>1, ByteFacts, SizesAssumption DEF PageBytes
  <2> QED BY <1>3, <2>1, <2>2 DEF Contents, PhysicalMemory
<1>4. CASE flag[p] = {"ONSWAP"}
  <2>1. swap_offset[p] # INVALID_SWAP
    BY <1>4 DEF IsLost
  <2>2. swapfile[swap_offset[p]] \in [PageBytes -> Values]
    BY <2>1 DEF MemoryInv, TypeOK
  <2> QED BY <1>1, <1>4, <2>2 DEF Contents
<1> QED BY <1>2, <1>3, <1>4 DEF MemoryInv, AbsentPages

\* What a reference does to the memory the trace sees.
LEMMA MemoryReference ==
    ASSUME StaysInPage, NoAliases, MemoryInv,
           NEW v \in Vpns, NEW o \in TraceOffsets, NEW type, NEW val \in Values,
           Index(v) \in Table, PageStep(Index(v), o, type, val)
    PROVE  /\ Memory[v] # NULL
           /\ Memory'[v] = IF type \in Writes THEN [Memory[v] EXCEPT ![o] = val]
                           ELSE Memory[v]
           /\ got' = IF type \in Writes THEN NULL ELSE Memory[v][o]
           /\ \A u \in Vpns \ {v} : Memory'[u] \in {NULL, Memory[u]}
<1> DEFINE p == Index(v)
<1>1. Memory[v] = Contents(p) /\ Memory'[v] = Contents(p)'
  BY DEF Memory, PageStep
<1>2. Memory[v] # NULL
  BY <1>1, ContentsType, TraceAssumption DEF PageStep
<1>3. ASSUME NEW u \in Vpns \ {v}
      PROVE  Memory'[u] \in {NULL, Memory[u]}
  <2>1. CASE Index(u) \notin Table
    BY <2>1 DEF Memory
  <2>2. CASE Index(u) \in Table
    <3>1. Index(u) # p
      BY IndexApart
    <3>2. \/ IsLost(Index(u))'
          \/ ~ IsLost(Index(u)) /\ Contents(Index(u))' = Contents(Index(u))
      BY <2>2, <3>1 DEF PageStep
    <3> QED BY <2>2, <3>2 DEF Memory
  <2> QED BY <2>1, <2>2
<1> QED BY <1>1, <1>2, <1>3 DEF PageStep

\* A step that is no reference does not show.
LEMMA MemoryStutter ==
    ASSUME NoReference
    PROVE  Memory' = Memory /\ request' = request /\ got' = got
<1>1. \A p : IsLost(p)' = IsLost(p) /\ Contents(p)' = Contents(p)
  BY DEF NoReference, IsLost, Contents
<1> QED BY <1>1 DEF Memory, NoReference

\* The simulator never shows anything but a flat array of bytes, of which whole
\* pages may be lost when the swap file is full or fails to take them.
THEOREM LossyMemoryCorrect ==
    StaysInPage /\ NoAliases => (Spec => ImplementsLossyMemory)
<1> SUFFICES ASSUME StaysInPage, NoAliases PROVE Spec => ImplementsLossyMemory
  OBVIOUS
<1>1. Init => Lossy!FlatInit
  <2> SUFFICES ASSUME Init PROVE Lossy!FlatInit
    OBVIOUS
  <2>1. \A p \in Table : ~ IsLost(p) /\ Contents(p) = [o \in TraceOffsets |-> 0]
    BY DEF Init, IsLost, Contents
  <2>2. Memory = [v \in Vpns |-> [o \in TraceOffsets |-> 0]]
    BY <2>1 DEF Memory
  <2> QED BY <2>2 DEF Init, Lossy!FlatInit, Lossy!Zeroed
<1>2. MemoryInv /\ CleanHasCopy /\ [Next]_vars
        => [Lossy!FlatNext]_Lossy!flatVars
  <2> SUFFICES ASSUME MemoryInv, NoReference \/ Reference
               PROVE  [Lossy!FlatNext]_Lossy!flatVars
    BY ContentsStep
  <2>1. CASE NoReference
    BY <2>1, MemoryStutter DEF Lossy!flatVars
  <2>2. CASE Reference
    <3>1. PICK v \in Vpns, o \in TraceOffsets, type \in Types, val \in Values :
            /\ Index(v) \in Table
            /\ request' = <<v, o>>
            /\ PageStep(Index(v), o, type, val)
      BY <2>2 DEF Reference
    <3> DEFINE gone == {u \in Vpns \ {v} : Memory'[u] = NULL}
    <3>2. /\ Memory[v] # NULL
          /\ Memory'[v] = IF type \in Writes THEN [Memory[v] EXCEPT ![o] = val]
                          ELSE Memory[v]
          /\ got' = IF type \in Writes THEN NULL ELSE Memory[v][o]
          /\ \A u \in Vpns \ {v} : Memory'[u] \in {NULL, Memory[u]}
      BY <3>1, MemoryReference
    <3>3. \A u \in Vpns : Memory'[u] =
                IF u \in gone THEN NULL
                ELSE IF u = v THEN Memory'[v] ELSE Memory[u]
      BY <3>2
    <3>4. Memory' = [u \in Vpns |-> Memory'[u]]
      BY DEF Memory
    <3>5. Lossy!Losing(gone) /\ gone \in SUBSET (Vpns \ {v})
      BY DEF Lossy!Losing
    <3> HIDE DEF gone
    <3>6. CASE type \notin Writes
      <4>1. Memory' = [u \in Vpns |-> IF u \in gone THEN NULL ELSE Memory[u]]
        BY <3>2, <3>3, <3>4, <3>6
      <4>2. Lossy!Read(v, o)
        BY <3>1, <3>2, <3>5, <3>6, <4>1 DEF Lossy!Read
      <4> QED BY <4>2 DEF Lossy!FlatNext
    <3>7. CASE type \in Writes
      <4>1. Memory' = [u \in Vpns |->
                IF u \in gone THEN NULL
                ELSE IF u = v THEN [Memory[v] EXCEPT ![o] = val] ELSE Memory[u]]
        BY <3>2, <3>3, <3>4, <3>7
      <4>2. Lossy!Write(v, o, val)
        BY <3>1, <3>2, <3>5, <3>7, <4>1 DEF Lossy!Write
      <4> QED BY <4>2 DEF Lossy!FlatNext
    <3> QED BY <3>6, <3>7
  <2> QED BY <2>1, <2>2
<1> QED BY <1>1, <1>2, CopiesCorrect, MemoryInvariance, PTL
        DEF Spec, ImplementsLossyMemory, Lossy!FlatSpec

-----------------------------------------------------------------------------
(* A swap file with a slot for every page of the trace loses nothing. *)

\* The entries of the page table that the trace refers to.
TracePages == {Index(v) : v \in Vpns} \cap Table

\* Writes to the swap file succeed, and it has a slot for every page.
EnoughSlots ==
    /\ "write" \notin DiskFails
    /\ Cardinality(TracePages) <= SwapSize

\* Only pages of the trace have slots, no slot is taken without an owner, and a
\* page on swap has one.
SlotsInv ==
    /\ \A p \in Table : flag[p] # {} \/ swap_offset[p] # INVALID_SWAP =>
            p \in TracePages
    /\ \A s \in swapmap : \E p \in TracePages : swap_offset[p] = s
    /\ \A p \in Table : flag[p] = {"ONSWAP"} => swap_offset[p] # INVALID_SWAP

\* swap_pageout finds a slot: if all were taken, they had as many owners besides
\* the victim.
LEMMA SlotFound ==
    ASSUME EnoughSlots, MemoryInv, SlotsInv, NEW q \in TracePages
    PROVE  SlotOf(q) \in Slots
<1>1. /\ q \in Table /\ swap_offset \in [Table -> Slots \cup {INVALID_SWAP}]
      /\ SwapSize \in Nat \ {0} /\ TableSize \in Nat \ {0}
  BY SizesAssumption DEF TracePages, MemoryInv, TypeOK
<1>2. CASE swap_offset[q] # INVALID_SWAP
  BY <1>1, <1>2 DEF SlotOf
<1>3. CASE swap_offset[q] = INVALID_SWAP /\ ~ (Slots \subseteq swapmap)
  <2>1. Slots \ swapmap \in SUBSET Nat /\ Slots \ swapmap # {}
    BY <1>1, <1>3 DEF Slots
  <2>2. First(Slots \ swapmap) \in Slots \ swapmap
    BY <2>1, FirstFacts
  <2> QED BY <1>3, <2>2 DEF SlotOf
<1>4. CASE swap_offset[q] = INVALID_SWAP /\ Slots \subseteq swapmap
  <2> DEFINE others == TracePages \ {q}
             owner == [s \in Slots |-> CHOOSE p \in others : swap_offset[p] = s]
  <2>1. \A s \in Slots : \E p \in others : swap_offset[p] = s
    BY <1>1, <1>4 DEF SlotsInv, Slots, INVALID_SWAP
  <2>2. \A s \in Slots : owner[s] \in others /\ swap_offset[owner[s]] = s
    BY <2>1
  <2>3. owner \in Injection(Slots, others)
    <3>1. owner \in [Slots -> others]
      BY <2>2
    <3>2. \A s, t \in Slots : owner[s] = owner[t] => s = t
      BY <2>2
    <3> QED BY <3>1, <3>2 DEF Injection, IsInjective
  <2> HIDE DEF owner
  <2>4. IsFiniteSet(TracePages)
    <3>1. IsFiniteSet(Table)
      BY <1>1, FS_Interval DEF Table
    <3> QED BY <3>1, FS_Subset DEF TracePages
  <2>5. /\ IsFiniteSet(others) /\ Cardinality(others) = Cardinality(TracePages) - 1
        /\ Cardinality(TracePages) \in Nat
    BY <2>4, FS_RemoveElement, FS_CardinalityType
  <2> HIDE DEF others
  <2>6. Cardinality(Slots) <= Cardinality(others)
    BY <2>3, <2>5, FS_Injection
  <2>7. Cardinality(Slots) = SwapSize
    BY <1>1, FS_Interval DEF Slots
  <2> QED BY <1>1, <2>5, <2>6, <2>7 DEF EnoughSlots
<1> QED BY <1>2, <1>3, <1>4

\* A step that pages nothing out keeps the slots as they are.
LEMMA SlotsKept ==
    ASSUME MemoryInv, SlotsInv, NEW p \in TracePages, NEW new, new # {"ONSWAP"},
           flag' = [flag EXCEPT ![p] = new],
           swap_offset' = swap_offset, swapmap' = swapmap
    PROVE  SlotsInv'
<1>1. \A k \in Table \ {p} : flag'[k] = flag[k]
  BY DEF MemoryInv, TypeOK
<1>2. flag'[p] = new
  BY DEF MemoryInv, TypeOK, TracePages
<1> QED BY <1>1, <1>2 DEF SlotsInv

\* An eviction gives the victim a slot, or finds that it has one.
LEMMA SlotsMoved ==
    ASSUME EnoughSlots, MemoryInv, CleanHasCopy, SlotsInv, NEW p \in TracePages,
           NEW vpn, NEW o, NEW type, NEW val, MissEvict(p, vpn, o, type, val)
    PROVE  SlotsInv'
<1>1. PICK f \in Victims :
        /\ pte[f] # NULL
        /\ IF "DIRTY" \in flag[pte[f]] THEN PageOut(pte[f], f)
           ELSE UNCHANGED <<swap, swap_offset>>
        /\ flag' = [flag EXCEPT ![pte[f]] = EvictedFlag, ![p] = NewFlag(p, type)]
  BY DEF MissEvict
<1>2. f \in Frames /\ p \in Table
  BY <1>1, VictimFacts DEF TracePages
<1>3. PICK q \in Table : q = pte[f] /\ "VALID" \in flag[q] /\ q # p
  BY <1>1, <1>2 DEF MissEvict, MemoryInv, TypeOK, FramesMatchPages
<1>4. q \in TracePages
  BY <1>3 DEF SlotsInv
<1>5. /\ flag'[q] = {"ONSWAP"} /\ flag'[p] # {"ONSWAP"}
      /\ \A k \in Table \ {p, q} : flag'[k] = flag[k]
  BY <1>1, <1>2, <1>3 DEF MemoryInv, TypeOK, EvictedFlag, NewFlag
<1>6. CASE "DIRTY" \in flag[q]
  <2>1. PICK s \in Slots : s = SlotOf(q)
    BY <1>4, SlotFound
  <2>2. s # INVALID_SWAP
    BY DEF Slots, INVALID_SWAP
  <2>3. PageOut(q, f)
    BY <1>1, <1>3, <1>6
  <2>4. swapmap' = swapmap \cup {s} /\ swap_offset' = [swap_offset EXCEPT ![q] = s]
    BY <2>1, <2>2, <2>3 DEF PageOut, Taken, EnoughSlots
  <2>5. /\ swap_offset'[q] = s
        /\ \A k \in Table \ {q} : swap_offset'[k] = swap_offset[k]
    BY <2>4 DEF MemoryInv, TypeOK
  <2>6. ASSUME NEW t \in swapmap' PROVE \E k \in TracePages : swap_offset'[k] = t
    <3>1. CASE t = s
      BY <1>4, <2>5, <3>1
    <3>2. CASE t # s
      <4>1. PICK k \in TracePages : swap_offset[k] = t
        BY <2>4, <3>2 DEF SlotsInv
      <4>2. k # q
        <5>1. t # INVALID_SWAP
          BY <2>4, <3>2 DEF MemoryInv, TypeOK, Slots, INVALID_SWAP
        <5> QED BY <2>1, <3>2, <4>1, <5>1 DEF SlotOf
      <4> QED BY <2>5, <4>1, <4>2 DEF TracePages
    <3> QED BY <3>1, <3>2
  <2> QED BY <1>4, <1>5, <2>2, <2>5, <2>6 DEF SlotsInv
<1>7. CASE "DIRTY" \notin flag[q]
  <2>1. swapmap' = swapmap /\ swap_offset' = swap_offset
    BY <1>1, <1>3, <1>7 DEF swap
  <2>2. swap_offset[q] # INVALID_SWAP
    BY <1>3, <1>7 DEF CleanHasCopy
  <2> QED BY <1>4, <1>5, <2>1, <2>2 DEF SlotsInv
<1> QED BY <1>6, <1>7

\* One step, whichever it is.
LEMMA SlotsStep ==
    EnoughSlots /\ MemoryInv /\ CleanHasCopy /\ SlotsInv /\ [Next]_vars => SlotsInv'
<1> SUFFICES ASSUME EnoughSlots, MemoryInv, CleanHasCopy, SlotsInv, [Next]_vars
             PROVE  SlotsInv'
  OBVIOUS
<1>1. ASSUME UNCHANGED <<flag, swap_offset, swapmap>> PROVE SlotsInv'
  BY <1>1 DEF SlotsInv
<1>2. ASSUME NEW end, Stop(end) PROVE SlotsInv'
  BY <1>1, <1>2 DEF Stop, table, swap
<1>3. ASSUME NEW type \in Types, NEW vpn \in Vpns, NEW o \in TraceOffsets,
             NEW val \in Values, access_mem(type, vpn, o, val)
      PROVE  SlotsInv'
  <2> DEFINE p == Index(vpn)
  <2>1. \/ OutOfTable(p)
        \/ /\ p \in TracePages
           /\ \/ Hit(p, vpn, o, type, val)
              \/ MissFree(p, vpn, o, type, val)
              \/ MissEvict(p, vpn, o, type, val)
              \/ MissLost(p)
              \/ EvictUnowned(p)
    BY <1>3 DEF access_mem, TracePages
  <2> HIDE DEF p
  <2>2. CASE OutOfTable(p) \/ MissLost(p) \/ EvictUnowned(p)
    BY <1>2, <2>2 DEF OutOfTable, MissLost, EvictUnowned
  <2>3. CASE p \in TracePages /\ Hit(p, vpn, o, type, val)
    <3> DEFINE new == IF type \in Writes THEN flag[p] \cup {"DIRTY"} ELSE flag[p]
    <3>1. flag' = [flag EXCEPT ![p] = new] /\ "VALID" \in new
      BY <2>3 DEF Hit
    <3>2. new # {"ONSWAP"} /\ UNCHANGED <<swap_offset, swapmap>>
      BY <2>3, <3>1 DEF Hit, swap
    <3> HIDE DEF new
    <3> QED BY <2>3, <3>1, <3>2, SlotsKept
  <2>4. CASE p \in TracePages /\ MissFree(p, vpn, o, type, val)
    <3>1. /\ flag' = [flag EXCEPT ![p] = NewFlag(p, type)]
          /\ UNCHANGED <<swap_offset, swapmap>>
      BY <2>4 DEF MissFree, swap
    <3>2. NewFlag(p, type) # {"ONSWAP"}
      BY DEF NewFlag
    <3> QED BY <2>4, <3>1, <3>2, SlotsKept
  <2>5. CASE p \in TracePages /\ MissEvict(p, vpn, o, type, val)
    BY <2>5, SlotsMoved
  <2> QED BY <2>1, <2>2, <2>3, <2>4, <2>5
<1>4. CASE UNCHANGED vars
  BY <1>1, <1>4 DEF vars, table, swap
<1> QED BY <1>3, <1>4 DEF Next, Ended

\* No page of the trace is lost.
AllHeld == \A v \in Vpns : Memory[v] # NULL

\* With as many slots as pages, a page always has a frame or a slot.
LEMMA AllHeldInvariance == StaysInPage /\ EnoughSlots => (Spec => []AllHeld)
<1> SUFFICES ASSUME StaysInPage, EnoughSlots PROVE Spec => []AllHeld
  OBVIOUS
<1>1. Init => SlotsInv
  BY DEF Init, SlotsInv
<1>2. MemoryInv /\ SlotsInv => AllHeld
  <2> SUFFICES ASSUME MemoryInv, SlotsInv, NEW v \in Vpns PROVE Memory[v] # NULL
    BY DEF AllHeld
  <2>1. CASE Index(v) \notin Table
    <3>1. [o \in TraceOffsets |-> 0] \in [TraceOffsets -> Values]
      BY TraceAssumption
    <3> QED BY <2>1, <3>1, TraceAssumption DEF Memory
  <2>2. CASE Index(v) \in Table
    <3>1. ~ IsLost(Index(v))
      BY <2>2 DEF IsLost, SlotsInv, MemoryInv, FramesMatchPages
    <3>2. Contents(Index(v)) \in [TraceOffsets -> Values]
      BY <2>2, <3>1, ContentsType
    <3> QED BY <2>2, <3>1, <3>2, TraceAssumption DEF Memory
  <2> QED BY <2>1, <2>2
<1> QED BY <1>1, <1>2, SlotsStep, CopiesCorrect, MemoryInvariance, PTL DEF Spec

\* With a slot for every page, whatever is evicted, paged out and paged in, a
\* trace reads what it last wrote and zero before.
THEOREM FlatMemoryCorrect ==
    StaysInPage /\ NoAliases /\ EnoughSlots => (Spec => ImplementsFlatMemory)
<1> SUFFICES ASSUME StaysInPage, NoAliases, EnoughSlots
             PROVE  Spec => ImplementsFlatMemory
  OBVIOUS
<1>1. Init => Flat!FlatInit
  <2> SUFFICES ASSUME Init PROVE Flat!FlatInit
    OBVIOUS
  <2>1. \A p \in Table : ~ IsLost(p) /\ Contents(p) = [o \in TraceOffsets |-> 0]
    BY DEF Init, IsLost, Contents
  <2>2. Memory = [v \in Vpns |-> [o \in TraceOffsets |-> 0]]
    BY <2>1 DEF Memory
  <2> QED BY <2>2 DEF Init, Flat!FlatInit, Flat!Zeroed
<1>2. MemoryInv /\ CleanHasCopy /\ AllHeld' /\ [Next]_vars
        => [Flat!FlatNext]_Flat!flatVars
  <2> SUFFICES ASSUME MemoryInv, AllHeld', NoReference \/ Reference
               PROVE  [Flat!FlatNext]_Flat!flatVars
    BY ContentsStep
  <2>1. CASE NoReference
    BY <2>1, MemoryStutter DEF Flat!flatVars
  <2>2. CASE Reference
    <3>1. PICK v \in Vpns, o \in TraceOffsets, type \in Types, val \in Values :
            /\ Index(v) \in Table
            /\ request' = <<v, o>>
            /\ PageStep(Index(v), o, type, val)
      BY <2>2 DEF Reference
    <3>2. /\ Memory[v] # NULL
          /\ Memory'[v] = IF type \in Writes THEN [Memory[v] EXCEPT ![o] = val]
                          ELSE Memory[v]
          /\ got' = IF type \in Writes THEN NULL ELSE Memory[v][o]
          /\ \A u \in Vpns \ {v} : Memory'[u] \in {NULL, Memory[u]}
      BY <3>1, MemoryReference
    <3>3. \A u \in Vpns \ {v} : Memory'[u] = Memory[u]
      BY <3>2 DEF AllHeld
    <3>4. Memory' = [u \in Vpns |-> Memory'[u]]
      BY DEF Memory
    <3>5. Flat!Losing({}) /\ {} \in SUBSET (Vpns \ {v})
      BY DEF Flat!Losing
    <3>6. CASE type \notin Writes
      <4>1. Memory' = [u \in Vpns |-> IF u \in {} THEN NULL ELSE Memory[u]]
        BY <3>2, <3>3, <3>4, <3>6
      <4>2. Flat!Read(v, o)
        BY <3>1, <3>2, <3>5, <3>6, <4>1 DEF Flat!Read
      <4> QED BY <4>2 DEF Flat!FlatNext
    <3>7. CASE type \in Writes
      <4>1. Memory' = [u \in Vpns |->
                IF u \in {} THEN NULL
                ELSE IF u = v THEN [Memory[v] EXCEPT ![o] = val] ELSE Memory[u]]
        BY <3>2, <3>3, <3>4, <3>7
      <4>2. Flat!Write(v, o, val)
        BY <3>1, <3>2, <3>5, <3>7, <4>1 DEF Flat!Write
      <4> QED BY <4>2 DEF Flat!FlatNext
    <3> QED BY <3>6, <3>7
  <2> QED BY <2>1, <2>2
<1> QED BY <1>1, <1>2, AllHeldInvariance, CopiesCorrect, MemoryInvariance, PTL
        DEF Spec, ImplementsFlatMemory, Flat!FlatSpec

=============================================================================
