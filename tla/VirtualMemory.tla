---------------------------- MODULE VirtualMemory ----------------------------
(***************************************************************************)
(* The virtual memory simulator of a3-chenz347: a trace of references      *)
(* (sim.c) goes through a page table (pagetable.c) to a few frames of      *)
(* physical memory, with a replacement policy (rand.c, rr.c, clock.c,      *)
(* lru.c) and a swap file (swap.c) behind it.  The program is sequential:  *)
(* an action is one line of the trace.  The REF bit of a flag word is set  *)
(* with every other value of it and tested nowhere, so it is left out.     *)
(***************************************************************************)
EXTENDS Integers, SequencesExt

CONSTANTS
    memsize,        \* frames of physical memory
    SwapSize,       \* slots of the swap file
    SIMPAGESIZE,    \* bytes of a page that are simulated
    TableSize,      \* g_pt_entry_size
    IntModulus,     \* 2^32, the values of an int
    Algorithms,     \* the names of replacement algorithms main may be given
    Vpns,           \* page numbers the trace refers to
    TraceOffsets,   \* offsets in a page that sim.c accepts from the trace
    Values,         \* values of a byte, 0 among them
    NULL,
    FreshIsZero,    \* malloc happens to return zeroed memory
    DiskFails       \* which calls on the swap file may fail: "read", "write"

Frames == 0 .. memsize - 1
Slots == 0 .. SwapSize - 1
Table == 0 .. TableSize - 1
PageBytes == 0 .. SIMPAGESIZE - 1
INVALID_SWAP == -1
Names == {"rand", "rr", "clock", "lru"}

ASSUME SizesAssumption ==
    /\ memsize \in Nat \ {0} /\ SwapSize \in Nat \ {0}
    /\ SIMPAGESIZE \in Nat \ {0} /\ TableSize \in Nat \ {0}
    /\ IntModulus \in Nat \ {0}
ASSUME TraceAssumption ==
    /\ Algorithms \subseteq Names /\ Algorithms # {}
    /\ Vpns \subseteq Nat
    /\ TraceOffsets \subseteq 0 .. SIMPAGESIZE
    /\ Values \subseteq Nat /\ 0 \in Values
    /\ NULL \notin Int \cup (Vpns \X TraceOffsets) \cup [TraceOffsets -> Values]
    /\ FreshIsZero \in BOOLEAN /\ DiskFails \subseteq {"read", "write"}

VARIABLES
    replacement_alg,    \* the algorithm this run of the program uses
    flag,           \* pt_entry_t.flag of every entry of g_pt_entry
    frame,          \* pt_entry_t.frame
    ref,            \* pt_entry_t.ref
    swap_offset,    \* pt_entry_t.swap_offset, in slots
    in_use,         \* coremap[].in_use
    pte,            \* coremap[].pte, as an index of g_pt_entry or NULL
    physmem,        \* the bytes of all frames, and the one behind them
    swapmap,        \* the slots in use
    swapfile,       \* the bytes of every slot
    hand,           \* the frame at rr's index or at clock's hand
    mem_full,       \* clock has seen every frame filled
    lru_list,       \* lru's list of frames
    outcome,        \* "run", "aborted" or "undefined"
    request, got,   \* address and result of the last reference
    queue,          \* history: resident pages in the order they are to leave
    recent          \* history: pages referenced since clock_evict passed them

table == <<flag, frame, ref, swap_offset>>
coremap == <<in_use, pte>>
swap == <<swapmap, swapfile>>
policy == <<hand, mem_full, lru_list>>
vars == <<replacement_alg, table, coremap, physmem, swap, policy, outcome,
          request, got, queue, recent>>

Writes == {"S", "M"}
Types == {"I", "L"} \cup Writes

\* (vaddr & PAGE_MASK) >> PAGE_SHIFT, stored in an int.
Index(vpn) ==
    LET low == vpn % IntModulus
    IN  IF low >= IntModulus \div 2 THEN low - IntModulus ELSE low

Byte(f, o) == f * SIMPAGESIZE + o

\* The algorithm whose functions init_func, ref_func and evict_func point to.
Uses(name) == replacement_alg = name

\* What a search from index 0 up finds.  A name with a suffix is a bug that
\* could have been made in the definition that follows it.
First_Highest(set) == CHOOSE i \in set : \A j \in set : i >= j
First(set) == CHOOSE i \in set : \A j \in set : i <= j

Init ==
    /\ replacement_alg \in Algorithms
    /\ flag = [p \in Table |-> {}]
    /\ frame = [p \in Table |-> 0]
    /\ ref = [p \in Table |-> FALSE]
    /\ swap_offset = [p \in Table |-> INVALID_SWAP]
    /\ in_use \in [Frames -> BOOLEAN]
    /\ FreshIsZero \/ Uses("clock") => \A f \in Frames : ~ in_use[f]
    /\ pte = [f \in Frames |-> NULL]
    /\ physmem \in [0 .. memsize * SIMPAGESIZE -> Values]
    /\ swapmap = {}
    /\ swapfile = [s \in Slots |-> [o \in PageBytes |-> 0]]
    /\ hand = 0
    /\ mem_full = FALSE
    /\ lru_list = <<>>
    /\ outcome = "run"
    /\ request = NULL
    /\ got = NULL
    /\ queue = <<>>
    /\ recent = {}

-----------------------------------------------------------------------------
(* The replacement algorithms. *)

\* Where clock's hand is after n steps around the frames.
Ahead(n) == (hand + n) % memsize

\* How many referenced pages clock_evict gives a second chance.
SecondChances ==
    LET tries == {n \in 0 .. memsize - 1 : ~ ref[pte[Ahead(n)]]}
    IN  IF tries = {} THEN memsize ELSE First(tries)

\* The frames evict_func may return.  lru takes the head of an empty list for a
\* frame and returns whatever is there.
rand_evict == Frames
rr_evict == {hand}
lru_evict == IF lru_list = <<>> THEN Frames ELSE {Head(lru_list)}
clock_evict == {Ahead(SecondChances)}

Victims ==
    CASE Uses("rand") -> rand_evict
      [] Uses("rr") -> rr_evict
      [] Uses("lru") -> lru_evict
      [] Uses("clock") -> clock_evict

\* What evict_func leaves of the reference bits, of the hand and of the list.
SparedRef(p) ==
    /\ ref[p]
    /\ Uses("clock") => \A n \in 0 .. SecondChances - 1 : pte[Ahead(n)] # p

rr_next == Ahead(1)
clock_next == Ahead(SecondChances + 1)
AdvancedHand ==
    CASE Uses("rr") -> rr_next
      [] Uses("clock") -> clock_next
      [] OTHER -> hand

ShortenedList == IF Uses("lru") THEN Tail(lru_list) ELSE lru_list

\* list_del: x is on the list at most once.
Without(list, x) ==
    IF Contains(list, x)
    THEN RemoveAt(list, CHOOSE i \in 1 .. Len(list) : list[i] = x)
    ELSE list

\* ref_func(f), where f holds page p; refs, h and list are as evict_func, if it
\* was called, has left them.
RefFunc_SkipsTail(f, p, refs, h, list) ==
    /\ ref' = [refs EXCEPT ![p] = @ \/ Uses("clock")]
    /\ hand' = IF Uses("clock") /\ ~ mem_full /\ h = f
               THEN (h + 1) % memsize ELSE h
    /\ mem_full' = (mem_full \/ (Uses("clock") /\ h = f /\ f = memsize - 1))
    /\ lru_list' = IF Uses("lru") /\ ~ Contains(list, f)
                   THEN Append(list, f) ELSE list

RefFunc_HandOnAnyHit(f, p, refs, h, list) ==
    /\ ref' = [refs EXCEPT ![p] = @ \/ Uses("clock")]
    /\ hand' = IF Uses("clock") /\ ~ mem_full
               THEN (h + 1) % memsize ELSE h
    /\ mem_full' = (mem_full \/ (Uses("clock") /\ h = memsize - 1))
    /\ lru_list' = IF Uses("lru") THEN Append(Without(list, f), f) ELSE list

RefFunc_BitUntilFull(f, p, refs, h, list) ==
    /\ ref' = [refs EXCEPT ![p] = @ \/ (Uses("clock") /\ ~ mem_full)]
    /\ hand' = IF Uses("clock") /\ ~ mem_full /\ h = f
               THEN (h + 1) % memsize ELSE h
    /\ mem_full' = (mem_full \/ (Uses("clock") /\ h = f /\ f = memsize - 1))
    /\ lru_list' = IF Uses("lru") THEN Append(Without(list, f), f) ELSE list

RefFunc(f, p, refs, h, list) ==
    /\ ref' = [refs EXCEPT ![p] = @ \/ Uses("clock")]
    /\ hand' = IF Uses("clock") /\ ~ mem_full /\ h = f
               THEN (h + 1) % memsize ELSE h
    /\ mem_full' = (mem_full \/ (Uses("clock") /\ h = f /\ f = memsize - 1))
    /\ lru_list' = IF Uses("lru") THEN Append(Without(list, f), f) ELSE list

\* History of clock, read off the references and the way of the hand and not off
\* the bits: the pages the hand has passed when clock_evict returns, and the
\* pages of set with p, which is referenced now.
Passed ==
    IF Uses("clock") THEN {pte[Ahead(n)] : n \in 0 .. SecondChances} ELSE {}
Referenced(p, set) == IF Uses("clock") THEN set \cup {p} ELSE set

-----------------------------------------------------------------------------
(* A reference of the trace: kind of access type to offset o of entry p. *)

\* The access itself, on memory bytes as find_physpage left them.
Touch(vpn, o, type, val, f, bytes) ==
    /\ request' = <<vpn, o>>
    /\ got' = IF type \in Writes THEN NULL ELSE bytes[Byte(f, o)]
    /\ physmem' = IF type \in Writes
                  THEN [bytes EXCEPT ![Byte(f, o)] = val] ELSE bytes

\* The memory once frame f holds the given page.
Filled(f, page) ==
    [b \in DOMAIN physmem |->
        IF b \in Byte(f, 0) .. Byte(f, SIMPAGESIZE - 1)
        THEN page[b - Byte(f, 0)] ELSE physmem[b]]

HeldPage(f) == [o \in PageBytes |-> physmem[Byte(f, o)]]
ZeroPage == [o \in PageBytes |-> 0]

\* What find_physpage makes of an entry that was not valid: a page that is
\* touched for the first time is dirty whatever the access.
NewFlag_CleanFirst(p, type) ==
    {"VALID"} \cup (IF type \in Writes THEN {"DIRTY"} ELSE {})

NewFlag(p, type) ==
    {"VALID"} \cup (IF flag[p] = {} \/ type \in Writes THEN {"DIRTY"} ELSE {})

Hit(p, vpn, o, type, val) ==
    /\ "VALID" \in flag[p]
    /\ flag' = [flag EXCEPT ![p] =
            IF type \in Writes THEN @ \cup {"DIRTY"} ELSE @]
    /\ RefFunc(frame[p], p, ref, hand, lru_list)
    /\ Touch(vpn, o, type, val, frame[p], physmem)
    /\ queue' = IF Uses("lru") THEN Append(Without(queue, p), p) ELSE queue
    /\ recent' = Referenced(p, recent)
    /\ UNCHANGED <<frame, swap_offset, coremap, swap, outcome>>

FreeFrames_SkipsLast == {f \in Frames : ~ in_use[f] /\ f < memsize - 1}
FreeFrames == {f \in Frames : ~ in_use[f]}

\* allocate_frame finds a free frame: it takes the first one, and reads nothing
\* from the swap file.
MissFree(p, vpn, o, type, val) ==
    LET f == First(FreeFrames)
    IN  /\ "VALID" \notin flag[p]
        /\ FreeFrames # {}
        /\ flag' = [flag EXCEPT ![p] = NewFlag(p, type)]
        /\ frame' = [frame EXCEPT ![p] = f]
        /\ in_use' = [in_use EXCEPT ![f] = TRUE]
        /\ pte' = [pte EXCEPT ![f] = p]
        /\ RefFunc(f, p, ref, hand, lru_list)
        /\ Touch(vpn, o, type, val, f,
                 IF flag[p] = {} THEN Filled(f, ZeroPage) ELSE physmem)
        /\ queue' = Append(queue, p)
        /\ recent' = Referenced(p, recent)
        /\ UNCHANGED <<swap_offset, swap, outcome>>

\* The slot swap_pageout writes entry q to, INVALID_SWAP if there is none.
SlotOf_LeftoverBit(q) ==
    IF swap_offset[q] # INVALID_SWAP THEN swap_offset[q]
    ELSE First((0 .. SwapSize) \ swapmap)

SlotOf(q) ==
    IF swap_offset[q] # INVALID_SWAP THEN swap_offset[q]
    ELSE IF Slots \subseteq swapmap THEN INVALID_SWAP
    ELSE First(Slots \ swapmap)

Taken_Forgets(s) == swapmap
Taken(s) == IF s = INVALID_SWAP THEN swapmap ELSE swapmap \cup {s}

\* swap_pageout of entry q from frame f.  When the write fails the slot stays
\* taken, but the entry loses it.
PageOut(q, f) ==
    LET s == SlotOf(q)
    IN  /\ swapmap' = Taken(s)
        /\ \/ /\ s # INVALID_SWAP
              /\ swapfile' = [swapfile EXCEPT ![s] = HeldPage(f)]
              /\ swap_offset' = [swap_offset EXCEPT ![q] = s]
           \/ /\ s = INVALID_SWAP \/ "write" \in DiskFails
              /\ swap_offset' = [swap_offset EXCEPT ![q] = INVALID_SWAP]
              /\ UNCHANGED swapfile

\* All frames are in use: a victim is paged out if it is dirty, and the page
\* comes in from the swap file if it was there.  allocate_frame ignores what
\* swap_pagein returns.
CanRead(p) == flag[p] = {"ONSWAP"} => swap_offset[p] # INVALID_SWAP

EvictedFlag_StillValid == {"VALID", "ONSWAP"}
EvictedFlag == {"ONSWAP"}

MissEvict(p, vpn, o, type, val) ==
    /\ "VALID" \notin flag[p]
    /\ CanRead(p)
    /\ FreeFrames = {}
    /\ \E f \in Victims :
        LET q == pte[f]
        IN  /\ q # NULL
            /\ IF "DIRTY" \in flag[q] THEN PageOut(q, f)
               ELSE UNCHANGED <<swap, swap_offset>>
            /\ flag' = [flag EXCEPT ![q] = EvictedFlag, ![p] = NewFlag(p, type)]
            /\ frame' = [frame EXCEPT ![q] = 0, ![p] = f]
            /\ pte' = [pte EXCEPT ![f] = p]
            /\ RefFunc(f, p, [k \in Table |-> SparedRef(k)], AdvancedHand,
                       ShortenedList)
            /\ \/ Touch(vpn, o, type, val, f,
                        Filled(f, IF flag[p] = {} THEN ZeroPage
                                  ELSE swapfile[swap_offset[p]]))
               \/ /\ "read" \in DiskFails
                  /\ flag[p] # {}
                  /\ Touch(vpn, o, type, val, f, physmem)
            /\ queue' = Append(Without(queue, q), p)
            /\ recent' = Referenced(p, recent \ Passed)
            /\ UNCHANGED <<in_use, outcome>>

\* The process ends in a failed assertion or in undefined behaviour.
Stop(end) ==
    /\ outcome' = end
    /\ UNCHANGED <<table, coremap, physmem, swap, policy, request, got, queue,
                   recent>>

\* swap_pagein asserts that there is something to read.
MissLost(p) ==
    /\ "VALID" \notin flag[p]
    /\ ~ CanRead(p)
    /\ FreeFrames = {}
    /\ Stop("aborted")

\* A frame that was in use from the start holds no page: its pte is followed.
EvictUnowned(p) ==
    /\ "VALID" \notin flag[p]
    /\ FreeFrames = {}
    /\ \E f \in Victims : pte[f] = NULL
    /\ Stop("undefined")

\* find_physpage asserts that the index is below the size of the table; a
\* negative one passes.
OutOfTable(p) ==
    /\ p \notin Table
    /\ Stop(IF p >= TableSize THEN "aborted" ELSE "undefined")

access_mem(type, vpn, o, val) ==
    /\ outcome = "run"
    /\ UNCHANGED replacement_alg
    /\ LET p == Index(vpn)
       IN  \/ OutOfTable(p)
           \/ /\ p \in Table
              /\ \/ Hit(p, vpn, o, type, val)
                 \/ MissFree(p, vpn, o, type, val)
                 \/ MissEvict(p, vpn, o, type, val)
                 \/ MissLost(p)
                 \/ EvictUnowned(p)

\* The trace may end anywhere, which the next line not coming expresses.
Ended == outcome # "run" /\ UNCHANGED vars

Next ==
    \/ \E type \in Types, vpn \in Vpns, o \in TraceOffsets, val \in Values :
            access_mem(type, vpn, o, val)
    \/ Ended

Spec == Init /\ [][Next]_vars
-----------------------------------------------------------------------------
(* Properties. *)

\* Types of the state.
TypeOK ==
    /\ replacement_alg \in Algorithms
    /\ flag \in [Table -> SUBSET {"VALID", "DIRTY", "ONSWAP"}]
    /\ frame \in [Table -> Frames]
    /\ ref \in [Table -> BOOLEAN]
    /\ swap_offset \in [Table -> Slots \cup {INVALID_SWAP}]
    /\ in_use \in [Frames -> BOOLEAN]
    /\ pte \in [Frames -> Table \cup {NULL}]
    /\ physmem \in [0 .. memsize * SIMPAGESIZE -> Values]
    /\ swapmap \in SUBSET Slots
    /\ swapfile \in [Slots -> [PageBytes -> Values]]
    /\ hand \in Frames
    /\ mem_full \in BOOLEAN
    /\ lru_list \in Seq(Frames)
    /\ outcome \in {"run", "aborted", "undefined"}
    /\ request \in (Vpns \X TraceOffsets) \cup {NULL}
    /\ got \in Values \cup {NULL}
    /\ queue \in Seq(Table)
    /\ recent \in SUBSET Table

\* The page table and the coremap are inverse to each other: a valid entry's
\* frame points back at it, and a frame's page is a valid one that names the
\* frame, so no two pages ever share a frame, whatever was evicted when.
FramesMatchPages ==
    /\ \A p \in Table : "VALID" \in flag[p] =>
            in_use[frame[p]] /\ pte[frame[p]] = p
    /\ \A f \in Frames : pte[f] # NULL =>
            in_use[f] /\ "VALID" \in flag[pte[f]] /\ frame[pte[f]] = f
    /\ \A p \in Table : "ONSWAP" \in flag[p] => flag[p] = {"ONSWAP"}

\* No slot of the swap file belongs to two pages.
SlotsApart ==
    \A p, q \in Table : p # q /\ swap_offset[p] # INVALID_SWAP =>
        /\ swap_offset[p] # swap_offset[q]
        /\ swap_offset[p] \in swapmap

\* Evicting a clean page without writing it is safe: the swap file holds the
\* very bytes the frame holds.
CleanHasCopy ==
    \A p \in Table : "VALID" \in flag[p] /\ "DIRTY" \notin flag[p] =>
        /\ swap_offset[p] # INVALID_SWAP
        /\ swapfile[swap_offset[p]] = HeldPage(frame[p])

\* allocate_frame reads from the swap file only on the path that evicts.  That
\* is enough because a page is in the swap file only once no frame is free.
SwappedOnlyWhenFull ==
    (\E p \in Table : "ONSWAP" \in flag[p]) => \A f \in Frames : in_use[f]

\* rr and lru evict in the order they promise: the page that came first, and
\* the page whose last reference is the oldest.
EvictsInOrder ==
    (\A f \in Frames : pte[f] # NULL) =>
        /\ Uses("rr") => pte[hand] = Head(queue)
        /\ Uses("lru") => [i \in DOMAIN lru_list |-> pte[lru_list[i]]] = queue

\* Until memory is full, clock's hand is at the first free frame, so that the
\* first page it considers is the one loaded first and no frame it considers
\* is without a page.
HandAtFirstFree ==
    Uses("clock") =>
        /\ mem_full <=> \A f \in Frames : in_use[f]
        /\ ~ mem_full => \A f \in Frames : in_use[f] <=> f < hand

\* clock spares a page referenced since its hand last passed the page's frame.
\* Such a page leaves only when every page in memory was, and then it is the
\* one the hand would have considered first.
SecondChance ==
    [][Uses("clock") => \A p \in recent :
        "VALID" \in flag[p] /\ "VALID" \notin flag'[p] =>
            /\ \A q \in Table : "VALID" \in flag[q] => q \in recent
            /\ pte[hand] = p]_vars

\* The bytes of a page, wherever they are.
Contents(p) ==
    [o \in TraceOffsets |->
        IF flag[p] = {} THEN 0
        ELSE IF "VALID" \in flag[p] THEN physmem[Byte(frame[p], o)]
        ELSE IF o \in PageBytes THEN swapfile[swap_offset[p]][o]
        ELSE 0]

IsLost(p) == "ONSWAP" \in flag[p] /\ swap_offset[p] = INVALID_SWAP

\* What the trace could still read; NULL stands for a page that is lost.
Memory ==
    [v \in Vpns |->
        IF Index(v) \notin Table THEN [o \in TraceOffsets |-> 0]
        ELSE IF IsLost(Index(v)) THEN NULL
        ELSE Contents(Index(v))]

Flat == INSTANCE FlatMemory WITH Offsets <- TraceOffsets, Zero <- 0,
                                 CanLose <- FALSE, LOST <- NULL,
                                 mem <- Memory
Lossy == INSTANCE FlatMemory WITH Offsets <- TraceOffsets, Zero <- 0,
                                  CanLose <- TRUE, LOST <- NULL,
                                  mem <- Memory

\* Evictions, page-outs and page-ins never show: a reference touches its own
\* byte only, and a read returns what was last written there.
ImplementsFlatMemory == Flat!FlatSpec

\* When the swap file runs out of slots pages are lost, but what is lost is
\* never read as something else.
ImplementsLossyMemory == Lossy!FlatSpec
=============================================================================
