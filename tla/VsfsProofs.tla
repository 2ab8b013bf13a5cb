----------------------------- MODULE VsfsProofs -----------------------------
(***************************************************************************)
(* Proofs about Vsfs, for every image and every sequence of calls.  First  *)
(* the directory, which agrees with the inode bitmap as long as the model  *)
(* follows the code: until a call writes a block that is not a file's.     *)
(* Then the blocks: those in use and the places of files that hold one are *)
(* in bijection, unless a file gets exactly VSFS_NUM_DIRECT blocks, where  *)
(* the code takes it for one that has an indirect block (OffBoundary).     *)
(* The counters of the superblock need the same condition.                 *)
(***************************************************************************)
EXTENDS Vsfs, TLAPS, WellFoundedInduction, FiniteSetTheorems

USE ImageAssumption
USE NamesAssumption

EntryTypes == [ino : Inodes \cup {VSFS_INO_MAX},
               name : Names \cup {"", ".", ".."}]

\* What the first two entries and the root directory's inode always are.
RootStays ==
    /\ VSFS_ROOT_INO \in ibmap
    /\ \A j \in {0, 1} : entries[j].ino = VSFS_ROOT_INO
                            /\ entries[j].name \in {".", ".."}

\* The inductive invariant.  It says nothing of the counter of free inodes, as
\* create takes only an inode that bitmap_alloc has found.
DirectoryInv ==
    /\ ibmap \in SUBSET Inodes
    /\ entries \in [Slots -> EntryTypes]
    /\ RootStays
    /\ EntriesNameFiles

\* What the invariant speaks of.
directory == <<ibmap, entries>>

-----------------------------------------------------------------------------

\* First finds the least number of a set that has one.
LEMMA FirstFacts ==
    ASSUME NEW S \in SUBSET Nat, S # {}
    PROVE  First(S) \in S
<1>1. IsWellFoundedOn(OpToRel(<, Nat), Nat)
  BY NatLessThanWellFounded
<1>2. \E x \in S : \A y \in S : ~ (<<y, x>> \in OpToRel(<, Nat))
  BY <1>1, WFMin
<1>3. \E x \in S : \A y \in S : ~ (y < x)
  BY <1>2 DEF OpToRel
<1>4. \E x \in S : \A y \in S : x <= y
  BY <1>3
<1> QED BY <1>4 DEF First

\* The constants in the form the steps need them.
LEMMA ImageFacts ==
    /\ num_inodes \in Nat \ {0}
    /\ VSFS_INO_MAX = num_inodes + 1 /\ VSFS_INO_MAX \notin Inodes
    /\ VSFS_ROOT_INO \in Inodes
    /\ FreeEntry.ino = VSFS_INO_MAX
    /\ Inodes \subseteq Nat /\ Slots \subseteq Nat /\ {0, 1} \subseteq Slots
    /\ IsFiniteSet(Inodes) /\ Cardinality(Inodes) = num_inodes
<1>1. IsFiniteSet(0 .. num_inodes - 1) /\ Cardinality(0 .. num_inodes - 1) = num_inodes
  BY FS_Interval
<1>2. FreeEntry.ino = VSFS_INO_MAX
  BY DEF FreeEntry
<1> QED BY <1>1, <1>2 DEF VSFS_INO_MAX, VSFS_ROOT_INO, Inodes, Slots

\* The clear bits are finitely many.
LEMMA ClearFinite ==
    ASSUME NEW S
    PROVE  IsFiniteSet(Inodes \ S) /\ Cardinality(Inodes \ S) \in Nat
BY ImageFacts, FS_Difference, FS_CardinalityType

\* A state that mkfs has just made.
Formatted ==
    /\ ibmap = {VSFS_ROOT_INO}
    /\ entries = EmptyDirectory

\* Such a state has an empty directory, which is right.
LEMMA FormattedFacts == Formatted => DirectoryInv
<1> SUFFICES ASSUME Formatted PROVE DirectoryInv
  OBVIOUS
<1> USE DEF Formatted
<1>1. ibmap \in SUBSET Inodes
  BY ImageFacts
<1>2. entries \in [Slots -> EntryTypes]
  BY ImageFacts DEF EmptyDirectory, FreeEntry, EntryTypes
<1>3. RootStays
  BY ImageFacts DEF RootStays, EmptyDirectory
<1>4. EntriesNameFiles
  <2>1. ASSUME NEW j \in Slots, j > 1 PROVE entries[j].ino = VSFS_INO_MAX
    <3>1. j # 0 /\ j # 1
      BY <2>1, ImageFacts
    <3>2. entries[j] = FreeEntry
      BY <3>1 DEF EmptyDirectory
    <3> QED BY <3>2, ImageFacts
  <2>2. Used = {}
    BY <2>1 DEF Used
  <2> QED BY <2>2 DEF EntriesNameFiles
<1> QED BY <1>1, <1>2, <1>3, <1>4 DEF DirectoryInv

\* Create finds an inode that is free.
LEMMA CanCreateFacts ==
    ASSUME NEW n, CanCreate(n)
    PROVE  First(ClearInodes) \in Inodes \ ibmap
<1>1. ClearInodes # {} /\ ClearInodes = Inodes \ ibmap
  BY DEF CanCreate, ClearInodes
<1> QED BY <1>1, ImageFacts, FirstFacts

\* Create puts an inode that was free behind a name that no entry had.
LEMMA CreateStep ==
    ASSUME DirectoryInv, NEW n \in Names, vsfs_create(n), ClearBlocks # {}
    PROVE  DirectoryInv'
<1> DEFINE i == First(ClearInodes)
           f == First(FreeEntries)
<1>1. i \in Inodes \ ibmap
  BY CanCreateFacts DEF vsfs_create
<1>2. /\ ibmap' = ibmap \cup {i}
      /\ entries' = CreatedEntries(n, i)
      /\ ~ Exists(n)
  BY DEF vsfs_create, CanCreate
<1> HIDE DEF i
<1>3. ibmap' \in SUBSET Inodes
  BY <1>1, <1>2 DEF DirectoryInv
<1>4. CASE FreeEntries = {}
  <2>1. entries' = entries
    BY <1>2, <1>4 DEF CreatedEntries
  <2>2. RootStays'
    BY <1>2, <2>1 DEF DirectoryInv, RootStays
  <2>3. EntriesNameFiles'
    BY <1>2, <2>1 DEF DirectoryInv, EntriesNameFiles, Used, Files
  <2> QED BY <1>3, <2>1, <2>2, <2>3 DEF DirectoryInv
<1>5. CASE FreeEntries # {}
  <2>1. f \in Slots /\ entries[f].ino > num_inodes
    <3>1. f \in FreeEntries
      BY <1>5, ImageFacts, FirstFacts DEF FreeEntries
    <3> QED BY <3>1 DEF FreeEntries
  <2>2. entries' = [entries EXCEPT ![f] = [ino |-> i, name |-> n]]
    BY <1>2, <1>5 DEF CreatedEntries
  <2> HIDE DEF f
  <2>3. f # 0 /\ f # 1
    BY <2>1, ImageFacts DEF DirectoryInv, RootStays, VSFS_ROOT_INO
  <2>4. /\ entries'[f] = [ino |-> i, name |-> n]
        /\ \A j \in Slots : j # f => entries'[j] = entries[j]
    BY <2>1, <2>2 DEF DirectoryInv
  <2>5. entries' \in [Slots -> EntryTypes]
    <3>1. [ino |-> i, name |-> n] \in EntryTypes
      BY <1>1 DEF EntryTypes
    <3> QED BY <2>2, <3>1 DEF DirectoryInv
  <2>6. RootStays'
    BY <1>2, <2>3, <2>4, ImageFacts DEF DirectoryInv, RootStays
  <2>7. /\ \A j \in Used : entries[j].ino \in Files /\ entries[j].name # n
        /\ Used' \subseteq Used \cup {f}
    <3>1. ASSUME NEW j \in Used PROVE entries[j].name # n
      <4>1. entries[j].ino \in Inodes /\ j \in Slots
        BY <3>1 DEF DirectoryInv, EntriesNameFiles, Used, Files
      <4>2. entries[j].ino < num_inodes
        BY <4>1, ImageFacts DEF Inodes
      <4> QED BY <1>2, <4>1, <4>2 DEF Exists, EntriesOf
    <3> QED BY <2>4, <3>1 DEF DirectoryInv, EntriesNameFiles, Used
  <2>8. i \in Files' /\ i \notin Files /\ Files \subseteq Files'
    BY <1>1, <1>2 DEF Files, DirectoryInv, RootStays
  <2>9. EntriesNameFiles'
    <3>1. ASSUME NEW j \in Used' PROVE entries'[j].ino \in Files' /\ entries'[j].name \in Names
      <4>1. CASE j = f
        BY <2>4, <2>8, <4>1
      <4>2. CASE j \in Used /\ j # f
        BY <2>4, <2>8, <4>2 DEF DirectoryInv, EntriesNameFiles, Used
      <4> QED BY <2>7, <4>1, <4>2
    <3>2. ASSUME NEW j \in Used', NEW k \in Used', j # k
          PROVE  /\ entries'[j].ino # entries'[k].ino
                 /\ entries'[j].name # entries'[k].name
      <4>1. \A l \in Used \ {f} : /\ entries'[l] = entries[l]
                                  /\ entries[l].ino # i
                                  /\ entries[l].name # n
        BY <2>4, <2>7, <2>8 DEF Used
      <4>2. CASE j = f
        BY <2>4, <2>7, <3>2, <4>1, <4>2
      <4>3. CASE k = f
        BY <2>4, <2>7, <3>2, <4>1, <4>3
      <4>4. CASE j # f /\ k # f
        BY <2>7, <3>2, <4>1, <4>4 DEF DirectoryInv, EntriesNameFiles
      <4> QED BY <4>2, <4>3, <4>4
    <3> QED BY <3>1, <3>2 DEF EntriesNameFiles
  <2> QED BY <1>3, <2>5, <2>6, <2>9 DEF DirectoryInv
<1> QED BY <1>4, <1>5

\* When it finds no block, it has marked an inode that no entry names.
LEMMA NoBlockStep ==
    ASSUME DirectoryInv, NEW n \in Names, vsfs_create(n), ClearBlocks = {}
    PROVE  DirectoryInv'
<1> DEFINE i == First(ClearInodes)
<1>1. i \in Inodes \ ibmap
  BY CanCreateFacts DEF vsfs_create
<1>2. ibmap' = ibmap \cup {i} /\ entries' = entries
  BY DEF vsfs_create
<1> HIDE DEF i
<1>3. ibmap' \in SUBSET Inodes /\ entries' \in [Slots -> EntryTypes]
  BY <1>1, <1>2 DEF DirectoryInv
<1>4. RootStays'
  BY <1>2 DEF DirectoryInv, RootStays
<1>5. EntriesNameFiles'
  <2>1. Used' = Used /\ Files \subseteq Files'
    BY <1>2 DEF Used, Files
  <2> QED BY <1>2, <2>1 DEF DirectoryInv, EntriesNameFiles
<1> QED BY <1>3, <1>4, <1>5 DEF DirectoryInv

\* Unlink frees the inode of the entry it frees, and no other entry names it.
LEMMA UnlinkStep ==
    ASSUME DirectoryInv, NEW n \in Names, vsfs_unlink(n), ~ Stop("aborted")
    PROVE  DirectoryInv'
<1> DEFINE f == First(EntriesOf(n))
           i == entries[f].ino
<1>1. /\ EntriesOf(n) # {}
      /\ ibmap' = ibmap \ {i}
      /\ entries' = [entries EXCEPT ![f] = FreeEntry]
  BY DEF vsfs_unlink, path_lookup, Exists, WithoutInode, WithoutEntry
<1>2. f \in Slots /\ i < num_inodes /\ entries[f].name = n
  <2>1. f \in EntriesOf(n)
    BY <1>1, ImageFacts, FirstFacts DEF EntriesOf
  <2> QED BY <2>1 DEF EntriesOf
<1> HIDE DEF f
<1>3. f > 1
  <2>1. f # 0 /\ f # 1
    BY <1>2 DEF DirectoryInv, RootStays
  <2> QED BY <1>2, <2>1, ImageFacts DEF Slots
<1>4. f \in Used /\ i \in Files
  <2>1. f \in Used
    BY <1>2, <1>3, ImageFacts DEF Used
  <2> QED BY <2>1 DEF DirectoryInv, EntriesNameFiles
<1>5. i \in ibmap /\ i # VSFS_ROOT_INO /\ i \in Inodes
  BY <1>4 DEF Files, DirectoryInv
<1>6. /\ entries'[f] = FreeEntry
      /\ \A j \in Slots : j # f => entries'[j] = entries[j]
      /\ entries' \in [Slots -> EntryTypes]
  BY <1>1, <1>2 DEF DirectoryInv, FreeEntry, EntryTypes
<1>7. RootStays'
  BY <1>1, <1>3, <1>5, <1>6, ImageFacts DEF DirectoryInv, RootStays
<1>8. EntriesNameFiles'
  <2>1. Used' \subseteq Used \ {f} /\ \A j \in Used' : entries'[j] = entries[j]
    <3>1. entries'[f].ino = VSFS_INO_MAX
      BY <1>6, ImageFacts
    <3>2. f \notin Used'
      BY <3>1 DEF Used
    <3> QED BY <1>6, <3>2 DEF Used
  <2>2. \A j \in Used' : entries[j].ino \in Files /\ entries[j].ino # i
    BY <1>4, <2>1 DEF DirectoryInv, EntriesNameFiles
  <2>3. Files' = Files \ {i}
    BY <1>1 DEF Files
  <2> HIDE DEF i
  <2>4. \A j \in Used' : entries'[j].ino \in Files' /\ entries'[j].name \in Names
    BY <2>1, <2>2, <2>3 DEF DirectoryInv, EntriesNameFiles
  <2> QED BY <2>1, <2>4 DEF DirectoryInv, EntriesNameFiles
<1> QED BY <1>1, <1>6, <1>7, <1>8 DEF DirectoryInv

\* Everything else leaves the directory and the inode bitmap alone.
LEMMA OtherStep ==
    ASSUME DirectoryInv, UNCHANGED directory
    PROVE  DirectoryInv'
<1>1. ibmap' = ibmap /\ entries' = entries
  BY DEF directory
<1> QED BY <1>1 DEF DirectoryInv, RootStays, EntriesNameFiles, Used, Files

\* One step, whichever it is.
LEMMA DirectoryStep == DirectoryInv /\ [Next]_vars => DirectoryInv'
<1> SUFFICES ASSUME DirectoryInv, [Next]_vars PROVE DirectoryInv'
  OBVIOUS
<1>1. ASSUME NEW n \in Names, vsfs_create(n)
      PROVE  DirectoryInv'
  BY <1>1, CreateStep, NoBlockStep
<1>2. ASSUME NEW n \in Names, vsfs_unlink(n) PROVE DirectoryInv'
  <2>1. CASE Stop("aborted")
    BY <2>1, OtherStep DEF Stop, directory
  <2>2. CASE ~ Stop("aborted")
    BY <1>2, <2>2, UnlinkStep
  <2> QED BY <2>1, <2>2
<1>3. ASSUME NEW n \in Names, NEW size \in Sizes, vsfs_truncate(n, size)
      PROVE  DirectoryInv'
  BY <1>3, OtherStep DEF vsfs_truncate, Stop, Install, super, directory
<1>4. ASSUME NEW n \in Names, NEW w \in Writes, NEW data \in DataOf(w[2]),
             vsfs_write(n, w[1], data)
      PROVE  DirectoryInv'
  BY <1>4, OtherStep DEF vsfs_write, Stop, Install, super, directory
<1>5. ASSUME NEW zero \in BOOLEAN, mkfs(zero) PROVE DirectoryInv'
  <2>1. ibmap' = {VSFS_ROOT_INO} /\ entries' = EmptyDirectory
    BY <1>5 DEF mkfs
  <2>2. (Formatted => DirectoryInv)'
    BY FormattedFacts, PTL
  <2> QED BY <2>1, <2>2 DEF Formatted
<1>6. CASE fs_ctx_init
  BY <1>6, OtherStep DEF fs_ctx_init, super, directory
<1>7. CASE fs_ctx_destroy
  BY <1>7, OtherStep DEF fs_ctx_destroy, super, directory
<1>8. CASE UNCHANGED vars
  BY <1>8, OtherStep DEF vars, super, directory
<1> QED BY <1>1, <1>2, <1>3, <1>4, <1>5, <1>6, <1>7, <1>8 DEF Next, Call, Ended

\* The directory is right in every state.
LEMMA DirectoryInvariance == Spec => []DirectoryInv
<1>1. Init => DirectoryInv
  BY FormattedFacts DEF Init, Formatted
<1> QED BY <1>1, DirectoryStep, PTL DEF Spec

\* An entry never outlives its file, shares its inode or its name, for every
\* image and program, files at the boundary of VSFS_NUM_DIRECT blocks and calls
\* that fail half-way included: vsfs_create and vsfs_unlink keep the directory
\* and the inode bitmap together, up to the call that writes a block that is
\* not a file's.
THEOREM EntriesCorrect == Spec => []EntriesNameFiles
<1>1. DirectoryInv => EntriesNameFiles
  BY DEF DirectoryInv
<1> QED BY <1>1, DirectoryInvariance, PTL

-----------------------------------------------------------------------------
(* The blocks. *)

HIDE ImageAssumption
HIDE NamesAssumption

\* No file ever has exactly VSFS_NUM_DIRECT blocks: neither a new one nor one
\* of a size that a truncate or a write may give it.
OffBoundary ==
    \A size \in {0} \cup Sizes \cup {w[1] + w[2] : w \in Writes} :
        BlocksFor(size) # VSFS_NUM_DIRECT

\* A product grows with its second factor.
LEMMA ProductOrder ==
    ASSUME NEW d \in Nat, NEW a \in Int, NEW b \in Int, a <= b
    PROVE  d * a <= d * b
<1>1. b - a \in Nat /\ d * (b - a) \in Nat
  OBVIOUS
<1>2. d * b = d * a + d * (b - a)
  OBVIOUS
<1>3. d * a \in Int /\ d * b \in Int
  OBVIOUS
<1> QED BY <1>1, <1>2, <1>3

\* Quotient and remainder are the only numbers of their kind.
LEMMA QuotientUnique ==
    ASSUME NEW d \in Nat \ {0}, NEW q \in Int, NEW r \in 0 .. d - 1,
           NEW p \in Int, NEW s \in 0 .. d - 1, d * q + r = d * p + s
    PROVE  q = p /\ r = s
<1>1. ASSUME NEW x \in Int, NEW y \in Int, NEW u \in 0 .. d - 1, NEW v \in 0 .. d - 1,
             d * x + u = d * y + v
      PROVE  x <= y
  <2> SUFFICES ASSUME y + 1 <= x PROVE FALSE
    BY <1>1
  <2>1. d * (y + 1) <= d * x
    BY ProductOrder
  <2>2. d * (y + 1) = d * y + d
    OBVIOUS
  <2>3. d * x \in Int /\ d * y \in Int
    OBVIOUS
  <2> QED BY <1>1, <2>1, <2>2, <2>3
<1>2. q <= p /\ p <= q
  BY <1>1
<1>3. q = p
  BY <1>2
<1>4. d * q \in Int
  OBVIOUS
<1> QED BY <1>3, <1>4

\* Division by the size of a block.
LEMMA Division ==
    ASSUME NEW n \in Nat
    PROVE  /\ n \div BLOCK_SIZE \in Nat
           /\ n % BLOCK_SIZE \in Cells
           /\ n = BLOCK_SIZE * (n \div BLOCK_SIZE) + (n % BLOCK_SIZE)
<1> DEFINE q == n \div BLOCK_SIZE
           r == n % BLOCK_SIZE
<1>1. BLOCK_SIZE \in Nat \ {0}
  BY ImageAssumption
<1>2. q \in Int /\ r \in 0 .. BLOCK_SIZE - 1 /\ n = BLOCK_SIZE * q + r
  BY <1>1
<1> HIDE DEF q, r
<1>3. q \in Nat
  <2> SUFFICES ASSUME q <= -1 PROVE FALSE
    BY <1>2
  <2>1. BLOCK_SIZE * q <= BLOCK_SIZE * (-1)
    BY <1>1, <1>2, ProductOrder
  <2>2. BLOCK_SIZE * (-1) = - BLOCK_SIZE
    BY <1>1
  <2>3. BLOCK_SIZE * q \in Int
    BY <1>1, <1>2
  <2> QED BY <1>1, <1>2, <2>1, <2>2, <2>3
<1> QED BY <1>2, <1>3 DEF q, r, Cells

\* It gives the quotient and the remainder that fit.
LEMMA DivisionIs ==
    ASSUME NEW n \in Nat, NEW q \in Int, NEW r \in Cells, n = BLOCK_SIZE * q + r
    PROVE  n \div BLOCK_SIZE = q /\ n % BLOCK_SIZE = r
<1> DEFINE p == n \div BLOCK_SIZE
           s == n % BLOCK_SIZE
<1>1. p \in Int /\ s \in Cells /\ n = BLOCK_SIZE * p + s
  BY Division
<1>2. BLOCK_SIZE \in Nat \ {0} /\ Cells = 0 .. BLOCK_SIZE - 1
  BY ImageAssumption DEF Cells
<1> HIDE DEF p, s
<1>3. BLOCK_SIZE * q + r = BLOCK_SIZE * p + s
  BY <1>1
<1>4. q = p /\ r = s
  BY <1>1, <1>2, <1>3, QuotientUnique
<1> QED BY <1>4 DEF p, s

\* A file has at least one block.
LEMMA BlocksForType ==
    ASSUME NEW size \in Nat
    PROVE  BlocksFor(size) \in Nat \ {0}
<1>1. size \div BLOCK_SIZE \in Nat /\ size % BLOCK_SIZE \in Nat
  BY Division DEF Cells
<1>2. BLOCK_SIZE \in Nat /\ BLOCK_SIZE # 0
  BY ImageAssumption
<1>3. size = BLOCK_SIZE * (size \div BLOCK_SIZE) + (size % BLOCK_SIZE)
  BY Division
<1>4. CASE size \div BLOCK_SIZE = 0 /\ size % BLOCK_SIZE = 0
  <2>1. size = 0
    BY <1>2, <1>3, <1>4
  <2> QED BY <2>1 DEF BlocksFor
<1>5. CASE ~ (size \div BLOCK_SIZE = 0 /\ size % BLOCK_SIZE = 0)
  BY <1>1, <1>5 DEF BlocksFor, RoundUp
<1> QED BY <1>4, <1>5

\* The layout of the image.
LEMMA LayoutFacts ==
    /\ data_region \in Nat /\ data_region > 3
    /\ num_blocks \in Nat /\ data_region \in Blocks
    /\ Metadata \subseteq Blocks /\ FormattedDbmap \subseteq Blocks
    /\ 0 \in FormattedDbmap
    /\ IsFiniteSet(Blocks) /\ Cardinality(Blocks) = num_blocks
    /\ Direct \subseteq Nat /\ 0 \in Direct
    /\ \A b \in Blocks : b \notin FormattedDbmap => b > data_region
    /\ BLOCK_SIZE \in Nat /\ BLOCK_SIZE > 1
<1>1. InodeBlocks \in Nat /\ InodeBlocks > 0
  <2>1. /\ num_inodes \div InodesPerBlock \in Int /\ num_inodes % InodesPerBlock \in Nat
        /\ num_inodes % InodesPerBlock < InodesPerBlock
        /\ num_inodes = InodesPerBlock * (num_inodes \div InodesPerBlock)
                            + (num_inodes % InodesPerBlock)
    BY ImageAssumption
  <2>2. num_inodes \in Nat \ {0} /\ InodesPerBlock \in Nat \ {0}
    BY ImageAssumption
  <2>3. ASSUME NEW q \in Int, NEW r \in Nat, r < InodesPerBlock,
               num_inodes = InodesPerBlock * q + r
        PROVE  q >= 0 /\ (q = 0 => r # 0)
    <3>1. CASE q <= -1
      <4>1. InodesPerBlock * q <= InodesPerBlock * (-1)
        BY <2>2, <3>1
      <4> QED BY <2>2, <2>3, <4>1
    <3> QED BY <2>2, <2>3, <3>1
  <2>4. /\ num_inodes \div InodesPerBlock >= 0
        /\ num_inodes \div InodesPerBlock = 0 => num_inodes % InodesPerBlock # 0
    BY <2>1, <2>3
  <2> QED BY <2>1, <2>4 DEF InodeBlocks, RoundUp
<1>2. data_region \in Nat /\ data_region > 3 /\ num_blocks \in Nat /\ num_blocks > data_region
  BY <1>1, ImageAssumption DEF data_region, VSFS_ITBL_BLKNUM
<1>3. IsFiniteSet(0 .. num_blocks - 1) /\ Cardinality(0 .. num_blocks - 1) = num_blocks
  BY <1>2, FS_Interval
<1> HIDE DEF data_region
<1>4. VSFS_NUM_DIRECT \in Nat \ {0} /\ BLOCK_SIZE \in Nat /\ BLOCK_SIZE > 1
  BY ImageAssumption
<1> QED BY <1>2, <1>3, <1>4 DEF Metadata, FormattedDbmap, Blocks, Direct

-----------------------------------------------------------------------------
(* Who owns which blocks: the bitmap dbm of an image whose files are the      *)
(* inodes fs of the table tbl, with img for the contents of its blocks.       *)

\* The positions in a file of n blocks, INDIRECT among them when it is big.
Positions(n) ==
    (0 .. n - 1) \cup (IF n > VSFS_NUM_DIRECT THEN {INDIRECT} ELSE {})

\* Those of inode i, which has none when it is not a file.
Held(fs, tbl, i) == IF i \in fs THEN Positions(tbl[i].blocks) ELSE {}

\* The block at a position.
At(node, img, k) ==
    IF k = INDIRECT THEN node.indirect
    ELSE IF k < VSFS_NUM_DIRECT THEN node.direct[k]
    ELSE img[node.indirect][k - VSFS_NUM_DIRECT]

\* Every block in use is at one position of one file, and every position holds
\* such a block.
Owned(fs, tbl, img, dbm) ==
    /\ FormattedDbmap \subseteq dbm /\ dbm \subseteq Blocks
    /\ \A i \in Inodes : \A k \in Held(fs, tbl, i) :
            At(tbl[i], img, k) \in dbm \ FormattedDbmap
    /\ \A i \in Inodes, j \in Inodes :
            \A k \in Held(fs, tbl, i) : \A l \in Held(fs, tbl, j) :
                At(tbl[i], img, k) = At(tbl[j], img, l) => i = j /\ k = l
    /\ \A b \in dbm \ FormattedDbmap :
            \E i \in Inodes : \E k \in Held(fs, tbl, i) : b = At(tbl[i], img, k)

\* An inode that keeps its positions and their blocks.
KeepsBlocks(fs, tbl, img, fs2, tbl2, img2, i) ==
    /\ Held(fs2, tbl2, i) = Held(fs, tbl, i)
    /\ \A k \in Held(fs, tbl, i) : At(tbl2[i], img2, k) = At(tbl[i], img, k)

\* The number of clear bits of a bitmap.
ClearCount(dbm) == Cardinality(Blocks \ dbm)

\* A set and its image under an injection have the same size.
LEMMA ImageSize ==
    ASSUME NEW S, NEW T, IsFiniteSet(T), NEW f \in [S -> T],
           \A x, y \in S : f[x] = f[y] => x = y,
           NEW I, \A y : y \in I <=> \E x \in S : y = f[x]
    PROVE  /\ IsFiniteSet(S) /\ IsFiniteSet(I)
           /\ Cardinality(I) = Cardinality(S)
<1>1. f \in Injection(S, T)
  BY DEF Injection, IsInjective
<1>2. IsFiniteSet(S)
  BY <1>1, FS_Injection
<1>3. f \in Surjection(S, I) /\ f \in Injection(S, I)
  <2>1. f \in [S -> I] /\ \A y \in I : \E x \in S : f[x] = y
    OBVIOUS
  <2> QED BY <2>1 DEF Injection, IsInjective, Surjection
<1>4. Cardinality(I) = Cardinality(S) /\ IsFiniteSet(I)
  BY <1>2, <1>3, FS_Surjection
<1> QED BY <1>2, <1>4

\* Inode i gives up the blocks at the positions lost, the others keep theirs.
Loses(fs, tbl, img, dbm, fs2, tbl2, img2, dbm2, i, lost) ==
    /\ i \in Inodes
    /\ \A j \in Inodes \ {i} : KeepsBlocks(fs, tbl, img, fs2, tbl2, img2, j)
    /\ Held(fs2, tbl2, i) \subseteq Held(fs, tbl, i)
    /\ \A k \in Held(fs2, tbl2, i) : At(tbl2[i], img2, k) = At(tbl[i], img, k)
    /\ lost = Held(fs, tbl, i) \ Held(fs2, tbl2, i)
    /\ \A b : b \in dbm2 <=> b \in dbm /\ \A k \in lost : b # At(tbl[i], img, k)

\* Then the bitmap is still right, and has as many more clear bits.
LEMMA LoseBlocks ==
    ASSUME NEW fs, NEW tbl, NEW img, NEW dbm, NEW fs2, NEW tbl2, NEW img2, NEW dbm2,
           NEW i, NEW lost, Owned(fs, tbl, img, dbm),
           Loses(fs, tbl, img, dbm, fs2, tbl2, img2, dbm2, i, lost)
    PROVE  /\ Owned(fs2, tbl2, img2, dbm2)
           /\ IsFiniteSet(lost)
           /\ ClearCount(dbm2) = ClearCount(dbm) + Cardinality(lost)
<1> DEFINE freed == {At(tbl[i], img, k) : k \in lost}
<1>1. /\ \A j \in Inodes :
            /\ Held(fs2, tbl2, j) \subseteq Held(fs, tbl, j)
            /\ \A k \in Held(fs2, tbl2, j) : At(tbl2[j], img2, k) = At(tbl[j], img, k)
            /\ j # i => Held(fs2, tbl2, j) = Held(fs, tbl, j)
      /\ lost = Held(fs, tbl, i) \ Held(fs2, tbl2, i) /\ i \in Inodes
  BY DEF KeepsBlocks, Loses
<1>2. /\ \A j \in Inodes : \A k \in Held(fs, tbl, j) : At(tbl[j], img, k) \in dbm \ FormattedDbmap
      /\ \A j, m \in Inodes : \A k \in Held(fs, tbl, j) : \A l \in Held(fs, tbl, m) :
                At(tbl[j], img, k) = At(tbl[m], img, l) => j = m /\ k = l
      /\ FormattedDbmap \subseteq dbm /\ dbm \subseteq Blocks
  BY DEF Owned
<1>3. freed \subseteq dbm \ FormattedDbmap /\ dbm2 = dbm \ freed
  <2>1. freed \subseteq dbm \ FormattedDbmap
    BY <1>1, <1>2
  <2>2. dbm2 = dbm \ freed
    BY DEF Loses
  <2> QED BY <2>1, <2>2
<1>4. Owned(fs2, tbl2, img2, dbm2)
  <2>1. ASSUME NEW j \in Inodes, NEW k \in Held(fs2, tbl2, j)
        PROVE  At(tbl2[j], img2, k) \in dbm2 \ FormattedDbmap
    <3>1. At(tbl[j], img, k) \notin freed
      BY <1>1, <1>2, <2>1
    <3> QED BY <1>1, <1>2, <1>3, <2>1, <3>1
  <2>2. ASSUME NEW j \in Inodes, NEW m \in Inodes,
               NEW k \in Held(fs2, tbl2, j), NEW l \in Held(fs2, tbl2, m),
               At(tbl2[j], img2, k) = At(tbl2[m], img2, l)
        PROVE  j = m /\ k = l
    BY <1>1, <1>2, <2>2
  <2>3. ASSUME NEW b \in dbm2 \ FormattedDbmap
        PROVE  \E j \in Inodes : \E k \in Held(fs2, tbl2, j) : b = At(tbl2[j], img2, k)
    <3>1. PICK j \in Inodes : \E k \in Held(fs, tbl, j) : b = At(tbl[j], img, k)
      BY <1>3, <2>3 DEF Owned
    <3>2. PICK k \in Held(fs, tbl, j) : b = At(tbl[j], img, k)
      BY <3>1
    <3>3. k \in Held(fs2, tbl2, j)
      BY <1>1, <1>3, <2>3, <3>2
    <3> QED BY <1>1, <3>2, <3>3
  <2> QED BY <1>2, <1>3, <2>1, <2>2, <2>3 DEF Owned
<1>5. IsFiniteSet(lost) /\ IsFiniteSet(freed) /\ Cardinality(freed) = Cardinality(lost)
  <2> DEFINE f == [k \in lost |-> At(tbl[i], img, k)]
  <2>1. f \in [lost -> Blocks]
    BY <1>1, <1>2
  <2>2. \A x, y \in lost : f[x] = f[y] => x = y
    BY <1>1, <1>2
  <2>3. \A y : y \in freed <=> \E x \in lost : y = f[x]
    OBVIOUS
  <2>4. IsFiniteSet(Blocks)
    BY LayoutFacts
  <2> HIDE DEF freed, f
  <2>5. IsFiniteSet(lost)
    BY <2>1, <2>2, <2>3, <2>4, ImageSize
  <2>6. IsFiniteSet(freed)
    BY <2>1, <2>2, <2>3, <2>4, ImageSize
  <2>7. Cardinality(freed) = Cardinality(lost)
    BY <2>1, <2>2, <2>3, <2>4, ImageSize
  <2> QED BY <2>5, <2>6, <2>7
<1>6. Cardinality(Blocks \ dbm2) = Cardinality(Blocks \ dbm) + Cardinality(freed)
  <2>1. Blocks \ dbm2 = (Blocks \ dbm) \cup freed /\ (Blocks \ dbm) \cap freed = {}
    BY <1>2, <1>3
  <2>2. IsFiniteSet(Blocks \ dbm)
    BY LayoutFacts, FS_Difference
  <2> HIDE DEF freed
  <2>3. /\ IsFiniteSet((Blocks \ dbm) \cup freed)
        /\ Cardinality((Blocks \ dbm) \cup freed)
            = Cardinality(Blocks \ dbm) + Cardinality(freed) - Cardinality((Blocks \ dbm) \cap freed)
    BY <1>5, <2>2, FS_Union
  <2>4. Cardinality(Blocks \ dbm) \in Nat /\ Cardinality(freed) \in Nat
    BY <1>5, <2>2, FS_CardinalityType
  <2>5. Cardinality((Blocks \ dbm) \cap freed) = 0
    BY <2>1, FS_EmptySet
  <2>6. Cardinality((Blocks \ dbm) \cup freed)
            = Cardinality(Blocks \ dbm) + Cardinality(freed)
    BY <2>3, <2>4, <2>5
  <2> QED BY <2>1, <2>6
<1> QED BY <1>4, <1>5, <1>6 DEF ClearCount

\* Inode i takes clear blocks for the positions new, the others keep theirs.
Gains(fs, tbl, img, dbm, fs2, tbl2, img2, dbm2, i, new) ==
    /\ i \in Inodes
    /\ \A j \in Inodes \ {i} : KeepsBlocks(fs, tbl, img, fs2, tbl2, img2, j)
    /\ Held(fs, tbl, i) \subseteq Held(fs2, tbl2, i)
    /\ \A k \in Held(fs, tbl, i) : At(tbl2[i], img2, k) = At(tbl[i], img, k)
    /\ new = Held(fs2, tbl2, i) \ Held(fs, tbl, i)
    /\ \A k \in new : At(tbl2[i], img2, k) \in Blocks \ dbm
    /\ \A k, l \in new : At(tbl2[i], img2, k) = At(tbl2[i], img2, l) => k = l
    /\ \A b : b \in dbm2 <=> b \in dbm \/ \E k \in new : b = At(tbl2[i], img2, k)

\* Then the bitmap is still right, and has as many fewer clear bits.
LEMMA GainBlocks ==
    ASSUME NEW fs, NEW tbl, NEW img, NEW dbm, NEW fs2, NEW tbl2, NEW img2, NEW dbm2,
           NEW i, NEW new, Owned(fs, tbl, img, dbm),
           Gains(fs, tbl, img, dbm, fs2, tbl2, img2, dbm2, i, new)
    PROVE  /\ Owned(fs2, tbl2, img2, dbm2)
           /\ IsFiniteSet(new)
           /\ ClearCount(dbm2) = ClearCount(dbm) - Cardinality(new)
<1> DEFINE taken == {At(tbl2[i], img2, k) : k \in new}
<1>1. /\ \A j \in Inodes : \A k \in Held(fs, tbl, j) : At(tbl[j], img, k) \in dbm \ FormattedDbmap
      /\ \A j, m \in Inodes : \A k \in Held(fs, tbl, j) : \A l \in Held(fs, tbl, m) :
                At(tbl[j], img, k) = At(tbl[m], img, l) => j = m /\ k = l
      /\ FormattedDbmap \subseteq dbm /\ dbm \subseteq Blocks
  BY DEF Owned
<1>2. \A j \in Inodes : /\ \A k \in Held(fs, tbl, j) : At(tbl2[j], img2, k) = At(tbl[j], img, k)
                        /\ Held(fs, tbl, j) \subseteq Held(fs2, tbl2, j)
                        /\ j # i => Held(fs2, tbl2, j) = Held(fs, tbl, j)
  BY DEF KeepsBlocks, Gains
<1>3. /\ taken \subseteq Blocks \ dbm /\ dbm2 = dbm \cup taken
      /\ i \in Inodes /\ new = Held(fs2, tbl2, i) \ Held(fs, tbl, i)
      /\ \A k, l \in new : At(tbl2[i], img2, k) = At(tbl2[i], img2, l) => k = l
  BY DEF Gains
<1>4. \A j \in Inodes : \A k \in Held(fs2, tbl2, j) :
            \/ k \in Held(fs, tbl, j) /\ At(tbl2[j], img2, k) = At(tbl[j], img, k)
            \/ j = i /\ k \in new
  BY <1>2, <1>3
<1>5. Owned(fs2, tbl2, img2, dbm2)
  <2>1. ASSUME NEW j \in Inodes, NEW k \in Held(fs2, tbl2, j)
        PROVE  At(tbl2[j], img2, k) \in dbm2 \ FormattedDbmap
    <3>1. CASE k \in Held(fs, tbl, j)
      BY <1>1, <1>2, <1>3, <3>1
    <3>2. CASE j = i /\ k \in new
      BY <1>1, <1>3, <3>2
    <3> QED BY <1>4, <3>1, <3>2
  <2>2. ASSUME NEW j \in Inodes, NEW m \in Inodes,
               NEW k \in Held(fs2, tbl2, j), NEW l \in Held(fs2, tbl2, m),
               At(tbl2[j], img2, k) = At(tbl2[m], img2, l)
        PROVE  j = m /\ k = l
    <3>1. CASE k \in Held(fs, tbl, j) /\ l \in Held(fs, tbl, m)
      BY <1>1, <1>2, <2>2, <3>1
    <3>2. CASE k \in Held(fs, tbl, j) /\ m = i /\ l \in new
      <4>1. At(tbl2[j], img2, k) \in dbm /\ At(tbl2[m], img2, l) \notin dbm
        BY <1>1, <1>2, <1>3, <3>2
      <4> QED BY <2>2, <4>1
    <3>3. CASE j = i /\ k \in new /\ l \in Held(fs, tbl, m)
      <4>1. At(tbl2[m], img2, l) \in dbm /\ At(tbl2[j], img2, k) \notin dbm
        BY <1>1, <1>2, <1>3, <3>3
      <4> QED BY <2>2, <4>1
    <3>4. CASE j = i /\ k \in new /\ m = i /\ l \in new
      BY <1>3, <2>2, <3>4
    <3> QED BY <1>4, <2>2, <3>1, <3>2, <3>3, <3>4
  <2>3. ASSUME NEW b \in dbm2 \ FormattedDbmap
        PROVE  \E j \in Inodes : \E k \in Held(fs2, tbl2, j) : b = At(tbl2[j], img2, k)
    <3>1. CASE b \in dbm
      <4>1. PICK j \in Inodes : \E k \in Held(fs, tbl, j) : b = At(tbl[j], img, k)
        BY <2>3, <3>1 DEF Owned
      <4> QED BY <1>2, <4>1
    <3>2. CASE b \in taken
      BY <1>3, <3>2
    <3> QED BY <1>3, <2>3, <3>1, <3>2
  <2>4. FormattedDbmap \subseteq dbm2 /\ dbm2 \subseteq Blocks
    BY <1>1, <1>3
  <2> QED BY <2>1, <2>2, <2>3, <2>4 DEF Owned
<1>6. IsFiniteSet(new) /\ IsFiniteSet(taken) /\ Cardinality(taken) = Cardinality(new)
  <2> DEFINE f == [k \in new |-> At(tbl2[i], img2, k)]
  <2>1. f \in [new -> Blocks]
    BY <1>3
  <2>2. \A x, y \in new : f[x] = f[y] => x = y
    BY <1>3
  <2>3. \A y : y \in taken <=> \E x \in new : y = f[x]
    OBVIOUS
  <2> HIDE DEF taken, f
  <2>4. IsFiniteSet(Blocks)
    BY LayoutFacts
  <2>5. IsFiniteSet(new)
    BY <2>1, <2>2, <2>3, <2>4, ImageSize
  <2>6. IsFiniteSet(taken)
    BY <2>1, <2>2, <2>3, <2>4, ImageSize
  <2>7. Cardinality(taken) = Cardinality(new)
    BY <2>1, <2>2, <2>3, <2>4, ImageSize
  <2> QED BY <2>5, <2>6, <2>7
<1>7. Cardinality(Blocks \ dbm2) = Cardinality(Blocks \ dbm) - Cardinality(taken)
  <2>1. /\ Blocks \ dbm2 = (Blocks \ dbm) \ taken
        /\ (Blocks \ dbm) \cap taken = taken
    BY <1>3
  <2>2. IsFiniteSet(Blocks \ dbm)
    BY LayoutFacts, FS_Difference
  <2> HIDE DEF taken
  <2>3. Cardinality((Blocks \ dbm) \ taken)
            = Cardinality(Blocks \ dbm) - Cardinality((Blocks \ dbm) \cap taken)
    BY <2>2, FS_Difference
  <2> QED BY <2>1, <2>3
<1> QED BY <1>5, <1>6, <1>7 DEF ClearCount

-----------------------------------------------------------------------------
(* The invariant. *)

\* The inodes and blocks, by type.
InodeTypes == [blocks : 0 .. num_blocks, size : Nat,
               direct : [Direct -> Blocks], indirect : Blocks]
ImageTypes == [Blocks -> [Cells -> Int]]

\* A file whose number of blocks is right and off the boundary.
FileOK(node) ==
    /\ node.blocks = BlocksFor(node.size)
    /\ node.blocks # VSFS_NUM_DIRECT
    /\ node.blocks <= VSFS_NUM_DIRECT + BLOCK_SIZE

\* The inductive invariant: blocks have one owner each, files have the blocks
\* their size asks for, the counter counts them, and block 0 is the superblock.
BlockInv ==
    /\ itable \in [Inodes -> InodeTypes]
    /\ image \in ImageTypes
    /\ Owned(Files, itable, image, dbmap)
    /\ \A i \in Files : FileOK(itable[i])
    /\ free_blocks = ClearCount(dbmap)
    /\ HasMagic

\* A result of the operators that change a file, as good as the state was.
Good(i, r) ==
    /\ r.node \in InodeTypes
    /\ r.image \in ImageTypes
    /\ Owned(Files, [itable EXCEPT ![i] = r.node], r.image, r.dbmap)
    /\ FileOK(r.node)
    /\ r.free = ClearCount(r.dbmap)
    /\ r.image[0] = image[0]

\* A result that leaves the blocks that the files keep as they are, and what is
\* in them.
Kept(i, r) ==
    \A j \in Files : \A k \in Nat :
        LET node == [itable EXCEPT ![i] = r.node][j]
            b == At(itable[j], image, k)
        IN  k < itable[j].blocks /\ k < node.blocks =>
                At(node, r.image, k) = b /\ r.image[b] = image[b]

\* A file has no more blocks than the image.
LEMMA FileFits ==
    ASSUME NEW fs, NEW tbl, NEW img, NEW dbm, Owned(fs, tbl, img, dbm),
           NEW i \in Inodes \cap fs, tbl[i].blocks \in Nat
    PROVE  tbl[i].blocks \in 0 .. num_blocks
<1> DEFINE n == tbl[i].blocks
           f == [k \in 0 .. n - 1 |-> At(tbl[i], img, k)]
<1>1. 0 .. n - 1 \subseteq Held(fs, tbl, i)
  BY DEF Held, Positions
<1>2. f \in [0 .. n - 1 -> Blocks]
  BY <1>1 DEF Owned
<1>3. \A x, y \in 0 .. n - 1 : f[x] = f[y] => x = y
  BY <1>1 DEF Owned
<1>4. f \in Injection(0 .. n - 1, Blocks)
  BY <1>2, <1>3 DEF Injection, IsInjective
<1>5. Cardinality(0 .. n - 1) <= num_blocks
  BY <1>4, LayoutFacts, FS_Injection
<1>6. Cardinality(0 .. n - 1) = n
  BY FS_Interval
<1> QED BY <1>5, <1>6, LayoutFacts

\* A file keeps its blocks as long as its inode and its indirect block stay.
LEMMA OthersKeep ==
    ASSUME NEW fs, NEW tbl, NEW img, NEW fs2, NEW tbl2, NEW img2, NEW j \in Inodes,
           tbl2[j] = tbl[j], j \in fs <=> j \in fs2, j \in fs => tbl[j].blocks \in Nat,
           j \in fs /\ tbl[j].blocks > VSFS_NUM_DIRECT =>
                img2[tbl[j].indirect] = img[tbl[j].indirect]
    PROVE  KeepsBlocks(fs, tbl, img, fs2, tbl2, img2, j)
<1>1. Held(fs2, tbl2, j) = Held(fs, tbl, j)
  BY DEF Held
<1>2. ASSUME NEW k \in Held(fs, tbl, j)
      PROVE  At(tbl2[j], img2, k) = At(tbl[j], img, k)
  <2>1. j \in fs /\ k \in Positions(tbl[j].blocks)
    BY <1>2 DEF Held
  <2>2. CASE k = INDIRECT \/ k < VSFS_NUM_DIRECT
    BY <2>2 DEF At
  <2>3. CASE k # INDIRECT /\ ~ k < VSFS_NUM_DIRECT
    <3>1. tbl[j].blocks > VSFS_NUM_DIRECT
      BY <2>1, <2>3, ImageAssumption DEF Positions
    <3> QED BY <2>1, <2>3, <3>1 DEF At
  <2> QED BY <2>2, <2>3
<1> QED BY <1>1, <1>2 DEF KeepsBlocks

\* The indirect block of a big file is its own.
LEMMA OwnIndirect ==
    ASSUME NEW fs, NEW tbl, NEW img, NEW dbm, Owned(fs, tbl, img, dbm),
           NEW i \in Inodes \cap fs, tbl[i].blocks > VSFS_NUM_DIRECT
    PROVE  /\ INDIRECT \in Held(fs, tbl, i)
           /\ At(tbl[i], img, INDIRECT) = tbl[i].indirect
           /\ tbl[i].indirect \in dbm /\ tbl[i].indirect \in Blocks
           /\ tbl[i].indirect > data_region
           /\ \A j \in Inodes : \A k \in Held(fs, tbl, j) :
                At(tbl[j], img, k) = tbl[i].indirect => j = i /\ k = INDIRECT
<1>1. INDIRECT \in Held(fs, tbl, i) /\ At(tbl[i], img, INDIRECT) = tbl[i].indirect
  BY DEF Held, Positions, At
<1>2. tbl[i].indirect \in dbm \ FormattedDbmap /\ dbm \subseteq Blocks
  BY <1>1 DEF Owned
<1>3. \A j \in Inodes : \A k \in Held(fs, tbl, j) :
                At(tbl[j], img, k) = tbl[i].indirect => j = i /\ k = INDIRECT
  BY <1>1 DEF Owned
<1> QED BY <1>1, <1>2, <1>3, LayoutFacts

\* The clear blocks in order are as many different ones as there are.
LEMMA ClearBlocksInOrder ==
    /\ IsFiniteSet(ClearBlocks) /\ Cardinality(ClearBlocks) \in Nat
    /\ \A j \in 1 .. Cardinality(ClearBlocks) : NthClearBlock(j) \in ClearBlocks
    /\ \A j, l \in 1 .. Cardinality(ClearBlocks) :
            NthClearBlock(j) = NthClearBlock(l) => j = l
<1> DEFINE S == ClearBlocks
           n == Cardinality(S)
           Below(b) == {c \in S : c < b}
           f == [b \in S |-> Cardinality(Below(b))]
<1>1. S \subseteq Nat /\ IsFiniteSet(S) /\ n \in Nat
  <2>1. IsFiniteSet(S)
    BY LayoutFacts, FS_Difference DEF ClearBlocks
  <2>2. S \subseteq Nat
    BY DEF ClearBlocks, Blocks
  <2> QED BY <2>1, <2>2, FS_CardinalityType
<1> HIDE DEF S
<1>2. ASSUME NEW b \in S
      PROVE  /\ IsFiniteSet(Below(b)) /\ Cardinality(Below(b)) \in Nat
             /\ Cardinality(Below(b)) \in 0 .. n - 1
             /\ IsFiniteSet(Below(b) \cup {b})
             /\ Cardinality(Below(b) \cup {b}) = Cardinality(Below(b)) + 1
  <2>1. Below(b) \cup {b} \subseteq S /\ b \notin Below(b)
    BY <1>1, <1>2
  <2>2. IsFiniteSet(Below(b))
    BY <1>1, <2>1, FS_Subset
  <2>3. IsFiniteSet(Below(b) \cup {b}) /\ Cardinality(Below(b) \cup {b}) <= n
    BY <1>1, <2>1, FS_Subset
  <2>4. Cardinality(Below(b) \cup {b}) = Cardinality(Below(b)) + 1
    BY <2>1, <2>2, FS_AddElement
  <2>5. Cardinality(Below(b)) \in Nat
    BY <2>2, FS_CardinalityType
  <2> QED BY <1>1, <2>2, <2>3, <2>4, <2>5
<1>3. ASSUME NEW a \in S, NEW b \in S, a < b PROVE f[a] < f[b]
  <2>1. Below(a) \cup {a} \subseteq Below(b)
    <3>1. a \in Nat /\ b \in Nat
      BY <1>1
    <3>2. ASSUME NEW c \in S, c < a \/ c = a PROVE c < b
      BY <1>1, <1>3, <3>1, <3>2
    <3> QED BY <3>2
  <2>2. Cardinality(Below(a) \cup {a}) <= Cardinality(Below(b))
    BY <1>2, <2>1, FS_Subset
  <2>3. Cardinality(Below(a)) + 1 <= Cardinality(Below(b))
    BY <1>2, <2>2
  <2> HIDE DEF Below
  <2>4. Cardinality(Below(a)) \in Nat /\ Cardinality(Below(b)) \in Nat
    BY <1>2
  <2> QED BY <2>3, <2>4
<1>4. f \in Injection(S, 0 .. n - 1)
  <2>1. f \in [S -> 0 .. n - 1]
    BY <1>2
  <2> HIDE DEF f
  <2>2. \A a, b \in S : f[a] = f[b] => a = b
    <3>1. SUFFICES ASSUME NEW a \in S, NEW b \in S, f[a] = f[b] PROVE a = b
      OBVIOUS
    <3>2. ~ a < b /\ ~ b < a
      <4>1. f[a] \in Int /\ f[b] \in Int
        BY <1>1, <2>1
      <4> QED BY <1>3, <3>1, <4>1
    <3> QED BY <1>1, <3>2
  <2> QED BY <2>1, <2>2 DEF Injection, IsInjective
<1>5. f \in Surjection(S, 0 .. n - 1)
  <2> HIDE DEF f, n
  <2>1. IsFiniteSet(0 .. n - 1) /\ Cardinality(0 .. n - 1) = n
    <3>1. n - 1 \in Int /\ 0 \in Int
      BY <1>1
    <3>2. /\ IsFiniteSet(0 .. n - 1)
          /\ Cardinality(0 .. n - 1) = IF 0 > n - 1 THEN 0 ELSE n - 1 - 0 + 1
      BY <3>1, FS_Interval
    <3> QED BY <1>1, <3>2
  <2>2. n = Cardinality(S)
    BY DEF n
  <2> QED BY <1>4, <2>1, <2>2, FS_Injection
<1>6. ASSUME NEW j \in 1 .. n
      PROVE  NthClearBlock(j) \in S /\ Cardinality(Below(NthClearBlock(j))) = j - 1
  <2>1. j - 1 \in 0 .. n - 1
    BY <1>1
  <2>2. \E b \in S : f[b] = j - 1
    <3> HIDE DEF f
    <3> QED BY <1>5, <2>1 DEF Surjection
  <2>3. \E b \in S : Cardinality(Below(b)) = j - 1
    BY <2>2
  <2>4. NthClearBlock(j) = CHOOSE b \in S : Cardinality(Below(b)) = j - 1
    BY DEF NthClearBlock, S
  <2> HIDE DEF Below
  <2> QED BY <2>3, <2>4
<1>7. \A j, l \in 1 .. n : NthClearBlock(j) = NthClearBlock(l) => j = l
  <2> SUFFICES ASSUME NEW j \in 1 .. n, NEW l \in 1 .. n,
                      NthClearBlock(j) = NthClearBlock(l)
               PROVE  j = l
    OBVIOUS
  <2>1. j - 1 = l - 1
    BY <1>6
  <2> QED BY <2>1
<1> QED BY <1>1, <1>6, <1>7 DEF S

-----------------------------------------------------------------------------
(* What the operators that change a file make of it. *)

\* Nothing changes hands when every inode keeps its blocks.
LEMMA KeepBlocks ==
    ASSUME NEW fs, NEW tbl, NEW img, NEW dbm, Owned(fs, tbl, img, dbm),
           NEW fs2, NEW tbl2, NEW img2,
           \A j \in Inodes : KeepsBlocks(fs, tbl, img, fs2, tbl2, img2, j)
    PROVE  Owned(fs2, tbl2, img2, dbm)
BY DEF Owned, KeepsBlocks

\* Files are inodes, and the table has a record for each.
LEMMA FileTypes ==
    ASSUME BlockInv, DirectoryInv, NEW i \in Files
    PROVE  /\ i \in Inodes
           /\ itable[i] \in InodeTypes
           /\ itable[i].blocks \in Nat \ {0} /\ itable[i].size \in Nat
           /\ itable[i].blocks = BlocksFor(itable[i].size)
           /\ itable[i].blocks # VSFS_NUM_DIRECT
           /\ \A node \in InodeTypes :
                /\ [itable EXCEPT ![i] = node] \in [Inodes -> InodeTypes]
                /\ [itable EXCEPT ![i] = node][i] = node
                /\ \A j \in Inodes \ {i} : [itable EXCEPT ![i] = node][j] = itable[j]
<1>1. i \in Inodes
  BY DEF DirectoryInv, Files
<1>2. itable[i] \in InodeTypes
  BY <1>1 DEF BlockInv
<1>3. itable[i].size \in Nat /\ FileOK(itable[i])
  BY <1>2 DEF BlockInv, InodeTypes
<1>4. itable[i].blocks \in Nat \ {0}
  BY <1>3, BlocksForType DEF FileOK
<1>5. itable \in [Inodes -> InodeTypes]
  BY DEF BlockInv
<1> QED BY <1>1, <1>2, <1>3, <1>4, <1>5 DEF FileOK

\* A size with the same number of blocks.
LEMMA SameBlocksGood ==
    ASSUME BlockInv, DirectoryInv, NEW i \in Files, NEW size \in Nat,
           BlocksFor(size) = itable[i].blocks
    PROVE  Good(i, SameBlocks(itable[i], size))
<1> DEFINE node == [itable[i] EXCEPT !.size = size]
           tbl2 == [itable EXCEPT ![i] = node]
<1>1. /\ node \in InodeTypes /\ node.blocks = itable[i].blocks /\ node.size = size
      /\ node.direct = itable[i].direct /\ node.indirect = itable[i].indirect
  BY FileTypes DEF InodeTypes
<1>2. tbl2[i] = node /\ \A j \in Inodes \ {i} : tbl2[j] = itable[j]
  BY <1>1, FileTypes
<1> HIDE DEF node, tbl2
<1>3. ASSUME NEW j \in Inodes
      PROVE  KeepsBlocks(Files, itable, image, Files, tbl2, image, j)
  <2>1. tbl2[j].blocks = itable[j].blocks /\ tbl2[j].direct = itable[j].direct
            /\ tbl2[j].indirect = itable[j].indirect
    BY <1>1, <1>2
  <2> QED BY <2>1 DEF KeepsBlocks, Held, At
<1>4. Owned(Files, tbl2, image, dbmap)
  BY <1>3, KeepBlocks DEF BlockInv
<1>5. FileOK(node)
  BY <1>1 DEF FileOK, BlockInv
<1>6. SameBlocks(itable[i], size) =
        [node |-> node, image |-> image, dbmap |-> dbmap, free |-> free_blocks]
  BY DEF SameBlocks, node
<1> QED BY <1>1, <1>4, <1>5, <1>6 DEF Good, BlockInv, tbl2

\* Copying bytes into one of the file's blocks.
LEMMA CopiedGood ==
    ASSUME BlockInv, DirectoryInv, NEW i \in Files, NEW r, Good(i, r),
           NEW k \in 0 .. r.node.blocks - 1, NEW offset \in Nat, NEW data \in Seq(Int),
           NEW img2, img2 = Copied(r.image, At(r.node, r.image, k), offset, data),
           NEW r2, r2.node = r.node, r2.image = img2, r2.dbmap = r.dbmap, r2.free = r.free
    PROVE  /\ Good(i, r2)
           /\ At(r.node, r.image, k) \in Blocks
           /\ \A c \in Blocks : c # At(r.node, r.image, k) => img2[c] = r.image[c]
           /\ \A j \in Inodes : KeepsBlocks(Files, [itable EXCEPT ![i] = r.node], r.image,
                                           Files, [itable EXCEPT ![i] = r.node], img2, j)
<1> DEFINE b == At(r.node, r.image, k)
           tbl == [itable EXCEPT ![i] = r.node]
<1>1. /\ i \in Inodes /\ tbl \in [Inodes -> InodeTypes] /\ tbl[i] = r.node
      /\ Owned(Files, tbl, r.image, r.dbmap)
      /\ r.image \in ImageTypes
  BY FileTypes DEF Good
<1>2. k \in Held(Files, tbl, i) /\ k # INDIRECT
  BY <1>1 DEF Held, Positions, INDIRECT
<1> HIDE DEF tbl
<1>3. b \in Blocks \ FormattedDbmap
  BY <1>1, <1>2 DEF Owned
<1> HIDE DEF b
<1>4. img2 \in ImageTypes
  <2> DEFINE start == offset % BLOCK_SIZE
             block == [c \in Cells |-> IF c \in start .. start + Len(data) - 1
                                       THEN data[c - start + 1] ELSE r.image[b][c]]
  <2>1. img2 = [r.image EXCEPT ![b] = block]
    BY DEF Copied, b
  <2>2. block \in [Cells -> Int]
    <3>1. ASSUME NEW c \in Cells, c \in start .. start + Len(data) - 1
          PROVE  data[c - start + 1] \in Int
      <4>1. c \in Nat
        BY DEF Cells
      <4>2. start \in Int /\ Len(data) \in Nat
        BY Division DEF Cells
      <4>3. c - start + 1 \in 1 .. Len(data)
        BY <3>1, <4>1, <4>2
      <4> QED BY <4>3
    <3>2. \A c \in Cells : r.image[b][c] \in Int
      BY <1>1, <1>3 DEF ImageTypes
    <3> QED BY <3>1, <3>2
  <2> QED BY <1>1, <2>1, <2>2 DEF ImageTypes
<1>5. \A c \in Blocks \ {b} : img2[c] = r.image[c]
  BY <1>1 DEF Copied, ImageTypes, b
<1>6. ASSUME NEW j \in Inodes
      PROVE  KeepsBlocks(Files, tbl, r.image, Files, tbl, img2, j)
  <2>1. ASSUME j \in Files, tbl[j].blocks > VSFS_NUM_DIRECT
        PROVE  img2[tbl[j].indirect] = r.image[tbl[j].indirect]
    <3>1. tbl[j].indirect # b /\ tbl[j].indirect \in Blocks
      BY <1>1, <1>2, <2>1, OwnIndirect DEF b
    <3> QED BY <1>5, <3>1
  <2>2. tbl[j].blocks \in Nat
    BY <1>1 DEF InodeTypes
  <2> QED BY <2>1, <2>2, OthersKeep
<1>7. Owned(Files, tbl, img2, r.dbmap)
  BY <1>1, <1>6, KeepBlocks
<1>8. img2[0] = r.image[0]
  BY <1>3, <1>5, LayoutFacts
<1>9. Good(i, r2)
  BY <1>4, <1>7, <1>8 DEF Good, tbl
<1> QED BY <1>3, <1>5, <1>6, <1>9 DEF b, tbl

\* The number of positions of some numbers of blocks, and of the indirect one.
LEMMA PositionsSize ==
    ASSUME NEW from \in Nat, NEW to \in Nat, from <= to, NEW more \in BOOLEAN,
           NEW S, S = (from .. to - 1) \cup (IF more THEN {INDIRECT} ELSE {})
    PROVE  IsFiniteSet(S) /\ Cardinality(S) = to - from + (IF more THEN 1 ELSE 0)
<1>1. IsFiniteSet(from .. to - 1) /\ Cardinality(from .. to - 1) = to - from
  <2>1. from \in Int /\ to - 1 \in Int
    OBVIOUS
  <2>2. /\ IsFiniteSet(from .. to - 1)
        /\ Cardinality(from .. to - 1) = IF from > to - 1 THEN 0 ELSE to - 1 - from + 1
    BY <2>1, FS_Interval
  <2> QED BY <2>2
<1>2. INDIRECT \notin from .. to - 1
  BY DEF INDIRECT
<1>3. /\ IsFiniteSet((from .. to - 1) \cup {INDIRECT})
      /\ Cardinality((from .. to - 1) \cup {INDIRECT}) = Cardinality(from .. to - 1) + 1
  BY <1>1, <1>2, FS_AddElement
<1>4. CASE more
  BY <1>1, <1>3, <1>4
<1>5. CASE ~ more
  <2>1. S = from .. to - 1
    BY <1>5
  <2> QED BY <1>1, <1>5, <2>1
<1> QED BY <1>4, <1>5

\* A file of fewer blocks gives back the others.
LEMMA ShrunkGood ==
    ASSUME BlockInv, DirectoryInv, NEW i \in Files, NEW size \in Nat,
           BlocksFor(size) < itable[i].blocks, BlocksFor(size) # VSFS_NUM_DIRECT
    PROVE  Good(i, Shrunk(itable[i], size)) /\ Kept(i, Shrunk(itable[i], size))
<1> DEFINE node == itable[i]
           old == node.blocks
           new == BlocksFor(size)
           big == old > VSFS_NUM_DIRECT
           drop == big /\ new < VSFS_NUM_DIRECT
           node2 == [blocks |-> new, size |-> size,
                     direct |-> [k \in Direct |-> IF k \in new .. old - 1
                                                  THEN 0 ELSE node.direct[k]],
                     indirect |-> IF drop THEN 0 ELSE node.indirect]
           tbl2 == [itable EXCEPT ![i] = node2]
           img2 == IF big THEN Cleared(node, new, old) ELSE image
           dbm2 == dbmap \ (DataBlocks(node, new, old)
                              \cup (IF drop THEN {node.indirect} ELSE {}))
           free2 == free_blocks + (old - new) + (IF drop THEN 1 ELSE 0)
           lost == (new .. old - 1) \cup (IF drop THEN {INDIRECT} ELSE {})
<1>1. /\ i \in Inodes /\ node \in InodeTypes /\ old \in Nat /\ old # VSFS_NUM_DIRECT
      /\ old = BlocksFor(node.size) /\ new \in Nat \ {0} /\ VSFS_NUM_DIRECT \in Nat \ {0}
  BY FileTypes, BlocksForType, ImageAssumption
<1>2. Shrunk(node, size) = [node |-> node2, image |-> img2, dbmap |-> dbm2, free |-> free2]
  <2>1. node.blocks - (old - new) = new
    BY <1>1
  <2>2. BlocksFor(node.size) = old
    BY <1>1
  <2> HIDE DEF node
  <2> QED BY <2>1, <2>2 DEF Shrunk
<1>3. new \in 0 .. num_blocks /\ new < old /\ new # VSFS_NUM_DIRECT
  <2>1. old \in 0 .. num_blocks
    BY <1>1 DEF InodeTypes
  <2> QED BY <1>1, <2>1, LayoutFacts
<1>4. old <= VSFS_NUM_DIRECT + BLOCK_SIZE /\ Owned(Files, itable, image, dbmap)
        /\ image \in ImageTypes
  BY DEF BlockInv, FileOK
<1>5. node2 \in InodeTypes
  <2>1. 0 \in Blocks
    BY LayoutFacts
  <2>2. node2.direct \in [Direct -> Blocks]
    BY <1>1, <2>1 DEF InodeTypes
  <2>3. node2.indirect \in Blocks
    BY <1>1, <2>1 DEF InodeTypes
  <2> QED BY <1>3, <2>2, <2>3 DEF InodeTypes
<1>6. /\ tbl2[i] = node2
      /\ \A j \in Inodes \ {i} : tbl2[j] = itable[j]
      /\ tbl2 \in [Inodes -> InodeTypes]
  <2> HIDE DEF node2
  <2> QED BY <1>5, FileTypes
<1>7. /\ node2.blocks = new /\ node2.size = size
      /\ node2.indirect = IF drop THEN 0 ELSE node.indirect
      /\ \A k \in Direct : k < new => node2.direct[k] = node.direct[k]
  BY <1>1 DEF Direct
<1> HIDE DEF node2, tbl2, node
<1>8. big => /\ node.indirect \in Blocks /\ node.indirect > data_region
             /\ \A j \in Files : j # i /\ itable[j].blocks > VSFS_NUM_DIRECT =>
                    itable[j].indirect # node.indirect /\ itable[j].indirect \in Blocks
  <2> SUFFICES ASSUME big PROVE
             /\ node.indirect \in Blocks /\ node.indirect > data_region
             /\ \A j \in Files : j # i /\ itable[j].blocks > VSFS_NUM_DIRECT =>
                    itable[j].indirect # node.indirect /\ itable[j].indirect \in Blocks
    OBVIOUS
  <2>1. /\ node.indirect \in Blocks /\ node.indirect > data_region
        /\ \A j \in Inodes : \A k \in Held(Files, itable, j) :
                At(itable[j], image, k) = node.indirect => j = i /\ k = INDIRECT
    BY <1>1, <1>4, OwnIndirect DEF node
  <2>2. ASSUME NEW j \in Files, j # i, itable[j].blocks > VSFS_NUM_DIRECT
        PROVE  itable[j].indirect # node.indirect /\ itable[j].indirect \in Blocks
    <3>1. /\ INDIRECT \in Held(Files, itable, j) /\ itable[j].indirect \in Blocks
          /\ At(itable[j], image, INDIRECT) = itable[j].indirect /\ j \in Inodes
      BY <1>4, <2>2, OwnIndirect, FileTypes
    <3> QED BY <2>1, <2>2, <3>1
  <2> QED BY <2>1, <2>2
<1>9. /\ img2 \in ImageTypes
      /\ \A b \in Blocks : ~ big \/ b # node.indirect => img2[b] = image[b]
      /\ big => \A c \in Cells : c + VSFS_NUM_DIRECT \notin new .. old - 1 =>
                    img2[node.indirect][c] = image[node.indirect][c]
  <2>1. CASE ~ big
    BY <1>4, <2>1
  <2>2. CASE big
    <3> DEFINE cells == [c \in Cells |-> IF c + VSFS_NUM_DIRECT \in new .. old - 1
                                         THEN 0 ELSE image[node.indirect][c]]
    <3>1. img2 = [image EXCEPT ![node.indirect] = cells]
      BY <2>2 DEF Cleared
    <3>2. cells \in [Cells -> Int]
      BY <1>4, <1>8, <2>2 DEF ImageTypes
    <3>3. \A c \in Cells : c + VSFS_NUM_DIRECT \notin new .. old - 1 =>
                    cells[c] = image[node.indirect][c]
      OBVIOUS
    <3> HIDE DEF cells, img2
    <3> QED BY <1>4, <1>8, <2>2, <3>1, <3>2, <3>3 DEF ImageTypes
  <2> QED BY <2>1, <2>2
<1> HIDE DEF img2
<1>10. ASSUME NEW j \in Inodes \ {i}
       PROVE  KeepsBlocks(Files, itable, image, Files, tbl2, img2, j)
  <2>1. tbl2[j] = itable[j]
    BY <1>6
  <2>2. j \in Files /\ itable[j].blocks > VSFS_NUM_DIRECT =>
            img2[itable[j].indirect] = image[itable[j].indirect]
    <3> SUFFICES ASSUME j \in Files, itable[j].blocks > VSFS_NUM_DIRECT
                 PROVE  img2[itable[j].indirect] = image[itable[j].indirect]
      OBVIOUS
    <3>1. itable[j].indirect \in Blocks
      BY <1>4, OwnIndirect
    <3> QED BY <1>8, <1>9, <3>1
  <2>3. j \in Files => itable[j].blocks \in Nat
    BY FileTypes
  <2> QED BY <2>1, <2>2, <2>3, OthersKeep
<1>11. /\ Held(Files, itable, i) = Positions(old) /\ Held(Files, tbl2, i) = Positions(new)
       /\ Positions(new) \subseteq Positions(old)
       /\ Positions(old) \ Positions(new) = lost
  <2>1. Held(Files, itable, i) = Positions(old) /\ Held(Files, tbl2, i) = Positions(new)
    BY <1>6, <1>7 DEF Held, node
  <2> QED BY <1>1, <1>3, <2>1 DEF Positions, INDIRECT
<1>12. ASSUME NEW k \in Positions(new) PROVE At(tbl2[i], img2, k) = At(itable[i], image, k)
  <2>1. CASE k = INDIRECT
    <3>1. new > VSFS_NUM_DIRECT
      BY <1>1, <1>12, <2>1 DEF Positions, INDIRECT
    <3>2. ~ drop
      BY <1>1, <3>1
    <3> QED BY <1>6, <1>7, <2>1, <3>2 DEF At, node
  <2>2. CASE k \in 0 .. new - 1 /\ k < VSFS_NUM_DIRECT
    <3>1. k \in Direct /\ k < new
      BY <1>1, <2>2 DEF Direct
    <3> QED BY <1>6, <1>7, <2>2, <3>1 DEF At, node, INDIRECT
  <2>3. CASE k \in 0 .. new - 1 /\ ~ k < VSFS_NUM_DIRECT
    <3>1. k < new /\ k \in Nat /\ k # INDIRECT /\ new > VSFS_NUM_DIRECT
      BY <1>1, <2>3 DEF INDIRECT
    <3>2. big /\ ~ drop
      BY <1>1, <1>3, <3>1
    <3>3. k - VSFS_NUM_DIRECT \in Cells
      BY <1>1, <1>3, <1>4, <2>3, <3>1, LayoutFacts DEF Cells
    <3>4. (k - VSFS_NUM_DIRECT) + VSFS_NUM_DIRECT \notin new .. old - 1
      BY <1>1, <3>1
    <3>5. img2[node.indirect][k - VSFS_NUM_DIRECT] = image[node.indirect][k - VSFS_NUM_DIRECT]
      BY <1>9, <3>2, <3>3, <3>4
    <3> QED BY <1>6, <1>7, <2>3, <3>1, <3>2, <3>5 DEF At, node
  <2> QED BY <1>12, <2>1, <2>2, <2>3 DEF Positions
<1>13. dbm2 = dbmap \ {At(itable[i], image, k) : k \in lost}
  <2>1. DataBlocks(node, new, old) = {At(itable[i], image, k) : k \in new .. old - 1}
    <3>1. \A k \in new .. old - 1 : BlockAt(node, k) = At(itable[i], image, k)
      BY <1>1 DEF BlockAt, At, INDIRECT, node
    <3> QED BY <3>1 DEF DataBlocks
  <2>2. At(itable[i], image, INDIRECT) = node.indirect
    BY DEF At, node
  <2> QED BY <2>1, <2>2
<1>14. /\ Owned(Files, tbl2, img2, dbm2)
       /\ ClearCount(dbm2) = ClearCount(dbmap) + Cardinality(lost)
  <2>1. Held(Files, tbl2, i) \subseteq Held(Files, itable, i)
    BY <1>11
  <2>2. \A k \in Held(Files, tbl2, i) : At(tbl2[i], img2, k) = At(itable[i], image, k)
    BY <1>11, <1>12
  <2>3. Held(Files, itable, i) \ Held(Files, tbl2, i) = lost
    BY <1>11
  <2>4. \A b : b \in dbm2 <=> b \in dbmap /\ \A k \in lost : b # At(itable[i], image, k)
    BY <1>13
  <2> HIDE DEF lost, dbm2
  <2>5. Loses(Files, itable, image, dbmap, Files, tbl2, img2, dbm2, i, lost)
    BY <1>1, <1>10, <2>1, <2>2, <2>3, <2>4 DEF Loses
  <2>6. Owned(Files, itable, image, dbmap)
    BY <1>4
  <2>7. Owned(Files, tbl2, img2, dbm2)
    BY <2>5, <2>6, LoseBlocks
  <2>8. ClearCount(dbm2) = ClearCount(dbmap) + Cardinality(lost)
    BY <2>5, <2>6, LoseBlocks
  <2> QED BY <2>7, <2>8
<1>15. free2 = ClearCount(dbm2)
  <2>1. Cardinality(lost) = old - new + (IF drop THEN 1 ELSE 0)
    <3>1. drop \in BOOLEAN /\ new <= old /\ new \in Nat
      BY <1>1, <1>3
    <3> HIDE DEF drop, old, new
    <3> QED BY <1>1, <3>1, PositionsSize
  <2>2. ClearCount(dbmap) \in Nat
    BY LayoutFacts, FS_Difference, FS_CardinalityType DEF ClearCount
  <2> HIDE DEF lost, dbm2
  <2> QED BY <1>1, <1>3, <1>14, <2>1, <2>2 DEF BlockInv
<1>16. FileOK(node2)
  BY <1>1, <1>3, <1>4, <1>7, LayoutFacts DEF FileOK
<1>17. img2[0] = image[0]
  <2>1. 0 \in Blocks
    BY LayoutFacts
  <2>2. big => node.indirect # 0
    BY <1>8, LayoutFacts
  <2> QED BY <1>9, <2>1, <2>2
<1>18. ASSUME NEW j \in Files, NEW k \in Nat, k < itable[j].blocks, k < tbl2[j].blocks
       PROVE  /\ At(tbl2[j], img2, k) = At(itable[j], image, k)
              /\ img2[At(itable[j], image, k)] = image[At(itable[j], image, k)]
  <2>1. /\ j \in Inodes /\ itable[j].blocks \in Nat /\ k # INDIRECT
        /\ k \in Held(Files, itable, j)
    BY <1>18, FileTypes DEF Held, Positions, INDIRECT
  <2>2. At(tbl2[j], img2, k) = At(itable[j], image, k)
    <3>1. CASE j = i
      <4>1. k \in Positions(new)
        BY <1>1, <1>6, <1>7, <1>18, <3>1 DEF Positions
      <4> QED BY <1>12, <3>1, <4>1
    <3>2. CASE j # i
      BY <1>10, <2>1, <3>2 DEF KeepsBlocks
    <3> QED BY <3>1, <3>2
  <2>3. At(itable[j], image, k) \in Blocks
    BY <1>4, <2>1 DEF Owned
  <2>4. big => At(itable[j], image, k) # node.indirect
    BY <1>1, <1>4, <2>1, OwnIndirect DEF node
  <2> QED BY <1>9, <2>2, <2>3, <2>4
<1>19. Good(i, Shrunk(node, size))
  <2> HIDE DEF dbm2, free2
  <2> QED BY <1>2, <1>5, <1>9, <1>14, <1>15, <1>16, <1>17 DEF Good, tbl2
<1>20. Kept(i, Shrunk(node, size))
  <2> HIDE DEF dbm2, free2
  <2> QED BY <1>2, <1>18 DEF Kept, tbl2
<1> QED BY <1>19, <1>20 DEF node

\* A file of more blocks has the new ones to itself.
LEMMA GrownGood ==
    ASSUME BlockInv, DirectoryInv, NEW i \in Files, NEW size \in Nat,
           BlocksFor(size) > itable[i].blocks, BlocksFor(size) # VSFS_NUM_DIRECT,
           BlocksFor(size) <= VSFS_NUM_DIRECT + BLOCK_SIZE,
           HasSpace(itable[i].blocks, BlocksFor(size))
    PROVE  /\ Good(i, Grown(itable[i], size)) /\ Kept(i, Grown(itable[i], size))
           /\ \E n, m, d, f : /\ Grown(itable[i], size)
                                   = [node |-> n, image |-> m, dbmap |-> d, free |-> f]
                              /\ n.size = size
<1> DEFINE node == itable[i]
           old == BlocksFor(node.size)
           new == BlocksFor(size)
           more == NeedsIndirect(old, new)
           wanted == new - old + (IF more THEN 1 ELSE 0)
           clear == Cardinality(ClearBlocks)
           taken == IF wanted <= clear THEN wanted ELSE clear
           fresh == [j \in 1 .. taken |-> NthClearBlock(j)]
           nth(k) == k - old + 1 + (IF more /\ k >= VSFS_NUM_DIRECT THEN 1 ELSE 0)
           indirect == IF more /\ VSFS_NUM_DIRECT - old < taken
                       THEN fresh[VSFS_NUM_DIRECT - old + 1] ELSE node.indirect
           Holds(b, k) == /\ b = indirect
                          /\ k \in old .. new - 1
                          /\ k >= VSFS_NUM_DIRECT /\ nth(k) <= taken
                          /\ \A j \in nth(k) .. taken : fresh[j] # b
           node2 == [blocks |-> new, size |-> size,
                     direct |-> [k \in Direct |-> IF k \in old .. new - 1 /\ nth(k) <= taken
                                                  THEN fresh[nth(k)] ELSE node.direct[k]],
                     indirect |-> indirect]
           tbl2 == [itable EXCEPT ![i] = node2]
           img2 == [b \in Blocks |-> [c \in Cells |->
                        IF Holds(b, c + VSFS_NUM_DIRECT)
                        THEN fresh[nth(c + VSFS_NUM_DIRECT)]
                        ELSE IF b \in ToSet(fresh) THEN 0 ELSE image[b][c]]]
           dbm2 == dbmap \cup ToSet(fresh)
           free2 == free_blocks - wanted
           gained == (old .. new - 1) \cup (IF more THEN {INDIRECT} ELSE {})
<1>1. /\ i \in Inodes /\ node \in InodeTypes /\ old \in Nat \ {0} /\ old # VSFS_NUM_DIRECT
      /\ old = node.blocks /\ new \in Nat \ {0} /\ VSFS_NUM_DIRECT \in Nat \ {0}
      /\ old < new /\ new # VSFS_NUM_DIRECT /\ new <= VSFS_NUM_DIRECT + BLOCK_SIZE
      /\ node.direct \in [Direct -> Blocks] /\ node.indirect \in Blocks
  <2>1. /\ i \in Inodes /\ node \in InodeTypes /\ old \in Nat \ {0} /\ old # VSFS_NUM_DIRECT
        /\ old = node.blocks
    BY FileTypes
  <2>2. new \in Nat \ {0} /\ VSFS_NUM_DIRECT \in Nat \ {0}
    BY BlocksForType, ImageAssumption
  <2>3. node.direct \in [Direct -> Blocks] /\ node.indirect \in Blocks
    BY <2>1 DEF InodeTypes
  <2> QED BY <2>1, <2>2, <2>3
<1>2. Grown(node, size) = [node |-> node2, image |-> img2, dbmap |-> dbm2, free |-> free2]
  <2>1. node.blocks + (new - old) = new
    BY <1>1
  <2> HIDE DEF node
  <2> QED BY <2>1 DEF Grown
<1>3. /\ Owned(Files, itable, image, dbmap) /\ image \in ImageTypes
      /\ free_blocks = ClearCount(dbmap)
  BY DEF BlockInv
<1>4. /\ more <=> old < VSFS_NUM_DIRECT /\ new > VSFS_NUM_DIRECT
      /\ more \in BOOLEAN /\ wanted \in Nat
  BY <1>1 DEF NeedsIndirect
<1>5. /\ ClearCount(dbmap) \in Nat /\ taken <= ClearCount(dbmap)
      /\ taken = wanted /\ taken \in Nat
  <2>1. ClearCount(dbmap) \in Nat
    BY LayoutFacts, FS_Difference, FS_CardinalityType DEF ClearCount
  <2>2. wanted <= ClearCount(dbmap)
    BY <1>1, <1>3, <1>4, <2>1 DEF HasSpace
  <2>3. clear = ClearCount(dbmap)
    BY DEF ClearBlocks, ClearCount
  <2> HIDE DEF wanted, clear
  <2>4. taken = wanted
    BY <2>2, <2>3
  <2> QED BY <1>4, <2>1, <2>2, <2>4
<1>6. /\ \A j \in 1 .. taken : fresh[j] \in Blocks \ dbmap
      /\ \A j, l \in 1 .. taken : fresh[j] = fresh[l] => j = l
      /\ ToSet(fresh) \subseteq Blocks \ dbmap
      /\ \A b : b \in ToSet(fresh) <=> \E j \in 1 .. taken : b = fresh[j]
  <2>1. ClearBlocks = Blocks \ dbmap /\ Cardinality(ClearBlocks) = ClearCount(dbmap)
    BY DEF ClearBlocks, ClearCount
  <2>2. 1 .. taken \subseteq 1 .. Cardinality(ClearBlocks)
    <3> HIDE DEF taken
    <3> QED BY <1>5, <2>1
  <2>3. \A j \in 1 .. taken : fresh[j] \in Blocks \ dbmap
    BY <2>1, <2>2, ClearBlocksInOrder
  <2>4. \A j, l \in 1 .. taken : fresh[j] = fresh[l] => j = l
    BY <2>2, ClearBlocksInOrder
  <2>5. \A b : b \in ToSet(fresh) <=> \E j \in 1 .. taken : b = fresh[j]
    BY DEF ToSet
  <2> HIDE DEF fresh
  <2> QED BY <2>3, <2>4, <2>5
<1> HIDE DEF fresh
<1>7. /\ more => VSFS_NUM_DIRECT - old + 1 \in 1 .. taken
      /\ \A k \in old .. new - 1 : nth(k) \in 1 .. taken
      /\ \A k \in old .. new - 1 : more => nth(k) # VSFS_NUM_DIRECT - old + 1
      /\ \A k, l \in old .. new - 1 : nth(k) = nth(l) => k = l
      /\ \A k \in old .. new - 1 : more /\ k >= VSFS_NUM_DIRECT =>
            nth(k) > VSFS_NUM_DIRECT - old + 1
      /\ \A j \in 1 .. taken : \/ \E k \in old .. new - 1 : nth(k) = j
                               \/ more /\ j = VSFS_NUM_DIRECT - old + 1
  <2> HIDE DEF taken
  <2>1. /\ more => VSFS_NUM_DIRECT - old + 1 \in 1 .. taken
        /\ \A k \in old .. new - 1 : nth(k) \in 1 .. taken
        /\ \A k \in old .. new - 1 : more => nth(k) # VSFS_NUM_DIRECT - old + 1
    BY <1>1, <1>4, <1>5
  <2>2. \A k, l \in old .. new - 1 : nth(k) = nth(l) => k = l
    BY <1>1, <1>4, <1>5
  <2>3. \A k \in old .. new - 1 : more /\ k >= VSFS_NUM_DIRECT =>
            nth(k) > VSFS_NUM_DIRECT - old + 1
    BY <1>1, <1>4, <1>5
  <2>4. ASSUME NEW j \in 1 .. taken, ~ (more /\ j = VSFS_NUM_DIRECT - old + 1)
        PROVE  \E k \in old .. new - 1 : nth(k) = j
    <3>1. CASE more /\ j > VSFS_NUM_DIRECT - old + 1
      <4>1. j + old - 2 \in old .. new - 1 /\ nth(j + old - 2) = j
        BY <1>1, <1>4, <1>5, <2>4, <3>1
      <4> QED BY <4>1
    <3>2. CASE ~ (more /\ j > VSFS_NUM_DIRECT - old + 1)
      <4>1. j + old - 1 \in old .. new - 1 /\ nth(j + old - 1) = j
        BY <1>1, <1>4, <1>5, <2>4, <3>2
      <4> QED BY <4>1
    <3> QED BY <3>1, <3>2
  <2> HIDE DEF nth, more, wanted
  <2> QED BY <2>1, <2>2, <2>3, <2>4
<1> HIDE DEF more, wanted, clear, taken, nth
<1>8. /\ indirect \in Blocks
      /\ more => indirect \in Blocks \ dbmap
      /\ old > VSFS_NUM_DIRECT => indirect = node.indirect
      /\ old > VSFS_NUM_DIRECT =>
            /\ indirect \in dbmap /\ indirect > data_region
            /\ \A j \in Inodes : \A k \in Held(Files, itable, j) :
                    At(itable[j], image, k) = indirect => j = i /\ k = INDIRECT
  <2>1. more => indirect \in Blocks \ dbmap
    <3>1. more => VSFS_NUM_DIRECT - old < taken
      BY <1>1, <1>5, <1>7
    <3> QED BY <1>6, <1>7, <3>1
  <2>2. old > VSFS_NUM_DIRECT => indirect = node.indirect
    BY <1>1, <1>4
  <2>3. indirect \in Blocks
    BY <1>1, <2>1
  <2>4. old > VSFS_NUM_DIRECT =>
            /\ node.indirect \in dbmap /\ node.indirect > data_region
            /\ \A j \in Inodes : \A k \in Held(Files, itable, j) :
                    At(itable[j], image, k) = node.indirect => j = i /\ k = INDIRECT
    BY <1>1, <1>3, OwnIndirect
  <2> HIDE DEF indirect
  <2> QED BY <2>1, <2>2, <2>3, <2>4
<1>9. \A k \in old .. new - 1 : k >= VSFS_NUM_DIRECT => Holds(indirect, k)
  <2> SUFFICES ASSUME NEW k \in old .. new - 1, k >= VSFS_NUM_DIRECT,
                      NEW j \in nth(k) .. taken
               PROVE  fresh[j] # indirect
    <3>1. \A k \in old .. new - 1 : nth(k) <= taken
      BY <1>5, <1>7
    <3> QED BY <3>1
  <2>1. nth(k) \in 1 .. taken
    BY <1>7
  <2>2. taken \in Nat /\ j \in Int /\ nth(k) <= j /\ j <= taken
    BY <1>5, <2>1
  <2>3. j \in 1 .. taken
    BY <2>1, <2>2
  <2>4. CASE more
    <3>1. nth(k) > VSFS_NUM_DIRECT - old + 1
      BY <1>7, <2>4
    <3>2. j # VSFS_NUM_DIRECT - old + 1
      BY <1>1, <2>1, <2>2, <3>1
    <3>3. VSFS_NUM_DIRECT - old < taken
      BY <1>1, <1>5, <1>7, <2>4
    <3> QED BY <1>6, <1>7, <2>3, <2>4, <3>2, <3>3
  <2>5. CASE ~ more
    <3>1. old > VSFS_NUM_DIRECT
      BY <1>1, <1>4, <2>5
    <3>2. indirect \in dbmap
      BY <1>8, <3>1
    <3> QED BY <1>6, <2>3, <3>2
  <2> QED BY <2>4, <2>5
<1>10. /\ img2 \in ImageTypes
       /\ \A b \in Blocks : b \notin ToSet(fresh) /\ (b # indirect \/ new < VSFS_NUM_DIRECT) =>
                img2[b] = image[b]
       /\ \A k \in old .. new - 1 : k >= VSFS_NUM_DIRECT =>
                img2[indirect][k - VSFS_NUM_DIRECT] = fresh[nth(k)]
       /\ indirect \notin ToSet(fresh) => \A c \in Cells : c + VSFS_NUM_DIRECT < old =>
                img2[indirect][c] = image[indirect][c]
  <2> DEFINE cell(b, c) == IF Holds(b, c + VSFS_NUM_DIRECT)
                           THEN fresh[nth(c + VSFS_NUM_DIRECT)]
                           ELSE IF b \in ToSet(fresh) THEN 0 ELSE image[b][c]
  <2>1. img2 = [b \in Blocks |-> [c \in Cells |-> cell(b, c)]]
    OBVIOUS
  <2> HIDE DEF img2
  <2>2. ASSUME NEW b \in Blocks, NEW c \in Cells PROVE cell(b, c) \in Int
    <3>1. image[b][c] \in Int
      BY <1>3 DEF ImageTypes
    <3>2. CASE Holds(b, c + VSFS_NUM_DIRECT)
      <4>1. fresh[nth(c + VSFS_NUM_DIRECT)] \in Blocks
        BY <1>6, <1>7, <3>2
      <4>2. fresh[nth(c + VSFS_NUM_DIRECT)] \in Int
        BY <4>1, LayoutFacts DEF Blocks
      <4> HIDE DEF Holds
      <4> QED BY <3>2, <4>2
    <3>3. CASE ~ Holds(b, c + VSFS_NUM_DIRECT)
      <4> HIDE DEF Holds
      <4> QED BY <3>1, <3>3
    <3> QED BY <3>2, <3>3
  <2>3. ASSUME NEW b \in Blocks, b \notin ToSet(fresh), b # indirect \/ new < VSFS_NUM_DIRECT
        PROVE  img2[b] = image[b]
    <3>1. ASSUME NEW c \in Cells PROVE cell(b, c) = image[b][c]
      <4>1. ~ Holds(b, c + VSFS_NUM_DIRECT)
        BY <1>1, <2>3
      <4> HIDE DEF Holds
      <4> QED BY <2>3, <4>1
    <3> HIDE DEF cell
    <3>2. img2[b] = [c \in Cells |-> cell(b, c)]
      BY <2>1
    <3>3. image[b] = [c \in Cells |-> image[b][c]]
      BY <1>3 DEF ImageTypes
    <3> QED BY <3>1, <3>2, <3>3
  <2>4. ASSUME NEW k \in old .. new - 1, k >= VSFS_NUM_DIRECT
        PROVE  img2[indirect][k - VSFS_NUM_DIRECT] = fresh[nth(k)]
    <3>1. k - VSFS_NUM_DIRECT \in Cells
      BY <1>1, <2>4, LayoutFacts DEF Cells
    <3>2. (k - VSFS_NUM_DIRECT) + VSFS_NUM_DIRECT = k
      BY <1>1, <2>4
    <3>3. Holds(indirect, k)
      BY <1>9, <2>4
    <3> HIDE DEF Holds, indirect
    <3>4. cell(indirect, k - VSFS_NUM_DIRECT) = fresh[nth(k)]
      BY <3>2, <3>3
    <3> HIDE DEF cell
    <3>5. indirect \in Blocks
      BY <1>8
    <3> QED BY <2>1, <3>1, <3>4, <3>5
  <2>5. ASSUME indirect \notin ToSet(fresh), NEW c \in Cells, c + VSFS_NUM_DIRECT < old
        PROVE  img2[indirect][c] = image[indirect][c]
    <3>1. c \in Nat
      BY DEF Cells
    <3>2. ~ Holds(indirect, c + VSFS_NUM_DIRECT)
      BY <1>1, <2>5, <3>1
    <3> HIDE DEF Holds, indirect
    <3>3. cell(indirect, c) = image[indirect][c]
      BY <2>5, <3>2
    <3> HIDE DEF cell
    <3>4. indirect \in Blocks
      BY <1>8
    <3> QED BY <2>1, <3>3, <3>4
  <2> HIDE DEF cell, indirect
  <2>6. img2 \in ImageTypes
    BY <2>1, <2>2 DEF ImageTypes
  <2> QED BY <2>3, <2>4, <2>5, <2>6
<1> HIDE DEF img2, indirect, Holds
<1>11. /\ node2 = [blocks |-> new, size |-> size, direct |-> node2.direct, indirect |-> indirect]
       /\ node2.blocks = new /\ node2.size = size /\ node2.indirect = indirect
       /\ node2.direct \in [Direct -> Blocks]
       /\ \A k \in Direct : node2.direct[k] = IF k \in old .. new - 1 THEN fresh[nth(k)]
                                              ELSE node.direct[k]
  <2> DEFINE place(k) == IF k \in old .. new - 1 THEN fresh[nth(k)] ELSE node.direct[k]
  <2>1. ASSUME NEW k \in Direct PROVE place(k) \in Blocks
    BY <1>1, <1>6, <1>7
  <2>2. node2.direct = [k \in Direct |-> place(k)]
    <3>1. \A k \in old .. new - 1 : nth(k) <= taken
      BY <1>5, <1>7
    <3>2. node2.direct = [k \in Direct |-> IF k \in old .. new - 1 /\ nth(k) <= taken
                                            THEN fresh[nth(k)] ELSE node.direct[k]]
      OBVIOUS
    <3> HIDE DEF node2
    <3> QED BY <3>1, <3>2
  <2>3. /\ node2 = [blocks |-> new, size |-> size, direct |-> node2.direct, indirect |-> indirect]
        /\ node2.blocks = new /\ node2.size = size /\ node2.indirect = indirect
    OBVIOUS
  <2> HIDE DEF node2
  <2>4. \A k \in Direct : node2.direct[k] = place(k)
    BY <2>2
  <2>5. node2.direct \in [Direct -> Blocks]
    <3> HIDE DEF place
    <3> QED BY <2>1, <2>2
  <2> QED BY <2>3, <2>4, <2>5
<1> HIDE DEF node2
<1>12. /\ tbl2[i] = node2
       /\ \A j \in Inodes \ {i} : tbl2[j] = itable[j]
  BY <1>1 DEF BlockInv
<1> HIDE DEF tbl2
\* The blocks that some file holds are neither fresh nor the indirect block.
<1>13. ASSUME NEW j \in Inodes, NEW k \in Held(Files, itable, j), ~ (j = i /\ k = INDIRECT)
       PROVE  LET b == At(itable[j], image, k)
              IN  /\ b \in Blocks /\ b \notin ToSet(fresh)
                  /\ b # indirect \/ new < VSFS_NUM_DIRECT
                  /\ img2[b] = image[b]
  <2> DEFINE b == At(itable[j], image, k)
  <2>1. b \in dbmap /\ b \in Blocks
    BY <1>3 DEF Owned
  <2>2. b \notin ToSet(fresh)
    BY <1>6, <2>1
  <2>3. b # indirect \/ new < VSFS_NUM_DIRECT
    <3>1. CASE more
      BY <1>8, <2>1, <3>1
    <3>2. CASE old > VSFS_NUM_DIRECT
      BY <1>8, <1>13, <3>2
    <3>3. CASE ~ more /\ ~ old > VSFS_NUM_DIRECT
      BY <1>1, <1>4, <3>3
    <3> QED BY <3>1, <3>2, <3>3
  <2> HIDE DEF b
  <2>4. img2[b] = image[b]
    BY <1>10, <2>1, <2>2, <2>3
  <2> QED BY <2>1, <2>2, <2>3, <2>4 DEF b
<1>14. ASSUME NEW j \in Inodes \ {i}
       PROVE  KeepsBlocks(Files, itable, image, Files, tbl2, img2, j)
  <2>1. tbl2[j] = itable[j]
    BY <1>12
  <2>2. ASSUME j \in Files, itable[j].blocks > VSFS_NUM_DIRECT
        PROVE  img2[itable[j].indirect] = image[itable[j].indirect]
    <3>1. INDIRECT \in Held(Files, itable, j) /\ At(itable[j], image, INDIRECT) = itable[j].indirect
      BY <1>3, <2>2, OwnIndirect
    <3> QED BY <1>13, <3>1
  <2>3. j \in Files => itable[j].blocks \in Nat
    BY FileTypes
  <2> QED BY <2>1, <2>2, <2>3, OthersKeep
<1>15. /\ Held(Files, itable, i) = Positions(old) /\ Held(Files, tbl2, i) = Positions(new)
       /\ Positions(old) \subseteq Positions(new)
       /\ gained = Positions(new) \ Positions(old)
  <2>1. Held(Files, itable, i) = Positions(old) /\ Held(Files, tbl2, i) = Positions(new)
    BY <1>1, <1>11, <1>12 DEF Held
  <2>2. Positions(old) \subseteq Positions(new)
    BY <1>1 DEF Positions
  <2>3. gained = Positions(new) \ Positions(old)
    BY <1>1, <1>4 DEF Positions, INDIRECT
  <2> QED BY <2>1, <2>2, <2>3
<1>16. ASSUME NEW k \in Positions(old) PROVE At(tbl2[i], img2, k) = At(itable[i], image, k)
  <2>1. CASE k = INDIRECT
    <3>1. old > VSFS_NUM_DIRECT
      BY <1>1, <1>16, <2>1 DEF Positions, INDIRECT
    <3> QED BY <1>8, <1>11, <1>12, <2>1, <3>1 DEF At
  <2>2. CASE k \in 0 .. old - 1 /\ k < VSFS_NUM_DIRECT
    <3>1. k \in Direct /\ k \notin old .. new - 1 /\ k # INDIRECT
      BY <1>1, <2>2 DEF Direct, INDIRECT
    <3> QED BY <1>11, <1>12, <2>2, <3>1 DEF At
  <2>3. CASE k \in 0 .. old - 1 /\ ~ k < VSFS_NUM_DIRECT
    <3>1. k < old /\ k \in Nat /\ k # INDIRECT /\ old > VSFS_NUM_DIRECT
      BY <1>1, <2>3 DEF INDIRECT
    <3>2. indirect = node.indirect /\ indirect \notin ToSet(fresh)
      BY <1>6, <1>8, <3>1
    <3>3. /\ k - VSFS_NUM_DIRECT \in Cells
          /\ (k - VSFS_NUM_DIRECT) + VSFS_NUM_DIRECT < old
      BY <1>1, <2>3, <3>1, LayoutFacts DEF Cells
    <3>4. img2[indirect][k - VSFS_NUM_DIRECT] = image[indirect][k - VSFS_NUM_DIRECT]
      BY <1>10, <3>2, <3>3
    <3> QED BY <1>11, <1>12, <2>3, <3>1, <3>2, <3>4 DEF At
  <2> QED BY <1>16, <2>1, <2>2, <2>3 DEF Positions
<1>17. /\ \A k \in old .. new - 1 : At(tbl2[i], img2, k) = fresh[nth(k)]
       /\ more => At(tbl2[i], img2, INDIRECT) = fresh[VSFS_NUM_DIRECT - old + 1]
  <2>1. ASSUME NEW k \in old .. new - 1 PROVE At(tbl2[i], img2, k) = fresh[nth(k)]
    <3>1. k \in Nat /\ k # INDIRECT
      BY <1>1 DEF INDIRECT
    <3>2. CASE k < VSFS_NUM_DIRECT
      <4>1. k \in Direct
        BY <3>1, <3>2, <1>1 DEF Direct
      <4> QED BY <1>11, <1>12, <3>1, <3>2, <4>1 DEF At
    <3>3. CASE ~ k < VSFS_NUM_DIRECT
      <4>1. k >= VSFS_NUM_DIRECT
        BY <1>1, <3>1, <3>3
      <4>2. img2[indirect][k - VSFS_NUM_DIRECT] = fresh[nth(k)]
        BY <1>10, <4>1
      <4> QED BY <1>11, <1>12, <3>1, <3>3, <4>2 DEF At
    <3> QED BY <3>2, <3>3
  <2>2. more => At(tbl2[i], img2, INDIRECT) = fresh[VSFS_NUM_DIRECT - old + 1]
    <3>1. more => VSFS_NUM_DIRECT - old < taken
      BY <1>1, <1>5, <1>7
    <3> QED BY <1>11, <1>12, <3>1 DEF At, indirect
  <2> QED BY <2>1, <2>2
<1>18. /\ \A k \in gained : At(tbl2[i], img2, k) \in Blocks \ dbmap
       /\ \A k, l \in gained : At(tbl2[i], img2, k) = At(tbl2[i], img2, l) => k = l
       /\ \A b : b \in dbm2 <=> b \in dbmap \/ \E k \in gained : b = At(tbl2[i], img2, k)
  <2> DEFINE g(k) == IF k = INDIRECT THEN VSFS_NUM_DIRECT - old + 1 ELSE nth(k)
  <2>1. ASSUME NEW k \in gained
        PROVE  g(k) \in 1 .. taken /\ At(tbl2[i], img2, k) = fresh[g(k)]
    <3>1. CASE k \in old .. new - 1
      <4>1. k # INDIRECT
        BY <1>1, <3>1 DEF INDIRECT
      <4> QED BY <1>7, <1>17, <3>1, <4>1
    <3>2. CASE more /\ k = INDIRECT
      BY <1>7, <1>17, <3>2
    <3> QED BY <2>1, <3>1, <3>2
  <2>2. ASSUME NEW k \in gained, NEW l \in gained, g(k) = g(l)
        PROVE  k = l
    <3>1. \A m \in gained : \/ m \in old .. new - 1 /\ m # INDIRECT
                            \/ more /\ m = INDIRECT
      BY <1>1 DEF INDIRECT
    <3> QED BY <1>7, <2>2, <3>1
  <2>3. ASSUME NEW j \in 1 .. taken
        PROVE  \E k \in gained : g(k) = j
    <3>1. CASE \E k \in old .. new - 1 : nth(k) = j
      <4>1. PICK k \in old .. new - 1 : nth(k) = j
        BY <3>1
      <4>2. k # INDIRECT
        BY <1>1 DEF INDIRECT
      <4> QED BY <4>1, <4>2
    <3>2. CASE more /\ j = VSFS_NUM_DIRECT - old + 1
      BY <3>2
    <3> QED BY <1>7, <3>1, <3>2
  <2> HIDE DEF g, gained
  <2>4. \A k \in gained : At(tbl2[i], img2, k) \in Blocks \ dbmap
    BY <1>6, <2>1
  <2>5. \A k, l \in gained : At(tbl2[i], img2, k) = At(tbl2[i], img2, l) => k = l
    BY <1>6, <2>1, <2>2
  <2>6. \A b : b \in dbm2 <=> b \in dbmap \/ \E k \in gained : b = At(tbl2[i], img2, k)
    BY <1>6, <2>1, <2>3
  <2> QED BY <2>4, <2>5, <2>6
<1>19. /\ Owned(Files, tbl2, img2, dbm2)
       /\ ClearCount(dbm2) = ClearCount(dbmap) - Cardinality(gained)
  <2>1. Held(Files, itable, i) \subseteq Held(Files, tbl2, i)
    BY <1>15
  <2>2. \A k \in Held(Files, itable, i) : At(tbl2[i], img2, k) = At(itable[i], image, k)
    BY <1>15, <1>16
  <2>3. gained = Held(Files, tbl2, i) \ Held(Files, itable, i)
    BY <1>15
  <2> HIDE DEF gained, dbm2
  <2>4. Gains(Files, itable, image, dbmap, Files, tbl2, img2, dbm2, i, gained)
    BY <1>1, <1>14, <1>18, <2>1, <2>2, <2>3 DEF Gains
  <2>5. Owned(Files, itable, image, dbmap)
    BY <1>3
  <2>6. Owned(Files, tbl2, img2, dbm2)
    BY <2>4, <2>5, GainBlocks
  <2>7. ClearCount(dbm2) = ClearCount(dbmap) - Cardinality(gained)
    BY <2>4, <2>5, GainBlocks
  <2> QED BY <2>6, <2>7
<1>20. free2 = ClearCount(dbm2)
  <2>1. Cardinality(gained) = new - old + (IF more THEN 1 ELSE 0)
    <3>1. old <= new /\ old \in Nat /\ new \in Nat
      BY <1>1
    <3> HIDE DEF old, new
    <3> QED BY <1>4, <3>1, PositionsSize
  <2> HIDE DEF gained, dbm2
  <2> QED BY <1>1, <1>3, <1>4, <1>5, <1>19, <2>1 DEF wanted
<1>21. node2 \in InodeTypes
  <2>1. node2.blocks \in 0 .. num_blocks
    <3>1. tbl2[i].blocks \in Nat /\ i \in Inodes \cap Files
      BY <1>1, <1>11, <1>12
    <3>2. tbl2[i].blocks \in 0 .. num_blocks
      BY <1>19, <3>1, FileFits
    <3> QED BY <1>12, <3>2
  <2> QED BY <1>8, <1>11, <2>1 DEF InodeTypes
<1>22. FileOK(node2)
  BY <1>1, <1>11 DEF FileOK
<1>23. img2[0] = image[0]
  <2>1. 0 \in Blocks /\ 0 \in dbmap
    BY <1>3, LayoutFacts DEF Owned
  <2>2. 0 \notin ToSet(fresh)
    BY <1>6, <2>1
  <2>3. 0 # indirect \/ new < VSFS_NUM_DIRECT
    <3>1. CASE more
      BY <1>8, <2>1, <3>1
    <3>2. CASE old > VSFS_NUM_DIRECT
      BY <1>8, <3>2, LayoutFacts
    <3> QED BY <1>1, <1>4, <3>1, <3>2
  <2> QED BY <1>10, <2>1, <2>2, <2>3
<1>24. ASSUME NEW j \in Files, NEW k \in Nat, k < itable[j].blocks, k < tbl2[j].blocks
       PROVE  /\ At(tbl2[j], img2, k) = At(itable[j], image, k)
              /\ img2[At(itable[j], image, k)] = image[At(itable[j], image, k)]
  <2>1. /\ j \in Inodes /\ itable[j].blocks \in Nat /\ k # INDIRECT
        /\ k \in Held(Files, itable, j)
    BY <1>24, FileTypes DEF Held, Positions, INDIRECT
  <2>2. At(tbl2[j], img2, k) = At(itable[j], image, k)
    <3>1. CASE j = i
      BY <1>15, <1>16, <2>1, <3>1
    <3>2. CASE j # i
      BY <1>14, <2>1, <3>2 DEF KeepsBlocks
    <3> QED BY <3>1, <3>2
  <2>3. img2[At(itable[j], image, k)] = image[At(itable[j], image, k)]
    BY <1>13, <2>1
  <2> QED BY <2>2, <2>3
<1> HIDE DEF dbm2, free2
<1>25. Good(i, Grown(node, size))
  BY <1>2, <1>10, <1>19, <1>20, <1>21, <1>22, <1>23 DEF Good, tbl2
<1>26. Kept(i, Grown(node, size))
  BY <1>2, <1>24 DEF Kept, tbl2
<1>27. node2.size = size
  BY <1>11
<1> QED BY <1>2, <1>25, <1>26, <1>27

-----------------------------------------------------------------------------
(* Sizes and positions. *)

\* The last byte of a file is in its last block.
LEMMA LastBlock ==
    ASSUME NEW size \in Nat \ {0}
    PROVE  /\ BlocksFor(size) = (size - 1) \div BLOCK_SIZE + 1
           /\ RoundUp(size, BLOCK_SIZE) = (size - 1) \div BLOCK_SIZE + 1
           /\ (size - 1) \div BLOCK_SIZE \in Nat
<1> DEFINE q == (size - 1) \div BLOCK_SIZE
           r == (size - 1) % BLOCK_SIZE
<1>1. /\ q \in Nat /\ r \in Cells /\ size - 1 = BLOCK_SIZE * q + r
      /\ BLOCK_SIZE \in Nat /\ BLOCK_SIZE > 1
      /\ size - 1 \in Nat
  <2>1. size - 1 \in Nat
    OBVIOUS
  <2> QED BY <2>1, Division, LayoutFacts
<1>2. /\ BLOCK_SIZE * q \in Int /\ r \in 0 .. BLOCK_SIZE - 1
      /\ BLOCK_SIZE * (q + 1) = BLOCK_SIZE * q + BLOCK_SIZE
  BY <1>1 DEF Cells
<1> HIDE DEF q, r
<1>3. RoundUp(size, BLOCK_SIZE) = q + 1
  <2>1. CASE r = BLOCK_SIZE - 1
    <3>1. size = BLOCK_SIZE * (q + 1) + 0 /\ 0 \in Cells /\ q + 1 \in Int
      BY <1>1, <1>2, <2>1 DEF Cells
    <3>2. size \div BLOCK_SIZE = q + 1 /\ size % BLOCK_SIZE = 0
      BY <3>1, DivisionIs
    <3> QED BY <1>1, <3>2 DEF RoundUp
  <2>2. CASE r # BLOCK_SIZE - 1
    <3>1. size = BLOCK_SIZE * q + (r + 1) /\ r + 1 \in Cells /\ q \in Int /\ r + 1 # 0
      BY <1>1, <1>2, <2>2 DEF Cells
    <3>2. size \div BLOCK_SIZE = q /\ size % BLOCK_SIZE = r + 1
      BY <3>1, DivisionIs
    <3> QED BY <1>1, <3>1, <3>2 DEF RoundUp
  <2> QED BY <2>1, <2>2
<1> QED BY <1>1, <1>3 DEF BlocksFor, q

\* Later bytes are in later blocks.
LEMMA DivisionOrder ==
    ASSUME NEW m \in Nat, NEW n \in Nat, m <= n
    PROVE  m \div BLOCK_SIZE <= n \div BLOCK_SIZE
<1> DEFINE a == m \div BLOCK_SIZE
           b == n \div BLOCK_SIZE
           r == m % BLOCK_SIZE
           s == n % BLOCK_SIZE
<1>1. /\ a \in Nat /\ r \in Cells /\ m = BLOCK_SIZE * a + r
      /\ b \in Nat /\ s \in Cells /\ n = BLOCK_SIZE * b + s
      /\ BLOCK_SIZE \in Nat
  BY Division, LayoutFacts
<1> HIDE DEF a, b, r, s
<1>2. a <= b
  <2> SUFFICES ASSUME b + 1 <= a PROVE FALSE
    BY <1>1
  <2>1. BLOCK_SIZE * (b + 1) <= BLOCK_SIZE * a
    BY <1>1, ProductOrder
  <2>2. /\ BLOCK_SIZE * (b + 1) = BLOCK_SIZE * b + BLOCK_SIZE
        /\ BLOCK_SIZE * a \in Int /\ BLOCK_SIZE * b \in Int
        /\ r \in 0 .. BLOCK_SIZE - 1 /\ s \in 0 .. BLOCK_SIZE - 1
    BY <1>1 DEF Cells
  <2> QED BY <1>1, <2>1, <2>2
<1> QED BY <1>2 DEF a, b

\* A range that starts within the file ends within its last block.
LEMMA WithinLastBlock ==
    ASSUME NEW w \in Writes, NEW size \in Nat, w[1] < size,
           NEW end, end = w[1] + w[2], end > size
    PROVE  BlocksFor(end) = BlocksFor(size)
<1>1. /\ w[1] \in Nat /\ w[2] \in Nat \ {0}
      /\ w[1] \div BLOCK_SIZE = (end - 1) \div BLOCK_SIZE
  BY CallsAssumption, LayoutFacts
<1>2. /\ size - 1 \in Nat /\ end - 1 \in Nat
      /\ w[1] <= size - 1 /\ size - 1 <= end - 1
      /\ size \in Nat \ {0} /\ end \in Nat \ {0}
  BY <1>1
<1>3. /\ w[1] \div BLOCK_SIZE <= (size - 1) \div BLOCK_SIZE
      /\ (size - 1) \div BLOCK_SIZE <= (end - 1) \div BLOCK_SIZE
  BY <1>1, <1>2, DivisionOrder
<1>4. /\ w[1] \div BLOCK_SIZE \in Nat /\ (size - 1) \div BLOCK_SIZE \in Nat
      /\ (end - 1) \div BLOCK_SIZE \in Nat
  BY <1>1, <1>2, Division
<1>5. (size - 1) \div BLOCK_SIZE = (end - 1) \div BLOCK_SIZE
  BY <1>1, <1>3, <1>4
<1>6. BlocksFor(size) = (size - 1) \div BLOCK_SIZE + 1
  BY <1>2, LastBlock
<1>7. BlocksFor(end) = (end - 1) \div BLOCK_SIZE + 1
  BY <1>2, LastBlock
<1> QED BY <1>5, <1>6, <1>7

\* The block that is searched for an offset within a file is one of its blocks.
LEMMA FoundWithin ==
    ASSUME NEW offset \in Nat, NEW size \in Nat, offset < size
    PROVE  PositionOf(offset) \in 0 .. BlocksFor(size) - 1
<1>1. size \in Nat \ {0} /\ size - 1 \in Nat
  OBVIOUS
<1>2. BlocksFor(size) = (size - 1) \div BLOCK_SIZE + 1 /\ (size - 1) \div BLOCK_SIZE \in Nat
  BY <1>1, LastBlock
<1>3. CASE offset = 0
  BY <1>2, <1>3 DEF PositionOf
<1>4. CASE offset # 0
  <2>1. offset \in Nat \ {0} /\ offset - 1 \in Nat /\ offset - 1 <= size - 1
    BY <1>4
  <2>2. /\ RoundUp(offset, BLOCK_SIZE) = (offset - 1) \div BLOCK_SIZE + 1
        /\ (offset - 1) \div BLOCK_SIZE \in Nat
    BY <2>1, LastBlock
  <2>3. (offset - 1) \div BLOCK_SIZE <= (size - 1) \div BLOCK_SIZE
    BY <1>1, <2>1, DivisionOrder
  <2> HIDE DEF RoundUp
  <2>4. PositionOf(offset) = (offset - 1) \div BLOCK_SIZE
    BY <1>4, <2>2 DEF PositionOf
  <2> QED BY <1>2, <2>2, <2>3, <2>4
<1> QED BY <1>3, <1>4

-----------------------------------------------------------------------------
(* The calls. *)

\* A call finds an inode that is in use and not the root directory's.
LEMMA LookupFacts ==
    ASSUME DirectoryInv, NEW n \in Names, Exists(n)
    PROVE  path_lookup(n) \in Files /\ path_lookup(n) \in Inodes
<1> DEFINE f == First(EntriesOf(n))
<1>1. f \in Slots /\ entries[f].ino < num_inodes /\ entries[f].name = n
  <2>1. f \in EntriesOf(n)
    BY ImageFacts, FirstFacts DEF EntriesOf, Exists
  <2> QED BY <2>1 DEF EntriesOf
<1> HIDE DEF f
<1>2. f # 0 /\ f # 1
  BY <1>1, NamesAssumption DEF DirectoryInv, RootStays
<1>3. f \in Used
  BY <1>1, <1>2, ImageFacts DEF Used, Slots
<1>4. entries[f].ino \in Files
  BY <1>3 DEF DirectoryInv, EntriesNameFiles
<1> QED BY <1>4 DEF path_lookup, f, Files, DirectoryInv

\* What a call makes of a file becomes the state.
LEMMA InstallStep ==
    ASSUME BlockInv, DirectoryInv, NEW i \in Files, NEW r, Good(i, r), Install(i, r)
    PROVE  BlockInv'
<1>1. /\ itable' = [itable EXCEPT ![i] = r.node] /\ image' = r.image
      /\ dbmap' = r.dbmap /\ free_blocks' = r.free /\ Files' = Files
  BY DEF Install, Files
<1>2. /\ itable' \in [Inodes -> InodeTypes] /\ itable'[i] = r.node
      /\ \A j \in Inodes \ {i} : itable'[j] = itable[j]
  BY <1>1, FileTypes DEF Good
<1>3. \A j \in Files : FileOK(itable'[j])
  BY <1>2, FileTypes DEF Good, BlockInv
<1>4. HasMagic'
  BY <1>1 DEF Good, BlockInv, HasMagic
<1> QED BY <1>1, <1>2, <1>3, <1>4 DEF Good, BlockInv

\* The three ways to change a size.
LEMMA ResizedGood ==
    ASSUME BlockInv, DirectoryInv, NEW i \in Files, NEW size \in Nat,
           BlocksFor(size) # VSFS_NUM_DIRECT, ~ Overruns(itable[i], size), Resizable(itable[i], size),
           NEW r, r = Resized(itable[i], size)
    PROVE  /\ Good(i, r) /\ Kept(i, r) /\ r.node.size = size
           /\ r = [node |-> r.node, image |-> r.image, dbmap |-> r.dbmap, free |-> r.free]
<1> DEFINE old == itable[i].blocks
           new == BlocksFor(size)
<1>1. /\ old \in Nat \ {0} /\ new \in Nat \ {0} /\ old = BlocksFor(itable[i].size)
      /\ VSFS_NUM_DIRECT \in Nat
  BY FileTypes, BlocksForType, ImageAssumption
<1>2. new <= VSFS_NUM_DIRECT + BLOCK_SIZE
  BY <1>1, LayoutFacts DEF Overruns
<1>3. CASE new = old
  <2>1. r = SameBlocks(itable[i], size)
    BY <1>1, <1>3 DEF Resized
  <2>2. Good(i, r)
    BY <1>3, <2>1, SameBlocksGood
  <2>3. /\ r.image = image /\ r.node = [itable[i] EXCEPT !.size = size]
        /\ r = [node |-> r.node, image |-> r.image, dbmap |-> r.dbmap, free |-> r.free]
    BY <2>1 DEF SameBlocks
  <2>4. /\ r.node.size = size /\ r.node.direct = itable[i].direct
        /\ r.node.indirect = itable[i].indirect
    BY <2>3, FileTypes DEF InodeTypes
  <2>5. Kept(i, r)
    <3> SUFFICES ASSUME NEW j \in Files, NEW k \in Nat
                 PROVE  At([itable EXCEPT ![i] = r.node][j], r.image, k) = At(itable[j], image, k)
      BY <2>3 DEF Kept
    <3>1. [itable EXCEPT ![i] = r.node][j] = IF j = i THEN r.node ELSE itable[j]
      BY FileTypes, <2>2 DEF Good
    <3> QED BY <2>3, <2>4, <3>1 DEF At
  <2> QED BY <2>2, <2>3, <2>4, <2>5
<1>4. CASE new < old
  <2>1. r = Shrunk(itable[i], size)
    BY <1>1, <1>4 DEF Resized
  <2>2. Good(i, r) /\ Kept(i, r)
    BY <1>4, <2>1, ShrunkGood
  <2>3. /\ r.node.size = size
        /\ r = [node |-> r.node, image |-> r.image, dbmap |-> r.dbmap, free |-> r.free]
    BY <2>1 DEF Shrunk
  <2> QED BY <2>2, <2>3
<1>5. CASE new > old
  <2>1. r = Grown(itable[i], size)
    BY <1>1, <1>5 DEF Resized
  <2>2. HasSpace(old, new)
    BY <1>1, <1>5 DEF Resizable
  <2>3. Good(i, r)
    BY <1>2, <1>5, <2>1, <2>2, GrownGood
  <2>4. Kept(i, r)
    BY <1>2, <1>5, <2>1, <2>2, GrownGood
  <2>5. PICK n, m, d, f : /\ Grown(itable[i], size)
                             = [node |-> n, image |-> m, dbmap |-> d, free |-> f]
                          /\ n.size = size
    <3>1. BlocksFor(size) > itable[i].blocks /\ BlocksFor(size) <= VSFS_NUM_DIRECT + BLOCK_SIZE
      BY <1>2, <1>5
    <3>2. HasSpace(itable[i].blocks, BlocksFor(size))
      BY <2>2
    <3> QED BY <3>1, <3>2, GrownGood
  <2>6. r.node.size = size
    BY <2>1, <2>5
  <2>7. r = [node |-> r.node, image |-> r.image, dbmap |-> r.dbmap, free |-> r.free]
    BY <2>1, <2>5
  <2> QED BY <2>3, <2>4, <2>6, <2>7
<1> QED BY <1>1, <1>3, <1>4, <1>5

\* A truncate stops the model, or leaves the file with the size it was given.
LEMMA TruncateFacts ==
    ASSUME OffBoundary, BlockInv, DirectoryInv, NEW n \in Names, NEW size \in Sizes,
           vsfs_truncate(n, size), NEW i, i = path_lookup(n)
    PROVE  /\ i \in Files
           /\ \/ \E end : Stop(end)
              \/ \E r : Good(i, r) /\ Kept(i, r) /\ r.node.size = size /\ Install(i, r)
<1> DEFINE r == Resized(itable[i], size)
<1>1. /\ i \in Files /\ size \in Nat /\ BlocksFor(size) # VSFS_NUM_DIRECT
      /\ Resizable(itable[i], size)
  BY LookupFacts, CallsAssumption DEF vsfs_truncate, OffBoundary
<1>2. CASE \E end : Stop(end)
  BY <1>1, <1>2
<1>3. CASE ~ Overruns(itable[i], size) /\ Install(i, r)
  <2>1. Good(i, r) /\ Kept(i, r) /\ r.node.size = size
    BY <1>1, <1>3, ResizedGood
  <2> HIDE DEF r
  <2> QED BY <1>1, <1>3, <2>1
<1>4. \/ Stop("aborted") \/ Stop("overrun")
      \/ ~ Overruns(itable[i], size) /\ Install(i, r)
  BY DEF vsfs_truncate
<1> QED BY <1>2, <1>3, <1>4

\* A call that stops the model leaves the image alone.
LEMMA StopStep ==
    ASSUME BlockInv, NEW end, Stop(end)
    PROVE  BlockInv'
BY DEF Stop, super, BlockInv, Files, HasMagic

\* A truncate keeps the invariant when the size is off the boundary.
LEMMA TruncateStep ==
    ASSUME OffBoundary, BlockInv, DirectoryInv, NEW n \in Names, NEW size \in Sizes,
           vsfs_truncate(n, size)
    PROVE  BlockInv'
BY TruncateFacts, StopStep, InstallStep

\* What a write does before it copies its bytes.
LEMMA ExtendedGood ==
    ASSUME OffBoundary, BlockInv, DirectoryInv, NEW i \in Files, NEW w \in Writes,
           w[1] < itable[i].size \/ Resizable(itable[i], w[1] + w[2]),
           ~ Overruns(itable[i], w[1] + w[2]),
           NEW r, r = Extended(itable[i], w[1], w[1] + w[2])
    PROVE  /\ Good(i, r) /\ Kept(i, r)
           /\ r.node.size = IF w[1] + w[2] > itable[i].size THEN w[1] + w[2]
                            ELSE itable[i].size
           /\ r = [node |-> r.node, image |-> r.image, dbmap |-> r.dbmap, free |-> r.free]
<1> DEFINE end == w[1] + w[2]
           size == IF end > itable[i].size THEN end ELSE itable[i].size
<1>1. /\ w[1] \in Nat /\ w[2] \in Nat \ {0} /\ end \in Nat /\ w[1] < end
      /\ itable[i].size \in Nat /\ size \in Nat
      /\ itable[i].blocks = BlocksFor(itable[i].size)
  BY CallsAssumption, LayoutFacts, FileTypes
<1>2. CASE w[1] < itable[i].size
  <2>1. r = SameBlocks(itable[i], size)
    BY <1>2 DEF Extended
  <2>2. BlocksFor(size) = itable[i].blocks
    BY <1>1, <1>2, WithinLastBlock
  <2> HIDE DEF size
  <2>3. Good(i, r)
    BY <1>1, <2>1, <2>2, SameBlocksGood
  <2>4. /\ r.image = image /\ r.node = [itable[i] EXCEPT !.size = size]
        /\ r = [node |-> r.node, image |-> r.image, dbmap |-> r.dbmap, free |-> r.free]
    BY <2>1 DEF SameBlocks
  <2>5. /\ r.node.size = size /\ r.node.direct = itable[i].direct
        /\ r.node.indirect = itable[i].indirect
    BY <2>4, FileTypes DEF InodeTypes
  <2>6. Kept(i, r)
    <3> SUFFICES ASSUME NEW j \in Files, NEW k \in Nat
                 PROVE  At([itable EXCEPT ![i] = r.node][j], r.image, k) = At(itable[j], image, k)
      BY <2>4 DEF Kept
    <3>1. [itable EXCEPT ![i] = r.node][j] = IF j = i THEN r.node ELSE itable[j]
      BY FileTypes, <2>3 DEF Good
    <3> QED BY <2>4, <2>5, <3>1 DEF At
  <2> QED BY <2>3, <2>4, <2>5, <2>6 DEF size
<1>3. CASE ~ w[1] < itable[i].size
  <2>1. r = Resized(itable[i], end) /\ Resizable(itable[i], end)
    BY <1>3 DEF Extended
  <2>2. BlocksFor(end) # VSFS_NUM_DIRECT
    BY DEF OffBoundary
  <2>3. size = end
    BY <1>1, <1>3
  <2>4. ~ Overruns(itable[i], end)
    OBVIOUS
  <2> HIDE DEF end, size
  <2>5. Good(i, r)
    BY <1>1, <2>1, <2>2, <2>4, ResizedGood
  <2>6. Kept(i, r)
    BY <1>1, <2>1, <2>2, <2>4, ResizedGood
  <2>7. r.node.size = size
    BY <1>1, <2>1, <2>2, <2>3, <2>4, ResizedGood
  <2>8. r = [node |-> r.node, image |-> r.image, dbmap |-> r.dbmap, free |-> r.free]
    BY <1>1, <2>1, <2>2, <2>4, ResizedGood
  <2> QED BY <2>5, <2>6, <2>7, <2>8 DEF size, end
<1> QED BY <1>2, <1>3

\* The bytes a write has.
LEMMA DataFacts ==
    ASSUME NEW w \in Writes, NEW data \in DataOf(w[2])
    PROVE  /\ data \in Seq(Int) /\ Len(data) = w[2]
           /\ w[1] \in Nat /\ w[2] \in Nat \ {0} /\ w[1] + Len(data) = w[1] + w[2]
<1>1. w[1] \in Nat /\ w[2] \in Nat \ {0}
  BY CallsAssumption, LayoutFacts
<1>2. PICK v \in Values : data = [j \in 1 .. w[2] |-> v]
  BY DEF DataOf
<1>3. v \in Int
  BY CallsAssumption
<1>4. data \in Seq(Int) /\ Len(data) = w[2]
  BY <1>1, <1>2, <1>3
<1> QED BY <1>1, <1>4

\* A write stops the model, or copies its bytes into a block of the file, which
\* it has made as large as needed.
LEMMA WriteFacts ==
    ASSUME OffBoundary, BlockInv, DirectoryInv, NEW n \in Names, NEW w \in Writes,
           NEW data \in DataOf(w[2]), vsfs_write(n, w[1], data),
           NEW i, i = path_lookup(n), NEW k, k = PositionOf(w[1])
    PROVE  /\ i \in Files
           /\ \/ \E end : Stop(end)
              \/ \E r, r2 :
                    /\ Good(i, r) /\ Kept(i, r) /\ k \in 0 .. r.node.blocks - 1
                    /\ r.node.size = IF w[1] + w[2] > itable[i].size THEN w[1] + w[2]
                                     ELSE itable[i].size
                    /\ r2.node = r.node /\ r2.dbmap = r.dbmap /\ r2.free = r.free
                    /\ r2.image = Copied(r.image, At(r.node, r.image, k), w[1], data)
                    /\ Good(i, r2) /\ Install(i, r2)
<1> DEFINE end == w[1] + Len(data)
           r == Extended(itable[i], w[1], end)
           r2 == [r EXCEPT !.image =
                    Copied(@, FoundBlock(r.node, @, w[1]), w[1], data)]
<1>1. /\ i \in Files /\ w[1] \in Nat /\ w[2] \in Nat \ {0} /\ end = w[1] + w[2]
      /\ data \in Seq(Int)
      /\ w[1] < itable[i].size \/ Resizable(itable[i], end)
  BY LookupFacts, DataFacts DEF vsfs_write
<1>2. CASE \E e : Stop(e)
  BY <1>1, <1>2
<1>3. CASE ~ \E e : Stop(e)
  <2>1. Install(i, r2) /\ ~ Overruns(itable[i], end)
    BY <1>3 DEF vsfs_write
  <2> HIDE DEF end
  <2>2. /\ Good(i, r) /\ Kept(i, r)
        /\ r.node.size = IF end > itable[i].size THEN end ELSE itable[i].size
        /\ r = [node |-> r.node, image |-> r.image, dbmap |-> r.dbmap, free |-> r.free]
    <3> HIDE DEF r
    <3>1. r = Extended(itable[i], w[1], w[1] + w[2])
      BY <1>1 DEF r
    <3>2. Good(i, r)
      BY <1>1, <2>1, <3>1, ExtendedGood
    <3>3. Kept(i, r)
      BY <1>1, <2>1, <3>1, ExtendedGood
    <3>4. r.node.size = IF end > itable[i].size THEN end ELSE itable[i].size
      BY <1>1, <2>1, <3>1, ExtendedGood
    <3>5. r = [node |-> r.node, image |-> r.image, dbmap |-> r.dbmap, free |-> r.free]
      BY <1>1, <2>1, <3>1, ExtendedGood
    <3> QED BY <3>2, <3>3, <3>4, <3>5
  <2> HIDE DEF r
  <2>3. r.node.size \in Nat /\ w[1] < r.node.size /\ r.node.blocks = BlocksFor(r.node.size)
    <3>1. itable[i].size \in Nat
      BY <1>1, FileTypes
    <3> QED BY <1>1, <2>2, <3>1 DEF Good, FileOK
  <2>4. k \in 0 .. r.node.blocks - 1
    BY <1>1, <2>3, FoundWithin
  <2>5. FoundBlock(r.node, r.image, w[1]) = At(r.node, r.image, k)
    BY <2>4 DEF FoundBlock, At, INDIRECT
  <2>6. /\ r2.node = r.node /\ r2.dbmap = r.dbmap /\ r2.free = r.free
        /\ r2.image = Copied(r.image, At(r.node, r.image, k), w[1], data)
    <3>1. r2 = [r EXCEPT !.image = Copied(r.image, At(r.node, r.image, k), w[1], data)]
      BY <2>5
    <3> HIDE DEF r2
    <3> QED BY <2>2, <3>1
  <2> HIDE DEF r2
  <2>7. Good(i, r2)
    <3>1. i \in Files /\ w[1] \in Nat /\ data \in Seq(Int) /\ Good(i, r)
      BY <1>1, <2>2
    <3> QED BY <2>4, <2>6, <3>1, CopiedGood
  <2>8. r.node.size = IF w[1] + w[2] > itable[i].size THEN w[1] + w[2]
                      ELSE itable[i].size
    BY <1>1, <2>2
  <2> QED BY <1>1, <2>1, <2>2, <2>4, <2>6, <2>7, <2>8
<1> QED BY <1>2, <1>3

\* A write keeps the invariant when it leaves the file off the boundary.
LEMMA WriteStep ==
    ASSUME OffBoundary, BlockInv, DirectoryInv, NEW n \in Names, NEW w \in Writes,
           NEW data \in DataOf(w[2]), vsfs_write(n, w[1], data)
    PROVE  BlockInv'
BY WriteFacts, StopStep, InstallStep

\* Create does find a block when the counter says so.
LEMMA CreateFindsBlock ==
    ASSUME BlockInv, NEW n, CanCreate(n)
    PROVE  ClearBlocks # {}
BY FS_EmptySet DEF CanCreate, BlockInv, ClearCount, ClearBlocks

\* A file that create makes gets its first block.
LEMMA CreateBlocks ==
    ASSUME OffBoundary, BlockInv, DirectoryInv, NEW n \in Names, vsfs_create(n)
    PROVE  BlockInv'
<1> DEFINE i == First(ClearInodes)
           b == First(ClearBlocks)
<1>1. i \in Inodes \ ibmap
  BY CanCreateFacts DEF vsfs_create
<1>2. ClearBlocks # {}
  BY CreateFindsBlock DEF vsfs_create
<1>3. b \in Blocks \ dbmap
  <2>1. ClearBlocks \in SUBSET Nat
    BY DEF ClearBlocks, Blocks
  <2>2. b \in ClearBlocks
    BY <1>2, <2>1, FirstFacts
  <2> QED BY <2>2 DEF ClearBlocks
<1>4. /\ itable' = [itable EXCEPT ![i].blocks = 1, ![i].size = 0, ![i].direct[0] = b]
      /\ ibmap' = ibmap \cup {i} /\ dbmap' = dbmap \cup {b}
      /\ free_blocks' = free_blocks - 1 /\ image' = image
  BY <1>2 DEF vsfs_create
<1> HIDE DEF i, b
<1>5. i \notin Files /\ Files' = Files \cup {i} /\ Files \subseteq Inodes
  BY <1>1, <1>4 DEF Files, DirectoryInv, RootStays
<1>6. /\ itable' \in [Inodes -> InodeTypes]
      /\ itable'[i].blocks = 1 /\ itable'[i].size = 0 /\ itable'[i].direct[0] = b
      /\ \A j \in Inodes \ {i} : itable'[j] = itable[j]
  <2>1. itable \in [Inodes -> InodeTypes]
    BY DEF BlockInv
  <2> DEFINE node == [itable[i] EXCEPT !.blocks = 1, !.size = 0, !.direct[0] = b]
  <2>2. itable' = [itable EXCEPT ![i] = node]
    BY <1>1, <1>4, <2>1 DEF InodeTypes
  <2>3. itable[i] \in InodeTypes
    BY <1>1, <2>1
  <2>4. itable[i].direct \in [Direct -> Blocks] /\ 0 \in Direct
    BY <2>3, LayoutFacts DEF InodeTypes
  <2>5. node.blocks = 1 /\ node.size = 0 /\ node.direct[0] = b
    BY <2>3, <2>4 DEF InodeTypes
  <2>6. 1 \in 0 .. num_blocks /\ 0 \in Nat /\ b \in Blocks
    BY <1>3, LayoutFacts DEF Blocks
  <2>7. node \in InodeTypes
    BY <2>3, <2>4, <2>6 DEF InodeTypes
  <2> HIDE DEF node
  <2> QED BY <1>1, <2>1, <2>2, <2>5, <2>7
<1>7. VSFS_NUM_DIRECT \in Nat \ {0, 1}
  <2>1. BlocksFor(0) = 1
    BY DEF BlocksFor
  <2> QED BY <2>1, ImageAssumption DEF OffBoundary
<1>8. /\ Held(Files, itable, i) = {} /\ Held(Files', itable', i) = {0}
      /\ At(itable'[i], image, 0) = b
  <2>1. Positions(1) = {0}
    BY <1>7 DEF Positions
  <2> QED BY <1>5, <1>6, <1>7, <2>1 DEF Held, At, INDIRECT
<1>9. Gains(Files, itable, image, dbmap, Files', itable', image', dbmap', i, {0})
  <2>1. ASSUME NEW j \in Inodes \ {i}
        PROVE  KeepsBlocks(Files, itable, image, Files', itable', image', j)
    <3>1. itable[j].blocks \in Nat
      BY LayoutFacts DEF BlockInv, InodeTypes
    <3> QED BY <1>4, <1>5, <1>6, <3>1, OthersKeep
  <2> QED BY <1>1, <1>3, <1>4, <1>8, <2>1 DEF Gains
<1>10. Owned(Files, itable, image, dbmap)
  BY DEF BlockInv
<1>11. /\ Owned(Files', itable', image', dbmap')
       /\ ClearCount(dbmap') = ClearCount(dbmap) - 1
  <2>1. Cardinality({0}) = 1
    BY FS_Singleton
  <2>2. Owned(Files', itable', image', dbmap')
    BY <1>9, <1>10, GainBlocks
  <2>3. ClearCount(dbmap') = ClearCount(dbmap) - Cardinality({0})
    BY <1>9, <1>10, GainBlocks
  <2> QED BY <2>1, <2>2, <2>3
<1>12. \A j \in Files' : FileOK(itable'[j])
  <2>1. FileOK(itable'[i])
    BY <1>6, <1>7, LayoutFacts DEF FileOK, BlocksFor
  <2> QED BY <1>5, <1>6, <2>1 DEF BlockInv
<1>13. /\ image' \in ImageTypes /\ HasMagic' /\ free_blocks' = ClearCount(dbmap')
  BY <1>4, <1>11 DEF BlockInv, HasMagic
<1> QED BY <1>6, <1>11, <1>12, <1>13 DEF BlockInv, ClearCount

\* The blocks unlink gives up are those of the file.
LEMMA UnlinkedFacts ==
    ASSUME BlockInv, DirectoryInv, NEW i \in Files
    PROVE  /\ \A b : b \in UnlinkedBlocks(itable[i]) <=>
                    \E k \in Positions(itable[i].blocks) : b = At(itable[i], image, k)
           /\ UnlinkedBlocks(itable[i]) \subseteq Blocks
<1> DEFINE node == itable[i]
           lost == Positions(node.blocks)
<1>1. \A b : b \in UnlinkedBlocks(node) <=> \E k \in lost : b = At(node, image, k)
  <2>1. \A k \in 0 .. node.blocks - 1 : At(node, image, k) = BlockAt(node, k)
    BY DEF At, BlockAt, INDIRECT
  <2>2. At(node, image, INDIRECT) = node.indirect
    BY DEF At
  <2>3. lost = (0 .. node.blocks - 1) \cup (IF IsBig(node) THEN {INDIRECT} ELSE {})
    BY DEF Positions, IsBig
  <2>4. UnlinkedBlocks(node) = {BlockAt(node, k) : k \in 0 .. node.blocks - 1}
                                  \cup (IF IsBig(node) THEN {node.indirect} ELSE {})
    BY DEF UnlinkedBlocks, DataBlocks
  <2> HIDE DEF lost, node
  <2> QED BY <2>1, <2>2, <2>3, <2>4
<1>2. \A k \in lost : At(node, image, k) \in Blocks
  <2>1. i \in Inodes /\ Held(Files, itable, i) = lost
    BY FileTypes DEF Held
  <2> QED BY <2>1 DEF BlockInv, Owned
<1> HIDE DEF lost, node
<1>3. UnlinkedBlocks(node) \subseteq Blocks
  BY <1>1, <1>2
<1> QED BY <1>1, <1>3 DEF lost, node

\* A file that unlink removes gives all its blocks back.
LEMMA UnlinkBlocks ==
    ASSUME BlockInv, DirectoryInv, NEW n \in Names, vsfs_unlink(n)
    PROVE  /\ BlockInv'
           /\ \A j \in Files \ {path_lookup(n)} : \A k \in 0 .. itable[j].blocks - 1 :
                LET b == At(itable[j], image, k)
                IN  At(itable'[j], image', k) = b /\ image'[b] = image[b]
<1> DEFINE i == path_lookup(n)
           node == itable[i]
           lost == Positions(node.blocks)
<1>1. i \in Files /\ i \in Inodes
  BY LookupFacts DEF vsfs_unlink
<1>2. /\ dbmap' = dbmap \ UnlinkedBlocks(node)
      /\ image' = IF IsBig(node) THEN Cleared(node, 0, node.blocks) ELSE image
      /\ free_blocks' = free_blocks + Refund(node)
      /\ ibmap' = ibmap \ {i}
      /\ itable' = [itable EXCEPT ![i] = ZeroInode]
  <2>1. UnlinkedBlocks(node) \subseteq Blocks
    BY <1>1, UnlinkedFacts
  <2> QED BY <2>1 DEF vsfs_unlink, WithoutInode
<1> HIDE DEF i
<1>3. Files' = Files \ {i} /\ Files \subseteq Inodes
  BY <1>2 DEF Files, DirectoryInv
<1>4. ZeroInode \in InodeTypes
  <2>1. 0 \in Blocks /\ 0 \in 0 .. num_blocks /\ 0 \in Nat
    BY LayoutFacts
  <2> QED BY <2>1 DEF ZeroInode, InodeTypes
<1>5. /\ itable' \in [Inodes -> InodeTypes]
      /\ \A j \in Inodes \ {i} : itable'[j] = itable[j]
  BY <1>1, <1>2, <1>4, FileTypes
<1>6. node.blocks \in Nat \ {0} /\ node.indirect \in Blocks
  BY <1>1, FileTypes DEF InodeTypes
<1>7. Owned(Files, itable, image, dbmap)
  BY DEF BlockInv
<1>8. image' \in ImageTypes /\ \A b \in Blocks : image'[b] = image[b] \/ (IsBig(node) /\ b = node.indirect)
  <2>1. CASE ~ IsBig(node)
    BY <1>2, <2>1 DEF BlockInv
  <2>2. CASE IsBig(node)
    <3>1. image' = [image EXCEPT ![node.indirect] =
                [c \in Cells |-> IF c + VSFS_NUM_DIRECT \in 0 .. node.blocks - 1
                                 THEN 0 ELSE @[c]]]
      BY <1>2, <2>2 DEF Cleared
    <3>2. image \in [Blocks -> [Cells -> Int]]
      BY DEF BlockInv, ImageTypes
    <3> HIDE DEF node
    <3> QED BY <1>6, <2>2, <3>1, <3>2 DEF ImageTypes
  <2> QED BY <2>1, <2>2
<1>9. IsBig(node) => /\ node.indirect > data_region
                     /\ \A j \in Inodes : \A k \in Held(Files, itable, j) :
                            At(itable[j], image, k) = node.indirect => j = i
  BY <1>1, <1>7, OwnIndirect DEF IsBig
<1>10. Held(Files, itable, i) = lost /\ Held(Files', itable', i) = {}
  BY <1>1, <1>3 DEF Held
<1>11. \A b : b \in UnlinkedBlocks(node) <=> \E k \in lost : b = At(node, image, k)
  BY <1>1, UnlinkedFacts
<1>12. Loses(Files, itable, image, dbmap, Files', itable', image', dbmap', i, lost)
  <2>1. ASSUME NEW j \in Inodes \ {i}
        PROVE  KeepsBlocks(Files, itable, image, Files', itable', image', j)
    <3>1. itable[j].blocks \in Nat
      BY LayoutFacts DEF BlockInv, InodeTypes
    <3>2. ASSUME j \in Files, itable[j].blocks > VSFS_NUM_DIRECT
          PROVE  image'[itable[j].indirect] = image[itable[j].indirect]
      <4>1. /\ INDIRECT \in Held(Files, itable, j) /\ itable[j].indirect \in Blocks
            /\ At(itable[j], image, INDIRECT) = itable[j].indirect
        BY <1>7, <3>2, OwnIndirect
      <4> QED BY <1>8, <1>9, <4>1
    <3>3. itable'[j] = itable[j] /\ (j \in Files <=> j \in Files')
      BY <1>3, <1>5
    <3> QED BY <3>1, <3>2, <3>3, OthersKeep
  <2>2. \A b : b \in dbmap' <=> b \in dbmap /\ \A k \in lost : b # At(node, image, k)
    BY <1>2, <1>11
  <2> QED BY <1>1, <1>10, <2>1, <2>2 DEF Loses
<1>13. /\ Owned(Files', itable', image', dbmap')
       /\ ClearCount(dbmap') = ClearCount(dbmap) + Cardinality(lost)
  <2>1. Owned(Files', itable', image', dbmap')
    BY <1>7, <1>12, LoseBlocks
  <2>2. ClearCount(dbmap') = ClearCount(dbmap) + Cardinality(lost)
    BY <1>7, <1>12, LoseBlocks
  <2> QED BY <2>1, <2>2
<1>14. Cardinality(lost) = Refund(node)
  <2>1. IsBig(node) \in BOOLEAN /\ 0 <= node.blocks /\ node.blocks \in Nat
    BY <1>6 DEF IsBig
  <2>2. lost = (0 .. node.blocks - 1) \cup (IF IsBig(node) THEN {INDIRECT} ELSE {})
    BY DEF Positions, IsBig
  <2> HIDE DEF lost, node
  <2>3. Cardinality(lost) = node.blocks - 0 + (IF IsBig(node) THEN 1 ELSE 0)
    BY <2>1, <2>2, PositionsSize
  <2> QED BY <2>1, <2>3 DEF Refund
<1>15. free_blocks' = ClearCount(dbmap')
  BY <1>2, <1>13, <1>14 DEF BlockInv
<1>16. \A j \in Files' : FileOK(itable'[j])
  BY <1>3, <1>5 DEF BlockInv
<1>17. HasMagic'
  <2>1. image'[0] = image[0]
    BY <1>8, <1>9, LayoutFacts
  <2> QED BY <2>1 DEF BlockInv, HasMagic
<1>18. ASSUME NEW j \in Files \ {i}, NEW k \in 0 .. itable[j].blocks - 1
       PROVE  LET b == At(itable[j], image, k)
              IN  At(itable'[j], image', k) = b /\ image'[b] = image[b]
  <2>1. j \in Inodes /\ k \in Held(Files, itable, j)
    BY <1>3 DEF Held, Positions
  <2>2. At(itable'[j], image', k) = At(itable[j], image, k)
    BY <1>12, <2>1 DEF Loses, KeepsBlocks
  <2>3. At(itable[j], image, k) \in Blocks
    BY <1>7, <2>1 DEF Owned
  <2>4. IsBig(node) => At(itable[j], image, k) # node.indirect
    BY <1>9, <2>1
  <2> HIDE DEF node
  <2> QED BY <1>8, <2>2, <2>3, <2>4
<1>19. BlockInv'
  BY <1>5, <1>8, <1>13, <1>15, <1>16, <1>17 DEF BlockInv, ClearCount
<1> QED BY <1>18, <1>19 DEF i

\* A state that mkfs has just made, whatever was on the disk before.
FormattedBlocks ==
    /\ itable \in [Inodes -> InodeTypes]
    /\ image \in ImageTypes
    /\ image[0] = [c \in Cells |-> MAGIC]
    /\ ibmap = {VSFS_ROOT_INO}
    /\ dbmap = FormattedDbmap
    /\ free_blocks = FormattedFreeBlocks

\* Such a state has no files.
LEMMA FormattedBlocksFacts == FormattedBlocks => BlockInv
<1> SUFFICES ASSUME FormattedBlocks PROVE BlockInv
  OBVIOUS
<1> USE DEF FormattedBlocks
<1>1. Files = {}
  BY DEF Files
<1>2. Owned(Files, itable, image, dbmap)
  <2>1. \A i \in Inodes : Held(Files, itable, i) = {}
    BY <1>1 DEF Held
  <2> QED BY <2>1, LayoutFacts DEF Owned
<1>3. ClearCount(dbmap) = FormattedFreeBlocks
  <2>1. FormattedDbmap = 0 .. data_region
    BY LayoutFacts DEF FormattedDbmap, Metadata
  <2>2. IsFiniteSet(0 .. data_region) /\ Cardinality(0 .. data_region) = data_region + 1
    BY LayoutFacts, FS_Interval
  <2>3. Cardinality(Blocks \ FormattedDbmap)
            = Cardinality(Blocks) - Cardinality(Blocks \cap FormattedDbmap)
    BY LayoutFacts, FS_Difference
  <2>4. Blocks \cap FormattedDbmap = FormattedDbmap
    BY LayoutFacts
  <2>5. Cardinality(Blocks \ FormattedDbmap) = num_blocks - (data_region + 1)
    BY <2>1, <2>2, <2>3, <2>4, LayoutFacts
  <2>6. data_region \in Nat /\ num_blocks \in Nat
    BY LayoutFacts
  <2> QED BY <2>5, <2>6 DEF ClearCount, FormattedFreeBlocks
<1>4. HasMagic
  BY LayoutFacts DEF HasMagic, Cells
<1> QED BY <1>1, <1>2, <1>3, <1>4 DEF BlockInv

\* The inodes and the blocks that mkfs writes.
LEMMA FormattedTypes ==
    /\ RootInode \in InodeTypes /\ ZeroInode \in InodeTypes
    /\ [c \in Cells |-> MAGIC] \in [Cells -> Int] /\ ZeroBlock \in [Cells -> Int]
<1>1. /\ 0 \in Blocks /\ 0 \in 0 .. num_blocks /\ 0 \in Nat /\ 1 \in 0 .. num_blocks
      /\ data_region \in Blocks /\ BLOCK_SIZE \in Nat
  BY LayoutFacts DEF Blocks
<1>2. ZeroInode \in InodeTypes
  BY <1>1 DEF ZeroInode, InodeTypes
<1>3. RootInode \in InodeTypes
  BY <1>1, LayoutFacts DEF RootInode, ZeroInode, InodeTypes
<1> QED BY <1>2, <1>3 DEF MAGIC, ZeroBlock

\* Everything else leaves the blocks alone.
LEMMA OtherBlocks ==
    ASSUME BlockInv, UNCHANGED <<ibmap, dbmap, free_blocks, itable, image>>
    PROVE  BlockInv'
BY DEF BlockInv, Files, HasMagic

\* One step, whichever it is.
LEMMA BlockStep == OffBoundary /\ BlockInv /\ DirectoryInv /\ [Next]_vars => BlockInv'
<1> SUFFICES ASSUME OffBoundary, BlockInv, DirectoryInv, [Next]_vars PROVE BlockInv'
  OBVIOUS
<1>1. ASSUME NEW n \in Names, vsfs_create(n) PROVE BlockInv'
  BY <1>1, CreateBlocks
<1>2. ASSUME NEW n \in Names, vsfs_unlink(n) PROVE BlockInv'
  BY <1>2, UnlinkBlocks
<1>3. ASSUME NEW n \in Names, NEW size \in Sizes, vsfs_truncate(n, size)
      PROVE  BlockInv'
  BY <1>3, TruncateStep
<1>4. ASSUME NEW n \in Names, NEW w \in Writes, NEW data \in DataOf(w[2]),
             vsfs_write(n, w[1], data)
      PROVE  BlockInv'
  BY <1>4, WriteStep
<1>5. ASSUME NEW zero \in BOOLEAN, mkfs(zero) PROVE BlockInv'
  <2>1. FormattedBlocks'
    <3>1. itable' \in [Inodes -> InodeTypes]
      BY <1>5, FormattedTypes DEF mkfs, BlockInv
    <3>2. image' \in ImageTypes /\ image'[0] = [c \in Cells |-> MAGIC]
      BY <1>5, FormattedTypes, LayoutFacts DEF mkfs, BlockInv, ImageTypes
    <3> QED BY <1>5, <3>1, <3>2 DEF mkfs, FormattedBlocks
  <2>2. (FormattedBlocks => BlockInv)'
    BY FormattedBlocksFacts, PTL
  <2> QED BY <2>1, <2>2
<1>6. CASE fs_ctx_init
  BY <1>6, OtherBlocks DEF fs_ctx_init, super
<1>7. CASE fs_ctx_destroy
  BY <1>7, OtherBlocks DEF fs_ctx_destroy, super
<1>8. CASE UNCHANGED vars
  BY <1>8, OtherBlocks DEF vars, super
<1> QED BY <1>1, <1>2, <1>3, <1>4, <1>5, <1>6, <1>7, <1>8 DEF Next, Call, Ended

\* Every block is owned once in every state, off the boundary.
LEMMA BlockInvariance == OffBoundary => (Spec => []BlockInv)
<1> SUFFICES ASSUME OffBoundary PROVE Spec => []BlockInv
  OBVIOUS
<1>1. Init => BlockInv
  <2> SUFFICES ASSUME Init PROVE FormattedBlocks
    BY FormattedBlocksFacts
  <2>1. itable \in [Inodes -> InodeTypes] /\ image \in ImageTypes
    BY FormattedTypes DEF Init, ImageTypes
  <2>2. image[0] = [c \in Cells |-> MAGIC]
    BY LayoutFacts DEF Init
  <2> QED BY <2>1, <2>2 DEF Init, FormattedBlocks
<1>2. BlockInv /\ DirectoryInv /\ [Next]_vars => BlockInv'
  BY BlockStep
<1> QED BY <1>1, <1>2, DirectoryInvariance, PTL DEF Spec

-----------------------------------------------------------------------------
(* The results. *)

\* The inodes that mkfs leaves free.
LEMMA FormattedInodes == Cardinality(Inodes \ {VSFS_ROOT_INO}) = num_inodes - 1
BY ImageFacts, FS_RemoveElement

\* The counter of free inodes is right as long as create finds a block.
LEMMA InodeCountStep ==
    ASSUME BlockInv, DirectoryInv, InodesCounted, [Next]_vars
    PROVE  InodesCounted'
<1>1. ASSUME NEW n \in Names, vsfs_create(n) PROVE InodesCounted'
  <2> DEFINE i == First(ClearInodes)
  <2>1. i \in Inodes \ ibmap
    BY <1>1, CanCreateFacts DEF vsfs_create
  <2>2. ibmap' = ibmap \cup {i} /\ free_inodes' = free_inodes - 1
    <3>1. ClearBlocks # {}
      BY <1>1, CreateFindsBlock DEF vsfs_create
    <3> QED BY <1>1, <3>1 DEF vsfs_create
  <2> HIDE DEF i
  <2>3. Inodes \ ibmap' = (Inodes \ ibmap) \ {i}
    BY <2>2
  <2>4. Cardinality((Inodes \ ibmap) \ {i}) = Cardinality(Inodes \ ibmap) - 1
    BY <2>1, ClearFinite, FS_RemoveElement
  <2> QED BY <2>2, <2>3, <2>4 DEF InodesCounted, vsfs_statfs
<1>2. ASSUME NEW n \in Names, vsfs_unlink(n) PROVE InodesCounted'
  <2> DEFINE i == path_lookup(n)
  <2>1. i \in Files /\ i \in Inodes /\ i \in ibmap
    BY <1>2, LookupFacts DEF vsfs_unlink, Files
  <2>2. ibmap' = ibmap \ {i} /\ free_inodes' = free_inodes + 1
    <3>1. UnlinkedBlocks(itable[i]) \subseteq Blocks
      BY <2>1, UnlinkedFacts
    <3> QED BY <1>2, <3>1 DEF vsfs_unlink, WithoutInode
  <2> HIDE DEF i
  <2>3. Inodes \ ibmap' = (Inodes \ ibmap) \cup {i} /\ i \notin Inodes \ ibmap
    BY <2>1, <2>2
  <2>4. Cardinality((Inodes \ ibmap) \cup {i}) = Cardinality(Inodes \ ibmap) + 1
    BY <2>3, ClearFinite, FS_AddElement
  <2> QED BY <2>2, <2>3, <2>4 DEF InodesCounted, vsfs_statfs
<1>3. ASSUME UNCHANGED <<ibmap, free_inodes>> PROVE InodesCounted'
  BY <1>3 DEF InodesCounted, vsfs_statfs
<1>4. ASSUME NEW n \in Names, NEW size \in Sizes, vsfs_truncate(n, size)
      PROVE  InodesCounted'
  BY <1>3, <1>4 DEF vsfs_truncate, Stop, Install, super
<1>5. ASSUME NEW n \in Names, NEW w \in Writes, NEW data \in DataOf(w[2]),
             vsfs_write(n, w[1], data)
      PROVE  InodesCounted'
  BY <1>3, <1>5 DEF vsfs_write, Stop, Install, super
<1>6. ASSUME NEW zero \in BOOLEAN, mkfs(zero) PROVE InodesCounted'
  <2>1. ibmap' = {VSFS_ROOT_INO} /\ free_inodes' = num_inodes - 1
    BY <1>6 DEF mkfs
  <2> QED BY <2>1, FormattedInodes DEF InodesCounted, vsfs_statfs
<1>7. CASE fs_ctx_init \/ fs_ctx_destroy
  BY <1>3, <1>7 DEF fs_ctx_init, fs_ctx_destroy, super
<1>8. CASE UNCHANGED vars
  BY <1>3, <1>8 DEF vars, super
<1> QED BY <1>1, <1>2, <1>4, <1>5, <1>6, <1>7, <1>8 DEF Next, Call, Ended

\* The superblock's count of free inodes is that of the clear bits of the inode
\* bitmap, for every image and program off the boundary: there the counter of
\* blocks is right, so create never fails between marking an inode and taking it
\* from the counter.
THEOREM InodeCountCorrect == OffBoundary => (Spec => []InodesCounted)
<1> SUFFICES ASSUME OffBoundary PROVE Spec => []InodesCounted
  OBVIOUS
<1>1. Init => InodesCounted
  BY FormattedInodes DEF Init, InodesCounted, vsfs_statfs
<1>2. BlockInv /\ DirectoryInv /\ InodesCounted /\ [Next]_vars => InodesCounted'
  BY InodeCountStep
<1> QED BY <1>1, <1>2, BlockInvariance, DirectoryInvariance, PTL DEF Spec

\* How a run may end.
Outcomes == {"run", "overrun", "aborted", "undefined"}

\* What a mount and the end of a run leave in their variables.
LEMMA SessionInvariance ==
    Spec => [](mounted \in BOOLEAN /\ outcome \in Outcomes)
<1> USE DEF Outcomes
<1> DEFINE Session == mounted \in BOOLEAN /\ outcome \in Outcomes
<1>1. Init => Session
  BY DEF Init
<1>2. Session /\ [Next]_vars => Session'
  <2> SUFFICES ASSUME Session, [Next]_vars PROVE Session'
    OBVIOUS
  <2>1. ASSUME NEW n \in Names, vsfs_create(n) PROVE Session'
    BY <2>1 DEF vsfs_create
  <2>2. ASSUME NEW n \in Names, vsfs_unlink(n) PROVE Session'
    BY <2>2 DEF vsfs_unlink, Stop
  <2>3. ASSUME NEW n \in Names, NEW size \in Sizes, vsfs_truncate(n, size) PROVE Session'
    BY <2>3 DEF vsfs_truncate, Stop, Install
  <2>4. ASSUME NEW n \in Names, NEW w \in Writes, NEW data \in DataOf(w[2]),
               vsfs_write(n, w[1], data)
        PROVE  Session'
    BY <2>4 DEF vsfs_write, Stop, Install
  <2>5. ASSUME NEW zero \in BOOLEAN, mkfs(zero) PROVE Session'
    BY <2>5 DEF mkfs
  <2>6. CASE fs_ctx_init
    BY <2>6 DEF fs_ctx_init
  <2>7. CASE fs_ctx_destroy
    BY <2>7 DEF fs_ctx_destroy
  <2>8. CASE UNCHANGED vars
    BY <2>8 DEF vars
  <2> HIDE DEF Session
  <2> QED BY <2>1, <2>2, <2>3, <2>4, <2>5, <2>6, <2>7, <2>8 DEF Next, Call, Ended
<1> QED BY <1>1, <1>2, PTL DEF Spec

\* The types of the state hold for every image and every program whose files
\* stay off the boundary of VSFS_NUM_DIRECT blocks.
THEOREM TypeCorrect == OffBoundary => (Spec => []TypeOK)
<1> SUFFICES ASSUME OffBoundary PROVE Spec => []TypeOK
  OBVIOUS
<1>1. BlockInv /\ DirectoryInv /\ InodesCounted
        /\ mounted \in BOOLEAN /\ outcome \in Outcomes => TypeOK
  <2> SUFFICES ASSUME BlockInv, DirectoryInv, InodesCounted, mounted \in BOOLEAN,
                      outcome \in Outcomes
               PROVE  TypeOK
    OBVIOUS
  <2>1. free_blocks \in 0 .. num_blocks
    <3>1. /\ IsFiniteSet(Blocks \ dbmap)
          /\ Cardinality(Blocks \ dbmap) <= Cardinality(Blocks)
      BY LayoutFacts, FS_Subset
    <3>2. Cardinality(Blocks \ dbmap) \in Nat
      BY <3>1, FS_CardinalityType
    <3> QED BY <3>1, <3>2, LayoutFacts DEF BlockInv, ClearCount
  <2>2. free_inodes \in 0 .. num_inodes
    <3>1. Cardinality(Inodes \ ibmap) <= Cardinality(Inodes)
      BY ImageFacts, FS_Subset
    <3> QED BY <3>1, ImageFacts, ClearFinite DEF InodesCounted, vsfs_statfs
  <2>3. dbmap \subseteq Blocks /\ ibmap \subseteq Inodes
    BY DEF BlockInv, Owned, DirectoryInv
  <2>4. \A i \in Inodes : itable[i] \in InodeTypes
    BY DEF BlockInv
  <2>5. image \in [Blocks -> [Cells -> Int]]
    BY DEF BlockInv, ImageTypes
  <2>6. entries \in [Slots -> [ino : Inodes \cup {VSFS_INO_MAX},
                               name : Names \cup {"", ".", ".."}]]
    BY DEF DirectoryInv, EntryTypes
  <2> QED BY <2>1, <2>2, <2>3, <2>4, <2>5, <2>6 DEF TypeOK, InodeTypes, Outcomes
<1> QED BY <1>1, BlockInvariance, DirectoryInvariance, InodeCountCorrect, SessionInvariance, PTL

\* The superblock's count of free blocks is that of the clear bits of the block
\* bitmap, for every image and program off the boundary: create, truncate,
\* write and unlink keep the two together.
THEOREM BlockCountCorrect == OffBoundary => (Spec => []BlocksCounted)
<1> SUFFICES ASSUME OffBoundary PROVE Spec => []BlocksCounted
  OBVIOUS
<1>1. BlockInv => BlocksCounted
  BY DEF BlockInv, ClearCount, BlocksCounted, vsfs_statfs
<1> QED BY <1>1, BlockInvariance, PTL

\* A file has the blocks its size needs.
THEOREM SizesCorrect == OffBoundary => (Spec => []BlocksMatchSize)
<1> SUFFICES ASSUME OffBoundary PROVE Spec => []BlocksMatchSize
  OBVIOUS
<1>1. BlockInv => BlocksMatchSize
  BY DEF BlockInv, FileOK, BlocksMatchSize
<1> QED BY <1>1, BlockInvariance, PTL

\* The places of the model's properties are the positions of the invariant.
LEMMA PlacesFacts ==
    ASSUME BlockInv, DirectoryInv
    PROVE  /\ \A p : p \in AllPlaces <=>
                \E i \in Inodes : \E k \in Held(Files, itable, i) : p = <<i, k>>
           /\ \A i \in Inodes : \A k \in Held(Files, itable, i) :
                BlockIn(<<i, k>>) = At(itable[i], image, k)
<1>1. \A i \in Files : i \in Inodes
  BY FileTypes
<1>2. ASSUME NEW i \in Files
      PROVE  \A p : p \in Places(i) <=> \E k \in Held(Files, itable, i) : p = <<i, k>>
  <2>1. Held(Files, itable, i)
            = (0 .. itable[i].blocks - 1) \cup (IF IsBig(itable[i]) THEN {INDIRECT} ELSE {})
    BY DEF Held, Positions, IsBig
  <2> QED BY <2>1 DEF Places
<1>3. \A p : p \in AllPlaces <=> \E i \in Files : p \in Places(i)
  BY DEF AllPlaces
<1>4. \A i \in Inodes : i \notin Files => Held(Files, itable, i) = {}
  BY DEF Held
<1>5. \A i \in Inodes : \A k \in Held(Files, itable, i) :
                BlockIn(<<i, k>>) = At(itable[i], image, k)
  BY DEF BlockIn, At, BlockAt
<1> QED BY <1>1, <1>2, <1>3, <1>4, <1>5

\* No two places of files hold the same block, and none holds a block that is
\* free or the file system's own, for every image and program off the boundary.
THEOREM BlocksCorrect == OffBoundary => (Spec => []BlocksOwnedOnce)
<1> SUFFICES ASSUME OffBoundary PROVE Spec => []BlocksOwnedOnce
  OBVIOUS
<1>1. BlockInv /\ DirectoryInv => BlocksOwnedOnce
  <2> SUFFICES ASSUME BlockInv, DirectoryInv PROVE BlocksOwnedOnce
    OBVIOUS
  <2>1. Owned(Files, itable, image, dbmap)
    BY DEF BlockInv
  <2>2. ASSUME NEW p \in AllPlaces PROVE BlockIn(p) \in dbmap \ FormattedDbmap
    BY <2>1, PlacesFacts DEF Owned
  <2>3. ASSUME NEW p \in AllPlaces, NEW q \in AllPlaces, p # q
        PROVE  BlockIn(p) # BlockIn(q)
    <3>1. PICK i \in Inodes : \E k \in Held(Files, itable, i) : p = <<i, k>>
      BY PlacesFacts
    <3>2. PICK k \in Held(Files, itable, i) : p = <<i, k>>
      BY <3>1
    <3>3. PICK j \in Inodes : \E l \in Held(Files, itable, j) : q = <<j, l>>
      BY PlacesFacts
    <3>4. PICK l \in Held(Files, itable, j) : q = <<j, l>>
      BY <3>3
    <3>5. BlockIn(p) = At(itable[i], image, k) /\ BlockIn(q) = At(itable[j], image, l)
      BY <3>2, <3>4, PlacesFacts
    <3>6. At(itable[i], image, k) = At(itable[j], image, l) => i = j /\ k = l
      BY <2>1 DEF Owned
    <3> QED BY <2>3, <3>2, <3>4, <3>5, <3>6
  <2> QED BY <2>2, <2>3 DEF BlocksOwnedOnce
<1> QED BY <1>1, BlockInvariance, DirectoryInvariance, PTL

\* Every block that is taken belongs to a file, which gives it back when it
\* shrinks or goes, for every image and program off the boundary.
THEOREM LeaksCorrect == OffBoundary => (Spec => []NothingLeaked)
<1> SUFFICES ASSUME OffBoundary PROVE Spec => []NothingLeaked
  OBVIOUS
<1>1. BlockInv /\ DirectoryInv => NothingLeaked
  <2> SUFFICES ASSUME BlockInv, DirectoryInv, NEW b \in dbmap \ FormattedDbmap
               PROVE  \E p \in AllPlaces : b = BlockIn(p)
    BY DEF NothingLeaked
  <2>1. PICK i \in Inodes : \E k \in Held(Files, itable, i) : b = At(itable[i], image, k)
    BY DEF BlockInv, Owned
  <2>2. PICK k \in Held(Files, itable, i) : b = At(itable[i], image, k)
    BY <2>1
  <2> QED BY <2>2, PlacesFacts
<1> QED BY <1>1, BlockInvariance, DirectoryInvariance, PTL

\* An image can always be mounted again when its files stay off the boundary.
THEOREM MountCorrect == OffBoundary => (Spec => []MountsAgain)
<1> SUFFICES ASSUME OffBoundary PROVE Spec => []MountsAgain
  OBVIOUS
<1>1. BlockInv => MountsAgain
  BY DEF BlockInv, MountsAgain
<1> QED BY <1>1, BlockInvariance, PTL
=============================================================================
