-------------------------------- MODULE Vsfs --------------------------------
(***************************************************************************)
(* The file system of a4-chenz347: vsfs.c on the image that mkfs.c         *)
(* formats.  FUSE calls one handler at a time (option -s), so an action is *)
(* one call.  Calls that return an error without a change are stutters,    *)
(* and so are statfs, getattr, readdir and read, whose results are         *)
(* operators of the state.  FUSE has looked the path up before the call:   *)
(* create is called for a name that is not there, the others for one that  *)
(* is.  The root directory keeps its one block, so the branches for a      *)
(* directory of more than VSFS_NUM_DIRECT blocks are never taken.          *)
(*                                                                         *)
(* A block is BLOCK_SIZE cells, a cell being a byte of a file or a block   *)
(* number of an indirect block.  Modes, link counts and times are left     *)
(* out.                                                                    *)
(***************************************************************************)
EXTENDS Integers, SequencesExt

CONSTANTS
    num_inodes, num_blocks,     \* of the image
    InodesPerBlock,
    DentriesPerBlock,
    VSFS_NUM_DIRECT,
    BLOCK_SIZE,
    Names,          \* file names programs use
    Sizes,          \* sizes they truncate files to
    Writes, Reads,  \* <<offset, length>> of what they write and read
    Values          \* values of the bytes they write

\* 32-bit words of the superblock that a block number may be written over: the
\* magic and the size, which come first.  The counts behind them are variables.
MAGIC == -1
MAGIC_AND_SIZE == 4
VSFS_ROOT_INO == 0
VSFS_ITBL_BLKNUM == 3

Inodes == 0 .. num_inodes - 1
Blocks == 0 .. num_blocks - 1
Slots == 0 .. DentriesPerBlock - 1
Cells == 0 .. BLOCK_SIZE - 1
Direct == 0 .. VSFS_NUM_DIRECT - 1

\* The number of units of the given size that hold n.
RoundUp(n, size) == n \div size + (IF n % size = 0 THEN 0 ELSE 1)

InodeBlocks == RoundUp(num_inodes, InodesPerBlock)
data_region == VSFS_ITBL_BLKNUM + InodeBlocks
Metadata == 0 .. data_region - 1

\* mkfs asserts that the inode table and the root directory's block fit.
ASSUME ImageAssumption ==
    /\ num_inodes \in Nat \ {0} /\ InodesPerBlock \in Nat \ {0}
    /\ num_blocks \in Nat /\ num_blocks > data_region
    /\ DentriesPerBlock \in Nat \ {0, 1}
    /\ VSFS_NUM_DIRECT \in Nat \ {0}
    /\ BLOCK_SIZE \in Nat \ {0, 1}
\* The byte range of a call lies within one block.
ASSUME CallsAssumption ==
    /\ Sizes \subseteq Nat
    /\ \A w \in Writes \cup Reads :
        /\ w[1] \in Nat /\ w[2] \in 1 .. BLOCK_SIZE
        /\ w[1] \div BLOCK_SIZE = (w[1] + w[2] - 1) \div BLOCK_SIZE
    /\ Values \subseteq Nat
\* The kernel resolves "." and ".." itself.
ASSUME NamesAssumption == Names \cap {".", ".."} = {}

VARIABLES
    mounted,        \* vsfs runs on the image
    free_blocks, free_inodes,   \* counters of the superblock
    ibmap, dbmap,   \* inodes and blocks whose bit is set
    itable,         \* the inodes
    entries,        \* the entries of the root directory
    image,          \* the cells of every block
    outcome         \* "run", or what ends the model: see Stop

super == <<free_blocks, free_inodes>>
vars == <<mounted, super, ibmap, dbmap, itable, entries, image, outcome>>

\* VSFS_INO_MAX, in an entry that is not in use.
VSFS_INO_MAX == num_inodes + 1

ZeroInode ==
    [blocks |-> 0, size |-> 0, direct |-> [k \in Direct |-> 0], indirect |-> 0]
ZeroBlock == [c \in Cells |-> 0]

-----------------------------------------------------------------------------
(* mkfs, and mounting. *)

\* The root directory's inode; its block is the first one of the data region.
RootInode ==
    [ZeroInode EXCEPT !.blocks = 1, !.size = BLOCK_SIZE,
                      !.direct[0] = data_region]

\* The name of an entry that is not in use is never read and left out.
FreeEntry == [ino |-> VSFS_INO_MAX, name |-> ""]

EmptyDirectory ==
    [j \in Slots |->
        IF j = 0 THEN [ino |-> VSFS_ROOT_INO, name |-> "."]
        ELSE IF j = 1 THEN [ino |-> VSFS_ROOT_INO, name |-> ".."]
        ELSE FreeEntry]

\* The counters and the bitmaps mkfs leaves.
FormattedFreeBlocks_RootForgotten == num_blocks - data_region
FormattedFreeBlocks == num_blocks - data_region - 1
FormattedDbmap == Metadata \cup {data_region}

Init ==
    /\ mounted = FALSE
    /\ free_blocks = FormattedFreeBlocks
    /\ free_inodes = num_inodes - 1
    /\ ibmap = {VSFS_ROOT_INO}
    /\ dbmap = FormattedDbmap
    /\ itable = [i \in Inodes |->
                    IF i = VSFS_ROOT_INO THEN RootInode ELSE ZeroInode]
    /\ entries = EmptyDirectory
    /\ image = [b \in Blocks |->
                    IF b = 0 THEN [c \in Cells |-> MAGIC] ELSE ZeroBlock]
    /\ outcome = "run"

\* mkfs -f, with -z or without: then only what mkfs sets is new, and the other
\* inodes and blocks stay as the old file system left them.
mkfs(zero) ==
    /\ outcome = "run"
    /\ ~ mounted
    /\ free_blocks' = FormattedFreeBlocks
    /\ free_inodes' = num_inodes - 1
    /\ ibmap' = {VSFS_ROOT_INO}
    /\ dbmap' = FormattedDbmap
    /\ itable' = [i \in Inodes |->
                    IF i = VSFS_ROOT_INO THEN RootInode
                    ELSE IF zero THEN ZeroInode ELSE itable[i]]
    /\ entries' = EmptyDirectory
    /\ image' = [b \in Blocks |->
                    IF b = 0 THEN [c \in Cells |-> MAGIC]
                    ELSE IF zero THEN ZeroBlock ELSE image[b]]
    /\ UNCHANGED <<mounted, outcome>>

HasMagic == image[0][0] = MAGIC /\ image[0][1] = MAGIC

fs_ctx_init ==
    /\ outcome = "run"
    /\ ~ mounted /\ HasMagic
    /\ mounted' = TRUE
    /\ UNCHANGED <<super, ibmap, dbmap, itable, entries, image, outcome>>

fs_ctx_destroy ==
    /\ outcome = "run"
    /\ mounted
    /\ mounted' = FALSE
    /\ UNCHANGED <<super, ibmap, dbmap, itable, entries, image, outcome>>

-----------------------------------------------------------------------------
(* Finding files and free places. *)

First(set) == CHOOSE i \in set : \A j \in set : i <= j

\* The entry path_lookup and path_unlink_from_root stop at.
EntriesOf(n) ==
    {j \in Slots : entries[j].ino < num_inodes /\ entries[j].name = n}
Exists(n) == EntriesOf(n) # {}
path_lookup(n) == entries[First(EntriesOf(n))].ino

FreeEntries == {j \in Slots : entries[j].ino > num_inodes}

\* What bitmap_alloc finds in a bitmap, call after call: its clear bits in
\* order.  Its callers have asked the counter before, and the counter may be
\* wrong: then bitmap_alloc fails.
ClearInodes == Inodes \ ibmap
ClearBlocks == Blocks \ dbmap
NthClearBlock(j) ==
    CHOOSE b \in ClearBlocks : Cardinality({c \in ClearBlocks : c < b}) = j - 1

\* Blocks a file of the given size has: at least one.
BlocksFor_Exact(size) == RoundUp(size, BLOCK_SIZE)
BlocksFor(size) == IF size = 0 THEN 1 ELSE RoundUp(size, BLOCK_SIZE)

-----------------------------------------------------------------------------
(* Creating and removing files. *)

\* When the directory is full no entry is written, but the inode and the block
\* are taken and the call succeeds.  The block is not cleared.
CreatedEntries(n, i) ==
    IF FreeEntries = {} THEN entries
    ELSE [entries EXCEPT ![First(FreeEntries)] = [ino |-> i, name |-> n]]

CanCreate(n) ==
    /\ ~ Exists(n)
    /\ free_inodes # 0 /\ free_blocks # 0
    /\ ClearInodes # {}

\* The bit of the inode is set before create looks for a block.  When no block
\* is clear, whatever the counter says, nothing takes the inode back.
vsfs_create(n) ==
    LET i == First(ClearInodes)
        b == First(ClearBlocks)
    IN  /\ CanCreate(n)
        /\ ibmap' = ibmap \cup {i}
        /\ IF ClearBlocks = {} THEN UNCHANGED <<super, dbmap, itable, entries>>
           ELSE /\ entries' = CreatedEntries(n, i)
                /\ itable' = [itable EXCEPT ![i].blocks = 1, ![i].size = 0,
                                            ![i].direct[0] = b]
                /\ dbmap' = dbmap \cup {b}
                /\ free_inodes' = free_inodes - 1
                /\ free_blocks' = free_blocks - 1
        /\ UNCHANGED <<mounted, image, outcome>>

-----------------------------------------------------------------------------
(* What ends the model.  A call may destroy the file system's own blocks:    *)
(* it writes block numbers where there is no indirect block ("overrun"),     *)
(* clears or writes a block that is not a file's ("overrun"), fails an       *)
(* assertion ("aborted"), or goes on with a block number nobody has set      *)
(* ("undefined").  What becomes of the image from there on is not followed.  *)

Stop(end) ==
    /\ outcome' = end
    /\ UNCHANGED <<mounted, super, ibmap, dbmap, itable, entries, image>>

\* The blocks whose bytes image stands for.  The others hold what mkfs has put
\* there, which the other variables stand for; their bits may be cleared, and
\* then they are handed out like any other.
FileBlocks == Blocks \ FormattedDbmap

-----------------------------------------------------------------------------
(* The blocks of a file, and removing it. *)

\* The number of the block that holds a file's cells from k * BLOCK_SIZE on.
BlockAt(node, k) ==
    IF k < VSFS_NUM_DIRECT THEN node.direct[k]
    ELSE image[node.indirect][k - VSFS_NUM_DIRECT]

\* The blocks of the positions from .. to - 1.  A name with a suffix is a bug
\* that could have been made in the definition that follows it.
DataBlocks_OneTooMany(node, from, to) ==
    {BlockAt(node, k) : k \in (IF from = 0 THEN 0 ELSE from - 1) .. to - 1}
DataBlocks(node, from, to) == {BlockAt(node, k) : k \in from .. to - 1}

\* The indirect block, with its entries from the given one on set to 0.
Cleared(node, from, to) ==
    [image EXCEPT ![node.indirect] =
        [c \in Cells |-> IF c + VSFS_NUM_DIRECT \in from .. to - 1
                         THEN 0 ELSE @[c]]]

\* An indirect block outside the data region is an error the call returns.
IsBig(node) == node.blocks > VSFS_NUM_DIRECT
BadIndirect(node) == node.indirect < data_region

UnlinkedBlocks_KeepsIndirect(node) == DataBlocks(node, 0, node.blocks)
UnlinkedBlocks(node) ==
    DataBlocks(node, 0, node.blocks) \cup (IF IsBig(node) THEN {node.indirect} ELSE {})

\* What goes back to the counter and leaves the directory and the bitmap.
Refund(node) == node.blocks + (IF IsBig(node) THEN 1 ELSE 0)

WithoutEntry_Forgotten(n) == entries
WithoutEntry_NotFree(n) == [entries EXCEPT ![First(EntriesOf(n))].ino = num_inodes]
WithoutEntry(n) == [entries EXCEPT ![First(EntriesOf(n))] = FreeEntry]

WithoutInode_Forgotten(i) == ibmap
WithoutInode(i) == ibmap \ {i}

vsfs_unlink(n) ==
    LET i == path_lookup(n)
        node == itable[i]
    IN  /\ Exists(n)
        /\ ~ (IsBig(node) /\ BadIndirect(node))
        /\ IF ~ UnlinkedBlocks(node) \subseteq Blocks THEN Stop("aborted")
           ELSE /\ dbmap' = dbmap \ UnlinkedBlocks(node)
                /\ image' = IF IsBig(node) THEN Cleared(node, 0, node.blocks) ELSE image
                /\ free_blocks' = free_blocks + Refund(node)
                /\ entries' = WithoutEntry(n)
                /\ free_inodes' = free_inodes + 1
                /\ ibmap' = WithoutInode(i)
                /\ itable' = [itable EXCEPT ![i] = ZeroInode]
                /\ UNCHANGED <<mounted, outcome>>

-----------------------------------------------------------------------------
(* Changing the size of a file: what truncate makes of a file's inode, of    *)
(* the image, of the block bitmap and of its counter.  write calls it too.   *)

Shrunk(node, size) ==
    LET old == BlocksFor(node.size)
        new == BlocksFor(size)
        big == old > VSFS_NUM_DIRECT
        drop == big /\ new < VSFS_NUM_DIRECT
    IN  [node |-> [blocks |-> node.blocks - (old - new),
                   size |-> size,
                   direct |-> [k \in Direct |-> IF k \in new .. old - 1
                                                THEN 0 ELSE node.direct[k]],
                   indirect |-> IF drop THEN 0 ELSE node.indirect],
         image |-> IF big THEN Cleared(node, new, old) ELSE image,
         dbmap |-> dbmap \ (DataBlocks(node, new, old)
                              \cup (IF drop THEN {node.indirect} ELSE {})),
         free |-> free_blocks + (old - new) + (IF drop THEN 1 ELSE 0)]

\* Blocks are taken in the order direct ones, indirect block, the ones behind
\* it; where no block is clear any more, the number stays what it was.  A file
\* of VSFS_NUM_DIRECT blocks is taken for one that has an indirect block; with
\* i_indirect = 0 the numbers are written over the superblock.
NeedsIndirect_Never(old, new) == FALSE
NeedsIndirect(old, new) == new > VSFS_NUM_DIRECT /\ old < VSFS_NUM_DIRECT

Grown(node, size) ==
    LET old == BlocksFor(node.size)
        new == BlocksFor(size)
        more == NeedsIndirect(old, new)
        wanted == new - old + (IF more THEN 1 ELSE 0)
        clear == Cardinality(ClearBlocks)
        taken == IF wanted <= clear THEN wanted ELSE clear
        fresh == [j \in 1 .. taken |-> NthClearBlock(j)]
        \* the place in fresh of the block for position k of the file
        nth(k) == k - old + 1 + (IF more /\ k >= VSFS_NUM_DIRECT THEN 1 ELSE 0)
        indirect == IF more /\ VSFS_NUM_DIRECT - old < taken
                    THEN fresh[VSFS_NUM_DIRECT - old + 1]
                    ELSE node.indirect
        Holds(b, k) ==      \* block b still holds the pointer for position k
            /\ b = indirect
            /\ k \in old .. new - 1
            /\ k >= VSFS_NUM_DIRECT /\ nth(k) <= taken
            /\ \A j \in nth(k) .. taken : fresh[j] # b
    IN  [node |-> [blocks |-> node.blocks + (new - old),
                   size |-> size,
                   direct |-> [k \in Direct |-> IF /\ k \in old .. new - 1
                                                   /\ nth(k) <= taken
                                                THEN fresh[nth(k)]
                                                ELSE node.direct[k]],
                   indirect |-> indirect],
         image |-> [b \in Blocks |-> [c \in Cells |->
                        IF Holds(b, c + VSFS_NUM_DIRECT)
                        THEN fresh[nth(c + VSFS_NUM_DIRECT)]
                        ELSE IF b \in ToSet(fresh) THEN 0 ELSE image[b][c]]],
         dbmap |-> dbmap \cup ToSet(fresh),
         free |-> free_blocks - wanted]

\* The tail of the last block is left as it is.
SameBlocks(node, size) ==
    [node |-> [node EXCEPT !.size = size],
     image |-> image, dbmap |-> dbmap, free |-> free_blocks]

\* A file that already has an indirect block, or passes for one, needs none.
HasSpace(old, new) ==
    new - old + (IF new > VSFS_NUM_DIRECT /\ old <= VSFS_NUM_DIRECT
                 THEN 1 ELSE 0) <= free_blocks

Resizable(node, size) ==
    LET old == BlocksFor(node.size)
        new == BlocksFor(size)
    IN  /\ new < old => ~ (old > VSFS_NUM_DIRECT /\ BadIndirect(node))
        /\ new > old => HasSpace(old, new)

Resized(node, size) ==
    LET old == BlocksFor(node.size)
        new == BlocksFor(size)
    IN  IF new = old THEN SameBlocks(node, size)
        ELSE IF new < old THEN Shrunk(node, size)
        ELSE Grown(node, size)

\* Nothing keeps the block numbers of a file within its indirect block, and
\* nothing within magic and size when they are written over the superblock.
Overruns(node, size) ==
    LET old == BlocksFor(node.size)
        new == BlocksFor(size)
    IN  \/ new > VSFS_NUM_DIRECT + BLOCK_SIZE
        \/ /\ node.indirect = 0 /\ ~ NeedsIndirect(old, new)
           /\ new > VSFS_NUM_DIRECT + MAGIC_AND_SIZE

\* The blocks a result r takes are cleared, those of the file system too.
TakesOwn(r) == (r.dbmap \ dbmap) \cap FormattedDbmap # {}

\* The numbers of the blocks a file gives up are asserted to be in the image.
GivesUpBlocks(node, size) ==
    DataBlocks(node, BlocksFor(size), BlocksFor(node.size)) \subseteq Blocks

\* Makes r, a result of the operators above, the new state of inode i.
Install(i, r) ==
    /\ itable' = [itable EXCEPT ![i] = r.node]
    /\ image' = r.image
    /\ dbmap' = r.dbmap
    /\ free_blocks' = r.free
    /\ UNCHANGED <<mounted, free_inodes, ibmap, entries, outcome>>

vsfs_truncate(n, size) ==
    LET i == path_lookup(n)
        node == itable[i]
    IN  /\ Exists(n)
        /\ Resizable(node, size)
        /\ IF ~ GivesUpBlocks(node, size) THEN Stop("aborted")
           ELSE IF Overruns(node, size) \/ TakesOwn(Resized(node, size))
           THEN Stop("overrun")
           ELSE Install(i, Resized(node, size))

-----------------------------------------------------------------------------
(* Reading and writing. *)

\* The position in the file of the block that is searched for an offset.
PositionOf_OneFurther(offset) ==
    IF offset = 0 THEN 0 ELSE RoundUp(offset, BLOCK_SIZE)
PositionOf(offset) == IF offset = 0 THEN 0 ELSE RoundUp(offset, BLOCK_SIZE) - 1

\* The search fails for a block behind an indirect block that is none; its
\* callers go on with a block number nobody has set.
CanFind(node, offset) ==
    PositionOf(offset) >= VSFS_NUM_DIRECT => ~ BadIndirect(node)

\* The block of img that vsfs_find_block_by_offset finds.
FoundBlock(node, img, offset) ==
    LET k == PositionOf(offset)
    IN  IF k < VSFS_NUM_DIRECT THEN node.direct[k]
        ELSE img[node.indirect][k - VSFS_NUM_DIRECT]

Copied(img, b, offset, data) ==
    LET start == offset % BLOCK_SIZE
    IN  [img EXCEPT ![b] = [c \in Cells |->
            IF c \in start .. start + Len(data) - 1
            THEN data[c - start + 1] ELSE @[c]]]

\* What a write does before it copies: behind the end of the file it truncates
\* the file to where it will end.
Extended(node, offset, end) ==
    IF offset < node.size
    THEN SameBlocks(node, IF end > node.size THEN end ELSE node.size)
    ELSE Resized(node, end)

vsfs_write(n, offset, data) ==
    LET i == path_lookup(n)
        end == offset + Len(data)
        r == Extended(itable[i], offset, end)
    IN  /\ Exists(n)
        /\ offset < itable[i].size \/ Resizable(itable[i], end)
        /\ IF Overruns(itable[i], end) \/ TakesOwn(r) THEN Stop("overrun")
           ELSE IF ~ CanFind(r.node, offset) THEN Stop("undefined")
           ELSE IF FoundBlock(r.node, r.image, offset) \notin FileBlocks
           THEN Stop("overrun")
           ELSE Install(i, [r EXCEPT !.image =
                    Copied(@, FoundBlock(r.node, @, offset), offset, data)])

\* What vsfs_read puts into its buffer.
vsfs_read(n, offset, size) ==
    LET node == itable[path_lookup(n)]
        block == image[FoundBlock(node, image, offset)]
        count == IF offset + size < node.size THEN size ELSE node.size - offset
    IN  [j \in 1 .. count |-> block[(offset % BLOCK_SIZE) + j - 1]]

\* The names vsfs_readdir lists, the inode whose fields vsfs_getattr returns,
\* and the counts vsfs_statfs does.
vsfs_readdir ==
    {entries[j].name : j \in {k \in Slots : entries[k].ino < num_inodes}}
vsfs_getattr(n) == itable[path_lookup(n)]
vsfs_statfs == [bfree |-> free_blocks, ffree |-> free_inodes]

\* The sequences of bytes a program writes: one value, repeated.
DataOf(length) == {[j \in 1 .. length |-> v] : v \in Values}

Call ==
    /\ outcome = "run"
    /\ mounted
    /\ \E n \in Names :
        \/ vsfs_create(n)
        \/ vsfs_unlink(n)
        \/ \E size \in Sizes : vsfs_truncate(n, size)
        \/ \E w \in Writes : \E data \in DataOf(w[2]) :
                vsfs_write(n, w[1], data)

Ended == outcome # "run" /\ UNCHANGED vars

Next ==
    \/ Call
    \/ \E zero \in BOOLEAN : mkfs(zero)
    \/ fs_ctx_init
    \/ fs_ctx_destroy
    \/ Ended

Spec == Init /\ [][Next]_vars

-----------------------------------------------------------------------------
(* Properties. *)

Files == ibmap \ {VSFS_ROOT_INO}

\* Types of the state.
TypeOK ==
    /\ mounted \in BOOLEAN
    /\ free_blocks \in 0 .. num_blocks /\ free_inodes \in 0 .. num_inodes
    /\ ibmap \subseteq Inodes /\ dbmap \subseteq Blocks
    /\ \A i \in Inodes :
        /\ itable[i].blocks \in 0 .. num_blocks /\ itable[i].size \in Nat
        /\ itable[i].direct \in [Direct -> Blocks]
        /\ itable[i].indirect \in Blocks
    /\ entries \in [Slots -> [ino : Inodes \cup {VSFS_INO_MAX},
                              name : Names \cup {"", ".", ".."}]]
    /\ image \in [Blocks -> [Cells -> Int]]
    /\ outcome \in {"run", "overrun", "aborted", "undefined"}

\* free_blocks, kept by hand in every create, truncate, write and unlink, is the
\* number of clear bits of the block bitmap, so a call that asked it finds the
\* blocks it needs.
BlocksCounted == vsfs_statfs.bfree = Cardinality(Blocks \ dbmap)

\* The same of free_inodes and the inode bitmap.
InodesCounted == vsfs_statfs.ffree = Cardinality(Inodes \ ibmap)

\* i_blocks follows i_size through every truncate and write, as the code that
\* computes the one from the other relies on.
BlocksMatchSize ==
    \A i \in Files : itable[i].blocks = BlocksFor(itable[i].size)

\* Every place that holds a block number of a file: its positions, and the
\* pointer to the indirect block.
INDIRECT == -1
Places(i) ==
    {<<i, k>> : k \in 0 .. itable[i].blocks - 1}
        \cup (IF IsBig(itable[i]) THEN {<<i, INDIRECT>>} ELSE {})
BlockIn(p) ==
    IF p[2] = INDIRECT THEN itable[p[1]].indirect
    ELSE BlockAt(itable[p[1]], p[2])
AllPlaces == UNION {Places(i) : i \in Files}

\* A block belongs to one place of one file, is marked as taken, and is not
\* one of the file system's own.
BlocksOwnedOnce ==
    /\ \A p, q \in AllPlaces : p # q => BlockIn(p) # BlockIn(q)
    /\ \A p \in AllPlaces : BlockIn(p) \in dbmap \ FormattedDbmap

\* Every block that is taken can be given back: some file owns it.
NothingLeaked == dbmap \ FormattedDbmap \subseteq {BlockIn(p) : p \in AllPlaces}

\* The entries of files, behind those of "." and "..".
Used == {j \in Slots : j > 1 /\ entries[j].ino # VSFS_INO_MAX}

\* An entry never outlives its file: it names an inode in use, and no two
\* entries share an inode or a name, however inodes and entries are reused.
EntriesNameFiles ==
    /\ \A j \in Used : entries[j].ino \in Files /\ entries[j].name \in Names
    /\ \A j, k \in Used : j # k =>
        /\ entries[j].ino # entries[k].ino
        /\ entries[j].name # entries[k].name

\* An image that mkfs has made can be mounted, whatever programs did with it.
MountsAgain == HasMagic

\* The bytes of a file: byte k of it is in its block k \div BLOCK_SIZE.
Contents(n) ==
    LET node == itable[path_lookup(n)]
    IN  [k \in 1 .. node.size |->
            image[BlockAt(node, (k - 1) \div BLOCK_SIZE)]
                 [(k - 1) % BLOCK_SIZE]]

\* A read returns the bytes of the file that it asks for.
ReadReturnsContents ==
    \A n \in vsfs_readdir \cap Names, r \in Reads :
        LET size == vsfs_getattr(n).size
            end == r[1] + r[2]
        IN  r[1] < size =>
                vsfs_read(n, r[1], r[2]) =
                    SubSeq(Contents(n), r[1] + 1, IF end < size THEN end ELSE size)

Stored == [n \in vsfs_readdir \cap Names |-> Contents(n)]

Store == INSTANCE FileStore WITH
            files <- Stored,
            Offsets <- {w[1] : w \in Writes},
            Data <- UNION {DataOf(w[2]) : w \in Writes},
            Fill <- Int

\* The image behaves as an abstract store of files: a call changes the file it
\* names as it says, and every other file keeps its bytes, whatever blocks
\* moved between them.  A byte that nobody wrote may hold anything.
ImplementsFileStore == Store!FSSpec
=============================================================================
