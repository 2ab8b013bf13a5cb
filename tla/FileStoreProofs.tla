-------------------------- MODULE FileStoreProofs --------------------------
(***************************************************************************)
(* Proofs about what programs see of Vsfs: a read returns the bytes of the *)
(* file, and the image implements the abstract FileStore, step by step,    *)
(* from the bijection of VsfsProofs between places of files and blocks.    *)
(***************************************************************************)
EXTENDS VsfsProofs, SequenceTheorems

\* No range of a call starts where a block starts, but for the first: the code
\* looks for such an offset in the block before.
OffBlockStarts(ranges) ==
    \A w \in ranges : w[1] = 0 \/ w[1] % BLOCK_SIZE # 0

\* The bytes of a file whose inode is node, when img is in the blocks.
ByteOf(node, img, k) ==
    img[At(node, img, (k - 1) \div BLOCK_SIZE)][(k - 1) % BLOCK_SIZE]
Bytes(node, img) == [k \in 1 .. node.size |-> ByteOf(node, img, k)]

\* The names programs see.
Listed == vsfs_readdir \cap Names

-----------------------------------------------------------------------------

\* The block a byte is in, and its place there.
LEMMA PlaceOfByte ==
    ASSUME NEW size \in Nat, NEW k \in 1 .. size
    PROVE  /\ (k - 1) \div BLOCK_SIZE \in 0 .. BlocksFor(size) - 1
           /\ (k - 1) % BLOCK_SIZE \in Cells
<1>1. size \in Nat \ {0} /\ k - 1 \in Nat /\ size - 1 \in Nat /\ k - 1 <= size - 1
  OBVIOUS
<1>2. /\ (k - 1) \div BLOCK_SIZE <= (size - 1) \div BLOCK_SIZE
      /\ (k - 1) \div BLOCK_SIZE \in Nat /\ (k - 1) % BLOCK_SIZE \in Cells
  BY <1>1, DivisionOrder, Division
<1>3. BlocksFor(size) = (size - 1) \div BLOCK_SIZE + 1 /\ (size - 1) \div BLOCK_SIZE \in Nat
  BY <1>1, LastBlock
<1> QED BY <1>2, <1>3

\* The bytes of a range that lies in one block.
LEMMA PlaceInRange ==
    ASSUME NEW w \in Writes \cup Reads, OffBlockStarts({w})
    PROVE  /\ w[1] \in Nat /\ w[2] \in Nat \ {0}
           /\ PositionOf(w[1]) = w[1] \div BLOCK_SIZE
           /\ w[1] \div BLOCK_SIZE \in Nat
           /\ w[1] % BLOCK_SIZE \in Nat
           /\ \A k \in w[1] + 1 .. w[1] + w[2] :
                /\ (k - 1) \div BLOCK_SIZE = w[1] \div BLOCK_SIZE
                /\ (k - 1) % BLOCK_SIZE = (w[1] % BLOCK_SIZE) + (k - 1 - w[1])
<1>1. /\ w[1] \in Nat /\ w[2] \in Nat \ {0}
      /\ w[1] \div BLOCK_SIZE = (w[1] + w[2] - 1) \div BLOCK_SIZE
  BY CallsAssumption, LayoutFacts
<1>2. w[1] \div BLOCK_SIZE \in Nat /\ w[1] % BLOCK_SIZE \in Nat
  BY <1>1, Division DEF Cells
<1>3. PositionOf(w[1]) = w[1] \div BLOCK_SIZE
  <2>1. CASE w[1] = 0
    <3>1. 0 \div BLOCK_SIZE = 0
      <4>1. 0 \in Cells /\ 0 = BLOCK_SIZE * 0 + 0
        BY LayoutFacts DEF Cells
      <4> QED BY <4>1, DivisionIs
    <3> QED BY <2>1, <3>1 DEF PositionOf
  <2>2. CASE w[1] # 0
    <3>1. w[1] % BLOCK_SIZE # 0
      BY <2>2 DEF OffBlockStarts
    <3> QED BY <1>1, <1>2, <2>2, <3>1 DEF PositionOf, RoundUp
  <2> QED BY <2>1, <2>2
<1>4. ASSUME NEW k \in w[1] + 1 .. w[1] + w[2]
      PROVE  /\ (k - 1) \div BLOCK_SIZE = w[1] \div BLOCK_SIZE
             /\ (k - 1) % BLOCK_SIZE = (w[1] % BLOCK_SIZE) + (k - 1 - w[1])
  <2> DEFINE a == w[1]
             l == w[1] + w[2] - 1
             m == k - 1
  <2>1. a \in Nat /\ l \in Nat /\ m \in Nat /\ a <= m /\ m <= l
    BY <1>1
  <2>2. a \div BLOCK_SIZE = l \div BLOCK_SIZE
    BY <1>1
  <2> HIDE DEF a, l, m
  <2>3. a \div BLOCK_SIZE <= m \div BLOCK_SIZE /\ m \div BLOCK_SIZE <= l \div BLOCK_SIZE
    BY <2>1, DivisionOrder
  <2>4. /\ a \div BLOCK_SIZE \in Nat /\ m \div BLOCK_SIZE \in Nat /\ l \div BLOCK_SIZE \in Nat
        /\ a % BLOCK_SIZE \in Nat /\ m % BLOCK_SIZE \in Nat
        /\ a = BLOCK_SIZE * (a \div BLOCK_SIZE) + (a % BLOCK_SIZE)
        /\ m = BLOCK_SIZE * (m \div BLOCK_SIZE) + (m % BLOCK_SIZE)
    BY <2>1, Division DEF Cells
  <2>5. m \div BLOCK_SIZE = a \div BLOCK_SIZE
    BY <2>2, <2>3, <2>4
  <2>6. m % BLOCK_SIZE = (a % BLOCK_SIZE) + (m - a)
    <3>1. ASSUME NEW x \in Int, NEW r \in Nat, NEW s \in Nat, NEW y \in Nat, NEW z \in Nat,
                 y = x + r, z = x + s
          PROVE  s = r + (z - y)
      BY <3>1
    <3>2. BLOCK_SIZE * (a \div BLOCK_SIZE) \in Int
      BY <2>4, LayoutFacts
    <3> QED BY <2>1, <2>4, <2>5, <3>1, <3>2
  <2> QED BY <2>5, <2>6 DEF a, m
<1> QED BY <1>1, <1>2, <1>3, <1>4

\* A file's bytes are a sequence of numbers, kept in blocks of the image.
LEMMA BytesFacts ==
    ASSUME NEW tbl \in [Inodes -> InodeTypes], NEW img \in ImageTypes, NEW dbm,
           Owned(Files, tbl, img, dbm), Files \subseteq Inodes,
           NEW j \in Files, FileOK(tbl[j])
    PROVE  /\ tbl[j].size \in Nat
           /\ Bytes(tbl[j], img) \in Seq(Int)
           /\ Len(Bytes(tbl[j], img)) = tbl[j].size
           /\ \A k \in 1 .. tbl[j].size :
                /\ Bytes(tbl[j], img)[k] = ByteOf(tbl[j], img, k)
                /\ ByteOf(tbl[j], img, k) \in Int
                /\ (k - 1) \div BLOCK_SIZE \in 0 .. tbl[j].blocks - 1
                /\ (k - 1) \div BLOCK_SIZE \in Held(Files, tbl, j)
                /\ At(tbl[j], img, (k - 1) \div BLOCK_SIZE) \in Blocks
                /\ (k - 1) % BLOCK_SIZE \in Cells
<1>1. j \in Inodes /\ tbl[j].size \in Nat /\ tbl[j].blocks = BlocksFor(tbl[j].size)
  BY DEF InodeTypes, FileOK
<1>2. ASSUME NEW k \in 1 .. tbl[j].size
      PROVE  /\ ByteOf(tbl[j], img, k) \in Int
             /\ (k - 1) \div BLOCK_SIZE \in 0 .. tbl[j].blocks - 1
             /\ (k - 1) \div BLOCK_SIZE \in Held(Files, tbl, j)
             /\ At(tbl[j], img, (k - 1) \div BLOCK_SIZE) \in Blocks
             /\ (k - 1) % BLOCK_SIZE \in Cells
  <2> DEFINE p == (k - 1) \div BLOCK_SIZE
             c == (k - 1) % BLOCK_SIZE
  <2>1. p \in 0 .. tbl[j].blocks - 1 /\ c \in Cells
    BY <1>1, PlaceOfByte
  <2> HIDE DEF p, c
  <2>2. p \in Held(Files, tbl, j)
    BY <2>1 DEF Held, Positions
  <2>3. At(tbl[j], img, p) \in Blocks
    BY <1>1, <2>2 DEF Owned
  <2>4. img[At(tbl[j], img, p)][c] \in Int
    BY <2>1, <2>3 DEF ImageTypes
  <2> QED BY <2>1, <2>2, <2>3, <2>4 DEF p, c, ByteOf
<1>3. Bytes(tbl[j], img) = [k \in 1 .. tbl[j].size |-> ByteOf(tbl[j], img, k)]
  BY DEF Bytes
<1> HIDE DEF ByteOf
<1>4. /\ Bytes(tbl[j], img) \in Seq(Int) /\ Len(Bytes(tbl[j], img)) = tbl[j].size
      /\ \A k \in 1 .. tbl[j].size : Bytes(tbl[j], img)[k] = ByteOf(tbl[j], img, k)
  BY <1>1, <1>2, <1>3
<1> QED BY <1>1, <1>2, <1>4

\* Those of a state.
LEMMA StateBytes ==
    ASSUME BlockInv, DirectoryInv, NEW j \in Files
    PROVE  /\ j \in Inodes /\ itable[j].size \in Nat
           /\ Bytes(itable[j], image) \in Seq(Int)
           /\ Len(Bytes(itable[j], image)) = itable[j].size
           /\ \A k \in 1 .. itable[j].size :
                /\ Bytes(itable[j], image)[k] = ByteOf(itable[j], image, k)
                /\ (k - 1) \div BLOCK_SIZE \in 0 .. itable[j].blocks - 1
<1>1. Files \subseteq Inodes
  BY FileTypes
<1>2. /\ itable \in [Inodes -> InodeTypes] /\ image \in ImageTypes
      /\ Owned(Files, itable, image, dbmap) /\ FileOK(itable[j])
  BY DEF BlockInv
<1> QED BY <1>1, <1>2, BytesFacts

\* The names that are listed are those of files, each of its own.
LEMMA ListedFacts ==
    ASSUME DirectoryInv
    PROVE  /\ \A n : n \in Listed <=> n \in Names /\ Exists(n)
           /\ \A n \in Listed : path_lookup(n) \in Files /\ path_lookup(n) \in Inodes
           /\ \A n, m \in Listed : path_lookup(n) = path_lookup(m) => n = m
<1>1. ASSUME NEW n
      PROVE  n \in Listed <=> n \in Names /\ Exists(n)
  BY DEF Listed, vsfs_readdir, Exists, EntriesOf
<1>2. \A n \in Listed : path_lookup(n) \in Files /\ path_lookup(n) \in Inodes
  BY <1>1, LookupFacts
<1>3. ASSUME NEW n \in Listed
      PROVE  /\ First(EntriesOf(n)) \in Used
             /\ entries[First(EntriesOf(n))].name = n
  <2> DEFINE f == First(EntriesOf(n))
  <2>1. f \in Slots /\ entries[f].ino < num_inodes /\ entries[f].name = n
    <3>1. f \in EntriesOf(n)
      BY <1>1, ImageFacts, FirstFacts DEF EntriesOf, Exists
    <3> QED BY <3>1 DEF EntriesOf
  <2> HIDE DEF f
  <2>2. f # 0 /\ f # 1
    BY <1>1, <2>1, NamesAssumption DEF DirectoryInv, RootStays
  <2>3. f \in Used
    BY <2>1, <2>2, ImageFacts DEF Used, Slots
  <2> QED BY <2>1, <2>3 DEF f
<1>4. \A n, m \in Listed : path_lookup(n) = path_lookup(m) => n = m
  BY <1>3 DEF path_lookup, DirectoryInv, EntriesNameFiles
<1> QED BY <1>1, <1>2, <1>4

\* What the abstract store sees of a state.
ListedBytes == [n \in Listed |-> Bytes(itable[path_lookup(n)], image)]

\* The stored files are the bytes of the listed ones, each a sequence.
LEMMA StoredBytes == BlockInv /\ DirectoryInv => Stored = ListedBytes
<1> SUFFICES ASSUME BlockInv, DirectoryInv, NEW n \in Listed
             PROVE  Contents(n) = Bytes(itable[path_lookup(n)], image)
  BY DEF Stored, Listed, ListedBytes
<1> DEFINE node == itable[path_lookup(n)]
<1>1. node.size \in Nat
  BY ListedFacts, StateBytes
<1>2. ASSUME NEW k \in 1 .. node.size
      PROVE  BlockAt(node, (k - 1) \div BLOCK_SIZE) = At(node, image, (k - 1) \div BLOCK_SIZE)
  <2>1. k - 1 \in Nat
    BY <1>1
  <2>2. (k - 1) \div BLOCK_SIZE \in Nat
    BY <2>1, Division
  <2> QED BY <2>2 DEF BlockAt, At, INDIRECT
<1>3. Contents(n) = [k \in 1 .. node.size |->
            image[BlockAt(node, (k - 1) \div BLOCK_SIZE)][(k - 1) % BLOCK_SIZE]]
  BY DEF Contents
<1> HIDE DEF node
<1>4. Contents(n) = Bytes(node, image)
  BY <1>2, <1>3 DEF Bytes, ByteOf
<1> QED BY <1>4 DEF node

-----------------------------------------------------------------------------
(* Reading. *)

\* A read returns the bytes of the file, off the boundary and off the starts of
\* blocks, for every image and program.
THEOREM ReadsCorrect ==
    OffBoundary /\ OffBlockStarts(Reads) => (Spec => []ReadReturnsContents)
<1> SUFFICES ASSUME OffBoundary, OffBlockStarts(Reads)
             PROVE  Spec => []ReadReturnsContents
  OBVIOUS
<1>1. BlockInv /\ DirectoryInv => ReadReturnsContents
  <2> SUFFICES ASSUME BlockInv, DirectoryInv, NEW n \in Listed, NEW r \in Reads,
                      r[1] < itable[path_lookup(n)].size
               PROVE  vsfs_read(n, r[1], r[2]) =
                        SubSeq(Contents(n), r[1] + 1,
                               IF r[1] + r[2] < itable[path_lookup(n)].size THEN r[1] + r[2]
                               ELSE itable[path_lookup(n)].size)
    BY DEF ReadReturnsContents, Listed, vsfs_getattr
  <2> DEFINE node == itable[path_lookup(n)]
             a == r[1]
             end == IF a + r[2] < node.size THEN a + r[2] ELSE node.size
             count == IF a + r[2] < node.size THEN r[2] ELSE node.size - a
  <2>1. /\ node.size \in Nat /\ Bytes(node, image) \in Seq(Int)
        /\ Len(Bytes(node, image)) = node.size
        /\ \A k \in 1 .. node.size :
                Bytes(node, image)[k] = ByteOf(node, image, k)
    BY ListedFacts, StateBytes
  <2>2. Contents(n) = Bytes(node, image)
    BY StoredBytes DEF Stored, Listed, ListedBytes
  <2>3. /\ a \in Nat /\ r[2] \in Nat \ {0} /\ PositionOf(a) = a \div BLOCK_SIZE
        /\ a \div BLOCK_SIZE \in Nat /\ a % BLOCK_SIZE \in Nat
        /\ \A k \in a + 1 .. a + r[2] :
                /\ (k - 1) \div BLOCK_SIZE = a \div BLOCK_SIZE
                /\ (k - 1) % BLOCK_SIZE = (a % BLOCK_SIZE) + (k - 1 - a)
    BY PlaceInRange DEF OffBlockStarts
  <2>4. vsfs_read(n, a, r[2]) =
            [j \in 1 .. count |->
                image[FoundBlock(node, image, a)][(a % BLOCK_SIZE) + j - 1]]
    BY DEF vsfs_read
  <2> HIDE DEF node
  <2>5. FoundBlock(node, image, a) = At(node, image, a \div BLOCK_SIZE)
    BY <2>3 DEF FoundBlock, At, INDIRECT
  <2>6. count \in Nat /\ end = a + count /\ end <= node.size /\ a < node.size
            /\ a + count <= a + r[2]
    <3>1. a < node.size
      BY DEF node
    <3>2. node.size \in Nat /\ a \in Nat /\ r[2] \in Nat
      BY <2>1, <2>3
    <3> QED BY <3>1, <3>2
  <2> HIDE DEF a, end, count
  <2>7. ASSUME NEW j \in 1 .. count
        PROVE  Bytes(node, image)[a + j]
                    = image[FoundBlock(node, image, a)][(a % BLOCK_SIZE) + j - 1]
    <3>1. a + j \in 1 .. node.size /\ a + j \in a + 1 .. a + r[2]
      <4>1. ASSUME NEW x \in Nat, NEW c \in Nat, NEW s \in Nat, NEW l \in Nat,
                   x + c <= s, x + c <= x + l, NEW y \in 1 .. c
            PROVE  x + y \in 1 .. s /\ x + y \in x + 1 .. x + l
        BY <4>1
      <4>2. /\ a \in Nat /\ count \in Nat /\ node.size \in Nat /\ r[2] \in Nat
            /\ a + count <= node.size /\ a + count <= a + r[2]
        BY <2>1, <2>3, <2>6
      <4> QED BY <4>1, <4>2
    <3>2. Bytes(node, image)[a + j] = ByteOf(node, image, a + j)
      BY <2>1, <3>1
    <3>3. (a + j - 1) \div BLOCK_SIZE = a \div BLOCK_SIZE
      BY <2>3, <3>1
    <3>4. (a + j - 1) % BLOCK_SIZE = (a % BLOCK_SIZE) + (a + j - 1 - a)
      BY <2>3, <3>1
    <3>5. (a % BLOCK_SIZE) + (a + j - 1 - a) = (a % BLOCK_SIZE) + j - 1
      <4>1. ASSUME NEW m \in Nat, NEW x \in Nat, NEW y \in Nat
            PROVE  m + (x + y - 1 - x) = m + y - 1
        BY <4>1
      <4>2. a \in Nat /\ j \in Nat /\ a % BLOCK_SIZE \in Nat
        BY <2>3, <2>6
      <4> QED BY <4>1, <4>2
    <3>6. ByteOf(node, image, a + j)
            = image[At(node, image, (a + j - 1) \div BLOCK_SIZE)][(a + j - 1) % BLOCK_SIZE]
      BY <2>3, <2>6, <3>1 DEF ByteOf
    <3>7. (a + j - 1) % BLOCK_SIZE = (a % BLOCK_SIZE) + j - 1
      BY <3>4, <3>5
    <3>8. ByteOf(node, image, a + j)
            = image[At(node, image, a \div BLOCK_SIZE)][(a % BLOCK_SIZE) + j - 1]
      BY <3>3, <3>6, <3>7
    <3> QED BY <2>5, <3>2, <3>8
  <2>8. /\ SubSeq(Bytes(node, image), a + 1, end) \in Seq(Int)
        /\ Len(SubSeq(Bytes(node, image), a + 1, end)) = count
        /\ \A j \in 1 .. count :
                SubSeq(Bytes(node, image), a + 1, end)[j] = Bytes(node, image)[a + j]
    <3>1. /\ a + 1 \in Int /\ end \in Int
          /\ \A k \in a + 1 .. end : Bytes(node, image)[k] \in Int
      BY <2>1, <2>3, <2>6
    <3>2. /\ SubSeq(Bytes(node, image), a + 1, end) \in Seq(Int)
          /\ Len(SubSeq(Bytes(node, image), a + 1, end))
                = IF a + 1 <= end THEN end - (a + 1) + 1 ELSE 0
          /\ \A j \in 1 .. end - (a + 1) + 1 :
                SubSeq(Bytes(node, image), a + 1, end)[j] = Bytes(node, image)[(a + 1) + j - 1]
      BY <3>1, SubSeqProperties
    <3>3. end - (a + 1) + 1 = count /\ (a + 1 <= end <=> count # 0)
      BY <2>3, <2>6
    <3>4. \A j \in 1 .. count : (a + 1) + j - 1 = a + j
      BY <2>3, <2>6
    <3> QED BY <2>6, <3>2, <3>3, <3>4
  <2>9. SubSeq(Bytes(node, image), a + 1, end)
            = [j \in 1 .. count |-> SubSeq(Bytes(node, image), a + 1, end)[j]]
    BY <2>8
  <2>10. vsfs_read(n, a, r[2]) = SubSeq(Bytes(node, image), a + 1, end)
    <3> DEFINE cell(j) == image[FoundBlock(node, image, a)][(a % BLOCK_SIZE) + j - 1]
               part(j) == SubSeq(Bytes(node, image), a + 1, end)[j]
    <3>1. \A j \in 1 .. count : part(j) = cell(j)
      BY <2>7, <2>8
    <3>2. vsfs_read(n, a, r[2]) = [j \in 1 .. count |-> cell(j)]
      BY <2>4
    <3>3. SubSeq(Bytes(node, image), a + 1, end) = [j \in 1 .. count |-> part(j)]
      BY <2>9
    <3> HIDE DEF cell, part
    <3>4. [j \in 1 .. count |-> part(j)] = [j \in 1 .. count |-> cell(j)]
      BY <3>1
    <3> QED BY <3>2, <3>3, <3>4
  <2> QED BY <2>2, <2>10 DEF a, end, node
<1> QED BY <1>1, BlockInvariance, DirectoryInvariance, PTL

-----------------------------------------------------------------------------
(* What the calls make of the bytes. *)

\* Changing the size of a file keeps the bytes it had before, as far as it still
\* has them, and those of the other files.
LEMMA KeptBytes ==
    ASSUME BlockInv, DirectoryInv, NEW i \in Files, NEW r, Good(i, r), Kept(i, r)
    PROVE  /\ r.node.size \in Nat
           /\ Bytes(r.node, r.image) \in Seq(Int)
           /\ Len(Bytes(r.node, r.image)) = r.node.size
           /\ \A k \in 1 .. r.node.size :
                /\ Bytes(r.node, r.image)[k] = ByteOf(r.node, r.image, k)
                /\ ByteOf(r.node, r.image, k) \in Int
                /\ k <= itable[i].size =>
                        ByteOf(r.node, r.image, k) = Bytes(itable[i], image)[k]
           /\ \A j \in Files \ {i} : Bytes(itable[j], r.image) = Bytes(itable[j], image)
<1> DEFINE tbl == [itable EXCEPT ![i] = r.node]
<1>1. /\ i \in Inodes /\ Files \subseteq Inodes /\ tbl \in [Inodes -> InodeTypes]
      /\ tbl[i] = r.node /\ \A j \in Inodes \ {i} : tbl[j] = itable[j]
      /\ r.image \in ImageTypes /\ Owned(Files, tbl, r.image, r.dbmap)
      /\ FileOK(tbl[i])
  BY FileTypes DEF Good
<1>2. \A j \in Files : \A k \in Nat :
            k < itable[j].blocks /\ k < tbl[j].blocks =>
                /\ At(tbl[j], r.image, k) = At(itable[j], image, k)
                /\ r.image[At(itable[j], image, k)] = image[At(itable[j], image, k)]
  BY DEF Kept
<1> HIDE DEF tbl
<1>3. ASSUME NEW j \in Files, NEW k \in 1 .. itable[j].size,
             (k - 1) \div BLOCK_SIZE \in 0 .. tbl[j].blocks - 1,
             tbl[j].blocks \in Nat
      PROVE  ByteOf(tbl[j], r.image, k) = ByteOf(itable[j], image, k)
  <2> DEFINE p == (k - 1) \div BLOCK_SIZE
  <2>1. p \in 0 .. itable[j].blocks - 1 /\ itable[j].blocks \in Nat
    BY StateBytes, FileTypes
  <2>2. p \in 0 .. tbl[j].blocks - 1
    BY <1>3
  <2> HIDE DEF p
  <2>3. p \in Nat /\ p < itable[j].blocks /\ p < tbl[j].blocks
    BY <1>3, <2>1, <2>2
  <2>4. /\ At(tbl[j], r.image, p) = At(itable[j], image, p)
        /\ r.image[At(itable[j], image, p)] = image[At(itable[j], image, p)]
    BY <1>2, <2>3
  <2> QED BY <2>4 DEF ByteOf, p
<1>4. /\ tbl[i].size \in Nat
      /\ Bytes(tbl[i], r.image) \in Seq(Int)
      /\ Len(Bytes(tbl[i], r.image)) = tbl[i].size
      /\ \A k \in 1 .. tbl[i].size :
            /\ Bytes(tbl[i], r.image)[k] = ByteOf(tbl[i], r.image, k)
            /\ ByteOf(tbl[i], r.image, k) \in Int
            /\ (k - 1) \div BLOCK_SIZE \in 0 .. tbl[i].blocks - 1
  BY <1>1, BytesFacts
<1>5. ASSUME NEW k \in 1 .. tbl[i].size, k <= itable[i].size
      PROVE  ByteOf(tbl[i], r.image, k) = Bytes(itable[i], image)[k]
  <2>1. k \in 1 .. itable[i].size /\ itable[i].size \in Nat
    BY <1>4, <1>5, StateBytes
  <2>2. tbl[i].blocks \in Nat
    BY <1>1 DEF InodeTypes
  <2> QED BY <1>3, <1>4, <2>1, <2>2, StateBytes
<1>6. ASSUME NEW j \in Files \ {i}
      PROVE  Bytes(itable[j], r.image) = Bytes(itable[j], image)
  <2>1. ASSUME NEW k \in 1 .. itable[j].size
        PROVE  ByteOf(itable[j], r.image, k) = ByteOf(itable[j], image, k)
    <3>1. tbl[j] = itable[j] /\ itable[j].blocks \in Nat
      BY <1>1, FileTypes
    <3>2. (k - 1) \div BLOCK_SIZE \in 0 .. itable[j].blocks - 1
      BY StateBytes
    <3> QED BY <1>3, <3>1, <3>2
  <2> QED BY <2>1 DEF Bytes
<1> QED BY <1>1, <1>4, <1>5, <1>6

\* Copying bytes into the block of a file that their offset is in changes those
\* bytes of that file, and nothing else.
LEMMA CopiedBytes ==
    ASSUME BlockInv, DirectoryInv, NEW i \in Files, NEW r, Good(i, r),
           NEW w \in Writes, OffBlockStarts({w}), NEW data \in DataOf(w[2]),
           NEW k0, k0 = PositionOf(w[1]), k0 \in 0 .. r.node.blocks - 1,
           NEW r2, r2.node = r.node, r2.dbmap = r.dbmap, r2.free = r.free,
           r2.image = Copied(r.image, At(r.node, r.image, k0), w[1], data)
    PROVE  /\ \A k \in 1 .. r.node.size :
                ByteOf(r.node, r2.image, k) =
                    IF k \in w[1] + 1 .. w[1] + w[2] THEN data[k - w[1]]
                    ELSE ByteOf(r.node, r.image, k)
           /\ \A j \in Files \ {i} : Bytes(itable[j], r2.image) = Bytes(itable[j], r.image)
<1> DEFINE tbl == [itable EXCEPT ![i] = r.node]
           b == At(r.node, r.image, k0)
           start == w[1] % BLOCK_SIZE
<1>1. /\ i \in Inodes /\ Files \subseteq Inodes /\ tbl \in [Inodes -> InodeTypes]
      /\ tbl[i] = r.node /\ \A j \in Inodes \ {i} : tbl[j] = itable[j]
      /\ r.image \in ImageTypes /\ Owned(Files, tbl, r.image, r.dbmap)
      /\ \A j \in Files : FileOK(tbl[j])
  BY FileTypes DEF Good, BlockInv
<1>2. /\ data \in Seq(Int) /\ Len(data) = w[2]
      /\ w[1] \in Nat /\ w[2] \in Nat \ {0} /\ k0 = w[1] \div BLOCK_SIZE
      /\ start \in Nat /\ k0 \in Nat
      /\ \A k \in w[1] + 1 .. w[1] + w[2] : (k - 1) \div BLOCK_SIZE = k0
  BY DataFacts, PlaceInRange
<1>3. /\ b \in Blocks
      /\ \A c \in Blocks : c # b => r2.image[c] = r.image[c]
      /\ \A j \in Inodes : KeepsBlocks(Files, tbl, r.image, Files, tbl, r2.image, j)
  BY <1>2, CopiedGood
<1>4. \A c \in Cells :
            r2.image[b][c] = IF c \in start .. start + Len(data) - 1
                             THEN data[c - start + 1] ELSE r.image[b][c]
  BY <1>1, <1>3 DEF Copied, ImageTypes
<1>5. k0 \in Held(Files, tbl, i)
  BY <1>1 DEF Held, Positions
<1> HIDE DEF tbl, b, start
<1>6. ASSUME NEW j \in Files, NEW k \in 1 .. tbl[j].size
      PROVE  ByteOf(tbl[j], r2.image, k) =
                IF j = i /\ k \in w[1] + 1 .. w[1] + w[2] THEN data[k - w[1]]
                ELSE ByteOf(tbl[j], r.image, k)
  <2> DEFINE p == (k - 1) \div BLOCK_SIZE
             c == (k - 1) % BLOCK_SIZE
             d == At(tbl[j], r.image, p)
  <2>1. /\ tbl[j].size \in Nat /\ p \in Held(Files, tbl, j) /\ d \in Blocks /\ c \in Cells
    BY <1>1, BytesFacts
  <2>2. At(tbl[j], r2.image, p) = d
    BY <1>1, <1>3, <2>1 DEF KeepsBlocks
  <2>3. /\ ByteOf(tbl[j], r2.image, k) = r2.image[d][c]
        /\ ByteOf(tbl[j], r.image, k) = r.image[d][c]
    BY <2>2 DEF ByteOf
  <2>4. d = b <=> j = i /\ p = k0
    <3>1. j \in Inodes /\ b = At(tbl[i], r.image, k0)
      BY <1>1 DEF b
    <3> HIDE DEF p
    <3>2. At(tbl[j], r.image, p) = At(tbl[i], r.image, k0) => j = i /\ p = k0
      BY <1>1, <1>5, <2>1, <3>1 DEF Owned
    <3> QED BY <3>1, <3>2
  <2>5. CASE d # b
    <3>1. ~ (j = i /\ k \in w[1] + 1 .. w[1] + w[2])
      BY <1>2, <2>4, <2>5
    <3> HIDE DEF d, c
    <3> QED BY <1>3, <2>1, <2>3, <2>5, <3>1
  <2>6. CASE d = b
    <3>1. j = i /\ p = k0
      BY <2>4, <2>6
    <3>2. k \in Nat /\ k - 1 \in Nat /\ c \in Nat /\ p \in Nat
      <4>1. k \in Nat /\ k - 1 \in Nat
        BY <2>1
      <4> QED BY <4>1, Division DEF Cells
    <3>3. c - start = k - 1 - w[1]
      <4>1. k - 1 = BLOCK_SIZE * p + c
        BY <3>2, Division
      <4>2. w[1] = BLOCK_SIZE * k0 + start
        BY <1>2, Division DEF start
      <4> HIDE DEF p, c
      <4>3. BLOCK_SIZE * k0 \in Int
        BY <1>2, LayoutFacts
      <4>4. ASSUME NEW x \in Int, NEW y \in Nat, NEW z \in Nat, NEW u \in Int, NEW v \in Int,
                   u = x + y, v = x + z
            PROVE  y - z = u - v
        BY <4>4
      <4>5. k - 1 = BLOCK_SIZE * k0 + c
        BY <3>1, <4>1
      <4>6. c \in Nat /\ start \in Nat /\ k - 1 \in Int /\ w[1] \in Int
        BY <1>2, <3>2
      <4> HIDE DEF start
      <4> QED BY <4>2, <4>3, <4>4, <4>5, <4>6
    <3> HIDE DEF p, c, d
    <3>4. /\ c \in Int /\ start \in Int /\ k \in Int /\ w[1] \in Int /\ w[2] \in Int
          /\ Len(data) = w[2]
      BY <1>2, <3>2
    <3>5. c \in start .. start + w[2] - 1 <=> k \in w[1] + 1 .. w[1] + w[2]
      <4>1. c - start = k - 1 - w[1]
        BY <3>3
      <4>2. c >= start <=> k >= w[1] + 1
        BY <3>4, <4>1
      <4>3. c <= start + w[2] - 1 <=> k <= w[1] + w[2]
        BY <3>4, <4>1
      <4> HIDE DEF start
      <4> QED BY <3>4, <4>2, <4>3
    <3>6. c - start + 1 = k - w[1]
      <4>1. ASSUME NEW y \in Int, NEW z \in Int, NEW u \in Int, NEW v \in Int,
                   y - z = u - 1 - v
            PROVE  y - z + 1 = u - v
        BY <4>1
      <4>2. c - start = k - 1 - w[1]
        BY <3>3
      <4> HIDE DEF start
      <4> QED BY <3>4, <4>1, <4>2
    <3> QED BY <1>4, <2>1, <2>3, <2>6, <3>1, <3>4, <3>5, <3>6
  <2> QED BY <2>5, <2>6
<1>7. ASSUME NEW j \in Files \ {i}
      PROVE  Bytes(itable[j], r2.image) = Bytes(itable[j], r.image)
  <2>1. tbl[j] = itable[j]
    BY <1>1
  <2>2. \A k \in 1 .. itable[j].size :
            ByteOf(itable[j], r2.image, k) = ByteOf(itable[j], r.image, k)
    BY <1>6, <2>1
  <2> QED BY <2>2 DEF Bytes
<1> QED BY <1>1, <1>6, <1>7

\* What a call that leaves the directory alone makes of the store.
LEMMA InstallStored ==
    ASSUME BlockInv, DirectoryInv, BlockInv', DirectoryInv',
           NEW n \in Names, Exists(n), NEW r, Good(path_lookup(n), r),
           Install(path_lookup(n), r),
           \A j \in Files \ {path_lookup(n)} :
                Bytes(itable[j], r.image) = Bytes(itable[j], image)
    PROVE  /\ Store!OnlyChanges(n)
           /\ Stored[n] = Bytes(itable[path_lookup(n)], image)
           /\ Stored'[n] = Bytes(r.node, r.image)
<1> DEFINE i == path_lookup(n)
<1>1. /\ itable' = [itable EXCEPT ![i] = r.node] /\ image' = r.image /\ entries' = entries
  BY DEF Install
<1>2. /\ n \in Listed /\ i \in Files
      /\ \A m \in Listed : path_lookup(m) \in Files /\ path_lookup(m) \in Inodes
      /\ \A m \in Listed : path_lookup(m) = i => m = n
  BY ListedFacts
<1> HIDE DEF i
<1>3. /\ itable'[i] = r.node /\ \A j \in Inodes \ {i} : itable'[j] = itable[j]
  BY <1>1, <1>2, FileTypes DEF Good, i
<1>4. Stored = [m \in Listed |-> Bytes(itable[path_lookup(m)], image)]
  BY StoredBytes DEF ListedBytes
<1>5. Stored' = [m \in Listed |-> Bytes(itable'[path_lookup(m)], image')]
  <2>1. (BlockInv /\ DirectoryInv => Stored = ListedBytes)'
    BY StoredBytes, PTL
  <2>2. Listed' = Listed
    BY <1>1 DEF Listed, vsfs_readdir
  <2>3. \A m : First(EntriesOf(m))' = First(EntriesOf(m))
    BY <1>1 DEF EntriesOf
  <2>4. \A m : path_lookup(m)' = path_lookup(m)
    BY <1>1, <2>3 DEF path_lookup
  <2> HIDE DEF Stored, Listed, Bytes, path_lookup
  <2> QED BY <2>1, <2>2, <2>4 DEF ListedBytes
<1>6. /\ Stored[n] = Bytes(itable[i], image)
      /\ Stored'[n] = Bytes(r.node, r.image)
  BY <1>1, <1>2, <1>3, <1>4, <1>5 DEF i
<1>7. \A m \in Listed \ {n} : Stored'[m] = Stored[m]
  <2> SUFFICES ASSUME NEW m \in Listed \ {n} PROVE Stored'[m] = Stored[m]
    OBVIOUS
  <2>1. path_lookup(m) \in Files \ {i} /\ itable'[path_lookup(m)] = itable[path_lookup(m)]
    BY <1>2, <1>3
  <2>2. Bytes(itable[path_lookup(m)], image') = Bytes(itable[path_lookup(m)], image)
    BY <1>1, <2>1 DEF i
  <2> QED BY <1>4, <1>5, <2>1, <2>2
<1>8. DOMAIN Stored = Listed /\ DOMAIN Stored' = Listed
  BY <1>4, <1>5
<1> HIDE DEF Stored
<1>9. Store!OnlyChanges(n)
  BY <1>2, <1>7, <1>8 DEF Store!OnlyChanges, Store!Exists
<1> QED BY <1>6, <1>9 DEF i

\* A call that stops the model leaves what programs see.
LEMMA StopStored ==
    ASSUME NEW end, Stop(end)
    PROVE  UNCHANGED Stored
<1>1. UNCHANGED <<itable, image, entries>>
  BY DEF Stop
<1>2. vsfs_readdir' = vsfs_readdir
  BY <1>1 DEF vsfs_readdir
<1>3. \A n : Contents(n)' = Contents(n)
  BY <1>1 DEF Contents, path_lookup, EntriesOf, BlockAt
<1> QED BY <1>2, <1>3 DEF Stored

\* A truncate of the image is one of the abstract store.
LEMMA TruncateStore ==
    ASSUME OffBoundary, BlockInv, DirectoryInv, BlockInv', DirectoryInv',
           NEW n \in Names, NEW size \in Sizes, vsfs_truncate(n, size)
    PROVE  Store!Truncate(n, size) \/ UNCHANGED Stored
<1> DEFINE i == path_lookup(n)
<1>1. /\ i \in Files /\ Exists(n)
      /\ \/ \E end : Stop(end)
         \/ \E r : Good(i, r) /\ Kept(i, r) /\ r.node.size = size /\ Install(i, r)
  BY TruncateFacts DEF vsfs_truncate
<1>2. CASE \E end : Stop(end)
  BY <1>2, StopStored
<1>3. CASE ~ \E end : Stop(end)
  <2>1. PICK r : Good(i, r) /\ Kept(i, r) /\ r.node.size = size /\ Install(i, r)
    BY <1>1, <1>3
  <2>2. /\ Len(Bytes(r.node, r.image)) = size
        /\ \A k \in 1 .. size :
            /\ Bytes(r.node, r.image)[k] \in Int
            /\ k <= itable[i].size => Bytes(r.node, r.image)[k] = Bytes(itable[i], image)[k]
        /\ \A j \in Files \ {i} : Bytes(itable[j], r.image) = Bytes(itable[j], image)
    BY <1>1, <2>1, KeptBytes
  <2>3. Len(Bytes(itable[i], image)) = itable[i].size
    BY <1>1, StateBytes
  <2>4. /\ Store!OnlyChanges(n)
        /\ Stored[n] = Bytes(itable[i], image) /\ Stored'[n] = Bytes(r.node, r.image)
    BY <1>1, <2>1, <2>2, InstallStored
  <2> HIDE DEF i, Stored
  <2>5. Store!Resized(Stored[n], Stored'[n], size)
    BY <2>2, <2>3, <2>4 DEF Store!Resized
  <2> QED BY <2>4, <2>5 DEF Store!Truncate
<1> QED BY <1>2, <1>3

\* A write of the image is one of the abstract store.
LEMMA WriteStore ==
    ASSUME OffBoundary, BlockInv, DirectoryInv, BlockInv', DirectoryInv',
           NEW n \in Names, NEW w \in Writes, OffBlockStarts({w}),
           NEW data \in DataOf(w[2]), vsfs_write(n, w[1], data)
    PROVE  Store!Write(n, w[1], data) \/ UNCHANGED Stored
<1> DEFINE i == path_lookup(n)
           k0 == PositionOf(w[1])
           end == w[1] + w[2]
           size == IF end > itable[i].size THEN end ELSE itable[i].size
<1>1. /\ i \in Files /\ Exists(n)
      /\ \/ \E e : Stop(e)
         \/ \E r, r2 :
                /\ Good(i, r) /\ Kept(i, r) /\ k0 \in 0 .. r.node.blocks - 1
                /\ r.node.size = size
                /\ r2.node = r.node /\ r2.dbmap = r.dbmap /\ r2.free = r.free
                /\ r2.image = Copied(r.image, At(r.node, r.image, k0), w[1], data)
                /\ Good(i, r2) /\ Install(i, r2)
  BY WriteFacts DEF vsfs_write
<1>2. CASE \E e : Stop(e)
  BY <1>2, StopStored
<1>3. CASE ~ \E e : Stop(e)
  <2>1. PICK r, r2 :
                /\ Good(i, r) /\ Kept(i, r) /\ k0 \in 0 .. r.node.blocks - 1
                /\ r.node.size = size
                /\ r2.node = r.node /\ r2.dbmap = r.dbmap /\ r2.free = r.free
                /\ r2.image = Copied(r.image, At(r.node, r.image, k0), w[1], data)
                /\ Good(i, r2) /\ Install(i, r2)
    BY <1>1, <1>3
  <2> HIDE DEF i, k0, size
  <2>2. /\ Len(Bytes(r.node, r.image)) = size /\ size \in Nat
        /\ \A k \in 1 .. size :
            /\ Bytes(r.node, r.image)[k] = ByteOf(r.node, r.image, k)
            /\ ByteOf(r.node, r.image, k) \in Int
            /\ k <= itable[i].size =>
                    ByteOf(r.node, r.image, k) = Bytes(itable[i], image)[k]
        /\ \A j \in Files \ {i} : Bytes(itable[j], r.image) = Bytes(itable[j], image)
    BY <1>1, <2>1, KeptBytes
  <2>3. /\ \A k \in 1 .. size :
                ByteOf(r.node, r2.image, k) =
                    IF k \in w[1] + 1 .. end THEN data[k - w[1]]
                    ELSE ByteOf(r.node, r.image, k)
        /\ \A j \in Files \ {i} : Bytes(itable[j], r2.image) = Bytes(itable[j], r.image)
    BY <1>1, <2>1, CopiedBytes DEF k0
  <2>4. /\ Len(Bytes(itable[i], image)) = itable[i].size /\ itable[i].size \in Nat
    BY <1>1, StateBytes
  <2>5. /\ Store!OnlyChanges(n)
        /\ Stored[n] = Bytes(itable[i], image) /\ Stored'[n] = Bytes(r2.node, r2.image)
    BY <1>1, <2>1, <2>2, <2>3, InstallStored DEF i
  <2>6. /\ Len(Bytes(r2.node, r2.image)) = size
        /\ \A k \in 1 .. size :
                Bytes(r2.node, r2.image)[k] = ByteOf(r.node, r2.image, k)
    <3>1. Bytes(r2.node, r2.image) = [k \in 1 .. size |-> ByteOf(r.node, r2.image, k)]
      BY <2>1 DEF Bytes
    <3>2. \A k \in 1 .. size : ByteOf(r.node, r2.image, k) \in Int
      <4>1. \A k \in w[1] + 1 .. end : data[k - w[1]] \in Int
        <5>1. /\ data \in Seq(Int) /\ Len(data) = w[2] /\ w[1] \in Nat /\ w[2] \in Nat
          BY DataFacts
        <5>2. \A k \in w[1] + 1 .. end : k - w[1] \in 1 .. Len(data)
          BY <5>1
        <5> QED BY <5>1, <5>2
      <4> QED BY <2>2, <2>3, <4>1
    <3> QED BY <2>2, <3>1, <3>2
  <2>7. w[1] + Len(data) = end /\ end \in Nat
    <3>1. w[1] + Len(data) = w[1] + w[2] /\ w[1] \in Nat /\ w[2] \in Nat
      BY DataFacts
    <3> QED BY <3>1
  <2>8. Len(Stored'[n]) = Store!Larger(Len(Stored[n]), end)
    BY <2>4, <2>5, <2>6, <2>7 DEF Store!Larger, size
  <2> HIDE DEF end, Stored
  <2>9. ASSUME NEW k \in 1 .. Len(Stored'[n])
        PROVE  IF k \in w[1] + 1 .. end THEN Stored'[n][k] = data[k - w[1]]
               ELSE IF k <= Len(Stored[n]) THEN Stored'[n][k] = Stored[n][k]
               ELSE Stored'[n][k] \in Int
    BY <2>2, <2>3, <2>4, <2>5, <2>6, <2>9
  <2> QED BY <2>5, <2>7, <2>8, <2>9 DEF Store!Write
<1> QED BY <1>2, <1>3

\* What a create or an unlink leaves of the other files.
LEMMA StoredAfter ==
    ASSUME BlockInv, DirectoryInv, BlockInv', DirectoryInv',
           NEW L, L \subseteq Listed,
           \A m \in L : EntriesOf(m)' = EntriesOf(m),
           \A m \in L : entries'[First(EntriesOf(m))] = entries[First(EntriesOf(m))],
           \A m \in L : /\ itable'[path_lookup(m)].size = itable[path_lookup(m)].size
                        /\ Bytes(itable'[path_lookup(m)], image')
                                = Bytes(itable[path_lookup(m)], image)
    PROVE  L \subseteq Listed' /\ \A m \in L : Stored'[m] = Stored[m]
<1>1. Stored = [m \in Listed |-> Bytes(itable[path_lookup(m)], image)]
  BY StoredBytes DEF ListedBytes
<1>2. (BlockInv /\ DirectoryInv => Stored = ListedBytes)'
  BY StoredBytes, PTL
<1>3. \A m \in L : path_lookup(m)' = path_lookup(m)
  BY DEF path_lookup
<1>4. \A m \in L : m \in Listed'
  <2>1. \A m \in L : m \in Names /\ EntriesOf(m)' # {}
    BY ListedFacts DEF Exists
  <2>2. \A m \in L : m \in vsfs_readdir'
    BY <2>1 DEF vsfs_readdir, EntriesOf
  <2> QED BY <2>1, <2>2 DEF Listed
<1> HIDE DEF Stored, Listed, path_lookup, Bytes
<1>5. \A m \in L : Stored'[m] = Bytes(itable'[path_lookup(m)], image')
  BY <1>2, <1>3, <1>4 DEF ListedBytes
<1> QED BY <1>1, <1>4, <1>5

\* A create of the image makes an empty file, or none when the directory is
\* full.
LEMMA CreateStore ==
    ASSUME OffBoundary, BlockInv, DirectoryInv, BlockInv', DirectoryInv',
           NEW n \in Names, vsfs_create(n)
    PROVE  Store!Create(n) \/ UNCHANGED Stored
<1> DEFINE i == First(ClearInodes)
           f == First(FreeEntries)
<1>1. i \in Inodes \ ibmap
  BY CanCreateFacts DEF vsfs_create
<1>2. /\ entries' = CreatedEntries(n, i) /\ image' = image /\ ~ Exists(n)
      /\ \A j \in Inodes \ {i} : itable'[j] = itable[j]
      /\ itable'[i].size = 0
  <2>1. ClearBlocks # {}
    BY CreateFindsBlock DEF vsfs_create
  <2>2. itable' = [itable EXCEPT ![i].blocks = 1, ![i].size = 0,
                                 ![i].direct[0] = First(ClearBlocks)]
    BY <2>1 DEF vsfs_create
  <2>3. itable \in [Inodes -> InodeTypes]
    BY DEF BlockInv
  <2> HIDE DEF i
  <2>4. \A j \in Inodes \ {i} : itable'[j] = itable[j]
    BY <1>1, <2>2, <2>3
  <2>5. itable'[i].size = 0
    BY <1>1, <2>2, <2>3 DEF InodeTypes
  <2> QED BY <2>1, <2>4, <2>5 DEF vsfs_create, CanCreate, i
<1> HIDE DEF i
<1>3. Stored = [m \in Listed |-> Bytes(itable[path_lookup(m)], image)]
  BY StoredBytes DEF ListedBytes
<1>4. (BlockInv /\ DirectoryInv => Stored = ListedBytes)'
  BY StoredBytes, PTL
<1>5. \A m \in Listed : path_lookup(m) \in Inodes \ {i}
  BY <1>1, ListedFacts DEF Files
<1>6. \A m \in Listed : /\ itable'[path_lookup(m)].size = itable[path_lookup(m)].size
                        /\ Bytes(itable'[path_lookup(m)], image')
                                = Bytes(itable[path_lookup(m)], image)
  BY <1>2, <1>5
<1>7. CASE FreeEntries = {}
  <2>1. entries' = entries
    BY <1>2, <1>7 DEF CreatedEntries
  <2>2. Listed' = Listed
    BY <2>1 DEF Listed, vsfs_readdir
  <2>3. \A m : EntriesOf(m)' = EntriesOf(m)
    BY <2>1 DEF EntriesOf
  <2>4. \A m \in Listed : Stored'[m] = Stored[m]
    BY <1>6, <2>1, <2>3, StoredAfter
  <2> HIDE DEF Stored, Listed, path_lookup, Bytes
  <2>5. DOMAIN Stored' = Listed /\ Stored' = [m \in Listed |-> Stored'[m]]
    BY <1>4, <2>2 DEF ListedBytes
  <2> QED BY <1>3, <2>4, <2>5
<1>8. CASE FreeEntries # {}
  <2>1. f \in Slots /\ entries[f].ino > num_inodes
    <3>1. f \in FreeEntries
      BY <1>8, ImageFacts, FirstFacts DEF FreeEntries
    <3> QED BY <3>1 DEF FreeEntries
  <2>2. entries' = [entries EXCEPT ![f] = [ino |-> i, name |-> n]]
    BY <1>2, <1>8 DEF CreatedEntries
  <2> HIDE DEF f
  <2>3. /\ entries'[f] = [ino |-> i, name |-> n]
        /\ \A j \in Slots : j # f => entries'[j] = entries[j]
    BY <2>1, <2>2 DEF DirectoryInv
  <2>4. ~ entries[f].ino < num_inodes /\ i < num_inodes
    <3>1. entries[f].ino \in Nat
      <4>1. entries[f].ino \in Inodes \cup {VSFS_INO_MAX}
        BY <2>1 DEF DirectoryInv, EntryTypes
      <4>2. VSFS_INO_MAX \in Nat /\ Inodes \subseteq Nat
        BY ImageAssumption DEF VSFS_INO_MAX, Inodes
      <4> QED BY <4>1, <4>2
    <3>2. i < num_inodes
      BY <1>1, ImageFacts DEF Inodes
    <3> QED BY <2>1, <3>1, <3>2, ImageFacts
  <2>5. ASSUME NEW m, m # n
        PROVE  EntriesOf(m)' = EntriesOf(m)
    BY <2>3, <2>4, <2>5 DEF EntriesOf
  <2>6. EntriesOf(n)' = {f}
    <3>1. EntriesOf(n) = {}
      BY <1>2 DEF Exists
    <3>2. \A j \in Slots : ~ (entries[j].ino < num_inodes /\ entries[j].name = n)
      BY <3>1 DEF EntriesOf
    <3> QED BY <2>1, <2>3, <2>4, <3>2 DEF EntriesOf
  <2>7. n \notin Listed /\ Listed \subseteq Names
    BY <1>2, ListedFacts
  <2>8. /\ \A m \in Listed : EntriesOf(m)' = EntriesOf(m)
        /\ \A m \in Listed : entries'[First(EntriesOf(m))] = entries[First(EntriesOf(m))]
    <3> SUFFICES ASSUME NEW m \in Listed
                 PROVE  entries'[First(EntriesOf(m))] = entries[First(EntriesOf(m))]
      BY <2>5, <2>7
    <3>1. First(EntriesOf(m)) \in EntriesOf(m)
      BY ListedFacts, ImageFacts, FirstFacts DEF Exists, EntriesOf
    <3>2. First(EntriesOf(m)) \in Slots /\ First(EntriesOf(m)) # f
      BY <2>4, <3>1 DEF EntriesOf
    <3> QED BY <2>3, <3>2
  <2>9. /\ Listed \subseteq Listed' /\ \A m \in Listed : Stored'[m] = Stored[m]
    BY <1>6, <2>8, StoredAfter
  <2>10. path_lookup(n)' = i
    <3>1. First(EntriesOf(n))' = f
      <4>1. {f} \in SUBSET Nat /\ {f} # {}
        BY <2>1, ImageFacts
      <4>2. First({f}) = f
        BY <4>1, FirstFacts
      <4>3. First(EntriesOf(n))' = First(EntriesOf(n)')
        BY DEF First
      <4> QED BY <2>6, <4>2, <4>3
    <3> QED BY <2>3, <3>1 DEF path_lookup
  <2>11. Listed' = Listed \cup {n}
    <3>1. \A m : m \in Listed' <=> m \in Names /\ EntriesOf(m)' # {}
      BY DEF Listed, vsfs_readdir, EntriesOf
    <3>2. \A m : m \in Listed <=> m \in Names /\ EntriesOf(m) # {}
      BY ListedFacts DEF Exists
    <3> HIDE DEF EntriesOf, Listed
    <3>3. ASSUME NEW m PROVE m \in Listed' <=> m \in Listed \cup {n}
      <4>1. CASE m = n
        BY <2>6, <3>1, <4>1
      <4>2. CASE m # n
        BY <2>5, <3>1, <3>2, <4>2
      <4> QED BY <4>1, <4>2
    <3> QED BY <3>3
  <2>12. Bytes(itable'[i], image') = << >>
    BY <1>2 DEF Bytes
  <2> HIDE DEF Stored, Listed, path_lookup, Bytes
  <2>13. /\ DOMAIN Stored = Listed
         /\ Stored' = [m \in Listed \cup {n} |-> Stored'[m]]
         /\ Stored'[n] = Bytes(itable'[i], image')
    BY <1>3, <1>4, <2>10, <2>11 DEF ListedBytes
  <2>14. Stored' = [m \in DOMAIN Stored \cup {n} |-> IF m = n THEN << >> ELSE Stored[m]]
    BY <2>7, <2>9, <2>12, <2>13
  <2>15. ~ Store!Exists(n)
    BY <2>7, <2>13 DEF Store!Exists
  <2> QED BY <2>14, <2>15 DEF Store!Create
<1> QED BY <1>7, <1>8

\* An unlink of the image is one of the abstract store.
LEMMA UnlinkStore ==
    ASSUME BlockInv, DirectoryInv, BlockInv', DirectoryInv',
           NEW n \in Names, vsfs_unlink(n)
    PROVE  Store!Unlink(n)
<1> DEFINE f == First(EntriesOf(n))
           i == path_lookup(n)
           L == Listed \ {n}
<1>1. n \in Listed /\ Exists(n)
  BY ListedFacts DEF vsfs_unlink
<1>2. /\ entries' = [entries EXCEPT ![f] = FreeEntry]
      /\ itable' = [itable EXCEPT ![i] = ZeroInode]
  <2>1. UnlinkedBlocks(itable[i]) \subseteq Blocks
    BY <1>1, LookupFacts, UnlinkedFacts
  <2> QED BY <2>1 DEF vsfs_unlink, WithoutEntry
<1>3. f \in Slots /\ entries[f].ino < num_inodes /\ entries[f].name = n
  <2>1. f \in EntriesOf(n)
    BY <1>1, ImageFacts, FirstFacts DEF EntriesOf, Exists
  <2> QED BY <2>1 DEF EntriesOf
<1> HIDE DEF f
<1>4. /\ entries'[f] = FreeEntry
      /\ \A j \in Slots : j # f => entries'[j] = entries[j]
      /\ ~ FreeEntry.ino < num_inodes
  BY <1>2, <1>3, ImageFacts DEF DirectoryInv
<1>5. ASSUME NEW m, m # n
      PROVE  EntriesOf(m)' = EntriesOf(m)
  BY <1>3, <1>4, <1>5 DEF EntriesOf
<1>6. EntriesOf(n)' = {}
  <2> SUFFICES ASSUME NEW j \in Slots, entries'[j].ino < num_inodes, entries'[j].name = n
               PROVE  FALSE
    BY DEF EntriesOf
  <2>1. j # f /\ entries'[j] = entries[j]
    BY <1>4
  <2>2. ASSUME NEW k \in Slots, entries[k].ino < num_inodes, entries[k].name = n
        PROVE  k \in Used
    <3>1. k # 0 /\ k # 1
      BY <2>2, NamesAssumption DEF DirectoryInv, RootStays
    <3> QED BY <2>2, <3>1, ImageFacts DEF Used, Slots
  <2>3. j \in Used /\ f \in Used
    BY <1>3, <2>1, <2>2
  <2> QED BY <1>3, <2>1, <2>3 DEF DirectoryInv, EntriesNameFiles
<1>7. /\ \A m \in L : EntriesOf(m)' = EntriesOf(m)
      /\ \A m \in L : entries'[First(EntriesOf(m))] = entries[First(EntriesOf(m))]
  <2> SUFFICES ASSUME NEW m \in L
               PROVE  entries'[First(EntriesOf(m))] = entries[First(EntriesOf(m))]
    BY <1>5
  <2>1. First(EntriesOf(m)) \in EntriesOf(m)
    BY ListedFacts, ImageFacts, FirstFacts DEF Exists, EntriesOf
  <2>2. First(EntriesOf(m)) \in Slots /\ First(EntriesOf(m)) # f
    BY <1>3, <2>1 DEF EntriesOf
  <2> QED BY <1>4, <2>2
<1>8. i \in Inodes /\ \A m \in L : path_lookup(m) \in Files \ {i}
  BY <1>1, ListedFacts
<1> HIDE DEF i
<1>9. \A j \in Inodes \ {i} : itable'[j] = itable[j]
  BY <1>2 DEF BlockInv
<1>10. ASSUME NEW j \in Files \ {i}
       PROVE  /\ itable'[j].size = itable[j].size
              /\ Bytes(itable'[j], image') = Bytes(itable[j], image)
  <2>1. /\ j \in Inodes /\ itable[j].size \in Nat /\ itable'[j] = itable[j]
        /\ \A k \in 1 .. itable[j].size : (k - 1) \div BLOCK_SIZE \in 0 .. itable[j].blocks - 1
    BY <1>9, StateBytes
  <2>2. ASSUME NEW k \in 0 .. itable[j].blocks - 1
        PROVE  image'[At(itable'[j], image', k)] = image[At(itable[j], image, k)]
    BY UnlinkBlocks DEF i
  <2>3. ASSUME NEW k \in 1 .. itable[j].size
        PROVE  ByteOf(itable'[j], image', k) = ByteOf(itable[j], image, k)
    <3> DEFINE p == (k - 1) \div BLOCK_SIZE
    <3>1. p \in 0 .. itable[j].blocks - 1
      BY <2>1
    <3> HIDE DEF p
    <3>2. image'[At(itable'[j], image', p)] = image[At(itable[j], image, p)]
      BY <2>2, <3>1
    <3> QED BY <3>2 DEF ByteOf, p
  <2> QED BY <2>1, <2>3 DEF Bytes
<1>11. L \subseteq Listed
  OBVIOUS
<1>12. L \subseteq Listed' /\ \A m \in L : Stored'[m] = Stored[m]
  <2> HIDE DEF L
  <2> QED BY <1>7, <1>8, <1>10, <1>11, StoredAfter
<1>13. Listed' = L
  <2>1. \A m : m \in Listed' <=> m \in Names /\ EntriesOf(m)' # {}
    BY DEF Listed, vsfs_readdir, EntriesOf
  <2>2. \A m : m \in Listed <=> m \in Names /\ EntriesOf(m) # {}
    BY ListedFacts DEF Exists
  <2> HIDE DEF EntriesOf, Listed
  <2>3. ASSUME NEW m PROVE m \in Listed' <=> m \in L
    BY <1>5, <1>6, <2>1, <2>2
  <2> QED BY <2>3
<1>14. (BlockInv /\ DirectoryInv => Stored = ListedBytes)'
  BY StoredBytes, PTL
<1>15. Stored = [m \in Listed |-> Bytes(itable[path_lookup(m)], image)]
  BY StoredBytes DEF ListedBytes
<1> HIDE DEF Stored, Listed, path_lookup, Bytes
<1>16. DOMAIN Stored = Listed /\ Stored' = [m \in L |-> Stored'[m]]
  BY <1>13, <1>14, <1>15 DEF ListedBytes
<1>17. Stored' = [m \in DOMAIN Stored \ {n} |-> Stored[m]]
  BY <1>12, <1>16
<1> QED BY <1>1, <1>16, <1>17 DEF Store!Unlink, Store!Exists

\* The store without files.
NoFiles == [n \in {} |-> << >>]

\* An image just formatted holds no files.
LEMMA NothingStored == entries = EmptyDirectory => Stored = NoFiles
<1> SUFFICES ASSUME entries = EmptyDirectory PROVE Stored = NoFiles
  OBVIOUS
<1>1. \A j \in Slots : ~ (entries[j].ino < num_inodes /\ entries[j].name \in Names)
  <2> SUFFICES ASSUME NEW j \in Slots, entries[j].ino < num_inodes, entries[j].name \in Names
               PROVE  FALSE
    OBVIOUS
  <2>1. CASE j = 0 \/ j = 1
    BY <2>1, NamesAssumption DEF EmptyDirectory
  <2>2. CASE j # 0 /\ j # 1
    BY <2>2, ImageFacts DEF EmptyDirectory
  <2> QED BY <2>1, <2>2
<1>2. vsfs_readdir \cap Names = {}
  BY <1>1 DEF vsfs_readdir
<1> QED BY <1>2 DEF Stored, NoFiles

-----------------------------------------------------------------------------
(* The refinement. *)

\* One step, whichever it is.
LEMMA StoreStep ==
    OffBoundary /\ OffBlockStarts(Writes)
        /\ BlockInv /\ DirectoryInv /\ BlockInv' /\ DirectoryInv' /\ [Next]_vars
        => [Store!FSNext]_Stored
<1> SUFFICES ASSUME OffBoundary, OffBlockStarts(Writes),
                    BlockInv, DirectoryInv, BlockInv', DirectoryInv', [Next]_vars
             PROVE  [Store!FSNext]_Stored
  OBVIOUS
<1> HIDE DEF Stored
<1>1. ASSUME NEW n \in Names, vsfs_create(n) PROVE [Store!FSNext]_Stored
  BY <1>1, CreateStore DEF Store!FSNext
<1>2. ASSUME NEW n \in Names, vsfs_unlink(n) PROVE [Store!FSNext]_Stored
  BY <1>2, UnlinkStore DEF Store!FSNext
<1>3. ASSUME NEW n \in Names, NEW size \in Sizes, vsfs_truncate(n, size)
      PROVE  [Store!FSNext]_Stored
  BY <1>3, TruncateStore DEF Store!FSNext
<1>4. ASSUME NEW n \in Names, NEW w \in Writes, NEW data \in DataOf(w[2]),
             vsfs_write(n, w[1], data)
      PROVE  [Store!FSNext]_Stored
  <2>1. OffBlockStarts({w})
    BY DEF OffBlockStarts
  <2>2. Store!Write(n, w[1], data) \/ UNCHANGED Stored
    BY <1>4, <2>1, WriteStore
  <2>3. /\ w[1] \in {x[1] : x \in Writes}
        /\ data \in UNION {DataOf(x[2]) : x \in Writes}
    OBVIOUS
  <2> QED BY <2>2, <2>3 DEF Store!FSNext
<1>5. ASSUME NEW zero \in BOOLEAN, mkfs(zero) PROVE [Store!FSNext]_Stored
  <2>1. entries' = EmptyDirectory
    BY <1>5 DEF mkfs
  <2>2. (entries = EmptyDirectory => Stored = NoFiles)'
    BY NothingStored, PTL
  <2>3. Store!Format
    BY <2>1, <2>2 DEF Store!Format, NoFiles
  <2> QED BY <2>3 DEF Store!FSNext
<1>6. ASSUME UNCHANGED <<itable, image, entries>> PROVE UNCHANGED Stored
  <2>1. vsfs_readdir' = vsfs_readdir
    BY <1>6 DEF vsfs_readdir
  <2>2. \A n : Contents(n)' = Contents(n)
    BY <1>6 DEF Contents, path_lookup, EntriesOf, BlockAt
  <2> QED BY <2>1, <2>2 DEF Stored
<1>7. CASE fs_ctx_init
  BY <1>6, <1>7 DEF fs_ctx_init
<1>8. CASE fs_ctx_destroy
  BY <1>6, <1>8 DEF fs_ctx_destroy
<1>9. CASE UNCHANGED vars
  BY <1>6, <1>9 DEF vars
<1> QED BY <1>1, <1>2, <1>3, <1>4, <1>5, <1>7, <1>8, <1>9 DEF Next, Call, Ended

\* The image behaves as a store of files, off the boundary and off the starts of
\* blocks, for every image and program: a call of vsfs.c changes the bytes it
\* says of the file it names, and no other, however blocks are given back and
\* taken again.
THEOREM StoreCorrect ==
    OffBoundary /\ OffBlockStarts(Writes) => (Spec => ImplementsFileStore)
<1> SUFFICES ASSUME OffBoundary, OffBlockStarts(Writes)
             PROVE  Spec => ImplementsFileStore
  OBVIOUS
<1>1. Init => Store!FSInit
  <2> SUFFICES ASSUME Init PROVE Store!FSInit
    OBVIOUS
  <2>1. Stored = [n \in {} |-> << >>]
    BY NothingStored DEF Init, NoFiles
  <2> QED BY <2>1 DEF Store!FSInit
<1>2. BlockInv /\ DirectoryInv /\ BlockInv' /\ DirectoryInv' /\ [Next]_vars
        => [Store!FSNext]_Stored
  BY StoreStep
<1> QED BY <1>1, <1>2, BlockInvariance, DirectoryInvariance, PTL
        DEF Spec, ImplementsFileStore, Store!FSSpec

=============================================================================
