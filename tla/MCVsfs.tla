------------------------------- MODULE MCVsfs -------------------------------
(* Instances of Vsfs for TLC: blocks of two cells, two direct blocks. *)
EXTENDS Vsfs, TLC

\* No file of exactly two blocks, and no offset but 0 at the start of a block.
OffBoundarySizes == {0, 5, 7, 9}
OffBoundaryWrites == {<<1, 1>>, <<5, 1>>}
OffBoundaryReads == {<<0, 2>>, <<1, 1>>, <<3, 1>>, <<5, 1>>, <<7, 1>>}

\* Sizes and ranges of a program that fills its files block by block.
BlockWise == {<<0, 2>>, <<2, 2>>}
NoSizes == {}
\* Sizes on both sides of the boundary between small and big files.
AroundBoundary == {0, 4, 5}
NoRanges == {}

OneValue == {1}

\* The code compares names for equality only.
NameSymmetry == Permutations(Names)
=============================================================================
