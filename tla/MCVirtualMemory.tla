--------------------------- MODULE MCVirtualMemory ---------------------------
(* Instances of VirtualMemory for TLC. *)
EXTENDS VirtualMemory

Rand == {"rand"}
Ordered == {"rr", "clock", "lru"}
All == Rand \cup Ordered

ThreePages == 0 .. 2
FourPages == 0 .. 3
OnlyZero == {0}
Bits == 0 .. 1
InPage == 0 .. SIMPAGESIZE - 1

\* With a table of three entries and an int of eight values: an index past the
\* table, and one that comes out negative.
OddPages == {0, 1, 2, 3, 7}
=============================================================================
