----------------------------- MODULE FlatMemory -----------------------------
(***************************************************************************)
(* What the memory simulator of a3-chenz347 promises a trace: a flat array *)
(* of zeroed bytes, where a reference of the trace touches its own address *)
(* and a read returns the value last written there.  With CanLose, pages   *)
(* may be lost for good, but then they can no longer be referenced.        *)
(***************************************************************************)
CONSTANTS
    Vpns, Offsets,  \* the addresses: a virtual page number and an offset
    Values, Zero,
    NULL,
    LOST,           \* the content of a page that is gone
    CanLose

VARIABLES
    mem,        \* the bytes of every page
    request,    \* the address of the last reference
    got         \* what it read, NULL for a write

flatVars == <<mem, request, got>>

Zeroed == [o \in Offsets |-> Zero]

FlatInit ==
    /\ mem = [v \in Vpns |-> Zeroed]
    /\ request = NULL
    /\ got = NULL

\* The pages lost while a page was referenced.
Losing(gone) == gone = {} \/ CanLose

Read(v, o) ==
    /\ mem[v] # LOST
    /\ request' = <<v, o>>
    /\ got' = mem[v][o]
    /\ \E gone \in SUBSET (Vpns \ {v}) :
        /\ Losing(gone)
        /\ mem' = [u \in Vpns |-> IF u \in gone THEN LOST ELSE mem[u]]

Write(v, o, val) ==
    /\ mem[v] # LOST
    /\ request' = <<v, o>>
    /\ got' = NULL
    /\ \E gone \in SUBSET (Vpns \ {v}) :
        /\ Losing(gone)
        /\ mem' = [u \in Vpns |->
                IF u \in gone THEN LOST
                ELSE IF u = v THEN [mem[v] EXCEPT ![o] = val]
                ELSE mem[u]]

FlatNext ==
    \E v \in Vpns, o \in Offsets :
        Read(v, o) \/ \E val \in Values : Write(v, o, val)

FlatSpec == FlatInit /\ [][FlatNext]_flatVars
=============================================================================
