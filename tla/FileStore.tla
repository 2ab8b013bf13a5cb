------------------------------ MODULE FileStore ------------------------------
(***************************************************************************)
(* What vsfs of a4-chenz347 promises a program that uses it: named files   *)
(* of bytes, where every call changes the file it names and no other.      *)
(* Bytes a file gains without anyone writing them are picked from Fill.    *)
(***************************************************************************)
EXTENDS Naturals, Sequences

CONSTANTS
    Names,      \* names a program may give its files
    Offsets,    \* offsets it may write to
    Sizes,      \* sizes it may set a file to
    Data,       \* sequences of bytes it may write
    Fill        \* what an unwritten byte may hold

VARIABLE files  \* the bytes of every file there is

Exists(n) == n \in DOMAIN files

FSInit == files = [n \in {} |-> <<>>]

Larger(a, b) == IF a > b THEN a ELSE b

\* Every call but create and unlink leaves the other files alone.
OnlyChanges(n) ==
    /\ Exists(n)
    /\ DOMAIN files' = DOMAIN files
    /\ \A m \in DOMAIN files \ {n} : files'[m] = files[m]

\* new has size bytes: those of old, and bytes of Fill where old has none.
Resized(old, new, size) ==
    /\ Len(new) = size
    /\ \A i \in 1 .. size :
            IF i <= Len(old) THEN new[i] = old[i] ELSE new[i] \in Fill

Create(n) ==
    /\ ~ Exists(n)
    /\ files' = [m \in DOMAIN files \cup {n} |->
                    IF m = n THEN <<>> ELSE files[m]]

Unlink(n) ==
    /\ Exists(n)
    /\ files' = [m \in DOMAIN files \ {n} |-> files[m]]

Truncate(n, size) ==
    /\ OnlyChanges(n)
    /\ Resized(files[n], files'[n], size)

\* The bytes before and behind the ones written stay, or are filled in.
Write(n, offset, data) ==
    /\ OnlyChanges(n)
    /\ LET old == files[n]
           new == files'[n]
           end == offset + Len(data)
       IN  /\ Len(new) = Larger(Len(old), end)
           /\ \A i \in 1 .. Len(new) :
                IF i \in offset + 1 .. end THEN new[i] = data[i - offset]
                ELSE IF i <= Len(old) THEN new[i] = old[i]
                ELSE new[i] \in Fill

Format == files' = [n \in {} |-> <<>>]

FSNext ==
    \/ \E n \in Names :
        \/ Create(n)
        \/ Unlink(n)
        \/ \E size \in Sizes : Truncate(n, size)
        \/ \E offset \in Offsets, data \in Data : Write(n, offset, data)
    \/ Format

FSSpec == FSInit /\ [][FSNext]_files
=============================================================================
