------------------------------ MODULE MCThread ------------------------------
(* Instances of CSC369Thread for TLC. *)
EXTENDS CSC369Thread

Masks == BOOLEAN
NoMasks == {}
Codes == {EXIT_CODE_NORMAL, 3}
NormalOnly == {EXIT_CODE_NORMAL}
=============================================================================
