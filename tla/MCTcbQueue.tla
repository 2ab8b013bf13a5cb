----------------------------- MODULE MCTcbQueue -----------------------------
(* An instance of TcbQueue for TLC. *)
EXTENDS TcbQueue
=============================================================================
