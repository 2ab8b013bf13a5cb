------------------------- MODULE MCCooperativeThread -------------------------
(* Instances of CooperativeThread for TLC: MaxThreads and Addresses alone say *)
(* what an instance is, and the configurations give them. *)
EXTENDS CooperativeThread
=============================================================================
