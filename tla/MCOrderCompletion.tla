--------------------------- MODULE MCOrderCompletion ---------------------------
(* Instances of OrderCompletion for TLC. *)
EXTENDS OrderCompletion
=============================================================================
