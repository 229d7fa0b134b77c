--------------------------- MODULE MCMasterOrder ---------------------------
(* Instances of MasterOrder for TLC. *)
EXTENDS MasterOrder, TLC

\* Handlers are interchangeable.
MasterSymmetry == Permutations(Handlers)
==============================================================================
