---------------------------- MODULE MCWorkerLease ----------------------------
(* Instances of WorkerLease for TLC. *)
EXTENDS WorkerLease, TLC

\* Returns are interchangeable.
ReturnSymmetry == Permutations(Returns)
==============================================================================
