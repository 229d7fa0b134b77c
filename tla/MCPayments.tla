------------------------------ MODULE MCPayments ------------------------------
(* Instances of Payments for TLC. *)
EXTENDS Payments, TLC

\* Requests are interchangeable, and so are refund rows.
RequestSymmetry == Permutations(Handlers) \cup Permutations(Refunds)
=============================================================================
