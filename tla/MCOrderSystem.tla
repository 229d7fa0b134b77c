---------------------------- MODULE MCOrderSystem ----------------------------
(* Instances of OrderSystem for TLC. *)
EXTENDS OrderSystem, TLC

TwoEach == [o \in Orders |-> 2]
OneEach == [o \in Orders |-> 1]

\* Handlers are interchangeable.
HandlerSymmetry == Permutations(Handlers)
==============================================================================
