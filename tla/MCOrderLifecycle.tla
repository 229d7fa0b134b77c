-------------------------- MODULE MCOrderLifecycle --------------------------
(* Instances of OrderLifecycle for TLC. *)
EXTENDS OrderLifecycle, TLC

\* Every order is for two units (so that a return can be partial), or for one.
TwoEach == [o \in Orders |-> 2]
OneEach == [o \in Orders |-> 1]

\* Handlers are interchangeable.  (Orders are not: NoJob names one of them.)
HandlerSymmetry == Permutations(Handlers)
==============================================================================
