---------------------------- MODULE RefundPromise ----------------------------
(***************************************************************************)
(* What payments promise about money, whatever the requests that race:     *)
(* the platform receives money once, and neither promises nor repays more  *)
(* than it received.  A repayment is never taken back.                     *)
(***************************************************************************)
EXTENDS Naturals

VARIABLES
  received,  \* confirmed by an administrator or a courier
  promised,  \* refunds asked for and not yet paid
  repaid     \* refunds paid

vars == <<received, promised, repaid>>

Init == received = 0 /\ promised = 0 /\ repaid = 0

Receive ==
  /\ received = 0
  /\ received' \in Nat \ {0}
  /\ UNCHANGED <<promised, repaid>>

Promise ==
  /\ promised' \in Nat
  /\ promised' > promised
  /\ promised' + repaid <= received
  /\ UNCHANGED <<received, repaid>>

Repay ==
  /\ repaid' \in Nat
  /\ repaid' > repaid
  /\ promised' \in Nat
  /\ promised' + repaid' = promised + repaid
  /\ UNCHANGED received

Next == Receive \/ Promise \/ Repay

Spec == Init /\ [][Next]_vars
=============================================================================
