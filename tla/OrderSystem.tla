----------------------------- MODULE OrderSystem -----------------------------
(***************************************************************************)
(* The sub-orders of one master order together with that master: a request *)
(* that changes a sub-order (OrderLifecycle) ends with a recalculation of  *)
(* the master (MasterOrder), in a transaction of its own, unless the       *)
(* request throws or dies before; so does a carrier's delivery that loses  *)
(* its race.                                                               *)
(***************************************************************************)
EXTENDS OrderLifecycle

VARIABLES
  master,      \* master_orders.status
  masterLock,  \* the handler whose transaction holds the master row
  recalc       \* per handler: the recalculation its request still owes, or runs

\* A recalculation may fail whatever MayAbort says: createShipment may throw.
Master == INSTANCE MasterOrder WITH lock <- masterLock, job <- recalc, MayFail <- TRUE

masterVars == <<master, masterLock, recalc>>
systemVars == <<vars, masterVars>>

SystemInit ==
  /\ Init
  /\ master = "SUBMITTED"
  /\ masterLock = NoHandler
  /\ recalc = [h \in Handlers |-> Master!NoJob]

\* The checkout's last step and the payment service recalculate nothing.
Outside ==
  /\ \E o \in Orders : checkoutGate(o) \/ paymentConfirmed(o) \/ paymentExpired(o)
  /\ UNCHANGED masterVars

\* A handler takes a request when the one before is over, its recalculation included.
Takes(h) ==
  /\ Master!Idle(h)
  /\ \E o \in Orders : Begin(h, o)
  /\ UNCHANGED masterVars

\* The steps that oblige their request to recalculate: those that write an order's
\* status, and the flip a carrier's delivery loses, whose return leaves the transaction
\* and not the request.
Obliges(h) ==
  \/ partiallyAccept(h) \/ rejectWrites(h) \/ plainFlip(h)
  \/ transitionCommits(h) \/ cancelCommits(h) \/ deliveryCommits(h)
  \/ flipConflict(h) /\ job[h].op = "carrier"

\* The request ends without its recalculation.
Drops(h) ==
  /\ masterLock' = IF masterLock = h THEN NoHandler ELSE masterLock
  /\ recalc' = [recalc EXCEPT ![h] = Master!NoJob]
  /\ UNCHANGED master

\* A second shipment violates the UNIQUE constraint on its order.
Throws(h) == job[h].at = "ship" /\ ship[job[h].order] # "none"

ServesBug(h) == Step(h) /\ UNCHANGED masterVars

Serves(h) ==
  /\ Step(h)
  /\ IF Obliges(h) THEN /\ recalc' = [recalc EXCEPT ![h].at = "read"]
                        /\ UNCHANGED <<master, masterLock>>
     ELSE IF Throws(h) THEN Drops(h)
     ELSE UNCHANGED masterVars

\* The last thing a request does.
Recalculates(h) ==
  /\ Idle(h)
  /\ Master!Recalculate(h)
  /\ UNCHANGED vars

\* A request throws, or its process dies, before its recalculation or within it.
Fails(h) ==
  /\ MayAbort
  /\ \/ Abort(h)
     \/ Idle(h) /\ ~Master!Idle(h) /\ UNCHANGED vars
  /\ Drops(h)

SystemNext ==
  \/ Outside
  \/ \E h \in Handlers : Takes(h) \/ Serves(h) \/ Recalculates(h) \/ Fails(h)

SystemSpec == SystemInit /\ [][SystemNext]_systemVars
-----------------------------------------------------------------------------
(* What holds. *)

\* What MasterOrder takes for granted of the requests is what they do: each change
\* of a sub-order is along an edge of the matrix, and a request that makes one, or
\* that lost a carrier's delivery, has no other recalculation to finish.
MasterFollows == Master!Spec
==============================================================================
