------------------------ MODULE OrderLifecycleProofs ------------------------
(***************************************************************************)
(* Theorems about OrderLifecycle, for any set of orders and of handlers,   *)
(* any quantities and any stock.                                           *)
(***************************************************************************)
EXTENDS OrderLifecycle, UnitSums

(* A request record, and the request that is not one. *)
Request == [at : At, op : AllOps, order : Orders, seen : Status, to : Status,
            exc : ExcStatus, ship : ShipStatus, owed : Nat]

LEMMA NoJobType == NoJob \in Request
<1>1. (CHOOSE o \in Orders : TRUE) \in Orders
  BY RowsAssumption
<1> QED
  BY <1>1 DEF NoJob, Request, At, AllOps, Status, ExcStatus, ShipStatus

LEMMA Max0Type == ASSUME NEW n \in Int PROVE Max0(n) \in Nat /\ (n >= 0 => Max0(n) = n)
BY DEF Max0

\* Every transition the matrix lists leads to a status.
LEMMA TransitionType ==
  ASSUME NEW s \in Status PROVE TRANSITIONS[s] \subseteq Status
BY DEF TRANSITIONS, Status

\* Replacing the request of one handler by a request keeps job well typed.
LEMMA JobType ==
  ASSUME TypeOK, NEW h \in Handlers, NEW r \in Request, job' = [job EXCEPT ![h] = r]
  PROVE  job' \in [Handlers -> Request]
BY DEF TypeOK, Request

\* What a request has established when it reaches each of its steps.
FulfilStatus == {"PREPARING", "READY", "ASSIGNED", "PICKED_UP", "OUT_FOR_DELIVERY"}

Target(r) ==
  /\ Edge(r.seen, r.to)
  /\ r.op \in {"accept", "transition", "cancel", "deliver", "carrier", "fulfil"}
  /\ r.op = "accept" => r.to = "ACCEPTED"
  /\ r.op = "cancel" <=> r.to = "CANCELLED"
  /\ r.op \in {"deliver", "carrier"} => r.to = "DELIVERED"
  /\ r.op = "fulfil" => r.to \in FulfilStatus

WellFormed(r) ==
  /\ r.at # "idle" => r.op \in Ops
  /\ r.at = "advance" => /\ r.op \in {"accept", "partial", "reject"}
                         /\ r.op = "accept" => r.to = "ACCEPTED"
  /\ r.at = "decide" => r.op \in {"partial", "reject"}
  /\ r.at \in {"release", "write"} => r.op = "reject"
  /\ r.at \in {"flip", "settle", "commit"} => Target(r)
  /\ r.at \in {"settle", "commit"} => r.to \in Settling
  /\ r.at = "settle" => r.op = "cancel"
  /\ r.at = "shipment" => r.to \in FulfilStatus
  /\ r.at \in {"recheck", "claim"} => r.op \in DOMAIN ExcFrom
  /\ r.at = "shipcancel" => r.op = "cancelShipment"
  /\ r.at \in {"view", "return"} => r.op = "return"

RequestsOK == \A h \in Handlers : WellFormed(job[h])

\* A request begins: it has read, and nothing but its record has changed.
LEMMA BeginShape ==
  ASSUME TypeOK, NEW h \in Handlers, NEW o \in Orders, Begin(h, o)
  PROVE  /\ UNCHANGED <<status, shipVars, stockVars, lock, posted>>
         /\ \E r \in Request :
              /\ job' = [job EXCEPT ![h] = r]
              /\ r.order = o
              /\ r.at \in {"advance", "decide", "flip", "shipcancel", "recheck", "claim", "view"}
              /\ r.at = "advance" => status[o] = "SUBMITTED"
              /\ r.at = "view" => Restockable(o)
              /\ WellFormed(r)
<1> DEFINE Shape ==
      /\ UNCHANGED <<status, shipVars, stockVars, lock, posted>>
      /\ \E r \in Request :
           /\ job' = [job EXCEPT ![h] = r]
           /\ r.order = o
           /\ r.at \in {"advance", "decide", "flip", "shipcancel", "recheck", "claim", "view"}
           /\ r.at = "advance" => status[o] = "SUBMITTED"
           /\ r.at = "view" => Restockable(o)
           /\ WellFormed(r)
<1>1. ASSUME NEW op \in {"accept", "partial", "reject"}, DecideRead(h, o, op)
      PROVE  Shape
  <2> DEFINE to == CASE op = "accept"  -> "ACCEPTED"
                     [] op = "partial" -> "PARTIALLY_ACCEPTED"
                     [] op = "reject"  -> "REJECTED"
             next == IF status[o] = "SUBMITTED" THEN "advance" ELSE Deciding(op)
             r == [NoJob EXCEPT !.at = next, !.op = op, !.order = o,
                                !.seen = status[o], !.to = to]
  <2>1. to \in Status /\ next \in {"advance", "flip", "decide"}
    BY DEF Status, Deciding
  <2>2. r \in Request
    BY <2>1, NoJobType DEF Request, TypeOK, At, AllOps
  <2>3. /\ r.at = next /\ r.op = op /\ r.order = o
        /\ r.seen = status[o] /\ r.to = to
    BY NoJobType DEF Request
  <2>4. next \in {"flip", "settle", "commit"} => op = "accept" /\ Edge(status[o], to)
    BY <1>1 DEF DecideRead, Edge, Deciding
  <2>5. op \in Ops
    BY <1>1 DEF DecideRead
  <2>6. op = "accept" => to = "ACCEPTED" /\ next # "decide"
    BY DEF Deciding
  <2> HIDE DEF to, next, r
  <2>7. WellFormed(r)
    BY <2>1, <2>3, <2>4, <2>5, <2>6 DEF WellFormed, Target
  <2>8. next = "advance" => status[o] = "SUBMITTED"
    BY DEF next, Deciding
  <2>9. /\ job' = [job EXCEPT ![h] = r]
        /\ UNCHANGED <<status, shipVars, stockVars, lock, posted>>
    BY <1>1 DEF DecideRead, r, to, next
  <2> QED
    BY <2>1, <2>2, <2>3, <2>7, <2>8, <2>9
<1>2. ASSUME NEW op \in {"transition", "cancel", "deliver", "carrier", "fulfil"},
             NEW s \in Status,
             FlipRequest(h, o, op, s),
             Edge(status[o], s),
             op = "cancel" <=> s = "CANCELLED",
             op \in {"deliver", "carrier"} => s = "DELIVERED",
             op = "fulfil" => s \in FulfilStatus
      PROVE  Shape
  <2> DEFINE r == [NoJob EXCEPT !.at = "flip", !.op = op, !.order = o,
                     !.seen = status[o], !.to = s,
                     !.exc = IF op \in {"deliver", "carrier"} THEN exc[o] ELSE @]
  <2>1. r \in Request
    BY <1>2, NoJobType DEF Request, TypeOK, At, AllOps
  <2>2. WellFormed(r)
    BY <1>2, NoJobType DEF Request, FlipRequest, WellFormed, Target
  <2> QED
    BY <1>2, <2>1, <2>2, NoJobType DEF FlipRequest, Request
<1>3. ASSUME NEW op \in {"report", "retry", "rtsRequest", "rtsApprove", "rtsReject",
                         "rtsComplete", "rtsLost"},
             ExceptionRequest(h, o, op)
      PROVE  Shape
  <2> DEFINE r == [NoJob EXCEPT !.op = op, !.order = o,
                     !.at = IF op \in {"report", "rtsRequest", "rtsLost"}
                            THEN "recheck" ELSE "claim"]
  <2>1. r \in Request
    BY <1>3, NoJobType DEF Request, At, AllOps
  <2>2. WellFormed(r)
    BY <1>3, NoJobType DEF Request, ExceptionRequest, WellFormed, ExcFrom
  <2> QED
    BY <1>3, <2>1, <2>2, NoJobType DEF ExceptionRequest, Request
<1>4. CASE recordReturn(h, o)
  <2> DEFINE r == [NoJob EXCEPT !.at = "view", !.op = "return", !.order = o]
  <2>1. r \in Request
    BY NoJobType DEF Request, At, AllOps
  <2>2. WellFormed(r)
    BY <1>4, NoJobType DEF Request, recordReturn, WellFormed
  <2> QED
    BY <1>4, <2>1, <2>2, NoJobType DEF recordReturn, Request
<1>5. CASE cancelShipment(h, o)
  <2> DEFINE r == [NoJob EXCEPT !.at = "shipcancel", !.op = "cancelShipment", !.order = o]
  <2>1. r \in Request
    BY NoJobType DEF Request, At, AllOps
  <2>2. WellFormed(r)
    BY <1>5, NoJobType DEF Request, cancelShipment, WellFormed
  <2> QED
    BY <1>5, <2>1, <2>2, NoJobType DEF cancelShipment, Request
<1>6. ASSUME NEW s \in Status, transitionStatus(h, o, s) PROVE Shape
  BY <1>2, <1>6 DEF transitionStatus, Edge
<1>7. ASSUME NEW s \in Status, fulfil(h, o, s) PROVE Shape
  <2>1. Edge(status[o], s) /\ s \in FulfilStatus /\ FlipRequest(h, o, "fulfil", s)
    BY <1>7 DEF fulfil, Edge, FulfilStatus
  <2> QED
    BY <1>2, <2>1 DEF FulfilStatus
<1>8. CASE cancelOrder(h, o)
  BY <1>2, <1>8 DEF cancelOrder, Edge, Status
<1>9. CASE deliverOrder(h, o) \/ processCarrierDelivery(h, o)
  BY <1>2, <1>9 DEF deliverOrder, processCarrierDelivery, Edge, Status
<1>10. CASE \/ reportShipmentException(h, o) \/ authorizeShipmentRetry(h, o)
            \/ requestRTS(h, o) \/ approveRTS(h, o) \/ rejectRTS(h, o)
            \/ completeRTS(h, o) \/ requestAndApproveLostRTS(h, o)
  BY <1>3, <1>10 DEF reportShipmentException, authorizeShipmentRetry, requestRTS,
                     approveRTS, rejectRTS, completeRTS, requestAndApproveLostRTS
<1> QED
  BY <1>1, <1>4, <1>5, <1>6, <1>7, <1>8, <1>9, <1>10 DEF Begin

\* The stock variables' part of TypeOK.
StockType ==
  /\ onHand \in Nat
  /\ reserved \in Nat
  /\ resv \in [Orders -> Nat]
  /\ rel \in [Orders -> Nat]
  /\ back \in [Orders -> Nat]
  /\ sold \in [Orders -> Nat]
  /\ prints \in [Orders -> SUBSET (Nat \X Condition)]

\* A stock movement of a natural quantity keeps the stock variables well typed.
LEMMA ReserveType ==
  ASSUME TypeOK, NEW o \in Orders, NEW q \in Nat, Reserve(o, q)
  PROVE  StockType'
BY DEF TypeOK, StockType, Reserve

LEMMA ReleaseType ==
  ASSUME TypeOK, NEW o \in Orders, NEW q \in Nat, Release(o, q)
  PROVE  StockType'
BY Max0Type DEF TypeOK, StockType, Release

LEMMA SellType ==
  ASSUME TypeOK, NEW o \in Orders, NEW q \in Nat, Sell(o, q)
  PROVE  StockType'
BY Max0Type DEF TypeOK, StockType, Sell

LEMMA OwedType == ASSUME TypeOK, NEW o \in Orders PROVE Owed(o) \in Nat
BY Max0Type DEF TypeOK, Owed, Outstanding

\* The three ways a step leaves the record of its request.
LEMMA DoneType ==
  ASSUME TypeOK, NEW h \in Handlers, Done(h)
  PROVE  job' \in [Handlers -> Request]
BY NoJobType, JobType DEF Done

LEMMA GotoType ==
  ASSUME TypeOK, NEW h \in Handlers, NEW label \in At, Goto(h, label)
  PROVE  job' \in [Handlers -> Request]
BY DEF TypeOK, Request, Goto

LEMMA CommitType ==
  ASSUME TypeOK, NEW h \in Handlers, Commit(h)
  PROVE  /\ status' \in [Orders -> Status]
         /\ lock' \in [Orders -> Handlers \cup {NoHandler}]
         /\ job' \in [Handlers -> Request]
         /\ posted' \in [Orders -> BOOLEAN]
BY DoneType DEF Commit, TypeOK

\* A step keeps every variable well typed; the two that store what the request
\* carries rely on what the request is known to carry.
LEMMA TypeStep == ASSUME TypeOK, RequestsOK, [Next]_vars PROVE TypeOK'
<1>1. CASE UNCHANGED vars
  BY <1>1 DEF TypeOK, vars, shipVars, stockVars
<1>2. ASSUME NEW o \in Orders, checkoutGate(o) \/ paymentConfirmed(o) \/ paymentExpired(o)
      PROVE  TypeOK'
  BY <1>2 DEF TypeOK, checkoutGate, paymentConfirmed, paymentExpired, shipVars, stockVars,
              Status
<1>3. ASSUME NEW h \in Handlers, Abort(h) PROVE TypeOK'
  BY <1>3, DoneType DEF TypeOK, Abort, Request, shipVars, stockVars
<1>4. ASSUME NEW h \in Handlers, NEW o \in Orders, Begin(h, o) PROVE TypeOK'
  BY <1>4, BeginShape, JobType DEF TypeOK, Request, shipVars, stockVars
<1>5. ASSUME NEW h \in Handlers, Step(h) PROVE TypeOK'
  <2>1. CASE autoAdvance(h)
    BY <2>1
    DEF autoAdvance, Deciding, At, Status, TypeOK, Request, shipVars, stockVars
  <2>2. CASE reserveStock(h)
    <3> DEFINE qtyToReserve == Max0(Least(Qty[job[h].order], Available))
    <3>1. job[h].order \in Orders /\ qtyToReserve \in Nat
      BY RowsAssumption, Max0Type DEF TypeOK, Least, Available
    <3>2. Reserve(job[h].order, qtyToReserve) /\ Goto(h, "ship")
          /\ UNCHANGED <<status, shipVars, lock, posted>>
      BY <2>2 DEF reserveStock
    <3>3. StockType' /\ job' \in [Handlers -> Request]
      BY <3>1, <3>2, ReserveType, GotoType DEF At
    <3> QED
      BY <3>2, <3>3 DEF TypeOK, StockType, Request, shipVars
  <2>3. CASE createShipment(h)
    BY <2>3, DoneType
    DEF createShipment, ShipStatus, TypeOK, Request, shipVars, stockVars
  <2>4. CASE partiallyAccept(h)
    BY <2>4, DoneType
    DEF partiallyAccept, Status, TypeOK, Request, shipVars, stockVars
  <2>5. CASE rejectReadsLedger(h)
    BY <2>5, OwedType
    DEF rejectReadsLedger, At, TypeOK, Request, shipVars, stockVars
  <2>6. CASE rejectReleases(h)
    BY <2>6, ReleaseType, GotoType
    DEF rejectReleases, StockType, At, TypeOK, Request, shipVars, stockVars
  <2>7. CASE rejectWrites(h)
    BY <2>7, DoneType
    DEF rejectWrites, Status, TypeOK, Request, shipVars, stockVars
  <2>8. CASE flipConflict(h)
    BY <2>8, DoneType
    DEF flipConflict, TypeOK, Request, shipVars, stockVars
  <2>9. CASE plainFlip(h)
    <3>1. job' \in [Handlers -> Request]
      <4>1. Goto(h, "reserve") \/ Goto(h, "shipment") \/ Done(h)
        BY <2>9 DEF plainFlip
      <4> QED
        BY <4>1, DoneType, GotoType DEF At
    <3> QED
      BY <2>9, <3>1 DEF plainFlip, TypeOK, Request, shipVars, stockVars
  <2>10. CASE settlingFlip(h)
    <3>1. Owed(job[h].order) \in Nat
      BY OwedType DEF TypeOK
    <3>2. lock' \in [Orders -> Handlers \cup {NoHandler}]
      BY <2>10 DEF settlingFlip, TypeOK
    <3> DEFINE r == [job[h] EXCEPT !.owed = Owed(job[h].order),
                       !.at = IF job[h].op = "cancel" THEN "settle" ELSE "commit"]
    <3>3. job' = [job EXCEPT ![h] = r]
      BY <2>10 DEF settlingFlip, TypeOK
    <3>4. r \in Request
      <4>1. job[h] \in Request
        BY DEF TypeOK, Request
      <4> QED
        BY <3>1, <4>1 DEF Request, At
    <3>5. job' \in [Handlers -> Request]
      BY <3>3, <3>4, JobType
    <3>6. UNCHANGED <<status, shipVars, stockVars, posted>>
      BY <2>10 DEF settlingFlip
    <3> QED
      BY <3>2, <3>5, <3>6 DEF TypeOK, Request, shipVars, stockVars
  <2>11. CASE fulfilShipment(h)
    <3>1. job[h].to \in ShipStatus
      BY <2>11 DEF fulfilShipment, RequestsOK, WellFormed, FulfilStatus, ShipStatus
    <3> QED
      BY <2>11, <3>1, DoneType DEF fulfilShipment, TypeOK, Request, stockVars
  <2>12. CASE cancelShipmentWrites(h)
    BY <2>12, DoneType
    DEF cancelShipmentWrites, ShipStatus, TypeOK, Request, shipVars, stockVars
  <2>13. CASE transitionCommits(h)
    <3>1. StockType'
      BY <2>13, ReleaseType, SellType DEF transitionCommits, TypeOK
    <3> QED
      BY <2>13, <3>1, CommitType DEF transitionCommits, TypeOK, StockType, Request, shipVars
  <2>14. CASE cancelReadsShipment(h)
    BY <2>14
    DEF cancelReadsShipment, At, TypeOK, Request, shipVars, stockVars
  <2>15. CASE cancelCommits(h)
    <3>1. StockType'
      BY <2>15, ReleaseType DEF cancelCommits, TypeOK
    <3>2. /\ ship' \in [Orders -> ShipStatus]
          /\ cancelledAt' \in [Orders -> BOOLEAN]
      BY <2>15 DEF cancelCommits, TypeOK, ShipStatus
    <3>3. exc' \in [Orders -> ExcStatus]
      BY <2>15 DEF cancelCommits, TypeOK, ExcStatus
    <3> QED
      BY <2>15, <3>1, <3>2, <3>3, CommitType
      DEF cancelCommits, TypeOK, StockType, Request
  <2>16. CASE deliveryCommits(h)
    <3>1. StockType'
      BY <2>16, SellType DEF deliveryCommits, TypeOK
    <3> QED
      BY <2>16, <3>1, CommitType
      DEF deliveryCommits, TypeOK, StockType, Request, ShipStatus, ExcStatus
  <2>17. CASE exceptionRechecks(h)
    BY <2>17, DoneType, GotoType
    DEF exceptionRechecks, At, TypeOK, Request, shipVars, stockVars
  <2>18. CASE exceptionClaims(h)
    <3>1. ExcTo[job[h].op] \in ExcStatus
      BY <2>18 DEF exceptionClaims, ExcTo, ExcFrom, ExcStatus, RequestsOK, WellFormed
    <3>2. exc' \in [Orders -> ExcStatus] /\ excType' \in [Orders -> ExcType]
      BY <2>18, <3>1 DEF exceptionClaims, TypeOK
    <3> QED
      BY <2>18, <3>2, DoneType DEF exceptionClaims, TypeOK, Request, stockVars
  <2>19. CASE returnViews(h)
    <3>1. Max0(Returnable(job[h].order)) \in Nat
      BY Max0Type DEF Returnable, TypeOK
    <3> QED
      BY <2>19, <3>1, DoneType
      DEF returnViews, TypeOK, Request, At, shipVars, stockVars
  <2>20. ASSUME NEW k \in 1..(Qty[job[h].order] + 1), NEW c \in Condition,
               returnCommits(h, k, c)
        PROVE  TypeOK'
    <3>1. k \in Nat
      BY RowsAssumption DEF TypeOK
    <3>2. StockType'
      <4>1. CASE UNCHANGED stockVars
        BY <4>1 DEF TypeOK, StockType, stockVars
      <4>2. CASE ~ UNCHANGED stockVars
        <5> DEFINE o == job[h].order
        <5>1. o \in Orders /\ Max0(reserved - k) \in Nat /\ Max0(onHand - k) \in Nat
          BY <3>1, Max0Type DEF TypeOK
        <5>2. /\ reserved' = Max0(reserved - k)
              /\ rel' = [rel EXCEPT ![o] = @ + k]
              /\ back' = [back EXCEPT ![o] = @ + k]
              /\ onHand' \in {Max0(onHand - k), onHand}
              /\ prints' = [prints EXCEPT ![o] = @ \cup {<<k, c>>}]
              /\ UNCHANGED <<resv, sold>>
          BY <2>20, <4>2 DEF returnCommits
        <5> QED
          BY <3>1, <5>1, <5>2 DEF TypeOK, StockType
      <4> QED
        BY <4>1, <4>2
    <3> QED
      BY <2>20, <3>2, DoneType DEF TypeOK, StockType, Request, returnCommits, shipVars
  <2> QED
    BY <1>5, <2>1, <2>2, <2>3, <2>4, <2>5, <2>6, <2>7, <2>8, <2>9, <2>10, <2>11, <2>12,
       <2>13, <2>14, <2>15, <2>16, <2>17, <2>18, <2>19, <2>20
    DEF Step
<1> QED
  BY <1>1, <1>2, <1>3, <1>4, <1>5 DEF Next

(* Every request in flight stays well formed. *)
LEMMA NoJobWellFormed == WellFormed(NoJob) /\ NoJob.at = "idle"
BY NoJobType DEF NoJob, WellFormed

LEMMA ReplaceWellFormed ==
  ASSUME TypeOK, RequestsOK, NEW h \in Handlers, NEW r \in Request,
         job' = [job EXCEPT ![h] = r], WellFormed(r)
  PROVE  RequestsOK'
BY DEF TypeOK, RequestsOK, WellFormed, Target, Edge

LEMMA DoneWellFormed ==
  ASSUME TypeOK, RequestsOK, NEW h \in Handlers, Done(h)
  PROVE  RequestsOK'
BY NoJobWellFormed, NoJobType, ReplaceWellFormed DEF Done

LEMMA RequestStep == ASSUME TypeOK, RequestsOK, [Next]_vars PROVE RequestsOK'
<1>1. CASE UNCHANGED job
  BY <1>1 DEF RequestsOK, WellFormed, Target, Edge
<1>2. ASSUME NEW o \in Orders, checkoutGate(o) \/ paymentConfirmed(o) \/ paymentExpired(o)
      PROVE  RequestsOK'
  BY <1>1, <1>2 DEF checkoutGate, paymentConfirmed, paymentExpired
<1>3. ASSUME NEW h \in Handlers, Abort(h) PROVE RequestsOK'
  BY <1>3, DoneWellFormed DEF Abort
<1>4. ASSUME NEW h \in Handlers, NEW o \in Orders, Begin(h, o) PROVE RequestsOK'
  BY <1>4, BeginShape, ReplaceWellFormed
<1>5. ASSUME NEW h \in Handlers, Step(h) PROVE RequestsOK'
  <2>1. job[h] \in Request /\ WellFormed(job[h]) /\ job[h].order \in Orders
    BY DEF TypeOK, Request, RequestsOK
  <2>2. CASE \/ createShipment(h) \/ partiallyAccept(h) \/ rejectWrites(h)
            \/ flipConflict(h) \/ fulfilShipment(h) \/ cancelShipmentWrites(h)
            \/ transitionCommits(h) \/ cancelCommits(h) \/ deliveryCommits(h)
            \/ exceptionClaims(h)
    <3>1. Done(h)
      BY <2>2 DEF Commit, createShipment, partiallyAccept, rejectWrites, flipConflict,
        fulfilShipment, cancelShipmentWrites, transitionCommits, cancelCommits,
        deliveryCommits, exceptionClaims
    <3> QED
      BY <3>1, DoneWellFormed
  <2>3. CASE autoAdvance(h)
    <3> DEFINE r == [job[h] EXCEPT !.seen = "PENDING_CONFIRMATION", !.at = Deciding(job[h].op)]
    <3>1. r \in Request
      BY <2>1 DEF Request, At, Status, Deciding
    <3>2. job' = [job EXCEPT ![h] = r]
      BY <2>3, <2>1 DEF autoAdvance, TypeOK, Request
    <3>3. WellFormed(r)
      <4>1. /\ r.op \in {"accept", "partial", "reject"} /\ r.op \in Ops
            /\ r.op = "accept" => r.to = "ACCEPTED"
            /\ r.seen = "PENDING_CONFIRMATION"
            /\ r.at = Deciding(r.op)
        BY <2>1, <2>3 DEF autoAdvance, Request, WellFormed
      <4>2. CASE r.op = "accept"
        <5>1. Target(r)
          BY <4>1, <4>2 DEF Target, Edge, TRANSITIONS
        <5> QED
          BY <4>1, <4>2, <5>1 DEF WellFormed, Deciding
      <4>3. CASE r.op # "accept"
        BY <4>1, <4>3 DEF WellFormed, Deciding
      <4> QED
        BY <4>2, <4>3
    <3> QED
      BY <3>1, <3>2, <3>3, ReplaceWellFormed
  <2>4. CASE reserveStock(h)
    <3> DEFINE r == [job[h] EXCEPT !.at = "ship"]
    <3>1. r \in Request
      BY <2>1 DEF Request, At
    <3>2. job' = [job EXCEPT ![h] = r]
      BY <2>4, <2>1 DEF reserveStock, TypeOK, Request, Goto
    <3>3. WellFormed(r)
      BY <2>1, <2>4 DEF reserveStock, Request, WellFormed, Goto
    <3> QED
      BY <3>1, <3>2, <3>3, ReplaceWellFormed
  <2>5. CASE rejectReadsLedger(h)
    <3> DEFINE r == [job[h] EXCEPT !.owed = Owed(job[h].order),
                     !.at = IF Owed(job[h].order) > 0 THEN "release" ELSE "write"]
    <3>1. r \in Request
      BY <2>1, OwedType DEF Request, At
    <3>2. job' = [job EXCEPT ![h] = r]
      BY <2>5, <2>1 DEF rejectReadsLedger, TypeOK, Request
    <3>3. WellFormed(r)
      BY <2>1, <2>5 DEF rejectReadsLedger, Request, WellFormed
    <3> QED
      BY <3>1, <3>2, <3>3, ReplaceWellFormed
  <2>6. CASE rejectReleases(h)
    <3> DEFINE r == [job[h] EXCEPT !.at = "write"]
    <3>1. r \in Request
      BY <2>1 DEF Request, At
    <3>2. job' = [job EXCEPT ![h] = r]
      BY <2>6, <2>1 DEF rejectReleases, TypeOK, Request, Goto
    <3>3. WellFormed(r)
      BY <2>1, <2>6 DEF rejectReleases, Request, WellFormed, Goto
    <3> QED
      BY <3>1, <3>2, <3>3, ReplaceWellFormed
  <2>7. CASE settlingFlip(h)
    <3> DEFINE r == [job[h] EXCEPT !.owed = Owed(job[h].order),
                     !.at = IF job[h].op = "cancel" THEN "settle" ELSE "commit"]
    <3>1. r \in Request
      BY <2>1, OwedType DEF Request, At
    <3>2. job' = [job EXCEPT ![h] = r]
      BY <2>7, <2>1 DEF settlingFlip, TypeOK, Request
    <3>3. WellFormed(r)
      BY <2>1, <2>7 DEF settlingFlip, Request, WellFormed, AtFlip, Target
    <3> QED
      BY <3>1, <3>2, <3>3, ReplaceWellFormed
  <2>8. CASE cancelReadsShipment(h)
    <3> DEFINE r == [job[h] EXCEPT !.ship = ship[job[h].order], !.at = "commit"]
    <3>1. r \in Request
      BY <2>1 DEF Request, TypeOK, At
    <3>2. job' = [job EXCEPT ![h] = r]
      BY <2>8, <2>1 DEF cancelReadsShipment, TypeOK, Request
    <3>3. WellFormed(r)
      BY <2>1, <2>8 DEF cancelReadsShipment, Request, WellFormed, Target
    <3> QED
      BY <3>1, <3>2, <3>3, ReplaceWellFormed
  <2>9. CASE plainFlip(h)
    <3>1. CASE Done(h)
      BY <3>1, DoneWellFormed
    <3>2. CASE ~Done(h)
      <4> DEFINE r == [job[h] EXCEPT !.at = IF job[h].op = "accept" THEN "reserve"
                                                   ELSE "shipment"]
      <4>1. job' = [job EXCEPT ![h] = r] /\ job[h].op \in {"accept", "fulfil"}
        BY <2>9, <2>1, <3>2 DEF plainFlip, Goto, TypeOK, Request
      <4>2. r \in Request
        BY <2>1 DEF Request, At
      <4>3. WellFormed(r)
        BY <2>1, <2>9, <4>1 DEF plainFlip, AtFlip, Request, WellFormed, Target
      <4> QED
        BY <4>1, <4>2, <4>3, ReplaceWellFormed
    <3> QED
      BY <3>1, <3>2
  <2>10. CASE exceptionRechecks(h)
    <3>1. CASE Done(h)
      BY <3>1, DoneWellFormed
    <3>2. CASE ~Done(h)
      <4> DEFINE r == [job[h] EXCEPT !.at = "claim"]
      <4>1. job' = [job EXCEPT ![h] = r] /\ job[h].at = "recheck"
        BY <2>10, <2>1, <3>2 DEF exceptionRechecks, Goto, TypeOK, Request
      <4>2. r \in Request
        BY <2>1 DEF Request, At
      <4>3. WellFormed(r)
        BY <2>1, <4>1 DEF Request, WellFormed
      <4> QED
        BY <4>1, <4>2, <4>3, ReplaceWellFormed
    <3> QED
      BY <3>1, <3>2
  <2>11. CASE returnViews(h)
    <3>1. CASE Done(h)
      BY <3>1, DoneWellFormed
    <3>2. CASE ~Done(h)
      <4> DEFINE r == [job[h] EXCEPT !.owed = Max0(Returnable(job[h].order)), !.at = "return"]
      <4>1. job' = [job EXCEPT ![h] = r] /\ job[h].at = "view"
        BY <2>11, <2>1, <3>2 DEF returnViews, TypeOK, Request
      <4>2. Max0(Returnable(job[h].order)) \in Nat
        BY <2>1, Max0Type DEF Returnable, TypeOK
      <4>3. r \in Request
        BY <2>1, <4>2 DEF Request, At
      <4>4. WellFormed(r)
        BY <2>1, <4>1 DEF Request, WellFormed
      <4> QED
        BY <4>1, <4>3, <4>4, ReplaceWellFormed
    <3> QED
      BY <3>1, <3>2
  <2>12. ASSUME NEW k \in 1..(Qty[job[h].order] + 1), NEW c \in Condition,
               returnCommits(h, k, c)
        PROVE  RequestsOK'
    BY <2>12, DoneWellFormed DEF returnCommits
  <2> QED
    BY <1>5, <2>2, <2>3, <2>4, <2>5, <2>6, <2>7, <2>8, <2>9, <2>10, <2>11, <2>12 DEF Step
<1> QED
  BY <1>1, <1>2, <1>3, <1>4, <1>5 DEF Next, vars

\* Every variable keeps its type, and a request carries what its step relies on.
THEOREM Typing == Spec => [](TypeOK /\ RequestsOK)
<1>1. Init => TypeOK /\ RequestsOK
  BY NoJobType, NoJobWellFormed, RowsAssumption
  DEF Init, TypeOK, RequestsOK, Request, Status, ShipStatus, ExcStatus, ExcType
<1>2. TypeOK /\ RequestsOK /\ [Next]_vars => (TypeOK /\ RequestsOK)'
  BY TypeStep, RequestStep
<1> QED
  BY <1>1, <1>2, PTL DEF Spec

-----------------------------------------------------------------------------
(* Stock: what a step can do to the inventory row and the ledger. *)

\* returnCommits, when it takes a parcel back.
TakeBack(o, k) ==
  /\ k <= Returnable(o)
  /\ reserved' = Max0(reserved - k)
  /\ onHand' \in {onHand, Max0(onHand - k)}
  /\ rel' = [rel EXCEPT ![o] = @ + k]
  /\ back' = [back EXCEPT ![o] = @ + k]
  /\ UNCHANGED <<resv, sold>>

\* An acceptance reserves: no more than was ordered, or than is available.
SetsAside(h, q) ==
  /\ job[h].at = "reserve" /\ Goto(h, "ship")
  /\ Reserve(job[h].order, q)
  /\ q <= Qty[job[h].order] /\ q <= Max0(Available)

\* A settling transaction commits: it sells what it owes to a delivery, and
\* releases what it owes to anything else.
Settles(h) ==
  LET o == job[h].order
  IN /\ job[h].at = "commit" /\ Commit(h)
     /\ IF job[h].to = "DELIVERED" THEN Sell(o, job[h].owed) ELSE Release(o, job[h].owed)

\* A step leaves the stock alone, sets aside at most what is available, settles
\* (a rejection outside a transaction), or takes back at most what is returnable.
LEMMA StockStep ==
  ASSUME TypeOK, RequestsOK, [Next]_vars
  PROVE  \/ UNCHANGED stockVars
         \/ \E h \in Handlers, q \in Nat : SetsAside(h, q)
         \/ \E h \in Handlers : Settles(h)
         \/ \E h \in Handlers : job[h].at = "release" /\ Release(job[h].order, job[h].owed)
         \/ \E h \in Handlers, k \in Nat : job[h].at = "return" /\ TakeBack(job[h].order, k)
<1> DEFINE Goal == \/ UNCHANGED stockVars
                   \/ \E h \in Handlers, q \in Nat : SetsAside(h, q)
                   \/ \E h \in Handlers : Settles(h)
                   \/ \E h \in Handlers :
                        job[h].at = "release" /\ Release(job[h].order, job[h].owed)
                   \/ \E h \in Handlers, k \in Nat :
                        job[h].at = "return" /\ TakeBack(job[h].order, k)
<1>1. CASE UNCHANGED vars
  BY <1>1 DEF vars
<1>2. ASSUME NEW o \in Orders, checkoutGate(o) \/ paymentConfirmed(o) \/ paymentExpired(o)
      PROVE  Goal
  BY <1>2 DEF checkoutGate, paymentConfirmed, paymentExpired
<1>3. ASSUME NEW h \in Handlers, Abort(h) PROVE Goal
  BY <1>3 DEF Abort
<1>4. ASSUME NEW h \in Handlers, NEW o \in Orders, Begin(h, o) PROVE Goal
  BY <1>4, BeginShape
<1>5. ASSUME NEW h \in Handlers, Step(h) PROVE Goal
  <2>1. job[h].order \in Orders /\ job[h].owed \in Nat /\ Qty[job[h].order] \in Nat
    BY RowsAssumption DEF TypeOK
  <2>2. CASE reserveStock(h)
    <3> DEFINE qtyToReserve == Max0(Least(Qty[job[h].order], Available))
    <3>1. /\ qtyToReserve \in Nat
          /\ qtyToReserve <= Qty[job[h].order] /\ qtyToReserve <= Max0(Available)
      BY <2>1 DEF Max0, Least, Available, TypeOK
    <3>2. SetsAside(h, qtyToReserve)
      BY <2>2, <3>1 DEF reserveStock, SetsAside
    <3> QED
      BY <3>1, <3>2
  <2>3. CASE rejectReleases(h) \/ transitionCommits(h) \/ cancelCommits(h) \/ deliveryCommits(h)
    <3>1. CASE rejectReleases(h)
      BY <3>1 DEF rejectReleases
    <3>2. CASE transitionCommits(h) \/ cancelCommits(h) \/ deliveryCommits(h)
      <4>1. job[h].at = "commit" /\ Target(job[h])
        BY <3>2 DEF transitionCommits, cancelCommits, deliveryCommits, RequestsOK, WellFormed
      <4>2. Settles(h)
        BY <3>2, <4>1
        DEF transitionCommits, cancelCommits, deliveryCommits, Settles, Target
      <4> QED
        BY <4>2
    <3> QED
      BY <2>3, <3>1, <3>2
  <2>4. ASSUME NEW k \in 1..(Qty[job[h].order] + 1), NEW c \in Condition,
               returnCommits(h, k, c)
        PROVE  Goal
    <3>1. k \in Nat /\ Remaining(h) \in Int
      BY <2>1 DEF Remaining, Returnable, TypeOK
    <3>2. CASE UNCHANGED stockVars
      BY <3>2
    <3>3. CASE ~ UNCHANGED stockVars
      <4>1. k <= Remaining(h)
        BY <2>4, <3>1, <3>3 DEF returnCommits
      <4>2. job[h].at = "return" /\ TakeBack(job[h].order, k)
        BY <2>4, <3>3, <4>1 DEF returnCommits, TakeBack, Remaining
      <4> QED
        BY <3>1, <4>2
    <3> QED
      BY <3>2, <3>3
  <2>5. CASE \/ autoAdvance(h) \/ createShipment(h) \/ partiallyAccept(h)
             \/ rejectReadsLedger(h) \/ rejectWrites(h)
             \/ flipConflict(h) \/ plainFlip(h) \/ settlingFlip(h)
             \/ fulfilShipment(h) \/ cancelShipmentWrites(h) \/ cancelReadsShipment(h)
             \/ exceptionRechecks(h) \/ exceptionClaims(h) \/ returnViews(h)
    <3>1. UNCHANGED stockVars
      BY <2>5 DEF autoAdvance, createShipment, partiallyAccept, rejectReadsLedger,
                  rejectWrites, flipConflict, plainFlip, settlingFlip, fulfilShipment,
                  cancelShipmentWrites, cancelReadsShipment, exceptionRechecks,
                  exceptionClaims, returnViews
    <3> QED
      BY <3>1
  <2> QED
    BY <1>5, <2>2, <2>3, <2>4, <2>5 DEF Step
<1> QED
  BY <1>1, <1>2, <1>3, <1>4, <1>5 DEF Next

\* In particular it sets aside, releases, sells or takes back for one order.
LEMMA StockMoves ==
  ASSUME TypeOK, RequestsOK, [Next]_vars
  PROVE  \/ UNCHANGED stockVars
         \/ \E o \in Orders, q \in Nat : Reserve(o, q) /\ q <= Max0(Available)
         \/ \E o \in Orders, q \in Nat : Release(o, q) \/ Sell(o, q)
         \/ \E o \in Orders, k \in Nat : TakeBack(o, k)
<1>1. \A h \in Handlers : job[h].order \in Orders /\ job[h].owed \in Nat
  BY DEF TypeOK
<1>2. \A h \in Handlers : Settles(h)
        => Release(job[h].order, job[h].owed) \/ Sell(job[h].order, job[h].owed)
  BY DEF Settles
<1>3. \A h \in Handlers, q \in Nat : SetsAside(h, q)
        => Reserve(job[h].order, q) /\ q <= Max0(Available)
  BY DEF SetsAside
<1> QED
  BY <1>1, <1>2, <1>3, StockStep

\* The inventory row never promises more units than it holds: every movement that
\* takes units off the shelf takes them off the reservation too, floor for floor.
THEOREM NeverOversold == Spec => []NoOversell
<1>1. Init => NoOversell
  BY RowsAssumption DEF Init, NoOversell
<1>2. TypeOK /\ RequestsOK /\ NoOversell /\ [Next]_vars => NoOversell'
  <2> SUFFICES ASSUME TypeOK, RequestsOK, NoOversell, [Next]_vars PROVE NoOversell'
    OBVIOUS
  <2>1. CASE UNCHANGED stockVars
    BY <2>1 DEF NoOversell, stockVars
  <2>2. ASSUME NEW o \in Orders, NEW q \in Nat, Reserve(o, q), q <= Max0(Available)
        PROVE  NoOversell'
    BY <2>2 DEF Reserve, Max0, Available, NoOversell, TypeOK
  <2>3. ASSUME NEW o \in Orders, NEW q \in Nat, Release(o, q) \/ Sell(o, q)
        PROVE  NoOversell'
    BY <2>3 DEF Release, Sell, Max0, NoOversell, TypeOK
  <2>4. ASSUME NEW o \in Orders, NEW k \in Nat, TakeBack(o, k) PROVE NoOversell'
    BY <2>4 DEF TakeBack, Max0, NoOversell, TypeOK
  <2> QED
    BY <2>1, <2>2, <2>3, <2>4, StockMoves
<1> QED
  BY <1>1, <1>2, Typing, PTL DEF Spec

\* Returns of an order never add up to more than it reserved, however many are
\* recorded at once: each is capped by the ledger it reads under the row lock.
THEOREM ReturnsAreCapped == Spec => []ReturnsCapped
<1>1. Init => ReturnsCapped
  BY DEF Init, ReturnsCapped
<1>2. TypeOK /\ RequestsOK /\ ReturnsCapped /\ [Next]_vars => ReturnsCapped'
  <2> SUFFICES ASSUME TypeOK, RequestsOK, ReturnsCapped, [Next]_vars PROVE ReturnsCapped'
    OBVIOUS
  <2>1. CASE UNCHANGED stockVars
    BY <2>1 DEF ReturnsCapped, stockVars
  <2>2. ASSUME NEW o \in Orders, NEW q \in Nat, Reserve(o, q) PROVE ReturnsCapped'
    BY <2>2 DEF Reserve, ReturnsCapped, TypeOK
  <2>3. ASSUME NEW o \in Orders, NEW q \in Nat, Release(o, q) \/ Sell(o, q)
        PROVE  ReturnsCapped'
    BY <2>3 DEF Release, Sell, ReturnsCapped
  <2>4. ASSUME NEW o \in Orders, NEW k \in Nat, TakeBack(o, k) PROVE ReturnsCapped'
    BY <2>4 DEF TakeBack, Returnable, ReturnsCapped, TypeOK
  <2> QED
    BY <2>1, <2>2, <2>3, <2>4, StockMoves
<1> QED
  BY <1>1, <1>2, Typing, PTL DEF Spec

-----------------------------------------------------------------------------
(* A parcel reported LOST: the type of an exception is written once, with the *)
(* first report, and a return begins only after an exception was reported.    *)

Reported(o) == exc[o] # "none" /\ excType[o] # "LOST"

ReturnsReported ==
  /\ \A o \in Orders : back[o] > 0 => Reported(o)
  /\ \A h \in Handlers : job[h].at \in {"view", "return"} => Reported(job[h].order)

LEMMA ReportedStep ==
  ASSUME TypeOK, RequestsOK, [Next]_vars, NEW o \in Orders, Reported(o)
  PROVE  Reported(o)'
<1>1. CASE UNCHANGED <<exc, excType>>
  BY <1>1 DEF Reported
<1>2. ASSUME NEW h \in Handlers, cancelCommits(h) PROVE Reported(o)'
  BY <1>2 DEF cancelCommits, Reported, TypeOK
<1>3. ASSUME NEW h \in Handlers, deliveryCommits(h) PROVE Reported(o)'
  BY <1>3 DEF deliveryCommits, Reported, TypeOK
<1>4. ASSUME NEW h \in Handlers, exceptionClaims(h) PROVE Reported(o)'
  <2>1. CASE exc[job[h].order] # ExcFrom[job[h].op]
    BY <1>1, <1>4, <2>1 DEF exceptionClaims
  <2>2. CASE exc[job[h].order] = ExcFrom[job[h].op] /\ job[h].op = "report"
    <3>1. job[h].order # o
      BY <2>2 DEF ExcFrom, Reported
    <3> QED
      BY <1>4, <2>2, <3>1 DEF exceptionClaims, Reported, TypeOK
  <2>3. CASE exc[job[h].order] = ExcFrom[job[h].op] /\ job[h].op # "report"
    <3>1. job[h].op \in DOMAIN ExcFrom
      BY <1>4 DEF exceptionClaims, RequestsOK, WellFormed
    <3>2. ExcTo[job[h].op] # "none"
      BY <3>1 DEF ExcTo, ExcFrom
    <3> QED
      BY <1>4, <2>3, <3>2 DEF exceptionClaims, Reported, TypeOK
  <2> QED
    BY <2>1, <2>2, <2>3
<1>5. \/ UNCHANGED <<exc, excType>>
      \/ \E h \in Handlers : cancelCommits(h) \/ deliveryCommits(h) \/ exceptionClaims(h)
  <2>1. CASE UNCHANGED vars
    BY <2>1 DEF vars, shipVars
  <2>2. ASSUME NEW p \in Orders, checkoutGate(p) \/ paymentConfirmed(p) \/ paymentExpired(p)
        PROVE  UNCHANGED <<exc, excType>>
    BY <2>2 DEF checkoutGate, paymentConfirmed, paymentExpired, shipVars
  <2>3. ASSUME NEW h \in Handlers, Abort(h) PROVE UNCHANGED <<exc, excType>>
    BY <2>3 DEF Abort, shipVars
  <2>4. ASSUME NEW h \in Handlers, NEW p \in Orders, Begin(h, p)
        PROVE  UNCHANGED <<exc, excType>>
    BY <2>4, BeginShape DEF shipVars
  <2>5. ASSUME NEW h \in Handlers, Step(h)
        PROVE  UNCHANGED <<exc, excType>> \/ cancelCommits(h) \/ deliveryCommits(h)
                 \/ exceptionClaims(h)
    BY <2>5 DEF Step, autoAdvance, reserveStock, createShipment, partiallyAccept,
                rejectReadsLedger, rejectReleases, rejectWrites, flipConflict, plainFlip,
                settlingFlip, fulfilShipment, cancelShipmentWrites, transitionCommits,
                cancelReadsShipment, exceptionRechecks, returnViews, returnCommits, shipVars
  <2> QED
    BY <2>1, <2>2, <2>3, <2>4, <2>5 DEF Next
<1> QED
  BY <1>1, <1>2, <1>3, <1>4, <1>5

\* A request reaches the steps of a return from the precheck of recordReturn.
LEMMA ReturnRequests ==
  ASSUME TypeOK, [Next]_vars, NEW h \in Handlers, job'[h].at \in {"view", "return"}
  PROVE  \/ job[h].at \in {"view", "return"} /\ job'[h].order = job[h].order
         \/ Restockable(job'[h].order) /\ UNCHANGED shipVars
<1> DEFINE Goal == \/ job[h].at \in {"view", "return"} /\ job'[h].order = job[h].order
                   \/ Restockable(job'[h].order) /\ UNCHANGED shipVars
<1>1. CASE UNCHANGED job
  BY <1>1
<1>2. ASSUME NEW g \in Handlers, Done(g) PROVE Goal
  BY <1>2, NoJobWellFormed DEF Done, TypeOK
<1>3. ASSUME NEW g \in Handlers, NEW p \in Orders, Begin(g, p) PROVE Goal
  BY <1>3, BeginShape DEF TypeOK
<1>4. ASSUME NEW g \in Handlers, Step(g) PROVE Goal
  <2>1. CASE Done(g)
    BY <1>2, <2>1
  <2>2. CASE returnViews(g)
    BY <1>2, <2>2 DEF returnViews, TypeOK
  <2>3. CASE \/ autoAdvance(g) \/ reserveStock(g) \/ rejectReadsLedger(g) \/ rejectReleases(g)
             \/ (plainFlip(g) /\ ~Done(g)) \/ settlingFlip(g) \/ cancelReadsShipment(g)
             \/ (exceptionRechecks(g) /\ ~Done(g))
    <3>1. g # h => job'[h] = job[h]
      BY <2>3 DEF autoAdvance, reserveStock, rejectReadsLedger, rejectReleases, plainFlip,
                  settlingFlip, cancelReadsShipment, exceptionRechecks, Goto, TypeOK
    <3>2. g = h => job'[h].at \notin {"view", "return"}
      BY <2>3 DEF autoAdvance, reserveStock, rejectReadsLedger, rejectReleases, plainFlip,
                  settlingFlip, cancelReadsShipment, exceptionRechecks, Goto, TypeOK, Deciding
    <3> QED
      BY <3>1, <3>2
  <2>4. ASSUME NEW k \in 1..(Qty[job[g].order] + 1), NEW c \in Condition,
               returnCommits(g, k, c)
        PROVE  Done(g)
    BY <2>4 DEF returnCommits
  <2>5. ASSUME \/ createShipment(g) \/ partiallyAccept(g) \/ rejectWrites(g)
               \/ flipConflict(g) \/ fulfilShipment(g) \/ cancelShipmentWrites(g)
               \/ transitionCommits(g) \/ cancelCommits(g) \/ deliveryCommits(g)
               \/ exceptionClaims(g)
        PROVE  Done(g)
    BY <2>5 DEF Commit, createShipment, partiallyAccept, rejectWrites, flipConflict,
        fulfilShipment, cancelShipmentWrites, transitionCommits, cancelCommits,
        deliveryCommits, exceptionClaims
  <2> QED
    BY <1>4, <2>1, <2>2, <2>3, <2>4, <2>5 DEF Step
<1> QED
  BY <1>1, <1>2, <1>3, <1>4
  DEF Next, vars, Abort, checkoutGate, paymentConfirmed, paymentExpired

\* A LOST parcel is never restocked, although recordReturn checks the type of the
\* exception long before it writes: nothing changes a type once it is reported.
THEOREM LostIsNeverRestocked == Spec => []LostNeverRestocked
<1> DEFINE IInv == ReturnsReported
<1>1. Init => IInv
  BY NoJobWellFormed DEF Init, ReturnsReported
<1>2. TypeOK /\ RequestsOK /\ IInv /\ [Next]_vars => IInv'
  <2> SUFFICES ASSUME TypeOK, RequestsOK, IInv, [Next]_vars PROVE IInv'
    OBVIOUS
  <2>1. ASSUME NEW h \in Handlers, job'[h].at \in {"view", "return"},
               NEW o \in Orders, job'[h].order = o
        PROVE  Reported(o)'
    <3>1. CASE job[h].at \in {"view", "return"} /\ job'[h].order = job[h].order
      BY <2>1, <3>1, ReportedStep DEF ReturnsReported
    <3>2. CASE Restockable(job'[h].order) /\ UNCHANGED shipVars
      BY <2>1, <3>2 DEF Restockable, Reported, shipVars
    <3> QED
      BY <2>1, <3>1, <3>2, ReturnRequests
  <2>2. ASSUME NEW o \in Orders, back'[o] > 0 PROVE Reported(o)'
    <3>1. CASE back'[o] = back[o]
      BY <2>2, <3>1, ReportedStep DEF ReturnsReported
    <3>2. CASE back'[o] # back[o]
      <4>1. \E h \in Handlers, k \in Nat : job[h].at = "return" /\ TakeBack(job[h].order, k)
        BY <3>2, StockStep DEF Settles, SetsAside, Reserve, Release, Sell, stockVars
      <4>2. PICK h \in Handlers : job[h].at = "return" /\ job[h].order = o
        BY <3>2, <4>1 DEF TakeBack, TypeOK
      <4> QED
        BY <4>2, ReportedStep DEF ReturnsReported
    <3> QED
      BY <3>1, <3>2
  <2>3. TypeOK'
    BY TypeStep
  <2> QED
    BY <2>1, <2>2, <2>3 DEF ReturnsReported, Reported, TypeOK
<1>3. TypeOK /\ IInv => LostNeverRestocked
  BY DEF ReturnsReported, Reported, LostNeverRestocked, TypeOK
<1> QED
  BY <1>1, <1>2, <1>3, Typing, PTL DEF Spec

-----------------------------------------------------------------------------
(* The rows that settling transactions hold.                                   *)

\* A settling transaction holds the row it flipped, and the row still says what the
\* request read: nobody else writes an order's status while it is locked.
RowsLocked ==
  \A h \in Handlers : job[h].at \in {"settle", "commit"} =>
    /\ lock[job[h].order] = h
    /\ status[job[h].order] = job[h].seen

\* What a request is about to release or sell is still unsettled.
Owes ==
  \A h \in Handlers : job[h].at \in {"settle", "commit"} =>
    job[h].owed <= Outstanding(job[h].order)

\* The statuses no request leaves but for a completion or a dispute, and those of
\* an order that nobody has accepted, rejected or cancelled yet.
Final == {"CANCELLED", "REJECTED", "DELIVERED", "COMPLETED", "DISPUTED"}
Undecided == {"DRAFT", "SUBMITTED", "PENDING_CONFIRMATION", "PAYMENT_PENDING", "PAYMENT_CONFIRMED"}

\* The matrix, with cancelOrder's own edges.
LEMMA EdgeFacts ==
  ASSUME NEW from \in Status, NEW to \in Status, Edge(from, to)
  PROVE  /\ from \notin {"CANCELLED", "REJECTED"}
         /\ from \in Final => to \in {"COMPLETED", "DISPUTED"}
         /\ from \notin Undecided => to \notin Undecided
         /\ to = "ACCEPTED" => from \in Undecided
         /\ to \notin {"DRAFT", "SUBMITTED"} \/ from = "DRAFT"
BY DEF Edge, TRANSITIONS, Status, Cancellable, Final, Undecided

\* A request's record changes only by a step of its own.
LEMMA RecordStep ==
  ASSUME TypeOK, [Next]_vars, NEW g \in Handlers, job'[g] # job[g]
  PROVE  \/ Done(g)
         \/ Step(g)
         \/ \E o \in Orders : Begin(g, o)
<1>1. ASSUME NEW h \in Handlers, h # g, \/ Done(h) \/ Step(h) \/ \E o \in Orders : Begin(h, o)
      PROVE  FALSE
  <2>1. \A r : job' # [job EXCEPT ![h] = r]
    BY <1>1 DEF TypeOK
  <2>2. ~Done(h) /\ \A o \in Orders : ~Begin(h, o)
    BY <2>1, BeginShape DEF Done
  <2>3. Step(h)
    BY <1>1, <2>2
  <2>4. CASE \E label : Goto(h, label)
    BY <1>1, <2>4 DEF Goto, TypeOK
  <2>5. CASE \/ autoAdvance(h) \/ rejectReadsLedger(h) \/ settlingFlip(h)
             \/ cancelReadsShipment(h) \/ returnViews(h)
    BY <1>1, <2>2, <2>5 DEF autoAdvance, rejectReadsLedger, settlingFlip, cancelReadsShipment,
                            returnViews, TypeOK
  <2> QED
    BY <2>2, <2>3, <2>4, <2>5
    DEF Step, reserveStock, createShipment, partiallyAccept, rejectReleases, rejectWrites,
        flipConflict, plainFlip, fulfilShipment, cancelShipmentWrites, transitionCommits,
        cancelCommits, deliveryCommits, exceptionRechecks, exceptionClaims, returnCommits,
        Commit
<1>2. job' # job
  OBVIOUS
<1>3. \E h \in Handlers : \/ Done(h) \/ Step(h) \/ \E o \in Orders : Begin(h, o)
  BY <1>2 DEF Next, vars, checkoutGate, paymentConfirmed, paymentExpired, Abort
<1> QED
  BY <1>1, <1>3

\* A request reaches its settlement from its flip, and its commit from there or,
\* a cancellation, from its read of the shipment.
LEMMA SettlerStep ==
  ASSUME TypeOK, [Next]_vars, NEW g \in Handlers, job'[g].at \in {"settle", "commit"}
  PROVE  \/ job'[g] = job[g]
         \/ settlingFlip(g)
         \/ cancelReadsShipment(g)
<1> SUFFICES ASSUME job'[g] # job[g]
             PROVE  settlingFlip(g) \/ cancelReadsShipment(g)
  OBVIOUS
<1>1. ~Done(g)
  BY NoJobWellFormed DEF Done, TypeOK
<1>2. \A o \in Orders : ~Begin(g, o)
  BY BeginShape DEF TypeOK
<1>3. Step(g)
  BY <1>1, <1>2, RecordStep
<1>4. \A label \in {"reserve", "ship", "shipment", "write", "claim"} : ~Goto(g, label)
  BY DEF Goto, TypeOK
<1>5. ~(autoAdvance(g) \/ rejectReadsLedger(g) \/ returnViews(g))
  BY <1>1 DEF autoAdvance, Deciding, rejectReadsLedger, returnViews, TypeOK
<1> QED
  BY <1>1, <1>3, <1>4, <1>5
  DEF Step, reserveStock, createShipment, partiallyAccept, rejectReleases, rejectWrites,
      flipConflict, plainFlip, fulfilShipment, cancelShipmentWrites, transitionCommits,
      cancelCommits, deliveryCommits, exceptionRechecks, exceptionClaims, returnCommits,
      Commit

\* Only acceptance reserves, right after its flip.
LEMMA ReserverStep ==
  ASSUME TypeOK, [Next]_vars, NEW g \in Handlers, job'[g].at = "reserve"
  PROVE  job'[g] = job[g] \/ (plainFlip(g) /\ job[g].op = "accept" /\ Goto(g, "reserve"))
<1> SUFFICES ASSUME job'[g] # job[g]
             PROVE  plainFlip(g) /\ job[g].op = "accept" /\ Goto(g, "reserve")
  OBVIOUS
<1>1. ~Done(g)
  BY NoJobWellFormed DEF Done, TypeOK
<1>2. \A o \in Orders : ~Begin(g, o)
  BY BeginShape DEF TypeOK
<1>3. Step(g)
  BY <1>1, <1>2, RecordStep
<1>4. \A label \in {"ship", "shipment", "write", "claim"} : ~Goto(g, label)
  BY DEF Goto, TypeOK
<1>5. ~(\/ autoAdvance(g) \/ rejectReadsLedger(g) \/ returnViews(g)
        \/ settlingFlip(g) \/ cancelReadsShipment(g))
  BY <1>1 DEF autoAdvance, Deciding, rejectReadsLedger, returnViews, settlingFlip,
              cancelReadsShipment, TypeOK
<1> QED
  BY <1>1, <1>3, <1>4, <1>5
  DEF Step, reserveStock, createShipment, partiallyAccept, rejectReleases, rejectWrites,
      flipConflict, plainFlip, fulfilShipment, cancelShipmentWrites, transitionCommits,
      cancelCommits, deliveryCommits, exceptionRechecks, exceptionClaims, returnCommits,
      Commit

\* A locked row is left alone until the request that locked it is over.
LEMMA LockedRow ==
  ASSUME TypeOK, RowsLocked, [Next]_vars, NEW o \in Orders, NEW g \in Handlers,
         lock[o] = g, job'[g].at # "idle"
  PROVE  lock'[o] = g /\ status'[o] = status[o]
<1> DEFINE Goal == lock'[o] = g /\ status'[o] = status[o]
<1>1. CASE UNCHANGED <<lock, status>>
  BY <1>1
<1>2. ~Free(o) /\ ~Done(g)
  BY RowsAssumption, NoJobWellFormed DEF Free, Done, TypeOK
<1>3. ASSUME NEW p \in Orders, checkoutGate(p) \/ paymentConfirmed(p) \/ paymentExpired(p)
      PROVE  Goal
  BY <1>2, <1>3 DEF checkoutGate, paymentConfirmed, paymentExpired, TypeOK
<1>4. ASSUME NEW h \in Handlers, Abort(h) PROVE Goal
  BY <1>2, <1>4 DEF Abort
<1>5. ASSUME NEW h \in Handlers, NEW p \in Orders, Begin(h, p) PROVE Goal
  BY <1>1, <1>5, BeginShape
<1>6. ASSUME NEW h \in Handlers, Step(h) PROVE Goal
  <2>1. job[h].order \in Orders
    BY DEF TypeOK
  <2>2. CASE autoAdvance(h) \/ partiallyAccept(h) \/ rejectWrites(h)
    BY <1>2, <2>1, <2>2 DEF autoAdvance, partiallyAccept, rejectWrites, TypeOK
  <2>3. CASE plainFlip(h) \/ settlingFlip(h)
    BY <1>2, <2>1, <2>3 DEF plainFlip, settlingFlip, AtFlip, TypeOK
  <2>4. CASE transitionCommits(h) \/ cancelCommits(h) \/ deliveryCommits(h)
    <3>1. job[h].at = "commit" /\ Commit(h) /\ Done(h)
      BY <2>4 DEF transitionCommits, cancelCommits, deliveryCommits, Commit
    <3>2. job[h].order # o
      BY <1>2, <3>1 DEF RowsLocked
    <3> QED
      BY <2>1, <3>1, <3>2 DEF Commit, TypeOK
  <2> QED
    BY <1>1, <1>6, <2>2, <2>3, <2>4
    DEF Step, reserveStock, createShipment, rejectReadsLedger, rejectReleases, flipConflict,
        fulfilShipment, cancelShipmentWrites, cancelReadsShipment, exceptionRechecks,
        exceptionClaims, returnViews, returnCommits
<1> QED
  BY <1>1, <1>3, <1>4, <1>5, <1>6 DEF Next, vars

LEMMA RowsLockedStep ==
  ASSUME TypeOK, RowsLocked, [Next]_vars
  PROVE  RowsLocked'
<1> SUFFICES ASSUME NEW g \in Handlers, job'[g].at \in {"settle", "commit"}
             PROVE  lock'[job'[g].order] = g /\ status'[job'[g].order] = job'[g].seen
  BY DEF RowsLocked
<1>1. job[g].order \in Orders /\ job[g] \in Request
  BY DEF TypeOK, Request
<1>2. CASE job[g].at \in {"settle", "commit"} /\ job'[g].order = job[g].order
           /\ job'[g].seen = job[g].seen
  <2>1. lock[job[g].order] = g /\ status[job[g].order] = job[g].seen
    BY <1>2 DEF RowsLocked
  <2> QED
    BY <1>1, <1>2, <2>1, LockedRow
<1>3. CASE job'[g] = job[g]
  BY <1>2, <1>3
<1>4. CASE settlingFlip(g)
  BY <1>1, <1>4 DEF settlingFlip, FlipMatches, TypeOK, Request
<1>5. CASE cancelReadsShipment(g)
  <2>1. /\ job[g].at \in {"settle", "commit"}
        /\ job'[g].order = job[g].order /\ job'[g].seen = job[g].seen
    BY <1>1, <1>5 DEF cancelReadsShipment, TypeOK, Request
  <2> QED
    BY <1>2, <2>1
<1> QED
  BY <1>3, <1>4, <1>5, SettlerStep

\* A transaction that settles an order keeps it to itself from its flip to its
\* commit, whatever the other requests, the checkout and the payments do meanwhile.
THEOREM RowsAreLocked == Spec => []RowsLocked
<1>1. Init => RowsLocked
  BY NoJobWellFormed DEF Init, RowsLocked
<1>2. TypeOK /\ RequestsOK /\ RowsLocked /\ [Next]_vars => RowsLocked'
  BY RowsLockedStep
<1> QED
  BY <1>1, <1>2, Typing, PTL DEF Spec

-----------------------------------------------------------------------------
(* What changes the status of an order. *)

\* The instances that leave some operations out.
Without(ops) == Ops \cap ops = {}

\* A change of an order's status is an edge of the matrix (or one of cancelOrder's),
\* except for the four writes by id alone: the last step of its checkout, the
\* automatic advance, a partial acceptance and a rejection.
LEMMA StatusStep ==
  ASSUME TypeOK, RequestsOK, RowsLocked, [Next]_vars,
         NEW o \in Orders, status'[o] # status[o]
  PROVE  \/ ~posted[o]
         \/ \E h \in Handlers : job[h].at = "advance" /\ job[h].order = o
         \/ "partial" \in Ops /\ status'[o] = "PARTIALLY_ACCEPTED"
         \/ "reject" \in Ops /\ status'[o] = "REJECTED"
         \/ Edge(status[o], status'[o])
<1> DEFINE Goal == \/ ~posted[o]
                   \/ \E h \in Handlers : job[h].at = "advance" /\ job[h].order = o
                   \/ "partial" \in Ops /\ status'[o] = "PARTIALLY_ACCEPTED"
                   \/ "reject" \in Ops /\ status'[o] = "REJECTED"
                   \/ Edge(status[o], status'[o])
<1>1. ~ UNCHANGED status
  OBVIOUS
<1>2. ASSUME NEW p \in Orders, checkoutGate(p) PROVE Goal
  BY <1>2 DEF checkoutGate, TypeOK
<1>3. ASSUME NEW p \in Orders, paymentConfirmed(p) \/ paymentExpired(p) PROVE Goal
  BY <1>3 DEF paymentConfirmed, paymentExpired, Edge, TRANSITIONS, TypeOK
<1>4. ASSUME NEW h \in Handlers, Step(h) PROVE Goal
  <2>1. WellFormed(job[h]) /\ job[h].order \in Orders
    BY DEF RequestsOK, TypeOK
  <2>2. CASE autoAdvance(h)
    BY <2>1, <2>2 DEF autoAdvance, TypeOK
  <2>3. CASE partiallyAccept(h) \/ rejectWrites(h)
    BY <2>1, <2>3 DEF partiallyAccept, rejectWrites, WellFormed, TypeOK
  <2>4. CASE plainFlip(h) \/ transitionCommits(h) \/ cancelCommits(h) \/ deliveryCommits(h)
    <3>1. /\ job[h].at \in {"flip", "commit"}
          /\ status' = [status EXCEPT ![job[h].order] = job[h].to]
          /\ job[h].at = "flip" => status[job[h].order] = job[h].seen
      BY <2>4 DEF plainFlip, AtFlip, FlipMatches, transitionCommits, cancelCommits,
                  deliveryCommits, Commit
    <3>2. status[job[h].order] = job[h].seen /\ Edge(job[h].seen, job[h].to)
      BY <2>1, <3>1 DEF WellFormed, Target, RowsLocked
    <3> QED
      BY <2>1, <3>1, <3>2 DEF TypeOK
  <2> QED
    BY <1>1, <1>4, <2>2, <2>3, <2>4
    DEF Step, reserveStock, createShipment, rejectReadsLedger, rejectReleases, flipConflict,
        settlingFlip, fulfilShipment, cancelShipmentWrites, cancelReadsShipment,
        exceptionRechecks, exceptionClaims, returnViews, returnCommits
<1>5. ASSUME NEW h \in Handlers, Abort(h) PROVE FALSE
  BY <1>1, <1>5 DEF Abort
<1>6. ASSUME NEW h \in Handlers, NEW p \in Orders, Begin(h, p) PROVE FALSE
  BY <1>1, <1>6, BeginShape
<1> QED
  BY <1>1, <1>2, <1>3, <1>4, <1>5, <1>6 DEF Next, vars

\* Every checkout is over: none of its last steps, and no automatic advance of an
\* order that is still SUBMITTED, is to come.
CheckedOut ==
  /\ \A o \in Orders : posted[o] /\ status[o] \notin {"DRAFT", "SUBMITTED"}
  /\ \A h \in Handlers : job[h].at # "advance"

LEMMA CheckedOutStep ==
  ASSUME TypeOK, RequestsOK, RowsLocked, CheckedOut, [Next]_vars
  PROVE  CheckedOut'
<1>1. ASSUME NEW o \in Orders PROVE posted'[o]
  <2>1. ASSUME NEW p \in Orders, checkoutGate(p) PROVE posted'[o]
    BY <2>1 DEF checkoutGate, CheckedOut
  <2>2. CASE UNCHANGED posted
    BY <2>2 DEF CheckedOut
  <2>3. ASSUME NEW h \in Handlers, NEW p \in Orders, Begin(h, p) PROVE UNCHANGED posted
    BY <2>3, BeginShape
  <2>4. ASSUME NEW h \in Handlers, Step(h) PROVE UNCHANGED posted
    BY <2>4
    DEF Step, autoAdvance, reserveStock, createShipment, partiallyAccept, rejectReadsLedger,
        rejectReleases, rejectWrites, flipConflict, plainFlip, settlingFlip, fulfilShipment,
        cancelShipmentWrites, transitionCommits, cancelReadsShipment, cancelCommits,
        deliveryCommits, exceptionRechecks, exceptionClaims, returnViews, returnCommits, Commit
  <2> QED
    BY <2>1, <2>2, <2>3, <2>4 DEF Next, vars, Abort, paymentConfirmed, paymentExpired
<1>2. ASSUME NEW o \in Orders PROVE status'[o] \notin {"DRAFT", "SUBMITTED"}
  <2>1. status[o] \in Status /\ status'[o] \in Status
    BY TypeStep DEF TypeOK
  <2> QED
    BY <2>1, StatusStep, EdgeFacts DEF CheckedOut
<1>3. ASSUME NEW h \in Handlers, job'[h].at = "advance" PROVE FALSE
  <2>1. job'[h] # job[h] /\ ~Done(h)
    BY <1>3, NoJobWellFormed DEF CheckedOut, Done, TypeOK
  <2>2. \A o \in Orders : ~Begin(h, o)
    BY <1>3, BeginShape DEF CheckedOut, TypeOK
  <2>3. Step(h)
    BY <2>1, <2>2, RecordStep
  <2>4. \A label \in {"reserve", "ship", "shipment", "write", "claim"} : ~Goto(h, label)
    BY <1>3 DEF Goto, TypeOK
  <2>5. ~(\/ autoAdvance(h) \/ rejectReadsLedger(h) \/ returnViews(h)
          \/ settlingFlip(h) \/ cancelReadsShipment(h))
    BY <1>3, <2>1 DEF autoAdvance, Deciding, rejectReadsLedger, returnViews, settlingFlip,
                      cancelReadsShipment, TypeOK
  <2> QED
    BY <2>1, <2>3, <2>4, <2>5
    DEF Step, reserveStock, createShipment, partiallyAccept, rejectReleases, rejectWrites,
        flipConflict, plainFlip, fulfilShipment, cancelShipmentWrites, transitionCommits,
        cancelCommits, deliveryCommits, exceptionRechecks, exceptionClaims, returnCommits,
        Commit
<1> QED
  BY <1>1, <1>2, <1>3 DEF CheckedOut

LEMMA CheckoutsAreOver == ASSUME Fresh = {} PROVE Spec => []CheckedOut
<1>1. Init => CheckedOut
  BY NoJobWellFormed DEF Init, CheckedOut
<1>2. TypeOK /\ RequestsOK /\ RowsLocked /\ CheckedOut /\ [Next]_vars => CheckedOut'
  BY CheckedOutStep
<1> QED
  BY <1>1, <1>2, Typing, RowsAreLocked, PTL DEF Spec

\* Every change of status anyone can observe is an edge of the matrix, or one of
\* cancelOrder's own, although each is checked on a read that may be stale: unless
\* a checkout is unfinished, or a partial acceptance or a rejection is in use, which
\* write by id alone.
THEOREM StatusTakesEdges ==
  ASSUME Fresh = {}, Without({"partial", "reject"})
  PROVE  Spec => StatusEdges
<1>1. TypeOK /\ RequestsOK /\ RowsLocked /\ CheckedOut /\ [Next]_vars
        => [\A o \in Orders : status'[o] # status[o] => Edge(status[o], status'[o])]_vars
  BY StatusStep DEF CheckedOut, Without
<1> QED
  BY <1>1, Typing, RowsAreLocked, CheckoutsAreOver, PTL DEF Spec, StatusEdges

-----------------------------------------------------------------------------
(* Settlement. *)

\* The movements of an instance without rejections and returns: one acceptance
\* reserves, or one settlement commits.
LEMMA SettlementStep ==
  ASSUME TypeOK, RequestsOK, Without({"reject", "return"}), [Next]_vars
  PROVE  \/ UNCHANGED stockVars
         \/ \E h \in Handlers, q \in Nat : SetsAside(h, q)
         \/ \E h \in Handlers : Settles(h)
<1>1. \A h \in Handlers : job[h].at \notin {"release", "return"}
  BY DEF RequestsOK, WellFormed, Without
<1> QED
  BY <1>1, StockStep

\* What a settlement owes stays unsettled while its transaction holds the row, and
\* it takes no more than that.
LEMMA OwesStep ==
  ASSUME TypeOK, RequestsOK, RowsLocked, Without({"reject", "return"}), Owes, SettledOnce,
         [Next]_vars
  PROVE  Owes'
<1> SUFFICES ASSUME NEW g \in Handlers, job'[g].at \in {"settle", "commit"}
             PROVE  (job[g].owed <= Outstanding(job[g].order))'
  BY DEF Owes
<1> DEFINE o == job[g].order
<1>1. o \in Orders /\ job[g] \in Request /\ job[g].owed \in Nat
  BY DEF TypeOK, Request
<1>2. ASSUME job[g].at \in {"settle", "commit"}, job'[g].order = o, job'[g].owed = job[g].owed
      PROVE  (job[g].owed <= Outstanding(job[g].order))'
  <2>1. job[g].owed <= Outstanding(o) /\ lock[o] = g
    BY <1>2 DEF Owes, RowsLocked
  <2>2. /\ rel[o] \in Nat /\ sold[o] \in Nat /\ resv[o] \in Nat
    BY <1>1 DEF TypeOK
  <2>3. CASE UNCHANGED stockVars
    BY <1>2, <2>1, <2>3 DEF Outstanding, stockVars
  <2>4. ASSUME NEW h \in Handlers, NEW q \in Nat, SetsAside(h, q)
        PROVE  (job[g].owed <= Outstanding(job[g].order))'
    <3>1. resv'[o] >= resv[o] /\ rel' = rel /\ sold' = sold
      BY <1>1, <2>2, <2>4 DEF SetsAside, Reserve, TypeOK
    <3>2. resv'[o] \in Nat
      BY <1>1, TypeStep DEF TypeOK
    <3> QED
      BY <1>1, <1>2, <2>1, <2>2, <3>1, <3>2 DEF Outstanding
  <2>5. ASSUME NEW h \in Handlers, Settles(h)
        PROVE  (job[g].owed <= Outstanding(job[g].order))'
    <3>1. job[h].at = "commit" /\ Done(h)
      BY <2>5 DEF Settles, Commit
    <3>2. h # g
      BY <3>1, NoJobWellFormed DEF Done, TypeOK
    <3>3. job[h].order # o
      BY <2>1, <3>1, <3>2 DEF RowsLocked
    <3>4. resv'[o] = resv[o] /\ rel'[o] = rel[o] /\ sold'[o] = sold[o]
      BY <1>1, <2>5, <3>3 DEF Settles, Release, Sell, TypeOK
    <3> QED
      BY <1>2, <2>1, <3>4 DEF Outstanding
  <2> QED
    BY <2>3, <2>4, <2>5, SettlementStep
<1>3. CASE job'[g] = job[g]
  BY <1>2, <1>3
<1>4. CASE cancelReadsShipment(g)
  <2>1. /\ job[g].at \in {"settle", "commit"}
        /\ job'[g].order = job[g].order /\ job'[g].owed = job[g].owed
    BY <1>1, <1>4 DEF cancelReadsShipment, TypeOK, Request
  <2> QED
    BY <1>2, <2>1
<1>5. CASE settlingFlip(g)
  <2>1. job'[g].order = o /\ job'[g].owed = Owed(o) /\ UNCHANGED stockVars
    BY <1>1, <1>5 DEF settlingFlip, TypeOK, Request
  <2>2. Owed(o) <= Outstanding(o)
    BY <1>1 DEF SettledOnce, Owed, Outstanding, Max0, TypeOK
  <2> QED
    BY <2>1, <2>2 DEF Outstanding, stockVars
<1> QED
  BY <1>3, <1>4, <1>5, SettlerStep

LEMMA SettledOnceStep ==
  ASSUME TypeOK, RequestsOK, Without({"reject", "return"}), Owes, SettledOnce, [Next]_vars
  PROVE  SettledOnce'
<1> SUFFICES ASSUME NEW o \in Orders PROVE rel'[o] + sold'[o] <= resv'[o]
  BY DEF SettledOnce
<1>1. /\ rel[o] \in Nat /\ sold[o] \in Nat /\ resv[o] \in Nat
      /\ rel[o] + sold[o] <= resv[o]
  BY DEF SettledOnce, TypeOK
<1>2. CASE UNCHANGED stockVars
  BY <1>1, <1>2 DEF stockVars
<1>3. ASSUME NEW h \in Handlers, NEW q \in Nat, SetsAside(h, q)
      PROVE  rel'[o] + sold'[o] <= resv'[o]
  BY <1>1, <1>3 DEF SetsAside, Reserve, TypeOK
<1>4. ASSUME NEW h \in Handlers, Settles(h)
      PROVE  rel'[o] + sold'[o] <= resv'[o]
  <2>1. job[h].order \in Orders /\ job[h].owed \in Nat
        /\ job[h].owed <= Outstanding(job[h].order)
    BY <1>4 DEF Settles, Owes, TypeOK
  <2>2. CASE job[h].order # o
    BY <1>1, <1>4, <2>2 DEF Settles, Release, Sell, TypeOK
  <2>3. CASE job[h].order = o
    <3>1. /\ resv'[o] = resv[o]
          /\ \/ rel'[o] = rel[o] + job[h].owed /\ sold'[o] = sold[o]
             \/ sold'[o] = sold[o] + job[h].owed /\ rel'[o] = rel[o]
      BY <1>4, <2>1, <2>3 DEF Settles, Release, Sell, TypeOK
    <3> QED
      BY <1>1, <2>1, <2>3, <3>1 DEF Outstanding
  <2> QED
    BY <2>2, <2>3
<1> QED
  BY <1>2, <1>3, <1>4, SettlementStep

LEMMA SettlementsOwe ==
  ASSUME Without({"reject", "return"}) PROVE Spec => [](Owes /\ SettledOnce)
<1>1. Init => Owes /\ SettledOnce
  BY NoJobWellFormed DEF Init, Owes, SettledOnce
<1>2. TypeOK /\ RequestsOK /\ RowsLocked /\ Owes /\ SettledOnce /\ [Next]_vars
        => (Owes /\ SettledOnce)'
  BY OwesStep, SettledOnceStep
<1> QED
  BY <1>1, <1>2, Typing, RowsAreLocked, PTL DEF Spec

\* Whatever else races, a reserved unit is released or sold once: unless a rejection,
\* which settles outside a transaction, or the return of a parcel is in use.
THEOREM UnitsSettleOnce == ASSUME Without({"reject", "return"}) PROVE Spec => []SettledOnce
BY SettlementsOwe, PTL

-----------------------------------------------------------------------------
(* Reservation. *)

\* An order that nobody decided has no reservation; between the flip of the one
\* acceptance and its reservation it still has none.
AcceptanceOnce ==
  /\ \A o \in Orders : status[o] \in Undecided => resv[o] = 0
  /\ \A h \in Handlers : job[h].at = "reserve" =>
       /\ status[job[h].order] \notin Undecided
       /\ resv[job[h].order] = 0
       /\ \A g \in Handlers : job[g].at = "reserve" /\ job[g].order = job[h].order => g = h

\* Once decided, an order stays so.
LEMMA DecidedStays ==
  ASSUME TypeOK, RequestsOK, RowsLocked, CheckedOut, [Next]_vars,
         NEW o \in Orders, status[o] \notin Undecided
  PROVE  status'[o] \notin Undecided
<1>1. status[o] \in Status /\ status'[o] \in Status
  BY TypeStep DEF TypeOK
<1>2. CASE Edge(status[o], status'[o])
  BY <1>1, <1>2, EdgeFacts
<1> QED
  BY <1>2, StatusStep DEF CheckedOut, Undecided

\* The reservation of an order grows only by the acceptance that got there.
LEMMA ReservationStep ==
  ASSUME TypeOK, RequestsOK, [Next]_vars, NEW o \in Orders, resv'[o] # resv[o]
  PROVE  \E h \in Handlers :
           /\ job[h].at = "reserve" /\ job[h].order = o
           /\ job'[h].at = "ship"
           /\ resv'[o] <= resv[o] + Qty[o]
<1>1. PICK h \in Handlers, q \in Nat : SetsAside(h, q)
  BY StockStep DEF Settles, Release, Sell, TakeBack, stockVars
<1>2. job[h].order \in Orders /\ resv[o] \in Nat /\ \A p \in Orders : Qty[p] \in Nat
  BY RowsAssumption DEF TypeOK
<1>3. job[h].order = o /\ job[h].at = "reserve" /\ job'[h].at = "ship"
  BY <1>1, <1>2 DEF SetsAside, Reserve, Goto, TypeOK
<1>4. resv'[o] = resv[o] + q /\ q <= Qty[o]
  BY <1>1, <1>2, <1>3 DEF SetsAside, Reserve, TypeOK
<1> QED
  BY <1>2, <1>3, <1>4

LEMMA AcceptanceStep ==
  ASSUME TypeOK, RequestsOK, RowsLocked, CheckedOut, AcceptanceOnce, ReservedOnce, [Next]_vars
  PROVE  AcceptanceOnce' /\ ReservedOnce'
<1>1. \A o \in Orders : status[o] \in Status /\ resv[o] \in Nat /\ Qty[o] \in Nat
  BY RowsAssumption DEF TypeOK
<1>2. ASSUME NEW o \in Orders, resv'[o] # resv[o]
      PROVE  /\ status'[o] \notin Undecided
             /\ resv'[o] <= Qty[o]
             /\ \A g \in Handlers : job'[g].at = "reserve" => job'[g].order # o
  <2>1. PICK h \in Handlers : /\ job[h].at = "reserve" /\ job[h].order = o
                              /\ job'[h].at = "ship"
                              /\ resv'[o] <= resv[o] + Qty[o]
    BY <1>2, ReservationStep
  <2>2. resv[o] = 0 /\ status[o] \notin Undecided
    BY <2>1 DEF AcceptanceOnce
  <2>3. ASSUME NEW g \in Handlers, job'[g].at = "reserve", job'[g].order = o PROVE FALSE
    <3>1. CASE job'[g] = job[g]
      BY <2>1, <2>3, <3>1 DEF AcceptanceOnce
    <3>2. CASE plainFlip(g)
      BY <1>2, <3>2 DEF plainFlip, stockVars
    <3> QED
      BY <2>3, <3>1, <3>2, ReserverStep
  <2> QED
    BY <1>1, <2>1, <2>2, <2>3, DecidedStays
<1>3. ASSUME NEW o \in Orders, status'[o] \in Undecided PROVE resv'[o] = 0
  <2>1. status[o] \in Undecided
    BY <1>3, DecidedStays
  <2> QED
    BY <1>2, <1>3, <2>1 DEF AcceptanceOnce
<1>4. ASSUME NEW h \in Handlers, job'[h].at = "reserve"
      PROVE  /\ status'[job'[h].order] \notin Undecided
             /\ resv'[job'[h].order] = 0
             /\ \A g \in Handlers : job'[g].at = "reserve" /\ job'[g].order = job'[h].order
                  => g = h
  <2> DEFINE o == job'[h].order
  <2>1. o \in Orders
    BY TypeStep DEF TypeOK
  <2>2. resv'[o] = resv[o]
    BY <1>2, <1>4, <2>1
  <2>3. ASSUME NEW g \in Handlers, plainFlip(g), job[g].op = "accept", Goto(g, "reserve")
        PROVE  /\ status[job[g].order] \in Undecided /\ status'[job[g].order] \notin Undecided
               /\ job'[g].order = job[g].order /\ job[g].order \in Orders
               /\ \A f \in Handlers \ {g} : job'[f] = job[f]
    <3>1. /\ job[g].order \in Orders /\ job[g].seen \in Status
          /\ job[g].at = "flip" /\ WellFormed(job[g]) /\ status[job[g].order] = job[g].seen
      BY <2>3 DEF plainFlip, AtFlip, FlipMatches, TypeOK, RequestsOK
    <3>2. job[g].to = "ACCEPTED" /\ Edge(job[g].seen, "ACCEPTED")
      BY <2>3, <3>1 DEF WellFormed, Target
    <3>3. status[job[g].order] \in Undecided
      BY <3>1, <3>2, EdgeFacts DEF Status
    <3>4. status'[job[g].order] = "ACCEPTED"
      BY <2>3, <3>1, <3>2 DEF plainFlip, TypeOK
    <3> QED
      BY <2>3, <3>1, <3>3, <3>4 DEF Goto, TypeOK, Undecided
  <2>4. CASE job'[h] = job[h]
    <3>1. /\ status[o] \notin Undecided /\ resv[o] = 0
          /\ \A g \in Handlers : job[g].at = "reserve" /\ job[g].order = o => g = h
      BY <1>4, <2>4 DEF AcceptanceOnce
    <3>2. \A g \in Handlers : job'[g].at = "reserve" /\ job'[g].order = o => g = h
      BY <2>3, <3>1, ReserverStep
    <3> QED
      BY <2>1, <2>2, <3>1, <3>2, DecidedStays
  <2>5. CASE plainFlip(h) /\ job[h].op = "accept" /\ Goto(h, "reserve")
    <3>1. /\ o = job[h].order /\ status[o] \in Undecided /\ status'[o] \notin Undecided
          /\ \A f \in Handlers \ {h} : job'[f] = job[f]
      BY <2>3, <2>5
    <3>2. \A g \in Handlers : job'[g].at = "reserve" /\ job'[g].order = o => g = h
      BY <3>1 DEF AcceptanceOnce
    <3>3. resv[o] = 0
      BY <2>1, <3>1 DEF AcceptanceOnce
    <3> QED
      BY <2>2, <3>1, <3>2, <3>3
  <2> QED
    BY <1>4, <2>4, <2>5, ReserverStep
<1>5. ReservedOnce'
  BY <1>1, <1>2 DEF ReservedOnce
<1> QED
  BY <1>3, <1>4, <1>5 DEF AcceptanceOnce

\* Of concurrent acceptances one reserves, and never more than was ordered, whichever
\* other operations are in use: unless a checkout is unfinished, whose last step would
\* take the order back to where it can be accepted again.
THEOREM AcceptancesReserveOnce == ASSUME Fresh = {} PROVE Spec => []ReservedOnce
<1>1. Init => AcceptanceOnce /\ ReservedOnce
  BY NoJobWellFormed, RowsAssumption DEF Init, AcceptanceOnce, ReservedOnce
<1>2. TypeOK /\ RequestsOK /\ RowsLocked /\ CheckedOut /\ AcceptanceOnce /\ ReservedOnce
        /\ [Next]_vars => (AcceptanceOnce /\ ReservedOnce)'
  BY AcceptanceStep
<1> QED
  BY <1>1, <1>2, Typing, RowsAreLocked, CheckoutsAreOver, PTL DEF Spec

-----------------------------------------------------------------------------
(* Stock and shipment against the status of the order. *)

\* What a settlement finds, and what it leaves, of the order it settles.
LEMMA SettledRow ==
  ASSUME TypeOK, RequestsOK, RowsLocked, NEW h \in Handlers, job[h].at = "commit", Commit(h)
  PROVE  LET o == job[h].order
         IN /\ o \in Orders
            /\ status[o] \notin Final
            /\ status'[o] = job[h].to /\ job[h].to \in Settling
            /\ \A p \in Orders \ {o} : status'[p] = status[p]
<1> DEFINE o == job[h].order
<1>1. /\ o \in Orders /\ job[h].seen \in Status /\ job[h].to \in Status
      /\ job[h].to \in Settling /\ Edge(job[h].seen, job[h].to)
      /\ status[o] = job[h].seen
  BY DEF TypeOK, RequestsOK, WellFormed, Target, RowsLocked
<1>2. status[o] \notin Final
  BY <1>1, EdgeFacts DEF Settling, Final
<1> QED
  BY <1>1, <1>2 DEF Commit, TypeOK

LEMMA SettlementMatchesStep ==
  ASSUME TypeOK, RequestsOK, RowsLocked, CheckedOut,
         Without({"partial", "reject", "return"}), SettlementMatchesStatus, [Next]_vars
  PROVE  SettlementMatchesStatus'
<1> SUFFICES ASSUME NEW o \in Orders
             PROVE  /\ rel'[o] > 0  => status'[o] \in {"CANCELLED", "REJECTED"}
                    /\ sold'[o] > 0 => status'[o] \in {"DELIVERED", "COMPLETED", "DISPUTED"}
  BY DEF SettlementMatchesStatus
<1>1. /\ rel[o] \in Nat /\ sold[o] \in Nat
      /\ status[o] \in Status /\ status'[o] \in Status
      /\ rel[o] > 0  => status[o] \in {"CANCELLED", "REJECTED"}
      /\ sold[o] > 0 => status[o] \in {"DELIVERED", "COMPLETED", "DISPUTED"}
  BY TypeStep DEF TypeOK, SettlementMatchesStatus
<1>2. CASE rel'[o] = rel[o] /\ sold'[o] = sold[o]
  <2>1. CASE status'[o] = status[o]
    BY <1>1, <1>2, <2>1
  <2>2. CASE Edge(status[o], status'[o])
    BY <1>1, <1>2, <2>2, EdgeFacts DEF Final
  <2> QED
    BY <2>1, <2>2, StatusStep DEF CheckedOut, Without
<1>3. CASE ~(rel'[o] = rel[o] /\ sold'[o] = sold[o])
  <2>1. PICK h \in Handlers : Settles(h)
    <3>1. Without({"reject", "return"})
      BY DEF Without
    <3> QED
      BY <1>3, <3>1, SettlementStep DEF SetsAside, Reserve, stockVars
  <2>2. job[h].order = o /\ job[h].at = "commit" /\ Commit(h)
    BY <1>3, <2>1 DEF Settles, Release, Sell, TypeOK
  <2>3. status[o] \notin Final /\ status'[o] = job[h].to /\ job[h].to \in Settling
    BY <2>2, SettledRow
  <2>4. rel[o] = 0 /\ sold[o] = 0
    BY <1>1, <2>3 DEF Final
  <2>5. /\ job[h].to = "DELIVERED" => rel'[o] = rel[o]
        /\ job[h].to # "DELIVERED" => sold'[o] = sold[o]
    BY <2>1, <2>2 DEF Settles, Release, Sell
  <2> QED
    BY <2>3, <2>4, <2>5 DEF Settling
<1> QED
  BY <1>2, <1>3

\* Only a cancelled or rejected order gave units back, only a delivered one sold
\* (the settlement is part of the transaction that flips the order).
THEOREM SettlementFollowsStatus ==
  ASSUME Fresh = {}, Without({"partial", "reject", "return"})
  PROVE  Spec => []SettlementMatchesStatus
<1>1. Init => SettlementMatchesStatus
  BY DEF Init, SettlementMatchesStatus
<1>2. TypeOK /\ RequestsOK /\ RowsLocked /\ CheckedOut /\ SettlementMatchesStatus
        /\ [Next]_vars => SettlementMatchesStatus'
  BY SettlementMatchesStep
<1> QED
  BY <1>1, <1>2, Typing, RowsAreLocked, CheckoutsAreOver, PTL DEF Spec

\* A shipment ends with the commit of the transaction that ends its order (or by
\* its own cancel endpoint).
LEMMA ShipStep ==
  ASSUME TypeOK, RequestsOK, [Next]_vars, NEW o \in Orders, ship'[o] # ship[o]
  PROVE  \/ ship'[o] \in FulfilStatus
         \/ "cancelShipment" \in Ops
         \/ \E h \in Handlers : /\ job[h].at = "commit" /\ Commit(h)
                                /\ job[h].order = o /\ ship'[o] = job[h].to
<1> DEFINE Goal == \/ ship'[o] \in FulfilStatus
                   \/ "cancelShipment" \in Ops
                   \/ \E h \in Handlers : /\ job[h].at = "commit" /\ Commit(h)
                                          /\ job[h].order = o /\ ship'[o] = job[h].to
<1>1. ASSUME NEW p \in Orders, checkoutGate(p) \/ paymentConfirmed(p) \/ paymentExpired(p)
      PROVE  FALSE
  BY <1>1 DEF checkoutGate, paymentConfirmed, paymentExpired, shipVars
<1>2. ASSUME NEW h \in Handlers, Abort(h) PROVE FALSE
  BY <1>2 DEF Abort, shipVars
<1>3. ASSUME NEW h \in Handlers, NEW p \in Orders, Begin(h, p) PROVE FALSE
  BY <1>3, BeginShape DEF shipVars
<1>4. ASSUME NEW h \in Handlers, Step(h) PROVE Goal
  <2>1. WellFormed(job[h]) /\ job[h].order \in Orders
    BY DEF RequestsOK, TypeOK
  <2>2. CASE createShipment(h) \/ fulfilShipment(h)
    BY <2>1, <2>2 DEF createShipment, fulfilShipment, WellFormed, FulfilStatus, TypeOK
  <2>3. CASE cancelShipmentWrites(h)
    BY <2>1, <2>3 DEF cancelShipmentWrites, WellFormed
  <2>4. CASE cancelCommits(h) \/ deliveryCommits(h)
    <3>1. job[h].at = "commit" /\ Commit(h) /\ Target(job[h])
      BY <2>1, <2>4 DEF cancelCommits, deliveryCommits, WellFormed
    <3>2. job[h].order = o /\ ship'[o] = job[h].to
      BY <2>1, <2>4, <3>1 DEF cancelCommits, deliveryCommits, Target, TypeOK
    <3> QED
      BY <3>1, <3>2
  <2> QED
    BY <1>4, <2>2, <2>3, <2>4
    DEF Step, autoAdvance, reserveStock, partiallyAccept, rejectReadsLedger, rejectReleases,
        rejectWrites, flipConflict, plainFlip, settlingFlip, transitionCommits,
        cancelReadsShipment, exceptionRechecks, exceptionClaims, returnViews, returnCommits,
        shipVars
<1> QED
  BY <1>1, <1>2, <1>3, <1>4 DEF Next, vars, shipVars

LEMMA ShipmentStep ==
  ASSUME TypeOK, RequestsOK, RowsLocked, CheckedOut,
         Without({"partial", "reject", "cancelShipment"}), ShipmentOutcomeAgrees, [Next]_vars
  PROVE  ShipmentOutcomeAgrees'
<1> SUFFICES ASSUME NEW o \in Orders
             PROVE  /\ ship'[o] = "CANCELLED" => status'[o] = "CANCELLED"
                    /\ ship'[o] = "DELIVERED"
                         => status'[o] \in {"DELIVERED", "COMPLETED", "DISPUTED"}
  BY DEF ShipmentOutcomeAgrees
<1>1. /\ status[o] \in Status /\ status'[o] \in Status
      /\ ship[o] = "CANCELLED" => status[o] = "CANCELLED"
      /\ ship[o] = "DELIVERED" => status[o] \in {"DELIVERED", "COMPLETED", "DISPUTED"}
  BY TypeStep DEF TypeOK, ShipmentOutcomeAgrees
<1>2. CASE ship'[o] = ship[o]
  <2>1. CASE status'[o] = status[o]
    BY <1>1, <1>2, <2>1
  <2>2. CASE Edge(status[o], status'[o])
    BY <1>1, <1>2, <2>2, EdgeFacts DEF Final
  <2> QED
    BY <2>1, <2>2, StatusStep DEF CheckedOut, Without
<1>3. CASE ship'[o] # ship[o]
  <2>1. CASE ship'[o] \in FulfilStatus
    BY <2>1 DEF FulfilStatus
  <2>2. ASSUME NEW h \in Handlers, job[h].at = "commit", Commit(h),
               job[h].order = o, ship'[o] = job[h].to
        PROVE  status'[o] = ship'[o]
    BY <2>2, SettledRow
  <2> QED
    BY <1>3, <2>1, <2>2, ShipStep DEF Without
<1> QED
  BY <1>2, <1>3

\* A shipment is delivered, or cancelled, only with its order: unless the cancel
\* endpoint of shipments is in use, which does not ask the order.
THEOREM ShipmentFollowsOrder ==
  ASSUME Fresh = {}, Without({"partial", "reject", "cancelShipment"})
  PROVE  Spec => []ShipmentOutcomeAgrees
<1>1. Init => ShipmentOutcomeAgrees
  BY DEF Init, ShipmentOutcomeAgrees
<1>2. TypeOK /\ RequestsOK /\ RowsLocked /\ CheckedOut /\ ShipmentOutcomeAgrees
        /\ [Next]_vars => ShipmentOutcomeAgrees'
  BY ShipmentStep
<1> QED
  BY <1>1, <1>2, Typing, RowsAreLocked, CheckoutsAreOver, PTL DEF Spec

-----------------------------------------------------------------------------
(* The ledger: the counters of the inventory row are sums over the orders.     *)

\* How a movement of q units of one order changes a sum over the orders.
LEMMA SumChanges ==
  ASSUME RowsAssumption, NEW a \in [Orders -> Nat], NEW b \in [Orders -> Nat],
         NEW o \in Orders, NEW q \in Nat,
         \A p \in Orders \ {o} : b[p] = a[p], b[o] = a[o] + q, b[o] <= Stock
  PROVE  /\ Cardinality(UnitsOf(a)) \in Nat /\ Cardinality(UnitsOf(b)) \in Nat
         /\ Cardinality(UnitsOf(b)) = Cardinality(UnitsOf(a)) + q
<1>1. IsFiniteSet(Orders) /\ Stock \in Nat /\ a[o] + q <= Stock
  BY DEF RowsAssumption
<1>2. UnitsOf(a) = Units(Orders, Stock, a) /\ UnitsOf(b) = Units(Orders, Stock, b)
  BY DEF UnitsOf, Units
<1>3. /\ Cardinality(Units(Orders, Stock, a)) \in Nat
      /\ Cardinality(Units(Orders, Stock, b)) \in Nat
  BY <1>1, UnitsAreFinite
<1>4. Cardinality(Units(Orders, Stock, b)) = Cardinality(Units(Orders, Stock, a)) + q
  BY <1>1, UnitsGrow
<1> QED
  BY <1>2, <1>3, <1>4

LEMMA HeldType == ASSUME TypeOK, SettledOnce PROVE Held \in [Orders -> Nat]
BY DEF Held, Outstanding, SettledOnce, TypeOK

LEMMA LedgerInit == ASSUME Init PROVE StockMatchesLedger
<1>1. /\ \A o \in Orders : resv[o] = 0 /\ rel[o] = 0 /\ sold[o] = 0
      /\ reserved = 0 /\ onHand = Stock /\ Stock \in Nat
  BY RowsAssumption DEF Init, RowsAssumption
<1>2. \A o \in Orders : Held[o] = 0 /\ Outstanding(o) = 0
  BY <1>1 DEF Held, Outstanding
<1>3. UnitsOf(Held) = {} /\ UnitsOf(sold) = {}
  BY <1>1, <1>2 DEF UnitsOf
<1>4. Cardinality(UnitsOf(Held)) = 0 /\ Cardinality(UnitsOf(sold)) = 0
  BY <1>3, FS_EmptySet
<1> QED
  BY <1>1, <1>2, <1>4 DEF StockMatchesLedger

\* What an order holds is part of what the row keeps aside.
LEMMA HeldIsReserved ==
  ASSUME TypeOK, SettledOnce, StockMatchesLedger, NEW o \in Orders
  PROVE  /\ Held[o] \in Nat /\ Held[o] = Outstanding(o)
         /\ Held[o] <= reserved
<1>1. Held \in [Orders -> Nat] /\ RowsAssumption
  BY HeldType, RowsAssumption
<1>2. Held[o] = Outstanding(o) /\ Held[o] <= Stock
  BY DEF Held, StockMatchesLedger
<1> DEFINE others == [Held EXCEPT ![o] = 0]
<1>3. others \in [Orders -> Nat]
  BY <1>1
<1>4. /\ \A p \in Orders \ {o} : Held[p] = others[p]
      /\ Held[o] = others[o] + Held[o]
  BY <1>1
<1> HIDE DEF others
<1>5. /\ Cardinality(UnitsOf(others)) \in Nat
      /\ Cardinality(UnitsOf(Held)) = Cardinality(UnitsOf(others)) + Held[o]
  BY <1>1, <1>2, <1>3, <1>4, SumChanges
<1> QED
  BY <1>1, <1>2, <1>5 DEF StockMatchesLedger

\* The movements of the ledger, with no floor: units that are available are set aside
\* for an order, or units that an order holds are given back or sold.
SetsApart(o, q) ==
  /\ q <= Available
  /\ reserved' = reserved + q /\ onHand' = onHand /\ sold' = sold
  /\ Held' = [Held EXCEPT ![o] = @ + q]

GivesBack(o, q) ==
  /\ q <= Held[o]
  /\ reserved' = reserved - q /\ onHand' = onHand /\ sold' = sold
  /\ Held' = [Held EXCEPT ![o] = @ - q]

Hands(o, q) ==
  /\ q <= Held[o]
  /\ reserved' = reserved - q /\ onHand' = onHand - q
  /\ sold' = [sold EXCEPT ![o] = @ + q]
  /\ Held' = [Held EXCEPT ![o] = @ - q]

LedgerInv == Owes /\ SettledOnce /\ NoOversell /\ StockMatchesLedger

LEMMA LedgerMoves ==
  ASSUME TypeOK, RequestsOK, LedgerInv, Without({"reject", "return"}), [Next]_vars
  PROVE  \/ UNCHANGED <<onHand, reserved, sold, Held>>
         \/ \E o \in Orders, q \in Nat : SetsApart(o, q) \/ GivesBack(o, q) \/ Hands(o, q)
<1> USE DEF LedgerInv
<1>1. CASE UNCHANGED stockVars
  BY <1>1 DEF stockVars, Held, Outstanding
<1>2. ASSUME NEW h \in Handlers, NEW q \in Nat, SetsAside(h, q)
      PROVE  SetsApart(job[h].order, q) /\ job[h].order \in Orders
  <2> PICK o \in Orders : o = job[h].order
    BY DEF TypeOK
  <2>1. q <= Available
    BY <1>2 DEF SetsAside, Max0, Available, NoOversell, TypeOK
  <2>2. /\ resv[o] \in Nat /\ rel[o] \in Nat /\ sold[o] \in Nat
        /\ rel' = rel /\ sold' = sold /\ onHand' = onHand /\ reserved' = reserved + q
        /\ resv' = [resv EXCEPT ![o] = @ + q]
    BY <1>2, <2>1 DEF SetsAside, Reserve, TypeOK
  <2>3. Outstanding(o)' = Outstanding(o) + q
    BY <2>1, <2>2 DEF Outstanding, TypeOK
  <2>4. ASSUME NEW p \in Orders \ {o} PROVE Outstanding(p)' = Outstanding(p)
    BY <2>2 DEF Outstanding, TypeOK
  <2>5. Held' = [Held EXCEPT ![o] = @ + q]
    BY <2>1, <2>3, <2>4 DEF Held
  <2> QED
    BY <2>1, <2>2, <2>5 DEF SetsApart
<1>3. ASSUME NEW h \in Handlers, Settles(h)
      PROVE  /\ job[h].order \in Orders /\ job[h].owed \in Nat
             /\ GivesBack(job[h].order, job[h].owed) \/ Hands(job[h].order, job[h].owed)
  <2> PICK o \in Orders, q \in Nat : o = job[h].order /\ q = job[h].owed
    BY DEF TypeOK
  <2>1. q <= Outstanding(o)
    BY <1>3 DEF Settles, Owes
  <2>2. /\ resv[o] \in Nat /\ rel[o] \in Nat /\ sold[o] \in Nat /\ resv' = resv
        /\ \/ /\ Release(o, q) /\ sold' = sold /\ onHand' = onHand
              /\ rel' = [rel EXCEPT ![o] = @ + q]
           \/ /\ Sell(o, q) /\ rel' = rel /\ onHand' = Max0(onHand - q)
              /\ sold' = [sold EXCEPT ![o] = @ + q]
        /\ reserved' = Max0(reserved - q)
    BY <1>3, <2>1 DEF Settles, Release, Sell, TypeOK
  <2>3. /\ Held[o] = Outstanding(o) /\ q <= reserved /\ q <= onHand
        /\ reserved \in Nat /\ onHand \in Nat
    BY <2>1, HeldIsReserved DEF NoOversell, TypeOK
  <2>4. Max0(reserved - q) = reserved - q /\ Max0(onHand - q) = onHand - q
    BY <2>1, <2>3 DEF Max0
  <2>5. Outstanding(o)' = Outstanding(o) - q
    BY <2>1, <2>2 DEF Outstanding, TypeOK
  <2>6. ASSUME NEW p \in Orders \ {o} PROVE Outstanding(p)' = Outstanding(p)
    BY <2>2 DEF Outstanding, TypeOK
  <2>7. Held' = [Held EXCEPT ![o] = @ - q]
    BY <2>1, <2>5, <2>6 DEF Held
  <2>8. GivesBack(o, q) \/ Hands(o, q)
    BY <2>1, <2>2, <2>3, <2>4, <2>7 DEF GivesBack, Hands
  <2> QED
    BY <2>8
<1> QED
  BY <1>1, <1>2, <1>3, SettlementStep

LEMMA LedgerStep ==
  ASSUME TypeOK, RequestsOK, RowsLocked, LedgerInv, Without({"reject", "return"}), [Next]_vars
  PROVE  StockMatchesLedger'
<1>1. TypeOK' /\ RowsAssumption /\ SettledOnce' /\ SettledOnce
  BY TypeStep, SettledOnceStep, RowsAssumption DEF LedgerInv
<1>2. /\ Held \in [Orders -> Nat] /\ Held' \in [Orders -> Nat]
      /\ sold \in [Orders -> Nat] /\ sold' \in [Orders -> Nat]
  <2>1. Held' \in [Orders -> Nat]
    BY <1>1 DEF Held, Outstanding, SettledOnce, TypeOK
  <2> QED
    BY <1>1, <2>1, HeldType DEF TypeOK
<1>3. /\ \A o \in Orders : Held[o] <= Stock /\ sold[o] <= Stock /\ Held[o] <= reserved
      /\ reserved = Cardinality(UnitsOf(Held))
      /\ onHand + Cardinality(UnitsOf(sold)) = Stock
      /\ reserved <= onHand
      /\ onHand \in Nat /\ reserved \in Nat /\ Stock \in Nat
  BY <1>1, HeldIsReserved DEF LedgerInv, StockMatchesLedger, Held, NoOversell, TypeOK, RowsAssumption
<1>4. SUFFICES /\ \A o \in Orders : Held'[o] <= Stock /\ sold'[o] <= Stock
               /\ reserved' = Cardinality(UnitsOf(Held'))
               /\ onHand' + Cardinality(UnitsOf(sold')) = Stock
  BY DEF StockMatchesLedger, Held, UnitsOf
<1>5. CASE UNCHANGED <<onHand, reserved, sold, Held>>
  BY <1>3, <1>5
<1>6. ASSUME NEW S \in {sold, Held} PROVE Cardinality(UnitsOf(S)) \in Nat
  <2>1. UnitsOf(S) = Units(Orders, Stock, S)
    BY DEF UnitsOf, Units
  <2> QED
    BY <1>1, <2>1, UnitsAreFinite DEF RowsAssumption
<1>7. ASSUME NEW o \in Orders, NEW q \in Nat, SetsApart(o, q)
      PROVE  /\ \A p \in Orders : Held'[p] <= Stock /\ sold'[p] <= Stock
             /\ reserved' = Cardinality(UnitsOf(Held'))
             /\ onHand' + Cardinality(UnitsOf(sold')) = Stock
  <2>1. /\ \A p \in Orders \ {o} : Held'[p] = Held[p]
        /\ Held'[o] = Held[o] + q
    BY <1>2, <1>7 DEF SetsApart
  <2>2. Held'[o] <= Stock
    BY <1>2, <1>3, <1>6, <1>7, <2>1 DEF SetsApart, Available
  <2>3. Cardinality(UnitsOf(Held')) = Cardinality(UnitsOf(Held)) + q
    BY <1>1, <1>2, <2>1, <2>2, SumChanges
  <2> QED
    BY <1>3, <1>7, <2>1, <2>2, <2>3 DEF SetsApart
<1>8. ASSUME NEW o \in Orders, NEW q \in Nat, GivesBack(o, q) \/ Hands(o, q)
      PROVE  /\ \A p \in Orders : Held'[p] <= Stock /\ sold'[p] <= Stock
             /\ reserved' = Cardinality(UnitsOf(Held'))
             /\ onHand' + Cardinality(UnitsOf(sold')) = Stock
  <2>1. /\ \A p \in Orders \ {o} : Held'[p] = Held[p]
        /\ Held'[o] = Held[o] - q /\ q <= Held[o]
        /\ reserved' = reserved - q
    BY <1>2, <1>8 DEF GivesBack, Hands
  <2>2. /\ \A p \in Orders : Held[p] <= Stock /\ Held'[p] <= Stock
        /\ Held[o] = Held'[o] + q
    BY <1>2, <1>3, <2>1
  <2>3. /\ Cardinality(UnitsOf(Held')) \in Nat
        /\ Cardinality(UnitsOf(Held)) = Cardinality(UnitsOf(Held')) + q
    <3>1. \A p \in Orders \ {o} : Held[p] = Held'[p]
      BY <2>1
    <3>2. Held[o] <= Stock /\ Held[o] = Held'[o] + q
      BY <2>2
    <3> QED
      BY <1>1, <1>2, <3>1, <3>2, SumChanges
  <2>4. CASE GivesBack(o, q)
    BY <1>3, <2>1, <2>2, <2>3, <2>4 DEF GivesBack
  <2>5. CASE Hands(o, q)
    <3>1. /\ \A p \in Orders \ {o} : sold'[p] = sold[p]
          /\ sold'[o] = sold[o] + q /\ onHand' = onHand - q
      BY <1>2, <2>5 DEF Hands
    <3>2. sold'[o] <= Stock
      <4> DEFINE others == [sold EXCEPT ![o] = 0]
      <4>1. /\ others \in [Orders -> Nat]
            /\ \A p \in Orders \ {o} : sold[p] = others[p]
            /\ sold[o] = others[o] + sold[o]
        BY <1>2
      <4> HIDE DEF others
      <4>2. /\ Cardinality(UnitsOf(others)) \in Nat
            /\ Cardinality(UnitsOf(sold)) = Cardinality(UnitsOf(others)) + sold[o]
        BY <1>1, <1>2, <1>3, <4>1, SumChanges
      <4>3. sold[o] \in Nat /\ q <= reserved
        BY <1>2, <1>3, <2>1
      <4> QED
        BY <1>3, <3>1, <4>2, <4>3
    <3>3. Cardinality(UnitsOf(sold')) = Cardinality(UnitsOf(sold)) + q
      <4>1. (\A p \in Orders \ {o} : sold'[p] = sold[p]) /\ sold'[o] = sold[o] + q
        BY <3>1
      <4> QED
        BY <1>1, <1>2, <3>2, <4>1, SumChanges
    <3> QED
      BY <1>3, <1>6, <2>1, <2>2, <2>3, <3>1, <3>2, <3>3
  <2> QED
    BY <1>8, <2>4, <2>5
<1> QED
  BY <1>5, <1>7, <1>8, LedgerMoves

LEMMA LedgerInvariant ==
  ASSUME Without({"reject", "return"}) PROVE Spec => []LedgerInv
<1>1. Init => StockMatchesLedger
  BY LedgerInit
<1>2. /\ TypeOK /\ RequestsOK /\ RowsLocked /\ Owes /\ SettledOnce /\ NoOversell
      /\ StockMatchesLedger /\ [Next]_vars
      => StockMatchesLedger'
  BY LedgerStep DEF LedgerInv
<1> QED
  BY <1>1, <1>2, Typing, RowsAreLocked, SettlementsOwe, NeverOversold, PTL DEF Spec, LedgerInv

\* The inventory row agrees with the movements of all orders, however many compete for
\* it, and even while a checkout is unfinished: unless a rejection, which settles
\* outside a transaction, or the return of a parcel is in use.
THEOREM LedgerAgrees ==
  ASSUME Without({"reject", "return"}) PROVE Spec => []StockMatchesLedger
<1>1. LedgerInv => StockMatchesLedger
  BY DEF LedgerInv
<1> QED
  BY <1>1, LedgerInvariant, PTL

\* The inventory row and its ledger implement StockPromise: no floor ever binds, and
\* a settlement moves units that its order holds and no others.
THEOREM StockIsKept == ASSUME Without({"reject", "return"}) PROVE Spec => StockKept
<1>1. Init => Promise!Init
  <2>1. ASSUME Init PROVE Available = Stock /\ Held = [o \in Orders |-> 0]
                          /\ sold = [o \in Orders |-> 0]
    BY <2>1, RowsAssumption DEF Init, Available, Held, Outstanding
  <2> QED
    BY <2>1 DEF Promise!Init
<1>2. TypeOK /\ RequestsOK /\ RowsLocked /\ LedgerInv /\ [Next]_vars
        => [Promise!Next]_(Promise!vars)
  <2> SUFFICES ASSUME TypeOK, RequestsOK, RowsLocked, LedgerInv, [Next]_vars
               PROVE  [Promise!Next]_(Promise!vars)
    OBVIOUS
  <2>1. CASE UNCHANGED <<onHand, reserved, sold, Held>>
    BY <2>1 DEF Promise!vars, Available
  <2>2. ASSUME NEW o \in Orders, NEW q \in Nat, SetsApart(o, q) \/ GivesBack(o, q) \/ Hands(o, q)
        PROVE  [Promise!Next]_(Promise!vars)
    <3>1. /\ onHand \in Nat /\ reserved \in Nat /\ Stock \in Nat
          /\ onHand <= Stock /\ reserved <= onHand
          /\ Held[o] \in Nat /\ Held[o] <= reserved
          /\ Held \in [Orders -> Nat] /\ sold \in [Orders -> Nat]
      <4>1. UnitsOf(sold) = Units(Orders, Stock, sold)
        BY DEF UnitsOf, Units
      <4>2. Cardinality(UnitsOf(sold)) \in Nat /\ Stock \in Nat
        BY <4>1, RowsAssumption, UnitsAreFinite
      <4> QED
        BY <4>2, HeldIsReserved, HeldType DEF LedgerInv, NoOversell, StockMatchesLedger, TypeOK
    <3>2. CASE q = 0
      <4>1. UNCHANGED <<onHand, reserved, sold, Held>>
        BY <2>2, <3>1, <3>2 DEF SetsApart, GivesBack, Hands
      <4> QED
        BY <2>1, <4>1
    <3>3. CASE q # 0
      <4>1. q \in 1 .. Stock
        BY <2>2, <3>1, <3>3 DEF SetsApart, GivesBack, Hands, Available
      <4>2. CASE SetsApart(o, q)
        <5>1. Available' = Available - q
          BY <3>1, <4>2 DEF SetsApart, Available
        <5>2. Promise!SetAside(o, q)
          BY <4>2, <5>1 DEF SetsApart, Promise!SetAside
        <5> QED
          BY <4>1, <5>2 DEF Promise!Next
      <4>3. CASE GivesBack(o, q)
        <5>1. Available' = Available + q
          BY <3>1, <4>3 DEF GivesBack, Available
        <5>2. Promise!GiveBack(o, q)
          BY <4>3, <5>1 DEF GivesBack, Promise!GiveBack
        <5> QED
          BY <4>1, <5>2 DEF Promise!Next
      <4>4. CASE Hands(o, q)
        <5>1. Available' = Available
          BY <3>1, <4>4 DEF Hands, Available
        <5>2. Promise!Hand(o, q)
          BY <4>4, <5>1 DEF Hands, Promise!Hand
        <5> QED
          BY <4>1, <5>2 DEF Promise!Next
      <4> QED
        BY <2>2, <4>2, <4>3, <4>4
    <3> QED
      BY <3>2, <3>3
  <2> QED
    BY <2>1, <2>2, LedgerMoves
<1> QED
  BY <1>1, <1>2, Typing, RowsAreLocked, LedgerInvariant, PTL DEF Spec, StockKept, Promise!Spec

=============================================================================
