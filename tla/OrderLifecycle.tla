--------------------------- MODULE OrderLifecycle ---------------------------
(***************************************************************************)
(* The life of merchant sub-orders under concurrent requests: the order    *)
(* row, its one shipment row, the inventory row the orders draw from and   *)
(* the stock-movement ledger (orders.service.ts).                          *)
(*                                                                         *)
(* A handler serves one request at a time.  What a request does between    *)
(* two points where another request can be observed is one action: a plain *)
(* SELECT, a single UPDATE ... WHERE, or a transaction from its last read  *)
(* to its commit.  A transaction that first flips the order row keeps that *)
(* row locked (variable lock) until it commits; the database runs READ     *)
(* COMMITTED, so a blocked UPDATE re-evaluates its WHERE when the lock is  *)
(* released.  Abort is a request that throws or whose process dies between *)
(* two steps: its open transaction is rolled back, what it committed stays.*)
(*                                                                         *)
(* A settling transaction also locks the inventory row from its settlement *)
(* on; since what it writes there is unseen until its commit, its effect on*)
(* stock is placed at the commit, which admits the same outcomes.  What a  *)
(* request does after its last step here (history, outbox, the completion  *)
(* schedule, the master order) changes none of these variables: the        *)
(* schedule is OrderCompletion's, the master OrderSystem's.                *)
(***************************************************************************)
EXTENDS Integers, FiniteSets, OrderStatus

CONSTANTS
  Orders,        \* sub-orders, one line each, all on one inventory row
  Handlers,      \* request handlers (API processes' in-flight requests)
  NoHandler,     \* the order row is not locked
  Ops,           \* the operations this instance lets handlers run
  Fresh,         \* orders whose checkout has not run its post-commit step
  BankTransfer,  \* orders paid by bank transfer
  MayAbort,      \* requests may throw, or lose their process, between two steps
  Qty,           \* ordered quantity of each order
  Stock          \* initial on-hand quantity of the inventory row

AllOps == {"accept", "partial", "reject", "transition", "cancel", "deliver",
           "carrier", "fulfil", "report", "retry", "rtsRequest", "rtsApprove",
           "rtsReject", "rtsComplete", "rtsLost", "return", "cancelShipment"}

ASSUME OpsAssumption == Ops \subseteq AllOps
ASSUME RowsAssumption ==
  /\ NoHandler \notin Handlers
  /\ Orders # {} /\ IsFiniteSet(Orders)
  /\ Fresh \subseteq Orders
  /\ BankTransfer \subseteq Orders
  /\ Qty \in [Orders -> Nat \ {0}]
  /\ Stock \in Nat
  /\ MayAbort \in BOOLEAN

VARIABLES
  status,    \* orders.status
  ship,      \* shipments.status, "none" until acceptance inserts the row
  driver,    \* shipments.assigned_driver_id is set
  cancelledAt, \* shipments.cancelled_at is set
  exc,       \* shipments.exception_status
  excType,   \* shipments.exception_type, in three classes
  onHand,    \* inventory_items.qty_on_hand
  reserved,  \* inventory_items.qty_reserved
  resv,      \* per order: sum of its RESERVE movements
  rel,       \* per order: sum of its RELEASE movements
  back,      \* per order: the part of rel written by recordReturn
  sold,      \* per order: sum of its SALE movements
  prints,    \* per order: fingerprints of processed returns
  posted,    \* per order: checkout has run its post-commit step
  lock,      \* per order: the handler whose transaction holds the order row
  job        \* per handler: the request in flight

stockVars == <<onHand, reserved, resv, rel, back, sold, prints>>
shipVars  == <<ship, driver, cancelledAt, exc, excType>>
vars      == <<status, shipVars, stockVars, lock, posted, job>>

ShipStatus == {"none", "PREPARING", "READY", "ASSIGNED", "PICKED_UP",
               "OUT_FOR_DELIVERY", "DELIVERED", "CANCELLED"}
ExcStatus  == {"none", "OPEN", "RETRY_PENDING", "RESOLVED", "CLOSED",
               "RTS_PENDING", "RTS_IN_PROGRESS", "RTS_COMPLETED"}
ExcType    == {"none", "REFUSED", "LOST", "OTHER"}
Condition  == {"GOOD", "WRITEOFF"}
At == {"idle", "advance", "decide", "flip", "reserve", "ship", "release",
       "write", "settle", "commit", "shipment", "shipcancel", "recheck", "claim", "view", "return"}

\* GREATEST(n, 0) and Math.min.
Max0Bug(n)  == n
Max0(n)     == IF n < 0 THEN 0 ELSE n
Least(a, b) == IF a < b THEN a ELSE b

NoJob == [at |-> "idle", op |-> "accept", order |-> CHOOSE o \in Orders : TRUE,
          seen |-> "DRAFT", to |-> "DRAFT", exc |-> "none", ship |-> "none", owed |-> 0]
Idle(h)        == job[h].at = "idle"
Done(h)        == job' = [job EXCEPT ![h] = NoJob]
Goto(h, label) == job' = [job EXCEPT ![h].at = label]

\* The order row of h's request may be written: no other transaction holds it.
Free(o) == lock[o] = NoHandler

\* RESERVE minus (RELEASE + SALE): what settleStockForStatus finds unsettled.
Outstanding(o) == resv[o] - (rel[o] + sold[o])

\* The units that each order still holds.
Held == [o \in Orders |-> Outstanding(o)]

\* What reserveStock may still set aside.
AvailableBug == onHand
Available == onHand - reserved

\* What a settlement that reads the ledger now would move (quantity <= 0 is skipped).
Owed(o) == Max0(Outstanding(o))

TypeOK ==
  /\ status \in [Orders -> Status]
  /\ ship \in [Orders -> ShipStatus]
  /\ driver \in [Orders -> BOOLEAN]
  /\ cancelledAt \in [Orders -> BOOLEAN]
  /\ exc \in [Orders -> ExcStatus]
  /\ excType \in [Orders -> ExcType]
  /\ onHand \in Nat
  /\ reserved \in Nat
  /\ resv \in [Orders -> Nat]
  /\ rel \in [Orders -> Nat]
  /\ back \in [Orders -> Nat]
  /\ sold \in [Orders -> Nat]
  /\ prints \in [Orders -> SUBSET (Nat \X Condition)]
  /\ lock \in [Orders -> Handlers \cup {NoHandler}]
  /\ posted \in [Orders -> BOOLEAN]
  /\ job \in [Handlers -> [at : At, op : AllOps, order : Orders, seen : Status,
                           to : Status, exc : ExcStatus, ship : ShipStatus,
                           owed : Nat]]

Init ==
  /\ status = [o \in Orders |-> IF o \in Fresh THEN "SUBMITTED"
                               ELSE IF o \in BankTransfer THEN "PAYMENT_PENDING"
                               ELSE "PENDING_CONFIRMATION"]
  /\ ship = [o \in Orders |-> "none"]
  /\ driver = [o \in Orders |-> FALSE]
  /\ cancelledAt = [o \in Orders |-> FALSE]
  /\ exc = [o \in Orders |-> "none"]
  /\ excType = [o \in Orders |-> "none"]
  /\ onHand = Stock
  /\ reserved = 0
  /\ resv = [o \in Orders |-> 0]
  /\ rel = [o \in Orders |-> 0]
  /\ back = [o \in Orders |-> 0]
  /\ sold = [o \in Orders |-> 0]
  /\ prints = [o \in Orders |-> {}]
  /\ lock = [o \in Orders |-> NoHandler]
  /\ posted = [o \in Orders |-> o \notin Fresh]
  /\ job = [h \in Handlers |-> NoJob]

-----------------------------------------------------------------------------
(* The three stock movements of an order: ledger row and inventory counters. *)

ReserveBug(o, quantity) ==
  /\ reserved' = reserved + quantity
  /\ resv' = [resv EXCEPT ![o] = @ + Qty[o]]
  /\ UNCHANGED <<onHand, rel, back, sold, prints>>

Reserve(o, quantity) ==
  /\ reserved' = reserved + quantity
  /\ resv' = [resv EXCEPT ![o] = @ + quantity]
  /\ UNCHANGED <<onHand, rel, back, sold, prints>>

Release(o, quantity) ==
  /\ reserved' = Max0(reserved - quantity)
  /\ rel' = [rel EXCEPT ![o] = @ + quantity]
  /\ UNCHANGED <<onHand, resv, back, sold, prints>>

SellBug(o, quantity) ==
  /\ onHand' = Max0(onHand - quantity)
  /\ sold' = [sold EXCEPT ![o] = @ + quantity]
  /\ UNCHANGED <<reserved, resv, rel, back, prints>>

Sell(o, quantity) ==
  /\ onHand' = Max0(onHand - quantity)
  /\ reserved' = Max0(reserved - quantity)
  /\ sold' = [sold EXCEPT ![o] = @ + quantity]
  /\ UNCHANGED <<resv, rel, back, prints>>

-----------------------------------------------------------------------------
(* Writers of the order row outside the request handlers. *)

\* checkout's post-commit step: an UPDATE by id alone, whatever the status is.
checkoutGate(o) ==
  /\ ~posted[o]
  /\ Free(o)
  /\ posted' = [posted EXCEPT ![o] = TRUE]
  /\ status' = [status EXCEPT ![o] = IF o \in BankTransfer THEN "PAYMENT_PENDING"
                                     ELSE "PENDING_CONFIRMATION"]
  /\ UNCHANGED <<shipVars, stockVars, lock, job>>

\* transitionOrderAfterPaymentConfirmation: a conditional UPDATE.
paymentConfirmedBug(o) ==
  /\ Free(o)
  /\ status' = [status EXCEPT ![o] = "PAYMENT_CONFIRMED"]
  /\ UNCHANGED <<shipVars, stockVars, lock, posted, job>>

paymentConfirmed(o) ==
  /\ Free(o)
  /\ status[o] = "PAYMENT_PENDING"
  /\ status' = [status EXCEPT ![o] = "PAYMENT_CONFIRMED"]
  /\ UNCHANGED <<shipVars, stockVars, lock, posted, job>>

\* expirePayment, its effect on the order: no stock is settled.
paymentExpired(o) ==
  /\ Free(o)
  /\ status[o] = "PAYMENT_PENDING"
  /\ status' = [status EXCEPT ![o] = "CANCELLED"]
  /\ UNCHANGED <<shipVars, stockVars, lock, posted, job>>

-----------------------------------------------------------------------------
(* Requests that decide on a submitted order: accept, partial, reject. *)

\* Only acceptance writes the status with a WHERE on it.
Deciding(op) == IF op = "accept" THEN "flip" ELSE "decide"

\* getOrder and assertTransition; a SUBMITTED order is first advanced.
DecideRead(h, o, op) ==
  LET to == CASE op = "accept"  -> "ACCEPTED"
              [] op = "partial" -> "PARTIALLY_ACCEPTED"
              [] op = "reject"  -> "REJECTED"
      next == IF status[o] = "SUBMITTED" THEN "advance" ELSE Deciding(op)
  IN /\ Idle(h) /\ op \in Ops
     /\ status[o] = "SUBMITTED" \/ to \in TRANSITIONS[status[o]]
     /\ job' = [job EXCEPT ![h] = [NoJob EXCEPT !.at = next, !.op = op, !.order = o,
                                               !.seen = status[o], !.to = to]]
     /\ UNCHANGED <<status, shipVars, stockVars, lock, posted>>

\* autoAdvanceToPendingConfirmation: again an UPDATE by id alone.
autoAdvance(h) ==
  LET o == job[h].order
  IN /\ job[h].at = "advance"
     /\ Free(o)
     /\ status' = [status EXCEPT ![o] = "PENDING_CONFIRMATION"]
     /\ job' = [job EXCEPT ![h].seen = "PENDING_CONFIRMATION",
                           ![h].at = Deciding(job[h].op)]
     /\ UNCHANGED <<shipVars, stockVars, lock, posted>>

\* acceptOrder, after its flip: reserveStock takes what is available, ...
reserveStock(h) ==
  LET o == job[h].order
      qtyToReserve == Max0(Least(Qty[o], Available))
  IN /\ job[h].at = "reserve"
     /\ Reserve(o, qtyToReserve)
     /\ Goto(h, "ship")
     /\ UNCHANGED <<status, shipVars, lock, posted>>

\* ... and createShipment inserts the row (order_id is UNIQUE: a second throws).
createShipment(h) ==
  LET o == job[h].order
  IN /\ job[h].at = "ship"
     /\ ship' = IF ship[o] = "none" THEN [ship EXCEPT ![o] = "PREPARING"] ELSE ship
     /\ Done(h)
     /\ UNCHANGED <<status, driver, cancelledAt, exc, excType, stockVars, lock, posted>>

\* partiallyAcceptOrder: no WHERE on the status, no reservation, no shipment.
partiallyAccept(h) ==
  LET o == job[h].order
  IN /\ job[h].at = "decide" /\ job[h].op = "partial"
     /\ Free(o)
     /\ status' = [status EXCEPT ![o] = "PARTIALLY_ACCEPTED"]
     /\ Done(h)
     /\ UNCHANGED <<shipVars, stockVars, lock, posted>>

\* rejectOrder settles first, on the legacy path: the ledger is read unlocked ...
rejectReadsLedger(h) ==
  LET owed == Owed(job[h].order)
  IN /\ job[h].at = "decide" /\ job[h].op = "reject"
     /\ job' = [job EXCEPT ![h].owed = owed,
                           ![h].at = IF owed > 0 THEN "release" ELSE "write"]
     /\ UNCHANGED <<status, shipVars, stockVars, lock, posted>>

\* ... the release commits on its own ...
rejectReleases(h) ==
  LET o == job[h].order
  IN /\ job[h].at = "release"
     /\ Release(o, job[h].owed)
     /\ Goto(h, "write")
     /\ UNCHANGED <<status, shipVars, lock, posted>>

\* ... and the status is written with no WHERE on the status.
rejectWrites(h) ==
  LET o == job[h].order
  IN /\ job[h].at = "write"
     /\ Free(o)
     /\ status' = [status EXCEPT ![o] = "REJECTED"]
     /\ Done(h)
     /\ UNCHANGED <<shipVars, stockVars, lock, posted>>

-----------------------------------------------------------------------------
(* Requests that flip the status with UPDATE ... WHERE status = seen. *)

FlipRequest(h, o, op, to) ==
  /\ Idle(h) /\ op \in Ops
  /\ job' = [job EXCEPT ![h] = [NoJob EXCEPT !.at = "flip", !.op = op, !.order = o,
                                  !.seen = status[o], !.to = to,
                                  !.exc = IF op \in {"deliver", "carrier"} THEN exc[o] ELSE @]]
  /\ UNCHANGED <<status, shipVars, stockVars, lock, posted>>

\* transitionStatus: any edge of the matrix but cancellation.
transitionStatus(h, o, newStatus) ==
  /\ newStatus \in TRANSITIONS[status[o]] \ {"CANCELLED"}
  /\ FlipRequest(h, o, "transition", newStatus)

cancelOrder(h, o) ==
  /\ status[o] \in Cancellable
  /\ FlipRequest(h, o, "cancel", "CANCELLED")

\* The shipment states in which deliverOrder and processCarrierDelivery go on.
Deliverable(o) == ship[o] # "none" /\ exc[o] \in {"none", "OPEN", "RESOLVED"}

deliverOrder(h, o) ==
  /\ "DELIVERED" \in TRANSITIONS[status[o]]
  /\ driver[o] /\ Deliverable(o)
  /\ FlipRequest(h, o, "deliver", "DELIVERED")

processCarrierDelivery(h, o) ==
  /\ "DELIVERED" \in TRANSITIONS[status[o]]
  /\ Deliverable(o)
  /\ FlipRequest(h, o, "carrier", "DELIVERED")

\* prepareOrder, readyOrder, assignDriver, pickupOrder, outForDeliveryOrder.
fulfil(h, o, newStatus) ==
  /\ newStatus \in {"PREPARING", "READY", "ASSIGNED", "PICKED_UP", "OUT_FOR_DELIVERY"}
  /\ newStatus \in TRANSITIONS[status[o]]
  /\ ship[o] # "none"
  /\ newStatus = "ASSIGNED" => ship[o] \in {"PREPARING", "READY"}
  /\ newStatus \in {"PICKED_UP", "OUT_FOR_DELIVERY"} => driver[o]
  /\ FlipRequest(h, o, "fulfil", newStatus)

AtFlip(h) == job[h].at = "flip" /\ Free(job[h].order)

\* WHERE id = ... AND status = <the status the request read>.
FlipMatchesBug(h) == job[h].at = "flip"
FlipMatches(h) == status[job[h].order] = job[h].seen

\* rowCount = 0: 409, nothing is written.  A carrier's delivery leaves its transaction
\* without an error instead, and goes on as if it had delivered: it schedules the
\* completion (OrderCompletion) and recalculates the master (OrderSystem).
flipConflict(h) ==
  /\ AtFlip(h)
  /\ ~FlipMatches(h)
  /\ Done(h)
  /\ UNCHANGED <<status, shipVars, stockVars, lock, posted>>

\* The statuses for which settleStockForStatus does something.
Settling == {"CANCELLED", "REJECTED", "DELIVERED"}

\* A flip with nothing to settle commits at once.
plainFlip(h) ==
  LET o == job[h].order
  IN /\ AtFlip(h)
     /\ FlipMatches(h)
     /\ job[h].to \notin Settling
     /\ status' = [status EXCEPT ![o] = job[h].to]
     /\ CASE job[h].op = "accept" -> Goto(h, "reserve")
          [] job[h].op = "fulfil" -> Goto(h, "shipment")
          [] OTHER                -> Done(h)
     /\ UNCHANGED <<shipVars, stockVars, lock, posted>>

\* A settling flip keeps the row locked, unseen by others, and reads the ledger.
settlingFlipBug(h) ==
  LET o == job[h].order
  IN /\ AtFlip(h)
     /\ FlipMatches(h)
     /\ job[h].to \in Settling
     /\ job' = [job EXCEPT ![h].owed = Owed(o),
                           ![h].at = IF job[h].op = "cancel" THEN "settle" ELSE "commit"]
     /\ UNCHANGED <<status, shipVars, stockVars, lock, posted>>

settlingFlip(h) ==
  LET o == job[h].order
  IN /\ AtFlip(h)
     /\ FlipMatches(h)
     /\ job[h].to \in Settling
     /\ lock' = [lock EXCEPT ![o] = h]
     /\ job' = [job EXCEPT ![h].owed = Owed(o),
                           ![h].at = IF job[h].op = "cancel" THEN "settle" ELSE "commit"]
     /\ UNCHANGED <<status, shipVars, stockVars, posted>>

\* The shipment write that follows a fulfilment flip: by id, whatever its status.
fulfilShipment(h) ==
  LET o == job[h].order
  IN /\ job[h].at = "shipment"
     /\ ship' = [ship EXCEPT ![o] = job[h].to]
     /\ driver' = [driver EXCEPT ![o] = @ \/ job[h].to = "ASSIGNED"]
     /\ Done(h)
     /\ UNCHANGED <<status, cancelledAt, exc, excType, stockVars, lock, posted>>

-----------------------------------------------------------------------------
(* The shipment's own cancel endpoint: neither the order nor its stock is asked. *)

cancelShipment(h, o) ==
  /\ Idle(h) /\ "cancelShipment" \in Ops
  /\ ship[o] # "none" /\ ~cancelledAt[o]
  /\ job' = [job EXCEPT ![h] = [NoJob EXCEPT !.at = "shipcancel", !.op = "cancelShipment",
                                            !.order = o]]
  /\ UNCHANGED <<status, shipVars, stockVars, lock, posted>>

\* After the carrier's answer, an UPDATE by id.
cancelShipmentWrites(h) ==
  LET o == job[h].order
  IN /\ job[h].at = "shipcancel"
     /\ ship' = [ship EXCEPT ![o] = "CANCELLED"]
     /\ cancelledAt' = [cancelledAt EXCEPT ![o] = TRUE]
     /\ Done(h)
     /\ UNCHANGED <<status, driver, exc, excType, stockVars, lock, posted>>

-----------------------------------------------------------------------------
(* The commits of the settling transactions. *)

\* The flip becomes visible and the order row is unlocked.
Commit(h) ==
  LET o == job[h].order
  IN /\ status' = [status EXCEPT ![o] = job[h].to]
     /\ lock' = [lock EXCEPT ![o] = NoHandler]
     /\ Done(h)
     /\ UNCHANGED posted

transitionCommits(h) ==
  LET o == job[h].order
  IN /\ job[h].at = "commit" /\ job[h].op = "transition"
     /\ Commit(h)
     /\ IF job[h].to = "DELIVERED" THEN Sell(o, job[h].owed) ELSE Release(o, job[h].owed)
     /\ UNCHANGED shipVars

\* cancelOrder, after its settlement, reads the shipment's status ...
cancelReadsShipment(h) ==
  /\ job[h].at = "settle"
  /\ job' = [job EXCEPT ![h].ship = ship[job[h].order], ![h].at = "commit"]
  /\ UNCHANGED <<status, shipVars, stockVars, lock, posted>>

\* ... writes CANCELLED if what it read was cancellable, closes the exception,
\* and commits.
cancelCommits(h) ==
  LET o == job[h].order
      found == job[h].ship
  IN /\ job[h].at = "commit" /\ job[h].op = "cancel"
     /\ Commit(h)
     /\ Release(o, job[h].owed)
     /\ IF found \in {"PREPARING", "READY", "ASSIGNED", "PICKED_UP"}
        THEN ship' = [ship EXCEPT ![o] = "CANCELLED"]
             /\ cancelledAt' = [cancelledAt EXCEPT ![o] = TRUE]
        ELSE UNCHANGED <<ship, cancelledAt>>
     /\ exc' = IF found # "none" /\ exc[o] \in {"OPEN", "RETRY_PENDING", "RTS_PENDING",
                                                "RTS_IN_PROGRESS", "RTS_COMPLETED"}
               THEN [exc EXCEPT ![o] = "CLOSED"] ELSE exc
     /\ UNCHANGED <<driver, excType>>

\* deliverOrder and processCarrierDelivery resolve the exception they saw OPEN.
deliveryCommits(h) ==
  LET o == job[h].order
  IN /\ job[h].at = "commit" /\ job[h].op \in {"deliver", "carrier"}
     /\ Commit(h)
     /\ Sell(o, job[h].owed)
     /\ ship' = [ship EXCEPT ![o] = "DELIVERED"]
     /\ exc' = IF job[h].exc = "OPEN" THEN [exc EXCEPT ![o] = "RESOLVED"] ELSE exc
     /\ UNCHANGED <<driver, cancelledAt, excType>>

-----------------------------------------------------------------------------
(* The exception and return-to-sender requests on the shipment row. *)

\* The exception status each request's UPDATE ... WHERE expects, and writes.
ExcFrom == [report |-> "none", retry |-> "OPEN", rtsRequest |-> "OPEN",
            rtsApprove |-> "RTS_PENDING", rtsReject |-> "RTS_PENDING",
            rtsComplete |-> "RTS_IN_PROGRESS", rtsLost |-> "OPEN"]
ExcTo   == [report |-> "OPEN", retry |-> "RETRY_PENDING", rtsRequest |-> "RTS_PENDING",
            rtsApprove |-> "RTS_IN_PROGRESS", rtsReject |-> "OPEN",
            rtsComplete |-> "RTS_COMPLETED", rtsLost |-> "RTS_IN_PROGRESS"]

\* What an exception request asks of the order; report, requestRTS and the LOST
\* flow ask it again inside their transaction.
OrderAllows(op, o) ==
  CASE op = "report" -> status[o] = "OUT_FOR_DELIVERY"
    [] op \in {"retry", "rtsRequest", "rtsLost"}
         -> status[o] \notin {"CANCELLED", "DELIVERED", "COMPLETED", "DISPUTED"}
    [] OTHER -> TRUE

\* The prechecks, outside any transaction: the shipment is read, then the order.
ExceptionRequest(h, o, op) ==
  /\ Idle(h) /\ op \in Ops
  /\ ship[o] # "none"
  /\ OrderAllows(op, o)
  /\ job' = [job EXCEPT ![h] =
               [NoJob EXCEPT !.op = op, !.order = o,
                             !.at = IF op \in {"report", "rtsRequest", "rtsLost"}
                                    THEN "recheck" ELSE "claim"]]
  /\ UNCHANGED <<status, shipVars, stockVars, lock, posted>>

reportShipmentException(h, o) ==
  /\ exc[o] # "OPEN"
  /\ ship[o] \notin {"DELIVERED", "CANCELLED"}
  /\ ExceptionRequest(h, o, "report")

\* (Attempts count deliveries, so the limit on them never refuses a retry.)
authorizeShipmentRetry(h, o) ==
  /\ exc[o] = "OPEN"
  /\ ship[o] # "CANCELLED"
  /\ ExceptionRequest(h, o, "retry")

requestRTS(h, o) ==
  /\ exc[o] = "OPEN" /\ excType[o] \in {"REFUSED", "LOST"}
  /\ ship[o] # "CANCELLED"
  /\ ExceptionRequest(h, o, "rtsRequest")

approveRTS(h, o) ==
  /\ exc[o] = "RTS_PENDING"
  /\ ExceptionRequest(h, o, "rtsApprove")

rejectRTS(h, o) ==
  /\ exc[o] = "RTS_PENDING"
  /\ ExceptionRequest(h, o, "rtsReject")

completeRTS(h, o) ==
  /\ exc[o] = "RTS_IN_PROGRESS"
  /\ ExceptionRequest(h, o, "rtsComplete")

requestAndApproveLostRTS(h, o) ==
  /\ exc[o] = "OPEN" /\ excType[o] = "LOST"
  /\ ship[o] # "CANCELLED"
  /\ ExceptionRequest(h, o, "rtsLost")

\* The order read again inside the transaction, without a lock.
exceptionRechecks(h) ==
  /\ job[h].at = "recheck"
  /\ IF OrderAllows(job[h].op, job[h].order) THEN Goto(h, "claim") ELSE Done(h)
  /\ UNCHANGED <<status, shipVars, stockVars, lock, posted>>

\* The conditional UPDATE; only a report names the exception's type.
exceptionClaims(h) ==
  LET o == job[h].order
      op == job[h].op
  IN /\ job[h].at = "claim"
     /\ IF exc[o] # ExcFrom[op] THEN UNCHANGED <<exc, excType>>
        ELSE /\ exc' = [exc EXCEPT ![o] = ExcTo[op]]
             /\ IF op = "report"
                THEN \E type \in ExcType \ {"none"} : excType' = [excType EXCEPT ![o] = type]
                ELSE UNCHANGED excType
     /\ Done(h)
     /\ UNCHANGED <<status, ship, driver, cancelledAt, stockVars, lock, posted>>

-----------------------------------------------------------------------------
(* recordReturn: the physical return of an undelivered parcel. *)

\* What the shipment must be for its parcel to be taken back.
RestockableBug(o) == exc[o] = "RTS_COMPLETED"
Restockable(o) == excType[o] # "LOST" /\ exc[o] = "RTS_COMPLETED"

recordReturn(h, o) ==
  /\ Idle(h) /\ "return" \in Ops
  /\ Restockable(o)
  /\ status[o] # "CANCELLED"
  /\ job' = [job EXCEPT ![h] = [NoJob EXCEPT !.at = "view", !.op = "return", !.order = o]]
  /\ UNCHANGED <<status, shipVars, stockVars, lock, posted>>

\* What may still be returned, by the ledger: RESERVE minus earlier returns.
Returnable(o) == resv[o] - back[o]

\* The first ledger view resolves the line to its inventory row (an order that
\* reserved nothing has none); its quantities are read too, and go stale.
returnViews(h) ==
  LET o == job[h].order
  IN /\ job[h].at = "view"
     /\ IF resv[o] = 0 THEN Done(h)
        ELSE job' = [job EXCEPT ![h].owed = Max0(Returnable(o)), ![h].at = "return"]
     /\ UNCHANGED <<status, shipVars, stockVars, lock, posted>>

\* The cap of a return: the view is built again once the row is locked.
RemainingBug(h) == job[h].owed
Remaining(h) == Returnable(job[h].order)

\* With the inventory row locked: replay, refuse, or release and write off.
returnCommits(h, k, condition) ==
  LET o == job[h].order
  IN /\ job[h].at = "return"
     /\ IF <<k, condition>> \in prints[o] \/ k > Remaining(h) THEN UNCHANGED stockVars
        ELSE /\ reserved' = Max0(reserved - k)
             /\ rel' = [rel EXCEPT ![o] = @ + k]
             /\ back' = [back EXCEPT ![o] = @ + k]
             /\ onHand' = IF condition = "WRITEOFF" THEN Max0(onHand - k) ELSE onHand
             /\ prints' = [prints EXCEPT ![o] = @ \cup {<<k, condition>>}]
             /\ UNCHANGED <<resv, sold>>
     /\ Done(h)
     /\ UNCHANGED <<status, shipVars, lock, posted>>

-----------------------------------------------------------------------------
\* A request throws between two steps, or the process that serves it dies.
Abort(h) ==
  /\ MayAbort
  /\ ~Idle(h)
  /\ lock' = [o \in Orders |-> IF lock[o] = h THEN NoHandler ELSE lock[o]]
  /\ Done(h)
  /\ UNCHANGED <<status, shipVars, stockVars, posted>>

\* A request arrives.
Begin(h, o) ==
  \/ \E op \in {"accept", "partial", "reject"} : DecideRead(h, o, op)
  \/ \E s \in Status : transitionStatus(h, o, s) \/ fulfil(h, o, s)
  \/ cancelOrder(h, o)
  \/ deliverOrder(h, o)
  \/ processCarrierDelivery(h, o)
  \/ reportShipmentException(h, o) \/ authorizeShipmentRetry(h, o)
  \/ requestRTS(h, o) \/ approveRTS(h, o) \/ rejectRTS(h, o)
  \/ completeRTS(h, o) \/ requestAndApproveLostRTS(h, o)
  \/ recordReturn(h, o)
  \/ cancelShipment(h, o)

\* A request in flight takes its next step.
Step(h) ==
  \/ autoAdvance(h)
  \/ reserveStock(h) \/ createShipment(h)
  \/ partiallyAccept(h)
  \/ rejectReadsLedger(h) \/ rejectReleases(h) \/ rejectWrites(h)
  \/ flipConflict(h) \/ plainFlip(h) \/ settlingFlip(h)
  \/ fulfilShipment(h) \/ cancelShipmentWrites(h)
  \/ transitionCommits(h)
  \/ cancelReadsShipment(h) \/ cancelCommits(h)
  \/ deliveryCommits(h)
  \/ exceptionRechecks(h) \/ exceptionClaims(h)
  \/ returnViews(h)
  \/ \E k \in 1..(Qty[job[h].order] + 1), c \in Condition : returnCommits(h, k, c)

Next ==
  \/ \E o \in Orders : checkoutGate(o) \/ paymentConfirmed(o) \/ paymentExpired(o)
  \/ \E h \in Handlers : Abort(h) \/ Step(h) \/ \E o \in Orders : Begin(h, o)

Spec == Init /\ [][Next]_vars
-----------------------------------------------------------------------------
(* What holds. *)

\* Reserved units are always on the shelf: whatever requests do to an order, the
\* inventory row never promises more units than it holds (the rule migration 0055
\* leaves to the application code instead of a CHECK).
NoOversell == reserved <= onHand

\* Returns of one order, however they interleave, never bring back more units
\* than the order reserved (recordReturn's cap, read again under the row lock).
ReturnsCapped == \A o \in Orders : back[o] <= resv[o]

\* A parcel reported LOST is never restocked: the check is made on a stale read,
\* and is safe because nothing rewrites the type of an exception.
LostNeverRestocked == \A o \in Orders : excType[o] = "LOST" => back[o] = 0

\* A unit an order reserved is released or sold at most once, whichever requests
\* race (settleStockForStatus inside the transaction that flips the order).
SettledOnce == \A o \in Orders : rel[o] + sold[o] <= resv[o]

\* The inventory row agrees with the ledger: it keeps aside exactly what the
\* orders still hold, and what has left the shelf is exactly what was sold.
\* (Sums as numbers of units; no order holds, or was sold, more than the stock.)
UnitsOf(sum) == {u \in Orders \X (1 .. Stock) : u[2] <= sum[u[1]]}
StockMatchesLedger ==
  /\ \A o \in Orders : Outstanding(o) <= Stock /\ sold[o] <= Stock
  /\ reserved = Cardinality(UnitsOf(Held))
  /\ onHand + Cardinality(UnitsOf(sold)) = Stock

\* The inventory row and its ledger implement StockPromise: what is available, and
\* what each order holds, change as if the floors of settleStockForStatus's UPDATEs
\* (GREATEST(..., 0)) and the staleness of its reads were not there.
Promise == INSTANCE StockPromise WITH left <- Available, kept <- Held
StockKept == Promise!Spec

\* Of concurrent accepts one wins: an order never reserves more than was ordered.
ReservedOnce == \A o \in Orders : resv[o] <= Qty[o]

\* Stock follows the order: only a cancelled or rejected order gave units back,
\* only a delivered one sold them.
SettlementMatchesStatus ==
  \A o \in Orders :
    /\ rel[o] > 0  => status[o] \in {"CANCELLED", "REJECTED"}
    /\ sold[o] > 0 => status[o] \in {"DELIVERED", "COMPLETED", "DISPUTED"}

\* A shipment is delivered or cancelled only with its order.
ShipmentOutcomeAgrees ==
  \A o \in Orders :
    /\ ship[o] = "CANCELLED" => status[o] = "CANCELLED"
    /\ ship[o] = "DELIVERED" => status[o] \in {"DELIVERED", "COMPLETED", "DISPUTED"}

\* Every status change anyone can observe is an edge of the transition matrix, or
\* one of cancelOrder's own.
StatusEdges == [][\A o \in Orders : status'[o] # status[o] => Edge(status[o], status'[o])]_vars

==============================================================================
