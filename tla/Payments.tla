------------------------------- MODULE Payments -------------------------------
(***************************************************************************)
(* The payment of one sub-order (payments.service.ts): the payment record, *)
(* its refunds, and the order's status as far as payments read or write it.*)
(*                                                                         *)
(* A handler serves one request at a time.  An action is an unlocked read, *)
(* one statement on a row, or a transaction from its last lock to its      *)
(* commit.  A transaction that has written a row and not committed holds   *)
(* the row: the predicates PaymentFree, OrderFree and RefundFree read off  *)
(* the transactions in flight who does.  What it wrote is in its job until *)
(* the commit, which is what other connections see.                        *)
(*                                                                         *)
(* confirmPayment writes the payment row and then the order row,           *)
(* cancelOrder the order row and then the payment row: the database breaks *)
(* such a deadlock by aborting one of the two (victim).                    *)
(*                                                                         *)
(* The checkout commits the order as SUBMITTED and writes its first status *)
(* later, by id; a merchant's request may overtake it, go round the        *)
(* payment gate, or write by id an order that has changed.  What is said   *)
(* of the order holds until that happens, which strays records.            *)
(***************************************************************************)
EXTENDS Integers, FiniteSets

CONSTANTS
  Handlers,     \* requests in flight at a time
  Refunds,      \* refund rows: this bounds how many refunds are ever asked for
  Methods,      \* payment methods of this instance
  Confirmable,  \* amounts an administrator or a courier may enter
  MaxRefund,    \* bound of the amounts
  MayAbort      \* a request may throw or lose its process between two steps

ASSUME PaymentAssumption ==
  /\ Methods \subseteq {"BANK_TRANSFER", "CASH_ON_DELIVERY"}
  /\ MaxRefund \in Nat
  /\ Confirmable \subseteq Int
  /\ \A amount \in Confirmable : amount <= MaxRefund
  /\ MayAbort \in BOOLEAN
  /\ IsFiniteSet(Refunds)

VARIABLES
  method,     \* payment_method, which nothing changes
  order,      \* orders.status, with ACCEPTED to OUT_FOR_DELIVERY as UNDERWAY
  pay,        \* payment_records.status
  confirmed,  \* confirmed_amount_minor, 0 for NULL
  refund,     \* per refund row: its status and amount
  posted,     \* the checkout has written the order's first status
  strays,     \* history: "gate" was gone round, "order" was written by id after a change
  job         \* per handler: the request in flight

vars == <<method, order, pay, confirmed, refund, posted, strays, job>>

OrderStatuses == {"SUBMITTED", "PAYMENT_PENDING", "PAYMENT_CONFIRMED",
                  "PENDING_CONFIRMATION", "UNDERWAY", "DELIVERED", "REJECTED", "CANCELLED"}
PayStatus == {"CREATED", "AWAITING_PAYMENT", "AWAITING_VERIFICATION", "REJECTED",
              "CONFIRMED", "PARTIALLY_REFUNDED", "REFUNDED", "EXPIRED", "CANCELLED"}
RefundStatus == {"none", "REQUESTED", "SUCCEEDED"}

\* PAYMENT_TRANSITIONS without the digital providers, which nothing drives.
PAYMENT_TRANSITIONS ==
  [ CREATED               |-> {"AWAITING_PAYMENT", "CANCELLED"},
    AWAITING_PAYMENT      |-> {"AWAITING_VERIFICATION", "EXPIRED", "CANCELLED", "CONFIRMED"},
    AWAITING_VERIFICATION |-> {"CONFIRMED", "REJECTED", "EXPIRED", "CANCELLED"},
    REJECTED              |-> {"AWAITING_PAYMENT", "CANCELLED"},
    CONFIRMED             |-> {"PARTIALLY_REFUNDED", "REFUNDED"},
    PARTIALLY_REFUNDED    |-> {"PARTIALLY_REFUNDED", "REFUNDED"},
    REFUNDED              |-> {},
    EXPIRED               |-> {},
    CANCELLED             |-> {} ]
Terminal    == {"CONFIRMED", "EXPIRED", "CANCELLED", "REFUNDED"}
Refundable  == {"CONFIRMED", "PARTIALLY_REFUNDED"}
Cancellable == {"PAYMENT_PENDING", "PAYMENT_CONFIRMED", "PENDING_CONFIRMATION", "UNDERWAY"}
Decidable   == {"SUBMITTED", "PAYMENT_CONFIRMED", "PENDING_CONFIRMATION"}

At == {"idle", "flip", "settle", "cancel", "readPayment", "cancelPayment",
       "accept", "partial", "reject", "autoRefund", "refund", "approve", "commit"}

TypeOK ==
  /\ method \in Methods
  /\ order \in OrderStatuses
  /\ pay \in PayStatus
  /\ confirmed \in Int
  /\ refund \in [Refunds -> [status : RefundStatus, amount : Nat]]
  /\ posted \in BOOLEAN
  /\ strays \subseteq {"gate", "order"}
  /\ job \in [Handlers -> [at : At, seen : PayStatus, to : PayStatus, amount : Int,
                           order : OrderStatuses, refund : SUBSET Refunds]]

NoJob == [at |-> "idle", seen |-> "CREATED", to |-> "CREATED", amount |-> 0,
          order |-> "CANCELLED", refund |-> {}]
Idle(h) == job[h].at = "idle"
Done(h) == job' = [job EXCEPT ![h] = NoJob]
Begin(h, label, to, amount) ==
  job' = [job EXCEPT ![h] = [NoJob EXCEPT !.at = label, !.seen = pay, !.to = to,
                                          !.amount = amount]]

\* Rows that no transaction in flight has written.
PaymentFree   == \A h \in Handlers : job[h].at # "settle"
OrderFree     == \A h \in Handlers : job[h].at \notin {"readPayment", "cancelPayment"}
RefundFree(r) == \A h \in Handlers : job[h].at = "commit" => r \notin job[h].refund

\* SUM(amount_minor) over the refunds in some statuses, counted in minor units.
MinorUnits(statuses) ==
  {u \in Refunds \X (1 .. MaxRefund) :
     refund[u[1]].status \in statuses /\ u[2] <= refund[u[1]].amount}
Total(statuses) == Cardinality(MinorUnits(statuses))

\* The first status: a transfer is waited for, cash is not.
FirstStatus == IF method = "BANK_TRANSFER" THEN "PAYMENT_PENDING" ELSE "PENDING_CONFIRMATION"

Init ==
  /\ method \in Methods
  /\ order = "SUBMITTED"
  /\ posted = FALSE
  /\ strays = {}
  /\ pay = IF method = "BANK_TRANSFER" THEN "CREATED" ELSE "AWAITING_PAYMENT"
  /\ confirmed = 0
  /\ refund = [r \in Refunds |-> [status |-> "none", amount |-> 0]]
  /\ job = [h \in Handlers |-> NoJob]

----------------------------------------------------------------------------
\* Each of these reads the payment, and then flips it if its status is still the same.

\* What the checkout does after it has written the order's first status.
awaitPayment(h) ==
  /\ Idle(h) /\ posted /\ method = "BANK_TRANSFER"
  /\ pay = "CREATED"
  /\ Begin(h, "flip", "AWAITING_PAYMENT", 0)
  /\ UNCHANGED <<order, pay, confirmed, refund>>

\* The matrix refuses what the method's own list of statuses admits, a REJECTED proof.
submitProof(h) ==
  /\ Idle(h) /\ method = "BANK_TRANSFER"
  /\ pay \in {"AWAITING_PAYMENT", "REJECTED"}
  /\ "AWAITING_VERIFICATION" \in PAYMENT_TRANSITIONS[pay]
  /\ Begin(h, "flip", "AWAITING_VERIFICATION", 0)
  /\ UNCHANGED <<order, pay, confirmed, refund>>

verifyPayment(h) ==
  /\ Idle(h)
  /\ pay = "AWAITING_VERIFICATION"
  /\ \/ Begin(h, "flip", "REJECTED", 0)
     \/ \E amount \in Confirmable : Begin(h, "flip", "CONFIRMED", amount)
  /\ UNCHANGED <<order, pay, confirmed, refund>>

confirmCash(h) ==
  /\ Idle(h) /\ method = "CASH_ON_DELIVERY"
  /\ pay = "AWAITING_PAYMENT"
  /\ \E amount \in Confirmable : Begin(h, "flip", "CONFIRMED", amount)
  /\ UNCHANGED <<order, pay, confirmed, refund>>

expirePayment(h) ==
  /\ Idle(h)
  /\ pay \in {"AWAITING_PAYMENT", "AWAITING_VERIFICATION"}
  /\ Begin(h, "flip", "EXPIRED", 0)
  /\ UNCHANGED <<order, pay, confirmed, refund>>

\* Confirming a transfer and expiring go on to the order in the same transaction.
OrderFollows(h) ==
  \/ job[h].to = "EXPIRED"
  \/ job[h].to = "CONFIRMED" /\ method = "BANK_TRANSFER"

\* UPDATE ... WHERE status = what was read.
FlipMatchesBug(h) == TRUE
FlipMatches(h)    == pay = job[h].seen

flip(h) ==
  /\ job[h].at = "flip" /\ PaymentFree
  /\ \/ /\ ~FlipMatches(h)
        /\ Done(h) /\ UNCHANGED <<pay, confirmed>>
     \/ /\ FlipMatches(h) /\ OrderFollows(h)
        /\ job' = [job EXCEPT ![h].at = "settle"]
        /\ UNCHANGED <<pay, confirmed>>
     \/ /\ FlipMatches(h) /\ ~OrderFollows(h)
        /\ pay' = job[h].to
        /\ confirmed' = IF job[h].to = "CONFIRMED" THEN job[h].amount ELSE confirmed
        /\ Done(h)
  /\ UNCHANGED <<order, refund>>

\* The order is read on another connection, then written WHERE it is still PAYMENT_PENDING.
OrderAfterBug(to) == to
OrderAfter(to)    == IF to = "CONFIRMED" THEN "PAYMENT_CONFIRMED" ELSE "CANCELLED"

settleBug(h) ==
  /\ job[h].at = "settle"
  /\ \/ /\ order = "PAYMENT_PENDING" /\ OrderFree
        /\ order' = OrderAfter(job[h].to)
        /\ UNCHANGED <<pay, confirmed, job>>
     \/ /\ order # "PAYMENT_PENDING"
        /\ pay' = job[h].to
        /\ confirmed' = IF job[h].to = "CONFIRMED" THEN job[h].amount ELSE confirmed
        /\ Done(h) /\ UNCHANGED order
  /\ UNCHANGED refund

settle(h) ==
  /\ job[h].at = "settle"
  /\ \/ order # "PAYMENT_PENDING" /\ UNCHANGED order
     \/ order = "PAYMENT_PENDING" /\ OrderFree /\ order' = OrderAfter(job[h].to)
  /\ pay' = job[h].to
  /\ confirmed' = IF job[h].to = "CONFIRMED" THEN job[h].amount ELSE confirmed
  /\ Done(h)
  /\ UNCHANGED refund

----------------------------------------------------------------------------
\* The order's side.

\* A history of two kinds of step; no guard reads it.
Strays(roundGate, afterChange) ==
  strays' = strays \cup {k \in {"gate"} : roundGate} \cup {k \in {"order"} : afterChange}

\* Committed as SUBMITTED, the order gets its first status in a statement of its own, by id.
checkoutGate ==
  /\ ~posted /\ OrderFree
  /\ order' = FirstStatus
  /\ posted' = TRUE
  /\ Strays(FALSE, order # "SUBMITTED")
  /\ UNCHANGED <<pay, confirmed, refund, job>>

\* Where the conditional writes of OrderLifecycle take an order: acceptance, the status
\* endpoint and the fulfilment.
Onward ==
  [ SUBMITTED            |-> {"PENDING_CONFIRMATION"},
    PENDING_CONFIRMATION |-> {"UNDERWAY", "REJECTED", "PAYMENT_PENDING"},
    PAYMENT_PENDING      |-> {"PAYMENT_CONFIRMED"},
    PAYMENT_CONFIRMED    |-> {"UNDERWAY", "REJECTED"},
    UNDERWAY             |-> {"DELIVERED"} ]

\* UPDATE ... WHERE the order still has the status the request read.
orderMoves ==
  /\ OrderFree
  /\ order \in DOMAIN Onward
  /\ order' \in Onward[order]
  /\ Strays(method = "BANK_TRANSFER" /\ order \in {"SUBMITTED", "PAYMENT_PENDING"}, FALSE)
  /\ UNCHANGED <<pay, confirmed, refund, posted, job>>

\* A merchant's decision reads the order.  An acceptance that does not find SUBMITTED is a
\* conditional write, one of orderMoves.
decideOrder(h) ==
  /\ Idle(h)
  /\ order \in Decidable
  /\ \E decision \in {"accept", "partial", "reject"} :
       /\ decision = "accept" => order = "SUBMITTED"
       /\ job' = [job EXCEPT ![h] = [NoJob EXCEPT !.at = decision, !.order = order]]
  /\ UNCHANGED <<order, pay, confirmed, refund>>

\* A SUBMITTED order is first advanced, by id, whatever it has become.
autoAdvance(h) ==
  /\ job[h].at \in {"accept", "partial", "reject"} /\ job[h].order = "SUBMITTED"
  /\ OrderFree
  /\ order' = "PENDING_CONFIRMATION"
  /\ IF job[h].at = "accept" THEN Done(h)
     ELSE job' = [job EXCEPT ![h].order = "PENDING_CONFIRMATION"]
  /\ Strays(method = "BANK_TRANSFER", order # "SUBMITTED")
  /\ UNCHANGED <<pay, confirmed, refund, posted>>

\* By id, whatever the order has become.
partiallyAccept(h) ==
  /\ job[h].at = "partial" /\ job[h].order # "SUBMITTED"
  /\ OrderFree
  /\ order' = "UNDERWAY"
  /\ Done(h)
  /\ Strays(FALSE, order # job[h].order)
  /\ UNCHANGED <<pay, confirmed, refund, posted>>

cancelOrder(h) ==
  /\ Idle(h)
  /\ order \in Cancellable
  /\ job' = [job EXCEPT ![h] = [NoJob EXCEPT !.at = "cancel", !.order = order]]
  /\ UNCHANGED <<order, pay, confirmed, refund>>

cancelFlips(h) ==
  /\ job[h].at = "cancel" /\ OrderFree
  /\ \/ order = job[h].order /\ job' = [job EXCEPT ![h].at = "readPayment"]
     \/ order # job[h].order /\ Done(h)
  /\ UNCHANGED <<order, pay, confirmed, refund>>

\* The payment is read on another connection; a terminal one is left alone.
cancelReadsPaymentBug(h) ==
  /\ job[h].at = "readPayment" /\ PaymentFree
  /\ pay' = IF pay \in Terminal THEN pay ELSE "CANCELLED"
  /\ job' = [job EXCEPT ![h].at = "cancelPayment", ![h].seen = pay']
  /\ UNCHANGED <<order, confirmed, refund>>

cancelReadsPayment(h) ==
  /\ job[h].at = "readPayment"
  /\ \/ /\ pay \in Terminal
        /\ order' = "CANCELLED" /\ Done(h)
     \/ /\ pay \notin Terminal
        /\ job' = [job EXCEPT ![h].at = "cancelPayment", ![h].seen = pay]
        /\ UNCHANGED order
  /\ UNCHANGED <<pay, confirmed, refund>>

\* The payment is flipped if it still is what was read; the order is cancelled either way.
cancelPayment(h) ==
  /\ job[h].at = "cancelPayment" /\ PaymentFree
  /\ pay' = IF FlipMatches(h) THEN "CANCELLED" ELSE pay
  /\ order' = "CANCELLED"
  /\ Done(h)
  /\ UNCHANGED <<confirmed, refund>>

\* By id, whatever the order has become.
rejectWrites(h) ==
  /\ job[h].at = "reject" /\ job[h].order # "SUBMITTED"
  /\ OrderFree
  /\ order' = "REJECTED"
  /\ job' = [job EXCEPT ![h].at = "autoRefund"]
  /\ UNCHANGED <<pay, confirmed, refund>>

\* A rejected order that was paid asks for all of its money back.  Where no money was
\* confirmed a negative amount is skipped, and 0, taken for the price of the order, exceeds
\* what is refundable.
autoRefund(h) ==
  /\ job[h].at = "autoRefund"
  /\ IF pay \in Refundable /\ confirmed > 0 THEN Begin(h, "refund", pay, confirmed)
     ELSE Done(h)
  /\ UNCHANGED <<order, pay, confirmed, refund>>

----------------------------------------------------------------------------
\* Refunds.

requestRefund(h) ==
  /\ Idle(h)
  /\ pay \in Refundable
  /\ \E amount \in 1 .. MaxRefund : Begin(h, "refund", pay, amount)
  /\ UNCHANGED <<order, pay, confirmed, refund>>

CountedBug == {"SUCCEEDED"}
Counted    == {"REQUESTED", "SUCCEEDED"}
FitsBug(amount) == amount <= confirmed
Fits(amount)    == amount + Total(Counted) <= confirmed

\* SELECT ... FOR UPDATE on the payment, then the sum and the insert.
insertRefund(h) ==
  /\ job[h].at = "refund" /\ PaymentFree
  /\ \/ /\ Fits(job[h].amount)
        /\ \E r \in Refunds :
             /\ refund[r].status = "none"
             /\ refund' = [refund EXCEPT ![r] = [status |-> "REQUESTED", amount |-> job[h].amount]]
     \/ /\ Fits(job[h].amount) => \A r \in Refunds : refund[r].status # "none"
        /\ UNCHANGED refund
  /\ Done(h)
  /\ UNCHANGED <<order, pay, confirmed>>

\* Reads the refund and the payment.
approveRefund(h) ==
  /\ Idle(h)
  /\ \E r \in Refunds :
       /\ refund[r].status = "REQUESTED"
       /\ job' = [job EXCEPT ![h] = [NoJob EXCEPT !.at = "approve", !.seen = pay,
                                                  !.amount = confirmed, !.refund = {r}]]
  /\ UNCHANGED <<order, pay, confirmed, refund>>

\* The status for what the refunds come to: those committed, and the one being approved.
StatusForBug(total, whole) == IF total > 0 THEN "REFUNDED" ELSE "PARTIALLY_REFUNDED"
StatusFor(total, whole)    == IF total >= whole THEN "REFUNDED" ELSE "PARTIALLY_REFUNDED"

Claimable(r) == refund[r].status = "REQUESTED"

approveFlips(h) ==
  /\ job[h].at = "approve"
  /\ \A r \in job[h].refund :
       /\ RefundFree(r)
       /\ \/ ~Claimable(r) /\ Done(h)
          \/ /\ Claimable(r)
             /\ job' = [job EXCEPT ![h].at = "commit",
                          ![h].to = StatusFor(Total({"SUCCEEDED"}) + refund[r].amount, job[h].amount)]
  /\ UNCHANGED <<order, pay, confirmed, refund>>

\* The payment's status is written by id, and only if it is not the one read.
approveCommits(h) ==
  /\ job[h].at = "commit"
  /\ \/ job[h].to = job[h].seen /\ UNCHANGED pay
     \/ job[h].to # job[h].seen /\ PaymentFree /\ pay' = job[h].to
  /\ refund' = [r \in Refunds |-> IF r \in job[h].refund THEN [refund[r] EXCEPT !.status = "SUCCEEDED"]
                                  ELSE refund[r]]
  /\ Done(h)
  /\ UNCHANGED <<order, confirmed>>

----------------------------------------------------------------------------
\* A transaction that has the order and wants the payment, one that has the payment and
\* wants the order: one of them is aborted.  cancelOrder swallows the error, and its
\* COMMIT of the aborted transaction rolls back: its caller is told that it cancelled.
victim(h) ==
  /\ \E g \in Handlers :
       /\ order = "PAYMENT_PENDING"
       /\ {job[h].at, job[g].at} = {"settle", "cancelPayment"}
  /\ Done(h)
  /\ UNCHANGED <<order, pay, confirmed, refund>>

Abort(h) ==
  /\ MayAbort /\ ~Idle(h)
  /\ Done(h)
  /\ UNCHANGED <<order, pay, confirmed, refund>>

Request(h) ==
  \/ awaitPayment(h) \/ submitProof(h) \/ verifyPayment(h) \/ confirmCash(h)
  \/ expirePayment(h) \/ cancelOrder(h) \/ decideOrder(h) \/ requestRefund(h)
  \/ approveRefund(h)

Continue(h) ==
  \/ flip(h) \/ settle(h) \/ cancelFlips(h) \/ cancelReadsPayment(h) \/ cancelPayment(h)
  \/ rejectWrites(h) \/ autoRefund(h) \/ insertRefund(h) \/ approveFlips(h)
  \/ approveCommits(h) \/ victim(h) \/ Abort(h)

Step(h) ==
  \/ autoAdvance(h) \/ partiallyAccept(h)
  \/ /\ Request(h) \/ Continue(h)
     /\ UNCHANGED <<posted, strays>>

Next ==
  /\ checkoutGate \/ orderMoves \/ \E h \in Handlers : Step(h)
  /\ UNCHANGED method

Spec == Init /\ [][Next]_vars

----------------------------------------------------------------------------
\* Properties.

\* A confirmation is on record.  An amount of 0 or less is never refunded, and a payment
\* from which nothing was refunded is not cancelled.
Received  == {"CONFIRMED", "PARTIALLY_REFUNDED", "REFUNDED"}
Confirmed == pay \in Received \/ confirmed # 0

(* Refunds asked for and paid never exceed the money received, however many      *)
(* requests for refunds race (requestRefund's sum under the payment row's lock). *)
RefundsWithinConfirmed == Total(Counted) > 0 => Total(Counted) <= confirmed

(* A payment is declared REFUNDED only when refunds of all of its money were     *)
(* paid, although approveRefund decides on a payment it read before its lock.    *)
RefundedMeansAll == pay = "REFUNDED" => Total({"SUCCEEDED"}) = confirmed

(* A merchant gets an order paid by transfer only once its payment is confirmed, *)
(* though possibly with an amount of 0 (P12 architecture lock, 9.3: acceptance   *)
(* requires PAYMENT_CONFIRMED), unless the order went round the gate: advanced   *)
(* before the checkout had put it there, or moved by the status endpoint.        *)
GateNeedsConfirmation ==
  /\ method = "BANK_TRANSFER" /\ "gate" \notin strays
  /\ order \notin {"SUBMITTED", "PAYMENT_PENDING", "CANCELLED"}
  => Confirmed

(* A payment is closed without money only together with its order: no order      *)
(* waits for, or goes on with, a payment that is CANCELLED or EXPIRED, unless it *)
(* went round the gate, or was written by id after it had changed, as a late     *)
(* partial acceptance does with a cancelled order.                               *)
ClosedWithOrder ==
  /\ strays = {}
  /\ pay = "CANCELLED" \/ (pay = "EXPIRED" /\ method = "BANK_TRANSFER")
  => order \in {"CANCELLED", "REJECTED"}

(* The amount received is recorded once: no second verification, expiry or proof *)
(* undoes or replaces a confirmation.                                            *)
ConfirmedOnce ==
  [][Confirmed => Confirmed' /\ confirmed' = confirmed /\ pay' \in Received \cup {"CANCELLED"}]_vars

(* Payments keep the abstract promise about money.                               *)
Promise == INSTANCE RefundPromise WITH
  received <- IF confirmed > 0 THEN confirmed ELSE 0,
  promised <- Total({"REQUESTED"}), repaid <- Total({"SUCCEEDED"})
PromiseKept == Promise!Spec

(* A cancelled order takes no money (P12 architecture lock, 25.5: a payment      *)
(* confirmation that comes after the cancellation is blocked).                   *)
CancelledTakesNoMoney == [][order = "CANCELLED" /\ confirmed = 0 => confirmed' = 0]_vars
=============================================================================
