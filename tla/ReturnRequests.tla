---------------------------- MODULE ReturnRequests ----------------------------
(***************************************************************************)
(* The returns of one delivered and paid sub-order (returns.service.ts),   *)
(* with the refund rows (payments.service.ts), the merchant's settlement   *)
(* rows and the commission ledger they lead to.                            *)
(*                                                                         *)
(* A request of a return reads the return, checks TRANSITIONS, and later   *)
(* flips the row WHERE the status is still the one it read.  An action is  *)
(* an unlocked read, a statement, or a transaction from its last lock to   *)
(* its commit; markRefunded's transaction holds the return's row while it  *)
(* reads what it will post.  A refund that a return asks for is a          *)
(* transaction of its own, before the one that links it to the return.     *)
(*                                                                         *)
(* The order is of one product: an amount of money is a number of units.   *)
(* A refund that a buyer asks for carries the key of the buyer's choice,   *)
(* which may be the one a return's own refund is looked up by.  It may     *)
(* then be of another payment: such a row takes 0 from this order, and     *)
(* what it takes elsewhere is left out.                                    *)
(* Approving a refund is one action here: its races are those of Payments. *)
(***************************************************************************)
EXTENDS Naturals, FiniteSets

CONSTANTS
  Handlers,     \* requests in flight at a time
  Requests,     \* rows of return_requests
  Refunds,      \* rows of refunds
  Settlements,  \* rows of settlement_records
  Ordered,      \* units ordered, delivered and paid
  NetGoods,     \* what they cost after the discount, the basis of the commission
  Commission,   \* commission_minor of the financial breakdown
  MayAbort,     \* a request may throw or lose its process between two steps
  BuyerKeys,    \* returns whose refund key a buyer may use for a refund of another kind
  NoReturn      \* key of a refund that is no return's

ASSUME ReturnAssumption ==
  /\ Ordered \in Nat \ {0}
  /\ NetGoods \in 1 .. Ordered
  /\ Commission \in Nat
  /\ MayAbort \in BOOLEAN
  /\ NoReturn \notin Requests
  /\ BuyerKeys \subseteq Requests
  /\ IsFiniteSet(Refunds) /\ IsFiniteSet(Requests) /\ IsFiniteSet(Settlements)

VARIABLES
  ret,         \* return_requests, with the reversal posted for it in commission_reversals
  restored,    \* per return: how many inspections put its units back to stock
  refund,      \* refunds, with the idempotency key
  settlement,  \* settlement_records
  job          \* per handler: the request in flight

vars == <<ret, restored, refund, settlement, job>>

\* No status leads to EXPIRED, so the endpoint that expires a return always conflicts.
TRANSITIONS ==
  [ REQUESTED                 |-> {"MERCHANT_APPROVED", "MERCHANT_REJECTED", "CANCELLED", "ESCALATED"},
    MERCHANT_APPROVED         |-> {"BUYER_SHIPPED", "CANCELLED"},
    BUYER_SHIPPED             |-> {"RECEIVED"},
    RECEIVED                  |-> {"INSPECTED"},
    INSPECTED                 |-> {"REFUND_PENDING", "REJECTED_AFTER_INSPECTION"},
    REFUND_PENDING            |-> {"REFUNDED", "REFUND_FAILED"},
    REFUND_FAILED             |-> {"REFUND_PENDING"},
    REFUNDED                  |-> {},
    MERCHANT_REJECTED         |-> {},
    CANCELLED                 |-> {},
    EXPIRED                   |-> {},
    REJECTED_AFTER_INSPECTION |-> {},
    ESCALATED                 |-> {"MERCHANT_APPROVED", "MERCHANT_REJECTED", "CANCELLED"} ]

Statuses        == DOMAIN TRANSITIONS
TERMINAL_STATES == {"REFUNDED", "MERCHANT_REJECTED", "CANCELLED", "EXPIRED", "REJECTED_AFTER_INSPECTION"}
Consuming       == {"REQUESTED", "MERCHANT_APPROVED", "BUYER_SHIPPED", "RECEIVED", "INSPECTED",
                    "REFUND_PENDING", "REFUNDED", "ESCALATED"}
AfterInspection == {"INSPECTED", "REJECTED_AFTER_INSPECTION", "REFUND_PENDING", "REFUND_FAILED", "REFUNDED"}

\* MERCHANT stands for the three categories that reverse the commission.
Categories == {"none", "MERCHANT", "BUYER_REMORSE"}

At == {"idle", "money", "active", "insert", "flip", "lookup", "ask", "link",
       "mark", "post", "settle"}

TypeOK ==
  /\ ret \in [Requests -> [status : Statuses \cup {"none"}, quantity : Nat, category : Categories,
                           refund : SUBSET Refunds, reversal : Nat]]
  /\ restored \in [Requests -> Nat]
  /\ refund \in [Refunds -> [status : {"none", "REQUESTED", "SUCCEEDED"}, amount : Nat,
                             key : Requests \cup {NoReturn}]]
  /\ settlement \in [Settlements -> [status : {"none", "CALCULATED", "PAID", "ADJUSTMENT"},
                                     refund : Nat, reversal : Nat]]
  /\ job \in [Handlers -> [at : At, ret : Requests \cup {NoReturn}, seen : Statuses \cup {"none"},
                           to : Statuses \cup {"none"}, category : Categories, amount : Nat,
                           refund : SUBSET Refunds, reversal : Nat, row : SUBSET Settlements,
                           open : BOOLEAN]]

NoReturnRow == [status |-> "none", quantity |-> 0, category |-> "none", refund |-> {}, reversal |-> 0]
NoJob == [at |-> "idle", ret |-> NoReturn, seen |-> "none", to |-> "none", category |-> "none",
          amount |-> 0, refund |-> {}, reversal |-> 0, row |-> {}, open |-> FALSE]
Idle(h) == job[h].at = "idle"
Done(h) == job' = [job EXCEPT ![h] = NoJob]
Goes(h, label) == job' = [job EXCEPT ![h].at = label]

Active(r) == ret[r].status \notin TERMINAL_STATES \cup {"none"}

\* Sums of amounts, counted in units.
UnitsRefunded(statuses) ==
  {u \in Refunds \X (1 .. Ordered) : refund[u[1]].status \in statuses /\ u[2] <= refund[u[1]].amount}
Total(statuses) == Cardinality(UnitsRefunded(statuses))
Quantity(statuses) ==
  Cardinality({u \in Requests \X (1 .. Ordered) :
                 ret[u[1]].status \in statuses /\ u[2] <= ret[u[1]].quantity})
Reversed ==
  Cardinality({u \in Requests \X (1 .. Ordered * Commission) : u[2] <= ret[u[1]].reversal})

\* The row of a return is locked while a transaction marks it refunded.
ReturnFree(r) == \A h \in Handlers : job[h].at = "post" => job[h].ret # r

Init ==
  /\ ret = [r \in Requests |-> NoReturnRow]
  /\ restored = [r \in Requests |-> 0]
  /\ refund = [f \in Refunds |-> [status |-> "none", amount |-> 0, key |-> NoReturn]]
  /\ settlement = [s \in Settlements |-> [status |-> "none", refund |-> 0, reversal |-> 0]]
  /\ job = [h \in Handlers |-> NoJob]

----------------------------------------------------------------------------
\* A buyer asks for a return: three reads, then the insert.

createReturnRequest(h) ==
  /\ Idle(h)
  /\ Total({"SUCCEEDED"}) < Ordered        \* the payment is CONFIRMED or PARTIALLY_REFUNDED
  /\ \E quantity \in 1 .. Ordered :
       /\ Quantity(Consuming) + quantity <= Ordered
       /\ job' = [job EXCEPT ![h] = [NoJob EXCEPT !.at = "money", !.amount = quantity]]
  /\ UNCHANGED <<ret, restored, refund, settlement>>

readRefunded(h) ==
  /\ job[h].at = "money"
  /\ IF job[h].amount <= Ordered - Total({"SUCCEEDED", "REQUESTED"}) THEN Goes(h, "active") ELSE Done(h)
  /\ UNCHANGED <<ret, restored, refund, settlement>>

readActive(h) ==
  /\ job[h].at = "active"
  /\ IF \E r \in Requests : Active(r) THEN Done(h) ELSE Goes(h, "insert")
  /\ UNCHANGED <<ret, restored, refund, settlement>>

\* The partial unique index of migration 0059: one active return per sub-order.
OneActiveIndexBug == TRUE
OneActiveIndex    == \A r \in Requests : ~Active(r)

NewReturnBug(quantity) == [status |-> "PENDING", quantity |-> quantity, category |-> "none",
                           refund |-> {}, reversal |-> 0]
NewReturn(quantity) == [status |-> "REQUESTED", quantity |-> quantity, category |-> "none",
                        refund |-> {}, reversal |-> 0]

insertReturn(h) ==
  /\ job[h].at = "insert"
  /\ \A r \in Requests : ReturnFree(r)
  /\ \/ /\ OneActiveIndex
        /\ \E r \in Requests :
             /\ ret[r].status = "none"
             /\ ret' = [ret EXCEPT ![r] = NewReturn(job[h].amount)]
     \/ /\ OneActiveIndex => \A r \in Requests : ret[r].status # "none"
        /\ UNCHANGED ret
  /\ Done(h)
  /\ UNCHANGED <<restored, refund, settlement>>

----------------------------------------------------------------------------
\* The steps of a return: read and check, then flip.

Begin(h, r, label, to, category) ==
  job' = [job EXCEPT ![h] = [NoJob EXCEPT !.at = label, !.ret = r, !.seen = ret[r].status,
                                          !.to = to, !.category = category]]

\* approve, reject, cancel, ship, receive, inspect, reject after inspection, fail; and escalate.
transitionReturn(h, r) ==
  /\ Idle(h) /\ ret[r].status # "none"
  /\ \E to \in TRANSITIONS[ret[r].status] \ {"REFUND_PENDING", "REFUNDED"} :
       Begin(h, r, "flip", to, "none")
  /\ UNCHANGED <<ret, restored, refund, settlement>>

\* The only place where a return gets a responsibility category.
resolveEscalation(h, r) ==
  /\ Idle(h) /\ ret[r].status = "ESCALATED"
  /\ \E to \in {"MERCHANT_APPROVED", "MERCHANT_REJECTED", "CANCELLED"}, category \in Categories :
       Begin(h, r, "flip", to, category)
  /\ UNCHANGED <<ret, restored, refund, settlement>>

\* UPDATE ... WHERE id = ... AND status = what was read.
FlipMatchesBug(h) == TRUE
FlipMatches(h)    == ret[job[h].ret].status = job[h].seen

\* restoreInventory is in the transaction of the inspection's flip.
flip(h) ==
  LET r == job[h].ret IN
  /\ job[h].at = "flip" /\ ReturnFree(r)
  /\ \/ /\ FlipMatches(h)
        /\ ret' = [ret EXCEPT ![r].status = job[h].to,
                              ![r].category = IF job[h].category = "none" THEN @ ELSE job[h].category]
        /\ restored' = IF job[h].to = "INSPECTED" THEN [restored EXCEPT ![r] = @ + 1] ELSE restored
     \/ ~FlipMatches(h) /\ UNCHANGED <<ret, restored>>
  /\ Done(h)
  /\ UNCHANGED <<refund, settlement>>

----------------------------------------------------------------------------
\* The refund of a return, and refunds that buyers and administrators ask for directly.

createRefundRequest(h, r) ==
  /\ Idle(h) /\ ret[r].status # "none"
  /\ "REFUND_PENDING" \in TRANSITIONS[ret[r].status]
  /\ Begin(h, r, "lookup", "REFUND_PENDING", "none")
  /\ UNCHANGED <<ret, restored, refund, settlement>>

\* The row of key return-refund:<id>: an attempt before this one left it, or a buyer.
\* Nothing else about it is looked at.
KeyedBug(r) == {f \in Refunds : refund[f].status = "SUCCEEDED" /\ refund[f].key = r}
Keyed(r)    == {f \in Refunds : refund[f].status # "none" /\ refund[f].key = r}

findRefund(h) ==
  /\ job[h].at = "lookup"
  /\ \/ \E f \in Keyed(job[h].ret) :
          job' = [job EXCEPT ![h].at = "link", ![h].refund = {f}]
     \/ Keyed(job[h].ret) = {} /\ Goes(h, "ask")
  /\ UNCHANGED <<ret, restored, refund, settlement>>

FitsBug(amount) == amount <= Ordered
Fits(amount)    == amount + Total({"SUCCEEDED", "REQUESTED"}) <= Ordered

insertRefund(f, amount, key) ==
  /\ refund[f].status = "none"
  /\ refund' = [refund EXCEPT ![f] = [status |-> "REQUESTED", amount |-> amount, key |-> key]]

\* A second row of the same key violates the unique index.
askRefund(h) ==
  LET amount == ret[job[h].ret].quantity
      admitted == Fits(amount) /\ Keyed(job[h].ret) = {} IN
  /\ job[h].at = "ask"
  /\ \/ /\ admitted
        /\ \E f \in Refunds : /\ insertRefund(f, amount, job[h].ret)
                              /\ job' = [job EXCEPT ![h].at = "link", ![h].refund = {f}]
     \/ /\ admitted => \A f \in Refunds : refund[f].status # "none"
        /\ Done(h) /\ UNCHANGED refund
  /\ UNCHANGED <<ret, restored, settlement>>

LinksBug(h) == ret[job[h].ret].status # "REJECTED_AFTER_INSPECTION"
Links(h)    == FlipMatches(h)

linkRefund(h) ==
  LET r == job[h].ret IN
  /\ job[h].at = "link" /\ ReturnFree(r)
  /\ \/ Links(h) /\ ret' = [ret EXCEPT ![r].status = "REFUND_PENDING", ![r].refund = job[h].refund]
     \/ ~Links(h) /\ UNCHANGED ret
  /\ Done(h)
  /\ UNCHANGED <<restored, refund, settlement>>

\* The key comes from the buyer; a return's is known once there is the return.
requestRefund ==
  /\ \/ \E f \in Refunds, amount \in 1 .. Ordered :
          Fits(amount) /\ insertRefund(f, amount, NoReturn)
     \/ \E f \in Refunds, amount \in 0 .. Ordered, r \in BuyerKeys :
          /\ ret[r].status # "none" /\ Keyed(r) = {}
          /\ Fits(amount) /\ insertRefund(f, amount, r)
  /\ UNCHANGED <<ret, restored, settlement, job>>

approveRefund(f) ==
  /\ refund[f].status = "REQUESTED"
  /\ refund' = [refund EXCEPT ![f].status = "SUCCEEDED"]
  /\ UNCHANGED <<ret, restored, settlement, job>>

----------------------------------------------------------------------------
\* Settlements.

\* The sum of refunds is read before the transaction that inserts the row.
calculateSettlement(h) ==
  /\ Idle(h)
  /\ \E s \in Settlements : settlement[s].status = "none"     \* the bound of the instance
  /\ job' = [job EXCEPT ![h] = [NoJob EXCEPT !.at = "settle", !.amount = Total({"SUCCEEDED"})]]
  /\ UNCHANGED <<ret, restored, refund, settlement>>

insertRow(s, status, amount, reversal) ==
  /\ settlement[s].status = "none"
  /\ settlement' = [settlement EXCEPT ![s] = [status |-> status, refund |-> amount, reversal |-> reversal]]

\* A partial unique index admits one row that is not PAID and not an ADJUSTMENT.
insertSettlement(h) ==
  LET admitted == \A s \in Settlements : settlement[s].status # "CALCULATED" IN
  /\ job[h].at = "settle"
  /\ \/ admitted /\ \E s \in Settlements : insertRow(s, "CALCULATED", job[h].amount, 0)
     \/ /\ admitted => \A s \in Settlements : settlement[s].status # "none"
        /\ UNCHANGED settlement
  /\ Done(h)
  /\ UNCHANGED <<ret, restored, refund>>

markSettlementPaid(s) ==
  /\ settlement[s].status = "CALCULATED"
  /\ settlement' = [settlement EXCEPT ![s].status = "PAID"]
  /\ UNCHANGED <<ret, restored, refund, job>>

----------------------------------------------------------------------------
\* The return is paid: adjustSettlement and processCommissionReversal, in one transaction.

PaidBug(f) == refund[f].status # "none"
Paid(f)    == refund[f].status = "SUCCEEDED"

markRefunded(h, r) ==
  /\ Idle(h) /\ ret[r].status = "REFUND_PENDING"
  /\ \E f \in ret[r].refund :
       /\ Paid(f)
       /\ job' = [job EXCEPT ![h] = [NoJob EXCEPT !.at = "mark", !.ret = r, !.seen = ret[r].status,
                                                  !.to = "REFUNDED", !.amount = refund[f].amount]]
  /\ UNCHANGED <<ret, restored, refund, settlement>>

\* What earlier reversals left of the commission.
LeftBug == Commission
Left    == Commission - Reversed

\* In proportion to the goods, at most what is left of the commission.
Reversal(quantity, left) ==
  LET proportional == (Commission * quantity) \div NetGoods IN
  IF proportional <= left THEN proportional ELSE left

\* After its flip the transaction reads the reversals, and the settlement row that findFirst
\* happens to return: one that is CALCULATED is rewritten, one that is PAID gets an ADJUSTMENT.
markFlips(h) ==
  LET r    == job[h].ret
      due  == IF ret[r].category = "MERCHANT" /\ Left > 0 THEN Reversal(ret[r].quantity, Left) ELSE 0
      rows == {s \in Settlements : settlement[s].status # "none"} IN
  /\ job[h].at = "mark" /\ ReturnFree(r)
  /\ \/ ~FlipMatches(h) /\ Done(h)
     \/ /\ FlipMatches(h) /\ rows = {}
        /\ job' = [job EXCEPT ![h].at = "post", ![h].reversal = due]
     \/ /\ FlipMatches(h)
        /\ \E s \in rows :
             job' = [job EXCEPT ![h].at = "post", ![h].reversal = due,
                       ![h].row  = IF settlement[s].status = "ADJUSTMENT" THEN {} ELSE {s},
                       ![h].open = settlement[s].status = "CALCULATED"]
  /\ UNCHANGED <<ret, restored, refund, settlement>>

\* The row is written by id, although it may have been paid since it was read.
adjustSettlementBug(h) ==
  \/ job[h].row = {} /\ UNCHANGED settlement
  \/ /\ job[h].open
     /\ \E s \in job[h].row :
          settlement' = [settlement EXCEPT ![s].refund = @ + job[h].amount, ![s].reversal = @ + job[h].reversal]
  \/ /\ job[h].row # {} /\ ~job[h].open
     /\ \E s \in Settlements : insertRow(s, "ADJUSTMENT", job[h].amount, Commission)

adjustSettlement(h) ==
  \/ job[h].row = {} /\ UNCHANGED settlement
  \/ /\ job[h].open
     /\ \E s \in job[h].row :
          settlement' = [settlement EXCEPT ![s].refund = @ + job[h].amount, ![s].reversal = @ + job[h].reversal]
  \/ /\ job[h].row # {} /\ ~job[h].open
     /\ \E s \in Settlements : insertRow(s, "ADJUSTMENT", job[h].amount, job[h].reversal)

post(h) ==
  LET r == job[h].ret IN
  /\ job[h].at = "post"
  /\ ret' = [ret EXCEPT ![r].status = "REFUNDED", ![r].reversal = @ + job[h].reversal]
  /\ adjustSettlement(h)
  /\ Done(h)
  /\ UNCHANGED <<restored, refund>>

----------------------------------------------------------------------------
Abort(h) ==
  /\ MayAbort /\ ~Idle(h)
  /\ Done(h)
  /\ UNCHANGED <<ret, restored, refund, settlement>>

Request(h) ==
  \/ createReturnRequest(h) \/ calculateSettlement(h)
  \/ \E r \in Requests : \/ transitionReturn(h, r) \/ resolveEscalation(h, r)
                         \/ createRefundRequest(h, r) \/ markRefunded(h, r)

Continue(h) ==
  \/ readRefunded(h) \/ readActive(h) \/ insertReturn(h) \/ flip(h)
  \/ findRefund(h) \/ askRefund(h) \/ linkRefund(h) \/ insertSettlement(h)
  \/ markFlips(h) \/ post(h) \/ Abort(h)

Next ==
  \/ \E h \in Handlers : Request(h) \/ Continue(h)
  \/ requestRefund
  \/ \E f \in Refunds : approveRefund(f)
  \/ \E s \in Settlements : markSettlementPaid(s)

Spec == Init /\ [][Next]_vars

----------------------------------------------------------------------------
\* Properties.

(* A sub-order has one return under way, although createReturnRequest looks for  *)
(* one on another connection, long before it inserts.                            *)
OneActive == \A r, q \in Requests : Active(r) /\ Active(q) => r = q

(* A return has one refund, paid before it is REFUNDED, and no retry after a     *)
(* crash or a lost race makes a second one: the refund is a transaction before   *)
(* the one that links it (createRefundRequest, markRefunded).  It is of what the *)
(* return asked for, unless a buyer may have used the return's key.              *)
RefundedOnce ==
  \A r \in Requests :
    /\ \A f, g \in Keyed(r) : f = g
    /\ ret[r].status = "REFUNDED" =>
         \E f \in Keyed(r) : /\ ret[r].refund = {f}
                             /\ refund[f].status = "SUCCEEDED"
                             /\ r \notin BuyerKeys => refund[f].amount = ret[r].quantity

(* However many inspections race, a return goes back to stock at most once, and  *)
(* not before it is inspected (P13 lock, BD-P13-CONC-013: two inspections at     *)
(* once; BD-P13-INVTRIG-001).  A return rejected after its inspection has been   *)
(* put back too, which the lock's BD-P13-INVTRIG-003 and AC-P13-017 exclude.     *)
RestoredOnce ==
  \A r \in Requests :
    restored[r] <= 1 /\ (restored[r] > 0 => ret[r].status \in AfterInspection)

(* The units of refunded returns, at what was paid for those whose key a buyer   *)
(* may have used, and the refunds paid without a return are never more than the  *)
(* order had, although a return's quantity is summed long before the return is   *)
(* inserted, and its refund is asked for long after.                             *)
RefundedDirectly ==
  {u \in UnitsRefunded({"SUCCEEDED"}) : refund[u[1]].key \notin Requests \ BuyerKeys}
RefundedByReturn ==
  {u \in (Requests \ BuyerKeys) \X (1 .. Ordered) :
     ret[u[1]].status = "REFUNDED" /\ u[2] <= ret[u[1]].quantity}
RefundedWithinOrder == Cardinality(RefundedByReturn) + Cardinality(RefundedDirectly) <= Ordered

(* The merchant is credited at most the commission of the order, only for        *)
(* refunded returns, although the reversals are summed on another connection.    *)
ReversalsCapped ==
  /\ Reversed <= Commission
  /\ \A r \in Requests : ret[r].reversal > 0 => ret[r].status = "REFUNDED" /\ ret[r].category = "MERCHANT"

(* However requests race, a return goes along the edges of TRANSITIONS, also by  *)
(* escalation, resolution and refund, which do not all look them up.             *)
StepsTakeEdges ==
  [][\A r \in Requests :
       ret'[r].status # ret[r].status =>
         IF ret[r].status = "none" THEN ret'[r].status = "REQUESTED"
         ELSE ret'[r].status \in TRANSITIONS[ret[r].status]]_vars

(* No commission is credited on the settlements that the ledger did not reverse, *)
(* although markRefunded works both out from reads of its own, and may race with *)
(* itself, and with the payment of the row it rewrites.                          *)
Credited ==
  Cardinality({u \in Settlements \X (1 .. Ordered * Commission) : u[2] <= settlement[u[1]].reversal})
CreditedWithinLedger == Credited <= Reversed
=============================================================================
