---------------------------- MODULE PaymentsProofs ----------------------------
(***************************************************************************)
(* Theorems about Payments, for any number of requests in flight, of       *)
(* refunds and of minor units, and the proof that payments implement       *)
(* RefundPromise.                                                          *)
(***************************************************************************)
EXTENDS Payments, UnitSums

----------------------------------------------------------------------------
\* Sums of refunds, as sets of minor units.

\* MinorUnits for a value of refund that need not be the current one.
UnitsOf(rows, statuses) ==
  {u \in Refunds \X (1 .. MaxRefund) :
     rows[u[1]].status \in statuses /\ u[2] <= rows[u[1]].amount}

Rows == [Refunds -> [status : RefundStatus, amount : 0 .. MaxRefund]]

\* A sum is a natural number.
LEMMA UnitsFinite ==
  ASSUME NEW rows, NEW statuses
  PROVE  /\ IsFiniteSet(UnitsOf(rows, statuses))
         /\ Cardinality(UnitsOf(rows, statuses)) \in Nat
<1>1. IsFiniteSet(1 .. MaxRefund)
  BY PaymentAssumption, FS_Interval
<1>2. IsFiniteSet(Refunds \X (1 .. MaxRefund))
  BY <1>1, PaymentAssumption, FS_Product
<1>3. UnitsOf(rows, statuses) \subseteq Refunds \X (1 .. MaxRefund)
  BY DEF UnitsOf
<1>4. IsFiniteSet(UnitsOf(rows, statuses))
  BY <1>2, <1>3, FS_Subset
<1> QED
  BY <1>4, FS_CardinalityType

\* A row that comes to count adds its amount to a sum.
LEMMA RowAdds ==
  ASSUME NEW rows \in Rows, NEW r \in Refunds, NEW statuses,
         NEW rows2 \in Rows,
         \A q \in Refunds \ {r} : rows2[q] = rows[q],
         rows[r].status \notin statuses, rows2[r].status \in statuses
  PROVE  Cardinality(UnitsOf(rows2, statuses))
           = Cardinality(UnitsOf(rows, statuses)) + rows2[r].amount
<1>1. PICK n \in Nat : n = rows2[r].amount /\ n <= MaxRefund
  BY PaymentAssumption DEF Rows
<1>2. PICK new : new = {r} \X (1 .. n)
  OBVIOUS
<1>3. IsFiniteSet(new) /\ Cardinality(new) = n
  BY <1>2, ColumnSize
<1>4. ASSUME NEW u \in UnitsOf(rows2, statuses) PROVE u \in UnitsOf(rows, statuses) \cup new
  <2>1. CASE u[1] = r
    BY <2>1, <1>1, <1>2 DEF UnitsOf
  <2>2. CASE u[1] # r
    BY <2>2 DEF UnitsOf
  <2> QED
    BY <2>1, <2>2
<1>5. ASSUME NEW u \in UnitsOf(rows, statuses) PROVE u \in UnitsOf(rows2, statuses)
  BY DEF UnitsOf
<1>6. ASSUME NEW u \in new PROVE u \in UnitsOf(rows2, statuses)
  BY <1>1, <1>2, PaymentAssumption DEF UnitsOf
<1>7. UnitsOf(rows2, statuses) = UnitsOf(rows, statuses) \cup new
  BY <1>4, <1>5, <1>6
<1>8. UnitsOf(rows, statuses) \cap new = {}
  BY <1>2 DEF UnitsOf
<1>9. Cardinality(UnitsOf(rows, statuses) \cup new) = Cardinality(UnitsOf(rows, statuses)) + n
  BY <1>3, <1>8, UnitsFinite, DisjointAdds
<1> QED
  BY <1>1, <1>7, <1>9

\* A change of a row that counts neither before nor after, or the same before and after,
\* leaves the sum alone.
LEMMA RowKeeps ==
  ASSUME NEW rows \in Rows, NEW r \in Refunds, NEW statuses, NEW rows2 \in Rows,
         \A q \in Refunds \ {r} : rows2[q] = rows[q],
         \/ rows[r].status \notin statuses /\ rows2[r].status \notin statuses
         \/ /\ rows[r].status \in statuses /\ rows2[r].status \in statuses
            /\ rows2[r].amount = rows[r].amount
  PROVE  UnitsOf(rows2, statuses) = UnitsOf(rows, statuses)
<1>1. ASSUME NEW u \in Refunds \X (1 .. MaxRefund)
      PROVE  u \in UnitsOf(rows2, statuses) <=> u \in UnitsOf(rows, statuses)
  <2>1. CASE u[1] = r
    BY <2>1 DEF UnitsOf
  <2>2. CASE u[1] # r
    BY <2>2 DEF UnitsOf
  <2> QED
    BY <2>1, <2>2
<1> QED
  BY <1>1 DEF UnitsOf

\* What counts is what is asked for and what is paid.
LEMMA CountedSplits ==
  ASSUME NEW rows \in Rows
  PROVE  Cardinality(UnitsOf(rows, Counted))
           = Cardinality(UnitsOf(rows, {"REQUESTED"})) + Cardinality(UnitsOf(rows, {"SUCCEEDED"}))
<1>1. UnitsOf(rows, Counted) = UnitsOf(rows, {"REQUESTED"}) \cup UnitsOf(rows, {"SUCCEEDED"})
  BY DEF UnitsOf, Counted
<1>2. UnitsOf(rows, {"REQUESTED"}) \cap UnitsOf(rows, {"SUCCEEDED"}) = {}
  BY DEF UnitsOf
<1> QED
  BY <1>1, <1>2, UnitsFinite, DisjointAdds

\* The sums of the module are these sums.
LEMMA TotalIs ==
  ASSUME NEW statuses
  PROVE  /\ Total(statuses) = Cardinality(UnitsOf(refund, statuses))
         /\ Total(statuses)' = Cardinality(UnitsOf(refund', statuses))
BY DEF Total, MinorUnits, UnitsOf

----------------------------------------------------------------------------
\* The inductive invariant.

Unpaid == {"CREATED", "AWAITING_PAYMENT", "AWAITING_VERIFICATION", "REJECTED"}
Repaying == {"PARTIALLY_REFUNDED", "REFUNDED"}

JobType == [at : At, seen : PayStatus, to : PayStatus, amount : Int,
            order : OrderStatuses, refund : SUBSET Refunds]

\* What a request that writes the payment has established.
WriterSound(j) ==
  /\ j.at \in {"flip", "settle"} =>
       /\ j.seen \in Unpaid
       /\ j.to \in Unpaid \cup {"EXPIRED", "CONFIRMED"}
       /\ j.to = "CONFIRMED" => j.amount \in Confirmable
  /\ j.at = "settle" => pay = j.seen /\ j.to \in {"EXPIRED", "CONFIRMED"}
  /\ j.at = "cancelPayment" => j.seen \notin Terminal

\* What a request for a refund has established.
ClaimSound(j) == j.at = "refund" => j.amount \in 1 .. MaxRefund

\* What an approval has established.
ApprovalSound(j) ==
  /\ j.at \in {"approve", "commit"} =>
       /\ confirmed > 0 /\ j.amount = confirmed
       /\ \E r \in Refunds : j.refund = {r} /\ refund[r].status # "none"
  /\ j.at = "commit" =>
       /\ j.to \in Repaying
       /\ \A r \in j.refund :
            /\ refund[r].status = "REQUESTED"
            /\ j.to = "REFUNDED" => Total({"SUCCEEDED"}) + refund[r].amount >= confirmed

Sound(j) == j \in JobType /\ WriterSound(j) /\ ClaimSound(j) /\ ApprovalSound(j)

\* Two transactions do not hold the same row.
Alone ==
  \A g, h \in Handlers : g # h =>
    /\ ~(job[g].at = "settle" /\ job[h].at = "settle")
    /\ job[g].at = "commit" /\ job[h].at = "commit" => job[g].refund \cap job[h].refund = {}

\* The payment's status tells whether money was received; it may have been confirmed
\* with an amount of 0 or less, of which nothing is refunded.
MoneyMatchesStatus ==
  /\ method \in Methods
  /\ order \in OrderStatuses /\ posted \in BOOLEAN
  /\ pay \in PayStatus
  /\ confirmed \in Int /\ confirmed <= MaxRefund
  /\ pay \in Unpaid \cup {"EXPIRED"} => confirmed = 0
  /\ pay \in Repaying => confirmed > 0

RowsSound ==
  /\ refund \in Rows
  /\ \A r \in Refunds : refund[r].status # "none" => confirmed > 0 /\ refund[r].amount > 0

Jobs == job \in [Handlers -> JobType] /\ \A h \in Handlers : Sound(job[h])

Inv ==
  /\ MoneyMatchesStatus /\ RowsSound /\ Jobs /\ Alone
  /\ RefundsWithinConfirmed /\ RefundedMeansAll

USE PaymentAssumption

\* Sums are numbers, and what counts is what is asked for and what is paid.
LEMMA Totals ==
  ASSUME refund \in Rows
  PROVE  /\ Total(Counted) \in Nat /\ Total({"REQUESTED"}) \in Nat /\ Total({"SUCCEEDED"}) \in Nat
         /\ Total(Counted) = Total({"REQUESTED"}) + Total({"SUCCEEDED"})
BY TotalIs, UnitsFinite, CountedSplits

\* An amount that may be entered is one.
LEMMA ConfirmableAmount ==
  ASSUME NEW amount \in Confirmable PROVE amount \in Int /\ amount <= MaxRefund
OBVIOUS

LEMMA InitInv == Init => Inv
<1> SUFFICES ASSUME Init PROVE Inv
  OBVIOUS
<1>1. MoneyMatchesStatus
  <2>1. method \in Methods /\ order \in OrderStatuses /\ posted \in BOOLEAN
    BY DEF Init, OrderStatuses
  <2>2. confirmed = 0 /\ confirmed \in Int /\ confirmed <= MaxRefund
    BY DEF Init
  <2>3. pay \in PayStatus /\ pay \notin Repaying
    BY DEF Init, PayStatus, Repaying
  <2> QED
    BY <2>1, <2>2, <2>3 DEF MoneyMatchesStatus
<1>2. RowsSound
  BY DEF Init, RowsSound, Rows, RefundStatus
<1>3. NoJob \in JobType /\ NoJob.at = "idle"
  BY DEF NoJob, JobType, At, PayStatus, OrderStatuses
<1>4. \A h \in Handlers : job[h] = NoJob
  BY DEF Init
<1>5. Jobs
  BY <1>3, <1>4 DEF Init, Jobs, Sound, WriterSound, ClaimSound, ApprovalSound
<1>6. Alone
  BY <1>3, <1>4 DEF Alone
<1>7. Total(Counted) = 0
  <2>1. UnitsOf(refund, Counted) = {}
    BY DEF Init, UnitsOf, Counted
  <2> QED
    BY <2>1, TotalIs, FS_EmptySet
<1>8. RefundsWithinConfirmed
  BY <1>7 DEF Init, RefundsWithinConfirmed
<1>9. RefundedMeansAll
  BY DEF Init, RefundedMeansAll
<1> QED
  BY <1>1, <1>2, <1>5, <1>6, <1>8, <1>9 DEF Inv

\* The requests in flight after a step of h, which leaves j in its place.
LEMMA JobsAfter ==
  ASSUME Jobs, NEW h \in Handlers, NEW j, job' = [job EXCEPT ![h] = j], Sound(j)',
         \A g \in Handlers \ {h} : \E i : i = job[g] /\ Sound(i)'
  PROVE  Jobs'
<1>1. j \in JobType
  BY DEF Sound
<1>2. job' \in [Handlers -> JobType]
  BY <1>1 DEF Jobs
<1>3. ASSUME NEW g \in Handlers PROVE Sound(job[g])'
  <2>1. PICK i : i = job'[g] /\ Sound(i)'
    BY DEF Jobs
  <2> QED
    BY <2>1 DEF Sound, WriterSound, ClaimSound, ApprovalSound
<1> QED
  BY <1>2, <1>3 DEF Jobs

\* A step of one request that writes neither a payment, nor an order, nor a refund.
LEMMA JobStep ==
  ASSUME Inv, NEW h \in Handlers, NEW j, Sound(j),
         job' = [job EXCEPT ![h] = j],
         UNCHANGED <<method, order, pay, confirmed, refund, posted>>,
         j.at = "settle" => PaymentFree,
         j.at = "commit" => \A r \in j.refund : RefundFree(r)
  PROVE  Inv'
<1>1. MoneyMatchesStatus' /\ RowsSound'
  BY DEF Inv, MoneyMatchesStatus, RowsSound
<1>2. \A statuses : Total(statuses)' = Total(statuses)
  BY TotalIs
<1>3. RefundsWithinConfirmed' /\ RefundedMeansAll'
  BY <1>2 DEF Inv, RefundsWithinConfirmed, RefundedMeansAll
<1>4. \A i : Sound(i) => Sound(i)'
  BY <1>2 DEF Sound, WriterSound, ClaimSound, ApprovalSound
<1>5. Jobs
  BY DEF Inv
<1>6. Jobs'
  <2>1. \A g \in Handlers : \E i : i = job[g] /\ Sound(i)'
    BY <1>4, <1>5 DEF Jobs
  <2> QED
    BY <2>1, <1>4, <1>5, JobsAfter
<1>7. Alone'
  BY <1>5 DEF Inv, Jobs, Alone, PaymentFree, RefundFree
<1> QED
  BY <1>1, <1>3, <1>6, <1>7 DEF Inv

\* An idle request that starts, with a payment that fits.
LEMMA BeginStep ==
  ASSUME Inv, NEW h \in Handlers, NEW label \in {"flip", "refund"}, NEW to \in PayStatus,
         NEW amount \in Int, Begin(h, label, to, amount),
         UNCHANGED <<method, order, pay, confirmed, refund, posted>>,
         label = "flip" => /\ pay \in Unpaid
                           /\ to \in Unpaid \cup {"EXPIRED", "CONFIRMED"}
                           /\ to = "CONFIRMED" => amount \in Confirmable,
         label = "refund" => amount \in 1 .. MaxRefund
  PROVE  Inv'
<1> DEFINE j == [NoJob EXCEPT !.at = label, !.seen = pay, !.to = to, !.amount = amount]
<1>1. job' = [job EXCEPT ![h] = j]
  BY DEF Begin
<1>2. Sound(j)
  <2>1. /\ j.at = label /\ j.seen = pay /\ j.to = to /\ j.amount = amount
        /\ j.order = "CANCELLED" /\ j.refund = {}
    BY DEF NoJob
  <2>2. pay \in PayStatus /\ label \in At /\ "CANCELLED" \in OrderStatuses
    BY DEF Inv, MoneyMatchesStatus, At, OrderStatuses
  <2>3. j \in JobType
    BY <2>2 DEF JobType, NoJob
  <2> HIDE DEF j
  <2>4. WriterSound(j) /\ ClaimSound(j) /\ ApprovalSound(j)
    BY <2>1 DEF WriterSound, ClaimSound, ApprovalSound
  <2> QED
    BY <2>3, <2>4 DEF Sound
<1>3. j.at = label
  BY DEF NoJob
<1> HIDE DEF j
<1> QED
  BY <1>1, <1>2, <1>3, JobStep

\* A request that ends without a write.
LEMMA DoneStep ==
  ASSUME Inv, NEW h \in Handlers, Done(h), UNCHANGED <<method, order, pay, confirmed, refund, posted>>
  PROVE  Inv'
<1>1. job' = [job EXCEPT ![h] = NoJob]
  BY DEF Done
<1>2. Sound(NoJob) /\ NoJob.at = "idle"
  BY DEF NoJob, JobType, At, PayStatus, OrderStatuses, Sound, WriterSound, ClaimSound,
       ApprovalSound
<1> QED
  BY <1>1, <1>2, JobStep

\* A request about the order that starts with its status.
LEMMA OrderRead ==
  ASSUME Inv, NEW h \in Handlers, NEW label \in {"cancel", "accept", "partial", "reject"},
         job' = [job EXCEPT ![h] = [NoJob EXCEPT !.at = label, !.order = order]],
         UNCHANGED <<method, order, pay, confirmed, refund, posted>>
  PROVE  Inv'
<1>1. PICK read \in OrderStatuses : read = order
  BY DEF Inv, MoneyMatchesStatus
<1>2. PICK j : j = [NoJob EXCEPT !.at = label, !.order = read]
  OBVIOUS
<1>3. j \in JobType /\ j.at = label
  <2>1. NoJob \in JobType
    BY DEF NoJob, JobType, At, PayStatus, OrderStatuses
  <2>2. label \in At
    BY DEF At
  <2> QED
    BY <1>2, <2>1, <2>2 DEF JobType
<1>4. Sound(j)
  BY <1>3 DEF Sound, WriterSound, ClaimSound, ApprovalSound
<1>5. job' = [job EXCEPT ![h] = j]
  BY <1>1, <1>2
<1> QED
  BY <1>3, <1>4, <1>5, JobStep

\* Requests that only read, start or end.
LEMMA ReadingStep ==
  ASSUME Inv, NEW h \in Handlers, Request(h) \/ victim(h) \/ Abort(h), UNCHANGED <<method, posted>>
  PROVE  Inv'
<1>1. pay \in PayStatus /\ order \in OrderStatuses /\ confirmed \in Int
  BY DEF Inv, MoneyMatchesStatus
<1>2. CASE awaitPayment(h)
  BY <1>2, BeginStep DEF awaitPayment, Unpaid, PayStatus
<1>3. CASE submitProof(h)
  BY <1>3, BeginStep DEF submitProof, Unpaid, PayStatus
<1>4. CASE verifyPayment(h)
  <2>1. CASE Begin(h, "flip", "REJECTED", 0)
    BY <2>1, <1>4, BeginStep DEF verifyPayment, Unpaid, PayStatus
  <2>2. ASSUME NEW amount \in Confirmable, Begin(h, "flip", "CONFIRMED", amount) PROVE Inv'
    BY <2>2, <1>4, ConfirmableAmount, BeginStep DEF verifyPayment, Unpaid, PayStatus
  <2> QED
    BY <2>1, <2>2, <1>4 DEF verifyPayment
<1>5. CASE confirmCash(h)
  <2>1. PICK amount \in Confirmable : Begin(h, "flip", "CONFIRMED", amount)
    BY <1>5 DEF confirmCash
  <2> QED
    BY <2>1, <1>5, ConfirmableAmount, BeginStep DEF confirmCash, Unpaid, PayStatus
<1>6. CASE expirePayment(h)
  BY <1>6, BeginStep DEF expirePayment, Unpaid, PayStatus
<1>7. CASE cancelOrder(h)
  BY <1>7, OrderRead DEF cancelOrder
<1>8. CASE decideOrder(h)
  <2>1. PICK decision \in {"accept", "partial", "reject"} :
          job' = [job EXCEPT ![h] = [NoJob EXCEPT !.at = decision, !.order = order]]
    BY <1>8 DEF decideOrder
  <2> QED
    BY <2>1, <1>8, OrderRead DEF decideOrder
<1>9. CASE requestRefund(h)
  <2>1. PICK amount \in 1 .. MaxRefund : Begin(h, "refund", pay, amount)
    BY <1>9 DEF requestRefund
  <2> QED
    BY <2>1, <1>1, <1>9, BeginStep DEF requestRefund
<1>10. CASE approveRefund(h)
  <2>1. PICK r \in Refunds :
          /\ refund[r].status = "REQUESTED"
          /\ job' = [job EXCEPT ![h] = [NoJob EXCEPT !.at = "approve", !.seen = pay,
                                                     !.amount = confirmed, !.refund = {r}]]
    BY <1>10 DEF approveRefund
  <2>2. confirmed > 0
    BY <2>1 DEF Inv, RowsSound
  <2>3. PICK asked \in SUBSET Refunds : asked = {r}
    OBVIOUS
  <2>4. PICK whole \in Int, read \in PayStatus : whole = confirmed /\ read = pay
    BY <1>1
  <2>5. PICK j : j = [NoJob EXCEPT !.at = "approve", !.seen = read, !.amount = whole,
                                   !.refund = asked]
    OBVIOUS
  <2>6. j \in JobType /\ j.at = "approve" /\ j.amount = whole /\ j.refund = asked
    BY <2>5 DEF NoJob, JobType, At, PayStatus, OrderStatuses
  <2>7. job' = [job EXCEPT ![h] = j]
    BY <2>1, <2>3, <2>4, <2>5
  <2>8. Sound(j)
    BY <2>1, <2>2, <2>3, <2>4, <2>6 DEF Sound, WriterSound, ClaimSound, ApprovalSound
  <2> QED
    BY <2>6, <2>7, <2>8, <1>10, JobStep DEF approveRefund
<1>11. CASE victim(h) \/ Abort(h)
  BY <1>11, DoneStep DEF victim, Abort
<1> QED
  BY <1>2, <1>3, <1>4, <1>5, <1>6, <1>7, <1>8, <1>9, <1>10, <1>11 DEF Request

\* Requests that go on from one step to the next without a visible write.
LEMMA GoOnStep ==
  ASSUME Inv, NEW h \in Handlers, NEW label \in At \ {"commit"},
         job' = [job EXCEPT ![h].at = label],
         UNCHANGED <<method, order, pay, confirmed, refund, posted>>,
         Sound([job[h] EXCEPT !.at = label]), label = "settle" => PaymentFree
  PROVE  Inv'
<1>1. job[h] \in JobType
  BY DEF Inv, Jobs
<1> DEFINE j == [job[h] EXCEPT !.at = label]
<1>2. j.at = label /\ job' = [job EXCEPT ![h] = j]
  BY <1>1 DEF JobType
<1> HIDE DEF j
<1> QED
  BY <1>2, JobStep DEF j

\* A request that finds the payment or the order as it read it, and goes on.
LEMMA FlipBegins ==
  ASSUME Inv, NEW h \in Handlers, job[h].at = "flip", PaymentFree, FlipMatches(h),
         OrderFollows(h), job' = [job EXCEPT ![h].at = "settle"],
         UNCHANGED <<method, order, pay, confirmed, refund, posted>>
  PROVE  Inv'
<1>1. job[h] \in JobType /\ Sound(job[h])
  BY DEF Inv, Jobs
<1>2. Sound([job[h] EXCEPT !.at = "settle"])
  BY <1>1 DEF Sound, JobType, At, WriterSound, ClaimSound, ApprovalSound, FlipMatches,
       OrderFollows
<1> QED
  BY <1>2, GoOnStep DEF At

LEMMA cancelFlipsStep ==
  ASSUME Inv, NEW h \in Handlers, cancelFlips(h), UNCHANGED <<method, posted>> PROVE Inv'
<1>1. job[h] \in JobType /\ Sound(job[h])
  BY DEF Inv, Jobs
<1>2. CASE job' = [job EXCEPT ![h].at = "readPayment"]
  <2>1. PICK j : j = [job[h] EXCEPT !.at = "readPayment"]
    OBVIOUS
  <2>2. j \in JobType /\ j.at = "readPayment"
    BY <1>1, <2>1 DEF JobType, At
  <2>3. Sound(j)
    BY <2>2 DEF Sound, WriterSound, ClaimSound, ApprovalSound
  <2>4. job' = [job EXCEPT ![h] = j]
    BY <1>2, <2>1
  <2> QED
    BY <2>2, <2>3, <2>4, JobStep DEF cancelFlips
<1> QED
  BY <1>2, DoneStep DEF cancelFlips

LEMMA autoRefundStep ==
  ASSUME Inv, NEW h \in Handlers, autoRefund(h), UNCHANGED <<method, posted>> PROVE Inv'
<1>1. pay \in PayStatus /\ confirmed \in Int /\ confirmed <= MaxRefund
  BY DEF Inv, MoneyMatchesStatus
<1>2. CASE confirmed > 0 /\ Begin(h, "refund", pay, confirmed)
  BY <1>1, <1>2, BeginStep DEF autoRefund
<1>3. CASE Done(h)
  BY <1>3, DoneStep DEF autoRefund
<1> QED
  BY <1>2, <1>3 DEF autoRefund

\* An approval claims its refund, and knows what the refunds come to at least.
LEMMA approveFlipsStep ==
  ASSUME Inv, NEW h \in Handlers, approveFlips(h), UNCHANGED <<method, posted>> PROVE Inv'
<1>1. job[h] \in JobType /\ Sound(job[h])
  BY DEF Inv, Jobs
<1>2. PICK r \in Refunds : job[h].refund = {r}
  BY <1>1 DEF approveFlips, Sound, ApprovalSound
<1>3. CASE Done(h)
  BY <1>3, DoneStep DEF approveFlips
<1>4. CASE ~Done(h)
  <2>1. PICK to : to = StatusFor(Total({"SUCCEEDED"}) + refund[r].amount, job[h].amount)
    OBVIOUS
  <2>2. Claimable(r) /\ RefundFree(r)
        /\ job' = [job EXCEPT ![h].at = "commit", ![h].to = to]
    BY <1>2, <1>4, <2>1 DEF approveFlips
  <2>3. to \in Repaying
    BY <2>1 DEF StatusFor, Repaying
  <2>4. to = "REFUNDED" => Total({"SUCCEEDED"}) + refund[r].amount >= job[h].amount
    BY <2>1 DEF StatusFor
  <2>5. PICK j : j = [job[h] EXCEPT !.at = "commit", !.to = to]
    OBVIOUS
  <2>6. /\ j \in JobType /\ j.at = "commit" /\ j.to = to
        /\ j.refund = {r} /\ j.amount = job[h].amount
    BY <1>1, <1>2, <2>3, <2>5 DEF JobType, At, PayStatus, Repaying
  <2>7. Sound(j)
    BY <1>1, <1>2, <2>2, <2>3, <2>4, <2>6
    DEF Sound, WriterSound, ClaimSound, ApprovalSound, approveFlips, Claimable
  <2>8. job' = [job EXCEPT ![h] = j]
    BY <2>2, <2>5
  <2> QED
    BY <2>2, <2>6, <2>7, <2>8, JobStep DEF approveFlips
<1> QED
  BY <1>3, <1>4

----------------------------------------------------------------------------
\* Steps that write the payment or the order.

\* They leave the sums and the rows alone.
LEMMA SumsStay ==
  ASSUME UNCHANGED refund PROVE \A statuses : Total(statuses)' = Total(statuses)
BY TotalIs

\* A payment that is written as its writer read it takes its status and amount.
PayWritten(h) ==
  /\ pay = job[h].seen
  /\ pay' = job[h].to
  /\ confirmed' = IF job[h].to = "CONFIRMED" THEN job[h].amount ELSE confirmed

LEMMA PayWriteStep ==
  ASSUME Inv, NEW h \in Handlers, job[h].at \in {"flip", "settle"}, PayWritten(h),
         \A g \in Handlers \ {h} : job[g].at # "settle",
         Done(h), UNCHANGED <<method, refund, posted>>, order' \in OrderStatuses
  PROVE  Inv' /\ confirmed = 0 /\ pay \in Unpaid
<1>1. Sound(job[h]) /\ Jobs
  BY DEF Inv, Jobs
<1>2. /\ pay \in Unpaid /\ confirmed = 0
      /\ pay' \in Unpaid \cup {"EXPIRED", "CONFIRMED"}
      /\ pay' = "CONFIRMED" => confirmed' = job[h].amount /\ confirmed' \in Confirmable
      /\ pay' # "CONFIRMED" => confirmed' = 0
  BY <1>1 DEF Inv, MoneyMatchesStatus, Sound, WriterSound, PayWritten
<1>3. MoneyMatchesStatus'
  <2>1. confirmed' \in Int /\ confirmed' <= MaxRefund
    <3>1. 0 \in Int /\ 0 <= MaxRefund
      OBVIOUS
    <3>2. CASE pay' = "CONFIRMED"
      BY <1>2, <3>2, ConfirmableAmount
    <3>3. CASE pay' # "CONFIRMED"
      BY <1>2, <3>1, <3>3
    <3> QED
      BY <3>2, <3>3
  <2> QED
    BY <1>2, <2>1 DEF Inv, MoneyMatchesStatus, Unpaid, Repaying, PayStatus
<1>4. RowsSound'
  BY <1>2 DEF Inv, RowsSound
<1>5. \A statuses : Total(statuses)' = Total(statuses)
  BY SumsStay
<1>6. NoJob \in JobType /\ NoJob.at = "idle"
  BY DEF NoJob, JobType, At, PayStatus, OrderStatuses
<1>7. Jobs'
  <2>1. ASSUME NEW g \in Handlers \ {h} PROVE \E i : i = job[g] /\ Sound(i)'
    <3>1. PICK i : i = job[g]
      OBVIOUS
    <3>2. Sound(i) /\ i.at # "settle" /\ i.at \notin {"approve", "commit"}
      BY <1>1, <1>2, <3>1 DEF Jobs, Sound, ApprovalSound
    <3>3. Sound(i)'
      BY <3>2, <1>2 DEF Sound, WriterSound, ClaimSound, ApprovalSound
    <3> QED
      BY <3>1, <3>3
  <2>2. Sound(NoJob)'
    BY <1>6 DEF Sound, WriterSound, ClaimSound, ApprovalSound
  <2>3. job' = [job EXCEPT ![h] = NoJob]
    BY DEF Done
  <2> QED
    BY <2>1, <2>2, <2>3, <1>1, JobsAfter
<1>8. Alone'
  BY <1>1, <1>6 DEF Inv, Jobs, Alone, Done
<1>9. RefundsWithinConfirmed'
  <2>1. Total(Counted) \in Nat
    BY Totals DEF Inv, RowsSound
  <2> QED
    BY <1>2, <1>5, <2>1 DEF Inv, RefundsWithinConfirmed
<1>10. RefundedMeansAll'
  BY <1>2 DEF RefundedMeansAll, Unpaid
<1> QED
  BY <1>2, <1>3, <1>4, <1>7, <1>8, <1>9, <1>10 DEF Inv

LEMMA flipStep ==
  ASSUME Inv, NEW h \in Handlers, flip(h), UNCHANGED <<method, posted>>
  PROVE  Inv' /\ (UNCHANGED <<pay, confirmed>> \/ (confirmed = 0 /\ pay \in Unpaid))
<1>1. job[h].at = "flip" /\ PaymentFree /\ UNCHANGED <<order, refund>>
  BY DEF flip
<1>2. CASE Done(h) /\ UNCHANGED <<pay, confirmed>>
  BY <1>1, <1>2, DoneStep
<1>3. CASE FlipMatches(h) /\ OrderFollows(h) /\ job' = [job EXCEPT ![h].at = "settle"]
           /\ UNCHANGED <<pay, confirmed>>
  BY <1>1, <1>3, FlipBegins
<1>4. CASE FlipMatches(h) /\ ~OrderFollows(h) /\ Done(h) /\ pay' = job[h].to
           /\ confirmed' = IF job[h].to = "CONFIRMED" THEN job[h].amount ELSE confirmed
  <2>1. PayWritten(h) /\ \A g \in Handlers \ {h} : job[g].at # "settle"
    BY <1>1, <1>4 DEF PayWritten, FlipMatches, PaymentFree
  <2>2. order' \in OrderStatuses
    BY <1>1 DEF Inv, MoneyMatchesStatus
  <2> QED
    BY <1>1, <1>4, <2>1, <2>2, PayWriteStep
<1> QED
  BY <1>2, <1>3, <1>4 DEF flip

LEMMA settleStep ==
  ASSUME Inv, NEW h \in Handlers, settle(h), UNCHANGED <<method, posted>>
  PROVE  Inv' /\ confirmed = 0 /\ pay \in Unpaid
<1>1. job[h].at = "settle" /\ Done(h) /\ UNCHANGED <<method, refund, posted>>
  BY DEF settle
<1>2. Sound(job[h])
  BY DEF Inv, Jobs
<1>3. PayWritten(h)
  BY <1>1, <1>2 DEF settle, PayWritten, Sound, WriterSound
<1>4. \A g \in Handlers \ {h} : job[g].at # "settle"
  BY <1>1 DEF Inv, Alone
<1>5. order' \in OrderStatuses
  BY DEF settle, Inv, MoneyMatchesStatus, OrderAfter, OrderStatuses
<1> QED
  BY <1>1, <1>3, <1>4, <1>5, PayWriteStep

\* A step that writes the order, or closes a payment that no transaction holds.
LEMMA WriteStep ==
  ASSUME Inv, NEW h \in Handlers, NEW j, Sound(j), j.at \notin {"settle", "commit"},
         job' = [job EXCEPT ![h] = j], UNCHANGED <<method, confirmed, refund, posted>>,
         pay' = pay \/ PaymentFree,
         MoneyMatchesStatus', RefundedMeansAll'
  PROVE  Inv'
<1>1. \A statuses : Total(statuses)' = Total(statuses)
  BY SumsStay
<1>2. RowsSound' /\ RefundsWithinConfirmed'
  BY <1>1 DEF Inv, RowsSound, RefundsWithinConfirmed
<1>3. \A i : Sound(i) /\ (i.at = "settle" => pay' = pay) => Sound(i)'
  BY <1>1 DEF Sound, WriterSound, ClaimSound, ApprovalSound
<1>4. Jobs
  BY DEF Inv
<1>5. Jobs'
  <2>1. \A g \in Handlers : job[g].at = "settle" => pay' = pay
    BY DEF PaymentFree
  <2>2. \A g \in Handlers : \E i : i = job[g] /\ Sound(i)'
    BY <1>3, <1>4, <2>1 DEF Jobs
  <2>3. Sound(j)'
    BY <1>3
  <2> QED
    BY <2>2, <2>3, <1>4, JobsAfter
<1>6. Alone'
  BY <1>4 DEF Inv, Jobs, Alone
<1> QED
  BY <1>2, <1>5, <1>6 DEF Inv

\* A step of no request, which writes the order: the checkout, or a merchant.
LEMMA OrderStep ==
  ASSUME Inv, order' \in OrderStatuses, posted' \in BOOLEAN,
         UNCHANGED <<method, pay, confirmed, refund, job>>
  PROVE  Inv'
<1>1. \A statuses : Total(statuses)' = Total(statuses)
  BY SumsStay
<1>2. MoneyMatchesStatus'
  BY DEF Inv, MoneyMatchesStatus
<1>3. RowsSound' /\ RefundsWithinConfirmed' /\ RefundedMeansAll'
  BY <1>1 DEF Inv, RowsSound, RefundsWithinConfirmed, RefundedMeansAll
<1>4. Alone'
  BY DEF Inv, Alone
<1>5. Jobs'
  <2>1. \A i : Sound(i) => Sound(i)'
    BY <1>1 DEF Sound, WriterSound, ClaimSound, ApprovalSound
  <2>2. ASSUME NEW g \in Handlers PROVE Sound(job[g])'
    <3>1. PICK i : i = job[g]
      OBVIOUS
    <3>2. Sound(i)'
      BY <2>1, <3>1 DEF Inv, Jobs
    <3> QED
      BY <3>1, <3>2 DEF Sound, WriterSound, ClaimSound, ApprovalSound
  <2> QED
    BY <2>2 DEF Inv, Jobs
<1> QED
  BY <1>2, <1>3, <1>4, <1>5 DEF Inv

LEMMA checkoutGateStep == ASSUME Inv, checkoutGate, UNCHANGED method PROVE Inv'
<1>1. order' \in OrderStatuses /\ posted' \in BOOLEAN
  BY DEF checkoutGate, FirstStatus, OrderStatuses
<1> QED
  BY <1>1, OrderStep DEF checkoutGate

LEMMA orderMovesStep == ASSUME Inv, orderMoves, UNCHANGED method PROVE Inv'
<1>1. order' \in OrderStatuses
  BY DEF orderMoves, Onward, OrderStatuses
<1>2. posted' \in BOOLEAN
  BY DEF orderMoves, Inv, MoneyMatchesStatus
<1> QED
  BY <1>1, <1>2, OrderStep DEF orderMoves

LEMMA NoJobSound == Sound(NoJob) /\ NoJob.at = "idle"
BY DEF NoJob, JobType, At, PayStatus, OrderStatuses, Sound, WriterSound, ClaimSound,
     ApprovalSound

LEMMA cancelReadsPaymentStep ==
  ASSUME Inv, NEW h \in Handlers, cancelReadsPayment(h), UNCHANGED <<method, posted>> PROVE Inv'
<1>1. job[h].at = "readPayment" /\ UNCHANGED <<method, pay, confirmed, refund, posted>>
  BY DEF cancelReadsPayment
<1>2. CASE order' = "CANCELLED" /\ Done(h)
  <2>1. MoneyMatchesStatus'
    BY <1>1, <1>2 DEF Inv, MoneyMatchesStatus, OrderStatuses
  <2>2. RefundedMeansAll'
    BY <1>1, SumsStay DEF Inv, RefundedMeansAll
  <2>3. job' = [job EXCEPT ![h] = NoJob]
    BY <1>2 DEF Done
  <2> QED
    BY <1>1, <2>1, <2>2, <2>3, NoJobSound, WriteStep
<1>3. CASE pay \notin Terminal /\ UNCHANGED order
           /\ job' = [job EXCEPT ![h].at = "cancelPayment", ![h].seen = pay]
  <2>1. job[h] \in JobType /\ pay \in PayStatus
    BY DEF Inv, Jobs, MoneyMatchesStatus
  <2>2. PICK read \in PayStatus : read = pay
    BY <2>1
  <2>3. PICK j : j = [job[h] EXCEPT !.at = "cancelPayment", !.seen = read]
    OBVIOUS
  <2>4. j \in JobType /\ j.at = "cancelPayment" /\ j.seen = read
    BY <2>1, <2>3 DEF JobType, At
  <2>5. Sound(j)
    BY <1>3, <2>2, <2>4 DEF Sound, WriterSound, ClaimSound, ApprovalSound
  <2>6. job' = [job EXCEPT ![h] = j]
    BY <1>3, <2>2, <2>3
  <2> QED
    BY <1>1, <1>3, <2>4, <2>5, <2>6, JobStep
<1> QED
  BY <1>2, <1>3 DEF cancelReadsPayment

LEMMA cancelPaymentStep ==
  ASSUME Inv, NEW h \in Handlers, cancelPayment(h), UNCHANGED <<method, posted>> PROVE Inv'
<1>1. /\ order' = "CANCELLED" /\ PaymentFree /\ Done(h)
      /\ UNCHANGED <<method, confirmed, refund, posted>>
      /\ pay' \in {pay, "CANCELLED"}
  BY DEF cancelPayment, FlipMatches
<1>2. MoneyMatchesStatus'
  BY <1>1 DEF Inv, MoneyMatchesStatus, OrderStatuses, PayStatus,
       Unpaid, Repaying
<1>3. RefundedMeansAll'
  BY <1>1, SumsStay DEF Inv, RefundedMeansAll
<1>4. job' = [job EXCEPT ![h] = NoJob]
  BY <1>1 DEF Done
<1> QED
  BY <1>1, <1>2, <1>3, <1>4, NoJobSound, WriteStep

\* A merchant's decision writes the order by id, and ends or goes on.
LEMMA DecisionStep ==
  ASSUME Inv, NEW h \in Handlers, NEW j, Sound(j), j.at \notin {"settle", "commit"},
         job' = [job EXCEPT ![h] = j], order' \in OrderStatuses,
         UNCHANGED <<method, pay, confirmed, refund, posted>>
  PROVE  Inv'
<1>1. MoneyMatchesStatus'
  BY DEF Inv, MoneyMatchesStatus
<1>2. RefundedMeansAll'
  BY SumsStay DEF Inv, RefundedMeansAll
<1> QED
  BY <1>1, <1>2, WriteStep

LEMMA autoAdvanceStep ==
  ASSUME Inv, NEW h \in Handlers, autoAdvance(h), UNCHANGED <<method, posted>> PROVE Inv'
<1>1. /\ job[h].at \in {"accept", "partial", "reject"} /\ order' = "PENDING_CONFIRMATION"
      /\ UNCHANGED <<method, pay, confirmed, refund, posted>>
      /\ \/ job' = [job EXCEPT ![h] = NoJob]
         \/ job' = [job EXCEPT ![h].order = "PENDING_CONFIRMATION"]
  BY DEF autoAdvance, Done
<1>2. order' \in OrderStatuses /\ job[h] \in JobType
  BY <1>1 DEF OrderStatuses, Inv, Jobs
<1>3. CASE job' = [job EXCEPT ![h] = NoJob]
  BY <1>1, <1>2, <1>3, NoJobSound, DecisionStep
<1>4. CASE job' = [job EXCEPT ![h].order = "PENDING_CONFIRMATION"]
  <2>1. PICK j : j = [job[h] EXCEPT !.order = "PENDING_CONFIRMATION"]
    OBVIOUS
  <2>2. j \in JobType /\ j.at = job[h].at /\ job' = [job EXCEPT ![h] = j]
    BY <1>2, <1>4, <2>1 DEF JobType, OrderStatuses
  <2>3. Sound(j)
    BY <1>1, <2>2 DEF Sound, WriterSound, ClaimSound, ApprovalSound
  <2> QED
    BY <1>1, <1>2, <2>2, <2>3, DecisionStep
<1> QED
  BY <1>1, <1>3, <1>4

LEMMA partiallyAcceptStep ==
  ASSUME Inv, NEW h \in Handlers, partiallyAccept(h), UNCHANGED <<method, posted>> PROVE Inv'
<1>1. /\ order' = "UNDERWAY" /\ job' = [job EXCEPT ![h] = NoJob]
      /\ UNCHANGED <<method, pay, confirmed, refund, posted>>
  BY DEF partiallyAccept, Done
<1>2. order' \in OrderStatuses
  BY <1>1 DEF OrderStatuses
<1> QED
  BY <1>1, <1>2, NoJobSound, DecisionStep

LEMMA rejectWritesStep ==
  ASSUME Inv, NEW h \in Handlers, rejectWrites(h), UNCHANGED <<method, posted>> PROVE Inv'
<1>1. /\ order' = "REJECTED" /\ job' = [job EXCEPT ![h].at = "autoRefund"]
      /\ UNCHANGED <<method, pay, confirmed, refund, posted>>
  BY DEF rejectWrites
<1>2. job[h] \in JobType /\ order' \in OrderStatuses
  BY <1>1 DEF Inv, Jobs, OrderStatuses
<1>3. PICK j : j = [job[h] EXCEPT !.at = "autoRefund"]
  OBVIOUS
<1>4. j \in JobType /\ j.at = "autoRefund" /\ job' = [job EXCEPT ![h] = j]
  BY <1>1, <1>2, <1>3 DEF JobType, At
<1>5. Sound(j)
  BY <1>4 DEF Sound, WriterSound, ClaimSound, ApprovalSound
<1> QED
  BY <1>1, <1>2, <1>4, <1>5, DecisionStep

----------------------------------------------------------------------------
\* Steps that write a refund.

\* The sums that the money properties speak of, for any rows.
Asked(rows) == Cardinality(UnitsOf(rows, {"REQUESTED"}))
Paid(rows)  == Cardinality(UnitsOf(rows, {"SUCCEEDED"}))
Both(rows)  == Cardinality(UnitsOf(rows, Counted))

LEMMA TotalsAre ==
  /\ Total({"REQUESTED"}) = Asked(refund) /\ Total({"REQUESTED"})' = Asked(refund')
  /\ Total({"SUCCEEDED"}) = Paid(refund) /\ Total({"SUCCEEDED"})' = Paid(refund')
  /\ Total(Counted) = Both(refund) /\ Total(Counted)' = Both(refund')
BY DEF Total, MinorUnits, UnitsOf, Asked, Paid, Both, Counted

LEMMA SumTypes ==
  ASSUME NEW rows \in Rows
  PROVE  /\ Asked(rows) \in Nat /\ Paid(rows) \in Nat /\ Both(rows) \in Nat
         /\ Both(rows) = Asked(rows) + Paid(rows)
BY UnitsFinite, CountedSplits DEF Asked, Paid, Both

\* Inserting a refund asks for its amount.
LEMMA InsertedSums ==
  ASSUME NEW rows \in Rows, NEW r \in Refunds, NEW rows2 \in Rows,
         \A q \in Refunds \ {r} : rows2[q] = rows[q],
         rows[r].status = "none", rows2[r].status = "REQUESTED"
  PROVE  /\ Asked(rows2) = Asked(rows) + rows2[r].amount
         /\ Paid(rows2) = Paid(rows)
         /\ Both(rows2) = Both(rows) + rows2[r].amount
<1>1. PICK asked : asked = {"REQUESTED"}
  OBVIOUS
<1>2. PICK paid : paid = {"SUCCEEDED"}
  OBVIOUS
<1>3. Cardinality(UnitsOf(rows2, asked)) = Cardinality(UnitsOf(rows, asked)) + rows2[r].amount
  BY <1>1, RowAdds
<1>4. UnitsOf(rows2, paid) = UnitsOf(rows, paid)
  BY <1>2, RowKeeps
<1>5. Both(rows2) = Asked(rows2) + Paid(rows2) /\ Both(rows) = Asked(rows) + Paid(rows)
  BY SumTypes
<1>6. Asked(rows) \in Nat /\ Paid(rows) \in Nat /\ rows2[r].amount \in Nat
  BY SumTypes DEF Rows
<1>7. Asked(rows2) = Asked(rows) + rows2[r].amount
  BY <1>1, <1>3 DEF Asked
<1>8. Paid(rows2) = Paid(rows)
  BY <1>2, <1>4 DEF Paid
<1> QED
  BY <1>5, <1>6, <1>7, <1>8

\* Approving a refund moves its amount from the one sum to the other.
LEMMA ApprovedSums ==
  ASSUME NEW rows \in Rows, NEW r \in Refunds, NEW rows2 \in Rows,
         \A q \in Refunds \ {r} : rows2[q] = rows[q],
         rows[r].status = "REQUESTED", rows2[r].status = "SUCCEEDED",
         rows2[r].amount = rows[r].amount
  PROVE  /\ Asked(rows) = Asked(rows2) + rows[r].amount
         /\ Paid(rows2) = Paid(rows) + rows[r].amount
         /\ Both(rows2) = Both(rows)
<1>1. PICK asked : asked = {"REQUESTED"}
  OBVIOUS
<1>2. PICK paid : paid = {"SUCCEEDED"}
  OBVIOUS
<1>3. Cardinality(UnitsOf(rows2, paid)) = Cardinality(UnitsOf(rows, paid)) + rows2[r].amount
  BY <1>2, RowAdds
<1>4. \A q \in Refunds \ {r} : rows[q] = rows2[q]
  OBVIOUS
<1>5. Cardinality(UnitsOf(rows, asked)) = Cardinality(UnitsOf(rows2, asked)) + rows[r].amount
  BY <1>1, <1>4, RowAdds
<1>6. Both(rows2) = Asked(rows2) + Paid(rows2) /\ Both(rows) = Asked(rows) + Paid(rows)
  BY SumTypes
<1>7. Asked(rows2) \in Nat /\ Paid(rows) \in Nat /\ rows[r].amount \in Nat
  BY SumTypes DEF Rows
<1>8. Paid(rows2) = Paid(rows) + rows[r].amount
  BY <1>2, <1>3 DEF Paid
<1>9. Asked(rows) = Asked(rows2) + rows[r].amount
  BY <1>1, <1>5 DEF Asked
<1> QED
  BY <1>6, <1>7, <1>8, <1>9

\* A refund that fits is inserted: the sum it was checked against holds until the commit.
LEMMA InsertStep ==
  ASSUME Inv, NEW h \in Handlers, NEW r \in Refunds, job[h].at = "refund",
         Fits(job[h].amount), refund[r].status = "none",
         refund' = [refund EXCEPT ![r] = [status |-> "REQUESTED", amount |-> job[h].amount]],
         Done(h), UNCHANGED <<method, order, pay, confirmed, posted>>
  PROVE  /\ Inv'
         /\ Total({"REQUESTED"})' = Total({"REQUESTED"}) + job[h].amount
         /\ Total({"SUCCEEDED"})' = Total({"SUCCEEDED"})
         /\ job[h].amount \in 1 .. MaxRefund
<1>1. Jobs /\ Sound(job[h]) /\ refund \in Rows
  BY DEF Inv, Jobs, RowsSound
<1>2. PICK n \in 1 .. MaxRefund : n = job[h].amount
  BY <1>1 DEF Sound, ClaimSound
<1>3. PICK row \in [status : RefundStatus, amount : 0 .. MaxRefund] :
        row = [status |-> "REQUESTED", amount |-> n]
  <2>1. n \in 0 .. MaxRefund /\ "REQUESTED" \in RefundStatus
    BY DEF RefundStatus
  <2>2. [status |-> "REQUESTED", amount |-> n] \in [status : RefundStatus, amount : 0 .. MaxRefund]
    BY <2>1
  <2> QED
    BY <2>2
<1>4. PICK rows \in Rows : rows = refund' /\ rows = [refund EXCEPT ![r] = row]
  BY <1>1, <1>2, <1>3 DEF Rows
<1>5. /\ \A q \in Refunds \ {r} : rows[q] = refund[q]
      /\ rows[r].status = "REQUESTED" /\ rows[r].amount = n
  BY <1>1, <1>3, <1>4 DEF Rows
<1>6. Both(rows) = Both(refund) + n /\ Asked(rows) = Asked(refund) + n
      /\ Paid(rows) = Paid(refund)
  BY <1>1, <1>5, InsertedSums
<1>7. Total(Counted)' = Total(Counted) + n /\ Total({"REQUESTED"})' = Total({"REQUESTED"}) + n
  BY <1>4, <1>6, TotalsAre
<1>8. Total({"SUCCEEDED"})' = Total({"SUCCEEDED"})
  BY <1>4, <1>6, TotalsAre
<1>9. Total(Counted) \in Nat /\ confirmed \in Int
  BY <1>1, Totals DEF Inv, MoneyMatchesStatus
<1>10. n + Total(Counted) <= confirmed /\ confirmed > 0
  BY <1>2, <1>9 DEF Fits
<1>11. RefundsWithinConfirmed' /\ RefundedMeansAll'
  BY <1>7, <1>8, <1>9, <1>10 DEF Inv, RefundsWithinConfirmed, RefundedMeansAll
<1>12. MoneyMatchesStatus'
  BY DEF Inv, MoneyMatchesStatus
<1>13. RowsSound'
  <2>1. ASSUME NEW q \in Refunds, rows[q].status # "none" PROVE confirmed > 0 /\ rows[q].amount > 0
    <3>1. CASE q = r
      BY <1>5, <1>10, <3>1
    <3>2. CASE q # r
      BY <1>5, <2>1, <3>2 DEF Inv, RowsSound
    <3> QED
      BY <3>1, <3>2
  <2> QED
    BY <1>4, <2>1 DEF RowsSound
<1>14. Jobs'
  <2>1. ASSUME NEW g \in Handlers \ {h} PROVE \E i : i = job[g] /\ Sound(i)'
    <3>1. PICK i : i = job[g]
      OBVIOUS
    <3>2. Sound(i)
      BY <1>1, <3>1 DEF Jobs
    <3>3. ApprovalSound(i)'
      <4>1. i.at \in {"approve", "commit"} =>
              \E p \in Refunds : i.refund = {p} /\ refund[p].status # "none" /\ p # r
        BY <3>2 DEF Sound, ApprovalSound
      <4> QED
        BY <3>2, <4>1, <1>4, <1>5, <1>8 DEF Sound, ApprovalSound
    <3>4. Sound(i)'
      BY <3>2, <3>3 DEF Sound, WriterSound, ClaimSound
    <3> QED
      BY <3>1, <3>4
  <2>2. Sound(NoJob)'
    BY DEF NoJob, JobType, At, PayStatus, OrderStatuses, Sound, WriterSound, ClaimSound,
         ApprovalSound
  <2>3. job' = [job EXCEPT ![h] = NoJob]
    BY DEF Done
  <2> QED
    BY <2>1, <2>2, <2>3, <1>1, JobsAfter
<1>15. Alone'
  BY <1>1, NoJobSound DEF Inv, Jobs, Alone, Done
<1> QED
  BY <1>2, <1>7, <1>8, <1>11, <1>12, <1>13, <1>14, <1>15 DEF Inv

LEMMA insertRefundStep ==
  ASSUME Inv, NEW h \in Handlers, insertRefund(h), UNCHANGED <<method, posted>>
  PROVE  /\ Inv'
         /\ \/ UNCHANGED refund
            \/ /\ Total({"REQUESTED"})' \in Nat
               /\ Total({"REQUESTED"})' > Total({"REQUESTED"})
               /\ Total({"SUCCEEDED"})' = Total({"SUCCEEDED"})
<1>1. job[h].at = "refund" /\ Done(h) /\ UNCHANGED <<method, order, pay, confirmed, posted>>
  BY DEF insertRefund
<1>2. CASE UNCHANGED refund
  BY <1>1, <1>2, DoneStep
<1>3. ASSUME NEW r \in Refunds, Fits(job[h].amount), refund[r].status = "none",
             refund' = [refund EXCEPT ![r] = [status |-> "REQUESTED", amount |-> job[h].amount]]
      PROVE  /\ Inv'
             /\ Total({"REQUESTED"})' \in Nat
             /\ Total({"REQUESTED"})' > Total({"REQUESTED"})
             /\ Total({"SUCCEEDED"})' = Total({"SUCCEEDED"})
  <2>1. Total({"REQUESTED"}) \in Nat
    BY Totals DEF Inv, RowsSound
  <2>2. /\ Inv'
        /\ Total({"REQUESTED"})' = Total({"REQUESTED"}) + job[h].amount
        /\ Total({"SUCCEEDED"})' = Total({"SUCCEEDED"})
        /\ job[h].amount \in 1 .. MaxRefund
    BY <1>1, <1>3, InsertStep
  <2> QED
    BY <2>1, <2>2
<1> QED
  BY <1>2, <1>3 DEF insertRefund

\* An approval commits: its refund is paid, and the payment says what it decided before.
LEMMA approveCommitsStep ==
  ASSUME Inv, NEW h \in Handlers, approveCommits(h), UNCHANGED <<method, posted>>
  PROVE  /\ Inv'
         /\ \E n \in Nat \ {0} :
              /\ Total({"SUCCEEDED"})' = Total({"SUCCEEDED"}) + n
              /\ Total({"REQUESTED"}) = Total({"REQUESTED"})' + n
         /\ pay' \in {pay} \cup Repaying
<1>1. Jobs /\ Sound(job[h]) /\ refund \in Rows /\ job[h].at = "commit"
  BY DEF Inv, Jobs, RowsSound, approveCommits
<1>2. PICK r \in Refunds :
        /\ job[h].refund = {r} /\ refund[r].status = "REQUESTED"
        /\ job[h].to = "REFUNDED" => Total({"SUCCEEDED"}) + refund[r].amount >= confirmed
  BY <1>1 DEF Sound, ApprovalSound
<1>3. /\ job[h].to \in Repaying /\ confirmed > 0
      /\ pay' = pay \/ (pay' = job[h].to /\ PaymentFree)
      /\ UNCHANGED <<method, order, confirmed, posted>> /\ Done(h)
  <2>1. job[h].to \in Repaying /\ confirmed > 0
    BY <1>1 DEF Sound, ApprovalSound
  <2>2. pay' = pay \/ (pay' = job[h].to /\ PaymentFree)
    BY DEF approveCommits
  <2>3. UNCHANGED <<method, order, confirmed, posted>> /\ Done(h)
    BY DEF approveCommits
  <2> QED
    BY <2>1, <2>2, <2>3
<1>4. PICK n \in 1 .. MaxRefund : n = refund[r].amount
  BY <1>1, <1>2 DEF Inv, RowsSound, Rows
<1>5. PICK row \in [status : RefundStatus, amount : 0 .. MaxRefund] :
        row = [status |-> "SUCCEEDED", amount |-> n]
  <2>1. n \in 0 .. MaxRefund /\ "SUCCEEDED" \in RefundStatus
    BY DEF RefundStatus
  <2>2. [status |-> "SUCCEEDED", amount |-> n] \in [status : RefundStatus, amount : 0 .. MaxRefund]
    BY <2>1
  <2> QED
    BY <2>2
<1>6. [refund[r] EXCEPT !.status = "SUCCEEDED"] = row
  BY <1>1, <1>4, <1>5 DEF Rows
<1>7. PICK rows \in Rows : rows = refund' /\ rows = [refund EXCEPT ![r] = row]
  <2>1. refund' = [refund EXCEPT ![r] = row]
    BY <1>1, <1>2, <1>6 DEF approveCommits, Rows
  <2> QED
    BY <2>1, <1>1 DEF Rows
<1>8. /\ \A q \in Refunds \ {r} : rows[q] = refund[q]
      /\ rows[r].status = "SUCCEEDED" /\ rows[r].amount = n
  BY <1>1, <1>5, <1>7 DEF Rows
<1>9. /\ Both(rows) = Both(refund) /\ Paid(rows) = Paid(refund) + n
      /\ Asked(refund) = Asked(rows) + n
  BY <1>1, <1>2, <1>4, <1>8, ApprovedSums
<1>10. Total(Counted)' = Total(Counted) /\ Total({"SUCCEEDED"})' = Total({"SUCCEEDED"}) + n
  BY <1>7, <1>9, TotalsAre
<1>11. Total({"REQUESTED"}) = Total({"REQUESTED"})' + n
  BY <1>7, <1>9, TotalsAre
<1>12. /\ Total(Counted) \in Nat /\ Total({"REQUESTED"}) \in Nat /\ Total({"SUCCEEDED"}) \in Nat
       /\ Total(Counted) = Total({"REQUESTED"}) + Total({"SUCCEEDED"})
       /\ confirmed \in Int /\ Total(Counted) <= confirmed
  BY <1>1, <1>3, Totals DEF Inv, MoneyMatchesStatus, RefundsWithinConfirmed
<1>13. Total({"SUCCEEDED"})' <= confirmed
  <2>1. Total({"REQUESTED"})' \in Nat
    BY <1>7, SumTypes, TotalsAre
  <2> QED
    BY <1>10, <1>11, <1>12, <2>1
<1>14. RefundsWithinConfirmed'
  BY <1>3, <1>10, <1>12 DEF RefundsWithinConfirmed
<1>15. RefundedMeansAll'
  BY <1>2, <1>3, <1>4, <1>10, <1>12, <1>13 DEF Inv, RefundedMeansAll, Repaying
<1>16. MoneyMatchesStatus'
  BY <1>3 DEF Inv, MoneyMatchesStatus, PayStatus, Unpaid,
       Repaying
<1>17. RowsSound'
  <2>1. ASSUME NEW q \in Refunds, rows[q].status # "none" PROVE rows[q].amount > 0
    <3>1. CASE q = r
      BY <1>4, <1>8, <3>1
    <3>2. CASE q # r
      BY <1>8, <2>1, <3>2 DEF Inv, RowsSound
    <3> QED
      BY <3>1, <3>2
  <2> QED
    BY <1>3, <1>7, <2>1 DEF RowsSound
<1>18. Jobs'
  <2>1. ASSUME NEW g \in Handlers \ {h} PROVE \E i : i = job[g] /\ Sound(i)'
    <3>1. PICK i : i = job[g]
      OBVIOUS
    <3>2. Sound(i) /\ (i.at = "settle" => pay' = pay)
      BY <1>1, <1>3, <3>1 DEF Jobs, PaymentFree
    <3>3. i.at = "commit" => r \notin i.refund
      BY <1>1, <1>2, <3>1 DEF Inv, Alone
    <3>4. ApprovalSound(i)'
      <4>1. \A p \in Refunds : rows[p].status = "none" => refund[p].status = "none"
        BY <1>2, <1>8
      <4>2. i.at \in {"approve", "commit"} =>
              /\ confirmed' > 0 /\ i.amount = confirmed'
              /\ \E p \in Refunds : i.refund = {p} /\ rows[p].status # "none"
        BY <3>2, <4>1, <1>3 DEF Sound, ApprovalSound
      <4>3. ASSUME i.at = "commit", NEW p \in i.refund
            PROVE  /\ rows[p].status = "REQUESTED"
                   /\ i.to = "REFUNDED" =>
                        Total({"SUCCEEDED"})' + rows[p].amount >= confirmed'
        <5>1. p \in Refunds /\ p # r /\ rows[p] = refund[p]
          BY <3>2, <3>3, <4>3, <1>8 DEF Sound, ApprovalSound
        <5>2. refund[p].amount \in Nat
          BY <5>1, <1>1 DEF Rows
        <5>3. /\ refund[p].status = "REQUESTED"
              /\ i.to = "REFUNDED" => Total({"SUCCEEDED"}) + refund[p].amount >= confirmed
          BY <3>2, <4>3 DEF Sound, ApprovalSound
        <5> QED
          BY <5>1, <5>2, <5>3, <1>3, <1>4, <1>10, <1>12
      <4>4. i.at = "commit" => i.to \in Repaying
        BY <3>2 DEF Sound, ApprovalSound
      <4> QED
        BY <4>2, <4>3, <4>4, <1>7 DEF ApprovalSound
    <3>5. Sound(i)'
      BY <3>2, <3>4, <1>3 DEF Sound, WriterSound, ClaimSound
    <3> QED
      BY <3>1, <3>5
  <2>2. Sound(NoJob)'
    BY DEF NoJob, JobType, At, PayStatus, OrderStatuses, Sound, WriterSound, ClaimSound,
         ApprovalSound
  <2>3. job' = [job EXCEPT ![h] = NoJob]
    BY <1>3 DEF Done
  <2> QED
    BY <2>1, <2>2, <2>3, <1>1, JobsAfter
<1>19. Alone'
  BY <1>1, <1>3, NoJobSound DEF Inv, Jobs, Alone, Done
<1>20. n \in Nat \ {0} /\ pay' \in {pay} \cup Repaying
  BY <1>3, <1>4
<1> QED
  BY <1>10, <1>11, <1>14, <1>15, <1>16, <1>17, <1>18, <1>19, <1>20 DEF Inv

----------------------------------------------------------------------------
\* All steps, and the theorems.

\* Every step keeps the invariant.
LEMMA NextInv == Inv /\ [Next]_vars => Inv'
<1> SUFFICES ASSUME Inv, [Next]_vars PROVE Inv'
  OBVIOUS
<1>1. CASE (checkoutGate \/ orderMoves) /\ UNCHANGED method
  BY <1>1, checkoutGateStep, orderMovesStep
<1>2. ASSUME NEW h \in Handlers, Request(h), UNCHANGED <<method, posted>> PROVE Inv'
  BY <1>2, ReadingStep
<1>3. ASSUME NEW h \in Handlers, Continue(h), UNCHANGED <<method, posted>> PROVE Inv'
  BY <1>3, flipStep, settleStep, cancelFlipsStep, cancelReadsPaymentStep, cancelPaymentStep,
     rejectWritesStep, autoRefundStep, insertRefundStep, approveFlipsStep, approveCommitsStep,
     ReadingStep DEF Continue
<1>4. ASSUME NEW h \in Handlers, autoAdvance(h) \/ partiallyAccept(h), UNCHANGED method PROVE Inv'
  <2>1. UNCHANGED posted
    BY <1>4 DEF autoAdvance, partiallyAccept
  <2> QED
    BY <1>4, <2>1, autoAdvanceStep, partiallyAcceptStep
<1>5. CASE UNCHANGED vars
  <2>1. \A statuses : Total(statuses)' = Total(statuses)
    BY <1>5, SumsStay DEF vars
  <2>2. MoneyMatchesStatus' /\ RowsSound'
    BY <1>5 DEF vars, Inv, MoneyMatchesStatus, RowsSound
  <2>3. RefundsWithinConfirmed' /\ RefundedMeansAll' /\ Alone'
    BY <1>5, <2>1 DEF vars, Inv, RefundsWithinConfirmed, RefundedMeansAll, Alone
  <2>4. Jobs'
    BY <1>5, <2>1 DEF vars, Inv, Jobs, Sound, WriterSound, ClaimSound, ApprovalSound
  <2> QED
    BY <2>2, <2>3, <2>4 DEF Inv
<1> QED
  BY <1>1, <1>2, <1>3, <1>4, <1>5 DEF Next, Step

THEOREM MoneyInvariant == Spec => []Inv
BY InitInv, NextInv, PTL DEF Spec

\* What a step does to the money: only a confirmation changes what was received, only the
\* insertion and the approval of a refund change the refunds.
MoneyStep ==
  \/ /\ UNCHANGED <<confirmed, refund>>
     /\ pay' = pay \/ (pay' = "CANCELLED" /\ (pay \in Received => confirmed > 0))
  \/ confirmed = 0 /\ pay \in Unpaid /\ UNCHANGED refund
  \/ /\ UNCHANGED <<confirmed, pay>>
     /\ Total({"REQUESTED"})' \in Nat
     /\ Total({"REQUESTED"})' > Total({"REQUESTED"})
     /\ Total({"SUCCEEDED"})' = Total({"SUCCEEDED"})
  \/ /\ UNCHANGED confirmed /\ pay' \in {pay} \cup Repaying
     /\ \E n \in Nat \ {0} :
          /\ Total({"SUCCEEDED"})' = Total({"SUCCEEDED"}) + n
          /\ Total({"REQUESTED"}) = Total({"REQUESTED"})' + n

LEMMA MoneySteps == Inv /\ [Next]_vars => MoneyStep
<1> SUFFICES ASSUME Inv, [Next]_vars PROVE MoneyStep
  OBVIOUS
<1>1. CASE checkoutGate \/ orderMoves \/ UNCHANGED vars
  BY <1>1 DEF checkoutGate, orderMoves, vars, MoneyStep
<1>2. ASSUME NEW h \in Handlers, Request(h) PROVE MoneyStep
  BY <1>2 DEF Request, awaitPayment, submitProof, verifyPayment, confirmCash, expirePayment,
       cancelOrder, decideOrder, requestRefund, approveRefund, MoneyStep
<1>3. ASSUME NEW h \in Handlers, flip(h), UNCHANGED <<method, posted>> PROVE MoneyStep
  <2>1. UNCHANGED <<pay, confirmed>> \/ (confirmed = 0 /\ pay \in Unpaid)
    BY <1>3, flipStep
  <2>2. UNCHANGED refund
    BY <1>3 DEF flip
  <2> QED
    BY <2>1, <2>2 DEF MoneyStep
<1>4. ASSUME NEW h \in Handlers, settle(h), UNCHANGED <<method, posted>> PROVE MoneyStep
  BY <1>4, settleStep DEF settle, MoneyStep
<1>5. ASSUME NEW h \in Handlers, insertRefund(h), UNCHANGED <<method, posted>> PROVE MoneyStep
  BY <1>5, insertRefundStep DEF insertRefund, MoneyStep
<1>6. ASSUME NEW h \in Handlers, approveCommits(h), UNCHANGED <<method, posted>> PROVE MoneyStep
  BY <1>6, approveCommitsStep DEF approveCommits, MoneyStep
<1>7. ASSUME NEW h \in Handlers, cancelPayment(h) PROVE MoneyStep
  <2>1. pay' = pay \/ (pay' = "CANCELLED" /\ pay \notin Terminal)
    BY <1>7 DEF cancelPayment, FlipMatches, Inv, Jobs, Sound, WriterSound
  <2>2. pay \in Received \ Terminal => confirmed > 0
    BY DEF Inv, MoneyMatchesStatus, Received, Terminal, Repaying
  <2> QED
    BY <1>7, <2>1, <2>2 DEF cancelPayment, MoneyStep
<1>8. ASSUME NEW h \in Handlers,
             \/ cancelFlips(h) \/ cancelReadsPayment(h) \/ autoAdvance(h) \/ partiallyAccept(h)
             \/ rejectWrites(h) \/ autoRefund(h) \/ approveFlips(h) \/ victim(h) \/ Abort(h)
      PROVE  MoneyStep
  BY <1>8 DEF cancelFlips, cancelReadsPayment, autoAdvance, partiallyAccept, rejectWrites,
       autoRefund, approveFlips, victim, Abort, MoneyStep
<1> QED
  BY <1>1, <1>2, <1>3, <1>4, <1>5, <1>6, <1>7, <1>8 DEF Next, Step, Continue

Kinds == {"gate", "order"}

\* What has been recorded stays on record.
LEMMA StraysGrow ==
  [Next]_vars => strays \subseteq strays' /\ (strays \subseteq Kinds => strays' \subseteq Kinds)
<1>1. ASSUME NEW around, NEW late, Strays(around, late)
      PROVE  strays \subseteq strays' /\ (strays \subseteq Kinds => strays' \subseteq Kinds)
  BY <1>1 DEF Strays, Kinds
<1> QED
  BY <1>1 DEF Next, Step, vars, checkoutGate, orderMoves, autoAdvance, partiallyAccept

(* Payment, refund rows and every request in flight keep their types, whatever   *)
(* the requests do: payments.service.ts and its callers in orders.service.ts.    *)
THEOREM PaymentTyping == Spec => []TypeOK
<1>1. Init => strays \subseteq Kinds
  BY DEF Init
<1>2. strays \subseteq Kinds /\ [Next]_vars => (strays \subseteq Kinds)'
  BY StraysGrow
<1>3. Inv /\ strays \subseteq Kinds => TypeOK
  BY DEF Inv, MoneyMatchesStatus, RowsSound, Rows, Jobs, JobType, TypeOK, Kinds
<1> QED
  BY <1>1, <1>2, <1>3, MoneyInvariant, PTL DEF Spec

(* Refunds asked for and paid never exceed the money received, for any number of *)
(* requests for refunds at once (requestRefund).                                 *)
THEOREM RefundsAreCapped == Spec => []RefundsWithinConfirmed
<1>1. Inv => RefundsWithinConfirmed
  BY DEF Inv
<1> QED
  BY <1>1, MoneyInvariant, PTL

(* A payment says REFUNDED only when all of its money was repaid (approveRefund).*)
THEOREM RefundedIsAll == Spec => []RefundedMeansAll
<1>1. Inv => RefundedMeansAll
  BY DEF Inv
<1> QED
  BY <1>1, MoneyInvariant, PTL

\* A confirmation stays, with its amount.
LEMMA ConfirmedStays ==
  Inv /\ [Next]_vars /\ Confirmed
    => Confirmed' /\ confirmed' = confirmed /\ pay' \in Received \cup {"CANCELLED"}
BY MoneySteps DEF Inv, MoneyMatchesStatus, MoneyStep, Confirmed, Received, PayStatus, Unpaid,
   Repaying

(* A confirmation is made once and is not undone (verifyPayment, confirmCash,    *)
(* expirePayment, each on a status read before).                                 *)
THEOREM ConfirmationIsOnce == Spec => ConfirmedOnce
<1>1. Inv /\ [Next]_vars
        => [Confirmed => Confirmed' /\ confirmed' = confirmed
                           /\ pay' \in Received \cup {"CANCELLED"}]_vars
  BY ConfirmedStays
<1> QED
  BY <1>1, MoneyInvariant, PTL DEF Spec, ConfirmedOnce

----------------------------------------------------------------------------
\* The payment gate.

Deciding == {"accept", "partial", "reject"}

\* A merchant who decides about an order that waits for no advance has seen it behind the gate.
Decided(j) == j.at \in Deciding /\ j.order # "SUBMITTED" => Confirmed

GateInv ==
  method = "BANK_TRANSFER" /\ "gate" \notin strays =>
    /\ order \notin {"SUBMITTED", "PAYMENT_PENDING", "CANCELLED"} => Confirmed
    /\ \A h \in Handlers : Decided(job[h])

\* How a request gets to the steps that matter here.
LEMMA JobStarts ==
  ASSUME Inv, [Next]_vars, NEW g \in Handlers, job'[g] # job[g]
  PROVE  \/ job'[g].at \notin Deciding \cup {"flip", "settle"}
         \/ job'[g].at \in Deciding /\ order \in Decidable /\ job'[g].order = order
         \/ autoAdvance(g)
         \/ /\ job'[g].at = "flip"
            /\ \/ posted \/ method # "BANK_TRANSFER"
               \/ pay \in {"AWAITING_PAYMENT", "AWAITING_VERIFICATION", "REJECTED"}
         \/ job'[g].at = "settle" /\ job[g].at = "flip"
<1> DEFINE Goal == \/ job'[g].at \notin Deciding \cup {"flip", "settle"}
                   \/ job'[g].at \in Deciding /\ order \in Decidable /\ job'[g].order = order
                   \/ autoAdvance(g)
                   \/ /\ job'[g].at = "flip"
                      /\ \/ posted \/ method # "BANK_TRANSFER"
                         \/ pay \in {"AWAITING_PAYMENT", "AWAITING_VERIFICATION", "REJECTED"}
                   \/ job'[g].at = "settle" /\ job[g].at = "flip"
<1>1. job \in [Handlers -> JobType]
  BY DEF Inv, Jobs
<1>2. PICK h \in Handlers :
        Request(h) \/ Continue(h) \/ autoAdvance(h) \/ partiallyAccept(h)
  BY DEF Next, Step, vars, checkoutGate, orderMoves
<1>3. ASSUME NEW j, job' = [job EXCEPT ![h] = j] PROVE h = g /\ job'[g] = j
  BY <1>1, <1>3
<1>4. ASSUME NEW label, NEW to, NEW amount, Begin(h, label, to, amount) PROVE job'[g].at = label
  <2>1. PICK j : j = [NoJob EXCEPT !.at = label, !.seen = pay, !.to = to, !.amount = amount]
    OBVIOUS
  <2>2. j.at = label
    BY <2>1 DEF NoJob
  <2>3. job' = [job EXCEPT ![h] = j]
    BY <1>4, <2>1 DEF Begin
  <2> QED
    BY <1>3, <2>2, <2>3
<1>5. Done(h) => job'[g].at = "idle"
  BY <1>3 DEF Done, NoJob
<1>6. ASSUME NEW label, job' = [job EXCEPT ![h].at = label] PROVE h = g /\ job'[g].at = label
  BY <1>1, <1>6 DEF JobType
<1>7. CASE Request(h)
  <2>1. CASE decideOrder(h)
    <3>1. PICK decision \in {"accept", "partial", "reject"} :
            job' = [job EXCEPT ![h] = [NoJob EXCEPT !.at = decision, !.order = order]]
      BY <2>1 DEF decideOrder
    <3>2. PICK j : j = [NoJob EXCEPT !.at = decision, !.order = order]
      OBVIOUS
    <3>3. j.order = order /\ j.at = decision
      BY <3>2 DEF NoJob
    <3> QED
      BY <1>3, <2>1, <3>1, <3>2, <3>3 DEF decideOrder, Deciding
  <2>2. CASE cancelOrder(h)
    <3>1. PICK j : j = [NoJob EXCEPT !.at = "cancel", !.order = order]
      OBVIOUS
    <3>2. j.at = "cancel" /\ job' = [job EXCEPT ![h] = j]
      BY <2>2, <3>1 DEF cancelOrder, NoJob
    <3> QED
      BY <1>3, <3>2 DEF Deciding
  <2>3. CASE approveRefund(h)
    <3>1. PICK j : j.at = "approve" /\ job' = [job EXCEPT ![h] = j]
      BY <2>3 DEF approveRefund, NoJob
    <3> QED
      BY <1>3, <3>1 DEF Deciding
  <2>4. CASE requestRefund(h)
    <3>1. job'[g].at = "refund"
      BY <1>4, <2>4 DEF requestRefund
    <3> QED
      BY <3>1 DEF Deciding
  <2>5. CASE awaitPayment(h) \/ submitProof(h) \/ verifyPayment(h) \/ confirmCash(h) \/ expirePayment(h)
    <3>1. job'[g].at = "flip"
      BY <1>4, <2>5 DEF awaitPayment, submitProof, verifyPayment, confirmCash, expirePayment
    <3> QED
      BY <3>1, <2>5 DEF awaitPayment, submitProof, verifyPayment, confirmCash, expirePayment
  <2> QED
    BY <1>7, <2>1, <2>2, <2>3, <2>4, <2>5 DEF Request
<1>8. CASE Continue(h)
  <2>1. CASE cancelReadsPayment(h) /\ ~Done(h)
    <3>1. PICK read : job' = [job EXCEPT ![h].at = "cancelPayment", ![h].seen = read]
      BY <2>1 DEF cancelReadsPayment
    <3>2. PICK j : j = [job[h] EXCEPT !.at = "cancelPayment", !.seen = read]
      OBVIOUS
    <3>3. j.at = "cancelPayment" /\ job' = [job EXCEPT ![h] = j]
      BY <1>1, <3>1, <3>2 DEF JobType
    <3> QED
      BY <1>3, <3>3 DEF Deciding
  <2>2. CASE approveFlips(h) /\ ~Done(h)
    <3>1. job[h].at = "approve" /\ Sound(job[h])
      BY <2>2 DEF approveFlips, Inv, Jobs
    <3>2. PICK r \in Refunds : job[h].refund = {r}
      BY <3>1 DEF Sound, ApprovalSound
    <3>3. PICK to : job' = [job EXCEPT ![h].at = "commit", ![h].to = to]
      BY <2>2, <3>2 DEF approveFlips
    <3>4. PICK j : j = [job[h] EXCEPT !.at = "commit", !.to = to]
      OBVIOUS
    <3>5. j.at = "commit" /\ job' = [job EXCEPT ![h] = j]
      BY <1>1, <3>3, <3>4 DEF JobType
    <3> QED
      BY <1>3, <3>5 DEF Deciding
  <2>3. CASE flip(h) /\ ~Done(h)
    <3>1. job' = [job EXCEPT ![h].at = "settle"] /\ job[h].at = "flip"
      BY <2>3 DEF flip
    <3> QED
      BY <1>6, <3>1
  <2>4. CASE cancelFlips(h) /\ ~Done(h)
    <3>1. job'[g].at = "readPayment"
      BY <1>6, <2>4 DEF cancelFlips
    <3> QED
      BY <3>1 DEF Deciding
  <2>5. CASE rejectWrites(h)
    <3>1. job'[g].at = "autoRefund"
      BY <1>6, <2>5 DEF rejectWrites
    <3> QED
      BY <3>1 DEF Deciding
  <2>6. CASE autoRefund(h) /\ ~Done(h)
    <3>1. job'[g].at = "refund"
      BY <1>4, <2>6 DEF autoRefund
    <3> QED
      BY <3>1 DEF Deciding
  <2>7. CASE Done(h)
    BY <1>5, <2>7 DEF Deciding
  <2> QED
    BY <1>8, <2>1, <2>2, <2>3, <2>4, <2>5, <2>6, <2>7
    DEF Continue, settle, cancelPayment, insertRefund, approveCommits, victim, Abort
<1>9. CASE autoAdvance(h) \/ partiallyAccept(h)
  <2>1. CASE Done(h)
    BY <1>5, <2>1 DEF Deciding
  <2>2. CASE ~Done(h)
    <3>1. autoAdvance(h) /\ \E j : job' = [job EXCEPT ![h] = j]
      BY <1>9, <2>2 DEF autoAdvance, partiallyAccept
    <3> QED
      BY <1>3, <3>1
  <2> QED
    BY <2>1, <2>2
<1> QED
  BY <1>2, <1>7, <1>8, <1>9

\* Nobody advances a transfer order without going round the gate.
LEMMA AdvanceStrays ==
  ASSUME NEW h \in Handlers, autoAdvance(h), method = "BANK_TRANSFER" PROVE "gate" \in strays'
BY DEF autoAdvance, Strays

\* What a step that does not go round the gate may do to the order.
LEMMA OrderSteps ==
  ASSUME Inv, method = "BANK_TRANSFER", [Next]_vars, "gate" \notin strays'
  PROVE  \/ order' \in {order, "PAYMENT_PENDING", "CANCELLED"}
         \/ order' = "PAYMENT_CONFIRMED" /\ pay' = "CONFIRMED"
         \/ order \in {"PENDING_CONFIRMATION", "PAYMENT_CONFIRMED", "UNDERWAY"}
         \/ \E h \in Handlers : job[h].at \in Deciding /\ job[h].order # "SUBMITTED"
<1>1. CASE checkoutGate
  BY <1>1 DEF checkoutGate, FirstStatus
<1>2. CASE orderMoves
  <2>1. order \notin {"SUBMITTED", "PAYMENT_PENDING"}
    BY <1>2 DEF orderMoves, Strays
  <2> QED
    BY <1>2, <2>1 DEF orderMoves, Onward
<1>3. CASE UNCHANGED vars
  BY <1>3 DEF vars
<1>4. ASSUME NEW h \in Handlers, Request(h) PROVE order' = order
  BY <1>4 DEF Request, awaitPayment, submitProof, verifyPayment, confirmCash, expirePayment,
       cancelOrder, decideOrder, requestRefund, approveRefund
<1>5. ASSUME NEW h \in Handlers, settle(h)
      PROVE  \/ order' = order \/ order' = "CANCELLED"
             \/ order' = "PAYMENT_CONFIRMED" /\ pay' = "CONFIRMED"
  BY <1>5 DEF settle, OrderAfter
<1>6. ASSUME NEW h \in Handlers, Continue(h), ~settle(h), ~rejectWrites(h)
      PROVE  order' \in {order, "CANCELLED"}
  BY <1>6 DEF Continue, flip, cancelFlips, cancelReadsPayment, cancelPayment, autoRefund,
     insertRefund, approveFlips, approveCommits, victim, Abort
<1>7. ASSUME NEW h \in Handlers, rejectWrites(h) \/ partiallyAccept(h)
      PROVE  job[h].at \in Deciding /\ job[h].order # "SUBMITTED"
  BY <1>7 DEF rejectWrites, partiallyAccept, Deciding
<1> QED
  BY <1>1, <1>2, <1>3, <1>4, <1>5, <1>6, <1>7, AdvanceStrays DEF Next, Step

LEMMA InitGate == Init => GateInv
<1> SUFFICES ASSUME Init PROVE GateInv
  OBVIOUS
<1>1. order = "SUBMITTED"
  BY DEF Init
<1>2. ASSUME NEW h \in Handlers PROVE Decided(job[h])
  <2>1. job[h].at = "idle"
    BY DEF Init, NoJob
  <2> QED
    BY <2>1 DEF Decided, Deciding
<1> QED
  BY <1>1, <1>2 DEF GateInv

LEMMA NextGate == Inv /\ GateInv /\ [Next]_vars => GateInv'
<1> SUFFICES ASSUME Inv, GateInv, [Next]_vars, method' = "BANK_TRANSFER", "gate" \notin strays'
             PROVE  /\ (order \notin {"SUBMITTED", "PAYMENT_PENDING", "CANCELLED"} => Confirmed)'
                    /\ \A h \in Handlers : Decided(job[h])'
  BY DEF GateInv
<1>1. method = "BANK_TRANSFER" /\ "gate" \notin strays
  BY StraysGrow DEF Next, vars
<1>2. Confirmed => Confirmed'
  BY ConfirmedStays
<1>3. (order \notin {"SUBMITTED", "PAYMENT_PENDING", "CANCELLED"} => Confirmed)'
  <2>1. pay' = "CONFIRMED" => Confirmed'
    BY DEF Confirmed, Received
  <2>2. ASSUME NEW h \in Handlers, job[h].at \in Deciding, job[h].order # "SUBMITTED" PROVE Confirmed
    BY <1>1, <2>2 DEF GateInv, Decided
  <2> QED
    BY <1>1, <1>2, <2>1, <2>2, OrderSteps DEF GateInv
<1>4. ASSUME NEW g \in Handlers PROVE Decided(job[g])'
  <2>1. CASE job'[g] = job[g]
    BY <1>1, <1>2, <2>1 DEF GateInv, Decided
  <2>2. CASE job'[g] # job[g] /\ job'[g].at \in Deciding
    <3>1. order \in Decidable /\ job'[g].order = order
      BY <1>1, <2>2, JobStarts, AdvanceStrays DEF Deciding
    <3> QED
      BY <1>1, <1>2, <3>1 DEF GateInv, Decided, Decidable
  <2> QED
    BY <2>1, <2>2 DEF Decided
<1> QED
  BY <1>3, <1>4

(* A transfer order passes the gate only with a confirmed payment                *)
(* (transitionOrderAfterPaymentConfirmation), though confirmPayment, cancelOrder,*)
(* expirePayment, the checkout and merchants' by-id writes race, unless it is    *)
(* advanced before the checkout has put it there or moved by the status endpoint.*)
THEOREM GateIsPaid == Spec => []GateNeedsConfirmation
<1>1. GateInv => GateNeedsConfirmation
  BY DEF GateInv, GateNeedsConfirmation
<1> QED
  BY <1>1, InitGate, NextGate, MoneyInvariant, PTL DEF Spec

----------------------------------------------------------------------------
\* A payment closed with its order.

\* A transfer payment is out of CREATED only once the checkout has written the order, and a
\* partial acceptance has seen an order that may be decided.
CheckoutInv ==
  /\ order = "SUBMITTED" => ~posted
  /\ method = "BANK_TRANSFER" =>
       /\ pay \in {"AWAITING_PAYMENT", "AWAITING_VERIFICATION", "REJECTED"} => posted
       /\ \A h \in Handlers : job[h].at \in {"flip", "settle"} => posted
  /\ \A h \in Handlers : job[h].at \in Deciding => job[h].order \in Decidable

ClosedInv == CheckoutInv /\ ClosedWithOrder

\* What a step may do to a payment.
LEMMA ClosingSteps ==
  ASSUME Inv, [Next]_vars
  PROVE  \/ pay' = pay
         \/ pay' \notin {"CANCELLED", "EXPIRED"} /\ \E h \in Handlers : job[h].at = "flip"
         \/ pay' \in {"CONFIRMED"} \cup Repaying
         \/ pay' = "CANCELLED" /\ order' = "CANCELLED"
         \/ /\ pay' = "EXPIRED" /\ ~Confirmed /\ \E h \in Handlers : job[h].at = "settle"
            /\ order' = "CANCELLED" \/ (order' = order /\ order # "PAYMENT_PENDING")
<1>1. CASE checkoutGate \/ orderMoves \/ UNCHANGED vars
  BY <1>1 DEF checkoutGate, orderMoves, vars
<1>2. ASSUME NEW h \in Handlers, Request(h) \/ autoAdvance(h) \/ partiallyAccept(h)
      PROVE  pay' = pay
  BY <1>2 DEF Request, awaitPayment, submitProof, verifyPayment, confirmCash, expirePayment,
       cancelOrder, decideOrder, requestRefund, approveRefund, autoAdvance, partiallyAccept
<1>3. ASSUME NEW h \in Handlers, flip(h)
      PROVE  pay' = pay \/ (pay' \notin {"CANCELLED", "EXPIRED"} /\ job[h].at = "flip")
  <2>1. Sound(job[h])
    BY DEF Inv, Jobs
  <2> QED
    BY <1>3, <2>1 DEF flip, OrderFollows, Sound, WriterSound, Unpaid
<1>4. ASSUME NEW h \in Handlers, settle(h)
      PROVE  \/ pay' = "CONFIRMED"
             \/ /\ pay' = "EXPIRED" /\ ~Confirmed /\ job[h].at = "settle"
                /\ order' = "CANCELLED" \/ (order' = order /\ order # "PAYMENT_PENDING")
  <2>1. Sound(job[h]) /\ job[h].at = "settle"
    BY <1>4 DEF Inv, Jobs, settle
  <2>2. pay \in Unpaid /\ job[h].to \in {"EXPIRED", "CONFIRMED"}
    BY <2>1 DEF Sound, WriterSound
  <2>3. ~Confirmed
    BY <2>2 DEF Inv, MoneyMatchesStatus, Confirmed, Received, Unpaid
  <2> QED
    BY <1>4, <2>1, <2>2, <2>3 DEF settle, OrderAfter
<1>5. ASSUME NEW h \in Handlers, approveCommits(h) PROVE pay' = pay \/ pay' \in Repaying
  <2>1. Sound(job[h]) /\ job[h].at = "commit"
    BY <1>5 DEF Inv, Jobs, approveCommits
  <2> QED
    BY <1>5, <2>1 DEF approveCommits, Sound, ApprovalSound
<1>6. ASSUME NEW h \in Handlers, cancelPayment(h)
      PROVE  pay' = pay \/ (pay' = "CANCELLED" /\ order' = "CANCELLED")
  BY <1>6 DEF cancelPayment
<1>7. ASSUME NEW h \in Handlers, Continue(h),
             ~(flip(h) \/ settle(h) \/ approveCommits(h) \/ cancelPayment(h))
      PROVE  pay' = pay
  BY <1>7 DEF Continue, cancelFlips, cancelReadsPayment, rejectWrites, autoRefund, insertRefund,
     approveFlips, victim, Abort
<1> QED
  BY <1>1, <1>2, <1>3, <1>4, <1>5, <1>6, <1>7 DEF Next, Step

LEMMA NextCheckout == Inv /\ CheckoutInv /\ [Next]_vars => CheckoutInv'
<1> SUFFICES ASSUME Inv, CheckoutInv, [Next]_vars PROVE CheckoutInv'
  OBVIOUS
<1>1. method' = method /\ (posted => posted')
  <2>1. method' = method
    BY DEF Next, vars
  <2>2. posted' = posted \/ ~posted
    BY DEF Next, Step, vars, checkoutGate, orderMoves, autoAdvance, partiallyAccept
  <2> QED
    BY <2>1, <2>2
<1>2. (order = "SUBMITTED" => ~posted)'
  <2>1. CASE checkoutGate
    BY <2>1 DEF checkoutGate, FirstStatus
  <2>2. CASE orderMoves
    BY <2>2 DEF orderMoves, Onward
  <2>3. ASSUME NEW h \in Handlers, Request(h) \/ Continue(h), UNCHANGED posted
        PROVE  order' = "SUBMITTED" => ~posted'
    BY <2>3 DEF CheckoutInv, Request, awaitPayment, submitProof, verifyPayment, confirmCash,
       expirePayment, cancelOrder, decideOrder, requestRefund, approveRefund, Continue, flip,
       settle, OrderAfter, cancelFlips, cancelReadsPayment, cancelPayment, rejectWrites,
       autoRefund, insertRefund, approveFlips, approveCommits, victim, Abort
  <2>4. ASSUME NEW h \in Handlers, autoAdvance(h) \/ partiallyAccept(h)
        PROVE  order' # "SUBMITTED"
    BY <2>4 DEF autoAdvance, partiallyAccept
  <2>5. CASE UNCHANGED vars
    BY <2>5 DEF vars, CheckoutInv
  <2> QED
    BY <2>1, <2>2, <2>3, <2>4, <2>5 DEF Next, Step
<1>3. ASSUME method = "BANK_TRANSFER",
             pay' \in {"AWAITING_PAYMENT", "AWAITING_VERIFICATION", "REJECTED"}
      PROVE  posted'
  BY <1>1, <1>3, ClosingSteps DEF CheckoutInv, Repaying
<1>4. ASSUME method = "BANK_TRANSFER", NEW g \in Handlers, job'[g].at \in {"flip", "settle"}
      PROVE  posted'
  <2>1. CASE job'[g] = job[g]
    BY <1>1, <1>4, <2>1 DEF CheckoutInv
  <2>2. CASE autoAdvance(g)
    <3>1. job[g] \in JobType /\ job \in [Handlers -> JobType]
      BY DEF Inv, Jobs
    <3>2. job'[g].at = "idle" \/ job'[g].at = job[g].at
      BY <2>2, <3>1 DEF autoAdvance, Done, NoJob, JobType
    <3> QED
      BY <1>4, <2>2, <3>2 DEF autoAdvance
  <2> QED
    BY <1>1, <1>4, <2>1, <2>2, JobStarts DEF CheckoutInv, Deciding
<1>5. ASSUME NEW g \in Handlers, job'[g].at \in Deciding PROVE job'[g].order \in Decidable
  <2>1. CASE job'[g] = job[g]
    BY <1>5, <2>1 DEF CheckoutInv
  <2>2. CASE autoAdvance(g)
    <3>1. job \in [Handlers -> JobType]
      BY DEF Inv, Jobs
    <3>2. job'[g].at = "idle" \/ job'[g].order = "PENDING_CONFIRMATION"
      BY <2>2, <3>1 DEF autoAdvance, Done, NoJob, JobType
    <3> QED
      BY <1>5, <3>2 DEF Deciding, Decidable
  <2> QED
    BY <1>5, <2>1, <2>2, JobStarts DEF Deciding
<1> QED
  BY <1>1, <1>2, <1>3, <1>4, <1>5 DEF CheckoutInv

\* A closed order stays closed, unless it is written by id after it has changed.
LEMMA ClosedStays ==
  ASSUME Inv, CheckoutInv, [Next]_vars, strays' = {}, order \in {"CANCELLED", "REJECTED"}
  PROVE  order' \in {"CANCELLED", "REJECTED"}
<1>1. ~checkoutGate
  BY DEF checkoutGate, Strays
<1>2. ~orderMoves
  BY DEF orderMoves, Onward
<1>3. ASSUME NEW h \in Handlers PROVE ~autoAdvance(h)
  BY DEF autoAdvance, Strays
<1>4. ASSUME NEW h \in Handlers PROVE ~partiallyAccept(h)
  BY DEF partiallyAccept, Strays, CheckoutInv, Deciding, Decidable
<1>5. CASE UNCHANGED vars
  BY <1>5 DEF vars
<1>6. ASSUME NEW h \in Handlers, Request(h) PROVE order' = order
  BY <1>6 DEF Request, awaitPayment, submitProof, verifyPayment, confirmCash, expirePayment,
       cancelOrder, decideOrder, requestRefund, approveRefund
<1>7. ASSUME NEW h \in Handlers, Continue(h) PROVE order' \in {order, "CANCELLED", "REJECTED"}
  BY <1>7 DEF Continue, flip, settle, cancelFlips, cancelReadsPayment, cancelPayment,
     rejectWrites, autoRefund, insertRefund, approveFlips, approveCommits, victim, Abort
<1> QED
  BY <1>1, <1>2, <1>3, <1>4, <1>5, <1>6, <1>7 DEF Next, Step

LEMMA NextClosed == Inv /\ GateInv /\ ClosedInv /\ [Next]_vars => ClosedInv'
<1> SUFFICES ASSUME Inv, GateInv, ClosedInv, [Next]_vars PROVE ClosedInv'
  OBVIOUS
<1>1. method' = method
  BY DEF Next, vars
<1>2. ASSUME strays' = {},
             pay' = "CANCELLED" \/ (pay' = "EXPIRED" /\ method = "BANK_TRANSFER")
      PROVE  order' \in {"CANCELLED", "REJECTED"}
  <2>1. strays = {}
    BY <1>2, StraysGrow
  <2>2. CASE pay' = pay
    BY <1>2, <2>1, <2>2, ClosedStays DEF ClosedInv, ClosedWithOrder
  <2>3. ASSUME NEW h \in Handlers, job[h].at = "settle", method = "BANK_TRANSFER", ~Confirmed,
               order' = order, order # "PAYMENT_PENDING"
        PROVE  order' = "CANCELLED"
    <3>1. order \in {"SUBMITTED", "CANCELLED"}
      BY <2>1, <2>3 DEF GateInv
    <3>2. order # "SUBMITTED"
      BY <2>3 DEF ClosedInv, CheckoutInv
    <3> QED
      BY <2>3, <3>1, <3>2
  <2> QED
    BY <1>2, <2>2, <2>3, ClosingSteps DEF Repaying
<1>3. ClosedWithOrder'
  BY <1>1, <1>2 DEF ClosedWithOrder
<1> QED
  BY <1>3, NextCheckout DEF ClosedInv

(* A payment is cancelled or expires only with its order (cancelOrder,           *)
(* expirePayment), which stays closed, unless a merchant, or the checkout, goes  *)
(* round the payment gate or writes by id an order that has changed.             *)
THEOREM ClosedTogether == Spec => []ClosedWithOrder
<1>1. Init => ClosedInv
  BY DEF Init, ClosedInv, CheckoutInv, ClosedWithOrder, NoJob, Deciding
<1>2. ClosedInv => ClosedWithOrder
  BY DEF ClosedInv
<1> QED
  BY <1>1, <1>2, InitGate, NextGate, NextClosed, MoneyInvariant, PTL DEF Spec

(* Payments implement RefundPromise: what was received, what is promised and     *)
(* what was repaid move as the promise allows and in no other way.               *)
THEOREM PaymentsKeepPromise == Spec => PromiseKept
<1>1. Init => Promise!Init
  <2>1. ASSUME Init PROVE UnitsOf(refund, {"REQUESTED"}) = {} /\ UnitsOf(refund, {"SUCCEEDED"}) = {}
    BY <2>1 DEF Init, UnitsOf
  <2>2. ASSUME Init PROVE Asked(refund) = 0 /\ Paid(refund) = 0
    BY <2>1, <2>2, FS_EmptySet DEF Asked, Paid
  <2> QED
    BY <2>2, TotalsAre DEF Init, Promise!Init
<1>2. Inv /\ Inv' /\ MoneyStep => [Promise!Next]_(Promise!vars)
  <2> SUFFICES ASSUME Inv, Inv', MoneyStep PROVE [Promise!Next]_(Promise!vars)
    OBVIOUS
  <2>1. PICK got \in Nat, got2 \in Nat :
          /\ got = IF confirmed > 0 THEN confirmed ELSE 0
          /\ got2 = IF confirmed' > 0 THEN confirmed' ELSE 0
    BY DEF Inv, MoneyMatchesStatus
  <2>2. /\ Total({"REQUESTED"}) \in Nat /\ Total({"SUCCEEDED"}) \in Nat
        /\ Total(Counted) = Total({"REQUESTED"}) + Total({"SUCCEEDED"})
    BY Totals DEF Inv, RowsSound
  <2>3. /\ Total({"REQUESTED"})' \in Nat /\ Total({"SUCCEEDED"})' \in Nat
        /\ Total(Counted)' = Total({"REQUESTED"})' + Total({"SUCCEEDED"})'
    BY SumTypes, TotalsAre DEF Inv, RowsSound
  <2>4. Total(Counted)' <= got2
    <3>1. Total(Counted)' > 0 => Total(Counted)' <= confirmed'
      BY DEF Inv, RefundsWithinConfirmed
    <3>2. confirmed' \in Int /\ Total(Counted)' \in Nat
      BY <2>3 DEF Inv, MoneyMatchesStatus
    <3> QED
      BY <2>1, <3>1, <3>2
  <2>5. UNCHANGED confirmed => got2 = got
    BY <2>1
  <2>6. CASE UNCHANGED refund
    <3>1. Total({"REQUESTED"})' = Total({"REQUESTED"}) /\ Total({"SUCCEEDED"})' = Total({"SUCCEEDED"})
      BY <2>6, SumsStay
    <3>2. confirmed = 0 \/ confirmed' = confirmed
      BY <2>6 DEF MoneyStep
    <3>3. got = 0 \/ got2 = got
      BY <2>1, <2>5, <3>2
    <3> QED
      BY <2>1, <3>1, <3>3 DEF Promise!Next, Promise!Receive, Promise!vars
  <2>7. CASE /\ UNCHANGED confirmed
             /\ Total({"REQUESTED"})' > Total({"REQUESTED"})
             /\ Total({"SUCCEEDED"})' = Total({"SUCCEEDED"})
    BY <2>1, <2>2, <2>3, <2>4, <2>5, <2>7 DEF Promise!Next, Promise!Promise
  <2>8. ASSUME UNCHANGED confirmed, NEW n \in Nat \ {0},
               Total({"SUCCEEDED"})' = Total({"SUCCEEDED"}) + n,
               Total({"REQUESTED"}) = Total({"REQUESTED"})' + n
        PROVE  [Promise!Next]_(Promise!vars)
    BY <2>1, <2>2, <2>3, <2>5, <2>8 DEF Promise!Next, Promise!Repay
  <2> QED
    BY <2>6, <2>7, <2>8 DEF MoneyStep
<1>3. Inv /\ Inv' /\ [Next]_vars => [Promise!Next]_(Promise!vars)
  BY <1>2, MoneySteps
<1> QED
  BY <1>1, <1>3, MoneyInvariant, PTL DEF Spec, PromiseKept, Promise!Spec
=============================================================================
