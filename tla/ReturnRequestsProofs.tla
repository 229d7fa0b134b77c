------------------------ MODULE ReturnRequestsProofs ------------------------
(***************************************************************************)
(* Theorems about ReturnRequests, for any number of requests in flight, of *)
(* returns, refunds and settlement rows, and any order.                    *)
(***************************************************************************)
EXTENDS ReturnRequests, UnitSums

JobType == [at : At, ret : Requests \cup {NoReturn}, seen : Statuses \cup {"none"},
            to : Statuses \cup {"none"}, category : Categories, amount : Nat,
            refund : SUBSET Refunds, reversal : Nat, row : SUBSET Settlements,
            open : BOOLEAN]

----------------------------------------------------------------------------
\* Statuses and sums.

LEMMA StatusesAre ==
  Statuses = {"REQUESTED", "MERCHANT_APPROVED", "BUYER_SHIPPED", "RECEIVED", "INSPECTED",
              "REFUND_PENDING", "REFUND_FAILED", "REFUNDED", "MERCHANT_REJECTED", "CANCELLED",
              "EXPIRED", "REJECTED_AFTER_INSPECTION", "ESCALATED"}
BY DEF Statuses, TRANSITIONS

\* An edge starts at an active status, and leads into the statuses after the inspection only
\* by the inspection; it does not lead out of them.
LEMMA EdgeFacts ==
  ASSUME NEW s \in Statuses, NEW t \in TRANSITIONS[s]
  PROVE  /\ t \in Statuses
         /\ s \notin TERMINAL_STATES
         /\ t = "INSPECTED" => s \notin AfterInspection
         /\ t # "INSPECTED" => (t \in AfterInspection <=> s \in AfterInspection)
         /\ t = "REFUND_FAILED" => s = "REFUND_PENDING"
BY StatusesAre DEF TRANSITIONS, TERMINAL_STATES, AfterInspection

\* What the module sums, as amounts of rows.
Reversals    == [r \in Requests |-> ret[r].reversal]
Credits      == [s \in Settlements |-> settlement[s].reversal]
Asked(statuses) == [f \in Refunds |-> IF refund[f].status \in statuses THEN refund[f].amount ELSE 0]

LEMMA SumsAre ==
  /\ Reversed = Cardinality(Units(Requests, Ordered * Commission, Reversals))
  /\ Reversed' = Cardinality(Units(Requests, Ordered * Commission, Reversals'))
  /\ Credited = Cardinality(Units(Settlements, Ordered * Commission, Credits))
  /\ Credited' = Cardinality(Units(Settlements, Ordered * Commission, Credits'))
<1>1. Reversed = Cardinality(Units(Requests, Ordered * Commission, Reversals))
  BY DEF Reversed, Units, Reversals
<1>2. Reversed' = Cardinality(Units(Requests, Ordered * Commission, Reversals'))
  BY DEF Reversed, Units, Reversals
<1>3. Credited = Cardinality(Units(Settlements, Ordered * Commission, Credits))
  BY DEF Credited, Units, Credits
<1>4. Credited' = Cardinality(Units(Settlements, Ordered * Commission, Credits'))
  BY DEF Credited, Units, Credits
<1> QED
  BY <1>1, <1>2, <1>3, <1>4

LEMMA TotalIs ==
  ASSUME NEW statuses
  PROVE  /\ UnitsRefunded(statuses) = Units(Refunds, Ordered, Asked(statuses))
         /\ UnitsRefunded(statuses)' = Units(Refunds, Ordered, Asked(statuses)')
<1>1. UnitsRefunded(statuses) = Units(Refunds, Ordered, Asked(statuses))
  BY DEF UnitsRefunded, Units, Asked
<1>2. UnitsRefunded(statuses)' = Units(Refunds, Ordered, Asked(statuses)')
  BY DEF UnitsRefunded, Units, Asked
<1> QED
  BY <1>1, <1>2

LEMMA Bounds == Ordered * Commission \in Nat /\ Commission <= Ordered * Commission
<1>1. PICK k \in Nat : Ordered = k + 1
  <2>1. Ordered - 1 \in Nat /\ Ordered = (Ordered - 1) + 1
    BY ReturnAssumption
  <2> QED
    BY <2>1
<1>2. Commission \in Nat
  BY ReturnAssumption
<1>3. k * Commission \in Nat
  BY <1>2
<1>4. Ordered * Commission = k * Commission + Commission
  BY <1>1, <1>2
<1> QED
  BY <1>2, <1>3, <1>4

LEMMA SumsAreNatural ==
  /\ Reversed \in Nat /\ Reversed' \in Nat /\ Credited \in Nat /\ Credited' \in Nat
  /\ \A statuses : Total(statuses) \in Nat /\ Total(statuses)' \in Nat
<1>1. /\ IsFiniteSet(Requests) /\ IsFiniteSet(Settlements) /\ IsFiniteSet(Refunds)
      /\ Ordered * Commission \in Nat /\ Ordered \in Nat
  BY ReturnAssumption, Bounds
<1>2. Reversed \in Nat /\ Reversed' \in Nat /\ Credited \in Nat /\ Credited' \in Nat
  BY <1>1, SumsAre, UnitsAreFinite
<1>3. ASSUME NEW statuses PROVE Total(statuses) \in Nat /\ Total(statuses)' \in Nat
  <2>1. /\ Total(statuses) = Cardinality(Units(Refunds, Ordered, Asked(statuses)))
        /\ Total(statuses)' = Cardinality(Units(Refunds, Ordered, Asked(statuses)'))
    BY TotalIs DEF Total
  <2> QED
    BY <1>1, <2>1, UnitsAreFinite
<1> QED
  BY <1>2, <1>3

----------------------------------------------------------------------------
\* The flow of statuses.  What a request has checked still holds when it acts on it, as far as
\* statuses go: it flips along an edge, and a row that is being posted is locked.

RowType == [status : Statuses \cup {"none"}, quantity : Nat, category : Categories,
            refund : SUBSET Refunds, reversal : Nat]
RefundType == [status : {"none", "REQUESTED", "SUCCEEDED"}, amount : Nat,
               key : Requests \cup {NoReturn}]
SettlementType == [status : {"none", "CALCULATED", "PAID", "ADJUSTMENT"},
                   refund : Nat, reversal : Nat]

Checked(j) ==
  /\ j.at \in {"flip", "lookup", "ask", "link", "mark", "post"} =>
       j.ret \in Requests /\ j.seen \in Statuses /\ ret[j.ret].status # "none"
  /\ j.at = "flip" => j.to \in TRANSITIONS[j.seen] \ {"REFUND_PENDING", "REFUNDED"}
  /\ j.at \in {"lookup", "ask", "link"} => j.seen \in {"INSPECTED", "REFUND_FAILED"}
  /\ j.at \in {"mark", "post"} => j.seen = "REFUND_PENDING"
  /\ j.at = "post" => ret[j.ret].status = "REFUND_PENDING"

OnePost == \A h, g \in Handlers :
  job[h].at = "post" /\ job[g].at = "post" /\ job[h].ret = job[g].ret => h = g

\* What the flips preserve: inspected returns, and no others, are back to stock.
RestoredExactly ==
  \A r \in Requests : restored[r] = IF ret[r].status \in AfterInspection THEN 1 ELSE 0

FlowInv ==
  /\ TypeOK
  /\ OneActive
  /\ RestoredExactly
  /\ \A h \in Handlers : Checked(job[h])
  /\ OnePost

\* The body of StepsTakeEdges.
TakesEdges == \A r \in Requests :
  ret'[r].status # ret[r].status =>
    IF ret[r].status = "none" THEN ret'[r].status = "REQUESTED"
    ELSE ret'[r].status \in TRANSITIONS[ret[r].status]

LEMMA TypesAre ==
  TypeOK <=> /\ ret \in [Requests -> RowType]
             /\ restored \in [Requests -> Nat]
             /\ refund \in [Refunds -> RefundType]
             /\ settlement \in [Settlements -> SettlementType]
             /\ job \in [Handlers -> JobType]
BY DEF TypeOK, RowType, RefundType, SettlementType, JobType

LEMMA NoJobFacts == NoJob \in JobType /\ Checked(NoJob) /\ Checked(NoJob)' /\ NoJob.at = "idle"
BY DEF NoJob, JobType, At, Categories, Checked

\* A step that leaves the returns alone, and sets at most one request to something checked.
LEMMA JobMoves ==
  ASSUME FlowInv, NEW h \in Handlers, job' \in [Handlers -> JobType],
         \A g \in Handlers \ {h} : job'[g] = job[g],
         Checked(job'[h]), job'[h].at = "post" => ReturnFree(job'[h].ret),
         UNCHANGED <<ret, restored>>,
         refund' \in [Refunds -> RefundType], settlement' \in [Settlements -> SettlementType]
  PROVE  FlowInv' /\ TakesEdges
<1> USE DEF FlowInv
<1>1. TypeOK'
  BY TypesAre DEF TypeOK, RowType, RefundType, SettlementType, JobType
<1>2. OneActive' /\ RestoredExactly'
  BY DEF OneActive, RestoredExactly, Active
<1>3. ASSUME NEW g \in Handlers PROVE Checked(job[g])'
  BY DEF Checked
<1>4. OnePost'
  BY DEF OnePost, ReturnFree
<1> QED
  BY <1>1, <1>2, <1>3, <1>4 DEF TakesEdges

\* A request that ends without an effect on the returns.
LEMMA JobEnds ==
  ASSUME FlowInv, NEW h \in Handlers, Done(h), UNCHANGED <<ret, restored>>,
         refund' \in [Refunds -> RefundType], settlement' \in [Settlements -> SettlementType]
  PROVE  FlowInv' /\ TakesEdges
<1>1. job \in [Handlers -> JobType]
  BY TypesAre DEF FlowInv
<1>2. job' \in [Handlers -> JobType] /\ job'[h] = NoJob /\ \A g \in Handlers \ {h} : job'[g] = job[g]
  BY <1>1, NoJobFacts DEF Done
<1> QED
  BY <1>2, NoJobFacts, JobMoves

\* A step of other tables.
LEMMA RowsKept ==
  ASSUME FlowInv, UNCHANGED <<ret, restored, job>>,
         refund' \in [Refunds -> RefundType], settlement' \in [Settlements -> SettlementType]
  PROVE  FlowInv' /\ TakesEdges
<1> USE DEF FlowInv
<1>1. TypeOK'
  BY DEF TypeOK, RowType, RefundType, SettlementType
<1>2. OneActive' /\ RestoredExactly' /\ OnePost' /\ \A g \in Handlers : Checked(job[g])'
  BY DEF OneActive, RestoredExactly, Active, OnePost, Checked
<1> QED
  BY <1>1, <1>2 DEF TakesEdges

\* A step that ends a request and moves one return along an edge, or asks for it.
LEMMA RowMoves ==
  ASSUME FlowInv, NEW h \in Handlers, NEW r \in Requests, NEW row \in RowType,
         \/ ret[r].status # "none" /\ row.status \in TRANSITIONS[ret[r].status]
         \/ ret[r].status = "none" /\ row.status = "REQUESTED" /\ OneActiveIndex,
         ReturnFree(r) \/ (job[h].at = "post" /\ job[h].ret = r),
         ret' = [ret EXCEPT ![r] = row], job' = [job EXCEPT ![h] = NoJob],
         restored' = IF row.status = "INSPECTED" THEN [restored EXCEPT ![r] = @ + 1] ELSE restored,
         refund' \in [Refunds -> RefundType], settlement' \in [Settlements -> SettlementType]
  PROVE  FlowInv' /\ TakesEdges
<1> USE DEF FlowInv
<1>0. /\ job \in [Handlers -> JobType] /\ ret \in [Requests -> RowType]
      /\ restored \in [Requests -> Nat]
  BY TypesAre
<1>1. TypeOK'
  <2>1. job' \in [Handlers -> JobType]
    BY <1>0, NoJobFacts
  <2>2. ret' \in [Requests -> RowType]
    BY <1>0
  <2>3. restored' \in [Requests -> Nat]
    BY <1>0
  <2> QED
    BY <2>1, <2>2, <2>3 DEF TypeOK, RowType, RefundType, SettlementType, JobType
<1>2. job'[h] = NoJob /\ \A g \in Handlers \ {h} : job'[g] = job[g]
  BY <1>0
<1>3. ret'[r] = row /\ \A q \in Requests \ {r} : ret'[q] = ret[q]
  BY <1>0
<1>4. ret[r].status \in Statuses \cup {"none"} /\ "none" \notin Statuses
  BY <1>0, StatusesAre DEF RowType
<1>5. row.status # "none" /\ TakesEdges
  <2>1. row.status # "none"
    BY <1>4, EdgeFacts
  <2>2. TakesEdges
    BY <1>3 DEF TakesEdges
  <2> QED
    BY <2>1, <2>2
<1>6. OneActive'
  <2>1. Active(r) \/ OneActiveIndex
    BY <1>4, EdgeFacts DEF Active
  <2>2. \A q \in Requests \ {r} : Active(q)' => Active(q)
    BY <1>3 DEF Active
  <2> QED
    BY <2>1, <2>2 DEF OneActive, OneActiveIndex
<1>7. RestoredExactly'
  <2>1. restored'[r] = IF row.status \in AfterInspection THEN 1 ELSE 0
    <3>1. restored[r] = IF ret[r].status \in AfterInspection THEN 1 ELSE 0
      BY DEF RestoredExactly
    <3>2. row.status = "INSPECTED" =>
            ret[r].status \notin AfterInspection /\ row.status \in AfterInspection
      BY <1>4, EdgeFacts DEF AfterInspection
    <3>3. row.status # "INSPECTED" =>
            (row.status \in AfterInspection <=> ret[r].status \in AfterInspection)
      BY <1>4, EdgeFacts DEF AfterInspection
    <3> QED
      BY <1>0, <3>1, <3>2, <3>3
  <2>2. \A q \in Requests \ {r} : restored'[q] = restored[q]
    BY <1>0
  <2> QED
    BY <1>3, <2>1, <2>2 DEF RestoredExactly
<1>8. OnePost'
  BY <1>2, NoJobFacts DEF OnePost
<1>9. ASSUME NEW g \in Handlers PROVE Checked(job[g])'
  <2>1. CASE g = h
    BY <1>2, <2>1, NoJobFacts
  <2>2. CASE g # h
    <3>1. job'[g] = job[g] /\ Checked(job[g])
      BY <1>2, <2>2
    <3>2. job[g].at = "post" => job[g].ret # r
      BY <2>2 DEF OnePost, ReturnFree
    <3> QED
      BY <1>3, <1>5, <3>1, <3>2 DEF Checked
  <2> QED
    BY <2>1, <2>2
<1> QED
  BY <1>1, <1>5, <1>6, <1>7, <1>8, <1>9

LEMMA InitFlows == Init => FlowInv
<1> SUFFICES ASSUME Init PROVE FlowInv
  OBVIOUS
<1>1. TypeOK
  BY NoJobFacts DEF Init, TypeOK, NoReturnRow, Categories, JobType
<1>2. OneActive /\ OnePost
  BY NoJobFacts DEF Init, OneActive, OnePost, Active, NoReturnRow
<1>3. RestoredExactly
  BY DEF Init, RestoredExactly, NoReturnRow, AfterInspection
<1> QED
  BY <1>1, <1>2, <1>3, NoJobFacts DEF Init, FlowInv

\* A request begins with a read of the return.
LEMMA BeginFlows ==
  ASSUME FlowInv, NEW h \in Handlers, NEW r \in Requests, NEW label \in At,
         NEW to \in Statuses, NEW category \in Categories, Begin(h, r, label, to, category),
         ret[r].status # "none", label \in {"flip", "lookup"},
         label = "flip" => to \in TRANSITIONS[ret[r].status] \ {"REFUND_PENDING", "REFUNDED"},
         label = "lookup" => ret[r].status \in {"INSPECTED", "REFUND_FAILED"},
         UNCHANGED <<ret, restored, refund, settlement>>
  PROVE  FlowInv' /\ TakesEdges
<1>1. /\ job \in [Handlers -> JobType] /\ ret \in [Requests -> RowType]
      /\ refund \in [Refunds -> RefundType] /\ settlement \in [Settlements -> SettlementType]
  BY TypesAre DEF FlowInv
<1>2. ret[r].status \in Statuses
  BY <1>1 DEF RowType
<1> DEFINE j == [NoJob EXCEPT !.at = label, !.ret = r, !.seen = ret[r].status, !.to = to,
                             !.category = category]
<1>3. j \in JobType /\ j.at = label /\ j.ret = r /\ j.seen = ret[r].status /\ j.to = to
  BY <1>2, NoJobFacts DEF JobType, NoJob
<1>4. job' = [job EXCEPT ![h] = j]
  BY DEF Begin
<1> HIDE DEF j
<1>5. job' \in [Handlers -> JobType] /\ job'[h] = j /\ \A g \in Handlers \ {h} : job'[g] = job[g]
  BY <1>1, <1>3, <1>4
<1>6. Checked(j)
  BY <1>2, <1>3 DEF Checked
<1> QED
  BY <1>1, <1>3, <1>5, <1>6, JobMoves

\* A request that goes on to another of its reads.
LEMMA GoesFlows ==
  ASSUME FlowInv, NEW h \in Handlers, NEW label \in {"active", "insert", "ask"}, Goes(h, label),
         label = "ask" => job[h].at = "lookup",
         UNCHANGED <<ret, restored, refund, settlement>>
  PROVE  FlowInv' /\ TakesEdges
<1>1. /\ job \in [Handlers -> JobType]
      /\ refund \in [Refunds -> RefundType] /\ settlement \in [Settlements -> SettlementType]
  BY TypesAre DEF FlowInv
<1>2. /\ job' \in [Handlers -> JobType] /\ \A g \in Handlers \ {h} : job'[g] = job[g]
      /\ job'[h].at = label /\ job'[h].ret = job[h].ret /\ job'[h].seen = job[h].seen
  BY <1>1 DEF Goes, JobType, At
<1>3. Checked(job'[h])
  BY <1>2 DEF Checked, FlowInv
<1> QED
  BY <1>1, <1>2, <1>3, JobMoves

\* What each action does to the flow.
LEMMA RequestFlows ==
  ASSUME FlowInv, NEW h \in Handlers, Request(h)
  PROVE  FlowInv' /\ TakesEdges
<1>1. /\ job \in [Handlers -> JobType] /\ ret \in [Requests -> RowType]
      /\ refund \in [Refunds -> RefundType] /\ settlement \in [Settlements -> SettlementType]
  BY TypesAre DEF FlowInv
<1>2. CASE createReturnRequest(h)
  <2>1. PICK quantity \in 1 .. Ordered :
          job' = [job EXCEPT ![h] = [NoJob EXCEPT !.at = "money", !.amount = quantity]]
    BY <1>2 DEF createReturnRequest
  <2>2. quantity \in Nat
    BY ReturnAssumption
  <2> DEFINE j == [NoJob EXCEPT !.at = "money", !.amount = quantity]
  <2>3. j \in JobType /\ j.at = "money"
    BY <2>2, NoJobFacts DEF JobType, NoJob, At
  <2>4. job' = [job EXCEPT ![h] = j]
    BY <2>1
  <2> HIDE DEF j
  <2>5. job' \in [Handlers -> JobType] /\ job'[h] = j /\ \A g \in Handlers \ {h} : job'[g] = job[g]
    BY <1>1, <2>3, <2>4
  <2>6. Checked(j)
    BY <2>3 DEF Checked
  <2> QED
    BY <1>1, <1>2, <2>3, <2>5, <2>6, JobMoves DEF createReturnRequest
<1>3. CASE calculateSettlement(h)
  <2>1. Total({"SUCCEEDED"}) \in Nat
    BY SumsAreNatural
  <2> DEFINE j == [NoJob EXCEPT !.at = "settle", !.amount = Total({"SUCCEEDED"})]
  <2>2. j \in JobType /\ j.at = "settle"
    BY <2>1, NoJobFacts DEF JobType, NoJob, At
  <2>3. job' = [job EXCEPT ![h] = j]
    BY <1>3 DEF calculateSettlement
  <2> HIDE DEF j
  <2>4. job' \in [Handlers -> JobType] /\ job'[h] = j /\ \A g \in Handlers \ {h} : job'[g] = job[g]
    BY <1>1, <2>2, <2>3
  <2>5. Checked(j)
    BY <2>2 DEF Checked
  <2> QED
    BY <1>1, <1>3, <2>2, <2>4, <2>5, JobMoves DEF calculateSettlement
<1>4. ASSUME NEW r \in Requests, transitionReturn(h, r) PROVE FlowInv' /\ TakesEdges
  <2>1. ret[r].status \in Statuses
    BY <1>1, <1>4 DEF transitionReturn, RowType
  <2>2. PICK to \in TRANSITIONS[ret[r].status] \ {"REFUND_PENDING", "REFUNDED"} :
          Begin(h, r, "flip", to, "none")
    BY <1>4 DEF transitionReturn
  <2>3. to \in Statuses
    BY <2>1, EdgeFacts
  <2> QED
    BY <1>4, <2>2, <2>3, BeginFlows DEF transitionReturn, At, Categories
<1>5. ASSUME NEW r \in Requests, resolveEscalation(h, r) PROVE FlowInv' /\ TakesEdges
  <2>1. PICK to \in {"MERCHANT_APPROVED", "MERCHANT_REJECTED", "CANCELLED"}, category \in Categories :
          Begin(h, r, "flip", to, category)
    BY <1>5 DEF resolveEscalation
  <2>2. to \in TRANSITIONS["ESCALATED"] \ {"REFUND_PENDING", "REFUNDED"} /\ to \in Statuses
    BY <2>1, StatusesAre DEF TRANSITIONS
  <2> QED
    BY <1>5, <2>1, <2>2, BeginFlows DEF resolveEscalation, At
<1>6. ASSUME NEW r \in Requests, createRefundRequest(h, r) PROVE FlowInv' /\ TakesEdges
  <2>1. ret[r].status \in Statuses
    BY <1>1, <1>6 DEF createRefundRequest, RowType
  <2>2. ret[r].status \in {"INSPECTED", "REFUND_FAILED"}
    BY <1>6, <2>1, StatusesAre DEF createRefundRequest, TRANSITIONS
  <2>3. "REFUND_PENDING" \in Statuses
    BY StatusesAre
  <2> QED
    BY <1>6, <2>2, <2>3, BeginFlows DEF createRefundRequest, At, Categories
<1>7. ASSUME NEW r \in Requests, markRefunded(h, r) PROVE FlowInv' /\ TakesEdges
  <2>1. PICK f \in ret[r].refund :
          job' = [job EXCEPT ![h] = [NoJob EXCEPT !.at = "mark", !.ret = r, !.seen = ret[r].status,
                                                  !.to = "REFUNDED", !.amount = refund[f].amount]]
    BY <1>7 DEF markRefunded
  <2>2. f \in Refunds
    BY <1>1, <2>1 DEF RowType
  <2>3. refund[f].amount \in Nat
    BY <1>1, <2>2 DEF RefundType
  <2>4. ret[r].status = "REFUND_PENDING" /\ ret[r].status \in Statuses /\ "REFUNDED" \in Statuses
    BY <1>7, StatusesAre DEF markRefunded
  <2> DEFINE j == [NoJob EXCEPT !.at = "mark", !.ret = r, !.seen = ret[r].status,
                                !.to = "REFUNDED", !.amount = refund[f].amount]
  <2>5. j \in JobType /\ j.at = "mark" /\ j.ret = r /\ j.seen = "REFUND_PENDING"
    BY <2>3, <2>4, NoJobFacts DEF JobType, NoJob, At
  <2>6. job' = [job EXCEPT ![h] = j]
    BY <2>1
  <2> HIDE DEF j
  <2>7. job' \in [Handlers -> JobType] /\ job'[h] = j /\ \A g \in Handlers \ {h} : job'[g] = job[g]
    BY <1>1, <2>5, <2>6
  <2>8. Checked(j)
    BY <2>4, <2>5 DEF Checked
  <2> QED
    BY <1>1, <1>7, <2>5, <2>7, <2>8, JobMoves DEF markRefunded
<1> QED
  BY <1>2, <1>3, <1>4, <1>5, <1>6, <1>7 DEF Request

\* What a return of the merchant's reverses is at most what is left of the commission.
LEMMA DueIsNatural ==
  ASSUME NEW quantity \in Nat
  PROVE  LET left == Commission - Reversed
             due  == IF left > 0 THEN Reversal(quantity, left) ELSE 0 IN
         /\ due \in Nat
         /\ Reversed <= Commission => due <= left
<1> DEFINE left == Commission - Reversed
           due  == IF left > 0 THEN Reversal(quantity, left) ELSE 0
<1>1. Commission \in Nat /\ Reversed \in Nat /\ NetGoods \in Nat \ {0}
  BY ReturnAssumption, SumsAreNatural
<1>2. Commission * quantity \in Nat
  BY <1>1
<1>3. (Commission * quantity) \div NetGoods \in Nat
  <2>1. PICK c \in Nat : c = Commission * quantity
    BY <1>2
  <2>2. c \div NetGoods \in Nat
    BY <1>1
  <2> QED
    BY <2>1, <2>2
<1>4. PICK p \in Nat : p = (Commission * quantity) \div NetGoods
  BY <1>3
<1>5. Reversal(quantity, left) = IF p <= left THEN p ELSE left
  BY <1>4 DEF Reversal
<1> QED
  BY <1>1, <1>4, <1>5

\* What the assignments to parts of a row or of a request leave in its type.
LEMMA RowTyped ==
  ASSUME NEW q \in RowType, NEW t \in Statuses, NEW c \in Categories,
         NEW R \in SUBSET Refunds, NEW n \in Nat
  PROVE  /\ [q EXCEPT !.status = t, !.category = c] \in RowType
         /\ [q EXCEPT !.status = t, !.refund = R] \in RowType
         /\ [q EXCEPT !.status = t, !.reversal = @ + n] \in RowType
<1>1. q.reversal + n \in Nat
  BY DEF RowType
<1>2. [q EXCEPT !.status = t, !.category = c] \in RowType
  BY DEF RowType
<1>3. [q EXCEPT !.status = t, !.refund = R] \in RowType
  BY DEF RowType
<1>4. [q EXCEPT !.status = t, !.reversal = @ + n] \in RowType
  BY <1>1 DEF RowType
<1> QED
  BY <1>2, <1>3, <1>4

LEMMA JobLinked ==
  ASSUME job \in [Handlers -> JobType], NEW h \in Handlers, NEW R \in SUBSET Refunds,
         job' = [job EXCEPT ![h].at = "link", ![h].refund = R]
  PROVE  /\ job' \in [Handlers -> JobType] /\ \A g \in Handlers \ {h} : job'[g] = job[g]
         /\ job'[h].at = "link" /\ job'[h].ret = job[h].ret /\ job'[h].seen = job[h].seen
         /\ job'[h].refund = R /\ job'[h].row = job[h].row
<1> DEFINE j == [job[h] EXCEPT !.at = "link", !.refund = R]
<1>1. "link" \in At /\ job[h] \in JobType
  BY DEF At
<1>2. j \in JobType
  BY <1>1 DEF JobType
<1>3. j.at = "link" /\ j.ret = job[h].ret /\ j.seen = job[h].seen /\ j.refund = R
      /\ j.row = job[h].row
  BY <1>1 DEF JobType
<1>4. job' = [job EXCEPT ![h] = j]
  BY DEF JobType
<1> HIDE DEF j
<1> QED
  BY <1>2, <1>3, <1>4

LEMMA JobSet ==
  ASSUME job \in [Handlers -> JobType], NEW h \in Handlers, NEW j \in JobType,
         job' = [job EXCEPT ![h] = j]
  PROVE  job' \in [Handlers -> JobType] /\ job'[h] = j /\ \A g \in Handlers \ {h} : job'[g] = job[g]
OBVIOUS

LEMMA JobPosts ==
  ASSUME job \in [Handlers -> JobType], NEW h \in Handlers, NEW n \in Nat,
         job' = [job EXCEPT ![h].at = "post", ![h].reversal = n]
  PROVE  /\ job' \in [Handlers -> JobType] /\ \A g \in Handlers \ {h} : job'[g] = job[g]
         /\ job'[h].at = "post" /\ job'[h].ret = job[h].ret /\ job'[h].seen = job[h].seen
         /\ job'[h].reversal = n /\ job'[h].row = job[h].row
<1> DEFINE j == [job[h] EXCEPT !.at = "post", !.reversal = n]
<1>1. "post" \in At /\ job[h] \in JobType
  BY DEF At
<1>2. j \in JobType
  BY <1>1 DEF JobType
<1>3. j.at = "post" /\ j.ret = job[h].ret /\ j.seen = job[h].seen /\ j.reversal = n /\ j.row = job[h].row
  BY <1>1 DEF JobType
<1>4. job' = [job EXCEPT ![h] = j]
  BY DEF JobType
<1> HIDE DEF j
<1> QED
  BY <1>2, <1>3, <1>4

\* Due(r) is what markFlips computes.
Due(r) ==
  IF ret[r].category = "MERCHANT" /\ Left > 0 THEN Reversal(ret[r].quantity, Left) ELSE 0

LEMMA MarkPosts ==
  ASSUME FlowInv, NEW h \in Handlers, markFlips(h), ~Done(h)
  PROVE  /\ job' \in [Handlers -> JobType] /\ \A g \in Handlers \ {h} : job'[g] = job[g]
         /\ job'[h].at = "post" /\ job'[h].ret = job[h].ret /\ job'[h].seen = job[h].seen
         /\ job'[h].reversal = Due(job[h].ret)
         /\ \A s \in job'[h].row : s \in job[h].row \/ (s \in Settlements /\ settlement[s].status # "none")
<1>1. job \in [Handlers -> JobType] /\ ret \in [Requests -> RowType]
  BY TypesAre DEF FlowInv
<1>2. job[h].ret \in Requests
  BY DEF FlowInv, markFlips, Checked
<1>3. PICK due \in Nat : due = Due(job[h].ret)
  BY <1>1, <1>2, DueIsNatural DEF Due, Left, RowType
<1>4. \/ job' = [job EXCEPT ![h].at = "post", ![h].reversal = due]
      \/ \E s \in Settlements :
           /\ settlement[s].status # "none"
           /\ job' = [job EXCEPT ![h].at = "post", ![h].reversal = due,
                     ![h].row  = IF settlement[s].status = "ADJUSTMENT" THEN {} ELSE {s},
                     ![h].open = settlement[s].status = "CALCULATED"]
  BY <1>3 DEF markFlips, Due, Left
<1>5. CASE job' = [job EXCEPT ![h].at = "post", ![h].reversal = due]
  BY <1>1, <1>3, <1>5, JobPosts
<1>6. ASSUME NEW s \in Settlements, settlement[s].status # "none",
             job' = [job EXCEPT ![h].at = "post", ![h].reversal = due,
                       ![h].row  = IF settlement[s].status = "ADJUSTMENT" THEN {} ELSE {s},
                       ![h].open = settlement[s].status = "CALCULATED"]
      PROVE  /\ job' \in [Handlers -> JobType] /\ \A g \in Handlers \ {h} : job'[g] = job[g]
             /\ job'[h].at = "post" /\ job'[h].ret = job[h].ret /\ job'[h].seen = job[h].seen
             /\ job'[h].reversal = due /\ job'[h].row \subseteq {s}
  <2>1. PICK R \in SUBSET Settlements : R = IF settlement[s].status = "ADJUSTMENT" THEN {} ELSE {s}
    OBVIOUS
  <2>2. PICK b \in BOOLEAN : b = (settlement[s].status = "CALCULATED")
    OBVIOUS
  <2>3. R \subseteq {s}
    BY <2>1
  <2> DEFINE j == [job[h] EXCEPT !.at = "post", !.reversal = due, !.row = R, !.open = b]
  <2>4. "post" \in At /\ job[h] \in JobType
    BY <1>1 DEF At
  <2>5. j \in JobType
    BY <2>4 DEF JobType
  <2>6. j.at = "post" /\ j.ret = job[h].ret /\ j.seen = job[h].seen /\ j.reversal = due /\ j.row = R
    BY <2>4 DEF JobType
  <2>7. job' = [job EXCEPT ![h] = j]
    BY <1>1, <1>6, <2>1, <2>2 DEF JobType
  <2> HIDE DEF j
  <2>8. job' \in [Handlers -> JobType] /\ job'[h] = j /\ \A g \in Handlers \ {h} : job'[g] = job[g]
    BY <1>1, <2>5, <2>7, JobSet
  <2> QED
    BY <2>3, <2>6, <2>8
<1> QED
  BY <1>3, <1>4, <1>5, <1>6

LEMMA ContinueFlows ==
  ASSUME FlowInv, NEW h \in Handlers, Continue(h)
  PROVE  FlowInv' /\ TakesEdges
<1>1. /\ job \in [Handlers -> JobType] /\ ret \in [Requests -> RowType]
      /\ restored \in [Requests -> Nat]
      /\ refund \in [Refunds -> RefundType] /\ settlement \in [Settlements -> SettlementType]
  BY TypesAre DEF FlowInv
<1>2. job[h] \in JobType /\ Checked(job[h])
  BY <1>1 DEF FlowInv
<1>3. CASE readRefunded(h)
  BY <1>1, <1>3, GoesFlows, JobEnds DEF readRefunded
<1>4. CASE readActive(h)
  BY <1>1, <1>4, GoesFlows, JobEnds DEF readActive
<1>5. CASE insertReturn(h)
  <2>1. CASE UNCHANGED ret
    BY <1>1, <1>5, <2>1, JobEnds DEF insertReturn
  <2>2. ASSUME OneActiveIndex, NEW r \in Requests, ret[r].status = "none",
               ret' = [ret EXCEPT ![r] = NewReturn(job[h].amount)]
        PROVE  FlowInv' /\ TakesEdges
    <3> DEFINE row == NewReturn(job[h].amount)
    <3>1. row \in RowType /\ row.status = "REQUESTED"
      BY <1>2, StatusesAre DEF NewReturn, RowType, JobType, Categories
    <3>2. ReturnFree(r)
      BY <1>5 DEF insertReturn
    <3>3. ret' = [ret EXCEPT ![r] = row]
      BY <2>2
    <3>4. job' = [job EXCEPT ![h] = NoJob] /\ UNCHANGED <<restored, refund, settlement>>
      BY <1>5 DEF insertReturn, Done
    <3> HIDE DEF row
    <3>5. restored' = IF row.status = "INSPECTED" THEN [restored EXCEPT ![r] = @ + 1] ELSE restored
      BY <3>1, <3>4
    <3>6. refund' \in [Refunds -> RefundType] /\ settlement' \in [Settlements -> SettlementType]
      BY <1>1, <3>4
    <3> QED
      BY <2>2, <3>1, <3>2, <3>3, <3>4, <3>5, <3>6, RowMoves
  <2> QED
    BY <1>5, <2>1, <2>2 DEF insertReturn
<1>6. CASE flip(h)
  <2>1. CASE ~FlipMatches(h)
    BY <1>1, <1>6, <2>1, JobEnds DEF flip
  <2>2. CASE FlipMatches(h)
    <3>1. PICK r \in Requests : r = job[h].ret
      BY <1>2, <1>6 DEF flip, Checked
    <3> DEFINE row == [ret[r] EXCEPT !.status = job[h].to,
                         !.category = IF job[h].category = "none" THEN @ ELSE job[h].category]
    <3>2. job[h].to \in TRANSITIONS[ret[r].status] /\ ret[r].status \in Statuses
      BY <1>2, <1>6, <2>2, <3>1 DEF flip, Checked, FlipMatches
    <3>3. row \in RowType /\ row.status = job[h].to
      <4>1. job[h].to \in Statuses
        BY <3>2, EdgeFacts
      <4>2. PICK c \in Categories : c = IF job[h].category = "none" THEN ret[r].category ELSE job[h].category
        BY <1>1, <1>2 DEF RowType, JobType
      <4>3. ret[r] \in RowType /\ row = [ret[r] EXCEPT !.status = job[h].to, !.category = c]
        BY <1>1, <4>2
      <4> QED
        BY <4>1, <4>3, RowTyped DEF RowType
    <3>4. ret' = [ret EXCEPT ![r] = row]
      BY <1>1, <1>6, <2>2, <3>1 DEF flip, RowType
    <3>5. ReturnFree(r) /\ Done(h) /\ UNCHANGED <<refund, settlement>>
      BY <1>6, <3>1 DEF flip
    <3>6. restored' = IF row.status = "INSPECTED" THEN [restored EXCEPT ![r] = @ + 1] ELSE restored
      BY <1>6, <2>2, <3>1, <3>3 DEF flip
    <3>7. ret[r].status # "none" /\ row.status \in TRANSITIONS[ret[r].status]
      BY <3>2, <3>3, StatusesAre
    <3> HIDE DEF row
    <3> QED
      BY <1>1, <3>3, <3>4, <3>5, <3>6, <3>7, RowMoves DEF Done
  <2> QED
    BY <2>1, <2>2
<1>7. CASE findRefund(h)
  <2>1. CASE Goes(h, "ask")
    BY <1>7, <2>1, GoesFlows DEF findRefund
  <2>2. ASSUME NEW f \in Keyed(job[h].ret), job' = [job EXCEPT ![h].at = "link", ![h].refund = {f}]
        PROVE  FlowInv' /\ TakesEdges
    <3>1. f \in Refunds
      BY <2>2 DEF Keyed
    <3>2. /\ job' \in [Handlers -> JobType] /\ \A g \in Handlers \ {h} : job'[g] = job[g]
          /\ job'[h].at = "link" /\ job'[h].ret = job[h].ret /\ job'[h].seen = job[h].seen
      <4>1. PICK R \in SUBSET Refunds : R = {f}
        BY <3>1
      <4>2. job' = [job EXCEPT ![h].at = "link", ![h].refund = R]
        BY <2>2, <4>1
      <4> QED
        BY <1>1, <4>2, JobLinked
    <3>3. Checked(job'[h])
      BY <1>2, <1>7, <3>2 DEF Checked, findRefund
    <3> QED
      BY <1>1, <1>7, <3>2, <3>3, JobMoves DEF findRefund
  <2> QED
    BY <1>7, <2>1, <2>2 DEF findRefund
<1>8. CASE askRefund(h)
  <2>1. CASE Done(h) /\ UNCHANGED refund
    BY <1>1, <1>8, <2>1, JobEnds DEF askRefund
  <2>2. ASSUME NEW f \in Refunds, insertRefund(f, ret[job[h].ret].quantity, job[h].ret),
               job' = [job EXCEPT ![h].at = "link", ![h].refund = {f}]
        PROVE  FlowInv' /\ TakesEdges
    <3>1. job[h].ret \in Requests
      BY <1>2, <1>8 DEF askRefund, Checked
    <3>2. refund' \in [Refunds -> RefundType]
      BY <1>1, <2>2, <3>1 DEF insertRefund, RefundType, RowType
    <3>3. /\ job' \in [Handlers -> JobType] /\ \A g \in Handlers \ {h} : job'[g] = job[g]
          /\ job'[h].at = "link" /\ job'[h].ret = job[h].ret /\ job'[h].seen = job[h].seen
      <4>1. PICK R \in SUBSET Refunds : R = {f}
        OBVIOUS
      <4>2. job' = [job EXCEPT ![h].at = "link", ![h].refund = R]
        BY <2>2, <4>1
      <4> QED
        BY <1>1, <4>2, JobLinked
    <3>4. Checked(job'[h])
      BY <1>2, <1>8, <3>3 DEF Checked, askRefund
    <3> QED
      BY <1>1, <1>8, <3>2, <3>3, <3>4, JobMoves DEF askRefund
  <2> QED
    BY <1>8, <2>1, <2>2 DEF askRefund
<1>9. CASE linkRefund(h)
  <2>1. CASE UNCHANGED ret
    BY <1>1, <1>9, <2>1, JobEnds DEF linkRefund
  <2>2. CASE Links(h)
    <3>1. PICK r \in Requests : r = job[h].ret
      BY <1>2, <1>9 DEF linkRefund, Checked
    <3> DEFINE row == [ret[r] EXCEPT !.status = "REFUND_PENDING", !.refund = job[h].refund]
    <3>2. ret[r].status \in {"INSPECTED", "REFUND_FAILED"}
      BY <1>2, <1>9, <2>2, <3>1 DEF linkRefund, Checked, Links, FlipMatches
    <3>3. row \in RowType /\ row.status = "REFUND_PENDING"
      <4>1. "REFUND_PENDING" \in Statuses /\ job[h].refund \in SUBSET Refunds /\ ret[r] \in RowType
            /\ ret[r].category \in Categories /\ 0 \in Nat
        BY <1>1, <1>2, StatusesAre DEF JobType, RowType
      <4>2. row \in RowType
        BY <4>1, RowTyped
      <4> QED
        BY <4>1, <4>2 DEF RowType
    <3>4. ret' = [ret EXCEPT ![r] = row]
      BY <1>1, <1>9, <2>2, <3>1 DEF linkRefund, RowType
    <3>5. ReturnFree(r) /\ Done(h) /\ UNCHANGED <<restored, refund, settlement>>
      BY <1>9, <3>1 DEF linkRefund
    <3>6. ret[r].status # "none" /\ row.status \in TRANSITIONS[ret[r].status]
      BY <3>2, <3>3 DEF TRANSITIONS
    <3> HIDE DEF row
    <3> QED
      BY <1>1, <3>3, <3>4, <3>5, <3>6, RowMoves DEF Done
  <2> QED
    BY <1>9, <2>1, <2>2 DEF linkRefund
<1>10. CASE insertSettlement(h)
  <2>1. settlement' \in [Settlements -> SettlementType]
    BY <1>1, <1>2, <1>10 DEF insertSettlement, insertRow, SettlementType, JobType
  <2> QED
    BY <1>1, <1>10, <2>1, JobEnds DEF insertSettlement
<1>11. CASE markFlips(h)
  <2>1. CASE Done(h)
    BY <1>1, <1>11, <2>1, JobEnds DEF markFlips
  <2>2. CASE ~Done(h)
    <3>1. PICK r \in Requests : r = job[h].ret
      BY <1>2, <1>11 DEF markFlips, Checked
    <3>2. /\ job' \in [Handlers -> JobType] /\ \A g \in Handlers \ {h} : job'[g] = job[g]
          /\ job'[h].at = "post" /\ job'[h].ret = r /\ job'[h].seen = job[h].seen
      BY <1>11, <2>2, <3>1, MarkPosts
    <3>3. ret[r].status = "REFUND_PENDING" /\ ReturnFree(r) /\ job[h].seen = "REFUND_PENDING"
      BY <1>2, <1>11, <2>2, <3>1 DEF markFlips, Checked, FlipMatches
    <3>4. Checked(job'[h])
      BY <3>1, <3>2, <3>3, StatusesAre DEF Checked
    <3> QED
      BY <1>1, <1>11, <3>2, <3>3, <3>4, JobMoves DEF markFlips
  <2> QED
    BY <2>1, <2>2
<1>12. CASE post(h)
  <2>1. PICK r \in Requests : r = job[h].ret
    BY <1>2, <1>12 DEF post, Checked
  <2> DEFINE row == [ret[r] EXCEPT !.status = "REFUNDED", !.reversal = @ + job[h].reversal]
  <2>2. ret[r].status = "REFUND_PENDING"
    BY <1>2, <1>12, <2>1 DEF post, Checked
  <2>3. row \in RowType /\ row.status = "REFUNDED"
    <3>1. "REFUNDED" \in Statuses /\ job[h].reversal \in Nat /\ ret[r] \in RowType
          /\ ret[r].category \in Categories /\ {} \in SUBSET Refunds
      BY <1>1, <1>2, StatusesAre DEF JobType, RowType
    <3>2. row \in RowType
      BY <3>1, RowTyped
    <3> QED
      BY <3>1, <3>2 DEF RowType
  <2>4. ret' = [ret EXCEPT ![r] = row]
    BY <1>1, <1>12, <2>1 DEF post, RowType
  <2>5. settlement' \in [Settlements -> SettlementType]
    <3>1. job[h].amount \in Nat /\ job[h].reversal \in Nat /\ job[h].row \in SUBSET Settlements
      BY <1>2 DEF JobType
    <3>2. ASSUME NEW s \in job[h].row,
                 settlement' = [settlement EXCEPT ![s].refund = @ + job[h].amount, ![s].reversal = @ + job[h].reversal]
          PROVE  settlement' \in [Settlements -> SettlementType]
      <4>1. s \in Settlements
        BY <3>1
      <4>2. settlement[s] \in SettlementType
        BY <1>1, <4>1
      <4> DEFINE new == [settlement[s] EXCEPT !.refund = @ + job[h].amount,
                                              !.reversal = @ + job[h].reversal]
      <4>3. new \in SettlementType
        <5>1. /\ settlement[s].refund + job[h].amount \in Nat
              /\ settlement[s].reversal + job[h].reversal \in Nat
          BY <3>1, <4>2 DEF SettlementType
        <5> QED
          BY <4>2, <5>1 DEF SettlementType
      <4>4. settlement' = [settlement EXCEPT ![s] = new]
        BY <1>1, <3>2, <4>1
      <4> HIDE DEF new
      <4> QED
        BY <1>1, <4>1, <4>3, <4>4
    <3>3. ASSUME NEW s \in Settlements, insertRow(s, "ADJUSTMENT", job[h].amount, job[h].reversal)
          PROVE  settlement' \in [Settlements -> SettlementType]
      BY <1>1, <3>1, <3>3 DEF insertRow, SettlementType
    <3> QED
      BY <1>1, <1>12, <3>2, <3>3 DEF post, adjustSettlement
  <2>6. /\ job[h].at = "post" /\ job[h].ret = r /\ Done(h) /\ UNCHANGED <<restored, refund>>
        /\ ret[r].status # "none" /\ row.status \in TRANSITIONS[ret[r].status]
    BY <1>12, <2>1, <2>2, <2>3 DEF post, TRANSITIONS
  <2> HIDE DEF row
  <2> QED
    BY <1>1, <2>3, <2>4, <2>5, <2>6, RowMoves DEF Done
<1>13. CASE Abort(h)
  BY <1>1, <1>13, JobEnds DEF Abort
<1> QED
  BY <1>3, <1>4, <1>5, <1>6, <1>7, <1>8, <1>9, <1>10, <1>11, <1>12, <1>13 DEF Continue

LEMMA StepFlows ==
  ASSUME FlowInv, [Next]_vars
  PROVE  FlowInv' /\ TakesEdges
<1>1. /\ ret \in [Requests -> RowType]
      /\ refund \in [Refunds -> RefundType] /\ settlement \in [Settlements -> SettlementType]
  BY TypesAre DEF FlowInv
<1>2. CASE requestRefund
  <2>1. refund' \in [Refunds -> RefundType]
    BY <1>1, <1>2, ReturnAssumption DEF requestRefund, insertRefund, RefundType
  <2> QED
    BY <1>1, <1>2, <2>1, RowsKept DEF requestRefund
<1>3. ASSUME NEW f \in Refunds, approveRefund(f) PROVE FlowInv' /\ TakesEdges
  <2>1. refund' \in [Refunds -> RefundType]
    BY <1>1, <1>3 DEF approveRefund, RefundType
  <2> QED
    BY <1>1, <1>3, <2>1, RowsKept DEF approveRefund
<1>4. ASSUME NEW s \in Settlements, markSettlementPaid(s) PROVE FlowInv' /\ TakesEdges
  <2>1. settlement' \in [Settlements -> SettlementType]
    BY <1>1, <1>4 DEF markSettlementPaid, SettlementType
  <2> QED
    BY <1>1, <1>4, <2>1, RowsKept DEF markSettlementPaid
<1>5. CASE UNCHANGED vars
  BY <1>1, <1>5, RowsKept DEF vars
<1> QED
  BY <1>2, <1>3, <1>4, <1>5, RequestFlows, ContinueFlows DEF Next

\* The inductive invariant of the statuses.
THEOREM ReturnFlow == Spec => []FlowInv
<1>1. Init => FlowInv
  BY InitFlows
<1>2. FlowInv /\ [Next]_vars => FlowInv'
  BY StepFlows
<1> QED
  BY <1>1, <1>2, PTL DEF Spec

(* Every row and every request in flight has its type.                           *)
THEOREM ReturnTyping == Spec => []TypeOK
<1>1. FlowInv => TypeOK
  BY DEF FlowInv
<1> QED
  BY <1>1, ReturnFlow, PTL

(* A sub-order has one return under way, whatever the number of requests between *)
(* their look for one and their insert (createReturnRequest, the partial unique  *)
(* index of migration 0059).                                                     *)
THEOREM ReturnsAreOneActive == Spec => []OneActive
<1>1. FlowInv => OneActive
  BY DEF FlowInv
<1> QED
  BY <1>1, ReturnFlow, PTL

(* A return is put back to stock at most once, and not before it is inspected,   *)
(* however many inspections race (inspectReturn, restoreInventory).              *)
THEOREM ReturnsRestoreOnce == Spec => []RestoredOnce
<1>1. FlowInv => RestoredOnce
  BY DEF FlowInv, RestoredExactly, RestoredOnce
<1> QED
  BY <1>1, ReturnFlow, PTL

(* Returns go along the edges of TRANSITIONS, also those moves that do not look  *)
(* them up (resolveEscalation, createRefundRequest, markRefunded).               *)
THEOREM ReturnsTakeEdges == Spec => StepsTakeEdges
<1>1. FlowInv /\ [Next]_vars => [TakesEdges]_vars
  BY StepFlows
<1>2. Spec => [][TakesEdges]_vars
  BY <1>1, ReturnFlow, PTL DEF Spec
<1> QED
  BY <1>2 DEF StepsTakeEdges, TakesEdges

----------------------------------------------------------------------------
\* The refunds of returns.  The refund of key return-refund:<id> is found again by every attempt,
\* so a return that is past its refund request has the one of its key.

AfterRequest == {"REFUND_PENDING", "REFUND_FAILED", "REFUNDED"}

RefundKeyed(r) ==
  /\ \A f, g \in Keyed(r) : f = g
  /\ \A f \in Keyed(r) : /\ ret[r].status # "none"
                         /\ r \notin BuyerKeys => refund[f].amount = ret[r].quantity
  /\ ret[r].status \in AfterRequest =>
       \E f \in Keyed(r) : /\ ret[r].refund = {f}
                           /\ ret[r].status = "REFUNDED" => refund[f].status = "SUCCEEDED"

Linked(j) ==
  /\ j.at = "link" => \E f \in Keyed(j.ret) : j.refund = {f}
  /\ j.at \in {"mark", "post"} => \E f \in Keyed(j.ret) : refund[f].status = "SUCCEEDED"

KeysInv ==
  /\ \A r \in Requests : RefundKeyed(r)
  /\ \A h \in Handlers : Linked(job[h])

LEMMA NoJobLinked == Linked(NoJob) /\ Linked(NoJob)'
BY DEF Linked, NoJob

\* A step of one request that touches neither table.
LEMMA KeysStay ==
  ASSUME KeysInv, NEW h \in Handlers, \A g \in Handlers \ {h} : job'[g] = job[g],
         UNCHANGED <<ret, refund>>, Linked(job'[h])
  PROVE  KeysInv'
<1>1. \A r \in Requests : RefundKeyed(r)'
  BY DEF KeysInv, RefundKeyed, Keyed
<1>2. ASSUME NEW g \in Handlers PROVE Linked(job[g])'
  BY DEF KeysInv, Linked, Keyed
<1> QED
  BY <1>1, <1>2 DEF KeysInv

LEMMA KeysEnd ==
  ASSUME FlowInv, KeysInv, NEW h \in Handlers, Done(h), UNCHANGED <<ret, refund>>
  PROVE  KeysInv'
<1>1. job'[h] = NoJob /\ \A g \in Handlers \ {h} : job'[g] = job[g]
  BY TypesAre DEF FlowInv, Done
<1> QED
  BY <1>1, NoJobLinked, KeysStay

\* A step that moves one return and ends its request.
LEMMA KeysRow ==
  ASSUME FlowInv, KeysInv, NEW h \in Handlers, NEW r \in Requests, NEW row,
         ret' = [ret EXCEPT ![r] = row], Done(h), UNCHANGED refund, row.status # "none",
         \/ ret[r].status = "none" /\ row.status \notin AfterRequest
         \/ /\ row.quantity = ret[r].quantity
            /\ row.status \in AfterRequest =>
                 \E f \in Keyed(r) : /\ row.refund = {f}
                                     /\ row.status = "REFUNDED" => refund[f].status = "SUCCEEDED"
  PROVE  KeysInv'
<1>1. job'[h] = NoJob /\ \A g \in Handlers \ {h} : job'[g] = job[g]
  BY TypesAre DEF FlowInv, Done
<1>2. ret'[r] = row /\ \A q \in Requests \ {r} : ret'[q] = ret[q]
  BY TypesAre DEF FlowInv
<1>3. \A q \in Requests : Keyed(q)' = Keyed(q)
  BY DEF Keyed
<1>4. ASSUME NEW q \in Requests PROVE RefundKeyed(q)'
  <2>1. RefundKeyed(q)
    BY DEF KeysInv
  <2>2. CASE q = r
    <3>1. RefundKeyed(r)
      BY DEF KeysInv
    <3> QED
      BY <1>2, <1>3, <2>2, <3>1 DEF RefundKeyed
  <2>3. CASE q # r
    BY <1>2, <1>3, <2>1, <2>3 DEF RefundKeyed
  <2> QED
    BY <2>2, <2>3
<1>5. ASSUME NEW g \in Handlers PROVE Linked(job[g])'
  <2>1. CASE g = h
    BY <1>1, <2>1, NoJobLinked
  <2>2. CASE g # h
    BY <1>1, <2>2 DEF KeysInv, Linked, Keyed
  <2> QED
    BY <2>1, <2>2
<1> QED
  BY <1>4, <1>5 DEF KeysInv

LEMMA RequestKeys ==
  ASSUME FlowInv, KeysInv, NEW h \in Handlers, Request(h)
  PROVE  KeysInv'
<1>1. /\ job \in [Handlers -> JobType] /\ ret \in [Requests -> RowType]
      /\ UNCHANGED <<ret, refund>> /\ \A g \in Handlers \ {h} : job'[g] = job[g]
  BY TypesAre DEF FlowInv, Request, createReturnRequest, calculateSettlement, transitionReturn,
       resolveEscalation, createRefundRequest, markRefunded, Begin
<1>2. ASSUME NEW r \in Requests, markRefunded(h, r) PROVE Linked(job'[h])
  <2>1. PICK f \in ret[r].refund :
          /\ Paid(f)
          /\ job' = [job EXCEPT ![h] = [NoJob EXCEPT !.at = "mark", !.ret = r, !.seen = ret[r].status,
                                                     !.to = "REFUNDED", !.amount = refund[f].amount]]
    BY <1>2 DEF markRefunded
  <2>2. job'[h].at = "mark" /\ job'[h].ret = r
    BY <1>1, <2>1 DEF NoJob
  <2>3. RefundKeyed(r) /\ ret[r].status = "REFUND_PENDING"
    BY <1>2 DEF KeysInv, markRefunded
  <2>4. f \in Keyed(r) /\ refund[f].status = "SUCCEEDED"
    BY <2>1, <2>3 DEF RefundKeyed, AfterRequest, Paid
  <2> QED
    BY <1>1, <2>2, <2>4 DEF Linked
<1>3. CASE \A r \in Requests : ~markRefunded(h, r)
  <2>1. job'[h].at \notin {"link", "mark", "post"}
    <3>1. ASSUME NEW r \in Requests, NEW label, NEW to, NEW category, Begin(h, r, label, to, category)
          PROVE  job'[h].at = label
      BY <1>1, <3>1 DEF Begin, NoJob
    <3>2. CASE createReturnRequest(h)
      BY <1>1, <3>2 DEF createReturnRequest, NoJob
    <3>3. CASE calculateSettlement(h)
      BY <1>1, <3>3 DEF calculateSettlement, NoJob
    <3>4. ASSUME NEW r \in Requests, transitionReturn(h, r) PROVE job'[h].at = "flip"
      BY <3>1, <3>4 DEF transitionReturn
    <3>5. ASSUME NEW r \in Requests, resolveEscalation(h, r) PROVE job'[h].at = "flip"
      BY <3>1, <3>5 DEF resolveEscalation
    <3>6. ASSUME NEW r \in Requests, createRefundRequest(h, r) PROVE job'[h].at = "lookup"
      BY <3>1, <3>6 DEF createRefundRequest
    <3> QED
      BY <1>3, <3>2, <3>3, <3>4, <3>5, <3>6 DEF Request
  <2> QED
    BY <1>1, <2>1, KeysStay DEF Linked
<1> QED
  BY <1>1, <1>2, <1>3, KeysStay

LEMMA ContinueKeys ==
  ASSUME FlowInv, KeysInv, NEW h \in Handlers, Continue(h)
  PROVE  KeysInv'
<1>1. /\ job \in [Handlers -> JobType] /\ ret \in [Requests -> RowType]
      /\ refund \in [Refunds -> RefundType]
  BY TypesAre DEF FlowInv
<1>2. job[h] \in JobType /\ Checked(job[h]) /\ Linked(job[h])
  BY <1>1 DEF FlowInv, KeysInv
<1>3. ASSUME NEW label, label \notin {"link", "mark", "post"}, Goes(h, label), UNCHANGED <<ret, refund>>
      PROVE  KeysInv'
  <2>1. job'[h].at = label /\ \A g \in Handlers \ {h} : job'[g] = job[g]
    BY <1>1, <1>3 DEF Goes, JobType
  <2>2. Linked(job'[h])
    BY <1>3, <2>1 DEF Linked
  <2> QED
    BY <1>3, <2>1, <2>2, KeysStay
<1>4. CASE readRefunded(h) \/ readActive(h)
  BY <1>3, <1>4, KeysEnd DEF readRefunded, readActive
<1>5. CASE insertReturn(h)
  <2>1. CASE UNCHANGED ret
    BY <1>5, <2>1, KeysEnd DEF insertReturn
  <2>2. ASSUME NEW r \in Requests, ret[r].status = "none",
               ret' = [ret EXCEPT ![r] = NewReturn(job[h].amount)]
        PROVE  KeysInv'
    <3> DEFINE row == NewReturn(job[h].amount)
    <3>1. row.status = "REQUESTED" /\ ret' = [ret EXCEPT ![r] = row]
      BY <2>2 DEF NewReturn
    <3> HIDE DEF row
    <3> QED
      BY <1>5, <2>2, <3>1, KeysRow DEF insertReturn, AfterRequest
  <2> QED
    BY <1>5, <2>1, <2>2 DEF insertReturn
<1>6. CASE flip(h)
  <2>1. CASE ~FlipMatches(h)
    BY <1>6, <2>1, KeysEnd DEF flip
  <2>2. CASE FlipMatches(h)
    <3>1. PICK r \in Requests : r = job[h].ret
      BY <1>2, <1>6 DEF flip, Checked
    <3> DEFINE row == [ret[r] EXCEPT !.status = job[h].to,
                         !.category = IF job[h].category = "none" THEN @ ELSE job[h].category]
    <3>2. /\ job[h].to \in TRANSITIONS[ret[r].status] \ {"REFUND_PENDING", "REFUNDED"}
          /\ ret[r].status \in Statuses
      BY <1>2, <1>6, <2>2, <3>1 DEF flip, Checked, FlipMatches
    <3>3. /\ row.status = job[h].to /\ row.quantity = ret[r].quantity /\ row.refund = ret[r].refund
      BY <1>1 DEF RowType
    <3>4. ret' = [ret EXCEPT ![r] = row]
      BY <1>1, <1>6, <2>2, <3>1 DEF flip, RowType
    <3>5. Done(h) /\ UNCHANGED refund
      BY <1>6 DEF flip
    <3>6. row.status # "none"
      BY <3>2, <3>3, EdgeFacts, StatusesAre
    <3>7. row.status \in AfterRequest =>
            \E f \in Keyed(r) : /\ row.refund = {f}
                                /\ row.status = "REFUNDED" => refund[f].status = "SUCCEEDED"
      <4>1. SUFFICES ASSUME row.status \in AfterRequest
                     PROVE  \E f \in Keyed(r) : /\ row.refund = {f}
                                                /\ row.status = "REFUNDED" => refund[f].status = "SUCCEEDED"
        OBVIOUS
      <4>2. row.status = "REFUND_FAILED" /\ ret[r].status = "REFUND_PENDING"
        BY <3>2, <3>3, <4>1, EdgeFacts DEF AfterRequest
      <4>3. \E f \in Keyed(r) : ret[r].refund = {f}
        BY <4>2 DEF KeysInv, RefundKeyed, AfterRequest
      <4> QED
        BY <3>3, <4>2, <4>3
    <3> HIDE DEF row
    <3> QED
      BY <3>3, <3>4, <3>5, <3>6, <3>7, KeysRow
  <2> QED
    BY <2>1, <2>2
<1>7. CASE findRefund(h)
  <2>1. CASE Goes(h, "ask")
    BY <1>3, <1>7, <2>1 DEF findRefund
  <2>2. ASSUME NEW f \in Keyed(job[h].ret), job' = [job EXCEPT ![h].at = "link", ![h].refund = {f}]
        PROVE  KeysInv'
    <3>1. PICK R \in SUBSET Refunds : R = {f}
      BY <2>2 DEF Keyed
    <3>2. job' = [job EXCEPT ![h].at = "link", ![h].refund = R]
      BY <2>2, <3>1
    <3>3. /\ job'[h].at = "link" /\ job'[h].ret = job[h].ret /\ job'[h].refund = R
          /\ \A g \in Handlers \ {h} : job'[g] = job[g]
      BY <1>1, <3>2, JobLinked
    <3>4. Linked(job'[h])
      BY <2>2, <3>1, <3>3 DEF Linked
    <3> QED
      BY <1>7, <3>3, <3>4, KeysStay DEF findRefund
  <2> QED
    BY <1>7, <2>1, <2>2 DEF findRefund
<1>8. CASE askRefund(h)
  <2>1. CASE Done(h) /\ UNCHANGED refund
    BY <1>8, <2>1, KeysEnd DEF askRefund
  <2>2. ASSUME NEW f \in Refunds, insertRefund(f, ret[job[h].ret].quantity, job[h].ret),
               Keyed(job[h].ret) = {},
               job' = [job EXCEPT ![h].at = "link", ![h].refund = {f}]
        PROVE  KeysInv'
    <3>1. PICK r \in Requests : r = job[h].ret
      BY <1>2, <1>8 DEF askRefund, Checked
    <3>2. PICK R \in SUBSET Refunds : R = {f}
      OBVIOUS
    <3>3. job' = [job EXCEPT ![h].at = "link", ![h].refund = R]
      BY <2>2, <3>2
    <3>4. /\ job'[h].at = "link" /\ job'[h].ret = r /\ job'[h].refund = R
          /\ \A g \in Handlers \ {h} : job'[g] = job[g]
      BY <1>1, <3>1, <3>3, JobLinked
    <3>5. /\ refund[f].status = "none" /\ \A g \in Refunds \ {f} : refund'[g] = refund[g]
          /\ refund'[f] = [status |-> "REQUESTED", amount |-> ret[r].quantity, key |-> r]
      BY <1>1, <2>2, <3>1 DEF insertRefund
    <3>6. Keyed(r)' = {f} /\ \A q \in Requests \ {r} : Keyed(q)' = Keyed(q)
      BY <2>2, <3>1, <3>5 DEF Keyed
    <3>7. UNCHANGED ret /\ ret[r].status # "none" /\ ret[r].status \notin AfterRequest
      <4>1. ret[r].status # "none"
        BY <1>2, <1>8, <3>1 DEF askRefund, Checked
      <4>2. ret[r].status \notin AfterRequest
        BY <2>2, <3>1 DEF KeysInv, RefundKeyed
      <4> QED
        BY <1>8, <4>1, <4>2 DEF askRefund
    <3>8. ASSUME NEW q \in Requests PROVE RefundKeyed(q)'
      <4>1. CASE q = r
        BY <3>5, <3>6, <3>7, <4>1 DEF RefundKeyed
      <4>2. CASE q # r
        <5>1. RefundKeyed(q) /\ Keyed(q)' = Keyed(q) /\ f \notin Keyed(q)
          BY <3>5, <3>6, <4>2 DEF KeysInv, Keyed
        <5>2. \A g \in Keyed(q) : refund'[g] = refund[g]
          BY <3>5, <5>1 DEF Keyed
        <5> QED
          BY <3>7, <5>1, <5>2 DEF RefundKeyed
      <4> QED
        BY <4>1, <4>2
    <3>9. ASSUME NEW g \in Handlers PROVE Linked(job[g])'
      <4>1. CASE g = h
        BY <3>2, <3>4, <3>6, <4>1 DEF Linked
      <4>2. CASE g # h
        <5>1. job'[g] = job[g] /\ Linked(job[g])
          BY <3>4, <4>2 DEF KeysInv
        <5>2. \A e \in Keyed(job[g].ret) : e \in Keyed(job[g].ret)' /\ refund'[e] = refund[e]
          BY <3>5, <5>1 DEF Keyed
        <5> QED
          BY <5>1, <5>2 DEF Linked
      <4> QED
        BY <4>1, <4>2
    <3> QED
      BY <3>8, <3>9 DEF KeysInv
  <2> QED
    BY <1>8, <2>1, <2>2 DEF askRefund
<1>9. CASE linkRefund(h)
  <2>1. CASE UNCHANGED ret
    BY <1>9, <2>1, KeysEnd DEF linkRefund
  <2>2. CASE Links(h)
    <3>1. PICK r \in Requests : r = job[h].ret
      BY <1>2, <1>9 DEF linkRefund, Checked
    <3> DEFINE row == [ret[r] EXCEPT !.status = "REFUND_PENDING", !.refund = job[h].refund]
    <3>2. row.status = "REFUND_PENDING" /\ row.quantity = ret[r].quantity /\ row.refund = job[h].refund
      BY <1>1 DEF RowType
    <3>3. ret' = [ret EXCEPT ![r] = row]
      BY <1>1, <1>9, <2>2, <3>1 DEF linkRefund, RowType
    <3>4. Done(h) /\ UNCHANGED refund /\ \E f \in Keyed(r) : row.refund = {f}
      BY <1>2, <1>9, <3>1, <3>2 DEF linkRefund, Linked
    <3> HIDE DEF row
    <3> QED
      BY <3>2, <3>3, <3>4, KeysRow
  <2> QED
    BY <1>9, <2>1, <2>2 DEF linkRefund
<1>10. CASE insertSettlement(h)
  BY <1>10, KeysEnd DEF insertSettlement
<1>11. CASE markFlips(h)
  <2>1. CASE Done(h)
    BY <1>11, <2>1, KeysEnd DEF markFlips
  <2>2. CASE ~Done(h)
    <3>1. /\ job'[h].at = "post" /\ job'[h].ret = job[h].ret
          /\ \A g \in Handlers \ {h} : job'[g] = job[g]
      BY <1>11, <2>2, MarkPosts
    <3>2. Linked(job'[h])
      BY <1>2, <1>11, <3>1 DEF Linked, markFlips
    <3> QED
      BY <1>11, <3>1, <3>2, KeysStay DEF markFlips
  <2> QED
    BY <2>1, <2>2
<1>12. CASE post(h)
  <2>1. PICK r \in Requests : r = job[h].ret
    BY <1>2, <1>12 DEF post, Checked
  <2> DEFINE row == [ret[r] EXCEPT !.status = "REFUNDED", !.reversal = @ + job[h].reversal]
  <2>2. row.status = "REFUNDED" /\ row.quantity = ret[r].quantity /\ row.refund = ret[r].refund
    BY <1>1 DEF RowType
  <2>3. ret' = [ret EXCEPT ![r] = row]
    BY <1>1, <1>12, <2>1 DEF post, RowType
  <2>4. ret[r].status = "REFUND_PENDING" /\ \E f \in Keyed(r) : refund[f].status = "SUCCEEDED"
    BY <1>2, <1>12, <2>1 DEF post, Checked, Linked
  <2>5. \E f \in Keyed(r) : row.refund = {f} /\ refund[f].status = "SUCCEEDED"
    BY <2>2, <2>4 DEF KeysInv, RefundKeyed, AfterRequest
  <2> HIDE DEF row
  <2> QED
    BY <1>12, <2>2, <2>3, <2>5, KeysRow DEF post
<1>13. CASE Abort(h)
  BY <1>13, KeysEnd DEF Abort
<1> QED
  BY <1>4, <1>5, <1>6, <1>7, <1>8, <1>9, <1>10, <1>11, <1>12, <1>13 DEF Continue

LEMMA StepKeys ==
  ASSUME FlowInv, KeysInv, [Next]_vars
  PROVE  KeysInv'
<1>1. refund \in [Refunds -> RefundType]
  BY TypesAre DEF FlowInv
<1>2. CASE requestRefund
  <2>1. PICK f \in Refunds, amount \in 0 .. Ordered, key \in BuyerKeys \cup {NoReturn} :
          /\ insertRefund(f, amount, key)
          /\ key # NoReturn => ret[key].status # "none" /\ Keyed(key) = {}
    BY <1>2, ReturnAssumption DEF requestRefund
  <2>2. /\ refund[f].status = "none" /\ \A g \in Refunds \ {f} : refund'[g] = refund[g]
        /\ refund'[f] = [status |-> "REQUESTED", amount |-> amount, key |-> key]
        /\ UNCHANGED <<ret, job>>
    BY <1>1, <1>2, <2>1 DEF insertRefund, requestRefund
  <2>3. ASSUME NEW q \in Requests PROVE RefundKeyed(q)'
    <3>1. CASE q = key
      <4>1. q \in BuyerKeys /\ ret[q].status # "none" /\ Keyed(q) = {} /\ RefundKeyed(q)
        BY <2>1, <3>1, ReturnAssumption DEF KeysInv
      <4>2. Keyed(q)' = {f}
        BY <2>2, <3>1, <4>1 DEF Keyed
      <4>3. ret[q].status \notin AfterRequest
        BY <4>1 DEF RefundKeyed
      <4> QED
        BY <2>2, <4>1, <4>2, <4>3 DEF RefundKeyed
    <3>2. CASE q # key
      <4>1. RefundKeyed(q) /\ Keyed(q)' = Keyed(q) /\ f \notin Keyed(q)
        BY <2>2, <3>2 DEF KeysInv, Keyed
      <4>2. \A g \in Keyed(q) : refund'[g] = refund[g]
        BY <2>2, <4>1 DEF Keyed
      <4> QED
        BY <2>2, <4>1, <4>2 DEF RefundKeyed
    <3> QED
      BY <3>1, <3>2
  <2>4. ASSUME NEW g \in Handlers PROVE Linked(job[g])'
    <3>1. \A e \in Keyed(job[g].ret) : e \in Keyed(job[g].ret)' /\ refund'[e] = refund[e]
      BY <2>2 DEF Keyed
    <3> QED
      BY <2>2, <3>1 DEF Linked, KeysInv
  <2> QED
    BY <2>3, <2>4 DEF KeysInv
<1>3. ASSUME NEW f \in Refunds, approveRefund(f) PROVE KeysInv'
  <2>1. /\ \A g \in Refunds : refund'[g].amount = refund[g].amount /\ refund'[g].key = refund[g].key
        /\ \A g \in Refunds : refund'[g].status = IF g = f THEN "SUCCEEDED" ELSE refund[g].status
        /\ refund[f].status = "REQUESTED"
    BY <1>1, <1>3 DEF approveRefund, RefundType
  <2>2. UNCHANGED <<ret, job>>
    BY <1>3 DEF approveRefund
  <2>3. \A q : Keyed(q)' = Keyed(q)
    BY <2>1 DEF Keyed
  <2>4. \A q : \A g \in Keyed(q) : g \in Refunds
    BY DEF Keyed
  <2>5. ASSUME NEW q \in Requests PROVE RefundKeyed(q)'
    BY <2>1, <2>2, <2>3, <2>4 DEF RefundKeyed, KeysInv
  <2>6. ASSUME NEW g \in Handlers PROVE Linked(job[g])'
    BY <2>1, <2>2, <2>3, <2>4 DEF Linked, KeysInv
  <2> QED
    BY <2>5, <2>6 DEF KeysInv
<1>4. ASSUME NEW s \in Settlements, markSettlementPaid(s) PROVE KeysInv'
  BY <1>4 DEF markSettlementPaid, KeysInv, RefundKeyed, Linked, Keyed
<1>5. CASE UNCHANGED vars
  BY <1>5 DEF vars, KeysInv, RefundKeyed, Linked, Keyed
<1> QED
  BY <1>2, <1>3, <1>4, <1>5, RequestKeys, ContinueKeys DEF Next

\* The inductive invariant of the refunds.
THEOREM ReturnKeys == Spec => []KeysInv
<1>1. Init => KeysInv
  BY NoJobLinked DEF Init, KeysInv, RefundKeyed, Keyed, NoReturnRow, AfterRequest
<1>2. FlowInv /\ KeysInv /\ [Next]_vars => KeysInv'
  BY StepKeys
<1> QED
  BY <1>1, <1>2, ReturnFlow, PTL DEF Spec

(* A return that is refunded was paid by the one refund of its key, whatever     *)
(* crashed or raced between the refund's transaction and the one that links it   *)
(* (createRefundRequest, markRefunded); and by the quantity it asked for, unless *)
(* a buyer may have used its key.                                                *)
THEOREM ReturnsAreRefundedOnce == Spec => []RefundedOnce
<1>1. KeysInv => RefundedOnce
  BY DEF KeysInv, RefundKeyed, RefundedOnce, AfterRequest
<1> QED
  BY <1>1, ReturnKeys, PTL

----------------------------------------------------------------------------
\* The commission.  The reversal a return will post was worked out from the ledger as it still
\* is: no other return is being posted, because no other return is active.

LedgerInv ==
  /\ ReversalsCapped
  /\ CreditedWithinLedger
  /\ \A s \in Settlements : settlement[s].status = "none" => settlement[s].reversal = 0
  /\ \A h \in Handlers : job[h].at = "post" =>
       /\ Reversed + job[h].reversal <= Commission
       /\ job[h].reversal > 0 => ret[job[h].ret].category = "MERCHANT"
  /\ \A h \in Handlers : \A s \in job[h].row : settlement[s].status # "none"

\* The request that posts a return is the only one.
LEMMA OnlyPost ==
  ASSUME FlowInv, NEW h \in Handlers, job[h].at = "post", NEW g \in Handlers, job[g].at = "post"
  PROVE  g = h
<1>1. \A k \in {g, h} : job[k].ret \in Requests /\ ret[job[k].ret].status = "REFUND_PENDING"
  BY DEF FlowInv, Checked
<1>2. \A k \in {g, h} : Active(job[k].ret)
  BY <1>1 DEF Active, TERMINAL_STATES
<1>3. job[g].ret = job[h].ret
  BY <1>1, <1>2 DEF FlowInv, OneActive
<1> QED
  BY <1>3 DEF FlowInv, OnePost

LEMMA SameSums ==
  ASSUME \A r \in Requests : ret'[r].reversal = ret[r].reversal,
         \A s \in Settlements : settlement'[s].reversal = settlement[s].reversal
  PROVE  Reversed' = Reversed /\ Credited' = Credited
BY DEF Reversed, Credited

\* A step that adds nothing to the ledger or the settlements.
LEMMA LedgerStays ==
  ASSUME FlowInv, LedgerInv,
         \A r \in Requests : /\ ret'[r].reversal = ret[r].reversal
                             /\ ret[r].reversal > 0 => ret'[r] = ret[r],
         \A s \in Settlements :
           /\ settlement'[s].reversal = settlement[s].reversal
           /\ settlement'[s].status = "none" => settlement[s].status = "none",
         \A h \in Handlers : job'[h].at = "post" =>
           \/ job'[h] = job[h] /\ ret'[job[h].ret] = ret[job[h].ret]
           \/ /\ Reversed + job'[h].reversal <= Commission
              /\ job'[h].reversal > 0 => ret'[job'[h].ret].category = "MERCHANT",
         \A h \in Handlers : \A s \in job'[h].row :
           s \in job[h].row \/ (s \in Settlements /\ settlement[s].status # "none")
  PROVE  LedgerInv'
<1>1. Reversed' = Reversed /\ Credited' = Credited
  BY SameSums
<1>2. ReversalsCapped'
  BY <1>1 DEF LedgerInv, ReversalsCapped
<1>3. CreditedWithinLedger'
  BY <1>1 DEF LedgerInv, CreditedWithinLedger
<1>4. \A s \in Settlements : settlement'[s].status = "none" => settlement'[s].reversal = 0
  BY DEF LedgerInv
<1>5. ASSUME NEW h \in Handlers, job'[h].at = "post"
      PROVE  /\ Reversed' + job'[h].reversal <= Commission
             /\ job'[h].reversal > 0 => ret'[job'[h].ret].category = "MERCHANT"
  BY <1>1, <1>5 DEF LedgerInv
<1>6. ASSUME NEW h \in Handlers, NEW s \in job'[h].row PROVE settlement'[s].status # "none"
  <2>1. job[h].row \subseteq Settlements
    BY TypesAre DEF FlowInv, JobType
  <2> QED
    BY <1>6, <2>1 DEF LedgerInv
<1> QED
  BY <1>2, <1>3, <1>4, <1>5, <1>6 DEF LedgerInv

LEMMA LedgerJob ==
  ASSUME FlowInv, LedgerInv, NEW h \in Handlers, \A g \in Handlers \ {h} : job'[g] = job[g],
         job'[h].at # "post", job'[h].row \subseteq job[h].row, UNCHANGED <<ret, settlement>>
  PROVE  LedgerInv'
<1>1. \A g \in Handlers : job'[g].at = "post" => job'[g] = job[g]
  OBVIOUS
<1> QED
  BY <1>1, LedgerStays

LEMMA LedgerEnds ==
  ASSUME FlowInv, LedgerInv, NEW h \in Handlers, Done(h), UNCHANGED <<ret, settlement>>
  PROVE  LedgerInv'
<1>1. job'[h] = NoJob /\ \A g \in Handlers \ {h} : job'[g] = job[g]
  BY TypesAre DEF FlowInv, Done
<1> QED
  BY <1>1, NoJobFacts, LedgerJob DEF NoJob

\* A step that moves one return, which nothing is reversed for.
LEMMA LedgerRow ==
  ASSUME FlowInv, LedgerInv, NEW h \in Handlers, NEW r \in Requests, NEW row,
         ret' = [ret EXCEPT ![r] = row], Done(h), UNCHANGED settlement,
         ret[r].status # "REFUNDED", row.reversal = 0 \/ row.reversal = ret[r].reversal,
         ReturnFree(r)
  PROVE  LedgerInv'
<1>1. /\ ret \in [Requests -> RowType]
      /\ job'[h] = NoJob /\ \A g \in Handlers \ {h} : job'[g] = job[g]
  BY TypesAre DEF FlowInv, Done
<1>2. ret'[r] = row /\ \A q \in Requests \ {r} : ret'[q] = ret[q]
  BY <1>1
<1>3. ret[r].reversal = 0
  BY <1>1 DEF LedgerInv, ReversalsCapped, RowType
<1>4. \A q \in Requests : /\ ret'[q].reversal = ret[q].reversal
                          /\ ret[q].reversal > 0 => ret'[q] = ret[q]
  BY <1>2, <1>3
<1>5. \A g \in Handlers : job'[g].at = "post" =>
        job'[g] = job[g] /\ ret'[job[g].ret] = ret[job[g].ret]
  BY <1>1, <1>2, NoJobFacts DEF ReturnFree, FlowInv, Checked
<1>6. \A g \in Handlers : job'[g].row \subseteq job[g].row
  BY <1>1 DEF NoJob
<1> QED
  BY <1>4, <1>5, <1>6, LedgerStays

\* Posting what is due keeps the ledger within the commission and the credits within it.
LEMMA PostKeepsLedger ==
  ASSUME FlowInv, LedgerInv, NEW h \in Handlers, post(h)
  PROVE  LedgerInv'
<1>1. /\ ret \in [Requests -> RowType] /\ settlement \in [Settlements -> SettlementType]
      /\ job \in [Handlers -> JobType]
  BY TypesAre DEF FlowInv
<1>2. PICK r \in Requests : r = job[h].ret
  BY DEF post, FlowInv, Checked
<1>3. PICK n \in Nat : n = job[h].reversal
  BY <1>1 DEF JobType
<1>4. ret[r].status = "REFUND_PENDING" /\ Reversed + n <= Commission
      /\ (n > 0 => ret[r].category = "MERCHANT")
  BY <1>2, <1>3 DEF post, FlowInv, Checked, LedgerInv
<1>5. /\ \A q \in Requests \ {r} : ret'[q] = ret[q]
      /\ ret'[r].status = "REFUNDED" /\ ret'[r].reversal = ret[r].reversal + n
      /\ ret'[r].category = ret[r].category
  BY <1>1, <1>2, <1>3 DEF post, RowType
<1>6. ret[r].reversal = 0
  BY <1>1, <1>4 DEF LedgerInv, ReversalsCapped, RowType
<1>7. IsFiniteSet(Requests) /\ IsFiniteSet(Settlements) /\ Ordered * Commission \in Nat
      /\ Commission <= Ordered * Commission /\ Commission \in Nat
  BY ReturnAssumption, Bounds
<1>8. Reversed \in Nat /\ Reversed' \in Nat /\ Credited \in Nat /\ Credited' \in Nat
  BY SumsAreNatural
<1>9. n <= Ordered * Commission
  <2>1. PICK m \in Nat : m = Ordered * Commission
    BY <1>7
  <2> QED
    BY <1>4, <1>7, <1>8, <2>1
<1>10. Reversed' = Reversed + n
  <2>1. PICK a \in [Requests -> Nat], b \in [Requests -> Nat] : a = Reversals /\ b = Reversals'
    <3>1. Reversals \in [Requests -> Nat]
      BY <1>1 DEF Reversals, RowType
    <3>2. Reversals' \in [Requests -> Nat]
      BY <1>1, <1>5, <1>6 DEF Reversals, RowType
    <3> QED
      BY <3>1, <3>2
  <2>2. a[r] = 0 /\ b[r] = a[r] + n /\ \A q \in Requests \ {r} : b[q] = a[q]
    BY <1>5, <1>6, <2>1 DEF Reversals
  <2>3. Cardinality(Units(Requests, Ordered * Commission, b))
          = Cardinality(Units(Requests, Ordered * Commission, a)) + n
    BY <1>7, <1>9, <2>2, UnitsGrow
  <2> QED
    BY <2>1, <2>3, SumsAre
<1>11. Credited' <= Credited + n /\ \A s \in Settlements :
         settlement'[s].status = "none" => settlement'[s].reversal = 0
  <2>1. CASE UNCHANGED settlement
    <3>1. Credited' = Credited
      BY <2>1 DEF Credited
    <3> QED
      BY <1>8, <2>1, <3>1 DEF LedgerInv
  <2>2. ASSUME NEW s \in Settlements, \A t \in Settlements \ {s} : settlement'[t] = settlement[t],
               settlement'[s].reversal = settlement[s].reversal + n,
               settlement'[s].status = "none" => settlement[s].status = "none" /\ n = 0
        PROVE  Credited' <= Credited + n /\ \A t \in Settlements :
                 settlement'[t].status = "none" => settlement'[t].reversal = 0
    <3>1. PICK a \in [Settlements -> Nat], b \in [Settlements -> Nat] : a = Credits /\ b = Credits'
      <4>1. Credits \in [Settlements -> Nat]
        BY <1>1 DEF Credits, SettlementType
      <4>2. Credits' \in [Settlements -> Nat]
        BY <1>1, <2>2 DEF Credits, SettlementType
      <4> QED
        BY <4>1, <4>2
    <3>2. b[s] = a[s] + n /\ \A t \in Settlements \ {s} : b[t] = a[t]
      BY <2>2, <3>1 DEF Credits
    <3>3. Cardinality(Units(Settlements, Ordered * Commission, b))
            <= Cardinality(Units(Settlements, Ordered * Commission, a)) + n
      BY <1>7, <3>2, UnitsGrow
    <3> QED
      BY <2>2, <3>1, <3>3, SumsAre DEF LedgerInv
  <2>3. ASSUME job[h].open, NEW s \in job[h].row,
               settlement' = [settlement EXCEPT ![s].refund = @ + job[h].amount, ![s].reversal = @ + job[h].reversal]
        PROVE  /\ s \in Settlements /\ \A t \in Settlements \ {s} : settlement'[t] = settlement[t]
               /\ settlement'[s].reversal = settlement[s].reversal + n
               /\ settlement'[s].status # "none"
    <3>1. s \in Settlements
      BY <1>1 DEF JobType
    <3>2. settlement[s].status # "none"
      BY DEF LedgerInv
    <3> QED
      BY <1>1, <1>3, <2>3, <3>1, <3>2 DEF SettlementType
  <2>4. ASSUME NEW s \in Settlements, insertRow(s, "ADJUSTMENT", job[h].amount, job[h].reversal)
        PROVE  /\ \A t \in Settlements \ {s} : settlement'[t] = settlement[t]
               /\ settlement'[s].reversal = settlement[s].reversal + n
               /\ settlement'[s].status = "ADJUSTMENT"
    BY <1>1, <1>3, <2>4 DEF insertRow, LedgerInv
  <2> QED
    BY <2>1, <2>2, <2>3, <2>4 DEF post, adjustSettlement
<1>12. ReversalsCapped'
  <2>1. \A q \in Requests : ret'[q].reversal > 0 => ret'[q].status = "REFUNDED" /\ ret'[q].category = "MERCHANT"
    BY <1>4, <1>5, <1>6 DEF LedgerInv, ReversalsCapped
  <2> QED
    BY <1>4, <1>10, <2>1 DEF ReversalsCapped
<1>13. CreditedWithinLedger'
  BY <1>8, <1>10, <1>11 DEF LedgerInv, CreditedWithinLedger
<1>14. job'[h] = NoJob /\ \A g \in Handlers \ {h} : job'[g] = job[g]
  BY <1>1 DEF post, Done
<1>15. \A g \in Handlers : job'[g].at # "post"
  BY <1>14, NoJobFacts, OnlyPost DEF post
<1>16. ASSUME NEW g \in Handlers, NEW s \in job'[g].row PROVE settlement'[s].status # "none"
  <2>1. s \in job[g].row /\ s \in Settlements /\ settlement[s].status # "none"
    BY <1>1, <1>14, <1>16 DEF NoJob, LedgerInv, JobType
  <2>2. CASE UNCHANGED settlement
    BY <2>1, <2>2
  <2>3. ASSUME NEW t \in job[h].row,
               settlement' = [settlement EXCEPT ![t].refund = @ + job[h].amount, ![t].reversal = @ + job[h].reversal]
        PROVE  settlement'[s].status # "none"
    <3>1. t \in Settlements
      BY <1>1 DEF JobType
    <3> QED
      BY <1>1, <2>1, <2>3, <3>1 DEF SettlementType
  <2>4. ASSUME NEW t \in Settlements, insertRow(t, "ADJUSTMENT", job[h].amount, job[h].reversal)
        PROVE  settlement'[s].status # "none"
    BY <1>1, <2>1, <2>4 DEF insertRow
  <2> QED
    BY <2>2, <2>3, <2>4 DEF post, adjustSettlement
<1> QED
  BY <1>11, <1>12, <1>13, <1>15, <1>16 DEF LedgerInv

LEMMA RequestLedger ==
  ASSUME FlowInv, LedgerInv, NEW h \in Handlers, Request(h)
  PROVE  LedgerInv'
<1>1. /\ job \in [Handlers -> JobType] /\ UNCHANGED <<ret, settlement>>
      /\ \A g \in Handlers \ {h} : job'[g] = job[g]
  BY TypesAre DEF FlowInv, Request, createReturnRequest, calculateSettlement, transitionReturn,
       resolveEscalation, createRefundRequest, markRefunded, Begin
<1>2. ASSUME NEW r \in Requests, NEW label, NEW to, NEW category, Begin(h, r, label, to, category)
      PROVE  job'[h].at = label /\ job'[h].row = {}
  BY <1>1, <1>2 DEF Begin, NoJob
<1>3. CASE createReturnRequest(h)
  <2>1. job'[h].at = "money" /\ job'[h].row = {}
    BY <1>1, <1>3 DEF createReturnRequest, NoJob
  <2> QED
    BY <1>1, <2>1, LedgerJob
<1>4. CASE calculateSettlement(h)
  <2>1. job'[h].at = "settle" /\ job'[h].row = {}
    BY <1>1, <1>4 DEF calculateSettlement, NoJob
  <2> QED
    BY <1>1, <2>1, LedgerJob
<1>5. ASSUME NEW r \in Requests, transitionReturn(h, r) \/ resolveEscalation(h, r) PROVE LedgerInv'
  <2>1. job'[h].at = "flip" /\ job'[h].row = {}
    BY <1>2, <1>5 DEF transitionReturn, resolveEscalation
  <2> QED
    BY <1>1, <2>1, LedgerJob
<1>6. ASSUME NEW r \in Requests, createRefundRequest(h, r) PROVE LedgerInv'
  <2>1. job'[h].at = "lookup" /\ job'[h].row = {}
    BY <1>2, <1>6 DEF createRefundRequest
  <2> QED
    BY <1>1, <2>1, LedgerJob
<1>7. ASSUME NEW r \in Requests, markRefunded(h, r) PROVE LedgerInv'
  <2>1. job'[h].at = "mark" /\ job'[h].row = {}
    BY <1>1, <1>7 DEF markRefunded, NoJob
  <2> QED
    BY <1>1, <2>1, LedgerJob
<1> QED
  BY <1>3, <1>4, <1>5, <1>6, <1>7 DEF Request

LEMMA ContinueLedger ==
  ASSUME FlowInv, LedgerInv, NEW h \in Handlers, Continue(h)
  PROVE  LedgerInv'
<1>1. /\ job \in [Handlers -> JobType] /\ ret \in [Requests -> RowType]
      /\ settlement \in [Settlements -> SettlementType]
  BY TypesAre DEF FlowInv
<1>2. job[h] \in JobType /\ Checked(job[h])
  BY <1>1 DEF FlowInv
<1>3. ASSUME NEW label, label # "post", Goes(h, label), UNCHANGED <<ret, settlement>>
      PROVE  LedgerInv'
  <2>1. job'[h].at = label /\ job'[h].row = job[h].row /\ \A g \in Handlers \ {h} : job'[g] = job[g]
    BY <1>1, <1>3 DEF Goes, JobType
  <2> QED
    BY <1>3, <2>1, LedgerJob
<1>4. CASE readRefunded(h) \/ readActive(h)
  BY <1>3, <1>4, LedgerEnds DEF readRefunded, readActive
<1>5. CASE insertReturn(h)
  <2>1. CASE UNCHANGED ret
    BY <1>5, <2>1, LedgerEnds DEF insertReturn
  <2>2. ASSUME NEW r \in Requests, ret[r].status = "none",
               ret' = [ret EXCEPT ![r] = NewReturn(job[h].amount)]
        PROVE  LedgerInv'
    <3> DEFINE row == NewReturn(job[h].amount)
    <3>1. row.reversal = 0 /\ ret' = [ret EXCEPT ![r] = row] /\ ReturnFree(r)
      BY <1>5, <2>2 DEF NewReturn, insertReturn
    <3> HIDE DEF row
    <3> QED
      BY <1>5, <2>2, <3>1, LedgerRow DEF insertReturn
  <2> QED
    BY <1>5, <2>1, <2>2 DEF insertReturn
<1>6. CASE flip(h)
  <2>1. CASE ~FlipMatches(h)
    BY <1>6, <2>1, LedgerEnds DEF flip
  <2>2. CASE FlipMatches(h)
    <3>1. PICK r \in Requests : r = job[h].ret
      BY <1>2, <1>6 DEF flip, Checked
    <3> DEFINE row == [ret[r] EXCEPT !.status = job[h].to,
                         !.category = IF job[h].category = "none" THEN @ ELSE job[h].category]
    <3>2. ret[r].status # "REFUNDED"
      BY <1>2, <1>6, <2>2, <3>1, StatusesAre, EdgeFacts DEF flip, Checked, FlipMatches, TERMINAL_STATES
    <3>3. row.reversal = ret[r].reversal
      BY <1>1 DEF RowType
    <3>4. ret' = [ret EXCEPT ![r] = row]
      BY <1>1, <1>6, <2>2, <3>1 DEF flip, RowType
    <3>5. Done(h) /\ UNCHANGED settlement /\ ReturnFree(r)
      BY <1>6, <3>1 DEF flip
    <3> HIDE DEF row
    <3> QED
      BY <3>2, <3>3, <3>4, <3>5, LedgerRow
  <2> QED
    BY <2>1, <2>2
<1>7. CASE findRefund(h) \/ askRefund(h)
  <2>1. CASE Goes(h, "ask")
    BY <1>3, <1>7, <2>1 DEF findRefund, askRefund
  <2>2. CASE Done(h)
    BY <1>7, <2>2, LedgerEnds DEF findRefund, askRefund
  <2>3. ASSUME NEW f \in Refunds, job' = [job EXCEPT ![h].at = "link", ![h].refund = {f}]
        PROVE  LedgerInv'
    <3>1. PICK R \in SUBSET Refunds : R = {f}
      OBVIOUS
    <3>2. job' = [job EXCEPT ![h].at = "link", ![h].refund = R]
      BY <2>3, <3>1
    <3>3. /\ job'[h].at = "link" /\ job'[h].row = job[h].row
          /\ \A g \in Handlers \ {h} : job'[g] = job[g]
      BY <1>1, <3>2, JobLinked
    <3> QED
      BY <1>7, <3>3, LedgerJob DEF findRefund, askRefund
  <2> QED
    BY <1>7, <2>1, <2>2, <2>3 DEF findRefund, askRefund, Keyed
<1>8. CASE linkRefund(h)
  <2>1. CASE UNCHANGED ret
    BY <1>8, <2>1, LedgerEnds DEF linkRefund
  <2>2. CASE Links(h)
    <3>1. PICK r \in Requests : r = job[h].ret
      BY <1>2, <1>8 DEF linkRefund, Checked
    <3> DEFINE row == [ret[r] EXCEPT !.status = "REFUND_PENDING", !.refund = job[h].refund]
    <3>2. ret[r].status # "REFUNDED"
      BY <1>2, <1>8, <2>2, <3>1 DEF linkRefund, Checked, Links, FlipMatches
    <3>3. row.reversal = ret[r].reversal
      BY <1>1 DEF RowType
    <3>4. ret' = [ret EXCEPT ![r] = row]
      BY <1>1, <1>8, <2>2, <3>1 DEF linkRefund, RowType
    <3>5. Done(h) /\ UNCHANGED settlement /\ ReturnFree(r)
      BY <1>8, <3>1 DEF linkRefund
    <3> HIDE DEF row
    <3> QED
      BY <3>2, <3>3, <3>4, <3>5, LedgerRow
  <2> QED
    BY <1>8, <2>1, <2>2 DEF linkRefund
<1>9. CASE insertSettlement(h)
  <2>1. CASE UNCHANGED settlement
    BY <1>9, <2>1, LedgerEnds DEF insertSettlement
  <2>2. ASSUME NEW s \in Settlements, insertRow(s, "CALCULATED", job[h].amount, 0)
        PROVE  LedgerInv'
    <3>1. /\ settlement[s].status = "none" /\ settlement[s].reversal = 0
          /\ settlement'[s].reversal = 0 /\ settlement'[s].status = "CALCULATED"
          /\ \A t \in Settlements \ {s} : settlement'[t] = settlement[t]
      BY <1>1, <2>2 DEF insertRow, LedgerInv
    <3>2. job'[h] = NoJob /\ \A g \in Handlers \ {h} : job'[g] = job[g]
      BY <1>1, <1>9 DEF insertSettlement, Done
    <3>3. \A t \in Settlements :
            /\ settlement'[t].reversal = settlement[t].reversal
            /\ settlement'[t].status = "none" => settlement[t].status = "none"
      BY <3>1
    <3>4. /\ \A g \in Handlers : job'[g].at = "post" => job'[g] = job[g]
          /\ \A g \in Handlers : job'[g].row \subseteq job[g].row
      BY <3>2, NoJobFacts DEF NoJob
    <3> QED
      BY <1>9, <3>3, <3>4, LedgerStays DEF insertSettlement
  <2> QED
    BY <1>9, <2>1, <2>2 DEF insertSettlement
<1>10. CASE markFlips(h)
  <2>1. CASE Done(h)
    BY <1>10, <2>1, LedgerEnds DEF markFlips
  <2>2. CASE ~Done(h)
    <3>1. PICK r \in Requests : r = job[h].ret
      BY <1>2, <1>10 DEF markFlips, Checked
    <3>2. /\ job'[h].at = "post" /\ job'[h].ret = r /\ job'[h].reversal = Due(r)
          /\ \A g \in Handlers \ {h} : job'[g] = job[g]
          /\ \A s \in job'[h].row : s \in job[h].row \/ (s \in Settlements /\ settlement[s].status # "none")
      BY <1>10, <2>2, <3>1, MarkPosts
    <3>3. /\ Reversed + Due(r) <= Commission
          /\ Due(r) > 0 => ret[r].category = "MERCHANT"
      <4>1. Reversed <= Commission /\ Reversed \in Nat /\ Commission \in Nat /\ ret[r].quantity \in Nat
        BY <1>1, SumsAreNatural, ReturnAssumption DEF LedgerInv, ReversalsCapped, RowType
      <4>2. PICK left \in Nat : left = Commission - Reversed
        BY <4>1
      <4>3. PICK due \in Nat : due = (IF left > 0 THEN Reversal(ret[r].quantity, left) ELSE 0) /\ due <= left
        BY <4>1, <4>2, DueIsNatural
      <4>4. Due(r) = IF ret[r].category = "MERCHANT" THEN due ELSE 0
        BY <4>2, <4>3 DEF Due, Left
      <4> QED
        BY <4>1, <4>2, <4>3, <4>4
    <3>4. UNCHANGED <<ret, settlement>>
      BY <1>10 DEF markFlips
    <3>5. \A g \in Handlers : job'[g].at = "post" =>
            \/ job'[g] = job[g] /\ ret'[job[g].ret] = ret[job[g].ret]
            \/ /\ Reversed + job'[g].reversal <= Commission
               /\ job'[g].reversal > 0 => ret'[job'[g].ret].category = "MERCHANT"
      BY <3>2, <3>3, <3>4
    <3> QED
      BY <3>2, <3>4, <3>5, LedgerStays
  <2> QED
    BY <2>1, <2>2
<1>11. CASE post(h)
  BY <1>11, PostKeepsLedger
<1>12. CASE Abort(h)
  BY <1>12, LedgerEnds DEF Abort
<1> QED
  BY <1>4, <1>5, <1>6, <1>7, <1>8, <1>9, <1>10, <1>11, <1>12 DEF Continue

LEMMA StepLedger ==
  ASSUME FlowInv, LedgerInv, [Next]_vars
  PROVE  LedgerInv'
<1>1. settlement \in [Settlements -> SettlementType]
  BY TypesAre DEF FlowInv
<1>2. CASE requestRefund \/ (\E f \in Refunds : approveRefund(f)) \/ UNCHANGED vars
  <2>1. UNCHANGED <<ret, settlement, job>>
    BY <1>2 DEF requestRefund, approveRefund, vars
  <2> QED
    BY <2>1, LedgerStays
<1>3. ASSUME NEW s \in Settlements, markSettlementPaid(s) PROVE LedgerInv'
  <2>1. /\ UNCHANGED <<ret, job>>
        /\ \A t \in Settlements : settlement'[t].reversal = settlement[t].reversal
        /\ \A t \in Settlements : settlement'[t].status = "none" => settlement[t].status = "none"
    BY <1>1, <1>3 DEF markSettlementPaid, SettlementType
  <2> QED
    BY <2>1, LedgerStays
<1> QED
  BY <1>2, <1>3, RequestLedger, ContinueLedger DEF Next

LEMMA InitLedger == Init => LedgerInv
<1> SUFFICES ASSUME Init PROVE LedgerInv
  OBVIOUS
<1>1. /\ \A r \in Requests : ret[r].reversal = 0
      /\ \A s \in Settlements : settlement[s].reversal = 0
      /\ \A h \in Handlers : job[h].at = "idle" /\ job[h].row = {}
  BY DEF Init, NoReturnRow, NoJob
<1>2. Reversed = 0 /\ Credited = 0
  <2>1. \A r \in Requests : Reversals[r] = 0
    BY <1>1 DEF Reversals
  <2>2. \A s \in Settlements : Credits[s] = 0
    BY <1>1 DEF Credits
  <2> QED
    BY <2>1, <2>2, Bounds, SumsAre, UnitsOfNothing
<1> QED
  BY <1>1, <1>2, ReturnAssumption DEF LedgerInv, ReversalsCapped, CreditedWithinLedger

\* The inductive invariant of the ledger.
THEOREM ReturnLedger == Spec => []LedgerInv
<1>1. FlowInv /\ LedgerInv /\ [Next]_vars => LedgerInv'
  BY StepLedger
<1> QED
  BY <1>1, InitLedger, ReturnFlow, PTL DEF Spec

(* The commission of an order is reversed once, for its refunded returns, though *)
(* every return works out what is left of it (processCommissionReversal).        *)
THEOREM ReturnReversalsCapped == Spec => []ReversalsCapped
<1>1. LedgerInv => ReversalsCapped
  BY DEF LedgerInv
<1> QED
  BY <1>1, ReturnLedger, PTL

(* The settlements credit no commission that the ledger did not reverse, though  *)
(* a row may have been paid since it was read (adjustSettlement).                *)
THEOREM ReturnsCreditWithinLedger == Spec => []CreditedWithinLedger
<1>1. LedgerInv => CreditedWithinLedger
  BY DEF LedgerInv
<1> QED
  BY <1>1, ReturnLedger, PTL

----------------------------------------------------------------------------
\* The money.  Refunds that are asked for or paid fit in the order, and the units of a refunded
\* return are those of its refund.

MoneyInv == Total({"SUCCEEDED", "REQUESTED"}) <= Ordered

LEMMA InsertFits ==
  ASSUME FlowInv, NEW f \in Refunds, NEW amount \in Nat, NEW key, insertRefund(f, amount, key), Fits(amount)
  PROVE  MoneyInv'
<1> DEFINE both == {"SUCCEEDED", "REQUESTED"}
<1>1. refund \in [Refunds -> RefundType] /\ IsFiniteSet(Refunds) /\ Ordered \in Nat
  BY TypesAre, ReturnAssumption DEF FlowInv
<1>2. PICK a \in [Refunds -> Nat], b \in [Refunds -> Nat] : a = Asked(both) /\ b = Asked(both)'
  <2>1. Asked(both) \in [Refunds -> Nat]
    BY <1>1 DEF Asked, RefundType
  <2>2. Asked(both)' \in [Refunds -> Nat]
    BY <1>1 DEF Asked, RefundType, insertRefund
  <2> QED
    BY <2>1, <2>2
<1>3. b[f] = a[f] + amount /\ \A g \in Refunds \ {f} : b[g] = a[g]
  BY <1>1, <1>2 DEF Asked, insertRefund
<1>4. Cardinality(Units(Refunds, Ordered, b)) <= Cardinality(Units(Refunds, Ordered, a)) + amount
  BY <1>1, <1>3, UnitsGrow
<1>5. /\ Total(both) = Cardinality(Units(Refunds, Ordered, a))
      /\ Total(both)' = Cardinality(Units(Refunds, Ordered, b))
  BY <1>2, TotalIs DEF Total
<1>6. Total(both) \in Nat /\ Total(both)' \in Nat /\ amount + Total(both) <= Ordered
  BY SumsAreNatural DEF Fits
<1> HIDE DEF both
<1>7. Total(both)' <= Ordered
  BY <1>1, <1>4, <1>5, <1>6
<1> QED
  BY <1>7 DEF MoneyInv, both

LEMMA StepMoney ==
  ASSUME FlowInv, MoneyInv, [Next]_vars
  PROVE  MoneyInv'
<1>1. refund \in [Refunds -> RefundType] /\ ret \in [Requests -> RowType]
  BY TypesAre DEF FlowInv
<1>2. CASE UNCHANGED refund
  BY <1>2 DEF MoneyInv, Total, UnitsRefunded
<1>3. CASE requestRefund
  <2>1. PICK f \in Refunds, amount \in Nat, key \in BuyerKeys \cup {NoReturn} :
          insertRefund(f, amount, key) /\ Fits(amount)
    BY <1>3, ReturnAssumption DEF requestRefund
  <2> QED
    BY <2>1, InsertFits
<1>4. ASSUME NEW f \in Refunds, approveRefund(f) PROVE MoneyInv'
  <2>1. UnitsRefunded({"SUCCEEDED", "REQUESTED"})' = UnitsRefunded({"SUCCEEDED", "REQUESTED"})
    <3>1. \A g \in Refunds :
            /\ refund'[g].amount = refund[g].amount
            /\ refund'[g].status \in {"SUCCEEDED", "REQUESTED"} <=> refund[g].status \in {"SUCCEEDED", "REQUESTED"}
      BY <1>1, <1>4 DEF approveRefund, RefundType
    <3> QED
      BY <3>1 DEF UnitsRefunded
  <2> QED
    BY <2>1 DEF MoneyInv, Total
<1>5. ASSUME NEW h \in Handlers, askRefund(h), ~UNCHANGED refund PROVE MoneyInv'
  <2>1. job[h].ret \in Requests
    BY <1>5 DEF FlowInv, Checked, askRefund
  <2>2. PICK amount \in Nat : amount = ret[job[h].ret].quantity
    BY <1>1, <2>1 DEF RowType
  <2>3. Fits(amount) /\ \E f \in Refunds : insertRefund(f, amount, job[h].ret)
    BY <1>5, <2>2 DEF askRefund
  <2> QED
    BY <2>3, InsertFits
<1>6. ASSUME NEW h \in Handlers, Continue(h), ~askRefund(h) PROVE UNCHANGED refund
  BY <1>6 DEF Continue, readRefunded, readActive, insertReturn, flip, findRefund, linkRefund,
              insertSettlement, markFlips, post, Abort
<1>7. ASSUME NEW h \in Handlers, Request(h) PROVE UNCHANGED refund
  BY <1>7 DEF Request, createReturnRequest, calculateSettlement, transitionReturn,
              resolveEscalation, createRefundRequest, markRefunded
<1>8. ASSUME NEW s \in Settlements, markSettlementPaid(s) PROVE UNCHANGED refund
  BY <1>8 DEF markSettlementPaid
<1> QED
  BY <1>2, <1>3, <1>4, <1>5, <1>6, <1>7, <1>8 DEF Next, vars

LEMMA InitMoney == Init => MoneyInv
<1> SUFFICES ASSUME Init PROVE MoneyInv
  OBVIOUS
<1>1. \A f \in Refunds : Asked({"SUCCEEDED", "REQUESTED"})[f] = 0
  BY DEF Init, Asked
<1>2. Cardinality(Units(Refunds, Ordered, Asked({"SUCCEEDED", "REQUESTED"}))) = 0 /\ Ordered \in Nat
  BY <1>1, UnitsOfNothing, ReturnAssumption
<1> QED
  BY <1>2, TotalIs DEF MoneyInv, Total

\* What refunded returns ask for is part of what was refunded, beside the refunds that may be
\* direct ones.
LEMMA MoneyCovers ==
  ASSUME FlowInv, KeysInv, MoneyInv
  PROVE  RefundedWithinOrder
<1> DEFINE paid  == UnitsRefunded({"SUCCEEDED"})
           all   == UnitsRefunded({"SUCCEEDED", "REQUESTED"})
           keyed == paid \ RefundedDirectly
           asked == RefundedByReturn
           by(u) == CHOOSE f \in Refunds : ret[u[1]].refund = {f}
           F     == [u \in asked |-> <<by(u), u[2]>>]
<1>1. IsFiniteSet(all) /\ paid \subseteq all /\ RefundedDirectly \subseteq paid
  <2>1. IsFiniteSet(all)
    BY TotalIs, UnitsAreFinite, ReturnAssumption
  <2> QED
    BY <2>1 DEF UnitsRefunded, RefundedDirectly
<1>2. IsFiniteSet(paid) /\ IsFiniteSet(keyed) /\ IsFiniteSet(RefundedDirectly)
      /\ Cardinality(paid) <= Cardinality(all)
  BY <1>1, FS_Subset, FS_Difference
<1>3. ASSUME NEW u \in asked
      PROVE  /\ by(u) \in Refunds /\ refund[by(u)].key = u[1] /\ u[1] \in Requests \ BuyerKeys
             /\ refund[by(u)].status = "SUCCEEDED"
             /\ refund[by(u)].amount = ret[u[1]].quantity
  <2>1. u[1] \in Requests \ BuyerKeys /\ ret[u[1]].status = "REFUNDED"
    BY DEF RefundedByReturn
  <2>2. PICK f \in Keyed(u[1]) : ret[u[1]].refund = {f} /\ refund[f].status = "SUCCEEDED"
                               /\ refund[f].amount = ret[u[1]].quantity
    BY <2>1 DEF KeysInv, RefundKeyed, AfterRequest
  <2>3. f \in Refunds /\ refund[f].key = u[1]
    BY DEF Keyed
  <2>4. by(u) = f
    BY <2>2, <2>3
  <2> HIDE DEF by
  <2> QED
    BY <2>1, <2>2, <2>3, <2>4
<1> HIDE DEF by
<1>4. F \in [asked -> keyed]
  <2> SUFFICES ASSUME NEW u \in asked PROVE <<by(u), u[2]>> \in keyed
    OBVIOUS
  <2>1. u[2] \in 1 .. Ordered /\ u[2] <= refund[by(u)].amount
    BY <1>3 DEF RefundedByReturn
  <2> QED
    BY <1>3, <2>1, ReturnAssumption DEF UnitsRefunded, RefundedDirectly
<1>5. ASSUME NEW u \in asked, NEW v \in asked, F[u] = F[v] PROVE u = v
  <2>1. by(u) = by(v) /\ u[2] = v[2]
    BY <1>5
  <2>2. u[1] = v[1]
    BY <1>3, <2>1
  <2>3. u \in Requests \X (1 .. Ordered) /\ v \in Requests \X (1 .. Ordered)
    BY DEF RefundedByReturn
  <2> QED
    BY <2>1, <2>2, <2>3
<1>6. Cardinality(asked) <= Cardinality(keyed)
  <2> HIDE DEF asked, keyed, F
  <2>1. F \in Injection(asked, keyed)
    BY <1>4, <1>5 DEF Injection, IsInjective
  <2> QED
    BY <1>2, <2>1, FS_Injection DEF ExistsInjection
<1>7. Cardinality(paid) = Cardinality(keyed) + Cardinality(RefundedDirectly)
  <2>1. paid = keyed \cup RefundedDirectly /\ keyed \cap RefundedDirectly = {}
    BY <1>1
  <2> HIDE DEF keyed, paid
  <2> QED
    BY <1>2, <2>1, DisjointAdds
<1>8. Cardinality(RefundedByReturn) = Cardinality(asked)
  OBVIOUS
<1>9. IsFiniteSet(asked)
  <2>1. IsFiniteSet(Requests \X (1 .. Ordered))
    <3>1. Ordered \in Int /\ 1 \in Int
      BY ReturnAssumption
    <3>2. IsFiniteSet(1 .. Ordered)
      BY <3>1, FS_Interval
    <3> QED
      BY <3>2, ReturnAssumption, FS_Product
  <2>2. asked \subseteq Requests \X (1 .. Ordered)
    BY DEF RefundedByReturn
  <2> QED
    BY <2>1, <2>2, FS_Subset
<1>10. /\ Cardinality(asked) \in Nat /\ Cardinality(keyed) \in Nat /\ Cardinality(paid) \in Nat
       /\ Cardinality(all) \in Nat /\ Cardinality(RefundedDirectly) \in Nat /\ Ordered \in Nat
  <2> HIDE DEF asked, keyed, paid, all
  <2> QED
    BY <1>1, <1>2, <1>9, FS_CardinalityType, ReturnAssumption
<1>11. Cardinality(all) <= Ordered
  BY DEF MoneyInv, Total
<1> HIDE DEF asked, keyed, paid, all
<1> QED
  BY <1>2, <1>6, <1>7, <1>8, <1>10, <1>11 DEF RefundedWithinOrder

\* The inductive invariant of the money.
THEOREM ReturnMoney == Spec => []MoneyInv
<1>1. FlowInv /\ MoneyInv /\ [Next]_vars => MoneyInv'
  BY StepMoney
<1> QED
  BY <1>1, InitMoney, ReturnFlow, PTL DEF Spec

(* What returns were refunded for, those aside whose key a buyer may have used,  *)
(* and what was refunded otherwise is never more than the order had, although a  *)
(* request sums what it may ask for long before it asks (createReturnRequest,    *)
(* requestRefund).                                                               *)
THEOREM ReturnsWithinOrder == Spec => []RefundedWithinOrder
<1>1. FlowInv /\ KeysInv /\ MoneyInv => RefundedWithinOrder
  BY MoneyCovers
<1> QED
  BY <1>1, ReturnFlow, ReturnKeys, ReturnMoney, PTL
=============================================================================
