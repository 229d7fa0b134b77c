-------------------------- MODULE OrderSystemProofs --------------------------
(***************************************************************************)
(* Theorems about OrderSystem: the orders are those of OrderLifecycle, and *)
(* their master is the one of MasterOrder, for any number of sub-orders,   *)
(* of requests and of units.                                               *)
(***************************************************************************)
EXTENDS OrderSystem, OrderLifecycleProofs

\* What the master's recalculations do is invisible to the orders.
THEOREM SystemOrders == SystemSpec => Spec
<1>1. SystemInit => Init
  BY DEF SystemInit
<1>2. [SystemNext]_systemVars => [Next]_vars
  <2> SUFFICES ASSUME SystemNext PROVE [Next]_vars
    BY DEF systemVars
  <2>1. CASE Outside
    BY <2>1 DEF Outside, Next
  <2>2. ASSUME NEW h \in Handlers, Takes(h) \/ Serves(h) \/ Recalculates(h) \/ Fails(h)
        PROVE  [Next]_vars
    BY <2>2 DEF Takes, Serves, Recalculates, Fails, Next
  <2> QED
    BY <2>1, <2>2 DEF SystemNext
<1> QED
  BY <1>1, <1>2, PTL DEF SystemSpec, Spec

-----------------------------------------------------------------------------
(* A request owes at most one recalculation. *)

\* The steps between a change of a sub-order and the end of the request that made it.
Changed == {"reserve", "ship", "shipment"}

\* A recalculation is owed from the change of the sub-order to the end of the request,
\* and starts when nothing else of the request is left.
OneRecalculation ==
  /\ recalc \in [Handlers -> [at : Master!At, seen : Master!MasterStatus,
                              computed : Master!MasterStatus]]
  /\ master \in Master!MasterStatus
  /\ \A h \in Handlers :
       /\ Master!Idle(h) => recalc[h] = Master!NoJob /\ masterLock # h
       /\ job[h].at \in Changed => recalc[h].at = "read"
       /\ job[h].at \notin Changed \cup {"idle"} => Master!Idle(h)

\* Without unfinished checkouts, partial acceptances and rejections, the steps that
\* oblige a request to recalculate change a sub-order along an edge, or nothing at all
\* (a lost delivery); the others change none.
LEMMA ObligingStep ==
  ASSUME TypeOK, RequestsOK, RowsLocked, CheckedOut, Without({"partial", "reject"}),
         NEW h \in Handlers, Step(h)
  PROVE  \/ Obliges(h) /\ job[h].at \in {"flip", "commit"}
            /\ job'[h].at \in Changed \cup {"idle"}
            /\ \/ UNCHANGED status
               \/ \E o \in Orders, s \in Status :
                    /\ s # status[o] /\ Edge(status[o], s)
                    /\ status' = [status EXCEPT ![o] = s]
         \/ ~Obliges(h) /\ UNCHANGED status
<1>1. WellFormed(job[h]) /\ job[h].order \in Orders /\ job[h].to \in Status
  BY DEF RequestsOK, TypeOK
<1>2. ~autoAdvance(h) /\ ~partiallyAccept(h) /\ ~rejectWrites(h)
  BY <1>1 DEF autoAdvance, CheckedOut, partiallyAccept, rejectWrites, WellFormed, Without
<1>3. CASE Obliges(h) /\ ~flipConflict(h)
  <2>1. /\ job[h].at \in {"flip", "commit"}
        /\ status' = [status EXCEPT ![job[h].order] = job[h].to]
        /\ job[h].at = "flip" => status[job[h].order] = job[h].seen
    BY <1>2, <1>3 DEF Obliges, plainFlip, AtFlip, FlipMatches, transitionCommits,
                      cancelCommits, deliveryCommits, Commit
  <2>2. status[job[h].order] = job[h].seen /\ Edge(job[h].seen, job[h].to)
    BY <1>1, <2>1 DEF WellFormed, Target, RowsLocked
  <2>3. job[h].to # status[job[h].order]
    BY <1>1, <2>2 DEF Edge, TRANSITIONS, Cancellable, Status, TypeOK
  <2>4. job'[h].at \in Changed \cup {"idle"}
    BY <1>2, <1>3, NoJobWellFormed
    DEF Obliges, plainFlip, transitionCommits, cancelCommits, deliveryCommits, Commit,
        Goto, Done, TypeOK, Changed
  <2> QED
    BY <1>1, <1>3, <2>1, <2>2, <2>3, <2>4
<1>4. CASE Obliges(h) /\ flipConflict(h)
  <2>1. job[h].at = "flip" /\ UNCHANGED status /\ job'[h].at = "idle"
    BY <1>4, NoJobWellFormed DEF flipConflict, AtFlip, Done, TypeOK
  <2> QED
    BY <1>4, <2>1
<1>5. CASE ~Obliges(h)
  BY <1>2, <1>5
  DEF Step, Obliges, reserveStock, createShipment, rejectReadsLedger, rejectReleases,
      flipConflict, settlingFlip, fulfilShipment, cancelShipmentWrites, cancelReadsShipment,
      exceptionRechecks, exceptionClaims, returnViews, returnCommits
<1> QED
  BY <1>3, <1>4, <1>5

\* A step touches the record of its own request only, which reaches a step that
\* follows a change of the sub-order from another one, or by making the change.
LEMMA StepRecord ==
  ASSUME TypeOK, RequestsOK, NEW h \in Handlers, Step(h)
  PROVE  /\ \A g \in Handlers \ {h} : job'[g] = job[g]
         /\ job[h].at # "idle"
         /\ \/ Obliges(h)
            \/ job'[h].at = "idle"
            \/ job'[h].at \in Changed <=> job[h].at \in Changed
<1> DEFINE Goal == /\ \A g \in Handlers \ {h} : job'[g] = job[g]
                   /\ job[h].at # "idle"
                   /\ \/ Obliges(h)
                      \/ job'[h].at = "idle"
                      \/ job'[h].at \in Changed <=> job[h].at \in Changed
<1>1. ASSUME Done(h), job[h].at # "idle" PROVE Goal
  BY <1>1, NoJobWellFormed DEF Done, TypeOK
<1>2. ASSUME NEW label \in At, Goto(h, label), job[h].at # "idle",
             Obliges(h) \/ (label \in Changed <=> job[h].at \in Changed)
      PROVE  Goal
  <2>1. job'[h].at = label
    BY <1>2 DEF Goto, TypeOK
  <2> QED
    BY <1>2, <2>1 DEF Goto, TypeOK
<1>3. CASE \/ createShipment(h) \/ partiallyAccept(h) \/ rejectWrites(h) \/ flipConflict(h)
           \/ fulfilShipment(h) \/ cancelShipmentWrites(h) \/ transitionCommits(h)
           \/ cancelCommits(h) \/ deliveryCommits(h) \/ exceptionClaims(h)
           \/ \E k \in 1..(Qty[job[h].order] + 1), c \in Condition : returnCommits(h, k, c)
  BY <1>1, <1>3
  DEF createShipment, partiallyAccept, rejectWrites, flipConflict, AtFlip, fulfilShipment,
      cancelShipmentWrites, transitionCommits, cancelCommits, deliveryCommits,
      exceptionClaims, returnCommits, Commit
<1>4. CASE reserveStock(h)
  BY <1>2, <1>4 DEF reserveStock, At, Changed
<1>5. CASE rejectReleases(h)
  BY <1>2, <1>5 DEF rejectReleases, At, Changed
<1>6. CASE exceptionRechecks(h)
  <2>1. job[h].at = "recheck" /\ (Goto(h, "claim") \/ Done(h))
    BY <1>6 DEF exceptionRechecks
  <2> QED
    BY <1>1, <1>2, <2>1 DEF At, Changed
<1>7. CASE plainFlip(h)
  <2>1. job[h].at = "flip" /\ Obliges(h)
    BY <1>7 DEF plainFlip, AtFlip, Obliges
  <2>2. Goto(h, "reserve") \/ Goto(h, "shipment") \/ Done(h)
    BY <1>7 DEF plainFlip
  <2> QED
    BY <1>1, <1>2, <2>1, <2>2 DEF At
<1>8. CASE \/ autoAdvance(h) \/ rejectReadsLedger(h) \/ settlingFlip(h)
           \/ cancelReadsShipment(h)
  BY <1>8 DEF autoAdvance, Deciding, rejectReadsLedger, settlingFlip, AtFlip,
              cancelReadsShipment, TypeOK, Changed
<1>9. CASE returnViews(h)
  <2>1. job[h].at = "view"
    BY <1>9 DEF returnViews
  <2>2. CASE Done(h)
    BY <1>1, <2>1, <2>2
  <2>3. CASE ~Done(h)
    BY <1>9, <2>1, <2>3 DEF returnViews, TypeOK, Changed
  <2> QED
    BY <2>2, <2>3
<1> QED
  BY <1>3, <1>4, <1>5, <1>6, <1>7, <1>8, <1>9 DEF Step

LEMMA RecalculationType ==
  /\ Master!Aggregate \in Master!MasterStatus
  /\ Master!NoJob \in [at : Master!At, seen : Master!MasterStatus, computed : Master!MasterStatus]
<1>1. ASSUME NEW S PROVE Master!computeMasterStatus(S) \in Master!MasterStatus
  BY DEF Master!computeMasterStatus, Master!MasterStatus
<1>2. Master!Aggregate \in Master!MasterStatus
  BY <1>1 DEF Master!Aggregate
<1>3. Master!NoJob \in [at : Master!At, seen : Master!MasterStatus, computed : Master!MasterStatus]
  BY DEF Master!NoJob, Master!At, Master!MasterStatus
<1> QED
  BY <1>2, <1>3

LEMMA OneRecalculationInit == SystemInit => OneRecalculation
<1> SUFFICES ASSUME SystemInit PROVE OneRecalculation
  OBVIOUS
<1>1. \A h \in Handlers : job[h].at = "idle" /\ recalc[h] = Master!NoJob /\ masterLock # h
  BY NoJobWellFormed, RowsAssumption DEF SystemInit, Init
<1>2. Master!NoJob.at = "idle"
  BY DEF Master!NoJob
<1> QED
  BY <1>1, <1>2, RecalculationType
  DEF OneRecalculation, SystemInit, Master!Idle, Master!MasterStatus, Changed

\* What the recalculation of one handler does to the recalculations of the others.
LEMMA RecalculateShape ==
  ASSUME OneRecalculation, NEW h \in Handlers, Master!Recalculate(h)
  PROVE  /\ recalc[h].at # "idle"
         /\ \A g \in Handlers \ {h} : recalc'[g] = recalc[g]
         /\ recalc' \in [Handlers -> [at : Master!At, seen : Master!MasterStatus,
                                      computed : Master!MasterStatus]]
         /\ master' \in Master!MasterStatus
         /\ masterLock' \in {masterLock, h, NoHandler}
         /\ recalc'[h].at = "idle" => recalc'[h] = Master!NoJob /\ masterLock' # h
<1> USE DEF OneRecalculation
<1>1. CASE Master!readsMaster(h)
  BY <1>1 DEF Master!readsMaster, Master!At
<1>2. CASE Master!locksMaster(h)
  BY <1>2 DEF Master!locksMaster, Master!At
<1>3. CASE Master!loadsSubOrders(h)
  BY <1>3, RecalculationType DEF Master!loadsSubOrders, Master!At
<1>4. CASE Master!recalculationCommits(h)
  <2>1. recalc' = [recalc EXCEPT ![h] = Master!NoJob] /\ masterLock' = NoHandler
        /\ recalc[h].at = "write"
    BY <1>4 DEF Master!recalculationCommits
  <2>2. master' \in Master!MasterStatus
    BY <1>4 DEF Master!recalculationCommits
  <2> QED
    BY <2>1, <2>2, RecalculationType, RowsAssumption
<1> QED
  BY <1>1, <1>2, <1>3, <1>4 DEF Master!Recalculate

LEMMA DropsShape ==
  ASSUME OneRecalculation, NEW h \in Handlers, Drops(h)
  PROVE  /\ recalc'[h] = Master!NoJob /\ masterLock' # h
         /\ \A g \in Handlers \ {h} : recalc'[g] = recalc[g]
         /\ recalc' \in [Handlers -> [at : Master!At, seen : Master!MasterStatus,
                                      computed : Master!MasterStatus]]
         /\ master' = master
         /\ masterLock' \in {masterLock, NoHandler}
BY RecalculationType, RowsAssumption DEF OneRecalculation, Drops

LEMMA OneRecalculationStep ==
  ASSUME TypeOK, RequestsOK, RowsLocked, CheckedOut, Without({"partial", "reject"}),
         OneRecalculation, [SystemNext]_systemVars
  PROVE  OneRecalculation'
<1> DEFINE Rec == [at : Master!At, seen : Master!MasterStatus, computed : Master!MasterStatus]
<1>1. Master!NoJob.at = "idle" /\ Master!NoJob' = Master!NoJob
  BY DEF Master!NoJob
<1>2. CASE UNCHANGED <<job, masterVars>>
  BY <1>2 DEF OneRecalculation, masterVars, Master!Idle
<1>3. CASE Outside
  BY <1>2, <1>3 DEF Outside, checkoutGate, paymentConfirmed, paymentExpired
<1>4. ASSUME NEW h \in Handlers, Takes(h) PROVE OneRecalculation'
  <2>1. PICK r \in Request : /\ job' = [job EXCEPT ![h] = r]
                             /\ r.at \notin Changed \cup {"idle"}
    BY <1>4, BeginShape DEF Takes, Changed
  <2>2. UNCHANGED masterVars /\ Master!Idle(h)
    BY <1>4 DEF Takes
  <2> QED
    BY <2>1, <2>2 DEF OneRecalculation, masterVars, Master!Idle, TypeOK
<1>5. ASSUME NEW h \in Handlers, Serves(h) PROVE OneRecalculation'
  <2>1. Step(h)
    BY <1>5 DEF Serves
  <2>2. \A g \in Handlers \ {h} : job'[g] = job[g]
    BY <2>1, StepRecord
  <2>3. CASE Obliges(h)
    <3>1. job[h].at \in {"flip", "commit"} /\ job'[h].at \in Changed \cup {"idle"}
      BY <2>1, <2>3, ObligingStep
    <3>2. recalc' = [recalc EXCEPT ![h].at = "read"] /\ UNCHANGED <<master, masterLock>>
      BY <1>5, <2>3 DEF Serves
    <3> QED
      BY <2>2, <3>1, <3>2 DEF OneRecalculation, Master!Idle, Master!At, Changed
  <2>4. CASE ~Obliges(h) /\ Throws(h)
    <3>1. Drops(h)
      BY <1>5, <2>4 DEF Serves
    <3>2. job'[h].at = "idle"
      BY <2>1, <2>4, NoJobWellFormed
      DEF Throws, Step, Obliges, autoAdvance, reserveStock, createShipment, partiallyAccept,
          rejectReadsLedger, rejectReleases, rejectWrites, flipConflict, plainFlip,
          settlingFlip, fulfilShipment, cancelShipmentWrites, transitionCommits,
          cancelReadsShipment, cancelCommits, deliveryCommits, exceptionRechecks,
          exceptionClaims, returnViews, returnCommits, AtFlip, Done, TypeOK
    <3> QED
      BY <1>1, <2>2, <3>1, <3>2, DropsShape, RowsAssumption
      DEF OneRecalculation, Master!Idle, Changed
  <2>5. CASE ~Obliges(h) /\ ~Throws(h)
    <3>1. UNCHANGED masterVars
      BY <1>5, <2>5 DEF Serves
    <3>2. job[h].at # "idle"
          /\ (job'[h].at = "idle" \/ (job'[h].at \in Changed <=> job[h].at \in Changed))
      BY <2>1, <2>5, StepRecord
    <3> QED
      BY <2>2, <3>1, <3>2 DEF OneRecalculation, masterVars, Master!Idle, Changed
  <2> QED
    BY <2>3, <2>4, <2>5
<1>6. ASSUME NEW h \in Handlers, Recalculates(h) PROVE OneRecalculation'
  <2>1. job' = job /\ job[h].at = "idle" /\ Master!Recalculate(h)
    BY <1>6 DEF Recalculates, Idle, vars
  <2> QED
    BY <2>1, RecalculateShape, RowsAssumption DEF OneRecalculation, Master!Idle, Changed
<1>7. ASSUME NEW h \in Handlers, Fails(h) PROVE OneRecalculation'
  <2>1. Drops(h)
    BY <1>7 DEF Fails
  <2>2. job'[h].at = "idle" /\ \A g \in Handlers \ {h} : job'[g] = job[g]
    BY <1>7, NoJobWellFormed DEF Fails, Abort, Done, Idle, vars, TypeOK
  <2> QED
    BY <1>1, <2>1, <2>2, DropsShape, RowsAssumption
    DEF OneRecalculation, Master!Idle, Changed
<1> QED
  BY <1>2, <1>3, <1>4, <1>5, <1>6, <1>7 DEF SystemNext, systemVars, vars

LEMMA RecalculationsAreOne ==
  ASSUME Fresh = {}, Without({"partial", "reject"})
  PROVE  SystemSpec => []OneRecalculation
<1>1. TypeOK /\ RequestsOK /\ RowsLocked /\ CheckedOut /\ OneRecalculation
        /\ [SystemNext]_systemVars => OneRecalculation'
  BY OneRecalculationStep
<1> QED
  BY OneRecalculationInit, <1>1, SystemOrders, Typing, RowsAreLocked, CheckoutsAreOver, PTL
  DEF SystemSpec

-----------------------------------------------------------------------------
(* The master order. *)

\* Every step of the system is, for the master and its sub-orders, a step of MasterOrder.
LEMMA MasterStep ==
  ASSUME TypeOK, RequestsOK, RowsLocked, CheckedOut, Without({"partial", "reject"}),
         OneRecalculation, [SystemNext]_systemVars
  PROVE  [Master!Next]_(Master!vars)
<1>1. CASE UNCHANGED <<status, masterVars>>
  BY <1>1 DEF Master!vars, masterVars
<1>2. ASSUME NEW o \in Orders, paymentConfirmed(o), UNCHANGED masterVars
      PROVE  Master!Next
  BY <1>2 DEF paymentConfirmed, Master!paymentConfirmed, Master!Next, masterVars
<1>3. ASSUME NEW o \in Orders, paymentExpired(o), UNCHANGED masterVars
      PROVE  Master!Next
  BY <1>3 DEF paymentExpired, Master!paymentExpired, Master!Next, masterVars
<1>4. CASE Outside
  BY <1>2, <1>3, <1>4 DEF Outside, checkoutGate, CheckedOut
<1>5. ASSUME NEW h \in Handlers, Takes(h) PROVE UNCHANGED <<status, masterVars>>
  BY <1>5, BeginShape DEF Takes
<1>6. ASSUME NEW h \in Handlers, Drops(h), UNCHANGED status
      PROVE  [Master!Next]_(Master!vars)
  <2>1. CASE Master!Idle(h)
    <3>1. recalc[h] = Master!NoJob /\ masterLock # h
      BY <2>1 DEF OneRecalculation
    <3>2. recalc' = recalc /\ masterLock' = masterLock /\ master' = master
      BY <1>6, <3>1 DEF Drops, OneRecalculation
    <3> QED
      BY <1>6, <3>2 DEF Master!vars
  <2>2. CASE ~Master!Idle(h)
    <3>1. Master!recalculationFails(h)
      BY <1>6, <2>2 DEF Drops, Master!recalculationFails
    <3> QED
      BY <3>1 DEF Master!Next
  <2> QED
    BY <2>1, <2>2
<1>7. ASSUME NEW h \in Handlers, Serves(h) PROVE [Master!Next]_(Master!vars)
  <2>1. Step(h)
    BY <1>7 DEF Serves
  <2>2. CASE Obliges(h)
    <3>1. /\ job[h].at \in {"flip", "commit"}
          /\ \/ UNCHANGED status
             \/ \E o \in Orders, s \in Status :
                  /\ s # status[o] /\ Edge(status[o], s)
                  /\ status' = [status EXCEPT ![o] = s]
      BY <2>1, <2>2, ObligingStep
    <3>2. Master!Idle(h)
      BY <3>1 DEF OneRecalculation, Changed
    <3>3. CASE UNCHANGED status
      <4>1. Master!recalculatesAnyway(h)
        BY <1>7, <2>2, <3>2, <3>3 DEF Serves, Master!recalculatesAnyway
      <4> QED
        BY <4>1 DEF Master!Next
    <3>4. ASSUME NEW o \in Orders, NEW s \in Status, s # status[o], Edge(status[o], s),
                 status' = [status EXCEPT ![o] = s]
          PROVE  Master!Next
      <4>1. s \in Master!Status /\ Master!Edge(status[o], s)
        BY <3>4 DEF Status, Master!Status, Edge, Master!Edge, TRANSITIONS, Master!TRANSITIONS,
                    Cancellable, Master!Cancellable
      <4>2. Master!subOrderChanges(h, o, s)
        BY <1>7, <2>2, <3>2, <3>4, <4>1 DEF Serves, Master!subOrderChanges
      <4> QED
        BY <4>1, <4>2 DEF Master!Next
    <3> QED
      BY <3>1, <3>3, <3>4
  <2>3. CASE ~Obliges(h)
    <3>1. UNCHANGED status
      BY <2>1, <2>3, ObligingStep
    <3> QED
      BY <1>1, <1>6, <1>7, <2>3, <3>1 DEF Serves
  <2> QED
    BY <2>2, <2>3
<1>8. ASSUME NEW h \in Handlers, Recalculates(h) PROVE Master!Next
  BY <1>8 DEF Recalculates, Master!Next
<1>9. ASSUME NEW h \in Handlers, Fails(h) PROVE [Master!Next]_(Master!vars)
  BY <1>6, <1>9 DEF Fails, Abort, vars
<1> QED
  BY <1>1, <1>4, <1>5, <1>7, <1>8, <1>9 DEF SystemNext, systemVars, vars

\* The requests of the order life cycle, with the recalculations they end with, are what
\* MasterOrder supposes: each change of a sub-order is along an edge, and a request that
\* makes one, or that lost a carrier's delivery, has no other recalculation to finish
\* and starts one after it.
THEOREM MasterIsFollowed ==
  ASSUME Fresh = {}, Without({"partial", "reject"})
  PROVE  SystemSpec => MasterFollows
<1>1. SystemInit => Master!Init
  <2> SUFFICES ASSUME SystemInit PROVE Master!Init
    OBVIOUS
  <2>1. status = [o \in Orders |-> IF o \in BankTransfer THEN "PAYMENT_PENDING"
                                   ELSE "PENDING_CONFIRMATION"]
    BY DEF SystemInit, Init
  <2> QED
    BY <2>1 DEF SystemInit, Master!Init
<1>2. TypeOK /\ RequestsOK /\ RowsLocked /\ CheckedOut /\ OneRecalculation
        /\ [SystemNext]_systemVars => [Master!Next]_(Master!vars)
  BY MasterStep
<1> QED
  BY <1>1, <1>2, SystemOrders, Typing, RowsAreLocked, CheckoutsAreOver,
     RecalculationsAreOne, PTL
  DEF SystemSpec, MasterFollows, Master!Spec

\* The theorems of MasterOrder, with what it assumes of its constants.
MasterTheorems ==
  INSTANCE MasterOrderProofs WITH lock <- masterLock, job <- recalc, MayFail <- TRUE

LEMMA MasterAssumed ==
  Orders # {} /\ BankTransfer \subseteq Orders /\ NoHandler \notin Handlers /\ TRUE \in BOOLEAN
BY RowsAssumption

\* A master order never says that it is delivered, completed or cancelled while a
\* sub-order is not: now of sub-orders that the requests of the order life cycle
\* change, whose recalculations interleave with one another and with those requests.
THEOREM SystemEndingIsTrue ==
  ASSUME Fresh = {}, Without({"partial", "reject"})
  PROVE  SystemSpec => []Master!EndingIsTrue
<1>1. SystemSpec => Master!Spec
  BY MasterIsFollowed DEF MasterFollows
<1>2. MasterTheorems!Spec => []MasterTheorems!EndingIsTrue
  BY MasterAssumed, MasterTheorems!MasterEndingIsTrue
<1>3. Master!Init => MasterTheorems!Init
  BY DEF Master!Init, MasterTheorems!Init, Master!NoJob, MasterTheorems!NoJob
<1>4. Master!Aggregate = MasterTheorems!Aggregate
  BY DEF Master!Aggregate, MasterTheorems!Aggregate,
         Master!computeMasterStatus, MasterTheorems!computeMasterStatus
<1>5. [Master!Next]_(Master!vars) => [MasterTheorems!Next]_(MasterTheorems!vars)
  <2>1. \A o \in Orders, s \in Master!Status :
          /\ s \in MasterTheorems!Status
          /\ Master!Edge(status[o], s) => MasterTheorems!Edge(status[o], s)
    BY DEF Master!Status, MasterTheorems!Status, Master!Edge, MasterTheorems!Edge,
           Master!TRANSITIONS, MasterTheorems!TRANSITIONS,
           Master!Cancellable, MasterTheorems!Cancellable
  <2> QED
    BY <1>4, <2>1
    DEF Master!vars, MasterTheorems!vars, Master!Next, MasterTheorems!Next,
        Master!subOrderChanges, MasterTheorems!subOrderChanges,
        Master!recalculatesAnyway, MasterTheorems!recalculatesAnyway,
        Master!paymentConfirmed, MasterTheorems!paymentConfirmed,
        Master!paymentExpired, MasterTheorems!paymentExpired,
        Master!recalculationFails, MasterTheorems!recalculationFails,
        Master!Recalculate, MasterTheorems!Recalculate,
        Master!readsMaster, MasterTheorems!readsMaster,
        Master!locksMaster, MasterTheorems!locksMaster,
        Master!loadsSubOrders, MasterTheorems!loadsSubOrders,
        Master!recalculationCommits, MasterTheorems!recalculationCommits,
        Master!Idle, MasterTheorems!Idle, Master!NoJob, MasterTheorems!NoJob
<1>6. MasterTheorems!EndingIsTrue => Master!EndingIsTrue
  BY DEF MasterTheorems!EndingIsTrue, Master!EndingIsTrue,
         MasterTheorems!Ending, Master!Ending
<1> QED
  BY <1>1, <1>2, <1>3, <1>5, <1>6, PTL DEF Master!Spec, MasterTheorems!Spec
=============================================================================
