------------------------- MODULE MasterOrderProofs -------------------------
(***************************************************************************)
(* Theorems about MasterOrder, for any number of sub-orders and of         *)
(* recalculations in flight.                                               *)
(***************************************************************************)
EXTENDS MasterOrder, TLAPS

\* The aggregate is a status of master orders, and one with which an order ends
\* only if every sub-order has.
LEMMA AggregateFacts ==
  ASSUME NEW S, S # {}
  PROVE  /\ computeMasterStatus(S) \in MasterStatus
         /\ computeMasterStatus(S) \in DOMAIN Ending
              => S \subseteq Ending[computeMasterStatus(S)]
<1> DEFINE m == computeMasterStatus(S)
<1>1. CASE S \subseteq {"COMPLETED"}
  <2>1. m = "COMPLETED"
    BY <1>1 DEF computeMasterStatus
  <2> QED
    BY <1>1, <2>1 DEF MasterStatus, Ending
<1>2. CASE ~(S \subseteq {"COMPLETED"}) /\ S \subseteq {"CANCELLED", "REJECTED"}
  <2>1. m = "CANCELLED"
    BY <1>2 DEF computeMasterStatus
  <2> QED
    BY <1>2, <2>1 DEF MasterStatus, Ending
<1>3. CASE /\ ~(S \subseteq {"COMPLETED"}) /\ ~(S \subseteq {"CANCELLED", "REJECTED"})
           /\ S \subseteq {"DELIVERED", "COMPLETED"}
  <2>1. m = "DELIVERED"
    BY <1>3 DEF computeMasterStatus
  <2> QED
    BY <1>3, <2>1 DEF MasterStatus, Ending
<1>4. CASE /\ ~(S \subseteq {"COMPLETED"}) /\ ~(S \subseteq {"CANCELLED", "REJECTED"})
           /\ ~(S \subseteq {"DELIVERED", "COMPLETED"})
  <2>1. m \in {"DISPUTED", "OUT_FOR_DELIVERY", "PREPARING", "ACCEPTED", "SUBMITTED"}
    BY <1>4 DEF computeMasterStatus
  <2> QED
    BY <2>1 DEF MasterStatus, Ending
<1> QED
  BY <1>1, <1>2, <1>3, <1>4

\* An edge does not lead out of the statuses an ending stands for.
LEMMA EndingStable ==
  ASSUME NEW m \in DOMAIN Ending, NEW from \in Ending[m], NEW to \in Status,
         Edge(from, to)
  PROVE  to \in Ending[m]
BY DEF Ending, Edge, TRANSITIONS, Cancellable

\* What a recalculation has computed is as true as what the master says.
HonestInv ==
  /\ TypeOK
  /\ EndingIsTrue
  /\ \A h \in Handlers : job[h].at = "write" /\ job[h].computed \in DOMAIN Ending
        => \A o \in Orders : status[o] \in Ending[job[h].computed]

LEMMA HonestInit == Init => HonestInv
<1> SUFFICES ASSUME Init PROVE HonestInv
  OBVIOUS
<1>1. TypeOK
  BY DEF Init, TypeOK, NoJob, At, MasterStatus, Status
<1>2. EndingIsTrue
  BY DEF Init, EndingIsTrue, Ending
<1>3. \A h \in Handlers : job[h].at = "idle"
  BY DEF Init, NoJob
<1> QED
  BY <1>1, <1>2, <1>3 DEF HonestInv

\* A step that moves one sub-order along an edge, or none, and leaves the master.
LEMMA HonestChange ==
  ASSUME HonestInv, NEW o \in Orders, NEW s \in Status, Edge(status[o], s),
         status' = [status EXCEPT ![o] = s], master' = master, TypeOK',
         \A h \in Handlers : job'[h].at = "write" => job'[h] = job[h]
  PROVE  HonestInv'
<1>1. \A m \in DOMAIN Ending : (\A p \in Orders : status[p] \in Ending[m])
        => \A p \in Orders : status'[p] \in Ending[m]
  BY EndingStable DEF HonestInv, TypeOK
<1>2. EndingIsTrue'
  BY <1>1 DEF HonestInv, EndingIsTrue
<1> QED
  BY <1>1, <1>2 DEF HonestInv

LEMMA HonestStep == ASSUME HonestInv, [Next]_vars PROVE HonestInv'
<1> USE DEF HonestInv, TypeOK
<1>1. CASE UNCHANGED vars
  BY <1>1 DEF vars, EndingIsTrue
<1>2. ASSUME NEW o \in Orders, paymentConfirmed(o) PROVE HonestInv'
  <2>1. Edge(status[o], "PAYMENT_CONFIRMED")
    BY <1>2 DEF paymentConfirmed, Edge, TRANSITIONS
  <2>2. TypeOK'
    BY <1>2, <2>1 DEF paymentConfirmed, Status
  <2> QED
    BY <1>2, <2>1, <2>2, HonestChange DEF paymentConfirmed, Status
<1>3. ASSUME NEW o \in Orders, paymentExpired(o) PROVE HonestInv'
  <2>1. Edge(status[o], "CANCELLED")
    BY <1>3 DEF paymentExpired, Edge, TRANSITIONS
  <2>2. TypeOK'
    BY <1>3, <2>1 DEF paymentExpired, Status
  <2> QED
    BY <1>3, <2>1, <2>2, HonestChange DEF paymentExpired, Status
<1>4. ASSUME NEW h \in Handlers, NEW o \in Orders, NEW s \in Status,
             subOrderChanges(h, o, s)
      PROVE  HonestInv'
  <2>1. TypeOK'
    BY <1>4 DEF subOrderChanges, At
  <2>2. \A g \in Handlers : job'[g].at = "write" => job'[g] = job[g]
    BY <1>4 DEF subOrderChanges
  <2> QED
    BY <1>4, <2>1, <2>2, HonestChange DEF subOrderChanges
<1>5. ASSUME NEW h \in Handlers, recalculatesAnyway(h) \/ readsMaster(h) PROVE HonestInv'
  BY <1>5 DEF recalculatesAnyway, readsMaster, EndingIsTrue, At
<1>6. ASSUME NEW h \in Handlers, locksMaster(h) PROVE HonestInv'
  BY <1>6 DEF locksMaster, EndingIsTrue, At
<1>7. ASSUME NEW h \in Handlers, loadsSubOrders(h) PROVE HonestInv'
  <2> DEFINE S == {status[o] : o \in Orders}
  <2>1. S # {}
    BY MasterAssumption
  <2>2. /\ Aggregate \in MasterStatus
        /\ Aggregate \in DOMAIN Ending => \A o \in Orders : status[o] \in Ending[Aggregate]
    <3>1. /\ computeMasterStatus(S) \in MasterStatus
          /\ computeMasterStatus(S) \in DOMAIN Ending
               => S \subseteq Ending[computeMasterStatus(S)]
      BY <2>1, AggregateFacts
    <3> QED
      BY <3>1 DEF Aggregate
  <2>3. TypeOK'
    BY <1>7, <2>2 DEF loadsSubOrders, At
  <2>4. /\ job'[h].computed = Aggregate
        /\ \A g \in Handlers \ {h} : job'[g] = job[g]
        /\ UNCHANGED <<status, master>>
    BY <1>7 DEF loadsSubOrders
  <2> QED
    BY <2>2, <2>3, <2>4 DEF EndingIsTrue
<1>8. ASSUME NEW h \in Handlers, recalculationCommits(h) PROVE HonestInv'
  <2>1. TypeOK'
    BY <1>8 DEF recalculationCommits, NoJob, At, MasterStatus
  <2>2. EndingIsTrue'
    BY <1>8 DEF recalculationCommits, EndingIsTrue
  <2>3. /\ \A g \in Handlers : job'[g].at = "write" => job'[g] = job[g]
        /\ status' = status
    BY <1>8 DEF recalculationCommits, NoJob
  <2> QED
    BY <2>1, <2>2, <2>3
<1>9. ASSUME NEW h \in Handlers, recalculationFails(h) PROVE HonestInv'
  <2>1. TypeOK'
    BY <1>9 DEF recalculationFails, NoJob, At, MasterStatus
  <2>2. /\ \A g \in Handlers : job'[g].at = "write" => job'[g] = job[g]
        /\ UNCHANGED <<status, master>>
    BY <1>9 DEF recalculationFails, NoJob
  <2> QED
    BY <2>1, <2>2 DEF EndingIsTrue
<1> QED
  BY <1>1, <1>2, <1>3, <1>4, <1>5, <1>6, <1>7, <1>8, <1>9 DEF Next, Recalculate

\* Every variable keeps its type; the master only takes statuses that master orders have.
THEOREM MasterTyping == Spec => []TypeOK
<1>1. HonestInv /\ [Next]_vars => HonestInv'
  BY HonestStep
<1>2. HonestInv => TypeOK
  BY DEF HonestInv
<1> QED
  BY HonestInit, <1>1, <1>2, PTL DEF Spec

\* A master order never says that it is delivered, completed or cancelled while a
\* sub-order is not, for any number of sub-orders and of concurrent, failing or
\* overtaken recalculations (recalculateMasterOrderStatus).
THEOREM MasterEndingIsTrue == Spec => []EndingIsTrue
<1>1. HonestInv /\ [Next]_vars => HonestInv'
  BY HonestStep
<1>2. HonestInv => EndingIsTrue
  BY DEF HonestInv
<1> QED
  BY HonestInit, <1>1, <1>2, PTL DEF Spec
==============================================================================
