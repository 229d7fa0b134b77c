---------------------------- MODULE MasterOrder ----------------------------
(***************************************************************************)
(* A master order and its sub-orders: after every change of a sub-order's  *)
(* status a request recalculates the master's status from all of them, and *)
(* a carrier's delivery recalculates it even when it has changed nothing   *)
(* (recalculateMasterOrderStatus, orders.service.ts).                      *)
(*                                                                         *)
(* What the requests do to a sub-order is a step along an edge: that the   *)
(* conditional writes of OrderLifecycle take no other step is its property *)
(* StatusEdges.  The recalculation is a transaction of its own, under READ *)
(* COMMITTED: each of its statements sees what is committed when it starts.*)
(***************************************************************************)
EXTENDS OrderStatus

CONSTANTS
  Orders,        \* the sub-orders of the master order, one for each store
  Handlers,      \* request handlers
  NoHandler,     \* the master row is not locked
  BankTransfer,  \* sub-orders paid by bank transfer
  MayFail        \* a request may throw, or lose its process, between two steps

ASSUME MasterAssumption ==
  /\ Orders # {}
  /\ BankTransfer \subseteq Orders
  /\ NoHandler \notin Handlers
  /\ MayFail \in BOOLEAN

VARIABLES
  status,  \* per sub-order: orders.status
  master,  \* master_orders.status
  lock,    \* the handler whose transaction holds the master row
  job      \* per handler: the recalculation in flight

vars == <<status, master, lock, job>>

MasterStatus == {"SUBMITTED", "ACCEPTED", "PREPARING", "OUT_FOR_DELIVERY",
                 "DELIVERED", "COMPLETED", "CANCELLED", "DISPUTED"}
At == {"idle", "read", "lock", "load", "write"}

NoJob   == [at |-> "idle", seen |-> "SUBMITTED", computed |-> "SUBMITTED"]
Idle(h) == job[h].at = "idle"

\* What the master's status should be.
AggregateBug == LET o == CHOOSE p \in Orders : TRUE IN status[o]
Aggregate == computeMasterStatus({status[o] : o \in Orders})

TypeOK ==
  /\ status \in [Orders -> Status]
  /\ master \in MasterStatus
  /\ lock \in Handlers \cup {NoHandler}
  /\ job \in [Handlers -> [at : At, seen : MasterStatus, computed : MasterStatus]]

Init ==
  /\ status = [o \in Orders |-> IF o \in BankTransfer THEN "PAYMENT_PENDING"
                                ELSE "PENDING_CONFIRMATION"]
  /\ master = "SUBMITTED"
  /\ lock = NoHandler
  /\ job = [h \in Handlers |-> NoJob]

\* An operation of a merchant, buyer, driver or carrier changes a sub-order; its
\* recalculation, some steps after that commit, is still to come.
subOrderChanges(h, o, s) ==
  /\ Idle(h)
  /\ s # status[o] /\ Edge(status[o], s)
  /\ status' = [status EXCEPT ![o] = s]
  /\ job' = [job EXCEPT ![h].at = "read"]
  /\ UNCHANGED <<master, lock>>

\* A carrier's delivery that loses its flip leaves its transaction only: the request
\* goes on to its recalculation.
recalculatesAnyway(h) ==
  /\ Idle(h)
  /\ job' = [job EXCEPT ![h].at = "read"]
  /\ UNCHANGED <<status, master, lock>>

\* The payment service's two writes to a sub-order: no recalculation follows.
paymentConfirmed(o) ==
  /\ status[o] = "PAYMENT_PENDING"
  /\ status' = [status EXCEPT ![o] = "PAYMENT_CONFIRMED"]
  /\ UNCHANGED <<master, lock, job>>

paymentExpired(o) ==
  /\ status[o] = "PAYMENT_PENDING"
  /\ status' = [status EXCEPT ![o] = "CANCELLED"]
  /\ UNCHANGED <<master, lock, job>>

\* The master row is read, without a lock, ...
readsMaster(h) ==
  /\ job[h].at = "read"
  /\ job' = [job EXCEPT ![h].seen = master, ![h].at = "lock"]
  /\ UNCHANGED <<status, master, lock>>

\* ... then locked (SELECT id ... FOR UPDATE: its status is not read again), ...
locksMaster(h) ==
  /\ job[h].at = "lock"
  /\ lock = NoHandler
  /\ lock' = h
  /\ job' = [job EXCEPT ![h].at = "load"]
  /\ UNCHANGED <<status, master>>

\* ... the sub-orders are loaded, ...
loadsSubOrders(h) ==
  /\ job[h].at = "load"
  /\ job' = [job EXCEPT ![h].computed = Aggregate, ![h].at = "write"]
  /\ UNCHANGED <<status, master, lock>>

\* ... and the master is written if the aggregate differs from the status read.
recalculationCommits(h) ==
  /\ job[h].at = "write"
  /\ master' = IF job[h].computed # job[h].seen THEN job[h].computed ELSE master
  /\ lock' = NoHandler
  /\ job' = [job EXCEPT ![h] = NoJob]
  /\ UNCHANGED status

\* A request that throws, or dies, before or within its recalculation.
recalculationFails(h) ==
  /\ MayFail
  /\ ~Idle(h)
  /\ lock' = IF lock = h THEN NoHandler ELSE lock
  /\ job' = [job EXCEPT ![h] = NoJob]
  /\ UNCHANGED <<status, master>>

Recalculate(h) ==
  readsMaster(h) \/ locksMaster(h) \/ loadsSubOrders(h) \/ recalculationCommits(h)

Next ==
  \/ \E o \in Orders : paymentConfirmed(o) \/ paymentExpired(o)
  \/ \E h \in Handlers :
       \/ \E o \in Orders, s \in Status : subOrderChanges(h, o, s)
       \/ recalculatesAnyway(h)
       \/ Recalculate(h)
       \/ recalculationFails(h)

Spec == Init /\ [][Next]_vars
-----------------------------------------------------------------------------
(* What holds. *)

\* The sub-orders that may follow each status a master order ends with.
Ending == [CANCELLED |-> {"CANCELLED", "REJECTED"},
           DELIVERED |-> {"DELIVERED", "COMPLETED", "DISPUTED"},
           COMPLETED |-> {"COMPLETED", "DISPUTED"}]

\* However late, failed or overtaken its recalculations are, a master order never
\* says that the goods have arrived, or that nothing will, of a sub-order for
\* which it is not so (computeMasterStatus's every-rows).
EndingIsTrue ==
  master \in DOMAIN Ending => \A o \in Orders : status[o] \in Ending[master]
==============================================================================
