--------------------------- MODULE OrderCompletion ---------------------------
(***************************************************************************)
(* How an order that is on its way is delivered and completed: the         *)
(* delivery that schedules the completion (deliverOrder,                   *)
(* processCarrierDelivery), the buyer's confirmation (confirmDelivery),    *)
(* the polls of AutoCompleteWorker in several processes, and completeOrder,*)
(* which the last two share.                                               *)
(*                                                                         *)
(* One order: a worker looks at each row it claimed by itself, catches     *)
(* what it throws and goes on to the next.  An action is one statement on  *)
(* the database or one transaction; lookups of the shipment and inserts of *)
(* history rows are left out, as nothing reads them back.                  *)
(*                                                                         *)
(* MaxErrors bounds the statements that throw while their process lives.   *)
(***************************************************************************)
EXTENDS Naturals, OrderStatus

CONSTANTS
  Callers,    \* requests in flight
  Workers,    \* processes that poll
  Survivors,  \* workers whose process is never killed
  MaxErrors

ASSUME ActorsAssumption == Callers \cap Workers = {} /\ Survivors \subseteq Workers
ASSUME BoundAssumption  == MaxErrors \in Nat

Actors == Callers \cup Workers

VARIABLES
  status,     \* orders.status
  confirmed,  \* orders.buyer_confirmed_at is set
  due,        \* orders.auto_complete_at: not set, in the future, passed
  published,  \* order.completed events
  job,        \* per actor: the statement it is at, the status it read, the one it writes
  errors

order == <<status, confirmed, due, published>>
vars  == <<order, job, errors>>

At == {"idle", "deliver", "bridge", "transition", "schedule", "confirm",
       "verify", "read", "complete", "publish", "down"}

TypeOK ==
  /\ status \in Status
  /\ confirmed \in BOOLEAN
  /\ due \in {"none", "future", "passed"}
  /\ published \in Nat
  /\ job \in [Actors -> [at : At, seen : Status, to : Status]]
  /\ \A a \in Actors : job[a].at = "complete" => job[a].seen = "DELIVERED"
  /\ errors \in 0 .. MaxErrors

NoJob == [at |-> "idle", seen |-> "DRAFT", to |-> "DRAFT"]
Idle(a) == job[a].at = "idle"
Done(a) == job' = [job EXCEPT ![a] = NoJob]
Goes(a, label) == job' = [job EXCEPT ![a].at = label]

Init ==
  /\ status = "READY"
  /\ confirmed = FALSE
  /\ due = "none"
  /\ published = 0
  /\ job = [a \in Actors |-> NoJob]
  /\ errors = 0

----------------------------------------------------------------------------
\* Requests: what they read and check, then the flip.

Begin(c, label, to) ==
  /\ Idle(c)
  /\ job' = [job EXCEPT ![c] = [at |-> label, seen |-> status, to |-> to]]
  /\ UNCHANGED <<order, errors>>

\* The carrier's request checks the same edge as the driver's.
deliverOrder(c)           == "DELIVERED" \in TRANSITIONS[status] /\ Begin(c, "deliver", "DELIVERED")
processCarrierDelivery(c) == "DELIVERED" \in TRANSITIONS[status] /\ Begin(c, "bridge", "DELIVERED")

\* The status endpoint, which may also deliver, complete or dispute; and cancelOrder.
transitionStatus(c) == \E to \in TRANSITIONS[status] \ {"CANCELLED"} : Begin(c, "transition", to)
cancelOrder(c)      == status \in Cancellable /\ Begin(c, "transition", "CANCELLED")
confirmDelivery(c)  == status = "DELIVERED" /\ Begin(c, "confirm", "COMPLETED")

\* UPDATE ... WHERE id = ... AND status = what was read.
FlipMatchesBug(a) == TRUE
FlipMatches(a)    == status = job[a].seen

\* A driver's request that lost the race throws; a carrier's leaves its transaction early
\* and schedules all the same.
deliveryFlips(c) ==
  /\ job[c].at \in {"deliver", "bridge"}
  /\ \/ FlipMatches(c) /\ status' = "DELIVERED" /\ Goes(c, "schedule")
     \/ ~FlipMatches(c) /\ job[c].at = "bridge" /\ Goes(c, "schedule") /\ UNCHANGED status
     \/ ~FlipMatches(c) /\ job[c].at = "deliver" /\ Done(c) /\ UNCHANGED status
  /\ UNCHANGED <<confirmed, due, published, errors>>

\* By id, after the delivery has committed.
writeSchedule(c) ==
  /\ job[c].at = "schedule"
  /\ due' = "future"
  /\ Done(c)
  /\ UNCHANGED <<status, confirmed, published, errors>>

\* transitionStatus publishes order.completed in the transaction of its flip.
transitionFlips(c) ==
  /\ job[c].at = "transition"
  /\ \/ /\ FlipMatches(c)
        /\ status' = job[c].to
        /\ published' = IF job[c].to = "COMPLETED" THEN published + 1 ELSE published
     \/ ~FlipMatches(c) /\ UNCHANGED <<status, published>>
  /\ Done(c)
  /\ UNCHANGED <<confirmed, due, errors>>

\* The confirmation is on record before the order is completed.
Confirms == status = "DELIVERED" /\ ~confirmed
confirmationFlips(c) ==
  /\ job[c].at = "confirm"
  /\ \/ Confirms /\ confirmed' = TRUE /\ Goes(c, "read")
     \/ ~Confirms /\ UNCHANGED confirmed /\ Done(c)
  /\ UNCHANGED <<status, due, published, errors>>

----------------------------------------------------------------------------
\* completeOrder, for a request and for a worker.

\* assertTransition: the matrix leads from what was read to COMPLETED.
CompletableBug == status # "COMPLETED"
Completable    == "COMPLETED" \in TRANSITIONS[status]

completeOrder(a) ==
  /\ job[a].at = "read"
  /\ \/ Completable /\ job' = [job EXCEPT ![a].at = "complete", ![a].seen = status]
     \/ ~Completable /\ Done(a)
  /\ UNCHANGED <<order, errors>>

completionFlips(a) ==
  /\ job[a].at = "complete"
  /\ \/ FlipMatches(a) /\ status' = "COMPLETED" /\ Goes(a, "publish")
     \/ ~FlipMatches(a) /\ UNCHANGED status /\ Done(a)
  /\ UNCHANGED <<confirmed, due, published, errors>>

publishCompleted(a) ==
  /\ job[a].at = "publish"
  /\ published' = published + 1
  /\ Done(a)
  /\ UNCHANGED <<status, confirmed, due, errors>>

----------------------------------------------------------------------------
\* The worker.

\* The claim is a statement that commits at once: it keeps no other worker from the row.
poll(w) ==
  /\ Idle(w)
  /\ status = "DELIVERED" /\ due = "passed" /\ ~confirmed
  /\ Goes(w, "verify")
  /\ UNCHANGED <<order, errors>>

processCompletion(w) ==
  /\ job[w].at = "verify"
  /\ \/ status = "DELIVERED" /\ Goes(w, "read")
     \/ status # "DELIVERED" /\ Done(w)
  /\ UNCHANGED <<order, errors>>

----------------------------------------------------------------------------
\* Time, failures.

windowElapses ==
  /\ due = "future"
  /\ due' = "passed"
  /\ UNCHANGED <<status, confirmed, published, job, errors>>

\* A statement throws: the request ends; the worker logs it, and finally resets running.
AfterErrorBug(a) == IF a \in Workers THEN [NoJob EXCEPT !.at = "down"] ELSE NoJob
AfterError(a)    == NoJob

throws(a) ==
  /\ job[a].at \notin {"idle", "down"} /\ errors < MaxErrors
  /\ errors' = errors + 1
  /\ job' = [job EXCEPT ![a] = AfterError(a)]
  /\ UNCHANGED order

dies(w) ==
  /\ w \notin Survivors /\ job[w].at # "down"
  /\ job' = [job EXCEPT ![w] = [NoJob EXCEPT !.at = "down"]]
  /\ UNCHANGED <<order, errors>>

starts(w) ==
  /\ job[w].at = "down"
  /\ Done(w)
  /\ UNCHANGED <<order, errors>>

----------------------------------------------------------------------------
Request(c) == \/ deliverOrder(c) \/ processCarrierDelivery(c) \/ transitionStatus(c)
              \/ cancelOrder(c) \/ confirmDelivery(c)

Continue(c) == deliveryFlips(c) \/ writeSchedule(c) \/ transitionFlips(c) \/ confirmationFlips(c)

Complete(a) == completeOrder(a) \/ completionFlips(a) \/ publishCompleted(a)

Work(w) == poll(w) \/ processCompletion(w) \/ Complete(w)

Next ==
  \/ \E c \in Callers : Request(c) \/ Continue(c) \/ Complete(c)
  \/ \E w \in Workers : Work(w) \/ dies(w) \/ starts(w)
  \/ \E a \in Actors : throws(a)
  \/ windowElapses

Spec == Init /\ [][Next]_vars

\* Time passes, and the timer of a process that lives polls on; no request has to go on.
FairSpec == Spec /\ WF_vars(windowElapses) /\ \A w \in Survivors : WF_vars(Work(w))

----------------------------------------------------------------------------
\* Properties.

(* The buyer, the status endpoint and any number of workers that claimed the     *)
(* same row may complete the order at once: order.completed is published once,   *)
(* and only for an order that was completed.                                     *)
CompletedOnce == published <= IF status \in {"COMPLETED", "DISPUTED"} THEN 1 ELSE 0

(* A dispute raised while a worker or a confirmation is between its reads and    *)
(* its write is not completed away.                                              *)
DisputeStands == [][status = "DISPUTED" => status' = "DISPUTED"]_vars

(* An order whose delivery was scheduled does not stay DELIVERED: however late   *)
(* deliveries reschedule it, and whatever throws or dies, the timer of a process *)
(* that lives completes it, unless the buyer's confirmation is on record (the    *)
(* worker leaves these orders to confirmDelivery, and so does this property).    *)
ScheduledIsCompleted ==
  (status = "DELIVERED" /\ due # "none") ~> (status # "DELIVERED" \/ confirmed)
=============================================================================
