------------------------ MODULE OrderCompletionProofs ------------------------
(***************************************************************************)
(* Theorems about OrderCompletion, for any number of requests in flight,   *)
(* of worker processes and of errors.                                      *)
(***************************************************************************)
EXTENDS OrderCompletion, TLAPS

Job == [at : At, seen : Status, to : Status]

\* What a request has checked before it flips the order.
Checked(j) ==
  /\ j.at = "complete" => j.seen = "DELIVERED"
  /\ j.at \in {"deliver", "bridge"} => "DELIVERED" \in TRANSITIONS[j.seen]
  /\ j.at = "transition" => Edge(j.seen, j.to)

\* The one that has flipped the order to COMPLETED has still to publish it.
OnePublisher ==
  /\ \A a \in Actors : job[a].at = "publish" => status \in {"COMPLETED", "DISPUTED"} /\ published = 0
  /\ \A a, b \in Actors : job[a].at = "publish" /\ job[b].at = "publish" => a = b

CompletionInv ==
  /\ TypeOK
  /\ CompletedOnce
  /\ \A a \in Actors : Checked(job[a])
  /\ OnePublisher

\* The edges around COMPLETED and DISPUTED.
LEMMA EdgeFacts ==
  ASSUME NEW from \in Status, NEW to \in Status, Edge(from, to)
  PROVE  /\ to = "COMPLETED" => from = "DELIVERED"
         /\ from = "COMPLETED" => to = "DISPUTED"
         /\ from # "DISPUTED"
BY DEF Edge, TRANSITIONS, Cancellable, Status

LEMMA CompletionInit == Init => CompletionInv
<1> SUFFICES ASSUME Init PROVE CompletionInv
  OBVIOUS
<1>1. \A a \in Actors : job[a] = NoJob
  BY DEF Init
<1>2. NoJob \in Job /\ job = [a \in Actors |-> NoJob]
  BY DEF Init, NoJob, Job, At, Status
<1>3. job \in [Actors -> Job]
  BY <1>2
<1>4. errors \in 0 .. MaxErrors
  BY BoundAssumption DEF Init
<1>5. TypeOK
  BY <1>1, <1>3, <1>4 DEF Init, TypeOK, Job, NoJob, Status
<1> QED
  BY <1>1, <1>5 DEF CompletionInv, CompletedOnce, Checked, OnePublisher, NoJob, Init

\* A step after which one actor is at another statement, none that publishes, and the order
\* is where it was or has taken an edge that does not complete it.
LEMMA OneActorMoves ==
  ASSUME CompletionInv, NEW a \in Actors, NEW j \in Job, Checked(j), j.at # "publish",
         job' = [job EXCEPT ![a] = j],
         status' \in Status, status' = status \/ (Edge(status, status') /\ status' # "COMPLETED"),
         confirmed' \in BOOLEAN, due' \in {"none", "future", "passed"},
         published' = published, errors' \in 0 .. MaxErrors
  PROVE  CompletionInv'
<1> USE DEF CompletionInv
<1>1. job \in [Actors -> Job]
  BY DEF TypeOK, Job
<1>2. \A b \in Actors : job'[b] = IF b = a THEN j ELSE job[b]
  BY <1>1
<1>3. \A b \in Actors : Checked(job'[b])
  BY <1>2
<1>4. job' \in [Actors -> Job]
  BY <1>1
<1>5. TypeOK'
  BY <1>3, <1>4 DEF TypeOK, Checked, Job
<1>6. status \in {"COMPLETED", "DISPUTED"} => status' \in {"COMPLETED", "DISPUTED"}
  BY EdgeFacts DEF TypeOK
<1>7. CompletedOnce'
  BY <1>6 DEF CompletedOnce, TypeOK
<1>8. OnePublisher'
  BY <1>2, <1>6 DEF OnePublisher
<1> QED
  BY <1>3, <1>5, <1>7, <1>8

\* The same, of an actor that is done.
LEMMA ActorIsDone ==
  ASSUME CompletionInv, NEW a \in Actors, Done(a),
         status' \in Status, status' = status \/ (Edge(status, status') /\ status' # "COMPLETED"),
         confirmed' \in BOOLEAN, due' \in {"none", "future", "passed"},
         published' = published, errors' \in 0 .. MaxErrors
  PROVE  CompletionInv'
<1>1. NoJob \in Job /\ Checked(NoJob) /\ NoJob.at # "publish"
  BY DEF NoJob, Job, At, Status, Checked
<1> QED
  BY <1>1, OneActorMoves DEF Done

\* Requests, confirmations and the worker's own steps.
LEMMA RequestKeeps ==
  ASSUME CompletionInv, NEW c \in Callers, Request(c)
  PROVE  CompletionInv'
<1>1. c \in Actors /\ status \in Status
  BY DEF Actors, CompletionInv, TypeOK
<1>2. PICK label \in {"deliver", "bridge", "transition", "confirm"}, to \in Status :
        /\ Begin(c, label, to)
        /\ label \in {"deliver", "bridge"} => "DELIVERED" \in TRANSITIONS[status]
        /\ label = "transition" => Edge(status, to)
  <2>1. CASE deliverOrder(c)
    BY <2>1 DEF deliverOrder, Status
  <2>2. CASE processCarrierDelivery(c)
    BY <2>2 DEF processCarrierDelivery, Status
  <2>3. CASE transitionStatus(c)
    <3>1. PICK to \in TRANSITIONS[status] \ {"CANCELLED"} : Begin(c, "transition", to)
      BY <2>3 DEF transitionStatus
    <3>2. to \in Status
      BY <1>1, <3>1 DEF Status, TRANSITIONS
    <3> QED
      BY <3>1, <3>2 DEF Edge
  <2>4. CASE cancelOrder(c)
    BY <2>4 DEF cancelOrder, Edge, Status
  <2>5. CASE confirmDelivery(c)
    BY <2>5 DEF confirmDelivery, Status
  <2> QED
    BY <2>1, <2>2, <2>3, <2>4, <2>5 DEF Request
<1> DEFINE j == [at |-> label, seen |-> status, to |-> to]
<1>3. j \in Job /\ Checked(j) /\ j.at # "publish"
  BY <1>1, <1>2 DEF Job, At, Checked
<1>4. job' = [job EXCEPT ![c] = j] /\ UNCHANGED <<order, errors>>
  BY <1>2 DEF Begin
<1> HIDE DEF j
<1> QED
  BY <1>1, <1>3, <1>4, OneActorMoves DEF CompletionInv, TypeOK, order

LEMMA ContinueKeeps ==
  ASSUME CompletionInv, NEW c \in Callers, Continue(c)
  PROVE  CompletionInv'
<1>1. c \in Actors /\ status \in Status /\ job[c] \in Job /\ job \in [Actors -> Job] /\ Checked(job[c])
  BY DEF Actors, CompletionInv, TypeOK, Job
<1>2. ASSUME NEW label \in {"schedule", "read"}, Goes(c, label)
      PROVE  \E j \in Job : Checked(j) /\ j.at # "publish" /\ job' = [job EXCEPT ![c] = j]
  <2> DEFINE j == [job[c] EXCEPT !.at = label]
  <2>1. j \in Job /\ Checked(j) /\ j.at # "publish" /\ job' = [job EXCEPT ![c] = j]
    BY <1>1, <1>2 DEF Goes, Checked, Job, At
  <2> HIDE DEF j
  <2> QED
    BY <2>1
<1>3. CASE deliveryFlips(c)
  <2>1. status' \in Status /\ (status' = status \/ (Edge(status, status') /\ status' # "COMPLETED"))
    BY <1>1, <1>3 DEF deliveryFlips, FlipMatches, Checked, Edge, Status
  <2>2. CASE Done(c)
    BY <1>1, <1>3, <2>1, <2>2, ActorIsDone DEF deliveryFlips, CompletionInv, TypeOK
  <2>3. CASE Goes(c, "schedule")
    <3>1. PICK j \in Job : Checked(j) /\ j.at # "publish" /\ job' = [job EXCEPT ![c] = j]
      BY <1>2, <2>3
    <3> QED
      BY <1>1, <1>3, <2>1, <3>1, OneActorMoves DEF deliveryFlips, CompletionInv, TypeOK
  <2> QED
    BY <1>3, <2>2, <2>3 DEF deliveryFlips
<1>4. CASE writeSchedule(c)
  BY <1>1, <1>4, ActorIsDone DEF writeSchedule, CompletionInv, TypeOK
<1>5. CASE transitionFlips(c)
  <2>1. CASE ~FlipMatches(c) \/ job[c].to # "COMPLETED"
    <3>1. status' \in Status /\ (status' = status \/ (Edge(status, status') /\ status' # "COMPLETED"))
      BY <1>1, <1>5, <2>1 DEF transitionFlips, FlipMatches, Checked, Job
    <3>2. published' = published
      BY <1>5, <2>1 DEF transitionFlips
    <3> QED
      BY <1>1, <1>5, <3>1, <3>2, ActorIsDone DEF transitionFlips, CompletionInv, TypeOK
  <2>2. CASE FlipMatches(c) /\ job[c].to = "COMPLETED"
    <3>1. status = "DELIVERED" /\ status' = "COMPLETED" /\ published' = published + 1
      BY <1>1, <1>5, <2>2, EdgeFacts DEF transitionFlips, FlipMatches, Checked, Job
    <3>2. published = 0 /\ \A a \in Actors : job[a].at # "publish"
      BY <3>1 DEF CompletionInv, CompletedOnce, OnePublisher, TypeOK
    <3>3. \A a \in Actors : job'[a] = IF a = c THEN NoJob ELSE job[a]
      BY <1>1, <1>5 DEF transitionFlips, Done
    <3>4. \A a \in Actors : job'[a].at # "publish" /\ Checked(job'[a])
      BY <3>2, <3>3 DEF NoJob, CompletionInv, Checked
    <3>5. job' \in [Actors -> Job]
      BY <1>1, <1>5 DEF transitionFlips, Done, NoJob, Job, At, Status
    <3>6. TypeOK'
      BY <1>5, <3>1, <3>2, <3>4, <3>5 DEF transitionFlips, CompletionInv, TypeOK, Checked, Job, Status
    <3> QED
      BY <3>1, <3>2, <3>4, <3>6 DEF CompletionInv, CompletedOnce, OnePublisher
  <2> QED
    BY <2>1, <2>2
<1>6. CASE confirmationFlips(c)
  <2>1. CASE Done(c)
    BY <1>1, <1>6, <2>1, ActorIsDone DEF confirmationFlips, CompletionInv, TypeOK
  <2>2. CASE Goes(c, "read")
    <3>1. PICK j \in Job : Checked(j) /\ j.at # "publish" /\ job' = [job EXCEPT ![c] = j]
      BY <1>2, <2>2
    <3> QED
      BY <1>1, <1>6, <3>1, OneActorMoves DEF confirmationFlips, CompletionInv, TypeOK
  <2> QED
    BY <1>6, <2>1, <2>2 DEF confirmationFlips
<1> QED
  BY <1>3, <1>4, <1>5, <1>6 DEF Continue

LEMMA CompleteKeeps ==
  ASSUME CompletionInv, NEW a \in Actors, Complete(a)
  PROVE  CompletionInv'
<1>1. status \in Status /\ job[a] \in Job /\ job \in [Actors -> Job] /\ Checked(job[a])
  BY DEF CompletionInv, TypeOK, Job
<1>2. CASE completeOrder(a)
  <2>1. CASE Done(a)
    BY <1>2, <2>1, ActorIsDone DEF completeOrder, order, CompletionInv, TypeOK
  <2>2. CASE Completable /\ job' = [job EXCEPT ![a].at = "complete", ![a].seen = status]
    <3> DEFINE j == [job[a] EXCEPT !.at = "complete", !.seen = status]
    <3>1. status = "DELIVERED"
      BY <1>1, <2>2 DEF Completable, TRANSITIONS, Status
    <3>2. j \in Job /\ Checked(j) /\ j.at # "publish" /\ job' = [job EXCEPT ![a] = j]
      BY <1>1, <2>2, <3>1 DEF Job, At, Checked
    <3> HIDE DEF j
    <3> QED
      BY <1>2, <3>2, OneActorMoves DEF completeOrder, order, CompletionInv, TypeOK
  <2> QED
    BY <1>2, <2>1, <2>2 DEF completeOrder
<1>3. CASE completionFlips(a)
  <2>1. CASE ~FlipMatches(a)
    BY <1>3, <2>1, ActorIsDone DEF completionFlips, CompletionInv, TypeOK
  <2>2. CASE FlipMatches(a)
    <3>1. status = "DELIVERED" /\ status' = "COMPLETED" /\ published' = published /\ Goes(a, "publish")
      BY <1>1, <1>3, <2>2 DEF completionFlips, FlipMatches, Checked
    <3>2. published = 0 /\ \A b \in Actors : job[b].at # "publish"
      BY <3>1 DEF CompletionInv, CompletedOnce, OnePublisher, TypeOK
    <3>3. \A b \in Actors : job'[b] = IF b = a THEN [job[a] EXCEPT !.at = "publish"] ELSE job[b]
      BY <1>1, <3>1 DEF Goes
    <3>4. \A b \in Actors : Checked(job'[b])
      BY <1>1, <3>3 DEF CompletionInv, Checked, Job
    <3>5. \A b \in Actors : job'[b].at = "publish" => b = a
      BY <3>2, <3>3
    <3>6. job' \in [Actors -> Job]
      BY <1>1, <3>1 DEF Goes, Job, At
    <3>7. TypeOK'
      BY <1>3, <3>1, <3>4, <3>6 DEF completionFlips, CompletionInv, TypeOK, Checked, Job, Status
    <3> QED
      BY <3>1, <3>2, <3>4, <3>5, <3>7 DEF CompletionInv, CompletedOnce, OnePublisher
  <2> QED
    BY <2>1, <2>2
<1>4. CASE publishCompleted(a)
  <2>1. status \in {"COMPLETED", "DISPUTED"} /\ published = 0
    BY <1>4 DEF publishCompleted, CompletionInv, OnePublisher
  <2>2. published' = 1 /\ status' = status
    BY <1>4, <2>1 DEF publishCompleted
  <2>3. \A b \in Actors : job'[b] = IF b = a THEN NoJob ELSE job[b]
    BY <1>1, <1>4 DEF publishCompleted, Done
  <2>4. \A b \in Actors : job'[b].at # "publish"
    BY <1>4, <2>3 DEF publishCompleted, CompletionInv, OnePublisher, NoJob
  <2>5. \A b \in Actors : Checked(job'[b])
    BY <2>3 DEF CompletionInv, Checked, NoJob
  <2>6. job' \in [Actors -> Job]
    BY <1>1, <1>4 DEF publishCompleted, Done, NoJob, Job, At, Status
  <2>7. TypeOK'
    BY <1>4, <2>2, <2>5, <2>6 DEF publishCompleted, CompletionInv, TypeOK, Checked, Job
  <2> QED
    BY <2>1, <2>2, <2>4, <2>5, <2>7 DEF CompletionInv, CompletedOnce, OnePublisher
<1> QED
  BY <1>2, <1>3, <1>4 DEF Complete

\* The worker's other steps, errors and time.
LEMMA WorkerKeeps ==
  ASSUME CompletionInv, NEW w \in Workers,
         poll(w) \/ processCompletion(w) \/ dies(w) \/ starts(w)
  PROVE  CompletionInv'
<1>1. w \in Actors /\ job[w] \in Job /\ job \in [Actors -> Job]
  BY DEF Actors, CompletionInv, TypeOK, Job
<1>2. UNCHANGED <<order, errors>>
  BY DEF poll, processCompletion, dies, starts
<1>3. \E j \in Job : Checked(j) /\ j.at # "publish" /\ job' = [job EXCEPT ![w] = j]
  <2>1. ASSUME NEW label \in {"verify", "read"}, Goes(w, label) PROVE \E j \in Job : Checked(j) /\ j.at # "publish" /\ job' = [job EXCEPT ![w] = j]
    <3> DEFINE j == [job[w] EXCEPT !.at = label]
    <3>1. j \in Job /\ Checked(j) /\ j.at # "publish" /\ job' = [job EXCEPT ![w] = j]
      BY <1>1, <2>1 DEF Goes, Checked, Job, At
    <3> HIDE DEF j
    <3> QED
      BY <3>1
  <2>2. CASE Done(w)
    <3>1. NoJob \in Job /\ Checked(NoJob) /\ NoJob.at # "publish"
      BY DEF NoJob, Job, At, Status, Checked
    <3> QED
      BY <2>2, <3>1 DEF Done
  <2>3. CASE dies(w)
    <3> DEFINE j == [NoJob EXCEPT !.at = "down"]
    <3>1. j \in Job /\ Checked(j) /\ j.at # "publish" /\ job' = [job EXCEPT ![w] = j]
      BY <2>3 DEF dies, NoJob, Job, At, Status, Checked
    <3> HIDE DEF j
    <3> QED
      BY <3>1
  <2> QED
    BY <2>1, <2>2, <2>3 DEF poll, processCompletion, starts
<1> QED
  BY <1>1, <1>2, <1>3, OneActorMoves DEF order, CompletionInv, TypeOK

LEMMA CompletionStep == ASSUME CompletionInv, [Next]_vars PROVE CompletionInv'
<1>1. CASE UNCHANGED vars
  BY <1>1 DEF vars, order, CompletionInv, TypeOK, CompletedOnce, Checked, OnePublisher
<1>2. ASSUME NEW c \in Callers, Request(c) \/ Continue(c) \/ Complete(c) PROVE CompletionInv'
  BY <1>2, RequestKeeps, ContinueKeeps, CompleteKeeps DEF Actors
<1>3. ASSUME NEW w \in Workers, Work(w) \/ dies(w) \/ starts(w) PROVE CompletionInv'
  BY <1>3, WorkerKeeps, CompleteKeeps DEF Work, Actors
<1>4. ASSUME NEW a \in Actors, throws(a) PROVE CompletionInv'
  <2>1. Done(a) /\ UNCHANGED order
    BY <1>4 DEF throws, AfterError, Done
  <2>2. errors' \in 0 .. MaxErrors
    BY <1>4, BoundAssumption DEF throws, CompletionInv, TypeOK
  <2> QED
    BY <2>1, <2>2, ActorIsDone DEF order, CompletionInv, TypeOK
<1>5. CASE windowElapses
  BY <1>5 DEF windowElapses, CompletionInv, TypeOK, CompletedOnce, Checked, OnePublisher
<1> QED
  BY <1>1, <1>2, <1>3, <1>4, <1>5 DEF Next

\* The inductive invariant: what requests have checked before they flip the order, and that
\* at most one of them has flipped it to COMPLETED and not yet said so.
THEOREM CompletionInvariant == Spec => []CompletionInv
<1>1. CompletionInv /\ [Next]_vars => CompletionInv'
  BY CompletionStep
<1> QED
  BY CompletionInit, <1>1, PTL DEF Spec

\* Every variable keeps its type, and a completion has read DELIVERED.
THEOREM CompletionTyping == Spec => []TypeOK
<1>1. CompletionInv => TypeOK
  BY DEF CompletionInv
<1> QED
  BY CompletionInvariant, <1>1, PTL

\* Any number of confirmations, status changes and workers publish order.completed once.
THEOREM CompletionIsOnce == Spec => []CompletedOnce
<1>1. CompletionInv => CompletedOnce
  BY DEF CompletionInv
<1> QED
  BY CompletionInvariant, <1>1, PTL

\* No request or worker, however stale what it read, takes a dispute back.
THEOREM DisputesStand == Spec => DisputeStands
<1>1. CompletionInv /\ [Next]_vars => (status = "DISPUTED" => status' = "DISPUTED")
  <2> SUFFICES ASSUME CompletionInv, [Next]_vars, status = "DISPUTED"
               PROVE  status' = "DISPUTED"
    OBVIOUS
  <2>1. \A a \in Actors : Checked(job[a]) /\ job[a] \in Job
    BY DEF CompletionInv, TypeOK, Job
  <2>2. ASSUME NEW c \in Callers, Request(c) PROVE status' = status
    BY <2>2 DEF Request, deliverOrder, processCarrierDelivery, transitionStatus, cancelOrder,
                confirmDelivery, Begin, order
  <2>3. ASSUME NEW c \in Callers, Continue(c) PROVE status' = status
    <3>1. c \in Actors
      BY DEF Actors
    <3>2. job[c].at \in {"deliver", "bridge", "transition"} => ~FlipMatches(c)
      BY <2>1, <3>1, EdgeFacts DEF FlipMatches, Checked, Job, TRANSITIONS
    <3> QED
      BY <2>3, <3>2 DEF Continue, deliveryFlips, writeSchedule, transitionFlips, confirmationFlips
  <2>4. ASSUME NEW a \in Actors, Complete(a) PROVE status' = status
    <3>1. job[a].at = "complete" => ~FlipMatches(a)
      BY <2>1 DEF FlipMatches, Checked
    <3> QED
      BY <2>4, <3>1 DEF Complete, completeOrder, completionFlips, publishCompleted, order
  <2>5. ASSUME NEW w \in Workers, poll(w) \/ processCompletion(w) \/ dies(w) \/ starts(w)
        PROVE  status' = status
    BY <2>5 DEF poll, processCompletion, dies, starts, order
  <2>6. ASSUME NEW a \in Actors, throws(a) PROVE status' = status
    BY <2>6 DEF throws, order
  <2>7. CASE windowElapses \/ UNCHANGED vars
    BY <2>7 DEF windowElapses, vars, order
  <2> QED
    BY <2>2, <2>3, <2>4, <2>5, <2>6, <2>7 DEF Next, Work, Actors
<1> QED
  BY CompletionInvariant, <1>1, PTL DEF Spec, DisputeStands
=============================================================================
