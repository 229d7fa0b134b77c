----------------------------- MODULE LeasePromise -----------------------------
(***************************************************************************)
(* What a lease promises of the work done under it, by processes that may  *)
(* stall for any time: a lease that has not run out is not taken from its  *)
(* owner; an item is worked on once; and only the owner works, but for the *)
(* one item that a process which has lost the lease may be in the middle of*)
(***************************************************************************)
EXTENDS Naturals

CONSTANTS
  Workers,   \* processes
  NoWorker,  \* nobody owns the lease
  Items      \* the items to be worked on

VARIABLES
  owner,  \* the owner of the lease
  live,   \* the lease has not run out
  spare,  \* per process: it has taken the lease, and not yet worked without it
  done    \* per item: how often it was worked on

vars == <<owner, live, spare, done>>

Init ==
  /\ owner = NoWorker
  /\ live = FALSE
  /\ spare = [w \in Workers |-> FALSE]
  /\ done = [i \in Items |-> 0]

\* A process that takes the lease may never learn that it did.
Take(w) ==
  /\ owner \in {w, NoWorker} \/ ~live
  /\ owner' = w
  /\ live' = TRUE
  /\ spare' \in {spare, [spare EXCEPT ![w] = TRUE]}
  /\ UNCHANGED done

Extend ==
  /\ owner # NoWorker
  /\ live' = TRUE
  /\ UNCHANGED <<owner, spare, done>>

RunOut ==
  /\ live' = FALSE
  /\ UNCHANGED <<owner, spare, done>>

Leave ==
  /\ owner' = NoWorker
  /\ live' = FALSE
  /\ UNCHANGED <<spare, done>>

\* A process finds out that it has lost the lease, or dies.
Stop(w) ==
  /\ spare' = [spare EXCEPT ![w] = FALSE]
  /\ UNCHANGED <<owner, live, done>>

Work(w, i) ==
  /\ done[i] = 0
  /\ done' = [done EXCEPT ![i] = 1]
  /\ \/ owner = w /\ UNCHANGED spare
     \/ spare[w] /\ spare' = [spare EXCEPT ![w] = FALSE]
  /\ UNCHANGED <<owner, live>>

Next ==
  \/ \E w \in Workers : Take(w) \/ Stop(w) \/ \E i \in Items : Work(w, i)
  \/ Extend \/ RunOut \/ Leave

Spec == Init /\ [][Next]_vars
===============================================================================
