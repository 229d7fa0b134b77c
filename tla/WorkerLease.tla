----------------------------- MODULE WorkerLease -----------------------------
(***************************************************************************)
(* The lease that makes one process the owner of the P13 background job    *)
(* (worker-lease.service.ts) and the job it protects, the escalation of    *)
(* returns whose merchant did not answer (return-expiration.worker.ts).    *)
(*                                                                         *)
(* A member of Workers is one lifetime of a process: its holder id is made *)
(* at start, so a restarted process is another member.  An action is one   *)
(* statement on the database, or what a process does between two of them.  *)
(* Of the clock only expires_at > now() matters: fresh.                    *)
(*                                                                         *)
(* MaxFaults bounds what goes wrong while a process lives: an owner that   *)
(* misses its heartbeats, a forced expiry, a statement that throws.        *)
(***************************************************************************)
EXTENDS Naturals, FiniteSets

CONSTANTS
  Workers,    \* process lifetimes
  NoWorker,   \* holder_id IS NULL
  Survivors,  \* processes that are never killed nor shut down
  Returns,    \* return requests
  BatchSize,  \* BATCH_SIZE
  MaxFaults   \* faults of live processes

ASSUME WorkersAssumption == NoWorker \notin Workers /\ Survivors \subseteq Workers
ASSUME BoundsAssumption == BatchSize \in Nat \ {0} /\ MaxFaults \in Nat

VARIABLES
  holder, leaseEpoch, fresh, pollFailures,  \* the worker_leases row
  life,     \* per process: its timer, and whether it still runs
  state,    \* WorkerLifecycleState
  epoch,    \* the epoch a process believes it owns, 0 for none
  at,       \* where its tick is
  rested,   \* pollIntervalMs has passed since its last batch
  batch,    \* returns claimed and not yet looked at
  item,     \* the claimed return it is working on, as a set
  failed,   \* an item of its batch failed
  paused,   \* the P13 pause control
  ret,      \* return_requests.status, as far as this job sees it
  due,      \* return_requests.expires_at has passed
  faults,
  escalations, \* history: ESCALATED events of a return
  late,        \* history: escalations since a process last acquired, not owning
  afterPause,  \* history: escalations since the control was last set, paused
  misses       \* history: failed cycles since a process last acquired or succeeded

lease   == <<holder, leaseEpoch, fresh, pollFailures>>
process == <<life, state, epoch, at, rested, batch, item, failed>>
returns == <<ret, due, escalations>>
history == <<late, afterPause, misses>>
vars    == <<lease, process, paused, returns, faults, history>>

At == {"idle", "acquire", "renew", "control", "fence", "claim", "next",
       "control2", "look", "escalate", "report"}

TypeOK ==
  /\ holder \in Workers \cup {NoWorker}
  /\ leaseEpoch \in Nat
  /\ fresh \in BOOLEAN
  /\ pollFailures \in Nat
  /\ life \in [Workers -> {"unborn", "ticking", "stopping", "stopped", "gone"}]
  /\ state \in [Workers -> {"DISABLED", "STANDBY", "HELD", "HELD_PAUSED", "STOPPED"}]
  /\ epoch \in [Workers -> Nat]
  /\ at \in [Workers -> At]
  /\ rested \in [Workers -> BOOLEAN]
  /\ batch \in [Workers -> SUBSET Returns]
  /\ item \in [Workers -> SUBSET Returns]
  /\ failed \in [Workers -> BOOLEAN]
  /\ paused \in BOOLEAN
  /\ ret \in [Returns -> {"REQUESTED", "ESCALATED", "DECIDED"}]
  /\ due \in [Returns -> BOOLEAN]
  /\ faults \in Nat
  /\ escalations \in [Returns -> Nat]
  /\ late \in [Workers -> Nat]
  /\ afterPause \in [Workers -> Nat]
  /\ misses \in [Workers -> Nat]

Init ==
  /\ holder = NoWorker /\ leaseEpoch = 0 /\ fresh = FALSE /\ pollFailures = 0
  /\ life = [w \in Workers |-> "unborn"]
  /\ state = [w \in Workers |-> "DISABLED"]
  /\ epoch = [w \in Workers |-> 0]
  /\ at = [w \in Workers |-> "idle"]
  /\ rested = [w \in Workers |-> TRUE]
  /\ batch = [w \in Workers |-> {}]
  /\ item = [w \in Workers |-> {}]
  /\ failed = [w \in Workers |-> FALSE]
  /\ paused = FALSE
  /\ ret = [r \in Returns |-> "REQUESTED"]
  /\ due = [r \in Returns |-> FALSE]
  /\ faults = 0
  /\ escalations = [r \in Returns |-> 0]
  /\ late = [w \in Workers |-> 0]
  /\ afterPause = [w \in Workers |-> 0]
  /\ misses = [w \in Workers |-> 0]

-----------------------------------------------------------------------------
\* The statements on the lease row.

Fault == faults < MaxFaults /\ faults' = faults + 1

\* WHERE holder_id = me AND epoch = mine: the fence of every write but the acquisition.
Owns(w) == holder = w /\ leaseEpoch = epoch[w] /\ epoch[w] > 0

\* WHERE holder_id IS NULL OR expires_at <= now() OR holder_id = me.
AcquirableBug(w) == holder = NoWorker \/ holder = w
Acquirable(w) == holder = NoWorker \/ ~fresh \/ holder = w

TakeLeaseBug(w) ==
  /\ holder' = w
  /\ leaseEpoch' = IF leaseEpoch = 0 THEN 1 ELSE leaseEpoch
  /\ fresh' = TRUE
  /\ pollFailures' = 0
TakeLease(w) ==
  /\ holder' = w
  /\ leaseEpoch' = leaseEpoch + 1
  /\ fresh' = TRUE
  /\ pollFailures' = 0

\* The process goes to a step of its tick, in a lifecycle state.
Step(w, label) == at' = [at EXCEPT ![w] = label]
Report(w, s)   == state' = [state EXCEPT ![w] = s]

LoseFence(w) ==
  /\ epoch' = [epoch EXCEPT ![w] = 0]
  /\ Report(w, "STANDBY")
  /\ Step(w, "idle")

-----------------------------------------------------------------------------
\* The life of a process.

onModuleInit(w) ==
  /\ life[w] = "unborn"
  /\ life' = [life EXCEPT ![w] = "ticking"]
  /\ Report(w, "STANDBY")
  /\ UNCHANGED <<lease, epoch, at, rested, batch, item, failed, paused, returns,
                 faults, history>>

\* Orderly shutdown: the timer stops; only a process that holds the lease will release it.
\* A tick in flight goes on.
onModuleDestroy(w) ==
  /\ life[w] = "ticking" /\ w \notin Survivors
  /\ IF state[w] \in {"HELD", "HELD_PAUSED"}
     THEN life' = [life EXCEPT ![w] = "stopping"] /\ UNCHANGED state
     ELSE life' = [life EXCEPT ![w] = "stopped"] /\ Report(w, "STOPPED")
  /\ UNCHANGED <<lease, epoch, at, rested, batch, item, failed, paused, returns,
                 faults, history>>

\* The release is fenced, and given up when it fails or takes too long.
releaseBug(w) ==
  /\ life[w] = "stopping"
  /\ life' = [life EXCEPT ![w] = "stopped"]
  /\ Report(w, "STOPPED")
  /\ holder' = NoWorker /\ fresh' = FALSE
  /\ UNCHANGED <<leaseEpoch, pollFailures, epoch, at, rested, batch, item, failed,
                 paused, returns, faults, history>>
release(w) ==
  /\ life[w] = "stopping"
  /\ life' = [life EXCEPT ![w] = "stopped"]
  /\ Report(w, "STOPPED")
  /\ \/ Owns(w) /\ holder' = NoWorker /\ fresh' = FALSE /\ UNCHANGED faults
     \/ ~Owns(w) /\ UNCHANGED <<holder, fresh, faults>>
     \/ Fault /\ UNCHANGED <<holder, fresh>>
  /\ UNCHANGED <<leaseEpoch, pollFailures, epoch, at, rested, batch, item, failed,
                 paused, returns, history>>

\* The process dies, in the middle of a tick or not.
crash(w) ==
  /\ life[w] \in {"ticking", "stopping", "stopped"} /\ w \notin Survivors
  /\ life' = [life EXCEPT ![w] = "gone"]
  /\ Report(w, "DISABLED")
  /\ epoch' = [epoch EXCEPT ![w] = 0]
  /\ Step(w, "idle")
  /\ batch' = [batch EXCEPT ![w] = {}]
  /\ item' = [item EXCEPT ![w] = {}]
  /\ failed' = [failed EXCEPT ![w] = FALSE]
  /\ UNCHANGED <<lease, rested, paused, returns, faults, history>>

-----------------------------------------------------------------------------
\* One tick.

\* The timer fires; busy keeps a second tick of the same process out.
tick(w) ==
  /\ life[w] = "ticking" /\ at[w] = "idle"
  /\ Step(w, IF epoch[w] = 0 THEN "acquire" ELSE "renew")
  /\ UNCHANGED <<lease, life, state, epoch, rested, batch, item, failed, paused,
                 returns, faults, history>>

tryAcquire(w) ==
  /\ at[w] = "acquire"
  /\ Acquirable(w)
  /\ TakeLease(w)
  /\ epoch' = [epoch EXCEPT ![w] = leaseEpoch']
  /\ Report(w, "HELD")
  /\ Step(w, "control")
  /\ late' = [late EXCEPT ![w] = 0]
  /\ misses' = [misses EXCEPT ![w] = 0]
  /\ UNCHANGED <<life, rested, batch, item, failed, paused, returns, faults, afterPause>>

\* Held by another process, or the statement threw, before or after it took effect.
\* The failure cannot be recorded: that write is fenced to epoch 0, which owns nothing.
handleAcquisitionFailure(w) ==
  /\ at[w] = "acquire"
  /\ \/ ~Acquirable(w) /\ UNCHANGED <<lease, faults>>
     \/ Fault /\ UNCHANGED lease
     \/ Fault /\ Acquirable(w) /\ TakeLease(w)
  /\ Report(w, "STANDBY")
  /\ Step(w, "idle")
  /\ UNCHANGED <<life, epoch, rested, batch, item, failed, paused, returns, history>>

\* The fence in front of the tick, of the batch and of each item: a heartbeat too.
After(w) == CASE at[w] = "renew" -> "control"
              [] at[w] = "fence" -> "claim"
              [] at[w] = "next"  -> "control2"

renewAndFenceBug(w) ==
  /\ at[w] \in {"renew", "fence", "next"}
  /\ at[w] = "next" \/ Owns(w)
  /\ fresh' = (fresh \/ Owns(w))
  /\ Step(w, After(w))
  /\ IF at[w] = "next"
     THEN \E r \in batch[w] : /\ item' = [item EXCEPT ![w] = {r}]
                              /\ batch' = [batch EXCEPT ![w] = @ \ {r}]
     ELSE UNCHANGED <<batch, item>>
  /\ UNCHANGED <<holder, leaseEpoch, pollFailures, life, state, epoch, rested, failed,
                 paused, returns, faults, history>>
renewAndFence(w) ==
  /\ at[w] \in {"renew", "fence", "next"}
  /\ Owns(w)
  /\ fresh' = TRUE
  /\ Step(w, After(w))
  /\ IF at[w] = "next"
     THEN \E r \in batch[w] : /\ item' = [item EXCEPT ![w] = {r}]
                              /\ batch' = [batch EXCEPT ![w] = @ \ {r}]
     ELSE UNCHANGED <<batch, item>>
  /\ UNCHANGED <<holder, leaseEpoch, pollFailures, life, state, epoch, rested, failed,
                 paused, returns, faults, history>>

fenceLost(w) ==
  /\ at[w] \in {"renew", "fence", "next"}
  /\ ~Owns(w)
  /\ LoseFence(w)
  /\ batch' = [batch EXCEPT ![w] = {}]
  /\ UNCHANGED <<lease, life, rested, item, failed, paused, returns, faults, history>>

\* The pause control, then the cadence of batches.
isPaused(w) ==
  /\ at[w] = "control"
  /\ Report(w, IF paused THEN "HELD_PAUSED" ELSE "HELD")
  /\ IF ~paused /\ rested[w]
     THEN Step(w, "fence") /\ rested' = [rested EXCEPT ![w] = FALSE]
     ELSE Step(w, "idle") /\ UNCHANGED rested
  /\ UNCHANGED <<lease, life, epoch, batch, item, failed, paused, returns, faults, history>>

\* recordPollFailure: a write fenced to the epoch.
FailureBug(w) ==
  /\ pollFailures' = IF holder = NoWorker THEN pollFailures ELSE pollFailures + 1
  /\ misses' = [misses EXCEPT ![w] = @ + 1]
Failure(w) ==
  /\ pollFailures' = IF Owns(w) THEN pollFailures + 1 ELSE pollFailures
  /\ misses' = [misses EXCEPT ![w] = @ + 1]

\* The control cannot be read, or the claim throws: a failed cycle.
cycleFails(w) ==
  /\ at[w] \in {"control", "claim"}
  /\ Fault
  /\ Failure(w)
  /\ Step(w, "idle")
  /\ UNCHANGED <<holder, leaseEpoch, fresh, life, state, epoch, rested, batch, item,
                 failed, paused, returns, late, afterPause>>

\* Any other statement throws: runQuietly logs it and the tick is over.
tickThrows(w) ==
  /\ at[w] \in {"renew", "fence", "next", "control2", "report"}
  /\ Fault
  /\ Step(w, "idle")
  /\ batch' = [batch EXCEPT ![w] = {}]
  /\ item' = [item EXCEPT ![w] = {}]
  /\ failed' = [failed EXCEPT ![w] = FALSE]
  /\ UNCHANGED <<lease, life, state, epoch, rested, paused, returns, history>>

Overdue == {r \in Returns : due[r] /\ ret[r] = "REQUESTED"}

\* UPDATE ... LIMIT BATCH_SIZE ... RETURNING id.  (A row another transaction has locked
\* is skipped; here a transaction on one row is one action.)
claim(w) ==
  /\ at[w] = "claim"
  /\ \E rows \in SUBSET Overdue :
       /\ Cardinality(rows) = IF Cardinality(Overdue) > BatchSize
                              THEN BatchSize ELSE Cardinality(Overdue)
       /\ batch' = [batch EXCEPT ![w] = rows]
       /\ Step(w, IF rows = {} THEN "report" ELSE "next")
  /\ failed' = [failed EXCEPT ![w] = FALSE]
  /\ UNCHANGED <<lease, life, state, epoch, rested, item, paused, returns, faults, history>>

\* The pause control is read again before each item.
isPausedAgainBug(w) ==
  /\ at[w] = "control2"
  /\ Step(w, "look") /\ UNCHANGED <<state, batch, item>>
  /\ UNCHANGED <<lease, life, epoch, rested, failed, paused, returns, faults, history>>
isPausedAgain(w) ==
  /\ at[w] = "control2"
  /\ IF paused
     THEN /\ Report(w, "HELD_PAUSED")
          /\ Step(w, "idle")
          /\ batch' = [batch EXCEPT ![w] = {}]
          /\ item' = [item EXCEPT ![w] = {}]
     ELSE Step(w, "look") /\ UNCHANGED <<state, batch, item>>
  /\ UNCHANGED <<lease, life, epoch, rested, failed, paused, returns, faults, history>>

NextItem(w) ==
  /\ item' = [item EXCEPT ![w] = {}]
  /\ Step(w, IF batch[w] = {} THEN "report" ELSE "next")

\* processExpiration: a return its merchant has answered meanwhile is skipped.
processExpiration(w) ==
  /\ at[w] = "look"
  /\ \E r \in item[w] :
       IF ret[r] = "REQUESTED" THEN Step(w, "escalate") /\ UNCHANGED item ELSE NextItem(w)
  /\ UNCHANGED <<lease, life, state, epoch, rested, batch, failed, paused, returns,
                 faults, history>>

\* The flip is conditional on REQUESTED, not on the lease.
escalateReturnBug(w) ==
  /\ at[w] = "escalate"
  /\ \E r \in item[w] :
       /\ ret' = [ret EXCEPT ![r] = "ESCALATED"]
       /\ escalations' = [escalations EXCEPT ![r] = @ + 1]
  /\ late' = [late EXCEPT ![w] = @ + (IF Owns(w) THEN 0 ELSE 1)]
  /\ afterPause' = [afterPause EXCEPT ![w] = @ + (IF paused THEN 1 ELSE 0)]
  /\ NextItem(w)
  /\ UNCHANGED <<lease, life, state, epoch, rested, batch, failed, paused, due, faults, misses>>
escalateReturn(w) ==
  /\ at[w] = "escalate"
  /\ \E r \in item[w] :
       IF ret[r] = "REQUESTED"
       THEN /\ ret' = [ret EXCEPT ![r] = "ESCALATED"]
            /\ escalations' = [escalations EXCEPT ![r] = @ + 1]
            /\ late' = [late EXCEPT ![w] = @ + (IF Owns(w) THEN 0 ELSE 1)]
            /\ afterPause' = [afterPause EXCEPT ![w] = @ + (IF paused THEN 1 ELSE 0)]
       ELSE UNCHANGED <<ret, escalations, late, afterPause>>
  /\ NextItem(w)
  /\ UNCHANGED <<lease, life, state, epoch, rested, batch, failed, paused, due, faults, misses>>

\* The business calendar, a read or the escalation throws: the item failed, the batch goes on.
itemFails(w) ==
  /\ at[w] \in {"look", "escalate"}
  /\ Fault
  /\ failed' = [failed EXCEPT ![w] = TRUE]
  /\ NextItem(w)
  /\ UNCHANGED <<lease, life, state, epoch, rested, batch, paused, returns, history>>

\* recordPollFailure or recordPollSuccess, both fenced to the epoch.
reportCycleBug(w) ==
  /\ at[w] = "report"
  /\ IF failed[w]
     THEN Failure(w)
     ELSE /\ pollFailures' = IF Owns(w) THEN pollFailures - 1 ELSE pollFailures
          /\ misses' = [misses EXCEPT ![w] = 0]
  /\ Step(w, "idle")
  /\ failed' = [failed EXCEPT ![w] = FALSE]
  /\ UNCHANGED <<holder, leaseEpoch, fresh, life, state, epoch, rested, batch, item,
                 paused, returns, faults, late, afterPause>>
reportCycle(w) ==
  /\ at[w] = "report"
  /\ IF failed[w]
     THEN Failure(w)
     ELSE /\ pollFailures' = IF Owns(w) THEN 0 ELSE pollFailures
          /\ misses' = [misses EXCEPT ![w] = 0]
  /\ Step(w, "idle")
  /\ failed' = [failed EXCEPT ![w] = FALSE]
  /\ UNCHANGED <<holder, leaseEpoch, fresh, life, state, epoch, rested, batch, item,
                 paused, returns, faults, late, afterPause>>

-----------------------------------------------------------------------------
\* Time, operators, merchants.

\* The lease runs out.  That a live process misses every heartbeat of a TTL is a fault.
leaseExpires ==
  /\ fresh
  /\ fresh' = FALSE
  /\ IF life[holder] = "ticking" THEN Fault ELSE UNCHANGED faults
  /\ UNCHANGED <<holder, leaseEpoch, pollFailures, process, paused, returns, history>>

intervalPasses(w) ==
  /\ ~rested[w]
  /\ rested' = [rested EXCEPT ![w] = TRUE]
  /\ UNCHANGED <<lease, life, state, epoch, at, batch, item, failed, paused, returns,
                 faults, history>>

\* An operator sets the pause control.
setPaused(p) ==
  /\ paused = ~p
  /\ paused' = p
  /\ IF p THEN Fault ELSE UNCHANGED faults
  /\ afterPause' = [w \in Workers |-> 0]
  /\ UNCHANGED <<lease, process, returns, late, misses>>

slaElapses(r) ==
  /\ ~due[r]
  /\ due' = [due EXCEPT ![r] = TRUE]
  /\ UNCHANGED <<lease, process, paused, ret, escalations, faults, history>>

\* The merchant answers or the buyer cancels (transitionReturn), or an administrator
\* resolves the escalation; each flip is conditional on the status that was read.
answer(r) ==
  /\ ret[r] \in {"REQUESTED", "ESCALATED"}
  /\ ret' = [ret EXCEPT ![r] = "DECIDED"]
  /\ UNCHANGED <<lease, process, paused, due, escalations, faults, history>>

-----------------------------------------------------------------------------
TickStep(w) ==
  \/ tick(w) \/ tryAcquire(w) \/ handleAcquisitionFailure(w) \/ renewAndFence(w)
  \/ fenceLost(w) \/ isPaused(w) \/ cycleFails(w) \/ tickThrows(w) \/ claim(w)
  \/ isPausedAgain(w) \/ processExpiration(w) \/ escalateReturn(w) \/ itemFails(w)
  \/ reportCycle(w)

Next ==
  \/ \E w \in Workers : \/ onModuleInit(w) \/ onModuleDestroy(w) \/ release(w) \/ crash(w)
                        \/ TickStep(w) \/ intervalPasses(w)
  \/ leaseExpires
  \/ \E p \in BOOLEAN : setPaused(p)
  \/ \E r \in Returns : slaElapses(r) \/ answer(r)

\* A surviving process starts; the timer of a process that lives fires and its statements
\* return; time passes.  Nothing is assumed of operators and merchants, nor that a process
\* which may die starts, dies or finishes its shutdown.
Fairness ==
  /\ \A w \in Survivors : WF_vars(onModuleInit(w))
  /\ \A w \in Workers : WF_vars(TickStep(w)) /\ WF_vars(intervalPasses(w))
  /\ WF_vars(leaseExpires)

Spec     == Init /\ [][Next]_vars
FairSpec == Spec /\ Fairness

-----------------------------------------------------------------------------
\* An epoch belongs to one process: no other has it, it is not ahead of the row's, and while
\* it is the row's the row names that process or nobody (tryAcquire's epoch + 1).
EpochsAreOwned ==
  \A w \in Workers : epoch[w] > 0 =>
    /\ epoch[w] <= leaseEpoch
    /\ epoch[w] = leaseEpoch => holder \in {w, NoWorker}
    /\ \A v \in Workers \ {w} : epoch[v] # epoch[w]

\* A process that lost the lease in the middle of a batch, however long it was stalled,
\* escalates at most the one return it was on (the fence before each item).
OvertakenStopsWithinAnItem == \A w \in Workers : late[w] <= 1

\* Likewise after an operator pauses the job.
PauseStopsWithinAnItem == \A w \in Workers : afterPause[w] <= 1

\* A return is escalated once, whichever processes worked on it, and its merchant's answer
\* is not overwritten (the flip's WHERE status = 'REQUESTED').
EscalatedOnce == \A r \in Returns : escalations[r] <= 1

\* The row's failure counter is what its owner counted: neither a process that lost the lease
\* nor a previous owner adds to it or clears it (the fence of recordPollFailure/Success).
FailuresAreTheOwners == \A w \in Workers : Owns(w) => pollFailures = misses[w]

\* A lease that has not run out leaves its process only by that process's own release.
LiveLeaseIsKept ==
  [][\A w \in Workers :
       holder = w /\ fresh /\ holder' # w
         => life[w] = "stopping" /\ life'[w] = "stopped"]_vars

\* The lease and the escalations keep the abstract promise: the fences at each item, and the
\* flip's WHERE, are enough although the escalation itself is not fenced.
Promise == INSTANCE LeasePromise WITH
  owner <- holder, live <- fresh, Items <- Returns, done <- escalations,
  spare <- [w \in Workers |-> epoch[w] > 0 /\ late[w] = 0]
LeaseKept == Promise!Spec

\* A return whose merchant did not answer is escalated or answered in the end, though owners
\* crash, stall or are shut down, unless the job stays paused or is paused again and again.
OverdueIsEscalated ==
  <>[]~paused => \A r \in Returns : (due[r] /\ ret[r] = "REQUESTED") ~> ret[r] # "REQUESTED"
==============================================================================
