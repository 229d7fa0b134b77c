-------------------------- MODULE WorkerLeaseProofs --------------------------
(***************************************************************************)
(* Theorems about WorkerLease, for any set of processes and of returns,    *)
(* any batch size and any number of faults.                                *)
(***************************************************************************)
EXTENDS WorkerLease, TLAPS

\* The conjuncts of the type invariant but those of the lease row's flag.
TypedBut ==
  /\ holder \in Workers \cup {NoWorker}
  /\ leaseEpoch \in Nat
  /\ pollFailures \in Nat
  /\ life \in [Workers -> {"unborn", "ticking", "stopping", "stopped", "gone"}]
  /\ state \in [Workers -> {"DISABLED", "STANDBY", "HELD", "HELD_PAUSED", "STOPPED"}]
  /\ epoch \in [Workers -> Nat]
  /\ at \in [Workers -> At]
  /\ rested \in [Workers -> BOOLEAN]
  /\ batch \in [Workers -> SUBSET Returns]
  /\ item \in [Workers -> SUBSET Returns]
  /\ failed \in [Workers -> BOOLEAN]
  /\ ret \in [Returns -> {"REQUESTED", "ESCALATED", "DECIDED"}]
  /\ due \in [Returns -> BOOLEAN]
  /\ faults \in Nat
  /\ escalations \in [Returns -> Nat]
  /\ late \in [Workers -> Nat]
  /\ afterPause \in [Workers -> Nat]
  /\ misses \in [Workers -> Nat]

\* Typing of a step, for every operation.
LEMMA TypingStep == TypeOK /\ [Next]_vars => TypeOK'
<1> SUFFICES ASSUME TypeOK, [Next]_vars PROVE TypeOK'
  OBVIOUS
<1>1. TypeOK
  OBVIOUS
<1>2. ASSUME NEW w \in Workers, onModuleInit(w) PROVE TypeOK'
  BY <1>2, <1>1 DEF TypeOK, At, lease, process, returns, history, onModuleInit, Report
<1>3. ASSUME NEW w \in Workers, onModuleDestroy(w) PROVE TypeOK'
  BY <1>3, <1>1 DEF TypeOK, At, lease, process, returns, history, onModuleDestroy, Report
<1>4. ASSUME NEW w \in Workers, release(w) PROVE TypeOK'
  <2>1. TypedBut'
    BY <1>4, <1>1 DEF TypeOK, TypedBut, At, lease, process, returns, history, release, Report, Owns, Fault
  <2>2. fresh' \in BOOLEAN /\ paused' \in BOOLEAN
    BY <1>4, <1>1, Zenon DEF TypeOK, lease, process, returns, history, release, Report, Owns, Fault
  <2> QED
    BY <2>1, <2>2 DEF TypeOK, TypedBut
<1>5. ASSUME NEW w \in Workers, crash(w) PROVE TypeOK'
  BY <1>5, <1>1 DEF TypeOK, At, lease, process, returns, history, crash, Report, Step
<1>6. ASSUME NEW w \in Workers, tick(w) PROVE TypeOK'
  BY <1>6, <1>1 DEF TypeOK, At, lease, process, returns, history, tick, Step
<1>7. ASSUME NEW w \in Workers, tryAcquire(w) PROVE TypeOK'
  BY <1>7, <1>1 DEF TypeOK, At, lease, process, returns, history, tryAcquire, TakeLease, Report, Step
<1>8. ASSUME NEW w \in Workers, handleAcquisitionFailure(w) PROVE TypeOK'
  <2>1. TypedBut'
    BY <1>8, <1>1 DEF TypeOK, TypedBut, At, lease, process, returns, history, handleAcquisitionFailure, TakeLease, Report, Step, Fault
  <2>2. fresh' \in BOOLEAN /\ paused' \in BOOLEAN
    BY <1>8, <1>1, Zenon DEF TypeOK, lease, process, returns, history, handleAcquisitionFailure, TakeLease, Report, Step, Fault
  <2> QED
    BY <2>1, <2>2 DEF TypeOK, TypedBut
<1>9. ASSUME NEW w \in Workers, renewAndFence(w) PROVE TypeOK'
  BY <1>9, <1>1 DEF TypeOK, At, lease, process, returns, history, renewAndFence, Step, After
<1>10. ASSUME NEW w \in Workers, fenceLost(w) PROVE TypeOK'
  BY <1>10, <1>1 DEF TypeOK, At, lease, process, returns, history, fenceLost, LoseFence, Report, Step
<1>11. ASSUME NEW w \in Workers, isPaused(w) PROVE TypeOK'
  BY <1>11, <1>1 DEF TypeOK, At, lease, process, returns, history, isPaused, Report, Step
<1>12. ASSUME NEW w \in Workers, cycleFails(w) PROVE TypeOK'
  BY <1>12, <1>1 DEF TypeOK, At, lease, process, returns, history, cycleFails, Fault, Failure, Step
<1>13. ASSUME NEW w \in Workers, tickThrows(w) PROVE TypeOK'
  BY <1>13, <1>1 DEF TypeOK, At, lease, process, returns, history, tickThrows, Fault, Step
<1>14. ASSUME NEW w \in Workers, claim(w) PROVE TypeOK'
  BY <1>14, <1>1 DEF TypeOK, At, lease, process, returns, history, claim, Step, Overdue
<1>15. ASSUME NEW w \in Workers, isPausedAgain(w) PROVE TypeOK'
  BY <1>15, <1>1 DEF TypeOK, At, lease, process, returns, history, isPausedAgain, Report, Step
<1>16. ASSUME NEW w \in Workers, processExpiration(w) PROVE TypeOK'
  BY <1>16, <1>1 DEF TypeOK, At, lease, process, returns, history, processExpiration, Step, NextItem
<1>17. ASSUME NEW w \in Workers, escalateReturn(w) PROVE TypeOK'
  BY <1>17, <1>1, SMTT(40) DEF TypeOK, At, lease, process, returns, history, escalateReturn, Step, NextItem
<1>18. ASSUME NEW w \in Workers, itemFails(w) PROVE TypeOK'
  BY <1>18, <1>1 DEF TypeOK, At, lease, process, returns, history, itemFails, Fault, Step, NextItem
<1>19. ASSUME NEW w \in Workers, reportCycle(w) PROVE TypeOK'
  BY <1>19, <1>1 DEF TypeOK, At, lease, process, returns, history, reportCycle, Failure, Step
<1>20. ASSUME NEW w \in Workers, intervalPasses(w) PROVE TypeOK'
  BY <1>20, <1>1 DEF TypeOK, At, lease, process, returns, history, intervalPasses
<1>21. ASSUME leaseExpires PROVE TypeOK'
  <2>1. TypedBut'
    BY <1>21, <1>1 DEF TypeOK, TypedBut, At, lease, process, returns, history, leaseExpires, Fault
  <2>2. fresh' \in BOOLEAN /\ paused' \in BOOLEAN
    BY <1>21, <1>1, Zenon DEF TypeOK, lease, process, returns, history, leaseExpires, Fault
  <2> QED
    BY <2>1, <2>2 DEF TypeOK, TypedBut
<1>22. ASSUME NEW p \in BOOLEAN, setPaused(p) PROVE TypeOK'
  BY <1>22, <1>1 DEF TypeOK, At, lease, process, returns, history, setPaused, Fault
<1>23. ASSUME NEW r \in Returns, slaElapses(r) PROVE TypeOK'
  BY <1>23, <1>1 DEF TypeOK, At, lease, process, returns, history, slaElapses
<1>24. ASSUME NEW r \in Returns, answer(r) PROVE TypeOK'
  BY <1>24, <1>1 DEF TypeOK, At, lease, process, returns, history, answer
<1>25. CASE UNCHANGED vars
  BY <1>25, <1>1 DEF TypeOK, At, lease, process, returns, history, vars
<1> QED
  BY <1>2, <1>3, <1>4, <1>5, <1>6, <1>7, <1>8, <1>9, <1>10, <1>11, <1>12, <1>13, <1>14, <1>15, <1>16, <1>17, <1>18, <1>19, <1>20, <1>21, <1>22, <1>23, <1>24, <1>25 DEF Next, TickStep

\* A step keeps epochs apart: only an acquisition makes one, and it makes a new one.
LEMMA EpochStep ==
  ASSUME TypeOK, EpochsAreOwned, [Next]_vars PROVE EpochsAreOwned'
<1>1. ASSUME NEW w \in Workers, release(w) PROVE EpochsAreOwned'
  BY <1>1 DEF TypeOK, EpochsAreOwned, release, Owns, history, returns
<1>2. ASSUME NEW w \in Workers, crash(w) PROVE EpochsAreOwned'
  BY <1>2 DEF TypeOK, EpochsAreOwned, crash, Step, lease, history, returns
<1>3. ASSUME NEW w \in Workers, tryAcquire(w) PROVE EpochsAreOwned'
  BY <1>3 DEF TypeOK, EpochsAreOwned, tryAcquire, TakeLease, Step, returns
<1>4. ASSUME NEW w \in Workers, handleAcquisitionFailure(w) PROVE EpochsAreOwned'
  BY <1>4 DEF TypeOK, EpochsAreOwned, handleAcquisitionFailure, TakeLease, Step, lease,
       history, returns
<1>5. ASSUME NEW w \in Workers, fenceLost(w) PROVE EpochsAreOwned'
  BY <1>5 DEF TypeOK, EpochsAreOwned, fenceLost, LoseFence, Step, lease, history, returns
<1>6. CASE UNCHANGED <<holder, leaseEpoch, epoch>>
  BY <1>6 DEF TypeOK, EpochsAreOwned
<1> QED
  BY <1>1, <1>2, <1>3, <1>4, <1>5, <1>6
  DEF Next, TickStep, vars, lease, process, returns, history, onModuleInit, onModuleDestroy,
       tick, renewAndFence, isPaused, cycleFails, tickThrows, claim, isPausedAgain,
       processExpiration, escalateReturn, itemFails, reportCycle, intervalPasses,
       leaseExpires, setPaused, slaElapses, answer

\* Why a process that was overtaken stops: once it has escalated late it can pass no fence.
OvertakenInv ==
  \A w \in Workers :
    /\ late[w] <= 1
    /\ epoch[w] = 0 => at[w] \in {"idle", "acquire"}
    /\ epoch[w] > 0 /\ late[w] = 1 =>
         ~Owns(w) /\ at[w] \notin {"control2", "look", "escalate"}

\* A process does not come to own an epoch it had lost.
LEMMA LostStaysLost ==
  ASSUME TypeOK, EpochsAreOwned, [Next]_vars, NEW w \in Workers,
         epoch[w] > 0, epoch'[w] = epoch[w], ~Owns(w)
  PROVE  ~Owns(w)'
<1>1. ASSUME NEW v \in Workers, release(v) PROVE ~Owns(w)'
  BY <1>1 DEF TypeOK, EpochsAreOwned, Owns, release, Owns, history, returns
<1>2. ASSUME NEW v \in Workers, crash(v) PROVE ~Owns(w)'
  BY <1>2 DEF TypeOK, EpochsAreOwned, Owns, crash, Step, lease, history, returns
<1>3. ASSUME NEW v \in Workers, tryAcquire(v) PROVE ~Owns(w)'
  BY <1>3 DEF TypeOK, EpochsAreOwned, Owns, tryAcquire, TakeLease, Step, returns
<1>4. ASSUME NEW v \in Workers, handleAcquisitionFailure(v) PROVE ~Owns(w)'
  BY <1>4 DEF TypeOK, EpochsAreOwned, Owns, handleAcquisitionFailure, TakeLease, Step,
       lease, history, returns
<1>5. ASSUME NEW v \in Workers, fenceLost(v) PROVE ~Owns(w)'
  BY <1>5 DEF TypeOK, EpochsAreOwned, Owns, fenceLost, LoseFence, Step, lease, history,
       returns
<1>6. CASE UNCHANGED <<holder, leaseEpoch, epoch>>
  BY <1>6 DEF TypeOK, EpochsAreOwned, Owns
<1> QED
  BY <1>1, <1>2, <1>3, <1>4, <1>5, <1>6
  DEF Next, TickStep, vars, lease, process, returns, history, onModuleInit, onModuleDestroy,
       tick, renewAndFence, isPaused, cycleFails, tickThrows, claim, isPausedAgain,
       processExpiration, escalateReturn, itemFails, reportCycle, intervalPasses,
       leaseExpires, setPaused, slaElapses, answer

LEMMA OvertakenStep ==
  ASSUME TypeOK, TypeOK', EpochsAreOwned, OvertakenInv, [Next]_vars PROVE OvertakenInv'
<1> DEFINE Lost == \A w \in Workers :
             epoch[w] > 0 /\ epoch'[w] = epoch[w] /\ ~Owns(w) => ~Owns(w)'
<1>0. Lost
  BY LostStaysLost
<1> HIDE DEF Lost
<1>1. ASSUME NEW w \in Workers, crash(w) PROVE OvertakenInv'
  BY <1>1, <1>0 DEF Lost, TypeOK, OvertakenInv, crash, Step, lease, history, returns
<1>2. ASSUME NEW w \in Workers, tick(w) PROVE OvertakenInv'
  BY <1>2, <1>0 DEF Lost, TypeOK, OvertakenInv, tick, Step, lease, history, returns
<1>3. ASSUME NEW w \in Workers, tryAcquire(w) PROVE OvertakenInv'
  BY <1>3, <1>0 DEF Lost, TypeOK, OvertakenInv, tryAcquire, TakeLease, Step, returns
<1>4. ASSUME NEW w \in Workers, handleAcquisitionFailure(w) PROVE OvertakenInv'
  BY <1>4, <1>0 DEF Lost, TypeOK, OvertakenInv, handleAcquisitionFailure, TakeLease, Step,
       lease, history, returns
<1>5. ASSUME NEW w \in Workers, renewAndFence(w) PROVE OvertakenInv'
  BY <1>5, <1>0 DEF Lost, TypeOK, OvertakenInv, renewAndFence, Step, After, history, returns
<1>6. ASSUME NEW w \in Workers, fenceLost(w) PROVE OvertakenInv'
  BY <1>6, <1>0 DEF Lost, TypeOK, OvertakenInv, fenceLost, LoseFence, Step, lease, history,
       returns
<1>7. ASSUME NEW w \in Workers, isPaused(w) PROVE OvertakenInv'
  BY <1>7, <1>0 DEF Lost, TypeOK, OvertakenInv, isPaused, Step, lease, history, returns
<1>8. ASSUME NEW w \in Workers, cycleFails(w) PROVE OvertakenInv'
  BY <1>8, <1>0 DEF Lost, TypeOK, OvertakenInv, cycleFails, Failure, Step, returns
<1>9. ASSUME NEW w \in Workers, tickThrows(w) PROVE OvertakenInv'
  BY <1>9, <1>0 DEF Lost, TypeOK, OvertakenInv, tickThrows, Step, lease, history, returns
<1>10. ASSUME NEW w \in Workers, claim(w) PROVE OvertakenInv'
  BY <1>10, <1>0 DEF Lost, TypeOK, OvertakenInv, claim, Step, lease, history, returns
<1>11. ASSUME NEW w \in Workers, isPausedAgain(w) PROVE OvertakenInv'
  BY <1>11, <1>0 DEF Lost, TypeOK, OvertakenInv, isPausedAgain, Step, lease, history,
       returns
<1>12. ASSUME NEW w \in Workers, processExpiration(w) PROVE OvertakenInv'
  BY <1>12, <1>0 DEF Lost, TypeOK, OvertakenInv, processExpiration, Step, NextItem, lease,
       history, returns
<1>13. ASSUME NEW w \in Workers, escalateReturn(w) PROVE OvertakenInv'
  BY <1>13, <1>0 DEF Lost, TypeOK, OvertakenInv, escalateReturn, Step, NextItem, lease
<1>14. ASSUME NEW w \in Workers, itemFails(w) PROVE OvertakenInv'
  BY <1>14, <1>0 DEF Lost, TypeOK, OvertakenInv, itemFails, Step, NextItem, lease, history,
       returns
<1>15. ASSUME NEW w \in Workers, reportCycle(w) PROVE OvertakenInv'
  BY <1>15, <1>0 DEF Lost, TypeOK, OvertakenInv, reportCycle, Failure, Step, returns
<1>16. CASE UNCHANGED <<late, at, epoch>>
  BY <1>16, <1>0 DEF Lost, TypeOK, OvertakenInv
<1> QED
  BY <1>1, <1>2, <1>3, <1>4, <1>5, <1>6, <1>7, <1>8, <1>9, <1>10, <1>11, <1>12, <1>13,
       <1>14, <1>15, <1>16
  DEF Next, TickStep, vars, lease, process, returns, history, onModuleInit, onModuleDestroy,
       release, intervalPasses, leaseExpires, setPaused, slaElapses, answer

\* Likewise for a pause: the control is read between an item and the next.
PauseInv ==
  \A w \in Workers :
    /\ afterPause[w] <= 1
    /\ ~paused => afterPause[w] = 0
    /\ afterPause[w] = 1 => at[w] \notin {"look", "escalate"}

LEMMA PauseStep ==
  ASSUME TypeOK, PauseInv, [Next]_vars PROVE PauseInv'
<1>1. ASSUME NEW w \in Workers, crash(w) PROVE PauseInv'
  BY <1>1 DEF TypeOK, PauseInv, crash, Step, lease, history, returns
<1>2. ASSUME NEW w \in Workers, tick(w) PROVE PauseInv'
  BY <1>2 DEF TypeOK, PauseInv, tick, Step, lease, history, returns
<1>3. ASSUME NEW w \in Workers, tryAcquire(w) PROVE PauseInv'
  BY <1>3 DEF TypeOK, PauseInv, tryAcquire, TakeLease, Step, returns
<1>4. ASSUME NEW w \in Workers, handleAcquisitionFailure(w) PROVE PauseInv'
  BY <1>4 DEF TypeOK, PauseInv, handleAcquisitionFailure, TakeLease, Step, lease, history,
       returns
<1>5. ASSUME NEW w \in Workers, renewAndFence(w) PROVE PauseInv'
  BY <1>5 DEF TypeOK, PauseInv, renewAndFence, Step, After, history, returns
<1>6. ASSUME NEW w \in Workers, fenceLost(w) PROVE PauseInv'
  BY <1>6 DEF TypeOK, PauseInv, fenceLost, LoseFence, Step, lease, history, returns
<1>7. ASSUME NEW w \in Workers, isPaused(w) PROVE PauseInv'
  BY <1>7 DEF TypeOK, PauseInv, isPaused, Step, lease, history, returns
<1>8. ASSUME NEW w \in Workers, cycleFails(w) PROVE PauseInv'
  BY <1>8 DEF TypeOK, PauseInv, cycleFails, Failure, Step, returns
<1>9. ASSUME NEW w \in Workers, tickThrows(w) PROVE PauseInv'
  BY <1>9 DEF TypeOK, PauseInv, tickThrows, Step, lease, history, returns
<1>10. ASSUME NEW w \in Workers, claim(w) PROVE PauseInv'
  BY <1>10 DEF TypeOK, PauseInv, claim, Step, lease, history, returns
<1>11. ASSUME NEW w \in Workers, isPausedAgain(w) PROVE PauseInv'
  BY <1>11 DEF TypeOK, PauseInv, isPausedAgain, Step, lease, history, returns
<1>12. ASSUME NEW w \in Workers, processExpiration(w) PROVE PauseInv'
  BY <1>12 DEF TypeOK, PauseInv, processExpiration, Step, NextItem, lease, history, returns
<1>13. ASSUME NEW w \in Workers, escalateReturn(w) PROVE PauseInv'
  BY <1>13 DEF TypeOK, PauseInv, escalateReturn, Step, NextItem, lease
<1>14. ASSUME NEW w \in Workers, itemFails(w) PROVE PauseInv'
  BY <1>14 DEF TypeOK, PauseInv, itemFails, Step, NextItem, lease, history, returns
<1>15. ASSUME NEW w \in Workers, reportCycle(w) PROVE PauseInv'
  BY <1>15 DEF TypeOK, PauseInv, reportCycle, Failure, Step, returns
<1>16. ASSUME NEW p \in BOOLEAN, setPaused(p) PROVE PauseInv'
  BY <1>16 DEF TypeOK, PauseInv, setPaused, lease, returns, process
<1>17. CASE UNCHANGED <<at, paused, afterPause>>
  BY <1>17 DEF TypeOK, PauseInv
<1> QED
  BY <1>1, <1>2, <1>3, <1>4, <1>5, <1>6, <1>7, <1>8, <1>9, <1>10, <1>11, <1>12, <1>13,
       <1>14, <1>15, <1>16, <1>17
  DEF Next, TickStep, vars, lease, process, returns, history, onModuleInit, onModuleDestroy,
       release, intervalPasses, leaseExpires, slaElapses, answer

\* A return that was escalated or answered is not requested again.
EscalationInv ==
  \A r \in Returns :
    escalations[r] <= 1 /\ (ret[r] = "REQUESTED" => escalations[r] = 0)

LEMMA EscalationStep ==
  ASSUME TypeOK, EscalationInv, [Next]_vars PROVE EscalationInv'
<1>1. ASSUME NEW w \in Workers, escalateReturn(w) PROVE EscalationInv'
  BY <1>1 DEF TypeOK, EscalationInv, escalateReturn, Step, NextItem, lease
<1>2. ASSUME NEW r \in Returns, answer(r) PROVE EscalationInv'
  BY <1>2 DEF TypeOK, EscalationInv, answer, lease, history, process
<1>3. CASE UNCHANGED <<ret, escalations>>
  BY <1>3 DEF TypeOK, EscalationInv
<1> QED
  BY <1>1, <1>2, <1>3
  DEF Next, TickStep, vars, lease, process, returns, history, onModuleInit, onModuleDestroy,
       release, crash, tick, tryAcquire, handleAcquisitionFailure, renewAndFence, fenceLost,
       isPaused, cycleFails, tickThrows, claim, isPausedAgain, processExpiration, itemFails,
       reportCycle, intervalPasses, leaseExpires, setPaused, slaElapses

LEMMA FailuresStep ==
  ASSUME TypeOK, EpochsAreOwned, FailuresAreTheOwners, [Next]_vars
  PROVE  FailuresAreTheOwners'
<1> DEFINE Lost == \A w \in Workers :
             epoch[w] > 0 /\ epoch'[w] = epoch[w] /\ ~Owns(w) => ~Owns(w)'
<1>0. Lost
  BY LostStaysLost
<1> HIDE DEF Lost
<1>1. ASSUME NEW w \in Workers, release(w) PROVE FailuresAreTheOwners'
  BY <1>1, <1>0 DEF TypeOK, EpochsAreOwned, FailuresAreTheOwners, Owns, release, Owns,
       history, returns
<1>2. ASSUME NEW w \in Workers, crash(w) PROVE FailuresAreTheOwners'
  BY <1>2, <1>0 DEF TypeOK, EpochsAreOwned, FailuresAreTheOwners, Owns, crash, Step, lease,
       history, returns
<1>3. ASSUME NEW w \in Workers, tryAcquire(w) PROVE FailuresAreTheOwners'
  BY <1>3, <1>0 DEF TypeOK, EpochsAreOwned, FailuresAreTheOwners, Owns, tryAcquire,
       TakeLease, Step, returns
<1>4. ASSUME NEW w \in Workers, handleAcquisitionFailure(w) PROVE FailuresAreTheOwners'
  BY <1>4, <1>0 DEF TypeOK, EpochsAreOwned, FailuresAreTheOwners, Owns,
       handleAcquisitionFailure, TakeLease, Step, lease, history, returns
<1>5. ASSUME NEW w \in Workers, fenceLost(w) PROVE FailuresAreTheOwners'
  BY <1>5, <1>0 DEF TypeOK, EpochsAreOwned, FailuresAreTheOwners, Owns, fenceLost,
       LoseFence, Step, lease, history, returns
<1>6. ASSUME NEW w \in Workers, cycleFails(w) PROVE FailuresAreTheOwners'
  BY <1>6, <1>0 DEF TypeOK, EpochsAreOwned, FailuresAreTheOwners, Owns, cycleFails, Failure,
       Step, returns
<1>7. ASSUME NEW w \in Workers, reportCycle(w) PROVE FailuresAreTheOwners'
  BY <1>7, <1>0 DEF TypeOK, EpochsAreOwned, FailuresAreTheOwners, Owns, reportCycle,
       Failure, Step, returns
<1>8. CASE UNCHANGED <<holder, leaseEpoch, epoch, pollFailures, misses>>
  BY <1>8, <1>0 DEF TypeOK, EpochsAreOwned, FailuresAreTheOwners, Owns
<1> QED
  BY <1>1, <1>2, <1>3, <1>4, <1>5, <1>6, <1>7, <1>8
  DEF Next, TickStep, vars, lease, process, returns, history, onModuleInit, onModuleDestroy,
       tick, renewAndFence, isPaused, tickThrows, claim, isPausedAgain, processExpiration,
       escalateReturn, itemFails, intervalPasses, leaseExpires, setPaused, slaElapses,
       answer

LEMMA LiveLeaseStep ==
  ASSUME TypeOK, [Next]_vars, NEW w \in Workers, holder = w, fresh, holder' # w
  PROVE  life[w] = "stopping" /\ life'[w] = "stopped"
<1>1. ASSUME NEW v \in Workers, release(v) PROVE life[w] = "stopping" /\ life'[w] =
     "stopped"
  BY <1>1, WorkersAssumption DEF TypeOK, Acquirable, Owns, release, Owns, history, returns
<1>2. ASSUME NEW v \in Workers, tryAcquire(v) PROVE life[w] = "stopping" /\ life'[w] =
     "stopped"
  BY <1>2, WorkersAssumption DEF TypeOK, Acquirable, Owns, tryAcquire, TakeLease, Step,
       returns
<1>3. ASSUME NEW v \in Workers, handleAcquisitionFailure(v) PROVE life[w] = "stopping" /\
     life'[w] = "stopped"
  BY <1>3, WorkersAssumption DEF TypeOK, Acquirable, Owns, handleAcquisitionFailure,
       TakeLease, Step, lease, history, returns
<1>4. CASE UNCHANGED <<holder>>
  BY <1>4, WorkersAssumption DEF TypeOK, Acquirable, Owns
<1> QED
  BY <1>1, <1>2, <1>3, <1>4
  DEF Next, TickStep, vars, lease, process, returns, history, onModuleInit, onModuleDestroy,
       crash, tick, renewAndFence, fenceLost, isPaused, cycleFails, tickThrows, claim,
       isPausedAgain, processExpiration, escalateReturn, itemFails, reportCycle,
       intervalPasses, leaseExpires, setPaused, slaElapses, answer

THEOREM LeaseInvariants ==
  Spec => [](TypeOK /\ EpochsAreOwned /\ OvertakenInv /\ PauseInv /\ EscalationInv
             /\ FailuresAreTheOwners)
<1> DEFINE Inv == TypeOK /\ EpochsAreOwned /\ OvertakenInv /\ PauseInv /\ EscalationInv
                  /\ FailuresAreTheOwners
<1>1. Init => Inv
  <2>1. Init => TypeOK
    <3>1. Init => TypedBut
      BY DEF Init, TypedBut, At
    <3>2. Init => fresh \in BOOLEAN /\ paused \in BOOLEAN
      BY DEF Init
    <3> QED
      BY <3>1, <3>2 DEF TypeOK, TypedBut
  <2>2. Init => EpochsAreOwned /\ OvertakenInv /\ FailuresAreTheOwners
    BY DEF Init, EpochsAreOwned, OvertakenInv, FailuresAreTheOwners, Owns
  <2>3. Init => PauseInv /\ EscalationInv
    BY DEF Init, PauseInv, EscalationInv
  <2> QED
    BY <2>1, <2>2, <2>3
<1>2. Inv /\ [Next]_vars => Inv'
  <2> SUFFICES ASSUME Inv, [Next]_vars PROVE Inv'
    OBVIOUS
  <2>1. TypeOK'
    BY TypingStep
  <2> QED
    BY <2>1, EpochStep, OvertakenStep, PauseStep, EscalationStep, FailuresStep
<1> QED
  BY <1>1, <1>2, PTL DEF Spec

\* Type correctness (every handler of the worker and of the lease service).
THEOREM Typing == Spec => []TypeOK
BY LeaseInvariants, PTL

\* An epoch belongs to one process (tryAcquire), with any number of processes, crashes,
\* stalls and forgotten answers.
THEOREM EpochsOwned == Spec => []EpochsAreOwned
BY LeaseInvariants, PTL

\* A process whose lease was taken over escalates at most one more return (runBatch).
THEOREM OvertakenStops == Spec => []OvertakenStopsWithinAnItem
<1>1. OvertakenInv => OvertakenStopsWithinAnItem
  BY DEF OvertakenInv, OvertakenStopsWithinAnItem
<1> QED
  BY <1>1, LeaseInvariants, PTL

\* After a pause each process escalates at most one more return (runBatch).
THEOREM PauseStops == Spec => []PauseStopsWithinAnItem
<1>1. PauseInv => PauseStopsWithinAnItem
  BY DEF PauseInv, PauseStopsWithinAnItem
<1> QED
  BY <1>1, LeaseInvariants, PTL

\* A return is escalated at most once (escalateReturn).
THEOREM EscalationIsOnce == Spec => []EscalatedOnce
<1>1. EscalationInv => EscalatedOnce
  BY DEF EscalationInv, EscalatedOnce
<1> QED
  BY <1>1, LeaseInvariants, PTL

\* poll_failures is what the owner counted (recordPollFailure, recordPollSuccess).
THEOREM FailuresOwned == Spec => []FailuresAreTheOwners
BY LeaseInvariants, PTL

\* A lease that has not run out leaves its process only by its own release (tryAcquire, release).
THEOREM LiveLease == Spec => LiveLeaseIsKept
<1>1. TypeOK /\ [Next]_vars =>
        [\A w \in Workers :
           holder = w /\ fresh /\ holder' # w
             => life[w] = "stopping" /\ life'[w] = "stopped"]_vars
  BY LiveLeaseStep
<1> QED
  BY <1>1, LeaseInvariants, PTL DEF Spec, LiveLeaseIsKept

-----------------------------------------------------------------------------
(* The abstract promise. *)

\* What spare of LeasePromise stands for.
Spare == [w \in Workers |-> epoch[w] > 0 /\ late[w] = 0]

\* A step that changes one process's epoch and count changes its spare item alone.
LEMMA SpareSet ==
  ASSUME NEW w \in Workers, NEW b \in BOOLEAN,
         \A v \in Workers \ {w} :
           (epoch'[v] > 0 /\ late'[v] = 0) <=> (epoch[v] > 0 /\ late[v] = 0),
         (epoch'[w] > 0 /\ late'[w] = 0) <=> b
  PROVE  Spare' = [Spare EXCEPT ![w] = b]
<1> DEFINE New == [Spare EXCEPT ![w] = b]
<1>1. ASSUME NEW v \in Workers, v # w PROVE Spare'[v] = New[v]
  BY <1>1, Zenon DEF Spare
<1>2. Spare'[w] = New[w]
  BY Zenon DEF Spare
<1> QED
  BY <1>1, <1>2, Zenon DEF Spare

LEMMA PromiseStep ==
  ASSUME TypeOK, TypeOK', OvertakenInv, EscalationInv, [Next]_vars
  PROVE  [Promise!Next]_(Promise!vars)
<1> DEFINE Goal == [Promise!Next]_(Promise!vars)
<1>1. CASE UNCHANGED <<holder, fresh, escalations, epoch, late>>
  BY <1>1 DEF Promise!vars
<1>2. ASSUME NEW w \in Workers, tryAcquire(w) PROVE Goal
  <2>1. /\ holder' = w /\ fresh' = TRUE /\ UNCHANGED escalations
        /\ holder \in {w, NoWorker} \/ ~fresh
    BY <1>2 DEF tryAcquire, Acquirable, TakeLease, returns
  <2>2. epoch' = [epoch EXCEPT ![w] = leaseEpoch + 1] /\ late' = [late EXCEPT ![w] = 0]
    BY <1>2 DEF tryAcquire, TakeLease
  <2>3. Spare' = [Spare EXCEPT ![w] = TRUE]
    <3>1. \A v \in Workers \ {w} :
            (epoch'[v] > 0 /\ late'[v] = 0) <=> (epoch[v] > 0 /\ late[v] = 0)
      BY <2>2 DEF TypeOK
    <3>2. epoch'[w] > 0 /\ late'[w] = 0
      BY <2>2 DEF TypeOK
    <3> QED
      BY <3>1, <3>2, SpareSet
  <2>4. Promise!Take(w)
    BY <2>1, <2>3 DEF Promise!Take, Spare
  <2> QED
    BY <2>4 DEF Promise!Next
<1>3. ASSUME NEW w \in Workers, handleAcquisitionFailure(w) PROVE Goal
  <2>1. UNCHANGED <<escalations, epoch, late>>
    BY <1>3 DEF handleAcquisitionFailure, returns, history
  <2>2. CASE UNCHANGED lease
    BY <1>1, <2>1, <2>2 DEF lease
  <2>3. CASE Acquirable(w) /\ TakeLease(w)
    <3>1. Spare' = Spare
      BY <2>1 DEF Spare
    <3>2. Promise!Take(w)
      BY <2>1, <2>3, <3>1 DEF Acquirable, TakeLease, Promise!Take, Spare
    <3> QED
      BY <3>2 DEF Promise!Next
  <2> QED
    BY <1>3, <2>2, <2>3 DEF handleAcquisitionFailure
<1>4. ASSUME NEW w \in Workers, fenceLost(w) \/ crash(w) PROVE Goal
  <2>1. /\ epoch' = [epoch EXCEPT ![w] = 0]
        /\ UNCHANGED <<holder, fresh, escalations, late>>
    BY <1>4 DEF fenceLost, crash, LoseFence, lease, returns, history
  <2>2. Spare' = [Spare EXCEPT ![w] = FALSE]
    <3>1. \A v \in Workers \ {w} :
            (epoch'[v] > 0 /\ late'[v] = 0) <=> (epoch[v] > 0 /\ late[v] = 0)
      BY <2>1 DEF TypeOK
    <3>2. ~(epoch'[w] > 0)
      BY <2>1 DEF TypeOK
    <3> QED
      BY <3>1, <3>2, SpareSet
  <2>3. Promise!Stop(w)
    BY <2>1, <2>2 DEF Promise!Stop, Spare
  <2> QED
    BY <2>3 DEF Promise!Next
<1>5. ASSUME NEW w \in Workers, renewAndFence(w) PROVE Goal
  <2>1. /\ holder = w /\ fresh' = TRUE
        /\ UNCHANGED <<holder, escalations, epoch, late>>
    BY <1>5 DEF renewAndFence, Owns, returns, history
  <2>2. Promise!Extend
    BY <2>1, WorkersAssumption DEF Promise!Extend
  <2> QED
    BY <2>2 DEF Promise!Next
<1>6. CASE leaseExpires
  <2>1. Promise!RunOut
    BY <1>6 DEF leaseExpires, Promise!RunOut, process, returns, history
  <2> QED
    BY <2>1 DEF Promise!Next
<1>7. ASSUME NEW w \in Workers, release(w) PROVE Goal
  <2>1. UNCHANGED <<escalations, epoch, late>>
    BY <1>7 DEF release, returns, history
  <2>2. CASE UNCHANGED <<holder, fresh>>
    BY <1>1, <2>1, <2>2
  <2>3. CASE holder' = NoWorker /\ fresh' = FALSE
    <3>1. Promise!Leave
      BY <2>1, <2>3 DEF Promise!Leave
    <3> QED
      BY <3>1 DEF Promise!Next
  <2> QED
    BY <1>7, <2>2, <2>3 DEF release
<1>8. ASSUME NEW w \in Workers, escalateReturn(w) PROVE Goal
  <2>1. at[w] = "escalate" /\ UNCHANGED <<holder, fresh, epoch>>
    BY <1>8 DEF escalateReturn, lease
  <2>2. CASE UNCHANGED <<escalations, late>>
    BY <1>1, <2>1, <2>2
  <2>3. ASSUME NEW r \in item[w], ret[r] = "REQUESTED",
               escalations' = [escalations EXCEPT ![r] = @ + 1],
               late' = [late EXCEPT ![w] = @ + (IF Owns(w) THEN 0 ELSE 1)]
        PROVE  Goal
    <3>1. r \in Returns /\ escalations[r] = 0
      BY <2>3 DEF EscalationInv, TypeOK
    <3>2. escalations' = [escalations EXCEPT ![r] = 1]
      BY <2>3, <3>1
    <3>3. CASE Owns(w)
      <4>1. holder = w /\ Spare' = Spare
        BY <2>1, <2>3, <3>3 DEF Owns, Spare, TypeOK
      <4>2. Promise!Work(w, r)
        BY <2>1, <3>1, <3>2, <4>1 DEF Promise!Work, Spare
      <4> QED
        BY <3>1, <4>2 DEF Promise!Next
    <3>4. CASE ~Owns(w)
      <4>1. epoch[w] > 0 /\ late[w] = 0
        <5>1. epoch[w] \in Nat /\ late[w] \in Nat
          BY DEF TypeOK
        <5>2. epoch[w] # 0 /\ late[w] <= 1 /\ ~(epoch[w] > 0 /\ late[w] = 1)
          BY <2>1 DEF OvertakenInv
        <5> QED
          BY <5>1, <5>2
      <4>2. late' = [late EXCEPT ![w] = 1]
        BY <2>3, <3>4, <4>1
      <4>3. Spare[w] /\ Spare' = [Spare EXCEPT ![w] = FALSE]
        <5>1. Spare[w]
          BY <4>1, Zenon DEF Spare
        <5>2. \A v \in Workers \ {w} :
                (epoch'[v] > 0 /\ late'[v] = 0) <=> (epoch[v] > 0 /\ late[v] = 0)
          BY <2>1, <4>2 DEF TypeOK
        <5>3. ~(late'[w] = 0)
          BY <4>2 DEF TypeOK
        <5> QED
          BY <5>1, <5>2, <5>3, SpareSet
      <4>4. Promise!Work(w, r)
        BY <2>1, <3>1, <3>2, <4>3 DEF Promise!Work, Spare
      <4> QED
        BY <3>1, <4>4 DEF Promise!Next
    <3> QED
      BY <3>3, <3>4
  <2> QED
    BY <1>8, <2>2, <2>3 DEF escalateReturn
<1> QED
  BY <1>1, <1>2, <1>3, <1>4, <1>5, <1>6, <1>7, <1>8
  DEF Next, TickStep, vars, lease, process, returns, history, onModuleInit, onModuleDestroy,
      tick, isPaused, cycleFails, tickThrows, claim, isPausedAgain, processExpiration,
      itemFails, reportCycle, intervalPasses, setPaused, slaElapses, answer

\* The worker and its lease implement LeasePromise, for any number of processes that stall,
\* crash, shut down and lose answers (tryAcquire, renewAndFence, release, escalateReturn).
THEOREM LeaseIsKept == Spec => LeaseKept
<1>1. Init => Promise!Init
  <2> SUFFICES ASSUME Init PROVE Promise!Init
    OBVIOUS
  <2>1. \A w \in Workers : ~(epoch[w] > 0)
    BY DEF Init
  <2>2. Spare = [w \in Workers |-> FALSE]
    BY <2>1, Zenon DEF Spare
  <2> QED
    BY <2>2 DEF Init, Promise!Init, Spare
<1>2. TypeOK /\ TypeOK' /\ OvertakenInv /\ EscalationInv /\ [Next]_vars
        => [Promise!Next]_(Promise!vars)
  BY PromiseStep
<1> QED
  BY <1>1, <1>2, LeaseInvariants, PTL DEF Spec, LeaseKept, Promise!Spec
==============================================================================
