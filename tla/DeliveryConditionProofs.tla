----------------------- MODULE DeliveryConditionProofs -----------------------
(***************************************************************************)
(* Two things the repository says of delivery do not hold of the code in   *)
(* general (the violated runs).  Here is under which conditions each does: *)
(* with queues that dispatchers do not share, and while nobody revives a   *)
(* killed row before the killed run has ended.                             *)
(***************************************************************************)
EXTENDS DeliveryProofs

-----------------------------------------------------------------------------
(* Queues of their own.                                                    *)

(* Whoever claimed the row of a claim serves its queue, and a dispatcher   *)
(* has in memory only rows of the queues it serves.                        *)
ClaimInQueue(t) ==
    ledger[t].status = "dispatching" =>
        owner[t] \in Dispatchers /\ t \in Scope[owner[t]]

MemoryInQueues(d) == held[d] \cup pending_release[d] \subseteq Scope[d]

QueueInv ==
    /\ \A t \in Tasks : ClaimInQueue(t)
    /\ \A d \in Dispatchers : MemoryInQueues(d)

(* A row is in dispatching by a claim of this step, or as it was before.   *)
LEMMA DispatchingByClaim ==
    ASSUME TypeOK, [Next]_vars, NEW t \in Tasks,
           ledger'[t].status = "dispatching"
    PROVE  \/ ledger[t].status = "dispatching" /\ owner'[t] = owner[t]
           \/ \E d \in Dispatchers : owner'[t] = d /\ t \in Scope[d]
<1> DEFINE Kept == ledger[t].status = "dispatching" /\ owner'[t] = owner[t]
<1>1. ledger \in [Tasks -> Row] /\ owner \in [Tasks -> Dispatchers \cup Workers \cup {Nobody}]
  BY DEF TypeOK
<1>2. UNCHANGED <<ledger, owner>> => Kept
  OBVIOUS
<1>3. ASSUME ClaimsEnd, ledger[t].status = "dispatching" PROVE Kept
  BY <1>3 DEF ClaimsEnd
<1>4. ASSUME NEW u \in Tasks, CreateTask(u) PROVE Kept
  BY <1>1, <1>4 DEF CreateTask, NewRow, historyVars
<1>5. ASSUME NEW d \in Dispatchers, Claim(d)
      PROVE  Kept \/ (owner'[t] = d /\ t \in Scope[d])
  BY <1>1, <1>5, RowStepFields
  DEF Claim, Unlocked, Where, ExpiredAtClaim, Expired
<1>6. ASSUME NEW ids, ReleaseRows(ids) PROVE Kept
  BY <1>1, <1>3, <1>6, RowStepFields DEF ReleaseRows, Released
<1>7. ASSUME NEW d \in Dispatchers, DispatcherStep(d) \/ DispatcherFault(d)
      PROVE  Kept \/ (owner'[t] = d /\ t \in Scope[d])
  BY <1>2, <1>5, <1>6, <1>7
  DEF DispatcherStep, DispatcherFault, Release, RetryPendingRelease,
      ReleaseFails, Dispatch, DispatchFails, DispatcherCrash, historyVars
<1>8. ASSUME NEW u \in Tasks, BrokerFault(u) \/ Delivered(u) PROVE Kept
  <2>1. ASSUME NEW w \in Workers, ExpireAtStart(w, u) \/ StartRun(w, u)
        PROVE  Kept
    <3>1. u # t
      BY <1>1, <2>1, RowStepFields DEF ExpireAtStart, StartRun, Expired
    <3>2. ledger'[t] = ledger[t]
      BY <1>1, <2>1, <3>1 DEF ExpireAtStart, StartRun
    <3> QED
      BY <1>1, <1>3, <2>1, <3>1, <3>2 DEF ExpireAtStart, StartRun
  <2> QED
    BY <1>2, <1>8, <2>1
    DEF BrokerFault, LoseMessage, DuplicateMessage, Delivered, SkipDelivery,
        historyVars
<1>9. ASSUME NEW w \in Workers, HandlerEnds(w) \/ WorkerCrash(w) PROVE Kept
  <2>1. ASSUME NEW row, Finish(w, row), row.status # "dispatching" PROVE Kept
    BY <1>1, <1>3, <2>1 DEF Finish
  <2>2. running[w] # Nobody => ledger[running[w].task] \in Row
    BY DEF TypeOK, Run
  <2>3. CASE HandlerReturns(w) \/ HandlerFailsFast(w)
    BY <2>1, <2>2, <2>3, RowStepFields
    DEF HandlerReturns, HandlerFailsFast, Completed, DeadLettered, Finish, RunEnds
  <2>4. ASSUME NEW delay, HandlerFails(w, delay) PROVE Kept
    <3> DEFINE run == running[w]
               row == ledger[run.task]
               written == IF ShouldDie(run.attempts, run.max_attempts)
                          THEN DeadLettered(row) ELSE Failed(row, delay)
    <3>1. Finish(w, written)
      BY <2>4 DEF HandlerFails
    <3>2. row \in Row
      BY <2>2, <3>1 DEF Finish, RunEnds
    <3>3. DeadLettered(row).status = "dead" /\ Failed(row, delay).status = "failed"
      BY <3>2, RowStepFields DEF DeadLettered
    <3>4. written.status # "dispatching"
      BY <3>3
    <3> HIDE DEF written
    <3> QED
      BY <2>1, <3>1, <3>4
  <2> QED
    BY <1>2, <1>9, <2>3, <2>4 DEF HandlerEnds, OutcomeSkipped, WorkerCrash
<1>10. ASSUME NEW s \in Sweepers, SweeperStep(s) PROVE Kept
  <2>1. CASE SweepExpired(s)
    BY <1>1, <1>3, <2>1, RowStepFields DEF SweepExpired, Expired
  <2>2. ASSUME NEW ids, NEW from, RecoverRows(ids, from) PROVE Kept
    BY <1>1, <1>3, <2>2, RowStepFields DEF RecoverRows, Recovered
  <2> QED
    BY <1>2, <1>10, <2>1, <2>2
    DEF SweeperStep, LockedPass, SelectRows, UpdateSelected, historyVars
<1>11. ASSUME OperatorStep PROVE Kept
  <2>1. ASSUME NEW u \in Tasks, RetryTask(u) \/ KillTask(u) PROVE Kept
    BY <1>1, <1>3, <2>1, RowStepFields DEF RetryTask, KillTask, DeadLettered
  <2>2. ASSUME NEW status \in Status, BulkRetry(status) PROVE Kept
    BY <1>1, <1>3, <2>2, RowStepFields DEF BulkRetry
  <2>3. ASSUME NEW ids \in SUBSET Tasks, PurgeCompleted(ids) PROVE Kept
    BY <1>1, <2>3, RowStepFields DEF PurgeCompleted, historyVars
  <2> QED
    BY <1>11, <2>1, <2>2, <2>3 DEF OperatorStep
<1>12. Tick => Kept
  BY <1>1, RowStepFields DEF Tick, historyVars
<1>13. UNCHANGED vars => Kept
  BY <1>2 DEF vars, historyVars
<1> QED
  BY <1>4, <1>7, <1>8, <1>9, <1>10, <1>11, <1>12, <1>13 DEF Next

LEMMA QueueStep ==
    ASSUME TypeOK, QueueInv, [Next]_vars
    PROVE  QueueInv'
<1>1. \A t \in Tasks : ClaimInQueue(t)'
  BY DispatchingByClaim DEF QueueInv, ClaimInQueue
<1>2. ASSUME UNCHANGED dispatcherVars PROVE \A d \in Dispatchers : MemoryInQueues(d)'
  BY <1>2 DEF dispatcherVars, QueueInv, MemoryInQueues
<1>3. ASSUME NEW d \in Dispatchers, DispatcherStep(d) \/ DispatcherFault(d)
      PROVE  \A e \in Dispatchers : MemoryInQueues(e)'
  <2>1. /\ held \in [Dispatchers -> SUBSET Tasks]
        /\ pending_release \in [Dispatchers -> SUBSET Tasks]
    BY DEF TypeOK
  <2>2. CASE Claim(d)
    BY <2>1, <2>2 DEF Claim, Unlocked, QueueInv, MemoryInQueues
  <2>3. ASSUME NEW t \in Tasks, Dispatch(d, t) \/ DispatchFails(d, t)
        PROVE  \A e \in Dispatchers : MemoryInQueues(e)'
    BY <2>1, <2>3 DEF Dispatch, DispatchFails, QueueInv, MemoryInQueues
  <2>4. CASE Release(d) \/ ReleaseFails(d) \/ RetryPendingRelease(d) \/ DispatcherCrash(d)
    BY <2>1, <2>4
    DEF Release, ReleaseFails, RetryPendingRelease, DispatcherCrash, QueueInv,
        MemoryInQueues
  <2> QED
    BY <1>3, <2>2, <2>3, <2>4 DEF DispatcherStep, DispatcherFault
<1> QED
  BY <1>1, <1>2, <1>3, MemoryOwned DEF QueueInv

(* Dispatchers that do not share queues never release claims of each       *)
(* other, however late a stranded release gets through.                    *)
THEOREM OwnQueuesCorrect == QueuesApart /\ Spec => []StrandedRowsAreOwned
<1> SUFFICES ASSUME QueuesApart PROVE Spec => []StrandedRowsAreOwned
  OBVIOUS
<1>1. Init => QueueInv
  BY DEF Init, QueueInv, ClaimInQueue, MemoryInQueues, AbsentRow
<1>2. TypeOK /\ QueueInv /\ [Next]_vars => QueueInv'
  BY QueueStep
<1>3. TypeOK /\ QueueInv => StrandedRowsAreOwned
  BY DEF TypeOK, QueueInv, ClaimInQueue, MemoryInQueues, QueuesApart,
         StrandedRowsAreOwned
<1> QED
  BY <1>1, <1>2, <1>3, TypeCorrect, PTL DEF Spec

-----------------------------------------------------------------------------
(* Kills.                                                                  *)

(* A killed run is still under way, and its row is dead.                   *)
KilledInv ==
    \A w \in killed :
        running[w] # Nobody /\ ledger[running[w].task].status = "dead"

(* Runs are killed by kill_task only, and stop being so by ending.         *)
LEMMA KilledStep ==
    ASSUME TypeOK, KilledInv, Next, KilledNotRevived
    PROVE  KilledInv'
<1> SUFFICES ASSUME NEW w \in killed'
             PROVE  /\ running'[w] # Nobody
                    /\ ledger'[running'[w].task].status = "dead"
  BY DEF KilledInv
<1> DEFINE Goal == /\ running'[w] # Nobody
                   /\ ledger'[running'[w].task].status = "dead"
<1>1. /\ ledger \in [Tasks -> Row]
      /\ running \in [Workers -> Run \cup {Nobody}]
      /\ killed \subseteq Workers
  BY DEF TypeOK
<1>2. w \in killed => /\ running[w] # Nobody
                      /\ ledger[running[w].task].status = "dead"
                      /\ ledger'[running[w].task].status = "dead"
  BY DEF KilledInv, KilledNotRevived
<1>3. w \in killed /\ running'[w] = running[w] => Goal
  BY <1>2
<1>4. ASSUME UNCHANGED <<running, killed>> PROVE Goal
  BY <1>3, <1>4
<1>5. ASSUME NEW v \in Workers, RunEnds(v) PROVE Goal
  BY <1>1, <1>3, <1>5 DEF RunEnds
<1>6. ASSUME NEW v \in Workers, HandlerEnds(v) \/ WorkerCrash(v) PROVE Goal
  BY <1>5, <1>6
  DEF HandlerEnds, HandlerReturns, HandlerFails, HandlerFailsFast, Finish,
      OutcomeSkipped, WorkerCrash
<1>7. ASSUME NEW v \in Workers, NEW t \in Tasks, StartRun(v, t) PROVE Goal
  <2>1. w \in killed /\ v # w
    BY <1>2, <1>7 DEF StartRun, Receive
  <2> QED
    BY <1>1, <1>3, <1>7, <2>1 DEF StartRun
<1>8. ASSUME NEW t \in Tasks, KillTask(t) PROVE Goal
  <2>1. running' = running /\ ledger' = [ledger EXCEPT ![t] = DeadLettered(@)]
    BY <1>8 DEF KillTask
  <2>2. CASE w \in killed
    BY <1>3, <2>1, <2>2
  <2>3. CASE w \notin killed
    BY <1>1, <1>8, <2>1, <2>3, RowStepFields DEF KillTask, DeadLettered
  <2> QED
    BY <2>2, <2>3
<1>9. ASSUME NEW t \in Tasks, CreateTask(t) \/ BrokerFault(t) \/ Delivered(t)
      PROVE  Goal
  BY <1>4, <1>7, <1>9
  DEF CreateTask, BrokerFault, LoseMessage, DuplicateMessage, Delivered,
      SkipDelivery, ExpireAtStart, historyVars
<1>10. ASSUME NEW d \in Dispatchers, DispatcherStep(d) \/ DispatcherFault(d)
       PROVE  Goal
  BY <1>4, <1>10
  DEF DispatcherStep, DispatcherFault, Claim, Release, RetryPendingRelease,
      ReleaseFails, Dispatch, DispatchFails, DispatcherCrash, historyVars
<1>11. ASSUME NEW s \in Sweepers, SweeperStep(s) PROVE Goal
  BY <1>4, <1>11
  DEF SweeperStep, SweepExpired, LockedPass, SelectRows, UpdateSelected,
      historyVars
<1>12. OperatorStep => Goal
  BY <1>4, <1>8
  DEF OperatorStep, RetryTask, BulkRetry, PurgeCompleted, historyVars
<1>13. Tick => Goal
  BY <1>4 DEF Tick, historyVars
<1> QED
  BY <1>6, <1>9, <1>10, <1>11, <1>12, <1>13 DEF Next

(* The worker of a killed run finds its row dead and writes nothing.       *)
LEMMA KilledRunWritesNothing ==
    ASSUME ExpireOnCommit,
           TypeOK, KilledInv, Next, NEW w \in killed, running'[w] = Nobody
    PROVE  ledger' = ledger
<1>1. /\ w \in Workers /\ running[w] # Nobody
      /\ ledger[running[w].task].status = "dead"
  BY DEF TypeOK, KilledInv
<1>2. running \in [Workers -> Run \cup {Nobody}]
  BY DEF TypeOK
<1>3. ASSUME NEW v \in Workers, HandlerEnds(v) \/ WorkerCrash(v)
      PROVE  v = w
  BY <1>1, <1>2, <1>3
  DEF HandlerEnds, HandlerReturns, HandlerFails, HandlerFailsFast, Finish,
      OutcomeSkipped, WorkerCrash, RunEnds
<1>4. HandlerEnds(w) \/ WorkerCrash(w) => ledger' = ledger
  BY <1>1
  DEF HandlerEnds, HandlerReturns, HandlerFails, HandlerFailsFast, Finish,
      StillProcessing, OutcomeSkipped, WorkerCrash
<1>5. ASSUME NEW v \in Workers, NEW t \in Tasks, StartRun(v, t) PROVE FALSE
  <2>1. [task |-> t, attempts |-> ledger[t].attempts + 1,
         max_attempts |-> ledger[t].max_attempts] \in Run
    BY DEF TypeOK, Run, Row
  <2> QED
    BY <1>1, <1>2, <1>5, <2>1 DEF StartRun, Receive
<1>6. ASSUME running' = running PROVE FALSE
  BY <1>1, <1>6
<1>7. ASSUME NEW t \in Tasks, CreateTask(t) \/ BrokerFault(t) \/ Delivered(t)
      PROVE  FALSE
  BY <1>5, <1>6, <1>7
  DEF CreateTask, BrokerFault, LoseMessage, DuplicateMessage, Delivered,
      SkipDelivery, ExpireAtStart
<1>8. ASSUME NEW d \in Dispatchers, DispatcherStep(d) \/ DispatcherFault(d)
      PROVE  FALSE
  BY <1>6, <1>8
  DEF DispatcherStep, DispatcherFault, Claim, Release, RetryPendingRelease,
      ReleaseFails, Dispatch, DispatchFails, DispatcherCrash
<1>9. ASSUME NEW s \in Sweepers, SweeperStep(s) PROVE FALSE
  BY <1>6, <1>9
  DEF SweeperStep, SweepExpired, LockedPass, SelectRows, UpdateSelected
<1>10. ~OperatorStep /\ ~Tick
  BY <1>6
  DEF OperatorStep, RetryTask, KillTask, BulkRetry, PurgeCompleted, Tick
<1> QED
  BY <1>3, <1>4, <1>7, <1>8, <1>9, <1>10 DEF Next

(* A kill holds against the run it interrupted, as long as nobody revives  *)
(* the row before that run has ended, and the run's outcome is decided on  *)
(* the row as it is then.                                                  *)
THEOREM KillCorrect == ExpireOnCommit /\ PatientSpec => KillIsHonoured
<1> SUFFICES ASSUME ExpireOnCommit PROVE PatientSpec => KillIsHonoured
  OBVIOUS
<1>1. PatientSpec => Spec
  BY PTL DEF PatientSpec, Spec
<1>2. Init => KilledInv
  BY DEF Init, KilledInv
<1>3. TypeOK /\ KilledInv /\ [Next /\ KilledNotRevived]_vars => KilledInv'
  <2>1. UNCHANGED vars /\ KilledInv => KilledInv'
    BY DEF vars, historyVars, KilledInv
  <2> QED
    BY <2>1, KilledStep
<1>4. TypeOK /\ KilledInv /\ [Next /\ KilledNotRevived]_vars =>
          [\A w \in killed : running'[w] = Nobody => ledger' = ledger]_vars
  BY KilledRunWritesNothing
<1> QED
  BY <1>1, <1>2, <1>3, <1>4, TypeCorrect, PTL DEF PatientSpec, KillIsHonoured
=============================================================================
