--------------------------- MODULE DeliveryProofs ---------------------------
(***************************************************************************)
(* Proofs about Delivery, for any sets of tasks and actors and any bounds. *)
(* The argument goes through the rows: RowStep lists everything any        *)
(* statement of the code may do to one row, NextIsRowSteps shows that a    *)
(* step of the system does nothing else to any row, and what a row keeps   *)
(* is then shown of RowStep alone, whichever actor takes the step.         *)
(***************************************************************************)
EXTENDS DeliveryProperties, FiniteSetTheorems, TLAPS

(* Worker w ends the run of task t, and may write the outcome.             *)
EndsRunOf(w, t) ==
    /\ HandlerEnds(w)
    /\ running[w] # Nobody
    /\ running[w].task = t

(* What the end of a run writes to a row.                                  *)
Outcome(row, next) ==
    /\ row.status \in Status
    /\ ExpireOnCommit => row.status = "processing"
    /\ \/ next = Completed(row)
       \/ next = DeadLettered(row)
       \/ \E delay \in 0..MaxTicks : next = Failed(row, delay)

(* Everything else that can happen to one row in one step.                 *)
StatementStep(row, next) ==
    \/ next = row
    \/ /\ row.status = "absent"
       /\ \E n \in Budgets, wait \in Instants, deadline \in Instants :
             next = NewRow(n, wait, deadline)
    \/ /\ row.status \in {"pending", "failed", "dispatching"}
       /\ DeadlinePassed(row)
       /\ next = Expired(row)
    \/ ClaimCandidate(row) /\ next = Claimed(row)
    \/ next = Released(row)
    \/ row.status \in Claimable /\ ~DeadlinePassed(row) /\ next = Started(row)
    \/ \E from \in {"failed", "dispatching", "processing"} :
          next = Recovered(row, from)
    \/ /\ row.status \in Status
       /\ CanTransitionTo(row.status, "pending")
       /\ next = Retried(row)
    \/ /\ row.status \in Status
       /\ CanTransitionTo(row.status, "dead")
       /\ next = DeadLettered(row)
    \/ row.status = "completed" /\ next = PurgedRow
    \/ next = Aged(row)

RowStep(row, next) == StatementStep(row, next) \/ Outcome(row, next)

-----------------------------------------------------------------------------
(* Rows.                                                                   *)

LEMMA MaxAgeType == MaxAge \in Nat /\ MaxAge > 0
  BY TicksAssumption DEF MaxAge

(* Entering a status leaves a row a row.                                   *)
LEMMA EnterType ==
    ASSUME NEW row \in Row, NEW status \in Status
    PROVE  Enter(row, status) \in Row
<1> DEFINE moved == [row EXCEPT !.status = status]
<1>1. moved \in Row
  BY DEF Row
<1>2. Enter(row, status) = [moved EXCEPT !.age = 0]
  BY DEF Enter, Row
<1> HIDE DEF moved
<1>3. [moved EXCEPT !.age = 0] \in Row
  BY <1>1, MaxAgeType DEF Row
<1> QED
  BY <1>2, <1>3

(* Whatever happens to a row leaves a row.                                 *)
LEMMA RowStepType ==
    ASSUME NEW row \in Row, NEW next, RowStep(row, next)
    PROVE  next \in Row
<1>1. CASE next = row
  BY <1>1
<1>2. CASE \E n \in Budgets, wait \in Instants, deadline \in Instants :
              next = NewRow(n, wait, deadline)
  BY <1>2, BudgetsAssumption, MaxAgeType DEF NewRow, Row, Status
<1>3. CASE \/ next = Expired(row) \/ next = Claimed(row)
           \/ next = Completed(row) \/ next = DeadLettered(row)
  BY <1>3, EnterType DEF Expired, Claimed, Completed, DeadLettered, Status
<1>4. CASE next = Released(row)
  BY <1>4, EnterType DEF Released, Status
<1>5. CASE next = Started(row)
  <2>1. Enter(row, "processing") \in Row
    BY EnterType DEF Status
  <2> QED
    BY <1>5, <2>1 DEF Started, Row
<1>6. CASE \E delay \in 0..MaxTicks : next = Failed(row, delay)
  <2>1. Enter(row, "failed") \in Row
    BY EnterType DEF Status
  <2> QED
    BY <1>6, <2>1 DEF Failed, Row, Instants
<1>7. CASE \E from \in {"failed", "dispatching", "processing"} :
              next = Recovered(row, from)
  BY <1>7, EnterType DEF Recovered, Status
<1>8. CASE next = Retried(row)
  <2> DEFINE entered == Enter(row, "pending")
             due == [entered EXCEPT !.scheduled_for = Null]
  <2>1. entered \in Row
    BY EnterType DEF Status
  <2> HIDE DEF entered
  <2>2. due \in Row
    BY <2>1 DEF Row, Instants
  <2>3. [entered EXCEPT !.scheduled_for = Null, !.attempts = 0]
            = [due EXCEPT !.attempts = 0]
    BY <2>1 DEF Row
  <2> HIDE DEF due
  <2>4. [due EXCEPT !.attempts = 0] \in Row
    BY <2>2 DEF Row
  <2> QED
    BY <1>8, <2>3, <2>4 DEF Retried, entered
<1>9. CASE next = PurgedRow
  BY <1>9, TicksAssumption, MaxAgeType
  DEF PurgedRow, AbsentRow, Row, NoRow, Instants
<1>10. CASE next = Aged(row)
  <2>1. \A instant \in Instants : Nearer(instant) \in Instants
    BY TicksAssumption DEF Countdown, Nearer, Instants
  <2> DEFINE wait == Nearer(row.scheduled_for)
             left == Nearer(row.expires_at)
             older == IF /\ row.status \in {"dispatching", "processing"}
                         /\ row.age < MaxAge
                      THEN row.age + 1 ELSE row.age
             r1 == [row EXCEPT !.scheduled_for = wait]
             r2 == [r1 EXCEPT !.expires_at = left]
  <2>2. wait \in Instants /\ left \in Instants /\ older \in 0..MaxAge
    BY <2>1, MaxAgeType DEF Row
  <2>3. Aged(row) = [row EXCEPT !.scheduled_for = wait, !.expires_at = left,
                                !.age = older]
    BY DEF Aged, Row
  <2> HIDE DEF wait, left, older
  <2>4. r1 \in Row
    BY <2>2 DEF Row
  <2>5. [row EXCEPT !.scheduled_for = wait, !.expires_at = left, !.age = older]
            = [r2 EXCEPT !.age = older]
    BY DEF Row
  <2> HIDE DEF r1
  <2>6. r2 \in Row
    BY <2>2, <2>4 DEF Row
  <2> HIDE DEF r2
  <2>7. [r2 EXCEPT !.age = older] \in Row
    BY <2>2, <2>6 DEF Row
  <2> QED
    BY <1>10, <2>3, <2>5, <2>7
<1> QED
  BY <1>1, <1>2, <1>3, <1>4, <1>5, <1>6, <1>7, <1>8, <1>9, <1>10 DEF RowStep, StatementStep,
      Outcome

(* The status and the attempts of a row after each statement.              *)
LEMMA RowStepFields ==
    ASSUME NEW row \in Row
    PROVE  /\ \A status : /\ Enter(row, status).status = status
                          /\ Enter(row, status).attempts = row.attempts
                          /\ Enter(row, status).max_attempts = row.max_attempts
           /\ Started(row).status = "processing"
           /\ Started(row).attempts = row.attempts + 1
           /\ Started(row).max_attempts = row.max_attempts
           /\ \A delay : /\ Failed(row, delay).status = "failed"
                         /\ Failed(row, delay).attempts = row.attempts
                         /\ Failed(row, delay).max_attempts = row.max_attempts
           /\ Retried(row).status = "pending"
           /\ Retried(row).attempts = 0
           /\ Retried(row).max_attempts = row.max_attempts
           /\ Aged(row).status = row.status
           /\ Aged(row).attempts = row.attempts
           /\ Aged(row).max_attempts = row.max_attempts
           /\ PurgedRow.status = "purged"
           /\ PurgedRow.attempts = 0
           /\ PurgedRow.max_attempts = 0
  BY DEF Row, Enter, Started, Failed, Retried, Aged, PurgedRow, AbsentRow

(* The deadline of a row stays, but for the passing of time.               *)
LEMMA RowStepDeadline ==
    ASSUME NEW row \in Row
    PROVE  /\ \A status : Enter(row, status).expires_at = row.expires_at
           /\ Started(row).expires_at = row.expires_at
           /\ \A delay : Failed(row, delay).expires_at = row.expires_at
           /\ Retried(row).expires_at = row.expires_at
           /\ DeadlinePassed(row) => DeadlinePassed(Aged(row))
           /\ ~DeadlinePassed(PurgedRow)
<1>1. Aged(row).expires_at = Nearer(row.expires_at)
  BY DEF Row, Aged
<1>2. PurgedRow.expires_at = Null
  BY DEF PurgedRow, AbsentRow
<1>3. Nearer(0) = 0
  BY TicksAssumption DEF Nearer, Countdown
<1>4. /\ \A status : Enter(row, status).expires_at = row.expires_at
      /\ Started(row).expires_at = row.expires_at
      /\ \A delay : Failed(row, delay).expires_at = row.expires_at
      /\ Retried(row).expires_at = row.expires_at
  BY DEF Row, Enter, Started, Failed, Retried
<1> QED
  BY <1>1, <1>2, <1>3, <1>4, TicksAssumption DEF DeadlinePassed

(* No statement takes a row past its budget: recovery and claiming test it *)
(* before the row waits again, a release and a start rely on the row       *)
(* having waited within it.                                                *)
LEMMA RowStepBudget ==
    ASSUME NEW row \in Row, NEW next, RowStep(row, next),
           WithinBudget(row)
    PROVE  WithinBudget(next)
<1> USE DEF WithinBudget, BudgetLeft, ShouldRetry, Claimable
<1>1. row.attempts \in Nat /\ row.max_attempts \in Int
  BY DEF Row
<1>2. CASE next = row
  BY <1>2
<1>3. CASE \E n \in Budgets, wait \in Instants, deadline \in Instants :
              next = NewRow(n, wait, deadline)
  BY <1>3 DEF NewRow
<1>4. CASE \/ next = Expired(row) \/ next = Completed(row)
           \/ next = DeadLettered(row)
  BY <1>1, <1>4, RowStepFields DEF Expired, Completed, DeadLettered
<1>5. CASE ClaimCandidate(row) /\ next = Claimed(row)
  BY <1>1, <1>5, RowStepFields DEF ClaimCandidate, Claimed
<1>6. CASE next = Released(row)
  BY <1>1, <1>6, RowStepFields DEF Released
<1>7. CASE row.status \in Claimable /\ next = Started(row)
  BY <1>1, <1>7, RowStepFields
<1>8. CASE \E delay \in 0..MaxTicks : next = Failed(row, delay)
  BY <1>1, <1>8, RowStepFields
<1>9. CASE \E from \in {"failed", "dispatching", "processing"} :
              next = Recovered(row, from)
  BY <1>1, <1>9, RowStepFields DEF Recovered
<1>10. CASE next = PurgedRow
  BY <1>10, RowStepFields
<1>11. CASE next = Aged(row)
  BY <1>1, <1>11, RowStepFields
<1>12. CASE row.status \in Status /\ next = Retried(row)
  BY <1>1, <1>12, RowStepFields
<1> QED
  BY <1>2, <1>3, <1>4, <1>5, <1>6, <1>7, <1>8, <1>9, <1>10, <1>11, <1>12
  DEF RowStep, StatementStep, Outcome

-----------------------------------------------------------------------------
(* Steps of the system are steps of its rows.                              *)

LEMMA NextIsRowSteps ==
    ASSUME TypeOK, Next
    PROVE  /\ ledger' \in [Tasks -> Row]
           /\ \A t \in Tasks :
                 /\ RowStep(ledger[t], ledger'[t])
                 /\ \/ StatementStep(ledger[t], ledger'[t])
                    \/ \E w \in Workers : EndsRunOf(w, t)
<1>1. ledger \in [Tasks -> Row]
  BY DEF TypeOK
<1> DEFINE Step(t) == \/ StatementStep(ledger[t], ledger'[t])
                      \/ /\ Outcome(ledger[t], ledger'[t])
                         /\ \E w \in Workers : EndsRunOf(w, t)
           Good == /\ ledger' = [t \in Tasks |-> ledger'[t]]
                   /\ \A t \in Tasks : Step(t)
<1>2. ASSUME UNCHANGED ledger PROVE Good
  BY <1>1, <1>2 DEF StatementStep
<1>3. ASSUME NEW t \in Tasks, CreateTask(t) PROVE Good
  BY <1>1, <1>3 DEF CreateTask, StatementStep
<1>4. ASSUME NEW d \in Dispatchers, Claim(d) PROVE Good
  BY <1>1, <1>4 DEF Claim, StatementStep, Unlocked, Where, ExpiredAtClaim
<1>5. ASSUME NEW ids, ReleaseRows(ids) PROVE Good
  BY <1>1, <1>5 DEF ReleaseRows, StatementStep
<1>6. ASSUME NEW w \in Workers, NEW t \in Tasks, ExpireAtStart(w, t) PROVE Good
  BY <1>1, <1>6 DEF ExpireAtStart, StatementStep, Claimable
<1>7. ASSUME NEW w \in Workers, NEW t \in Tasks, StartRun(w, t) PROVE Good
  BY <1>1, <1>7 DEF StartRun, Startable, StatementStep
<1>8. ASSUME NEW w \in Workers, HandlerEnds(w), ~OutcomeSkipped(w) PROVE Good
  <2>1. running[w] # Nobody => running[w].task \in Tasks
    BY DEF TypeOK, Run
  <2>2. ASSUME NEW t, StillProcessing(t)
        PROVE  /\ ledger[t].status \in Status
               /\ ExpireOnCommit => ledger[t].status = "processing"
    BY <2>2 DEF StillProcessing, Status
  <2>3. \A t \in Tasks : ledger'[t] = ledger[t] => Step(t)
    BY DEF StatementStep
  <2>4. PICK row : /\ Finish(w, row)
                   /\ LET old == ledger[running[w].task]
                      IN  \/ row = Completed(old) \/ row = DeadLettered(old)
                          \/ \E delay \in 0..MaxTicks : row = Failed(old, delay)
    BY <1>8 DEF HandlerEnds, HandlerReturns, HandlerFails, HandlerFailsFast
  <2>5. Outcome(ledger[running[w].task], row)
    BY <2>2, <2>4 DEF Finish, Outcome
  <2>6. EndsRunOf(w, running[w].task) /\ running[w].task \in Tasks
    BY <1>8, <2>1, <2>4 DEF Finish, RunEnds, EndsRunOf
  <2>7. ledger' = [ledger EXCEPT ![running[w].task] = row]
    BY <2>4 DEF Finish
  <2> QED
    BY <1>1, <2>3, <2>5, <2>6, <2>7
<1>9. ASSUME NEW s \in Sweepers, SweepExpired(s) PROVE Good
  BY <1>1, <1>9 DEF SweepExpired, StatementStep, Unlocked, Where, ExpiredAtSweep
<1>10. ASSUME NEW ids, NEW from \in {"failed", "dispatching", "processing"},
              RecoverRows(ids, from)
       PROVE  Good
  BY <1>1, <1>10 DEF RecoverRows, StatementStep
<1>11. ASSUME OperatorStep PROVE Good
  <2>1. ASSUME NEW t \in Tasks, RetryTask(t) \/ KillTask(t) PROVE Good
    BY <1>1, <2>1 DEF RetryTask, KillTask, StatementStep
  <2>2. ASSUME NEW status \in Status, BulkRetry(status) PROVE Good
    BY <1>1, <2>2 DEF BulkRetry, StatementStep
  <2>3. ASSUME NEW ids \in SUBSET Tasks, PurgeCompleted(ids) PROVE Good
    BY <1>1, <2>3 DEF PurgeCompleted, StatementStep
  <2> QED
    BY <1>11, <2>1, <2>2, <2>3 DEF OperatorStep
<1>12. ASSUME Tick PROVE Good
  BY <1>1, <1>12 DEF Tick, StatementStep
<1>13. Good
  <2>1. ASSUME NEW d \in Dispatchers, DispatcherStep(d) \/ DispatcherFault(d)
        PROVE  Good \/ UNCHANGED ledger
    BY <1>4, <1>5, <2>1
    DEF DispatcherStep, DispatcherFault, Release, RetryPendingRelease,
        ReleaseFails, Dispatch, DispatchFails, DispatcherCrash
  <2>2. ASSUME NEW s \in Sweepers, SweeperStep(s)
        PROVE  Good \/ UNCHANGED ledger
    <3>1. pass[s] # "expired" =>
              RecoveredStatus[pass[s]] \in {"failed", "dispatching", "processing"}
      BY DEF TypeOK, Passes, RecoveredStatus
    <3> QED
      BY <1>9, <1>10, <2>2, <3>1
      DEF SweeperStep, LockedPass, SelectRows, UpdateSelected
  <2>3. ASSUME NEW t \in Tasks, CreateTask(t) \/ BrokerFault(t) \/ Delivered(t)
        PROVE  Good \/ UNCHANGED ledger
    BY <1>3, <1>6, <1>7, <2>3
    DEF BrokerFault, LoseMessage, DuplicateMessage, Delivered, SkipDelivery
  <2>4. ASSUME NEW w \in Workers, HandlerEnds(w) \/ WorkerCrash(w)
        PROVE  Good \/ UNCHANGED ledger
    BY <1>8, <2>4 DEF OutcomeSkipped, WorkerCrash
  <2> QED
    BY <1>2, <1>11, <1>12, <2>1, <2>2, <2>3, <2>4 DEF Next
<1>14. \A t \in Tasks : RowStep(ledger[t], ledger'[t])
  BY <1>13 DEF RowStep
<1>15. \A t \in Tasks : ledger'[t] \in Row
  BY <1>1, <1>14, RowStepType
<1> QED
  BY <1>13, <1>14, <1>15

-----------------------------------------------------------------------------
(* Type correctness.                                                       *)

LEMMA InitType == Init => TypeOK
  BY TicksAssumption, MaxAgeType, BoundsAssumption
  DEF Init, TypeOK, AbsentRow, Row, NoRow, Instants, Passes

LEMMA NextType ==
    ASSUME TypeOK, Next
    PROVE  TypeOK'
<1> DEFINE Others ==
        /\ pc' \in [Dispatchers -> {"idle", "sending", "releasing"}]
        /\ held' \in [Dispatchers -> SUBSET Tasks]
        /\ pending_release' \in [Dispatchers -> SUBSET Tasks]
        /\ broker' \in [Tasks -> 0..MaxMessages]
        /\ running' \in [Workers -> Run \cup {Nobody}]
        /\ pass' \in [Sweepers -> Passes]
        /\ selected' \in [Sweepers -> SUBSET Tasks]
        /\ faults' \in 0..MaxFaults
        /\ interventions' \in 0..MaxInterventions
        /\ owner' \in [Tasks -> Dispatchers \cup Workers \cup {Nobody}]
        /\ interrupted' \subseteq Tasks
        /\ killed' \subseteq Workers
<1> USE DEF vars, dispatcherVars, sweeperVars, budgetVars, historyVars
<1>1. ledger' \in [Tasks -> Row]
  BY NextIsRowSteps
<1>2. ClaimsEnd => owner' \in [Tasks -> Dispatchers \cup Workers \cup {Nobody}]
  BY DEF TypeOK, ClaimsEnd
<1>3. Interruptions => interrupted' \subseteq Tasks
  BY DEF TypeOK, Interruptions
<1>4. /\ Fault => faults' \in 0..MaxFaults
      /\ Intervention => interventions' \in 0..MaxInterventions
  BY BoundsAssumption DEF TypeOK, Fault, Intervention
<1>5. ASSUME NEW t \in Tasks, CreateTask(t) PROVE Others
  BY <1>5 DEF TypeOK, CreateTask
<1>6. ASSUME NEW t \in Tasks, BrokerFault(t) PROVE Others
  BY <1>4, <1>6, BoundsAssumption
  DEF TypeOK, BrokerFault, LoseMessage, DuplicateMessage
<1>7. ASSUME NEW t \in Tasks, Delivered(t) PROVE Others
  <2>1. PICK w \in Workers : \/ SkipDelivery(w, t) \/ ExpireAtStart(w, t)
                             \/ StartRun(w, t)
    BY <1>7 DEF Delivered
  <2>2. broker' \in [Tasks -> 0..MaxMessages]
    BY <2>1, BoundsAssumption
    DEF TypeOK, SkipDelivery, ExpireAtStart, StartRun, Receive
  <2>3. CASE SkipDelivery(w, t)
    BY <2>2, <2>3 DEF TypeOK, SkipDelivery
  <2>4. CASE ExpireAtStart(w, t)
    BY <1>2, <2>2, <2>4 DEF TypeOK, ExpireAtStart
  <2>5. CASE StartRun(w, t)
    BY <2>2, <2>5 DEF TypeOK, StartRun, Run, Row
  <2> QED
    BY <2>1, <2>3, <2>4, <2>5
<1>8. ASSUME NEW d \in Dispatchers, DispatcherStep(d) PROVE Others
  <2>1. CASE Claim(d)
    BY <2>1 DEF TypeOK, Claim, MayClaim, Unlocked, Where
  <2>2. CASE Release(d) \/ RetryPendingRelease(d)
    BY <1>2, <2>2 DEF TypeOK, Release, RetryPendingRelease, ReleaseRows
  <2>3. ASSUME NEW t \in Tasks, Dispatch(d, t) PROVE Others
    BY <2>3, BoundsAssumption DEF TypeOK, Dispatch
  <2> QED
    BY <1>8, <2>1, <2>2, <2>3 DEF DispatcherStep
<1>9. ASSUME NEW d \in Dispatchers, DispatcherFault(d) PROVE Others
  <2>1. CASE ReleaseFails(d)
    BY <1>2, <1>4, <2>1 DEF TypeOK, ReleaseFails, ReleaseRows
  <2>2. CASE DispatcherCrash(d)
    BY <1>4, <2>2 DEF TypeOK, DispatcherCrash
  <2>3. ASSUME NEW t \in Tasks, DispatchFails(d, t) PROVE Others
    BY <1>4, <2>3, BoundsAssumption DEF TypeOK, DispatchFails
  <2> QED
    BY <1>9, <2>1, <2>2, <2>3 DEF DispatcherFault
<1>10. ASSUME NEW w \in Workers, HandlerEnds(w) PROVE Others
  <2>1. CASE OutcomeSkipped(w)
    BY <2>1 DEF TypeOK, OutcomeSkipped, RunEnds
  <2>2. ASSUME NEW row, Finish(w, row) PROVE Others
    BY <1>2, <2>2 DEF TypeOK, Finish, RunEnds
  <2> QED
    BY <1>10, <2>1, <2>2
    DEF HandlerEnds, HandlerReturns, HandlerFails, HandlerFailsFast
<1>11. ASSUME NEW w \in Workers, WorkerCrash(w) PROVE Others
  BY <1>4, <1>11 DEF TypeOK, WorkerCrash, RunEnds
<1>12. ASSUME NEW s \in Sweepers, SweeperStep(s) PROVE Others
  <2>1. \A p \in Passes : NextPass[p] \in Passes
    BY DEF Passes, NextPass
  <2>2. CASE SweepExpired(s)
    BY <1>2, <2>2 DEF TypeOK, SweepExpired, Passes
  <2>3. CASE LockedPass(s)
    BY <1>2, <1>3, <2>1, <2>3 DEF TypeOK, LockedPass, RecoverRows
  <2>4. CASE SelectRows(s)
    BY <2>1, <2>4 DEF TypeOK, SelectRows, Limited, Found, Where, Passes
  <2>5. CASE UpdateSelected(s)
    BY <1>2, <1>3, <2>1, <2>5 DEF TypeOK, UpdateSelected, RecoverRows
  <2> QED
    BY <1>12, <2>2, <2>3, <2>4, <2>5 DEF SweeperStep
<1>13. ASSUME OperatorStep PROVE Others
  BY <1>2, <1>3, <1>4, <1>13
  DEF TypeOK, OperatorStep, RetryTask, BulkRetry, KillTask, PurgeCompleted
<1>14. ASSUME Tick PROVE Others
  BY <1>14 DEF TypeOK, Tick
<1>15. Others
  BY <1>5, <1>6, <1>7, <1>8, <1>9, <1>10, <1>11, <1>12, <1>13, <1>14 DEF Next
<1> QED
  BY <1>1, <1>15 DEF TypeOK

(* Every variable stays within its type, whatever the actors, the bounds   *)
(* and the interleaving.                                                   *)
THEOREM TypeCorrect == Spec => []TypeOK
<1>1. TypeOK /\ UNCHANGED vars => TypeOK'
  BY DEF TypeOK, vars, dispatcherVars, sweeperVars, budgetVars, historyVars
<1> QED
  BY InitType, NextType, <1>1, PTL DEF Spec

-----------------------------------------------------------------------------
(* The attempt budget.                                                     *)

LedgerInv ==
    /\ TypeOK
    /\ BudgetRespected

(* The inductive invariant of the ledger: a row within its budget stays so *)
(* in every statement, whatever budget it was stamped with.                *)
LEMMA LedgerInvariant == Spec => []LedgerInv
<1>1. Init => LedgerInv
  BY InitType
  DEF Init, LedgerInv, BudgetRespected, WithinBudget, AbsentRow, Claimable
<1>2. LedgerInv /\ [Next]_vars => LedgerInv'
  <2> SUFFICES ASSUME LedgerInv, [Next]_vars PROVE LedgerInv'
    OBVIOUS
  <2>1. CASE Next
    <3>1. \A t \in Tasks : RowStep(ledger[t], ledger'[t])
      BY <2>1, NextIsRowSteps DEF LedgerInv
    <3>2. \A t \in Tasks : ledger[t] \in Row
      BY DEF LedgerInv, TypeOK
    <3>3. \A t \in Tasks : WithinBudget(ledger'[t])
      BY <3>1, <3>2, RowStepBudget DEF LedgerInv, BudgetRespected
    <3> QED
      BY <2>1, <3>3, NextType DEF LedgerInv, BudgetRespected
  <2>2. CASE UNCHANGED vars
    BY <2>2
    DEF LedgerInv, TypeOK, BudgetRespected, vars, dispatcherVars, sweeperVars,
        budgetVars, historyVars
  <2> QED
    BY <2>1, <2>2
<1> QED
  BY <1>1, <1>2, PTL DEF Spec

(* No row ever exceeds the budget it was stamped with, and none waits for  *)
(* a worker with its budget spent, but for the first attempt of a row that *)
(* was stamped with none: process_task needs no other check of its own.    *)
THEOREM BudgetCorrect == Spec => []BudgetRespected
<1>1. LedgerInv => BudgetRespected
  BY DEF LedgerInv
<1> QED
  BY <1>1, LedgerInvariant, PTL

-----------------------------------------------------------------------------
(* Runs and the rows they run.                                             *)

(* Nobody disturbs the run that row t stands for.                          *)
RunKept(t) ==
    /\ ledger'[t].status = ledger[t].status
    /\ ledger'[t].attempts = ledger[t].attempts
    /\ ledger'[t].max_attempts = ledger[t].max_attempts
    /\ owner'[t] = owner[t]

(* A row in processing is left alone, is recorded as interrupted, or gets  *)
(* an outcome from a worker that runs it.                                  *)
LEMMA ProcessingKept ==
    ASSUME TypeOK, Next, NEW t \in Tasks, ledger[t].status = "processing"
    PROVE  \/ RunKept(t)
           \/ t \in interrupted'
           \/ \E w \in Workers : EndsRunOf(w, t)
<1> DEFINE Kept == RunKept(t) \/ t \in interrupted'
<1> USE DEF RunKept
<1>1. ledger \in [Tasks -> Row]
  BY DEF TypeOK
<1>2. ASSUME UNCHANGED <<ledger, owner>> PROVE Kept
  BY <1>2
<1>3. ASSUME NEW u \in Tasks, CreateTask(u) PROVE Kept
  BY <1>1, <1>3 DEF CreateTask, historyVars
<1>4. ASSUME NEW d \in Dispatchers, Claim(d) PROVE Kept
  BY <1>1, <1>4
  DEF Claim, Unlocked, Where, ExpiredAtClaim, ClaimCandidate
<1>5. ASSUME NEW ids, ReleaseRows(ids) PROVE Kept
  BY <1>1, <1>5 DEF ReleaseRows, ClaimsEnd, Released
<1>6. ASSUME NEW w \in Workers, NEW u \in Tasks,
             ExpireAtStart(w, u) \/ StartRun(w, u)
      PROVE  Kept
  <2>1. u # t
    BY <1>6 DEF ExpireAtStart, StartRun, Startable, Claimable
  <2> QED
    BY <1>1, <1>6, <2>1 DEF ExpireAtStart, StartRun, ClaimsEnd, TypeOK
<1>7. ASSUME NEW w \in Workers, HandlerEnds(w)
      PROVE  Kept \/ EndsRunOf(w, t)
  BY <1>1, <1>7
  DEF HandlerEnds, HandlerReturns, HandlerFails, HandlerFailsFast, Finish,
      OutcomeSkipped, RunEnds, ClaimsEnd, EndsRunOf
<1>8. ASSUME NEW s \in Sweepers, SweepExpired(s) PROVE Kept
  BY <1>1, <1>8 DEF SweepExpired, ClaimsEnd, Unlocked, Where, ExpiredAtSweep
<1>9. ASSUME NEW ids, NEW from, RecoverRows(ids, from) PROVE Kept
  <2>1. CASE ledger'[t].status # "processing"
    BY <1>9, <2>1 DEF RecoverRows, Interruptions
  <2>2. CASE ledger'[t].status = "processing"
    <3>1. ledger'[t] = ledger[t]
      BY <1>1, <1>9, <2>2, RowStepFields DEF RecoverRows, Recovered
    <3> QED
      BY <1>9, <3>1 DEF RecoverRows, ClaimsEnd
  <2> QED
    BY <2>1, <2>2
<1>10. ASSUME OperatorStep PROVE Kept
  <2>1. ASSUME NEW u \in Tasks, RetryTask(u) \/ KillTask(u) PROVE Kept
    <3>1. CASE u = t
      BY <1>1, <2>1, <3>1, RowStepFields
      DEF RetryTask, KillTask, Interruptions, DeadLettered
    <3>2. CASE u # t
      BY <1>1, <2>1, <3>2 DEF RetryTask, KillTask, ClaimsEnd
    <3> QED
      BY <3>1, <3>2
  <2>2. ASSUME NEW status \in Status, BulkRetry(status) PROVE Kept
    <3>1. PICK ids \in SUBSET {u \in Tasks : ledger[u].status = status} :
              ledger' = [u \in Tasks |->
                            IF u \in ids THEN Retried(ledger[u]) ELSE ledger[u]]
      BY <2>2 DEF BulkRetry
    <3>2. CASE t \in ids
      <4>1. ledger'[t].status = "pending"
        BY <1>1, <3>1, <3>2, RowStepFields
      <4> QED
        BY <2>2, <4>1 DEF BulkRetry, Interruptions
    <3>3. CASE t \notin ids
      BY <1>1, <2>2, <3>1, <3>3 DEF BulkRetry, ClaimsEnd
    <3> QED
      BY <3>2, <3>3
  <2>3. ASSUME NEW ids \in SUBSET Tasks, PurgeCompleted(ids) PROVE Kept
    BY <1>1, <2>3 DEF PurgeCompleted, historyVars
  <2> QED
    BY <1>10, <2>1, <2>2, <2>3 DEF OperatorStep
<1>11. ASSUME Tick PROVE Kept
  BY <1>1, <1>11, RowStepFields DEF Tick, historyVars
<1>12. ASSUME NEW d \in Dispatchers, DispatcherStep(d) \/ DispatcherFault(d)
       PROVE  Kept
  BY <1>2, <1>4, <1>5, <1>12
  DEF DispatcherStep, DispatcherFault, Release, RetryPendingRelease,
      ReleaseFails, Dispatch, DispatchFails, DispatcherCrash, historyVars
<1>13. ASSUME NEW s \in Sweepers, SweeperStep(s) PROVE Kept
  BY <1>2, <1>8, <1>9, <1>13
  DEF SweeperStep, LockedPass, SelectRows, UpdateSelected, historyVars
<1>14. ASSUME NEW u \in Tasks, BrokerFault(u) \/ Delivered(u) PROVE Kept
  BY <1>2, <1>6, <1>14
  DEF BrokerFault, LoseMessage, DuplicateMessage, Delivered, SkipDelivery,
      historyVars
<1>15. ASSUME NEW w \in Workers, WorkerCrash(w) PROVE Kept
  BY <1>2, <1>15 DEF WorkerCrash, historyVars
<1> QED
  BY <1>3, <1>7, <1>10, <1>11, <1>12, <1>13, <1>14, <1>15 DEF Next

(* A worker's cached values change only when it starts or ends a run.      *)
LEMMA RunningKept ==
    ASSUME TypeOK, Next, NEW w \in Workers, running'[w] # Nobody
    PROVE  \/ running'[w] = running[w]
           \/ \E t \in Tasks : StartRun(w, t)
<1>1. running \in [Workers -> Run \cup {Nobody}]
  BY DEF TypeOK
<1>2. ASSUME NEW v \in Workers, HandlerEnds(v) \/ WorkerCrash(v)
      PROVE  running'[w] = running[w]
  BY <1>1, <1>2
  DEF HandlerEnds, HandlerReturns, HandlerFails, HandlerFailsFast, Finish,
      OutcomeSkipped, WorkerCrash, RunEnds
<1>3. ASSUME NEW t \in Tasks, Delivered(t)
      PROVE  running'[w] = running[w] \/ StartRun(w, t)
  BY <1>1, <1>3 DEF Delivered, SkipDelivery, ExpireAtStart, StartRun
<1>4. ASSUME NEW d \in Dispatchers, DispatcherStep(d) \/ DispatcherFault(d)
      PROVE  running' = running
  BY <1>4
  DEF DispatcherStep, DispatcherFault, Claim, Release, RetryPendingRelease,
      ReleaseFails, Dispatch, DispatchFails, DispatcherCrash
<1>5. ASSUME NEW s \in Sweepers, SweeperStep(s) PROVE running' = running
  BY <1>5 DEF SweeperStep, SweepExpired, LockedPass, SelectRows, UpdateSelected
<1>6. OperatorStep => running' = running
  BY DEF OperatorStep, RetryTask, BulkRetry, KillTask, PurgeCompleted
<1>7. ASSUME NEW t \in Tasks, CreateTask(t) \/ BrokerFault(t)
      PROVE  running' = running
  BY <1>7 DEF CreateTask, BrokerFault, LoseMessage, DuplicateMessage
<1>8. Tick => running' = running
  BY DEF Tick
<1> QED
  BY <1>2, <1>3, <1>4, <1>5, <1>6, <1>7, <1>8 DEF Next

LEMMA InterruptedGrows ==
    ASSUME TypeOK, Next
    PROVE  interrupted \subseteq interrupted'
<1> USE DEF historyVars
<1>1. ASSUME NEW t \in Tasks, CreateTask(t) \/ BrokerFault(t) \/ Delivered(t)
      PROVE  interrupted' = interrupted
  BY <1>1
  DEF CreateTask, BrokerFault, LoseMessage, DuplicateMessage, Delivered,
      SkipDelivery, ExpireAtStart, StartRun
<1>2. ASSUME NEW d \in Dispatchers, DispatcherStep(d) \/ DispatcherFault(d)
      PROVE  interrupted' = interrupted
  BY <1>2
  DEF DispatcherStep, DispatcherFault, Claim, Release, RetryPendingRelease,
      ReleaseFails, Dispatch, DispatchFails, DispatcherCrash
<1>3. ASSUME NEW w \in Workers, HandlerEnds(w) \/ WorkerCrash(w)
      PROVE  interrupted' = interrupted
  BY <1>3
  DEF HandlerEnds, HandlerReturns, HandlerFails, HandlerFailsFast, Finish,
      OutcomeSkipped, WorkerCrash
<1>4. ASSUME NEW s \in Sweepers, SweeperStep(s)
      PROVE  interrupted \subseteq interrupted'
  BY <1>4
  DEF SweeperStep, SweepExpired, LockedPass, SelectRows, UpdateSelected,
      RecoverRows, Interruptions
<1>5. OperatorStep => interrupted \subseteq interrupted'
  BY DEF OperatorStep, RetryTask, BulkRetry, KillTask, PurgeCompleted,
         Interruptions
<1>6. Tick => interrupted' = interrupted
  BY DEF Tick
<1> QED
  BY <1>1, <1>2, <1>3, <1>4, <1>5, <1>6 DEF Next

RunInv == TypeOK /\ RunOwnsRow

LEMMA RunInvStep ==
    ASSUME RunInv, Next
    PROVE  RunInv'
<1>1. TypeOK /\ TypeOK'
  BY NextType DEF RunInv
<1>2. SUFFICES ASSUME NEW w \in Workers,
                      running'[w] # Nobody,
                      running'[w].task \notin interrupted'
               PROVE  /\ ledger'[running'[w].task].status = "processing"
                      /\ owner'[running'[w].task] = w
                      /\ ledger'[running'[w].task].attempts = running'[w].attempts
                      /\ ledger'[running'[w].task].max_attempts
                             = running'[w].max_attempts
  BY <1>1 DEF RunInv, RunOwnsRow
<1>3. CASE \E t \in Tasks : StartRun(w, t)
  <2>1. PICK t \in Tasks : StartRun(w, t)
    BY <1>3
  <2>2. /\ running'[w] = [task |-> t, attempts |-> ledger[t].attempts + 1,
                          max_attempts |-> ledger[t].max_attempts]
        /\ ledger'[t] = Started(ledger[t])
        /\ owner'[t] = w
    BY <1>1, <2>1 DEF StartRun, TypeOK
  <2>3. ledger[t] \in Row
    BY <1>1 DEF TypeOK
  <2> QED
    BY <2>2, <2>3, RowStepFields
<1>4. CASE running'[w] = running[w]
  <2> DEFINE t == running[w].task
  <2>1. t \in Tasks /\ t \notin interrupted /\ running[w] # Nobody
    BY <1>1, <1>2, <1>4, InterruptedGrows DEF TypeOK, Run
  <2>2. /\ ledger[t].status = "processing"
        /\ owner[t] = w
        /\ ledger[t].attempts = running[w].attempts
        /\ ledger[t].max_attempts = running[w].max_attempts
    BY <2>1 DEF RunInv, RunOwnsRow
  <2>3. ASSUME NEW v \in Workers, EndsRunOf(v, t) PROVE FALSE
    <3>1. owner[t] = v
      BY <2>1, <2>3 DEF RunInv, RunOwnsRow, EndsRunOf
    <3>2. running'[v] = Nobody
      BY <1>1, <2>3
      DEF EndsRunOf, HandlerEnds, HandlerReturns, HandlerFails,
          HandlerFailsFast, Finish, OutcomeSkipped, RunEnds, TypeOK
    <3> QED
      BY <1>2, <2>2, <3>1, <3>2
  <2>4. RunKept(t)
    BY <1>1, <1>2, <1>4, <2>1, <2>2, <2>3, ProcessingKept
  <2> QED
    BY <1>4, <2>2, <2>4 DEF RunKept
<1> QED
  BY <1>1, <1>2, <1>3, <1>4, RunningKept

(* Whatever a worker cached when it started a run is what the row holds    *)
(* until it ends, unless somebody took the row out of processing.          *)
THEOREM RunCorrect == Spec => []RunOwnsRow
<1>1. Init => RunInv
  BY InitType DEF Init, RunInv, RunOwnsRow
<1>2. RunInv /\ UNCHANGED vars => RunInv'
  BY DEF RunInv, TypeOK, RunOwnsRow, vars, dispatcherVars, sweeperVars,
         budgetVars, historyVars
<1>3. RunInv => RunOwnsRow
  BY DEF RunInv
<1> QED
  BY <1>1, <1>2, <1>3, RunInvStep, PTL DEF Spec

(* Two workers run one task at once only after its row was taken out of    *)
(* processing under the first: duplicates from the transport, releases and *)
(* dispatch timeouts never suffice.                                        *)
THEOREM OneRunAtATimeCorrect == Spec => []OneRunAtATime
<1>1. RunOwnsRow => OneRunAtATime
  BY DEF RunOwnsRow, OneRunAtATime
<1> QED
  BY <1>1, RunCorrect, PTL

-----------------------------------------------------------------------------
(* Failed rows.                                                            *)

FailedInv == RunInv /\ FailedHasBudget

(* A row fails, rather than dies, only with attempts left: the worker that *)
(* decides it from what it cached decides it of the row.                   *)
THEOREM FailedBudgetCorrect == Spec => []FailedHasBudget
<1>1. Init => FailedInv
  BY InitType DEF Init, FailedInv, RunInv, RunOwnsRow, FailedHasBudget, AbsentRow
<1>2. ASSUME FailedInv, Next PROVE FailedInv'
  <2>1. TypeOK /\ RunOwnsRow
    BY <1>2 DEF FailedInv, RunInv
  <2>2. SUFFICES ASSUME NEW t \in Tasks, ledger'[t].status = "failed",
                        t \notin interrupted'
                 PROVE  BudgetLeft(ledger'[t])
    BY <1>2, RunInvStep DEF FailedInv, FailedHasBudget
  <2>3. t \notin interrupted
    BY <1>2, <2>1, <2>2, InterruptedGrows
  <2>4. ledger[t] \in Row /\ RowStep(ledger[t], ledger'[t])
    BY <1>2, <2>1, NextIsRowSteps DEF TypeOK
  <2>5. CASE ledger[t].status = "processing"
    <3>1. PICK w \in Workers : EndsRunOf(w, t)
      BY <1>2, <2>1, <2>2, <2>5, ProcessingKept DEF RunKept
    <3>2. /\ ledger[t].attempts = running[w].attempts
          /\ ledger[t].max_attempts = running[w].max_attempts
      BY <2>1, <2>3, <3>1 DEF RunOwnsRow, EndsRunOf
    <3>3. ledger' # ledger
      BY <2>2, <2>5
    <3>4. \/ ledger'[t] = Completed(ledger[t])
          \/ ledger'[t] = DeadLettered(ledger[t])
          \/ /\ ~ShouldDie(running[w].attempts, running[w].max_attempts)
             /\ \E delay : ledger'[t] = Failed(ledger[t], delay)
      BY <2>1, <2>2, <3>1, <3>3
      DEF EndsRunOf, HandlerEnds, HandlerReturns, HandlerFails,
          HandlerFailsFast, Finish, OutcomeSkipped, TypeOK
    <3>5. ~ShouldDie(running[w].attempts, running[w].max_attempts)
      BY <2>2, <2>4, <3>4, RowStepFields DEF Completed, DeadLettered
    <3>6. /\ ledger'[t].attempts = ledger[t].attempts
          /\ ledger'[t].max_attempts = ledger[t].max_attempts
      BY <2>4, <3>4, RowStepFields DEF Completed, DeadLettered
    <3> QED
      BY <2>4, <3>2, <3>5, <3>6 DEF BudgetLeft, ShouldRetry, ShouldDie, Row
  <2>6. CASE ledger[t].status = "failed"
    <3>1. /\ ledger'[t].attempts = ledger[t].attempts
          /\ ledger'[t].max_attempts = ledger[t].max_attempts
      BY <2>2, <2>4, <2>6, RowStepFields
      DEF RowStep, StatementStep, Outcome, NewRow, Expired, Claimed, Released,
          Claimable, Recovered, Completed, DeadLettered
    <3> QED
      BY <1>2, <2>3, <2>6, <3>1 DEF FailedInv, FailedHasBudget, BudgetLeft
  <2>7. CASE ledger[t].status \notin {"processing", "failed"}
    <3> DEFINE next == ledger'[t]
    <3>1. StatementStep(ledger[t], next)
      <4>1. ASSUME NEW w \in Workers, EndsRunOf(w, t) PROVE FALSE
        BY <2>1, <2>3, <2>7, <4>1 DEF RunOwnsRow, EndsRunOf
      <4> QED
        BY <1>2, <2>1, <4>1, NextIsRowSteps
    <3>2. /\ next # ledger[t]
          /\ next # Aged(ledger[t])
          /\ \A n, wait, deadline : next # NewRow(n, wait, deadline)
          /\ \A status : status # "failed" => next # Enter(ledger[t], status)
          /\ next # Started(ledger[t])
          /\ next # Retried(ledger[t])
          /\ next # PurgedRow
      BY <2>2, <2>4, <2>7, RowStepFields DEF NewRow
    <3> HIDE DEF next
    <3> QED
      BY <2>7, <3>1, <3>2
      DEF StatementStep, Expired, Claimed, Released, Recovered, DeadLettered
  <2> QED
    BY <2>5, <2>6, <2>7
<1>3. FailedInv /\ UNCHANGED vars => FailedInv'
  BY DEF FailedInv, FailedHasBudget, RunInv, TypeOK, RunOwnsRow, vars,
         dispatcherVars, sweeperVars, budgetVars, historyVars
<1>4. FailedInv => FailedHasBudget
  BY DEF FailedInv
<1> QED
  BY <1>1, <1>2, <1>3, <1>4, PTL DEF Spec

-----------------------------------------------------------------------------
(* Final states, and the lifecycle.                                        *)

(* A completed or expired row is never written again, short of a purge, if *)
(* a run's outcome is decided on the row as it is then.                    *)
THEOREM FinalStatesCorrect == ExpireOnCommit /\ Spec => FinalStatesStay
<1> SUFFICES ASSUME ExpireOnCommit PROVE Spec => FinalStatesStay
  OBVIOUS
<1>1. ASSUME TypeOK, [Next]_vars, NEW t \in Tasks
      PROVE  /\ ledger[t].status = "expired" => ledger'[t].status = "expired"
             /\ ledger[t].status = "completed" =>
                    ledger'[t].status \in {"completed", "purged"}
  <2>1. CASE UNCHANGED vars
    BY <2>1 DEF vars
  <2>2. CASE Next
    <3>1. ledger[t] \in Row /\ RowStep(ledger[t], ledger'[t])
      BY <1>1, <2>2, NextIsRowSteps DEF TypeOK
    <3> QED
      BY <3>1, RowStepFields
      DEF RowStep, StatementStep, Outcome, ClaimCandidate, Released, Claimable,
          Recovered, CanTransitionTo, AllowedTransitions
  <2> QED
    BY <1>1, <2>1, <2>2
<1>2. TypeOK /\ [Next]_vars =>
          [\A t \in Tasks :
              /\ ledger[t].status = "expired" => ledger'[t].status = "expired"
              /\ ledger[t].status = "completed" =>
                     ledger'[t].status \in {"completed", "purged"}]_vars
  BY <1>1
<1> QED
  BY <1>2, TypeCorrect, PTL DEF Spec, FinalStatesStay

LEMMA LifecycleInit == Init => Lifecycle!Init
<1>1. /\ AbsentRow.status = "absent" /\ AbsentRow.attempts = 0
      /\ AbsentRow.max_attempts = 0 /\ DeadlinePassed(AbsentRow) = FALSE
  BY TicksAssumption DEF AbsentRow, DeadlinePassed
<1>2. Init => \A t \in Tasks : ledger[t] = AbsentRow
  BY DEF Init
<1> QED
  BY <1>1, <1>2 DEF Lifecycle!Init

(* Everything that can happen to a row is a step of its lifecycle.         *)
LEMMA RowStepLifecycle ==
    ASSUME ExpireOnCommit, LedgerInv, Next, NEW t \in Tasks
    PROVE  Lifecycle!TaskStep(t)
<1> DEFINE row == ledger[t]
           next == ledger'[t]
           MayTry == row.attempts = 0 \/ BudgetLeft(row)
<1>1. /\ row \in Row /\ WithinBudget(row)
      /\ RowStep(row, next)
  BY NextIsRowSteps DEF LedgerInv, TypeOK, BudgetRespected
<1>2. Lifecycle!Move(t) <=> /\ row.status \in Status
                           /\ CanTransitionTo(row.status, next.status)
                           /\ next.max_attempts = row.max_attempts
                           /\ DeadlinePassed(next) = DeadlinePassed(row)
  BY DEF Lifecycle!Move, Lifecycle!Status, Status,
         Lifecycle!CanTransitionTo, CanTransitionTo,
         Lifecycle!AllowedTransitions, AllowedTransitions
<1>3. /\ next.status = row.status
      /\ next.attempts = row.attempts
      /\ next.max_attempts = row.max_attempts
      /\ DeadlinePassed(row) => DeadlinePassed(next)
      => Lifecycle!TaskStep(t)
  BY DEF Lifecycle!TaskStep, Lifecycle!Stay
<1>4. /\ row.status \in Status
      /\ CanTransitionTo(row.status, next.status)
      /\ next.max_attempts = row.max_attempts
      /\ next.expires_at = row.expires_at
      /\ \/ /\ next.status = "processing"
            /\ MayTry /\ ~DeadlinePassed(row)
            /\ next.attempts = row.attempts + 1
         \/ /\ next.status \in {"pending", "dispatching"}
            /\ next.attempts = row.attempts
            /\ MayTry
            /\ next.status = "dispatching" => ~DeadlinePassed(row)
         \/ next.status = "pending" /\ next.attempts = 0
         \/ /\ next.status \in {"completed", "failed", "dead", "expired"}
            /\ next.status = "expired" => DeadlinePassed(row)
            /\ next.attempts = row.attempts
      => Lifecycle!TaskStep(t)
  BY <1>2
  DEF Lifecycle!TaskStep, Lifecycle!Start, Lifecycle!Requeue,
      Lifecycle!ManualRetry, Lifecycle!Settle, Lifecycle!MayTry,
      Lifecycle!ShouldRetry, BudgetLeft, ShouldRetry, DeadlinePassed
<1>5. CASE next = row \/ next = Aged(row)
  BY <1>1, <1>3, <1>5, RowStepFields, RowStepDeadline
<1>6. CASE /\ row.status = "absent"
           /\ \E n \in Budgets, wait \in Instants, deadline \in Instants :
                 next = NewRow(n, wait, deadline)
  BY <1>6 DEF NewRow, Lifecycle!TaskStep, Lifecycle!Insert, DeadlinePassed
<1>7. CASE row.status = "completed" /\ next = PurgedRow
  BY <1>1, <1>7, RowStepFields, RowStepDeadline
  DEF Lifecycle!TaskStep, Lifecycle!Delete
<1> USE DEF CanTransitionTo, AllowedTransitions, Status
<1>8. CASE /\ row.status \in {"pending", "failed", "dispatching"}
           /\ DeadlinePassed(row)
           /\ next = Expired(row)
  BY <1>1, <1>4, <1>8, RowStepFields, RowStepDeadline DEF Expired
<1>9. CASE ClaimCandidate(row) /\ next = Claimed(row)
  <2>1. MayTry /\ ~DeadlinePassed(row)
    BY <1>1, <1>9 DEF ClaimCandidate, WithinBudget, Claimable
  <2> QED
    BY <1>1, <1>4, <1>9, <2>1, RowStepFields, RowStepDeadline
    DEF ClaimCandidate, Claimed
<1>10. CASE next = Released(row)
  <2>1. CASE row.status = "dispatching"
    BY <1>1, <1>4, <1>10, <2>1, RowStepFields, RowStepDeadline
    DEF Released, WithinBudget, Claimable
  <2>2. CASE row.status # "dispatching"
    BY <1>3, <1>10, <2>2 DEF Released
  <2> QED
    BY <2>1, <2>2
<1>11. CASE row.status \in Claimable /\ ~DeadlinePassed(row) /\ next = Started(row)
  <2>1. MayTry
    BY <1>1, <1>11 DEF WithinBudget
  <2> QED
    BY <1>1, <1>4, <1>11, <2>1, RowStepFields, RowStepDeadline DEF Claimable
<1>12. CASE Outcome(row, next)
  BY <1>1, <1>4, <1>12, RowStepFields, RowStepDeadline
  DEF Outcome, Completed, DeadLettered
<1>13. CASE \E from \in {"failed", "dispatching", "processing"} :
               next = Recovered(row, from)
  <2>1. PICK from \in {"failed", "dispatching", "processing"} :
               next = Recovered(row, from)
    BY <1>13
  <2>2. CASE row.status # from
    BY <1>3, <2>1, <2>2 DEF Recovered
  <2>3. CASE row.status = from
    BY <1>1, <1>4, <2>1, <2>3, RowStepFields, RowStepDeadline DEF Recovered
  <2> QED
    BY <2>2, <2>3
<1>14. CASE /\ row.status \in Status
            /\ CanTransitionTo(row.status, "pending")
            /\ next = Retried(row)
  BY <1>1, <1>4, <1>14, RowStepFields, RowStepDeadline
<1>15. CASE /\ row.status \in Status
            /\ CanTransitionTo(row.status, "dead")
            /\ next = DeadLettered(row)
  BY <1>1, <1>4, <1>15, RowStepFields, RowStepDeadline DEF DeadLettered
<1> QED
  BY <1>1, <1>5, <1>6, <1>7, <1>8, <1>9, <1>10, <1>11, <1>12, <1>13, <1>14,
     <1>15
  DEF RowStep, StatementStep

(* Dispatchers, workers, sweepers and operators together implement the     *)
(* lifecycle that the ledger promises for each task, as long as a run's    *)
(* outcome is decided on the row as it is then.                            *)
THEOREM LifecycleCorrect == ExpireOnCommit /\ Spec => LifecycleImplemented
<1> SUFFICES ASSUME ExpireOnCommit PROVE Spec => LifecycleImplemented
  OBVIOUS
<1>1. LedgerInv /\ [Next]_vars => [Lifecycle!Next]_(Lifecycle!vars)
  <2>1. LedgerInv /\ Next => Lifecycle!Next
    BY RowStepLifecycle DEF Lifecycle!Next
  <2>2. UNCHANGED vars => UNCHANGED Lifecycle!vars
    BY DEF vars, Lifecycle!vars, DeadlinePassed
  <2> QED
    BY <2>1, <2>2
<1> QED
  BY <1>1, LifecycleInit, LedgerInvariant, PTL
  DEF Spec, LifecycleImplemented, Lifecycle!Spec

-----------------------------------------------------------------------------
(* What a dispatcher has in memory.                                        *)

(* No dispatcher has more than one batch in memory.                        *)
MemoryInv == \A d \in Dispatchers : OneBatch(d)

(* The step of one dispatcher leaves the memory of the others alone.       *)
LEMMA MemoryStep ==
    ASSUME TypeOK, MemoryInv, NEW d \in Dispatchers,
           DispatcherStep(d) \/ DispatcherFault(d)
    PROVE  MemoryInv'
<1> DEFINE Others == \A e \in Dispatchers \ {d} :
               /\ pc'[e] = pc[e] /\ held'[e] = held[e]
               /\ pending_release'[e] = pending_release[e]
<1>t. /\ pc \in [Dispatchers -> {"idle", "sending", "releasing"}]
      /\ held \in [Dispatchers -> SUBSET Tasks]
      /\ pending_release \in [Dispatchers -> SUBSET Tasks]
  BY DEF TypeOK
<1>m. OneBatch(d)
  BY DEF MemoryInv
<1>b. BatchSize \in Nat /\ Cardinality({}) = 0 /\ 0 <= BatchSize
  BY BoundsAssumption, FS_EmptySet
<1>1. ASSUME Claim(d) PROVE OneBatch(d)' /\ Others
  <2>1. PICK batch \in Unlocked(Where(ClaimCandidate) \cap Scope[d], BatchSize) :
           /\ held' = [held EXCEPT ![d] = batch]
           /\ pc' = [pc EXCEPT ![d] = IF batch = {} THEN "idle" ELSE "sending"]
    BY <1>1 DEF Claim
  <2>2. Cardinality(batch) <= BatchSize
    BY DEF Unlocked
  <2> QED
    BY <1>1, <1>t, <1>b, <2>1, <2>2 DEF Claim, MayClaim, OneBatch
<1>2. ASSUME NEW t \in Tasks, Dispatch(d, t) PROVE OneBatch(d)' /\ Others
  <2>1. /\ pc[d] = "sending" /\ t \in held[d]
        /\ held'[d] = held[d] \ {t}
        /\ pc'[d] = IF held[d] = {t} THEN "idle" ELSE "sending"
        /\ pending_release' = pending_release
        /\ Others
    BY <1>2, <1>t DEF Dispatch
  <2>2. IsFiniteSet(held[d])
    BY <1>t, ActorsAssumption, FS_Subset
  <2>3. Cardinality(held[d]) \in Nat
    BY <2>2, FS_CardinalityType
  <2>4. Cardinality(held[d] \ {t}) = Cardinality(held[d]) - 1
    BY <2>1, <2>2, FS_RemoveElement
  <2>5. Cardinality(held[d]) <= BatchSize
    BY <1>m DEF OneBatch
  <2>6. Cardinality(held[d] \ {t}) <= BatchSize
    BY <1>b, <2>3, <2>4, <2>5
  <2>7. pending_release[d] = {}
    BY <1>m, <2>1 DEF OneBatch
  <2> QED
    BY <1>b, <2>1, <2>6, <2>7 DEF OneBatch
<1>3. ASSUME NEW t \in Tasks, DispatchFails(d, t)
      PROVE  OneBatch(d)' /\ Others
  BY <1>3, <1>t, <1>m DEF DispatchFails, OneBatch
<1>4. ASSUME Release(d) PROVE OneBatch(d)' /\ Others
  BY <1>4, <1>t, <1>m, <1>b DEF Release, OneBatch
<1>5. ASSUME ReleaseFails(d) PROVE OneBatch(d)' /\ Others
  <2>1. pending_release[d] = {}
    BY <1>5, <1>m DEF ReleaseFails, OneBatch
  <2>2. pending_release'[d] = held[d]
    BY <1>5, <1>t, <2>1 DEF ReleaseFails
  <2> QED
    BY <1>5, <1>t, <1>m, <1>b, <2>2 DEF ReleaseFails, OneBatch
<1>6. ASSUME RetryPendingRelease(d) PROVE OneBatch(d)' /\ Others
  BY <1>6, <1>t, <1>m, <1>b DEF RetryPendingRelease, OneBatch
<1>7. ASSUME DispatcherCrash(d) PROVE OneBatch(d)' /\ Others
  BY <1>7, <1>t, <1>b DEF DispatcherCrash, OneBatch
<1>8. OneBatch(d)' /\ Others
  BY <1>1, <1>2, <1>3, <1>4, <1>5, <1>6, <1>7
  DEF DispatcherStep, DispatcherFault
<1> QED
  BY <1>8 DEF MemoryInv, OneBatch

(* What a dispatcher has in memory changes in its own steps only.          *)
LEMMA MemoryOwned ==
    ASSUME [Next]_vars
    PROVE  \/ UNCHANGED dispatcherVars
           \/ \E d \in Dispatchers : DispatcherStep(d) \/ DispatcherFault(d)
<1>1. ASSUME NEW t \in Tasks, CreateTask(t) \/ BrokerFault(t) \/ Delivered(t)
      PROVE  UNCHANGED dispatcherVars
  BY <1>1 DEF CreateTask, BrokerFault, LoseMessage, DuplicateMessage,
     Delivered, SkipDelivery, ExpireAtStart, StartRun
<1>2. ASSUME NEW w \in Workers, HandlerEnds(w) \/ WorkerCrash(w)
      PROVE  UNCHANGED dispatcherVars
  BY <1>2 DEF HandlerEnds, HandlerReturns, HandlerFails, HandlerFailsFast,
     Finish, OutcomeSkipped, WorkerCrash
<1>3. ASSUME NEW s \in Sweepers, SweeperStep(s)
      PROVE  UNCHANGED dispatcherVars
  BY <1>3 DEF SweeperStep, SweepExpired, LockedPass, SelectRows,
     UpdateSelected
<1>4. OperatorStep => UNCHANGED dispatcherVars
  BY DEF OperatorStep, RetryTask, KillTask, BulkRetry, PurgeCompleted
<1>5. Tick \/ UNCHANGED vars => UNCHANGED dispatcherVars
  BY DEF Tick, vars
<1> QED
  BY <1>1, <1>2, <1>3, <1>4, <1>5 DEF Next

LEMMA MemoryNext ==
    ASSUME TypeOK, MemoryInv, [Next]_vars
    PROVE  MemoryInv'
<1>1. UNCHANGED dispatcherVars => MemoryInv'
  BY DEF dispatcherVars, MemoryInv, OneBatch
<1> QED
  BY <1>1, MemoryOwned, MemoryStep

LEMMA MemoryInit == Init => MemoryInv
<1>1. BatchSize \in Nat /\ Cardinality({}) = 0 /\ 0 <= BatchSize
  BY BoundsAssumption, FS_EmptySet
<1> QED
  BY <1>1 DEF Init, MemoryInv, OneBatch

LEMMA MemoryInvariant == Spec => []MemoryInv
<1>1. TypeOK /\ MemoryInv /\ [Next]_vars => MemoryInv'
  BY MemoryNext
<1> QED
  BY <1>1, MemoryInit, TypeCorrect, PTL DEF Spec

(* However often releases fail, a dispatcher remembers no more than one    *)
(* batch, and holds nothing beside it.                                     *)
THEOREM StrandedReleaseCorrect == Spec => []StrandedReleaseBounded
<1>1. MemoryInv => StrandedReleaseBounded
  BY DEF MemoryInv, OneBatch, StrandedReleaseBounded
<1> QED
  BY <1>1, MemoryInvariant, PTL

-----------------------------------------------------------------------------
(* The cycle of a dispatcher.                                              *)

(* One step of one dispatcher is a turn of its cycle, or none.             *)
LEMMA CycleStep ==
    ASSUME TypeOK, MemoryInv, NEW d \in Dispatchers,
           DispatcherStep(d) \/ DispatcherFault(d)
    PROVE  /\ \A e \in Dispatchers \ {d} : PhaseOf(e)' = PhaseOf(e)
           /\ \/ PhaseOf(d)' = PhaseOf(d)
              \/ PhaseOf(d) = "free" /\ PhaseOf(d)' = "holding"
              \/ PhaseOf(d) = "holding" /\ PhaseOf(d)' \in {"free", "stranded"}
              \/ PhaseOf(d) = "stranded" /\ PhaseOf(d)' = "free"
<1> DEFINE Others == \A e \in Dispatchers \ {d} :
               pc'[e] = pc[e] /\ pending_release'[e] = pending_release[e]
<1>t. /\ pc \in [Dispatchers -> {"idle", "sending", "releasing"}]
      /\ held \in [Dispatchers -> SUBSET Tasks]
      /\ pending_release \in [Dispatchers -> SUBSET Tasks]
  BY DEF TypeOK
<1>m. pending_release[d] # {} => pc[d] = "idle"
  BY DEF MemoryInv, OneBatch
<1>1. ASSUME Claim(d)
      PROVE  /\ Others /\ PhaseOf(d) = "free"
             /\ PhaseOf(d)' \in {"free", "holding"}
  <2>1. PICK batch :
            pc' = [pc EXCEPT ![d] = IF batch = {} THEN "idle" ELSE "sending"]
    BY <1>1 DEF Claim
  <2> QED
    BY <1>1, <1>t, <2>1 DEF Claim, MayClaim, PhaseOf
<1>2. ASSUME NEW t \in Tasks, Dispatch(d, t) \/ DispatchFails(d, t)
      PROVE  /\ Others /\ PhaseOf(d) = "holding"
             /\ PhaseOf(d)' \in {"free", "holding"}
  BY <1>2, <1>t, <1>m DEF Dispatch, DispatchFails, PhaseOf
<1>3. ASSUME Release(d)
      PROVE  Others /\ PhaseOf(d) = "holding" /\ PhaseOf(d)' = "free"
  BY <1>3, <1>t, <1>m DEF Release, PhaseOf
<1>4. ASSUME ReleaseFails(d)
      PROVE  /\ Others /\ PhaseOf(d) = "holding"
             /\ PhaseOf(d)' \in {"free", "stranded"}
  BY <1>4, <1>t, <1>m DEF ReleaseFails, PhaseOf
<1>5. ASSUME RetryPendingRelease(d)
      PROVE  Others /\ PhaseOf(d) = "stranded" /\ PhaseOf(d)' = "free"
  BY <1>5, <1>t, <1>m DEF RetryPendingRelease, PhaseOf
<1>6. ASSUME DispatcherCrash(d)
      PROVE  Others /\ PhaseOf(d)' = "free"
  BY <1>6, <1>t DEF DispatcherCrash, PhaseOf
<1>7. PhaseOf(d) \in {"free", "holding", "stranded"}
  BY DEF PhaseOf
<1>8. Others => \A e \in Dispatchers \ {d} : PhaseOf(e)' = PhaseOf(e)
  BY DEF PhaseOf
<1> QED
  BY <1>1, <1>2, <1>3, <1>4, <1>5, <1>6, <1>7, <1>8
  DEF DispatcherStep, DispatcherFault

(* However claims, sends, releases and crashes interleave, every           *)
(* dispatcher goes through its cycle: it takes a batch only with empty     *)
(* hands.                                                                  *)
THEOREM CycleCorrect == Spec => CycleImplemented
<1> DEFINE seen == [d \in Dispatchers |->
                      IF OneBatch(d) THEN PhaseOf(d) ELSE "overloaded"]
           phases == [d \in Dispatchers |-> PhaseOf(d)]
<1>1. Init => Cycle!Init
  BY MemoryInit DEF Init, Cycle!Init, PhaseOf, MemoryInv
<1>2. TypeOK /\ MemoryInv /\ [Next]_vars => [Cycle!Next]_seen
  <2> SUFFICES ASSUME TypeOK, MemoryInv, [Next]_vars
               PROVE  Cycle!Next \/ seen' = seen
    OBVIOUS
  <2>m. seen = phases /\ seen' = phases'
    BY MemoryNext DEF MemoryInv
  <2>1. CASE UNCHANGED dispatcherVars
    BY <2>1, <2>m DEF dispatcherVars, PhaseOf
  <2>2. ASSUME NEW d \in Dispatchers, DispatcherStep(d) \/ DispatcherFault(d)
        PROVE  Cycle!Next \/ seen' = seen
    <3>1. ASSUME NEW from, NEW to, PhaseOf(d) = from, PhaseOf(d)' = to
          PROVE  Cycle!Turn(d, from, to)
      BY <2>2, <2>m, <3>1, CycleStep DEF Cycle!Turn
    <3>2. PhaseOf(d)' = PhaseOf(d) => seen' = seen
      BY <2>2, <2>m, CycleStep
    <3> QED
      BY <2>2, <3>1, <3>2, CycleStep
      DEF Cycle!Next, Cycle!Take, Cycle!Dispose, Cycle!Strand, Cycle!Recover
  <2> QED
    BY <2>1, <2>2, MemoryOwned
<1> QED
  BY <1>1, <1>2, TypeCorrect, MemoryInvariant, PTL
  DEF Spec, CycleImplemented, Cycle!Spec

-----------------------------------------------------------------------------
(* Nothing is forgotten.                                                   *)

(* A failed row has a schedule.                                            *)
RetryScheduled(row) == row.status = "failed" => row.scheduled_for # Null

(* Only the outcome of a run makes a row fail, and it always writes one;   *)
(* whatever clears a schedule takes the row out of failed.                 *)
LEMMA RowStepScheduled ==
    ASSUME NEW row \in Row, NEW next, RowStep(row, next), RetryScheduled(row)
    PROVE  RetryScheduled(next)
<1> USE DEF RetryScheduled
<1>1. CASE next = row
  BY <1>1
<1>2. CASE \E n \in Budgets, wait \in Instants, deadline \in Instants :
              next = NewRow(n, wait, deadline)
  BY <1>2 DEF NewRow
<1>3. CASE \/ next = Expired(row) \/ next = Claimed(row)
           \/ next = Completed(row) \/ next = DeadLettered(row)
  BY <1>3, RowStepFields DEF Expired, Claimed, Completed, DeadLettered
<1>4. CASE next = Released(row)
  BY <1>4, RowStepFields DEF Released
<1>5. CASE next = Started(row) \/ next = Retried(row) \/ next = PurgedRow
  BY <1>5, RowStepFields
<1>6. CASE \E delay \in 0..MaxTicks : next = Failed(row, delay)
  <2>1. PICK delay \in 0..MaxTicks : next = Failed(row, delay)
    BY <1>6
  <2>2. next.scheduled_for = delay
    BY <2>1 DEF Failed, Enter, Row
  <2> QED
    BY <2>2, TicksAssumption
<1>7. CASE \E from \in {"failed", "dispatching", "processing"} :
              next = Recovered(row, from)
  BY <1>7, RowStepFields DEF Recovered
<1>8. CASE next = Aged(row)
  <2>1. Aged(row).scheduled_for = Nearer(row.scheduled_for)
    BY DEF Aged, Row
  <2>2. row.scheduled_for # Null => Nearer(row.scheduled_for) # Null
    BY TicksAssumption DEF Row, Instants, Nearer, Countdown
  <2> QED
    BY <1>8, <2>1, <2>2, RowStepFields
<1> QED
  BY <1>1, <1>2, <1>3, <1>4, <1>5, <1>6, <1>7, <1>8
  DEF RowStep, StatementStep, Outcome

ScheduleInv == TypeOK /\ \A t \in Tasks : RetryScheduled(ledger[t])

LEMMA ScheduleInvariant == Spec => []ScheduleInv
<1>1. Init => ScheduleInv
  BY InitType DEF Init, ScheduleInv, RetryScheduled, AbsentRow
<1>2. ScheduleInv /\ [Next]_vars => ScheduleInv'
  <2> SUFFICES ASSUME ScheduleInv, [Next]_vars PROVE ScheduleInv'
    OBVIOUS
  <2>1. CASE Next
    <3>1. \A t \in Tasks : ledger[t] \in Row /\ RowStep(ledger[t], ledger'[t])
      BY <2>1, NextIsRowSteps DEF ScheduleInv, TypeOK
    <3> QED
      BY <2>1, <3>1, RowStepScheduled, NextType DEF ScheduleInv
  <2>2. CASE UNCHANGED vars
    BY <2>2
    DEF ScheduleInv, TypeOK, vars, dispatcherVars, sweeperVars, budgetVars,
        historyVars
  <2> QED
    BY <2>1, <2>2
<1> QED
  BY <1>1, <1>2, PTL DEF Spec

(* A row on which time has no further effect is due or without a schedule, *)
(* past its deadline or without one, and older than every threshold.       *)
LEMMA RowNotForgotten ==
    ASSUME NEW row \in Row, RetryScheduled(row), Aged(row) = row,
           row.status \in Status \ TerminalStates
    PROVE  \/ ClaimCandidate(row) \/ ExpiredAtSweep(row) \/ RetryIsDue(row)
           \/ DispatchTimedOut(row) \/ Stuck(row)
<1>1. /\ row.scheduled_for \in Nat \cup {Null}
      /\ row.age \in Nat /\ row.age <= MaxAge
  BY TicksAssumption, MaxAgeType DEF Row, Instants
<1>2. /\ Nearer(row.scheduled_for) = row.scheduled_for
      /\ row.status \in {"dispatching", "processing"} /\ row.age < MaxAge
             => row.age + 1 = row.age
  <2>1. /\ Aged(row).scheduled_for = Nearer(row.scheduled_for)
        /\ row.status \in {"dispatching", "processing"} /\ row.age < MaxAge
               => Aged(row).age = row.age + 1
    BY DEF Aged, Row
  <2> QED
    BY <2>1
<1>3. row.scheduled_for \in {0, Null}
  <2> DEFINE n == row.scheduled_for
  <2>1. CASE n \in Nat /\ n # Null
    <3>1. n = IF n > 0 THEN n - 1 ELSE 0
      BY <1>2, <2>1 DEF Nearer, Countdown
    <3> HIDE DEF n
    <3>2. n = 0
      BY <2>1, <3>1
    <3> QED
      BY <3>2 DEF n
  <2> QED
    BY <1>1, <2>1
<1>4. row.status \in {"dispatching", "processing"} =>
          row.age > DispatchTimeout /\ row.age > StuckThreshold
  BY <1>1, <1>2, TicksAssumption DEF MaxAge
<1> QED
  BY <1>3, <1>4
  DEF ClaimCandidate, ExpiredAtSweep, RetryIsDue, DispatchTimedOut, Stuck,
      Due, DueOrNull, DeadlinePassed, RetryScheduled, Status, TerminalStates

(* Whatever state the actors leave a row in, one of the statements that    *)
(* claim or recover takes it once it has been left alone long enough.      *)
THEOREM NothingForgottenCorrect == Spec => []NothingIsForgotten
<1>1. ScheduleInv => NothingIsForgotten
  BY RowNotForgotten DEF ScheduleInv, TypeOK, NothingIsForgotten
<1> QED
  BY <1>1, ScheduleInvariant, PTL
=============================================================================
