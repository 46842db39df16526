------------------------------ MODULE Delivery ------------------------------
(***************************************************************************)
(* The delivery of ledger rows: dispatchers claim rows and hand their IDs  *)
(* to a broker (dispatcher.py and the dispatch backends), the broker       *)
(* delivers, loses or duplicates IDs, workers run process_task on the IDs  *)
(* they receive (the executors), sweepers recover what was left behind     *)
(* (the sweeps), and operators retry, kill and purge (the queries).        *)
(*                                                                         *)
(* The unit of interleaving is the database transaction: every action      *)
(* between two commits is one step, and whatever a process does outside a  *)
(* transaction (the handler, the transport, the gap between two commits)   *)
(* is open to everybody else's steps.  The SQLAlchemy recovery passes read *)
(* their rows without locking them, so there the unit is the statement.    *)
(***************************************************************************)
EXTENDS LedgerRows

CONSTANTS
    Tasks,              \* task IDs
    Dispatchers,        \* running Dispatcher / AsyncDispatcher instances
    Workers,            \* threads or processes running process_task
    Sweepers,           \* whoever calls sweep(): a dispatcher's timer, cron
    Scope,              \* Scope[d]: the tasks in the queues d claims from
    BatchSize,          \* Dispatcher(batch_size=)
    SweepLimit,         \* sweep(limit=)
    LockedSweep,        \* TRUE: django/sweep.py, which locks what it selects
    ExpireOnCommit,     \* FALSE: process_task is given a SQLAlchemy session
                        \* that keeps its objects when it commits
    Nobody,             \* no claim holder, or a worker with nothing to run
    MaxMessages,        \* bound: copies of one ID in the broker
    MaxFaults,          \* bound: crashes, losses, duplicates, failed calls
    MaxInterventions    \* bound: operator calls

ASSUME ActorsAssumption ==
    /\ IsFiniteSet(Tasks)
    /\ Dispatchers \cap Workers = {}
    /\ Nobody \notin Dispatchers \cup Workers
    /\ Scope \in [Dispatchers -> SUBSET Tasks]
    /\ LockedSweep \in BOOLEAN
    /\ ExpireOnCommit \in BOOLEAN

ASSUME BoundsAssumption ==
    /\ BatchSize \in Nat \ {0}      \* Dispatcher.__init__ refuses less
    /\ SweepLimit \in Nat \ {0}
    /\ MaxMessages \in Nat \ {0}
    /\ MaxFaults \in Nat
    /\ MaxInterventions \in Nat

VARIABLES
    ledger,         \* the task table
    pc,             \* what each dispatcher does next
    held,           \* IDs it claimed and has not yet handed over
    pending_release,\* IDs whose release failed, retried before claiming
    broker,         \* copies of each ID in the transport
    running,        \* what each worker runs, with the values it cached
    pass,           \* the recovery pass each sweeper is at
    selected,       \* IDs an unlocked pass has selected and not yet updated
    faults,         \* faults so far
    interventions,  \* operator calls so far
    owner,          \* history: whose claim the row's status stands for
    interrupted,    \* history: rows taken out of processing by somebody else
    killed          \* history: workers whose own run an operator killed

dispatcherVars == <<pc, held, pending_release>>
sweeperVars == <<pass, selected>>
budgetVars == <<faults, interventions>>
historyVars == <<owner, interrupted, killed>>
vars == <<ledger, dispatcherVars, broker, running, sweeperVars, budgetVars,
          historyVars>>

Passes == {"expired", "failed", "dispatching", "stuck"}

(* What process_task keeps across the commit of its first phase.           *)
Run == [task : Tasks, attempts : Nat, max_attempts : Int]

TypeOK ==
    /\ ledger \in [Tasks -> Row]
    /\ pc \in [Dispatchers -> {"idle", "sending", "releasing"}]
    /\ held \in [Dispatchers -> SUBSET Tasks]
    /\ pending_release \in [Dispatchers -> SUBSET Tasks]
    /\ broker \in [Tasks -> 0..MaxMessages]
    /\ running \in [Workers -> Run \cup {Nobody}]
    /\ pass \in [Sweepers -> Passes]
    /\ selected \in [Sweepers -> SUBSET Tasks]
    /\ faults \in 0..MaxFaults
    /\ interventions \in 0..MaxInterventions
    /\ owner \in [Tasks -> Dispatchers \cup Workers \cup {Nobody}]
    /\ interrupted \subseteq Tasks
    /\ killed \subseteq Workers

Init ==
    /\ ledger = [t \in Tasks |-> AbsentRow]
    /\ pc = [d \in Dispatchers |-> "idle"]
    /\ held = [d \in Dispatchers |-> {}]
    /\ pending_release = [d \in Dispatchers |-> {}]
    /\ broker = [t \in Tasks |-> 0]
    /\ running = [w \in Workers |-> Nobody]
    /\ pass = [s \in Sweepers |-> "expired"]
    /\ selected = [s \in Sweepers |-> {}]
    /\ faults = 0
    /\ interventions = 0
    /\ owner = [t \in Tasks |-> Nobody]
    /\ interrupted = {}
    /\ killed = {}

-----------------------------------------------------------------------------
(* Helpers.                                                                *)

(* SELECT .. FOR UPDATE SKIP LOCKED LIMIT n over the rows of S: any of     *)
(* them, since rows another transaction holds are passed over.             *)
Unlocked(S, n) == {B \in SUBSET S : Cardinality(B) <= n}

(* SELECT .. LIMIT n over the rows of S: all of them, or some n.           *)
Limited(S, n) ==
    {B \in SUBSET S : Cardinality(B) <= n /\ (B # S => Cardinality(B) = n)}

(* The tasks whose rows lie in a set of rows.                              *)
Where(Test(_)) == {t \in Tasks : Test(ledger[t])}

Fault == faults < MaxFaults /\ faults' = faults + 1

Intervention ==
    interventions < MaxInterventions /\ interventions' = interventions + 1

(* A claim ends with the status that stood for it.                         *)
ClaimsEnd ==
    owner' = [t \in Tasks |->
                IF ledger'[t].status = ledger[t].status THEN owner[t]
                ELSE Nobody]

Interruptions ==
    interrupted' = interrupted \cup
        {t \in Tasks : /\ ledger[t].status = "processing"
                       /\ ledger'[t].status # "processing"}

-----------------------------------------------------------------------------
(* Producers.                                                              *)

(* create_task, at the producer's commit.                                  *)
CreateTask(t) ==
    /\ ledger[t].status = "absent"
    /\ \E n \in Budgets, wait \in Instants, deadline \in Instants :
          ledger' = [ledger EXCEPT ![t] = NewRow(n, wait, deadline)]
    /\ UNCHANGED <<dispatcherVars, broker, running, sweeperVars, budgetVars,
                   historyVars>>

-----------------------------------------------------------------------------
(* Dispatchers.                                                            *)

(* Variant with a bug: claiming goes on while a release is outstanding.    *)
MayClaimAnyway(d) == pc[d] = "idle"

(* An iteration claims nothing while a stranded release is outstanding.    *)
MayClaim(d) == pc[d] = "idle" /\ pending_release[d] = {}

(* backend.claim: terminalise deadlines, then claim a batch, one commit.   *)
(* The order of a batch decides which rows a limited claim takes; here it  *)
(* takes any.                                                              *)
Claim(d) ==
    /\ MayClaim(d)
    /\ \E expired \in Unlocked(Where(ExpiredAtClaim) \cap Scope[d], BatchSize),
          batch \in Unlocked(Where(ClaimCandidate) \cap Scope[d], BatchSize) :
          /\ expired \cup batch # {}
          /\ ledger' = [t \in Tasks |->
                          IF t \in expired THEN Expired(ledger[t])
                          ELSE IF t \in batch THEN Claimed(ledger[t])
                          ELSE ledger[t]]
          /\ held' = [held EXCEPT ![d] = batch]
          /\ pc' = [pc EXCEPT ![d] = IF batch = {} THEN "idle" ELSE "sending"]
          /\ owner' = [t \in Tasks |-> IF t \in batch THEN d ELSE owner[t]]
    /\ UNCHANGED <<pending_release, broker, running, sweeperVars, budgetVars,
                   interrupted, killed>>

(* dispatch_fn returns: the broker has the ID.                             *)
Dispatch(d, t) ==
    /\ pc[d] = "sending"
    /\ t \in held[d]
    /\ broker[t] < MaxMessages
    /\ broker' = [broker EXCEPT ![t] = @ + 1]
    /\ held' = [held EXCEPT ![d] = @ \ {t}]
    /\ pc' = [pc EXCEPT ![d] = IF held[d] = {t} THEN "idle" ELSE "sending"]
    /\ UNCHANGED <<ledger, pending_release, running, sweeperVars, budgetVars,
                   historyVars>>

(* dispatch_fn raises, perhaps after the broker took the ID: the failing   *)
(* ID and the rest of the batch are to be released.                        *)
DispatchFails(d, t) ==
    /\ pc[d] = "sending"
    /\ t \in held[d]
    /\ Fault
    /\ \/ UNCHANGED broker
       \/ /\ broker[t] < MaxMessages
          /\ broker' = [broker EXCEPT ![t] = @ + 1]
    /\ pc' = [pc EXCEPT ![d] = "releasing"]
    /\ UNCHANGED <<ledger, held, pending_release, running, sweeperVars,
                   interventions, historyVars>>

(* backend.release(ids).                                                   *)
ReleaseRows(ids) ==
    /\ ledger' = [t \in Tasks |->
                    IF t \in ids THEN Released(ledger[t]) ELSE ledger[t]]
    /\ ClaimsEnd

(* _release_quietly, when the release commits.                             *)
Release(d) ==
    /\ pc[d] = "releasing"
    /\ ReleaseRows(held[d])
    /\ held' = [held EXCEPT ![d] = {}]
    /\ pc' = [pc EXCEPT ![d] = "idle"]
    /\ UNCHANGED <<pending_release, broker, running, sweeperVars, budgetVars,
                   interrupted, killed>>

(* _release_quietly, when it raises: the IDs are remembered.  The error    *)
(* may hide a commit.                                                      *)
ReleaseFails(d) ==
    /\ pc[d] = "releasing"
    /\ Fault
    /\ \/ UNCHANGED <<ledger, owner>>
       \/ ReleaseRows(held[d])
    /\ pending_release' = [pending_release EXCEPT ![d] = @ \cup held[d]]
    /\ held' = [held EXCEPT ![d] = {}]
    /\ pc' = [pc EXCEPT ![d] = "idle"]
    /\ UNCHANGED <<broker, running, sweeperVars, interventions, interrupted,
                   killed>>

(* _retry_pending_release, at the start of an iteration.  A failed retry   *)
(* changes nothing.                                                        *)
RetryPendingRelease(d) ==
    /\ pc[d] = "idle"
    /\ pending_release[d] # {}
    /\ ReleaseRows(pending_release[d])
    /\ pending_release' = [pending_release EXCEPT ![d] = {}]
    /\ UNCHANGED <<pc, held, broker, running, sweeperVars, budgetVars,
                   interrupted, killed>>

(* The process dies and a new one starts, or an AsyncDispatcher is         *)
(* cancelled in dispatch_fn: what it held in memory is gone, the rows stay *)
(* as committed.  Right after Claim it is also a claim whose commit        *)
(* succeeded and whose acknowledgement was lost; at "idle" it is stop().   *)
DispatcherCrash(d) ==
    /\ held[d] # {} \/ pending_release[d] # {}
    /\ Fault
    /\ held' = [held EXCEPT ![d] = {}]
    /\ pending_release' = [pending_release EXCEPT ![d] = {}]
    /\ pc' = [pc EXCEPT ![d] = "idle"]
    /\ UNCHANGED <<ledger, broker, running, sweeperVars, interventions,
                   historyVars>>

-----------------------------------------------------------------------------
(* The broker (external: Huey, or whatever dispatch_fn wraps).             *)

LoseMessage(t) ==
    /\ broker[t] > 0
    /\ Fault
    /\ broker' = [broker EXCEPT ![t] = @ - 1]
    /\ UNCHANGED <<ledger, dispatcherVars, running, sweeperVars,
                   interventions, historyVars>>

DuplicateMessage(t) ==
    /\ broker[t] \in 1..(MaxMessages - 1)
    /\ Fault
    /\ broker' = [broker EXCEPT ![t] = @ + 1]
    /\ UNCHANGED <<ledger, dispatcherVars, running, sweeperVars,
                   interventions, historyVars>>

-----------------------------------------------------------------------------
(* Workers: process_task.                                                  *)

Receive(w, t) ==
    /\ running[w] = Nobody
    /\ broker[t] > 0
    /\ broker' = [broker EXCEPT ![t] = @ - 1]

(* Phase 1 returns before it writes: no such row, terminal, not claimable, *)
(* or not due yet.                                                         *)
SkipDelivery(w, t) ==
    /\ Receive(w, t)
    /\ \/ ledger[t].status \notin Claimable
       \/ ~DeadlinePassed(ledger[t]) /\ ~DueOrNull(ledger[t])
    /\ UNCHANGED <<ledger, dispatcherVars, running, sweeperVars, budgetVars,
                   historyVars>>

(* Phase 1 finds the deadline passed once the row is locked.               *)
ExpireAtStart(w, t) ==
    /\ Receive(w, t)
    /\ ledger[t].status \in Claimable
    /\ DeadlinePassed(ledger[t])
    /\ ledger' = [ledger EXCEPT ![t] = Expired(@)]
    /\ ClaimsEnd
    /\ UNCHANGED <<dispatcherVars, running, sweeperVars, budgetVars,
                   interrupted, killed>>

(* Phase 1 commits: the attempt is consumed and the handler starts.        *)
StartRun(w, t) ==
    /\ Receive(w, t)
    /\ Startable(ledger[t])
    /\ ledger' = [ledger EXCEPT ![t] = Started(@)]
    /\ running' = [running EXCEPT ![w] =
                     [task |-> t, attempts |-> ledger[t].attempts + 1,
                      max_attempts |-> ledger[t].max_attempts]]
    /\ owner' = [owner EXCEPT ![t] = w]
    /\ UNCHANGED <<dispatcherVars, sweeperVars, budgetVars, interrupted, killed>>

(* The worker is done with its run, however it ended.                      *)
RunEnds(w) ==
    /\ running[w] # Nobody
    /\ running' = [running EXCEPT ![w] = Nobody]
    /\ killed' = killed \ {w}

(* Variant with a bug: an outcome written over whatever the row has become. *)
StillThere(t) == ledger[t].status \in Status

(* Phase 3 locks the row again and looks at its status, and at nothing     *)
(* else, before it writes the outcome.  Django reads the row anew, and so  *)
(* does a session whose objects expired at the commit of phase 1 (SQL-     *)
(* Alchemy's default); one that keeps them answers the SELECT, if the row  *)
(* is there, with the object of phase 1, whose status is PROCESSING still. *)
StillProcessing(t) ==
    IF ExpireOnCommit THEN ledger[t].status = "processing"
                      ELSE ledger[t].status \in Status

(* Phase 3, when the outcome is written.                                   *)
Finish(w, row) ==
    /\ RunEnds(w)
    /\ StillProcessing(running[w].task)
    /\ ledger' = [ledger EXCEPT ![running[w].task] = row]
    /\ ClaimsEnd
    /\ UNCHANGED <<dispatcherVars, broker, sweeperVars, budgetVars,
                   interrupted>>

(* Phase 3b.                                                               *)
HandlerReturns(w) == Finish(w, Completed(ledger[running[w].task]))

(* Phase 3a with a failure that policy retries: classify_failure decides   *)
(* on the attempts cached in phase 1.                                      *)
HandlerFails(w, delay) ==
    LET run == running[w]
        row == ledger[run.task]
    IN  Finish(w, IF ShouldDie(run.attempts, run.max_attempts)
                  THEN DeadLettered(row) ELSE Failed(row, delay))

(* Phase 3a with a failure that policy does not retry.                     *)
HandlerFailsFast(w) == Finish(w, DeadLettered(ledger[running[w].task]))

(* Phase 3 finds the row gone or, as it sees it, no longer in processing.  *)
OutcomeSkipped(w) ==
    /\ RunEnds(w)
    /\ ~StillProcessing(running[w].task)
    /\ UNCHANGED <<ledger, dispatcherVars, broker, sweeperVars, budgetVars,
                   owner, interrupted>>

(* The worker dies, or an async one is cancelled, in the handler.          *)
WorkerCrash(w) ==
    /\ RunEnds(w)
    /\ Fault
    /\ UNCHANGED <<ledger, dispatcherVars, broker, sweeperVars, interventions,
                   owner, interrupted>>

-----------------------------------------------------------------------------
(* Sweepers.  sweep() runs four passes in this order.                      *)

NextPass == [expired |-> "failed", failed |-> "dispatching",
             dispatching |-> "stuck", stuck |-> "expired"]

(* The status each pass recovers rows from.                                *)
RecoveredStatus == [failed |-> "failed", dispatching |-> "dispatching",
                    stuck |-> "processing"]

RecoverRows(ids, from) ==
    /\ ledger' = [t \in Tasks |->
                    IF t \in ids THEN Recovered(ledger[t], from)
                    ELSE ledger[t]]
    /\ ClaimsEnd
    /\ Interruptions

(* sweep_expired locks the rows it selects, in every backend.              *)
SweepExpired(s) ==
    /\ pass[s] = "expired"
    /\ \E ids \in Unlocked(Where(ExpiredAtSweep), SweepLimit) :
          ledger' = [t \in Tasks |->
                       IF t \in ids THEN Expired(ledger[t]) ELSE ledger[t]]
    /\ ClaimsEnd
    /\ pass' = [pass EXCEPT ![s] = "failed"]
    /\ UNCHANGED <<dispatcherVars, broker, running, selected, budgetVars,
                   interrupted, killed>>

(* The rows the SELECT of the pass a sweeper is at finds.                  *)
Found(s) ==
    CASE pass[s] = "failed"      -> Where(RetryIsDue)
      [] pass[s] = "dispatching" -> Where(DispatchTimedOut)
      [] pass[s] = "stuck"       -> Where(Stuck)

(* django/sweep.py: SELECT .. FOR UPDATE and the UPDATEs are one step.     *)
LockedPass(s) ==
    /\ LockedSweep
    /\ pass[s] # "expired"
    /\ \E ids \in Limited(Found(s), SweepLimit) :
          RecoverRows(ids, RecoveredStatus[pass[s]])
    /\ pass' = [pass EXCEPT ![s] = NextPass[@]]
    /\ UNCHANGED <<dispatcherVars, broker, running, selected, budgetVars,
                   killed>>

(* sqlalchemy/sweep.py: the SELECT of a pass, which locks nothing.         *)
SelectRows(s) ==
    /\ ~LockedSweep
    /\ pass[s] # "expired"
    /\ selected[s] = {}
    /\ \E ids \in Limited(Found(s), SweepLimit) :
          /\ selected' = [selected EXCEPT ![s] = ids]
          /\ pass' = [pass EXCEPT ![s] = IF ids = {} THEN NextPass[@] ELSE @]
    /\ UNCHANGED <<ledger, dispatcherVars, broker, running, budgetVars,
                   historyVars>>

(* sqlalchemy/sweep.py: the UPDATEs over the IDs selected.                 *)
UpdateSelected(s) ==
    /\ pass[s] # "expired"
    /\ selected[s] # {}
    /\ RecoverRows(selected[s], RecoveredStatus[pass[s]])
    /\ selected' = [selected EXCEPT ![s] = {}]
    /\ pass' = [pass EXCEPT ![s] = NextPass[@]]
    /\ UNCHANGED <<dispatcherVars, broker, running, budgetVars, killed>>

-----------------------------------------------------------------------------
(* Operators.                                                              *)

(* retry_task: any row that may become pending, whatever it is doing.      *)
RetryTask(t) ==
    /\ ledger[t].status \in Status \ {"expired"}
    /\ CanTransitionTo(ledger[t].status, "pending")
    /\ Intervention
    /\ ledger' = [ledger EXCEPT ![t] = Retried(@)]
    /\ ClaimsEnd
    /\ Interruptions
    /\ UNCHANGED <<dispatcherVars, broker, running, sweeperVars, faults,
                   killed>>

(* bulk_retry(status=, task_type=): the rows of a type (here any rows) in  *)
(* a status that may become pending.                                       *)
BulkRetry(status) ==
    /\ CanTransitionTo(status, "pending")
    /\ Intervention
    /\ \E ids \in SUBSET {t \in Tasks : ledger[t].status = status} :
          /\ ids # {}
          /\ ledger' = [t \in Tasks |->
                          IF t \in ids THEN Retried(ledger[t]) ELSE ledger[t]]
    /\ ClaimsEnd
    /\ Interruptions
    /\ UNCHANGED <<dispatcherVars, broker, running, sweeperVars, faults,
                   killed>>

(* kill_task: any row that may become dead.                                *)
KillTask(t) ==
    /\ ledger[t].status \in Status
    /\ CanTransitionTo(ledger[t].status, "dead")
    /\ Intervention
    /\ ledger' = [ledger EXCEPT ![t] = DeadLettered(@)]
    /\ ClaimsEnd
    /\ Interruptions
    /\ killed' = killed \cup {w \in Workers :
                                 /\ running[w] # Nobody
                                 /\ running[w].task = t
                                 /\ owner[t] = w}
    /\ UNCHANGED <<dispatcherVars, broker, running, sweeperVars, faults>>

(* purge_completed: how long ago a row completed is left open.             *)
PurgeCompleted(ids) ==
    /\ \A t \in ids : ledger[t].status = "completed"
    /\ ids # {}
    /\ Intervention
    /\ ledger' = [t \in Tasks |-> IF t \in ids THEN PurgedRow ELSE ledger[t]]
    /\ UNCHANGED <<dispatcherVars, broker, running, sweeperVars, faults,
                   historyVars>>

-----------------------------------------------------------------------------
(* Time.                                                                   *)

Tick ==
    /\ ledger' = [t \in Tasks |-> Aged(ledger[t])]
    /\ UNCHANGED <<dispatcherVars, broker, running, sweeperVars, budgetVars,
                   historyVars>>

-----------------------------------------------------------------------------
DispatcherStep(d) ==
    \/ Claim(d)
    \/ Release(d)
    \/ RetryPendingRelease(d)
    \/ \E t \in Tasks : Dispatch(d, t)

DispatcherFault(d) ==
    \/ ReleaseFails(d)
    \/ DispatcherCrash(d)
    \/ \E t \in Tasks : DispatchFails(d, t)

BrokerFault(t) == LoseMessage(t) \/ DuplicateMessage(t)

Delivered(t) ==
    \E w \in Workers : \/ SkipDelivery(w, t)
                       \/ ExpireAtStart(w, t)
                       \/ StartRun(w, t)

HandlerEnds(w) ==
    \/ HandlerReturns(w)
    \/ \E delay \in 0..MaxTicks : HandlerFails(w, delay)
    \/ HandlerFailsFast(w)
    \/ OutcomeSkipped(w)

SweeperStep(s) ==
    SweepExpired(s) \/ LockedPass(s) \/ SelectRows(s) \/ UpdateSelected(s)

OperatorStep ==
    \/ \E t \in Tasks : RetryTask(t) \/ KillTask(t)
    \/ \E status \in Status : BulkRetry(status)
    \/ \E ids \in SUBSET Tasks : PurgeCompleted(ids)

Next ==
    \/ \E t \in Tasks : CreateTask(t) \/ BrokerFault(t) \/ Delivered(t)
    \/ \E d \in Dispatchers : DispatcherStep(d) \/ DispatcherFault(d)
    \/ \E w \in Workers : HandlerEnds(w) \/ WorkerCrash(w)
    \/ \E s \in Sweepers : SweeperStep(s)
    \/ OperatorStep
    \/ Tick

Spec == Init /\ [][Next]_vars
=============================================================================
