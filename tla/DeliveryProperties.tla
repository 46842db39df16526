------------------------- MODULE DeliveryProperties -------------------------
(***************************************************************************)
(* What delivery must never do and what it must eventually do.             *)
(***************************************************************************)
EXTENDS Delivery

(* The abstract specification, read off the ledger.                        *)
Lifecycle == INSTANCE TaskLifecycle WITH
    status <- [t \in Tasks |-> ledger[t].status],
    attempts <- [t \in Tasks |-> ledger[t].attempts],
    max_attempts <- [t \in Tasks |-> ledger[t].max_attempts],
    late <- [t \in Tasks |-> DeadlinePassed(ledger[t])]

(* Whatever dispatchers, workers, sweepers and operators interleave, each  *)
(* row follows the state machine of core/states.py and the attempt rules   *)
(* documented with it, and its deadline holds against a message or a       *)
(* worker that comes late.                                                 *)
LifecycleImplemented == Lifecycle!Spec

-----------------------------------------------------------------------------
(* Safety.                                                                 *)

WithinBudget(row) ==
    /\ row.attempts <= 1 \/ row.attempts <= row.max_attempts
    /\ row.status \in Claimable => row.attempts = 0 \/ BudgetLeft(row)

(* A row never spends more attempts than it was stamped with, and one that *)
(* waits for a worker has an attempt left: process_task itself does not    *)
(* look at the budget, so every path back to pending or dispatching has to.*)
(* Nobody looks before the first attempt: a budget below one, which        *)
(* create_task does not refuse, is good for that one.                      *)
BudgetRespected == \A t \in Tasks : WithinBudget(ledger[t])

(* Duplicate deliveries, releases of claims already run, timed-out claims  *)
(* dispatched again: none of them makes two workers run one task.  Only a  *)
(* row taken out of processing under its worker can be run twice at once.  *)
OneRunAtATime ==
    \A v, w \in Workers :
        (v # w /\ running[v] # Nobody /\ running[w] # Nobody
               /\ running[v].task = running[w].task)
            => running[v].task \in interrupted

(* What a worker cached before its handler ran still describes the row     *)
(* when the handler ends, unless the row was taken out of processing: the  *)
(* outcome it then writes is that of the row's own latest attempt.         *)
RunOwnsRow ==
    \A w \in Workers :
        LET run == running[w]
            row == ledger[run.task]
        IN  (run # Nobody /\ run.task \notin interrupted) =>
                /\ row.status = "processing"
                /\ owner[run.task] = w
                /\ row.attempts = run.attempts
                /\ row.max_attempts = run.max_attempts

(* A failed row can be retried, since its retry is what its worker chose   *)
(* over dead-lettering it, unless an interrupted run wrote it.             *)
FailedHasBudget ==
    \A t \in Tasks :
        (ledger[t].status = "failed" /\ t \notin interrupted)
            => BudgetLeft(ledger[t])

(* The IDs a dispatcher remembers for release are at most one batch, and   *)
(* it holds no other claim meanwhile: a release that keeps failing cannot  *)
(* make the list grow.                                                     *)
StrandedReleaseBounded ==
    \A d \in Dispatchers :
        pending_release[d] # {} =>
            /\ pc[d] = "idle"
            /\ held[d] = {}
            /\ Cardinality(pending_release[d]) <= BatchSize

(* A completed or an expired row is never touched again, short of a purge: *)
(* no late message, release, sweep, retry or outcome brings it back.       *)
FinalStatesStay ==
    [][\A t \in Tasks :
          /\ ledger[t].status = "expired" => ledger'[t].status = "expired"
          /\ ledger[t].status = "completed" =>
                 ledger'[t].status \in {"completed", "purged"}]_vars

(* kill_task on a running task is honoured: the worker whose run was       *)
(* killed notices and declines to overwrite the kill (docs/query-api.md).  *)
KillIsHonoured ==
    [][\A w \in killed : running'[w] = Nobody => ledger' = ledger]_vars

(* What a recovery pass moves was stale when it was moved.                 *)
RecoveredRightly(t) ==
    ledger'[t].status \notin {ledger[t].status, "expired"} =>
        CASE ledger[t].status = "dispatching" -> ledger[t].age > DispatchTimeout
          [] ledger[t].status = "processing" -> ledger[t].age > StuckThreshold
          [] OTHER -> Due(ledger[t])

(* A recovery pass moves a claimed or running row only if its claim or run *)
(* is older than the threshold when it is moved, and a failed one only if  *)
(* its retry is due (the table of passes in docs/concepts.md).             *)
RecoversOnlyStale ==
    [][\A s \in Sweepers : pass'[s] # pass[s] =>
          \A t \in Tasks : RecoveredRightly(t)]_vars

(* The rows a dispatcher remembers for release are rows it owns, as far as *)
(* they are still claimed (the comment on a stranded release in run).      *)
StrandedRowsAreOwned ==
    \A d \in Dispatchers : \A t \in pending_release[d] :
        ledger[t].status = "dispatching" => owner[t] = d

(* No row falls between the statements: when time alone changes nothing    *)
(* more about a row that is not in a final state, a claim or one of the    *)
(* four recovery passes finds it, whoever left it there and with whatever  *)
(* deadline, schedule and budget.  A failed row without a schedule would   *)
(* be one: neither the claim nor sweep_failed takes NULL for due.          *)
NothingIsForgotten ==
    \A t \in Tasks :
        LET row == ledger[t]
        IN  row.status \in Status \ TerminalStates /\ Aged(row) = row =>
                \/ ClaimCandidate(row)
                \/ ExpiredAtSweep(row)
                \/ RetryIsDue(row)
                \/ DispatchTimedOut(row)
                \/ Stuck(row)

-----------------------------------------------------------------------------
(* Under which conditions two of these, which the code breaks in general,  *)
(* are kept after all.                                                     *)

(* No two dispatchers claim from one queue.                                *)
QueuesApart ==
    \A d, e \in Dispatchers : d # e => Scope[d] \cap Scope[e] = {}

(* Nobody revives a killed row before the run that was killed has ended.   *)
KilledNotRevived ==
    \A w \in killed :
        ledger[running[w].task].status = "dead"
            => ledger'[running[w].task].status = "dead"

PatientSpec == Init /\ [][Next /\ KilledNotRevived]_vars

-----------------------------------------------------------------------------
(* What a dispatcher does with its claims, one batch after the other.      *)

(* What it has in memory is one batch at most: in hand only while it hands *)
(* it over or releases it, or remembered for release between iterations.   *)
OneBatch(d) ==
    /\ pc[d] = "idle" => held[d] = {}
    /\ pending_release[d] # {} => pc[d] = "idle"
    /\ Cardinality(held[d]) <= BatchSize
    /\ Cardinality(pending_release[d]) <= BatchSize

PhaseOf(d) ==
    CASE pending_release[d] # {} -> "stranded"
      [] pending_release[d] = {} /\ pc[d] # "idle" -> "holding"
      [] OTHER -> "free"

Cycle == INSTANCE DispatcherCycle WITH
    phase <- [d \in Dispatchers |->
                 IF OneBatch(d) THEN PhaseOf(d) ELSE "overloaded"]

(* No dispatcher claims anything while it still holds or owes a release of *)
(* what it claimed before ("do not claim more work while rows we already   *)
(* own remain stranded", the comment in run), so that releases that keep   *)
(* failing cannot make it remember more and more.                          *)
CycleImplemented == Cycle!Spec

-----------------------------------------------------------------------------
(* Liveness.                                                               *)

(* Time passes; a dispatcher's loop, a sweeper's timer and a worker's loop *)
(* go on; the broker delivers the copies it keeps to a worker that is      *)
(* free; a handler returns or raises.                                      *)
Fairness ==
    /\ WF_vars(Tick)
    /\ \A d \in Dispatchers : WF_vars(DispatcherStep(d))
    /\ \A s \in Sweepers : WF_vars(SweeperStep(s))
    /\ \A t \in Tasks : WF_vars(Delivered(t))
    /\ \A w \in Workers : WF_vars(HandlerEnds(w))

FairSpec == Spec /\ Fairness

(* "A committed task is a task that will run" (README.md), to its end: it  *)
(* completes, is dead-lettered or expires, whatever crashed or got lost on *)
(* the way.                                                                *)
EveryTaskSettles ==
    \A t \in Tasks :
        (ledger[t].status \in Status) ~>
            (ledger[t].status \in TerminalStates \cup NoRow)
=============================================================================
