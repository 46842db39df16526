----------------------------- MODULE LedgerRows -----------------------------
(***************************************************************************)
(* One row of the task table (sqlalchemy/models.py, django/models.py), and *)
(* what each statement of the executors, the dispatch backends, the sweeps *)
(* and the queries reads of it and writes to it.                           *)
(*                                                                         *)
(* An instant is kept as its distance from the present, in ticks, so that  *)
(* "<= now" is "= 0":                                                      *)
(*   scheduled_for  ticks until the row is due                             *)
(*   expires_at     ticks until the deadline                               *)
(*   age            ticks since dispatching_at (of a dispatching row) or   *)
(*                  since started_at (of a processing row): each column is *)
(*                  read only in the status that just wrote it             *)
(* Either column may be NULL, which compares with nothing: "<= now" is not *)
(* true of it, and where NULL is to pass the statement says so.  An age    *)
(* saturates once it exceeds every threshold it is compared with.          *)
(***************************************************************************)
EXTENDS TaskStates, FiniteSets

CONSTANTS
    Null,               \* NULL in either column
    Budgets,            \* the max_attempts a producer or a policy may stamp
    MaxTicks,           \* bound: farthest schedule, retry delay or deadline
    DispatchTimeout,    \* dispatch_timeout_seconds, in ticks
    StuckThreshold      \* stuck_threshold_minutes, in ticks

(* Any number: layers of policy are validated, but not what a producer     *)
(* passes to create_task nor a policy registered by hand.                  *)
ASSUME BudgetsAssumption == Budgets \subseteq Int

ASSUME TicksAssumption ==
    /\ MaxTicks \in Nat
    /\ DispatchTimeout \in Nat
    /\ StuckThreshold \in Nat
    /\ Null \notin Nat

MaxAge == 1 + IF DispatchTimeout > StuckThreshold THEN DispatchTimeout
                                                  ELSE StuckThreshold

(* "absent": no producer has inserted the row.  "purged": it was deleted.  *)
(* An ID is a fresh UUID, so a purged one is never inserted again.         *)
NoRow == {"absent", "purged"}

Instants == 0..MaxTicks \cup {Null}

Row == [status: Status \cup NoRow, attempts: Nat, max_attempts: Int,
        scheduled_for: Instants, expires_at: Instants, age: 0..MaxAge]

AbsentRow == [status |-> "absent", attempts |-> 0, max_attempts |-> 0,
              scheduled_for |-> Null, expires_at |-> Null, age |-> 0]

PurgedRow == [AbsentRow EXCEPT !.status = "purged"]

NewRow(max_attempts, scheduled_for, expires_at) ==
    [status |-> "pending", attempts |-> 0, max_attempts |-> max_attempts,
     scheduled_for |-> scheduled_for, expires_at |-> expires_at, age |-> 0]

-----------------------------------------------------------------------------
(* What the statements test.                                               *)

(* scheduled_for <= now, which NULL is not.                                *)
Due(row) == row.scheduled_for = 0

(* scheduled_for IS NULL OR scheduled_for <= now.                          *)
DueOrNull(row) == row.scheduled_for = Null \/ Due(row)

DeadlinePassed(row) == row.expires_at = 0

BudgetLeft(row) == ShouldRetry(row.attempts, row.max_attempts)

(* claim(): the rows whose deadline it terminalises, and its candidates.   *)
ExpiredAtClaim(row) == row.status \in {"pending", "failed"} /\ DeadlinePassed(row)

ClaimCandidate(row) ==
    /\ \/ row.status = "pending" /\ DueOrNull(row)
       \/ row.status = "failed" /\ Due(row) /\ BudgetLeft(row)
    /\ ~DeadlinePassed(row)

(* Variant with a bug: the deadline is left to the claim and the sweep.    *)
StartableLate(row) == row.status \in Claimable /\ DueOrNull(row)

(* Phase 1 of process_task, once the row is locked.                        *)
Startable(row) ==
    row.status \in Claimable /\ ~DeadlinePassed(row) /\ DueOrNull(row)

(* The WHERE clauses of the four recovery passes.                          *)
ExpiredAtSweep(row) ==
    row.status \in {"pending", "failed", "dispatching"} /\ DeadlinePassed(row)

RetryIsDue(row) == row.status = "failed" /\ Due(row)

DispatchTimedOut(row) == row.status = "dispatching" /\ row.age > DispatchTimeout

(* Variant with a bug: an abandoned row with no attempt left is passed by. *)
StuckWithBudget(row) ==
    /\ row.status = "processing"
    /\ row.age > StuckThreshold
    /\ BudgetLeft(row)

Stuck(row) == row.status = "processing" /\ row.age > StuckThreshold

-----------------------------------------------------------------------------
(* What the statements write.                                              *)

(* The one place a status changes: an age belongs to the status.           *)
Enter(row, status) == [row EXCEPT !.status = status, !.age = 0]

Claimed(row) == Enter(row, "dispatching")

(* Variant with a bug: release() without its WHERE on the status.          *)
ReleasedAnyway(row) == Enter(row, "pending")

(* release(): UPDATE .. WHERE status = 'dispatching', attempts untouched.  *)
Released(row) ==
    IF row.status = "dispatching" THEN Enter(row, "pending") ELSE row

Expired(row) == Enter(row, "expired")

(* Variant with a bug: recovery that does not look at the budget.          *)
RecoveredAlways(row, from) ==
    IF row.status # from THEN row ELSE Enter(row, "pending")

(* The two UPDATEs of a recovery pass over rows it found in `from`: the    *)
(* status and the budget are tested again, nothing else is.                *)
Recovered(row, from) ==
    IF row.status # from THEN row
    ELSE Enter(row, IF BudgetLeft(row) THEN "pending" ELSE "dead")

(* Phase 1 of process_task: the attempt is consumed before the handler.    *)
Started(row) == [Enter(row, "processing") EXCEPT !.attempts = @ + 1]

Completed(row) == Enter(row, "completed")

(* Variant with a bug: no delay is no schedule.                            *)
FailedUnscheduled(row, delay) ==
    [Enter(row, "failed") EXCEPT
        !.scheduled_for = IF delay = 0 THEN Null ELSE delay]

(* A failure always leaves a schedule, be it a delay of nothing.           *)
Failed(row, delay) == [Enter(row, "failed") EXCEPT !.scheduled_for = delay]

DeadLettered(row) == Enter(row, "dead")

(* retry_task and bulk_retry: a fresh budget, and no schedule.             *)
Retried(row) ==
    [Enter(row, "pending") EXCEPT !.scheduled_for = Null, !.attempts = 0]

-----------------------------------------------------------------------------
(* One tick of the clock.                                                  *)

(* Variant with a bug: an instant that passed keeps moving away.           *)
CountdownPastZero(n) == n - 1

Countdown(n) == IF n > 0 THEN n - 1 ELSE 0

Nearer(instant) == IF instant = Null THEN Null ELSE Countdown(instant)

Aged(row) ==
    [row EXCEPT
        !.scheduled_for = Nearer(@),
        !.expires_at = Nearer(@),
        !.age = IF row.status \in {"dispatching", "processing"} /\ @ < MaxAge
                THEN @ + 1 ELSE @]
=============================================================================
