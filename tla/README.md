# Dewey in TLA+

TLA+ modules of [Dewey](../src/README.md), a task ledger in Postgres with a
dispatcher in front of any broker. They are written from the Python code under
`src/src/dewey/`, which has three versions of most parts (SQLAlchemy, async
SQLAlchemy, Django); where the versions differ in what they do, both are
modelled.

## The system

| Component | State it keeps | Operations | Modelled in |
|---|---|---|---|
| task state machine (`core/states.py`) | none | transitions, budget tests | `TaskStates`, `TaskLifecycle` |
| task ledger (`sqlalchemy/models.py`, `django/models.py`) | one row per task: status, attempts, budget, instants | written by all others | `LedgerRows` |
| executors (`*/executor.py`, `core/execution.py`) | the values a run caches between its two transactions | `create_task`, `create_or_get_task`, `process_task` | `Delivery`, `Idempotency`, `Policy` |
| dispatch backends (`*/dispatch.py`) | a LISTEN connection, an instance ID | `claim`, `release`, `run_sweep`, `next_due`, `heartbeat`, `wait_for_work` | `Delivery` (claim, release, sweep), `Wakeup` (claim, next_due, wait), `DispatcherLoop` (heartbeat, close) |
| dispatcher (`dispatcher.py`) | IDs in hand, IDs to release, two backoffs, two clocks, stop flag | `dispatch_batch`, `maybe_sweep`, `maybe_heartbeat`, `run`, `stop` | `Delivery` (batches), `DispatcherLoop` (pacing) |
| sweeps (`*/sweep.py`) | none between passes; IDs selected within one | four recovery passes | `Delivery` |
| operator actions (`*/queries.py`) | none | retry, bulk retry, kill, purge | `Delivery` |
| adapters (`adapters/`, `contrib/`) | a registration | `register`, `dispatch` | the broker of `Delivery` (external) |
| wake-ups (`listen_sync.py`, `*/listen.py`) | a queue of notifications | notify, listen, wait | `Wakeup` |
| policies (`policy.py`, `core/execution.py`, `errors.py`) | registry and project layer of each process | declare, configure, resolve, classify, delay | `Policy`; every outcome is possible in `Delivery` |
| readiness (`core/heartbeat.py`, `dewey_doctor`) | heartbeat rows | heartbeat, freshness | `DispatcherLoop`, for one dispatcher |

Producers insert rows. Dispatchers claim due rows in one transaction
(`PENDING`/`FAILED` to `DISPATCHING`), commit, and only then hand each ID to the
broker; on an error they release what was not sent, and remember it when the
release fails too. Workers receive IDs and run `process_task`: one transaction
that consumes an attempt and moves the row to `PROCESSING`, the handler outside
of any transaction, and one that writes the outcome if the row is still in
`PROCESSING`. Sweeps, run by dispatchers or by cron, take back rows that were
left in `DISPATCHING` or `PROCESSING` too long. They all share nothing but the
table and the broker. What is hard about it:

- every actor acts on rows it read in an earlier transaction or statement
  (cached attempts, selected IDs, remembered IDs), and none carries a token
  that would tell one claim or run from the next: only the status is tested;
- crashes between any two commits, lost, late and duplicated IDs, calls that
  raise although they succeeded;
- thresholds that healthy work may outlive;
- a loop that must survive both its upstreams, wait for both and starve neither
  dispatch nor recovery, and be seen to run all the while;
- notifications that may be lost anywhere, so that a minimum over schedules,
  retries and deadlines and a bounded wait have to find all work;
- policies that belong to processes, while the row belongs to all of them:
  producers and workers are deployed apart and disagree.

`PROJECT.json` lists each hazard at its line.

## Modules

| Module | What it is |
|---|---|
| `TaskStates` | the statuses, the allowed transitions, `should_retry`, `should_die` |
| `LedgerRows` | a row, the tests the SQL statements make of it (`ClaimCandidate`, `Stuck`, ...) and what they write to it (`Claimed`, `Recovered`, ...) |
| `TaskLifecycle` | abstract specification: what the ledger promises of a task, whoever writes its row |
| `Delivery` | the interacting actors: dispatchers, broker, workers, sweepers, operators, clock |
| `DispatcherCycle` | abstract specification: what a dispatcher does with its claims, one batch after the other |
| `UniqueTasks` | abstract specification: what `create_or_get_task` promises, one task per key, published commit by commit |
| `DeliveryProperties` | the properties of `Delivery`, the refinements of `TaskLifecycle` and `DispatcherCycle`, fairness |
| `MCDelivery` | the definitions the `MCDelivery*.cfg` instances need |
| `LifecycleProofs` | what follows from `TaskLifecycle` alone |
| `DeliveryProofs` | theorems about `Delivery` |
| `DeliveryConditionProofs` | under which conditions `Delivery` keeps what it breaks in general |
| `DispatcherLoop` | the loop of one dispatcher: order of calls, backoffs, waits, heartbeat, stop; with its properties |
| `DispatcherLoopProofs` | theorems about `DispatcherLoop` |
| `Wakeup` | how one dispatcher comes to know of work: NOTIFY at commit, the LISTEN connection, `next_due` and the poll; with its properties |
| `WakeupProofs` | theorems about `Wakeup` |
| `Policy` | registries and layers of several processes, the budget stamped on a row, what a failed attempt comes to; with its properties |
| `MCPolicy` | the layers, backoffs and budgets of the instance of `Policy` |
| `PolicyProofs` | theorems about `Policy` |
| `Idempotency` | producers racing in `create_or_get_task`, each in a transaction of its own; with its properties |
| `IdempotencyProofs` | theorems about `Idempotency` |

Definitions named "variant with a bug" are mutations the properties are
measured against; no action uses them.

### How Delivery corresponds to the code

- *Unit of interleaving.* A transaction is one step, because every row it
  writes is locked until it commits. The exception is the SQLAlchemy sweep,
  which selects without a lock: there `SelectRows` and `UpdateSelected` are two
  steps. `LockedSweep` chooses between it and the Django sweep. A sweep's four
  passes are four steps although SQLAlchemy commits them together: the rows a
  pass wrote stay locked until then, so nobody acts on them in between.
- *SKIP LOCKED.* A claim and `sweep_expired` may miss rows that others hold, so
  they take any rows within their limit (`Unlocked`); the other passes wait for
  locks and take all the rows they find, or as many as their limit (`Limited`).
- *Time.* A row keeps how many ticks remain until it is due and until its
  deadline, or `Null`, and for how many ticks it has been in its status. An
  instant that has come is 0 and not `Null`: a claim and `sweep_failed` take a
  failed row only if its schedule is `<= now`, which NULL is not, while a
  pending row without a schedule is due at once. An age stops at one above the
  larger threshold. The model never has two clocks that disagree.
- *Budgets.* `create_task` and a registered policy stamp any number, so budgets
  are any integers here. Nobody looks at the budget before the first attempt.
- *The second transaction of a run.* It selects the row again into a session
  that had it already. Where sessions expire their objects on commit, which is
  SQLAlchemy's default, and in Django, that reads the row as it is now. A session made
  with `expire_on_commit=False` keeps the objects it has, so the run sees its own
  `PROCESSING` whatever became of the row. `ExpireOnCommit` chooses, and
  `StillProcessing` is the test either way.
- *Claiming order.* Priority decides which due rows a claim takes first, not
  which rows may be taken; here it takes any.
- *Faults.* `DispatchFails`, `ReleaseFails` (with and without the commit),
  `DispatcherCrash`, `WorkerCrash`, `LoseMessage` and `DuplicateMessage` spend
  from one bound `MaxFaults`. A claim whose commit succeeded but raised is
  `Claim` followed by `DispatcherCrash`. A retried release that fails again
  changes nothing and is no step; one that fails after its commit is a release
  followed by a later one of rows no longer claimed.
- *The failed handler.* What a policy decides is left open: any retry delay
  within `MaxTicks`, or dead-lettering at once; that an exhausted budget is
  dead-lettered is decided on the cached values, as in `classify_failure`.
- *History variables* `owner`, `interrupted` and `killed` are read by no action.

### How DispatcherLoop corresponds to the code

`pc` follows one iteration of `run`: release, heartbeat, sweep, batch, sending,
`next_due`, pause, and one of the two waits. `transport` and `database` are the
two `_BackoffState`, as the next delay and the ticks left until `_retry_at`.
Calls fail when they are in `down`, which changes at any moment; a heartbeat
fails on its own. Ticks pass between any two steps, so any call may be slow.
`stop()` cuts a backoff sleep short and does not end `wait_for_work`.
`max_iterations` is left out.

The heartbeat row is modelled by its age `seen`, which is `Unlisted` once
`get_dispatchers` no longer returns it. A beat is a step of the loop, so the
age grows through slow calls and through the backoff that ends an iteration.
`ListedWhileRunning` relates the two: `Slack` is what `StaleAfter` leaves beyond
an interval and the longest wait, `busy` counts the ticks not spent in a wait.
With the defaults of the code (15, 45 and 30 seconds) the slack is 0 seconds:
the heartbeat of a dispatcher whose broker is down for long is fresh only if
its calls take no time, and one heartbeat that fails meanwhile makes it stale.

### How Wakeup corresponds to the code

`pc` is again an iteration, without what may fail: claim, `next_due`, pause, the
wait. Time passes in waits only. A row keeps the instants of its schedule and
its deadline, or `Null`, because `next_due` looks at scheduled rows only and a
row without a schedule must be found by the claim. `locked` are the rows that
claims of other dispatchers hold: `SKIP LOCKED` hides them from a claim and not
from `next_due`. `FillsBatch` is the full batch after which `run` claims again
without a wait.

`Insert` and `Commit` are apart because NOTIFY is called in the transaction of
the producer and delivered when it commits, which is PostgreSQL's rule and built
into the model. A notification reaches a listener
that is open at that moment and whose queue is not full. `listener` is
unopened, listening, deaf (the connection is gone, nobody noticed) or polling.
The three drivers differ in what a wait leaves in the queue (`Notified` allows
each) and in whether a lost connection is noticed (`NoticeLoss` may never
happen: the asynchronous listener does not notice). Sweeps and retries notify
in SQLAlchemy and not in Django, failed attempts never do: `Return` and `Fail`.

### How Policy corresponds to the code

A process has a registry entry and a project layer for the one task type, and
may restart with neither. `Ancestors` is the class hierarchy of `errors.py`
with two exceptions of others, so that a policy may name a class, a base class
or neither. `Overridden` merges layers as `dataclasses.replace` does, which
means a layer's `fail_fast_on` replaces the default. `ResolvePolicy` is
evaluated at creation for the budget and at the start of a run for the rest.
`classify_failure` is `Fatal`, `Dies` and `Postponed`, in its order: RetryAfter
is looked at before the policy. A delay is a set of answers, which covers jitter
and functions of the project's own: these may answer a negative delay, or raise
(no answer, `BackoffRaises`), in which case nothing is written and the row waits
for `sweep_stuck`. Project layers are those that `_validate` lets pass; a policy
handed to `PolicyRegistry.register` is looked at by nobody and may have any
budget. `steady` says that no policy has changed during the attempt: the
documentation promises the backoff of the moment of failure, the code has that
of the start, and `RestsAsAsked` is about attempts where the two are the same.
(`BackoffReadAtFailure` is about the others.) Attempts do not overlap here; `Delivery` has those races, and
takes any outcome a policy may give.

Left out of `Policy`: `handler=` and `backoff=` passed to one `process_task`;
`queue` and `priority`, stamped as `max_attempts` is; operators' retries.

### How Idempotency corresponds to the code

A producer is one transaction that calls `create_or_get_task` up to `MaxCalls`
times and then commits, rolls back or dies. A call is three steps: `Request`
(arguments and defaults), then `Create` or `Collide` (the flush in the
savepoint), then, after a collision, `LookUp` (the handler of `IntegrityError`).
Rows of other transactions change between any two of them. A contract stands
for all the fields that are compared; `moved` says that `scheduled_for`, which
is not, has been rewritten since. A key is a task type with an idempotency key.
The database is external: READ COMMITTED, an insert that waits for the holder
of its key, deadlocks broken by refusing one member of the cycle. The three
versions of the function do not differ in what the model tells apart: Django's
outer `atomic` takes back only what the call itself did. Rows without a key
never collide and are left to `Delivery`.

`RefusedOnlyForPurge` also says what the code does not promise: a call that
collides with a completed task may find it purged, and the caller then gets the
`IntegrityError` although the key is free.

## What the runs check

| Run | Instance | Shows |
|---|---|---|
| `delivery_race` | 1 task, 2 dispatchers, 2 workers, unlocked sweep, budgets 0 and 2, sessions that expire on commit, 3 faults, 1 intervention | types, `BudgetRespected`, `OneRunAtATime`, `RunOwnsRow`, `FailedHasBudget`, `NothingIsForgotten`, `KillIsHonoured`, refinement of `TaskLifecycle` and of `DispatcherCycle` |
| `delivery_live` | 2 tasks, 1 dispatcher with batches of 2, 1 worker whose session keeps its objects, locked sweep, budget 2, 1 fault, fair | `EveryTaskSettles` |
| `loop` | delays of base 2 with caps 3 and 1; poll, sweep and heartbeat every 2, stale after 5; fair | `TypeOK` (delays under their caps, or the base), `NoClaimDuringBackoff`, `StrandedKeepsBackoff`, `WaitsWhatIsOwed`, `ListedWhileRunning`, `SweepsGoOn`, `RecoversFully`, `StopIsHonoured` |
| `wakeup` | 2 tasks, batches of 1, poll of 2 ticks, a queue of 1, instants up to 3, fair | `TypeOK`, `TimelyClaim`, `PromptClaim`, `PunctualWake`, `NoSpin`, `EveryReadyRowIsTaken` |
| `policy` | 2 processes, 2 handlers, 3 hints, 5 project layers, 4 backoffs, budgets 0 to 3, all exceptions | `TypeOK`, `BudgetIsStamped`, `RestsAsAsked`, `SameHandler`, refinement of `TaskLifecycle` |
| `idempotency_race` | 2 producers with 2 calls each, 2 keys, 2 contracts, 4 rows, fair | `TypeOK`, `Agreement`, `ReturnedTaskStays`, `RefusedOnlyForPurge`, `ConflictIsReal`, `CallerKeepsItsWork`, `EveryCallIsAnswered`, refinement of `UniqueTasks` |
| `unlocked_sweep` | SQLAlchemy sweep | violates `RecoversOnlyStale`: a fresh claim is taken back |
| `kill_then_retry` | kill, retry, second run | violates `KillIsHonoured`: the killed run writes its outcome |
| `stranded_release` | 2 dispatchers, failed release | violates `StrandedRowsAreOwned`: another dispatcher's claim is released |
| `fail_fast_overridden` | as `policy`; a hint with `fail_fast_on=(NotFound,)` | violates `NonRetryableIsDead`: NonRetryableError is retried |
| `unknown_type` | as `policy`; a project layer with `retry_on` | violates `UnknownTypeIsPatient`: a task of a type the worker does not know is dead with budget left |
| `backoff_read_at_start` | as `policy`; `configure` during an attempt | violates `BackoffReadAtFailure`: the failure rests for the delay of the old policy |

The last six are disagreements between what the documentation or a comment
says and what the code does (the findings of `PROJECT.json`). They leave the
properties that pass as they are: `delivery_race` has the unlocked sweep and the
stranded releases, and keeps the attempt budget and the life cycle. Its one
intervention cannot both kill and revive, so kills are honoured there. Three
of the six statements do hold under a condition, and theorems show it:

| Statement | Holds when | Theorem |
|---|---|---|
| `KillIsHonoured` | a killed row is not revived before the killed run has ended (`PatientSpec`), and sessions expire on commit (`ExpireOnCommit`) | `KillCorrect` |
| `StrandedRowsAreOwned` | no two dispatchers share a queue (`QueuesApart`) | `OwnQueuesCorrect` |
| `NonRetryableIsDead` | layers that name `fail_fast_on` keep NonRetryableError in it (`FailFastIsExtended`) | `FailFastCorrect` |

A sweep that locks what it selects, as Django's does, moves stale rows only,
since it tests and writes them in one step.

`ExpireOnCommit` is a condition of two more results. A run whose session keeps
its objects overwrites whatever has become of its row: a kill, a deadline that a
sweep enforced after recovering the row, the outcome of the run that replaced
it. Then neither `KillIsHonoured` nor the refinement of `TaskLifecycle` holds, the
budget and `EveryTaskSettles` still do.

Smaller divergences met on the way, without a run of their own:

- `retry_task` resets a row in `DISPATCHING` or `PROCESSING` to pending as well,
  because the transitions admit it (so does `RetryTask`); its docstring and
  `docs/query-api.md` speak of failed and dead rows.
- `create_task(max_attempts=0)` is accepted and the task is run once, beyond its
  budget; `BudgetRespected` states that exception.
- `classify_failure`'s docstring puts `fail_fast_on` first; RetryAfter is
  looked at before it, so a policy that lists RetryAfter or DeweyError there
  does not fail fast on it.
- `default_task_backoff` says `process_task` uses it by default; nothing does.

### Why the bounds are enough

- One row is enough for the races on it, since no statement relates two rows
  but through a limit; `delivery_live` has two rows and batches of two. Two
  dispatchers and two workers give a stale actor and a fresh one.
- `MaxTicks` of 2 (1 in the other runs) and thresholds of 0 let a schedule, a
  deadline and a timeout each be in the future, then in the past, in any order,
  and let a healthy run outlive its threshold. Either column may be NULL. An age
  is 0 (fresh) or 1 (stale).
- Budgets: 2 has an attempt that is the last and one that is not; 0 is what
  `create_task` lets pass, with one attempt beyond it.
- Three faults: a failed dispatch, its failed release, and one more after it.
  One intervention: a kill, a retry of whatever row or a purge. A kill with a
  retry after it is `kill_then_retry`.
- `MaxMessages` (2 or 1) is the number of copies of one ID in the broker;
  further ones would be skipped as the second one is.
- `idempotency_race`: two keys and two calls make a cycle of waits; four rows
  are as many as there can be insertions, so no call is ever short of one. A
  third producer would wait for one of the two as the second does; the proofs
  are for any number.
- `loop`: a base that does not divide the transport cap and exceeds that of the
  database, which the constructor does not refuse; delays longer than the poll and
  the intervals, and equal to them. `StaleAfter = 5` leaves a slack of one tick,
  so that a slow call is within it once and beyond it twice.
- `wakeup`: a batch of one and two rows make a full batch with work left over;
  a queue of one is full after one notification; instants up to 3 reach beyond
  the poll of 2. A row may come back once (`MaxReturns`), by a retry, a
  release or a failure.
- `policy`: a second process is another deployment; a third would only be one
  more layer. Budgets of 0 to 3, an exponential backoff that its jitter takes to
  its cap, a function that answers with the past and one that raises, RetryAfter
  below and above the delays.
- Symmetry is used only in runs without liveness: of tasks and actors of a kind
  in `Delivery`, of processes and of handlers in `Policy`. They are
  interchangeable there.

### Fairness

`FairSpec` of `Delivery`: time passes; a dispatcher's `while` loop, a sweeper's
timer, a broker with a free worker and a handler each make a step when they
continuously can. No fairness is assumed of producers, operators and faults,
and none that a message is not lost. A task whose handler fails forever settles because
attempts are bounded. `FairSpec` of `DispatcherLoop`: time passes and each call
ends, well or not; nothing is assumed about what fails. `FairSpec` of `Wakeup`:
the dispatcher goes on and time passes in its waits; nothing is assumed of
producers, locks, notifications, or of a lost connection being noticed. `Spec` of
`Idempotency`: a call that is not blocked goes on, the database finds deadlocks,
and a caller that was answered ends its transaction; without the last, a
producer that waits for a key held by it would rightly wait forever.

## What is proved

For every set of tasks, actors and queues and all bounds, `DeliveryProofs` shows

- `TypeCorrect`: `TypeOK` is an invariant.
- `BudgetCorrect`: `BudgetRespected`, for any integers as budgets: the first
  attempt is the only one that nobody weighs. It is inductive together with the types:
  every step of `Delivery` is, for each row, one of the `RowStep`s
  (`NextIsRowSteps`), and each of those keeps the budget (`RowStepBudget`).
- `RunCorrect` and `OneRunAtATimeCorrect`: `RunOwnsRow` and `OneRunAtATime`. The
  argument is `ProcessingKept`: a step leaves a row in processing alone, or
  records it as interrupted, or is the outcome of a worker that runs it; so
  between its two transactions an uninterrupted row belongs to its worker.
- `FailedBudgetCorrect`: `FailedHasBudget`, from the above: what the worker
  cached is what the row says when it decides between failed and dead.
- `FinalStatesCorrect`: `FinalStatesStay` (completed and expired rows are final),
  which `LifecycleImplemented` implies, under `ExpireOnCommit`.
- `LifecycleCorrect`: `Delivery` implements `TaskLifecycle`, each step mapping
  to a step of it or to none, under `ExpireOnCommit`. The life cycle has the deadline
  in it (`late`): an attempt starts only in time, a message that comes late or a
  row that is both due and late notwithstanding.
- `NothingForgottenCorrect`: `NothingIsForgotten`. A failed row without a schedule
  would be found by neither claim nor `sweep_failed`; no step makes one
  (`RetryScheduled`), so that in every reachable state (`ScheduleInv`) a case
  split over status, schedule, deadline and budget finds the row
  (`RowNotForgotten`).
- `StrandedReleaseCorrect`: `StrandedReleaseBounded`, by what a dispatcher has
  in memory between its steps (`MemoryInv`): a batch only while it handles it,
  and IDs to release only between iterations.
- `CycleCorrect`: each dispatcher implements `DispatcherCycle`, where a memory of
  more than one batch is mapped outside of its phases, so that it implies
  `StrandedReleaseBounded`. By `MemoryInv` every step turns the phase of one
  dispatcher at most, and only a claim, which needs an idle dispatcher without
  stranded IDs, leaves "free".

`DeliveryConditionProofs` shows two statements under their conditions.

- `OwnQueuesCorrect`: rows become `DISPATCHING` only by a claim, within the
  queues of the claimer (`DispatchingByClaim`). The inductive invariant
  (`QueueStep`) says that what a dispatcher holds or remembers is in its own
  queues, and that a claimed row is in a queue of its owner.
- `KillCorrect`: the row of a killed run stays dead until the run ended
  (`KilledStep`), so the run finds it changed and writes nothing.

`DispatcherLoopProofs` shows for every base and caps, bases beyond a cap and zeros
included, and every poll and interval of a tick or more that the delays stay in range (`LoopTypeCorrect`), that no claim is made while a backoff
is owed (`BackoffServed`), that the database backs off while a release is
stranded unless its delays are zero (`StrandedBackoffCorrect`) and that a sleep is what is owed
(`WaitCorrect`). The inductive invariant `Served` says what has been waited for
at each point of an iteration: `NoClaimDuringBackoff` alone speaks of the claim
only and is not inductive. `RunningIsListed` shows `ListedWhileRunning` by an
invariant of its own (`Heard`), which bounds the age of the heartbeat at each
point by the interval, the busy ticks and the one wait of an iteration.
`LoopCycleCorrect` shows that the loop implements `DispatcherCycle` too: the two
models of one dispatcher, by its memory and by its pacing, keep one discipline.

`WakeupProofs` shows for any rows, batch size, poll and queue

- `PollIsEnough`: `TimelyClaim`, from `Punctual`: after a claim that did not
  fill its batch no row is late, and in a wait the lateness of a row and what
  is left of the wait add up to the poll at most.
- `AnnouncedIsPrompt`: `PromptClaim`, from `Heeded`: while a row is
  announced there is an unread notification, its own or those that filled the
  queue, or the dispatcher is about to claim.
- `WaitsArePunctual` and `NeverSpins`, from `Foreseen` (the rows `next_due` saw
  are as it saw them or no longer counted) and `Idling` (where an empty claim
  may have been), and `WakeupTypeCorrect`.

`PolicyProofs` shows for any processes, handlers, layers, backoffs and budgets
`PolicyTypeCorrect`, `BudgetStampedCorrect`, `RestCorrect` and
`SameHandlerCorrect`, and of the delays `ExponentialCapped`.
The inductive invariant `ExecutionInv` ties the one attempt under way to the
row (`RunInv`), says that a row which may run has an attempt left or has had
none (`BudgetInv`), that what was rested and what is still to rest make up the
delay (`RestInv`), and why a row is dead (`DeadInv`). `FailFastCorrect` adds
that every resolved policy fails fast on NonRetryableError when all layers that
name `fail_fast_on` do (`FastInv`). `PolicyLifecycleCorrect` shows that `Policy`
implements `TaskLifecycle` for all budgets, 0 among them: the life cycle, like the code,
does not weigh a first attempt.

`IdempotencyProofs` shows for any number of producers, keys, contracts, rows and
calls `IdempotencyTypeCorrect`, `AgreementCorrect`, `ReturnedTaskStaysCorrect`,
`RefusalCorrect`, `ConflictCorrect` and `CallerWorkCorrect`. The inductive
invariant `IInv` adds to the properties that one live row at most holds a key
(`OneTaskPerKey`), that the uncommitted rows of transactions are open and
disjoint, and that a call which collided has its row still there or purged
(`CollidedWithRow`); `Agreement` follows from `OneTaskPerKey` and
`ReturnedTaskStays`. `UniquenessCorrect` shows the refinement of `UniqueTasks`:
the committed rows are its tasks; a commit publishes rows of keys nobody else
holds (`CommitPublishes`), a purge retires one, and every other step changes
nothing that others see.

`LifecycleProofs` shows what the refinements are good for: anything that
implements `TaskLifecycle`, and so `Delivery` and `Policy`, keeps tasks within
their budgets but for a first attempt (`BudgetFollows`) and final states final
(`FinalityFollows`).

The assumptions are the named ones: budgets are integers
(`BudgetsAssumption`), limits and bounds are naturals, actors are disjoint, the
heartbeat has no negative slack (`PacingAssumption`), there are keys and contracts (`ProducersAssumption`), rows
are finite in number (`ActorsAssumption`, `WakeupAssumption`), and the defaults
are those of `TaskPolicy` (`PolicyAssumption`).

Five theorems have a hypothesis beside these, a condition on how Dewey is
configured or used and not a fact about the code: `ExpireOnCommit` (in
`LifecycleCorrect`, `FinalStatesCorrect` and `KillCorrect`), `QueuesApart`,
`FailFastIsExtended`, and `PatientSpec`, a specification in which nobody revives
a killed row early.

Only model-checked: liveness (`EveryTaskSettles`, `SweepsGoOn`,
`RecoversFully`, `StopIsHonoured`, `EveryCallIsAnswered`,
`EveryReadyRowIsTaken`), which is out of the prover's reach. Every other
property of a passing run is a theorem. Only proved, and part of no run, are
`StrandedReleaseBounded` and `FinalStatesStay`, which refinements that are checked
imply, `LoopCycleCorrect`, and the two statements under `QueuesApart` and
`FailFastIsExtended`.

## Plan

1. The order of a claim: what priorities starve.
2. Readiness of several dispatchers with different queues, as `dewey_doctor`
   sees it.
3. Registration of the Huey adapter across reloads of its module.

## Not modelled

Arguments, metadata, errors, trace context and logging, which no control
depends on; serialization; Django settings, system checks and commands;
migrations; read-only queries; packaging scripts. Running `process_task` in
process, without a broker, is a delivery of a pending row, which the broker's
late copies already give.
