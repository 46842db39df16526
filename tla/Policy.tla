------------------------------- MODULE Policy -------------------------------
(***************************************************************************)
(* Policies of a task type and what a failed attempt comes to: the layers  *)
(* of policy.py (TASK_DEFAULTS < @dewey.task < configure_policies), the    *)
(* budget create_task stamps on the row, and classify_failure and          *)
(* resolve_handler of core/execution.py.                                   *)
(*                                                                         *)
(* Registry and project layer belong to a process, the row to all of them: *)
(* producers and workers of several deployments create and run one task    *)
(* under policies that differ and change.  A claim is one step here and    *)
(* attempts do not overlap; how they do is in Delivery.                    *)
(***************************************************************************)
EXTENDS TaskStates, FiniteSets

CONSTANTS
    Processes,          \* producers and workers, each with its registry
    Handlers,           \* the functions a task type may be bound to
    Hints,              \* what decorators say: some valid, some not
    ProjectLayers,      \* what configure_policies is called with
    Defaults,           \* TASK_DEFAULTS
    Budgets,            \* max_attempts given to create_task itself
    Asked,              \* the seconds of RetryAfter, in ticks
    Null                \* None, or a field a layer does not set

(* The exceptions handlers raise: those of errors.py and two of others.    *)
(* Each with the classes it is an instance of.                             *)
Ancestors ==
    [TransientError       |-> {"TransientError", "DeweyError"},
     NonRetryableError    |-> {"NonRetryableError", "DeweyError"},
     RetryAfter           |-> {"RetryAfter", "DeweyError"},
     UnknownTaskTypeError |-> {"UnknownTaskTypeError", "DeweyError",
                               "LookupError"},
     NotFound             |-> {"NotFound", "LookupError"},
     ConnectionError      |-> {"ConnectionError"}]

Exceptions == DOMAIN Ancestors

Classes == Exceptions \cup {"DeweyError", "LookupError"}

IsInstance(exception, classes) == Ancestors[exception] \cap classes # {}

(* A backoff, with jitter in per cent.  A function of the project's own    *)
(* may answer anything, a negative delay included, or raise: no answer.    *)
Constants == [kind : {"constant"}, seconds : Nat, jitter : Nat]
Exponentials == [kind : {"exponential"}, base : Nat, factor : Nat,
                 cap : Nat, jitter : Nat]
Customs == [kind : {"custom"}, answers : SUBSET Int]

Backoffs == Constants \cup Exponentials \cup Customs

(* A TaskPolicy may be built by hand, and says then what it likes.         *)
TaskPolicy == [handler : Handlers \cup {Null}, max_attempts : Int,
               backoff : Backoffs, retry_on : SUBSET Classes,
               fail_fast_on : SUBSET Classes]

(* What a layer may be written to say, and what a validated one says.      *)
(* queue and priority go the way of max_attempts.                          *)
Layer == [handler : Handlers \cup {Null}, max_attempts : {Null} \cup Int,
          backoff : {Null} \cup Backoffs,
          retry_on : {Null} \cup SUBSET Classes,
          fail_fast_on : {Null} \cup SUBSET Classes]

ValidLayer == [handler : {Null}, max_attempts : {Null} \cup (Nat \ {0}),
               backoff : {Null} \cup Backoffs,
               retry_on : {Null} \cup SUBSET Classes,
               fail_fast_on : {Null} \cup SUBSET Classes]

ASSUME PolicyAssumption ==
    /\ Null \notin Handlers \cup Nat
    /\ Hints \subseteq Layer /\ ProjectLayers \subseteq Layer
    /\ Defaults \in TaskPolicy /\ Defaults.handler = Null
    /\ Defaults.retry_on = {}
    /\ Defaults.fail_fast_on = {"NonRetryableError"}
    /\ Budgets \subseteq Int
    /\ Asked \subseteq Nat

VARIABLES
    registry,           \* what each process has declared of the task type
    project,            \* the project layer of each process
    row,                \* the row of the one task
    run,                \* the attempt a process is making
    failure,            \* history: the failure of the last attempt and the
                        \* policy it came under, until the next claim
    rested,             \* ticks since that failure
    called              \* handlers a process was given by its registry
                        \* since it started or rebound them on purpose

vars == <<registry, project, row, run, failure, rested, called>>

Untouched == [handler |-> Null, max_attempts |-> Null, backoff |-> Null,
              retry_on |-> Null, fail_fast_on |-> Null]

Row == [status : Status \cup {"absent"}, attempts : Nat,
        max_attempts : Int, due : Nat]

Run == [policy : TaskPolicy, attempts : Nat, max_attempts : Int]

(* steady: the policy was in force from the start of the attempt to its    *)
(* end.                                                                    *)
Failure == [exception : Exceptions, seconds : Nat, policy : TaskPolicy,
            attempts : Nat, steady : BOOLEAN]

TypeOK ==
    /\ registry \in [Processes -> {Null} \cup TaskPolicy]
    /\ project \in [Processes -> ValidLayer]
    /\ row \in Row
    /\ run \in [Processes -> {Null} \cup Run]
    /\ failure \in {Null} \cup Failure
    /\ rested \in Nat
    /\ called \in [Processes -> SUBSET Handlers]

Init ==
    /\ registry = [p \in Processes |-> Null]
    /\ project = [p \in Processes |-> Untouched]
    /\ row = [status |-> "absent", attempts |-> 0, max_attempts |-> 0,
              due |-> 0]
    /\ run = [p \in Processes |-> Null]
    /\ failure = Null
    /\ rested = 0
    /\ called = [p \in Processes |-> {}]

-----------------------------------------------------------------------------
(* Delays.                                                                 *)

AtLeast(x, y) == IF x < y THEN y ELSE x
AtMost(x, y) == IF x < y THEN x ELSE y

Jittered(seconds, jitter) ==
    LET spread == (seconds * jitter) \div 100
    IN (seconds - spread)..(seconds + spread)

Constant(b) == {AtLeast(0, s) : s \in Jittered(b.seconds, b.jitter)}

(* attempt is 1 for the first that failed.                                 *)
Exponential(b, attempt) ==
    LET raw == b.base * b.factor ^ AtLeast(0, attempt - 1)
    IN {AtLeast(0, AtMost(s, b.cap)) :
            s \in Jittered(AtMost(raw, b.cap), b.jitter)}

DelayFor(b, attempt) ==
    CASE b.kind = "constant" -> Constant(b)
      [] b.kind = "exponential" -> Exponential(b, attempt)
      [] b.kind = "custom" -> b.answers

-----------------------------------------------------------------------------
(* Layers.                                                                 *)

(* Variant with a bug: any budget passes.                                  *)
ValidAnyBudget(layer) == layer.handler = Null

(* _validate: the handler is not among POLICY_FIELDS.                      *)
Valid(layer) ==
    /\ layer.handler = Null
    /\ layer.max_attempts # Null => layer.max_attempts >= 1

Over(upper, lower) == IF upper = Null THEN lower ELSE upper

(* dataclasses.replace of the fields the layer sets.                       *)
Overridden(policy, layer) ==
    [handler |-> Over(layer.handler, policy.handler),
     max_attempts |-> Over(layer.max_attempts, policy.max_attempts),
     backoff |-> Over(layer.backoff, policy.backoff),
     retry_on |-> Over(layer.retry_on, policy.retry_on),
     fail_fast_on |-> Over(layer.fail_fast_on, policy.fail_fast_on)]

Declared(handler, hints) ==
    [Overridden(Defaults, hints) EXCEPT !.handler = handler]

(* resolve_policy: a type that is not declared has the defaults.           *)
ResolvePolicy(p) == Overridden(Over(registry[p], Defaults), project[p])

ExecutionUntouched == UNCHANGED <<row, run, failure, rested>>

(* Variant with a bug: the last declaration wins.                          *)
MayRegisterAny(p, policy) == TRUE

(* A second declaration that differs is refused.                           *)
MayRegister(p, policy) == registry[p] \in {Null, policy}

(* PolicyRegistry.register, which validates nothing: a policy built by     *)
(* hand may come with hints that a decorator would refuse.                 *)
Register(p, policy) ==
    /\ MayRegister(p, policy)
    /\ registry' = [registry EXCEPT ![p] = policy]
    /\ UNCHANGED <<project, called>>
    /\ ExecutionUntouched

(* @dewey.task on a handler, at the import of its module.                  *)
Task(p, handler, hints) ==
    /\ Valid(hints)
    /\ Register(p, Declared(handler, hints))

(* register(replace_existing=True), or unregister and clear.               *)
Rebind(p, policy) ==
    /\ registry[p] # Null
    /\ registry' = [registry EXCEPT ![p] = policy]
    /\ called' = [called EXCEPT ![p] = {}]
    /\ UNCHANGED project
    /\ ExecutionUntouched

(* configure_policies replaces what was said of the type before;           *)
(* clear_project_policies leaves nothing.                                  *)
Configure(p, layer) ==
    /\ Valid(layer)
    /\ project' = [project EXCEPT ![p] = layer]
    /\ UNCHANGED <<registry, called>>
    /\ ExecutionUntouched

-----------------------------------------------------------------------------
(* The row.                                                                *)

(* The budget is that of the call, which nothing checks, or the policy's.  *)
CreateTask(p, max_attempts) ==
    /\ row.status = "absent"
    /\ row' = [row EXCEPT !.status = "pending",
                          !.max_attempts =
                              Over(max_attempts,
                                   ResolvePolicy(p).max_attempts)]
    /\ UNCHANGED <<registry, project, run, failure, rested, called>>

(* A dispatcher claims the row; it knows of no policy.                     *)
Claim ==
    /\ row.due = 0
    /\ \/ row.status = "pending"
       \/ row.status = "failed" /\ row.attempts < row.max_attempts
    /\ row' = [row EXCEPT !.status = "dispatching"]
    /\ failure' = Null
    /\ rested' = 0
    /\ UNCHANGED <<registry, project, run, called>>

(* The policy of the attempt is that of its start.                         *)
StartRun(p) ==
    /\ run[p] = Null
    /\ row.status \in Claimable
    /\ row.due = 0
    /\ row' = [row EXCEPT !.status = "processing",
                          !.attempts = row.attempts + 1]
    /\ run' = [run EXCEPT ![p] = [policy |-> ResolvePolicy(p),
                                  attempts |-> row.attempts + 1,
                                  max_attempts |-> row.max_attempts]]
    /\ called' = [called EXCEPT
                      ![p] = @ \cup ({ResolvePolicy(p).handler} \ {Null})]
    /\ UNCHANGED <<registry, project, failure, rested>>

Succeed(p) ==
    /\ run[p] # Null
    /\ run[p].policy.handler # Null
    /\ row' = [row EXCEPT !.status = "completed"]
    /\ run' = [run EXCEPT ![p] = Null]
    /\ UNCHANGED <<registry, project, failure, rested, called>>

IsRetryable(policy, exception) ==
    /\ ~IsInstance(exception, policy.fail_fast_on)
    /\ policy.retry_on = {} \/ IsInstance(exception, policy.retry_on)

(* RetryAfter is looked at first, before the policy is.                    *)
Fatal(policy, exception) ==
    /\ ~IsInstance(exception, {"RetryAfter"})
    /\ ~IsRetryable(policy, exception)

(* Variant with a bug: the budget is read from the policy.                 *)
BudgetOfPolicy(attempt) == attempt.policy.max_attempts

Budget(attempt) == attempt.max_attempts

Dies(attempt, exception) ==
    \/ Fatal(attempt.policy, exception)
    \/ ShouldDie(attempt.attempts, Budget(attempt))

(* Variant with a bug: a handler may ask for less than the backoff.        *)
PostponedAsAsked(delay, seconds) == IF seconds > 0 THEN seconds ELSE delay

(* When to retry: not before the backoff, and not before it was asked to.  *)
Postponed(delay, seconds) == IF seconds > delay THEN seconds ELSE delay

(* An attempt of a type the process does not know fails with               *)
(* UnknownTaskTypeError and in no other way.                               *)
Raisable(policy) ==
    IF policy.handler = Null THEN {"UnknownTaskTypeError"}
    ELSE Exceptions \ {"UnknownTaskTypeError"}

Raises(p, exception, seconds) ==
    /\ run[p] # Null
    /\ exception \in Raisable(run[p].policy)
    /\ seconds # 0 => exception = "RetryAfter"
    /\ run' = [run EXCEPT ![p] = Null]
    /\ UNCHANGED <<registry, project, called>>

Fails(p, exception, seconds) ==
    /\ failure' = [exception |-> exception, seconds |-> seconds,
                   policy |-> run[p].policy, attempts |-> run[p].attempts,
                   steady |-> run[p].policy = ResolvePolicy(p)]
    /\ rested' = 0

DeadLetter(p, exception, seconds) ==
    /\ Raises(p, exception, seconds)
    /\ Fails(p, exception, seconds)
    /\ Dies(run[p], exception)
    /\ row' = [row EXCEPT !.status = "dead"]

(* A schedule in the past is due at once.                                  *)
Retry(p, exception, seconds) ==
    /\ Raises(p, exception, seconds)
    /\ Fails(p, exception, seconds)
    /\ ~Dies(run[p], exception)
    /\ \E delay \in DelayFor(run[p].policy.backoff, run[p].attempts) :
          row' = [row EXCEPT !.status = "failed",
                             !.due = AtLeast(0, Postponed(delay, seconds))]

(* The backoff itself raises while the failure is handled: nothing of it   *)
(* is written, and the row is left to the sweep.                           *)
BackoffRaises(p, exception, seconds) ==
    /\ Raises(p, exception, seconds)
    /\ ~Dies(run[p], exception)
    /\ DelayFor(run[p].policy.backoff, run[p].attempts) = {}
    /\ UNCHANGED <<row, failure, rested>>

(* A process is replaced by one that has declared nothing yet.             *)
Restart(p) ==
    /\ registry' = [registry EXCEPT ![p] = Null]
    /\ project' = [project EXCEPT ![p] = Untouched]
    /\ run' = [run EXCEPT ![p] = Null]
    /\ called' = [called EXCEPT ![p] = {}]
    /\ UNCHANGED <<row, failure, rested>>

(* Variant with a bug: a stuck row starts over, budget or not.             *)
SweepStuckAnyway ==
    /\ row.status = "processing"
    /\ \A p \in Processes : run[p] = Null
    /\ row' = [row EXCEPT !.status = "pending"]
    /\ UNCHANGED <<registry, project, run, failure, rested, called>>

(* sweep_stuck, of an attempt that nobody is making any more.              *)
SweepStuck ==
    /\ row.status = "processing"
    /\ \A p \in Processes : run[p] = Null
    /\ row' = [row EXCEPT
                   !.status = IF ShouldDie(row.attempts, row.max_attempts)
                              THEN "dead" ELSE "pending"]
    /\ UNCHANGED <<registry, project, run, failure, rested, called>>

Tick ==
    /\ row.due > 0
    /\ row' = [row EXCEPT !.due = row.due - 1]
    /\ rested' = rested + 1
    /\ UNCHANGED <<registry, project, run, failure, called>>

Declare(p) ==
    \/ \E handler \in Handlers, hints \in Hints :
          \/ Task(p, handler, hints)
          \/ Register(p, Declared(handler, hints))
          \/ Rebind(p, Declared(handler, hints))
    \/ Rebind(p, Null)
    \/ \E layer \in ProjectLayers \cup {Untouched} : Configure(p, layer)

Fail(p) ==
    \E exception \in Exceptions, seconds \in Asked \cup {0} :
        \/ DeadLetter(p, exception, seconds)
        \/ Retry(p, exception, seconds)
        \/ BackoffRaises(p, exception, seconds)

Next ==
    \/ \E p \in Processes :
          \/ Declare(p)
          \/ \E budget \in Budgets \cup {Null} : CreateTask(p, budget)
          \/ StartRun(p)
          \/ Succeed(p)
          \/ Fail(p)
          \/ Restart(p)
    \/ Claim
    \/ SweepStuck
    \/ Tick

Spec == Init /\ [][Next]_vars

-----------------------------------------------------------------------------
(* Properties.                                                             *)

(* The budget the row was created with is the one that counts, whatever    *)
(* the policies of those who run it say: it is not exceeded, except that   *)
(* an unchecked budget below one is good for one attempt, and a task that  *)
(* may be retried is retried until it is spent.                            *)
BudgetIsStamped ==
    /\ row.attempts <= AtLeast(1, row.max_attempts)
    /\ row.status = "dead" /\ row.attempts < row.max_attempts =>
           ~IsRetryable(failure.policy, failure.exception)

(* A failed attempt is not repeated before RetryAfter asked for, nor       *)
(* before the backoff of its policy: a handler can only ask for later.     *)
(* Which backoff counts when the policy changed during the attempt is left *)
(* to BackoffReadAtFailure.                                                *)
RestsAsAsked ==
    [][row.status = "failed" /\ row'.status # "failed" =>
           /\ rested >= failure.seconds
           /\ failure.steady =>
                  \E delay \in DelayFor(failure.policy.backoff,
                                        failure.attempts) :
                      rested >= delay]_vars

(* One process never runs two handlers for a task type, in whatever order  *)
(* modules are imported and policies configured, unless told to.           *)
SameHandler == \A p \in Processes : Cardinality(called[p]) <= 1

(* What the repository says of NonRetryableError: dead-lettered at once,   *)
(* no matter how many attempts remain.                                     *)
NonRetryableIsDead ==
    failure # Null /\ failure.exception = "NonRetryableError" =>
        row.status = "dead"

(* Under which condition this one is kept: layers extend what fails fast   *)
(* and do not drop NonRetryableError from it.                              *)
FailsFast(policy) == IsInstance("NonRetryableError", policy.fail_fast_on)

FailFastIsExtended ==
    \A layer \in Hints \cup ProjectLayers :
        layer.fail_fast_on # Null => FailsFast(layer)

(* What the repository says of a type the worker does not know: unless a   *)
(* policy asks for it to fail fast, the task only dead-letters once its    *)
(* budget is spent (docs/concepts.md).                                     *)
UnknownTypeIsPatient ==
    /\ row.status = "dead"
    /\ failure # Null /\ failure.exception = "UnknownTaskTypeError"
    /\ ~IsInstance("UnknownTaskTypeError", failure.policy.fail_fast_on)
    => row.attempts >= row.max_attempts

(* What the repository says of backoff: it is read at failure time, so that*)
(* a timing change takes effect immediately (docs/concepts.md).            *)
BackoffReadAtFailure ==
    [][\A p \in Processes :
          run[p] # Null /\ row.status = "processing" /\ row'.status = "failed" =>
              \E delay \in DelayFor(ResolvePolicy(p).backoff, row.attempts) :
                  row'.due = AtLeast(0, Postponed(delay, failure'.seconds))]_vars

(* The abstract specification of a task, of the one row.                   *)
Lifecycle == INSTANCE TaskLifecycle WITH
    Tasks <- {"task"},
    Budgets <- Int,
    status <- [t \in {"task"} |-> row.status],
    attempts <- [t \in {"task"} |-> row.attempts],
    max_attempts <- [t \in {"task"} |-> row.max_attempts],
    late <- [t \in {"task"} |-> FALSE]

(* Whatever policies say and however they differ between the processes     *)
(* that create, run and recover a task, its row follows the state machine  *)
(* of core/states.py and its attempts are those of its budget.             *)
LifecycleImplemented == Lifecycle!Spec
=============================================================================
