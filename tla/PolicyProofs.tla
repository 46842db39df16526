---------------------------- MODULE PolicyProofs ----------------------------
(***************************************************************************)
(* The invariants and the action property of Policy, for any set of        *)
(* processes, handlers, policies, budgets and requested delays.            *)
(***************************************************************************)
EXTENDS Policy, FiniteSetTheorems, TLAPS

-----------------------------------------------------------------------------
(* Delays.                                                                 *)

(* An exponential backoff stays within its cap, whatever its base, factor  *)
(* and jitter are and however many attempts have failed.                   *)
THEOREM ExponentialCapped ==
    ASSUME NEW b \in Exponentials, NEW attempt \in Nat,
           NEW delay \in Exponential(b, attempt)
    PROVE  delay \in 0..b.cap
<1> DEFINE jittered == Jittered(AtMost(b.base * b.factor ^ AtLeast(0, attempt - 1), b.cap), b.jitter)
<1>1. PICK s \in jittered : delay = AtLeast(0, AtMost(s, b.cap))
  BY DEF Exponential
<1>2. s \in Int
  BY DEF Jittered
<1>3. b.cap \in Nat
  BY DEF Exponentials
<1> QED
  BY <1>1, <1>2, <1>3 DEF AtLeast, AtMost

LEMMA DelaysAreInstants ==
    ASSUME NEW b \in Backoffs, NEW attempt \in Nat
    PROVE  DelayFor(b, attempt) \subseteq Int
<1>1. CASE b \in Constants
  <2>1. b.kind = "constant"
    BY <1>1 DEF Constants
  <2>2. \A s \in Jittered(b.seconds, b.jitter) : s \in Int
    BY DEF Jittered
  <2> QED
    BY <2>1, <2>2 DEF DelayFor, Constant, AtLeast
<1>2. CASE b \in Exponentials
  <2>1. b.kind = "exponential"
    BY <1>2 DEF Exponentials
  <2>2. \A delay \in Exponential(b, attempt) : delay \in 0..b.cap
    BY <1>2, ExponentialCapped
  <2> QED
    BY <2>1, <2>2 DEF DelayFor
<1>3. CASE b \in Customs
  BY <1>3 DEF Customs, DelayFor
<1> QED
  BY <1>1, <1>2, <1>3 DEF Backoffs

-----------------------------------------------------------------------------
(* Layers.                                                                 *)

LEMMA OverriddenType ==
    ASSUME NEW policy \in TaskPolicy, NEW layer \in Layer
    PROVE  /\ Overridden(policy, layer) \in TaskPolicy
           /\ layer.handler = Null =>
                  Overridden(policy, layer).handler = policy.handler
<1>1. Over(layer.handler, policy.handler) \in Handlers \cup {Null}
  BY DEF Over, Layer, TaskPolicy
<1>2. Over(layer.max_attempts, policy.max_attempts) \in Int
  BY DEF Over, Layer, TaskPolicy
<1>3. Over(layer.backoff, policy.backoff) \in Backoffs
  BY DEF Over, Layer, TaskPolicy
<1>4. Over(layer.retry_on, policy.retry_on) \in SUBSET Classes
  BY DEF Over, Layer, TaskPolicy
<1>5. Over(layer.fail_fast_on, policy.fail_fast_on) \in SUBSET Classes
  BY DEF Over, Layer, TaskPolicy
<1>6. layer.handler = Null => Over(layer.handler, policy.handler) = policy.handler
  BY DEF Over
<1> QED
  BY <1>1, <1>2, <1>3, <1>4, <1>5, <1>6 DEF Overridden, TaskPolicy

LEMMA UntouchedValid == Untouched \in ValidLayer
BY DEF Untouched, ValidLayer

(* What _validate lets through leaves the handler alone and the budget     *)
(* positive.                                                               *)
LEMMA ValidatedLayer ==
    ASSUME NEW layer \in Layer, Valid(layer)
    PROVE  layer \in ValidLayer
<1>1. layer.max_attempts \in {Null} \cup (Nat \ {0})
  BY DEF Valid, Layer
<1> QED
  BY <1>1 DEF Valid, Layer, ValidLayer

LEMMA ValidLayersAreLayers ==
    ASSUME NEW layer \in ValidLayer
    PROVE  layer \in Layer /\ layer.handler = Null
BY DEF ValidLayer, Layer

LEMMA DeclaredType ==
    ASSUME NEW handler \in Handlers, NEW hints \in Hints
    PROVE  /\ Declared(handler, hints) \in TaskPolicy
           /\ Declared(handler, hints).handler = handler
<1>1. Overridden(Defaults, hints) \in TaskPolicy
  BY PolicyAssumption, OverriddenType
<1> QED
  BY <1>1 DEF Declared, TaskPolicy

(* What a worker goes by is a policy, with the handler of its registry.    *)
LEMMA ResolvedType ==
    ASSUME TypeOK, NEW p \in Processes
    PROVE  /\ ResolvePolicy(p) \in TaskPolicy
           /\ registry[p] = Null => ResolvePolicy(p).handler = Null
           /\ registry[p] # Null =>
                  ResolvePolicy(p).handler = registry[p].handler
<1>1. Over(registry[p], Defaults) \in TaskPolicy
  BY PolicyAssumption DEF TypeOK, Over
<1>2. project[p] \in Layer /\ project[p].handler = Null
  BY ValidLayersAreLayers DEF TypeOK
<1>3. /\ ResolvePolicy(p) \in TaskPolicy
      /\ ResolvePolicy(p).handler = Over(registry[p], Defaults).handler
  BY <1>1, <1>2, OverriddenType DEF ResolvePolicy
<1>4. Defaults.handler = Null
  BY PolicyAssumption
<1> QED
  BY <1>3, <1>4 DEF Over

-----------------------------------------------------------------------------
(* Types.                                                                  *)

LEMMA TypeInit == Init => TypeOK
<1> SUFFICES ASSUME Init PROVE TypeOK
  OBVIOUS
<1>1. row \in Row
  BY DEF Init, Row, Status
<1>2. project \in [Processes -> ValidLayer]
  BY UntouchedValid DEF Init
<1> QED
  BY <1>1, <1>2 DEF Init, TypeOK, TypeOK

LEMMA TypeNext ==
    ASSUME TypeOK, [Next]_vars
    PROVE  TypeOK'
<1>1. ASSUME NEW p \in Processes, Declare(p) PROVE TypeOK'
  <2>1. ASSUME NEW handler \in Handlers, NEW hints \in Hints,
               Register(p, Declared(handler, hints))
        PROVE  TypeOK'
    <3>1. Declared(handler, hints) \in TaskPolicy
      BY DeclaredType
    <3> QED
      BY <2>1, <3>1 DEF Register, ExecutionUntouched, TypeOK
  <2>2. ASSUME NEW policy \in {Null} \cup TaskPolicy, Rebind(p, policy)
        PROVE  TypeOK'
    BY <2>2 DEF Rebind, ExecutionUntouched, TypeOK
  <2>3. ASSUME NEW handler \in Handlers, NEW hints \in Hints,
               Rebind(p, Declared(handler, hints))
        PROVE  TypeOK'
    BY <2>2, <2>3, DeclaredType
  <2>4. ASSUME NEW layer \in ProjectLayers \cup {Untouched},
               Configure(p, layer)
        PROVE  TypeOK'
    <3>1. layer \in ValidLayer
      BY <2>4, UntouchedValid, ValidatedLayer, PolicyAssumption DEF Configure
    <3> QED
      BY <2>4, <3>1 DEF Configure, ExecutionUntouched, TypeOK
  <2> QED
    BY <1>1, <2>1, <2>2, <2>3, <2>4 DEF Declare, Task
<1>2. ASSUME NEW p \in Processes, NEW budget \in Budgets \cup {Null},
             CreateTask(p, budget)
      PROVE  TypeOK'
  <2>1. ResolvePolicy(p).max_attempts \in Int
    BY ResolvedType DEF TaskPolicy
  <2>2. Over(budget, ResolvePolicy(p).max_attempts) \in Int
    BY <2>1, PolicyAssumption DEF Over
  <2>3. row' \in Row
    BY <1>2, <2>2 DEF CreateTask, TypeOK, Row, Status
  <2> QED
    BY <1>2, <2>3 DEF CreateTask, TypeOK
<1>3. ASSUME NEW p \in Processes, StartRun(p) PROVE TypeOK'
  <2>1. /\ row.attempts \in Nat /\ row.attempts + 1 \in Nat
        /\ row.max_attempts \in Int
    BY DEF TypeOK, Row
  <2>2. row' \in Row
    BY <1>3, <2>1 DEF StartRun, TypeOK, Row, Status
  <2>3. ResolvePolicy(p) \in TaskPolicy
    BY ResolvedType
  <2>4. [policy |-> ResolvePolicy(p), attempts |-> row.attempts + 1,
         max_attempts |-> row.max_attempts] \in Run
    BY <2>1, <2>3 DEF Run
  <2>5. run' \in [Processes -> {Null} \cup Run]
    BY <1>3, <2>4 DEF StartRun, TypeOK
  <2>6. {ResolvePolicy(p).handler} \ {Null} \in SUBSET Handlers
    BY <2>3 DEF TaskPolicy
  <2>7. called' \in [Processes -> SUBSET Handlers]
    BY <1>3, <2>6 DEF StartRun, TypeOK
  <2> QED
    BY <1>3, <2>2, <2>5, <2>7 DEF StartRun, TypeOK
<1>4. ASSUME NEW p \in Processes, Succeed(p) PROVE TypeOK'
  BY <1>4 DEF Succeed, TypeOK, Row, Status
<1>5. ASSUME NEW p \in Processes, NEW exception \in Exceptions,
             NEW seconds \in Asked \cup {0}
      PROVE  /\ DeadLetter(p, exception, seconds) => TypeOK'
             /\ Retry(p, exception, seconds) => TypeOK'
             /\ BackoffRaises(p, exception, seconds) => TypeOK'
  <2>1. seconds \in Nat
    <3>1. Asked \subseteq Nat
      BY PolicyAssumption
    <3> QED
      BY <3>1
  <2>2. ASSUME Raises(p, exception, seconds)
        PROVE  /\ run[p] \in Run
               /\ run' \in [Processes -> {Null} \cup Run]
               /\ registry' \in [Processes -> {Null} \cup TaskPolicy]
               /\ project' \in [Processes -> ValidLayer]
               /\ called' \in [Processes -> SUBSET Handlers]
    BY <2>2 DEF Raises, TypeOK
  <2>3. ASSUME Raises(p, exception, seconds), Fails(p, exception, seconds)
        PROVE  failure' \in {Null} \cup Failure /\ rested' \in Nat
    BY <2>1, <2>2, <2>3 DEF Fails, Run, Failure
  <2>4. ASSUME DeadLetter(p, exception, seconds) PROVE row' \in Row
    BY <2>4 DEF DeadLetter, TypeOK, Row, Status
  <2>5. ASSUME Retry(p, exception, seconds) PROVE row' \in Row
    <3>1. run[p].policy.backoff \in Backoffs /\ run[p].attempts \in Nat
      BY <2>2, <2>5 DEF Retry, Run, TaskPolicy
    <3>2. PICK delay \in DelayFor(run[p].policy.backoff, run[p].attempts) :
             row' = [row EXCEPT !.status = "failed",
                                !.due = AtLeast(0, Postponed(delay, seconds))]
      BY <2>5 DEF Retry
    <3>3. delay \in Int
      BY <3>1, DelaysAreInstants
    <3>4. AtLeast(0, Postponed(delay, seconds)) \in Nat
      BY <2>1, <3>3 DEF AtLeast, Postponed
    <3> QED
      BY <3>2, <3>4 DEF TypeOK, Row, Status
  <2>6. DeadLetter(p, exception, seconds) => TypeOK'
    BY <2>2, <2>3, <2>4 DEF DeadLetter, TypeOK
  <2>7. Retry(p, exception, seconds) => TypeOK'
    BY <2>2, <2>3, <2>5 DEF Retry, TypeOK
  <2>8. BackoffRaises(p, exception, seconds) => TypeOK'
    BY <2>2 DEF BackoffRaises, TypeOK
  <2> QED
    BY <2>6, <2>7, <2>8
<1>6. ASSUME NEW p \in Processes, Restart(p) PROVE TypeOK'
  <2>1. project' \in [Processes -> ValidLayer]
    BY <1>6, UntouchedValid DEF Restart, TypeOK
  <2> QED
    BY <1>6, <2>1 DEF Restart, TypeOK
<1>7. CASE Claim
  BY <1>7 DEF Claim, TypeOK, Row, Status
<1>8. CASE SweepStuck
  BY <1>8 DEF SweepStuck, TypeOK, Row, Status
<1>9. CASE Tick
  <2>1. row.due \in Nat /\ rested \in Nat
    BY DEF TypeOK, Row
  <2>2. row.due - 1 \in Nat /\ rested + 1 \in Nat
    BY <1>9, <2>1 DEF Tick
  <2>3. row' \in Row
    BY <1>9, <2>2 DEF Tick, TypeOK, Row
  <2> QED
    BY <1>9, <2>2, <2>3 DEF Tick, TypeOK
<1>10. CASE UNCHANGED vars
  BY <1>10 DEF vars, TypeOK
<1> QED
  BY <1>1, <1>2, <1>3, <1>4, <1>5, <1>6, <1>7, <1>8, <1>9, <1>10
  DEF Next, Fail

(* Whatever is declared, registered by hand, configured, created and       *)
(* raised, the layers of the project in force are those _validate admits,  *)
(* and what a worker goes by is a policy.                                  *)
THEOREM PolicyTypeCorrect == Spec => []TypeOK
BY TypeInit, TypeNext, PTL DEF Spec

-----------------------------------------------------------------------------
(* The row, its attempts and what they come to.                            *)

(* The one attempt under way is of the row.                                *)
RunInv ==
    \A p \in Processes : run[p] # Null =>
        /\ row.status = "processing"
        /\ run[p].attempts = row.attempts
        /\ run[p].max_attempts = row.max_attempts
        /\ \A q \in Processes : run[q] # Null => q = p

(* A row that may still be run has an attempt left, or has had none.       *)
BudgetInv ==
    /\ row.status = "absent" => row.attempts = 0
    /\ row.status \in {"pending", "dispatching"} =>
           row.attempts = 0 \/ row.attempts < row.max_attempts
    /\ row.attempts <= 1 \/ row.attempts <= row.max_attempts

(* What is still to be waited and what has been come up to what is owed.   *)
RestInv ==
    row.status = "failed" =>
        /\ row.attempts < row.max_attempts
        /\ row.due + rested >= failure.seconds
        /\ \E delay \in DelayFor(failure.policy.backoff, failure.attempts) :
              row.due + rested >= delay

DeadInv ==
    row.status = "dead" /\ row.attempts < row.max_attempts =>
        /\ failure.exception \in Exceptions
        /\ Fatal(failure.policy, failure.exception)

ExecutionInv == RunInv /\ BudgetInv /\ RestInv /\ DeadInv

LEMMA ExecutionInit == Init => ExecutionInv
BY DEF Init, ExecutionInv, RunInv, BudgetInv, RestInv, DeadInv

(* An attempt that ends leaves none under way.                             *)
LEMMA RunEnds ==
    ASSUME TypeOK, RunInv, NEW p \in Processes, run[p] # Null,
           run' = [run EXCEPT ![p] = Null]
    PROVE  RunInv'
<1>1. run \in [Processes -> {Null} \cup Run]
  BY DEF TypeOK
<1>2. \A q \in Processes : run'[q] = Null
  BY <1>1 DEF RunInv
<1> QED
  BY <1>2 DEF RunInv

(* What is waited is at least the backoff and what was asked for.          *)
LEMMA PostponedEnough ==
    ASSUME NEW delay \in Int, NEW seconds \in Nat
    PROVE  /\ AtLeast(0, Postponed(delay, seconds)) + 0 >= seconds
           /\ AtLeast(0, Postponed(delay, seconds)) + 0 >= delay
BY DEF AtLeast, Postponed

LEMMA ExecutionNext ==
    ASSUME TypeOK, ExecutionInv, [Next]_vars
    PROVE  ExecutionInv'
<1> USE DEF ExecutionInv
<1>t. /\ row \in Row /\ rested \in Nat
      /\ run \in [Processes -> {Null} \cup Run]
      /\ failure \in {Null} \cup Failure
  BY DEF TypeOK
<1>r. /\ row.attempts \in Nat /\ row.max_attempts \in Int
      /\ row.due \in Nat
  BY <1>t DEF Row
<1>1. ASSUME ExecutionUntouched PROVE ExecutionInv'
  BY <1>1 DEF ExecutionUntouched, RunInv, BudgetInv, RestInv, DeadInv
<1>2. ASSUME NEW p \in Processes, NEW budget \in Budgets \cup {Null},
             CreateTask(p, budget)
      PROVE  ExecutionInv'
  <2>1. /\ row.status = "absent" /\ row'.status = "pending"
        /\ row'.attempts = row.attempts
        /\ UNCHANGED run
    BY <1>2, <1>t DEF CreateTask, Row
  <2>2. row'.attempts = 0
    BY <2>1 DEF BudgetInv
  <2> QED
    BY <2>1, <2>2 DEF RunInv, BudgetInv, RestInv, DeadInv
<1>3. ASSUME NEW p \in Processes, StartRun(p) PROVE ExecutionInv'
  <2>1. /\ row.status \in {"pending", "dispatching"}
        /\ row'.status = "processing"
        /\ row'.attempts = row.attempts + 1
        /\ row'.max_attempts = row.max_attempts
    BY <1>3, <1>t DEF StartRun, Claimable, Row
  <2>2. \A q \in Processes : run[q] = Null
    BY <2>1 DEF RunInv
  <2>3. RunInv'
    BY <1>3, <1>t, <2>1, <2>2 DEF StartRun, RunInv
  <2>4. row.attempts = 0 \/ row.attempts < row.max_attempts
    BY <2>1 DEF BudgetInv
  <2>5. row.attempts + 1 <= 1 \/ row.attempts + 1 <= row.max_attempts
    BY <1>r, <2>4
  <2>6. BudgetInv'
    BY <2>1, <2>5 DEF BudgetInv
  <2> QED
    BY <2>1, <2>3, <2>6 DEF RestInv, DeadInv
<1>4. ASSUME NEW p \in Processes, Succeed(p) PROVE ExecutionInv'
  <2>1. /\ row'.status = "completed"
        /\ row'.attempts = row.attempts
        /\ row'.max_attempts = row.max_attempts
    BY <1>4, <1>t DEF Succeed, Row
  <2>2. RunInv'
    BY <1>4, RunEnds DEF Succeed
  <2> QED
    BY <2>1, <2>2 DEF BudgetInv, RestInv, DeadInv
<1>5. ASSUME NEW p \in Processes, NEW exception \in Exceptions,
             NEW seconds \in Asked \cup {0},
             Raises(p, exception, seconds)
      PROVE  /\ DeadLetter(p, exception, seconds) => ExecutionInv'
             /\ Retry(p, exception, seconds) => ExecutionInv'
             /\ BackoffRaises(p, exception, seconds) => ExecutionInv'
  <2>1. /\ run[p] # Null /\ run[p] \in Run
        /\ RunInv'
    BY <1>5, <1>t, RunEnds DEF Raises
  <2>2. /\ row.status = "processing"
        /\ run[p].attempts = row.attempts
        /\ run[p].max_attempts = row.max_attempts
    BY <2>1 DEF RunInv
  <2>3. ASSUME Fails(p, exception, seconds)
        PROVE  /\ failure'.exception = exception
               /\ failure'.seconds = seconds
               /\ failure'.policy = run[p].policy
               /\ failure'.attempts = run[p].attempts
               /\ rested' = 0
    BY <2>3 DEF Fails
  <2>5. ASSUME DeadLetter(p, exception, seconds) PROVE ExecutionInv'
    <3>1. /\ row'.status = "dead"
          /\ row'.attempts = row.attempts
          /\ row'.max_attempts = row.max_attempts
      BY <2>5, <1>t DEF DeadLetter, Row
    <3>2. row.attempts < row.max_attempts =>
              Fatal(run[p].policy, exception)
      BY <2>2, <2>5, <1>r DEF DeadLetter, Dies, ShouldDie, Budget
    <3>3. DeadInv'
      BY <2>3, <2>5, <3>1, <3>2 DEF DeadLetter, DeadInv, Fatal
    <3> QED
      BY <2>1, <3>1, <3>3 DEF BudgetInv, RestInv
  <2>6. ASSUME Retry(p, exception, seconds) PROVE ExecutionInv'
    <3>1. PICK delay \in DelayFor(run[p].policy.backoff, run[p].attempts) :
             row' = [row EXCEPT !.status = "failed",
                                !.due = AtLeast(0, Postponed(delay, seconds))]
      BY <2>6 DEF Retry
    <3>2. /\ row'.status = "failed"
          /\ row'.attempts = row.attempts
          /\ row'.max_attempts = row.max_attempts
          /\ row'.due = AtLeast(0, Postponed(delay, seconds))
      BY <3>1, <1>t DEF Row
    <3>3. row.attempts < row.max_attempts
      BY <2>2, <2>6, <1>r DEF Retry, Dies, ShouldDie, Budget
    <3>4. delay \in Int /\ seconds \in Nat
      <4>1. run[p].policy.backoff \in Backoffs /\ run[p].attempts \in Nat
        BY <2>1 DEF Run, TaskPolicy
      <4>2. Asked \subseteq Nat
        BY PolicyAssumption
      <4> QED
        BY <4>1, <4>2, DelaysAreInstants
    <3>5. row'.due + rested' >= seconds /\ row'.due + rested' >= delay
      <4>1. rested' = 0
        BY <2>3, <2>6 DEF Retry
      <4> QED
        BY <3>2, <3>4, <4>1, PostponedEnough
    <3>6. RestInv'
      BY <2>3, <2>6, <3>2, <3>3, <3>5 DEF Retry, RestInv
    <3> QED
      BY <2>1, <3>2, <3>6 DEF BudgetInv, DeadInv
  <2>7. ASSUME BackoffRaises(p, exception, seconds) PROVE ExecutionInv'
    BY <2>1, <2>7 DEF BackoffRaises, BudgetInv, RestInv, DeadInv
  <2> QED
    BY <2>5, <2>6, <2>7
<1>6. ASSUME NEW p \in Processes, Restart(p) PROVE ExecutionInv'
  <2>1. RunInv'
    BY <1>6, <1>t DEF Restart, RunInv
  <2> QED
    BY <1>6, <2>1 DEF Restart, BudgetInv, RestInv, DeadInv
<1>7. CASE Claim
  <2>1. /\ row.status \in {"pending", "failed"}
        /\ row.status = "failed" => row.attempts < row.max_attempts
        /\ row'.status = "dispatching"
        /\ row'.attempts = row.attempts
        /\ row'.max_attempts = row.max_attempts
        /\ run' = run
    BY <1>7, <1>t DEF Claim, Row
  <2> QED
    BY <2>1 DEF RunInv, BudgetInv, RestInv, DeadInv
<1>8. CASE SweepStuck
  <2>1. /\ row.status = "processing"
        /\ \A q \in Processes : run'[q] = Null
        /\ row'.attempts = row.attempts
        /\ row'.max_attempts = row.max_attempts
        /\ row'.status = IF row.attempts >= row.max_attempts
                         THEN "dead" ELSE "pending"
    BY <1>8, <1>t DEF SweepStuck, Row, ShouldDie
  <2>2. row.attempts >= row.max_attempts <=> ~(row.attempts < row.max_attempts)
    BY <1>r
  <2>3. CASE row.attempts >= row.max_attempts
    BY <2>1, <2>2, <2>3 DEF RunInv, BudgetInv, RestInv, DeadInv
  <2>4. CASE ~(row.attempts >= row.max_attempts)
    BY <2>1, <2>2, <2>4 DEF RunInv, BudgetInv, RestInv, DeadInv
  <2> QED
    BY <2>3, <2>4
<1>9. CASE Tick
  <2>1. /\ row'.status = row.status
        /\ row'.attempts = row.attempts
        /\ row'.max_attempts = row.max_attempts
        /\ row'.due = row.due - 1
        /\ rested' = rested + 1
        /\ run' = run /\ failure' = failure
    BY <1>9, <1>t DEF Tick, Row
  <2>2. (row.due - 1) + (rested + 1) = row.due + rested
    BY <1>r, <1>t
  <2>3. row'.due + rested' = row.due + rested
    BY <2>1, <2>2
  <2>4. RestInv'
    BY <2>1, <2>3 DEF RestInv
  <2> QED
    BY <2>1, <2>4 DEF RunInv, BudgetInv, DeadInv
<1>10. CASE UNCHANGED vars
  BY <1>1, <1>10 DEF vars, ExecutionUntouched
<1>11. ASSUME NEW p \in Processes, Declare(p) PROVE ExecutionUntouched
  BY <1>11 DEF Declare, Task, Register, Rebind, Configure
<1>12. ASSUME NEW p \in Processes, Fail(p) PROVE ExecutionInv'
  BY <1>5, <1>12 DEF Fail, DeadLetter, Retry, BackoffRaises
<1> QED
  BY <1>1, <1>2, <1>3, <1>4, <1>6, <1>7, <1>8, <1>9, <1>10, <1>11, <1>12
  DEF Next

LEMMA ExecutionAlways == Spec => []ExecutionInv
<1>1. ExecutionInv /\ TypeOK /\ [Next]_vars => ExecutionInv'
  BY ExecutionNext
<1> QED
  BY ExecutionInit, PolicyTypeCorrect, <1>1, PTL DEF Spec

(* However the policies of producers and workers differ and change, the    *)
(* budget stamped on the row is spent, and not exceeded.                   *)
THEOREM BudgetStampedCorrect == Spec => []BudgetIsStamped
<1>1. TypeOK /\ ExecutionInv => BudgetIsStamped
  <2> SUFFICES ASSUME TypeOK, ExecutionInv PROVE BudgetIsStamped
    OBVIOUS
  <2>1. row.attempts \in Nat /\ row.max_attempts \in Int
    BY DEF TypeOK, Row
  <2>2. row.attempts <= AtLeast(1, row.max_attempts)
    BY <2>1 DEF ExecutionInv, BudgetInv, AtLeast
  <2> QED
    BY <2>2 DEF ExecutionInv, DeadInv, Fatal, BudgetIsStamped
<1> QED
  BY <1>1, PolicyTypeCorrect, ExecutionAlways, PTL

(* No attempt is repeated before what RetryAfter asked for, and before the *)
(* backoff of the policy it was made under, for every backoff there may be.*)
THEOREM RestCorrect == Spec => RestsAsAsked
<1> DEFINE Rested == row.status = "failed" /\ row'.status # "failed" =>
           /\ rested >= failure.seconds
           /\ failure.steady =>
                  \E delay \in DelayFor(failure.policy.backoff,
                                        failure.attempts) :
                      rested >= delay
<1>1. ASSUME TypeOK, ExecutionInv, [Next]_vars PROVE Rested
  <2> SUFFICES ASSUME row.status = "failed", row'.status # "failed"
               PROVE  Rested
    OBVIOUS
  <2>1. row \in Row /\ rested \in Nat
    BY <1>1 DEF TypeOK
  <2>2. \A p \in Processes : run[p] = Null
    BY <1>1 DEF ExecutionInv, RunInv
  <2>3. Claim
    BY <1>1, <2>1, <2>2 DEF Next, Declare, Task, Register, Rebind, Configure,
       ExecutionUntouched, CreateTask, StartRun, Claimable, Succeed, Fail,
       DeadLetter, Retry, BackoffRaises, Raises, Restart, SweepStuck, Tick,
       Row, vars
  <2>4. row.due + rested = rested
    BY <2>1, <2>3 DEF Claim
  <2> QED
    BY <1>1, <2>4 DEF ExecutionInv, RestInv
<1> QED
  BY <1>1, PolicyTypeCorrect, ExecutionAlways, PTL DEF Spec, RestsAsAsked

-----------------------------------------------------------------------------
(* Handlers.                                                               *)

(* What a process has run is what it has registered.                       *)
CalledInv ==
    \A p \in Processes :
        called[p] # {} => /\ registry[p] # Null
                          /\ called[p] = {registry[p].handler}

LEMMA CalledNext ==
    ASSUME TypeOK, CalledInv, [Next]_vars
    PROVE  CalledInv'
<1>t. /\ called \in [Processes -> SUBSET Handlers]
      /\ registry \in [Processes -> {Null} \cup TaskPolicy]
  BY DEF TypeOK
<1>1. CASE UNCHANGED <<registry, called>>
  BY <1>1 DEF CalledInv
<1>2. ASSUME NEW p \in Processes, NEW handler \in Handlers,
             NEW hints \in Hints, Register(p, Declared(handler, hints))
      PROVE  CalledInv'
  <2>1. /\ registry' = [registry EXCEPT ![p] = Declared(handler, hints)]
        /\ called' = called
        /\ registry[p] = Null \/ registry[p] = Declared(handler, hints)
    BY <1>2 DEF Register, MayRegister
  <2>2. CASE registry[p] = Declared(handler, hints)
    BY <1>t, <2>1, <2>2 DEF CalledInv
  <2>3. CASE registry[p] = Null
    BY <1>t, <2>1, <2>3 DEF CalledInv
  <2> QED
    BY <2>1, <2>2, <2>3
<1>3. ASSUME NEW p \in Processes, NEW policy, Rebind(p, policy)
      PROVE  CalledInv'
  BY <1>3, <1>t DEF Rebind, CalledInv
<1>4. ASSUME NEW p \in Processes, StartRun(p) PROVE CalledInv'
  <2> DEFINE handler == ResolvePolicy(p).handler
  <2>1. /\ called' = [called EXCEPT ![p] = @ \cup ({handler} \ {Null})]
        /\ registry' = registry
    BY <1>4 DEF StartRun
  <2>2. registry[p] = Null => handler = Null
    BY ResolvedType
  <2>3. registry[p] # Null => handler = registry[p].handler
    BY ResolvedType
  <2> HIDE DEF handler
  <2>4. /\ called'[p] = called[p] \cup ({handler} \ {Null})
        /\ \A q \in Processes : q # p => called'[q] = called[q]
    BY <1>t, <2>1
  <2>5. called[p] = {} \/ called[p] = {registry[p].handler}
    BY DEF CalledInv
  <2>6. called'[p] # {} => /\ registry[p] # Null
                           /\ called'[p] = {registry[p].handler}
    BY <2>2, <2>3, <2>4, <2>5 DEF CalledInv
  <2> QED
    BY <2>1, <2>4, <2>6 DEF CalledInv
<1>5. ASSUME NEW p \in Processes, Restart(p) PROVE CalledInv'
  BY <1>5, <1>t DEF Restart, CalledInv
<1>6. ASSUME NEW p \in Processes, Declare(p) PROVE CalledInv'
  BY <1>1, <1>2, <1>3, <1>6 DEF Declare, Task, Configure
<1>7. ASSUME NEW p \in Processes, Fail(p)
      PROVE  UNCHANGED <<registry, called>>
  BY <1>7 DEF Fail, DeadLetter, Retry, BackoffRaises, Raises
<1> QED
  BY <1>1, <1>4, <1>5, <1>6, <1>7
  DEF Next, CreateTask, Succeed, Claim, SweepStuck, Tick, vars

(* Declared in any order, from any number of modules, a task type keeps    *)
(* one handler in a process until it is rebound on purpose.                *)
THEOREM SameHandlerCorrect == Spec => []SameHandler
<1>1. Init => CalledInv
  BY DEF Init, CalledInv
<1>2. CalledInv /\ TypeOK /\ [Next]_vars => CalledInv'
  BY CalledNext
<1>3. TypeOK /\ CalledInv => SameHandler
  <2> SUFFICES ASSUME CalledInv, NEW p \in Processes
               PROVE  Cardinality(called[p]) <= 1
    BY DEF SameHandler
  <2>1. CASE called[p] = {}
    BY <2>1, FS_EmptySet
  <2>2. CASE called[p] # {}
    <3>1. called[p] = {registry[p].handler}
      BY <2>2 DEF CalledInv
    <3>2. Cardinality({registry[p].handler}) = 1
      BY FS_Singleton
    <3> QED
      BY <3>1, <3>2
  <2> QED
    BY <2>1, <2>2
<1> QED
  BY <1>1, <1>2, <1>3, PolicyTypeCorrect, PTL DEF Spec

-----------------------------------------------------------------------------
(* NonRetryableError.                                                      *)

(* Every policy in force catches it, and so does every layer.              *)
FastInv ==
    /\ \A p \in Processes :
          /\ project[p].fail_fast_on # Null => FailsFast(project[p])
          /\ registry[p] # Null => FailsFast(registry[p])
          /\ run[p] # Null => FailsFast(run[p].policy)
    /\ NonRetryableIsDead

LEMMA OverriddenFailsFast ==
    ASSUME NEW policy, FailsFast(policy),
           NEW layer, layer.fail_fast_on # Null => FailsFast(layer)
    PROVE  FailsFast(Overridden(policy, layer))
BY DEF FailsFast, Overridden, Over

LEMMA DefaultsFailFast == FailsFast(Defaults)
BY PolicyAssumption DEF FailsFast, IsInstance, Ancestors

LEMMA DeclaredFailsFast ==
    ASSUME FailFastIsExtended, NEW handler, NEW hints \in Hints
    PROVE  FailsFast(Declared(handler, hints))
<1>1. FailsFast(Overridden(Defaults, hints))
  BY DefaultsFailFast, OverriddenFailsFast DEF FailFastIsExtended
<1> QED
  BY <1>1 DEF Declared, FailsFast, Overridden

LEMMA ResolvedFailsFast ==
    ASSUME FastInv, NEW p \in Processes
    PROVE  FailsFast(ResolvePolicy(p))
<1>1. FailsFast(Over(registry[p], Defaults))
  BY DefaultsFailFast DEF FastInv, Over
<1> QED
  BY <1>1, OverriddenFailsFast DEF FastInv, ResolvePolicy

LEMMA FastNext ==
    ASSUME FailFastIsExtended, TypeOK, ExecutionInv, FastInv, [Next]_vars
    PROVE  FastInv'
<1>t. /\ row \in Row
      /\ project \in [Processes -> ValidLayer]
      /\ registry \in [Processes -> {Null} \cup TaskPolicy]
      /\ run \in [Processes -> {Null} \cup Run]
  BY DEF TypeOK
<1>1. CASE UNCHANGED vars
  BY <1>1 DEF vars, FastInv, NonRetryableIsDead, FailsFast
<1>2. ASSUME NEW p \in Processes, NEW policy,
             policy # Null => FailsFast(policy),
             registry' = [registry EXCEPT ![p] = policy],
             UNCHANGED project, ExecutionUntouched
      PROVE  FastInv'
  BY <1>t, <1>2
  DEF ExecutionUntouched, FastInv, NonRetryableIsDead, FailsFast
<1>3. ASSUME NEW p \in Processes, NEW layer \in ProjectLayers \cup {Untouched},
             Configure(p, layer)
      PROVE  FastInv'
  <2>1. layer.fail_fast_on # Null => FailsFast(layer)
    BY DEF FailFastIsExtended, Untouched
  <2> QED
    BY <1>t, <1>3, <2>1
    DEF Configure, ExecutionUntouched, FastInv, NonRetryableIsDead, FailsFast
<1>4. ASSUME NEW p \in Processes, Declare(p) PROVE FastInv'
  BY <1>2, <1>3, <1>4, DeclaredFailsFast DEF Declare, Task, Register, Rebind
<1>5. ASSUME NEW p \in Processes, StartRun(p) PROVE FastInv'
  <2>1. /\ run'[p] # Null => run'[p].policy = ResolvePolicy(p)
        /\ \A q \in Processes : q # p => run'[q] = run[q]
    BY <1>t, <1>5 DEF StartRun
  <2>2. row.status # "dead" /\ UNCHANGED <<registry, project, failure>>
    BY <1>5 DEF StartRun, Claimable
  <2> QED
    BY <2>1, <2>2, ResolvedFailsFast DEF FastInv, NonRetryableIsDead, FailsFast
<1>6. ASSUME NEW p \in Processes, NEW exception \in Exceptions,
             NEW seconds \in Asked \cup {0}, Raises(p, exception, seconds)
      PROVE  /\ DeadLetter(p, exception, seconds) => FastInv'
             /\ Retry(p, exception, seconds) => FastInv'
             /\ BackoffRaises(p, exception, seconds) => FastInv'
  <2>1. /\ run[p] # Null /\ FailsFast(run[p].policy)
        /\ row.status = "processing"
    BY <1>6 DEF Raises, FastInv, ExecutionInv, RunInv
  <2>2. ASSUME NonRetryableIsDead' PROVE FastInv'
    BY <1>t, <1>6, <2>2 DEF Raises, FastInv, FailsFast
  <2>3. DeadLetter(p, exception, seconds) => NonRetryableIsDead'
    BY <1>t DEF DeadLetter, NonRetryableIsDead, Row
  <2>4. ASSUME Retry(p, exception, seconds) PROVE NonRetryableIsDead'
    <3>1. exception # "NonRetryableError"
      BY <2>1, <2>4
      DEF Retry, Dies, Fatal, IsRetryable, IsInstance, Ancestors, FailsFast
    <3>2. failure'.exception = exception
      BY <2>4 DEF Retry, Fails
    <3> QED
      BY <3>1, <3>2 DEF NonRetryableIsDead
  <2>5. BackoffRaises(p, exception, seconds) => NonRetryableIsDead'
    BY DEF BackoffRaises, FastInv, NonRetryableIsDead
  <2> QED
    BY <2>2, <2>3, <2>4, <2>5
<1>7. ASSUME NEW p \in Processes, Fail(p) PROVE FastInv'
  BY <1>6, <1>7 DEF Fail, DeadLetter, Retry, BackoffRaises
<1>8. ASSUME NEW p \in Processes, Succeed(p) \/ Restart(p) PROVE FastInv'
  <2>1. \A q \in Processes :
            /\ run'[q] # Null => run'[q] = run[q]
            /\ registry'[q] # Null => registry'[q] = registry[q]
            /\ project'[q] = project[q] \/ project'[q].fail_fast_on = Null
    BY <1>t, <1>8 DEF Succeed, Restart, Untouched
  <2>2. NonRetryableIsDead'
    <3>1. CASE Restart(p)
      BY <3>1 DEF Restart, FastInv, NonRetryableIsDead
    <3>2. CASE Succeed(p)
      BY <3>2 DEF Succeed, FastInv, NonRetryableIsDead, ExecutionInv, RunInv
    <3> QED
      BY <1>8, <3>1, <3>2
  <2> QED
    BY <2>1, <2>2 DEF FastInv, FailsFast
<1>9. ASSUME NEW p \in Processes, NEW budget, CreateTask(p, budget)
      PROVE  FastInv'
  BY <1>9 DEF CreateTask, FastInv, NonRetryableIsDead, FailsFast
<1>10. CASE Claim \/ SweepStuck \/ Tick
  BY <1>t, <1>10
  DEF Claim, SweepStuck, Tick, Row, FastInv, NonRetryableIsDead, FailsFast
<1> QED
  BY <1>1, <1>4, <1>5, <1>7, <1>8, <1>9, <1>10 DEF Next

(* NonRetryableError dead-letters at once, as the repository says, as long *)
(* as no layer drops it from what fails fast.                              *)
THEOREM FailFastCorrect == FailFastIsExtended /\ Spec => []NonRetryableIsDead
<1> SUFFICES ASSUME FailFastIsExtended PROVE Spec => []NonRetryableIsDead
  OBVIOUS
<1>1. Init => FastInv
  BY DEF Init, FastInv, Untouched, NonRetryableIsDead
<1>2. TypeOK /\ ExecutionInv /\ FastInv /\ [Next]_vars => FastInv'
  BY FastNext
<1>3. FastInv => NonRetryableIsDead
  BY DEF FastInv
<1> QED
  BY <1>1, <1>2, <1>3, PolicyTypeCorrect, ExecutionAlways, PTL DEF Spec

-----------------------------------------------------------------------------
(* The lifecycle.                                                          *)

LifecycleInv == TypeOK /\ ExecutionInv

(* What any step does to the row is a step of the lifecycle.               *)
LEMMA LifecycleStep ==
    ASSUME LifecycleInv, [Next]_vars
    PROVE  Lifecycle!TaskStep("task")
<1> DEFINE Moved(to, spent) ==
        /\ row'.status = to
        /\ row'.attempts = row.attempts + spent
        /\ row'.max_attempts = row.max_attempts
<1>t. /\ row \in Row
      /\ row.attempts \in Nat /\ row.max_attempts \in Int
  BY DEF LifecycleInv, TypeOK, Row
<1>b. row.status \in {"pending", "dispatching"} =>
          row.attempts = 0 \/ row.attempts < row.max_attempts
  BY <1>t DEF LifecycleInv, ExecutionInv, BudgetInv
<1> USE DEF Lifecycle!TaskStep, Lifecycle!Move, Lifecycle!Status,
            Lifecycle!CanTransitionTo, Lifecycle!AllowedTransitions,
            Lifecycle!ShouldRetry, Lifecycle!MayTry
<1>1. ASSUME row' = row \/ Moved(row.status, 0)
      PROVE  Lifecycle!TaskStep("task")
  BY <1>t, <1>1 DEF Lifecycle!Stay
<1>2. ASSUME NEW p \in Processes, NEW budget \in Budgets \cup {Null},
             CreateTask(p, budget)
      PROVE  Lifecycle!TaskStep("task")
  <2>1. row.status = "absent" /\ row.attempts = 0
    BY <1>2 DEF CreateTask, LifecycleInv, ExecutionInv, BudgetInv
  <2>2. row'.status = "pending" /\ row'.attempts = 0
    BY <1>t, <1>2, <2>1 DEF CreateTask, Row
  <2>3. row'.max_attempts \in Int
    BY TypeNext DEF LifecycleInv, TypeOK, Row
  <2> QED
    BY <2>1, <2>2, <2>3 DEF Lifecycle!Insert
<1>3. ASSUME NEW p \in Processes, StartRun(p)
      PROVE  Lifecycle!TaskStep("task")
  <2>1. row.status \in {"pending", "dispatching"} /\ Moved("processing", 1)
    BY <1>t, <1>3 DEF StartRun, Claimable, Row
  <2> QED
    BY <1>b, <2>1 DEF Lifecycle!Start
<1>4. ASSUME row.status = "processing", NEW to \in {"completed", "failed", "dead"},
             Moved(to, 0)
      PROVE  Lifecycle!TaskStep("task")
  BY <1>t, <1>4 DEF Lifecycle!Settle
<1>5. ASSUME NEW p \in Processes, Succeed(p) \/ Fail(p)
      PROVE  Lifecycle!TaskStep("task")
  <2>1. row.status = "processing"
    BY <1>5
    DEF Succeed, Fail, DeadLetter, Retry, BackoffRaises, Raises, LifecycleInv,
        ExecutionInv, RunInv
  <2>2. row' = row \/ \E to \in {"completed", "failed", "dead"} : Moved(to, 0)
    <3>1. Succeed(p) => Moved("completed", 0)
      BY <1>t DEF Succeed, Row
    <3>2. ASSUME NEW exception, NEW seconds
          PROVE  /\ DeadLetter(p, exception, seconds) => Moved("dead", 0)
                 /\ Retry(p, exception, seconds) => Moved("failed", 0)
                 /\ BackoffRaises(p, exception, seconds) => row' = row
      <4>1. DeadLetter(p, exception, seconds) => Moved("dead", 0)
        BY <1>t DEF DeadLetter, Row
      <4>2. ASSUME NEW due, row' = [row EXCEPT !.status = "failed", !.due = due]
            PROVE  Moved("failed", 0)
        BY <1>t, <4>2 DEF Row
      <4>3. Retry(p, exception, seconds) => Moved("failed", 0)
        BY <4>2 DEF Retry
      <4>4. BackoffRaises(p, exception, seconds) => row' = row
        BY DEF BackoffRaises
      <4> QED
        BY <4>1, <4>3, <4>4
    <3>3. CASE Succeed(p)
      BY <3>1, <3>3
    <3>4. CASE Fail(p)
      <4>1. PICK exception \in Exceptions, seconds \in Asked \cup {0} :
                \/ DeadLetter(p, exception, seconds)
                \/ Retry(p, exception, seconds)
                \/ BackoffRaises(p, exception, seconds)
        BY <3>4 DEF Fail
      <4> HIDE DEF Moved
      <4> QED
        BY <3>2, <4>1
    <3> QED
      BY <1>5, <3>3, <3>4
  <2> QED
    BY <1>1, <1>4, <2>1, <2>2
<1>6. ASSUME NEW p \in Processes, Declare(p) \/ Restart(p)
      PROVE  Lifecycle!TaskStep("task")
  BY <1>1, <1>6
  DEF Declare, Task, Register, Rebind, Configure, ExecutionUntouched, Restart
<1>7. CASE Claim
  <2>1. row.status \in {"pending", "failed"} /\ Moved("dispatching", 0)
    BY <1>t, <1>7 DEF Claim, Row
  <2>2. row.attempts = 0 \/ row.attempts < row.max_attempts
    BY <1>b, <1>7 DEF Claim
  <2> QED
    BY <1>t, <2>1, <2>2 DEF Lifecycle!Requeue
<1>8. CASE SweepStuck
  <2>1. CASE row.attempts >= row.max_attempts
    <3>1. row.status = "processing" /\ Moved("dead", 0)
      BY <1>t, <1>8, <2>1 DEF SweepStuck, ShouldDie, Row
    <3> QED
      BY <1>4, <3>1
  <2>2. CASE ~(row.attempts >= row.max_attempts)
    <3>1. row.status = "processing" /\ Moved("pending", 0)
      BY <1>t, <1>8, <2>2 DEF SweepStuck, ShouldDie, Row
    <3> QED
      BY <1>t, <2>2, <3>1 DEF Lifecycle!Requeue
  <2> QED
    BY <2>1, <2>2
<1>9. CASE Tick
  <2>1. Moved(row.status, 0)
    BY <1>t, <1>9 DEF Tick, Row
  <2> QED
    BY <1>1, <2>1
<1>10. CASE UNCHANGED vars
  BY <1>1, <1>10 DEF vars
<1> QED
  BY <1>2, <1>3, <1>5, <1>6, <1>7, <1>8, <1>9, <1>10 DEF Next

(* A row follows the lifecycle of every task, whatever its budget and the  *)
(* policies of the processes that create, run and recover it.              *)
THEOREM PolicyLifecycleCorrect == Spec => LifecycleImplemented
<1>1. Init => Lifecycle!Init
  BY DEF Init, Lifecycle!Init
<1>2. TypeOK /\ ExecutionInv /\ [Next]_vars =>
          [Lifecycle!Next]_(Lifecycle!vars)
  BY LifecycleStep DEF LifecycleInv, Lifecycle!Next
<1> QED
  BY <1>1, <1>2, PolicyTypeCorrect, ExecutionAlways, PTL
  DEF Spec, LifecycleImplemented, Lifecycle!Spec
=============================================================================
