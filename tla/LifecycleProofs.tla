-------------------------- MODULE LifecycleProofs --------------------------
(***************************************************************************)
(* What follows of a task from its lifecycle alone, and so holds in every  *)
(* module that implements TaskLifecycle, whatever its actors do.           *)
(***************************************************************************)
EXTENDS TaskLifecycle, TLAPS

(* A row that waits for a worker has an attempt left or has had none, and  *)
(* no row has spent more than its budget, but for a first attempt.         *)
Solvent(t) ==
    /\ attempts[t] \in Nat /\ max_attempts[t] \in Int
    /\ attempts[t] <= 1 \/ attempts[t] <= max_attempts[t]
    /\ status[t] \in Claimable => MayTry(t)

LEMMA StepSolvent ==
    ASSUME Budgets \subseteq Int, NEW t \in Tasks, Solvent(t), TaskStep(t)
    PROVE  Solvent(t)'
<1> USE DEF Solvent, Claimable, MayTry, ShouldRetry
<1>1. CASE Insert(t)
  <2>1. max_attempts'[t] \in Int
    BY <1>1 DEF Insert
  <2> QED
    BY <1>1, <2>1 DEF Insert
<1>2. CASE Delete(t)
  BY <1>2 DEF Delete
<1>3. CASE Start(t)
  BY <1>3 DEF Start, Move
<1>4. CASE Requeue(t)
  BY <1>4 DEF Requeue, Move
<1>5. CASE ManualRetry(t)
  BY <1>5 DEF ManualRetry, Move
<1>6. CASE Settle(t)
  BY <1>6 DEF Settle, Move
<1>7. CASE Stay(t)
  BY <1>7 DEF Stay
<1> QED
  BY <1>1, <1>2, <1>3, <1>4, <1>5, <1>6, <1>7 DEF TaskStep

(* Who keeps to the lifecycle keeps to the budget: no task is started more *)
(* often than it was stamped with, or once if that is less, short of a     *)
(* retry by hand, and no row waits for a worker without an attempt to make.*)
THEOREM BudgetFollows ==
    Budgets \subseteq Int /\ Spec => [](\A t \in Tasks : Solvent(t))
<1> SUFFICES ASSUME Budgets \subseteq Int
             PROVE  Spec => [](\A t \in Tasks : Solvent(t))
  OBVIOUS
<1>1. Init => \A t \in Tasks : Solvent(t)
  BY DEF Init, Solvent, Claimable
<1>2. (\A t \in Tasks : Solvent(t)) /\ [Next]_vars =>
          (\A t \in Tasks : Solvent(t))'
  <2>1. ASSUME \A t \in Tasks : Solvent(t), Next, NEW t \in Tasks
        PROVE  Solvent(t)'
    BY <2>1, StepSolvent DEF Next
  <2>2. UNCHANGED vars /\ (\A t \in Tasks : Solvent(t)) =>
            (\A t \in Tasks : Solvent(t))'
    BY DEF vars, Solvent, MayTry
  <2> QED
    BY <2>1, <2>2
<1> QED
  BY <1>1, <1>2, PTL DEF Spec

(* A status that leads nowhere is the end of a task, short of a purge of   *)
(* completed rows.                                                         *)
Final(t) ==
    /\ status[t] = "expired" => status'[t] = "expired"
    /\ status[t] = "completed" => status'[t] \in {"completed", "purged"}

(* Who keeps to the lifecycle never brings a task back that completed or   *)
(* expired.                                                                *)
THEOREM FinalityFollows == Spec => [][\A t \in Tasks : Final(t)]_vars
<1>1. ASSUME Next, NEW t \in Tasks PROVE Final(t)
  <2>1. TaskStep(t)
    BY <1>1 DEF Next
  <2>2. status[t] \in {"completed", "expired"} => ~Move(t)
    BY DEF Move, CanTransitionTo, AllowedTransitions
  <2> QED
    BY <2>1, <2>2
    DEF Final, TaskStep, Insert, Delete, Start, Requeue, ManualRetry, Settle,
        Stay
<1>2. [Next]_vars => [\A t \in Tasks : Final(t)]_vars
  BY <1>1
<1> QED
  BY <1>2, PTL DEF Spec
=============================================================================
