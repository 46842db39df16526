--------------------------- MODULE TaskLifecycle ---------------------------
(***************************************************************************)
(* What the ledger promises of every task, whoever writes its row: it      *)
(* moves only along the transitions of core/states.py, an attempt is       *)
(* consumed by a start of the handler and by nothing else, the budget      *)
(* stamped at creation never changes, a row waits for a worker only while  *)
(* it has an attempt left or has had none, only a manual retry gives       *)
(* attempts back, and once its deadline has passed a row is not claimed    *)
(* and not started any more, and before that it does not expire.  A step   *)
(* may move any number of tasks, each by one transition: a batch is        *)
(* claimed, released or swept at once.                                     *)
(***************************************************************************)
EXTENDS TaskStates

CONSTANTS Tasks, Budgets

VARIABLES
    status, attempts, max_attempts,
    late                \* whether the deadline has passed

vars == <<status, attempts, max_attempts, late>>

NoRow == {"absent", "purged"}

Init ==
    /\ status = [t \in Tasks |-> "absent"]
    /\ attempts = [t \in Tasks |-> 0]
    /\ max_attempts = [t \in Tasks |-> 0]
    /\ late = [t \in Tasks |-> FALSE]

Insert(t) ==
    /\ status[t] = "absent"
    /\ status'[t] = "pending"
    /\ attempts'[t] = 0
    /\ max_attempts'[t] \in Budgets
    /\ late'[t] \in BOOLEAN

Delete(t) ==
    /\ status[t] = "completed"
    /\ status'[t] = "purged"
    /\ attempts'[t] = 0
    /\ max_attempts'[t] = 0
    /\ ~late'[t]

Move(t) ==
    /\ status[t] \in Status
    /\ CanTransitionTo(status[t], status'[t])
    /\ max_attempts'[t] = max_attempts[t]
    /\ late'[t] = late[t]

(* A first attempt is made even of a budget of none.                       *)
MayTry(t) == attempts[t] = 0 \/ ShouldRetry(attempts[t], max_attempts[t])

(* The handler starts: one attempt of those left.                          *)
Start(t) ==
    /\ Move(t)
    /\ status'[t] = "processing"
    /\ MayTry(t)
    /\ ~late[t]
    /\ attempts'[t] = attempts[t] + 1

(* The row waits for a worker again, which it may only with budget left.   *)
Requeue(t) ==
    /\ Move(t)
    /\ status'[t] \in {"pending", "dispatching"}
    /\ attempts'[t] = attempts[t]
    /\ MayTry(t)
    /\ status'[t] = "dispatching" => ~late[t]

ManualRetry(t) ==
    /\ Move(t)
    /\ status'[t] = "pending"
    /\ attempts'[t] = 0

(* The row stops waiting: its run ended, it was killed, or it expired.     *)
Settle(t) ==
    /\ Move(t)
    /\ status'[t] \in {"completed", "failed", "dead", "expired"}
    /\ status'[t] = "expired" => late[t]
    /\ attempts'[t] = attempts[t]

Stay(t) ==
    /\ status'[t] = status[t]
    /\ attempts'[t] = attempts[t]
    /\ max_attempts'[t] = max_attempts[t]
    /\ late[t] => late'[t]

TaskStep(t) ==
    \/ Insert(t) \/ Delete(t)
    \/ Start(t) \/ Requeue(t) \/ ManualRetry(t) \/ Settle(t)
    \/ Stay(t)

Next == \A t \in Tasks : TaskStep(t)

Spec == Init /\ [][Next]_vars
=============================================================================
