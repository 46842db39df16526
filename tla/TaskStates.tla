----------------------------- MODULE TaskStates -----------------------------
(***************************************************************************)
(* The task state machine of src/dewey/core/states.py: the statuses a      *)
(* ledger row may have, the transitions between them, and the two tests on *)
(* the attempt budget.  Every other module speaks of statuses through it.  *)
(***************************************************************************)
EXTENDS Integers

Status == {"pending", "dispatching", "processing",
           "completed", "failed", "dead", "expired"}

(* Rows automatic processing never picks up again.                         *)
TerminalStates == {"completed", "dead", "expired"}

AllowedTransitions ==
    [pending     |-> {"dispatching", "processing", "dead", "expired"},
     dispatching |-> {"processing", "pending", "dead", "expired"},
     processing  |-> {"completed", "failed", "dead", "pending"},
     failed      |-> {"pending", "dispatching", "dead", "expired"},
     dead        |-> {"pending"},
     completed   |-> {},
     expired     |-> {}]

CanTransitionTo(status, target) == target \in AllowedTransitions[status]

ShouldRetry(attempts, max_attempts) == attempts < max_attempts

(* Variant with a bug: one attempt too many.                               *)
ShouldDieLate(attempts, max_attempts) == attempts > max_attempts

ShouldDie(attempts, max_attempts) == attempts >= max_attempts

(* Variant with a bug: a redelivered ID starts a row that is running.      *)
ClaimableAgain == {"pending", "dispatching", "processing"}

(* A worker may start a row it finds in one of these (_CLAIMABLE).         *)
Claimable == {"pending", "dispatching"}
=============================================================================
