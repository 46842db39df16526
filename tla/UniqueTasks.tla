---------------------------- MODULE UniqueTasks ----------------------------
(***************************************************************************)
(* What create_or_get_task promises those who use the ledger: a key has    *)
(* one task at a time.  Tasks appear when the transaction that created     *)
(* them commits, all of them at once and only for keys that have none; the *)
(* transaction goes away with tasks that exist, or have existed; and only  *)
(* a purge makes room for another task of the same key.                    *)
(***************************************************************************)
CONSTANTS Producers, Keys, Ids

VARIABLES
    tasks,      \* the tasks in the ledger
    retired,    \* those purged from it
    answered,   \* the producers whose transaction has committed
    answers     \* what each of them went away with

vars == <<tasks, retired, answered, answers>>

Task == [key : Keys, id : Ids]

Init ==
    /\ tasks = {}
    /\ retired = {}
    /\ answered = {}
    /\ answers = [p \in Producers |-> {}]

(* Tasks that may be added: of keys nobody holds, one for each, and no     *)
(* identity twice.                                                         *)
Admissible(new) ==
    /\ new \subseteq Task
    /\ \A t \in new, u \in tasks : t.key # u.key
    /\ \A t \in new, u \in tasks \cup retired : t.id # u.id
    /\ \A t, u \in new : t.key = u.key \/ t.id = u.id => t = u

Publish(p) ==
    /\ p \notin answered
    /\ answered' = answered \cup {p}
    /\ tasks \subseteq tasks'
    /\ Admissible(tasks' \ tasks)
    /\ \E taken \in SUBSET (tasks' \cup retired) :
          answers' = [answers EXCEPT ![p] = taken]
    /\ UNCHANGED retired

Retire ==
    /\ tasks' \subseteq tasks
    /\ retired' = retired \cup (tasks \ tasks')
    /\ UNCHANGED <<answered, answers>>

Next == Retire \/ \E p \in Producers : Publish(p)

Spec == Init /\ [][Next]_vars
=============================================================================
