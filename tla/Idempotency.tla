----------------------------- MODULE Idempotency -----------------------------
(***************************************************************************)
(* create_or_get_task: producers that race to create one task per          *)
(* idempotency key, each in a transaction of its own that it may roll      *)
(* back, while tasks already created are retried, completed and purged.    *)
(*                                                                         *)
(* The transactions are those of PostgreSQL at READ COMMITTED, from what   *)
(* the code relies on: an insert waits for the transaction that holds the  *)
(* same key, and the database refuses one member of a cycle of waits.      *)
(***************************************************************************)
EXTENDS Naturals, FiniteSets

CONSTANTS
    Producers,      \* one transaction each
    Keys,           \* pairs (task_type, idempotency_key)
    Contracts,      \* what create_or_get_task compares, after the defaults
    Rows,           \* identities of rows; bounds the insertions
    MaxCalls        \* bound: calls of one transaction

ASSUME ProducersAssumption ==
    /\ Keys # {}
    /\ Contracts # {}
    /\ MaxCalls \in Nat

VARIABLES
    row,            \* the table, with the rows that have left it
    mine,           \* the rows a transaction has inserted, until it ends
    phase,          \* where a transaction is
    call,           \* the last call of a transaction
    calls,          \* the number of its calls
    refused,        \* the error its last call raised
    got             \* the rows its calls returned

vars == <<row, mine, phase, call, calls, refused, got>>

Calls == [key : Keys, contract : Contracts]

(* A row as an identity has it: never inserted, inserted and not yet       *)
(* committed, in the ledger, completed, deleted by the purge, or rolled    *)
(* back.  "moved" says that scheduled_for is not initial_scheduled_for.    *)
RowStates == {"free", "open", "kept", "completed", "purged", "undone"}

Ended == {"committed", "undone"}

(* Every variable keeps its type and a transaction that ended holds no     *)
(* uncommitted row, whatever calls it was cut off in.                      *)
TypeOK ==
    /\ row \in [Rows -> [state : RowStates, call : Calls, moved : BOOLEAN]]
    /\ mine \in [Producers -> SUBSET Rows]
    /\ phase \in [Producers -> {"idle", "insert", "lookup"} \cup Ended]
    /\ call \in [Producers -> Calls]
    /\ calls \in [Producers -> 0..MaxCalls]
    /\ refused \in [Producers -> {"no", "integrity", "conflict", "deadlock"}]
    /\ got \in [Producers -> SUBSET Rows]
    /\ \A p \in Producers : phase[p] \in Ended => mine[p] = {}

AnyCall == CHOOSE c \in Calls : TRUE

Init ==
    /\ row = [r \in Rows |->
                [state |-> "free", call |-> AnyCall, moved |-> FALSE]]
    /\ mine = [p \in Producers |-> {}]
    /\ phase = [p \in Producers |-> "idle"]
    /\ call = [p \in Producers |-> AnyCall]
    /\ calls = [p \in Producers |-> 0]
    /\ refused = [p \in Producers |-> "no"]
    /\ got = [p \in Producers |-> {}]

Committed(r) == row[r].state \in {"kept", "completed"}

(* Variant with a bug: sees what others have not committed.                *)
SeenDirty(p, k) ==
    {r \in Rows : row[r].call.key = k /\ row[r].state \in {"open", "kept", "completed"}}

(* The rows of a key that a transaction sees: what is committed and its    *)
(* own.                                                                    *)
Seen(p, k) == {r \in Rows : row[r].call.key = k /\ (Committed(r) \/ r \in mine[p])}

(* Variant with a bug: no constraint holds the key.                        *)
NothingUndecided(p, k) == {}

(* The rows of a key that another transaction has not yet decided upon.    *)
Undecided(p, k) ==
    {r \in Rows : row[r].call.key = k /\ row[r].state = "open" /\ r \notin mine[p]}

(* A new identity is one that no row has had; which one tells nothing.     *)
Fresh == {r \in Rows : row[r].state = "free"}

-----------------------------------------------------------------------------
(* A call, past the checks of its arguments, which change nothing.         *)
Request(p, c) ==
    /\ phase[p] = "idle"
    /\ calls[p] < MaxCalls
    /\ phase' = [phase EXCEPT ![p] = "insert"]
    /\ call' = [call EXCEPT ![p] = c]
    /\ calls' = [calls EXCEPT ![p] = @ + 1]
    /\ refused' = [refused EXCEPT ![p] = "no"]
    /\ UNCHANGED <<row, mine, got>>

(* create_task in the savepoint: the flush inserts the row, once nobody    *)
(* has the key, and the call returns it.                                   *)
Create(p) ==
    /\ phase[p] = "insert"
    /\ Seen(p, call[p].key) = {}
    /\ Undecided(p, call[p].key) = {}
    /\ Fresh # {}
    /\ LET r == CHOOSE r \in Fresh : TRUE
       IN  /\ row' = [row EXCEPT ![r] =
                        [state |-> "open", call |-> call[p], moved |-> FALSE]]
           /\ mine' = [mine EXCEPT ![p] = @ \cup {r}]
           /\ got' = [got EXCEPT ![p] = @ \cup {r}]
    /\ phase' = [phase EXCEPT ![p] = "idle"]
    /\ UNCHANGED <<call, calls, refused>>

(* Variant with a bug: no savepoint, the transaction is aborted.           *)
CollideAborting(p) ==
    /\ phase[p] = "insert"
    /\ Seen(p, call[p].key) # {}
    /\ row' = [r \in Rows |->
                IF r \in mine[p] THEN [row[r] EXCEPT !.state = "undone"] ELSE row[r]]
    /\ mine' = [mine EXCEPT ![p] = {}]
    /\ phase' = [phase EXCEPT ![p] = "lookup"]
    /\ UNCHANGED <<call, calls, refused, got>>

(* Variant with a bug: the insertion is tried again.                       *)
CollideRetrying(p) ==
    /\ phase[p] = "insert"
    /\ Seen(p, call[p].key) # {}
    /\ UNCHANGED vars

(* The unique constraint refuses the insertion; the savepoint takes back   *)
(* what it did and nothing else.                                           *)
Collide(p) ==
    /\ phase[p] = "insert"
    /\ Seen(p, call[p].key) # {}
    /\ phase' = [phase EXCEPT ![p] = "lookup"]
    /\ UNCHANGED <<row, mine, call, calls, refused, got>>

(* Variant with a bug: looks for tasks not yet finished.                   *)
ExistingUnfinished(p, k) == {r \in Seen(p, k) : row[r].state # "completed"}

(* The SELECT by task type and key, of a task in any state.                *)
Existing(p, k) == Seen(p, k)

(* Variant with a bug: compares scheduled_for.                             *)
DiffersWhenMoved(r, c) == row[r].call.contract # c.contract \/ row[r].moved

(* The fields that differ: the row's initial schedule is compared, so what *)
(* happened to the task since does not count.                              *)
Differs(r, c) == row[r].call.contract # c.contract

(* The handler of IntegrityError, one SELECT that may come late: the row   *)
(* is returned, or refused for its contract, or it is gone and the error   *)
(* goes to the caller.                                                     *)
LookUp(p) ==
    /\ phase[p] = "lookup"
    /\ LET found == Existing(p, call[p].key)
           same == {r \in found : ~Differs(r, call[p])}
       IN  /\ got' = [got EXCEPT ![p] = @ \cup same]
           /\ refused' = [refused EXCEPT ![p] =
                CASE found = {} -> "integrity"
                  [] found # {} /\ same = {} -> "conflict"
                  [] OTHER -> "no"]
    /\ phase' = [phase EXCEPT ![p] = "idle"]
    /\ UNCHANGED <<row, mine, call, calls>>

(* The caller ends its transaction, having handled what was raised or not. *)
Commit(p) ==
    /\ phase[p] = "idle"
    /\ row' = [r \in Rows |->
                IF r \in mine[p] THEN [row[r] EXCEPT !.state = "kept"] ELSE row[r]]
    /\ mine' = [mine EXCEPT ![p] = {}]
    /\ phase' = [phase EXCEPT ![p] = "committed"]
    /\ UNCHANGED <<call, calls, refused, got>>

(* Variant with a bug: the insertions outlive the transaction.             *)
RollbackKeeping(p) ==
    /\ phase[p] \notin Ended
    /\ phase' = [phase EXCEPT ![p] = "undone"]
    /\ UNCHANGED <<row, mine, call, calls, refused, got>>

(* It rolls back, or its process dies in whatever it does.                 *)
Rollback(p) ==
    /\ phase[p] \notin Ended
    /\ row' = [r \in Rows |->
                IF r \in mine[p] THEN [row[r] EXCEPT !.state = "undone"] ELSE row[r]]
    /\ mine' = [mine EXCEPT ![p] = {}]
    /\ phase' = [phase EXCEPT ![p] = "undone"]
    /\ UNCHANGED <<call, calls, refused, got>>

WaitsFor(p, q) ==
    /\ phase[p] = "insert"
    /\ Undecided(p, call[p].key) \cap mine[q] # {}

(* The database breaks a cycle of waits.  The error is no IntegrityError:  *)
(* it leaves the savepoint and the call for the caller to handle.          *)
RefuseDeadlock(p) ==
    /\ \E S \in SUBSET Producers :
        /\ p \in S
        /\ \A q \in S : \E s \in S : WaitsFor(q, s)
        /\ \A q \in S : \E s \in S : WaitsFor(s, q)
    /\ phase' = [phase EXCEPT ![p] = "idle"]
    /\ refused' = [refused EXCEPT ![p] = "deadlock"]
    /\ UNCHANGED <<row, mine, call, calls, got>>

-----------------------------------------------------------------------------
(* What the workers and the operators do meanwhile to a committed task.    *)

(* A failure or a retry by hand writes scheduled_for.                      *)
Reschedule(r) ==
    /\ row[r].state = "kept"
    /\ row' = [row EXCEPT ![r].moved = TRUE]
    /\ UNCHANGED <<mine, phase, call, calls, refused, got>>

Complete(r) ==
    /\ row[r].state = "kept"
    /\ row' = [row EXCEPT ![r].state = "completed"]
    /\ UNCHANGED <<mine, phase, call, calls, refused, got>>

(* purge_completed: of the completed rows, the old ones.                   *)
Purge(old) ==
    /\ old # {}
    /\ \A r \in old : row[r].state = "completed"
    /\ row' = [r \in Rows |->
                IF r \in old THEN [row[r] EXCEPT !.state = "purged"] ELSE row[r]]
    /\ UNCHANGED <<mine, phase, call, calls, refused, got>>

-----------------------------------------------------------------------------
Next ==
    \/ \E p \in Producers :
        \/ \E c \in Calls : Request(p, c)
        \/ Create(p)
        \/ Collide(p)
        \/ LookUp(p)
        \/ RefuseDeadlock(p)
        \/ Commit(p)
        \/ Rollback(p)
    \/ \E r \in Rows : Reschedule(r) \/ Complete(r)
    \/ \E old \in SUBSET Rows : Purge(old)

(* A call that is not blocked goes on, the database breaks cycles, and a   *)
(* caller whose call was answered ends its transaction some time.          *)
Fairness ==
    \A p \in Producers :
        /\ WF_vars(Create(p) \/ Collide(p) \/ LookUp(p) \/ RefuseDeadlock(p))
        /\ WF_vars(Commit(p))

Spec == Init /\ [][Next]_vars /\ Fairness

-----------------------------------------------------------------------------
(* Two producers that called with one key, and did not roll back, were     *)
(* given the same task, unless one of theirs has been purged: racing       *)
(* creators never both create (the unique constraint, and the handler of   *)
(* its error in create_or_get_task).                                       *)
Agreement ==
    \A p, q \in Producers : phase[p] # "undone" /\ phase[q] # "undone" =>
        \A r \in got[p], s \in got[q] :
            r # s /\ row[r].call.key = row[s].call.key
                => "purged" \in {row[r].state, row[s].state}

(* A row as others know it.                                                *)
Entry(r) == [key |-> row[r].call.key, id |-> r]

Unique == INSTANCE UniqueTasks WITH
    Ids <- Rows,
    tasks <- {Entry(r) : r \in {s \in Rows : Committed(s)}},
    retired <- {Entry(r) : r \in {s \in Rows : row[s].state = "purged"}},
    answered <- {p \in Producers : phase[p] = "committed"},
    answers <- [p \in Producers |->
                    IF phase[p] = "committed" THEN {Entry(r) : r \in got[p]}
                                              ELSE {}]

(* To everybody else a transaction of calls is one step that adds tasks    *)
(* for keys that have none and returns tasks that exist, however its       *)
(* insertions, collisions and rollbacks interleave with those of others.   *)
UniquenessImplemented == Unique!Spec

(* A task that was returned stays: a transaction that did not roll back    *)
(* holds no task that another may still take back or has taken back.       *)
ReturnedTaskStays ==
    \A p \in Producers : phase[p] # "undone" =>
        \A r \in got[p] : Committed(r) \/ row[r].state = "purged" \/ r \in mine[p]

(* "IntegrityError" reaches the caller only if a task of its key has been  *)
(* purged: never because the winner is slow, rolls back or has finished    *)
(* its task ("existing is None" in the handler).                           *)
RefusedOnlyForPurge ==
    \A p \in Producers : refused[p] = "integrity" =>
        \E r \in Rows : row[r].call.key = call[p].key /\ row[r].state = "purged"

(* A call is refused as a conflict only if a task of the key was created   *)
(* with another contract, in whatever state the task is by now.            *)
ConflictIsReal ==
    \A p \in Producers : refused[p] = "conflict" =>
        \E r \in Rows :
            /\ row[r].state # "free"
            /\ row[r].call.key = call[p].key
            /\ row[r].call.contract # call[p].contract

(* "without aborting the caller": nothing that happens to a call, or to    *)
(* another transaction, takes a producer's own insertions back, until the  *)
(* producer ends its transaction itself.                                   *)
CallerKeepsItsWork ==
    [][\A p \in Producers : phase'[p] \notin Ended =>
            /\ mine[p] \subseteq mine'[p]
            /\ \A r \in mine'[p] : row'[r].state = "open"]_vars

(* Every call is answered, though its key is held by another transaction,  *)
(* if callers end their transactions.                                      *)
EveryCallIsAnswered ==
    \A p \in Producers : phase[p] \in {"insert", "lookup"}
        ~> phase[p] \notin {"insert", "lookup"}
=============================================================================
