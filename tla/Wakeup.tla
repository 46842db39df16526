------------------------------- MODULE Wakeup -------------------------------
(***************************************************************************)
(* How a dispatcher comes to know of work: the commit-time NOTIFY of       *)
(* producers, sweeps and retries (sqlalchemy/listen.py, django/listen.py), *)
(* the LISTEN connection (listen_sync.py, AsyncPostgresWorkListener), and  *)
(* the poll that must find whatever these two miss (next_due of the        *)
(* dispatch backends, _bounded_wait and the end of run in dispatcher.py).  *)
(*                                                                         *)
(* One dispatcher, which nothing fails but its listener; what it does when *)
(* calls fail is in DispatcherLoop.  Other dispatchers are the locks they  *)
(* hold on rows.  Time passes only in waits: a call takes no time.  An     *)
(* instant is its distance from the present, as in LedgerRows, but here it *)
(* matters that a NULL schedule is not an instant that has passed.         *)
(***************************************************************************)
EXTENDS Integers, FiniteSets

CONSTANTS
    Tasks,              \* rows of the queues this dispatcher serves
    Elsewhere,          \* what is announced of rows of other queues
    BatchSize,          \* batch_size
    IdlePoll,           \* idle_poll_seconds, in ticks
    MaxQueueSize,       \* max_queue_size of the listener
    MaxTicks,           \* bound: farthest schedule, retry or deadline
    MaxReturns,         \* bound: how often rows come back after a claim
    Null                \* NULL

ASSUME WakeupAssumption ==
    /\ IsFiniteSet(Tasks)
    /\ Elsewhere \notin Tasks
    /\ BatchSize \in Nat /\ BatchSize > 0
    /\ IdlePoll \in Nat /\ IdlePoll > 0
    /\ MaxQueueSize \in Nat /\ MaxQueueSize > 0
    /\ MaxTicks \in Nat
    /\ MaxReturns \in Nat
    /\ Null \notin Int

VARIABLES
    row,                \* the task table, uncommitted inserts included
    locked,             \* rows locked by the claim of another dispatcher
    listener,           \* the LISTEN connection
    inbox,              \* notifications received and not yet read
    pc,                 \* where the dispatcher is in its iteration
    full,               \* the last claim filled the batch
    wait,               \* ticks left of the wait
    returns,            \* how often rows came back, up to MaxReturns
    late,               \* for how many ticks a row has been ready
    announced,          \* ready rows NOTIFY told a listener of since a claim
    foreseen,           \* rows whose instant the last next_due could see
    idle                \* claims that found nothing since time passed or a
                        \* notification came, up to 2

table == <<row, locked, returns>>
history == <<late, announced, foreseen, idle>>
vars == <<table, listener, inbox, pc, full, wait, history>>

Instants == 0..MaxTicks \cup {Null}

(* A failed row has budget left.  "taken" stands for dispatching and       *)
(* processing, "over" for the terminal states.                             *)
Row == [status : {"absent", "open", "pending", "failed", "taken", "over"},
        scheduled_for : Instants, expires_at : Instants]

Nothing == [status |-> "absent", scheduled_for |-> Null, expires_at |-> Null]

(* unopened  before the first wait_for_work                                *)
(* deaf      the connection is lost and that has not been noticed          *)
(* polling   LISTEN is unsupported, could not be opened, or was given up   *)
Listener == {"unopened", "listening", "deaf", "polling"}

TypeOK ==
    /\ row \in [Tasks -> Row]
    /\ locked \subseteq Tasks
    /\ listener \in Listener
    /\ inbox \subseteq Tasks \cup {Elsewhere}
    /\ pc \in {"claim", "due", "pause", "waiting"}
    /\ full \in BOOLEAN
    /\ wait \in 0..IdlePoll
    /\ returns \in 0..MaxReturns
    /\ late \in [Tasks -> Nat]
    /\ announced \subseteq Tasks
    /\ foreseen \subseteq Tasks
    /\ idle \in 0..2

Init ==
    /\ row = [t \in Tasks |-> Nothing]
    /\ locked = {}
    /\ listener = "unopened"
    /\ inbox = {}
    /\ pc = "claim"
    /\ full = FALSE
    /\ wait = 0
    /\ returns = 0
    /\ late = [t \in Tasks |-> 0]
    /\ announced = {}
    /\ foreseen = {}
    /\ idle = 0

-----------------------------------------------------------------------------
(* What a claim may take.                                                  *)

Available(r) == r.status \in {"pending", "failed"}

Overdue(r) == Available(r) /\ r.expires_at = 0

(* A failed row always has a schedule.                                     *)
Claimable(r) ==
    Available(r) /\ r.scheduled_for \in {0, Null} /\ r.expires_at # 0

(* There for the taking: due, and not skipped as locked.                   *)
Ready(t) == t \notin locked /\ Claimable(row[t])

(* A row that is no longer ready has been served, or lost.                 *)
LateKept == late' = [t \in Tasks |-> IF Ready(t)' THEN late[t] ELSE 0]

-----------------------------------------------------------------------------
(* NOTIFY.                                                                 *)

(* A notification reaches a listener that listens and is dropped when its  *)
(* queue is full.                                                          *)
Notify(t) ==
    inbox' = IF listener = "listening" /\ Cardinality(inbox) < MaxQueueSize
             THEN inbox \cup {t} ELSE inbox

(* History: from now on the dispatcher owes the row an immediate claim.    *)
Announce(t) ==
    announced' = IF listener = "listening" /\ Ready(t)'
                 THEN announced \cup {t} ELSE announced

(* create_task in a transaction of the producer: PostgreSQL holds the      *)
(* notification back until that commits.  Until then nobody sees the row,  *)
(* so how far off its instants are is settled then.                        *)
Insert(t) ==
    /\ row[t].status = "absent"
    /\ row' = [row EXCEPT ![t].status = "open"]
    /\ UNCHANGED <<locked, listener, inbox, pc, full, wait, returns,
                   history>>

Commit(t) ==
    /\ row[t].status = "open"
    /\ \E s, e \in Instants :
          row' = [row EXCEPT ![t] = [status |-> "pending",
                                     scheduled_for |-> s, expires_at |-> e]]
    /\ Notify(t)
    /\ UNCHANGED locked
    /\ Announce(t)
    /\ UNCHANGED <<listener, pc, full, wait, returns, late, foreseen, idle>>

(* Neither the row nor the notification ever was.                          *)
Rollback(t) ==
    /\ row[t].status = "open"
    /\ row' = [row EXCEPT ![t] = Nothing]
    /\ UNCHANGED <<locked, listener, inbox, pc, full, wait, returns,
                   history>>

(* A row written by others is no longer the one next_due looked at.        *)
Rewritten(t) ==
    /\ LateKept
    /\ foreseen' = foreseen \ {t}
    /\ UNCHANGED <<listener, pc, full, wait, idle>>

(* The channel is one for all queues, the claim is not.                    *)
OtherQueue ==
    /\ Notify(Elsewhere)
    /\ UNCHANGED <<table, listener, pc, full, wait, history>>

(* A row comes back to pending: a sweep or a manual retry, which clears    *)
(* the schedule, in SQLAlchemy with a notification and in Django without,  *)
(* or the release of a claim, always without.                              *)
Return(t) ==
    /\ row[t].status \in {"taken", "failed"}
    /\ t \notin locked
    /\ returns < MaxReturns
    /\ returns' = returns + 1
    /\ \E s \in {Null} \cup ({row[t].scheduled_for} \cap {0}) :
          row' = [row EXCEPT ![t].status = "pending", ![t].scheduled_for = s]
    /\ UNCHANGED locked
    /\ \/ Notify(t) /\ Announce(t)
       \/ UNCHANGED <<inbox, announced>>
    /\ Rewritten(t)

(* An attempt fails and the row waits out its retry delay: no notification *)
(* at any time, the schedule has to be enough.                             *)
Fail(t) ==
    /\ row[t].status = "taken"
    /\ returns < MaxReturns
    /\ returns' = returns + 1
    /\ \E s \in 0..MaxTicks :
          row' = [row EXCEPT ![t].status = "failed", ![t].scheduled_for = s]
    /\ UNCHANGED <<locked, inbox, announced>>
    /\ Rewritten(t)

(* A row is completed, killed or dead.                                     *)
Finish(t) ==
    /\ Available(row[t]) \/ row[t].status = "taken"
    /\ t \notin locked
    /\ row' = [row EXCEPT ![t] = [Nothing EXCEPT !.status = "over"]]
    /\ announced' = announced \ {t}
    /\ UNCHANGED <<locked, inbox, returns>>
    /\ Rewritten(t)

-----------------------------------------------------------------------------
(* Other dispatchers.                                                      *)

(* Another dispatcher's claim locks a row, and next_due still sees it.     *)
Lock(t) ==
    /\ t \notin locked
    /\ Claimable(row[t])
    /\ locked' = locked \cup {t}
    /\ announced' = announced \ {t}
    /\ UNCHANGED <<row, listener, inbox, pc, full, wait, returns, foreseen,
                   idle>>
    /\ LateKept

LockCommits(t) ==
    /\ t \in locked
    /\ locked' = locked \ {t}
    /\ row' = [row EXCEPT ![t].status = "taken"]
    /\ UNCHANGED <<inbox, returns, announced>>
    /\ Rewritten(t)

(* The row is back without a notification.                                 *)
LockRollsBack(t) ==
    /\ t \in locked
    /\ locked' = locked \ {t}
    /\ UNCHANGED <<row, listener, inbox, pc, full, wait, returns, history>>

-----------------------------------------------------------------------------
(* The dispatcher.                                                         *)

(* As many of the rows as fit: which ones is a matter of their priorities. *)
Batches(S) ==
    {b \in SUBSET S : \/ b = S /\ Cardinality(b) <= BatchSize
                      \/ Cardinality(b) = BatchSize}

AfterClaim(r, expired, claimed, t) ==
    IF t \in expired THEN [Nothing EXCEPT !.status = "over"]
    ELSE IF t \in claimed THEN [r EXCEPT !.status = "taken"]
    ELSE r

(* Variant with a bug: a claim that filled the batch counts as the last.   *)
NeverFull(claimed) == FALSE

FillsBatch(claimed) == Cardinality(claimed) >= BatchSize

(* claim: expire what is past its deadline, take what is due, skip what is *)
(* locked.                                                                 *)
Claim ==
    /\ pc = "claim"
    /\ \E expired \in Batches({t \in Tasks \ locked : Overdue(row[t])}),
          claimed \in Batches({t \in Tasks : Ready(t)}) :
          /\ row' = [t \in Tasks |->
                        AfterClaim(row[t], expired, claimed, t)]
          /\ full' = FillsBatch(claimed)
          /\ idle' = IF expired \cup claimed # {} THEN 0
                     ELSE IF idle < 2 THEN idle + 1 ELSE idle
    /\ pc' = "due"
    /\ announced' = {}
    /\ UNCHANGED <<locked, listener, inbox, wait, returns, foreseen>>
    /\ LateKept

Scheduled(r) == Available(r) /\ r.scheduled_for # Null

(* The instant the row wakes the dispatcher for.                           *)
WakeAt(r) ==
    IF r.expires_at # Null /\ r.expires_at < r.scheduled_for
    THEN r.expires_at ELSE r.scheduled_for

(* Variant with a bug: retries are not looked at.                          *)
SeenPendingOnly ==
    {t \in Tasks : Scheduled(row[t]) /\ row[t].status = "pending"}

(* The rows next_due takes the earliest instant of: locked ones too.       *)
Seen == {t \in Tasks : Scheduled(row[t])}

DueInstants == {WakeAt(row[t]) : t \in Seen}

(* Variants with a bug: no floor under the wait, and no ceiling over it.   *)
BoundedWithoutFloor(due) ==
    IF due = Null \/ due > IdlePoll THEN IdlePoll ELSE due

BoundedOrWhole(due) ==
    IF due = Null THEN IdlePoll ELSE IF due = 0 THEN 1 ELSE due

(* _bounded_wait: a tick for the 0.05 seconds of an instant that passed.   *)
BoundedWait(due) ==
    IF due = Null THEN IdlePoll
    ELSE IF due = 0 THEN 1
    ELSE IF due < IdlePoll THEN due ELSE IdlePoll

NextDue ==
    /\ pc = "due"
    /\ ~full
    /\ \/ /\ DueInstants = {}
          /\ wait' = BoundedWait(Null)
       \/ \E due \in DueInstants :
             /\ \A other \in DueInstants : due <= other
             /\ wait' = BoundedWait(due)
    /\ foreseen' = {t \in Tasks : Scheduled(row[t])}
    /\ pc' = "pause"
    /\ UNCHANGED <<table, listener, inbox, full, late, announced, idle>>

(* After a full batch the loop claims again, whatever next_due answers.    *)
SkipWait ==
    /\ pc = "due"
    /\ full
    /\ full' = FALSE
    /\ pc' = "claim"
    /\ UNCHANGED <<table, listener, inbox, wait, history>>

(* Variant with a bug: notifications from before the wait are taken for    *)
(* stale.                                                                  *)
DiscardedUnread == {}

KeptUnread == inbox

(* wait_for_work: the listener is opened once, and then it listens or not. *)
StartWait ==
    /\ pc = "pause"
    /\ listener' \in IF listener = "unopened" THEN {"listening", "polling"}
                                              ELSE {listener}
    /\ inbox' = KeptUnread
    /\ pc' = "waiting"
    /\ UNCHANGED <<table, full, wait, history>>

(* The wait is over, and everything is looked at again.                    *)
WakesUp ==
    /\ pc = "waiting"
    /\ pc' = "claim"
    /\ wait' = 0
    /\ foreseen' = {}
    /\ UNCHANGED <<table, full, late, announced>>

(* A notification is read, and with psycopg2 and asyncpg all those behind  *)
(* it; with psycopg3 they stay for the next wait.                          *)
Notified ==
    /\ WakesUp
    /\ \E t \in inbox : inbox' \in {{}, inbox \ {t}}
    /\ idle' = 0
    /\ UNCHANGED listener

(* SyncWorkListener.wait on a lost connection: it gives up listening.  The *)
(* asynchronous listener never notices.                                    *)
NoticeLoss ==
    /\ WakesUp
    /\ listener = "deaf"
    /\ listener' = "polling"
    /\ inbox' = {}
    /\ idle' = 0

(* Variant with a bug: nothing ends a wait on a lost connection.           *)
TimesOutIfHeard ==
    /\ WakesUp
    /\ wait = 0
    /\ listener # "deaf"
    /\ UNCHANGED <<listener, inbox, idle>>

TimesOut ==
    /\ WakesUp
    /\ wait = 0
    /\ UNCHANGED <<listener, inbox, idle>>

LoseConnection ==
    /\ listener = "listening"
    /\ listener' = "deaf"
    /\ UNCHANGED <<table, inbox, pc, full, wait, history>>

-----------------------------------------------------------------------------
Sooner(instant) == IF instant \in {0, Null} THEN instant ELSE instant - 1

(* A wait neither outlasts its time nor an unread notification.            *)
Tick ==
    /\ pc = "waiting"
    /\ wait > 0
    /\ inbox = {}
    /\ wait' = wait - 1
    /\ row' = [t \in Tasks |->
                  [row[t] EXCEPT !.scheduled_for = Sooner(@),
                                 !.expires_at = Sooner(@)]]
    /\ idle' = 0
    /\ UNCHANGED <<locked, listener, inbox, pc, full, returns, announced,
                   foreseen>>
    /\ late' = [t \in Tasks |->
                   IF Ready(t) /\ Ready(t)' THEN late[t] + 1 ELSE 0]

Dispatcher ==
    Claim \/ NextDue \/ SkipWait \/ StartWait \/ Notified \/ TimesOut

Producers(t) == Insert(t) \/ Commit(t) \/ Rollback(t)

Others(t) ==
    \/ Return(t) \/ Fail(t) \/ Finish(t)
    \/ Lock(t) \/ LockCommits(t) \/ LockRollsBack(t)

Next ==
    \/ Dispatcher
    \/ NoticeLoss
    \/ LoseConnection
    \/ OtherQueue
    \/ Tick
    \/ \E t \in Tasks : Producers(t) \/ Others(t)

Spec == Init /\ [][Next]_vars

(* The dispatcher goes on and its waits come to an end.                    *)
FairSpec == Spec /\ WF_vars(Dispatcher) /\ WF_vars(Tick)

-----------------------------------------------------------------------------
(* Properties.                                                             *)

(* Polling is the correctness path: whatever becomes of notifications, no  *)
(* row this dispatcher may take is there for longer than the idle poll.    *)
TimelyClaim == \A t \in Tasks : late[t] <= IdlePoll

(* A notification a listener was sent is as good as a claim: the row it    *)
(* announced waits no longer, though the queue was full, a claim was under *)
(* way or the connection broke since.                                      *)
PromptClaim == [][\A t \in announced : late'[t] <= late[t]]_vars

(* A wait does not outlast the earliest schedule, retry or deadline that   *)
(* was there to be seen when it began, except by the one tick that keeps   *)
(* it from being empty.                                                    *)
PunctualWake ==
    pc \in {"pause", "waiting"} =>
        \A t \in foreseen :
            wait <= 1 \/ wait <= WakeAt(row[t])

(* A row another claim holds locked does not make the dispatcher spin: it  *)
(* queries again only after a wait that took time, or when told to.        *)
NoSpin == idle <= 1

(* A row that is ready does not stay so: notified or not, this dispatcher  *)
(* or another takes it.                                                    *)
EveryReadyRowIsTaken == \A t \in Tasks : Ready(t) ~> ~Ready(t)
=============================================================================
