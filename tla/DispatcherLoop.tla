--------------------------- MODULE DispatcherLoop ---------------------------
(***************************************************************************)
(* The loop of one Dispatcher or AsyncDispatcher (dispatcher.py): what an  *)
(* iteration calls, in which order, which failures it survives, and how    *)
(* long it waits before the next one.  Which rows a call moves is in       *)
(* Delivery; here a call succeeds or fails.  The row by which a readiness  *)
(* check sees the dispatcher is here too, as its age.                      *)
(*                                                                         *)
(* A tick may pass between any two steps, so a call may be slow.  An       *)
(* instant on the monotonic clock is kept as its distance from the present.*)
(***************************************************************************)
EXTENDS Integers

CONSTANTS
    Base,               \* dispatch_retry_base_seconds, in ticks
    TransportCap,       \* dispatch_retry_cap_seconds
    DatabaseCap,        \* database_retry_cap_seconds
    IdlePoll,           \* idle_poll_seconds
    SweepInterval,      \* sweep_interval_seconds, when it is not None
    HeartbeatInterval,  \* heartbeat_interval_seconds
    StaleAfter          \* the age up to which a heartbeat counts as fresh

Larger(m, n) == IF m > n THEN m ELSE n

(* The first delay is the base, and only what is doubled is capped.        *)
LongestDelay(cap) == Larger(Base, cap)

LongestWait ==
    Larger(IdlePoll, Larger(LongestDelay(TransportCap),
                            LongestDelay(DatabaseCap)))

(* What a readiness check allows beyond the rarest heartbeat of a loop     *)
(* whose calls take no time: one that just misses a turn and then sits out *)
(* the longest wait.                                                       *)
Slack == StaleAfter - (HeartbeatInterval - 1 + LongestWait)

(* The defaults are 1, 30, 5, 5, 60, 15 and 45 seconds, which leave no     *)
(* slack in real time and one tick of it here.  The base may be any and so *)
(* may the caps: nothing in the code compares them.                        *)
ASSUME PacingAssumption ==
    /\ Base \in Nat
    /\ TransportCap \in Nat
    /\ DatabaseCap \in Nat
    /\ IdlePoll \in Nat \ {0}
    /\ SweepInterval \in Nat \ {0}
    /\ HeartbeatInterval \in Nat \ {0}
    /\ StaleAfter \in Nat /\ Slack \in Nat

(* What an iteration calls that may fail: the database (claim, sweep and   *)
(* next_due), a release on its own, and the transport.  A heartbeat has a  *)
(* table of its own and fails on its own.                                  *)
Calls == {"database", "release", "transport"}

VARIABLES
    pc,             \* the next step of the iteration
    transport,      \* _health
    database,       \* _db_health
    stranded,       \* _pending_release is not empty
    full,           \* dispatched >= batch_size
    wait,           \* ticks left of the wait the loop is in or has computed
    sweep_age,      \* ticks since the sweep last ran, up to SweepInterval
    beat_age,       \* ticks since the last heartbeat, up to HeartbeatInterval
    beaten,         \* the last heartbeat was written
    seen,           \* the age of last_seen_at, or Unlisted
    busy,           \* ticks not spent in a wait since the heartbeat's turn
    stopping,       \* stop() was called
    down            \* the calls that fail at present

health == <<transport, database>>
readiness == <<beat_age, beaten, seen, busy>>
vars == <<pc, health, stranded, full, wait, sweep_age, readiness, stopping,
          down>>

(* get_dispatchers does not name it: too old, removed or never written.    *)
Unlisted == StaleAfter + 1

(* _BackoffState: retry_delay, and the ticks left until _retry_at.         *)
Backoff(cap) ==
    {b \in [delay : 0..LongestDelay(cap), left : 0..LongestDelay(cap)] :
        b.left <= b.delay}

Healthy == [delay |-> 0, left |-> 0]

(* Every retry delay stays at or under its cap, or the base if that is     *)
(* longer, and no more is ever owed than the delay of the last failure,    *)
(* however many failures follow.                                           *)
TypeOK ==
    /\ pc \in {"top", "release", "heartbeat", "sweep", "batch", "sending",
               "due", "pause", "backoff", "waiting", "closed"}
    /\ transport \in Backoff(TransportCap)
    /\ database \in Backoff(DatabaseCap)
    /\ stranded \in BOOLEAN
    /\ full \in BOOLEAN
    /\ wait \in 0..LongestWait
    /\ sweep_age \in 0..SweepInterval
    /\ beat_age \in 0..HeartbeatInterval
    /\ beaten \in BOOLEAN
    /\ seen \in 0..Unlisted
    /\ busy \in 0..Slack + 1
    /\ stopping \in BOOLEAN
    /\ down \subseteq Calls

(* The first sweep and the first heartbeat are due at once.                *)
Init ==
    /\ pc = "top"
    /\ transport = Healthy
    /\ database = Healthy
    /\ stranded = FALSE
    /\ full = FALSE
    /\ wait = 0
    /\ sweep_age = SweepInterval
    /\ beat_age = HeartbeatInterval
    /\ beaten = FALSE
    /\ seen = Unlisted
    /\ busy = 0
    /\ stopping = FALSE
    /\ down = {}

-----------------------------------------------------------------------------
(* _BackoffState.                                                          *)

(* Variant with a bug: doubling that forgets the cap.                      *)
DoubledUncapped(delay, cap) == 2 * delay

(* note_failure, when it is not the first in a row.                        *)
Doubled(delay, cap) == IF 2 * delay > cap THEN cap ELSE 2 * delay

NoteFailure(b, cap) ==
    LET delay == IF b.delay = 0 THEN Base ELSE Doubled(b.delay, cap)
    IN  [delay |-> delay, left |-> delay]

TransportFails == transport' = NoteFailure(transport, TransportCap)

DatabaseFails == database' = NoteFailure(database, DatabaseCap)

Works(call) == call \notin down

(* Variants with a bug: only the transport is waited for, and the whole    *)
(* delay is waited for again when part of it has passed.                   *)
OwedToTransport == transport.left

OwedAgain == Larger(transport.delay, database.delay)

(* The larger of the two remaining_delay.                                  *)
Owed == Larger(transport.left, database.left)

-----------------------------------------------------------------------------
(* One iteration.                                                          *)

(* Variant with a bug: stop() is looked at by nobody.                      *)
GoesOnRegardless == TRUE

GoesOn == ~stopping

Begin ==
    /\ pc = "top"
    /\ GoesOn
    /\ pc' = "release"
    /\ UNCHANGED <<health, stranded, full, wait, sweep_age, readiness,
                   stopping, down>>

(* The loop is left: IDs still remembered for release are forgotten, and   *)
(* the heartbeat's row is removed unless that fails.                       *)
Close ==
    /\ pc = "top"
    /\ stopping
    /\ pc' = "closed"
    /\ stranded' = FALSE
    /\ seen' \in {Unlisted, seen}
    /\ UNCHANGED <<health, full, wait, sweep_age, beat_age, beaten, busy,
                   stopping, down>>

(* _retry_pending_release.                                                 *)
RetryRelease ==
    /\ pc = "release"
    /\ \/ /\ ~stranded
          /\ UNCHANGED <<stranded, database>>
       \/ /\ stranded
          /\ Works("release")
          /\ stranded' = FALSE
          /\ database' = Healthy
       \/ /\ stranded
          /\ ~Works("release")
          /\ DatabaseFails
          /\ UNCHANGED stranded
    /\ pc' = "heartbeat"
    /\ UNCHANGED <<transport, full, wait, sweep_age, readiness,
                   stopping, down>>

(* Variant with a bug: no heartbeat while a release is outstanding.        *)
BeatDueUnlessStranded == beat_age = HeartbeatInterval /\ ~stranded

(* _SweepClock.due, of _heartbeat_clock                                    *)
BeatDue == beat_age = HeartbeatInterval

(* The heartbeat of a backend: the row is written whether or not another   *)
(* dispatcher's retention pass removed it, or the transaction fails.       *)
Heartbeat ==
    /\ beaten' \in BOOLEAN
    /\ seen' = IF beaten' THEN 0 ELSE seen

(* maybe_heartbeat: its turn in an iteration, due or not.  A beat that     *)
(* fails is logged and waits for its next interval.                        *)
MaybeHeartbeat ==
    /\ pc = "heartbeat"
    /\ \/ /\ ~BeatDue
          /\ UNCHANGED <<beat_age, beaten, seen>>
       \/ /\ BeatDue
          /\ beat_age' = 0
          /\ Heartbeat
    /\ busy' = 0
    /\ pc' = "sweep"
    /\ UNCHANGED <<health, stranded, full, wait, sweep_age, stopping, down>>

(* Variant with a bug: no recovery while a release is outstanding.         *)
SweepDueUnlessStranded == sweep_age = SweepInterval /\ ~stranded

(* _SweepClock.due                                                         *)
SweepDue == sweep_age = SweepInterval

(* maybe_sweep: due or not, and whether or not the sweep it runs raises.   *)
MaybeSweep ==
    /\ pc = "sweep"
    /\ sweep_age' = IF SweepDue THEN 0 ELSE sweep_age
    /\ pc' = "batch"
    /\ UNCHANGED <<health, stranded, full, wait, readiness, stopping, down>>

(* A release is still outstanding: the iteration claims nothing.           *)
SkipBatch ==
    /\ pc = "batch"
    /\ stranded
    /\ full' = FALSE
    /\ pc' = "due"
    /\ UNCHANGED <<health, stranded, wait, sweep_age, readiness,
                   stopping, down>>

(* dispatch_batch: the claim finds rows.                                   *)
ClaimBatch ==
    /\ pc = "batch"
    /\ ~stranded
    /\ Works("database")
    /\ pc' = "sending"
    /\ UNCHANGED <<health, stranded, full, wait, sweep_age, readiness,
                   stopping, down>>

(* Variant with a bug: an empty claim says nothing of the transport.       *)
AfterEmptyClaimUnchanged(b) == b

(* An empty claim counts as the recovery of the transport.                 *)
AfterEmptyClaim(b) == Healthy

(* dispatch_batch: the claim is empty.                                     *)
EmptyClaim ==
    /\ pc = "batch"
    /\ ~stranded
    /\ Works("database")
    /\ transport' = AfterEmptyClaim(transport)
    /\ full' = FALSE
    /\ pc' = "due"
    /\ UNCHANGED <<database, stranded, wait, sweep_age, readiness,
                   stopping, down>>

(* The rest of an iteration that raised: poll again after IdlePoll, or     *)
(* after what is now owed if that is not over.                             *)
IterationFails ==
    /\ DatabaseFails
    /\ full' = FALSE
    /\ wait' = IdlePoll
    /\ pc' = "pause"

(* dispatch_batch: the claim raises.                                       *)
ClaimFails ==
    /\ pc = "batch"
    /\ ~stranded
    /\ ~Works("database")
    /\ IterationFails
    /\ UNCHANGED <<transport, stranded, sweep_age, readiness,
                   stopping, down>>

(* dispatch_batch: the whole batch, full or not, reaches the transport.    *)
SendBatch ==
    /\ pc = "sending"
    /\ Works("transport")
    /\ transport' = Healthy
    /\ full' \in BOOLEAN
    /\ pc' = "due"
    /\ UNCHANGED <<database, stranded, wait, sweep_age, readiness,
                   stopping, down>>

(* dispatch_batch: dispatch_fn raises, and the unsent rows are released,   *)
(* or remembered when that raises too.                                     *)
SendFails ==
    /\ pc = "sending"
    /\ ~Works("transport")
    /\ \/ /\ Works("release")
          /\ UNCHANGED <<stranded, database>>
       \/ /\ ~Works("release")
          /\ stranded' = TRUE
          /\ DatabaseFails
    /\ TransportFails
    /\ full' = FALSE
    /\ pc' = "due"
    /\ UNCHANGED <<wait, sweep_age, readiness,
                   stopping, down>>

(* Variant with a bug: a query that succeeds clears the database's backoff *)
(* although a release does not get through.                                *)
AfterIterationCleared(b) == Healthy

(* The else of the iteration's try.                                        *)
AfterIteration(b) == IF stranded THEN b ELSE Healthy

(* next_due, and the wait it bounds: never zero, even with a row overdue.  *)
NextDue ==
    /\ pc = "due"
    /\ Works("database")
    /\ wait' \in 1..IdlePoll
    /\ database' = AfterIteration(database)
    /\ pc' = "pause"
    /\ UNCHANGED <<transport, stranded, full, sweep_age, readiness,
                   stopping, down>>

NextDueFails ==
    /\ pc = "due"
    /\ ~Works("database")
    /\ IterationFails
    /\ UNCHANGED <<transport, stranded, sweep_age, readiness,
                   stopping, down>>

(* The end of an iteration: wait for what is owed, or go on at once after  *)
(* a full batch, or wait for work.                                         *)
Pause ==
    /\ pc = "pause"
    /\ \/ /\ Owed > 0
          /\ wait' = Owed
          /\ pc' = "backoff"
       \/ /\ Owed = 0
          /\ full
          /\ pc' = "top"
          /\ UNCHANGED wait
       \/ /\ Owed = 0
          /\ ~full
          /\ pc' = "waiting"
          /\ UNCHANGED wait
    /\ UNCHANGED <<health, stranded, full, sweep_age, readiness,
                   stopping, down>>

(* _stop.wait(delay): over, or cut short by stop().                        *)
EndBackoff ==
    /\ pc = "backoff"
    /\ wait = 0 \/ stopping
    /\ pc' = "top"
    /\ UNCHANGED <<health, stranded, full, wait, sweep_age, readiness,
                   stopping, down>>

(* wait_for_work times out.  stop() does not end it.                       *)
PollAgain ==
    /\ pc = "waiting"
    /\ wait = 0
    /\ pc' = "top"
    /\ UNCHANGED <<health, stranded, full, wait, sweep_age, readiness,
                   stopping, down>>

(* wait_for_work is ended by a notification, or by a listener that broke.  *)
Notified ==
    /\ pc = "waiting"
    /\ wait > 0
    /\ pc' = "top"
    /\ UNCHANGED <<health, stranded, full, wait, sweep_age, readiness,
                   stopping, down>>

Step ==
    \/ Begin \/ Close \/ RetryRelease \/ MaybeHeartbeat \/ MaybeSweep
    \/ SkipBatch \/ ClaimBatch \/ EmptyClaim \/ ClaimFails
    \/ SendBatch \/ SendFails \/ NextDue \/ NextDueFails
    \/ Pause \/ EndBackoff \/ PollAgain

-----------------------------------------------------------------------------
(* The world around the loop.                                              *)

Stop ==
    /\ ~stopping
    /\ stopping' = TRUE
    /\ UNCHANGED <<pc, health, stranded, full, wait, sweep_age, readiness, down>>

(* Calls start to fail or to succeed.                                      *)
Weather ==
    /\ \E calls \in SUBSET Calls : down' = calls
    /\ UNCHANGED <<pc, health, stranded, full, wait, sweep_age, readiness,
                   stopping>>

Sooner(n) == IF n > 0 THEN n - 1 ELSE 0

Later(b) == [b EXCEPT !.left = Sooner(@)]

Waits == pc \in {"backoff", "waiting"} /\ wait > 0

Older(age, end) == IF age < end THEN age + 1 ELSE age

Tick ==
    /\ transport' = Later(transport)
    /\ database' = Later(database)
    /\ wait' = IF Waits THEN Sooner(wait) ELSE wait
    /\ sweep_age' = Older(sweep_age, SweepInterval)
    /\ beat_age' = Older(beat_age, HeartbeatInterval)
    /\ seen' = Older(seen, Unlisted)
    /\ busy' = IF Waits THEN busy ELSE Older(busy, Slack + 1)
    /\ UNCHANGED <<pc, stranded, full, beaten, stopping, down>>

Next == Step \/ Notified \/ Stop \/ Weather \/ Tick

Spec == Init /\ [][Next]_vars

(* Time passes and the loop's own steps, its calls included, come to an    *)
(* end.                                                                    *)
FairSpec == Spec /\ WF_vars(Tick) /\ WF_vars(Step)

-----------------------------------------------------------------------------
(* What the loop must never do.                                            *)

(* A dispatcher claims only when it owes nothing more to a transport or a  *)
(* database that failed: no path through an iteration, slow calls and      *)
(* partial failures included, shortens a backoff.                          *)
NoClaimDuringBackoff ==
    (pc = "batch" /\ ~stranded) => transport.left = 0 /\ database.left = 0

(* The backoff of the database is kept as long as a release does not get   *)
(* through, though other queries of the same iterations succeed; unless    *)
(* backing off was configured away.                                        *)
StrandedKeepsBackoff ==
    Base > 0 /\ DatabaseCap > 0 => (stranded => database.delay > 0)

(* A backoff sleep ends when the later of the two delays has been served:  *)
(* time that passed before the sleep is not charged again (the comment on  *)
(* the wait in run).                                                       *)
WaitsWhatIsOwed == pc = "backoff" => wait = Owed

(* A readiness check never loses a dispatcher that runs: whatever fails,   *)
(* and through the longest backoff, its heartbeat stays fresh as long as   *)
(* the last one was written and its calls have not used up the slack since *)
(* their turn came.                                                        *)
ListedWhileRunning ==
    beaten /\ busy <= Slack /\ pc # "closed" => seen <= StaleAfter

(* The dispatcher as its claims see it: it holds a batch from the claim    *)
(* until the batch was sent or released.                                   *)
Cycle == INSTANCE DispatcherCycle WITH
    Dispatchers <- {"self"},
    phase <- [d \in {"self"} |-> IF stranded THEN "stranded"
                                 ELSE IF pc = "sending" THEN "holding"
                                 ELSE "free"]

(* The loop goes through the same cycle as the dispatchers of Delivery: it *)
(* takes a batch only with nothing on its hands, whatever fails in between *)
(* (the comment on a stranded release in run).                             *)
CycleImplemented == Cycle!Spec

-----------------------------------------------------------------------------
(* What it must eventually do.                                             *)

(* Recovery runs again and again, whatever fails: a broken release path or *)
(* database must not also stop retries and reclaims (the comment in run).  *)
SweepsGoOn == []<>(sweep_age = 0 \/ stopping)

(* Once nothing fails any more, the loop claims again and again and both   *)
(* backoffs are back at zero for good.                                     *)
RecoversFully ==
    <>[](down = {} /\ ~stopping) =>
        /\ []<>(pc = "batch" /\ ~stranded)
        /\ <>[](transport = Healthy /\ database = Healthy)

(* stop() ends the loop, whatever it waits for and whatever fails.         *)
StopIsHonoured == stopping ~> pc = "closed"
=============================================================================
