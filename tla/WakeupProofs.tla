---------------------------- MODULE WakeupProofs ----------------------------
(***************************************************************************)
(* Proofs about the wake-ups of a dispatcher, for any set of rows, batch   *)
(* size, poll interval and queue size.                                     *)
(***************************************************************************)
EXTENDS Wakeup, FiniteSetTheorems, TLAPS

-----------------------------------------------------------------------------
(* Type correctness.                                                       *)

LEMMA InitType == Init => TypeOK
<1> SUFFICES ASSUME Init PROVE TypeOK
  OBVIOUS
<1>1. row \in [Tasks -> Row]
  BY DEF Init, Row, Nothing, Instants
<1>2. wait \in 0..IdlePoll /\ returns \in 0..MaxReturns
  BY WakeupAssumption DEF Init
<1>3. late \in [Tasks -> Nat] /\ idle \in 0..2
  BY DEF Init
<1> QED
  BY <1>1, <1>2, <1>3 DEF Init, TypeOK, Listener

LEMMA LateKeptType ==
    ASSUME late \in [Tasks -> Nat], LateKept
    PROVE  late' \in [Tasks -> Nat]
  BY DEF LateKept

LEMMA NotifyType ==
    ASSUME inbox \subseteq Tasks \cup {Elsewhere}, NEW t \in Tasks \cup {Elsewhere},
           Notify(t)
    PROVE  inbox' \subseteq Tasks \cup {Elsewhere}
  BY DEF Notify

LEMMA AnnounceType ==
    ASSUME announced \subseteq Tasks, NEW t \in Tasks, Announce(t)
    PROVE  announced' \subseteq Tasks
  BY DEF Announce

LEMMA ProducersType ==
    ASSUME TypeOK, NEW t \in Tasks, Producers(t)
    PROVE  TypeOK'
<1>1. CASE Insert(t)
  BY <1>1 DEF Insert, TypeOK, Row, history
<1>2. CASE Commit(t)
  <2>1. row' \in [Tasks -> Row]
    BY <1>2 DEF Commit, TypeOK, Row
  <2>2. inbox' \subseteq Tasks \cup {Elsewhere} /\ announced' \subseteq Tasks
    BY <1>2, NotifyType, AnnounceType DEF Commit, TypeOK
  <2> QED
    BY <1>2, <2>1, <2>2 DEF Commit, TypeOK
<1>3. CASE Rollback(t)
  BY <1>3 DEF Rollback, TypeOK, Row, Nothing, Instants, history
<1> QED
  BY <1>1, <1>2, <1>3 DEF Producers

LEMMA OthersType ==
    ASSUME TypeOK, NEW t \in Tasks, Others(t)
    PROVE  TypeOK'
<1>1. row' \in [Tasks -> Row]
  <2>1. CASE Return(t)
    <3>1. PICK s \in Instants :
              row' = [row EXCEPT ![t].status = "pending",
                                 ![t].scheduled_for = s]
      BY <2>1 DEF Return, TypeOK, Row, Instants
    <3> QED
      BY <3>1 DEF TypeOK, Row
  <2>2. CASE Fail(t)
    <3>1. PICK s \in Instants :
              row' = [row EXCEPT ![t].status = "failed",
                                 ![t].scheduled_for = s]
      BY <2>2 DEF Fail, Instants
    <3> QED
      BY <3>1 DEF TypeOK, Row
  <2>3. CASE Finish(t)
    BY <2>3 DEF Finish, TypeOK, Row, Nothing, Instants
  <2>4. CASE Lock(t) \/ LockRollsBack(t)
    BY <2>4 DEF Lock, LockRollsBack, TypeOK
  <2>5. CASE LockCommits(t)
    BY <2>5 DEF LockCommits, TypeOK, Row
  <2> QED
    BY <2>1, <2>2, <2>3, <2>4, <2>5 DEF Others
<1>2. late' \in [Tasks -> Nat]
  BY LateKeptType
  DEF Others, Return, Fail, Finish, Lock, LockCommits, LockRollsBack,
      Rewritten, TypeOK, history
<1>3. inbox' \subseteq Tasks \cup {Elsewhere} /\ announced' \subseteq Tasks
  <2>1. CASE Return(t)
    BY <2>1, NotifyType, AnnounceType DEF Return, TypeOK
  <2>2. CASE ~Return(t)
    BY <2>2
    DEF Others, Fail, Finish, Lock, LockCommits, LockRollsBack, TypeOK,
        history
  <2> QED
    BY <2>1, <2>2
<1>4. returns' \in 0..MaxReturns
  BY WakeupAssumption
  DEF Others, Return, Fail, Finish, Lock, LockCommits, LockRollsBack, TypeOK
<1>5. /\ listener' \in Listener
      /\ pc' \in {"claim", "due", "pause", "waiting"}
      /\ full' \in BOOLEAN
      /\ wait' \in 0..IdlePoll
      /\ locked' \subseteq Tasks
      /\ foreseen' \subseteq Tasks
      /\ idle' \in 0..2
  BY DEF Others, Return, Fail, Finish, Lock, LockCommits, LockRollsBack,
         Rewritten, TypeOK, history
<1> QED
  BY <1>1, <1>2, <1>3, <1>4, <1>5 DEF TypeOK

LEMMA BoundedWaitType ==
    ASSUME NEW due \in Instants
    PROVE  /\ BoundedWait(due) \in 1..IdlePoll
           /\ due # Null => BoundedWait(due) <= 1 \/ BoundedWait(due) <= due
  BY WakeupAssumption DEF BoundedWait, Instants

LEMMA WakeAtType ==
    ASSUME NEW r \in Row, Scheduled(r)
    PROVE  WakeAt(r) \in 0..MaxTicks
  BY WakeupAssumption DEF WakeAt, Scheduled, Row, Instants

LEMMA DispatcherType ==
    ASSUME TypeOK, Dispatcher \/ NoticeLoss
    PROVE  TypeOK'
<1>1. CASE Claim
  <2>1. row' \in [Tasks -> Row]
    BY <1>1 DEF Claim, AfterClaim, TypeOK, Row, Nothing, Instants
  <2>2. late' \in [Tasks -> Nat]
    BY <1>1, LateKeptType DEF Claim, TypeOK
  <2>3. full' \in BOOLEAN /\ idle' \in 0..2
    BY <1>1 DEF Claim, FillsBatch, TypeOK
  <2> QED
    BY <1>1, <2>1, <2>2, <2>3 DEF Claim, TypeOK
<1>2. CASE NextDue
  <2>1. wait' \in 0..IdlePoll
    <3>1. DueInstants \subseteq Instants
      BY WakeAtType DEF DueInstants, Seen, TypeOK, Instants
    <3>2. Null \in Instants
      BY DEF Instants
    <3> QED
      BY <1>2, <3>1, <3>2, BoundedWaitType, WakeupAssumption DEF NextDue
  <2> QED
    BY <1>2, <2>1 DEF NextDue, TypeOK, table
<1>3. CASE SkipWait \/ StartWait
  BY <1>3 DEF SkipWait, StartWait, KeptUnread, TypeOK, Listener, table, history
<1>4. CASE Notified \/ TimesOut \/ NoticeLoss
  <2>1. wait' \in 0..IdlePoll
    BY <1>4, WakeupAssumption DEF Notified, TimesOut, NoticeLoss, WakesUp
  <2>2. inbox' \subseteq Tasks \cup {Elsewhere}
    BY <1>4 DEF Notified, TimesOut, NoticeLoss, TypeOK
  <2>3. listener' \in Listener /\ idle' \in 0..2
    BY <1>4 DEF Notified, TimesOut, NoticeLoss, TypeOK, Listener
  <2> QED
    BY <1>4, <2>1, <2>2, <2>3
    DEF Notified, TimesOut, NoticeLoss, WakesUp, TypeOK, table
<1> QED
  BY <1>1, <1>2, <1>3, <1>4 DEF Dispatcher

LEMMA TickType ==
    ASSUME TypeOK, Tick
    PROVE  TypeOK'
<1>1. row' \in [Tasks -> Row]
  <2>1. \A i \in Instants : Sooner(i) \in Instants
    BY WakeupAssumption DEF Instants, Sooner
  <2>2. ASSUME NEW t \in Tasks
        PROVE  [row[t] EXCEPT !.scheduled_for = Sooner(@),
                              !.expires_at = Sooner(@)] \in Row
    <3>1. row[t] \in Row
      BY DEF TypeOK
    <3> QED
      BY <2>1, <3>1 DEF Row
  <2> QED
    BY <2>2, Zenon DEF Tick
<1>2. wait' \in 0..IdlePoll
  <2>1. wait \in 0..IdlePoll
    BY DEF TypeOK
  <2>2. wait > 0 /\ wait' = wait - 1
    BY DEF Tick
  <2> QED
    BY <2>1, <2>2, WakeupAssumption
<1>3. late' \in [Tasks -> Nat]
  <2>1. \A t \in Tasks : late[t] + 1 \in Nat /\ 0 \in Nat
    BY DEF TypeOK
  <2> QED
    BY <2>1, Zenon DEF Tick
<1>4. idle' = 0 /\ UNCHANGED <<locked, listener, inbox, pc, full, returns,
                               announced, foreseen>>
  BY DEF Tick
<1> QED
  BY <1>1, <1>2, <1>3, <1>4 DEF TypeOK

LEMMA NextType == TypeOK /\ [Next]_vars => TypeOK'
<1> SUFFICES ASSUME TypeOK, [Next]_vars PROVE TypeOK'
  OBVIOUS
<1>1. CASE LoseConnection
  BY <1>1 DEF LoseConnection, TypeOK, Listener, table, history
<1>2. CASE OtherQueue
  BY <1>2, NotifyType DEF OtherQueue, TypeOK, table, history
<1>3. CASE UNCHANGED vars
  BY <1>3 DEF vars, TypeOK, table, history
<1> QED
  BY <1>1, <1>2, <1>3, DispatcherType, TickType, ProducersType, OthersType
  DEF Next

(* The table, the listener and the loop keep their types.                  *)
THEOREM WakeupTypeCorrect == Spec => []TypeOK
  BY InitType, NextType, PTL DEF Spec
-----------------------------------------------------------------------------
(* The poll.                                                               *)

(* How long a row may have been ready where the dispatcher is: not at all  *)
(* once a claim left the batch unfilled, and during a wait no longer than  *)
(* the poll interval less what is left of the wait.                        *)
Punctual ==
    /\ \A t \in Tasks : late[t] > 0 => Ready(t)
    /\ \A t \in Tasks : late[t] <= IdlePoll
    /\ pc = "due" /\ ~full => \A t \in Tasks : late[t] = 0
    /\ pc \in {"pause", "waiting"} => \A t \in Tasks : late[t] + wait <= IdlePoll

PunctualInv == TypeOK /\ Punctual

(* An action that keeps the dispatcher where it is and makes no row late.  *)
LEMMA LateKeptPunctual ==
    ASSUME PunctualInv, late' = late \/ LateKept,
           \A t \in Tasks : late'[t] > 0 => Ready(t)',
           UNCHANGED <<pc, full, wait>>
    PROVE  Punctual'
<1>1. \A t \in Tasks : late'[t] = late[t] \/ late'[t] = 0
  BY DEF LateKept
<1>2. \A t \in Tasks : late[t] \in Nat
  BY DEF PunctualInv, TypeOK
<1>3. wait \in 0..IdlePoll /\ IdlePoll \in Nat
  BY WakeupAssumption DEF PunctualInv, TypeOK
<1>4. ASSUME NEW t \in Tasks
      PROVE  /\ late'[t] <= IdlePoll
             /\ pc = "due" /\ ~full => late'[t] = 0
             /\ pc \in {"pause", "waiting"} => late'[t] + wait <= IdlePoll
  <2>1. CASE late'[t] = late[t]
    BY <2>1 DEF PunctualInv, Punctual
  <2>2. CASE late'[t] = 0
    BY <1>3, <2>2
  <2> QED
    BY <1>1, <2>1, <2>2
<1> QED
  BY <1>4 DEF Punctual

LEMMA ProducersPunctual ==
    ASSUME PunctualInv, NEW t \in Tasks, Producers(t)
    PROVE  Punctual'
<1>1. late' = late /\ UNCHANGED <<locked, pc, full, wait>>
  BY DEF Producers, Insert, Commit, Rollback, history
<1>2. \A u \in Tasks \ {t} : row'[u] = row[u]
  BY DEF Producers, Insert, Commit, Rollback, PunctualInv, TypeOK
<1>3. ~Ready(t)
  BY DEF Producers, Insert, Commit, Rollback, Ready, Claimable, Available
<1>4. late[t] \in Nat
  BY DEF PunctualInv, TypeOK
<1>5. ~ (late[t] > 0)
  BY <1>3 DEF PunctualInv, Punctual
<1>6. \A u \in Tasks : late[u] > 0 => Ready(u)'
  BY <1>1, <1>2, <1>5 DEF PunctualInv, Punctual, Ready
<1> QED
  BY <1>1, <1>6, LateKeptPunctual

LEMMA LateKeptReady ==
    ASSUME LateKept
    PROVE  \A t \in Tasks : late'[t] > 0 => Ready(t)'
<1> SUFFICES ASSUME NEW t \in Tasks, ~Ready(t)'
             PROVE  ~ (late'[t] > 0)
  OBVIOUS
<1>1. late'[t] = 0
  BY DEF LateKept
<1> QED
  BY <1>1

LEMMA OthersPunctual ==
    ASSUME PunctualInv, NEW t \in Tasks, Others(t)
    PROVE  Punctual'
<1>1. UNCHANGED <<pc, full, wait>>
  BY DEF Others, Return, Fail, Finish, Lock, LockCommits, LockRollsBack,
         Rewritten
<1>2. CASE LockRollsBack(t)
  <2>1. late' = late
    BY <1>2 DEF LockRollsBack, history
  <2>2. \A u \in Tasks : late[u] > 0 => Ready(u)'
    BY <1>2 DEF LockRollsBack, PunctualInv, Punctual, Ready
  <2> QED
    BY <1>1, <2>1, <2>2, LateKeptPunctual
<1>3. CASE ~LockRollsBack(t)
  <2>1. LateKept
    BY <1>3 DEF Others, Return, Fail, Finish, Lock, LockCommits, Rewritten
  <2> QED
    BY <1>1, <2>1, LateKeptPunctual, LateKeptReady
<1> QED
  BY <1>2, <1>3

(* A claim that does not fill the batch leaves no row ready.               *)
LEMMA ClaimTakesAll ==
    ASSUME TypeOK, Claim, ~full', NEW t \in Tasks
    PROVE  ~Ready(t)'
<1>1. PICK expired \in Batches({u \in Tasks \ locked : Overdue(row[u])}),
           claimed \in Batches({u \in Tasks : Ready(u)}) :
          /\ row' = [u \in Tasks |-> AfterClaim(row[u], expired, claimed, u)]
          /\ full' = FillsBatch(claimed)
  BY DEF Claim
<1>2. claimed = {u \in Tasks : Ready(u)}
  <2>1. ~FillsBatch(claimed)
    BY <1>1, Zenon
  <2>2. Cardinality(claimed) # BatchSize
    BY <2>1, WakeupAssumption DEF FillsBatch
  <2> QED
    BY <1>1, <2>2 DEF Batches
<1>3. locked' = locked
  BY DEF Claim
<1>4. CASE t \in expired \cup claimed
  BY <1>1, <1>4
  DEF AfterClaim, Ready, Claimable, Available, Nothing, TypeOK, Row
<1>5. CASE t \notin expired \cup claimed
  <2>1. row'[t] = row[t] /\ ~Ready(t)
    BY <1>1, <1>2, <1>5 DEF AfterClaim
  <2> QED
    BY <1>3, <2>1 DEF Ready
<1> QED
  BY <1>4, <1>5

LEMMA DispatcherPunctual ==
    ASSUME PunctualInv, Dispatcher \/ NoticeLoss
    PROVE  Punctual'
<1>1. wait \in 0..IdlePoll /\ IdlePoll \in Nat /\ IdlePoll > 0
  BY WakeupAssumption DEF PunctualInv, TypeOK
<1>2. \A t \in Tasks : late[t] \in Nat
  BY DEF PunctualInv, TypeOK
<1>3. CASE Claim
  <2>1. LateKept /\ pc' = "due"
    BY <1>3 DEF Claim
  <2>2. \A t \in Tasks : late'[t] = late[t] \/ late'[t] = 0
    BY <2>1 DEF LateKept
  <2>3. \A t \in Tasks : late'[t] <= IdlePoll
    BY <1>1, <2>2 DEF PunctualInv, Punctual
  <2>4. ~full' => \A t \in Tasks : late'[t] = 0
    BY <1>3, <2>1, ClaimTakesAll DEF LateKept, PunctualInv
  <2> QED
    BY <2>1, <2>3, <2>4, LateKeptReady DEF Punctual
<1>4. CASE NextDue
  <2>1. wait' \in 0..IdlePoll
    BY <1>4, DispatcherType DEF Dispatcher, PunctualInv, TypeOK
  <2>2. \A t \in Tasks : late[t] = 0
    BY <1>4 DEF NextDue, PunctualInv, Punctual
  <2>3. UNCHANGED <<row, locked, late>> /\ pc' = "pause"
    BY <1>4 DEF NextDue, table
  <2> QED
    BY <1>1, <2>1, <2>2, <2>3 DEF Punctual, Ready
<1>5. CASE SkipWait \/ StartWait \/ Notified \/ TimesOut \/ NoticeLoss
  <2>1. UNCHANGED <<row, locked, late>>
    BY <1>5
    DEF SkipWait, StartWait, Notified, TimesOut, NoticeLoss, WakesUp, table,
        history
  <2>2. \/ pc' = "claim"
        \/ pc = "pause" /\ pc' = "waiting" /\ wait' = wait
    BY <1>5 DEF SkipWait, StartWait, Notified, TimesOut, NoticeLoss, WakesUp
  <2> QED
    BY <2>1, <2>2 DEF PunctualInv, Punctual, Ready
<1> QED
  BY <1>3, <1>4, <1>5 DEF Dispatcher

LEMMA TickPunctual ==
    ASSUME PunctualInv, Tick
    PROVE  Punctual'
<1>1. /\ wait \in Nat /\ IdlePoll \in Nat
      /\ pc = "waiting" /\ wait > 0 /\ wait' = wait - 1 /\ pc' = pc
  <2>1. wait \in 0..IdlePoll
    BY DEF PunctualInv, TypeOK
  <2>2. pc = "waiting" /\ wait > 0 /\ wait' = wait - 1 /\ pc' = pc
    BY DEF Tick
  <2> QED
    BY <2>1, <2>2, WakeupAssumption
<1>2. \A t \in Tasks : late[t] \in Nat /\ late[t] + wait <= IdlePoll
  BY <1>1 DEF PunctualInv, TypeOK, Punctual
<1>3. ASSUME NEW t \in Tasks
      PROVE  /\ late'[t] > 0 => Ready(t)'
             /\ late'[t] + wait' <= IdlePoll
             /\ late'[t] <= IdlePoll
  <2>1. \/ late'[t] = late[t] + 1 /\ Ready(t)'
        \/ late'[t] = 0
    BY Zenon DEF Tick
  <2>2. CASE late'[t] = late[t] + 1 /\ Ready(t)'
    BY <1>1, <1>2, <2>2
  <2>3. CASE late'[t] = 0
    <3>1. ~(late'[t] > 0) /\ 0 + (wait - 1) <= IdlePoll /\ 0 <= IdlePoll
      BY <1>1, <1>2, <2>3
    <3> QED
      BY <1>1, <2>3, <3>1
  <2> QED
    BY <2>1, <2>2, <2>3
<1> QED
  BY <1>1, <1>3 DEF Punctual

LEMMA NextPunctual == PunctualInv /\ [Next]_vars => PunctualInv'
<1> SUFFICES ASSUME PunctualInv, [Next]_vars PROVE Punctual'
  BY NextType DEF PunctualInv
<1>1. CASE LoseConnection \/ OtherQueue \/ UNCHANGED vars
  BY <1>1
  DEF LoseConnection, OtherQueue, vars, table, history, PunctualInv, Punctual,
      Ready
<1> QED
  BY <1>1, DispatcherPunctual, TickPunctual, ProducersPunctual, OthersPunctual
  DEF Next

LEMMA PunctualInvariant == Spec => []PunctualInv
<1>1. Init => PunctualInv
  BY InitType, WakeupAssumption DEF Init, PunctualInv, Punctual
<1> QED
  BY <1>1, NextPunctual, PTL DEF Spec

(* The poll alone keeps next_due, _bounded_wait and wait_for_work correct: *)
(* no row stays ready beyond the poll interval, whatever notifications and *)
(* listeners do.                                                           *)
THEOREM PollIsEnough == Spec => []TimelyClaim
<1>1. PunctualInv => TimelyClaim
  BY DEF PunctualInv, Punctual, TimelyClaim
<1> QED
  BY <1>1, PunctualInvariant, PTL
-----------------------------------------------------------------------------
(* Notifications.                                                          *)

(* What was announced since the last claim is still behind an unread       *)
(* notification, its own or the ones that filled the queue, unless the     *)
(* dispatcher is about to claim.                                           *)
Heeded == announced # {} => inbox # {} \/ pc = "claim"

WakeInv == TypeOK /\ Heeded

LEMMA EmptyInbox == Cardinality({}) = 0
  BY FS_EmptySet

(* A full queue is not an empty one.                                       *)
LEMMA NotifyFills ==
    ASSUME NEW t, Notify(t), listener = "listening"
    PROVE  inbox' # {}
<1>1. CASE Cardinality(inbox) < MaxQueueSize
  BY <1>1 DEF Notify
<1>2. CASE ~(Cardinality(inbox) < MaxQueueSize)
  <2>1. inbox # {}
    BY <1>2, EmptyInbox, WakeupAssumption
  <2> QED
    BY <1>2, <2>1 DEF Notify
<1> QED
  BY <1>1, <1>2

LEMMA NotifyKeeps ==
    ASSUME NEW t, Notify(t)
    PROVE  inbox' \in {inbox, inbox \cup {t}}
  BY DEF Notify

LEMMA AnnounceHeeded ==
    ASSUME Heeded, NEW t, Notify(t), Announce(t), pc' = pc
    PROVE  Heeded'
<1>1. CASE listener = "listening"
  BY <1>1, NotifyFills DEF Heeded
<1>2. CASE listener # "listening"
  <2>1. announced' = announced /\ inbox' = inbox
    BY <1>2 DEF Announce, Notify
  <2> QED
    BY <2>1 DEF Heeded
<1> QED
  BY <1>1, <1>2

LEMMA TasksHeeded ==
    ASSUME WakeInv, NEW t \in Tasks, Producers(t) \/ Others(t)
    PROVE  Heeded'
<1>1. CASE Commit(t)
  BY <1>1, AnnounceHeeded DEF Commit, WakeInv
<1>2. CASE Return(t)
  <2>1. pc' = pc
    BY <1>2 DEF Return, Rewritten
  <2>2. CASE Notify(t) /\ Announce(t)
    BY <2>1, <2>2, AnnounceHeeded DEF WakeInv
  <2>3. CASE UNCHANGED <<inbox, announced>>
    BY <2>1, <2>3 DEF WakeInv, Heeded
  <2> QED
    BY <1>2, <2>2, <2>3 DEF Return
<1>3. CASE ~Commit(t) /\ ~Return(t)
  <2>1. announced' \subseteq announced /\ inbox' = inbox /\ pc' = pc
    BY <1>3
    DEF Producers, Others, Insert, Rollback, Fail, Finish, Lock,
        LockCommits, LockRollsBack, Rewritten, history
  <2> QED
    BY <2>1 DEF WakeInv, Heeded
<1> QED
  BY <1>1, <1>2, <1>3

LEMMA DispatcherHeeded ==
    ASSUME WakeInv, Dispatcher \/ NoticeLoss
    PROVE  Heeded'
  BY DEF Dispatcher, Claim, NextDue, SkipWait, StartWait, KeptUnread, Notified,
         TimesOut, NoticeLoss, WakesUp, history, WakeInv, Heeded

LEMMA NextWake == WakeInv /\ [Next]_vars => WakeInv'
<1> SUFFICES ASSUME WakeInv, [Next]_vars PROVE Heeded'
  BY NextType DEF WakeInv
<1>1. CASE Tick
  BY <1>1 DEF Tick, WakeInv, Heeded
<1>2. CASE OtherQueue
  <2>1. inbox' \in {inbox, inbox \cup {Elsewhere}}
    BY <1>2, NotifyKeeps DEF OtherQueue
  <2>2. UNCHANGED <<announced, pc>>
    BY <1>2 DEF OtherQueue, history
  <2> QED
    BY <2>1, <2>2 DEF WakeInv, Heeded
<1>3. CASE LoseConnection \/ UNCHANGED vars
  BY <1>3 DEF LoseConnection, vars, history, WakeInv, Heeded
<1> QED
  BY <1>1, <1>2, <1>3, DispatcherHeeded, TasksHeeded DEF Next

LEMMA WakeInvariant == Spec => []WakeInv
<1>1. Init => WakeInv
  BY InitType DEF Init, WakeInv, Heeded
<1> QED
  BY <1>1, NextWake, PTL DEF Spec

(* A row that a listener was told of waits no longer: no full queue, claim *)
(* under way or lost connection makes the loop sleep on it.                *)
THEOREM AnnouncedIsPrompt == Spec => PromptClaim
<1>1. ASSUME WakeInv, [Next]_vars, NEW t \in announced
      PROVE  late'[t] <= late[t]
  <2>1. t \in Tasks /\ late[t] \in Nat
    BY <1>1 DEF WakeInv, TypeOK
  <2>2. ~Tick
    BY <1>1 DEF Tick, WakeInv, Heeded
  <2>3. late' = late \/ LateKept
    BY <1>1, <2>2
    DEF Next, Dispatcher, Claim, NextDue, SkipWait, StartWait, Notified,
        TimesOut, NoticeLoss, WakesUp, LoseConnection, OtherQueue, Producers,
        Insert, Commit, Rollback, Others, Return, Fail, Finish, Lock,
        LockCommits, LockRollsBack, Rewritten, vars, history
  <2>4. late'[t] = late[t] \/ late'[t] = 0
    BY <2>1, <2>3 DEF LateKept
  <2>5. CASE late'[t] = late[t]
    BY <2>1, <2>5
  <2>6. CASE late'[t] = 0
    BY <2>1, <2>6
  <2> QED
    BY <2>4, <2>5, <2>6
<1>2. WakeInv /\ [Next]_vars => [\A t \in announced : late'[t] <= late[t]]_vars
  BY <1>1
<1> QED
  BY <1>2, WakeInvariant, PTL DEF Spec, PromptClaim

-----------------------------------------------------------------------------
(* Waits that end in time, and waits that take time.                       *)

(* The rows next_due saw are still there, unwritten, until the wait ends,  *)
(* and a wait starts with at least a tick to serve.                        *)
Foreseen ==
    pc \in {"pause", "waiting"} =>
        \A t \in foreseen :
            /\ Scheduled(row[t])
            /\ wait <= 1 \/ wait <= WakeAt(row[t])

ForeseenInv == TypeOK /\ Foreseen

LEMMA TasksForeseen ==
    ASSUME ForeseenInv, NEW t \in Tasks, Producers(t) \/ Others(t)
    PROVE  Foreseen'
<1>1. pc' = pc /\ wait' = wait
  BY DEF Producers, Others, Insert, Commit, Rollback, Return, Fail, Finish,
         Lock, LockCommits, LockRollsBack, Rewritten
<1>2. foreseen' \subseteq foreseen /\ foreseen \subseteq Tasks
  BY DEF Producers, Others, Insert, Commit, Rollback, Return, Fail, Finish,
         Lock, LockCommits, LockRollsBack, Rewritten, history, ForeseenInv,
         TypeOK
<1>3. \A u \in Tasks \ {t} : row'[u] = row[u]
  BY DEF Producers, Others, Insert, Commit, Rollback, Return, Fail, Finish,
         Lock, LockCommits, LockRollsBack, ForeseenInv, TypeOK
<1>4. \/ t \notin foreseen'
      \/ row' = row
      \/ ~Scheduled(row[t])
  BY DEF Producers, Others, Insert, Commit, Rollback, Return, Fail, Finish,
         Lock, LockCommits, LockRollsBack, Rewritten, Scheduled, Available
<1>5. ASSUME pc \in {"pause", "waiting"}, NEW u \in foreseen'
      PROVE  row'[u] = row[u]
  <2>1. u \in foreseen /\ u \in Tasks /\ Scheduled(row[u])
    BY <1>2, <1>5 DEF ForeseenInv, Foreseen
  <2> QED
    BY <1>3, <1>4, <2>1
<1> QED
  BY <1>1, <1>2, <1>5 DEF ForeseenInv, Foreseen, Scheduled, Available, WakeAt

LEMMA DispatcherForeseen ==
    ASSUME ForeseenInv, Dispatcher \/ NoticeLoss
    PROVE  Foreseen'
<1>1. CASE NextDue
  <2>1. foreseen' = Seen /\ UNCHANGED row
    BY <1>1 DEF NextDue, Seen, table
  <2>2. ASSUME NEW t \in Seen
        PROVE  wait' <= 1 \/ wait' <= WakeAt(row[t])
    <3>1. WakeAt(row[t]) \in DueInstants
      BY DEF DueInstants
    <3>2. PICK due \in DueInstants :
              (\A other \in DueInstants : due <= other)
              /\ wait' = BoundedWait(due)
      BY <1>1, <3>1 DEF NextDue
    <3>3. due \in 0..MaxTicks /\ WakeAt(row[t]) \in 0..MaxTicks
      BY WakeAtType DEF DueInstants, Seen, ForeseenInv, TypeOK
    <3>4. due <= WakeAt(row[t]) /\ due # Null /\ due \in Instants
      BY <3>1, <3>2, <3>3, WakeupAssumption DEF Instants
    <3>5. /\ BoundedWait(due) \in 1..IdlePoll
          /\ BoundedWait(due) <= 1 \/ BoundedWait(due) <= due
      BY <3>4, BoundedWaitType
    <3>6. BoundedWait(due) <= 1 \/ BoundedWait(due) <= WakeAt(row[t])
      BY <3>3, <3>4, <3>5, WakeupAssumption
    <3> QED
      BY <3>2, <3>6
  <2>3. \A t \in Seen : Scheduled(row[t])
    BY DEF Seen
  <2> QED
    BY <2>1, <2>2, <2>3 DEF Foreseen, Scheduled, Available, WakeAt
<1>2. CASE StartWait
  BY <1>2
  DEF StartWait, table, history, ForeseenInv, Foreseen, Scheduled, Available,
      WakeAt
<1>3. CASE ~NextDue /\ ~StartWait
  <2>1. pc' \in {"claim", "due"}
    BY <1>3
    DEF Dispatcher, Claim, SkipWait, Notified, TimesOut, NoticeLoss, WakesUp
  <2> QED
    BY <2>1 DEF Foreseen
<1> QED
  BY <1>1, <1>2, <1>3

(* A tick brings the instant of a row and the end of the wait nearer.      *)
LEMMA WakeAtSooner ==
    ASSUME NEW r \in Row, Scheduled(r), WakeAt(r) > 0,
           NEW q \in Row,
           q = [r EXCEPT !.scheduled_for = Sooner(@), !.expires_at = Sooner(@)]
    PROVE  WakeAt(q) = WakeAt(r) - 1
<1>1. /\ q.scheduled_for = Sooner(r.scheduled_for)
      /\ q.expires_at = Sooner(r.expires_at)
  BY DEF Row
<1>2. r.scheduled_for \in 0..MaxTicks /\ r.expires_at \in Instants
  BY DEF Row, Scheduled, Instants
<1>3. r.scheduled_for # Null /\ MaxTicks \in Nat
  BY WakeupAssumption DEF Scheduled
<1>4. CASE r.expires_at = Null
  BY <1>1, <1>2, <1>3, <1>4 DEF WakeAt, Sooner
<1>5. CASE r.expires_at # Null
  <2>1. r.expires_at \in 0..MaxTicks
    BY <1>2, <1>5 DEF Instants
  <2>2. \A n \in Int : n # Null
    BY WakeupAssumption
  <2> QED
    BY <1>1, <1>2, <1>3, <1>5, <2>1, <2>2 DEF WakeAt, Sooner
<1> QED
  BY <1>4, <1>5

LEMMA TickForeseen ==
    ASSUME ForeseenInv, Tick
    PROVE  Foreseen'
<1>1. /\ wait \in Nat /\ pc = "waiting" /\ wait > 0
      /\ pc' = pc /\ wait' = wait - 1 /\ foreseen' = foreseen
  <2>1. wait \in 0..IdlePoll
    BY DEF ForeseenInv, TypeOK
  <2>2. /\ pc = "waiting" /\ wait > 0
        /\ pc' = pc /\ wait' = wait - 1 /\ foreseen' = foreseen
    BY DEF Tick
  <2> QED
    BY <2>1, <2>2, WakeupAssumption
<1>2. ASSUME NEW t \in foreseen
      PROVE  /\ Scheduled(row'[t])
             /\ wait - 1 <= 1 \/ wait - 1 <= WakeAt(row'[t])
  <2>1. /\ t \in Tasks /\ row[t] \in Row /\ Scheduled(row[t])
        /\ wait <= 1 \/ wait <= WakeAt(row[t])
    BY <1>1 DEF ForeseenInv, Foreseen, TypeOK
  <2>2. row'[t] \in Row
    BY <2>1, TickType DEF ForeseenInv, TypeOK
  <2>3. row'[t] = [row[t] EXCEPT !.scheduled_for = Sooner(@),
                                 !.expires_at = Sooner(@)]
    BY <2>1, Zenon DEF Tick
  <2>4. Scheduled(row'[t])
    <3>1. row[t].scheduled_for \in 0..MaxTicks
      BY <2>1 DEF Scheduled, Row, Instants
    <3>2. row[t].scheduled_for # Null
          /\ Sooner(row[t].scheduled_for) \in Int
      BY <2>1, <3>1, WakeupAssumption DEF Sooner, Scheduled
    <3> QED
      BY <2>1, <2>3, <3>2, WakeupAssumption DEF Scheduled, Available, Row
  <2>5. WakeAt(row[t]) \in 0..MaxTicks
    BY <2>1, WakeAtType
  <2>6. CASE wait <= 1
    BY <1>1, <2>4, <2>6
  <2>7. CASE wait > 1
    <3>1. wait <= WakeAt(row[t]) /\ WakeAt(row[t]) > 0
      BY <1>1, <2>1, <2>5, <2>7, WakeupAssumption
    <3>2. WakeAt(row'[t]) = WakeAt(row[t]) - 1
      BY <2>1, <2>2, <2>3, <3>1, WakeAtSooner
    <3>3. wait - 1 <= WakeAt(row[t]) - 1
      BY <1>1, <2>5, <3>1, WakeupAssumption
    <3> QED
      BY <2>4, <3>2, <3>3
  <2> QED
    BY <1>1, <2>6, <2>7
<1> QED
  BY <1>1, <1>2 DEF Foreseen, Scheduled, Available, WakeAt

LEMMA NextForeseen == ForeseenInv /\ [Next]_vars => ForeseenInv'
<1> SUFFICES ASSUME ForeseenInv, [Next]_vars PROVE Foreseen'
  BY NextType DEF ForeseenInv
<1>1. CASE LoseConnection \/ OtherQueue \/ UNCHANGED vars
  BY <1>1
  DEF LoseConnection, OtherQueue, vars, table, history, ForeseenInv, Foreseen,
      Scheduled, Available, WakeAt
<1> QED
  BY <1>1, DispatcherForeseen, TickForeseen, TasksForeseen DEF Next

(* A wait of next_due and _bounded_wait ends when the first instant it     *)
(* could foresee is reached, or a tick later when that had passed.         *)
THEOREM WaitsArePunctual == Spec => []PunctualWake
<1>1. Init => ForeseenInv
  BY InitType DEF Init, ForeseenInv, Foreseen
<1>2. ForeseenInv => PunctualWake
  BY DEF ForeseenInv, Foreseen, PunctualWake
<1> QED
  BY <1>1, <1>2, NextForeseen, PTL DEF Spec

(* When the dispatcher may have nothing to show for its last claim.        *)
Idling ==
    /\ idle <= 1
    /\ pc = "claim" => idle = 0
    /\ pc = "due" /\ full => idle = 0
    /\ pc = "pause" => wait > 0
    /\ pc = "waiting" /\ wait = 0 => idle = 0

IdlingInv == TypeOK /\ Idling

LEMMA DispatcherIdling ==
    ASSUME IdlingInv, Dispatcher \/ NoticeLoss
    PROVE  Idling'
<1> USE DEF Idling
<1>1. CASE Claim
  <2>1. PICK expired \in SUBSET Tasks, claimed \in SUBSET Tasks :
            /\ full' = FillsBatch(claimed)
            /\ idle' = IF expired \cup claimed # {} THEN 0
                       ELSE IF idle < 2 THEN idle + 1 ELSE idle
    BY <1>1 DEF Claim, Batches
  <2>2. idle = 0 /\ pc' = "due"
    BY <1>1 DEF Claim, IdlingInv
  <2>3. CASE claimed = {}
    <3>1. ~FillsBatch(claimed)
      BY <2>3, EmptyInbox, WakeupAssumption DEF FillsBatch
    <3>2. ~full'
      BY <2>1, <3>1, Zenon
    <3>3. idle' <= 1
      BY <2>1, <2>2
    <3> QED
      BY <2>2, <3>2, <3>3
  <2>4. CASE claimed # {}
    BY <2>1, <2>2, <2>4
  <2> QED
    BY <2>3, <2>4
<1>2. CASE NextDue
  <2>1. wait' > 0
    <3>1. DueInstants \subseteq Instants
      BY WakeAtType DEF DueInstants, Seen, IdlingInv, TypeOK, Instants
    <3>2. wait' \in 1..IdlePoll
      BY <1>2, <3>1, BoundedWaitType DEF NextDue, Instants
    <3> QED
      BY <3>2, WakeupAssumption
  <2> QED
    BY <1>2, <2>1 DEF NextDue, IdlingInv
<1>3. CASE SkipWait \/ StartWait
  BY <1>3 DEF SkipWait, StartWait, table, history, IdlingInv
<1>4. CASE Notified \/ TimesOut \/ NoticeLoss
  BY <1>4 DEF Notified, TimesOut, NoticeLoss, WakesUp, IdlingInv
<1> QED
  BY <1>1, <1>2, <1>3, <1>4 DEF Dispatcher

LEMMA NextIdling == IdlingInv /\ [Next]_vars => IdlingInv'
<1> SUFFICES ASSUME IdlingInv, [Next]_vars PROVE Idling'
  BY NextType DEF IdlingInv
<1>1. CASE Tick
  <2>1. idle' = 0 /\ pc' = "waiting"
    BY <1>1 DEF Tick
  <2> QED
    BY <2>1 DEF Idling
<1>2. ASSUME NEW t \in Tasks, Producers(t) \/ Others(t)
      PROVE  UNCHANGED <<pc, full, wait, idle>>
  BY <1>2
  DEF Producers, Others, Insert, Commit, Rollback, Return, Fail, Finish, Lock,
      LockCommits, LockRollsBack, Rewritten, history
<1>3. CASE UNCHANGED <<pc, full, wait, idle>>
  BY <1>3 DEF IdlingInv, Idling
<1>4. CASE LoseConnection \/ OtherQueue \/ UNCHANGED vars
  BY <1>3, <1>4 DEF LoseConnection, OtherQueue, vars, history
<1> QED
  BY <1>1, <1>2, <1>3, <1>4, DispatcherIdling DEF Next

(* The floor of _bounded_wait is enough: no more than one claim in a row   *)
(* finds nothing before time passes or a notification comes.               *)
THEOREM NeverSpins == Spec => []NoSpin
<1>1. Init => IdlingInv
  BY InitType DEF Init, IdlingInv, Idling
<1>2. IdlingInv => NoSpin
  BY DEF IdlingInv, Idling, NoSpin
<1> QED
  BY <1>1, <1>2, NextIdling, PTL DEF Spec
=============================================================================
