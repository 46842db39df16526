------------------------ MODULE DispatcherLoopProofs ------------------------
(***************************************************************************)
(* Proofs about the dispatcher's loop, for every base, cap and interval.   *)
(***************************************************************************)
EXTENDS DispatcherLoop, TLAPS

(* A failure leaves a backoff of at most the longest delay, and of at least*)
(* one tick if neither base nor cap is none.                               *)
LEMMA NoteFailureBounds ==
    ASSUME NEW cap \in Nat, NEW b \in Backoff(cap)
    PROVE  /\ NoteFailure(b, cap) \in Backoff(cap)
           /\ Base > 0 /\ cap > 0 => NoteFailure(b, cap).delay > 0
  BY PacingAssumption DEF NoteFailure, Doubled, Backoff, LongestDelay, Larger

(* A tick shortens what is owed and leaves the delay alone.                *)
LEMMA LaterBounds ==
    ASSUME NEW cap \in Nat, NEW b \in Backoff(cap)
    PROVE  /\ Later(b) \in Backoff(cap)
           /\ Later(b).delay = b.delay
           /\ Later(b).left = Sooner(b.left)
  BY PacingAssumption DEF Later, Sooner, Backoff, LongestDelay, Larger

LEMMA HealthyBounds ==
    ASSUME NEW cap \in Nat
    PROVE  Healthy \in Backoff(cap) /\ Healthy.delay = 0 /\ Healthy.left = 0
  BY PacingAssumption DEF Healthy, Backoff, LongestDelay, Larger

-----------------------------------------------------------------------------
(* Type correctness.                                                       *)

LEMMA InitType == Init => TypeOK
<1>1. LongestWait \in Nat
  BY PacingAssumption DEF LongestWait, LongestDelay, Larger
<1> QED
  <2> SUFFICES ASSUME Init PROVE TypeOK
    OBVIOUS
  <2>1. Healthy \in Backoff(TransportCap) /\ Healthy \in Backoff(DatabaseCap)
    BY HealthyBounds, PacingAssumption
  <2>2. wait \in 0..LongestWait /\ sweep_age \in 0..SweepInterval
    BY <1>1, PacingAssumption DEF Init
  <2>3. /\ beat_age \in 0..HeartbeatInterval
        /\ seen \in 0..Unlisted /\ busy \in 0..Slack + 1
    BY PacingAssumption DEF Init, Unlisted
  <2> QED
    BY <2>1, <2>2, <2>3 DEF Init, TypeOK

(* What is owed fits the longest wait.                                     *)
LEMMA OwedBounds ==
    ASSUME TypeOK
    PROVE  /\ Owed \in 0..LongestWait
           /\ LongestWait \in Nat
           /\ IdlePoll <= LongestWait
  BY PacingAssumption
  DEF TypeOK, Owed, LongestWait, LongestDelay, Larger, Backoff

LEMMA StepType ==
    ASSUME TypeOK, Step
    PROVE  TypeOK'
<1> USE PacingAssumption, HealthyBounds DEF TypeOK
<1>1. TransportFails => transport' \in Backoff(TransportCap)
  BY NoteFailureBounds DEF TransportFails
<1>2. DatabaseFails => database' \in Backoff(DatabaseCap)
  BY NoteFailureBounds DEF DatabaseFails
<1>3. CASE Begin \/ SkipBatch \/ ClaimBatch \/ EndBackoff \/ PollAgain
  BY <1>3
  DEF Begin, SkipBatch, ClaimBatch, EndBackoff, PollAgain, health, readiness
<1>4. CASE RetryRelease
  BY <1>2, <1>4 DEF RetryRelease, readiness
<1>5. CASE MaybeSweep
  BY <1>5 DEF MaybeSweep, SweepDue, health, readiness
<1>6. CASE EmptyClaim \/ SendBatch
  BY <1>6 DEF EmptyClaim, SendBatch, AfterEmptyClaim, readiness
<1>7. CASE ClaimFails \/ NextDueFails
  <2>1. wait' \in 0..LongestWait
    BY <1>7, OwedBounds DEF ClaimFails, NextDueFails, IterationFails
  <2> QED
    BY <1>2, <1>7, <2>1
    DEF ClaimFails, NextDueFails, IterationFails, readiness
<1>8. CASE SendFails
  BY <1>1, <1>2, <1>8 DEF SendFails, readiness
<1>9. CASE NextDue
  <2>1. wait' \in 0..LongestWait
    BY <1>9, OwedBounds, PacingAssumption DEF NextDue
  <2> QED
    BY <1>9, <2>1 DEF NextDue, AfterIteration, readiness
<1>10. CASE Pause
  BY <1>10, OwedBounds DEF Pause, health, readiness
<1>11. CASE MaybeHeartbeat
  BY <1>11 DEF MaybeHeartbeat, Heartbeat, BeatDue, health, Unlisted
<1>12. CASE Close
  <2>1. seen' \in 0..Unlisted
    BY <1>12 DEF Close, Unlisted
  <2> QED
    BY <1>12, <2>1 DEF Close, health
<1> QED
  BY <1>3, <1>4, <1>5, <1>6, <1>7, <1>8, <1>9, <1>10, <1>11, <1>12 DEF Step

LEMMA TickType ==
    ASSUME TypeOK, Tick
    PROVE  TypeOK'
<1>1. /\ transport' \in Backoff(TransportCap)
      /\ database' \in Backoff(DatabaseCap)
  BY PacingAssumption, LaterBounds DEF TypeOK, Tick
<1>2. wait' \in 0..LongestWait /\ sweep_age' \in 0..SweepInterval
  BY PacingAssumption
  DEF TypeOK, Tick, Sooner, LongestWait, LongestDelay, Larger, Older
<1>3. /\ beat_age' \in 0..HeartbeatInterval /\ seen' \in 0..Unlisted
      /\ busy' \in 0..Slack + 1
  BY PacingAssumption DEF TypeOK, Tick, Older, Unlisted
<1> QED
  BY <1>1, <1>2, <1>3 DEF TypeOK, Tick

LEMMA NextType == TypeOK /\ [Next]_vars => TypeOK'
<1> SUFFICES ASSUME TypeOK, [Next]_vars PROVE TypeOK'
  OBVIOUS
<1>1. CASE Step
  BY <1>1, StepType
<1>2. CASE Tick
  BY <1>2, TickType
<1>3. CASE Notified \/ Stop \/ Weather \/ UNCHANGED vars
  BY <1>3 DEF TypeOK, Notified, Stop, Weather, vars, health, readiness
<1> QED
  BY <1>1, <1>2, <1>3 DEF Next

(* The backoffs of Dispatcher.run stay within their caps, whatever fails.  *)
THEOREM LoopTypeCorrect == Spec => []TypeOK
  BY InitType, NextType, PTL DEF Spec

-----------------------------------------------------------------------------
(* Backoffs are served.                                                    *)

Nothing(b) == b.left = 0

(* What an iteration may count on where it is: nothing is owed when it     *)
(* begins, nor to the transport until it is called, nor to the database    *)
(* unless a release has just failed; a sleep lasts as long as what is owed.*)
Served ==
    /\ pc = "top" => stopping \/ (Nothing(transport) /\ Nothing(database))
    /\ pc \in {"release", "heartbeat", "sweep", "batch", "sending"} =>
          Nothing(transport)
    /\ pc = "release" => Nothing(database)
    /\ pc \in {"heartbeat", "sweep", "batch", "sending"} =>
          stranded \/ Nothing(database)
    /\ pc = "sending" => ~stranded
    /\ pc = "waiting" => Nothing(transport) /\ Nothing(database)

LoopInv == TypeOK /\ Served /\ StrandedKeepsBackoff /\ WaitsWhatIsOwed

LEMMA InitLoopInv == Init => LoopInv
  BY InitType
  DEF Init, LoopInv, Served, StrandedKeepsBackoff, WaitsWhatIsOwed, Nothing,
      Healthy

LEMMA StepLoopInv ==
    ASSUME LoopInv, Step
    PROVE  Served' /\ StrandedKeepsBackoff' /\ WaitsWhatIsOwed'
<1> USE HealthyBounds
    DEF Served, StrandedKeepsBackoff, WaitsWhatIsOwed, Nothing
<1>1. TypeOK
  BY DEF LoopInv
<1>2. DatabaseFails => (Base > 0 /\ DatabaseCap > 0 => database'.delay > 0)
  BY <1>1, NoteFailureBounds, PacingAssumption DEF DatabaseFails, TypeOK
<1>3. CASE Begin \/ Close \/ SkipBatch \/ ClaimBatch
  BY <1>3 DEF LoopInv, Begin, GoesOn, Close, SkipBatch, ClaimBatch, health
<1>4. CASE RetryRelease
  BY <1>2, <1>4, PacingAssumption DEF LoopInv, RetryRelease
<1>5. CASE MaybeHeartbeat \/ MaybeSweep
  BY <1>5 DEF LoopInv, MaybeHeartbeat, Heartbeat, MaybeSweep, health
<1>6. CASE EmptyClaim \/ SendBatch
  BY <1>6 DEF LoopInv, EmptyClaim, SendBatch
<1>7. CASE ClaimFails \/ NextDueFails
  BY <1>2, <1>7 DEF LoopInv, ClaimFails, NextDueFails, IterationFails
<1>8. CASE SendFails
  BY <1>2, <1>8 DEF LoopInv, SendFails
<1>9. CASE NextDue
  BY <1>9 DEF LoopInv, NextDue, AfterIteration
<1>10. CASE Pause
  <2>1. Owed = 0 => Nothing(transport) /\ Nothing(database)
    BY <1>1, PacingAssumption DEF Owed, TypeOK, Backoff, LongestDelay, Larger
  <2>2. Owed' = Owed
    BY <1>10 DEF Pause, health, Owed
  <2> QED
    BY <1>10, <2>1, <2>2 DEF LoopInv, Pause, health
<1>11. CASE EndBackoff
  <2>1. wait = 0 => Nothing(transport) /\ Nothing(database)
    BY <1>1, <1>11, PacingAssumption
    DEF LoopInv, EndBackoff, LongestDelay, Larger, Owed, TypeOK, Backoff
  <2> QED
    BY <1>11, <2>1 DEF LoopInv, EndBackoff, health
<1>12. CASE PollAgain
  BY <1>12 DEF LoopInv, PollAgain, health
<1> QED
  BY <1>3, <1>4, <1>5, <1>6, <1>7, <1>8, <1>9, <1>10, <1>11, <1>12 DEF Step

LEMMA TickLoopInv ==
    ASSUME LoopInv, Tick
    PROVE  Served' /\ StrandedKeepsBackoff' /\ WaitsWhatIsOwed'
<1>1. /\ transport \in Backoff(TransportCap) /\ database \in Backoff(DatabaseCap)
      /\ wait \in Nat
  BY PacingAssumption DEF LoopInv, TypeOK, LongestWait, LongestDelay, Larger
<1>2. /\ transport'.left = Sooner(transport.left)
      /\ database'.left = Sooner(database.left)
      /\ database'.delay = database.delay
  BY <1>1, LaterBounds, PacingAssumption DEF Tick
<1>3. transport.left \in Nat /\ database.left \in Nat
  BY <1>1, PacingAssumption DEF Backoff
<1>4. Served'
  BY <1>2, <1>3 DEF LoopInv, Served, Nothing, Tick, Sooner
<1>5. StrandedKeepsBackoff'
  BY <1>2 DEF LoopInv, StrandedKeepsBackoff, Tick
<1>6. WaitsWhatIsOwed'
  BY <1>1, <1>2, <1>3 DEF LoopInv, WaitsWhatIsOwed, Larger, Owed, Tick, Sooner, Waits
<1> QED
  BY <1>4, <1>5, <1>6

LEMMA NextLoopInv == LoopInv /\ [Next]_vars => LoopInv'
<1> SUFFICES ASSUME LoopInv, [Next]_vars
             PROVE  Served' /\ StrandedKeepsBackoff' /\ WaitsWhatIsOwed'
  BY NextType DEF LoopInv
<1>1. CASE Step
  BY <1>1, StepLoopInv
<1>2. CASE Tick
  BY <1>2, TickLoopInv
<1>3. CASE Notified \/ Stop \/ Weather \/ UNCHANGED vars
  BY <1>3
  DEF LoopInv, Served, StrandedKeepsBackoff, WaitsWhatIsOwed, Nothing, Owed,
      Notified, Stop, Weather, vars, health
<1> QED
  BY <1>1, <1>2, <1>3 DEF Next

LEMMA LoopInvariant == Spec => []LoopInv
  BY InitLoopInv, NextLoopInv, PTL DEF Spec

(* No iteration of Dispatcher.run claims before the backoffs of the        *)
(* failures before it have been served, for any base, cap and poll.        *)
THEOREM BackoffServed == Spec => []NoClaimDuringBackoff
<1>1. LoopInv => NoClaimDuringBackoff
  BY DEF LoopInv, Served, NoClaimDuringBackoff, Nothing
<1> QED
  BY <1>1, LoopInvariant, PTL

(* While IDs wait for release the database stays in backoff.               *)
THEOREM StrandedBackoffCorrect == Spec => []StrandedKeepsBackoff
<1>1. LoopInv => StrandedKeepsBackoff
  BY DEF LoopInv
<1> QED
  BY <1>1, LoopInvariant, PTL

(* The sleep of an iteration is what is still owed when it starts.         *)
THEOREM WaitCorrect == Spec => []WaitsWhatIsOwed
<1>1. LoopInv => WaitsWhatIsOwed
  BY DEF LoopInv
<1> QED
  BY <1>1, LoopInvariant, PTL
-----------------------------------------------------------------------------
(* One batch after the other.                                              *)

(* What stranded and pc say of a dispatcher's claims.                      *)
Phase == IF stranded THEN "stranded"
         ELSE IF pc = "sending" THEN "holding" ELSE "free"

LEMMA PhaseStep ==
    ASSUME LoopInv, [Next]_vars
    PROVE  \/ Phase' = Phase
           \/ Phase = "free" /\ Phase' = "holding"
           \/ Phase = "holding" /\ Phase' \in {"free", "stranded"}
           \/ Phase = "stranded" /\ Phase' = "free"
<1> USE DEF Phase
<1>1. pc = "sending" => ~stranded
  BY DEF LoopInv, Served
<1>2. CASE Begin \/ MaybeHeartbeat \/ MaybeSweep \/ SkipBatch \/ EmptyClaim
           \/ ClaimFails \/ NextDue \/ NextDueFails \/ Pause \/ EndBackoff
           \/ PollAgain \/ Notified
  BY <1>2
  DEF Begin, MaybeHeartbeat, MaybeSweep, SkipBatch, EmptyClaim, ClaimFails,
      NextDue, NextDueFails, IterationFails, Pause, EndBackoff, PollAgain,
      Notified
<1>3. CASE ClaimBatch
  BY <1>3 DEF ClaimBatch
<1>4. CASE SendBatch \/ SendFails
  BY <1>1, <1>4 DEF SendBatch, SendFails
<1>5. CASE RetryRelease \/ Close
  BY <1>5 DEF RetryRelease, Close, LoopInv, TypeOK
<1>6. CASE Stop \/ Weather \/ Tick \/ UNCHANGED vars
  BY <1>6 DEF Stop, Weather, Tick, vars
<1> QED
  BY <1>2, <1>3, <1>4, <1>5, <1>6 DEF Next, Step

(* Dispatcher.run never claims while it has something of an earlier batch  *)
(* on its hands, for any base, cap and poll.                               *)
THEOREM LoopCycleCorrect == Spec => CycleImplemented
<1> DEFINE phases == [d \in {"self"} |->
                        IF stranded THEN "stranded"
                        ELSE IF pc = "sending" THEN "holding" ELSE "free"]
<1>1. Init => Cycle!Init
  BY DEF Init, Cycle!Init
<1>2. LoopInv /\ [Next]_vars => [Cycle!Next]_phases
  <2> SUFFICES ASSUME LoopInv, [Next]_vars
               PROVE  Cycle!Next \/ phases' = phases
    OBVIOUS
  <2>1. /\ phases = [d \in {"self"} |-> Phase]
        /\ phases' = [d \in {"self"} |-> Phase']
    BY DEF Phase
  <2>2. ASSUME NEW from, NEW to, Phase = from, Phase' = to
        PROVE  Cycle!Turn("self", from, to)
    BY <2>1, <2>2 DEF Cycle!Turn
  <2> QED
    BY <2>1, <2>2, PhaseStep
    DEF Cycle!Next, Cycle!Take, Cycle!Dispose, Cycle!Strand, Cycle!Recover
<1> QED
  BY <1>1, <1>2, LoopInvariant, PTL DEF Spec, CycleImplemented, Cycle!Spec

-----------------------------------------------------------------------------
(* Heartbeats.                                                             *)

(* Once the heartbeat's turn in an iteration is over the row is younger    *)
(* than the interval, and it ages from there by the ticks that are not     *)
(* spent in a wait and by the one wait that ends the iteration.            *)
Heard ==
    LET since == HeartbeatInterval - 1 + busy
    IN  /\ beat_age < HeartbeatInterval => seen = beat_age
        /\ busy <= Slack =>
              /\ pc \in {"sweep", "batch", "sending", "due", "pause"} =>
                    seen <= since
              /\ pc \in {"backoff", "waiting"} =>
                    seen + wait <= since + LongestWait
              /\ pc \in {"top", "release", "heartbeat"} =>
                    seen <= since + LongestWait

HeardInv == TypeOK /\ (beaten /\ pc # "closed" => Heard)

(* What a wait adds to an age, whether it lies ahead or behind.            *)
LEMMA OneWait ==
    ASSUME NEW age \in Nat, NEW left \in Nat, NEW since \in Int,
           LongestWait \in Nat, left <= LongestWait
    PROVE  /\ age <= since => age + left <= since + LongestWait
           /\ age + left <= since + LongestWait => age <= since + LongestWait
  OBVIOUS

LEMMA StepHeardInv ==
    ASSUME HeardInv, Step, beaten', pc' # "closed"
    PROVE  Heard'
<1>1. /\ wait \in Nat /\ wait' \in Nat /\ wait <= LongestWait
      /\ wait' <= LongestWait /\ LongestWait \in Nat
      /\ seen \in Nat /\ busy \in Nat /\ beat_age \in Nat
  BY StepType, OwedBounds DEF HeardInv, TypeOK
<1>2. /\ HeartbeatInterval \in Nat /\ HeartbeatInterval > 0
      /\ StaleAfter \in Nat /\ Slack \in Nat
  BY PacingAssumption
<1>3. CASE MaybeHeartbeat
  <2>1. CASE BeatDue
    BY <1>1, <1>2, <1>3, <2>1 DEF MaybeHeartbeat, Heartbeat, Heard
  <2>2. CASE ~BeatDue
    <3>1. beat_age < HeartbeatInterval
      BY <1>2, <2>2 DEF HeardInv, TypeOK, BeatDue
    <3>2. seen = beat_age
      BY <1>3, <2>2, <3>1 DEF HeardInv, MaybeHeartbeat, Heartbeat, Heard
    <3>3. /\ pc' = "sweep" /\ busy' = 0
          /\ seen' = beat_age /\ beat_age' = beat_age
      BY <1>3, <2>2, <3>2 DEF MaybeHeartbeat, Heartbeat
    <3> QED
      BY <1>1, <1>2, <3>1, <3>3 DEF Heard
  <2> QED
    BY <2>1, <2>2
<1>4. CASE ~MaybeHeartbeat
  <2>1. pc # "closed" /\ UNCHANGED readiness
    BY <1>4
    DEF Step, Begin, Close, RetryRelease, MaybeSweep, SkipBatch, ClaimBatch,
        EmptyClaim, ClaimFails, SendBatch, SendFails, NextDue, NextDueFails,
        IterationFails, Pause, EndBackoff, PollAgain
  <2>2. Heard
    BY <2>1 DEF HeardInv, readiness
  <2>3. \/ pc \in {"sweep", "batch", "sending", "due", "pause"}
        \/ /\ pc \in {"backoff", "waiting", "top", "release"}
           /\ pc' \in {"top", "release", "heartbeat"}
    BY <1>4
    DEF Step, Begin, Close, RetryRelease, MaybeSweep, SkipBatch, ClaimBatch,
        EmptyClaim, ClaimFails, SendBatch, SendFails, NextDue, NextDueFails,
        IterationFails, Pause, EndBackoff, PollAgain
  <2>4. /\ beat_age' = beat_age /\ seen' = seen /\ busy' = busy
        /\ LongestWait' = LongestWait /\ Slack' = Slack
    BY <2>1 DEF readiness, LongestWait, Slack
  <2>5. HeartbeatInterval - 1 + busy \in Int
    BY <1>1, <1>2
  <2>6. CASE pc \in {"sweep", "batch", "sending", "due", "pause"}
    <3>1. busy <= Slack => seen <= HeartbeatInterval - 1 + busy
      BY <2>2, <2>6 DEF Heard
    <3>2. busy <= Slack =>
            /\ seen + wait' <= HeartbeatInterval - 1 + busy + LongestWait
            /\ seen <= HeartbeatInterval - 1 + busy + LongestWait
      BY <1>1, <2>5, <3>1, OneWait
    <3> QED
      BY <2>2, <2>4, <3>1, <3>2 DEF Heard
  <2>7. CASE pc \notin {"sweep", "batch", "sending", "due", "pause"}
    <3>1. busy <= Slack => seen <= HeartbeatInterval - 1 + busy + LongestWait
      BY <1>1, <2>2, <2>3, <2>5, <2>7, OneWait DEF Heard
    <3> QED
      BY <2>2, <2>3, <2>4, <2>7, <3>1 DEF Heard
  <2> QED
    BY <2>6, <2>7
<1> QED
  BY <1>3, <1>4

LEMMA TickHeardInv ==
    ASSUME HeardInv, Tick, beaten', pc' # "closed"
    PROVE  Heard'
<1>1. /\ wait \in Nat /\ LongestWait \in Nat /\ seen \in Nat /\ busy \in Nat
      /\ beat_age \in Nat /\ seen <= Unlisted /\ busy <= Slack + 1
      /\ beat_age <= HeartbeatInterval
  BY OwedBounds, PacingAssumption DEF HeardInv, TypeOK, Unlisted
<1>2. /\ HeartbeatInterval \in Nat /\ HeartbeatInterval > 0
      /\ StaleAfter \in Nat /\ Slack \in Nat
  BY PacingAssumption
<1>3. Heard /\ pc' = pc
  BY DEF HeardInv, Tick
<1>4. beat_age < HeartbeatInterval => seen < Unlisted
  BY <1>1, <1>2, <1>3 DEF Heard, Slack, Unlisted
<1> QED
  BY <1>1, <1>2, <1>3, <1>4 DEF Tick, Heard, Older, Sooner, Waits

LEMMA NextHeardInv == HeardInv /\ [Next]_vars => HeardInv'
<1> SUFFICES ASSUME HeardInv, [Next]_vars
             PROVE  beaten' /\ pc' # "closed" => Heard'
  BY NextType DEF HeardInv
<1>1. CASE Step
  BY <1>1, StepHeardInv
<1>2. CASE Tick
  BY <1>2, TickHeardInv
<1>3. CASE Notified
  BY <1>3, OwedBounds, PacingAssumption
  DEF HeardInv, TypeOK, Heard, Notified, readiness
<1>4. CASE Stop \/ Weather \/ UNCHANGED vars
  BY <1>4 DEF HeardInv, Heard, Stop, Weather, vars, readiness
<1> QED
  BY <1>1, <1>2, <1>3, <1>4 DEF Next

(* A dispatcher that runs stays in get_dispatchers, for any intervals,     *)
(* caps and freshness window that leave its calls some slack.              *)
THEOREM RunningIsListed == Spec => []ListedWhileRunning
<1>1. Init => HeardInv
  BY InitType DEF Init, HeardInv
<1>2. HeardInv => ListedWhileRunning
  <2> SUFFICES ASSUME HeardInv, beaten, busy <= Slack, pc # "closed"
               PROVE  seen <= StaleAfter
    BY DEF ListedWhileRunning
  <2>1. /\ wait \in Nat /\ LongestWait \in Nat /\ seen \in Nat /\ busy \in Nat
        /\ HeartbeatInterval \in Nat \ {0} /\ StaleAfter \in Nat
    BY OwedBounds, PacingAssumption DEF HeardInv, TypeOK, Unlisted
  <2>2. seen <= HeartbeatInterval - 1 + busy + LongestWait
    BY <2>1 DEF HeardInv, TypeOK, Heard
  <2> QED
    BY <2>1, <2>2 DEF Slack
<1> QED
  BY <1>1, <1>2, NextHeardInv, PTL DEF Spec
=============================================================================
