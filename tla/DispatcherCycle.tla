-------------------------- MODULE DispatcherCycle --------------------------
(***************************************************************************)
(* What a dispatcher does with its claims (dispatch_batch and the release  *)
(* of what was not sent, dispatcher.py), whatever fails meanwhile: it      *)
(* claims a batch only when it has nothing of an earlier one on its hands, *)
(* and a batch leaves its hands by being sent, released, or forgotten with *)
(* the process.                                                            *)
(***************************************************************************)
CONSTANT Dispatchers

(* What each has claimed and not yet disposed of: nothing, a batch, or     *)
(* rows whose release has failed.                                          *)
VARIABLE phase

Phases == {"free", "holding", "stranded"}

Init == phase = [d \in Dispatchers |-> "free"]

Turn(d, from, to) ==
    /\ phase[d] = from
    /\ phase' = [phase EXCEPT ![d] = to]

Take(d) == Turn(d, "free", "holding")

(* Every ID was sent, or what was not sent was released.                   *)
Dispose(d) == Turn(d, "holding", "free")

Strand(d) == Turn(d, "holding", "stranded")

(* The release gets through, or the process ends.                          *)
Recover(d) == Turn(d, "stranded", "free")

Next == \E d \in Dispatchers : Take(d) \/ Dispose(d) \/ Strand(d) \/ Recover(d)

Spec == Init /\ [][Next]_phase
=============================================================================
