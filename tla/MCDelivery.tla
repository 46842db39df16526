----------------------------- MODULE MCDelivery -----------------------------
(***************************************************************************)
(* Instances of Delivery for TLC.                                          *)
(***************************************************************************)
EXTENDS DeliveryProperties, TLC

(* Every dispatcher claims from every queue.                               *)
AllQueues == [d \in Dispatchers |-> Tasks]

(* Actors of one kind are interchangeable, and so are tasks.               *)
Symmetry ==
    Permutations(Tasks) \cup Permutations(Dispatchers)
        \cup Permutations(Workers) \cup Permutations(Sweepers)
=============================================================================
