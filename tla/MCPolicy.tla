------------------------------ MODULE MCPolicy ------------------------------
(***************************************************************************)
(* An instance of Policy for TLC.                                          *)
(***************************************************************************)
EXTENDS Policy, TLC

Doubling == [kind |-> "exponential", base |-> 1, factor |-> 2, cap |-> 3,
             jitter |-> 50]

Steady == [kind |-> "constant", seconds |-> 2, jitter |-> 0]

(* Answers with a time that has passed, or raises.                         *)
Hasty == [kind |-> "custom", answers |-> {-1}]
Broken == [kind |-> "custom", answers |-> {}]

MCDefaults == [handler |-> Null, max_attempts |-> 2, backoff |-> Doubling,
               retry_on |-> {}, fail_fast_on |-> {"NonRetryableError"}]

MCHints == {Untouched,
            [Untouched EXCEPT !.backoff = Steady,
                              !.fail_fast_on = {"NotFound"}],
            [Untouched EXCEPT !.max_attempts = 0]}

MCProjectLayers ==
    {[Untouched EXCEPT !.max_attempts = 0],
     [Untouched EXCEPT !.max_attempts = 1, !.backoff = Hasty,
                       !.retry_on = {"ConnectionError"}],
     [Untouched EXCEPT !.fail_fast_on = {"DeweyError"}, !.backoff = Broken]}
        \cup {[Untouched EXCEPT !.handler = handler] : handler \in Handlers}

MCBudgets == {0, 3}

Symmetry == Permutations(Processes) \cup Permutations(Handlers)
=============================================================================
