---------------------------- MODULE MCTunnTimers ----------------------------
(* One tunnel with a deadline of each kind a few ticks long. *)
EXTENDS TunnTimers

Bursts == {[grams |-> 0, junk |-> 0, tuned |-> FALSE],
           [grams |-> 2, junk |-> 0, tuned |-> TRUE],
           [grams |-> 1, junk |-> 1, tuned |-> FALSE]}
Junk == {[grams |-> 0, junk |-> 1, tuned |-> FALSE]}
Fixed == {<<0, 0>>, <<1, 1>>}
Ranges == {<<0, 0>>, <<1, 1>>, <<1, 2>>}
=============================================================================
