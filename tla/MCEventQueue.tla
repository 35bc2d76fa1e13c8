---------------------------- MODULE MCEventQueue ----------------------------
(* Pollers for model checking: two descriptor numbers, used again and again. *)
EXTENDS Pollers

MCBoxes == 1..5
=============================================================================
