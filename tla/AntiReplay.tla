----------------------------- MODULE AntiReplay -----------------------------
(***************************************************************************)
(* What the receive side of a session promises: every counter below the    *)
(* limit is let through at most once, and only while it is no more than    *)
(* the window's width behind the highest one let through.                  *)
(***************************************************************************)
EXTENDS Integers

CONSTANTS Counters, Limit, Width
VARIABLES delivered, horizon

Init == delivered = [c \in Counters |-> 0] /\ horizon = 0

LetThrough(c) ==
  /\ c < Limit
  /\ delivered[c] = 0
  /\ c + Width >= horizon
  /\ delivered' = [delivered EXCEPT ![c] = 1]
  /\ horizon' = IF c >= horizon THEN c + 1 ELSE horizon

Next == \E c \in Counters : LetThrough(c)

Spec == Init /\ [][Next]_<<delivered, horizon>>
=============================================================================
