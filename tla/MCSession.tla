------------------------------ MODULE MCSession ------------------------------
(***************************************************************************)
(* Two senders and two receivers of one session.  Ten messages on a window *)
(* of six: counters wrap round the bitmap onto positions still marked,     *)
(* fall behind the window and jump past it.                                *)
(***************************************************************************)
EXTENDS Session, TLC

Callers == Permutations(Senders) \cup Permutations(Receivers)
==============================================================================
