------------------------------ MODULE MCDevLock ------------------------------
(* DevLock for model checking. *)
EXTENDS DevLock

CONSTANTS w1, w2, w3
=============================================================================
