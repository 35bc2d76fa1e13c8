------------------------------ MODULE MCTunnel ------------------------------
(***************************************************************************)
(* Tunnel for model checking.  Two handshakes from each side fill and turn *)
(* the ring at one instant; one from each side, with time, ages sessions   *)
(* and lets the selection move; two from one side meet a restart, an       *)
(* expiry or a change of key.                                              *)
(***************************************************************************)
EXTENDS Tunnel, TLC

CONSTANTS a, b, k1, k2

TunnelSymmetry == Permutations(Peers) \cup Permutations(Psks)
Ring ==
  [seal |-> 1, inits |-> [p \in Peers |-> 2], packets |-> 99, now |-> 0, upsets |-> 0]
Ageing ==
  [seal |-> 2, inits |-> [p \in Peers |-> 1], packets |-> 2, now |-> 2, upsets |-> 0]
Upset(p) ==
  [seal |-> 1, inits |-> [q \in Peers |-> IF q = p THEN 2 ELSE 1], packets |-> 99,
   now |-> 0, upsets |-> 1]
AllCourses == {Ring, Ageing} \cup {Upset(p) : p \in Peers}
=============================================================================
