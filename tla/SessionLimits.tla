---------------------------- MODULE SessionLimits ----------------------------
(***************************************************************************)
(* The counters of a transport session (noise/session.rs): their width and *)
(* the limit at which a session stops sending and accepting.               *)
(***************************************************************************)
EXTENDS Integers

CONSTANTS
  MaxU64,               \* the largest counter the wire can carry
  RejectAfterMessages   \* REJECT_AFTER_MESSAGES

ASSUME LimitsAssumption ==
  /\ MaxU64 \in Nat
  /\ RejectAfterMessages \in Nat
  /\ RejectAfterMessages <= MaxU64

U64 == 0..MaxU64
==============================================================================
