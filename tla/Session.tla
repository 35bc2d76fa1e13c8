------------------------------- MODULE Session -------------------------------
(***************************************************************************)
(* One direction of a transport session (noise/session.rs): the senders of *)
(* SendingNonce at one end, the receivers of ReplayWindow at the other.    *)
(* The network keeps every packet it was given and delivers any of them,   *)
(* in any order, any number of times or never.  A packet opens only if it  *)
(* was sealed: its counter is one the sending end has used.                *)
(***************************************************************************)
EXTENDS SendingNonce, ReplayWindow

session_vars == <<send_vars, vars>>

SessionInit == SendInit /\ Init

Send == SendNext /\ UNCHANGED vars

Receive(r, c) == sealed[c] > 0 /\ QuickCheckAndOpen(r, c) /\ UNCHANGED send_vars

Decide(r) == Mark(r) /\ UNCHANGED send_vars

SessionNext ==
  \/ Send
  \/ \E r \in Receivers : Decide(r) \/ \E c \in U64 : Receive(r, c)

SessionSpec == SessionInit /\ [][SessionNext]_session_vars
==============================================================================
