---------------------------- MODULE SendingNonce ----------------------------
(***************************************************************************)
(* The send side of a transport session: noise/session.rs, Session with    *)
(* sending_exhausted, claim_sending_nonce and format_packet_data.          *)
(*                                                                         *)
(* The methods take &self and the counter is atomic, so senders of one     *)
(* session may overlap.  A send is routed here while sending_exhausted is  *)
(* false, and claims its nonce later.  fetch_update loads the counter and  *)
(* retries a compare-and-swap until it wins or the closure refuses.        *)
(***************************************************************************)
EXTENDS SessionLimits

CONSTANT Senders        \* callers of format_packet_data on this session

VARIABLES
  sending_key_counter,
  send_pc,                   \* where each sender is
  seen,                 \* the counter as each sender last loaded it
  sealed                \* history: how often each nonce has been sealed under

send_vars == <<sending_key_counter, send_pc, seen, sealed>>

SendInit ==
  /\ sending_key_counter = 0
  /\ send_pc = [s \in Senders |-> "idle"]
  /\ seen = [s \in Senders |-> 0]
  /\ sealed = [n \in U64 |-> 0]

SendingExhausted == sending_key_counter >= RejectAfterMessages

\* has_current_session: an exhausted session gets a handshake, not a send.
Route(s) ==
  /\ send_pc[s] = "idle"
  /\ ~SendingExhausted
  /\ send_pc' = [send_pc EXCEPT ![s] = "claim"]
  /\ UNCHANGED <<sending_key_counter, seen, sealed>>

\* A destination too small is refused before the counter is touched.
DestinationTooSmall(s) ==
  /\ send_pc[s] = "claim"
  /\ send_pc' = [send_pc EXCEPT ![s] = "idle"]
  /\ UNCHANGED <<sending_key_counter, seen, sealed>>

Load(s) ==
  /\ send_pc[s] = "claim"
  /\ seen' = [seen EXCEPT ![s] = sending_key_counter]
  /\ send_pc' = [send_pc EXCEPT ![s] = "update"]
  /\ UNCHANGED <<sending_key_counter, sealed>>

\* The closure says None: ConnectionExpired, and the counter stays put.
Refuse(s) ==
  /\ send_pc[s] = "update"
  /\ seen[s] >= RejectAfterMessages
  /\ seen' = [seen EXCEPT ![s] = 0]
  /\ send_pc' = [send_pc EXCEPT ![s] = "idle"]
  /\ UNCHANGED <<sending_key_counter, sealed>>

\* Load and store instead of compare and swap.
SwapBlindly(s) ==
  /\ send_pc[s] = "update"
  /\ seen[s] < RejectAfterMessages
  /\ sending_key_counter' = (seen[s] + 1) % (MaxU64 + 1)
  /\ sealed' = [sealed EXCEPT ![seen[s]] = @ + 1]
  /\ seen' = [seen EXCEPT ![s] = 0]
  /\ send_pc' = [send_pc EXCEPT ![s] = "idle"]

\* The swap succeeds: the packet is sealed under the value swapped out.
Swap(s) ==
  /\ send_pc[s] = "update"
  /\ seen[s] < RejectAfterMessages
  /\ sending_key_counter = seen[s]
  /\ sending_key_counter' = (seen[s] + 1) % (MaxU64 + 1)
  /\ sealed' = [sealed EXCEPT ![seen[s]] = @ + 1]
  /\ seen' = [seen EXCEPT ![s] = 0]
  /\ send_pc' = [send_pc EXCEPT ![s] = "idle"]

\* The swap fails and hands back the counter it found.
Retry(s) ==
  /\ send_pc[s] = "update"
  /\ seen[s] < RejectAfterMessages
  /\ sending_key_counter # seen[s]
  /\ seen' = [seen EXCEPT ![s] = sending_key_counter]
  /\ UNCHANGED <<sending_key_counter, send_pc, sealed>>

SendNext ==
  \E s \in Senders :
    \/ Route(s) \/ DestinationTooSmall(s)
    \/ Load(s) \/ Refuse(s) \/ Swap(s) \/ Retry(s)

SendSpec == SendInit /\ [][SendNext]_send_vars

-----------------------------------------------------------------------------
SendTypeOK ==
  /\ sending_key_counter \in 0..RejectAfterMessages
  /\ send_pc \in [Senders -> {"idle", "claim", "update"}]
  /\ seen \in [Senders -> 0..RejectAfterMessages]
  /\ sealed \in [U64 -> Nat]

\* The nonces sealed under are exactly those below the counter, each once, and
\* none at or above REJECT_AFTER_MESSAGES: claim_sending_nonce hands no nonce
\* to two overlapping senders, a refused send burns none, and an exhausted
\* counter is never moved on until it wraps to a nonce already used.
NoncesUsedOnce ==
  \A n \in U64 : sealed[n] = IF n < sending_key_counter THEN 1 ELSE 0
=============================================================================
