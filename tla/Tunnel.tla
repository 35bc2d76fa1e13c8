------------------------------- MODULE Tunnel -------------------------------
(***************************************************************************)
(* Two tunnels (noise/mod.rs Tunn over noise/handshake.rs Handshake and    *)
(* noise/session.rs Session) that handshake and exchange packets over a    *)
(* network that loses, duplicates, reorders and arbitrarily delays.        *)
(*                                                                         *)
(* Every entry point of Tunn takes &mut self, so a call is one step.  The  *)
(* cryptography is symbolic: an initiation is known by its sender and      *)
(* stamp, a response by a fresh number, and a transport key by the pair    *)
(* and the preshared key both sides mixed in.  A packet that would not     *)
(* authenticate is not received.                                           *)
(*                                                                         *)
(* The clock of a tunnel is TimeCurrent: it moves only in update_timers.   *)
(* Which of the timers' demands fires there is left open here.             *)
(***************************************************************************)
EXTENDS Integers, FiniteSets, Functions

CONSTANTS
  Peers,          \* the two ends
  NSessions,      \* N_SESSIONS
  IndexSpace,     \* 256: session indices are the low byte of next_index
  RejectAfter,    \* keychain_expire(), in ticks
  MaxQueueDepth,  \* MAX_QUEUE_DEPTH
  Psks,           \* preshared keys
  Courses         \* bounds: what a behaviour has room for, see Course

\* seal: REJECT_AFTER_MESSAGES; inits: initiations each peer sends; packets:
\* how many are sealed before no new one is offered; now: ticks of one
\* tunnel's clock; upsets: tunnels recreated, expired or given another key.
Course ==
  [seal: Nat \ {0}, inits: [Peers -> Nat], packets: Nat, now: Nat, upsets: Nat]

ASSUME TunnelAssumption ==
  /\ NSessions \in Nat /\ NSessions >= 2
  /\ IndexSpace \in Nat /\ IndexSpace >= NSessions /\ IndexSpace % NSessions = 0
  /\ RejectAfter \in Nat
  /\ MaxQueueDepth \in Nat \ {0}
  /\ Courses \subseteq Course

VARIABLES
  state, previous,   \* Handshake::state and ::previous
  next_index,        \* Handshake::next_index, its low byte
  last_timestamp,    \* Handshake::last_handshake_timestamp
  sessions,          \* Tunn::sessions: the occupied slots
  session_timers,    \* Timers::session_timers
  current,           \* Tunn::current
  queue,             \* the length of Tunn::packet_queue
  flush,             \* the caller still has to drain the queue
  now,               \* Timers[TimeCurrent]
  psk,               \* NoiseParams::preshared_key
  stamps,            \* the system clock as each side's TimeStamper reads it
  net,               \* every packet ever sent
  sealed,            \* history: how many transport packets were sealed
  upsets,            \* restarts, expiries and key changes so far
  course             \* the bounds of this behaviour

hsVars == <<state, previous, next_index, last_timestamp>>
ringVars == <<sessions, session_timers, current>>
vars == <<hsVars, ringVars, queue, flush, now, psk, stamps, net, sealed, upsets,
          course>>

Slots == 0..(NSessions - 1)
Slot(idx) == idx % NSessions

(***************************************************************************)
(* HandshakeState.  InitReceived exists only inside commit_initiation.     *)
(***************************************************************************)
NoHandshake == [kind |-> "None", idx |-> 0, stamp |-> 0]
Expired == [kind |-> "Expired", idx |-> 0, stamp |-> 0]
InitSent(i, t) == [kind |-> "InitSent", idx |-> i, stamp |-> t]

IsInProgress(p) == state[p].kind = "InitSent"

IncIndex(i) == (i + 1) % IndexSpace
\* The response's index taken whatever its slot holds.
IncIndexNotAvoiding(i, reserved_slot) == IncIndex(i)

IncIndexAvoiding(i, reserved_slot) ==
  LET index == IncIndex(i)
  IN  IF Slot(index) = reserved_slot THEN IncIndex(index) ELSE index

Init ==
  /\ state = [p \in Peers |-> NoHandshake]
  /\ previous = [p \in Peers |-> NoHandshake]
  /\ next_index = [p \in Peers |-> 0]
  /\ last_timestamp = [p \in Peers |-> 0]
  /\ sessions = [p \in Peers |-> <<>>]
  /\ session_timers = [p \in Peers |-> [s \in Slots |-> 0]]
  /\ current = [p \in Peers |-> 0]
  /\ queue = [p \in Peers |-> 0]
  /\ flush = [p \in Peers |-> FALSE]
  /\ now = [p \in Peers |-> 0]
  /\ psk \in [Peers -> Psks]
  /\ \A p, q \in Peers : psk[p] = psk[q]
  /\ stamps = [p \in Peers |-> 0]
  /\ net = {}
  /\ sealed = 0
  /\ upsets = 0
  /\ course \in Courses

Current(p) == sessions[p][Slot(current[p])]
HasCurrentSession(p) ==
  /\ Slot(current[p]) \in DOMAIN sessions[p]
  /\ Current(p).sent < course.seal

(***************************************************************************)
(* Session::new and its storing in the ring, with its establishment time.  *)
(***************************************************************************)
NewSession(p, idx, peer_idx, key, sent) ==
  [idx |-> idx, peer_idx |-> peer_idx, key |-> key,
   sent |-> sent, received |-> {}, established |-> now[p]]

Stored(p, s) ==
  [x \in {Slot(s.idx)} \cup DOMAIN sessions[p] |->
     IF x = Slot(s.idx) THEN s ELSE sessions[p][x]]
Stamped(p, idx) == [session_timers[p] EXCEPT ![Slot(idx)] = now[p]]

\* The session used last is always selected.
SelectedAlways(p, new_idx, ring, timers) == new_idx
\* set_current_session(new_idx), given the ring and its timers.
Selected(p, new_idx, ring, timers) ==
  IF \/ Slot(current[p]) \notin DOMAIN ring
     \/ timers[Slot(new_idx)] >= timers[Slot(current[p])]
  THEN new_idx
  ELSE current[p]

Data(p, s) == [type |-> "data", from |-> p, receiver_idx |-> s.peer_idx,
               key |-> s.key, counter |-> s.sent]

\* format_packet_data: claim a nonce of session s and put the packet out.
Seal(p, s) ==
  /\ net' = net \cup {Data(p, s)}
  /\ sealed' = sealed + 1

SealOnCurrent(p) ==
  /\ sessions' = [sessions EXCEPT ![p][Slot(current[p])].sent = @ + 1]
  /\ Seal(p, Current(p))
  /\ UNCHANGED <<hsVars, now, stamps>>

(***************************************************************************)
(* format_handshake_initiation: nothing while one is in flight, unless the *)
(* timers force a resend.  The unanswered one stays answerable.  An        *)
(* expired tunnel starts over with its timers, TimeCurrent included, set   *)
(* to the time of day; otherwise TimeCurrent is t.                         *)
(***************************************************************************)
NewInitiation(p, t) ==
  LET idx == IncIndex(next_index[p])
      stamp == stamps[p] + 1
  IN  /\ stamp <= course.inits[p]
      /\ next_index' = [next_index EXCEPT ![p] = idx]
      /\ stamps' = [stamps EXCEPT ![p] = stamp]
      /\ previous' = [previous EXCEPT ![p] = state[p]]
      /\ state' = [state EXCEPT ![p] = InitSent(idx, stamp)]
      /\ net' = net \cup {[type |-> "init", from |-> p, sender_idx |-> idx,
                           stamp |-> stamp]}
      /\ \E u \in t..(IF state[p].kind = "Expired" THEN course.now ELSE t) :
           now' = [now EXCEPT ![p] = u]
      /\ UNCHANGED <<last_timestamp, sealed>>

FormatInitiation(p, t) ==
  \/ ~IsInProgress(p) /\ NewInitiation(p, t)
  \/ /\ IsInProgress(p)
     /\ now' = [now EXCEPT ![p] = t]
     /\ UNCHANGED <<hsVars, stamps, net, sealed>>

\* encapsulate: seal on the current session, or ask for one and queue.
\* A full queue is refused before anything is sent.
Encapsulate(p) ==
  /\ sealed < course.packets
  /\ \/ /\ HasCurrentSession(p)
        /\ SealOnCurrent(p)
        /\ UNCHANGED queue
     \/ /\ ~HasCurrentSession(p)
        /\ queue[p] < MaxQueueDepth
        /\ FormatInitiation(p, now[p])
        /\ queue' = [queue EXCEPT ![p] = @ + 1]
        /\ UNCHANGED sessions
  /\ UNCHANGED <<session_timers, current, flush, psk, upsets>>

(***************************************************************************)
(* decapsulate with an empty datagram, which the caller repeats after a    *)
(* packet for the network until there is none: send the head of the queue, *)
(* or ask for the session it waits for.                                    *)
(***************************************************************************)
SendQueued(p) ==
  /\ flush[p]
  /\ \/ /\ queue[p] > 0 /\ HasCurrentSession(p)
        /\ SealOnCurrent(p)
        /\ queue' = [queue EXCEPT ![p] = @ - 1]
        /\ UNCHANGED flush
     \/ /\ queue[p] > 0 /\ ~HasCurrentSession(p) /\ ~IsInProgress(p)
        /\ NewInitiation(p, now[p])
        /\ UNCHANGED <<queue, flush, sessions>>
     \/ /\ queue[p] = 0 \/ (~HasCurrentSession(p) /\ IsInProgress(p))
        /\ flush' = [flush EXCEPT ![p] = FALSE]
        /\ UNCHANGED <<hsVars, sessions, queue, now, stamps, net, sealed>>
  /\ UNCHANGED <<session_timers, current, psk, upsets>>

(***************************************************************************)
(* decapsulate of a handshake initiation: authenticate_initiation, then    *)
(* commit_handshake_init.  The response's index keeps off the slot of the  *)
(* selected session.                                                       *)
(***************************************************************************)
ReceiveInitiation(p, m) ==
  /\ m.type = "init" /\ m.from # p
  /\ m.stamp > last_timestamp[p]
  /\ LET idx == IncIndexAvoiding(next_index[p], Slot(current[p]))
         id == Cardinality({r \in net : r.type = "resp"})
         key == [initiator |-> m.from, stamp |-> m.stamp, response |-> id,
                 psk |-> psk[p]]
         session == NewSession(p, idx, m.sender_idx, key, 0)
     IN  /\ last_timestamp' = [last_timestamp EXCEPT ![p] = m.stamp]
         /\ previous' = [previous EXCEPT ![p] = state[p]]
         /\ state' = [state EXCEPT ![p] = NoHandshake]
         /\ next_index' = [next_index EXCEPT ![p] = idx]
         /\ sessions' = [sessions EXCEPT ![p] = Stored(p, session)]
         /\ session_timers' = [session_timers EXCEPT ![p] = Stamped(p, idx)]
         /\ net' = net \cup {[type |-> "resp", from |-> p, sender_idx |-> idx,
                              receiver_idx |-> m.sender_idx, key |-> key]}
  /\ flush' = [flush EXCEPT ![p] = TRUE]
  /\ UNCHANGED <<current, queue, now, psk, stamps, sealed, upsets>>

(***************************************************************************)
(* decapsulate of a handshake response.  authenticate_response picks the   *)
(* handshake by index, the newer one first, and only then opens it.        *)
(***************************************************************************)
Answers(hs, m) == hs.kind = "InitSent" /\ hs.idx = m.receiver_idx

Opens(p, hs, m) ==
  m.key.initiator = p /\ m.key.stamp = hs.stamp /\ m.key.psk = psk[p]

\* The session under the newest index instead of the one answered.
CommitResponseLatestIndex(p, hs, m) ==
  LET session == NewSession(p, next_index[p], m.sender_idx, m.key, 0)
      ring == Stored(p, [session EXCEPT !.sent = 1])
      timers == Stamped(p, session.idx)
  IN  /\ sessions' = [sessions EXCEPT ![p] = ring]
      /\ session_timers' = [session_timers EXCEPT ![p] = timers]
      /\ current' = [current EXCEPT ![p] = Selected(p, session.idx, ring, timers)]
      /\ Seal(p, session)
      /\ flush' = [flush EXCEPT ![p] = TRUE]
      /\ UNCHANGED <<next_index, last_timestamp, queue, now, psk, stamps, upsets>>

CommitResponse(p, hs, m) ==
  LET session == NewSession(p, hs.idx, m.sender_idx, m.key, 0)
      ring == Stored(p, [session EXCEPT !.sent = 1])
      timers == Stamped(p, hs.idx)
  IN  /\ sessions' = [sessions EXCEPT ![p] = ring]
      /\ session_timers' = [session_timers EXCEPT ![p] = timers]
      /\ current' = [current EXCEPT ![p] = Selected(p, hs.idx, ring, timers)]
      /\ Seal(p, session)
      /\ flush' = [flush EXCEPT ![p] = TRUE]
      /\ UNCHANGED <<next_index, last_timestamp, queue, now, psk, stamps, upsets>>

\* The handshake stays answerable after its response.
ReceiveResponseAgain(p, m) ==
  /\ m.type = "resp" /\ m.from # p
  /\ Answers(state[p], m) /\ Opens(p, state[p], m)
  /\ CommitResponse(p, state[p], m)
  /\ UNCHANGED <<state, previous>>

ReceiveResponse(p, m) ==
  /\ m.type = "resp" /\ m.from # p
  /\ \/ /\ Answers(state[p], m) /\ Opens(p, state[p], m)
        /\ CommitResponse(p, state[p], m)
        /\ state' = [state EXCEPT ![p] = NoHandshake]
        /\ UNCHANGED previous
     \/ /\ ~Answers(state[p], m)
        /\ Answers(previous[p], m) /\ Opens(p, previous[p], m)
        /\ CommitResponse(p, previous[p], m)
        /\ previous' = [previous EXCEPT ![p] = NoHandshake]
        /\ UNCHANGED state

(***************************************************************************)
(* decapsulate of a transport packet: the slot's session must have the     *)
(* packet's index and key, and let the counter through.                    *)
(***************************************************************************)
ReceiveData(p, m) ==
  /\ m.type = "data" /\ m.from # p
  /\ Slot(m.receiver_idx) \in DOMAIN sessions[p]
  /\ LET s == sessions[p][Slot(m.receiver_idx)]
         ring == Stored(p, [s EXCEPT !.received = @ \cup {m.counter}])
     IN  /\ s.idx = m.receiver_idx
         /\ s.key = m.key
         /\ m.counter \notin s.received
         /\ sessions' = [sessions EXCEPT ![p] = ring]
         /\ current' = [current EXCEPT ![p] =
                          Selected(p, s.idx, ring, session_timers[p])]
  /\ UNCHANGED <<hsVars, session_timers, queue, flush, now, psk, stamps, net,
                 sealed, upsets>>

(***************************************************************************)
(* update_timers: move the clock, drop the sessions that aged out, then    *)
(* serve whichever demand the timers raise.  An expired tunnel raises none *)
(* but the persistent keepalive; a handshake in flight raises no keepalive.*)
(***************************************************************************)
AgedOut(p, t) == {s \in Slots : t - session_timers[p][s] > RejectAfter}

AgedTimers(p, t) ==
  [s \in Slots |-> IF s \in AgedOut(p, t) THEN t ELSE session_timers[p][s]]
LiveRing(p, t) == Restrict(sessions[p], DOMAIN sessions[p] \ AgedOut(p, t))

TickQuiet(p, t) ==
  /\ now' = [now EXCEPT ![p] = t]
  /\ sessions' = [sessions EXCEPT ![p] = LiveRing(p, t)]
  /\ UNCHANGED <<hsVars, queue, stamps, net, sealed>>

\* set_expired and clear_all, whose Timers::clear reads the clock again.
TickExpire(p, t) ==
  /\ state[p].kind # "Expired"
  /\ \E u \in t..course.now : now' = [now EXCEPT ![p] = u]
  /\ sessions' = [sessions EXCEPT ![p] = <<>>]
  /\ state' = [state EXCEPT ![p] = Expired]
  /\ previous' = [previous EXCEPT ![p] = Expired]
  /\ queue' = [queue EXCEPT ![p] = 0]
  /\ upsets < course.upsets
  /\ upsets' = upsets + 1
  /\ UNCHANGED <<next_index, last_timestamp, stamps, net, sealed>>

\* A retransmission, or a new handshake to refresh or recover the session.
TickHandshake(p, t) ==
  /\ state[p].kind # "Expired"
  /\ sessions' = [sessions EXCEPT ![p] = LiveRing(p, t)]
  /\ NewInitiation(p, t)
  /\ UNCHANGED queue

\* send_keepalive: an empty packet through encapsulate, after the ageing.
TickKeepalive(p, t) ==
  /\ sealed < course.packets
  /\ ~IsInProgress(p)
  /\ LET ring == LiveRing(p, t)
         slot == Slot(current[p])
     IN  IF slot \in DOMAIN ring /\ ring[slot].sent < course.seal
         THEN /\ sessions' = [sessions EXCEPT ![p] =
                                [ring EXCEPT ![slot].sent = @ + 1]]
              /\ Seal(p, ring[slot])
              /\ now' = [now EXCEPT ![p] = t]
              /\ UNCHANGED <<hsVars, stamps, queue>>
         ELSE /\ queue[p] < MaxQueueDepth
              /\ sessions' = [sessions EXCEPT ![p] = ring]
              /\ FormatInitiation(p, t)
              /\ queue' = [queue EXCEPT ![p] = @ + 1]

UpdateTimers(p) ==
  \E t \in now[p]..course.now :
    /\ session_timers' = [session_timers EXCEPT ![p] = AgedTimers(p, t)]
    /\ \/ TickExpire(p, t)
       \/ UNCHANGED upsets /\ TickQuiet(p, t)
       \/ UNCHANGED upsets /\ TickHandshake(p, t)
       \/ UNCHANGED upsets /\ TickKeepalive(p, t)
    /\ UNCHANGED <<current, flush, psk>>

\* The sessions under the old key stay.
SetPresharedKeyKeepsSessions(p, v) ==
  /\ upsets < course.upsets
  /\ v # psk[p]
  /\ psk' = [psk EXCEPT ![p] = v]
  /\ upsets' = upsets + 1
  /\ UNCHANGED <<hsVars, ringVars, queue, flush, now, stamps, net, sealed>>

\* set_preshared_key: a changed key clears every session, and nothing else.
SetPresharedKey(p, v) ==
  /\ upsets < course.upsets
  /\ v # psk[p]
  /\ psk' = [psk EXCEPT ![p] = v]
  /\ sessions' = [sessions EXCEPT ![p] = <<>>]
  /\ upsets' = upsets + 1
  /\ UNCHANGED <<hsVars, session_timers, current, queue, flush, now, stamps, net,
                 sealed>>

\* The process ends and Tunn::new builds the tunnel again.
Restart(p) ==
  /\ upsets < course.upsets
  /\ upsets' = upsets + 1
  /\ state' = [state EXCEPT ![p] = NoHandshake]
  /\ previous' = [previous EXCEPT ![p] = NoHandshake]
  /\ next_index' = [next_index EXCEPT ![p] = 0]
  /\ last_timestamp' = [last_timestamp EXCEPT ![p] = 0]
  /\ sessions' = [sessions EXCEPT ![p] = <<>>]
  /\ session_timers' = [session_timers EXCEPT ![p] = [s \in Slots |-> 0]]
  /\ current' = [current EXCEPT ![p] = 0]
  /\ queue' = [queue EXCEPT ![p] = 0]
  /\ flush' = [flush EXCEPT ![p] = FALSE]
  /\ now' = [now EXCEPT ![p] = 0]
  /\ UNCHANGED <<psk, stamps, net, sealed>>

Receive(p, m) == ReceiveInitiation(p, m) \/ ReceiveResponse(p, m) \/ ReceiveData(p, m)

Next ==
  /\ \E p \in Peers :
       \/ Encapsulate(p)
       \/ SendQueued(p)
       \/ \E m \in net : Receive(p, m)
       \/ UpdateTimers(p)
       \/ \E v \in Psks : SetPresharedKey(p, v)
       \/ Restart(p)
  /\ UNCHANGED course

Spec == Init /\ [][Next]_vars

-----------------------------------------------------------------------------
Live(p) == {sessions[p][s] : s \in DOMAIN sessions[p]}

\* No nonce is ever sealed twice under one key: there are as many different
\* transport packets as were sealed.  A response committed twice, or a session
\* rebuilt from an old one, would start again at counter zero.
NonceFresh == sealed = Cardinality({m \in net : m.type = "data"})

\* A key belongs to one session on each side, and the two sessions name each
\* other: what one sends is addressed to the other's index.
KeyAgreement ==
  \A p, q \in Peers : \A s \in DOMAIN sessions[p], t \in DOMAIN sessions[q] :
    sessions[p][s].key = sessions[q][t].key /\ <<p, s>> # <<q, t>> =>
      /\ p # q
      /\ sessions[p][s].peer_idx = sessions[q][t].idx
      /\ sessions[q][t].peer_idx = sessions[p][s].idx

\* A responder does not send on a session before the initiator has: the
\* selected session is one this side initiated, or has received on.  An
\* initiation never displaces the selected session (inc_index_avoiding).
ConfirmedBeforeUse ==
  \A p \in Peers : Slot(current[p]) \in DOMAIN sessions[p] =>
    Current(p).key.initiator = p \/ Current(p).received # {}

\* After set_preshared_key no session keyed with the old one remains, even
\* when the response to an initiation from before it arrives later.
PresharedKeyInForce ==
  \A p \in Peers : \A s \in Live(p) : s.key.psk = psk[p]

\* A late packet on an older session never takes the selection back from a
\* newer live one (set_current_session compares session_timers).
SelectionMovesForward ==
  [][\A p \in Peers :
       /\ current'[p] # current[p]
       /\ upsets' = upsets
       /\ Slot(current[p]) \in DOMAIN sessions[p]
       /\ Slot(current[p]) \in DOMAIN sessions'[p]
       => Current(p)'.established >= Current(p).established]_vars
=============================================================================
