---------------------------- MODULE TunnelProofs ----------------------------
(***************************************************************************)
(* Proofs about Tunnel for any ring size, index space, bounds and set of   *)
(* preshared keys.  The invariant TunnelInv ties every session to the      *)
(* response that made it, every transport packet to a counter its session  *)
(* has left behind, and every handshake in flight to a stamp nothing was   *)
(* keyed with yet.                                                         *)
(***************************************************************************)
EXTENDS Tunnel, FiniteSetTheorems, TLAPS

Indices == 0..(IndexSpace - 1)
Key == [initiator: Peers, stamp: Nat, response: Nat, psk: Psks]
HandshakeState == [kind: {"None", "Expired", "InitSent"}, idx: Indices, stamp: Nat]
SessionState ==
  [idx: Indices, peer_idx: Indices, key: Key, sent: Nat, received: SUBSET Nat,
   established: Nat]
Rings == UNION {[D -> SessionState] : D \in SUBSET Slots}

InitMessage == [type: {"init"}, from: Peers, sender_idx: Indices, stamp: Nat]
RespMessage ==
  [type: {"resp"}, from: Peers, sender_idx: Indices, receiver_idx: Indices, key: Key]
DataMessage ==
  [type: {"data"}, from: Peers, receiver_idx: Indices, key: Key, counter: Nat]

TypeOK ==
  /\ state \in [Peers -> HandshakeState]
  /\ previous \in [Peers -> HandshakeState]
  /\ next_index \in [Peers -> Indices]
  /\ sessions \in [Peers -> Rings]
  /\ session_timers \in [Peers -> [Slots -> Nat]]
  /\ current \in [Peers -> Indices]
  /\ now \in [Peers -> Nat]
  /\ psk \in [Peers -> Psks]
  /\ stamps \in [Peers -> Nat]
  /\ net \subseteq InitMessage \cup RespMessage \cup DataMessage
  /\ IsFiniteSet(net)
  /\ sealed \in Nat
  /\ course \in Course

Responses == {r \in net : r.type = "resp"}
Packets == {m \in net : m.type = "data"}

\* A session lies in the slot of its index, and its establishment is the time
\* its slot was stamped with, which is past.
Ringed ==
  \A p \in Peers :
    /\ \A x \in DOMAIN sessions[p] :
         /\ Slot(sessions[p][x].idx) = x
         /\ sessions[p][x].established = session_timers[p][x]
    /\ \A x \in Slots : session_timers[p][x] <= now[p]

\* The session s of p is p's end of what the response r agreed on.
EndOf(p, s, r) ==
  /\ r.key = s.key
  /\ IF s.key.initiator = p
     THEN r.from # p /\ r.receiver_idx = s.idx /\ r.sender_idx = s.peer_idx
     ELSE r.from = p /\ r.sender_idx = s.idx /\ r.receiver_idx = s.peer_idx

\* Every session was made by a response that is still out there.
Answered ==
  \A p \in Peers : \A x \in DOMAIN sessions[p] :
    \E r \in Responses : EndOf(p, sessions[p][x], r)

\* Responses are numbered, each with a number of its own.
Numbered ==
  /\ \A r \in Responses : r.key.response < Cardinality(Responses)
  /\ \A r1, r2 \in Responses : r1.key.response = r2.key.response => r1 = r2

\* The initiation that key k answers is spent: p took it, and no longer waits
\* for an answer to it.
Spent(p, k) ==
  k.initiator = p =>
    /\ k.stamp <= stamps[p]
    /\ \A hs \in {state[p], previous[p]} :
         hs.kind = "InitSent" => hs.stamp # k.stamp

\* What p keyed a session or sealed a packet with is spent; the initiations it
\* waits for are two different ones, taken from its clock.
KeysSpent ==
  /\ \A p \in Peers : \A x \in DOMAIN sessions[p] : Spent(p, sessions[p][x].key)
  /\ \A d \in Packets : Spent(d.from, d.key)
  /\ \A p \in Peers :
       /\ state[p].kind = "InitSent" => state[p].stamp <= stamps[p]
       /\ previous[p].kind = "InitSent" => previous[p].stamp <= stamps[p]
       /\ state[p].kind = "InitSent" /\ previous[p].kind = "InitSent" =>
            state[p].stamp # previous[p].stamp

\* A session has moved past every counter its owner sealed under its key, and
\* every packet is keyed by a response already given.
CountersPast ==
  /\ \A d \in Packets : d.key.response < Cardinality(Responses)
  /\ \A d \in Packets : \A x \in DOMAIN sessions[d.from] :
       sessions[d.from][x].key = d.key => d.counter < sessions[d.from][x].sent

TunnelInv ==
  /\ TypeOK
  /\ Ringed
  /\ Answered
  /\ Numbered
  /\ KeysSpent
  /\ CountersPast
  /\ NonceFresh
  /\ PresharedKeyInForce
  /\ ConfirmedBeforeUse

-----------------------------------------------------------------------------
(* Indices and slots. *)

\* Division with remainder, the arithmetic of `index % N_SESSIONS`.
LEMMA DivMod ==
  ASSUME NEW x \in Nat, NEW n \in Nat \ {0}
  PROVE  /\ (x % n) \in 0..(n - 1)
         /\ (x \div n) \in Nat
         /\ x = n * (x \div n) + (x % n)
OBVIOUS

\* Neighbouring indices lie in different slots.
LEMMA NeighbourSlots ==
  ASSUME NEW x \in Nat, NEW n \in Nat, n >= 2
  PROVE  (x % n) # ((x + 1) % n)
<1> DEFINE a == x \div n
<1> DEFINE b == (x + 1) \div n
<1> SUFFICES ASSUME (x % n) = ((x + 1) % n)
             PROVE  FALSE
  BY Zenon
<1>1. x = n * a + (x % n) /\ x + 1 = n * b + ((x + 1) % n) /\ a \in Nat /\ b \in Nat
  <2>1. n \in Nat \ {0} /\ x + 1 \in Nat
    OBVIOUS
  <2> QED BY <2>1, DivMod, Zenon
<1> HIDE DEF a, b
<1>2. n * (b - a) = 1
  BY <1>1
<1>3. b > a
  BY <1>1, <1>2
<1>4. n * (b - a) >= n
  BY <1>1, <1>3
<1> QED BY <1>2, <1>4

\* A remainder below the modulus, and that of the modulus itself.
LEMMA SmallMod ==
  ASSUME NEW n \in Nat \ {0}
  PROVE  /\ \A x \in 0..(n - 1) : x % n = x
         /\ n % n = 0
OBVIOUS

\* Every index has a slot.
LEMMA SlotType ==
  ASSUME NEW i \in Nat
  PROVE  Slot(i) \in Slots
BY TunnelAssumption, DivMod DEF TunnelAssumption, Slot, Slots

\* inc_index moves to another slot, also when the index space wraps.
LEMMA NextSlot ==
  ASSUME NEW i \in Indices
  PROVE  IncIndex(i) \in Indices /\ Slot(IncIndex(i)) # Slot(i)
<1>1. /\ IndexSpace \in Nat \ {0} /\ NSessions \in Nat /\ NSessions >= 2
      /\ IndexSpace % NSessions = 0 /\ i \in Nat /\ i < IndexSpace
  BY TunnelAssumption DEF TunnelAssumption, Indices
<1>2. (i % NSessions) # ((i + 1) % NSessions)
  BY <1>1, NeighbourSlots, Zenon
<1>3. CASE i + 1 < IndexSpace
  <2>1. IncIndex(i) = i + 1
    BY <1>1, <1>3, SmallMod DEF IncIndex
  <2> QED BY <1>1, <1>2, <1>3, <2>1 DEF Indices, Slot
<1>4. CASE i + 1 = IndexSpace
  <2>1. IncIndex(i) = 0
    BY <1>1, <1>4, SmallMod, Zenon DEF IncIndex
  <2>2. 0 % NSessions = 0
    BY <1>1, SmallMod
  <2> QED BY <1>1, <1>2, <1>4, <2>1, <2>2 DEF Indices, Slot
<1> QED BY <1>1, <1>3, <1>4

\* inc_index_avoiding never returns an index of the reserved slot.
LEMMA AvoidsSlot ==
  ASSUME NEW i \in Indices, NEW reserved
  PROVE  /\ IncIndexAvoiding(i, reserved) \in Indices
         /\ Slot(IncIndexAvoiding(i, reserved)) # reserved
<1>1. IncIndex(i) \in Indices
  BY NextSlot, Zenon
<1>2. /\ IncIndex(IncIndex(i)) \in Indices
      /\ Slot(IncIndex(IncIndex(i))) # Slot(IncIndex(i))
  BY <1>1, NextSlot, Zenon
<1> QED BY <1>1, <1>2, Zenon DEF IncIndexAvoiding

-----------------------------------------------------------------------------
(* Rings. *)

\* A ring maps some of the slots to sessions.
LEMMA RingElements ==
  ASSUME NEW f \in Rings
  PROVE  /\ DOMAIN f \subseteq Slots
         /\ f \in [DOMAIN f -> SessionState]
         /\ \A x \in DOMAIN f : f[x] \in SessionState
BY Zenon DEF Rings

\* A function from some of the slots to sessions is a ring.
LEMMA IsRing ==
  ASSUME NEW D, D \subseteq Slots, NEW f \in [D -> SessionState]
  PROVE  f \in Rings
BY Zenon DEF Rings

\* The ring of a tunnel that has just been cleared.
LEMMA EmptyRing == <<>> \in Rings /\ DOMAIN <<>> = {}
<1>1. DOMAIN <<>> = {} /\ <<>> \in [{} -> SessionState]
  OBVIOUS
<1> QED BY <1>1, IsRing, Zenon

\* Storing a session fills its slot and leaves the other slots alone.
LEMMA StoredRing ==
  ASSUME NEW p, NEW s \in SessionState, sessions[p] \in Rings
  PROVE  /\ Stored(p, s) \in Rings
         /\ DOMAIN Stored(p, s) = {Slot(s.idx)} \cup DOMAIN sessions[p]
         /\ Stored(p, s)[Slot(s.idx)] = s
         /\ \A x \in DOMAIN sessions[p] :
              x # Slot(s.idx) => Stored(p, s)[x] = sessions[p][x]
<1> DEFINE D == {Slot(s.idx)} \cup DOMAIN sessions[p]
<1> DEFINE g == [x \in D |-> IF x = Slot(s.idx) THEN s ELSE sessions[p][x]]
<1>1. Stored(p, s) = g
  BY Zenon DEF Stored
<1>2. s.idx \in Nat
  BY TunnelAssumption DEF TunnelAssumption, SessionState, Indices
<1>3. D \subseteq Slots
  BY <1>2, SlotType, RingElements, Zenon
<1>4. g \in [D -> SessionState]
  BY RingElements, Zenon
<1>5. g \in Rings
  BY <1>3, <1>4, IsRing, Zenon
<1> QED BY <1>1, <1>5, Zenon

\* Ageing removes sessions and changes none that stay.
LEMMA LiveRingType ==
  ASSUME NEW p, NEW t, sessions[p] \in Rings
  PROVE  /\ LiveRing(p, t) \in Rings
         /\ DOMAIN LiveRing(p, t) = DOMAIN sessions[p] \ AgedOut(p, t)
         /\ \A x \in DOMAIN LiveRing(p, t) : LiveRing(p, t)[x] = sessions[p][x]
<1> DEFINE D == DOMAIN sessions[p] \ AgedOut(p, t)
<1>1. LiveRing(p, t) = [x \in D |-> sessions[p][x]]
  BY Zenon DEF LiveRing, Restrict
<1>2. D \subseteq Slots /\ LiveRing(p, t) \in [D -> SessionState]
  BY <1>1, RingElements, Zenon
<1> QED BY <1>1, <1>2, IsRing, Zenon

-----------------------------------------------------------------------------
(* What a step does, in the terms of the invariant. *)

\* The steps of p leave every other tunnel alone.
Alone(p) ==
  \A q \in Peers \ {p} :
    /\ state'[q] = state[q] /\ previous'[q] = previous[q]
    /\ sessions'[q] = sessions[q] /\ session_timers'[q] = session_timers[q]
    /\ current'[q] = current[q] /\ now'[q] = now[q]
    /\ psk'[q] = psk[q] /\ stamps'[q] = stamps[q]

\* t is s later on.
Continues(s, t) ==
  /\ t.idx = s.idx /\ t.peer_idx = s.peer_idx /\ t.key = s.key
  /\ t.established = s.established
  /\ s.sent <= t.sent
  /\ s.received \subseteq t.received

\* The sessions p has after the step it had before, in the same slots.
Carried(p) ==
  /\ DOMAIN sessions'[p] \subseteq DOMAIN sessions[p]
  /\ \A x \in DOMAIN sessions'[p] :
       /\ Continues(sessions[p][x], sessions'[p][x])
       /\ session_timers'[p][x] = session_timers[p][x]
  /\ \A x \in Slots : session_timers'[p][x] <= now'[p]

\* Nothing is sent, and p waits for no answer it did not wait for before.
Quiet(p) ==
  /\ Alone(p) /\ Carried(p)
  /\ net' = net /\ sealed' = sealed /\ stamps'[p] = stamps[p]
  /\ state'[p] = state[p] \/ state'[p].kind # "InitSent"
  /\ previous'[p] = previous[p] \/ previous'[p].kind # "InitSent"
  /\ \/ psk'[p] = psk[p] /\ current'[p] = current[p]
     \/ DOMAIN sessions'[p] = {}

\* p sends an initiation of its own and waits for the answer.
Initiates(p) ==
  /\ Alone(p) /\ Carried(p)
  /\ \E m \in InitMessage : net' = net \cup {m}
  /\ sealed' = sealed
  /\ stamps'[p] = stamps[p] + 1
  /\ previous'[p] = state[p]
  /\ state'[p].stamp = stamps[p] + 1
  /\ psk'[p] = psk[p] /\ current'[p] = current[p]

\* p seals a packet on the session in slot x.
Seals(p, x) ==
  /\ Alone(p) /\ Carried(p)
  /\ x \in DOMAIN sessions'[p]
  /\ sessions'[p][x].sent = sessions[p][x].sent + 1
  /\ net' = net \cup {Data(p, sessions[p][x])}
  /\ sealed' = sealed + 1
  /\ state'[p] = state[p] /\ previous'[p] = previous[p] /\ stamps'[p] = stamps[p]
  /\ psk'[p] = psk[p] /\ current'[p] = current[p]

-----------------------------------------------------------------------------
(* The messages in flight. *)

\* The responses and packets of a type-correct network, and their number.
LEMMA NetParts ==
  ASSUME TypeOK
  PROVE  /\ Responses \subseteq RespMessage /\ Packets \subseteq DataMessage
         /\ IsFiniteSet(Responses) /\ IsFiniteSet(Packets)
         /\ Cardinality(Responses) \in Nat /\ Cardinality(Packets) \in Nat
<1>1. Responses \subseteq RespMessage /\ Packets \subseteq DataMessage
  BY Zenon DEF TypeOK, Responses, Packets, InitMessage, RespMessage, DataMessage
<1>2. Responses \in SUBSET net /\ Packets \in SUBSET net /\ IsFiniteSet(net)
  BY Zenon DEF TypeOK, Responses, Packets
<1>3. IsFiniteSet(Responses) /\ IsFiniteSet(Packets)
  BY <1>2, FS_Subset, Zenon
<1> QED BY <1>1, <1>3, FS_CardinalityType, Zenon

\* An initiation is neither a response nor a packet.
LEMMA SendInitiation ==
  ASSUME NEW m \in InitMessage, net' = net \cup {m}
  PROVE  Responses' = Responses /\ Packets' = Packets
BY Zenon DEF Responses, Packets, InitMessage

\* A response adds one to the responses.
LEMMA SendResponse ==
  ASSUME NEW m \in RespMessage, net' = net \cup {m}
  PROVE  Responses' = Responses \cup {m} /\ Packets' = Packets
BY Zenon DEF Responses, Packets, RespMessage

\* A transport packet adds one to the packets.
LEMMA SendPacket ==
  ASSUME NEW m \in DataMessage, net' = net \cup {m}
  PROVE  Responses' = Responses /\ Packets' = Packets \cup {m}
BY Zenon DEF Responses, Packets, DataMessage

\* A packet that was not sent before keeps the count exact.
LEMMA FreshPacket ==
  ASSUME TypeOK, NonceFresh, NEW m \in DataMessage, m \notin net,
         net' = net \cup {m}, sealed' = sealed + 1
  PROVE  NonceFresh'
<1>1. Packets' = Packets \cup {m} /\ m \notin Packets
  BY SendPacket, Zenon DEF Packets
<1>2. Cardinality(Packets \cup {m}) = Cardinality(Packets) + 1
  BY <1>1, NetParts, FS_AddElement, Zenon
<1>3. sealed = Cardinality(Packets)
  BY Zenon DEF NonceFresh, Packets
<1>4. sealed' = Cardinality(Packets')
  BY <1>1, <1>2, <1>3, Zenon
<1> QED BY <1>4, Zenon DEF NonceFresh, Packets

-----------------------------------------------------------------------------
(* The two sessions of a key. *)

\* KeyAgreement follows from where sessions come from: two of one key are ends
\* of one response, and two ends on one side would share a slot.
LEMMA AgreementHolds ==
  TypeOK /\ Ringed /\ Answered /\ Numbered => KeyAgreement
<1> SUFFICES ASSUME TypeOK, Ringed, Answered, Numbered,
                    NEW p \in Peers, NEW q \in Peers,
                    NEW x \in DOMAIN sessions[p], NEW y \in DOMAIN sessions[q],
                    sessions[p][x].key = sessions[q][y].key, <<p, x>> # <<q, y>>
             PROVE  /\ p # q
                    /\ sessions[p][x].peer_idx = sessions[q][y].idx
                    /\ sessions[q][y].peer_idx = sessions[p][x].idx
  BY DEF KeyAgreement
<1> DEFINE s == sessions[p][x]
<1> DEFINE t == sessions[q][y]
<1>1. PICK r1 \in Responses : EndOf(p, s, r1)
  BY Zenon DEF Answered
<1>2. PICK r2 \in Responses : EndOf(q, t, r2)
  BY Zenon DEF Answered
<1>3. r1 = r2
  BY <1>1, <1>2, ZenonT(30) DEF Numbered, EndOf
<1>4. Slot(s.idx) = x /\ Slot(t.idx) = y
  BY ZenonT(30) DEF Ringed
<1>5. s.idx = t.idx => p # q
  BY <1>4, ZenonT(30)
<1> HIDE DEF s, t
<1>6. /\ p # q
      /\ s.peer_idx = t.idx
      /\ t.peer_idx = s.idx
  <2>1. s.key = t.key
    BY Zenon DEF s, t
  <2> QED BY <1>1, <1>2, <1>3, <1>5, <2>1, Zenon DEF EndOf
<1> QED BY <1>6, Zenon DEF s, t

-----------------------------------------------------------------------------
(* Each kind of step keeps the invariant. *)

\* Steps that carry their sessions over keep what is said of single sessions.
LEMMA CarriedSessions ==
  ASSUME TypeOK, TypeOK', Ringed, Answered, Numbered, PresharedKeyInForce,
         NEW p \in Peers, Alone(p), Carried(p), Responses' = Responses,
         psk'[p] = psk[p] \/ DOMAIN sessions'[p] = {}
  PROVE  Ringed' /\ Answered' /\ Numbered' /\ PresharedKeyInForce'
<1>1. Ringed'
  <2> SUFFICES ASSUME NEW q \in Peers
               PROVE  /\ \A x \in DOMAIN sessions'[q] :
                           /\ Slot(sessions'[q][x].idx) = x
                           /\ sessions'[q][x].established = session_timers'[q][x]
                      /\ \A x \in Slots : session_timers'[q][x] <= now'[q]
    BY Zenon DEF Ringed, Slot, Slots
  <2>1. CASE q = p
    BY <2>1 DEF Ringed, Carried, Continues
  <2>2. CASE q # p
    BY <2>2 DEF Ringed, Alone
  <2> QED BY <2>1, <2>2, Zenon
<1>2. Answered'
  <2> SUFFICES ASSUME NEW q \in Peers, NEW x \in DOMAIN sessions'[q]
               PROVE  \E r \in Responses : EndOf(q, sessions'[q][x], r)
    BY DEF Answered, EndOf
  <2>1. CASE q = p
    <3>1. x \in DOMAIN sessions[q] /\ Continues(sessions[q][x], sessions'[q][x])
      BY <2>1, Zenon DEF Carried
    <3>2. PICK r \in Responses : EndOf(q, sessions[q][x], r)
      BY <3>1, Zenon DEF Answered
    <3>3. EndOf(q, sessions'[q][x], r)
      BY <3>1, <3>2, Zenon DEF EndOf, Continues
    <3> QED BY <3>3, Zenon
  <2>2. CASE q # p
    BY <2>2, Zenon DEF Answered, Alone
  <2> QED BY <2>1, <2>2, Zenon
<1>3. Numbered'
  BY Zenon DEF Numbered
<1>4. PresharedKeyInForce'
  <2> SUFFICES ASSUME NEW q \in Peers, NEW x \in DOMAIN sessions'[q]
               PROVE  sessions'[q][x].key.psk = psk'[q]
    BY DEF PresharedKeyInForce, Live
  <2>1. CASE q = p
    BY <2>1 DEF PresharedKeyInForce, Live, Carried, Continues
  <2>2. CASE q # p
    BY <2>2, Zenon DEF PresharedKeyInForce, Live, Alone
  <2> QED BY <2>1, <2>2, Zenon
<1> QED BY <1>1, <1>2, <1>3, <1>4, Zenon

\* They keep the selected session confirmed.
LEMMA CarriedSelection ==
  ASSUME ConfirmedBeforeUse, NEW p \in Peers, Alone(p), Carried(p),
         current'[p] = current[p] \/ DOMAIN sessions'[p] = {}
  PROVE  ConfirmedBeforeUse'
<1> SUFFICES ASSUME NEW q \in Peers, Slot(current'[q]) \in DOMAIN sessions'[q]
             PROVE  \/ sessions'[q][Slot(current'[q])].key.initiator = q
                    \/ sessions'[q][Slot(current'[q])].received # {}
  BY Zenon DEF ConfirmedBeforeUse, Current, Slot
<1>1. CASE q = p
  BY <1>1 DEF ConfirmedBeforeUse, Current, Carried, Continues
<1>2. CASE q # p
  BY <1>2, Zenon DEF ConfirmedBeforeUse, Current, Alone
<1> QED BY <1>1, <1>2, Zenon

\* Packets already sent stay behind their sessions.
LEMMA CarriedCounters ==
  ASSUME TypeOK, TypeOK', CountersPast, NEW p \in Peers, Alone(p), Carried(p),
         Responses' = Responses
  PROVE  \A d \in Packets :
           /\ d.key.response < Cardinality(Responses')
           /\ \A x \in DOMAIN sessions'[d.from] :
                sessions'[d.from][x].key = d.key =>
                  d.counter < sessions'[d.from][x].sent
<1> SUFFICES ASSUME NEW d \in Packets, NEW x \in DOMAIN sessions'[d.from],
                    sessions'[d.from][x].key = d.key
             PROVE  d.counter < sessions'[d.from][x].sent
  BY Zenon DEF CountersPast
<1>1. d \in DataMessage /\ d.from \in Peers /\ d.counter \in Nat
  BY NetParts, Zenon DEF DataMessage
<1>2. CASE d.from = p
  <2>1. /\ x \in DOMAIN sessions[p] /\ Continues(sessions[p][x], sessions'[p][x])
    BY <1>2, Zenon DEF Carried
  <2>2. d.counter < sessions[p][x].sent
    BY <1>2, <2>1, Zenon DEF CountersPast, Continues
  <2>3. sessions[p][x].sent \in Nat /\ sessions'[p][x].sent \in Nat
    <3>1. sessions[p] \in Rings /\ sessions'[p] \in Rings
      BY Zenon DEF TypeOK
    <3>2. sessions[p][x] \in SessionState /\ sessions'[p][x] \in SessionState
      BY <1>2, <2>1, <3>1, RingElements, Zenon
    <3> QED BY <3>2, Zenon DEF SessionState
  <2> QED BY <1>1, <1>2, <2>1, <2>2, <2>3 DEF Continues
<1>3. CASE d.from # p
  BY <1>1, <1>3, Zenon DEF CountersPast, Alone
<1> QED BY <1>2, <1>3, Zenon

\* A session p has after carrying its sessions over was keyed before.
LEMMA CarriedKeys ==
  ASSUME NEW p \in Peers, Alone(p), Carried(p), NEW q \in Peers,
         NEW x \in DOMAIN sessions'[q]
  PROVE  x \in DOMAIN sessions[q] /\ sessions'[q][x].key = sessions[q][x].key
<1>1. CASE q = p
  BY <1>1, Zenon DEF Carried, Continues
<1>2. CASE q # p
  BY <1>2, Zenon DEF Alone
<1> QED BY <1>1, <1>2, Zenon

\* A quiet step keeps the invariant.
LEMMA QuietStep ==
  ASSUME TunnelInv, TypeOK', NEW p \in Peers, Quiet(p)
  PROVE  TunnelInv'
<1> USE DEF TunnelInv
<1>1. Alone(p) /\ Carried(p) /\ Responses' = Responses /\ Packets' = Packets
  BY Zenon DEF Quiet, Responses, Packets
<1>2. Ringed' /\ Answered' /\ Numbered' /\ PresharedKeyInForce'
  BY <1>1, CarriedSessions, Zenon DEF Quiet
<1>3. ConfirmedBeforeUse'
  BY <1>1, CarriedSelection, Zenon DEF Quiet
<1>4. CountersPast'
  <2>1. \A d \in Packets :
           /\ d.key.response < Cardinality(Responses')
           /\ \A x \in DOMAIN sessions'[d.from] :
                sessions'[d.from][x].key = d.key =>
                  d.counter < sessions'[d.from][x].sent
    BY <1>1, CarriedCounters, Zenon
  <2> QED BY <1>1, <2>1, Zenon DEF CountersPast
<1>5. NonceFresh'
  BY Zenon DEF Quiet, NonceFresh
<1>6. KeysSpent'
  <2>1. \A q \in Peers : stamps'[q] = stamps[q]
    BY Zenon DEF Quiet, Alone
  <2>2. \A q \in Peers :
          /\ state'[q].kind = "InitSent" => state'[q] = state[q]
          /\ previous'[q].kind = "InitSent" => previous'[q] = previous[q]
    BY Zenon DEF Quiet, Alone
  <2>3. ASSUME NEW q \in Peers, NEW k, Spent(q, k)
        PROVE  Spent(q, k)'
    BY <2>1, <2>2, <2>3, Zenon DEF Spent
  <2>4. ASSUME NEW q \in Peers, NEW x \in DOMAIN sessions'[q]
        PROVE  Spent(q, sessions[q][x].key)' 
    <3>1. /\ x \in DOMAIN sessions[q]
          /\ sessions'[q][x].key = sessions[q][x].key
      BY <1>1, CarriedKeys, Zenon
    <3>2. Spent(q, sessions[q][x].key)
      BY <3>1, Zenon DEF KeysSpent
    <3> QED BY <2>1, <2>2, <3>1, <3>2, Zenon DEF Spent
  <2>5. ASSUME NEW d \in Packets
        PROVE  Spent(d.from, d.key)'
    <3>1. d.from \in Peers /\ Spent(d.from, d.key)
      BY NetParts, Zenon DEF DataMessage, KeysSpent
    <3> QED BY <2>3, <3>1, Zenon
  <2>6. \A q \in Peers :
         /\ state'[q].kind = "InitSent" => state'[q].stamp <= stamps'[q]
         /\ previous'[q].kind = "InitSent" => previous'[q].stamp <= stamps'[q]
         /\ state'[q].kind = "InitSent" /\ previous'[q].kind = "InitSent" =>
              state'[q].stamp # previous'[q].stamp
    BY <2>1, <2>2, Zenon DEF KeysSpent
  <2> QED BY <1>1, <2>4, <2>5, <2>6, Zenon DEF KeysSpent
<1> QED BY <1>2, <1>3, <1>4, <1>5, <1>6, Zenon

\* A new initiation is stamped later than anything p was ever keyed with.
LEMMA InitiatesStep ==
  ASSUME TunnelInv, TypeOK', NEW p \in Peers, Initiates(p)
  PROVE  TunnelInv'
<1> USE DEF TunnelInv
<1>1. Alone(p) /\ Carried(p) /\ Responses' = Responses /\ Packets' = Packets
  BY SendInitiation, Zenon DEF Initiates
<1>2. Ringed' /\ Answered' /\ Numbered' /\ PresharedKeyInForce'
  BY <1>1, CarriedSessions, Zenon DEF Initiates
<1>3. ConfirmedBeforeUse'
  BY <1>1, CarriedSelection, Zenon DEF Initiates
<1>4. CountersPast'
  <2>1. \A d \in Packets :
           /\ d.key.response < Cardinality(Responses')
           /\ \A x \in DOMAIN sessions'[d.from] :
                sessions'[d.from][x].key = d.key =>
                  d.counter < sessions'[d.from][x].sent
    BY <1>1, CarriedCounters, Zenon
  <2> QED BY <1>1, <2>1, Zenon DEF CountersPast
<1>5. NonceFresh'
  <2>1. sealed' = Cardinality(Packets')
    BY <1>1, Zenon DEF Initiates, NonceFresh, Packets
  <2> QED BY <2>1, Zenon DEF NonceFresh, Packets
<1>6. KeysSpent'
  <2>1. /\ \A q \in Peers : stamps[q] \in Nat /\ stamps'[q] \in Nat /\ stamps[q] <= stamps'[q]
        /\ stamps'[p] = stamps[p] + 1
    <3>1. \A q \in Peers : stamps[q] \in Nat
      BY Zenon DEF TypeOK
    <3>2. /\ stamps'[p] = stamps[p] + 1
          /\ \A q \in Peers : q # p => stamps'[q] = stamps[q]
      BY Zenon DEF Initiates, Alone
    <3>3. ASSUME NEW q \in Peers
          PROVE  stamps[q] \in Nat /\ stamps'[q] \in Nat /\ stamps[q] <= stamps'[q]
      <4>1. PICK s \in Nat : s = stamps[q]
        BY <3>1, Zenon
      <4>2. stamps'[q] = s \/ stamps'[q] = s + 1
        BY <3>2, <4>1, Zenon
      <4> QED BY <4>1, <4>2
    <3> QED BY <3>2, <3>3, Zenon
  <2>2. /\ \A q \in Peers \ {p} : state'[q] = state[q] /\ previous'[q] = previous[q]
        /\ previous'[p] = state[p] /\ state'[p].stamp = stamps[p] + 1
    BY Zenon DEF Initiates, Alone
  <2>3. ASSUME NEW q \in Peers, NEW k \in Key, Spent(q, k)
        PROVE  Spent(q, k)'
    <3>1. k.stamp \in Nat
      BY Zenon DEF Key
    <3>2. CASE q = p
      BY <2>1, <2>2, <2>3, <3>1, <3>2 DEF Spent
    <3>3. CASE q # p
      BY <2>1, <2>2, <2>3, <3>1, <3>3 DEF Spent
    <3> QED BY <3>2, <3>3, Zenon
  <2>4. ASSUME NEW q \in Peers, NEW x \in DOMAIN sessions'[q]
        PROVE  Spent(q, sessions[q][x].key)'
    <3>1. /\ x \in DOMAIN sessions[q]
          /\ sessions'[q][x].key = sessions[q][x].key
      BY <1>1, CarriedKeys, Zenon
    <3>2. Spent(q, sessions[q][x].key)
      BY <3>1, Zenon DEF KeysSpent
    <3>3. sessions[q][x].key \in Key
      <4>1. sessions[q] \in Rings
        BY Zenon DEF TypeOK
      <4> QED BY <3>1, <4>1, RingElements, Zenon DEF SessionState
    <3>4. PICK k \in Key : k = sessions[q][x].key
      BY <3>3, Zenon
    <3>5. Spent(q, k)'
      BY <2>3, <3>2, <3>4, Zenon
    <3> QED BY <3>1, <3>4, <3>5, Zenon
  <2>5. ASSUME NEW d \in Packets
        PROVE  Spent(d.from, d.key)'
    <3>1. d.from \in Peers /\ d.key \in Key /\ Spent(d.from, d.key)
      BY NetParts, Zenon DEF DataMessage, KeysSpent
    <3> QED BY <2>3, <3>1, Zenon
  <2>6. ASSUME NEW q \in Peers
        PROVE  /\ state'[q].kind = "InitSent" => state'[q].stamp <= stamps'[q]
               /\ previous'[q].kind = "InitSent" => previous'[q].stamp <= stamps'[q]
               /\ state'[q].kind = "InitSent" /\ previous'[q].kind = "InitSent" =>
                    state'[q].stamp # previous'[q].stamp
    <3>1. /\ state[q].stamp \in Nat /\ previous[q].stamp \in Nat
      BY Zenon DEF TypeOK, HandshakeState
    <3>2. /\ state[q].kind = "InitSent" => state[q].stamp <= stamps[q]
          /\ previous[q].kind = "InitSent" => previous[q].stamp <= stamps[q]
          /\ state[q].kind = "InitSent" /\ previous[q].kind = "InitSent" =>
               state[q].stamp # previous[q].stamp
      BY Zenon DEF KeysSpent
    <3>3. CASE q = p
      BY <2>1, <2>2, <3>1, <3>2, <3>3
    <3>4. CASE q # p
      BY <2>1, <2>2, <3>1, <3>2, <3>4
    <3> QED BY <3>3, <3>4, Zenon
  <2> QED BY <1>1, <2>4, <2>5, <2>6, Zenon DEF KeysSpent
<1> QED BY <1>2, <1>3, <1>4, <1>5, <1>6, Zenon

\* A packet sealed on a session has a counter the session never used.
LEMMA SealsStep ==
  ASSUME TunnelInv, TypeOK', NEW p \in Peers, NEW x, Seals(p, x)
  PROVE  TunnelInv'
<1> USE DEF TunnelInv
<1> DEFINE s == sessions[p][x]
<1> DEFINE d == Data(p, s)
<1>1. Alone(p) /\ Carried(p) /\ x \in DOMAIN sessions[p] /\ x \in DOMAIN sessions'[p]
  BY Zenon DEF Seals, Carried
<1>2. s \in SessionState
  BY <1>1, RingElements, Zenon DEF TypeOK
<1>3. /\ d \in DataMessage /\ d.type = "data" /\ d.from = p
      /\ d.key = s.key /\ d.counter = s.sent
  BY <1>2, Zenon DEF Data, DataMessage, SessionState
<1>4. net' = net \cup {d} /\ sealed' = sealed + 1
  BY Zenon DEF Seals
<1>5. Responses' = Responses /\ Packets' = Packets \cup {d}
  BY <1>3, <1>4, SendPacket, Zenon
<1>6. Ringed' /\ Answered' /\ Numbered' /\ PresharedKeyInForce'
  BY <1>1, <1>5, CarriedSessions, Zenon DEF Seals
<1>7. ConfirmedBeforeUse'
  BY <1>1, CarriedSelection, Zenon DEF Seals
<1>8. NonceFresh'
  <2>1. d \notin net
    <3> SUFFICES ASSUME d \in net
                 PROVE  FALSE
      BY Zenon
    <3>1. d \in Packets
      BY <1>3, Zenon DEF Packets
    <3>2. d.counter < s.sent /\ s.sent \in Nat
      BY <1>1, <1>2, <1>3, <3>1, Zenon DEF CountersPast, SessionState
    <3> QED BY <1>3, <3>2
  <2> QED BY <1>3, <1>4, <2>1, FreshPacket, Zenon
<1>9. CountersPast'
  <2>1. \A e \in Packets :
           /\ e.key.response < Cardinality(Responses')
           /\ \A y \in DOMAIN sessions'[e.from] :
                sessions'[e.from][y].key = e.key =>
                  e.counter < sessions'[e.from][y].sent
    BY <1>1, <1>5, CarriedCounters, Zenon
  <2>2. d.key.response < Cardinality(Responses')
    <3>1. PICK r \in Responses : EndOf(p, s, r)
      BY <1>1, Zenon DEF Answered
    <3> QED BY <1>3, <1>5, <3>1, Zenon DEF EndOf, Numbered
  <2>3. ASSUME NEW y \in DOMAIN sessions'[p], sessions'[p][y].key = d.key
        PROVE  d.counter < sessions'[p][y].sent
    <3>1. y \in DOMAIN sessions[p] /\ sessions[p][y].key = s.key
      BY <1>1, <1>3, <2>3, Zenon DEF Carried, Continues
    <3>2. y = x
      BY <1>1, <3>1, AgreementHolds DEF KeyAgreement
    <3>3. sessions'[p][x].sent = s.sent + 1 /\ s.sent \in Nat
      BY <1>2, Zenon DEF Seals, SessionState
    <3> QED BY <1>3, <3>2, <3>3
  <2> QED BY <1>3, <1>5, <2>1, <2>2, <2>3, Zenon DEF CountersPast
<1>10. KeysSpent'
  <2>1. \A q \in Peers :
          state'[q] = state[q] /\ previous'[q] = previous[q] /\ stamps'[q] = stamps[q]
    BY Zenon DEF Seals, Alone
  <2>2. ASSUME NEW q \in Peers, NEW y \in DOMAIN sessions'[q]
        PROVE  Spent(q, sessions[q][y].key)'
    <3>1. /\ y \in DOMAIN sessions[q]
          /\ sessions'[q][y].key = sessions[q][y].key
      BY <1>1, CarriedKeys, Zenon
    <3>2. Spent(q, sessions[q][y].key)
      BY <3>1, Zenon DEF KeysSpent
    <3> QED BY <2>1, <3>1, <3>2, Zenon DEF Spent
  <2>3. ASSUME NEW e \in Packets'
        PROVE  Spent(e.from, e.key)'
    <3>1. e.from \in Peers /\ Spent(e.from, e.key)
      <4>1. CASE e \in Packets
        BY <4>1, NetParts, Zenon DEF DataMessage, KeysSpent
      <4>2. CASE e = d
        BY <1>1, <1>3, <4>2, Zenon DEF KeysSpent
      <4> QED BY <1>5, <4>1, <4>2, Zenon
    <3> QED BY <2>1, <3>1, Zenon DEF Spent
  <2>4. \A q \in Peers :
         /\ state'[q].kind = "InitSent" => state'[q].stamp <= stamps'[q]
         /\ previous'[q].kind = "InitSent" => previous'[q].stamp <= stamps'[q]
         /\ state'[q].kind = "InitSent" /\ previous'[q].kind = "InitSent" =>
              state'[q].stamp # previous'[q].stamp
    BY <2>1, Zenon DEF KeysSpent
  <2> QED BY <2>2, <2>3, <2>4, Zenon DEF KeysSpent
<1> QED BY <1>6, <1>7, <1>8, <1>9, <1>10, Zenon

\* Stamping a slot sets its timer to TimeCurrent.
LEMMA StampedTimers ==
  ASSUME TypeOK, NEW p \in Peers, NEW i \in Indices
  PROVE  /\ Slot(i) \in Slots
         /\ Stamped(p, i) \in [Slots -> Nat]
         /\ Stamped(p, i)[Slot(i)] = now[p]
         /\ \A x \in Slots : x # Slot(i) => Stamped(p, i)[x] = session_timers[p][x]
<1>1. i \in Nat
  BY TunnelAssumption DEF TunnelAssumption, Indices
<1>2. Slot(i) \in Slots
  BY <1>1, SlotType, Zenon
<1>3. session_timers[p] \in [Slots -> Nat] /\ now[p] \in Nat
  BY Zenon DEF TypeOK
<1> QED BY <1>2, <1>3, Zenon DEF Stamped

\* The step stores session s at p, stamps its slot and carries the rest.
Stores(p, s) ==
  /\ Alone(p)
  /\ s.established = now[p]
  /\ sessions'[p] = Stored(p, s)
  /\ session_timers'[p] = Stamped(p, s.idx)
  /\ psk'[p] = psk[p]
  /\ now'[p] = now[p]

\* What storing a session leaves in the ring.
LEMMA StoredSessions ==
  ASSUME TypeOK, NEW p \in Peers, NEW s \in SessionState, Stores(p, s)
  PROVE  /\ Slot(s.idx) \in Slots
         /\ DOMAIN sessions'[p] = {Slot(s.idx)} \cup DOMAIN sessions[p]
         /\ sessions'[p][Slot(s.idx)] = s
         /\ \A x \in DOMAIN sessions[p] :
              x # Slot(s.idx) => sessions'[p][x] = sessions[p][x]
         /\ session_timers'[p][Slot(s.idx)] = now[p]
         /\ \A x \in Slots :
              x # Slot(s.idx) => session_timers'[p][x] = session_timers[p][x]
<1>1. sessions[p] \in Rings /\ s.idx \in Indices
  BY Zenon DEF TypeOK, SessionState
<1> QED BY <1>1, StoredRing, StampedTimers, SMTT(30) DEF Stores

\* A session stored under a response keeps what is said of single sessions.
LEMMA StoresSessions ==
  ASSUME TypeOK, TypeOK', Ringed, Answered, PresharedKeyInForce,
         NEW p \in Peers, NEW s \in SessionState, Stores(p, s),
         Responses \subseteq Responses', s.key.psk = psk[p],
         \E r \in Responses' : EndOf(p, s, r)
  PROVE  Ringed' /\ Answered' /\ PresharedKeyInForce'
<1> USE StoredSessions
<1>1. Ringed'
  <2> SUFFICES ASSUME NEW q \in Peers
               PROVE  /\ \A x \in DOMAIN sessions'[q] :
                           /\ Slot(sessions'[q][x].idx) = x
                           /\ sessions'[q][x].established = session_timers'[q][x]
                      /\ \A x \in Slots : session_timers'[q][x] <= now'[q]
    BY Zenon DEF Ringed, Slot, Slots
  <2>1. CASE q = p
    <3>1. sessions[p] \in Rings /\ now[p] \in Nat
      BY Zenon DEF TypeOK
    <3>2. DOMAIN sessions[p] \subseteq Slots
      BY <3>1, RingElements, Zenon
    <3>3. now'[p] = now[p] /\ s.established = now[p]
      BY Zenon DEF Stores
    <3> QED BY <2>1, <3>1, <3>2, <3>3 DEF Ringed
  <2>2. CASE q # p
    BY <2>2 DEF Ringed, Alone, Stores
  <2> QED BY <2>1, <2>2, Zenon
<1>2. Answered'
  <2> SUFFICES ASSUME NEW q \in Peers, NEW x \in DOMAIN sessions'[q]
               PROVE  \E r \in Responses' : EndOf(q, sessions'[q][x], r)
    BY Zenon DEF Answered, EndOf
  <2>1. CASE q = p /\ x = Slot(s.idx)
    BY <2>1, Zenon
  <2>2. CASE q = p /\ x # Slot(s.idx)
    <3>1. x \in DOMAIN sessions[p] /\ sessions'[p][x] = sessions[p][x]
      BY <2>2
    <3> QED BY <2>2, <3>1, Zenon DEF Answered
  <2>3. CASE q # p
    <3>1. sessions'[q] = sessions[q]
      BY <2>3, Zenon DEF Stores, Alone
    <3> QED BY <3>1, Zenon DEF Answered
  <2> QED BY <2>1, <2>2, <2>3, Zenon
<1>3. PresharedKeyInForce'
  <2> SUFFICES ASSUME NEW q \in Peers, NEW x \in DOMAIN sessions'[q]
               PROVE  sessions'[q][x].key.psk = psk'[q]
    BY DEF PresharedKeyInForce, Live
  <2>1. CASE q = p /\ x = Slot(s.idx)
    BY <2>1, Zenon DEF Stores
  <2>2. CASE q = p /\ x # Slot(s.idx)
    BY <2>2 DEF PresharedKeyInForce, Live, Stores
  <2>3. CASE q # p
    BY <2>3 DEF PresharedKeyInForce, Live, Alone, Stores
  <2> QED BY <2>1, <2>2, <2>3, Zenon
<1> QED BY <1>1, <1>2, <1>3, Zenon

\* Answering an initiation: the response has a number of its own, the session
\* is keyed with nothing used before and stays off the selected slot.
LEMMA AnswerStep ==
  ASSUME TunnelInv, TypeOK', NEW p \in Peers, NEW m \in net, ReceiveInitiation(p, m)
  PROVE  TunnelInv'
<1> USE DEF TunnelInv
<1> DEFINE idx == IncIndexAvoiding(next_index[p], Slot(current[p]))
<1> DEFINE id == Cardinality(Responses)
<1> DEFINE key == [initiator |-> m.from, stamp |-> m.stamp, response |-> id,
                   psk |-> psk[p]]
<1> DEFINE s == NewSession(p, idx, m.sender_idx, key, 0)
<1> DEFINE r == [type |-> "resp", from |-> p, sender_idx |-> idx,
                 receiver_idx |-> m.sender_idx, key |-> key]
<1>1. /\ m.from # p /\ m.type = "init"
      /\ last_timestamp' = [last_timestamp EXCEPT ![p] = m.stamp]
      /\ previous' = [previous EXCEPT ![p] = state[p]]
      /\ state' = [state EXCEPT ![p] = NoHandshake]
      /\ sessions' = [sessions EXCEPT ![p] = Stored(p, s)]
      /\ session_timers' = [session_timers EXCEPT ![p] = Stamped(p, idx)]
      /\ net' = net \cup {r}
      /\ UNCHANGED <<current, now, psk, stamps, sealed>>
  BY Zenon DEF ReceiveInitiation, Responses
<1>2. m \in InitMessage /\ m.from \in Peers /\ m.stamp \in Nat /\ m.sender_idx \in Indices
  BY <1>1, Zenon DEF TypeOK, InitMessage, RespMessage, DataMessage
<1>3. idx \in Indices /\ Slot(idx) # Slot(current[p])
  BY AvoidsSlot, Zenon DEF TypeOK
<1>4. id \in Nat /\ key \in Key /\ key.response = id /\ key.psk = psk[p] /\ key.initiator = m.from
  BY <1>2, NetParts, Zenon DEF Key, TypeOK
<1> HIDE DEF idx, id, key
<1>5. /\ s \in SessionState /\ s.idx = idx /\ s.peer_idx = m.sender_idx /\ s.key = key
      /\ s.established = now[p]
  BY <1>2, <1>3, <1>4, Zenon DEF NewSession, SessionState, TypeOK
<1>6. /\ r \in RespMessage /\ r.key = key /\ r.from = p /\ r.sender_idx = idx
      /\ r.receiver_idx = m.sender_idx
  BY <1>2, <1>3, <1>4, Zenon DEF RespMessage
<1> HIDE DEF s, r
<1>7. Responses' = Responses \cup {r} /\ Packets' = Packets
  BY <1>1, <1>6, SendResponse, Zenon
<1>8. Alone(p) /\ Stores(p, s)
  BY <1>1, <1>5, Zenon DEF Alone, Stores, TypeOK
<1>9. Cardinality(Responses') = id + 1
  <2>1. r \notin Responses
    BY <1>4, <1>6 DEF Numbered, id
  <2> QED BY <1>7, <2>1, NetParts, FS_AddElement, Zenon DEF id
<1>10. Ringed' /\ Answered' /\ PresharedKeyInForce'
  <2>1. EndOf(p, s, r)
    BY <1>1, <1>4, <1>5, <1>6, Zenon DEF EndOf
  <2> QED BY <1>4, <1>5, <1>7, <1>8, <2>1, StoresSessions, Zenon
<1>11. Numbered'
  <2>1. \A r1 \in Responses : r1.key.response \in Nat /\ r1.key.response < id
    BY NetParts, Zenon DEF Numbered, id, RespMessage, Key
  <2>2. r.key.response = id
    BY <1>4, <1>6, Zenon
  <2> HIDE DEF TunnelInv
  <2>3. \A r1 \in Responses' : r1.key.response < Cardinality(Responses')
    BY <1>4, <1>7, <1>9, <2>1, <2>2
  <2>4. \A r1, r2 \in Responses' : r1.key.response = r2.key.response => r1 = r2
    <3>1. \A r1, r2 \in Responses : r1.key.response = r2.key.response => r1 = r2
      BY Zenon DEF TunnelInv, Numbered
    <3> QED BY <1>4, <1>7, <2>1, <2>2, <3>1
  <2> QED BY <2>3, <2>4, Zenon DEF Numbered
<1>12. KeysSpent'
  <2>1. /\ \A q \in Peers : stamps'[q] = stamps[q]
        /\ \A q \in Peers \ {p} : state'[q] = state[q] /\ previous'[q] = previous[q]
        /\ previous'[p] = state[p] /\ state'[p] = NoHandshake
    BY <1>1, Zenon DEF TypeOK
  <2>2. \A q \in Peers :
         /\ state'[q].kind = "InitSent" => state'[q] \in {state[q], previous[q]}
         /\ previous'[q].kind = "InitSent" => previous'[q] \in {state[q], previous[q]}
         /\ state'[q].kind = "InitSent" => state'[q] = state[q] /\ previous'[q] = previous[q]
    BY <2>1 DEF NoHandshake
  <2>3. ASSUME NEW q \in Peers, NEW x \in DOMAIN sessions'[q]
        PROVE  Spent(q, sessions[q][x].key)'
    <3>1. CASE q = p /\ x = Slot(idx)
      <4>1. sessions'[q][x].key.initiator # q
        BY <1>1, <1>4, <1>5, <1>8, <3>1, StoredSessions
      <4> QED BY <4>1, Zenon DEF Spent
    <3>2. CASE ~(q = p /\ x = Slot(idx))
      <4>1. x \in DOMAIN sessions[q] /\ sessions'[q][x] = sessions[q][x]
        BY <1>5, <1>8, <3>2, StoredSessions DEF Alone
      <4>2. Spent(q, sessions[q][x].key)
        BY <4>1, Zenon DEF KeysSpent
      <4> QED BY <2>1, <2>2, <4>1, <4>2, Zenon DEF Spent
    <3> QED BY <3>1, <3>2, Zenon
  <2>4. ASSUME NEW d \in Packets
        PROVE  Spent(d.from, d.key)'
    <3>1. d.from \in Peers /\ Spent(d.from, d.key)
      BY NetParts, Zenon DEF DataMessage, KeysSpent
    <3> QED BY <2>1, <2>2, <3>1, Zenon DEF Spent
  <2>5. \A q \in Peers :
         /\ state'[q].kind = "InitSent" => state'[q].stamp <= stamps'[q]
         /\ previous'[q].kind = "InitSent" => previous'[q].stamp <= stamps'[q]
         /\ state'[q].kind = "InitSent" /\ previous'[q].kind = "InitSent" =>
              state'[q].stamp # previous'[q].stamp
    BY <2>1, <2>2, Zenon DEF KeysSpent
  <2> QED BY <1>7, <2>3, <2>4, <2>5, Zenon DEF KeysSpent
<1>13. CountersPast'
  <2>1. \A d \in Packets : d.key.response \in Nat /\ d.key.response < id
    BY NetParts, Zenon DEF CountersPast, DataMessage, Key, id
  <2>2. ASSUME NEW d \in Packets, NEW x \in DOMAIN sessions'[d.from],
               sessions'[d.from][x].key = d.key
        PROVE  d.counter < sessions'[d.from][x].sent
    <3>1. ~(d.from = p /\ x = Slot(idx))
      BY <1>4, <1>5, <1>8, <2>1, <2>2, StoredSessions
    <3>2. d.from \in Peers
      BY NetParts, Zenon DEF DataMessage
    <3>3. x \in DOMAIN sessions[d.from] /\ sessions'[d.from][x] = sessions[d.from][x]
      BY <1>5, <1>8, <3>1, <3>2, StoredSessions DEF Alone
    <3> QED BY <2>2, <3>3, Zenon DEF CountersPast
  <2>3. \A d \in Packets : d.key.response < Cardinality(Responses')
    BY <1>4, <1>9, <2>1
  <2> QED BY <1>7, <2>2, <2>3, Zenon DEF CountersPast
<1>14. NonceFresh'
  <2>1. sealed' = Cardinality(Packets')
    BY <1>1, <1>7, Zenon DEF NonceFresh, Packets
  <2> QED BY <2>1, Zenon DEF NonceFresh, Packets
<1>15. ConfirmedBeforeUse'
  <2> SUFFICES ASSUME NEW q \in Peers, Slot(current'[q]) \in DOMAIN sessions'[q]
               PROVE  \/ sessions'[q][Slot(current'[q])].key.initiator = q
                      \/ sessions'[q][Slot(current'[q])].received # {}
    BY Zenon DEF ConfirmedBeforeUse, Current, Slot
  <2>1. /\ current'[q] = current[q]
        /\ Slot(current[q]) \in DOMAIN sessions[q]
        /\ sessions'[q][Slot(current[q])] = sessions[q][Slot(current[q])]
    BY <1>1, <1>3, <1>5, <1>8, StoredSessions DEF Alone
  <2> QED BY <2>1, Zenon DEF ConfirmedBeforeUse, Current
<1> QED BY <1>10, <1>11, <1>12, <1>13, <1>14, <1>15, Zenon

\* Only an older selection, or one that is gone, gives way.
LEMMA SelectedOne ==
  ASSUME NEW p, NEW i, NEW ring, NEW timers
  PROVE  /\ Selected(p, i, ring, timers) \in {i, current[p]}
         /\ Selected(p, i, ring, timers) # current[p] =>
              \/ Slot(current[p]) \notin DOMAIN ring
              \/ timers[Slot(i)] >= timers[Slot(current[p])]
BY Zenon DEF Selected

\* The handshake hs is taken: p waits for what it waited for except hs.
Takes(p, hs) ==
  /\ hs \in {state[p], previous[p]} /\ hs.kind = "InitSent"
  /\ \A q \in Peers \ {p} : state'[q] = state[q] /\ previous'[q] = previous[q]
  /\ state'[p].kind = "InitSent" => state'[p] = state[p] /\ state[p].stamp # hs.stamp
  /\ previous'[p].kind = "InitSent" =>
       previous'[p] = previous[p] /\ previous[p].stamp # hs.stamp

\* Committing a response: the initiation answered is spent, so the key is new
\* and counter zero was not sealed under it.
LEMMA CommitStep ==
  ASSUME TunnelInv, TypeOK', NEW p \in Peers, NEW m \in net, NEW hs,
         m.type = "resp", m.from # p, Answers(hs, m), Opens(p, hs, m),
         CommitResponse(p, hs, m), Takes(p, hs)
  PROVE  TunnelInv'
<1> USE DEF TunnelInv
<1> DEFINE s0 == NewSession(p, hs.idx, m.sender_idx, m.key, 0)
<1> DEFINE s == [s0 EXCEPT !.sent = 1]
<1> DEFINE ring == Stored(p, s)
<1> DEFINE timers == Stamped(p, hs.idx)
<1> DEFINE d == Data(p, s0)
<1>1. /\ sessions' = [sessions EXCEPT ![p] = ring]
      /\ session_timers' = [session_timers EXCEPT ![p] = timers]
      /\ current' = [current EXCEPT ![p] = Selected(p, hs.idx, ring, timers)]
      /\ net' = net \cup {d} /\ sealed' = sealed + 1
      /\ UNCHANGED <<now, psk, stamps>>
  BY Zenon DEF CommitResponse, Seal
<1>2. /\ m \in RespMessage /\ m.key \in Key /\ m.sender_idx \in Indices
      /\ m.receiver_idx \in Indices /\ m \in Responses
  BY Zenon DEF TypeOK, InitMessage, RespMessage, DataMessage, Responses
<1>3. /\ m.key.initiator = p /\ m.key.stamp = hs.stamp /\ m.key.psk = psk[p]
      /\ hs.idx = m.receiver_idx /\ hs.kind = "InitSent" /\ hs \in {state[p], previous[p]}
  BY Zenon DEF Answers, Opens, Takes
<1>4. now[p] \in Nat /\ hs.idx \in Indices /\ stamps[p] \in Nat
  BY <1>2, <1>3, Zenon DEF TypeOK
<1>5. /\ s \in SessionState /\ s.idx = hs.idx /\ s.peer_idx = m.sender_idx
      /\ s.key = m.key /\ s.established = now[p] /\ s.sent = 1
  BY <1>2, <1>4, Zenon DEF NewSession, SessionState
<1>6. /\ d \in DataMessage /\ d.from = p /\ d.key = m.key /\ d.counter = 0
      /\ d.type = "data"
  BY <1>2, Zenon DEF Data, NewSession, DataMessage
<1> HIDE DEF s0, s, d
<1>7. Responses' = Responses /\ Packets' = Packets \cup {d}
  BY <1>1, <1>6, SendPacket, Zenon
<1>8. Stores(p, s)
  BY <1>1, <1>5, Zenon DEF Alone, Stores, TypeOK, Takes
<1>9. Ringed' /\ Answered' /\ PresharedKeyInForce'
  <2>1. EndOf(p, s, m)
    BY <1>3, <1>5, Zenon DEF EndOf
  <2> QED BY <1>2, <1>3, <1>5, <1>7, <1>8, <2>1, StoresSessions, Zenon
<1>10. Numbered'
  BY <1>7, Zenon DEF Numbered
<1>11. \A e \in Packets : e.from = p => e.key # m.key
  <2> SUFFICES ASSUME NEW e \in Packets, e.from = p, e.key = m.key
               PROVE  FALSE
    BY Zenon
  <2>1. Spent(p, m.key)
    BY Zenon DEF KeysSpent
  <2> QED BY <1>3, <2>1, Zenon DEF Spent
<1>12. NonceFresh'
  <2>1. d \notin net
    BY <1>6, <1>11, Zenon DEF Packets
  <2> QED BY <1>1, <1>6, <2>1, FreshPacket, Zenon
<1>13. CountersPast'
  <2>1. ASSUME NEW e \in Packets, NEW x \in DOMAIN sessions'[e.from],
               sessions'[e.from][x].key = e.key
        PROVE  e.counter < sessions'[e.from][x].sent
    <3>1. e.from \in Peers
      BY NetParts, Zenon DEF DataMessage
    <3>2. ~(e.from = p /\ x = Slot(s.idx))
      BY <1>5, <1>8, <1>11, <2>1, StoredSessions
    <3>3. x \in DOMAIN sessions[e.from] /\ sessions'[e.from][x] = sessions[e.from][x]
      BY <1>5, <1>8, <3>1, <3>2, StoredSessions, SMTT(30) DEF Alone, Stores
    <3> QED BY <2>1, <3>3, Zenon DEF CountersPast
  <2>2. ASSUME NEW x \in DOMAIN sessions'[p], sessions'[p][x].key = d.key
        PROVE  d.counter < sessions'[p][x].sent
    <3>1. x = Slot(s.idx)
      <4>1. Ringed' /\ Answered' /\ Numbered' /\ TypeOK'
        BY <1>9, <1>10, Zenon
      <4>2. KeyAgreement'
        BY <4>1, AgreementHolds, PTL
      <4>3. /\ Slot(s.idx) \in DOMAIN sessions'[p]
            /\ sessions'[p][Slot(s.idx)].key = d.key
        BY <1>5, <1>6, <1>8, StoredSessions
      <4> QED BY <2>2, <4>2, <4>3 DEF KeyAgreement
    <3> QED BY <1>5, <1>6, <1>8, <3>1, StoredSessions
  <2>3. \A e \in Packets' : e.key.response < Cardinality(Responses')
    BY <1>2, <1>6, <1>7, Zenon DEF CountersPast, Numbered
  <2> QED BY <1>6, <1>7, <2>1, <2>2, <2>3, Zenon DEF CountersPast

<1>14. KeysSpent'
  <2>1. /\ \A q \in Peers : stamps'[q] = stamps[q]
        /\ \A q \in Peers :
             /\ state'[q].kind = "InitSent" => state'[q] = state[q]
             /\ previous'[q].kind = "InitSent" => previous'[q] = previous[q]
    BY <1>1, Zenon DEF Takes
  <2>2. hs.stamp <= stamps[p]
    BY <1>3, Zenon DEF KeysSpent
  <2>3. Spent(p, m.key)'
    BY <1>1, <1>3, <2>2, Zenon DEF Spent, Takes
  <2>4. ASSUME NEW q \in Peers, NEW x \in DOMAIN sessions'[q]
        PROVE  Spent(q, sessions[q][x].key)'
    <3>1. CASE q = p /\ x = Slot(s.idx)
      <4>1. sessions'[q][x].key = m.key
        BY <1>5, <1>8, <3>1, StoredSessions, Zenon
      <4> QED BY <2>3, <3>1, <4>1, Zenon
    <3>2. CASE ~(q = p /\ x = Slot(s.idx))
      <4>1. x \in DOMAIN sessions[q] /\ sessions'[q][x] = sessions[q][x]
        BY <1>5, <1>8, <3>2, StoredSessions DEF Alone, Stores
      <4>2. Spent(q, sessions[q][x].key)
        BY <4>1, Zenon DEF KeysSpent
      <4> QED BY <2>1, <4>1, <4>2, Zenon DEF Spent
    <3> QED BY <3>1, <3>2, Zenon
  <2>5. ASSUME NEW e \in Packets'
        PROVE  Spent(e.from, e.key)'
    <3>1. CASE e = d
      BY <1>6, <2>3, <3>1, Zenon
    <3>2. CASE e \in Packets
      <4>1. e.from \in Peers /\ Spent(e.from, e.key)
        BY <3>2, NetParts, Zenon DEF DataMessage, KeysSpent
      <4> QED BY <2>1, <4>1, Zenon DEF Spent
    <3> QED BY <1>7, <3>1, <3>2, Zenon
  <2>6. \A q \in Peers :
         /\ state'[q].kind = "InitSent" => state'[q].stamp <= stamps'[q]
         /\ previous'[q].kind = "InitSent" => previous'[q].stamp <= stamps'[q]
         /\ state'[q].kind = "InitSent" /\ previous'[q].kind = "InitSent" =>
              state'[q].stamp # previous'[q].stamp
    BY <2>1, Zenon DEF KeysSpent
  <2> QED BY <2>4, <2>5, <2>6, Zenon DEF KeysSpent
<1>15. ConfirmedBeforeUse'
  <2> SUFFICES ASSUME NEW q \in Peers, Slot(current'[q]) \in DOMAIN sessions'[q]
               PROVE  \/ sessions'[q][Slot(current'[q])].key.initiator = q
                      \/ sessions'[q][Slot(current'[q])].received # {}
    BY Zenon DEF ConfirmedBeforeUse, Current, Slot
  <2>1. CASE q # p
    BY <1>1, <1>8, <2>1, Zenon DEF ConfirmedBeforeUse, Current, Alone, Stores
  <2>2. CASE q = p /\ Slot(current'[p]) = Slot(hs.idx)
    BY <1>3, <1>5, <1>8, <2>2, StoredSessions
  <2>3. CASE q = p /\ Slot(current'[p]) # Slot(hs.idx)
    <3>1. current'[p] = current[p]
      BY <1>1, <2>3, SelectedOne, SMTT(30) DEF TypeOK
    <3>2. /\ Slot(current[p]) \in DOMAIN sessions[p]
          /\ sessions'[p][Slot(current[p])] = sessions[p][Slot(current[p])]
      BY <1>5, <1>8, <2>3, <3>1, StoredSessions
    <3> QED BY <2>3, <3>1, <3>2, Zenon DEF ConfirmedBeforeUse, Current
  <2> QED BY <2>1, <2>2, <2>3, Zenon
<1> QED BY <1>9, <1>10, <1>12, <1>13, <1>14, <1>15, Zenon

\* Taking a packet in: its session notes the counter and may be selected.
LEMMA DataStep ==
  ASSUME TunnelInv, TypeOK', NEW p \in Peers, NEW m \in net, ReceiveData(p, m)
  PROVE  TunnelInv' /\ Carried(p)
<1> USE DEF TunnelInv
<1> DEFINE x == Slot(m.receiver_idx)
<1> DEFINE s0 == sessions[p][x]
<1> DEFINE s == [s0 EXCEPT !.received = @ \cup {m.counter}]
<1> DEFINE ring == Stored(p, s)
<1>1. /\ x \in DOMAIN sessions[p] /\ s0.idx = m.receiver_idx
      /\ sessions' = [sessions EXCEPT ![p] = ring]
      /\ current' = [current EXCEPT ![p] = Selected(p, s0.idx, ring, session_timers[p])]
      /\ m.type = "data"
      /\ UNCHANGED <<state, previous, session_timers, now, psk, stamps, net, sealed>>
  BY Zenon DEF ReceiveData, hsVars
<1>2. s0 \in SessionState /\ sessions[p] \in Rings
  BY <1>1, RingElements, Zenon DEF TypeOK
<1>3. m.counter \in Nat
  BY <1>1, Zenon DEF TypeOK, InitMessage, RespMessage, DataMessage
<1>4. /\ s \in SessionState /\ s.idx = s0.idx /\ Continues(s0, s)
      /\ s.received # {}
  BY <1>2, <1>3 DEF SessionState, Continues
<1> HIDE DEF s
<1>5. Slot(s.idx) = x
  BY <1>1, <1>4, Zenon
<1>6. /\ DOMAIN sessions'[p] = DOMAIN sessions[p] /\ sessions'[p][x] = s
      /\ \A y \in DOMAIN sessions[p] : y # x => sessions'[p][y] = sessions[p][y]
  <2>1. sessions'[p] = ring
    BY <1>1, Zenon DEF TypeOK
  <2>2. /\ DOMAIN Stored(p, s) = {Slot(s.idx)} \cup DOMAIN sessions[p]
        /\ Stored(p, s)[Slot(s.idx)] = s
        /\ \A y \in DOMAIN sessions[p] :
             y # Slot(s.idx) => Stored(p, s)[y] = sessions[p][y]
    BY <1>2, <1>4, StoredRing, Zenon
  <2> HIDE DEF x
  <2>3. {x} \cup DOMAIN sessions[p] = DOMAIN sessions[p]
    BY <1>1, Zenon
  <2> QED BY <1>5, <2>1, <2>2, <2>3, Zenon
<1>7. \A y \in DOMAIN sessions[p] : Continues(sessions[p][y], sessions[p][y])
  <2>1. \A y \in DOMAIN sessions[p] : sessions[p][y] \in SessionState
    BY <1>2, RingElements, Zenon
  <2> QED BY <2>1 DEF Continues, SessionState
<1>8. Alone(p)
  BY <1>1, Zenon DEF Alone, TypeOK
<1>9. Carried(p)
  BY <1>1, <1>4, <1>6, <1>7, Zenon DEF Carried, Ringed
<1>10. Responses' = Responses /\ Packets' = Packets
  BY <1>1, Zenon DEF Responses, Packets
<1>11. Ringed' /\ Answered' /\ Numbered' /\ PresharedKeyInForce'
  BY <1>1, <1>8, <1>9, <1>10, CarriedSessions, Zenon
<1>12. CountersPast'
  <2>1. \A d \in Packets :
           /\ d.key.response < Cardinality(Responses')
           /\ \A y \in DOMAIN sessions'[d.from] :
                sessions'[d.from][y].key = d.key =>
                  d.counter < sessions'[d.from][y].sent
    BY <1>8, <1>9, <1>10, CarriedCounters, Zenon
  <2> QED BY <1>10, <2>1, Zenon DEF CountersPast
<1>13. NonceFresh'
  BY <1>1, Zenon DEF NonceFresh
<1>14. KeysSpent'
  <2>1. ASSUME NEW q \in Peers, NEW y \in DOMAIN sessions'[q]
        PROVE  Spent(q, sessions[q][y].key)'
    <3>1. /\ y \in DOMAIN sessions[q]
          /\ sessions'[q][y].key = sessions[q][y].key
      BY <1>8, <1>9, CarriedKeys, Zenon
    <3>2. Spent(q, sessions[q][y].key)
      BY <3>1, Zenon DEF KeysSpent
    <3> QED BY <1>1, <3>1, <3>2, Zenon DEF Spent
  <2> QED BY <1>1, <1>10, <2>1, Zenon DEF KeysSpent, Spent
<1>15. ConfirmedBeforeUse'
  <2> SUFFICES ASSUME NEW q \in Peers, Slot(current'[q]) \in DOMAIN sessions'[q]
               PROVE  \/ sessions'[q][Slot(current'[q])].key.initiator = q
                      \/ sessions'[q][Slot(current'[q])].received # {}
    BY Zenon DEF ConfirmedBeforeUse, Current, Slot
  <2>1. CASE q # p
    BY <1>1, <1>8, <2>1, Zenon DEF ConfirmedBeforeUse, Current, Alone
  <2>2. CASE q = p /\ Slot(current'[p]) = x
    BY <1>4, <1>6, <2>2, Zenon
  <2>3. CASE q = p /\ Slot(current'[p]) # x
    <3>1. current'[p] = current[p]
      BY <1>1, <2>3, SelectedOne DEF TypeOK
    <3>2. /\ Slot(current[p]) \in DOMAIN sessions[p]
          /\ sessions'[p][Slot(current[p])] = sessions[p][Slot(current[p])]
      BY <1>6, <2>3, <3>1
    <3> QED BY <2>3, <3>1, <3>2, Zenon DEF ConfirmedBeforeUse, Current
  <2> QED BY <2>1, <2>2, <2>3, Zenon
<1> QED BY <1>9, <1>11, <1>12, <1>13, <1>14, <1>15, Zenon

-----------------------------------------------------------------------------
(* Every action is a step of one of these kinds, and keeps the types. *)

\* A ring, its sessions and the handshake state p starts with.
LEMMA TypedRing ==
  ASSUME TypeOK, NEW p \in Peers
  PROVE  /\ sessions[p] \in Rings /\ DOMAIN sessions[p] \subseteq Slots
         /\ sessions[p] \in [DOMAIN sessions[p] -> SessionState]
         /\ \A x \in DOMAIN sessions[p] :
              /\ sessions[p][x] \in SessionState
              /\ Continues(sessions[p][x], sessions[p][x])
         /\ session_timers[p] \in [Slots -> Nat]
         /\ now[p] \in Nat /\ stamps[p] \in Nat /\ current[p] \in Indices
         /\ next_index[p] \in Indices /\ psk[p] \in Psks
         /\ state[p] \in HandshakeState /\ previous[p] \in HandshakeState
         /\ course.now \in Nat
<1>1. sessions[p] \in Rings
  BY Zenon DEF TypeOK
<1>2. \A x \in DOMAIN sessions[p] : sessions[p][x] \in SessionState
  BY <1>1, RingElements, Zenon
<1>3. \A x \in DOMAIN sessions[p] : Continues(sessions[p][x], sessions[p][x])
  BY <1>2 DEF Continues, SessionState
<1> QED BY <1>1, <1>2, <1>3, RingElements, Zenon DEF TypeOK, Course

\* A handshake that was never started or has expired.
LEMMA IdleHandshakes ==
  /\ NoHandshake \in HandshakeState /\ NoHandshake.kind # "InitSent"
  /\ Expired \in HandshakeState /\ Expired.kind # "InitSent"
  /\ 0 \in Indices
BY TunnelAssumption DEF TunnelAssumption, NoHandshake, Expired, HandshakeState, Indices

\* Sending a well-formed message keeps the network well formed.
LEMMA SendType ==
  ASSUME TypeOK, NEW m \in InitMessage \cup RespMessage \cup DataMessage
  PROVE  /\ net \cup {m} \subseteq InitMessage \cup RespMessage \cup DataMessage
         /\ IsFiniteSet(net \cup {m})
BY FS_AddElement, Zenon DEF TypeOK

\* What a new initiation changes besides the ring and its timers.
LEMMA NewInitiationStep ==
  ASSUME TypeOK, NEW p \in Peers, NEW t \in Nat, NewInitiation(p, t), UNCHANGED course
  PROVE  /\ state' \in [Peers -> HandshakeState] /\ previous' \in [Peers -> HandshakeState]
         /\ next_index' \in [Peers -> Indices] /\ stamps' \in [Peers -> Nat]
         /\ now' \in [Peers -> Nat] /\ now'[p] >= t
         /\ net' \subseteq InitMessage \cup RespMessage \cup DataMessage
         /\ IsFiniteSet(net')
         /\ \E m \in InitMessage : net' = net \cup {m}
         /\ sealed' = sealed
         /\ stamps'[p] = stamps[p] + 1 /\ previous'[p] = state[p]
         /\ state'[p].stamp = stamps[p] + 1
         /\ \A q \in Peers \ {p} :
              /\ state'[q] = state[q] /\ previous'[q] = previous[q]
              /\ now'[q] = now[q] /\ stamps'[q] = stamps[q]
<1> DEFINE idx == IncIndex(next_index[p])
<1> DEFINE stamp == stamps[p] + 1
<1> DEFINE m == [type |-> "init", from |-> p, sender_idx |-> idx, stamp |-> stamp]
<1>1. idx \in Indices /\ stamp \in Nat
  BY NextSlot DEF TypeOK
<1>2. /\ next_index' = [next_index EXCEPT ![p] = idx]
      /\ stamps' = [stamps EXCEPT ![p] = stamp]
      /\ previous' = [previous EXCEPT ![p] = state[p]]
      /\ state' = [state EXCEPT ![p] = InitSent(idx, stamp)]
      /\ net' = net \cup {m} /\ sealed' = sealed
  BY Zenon DEF NewInitiation
<1>3. PICK u \in Int : u >= t /\ now' = [now EXCEPT ![p] = u]
  <2> DEFINE top == IF state[p].kind = "Expired" THEN course.now ELSE t
  <2>1. top \in Nat
    BY Zenon DEF TypeOK, Course
  <2>2. \E u \in t..top : now' = [now EXCEPT ![p] = u]
    BY Zenon DEF NewInitiation
  <2>3. PICK u \in t..top : now' = [now EXCEPT ![p] = u]
    BY <2>2, Zenon
  <2> HIDE DEF top
  <2>4. u \in Int /\ u >= t
    BY <2>1
  <2> QED BY <2>3, <2>4, Zenon
<1>4. InitSent(idx, stamp) \in HandshakeState /\ InitSent(idx, stamp).stamp = stamp
  BY <1>1, Zenon DEF InitSent, HandshakeState
<1>5. m \in InitMessage
  BY <1>1, Zenon DEF InitMessage
<1> HIDE DEF idx, stamp, m
<1>6. /\ state' \in [Peers -> HandshakeState] /\ previous' \in [Peers -> HandshakeState]
      /\ next_index' \in [Peers -> Indices] /\ stamps' \in [Peers -> Nat]
  BY <1>1, <1>2, <1>4, Zenon DEF TypeOK
<1>7. now' \in [Peers -> Nat] /\ now'[p] >= t
  BY <1>3 DEF TypeOK
<1>8. /\ net' \subseteq InitMessage \cup RespMessage \cup DataMessage
      /\ IsFiniteSet(net')
  BY <1>2, <1>5, SendType, Zenon
<1>9. /\ stamps'[p] = stamps[p] + 1 /\ previous'[p] = state[p]
      /\ state'[p].stamp = stamps[p] + 1
  BY <1>2, <1>4, Zenon DEF TypeOK, stamp
<1>10. \A q \in Peers \ {p} :
         /\ state'[q] = state[q] /\ previous'[q] = previous[q]
         /\ now'[q] = now[q] /\ stamps'[q] = stamps[q]
  BY <1>2, <1>3, Zenon DEF TypeOK
<1> QED BY <1>2, <1>5, <1>6, <1>7, <1>8, <1>9, <1>10, Zenon

\* A step that leaves the ring and its timers alone carries the sessions.
LEMMA KeptRing ==
  ASSUME TypeOK, Ringed, NEW p \in Peers, sessions' = sessions,
         session_timers' = session_timers, now'[p] \in Nat, now'[p] >= now[p]
  PROVE  Carried(p)
<1>1. \A x \in Slots : session_timers[p][x] \in Nat /\ session_timers[p][x] <= now[p]
  BY TypedRing, Zenon DEF Ringed
<1>2. \A x \in Slots : session_timers[p][x] <= now'[p]
  BY <1>1, TypedRing
<1> QED BY <1>2, TypedRing, Zenon DEF Carried

\* A step that clears the ring carries nothing over.
LEMMA ClearedRing ==
  ASSUME TypeOK, NEW p \in Peers, sessions' = [sessions EXCEPT ![p] = <<>>],
         \A x \in Slots : session_timers'[p][x] <= now'[p]
  PROVE  /\ sessions' \in [Peers -> Rings]
         /\ DOMAIN sessions'[p] = {}
         /\ Carried(p)
         /\ \A q \in Peers \ {p} : sessions'[q] = sessions[q]
<1>1. sessions \in [Peers -> Rings] /\ <<>> \in Rings /\ DOMAIN <<>> = {}
  BY EmptyRing, Zenon DEF TypeOK
<1>2. sessions'[p] = <<>> /\ \A q \in Peers \ {p} : sessions'[q] = sessions[q]
  BY <1>1, Zenon
<1>3. sessions' \in [Peers -> Rings]
  BY <1>1, Zenon
<1>4. DOMAIN sessions'[p] = {}
  BY <1>1, <1>2, Zenon
<1> QED BY <1>2, <1>3, <1>4, Zenon DEF Carried

\* The timers of update_timers: aged slots restart, the others keep theirs.
LEMMA AgedTimersType ==
  ASSUME TypeOK, Ringed, NEW p \in Peers, NEW t \in Nat, t >= now[p]
  PROVE  /\ AgedTimers(p, t) \in [Slots -> Nat]
         /\ \A x \in Slots : AgedTimers(p, t)[x] <= t
         /\ \A x \in Slots \ AgedOut(p, t) : AgedTimers(p, t)[x] = session_timers[p][x]
<1>1. \A x \in Slots : session_timers[p][x] \in Nat /\ session_timers[p][x] <= now[p]
  BY TypedRing, Zenon DEF Ringed
<1>2. \A x \in Slots : session_timers[p][x] <= t
  BY <1>1, TypedRing
<1> QED BY <1>1, <1>2 DEF AgedTimers

\* A step of update_timers up to time t, whatever it does then.
Ages(p, t) ==
  /\ t \in Nat /\ t >= now[p]
  /\ session_timers' = [session_timers EXCEPT ![p] = AgedTimers(p, t)]
  /\ now'[p] \in Nat /\ now'[p] >= t

\* Ageing types its timers and leaves them in the past.
LEMMA AgesTimers ==
  ASSUME TypeOK, Ringed, NEW p \in Peers, NEW t, Ages(p, t)
  PROVE  /\ session_timers' \in [Peers -> [Slots -> Nat]]
         /\ \A x \in Slots : session_timers'[p][x] <= now'[p]
         /\ \A x \in Slots \ AgedOut(p, t) : session_timers'[p][x] = session_timers[p][x]
         /\ \A q \in Peers \ {p} : session_timers'[q] = session_timers[q]
<1>1. t \in Nat /\ t >= now[p] /\ now'[p] \in Nat /\ now'[p] >= t
  BY Zenon DEF Ages
<1>2. /\ AgedTimers(p, t) \in [Slots -> Nat]
      /\ \A x \in Slots : AgedTimers(p, t)[x] <= t
      /\ \A x \in Slots \ AgedOut(p, t) : AgedTimers(p, t)[x] = session_timers[p][x]
  BY <1>1, AgedTimersType, Zenon
<1>3. session_timers \in [Peers -> [Slots -> Nat]]
  BY Zenon DEF TypeOK
<1>4. /\ session_timers'[p] = AgedTimers(p, t)
      /\ session_timers' \in [Peers -> [Slots -> Nat]]
      /\ \A q \in Peers \ {p} : session_timers'[q] = session_timers[q]
  BY <1>2, <1>3, Zenon DEF Ages
<1>5. \A x \in Slots : session_timers'[p][x] <= now'[p]
  BY <1>1, <1>2, <1>4
<1> QED BY <1>2, <1>4, <1>5, Zenon

\* Dropping the sessions that aged out carries the others.
LEMMA AgedRing ==
  ASSUME TypeOK, Ringed, NEW p \in Peers, NEW t, Ages(p, t),
         sessions' = [sessions EXCEPT ![p] = LiveRing(p, t)]
  PROVE  /\ sessions' \in [Peers -> Rings]
         /\ Carried(p)
         /\ \A q \in Peers \ {p} : sessions'[q] = sessions[q]
<1>1. sessions \in [Peers -> Rings] /\ sessions[p] \in Rings
  BY Zenon DEF TypeOK
<1>2. /\ LiveRing(p, t) \in Rings
      /\ DOMAIN LiveRing(p, t) = DOMAIN sessions[p] \ AgedOut(p, t)
      /\ \A x \in DOMAIN LiveRing(p, t) : LiveRing(p, t)[x] = sessions[p][x]
  BY <1>1, LiveRingType, Zenon
<1>3. /\ sessions' \in [Peers -> Rings] /\ sessions'[p] = LiveRing(p, t)
      /\ \A q \in Peers \ {p} : sessions'[q] = sessions[q]
  BY <1>1, <1>2, Zenon
<1>4. Carried(p)
  <2>1. /\ \A x \in Slots : session_timers'[p][x] <= now'[p]
        /\ \A x \in Slots \ AgedOut(p, t) : session_timers'[p][x] = session_timers[p][x]
    BY AgesTimers, Zenon
  <2>2. ASSUME NEW x \in DOMAIN sessions'[p]
        PROVE  /\ x \in DOMAIN sessions[p] /\ x \in Slots \ AgedOut(p, t)
               /\ sessions'[p][x] = sessions[p][x]
    BY <1>2, <1>3, TypedRing, Zenon
  <2> QED BY <2>1, <2>2, TypedRing, Zenon DEF Carried
<1> QED BY <1>3, <1>4, Zenon

\* Counting a packet on the session in slot x.
LEMMA BumpedRing ==
  ASSUME NEW f \in Rings, NEW x \in DOMAIN f
  PROVE  /\ [f EXCEPT ![x].sent = @ + 1] \in Rings
         /\ DOMAIN [f EXCEPT ![x].sent = @ + 1] = DOMAIN f
         /\ [f EXCEPT ![x].sent = @ + 1][x].sent = f[x].sent + 1
         /\ \A y \in DOMAIN f : Continues(f[y], [f EXCEPT ![x].sent = @ + 1][y])
<1> DEFINE s == [f[x] EXCEPT !.sent = f[x].sent + 1]
<1> DEFINE g == [f EXCEPT ![x] = s]
<1>1. f \in [DOMAIN f -> SessionState] /\ DOMAIN f \subseteq Slots
  BY RingElements, Zenon
<1>2. f[x] \in SessionState
  BY <1>1, Zenon
<1>3. s \in SessionState /\ s.sent = f[x].sent + 1 /\ Continues(f[x], s)
  BY <1>2 DEF SessionState, Continues
<1>4. \A y \in DOMAIN f : Continues(f[y], f[y])
  BY <1>1 DEF SessionState, Continues
<1> HIDE DEF s
<1>5. g \in [DOMAIN f -> SessionState] /\ g[x] = s
  BY <1>1, <1>3, Zenon
<1>6. g \in Rings
  BY <1>1, <1>5, IsRing, Zenon
<1>7. \A y \in DOMAIN f : Continues(f[y], g[y])
  BY <1>1, <1>3, <1>4, Zenon
<1>8. [f EXCEPT ![x].sent = @ + 1] = g
  BY Zenon DEF s
<1> HIDE DEF g
<1> QED BY <1>3, <1>5, <1>6, <1>7, <1>8, Zenon

\* A packet of a session is well formed.
LEMMA DataType ==
  ASSUME NEW p \in Peers, NEW s \in SessionState
  PROVE  Data(p, s) \in InitMessage \cup RespMessage \cup DataMessage
BY Zenon DEF Data, DataMessage, SessionState

\* encapsulate and the queue's drain on a session in use.
LEMMA SealOnCurrentStep ==
  ASSUME TunnelInv, NEW p \in Peers, HasCurrentSession(p), SealOnCurrent(p),
         UNCHANGED <<session_timers, current, psk, course>>
  PROVE  TunnelInv'
<1> DEFINE x == Slot(current[p])
<1> DEFINE f == [sessions[p] EXCEPT ![x].sent = @ + 1]
<1>1. TypeOK /\ Ringed
  BY Zenon DEF TunnelInv
<1>2. /\ x \in DOMAIN sessions[p] /\ sessions[p] \in Rings
      /\ sessions \in [Peers -> Rings]
  BY <1>1, Zenon DEF HasCurrentSession, TypeOK
<1>3. /\ f \in Rings /\ DOMAIN f = DOMAIN sessions[p]
      /\ f[x].sent = sessions[p][x].sent + 1
      /\ \A y \in DOMAIN sessions[p] : Continues(sessions[p][y], f[y])
  BY <1>2, BumpedRing, Zenon
<1>4. /\ sessions' = [sessions EXCEPT ![p] = f]
      /\ net' = net \cup {Data(p, sessions[p][x])}
      /\ sealed' = sealed + 1
      /\ UNCHANGED <<state, previous, next_index, now, stamps, session_timers, current,
                     psk, course>>
  BY Zenon DEF SealOnCurrent, Seal, Current, hsVars
<1> HIDE DEF x, f
<1>5. /\ sessions' \in [Peers -> Rings] /\ sessions'[p] = f
      /\ \A q \in Peers \ {p} : sessions'[q] = sessions[q]
  BY <1>2, <1>3, <1>4, Zenon
<1>6. TypeOK'
  <2>1. sessions[p][x] \in SessionState
    BY <1>2, RingElements, Zenon
  <2>2. /\ net' \subseteq InitMessage \cup RespMessage \cup DataMessage
        /\ IsFiniteSet(net')
    BY <1>1, <1>4, <2>1, DataType, SendType, Zenon
  <2> QED BY <1>1, <1>4, <1>5, <2>2 DEF TypeOK
<1>7. Alone(p)
  BY <1>4, <1>5, Zenon DEF Alone
<1>8. Carried(p)
  <2>1. \A y \in Slots : session_timers[p][y] <= now[p]
    BY <1>1, Zenon DEF Ringed
  <2> QED BY <1>3, <1>4, <1>5, <2>1, Zenon DEF Carried
<1>9. Seals(p, x)
  BY <1>2, <1>3, <1>4, <1>5, <1>7, <1>8, Zenon DEF Seals
<1> QED BY <1>6, <1>9, SealsStep, Zenon

\* format_handshake_initiation outside update_timers.
LEMMA InitiationStep ==
  ASSUME TunnelInv, NEW p \in Peers, NewInitiation(p, now[p]),
         UNCHANGED <<sessions, session_timers, current, psk, course>>
  PROVE  TunnelInv'
<1>1. TypeOK /\ Ringed /\ now[p] \in Nat
  BY Zenon DEF TunnelInv, TypeOK
<1>2. /\ state' \in [Peers -> HandshakeState] /\ previous' \in [Peers -> HandshakeState]
      /\ next_index' \in [Peers -> Indices] /\ stamps' \in [Peers -> Nat]
      /\ now' \in [Peers -> Nat] /\ now'[p] >= now[p]
      /\ net' \subseteq InitMessage \cup RespMessage \cup DataMessage
      /\ IsFiniteSet(net')
      /\ \E m \in InitMessage : net' = net \cup {m}
      /\ sealed' = sealed
      /\ stamps'[p] = stamps[p] + 1 /\ previous'[p] = state[p]
      /\ state'[p].stamp = stamps[p] + 1
      /\ \A q \in Peers \ {p} :
           /\ state'[q] = state[q] /\ previous'[q] = previous[q]
           /\ now'[q] = now[q] /\ stamps'[q] = stamps[q]
  BY <1>1, NewInitiationStep, Zenon
<1>3. TypeOK'
  BY <1>1, <1>2, Zenon DEF TypeOK
<1>4. Carried(p)
  BY <1>1, <1>2, KeptRing, Zenon
<1>5. Initiates(p)
  BY <1>2, <1>4, Zenon DEF Initiates, Alone
<1> QED BY <1>3, <1>5, InitiatesStep, Zenon

\* A step of p that touches neither ring, handshakes nor network.
LEMMA IdleStep ==
  ASSUME TunnelInv, NEW p \in Peers, now'[p] \in Nat, now'[p] >= now[p],
         now' \in [Peers -> Nat], \A q \in Peers \ {p} : now'[q] = now[q],
         UNCHANGED <<hsVars, stamps, net, sealed, sessions, session_timers, current, psk,
                     course>>
  PROVE  TunnelInv'
<1>1. TypeOK /\ Ringed
  BY Zenon DEF TunnelInv
<1>2. TypeOK'
  BY <1>1, Zenon DEF TypeOK, hsVars
<1>3. Quiet(p)
  BY <1>1, KeptRing, Zenon DEF Quiet, Alone, hsVars
<1> QED BY <1>2, <1>3, QuietStep, Zenon

\* encapsulate.
LEMMA EncapsulateStep ==
  ASSUME TunnelInv, NEW p \in Peers, Encapsulate(p), UNCHANGED course
  PROVE  TunnelInv'
<1>1. UNCHANGED <<session_timers, current, psk, course>>
  BY Zenon DEF Encapsulate
<1>2. CASE HasCurrentSession(p) /\ SealOnCurrent(p)
  BY <1>1, <1>2, SealOnCurrentStep, Zenon
<1>3. CASE FormatInitiation(p, now[p]) /\ UNCHANGED sessions
  <2>1. CASE NewInitiation(p, now[p])
    BY <1>1, <1>3, <2>1, InitiationStep, Zenon
  <2>2. CASE /\ now' = [now EXCEPT ![p] = now[p]]
             /\ UNCHANGED <<hsVars, stamps, net, sealed>>
    <3>1. now' = now /\ now \in [Peers -> Nat]
      BY <2>2, Zenon DEF TunnelInv, TypeOK
    <3> QED BY <1>1, <1>3, <2>2, <3>1, IdleStep
  <2> QED BY <1>3, <2>1, <2>2, Zenon DEF FormatInitiation
<1> QED BY <1>2, <1>3, Zenon DEF Encapsulate

\* The drain of the queue.
LEMMA SendQueuedStep ==
  ASSUME TunnelInv, NEW p \in Peers, SendQueued(p), UNCHANGED course
  PROVE  TunnelInv'
<1>1. UNCHANGED <<session_timers, current, psk, course>>
  BY Zenon DEF SendQueued
<1>2. CASE HasCurrentSession(p) /\ SealOnCurrent(p)
  BY <1>1, <1>2, SealOnCurrentStep, Zenon
<1>3. CASE NewInitiation(p, now[p]) /\ UNCHANGED sessions
  BY <1>1, <1>3, InitiationStep, Zenon
<1>4. CASE UNCHANGED <<hsVars, sessions, now, stamps, net, sealed>>
  <2>1. now' = now /\ now \in [Peers -> Nat]
    BY <1>4, Zenon DEF TunnelInv, TypeOK
  <2> QED BY <1>1, <1>4, <2>1, IdleStep
<1> QED BY <1>2, <1>3, <1>4, Zenon DEF SendQueued

\* update_timers with nothing to serve.
LEMMA TickQuietStep ==
  ASSUME TunnelInv, NEW p \in Peers, NEW t, Ages(p, t),
         sessions' = [sessions EXCEPT ![p] = LiveRing(p, t)],
         now' = [now EXCEPT ![p] = t],
         UNCHANGED <<hsVars, stamps, net, sealed, current, psk, course>>
  PROVE  TunnelInv'
<1>1. TypeOK /\ Ringed
  BY Zenon DEF TunnelInv
<1>2. /\ sessions' \in [Peers -> Rings] /\ Carried(p)
      /\ \A q \in Peers \ {p} : sessions'[q] = sessions[q]
  BY <1>1, AgedRing, Zenon
<1>3. /\ session_timers' \in [Peers -> [Slots -> Nat]]
      /\ \A q \in Peers \ {p} : session_timers'[q] = session_timers[q]
  BY <1>1, AgesTimers, Zenon
<1>4. now' \in [Peers -> Nat] /\ \A q \in Peers \ {p} : now'[q] = now[q]
  BY <1>1, Zenon DEF TypeOK, Ages
<1>5. TypeOK'
  BY <1>1, <1>2, <1>3, <1>4, Zenon DEF TypeOK, hsVars
<1>6. Quiet(p)
  BY <1>2, <1>3, <1>4, Zenon DEF Quiet, Alone, hsVars
<1> QED BY <1>5, <1>6, QuietStep, Zenon

\* update_timers giving the connection up.
LEMMA TickExpireStep ==
  ASSUME TunnelInv, NEW p \in Peers, NEW t, Ages(p, t), TickExpire(p, t),
         now' \in [Peers -> Nat], \A q \in Peers \ {p} : now'[q] = now[q],
         UNCHANGED <<current, psk, course>>
  PROVE  TunnelInv'
<1>1. TypeOK /\ Ringed
  BY Zenon DEF TunnelInv
<1>2. /\ session_timers' \in [Peers -> [Slots -> Nat]]
      /\ \A x \in Slots : session_timers'[p][x] <= now'[p]
      /\ \A q \in Peers \ {p} : session_timers'[q] = session_timers[q]
  BY <1>1, AgesTimers, Zenon
<1>3. /\ sessions' \in [Peers -> Rings] /\ DOMAIN sessions'[p] = {} /\ Carried(p)
      /\ \A q \in Peers \ {p} : sessions'[q] = sessions[q]
  BY <1>1, <1>2, ClearedRing, Zenon DEF TickExpire
<1>4. /\ state' \in [Peers -> HandshakeState] /\ state'[p].kind # "InitSent"
      /\ previous' \in [Peers -> HandshakeState] /\ previous'[p].kind # "InitSent"
      /\ \A q \in Peers \ {p} : state'[q] = state[q] /\ previous'[q] = previous[q]
  BY <1>1, IdleHandshakes, Zenon DEF TickExpire, TypeOK
<1>5. TypeOK'
  BY <1>1, <1>2, <1>3, <1>4, Zenon DEF TypeOK, TickExpire
<1>6. Quiet(p)
  BY <1>2, <1>3, <1>4, Zenon DEF Quiet, Alone, TickExpire
<1> QED BY <1>5, <1>6, QuietStep, Zenon

\* update_timers starting or resending a handshake.
LEMMA TickInitiationStep ==
  ASSUME TunnelInv, NEW p \in Peers, NEW t, Ages(p, t), t \in Nat,
         sessions' = [sessions EXCEPT ![p] = LiveRing(p, t)], NewInitiation(p, t),
         UNCHANGED <<current, psk, course>>
  PROVE  TunnelInv'
<1>1. TypeOK /\ Ringed
  BY Zenon DEF TunnelInv
<1>2. /\ state' \in [Peers -> HandshakeState] /\ previous' \in [Peers -> HandshakeState]
      /\ next_index' \in [Peers -> Indices] /\ stamps' \in [Peers -> Nat]
      /\ now' \in [Peers -> Nat]
      /\ net' \subseteq InitMessage \cup RespMessage \cup DataMessage
      /\ IsFiniteSet(net')
      /\ \E m \in InitMessage : net' = net \cup {m}
      /\ sealed' = sealed
      /\ stamps'[p] = stamps[p] + 1 /\ previous'[p] = state[p]
      /\ state'[p].stamp = stamps[p] + 1
      /\ \A q \in Peers \ {p} :
           /\ state'[q] = state[q] /\ previous'[q] = previous[q]
           /\ now'[q] = now[q] /\ stamps'[q] = stamps[q]
  BY <1>1, NewInitiationStep, Zenon
<1>3. /\ sessions' \in [Peers -> Rings] /\ Carried(p)
      /\ \A q \in Peers \ {p} : sessions'[q] = sessions[q]
  BY <1>1, AgedRing, Zenon
<1>4. /\ session_timers' \in [Peers -> [Slots -> Nat]]
      /\ \A q \in Peers \ {p} : session_timers'[q] = session_timers[q]
  BY <1>1, AgesTimers, Zenon
<1>5. TypeOK'
  BY <1>1, <1>2, <1>3, <1>4, Zenon DEF TypeOK
<1>6. Initiates(p)
  BY <1>2, <1>3, <1>4, Zenon DEF Initiates, Alone
<1> QED BY <1>5, <1>6, InitiatesStep, Zenon

\* update_timers sealing a keepalive on what the ageing left.
LEMMA TickSealStep ==
  ASSUME TunnelInv, NEW p \in Peers, NEW t, Ages(p, t), NEW x,
         x \in DOMAIN LiveRing(p, t),
         sessions' = [sessions EXCEPT ![p] = [LiveRing(p, t) EXCEPT ![x].sent = @ + 1]],
         Seal(p, LiveRing(p, t)[x]), now' = [now EXCEPT ![p] = t],
         UNCHANGED <<hsVars, stamps, current, psk, course>>
  PROVE  TunnelInv'
<1> DEFINE ring == LiveRing(p, t)
<1> DEFINE f == [ring EXCEPT ![x].sent = @ + 1]
<1>1. TypeOK /\ Ringed
  BY Zenon DEF TunnelInv
<1>2. sessions[p] \in Rings /\ sessions \in [Peers -> Rings]
  BY <1>1, Zenon DEF TypeOK
<1>3. /\ ring \in Rings /\ DOMAIN ring = DOMAIN sessions[p] \ AgedOut(p, t)
      /\ \A y \in DOMAIN ring : ring[y] = sessions[p][y]
  BY <1>2, LiveRingType, Zenon
<1>4. /\ f \in Rings /\ DOMAIN f = DOMAIN ring /\ f[x].sent = ring[x].sent + 1
      /\ \A y \in DOMAIN ring : Continues(ring[y], f[y])
  BY <1>3, BumpedRing, Zenon
<1>5. /\ net' = net \cup {Data(p, ring[x])} /\ sealed' = sealed + 1
  BY Zenon DEF Seal
<1> HIDE DEF ring
<1>6. sessions' = [sessions EXCEPT ![p] = f] /\ x \in DOMAIN ring
  BY Zenon DEF ring
<1> HIDE DEF f
<1>7. /\ sessions' \in [Peers -> Rings] /\ sessions'[p] = f
      /\ \A q \in Peers \ {p} : sessions'[q] = sessions[q]
  BY <1>2, <1>4, <1>6, Zenon
<1>8. /\ session_timers' \in [Peers -> [Slots -> Nat]]
      /\ \A y \in Slots : session_timers'[p][y] <= now'[p]
      /\ \A y \in Slots \ AgedOut(p, t) : session_timers'[p][y] = session_timers[p][y]
      /\ \A q \in Peers \ {p} : session_timers'[q] = session_timers[q]
  BY <1>1, AgesTimers, Zenon
<1>9. now' \in [Peers -> Nat] /\ \A q \in Peers \ {p} : now'[q] = now[q]
  BY <1>1, Zenon DEF TypeOK, Ages
<1>10. TypeOK'
  <2>1. ring[x] \in SessionState
    BY <1>3, <1>6, RingElements, Zenon
  <2>2. /\ net' \subseteq InitMessage \cup RespMessage \cup DataMessage
        /\ IsFiniteSet(net')
    BY <1>1, <1>5, <2>1, DataType, SendType, Zenon
  <2> QED BY <1>1, <1>5, <1>7, <1>8, <1>9, <2>2 DEF TypeOK, hsVars
<1>11. Carried(p)
  <2>1. DOMAIN sessions[p] \subseteq Slots
    BY <1>2, RingElements, Zenon
  <2> QED BY <1>3, <1>4, <1>7, <1>8, <2>1, Zenon DEF Carried
<1>12. Seals(p, x)
  <2>1. Alone(p)
    BY <1>7, <1>8, <1>9, Zenon DEF Alone, hsVars
  <2>2. x \in DOMAIN sessions'[p] /\ sessions'[p][x].sent = sessions[p][x].sent + 1
    BY <1>3, <1>4, <1>6, <1>7, Zenon
  <2>3. net' = net \cup {Data(p, sessions[p][x])}
    BY <1>3, <1>5, <1>6, Zenon
  <2> QED BY <1>5, <1>11, <2>1, <2>2, <2>3, Zenon DEF Seals, hsVars
<1> QED BY <1>10, <1>12, SealsStep, Zenon

\* update_timers.
LEMMA UpdateTimersStep ==
  ASSUME TunnelInv, NEW p \in Peers, UpdateTimers(p), UNCHANGED course
  PROVE  TunnelInv'
<1>1. TypeOK /\ now \in [Peers -> Nat] /\ now[p] \in Nat /\ course.now \in Nat
  BY Zenon DEF TunnelInv, TypeOK, Course
<1>2. PICK t \in now[p]..course.now :
        /\ session_timers' = [session_timers EXCEPT ![p] = AgedTimers(p, t)]
        /\ \/ TickExpire(p, t)
           \/ UNCHANGED upsets /\ TickQuiet(p, t)
           \/ UNCHANGED upsets /\ TickHandshake(p, t)
           \/ UNCHANGED upsets /\ TickKeepalive(p, t)
        /\ UNCHANGED <<current, flush, psk>>
  BY Zenon DEF UpdateTimers
<1>3. t \in Nat /\ t >= now[p]
  BY <1>1
<1>4. UNCHANGED <<current, psk, course>>
  BY <1>2, Zenon
<1>5. ASSUME NEW u \in Nat, u >= t, now' = [now EXCEPT ![p] = u]
      PROVE  /\ Ages(p, t) /\ now' \in [Peers -> Nat]
             /\ \A q \in Peers \ {p} : now'[q] = now[q]
  <2>1. now'[p] = u /\ now' \in [Peers -> Nat] /\ \A q \in Peers \ {p} : now'[q] = now[q]
    BY <1>1, <1>5, Zenon
  <2> QED BY <1>2, <1>3, <1>5, <2>1, Zenon DEF Ages
<1>6. ASSUME now' = [now EXCEPT ![p] = t]
       PROVE  Ages(p, t)
  <2>1. t >= t
    BY <1>3
  <2> QED BY <1>3, <1>5, <1>6, <2>1, Zenon
<1>7. ASSUME NewInitiation(p, t)
      PROVE  Ages(p, t)
  <2>1. now'[p] >= t /\ now' \in [Peers -> Nat]
    BY <1>1, <1>3, <1>7, NewInitiationStep, Zenon
  <2> QED BY <1>2, <1>3, <2>1, Zenon DEF Ages
<1>8. CASE TickExpire(p, t)
  <2>1. PICK u \in t..course.now : now' = [now EXCEPT ![p] = u]
    BY <1>8, Zenon DEF TickExpire
  <2>2. u \in Nat /\ u >= t
    BY <1>1, <1>3
  <2> QED BY <1>4, <1>5, <1>8, <2>1, <2>2, TickExpireStep, Zenon
<1>9. CASE TickQuiet(p, t)
  <2>1. Ages(p, t)
    BY <1>9, <1>6, Zenon DEF TickQuiet
  <2> QED BY <1>4, <1>9, <2>1, TickQuietStep, Zenon DEF TickQuiet
<1>10. CASE TickHandshake(p, t)
  BY <1>3, <1>4, <1>7, <1>10, TickInitiationStep, Zenon DEF TickHandshake
<1>11. CASE TickKeepalive(p, t)
  <2> DEFINE x == Slot(current[p])
  <2>1. CASE /\ x \in DOMAIN LiveRing(p, t)
             /\ sessions' = [sessions EXCEPT ![p] =
                               [LiveRing(p, t) EXCEPT ![x].sent = @ + 1]]
             /\ Seal(p, LiveRing(p, t)[x])
             /\ now' = [now EXCEPT ![p] = t]
             /\ UNCHANGED <<hsVars, stamps, queue>>
    <3>1. Ages(p, t)
      BY <1>6, <2>1, Zenon
    <3> QED BY <1>4, <2>1, <3>1, TickSealStep, Zenon
  <2>2. CASE /\ sessions' = [sessions EXCEPT ![p] = LiveRing(p, t)]
             /\ FormatInitiation(p, t)
    <3>1. CASE NewInitiation(p, t)
      BY <1>3, <1>4, <1>7, <2>2, <3>1, TickInitiationStep, Zenon
    <3>2. CASE /\ now' = [now EXCEPT ![p] = t]
               /\ UNCHANGED <<hsVars, stamps, net, sealed>>
      <4>1. Ages(p, t)
        BY <1>6, <3>2, Zenon
      <4> QED BY <1>4, <2>2, <3>2, <4>1, TickQuietStep, Zenon
    <3> QED BY <2>2, <3>1, <3>2, Zenon DEF FormatInitiation
  <2> QED BY <1>11, <2>1, <2>2, Zenon DEF TickKeepalive
<1> QED BY <1>2, <1>8, <1>9, <1>10, <1>11, Zenon

\* set_preshared_key.
LEMMA SetPresharedKeyStep ==
  ASSUME TunnelInv, NEW p \in Peers, NEW v \in Psks, SetPresharedKey(p, v),
         UNCHANGED course
  PROVE  TunnelInv'
<1>1. TypeOK /\ Ringed
  BY Zenon DEF TunnelInv
<1>2. \A x \in Slots : session_timers'[p][x] <= now'[p]
  BY <1>1, Zenon DEF Ringed, SetPresharedKey
<1>3. /\ sessions' \in [Peers -> Rings] /\ DOMAIN sessions'[p] = {} /\ Carried(p)
      /\ \A q \in Peers \ {p} : sessions'[q] = sessions[q]
  BY <1>1, <1>2, ClearedRing, Zenon DEF SetPresharedKey
<1>4. psk' \in [Peers -> Psks] /\ \A q \in Peers \ {p} : psk'[q] = psk[q]
  BY <1>1, Zenon DEF TypeOK, SetPresharedKey
<1>5. TypeOK'
  BY <1>1, <1>3, <1>4, Zenon DEF TypeOK, SetPresharedKey, hsVars
<1>6. Quiet(p)
  BY <1>3, <1>4, Zenon DEF Quiet, Alone, SetPresharedKey, hsVars
<1> QED BY <1>5, <1>6, QuietStep, Zenon

\* The tunnel built again after its process ended.
LEMMA RestartStep ==
  ASSUME TunnelInv, NEW p \in Peers, Restart(p), UNCHANGED course
  PROVE  TunnelInv'
<1>1. TypeOK /\ Ringed
  BY Zenon DEF TunnelInv
<1>2. /\ now' \in [Peers -> Nat] /\ now'[p] = 0
      /\ session_timers' \in [Peers -> [Slots -> Nat]]
      /\ session_timers'[p] = [x \in Slots |-> 0]
      /\ current' \in [Peers -> Indices]
      /\ next_index' \in [Peers -> Indices]
      /\ \A q \in Peers \ {p} :
           /\ now'[q] = now[q] /\ session_timers'[q] = session_timers[q]
           /\ current'[q] = current[q]
  BY <1>1, IdleHandshakes, Zenon DEF TypeOK, Restart
<1>3. \A x \in Slots : session_timers'[p][x] <= now'[p]
  BY <1>2
<1>4. /\ sessions' \in [Peers -> Rings] /\ DOMAIN sessions'[p] = {} /\ Carried(p)
      /\ \A q \in Peers \ {p} : sessions'[q] = sessions[q]
  BY <1>1, <1>3, ClearedRing, Zenon DEF Restart
<1>5. /\ state' \in [Peers -> HandshakeState] /\ state'[p].kind # "InitSent"
      /\ previous' \in [Peers -> HandshakeState] /\ previous'[p].kind # "InitSent"
      /\ \A q \in Peers \ {p} : state'[q] = state[q] /\ previous'[q] = previous[q]
  BY <1>1, IdleHandshakes, Zenon DEF Restart, TypeOK
<1>6. TypeOK'
  BY <1>1, <1>2, <1>4, <1>5, Zenon DEF TypeOK, Restart
<1>7. Quiet(p)
  BY <1>2, <1>4, <1>5, Zenon DEF Quiet, Alone, Restart
<1> QED BY <1>6, <1>7, QuietStep, Zenon

\* A session keyed by an authenticated message is well formed.
LEMMA NewSessionType ==
  ASSUME TypeOK, NEW p \in Peers, NEW i \in Indices, NEW j \in Indices, NEW k \in Key
  PROVE  /\ NewSession(p, i, j, k, 0) \in SessionState
         /\ [NewSession(p, i, j, k, 0) EXCEPT !.sent = 1] \in SessionState
         /\ NewSession(p, i, j, k, 0).idx = i
         /\ [NewSession(p, i, j, k, 0) EXCEPT !.sent = 1].idx = i
BY Zenon DEF NewSession, SessionState, TypeOK

\* decapsulate of a handshake initiation.
LEMMA ReceiveInitiationStep ==
  ASSUME TunnelInv, NEW p \in Peers, NEW m \in net, ReceiveInitiation(p, m),
         UNCHANGED course
  PROVE  TunnelInv'
<1> DEFINE idx == IncIndexAvoiding(next_index[p], Slot(current[p]))
<1> DEFINE key == [initiator |-> m.from, stamp |-> m.stamp,
                   response |-> Cardinality(Responses), psk |-> psk[p]]
<1> DEFINE s == NewSession(p, idx, m.sender_idx, key, 0)
<1> DEFINE r == [type |-> "resp", from |-> p, sender_idx |-> idx,
                 receiver_idx |-> m.sender_idx, key |-> key]
<1>1. TypeOK
  BY Zenon DEF TunnelInv
<1>2. /\ m.type = "init"
      /\ previous' = [previous EXCEPT ![p] = state[p]]
      /\ state' = [state EXCEPT ![p] = NoHandshake]
      /\ next_index' = [next_index EXCEPT ![p] = idx]
      /\ sessions' = [sessions EXCEPT ![p] = Stored(p, s)]
      /\ session_timers' = [session_timers EXCEPT ![p] = Stamped(p, idx)]
      /\ net' = net \cup {r}
      /\ UNCHANGED <<current, now, psk, stamps, sealed, course>>
  BY Zenon DEF ReceiveInitiation, Responses
<1>3. m.from \in Peers /\ m.stamp \in Nat /\ m.sender_idx \in Indices
  BY <1>1, <1>2, Zenon DEF TypeOK, InitMessage, RespMessage, DataMessage
<1>4. idx \in Indices
  BY <1>1, AvoidsSlot, Zenon DEF TypeOK
<1>5. key \in Key
  BY <1>1, <1>3, NetParts, Zenon DEF Key, TypeOK
<1> HIDE DEF idx, key
<1>6. s \in SessionState
  BY <1>1, <1>3, <1>4, <1>5, NewSessionType, Zenon
<1>7. r \in RespMessage
  BY <1>3, <1>4, <1>5, Zenon DEF RespMessage
<1> HIDE DEF s, r
<1>8. Stored(p, s) \in Rings /\ sessions \in [Peers -> Rings]
  BY <1>1, <1>6, StoredRing, Zenon DEF TypeOK
<1>9. Stamped(p, idx) \in [Slots -> Nat]
  BY <1>1, <1>4, StampedTimers, Zenon
<1>10. /\ net' \subseteq InitMessage \cup RespMessage \cup DataMessage
       /\ IsFiniteSet(net')
  BY <1>1, <1>2, <1>7, SendType, Zenon
<1>11. /\ state' \in [Peers -> HandshakeState] /\ previous' \in [Peers -> HandshakeState]
       /\ next_index' \in [Peers -> Indices]
       /\ sessions' \in [Peers -> Rings]
       /\ session_timers' \in [Peers -> [Slots -> Nat]]
  BY <1>1, <1>2, <1>4, <1>8, <1>9, IdleHandshakes, Zenon DEF TypeOK
<1>12. TypeOK'
  BY <1>1, <1>2, <1>10, <1>11, Zenon DEF TypeOK
<1> QED BY <1>12, AnswerStep, Zenon

\* decapsulate of a handshake response, for the handshake it answers.
LEMMA CommitResponseStep ==
  ASSUME TunnelInv, NEW p \in Peers, NEW m \in net, NEW hs,
         m.type = "resp", m.from # p, Answers(hs, m), Opens(p, hs, m),
         CommitResponse(p, hs, m), Takes(p, hs), UNCHANGED course,
         state' \in [Peers -> HandshakeState], previous' \in [Peers -> HandshakeState]
  PROVE  TunnelInv'
<1> DEFINE s0 == NewSession(p, hs.idx, m.sender_idx, m.key, 0)
<1> DEFINE s == [s0 EXCEPT !.sent = 1]
<1> DEFINE timers == Stamped(p, hs.idx)
<1> DEFINE chosen == Selected(p, hs.idx, Stored(p, s), timers)
<1>1. TypeOK
  BY Zenon DEF TunnelInv
<1>2. /\ sessions' = [sessions EXCEPT ![p] = Stored(p, s)]
      /\ session_timers' = [session_timers EXCEPT ![p] = timers]
      /\ current' = [current EXCEPT ![p] = chosen]
      /\ net' = net \cup {Data(p, s0)} /\ sealed' = sealed + 1
      /\ UNCHANGED <<next_index, now, psk, stamps, course>>
  BY Zenon DEF CommitResponse, Seal
<1>3. m.key \in Key /\ m.sender_idx \in Indices /\ hs.idx \in Indices
  BY <1>1, Zenon DEF TypeOK, InitMessage, RespMessage, DataMessage, Answers
<1>4. s0 \in SessionState /\ s \in SessionState
  BY <1>1, <1>3, NewSessionType, Zenon
<1>5. chosen \in Indices
  BY <1>1, <1>3, SelectedOne, SMTT(30) DEF TypeOK
<1> HIDE DEF s0, s, chosen
<1>6. Stored(p, s) \in Rings /\ sessions \in [Peers -> Rings]
  BY <1>1, <1>4, StoredRing, Zenon DEF TypeOK
<1>7. timers \in [Slots -> Nat]
  BY <1>1, <1>3, StampedTimers, Zenon
<1> HIDE DEF timers
<1>8. /\ net' \subseteq InitMessage \cup RespMessage \cup DataMessage
      /\ IsFiniteSet(net')
  BY <1>1, <1>2, <1>4, DataType, SendType, Zenon
<1>9. /\ sessions' \in [Peers -> Rings]
      /\ session_timers' \in [Peers -> [Slots -> Nat]]
      /\ current' \in [Peers -> Indices]
  BY <1>1, <1>2, <1>5, <1>6, <1>7, Zenon DEF TypeOK
<1>10. TypeOK'
  BY <1>1, <1>2, <1>8, <1>9 DEF TypeOK
<1> QED BY <1>10, CommitStep, Zenon

\* decapsulate of a handshake response: the newer handshake first.
LEMMA ReceiveResponseStep ==
  ASSUME TunnelInv, NEW p \in Peers, NEW m \in net, ReceiveResponse(p, m),
         UNCHANGED course
  PROVE  TunnelInv'
<1>1. TypeOK /\ KeysSpent
  BY Zenon DEF TunnelInv
<1>2. m.type = "resp" /\ m.from # p
  BY Zenon DEF ReceiveResponse
<1>3. state \in [Peers -> HandshakeState] /\ previous \in [Peers -> HandshakeState]
  BY <1>1, Zenon DEF TypeOK
<1>4. CASE /\ Answers(state[p], m) /\ Opens(p, state[p], m)
           /\ CommitResponse(p, state[p], m)
           /\ state' = [state EXCEPT ![p] = NoHandshake]
           /\ UNCHANGED previous
  <2>1. Takes(p, state[p])
    BY <1>1, <1>3, <1>4, IdleHandshakes, Zenon DEF Takes, Answers, KeysSpent
  <2>2. state' \in [Peers -> HandshakeState] /\ previous' \in [Peers -> HandshakeState]
    BY <1>3, <1>4, IdleHandshakes, Zenon
  <2> QED BY <1>2, <1>4, <2>1, <2>2, CommitResponseStep, Zenon
<1>5. CASE /\ Answers(previous[p], m) /\ Opens(p, previous[p], m)
           /\ CommitResponse(p, previous[p], m)
           /\ previous' = [previous EXCEPT ![p] = NoHandshake]
           /\ UNCHANGED state
  <2>1. Takes(p, previous[p])
    BY <1>1, <1>3, <1>5, IdleHandshakes, Zenon DEF Takes, Answers, KeysSpent
  <2>2. state' \in [Peers -> HandshakeState] /\ previous' \in [Peers -> HandshakeState]
    BY <1>3, <1>5, IdleHandshakes, Zenon
  <2> QED BY <1>2, <1>5, <2>1, <2>2, CommitResponseStep, Zenon
<1> QED BY <1>4, <1>5, Zenon DEF ReceiveResponse

\* decapsulate of a transport packet.
LEMMA ReceiveDataStep ==
  ASSUME TunnelInv, NEW p \in Peers, NEW m \in net, ReceiveData(p, m),
         UNCHANGED course
  PROVE  TunnelInv'
<1> DEFINE x == Slot(m.receiver_idx)
<1> DEFINE s == [sessions[p][x] EXCEPT !.received = @ \cup {m.counter}]
<1> DEFINE chosen == Selected(p, sessions[p][x].idx, Stored(p, s), session_timers[p])
<1>1. TypeOK
  BY Zenon DEF TunnelInv
<1>2. /\ x \in DOMAIN sessions[p] /\ m.type = "data"
      /\ sessions' = [sessions EXCEPT ![p] = Stored(p, s)]
      /\ current' = [current EXCEPT ![p] = chosen]
      /\ UNCHANGED <<hsVars, session_timers, now, psk, stamps, net, sealed, course>>
  BY Zenon DEF ReceiveData
<1>3. sessions[p][x] \in SessionState /\ sessions \in [Peers -> Rings]
  BY <1>1, <1>2, TypedRing, Zenon DEF TypeOK
<1>4. m.counter \in Nat
  BY <1>1, <1>2, Zenon DEF TypeOK, InitMessage, RespMessage, DataMessage
<1>5. s \in SessionState
  BY <1>3, <1>4, Zenon DEF SessionState
<1>6. chosen \in Indices
  BY <1>1, <1>3, SelectedOne DEF TypeOK, SessionState
<1> HIDE DEF s, chosen
<1>7. Stored(p, s) \in Rings
  BY <1>1, <1>5, StoredRing, Zenon DEF TypeOK
<1>8. sessions' \in [Peers -> Rings] /\ current' \in [Peers -> Indices]
  BY <1>1, <1>2, <1>3, <1>6, <1>7, Zenon DEF TypeOK
<1>9. TypeOK'
  BY <1>1, <1>2, <1>8, Zenon DEF TypeOK, hsVars
<1> QED BY <1>9, DataStep, Zenon

-----------------------------------------------------------------------------
(* The invariant and what follows from it. *)

\* Two tunnels that were just built.
LEMMA TunnelInitial == Init => TunnelInv
<1> SUFFICES ASSUME Init
             PROVE  TunnelInv
  BY Zenon
<1>1. /\ sessions \in [Peers -> Rings] /\ \A p \in Peers : DOMAIN sessions[p] = {}
  BY EmptyRing, Zenon DEF Init
<1>2. IsFiniteSet(net) /\ net = {} /\ Responses = {} /\ Packets = {} /\ sealed = 0
  BY FS_EmptySet, Zenon DEF Init, Responses, Packets
<1>3. TypeOK
  BY <1>1, <1>2, IdleHandshakes, TunnelAssumption DEF Init, TypeOK, TunnelAssumption
<1>4. Ringed
  BY <1>1 DEF Init, Ringed
<1>5. Answered /\ Numbered /\ CountersPast /\ PresharedKeyInForce /\ ConfirmedBeforeUse
  BY <1>1, <1>2, Zenon
     DEF Answered, Numbered, CountersPast, PresharedKeyInForce, ConfirmedBeforeUse, Live
<1>6. KeysSpent
  BY <1>1, <1>2, IdleHandshakes, Zenon DEF KeysSpent, Init
<1>7. NonceFresh
  BY <1>2, FS_EmptySet, Zenon DEF NonceFresh
<1> QED BY <1>3, <1>4, <1>5, <1>6, <1>7, Zenon DEF TunnelInv

\* Every call on a tunnel keeps the invariant.
LEMMA TunnelStep == TunnelInv /\ [Next]_vars => TunnelInv'
<1> SUFFICES ASSUME TunnelInv, [Next]_vars
             PROVE  TunnelInv'
  BY Zenon
<1>1. CASE Next
  <2>0. UNCHANGED course
    BY <1>1, Zenon DEF Next
  <2>1. PICK p \in Peers :
          \/ Encapsulate(p)
          \/ SendQueued(p)
          \/ \E m \in net : Receive(p, m)
          \/ UpdateTimers(p)
          \/ \E v \in Psks : SetPresharedKey(p, v)
          \/ Restart(p)
    BY <1>1, Zenon DEF Next
  <2>2. CASE \E m \in net : Receive(p, m)
    BY <2>0, <2>2, ReceiveInitiationStep, ReceiveResponseStep, ReceiveDataStep, Zenon DEF Receive
  <2>3. CASE \E v \in Psks : SetPresharedKey(p, v)
    BY <2>0, <2>3, SetPresharedKeyStep, Zenon
  <2> QED BY <2>0, <2>1, <2>2, <2>3, EncapsulateStep, SendQueuedStep, UpdateTimersStep,
             RestartStep, Zenon
<1>2. CASE UNCHANGED vars
  <2>1. /\ state' = state /\ previous' = previous /\ next_index' = next_index
        /\ sessions' = sessions /\ session_timers' = session_timers
        /\ current' = current /\ now' = now /\ psk' = psk /\ stamps' = stamps
        /\ net' = net /\ sealed' = sealed /\ course' = course
    BY <1>2, Zenon DEF vars, hsVars, ringVars
  <2>2. Responses' = Responses /\ Packets' = Packets
    BY <2>1, Zenon DEF Responses, Packets
  <2>3. TypeOK'
    BY <2>1, Zenon DEF TunnelInv, TypeOK
  <2>4. Ringed'
    BY <2>1, Zenon DEF TunnelInv, Ringed
  <2>5. Answered'
    BY <2>1, <2>2, Zenon DEF TunnelInv, Answered
  <2>6. Numbered' /\ CountersPast'
    BY <2>1, <2>2, Zenon DEF TunnelInv, Numbered, CountersPast
  <2>7. KeysSpent'
    <3>1. \A p, k : Spent(p, k)' <=> Spent(p, k)
      BY <2>1, Zenon DEF Spent
    <3> QED BY <2>1, <2>2, <3>1, Zenon DEF TunnelInv, KeysSpent
  <2>8. NonceFresh'
    BY <2>1, Zenon DEF TunnelInv, NonceFresh
  <2>9. PresharedKeyInForce' /\ ConfirmedBeforeUse'
    BY <2>1, Zenon DEF TunnelInv, PresharedKeyInForce, ConfirmedBeforeUse, Live, Current
  <2> QED BY <2>3, <2>4, <2>5, <2>6, <2>7, <2>8, <2>9, Zenon DEF TunnelInv
<1> QED BY <1>1, <1>2, Zenon

\* The invariant holds throughout.
LEMMA TunnelInvariant == Spec => []TunnelInv
BY TunnelInitial, TunnelStep, PTL DEF Spec

\* No nonce is sealed twice under one key, across restarts, repeated and late
\* responses and rebuilt sessions (handle_handshake_response, format_packet_data).
THEOREM NoncesFresh == Spec => []NonceFresh
BY TunnelInvariant, PTL DEF TunnelInv

\* A key has one session on each side and the two name each other
\* (commit_response and commit_initiation agree on both indices).
THEOREM KeysAgree == Spec => []KeyAgreement
<1>1. TunnelInv => KeyAgreement
  BY AgreementHolds, Zenon DEF TunnelInv
<1> QED BY <1>1, TunnelInvariant, PTL

\* The selected session is one this side initiated or has received on, since
\* inc_index_avoiding keeps a responder's session off the selected slot.
THEOREM SelectionConfirmed == Spec => []ConfirmedBeforeUse
BY TunnelInvariant, PTL DEF TunnelInv

\* After set_preshared_key no session under the old key is left or comes back.
THEOREM KeyChangeComplete == Spec => []PresharedKeyInForce
BY TunnelInvariant, PTL DEF TunnelInv

\* Restarts, expiries and key changes are counted.
LEMMA UpsetsCounted == Spec => [](upsets \in Nat)
<1>1. Init => upsets \in Nat
  BY DEF Init
<1>2. Next => upsets' = upsets \/ upsets' = upsets + 1
  <2>1. \A p : Encapsulate(p) \/ SendQueued(p) => upsets' = upsets
    BY Zenon DEF Encapsulate, SendQueued
  <2>2. \A p, m : Receive(p, m) => upsets' = upsets
    BY DEF Receive, ReceiveInitiation, ReceiveResponse, CommitResponse, ReceiveData
  <2>3. \A p : UpdateTimers(p) => upsets' = upsets \/ upsets' = upsets + 1
    BY Zenon DEF UpdateTimers, TickExpire
  <2>4. \A p : Restart(p) => upsets' = upsets + 1
    BY Zenon DEF Restart
  <2>5. \A p, v : SetPresharedKey(p, v) => upsets' = upsets + 1
    BY Zenon DEF SetPresharedKey
  <2> QED BY <2>1, <2>2, <2>3, <2>4, <2>5, Zenon DEF Next
<1>3. upsets \in Nat /\ [Next]_vars => (upsets \in Nat)'
  BY <1>2 DEF vars
<1> QED BY <1>1, <1>3, PTL DEF Spec

\* A session selected over a live one was not established before it.
LEMMA SelectionLater ==
  ASSUME TypeOK, Ringed, Ringed', NEW p \in Peers, NEW i \in Indices,
         current'[p] = Selected(p, i, sessions'[p], session_timers'[p]),
         Slot(i) \in DOMAIN sessions'[p],
         \A x \in Slots : session_timers'[p][x] \in {session_timers[p][x], now[p]},
         current'[p] # current[p],
         Slot(current[p]) \in DOMAIN sessions[p],
         Slot(current[p]) \in DOMAIN sessions'[p]
  PROVE  Current(p)'.established >= Current(p).established
<1> DEFINE x == Slot(current[p])
<1>1. current'[p] = i /\ session_timers'[p][Slot(i)] >= session_timers'[p][x]
  BY SelectedOne, Zenon
<1>2. Current(p).established = session_timers[p][x]
  BY Zenon DEF Ringed, Current
<1>3. Current(p)'.established = session_timers'[p][Slot(i)]
  BY <1>1, Zenon DEF Ringed, Current, Slot
<1>4. /\ x \in Slots /\ session_timers[p][x] \in Nat /\ session_timers[p][x] <= now[p]
      /\ now[p] \in Nat
  BY TypedRing, Zenon DEF Ringed
<1>5. session_timers'[p][x] \in Nat /\ session_timers'[p][x] >= session_timers[p][x]
  BY <1>4
<1>6. session_timers'[p][Slot(i)] \in Nat
  <2>1. Slot(i) \in Slots
    BY SlotType, TunnelAssumption DEF TunnelAssumption, Indices
  <2> QED BY <2>1, TypedRing, Zenon
<1> QED BY <1>1, <1>2, <1>3, <1>4, <1>5, <1>6

\* A late packet or response never takes the selection back from a newer live
\* session (set_current_session).
THEOREM SelectionForward == Spec => SelectionMovesForward
<1>1. ASSUME TunnelInv, TunnelInv', upsets \in Nat, Next, NEW p \in Peers,
             current'[p] # current[p], upsets' = upsets,
             Slot(current[p]) \in DOMAIN sessions[p],
             Slot(current[p]) \in DOMAIN sessions'[p]
      PROVE  Current(p)'.established >= Current(p).established
  <2>1. TypeOK /\ Ringed /\ Ringed'
    BY <1>1, Zenon DEF TunnelInv
  <2>2. PICK q \in Peers :
          \/ Encapsulate(q)
          \/ SendQueued(q)
          \/ \E m \in net : Receive(q, m)
          \/ UpdateTimers(q)
          \/ \E v \in Psks : SetPresharedKey(q, v)
          \/ Restart(q)
    BY <1>1, Zenon DEF Next
  <2>3. PICK m \in net : ReceiveResponse(q, m) \/ ReceiveData(q, m)
    <3>1. ~Encapsulate(q) /\ ~SendQueued(q) /\ ~UpdateTimers(q)
      BY <1>1, Zenon DEF Encapsulate, SendQueued, UpdateTimers
    <3>2. \A v \in Psks : ~SetPresharedKey(q, v)
      BY <1>1, Zenon DEF SetPresharedKey
    <3>3. ~Restart(q)
      <4>1. Restart(q) => upsets' = upsets + 1 /\ upsets < course.upsets
        BY Zenon DEF Restart
      <4> QED BY <1>1, <4>1
    <3>4. \A m \in net : ~ReceiveInitiation(q, m)
      BY <1>1, Zenon DEF ReceiveInitiation
    <3> QED BY <2>2, <3>1, <3>2, <3>3, <3>4, Zenon DEF Receive
  <2>4. ASSUME NEW hs \in HandshakeState, CommitResponse(q, hs, m), m \in net, m.type = "resp"
        PROVE  Current(p)'.established >= Current(p).established
    <3> DEFINE s == [NewSession(q, hs.idx, m.sender_idx, m.key, 0) EXCEPT !.sent = 1]
    <3> DEFINE ring == Stored(q, s)
    <3> DEFINE timers == Stamped(q, hs.idx)
    <3>1. /\ sessions' = [sessions EXCEPT ![q] = ring]
          /\ session_timers' = [session_timers EXCEPT ![q] = timers]
          /\ current' = [current EXCEPT ![q] = Selected(q, hs.idx, ring, timers)]
      BY <2>4, Zenon DEF CommitResponse
    <3>2. q = p
      <4>1. PICK v : current' = [current EXCEPT ![q] = v]
        BY <3>1, Zenon
      <4> QED BY <1>1, <2>1, <4>1, Zenon DEF TypeOK
    <3>3. hs.idx \in Indices /\ s \in SessionState /\ s.idx = hs.idx
      <4>1. hs.idx \in Indices /\ m.key \in Key /\ m.sender_idx \in Indices
        BY <2>1, <2>4, Zenon DEF HandshakeState, TypeOK, InitMessage, RespMessage, DataMessage
      <4> QED BY <2>1, <4>1, NewSessionType
    <3> HIDE DEF s
    <3>4. /\ sessions'[p] = ring /\ session_timers'[p] = timers
          /\ current'[p] = Selected(p, hs.idx, ring, timers)
      BY <2>1, <3>1, <3>2, Zenon DEF TypeOK
    <3>5. Slot(hs.idx) \in DOMAIN ring
      <4>1. sessions[q] \in Rings
        BY <2>1, Zenon DEF TypeOK
      <4>2. DOMAIN Stored(q, s) = {Slot(s.idx)} \cup DOMAIN sessions[q]
        BY <3>3, <4>1, StoredRing, Zenon
      <4> QED BY <3>3, <4>2, Zenon
    <3>6. \A x \in Slots : timers[x] \in {session_timers[p][x], now[p]}
      BY <2>1, <3>2, <3>3, StampedTimers
    <3> HIDE DEF ring, timers
    <3> QED BY <1>1, <2>1, <3>3, <3>4, <3>5, <3>6, SelectionLater, Zenon
  <2>5. CASE ReceiveResponse(q, m)
    <3>1. \E hs \in {state[q], previous[q]} : CommitResponse(q, hs, m) /\ m.type = "resp"
      BY <2>5, Zenon DEF ReceiveResponse
    <3>2. state[q] \in HandshakeState /\ previous[q] \in HandshakeState
      BY <2>1, Zenon DEF TypeOK
    <3> QED BY <2>4, <3>1, <3>2, Zenon
  <2>6. CASE ReceiveData(q, m)
    <3> DEFINE x == Slot(m.receiver_idx)
    <3> DEFINE s == [sessions[q][x] EXCEPT !.received = @ \cup {m.counter}]
    <3> DEFINE ring == Stored(q, s)
    <3> DEFINE i == sessions[q][x].idx
    <3>1. /\ sessions' = [sessions EXCEPT ![q] = ring]
          /\ x \in DOMAIN sessions[q] /\ i = m.receiver_idx
          /\ current' = [current EXCEPT ![q] = Selected(q, i, ring, session_timers[q])]
          /\ session_timers' = session_timers
          /\ m.type = "data"
      BY <2>6, Zenon DEF ReceiveData
    <3>2. q = p
      <4>1. PICK v : current' = [current EXCEPT ![q] = v]
        BY <3>1, Zenon
      <4> QED BY <1>1, <2>1, <4>1, Zenon DEF TypeOK
    <3>3. i \in Indices /\ s \in SessionState /\ s.idx = i
      <4>1. sessions[q][x] \in SessionState
        BY <2>1, <3>1, TypedRing, Zenon
      <4>2. m.counter \in Nat
        BY <2>1, <3>1, Zenon DEF TypeOK, InitMessage, RespMessage, DataMessage
      <4> QED BY <4>1, <4>2, Zenon DEF SessionState
    <3> HIDE DEF s, i, x
    <3>4. /\ sessions'[p] = ring /\ session_timers'[p] = session_timers[p]
          /\ current'[p] = Selected(p, i, ring, session_timers[p])
      BY <2>1, <3>1, <3>2, Zenon DEF TypeOK
    <3>5. Slot(i) \in DOMAIN ring
      <4>1. sessions[q] \in Rings
        BY <2>1, Zenon DEF TypeOK
      <4>2. DOMAIN Stored(q, s) = {Slot(s.idx)} \cup DOMAIN sessions[q]
        BY <3>3, <4>1, StoredRing, Zenon
      <4> QED BY <3>3, <4>2, Zenon
    <3> HIDE DEF ring
    <3> QED BY <1>1, <2>1, <3>3, <3>4, <3>5, SelectionLater, Zenon
  <2> QED BY <2>3, <2>5, <2>6, Zenon
<1>2. TunnelInv /\ TunnelInv' /\ upsets \in Nat /\ [Next]_vars =>
        [\A p \in Peers :
           /\ current'[p] # current[p]
           /\ upsets' = upsets
           /\ Slot(current[p]) \in DOMAIN sessions[p]
           /\ Slot(current[p]) \in DOMAIN sessions'[p]
           => Current(p)'.established >= Current(p).established]_vars
  BY <1>1, Zenon
<1> QED BY <1>2, TunnelInvariant, UpsetsCounted, PTL DEF Spec, SelectionMovesForward
=============================================================================
