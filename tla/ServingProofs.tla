---------------------------- MODULE ServingProofs ---------------------------
(***************************************************************************)
(* Proofs about PeerPath, for any set of addresses and protocols, any      *)
(* assignment of hosts and any number of connected sockets; and about the  *)
(* handlers of all peers (Dispatch), for any number of workers, peers,     *)
(* networks and connected sockets and whatever arrives.                    *)
(***************************************************************************)
EXTENDS Serving, TLAPS

\* Lifetimes are handed out in order: none beyond the sockets opened so far
\* has a handler, and the socket in the endpoint was opened since the last move.
LifetimesInOrder ==
  /\ conn <= sockets /\ lifetime <= sockets
  /\ since <= sockets + 1
  /\ conn # 0 => since <= conn
  /\ \A l \in 1..MaxConns : l > sockets => handlers[l] = Gone

\* The inductive invariant.  Evidence is accepted from the socket in the
\* endpoint alone, so that it stays behind no move needs that socket to be
\* younger than the move.
PathInv ==
  /\ TypeOK
  /\ LifetimesInOrder
  /\ PathFollowsEndpoint
  /\ ConnectedIsServed
  /\ LearnedIsAllowed

Handler == {Gone} \cup [at: {"armed", "running", "holding"}, to: Addrs, open: BOOLEAN]

\* A peer as it is added: no socket, nothing known about its path.
LEMMA PathInit == Init => PathInv
<1> SUFFICES ASSUME Init PROVE PathInv
  BY Zenon
<1> USE DEF Init
<1>1. disabled \in BOOLEAN
  BY Zenon
<1>2. TypeOK
  BY <1>1, PathAssumption DEF TypeOK
<1>3. LifetimesInOrder /\ PathFollowsEndpoint /\ ConnectedIsServed /\ LearnedIsAllowed
  BY PathAssumption DEF LifetimesInOrder, PathFollowsEndpoint, ConnectedIsServed, LearnedIsAllowed, Gone
<1>4. QED
  BY <1>2, <1>3, Zenon DEF PathInv

\* What the tunnel keeps of the path.
TunnelOK ==
  /\ window \subseteq Addrs \cup {None} /\ window \subseteq {addr}
  /\ evidence \in Evidence \cup {None}
  /\ evidence # None => evidence.from = addr /\ evidence.via >= since
  /\ learned \in Protocols \cup {None}
  /\ config \in [auto: BOOLEAN, refuses: SUBSET Protocols]
  /\ LearnedIsAllowed

\* The endpoint, and the sockets and handlers behind it.
EndpointOK ==
  /\ addr \in Addrs \cup {None} /\ suppressed \in Addrs \cup {None}
  /\ conn \in 0..MaxConns /\ lifetime \in 0..MaxConns /\ sockets \in 0..MaxConns
  /\ since \in 1..(MaxConns + 1)
  /\ disabled \in BOOLEAN
  /\ handlers \in [1..MaxConns -> Handler]
  /\ suppressed # None => suppressed = addr
  /\ LifetimesInOrder
  /\ ConnectedIsServed

\* The invariant splits into the tunnel's part and the endpoint's.
LEMMA Split == PathInv <=> TunnelOK /\ EndpointOK
BY Zenon DEF PathInv, TypeOK, PathFollowsEndpoint, TunnelOK, EndpointOK, Handler

\* Adoption in commit_with_imitation never takes a protocol the policy refuses.
LEMMA AdoptedAllowed ==
  ASSUME TunnelOK, NEW kind, NEW hint \in Protocols \cup {None}, NEW ok
  PROVE  /\ Adopted(kind, hint, ok) \in Protocols \cup {None}
         /\ Adopted(kind, hint, ok) # None =>
              config.auto /\ Adopted(kind, hint, ok) \notin config.refuses
         /\ KeptEvidence(kind, hint, ok) \in {evidence, None}
BY Zenon DEF TunnelOK, LearnedIsAllowed, Adopted, KeptEvidence

\* commit_anonymous, with move_endpoint after it: the endpoint moves exactly
\* when an accepted packet that may move it came from elsewhere.
LEMMA CommitKeeps ==
  ASSUME TunnelOK, NEW from \in Addrs, NEW kind \in Kinds,
         NEW hint \in Protocols \cup {None}, NEW ok \in BOOLEAN,
         Commit(from, kind, hint, ok),
         addr' = IF ok /\ MovesEndpoint(kind) THEN from ELSE addr,
         addr' = addr => since' = since
  PROVE  TunnelOK'
<1>1. /\ learned' \in Protocols \cup {None} /\ config' = config
      /\ learned' # None => config.auto /\ learned' \notin config.refuses
      /\ KeptEvidence(kind, hint, ok) \in {evidence, None}
  BY AdoptedAllowed, Zenon DEF Commit
<1>2. window' \subseteq Addrs \cup {None} /\ window' \subseteq {addr'}
  BY Zenon DEF TunnelOK, Commit, CommittedWindow, Grown, Kinds, MovesEndpoint
<1>3. /\ evidence' \in Evidence \cup {None}
      /\ evidence' # None => evidence'.from = addr' /\ evidence'.via >= since'
  BY <1>1, Zenon DEF TunnelOK, Commit, CommittedEvidence
<1>4. QED
  BY <1>1, <1>2, <1>3, Zenon DEF TunnelOK, LearnedIsAllowed

\* The handler of a socket goes from one place in its dispatch to another.
LEMMA HandlerMoves ==
  ASSUME EndpointOK, NEW l \in 1..MaxConns, handlers[l].at # "gone",
         NEW x \in {"armed", "running", "holding"},
         handlers' = [handlers EXCEPT ![l].at = x],
         UNCHANGED <<endpointVars, disabled, sockets>>
  PROVE  EndpointOK'
<1>1. handlers[l] \in [at: {"armed", "running", "holding"}, to: Addrs, open: BOOLEAN]
  BY DEF EndpointOK, Handler, Gone
<1>2. /\ handlers' \in [1..MaxConns -> Handler]
      /\ handlers'[l] = [handlers[l] EXCEPT !.at = x]
      /\ \A m \in 1..MaxConns \ {l} : handlers'[m] = handlers[m]
  BY <1>1, Zenon DEF EndpointOK, Handler
<1>3. handlers'[l].at = x /\ handlers'[l].to = handlers[l].to /\ handlers'[l].open = handlers[l].open
  BY <1>1, <1>2, Zenon
<1>4. l <= sockets
  BY <1>1 DEF EndpointOK, LifetimesInOrder, Gone
<1>5. LifetimesInOrder'
  BY <1>2, <1>4 DEF EndpointOK, LifetimesInOrder, endpointVars
<1>6. ConnectedIsServed'
  BY <1>2, <1>3 DEF EndpointOK, ConnectedIsServed, endpointVars
<1>7. QED
  BY <1>2, <1>5, <1>6, Zenon DEF EndpointOK, endpointVars

\* Endpoint::shutdown: every socket is shut, and every handler is where it was.
LEMMA ShutCloses ==
  ASSUME EndpointOK
  PROVE  /\ Shut(conn) \in [1..MaxConns -> Handler]
         /\ \A m \in 1..MaxConns : ~Shut(conn)[m].open
         /\ \A m \in 1..MaxConns : m > sockets => Shut(conn)[m] = Gone
<1>1. CASE conn = 0
  BY <1>1 DEF Shut, EndpointOK, ConnectedIsServed, LifetimesInOrder
<1>2. CASE conn # 0
  <2>1. /\ conn \in 1..MaxConns /\ conn <= sockets
        /\ handlers[conn] \in [at: {"armed", "running", "holding"}, to: Addrs, open: BOOLEAN]
    BY <1>2 DEF EndpointOK, ConnectedIsServed, LifetimesInOrder, Handler, Gone
  <2>2. Shut(conn) = [handlers EXCEPT ![conn].open = FALSE]
    BY <1>2, Zenon DEF Shut
  <2>3. /\ Shut(conn)[conn] = [handlers[conn] EXCEPT !.open = FALSE]
        /\ \A m \in 1..MaxConns \ {conn} : Shut(conn)[m] = handlers[m]
        /\ DOMAIN Shut(conn) = 1..MaxConns
        /\ Shut(conn) = [m \in 1..MaxConns |-> Shut(conn)[m]]
    BY <2>1, <2>2, Zenon DEF EndpointOK
  <2>4. Shut(conn)[conn] \in Handler /\ ~Shut(conn)[conn].open
    BY <2>1, <2>3, Zenon DEF Handler
  <2>5. \A m \in 1..MaxConns : Shut(conn)[m] \in Handler
    BY <2>3, <2>4, Zenon DEF EndpointOK
  <2>6. QED
    BY <2>1, <2>3, <2>4, <2>5 DEF EndpointOK, ConnectedIsServed, LifetimesInOrder
<1>3. QED
  BY <1>1, <1>2, Zenon

\* An endpoint that has given its socket back.
LEMMA GivenBack ==
  ASSUME EndpointOK, handlers' = Shut(conn), conn' = 0,
         addr' \in Addrs \cup {None}, suppressed' \in {None, addr'}, disabled' \in BOOLEAN,
         NEW n \in Nat, sockets' = n, sockets <= n, n <= MaxConns,
         NEW k \in Nat, lifetime' = k, k <= n,
         NEW m \in Nat, since' = m, 1 <= m, m <= n + 1
  PROVE  EndpointOK'
<1>1. /\ handlers' \in [1..MaxConns -> Handler]
      /\ \A l \in 1..MaxConns : ~handlers'[l].open
      /\ \A l \in 1..MaxConns : l > sockets => handlers'[l] = Gone
  BY ShutCloses, Zenon
<1>2. /\ MaxConns \in Nat /\ sockets \in Nat
      /\ n \in 0..MaxConns /\ k \in 0..MaxConns /\ m \in 1..(MaxConns + 1)
  BY PathAssumption DEF EndpointOK
<1>3. LifetimesInOrder'
  BY <1>1, <1>2 DEF LifetimesInOrder
<1>4. ConnectedIsServed'
  BY <1>1, Zenon DEF ConnectedIsServed
<1>5. QED
  BY <1>1, <1>2, <1>3, <1>4 DEF EndpointOK

\* The listener's packets, and the upgrade that follows them.
LEMMA ListenerKeeps ==
  ASSUME TunnelOK, EndpointOK, NEW from \in Addrs, NEW kind \in Kinds,
         NEW hint \in Protocols \cup {None}
  PROVE  /\ ListenerRefused(from, kind, hint) => TunnelOK' /\ EndpointOK'
         /\ ListenerCookie(from) => TunnelOK' /\ EndpointOK'
         /\ ListenerAccepted(from, kind, hint) => TunnelOK' /\ EndpointOK'
         /\ \A e \in BOOLEAN : UpgradeFails(from, kind, hint, e) => TunnelOK' /\ EndpointOK'
         /\ UpgradeUnregistered(from, kind, hint) => TunnelOK' /\ EndpointOK'
         /\ Upgraded(from, kind, hint) => TunnelOK' /\ EndpointOK'
<1> USE PathAssumption
<1>0. /\ sockets \in Nat /\ sockets <= MaxConns /\ lifetime \in Nat /\ lifetime <= sockets
      /\ Since(from) \in Nat /\ 1 <= Since(from) /\ Since(from) <= sockets + 1
  BY DEF EndpointOK, LifetimesInOrder, Since
<1>1. ASSUME ListenerRefused(from, kind, hint) PROVE TunnelOK' /\ EndpointOK'
  <2>1. TunnelOK'
    BY <1>1, CommitKeeps, Zenon DEF ListenerRefused, endpointVars
  <2>2. EndpointOK'
    BY <1>1, Zenon DEF ListenerRefused, EndpointOK, LifetimesInOrder, ConnectedIsServed, endpointVars
  <2>3. QED
    BY <2>1, <2>2, Zenon
<1>2. ASSUME ListenerCookie(from) PROVE TunnelOK' /\ EndpointOK'
  <2>1. TunnelOK'
    BY <1>2, CommitKeeps, Zenon DEF ListenerCookie, endpointVars, Kinds, MovesEndpoint
  <2>2. EndpointOK'
    BY <1>2, Zenon DEF ListenerCookie, EndpointOK, LifetimesInOrder, ConnectedIsServed, endpointVars
  <2>3. QED
    BY <2>1, <2>2, Zenon
<1>3. ASSUME ListenerAccepted(from, kind, hint) PROVE TunnelOK' /\ EndpointOK'
  <2>1. TunnelOK'
    BY <1>3, CommitKeeps, Zenon DEF ListenerAccepted, MoveEndpoint
  <2>2. CASE addr = from
    <3>1. UNCHANGED <<addr, conn, lifetime, suppressed, since, handlers, sockets, disabled>>
      BY <1>3, <2>2, Zenon DEF ListenerAccepted, MoveEndpoint
    <3>2. EndpointOK'
      BY <3>1, Zenon DEF EndpointOK, LifetimesInOrder, ConnectedIsServed
    <3>3. QED
      BY <2>1, <3>2, Zenon
  <2>3. CASE addr # from
    <3>1. /\ handlers' = Shut(conn) /\ conn' = 0 /\ addr' = from /\ suppressed' = None
          /\ disabled' = disabled /\ sockets' = sockets /\ lifetime' = lifetime
          /\ since' = sockets + 1
      BY <1>3, <2>3, Zenon DEF ListenerAccepted, MoveEndpoint
    <3>2. disabled' \in BOOLEAN
      BY <3>1, Zenon DEF EndpointOK
    <3>3. EndpointOK'
      BY <1>0, <3>1, <3>2, GivenBack
    <3>4. QED
      BY <2>1, <3>3, Zenon
  <2>4. QED
    BY <2>1, <2>2, <2>3, Zenon
<1>4. ASSUME NEW e \in BOOLEAN, UpgradeFails(from, kind, hint, e)
      PROVE  TunnelOK' /\ EndpointOK'
  <2>1. TunnelOK'
    BY <1>4, CommitKeeps, Zenon DEF UpgradeFails, Upgrades, Since
  <2>2. /\ handlers' = Shut(conn) /\ conn' = 0 /\ addr' = from /\ suppressed' \in {None, from}
        /\ disabled' = e /\ sockets' = sockets /\ lifetime' = lifetime
        /\ since' = Since(from)
    BY <1>4, Zenon DEF UpgradeFails
  <2>3. disabled' \in BOOLEAN
    BY <2>2, Zenon
  <2>4. EndpointOK'
    BY <1>0, <2>2, <2>3, GivenBack
  <2>5. QED
    BY <2>1, <2>4, Zenon
<1>5. ASSUME UpgradeUnregistered(from, kind, hint) PROVE TunnelOK' /\ EndpointOK'
  <2>1. TunnelOK'
    BY <1>5, CommitKeeps, Zenon DEF UpgradeUnregistered, Upgrades, Since
  <2>2. /\ handlers' = Shut(conn) /\ conn' = 0 /\ addr' = from /\ suppressed' = None
        /\ disabled' = TRUE /\ sockets' = sockets + 1 /\ lifetime' = sockets + 1
        /\ since' = Since(from) /\ sockets < MaxConns
    BY <1>5, Zenon DEF UpgradeUnregistered
  <2>3. disabled' \in BOOLEAN
    BY <2>2, Zenon
  <2>4. EndpointOK'
    BY <1>0, <2>2, <2>3, GivenBack
  <2>5. QED
    BY <2>1, <2>4, Zenon
<1>6. ASSUME Upgraded(from, kind, hint) PROVE TunnelOK' /\ EndpointOK'
  <2> DEFINE l == sockets + 1
             new == [at |-> "armed", to |-> from, open |-> TRUE]
  <2>1. TunnelOK'
    BY <1>6, CommitKeeps, Zenon DEF Upgraded, Upgrades, Since
  <2>2. /\ handlers' = [Shut(conn) EXCEPT ![l] = new] /\ conn' = l /\ addr' = from
        /\ suppressed' = None /\ sockets' = l /\ lifetime' = l /\ disabled' = disabled
        /\ since' = Since(from) /\ l \in 1..MaxConns
    BY <1>0, <1>6 DEF Upgraded
  <2>3. /\ Shut(conn) \in [1..MaxConns -> Handler]
        /\ \A m \in 1..MaxConns : ~Shut(conn)[m].open
        /\ \A m \in 1..MaxConns : m > sockets => Shut(conn)[m] = Gone
    BY ShutCloses, Zenon
  <2>4. new \in Handler
    BY Zenon DEF Handler
  <2>5. /\ handlers' \in [1..MaxConns -> Handler] /\ handlers'[l] = new
        /\ \A m \in 1..MaxConns \ {l} : handlers'[m] = Shut(conn)[m]
    BY <2>2, <2>3, <2>4, Zenon
  <2>6. new.at = "armed" /\ new.to = from /\ new.open
    BY Zenon
  <2> HIDE DEF new
  <2>7. LifetimesInOrder'
    BY <1>0, <2>2, <2>3, <2>5 DEF LifetimesInOrder
  <2>8. ConnectedIsServed'
    BY <2>2, <2>3, <2>5, <2>6, Zenon DEF ConnectedIsServed
  <2>9. disabled' \in BOOLEAN
    BY <2>2, Zenon DEF EndpointOK
  <2>10. EndpointOK'
    BY <1>0, <2>2, <2>5, <2>7, <2>8, <2>9 DEF EndpointOK
  <2>11. QED
    BY <2>1, <2>10, Zenon
<1>7. QED
  BY <1>1, <1>2, <1>3, <1>4, <1>5, <1>6, Zenon

\* A handler that finds its socket current speaks of the endpoint.
LEMMA CurrentIsEndpoint ==
  ASSUME EndpointOK, NEW l \in 1..MaxConns, handlers[l].at = "holding", IsCurrentConnection(l)
  PROVE  handlers[l].to = addr /\ addr \in Addrs /\ since <= l
<1>1. handlers[l].to \in Addrs
  BY DEF EndpointOK, Handler, Gone
<1>2. QED
  BY <1>1, Zenon DEF EndpointOK, IsCurrentConnection, ConnectedIsServed, LifetimesInOrder

\* The connected sockets' handlers.
LEMMA HandlerKeeps ==
  ASSUME TunnelOK, EndpointOK, NEW l \in 1..MaxConns
  PROVE  /\ Receive(l) \/ EndOfBatch(l) \/ HandleStale(l) \/ HandleRefused(l)
              => TunnelOK' /\ EndpointOK'
         /\ Reclaim(l) => TunnelOK' /\ EndpointOK'
         /\ \A p \in Protocols, live \in BOOLEAN :
              HandlePrelude(l, p, live) => TunnelOK' /\ EndpointOK'
         /\ \A kind \in Kinds, seen \in Protocols \cup {None}, live, ok \in BOOLEAN :
              HandlePacket(l, kind, seen, live, ok) => TunnelOK' /\ EndpointOK'
<1>1. ASSUME Receive(l) \/ EndOfBatch(l) \/ HandleStale(l) \/ HandleRefused(l)
      PROVE  TunnelOK' /\ EndpointOK'
  <2>1. /\ handlers[l].at # "gone"
        /\ \E x \in {"armed", "running", "holding"} : handlers' = [handlers EXCEPT ![l].at = x]
        /\ UNCHANGED <<endpointVars, disabled, tunnVars, config, sockets>>
    BY <1>1, Zenon DEF Receive, EndOfBatch, HandleStale, HandleRefused
  <2>2. EndpointOK'
    BY <2>1, HandlerMoves, Zenon
  <2>3. TunnelOK'
    BY <2>1, Zenon DEF TunnelOK, LearnedIsAllowed, endpointVars, tunnVars
  <2>4. QED
    BY <2>2, <2>3, Zenon
<1>2. ASSUME Reclaim(l) PROVE TunnelOK' /\ EndpointOK'
  <2>1. TunnelOK'
    BY <1>2, Zenon DEF Reclaim, TunnelOK, LearnedIsAllowed, endpointVars, tunnVars
  <2>2. /\ handlers' = [handlers EXCEPT ![l] = Gone] /\ ~handlers[l].open
        /\ UNCHANGED <<endpointVars, disabled, sockets>>
    BY <1>2, Zenon DEF Reclaim
  <2>3. /\ handlers' \in [1..MaxConns -> Handler] /\ handlers'[l] = Gone
        /\ \A k \in 1..MaxConns \ {l} : handlers'[k] = handlers[k]
    BY <2>2, Zenon DEF EndpointOK, Handler
  <2>4. LifetimesInOrder'
    BY <2>2, <2>3, Zenon DEF EndpointOK, LifetimesInOrder, endpointVars
  <2>5. ~Gone.open
    BY Zenon DEF Gone
  <2>6. ConnectedIsServed'
    BY <2>2, <2>3, <2>5 DEF EndpointOK, ConnectedIsServed, endpointVars
  <2>7. QED
    BY <2>1, <2>2, <2>3, <2>4, <2>6, Zenon DEF EndpointOK, endpointVars
<1>3. ASSUME NEW p \in Protocols, NEW live \in BOOLEAN, HandlePrelude(l, p, live)
      PROVE  TunnelOK' /\ EndpointOK'
  <2>1. EndpointOK'
    BY <1>3, HandlerMoves, Zenon DEF HandlePrelude
  <2>2. handlers[l].to = addr /\ addr \in Addrs /\ since <= l
    BY <1>3, CurrentIsEndpoint, Zenon DEF HandlePrelude
  <2> DEFINE e == [from |-> addr, protocol |-> p, via |-> l]
  <2>3. e \in Evidence /\ e.from = addr /\ e.via = l
    BY <2>2, Zenon DEF Evidence
  <2>4. /\ evidence' \in {e, evidence}
        /\ UNCHANGED <<addr, since, window, learned, config>>
    BY <1>3, <2>2, Zenon DEF HandlePrelude, Observed, endpointVars
  <2> HIDE DEF e
  <2>5. since \in Nat /\ l \in Nat
    BY DEF EndpointOK
  <2>6. QED
    BY <2>1, <2>2, <2>3, <2>4, <2>5, Zenon DEF TunnelOK, LearnedIsAllowed
<1>4. ASSUME NEW kind \in Kinds, NEW seen \in Protocols \cup {None},
             NEW live \in BOOLEAN, NEW ok \in BOOLEAN,
             HandlePacket(l, kind, seen, live, ok)
      PROVE  TunnelOK' /\ EndpointOK'
  <2> DEFINE from == handlers[l].to
             hint == IF HintFor(from, live) # None THEN HintFor(from, live) ELSE seen
  <2>1. EndpointOK'
    BY <1>4, HandlerMoves, Zenon DEF HandlePacket
  <2>2. from = addr /\ addr \in Addrs
    BY <1>4, CurrentIsEndpoint, Zenon DEF HandlePacket
  <2>3. hint \in Protocols \cup {None}
    BY Zenon DEF HintFor, TunnelOK, Evidence
  <2>4. /\ window' = Grown(window, kind, from)
        /\ evidence' = KeptEvidence(kind, hint, ok)
        /\ learned' = Adopted(kind, hint, ok)
        /\ UNCHANGED <<addr, since, config>>
    BY <1>4, Zenon DEF HandlePacket, endpointVars
  <2> HIDE DEF from, hint
  <2>5. /\ learned' \in Protocols \cup {None}
        /\ learned' # None => config.auto /\ learned' \notin config.refuses
        /\ evidence' \in {evidence, None}
    BY <2>3, <2>4, AdoptedAllowed, Zenon
  <2>6. window' \subseteq Addrs \cup {None} /\ window' \subseteq {addr}
    BY <2>2, <2>4, Zenon DEF Grown, TunnelOK
  <2>7. TunnelOK'
    BY <2>4, <2>5, <2>6, Zenon DEF TunnelOK, LearnedIsAllowed
  <2>8. QED
    BY <2>1, <2>7, Zenon
<1>5. QED
  BY <1>1, <1>2, <1>3, <1>4, Zenon

\* Sending, expiry and what the configuration does to the path.
LEMMA OthersKeep ==
  ASSUME TunnelOK, EndpointOK
  PROVE  /\ Send \/ SetKey => TunnelOK' /\ EndpointOK'
         /\ ConnectionExpired \/ Rebind => TunnelOK' /\ EndpointOK'
         /\ \A to \in Addrs : MergeEndpoint(to) => TunnelOK' /\ EndpointOK'
         /\ \A c \in [auto: BOOLEAN, refuses: SUBSET Protocols] :
              SetObfuscation(c) => TunnelOK' /\ EndpointOK'
         /\ UNCHANGED vars => TunnelOK' /\ EndpointOK'
<1> USE PathAssumption
<1>0. /\ sockets \in Nat /\ sockets <= MaxConns /\ lifetime \in Nat /\ lifetime <= sockets
      /\ since \in Nat /\ 1 <= since /\ since <= sockets + 1
      /\ addr \in Addrs \cup {None} /\ suppressed \in {None, addr} /\ disabled \in BOOLEAN
  BY DEF EndpointOK, LifetimesInOrder
<1>a. ASSUME UNCHANGED <<endpointVars, disabled, handlers, sockets>> PROVE EndpointOK'
  BY <1>a, Zenon DEF EndpointOK, LifetimesInOrder, ConnectedIsServed, endpointVars
<1>1. ASSUME Send \/ SetKey PROVE TunnelOK' /\ EndpointOK'
  <2>1. EndpointOK'
    BY <1>1, <1>a, Zenon DEF Send, SetKey
  <2>2. TunnelOK'
    BY <1>0, <1>1, Zenon DEF Send, SetKey, TunnelOK, LearnedIsAllowed, endpointVars
  <2>3. QED
    BY <2>1, <2>2, Zenon
<1>2. ASSUME ConnectionExpired \/ Rebind PROVE TunnelOK' /\ EndpointOK'
  <2>1. /\ handlers' = Shut(conn) /\ conn' = 0 /\ disabled' \in {disabled, FALSE}
        /\ UNCHANGED <<addr, lifetime, suppressed, since, tunnVars, config, sockets>>
    BY <1>2, Zenon DEF ConnectionExpired, Rebind, ShutdownEndpoint
  <2>2. disabled' \in BOOLEAN
    BY <1>0, <2>1, Zenon
  <2>3. EndpointOK'
    BY <1>0, <2>1, <2>2, GivenBack
  <2>4. TunnelOK'
    BY <2>1, Zenon DEF TunnelOK, LearnedIsAllowed, tunnVars
  <2>5. QED
    BY <2>3, <2>4, Zenon
<1>3. ASSUME NEW to \in Addrs, MergeEndpoint(to) PROVE TunnelOK' /\ EndpointOK'
  <2>1. CASE addr = to
    <3>1. UNCHANGED <<endpointVars, disabled, handlers, sockets, tunnVars, config>>
      BY <1>3, <2>1, Zenon DEF MergeEndpoint, MoveEndpoint, endpointVars, tunnVars
    <3>2. QED
      BY <1>a, <3>1, Zenon DEF TunnelOK, LearnedIsAllowed, endpointVars, tunnVars
  <2>2. CASE addr # to
    <3>1. /\ handlers' = Shut(conn) /\ conn' = 0 /\ addr' = to /\ suppressed' = None
          /\ since' = sockets + 1 /\ UNCHANGED <<lifetime, disabled, learned, config, sockets>>
          /\ window' = {} /\ evidence' = None
      BY <1>3, <2>2, Zenon DEF MergeEndpoint, MoveEndpoint
    <3>2. disabled' \in BOOLEAN
      BY <1>0, <3>1, Zenon
    <3>3. EndpointOK'
      BY <1>0, <3>1, <3>2, GivenBack
    <3>4. TunnelOK'
      BY <3>1, Zenon DEF TunnelOK, LearnedIsAllowed
    <3>5. QED
      BY <3>3, <3>4, Zenon
  <2>3. QED
    BY <2>1, <2>2, Zenon
<1>4. ASSUME NEW c \in [auto: BOOLEAN, refuses: SUBSET Protocols], SetObfuscation(c)
      PROVE  TunnelOK' /\ EndpointOK'
  <2>1. EndpointOK'
    BY <1>4, <1>a, Zenon DEF SetObfuscation
  <2>2. /\ config' = c /\ evidence' \in {None, evidence} /\ UNCHANGED <<addr, since, window>>
        /\ learned' = IF config.auto /\ c.auto /\ learned \notin c.refuses THEN learned ELSE None
    BY <1>4, Zenon DEF SetObfuscation, endpointVars
  <2>3. TunnelOK'
    BY <2>2, Zenon DEF TunnelOK, LearnedIsAllowed
  <2>4. QED
    BY <2>1, <2>3, Zenon
<1>5. ASSUME UNCHANGED vars PROVE TunnelOK' /\ EndpointOK'
  BY <1>5, <1>a, Zenon DEF vars, TunnelOK, LearnedIsAllowed, endpointVars, tunnVars
<1>6. QED
  BY <1>1, <1>2, <1>3, <1>4, <1>5, Zenon

\* Every step keeps the invariant.
LEMMA PathStep == PathInv /\ [Next]_vars => PathInv'
<1> SUFFICES ASSUME TunnelOK, EndpointOK, [Next]_vars PROVE TunnelOK' /\ EndpointOK'
  BY Split, PTL
<1>1. CASE ListenerNext
  BY <1>1, ListenerKeeps, Zenon DEF ListenerNext
<1>2. CASE HandlerNext
  BY <1>2, HandlerKeeps, Zenon DEF HandlerNext
<1>3. CASE AdminNext
  BY <1>3, OthersKeep, Zenon DEF AdminNext
<1>4. ASSUME NEW from \in Addrs, ListenerCookie(from) PROVE TunnelOK' /\ EndpointOK'
  <2>1. "Cookie" \in Kinds /\ None \in Protocols \cup {None}
    BY Zenon DEF Kinds
  <2>2. QED
    BY <1>4, <2>1, ListenerKeeps, Zenon
<1>5. CASE Send \/ ConnectionExpired \/ UNCHANGED vars
  BY <1>5, OthersKeep, Zenon
<1>6. QED
  BY <1>1, <1>2, <1>3, <1>4, <1>5, Zenon DEF Next

\* The invariant holds in every state of every behaviour.
LEMMA PathInvariant == Spec => []PathInv
BY PathInit, PathStep, PTL DEF Spec

\* However handlers, roams, expiries and configuration interleave, and however
\* many addresses and sockets there are, what a peer keeps about its path
\* (UDP window, camouflage evidence, suppressed upgrades) is about its endpoint.
THEOREM PathFollows == Spec => []PathFollowsEndpoint
<1>1. PathInv => PathFollowsEndpoint
  BY Zenon DEF PathInv
<1>2. QED
  BY <1>1, PathInvariant, PTL

\* The socket in an endpoint always has its handler, open and connected there,
\* and no other connected socket of the peer is open.
THEOREM NoBlackhole == Spec => []ConnectedIsServed
<1>1. PathInv => ConnectedIsServed
  BY Zenon DEF PathInv
<1>2. QED
  BY <1>1, PathInvariant, PTL

\* A peer frames under no learned protocol its configuration would refuse.
THEOREM LearnedAllowed == Spec => []LearnedIsAllowed
<1>1. PathInv => LearnedIsAllowed
  BY Zenon DEF PathInv
<1>2. QED
  BY <1>1, PathInvariant, PTL

-----------------------------------------------------------------------------
(***************************************************************************)
(* The handlers of all peers (Dispatch).                                   *)
(***************************************************************************)
\* An object is registered under the key it was made with.
KeysOwn == \A k \in Keys : peers[k] # Handlers!Nil => key[peers[k]] = k

\* What the two other maps, the endpoints and the timer's list lead to is
\* registered: a handler that looks a peer up finds no other.
MapsLeadToKnown ==
  /\ by_idx \subseteq Handlers!Known
  /\ \A n \in Nets : by_ip[n] # Handlers!Nil => by_ip[n] \in Handlers!Known
  /\ \A o \in Handlers!Objects : link[o] # Handlers!Nil => o \in Handlers!Known
  /\ \A w \in Workers : todo[w] # {} => at[w] = Handlers!Timer /\ todo[w] \subseteq Handlers!Known

\* A connected socket is read only while a handler holds its peer.
ReadWhileHeld ==
  \A l \in Handlers!Conns : waiting[Handlers!Conn(l)] > 0 => holder[l] # Handlers!Nil

\* The inductive invariant of Dispatch.
DispatchInv ==
  /\ Handlers!DispatchTypeOK
  /\ KeysOwn
  /\ MapsLeadToKnown
  /\ ReadWhileHeld
  /\ RemovedIsSilent


USE DEF Handlers!Nil, Handlers!Objects, Handlers!Conns

\* Before anything is spawned or configured.
LEMMA DispatchStarts == Handlers!DispatchInit => DispatchInv
<1> SUFFICES ASSUME Handlers!DispatchInit PROVE DispatchInv
  BY Zenon
<1> USE DEF Handlers!DispatchInit
<1>1. Handlers!Known = {}
  BY Zenon DEF Handlers!Known
<1>2. Handlers!DispatchTypeOK
  <2>1. {exiting, keyed} \subseteq BOOLEAN
    BY Zenon
  <2>2. at \in [Workers -> {Handlers!Unborn, Handlers!Gated, Handlers!Idle, Handlers!Gone} \cup Handlers!Sources]
    BY Zenon
  <2>3. /\ start \in {"spawning", "running", "failed", "returned"}
        /\ iter \in [Workers -> 0..MaxItr] /\ todo \in [Workers -> SUBSET (1..MaxPeers)]
        /\ waiting \in [Handlers!Sources -> 0..Room]
        /\ key \in [1..MaxPeers -> Keys \cup {0}]
    BY ServingAssumption
  <2>4. /\ peers \in [Keys -> 1..MaxPeers \cup {0}] /\ by_ip \in [Nets -> 1..MaxPeers \cup {0}]
        /\ {by_idx, placed} \subseteq SUBSET (1..MaxPeers)
        /\ link \in [1..MaxPeers -> 1..MaxLinks \cup {0}]
        /\ holder \in [1..MaxLinks -> 1..MaxPeers \cup {0}]
        /\ opened \in 0..MaxLinks
    BY ServingAssumption
  <2>5. QED
    BY <2>1, <2>2, <2>3, <2>4, Zenon DEF Handlers!DispatchTypeOK
<1>3. KeysOwn
  BY <1>1, ServingAssumption, Zenon DEF KeysOwn
<1>4. MapsLeadToKnown
  BY <1>1, Zenon DEF MapsLeadToKnown
<1>5. ReadWhileHeld
  BY DEF ReadWhileHeld, Handlers!Sources
<1>6. RemovedIsSilent
  BY Zenon DEF RemovedIsSilent, Handlers!RemovedIsSilent
<1>7. QED
  BY <1>2, <1>3, <1>4, <1>5, <1>6, Zenon DEF DispatchInv


\* The invariant in two halves: the peers and their paths, and the workers.
MapsOK ==
  /\ key \in [1..MaxPeers -> Keys \cup {0}]
  /\ peers \in [Keys -> 1..MaxPeers \cup {0}] /\ by_ip \in [Nets -> 1..MaxPeers \cup {0}]
  /\ by_idx \in SUBSET (1..MaxPeers) /\ placed \in SUBSET (1..MaxPeers)
  /\ link \in [1..MaxPeers -> 1..MaxLinks \cup {0}]
  /\ holder \in [1..MaxLinks -> 1..MaxPeers \cup {0}]
  /\ opened \in 0..MaxLinks
  /\ KeysOwn
  /\ by_idx \subseteq Handlers!Known
  /\ \A n \in Nets : by_ip[n] # 0 => by_ip[n] \in Handlers!Known
  /\ \A o \in 1..MaxPeers : link[o] # 0 => o \in Handlers!Known

Places == {Handlers!Unborn, Handlers!Gated, Handlers!Idle, Handlers!Gone} \cup Handlers!Sources

WorkersOK ==
  /\ start \in {"spawning", "running", "failed", "returned"}
  /\ at \in [Workers -> Places]
  /\ iter \in [Workers -> 0..MaxItr] /\ todo \in [Workers -> SUBSET (1..MaxPeers)]
  /\ waiting \in [Handlers!Sources -> 0..Room]
  /\ exiting \in BOOLEAN
  /\ \A w \in Workers : todo[w] # {} => at[w] = Handlers!Timer /\ todo[w] \subseteq Handlers!Known
  /\ ReadWhileHeld

\* The halves make the whole.
LEMMA Halves == DispatchInv <=> MapsOK /\ WorkersOK /\ RemovedIsSilent /\ keyed \in BOOLEAN
<1>1. {exiting, keyed} \subseteq BOOLEAN <=> exiting \in BOOLEAN /\ keyed \in BOOLEAN
  BY Zenon
<1>2. {by_idx, placed} \subseteq SUBSET (1..MaxPeers)
        <=> by_idx \in SUBSET (1..MaxPeers) /\ placed \in SUBSET (1..MaxPeers)
  BY Zenon
<1>3. QED
  BY <1>1, <1>2, Zenon DEF DispatchInv, MapsOK, WorkersOK, Places, Handlers!DispatchTypeOK, MapsLeadToKnown

\* Nothing of the peers and their paths changes.
LEMMA MapsKept ==
  MapsOK /\ UNCHANGED <<key, peers, by_idx, by_ip, placed, link, holder, opened>>
    => MapsOK' /\ Handlers!Known' = Handlers!Known
BY DEF MapsOK, KeysOwn, Handlers!Known, Handlers!Registered

\* An accepted packet moves the path of a registered peer.
LEMMA PathMoved ==
  ASSUME NEW o \in Handlers!Known, MapsOK,
         UNCHANGED <<key, peers, by_idx, by_ip>>,
         placed' \in {placed, placed \cup {o}},
         Handlers!Upgrade(o)
  PROVE  /\ MapsOK' /\ Handlers!Known' = Handlers!Known
         /\ \A l \in 1..MaxLinks : holder[l] # 0 => holder'[l] # 0
<1>1. Handlers!Known' = Handlers!Known /\ KeysOwn'
  BY Zenon DEF MapsOK, KeysOwn, Handlers!Known, Handlers!Registered
<1>2. o \in 1..MaxPeers
  BY Zenon DEF Handlers!Known
<1>3. /\ link' \in [1..MaxPeers -> 1..MaxLinks \cup {0}]
      /\ holder' \in [1..MaxLinks -> 1..MaxPeers \cup {0}]
      /\ opened' \in 0..MaxLinks
      /\ \A p \in 1..MaxPeers : link'[p] # 0 => link[p] # 0 \/ p = o
      /\ \A l \in 1..MaxLinks : holder[l] # 0 => holder'[l] # 0
  <2>1. CASE UNCHANGED <<link, holder, opened>>
    BY <2>1, Zenon DEF MapsOK
  <2>2. CASE link' = [link EXCEPT ![o] = 0] /\ UNCHANGED <<holder, opened>>
    BY <1>2, <2>2, Zenon DEF MapsOK
  <2>3. CASE /\ opened < MaxLinks /\ opened' = opened + 1
             /\ link' = [link EXCEPT ![o] = opened']
             /\ holder' = [holder EXCEPT ![opened'] = o]
    <3>1. opened' \in 1..MaxLinks
      BY <2>3, ServingAssumption DEF MapsOK
    <3>2. QED
      BY <1>2, <2>3, <3>1, ServingAssumption DEF MapsOK
  <2>4. QED
    BY <2>1, <2>2, <2>3, Zenon DEF Handlers!Upgrade
<1>4. QED
  BY <1>1, <1>2, <1>3, Zenon DEF MapsOK

\* A step that sends and delivers nothing breaks no silence.
LEMMA NothingSent == out' = {} => RemovedIsSilent'
BY Zenon DEF RemovedIsSilent, Handlers!RemovedIsSilent

\* What a handler does with a result is for the peer it was asked about.
LEMMA EffectSilent ==
  ASSUME NEW o \in Handlers!Known, NEW result, NEW n,
         out' = Handlers!Effect(o, result, n),
         UNCHANGED <<key, peers, by_idx, by_ip>>
  PROVE  RemovedIsSilent'
<1>1. Handlers!Registered(o)
  BY Zenon DEF Handlers!Known
<1>2. ASSUME NEW e \in out' PROVE e.peer = o /\ (e.to = "tun" => by_ip[e.net] = o)
  BY <1>2 DEF Handlers!Effect, Handlers!Sent, Handlers!Owns
<1>3. QED
  BY <1>1, <1>2, Zenon DEF RemovedIsSilent, Handlers!RemovedIsSilent, Handlers!Registered


\* Distinct places.
LEMMA PlacesDiffer ==
  /\ \A s \in {Handlers!Unborn, Handlers!Gated, Handlers!Idle, Handlers!Gone, Handlers!Udp, Handlers!Tun} :
       s # Handlers!Timer
  /\ \A l \in 1..MaxLinks : Handlers!Conn(l) # Handlers!Timer /\ Handlers!Conn(l) \in Handlers!Sources
  /\ {Handlers!Udp, Handlers!Tun, Handlers!Timer} \subseteq Handlers!Sources
  /\ \A l, m \in 1..MaxLinks : Handlers!Conn(l) = Handlers!Conn(m) => l = m
BY DEF Handlers!Unborn, Handlers!Gated, Handlers!Idle, Handlers!Gone, Handlers!Udp, Handlers!Tun,
       Handlers!Timer, Handlers!Conn, Handlers!Sources

\* Steps of the start, of arrivals and of the event loop.
LEMMA LoopKeeps ==
  ASSUME DispatchInv,
         \/ Handlers!Starting
         \/ \E s \in Handlers!Sources : Handlers!Arrive(s)
         \/ \E w \in Workers : Handlers!Exit(w)
         \/ \E w \in Workers, s \in Handlers!Sources : Handlers!Fire(w, s)
         \/ \E w \in Workers, l \in 1..MaxLinks : Handlers!HangUp(w, l)
  PROVE  DispatchInv'
<1> USE PlacesDiffer
<1>1. MapsOK /\ WorkersOK /\ keyed \in BOOLEAN
  BY Halves, Zenon
<1>2. CASE Handlers!Starting \/ \E w \in Workers : Handlers!Exit(w)
  <2>1. /\ out' = {} /\ UNCHANGED <<iter, todo, exiting, waiting, Handlers!mapVars, Handlers!pathVars>>
        /\ start' \in {"spawning", "running", "failed", "returned"}
    BY <1>1, <1>2, Zenon DEF Handlers!Starting, Handlers!Spawn, Handlers!Spawned, Handlers!Gate, Handlers!Joined,
       Handlers!Exit, WorkersOK
  <2>2. at' \in [Workers -> Places] /\ \A w \in Workers : at[w] = Handlers!Timer => at'[w] = at[w]
    <3>1. CASE at' = at
      BY <1>1, <3>1, Zenon DEF WorkersOK
    <3>2. CASE \E w \in Workers : /\ at[w] \in {Handlers!Unborn, Handlers!Gated, Handlers!Idle}
                                  /\ \E to \in {Handlers!Gated, Handlers!Idle, Handlers!Gone} :
                                       at' = [at EXCEPT ![w] = to]
      BY <1>1, <3>2, Zenon DEF WorkersOK, Places
    <3>3. QED
      BY <1>2, <3>1, <3>2, Zenon DEF Handlers!Starting, Handlers!Spawn, Handlers!Spawned, Handlers!Gate, Handlers!Joined, Handlers!Exit
  <2>3. MapsOK' /\ Handlers!Known' = Handlers!Known /\ RemovedIsSilent' /\ (keyed \in BOOLEAN)'
    BY <1>1, <2>1, MapsKept, NothingSent, Zenon DEF Handlers!mapVars, Handlers!pathVars
  <2>4. WorkersOK'
    BY <1>1, <2>1, <2>2, <2>3, Zenon DEF WorkersOK, ReadWhileHeld, Handlers!pathVars
  <2>5. QED
    BY <1>1, <2>3, <2>4, Halves, PTL
<1>3. CASE \E s \in Handlers!Sources : Handlers!Arrive(s)
  <2> PICK s \in Handlers!Sources : Handlers!Arrive(s)
    BY <1>3, Zenon
  <2>1. MapsOK' /\ Handlers!Known' = Handlers!Known /\ RemovedIsSilent' /\ (keyed \in BOOLEAN)'
    BY <1>1, MapsKept, NothingSent, Zenon DEF Handlers!Arrive, Handlers!mapVars, Handlers!pathVars
  <2>2. waiting' \in [Handlers!Sources -> 0..Room]
    BY <1>1, ServingAssumption DEF Handlers!Arrive, WorkersOK
  <2>3. ReadWhileHeld'
    BY <1>1, Zenon DEF Handlers!Arrive, WorkersOK, ReadWhileHeld, Handlers!pathVars
  <2>4. WorkersOK'
    BY <1>1, <2>1, <2>2, <2>3, Zenon DEF Handlers!Arrive, WorkersOK, Handlers!workerVars
  <2>5. QED
    BY <1>1, <2>1, <2>4, Halves, PTL
<1>4. CASE \E w \in Workers, s \in Handlers!Sources : Handlers!Fire(w, s)
  <2> PICK w \in Workers, s \in Handlers!Sources : Handlers!Fire(w, s)
    BY <1>4, Zenon
  <2>1. MapsOK' /\ Handlers!Known' = Handlers!Known /\ RemovedIsSilent' /\ (keyed \in BOOLEAN)'
    BY <1>1, MapsKept, NothingSent, Zenon DEF Handlers!Fire, Handlers!mapVars, Handlers!pathVars
  <2>2. /\ waiting' \in [Handlers!Sources -> 0..Room]
        /\ \A r \in Handlers!Sources : waiting'[r] <= waiting[r]
    BY <1>1, ServingAssumption DEF Handlers!Fire, WorkersOK
  <2>3. ReadWhileHeld'
    BY <1>1, <2>2, ServingAssumption, Zenon DEF Handlers!Fire, WorkersOK, ReadWhileHeld, Handlers!pathVars
  <2>4. Handlers!Known \subseteq 1..MaxPeers
    BY Zenon DEF Handlers!Known
  <2>5. /\ at' \in [Workers -> Places] /\ iter' \in [Workers -> 0..MaxItr]
        /\ todo' \in [Workers -> SUBSET (1..MaxPeers)]
    BY <1>1, <2>4, ServingAssumption DEF Handlers!Fire, WorkersOK, Places
  <2>6. \A v \in Workers : todo'[v] # {} => at'[v] = Handlers!Timer /\ todo'[v] \subseteq Handlers!Known
    BY <1>1, Zenon DEF Handlers!Fire, WorkersOK
  <2>7. WorkersOK'
    BY <1>1, <2>1, <2>2, <2>3, <2>5, <2>6, Zenon DEF Handlers!Fire, WorkersOK
  <2>8. QED
    BY <1>1, <2>1, <2>7, Halves, PTL
<1>5. CASE \E w \in Workers, l \in 1..MaxLinks : Handlers!HangUp(w, l)
  <2> PICK w \in Workers, l \in 1..MaxLinks : Handlers!HangUp(w, l)
    BY <1>5, Zenon
  <2>1. RemovedIsSilent' /\ (keyed \in BOOLEAN)'
    BY <1>1, NothingSent, Zenon DEF Handlers!HangUp, Handlers!mapVars
  <2>2. Handlers!Known' = Handlers!Known /\ KeysOwn'
    BY <1>1, Zenon DEF MapsOK, KeysOwn, Handlers!HangUp, Handlers!mapVars, Handlers!Known, Handlers!Registered
  <2>3. MapsOK'
    BY <1>1, <2>2, Zenon DEF MapsOK, Handlers!HangUp, Handlers!mapVars
  <2>4. waiting' \in [Handlers!Sources -> 0..Room]
    BY <1>1, ServingAssumption DEF Handlers!HangUp, WorkersOK
  <2>5. ReadWhileHeld'
    BY <1>1 DEF Handlers!HangUp, WorkersOK, MapsOK, ReadWhileHeld
  <2>6. WorkersOK'
    BY <1>1, <2>2, <2>4, <2>5, Zenon DEF Handlers!HangUp, WorkersOK, Handlers!workerVars
  <2>7. QED
    BY <1>1, <2>1, <2>3, <2>6, Halves, PTL
<1>6. QED
  BY <1>2, <1>3, <1>4, <1>5, Zenon


\* A datagram or packet is read.
LEMMA TakeKeeps ==
  ASSUME WorkersOK, NEW w \in Workers, NEW s \in Handlers!Sources, Handlers!Take(w, s),
         Handlers!Known' = Handlers!Known, exiting' = exiting,
         \A l \in 1..MaxLinks : holder[l] # 0 => holder'[l] # 0
  PROVE  WorkersOK'
<1>1. iter' \in [Workers -> 0..MaxItr]
  BY ServingAssumption DEF WorkersOK, Handlers!Take
<1>2. waiting' \in [Handlers!Sources -> 0..Room] /\ \A r \in Handlers!Sources : waiting'[r] <= waiting[r]
  BY ServingAssumption DEF WorkersOK, Handlers!Take
<1>3. ReadWhileHeld'
  BY <1>2, PlacesDiffer, ServingAssumption DEF WorkersOK, ReadWhileHeld
<1>4. QED
  BY <1>1, <1>2, <1>3, Zenon DEF WorkersOK, Handlers!Take

\* A handler returns, perhaps after one more read.
LEMMA ReturnKeeps ==
  ASSUME WorkersOK, NEW w \in Workers, NEW to \in {Handlers!Idle, Handlers!Gone}, Handlers!Return(w, to),
         at[w] # Handlers!Timer \/ todo[w] = {},
         UNCHANGED <<start, todo, holder>>, Handlers!Known' = Handlers!Known, exiting' \in BOOLEAN,
         waiting' = waiting \/ \E s \in Handlers!Sources :
           waiting[s] > 0 /\ waiting' = [waiting EXCEPT ![s] = @ - 1]
  PROVE  WorkersOK'
<1>1. iter' \in [Workers -> 0..MaxItr] /\ at' \in [Workers -> Places]
  BY ServingAssumption DEF WorkersOK, Handlers!Return, Places
<1>2. waiting' \in [Handlers!Sources -> 0..Room] /\ \A r \in Handlers!Sources : waiting'[r] <= waiting[r]
  BY ServingAssumption DEF WorkersOK
<1>3. ReadWhileHeld'
  BY <1>2, PlacesDiffer, ServingAssumption, Zenon DEF WorkersOK, ReadWhileHeld
<1>4. \A v \in Workers : todo'[v] # {} => at'[v] = Handlers!Timer /\ todo'[v] \subseteq Handlers!Known
  BY Zenon DEF WorkersOK, Handlers!Return
<1>5. QED
  BY <1>1, <1>2, <1>3, <1>4, Zenon DEF WorkersOK

\* Every step of a handler.
LEMMA HandleKeeps ==
  ASSUME DispatchInv, NEW w \in Workers, Handlers!Handle(w)
  PROVE  DispatchInv'
<1> USE PlacesDiffer
<1>1. MapsOK /\ WorkersOK /\ keyed \in BOOLEAN
  BY Halves, Zenon
<1>2. CASE \/ \E s \in Handlers!Sources : Handlers!Ends(w, s)
           \/ \E l \in 1..MaxLinks : Handlers!StaleConnection(w, l)
           \/ Handlers!TunFails(w)
  <2>1. /\ UNCHANGED <<start, todo, Handlers!mapVars, Handlers!pathVars>> /\ out' = {}
        /\ exiting' \in BOOLEAN
    BY <1>1, <1>2, Zenon DEF Handlers!Ends, Handlers!StaleConnection, Handlers!TunFails, WorkersOK
  <2>2. MapsOK' /\ Handlers!Known' = Handlers!Known /\ RemovedIsSilent' /\ (keyed \in BOOLEAN)'
    BY <1>1, <2>1, MapsKept, NothingSent, Zenon DEF Handlers!mapVars, Handlers!pathVars
  <2>3. /\ \E to \in {Handlers!Idle, Handlers!Gone} : Handlers!Return(w, to)
        /\ at[w] # Handlers!Timer \/ todo[w] = {}
    BY <1>1, <1>2, Zenon DEF Handlers!Ends, Handlers!StaleConnection, Handlers!TunFails, WorkersOK
  <2>4. waiting' = waiting \/ \E s \in Handlers!Sources :
           waiting[s] > 0 /\ waiting' = [waiting EXCEPT ![s] = @ - 1]
    BY <1>2, Zenon DEF Handlers!Ends, Handlers!StaleConnection, Handlers!TunFails
  <2>5. WorkersOK'
    BY <1>1, <2>1, <2>2, <2>3, <2>4, ReturnKeeps, Zenon DEF Handlers!pathVars
  <2>6. QED
    BY <1>1, <2>2, <2>5, Halves, PTL
<1>3. CASE Handlers!DrainDatagram(w) \/ Handlers!Unattributed(w)
  <2>1. MapsOK' /\ Handlers!Known' = Handlers!Known /\ RemovedIsSilent' /\ (keyed \in BOOLEAN)'
    BY <1>1, <1>3, MapsKept, NothingSent, Zenon
    DEF Handlers!DrainDatagram, Handlers!Unattributed, Handlers!mapVars, Handlers!pathVars
  <2>2. Handlers!Take(w, Handlers!Udp) /\ exiting' = exiting /\ holder' = holder
    BY <1>3, Zenon DEF Handlers!DrainDatagram, Handlers!Unattributed, Handlers!pathVars
  <2>3. WorkersOK'
    BY <1>1, <2>1, <2>2, TakeKeeps, Zenon
  <2>4. QED
    BY <1>1, <2>1, <2>3, Halves, PTL
<1>4. ASSUME NEW o \in 1..MaxPeers, NEW kind, NEW result, NEW n, Handlers!FromPeer(w, o, kind, result, n)
      PROVE  DispatchInv'
  <2>1. o \in Handlers!Known /\ UNCHANGED <<key, peers, by_idx, by_ip>>
    BY <1>1, <1>4, Zenon DEF Handlers!FromPeer, Handlers!Authenticates, MapsOK, Handlers!mapVars
  <2>2. /\ MapsOK' /\ Handlers!Known' = Handlers!Known
        /\ \A l \in 1..MaxLinks : holder[l] # 0 => holder'[l] # 0
    <3>1. CASE UNCHANGED Handlers!pathVars
      BY <1>1, <2>1, <3>1, MapsKept, Zenon DEF Handlers!pathVars
    <3>2. CASE placed' = placed \cup {o} /\ Handlers!Upgrade(o)
      BY <1>1, <2>1, <3>2, PathMoved, Zenon
    <3>3. QED
      BY <1>4, <3>1, <3>2, Zenon DEF Handlers!FromPeer, Handlers!Committed
  <2>3. WorkersOK'
    BY <1>1, <1>4, <2>2, TakeKeeps, Zenon DEF Handlers!FromPeer
  <2>4. RemovedIsSilent' /\ (keyed \in BOOLEAN)'
    BY <1>1, <1>4, <2>1, EffectSilent, Zenon DEF Handlers!FromPeer, Handlers!mapVars
  <2>5. QED
    BY <2>2, <2>3, <2>4, Halves, PTL
<1>5. ASSUME NEW l \in 1..MaxLinks, NEW result, NEW n, Handlers!OnConnection(w, l, result, n)
      PROVE  DispatchInv'
  <2>1. holder[l] \in Handlers!Known
    <3>1. holder[l] # 0
      BY <1>1, <1>5, Zenon DEF Handlers!OnConnection, Handlers!Take, WorkersOK, ReadWhileHeld
    <3>2. holder[l] \in 1..MaxPeers /\ link[holder[l]] = l
      BY <1>1, <1>5, <3>1, Zenon DEF Handlers!OnConnection, Handlers!IsShut, MapsOK
    <3>3. QED
      BY <1>1, <3>2 DEF MapsOK
  <2>2. MapsOK' /\ Handlers!Known' = Handlers!Known /\ (keyed \in BOOLEAN)'
    BY <1>1, <1>5, MapsKept, Zenon DEF Handlers!OnConnection, Handlers!mapVars, Handlers!pathVars
  <2>3. WorkersOK'
    BY <1>1, <1>5, <2>2, TakeKeeps, Zenon DEF Handlers!OnConnection, Handlers!pathVars
  <2>4. RemovedIsSilent'
    BY <1>5, <2>1, EffectSilent, Zenon DEF Handlers!OnConnection, Handlers!mapVars
  <2>5. QED
    BY <2>2, <2>3, <2>4, Halves, PTL
<1>6. ASSUME NEW n \in Nets, NEW result, Handlers!FromTun(w, n, result)
      PROVE  DispatchInv'
  <2>1. MapsOK' /\ Handlers!Known' = Handlers!Known /\ (keyed \in BOOLEAN)'
    BY <1>1, <1>6, MapsKept, Zenon DEF Handlers!FromTun, Handlers!mapVars, Handlers!pathVars
  <2>2. WorkersOK'
    BY <1>1, <1>6, <2>1, TakeKeeps, Zenon DEF Handlers!FromTun, Handlers!pathVars
  <2>3. ASSUME NEW e \in out' PROVE Handlers!Registered(e.peer) /\ e.to # "tun"
    BY <1>1, <1>6, <2>3 DEF Handlers!FromTun, Handlers!Sent, MapsOK, Handlers!Known
  <2>4. RemovedIsSilent'
    BY <1>6, <2>3, Zenon DEF RemovedIsSilent, Handlers!RemovedIsSilent, Handlers!Registered, Handlers!FromTun, Handlers!mapVars
  <2>5. QED
    BY <2>1, <2>2, <2>4, Halves, PTL
<1>7. ASSUME NEW o \in 1..MaxPeers, NEW result, Handlers!UpdateTimers(w, o, result)
      PROVE  DispatchInv'
  <2>1. o \in Handlers!Known /\ UNCHANGED <<key, peers, by_idx, by_ip>> /\ (keyed \in BOOLEAN)'
    BY <1>1, <1>7, Zenon DEF Handlers!UpdateTimers, WorkersOK, Handlers!mapVars
  <2>2. Handlers!Known' = Handlers!Known /\ KeysOwn'
    BY <1>1, <2>1, Zenon DEF MapsOK, KeysOwn, Handlers!Known, Handlers!Registered
  <2>3. /\ link' \in [1..MaxPeers -> 1..MaxLinks \cup {0}]
        /\ \A p \in 1..MaxPeers : link'[p] # 0 => link[p] # 0
    BY <1>1, <1>7, Zenon DEF MapsOK, Handlers!UpdateTimers
  <2>4. MapsOK'
    BY <1>1, <1>7, <2>1, <2>2, <2>3, Zenon DEF MapsOK, Handlers!UpdateTimers
  <2>5. /\ todo' \in [Workers -> SUBSET (1..MaxPeers)]
        /\ \A v \in Workers : todo'[v] \subseteq todo[v]
    BY <1>1, <1>7, Zenon DEF WorkersOK, Handlers!UpdateTimers
  <2>6. WorkersOK'
    BY <1>1, <1>7, <2>2, <2>5, Zenon DEF WorkersOK, Handlers!UpdateTimers, ReadWhileHeld
  <2>7. ASSUME NEW e \in out' PROVE Handlers!Registered(e.peer) /\ e.to # "tun"
    BY <1>7, <2>1, <2>7 DEF Handlers!UpdateTimers, Handlers!Sent, Handlers!Known
  <2>8. RemovedIsSilent'
    BY <2>1, <2>7, Zenon DEF RemovedIsSilent, Handlers!RemovedIsSilent, Handlers!Registered
  <2>9. QED
    BY <2>1, <2>4, <2>6, <2>8, Halves, PTL
<1>8. QED
  BY <1>2, <1>3, <1>4, <1>5, <1>6, <1>7, Zenon DEF Handlers!Handle


\* Configuration runs alone: the timer's lists are empty, and what it leaves of
\* the workers is as before.
LEMMA AloneKeeps ==
  ASSUME WorkersOK, Handlers!Alone, UNCHANGED <<start, at, iter, todo, exiting, waiting, holder>>
  PROVE  WorkersOK'
<1>1. \A w \in Workers : todo[w] = {}
  BY PlacesDiffer, Zenon DEF WorkersOK, Handlers!Alone
<1>2. QED
  BY <1>1, Zenon DEF WorkersOK, ReadWhileHeld

\* A removed object leaves the other two maps and its path with it.
LEMMA RemoveKeeps ==
  ASSUME DispatchInv, NEW k \in Keys, Handlers!RemovePeer(k)
  PROVE  DispatchInv'
<1> DEFINE gone == peers[k]
<1>1. MapsOK /\ WorkersOK /\ keyed \in BOOLEAN
  BY Halves, Zenon
<1>2. gone \in 1..MaxPeers /\ key[gone] = k
  BY <1>1, Zenon DEF Handlers!RemovePeer, MapsOK, KeysOwn
<1>3. Handlers!Known' = Handlers!Known \ {gone}
  <2>1. ASSUME NEW o \in 1..MaxPeers, key[o] # 0 PROVE peers'[key[o]] = o <=> peers[key[o]] = o /\ o # gone
    BY <1>1, <1>2, <2>1 DEF Handlers!RemovePeer, MapsOK
  <2>2. QED
    BY <1>1, <2>1, Zenon DEF Handlers!Known, Handlers!Registered, Handlers!RemovePeer
<1>5. KeysOwn'
  BY <1>1, Zenon DEF KeysOwn, MapsOK, Handlers!RemovePeer
<1>6. MapsOK'
  BY <1>1, <1>2, <1>3, <1>5, Zenon DEF MapsOK, Handlers!RemovePeer
<1>7. WorkersOK'
  BY <1>1, AloneKeeps, Zenon DEF Handlers!RemovePeer, Handlers!workerVars
<1>8. RemovedIsSilent' /\ (keyed \in BOOLEAN)'
  BY <1>1, NothingSent, Zenon DEF Handlers!RemovePeer
<1>9. QED
  BY <1>6, <1>7, <1>8, Halves, PTL

\* Nothing is left of the peers but objects their handlers hold.
LEMMA ClearKeeps ==
  ASSUME DispatchInv, Handlers!ClearPeers
  PROVE  DispatchInv'
<1>1. MapsOK /\ WorkersOK /\ keyed \in BOOLEAN
  BY Halves, Zenon
<1>3. KeysOwn'
  BY <1>1, Zenon DEF KeysOwn, MapsOK, Handlers!ClearPeers
<1>4. \A o \in 1..MaxPeers : link'[o] = 0
  BY <1>1, Zenon DEF MapsOK, Handlers!ClearPeers
<1>5. MapsOK'
  BY <1>1, <1>3, <1>4, Zenon DEF MapsOK, Handlers!ClearPeers
<1>6. WorkersOK'
  BY <1>1, AloneKeeps, Zenon DEF Handlers!ClearPeers, Handlers!workerVars
<1>7. RemovedIsSilent' /\ (keyed \in BOOLEAN)'
  BY <1>1, NothingSent, Zenon DEF Handlers!ClearPeers
<1>8. QED
  BY <1>5, <1>6, <1>7, Halves, PTL

\* A new object is fresh: none of the maps, paths or handlers knew it.
LEMMA UpdateKeeps ==
  ASSUME DispatchInv, NEW k \in Keys, NEW o \in 1..MaxPeers, NEW nets \in SUBSET Nets,
         NEW replace \in BOOLEAN, NEW moved \in BOOLEAN,
         Handlers!UpdatePeer(k, o, nets, replace, moved)
  PROVE  DispatchInv'
<1>1. MapsOK /\ WorkersOK /\ keyed \in BOOLEAN
  BY Halves, Zenon
<1>2. /\ key' = [key EXCEPT ![o] = k]
      /\ peers' = [peers EXCEPT ![k] = o]
      /\ by_idx' = by_idx \cup {o}
      /\ by_ip' = [n \in Nets |->
                    IF n \in nets THEN o ELSE IF replace /\ by_ip[n] = o THEN 0 ELSE by_ip[n]]
      /\ placed' = IF moved THEN placed \cup {o} ELSE placed
      /\ link' = IF moved THEN [link EXCEPT ![o] = 0] ELSE link
      /\ UNCHANGED <<holder, opened, keyed>>
  BY Zenon DEF Handlers!UpdatePeer
<1>3. peers[k] = 0 => key[o] = 0
  BY Zenon DEF Handlers!UpdatePeer, Handlers!Updated
<1>4. peers[k] # 0 => o = peers[k] /\ key[o] = k
  BY <1>1, Zenon DEF Handlers!UpdatePeer, Handlers!Updated, MapsOK, KeysOwn
<1>5. KeysOwn'
  BY <1>1, <1>2, <1>3, <1>4, ServingAssumption, Zenon DEF MapsOK, KeysOwn
<1>6. Handlers!Known' = Handlers!Known \cup {o}
  <2>1. \A p \in 1..MaxPeers : p # o /\ key[p] # 0 =>
          key'[p] = key[p] /\ (peers'[key[p]] = p <=> peers[key[p]] = p)
    BY <1>1, <1>2, <1>4 DEF MapsOK
  <2>2. key'[o] = k /\ peers'[k] = o /\ k # 0
    BY <1>1, <1>2, ServingAssumption, Zenon DEF MapsOK
  <2>3. QED
    BY <1>1, <1>2, <2>1, <2>2, ServingAssumption DEF Handlers!Known, Handlers!Registered, MapsOK
<1>7. MapsOK'
  <2>1. /\ key' \in [1..MaxPeers -> Keys \cup {0}]
        /\ peers' \in [Keys -> 1..MaxPeers \cup {0}] /\ by_ip' \in [Nets -> 1..MaxPeers \cup {0}]
        /\ by_idx' \in SUBSET (1..MaxPeers) /\ placed' \in SUBSET (1..MaxPeers)
        /\ link' \in [1..MaxPeers -> 1..MaxLinks \cup {0}]
    BY <1>1, <1>2, Zenon DEF MapsOK
  <2>2. /\ by_idx' \subseteq Handlers!Known'
        /\ \A n \in Nets : by_ip'[n] # 0 => by_ip'[n] \in Handlers!Known'
        /\ \A p \in 1..MaxPeers : link'[p] # 0 => p \in Handlers!Known'
    BY <1>1, <1>2, <1>6, Zenon DEF MapsOK
  <2>3. QED
    BY <1>1, <1>2, <1>5, <2>1, <2>2, Zenon DEF MapsOK
<1>8. WorkersOK'
  BY <1>1, AloneKeeps, Zenon DEF Handlers!UpdatePeer, Handlers!workerVars
<1>9. RemovedIsSilent' /\ (keyed \in BOOLEAN)'
  BY <1>1, NothingSent, Zenon DEF Handlers!UpdatePeer
<1>10. QED
  BY <1>7, <1>8, <1>9, Halves, PTL

\* Every step of the workers and of the configuration.
LEMMA DispatchStep == DispatchInv /\ [Handlers!DispatchNext]_handlerVars => DispatchInv'
<1> SUFFICES ASSUME DispatchInv, [Handlers!DispatchNext]_handlerVars PROVE DispatchInv'
  BY Zenon
<1>1. MapsOK /\ WorkersOK /\ RemovedIsSilent /\ keyed \in BOOLEAN
  BY Halves, Zenon
<1>2. CASE UNCHANGED handlerVars \/ Handlers!Stopped
  <2>1. UNCHANGED handlerVars
    BY <1>2, Zenon DEF Handlers!Stopped, Handlers!dispatchVars, Handlers!workerVars, Handlers!mapVars,
                Handlers!pathVars, handlerVars
  <2>2. MapsOK' /\ Handlers!Known' = Handlers!Known
    BY <1>1, <2>1, MapsKept, Zenon DEF handlerVars
  <2>3. WorkersOK'
    BY <1>1, <2>1, <2>2, Zenon DEF WorkersOK, ReadWhileHeld, handlerVars
  <2>4. RemovedIsSilent' /\ (keyed \in BOOLEAN)'
    BY <1>1, <2>1, Zenon DEF RemovedIsSilent, Handlers!RemovedIsSilent, Handlers!Registered, handlerVars
  <2>5. QED
    BY <2>2, <2>3, <2>4, Halves, PTL
<1>3. CASE Handlers!SetKey
  <2>1. MapsOK' /\ RemovedIsSilent' /\ (keyed \in BOOLEAN)'
    BY <1>1, <1>3, MapsKept, NothingSent, Zenon DEF Handlers!SetKey, Handlers!pathVars
  <2>2. WorkersOK'
    BY <1>1, <1>3, AloneKeeps, Zenon DEF Handlers!SetKey, Handlers!workerVars, Handlers!pathVars
  <2>3. QED
    BY <2>1, <2>2, Halves, PTL
<1>4. CASE Handlers!Admin
  BY <1>3, <1>4, RemoveKeeps, ClearKeeps, UpdateKeeps, Zenon DEF Handlers!Admin
<1>5. QED
  BY <1>2, <1>4, LoopKeeps, HandleKeeps, Zenon DEF Handlers!DispatchNext

\* A removed peer is silent, with any number of workers, peers, networks and
\* connected sockets: whatever a handler sends is for a peer the device still
\* has, although the handler of its connected socket, or the timer's list, may
\* hold one that was removed or replaced (remove_peer, clear_peers, peer_owns).
THEOREM RemovedSilent == ServingSpec => []RemovedIsSilent
<1>1. ServingInit => DispatchInv
  BY DispatchStarts, Zenon DEF ServingInit
<1>2. DispatchInv /\ [ServingNext]_<<vars, handlerVars>> => DispatchInv'
  <2> SUFFICES ASSUME DispatchInv, [ServingNext]_<<vars, handlerVars>> PROVE DispatchInv'
    BY Zenon
  <2>1. [Handlers!DispatchNext]_handlerVars
    BY Zenon DEF ServingNext
  <2>2. QED
    BY <2>1, DispatchStep, Zenon
<1>3. DispatchInv => RemovedIsSilent
  BY Zenon DEF DispatchInv
<1>4. QED
  BY <1>1, <1>2, <1>3, PTL DEF ServingSpec


\* Both parts together: next to the handlers of all peers, each path keeps what
\* PathFollows, NoBlackhole and LearnedAllowed say of it.
THEOREM ServingFollows ==
  ServingSpec => [](PathFollowsEndpoint /\ ConnectedIsServed /\ LearnedIsAllowed /\ RemovedIsSilent)
<1>1. ServingInit => PathInv
  BY PathInit, Zenon DEF ServingInit
<1>2. PathInv /\ [ServingNext]_<<vars, handlerVars>> => PathInv'
  <2> SUFFICES ASSUME PathInv, [ServingNext]_<<vars, handlerVars>> PROVE PathInv'
    BY Zenon
  <2>1. [Next]_vars
    BY Zenon DEF ServingNext
  <2>2. QED
    BY <2>1, PathStep, Zenon
<1>3. PathInv => PathFollowsEndpoint /\ ConnectedIsServed /\ LearnedIsAllowed
  BY Zenon DEF PathInv
<1>4. QED
  BY <1>1, <1>2, <1>3, RemovedSilent, PTL DEF ServingSpec
=============================================================================
