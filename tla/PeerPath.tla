------------------------------ MODULE PeerPath ------------------------------
(***************************************************************************)
(* One peer's path: its endpoint, the connected socket it may be upgraded  *)
(* to (device/peer.rs, device/mod.rs) and what its tunnel keeps about the  *)
(* path: the UDP window, unverified camouflage evidence and the protocol   *)
(* learned from it (noise/mod.rs, noise/imitation/auto.rs).                *)
(*                                                                         *)
(* A listener worker holds the peer's mutex from authentication to the     *)
(* upgrade, so it is one step.  The handler of a connected socket receives *)
(* before it takes the mutex: those are two steps, and a roam, an expiry   *)
(* or another handler may come between them.  Configuration runs under the *)
(* device's write lock, when no handler is inside a dispatch.  Connected   *)
(* sockets are on (use_connected_socket); without them conn stays empty.   *)
(***************************************************************************)
EXTENDS Integers, FiniteSets

CONSTANTS
  Addrs,          \* endpoint addresses: host and port
  Host(_),        \* the host of an address, all the tunnel binds evidence to
  Protocols,      \* what camouflage can be recognised
  None,           \* no address, no evidence, no protocol
  MaxConns        \* bound: connected sockets ever opened

ASSUME PathAssumption ==
  MaxConns \in Nat /\ None \notin Addrs \cup Protocols

VARIABLES
  addr,           \* Endpoint::addr
  conn,           \* Endpoint::conn: the lifetime of the socket in it, or 0
  lifetime,       \* Peer::conn_lifetime
  suppressed,     \* Peer::upgrade_suppressed: the address it was set for, or None
  disabled,       \* conn_upgrade_disabled of the listener
  window,         \* Tunn::udp_window: the paths whose frames it has grown from
  evidence,       \* AutoImitation::pending
  learned,        \* AutoImitation::learned
  config,         \* imitation is Auto, and the protocols header protection refuses
  handlers,       \* the connected sockets' handlers, by lifetime
  sockets,        \* connected sockets opened so far
  since           \* history: the first socket opened after the endpoint last moved

tunnVars == <<window, evidence, learned>>
endpointVars == <<addr, conn, lifetime, suppressed, since>>
vars == <<endpointVars, disabled, tunnVars, config, handlers, sockets>>

Kinds == {"Init", "Response", "Data", "Cookie"}
MovesEndpoint(kind) == kind # "Cookie"
Evidence == [from: Addrs, protocol: Protocols, via: 1..MaxConns]
Gone == [at |-> "gone", to |-> None, open |-> FALSE]

Init ==
  /\ addr \in Addrs \cup {None}
  /\ conn = 0 /\ lifetime = 0 /\ suppressed = None /\ disabled = FALSE
  /\ window = {} /\ evidence = None /\ learned = None
  /\ config \in [auto: BOOLEAN, refuses: SUBSET Protocols]
  /\ handlers = [l \in 1..MaxConns |-> Gone]
  /\ sockets = 0 /\ since = 1

(***************************************************************************)
(* The tunnel's own evidence, bound to the host alone.  Whether a hint is  *)
(* still live is left open.                                                *)
(***************************************************************************)
HintFor(from, live) ==
  IF evidence # None /\ live /\ Host(evidence.from) = Host(from)
  THEN evidence.protocol ELSE None

Observed(l, protocol, live) ==
  IF learned = None /\ HintFor(handlers[l].to, live) = None
  THEN [from |-> handlers[l].to, protocol |-> protocol, via |-> l] ELSE evidence

(***************************************************************************)
(* commit_with_imitation: an initiation accepted in Auto mode adopts the   *)
(* hint, else what its own datagram looks like, unless the policy refuses  *)
(* it; a commit that fails takes the adoption back.                        *)
(***************************************************************************)
Adopted(kind, hint, ok) ==
  IF ok /\ config.auto /\ learned = None /\ kind = "Init"
     /\ hint # None /\ hint \notin config.refuses
  THEN hint ELSE learned

KeptEvidence(kind, hint, ok) ==
  IF Adopted(kind, hint, ok) # learned THEN None ELSE evidence

\* commit_data and commit_handshake_response grow the window by the frame.
Grown(w, kind, from) ==
  IF kind \in {"Data", "Response"} THEN w \cup {from} ELSE w

(***************************************************************************)
(* commit_anonymous: a new source starts the window afresh before the      *)
(* commit, and a refused commit puts the old one back.                     *)
(***************************************************************************)
CommittedWindow(kind, from, ok) ==
  IF MovesEndpoint(kind) /\ addr # from
  THEN IF ok THEN Grown({}, kind, from) ELSE window
  ELSE Grown(window, kind, from)

CommittedEvidence(kind, from, hint, ok) ==
  IF MovesEndpoint(kind) /\ addr # from /\ ok THEN None ELSE KeptEvidence(kind, hint, ok)

Shut(l) == IF l = 0 THEN handlers ELSE [handlers EXCEPT ![l].open = FALSE]

(***************************************************************************)
(* move_endpoint: a new address retires the connected socket and lifts the *)
(* suppression of upgrades.                                                *)
(***************************************************************************)
MoveEndpoint(to) ==
  IF addr = to
  THEN UNCHANGED <<addr, conn, suppressed, since, handlers>>
  ELSE /\ addr' = to /\ conn' = 0 /\ suppressed' = None /\ since' = sockets + 1
       /\ handlers' = Shut(conn)

Since(to) == IF addr = to THEN since ELSE sockets + 1

ShutdownEndpoint == conn' = 0 /\ handlers' = Shut(conn)

(***************************************************************************)
(* A listener packet that authenticated: committed, then, if it moved the  *)
(* endpoint, the upgrade to a connected socket.                            *)
(***************************************************************************)
Commit(from, kind, hint, ok) ==
  /\ window' = CommittedWindow(kind, from, ok)
  /\ evidence' = CommittedEvidence(kind, from, hint, ok)
  /\ learned' = Adopted(kind, hint, ok)
  /\ UNCHANGED config

ListenerRefused(from, kind, hint) ==
  /\ kind # "Cookie"
  /\ Commit(from, kind, hint, FALSE)
  /\ UNCHANGED <<endpointVars, disabled, handlers, sockets>>

ListenerCookie(from) ==
  /\ Commit(from, "Cookie", None, TRUE)
  /\ UNCHANGED <<endpointVars, disabled, handlers, sockets>>

\* No upgrade is tried: the gates are closed, or a socket is in place.
ListenerAccepted(from, kind, hint) ==
  /\ MovesEndpoint(kind)
  /\ disabled \/ (suppressed # None /\ addr = from) \/ (conn # 0 /\ addr = from)
  /\ Commit(from, kind, hint, TRUE)
  /\ MoveEndpoint(from)
  /\ UNCHANGED <<lifetime, disabled, sockets>>

Upgrades(from, kind) ==
  /\ MovesEndpoint(kind)
  /\ ~disabled /\ ~(suppressed # None /\ addr = from) /\ ~(conn # 0 /\ addr = from)

\* connect_endpoint fails: exhaustion gates the listener, else the address.
UpgradeFails(from, kind, hint, exhausted) ==
  /\ Upgrades(from, kind)
  /\ Commit(from, kind, hint, TRUE)
  /\ addr' = from /\ conn' = 0 /\ since' = Since(from)
  /\ handlers' = Shut(conn)
  /\ disabled' = exhausted
  /\ suppressed' = IF exhausted THEN None ELSE from
  /\ UNCHANGED <<lifetime, sockets>>

\* The refused registration leaves the socket in the endpoint.
UpgradeUnregisteredKept(from, kind, hint) ==
  /\ Upgrades(from, kind) /\ sockets < MaxConns
  /\ Commit(from, kind, hint, TRUE)
  /\ addr' = from /\ suppressed' = None /\ since' = Since(from)
  /\ sockets' = sockets + 1
  /\ lifetime' = sockets + 1 /\ conn' = sockets + 1
  /\ handlers' = Shut(conn)
  /\ disabled' = TRUE

\* The poller refuses the handler: the connection is rolled back.
UpgradeUnregistered(from, kind, hint) ==
  /\ Upgrades(from, kind) /\ sockets < MaxConns
  /\ Commit(from, kind, hint, TRUE)
  /\ addr' = from /\ suppressed' = None /\ since' = Since(from)
  /\ sockets' = sockets + 1
  /\ lifetime' = sockets + 1 /\ conn' = 0
  /\ handlers' = Shut(conn)
  /\ disabled' = TRUE

Upgraded(from, kind, hint) ==
  /\ Upgrades(from, kind) /\ sockets < MaxConns
  /\ Commit(from, kind, hint, TRUE)
  /\ addr' = from /\ suppressed' = None /\ since' = Since(from)
  /\ sockets' = sockets + 1
  /\ lifetime' = sockets + 1 /\ conn' = sockets + 1
  /\ handlers' = [Shut(conn) EXCEPT ![sockets + 1] =
                    [at |-> "armed", to |-> from, open |-> TRUE]]
  /\ UNCHANGED disabled

(***************************************************************************)
(* The connected socket's handler: a dispatch receives datagrams until the *)
(* queue is empty or the socket turns out to be retired.  A shut socket is *)
(* not dispatched, but a dispatch under way may still receive from it.     *)
(***************************************************************************)
Receive(l) ==
  /\ \/ handlers[l].at = "armed" /\ handlers[l].open
     \/ handlers[l].at = "running"
  /\ handlers' = [handlers EXCEPT ![l].at = "holding"]
  /\ UNCHANGED <<endpointVars, disabled, tunnVars, config, sockets>>

EndOfBatch(l) ==
  /\ handlers[l].at = "running"
  /\ handlers' = [handlers EXCEPT ![l].at = "armed"]
  /\ UNCHANGED <<endpointVars, disabled, tunnVars, config, sockets>>

\* Only the address is compared.
IsCurrentByAddress(l) == conn # 0 /\ addr = handlers[l].to

IsCurrentConnection(l) == conn # 0 /\ addr = handlers[l].to /\ lifetime = l

HandleStale(l) ==
  /\ handlers[l].at = "holding"
  /\ ~IsCurrentConnection(l)
  /\ handlers' = [handlers EXCEPT ![l].at = "armed"]
  /\ UNCHANGED <<endpointVars, disabled, tunnVars, config, sockets>>

HandleRefused(l) ==
  /\ handlers[l].at = "holding"
  /\ IsCurrentConnection(l)
  /\ handlers' = [handlers EXCEPT ![l].at = "running"]
  /\ UNCHANGED <<endpointVars, disabled, tunnVars, config, sockets>>

HandlePrelude(l, protocol, live) ==
  /\ handlers[l].at = "holding"
  /\ IsCurrentConnection(l)
  /\ config.auto
  /\ evidence' = Observed(l, protocol, live)
  /\ handlers' = [handlers EXCEPT ![l].at = "running"]
  /\ UNCHANGED <<endpointVars, disabled, window, learned, config, sockets>>

HandlePacket(l, kind, seen, live, ok) ==
  LET from == handlers[l].to
      hint == IF HintFor(from, live) # None THEN HintFor(from, live) ELSE seen
  IN  /\ handlers[l].at = "holding"
      /\ IsCurrentConnection(l)
      /\ window' = Grown(window, kind, from)
      /\ evidence' = KeptEvidence(kind, hint, ok)
      /\ learned' = Adopted(kind, hint, ok)
      /\ handlers' = [handlers EXCEPT ![l].at = "running"]
      /\ UNCHANGED <<endpointVars, disabled, config, sockets>>

\* Only the newest socket's hang-up is acted on.
ReclaimNewest(l) ==
  /\ l = lifetime
  /\ handlers[l].at = "armed" /\ ~handlers[l].open
  /\ handlers' = [handlers EXCEPT ![l] = Gone]
  /\ UNCHANGED <<endpointVars, disabled, tunnVars, config, sockets>>

\* EPOLLHUP of a shut socket: the handler is cancelled and freed.
Reclaim(l) ==
  /\ handlers[l].at = "armed" /\ ~handlers[l].open
  /\ handlers' = [handlers EXCEPT ![l] = Gone]
  /\ UNCHANGED <<endpointVars, disabled, tunnVars, config, sockets>>

(***************************************************************************)
(* Sending observes the frame whatever the endpoint; an expired connection *)
(* gives its socket back.                                                  *)
(***************************************************************************)
Send ==
  /\ window' = window \cup {addr}
  /\ UNCHANGED <<endpointVars, disabled, evidence, learned, config, handlers, sockets>>

ConnectionExpired ==
  /\ addr # None
  /\ ShutdownEndpoint
  /\ UNCHANGED <<addr, lifetime, suppressed, since, disabled, tunnVars, config, sockets>>

Quiet == \A l \in 1..MaxConns : handlers[l].at \in {"armed", "gone"}

\* merge_peer with an endpoint.
MergeEndpoint(to) ==
  /\ Quiet
  /\ evidence' = IF addr # to THEN None ELSE evidence
  /\ window' = IF addr # to THEN {} ELSE window
  /\ MoveEndpoint(to)
  /\ UNCHANGED <<lifetime, disabled, learned, config, sockets>>

\* A new listen port: fresh listeners, and every connected socket goes.
Rebind ==
  /\ Quiet
  /\ ShutdownEndpoint
  /\ disabled' = FALSE
  /\ UNCHANGED <<addr, lifetime, suppressed, since, tunnVars, config, sockets>>

SetKey ==
  /\ Quiet
  /\ evidence' = None /\ learned' = None
  /\ UNCHANGED <<endpointVars, disabled, window, config, handlers, sockets>>

\* apply_obfuscation's part in the camouflage; other parameters may be all that changed.
\* Settings that differ only elsewhere still drop the evidence; equal ones do not.
SetObfuscation(c) ==
  /\ Quiet
  /\ config' = c
  /\ evidence' \in IF config.auto /\ c = config THEN {None, evidence} ELSE {None}
  /\ learned' = IF config.auto /\ c.auto /\ learned \notin c.refuses THEN learned ELSE None
  /\ UNCHANGED <<endpointVars, disabled, window, handlers, sockets>>

ListenerNext ==
  \E from \in Addrs, kind \in Kinds, hint \in Protocols \cup {None} :
    \/ ListenerRefused(from, kind, hint)
    \/ ListenerAccepted(from, kind, hint)
    \/ \E exhausted \in BOOLEAN : UpgradeFails(from, kind, hint, exhausted)
    \/ UpgradeUnregistered(from, kind, hint)
    \/ Upgraded(from, kind, hint)

HandlerNext ==
  \E l \in 1..MaxConns :
    \/ Receive(l) \/ EndOfBatch(l) \/ Reclaim(l)
    \/ HandleStale(l) \/ HandleRefused(l)
    \/ \E p \in Protocols, live \in BOOLEAN : HandlePrelude(l, p, live)
    \/ \E kind \in Kinds, seen \in Protocols \cup {None}, live, ok \in BOOLEAN :
         HandlePacket(l, kind, seen, live, ok)

AdminNext ==
  \/ \E to \in Addrs : MergeEndpoint(to)
  \/ Rebind \/ SetKey
  \/ \E c \in [auto: BOOLEAN, refuses: SUBSET Protocols] : SetObfuscation(c)

Next ==
  \/ ListenerNext \/ HandlerNext \/ AdminNext
  \/ \E from \in Addrs : ListenerCookie(from)
  \/ Send \/ ConnectionExpired

(***************************************************************************)
(* A dispatched handler returns, and epoll keeps reporting the hang-up of  *)
(* a shut socket to the waiting workers until its handler is cancelled.    *)
(***************************************************************************)
Fairness ==
  \A l \in 1..MaxConns :
    WF_vars(EndOfBatch(l)) /\ WF_vars(HandleStale(l)) /\ WF_vars(Reclaim(l))

Spec == Init /\ [][Next]_vars /\ Fairness

-----------------------------------------------------------------------------
(* Types of the endpoint, the tunnel's path state and the handlers. *)
TypeOK ==
  /\ addr \in Addrs \cup {None} /\ suppressed \in Addrs \cup {None}
  /\ {conn, lifetime, sockets} \subseteq 0..MaxConns
  /\ since \in 1..(MaxConns + 1)
  /\ disabled \in BOOLEAN
  /\ window \subseteq Addrs \cup {None}
  /\ evidence \in Evidence \cup {None}
  /\ learned \in Protocols \cup {None}
  /\ config \in [auto: BOOLEAN, refuses: SUBSET Protocols]
  /\ handlers \in [1..MaxConns -> {Gone} \cup
       [at: {"armed", "running", "holding"}, to: Addrs, open: BOOLEAN]]

(***************************************************************************)
(* Outside the peer's lock, what is kept about the path is about the       *)
(* endpoint.  The UDP window has grown from no other path's frames,        *)
(* through roams, refused commits, configured moves and datagrams a        *)
(* retired socket still held (peer.rs:206).  Unverified evidence arrived   *)
(* on this endpoint, host and port, although the tunnel itself compares    *)
(* hosts, and on a socket opened since the peer last moved here: what a    *)
(* socket received before a roam away and back is not evidence             *)
(* (peer.rs:105).  Upgrades are suppressed for no other address, so a roam *)
(* tries again.                                                            *)
(***************************************************************************)
PathFollowsEndpoint ==
  /\ window \subseteq {addr}
  /\ evidence # None => evidence.from = addr /\ evidence.via >= since
  /\ suppressed # None => suppressed = addr

(***************************************************************************)
(* A connected socket in the endpoint is served: its own handler is        *)
(* registered, its socket is open and connected to the endpoint.  Anything *)
(* else is a blackhole, since the kernel prefers it to the listener.  And  *)
(* no other is open: every roam, expiry and rebind shuts the old one.      *)
(***************************************************************************)
ConnectedIsServed ==
  /\ conn # 0 =>
       /\ lifetime = conn
       /\ handlers[conn].at # "gone" /\ handlers[conn].open
       /\ handlers[conn].to = addr
  /\ \A l \in 1..MaxConns : handlers[l].open => conn = l

(***************************************************************************)
(* A learned protocol is one the configuration in force lets through:      *)
(* only in Auto mode, and never one header protection refuses.             *)
(***************************************************************************)
LearnedIsAllowed == learned # None => config.auto /\ learned \notin config.refuses

(***************************************************************************)
(* A handler whose socket was taken away is freed in the end, with its     *)
(* socket and its reference to the peer.                                   *)
(***************************************************************************)
RetiredHandlersReclaimed ==
  \A l \in 1..MaxConns :
    (handlers[l].at # "gone" /\ ~handlers[l].open) ~> (handlers[l].at = "gone")
=============================================================================
