---------------------------- MODULE UdpDiagnostics ----------------------------
(***************************************************************************)
(* What the device reports about its UDP sockets                           *)
(* (device/udp_diagnostics.rs): socket generations, each peer's two        *)
(* failure episodes, the cooldowns and the listeners' error latches.       *)
(*                                                                         *)
(* A send and its observation are one step under the peer's mutex.  A      *)
(* receive on a connected socket fails before the mutex is taken: the peer *)
(* may have moved or reconnected when the error is observed.  Listeners    *)
(* are replaced under the device's write lock, when no handler is running. *)
(* Errors are told apart as far as the policy does: Transient, Lifecycle,  *)
(* and Actionable for size, route, refusal, policy and unknown.            *)
(***************************************************************************)
EXTENDS Integers

CONSTANTS
  Peers,
  Addrs,          \* destinations
  Family(_),      \* the family of an address: 4 or 6
  Scenes,         \* bounds: what a behaviour uses, see Scene
  Cooldown,       \* WARN_COOLDOWN and ERROR_COOLDOWN
  MaxFailures,    \* u32::MAX, where the count of failures stays
  None,
  MaxTime         \* bound: the clock

Classes == {"Transient", "Lifecycle", "Actionable"}
ConnectedSites == {"ConnectedReply", "ConnectedFlush", "TunConnected"}
\* last: u64::MAX, the last generation
Scene ==
  [peers: SUBSET Peers, addrs: SUBSET Addrs, sites: SUBSET ConnectedSites,
   classes: SUBSET Classes, last: Nat \ {0}]

VARIABLES
  now,
  next,           \* GenAllocator::next, 0 once spent
  listener,       \* the generation of each family's listener
  latch,          \* listener_error_latch
  untracked,      \* untracked_listener_error: when, or None
  conn,           \* each peer's connected_generation(), None without a socket
  episode, lastWarn, lastError,   \* each peer's PeerUdpDiagnostics: two episodes, two cooldowns
  handlers,       \* live handlers of connected sockets: peer and generation
  failing,        \* receives that failed and were not observed yet
  line,           \* the line the last step logged, or None
  warned,         \* history: when each peer last WARNed, or None
  errors,         \* history: the tracked generations that ERRORed
  refused,        \* history: what failed last on each peer's sockets and has not sent since
  scene           \* the peers, destinations, sites and errors of this behaviour

diag == <<episode, lastWarn, lastError>>
vars == <<now, next, listener, latch, untracked, conn, diag, handlers, failing, line,
          warned, errors, refused, scene>>

Untracked == 0
Families == {4, 6}
Sockets == {"connected", "listener"}
Tracked(g) == g # Untracked
Identity(target) == [gen |-> target.gen, to |-> target.to]
NoEpisode == [id |-> None, active |-> FALSE, announced |-> FALSE, latched |-> FALSE, failures |-> 0]
Episode(id) == [NoEpisode EXCEPT !.id = id]
NoLine == [kind |-> None]

\* Connected targets have no destination in their identity.
Connected(g) == [socket |-> "connected", gen |-> g, to |-> None]
Listener(f, to) == [socket |-> "listener", gen |-> listener[f], to |-> to]

Init ==
  /\ now = 0 /\ next = 3
  /\ listener = [f \in Families |-> IF f = 4 THEN 1 ELSE 2]
  /\ latch = [f \in Families |-> 0] /\ untracked = [f \in Families |-> None]
  /\ conn = [p \in Peers |-> None]
  /\ episode = [p \in Peers |-> [s \in Sockets |-> NoEpisode]]
  /\ lastWarn = [p \in Peers |-> None] /\ lastError = [p \in Peers |-> None]
  /\ handlers = {} /\ failing = {} /\ line = NoLine
  /\ warned = [p \in Peers |-> None] /\ errors = {}
  /\ refused = [p \in Peers |-> [s \in Sockets |-> None]]
  /\ scene \in Scenes

-----------------------------------------------------------------------------
\* The allocator after handing out n: spent after u64::MAX, and for good.
Allocated(n) == IF n = 0 \/ n = scene.last THEN 0 ELSE n + 1

Opens(anchor) == IF anchor = None THEN TRUE ELSE now - anchor >= Cooldown

\* listener_error_first, when it grants the ERROR.
ListenerErrorFirst(f, g) ==
  IF Tracked(g)
  THEN latch[f] # g /\ latch' = [latch EXCEPT ![f] = g] /\ UNCHANGED untracked
  ELSE Opens(untracked[f]) /\ untracked' = [untracked EXCEPT ![f] = now] /\ UNCHANGED latch

ListenerErrorLater(f, g) ==
  /\ IF Tracked(g) THEN latch[f] = g ELSE ~Opens(untracked[f])
  /\ UNCHANGED <<latch, untracked>>

\* What the step logged, and the histories kept of it.
Logs(kind, p, target) ==
  /\ line' = [kind |-> kind, peer |-> p, target |-> target]
  /\ warned' = IF kind = "Warn" THEN [warned EXCEPT ![p] = now] ELSE warned
  /\ errors' = IF kind = "Error" /\ Tracked(target.gen) THEN errors \cup {target.gen} ELSE errors

(***************************************************************************)
(* failure: the episode of a tracked socket, under the peer's mutex.       *)
(***************************************************************************)
Rekeyed(rec, id) ==
  LET own == IF rec.id = id THEN rec ELSE Episode(id)
      live == IF own.active THEN own ELSE [own EXCEPT !.active = TRUE, !.announced = FALSE, !.failures = 0]
  IN [live EXCEPT !.failures = IF @ = MaxFailures THEN @ ELSE @ + 1]

\* The lifecycle ERROR of a connected socket: once per socket, and per cooldown.
ConnectedError(p, target) ==
  LET rec == Rekeyed(episode[p]["connected"], Identity(target))
      first == ~rec.latched /\ Opens(lastError[p])
  IN /\ episode' = [episode EXCEPT ![p]["connected"] =
                       IF first THEN [rec EXCEPT !.latched = TRUE, !.announced = TRUE] ELSE rec]
     /\ lastError' = IF first THEN [lastError EXCEPT ![p] = now] ELSE lastError
     /\ Logs(IF first THEN "Error" ELSE "Debug", p, target)
     /\ UNCHANGED lastWarn

ListenerError(p, f, target) ==
  LET rec == Rekeyed(episode[p]["listener"], Identity(target)) IN
  /\ \/ /\ ListenerErrorFirst(f, target.gen)
        /\ episode' = [episode EXCEPT ![p]["listener"] = [rec EXCEPT !.announced = TRUE]]
        /\ Logs("Error", p, target)
     \/ /\ ListenerErrorLater(f, target.gen)
        /\ episode' = [episode EXCEPT ![p]["listener"] = rec]
        /\ Logs("Debug", p, target)
  /\ UNCHANGED <<lastWarn, lastError>>

\* Only errors of a peer's own path, and only one per cooldown, are WARNings.
Counted(p, target, warns) ==
  LET rec == Rekeyed(episode[p][target.socket], Identity(target))
      warn == warns /\ Opens(lastWarn[p])
  IN /\ episode' = [episode EXCEPT ![p][target.socket] =
                       IF warn THEN [rec EXCEPT !.announced = TRUE] ELSE rec]
     /\ lastWarn' = IF warn THEN [lastWarn EXCEPT ![p] = now] ELSE lastWarn
     /\ Logs(IF warn THEN "Warn" ELSE "Debug", p, target)
     /\ UNCHANGED lastError

\* untracked_line: the same severities and cooldowns, without an episode.
UntrackedFailure(p, f, target, class, warns) ==
  IF class # "Lifecycle"
  THEN LET warn == warns /\ Opens(lastWarn[p]) IN
       /\ lastWarn' = IF warn THEN [lastWarn EXCEPT ![p] = now] ELSE lastWarn
       /\ Logs(IF warn THEN "Warn" ELSE "Debug", p, target)
       /\ UNCHANGED <<episode, lastError, latch, untracked>>
  ELSE IF target.socket = "connected"
  THEN LET first == Opens(lastError[p]) IN
       /\ lastError' = IF first THEN [lastError EXCEPT ![p] = now] ELSE lastError
       /\ Logs(IF first THEN "Error" ELSE "Debug", p, target)
       /\ UNCHANGED <<episode, lastWarn, latch, untracked>>
  ELSE /\ UNCHANGED diag
       /\ \/ ListenerErrorFirst(f, target.gen) /\ Logs("Error", p, target)
          \/ ListenerErrorLater(f, target.gen) /\ Logs("Debug", p, target)

Failure(p, f, target, class, eligible) ==
  LET warns == eligible /\ class = "Actionable" IN
  /\ refused' = [refused EXCEPT ![p][target.socket] = IF Tracked(target.gen) THEN Identity(target) ELSE @]
  /\ IF ~Tracked(target.gen) THEN UntrackedFailure(p, f, target, class, warns)
     ELSE IF class # "Lifecycle" THEN Counted(p, target, warns) /\ UNCHANGED <<latch, untracked>>
     ELSE IF target.socket = "connected"
     THEN ConnectedError(p, target) /\ UNCHANGED <<latch, untracked>>
     ELSE ListenerError(p, f, target)

\* Teardown and a transient receive leave nothing but a DEBUG line.
Unrecorded(p, target) ==
  Logs("Debug", p, target) /\ UNCHANGED <<diag, latch, untracked, refused>>

Sent(p, target) ==
  refused' = [refused EXCEPT ![p][target.socket] = IF @ = Identity(target) THEN None ELSE @]

\* The episode goes on under the destination that was sent to.
SuccessKeeps(p, target) ==
  LET rec == episode[p][target.socket]
      id == Identity(target)
  IN /\ Sent(p, target)
     /\ episode' = IF ~rec.active \/ ~Tracked(target.gen) THEN episode
                   ELSE IF rec.id = id
                   THEN [episode EXCEPT ![p][target.socket] = [rec EXCEPT !.active = FALSE]]
                   ELSE [episode EXCEPT ![p]["listener"] = [rec EXCEPT !.id = id]]
     /\ line' = NoLine
     /\ UNCHANGED <<lastWarn, lastError, latch, untracked, warned, errors>>

(***************************************************************************)
(* A success: a recovery when it is the failing socket's own; a listener's *)
(* record moves to the destination that was sent to.                       *)
(***************************************************************************)
Success(p, target) ==
  LET rec == episode[p][target.socket]
      id == Identity(target)
  IN /\ Sent(p, target)
     /\ IF ~rec.active \/ ~Tracked(target.gen)
        THEN UNCHANGED episode
        ELSE IF rec.id = id
        THEN episode' = [episode EXCEPT ![p][target.socket] =
                           [rec EXCEPT !.active = FALSE, !.announced = FALSE, !.failures = 0]]
        ELSE episode' = IF target.socket = "listener"
                        THEN [episode EXCEPT ![p]["listener"] = Episode(id)] ELSE episode
     /\ line' = NoLine
     /\ UNCHANGED <<lastWarn, lastError, latch, untracked, warned, errors>>

-----------------------------------------------------------------------------
(***************************************************************************)
(* The steps.  Timers, flushes, handshake replies and the tunnel's packets *)
(* send through a listener on a configured peer's path.  A listener that   *)
(* does not exist answers ENETUNREACH, which is Actionable.                *)
(***************************************************************************)
ListenerSend(p, to) ==
  LET target == Listener(Family(to), to) IN
  /\ \/ Success(p, target)
     \/ \E class \in scene.classes : Failure(p, Family(to), target, class, TRUE)
  /\ UNCHANGED <<now, next, listener, conn, handlers, failing>>

\* A handler's reply or flush; it may have outlived the peer's use of its socket.
ConnectedSend(p, g, site) ==
  /\ <<p, g>> \in handlers
  /\ \/ Success(p, Connected(g))
     \/ IF conn[p] # g THEN Unrecorded(p, Connected(g))
        ELSE \E class \in scene.classes : Failure(p, 4, Connected(g), class, site # "ConnectedReply")
  /\ UNCHANGED <<now, next, listener, conn, handlers, failing>>

TunConnected(p) ==
  /\ conn[p] # None
  /\ \/ Success(p, Connected(conn[p]))
     \/ \E class \in scene.classes : Failure(p, 4, Connected(conn[p]), class, TRUE)
  /\ UNCHANGED <<now, next, listener, conn, handlers, failing>>

\* conn_recv_step, before and after it takes the peer's mutex.
RecvFails(p, g, class) ==
  /\ <<p, g>> \in handlers /\ ~\E e \in failing : e[1] = p /\ e[2] = g
  /\ failing' = failing \cup {<<p, g, class>>}
  /\ line' = NoLine
  /\ UNCHANGED <<now, next, listener, latch, untracked, conn, diag, handlers, warned, errors, refused>>

\* Whether the socket is retired is not asked again under the mutex.
RecvObservedStale(e) ==
  /\ e \in failing /\ failing' = failing \ {e}
  /\ IF e[3] = "Transient" THEN Unrecorded(e[1], Connected(e[2]))
     ELSE Failure(e[1], 4, Connected(e[2]), e[3], TRUE)
  /\ UNCHANGED <<now, next, listener, conn, handlers>>

RecvObserved(e) ==
  /\ e \in failing /\ failing' = failing \ {e}
  /\ IF conn[e[1]] # e[2] \/ e[3] = "Transient" THEN Unrecorded(e[1], Connected(e[2]))
     ELSE Failure(e[1], 4, Connected(e[2]), e[3], TRUE)
  /\ UNCHANGED <<now, next, listener, conn, handlers>>

\* Probe and cookie replies: no peer, no episode, no WARN.
Unauthenticated(f, class) ==
  LET target == Listener(f, None) IN
  /\ \/ class = "Lifecycle" /\ ListenerErrorFirst(f, listener[f]) /\ Logs("Error", None, target)
     \/ class = "Lifecycle" /\ ListenerErrorLater(f, listener[f]) /\ Logs("Debug", None, target)
     \/ class # "Lifecycle" /\ Logs("Debug", None, target) /\ UNCHANGED <<latch, untracked>>
  /\ UNCHANGED <<now, next, listener, conn, diag, handlers, failing, refused>>

\* replace_connected: the record is the new socket's; the cooldowns stay.
ReplaceConnected(p, g) ==
  /\ episode' = [episode EXCEPT ![p]["connected"] =
                    IF Tracked(g) THEN Episode(Identity(Connected(g))) ELSE NoEpisode]
  /\ UNCHANGED <<lastWarn, lastError>>

\* The upgrade; a refused registration takes the socket back, not its generation.
Connect(p) ==
  /\ scene.sites # {} /\ conn[p] = None
  /\ next' = Allocated(next)
  /\ ReplaceConnected(p, next)
  /\ \/ conn' = [conn EXCEPT ![p] = next] /\ handlers' = handlers \cup {<<p, next>>}
     \/ UNCHANGED <<conn, handlers>>
  /\ line' = NoLine
  /\ UNCHANGED <<now, listener, latch, untracked, failing, warned, errors, refused>>

\* A roam, an expiry or a new listen port; the handler goes when it notices.
Retire(p) ==
  /\ conn[p] # None /\ conn' = [conn EXCEPT ![p] = None] /\ line' = NoLine
  /\ UNCHANGED <<now, next, listener, latch, untracked, diag, handlers, failing, warned, errors, refused>>

HandlerEnds(h) ==
  /\ h \in handlers /\ conn[h[1]] # h[2] /\ ~\E e \in failing : <<e[1], e[2]>> = h
  /\ handlers' = handlers \ {h} /\ line' = NoLine
  /\ UNCHANGED <<now, next, listener, latch, untracked, conn, diag, failing, warned, errors, refused>>

\* open_listen_socket, with no handler running.
Rebind ==
  /\ failing = {}
  /\ listener' = [f \in Families |-> IF f = 4 THEN next ELSE Allocated(next)]
  /\ next' = Allocated(Allocated(next))
  /\ conn' = [p \in Peers |-> None] /\ line' = NoLine
  /\ UNCHANGED <<now, latch, untracked, diag, handlers, failing, warned, errors, refused>>

Tick ==
  /\ now < MaxTime /\ now' = now + 1 /\ line' = NoLine
  /\ UNCHANGED <<next, listener, latch, untracked, conn, diag, handlers, failing, warned, errors, refused>>

Next ==
  /\ \/ \E p \in scene.peers : \/ \E to \in scene.addrs : ListenerSend(p, to)
                               \/ Connect(p) \/ Retire(p)
     \/ "TunConnected" \in scene.sites /\ \E p \in scene.peers : TunConnected(p)
     \/ \E h \in handlers :
          \/ \E site \in scene.sites \ {"TunConnected"} : ConnectedSend(h[1], h[2], site)
          \/ \E class \in scene.classes : RecvFails(h[1], h[2], class)
          \/ HandlerEnds(h)
     \/ \E e \in failing : RecvObserved(e)
     \/ \E to \in scene.addrs, class \in scene.classes : Unauthenticated(Family(to), class)
     \/ Rebind \/ Tick
  /\ UNCHANGED scene

Spec == Init /\ [][Next]_vars

-----------------------------------------------------------------------------
\* An episode is open only while its own socket and destination have failed
\* since they last sent, so "acceptance resumed" is never said of another.
EpisodesAreTrue ==
  \A p \in Peers, s \in Sockets :
    episode[p][s].active => episode[p][s].id = refused[p][s]

\* What is said above DEBUG is worth saying.  A peer WARNs at most once per
\* cooldown, over both its episodes, its recoveries, its moves and its new
\* sockets.  A tracked socket's lifecycle ERROR is logged once: a listener's
\* once for all the peers and replies that meet it, a connected socket's once
\* however often it fails and recovers.  And nothing is said of a connected
\* socket its peer no longer uses, unless generations are spent and no longer
\* tell sockets apart.
LinesAreDue ==
  [][/\ line'.kind = "Warn" =>
          warned[line'.peer] = None \/ now - warned[line'.peer] >= Cooldown
     /\ line'.kind = "Error" => line'.target.gen \notin errors
     /\ line'.kind \in {"Warn", "Error"} /\ line'.target.socket = "connected"
          /\ Tracked(line'.target.gen)
        => conn[line'.peer] = line'.target.gen]_vars
===============================================================================
