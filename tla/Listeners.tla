------------------------------ MODULE Listeners ------------------------------
(***************************************************************************)
(* The device's UDP listeners and socket marks: open_listen_socket and     *)
(* set_fwmark (device/mod.rs), each under the device's write lock, and the *)
(* connected sockets opened and retired between them (device/peer.rs).     *)
(*                                                                         *)
(* Every call into the kernel is a step that may be refused.  A listener   *)
(* is registered through a clone, and socket options belong to the socket, *)
(* which a clone shares: a handler is the socket whose clone it holds.  So *)
(* a connected socket outlives the endpoint that shuts it down, until the  *)
(* event loop drops its handler.                                           *)
(***************************************************************************)
EXTENDS Integers, Sequences, FiniteSets

CONSTANTS
  Ports,          \* the ports that can be asked for or given out
  Marks,          \* the values fwmark= can carry, 0 among them
  Peers,
  NoMark,         \* no fwmark was ever set
  MaxSockets      \* bound: sockets open at once

ASSUME ListenersAssumption ==
  /\ 0 \notin Ports /\ 0 \in Marks /\ NoMark \notin Marks
  /\ MaxSockets \in Nat

VARIABLES
  sockets,        \* by descriptor: the port and mark of every open socket
  udp4, udp6,     \* Device::udp4, udp6: a descriptor or 0
  fds,            \* udp_listener_fds
  events,         \* listener handlers registered with the queue
  listenPort,     \* listen_port
  conns,          \* each peer's Endpoint::conn, or 0
  retired,        \* connected sockets shut down, open in their handlers
  fwmark,         \* Device::fwmark
  call,           \* the operation in progress and its locals
  before,         \* history: what an open_listen_socket in progress found
  stuck           \* history: sockets that refused to be put back on their mark

vars ==
  <<sockets, udp4, udp6, fds, events, listenPort, conns, retired, fwmark, call, before, stuck>>

Descriptors == 1..MaxSockets
Closed == [port |-> 0, mark |-> 0]
Open == {s \in Descriptors : sockets[s] # Closed}
CanOpen == Open # Descriptors
Unused == CHOOSE s \in Descriptors \ Open : TRUE
Idle == [op |-> "idle"]
StoredMark == IF fwmark = NoMark THEN 0 ELSE fwmark
Pair(a, b) == {a, b} \ {0}
OpenSocket(port, mark) == [sockets EXCEPT ![Unused] = [port |-> port, mark |-> mark]]
Close(ss) == [s \in Descriptors |-> IF s \in ss THEN Closed ELSE sockets[s]]

\* What a refused listen_port= must leave alone.
Visible ==
  [udp4 |-> udp4, udp6 |-> udp6, fds |-> fds, events |-> events, port |-> listenPort,
   conns |-> conns, marks |-> [s \in Pair(udp4, udp6) |-> sockets[s].mark]]

\* DeviceHandle::new opens the first pair: the device starts without one.
Init ==
  /\ sockets = [s \in Descriptors |-> Closed]
  /\ udp4 = 0 /\ udp6 = 0 /\ fds = {} /\ events = {} /\ listenPort = 0
  /\ conns = [p \in Peers |-> 0] /\ retired = {} /\ fwmark = NoMark
  /\ call = Idle /\ before = <<>> /\ stuck = {}

-----------------------------------------------------------------------------
(***************************************************************************)
(* open_listen_socket                                                      *)
(***************************************************************************)
\* An explicit port already held is left as it is.
Held(port) ==
  port # 0 /\ port = listenPort /\ udp4 # 0 /\ Cardinality(fds) = Cardinality(Pair(udp4, udp6))

Listen(port) ==
  /\ call = Idle /\ ~Held(port)
  /\ call' = [op |-> "bind4", want |-> port, c4 |-> 0, c6 |-> 0]
  /\ before' = Visible
  /\ UNCHANGED <<sockets, udp4, udp6, fds, events, listenPort, conns, retired, fwmark, stuck>>

\* The candidates close; what was registered for them is the caller's to undo.
Refuse(unregistered) ==
  /\ sockets' = Close(Pair(call.c4, call.c6))
  /\ events' = events \ unregistered
  /\ call' = [op |-> "refused"]
  /\ UNCHANGED <<udp4, udp6, fds, listenPort, conns, retired, fwmark, before, stuck>>

\* Port 0 asks the kernel for one.
Bind4(port) ==
  /\ call.op = "bind4" /\ call.want \in {0, port} /\ CanOpen
  /\ sockets' = OpenSocket(port, 0)
  /\ call' = [call EXCEPT !.op = "bind6", !.want = port, !.c4 = Unused]
  /\ UNCHANGED <<udp4, udp6, fds, events, listenPort, conns, retired, fwmark, before, stuck>>

Bind6 ==
  /\ call.op = "bind6" /\ CanOpen
  /\ sockets' = OpenSocket(call.want, 0)
  /\ call' = [call EXCEPT !.op = "mark", !.c6 = Unused]
  /\ UNCHANGED <<udp4, udp6, fds, events, listenPort, conns, retired, fwmark, before, stuck>>

\* Only socket() refused for its family means a host without IPv6.
Ipv6Unavailable ==
  /\ call.op = "bind6"
  /\ call' = [call EXCEPT !.op = "mark"]
  /\ UNCHANGED <<sockets, udp4, udp6, fds, events, listenPort, conns, retired, fwmark, before, stuck>>

\* mark_listener on each candidate, then the clones.
MarkCandidates ==
  /\ call.op = "mark"
  /\ sockets' = [s \in Descriptors |->
       IF s \in Pair(call.c4, call.c6) THEN [sockets[s] EXCEPT !.mark = StoredMark] ELSE sockets[s]]
  /\ call' = [call EXCEPT !.op = "register4"]
  /\ UNCHANGED <<udp4, udp6, fds, events, listenPort, conns, retired, fwmark, before, stuck>>

Prepare == (\E port \in Ports : Bind4(port)) \/ Bind6 \/ Ipv6Unavailable \/ MarkCandidates

PrepareRefused == call.op \in {"bind4", "bind6", "mark", "register4"} /\ Refuse({})

Register4 ==
  /\ call.op = "register4"
  /\ events' = events \cup {call.c4}
  /\ call' = [call EXCEPT !.op = IF call.c6 = 0 THEN "commit" ELSE "register6"]
  /\ UNCHANGED <<sockets, udp4, udp6, fds, listenPort, conns, retired, fwmark, before, stuck>>

Register6 ==
  /\ call.op = "register6"
  /\ events' = events \cup {call.c6}
  /\ call' = [call EXCEPT !.op = "commit"]
  /\ UNCHANGED <<sockets, udp4, udp6, fds, listenPort, conns, retired, fwmark, before, stuck>>

\* The IPv4 candidate's handler is left registered.
Register6RefusedStrays == call.op = "register6" /\ Refuse({})

Register6Refused == call.op = "register6" /\ Refuse({call.c4})

\* Nothing from here can fail.
Commit ==
  /\ call.op = "commit"
  /\ events' = events \ fds
  /\ fds' = Pair(call.c4, call.c6)
  /\ udp4' = call.c4 /\ udp6' = call.c6 /\ listenPort' = call.want
  /\ conns' = [p \in Peers |-> 0]
  /\ sockets' = Close(Pair(udp4, udp6))
  /\ retired' = retired \cup ({conns[p] : p \in Peers} \ {0})
  /\ stuck' = {}
  /\ call' = Idle /\ before' = <<>>
  /\ UNCHANGED fwmark

Refused ==
  /\ call.op = "refused"
  /\ call' = Idle /\ before' = <<>>
  /\ UNCHANGED <<sockets, udp4, udp6, fds, events, listenPort, conns, retired, fwmark, stuck>>

-----------------------------------------------------------------------------
(***************************************************************************)
(* set_fwmark: listeners first, then the peers in the map's order.         *)
(***************************************************************************)
Targets == Pair(udp4, udp6) \cup ({conns[p] : p \in Peers} \ {0})

InMarkOrder(order) ==
  /\ {order[i] : i \in DOMAIN order} = Targets
  /\ udp4 # 0 => order[1] = udp4
  /\ udp6 # 0 => order[IF udp4 = 0 THEN 1 ELSE 2] = udp6

\* A failed read changes nothing, so only the calls that read every mark go on.
SetFwmark(mark) ==
  /\ call = Idle
  /\ \E n \in 0..MaxSockets :
       /\ n = Cardinality(Targets)
       /\ \E order \in [1..n -> Targets] :
            /\ InMarkOrder(order)
            /\ call' = [op |-> "apply", mark |-> mark, todo |-> order, done |-> <<>>]
  /\ UNCHANGED <<sockets, udp4, udp6, fds, events, listenPort, conns, retired, fwmark, before, stuck>>

ApplyMark ==
  /\ call.op = "apply" /\ call.todo # <<>>
  /\ LET s == Head(call.todo) IN
       /\ sockets' = [sockets EXCEPT ![s].mark = call.mark]
       /\ call' = [call EXCEPT !.todo = Tail(@),
                               !.done = Append(@, [socket |-> s, previous |-> sockets[s].mark])]
  /\ UNCHANGED <<udp4, udp6, fds, events, listenPort, conns, retired, fwmark, before, stuck>>

\* The refused mark is stored all the same.
ApplyRefusedStores ==
  /\ call.op = "apply" /\ call.todo # <<>>
  /\ call' = [op |-> "restore", done |-> call.done]
  /\ fwmark' = call.mark
  /\ UNCHANGED <<sockets, udp4, udp6, fds, events, listenPort, conns, retired, before, stuck>>

ApplyRefused ==
  /\ call.op = "apply" /\ call.todo # <<>>
  /\ call' = [op |-> "restore", done |-> call.done]
  /\ UNCHANGED <<sockets, udp4, udp6, fds, events, listenPort, conns, retired, fwmark, before, stuck>>

StoreMark ==
  /\ call.op = "apply" /\ call.todo = <<>>
  /\ fwmark' = call.mark /\ stuck' = {} /\ call' = Idle
  /\ UNCHANGED <<sockets, udp4, udp6, fds, events, listenPort, conns, retired, before>>

\* restore_marks, newest first; a socket may refuse and keep the new mark.
RestoreMark(ok) ==
  /\ call.op = "restore" /\ call.done # <<>>
  /\ LET last == call.done[Len(call.done)] IN
       IF ok THEN sockets' = [sockets EXCEPT ![last.socket].mark = last.previous] /\ UNCHANGED stuck
             ELSE UNCHANGED sockets /\ stuck' = stuck \cup {last.socket}
  /\ call' = [call EXCEPT !.done = SubSeq(@, 1, Len(@) - 1)]
  /\ UNCHANGED <<udp4, udp6, fds, events, listenPort, conns, retired, fwmark, before>>

Restored ==
  /\ call.op = "restore" /\ call.done = <<>>
  /\ call' = Idle
  /\ UNCHANGED <<sockets, udp4, udp6, fds, events, listenPort, conns, retired, fwmark, before, stuck>>

-----------------------------------------------------------------------------
(***************************************************************************)
(* Between writers: a handler upgrades a peer to a connected socket on the *)
(* listen port, with the stored mark; a roam, an expiry or a removal       *)
(* shuts it down, and the event loop closes it with the handler it hung up *)
(* on.                                                                     *)
(***************************************************************************)
ConnectEndpoint(p) ==
  /\ call = Idle /\ udp4 # 0 /\ conns[p] = 0 /\ CanOpen
  /\ sockets' = OpenSocket(listenPort, StoredMark)
  /\ conns' = [conns EXCEPT ![p] = Unused]
  /\ UNCHANGED <<udp4, udp6, fds, events, listenPort, retired, fwmark, call, before, stuck>>

ShutdownEndpoint(p) ==
  /\ call = Idle /\ conns[p] # 0
  /\ retired' = retired \cup {conns[p]} /\ stuck' = stuck \ {conns[p]}
  /\ conns' = [conns EXCEPT ![p] = 0]
  /\ UNCHANGED <<sockets, udp4, udp6, fds, events, listenPort, fwmark, call, before>>

\* EPOLLHUP of a shut socket: the handler is cancelled, and its clone closes.
Reclaim(s) ==
  /\ call = Idle /\ s \in retired
  /\ sockets' = Close({s}) /\ retired' = retired \ {s}
  /\ UNCHANGED <<udp4, udp6, fds, events, listenPort, conns, fwmark, call, before, stuck>>

Next ==
  \/ \E port \in Ports \cup {0} : Listen(port)
  \/ Prepare \/ PrepareRefused
  \/ Register4 \/ Register6 \/ Register6Refused \/ Commit \/ Refused
  \/ \E mark \in Marks : SetFwmark(mark)
  \/ ApplyMark \/ ApplyRefused \/ StoreMark \/ Restored
  \/ \E ok \in BOOLEAN : RestoreMark(ok)
  \/ \E p \in Peers : ConnectEndpoint(p) \/ ShutdownEndpoint(p)
  \/ \E s \in Descriptors : Reclaim(s)

Spec == Init /\ [][Next]_vars

-----------------------------------------------------------------------------
\* A listen_port= refused at any of its steps leaves the listeners, their
\* handlers and marks, the port and the peers' connected sockets exactly as
\* they were (open_listen_socket's contract).
RefusedLeavesListeners == call.op = "refused" => Visible = before

\* The listeners in force are registered at every moment, so no step of a
\* rebind leaves the tunnel deaf.  Once no operation is in progress no other
\* listener is registered, and no other socket is left open than those of the
\* endpoints and, apart from them, the shut ones that wait to be reclaimed.
\* The sockets in force are as get=1 reports them, whatever rebinds, upgrades
\* and refused updates came before: each is on the port, and carries the mark
\* unless an update failed and that very socket refused to be put back.
SocketsAsReported ==
  /\ Pair(udp4, udp6) \subseteq events
  /\ call = Idle =>
       /\ events = Pair(udp4, udp6) /\ fds = events
       /\ Open = Targets \cup retired /\ Targets \cap retired = {}
       /\ \A s \in Targets : sockets[s].port = listenPort
       /\ \A s \in Targets \ stuck : sockets[s].mark = StoredMark
==============================================================================
