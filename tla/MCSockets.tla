------------------------------ MODULE MCSockets ------------------------------
(***************************************************************************)
(* Two listener pairs and a connected socket may be open at once, or one   *)
(* pair and three connected sockets, in force or shut.  The reports of one *)
(* peer's connected sockets, and of two peers that share the listeners of  *)
(* both families.                                                          *)
(***************************************************************************)
EXTENDS Sockets, TLC

MCFamily(a) == IF a = "v6" THEN 6 ELSE 4
Symmetry == Permutations(Peers) \cup Permutations(Ports)
OnConnected(p) ==
  [peers |-> {p}, addrs |-> {"v4"}, sites |-> {"ConnectedReply", "TunConnected"},
   classes |-> {"Lifecycle", "Actionable"}, last |-> 4]
OnListeners ==
  [peers |-> Peers, addrs |-> {"v4", "v6"}, sites |-> {},
   classes |-> {"Lifecycle", "Actionable", "Transient"}, last |-> 3]
AllScenes == {OnConnected(p) : p \in Peers} \cup {OnListeners, Silent}

\* The line is only ever read by the step that logs it, and the port and mark
\* of a socket that was shut are never read.
Observed ==
  <<[s \in Descriptors |-> IF s \in retired THEN Closed ELSE sockets[s]],
    udp4, udp6, fds, events, listenPort, conns, retired, fwmark, call, before, stuck,
    now, next, listener, latch, untracked, conn, episode, lastWarn, lastError, handlers,
    failing, warned, errors, refused, scene>>
==============================================================================
