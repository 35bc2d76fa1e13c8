----------------------------- MODULE MCPeerPath -----------------------------
(***************************************************************************)
(* Serving for model checking: the path of one peer over two ports of one  *)
(* host; or two workers, and a peer that is removed and added again while  *)
(* it is heard on the listener and its connected socket, sent to, or timed *)
(* out; or two peers that claim one network.                               *)
(***************************************************************************)
EXTENDS Serving

CONSTANTS p1, k1, k2

MCHost(a) == a[1]
MCAddrs == {<<"a", 1>>, <<"a", 2>>}
MCKeys == {k1, k2}
MCFlows ==
  {Still,
   [sources |-> {"udp", "conn"}, keys |-> {k1}],
   [sources |-> {"udp", "timer"}, keys |-> {k1}],
   [sources |-> {"tun", "timer"}, keys |-> {k1}],
   [sources |-> {"udp"}, keys |-> {k1, k2}]}
=============================================================================
