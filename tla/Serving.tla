------------------------------ MODULE Serving -------------------------------
(***************************************************************************)
(* How peers are served: one peer's path under all that can happen to it   *)
(* between two steps of a handler (PeerPath), and the handlers of all      *)
(* peers, batch by batch, with the workers that run them (Dispatch).       *)
(* PeerPath has the address and the window of a path where Dispatch has    *)
(* only whether there is one, so a behaviour takes the steps of one part   *)
(* and leaves the other where it began.                                    *)
(***************************************************************************)
EXTENDS PeerPath

CONSTANTS Workers, Keys, Nets, MaxPeers, MaxLinks, MaxItr, Room, Flows

VARIABLES
  start, at, iter, todo, waiting, flow, exiting, keyed, key, peers, by_idx, by_ip,
  placed, link, holder, opened, out

Handlers == INSTANCE Dispatch

ASSUME ServingAssumption ==
  /\ Handlers!Nil \notin Keys
  /\ {MaxPeers, MaxLinks, MaxItr, Room} \subseteq Nat

\* The flow in which nothing arrives, and one peer's path is followed.
Still == [sources |-> {}, keys |-> {}]

handlerVars ==
  <<start, at, iter, todo, waiting, flow, exiting, keyed, key, peers, by_idx, by_ip,
    placed, link, holder, opened, out>>

ServingInit ==
  /\ Init /\ Handlers!DispatchInit
  /\ flow # Still => addr = None /\ config = [auto |-> FALSE, refuses |-> {}]

ServingNext ==
  \/ flow = Still /\ Next /\ UNCHANGED handlerVars
  \/ flow # Still /\ Handlers!DispatchNext /\ UNCHANGED vars

\* The fairness of both parts.
ServingFairness ==
  /\ \A l \in 1..MaxConns :
       WF_vars(EndOfBatch(l)) /\ WF_vars(HandleStale(l)) /\ WF_vars(Reclaim(l))
  /\ WF_handlerVars(flow # Still /\ Handlers!Starting)
  /\ \A w \in Workers : WF_handlerVars(Handlers!Handle(w))
  /\ \A s \in Handlers!Sources : SF_handlerVars(Handlers!FireAny(s))

ServingSpec == ServingInit /\ [][ServingNext]_<<vars, handlerVars>> /\ ServingFairness

-----------------------------------------------------------------------------
\* A removed peer is silent: what a handler sends is for a peer the device still
\* has, what it delivers comes from the peer the inner source is routed to.
RemovedIsSilent == Handlers!RemovedIsSilent

\* A handler returns, however fast datagrams keep coming; and a start that fails
\* returns, for no thread it waits for has entered a handler.
DispatchesEnd == Handlers!DispatchesEnd

\* A source that stays ready is read again and again until the device exits, with
\* or without a private key.
ArrivalsAreTaken == Handlers!ArrivalsAreTaken
=============================================================================
