------------------------------ MODULE Dispatch ------------------------------
(***************************************************************************)
(* The workers of a device and what their handlers do with a peer          *)
(* (device/mod.rs): the start behind a gate, the handlers of the listener, *)
(* of connected sockets, of the TUN interface and of the peers' timer, and *)
(* the removal of peers, which those handlers may still know.              *)
(*                                                                         *)
(* A handler keeps one peer's mutex from the lookup to the last send, so   *)
(* one datagram is one step; how the handler of a connected socket comes   *)
(* between others is in PeerPath.  What a tunnel answers is left open, and *)
(* a datagram is known by what comes of it.  Configuration runs under the  *)
(* device's write lock, when no worker is in a handler (DevLock).  A peer  *)
(* is an object: one removed and added again under its key is another.     *)
(***************************************************************************)
EXTENDS Integers

CONSTANTS
  Workers, Keys, Nets,
  MaxPeers,       \* bound: peer objects ever made
  MaxLinks,       \* bound: connected sockets ever opened
  MaxItr,         \* MAX_ITR
  Room,           \* what a source holds before it is read; more is lost
  Flows           \* what a behaviour has arrive, and which keys it configures

Nil == 0
Objects == 1..MaxPeers
Unborn == <<"unborn", 0>>
Gated == <<"gate", 0>>
Idle == <<"wait", 0>>
Gone == <<"gone", 0>>
Udp == <<"udp", 0>>
Tun == <<"tun", 0>>
Timer == <<"timer", 0>>
Conn(l) == <<"conn", l>>
Conns == 1..MaxLinks
Sources == {Udp, Tun, Timer} \cup {Conn(l) : l \in Conns}

VARIABLES
  start,          \* start_workers: spawning, running, failed, or returned to the caller
  at,             \* worker to where it is: a source while its handler runs
  iter,           \* worker to what is left of its batch
  todo,           \* worker to the peers its timer handler has not come to
  waiting,        \* source to how much is ready to be read
  flow,           \* the one of Flows this behaviour has
  exiting,        \* the exit notice is out
  keyed,          \* a private key is set
  key,            \* object to its public key
  peers, by_idx, by_ip,  \* the three maps
  placed,         \* objects whose endpoint has an address
  link,           \* object to the connected socket in its endpoint
  holder,         \* connected socket to the object its handler holds
  opened,         \* connected sockets opened so far
  out             \* what the last step sent or delivered, and for whom

workerVars == <<start, at, iter, todo, exiting>>
mapVars == <<flow, keyed, key, peers, by_idx, by_ip>>
pathVars == <<placed, link, holder, opened>>
dispatchVars == <<workerVars, waiting, mapVars, pathVars, out>>

Registered(o) == peers[key[o]] = o
Known == {o \in Objects : key[o] # Nil /\ Registered(o)}

DispatchInit ==
  /\ start = "spawning" /\ exiting = FALSE /\ flow \in Flows
  /\ at = [w \in Workers |-> Unborn]
  /\ iter = [w \in Workers |-> 0] /\ todo = [w \in Workers |-> {}]
  /\ waiting = [s \in Sources |-> 0]
  /\ keyed = FALSE /\ key = [o \in Objects |-> Nil]
  /\ peers = [k \in Keys |-> Nil] /\ by_idx = {} /\ by_ip = [n \in Nets |-> Nil]
  /\ placed = {} /\ link = [o \in Objects |-> Nil]
  /\ holder = [l \in Conns |-> Nil] /\ opened = 0
  /\ out = {}

(***************************************************************************)
(* start_workers: every thread waits at its gate until all of them exist.  *)
(***************************************************************************)
Spawn(w) ==
  /\ start = "spawning" /\ at[w] = Unborn
  /\ at' = [at EXCEPT ![w] = Gated]
  /\ out' = {} /\ UNCHANGED <<start, iter, todo, exiting, waiting, mapVars, pathVars>>

\* All exist and the gates open; or a thread is refused, and they are disconnected.
Spawned(ok) ==
  /\ start = "spawning"
  /\ ok <=> \A w \in Workers : at[w] # Unborn
  /\ start' = IF ok THEN "running" ELSE "failed"
  /\ out' = {} /\ UNCHANGED <<at, iter, todo, exiting, waiting, mapVars, pathVars>>

Gate(w) ==
  /\ at[w] = Gated /\ start \in {"running", "failed"}
  /\ at' = [at EXCEPT ![w] = IF start = "running" THEN Idle ELSE Gone]
  /\ out' = {} /\ UNCHANGED <<start, iter, todo, exiting, waiting, mapVars, pathVars>>

\* handle.wait() has joined the threads there are, and the caller gets the error.
Joined ==
  /\ start = "failed" /\ \A w \in Workers : at[w] \in {Unborn, Gone}
  /\ start' = "returned"
  /\ out' = {} /\ UNCHANGED <<at, iter, todo, exiting, waiting, mapVars, pathVars>>

(***************************************************************************)
(* The event loop.  Events fire one worker at a time; a shut connected     *)
(* socket is reported as hung up and its handler cancelled.                *)
(***************************************************************************)
IsShut(l) == holder[l] # Nil /\ link[holder[l]] # l
Held(s) == \E w \in Workers : at[w] = s

Arrive(s) ==
  /\ start \in {"spawning", "running"} /\ waiting[s] < Room /\ s[1] \in flow.sources
  /\ \A l \in Conns : s = Conn(l) => holder[l] # Nil /\ ~IsShut(l)
  /\ waiting' = [waiting EXCEPT ![s] = @ + 1]
  /\ out' = {} /\ UNCHANGED <<workerVars, mapVars, pathVars>>

Fire(w, s) ==
  /\ at[w] = Idle /\ waiting[s] > 0 /\ ~Held(s)
  /\ \A l \in Conns : s = Conn(l) => ~IsShut(l)
  /\ at' = [at EXCEPT ![w] = s]
  /\ iter' = [iter EXCEPT ![w] = MaxItr]
  /\ todo' = [todo EXCEPT ![w] = IF s = Timer THEN Known ELSE {}]
  /\ waiting' = IF s = Timer THEN [waiting EXCEPT ![s] = 0] ELSE waiting
  /\ out' = {} /\ UNCHANGED <<start, exiting, mapVars, pathVars>>

HangUp(w, l) ==
  /\ at[w] = Idle /\ IsShut(l) /\ ~Held(Conn(l))
  /\ holder' = [holder EXCEPT ![l] = Nil]
  /\ waiting' = [waiting EXCEPT ![Conn(l)] = 0]
  /\ out' = {} /\ UNCHANGED <<workerVars, mapVars, placed, link, opened>>

Exit(w) ==
  /\ at[w] = Idle /\ exiting
  /\ at' = [at EXCEPT ![w] = Gone]
  /\ out' = {} /\ UNCHANGED <<start, iter, todo, exiting, waiting, mapVars, pathVars>>

\* A handler's locals go with it.
Return(w, to) ==
  /\ at' = [at EXCEPT ![w] = to]
  /\ iter' = [iter EXCEPT ![w] = 0]

\* The batch is used up, or there is nothing more to read.
Ends(w, s) ==
  /\ at[w] = s
  /\ IF s = Timer THEN todo[w] = {} ELSE iter[w] = 0 \/ waiting[s] = 0
  /\ Return(w, Idle)
  /\ out' = {} /\ UNCHANGED <<start, todo, exiting, waiting, mapVars, pathVars>>

(***************************************************************************)
(* A datagram or packet off its source, within the batch.                  *)
(***************************************************************************)
\* Only what is handled to the end counts.
TakeUncounted(w, s) ==
  /\ at[w] = s /\ iter[w] > 0 /\ waiting[s] > 0
  /\ waiting' = [waiting EXCEPT ![s] = @ - 1]
  /\ UNCHANGED <<iter, start, at, todo>>

Take(w, s) ==
  /\ at[w] = s /\ iter[w] > 0 /\ waiting[s] > 0
  /\ iter' = [iter EXCEPT ![w] = @ - 1]
  /\ waiting' = [waiting EXCEPT ![s] = @ - 1]
  /\ UNCHANGED <<start, at, todo>>

\* index_owns: the lookup of the inner source leads back to this very object.
Owns(o, n) == by_ip[n] = o

Sent(o) == [peer |-> o, to |-> "net", net |-> Nil]

\* What the match on a TunnResult does; a packet written may flush queued ones.
Effect(o, result, n) ==
  CASE result = "WriteToNetwork" -> {Sent(o)}
    [] result = "WriteToTunnel" /\ Owns(o, n) -> {[peer |-> o, to |-> "tun", net |-> n]}
    [] OTHER -> {}

Kinds == {"Init", "Response", "Data", "Cookie"}

\* What committing a packet of each kind can return.
Results(kind) ==
  CASE kind = "Data" -> {"WriteToTunnel", "Done", "Err"}
    [] kind = "Cookie" -> {"Done"}
    [] OTHER -> {"WriteToNetwork", "Done", "Err"}
(***************************************************************************)
(* The listener.                                                           *)
(***************************************************************************)
\* A handler without a key returns and leaves what it was called for.
DrainNothing(w) ==
  /\ at[w] = Udp /\ ~keyed
  /\ Return(w, Idle)
  /\ out' = {} /\ UNCHANGED <<start, todo, exiting, waiting, mapVars, pathVars>>

DrainDatagram(w) ==
  /\ ~keyed /\ Take(w, Udp)
  /\ out' = {} /\ UNCHANGED <<exiting, mapVars, pathVars>>

\* No source address, a probe, a cookie demand, a refusal: no peer is concerned.
Unattributed(w) ==
  /\ keyed /\ Take(w, Udp)
  /\ out' = {} /\ UNCHANGED <<exiting, mapVars, pathVars>>

\* An initiation names its peer by the key inside it, the others by receiver index.
Authenticates(o, kind) ==
  IF kind = "Init" THEN o \in Known ELSE o \in by_idx

\* The peer's path after an accepted packet: as it was, or an old connected socket
\* left for a new address, or a fresh one opened and registered (PeerPath).
Upgrade(o) ==
  \/ UNCHANGED <<link, holder, opened>>
  \/ link' = [link EXCEPT ![o] = Nil] /\ UNCHANGED <<holder, opened>>
  \/ /\ opened < MaxLinks /\ opened' = opened + 1
     /\ link' = [link EXCEPT ![o] = opened']
     /\ holder' = [holder EXCEPT ![opened'] = o]

\* A cookie reply, or a commit that fails, moves no endpoint.
Committed(o, kind, result) ==
  IF kind = "Cookie" \/ result = "Err" THEN UNCHANGED pathVars
  ELSE placed' = placed \cup {o} /\ Upgrade(o)

FromPeer(w, o, kind, result, n) ==
  /\ keyed /\ Take(w, Udp)
  /\ Authenticates(o, kind)
  /\ out' = Effect(o, result, n)
  /\ Committed(o, kind, result)
  /\ UNCHANGED <<exiting, mapVars>>

(***************************************************************************)
(* A connected socket: its handler holds the peer and looks it up nowhere. *)
(***************************************************************************)
OnConnection(w, l, result, n) ==
  /\ Take(w, Conn(l)) /\ ~IsShut(l)
  /\ out' = Effect(holder[l], result, n)
  /\ UNCHANGED <<exiting, mapVars, pathVars>>

\* is_current_connection fails: the datagram goes, and the batch ends.
StaleConnection(w, l) ==
  /\ at[w] = Conn(l) /\ iter[w] > 0 /\ waiting[Conn(l)] > 0 /\ IsShut(l)
  /\ waiting' = [waiting EXCEPT ![Conn(l)] = @ - 1]
  /\ Return(w, Idle)
  /\ out' = {} /\ UNCHANGED <<start, todo, exiting, mapVars, pathVars>>

(***************************************************************************)
(* The TUN interface and the timer.                                        *)
(***************************************************************************)
\* tun_send_step: through the connected socket, or to the address if there is one.
Reaches(o) == link[o] # Nil \/ o \in placed

FromTun(w, n, result) ==
  /\ Take(w, Tun) /\ result \in {"WriteToNetwork", "Done", "Err"}
  /\ out' = IF by_ip[n] # Nil /\ result = "WriteToNetwork" /\ Reaches(by_ip[n])
            THEN {Sent(by_ip[n])} ELSE {}
  /\ UNCHANGED <<exiting, mapVars, pathVars>>

\* A read error that is not the end of the batch stops the device.
TunFails(w) ==
  /\ at[w] = Tun /\ iter[w] > 0
  /\ Return(w, Gone) /\ exiting' = TRUE
  /\ out' = {} /\ UNCHANGED <<start, todo, waiting, mapVars, pathVars>>

UpdateTimers(w, o, result) ==
  /\ at[w] = Timer /\ o \in todo[w]
  /\ result \in {"Done", "WriteToNetwork", "ConnectionExpired"}
  /\ todo' = [todo EXCEPT ![w] = @ \ {o}]
  /\ out' = IF o \in placed /\ result = "WriteToNetwork" THEN {Sent(o)} ELSE {}
  /\ link' = IF o \in placed /\ result = "ConnectionExpired"
             THEN [link EXCEPT ![o] = Nil] ELSE link
  /\ UNCHANGED <<start, at, iter, exiting, waiting, mapVars, placed, holder, opened>>

(***************************************************************************)
(* Configuration, alone with the device.                                   *)
(***************************************************************************)
Alone ==
  /\ start = "running" /\ \A w \in Workers : at[w] \in {Gated, Idle, Gone}
  /\ \E w \in Workers : at[w] = Idle

SetKey ==
  /\ Alone /\ keyed' = TRUE
  /\ out' = {} /\ UNCHANGED <<workerVars, waiting, flow, key, peers, by_idx, by_ip, pathVars>>

\* The peer under this key, or a new object.
Updated(k, o) ==
  IF peers[k] = Nil THEN key[o] = Nil /\ \A p \in 1..(o - 1) : key[p] # Nil
  ELSE o = peers[k]

\* A new peer needs the device's key; another endpoint leaves the old socket.
UpdatePeer(k, o, nets, replace, moved) ==
  /\ Alone /\ keyed /\ k \in flow.keys /\ Updated(k, o)
  /\ key' = [key EXCEPT ![o] = k]
  /\ peers' = [peers EXCEPT ![k] = o]
  /\ by_idx' = by_idx \cup {o}
  /\ by_ip' = [n \in Nets |->
                IF n \in nets THEN o ELSE IF replace /\ by_ip[n] = o THEN Nil ELSE by_ip[n]]
  /\ placed' = IF moved THEN placed \cup {o} ELSE placed
  /\ link' = IF moved THEN [link EXCEPT ![o] = Nil] ELSE link
  /\ out' = {} /\ UNCHANGED <<workerVars, waiting, flow, keyed, holder, opened>>

\* The maps alone are purged.
RemoveFromMaps(k) ==
  /\ Alone /\ peers[k] # Nil
  /\ peers' = [peers EXCEPT ![k] = Nil]
  /\ by_idx' = by_idx \ {peers[k]}
  /\ by_ip' = [n \in Nets |-> IF by_ip[n] = peers[k] THEN Nil ELSE by_ip[n]]
  /\ out' = {} /\ UNCHANGED <<workerVars, waiting, flow, keyed, key, pathVars>>

RemovePeer(k) ==
  /\ Alone /\ peers[k] # Nil
  /\ peers' = [peers EXCEPT ![k] = Nil]
  /\ link' = [link EXCEPT ![peers[k]] = Nil]
  /\ by_idx' = by_idx \ {peers[k]}
  /\ by_ip' = [n \in Nets |-> IF by_ip[n] = peers[k] THEN Nil ELSE by_ip[n]]
  /\ out' = {} /\ UNCHANGED <<workerVars, waiting, flow, keyed, key, placed, holder, opened>>

ClearPeers ==
  /\ Alone
  /\ link' = [o \in Objects |-> IF o \in Known THEN Nil ELSE link[o]]
  /\ peers' = [k \in Keys |-> Nil] /\ by_idx' = {} /\ by_ip' = [n \in Nets |-> Nil]
  /\ out' = {} /\ UNCHANGED <<workerVars, waiting, flow, keyed, key, placed, holder, opened>>

-----------------------------------------------------------------------------
Starting ==
  \/ \E w \in Workers : Spawn(w) \/ Gate(w)
  \/ \E ok \in BOOLEAN : Spawned(ok)
  \/ Joined

\* A step of a handler that has been called.
Handle(w) ==
  \/ \E s \in Sources : Ends(w, s)
  \/ DrainDatagram(w) \/ Unattributed(w)
  \/ \E kind \in Kinds, n \in Nets : \E result \in Results(kind) :
       \/ \E o \in Objects : FromPeer(w, o, kind, result, n)
       \/ \E l \in Conns : OnConnection(w, l, result, n)
  \/ \E l \in Conns : StaleConnection(w, l)
  \/ \E n \in Nets, result \in {"WriteToNetwork", "Done", "Err"} : FromTun(w, n, result)
  \/ TunFails(w)
  \/ \E o \in Objects, result \in {"Done", "WriteToNetwork", "ConnectionExpired"} :
       UpdateTimers(w, o, result)

Admin ==
  \/ SetKey \/ ClearPeers
  \/ \E k \in Keys : RemovePeer(k)
  \/ \E k \in Keys, o \in Objects, nets \in SUBSET Nets, replace, moved \in BOOLEAN :
       UpdatePeer(k, o, nets, replace, moved)

Stopped ==
  /\ start \in {"running", "returned"} /\ \A w \in Workers : at[w] \in {Unborn, Gone}
  /\ UNCHANGED dispatchVars

DispatchNext ==
  \/ Stopped \/ Starting \/ Admin
  \/ \E s \in Sources : Arrive(s)
  \/ \E w \in Workers :
       \/ \E s \in Sources : Fire(w, s)
       \/ \E l \in Conns : HangUp(w, l)
       \/ Exit(w) \/ Handle(w)

(***************************************************************************)
(* Threads run on, and the poller is fair to every source that stays       *)
(* ready or is hung up.  Nothing has to arrive and nobody has to           *)
(* configure.                                                              *)
(***************************************************************************)
FireAny(s) ==
  \E w \in Workers : Fire(w, s) \/ \E l \in Conns : s = Conn(l) /\ HangUp(w, l)
DispatchFairness ==
  /\ WF_dispatchVars(Starting)
  /\ \A w \in Workers : WF_dispatchVars(Handle(w))
  /\ \A s \in Sources : SF_dispatchVars(FireAny(s))

DispatchSpec == DispatchInit /\ [][DispatchNext]_dispatchVars /\ DispatchFairness

-----------------------------------------------------------------------------
(* Types of the workers, the maps and the paths. *)
DispatchTypeOK ==
  /\ start \in {"spawning", "running", "failed", "returned"}
  /\ at \in [Workers -> {Unborn, Gated, Idle, Gone} \cup Sources]
  /\ iter \in [Workers -> 0..MaxItr] /\ todo \in [Workers -> SUBSET Objects]
  /\ waiting \in [Sources -> 0..Room]
  /\ {exiting, keyed} \subseteq BOOLEAN
  /\ key \in [Objects -> Keys \cup {Nil}]
  /\ peers \in [Keys -> Objects \cup {Nil}] /\ by_ip \in [Nets -> Objects \cup {Nil}]
  /\ {by_idx, placed} \subseteq SUBSET Objects
  /\ link \in [Objects -> Conns \cup {Nil}] /\ holder \in [Conns -> Objects \cup {Nil}]
  /\ opened \in 0..MaxLinks

(***************************************************************************)
(* A removed peer is silent.  Whatever a handler sends is for a peer the   *)
(* configuration still has, and what it delivers to the TUN interface      *)
(* comes from the peer the inner source is routed to: not from an object   *)
(* that was removed, replaced under its key or lost its network, although  *)
(* the handler of its connected socket, or the timer's list, still holds   *)
(* it (remove_peer, clear_peers, peer_owns).                               *)
(***************************************************************************)
RemovedIsSilent ==
  \A e \in out :
    /\ Registered(e.peer)
    /\ e.to = "tun" => by_ip[e.net] = e.peer

(***************************************************************************)
(* A handler returns, however fast datagrams keep coming and whatever they *)
(* are ("a flood of anything that is not a valid peer packet kept this     *)
(* worker inside a single dispatch", register_udp_handler), so a           *)
(* configuration waiting for the device gets it.  And a start that fails   *)
(* returns: no thread it waits for has entered a handler.                  *)
(***************************************************************************)
DispatchesEnd ==
  /\ \A w \in Workers : (at[w] \in Sources) ~> (at[w] \in {Idle, Gone})
  /\ (start = "failed") ~> (start = "returned")

(***************************************************************************)
(* A source that stays ready is read again and again until the device      *)
(* exits; in particular a device without a key does not spin on one        *)
(* datagram (drain_datagrams).                                             *)
(***************************************************************************)
Read(s) == waiting'[s] < waiting[s]
ArrivalsAreTaken ==
  \A s \in Sources :
    \/ []<>(waiting[s] = 0 \/ exiting \/ start # "running")
    \/ []<><<Read(s)>>_dispatchVars
=============================================================================
