---------------------------- MODULE SocketsProofs ----------------------------
(***************************************************************************)
(* The properties of Listeners for any ports, marks and peers, and those   *)
(* of UdpDiagnostics for any destinations and cooldowns.  SocketInv        *)
(* is inductive.  Beyond the properties it says what an operation in       *)
(* progress holds: the candidates of a rebind beside the sockets in force, *)
(* and, through an update of the mark, which sockets still carry the       *)
(* stored one and which will be put back on it.  A shut socket is apart    *)
(* from both.                                                              *)
(***************************************************************************)
EXTENDS Sockets, TLAPS

Binding == {"bind4", "bind6", "mark", "register4", "register6", "commit"}
Descriptor == Descriptors \cup {0}
Socket == [port: Ports, mark: Marks]
Remembered == [socket: Descriptors, previous: Marks]

Bind == [op: Binding, want: Ports \cup {0}, c4: Descriptor, c6: Descriptor]
Update == [op: {"apply"}, mark: Marks, todo: Seq(Descriptors), done: Seq(Remembered)]
Restore == [op: {"restore"}, done: Seq(Remembered)]

SocketType ==
  /\ sockets \in [Descriptors -> Socket \cup {Closed}]
  /\ udp4 \in Descriptor /\ udp6 \in Descriptor
  /\ listenPort \in Ports \cup {0}
  /\ conns \in [Peers -> Descriptor]
  /\ fwmark \in Marks \cup {NoMark}
  /\ call \in Bind \cup Update \cup Restore \cup {Idle, [op |-> "refused"]}

\* No descriptor has two owners.
OneOwner ==
  /\ udp4 # 0 => udp4 # udp6
  /\ udp4 = 0 => udp6 = 0 /\ \A p \in Peers : conns[p] = 0
  /\ udp4 # 0 => listenPort \in Ports
  /\ \A p \in Peers : conns[p] # 0 =>
       /\ conns[p] \notin {udp4, udp6}
       /\ \A q \in Peers : conns[q] = conns[p] => q = p

\* The candidates a rebind holds, and those of them it has registered.
Candidates == IF call.op \in Binding THEN Pair(call.c4, call.c6) ELSE {}
Registered ==
  IF call.op = "register6" THEN {call.c4} ELSE IF call.op = "commit" THEN Candidates ELSE {}

BindingHolds ==
  call.op \in Binding =>
    /\ Candidates \cap Targets = {}
    /\ call.op = "bind4" <=> call.c4 = 0
    /\ call.op # "bind4" => call.want \in Ports
    /\ call.op \in {"bind4", "bind6"} => call.c6 = 0
    /\ call.op = "register6" => call.c6 # 0
    /\ call.c4 # 0 => call.c4 # call.c6
    /\ \A s \in Candidates : sockets[s].port = call.want
    /\ call.op \in {"register4", "register6", "commit"} =>
         \A s \in Candidates : sockets[s].mark = StoredMark

Accounted ==
  /\ Open = Targets \cup Candidates \cup retired
  /\ (Targets \cup Candidates) \cap retired = {}
  /\ fds = Pair(udp4, udp6) /\ events = fds \cup Registered
  /\ \A s \in Targets : sockets[s].port = listenPort

\* What a rebind found is still in force until it commits.
Found ==
  [udp4 |-> udp4, udp6 |-> udp6, fds |-> fds, events |-> fds, port |-> listenPort,
   conns |-> conns, marks |-> [s \in Pair(udp4, udp6) |-> sockets[s].mark]]
Unmoved == call.op \in Binding \cup {"refused"} => before = Found

Done(s) == \E n \in DOMAIN call.done : call.done[n].socket = s

\* Which mark a socket carries, and that the first mark remembered of it is the
\* stored one.
MarksKnown ==
  /\ call.op \notin {"apply", "restore"} => \A s \in Targets \ stuck : sockets[s].mark = StoredMark
  /\ call.op \in {"apply", "restore"} =>
       /\ \A s \in Targets \ stuck : sockets[s].mark = StoredMark \/ Done(s)
       /\ \A n \in DOMAIN call.done :
            /\ call.done[n].socket \in Targets
            /\ \/ call.done[n].previous = StoredMark
               \/ call.done[n].socket \in stuck
               \/ \E m \in 1..(n - 1) : call.done[m].socket = call.done[n].socket
  /\ call.op = "apply" =>
       /\ \A s \in Targets : (\E n \in DOMAIN call.todo : call.todo[n] = s) \/ Done(s)
       /\ \A n \in DOMAIN call.todo : call.todo[n] \in Targets
       /\ \A n \in DOMAIN call.done : sockets[call.done[n].socket].mark = call.mark

SocketInv == SocketType /\ OneOwner /\ BindingHolds /\ Accounted /\ Unmoved /\ MarksKnown

-----------------------------------------------------------------------------
\* What an operation's stage says of its locals.
LEMMA CallShape ==
  ASSUME SocketType
  PROVE  /\ call.op \in Binding => call \in Bind
         /\ call.op = "apply" => call \in Update
         /\ call.op = "restore" => call \in Restore
         /\ call = Idle => call.op = "idle"
         /\ call.op \in Binding \cup {"apply", "restore", "idle", "refused"}
         /\ StoredMark \in Marks
         /\ Targets \subseteq Descriptors /\ Open \subseteq Descriptors
<1>1. /\ call.op \in Binding => call \in Bind
      /\ call.op = "apply" => call \in Update
      /\ call.op = "restore" => call \in Restore
      /\ call = Idle => call.op = "idle"
      /\ call.op \in Binding \cup {"apply", "restore", "idle", "refused"}
  <2>1. CASE call \in Bind
    BY <2>1 DEF Bind, Binding, Idle
  <2>2. CASE call \in Update
    BY <2>2 DEF Update, Binding, Idle
  <2>3. CASE call \in Restore
    BY <2>3 DEF Restore, Binding, Idle
  <2>4. CASE call \in {Idle, [op |-> "refused"]}
    BY <2>4 DEF Idle, Binding
  <2> QED BY <2>1, <2>2, <2>3, <2>4, Zenon DEF SocketType
<1>5. StoredMark \in Marks
  BY ListenersAssumption, Zenon DEF SocketType, StoredMark
<1>6. Targets \subseteq Descriptors /\ Open \subseteq Descriptors
  BY Zenon DEF SocketType, Targets, Pair, Descriptor, Open
<1> QED BY <1>1, <1>5, <1>6, Zenon

\* A socket with a port is open.
LEMMA SocketOpen ==
  ASSUME NEW x \in Socket
  PROVE  x # Closed
BY ListenersAssumption DEF Socket, Closed

\* socket(), bind() and the options set before them, on a descriptor not in use.
LEMMA Opened ==
  ASSUME SocketType, CanOpen, NEW port \in Ports, NEW mark \in Marks,
         sockets' = OpenSocket(port, mark)
  PROVE  \E u \in Descriptors \ Open :
           /\ u = Unused /\ sockets' \in [Descriptors -> Socket \cup {Closed}]
           /\ sockets'[u] = [port |-> port, mark |-> mark] /\ Open' = Open \cup {u}
           /\ \A s \in Descriptors \ {u} : sockets'[s] = sockets[s]
<1>1. Unused \in Descriptors \ Open
  <2>1. \E s \in Descriptors \ Open : TRUE
    BY Zenon DEF CanOpen, Open
  <2> QED BY <2>1, Zenon DEF Unused
<1>2. PICK u \in Descriptors \ Open : u = Unused
  BY <1>1, Zenon
<1>3. [port |-> port, mark |-> mark] \in Socket
  BY Zenon DEF Socket
<1>4. sockets' = [sockets EXCEPT ![u] = [port |-> port, mark |-> mark]]
  BY <1>2, Zenon DEF OpenSocket
<1>5. /\ sockets' \in [Descriptors -> Socket \cup {Closed}]
      /\ sockets'[u] = [port |-> port, mark |-> mark]
      /\ \A s \in Descriptors \ {u} : sockets'[s] = sockets[s]
  BY <1>3, <1>4, Zenon DEF SocketType
<1>6. Open' = Open \cup {u}
  BY <1>3, <1>5, SocketOpen, Zenon DEF Open
<1> QED BY <1>2, <1>5, <1>6, Zenon

\* A descriptor that closes leaves the other sockets alone.
LEMMA Shut ==
  ASSUME SocketType, NEW ss, sockets' = Close(ss)
  PROVE  /\ sockets' \in [Descriptors -> Socket \cup {Closed}]
         /\ Open' = Open \ ss
         /\ \A s \in Descriptors \ ss : sockets'[s] = sockets[s]
BY Zenon DEF SocketType, Close, Open

\* A mark set on an open socket moves nothing else.
LEMMA Marked ==
  ASSUME SocketType, NEW s \in Open, NEW mark \in Marks,
         sockets' = [sockets EXCEPT ![s].mark = mark]
  PROVE  /\ sockets' \in [Descriptors -> Socket \cup {Closed}] /\ Open' = Open
         /\ sockets'[s].mark = mark
         /\ \A t \in Descriptors : sockets'[t].port = sockets[t].port
         /\ \A t \in Descriptors \ {s} : sockets'[t] = sockets[t]
<1>1. s \in Descriptors /\ sockets[s] \in Socket
  BY Zenon DEF Open, SocketType
<1>2. /\ sockets'[s] = [sockets[s] EXCEPT !.mark = mark]
      /\ \A t \in Descriptors \ {s} : sockets'[t] = sockets[t]
      /\ sockets' = [t \in Descriptors |-> sockets'[t]]
  BY <1>1, Zenon DEF SocketType
<1>3. sockets'[s] \in Socket /\ sockets'[s].mark = mark /\ sockets'[s].port = sockets[s].port
  BY <1>1, <1>2, Zenon DEF Socket
<1>4. sockets' \in [Descriptors -> Socket \cup {Closed}]
  <2>1. \A t \in Descriptors : sockets'[t] \in Socket \cup {Closed}
    BY <1>2, <1>3, Zenon DEF SocketType
  <2> QED BY <1>2, <2>1, Zenon
<1>5. Open' = Open
  BY <1>1, <1>2, <1>3, SocketOpen, Zenon DEF Open
<1> QED BY <1>2, <1>3, <1>4, <1>5, Zenon

\* A device before its first listeners.
LEMMA SocketInit == Init => SocketInv
<1> SUFFICES ASSUME Init PROVE SocketInv
  BY Zenon
<1>1. SocketType
  BY Zenon DEF Init, SocketType, Descriptor
<1>2. Targets = {} /\ Open = {} /\ Candidates = {} /\ Registered = {} /\ call.op = "idle"
      /\ retired = {}
  BY Zenon DEF Init, Targets, Pair, Open, Candidates, Registered, Idle, Binding
<1>3. OneOwner /\ BindingHolds /\ Accounted /\ Unmoved /\ MarksKnown
  BY <1>2, Zenon DEF Init, OneOwner, BindingHolds, Accounted, Unmoved, MarksKnown, Pair, Binding
<1> QED BY <1>1, <1>3, Zenon DEF SocketInv

-----------------------------------------------------------------------------
\* open_listen_socket begins: nothing has moved.
LEMMA ListenStep ==
  ASSUME SocketInv, NEW port \in Ports \cup {0}, Listen(port)
  PROVE  SocketInv'
<1>0. SocketType /\ call.op = "idle" /\ Targets' = Targets /\ Open' = Open /\ Visible' = Visible
  BY CallShape, Zenon DEF SocketInv, Listen, Targets, Open, Visible
<1>1. call' \in Bind /\ call'.op = "bind4" /\ call'.c4 = 0 /\ call'.c6 = 0
  BY Zenon DEF Listen, Bind, Binding, Descriptor
<1>2. SocketType'
  BY <1>0, <1>1, Zenon DEF SocketType, Listen
<1>3. Candidates = {} /\ Candidates' = {} /\ Registered = {} /\ Registered' = {}
  BY <1>0, <1>1, Zenon DEF Candidates, Registered, Pair, Binding
<1>4. OneOwner' /\ Accounted' /\ BindingHolds'
  BY <1>0, <1>1, <1>3, Zenon DEF SocketInv, OneOwner, Accounted, BindingHolds, Listen
<1>5. events = fds
  BY <1>3, Zenon DEF SocketInv, Accounted
<1>6. Unmoved'
  BY <1>0, <1>5, Zenon DEF Unmoved, Listen, Visible, Found
<1>7. MarksKnown'
  BY <1>0, <1>1, Zenon DEF SocketInv, MarksKnown, Listen, StoredMark
<1> QED BY <1>2, <1>4, <1>6, <1>7, Zenon DEF SocketInv

\* Through a rebind the sockets in force, and all that reports them, stand.
LEMMA RebindFrame ==
  ASSUME SocketInv, call.op \in Binding,
         UNCHANGED <<udp4, udp6, fds, listenPort, conns, fwmark, before, stuck>>,
         sockets' \in [Descriptors -> Socket \cup {Closed}],
         \A s \in Targets : sockets'[s] = sockets[s],
         call' \in Bind \cup {[op |-> "refused"]}
  PROVE  /\ Targets' = Targets /\ StoredMark' = StoredMark
         /\ SocketType' /\ OneOwner' /\ Unmoved' /\ MarksKnown'
         /\ \A s \in Targets : sockets'[s].port = listenPort
<1>0. SocketType /\ OneOwner /\ Accounted /\ Unmoved /\ MarksKnown
  BY Zenon DEF SocketInv
<1>1. Targets' = Targets /\ StoredMark' = StoredMark
  BY Zenon DEF Targets, StoredMark
<1>2. SocketType'
  BY <1>0, Zenon DEF SocketType
<1>3. OneOwner'
  BY <1>0, Zenon DEF OneOwner
<1>4. call'.op \in Binding \cup {"refused"}
  BY DEF Bind
<1>5. Unmoved'
  <2>1. before = Found
    BY <1>0, Zenon DEF Unmoved
  <2>2. Pair(udp4, udp6) \subseteq Targets
    BY Zenon DEF Targets
  <2>3. [s \in Pair(udp4, udp6) |-> sockets'[s].mark] = [s \in Pair(udp4, udp6) |-> sockets[s].mark]
    BY <2>2, Zenon
  <2>4. Found' = Found
    BY <2>3, Zenon DEF Found
  <2> QED BY <2>1, <2>4, Zenon DEF Unmoved
<1>6. MarksKnown'
  BY <1>0, <1>1, <1>4, Zenon DEF MarksKnown, Binding
<1> QED BY <1>0, <1>1, <1>2, <1>3, <1>5, <1>6, Zenon DEF Accounted

\* A rebind refused at any stage closes its candidates and unregisters the one
\* it had registered.
LEMMA RefuseStep ==
  ASSUME SocketInv, PrepareRefused \/ Register6Refused
  PROVE  SocketInv'
<1>0. SocketType /\ BindingHolds /\ Accounted /\ call.op \in Binding /\ call.op # "commit"
  BY Zenon DEF SocketInv, PrepareRefused, Register6Refused, Binding
<1>1. /\ sockets' = Close(Candidates) /\ events' = events \ Registered
      /\ call' = [op |-> "refused"]
      /\ UNCHANGED <<udp4, udp6, fds, listenPort, conns, retired, fwmark, before, stuck>>
  BY <1>0, Zenon DEF PrepareRefused, Register6Refused, Refuse, Candidates, Registered
<1>2. /\ Candidates \cap Targets = {} /\ Targets \subseteq Descriptors
      /\ Open = Targets \cup Candidates \cup retired /\ (Targets \cup Candidates) \cap retired = {}
  BY <1>0, CallShape, Zenon DEF BindingHolds, Accounted
<1>3. /\ sockets' \in [Descriptors -> Socket \cup {Closed}] /\ Open' = Targets \cup retired
      /\ \A s \in Targets : sockets'[s] = sockets[s]
  BY <1>0, <1>1, <1>2, Shut
<1>4. /\ Targets' = Targets /\ SocketType' /\ OneOwner' /\ Unmoved' /\ MarksKnown'
      /\ \A s \in Targets : sockets'[s].port = listenPort
  BY <1>0, <1>1, <1>3, RebindFrame, Zenon
<1>5. Candidates' = {} /\ Registered' = {} /\ BindingHolds'
  BY <1>1, Zenon DEF Candidates, Registered, BindingHolds, Binding
<1>6. events' = fds
  <2>1. Registered \cap fds = {}
    BY <1>0, <1>2, Zenon DEF Registered, Candidates, Accounted, Targets, Pair, BindingHolds
  <2> QED BY <1>0, <1>1, <2>1, Zenon DEF Accounted
<1>7. Accounted'
  BY <1>0, <1>1, <1>2, <1>3, <1>4, <1>5, <1>6, Zenon DEF Accounted
<1> QED BY <1>4, <1>5, <1>7, Zenon DEF SocketInv

\* The IPv4 candidate is bound.
LEMMA Bind4Step ==
  ASSUME SocketInv, NEW port \in Ports, Bind4(port)
  PROVE  SocketInv'
<1>0. /\ SocketType /\ BindingHolds /\ Accounted /\ call \in Bind /\ call.op = "bind4"
      /\ call.c4 = 0 /\ call.c6 = 0 /\ 0 \in Marks
  BY CallShape, ListenersAssumption, Zenon DEF SocketInv, Bind4, BindingHolds, Binding
<1>1. PICK u \in Descriptors \ Open :
        /\ u = Unused /\ sockets' \in [Descriptors -> Socket \cup {Closed}]
        /\ sockets'[u] = [port |-> port, mark |-> 0] /\ Open' = Open \cup {u}
        /\ \A s \in Descriptors \ {u} : sockets'[s] = sockets[s]
  BY <1>0, Opened DEF Bind4
<1>2. call' = [call EXCEPT !.op = "bind6", !.want = port, !.c4 = u]
  BY <1>1, Zenon DEF Bind4
<1>3. call' \in Bind /\ call'.op = "bind6" /\ call'.want = port /\ call'.c4 = u /\ call'.c6 = 0 /\ u # 0
  <2>1. u # 0 /\ u \in Descriptor
    BY ListenersAssumption DEF Descriptors, Descriptor
  <2> QED BY <1>0, <1>2, <2>1, Zenon DEF Bind, Binding
<1>4. /\ Open = Targets \cup retired /\ Targets \cap retired = {} /\ Registered = {}
      /\ Targets \subseteq Descriptors
  BY <1>0, CallShape, Zenon DEF Accounted, Candidates, Registered, Pair, Binding
<1>5. /\ Targets' = Targets /\ SocketType' /\ OneOwner' /\ Unmoved' /\ MarksKnown'
      /\ \A s \in Targets : sockets'[s].port = listenPort
  BY <1>0, <1>1, <1>3, <1>4, RebindFrame, Zenon DEF Bind4, Binding
<1>6. Candidates' = {u} /\ Registered' = {}
  BY <1>3 DEF Candidates, Registered, Pair, Binding
<1>7. BindingHolds'
  BY <1>1, <1>3, <1>4, <1>5, <1>6 DEF BindingHolds
<1>8. Accounted'
  BY <1>0, <1>1, <1>4, <1>5, <1>6, Zenon DEF Accounted, Bind4
<1> QED BY <1>5, <1>7, <1>8, Zenon DEF SocketInv

\* The IPv6 candidate is bound to the same port, or the host has no IPv6.
LEMMA Bind6Step ==
  ASSUME SocketInv, Bind6 \/ Ipv6Unavailable
  PROVE  SocketInv'
<1>0. /\ SocketType /\ BindingHolds /\ Accounted /\ call \in Bind /\ call.op = "bind6"
      /\ call.c4 # 0 /\ call.c6 = 0 /\ call.want \in Ports /\ 0 \in Marks
  BY CallShape, ListenersAssumption, Zenon DEF SocketInv, Bind6, Ipv6Unavailable, BindingHolds, Binding
<1>1. /\ Candidates = {call.c4} /\ Registered = {} /\ Open = Targets \cup {call.c4} \cup retired
      /\ call.c4 \notin Targets /\ call.c4 \in Descriptors /\ Targets \subseteq Descriptors
      /\ sockets[call.c4].port = call.want
  BY <1>0, CallShape DEF Accounted, BindingHolds, Candidates, Registered, Pair, Binding, Bind, Descriptor
<1>2. CASE Ipv6Unavailable
  <2>1. call' \in Bind /\ call'.op = "mark" /\ call'.want = call.want /\ call'.c4 = call.c4 /\ call'.c6 = 0
    BY <1>0, <1>2, Zenon DEF Ipv6Unavailable, Bind, Binding
  <2>2. /\ Targets' = Targets /\ SocketType' /\ OneOwner' /\ Unmoved' /\ MarksKnown'
        /\ \A s \in Targets : sockets'[s].port = listenPort
    BY <1>0, <1>2, <2>1, RebindFrame, Zenon DEF Ipv6Unavailable, Binding, SocketType
  <2>3. Candidates' = {call.c4} /\ Registered' = {} /\ Open' = Open
    BY <1>0, <1>2, <2>1, Zenon DEF Candidates, Registered, Pair, Binding, Open, Ipv6Unavailable
  <2>4. BindingHolds'
    BY <1>0, <1>1, <1>2, <2>1, <2>2, <2>3, Zenon DEF BindingHolds, Ipv6Unavailable
  <2>5. Accounted'
    BY <1>0, <1>1, <1>2, <2>2, <2>3, Zenon DEF Accounted, Ipv6Unavailable
  <2> QED BY <2>2, <2>4, <2>5, Zenon DEF SocketInv
<1>3. CASE Bind6
  <2>1. PICK u \in Descriptors \ Open :
          /\ u = Unused /\ sockets' \in [Descriptors -> Socket \cup {Closed}]
          /\ sockets'[u] = [port |-> call.want, mark |-> 0] /\ Open' = Open \cup {u}
          /\ \A s \in Descriptors \ {u} : sockets'[s] = sockets[s]
    BY <1>0, <1>3, Opened DEF Bind6
  <2>2. call' = [call EXCEPT !.op = "mark", !.c6 = u]
    BY <1>3, <2>1, Zenon DEF Bind6
  <2>3. call' \in Bind /\ call'.op = "mark" /\ call'.want = call.want /\ call'.c4 = call.c4
        /\ call'.c6 = u /\ u # 0
    <3>1. u # 0 /\ u \in Descriptor
      BY ListenersAssumption DEF Descriptors, Descriptor
    <3> QED BY <1>0, <2>2, <3>1, Zenon DEF Bind, Binding
  <2>4. /\ Targets' = Targets /\ SocketType' /\ OneOwner' /\ Unmoved' /\ MarksKnown'
        /\ \A s \in Targets : sockets'[s].port = listenPort
    BY <1>0, <1>1, <1>3, <2>1, <2>3, RebindFrame, Zenon DEF Bind6, Binding
  <2>5. Candidates' = {call.c4, u} /\ Registered' = {}
    BY <1>0, <2>3, Zenon DEF Candidates, Registered, Pair, Binding
  <2>6. BindingHolds'
    BY <1>0, <1>1, <2>1, <2>3, <2>4, <2>5 DEF BindingHolds
  <2>7. Accounted'
    BY <1>0, <1>1, <1>3, <2>1, <2>4, <2>5, Zenon DEF Accounted, Bind6
  <2> QED BY <2>4, <2>6, <2>7, Zenon DEF SocketInv
<1> QED BY <1>2, <1>3, Zenon

\* The candidates take the stored mark while the old listeners still serve.
LEMMA MarkStep ==
  ASSUME SocketInv, MarkCandidates
  PROVE  SocketInv'
<1>0. SocketType /\ BindingHolds /\ Accounted /\ call \in Bind /\ call.op = "mark" /\ StoredMark \in Marks
  BY CallShape, Zenon DEF SocketInv, MarkCandidates, Binding
<1>1. /\ Candidates = Pair(call.c4, call.c6) /\ Registered = {}
      /\ Candidates \cap Targets = {} /\ Candidates \subseteq Open /\ Targets \subseteq Descriptors
      /\ \A s \in Candidates : sockets[s].port = call.want
  BY <1>0, CallShape, Zenon DEF Accounted, BindingHolds, Candidates, Registered, Binding
<1>2. \A s \in Descriptors :
        sockets'[s] = IF s \in Candidates THEN [sockets[s] EXCEPT !.mark = StoredMark] ELSE sockets[s]
  BY <1>1, Zenon DEF MarkCandidates
<1>3. \A s \in Candidates : /\ s \in Descriptors /\ sockets'[s] \in Socket
                            /\ sockets'[s].port = sockets[s].port /\ sockets'[s].mark = StoredMark
  <2> SUFFICES ASSUME NEW s \in Candidates
               PROVE  /\ s \in Descriptors /\ sockets'[s] \in Socket
                      /\ sockets'[s].port = sockets[s].port /\ sockets'[s].mark = StoredMark
    BY Zenon
  <2>1. s \in Descriptors /\ sockets[s] \in Socket
    BY <1>0, <1>1, Zenon DEF Open, SocketType
  <2> QED BY <1>0, <1>2, <2>1, Zenon DEF Socket
<1>4. sockets' \in [Descriptors -> Socket \cup {Closed}]
  <2>1. \A s \in Descriptors : sockets'[s] \in Socket \cup {Closed}
    BY <1>0, <1>2, <1>3, Zenon DEF SocketType
  <2>2. sockets' = [s \in Descriptors |-> sockets'[s]]
    BY Zenon DEF MarkCandidates
  <2> QED BY <2>1, <2>2, Zenon
<1>5. Open' = Open /\ \A s \in Targets : sockets'[s] = sockets[s]
  BY <1>1, <1>2, <1>3, SocketOpen, Zenon DEF Open
<1>6. call' \in Bind /\ call'.op = "register4" /\ call'.want = call.want /\ call'.c4 = call.c4
      /\ call'.c6 = call.c6
  BY <1>0, Zenon DEF MarkCandidates, Bind, Binding
<1>7. /\ Targets' = Targets /\ SocketType' /\ OneOwner' /\ Unmoved' /\ MarksKnown'
      /\ StoredMark' = StoredMark /\ \A s \in Targets : sockets'[s].port = listenPort
  BY <1>0, <1>4, <1>5, <1>6, RebindFrame, Zenon DEF MarkCandidates, Binding
<1>8. Candidates' = Candidates /\ Registered' = {}
  BY <1>1, <1>6, Zenon DEF Candidates, Registered, Binding
<1>9. BindingHolds'
  BY <1>0, <1>1, <1>3, <1>6, <1>7, <1>8, Zenon DEF BindingHolds, Binding
<1>10. Accounted'
  BY <1>0, <1>1, <1>5, <1>7, <1>8, Zenon DEF Accounted, MarkCandidates
<1> QED BY <1>7, <1>9, <1>10, Zenon DEF SocketInv

\* The candidates' handlers join those of the listeners in force.
LEMMA RegisterStep ==
  ASSUME SocketInv, Register4 \/ Register6
  PROVE  SocketInv'
<1>0. SocketType /\ BindingHolds /\ Accounted /\ call \in Bind /\ call.op \in {"register4", "register6"}
  BY CallShape, Zenon DEF SocketInv, Register4, Register6, Binding
<1>1. /\ call' \in Bind /\ call'.want = call.want /\ call'.c4 = call.c4 /\ call'.c6 = call.c6
      /\ call'.op \in {"register6", "commit"} /\ (call'.op = "register6" => call.c6 # 0)
  BY <1>0, Zenon DEF Register4, Register6, Bind, Binding
<1>2. UNCHANGED <<sockets, udp4, udp6, fds, listenPort, conns, retired, fwmark, before, stuck>>
  BY Zenon DEF Register4, Register6
<1>3. /\ Targets' = Targets /\ SocketType' /\ OneOwner' /\ Unmoved' /\ MarksKnown'
      /\ StoredMark' = StoredMark /\ \A s \in Targets : sockets'[s].port = listenPort
  BY <1>0, <1>1, <1>2, RebindFrame, Zenon DEF SocketType, Binding
<1>4. Candidates' = Candidates /\ Candidates = Pair(call.c4, call.c6) /\ Open' = Open
  BY <1>0, <1>1, <1>2, Zenon DEF Candidates, Open, Binding
<1>5. BindingHolds'
  BY <1>0, <1>1, <1>2, <1>3, <1>4, Zenon DEF BindingHolds, Binding
<1>6. events' = fds \cup Registered'
  <2>1. CASE Register4
    <3>1. Registered = {} /\ events' = events \cup {call.c4} /\ call.c4 # 0
      BY <1>0, <2>1, Zenon DEF Register4, Registered, BindingHolds, Binding
    <3>2. Registered' = {call.c4}
      BY <1>0, <1>1, <1>4, <2>1, <3>1, Zenon DEF Register4, Registered, Pair, Bind
    <3> QED BY <1>0, <3>1, <3>2, Zenon DEF Accounted
  <2>2. CASE Register6
    <3>1. Registered = {call.c4} /\ events' = events \cup {call.c6} /\ call.c4 # 0 /\ call.c6 # 0
      BY <1>0, <2>2, Zenon DEF Register6, Registered, BindingHolds, Binding
    <3>2. Registered' = {call.c4, call.c6}
      BY <1>0, <1>1, <1>4, <2>2, <3>1, Zenon DEF Register6, Registered, Pair, Bind
    <3> QED BY <1>0, <3>1, <3>2, Zenon DEF Accounted
  <2> QED BY <2>1, <2>2, Zenon
<1>7. Accounted'
  BY <1>0, <1>2, <1>3, <1>4, <1>6, Zenon DEF Accounted
<1> QED BY <1>3, <1>5, <1>7, Zenon DEF SocketInv

\* The candidates become the listeners, the old ones close, and the connected
\* sockets of the old port are shut.
LEMMA CommitStep ==
  ASSUME SocketInv, Commit
  PROVE  SocketInv'
<1>0. SocketType /\ BindingHolds /\ Accounted /\ call \in Bind /\ call.op = "commit"
  BY CallShape, Zenon DEF SocketInv, Commit, Binding
<1> DEFINE shut == {conns[p] : p \in Peers} \ {0}
<1>1. /\ Candidates = Pair(call.c4, call.c6) /\ Registered = Candidates
      /\ Open = Targets \cup Candidates \cup retired /\ (Targets \cup Candidates) \cap retired = {}
      /\ Candidates \cap Targets = {} /\ Candidates \subseteq Descriptors
      /\ call.c4 # 0 /\ call.c4 # call.c6 /\ call.want \in Ports
      /\ \A s \in Candidates : sockets[s].port = call.want /\ sockets[s].mark = StoredMark
  BY <1>0, CallShape, Zenon DEF Accounted, BindingHolds, Candidates, Registered, Binding
<1>2. /\ Targets = Pair(udp4, udp6) \cup shut /\ Pair(udp4, udp6) \cap shut = {}
      /\ 0 \notin Candidates
  BY Zenon DEF SocketInv, OneOwner, Targets, Pair, Candidates
<1>3. Targets \subseteq Descriptors
  BY <1>0, CallShape, Zenon
<1>4. /\ sockets' \in [Descriptors -> Socket \cup {Closed}] /\ Open' = Open \ Pair(udp4, udp6)
      /\ \A s \in Descriptors \ Pair(udp4, udp6) : sockets'[s] = sockets[s]
  BY <1>0, Shut, Zenon DEF Commit
<1>5. /\ retired' = retired \cup shut /\ Open' = Candidates \cup retired'
      /\ Candidates \cap retired' = {} /\ \A s \in Candidates : sockets'[s] = sockets[s]
  <2>1. retired' = retired \cup shut
    BY Zenon DEF Commit
  <2> HIDE DEF shut
  <2> QED BY <1>1, <1>2, <1>3, <1>4, <2>1, Zenon
<1>6. call' = Idle /\ call'.op = "idle" /\ udp4' = call.c4 /\ udp6' = call.c6 /\ fds' = Candidates
      /\ listenPort' = call.want /\ conns' = [p \in Peers |-> 0] /\ fwmark' = fwmark
  BY <1>1, Zenon DEF Commit, Idle
<1>7. Targets' = Candidates /\ Candidates' = {} /\ Registered' = {} /\ StoredMark' = StoredMark
  BY <1>1, <1>6, Zenon DEF Targets, Candidates, Registered, Pair, Binding, StoredMark
<1>8. SocketType'
  BY <1>0, <1>1, <1>4, <1>6, Zenon DEF SocketType, Bind, Descriptor
<1>9. OneOwner' /\ BindingHolds' /\ Unmoved'
  BY <1>1, <1>6, Zenon DEF OneOwner, BindingHolds, Unmoved, Binding
<1>10. Accounted'
  <2>1. events' = Candidates
    BY <1>0, <1>1, Zenon DEF Accounted, Commit, Targets
  <2> QED BY <1>1, <1>5, <1>6, <1>7, <2>1, Zenon DEF Accounted
<1>11. MarksKnown'
  BY <1>1, <1>5, <1>6, <1>7, Zenon DEF MarksKnown
<1> QED BY <1>8, <1>9, <1>10, <1>11, Zenon DEF SocketInv

\* A rebind's refusal, or a mark's, is reported with nothing left to undo.
LEMMA RefusedStep ==
  ASSUME SocketInv, Refused
  PROVE  SocketInv'
<1>0. SocketType /\ call.op = "refused" /\ call'.op = "idle" /\ call' = Idle
  BY Zenon DEF SocketInv, Refused, Idle
<1>1. Targets' = Targets /\ Open' = Open /\ StoredMark' = StoredMark
  BY Zenon DEF Refused, Targets, Open, StoredMark
<1>2. Candidates = {} /\ Candidates' = {} /\ Registered = {} /\ Registered' = {}
  BY <1>0, Zenon DEF Candidates, Registered, Binding
<1>3. SocketType' /\ OneOwner'
  BY <1>0, Zenon DEF SocketInv, SocketType, OneOwner, Refused
<1>4. Accounted' /\ BindingHolds' /\ Unmoved' /\ MarksKnown'
  BY <1>0, <1>1, <1>2, Zenon DEF SocketInv, Accounted, BindingHolds, Unmoved, MarksKnown, Refused, Binding
<1> QED BY <1>3, <1>4, Zenon DEF SocketInv

-----------------------------------------------------------------------------
\* A connected socket opens on the listen port with the stored mark.
LEMMA ConnectStep ==
  ASSUME SocketInv, NEW p \in Peers, ConnectEndpoint(p)
  PROVE  SocketInv'
<1>0. /\ SocketType /\ OneOwner /\ Accounted /\ MarksKnown /\ call.op = "idle" /\ udp4 # 0 /\ conns[p] = 0
      /\ listenPort \in Ports /\ StoredMark \in Marks
  BY CallShape, Zenon DEF SocketInv, ConnectEndpoint, OneOwner
<1>1. PICK u \in Descriptors \ Open :
        /\ u = Unused /\ sockets' \in [Descriptors -> Socket \cup {Closed}]
        /\ sockets'[u] = [port |-> listenPort, mark |-> StoredMark] /\ Open' = Open \cup {u}
        /\ \A s \in Descriptors \ {u} : sockets'[s] = sockets[s]
  BY <1>0, Opened DEF ConnectEndpoint
<1>2. conns' = [conns EXCEPT ![p] = u] /\ u # 0 /\ u \in Descriptor
  BY <1>1, ListenersAssumption DEF ConnectEndpoint, Descriptor, Descriptors
<1>3. Candidates = {} /\ Candidates' = {} /\ Registered = {} /\ Registered' = {} /\ call' = call
      /\ call'.op = "idle" /\ StoredMark' = StoredMark
  BY <1>0, Zenon DEF Candidates, Registered, Binding, ConnectEndpoint, StoredMark
<1>4. /\ Open = Targets \cup retired /\ Targets \cap retired = {} /\ retired' = retired
      /\ Targets \subseteq Descriptors
  BY <1>0, <1>3, CallShape, Zenon DEF Accounted, ConnectEndpoint
<1>5. conns'[p] = u /\ \A q \in Peers \ {p} : conns'[q] = conns[q]
  BY <1>0, <1>2, Zenon DEF SocketType
<1>6. Targets' = Targets \cup {u} /\ u \notin Targets
  <2>1. {conns'[q] : q \in Peers} \ {0} = ({conns[q] : q \in Peers} \ {0}) \cup {u}
    BY <1>0, <1>2, <1>5, Zenon
  <2> QED BY <1>1, <1>4, <2>1, Zenon DEF Targets, ConnectEndpoint
<1>7. SocketType'
  BY <1>0, <1>1, <1>2, <1>3, Zenon DEF SocketType, ConnectEndpoint
<1>8. OneOwner'
  <2>1. \A q \in Peers : conns[q] # 0 => conns[q] \in Targets
    BY Zenon DEF Targets
  <2>2. u \notin {udp4, udp6}
    BY <1>2, <1>6, Zenon DEF Targets, Pair
  <2> QED BY <1>0, <1>2, <1>5, <1>6, <2>1, <2>2 DEF OneOwner, ConnectEndpoint
<1>9. BindingHolds' /\ Unmoved'
  BY <1>3, Zenon DEF BindingHolds, Unmoved, Binding
<1>10. Accounted'
  BY <1>0, <1>1, <1>3, <1>4, <1>6 DEF Accounted, ConnectEndpoint
<1>11. MarksKnown'
  <2>1. \A s \in Targets \ stuck : sockets[s].mark = StoredMark
    BY <1>0, Zenon DEF MarksKnown
  <2>2. \A s \in Targets : sockets'[s] = sockets[s]
    BY <1>1, <1>4, <1>6, Zenon
  <2>3. stuck' = stuck
    BY Zenon DEF ConnectEndpoint
  <2>4. \A s \in Targets' \ stuck' : sockets'[s].mark = StoredMark'
    BY <1>1, <1>3, <1>6, <2>1, <2>2, <2>3
  <2> QED BY <1>3, <2>4, Zenon DEF MarksKnown
<1> QED BY <1>7, <1>8, <1>9, <1>10, <1>11, Zenon DEF SocketInv

\* A connected socket that is shut leaves its peer and stays open.
LEMMA ShutdownStep ==
  ASSUME SocketInv, NEW p \in Peers, ShutdownEndpoint(p)
  PROVE  SocketInv'
<1>0. /\ SocketType /\ OneOwner /\ Accounted /\ MarksKnown /\ call.op = "idle" /\ conns[p] # 0
  BY CallShape, Zenon DEF SocketInv, ShutdownEndpoint
<1>1. PICK u \in Descriptors : u = conns[p]
  BY <1>0, Zenon DEF SocketType, Descriptor
<1>2. sockets' = sockets /\ Open' = Open /\ retired' = retired \cup {u} /\ stuck' = stuck \ {u}
  BY <1>1, Zenon DEF ShutdownEndpoint, Open
<1>3. Candidates = {} /\ Candidates' = {} /\ Registered = {} /\ Registered' = {} /\ call' = call
      /\ call'.op = "idle" /\ StoredMark' = StoredMark
  BY <1>0, Zenon DEF Candidates, Registered, Binding, ShutdownEndpoint, StoredMark
<1>4. Open = Targets \cup retired /\ Targets \cap retired = {} /\ u \in Targets
  BY <1>0, <1>1, <1>3, Zenon DEF Accounted, Targets
<1>5. conns'[p] = 0 /\ \A q \in Peers \ {p} : conns'[q] = conns[q]
  BY <1>0, Zenon DEF SocketType, ShutdownEndpoint
<1>6. Targets' = Targets \ {u}
  <2>1. {conns'[q] : q \in Peers} \ {0} = ({conns[q] : q \in Peers} \ {0}) \ {u}
    BY <1>0, <1>1, <1>5 DEF OneOwner
  <2>2. u \notin Pair(udp4, udp6)
    BY <1>0, <1>1, Zenon DEF OneOwner, Pair
  <2> QED BY <2>1, <2>2, Zenon DEF Targets, ShutdownEndpoint
<1>7. SocketType'
  BY <1>0, <1>2, <1>3, Zenon DEF SocketType, ShutdownEndpoint, Descriptor
<1>8. OneOwner'
  BY <1>0, <1>5, Zenon DEF OneOwner, ShutdownEndpoint
<1>9. BindingHolds' /\ Unmoved'
  BY <1>3, Zenon DEF BindingHolds, Unmoved, Binding
<1>10. Accounted'
  BY <1>0, <1>2, <1>3, <1>4, <1>6, Zenon DEF Accounted, ShutdownEndpoint
<1>11. MarksKnown'
  BY <1>0, <1>1, <1>2, <1>3, <1>4, <1>6, ZenonT(30) DEF MarksKnown, ShutdownEndpoint
<1> QED BY <1>7, <1>8, <1>9, <1>10, <1>11, Zenon DEF SocketInv

\* A shut socket closes with its handler, and no other does.
LEMMA ReclaimStep ==
  ASSUME SocketInv, NEW u \in Descriptors, Reclaim(u)
  PROVE  SocketInv'
<1>0. SocketType /\ OneOwner /\ Accounted /\ MarksKnown /\ call.op = "idle" /\ u \in retired
  BY CallShape, Zenon DEF SocketInv, Reclaim
<1>1. /\ sockets' \in [Descriptors -> Socket \cup {Closed}] /\ Open' = Open \ {u}
      /\ \A s \in Descriptors \ {u} : sockets'[s] = sockets[s]
  BY <1>0, Shut, Zenon DEF Reclaim
<1>2. /\ retired' = retired \ {u} /\ Targets' = Targets /\ StoredMark' = StoredMark
      /\ UNCHANGED <<udp4, udp6, fds, events, listenPort, conns, fwmark, call, before, stuck>>
  BY Zenon DEF Reclaim, Targets, StoredMark
<1>3. Candidates = {} /\ Candidates' = {} /\ Registered = {} /\ Registered' = {} /\ call'.op = "idle"
  BY <1>0, <1>2, Zenon DEF Candidates, Registered, Binding
<1>4. Open = Targets \cup retired /\ Targets \cap retired = {} /\ Targets \subseteq Descriptors
  BY <1>0, <1>3, CallShape, Zenon DEF Accounted
<1>5. \A s \in Targets : sockets'[s] = sockets[s]
  BY <1>0, <1>1, <1>4, Zenon
<1>6. SocketType' /\ OneOwner'
  BY <1>0, <1>1, <1>2, Zenon DEF SocketType, OneOwner
<1>7. BindingHolds' /\ Unmoved'
  BY <1>3, Zenon DEF BindingHolds, Unmoved, Binding
<1>8. Accounted'
  BY <1>0, <1>1, <1>2, <1>3, <1>4, <1>5, Zenon DEF Accounted
<1>9. MarksKnown'
  BY <1>0, <1>2, <1>3, <1>5, Zenon DEF MarksKnown
<1> QED BY <1>6, <1>7, <1>8, <1>9, Zenon DEF SocketInv

-----------------------------------------------------------------------------
\* Through an update of the mark only marks move.
LEMMA MarkFrame ==
  ASSUME SocketInv, call.op \in {"idle", "apply", "restore"},
         UNCHANGED <<udp4, udp6, fds, events, listenPort, conns, retired>>,
         sockets' \in [Descriptors -> Socket \cup {Closed}], Open' = Open,
         \A s \in Targets : sockets'[s].port = sockets[s].port,
         fwmark' \in Marks \cup {NoMark}, call' \in Update \cup Restore \cup {Idle}
  PROVE  /\ Targets' = Targets /\ SocketType' /\ OneOwner' /\ BindingHolds' /\ Accounted' /\ Unmoved'
<1>0. SocketType /\ OneOwner /\ Accounted
  BY Zenon DEF SocketInv
<1>1. Targets' = Targets
  BY Zenon DEF Targets
<1>2. SocketType'
  BY <1>0, Zenon DEF SocketType
<1>3. OneOwner'
  BY <1>0, Zenon DEF OneOwner
<1>4. call'.op \in {"idle", "apply", "restore"}
  BY DEF Update, Restore, Idle
<1>5. Candidates = {} /\ Candidates' = {} /\ Registered = {} /\ Registered' = {}
  BY <1>4, Zenon DEF Candidates, Registered, Binding
<1>6. Accounted' /\ BindingHolds' /\ Unmoved'
  BY <1>0, <1>1, <1>4, <1>5, Zenon DEF Accounted, BindingHolds, Unmoved, Binding
<1> QED BY <1>1, <1>2, <1>3, <1>6, Zenon

\* set_fwmark reads every mark before it changes one.
LEMMA SetFwmarkStep ==
  ASSUME SocketInv, NEW mark \in Marks, SetFwmark(mark)
  PROVE  SocketInv'
<1>0. SocketType /\ MarksKnown /\ call.op = "idle"
      /\ Targets \subseteq Descriptors /\ Open' = Open /\ StoredMark' = StoredMark
  BY CallShape, Zenon DEF SocketInv, SetFwmark, Open, StoredMark
<1>1. PICK n \in 0..MaxSockets : \E order \in [1..n -> Targets] :
        /\ InMarkOrder(order)
        /\ call' = [op |-> "apply", mark |-> mark, todo |-> order, done |-> <<>>]
  BY Zenon DEF SetFwmark
<1>2. PICK order \in [1..n -> Targets] :
        /\ InMarkOrder(order)
        /\ call' = [op |-> "apply", mark |-> mark, todo |-> order, done |-> <<>>]
  BY <1>1, Zenon
<1>3. order \in Seq(Descriptors) /\ \A s \in Targets : \E i \in DOMAIN order : order[i] = s
  BY <1>0, <1>2, ListenersAssumption DEF InMarkOrder
<1>4. call' \in Update /\ call'.op = "apply" /\ call'.todo = order /\ call'.done = <<>>
      /\ DOMAIN call'.done = {}
  BY <1>2, <1>3 DEF Update
<1>5. Targets' = Targets /\ SocketType' /\ OneOwner' /\ BindingHolds' /\ Accounted' /\ Unmoved'
  BY <1>0, <1>4, MarkFrame, Zenon DEF SetFwmark, SocketType
<1>6. MarksKnown'
  BY <1>0, <1>3, <1>4, <1>5, ZenonT(30) DEF MarksKnown, SetFwmark, Done
<1> QED BY <1>5, <1>6, Zenon DEF SocketInv

\* A mark applied is remembered with the mark it replaced.
LEMMA ApplyStep ==
  ASSUME SocketInv, ApplyMark
  PROVE  SocketInv'
<1>0. /\ SocketType /\ MarksKnown /\ call \in Update /\ call.op = "apply" /\ call.todo # <<>>
      /\ call.todo \in Seq(Descriptors) /\ call.done \in Seq(Remembered) /\ call.mark \in Marks
      /\ StoredMark' = StoredMark
  BY CallShape, Zenon DEF SocketInv, ApplyMark, Update, StoredMark
<1> DEFINE entry == [socket |-> Head(call.todo), previous |-> sockets[Head(call.todo)].mark]
<1>1. PICK s \in Targets : s = Head(call.todo)
  <2>1. Head(call.todo) = call.todo[1] /\ 1 \in DOMAIN call.todo
    BY <1>0
  <2> QED BY <1>0, <2>1, Zenon DEF MarksKnown
<1>2. s \in Open /\ s \in Descriptors /\ sockets[s] \in Socket
  BY <1>0, CallShape, Zenon DEF SocketInv, Accounted, Open, SocketType
<1>3. sockets' = [sockets EXCEPT ![s].mark = call.mark]
  BY <1>1, Zenon DEF ApplyMark
<1>4. /\ sockets' \in [Descriptors -> Socket \cup {Closed}] /\ Open' = Open
      /\ sockets'[s].mark = call.mark
      /\ \A t \in Descriptors : sockets'[t].port = sockets[t].port
      /\ \A t \in Descriptors \ {s} : sockets'[t] = sockets[t]
  BY <1>0, <1>2, <1>3, Marked, Zenon
<1>5. entry \in Remembered /\ entry.socket = s /\ entry.previous = sockets[s].mark
  BY <1>1, <1>2, Zenon DEF Remembered, Socket
<1>6. call' = [call EXCEPT !.todo = Tail(call.todo), !.done = Append(call.done, entry)]
  BY Zenon DEF ApplyMark
<1>7. /\ call' \in Update /\ call'.op = "apply" /\ call'.mark = call.mark
      /\ call'.todo = Tail(call.todo) /\ call'.done = Append(call.done, entry)
  <2>1. Tail(call.todo) \in Seq(Descriptors) /\ Append(call.done, entry) \in Seq(Remembered)
    <3> HIDE DEF entry
    <3>1. Tail(call.todo) \in Seq(Descriptors)
      BY <1>0
    <3>2. Append(call.done, entry) \in Seq(Remembered)
      BY <1>0, <1>5
    <3> QED BY <3>1, <3>2, Zenon
  <2> HIDE DEF entry
  <2> QED BY <1>0, <1>6, <2>1, Zenon DEF Update
<1>8. Targets \subseteq Descriptors
  BY <1>0, CallShape
<1>9. Targets' = Targets /\ SocketType' /\ OneOwner' /\ BindingHolds' /\ Accounted' /\ Unmoved'
  BY <1>0, <1>4, <1>7, <1>8, MarkFrame, Zenon DEF ApplyMark, SocketType
<1> DEFINE last == Len(call.done) + 1
<1>10. /\ DOMAIN call'.done = 1..last /\ call'.done[last] = entry
       /\ \A n \in DOMAIN call.done : n \in 1..(last - 1) /\ n \in DOMAIN call'.done /\ call'.done[n] = call.done[n]
       /\ \A n \in DOMAIN call'.done : n = last \/ n \in DOMAIN call.done
       /\ last \in Nat /\ last \in DOMAIN call'.done
  <2> HIDE DEF entry
  <2> QED BY <1>0, <1>5, <1>7
<1>11. /\ \A n \in DOMAIN call'.todo : \E m \in DOMAIN call.todo : call'.todo[n] = call.todo[m]
       /\ \A m \in DOMAIN call.todo : call.todo[m] = s \/ \E n \in DOMAIN call'.todo : call'.todo[n] = call.todo[m]
  <2>1. \A n \in DOMAIN call'.todo : n + 1 \in DOMAIN call.todo /\ call'.todo[n] = call.todo[n + 1]
    BY <1>0, <1>7
  <2>2. \A m \in DOMAIN call.todo : m = 1 \/ (m - 1 \in DOMAIN call'.todo /\ call'.todo[m - 1] = call.todo[m])
    BY <1>0, <1>7
  <2>3. call.todo[1] = s
    BY <1>0, <1>1
  <2> QED BY <2>1, <2>2, <2>3, Zenon
<1>12. \A t : Done(t)' <=> (Done(t) \/ t = s)
  <2> HIDE DEF entry, last
  <2> QED BY <1>5, <1>10, Zenon DEF Done
<1>13. MarksKnown'
  <2>1. \A t \in Targets \ stuck : sockets'[t].mark = StoredMark \/ Done(t)'
    BY <1>0, <1>4, <1>8, <1>12, Zenon DEF MarksKnown
  <2>2. \A n \in DOMAIN call'.done :
          /\ call'.done[n].socket \in Targets
          /\ \/ call'.done[n].previous = StoredMark
             \/ call'.done[n].socket \in stuck
             \/ \E m \in 1..(n - 1) : call'.done[m].socket = call'.done[n].socket
    <3> SUFFICES ASSUME NEW n \in DOMAIN call'.done
                 PROVE  /\ call'.done[n].socket \in Targets
                        /\ \/ call'.done[n].previous = StoredMark
                           \/ call'.done[n].socket \in stuck
                           \/ \E m \in 1..(n - 1) : call'.done[m].socket = call'.done[n].socket
      BY Zenon
    <3>1. CASE n \in DOMAIN call.done
      <4>1. \A m \in 1..(n - 1) : m \in DOMAIN call.done
        BY <1>0, <3>1
      <4> QED BY <1>0, <1>10, <3>1, <4>1, ZenonT(30) DEF MarksKnown
    <3>2. CASE n = last
      <4>1. CASE Done(s)
        <5>1. PICK m \in DOMAIN call.done : call.done[m].socket = s
          BY <4>1, Zenon DEF Done
        <5>2. m \in 1..(n - 1) /\ call'.done[m].socket = s
          BY <1>10, <3>2, <5>1, Zenon
        <5>3. call'.done[n].socket = s
          BY <1>5, <1>10, <3>2, Zenon
        <5> QED BY <5>2, <5>3, Zenon
      <4>2. CASE ~Done(s)
        <5>1. s \in stuck \/ sockets[s].mark = StoredMark
          BY <1>0, <4>2, Zenon DEF MarksKnown
        <5> QED BY <1>5, <1>10, <3>2, <5>1, Zenon
      <4> QED BY <4>1, <4>2, Zenon
    <3> QED BY <1>10, <3>1, <3>2, Zenon
  <2>3. \A t \in Targets : (\E n \in DOMAIN call'.todo : call'.todo[n] = t) \/ Done(t)'
    BY <1>0, <1>11, <1>12, Zenon DEF MarksKnown
  <2>4. \A n \in DOMAIN call'.todo : call'.todo[n] \in Targets
    BY <1>0, <1>11, Zenon DEF MarksKnown
  <2>5. \A n \in DOMAIN call'.done : sockets'[call'.done[n].socket].mark = call.mark
    <3> SUFFICES ASSUME NEW n \in DOMAIN call'.done
                 PROVE  sockets'[call'.done[n].socket].mark = call.mark
      BY Zenon
    <3>1. CASE n = last
      BY <1>4, <1>5, <1>10, <3>1
    <3>2. CASE n \in DOMAIN call.done
      <4>1. call.done[n].socket \in Targets /\ sockets[call.done[n].socket].mark = call.mark
        BY <1>0, <3>2, Zenon DEF MarksKnown
      <4> QED BY <1>4, <1>8, <1>10, <3>2, <4>1, Zenon
    <3> QED BY <1>10, <3>1, <3>2, Zenon
  <2>6. UNCHANGED stuck
    BY Zenon DEF ApplyMark
  <2> HIDE DEF entry, last
  <2> QED BY <1>0, <1>7, <1>9, <2>1, <2>2, <2>3, <2>4, <2>5, <2>6, Zenon DEF MarksKnown
<1> QED BY <1>9, <1>13, Zenon DEF SocketInv

\* An update that ends, or is refused and turns back.
LEMMA UpdateEnds ==
  ASSUME SocketInv, ApplyRefused \/ StoreMark \/ Restored
  PROVE  SocketInv'
<1>0. SocketType /\ MarksKnown /\ Targets \subseteq Descriptors
  BY CallShape, Zenon DEF SocketInv
<1>1. CASE ApplyRefused
  <2>1. call \in Update /\ call.op = "apply" /\ call.done \in Seq(Remembered) /\ Open' = Open
        /\ StoredMark' = StoredMark
    BY <1>0, <1>1, CallShape DEF ApplyRefused, Update, Open, StoredMark
  <2>2. call' \in Restore /\ call'.op = "restore" /\ call'.done = call.done
    BY <1>1, <2>1, Zenon DEF ApplyRefused, Restore
  <2>3. Targets' = Targets /\ SocketType' /\ OneOwner' /\ BindingHolds' /\ Accounted' /\ Unmoved'
    BY <1>0, <1>1, <2>1, <2>2, MarkFrame, Zenon DEF ApplyRefused, SocketType
  <2>4. MarksKnown'
    BY <1>0, <1>1, <2>1, <2>2, <2>3, ZenonT(30) DEF MarksKnown, Done, ApplyRefused
  <2> QED BY <2>3, <2>4, Zenon DEF SocketInv
<1>2. CASE StoreMark
  <2>1. /\ call \in Update /\ call.op = "apply" /\ call.mark \in Marks /\ Open' = Open
        /\ DOMAIN call.todo = {}
    BY <1>0, <1>2, CallShape DEF StoreMark, Update, Open
  <2>2. call' = Idle /\ call'.op = "idle" /\ fwmark' = call.mark /\ stuck' = {} /\ UNCHANGED sockets
    BY <1>2, Zenon DEF StoreMark, Idle
  <2>3. Targets' = Targets /\ SocketType' /\ OneOwner' /\ BindingHolds' /\ Accounted' /\ Unmoved'
    BY <1>0, <1>2, <2>1, <2>2, MarkFrame, Zenon DEF StoreMark, SocketType
  <2>4. StoredMark' = call.mark
    BY <2>1, <2>2, ListenersAssumption, Zenon DEF StoredMark
  <2>5. \A s \in Targets : sockets[s].mark = call.mark
    BY <1>0, <2>1 DEF MarksKnown, Done
  <2>6. MarksKnown'
    BY <2>2, <2>3, <2>4, <2>5, Zenon DEF MarksKnown
  <2> QED BY <2>3, <2>6, Zenon DEF SocketInv
<1>3. CASE Restored
  <2>1. call.op = "restore" /\ Open' = Open /\ StoredMark' = StoredMark /\ DOMAIN call.done = {}
    <3>1. call.op = "restore" /\ call.done = <<>> /\ UNCHANGED <<sockets, fwmark>>
      BY <1>3, Zenon DEF Restored
    <3> QED BY <3>1 DEF Open, StoredMark
  <2>2. call' = Idle /\ call'.op = "idle"
    BY <1>3, Zenon DEF Restored, Idle
  <2>3. Targets' = Targets /\ SocketType' /\ OneOwner' /\ BindingHolds' /\ Accounted' /\ Unmoved'
    BY <1>0, <1>3, <2>1, <2>2, MarkFrame, Zenon DEF Restored, SocketType
  <2>4. MarksKnown'
    BY <1>0, <1>3, <2>1, <2>2, <2>3, Zenon DEF MarksKnown, Done, Restored
  <2> QED BY <2>3, <2>4, Zenon DEF SocketInv
<1> QED BY <1>1, <1>2, <1>3, Zenon

\* restore_marks, newest first: what is put back on an earlier mark is
\* remembered with the stored one, or will be put back again.
LEMMA RestoreStep ==
  ASSUME SocketInv, NEW ok \in BOOLEAN, RestoreMark(ok)
  PROVE  SocketInv'
<1>0. /\ SocketType /\ MarksKnown /\ call \in Restore /\ call.op = "restore" /\ call.done # <<>>
      /\ call.done \in Seq(Remembered) /\ StoredMark' = StoredMark /\ Targets \subseteq Descriptors
  BY CallShape, Zenon DEF SocketInv, RestoreMark, Restore, StoredMark
<1> DEFINE end == Len(call.done)
<1>1. end \in DOMAIN call.done /\ end \in Nat /\ DOMAIN call.done = 1..end /\ call.done[end] \in Remembered
  BY <1>0
<1>2. PICK s \in Targets : s = call.done[end].socket
  BY <1>0, <1>1, Zenon DEF MarksKnown
<1>3. PICK mark \in Marks : mark = call.done[end].previous
  BY <1>1, Zenon DEF Remembered
<1>4. \/ mark = StoredMark \/ s \in stuck
      \/ \E m \in 1..(end - 1) : call.done[m].socket = s
  BY <1>0, <1>1, <1>2, <1>3, Zenon DEF MarksKnown
<1>5. s \in Open
  BY <1>0, Zenon DEF SocketInv, Accounted
<1>6. /\ sockets' \in [Descriptors -> Socket \cup {Closed}] /\ Open' = Open
      /\ \A t \in Descriptors : sockets'[t].port = sockets[t].port
      /\ \A t \in Descriptors \ {s} : sockets'[t] = sockets[t]
      /\ (ok /\ sockets'[s].mark = mark /\ stuck' = stuck) \/ stuck' = stuck \cup {s}
  <2>1. CASE ok
    <3>1. sockets' = [sockets EXCEPT ![s].mark = mark] /\ stuck' = stuck
      BY <1>2, <1>3, <2>1, Zenon DEF RestoreMark
    <3> QED BY <1>0, <1>5, <2>1, <3>1, Marked, Zenon
  <2>2. CASE ~ok
    BY <1>0, <1>2, <2>2, Zenon DEF RestoreMark, SocketType, Open
  <2> QED BY <2>1, <2>2, Zenon
<1>7. call' = [call EXCEPT !.done = SubSeq(call.done, 1, end - 1)]
  BY Zenon DEF RestoreMark
<1>8. /\ SubSeq(call.done, 1, end - 1) \in Seq(Remembered)
      /\ DOMAIN SubSeq(call.done, 1, end - 1) = 1..(end - 1)
      /\ \A n \in 1..(end - 1) : SubSeq(call.done, 1, end - 1)[n] = call.done[n]
  BY <1>0, <1>1
<1>9. /\ call' \in Restore /\ call'.op = "restore" /\ DOMAIN call'.done = 1..(end - 1)
      /\ \A n \in 1..(end - 1) : n \in DOMAIN call.done /\ call'.done[n] = call.done[n]
  <2>1. \A n \in 1..(end - 1) : n \in DOMAIN call.done
    BY <1>1
  <2> HIDE DEF end
  <2> QED BY <1>0, <1>7, <1>8, <2>1, Zenon DEF Restore
<1>10. Targets' = Targets /\ SocketType' /\ OneOwner' /\ BindingHolds' /\ Accounted' /\ Unmoved'
  BY <1>0, <1>6, <1>9, MarkFrame, Zenon DEF RestoreMark, SocketType
<1>11. \A t : Done(t) => t = s \/ Done(t)'
  <2>1. \A n \in DOMAIN call.done : n = end \/ n \in 1..(end - 1)
    BY <1>1
  <2> HIDE DEF end
  <2> QED BY <1>2, <1>9, <2>1, Zenon DEF Done
<1>12. MarksKnown'
  <2>1. \A t \in Targets \ stuck' : sockets'[t].mark = StoredMark \/ Done(t)'
    <3> SUFFICES ASSUME NEW t \in Targets, t \notin stuck'
                 PROVE  sockets'[t].mark = StoredMark \/ Done(t)'
      OBVIOUS
    <3>1. CASE t # s
      BY <1>0, <1>6, <1>11, <3>1, Zenon DEF MarksKnown
    <3>2. CASE t = s
      <4>1. sockets'[s].mark = mark /\ s \notin stuck
        BY <1>6, <3>2, Zenon
      <4>2. (\E m \in 1..(end - 1) : call.done[m].socket = s) => Done(s)'
        BY <1>9, Zenon DEF Done
      <4> QED BY <1>4, <3>2, <4>1, <4>2, Zenon
    <3> QED BY <3>1, <3>2, Zenon
  <2>2. \A n \in DOMAIN call'.done :
          /\ call'.done[n].socket \in Targets
          /\ \/ call'.done[n].previous = StoredMark
             \/ call'.done[n].socket \in stuck'
             \/ \E m \in 1..(n - 1) : call'.done[m].socket = call'.done[n].socket
    <3>1. \A n \in 1..(end - 1) : \A m \in 1..(n - 1) : m \in 1..(end - 1)
      BY <1>1
    <3>2. stuck \subseteq stuck'
      BY <1>6, Zenon
    <3> HIDE DEF end
    <3> QED BY <1>0, <1>9, <3>1, <3>2, Zenon DEF MarksKnown
  <2> HIDE DEF end
  <2> QED BY <1>0, <1>9, <1>10, <2>1, <2>2, Zenon DEF MarksKnown
<1> QED BY <1>10, <1>12, Zenon DEF SocketInv

-----------------------------------------------------------------------------
\* Every step keeps the invariant.
LEMMA SocketStep == SocketInv /\ [Next]_vars => SocketInv'
<1> SUFFICES ASSUME SocketInv, [Next]_vars PROVE SocketInv'
  BY Zenon
<1>1. CASE UNCHANGED vars
  <2>1. SocketType' /\ OneOwner'
    BY <1>1 DEF vars, SocketInv, SocketType, OneOwner
  <2>2. BindingHolds' /\ Accounted'
    BY <1>1 DEF vars, SocketInv, BindingHolds, Accounted, Candidates, Registered,
       Open, Targets, StoredMark
  <2>3. Unmoved'
    BY <1>1, Zenon DEF vars, SocketInv, Unmoved, Found
  <2>4. MarksKnown'
    <3>1. UNCHANGED <<call, sockets, stuck, Targets, StoredMark>>
      BY <1>1, Zenon DEF vars, Targets, StoredMark
    <3> QED BY <3>1 DEF SocketInv, MarksKnown, Done
  <2> QED BY <2>1, <2>2, <2>3, <2>4, Zenon DEF SocketInv
<1>2. CASE Next
  BY <1>2, ListenStep, RefuseStep, Bind4Step, Bind6Step, MarkStep, RegisterStep, CommitStep,
     RefusedStep, SetFwmarkStep, ApplyStep, UpdateEnds, RestoreStep, ConnectStep, ShutdownStep,
     ReclaimStep, Zenon DEF Next, Prepare
<1> QED BY <1>1, <1>2, Zenon

\* The invariant holds in every state of every behaviour.
LEMMA SocketInvariant == SocketsSpec => []SocketInv
<1>1. SocketsInit => SocketInv
  BY SocketInit, Zenon DEF SocketsInit
<1>2. SocketInv /\ [SocketsNext]_<<vars, reportVars>> => SocketInv'
  <2>1. [SocketsNext]_<<vars, reportVars>> => [Next]_vars
    BY Zenon DEF SocketsNext
  <2>2. QED
    BY <2>1, SocketStep, Zenon
<1>3. QED
  BY <1>1, <1>2, PTL DEF SocketsSpec

\* A rebind refused at any of its steps leaves the listeners, their handlers
\* and marks, the port and the connected sockets as it found them
\* (open_listen_socket).
THEOREM RefusalLeavesAll == SocketsSpec => []RefusedLeavesListeners
<1>1. SocketInv => RefusedLeavesListeners
  BY Zenon DEF SocketInv, Unmoved, Accounted, Registered, RefusedLeavesListeners, Visible, Found
<1> QED BY <1>1, SocketInvariant, PTL

\* The listeners in force are registered at every moment; at rest the sockets of
\* the listeners and endpoints, their port and their marks are what get=1 reports,
\* and no other is open but the shut ones that wait to be reclaimed
\* (open_listen_socket, set_fwmark, restore_marks and shutdown_endpoint).
THEOREM ReportedSockets == SocketsSpec => []SocketsAsReported
<1>1. ASSUME SocketInv PROVE SocketsAsReported
  <2>1. Pair(udp4, udp6) \subseteq events
    BY <1>1, Zenon DEF SocketInv, Accounted
  <2>2. ASSUME call = Idle
        PROVE  /\ events = Pair(udp4, udp6) /\ fds = events
               /\ Open = Targets \cup retired /\ Targets \cap retired = {}
               /\ \A s \in Targets : sockets[s].port = listenPort
               /\ \A s \in Targets \ stuck : sockets[s].mark = StoredMark
    <3>1. Candidates = {} /\ Registered = {} /\ call.op = "idle"
      BY <2>2, Zenon DEF Candidates, Registered, Idle, Binding
    <3> QED BY <1>1, <3>1, Zenon DEF SocketInv, Accounted, MarksKnown
  <2> QED BY <2>1, <2>2, Zenon DEF SocketsAsReported
<1> QED BY <1>1, SocketInvariant, PTL

-----------------------------------------------------------------------------
(***************************************************************************)
(* The reports.  ReportsInv is inductive: generations in use are told      *)
(* apart, an episode in progress is that of what failed last, the WARN     *)
(* cooldown is the history's, and a generation that ERRORed is latched     *)
(* for as long as its socket is in use.                                    *)
(***************************************************************************)
Identities == [gen: Nat, to: Addrs \cup {None}] \cup {None}
Episodes ==
  [id: Identities, active: BOOLEAN, announced: BOOLEAN, latched: BOOLEAN, failures: Nat]
Instant == Nat \cup {None}

ReportsType ==
  /\ now \in Nat /\ next \in Nat
  /\ listener \in [Reports!Families -> Nat] /\ latch \in [Reports!Families -> Nat]
  /\ untracked \in [Reports!Families -> Instant]
  /\ conn \in [Peers -> Nat \cup {None}]
  /\ episode \in [Peers -> [Reports!Sockets -> Episodes]]
  /\ lastWarn \in [Peers -> Instant] /\ lastError \in [Peers -> Instant]
  /\ handlers \subseteq Peers \X Nat /\ failing \subseteq Peers \X Nat \X Reports!Classes
  /\ errors \subseteq Nat \ {0}
  /\ refused \in [Peers -> [Reports!Sockets -> Identities]]
  /\ scene \in Reports!Scene

EpisodesKnown ==
  \A p \in Peers, s \in Reports!Sockets :
    /\ episode[p][s].active => episode[p][s].id = refused[p][s]
    /\ refused[p][s] # None => refused[p][s].gen # 0

\* A generation handed out is behind the allocator, which is spent at 0.
Behind(g) == next = 0 \/ g < next

GenerationsApart ==
  /\ \A f \in Reports!Families : listener[f] # 0 =>
       /\ Behind(listener[f])
       /\ \A g \in Reports!Families : listener[g] = listener[f] => g = f
       /\ \A p \in Peers : conn[p] # listener[f]
  /\ \A p \in Peers : conn[p] \notin {None, 0} =>
       /\ Behind(conn[p])
       /\ \A q \in Peers : conn[q] = conn[p] => q = p
  /\ \A g \in errors : Behind(g)

ErrorsLatched ==
  /\ \A f \in Reports!Families : listener[f] \in errors => latch[f] = listener[f]
  /\ \A p \in Peers : conn[p] \notin {None, 0} =>
       /\ episode[p]["connected"].id = Reports!Identity(Reports!Connected(conn[p]))
       /\ conn[p] \in errors => episode[p]["connected"].latched

ReportsInv ==
  ReportsType /\ EpisodesKnown /\ GenerationsApart /\ ErrorsLatched /\ warned = lastWarn

USE DEF Reports!Untracked, Reports!Tracked

\* The record a failure is counted in: the socket's own, and active.
LEMMA RekeyedIs ==
  ASSUME NEW rec \in Episodes, NEW id \in Identities
  PROVE  /\ Reports!Rekeyed(rec, id) \in Episodes
         /\ Reports!Rekeyed(rec, id).id = id /\ Reports!Rekeyed(rec, id).active
         /\ Reports!Rekeyed(rec, id).latched <=> rec.id = id /\ rec.latched
<1> DEFINE own == IF rec.id = id THEN rec ELSE Reports!Episode(id)
<1> DEFINE live == IF own.active THEN own
                   ELSE [own EXCEPT !.active = TRUE, !.announced = FALSE, !.failures = 0]
<1>1. Reports!Episode(id) \in Episodes /\ Reports!Episode(id).id = id /\ ~Reports!Episode(id).latched
  BY Zenon DEF Reports!Episode, Reports!NoEpisode, Episodes
<1>2. /\ own \in Episodes /\ own.id = id /\ (own.latched <=> rec.id = id /\ rec.latched)
  BY <1>1, Zenon
<1>3. live \in Episodes /\ live.id = id /\ live.active /\ (live.latched <=> own.latched)
  <2> HIDE DEF own
  <2>1. QED
    BY <1>2, Zenon DEF Episodes
<1>4. Reports!Rekeyed(rec, id) =
        [live EXCEPT !.failures = IF @ = MaxFailures THEN @ ELSE @ + 1]
  BY Zenon DEF Reports!Rekeyed
<1>5. QED
  <2> HIDE DEF own, live
  <2>1. QED
    BY <1>2, <1>3, <1>4 DEF Episodes

Target == [socket: Reports!Sockets, gen: Nat, to: Addrs \cup {None}]

\* What a failure does, in each of the cases the policy tells apart.
FailureEffect(p, f, target, kind) ==
  LET s == target.socket
      rec == episode[p][s]
      own == rec.id = Reports!Identity(target)
  IN  /\ Reports!Logs(kind, p, target)
      /\ episode' \in [Peers -> [Reports!Sockets -> Episodes]]
      /\ \A q \in Peers, u \in Reports!Sockets : q # p \/ u # s => episode'[q][u] = episode[q][u]
      /\ target.gen = 0 => episode' = episode
      /\ target.gen # 0 => /\ episode'[p][s].id = Reports!Identity(target)
                           /\ own /\ rec.latched => episode'[p][s].latched
      /\ lastWarn' = IF kind = "Warn" THEN [lastWarn EXCEPT ![p] = now] ELSE lastWarn
      /\ kind = "Warn" => Reports!Opens(lastWarn[p])
      /\ lastError' \in [Peers -> Instant] /\ untracked' \in [Reports!Families -> Instant]
      /\ kind = "Error" /\ target.gen # 0 /\ s = "connected" =>
           episode'[p][s].latched /\ ~(own /\ rec.latched)
      /\ IF kind = "Error" /\ target.gen # 0 /\ s = "listener"
         THEN latch[f] # target.gen /\ latch' = [latch EXCEPT ![f] = target.gen]
         ELSE latch' = latch

Kinds == {"Warn", "Error", "Debug"}

LEMMA UntrackedIs ==
  ASSUME ReportsType, NEW p \in Peers, NEW f \in Reports!Families, NEW target \in Target,
         NEW class, NEW warns, target.gen = 0, Reports!UntrackedFailure(p, f, target, class, warns)
  PROVE  \E kind \in Kinds : FailureEffect(p, f, target, kind)
<1>1. CASE class # "Lifecycle"
  <2>1. PICK kind \in Kinds : /\ kind = IF warns /\ Reports!Opens(lastWarn[p]) THEN "Warn" ELSE "Debug"
    BY Zenon DEF Kinds
  <2>2. /\ lastWarn' = IF kind = "Warn" THEN [lastWarn EXCEPT ![p] = now] ELSE lastWarn
        /\ Reports!Logs(kind, p, target)
        /\ UNCHANGED <<episode, lastError, latch, untracked>>
    BY <1>1, <2>1, Zenon DEF Reports!UntrackedFailure
  <2>3. QED
    BY <2>1, <2>2, Zenon DEF FailureEffect, ReportsType
<1>2. CASE class = "Lifecycle" /\ target.socket = "connected"
  <2>1. PICK kind \in Kinds : /\ kind = IF Reports!Opens(lastError[p]) THEN "Error" ELSE "Debug"
    BY Zenon DEF Kinds
  <2>2. /\ lastError' = IF kind = "Error" THEN [lastError EXCEPT ![p] = now] ELSE lastError
        /\ Reports!Logs(kind, p, target)
        /\ UNCHANGED <<episode, lastWarn, latch, untracked>>
    BY <1>2, <2>1, Zenon DEF Reports!UntrackedFailure
  <2>3. lastError' \in [Peers -> Instant]
    BY <2>2, Zenon DEF ReportsType, Instant
  <2>4. QED
    BY <2>1, <2>2, <2>3, Zenon DEF FailureEffect, ReportsType
<1>3. CASE class = "Lifecycle" /\ target.socket # "connected"
  <2>1. PICK kind \in Kinds : /\ Reports!Logs(kind, p, target) /\ kind # "Warn"
                              /\ \/ Reports!ListenerErrorFirst(f, target.gen)
                                 \/ Reports!ListenerErrorLater(f, target.gen)
    BY <1>3, Zenon DEF Reports!UntrackedFailure, Kinds
  <2>2. /\ latch' = latch /\ untracked' \in [Reports!Families -> Instant]
    BY <2>1, Zenon DEF Reports!ListenerErrorFirst, Reports!ListenerErrorLater, ReportsType, Instant
  <2>3. UNCHANGED <<episode, lastWarn, lastError>>
    BY <1>3, Zenon DEF Reports!UntrackedFailure, Reports!diag
  <2>4. QED
    BY <2>1, <2>2, <2>3, Zenon DEF FailureEffect, ReportsType
<1>4. QED
  BY <1>1, <1>2, <1>3, Zenon

\* What the failure of a tracked socket is counted in.
LEMMA CountedIn ==
  ASSUME ReportsType, NEW p \in Peers, NEW target \in Target
  PROVE  \E rec \in Episodes :
           /\ rec = Reports!Rekeyed(episode[p][target.socket], Reports!Identity(target))
           /\ rec.id = Reports!Identity(target) /\ rec.active
           /\ rec.latched <=> /\ episode[p][target.socket].id = Reports!Identity(target)
                              /\ episode[p][target.socket].latched
<1>1. episode[p][target.socket] \in Episodes
  BY DEF ReportsType, Target
<1>2. Reports!Identity(target) \in Identities
  BY Zenon DEF Reports!Identity, Identities, Target
<1>3. QED
  BY <1>1, <1>2, RekeyedIs

\* An announced or latched record is the same record otherwise.
LEMMA Announced ==
  ASSUME NEW rec \in Episodes
  PROVE  /\ [rec EXCEPT !.announced = TRUE] \in Episodes
         /\ [rec EXCEPT !.announced = TRUE].id = rec.id
         /\ [rec EXCEPT !.announced = TRUE].active <=> rec.active
         /\ [rec EXCEPT !.announced = TRUE].latched <=> rec.latched
         /\ [rec EXCEPT !.latched = TRUE, !.announced = TRUE] \in Episodes
         /\ [rec EXCEPT !.latched = TRUE, !.announced = TRUE].id = rec.id
         /\ [rec EXCEPT !.latched = TRUE, !.announced = TRUE].active <=> rec.active
         /\ [rec EXCEPT !.latched = TRUE, !.announced = TRUE].latched
BY Zenon DEF Episodes

LEMMA TrackedIs ==
  ASSUME ReportsType, NEW p \in Peers, NEW f \in Reports!Families, NEW target \in Target,
         target.gen # 0,
         \/ (\E warns \in BOOLEAN : Reports!Counted(p, target, warns)) /\ UNCHANGED <<latch, untracked>>
         \/ target.socket = "connected" /\ Reports!ConnectedError(p, target)
            /\ UNCHANGED <<latch, untracked>>
         \/ target.socket = "listener" /\ Reports!ListenerError(p, f, target)
  PROVE  /\ \E kind \in Kinds : FailureEffect(p, f, target, kind)
         /\ episode'[p][target.socket].active
<1>1. PICK rec \in Episodes :
           /\ rec = Reports!Rekeyed(episode[p][target.socket], Reports!Identity(target))
           /\ rec.id = Reports!Identity(target) /\ rec.active
           /\ rec.latched <=> /\ episode[p][target.socket].id = Reports!Identity(target)
                              /\ episode[p][target.socket].latched
  BY CountedIn, Zenon
<1>2. PICK s \in Reports!Sockets : s = target.socket
  BY Zenon DEF Target
<1>3. CASE (\E warns \in BOOLEAN : Reports!Counted(p, target, warns)) /\ UNCHANGED <<latch, untracked>>
  <2>1. PICK kind \in Kinds, x \in Episodes :
          /\ kind \in {"Warn", "Debug"} /\ (kind = "Warn" => Reports!Opens(lastWarn[p]))
          /\ x.id = rec.id /\ (x.active <=> rec.active) /\ (x.latched <=> rec.latched)
          /\ episode' = [episode EXCEPT ![p][target.socket] = x]
          /\ lastWarn' = IF kind = "Warn" THEN [lastWarn EXCEPT ![p] = now] ELSE lastWarn
          /\ Reports!Logs(kind, p, target) /\ UNCHANGED lastError
    <3>1. PICK warns \in BOOLEAN : Reports!Counted(p, target, warns)
      BY <1>3, Zenon
    <3>2. CASE warns /\ Reports!Opens(lastWarn[p])
      BY <1>1, <3>1, <3>2, Announced, Zenon DEF Reports!Counted, Kinds
    <3>3. CASE ~(warns /\ Reports!Opens(lastWarn[p]))
      BY <1>1, <3>1, <3>3, Zenon DEF Reports!Counted, Kinds
    <3>4. QED
      BY <3>2, <3>3, Zenon
  <2>2. /\ episode' \in [Peers -> [Reports!Sockets -> Episodes]]
        /\ episode'[p][target.socket] = x
        /\ \A q \in Peers, u \in Reports!Sockets :
             q # p \/ u # target.socket => episode'[q][u] = episode[q][u]
    <3>1. episode' = [episode EXCEPT ![p][s] = x]
      BY <1>2, <2>1, Zenon
    <3>2. /\ episode' \in [Peers -> [Reports!Sockets -> Episodes]]
          /\ episode'[p][s] = x
          /\ \A q \in Peers, u \in Reports!Sockets : q # p \/ u # s => episode'[q][u] = episode[q][u]
      BY <3>1, Zenon DEF ReportsType
    <3>3. QED
      BY <1>2, <3>2, Zenon
  <2>3. lastError' \in [Peers -> Instant] /\ untracked' \in [Reports!Families -> Instant] /\ latch' = latch
    BY <1>3, <2>1, Zenon DEF ReportsType
  <2>4. FailureEffect(p, f, target, kind)
    <3>1. /\ kind # "Error" /\ episode'[p][target.socket].id = Reports!Identity(target)
          /\ /\ episode[p][target.socket].id = Reports!Identity(target)
             /\ episode[p][target.socket].latched
             => episode'[p][target.socket].latched
      <4>1. kind # "Error" /\ x.id = Reports!Identity(target) /\ (x.latched <=> rec.latched)
        BY <1>1, <2>1, Zenon
      <4>2. episode'[p][target.socket] = x
        BY <2>2, Zenon
      <4>3. QED
        BY <1>1, <4>1, <4>2, Zenon
    <3>2. QED
      BY <2>1, <2>2, <2>3, <3>1, Zenon DEF FailureEffect
  <2>5. QED
    BY <1>1, <2>1, <2>2, <2>4, Zenon
<1>4. CASE /\ target.socket = "connected" /\ Reports!ConnectedError(p, target)
           /\ UNCHANGED <<latch, untracked>>
  <2>1. PICK kind \in Kinds, x \in Episodes :
          /\ kind \in {"Error", "Debug"}
          /\ x.id = rec.id /\ (x.active <=> rec.active)
          /\ IF kind = "Error" THEN x.latched /\ ~rec.latched ELSE x.latched <=> rec.latched
          /\ episode' = [episode EXCEPT ![p]["connected"] = x]
          /\ lastError' = IF kind = "Error" THEN [lastError EXCEPT ![p] = now] ELSE lastError
          /\ Reports!Logs(kind, p, target) /\ UNCHANGED lastWarn
    <3>2. CASE ~rec.latched /\ Reports!Opens(lastError[p])
      BY <1>1, <1>4, <3>2, Announced, Zenon DEF Reports!ConnectedError, Kinds
    <3>3. CASE ~(~rec.latched /\ Reports!Opens(lastError[p]))
      BY <1>1, <1>4, <3>3, Zenon DEF Reports!ConnectedError, Kinds
    <3>4. QED
      BY <3>2, <3>3, Zenon
  <2>2. /\ episode' \in [Peers -> [Reports!Sockets -> Episodes]]
        /\ episode'[p][target.socket] = x
        /\ \A q \in Peers, u \in Reports!Sockets :
             q # p \/ u # target.socket => episode'[q][u] = episode[q][u]
    <3>1. episode' = [episode EXCEPT ![p][s] = x]
      BY <1>2, <1>4, <2>1, Zenon
    <3>2. /\ episode' \in [Peers -> [Reports!Sockets -> Episodes]]
          /\ episode'[p][s] = x
          /\ \A q \in Peers, u \in Reports!Sockets : q # p \/ u # s => episode'[q][u] = episode[q][u]
      BY <3>1, Zenon DEF ReportsType
    <3>3. QED
      BY <1>2, <3>2, Zenon
  <2>3. lastError' \in [Peers -> Instant] /\ untracked' \in [Reports!Families -> Instant] /\ latch' = latch
    BY <1>4, <2>1, Zenon DEF ReportsType, Instant
  <2>4. FailureEffect(p, f, target, kind)
    BY <1>1, <1>4, <2>1, <2>2, <2>3, Zenon DEF FailureEffect
  <2>5. QED
    BY <1>1, <2>1, <2>2, <2>4, Zenon
<1>5. CASE target.socket = "listener" /\ Reports!ListenerError(p, f, target)
  <2>1. PICK kind \in Kinds, x \in Episodes :
          /\ kind \in {"Error", "Debug"}
          /\ x.id = rec.id /\ (x.active <=> rec.active) /\ (x.latched <=> rec.latched)
          /\ IF kind = "Error" THEN Reports!ListenerErrorFirst(f, target.gen)
             ELSE Reports!ListenerErrorLater(f, target.gen)
          /\ episode' = [episode EXCEPT ![p]["listener"] = x]
          /\ Reports!Logs(kind, p, target) /\ UNCHANGED <<lastWarn, lastError>>
    <3>1. UNCHANGED <<lastWarn, lastError>>
      BY <1>5, Zenon DEF Reports!ListenerError
    <3>2. CASE /\ Reports!ListenerErrorFirst(f, target.gen) /\ Reports!Logs("Error", p, target)
               /\ episode' = [episode EXCEPT ![p]["listener"] = [rec EXCEPT !.announced = TRUE]]
      BY <3>1, <3>2, Announced, Zenon DEF Kinds
    <3>3. CASE /\ Reports!ListenerErrorLater(f, target.gen) /\ Reports!Logs("Debug", p, target)
               /\ episode' = [episode EXCEPT ![p]["listener"] = rec]
      BY <3>1, <3>3, Zenon DEF Kinds
    <3>4. QED
      BY <1>1, <1>5, <3>2, <3>3, Zenon DEF Reports!ListenerError
  <2>2. /\ episode' \in [Peers -> [Reports!Sockets -> Episodes]]
        /\ episode'[p][target.socket] = x
        /\ \A q \in Peers, u \in Reports!Sockets :
             q # p \/ u # target.socket => episode'[q][u] = episode[q][u]
    <3>1. episode' = [episode EXCEPT ![p][s] = x]
      BY <1>2, <1>5, <2>1
    <3>2. /\ episode' \in [Peers -> [Reports!Sockets -> Episodes]]
          /\ episode'[p][s] = x
          /\ \A q \in Peers, u \in Reports!Sockets : q # p \/ u # s => episode'[q][u] = episode[q][u]
      BY <3>1, Zenon DEF ReportsType
    <3>3. QED
      BY <1>2, <3>2, Zenon
  <2>3. /\ lastError' \in [Peers -> Instant] /\ untracked' \in [Reports!Families -> Instant]
        /\ IF kind = "Error" THEN latch[f] # target.gen /\ latch' = [latch EXCEPT ![f] = target.gen]
           ELSE latch' = latch
    BY <2>1, Zenon DEF ReportsType, Reports!ListenerErrorFirst, Reports!ListenerErrorLater
  <2>4. FailureEffect(p, f, target, kind)
    BY <1>1, <1>5, <2>1, <2>2, <2>3, Zenon DEF FailureEffect
  <2>5. QED
    BY <1>1, <2>1, <2>2, <2>4, Zenon
<1>6. QED
  BY <1>3, <1>4, <1>5, Zenon

LEMMA FailureIs ==
  ASSUME ReportsType, NEW p \in Peers, NEW f \in Reports!Families, NEW target \in Target,
         NEW class, NEW eligible \in BOOLEAN, Reports!Failure(p, f, target, class, eligible)
  PROVE  /\ \E kind \in Kinds : FailureEffect(p, f, target, kind)
         /\ target.gen # 0 => episode'[p][target.socket].active
<1>1. CASE target.gen = 0
  BY <1>1, UntrackedIs, Zenon DEF Reports!Failure
<1>2. CASE target.gen # 0
  <2>1. CASE class # "Lifecycle"
    <3>1. PICK warns \in BOOLEAN : warns = (eligible /\ class = "Actionable")
      BY Zenon
    <3>2. Reports!Counted(p, target, warns) /\ UNCHANGED <<latch, untracked>>
      BY <1>2, <2>1, <3>1, Zenon DEF Reports!Failure
    <3>3. QED
      BY <1>2, <3>2, TrackedIs, Zenon
  <2>2. CASE class = "Lifecycle" /\ target.socket = "connected"
    <3>1. Reports!ConnectedError(p, target) /\ UNCHANGED <<latch, untracked>>
      BY <1>2, <2>2, Zenon DEF Reports!Failure
    <3>2. QED
      BY <1>2, <2>2, <3>1, TrackedIs, Zenon
  <2>3. CASE class = "Lifecycle" /\ target.socket # "connected"
    <3>1. Reports!ListenerError(p, f, target) /\ target.socket = "listener"
      BY <1>2, <2>3, Zenon DEF Reports!Failure, Target, Reports!Sockets
    <3>2. QED
      BY <1>2, <3>1, TrackedIs, Zenon
  <2>4. QED
    BY <2>1, <2>2, <2>3, Zenon
<1>3. QED
  BY <1>1, <1>2, Zenon

\* What the step logs is due (LinesAreDue).
LineDue ==
  /\ line'.kind = "Warn" =>
       warned[line'.peer] = None \/ now - warned[line'.peer] >= Cooldown
  /\ line'.kind = "Error" => line'.target.gen \notin errors
  /\ line'.kind \in {"Warn", "Error"} /\ line'.target.socket = "connected"
       /\ Reports!Tracked(line'.target.gen)
     => conn[line'.peer] = line'.target.gen

\* A failure on a peer's own socket, or on its family's listener.
LEMMA FailureKeeps ==
  ASSUME ReportsInv, NEW p \in Peers, NEW f \in Reports!Families, NEW target \in Target,
         NEW class, NEW eligible \in BOOLEAN, Reports!Failure(p, f, target, class, eligible),
         IF target.socket = "connected" THEN conn[p] = target.gen /\ target.to = None
         ELSE listener[f] = target.gen,
         UNCHANGED <<now, next, listener, conn, handlers, scene>>, failing' \subseteq failing
  PROVE  ReportsInv' /\ LineDue
<1>1. PICK s \in Reports!Sockets, g \in Nat, id \in Identities :
        s = target.socket /\ g = target.gen /\ id = Reports!Identity(target) /\ id.gen = g
  <2>1. Reports!Identity(target) \in Identities /\ Reports!Identity(target).gen = target.gen
    BY Zenon DEF Reports!Identity, Identities, Target
  <2>2. QED
    BY <2>1 DEF Target
<1>2. PICK kind \in Kinds : FailureEffect(p, f, target, kind)
  BY FailureIs, Zenon DEF ReportsInv
<1>3. g # 0 => episode'[p][s].active
  BY <1>1, FailureIs, Zenon DEF ReportsInv
<1>4. refused' = [refused EXCEPT ![p][s] = IF g # 0 THEN id ELSE @]
  BY <1>1, Zenon DEF Reports!Failure
<1>5. /\ line'.kind = kind /\ line'.peer = p /\ line'.target = target
      /\ warned' = IF kind = "Warn" THEN [warned EXCEPT ![p] = now] ELSE warned
      /\ errors' = IF kind = "Error" /\ g # 0 THEN errors \cup {g} ELSE errors
  BY <1>1, <1>2, Zenon DEF FailureEffect, Reports!Logs
<1>6. /\ episode' \in [Peers -> [Reports!Sockets -> Episodes]]
      /\ \A q \in Peers, u \in Reports!Sockets : q # p \/ u # s => episode'[q][u] = episode[q][u]
      /\ g = 0 => episode' = episode
      /\ g # 0 => /\ episode'[p][s].id = id
                  /\ episode[p][s].id = id /\ episode[p][s].latched => episode'[p][s].latched
  BY <1>1, <1>2, Zenon DEF FailureEffect
<1>7. /\ lastWarn' = IF kind = "Warn" THEN [lastWarn EXCEPT ![p] = now] ELSE lastWarn
      /\ kind = "Warn" => Reports!Opens(lastWarn[p])
      /\ lastError' \in [Peers -> Instant] /\ untracked' \in [Reports!Families -> Instant]
      /\ IF kind = "Error" /\ g # 0 /\ s = "listener"
         THEN latch[f] # g /\ latch' = [latch EXCEPT ![f] = g]
         ELSE latch' = latch
      /\ kind = "Error" /\ g # 0 /\ s = "connected" =>
           episode'[p][s].latched /\ ~(episode[p][s].id = id /\ episode[p][s].latched)
  BY <1>1, <1>2, Zenon DEF FailureEffect
<1>8. \A q \in Peers, u \in Reports!Sockets :
        refused'[q][u] = IF q = p /\ u = s /\ g # 0 THEN id ELSE refused[q][u]
  BY <1>4, Zenon DEF ReportsInv, ReportsType
<1>9. ReportsType'
  <2>1. refused' \in [Peers -> [Reports!Sockets -> Identities]]
    BY <1>4, Zenon DEF ReportsInv, ReportsType
  <2>2. lastWarn' \in [Peers -> Instant] /\ latch' \in [Reports!Families -> Nat]
    BY <1>7, Zenon DEF ReportsInv, ReportsType, Instant
  <2>3. errors' \subseteq Nat \ {0}
    BY <1>5, Zenon DEF ReportsInv, ReportsType
  <2>4. QED
    BY <1>6, <1>7, <2>1, <2>2, <2>3, Zenon DEF ReportsInv, ReportsType
<1>10. EpisodesKnown'
  BY <1>1, <1>3, <1>6, <1>8 DEF ReportsInv, EpisodesKnown
<1>11. s = "connected" => conn[p] = g /\ id = Reports!Identity(Reports!Connected(conn[p]))
  BY <1>1, Zenon DEF Reports!Identity, Reports!Connected
<1>12. s # "connected" => listener[f] = g /\ s = "listener"
  BY <1>1, Zenon DEF Reports!Sockets
<1>13. kind = "Error" => g \notin errors
  <2>1. CASE g = 0
    BY <2>1, Zenon DEF ReportsInv, ReportsType
  <2>2. CASE g # 0 /\ s = "connected"
    <3>1. conn[p] \notin {None, 0}
      BY <1>11, <2>2, DiagnosticsAssumption, Zenon
    <3>2. QED
      BY <1>7, <1>11, <2>2, <3>1, Zenon DEF ReportsInv, ErrorsLatched
  <2>3. CASE g # 0 /\ s # "connected"
    BY <1>7, <1>12, <2>3, Zenon DEF ReportsInv, ErrorsLatched
  <2>4. QED
    BY <2>1, <2>2, <2>3, Zenon
<1>14. GenerationsApart'
  <2>1. Behind(g) \/ g = 0
    <3>1. CASE s = "connected"
      BY <1>11, <3>1, DiagnosticsAssumption, Zenon DEF ReportsInv, GenerationsApart
    <3>2. CASE s # "connected"
      BY <1>12, <3>2, Zenon DEF ReportsInv, GenerationsApart
    <3>3. QED
      BY <3>1, <3>2, Zenon
  <2>2. QED
    BY <1>5, <2>1, Zenon DEF ReportsInv, GenerationsApart, Behind
<1>15. ErrorsLatched'
  <2>1. ASSUME NEW h \in Reports!Families, listener[h] \in errors' PROVE latch'[h] = listener[h]
    <3>1. listener[h] # 0 /\ listener[h] \in Nat
      BY <1>9, <2>1, Zenon DEF ReportsType
    <3>2. CASE listener[h] \in errors
      <4>1. latch[h] = listener[h]
        BY <3>2, Zenon DEF ReportsInv, ErrorsLatched
      <4>2. CASE kind = "Error" /\ g # 0 /\ s = "listener"
        <5>1. g = listener[f] /\ latch'[h] = IF h = f THEN g ELSE latch[h]
          BY <1>7, <1>12, <4>2, Zenon DEF ReportsInv, ReportsType
        <5>2. QED
          BY <4>1, <5>1, Zenon
      <4>3. QED
        BY <1>7, <4>1, <4>2, Zenon
    <3>3. CASE listener[h] \notin errors
      <4>1. kind = "Error" /\ g # 0 /\ g = listener[h]
        BY <1>5, <2>1, <3>3, Zenon
      <4>2. s = "listener"
        BY <1>11, <1>12, <3>1, <4>1, Zenon DEF ReportsInv, GenerationsApart
      <4>3. h = f
        BY <1>12, <3>1, <4>1, <4>2, Zenon DEF ReportsInv, GenerationsApart
      <4>4. QED
        BY <1>7, <4>1, <4>2, <4>3, Zenon DEF ReportsInv, ReportsType
    <3>4. QED
      BY <3>2, <3>3, Zenon
  <2>2. ASSUME NEW q \in Peers, conn[q] \notin {None, 0}
        PROVE  /\ episode'[q]["connected"].id = Reports!Identity(Reports!Connected(conn[q]))
               /\ conn[q] \in errors' => episode'[q]["connected"].latched
    <3>1. /\ episode[q]["connected"].id = Reports!Identity(Reports!Connected(conn[q]))
          /\ conn[q] \in errors => episode[q]["connected"].latched
          /\ "connected" \in Reports!Sockets
      BY <2>2, Zenon DEF ReportsInv, ErrorsLatched, Reports!Sockets
    <3>2. CASE q = p /\ s = "connected"
      <4>1. g # 0 /\ episode[p][s].id = id /\ episode'[p][s].id = id
        BY <1>6, <1>11, <2>2, <3>1, <3>2, Zenon
      <4>2. conn[q] \in errors' => conn[q] \in errors \/ kind = "Error"
        BY <1>5, Zenon
      <4>3. QED
        BY <1>6, <1>7, <1>11, <3>1, <3>2, <4>1, <4>2, Zenon
    <3>3. CASE ~(q = p /\ s = "connected")
      <4>1. episode'[q]["connected"] = episode[q]["connected"]
        BY <1>6, <3>1, <3>3, Zenon
      <4>2. conn[q] \in errors' => conn[q] \in errors
        <5>1. conn[q] # g
          <6>1. CASE s = "connected"
            BY <1>11, <2>2, <3>3, <6>1, Zenon DEF ReportsInv, GenerationsApart
          <6>2. CASE s # "connected"
            BY <1>12, <2>2, <6>2, Zenon DEF ReportsInv, GenerationsApart
          <6>3. QED
            BY <6>1, <6>2, Zenon
        <5>2. QED
          BY <1>5, <5>1, Zenon
      <4>3. QED
        BY <3>1, <4>1, <4>2, Zenon
    <3>4. QED
      BY <3>2, <3>3, Zenon
  <2>3. ASSUME NEW q \in Peers
        PROVE  Reports!Identity(Reports!Connected(conn[q]))' = Reports!Identity(Reports!Connected(conn[q]))
    BY Zenon DEF Reports!Identity, Reports!Connected
  <2>4. QED
    BY <2>1, <2>2, <2>3, Zenon DEF ErrorsLatched
<1>16. warned' = lastWarn'
  BY <1>5, <1>7, Zenon DEF ReportsInv
<1>17. LineDue
  <2>1. kind = "Warn" => warned[p] = None \/ now - warned[p] >= Cooldown
    BY <1>7, Zenon DEF Reports!Opens, ReportsInv
  <2>2. s = "connected" => conn[p] = g
    BY <1>11
  <2>3. QED
    BY <1>1, <1>5, <1>13, <2>1, <2>2, Zenon DEF LineDue
<1>18. QED
  BY <1>9, <1>10, <1>14, <1>15, <1>16, <1>17, Zenon DEF ReportsInv

\* A step that logs nothing above DEBUG.
LEMMA QuietLine ==
  ASSUME line' = Reports!NoLine \/ \E p, target : Reports!Logs("Debug", p, target)
  PROVE  LineDue
BY DiagnosticsAssumption DEF LineDue, Reports!NoLine, Reports!Logs

\* A step that leaves the episodes, the cooldowns and what they are kept by alone.
LEMMA FrameKeeps ==
  ASSUME ReportsInv,
         UNCHANGED <<next, listener, latch, untracked, conn, episode, lastWarn, lastError,
                     warned, errors, refused, scene>>,
         now' \in Nat, handlers' \subseteq handlers, failing' \subseteq Peers \X Nat \X Reports!Classes
  PROVE  ReportsInv'
<1>1. ReportsType'
  BY Zenon DEF ReportsInv, ReportsType
<1>2. EpisodesKnown' /\ GenerationsApart'
  BY Zenon DEF ReportsInv, EpisodesKnown, GenerationsApart, Behind
<1>3. ErrorsLatched'
  BY Zenon DEF ReportsInv, ErrorsLatched, Reports!Identity, Reports!Connected
<1>4. QED
  BY <1>1, <1>2, <1>3 DEF ReportsInv

\* A success: a recovery, a listener's record moved on, or nothing.
LEMMA SuccessHolds ==
  ASSUME ReportsInv, NEW p \in Peers, NEW target \in Target, Reports!Success(p, target),
         UNCHANGED <<now, next, listener, conn, handlers, failing, scene>>
  PROVE  ReportsInv' /\ LineDue
<1>1. PICK s \in Reports!Sockets, id \in Identities :
        s = target.socket /\ id = Reports!Identity(target) /\ id.gen = target.gen
  <2>1. Reports!Identity(target) \in Identities /\ Reports!Identity(target).gen = target.gen
    BY Zenon DEF Reports!Identity, Identities, Target
  <2>2. QED
    BY <2>1 DEF Target
<1>2. PICK rec \in Episodes : rec = episode[p][s]
  BY Zenon DEF ReportsInv, ReportsType
<1>3. PICK x \in Episodes :
        /\ episode' = [episode EXCEPT ![p][s] = x]
        /\ \/ x = rec /\ (~rec.active \/ target.gen = 0 \/ rec.id # id)
           \/ ~x.active /\ target.gen # 0 /\ x.id = id
              /\ (s = "listener" \/ (rec.id = id /\ (x.latched <=> rec.latched)))
  <2>1. CASE ~rec.active \/ target.gen = 0
    <3>1. episode' = episode
      BY <1>1, <1>2, <2>1, Zenon DEF Reports!Success
    <3>2. episode' = [episode EXCEPT ![p][s] = rec]
      BY <1>2, <3>1, Zenon DEF ReportsInv, ReportsType
    <3>3. QED
      BY <2>1, <3>2, Zenon
  <2>2. CASE rec.active /\ target.gen # 0 /\ rec.id = id
    <3>1. PICK x \in Episodes : x = [rec EXCEPT !.active = FALSE, !.announced = FALSE, !.failures = 0]
      <4>1. [rec EXCEPT !.active = FALSE, !.announced = FALSE, !.failures = 0] \in Episodes
        BY Zenon DEF Episodes
      <4>2. QED
        BY <4>1, Zenon
    <3>2. ~x.active /\ x.id = rec.id /\ (x.latched <=> rec.latched)
      BY <3>1, Zenon DEF Episodes
    <3>3. episode' = [episode EXCEPT ![p][s] = x]
      BY <1>1, <1>2, <2>2, <3>1, Zenon DEF Reports!Success
    <3>4. QED
      BY <2>2, <3>2, <3>3, Zenon
  <2>3. CASE rec.active /\ target.gen # 0 /\ rec.id # id /\ s = "listener"
    <3>1. PICK x \in Episodes : x = Reports!Episode(id)
      BY Zenon DEF Episodes, Reports!Episode, Reports!NoEpisode
    <3>2. ~x.active /\ x.id = id
      BY <3>1, Zenon DEF Episodes, Reports!Episode, Reports!NoEpisode
    <3>3. episode' = [episode EXCEPT ![p][s] = x]
      BY <1>1, <1>2, <2>3, <3>1, Zenon DEF Reports!Success
    <3>4. /\ ~x.active /\ target.gen # 0 /\ x.id = id
          /\ (s = "listener" \/ (rec.id = id /\ (x.latched <=> rec.latched)))
      BY <2>3, <3>2, Zenon
    <3>5. QED
      BY <3>3, <3>4, Zenon
  <2>4. CASE rec.active /\ target.gen # 0 /\ rec.id # id /\ s # "listener"
    <3>1. episode' = episode
      BY <1>1, <1>2, <2>4 DEF Reports!Success
    <3>2. episode' = [episode EXCEPT ![p][s] = rec]
      BY <1>2, <3>1, Zenon DEF ReportsInv, ReportsType
    <3>3. QED
      BY <2>4, <3>2, Zenon
  <2>5. QED
    BY <2>1, <2>2, <2>3, <2>4, Zenon
<1>4. /\ episode' \in [Peers -> [Reports!Sockets -> Episodes]]
      /\ \A q \in Peers, u \in Reports!Sockets :
           episode'[q][u] = IF q = p /\ u = s THEN x ELSE episode[q][u]
  BY <1>3, Zenon DEF ReportsInv, ReportsType
<1>5. refused' = [refused EXCEPT ![p][s] = IF @ = id THEN None ELSE @]
  BY <1>1, Zenon DEF Reports!Success, Reports!Sent
<1>6. /\ refused' \in [Peers -> [Reports!Sockets -> Identities]]
      /\ \A q \in Peers, u \in Reports!Sockets :
           refused'[q][u] = IF q = p /\ u = s /\ refused[q][u] = id THEN None ELSE refused[q][u]
  BY <1>5, ZenonT(30) DEF ReportsInv, ReportsType, Identities
<1>7. UNCHANGED <<lastWarn, lastError, latch, untracked, warned, errors>> /\ line' = Reports!NoLine
  BY ZenonT(30) DEF Reports!Success
<1>8. ReportsType'
  BY <1>4, <1>6, <1>7, ZenonT(30) DEF ReportsInv, ReportsType
<1>9. EpisodesKnown'
  <2>1. \A q \in Peers, u \in Reports!Sockets : refused'[q][u] # None => refused'[q][u].gen # 0
    BY <1>6 DEF ReportsInv, EpisodesKnown
  <2>2. ASSUME NEW q \in Peers, NEW u \in Reports!Sockets, episode'[q][u].active
        PROVE  episode'[q][u].id = refused'[q][u]
    <3>1. CASE ~(q = p /\ u = s)
      BY <1>4, <1>6, <2>2, <3>1 DEF ReportsInv, EpisodesKnown
    <3>2. CASE q = p /\ u = s
      <4>1. x = rec /\ rec.active
        BY <1>3, <1>4, <2>2, <3>2, Zenon
      <4>2. rec.id = refused[p][s] /\ (refused[p][s] # None => refused[p][s].gen # 0)
        BY <1>2, <4>1, Zenon DEF ReportsInv, EpisodesKnown
      <4>3. target.gen = 0 \/ rec.id # id
        BY <1>3, <4>1
      <4>4. refused[p][s] = id => id = None
        BY <1>1, <4>2, <4>3
      <4>5. QED
        BY <1>4, <1>6, <3>2, <4>1, <4>2, <4>4
    <3>3. QED
      BY <3>1, <3>2, Zenon
  <2>3. QED
    BY <2>1, <2>2, Zenon DEF EpisodesKnown
<1>10. GenerationsApart'
  BY <1>7, Zenon DEF ReportsInv, GenerationsApart, Behind
<1>11. ErrorsLatched'
  <2>1. \A q \in Peers : /\ episode'[q]["connected"].id = episode[q]["connected"].id
                         /\ episode'[q]["connected"].latched <=> episode[q]["connected"].latched
    BY <1>2, <1>3, <1>4 DEF Reports!Sockets
  <2>2. QED
    BY <1>7, <2>1, Zenon DEF ReportsInv, ErrorsLatched, Reports!Identity, Reports!Connected
<1>12. QED
  BY <1>7, <1>8, <1>9, <1>10, <1>11, QuietLine, Zenon DEF ReportsInv

\* The targets a step can have.
LEMMA TargetsKnown ==
  ASSUME ReportsType
  PROVE  /\ \A g \in Nat : /\ Reports!Connected(g) \in Target
                           /\ Reports!Connected(g).socket = "connected"
                           /\ Reports!Connected(g).gen = g /\ Reports!Connected(g).to = None
         /\ \A f \in Reports!Families, to \in Addrs \cup {None} :
              /\ Reports!Listener(f, to) \in Target
              /\ Reports!Listener(f, to).socket = "listener"
              /\ Reports!Listener(f, to).gen = listener[f]
BY DEF Reports!Connected, Reports!Listener, Target, Reports!Sockets, ReportsType

\* Sends, on a listener or on a connected socket in use or not.
LEMMA SendKeeps ==
  ASSUME ReportsInv, scene' = scene,
         \/ \E p \in scene.peers, to \in scene.addrs : Reports!ListenerSend(p, to)
         \/ \E h \in handlers, site \in scene.sites : Reports!ConnectedSend(h[1], h[2], site)
         \/ \E p \in scene.peers : Reports!TunConnected(p)
  PROVE  ReportsInv' /\ LineDue
<1>1. /\ scene.peers \subseteq Peers /\ scene.addrs \subseteq Addrs
      /\ \A h \in handlers : h[1] \in Peers /\ h[2] \in Nat
      /\ 4 \in Reports!Families
  BY Zenon DEF ReportsInv, ReportsType, Reports!Scene, Reports!Families
<1>2. ASSUME NEW p \in scene.peers, NEW to \in scene.addrs, Reports!ListenerSend(p, to)
      PROVE  ReportsInv' /\ LineDue
  <2>1. PICK f \in Reports!Families : f = Family(to)
    BY <1>1, DiagnosticsAssumption
  <2>2. PICK target \in Target : /\ target = Reports!Listener(f, to)
                                 /\ target.socket = "listener" /\ target.gen = listener[f]
    BY <1>1, TargetsKnown, Zenon DEF ReportsInv
  <2>3. UNCHANGED <<now, next, listener, conn, handlers, failing>>
    BY <1>2, Zenon DEF Reports!ListenerSend
  <2>4. CASE Reports!Success(p, target)
    BY <1>1, <2>3, <2>4, SuccessHolds, Zenon
  <2>5. CASE \E class \in scene.classes : Reports!Failure(p, f, target, class, TRUE)
    BY <1>1, <2>2, <2>3, <2>5, FailureKeeps, Zenon
  <2>6. QED
    BY <1>2, <2>1, <2>2, <2>4, <2>5, Zenon DEF Reports!ListenerSend
<1>3. ASSUME NEW p \in Peers, NEW g \in Nat, Reports!Success(p, Reports!Connected(g)),
             UNCHANGED <<now, next, listener, conn, handlers, failing>>
      PROVE  ReportsInv' /\ LineDue
  BY <1>3, TargetsKnown, SuccessHolds, Zenon DEF ReportsInv
<1>4. ASSUME NEW p \in Peers, NEW g \in Nat, conn[p] = g, NEW class, NEW eligible \in BOOLEAN,
             Reports!Failure(p, 4, Reports!Connected(g), class, eligible),
             UNCHANGED <<now, next, listener, conn, handlers, failing>>
      PROVE  ReportsInv' /\ LineDue
  <2>1. PICK target \in Target : /\ target = Reports!Connected(g) /\ target.socket = "connected"
                                 /\ target.gen = g /\ target.to = None
    BY TargetsKnown DEF ReportsInv
  <2>2. QED
    BY <1>1, <1>4, <2>1, FailureKeeps, Zenon
<1>5. ASSUME NEW h \in handlers, NEW site \in scene.sites, Reports!ConnectedSend(h[1], h[2], site)
      PROVE  ReportsInv' /\ LineDue
  <2>1. UNCHANGED <<now, next, listener, conn, handlers, failing>>
    BY <1>5, Zenon DEF Reports!ConnectedSend
  <2>2. PICK p \in Peers, g \in Nat : p = h[1] /\ g = h[2]
    BY <1>1, Zenon
  <2>3. PICK eligible \in BOOLEAN : eligible = (site # "ConnectedReply")
    BY Zenon
  <2>4. CASE Reports!Unrecorded(p, Reports!Connected(g))
    <3>1. UNCHANGED <<episode, lastWarn, lastError, latch, untracked, refused>>
          /\ Reports!Logs("Debug", p, Reports!Connected(g))
      BY <2>4, Zenon DEF Reports!Unrecorded, Reports!diag
    <3>2. warned' = warned /\ errors' = errors
      BY <3>1, Zenon DEF Reports!Logs
    <3>3. QED
      BY <2>1, <3>1, <3>2, FrameKeeps, QuietLine, Zenon DEF ReportsInv, ReportsType
  <2>5. CASE Reports!Success(p, Reports!Connected(g))
    BY <1>3, <2>1, <2>5, Zenon
  <2>6. CASE conn[p] = g /\ \E class \in scene.classes :
               Reports!Failure(p, 4, Reports!Connected(g), class, eligible)
    BY <1>4, <2>1, <2>6, Zenon
  <2>7. QED
    BY <1>5, <2>2, <2>3, <2>4, <2>5, <2>6 DEF Reports!ConnectedSend
<1>6. ASSUME NEW p \in scene.peers, Reports!TunConnected(p)
      PROVE  ReportsInv' /\ LineDue
  <2>1. UNCHANGED <<now, next, listener, conn, handlers, failing>>
    BY <1>6, Zenon DEF Reports!TunConnected
  <2>2. PICK g \in Nat : g = conn[p]
    BY <1>1, <1>6, Zenon DEF Reports!TunConnected, ReportsInv, ReportsType
  <2>3. QED
    BY <1>1, <1>3, <1>4, <1>6, <2>1, <2>2, Zenon DEF Reports!TunConnected
<1>7. QED
  BY <1>2, <1>5, <1>6, Zenon

\* A receive that failed is observed: while its socket is in use, or not at all.
LEMMA ObservedKeeps ==
  ASSUME ReportsInv, scene' = scene, NEW e \in failing, Reports!RecvObserved(e)
  PROVE  ReportsInv' /\ LineDue
<1>1. PICK p \in Peers, g \in Nat : p = e[1] /\ g = e[2]
  BY Zenon DEF ReportsInv, ReportsType
<1>2. UNCHANGED <<now, next, listener, conn, handlers>> /\ failing' = failing \ {e}
  BY Zenon DEF Reports!RecvObserved
<1>3. CASE Reports!Unrecorded(p, Reports!Connected(g))
  <2>1. UNCHANGED <<episode, lastWarn, lastError, latch, untracked, refused>>
        /\ Reports!Logs("Debug", p, Reports!Connected(g))
    BY <1>3, Zenon DEF Reports!Unrecorded, Reports!diag
  <2>2. warned' = warned /\ errors' = errors
    BY <2>1, Zenon DEF Reports!Logs
  <2>3. now' \in Nat /\ failing' \subseteq Peers \X Nat \X Reports!Classes
    BY <1>2, Zenon DEF ReportsInv, ReportsType
  <2>4. QED
    BY <1>2, <2>1, <2>2, <2>3, FrameKeeps, QuietLine, Zenon
<1>4. CASE conn[p] = g /\ Reports!Failure(p, 4, Reports!Connected(g), e[3], TRUE)
  <2>1. PICK target \in Target : /\ target = Reports!Connected(g) /\ target.socket = "connected"
                                 /\ target.gen = g /\ target.to = None
    BY TargetsKnown, Zenon DEF ReportsInv
  <2>2. 4 \in Reports!Families
    BY Zenon DEF Reports!Families
  <2>3. failing' \subseteq failing
    BY <1>2, Zenon
  <2>4. Reports!Failure(p, 4, target, e[3], TRUE)
    BY <1>4, <2>1, Zenon
  <2>5. QED
    BY <1>2, <1>4, <2>1, <2>2, <2>3, <2>4, FailureKeeps, Zenon
<1>5. QED
  BY <1>1, <1>3, <1>4, Zenon DEF Reports!RecvObserved

\* A reply to a stranger: no peer's record, but the listener's latch.
LEMMA StrangerKeeps ==
  ASSUME ReportsInv, scene' = scene, NEW f \in Reports!Families, NEW class,
         Reports!Unauthenticated(f, class)
  PROVE  ReportsInv' /\ LineDue
<1>1. UNCHANGED <<now, next, listener, conn, episode, lastWarn, lastError, handlers, failing, refused>>
  BY Zenon DEF Reports!Unauthenticated, Reports!diag
<1>2. PICK target \in Target : /\ target = Reports!Listener(f, None)
                               /\ target.socket = "listener" /\ target.gen = listener[f]
  BY TargetsKnown, Zenon DEF ReportsInv
<1>3. CASE Reports!Logs("Debug", None, target) /\ latch' = latch /\ untracked' \in [Reports!Families -> Instant]
  <2>1. warned' = warned /\ errors' = errors
    BY <1>3, Zenon DEF Reports!Logs
  <2>2. ReportsType'
    BY <1>1, <1>3, <2>1, Zenon DEF ReportsInv, ReportsType
  <2>3. EpisodesKnown' /\ GenerationsApart'
    BY <1>1, <2>1, Zenon DEF ReportsInv, EpisodesKnown, GenerationsApart, Behind
  <2>4. ErrorsLatched'
    BY <1>1, <1>3, <2>1, Zenon DEF ReportsInv, ErrorsLatched, Reports!Identity, Reports!Connected
  <2>5. QED
    BY <1>1, <1>3, <2>1, <2>2, <2>3, <2>4, QuietLine, Zenon DEF ReportsInv
<1>4. CASE Reports!ListenerErrorFirst(f, listener[f]) /\ Reports!Logs("Error", None, target)
  <2>1. /\ line'.kind = "Error" /\ line'.target = target /\ warned' = warned
        /\ errors' = IF listener[f] # 0 THEN errors \cup {listener[f]} ELSE errors
    BY <1>2, <1>4, Zenon DEF Reports!Logs
  <2>2. IF listener[f] # 0 THEN latch[f] # listener[f] /\ latch' = [latch EXCEPT ![f] = listener[f]]
                                /\ untracked' = untracked
        ELSE latch' = latch /\ untracked' \in [Reports!Families -> Instant]
    BY <1>4, Zenon DEF Reports!ListenerErrorFirst, ReportsInv, ReportsType, Instant
  <2>3. ReportsType'
    <3>1. latch' \in [Reports!Families -> Nat] /\ untracked' \in [Reports!Families -> Instant]
      BY <2>2, Zenon DEF ReportsInv, ReportsType
    <3>2. errors \subseteq Nat \ {0} /\ listener[f] \in Nat
      BY Zenon DEF ReportsInv, ReportsType
    <3>3. errors' \subseteq Nat \ {0}
      BY <2>1, <3>2, Zenon
    <3>4. QED
      BY <1>1, <3>1, <3>3, Zenon DEF ReportsInv, ReportsType
  <2>4. EpisodesKnown'
    BY <1>1, Zenon DEF ReportsInv, EpisodesKnown
  <2>5. GenerationsApart'
    BY <1>1, <2>1, Zenon DEF ReportsInv, GenerationsApart, Behind
  <2>6. ErrorsLatched'
    <3>1. \A h \in Reports!Families : listener[h] \in errors' => latch'[h] = listener[h]
      BY <1>1, <2>1, <2>2, Zenon DEF ReportsInv, ReportsType, GenerationsApart, ErrorsLatched
    <3>2. \A q \in Peers : conn[q] \notin {None, 0} => (conn[q] \in errors' <=> conn[q] \in errors)
      BY <2>1, Zenon DEF ReportsInv, GenerationsApart
    <3>3. QED
      BY <1>1, <3>1, <3>2, Zenon DEF ReportsInv, ErrorsLatched, Reports!Identity, Reports!Connected
  <2>7. LineDue
    <3>1. listener[f] \notin errors
      BY <2>2, Zenon DEF ReportsInv, ReportsType, ErrorsLatched
    <3>2. QED
      BY <1>2, <2>1, <3>1, Zenon DEF LineDue
  <2>8. QED
    BY <1>1, <2>1, <2>3, <2>4, <2>5, <2>6, <2>7, Zenon DEF ReportsInv
<1>5. QED
  <2>1. CASE Reports!ListenerErrorFirst(f, listener[f]) /\ Reports!Logs("Error", None, target)
    BY <1>4, <2>1
  <2>2. CASE Reports!ListenerErrorLater(f, listener[f]) /\ Reports!Logs("Debug", None, target)
    BY <1>3, <2>2 DEF Reports!ListenerErrorLater, ReportsInv, ReportsType
  <2>3. CASE Reports!Logs("Debug", None, target) /\ UNCHANGED <<latch, untracked>>
    BY <1>3, <2>3, Zenon DEF ReportsInv, ReportsType
  <2>4. QED
    BY <1>2, <2>1, <2>2, <2>3, Zenon DEF Reports!Unauthenticated

\* A generation handed out is fresh, and what was handed out stays behind.
LEMMA AllocatedIs ==
  ASSUME NEW n \in Nat
  PROVE  Reports!Allocated(n) \in {0, n + 1} /\ (n = 0 => Reports!Allocated(n) = 0)
BY Zenon DEF Reports!Allocated

\* An upgrade, registered or refused.
LEMMA ConnectKeeps ==
  ASSUME ReportsInv, scene' = scene, NEW p \in Peers, Reports!Connect(p)
  PROVE  ReportsInv' /\ LineDue
<1>1. /\ UNCHANGED <<now, listener, latch, untracked, lastWarn, lastError, failing, warned, errors, refused>>
      /\ next' = Reports!Allocated(next) /\ line' = Reports!NoLine /\ conn[p] = None
  BY Zenon DEF Reports!Connect, Reports!ReplaceConnected
<1>2. PICK rec \in Episodes :
        /\ episode' = [episode EXCEPT ![p] = [episode[p] EXCEPT !["connected"] = rec]]
        /\ ~rec.active
        /\ next # 0 => rec.id = Reports!Identity(Reports!Connected(next))
  <2>1. next \in Nat
    BY Zenon DEF ReportsInv, ReportsType
  <2>2. Reports!Identity(Reports!Connected(next)) \in Identities
    BY <2>1, Zenon DEF Reports!Identity, Reports!Connected, Identities
  <2>3. /\ Reports!NoEpisode \in Episodes /\ ~Reports!NoEpisode.active
        /\ \A id \in Identities : /\ Reports!Episode(id) \in Episodes
                                  /\ ~Reports!Episode(id).active /\ Reports!Episode(id).id = id
    BY Zenon DEF Reports!Episode, Reports!NoEpisode, Episodes, Identities
  <2>4. QED
    BY <2>2, <2>3, Zenon DEF Reports!Connect, Reports!ReplaceConnected
<1>3. /\ \A q \in Peers : q # p => episode'[q] = episode[q]
      /\ episode'[p]["connected"] = rec /\ episode'[p]["listener"] = episode[p]["listener"]
      /\ episode' \in [Peers -> [Reports!Sockets -> Episodes]]
  BY <1>2, Zenon DEF ReportsInv, ReportsType, Reports!Sockets
<1>4. next' \in {0, next + 1} /\ (next = 0 => next' = 0) /\ next \in Nat
  BY <1>1, AllocatedIs, SMTT(30) DEF ReportsInv, ReportsType
<1>5. /\ \A q \in Peers : q # p => conn'[q] = conn[q]
      /\ conn'[p] \in {None, next}
      /\ conn' \in [Peers -> Nat \cup {None}] /\ handlers' \subseteq Peers \X Nat
  BY <1>1, <1>4 DEF Reports!Connect, ReportsInv, ReportsType
<1>6. ReportsType'
  BY <1>1, <1>3, <1>4, <1>5 DEF ReportsInv, ReportsType
<1>7. EpisodesKnown'
  BY <1>1, <1>2, <1>3, ZenonT(30) DEF ReportsInv, EpisodesKnown, Reports!Sockets
<1>8. GenerationsApart'
  <2>1. /\ \A f \in Reports!Families : listener[f] # 0 /\ next # 0 => listener[f] < next
        /\ \A q \in Peers : conn[q] \notin {None, 0} /\ next # 0 => conn[q] < next
    BY Zenon DEF ReportsInv, GenerationsApart, Behind
  <2>2. \A g \in Nat : (next = 0 \/ g < next) => (next' = 0 \/ g < next')
    BY <1>4
  <2>3. /\ \A f \in Reports!Families : listener[f] \in Nat
        /\ \A q \in Peers : conn[q] \in Nat \cup {None}
    BY DEF ReportsInv, ReportsType
  <2>4. \A f \in Reports!Families : listener[f] # 0 =>
          /\ Behind(listener[f])'
          /\ \A g \in Reports!Families : listener[g] = listener[f] => g = f
          /\ \A q \in Peers : conn'[q] # listener[f]
    <3> TAKE f \in Reports!Families
    <3> HAVE listener[f] # 0
    <3>1. /\ next = 0 \/ listener[f] < next
          /\ \A g \in Reports!Families : listener[g] = listener[f] => g = f
          /\ \A q \in Peers : conn[q] # listener[f]
      BY Zenon DEF ReportsInv, GenerationsApart, Behind
    <3>2. next' = 0 \/ listener'[f] < next'
      BY <1>1, <2>2, <2>3, <3>1, Zenon
    <3>3. listener[f] # next /\ listener[f] # None
      BY <1>4, <2>3, <3>1, DiagnosticsAssumption
    <3>4. \A q \in Peers : conn'[q] # listener[f]
      BY <1>5, <3>1, <3>3, Zenon
    <3> QED BY <3>1, <3>2, <3>4, Zenon DEF Behind
  <2>5. \A q \in Peers : conn'[q] \notin {None, 0} => (next' = 0 \/ conn'[q] < next')
    BY <1>4, <1>5, <2>2, <2>3 DEF ReportsInv, GenerationsApart, Behind
  <2>6. \A q \in Peers : conn'[q] \notin {None, 0} => \A r \in Peers : conn'[r] = conn'[q] => r = q
    BY <1>4, <1>5, <2>1, <2>3 DEF ReportsInv, GenerationsApart
  <2>7. \A g \in errors : next' = 0 \/ g < next'
    BY <2>2, Zenon DEF ReportsInv, ReportsType, GenerationsApart, Behind
  <2>8. QED
    BY <1>1, <2>4, <2>5, <2>6, <2>7, Zenon DEF GenerationsApart, Behind
<1>9. ErrorsLatched'
  <2>1. next # 0 => next \notin errors
    BY <1>4 DEF ReportsInv, ReportsType, GenerationsApart, Behind
  <2>2. \A f \in Reports!Families : listener'[f] \in errors' => latch'[f] = listener'[f]
    BY <1>1, Zenon DEF ReportsInv, ErrorsLatched
  <2>3. \A q \in Peers : conn'[q] \notin {None, 0} =>
          /\ episode'[q]["connected"].id = Reports!Identity(Reports!Connected(conn'[q]))
          /\ conn'[q] \in errors' => episode'[q]["connected"].latched
    <3>1. TAKE q \in Peers
    <3>2. CASE q = p
      BY <1>1, <1>2, <1>3, <1>5, <2>1, <3>2, Zenon
    <3>3. CASE q # p
      BY <1>1, <1>3, <1>5, <3>3, Zenon DEF ReportsInv, ErrorsLatched
    <3>4. QED
      BY <3>2, <3>3, Zenon
  <2>4. QED
    BY <2>2, <2>3, Zenon DEF ErrorsLatched, Reports!Identity, Reports!Connected
<1>10. QED
  BY <1>1, <1>6, <1>7, <1>8, <1>9, QuietLine, Zenon DEF ReportsInv

\* A connected socket given up, and a new pair of listeners.
LEMMA RebindKeeps ==
  ASSUME ReportsInv, scene' = scene, Reports!Rebind
  PROVE  ReportsInv' /\ LineDue
<1>1. /\ UNCHANGED <<now, latch, untracked, episode, lastWarn, lastError, handlers, failing,
                     warned, errors, refused>>
      /\ line' = Reports!NoLine /\ conn' = [q \in Peers |-> None]
  BY Zenon DEF Reports!Rebind, Reports!diag
<1>2. PICK second \in Nat : second = Reports!Allocated(next)
  BY AllocatedIs DEF ReportsInv, ReportsType
<1>3. /\ next \in Nat /\ second \in {0, next + 1} /\ next' \in {0, second + 1}
      /\ (next = 0 => second = 0) /\ (second = 0 => next' = 0)
  BY <1>2, AllocatedIs, Zenon DEF ReportsInv, ReportsType, Reports!Rebind
<1>4. listener' = [f \in Reports!Families |-> IF f = 4 THEN next ELSE second]
  BY <1>2 DEF Reports!Rebind
<1>5. ReportsType'
  BY <1>1, <1>3, <1>4 DEF ReportsInv, ReportsType
<1>6. EpisodesKnown'
  BY <1>1, Zenon DEF ReportsInv, EpisodesKnown
<1>7. \A g \in errors : g \in Nat \ {0} /\ (next = 0 \/ g < next)
  BY Zenon DEF ReportsInv, ReportsType, GenerationsApart, Behind
<1>8. GenerationsApart'
  <2>1. \A f \in Reports!Families : listener'[f] # 0 =>
          /\ next' = 0 \/ listener'[f] < next'
          /\ \A g \in Reports!Families : listener'[g] = listener'[f] => g = f
    BY <1>3, <1>4 DEF Reports!Families
  <2>2. \A f \in Reports!Families, q \in Peers : conn'[q] = None /\ conn'[q] # listener'[f]
    BY <1>1, <1>3, <1>4, DiagnosticsAssumption
  <2>3. \A g \in errors : next' = 0 \/ g < next'
    BY <1>3, <1>7
  <2>4. QED
    BY <1>1, <2>1, <2>2, <2>3, Zenon DEF GenerationsApart, Behind
<1>9. ErrorsLatched'
  <2>1. \A f \in Reports!Families : listener'[f] \notin errors
    BY <1>3, <1>4, <1>7
  <2>2. \A q \in Peers : conn'[q] = None
    BY <1>1
  <2>3. QED
    BY <1>1, <2>1, <2>2, Zenon DEF ErrorsLatched
<1>10. QED
  BY <1>1, <1>5, <1>6, <1>8, <1>9, QuietLine, Zenon DEF ReportsInv

\* The steps that touch no record: a socket given up, a handler's end, a
\* receive that fails and time.
LEMMA QuietKeeps ==
  ASSUME ReportsInv, scene' = scene,
         \/ \E p \in Peers : Reports!Retire(p)
         \/ \E h \in handlers : Reports!HandlerEnds(h)
         \/ \E h \in handlers, class \in scene.classes : Reports!RecvFails(h[1], h[2], class)
         \/ Reports!Tick
  PROVE  ReportsInv' /\ LineDue
<1>1. ASSUME NEW p \in Peers, Reports!Retire(p)
      PROVE  ReportsInv' /\ LineDue
  <2>1. /\ UNCHANGED <<now, next, listener, latch, untracked, episode, lastWarn, lastError, handlers,
                       failing, warned, errors, refused>>
        /\ line' = Reports!NoLine /\ conn' = [conn EXCEPT ![p] = None]
    BY <1>1 DEF Reports!Retire, Reports!diag
  <2>2. conn' \in [Peers -> Nat \cup {None}] /\ \A q \in Peers : conn'[q] \in {conn[q], None}
    BY <2>1, Zenon DEF ReportsInv, ReportsType
  <2>3. ReportsType' /\ EpisodesKnown'
    BY <2>1, <2>2, ZenonT(30) DEF ReportsInv, ReportsType, EpisodesKnown
  <2>4. GenerationsApart'
    <3>1. \A f \in Reports!Families : listener[f] # None
      BY DiagnosticsAssumption, Zenon DEF ReportsInv, ReportsType
    <3>2. QED
      BY <2>1, <2>2, <3>1, Zenon DEF ReportsInv, GenerationsApart, Behind
  <2>5. ErrorsLatched'
    BY <2>1, <2>2, Zenon DEF ReportsInv, ErrorsLatched, Reports!Identity, Reports!Connected
  <2>6. QED
    BY <2>1, <2>3, <2>4, <2>5, QuietLine DEF ReportsInv
<1>2. ASSUME \/ \E h \in handlers : Reports!HandlerEnds(h)
             \/ \E h \in handlers, class \in scene.classes : Reports!RecvFails(h[1], h[2], class)
             \/ Reports!Tick
      PROVE  ReportsInv' /\ LineDue
  <2>1. /\ UNCHANGED <<next, listener, latch, untracked, conn, episode, lastWarn, lastError,
                       warned, errors, refused>>
        /\ line' = Reports!NoLine
    BY <1>2, Zenon DEF Reports!HandlerEnds, Reports!RecvFails, Reports!Tick, Reports!diag
  <2>2. now' \in {now, now + 1} /\ handlers' \subseteq handlers
    BY <1>2, Zenon DEF Reports!HandlerEnds, Reports!RecvFails, Reports!Tick
  <2>3. \/ failing' = failing
        \/ \E h \in handlers, class \in scene.classes : failing' = failing \cup {<<h[1], h[2], class>>}
    BY <1>2, Zenon DEF Reports!HandlerEnds, Reports!RecvFails, Reports!Tick
  <2>4. /\ now' \in Nat
        /\ failing' \subseteq Peers \X Nat \X Reports!Classes
    <3>1. now \in Nat /\ failing \subseteq Peers \X Nat \X Reports!Classes
      BY Zenon DEF ReportsInv, ReportsType
    <3>2. \A h \in handlers, class \in scene.classes : <<h[1], h[2], class>> \in Peers \X Nat \X Reports!Classes
      BY Zenon DEF ReportsInv, ReportsType, Reports!Scene
    <3>3. QED
      BY <2>2, <2>3, <3>1, <3>2
  <2>5. QED
    BY <2>1, <2>2, <2>4, FrameKeeps, QuietLine, Zenon
<1>3. QED
  BY <1>1, <1>2

LEMMA ReportsInit == Reports!Init => ReportsInv
<1> SUFFICES ASSUME Reports!Init PROVE ReportsInv
  BY Zenon
<1>1. Reports!NoEpisode \in Episodes /\ ~Reports!NoEpisode.active
  BY Zenon DEF Reports!NoEpisode, Episodes, Identities
<1>2. ReportsType
  BY <1>1, DiagnosticsAssumption, Zenon DEF Reports!Init, ReportsType, Instant, Identities
<1>3. \A p \in Peers, s \in Reports!Sockets : episode[p][s] = Reports!NoEpisode /\ refused[p][s] = None
  BY Zenon DEF Reports!Init
<1>4. EpisodesKnown
  BY <1>1, <1>3, Zenon DEF EpisodesKnown
<1>5. GenerationsApart
  BY DiagnosticsAssumption DEF Reports!Init, GenerationsApart, Behind, Reports!Families
<1>6. ErrorsLatched
  BY Zenon DEF Reports!Init, ErrorsLatched
<1>7. QED
  BY <1>2, <1>4, <1>5, <1>6 DEF ReportsInv, Reports!Init

LEMMA ReportsStep == ReportsInv /\ Reports!Next => ReportsInv' /\ LineDue
<1> SUFFICES ASSUME ReportsInv, Reports!Next PROVE ReportsInv' /\ LineDue
  BY Zenon
<1>1. scene' = scene
  BY Zenon DEF Reports!Next
<1>2. /\ scene.peers \subseteq Peers /\ scene.addrs \subseteq Addrs
  BY Zenon DEF ReportsInv, ReportsType, Reports!Scene
<1>3. CASE \/ \E p \in scene.peers, to \in scene.addrs : Reports!ListenerSend(p, to)
           \/ \E h \in handlers, site \in scene.sites : Reports!ConnectedSend(h[1], h[2], site)
           \/ \E p \in scene.peers : Reports!TunConnected(p)
  BY <1>1, <1>3, SendKeeps, Zenon
<1>4. CASE \E p \in Peers : Reports!Connect(p)
  BY <1>1, <1>4, ConnectKeeps, Zenon
<1>5. CASE \/ \E p \in Peers : Reports!Retire(p)
           \/ \E h \in handlers : Reports!HandlerEnds(h)
           \/ \E h \in handlers, class \in scene.classes : Reports!RecvFails(h[1], h[2], class)
           \/ Reports!Tick
  BY <1>1, <1>5, QuietKeeps, Zenon
<1>6. CASE \E e \in failing : Reports!RecvObserved(e)
  BY <1>1, <1>6, ObservedKeeps
<1>7. CASE \E to \in scene.addrs, class \in scene.classes : Reports!Unauthenticated(Family(to), class)
  BY <1>1, <1>2, <1>7, StrangerKeeps, DiagnosticsAssumption, Zenon
<1>8. CASE Reports!Rebind
  BY <1>1, <1>8, RebindKeeps
<1>9. QED
  BY <1>2, <1>3, <1>4, <1>5, <1>6, <1>7, <1>8, Zenon DEF Reports!Next

LEMMA ReportsStill == ReportsInv /\ UNCHANGED reportVars => ReportsInv'
<1> SUFFICES ASSUME ReportsInv, UNCHANGED reportVars PROVE ReportsInv'
  BY Zenon
<1>1. /\ now' = now /\ next' = next /\ listener' = listener /\ latch' = latch
      /\ untracked' = untracked /\ conn' = conn /\ episode' = episode /\ lastWarn' = lastWarn
      /\ lastError' = lastError /\ handlers' = handlers /\ failing' = failing
      /\ warned' = warned /\ errors' = errors /\ refused' = refused /\ scene' = scene
  BY Zenon DEF reportVars
<1>2. ReportsType'
  BY <1>1, Zenon DEF ReportsInv, ReportsType
<1>3. EpisodesKnown'
  BY <1>1, Zenon DEF ReportsInv, EpisodesKnown
<1>4. GenerationsApart'
  BY <1>1, Zenon DEF ReportsInv, GenerationsApart, Behind
<1>5. ErrorsLatched'
  BY <1>1, Zenon DEF ReportsInv, ErrorsLatched, Reports!Identity, Reports!Connected
<1>6. QED
  BY <1>1, <1>2, <1>3, <1>4, <1>5, Zenon DEF ReportsInv

LEMMA ReportsInvariant == SocketsSpec => []ReportsInv
<1>1. SocketsInit => ReportsInv
  BY ReportsInit, Zenon DEF SocketsInit
<1>2. ReportsInv /\ [SocketsNext]_<<vars, reportVars>> => ReportsInv'
  BY ReportsStep, ReportsStill, Zenon DEF SocketsNext
<1>3. QED
  BY <1>1, <1>2, PTL DEF SocketsSpec

\* An episode in progress is always that of the socket and destination that
\* failed last, through moves, upgrades, rebinds, handlers that outlive their
\* socket and late receive errors (failure, success and replace_connected).
THEOREM EpisodesTrue == SocketsSpec => []EpisodesAreTrue
<1>1. ReportsInv => EpisodesAreTrue
  BY Zenon DEF ReportsInv, EpisodesKnown, EpisodesAreTrue, Reports!EpisodesAreTrue
<1>2. QED
  BY <1>1, ReportsInvariant, PTL

\* Every line above DEBUG is due: a peer's WARNings are a cooldown apart, a
\* generation ERRORs once, and nothing is said of a socket its peer has left
\* (failure, untracked_line and listener_error_first).
THEOREM LinesDue == SocketsSpec => LinesAreDue
<1>1. ReportsInv /\ [SocketsNext]_<<vars, reportVars>> => [LineDue]_Reports!vars
  <2>1. ASSUME UNCHANGED reportVars PROVE UNCHANGED Reports!vars
    BY <2>1, Zenon DEF reportVars, Reports!vars, Reports!diag
  <2>2. QED
    BY <2>1, ReportsStep, Zenon DEF SocketsNext
<1>2. QED
  BY <1>1, ReportsInvariant, PTL DEF SocketsSpec, LinesAreDue, Reports!LinesAreDue, LineDue
=============================================================================
