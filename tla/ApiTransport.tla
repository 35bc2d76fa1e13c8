---------------------------- MODULE ApiTransport ----------------------------
(***************************************************************************)
(* The UAPI stream transport (device/api_transport.rs): nonblocking client *)
(* connections served by the device's event queue, one dispatch at a time  *)
(* under the connection's mutex, a watchdog that expires them, and the     *)
(* listener that admits them.  What a command does to the device is left   *)
(* out; a frame only has a reply of some length.                           *)
(*                                                                         *)
(* A device either inherits one control stream, whose closing ends it, or  *)
(* listens.  All a client will ever send is chosen at the start; how much  *)
(* of it has arrived is state.                                             *)
(***************************************************************************)
EXTENDS Integers, Sequences, FiniteSets

CONSTANTS
  Callers,         \* clients of the listener
  Fd,              \* the inherited stream
  Workers,         \* the threads waiting on the event queue
  MaxRequest,      \* MAX_REQUEST
  MaxResponse,     \* MAX_RESPONSE, in units of a status line
  MaxConnections,  \* MAX_CONNECTIONS
  IoBudget,        \* IO_BUDGET
  Modes,           \* whether the device may inherit it (TRUE), or listen (FALSE)
  MaxStream(_)     \* bound: bytes a client sends, in each mode

Conns == Callers \cup {Fd}

ASSUME TransportAssumption ==
  /\ {MaxRequest, MaxResponse, MaxConnections, IoBudget} \subseteq Nat \ {0}
  /\ \A mode \in Modes : mode \in BOOLEAN /\ MaxStream(mode) \in Nat
  /\ IsFiniteSet(Callers) /\ Fd \notin Callers

\* A frame is told from the next only by its blank line: a byte is a line feed or not.
Byte == {"c", "n"}
Streams(max) == UNION {[1..k -> Byte] : k \in 0..max}
VARIABLES
  inherited,   \* the device inherited its control stream, rather than listens
  conn,        \* the connections; those of the other mode never start
  stream,      \* what each client sends, in all
  registry,    \* Connections: those the watchdog sees
  accepting,   \* the listener's dispatches that found room: worker to client
  exit         \* trigger_exit

transportVars == <<inherited, conn, stream, registry, accepting, exit>>

(***************************************************************************)
(* A Connection.  The input buffer is stream[cut+1..got]; of what is left  *)
(* of the output only the length is kept.  History: owner is how much had  *)
(* been read when the read deadline was set; taken and told count commands *)
(* and replies delivered whole.                                            *)
(***************************************************************************)
New(c) ==
  [phase |-> "open", peer |-> "up", avail |-> 0, got |-> 0, cut |-> 0, scanned |-> 0,
   out |-> 0, writable |-> TRUE, mask |-> "read",
   readDl |-> IF c = Fd THEN "off" ELSE "on", writeDl |-> "off", owner |-> 0,
   closeAfter |-> c # Fd, expired |-> FALSE, taken |-> 0, told |-> 0]

TransportInit ==
  /\ inherited \in Modes
  /\ \E sent \in [IF inherited THEN {Fd} ELSE Callers -> Streams(MaxStream(inherited))] :
       stream = [c \in Conns |-> IF c \in DOMAIN sent THEN sent[c] ELSE << >>]
  /\ conn = [c \in Conns |->
               [New(c) EXCEPT !.phase = IF c # Fd THEN "new"
                                        ELSE IF inherited THEN "open" ELSE "gone"]]
  /\ registry = IF inherited THEN {Fd} ELSE {}
  /\ accepting = [w \in Workers |-> {}]
  /\ exit = FALSE

Buffered(r) == r.got - r.cut

TimedOut(r) == IF r.writeDl # "off" THEN r.writeDl = "past" ELSE r.readDl = "past"

\* The scan resumes after all the input: a terminator split over two reads is missed.
ScannedWhole(r) == Buffered(r)

\* frame_end leaves the last byte to be looked at again.
Scanned(r) == IF Buffered(r) = 0 THEN 0 ELSE Buffered(r) - 1

Terminators(s, from, to) ==
  {e \in (from + 2)..to : s[e - 1] = "n" /\ s[e] = "n"}

Least(S) == CHOOSE m \in S : \A n \in S : m <= n

\* frame_end: the end of the first frame from where the last scan stopped, or 0.
FrameEnd(r, s) ==
  LET found == Terminators(s, r.cut + r.scanned, r.got)
  IN  IF found = {} THEN 0 ELSE Least(found)

\* respond: a reply over the limit shrinks to its status.
Responses == {IF body + 1 > MaxResponse THEN 1 ELSE body + 1 : body \in 0..MaxResponse}

Respond(r, n) == [r EXCEPT !.out = n, !.writeDl = "on", !.mask = "write"]

ProcessFrame(r, e, n) ==
  Respond([r EXCEPT !.cut = e, !.scanned = 0, !.taken = r.taken + 1,
                    !.readDl = IF e = r.got THEN "off" ELSE @], n)

RefuseOversized(r) ==
  Respond([r EXCEPT !.cut = r.got, !.scanned = 0, !.closeAfter = TRUE,
                    !.taken = r.taken + 1], 1)

Close(r) == [r EXCEPT !.phase = "closing"]

\* What follows a scan of the input; rest: neither a frame nor a full buffer.
Scan(r, s, rest) ==
  IF FrameEnd(r, s) # 0 THEN {ProcessFrame(r, FrameEnd(r, s), n) : n \in Responses}
  ELSE IF Buffered(r) = MaxRequest THEN {RefuseOversized(r)}
  ELSE rest

(***************************************************************************)
(* step, after the output is gone: a buffered frame, else one bounded read *)
(* and the frame it may have completed.                                    *)
(***************************************************************************)
ReadOn(r, s) ==
  LET looked == [r EXCEPT !.scanned = Scanned(r)]
      room == {k \in 1..(r.avail - r.got) : k <= IoBudget /\ k <= MaxRequest - Buffered(r)}
      Read(k) == [looked EXCEPT !.got = @ + k,
                    !.readDl = IF @ = "off" THEN "on" ELSE @,
                    !.owner = IF r.readDl = "off" THEN r.got + k ELSE @]
      Waiting(q) == [q EXCEPT !.scanned = Scanned(q), !.mask = "read"]
  IN  Scan(r, s,
        IF r.got < r.avail THEN UNION {Scan(Read(k), s, {Waiting(Read(k))}) : k \in room}
        ELSE IF r.peer # "up" THEN {Close(looked)}
        ELSE {Waiting(looked)})

\* One bounded write; what the socket takes is up to the client.
Written(r, k, writable) == [r EXCEPT !.out = @ - k, !.writable = writable]
Writes(r) ==
  {Written(r, k, writable) : k \in {n \in 1..r.out : n <= IoBudget}, writable \in BOOLEAN}

Flushed(r) ==
  [r EXCEPT !.writeDl = "off", !.told = @ + 1]

(***************************************************************************)
(* Connection::step: nothing for one that timed out; the reply first, then *)
(* at most one command.                                                    *)
(***************************************************************************)
StepResults(r, s) ==
  IF r.expired \/ TimedOut(r) \/ (r.out > 0 /\ r.peer = "closed") THEN {Close(r)}
  ELSE IF r.out = 0 THEN ReadOn(r, s)
  ELSE IF ~r.writable THEN {[r EXCEPT !.mask = "write"]}
  ELSE UNION {IF q.out > 0 THEN {[q EXCEPT !.mask = "write"]}
              ELSE IF r.closeAfter THEN {Close(Flushed(q))}
              ELSE ReadOn(Flushed(q), s) : q \in Writes(r)}

\* What epoll reports for the interest the last dispatch left; a hang-up always.
Ready(r) ==
  /\ r.phase = "open"
  /\ \/ r.expired \/ r.peer = "closed"
     \/ r.mask = "read" /\ (r.got < r.avail \/ r.peer = "half")
     \/ r.mask = "write" /\ r.writable

Step(c) ==
  /\ ~exit
  /\ Ready(conn[c])
  /\ \E r \in StepResults(conn[c], stream[c]) :
       /\ conn' = [conn EXCEPT ![c] = r]
       /\ exit' = (inherited /\ r.phase = "closing")
  /\ UNCHANGED <<inherited, stream, registry, accepting>>

\* Action::Close: the event is cancelled and the connection freed with it.
Cancel(c) ==
  /\ ~exit
  /\ conn[c].phase = "closing"
  /\ conn' = [conn EXCEPT ![c].phase = "gone"]
  /\ UNCHANGED <<inherited, stream, registry, accepting, exit>>

LiveConns == {c \in Conns : conn[c].phase \in {"open", "closing"}}

\* The watchdog looks at the read deadline alone.
WatchdogReadsOnly(busy) ==
  LET overdue == {c \in registry \ busy : c \in LiveConns /\ ~conn[c].expired /\ conn[c].readDl = "past"}
  IN  /\ ~exit
      /\ registry' = registry \cap LiveConns
      /\ conn' = [c \in Conns |-> IF c \in overdue THEN [conn[c] EXCEPT !.expired = TRUE]
                                  ELSE conn[c]]
      /\ UNCHANGED <<inherited, stream, accepting, exit>>

(***************************************************************************)
(* The watchdog expires what it finds overdue, but not a connection whose  *)
(* dispatch holds its mutex, and forgets the dead.                         *)
(***************************************************************************)
Watchdog(busy) ==
  LET overdue == {c \in registry \ busy : c \in LiveConns /\ ~conn[c].expired /\ TimedOut(conn[c])}
  IN  /\ ~exit
      /\ registry' = registry \cap LiveConns
      /\ conn' = [c \in Conns |-> IF c \in overdue THEN [conn[c] EXCEPT !.expired = TRUE]
                                  ELSE conn[c]]
      /\ UNCHANGED <<inherited, stream, accepting, exit>>

\* The listener's event stays armed during a dispatch.
ListenerAlwaysArmed == TRUE

\* EPOLLONESHOT: one worker at a time dispatches the listener.
ListenerArmed == \A w \in Workers : accepting[w] = {}

\* accept, and the count of those alive: a client over the limit is dropped.
Accept(w, c) ==
  /\ ~exit /\ ~inherited
  /\ ListenerArmed /\ accepting[w] = {}
  /\ conn[c].phase = "new" /\ \A v \in Workers : c \notin accepting[v]
  /\ registry' = registry \cap LiveConns
  /\ IF Cardinality(registry') >= MaxConnections
     THEN conn' = [conn EXCEPT ![c].phase = "gone"] /\ UNCHANGED accepting
     ELSE accepting' = [accepting EXCEPT ![w] = {c}] /\ UNCHANGED conn
  /\ UNCHANGED <<inherited, stream, exit>>

\* The entry comes before the event; a refused event frees the connection.
Register(w, c) ==
  /\ ~exit
  /\ c \in accepting[w]
  /\ registry' = registry \cup {c}
  /\ \E phase \in {"open", "gone"} : conn' = [conn EXCEPT ![c].phase = phase]
  /\ accepting' = [accepting EXCEPT ![w] = {}]
  /\ UNCHANGED <<inherited, stream, exit>>

\* The write deadline of a reply is set after the read deadline, so it passes later.
Elapse(c) ==
  /\ c \in LiveConns
  /\ conn' = [conn EXCEPT
       ![c].readDl = IF @ = "on" THEN "past" ELSE @,
       ![c].writeDl = IF @ = "on" /\ conn[c].readDl # "on" THEN "past" ELSE @]
  /\ conn' # conn
  /\ UNCHANGED <<inherited, stream, registry, accepting, exit>>

(* Clients send, read what was sent to them, and hang up by halves or at once. *)
ClientSends(c) ==
  /\ c \in LiveConns /\ conn[c].peer = "up" /\ conn[c].avail < Len(stream[c])
  /\ conn' = [conn EXCEPT ![c].avail = @ + 1]
  /\ UNCHANGED <<inherited, stream, registry, accepting, exit>>

ClientReads(c) ==
  /\ c \in LiveConns /\ ~conn[c].writable
  /\ conn' = [conn EXCEPT ![c].writable = TRUE]
  /\ UNCHANGED <<inherited, stream, registry, accepting, exit>>

ClientCloses(c) ==
  /\ c \in LiveConns
  /\ \/ conn[c].peer = "up" /\ conn' = [conn EXCEPT ![c].peer = "half"]
     \/ conn[c].peer # "closed" /\ conn' = [conn EXCEPT ![c].peer = "closed"]
  /\ UNCHANGED <<inherited, stream, registry, accepting, exit>>

TransportNext ==
  \/ \E c \in Conns :
       \/ Step(c) \/ Cancel(c) \/ Elapse(c)
       \/ ClientSends(c) \/ ClientReads(c) \/ ClientCloses(c)
       \/ \E w \in Workers : Accept(w, c) \/ Register(w, c)
  \/ \E busy \in SUBSET registry : Watchdog(busy)

(***************************************************************************)
(* Time passes, the queue keeps reporting a ready event until a worker     *)
(* takes it, and the watchdog's timer fires when nobody is in a dispatch.  *)
(* Nothing is assumed of the clients.                                      *)
(***************************************************************************)
TransportFairness ==
  /\ WF_transportVars(Watchdog({}))
  /\ \A c \in Conns : /\ WF_transportVars(Step(c))
                      /\ WF_transportVars(Cancel(c))
                      /\ WF_transportVars(Elapse(c))

TransportSpec == TransportInit /\ [][TransportNext]_transportVars /\ TransportFairness

-----------------------------------------------------------------------------
(***************************************************************************)
(* However reads split the stream, a command is exactly the next frame the *)
(* client sent: bytes leave the input only up to the first blank line      *)
(* after the last command, or all at once when a full buffer holds none.   *)
(* An incomplete frame is never applied, nor is a terminator missed, and   *)
(* the replies to the commands before have all been delivered whole.       *)
(***************************************************************************)
FramesInOrder ==
  [][\A c \in Conns :
       conn'[c].cut # conn[c].cut =>
         LET ends == Terminators(stream[c], conn[c].cut, conn'[c].got)
         IN  /\ conn'[c].taken = conn'[c].told + (IF conn'[c].out > 0 THEN 1 ELSE 0)
             /\ IF ends # {} THEN conn'[c].cut = Least(ends)
                ELSE conn'[c].closeAfter /\ conn'[c].cut = conn[c].cut + MaxRequest]_transportVars

(* The accept limit holds although the count and the entry are two critical sections. *)
BoundedConnections == Cardinality(LiveConns) <= MaxConnections

(***************************************************************************)
(* Whatever a client does, or does not do, a transaction ends: the         *)
(* connection is freed, or, on an inherited stream, idle again.            *)
(***************************************************************************)
TransactionsEnd ==
  \A c \in Conns :
    (c \in LiveConns /\ (~inherited \/ conn[c].out > 0 \/ Buffered(conn[c]) > 0))
      ~> (exit \/ conn[c].phase = "gone"
          \/ (inherited /\ conn[c].out = 0 /\ Buffered(conn[c]) = 0))

(***************************************************************************)
(* README.md:113: each request has a five-second deadline of its own.  The *)
(* deadline a partial request runs against was not set before its first    *)
(* byte was read.                                                          *)
(***************************************************************************)
RequestHasItsOwnDeadline ==
  \A c \in Conns :
    inherited /\ conn[c].phase = "open" /\ conn[c].out = 0 /\ Buffered(conn[c]) > 0
      => conn[c].owner > conn[c].cut
=============================================================================
