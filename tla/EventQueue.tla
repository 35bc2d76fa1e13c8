----------------------------- MODULE EventQueue -----------------------------
(***************************************************************************)
(* The registry of pollable events (device/epoll.rs EventPoll), shared by  *)
(* the workers of the event loop (device/mod.rs event_loop).  A handler is *)
(* boxed; the table indexed by descriptor owns the box, and epoll holds a  *)
(* raw pointer to it.  The box owns its descriptor: dropping it closes the *)
(* number, which the next socket may be given.  Listeners and connected    *)
(* sockets are registered as clones of ones the device or the peer keeps,  *)
(* so closing one does not by itself take its registration out of epoll.   *)
(*                                                                         *)
(* A box is a natural number and 0 is none.  Steps taken under the table's *)
(* lock are one action; dropping a box is outside the lock, a step of its  *)
(* own.  The device lock (DevLock) appears only as what it grants: one     *)
(* worker alone, once every other one has left the event loop.             *)
(***************************************************************************)
EXTENDS Naturals

CONSTANTS
  Workers, Fds,
  Boxes           \* bound: handlers ever made; one listener stands at first

ASSUME EventQueueAssumption == Boxes \subseteq Nat \ {0} /\ 1 \in Boxes

None == 0
Kinds == {"listener", "conn", "stream"}

VARIABLES
  events,     \* the table: descriptor to box
  owner,      \* descriptor to the box whose socket has that number
  kernel,     \* box to its registration in epoll: none, armed, or fired and waiting for MOD
  kind,       \* box to what it handles, or "unborn"
  alive,      \* boxes not yet dropped
  ready,      \* boxes whose socket is readable
  hup,        \* boxes whose socket was shut down
  at,         \* worker to where it is
  guard,      \* worker to the box its EventGuard borrows
  hand,       \* worker to the box it is registering, or has taken out of the table
  adding      \* workers between insert_at and EPOLL_CTL_ADD

vars == <<events, owner, kernel, kind, alive, ready, hup, at, guard, hand, adding>>
queue == <<events, owner, kernel, kind, alive>>

Fd(b) == CHOOSE f \in Fds : owner[f] = b
Unborn == {b \in Boxes : kind[b] = "unborn"}
Free == {f \in Fds : owner[f] = None}
NextBox == CHOOSE b \in Unborn : TRUE

Init ==
  \E f \in Fds :
    /\ events = [g \in Fds |-> IF g = f THEN 1 ELSE None]
    /\ owner = events
    /\ kernel = [b \in Boxes |-> IF b = 1 THEN "armed" ELSE "none"]
    /\ kind = [b \in Boxes |-> IF b = 1 THEN "listener" ELSE "unborn"]
    /\ alive = {1} /\ ready = {} /\ hup = {}
    /\ at = [w \in Workers |-> "wait"]
    /\ guard = [w \in Workers |-> None] /\ hand = [w \in Workers |-> None]
    /\ adding = {}

(***************************************************************************)
(* epoll.                                                                  *)
(***************************************************************************)
\* EPOLL_CTL_DEL acts on the file the number names now.
CtlDel(k, f) == IF owner[f] = None THEN k ELSE [k EXCEPT ![owner[f]] = "none"]

Arrive(b) ==
  /\ b \in alive \ ready
  /\ ready' = ready \cup {b}
  /\ UNCHANGED <<queue, hup, at, guard, hand, adding>>

Fires(b) == kernel[b] = "armed" /\ (b \in ready \/ b \in hup)

\* EPOLLONESHOT is dropped from the flags.
FiredStaysArmed(b) == kernel

Fired(b) == [kernel EXCEPT ![b] = "fired"]

\* A shut-down socket reports EPOLLHUP, and the loop cancels without the handler.
Wait(w, b) ==
  /\ at[w] = "wait" /\ hand[w] = None /\ Fires(b)
  /\ kernel' = Fired(b)
  /\ guard' = [guard EXCEPT ![w] = b]
  /\ at' = [at EXCEPT ![w] = IF b \in hup THEN "eof" ELSE "run"]
  /\ UNCHANGED <<events, owner, kind, alive, ready, hup, hand, adding>>

(***************************************************************************)
(* Registration: from a running handler, alone with the device or not.     *)
(***************************************************************************)
\* insert_at comes before epoll knows of the box.  It never finds a previous event
\* (NothingStranded): the number would not be free.
Register(w, f, k) ==
  /\ at[w] \in {"run", "alone"} /\ hand[w] = None
  /\ k = "listener" => at[w] = "alone"
  /\ Unborn # {} /\ f \in Free
  /\ events' = [events EXCEPT ![f] = NextBox]
  /\ owner' = [owner EXCEPT ![f] = NextBox]
  /\ kind' = [kind EXCEPT ![NextBox] = k]
  /\ alive' = alive \cup {NextBox}
  /\ hand' = [hand EXCEPT ![w] = NextBox] /\ adding' = adding \cup {w}
  /\ UNCHANGED <<kernel, ready, hup, at, guard>>

CtlAdd(w) ==
  /\ w \in adding /\ adding' = adding \ {w}
  /\ kernel' = [kernel EXCEPT ![hand[w]] = "armed"]
  /\ hand' = [hand EXCEPT ![w] = None]
  /\ UNCHANGED <<events, owner, kind, alive, ready, hup, at, guard>>

\* Nothing is undone.
AddRefusedStrands(w) ==
  /\ w \in adding /\ adding' = adding \ {w}
  /\ hand' = [hand EXCEPT ![w] = None]
  /\ UNCHANGED <<queue, ready, hup, at, guard>>

\* epoll refuses: the box comes out of the table again, to be dropped.
AddRefused(w) ==
  /\ w \in adding /\ adding' = adding \ {w}
  /\ events' = [events EXCEPT ![Fd(hand[w])] = None]
  /\ UNCHANGED <<owner, kernel, kind, alive, ready, hup, at, guard, hand>>

(***************************************************************************)
(* Removal.                                                                *)
(***************************************************************************)
\* clear_event_by_fd, up to the unlock.
TakeOut(w, f) ==
  /\ hand' = [hand EXCEPT ![w] = events[f]]
  /\ events' = [events EXCEPT ![f] = None]
  /\ kernel' = IF events[f] = None THEN kernel ELSE CtlDel(kernel, f)

\* The box taken out is dropped, and its descriptor closed.
DropBox(w) ==
  /\ hand[w] # None /\ w \notin adding
  /\ owner' = [owner EXCEPT ![Fd(hand[w])] = None]
  /\ kernel' = IF kind[hand[w]] = "stream" THEN [kernel EXCEPT ![hand[w]] = "none"] ELSE kernel
  /\ alive' = alive \ {hand[w]}
  /\ ready' = ready \ {hand[w]} /\ hup' = hup \ {hand[w]}
  /\ hand' = [hand EXCEPT ![w] = None]
  /\ UNCHANGED <<events, kind, at, guard, adding>>

\* Action::Close, or the end of the file: the guard is forgotten, not dropped.
Cancel(w) ==
  /\ at[w] \in {"run", "eof"} /\ hand[w] = None
  /\ at[w] = "run" => kind[guard[w]] = "stream"
  /\ TakeOut(w, Fd(guard[w]))
  /\ guard' = [guard EXCEPT ![w] = None]
  /\ at' = [at EXCEPT ![w] = "wait"]
  /\ UNCHANGED <<owner, kind, alive, ready, hup, adding>>

(***************************************************************************)
(* The handler and the guard.                                              *)
(***************************************************************************)
\* The datagrams are read until there are none.
Read(w) ==
  /\ at[w] = "run" /\ hand[w] = None /\ guard[w] \in ready
  /\ ready' = ready \ {guard[w]}
  /\ UNCHANGED <<queue, hup, at, guard, hand, adding>>

\* The guard goes without enabling the event.
GuardForgotten(w) ==
  /\ at[w] = "run" /\ hand[w] = None
  /\ guard' = [guard EXCEPT ![w] = None]
  /\ at' = [at EXCEPT ![w] = "wait"]
  /\ UNCHANGED <<queue, ready, hup, hand, adding>>

\* EventGuard's drop: EPOLL_CTL_MOD enables the event again.
GuardDrop(w) ==
  /\ at[w] = "run" /\ hand[w] = None
  /\ kernel' = [kernel EXCEPT ![guard[w]] = "armed"]
  /\ guard' = [guard EXCEPT ![w] = None]
  /\ at' = [at EXCEPT ![w] = "wait"]
  /\ UNCHANGED <<events, owner, kind, alive, ready, hup, hand, adding>>

\* A peer's connected socket is shut down through the peer's clone.
Shutdown(w, b) ==
  /\ at[w] \in {"run", "alone"} /\ hand[w] = None
  /\ kind[b] = "conn" /\ b \in alive \ hup
  /\ hup' = hup \cup {b}
  /\ UNCHANGED <<queue, ready, at, guard, hand, adding>>

(***************************************************************************)
(* One worker alone with the device, and what it clears.                   *)
(***************************************************************************)
Alone(w) == \A v \in Workers \ {w} : at[v] = "out"

Ask(w) ==
  /\ at[w] = "run" /\ kind[guard[w]] = "stream" /\ hand[w] = None
  /\ \A v \in Workers : at[v] # "ask" /\ at[v] # "alone"
  /\ at' = [at EXCEPT ![w] = "ask"]
  /\ UNCHANGED <<queue, ready, hup, guard, hand, adding>>

\* The yield notice takes a waiting worker out of the loop; it holds no guard.
Yield(w) ==
  /\ at[w] = "wait" /\ hand[w] = None /\ \E v \in Workers : at[v] = "ask"
  /\ at' = [at EXCEPT ![w] = "out"]
  /\ UNCHANGED <<queue, ready, hup, guard, hand, adding>>

Enter(w) ==
  /\ at[w] = "ask" /\ Alone(w)
  /\ at' = [at EXCEPT ![w] = "alone"]
  /\ UNCHANGED <<queue, ready, hup, guard, hand, adding>>

\* open_listen_socket: the old listener's event is cleared by its descriptor.
ClearListener(w, b) ==
  /\ at[w] = "alone" /\ hand[w] = None
  /\ b \in alive /\ kind[b] = "listener"
  /\ TakeOut(w, Fd(b))
  /\ UNCHANGED <<owner, kind, alive, ready, hup, at, guard, adding>>

Leave(w) ==
  /\ at[w] = "alone" /\ hand[w] = None
  /\ at' = [v \in Workers |-> IF v = w THEN "run" ELSE IF at[v] = "out" THEN "wait" ELSE at[v]]
  /\ UNCHANGED <<queue, ready, hup, guard, hand, adding>>

Step(w) ==
  \/ \E b \in Boxes : Wait(w, b) \/ Shutdown(w, b) \/ ClearListener(w, b)
  \/ \E f \in Fds, k \in Kinds : Register(w, f, k)
  \/ CtlAdd(w) \/ AddRefused(w) \/ DropBox(w) \/ Cancel(w) \/ Read(w) \/ GuardDrop(w)
  \/ Ask(w) \/ Yield(w) \/ Enter(w) \/ Leave(w)

Next == (\E b \in Boxes : Arrive(b)) \/ \E w \in Workers : Step(w)

(***************************************************************************)
(* A worker that can go on does; which ready event epoll_wait returns next *)
(* is fair to each of them.                                                *)
(***************************************************************************)
Dispatch(b) == \E w \in Workers : Wait(w, b)
GoesOn(w) == DropBox(w) \/ CtlAdd(w) \/ Cancel(w) \/ GuardDrop(w) \/ Yield(w) \/ Enter(w) \/ Leave(w)

Fairness ==
  /\ \A w \in Workers : WF_vars(GoesOn(w))
  /\ \A b \in Boxes : SF_vars(Dispatch(b))

Spec == Init /\ [][Next]_vars /\ Fairness

(***************************************************************************)
(* What the code promises.                                                 *)
(***************************************************************************)
TypeOK ==
  /\ events \in [Fds -> Boxes \cup {None}] /\ owner \in [Fds -> Boxes \cup {None}]
  /\ kernel \in [Boxes -> {"none", "armed", "fired"}]
  /\ kind \in [Boxes -> Kinds \cup {"unborn"}]
  /\ alive \subseteq Boxes /\ ready \subseteq alive /\ hup \subseteq alive
  /\ at \in [Workers -> {"wait", "run", "eof", "ask", "alone", "out"}]
  /\ guard \in [Workers -> Boxes \cup {None}] /\ hand \in [Workers -> Boxes \cup {None}]
  /\ adding \subseteq Workers

\* No pointer outlives its box: not the one epoll holds for a registration, which the
\* next wait would dereference, nor the one a worker's guard borrows
\* (clear_event_by_fd's contract).  And "only a single thread can have a reference to
\* the handler at any given time" (new_event): while one has, its event cannot fire.
NoDanglingPointer ==
  /\ \A b \in Boxes : kernel[b] # "none" => b \in alive
  /\ \A w \in Workers : guard[w] # None =>
       /\ guard[w] \in alive /\ kernel[guard[w]] = "fired"
       /\ \A v \in Workers \ {w} : guard[v] # guard[w]

\* Every handler not yet dropped is reachable: in the table at its own descriptor, or
\* in the hands of the one worker that took it out.  None is stranded by a refused
\* registration (register_event), or by a number given out again.
NothingStranded ==
  /\ \A f \in Fds : events[f] # None => owner[f] = events[f]
  /\ \A b \in alive :
       \/ events[Fd(b)] = b /\ (kernel[b] # "none" \/ \E w \in adding : hand[w] = b)
       \/ \E w \in Workers : hand[w] = b /\ \A v \in Workers \ {w} : hand[v] # b

\* A shut-down connected socket is released: its event fires, even if a worker was
\* just then running its handler, and the loop cancels it (event_loop).
HungUpReleased == \A b \in Boxes : b \in hup ~> b \notin alive
=============================================================================
