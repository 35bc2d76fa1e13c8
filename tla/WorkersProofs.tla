---------------------------- MODULE WorkersProofs ----------------------------
(***************************************************************************)
(* Proofs about what the workers share: the event queue, on epoll          *)
(* (EventQueue) and on kqueue (Kqueue), for any number of workers,         *)
(* descriptors and handlers, and the device lock (DevLock).                *)
(***************************************************************************)
EXTENDS Pollers, DevLock, TLAPS

\* Each live box has a descriptor of its own, and nobody else has one.
OwnDescriptor ==
  /\ \A f \in Fds : owner[f] # None => owner[f] \in alive
  /\ \A f, g \in Fds : owner[f] = owner[g] /\ owner[f] # None => f = g
  /\ \A b \in alive : \E f \in Fds : owner[f] = b
  /\ \A b \in alive : kind[b] # "unborn"

\* The table holds a box at its own descriptor.
TableOwns == \A f \in Fds : events[f] # None => owner[f] = events[f]

Tabled(b) == \E f \in Fds : events[f] = b

\* What epoll points to is in the table, and in nobody's hands.
RegisteredIsTabled ==
  \A b \in Boxes : kernel[b] # "none" =>
    b \in alive /\ Tabled(b) /\ \A w \in Workers : hand[w] # b

\* A guard borrows a fired box, alone, from the time its worker is called.
GuardsFired ==
  \A w \in Workers :
    /\ guard[w] # None <=> at[w] \in {"run", "eof", "ask", "alone"}
    /\ guard[w] # None => /\ kernel[guard[w]] = "fired"
                          /\ \A v \in Workers \ {w} : guard[v] # guard[w]
    /\ at[w] \in {"ask", "alone"} => kind[guard[w]] = "stream"
    /\ at[w] = "out" => hand[w] = None
    /\ at[w] = "alone" => \A v \in Workers \ {w} : at[v] = "out"

\* A box in a worker's hands is in no other's: on its way into epoll it is in
\* the table, on its way out it is not.
HandsOwn ==
  \A w \in Workers :
    /\ hand[w] # None => /\ hand[w] \in alive
                         /\ \A v \in Workers \ {w} : hand[v] # hand[w]
                         /\ w \in adding <=> Tabled(hand[w])
    /\ w \in adding => hand[w] # None /\ at[w] \in {"run", "alone"}

\* No box is lost.
Reachable ==
  \A b \in alive :
    \/ Tabled(b) /\ (kernel[b] # "none" \/ \E w \in adding : hand[w] = b)
    \/ \E w \in Workers : hand[w] = b

\* The inductive invariant.
QueueInv ==
  /\ TypeOK /\ OwnDescriptor /\ TableOwns /\ RegisteredIsTabled
  /\ GuardsFired /\ HandsOwn /\ Reachable

\* EventPoll as the device starts it: one listener, armed.
LEMMA QueueInit == Init => QueueInv
<1> SUFFICES ASSUME NEW f \in Fds,
                    /\ events = [g \in Fds |-> IF g = f THEN 1 ELSE None]
                    /\ owner = events
                    /\ kernel = [b \in Boxes |-> IF b = 1 THEN "armed" ELSE "none"]
                    /\ kind = [b \in Boxes |-> IF b = 1 THEN "listener" ELSE "unborn"]
                    /\ alive = {1} /\ ready = {} /\ hup = {}
                    /\ at = [w \in Workers |-> "wait"]
                    /\ guard = [w \in Workers |-> None] /\ hand = [w \in Workers |-> None]
                    /\ adding = {}
             PROVE  QueueInv
  BY Zenon DEF Init
<1> USE EventQueueAssumption DEF None
<1>1. TypeOK
  BY Zenon DEF TypeOK, Kinds
<1>2. OwnDescriptor /\ TableOwns
  BY Zenon DEF OwnDescriptor, TableOwns
<1>3. RegisteredIsTabled /\ Reachable
  BY Zenon DEF RegisteredIsTabled, Reachable, Tabled
<1>4. GuardsFired /\ HandsOwn
  BY Zenon DEF GuardsFired, HandsOwn
<1>5. QED
  BY <1>1, <1>2, <1>3, <1>4, Zenon DEF QueueInv

\* A live box has its descriptor.
LEMMA FdOwned ==
  ASSUME OwnDescriptor, NEW b \in alive
  PROVE  Fd(b) \in Fds /\ owner[Fd(b)] = b
BY Zenon DEF OwnDescriptor, Fd

\* The box a registration allocates is one nothing has used yet.
LEMMA NextBoxUnborn == Unborn # {} => NextBox \in Boxes /\ kind[NextBox] = "unborn"
BY Zenon DEF Unborn, NextBox

\* Every step keeps the variables within their types.
LEMMA TypeStep == QueueInv /\ [Next]_vars => TypeOK'
<1> SUFFICES ASSUME QueueInv, [Next]_vars PROVE TypeOK'
  BY Zenon
<1> USE EventQueueAssumption DEF TypeOK, None, queue, Kinds
<1>0. TypeOK /\ OwnDescriptor /\ HandsOwn /\ GuardsFired /\ RegisteredIsTabled
  BY Zenon DEF QueueInv
<1>1. ASSUME NEW b \in Boxes, Arrive(b) PROVE TypeOK'
  BY <1>0, <1>1, Zenon DEF Arrive
<1>2. ASSUME NEW w \in Workers, NEW b \in Boxes, Wait(w, b) PROVE TypeOK'
  BY <1>0, <1>2, Zenon DEF Wait, Fired
<1>3. ASSUME NEW w \in Workers, NEW b \in Boxes, Shutdown(w, b) PROVE TypeOK'
  BY <1>0, <1>3, Zenon DEF Shutdown
<1>4. ASSUME NEW w \in Workers, NEW b \in Boxes, ClearListener(w, b) PROVE TypeOK'
  BY <1>0, <1>4, FdOwned, Zenon DEF ClearListener, TakeOut, CtlDel
<1>5. ASSUME NEW w \in Workers, NEW f \in Fds, NEW k \in Kinds, Register(w, f, k) PROVE TypeOK'
  BY <1>0, <1>5, NextBoxUnborn, Zenon DEF Register
<1>6. ASSUME NEW w \in Workers, CtlAdd(w) PROVE TypeOK'
  BY <1>0, <1>6, Zenon DEF CtlAdd
<1>7. ASSUME NEW w \in Workers, AddRefused(w) PROVE TypeOK'
  BY <1>0, <1>7, Zenon DEF AddRefused
<1>8. ASSUME NEW w \in Workers, DropBox(w) PROVE TypeOK'
  BY <1>0, <1>8, Zenon DEF DropBox
<1>9. ASSUME NEW w \in Workers, Cancel(w) PROVE TypeOK'
  <2>0. guard[w] \in Boxes /\ kernel[guard[w]] = "fired"
    BY <1>0, <1>9 DEF Cancel, GuardsFired
  <2>1. guard[w] \in alive
    BY <1>0, <2>0, Zenon DEF RegisteredIsTabled
  <2>2. Fd(guard[w]) \in Fds
    BY <1>0, <2>1, FdOwned, Zenon
  <2>3. QED
    BY <1>0, <1>9, <2>2, Zenon DEF Cancel, TakeOut, CtlDel
<1>10. ASSUME NEW w \in Workers, Read(w) \/ GuardDrop(w) PROVE TypeOK'
  BY <1>0, <1>10, Zenon DEF Read, GuardDrop
<1>11. ASSUME NEW w \in Workers, Ask(w) \/ Yield(w) \/ Enter(w) \/ Leave(w) PROVE TypeOK'
  <2>1. CASE Ask(w)
    BY <1>0, <2>1, Zenon DEF Ask
  <2>2. CASE Yield(w)
    BY <1>0, <2>2, Zenon DEF Yield
  <2>3. CASE Enter(w)
    BY <1>0, <2>3, Zenon DEF Enter
  <2>4. CASE Leave(w)
    <3>1. at' \in [Workers -> {"wait", "run", "eof", "ask", "alone", "out"}]
      BY <1>0, <2>4, Zenon DEF Leave
    <3>2. QED
      BY <1>0, <2>4, <3>1, Zenon DEF Leave
  <2>5. QED
    BY <1>11, <2>1, <2>2, <2>3, <2>4, Zenon
<1>12. CASE UNCHANGED vars
  BY <1>0, <1>12, Zenon DEF vars
<1> HIDE DEF TypeOK, None, queue, Kinds
<1>13. ASSUME NEW w \in Workers, Step(w) PROVE TypeOK'
  BY <1>2, <1>3, <1>4, <1>5, <1>6, <1>7, <1>8, <1>9, <1>10, <1>11, <1>13, Zenon DEF Step
<1>14. QED
  BY <1>1, <1>12, <1>13, Zenon DEF Next

\* The invariant without its types.
Shape ==
  /\ OwnDescriptor /\ TableOwns /\ RegisteredIsTabled
  /\ GuardsFired /\ HandsOwn /\ Reachable

\* Steps that leave the table and its boxes alone.
LEMMA PollSteps ==
  ASSUME QueueInv, TypeOK', NEW w \in Workers
  PROVE  /\ \A b \in Boxes : Wait(w, b) \/ Shutdown(w, b) => Shape'
         /\ CtlAdd(w) \/ Read(w) \/ GuardDrop(w) => Shape'
         /\ Ask(w) \/ Yield(w) \/ Enter(w) \/ Leave(w) => Shape'
<1> USE EventQueueAssumption DEF None, queue
<1>0. TypeOK /\ Shape
  BY Zenon DEF QueueInv, Shape
<1>t. /\ hand \in [Workers -> Boxes \cup {0}] /\ guard \in [Workers -> Boxes \cup {0}]
      /\ kernel \in [Boxes -> {"none", "armed", "fired"}] /\ adding \subseteq Workers
      /\ at \in [Workers -> {"wait", "run", "eof", "ask", "alone", "out"}]
      /\ alive \subseteq Boxes /\ 0 \notin Boxes
  BY <1>0, Zenon DEF TypeOK
<1>1. ASSUME NEW b \in Boxes, Wait(w, b) PROVE Shape'
  <2>1. OwnDescriptor' /\ TableOwns'
    BY <1>0, <1>1, Zenon DEF Shape, Wait, Fired, Fires, OwnDescriptor, TableOwns
  <2>2. RegisteredIsTabled'
    BY <1>0, <1>t, <1>1 DEF Shape, Wait, Fired, Fires, RegisteredIsTabled, Tabled, GuardsFired, HandsOwn
  <2>3. GuardsFired'
    BY <1>0, <1>t, <1>1 DEF Shape, Wait, Fired, Fires, GuardsFired, RegisteredIsTabled, HandsOwn
  <2>4. HandsOwn'
    BY <1>0, <1>t, <1>1, Zenon DEF Shape, Wait, Fired, Fires, HandsOwn, Tabled
  <2>5. Reachable'
    BY <1>0, <1>t, <1>1 DEF Shape, Wait, Fired, Fires, Reachable, Tabled, HandsOwn
  <2>6. QED
    BY <2>1, <2>2, <2>3, <2>4, <2>5, Zenon DEF Shape
<1>2. ASSUME NEW b \in Boxes, Shutdown(w, b) PROVE Shape'
  <2>1. OwnDescriptor' /\ TableOwns'
    BY <1>0, <1>2, Zenon DEF Shape, Shutdown, OwnDescriptor, TableOwns
  <2>2. RegisteredIsTabled'
    BY <1>0, <1>t, <1>2 DEF Shape, Shutdown, RegisteredIsTabled, Tabled, GuardsFired, HandsOwn
  <2>3. GuardsFired'
    BY <1>0, <1>t, <1>2 DEF Shape, Shutdown, GuardsFired, RegisteredIsTabled, HandsOwn
  <2>4. HandsOwn'
    BY <1>0, <1>t, <1>2, Zenon DEF Shape, Shutdown, HandsOwn, Tabled
  <2>5. Reachable'
    BY <1>0, <1>t, <1>2, ZenonT(30) DEF Shape, Shutdown, Reachable, Tabled, HandsOwn
  <2>6. QED
    BY <2>1, <2>2, <2>3, <2>4, <2>5, Zenon DEF Shape
<1>3. ASSUME CtlAdd(w) PROVE Shape'
  <2>1. OwnDescriptor' /\ TableOwns'
    BY <1>0, <1>3, Zenon DEF Shape, CtlAdd, OwnDescriptor, TableOwns
  <2>2. RegisteredIsTabled'
    BY <1>0, <1>t, <1>3 DEF Shape, CtlAdd, RegisteredIsTabled, Tabled, GuardsFired, HandsOwn
  <2>a. hand[w] \in Boxes /\ \A v \in Workers : guard[v] # hand[w]
    BY <1>0, <1>t, <1>3, Zenon DEF Shape, CtlAdd, GuardsFired, RegisteredIsTabled, HandsOwn
  <2>b. /\ \A v \in Workers : guard[v] # 0 => kernel'[guard[v]] = kernel[guard[v]]
        /\ \A v \in Workers \ {w} : hand'[v] = hand[v]
        /\ hand'[w] = 0 /\ UNCHANGED <<guard, at, kind>>
    BY <1>t, <1>3, <2>a, Zenon DEF CtlAdd
  <2>3. GuardsFired'
    BY <1>0, <1>t, <2>b DEF Shape, GuardsFired
  <2>4. HandsOwn'
    BY <1>0, <1>t, <1>3, Zenon DEF Shape, CtlAdd, HandsOwn, Tabled
  <2>5. Reachable'
    BY <1>0, <1>t, <1>3 DEF Shape, CtlAdd, Reachable, Tabled, HandsOwn
  <2>6. QED
    BY <2>1, <2>2, <2>3, <2>4, <2>5, Zenon DEF Shape
<1>4. ASSUME Read(w) PROVE Shape'
  <2>1. OwnDescriptor' /\ TableOwns'
    BY <1>0, <1>4, Zenon DEF Shape, Read, OwnDescriptor, TableOwns
  <2>2. RegisteredIsTabled'
    BY <1>0, <1>t, <1>4 DEF Shape, Read, RegisteredIsTabled, Tabled, GuardsFired, HandsOwn
  <2>3. GuardsFired'
    BY <1>0, <1>t, <1>4 DEF Shape, Read, GuardsFired, RegisteredIsTabled, HandsOwn
  <2>4. HandsOwn'
    BY <1>0, <1>t, <1>4, Zenon DEF Shape, Read, HandsOwn, Tabled
  <2>5. Reachable'
    BY <1>0, <1>t, <1>4, Zenon DEF Shape, Read, Reachable, Tabled, HandsOwn
  <2>6. QED
    BY <2>1, <2>2, <2>3, <2>4, <2>5, Zenon DEF Shape
<1>5. ASSUME GuardDrop(w) PROVE Shape'
  <2>1. OwnDescriptor' /\ TableOwns'
    BY <1>0, <1>5, Zenon DEF Shape, GuardDrop, OwnDescriptor, TableOwns
  <2>2. RegisteredIsTabled'
    BY <1>0, <1>t, <1>5 DEF Shape, GuardDrop, RegisteredIsTabled, Tabled, GuardsFired, HandsOwn
  <2>3. GuardsFired'
    BY <1>0, <1>t, <1>5 DEF Shape, GuardDrop, GuardsFired, RegisteredIsTabled, HandsOwn
  <2>4. HandsOwn'
    BY <1>0, <1>t, <1>5, Zenon DEF Shape, GuardDrop, HandsOwn, Tabled
  <2>5. Reachable'
    BY <1>0, <1>t, <1>5, ZenonT(30) DEF Shape, GuardDrop, Reachable, Tabled, HandsOwn
  <2>6. QED
    BY <2>1, <2>2, <2>3, <2>4, <2>5, Zenon DEF Shape
<1>6. ASSUME Ask(w) PROVE Shape'
  <2>1. OwnDescriptor' /\ TableOwns'
    BY <1>0, <1>6, Zenon DEF Shape, Ask, OwnDescriptor, TableOwns
  <2>2. RegisteredIsTabled'
    BY <1>0, <1>t, <1>6 DEF Shape, Ask, RegisteredIsTabled, Tabled, GuardsFired, HandsOwn
  <2>3. GuardsFired'
    BY <1>0, <1>t, <1>6 DEF Shape, Ask, GuardsFired, RegisteredIsTabled, HandsOwn
  <2>4. HandsOwn'
    BY <1>0, <1>t, <1>6 DEF Shape, Ask, HandsOwn, Tabled
  <2>5. Reachable'
    BY <1>0, <1>t, <1>6 DEF Shape, Ask, Reachable, Tabled, HandsOwn
  <2>6. QED
    BY <2>1, <2>2, <2>3, <2>4, <2>5, Zenon DEF Shape
<1>7. ASSUME Yield(w) PROVE Shape'
  <2>1. OwnDescriptor' /\ TableOwns'
    BY <1>0, <1>7, Zenon DEF Shape, Yield, OwnDescriptor, TableOwns
  <2>2. RegisteredIsTabled'
    BY <1>0, <1>t, <1>7 DEF Shape, Yield, RegisteredIsTabled, Tabled, GuardsFired, HandsOwn
  <2>3. GuardsFired'
    BY <1>0, <1>t, <1>7 DEF Shape, Yield, GuardsFired, RegisteredIsTabled, HandsOwn
  <2>4. HandsOwn'
    BY <1>0, <1>t, <1>7, Zenon DEF Shape, Yield, HandsOwn, Tabled
  <2>5. Reachable'
    BY <1>0, <1>t, <1>7, ZenonT(30) DEF Shape, Yield, Reachable, Tabled, HandsOwn
  <2>6. QED
    BY <2>1, <2>2, <2>3, <2>4, <2>5, Zenon DEF Shape
<1>8. ASSUME Enter(w) PROVE Shape'
  <2>1. OwnDescriptor' /\ TableOwns'
    BY <1>0, <1>8, Zenon DEF Shape, Enter, Alone, OwnDescriptor, TableOwns
  <2>2. RegisteredIsTabled'
    BY <1>0, <1>t, <1>8 DEF Shape, Enter, Alone, RegisteredIsTabled, Tabled, GuardsFired, HandsOwn
  <2>3. GuardsFired'
    BY <1>0, <1>t, <1>8 DEF Shape, Enter, Alone, GuardsFired, RegisteredIsTabled, HandsOwn
  <2>4. HandsOwn'
    BY <1>0, <1>t, <1>8, Zenon DEF Shape, Enter, Alone, HandsOwn, Tabled
  <2>5. Reachable'
    BY <1>0, <1>t, <1>8, Zenon DEF Shape, Enter, Alone, Reachable, Tabled, HandsOwn
  <2>6. QED
    BY <2>1, <2>2, <2>3, <2>4, <2>5, Zenon DEF Shape
<1>9. ASSUME Leave(w) PROVE Shape'
  <2>1. OwnDescriptor' /\ TableOwns'
    BY <1>0, <1>9, Zenon DEF Shape, Leave, OwnDescriptor, TableOwns
  <2>2. RegisteredIsTabled'
    BY <1>0, <1>t, <1>9 DEF Shape, Leave, RegisteredIsTabled, Tabled, GuardsFired, HandsOwn
  <2>3. GuardsFired'
    BY <1>0, <1>t, <1>9, ZenonT(30) DEF Shape, Leave, GuardsFired, RegisteredIsTabled, HandsOwn
  <2>4. HandsOwn'
    BY <1>0, <1>t, <1>9, Zenon DEF Shape, Leave, HandsOwn, Tabled
  <2>5. Reachable'
    BY <1>0, <1>t, <1>9, Zenon DEF Shape, Leave, Reachable, Tabled, HandsOwn
  <2>6. QED
    BY <2>1, <2>2, <2>3, <2>4, <2>5, Zenon DEF Shape
<1>10. QED
  BY <1>1, <1>2, <1>3, <1>4, <1>5, <1>6, <1>7, <1>8, <1>9, Zenon

\* Steps that put a box into the table, take one out, or drop it.
LEMMA TableSteps ==
  ASSUME QueueInv, TypeOK', NEW w \in Workers
  PROVE  /\ \A f \in Fds, k \in Kinds : Register(w, f, k) => Shape'
         /\ AddRefused(w) => Shape'
         /\ DropBox(w) => Shape'
         /\ Cancel(w) => Shape'
         /\ \A b \in Boxes : ClearListener(w, b) => Shape'
<1> USE EventQueueAssumption DEF None, queue
<1>0. TypeOK /\ Shape
  BY Zenon DEF QueueInv, Shape
<1>t. /\ hand \in [Workers -> Boxes \cup {0}] /\ guard \in [Workers -> Boxes \cup {0}]
      /\ kernel \in [Boxes -> {"none", "armed", "fired"}] /\ adding \subseteq Workers
      /\ at \in [Workers -> {"wait", "run", "eof", "ask", "alone", "out"}]
      /\ events \in [Fds -> Boxes \cup {0}] /\ owner \in [Fds -> Boxes \cup {0}]
      /\ kind \in [Boxes -> Kinds \cup {"unborn"}]
      /\ alive \subseteq Boxes /\ 0 \notin Boxes
  BY <1>0, Zenon DEF TypeOK
<1>1. ASSUME NEW f \in Fds, NEW k \in Kinds, Register(w, f, k) PROVE Shape'
  <2> DEFINE n == NextBox
  <2>1. n \in Boxes /\ kind[n] = "unborn" /\ k # "unborn"
    BY <1>1, NextBoxUnborn, Zenon DEF Register, Kinds
  <2>2. /\ n \notin alive /\ owner[f] = 0 /\ events[f] = 0 /\ kernel[n] = "none"
        /\ \A v \in Workers : hand[v] # n /\ guard[v] # n
        /\ \A g \in Fds : owner[g] # n /\ events[g] # n
    BY <1>0, <1>t, <1>1, <2>1
       DEF Shape, Register, Free, OwnDescriptor, TableOwns, RegisteredIsTabled, HandsOwn, GuardsFired
  <2>3. /\ events' = [events EXCEPT ![f] = n] /\ owner' = [owner EXCEPT ![f] = n]
        /\ kind' = [kind EXCEPT ![n] = k] /\ alive' = alive \cup {n}
        /\ hand' = [hand EXCEPT ![w] = n] /\ adding' = adding \cup {w}
        /\ hand[w] = 0 /\ at[w] \in {"run", "alone"}
        /\ UNCHANGED <<kernel, at, guard>>
    BY <1>1, Zenon DEF Register
  <2> HIDE DEF n
  <2>4. OwnDescriptor' /\ TableOwns'
    BY <1>0, <1>t, <2>1, <2>2, <2>3 DEF Shape, OwnDescriptor, TableOwns
  <2>5. RegisteredIsTabled'
    BY <1>0, <1>t, <2>1, <2>2, <2>3 DEF Shape, RegisteredIsTabled, Tabled
  <2>6. GuardsFired'
    BY <1>0, <1>t, <2>1, <2>2, <2>3 DEF Shape, GuardsFired
  <2>7. HandsOwn'
    BY <1>0, <1>t, <2>1, <2>2, <2>3 DEF Shape, HandsOwn, Tabled
  <2>8. Reachable'
    BY <1>0, <1>t, <2>1, <2>2, <2>3 DEF Shape, Reachable, Tabled
  <2>9. QED
    BY <2>4, <2>5, <2>6, <2>7, <2>8, Zenon DEF Shape
<1>2. ASSUME AddRefused(w) PROVE Shape'
  <2> DEFINE b == hand[w]
             f == Fd(b)
  <2>1. b \in alive /\ b \in Boxes /\ kernel[b] = "none"
    BY <1>0, <1>t, <1>2, Zenon DEF Shape, AddRefused, HandsOwn, RegisteredIsTabled
  <2>2. f \in Fds /\ owner[f] = b
    BY <1>0, <2>1, FdOwned, Zenon DEF Shape
  <2>3. /\ events' = [events EXCEPT ![f] = 0] /\ adding' = adding \ {w} /\ w \in adding
        /\ UNCHANGED <<owner, kernel, kind, alive, at, guard, hand>>
    BY <1>2, Zenon DEF AddRefused
  <2> HIDE DEF f
  <2>4. OwnDescriptor' /\ TableOwns'
    BY <1>0, <1>t, <2>1, <2>2, <2>3 DEF Shape, OwnDescriptor, TableOwns
  <2>5. \A c \in Boxes : Tabled(c)' <=> Tabled(c) /\ c # b
    BY <1>0, <1>t, <2>1, <2>2, <2>3 DEF Shape, OwnDescriptor, TableOwns, Tabled
  <2>6. RegisteredIsTabled'
    BY <1>0, <1>t, <2>1, <2>3, <2>5, Zenon DEF Shape, RegisteredIsTabled
  <2>7. GuardsFired'
    BY <1>0, <1>t, <2>3 DEF Shape, GuardsFired
  <2>8. HandsOwn'
    BY <1>0, <1>t, <2>1, <2>3, <2>5, Zenon DEF Shape, HandsOwn
  <2>9. Reachable'
    BY <1>0, <1>t, <2>1, <2>3, <2>5, Zenon DEF Shape, Reachable
  <2>10. QED
    BY <2>4, <2>6, <2>7, <2>8, <2>9, Zenon DEF Shape
<1>3. ASSUME DropBox(w) PROVE Shape'
  <2> DEFINE b == hand[w]
             f == Fd(b)
  <2>1. /\ b \in alive /\ b \in Boxes /\ ~Tabled(b) /\ kernel[b] = "none"
        /\ \A v \in Workers : guard[v] # b
    BY <1>0, <1>t, <1>3, Zenon DEF Shape, DropBox, HandsOwn, RegisteredIsTabled, GuardsFired
  <2>2. f \in Fds /\ owner[f] = b
    BY <1>0, <2>1, FdOwned, Zenon DEF Shape
  <2>3. /\ owner' = [owner EXCEPT ![f] = 0] /\ alive' = alive \ {b}
        /\ hand' = [hand EXCEPT ![w] = 0] /\ w \notin adding
        /\ UNCHANGED <<events, kind, at, guard, adding>>
    BY <1>3, Zenon DEF DropBox
  <2>4. kernel' = kernel
    BY <1>3, <1>t, <2>1 DEF DropBox
  <2> HIDE DEF f
  <2>5. OwnDescriptor' /\ TableOwns'
    BY <1>0, <1>t, <2>1, <2>2, <2>3 DEF Shape, OwnDescriptor, TableOwns, Tabled
  <2>6. \A c \in Boxes : Tabled(c)' <=> Tabled(c)
    BY <2>3, Zenon DEF Tabled
  <2>7. RegisteredIsTabled'
    BY <1>0, <1>t, <2>1, <2>3, <2>4, <2>6, Zenon DEF Shape, RegisteredIsTabled
  <2>8. GuardsFired'
    BY <1>0, <1>t, <2>1, <2>3, <2>4 DEF Shape, GuardsFired
  <2>9. HandsOwn'
    <3>1. hand'[w] = 0 /\ \A v \in Workers \ {w} : hand'[v] = hand[v] /\ hand[v] # b
      BY <1>0, <1>t, <2>1, <2>3, Zenon DEF Shape, HandsOwn
    <3> HIDE DEF b
    <3>2. QED
      BY <1>0, <1>t, <2>1, <2>3, <2>6, <3>1, ZenonT(30) DEF Shape, HandsOwn
  <2>10. Reachable'
    BY <1>0, <1>t, <2>1, <2>3, <2>4, <2>6 DEF Shape, Reachable
  <2>11. QED
    BY <2>5, <2>7, <2>8, <2>9, <2>10, Zenon DEF Shape
<1>4. ASSUME NEW b \in Boxes, NEW f \in Fds, b \in alive, owner[f] = b, events[f] = b,
             \A v \in Workers : hand[v] # b,
             hand' = [hand EXCEPT ![w] = b], hand[w] = 0, w \notin adding,
             events' = [events EXCEPT ![f] = 0], kernel' = [kernel EXCEPT ![b] = "none"],
             UNCHANGED <<owner, kind, alive, adding>>
      PROVE  /\ OwnDescriptor' /\ TableOwns' /\ RegisteredIsTabled'
             /\ HandsOwn' \/ ~(\A v \in Workers : v \in adding => at'[v] = at[v])
             /\ Reachable'
  <2>1. OwnDescriptor' /\ TableOwns'
    BY <1>0, <1>t, <1>4, Zenon DEF Shape, OwnDescriptor, TableOwns
  <2>2. \A c \in Boxes : Tabled(c)' <=> Tabled(c) /\ c # b
    BY <1>0, <1>t, <1>4 DEF Shape, OwnDescriptor, TableOwns, Tabled
  <2>3. RegisteredIsTabled'
    BY <1>0, <1>t, <1>4, <2>2, Zenon DEF Shape, RegisteredIsTabled
  <2>4. ASSUME \A v \in Workers : v \in adding => at'[v] = at[v] PROVE HandsOwn'
    <3>1. hand'[w] = b /\ \A v \in Workers \ {w} : hand'[v] = hand[v]
      BY <1>t, <1>4, Zenon
    <3>2. HandsOwn /\ w \notin adding' /\ ~Tabled(b)'
      BY <1>0, <1>4, <2>2, Zenon DEF Shape
    <3>3. ASSUME NEW v \in Workers, v # w, hand[v] # 0
          PROVE  /\ hand[v] \in alive' /\ \A u \in Workers \ {v} : hand'[u] # hand[v]
                 /\ v \in adding' <=> Tabled(hand[v])'
      <4>1. hand[v] \in Boxes /\ hand[v] # b
        BY <1>t, <1>4, <3>3
      <4>2. \A u \in Workers \ {v} : hand'[u] # hand[v]
        BY <3>1, <3>2, <3>3, <4>1, Zenon DEF HandsOwn
      <4>3. hand[v] \in alive /\ (v \in adding <=> Tabled(hand[v]))
        BY <3>2, <3>3, Zenon DEF HandsOwn
      <4> QED BY <1>4, <2>2, <3>1, <3>3, <4>1, <4>2, <4>3, Zenon
    <3>4. ASSUME NEW v \in Workers, v \in adding'
          PROVE  hand'[v] # 0 /\ at'[v] \in {"run", "alone"}
      BY <1>4, <2>4, <3>1, <3>2, <3>4, Zenon DEF HandsOwn
    <3> QED BY <1>4, <3>1, <3>2, <3>3, <3>4 DEF HandsOwn
  <2>5. Reachable'
    BY <1>0, <1>t, <1>4, <2>2 DEF Shape, Reachable
  <2>6. QED
    BY <2>1, <2>3, <2>4, <2>5, Zenon
<1>5. ASSUME Cancel(w) PROVE Shape'
  <2> DEFINE b == guard[w]
             f == Fd(b)
  <2>1. b \in Boxes /\ kernel[b] = "fired" /\ \A v \in Workers \ {w} : guard[v] # b
    BY <1>0, <1>t, <1>5 DEF Shape, Cancel, GuardsFired
  <2>2. b \in alive /\ Tabled(b) /\ \A v \in Workers : hand[v] # b
    BY <1>0, <2>1, Zenon DEF Shape, RegisteredIsTabled
  <2>3. f \in Fds /\ owner[f] = b
    BY <1>0, <2>2, FdOwned, Zenon DEF Shape
  <2>4. events[f] = b
    BY <1>0, <1>t, <2>1, <2>2, <2>3 DEF Shape, OwnDescriptor, TableOwns, Tabled
  <2>5. hand[w] = 0 /\ w \notin adding
    BY <1>0, <1>5, Zenon DEF Shape, HandsOwn, Cancel
  <2>6. /\ hand' = [hand EXCEPT ![w] = b] /\ events' = [events EXCEPT ![f] = 0]
        /\ kernel' = [kernel EXCEPT ![b] = "none"]
        /\ guard' = [guard EXCEPT ![w] = 0] /\ at' = [at EXCEPT ![w] = "wait"]
        /\ UNCHANGED <<owner, kind, alive, adding>>
    BY <1>5, <1>t, <2>1, <2>3, <2>4, Zenon DEF Cancel, TakeOut, CtlDel
  <2> HIDE DEF b, f
  <2>7. \A v \in Workers : v \in adding => at'[v] = at[v]
    BY <1>t, <2>5, <2>6, Zenon
  <2>8. OwnDescriptor' /\ TableOwns' /\ RegisteredIsTabled' /\ HandsOwn' /\ Reachable'
    BY <1>4, <2>1, <2>2, <2>3, <2>4, <2>5, <2>6, <2>7, Zenon
  <2>9. GuardsFired'
    BY <1>0, <1>t, <2>1, <2>6 DEF Shape, GuardsFired, b
  <2>10. QED
    BY <2>8, <2>9, Zenon DEF Shape
<1>6. ASSUME NEW b \in Boxes, ClearListener(w, b) PROVE Shape'
  <2> DEFINE f == Fd(b)
  <2>1. b \in alive /\ kind[b] = "listener" /\ at[w] = "alone" /\ hand[w] = 0
    BY <1>6, Zenon DEF ClearListener
  <2>2. f \in Fds /\ owner[f] = b
    BY <1>0, <2>1, FdOwned, Zenon DEF Shape
  <2>3. \A v \in Workers : hand[v] = 0 /\ v \notin adding
    BY <1>0, <1>t, <2>1 DEF Shape, GuardsFired, HandsOwn
  <2>4. Tabled(b)
    BY <1>0, <1>t, <2>1, <2>3, Zenon DEF Shape, Reachable
  <2>5. events[f] = b
    BY <1>0, <1>t, <2>2, <2>4, ZenonT(30) DEF Shape, OwnDescriptor, TableOwns, Tabled
  <2>6. /\ hand' = [hand EXCEPT ![w] = b] /\ events' = [events EXCEPT ![f] = 0]
        /\ kernel' = [kernel EXCEPT ![b] = "none"]
        /\ UNCHANGED <<owner, kind, alive, adding, at, guard>>
    BY <1>6, <1>t, <2>2, <2>5, ZenonT(30) DEF ClearListener, TakeOut, CtlDel
  <2> HIDE DEF f
  <2>7. \A v \in Workers : guard[v] # b
    BY <1>0, <1>t, <2>1 DEF Shape, GuardsFired
  <2>8. \A v \in Workers : v \in adding => at'[v] = at[v]
    BY <2>6, Zenon
  <2>a. w \notin adding /\ \A v \in Workers : hand[v] # b
    BY <1>t, <2>3, Zenon
  <2>9. OwnDescriptor' /\ TableOwns' /\ RegisteredIsTabled' /\ HandsOwn' /\ Reachable'
    BY <1>4, <2>1, <2>2, <2>5, <2>6, <2>8, <2>a, Zenon
  <2>10. GuardsFired'
    BY <1>0, <1>t, <2>1, <2>6, <2>7 DEF Shape, GuardsFired
  <2>11. QED
    BY <2>9, <2>10, Zenon DEF Shape
<1>7. QED
  BY <1>1, <1>2, <1>3, <1>5, <1>6, Zenon

\* Every step keeps the invariant.
LEMMA QueueStep == QueueInv /\ [Next]_vars => QueueInv'
<1> SUFFICES ASSUME QueueInv, [Next]_vars PROVE QueueInv'
  BY Zenon
<1>1. TypeOK'
  BY TypeStep, Zenon
<1>2. ASSUME (\E b \in Boxes : Arrive(b)) \/ UNCHANGED vars PROVE Shape'
  <2>1. UNCHANGED <<events, owner, kernel, kind, alive, at, guard, hand, adding>>
    BY <1>2, Zenon DEF Arrive, vars, queue
  <2>2. Shape
    BY Zenon DEF QueueInv, Shape
  <2>3. QED
    BY <2>1, <2>2 DEF Shape, OwnDescriptor, TableOwns, RegisteredIsTabled, GuardsFired,
                      HandsOwn, Reachable, Tabled
<1>3. ASSUME NEW w \in Workers, Step(w) PROVE Shape'
  BY <1>1, <1>3, PollSteps, TableSteps, Zenon DEF Step
<1>4. Shape'
  BY <1>2, <1>3, Zenon DEF Next
<1>5. QED
  BY <1>1, <1>4, Zenon DEF QueueInv, Shape

\* The invariant holds in every state of every behaviour.
LEMMA QueueInvariant == PollersSpec => []QueueInv
<1>1. PollersInit => QueueInv
  BY QueueInit, Zenon DEF PollersInit
<1>2. QueueInv /\ [PollersNext]_<<vars, bsdVars, system>> => QueueInv'
  <2>1. [PollersNext]_<<vars, bsdVars, system>> => [Next]_vars
    BY Zenon DEF PollersNext
  <2>2. QED
    BY <2>1, QueueStep, Zenon
<1>3. QED
  BY <1>1, <1>2, PTL DEF PollersSpec

\* For any number of workers and handlers, no raw pointer that epoll or an
\* EventGuard holds outlives its box, and no two guards borrow one.
THEOREM PointersLive == PollersSpec => []NoDanglingPointer
<1>1. QueueInv => NoDanglingPointer
  <2> SUFFICES ASSUME QueueInv PROVE NoDanglingPointer
    BY Zenon
  <2>1. guard \in [Workers -> Boxes \cup {0}]
    BY Zenon DEF QueueInv, TypeOK, None
  <2>2. QED
    BY <2>1, Zenon DEF QueueInv, RegisteredIsTabled, GuardsFired, NoDanglingPointer, None
<1>2. QED
  BY <1>1, QueueInvariant, PTL

\* Every handler not yet dropped is in the table at its own descriptor or in
\* the hands of the one worker that registers it or took it out.
THEOREM NoneStranded == PollersSpec => []NothingStranded
<1>1. QueueInv => NothingStranded
  <2> SUFFICES ASSUME QueueInv, NEW b \in alive
               PROVE  \/ /\ events[Fd(b)] = b
                         /\ kernel[b] # "none" \/ \E w \in adding : hand[w] = b
                      \/ \E w \in Workers : hand[w] = b /\ \A v \in Workers \ {w} : hand[v] # b
    BY Zenon DEF NothingStranded, QueueInv, TableOwns, None
  <2>1. /\ Fd(b) \in Fds /\ owner[Fd(b)] = b /\ b # 0
    BY FdOwned, EventQueueAssumption, Zenon DEF QueueInv, TypeOK
  <2>2. Tabled(b) => events[Fd(b)] = b
    <3>1. ASSUME NEW f \in Fds, events[f] = b PROVE events[Fd(b)] = b
      <4>1. owner[f] = b
        BY <2>1, <3>1, Zenon DEF QueueInv, TableOwns, None
      <4>2. f = Fd(b)
        BY <2>1, <4>1, Zenon DEF QueueInv, OwnDescriptor, None
      <4>3. QED
        BY <3>1, <4>2, Zenon
    <3>2. QED
      BY <3>1, Zenon DEF Tabled
  <2>3. \A w \in Workers : hand[w] = b => \A v \in Workers \ {w} : hand[v] # b
    BY <2>1, Zenon DEF QueueInv, HandsOwn, None
  <2>4. QED
    BY <2>2, <2>3, Zenon DEF QueueInv, Reachable
<1>2. QED
  BY <1>1, QueueInvariant, PTL

-----------------------------------------------------------------------------
(***************************************************************************)
(* The same table on kqueue (Kqueue).                                      *)
(***************************************************************************)
BsdType ==
  /\ table \in [Fds -> Boxes \cup {0}] /\ holds \in [Fds -> Boxes \cup {0}]
  /\ filters \in [Fds -> [Bsd!Filters -> [box: Boxes \cup {0}, on: BOOLEAN]]]
  /\ role \in [Boxes -> {"unborn", "read", "stream", "dropped"}]
  /\ writes \subseteq Boxes /\ locked \in Workers \cup {0}
  /\ borrows \in [Workers -> Boxes \cup {0}] /\ carries \in [Workers -> Boxes \cup {0}]
  /\ step \in [Workers -> {"none", "reserve", "add", "insert", "drop"}]

\* A box that is neither unborn nor dropped has a descriptor of its own; it is in
\* the table at that descriptor, or in the hands of one worker, never both.
BoxesOwn ==
  /\ \A f, g \in Fds : holds[f] # 0 /\ holds[f] = holds[g] => f = g
  /\ \A f \in Fds : holds[f] # 0 => /\ role[holds[f]] \in {"read", "stream"}
                                    /\ table[f] = holds[f] \/ \E w \in Workers : carries[w] = holds[f]
  /\ \A f \in Fds : table[f] # 0 => holds[f] = table[f]
  /\ \A w \in Workers : carries[w] # 0 => \E f \in Fds : holds[f] = carries[w] /\ table[f] = 0
  /\ \A v, w \in Workers : carries[w] # 0 /\ carries[v] = carries[w] => v = w
  /\ \A b \in writes : role[b] # "unborn"

\* The lock is held from the first kevent of a registration to the insertion.
LockCovers ==
  \A w \in Workers : /\ carries[w] = 0 <=> step[w] = "none"
                     /\ step[w] \in {"reserve", "add", "insert"} <=> locked = w

\* A box that can fire: in the table, or about to be.
CanFire(b) ==
  \/ \E f \in Fds : table[f] = b
  \/ \E w \in Workers : step[w] = "insert" /\ carries[w] = b

Borrowed(b) == \E w \in Workers : borrows[w] = b

\* A guard borrows a box that can fire, alone.
GuardsBorrow ==
  \A w \in Workers : borrows[w] # 0 =>
    /\ CanFire(borrows[w])
    /\ \A v \in Workers : borrows[v] = borrows[w] => v = w

\* What the kernel has of a descriptor, stage by stage of its box.
KernelAt(f) ==
  /\ \A k \in Bsd!Filters : /\ filters[f][k].box \in {0, holds[f]}
                            /\ filters[f][k].on => filters[f][k].box # 0
  /\ \A w \in Workers : holds[f] # 0 /\ carries[w] = holds[f] =>
       /\ step[w] \in {"reserve", "drop"} => \A k \in Bsd!Filters : filters[f][k] = Bsd!Absent
       /\ step[w] = "reserve" => role[holds[f]] = "stream"
       /\ step[w] \in {"reserve", "add"} => holds[f] \notin writes
       /\ step[w] = "add" => /\ filters[f]["READ"] = Bsd!Absent
                             /\ ~filters[f]["WRITE"].on
                             /\ filters[f]["WRITE"].box = IF role[holds[f]] = "stream" THEN holds[f] ELSE 0
  /\ holds[f] # 0 /\ CanFire(holds[f]) =>
       /\ filters[f]["READ"].box = holds[f]
       /\ filters[f]["WRITE"].box = IF role[holds[f]] = "stream" THEN holds[f] ELSE 0
       /\ \A k \in Bsd!Filters :
            filters[f][k].on <=> ~Borrowed(holds[f]) /\ k = Bsd!Desired(holds[f])

KernelFollows == \A f \in Fds : KernelAt(f)

\* The inductive invariant on kqueue.
BsdInv == BsdType /\ BoxesOwn /\ LockCovers /\ GuardsBorrow /\ KernelFollows


USE DEF Bsd!Nil

\* A box's descriptor is the one that holds it.
LEMMA HeldAt ==
  ASSUME BoxesOwn, NEW f \in Fds, holds[f] # 0
  PROVE  Bsd!FdOf(holds[f]) = f
BY Zenon DEF BoxesOwn, Bsd!FdOf

\* A filter that points nowhere and is not enabled.
LEMMA AbsentIs ==
  ASSUME BsdType, NEW g \in Fds, NEW k \in Bsd!Filters, filters[g][k].box = 0, ~filters[g][k].on
  PROVE  filters[g][k] = Bsd!Absent
<1>1. PICK r \in [box: Boxes \cup {0}, on: BOOLEAN] : r = filters[g][k]
  BY ZenonT(30) DEF BsdType
<1>2. r.box = 0 /\ r.on = FALSE
  BY <1>1, Zenon
<1>3. r = [box |-> 0, on |-> FALSE]
  BY <1>2, Zenon
<1>4. QED
  BY <1>1, <1>3, Zenon DEF Bsd!Absent

\* One listener in the table, its READ filter enabled.
LEMMA BsdStarts == Bsd!KqueueInit => BsdInv
<1> SUFFICES ASSUME Bsd!KqueueInit PROVE BsdInv
  BY Zenon
<1>1. PICK f \in Fds :
        /\ table = [g \in Fds |-> IF g = f THEN 1 ELSE 0]
        /\ holds = table
        /\ filters = [g \in Fds |-> [k \in Bsd!Filters |->
                        IF g = f /\ k = "READ" THEN [box |-> 1, on |-> TRUE] ELSE Bsd!Absent]]
        /\ role = [b \in Boxes |-> IF b = 1 THEN "read" ELSE "unborn"]
        /\ writes = {} /\ locked = 0
        /\ borrows = [w \in Workers |-> 0]
        /\ step = [w \in Workers |-> "none"] /\ carries = [w \in Workers |-> 0]
  BY Zenon DEF Bsd!KqueueInit
<1> USE EventQueueAssumption, PollersAssumption
<1>2. BsdType
  BY <1>1, Zenon DEF BsdType, Bsd!Absent
<1>3. BoxesOwn /\ LockCovers /\ GuardsBorrow
  BY <1>1, Zenon DEF BoxesOwn, LockCovers, GuardsBorrow
<1>4. KernelFollows
  BY <1>1, Zenon DEF KernelFollows, KernelAt, Bsd!Absent, Bsd!Filters, Bsd!Desired, CanFire, Borrowed
<1>5. QED
  BY <1>2, <1>3, <1>4, Zenon DEF BsdInv

\* One filter is set, or its enable bit alone.
LEMMA FilterSet ==
  ASSUME BsdType, NEW f \in Fds, NEW k \in Bsd!Filters, NEW x \in [box: Boxes \cup {0}, on: BOOLEAN],
         filters' = [filters EXCEPT ![f][k] = x]
  PROVE  /\ filters' \in [Fds -> [Bsd!Filters -> [box: Boxes \cup {0}, on: BOOLEAN]]]
         /\ \A g \in Fds, j \in Bsd!Filters :
              filters'[g][j] = IF g = f /\ j = k THEN x ELSE filters[g][j]
BY Zenon DEF BsdType

LEMMA SwitchSet ==
  ASSUME BsdType, NEW f \in Fds, NEW k \in Bsd!Filters, NEW on \in BOOLEAN,
         filters' = Bsd!Switched(f, k, on)
  PROVE  /\ filters' \in [Fds -> [Bsd!Filters -> [box: Boxes \cup {0}, on: BOOLEAN]]]
         /\ \A g \in Fds, j \in Bsd!Filters :
              /\ filters'[g][j].box = filters[g][j].box
              /\ filters'[g][j].on = IF g = f /\ j = k THEN on ELSE filters[g][j].on
         /\ \A g \in Fds : g # f => filters'[g] = filters[g]
<1>1. PICK x \in [box: Boxes \cup {0}, on: BOOLEAN] : x = [box |-> filters[f][k].box, on |-> on]
  BY Zenon DEF BsdType
<1>2. x.box = filters[f][k].box /\ x.on = on
  BY <1>1, Zenon
<1>3. filters' = [filters EXCEPT ![f][k] = x]
  BY <1>1, Zenon DEF Bsd!Switched
<1>4. /\ filters' \in [Fds -> [Bsd!Filters -> [box: Boxes \cup {0}, on: BOOLEAN]]]
      /\ \A g \in Fds, j \in Bsd!Filters :
           filters'[g][j] = IF g = f /\ j = k THEN x ELSE filters[g][j]
      /\ \A g \in Fds : g # f => filters'[g] = filters[g]
  BY <1>3 DEF BsdType
<1>5. QED
  BY <1>2, <1>4, Zenon

\* A descriptor the step does not concern.
LEMMA KernelKept ==
  ASSUME NEW g \in Fds, KernelAt(g), holds'[g] = holds[g],
         \A k \in Bsd!Filters : filters'[g][k] = filters[g][k],
         holds[g] # 0 =>
           /\ role'[holds[g]] = role[holds[g]]
           /\ holds[g] \in writes' <=> holds[g] \in writes
           /\ Borrowed(holds[g])' <=> Borrowed(holds[g])
           /\ CanFire(holds[g])' => CanFire(holds[g])
           /\ \A w \in Workers : carries'[w] = holds[g] => carries[w] = holds[g] /\ step'[w] = step[w]
  PROVE  KernelAt(g)'
<1>1. CASE holds[g] = 0
  BY <1>1, Zenon DEF KernelAt
<1>2. CASE holds[g] # 0
  <2>1. Bsd!Desired(holds[g])' = Bsd!Desired(holds[g])
    BY <1>2, Zenon DEF Bsd!Desired
  <2>2. QED
    BY <1>2, <2>1, Zenon DEF KernelAt, Bsd!Filters
<1>3. QED
  BY <1>1, <1>2, Zenon

\* register_event takes the lock and gives the new box a descriptor.
LEMMA NewKeeps ==
  ASSUME BsdInv, NEW w \in Workers, NEW f \in Fds, NEW kind_ \in {"read", "stream"},
         Bsd!NewReadEvent(w, f, kind_)
  PROVE  BsdInv'
<1> USE EventQueueAssumption, PollersAssumption
<1>1. PICK b \in Boxes : b = Bsd!NewBox
  BY Zenon DEF Bsd!NewBox, Bsd!NewReadEvent
<1>2. role[b] = "unborn" /\ b # 0
  BY <1>1, Zenon DEF Bsd!NewBox, Bsd!NewReadEvent
<1>3. /\ step[w] = "none" /\ locked = 0 /\ holds[f] = 0
      /\ holds' = [holds EXCEPT ![f] = b]
      /\ role' = [role EXCEPT ![b] = kind_]
      /\ carries' = [carries EXCEPT ![w] = b]
      /\ step' = [step EXCEPT ![w] = IF kind_ = "stream" THEN "reserve" ELSE "add"]
      /\ locked' = w
      /\ UNCHANGED <<table, filters, writes, borrows>>
  BY <1>1, Zenon DEF Bsd!NewReadEvent, Bsd!Runs
<1>4. /\ \A g \in Fds : holds[g] # b /\ table[g] # b
      /\ \A v \in Workers : carries[v] # b
      /\ b \notin writes /\ table[f] = 0 /\ carries[w] = 0
  <2>1. \A g \in Fds : holds[g] # b
    BY <1>2, Zenon DEF BsdInv, BoxesOwn
  <2>2. \A g \in Fds : table[g] # b
    BY <1>2, <2>1, Zenon DEF BsdInv, BoxesOwn
  <2>3. \A v \in Workers : carries[v] # b
    <3>1. \A v \in Workers : carries[v] # 0 => \E g \in Fds : holds[g] = carries[v]
      BY Zenon DEF BsdInv, BoxesOwn
    <3>2. QED
      BY <1>2, <2>1, <3>1, Zenon
  <2>4. b \notin writes
    BY <1>2, Zenon DEF BsdInv, BoxesOwn
  <2>5. table[f] = 0
    BY <1>3, Zenon DEF BsdInv, BoxesOwn
  <2>6. carries[w] = 0
    BY <1>3, Zenon DEF BsdInv, LockCovers
  <2>7. QED
    BY <2>1, <2>2, <2>3, <2>4, <2>5, <2>6, Zenon
<1>5. BsdType'
  BY <1>3, Zenon DEF BsdInv, BsdType
<1>6. BoxesOwn'
  BY <1>2, <1>3, <1>4 DEF BsdInv, BsdType, BoxesOwn
<1>7. LockCovers'
  BY <1>2, <1>3, Zenon DEF BsdInv, BsdType, LockCovers
<1>8. \A c \in Boxes : /\ c # b => (CanFire(c)' <=> CanFire(c)) /\ (Borrowed(c)' <=> Borrowed(c))
                       /\ ~CanFire(b) /\ ~CanFire(b)'
  BY <1>2, <1>3, <1>4, Zenon DEF BsdInv, BsdType, CanFire, Borrowed
<1>9. GuardsBorrow'
  BY <1>3, <1>8, Zenon DEF BsdInv, BsdType, GuardsBorrow
<1>10. ASSUME NEW g \in Fds PROVE KernelAt(g)'
  <2>1. KernelAt(g)
    BY Zenon DEF BsdInv, KernelFollows
  <2>2. CASE g # f
    <3>1. holds[g] # 0 => holds[g] \in Boxes /\ holds[g] # b
      BY <1>4, Zenon DEF BsdInv, BsdType
    <3>2. QED
      BY <1>3, <1>8, <2>1, <2>2, <3>1, KernelKept, Zenon DEF BsdInv, BsdType
  <2>3. CASE g = f
    <3>1. \A k \in Bsd!Filters : filters[f][k] = Bsd!Absent
      BY <1>3, <2>1, <2>3, AbsentIs, Zenon DEF KernelAt, BsdInv
    <3>2. QED
      BY <1>2, <1>3, <1>4, <1>8, <2>3, <3>1 DEF KernelAt, BsdInv, BsdType, Bsd!Absent, Bsd!Filters
  <2>4. QED
    BY <2>2, <2>3, Zenon
<1>11. QED
  BY <1>5, <1>6, <1>7, <1>9, <1>10, Zenon DEF BsdInv, KernelFollows


\* What a worker carries is held at a descriptor that is not in the table.
LEMMA CarriedAt ==
  ASSUME BsdInv, NEW w \in Workers, step[w] # "none"
  PROVE  \E f \in Fds : /\ holds[f] = carries[w] /\ table[f] = 0 /\ Bsd!FdOf(carries[w]) = f
                        /\ carries[w] \in Boxes /\ carries[w] # 0
<1>1. carries[w] # 0
  BY Zenon DEF BsdInv, LockCovers
<1>2. PICK f \in Fds : holds[f] = carries[w] /\ table[f] = 0
  BY <1>1, Zenon DEF BsdInv, BoxesOwn
<1>3. Bsd!FdOf(carries[w]) = f
  BY <1>1, <1>2, HeldAt, Zenon DEF BsdInv
<1>4. QED
  BY <1>1, <1>2, <1>3, Zenon DEF BsdInv, BsdType

\* The kevents of a registration, one by one, granted or refused.
LEMMA RegisterKeeps ==
  ASSUME BsdInv, NEW w \in Workers,
         (\E ok \in BOOLEAN : Bsd!ReserveWrite(w, ok)) \/ Bsd!AddRead(w) \/ Bsd!ReadRefused(w)
  PROVE  BsdInv'
<1> USE EventQueueAssumption, PollersAssumption
<1>1. step[w] \in {"reserve", "add"} /\ UNCHANGED <<table, holds, role, writes, borrows, carries>>
  BY Zenon DEF Bsd!ReserveWrite, Bsd!AddRead, Bsd!ReadRefused
<1>2. PICK f \in Fds, b \in Boxes : /\ b = carries[w] /\ b # 0 /\ holds[f] = b /\ table[f] = 0
                                    /\ Bsd!FdOf(carries[w]) = f
  BY <1>1, CarriedAt, Zenon
<1>3. PICK k \in Bsd!Filters, x \in [box: Boxes \cup {0}, on: BOOLEAN],
           s \in {"add", "insert", "drop"} :
        /\ filters' = [filters EXCEPT ![f][k] = x]
        /\ step' = [step EXCEPT ![w] = s]
        /\ locked' = IF s = "drop" THEN 0 ELSE locked
        /\ \/ step[w] = "reserve" /\ s = "add" /\ k = "WRITE" /\ x = [box |-> b, on |-> FALSE]
           \/ step[w] = "reserve" /\ s = "drop" /\ x = Bsd!Absent
           \/ step[w] = "add" /\ s = "insert" /\ k = "READ" /\ x = [box |-> b, on |-> TRUE]
           \/ step[w] = "add" /\ s = "drop" /\ k = "WRITE" /\ x = Bsd!Absent
  <2>1. [box |-> b, on |-> FALSE] \in [box: Boxes \cup {0}, on: BOOLEAN]
        /\ [box |-> b, on |-> TRUE] \in [box: Boxes \cup {0}, on: BOOLEAN]
        /\ Bsd!Absent \in [box: Boxes \cup {0}, on: BOOLEAN]
        /\ "READ" \in Bsd!Filters /\ "WRITE" \in Bsd!Filters
    BY <1>2, Zenon DEF Bsd!Absent, Bsd!Filters
  <2>2. CASE Bsd!ReserveWrite(w, TRUE)
    <3>1. /\ filters' = [filters EXCEPT ![f]["WRITE"] = [box |-> b, on |-> FALSE]]
          /\ step' = [step EXCEPT ![w] = "add"] /\ locked' = locked /\ step[w] = "reserve"
      BY <1>2, <2>2, Zenon DEF Bsd!ReserveWrite
    <3>2. QED
      BY <2>1, <3>1, Zenon
  <2>3. CASE Bsd!ReserveWrite(w, FALSE)
    <3>1. /\ filters' = filters
          /\ step' = [step EXCEPT ![w] = "drop"] /\ locked' = 0 /\ step[w] = "reserve"
      BY <2>3, Zenon DEF Bsd!ReserveWrite
    <3>2. filters[f]["WRITE"] = Bsd!Absent
      BY <1>2, <3>1, <2>1 DEF BsdInv, KernelFollows, KernelAt
    <3>3. filters' = [filters EXCEPT ![f]["WRITE"] = Bsd!Absent]
      BY <2>1, <3>1, <3>2, ZenonT(30) DEF BsdInv, BsdType
    <3>4. QED
      BY <2>1, <3>1, <3>3, Zenon
  <2>4. CASE Bsd!AddRead(w)
    <3>1. /\ filters' = [filters EXCEPT ![f]["READ"] = [box |-> b, on |-> TRUE]]
          /\ step' = [step EXCEPT ![w] = "insert"] /\ locked' = locked /\ step[w] = "add"
      BY <1>2, <2>4, Zenon DEF Bsd!AddRead
    <3>2. QED
      BY <2>1, <3>1, Zenon
  <2>5. CASE Bsd!ReadRefused(w)
    <3>1. /\ filters' = [filters EXCEPT ![f]["WRITE"] = Bsd!Absent]
          /\ step' = [step EXCEPT ![w] = "drop"] /\ locked' = 0 /\ step[w] = "add"
      BY <1>2, <2>5, Zenon DEF Bsd!ReadRefused
    <3>2. QED
      BY <2>1, <3>1, Zenon
  <2>6. QED
    BY <2>2, <2>3, <2>4, <2>5, Zenon
<1>4. locked = w
  BY <1>1, Zenon DEF BsdInv, LockCovers
<1>5. BsdType'
  BY <1>1, <1>3, <1>4, Zenon DEF BsdInv, BsdType
<1>6. BoxesOwn'
  BY <1>1 DEF BsdInv, BoxesOwn
<1>7. LockCovers'
  <2>1. \A v \in Workers \ {w} : step'[v] = step[v] /\ (step[v] \notin {"reserve", "add", "insert"})
    BY <1>3, <1>4, ZenonT(30) DEF BsdInv, BsdType, LockCovers
  <2>2. step'[w] \in {"add", "insert", "drop"} /\ (locked' = IF step'[w] = "drop" THEN 0 ELSE w)
    BY <1>3, <1>4, Zenon DEF BsdInv, BsdType
  <2>3. QED
    BY <1>1, <1>2, <2>1, <2>2, Zenon DEF BsdInv, LockCovers
<1>8. \A c \in Boxes : c # b => (CanFire(c)' <=> CanFire(c)) /\ (Borrowed(c)' <=> Borrowed(c))
  BY <1>1, <1>2, <1>3, SMTT(30) DEF BsdInv, BsdType, CanFire, Borrowed
<1>9. b \in Boxes /\ b # 0 /\ ~CanFire(b) /\ ~Borrowed(b)
  <2>1. \A g \in Fds : table[g] # b
    BY <1>2 DEF BsdInv, BoxesOwn
  <2>2. \A v \in Workers : step[v] = "insert" => carries[v] # b
    BY <1>1, <1>2 DEF BsdInv, BoxesOwn
  <2>3. ~CanFire(b)
    BY <2>1, <2>2, Zenon DEF CanFire
  <2>4. QED
    BY <1>2, <2>3 DEF BsdInv, GuardsBorrow, Borrowed
<1>10. GuardsBorrow'
  <2>1. \A v \in Workers : borrows[v] # 0 => borrows[v] \in Boxes /\ borrows[v] # b
    BY <1>9, Zenon DEF BsdInv, BsdType, Borrowed
  <2>2. QED
    BY <1>1, <1>8, <2>1, Zenon DEF BsdInv, GuardsBorrow
<1>11. ASSUME NEW g \in Fds PROVE KernelAt(g)'
  <2>1. KernelAt(g)
    BY Zenon DEF BsdInv, KernelFollows
  <2>2. \A j \in Bsd!Filters : filters'[g][j] = IF g = f /\ j = k THEN x ELSE filters[g][j]
    BY <1>3 DEF BsdInv, BsdType
  <2>3. CASE g # f
    <3>1. holds[g] # 0 => holds[g] \in Boxes /\ holds[g] # b
      BY <1>2, <2>3 DEF BsdInv, BsdType, BoxesOwn
    <3>2. \A v \in Workers : holds[g] # 0 /\ carries'[v] = holds[g] => carries[v] = holds[g] /\ step'[v] = step[v]
      BY <1>1, <1>2, <1>3, <3>1, Zenon DEF BsdInv, BsdType
    <3>3. QED
      BY <1>1, <1>8, <2>1, <2>2, <2>3, <3>1, <3>2, KernelKept, Zenon
  <2>4. CASE g = f
    <3>1. /\ holds[f] = b /\ holds'[f] = b /\ role' = role /\ writes' = writes
          /\ \A v \in Workers : carries'[v] = b => v = w
          /\ ~Borrowed(b)'
      BY <1>1, <1>2, <1>9 DEF BsdInv, BoxesOwn, Borrowed
    <3>2. step'[w] = s /\ (CanFire(b)' => s = "insert")
      <4>1. step'[w] = s /\ \A v \in Workers \ {w} : step'[v] = step[v]
        BY <1>3, ZenonT(30) DEF BsdInv, BsdType
      <4>2. QED
        BY <1>1, <1>9, <3>1, <4>1, Zenon DEF CanFire
    <3>3. filters'[f]["READ"] = (IF k = "READ" THEN x ELSE filters[f]["READ"])
          /\ filters'[f]["WRITE"] = (IF k = "WRITE" THEN x ELSE filters[f]["WRITE"])
      BY <2>2, <2>4, Zenon DEF Bsd!Filters
    <3>4. CASE step[w] = "reserve" /\ s = "add" /\ k = "WRITE" /\ x = [box |-> b, on |-> FALSE]
      <4>1. role[b] = "stream" /\ b \notin writes /\ filters[f]["READ"] = Bsd!Absent
        BY <1>2, <1>9, <2>1, <2>4, <3>1, <3>4, Zenon DEF KernelAt, Bsd!Filters
      <4>2. QED
        BY <1>9, <2>4, <3>1, <3>2, <3>3, <3>4, <4>1 DEF KernelAt, Bsd!Filters, Bsd!Absent
    <3>5. CASE s = "drop"
      <4>1. filters'[f]["READ"] = Bsd!Absent /\ filters'[f]["WRITE"] = Bsd!Absent
        BY <1>2, <1>3, <1>9, <2>1, <2>4, <3>1, <3>3, <3>5, ZenonT(30) DEF KernelAt, Bsd!Filters
      <4>2. QED
        BY <1>9, <2>4, <3>1, <3>2, <3>5, <4>1 DEF KernelAt, Bsd!Filters, Bsd!Absent
    <3>6. CASE step[w] = "add" /\ s = "insert" /\ k = "READ" /\ x = [box |-> b, on |-> TRUE]
      <4>1. /\ b \notin writes /\ ~filters[f]["WRITE"].on
            /\ filters[f]["WRITE"].box = IF role[b] = "stream" THEN b ELSE 0
        BY <1>2, <1>9, <2>1, <2>4, <3>1, <3>6 DEF KernelAt
      <4>2. Bsd!Desired(b)' = "READ"
        BY <3>1, <4>1, Zenon DEF Bsd!Desired
      <4>3. QED
        BY <1>9, <2>4, <3>1, <3>2, <3>3, <3>6, <4>1, <4>2 DEF KernelAt, Bsd!Filters
    <3>7. QED
      BY <1>3, <3>4, <3>5, <3>6, Zenon
  <2>5. QED
    BY <2>3, <2>4, Zenon
<1>12. QED
  BY <1>5, <1>6, <1>7, <1>10, <1>11, Zenon DEF BsdInv, KernelFollows


\* The box is in the table from here on, and the lock free.
LEMMA InsertKeeps ==
  ASSUME BsdInv, NEW w \in Workers, Bsd!Insert(w)
  PROVE  BsdInv'
<1> USE EventQueueAssumption, PollersAssumption
<1>1. PICK f \in Fds, b \in Boxes : /\ b = carries[w] /\ b # 0 /\ holds[f] = b /\ table[f] = 0
                                    /\ Bsd!FdOf(carries[w]) = f
  BY CarriedAt, Zenon DEF Bsd!Insert
<1>2. /\ step[w] = "insert"
      /\ table' = [table EXCEPT ![f] = b]
      /\ step' = [step EXCEPT ![w] = "none"]
      /\ carries' = [carries EXCEPT ![w] = 0]
      /\ locked' = 0 /\ locked = w
      /\ UNCHANGED <<holds, filters, role, writes, borrows>>
  BY <1>1, Zenon DEF Bsd!Insert, BsdInv, LockCovers
<1>3. BsdType'
  BY <1>2, Zenon DEF BsdInv, BsdType
<1>4. \A v \in Workers : v # w => carries'[v] = carries[v] /\ carries[v] # b /\ step'[v] = step[v]
  BY <1>1, <1>2 DEF BsdInv, BsdType, BoxesOwn
<1>5. carries'[w] = 0 /\ step'[w] = "none"
  BY <1>2, Zenon DEF BsdInv, BsdType
<1>6. \A g \in Fds : /\ g # f => table'[g] = table[g] /\ holds[g] # b
                     /\ table'[f] = b
  BY <1>1, <1>2 DEF BsdInv, BsdType, BoxesOwn
<1>7. BoxesOwn'
  <2>1. \A g \in Fds : holds'[g] # 0 =>
          /\ role'[holds'[g]] \in {"read", "stream"}
          /\ table'[g] = holds'[g] \/ \E v \in Workers : carries'[v] = holds'[g]
    BY <1>1, <1>2, <1>4, <1>6 DEF BsdInv, BoxesOwn
  <2>2. \A v \in Workers : carries'[v] # 0 => \E g \in Fds : holds'[g] = carries'[v] /\ table'[g] = 0
    <3> SUFFICES ASSUME NEW v \in Workers, carries'[v] # 0
                 PROVE  \E g \in Fds : holds'[g] = carries'[v] /\ table'[g] = 0
      BY Zenon
    <3>1. PICK g \in Fds : holds[g] = carries[v] /\ table[g] = 0
      BY <1>4, <1>5, Zenon DEF BsdInv, BoxesOwn
    <3>2. QED
      BY <1>1, <1>2, <1>4, <1>5, <1>6, <3>1
  <2>3. \A u, v \in Workers : carries'[v] # 0 /\ carries'[u] = carries'[v] => u = v
    BY <1>4, <1>5 DEF BsdInv, BoxesOwn
  <2>4. QED
    BY <1>1, <1>2, <1>6, <2>1, <2>2, <2>3 DEF BsdInv, BoxesOwn
<1>8. LockCovers'
  BY <1>2, <1>4, <1>5, Zenon DEF BsdInv, LockCovers
<1>9. \A c \in Boxes : (CanFire(c)' <=> CanFire(c)) /\ (Borrowed(c)' <=> Borrowed(c))
  <2>1. CanFire(b) /\ CanFire(b)'
    BY <1>1, <1>2, <1>6, Zenon DEF CanFire
  <2>2. \A c \in Boxes : c # b => (CanFire(c)' <=> CanFire(c))
    BY <1>1, <1>4, <1>5, <1>6, Zenon DEF CanFire
  <2>3. QED
    BY <1>2, <2>1, <2>2, Zenon DEF Borrowed
<1>10. GuardsBorrow'
  BY <1>2, <1>9, Zenon DEF BsdInv, BsdType, GuardsBorrow
<1>11. ASSUME NEW g \in Fds PROVE KernelAt(g)'
  <2>1. KernelAt(g)
    BY Zenon DEF BsdInv, KernelFollows
  <2>2. holds[g] # 0 => holds[g] \in Boxes
    BY Zenon DEF BsdInv, BsdType
  <2>3. \A v \in Workers : holds[g] # 0 /\ carries'[v] = holds[g] => carries[v] = holds[g] /\ step'[v] = step[v]
    BY <1>4, <1>5, Zenon
  <2>4. QED
    BY <1>2, <1>9, <2>1, <2>2, <2>3, KernelKept, Zenon
<1>12. QED
  BY <1>3, <1>7, <1>8, <1>10, <1>11, Zenon DEF BsdInv, KernelFollows

\* A box outside the table is dropped, and its number free.
LEMMA DropKeeps ==
  ASSUME BsdInv, NEW w \in Workers, Bsd!DropCarried(w)
  PROVE  BsdInv'
<1> USE EventQueueAssumption, PollersAssumption
<1>1. PICK f \in Fds, b \in Boxes : /\ b = carries[w] /\ b # 0 /\ holds[f] = b /\ table[f] = 0
                                    /\ Bsd!FdOf(carries[w]) = f
  BY CarriedAt, Zenon DEF Bsd!DropCarried
<1>2. /\ step[w] = "drop"
      /\ role' = [role EXCEPT ![b] = "dropped"]
      /\ filters' = [filters EXCEPT ![f] = [k \in Bsd!Filters |-> Bsd!Absent]]
      /\ holds' = [holds EXCEPT ![f] = 0]
      /\ step' = [step EXCEPT ![w] = "none"]
      /\ carries' = [carries EXCEPT ![w] = 0]
      /\ UNCHANGED <<table, writes, locked, borrows>>
  BY <1>1, Zenon DEF Bsd!DropCarried
<1>3. [k \in Bsd!Filters |-> Bsd!Absent] \in [Bsd!Filters -> [box: Boxes \cup {0}, on: BOOLEAN]]
  BY Zenon DEF Bsd!Absent
<1>4. BsdType'
  BY <1>2, <1>3, Zenon DEF BsdInv, BsdType
<1>5. \A v \in Workers : v # w => carries'[v] = carries[v] /\ carries[v] # b /\ step'[v] = step[v]
  BY <1>1, <1>2 DEF BsdInv, BsdType, BoxesOwn
<1>6. carries'[w] = 0 /\ step'[w] = "none"
  BY <1>2, Zenon DEF BsdInv, BsdType
<1>7. /\ \A g \in Fds : g # f => holds'[g] = holds[g] /\ holds[g] # b
      /\ holds'[f] = 0
      /\ \A c \in Boxes : c # b => role'[c] = role[c]
      /\ role'[b] = "dropped"
      /\ \A g \in Fds : table[g] # b
  BY <1>1, <1>2 DEF BsdInv, BsdType, BoxesOwn
<1>8. BoxesOwn'
  <2>1. \A g, h \in Fds : holds'[g] # 0 /\ holds'[g] = holds'[h] => g = h
    BY <1>7, SMTT(30) DEF BsdInv, BoxesOwn
  <2>2. \A g \in Fds : holds'[g] # 0 =>
          /\ role'[holds'[g]] \in {"read", "stream"}
          /\ table'[g] = holds'[g] \/ \E v \in Workers : carries'[v] = holds'[g]
    <3> SUFFICES ASSUME NEW g \in Fds, holds'[g] # 0
                 PROVE  /\ role'[holds'[g]] \in {"read", "stream"}
                        /\ table'[g] = holds'[g] \/ \E v \in Workers : carries'[v] = holds'[g]
      BY Zenon
    <3>1. holds'[g] = holds[g] /\ holds[g] # b /\ holds[g] \in Boxes
      BY <1>7 DEF BsdInv, BsdType
    <3>2. role[holds[g]] \in {"read", "stream"} /\ (table[g] = holds[g] \/ \E v \in Workers : carries[v] = holds[g])
      BY <3>1, Zenon DEF BsdInv, BoxesOwn
    <3>3. QED
      BY <1>1, <1>2, <1>5, <1>7, <3>1, <3>2
  <2>3. \A g \in Fds : table'[g] # 0 => holds'[g] = table'[g]
    BY <1>1, <1>2, <1>7 DEF BsdInv, BoxesOwn
  <2>4. \A v \in Workers : carries'[v] # 0 => \E g \in Fds : holds'[g] = carries'[v] /\ table'[g] = 0
    <3> SUFFICES ASSUME NEW v \in Workers, carries'[v] # 0
                 PROVE  \E g \in Fds : holds'[g] = carries'[v] /\ table'[g] = 0
      BY Zenon
    <3>1. PICK g \in Fds : holds[g] = carries[v] /\ table[g] = 0
      BY <1>5, <1>6, Zenon DEF BsdInv, BoxesOwn
    <3>2. QED
      BY <1>1, <1>2, <1>5, <1>6, <1>7, <3>1
  <2>5. \A u, v \in Workers : carries'[v] # 0 /\ carries'[u] = carries'[v] => u = v
    BY <1>5, <1>6 DEF BsdInv, BoxesOwn
  <2>6. \A c \in writes' : role'[c] # "unborn"
    BY <1>2, <1>7, Zenon DEF BsdInv, BsdType, BoxesOwn
  <2>7. QED
    BY <2>1, <2>2, <2>3, <2>4, <2>5, <2>6, Zenon DEF BoxesOwn
<1>9. LockCovers'
  BY <1>2, <1>5, <1>6, Zenon DEF BsdInv, LockCovers
<1>10. \A c \in Boxes : (CanFire(c)' <=> CanFire(c)) /\ (Borrowed(c)' <=> Borrowed(c))
  BY <1>2, <1>5, <1>6, Zenon DEF CanFire, Borrowed
<1>11. GuardsBorrow'
  BY <1>2, <1>10, Zenon DEF BsdInv, BsdType, GuardsBorrow
<1>12. ASSUME NEW g \in Fds PROVE KernelAt(g)'
  <2>1. KernelAt(g)
    BY Zenon DEF BsdInv, KernelFollows
  <2>2. CASE g = f
    <3>1. \A k \in Bsd!Filters : filters'[g][k] = Bsd!Absent
      BY <1>2, <2>2, Zenon DEF BsdInv, BsdType
    <3>2. QED
      BY <1>7, <2>2, <3>1 DEF KernelAt, Bsd!Absent, Bsd!Filters
  <2>3. CASE g # f
    <3>1. filters'[g] = filters[g]
      BY <1>2, <2>3, Zenon DEF BsdInv, BsdType
    <3>2. holds'[g] = holds[g] /\ holds[g] # b /\ (holds[g] # 0 => holds[g] \in Boxes)
      BY <1>7, <2>3, Zenon DEF BsdInv, BsdType
    <3>3. \A v \in Workers : holds[g] # 0 /\ carries'[v] = holds[g] => carries[v] = holds[g] /\ step'[v] = step[v]
      BY <1>5, <1>6, Zenon
    <3>4. QED
      BY <1>2, <1>7, <1>10, <2>1, <3>1, <3>2, <3>3, KernelKept, Zenon
  <2>4. QED
    BY <2>2, <2>3, Zenon
<1>13. QED
  BY <1>4, <1>8, <1>9, <1>11, <1>12, Zenon DEF BsdInv, KernelFollows


\* An enabled filter is that of a box that can fire and nobody borrows.
LEMMA EnabledFires ==
  ASSUME BsdInv, NEW f \in Fds, NEW k \in Bsd!Filters, filters[f][k].on
  PROVE  /\ holds[f] \in Boxes /\ holds[f] # 0 /\ filters[f][k].box = holds[f]
         /\ CanFire(holds[f]) /\ ~Borrowed(holds[f])
<1>1. KernelAt(f)
  BY Zenon DEF BsdInv, KernelFollows
<1>2. holds[f] \in Boxes /\ holds[f] # 0 /\ filters[f][k].box = holds[f]
  BY <1>1, Zenon DEF KernelAt, BsdInv, BsdType
<1>3. CanFire(holds[f])
  <2>1. CASE table[f] = holds[f]
    BY <2>1, Zenon DEF CanFire
  <2>2. ASSUME NEW w \in Workers, carries[w] = holds[f] PROVE CanFire(holds[f])
    <3>1. step[w] # "none" /\ step[w] \in {"none", "reserve", "add", "insert", "drop"}
      BY <1>2, <2>2, Zenon DEF BsdInv, BsdType, LockCovers
    <3>2. step[w] \notin {"reserve", "drop", "add"}
      BY <1>1, <1>2, <2>2 DEF KernelAt, Bsd!Absent, Bsd!Filters
    <3>3. QED
      BY <2>2, <3>1, <3>2, Zenon DEF CanFire
  <2>3. QED
    BY <1>2, <2>1, <2>2, Zenon DEF BsdInv, BoxesOwn
<1>4. QED
  BY <1>1, <1>2, <1>3, Zenon DEF KernelAt

\* What a guard borrows is held at one descriptor.
LEMMA BorrowedAt ==
  ASSUME BsdInv, NEW w \in Workers, borrows[w] # 0
  PROVE  \E f \in Fds : holds[f] = borrows[w] /\ Bsd!FdOf(borrows[w]) = f
<1>1. \E f \in Fds : holds[f] = borrows[w]
  <2>1. CASE \E f \in Fds : table[f] = borrows[w]
    BY <2>1, Zenon DEF BsdInv, BoxesOwn
  <2>2. CASE \E v \in Workers : step[v] = "insert" /\ carries[v] = borrows[w]
    BY <2>2 DEF BsdInv, BoxesOwn
  <2>3. QED
    BY <2>1, <2>2, Zenon DEF BsdInv, GuardsBorrow, CanFire
<1>2. QED
  BY <1>1, HeldAt, Zenon DEF BsdInv

\* A box that can fire is not at an earlier stage in anyone's hands.
LEMMA FiringStage ==
  ASSUME BsdInv, NEW b \in Boxes, b # 0, CanFire(b), NEW v \in Workers, carries[v] = b
  PROVE  step[v] = "insert"
<1>1. PICK f \in Fds : holds[f] = b /\ table[f] = 0
  BY Zenon DEF BsdInv, BoxesOwn
<1>2. \A g \in Fds : table[g] # b
  BY <1>1 DEF BsdInv, BoxesOwn
<1>3. QED
  BY <1>2, Zenon DEF BsdInv, BoxesOwn, CanFire

\* A filter fires: it is disabled and its box borrowed.
LEMMA WaitKeeps ==
  ASSUME BsdInv, NEW w \in Workers, NEW f \in Fds, NEW k \in Bsd!Filters, Bsd!WaitEvent(w, f, k)
  PROVE  BsdInv'
<1> USE EventQueueAssumption, PollersAssumption
<1>1. filters[f][k].on /\ borrows[w] = 0 /\ step[w] = "none"
  BY Zenon DEF Bsd!WaitEvent
<1>2. PICK b \in Boxes : /\ b = holds[f] /\ b # 0 /\ filters[f][k].box = b
                         /\ CanFire(b) /\ ~Borrowed(b)
  BY <1>1, EnabledFires, Zenon
<1>3. /\ borrows' = [borrows EXCEPT ![w] = b]
      /\ UNCHANGED <<table, holds, role, writes, locked, step, carries>>
  BY <1>2, Zenon DEF Bsd!WaitEvent
<1>4. /\ filters' \in [Fds -> [Bsd!Filters -> [box: Boxes \cup {0}, on: BOOLEAN]]]
      /\ \A g \in Fds, j \in Bsd!Filters :
           /\ filters'[g][j].box = filters[g][j].box
           /\ filters'[g][j].on = IF g = f /\ j = k THEN FALSE ELSE filters[g][j].on
      /\ \A g \in Fds : g # f => filters'[g] = filters[g]
  BY SwitchSet, Zenon DEF Bsd!WaitEvent, BsdInv
<1>5. BsdType' /\ BoxesOwn' /\ LockCovers'
  BY <1>3, <1>4 DEF BsdInv, BsdType, BoxesOwn, LockCovers
<1>6. /\ \A v \in Workers : borrows'[v] = IF v = w THEN b ELSE borrows[v]
      /\ \A c \in Boxes : CanFire(c)' <=> CanFire(c)
      /\ \A c \in Boxes : c # b => (Borrowed(c)' <=> Borrowed(c))
      /\ Borrowed(b)'
  BY <1>1, <1>2, <1>3, EventQueueAssumption, Zenon DEF BsdInv, BsdType, CanFire, Borrowed
<1>7. GuardsBorrow'
  <2>1. \A v \in Workers : borrows[v] # 0 => borrows[v] \in Boxes
    BY Zenon DEF BsdInv, BsdType
  <2>2. ASSUME NEW v \in Workers, borrows'[v] # 0 PROVE CanFire(borrows[v])'
    <3>1. PICK c \in Boxes : c = borrows'[v] /\ CanFire(c)
      BY <1>2, <1>6, <2>1, <2>2, Zenon DEF BsdInv, GuardsBorrow
    <3>2. QED
      BY <1>6, <3>1, Zenon
  <2>3. \A u, v \in Workers : borrows'[v] # 0 /\ borrows'[u] = borrows'[v] => u = v
    BY <1>2, <1>6, Zenon DEF BsdInv, GuardsBorrow, Borrowed
  <2>4. QED
    BY <2>2, <2>3, Zenon DEF GuardsBorrow
<1>8. ASSUME NEW g \in Fds PROVE KernelAt(g)'
  <2>1. KernelAt(g)
    BY Zenon DEF BsdInv, KernelFollows
  <2>2. CASE g # f
    <3>1. \A j \in Bsd!Filters : filters'[g][j] = filters[g][j]
      BY <1>4, <2>2, Zenon
    <3>2. holds[g] # 0 => holds[g] \in Boxes /\ holds[g] # b
      BY <1>2, <2>2 DEF BsdInv, BsdType, BoxesOwn
    <3>3. QED
      BY <1>3, <1>6, <2>1, <3>1, <3>2, KernelKept, Zenon
  <2>3. CASE g = f
    <3>1. \A v \in Workers : carries[v] = b => step[v] = "insert"
      BY <1>2, FiringStage, Zenon
    <3>2. \A j \in Bsd!Filters : ~filters'[g][j].on
      <4>1. \A j \in Bsd!Filters : filters[f][j].on => j = Bsd!Desired(b)
        BY <1>2, <2>1, <2>3, Zenon DEF KernelAt
      <4>2. \A j \in Bsd!Filters : filters[f][j].on => j = k
        BY <1>1, <4>1, Zenon
      <4>3. \A j \in Bsd!Filters : filters'[f][j].on = IF j = k THEN FALSE ELSE filters[f][j].on
        BY <1>4, Zenon
      <4>4. QED
        BY <2>3, <4>2, <4>3, Zenon
    <3>3. /\ filters'[f]["READ"].box = b
          /\ filters'[f]["WRITE"].box = IF role'[b] = "stream" THEN b ELSE 0
      BY <1>2, <1>3, <1>4, <2>1, <2>3, Zenon DEF KernelAt, Bsd!Filters
    <3>4. QED
      BY <1>2, <1>3, <1>6, <2>3, <3>1, <3>2, <3>3, Zenon DEF KernelAt, Bsd!Filters
  <2>4. QED
    BY <2>2, <2>3, Zenon
<1>9. QED
  BY <1>5, <1>7, <1>8, Zenon DEF BsdInv, KernelFollows

\* A stream's interest is changed while its filters are disabled.
LEMMA NotifyKeeps ==
  ASSUME BsdInv, NEW w \in Workers, NEW enabled \in BOOLEAN, Bsd!NotifyWritable(w, enabled)
  PROVE  BsdInv'
<1> USE EventQueueAssumption, PollersAssumption
<1>1. PICK b \in Boxes : b = borrows[w] /\ b # 0 /\ role[b] = "stream" /\ CanFire(b)
  BY Zenon DEF Bsd!NotifyWritable, Bsd!Runs, BsdInv, BsdType, GuardsBorrow
<1>2. /\ writes' = IF enabled THEN writes \cup {b} ELSE writes \ {b}
      /\ UNCHANGED <<table, holds, filters, role, locked, borrows, step, carries>>
  BY <1>1, Zenon DEF Bsd!NotifyWritable
<1>3. BsdType' /\ LockCovers'
  BY <1>2, Zenon DEF BsdInv, BsdType, LockCovers
<1>4. BoxesOwn'
  BY <1>1, <1>2, Zenon DEF BsdInv, BoxesOwn
<1>5. \A c \in Boxes : (CanFire(c)' <=> CanFire(c)) /\ (Borrowed(c)' <=> Borrowed(c))
  BY <1>2, Zenon DEF CanFire, Borrowed
<1>6. GuardsBorrow'
  BY <1>2, <1>5, Zenon DEF BsdInv, BsdType, GuardsBorrow
<1>7. ASSUME NEW g \in Fds PROVE KernelAt(g)'
  <2>1. KernelAt(g)
    BY Zenon DEF BsdInv, KernelFollows
  <2>2. CASE holds[g] # b
    <3>1. holds[g] # 0 => holds[g] \in Boxes
      BY Zenon DEF BsdInv, BsdType
    <3>2. QED
      BY <1>2, <1>5, <2>1, <2>2, <3>1, KernelKept, Zenon
  <2>3. CASE holds[g] = b
    <3>1. \A v \in Workers : carries[v] = b => step[v] = "insert"
      BY <1>1, FiringStage, Zenon
    <3>2. Borrowed(b) /\ Borrowed(b)'
      BY <1>1, <1>2, Zenon DEF Borrowed
    <3>3. QED
      BY <1>1, <1>2, <2>1, <2>3, <3>1, <3>2, Zenon DEF KernelAt, Bsd!Filters
  <2>4. QED
    BY <2>2, <2>3, Zenon
<1>8. QED
  BY <1>3, <1>4, <1>6, <1>7, Zenon DEF BsdInv, KernelFollows


\* The guard dropped: the filter the handler waits for is enabled.
LEMMA GuardKeeps ==
  ASSUME BsdInv, NEW w \in Workers, Bsd!DropGuard(w)
  PROVE  BsdInv'
<1> USE EventQueueAssumption, PollersAssumption
<1>1. PICK b \in Boxes : b = borrows[w] /\ b # 0 /\ CanFire(b)
  BY Zenon DEF Bsd!DropGuard, Bsd!Runs, BsdInv, BsdType, GuardsBorrow
<1>2. PICK f \in Fds : holds[f] = b /\ Bsd!FdOf(b) = f
  BY <1>1, BorrowedAt, Zenon
<1>3. PICK k \in Bsd!Filters : k = Bsd!Desired(b)
  BY Zenon DEF Bsd!Desired, Bsd!Filters
<1>4. /\ borrows' = [borrows EXCEPT ![w] = 0]
      /\ UNCHANGED <<table, holds, role, writes, locked, step, carries>>
  BY Zenon DEF Bsd!DropGuard
<1>5. /\ filters' \in [Fds -> [Bsd!Filters -> [box: Boxes \cup {0}, on: BOOLEAN]]]
      /\ \A g \in Fds, j \in Bsd!Filters :
           /\ filters'[g][j].box = filters[g][j].box
           /\ filters'[g][j].on = IF g = f /\ j = k THEN TRUE ELSE filters[g][j].on
      /\ \A g \in Fds : g # f => filters'[g] = filters[g]
  <2>1. filters' = Bsd!Switched(f, k, TRUE)
    BY <1>1, <1>2, <1>3, Zenon DEF Bsd!DropGuard
  <2>2. QED
    BY <2>1, SwitchSet, Zenon DEF BsdInv
<1>6. BsdType' /\ BoxesOwn' /\ LockCovers'
  BY <1>4, <1>5 DEF BsdInv, BsdType, BoxesOwn, LockCovers
<1>7. /\ \A v \in Workers : borrows'[v] = IF v = w THEN 0 ELSE borrows[v]
      /\ \A c \in Boxes : CanFire(c)' <=> CanFire(c)
  BY <1>4, Zenon DEF BsdInv, BsdType, CanFire
<1>8. /\ \A c \in Boxes : c # b /\ c # 0 => (Borrowed(c)' <=> Borrowed(c))
      /\ ~Borrowed(b)' /\ Borrowed(b)
  BY <1>1, <1>7, Zenon DEF Borrowed, BsdInv, GuardsBorrow
<1>9. GuardsBorrow'
  <2>1. \A v \in Workers : borrows'[v] # 0 => borrows[v] = borrows'[v] /\ borrows[v] \in Boxes
    BY <1>7, Zenon DEF BsdInv, BsdType
  <2>2. ASSUME NEW v \in Workers, borrows'[v] # 0 PROVE CanFire(borrows[v])'
    <3>1. PICK c \in Boxes : c = borrows'[v] /\ CanFire(c)
      BY <2>1, <2>2, Zenon DEF BsdInv, GuardsBorrow
    <3>2. QED
      BY <1>7, <3>1, Zenon
  <2>3. \A u, v \in Workers : borrows'[v] # 0 /\ borrows'[u] = borrows'[v] => u = v
    BY <1>7, Zenon DEF BsdInv, GuardsBorrow
  <2>4. QED
    BY <2>2, <2>3, Zenon DEF GuardsBorrow
<1>10. ASSUME NEW g \in Fds PROVE KernelAt(g)'
  <2>1. KernelAt(g)
    BY Zenon DEF BsdInv, KernelFollows
  <2>2. CASE g # f
    <3>1. \A j \in Bsd!Filters : filters'[g][j] = filters[g][j]
      BY <1>5, <2>2, Zenon
    <3>2. holds[g] # 0 => holds[g] \in Boxes /\ holds[g] # b
      BY <1>1, <1>2, <2>2 DEF BsdInv, BsdType, BoxesOwn
    <3>3. QED
      BY <1>4, <1>7, <1>8, <2>1, <3>1, <3>2, KernelKept, Zenon
  <2>3. CASE g = f
    <3>1. \A v \in Workers : carries[v] = b => step[v] = "insert"
      BY <1>1, FiringStage, Zenon
    <3>2. (Bsd!Desired(b))' = k
      BY <1>3, <1>4, Zenon DEF Bsd!Desired
    <3>3. \A j \in Bsd!Filters : filters'[f][j].on <=> j = k
      <4>1. \A j \in Bsd!Filters : ~filters[f][j].on
        BY <1>1, <1>2, <1>8, <2>1, <2>3, Zenon DEF KernelAt
      <4>2. \A j \in Bsd!Filters : filters'[f][j].on = IF j = k THEN TRUE ELSE filters[f][j].on
        BY <1>5, Zenon
      <4>3. QED
        BY <4>1, <4>2, Zenon
    <3>4. /\ filters'[f]["READ"].box = b
          /\ filters'[f]["WRITE"].box = IF role'[b] = "stream" THEN b ELSE 0
      <4>1. /\ filters[f]["READ"].box = b
            /\ filters[f]["WRITE"].box = IF role[b] = "stream" THEN b ELSE 0
        BY <1>1, <1>2, <2>1, <2>3, Zenon DEF KernelAt
      <4>2. \A j \in Bsd!Filters : filters'[f][j].box = filters[f][j].box
        BY <1>5, Zenon
      <4>3. QED
        BY <1>4, <4>1, <4>2, Zenon DEF Bsd!Filters
    <3>5. \A j \in Bsd!Filters : /\ filters'[f][j].box \in {0, b}
                                 /\ filters'[f][j].on => filters'[f][j].box # 0
      <4>1. k = "WRITE" => role'[b] = "stream"
        BY <1>3, <1>4, Zenon DEF Bsd!Desired
      <4>2. QED
        BY <1>1, <3>3, <3>4, <4>1, Zenon DEF Bsd!Filters
    <3>6. QED
      BY <1>1, <1>2, <1>4, <1>8, <2>3, <3>1, <3>2, <3>3, <3>4, <3>5, Zenon DEF KernelAt
  <2>4. QED
    BY <2>2, <2>3, Zenon
<1>11. QED
  BY <1>6, <1>9, <1>10, Zenon DEF BsdInv, KernelFollows


\* A box is taken out of the table with its filters, and nobody borrows it any more.
LEMMA ClearKeeps ==
  ASSUME BsdInv, NEW w \in Workers, NEW f \in Fds, step[w] = "none", Bsd!ClearEvent(w, f),
         borrows' \in [Workers -> Boxes \cup {0}],
         \A v \in Workers : borrows'[v] = IF borrows[v] = table[f] THEN 0 ELSE borrows[v]
  PROVE  BsdInv'
<1> USE EventQueueAssumption, PollersAssumption
<1>1. PICK b \in Boxes : b = table[f] /\ b # 0 /\ b = holds[f]
  <2>1. table[f] # 0
    BY Zenon DEF Bsd!ClearEvent
  <2>2. table[f] \in Boxes
    BY <2>1, ZenonT(30) DEF BsdInv, BsdType
  <2>3. holds[f] = table[f]
    BY <2>1, Zenon DEF BsdInv, BoxesOwn
  <2>4. QED
    BY <2>1, <2>2, <2>3, Zenon
<1>2. /\ table' = [table EXCEPT ![f] = 0]
      /\ carries' = [carries EXCEPT ![w] = b]
      /\ step' = [step EXCEPT ![w] = "drop"]
      /\ locked = 0 /\ UNCHANGED <<holds, role, writes, locked>>
  BY <1>1, Zenon DEF Bsd!ClearEvent
<1>3. \A k \in Bsd!Filters : k # "READ" /\ role[b] # "stream" => filters[f][k] = Bsd!Absent
  <2>1. CanFire(b)
    BY <1>1, Zenon DEF CanFire
  <2>2. KernelAt(f)
    BY Zenon DEF BsdInv, KernelFollows
  <2>3. role[b] # "stream" => filters[f]["WRITE"].box = 0 /\ ~filters[f]["WRITE"].on
    BY <1>1, <2>1, <2>2, Zenon DEF KernelAt, Bsd!Filters
  <2>4. QED
    BY <2>3, AbsentIs, Zenon DEF Bsd!Filters, BsdInv
<1>4. /\ filters' \in [Fds -> [Bsd!Filters -> [box: Boxes \cup {0}, on: BOOLEAN]]]
      /\ \A k \in Bsd!Filters : filters'[f][k] = Bsd!Absent
      /\ \A g \in Fds : g # f => filters'[g] = filters[g]
  <2>1. filters' = [filters EXCEPT ![f] = [k \in Bsd!Filters |->
                      IF k = "READ" \/ role[b] = "stream" THEN Bsd!Absent ELSE filters[f][k]]]
    BY <1>1 DEF Bsd!ClearEvent, BsdInv, BsdType
  <2>2. Bsd!Absent \in [box: Boxes \cup {0}, on: BOOLEAN]
    BY Zenon DEF Bsd!Absent
  <2>3. [k \in Bsd!Filters |-> IF k = "READ" \/ role[b] = "stream" THEN Bsd!Absent ELSE filters[f][k]]
          = [k \in Bsd!Filters |-> Bsd!Absent]
    BY <1>3, Zenon
  <2>4. filters' = [filters EXCEPT ![f] = [k \in Bsd!Filters |-> Bsd!Absent]]
    BY <2>1, <2>3, Zenon
  <2>5. QED
    BY <2>2, <2>4, Zenon DEF BsdInv, BsdType
<1>5. \A v \in Workers : /\ v # w => carries'[v] = carries[v] /\ step'[v] = step[v]
                         /\ carries[v] # b
                         /\ step[v] \notin {"reserve", "add", "insert"}
  <2>1. \A v \in Workers : carries[v] # b
    <3>1. \A v \in Workers : carries[v] # 0 => \E g \in Fds : holds[g] = carries[v] /\ table[g] = 0
      BY Zenon DEF BsdInv, BoxesOwn
    <3>2. \A g \in Fds : holds[g] = b => g = f
      BY <1>1 DEF BsdInv, BoxesOwn
    <3>3. ASSUME NEW v \in Workers, carries[v] = b PROVE FALSE
      <4>1. PICK g \in Fds : holds[g] = b /\ table[g] = 0
        BY <1>1, <3>1, <3>3
      <4>2. g = f
        BY <3>2, <4>1, Zenon
      <4>3. QED
        BY <1>1, <4>1, <4>2, Zenon
    <3>4. QED
      BY <3>3, Zenon
  <2>2. \A v \in Workers : step[v] \notin {"reserve", "add", "insert"}
    BY <1>2, Zenon DEF BsdInv, LockCovers
  <2>3. \A v \in Workers : v # w => carries'[v] = carries[v] /\ step'[v] = step[v]
    BY <1>2, Zenon DEF BsdInv, BsdType
  <2>4. QED
    BY <2>1, <2>2, <2>3, Zenon
<1>6. carries'[w] = b /\ step'[w] = "drop" /\ carries[w] = 0
  BY <1>2 DEF BsdInv, BsdType, LockCovers
<1>7. \A g \in Fds : table'[g] = IF g = f THEN 0 ELSE table[g]
  BY <1>2, Zenon DEF BsdInv, BsdType
<1>8. BsdType'
  BY <1>2, <1>4, Zenon DEF BsdInv, BsdType
<1>9. BoxesOwn'
  <2>1. \A g \in Fds : holds[g] # 0 => /\ role[holds[g]] \in {"read", "stream"}
                                       /\ \/ table'[g] = holds[g]
                                          \/ \E v \in Workers : carries'[v] = holds[g]
    <3>1. \A g \in Fds : holds[g] # 0 => /\ role[holds[g]] \in {"read", "stream"}
                                         /\ \/ table[g] = holds[g]
                                            \/ \E v \in Workers : carries[v] = holds[g]
      BY Zenon DEF BsdInv, BoxesOwn
    <3>2. ASSUME NEW v \in Workers, carries[v] # 0
          PROVE  carries'[v] = carries[v]
      <4>1. v # w
        BY <1>6, <3>2, Zenon
      <4>2. QED
        BY <1>5, <4>1, Zenon
    <3>3. ASSUME NEW g \in Fds, holds[g] # 0
          PROVE  table'[g] = holds[g] \/ \E v \in Workers : carries'[v] = holds[g]
      <4>1. CASE g = f
        BY <1>1, <1>6, <4>1, Zenon
      <4>2. CASE g # f /\ table[g] = holds[g]
        BY <1>7, <4>2, Zenon
      <4>3. CASE \E v \in Workers : carries[v] = holds[g]
        BY <3>2, <3>3, <4>3, Zenon
      <4>4. QED
        BY <3>1, <3>3, <4>1, <4>2, <4>3, Zenon
    <3>4. QED
      BY <3>1, <3>3, Zenon
  <2>2. \A v \in Workers : carries'[v] # 0 => \E g \in Fds : holds[g] = carries'[v] /\ table'[g] = 0
    <3>1. \A v \in Workers : carries[v] # 0 => \E g \in Fds : holds[g] = carries[v] /\ table[g] = 0
      BY Zenon DEF BsdInv, BoxesOwn
    <3>2. ASSUME NEW v \in Workers, v # w, carries'[v] # 0
          PROVE  \E g \in Fds : holds[g] = carries'[v] /\ table'[g] = 0
      <4>1. carries'[v] = carries[v]
        BY <1>5, <3>2, Zenon
      <4>2. PICK g \in Fds : holds[g] = carries[v] /\ table[g] = 0
        BY <3>1, <3>2, <4>1, Zenon
      <4>3. table'[g] = 0
        BY <1>7, <4>2, Zenon
      <4>4. QED
        BY <4>1, <4>2, <4>3, Zenon
    <3>3. holds[f] = carries'[w] /\ table'[f] = 0
      BY <1>1, <1>6, <1>7, Zenon
    <3>4. QED
      BY <3>2, <3>3, Zenon
  <2>3. \A u, v \in Workers : carries'[v] # 0 /\ carries'[u] = carries'[v] => u = v
    BY <1>1, <1>5, <1>6 DEF BsdInv, BoxesOwn
  <2>4. \A g \in Fds : table'[g] # 0 => holds[g] = table'[g]
    BY <1>7, Zenon DEF BsdInv, BoxesOwn
  <2>5. QED
    BY <1>2, <2>1, <2>2, <2>3, <2>4, SMTT(30) DEF BsdInv, BoxesOwn
<1>10. LockCovers'
  BY <1>1, <1>2, <1>5, <1>6 DEF BsdInv, LockCovers
<1>11. \A c \in Boxes : c # b /\ c # 0 => (CanFire(c)' <=> CanFire(c)) /\ (Borrowed(c)' <=> Borrowed(c))
  <2>1. \A v \in Workers : step[v] # "insert" /\ step'[v] # "insert"
    BY <1>5, <1>6, Zenon
  <2>2. QED
    BY <1>1, <1>7, <2>1, Zenon DEF CanFire, Borrowed
<1>12. ~CanFire(b)' /\ ~Borrowed(b)'
  <2>1. \A v \in Workers : step'[v] # "insert"
    BY <1>5, <1>6, Zenon
  <2>2. \A g \in Fds : table'[g] # b
    BY <1>1, <1>7 DEF BsdInv, BoxesOwn
  <2>3. QED
    BY <1>1, <2>1, <2>2, Zenon DEF CanFire, Borrowed
<1>13. GuardsBorrow'
  <2>1. ASSUME NEW v \in Workers, borrows'[v] # 0 PROVE CanFire(borrows[v])'
    <3>1. PICK c \in Boxes : c = borrows'[v] /\ c = borrows[v] /\ c # b /\ c # 0
      BY <1>1, <2>1, Zenon DEF BsdInv, BsdType
    <3>2. CanFire(c)
      BY <3>1, Zenon DEF BsdInv, GuardsBorrow
    <3>3. CanFire(c)'
      BY <1>11, <3>1, <3>2, Zenon
    <3>4. QED
      BY <3>1, <3>3, Zenon
  <2>2. \A u, v \in Workers : borrows'[v] # 0 /\ borrows'[u] = borrows'[v] => u = v
    BY Zenon DEF BsdInv, GuardsBorrow
  <2>3. QED
    BY <2>1, <2>2, Zenon DEF GuardsBorrow
<1>14. ASSUME NEW g \in Fds PROVE KernelAt(g)'
  <2>1. KernelAt(g)
    BY Zenon DEF BsdInv, KernelFollows
  <2>2. CASE g # f
    <3>1. \A j \in Bsd!Filters : filters'[g][j] = filters[g][j]
      BY <1>4, <2>2, Zenon
    <3>2. holds[g] # 0 => holds[g] \in Boxes /\ holds[g] # b
      BY <1>1, <2>2 DEF BsdInv, BsdType, BoxesOwn
    <3>3. \A v \in Workers : holds[g] # 0 /\ carries'[v] = holds[g] => carries[v] = holds[g] /\ step'[v] = step[v]
      BY <1>5, <1>6, <3>2, ZenonT(30)
    <3>4. QED
      BY <1>2, <1>11, <2>1, <3>1, <3>2, <3>3, KernelKept, Zenon
  <2>3. CASE g = f
    <3>1. \A v \in Workers : carries'[v] = b => v = w
      BY <1>5, Zenon
    <3>2. holds'[f] = b
      BY <1>1, <1>2, Zenon
    <3>3. \A k \in Bsd!Filters : /\ filters'[f][k] = Bsd!Absent
                                 /\ filters'[f][k].box = 0 /\ ~filters'[f][k].on
      <4>1. Bsd!Absent.box = 0 /\ ~Bsd!Absent.on
        BY DEF Bsd!Absent
      <4>2. QED
        BY <1>4, <4>1, Zenon
    <3>4. ASSUME NEW v \in Workers, carries'[v] = b
          PROVE  /\ step'[v] = "drop"
                 /\ step'[v] # "reserve" /\ step'[v] # "add" /\ step'[v] \notin {"reserve", "add"}
      BY <1>6, <3>1, <3>4, Zenon
    <3>5. ~CanFire(holds[f])'
      BY <1>1, <1>2, <1>12, Zenon
    <3>6. \A v \in Workers : holds'[f] # 0 /\ carries'[v] = holds'[f] =>
            /\ step'[v] \in {"reserve", "drop"} => \A k \in Bsd!Filters : filters'[f][k] = Bsd!Absent
            /\ step'[v] # "reserve" /\ step'[v] # "add" /\ step'[v] \notin {"reserve", "add"}
      BY <3>2, <3>3, <3>4, Zenon
    <3>7. \A k \in Bsd!Filters : /\ filters'[f][k].box \in {0, holds'[f]}
                                 /\ filters'[f][k].on => filters'[f][k].box # 0
      BY <3>3, Zenon
    <3>8. KernelAt(f)'
      BY <3>5, <3>6, <3>7, Zenon DEF KernelAt
    <3>9. QED
      BY <2>3, <3>8, Zenon
  <2>4. QED
    BY <2>2, <2>3, Zenon
<1>15. QED
  BY <1>8, <1>9, <1>10, <1>13, <1>14, Zenon DEF BsdInv, KernelFollows


\* Every step of the kqueue registry keeps the invariant.
LEMMA BsdStep == BsdInv /\ Bsd!KqueueNext => BsdInv'
<1> SUFFICES ASSUME BsdInv, Bsd!KqueueNext PROVE BsdInv'
  BY Zenon
<1>1. PICK w \in Workers :
        \/ \E f \in Fds :
             \/ \E kind_ \in {"read", "stream"} : Bsd!NewReadEvent(w, f, kind_)
             \/ \E k \in Bsd!Filters : Bsd!WaitEvent(w, f, k)
             \/ Bsd!ClearAlone(w, f)
        \/ (\E ok \in BOOLEAN : Bsd!ReserveWrite(w, ok)) \/ Bsd!AddRead(w) \/ Bsd!ReadRefused(w)
        \/ Bsd!Insert(w) \/ Bsd!DropCarried(w)
        \/ \E enabled \in BOOLEAN : Bsd!NotifyWritable(w, enabled)
        \/ Bsd!DropGuard(w) \/ Bsd!CancelGuard(w)
  BY Zenon DEF Bsd!KqueueNext
<1>2. CASE \E f \in Fds : \/ \E kind_ \in {"read", "stream"} : Bsd!NewReadEvent(w, f, kind_)
                          \/ \E k \in Bsd!Filters : Bsd!WaitEvent(w, f, k)
  BY <1>2, NewKeeps, WaitKeeps, Zenon
<1>3. CASE (\E ok \in BOOLEAN : Bsd!ReserveWrite(w, ok)) \/ Bsd!AddRead(w) \/ Bsd!ReadRefused(w)
  BY <1>3, RegisterKeeps, Zenon
<1>4. CASE Bsd!Insert(w) \/ Bsd!DropCarried(w)
  BY <1>4, InsertKeeps, DropKeeps, Zenon
<1>5. CASE \E enabled \in BOOLEAN : Bsd!NotifyWritable(w, enabled)
  BY <1>5, NotifyKeeps, Zenon
<1>6. CASE Bsd!DropGuard(w)
  BY <1>6, GuardKeeps, Zenon
<1>7. CASE Bsd!CancelGuard(w)
  <2>1. step[w] = "none" /\ borrows[w] # 0 /\ borrows' = [borrows EXCEPT ![w] = 0]
    BY <1>7, Zenon DEF Bsd!CancelGuard, Bsd!Runs
  <2>2. PICK f \in Fds : holds[f] = borrows[w] /\ Bsd!FdOf(borrows[w]) = f
    BY <2>1, BorrowedAt, Zenon
  <2>3. Bsd!ClearEvent(w, f)
    BY <1>7, <2>2, Zenon DEF Bsd!CancelGuard
  <2>4. table[f] = borrows[w]
    <3>1. table[f] # 0
      BY <2>3, Zenon DEF Bsd!ClearEvent
    <3>2. QED
      BY <2>2, <3>1, Zenon DEF BsdInv, BoxesOwn
  <2>5. /\ borrows' \in [Workers -> Boxes \cup {0}]
        /\ \A v \in Workers : borrows'[v] = IF borrows[v] = table[f] THEN 0 ELSE borrows[v]
    BY <2>1, <2>4, Zenon DEF BsdInv, BsdType, GuardsBorrow
  <2>6. QED
    BY <2>1, <2>3, <2>5, ClearKeeps, Zenon
<1>8. ASSUME NEW f \in Fds, Bsd!ClearAlone(w, f) PROVE BsdInv'
  <2>1. /\ step[w] = "none" /\ borrows[w] # 0 /\ role[borrows[w]] = "stream" /\ borrows' = borrows
        /\ table[f] # 0 /\ role[table[f]] = "read" /\ Bsd!ClearEvent(w, f)
        /\ \A v \in Workers \ {w} : borrows[v] = 0
    BY <1>8, Zenon DEF Bsd!ClearAlone, Bsd!Runs
  <2>2. /\ borrows' \in [Workers -> Boxes \cup {0}]
        /\ \A v \in Workers : borrows'[v] = IF borrows[v] = table[f] THEN 0 ELSE borrows[v]
    BY <2>1, Zenon DEF BsdInv, BsdType
  <2>3. QED
    BY <2>1, <2>2, ClearKeeps, Zenon
<1>9. QED
  BY <1>1, <1>2, <1>3, <1>4, <1>5, <1>6, <1>7, <1>8, Zenon

\* What the invariant says of the filters.
LEMMA BsdArmed == BsdInv => OneFilterArmed
<1> SUFFICES ASSUME BsdInv PROVE OneFilterArmed
  BY Zenon
<1>1. ASSUME NEW f \in Fds, NEW k \in Bsd!Filters, filters[f][k].box # 0
      PROVE  holds[f] = filters[f][k].box /\ (table[f] = holds[f] \/ locked # 0)
  <2>1. KernelAt(f)
    BY Zenon DEF BsdInv, KernelFollows
  <2>2. holds[f] = filters[f][k].box /\ holds[f] # 0
    BY <1>1, <2>1, Zenon DEF KernelAt
  <2>3. ASSUME NEW w \in Workers, carries[w] = holds[f] PROVE locked # 0
    <3>1. step[w] # "none" /\ step[w] \in {"none", "reserve", "add", "insert", "drop"}
      BY <2>2, <2>3, Zenon DEF BsdInv, BsdType, LockCovers
    <3>2. step[w] # "drop"
      <4>1. step[w] = "drop" => filters[f][k] = Bsd!Absent
        BY <2>1, <2>2, <2>3, Zenon DEF KernelAt
      <4>2. Bsd!Absent.box = 0
        BY DEF Bsd!Absent
      <4>3. QED
        BY <1>1, <4>1, <4>2, Zenon
    <3>3. locked = w
      BY <3>1, <3>2, Zenon DEF BsdInv, LockCovers
    <3>4. QED
      BY <3>3, PollersAssumption, Zenon
  <2>4. QED
    BY <2>2, <2>3, Zenon DEF BsdInv, BoxesOwn
<1>2. ASSUME NEW f \in Fds, table[f] # 0
      PROVE  /\ holds[f] = table[f]
             /\ {k \in Bsd!Filters : filters[f][k].on} =
                  IF \E w \in Workers : borrows[w] = table[f] THEN {} ELSE {Bsd!Desired(table[f])}
  <2>1. KernelAt(f)
    BY Zenon DEF BsdInv, KernelFollows
  <2>2. holds[f] = table[f]
    BY <1>2, Zenon DEF BsdInv, BoxesOwn
  <2>3. CanFire(holds[f])
    BY <2>2, Zenon DEF CanFire
  <2>4. \A k \in Bsd!Filters : filters[f][k].on <=> ~Borrowed(holds[f]) /\ k = Bsd!Desired(holds[f])
    BY <1>2, <2>1, <2>2, <2>3, Zenon DEF KernelAt
  <2>5. Bsd!Desired(table[f]) \in Bsd!Filters
    BY Zenon DEF Bsd!Desired, Bsd!Filters
  <2>6. QED
    BY <2>2, <2>4, <2>5, Zenon DEF Borrowed
<1>3. \A v, w \in Workers : v # w /\ borrows[v] # 0 => borrows[v] # borrows[w]
  BY Zenon DEF BsdInv, GuardsBorrow
<1>4. QED
  BY <1>1, <1>2, <1>3, Zenon DEF OneFilterArmed, Bsd!OneFilterArmed

\* OneFilterArmed holds of every behaviour of the registry, whichever kevent of a
\* registration is refused and however the workers' handlers, cancellations and
\* registrations interleave: a handler at rest is armed for exactly what it waits for.
THEOREM OneArmed == PollersSpec => []OneFilterArmed
<1>1. PollersInit => BsdInv
  BY BsdStarts, Zenon DEF PollersInit
<1>2. BsdInv /\ [PollersNext]_<<vars, bsdVars, system>> => BsdInv'
  <2> SUFFICES ASSUME BsdInv, [PollersNext]_<<vars, bsdVars, system>> PROVE BsdInv'
    BY Zenon
  <2>1. CASE UNCHANGED bsdVars
    <3>1. BsdType' /\ BoxesOwn' /\ LockCovers'
      BY <2>1 DEF bsdVars, BsdInv, BsdType, BoxesOwn, LockCovers
    <3>2. GuardsBorrow'
      BY <2>1, Zenon DEF bsdVars, BsdInv, GuardsBorrow, CanFire
    <3>3. KernelFollows'
      BY <2>1 DEF bsdVars, BsdInv, KernelFollows, KernelAt, CanFire, Borrowed, Bsd!Desired
    <3>4. QED
      BY <3>1, <3>2, <3>3, Zenon DEF BsdInv
  <2>2. CASE Bsd!KqueueNext
    BY <2>2, BsdStep, Zenon
  <2>3. QED
    BY <2>1, <2>2, Zenon DEF PollersNext
<1>3. QED
  BY <1>1, <1>2, BsdArmed, PTL DEF PollersSpec

-----------------------------------------------------------------------------
(***************************************************************************)
(* The device lock the workers share (DevLock), for any set of workers and *)
(* any number of upgrades.                                                 *)
(***************************************************************************)
\* The mutex is held only by a Lock::read on its way in, and not once
\* wants_write is raised.
MutexHeld ==
  \A t \in Threads : pc[t] = "entering" => mutex = t /\ ~wants_write

\* The write lock is held only while mut_func runs.
WriteHeld ==
  writer # Nobody => writer \in Threads /\ pc[writer] = "mutating"

\* The inductive invariant: who may be where while wants_write is raised.
LockInv ==
  /\ LockTypeOK
  /\ IntentOwned
  /\ NoChangeSincePrep
  /\ MutexHeld
  /\ WriteHeld

\* Lock::new: nobody holds anything.
LEMMA LockStarts == LockInit => LockInv
<1> SUFFICES ASSUME LockInit PROVE LockInv
  BY Zenon
<1>1. /\ pc \in [Threads -> Places] /\ visits \in [Threads -> Nat]
      /\ \A t \in Threads : pc[t] # "visit"
  BY Zenon DEF LockInit, Places
<1>2. LockTypeOK
  BY <1>1, Zenon DEF LockInit, LockTypeOK
<1>3. IntentOwned /\ NoChangeSincePrep /\ MutexHeld /\ WriteHeld
  BY Zenon DEF LockInit, IntentOwned, Intends, IntentStages, NoChangeSincePrep, MutexHeld, WriteHeld
<1>4. QED
  BY <1>2, <1>3, Zenon DEF LockInv

\* Every step keeps the variables within their types.
LEMMA LockTypeStep == LockTypeOK /\ [LockNext]_devLockVars => LockTypeOK'
<1> SUFFICES ASSUME LockTypeOK, [LockNext]_devLockVars
             PROVE  LockTypeOK'
  BY Zenon
<1> USE DEF LockTypeOK, Places, IntentStages, Gone, Go, lockVars, deviceVars, Threads
<1>1. ASSUME NEW t \in Threads, ReadLock(t)
     PROVE  LockTypeOK'
  BY <1>1, Zenon DEF ReadLock
<1>2. ASSUME NEW t \in Threads, ReadEnter(t)
     PROVE  LockTypeOK'
  BY <1>2, Zenon DEF ReadEnter
<1>3. ASSUME NEW t \in Threads, Visit(t)
     PROVE  LockTypeOK'
  BY <1>3 DEF Visit
<1>4. ASSUME NEW t \in EventLoops, HandleEvent(t)
     PROVE  LockTypeOK'
  BY <1>4, Zenon DEF HandleEvent
<1>5. ASSUME NEW t \in EventLoops, Return(t)
     PROVE  LockTypeOK'
  BY <1>5, Zenon DEF Return
<1>6. ASSUME NEW t \in EventLoops, YieldRead(t)
     PROVE  LockTypeOK'
  BY <1>6, Zenon DEF YieldRead
<1>7. ASSUME NEW t \in EventLoops, Exit(t)
     PROVE  LockTypeOK'
  BY <1>7, Zenon DEF Exit
<1>8. ASSUME NEW t \in EventLoops, BeginUpgrade(t)
     PROVE  LockTypeOK'
  <2>1. /\ pc' \in [Threads -> Places] /\ wants_write' \in BOOLEAN
        /\ \A u \in Threads : pc'[u] = "visit" => pc[u] = "visit"
    <3>1. CASE wants_write
      BY <1>8, <3>1, Zenon DEF BeginUpgrade, RaiseOrPark
    <3>2. CASE ~wants_write
      BY <1>8, <3>2, Zenon DEF BeginUpgrade, RaiseOrPark
    <3>3. QED
      BY <3>1, <3>2, Zenon
  <2>2. begun' \in Nat /\ readers' \subseteq Threads
    BY <1>8 DEF BeginUpgrade
  <2>3. UNCHANGED <<mutex, writer, yield_notice, exit_notice, version, seen, visits>>
    BY <1>8, Zenon DEF BeginUpgrade
  <2>4. QED
    BY <2>1, <2>2, <2>3, Zenon
<1>9. ASSUME NEW t \in EventLoops, Awoken(t)
     PROVE  LockTypeOK'
  BY <1>9, Zenon DEF Awoken, RaiseOrPark
<1>10. ASSUME NEW t \in EventLoops, ReadAgain(t)
      PROVE  LockTypeOK'
  BY <1>10, Zenon DEF ReadAgain
<1>11. ASSUME NEW t \in EventLoops, Prep(t)
      PROVE  LockTypeOK'
  BY <1>11, Zenon DEF Prep, TriggerYield
<1>12. ASSUME NEW t \in EventLoops, WriteLock(t)
      PROVE  LockTypeOK'
  BY <1>12, Zenon DEF WriteLock
<1>13. ASSUME NEW t \in EventLoops, Mutate(t)
      PROVE  LockTypeOK'
  <2>1. /\ pc' \in [Threads -> Places]
        /\ \A u \in Threads : pc'[u] = "visit" => pc[u] = "visit"
    BY <1>13, Zenon DEF Mutate, CancelYield
  <2>2. version' \in Nat
    <3>1. version' = version + 1
      BY <1>13, Zenon DEF Mutate, CancelYield
    <3>2. QED
      BY <3>1
  <2>3. /\ yield_notice' = FALSE /\ writer' = Nobody
        /\ UNCHANGED <<wants_write, mutex, readers, exit_notice, seen, begun, visits>>
    BY <1>13, Zenon DEF Mutate, CancelYield
  <2>4. QED
    BY <2>1, <2>2, <2>3, Zenon
<1>14. ASSUME NEW t \in EventLoops, ReadBack(t)
      PROVE  LockTypeOK'
  BY <1>14, Zenon DEF ReadBack
<1>15. ASSUME NEW t \in EventLoops, Lower(t)
      PROVE  LockTypeOK'
  BY <1>15, Zenon DEF Lower, NotifyAll
<1>16. ASSUME NEW t \in EventLoops, Unwind(t)
      PROVE  LockTypeOK'
  BY <1>16, Zenon DEF Unwind, NotifyAll
<1>17. CASE Stopped \/ UNCHANGED devLockVars
  BY <1>17, Zenon DEF Stopped, devLockVars
<1>18. QED
  BY <1>1, <1>2, <1>3, <1>4, <1>5, <1>6, <1>7, <1>8, <1>9, <1>10, <1>11, <1>12,
     <1>13, <1>14, <1>15, <1>16, <1>17, Zenon
     DEF LockNext, TryWriteable

\* Every step keeps the rest of the invariant.
LEMMA LockStep ==
  LockInv /\ [LockNext]_devLockVars =>
    (IntentOwned /\ NoChangeSincePrep /\ MutexHeld /\ WriteHeld)'
<1> DEFINE Rest == IntentOwned /\ NoChangeSincePrep /\ MutexHeld /\ WriteHeld
<1> SUFFICES ASSUME LockInv, [LockNext]_devLockVars
             PROVE  Rest'
  BY Zenon
<1> USE DevLockAssumption DEF LockInv, LockTypeOK, IntentOwned, Intends, IntentStages,
        NoChangeSincePrep, MutexHeld, WriteHeld, Go, lockVars, deviceVars,
        Threads, CanRead
<1>1. ASSUME NEW t \in Threads, ReadLock(t)
     PROVE  Rest'
  BY <1>1 DEF ReadLock
<1>2. ASSUME NEW t \in Threads, ReadEnter(t)
     PROVE  Rest'
  BY <1>2, Zenon DEF ReadEnter
<1>3. ASSUME NEW t \in Threads, Visit(t)
     PROVE  Rest'
  BY <1>3, Zenon DEF Visit
<1>4. ASSUME NEW t \in EventLoops, HandleEvent(t)
     PROVE  Rest'
  BY <1>4, Zenon DEF HandleEvent
<1>5. ASSUME NEW t \in EventLoops, Return(t)
     PROVE  Rest'
  BY <1>5 DEF Return
<1>6. ASSUME NEW t \in EventLoops, YieldRead(t)
     PROVE  Rest'
  BY <1>6, Zenon DEF YieldRead
<1>7. ASSUME NEW t \in EventLoops, Exit(t)
     PROVE  Rest'
  BY <1>7, Zenon DEF Exit
<1>8. ASSUME NEW t \in EventLoops, BeginUpgrade(t)
     PROVE  Rest'
  BY <1>8 DEF BeginUpgrade, RaiseOrPark
<1>9. ASSUME NEW t \in EventLoops, Awoken(t)
     PROVE  Rest'
  BY <1>9 DEF Awoken, RaiseOrPark
<1>10. ASSUME NEW t \in EventLoops, ReadAgain(t)
      PROVE  Rest'
  BY <1>10, Zenon DEF ReadAgain
<1>11. ASSUME NEW t \in EventLoops, Prep(t)
      PROVE  Rest'
  BY <1>11, Zenon DEF Prep, TriggerYield
<1>12. ASSUME NEW t \in EventLoops, WriteLock(t)
      PROVE  Rest'
  BY <1>12, Zenon DEF WriteLock
<1>13. ASSUME NEW t \in EventLoops, Mutate(t)
      PROVE  Rest'
  BY <1>13, Zenon DEF Mutate, CancelYield
<1>14. ASSUME NEW t \in EventLoops, ReadBack(t)
      PROVE  Rest'
  BY <1>14, Zenon DEF ReadBack
<1>15. ASSUME NEW t \in EventLoops, Lower(t)
      PROVE  Rest'
  BY <1>15, Zenon DEF Lower, NotifyAll
<1>16. ASSUME NEW t \in EventLoops, Unwind(t)
      PROVE  Rest'
  BY <1>16, Zenon DEF Unwind, NotifyAll
<1>17. CASE Stopped \/ UNCHANGED devLockVars
  BY <1>17 DEF Stopped, devLockVars
<1>18. QED
  BY <1>1, <1>2, <1>3, <1>4, <1>5, <1>6, <1>7, <1>8, <1>9, <1>10, <1>11, <1>12,
     <1>13, <1>14, <1>15, <1>16, <1>17, Zenon
     DEF LockNext, TryWriteable

\* The invariant holds in every reachable state.
LEMMA LockInvariant == LockSpec => []LockInv
<1>1. LockInv /\ [LockNext]_devLockVars => LockInv'
  BY LockTypeStep, LockStep, Zenon DEF LockInv
<1>2. QED
  BY <1>1, LockStarts, PTL DEF LockSpec

\* Two upgrades never overlap and an intent is never left behind, for any
\* number of workers: wants_write is raised exactly while one try_writeable
\* stands behind it.
THEOREM OneIntent == LockSpec => []IntentOwned
<1>1. LockInv => IntentOwned
  BY Zenon DEF LockInv
<1>2. QED
  BY <1>1, LockInvariant, PTL

\* try_writeable: what prep_func saw is what mut_func gets.
THEOREM PrepStaysCurrent == LockSpec => []NoChangeSincePrep
<1>1. LockInv => NoChangeSincePrep
  BY Zenon DEF LockInv
<1>2. QED
  BY <1>1, LockInvariant, PTL

\* Lock::read never waits in inner.read() with the mutex locked, so a writer
\* can always lower its intent.
THEOREM EntryOpen == LockSpec => []EntryNeverBlocks
<1>1. LockInv => EntryNeverBlocks
  <2> SUFFICES ASSUME LockInv, NEW t \in Threads, pc[t] = "entering"
               PROVE  CanRead
    BY Zenon DEF EntryNeverBlocks
  <2>1. \A u \in Threads : ~Intends(u)
    BY Zenon DEF LockInv, MutexHeld, IntentOwned
  <2>2. QED
    BY <2>1, Zenon DEF CanRead, Intends, IntentStages, LockInv, WriteHeld
<1>2. QED
  BY <1>1, LockInvariant, PTL
==============================================================================
