------------------------------- MODULE Kqueue -------------------------------
(***************************************************************************)
(* The registry of pollable events on kqueue (device/kqueue.rs).  Where    *)
(* epoll has one registration of a descriptor, a kevent is known by        *)
(* descriptor and filter, and a UAPI stream has two: READ, and WRITE,      *)
(* reserved disabled when the stream is registered.  A filter that fires   *)
(* is disabled (EV_DISPATCH) until the guard of the worker it woke is      *)
(* dropped.  The table is changed under its lock; the kernel hands out     *)
(* events without it, so one may fire before its box is in the table.      *)
(*                                                                         *)
(* A box is a natural number and 0 is none.  Every box owns its            *)
(* descriptor, whose number is free again once the box is dropped, and     *)
(* closing it takes its filters out of the kernel.                         *)
(***************************************************************************)
EXTENDS Naturals

CONSTANTS Workers, Fds, Boxes

Nil == 0
Filters == {"READ", "WRITE"}
Absent == [box |-> Nil, on |-> FALSE]

VARIABLES
  table,      \* events: descriptor to box
  holds,      \* descriptor to the box whose socket has that number
  filters,    \* descriptor and filter to the box the kernel points to, and whether enabled
  role,       \* box to "unborn", "read", "stream" or "dropped"
  writes,     \* boxes with write_interest
  locked,     \* the worker holding the table's lock
  borrows,    \* worker to the box its EventGuard borrows
  step,       \* worker to what it is doing with the box in its hand
  carries     \* worker to that box

kqueueVars == <<table, holds, filters, role, writes, locked, borrows, step, carries>>

FdOf(b) == CHOOSE f \in Fds : holds[f] = b
NewBox == CHOOSE b \in Boxes : role[b] = "unborn"

KqueueInit ==
  \E f \in Fds :
    /\ table = [g \in Fds |-> IF g = f THEN 1 ELSE Nil]
    /\ holds = table
    /\ filters = [g \in Fds |-> [k \in Filters |->
                    IF g = f /\ k = "READ" THEN [box |-> 1, on |-> TRUE] ELSE Absent]]
    /\ role = [b \in Boxes |-> IF b = 1 THEN "read" ELSE "unborn"]
    /\ writes = {} /\ locked = Nil
    /\ borrows = [w \in Workers |-> Nil]
    /\ step = [w \in Workers |-> "none"] /\ carries = [w \in Workers |-> Nil]

\* A worker inside a handler, with nothing else in hand.
Runs(w) == borrows[w] # Nil /\ step[w] = "none"

(***************************************************************************)
(* register_event, kevent by kevent.                                       *)
(***************************************************************************)
NewReadEvent(w, f, kind) ==
  /\ Runs(w) /\ locked = Nil
  /\ holds[f] = Nil /\ \E b \in Boxes : role[b] = "unborn"
  /\ holds' = [holds EXCEPT ![f] = NewBox]
  /\ role' = [role EXCEPT ![NewBox] = kind]
  /\ carries' = [carries EXCEPT ![w] = NewBox]
  /\ step' = [step EXCEPT ![w] = IF kind = "stream" THEN "reserve" ELSE "add"]
  /\ locked' = w
  /\ UNCHANGED <<table, filters, writes, borrows>>

\* The stream's WRITE filter: there, and disabled.
ReserveWrite(w, ok) ==
  /\ step[w] = "reserve"
  /\ filters' = IF ok
       THEN [filters EXCEPT ![FdOf(carries[w])]["WRITE"] = [box |-> carries[w], on |-> FALSE]]
       ELSE filters
  /\ step' = [step EXCEPT ![w] = IF ok THEN "add" ELSE "drop"]
  /\ locked' = IF ok THEN locked ELSE Nil
  /\ UNCHANGED <<table, holds, role, writes, borrows, carries>>

\* From here on the event can fire.
AddRead(w) ==
  /\ step[w] = "add"
  /\ filters' = [filters EXCEPT ![FdOf(carries[w])]["READ"] = [box |-> carries[w], on |-> TRUE]]
  /\ step' = [step EXCEPT ![w] = "insert"]
  /\ UNCHANGED <<table, holds, role, writes, locked, borrows, carries>>

\* The reserved filter goes with the refused one.
ReadRefused(w) ==
  /\ step[w] = "add"
  /\ filters' = [filters EXCEPT ![FdOf(carries[w])]["WRITE"] = Absent]
  /\ step' = [step EXCEPT ![w] = "drop"]
  /\ locked' = Nil
  /\ UNCHANGED <<table, holds, role, writes, borrows, carries>>

\* It never finds another box there: the number would not be free.
Insert(w) ==
  /\ step[w] = "insert"
  /\ table' = [table EXCEPT ![FdOf(carries[w])] = carries[w]]
  /\ step' = [step EXCEPT ![w] = "none"]
  /\ carries' = [carries EXCEPT ![w] = Nil]
  /\ locked' = Nil
  /\ UNCHANGED <<holds, filters, role, writes, borrows>>

\* Outside the lock: a refused box, or one taken out of the table.
DropCarried(w) ==
  /\ step[w] = "drop"
  /\ role' = [role EXCEPT ![carries[w]] = "dropped"]
  /\ filters' = [filters EXCEPT ![FdOf(carries[w])] = [k \in Filters |-> Absent]]
  /\ holds' = [holds EXCEPT ![FdOf(carries[w])] = Nil]
  /\ step' = [step EXCEPT ![w] = "none"]
  /\ carries' = [carries EXCEPT ![w] = Nil]
  /\ UNCHANGED <<table, writes, locked, borrows>>

(***************************************************************************)
(* Events and guards.                                                      *)
(***************************************************************************)
\* A filter is enabled or disabled, and points where it pointed.
Switched(f, k, on) == [filters EXCEPT ![f][k] = [box |-> filters[f][k].box, on |-> on]]

WaitEvent(w, f, k) ==
  /\ borrows[w] = Nil /\ step[w] = "none"
  /\ filters[f][k].on
  /\ filters' = Switched(f, k, FALSE)
  /\ borrows' = [borrows EXCEPT ![w] = filters[f][k].box]
  /\ UNCHANGED <<table, holds, role, writes, locked, step, carries>>

\* Action::WaitForWrite and Action::WaitForRead.
NotifyWritable(w, enabled) ==
  /\ Runs(w) /\ role[borrows[w]] = "stream"
  /\ writes' = IF enabled THEN writes \cup {borrows[w]} ELSE writes \ {borrows[w]}
  /\ UNCHANGED <<table, holds, filters, role, locked, borrows, step, carries>>

Desired(b) == IF role[b] = "stream" /\ b \in writes THEN "WRITE" ELSE "READ"

\* The filter of the box's own event, whatever the stream waits for.
DropEnablesRead(w) ==
  /\ Runs(w)
  /\ filters' = Switched(FdOf(borrows[w]), "READ", TRUE)
  /\ borrows' = [borrows EXCEPT ![w] = Nil]
  /\ UNCHANGED <<table, holds, role, writes, locked, step, carries>>

DropGuard(w) ==
  /\ Runs(w)
  /\ filters' = Switched(FdOf(borrows[w]), Desired(borrows[w]), TRUE)
  /\ borrows' = [borrows EXCEPT ![w] = Nil]
  /\ UNCHANGED <<table, holds, role, writes, locked, step, carries>>

\* clear_event_by_fd up to the unlock: both filters of a stream are deleted.
ClearEvent(w, f) ==
  /\ locked = Nil /\ table[f] # Nil
  /\ table' = [table EXCEPT ![f] = Nil]
  /\ filters' = [filters EXCEPT ![f] = [k \in Filters |->
                   IF k = "READ" \/ role[table[f]] = "stream" THEN Absent ELSE @[k]]]
  /\ carries' = [carries EXCEPT ![w] = table[f]]
  /\ step' = [step EXCEPT ![w] = "drop"]
  /\ UNCHANGED <<holds, role, writes, locked>>

\* Action::Close of a stream; EV_EOF of any other event, which its handler never sees.
CancelGuard(w) ==
  /\ Runs(w)
  /\ ClearEvent(w, FdOf(borrows[w]))
  /\ borrows' = [borrows EXCEPT ![w] = Nil]

\* open_listen_socket, alone with the device, clears an old listener.
ClearAlone(w, f) ==
  /\ Runs(w) /\ role[borrows[w]] = "stream"
  /\ \A v \in Workers \ {w} : borrows[v] = Nil /\ step[v] = "none"
  /\ table[f] # Nil /\ role[table[f]] = "read"
  /\ ClearEvent(w, f)
  /\ UNCHANGED borrows

KqueueNext ==
  \E w \in Workers :
    \/ \E f \in Fds :
         \/ \E kind \in {"read", "stream"} : NewReadEvent(w, f, kind)
         \/ \E k \in Filters : WaitEvent(w, f, k)
         \/ ClearAlone(w, f)
    \/ \E ok \in BOOLEAN : ReserveWrite(w, ok)
    \/ AddRead(w) \/ ReadRefused(w) \/ Insert(w) \/ DropCarried(w)
    \/ \E enabled \in BOOLEAN : NotifyWritable(w, enabled)
    \/ DropGuard(w) \/ CancelGuard(w)

KqueueSpec == KqueueInit /\ [][KqueueNext]_kqueueVars

-----------------------------------------------------------------------------
(***************************************************************************)
(* Exactly one filter of a handler at rest is enabled: the one it waits    *)
(* for, so it is neither stranded nor run by two workers; none is while a  *)
(* guard borrows it ("enabling exactly one keeps ownership exclusive",     *)
(* EventGuard's drop).  What the kernel points to is the live box of that  *)
(* descriptor, whichever kevent of a registration was refused, and a       *)
(* cancelled stream leaves neither filter behind.                          *)
(***************************************************************************)
OneFilterArmed ==
  /\ \A f \in Fds, k \in Filters :
       filters[f][k].box # Nil =>
         /\ holds[f] = filters[f][k].box
         /\ table[f] = holds[f] \/ locked # Nil
  /\ \A f \in Fds :
       LET b == table[f]
           on == {k \in Filters : filters[f][k].on}
       IN  b # Nil =>
             /\ holds[f] = b
             /\ on = IF \E w \in Workers : borrows[w] = b THEN {} ELSE {Desired(b)}
  /\ \A v, w \in Workers : v # w /\ borrows[v] # Nil => borrows[v] # borrows[w]
=============================================================================
