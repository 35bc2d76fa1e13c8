------------------------------ MODULE Pollers -------------------------------
(***************************************************************************)
(* The event queue as it is built for Linux (EventQueue, on epoll) or for  *)
(* a BSD or macOS (Kqueue).  A build has one of them.                      *)
(***************************************************************************)
EXTENDS EventQueue

VARIABLES system, table, holds, filters, role, writes, locked, borrows, step, carries

Bsd == INSTANCE Kqueue

\* Nobody is not a worker.
ASSUME PollersAssumption == Bsd!Nil \notin Workers

bsdVars == <<table, holds, filters, role, writes, locked, borrows, step, carries>>

PollersInit == system \in {"epoll", "kqueue"} /\ Init /\ Bsd!KqueueInit

PollersNext ==
  /\ \/ system = "epoll" /\ Next /\ UNCHANGED bsdVars
     \/ system = "kqueue" /\ Bsd!KqueueNext /\ UNCHANGED vars
  /\ UNCHANGED system

\* Only what the epoll build promises in time needs fairness.
PollersSpec == PollersInit /\ [][PollersNext]_<<vars, bsdVars, system>> /\ Fairness

-----------------------------------------------------------------------------
\* A handler at rest has exactly one filter enabled, the one it waits for, and none
\* while a worker runs it; no filter points to a box that is gone.
OneFilterArmed == Bsd!OneFilterArmed
=============================================================================
