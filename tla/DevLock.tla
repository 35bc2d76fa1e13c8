------------------------------ MODULE DevLock ------------------------------
(***************************************************************************)
(* The device lock (device/dev_lock.rs) and the workers that share the     *)
(* device through it (device/mod.rs event_loop).                           *)
(*                                                                         *)
(* A worker keeps a read lock while it waits for events and runs handlers. *)
(* A handler that must change the device (api_set, the MTU monitor) calls  *)
(* try_writeable: it raises wants_write, asks every worker to yield its    *)
(* read lock through the yield notification, takes the write lock, and     *)
(* lowers wants_write again, also when a closure panics.  The owner of the *)
(* DeviceHandle drops it at any time: two short reads, the first of which  *)
(* triggers the exit notification.  A worker starts with a short read.     *)
(*                                                                         *)
(* The RwLock, the Mutex and the Condvar are parking_lot's: a waiting      *)
(* writer keeps new readers out, and a wait on the condition variable ends *)
(* only by a notification.                                                 *)
(***************************************************************************)
EXTENDS Integers, FiniteSets

CONSTANTS
  EventLoops,  \* the event loop's threads
  Owner,       \* the thread that drops the DeviceHandle
  Nobody,      \* no thread
  MaxWrites    \* bound: how many upgrades are begun

Threads == EventLoops \cup {Owner}

ASSUME DevLockAssumption ==
  /\ Owner \notin EventLoops
  /\ Nobody \notin Threads
  /\ MaxWrites \in Nat

VARIABLES
  pc,            \* where each thread is
  wants_write,   \* Lock::wants_write
  mutex,         \* who holds the Mutex around it
  readers,       \* who holds Lock::inner for reading
  writer,        \* who holds it for writing
  yield_notice,  \* whether the yield notification is triggered
  exit_notice,   \* whether the exit notification is triggered
  version,       \* history: how often the device has been changed
  seen,          \* history: the version each thread's prep_func saw
  begun,         \* how many upgrades have begun
  visits         \* short reads each thread has still to make

devLockVars ==
  <<pc, wants_write, mutex, readers, writer, yield_notice, exit_notice,
    version, seen, begun, visits>>

lockVars == <<wants_write, mutex, writer>>
deviceVars == <<yield_notice, exit_notice, version, seen>>

Go(t, where) == pc' = [pc EXCEPT ![t] = where]

(***************************************************************************)
(* From the raising of wants_write to its lowering.                        *)
(***************************************************************************)
IntentStages ==
  {"raised", "prep", "upgrading", "mutating", "written", "panicked", "lower", "unwind"}

Gone == {"done", "dead"}

LockInit ==
  /\ pc = [t \in Threads |-> "out"]
  /\ wants_write = FALSE
  /\ mutex = Nobody
  /\ readers = {}
  /\ writer = Nobody
  /\ yield_notice = FALSE
  /\ exit_notice = FALSE
  /\ version = 0
  /\ seen = [t \in Threads |-> 0]
  /\ begun = 0
  /\ visits = [t \in Threads |-> IF t = Owner THEN 2 ELSE 1]

\* RwLock::read may return: nobody writes or waits to write.
CanRead == writer = Nobody /\ \A t \in Threads : pc[t] # "upgrading"

(***************************************************************************)
(* Lock::read.  The mutex stays locked while inner.read() is taken.        *)
(***************************************************************************)
ReadLock(t) ==
  /\ pc[t] = "out" /\ mutex = Nobody
  /\ IF wants_write
     THEN Go(t, "parked_read") /\ UNCHANGED mutex
     ELSE Go(t, "entering") /\ mutex' = t
  /\ UNCHANGED <<wants_write, readers, writer, deviceVars, begun, visits>>

ReadEnter(t) ==
  /\ pc[t] = "entering" /\ CanRead
  /\ readers' = readers \cup {t}
  /\ mutex' = Nobody
  /\ Go(t, IF visits[t] > 0 THEN "visit" ELSE "wait")
  /\ UNCHANGED <<wants_write, writer, deviceVars, begun, visits>>

\* DeviceHandle::drop triggers the exit under one read and cleans up under
\* another; a worker reads uapi_fd before its loop.
Visit(t) ==
  /\ pc[t] = "visit"
  /\ exit_notice' = (exit_notice \/ t = Owner)
  /\ readers' = readers \ {t}
  /\ visits' = [visits EXCEPT ![t] = @ - 1]
  /\ Go(t, IF t = Owner /\ visits[t] = 1 THEN "done" ELSE "out")
  /\ UNCHANGED <<lockVars, yield_notice, version, seen, begun>>

(***************************************************************************)
(* event_loop: queue.wait() hands out an ordinary event, or one of the two *)
(* notifications while it is triggered.                                    *)
(***************************************************************************)
HandleEvent(t) ==
  /\ pc[t] = "wait"
  /\ Go(t, "handler")
  /\ UNCHANGED <<readers, lockVars, deviceVars, begun, visits>>

\* A handler that changes nothing returns, or returns Action::Exit (a signal,
\* or the end of the UAPI descriptor), which triggers the exit notification and
\* ends the worker.
Return(t) ==
  /\ pc[t] = "handler"
  /\ \/ /\ Go(t, "wait")
        /\ UNCHANGED <<readers, exit_notice>>
     \/ /\ Go(t, "done")
        /\ exit_notice' = TRUE
        /\ readers' = readers \ {t}
  /\ UNCHANGED <<lockVars, yield_notice, version, seen, begun, visits>>

YieldRead(t) ==
  /\ pc[t] = "wait" /\ yield_notice
  /\ readers' = readers \ {t}
  /\ Go(t, "out")
  /\ UNCHANGED <<lockVars, deviceVars, begun, visits>>

\* The first worker to see the exit notification consumes it.
ExitConsumes(t) ==
  /\ pc[t] = "wait" /\ exit_notice
  /\ exit_notice' = FALSE
  /\ readers' = readers \ {t}
  /\ Go(t, "done")
  /\ UNCHANGED <<lockVars, yield_notice, version, seen, begun, visits>>

Exit(t) ==
  /\ pc[t] = "wait" /\ exit_notice
  /\ readers' = readers \ {t}
  /\ Go(t, "done")
  /\ UNCHANGED <<lockVars, deviceVars, begun, visits>>

(***************************************************************************)
(* try_writeable.  The read lock is given up before the wait for another   *)
(* writer, and taken back once wants_write is raised.                      *)
(***************************************************************************)
RaiseOrPark(t) ==
  IF wants_write
  THEN Go(t, "parked_write") /\ UNCHANGED wants_write
  ELSE Go(t, "raised") /\ wants_write' = TRUE

BeginUpgrade(t) ==
  /\ pc[t] = "handler" /\ mutex = Nobody
  /\ begun < MaxWrites
  /\ begun' = begun + 1
  /\ readers' = readers \ {t}
  /\ RaiseOrPark(t)
  /\ UNCHANGED <<mutex, writer, deviceVars, visits>>

\* The wait for another writer without a loop around it.
AwokenUnchecked(t) ==
  /\ pc[t] = "awoken" /\ mutex = Nobody
  /\ Go(t, "raised") /\ wants_write' = TRUE
  /\ UNCHANGED <<mutex, readers, writer, deviceVars, begun, visits>>

\* The wait for another writer ends: look again.
Awoken(t) ==
  /\ pc[t] = "awoken" /\ mutex = Nobody
  /\ RaiseOrPark(t)
  /\ UNCHANGED <<mutex, readers, writer, deviceVars, begun, visits>>

ReadAgain(t) ==
  /\ pc[t] = "raised" /\ CanRead
  /\ readers' = readers \cup {t}
  /\ Go(t, "prep")
  /\ UNCHANGED <<lockVars, deviceVars, begun, visits>>

\* The eventfd behind the yield notification is written, or read empty.
TriggerYield == yield_notice' = TRUE
CancelYield == yield_notice' = FALSE

\* No yield asked for.
PrepWithoutYield(t) ==
  /\ pc[t] = "prep"
  /\ seen' = [seen EXCEPT ![t] = version]
  /\ \/ Go(t, "upgrading") /\ readers' = readers \ {t}
     \/ Go(t, "unwind") /\ UNCHANGED readers
  /\ UNCHANGED <<lockVars, yield_notice, exit_notice, version, begun, visits>>

\* prep_func is trigger_yield; or it panics with the read lock held.
Prep(t) ==
  /\ pc[t] = "prep"
  /\ seen' = [seen EXCEPT ![t] = version]
  /\ \/ /\ TriggerYield
        /\ readers' = readers \ {t}
        /\ Go(t, "upgrading")
     \/ /\ Go(t, "unwind")
        /\ UNCHANGED <<yield_notice, readers>>
  /\ UNCHANGED <<lockVars, exit_notice, version, begun, visits>>

WriteLock(t) ==
  /\ pc[t] = "upgrading" /\ readers = {} /\ writer = Nobody
  /\ writer' = t
  /\ Go(t, "mutating")
  /\ UNCHANGED <<wants_write, mutex, readers, deviceVars, begun, visits>>

\* mut_func cancels the yield first; it may panic half way, with the device
\* changed.  Either way the write lock is released.
Mutate(t) ==
  /\ pc[t] = "mutating"
  /\ CancelYield
  /\ version' = version + 1
  /\ writer' = Nobody
  /\ Go(t, "written") \/ Go(t, "panicked")
  /\ UNCHANGED <<wants_write, mutex, readers, exit_notice, seen, begun, visits>>

ReadBack(t) ==
  /\ pc[t] \in {"written", "panicked"} /\ CanRead
  /\ readers' = readers \cup {t}
  /\ Go(t, IF pc[t] = "written" THEN "lower" ELSE "unwind")
  /\ UNCHANGED <<lockVars, deviceVars, begun, visits>>

\* WriteIntent::drop wakes every waiter.
NotifyAll ==
  [t \in Threads |-> CASE pc[t] = "parked_read" -> "out"
                       [] pc[t] = "parked_write" -> "awoken"
                       [] OTHER -> pc[t]]

Lower(t) ==
  /\ pc[t] = "lower" /\ mutex = Nobody
  /\ wants_write' = FALSE
  /\ pc' = [NotifyAll EXCEPT ![t] = "handler"]
  /\ UNCHANGED <<readers, mutex, writer, deviceVars, begun, visits>>

\* A panicking worker lowers the intent as it unwinds, and dies.
Unwind(t) ==
  /\ pc[t] = "unwind" /\ mutex = Nobody
  /\ wants_write' = FALSE
  /\ readers' = readers \ {t}
  /\ pc' = [NotifyAll EXCEPT ![t] = "dead"]
  /\ UNCHANGED <<mutex, writer, deviceVars, begun, visits>>

TryWriteable(t) ==
  \/ Awoken(t) \/ ReadAgain(t) \/ Prep(t) \/ WriteLock(t) \/ Mutate(t)
  \/ ReadBack(t) \/ Lower(t) \/ Unwind(t)

\* Everyone is gone.
Stopped == (\A t \in Threads : pc[t] \in Gone) /\ UNCHANGED devLockVars

LockNext ==
  \/ \E t \in Threads : ReadLock(t) \/ ReadEnter(t) \/ Visit(t)
  \/ \E t \in EventLoops : \/ HandleEvent(t) \/ Return(t) \/ YieldRead(t) \/ Exit(t)
                           \/ BeginUpgrade(t) \/ TryWriteable(t)
  \/ Stopped

(***************************************************************************)
(* Threads run on, handlers return, and epoll rotates its ready list, so a *)
(* notification that stays triggered reaches every worker that keeps       *)
(* coming back for events.  No fairness makes a worker begin an upgrade.   *)
(***************************************************************************)
LockFairness ==
  /\ \A t \in Threads : /\ WF_devLockVars(ReadLock(t))
                        /\ WF_devLockVars(ReadEnter(t))
                        /\ WF_devLockVars(Visit(t))
  /\ \A t \in EventLoops : /\ WF_devLockVars(Return(t))
                           /\ WF_devLockVars(TryWriteable(t))
                           /\ SF_devLockVars(YieldRead(t))
                           /\ SF_devLockVars(Exit(t))

LockSpec == LockInit /\ [][LockNext]_devLockVars
FairLockSpec == LockSpec /\ LockFairness

-----------------------------------------------------------------------------
Places ==
  {"out", "parked_read", "entering", "visit", "wait", "handler",
   "parked_write", "awoken"} \cup IntentStages \cup Gone

LockTypeOK ==
  /\ pc \in [Threads -> Places]
  /\ wants_write \in BOOLEAN
  /\ mutex \in Threads \cup {Nobody}
  /\ readers \subseteq Threads
  /\ writer \in Threads \cup {Nobody}
  /\ yield_notice \in BOOLEAN
  /\ exit_notice \in BOOLEAN
  /\ version \in Nat
  /\ seen \in [Threads -> Nat]
  /\ begun \in Nat
  /\ visits \in [Threads -> Nat]
  /\ \A t \in Threads : pc[t] = "visit" => visits[t] > 0

Intends(t) == pc[t] \in IntentStages

\* wants_write is raised exactly while one try_writeable has an intent of its
\* own: two upgrades never overlap, and one that panics leaves none behind.
IntentOwned ==
  /\ wants_write <=> \E t \in Threads : Intends(t)
  /\ \A t, u \in Threads : Intends(t) /\ Intends(u) => t = u

\* What prep_func saw is what mut_func changes: nobody changes the device
\* between them, although the read lock is given up in between.
NoChangeSincePrep ==
  \A t \in Threads : pc[t] \in {"upgrading", "mutating"} => seen[t] = version

\* Lock::read never blocks in inner.read() with the mutex locked: had it to
\* wait there for a writer, that writer could not lower its intent.
EntryNeverBlocks == \A t \in Threads : pc[t] = "entering" => CanRead

\* A try_writeable that has been begun ends, whatever the other workers do:
\* they yield their read locks, and nobody keeps the intent.
UpgradeEnds ==
  \A t \in EventLoops :
    pc[t] \in IntentStages \cup {"parked_write", "awoken"} ~>
      pc[t] \in {"handler", "dead"}

\* The drop of the handle gets its two reads, and then every worker ends.
ShutdownCompletes == <>(\A t \in Threads : pc[t] \in Gone)

\* Nobody waits for ever: not a worker for the write lock, nor the owner of the
\* handle for the workers.
NobodyWaitsForever == UpgradeEnds /\ ShutdownCompletes
=============================================================================
