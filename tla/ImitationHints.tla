--------------------------- MODULE ImitationHints ---------------------------
(***************************************************************************)
(* The listener's table of camouflage evidence                             *)
(* (device/imitation_auto.rs): which protocol a source address was last    *)
(* seen to imitate, kept until an authenticated initiation from that       *)
(* address adopts it.                                                      *)
(*                                                                         *)
(* Every worker runs the listener handler under the device read lock and   *)
(* takes the table's mutex for each call, so a call is one step and the    *)
(* steps between two calls interleave.  A datagram is detected before the  *)
(* mutex is taken: a worker may be descheduled in between.                 *)
(***************************************************************************)
EXTENDS Integers, Sequences, Functions

CONSTANTS
  Workers,       \* threads inside the listener handler
  Sources,       \* UDP source addresses
  Protocols,     \* what detect can recognise
  NoProtocol,    \* detect's None, and the table's
  MaxHints,      \* MAX_HINTS
  Lifetime,      \* HINT_LIFETIME, in ticks
  MaxNow         \* bound: ticks of the clock

VARIABLES
  by_source,     \* Pending::by_source: a function on the sources it holds
  order,         \* Pending::order
  now,           \* the monotonic clock
  job            \* what each worker is doing with its datagram

vars == <<by_source, order, now, job>>

Idle == [at |-> "idle"]
Init ==
  /\ by_source = << >> /\ order = << >>
  /\ now = 0 /\ job = [w \in Workers |-> Idle]

IsLive(hint) == now - hint.received < Lifetime

(***************************************************************************)
(* expire: the front of order is popped while its hint is not live.  It    *)
(* indexes the map by every front it looks at, so a front the map does     *)
(* not hold is a panic.                                                    *)
(***************************************************************************)
Dead ==
  {k \in 0..Len(order) :
     /\ \A i \in 1..k : ~IsLive(by_source[order[i]])
     /\ k < Len(order) => IsLive(by_source[order[k + 1]])}

KeptOrder(k) == SubSeq(order, k + 1, Len(order))
Forget(map, gone) == [s \in DOMAIN map \ gone |-> map[s]]
KeptMap(k) == Forget(by_source, {order[i] : i \in 1..k})

(***************************************************************************)
(* The two doors: classify, for a datagram of no WireGuard shape, and      *)
(* observe_refused, for one whose readings were all refused.  Detection    *)
(* happens before the mutex.                                               *)
(***************************************************************************)
Detect(w, source, protocol) ==
  /\ job[w] = Idle
  /\ job' = [job EXCEPT ![w] =
               [at |-> "detected", source |-> source, protocol |-> protocol, seen |-> now]]
  /\ UNCHANGED <<by_source, order, now>>

Enter(k, source, hint) ==
  IF source \in DOMAIN KeptMap(k)
  THEN order' = KeptOrder(k) /\ by_source' = KeptMap(k)
  ELSE LET full == Len(KeptOrder(k)) = MaxHints
           o == IF full THEN Tail(KeptOrder(k)) ELSE KeptOrder(k)
           m == IF full THEN Forget(KeptMap(k), {Head(KeptOrder(k))}) ELSE KeptMap(k)
       IN  /\ order' = Append(o, source)
           /\ by_source' = [s \in DOMAIN m \cup {source} |->
                              IF s = source THEN hint ELSE m[s]]

\* The hint keeps the time it was detected at, before the mutex.
ObserveStampedEarly(w) ==
  /\ job[w].at = "detected"
  /\ \E k \in Dead :
       Enter(k, job[w].source, [protocol |-> job[w].protocol, received |-> job[w].seen])
  /\ job' = [job EXCEPT ![w] = Idle]
  /\ UNCHANGED now

Observe(w) ==
  /\ job[w].at = "detected"
  /\ \E k \in Dead :
       Enter(k, job[w].source, [protocol |-> job[w].protocol, received |-> now])
  /\ job' = [job EXCEPT ![w] = Idle]
  /\ UNCHANGED now

(***************************************************************************)
(* get, for an authenticated initiation in Auto mode or a cookie reply.    *)
(***************************************************************************)
Get(w, source) ==
  /\ job[w] = Idle
  /\ \E k \in Dead :
       /\ order' = KeptOrder(k) /\ by_source' = KeptMap(k)
       /\ job' = [job EXCEPT ![w] =
            IF source \in DOMAIN KeptMap(k)
            THEN [at |-> "answered", source |-> source,
                  protocol |-> KeptMap(k)[source].protocol,
                  age |-> now - KeptMap(k)[source].received]
            ELSE [at |-> "answered", source |-> source,
                  protocol |-> NoProtocol, age |-> 0]]
  /\ UNCHANGED now

(***************************************************************************)
(* discard, once the peer's tunnel has a protocol of its own, whether or   *)
(* not it adopted this hint; otherwise, and after a cookie reply or a      *)
(* refused commit, the hint stays.                                         *)
(***************************************************************************)
\* The places retain leaves, in their order.
Retained(source) ==
  {places \in UNION {[1..n -> DOMAIN order] : n \in 0..Len(order)} :
     /\ Range(places) = {i \in DOMAIN order : order[i] # source}
     /\ \A i, j \in DOMAIN places : i < j => places[i] < places[j]}

Discard(w) ==
  /\ job[w].at = "answered"
  /\ by_source' = Forget(by_source, {job[w].source})
  /\ IF job[w].source \in DOMAIN by_source
     THEN \E places \in Retained(job[w].source) :
            order' = [i \in DOMAIN places |-> order[places[i]]]
     ELSE order' = order
  /\ job' = [job EXCEPT ![w] = Idle]
  /\ UNCHANGED now

KeepHint(w) ==
  /\ job[w].at = "answered"
  /\ job' = [job EXCEPT ![w] = Idle]
  /\ UNCHANGED <<by_source, order, now>>

(***************************************************************************)
(* clear: a new listen port, key or obfuscation, a removed peer, cleared   *)
(* peers.  The caller holds the device for writing, so no worker is in     *)
(* its handler.                                                            *)
(***************************************************************************)
Clear ==
  /\ by_source # << >>
  /\ \A w \in Workers : job[w] = Idle
  /\ by_source' = << >> /\ order' = << >>
  /\ UNCHANGED <<now, job>>

Tick ==
  /\ now < MaxNow
  /\ now' = now + 1
  /\ UNCHANGED <<by_source, order, job>>

Next ==
  \/ \E w \in Workers, s \in Sources :
       \/ \E p \in Protocols : Detect(w, s, p)
       \/ Get(w, s)
  \/ \E w \in Workers : Observe(w) \/ Discard(w) \/ KeepHint(w)
  \/ Clear \/ Tick

Spec == Init /\ [][Next]_vars

-----------------------------------------------------------------------------
(***************************************************************************)
(* The map and the order name the same sources, each once, and never more  *)
(* than MaxHints.  expire indexes the map by the front of the order        *)
(* (imitation_auto.rs:32), which panics on a source the map has lost, and  *)
(* the bound is tested on the order alone.                                 *)
(***************************************************************************)
OrderMatchesMap ==
  /\ Range(order) = DOMAIN by_source
  /\ IsInjective(order)
  /\ Len(order) <= MaxHints

(***************************************************************************)
(* No worker is handed evidence older than the lifetime.  expire looks     *)
(* only at the front, so this needs the order to be by age, however long   *)
(* a worker was descheduled between detecting and entering its hint.       *)
(***************************************************************************)
AnswersAreLive ==
  \A w \in Workers :
    job[w].at = "answered" /\ job[w].protocol # NoProtocol => job[w].age < Lifetime

\* Both.
HintsAreLive == OrderMatchesMap /\ AnswersAreLive
=============================================================================
