----------------------------- MODULE TunnTimers -----------------------------
(***************************************************************************)
(* What one tunnel's calls do to its timers, its pre-handshake burst and   *)
(* its queue (noise/timers.rs, noise/mod.rs Tunn): update_timers whole,    *)
(* writing, draining, receiving, and live changes of configuration, with   *)
(* outputs that may not fit the caller's buffer or budget.                 *)
(*                                                                         *)
(* Tunnel models the ring of sessions and the peer; here there is one      *)
(* current session, perhaps the newest one the peer has yet to confirm,    *)
(* and a peer that may send anything.  A stamp is kept as its real age, up *)
(* to the last age that matters; -1 is None.  TimeCurrent lags behind the  *)
(* real clock between ticks, and what is stamped in between is stamped     *)
(* with the lag.                                                           *)
(***************************************************************************)
EXTENDS Integers, FiniteSets

CONSTANTS
  Keepalive, NewHandshake, Retransmit,   \* deadlines, in ticks of the clock
  RekeyAfter, RefreshReceive, Reject, Window,
  MaxRetransmissions,
  MaxQueue,         \* MAX_QUEUE_DEPTH
  Delay,            \* between datagrams of a burst
  Configs,          \* datagrams and junk of a burst, and whether timers are tuned
  Intervals,        \* persistent keepalive ranges
  MaxLag,           \* bound: ticks of the clock between two polls
  MaxSessions,      \* bound: sessions established
  MaxChanges        \* bound: changes of key, obfuscation or interval

Off == <<0, 0>>
Zero == 3 * Reject
Ends == {i[2] : i \in Intervals} \cup {MaxLag}
Longest(S) == CHOOSE m \in S : \A n \in S : n <= m
MaxInterval == Longest(Ends)

ASSUME TimersAssumption ==
  /\ {Keepalive, NewHandshake, Retransmit, RekeyAfter, RefreshReceive, Reject,
      Window, MaxRetransmissions, MaxQueue, Delay, MaxLag, MaxSessions,
      MaxChanges} \subseteq Nat
  /\ MaxLag <= Keepalive /\ Keepalive <= Zero /\ NewHandshake <= Zero /\ Window <= Zero
  /\ Configs \subseteq [grams: Nat, junk: Nat, tuned: BOOLEAN]
  /\ Off \in Intervals /\ Intervals \subseteq Nat \X Nat
  /\ \E m \in Ends : \A n \in Ends : n <= m

VARIABLES
  tun,       \* the tunnel; its field unmet is a history: a persistent keepalive fell
             \* due and nothing authenticated has gone out since
  flush,     \* the caller has been told to drain the queue and has not been told it is done
  cycle,     \* history: age of the first output since the tunnel expired, until a session, or -1
  made, changes,
  roomy      \* the caller's buffers and budget are large enough for anything

vars == <<tun, flush, cycle, made, changes, roomy>>

NoBurst == [grams |-> -1, junk |-> 0, last |-> -1, owed |-> FALSE]

Init ==
  /\ tun \in [hs: {"None"}, hsAge: {0}, previous: {FALSE}, session: {"none"}, sess: {0},
              spare: {-1}, initiator: {FALSE}, est: {0}, started: {0},
              sent: {FALSE}, recv: {FALSE}, ka: {-1}, nh: {-1}, pk: {0}, lag: {0},
              range: Intervals, interval: 0..MaxInterval, due: BOOLEAN, unmet: BOOLEAN,
              attempts: {0}, queue: {0}, burst: {NoBurst}, cfg: Configs]
  /\ tun.range[1] = tun.range[2] /\ tun.interval = tun.range[1]
  /\ tun.due = (tun.range # Off) /\ tun.unmet = tun.due
  /\ flush = FALSE /\ cycle = -1 /\ made = 0 /\ changes = 0
  /\ roomy \in BOOLEAN

Least(a, b) == IF a <= b THEN a ELSE b
Done(t) == [t |-> t, out |-> "done"]
Net(t) == [t |-> t, out |-> "net"]
Err(t) == [t |-> t, out |-> "err"]       \* the buffer or the budget is too small
Full(t) == [t |-> t, out |-> "full"]     \* PacketQueueFull
Dead(t) == [t |-> t, out |-> "expired"]  \* ConnectionExpired

(***************************************************************************)
(* timer_tick.  d says which end of the range the keepalive draws.         *)
(***************************************************************************)
\* rearm_persistent_keepalive: a fixed interval draws nothing.
Draws == IF tun.range[1] = tun.range[2] THEN {TRUE} ELSE BOOLEAN
Draw(t, d) == IF d THEN t.range[2] ELSE t.range[1]

TickReceived(t, d) == [t EXCEPT !.nh = -1, !.pk = t.lag, !.interval = Draw(t, d)]

TickSent(t, d) ==
  [t EXCEPT !.ka = -1, !.pk = t.lag, !.interval = Draw(t, d), !.due = FALSE,
            !.unmet = FALSE]

TickDataReceived(t) ==
  [t EXCEPT !.ka = IF @ = -1 THEN t.lag ELSE @, !.recv = t.est > t.lag]

TickDataSent(t) ==
  [t EXCEPT !.nh = IF @ = -1 THEN t.lag ELSE @, !.sent = t.est > t.lag]

\* timer_tick_session_established
Established(t, initiator) ==
  [t EXCEPT !.est = t.lag, !.sent = FALSE, !.recv = FALSE, !.initiator = initiator,
            !.burst = NoBurst]

\* TimeCurrent is left behind: what is stamped next is older than the cycle.
ClearTimersNotCurrent(t) ==
  [t EXCEPT !.est = 0, !.started = 0, !.pk = 0, !.sent = FALSE, !.recv = FALSE,
            !.ka = -1, !.nh = -1]

\* Timers::clear: every stamp, TimeCurrent among them, is now.
ClearTimers(t) ==
  [t EXCEPT !.est = 0, !.started = 0, !.pk = 0, !.sent = FALSE, !.recv = FALSE,
            !.ka = -1, !.nh = -1, !.lag = 0]

(***************************************************************************)
(* The initiation, and the burst of datagrams that may go before it.       *)
(***************************************************************************)
InitiationNow(t, fits, d, force, reset) ==
  IF t.hs = "InitSent" /\ ~force THEN Done(t)
  ELSE IF ~fits THEN Err(t)
  ELSE LET u == IF reset /\ t.hs = "Expired" THEN ClearTimers(t) ELSE t
           first == u.hs # "InitSent"
       IN  Net(TickSent([u EXCEPT
                 !.hs = "InitSent", !.hsAge = 0, !.previous = ~first,
                 !.attempts = IF first THEN 0 ELSE Least(@ + 1, MaxRetransmissions),
                 !.started = IF first THEN u.lag ELSE @], d))

Burst(c, last, owed) == [grams |-> c.grams, junk |-> c.junk, last |-> last, owed |-> owed]
Emits(c) == c.grams + c.junk > 0

OwesExpiredReset(t) == t.hs = "Expired" /\ t.burst # NoBurst /\ t.burst.owed

\* reset_expired_timers_on_first_emit
FirstEmit(t) ==
  LET u == IF t.burst.owed /\ t.hs = "Expired" THEN ClearTimers(t) ELSE t
  IN  [u EXCEPT !.burst = [t.burst EXCEPT !.owed = FALSE]]

\* The first datagram of an imitation sequence is due at once.
Waits(t) ==
  /\ t.burst.last # -1 /\ t.burst.last < Delay
  /\ ~(t.burst.grams > 0 /\ t.burst.grams = t.cfg.grams)

Advance(t, fits, d) ==
  LET u == FirstEmit(t) IN
  IF Waits(t) THEN Done(t)
  ELSE IF t.burst.grams > 0
       THEN IF ~fits THEN Err(t)
            ELSE Net([u EXCEPT !.burst = [u.burst EXCEPT
                        !.grams = @ - 1, !.last = IF t.burst.grams = 1 THEN -1 ELSE 0]])
  ELSE IF t.burst.junk = 0
       THEN LET r == InitiationNow(t, fits, d, TRUE, t.burst.owed)
            IN  IF r.out = "net" THEN Net([r.t EXCEPT !.burst = NoBurst]) ELSE r
  ELSE IF ~fits THEN Err(t)
  ELSE Net([u EXCEPT !.burst = [u.burst EXCEPT !.junk = @ - 1, !.last = 0]])

Format(t, fits, d, force) ==
  IF t.burst # NoBurst THEN Advance(t, fits, d)
  ELSE IF t.hs = "InitSent" /\ ~force THEN Done(t)
  ELSE IF Emits(t.cfg)
       THEN Advance([t EXCEPT !.burst = Burst(t.cfg, -1, t.hs = "Expired")], fits, d)
  ELSE InitiationNow(t, fits, d, force, t.hs = "Expired")

(***************************************************************************)
(* encapsulate and the queue.                                              *)
(***************************************************************************)
OnSession(t, fits, d, data) ==
  IF ~fits THEN Err(t)
  ELSE Net(IF data THEN TickDataSent(TickSent(t, d)) ELSE TickSent(t, d))

Admit(t, fits, d) ==
  IF t.queue = MaxQueue THEN Full(t)
  ELSE LET r == Format(t, fits, d, FALSE)
       IN  IF r.out = "err" THEN r ELSE [r EXCEPT !.t = [r.t EXCEPT !.queue = @ + 1]]

Encapsulate(t, fits, d, data) ==
  IF t.session = "live" THEN OnSession(t, fits, d, data) ELSE Admit(t, fits, d)

\* drop: heads over a finite transport budget, which are deleted on the way.
SendQueued(t, fits, d, data, drop) ==
  IF t.queue = 0 THEN Done(t)
  ELSE IF t.session # "live" THEN Format(t, fits, d, FALSE)
  ELSE IF drop = t.queue THEN Done([t EXCEPT !.queue = 0])
  ELSE LET u == [t EXCEPT !.queue = @ - drop]
           r == OnSession(u, fits, d, data)
       IN  IF r.out = "err" THEN r ELSE [r EXCEPT !.t = [r.t EXCEPT !.queue = @ - 1]]

(***************************************************************************)
(* update_timers.                                                          *)
(***************************************************************************)
SessionTimers(t) ==
  [t EXCEPT !.session = IF t.sess > Reject THEN "none" ELSE @,
            !.sess = IF @ > Reject THEN 0 ELSE @,
            !.spare = IF @ > Reject THEN -1 ELSE @]

PastBounds(t) ==
  t.est >= Zero \/ (t.hs = "InitSent" /\ ~t.cfg.tuned /\ t.started >= Window)

\* set_expired and clear_all
Expire(t) ==
  Dead(ClearTimers([t EXCEPT !.hs = "Expired", !.previous = FALSE, !.session = "none",
                             !.spare = -1, !.queue = 0, !.burst = NoBurst]))

\* Only the passive latch is given back.
SendKeepaliveForgets(t, was, fits, d) ==
  LET r == Encapsulate(t, fits, d, FALSE)
  IN  IF r.out = "err" THEN Err([r.t EXCEPT !.ka = was.ka]) ELSE r

\* was: the tunnel on entry to update_timers, whose demands a refusal gives back.
SendKeepalive(t, was, fits, d) ==
  LET r == Encapsulate(t, fits, d, FALSE)
  IN  IF r.out = "err"
      THEN Err([r.t EXCEPT !.due = was.due, !.pk = was.pk, !.ka = was.ka,
                           !.interval = was.interval])
      ELSE r

Persistent(t) == t.range # Off /\ (t.due \/ t.pk >= t.interval)

DemandHandshake(t, fits, d) ==
  LET latched == t.nh >= NewHandshake
      r == Format([t EXCEPT !.nh = IF latched THEN -1 ELSE @], fits, d, TRUE)
  IN  IF latched /\ r.out = "err" /\ r.t.burst = NoBurst THEN Err([r.t EXCEPT !.nh = t.nh])
      ELSE r

IdleDemands(t, was, fits, d) ==
  LET passive == t.ka >= Keepalive
      rekey == t.initiator /\ (\/ t.sent /\ t.est >= RekeyAfter
                               \/ t.recv /\ t.est >= RefreshReceive)
      spent == [t EXCEPT !.ka = IF passive THEN -1 ELSE @,
                         !.due = @ /\ ~Persistent(t),
                         !.pk = IF Persistent(t) THEN 0 ELSE @]
  IN  IF rekey \/ t.nh >= NewHandshake THEN DemandHandshake(t, fits, d)
      ELSE IF passive \/ Persistent(t) THEN SendKeepalive(spent, was, fits, d)
      ELSE Done(t)

\* Nothing but an owed persistent keepalive restarts an expired cycle.
ExpiredDemand(t, was, fits, d) ==
  IF t.range = Off \/ ~t.due THEN Dead(t)
  ELSE SendKeepalive([t EXCEPT !.due = FALSE, !.pk = 0], was, fits, d)

\* The burst is served before the absolute bounds.
ServeBurstFirst(t, fits, d) == Advance(t, fits, d)

\* The bounds come first, except for a burst that restarts an expired cycle.
ServeBurst(t, fits, d) ==
  IF ~OwesExpiredReset(t) /\ PastBounds(t) THEN Expire(t) ELSE Advance(t, fits, d)

Retransmission(t, fits, d) ==
  IF t.hsAge < Retransmit THEN Done(t)
  ELSE IF t.attempts >= MaxRetransmissions THEN Expire(t)
  ELSE Format(t, fits, d, TRUE)

UpdateTimers(was, fits, d) ==
  LET t == SessionTimers([was EXCEPT !.lag = 0])
  IN  CASE t.burst # NoBurst -> ServeBurst(t, fits, d)
        [] t.burst = NoBurst /\ t.hs = "Expired" -> ExpiredDemand(t, was, fits, d)
        [] t.burst = NoBurst /\ t.hs # "Expired" ->
             IF PastBounds(t) THEN Expire(t)
             ELSE IF t.hs = "InitSent" THEN Retransmission(t, fits, d)
             ELSE IdleDemands(t, was, fits, d)

(***************************************************************************)
(* The calls.                                                              *)
(***************************************************************************)
Returns(r) ==
  /\ tun' = r.t
  /\ cycle' = IF r.t.hs = "Expired" /\ r.out = "expired" THEN -1
              ELSE IF tun.hs = "Expired" /\ cycle = -1 /\ r.out = "net" THEN 0
              ELSE cycle

Tick(fits, d) == Returns(UpdateTimers(tun, fits, d)) /\ UNCHANGED <<flush, made, changes>>

Write(fits, d) ==
  Returns(Encapsulate(tun, fits, d, TRUE)) /\ UNCHANGED <<flush, made, changes>>

Drain(fits, d, data, drop) ==
  LET r == SendQueued(tun, fits, d, data, drop)
  IN  Returns(r) /\ flush' = (flush /\ r.out # "done") /\ UNCHANGED <<made, changes>>

Initiate(fits, d, force) ==
  Returns(Format(tun, fits, d, force)) /\ UNCHANGED <<flush, made, changes>>

\* An answer that does not fit is refused before anything is authenticated.
ReceiveInitiation(d) ==
  /\ made < MaxSessions
  /\ made' = made + 1
  /\ tun' = [Established(TickSent(TickReceived(tun, d), d), FALSE) EXCEPT
               !.hs = "None", !.previous = (tun.hs = "InitSent"), !.spare = tun.lag]
  /\ flush' = TRUE /\ cycle' = -1
  /\ UNCHANGED changes

ReceiveResponse(d) ==
  /\ made < MaxSessions
  /\ made' = made + 1
  /\ \/ tun.hs = "InitSent"
        /\ tun' = [TickSent(Established(TickReceived(tun, d), TRUE), d) EXCEPT
                     !.hs = "None", !.session = "live", !.sess = tun.lag]
     \/ tun.previous
        /\ tun' = [TickSent(Established(TickReceived(tun, d), TRUE), d) EXCEPT
                     !.previous = FALSE, !.session = "live", !.sess = tun.lag]
  /\ flush' = TRUE /\ cycle' = -1
  /\ UNCHANGED changes

\* On the current session, or on the spare one, which becomes current unless it is older.
ReceiveData(d, data, onSpare) ==
  LET t == IF data THEN TickDataReceived(TickReceived(tun, d)) ELSE TickReceived(tun, d)
      selects == onSpare /\ (tun.session = "none" \/ tun.spare <= tun.sess)
  IN  /\ IF onSpare THEN tun.spare # -1 ELSE tun.session # "none"
      /\ tun' = IF selects
                THEN [t EXCEPT !.session = "live", !.sess = tun.spare, !.spare = -1]
                ELSE t
      /\ UNCHANGED <<flush, cycle, made, changes>>

\* The session's nonces run out.
Exhaust ==
  /\ tun.session = "live"
  /\ tun' = [tun EXCEPT !.session = "spent"]
  /\ UNCHANGED <<flush, cycle, made, changes>>

\* set_static_private and set_preshared_key.
SetKey ==
  /\ changes < MaxChanges
  /\ changes' = changes + 1
  /\ tun' = [tun EXCEPT !.session = "none", !.spare = -1]
  /\ UNCHANGED <<flush, cycle, made>>

\* A burst the new settings would not send is dropped.
RestartBurstDrops(t, c) ==
  IF t.burst = NoBurst \/ ~Emits(c) THEN NoBurst ELSE Burst(c, t.burst.last, t.burst.owed)

\* restart_pending_burst: never without a burst it had.
RestartBurst(t, c) ==
  IF t.burst = NoBurst THEN NoBurst ELSE Burst(c, t.burst.last, t.burst.owed)

SetObfuscation(c) ==
  /\ changes < MaxChanges
  /\ changes' = changes + 1
  /\ tun' = [tun EXCEPT !.cfg = c,
               !.burst = IF <<c.grams, c.junk>> # <<tun.cfg.grams, tun.cfg.junk>>
                         THEN RestartBurst(tun, c) ELSE @]
  /\ UNCHANGED <<flush, cycle, made>>

SetPersistentKeepalive(range, d) ==
  /\ changes < MaxChanges /\ range # tun.range
  /\ changes' = changes + 1
  /\ tun' = [tun EXCEPT !.range = range, !.interval = IF d THEN range[2] ELSE range[1],
               !.due = IF range = Off THEN FALSE ELSE @ \/ tun.range = Off,
               !.unmet = IF range = Off THEN FALSE ELSE @ \/ tun.range = Off]
  /\ UNCHANGED <<flush, cycle, made>>

Aged(age, cap) == IF age = -1 THEN -1 ELSE Least(age + 1, cap)

\* The clock moves on, between two calls.
Pass ==
  /\ tun.lag < MaxLag
  /\ tun' = [tun EXCEPT
       !.lag = @ + 1, !.sess = Least(@ + 1, Reject + 1),
       !.hsAge = IF tun.hs = "InitSent" THEN Least(@ + 1, Retransmit) ELSE 0,
       !.est = Least(@ + 1, Zero), !.started = Least(@ + 1, Window),
       !.pk = Least(@ + 1, MaxInterval), !.ka = Aged(@, Keepalive), !.nh = Aged(@, NewHandshake),
       !.spare = Aged(@, Reject + 1), !.burst = [tun.burst EXCEPT !.last = Aged(@, Delay)]]
  /\ cycle' = Aged(cycle, Zero)
  /\ UNCHANGED <<flush, made, changes>>

Fits == IF roomy THEN {TRUE} ELSE BOOLEAN
Ticks == \E fits \in Fits, d \in Draws : Tick(fits, d)

Calls ==
  \/ Ticks
  \/ \E fits \in Fits, d \in Draws :
       \/ Write(fits, d)
       \/ \E force \in BOOLEAN : Initiate(fits, d, force)
       \/ \E data \in BOOLEAN, drop \in 0..MaxQueue :
            drop <= tun.queue /\ Drain(fits, d, data, drop)
  \/ \E d \in Draws :
       \/ ReceiveInitiation(d) \/ ReceiveResponse(d)
       \/ \E data, onSpare \in BOOLEAN : ReceiveData(d, data, onSpare)
  \/ \E range \in Intervals, d \in BOOLEAN : SetPersistentKeepalive(range, d)
  \/ Exhaust \/ SetKey \/ Pass
  \/ \E c \in Configs : SetObfuscation(c)

Next == Calls /\ UNCHANGED roomy

(***************************************************************************)
(* The clock runs and the caller keeps calling update_timers; whether what *)
(* it produces fits is not promised.                                       *)
(***************************************************************************)
Fairness ==
  WF_vars(Pass /\ UNCHANGED roomy) /\ WF_vars(Ticks /\ UNCHANGED roomy)
Spec == Init /\ [][Next]_vars /\ Fairness

(***************************************************************************)
(* What the code promises.                                                 *)
(***************************************************************************)
\* A tick whose output does not fit gives back what selecting it spent
\* (update_timers_with_budget): the passive latch, the owed keepalive, the stamp and
\* the interval of the persistent one, and the new-handshake latch unless a burst
\* now carries that initiation; and it queues nothing.
RefusedTickSpendsNothing ==
  \A fits \in BOOLEAN, d \in Draws :
    LET r == UpdateTimers(tun, fits, d)
    IN  r.out = "err" =>
          /\ <<r.t.ka, r.t.due, r.t.pk, r.t.interval>> = <<tun.ka, tun.due, tun.pk, tun.interval>>
          /\ r.t.nh = tun.nh \/ r.t.burst # NoBurst
          /\ r.t.queue = tun.queue

\* A packet in the queue has something that will send it or give it up, also once a
\* session is there that it could go out on: an initiation in flight, a burst still to
\* end in one, or a drain the caller was told to make.  The burst is the only record of
\* its initiation (set_obfuscation), whatever changes meanwhile.
QueuedHasDriver ==
  tun.queue > 0 => tun.hs = "InitSent" \/ tun.burst # NoBurst \/ flush

\* A cycle that restarts an expired tunnel is measured from its own first output:
\* neither absolute bound counts time from before it
\* (reset_expired_timers_on_first_emit, Timers::clear).
BoundsMeasureTheCycle ==
  cycle # -1 => tun.est <= cycle /\ (tun.hs = "InitSent" => tun.started <= cycle)

\* No packet is held forever, even if no output ever fits again: the absolute bounds
\* come before a burst that cannot be sent (update_timers).
QueueEmpties == tun.queue > 0 ~> tun.queue = 0

\* Expired with nothing left to restart it: "an interval that was already on owes
\* nothing and stays expired" (update_timers).
GivenUp == tun.hs = "Expired" /\ tun.burst = NoBurst /\ ~tun.due

\* With a caller whose buffers do fit, a persistent keepalive that fell due is followed
\* by an authenticated send, itself or another, whatever state the tunnel is in, expired
\* included.  Neither way of spending the demand without a send loses it: queued behind
\* a burst it goes out with the initiation, and where the queue is full, which
\* send_keepalive does not roll back, the initiation the queue waits for answers it.
\* Only the tunnel's own expiry, which drops the queue and the burst, ends it unsent.
DueServed == roomy /\ tun.unmet ~> ~tun.unmet \/ GivenUp

\* Nothing waits for ever: the queue empties or is given up, and a keepalive that fell
\* due is answered by a send unless the tunnel expires first (update_timers).
DemandsAreServed == QueueEmpties /\ DueServed
=============================================================================
