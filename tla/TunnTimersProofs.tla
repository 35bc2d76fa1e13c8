-------------------------- MODULE TunnTimersProofs --------------------------
(***************************************************************************)
(* Proofs about one tunnel's timers, burst and queue, for any deadlines,   *)
(* intervals and configurations.  Every call returns the tunnel it made    *)
(* and an output; Holds says what is true of a tunnel between calls, and   *)
(* the lemmas that each part of a call keeps it.                           *)
(***************************************************************************)
EXTENDS TunnTimers, TLAPS

Age == Nat \cup {-1}
Pending == [grams: Nat, junk: Nat, last: Age, owed: BOOLEAN]

Tunnels ==
  [hs: {"None", "InitSent", "Expired"}, hsAge: Nat, previous: BOOLEAN,
   session: {"none", "live", "spent"}, sess: Nat, spare: Age, initiator: BOOLEAN,
   est: Nat, started: Nat, sent: BOOLEAN, recv: BOOLEAN, ka: Age, nh: Age, pk: Nat,
   lag: 0..MaxLag, range: Intervals, interval: Nat, due: BOOLEAN, unmet: BOOLEAN, attempts: Nat,
   queue: Nat, burst: Pending \cup {NoBurst}, cfg: Configs]

\* What brings a session up: an initiation in flight, or a burst that ends in one.
Drives(t) == t.hs = "InitSent" \/ t.burst # NoBurst

\* The first output of an expired tunnel resets its timers.
Owing(t) == t.burst = NoBurst \/ t.burst.owed

(***************************************************************************)
(* A tunnel t, in a cycle of age c, whose caller is to drain it or not.    *)
(* The clock it stamps with is no older than the cycle; an expired tunnel  *)
(* has no sessions, and owes the reset until its first output.             *)
(***************************************************************************)
Holds(t, c, told) ==
  /\ t \in Tunnels /\ c \in Age /\ told \in BOOLEAN
  /\ c # -1 => /\ t.lag <= c /\ t.est <= c
               /\ t.hs = "InitSent" => t.started <= c
  /\ t.hs = "Expired" => t.session = "none" /\ t.spare = -1 /\ ~t.previous
  /\ t.hs = "Expired" /\ c = -1 => Owing(t)
  /\ t.queue > 0 => Drives(t) \/ told

\* The age of the cycle after a call on t returned r.
After(t, c, r) ==
  IF r.t.hs = "Expired" /\ r.out = "expired" THEN -1
  ELSE IF t.hs = "Expired" /\ c = -1 /\ r.out = "net" THEN 0
  ELSE c

\* A refusal leaves the latches, the keepalive and the queue alone.
Spares(t, u) ==
  /\ u.ka = t.ka /\ u.nh = t.nh /\ u.pk = t.pk /\ u.interval = t.interval
  /\ (u.due <=> t.due) /\ u.queue = t.queue

\* What a call that may send a handshake returns.
Answers(t, c, told, r) ==
  /\ r = [t |-> r.t, out |-> r.out] /\ r.out \in {"done", "net", "err"}
  /\ Holds(r.t, After(t, c, r), told)
  /\ r.out # "err" => Drives(r.t)
  /\ r.out = "err" => Spares(t, r.t)

\* Nothing but stamps, latches and the keepalive changed.
Alike(t, u) ==
  /\ u.hs = t.hs /\ u.session = t.session /\ u.spare = t.spare /\ (u.previous <=> t.previous)
  /\ u.queue = t.queue /\ u.burst = t.burst /\ u.range = t.range /\ u.cfg = t.cfg

TimersInv == Holds(tun, cycle, flush)

-----------------------------------------------------------------------------
\* The two marks on a configuration's range.
LEMMA Drawn ==
  ASSUME NEW t \in Tunnels, NEW d \in BOOLEAN
  PROVE  Draw(t, d) \in Nat
<1>1. t.range \in Nat \X Nat
  BY TimersAssumption DEF Tunnels
<1>2. QED
  BY <1>1 DEF Draw

LEMMA Stamps == -1 \in Age /\ 0 \in Age /\ 0 \in 0..MaxLag /\ \A n \in 0..MaxLag : n \in Nat /\ n \in Age
BY TimersAssumption DEF Age

\* Every stamp is now.
LEMMA Cleared ==
  ASSUME NEW t \in Tunnels
  PROVE  /\ ClearTimers(t) \in Tunnels
         /\ ClearTimers(t).est = 0 /\ ClearTimers(t).lag = 0 /\ ClearTimers(t).started = 0
         /\ Alike(t, ClearTimers(t))
<1>1. ClearTimers(t) \in Tunnels
  BY Stamps, Zenon DEF ClearTimers, Tunnels
<1>2. QED
  BY <1>1 DEF ClearTimers, Tunnels, Alike


\* A packet goes out: the passive latch and the keepalive are served.
LEMMA Ticked ==
  ASSUME NEW t \in Tunnels, NEW d \in BOOLEAN
  PROVE  /\ TickSent(t, d) \in Tunnels
         /\ Alike(t, TickSent(t, d)) /\ TickSent(t, d).nh = t.nh
         /\ TickSent(t, d).est = t.est /\ TickSent(t, d).started = t.started /\ TickSent(t, d).lag = t.lag
<1>1. t.lag \in Nat
  BY Stamps DEF Tunnels
<1>2. TickSent(t, d) \in Tunnels
  BY <1>1, Drawn, Stamps, Zenon DEF TickSent, Tunnels
<1>3. QED
  BY <1>2 DEF TickSent, Tunnels, Alike

\* The initiation itself.
LEMMA InitiationAnswers ==
  ASSUME NEW t, NEW c, NEW told, Holds(t, c, told),
         NEW fits \in BOOLEAN, NEW d \in BOOLEAN, NEW force \in BOOLEAN, NEW reset \in BOOLEAN,
         t.hs = "Expired" /\ c = -1 => reset
  PROVE  Answers(t, c, told, InitiationNow(t, fits, d, force, reset))
<1> DEFINE r == InitiationNow(t, fits, d, force, reset)
           u == IF reset /\ t.hs = "Expired" THEN ClearTimers(t) ELSE t
           v == [u EXCEPT !.hs = "InitSent", !.hsAge = 0, !.previous = (u.hs = "InitSent"),
                          !.attempts = IF u.hs # "InitSent" THEN 0 ELSE Least(@ + 1, MaxRetransmissions),
                          !.started = IF u.hs # "InitSent" THEN u.lag ELSE @]
<1>1. t \in Tunnels
  BY DEF Holds
<1>2. CASE t.hs = "InitSent" /\ ~force
  <2>1. r = Done(t)
    BY <1>2 DEF InitiationNow
  <2>2. QED
    BY <1>2, <2>1 DEF Done, Answers, After, Holds, Drives
<1>3. CASE ~(t.hs = "InitSent" /\ ~force) /\ ~fits
  <2>1. r = Err(t)
    BY <1>3 DEF InitiationNow
  <2>2. QED
    BY <1>3, <2>1 DEF Err, Answers, After, Holds, Spares
<1>4. CASE ~(t.hs = "InitSent" /\ ~force) /\ fits
  <2>1. u \in Tunnels /\ Alike(t, u)
    BY <1>1, Cleared DEF Alike
  <2>2. /\ u.est \in {t.est, 0} /\ u.lag \in {t.lag, 0} /\ u.hs = t.hs
        /\ t.hs = "InitSent" => u.started = t.started
        /\ t.hs = "Expired" /\ c = -1 => u.est = 0 /\ u.lag = 0
    BY <1>1, Cleared DEF Alike
  <2> HIDE DEF u
  <2>3. /\ v \in Tunnels /\ v.hs = "InitSent" /\ v.est = u.est /\ v.lag = u.lag
        /\ v.started = IF u.hs # "InitSent" THEN u.lag ELSE u.started
        /\ v.queue = u.queue /\ v.burst = u.burst
    <3>1. u.attempts \in Nat /\ u.lag \in Nat /\ u.started \in Nat
      BY <2>1, Stamps DEF Tunnels
    <3>2. Least(u.attempts + 1, MaxRetransmissions) \in Nat
      BY <3>1, TimersAssumption DEF Least
    <3>3. v \in Tunnels
      BY <2>1, <3>1, <3>2, Zenon DEF Tunnels
    <3>4. QED
      BY <2>1, <3>3 DEF Tunnels
  <2>4. r = Net(TickSent(v, d))
    BY <1>4 DEF InitiationNow, u
  <2> HIDE DEF v
  <2>10. PICK w : w = TickSent(v, d)
    OBVIOUS
  <2>5. /\ w \in Tunnels /\ w.hs = "InitSent" /\ w.est = u.est /\ w.lag = u.lag
        /\ w.started = v.started /\ w.queue = u.queue
    BY <2>3, <2>10, Ticked, Zenon DEF Alike
  <2>6. r = [t |-> w, out |-> "net"] /\ After(t, c, r) = IF t.hs = "Expired" /\ c = -1 THEN 0 ELSE c
    BY <2>4, <2>5, <2>10 DEF Net, After
  <2>7. Holds(w, After(t, c, r), told)
    BY <2>1, <2>2, <2>3, <2>5, <2>6 DEF Holds, Tunnels, Drives, Age, Alike
  <2>8. QED
    BY <2>5, <2>6, <2>7 DEF Answers, Drives
<1>5. QED
  BY <1>2, <1>3, <1>4


LEMMA InitiationSent ==
  ASSUME NEW t \in Tunnels, NEW fits, NEW d, NEW force, NEW reset, NEW r,
         r = InitiationNow(t, fits, d, force, reset), r.out = "net"
  PROVE  r.t.hs = "InitSent"
<1> DEFINE u == IF reset /\ t.hs = "Expired" THEN ClearTimers(t) ELSE t
           v == [u EXCEPT !.hs = "InitSent", !.hsAge = 0, !.previous = (u.hs = "InitSent"),
                          !.attempts = IF u.hs # "InitSent" THEN 0 ELSE Least(@ + 1, MaxRetransmissions),
                          !.started = IF u.hs # "InitSent" THEN u.lag ELSE @]
<1>1. u \in Tunnels
  BY Cleared
<1>2. r = Net(TickSent(v, d))
  BY DEF InitiationNow, Done, Err
<1> HIDE DEF u
<1>3. TickSent(v, d).hs = "InitSent"
  BY <1>1 DEF TickSent, Tunnels
<1> HIDE DEF v
<1>4. QED
  BY <1>2, <1>3 DEF Net

LEMMA BurstsApart == \A b \in Pending : b # NoBurst
BY DEF Pending, NoBurst

\* A tunnel whose burst has become b.
LEMMA WithBurst ==
  ASSUME NEW t \in Tunnels, NEW b \in Pending \cup {NoBurst}
  PROVE  LET u == [t EXCEPT !.burst = b]
         IN  /\ u \in Tunnels /\ u.burst = b /\ u.hs = t.hs /\ u.session = t.session
             /\ u.spare = t.spare /\ (u.previous <=> t.previous) /\ u.queue = t.queue
             /\ u.est = t.est /\ u.lag = t.lag /\ u.started = t.started
<1> DEFINE u == [t EXCEPT !.burst = b]
<1>1. u \in Tunnels
  BY Zenon DEF Tunnels
<1>2. QED
  BY <1>1 DEF Tunnels

\* A datagram of the burst goes out.
LEMMA EmitAnswers ==
  ASSUME NEW t, NEW c, NEW told, Holds(t, c, told), t.burst \in Pending,
         NEW b \in Pending, NEW r, r = Net([FirstEmit(t) EXCEPT !.burst = b])
  PROVE  Answers(t, c, told, r)
<1> DEFINE u == IF t.burst.owed /\ t.hs = "Expired" THEN ClearTimers(t) ELSE t
<1>1. t \in Tunnels
  BY DEF Holds
<1>2. /\ u \in Tunnels /\ Alike(t, u)
      /\ u.est \in {t.est, 0} /\ u.lag \in {t.lag, 0}
      /\ t.hs = "InitSent" => u.started = t.started
      /\ t.hs = "Expired" /\ t.burst.owed => u.est = 0 /\ u.lag = 0
  BY <1>1, Cleared DEF Alike
<1>3. [t.burst EXCEPT !.owed = FALSE] \in Pending
  BY Zenon DEF Pending
<1>4. PICK e : e = FirstEmit(t)
  OBVIOUS
<1>5. /\ e \in Tunnels /\ e.hs = u.hs /\ e.session = u.session
      /\ e.spare = u.spare /\ (e.previous <=> u.previous) /\ e.queue = u.queue
      /\ e.est = u.est /\ e.lag = u.lag /\ e.started = u.started
  <2>1. e = [u EXCEPT !.burst = [t.burst EXCEPT !.owed = FALSE]]
    BY <1>4 DEF FirstEmit
  <2> HIDE DEF u
  <2>2. QED
    BY <1>2, <1>3, <2>1, WithBurst, Zenon
<1> HIDE DEF u
<1>6. PICK w : w = [e EXCEPT !.burst = b]
  BY Zenon
<1>7. /\ w \in Tunnels /\ w.hs = e.hs /\ w.session = e.session /\ w.burst = b
      /\ w.spare = e.spare /\ (w.previous <=> e.previous) /\ w.queue = e.queue
      /\ w.est = e.est /\ w.lag = e.lag /\ w.started = e.started
  BY <1>5, <1>6, WithBurst
<1>8. r = [t |-> w, out |-> "net"] /\ After(t, c, r) = IF t.hs = "Expired" /\ c = -1 THEN 0 ELSE c
  BY <1>4, <1>6 DEF Net, After
<1>9. Drives(w)
  BY <1>7, BurstsApart DEF Drives
<1>10. t.hs = "Expired" /\ c = -1 => u.est = 0 /\ u.lag = 0
  BY <1>2, BurstsApart DEF Holds, Owing
<1>11. Holds(w, After(t, c, r), told)
  BY <1>1, <1>2, <1>5, <1>7, <1>8, <1>9, <1>10 DEF Holds, Alike, Tunnels, Age
<1>12. QED
  BY <1>8, <1>9, <1>11 DEF Answers

\* The burst is served: it waits, emits, or ends in its initiation.
LEMMA AdvanceAnswers ==
  ASSUME NEW t, NEW c, NEW told, Holds(t, c, told), t.burst # NoBurst,
         NEW fits \in BOOLEAN, NEW d \in BOOLEAN
  PROVE  Answers(t, c, told, Advance(t, fits, d))
<1>1. t \in Tunnels /\ t.burst \in Pending
  BY DEF Holds, Tunnels
<1>2. PICK r : r = Advance(t, fits, d)
  OBVIOUS
<1>3. CASE r = Done(t)
  BY <1>2, <1>3 DEF Done, Answers, After, Holds, Drives
<1>4. CASE r = Err(t)
  BY <1>2, <1>4 DEF Err, Answers, After, Holds, Spares
<1>5. CASE t.burst.grams > 0 /\ ~Waits(t) /\ fits
  <2>1. PICK b : b = [FirstEmit(t).burst EXCEPT !.grams = @ - 1,
                                                !.last = IF t.burst.grams = 1 THEN -1 ELSE 0]
    OBVIOUS
  <2>2. r = Net([FirstEmit(t) EXCEPT !.burst = b])
    BY <1>2, <1>5, <2>1, Zenon DEF Advance
  <2>3. FirstEmit(t).burst = [t.burst EXCEPT !.owed = FALSE]
    BY <1>1, Cleared DEF FirstEmit, Tunnels
  <2>4. b \in Pending
    <3>1. PICK e : e = FirstEmit(t).burst
      OBVIOUS
    <3>2. e \in Pending /\ e.grams = t.burst.grams
      BY <1>1, <2>3, <3>1, Zenon DEF Pending
    <3>3. e.grams - 1 \in Nat
      BY <1>1, <1>5, <3>2 DEF Pending
    <3>4. QED
      BY <2>1, <3>1, <3>2, <3>3, Stamps, Zenon DEF Pending
  <2>5. QED
    BY <1>1, <1>2, <2>2, <2>4, EmitAnswers
<1>6. CASE ~(t.burst.grams > 0) /\ t.burst.junk # 0 /\ ~Waits(t) /\ fits
  <2>1. PICK b : b = [FirstEmit(t).burst EXCEPT !.junk = @ - 1, !.last = 0]
    OBVIOUS
  <2>2. r = Net([FirstEmit(t) EXCEPT !.burst = b])
    BY <1>2, <1>6, <2>1 DEF Advance
  <2>3. FirstEmit(t).burst = [t.burst EXCEPT !.owed = FALSE]
    BY <1>1, Cleared DEF FirstEmit, Tunnels
  <2>4. b \in Pending
    <3>1. PICK e : e = FirstEmit(t).burst
      OBVIOUS
    <3>2. e \in Pending /\ e.junk = t.burst.junk
      BY <1>1, <2>3, <3>1, Zenon DEF Pending
    <3>3. e.junk - 1 \in Nat
      BY <1>1, <1>6, <3>2 DEF Pending
    <3>4. QED
      BY <2>1, <3>1, <3>2, <3>3, Stamps, Zenon DEF Pending
  <2>5. QED
    BY <1>1, <1>2, <2>2, <2>4, EmitAnswers
<1>7. CASE ~(t.burst.grams > 0) /\ t.burst.junk = 0 /\ ~Waits(t)
  <2>8. PICK owed \in BOOLEAN : owed = t.burst.owed
    BY <1>1 DEF Pending
  <2>1. PICK i : i = InitiationNow(t, fits, d, TRUE, owed)
    BY Zenon
  <2>2. t.hs = "Expired" /\ c = -1 => owed
    BY <1>1, <2>8 DEF Holds, Owing, Pending
  <2>3. /\ Answers(t, c, told, i) /\ (i.out = "net" => i.t.hs = "InitSent")
    <3>1. TRUE \in BOOLEAN
      OBVIOUS
    <3>2. Answers(t, c, told, InitiationNow(t, fits, d, TRUE, owed))
      BY <2>2, <3>1, InitiationAnswers, Zenon
    <3>3. QED
      BY <1>1, <2>1, <3>2, InitiationSent, ZenonT(30)
  <2>4. r = IF i.out = "net" THEN Net([i.t EXCEPT !.burst = NoBurst]) ELSE i
    BY <1>2, <1>7, <2>1, <2>8, Zenon DEF Advance
  <2>5. CASE i.out # "net"
    BY <1>2, <2>3, <2>4, <2>5
  <2>6. CASE i.out = "net"
    <3>1. PICK w : w = [i.t EXCEPT !.burst = NoBurst]
      BY Zenon
    <3>2. /\ i.t \in Tunnels /\ i.t.hs = "InitSent"
      BY <2>3, <2>6 DEF Answers, Holds
    <3>3. /\ w \in Tunnels /\ w.hs = "InitSent" /\ w.est = i.t.est /\ w.lag = i.t.lag
          /\ w.started = i.t.started /\ w.queue = i.t.queue
      BY <3>1, <3>2, WithBurst
    <3>4. r = [t |-> w, out |-> "net"] /\ After(t, c, r) = After(t, c, i)
      BY <2>3, <2>4, <2>6, <3>1, <3>2, <3>3 DEF Net, After
    <3>5. Drives(w) /\ Holds(w, After(t, c, i), told)
      BY <2>3, <3>2, <3>3 DEF Answers, Holds, Drives
    <3>6. QED
      BY <1>2, <3>4, <3>5 DEF Answers
  <2>7. QED
    BY <2>5, <2>6
<1>8. QED
  BY <1>2, <1>3, <1>4, <1>5, <1>6, <1>7, Zenon DEF Advance


\* A handshake is asked for.
LEMMA FormatAnswers ==
  ASSUME NEW t, NEW c, NEW told, Holds(t, c, told),
         NEW fits \in BOOLEAN, NEW d \in BOOLEAN, NEW force \in BOOLEAN
  PROVE  Answers(t, c, told, Format(t, fits, d, force))
<1>1. t \in Tunnels
  BY DEF Holds
<1>2. CASE t.burst # NoBurst
  BY <1>2, AdvanceAnswers DEF Format
<1>3. CASE t.burst = NoBurst /\ t.hs = "InitSent" /\ ~force
  <2>1. Format(t, fits, d, force) = Done(t)
    BY <1>3 DEF Format
  <2>2. QED
    BY <1>3, <2>1 DEF Done, Answers, After, Holds, Drives
<1>4. CASE t.burst = NoBurst /\ ~(t.hs = "InitSent" /\ ~force) /\ Emits(t.cfg)
  <2>1. PICK b : b = Burst(t.cfg, -1, t.hs = "Expired")
    OBVIOUS
  <2>2. b \in Pending /\ (t.hs = "Expired" => b.owed)
    <3>1. t.cfg \in [grams: Nat, junk: Nat, tuned: BOOLEAN]
      BY <1>1, TimersAssumption DEF Tunnels
    <3>2. t.cfg.grams \in Nat /\ t.cfg.junk \in Nat /\ (t.hs = "Expired") \in BOOLEAN
      BY <3>1
    <3>3. b = [grams |-> t.cfg.grams, junk |-> t.cfg.junk, last |-> -1, owed |-> (t.hs = "Expired")]
      BY <2>1 DEF Burst
    <3>4. b \in Pending
      BY <3>2, <3>3, Stamps, Zenon DEF Pending
    <3>5. QED
      BY <3>3, <3>4, Zenon
  <2>3. PICK u : u = [t EXCEPT !.burst = b]
    BY Zenon
  <2>4. /\ u \in Tunnels /\ u.burst = b /\ u.hs = t.hs /\ u.session = t.session
        /\ u.spare = t.spare /\ (u.previous <=> t.previous) /\ u.queue = t.queue
        /\ u.est = t.est /\ u.lag = t.lag /\ u.started = t.started
    BY <1>1, <2>2, <2>3, WithBurst
  <2>5. Holds(u, c, told)
    BY <2>2, <2>4, BurstsApart DEF Holds, Owing, Drives
  <2>6. PICK r : r = Advance(u, fits, d)
    OBVIOUS
  <2>7. Answers(u, c, told, r)
    BY <2>2, <2>4, <2>5, <2>6, BurstsApart, AdvanceAnswers
  <2>8. r = Format(t, fits, d, force)
    BY <1>4, <2>1, <2>3, <2>6 DEF Format
  <2>9. After(u, c, r) = After(t, c, r)
    BY <2>4 DEF After
  <2>10. Spares(u, r.t) => Spares(t, r.t)
    BY <1>1, <2>3, <2>4 DEF Spares, Tunnels
  <2>11. QED
    BY <2>7, <2>8, <2>9, <2>10 DEF Answers
<1>5. CASE t.burst = NoBurst /\ ~(t.hs = "InitSent" /\ ~force) /\ ~Emits(t.cfg)
  <2>1. PICK reset \in BOOLEAN : reset = (t.hs = "Expired")
    BY Zenon
  <2>2. Answers(t, c, told, InitiationNow(t, fits, d, force, reset))
    BY <2>1, InitiationAnswers, Zenon
  <2>3. Format(t, fits, d, force) = InitiationNow(t, fits, d, force, reset)
    BY <1>5, <2>1 DEF Format
  <2>4. QED
    BY <2>2, <2>3
<1>6. QED
  BY <1>2, <1>3, <1>4, <1>5

\* What a call returns, whatever it is.
Returned(t, c, told, r) ==
  /\ Holds(r.t, After(t, c, r), told)
  /\ r.out = "err" => Spares(t, r.t)

\* A packet on the session that is there.
LEMMA OnSessionReturns ==
  ASSUME NEW t, NEW c, NEW told, Holds(t, c, told), t.session = "live",
         NEW fits \in BOOLEAN, NEW d \in BOOLEAN, NEW data \in BOOLEAN
  PROVE  LET r == OnSession(t, fits, d, data)
         IN  /\ Returned(t, c, told, r) /\ r.out \in {"net", "err"} /\ r = [t |-> r.t, out |-> r.out]
             /\ r.t.queue = t.queue /\ r.t.session = "live"
<1>1. t \in Tunnels /\ t.hs # "Expired"
  BY DEF Holds
<1>2. PICK r : r = OnSession(t, fits, d, data)
  OBVIOUS
<1>3. CASE ~fits
  BY <1>2, <1>3, Zenon DEF OnSession, Err, Returned, After, Spares, Holds
<1>4. CASE fits
  <2>1. PICK u : u = TickSent(t, d)
    OBVIOUS
  <2>2. u \in Tunnels /\ Alike(t, u) /\ u.est = t.est /\ u.started = t.started /\ u.lag = t.lag
    BY <1>1, <2>1, Ticked, Zenon
  <2>3. PICK w : w = IF data THEN TickDataSent(u) ELSE u
    OBVIOUS
  <2>4. w \in Tunnels /\ Alike(t, w) /\ w.est = t.est /\ w.started = t.started /\ w.lag = t.lag
    <3>1. u.lag \in Age /\ (u.est > u.lag) \in BOOLEAN
      BY <2>2, Stamps DEF Tunnels
    <3>2. TickDataSent(u) \in Tunnels
      BY <2>2, <3>1, Zenon DEF TickDataSent, Tunnels
    <3>3. Alike(u, TickDataSent(u)) /\ TickDataSent(u).est = u.est
          /\ TickDataSent(u).started = u.started /\ TickDataSent(u).lag = u.lag
      BY <2>2, <3>2 DEF TickDataSent, Tunnels, Alike
    <3>4. QED
      BY <2>2, <2>3, <3>2, <3>3 DEF Alike
  <2>5. r = [t |-> w, out |-> "net"]
    BY <1>2, <1>4, <2>1, <2>3 DEF OnSession, Net
  <2>6. Holds(w, c, told)
    BY <1>1, <2>4 DEF Holds, Alike, Drives, Owing
  <2>7. QED
    BY <1>1, <1>2, <2>4, <2>5, <2>6 DEF Returned, After, Alike
<1>5. QED
  BY <1>3, <1>4


\* A tunnel with n packets queued.
LEMMA WithQueue ==
  ASSUME NEW t, NEW c, NEW told, Holds(t, c, told), NEW n \in Nat, n > 0 => t.queue > 0 \/ Drives(t)
  PROVE  LET u == [t EXCEPT !.queue = n]
         IN  /\ Holds(u, c, told) /\ u.queue = n /\ u.hs = t.hs /\ u.session = t.session
             /\ u.ka = t.ka /\ u.nh = t.nh /\ u.pk = t.pk /\ u.interval = t.interval
             /\ (u.due <=> t.due) /\ u.burst = t.burst
<1> DEFINE u == [t EXCEPT !.queue = n]
<1>1. t \in Tunnels
  BY DEF Holds
<1>2. u \in Tunnels
  BY <1>1, Zenon DEF Tunnels
<1>3. /\ u.queue = n /\ u.hs = t.hs /\ u.session = t.session
      /\ u.ka = t.ka /\ u.nh = t.nh /\ u.pk = t.pk /\ u.interval = t.interval
      /\ (u.due <=> t.due) /\ u.burst = t.burst
      /\ u.spare = t.spare /\ (u.previous <=> t.previous)
      /\ u.est = t.est /\ u.lag = t.lag /\ u.started = t.started
  BY <1>1 DEF Tunnels
<1> HIDE DEF u
<1>4. Holds(u, c, told)
  BY <1>2, <1>3 DEF Holds, Drives, Owing
<1>5. QED
  BY <1>3, <1>4 DEF u

\* A packet is sent, or queued with what will bring a session up.
LEMMA EncapsulateReturns ==
  ASSUME NEW t, NEW c, NEW told, Holds(t, c, told),
         NEW fits \in BOOLEAN, NEW d \in BOOLEAN, NEW data \in BOOLEAN
  PROVE  Returned(t, c, told, Encapsulate(t, fits, d, data))
<1>1. t \in Tunnels
  BY DEF Holds
<1>2. CASE t.session = "live"
  BY <1>2, OnSessionReturns DEF Encapsulate
<1>3. CASE t.session # "live" /\ t.queue = MaxQueue
  <2>1. Encapsulate(t, fits, d, data) = [t |-> t, out |-> "full"]
    BY <1>3 DEF Encapsulate, Admit, Full
  <2>2. QED
    BY <2>1 DEF Returned, After
<1>4. CASE t.session # "live" /\ t.queue # MaxQueue
  <2>1. PICK r : r = Format(t, fits, d, FALSE)
    BY Zenon
  <2>2. Answers(t, c, told, r)
    BY <2>1, FormatAnswers, Zenon
  <2>3. CASE r.out = "err"
    <3>1. Encapsulate(t, fits, d, data) = r
      BY <1>4, <2>1, <2>3 DEF Encapsulate, Admit
    <3>2. QED
      BY <2>2, <3>1 DEF Answers, Returned
  <2>4. CASE r.out # "err"
    <3>1. PICK n : n = r.t.queue + 1
      OBVIOUS
    <3>2. PICK u : u = [r.t EXCEPT !.queue = n]
      BY Zenon
    <3>3. n \in Nat /\ Drives(r.t) /\ Holds(r.t, After(t, c, r), told)
      BY <2>2, <2>4, <3>1 DEF Answers, Holds, Tunnels
    <3>4. Holds(u, After(t, c, r), told) /\ u.hs = r.t.hs
      BY <3>2, <3>3, WithQueue
    <3>5. Encapsulate(t, fits, d, data) = [t |-> u, out |-> r.out]
      <4>1. Encapsulate(t, fits, d, data) = [r EXCEPT !.t = u]
        BY <1>4, <2>1, <2>4, <3>1, <3>2 DEF Encapsulate, Admit
      <4>2. r = [t |-> r.t, out |-> r.out]
        BY <2>2 DEF Answers
      <4>3. QED
        BY <4>1, <4>2
    <3>6. QED
      BY <2>4, <3>4, <3>5 DEF Returned, After
  <2>5. QED
    BY <2>3, <2>4
<1>5. QED
  BY <1>2, <1>3, <1>4

\* The queue is drained by a packet; when there is nothing to do, nothing is
\* left that only the caller would bring out.
LEMMA DrainReturns ==
  ASSUME NEW t, NEW c, NEW told, Holds(t, c, told),
         NEW fits \in BOOLEAN, NEW d \in BOOLEAN, NEW data \in BOOLEAN,
         NEW drop \in Nat, drop <= t.queue
  PROVE  LET r == SendQueued(t, fits, d, data, drop)
         IN  Holds(r.t, After(t, c, r), told /\ r.out # "done")
<1>1. t \in Tunnels /\ told \in BOOLEAN /\ t.queue \in Nat
  BY DEF Holds, Tunnels
<1>2. PICK r : r = SendQueued(t, fits, d, data, drop)
  OBVIOUS
<1>3. CASE t.queue = 0
  <2>1. r = [t |-> t, out |-> "done"]
    BY <1>2, <1>3 DEF SendQueued, Done
  <2>2. QED
    BY <1>1, <1>2, <1>3, <2>1 DEF Holds, After
<1>4. CASE t.queue # 0 /\ t.session # "live"
  <2>1. r = Format(t, fits, d, FALSE)
    BY <1>2, <1>4 DEF SendQueued
  <2>2. Answers(t, c, told, r)
    BY <2>1, FormatAnswers, Zenon
  <2>3. CASE r.out = "done"
    <3>1. Holds(r.t, After(t, c, r), FALSE)
      BY <2>2, <2>3, Zenon DEF Answers, Holds
    <3>2. (told /\ r.out # "done") = FALSE
      BY <2>3
    <3>3. QED
      BY <1>2, <3>1, <3>2, Zenon
  <2>4. CASE r.out # "done"
    <3>1. (told /\ r.out # "done") = told
      BY <1>1, <2>4
    <3>2. QED
      BY <1>2, <2>2, <3>1 DEF Answers
  <2>5. QED
    BY <2>3, <2>4, Zenon
<1>5. CASE t.queue # 0 /\ t.session = "live" /\ drop = t.queue
  <2>1. r = [t |-> [t EXCEPT !.queue = 0], out |-> "done"]
    BY <1>2, <1>5 DEF SendQueued, Done
  <2>2. PICK u : u = [t EXCEPT !.queue = 0]
    BY Zenon
  <2>3. Holds(u, c, told) /\ u.queue = 0 /\ u.hs = t.hs
    BY <2>2, WithQueue
  <2>4. Holds(u, c, FALSE)
    BY <2>3 DEF Holds
  <2>5. (told /\ r.out # "done") = FALSE /\ After(t, c, r) = c /\ r.t = u
    BY <2>1, <2>2 DEF After
  <2>6. QED
    BY <1>2, <2>4, <2>5, Zenon
<1>6. CASE t.queue # 0 /\ t.session = "live" /\ drop # t.queue
  <2>1. PICK n \in Nat : n = t.queue - drop /\ n > 0
    BY <1>1, <1>6
  <2>2. PICK u : u = [t EXCEPT !.queue = n]
    BY Zenon
  <2>3. Holds(u, c, told) /\ u.queue = n /\ u.hs = t.hs /\ u.session = "live"
    BY <1>1, <1>6, <2>1, <2>2, WithQueue
  <2>4. PICK s : s = OnSession(u, fits, d, data)
    OBVIOUS
  <2>5. /\ Returned(u, c, told, s) /\ s.out \in {"net", "err"} /\ s = [t |-> s.t, out |-> s.out]
        /\ s.t.queue = n
    BY <2>3, <2>4, OnSessionReturns
  <2>6. r = IF s.out = "err" THEN s ELSE [s EXCEPT !.t = [s.t EXCEPT !.queue = n - 1]]
    BY <1>2, <1>6, <2>1, <2>2, <2>4, <2>5 DEF SendQueued
  <2>7. After(u, c, s) = After(t, c, s) /\ Holds(s.t, After(t, c, s), told)
    BY <2>3, <2>5 DEF After, Returned
  <2>8. CASE s.out = "err"
    BY <1>1, <1>2, <2>6, <2>7, <2>8 DEF Holds
  <2>9. CASE s.out = "net"
    <3>1. n - 1 \in Nat
      BY <2>1
    <3>2. PICK w : w = [s.t EXCEPT !.queue = n - 1]
      BY Zenon
    <3>3. Holds(w, After(t, c, s), told) /\ w.hs = s.t.hs
      BY <2>1, <2>5, <2>7, <3>1, <3>2, WithQueue
    <3>4. r = [t |-> w, out |-> "net"]
      BY <2>5, <2>6, <2>9, <3>2
    <3>5. QED
      BY <1>1, <1>2, <2>9, <3>3, <3>4 DEF After, Holds
  <2>10. QED
    BY <2>5, <2>8, <2>9
<1>7. QED
  BY <1>3, <1>4, <1>5, <1>6, Zenon


\* Latches and the keepalive are no part of what holds.
LEMMA AlikeHolds ==
  ASSUME NEW t, NEW c, NEW told, Holds(t, c, told), NEW u \in Tunnels, Alike(t, u),
         u.est = t.est, u.started = t.started, u.lag = t.lag
  PROVE  Holds(u, c, told)
BY DEF Holds, Alike, Drives, Owing

\* What a refused tick gives back of the tunnel it began with.
Refunds(was, u) ==
  /\ u.ka = was.ka /\ (u.due <=> was.due) /\ u.pk = was.pk /\ u.interval = was.interval
  /\ u.nh = was.nh \/ u.burst # NoBurst
  /\ u.queue = was.queue

\* What a tick returns: was is the tunnel it began with, t what it served.
Served(was, t, c, told, r) ==
  /\ Holds(r.t, After(t, c, r), told)
  /\ r.out = "err" => Refunds(was, r.t)

\* A keepalive on a tunnel whose demands were spent to select it.
LEMMA KeepaliveReturns ==
  ASSUME NEW t, NEW c, NEW told, Holds(t, c, told), NEW was \in Tunnels,
         t.nh = was.nh, t.queue = was.queue, NEW fits \in BOOLEAN, NEW d \in BOOLEAN
  PROVE  Served(was, t, c, told, SendKeepalive(t, was, fits, d))
<1>1. PICK r : r = Encapsulate(t, fits, d, FALSE)
  BY Zenon
<1>2. Returned(t, c, told, r)
  <2>1. FALSE \in BOOLEAN
    OBVIOUS
  <2>2. QED
    BY <1>1, <2>1, EncapsulateReturns, Zenon
<1>3. PICK s : s = SendKeepalive(t, was, fits, d)
  OBVIOUS
<1>4. CASE r.out # "err"
  <2>1. s = r
    BY <1>1, <1>3, <1>4 DEF SendKeepalive
  <2>2. QED
    BY <1>2, <1>3, <1>4, <2>1 DEF Returned, Served
<1>5. CASE r.out = "err"
  <2>1. PICK u : u = [r.t EXCEPT !.due = was.due, !.pk = was.pk, !.ka = was.ka, !.interval = was.interval]
    OBVIOUS
  <2>2. s = [t |-> u, out |-> "err"]
    BY <1>1, <1>3, <1>5, <2>1 DEF SendKeepalive, Err
  <2>3. r.t \in Tunnels /\ Holds(r.t, After(t, c, r), told) /\ Spares(t, r.t)
    BY <1>2, <1>5, Zenon DEF Returned, Holds
  <2>4. u \in Tunnels
    BY <2>1, <2>3, Zenon DEF Tunnels
  <2>5. /\ Alike(r.t, u) /\ u.est = r.t.est /\ u.started = r.t.started /\ u.lag = r.t.lag
        /\ u.nh = r.t.nh
    BY <2>1, <2>3 DEF Tunnels, Alike
  <2>6. u.ka = was.ka /\ (u.due <=> was.due) /\ u.pk = was.pk /\ u.interval = was.interval
    BY <2>1, <2>3 DEF Tunnels
  <2>7. Holds(u, After(t, c, r), told)
    BY <2>3, <2>4, <2>5, AlikeHolds
  <2>8. After(t, c, s) = After(t, c, r)
    BY <1>5, <2>2, <2>5 DEF After, Alike
  <2>9. Refunds(was, u)
    BY <2>3, <2>5, <2>6, Zenon DEF Refunds, Spares, Alike
  <2>10. QED
    BY <1>3, <2>2, <2>7, <2>8, <2>9 DEF Served
<1>6. QED
  BY <1>4, <1>5

\* clear_all
LEMMA ExpireHolds ==
  ASSUME NEW t \in Tunnels, NEW told \in BOOLEAN
  PROVE  Holds(Expire(t).t, -1, told) /\ Expire(t).out = "expired" /\ Expire(t).t.hs = "Expired"
<1>1. PICK u : u = [t EXCEPT !.hs = "Expired", !.previous = FALSE, !.session = "none",
                             !.spare = -1, !.queue = 0, !.burst = NoBurst]
  OBVIOUS
<1>2. u \in Tunnels
  BY <1>1, Stamps, Zenon DEF Tunnels
<1>3. u.hs = "Expired" /\ ~u.previous /\ u.session = "none" /\ u.spare = -1 /\ u.queue = 0 /\ u.burst = NoBurst
  BY <1>1, <1>2 DEF Tunnels
<1>4. Expire(t) = [t |-> ClearTimers(u), out |-> "expired"]
  BY <1>1 DEF Expire, Dead
<1>5. PICK v : v = ClearTimers(u)
  OBVIOUS
<1>6. v \in Tunnels /\ Alike(u, v)
  BY <1>2, <1>5, Cleared
<1>7. Holds(v, -1, told)
  BY <1>3, <1>6, Stamps DEF Holds, Alike, Owing
<1>8. QED
  BY <1>3, <1>4, <1>5, <1>6, <1>7 DEF Alike


\* A handshake the timers ask for; its latch comes back with a refusal, unless
\* a burst now carries it.
LEMMA DemandServed ==
  ASSUME NEW t, NEW c, NEW told, Holds(t, c, told), NEW was \in Tunnels, Spares(was, t),
         NEW fits \in BOOLEAN, NEW d \in BOOLEAN
  PROVE  Served(was, t, c, told, DemandHandshake(t, fits, d))
<1>1. PICK u : u = [t EXCEPT !.nh = IF t.nh >= NewHandshake THEN -1 ELSE @]
  BY Zenon
<1>2. t \in Tunnels /\ t.nh \in Age
  BY Zenon DEF Holds, Tunnels
<1>3. u \in Tunnels
  BY <1>1, <1>2, Stamps, Zenon DEF Tunnels
<1>4. /\ Alike(t, u) /\ u.est = t.est /\ u.started = t.started /\ u.lag = t.lag
      /\ u.ka = t.ka /\ u.pk = t.pk /\ u.interval = t.interval /\ (u.due <=> t.due)
      /\ (~(t.nh >= NewHandshake) => u.nh = t.nh)
  BY <1>1, <1>2 DEF Tunnels, Alike
<1>5. Holds(u, c, told)
  BY <1>3, <1>4, AlikeHolds
<1>6. PICK r : r = Format(u, fits, d, TRUE)
  BY Zenon
<1>7. Answers(u, c, told, r)
  <2>1. TRUE \in BOOLEAN
    OBVIOUS
  <2>2. QED
    BY <1>5, <1>6, <2>1, FormatAnswers, Zenon
<1>8. PICK s : s = DemandHandshake(t, fits, d)
  OBVIOUS
<1>9. s = IF t.nh >= NewHandshake /\ r.out = "err" /\ r.t.burst = NoBurst
          THEN Err([r.t EXCEPT !.nh = t.nh]) ELSE r
  BY <1>1, <1>6, <1>8 DEF DemandHandshake
<1>10. After(u, c, r) = After(t, c, r) /\ r.t \in Tunnels
  BY <1>4, <1>7, Zenon DEF After, Alike, Answers, Holds
<1>11. CASE t.nh >= NewHandshake /\ r.out = "err" /\ r.t.burst = NoBurst
  <2>1. PICK v : v = [r.t EXCEPT !.nh = t.nh]
    BY Zenon
  <2>2. v \in Tunnels
    BY <1>2, <1>10, <2>1, Zenon DEF Tunnels
  <2>3. /\ Alike(r.t, v) /\ v.est = r.t.est /\ v.started = r.t.started /\ v.lag = r.t.lag
        /\ v.ka = r.t.ka /\ v.pk = r.t.pk /\ v.interval = r.t.interval /\ (v.due <=> r.t.due)
        /\ v.nh = t.nh
    BY <1>10, <2>1 DEF Tunnels, Alike
  <2>4. Holds(v, After(t, c, r), told)
    BY <1>7, <1>10, <2>2, <2>3, AlikeHolds, Zenon DEF Answers
  <2>5. s = [t |-> v, out |-> "err"] /\ After(t, c, s) = After(t, c, r)
    BY <1>9, <1>11, <2>1, <2>3 DEF Err, After, Alike
  <2>6. Spares(u, r.t)
    BY <1>7, <1>11 DEF Answers
  <2>7. Refunds(was, v)
    BY <1>4, <2>3, <2>6 DEF Refunds, Spares, Alike
  <2>8. QED
    BY <1>8, <2>4, <2>5, <2>7 DEF Served
<1>12. CASE ~(t.nh >= NewHandshake /\ r.out = "err" /\ r.t.burst = NoBurst)
  <2>1. s = r
    BY <1>9, <1>12
  <2>2. Holds(r.t, After(t, c, r), told)
    BY <1>7, <1>10 DEF Answers
  <2>3. ASSUME r.out = "err" PROVE Refunds(was, r.t)
    <3>1. Spares(u, r.t)
      BY <1>7, <2>3 DEF Answers
    <3>2. r.t.nh = u.nh /\ (u.nh = t.nh \/ r.t.burst # NoBurst)
      BY <1>4, <1>12, <2>3, <3>1, Zenon DEF Spares
    <3>3. QED
      BY <1>4, <3>1, <3>2, Zenon DEF Refunds, Spares, Alike
  <2>4. QED
    BY <1>8, <2>1, <2>2, <2>3 DEF Served
<1>13. QED
  BY <1>11, <1>12

\* What a tunnel with no handshake in flight owes.
LEMMA IdleServed ==
  ASSUME NEW t, NEW c, NEW told, Holds(t, c, told), NEW was \in Tunnels, Spares(was, t),
         NEW fits \in BOOLEAN, NEW d \in BOOLEAN
  PROVE  Served(was, t, c, told, IdleDemands(t, was, fits, d))
<1> DEFINE demands == \/ t.initiator /\ (\/ t.sent /\ t.est >= RekeyAfter
                                         \/ t.recv /\ t.est >= RefreshReceive)
                      \/ t.nh >= NewHandshake
<1>1. PICK s : s = IdleDemands(t, was, fits, d)
  OBVIOUS
<1>2. CASE demands
  <2>1. s = DemandHandshake(t, fits, d)
    BY <1>1, <1>2 DEF IdleDemands
  <2>2. QED
    BY <1>1, <2>1, DemandServed
<1>3. CASE ~demands /\ ~(t.ka >= Keepalive \/ Persistent(t))
  <2>1. s = [t |-> t, out |-> "done"]
    BY <1>1, <1>3 DEF IdleDemands, Done
  <2>2. QED
    BY <1>1, <2>1 DEF Served, After
<1>4. CASE ~demands /\ (t.ka >= Keepalive \/ Persistent(t))
  <2>1. PICK u : u = [t EXCEPT !.ka = IF t.ka >= Keepalive THEN -1 ELSE @,
                               !.due = @ /\ ~Persistent(t),
                               !.pk = IF Persistent(t) THEN 0 ELSE @]
    OBVIOUS
  <2>2. s = SendKeepalive(u, was, fits, d)
    BY <1>1, <1>4, <2>1 DEF IdleDemands
  <2>3. t \in Tunnels /\ t.ka \in Age /\ t.pk \in Nat /\ (t.due /\ ~Persistent(t)) \in BOOLEAN
    BY DEF Holds, Tunnels
  <2>4. u \in Tunnels
    <3>1. PICK k \in Age : k = IF t.ka >= Keepalive THEN -1 ELSE t.ka
      BY <2>3, Stamps
    <3>2. PICK b \in BOOLEAN : b = (t.due /\ ~Persistent(t))
      BY <2>3, Zenon
    <3>3. PICK n \in Nat : n = IF Persistent(t) THEN 0 ELSE t.pk
      BY <2>3
    <3>4. u = [t EXCEPT !.ka = k, !.due = b, !.pk = n]
      BY <2>1, <2>3, <3>1, <3>2, <3>3, Zenon
    <3>5. QED
      BY <2>3, <3>4, ZenonT(30) DEF Tunnels
  <2>5. Alike(t, u) /\ u.est = t.est /\ u.started = t.started /\ u.lag = t.lag /\ u.nh = t.nh
    BY <2>1, <2>3 DEF Tunnels, Alike
  <2>6. Holds(u, c, told) /\ u.nh = was.nh /\ u.queue = was.queue
    BY <2>4, <2>5, AlikeHolds DEF Spares, Alike
  <2>7. Served(was, u, c, told, s)
    BY <2>2, <2>6, KeepaliveReturns
  <2>8. After(u, c, s) = After(t, c, s)
    BY <2>5 DEF After, Alike
  <2>9. QED
    BY <1>1, <2>7, <2>8 DEF Served
<1>5. QED
  BY <1>2, <1>3, <1>4

\* An expired tunnel with no burst is restarted by an owed keepalive alone.
LEMMA ExpiredServed ==
  ASSUME NEW t, NEW c, NEW told, Holds(t, c, told), NEW was \in Tunnels, Spares(was, t),
         t.hs = "Expired", t.burst = NoBurst, NEW fits \in BOOLEAN, NEW d \in BOOLEAN
  PROVE  Served(was, t, c, told, ExpiredDemand(t, was, fits, d))
<1>1. PICK s : s = ExpiredDemand(t, was, fits, d)
  OBVIOUS
<1>2. t \in Tunnels
  BY DEF Holds
<1>3. CASE t.range = Off \/ ~t.due
  <2>1. s = [t |-> t, out |-> "expired"]
    BY <1>1, <1>3 DEF ExpiredDemand, Dead
  <2>2. Holds(t, -1, told)
    BY Stamps DEF Holds, Owing
  <2>3. QED
    BY <1>1, <2>1, <2>2 DEF Served, After
<1>4. CASE ~(t.range = Off \/ ~t.due)
  <2>1. PICK u : u = [t EXCEPT !.due = FALSE, !.pk = 0]
    OBVIOUS
  <2>2. s = SendKeepalive(u, was, fits, d)
    BY <1>1, <1>4, <2>1 DEF ExpiredDemand
  <2>3. u \in Tunnels
    BY <1>2, <2>1, ZenonT(30) DEF Tunnels
  <2>4. Alike(t, u) /\ u.est = t.est /\ u.started = t.started /\ u.lag = t.lag /\ u.nh = t.nh
    BY <1>2, <2>1 DEF Tunnels, Alike
  <2>5. Holds(u, c, told) /\ u.nh = was.nh /\ u.queue = was.queue
    BY <2>3, <2>4, AlikeHolds DEF Spares, Alike
  <2>6. Served(was, u, c, told, s)
    BY <2>2, <2>5, KeepaliveReturns
  <2>7. After(u, c, s) = After(t, c, s)
    BY <2>4 DEF After, Alike
  <2>8. QED
    BY <1>1, <2>6, <2>7 DEF Served
<1>5. QED
  BY <1>3, <1>4


\* update_timers, whole.
LEMMA UpdateServed ==
  ASSUME NEW was, NEW c, NEW told, Holds(was, c, told), NEW fits \in BOOLEAN, NEW d \in BOOLEAN
  PROVE  Served(was, was, c, told, UpdateTimers(was, fits, d))
<1>1. was \in Tunnels /\ told \in BOOLEAN
  BY DEF Holds
<1>2. PICK v : v = [was EXCEPT !.lag = 0]
  BY Zenon
<1>3. v \in Tunnels
  BY <1>1, <1>2, Stamps, Zenon DEF Tunnels
<1>4. /\ Alike(was, v) /\ v.est = was.est /\ v.started = was.started /\ v.lag = 0 /\ Spares(was, v)
  BY <1>1, <1>2 DEF Tunnels, Alike, Spares
<1>5. PICK t : t = SessionTimers(v)
  OBVIOUS
<1>6. t \in Tunnels
  BY <1>3, <1>5, Stamps, ZenonT(30) DEF SessionTimers, Tunnels
<1>7. /\ t.hs = was.hs /\ t.queue = was.queue /\ t.burst = was.burst /\ (t.previous <=> was.previous)
      /\ t.session \in {"none", was.session} /\ t.spare \in {-1, was.spare}
      /\ t.est = was.est /\ t.started = was.started /\ t.lag = 0
      /\ Spares(was, t)
  BY <1>3, <1>4, <1>5 DEF SessionTimers, Tunnels, Alike, Spares
<1>8. Holds(t, c, told)
  BY <1>6, <1>7, Stamps DEF Holds, Drives, Owing, Age
<1>9. \A r : Served(was, t, c, told, r) => Served(was, was, c, told, r)
  BY <1>7 DEF Served, After
<1>10. PICK r : r = UpdateTimers(was, fits, d)
  OBVIOUS
<1>11. ASSUME r = Expire(t) PROVE Served(was, t, c, told, r)
  BY <1>1, <1>6, <1>11, ExpireHolds DEF Served, After
<1>12. ASSUME Answers(t, c, told, r) PROVE Served(was, t, c, told, r)
  <2>1. Holds(r.t, After(t, c, r), told)
    BY <1>12 DEF Answers
  <2>2. r.out = "err" => Refunds(was, r.t)
    BY <1>7, <1>12 DEF Answers, Refunds, Spares
  <2>3. QED
    BY <2>1, <2>2 DEF Served
<1>13. CASE t.burst # NoBurst
  <2>1. r = ServeBurst(t, fits, d)
    BY <1>2, <1>5, <1>10, <1>13 DEF UpdateTimers
  <2>2. r = Expire(t) \/ r = Advance(t, fits, d)
    BY <2>1 DEF ServeBurst
  <2>3. QED
    BY <1>8, <1>9, <1>10, <1>11, <1>12, <1>13, <2>2, AdvanceAnswers
<1>14. CASE t.burst = NoBurst /\ t.hs = "Expired"
  <2>1. r = ExpiredDemand(t, was, fits, d)
    BY <1>2, <1>5, <1>10, <1>14 DEF UpdateTimers
  <2>2. QED
    BY <1>1, <1>7, <1>8, <1>9, <1>10, <1>14, <2>1, ExpiredServed
<1>15. CASE t.burst = NoBurst /\ t.hs # "Expired"
  <2>1. r = IF PastBounds(t) THEN Expire(t)
            ELSE IF t.hs = "InitSent" THEN Retransmission(t, fits, d)
            ELSE IdleDemands(t, was, fits, d)
    BY <1>2, <1>5, <1>10, <1>15 DEF UpdateTimers
  <2>2. CASE r = Expire(t)
    BY <1>9, <1>10, <1>11, <2>2
  <2>3. CASE r = IdleDemands(t, was, fits, d)
    BY <1>1, <1>7, <1>8, <1>9, <1>10, <2>3, IdleServed
  <2>4. CASE r = Retransmission(t, fits, d) /\ t.hs = "InitSent"
    <3>1. CASE r = [t |-> t, out |-> "done"]
      <4>1. Answers(t, c, told, r)
        BY <1>8, <2>4, <3>1 DEF Answers, After, Drives
      <4>2. QED
        BY <1>9, <1>10, <1>12, <4>1
    <3>2. CASE r = Format(t, fits, d, TRUE)
      <4>1. TRUE \in BOOLEAN
        OBVIOUS
      <4>2. Answers(t, c, told, r)
        BY <1>8, <3>2, <4>1, FormatAnswers, Zenon
      <4>3. QED
        BY <1>9, <1>10, <1>12, <4>2
    <3>3. CASE r = Expire(t)
      BY <1>9, <1>10, <1>11, <3>3
    <3>4. QED
      BY <2>4, <3>1, <3>2, <3>3, Zenon DEF Retransmission, Done
  <2>5. QED
    BY <2>1, <2>2, <2>3, <2>4
<1>16. QED
  BY <1>13, <1>14, <1>15


-----------------------------------------------------------------------------
LEMMA DrawnFrom == TimersInv => Draws \subseteq BOOLEAN /\ Fits \subseteq BOOLEAN
BY Zenon DEF Draws, Fits

\* A call that returns r leaves the cycle at After.
LEMMA ReturnsHold ==
  ASSUME TimersInv, NEW r, Returns(r), flush' = flush, Holds(r.t, After(tun, cycle, r), flush)
  PROVE  TimersInv'
BY DEF Returns, After, TimersInv

\* A datagram was received.
LEMMA Heard ==
  ASSUME NEW t \in Tunnels, NEW d \in BOOLEAN
  PROVE  /\ TickReceived(t, d) \in Tunnels /\ Alike(t, TickReceived(t, d))
         /\ TickReceived(t, d).est = t.est /\ TickReceived(t, d).started = t.started
         /\ TickReceived(t, d).lag = t.lag
<1>1. t.lag \in Nat
  BY Stamps DEF Tunnels
<1>2. TickReceived(t, d) \in Tunnels
  BY <1>1, Drawn, Stamps, Zenon DEF TickReceived, Tunnels
<1>3. QED
  BY <1>2 DEF TickReceived, Tunnels, Alike

LEMMA HeardData ==
  ASSUME NEW t \in Tunnels
  PROVE  /\ TickDataReceived(t) \in Tunnels /\ Alike(t, TickDataReceived(t))
         /\ TickDataReceived(t).est = t.est /\ TickDataReceived(t).started = t.started
         /\ TickDataReceived(t).lag = t.lag
<1>1. t.lag \in Age /\ t.ka \in Age /\ (t.est > t.lag) \in BOOLEAN
  BY Stamps DEF Tunnels
<1>2. TickDataReceived(t) \in Tunnels
  BY <1>1, Zenon DEF TickDataReceived, Tunnels
<1>3. QED
  BY <1>2 DEF TickDataReceived, Tunnels, Alike

LEMMA EstablishedIs ==
  ASSUME NEW t \in Tunnels, NEW initiator \in BOOLEAN
  PROVE  /\ Established(t, initiator) \in Tunnels /\ Established(t, initiator).hs = t.hs
         /\ Established(t, initiator).lag = t.lag
<1>1. t.lag \in Nat
  BY Stamps DEF Tunnels
<1>2. Established(t, initiator) \in Tunnels
  BY <1>1, Zenon DEF Established, Tunnels
<1>3. QED
  BY <1>2 DEF Established, Tunnels

\* A handshake completes: the cycle is over, and the caller is told to drain.
LEMMA HandshakeStep ==
  ASSUME TimersInv, NEW d \in BOOLEAN, ReceiveInitiation(d) \/ ReceiveResponse(d)
  PROVE  TimersInv'
<1>1. tun \in Tunnels /\ tun.lag \in Nat /\ tun.lag \in Age
      /\ (tun.hs = "Expired" => ~tun.previous)
  BY Stamps DEF TimersInv, Holds, Tunnels
<1>2. PICK u : u = TickReceived(tun, d)
  OBVIOUS
<1>3. u \in Tunnels /\ u.hs = tun.hs
  BY <1>1, <1>2, Heard DEF Alike
<1>4. ASSUME tun' \in Tunnels, tun'.hs # "Expired" PROVE TimersInv'
  <2>1. flush' = TRUE /\ cycle' = -1
    BY DEF ReceiveInitiation, ReceiveResponse
  <2>2. QED
    BY <1>4, <2>1, Stamps DEF TimersInv, Holds
<1>5. CASE ReceiveInitiation(d)
  <2>1. PICK v : v = TickSent(u, d)
    OBVIOUS
  <2>2. v \in Tunnels
    BY <1>3, <2>1, Ticked
  <2>3. PICK w : w = Established(v, FALSE)
    BY Zenon
  <2>4. w \in Tunnels
    <3>1. FALSE \in BOOLEAN
      OBVIOUS
    <3>2. QED
      BY <2>2, <2>3, <3>1, EstablishedIs, Zenon
  <2>5. PICK b \in BOOLEAN : b = (tun.hs = "InitSent")
    BY Zenon
  <2>6. tun' = [w EXCEPT !.hs = "None", !.previous = b, !.spare = tun.lag]
    BY <1>2, <1>5, <2>1, <2>3, <2>5, Zenon DEF ReceiveInitiation
  <2>7. tun' \in Tunnels
    BY <1>1, <2>4, <2>6, Zenon DEF Tunnels
  <2>8. tun'.hs = "None"
    BY <2>4, <2>6 DEF Tunnels
  <2>9. QED
    BY <1>4, <2>7, <2>8
<1>6. CASE ReceiveResponse(d)
  <2>1. PICK v : v = Established(u, TRUE)
    BY Zenon
  <2>2. v \in Tunnels /\ v.hs = tun.hs
    <3>1. TRUE \in BOOLEAN
      OBVIOUS
    <3>2. Established(u, TRUE) \in Tunnels
      BY <1>3, <3>1, EstablishedIs, Zenon
    <3>3. QED
      BY <1>3, <2>1, <3>2 DEF Established, Tunnels
  <2>3. PICK w : w = TickSent(v, d)
    OBVIOUS
  <2>4. w \in Tunnels /\ w.hs = tun.hs
    BY <2>2, <2>3, Ticked DEF Alike
  <2>5. CASE tun' = [w EXCEPT !.hs = "None", !.session = "live", !.sess = tun.lag]
    <3>1. tun' \in Tunnels
      BY <1>1, <2>4, <2>5, Zenon DEF Tunnels
    <3>2. tun'.hs = "None"
      BY <2>4, <2>5 DEF Tunnels
    <3>3. QED
      BY <1>4, <3>1, <3>2
  <2>6. CASE tun.previous /\ tun' = [w EXCEPT !.previous = FALSE, !.session = "live", !.sess = tun.lag]
    <3>1. tun' \in Tunnels
      BY <1>1, <2>4, <2>6, Zenon DEF Tunnels
    <3>2. tun'.hs = tun.hs
      BY <2>4, <2>6 DEF Tunnels
    <3>3. QED
      BY <1>1, <1>4, <2>6, <3>1, <3>2
  <2>7. QED
    BY <1>2, <1>6, <2>1, <2>3, <2>5, <2>6 DEF ReceiveResponse
<1>7. QED
  BY <1>5, <1>6

\* Data arrives on a session.
LEMMA DataStep ==
  ASSUME TimersInv, NEW d \in BOOLEAN, NEW data \in BOOLEAN, NEW onSpare \in BOOLEAN,
         ReceiveData(d, data, onSpare)
  PROVE  TimersInv'
<1>1. tun \in Tunnels /\ tun.hs # "Expired" /\ Holds(tun, cycle, flush)
  BY DEF TimersInv, Holds, ReceiveData, Tunnels
<1>2. PICK t : t = IF data THEN TickDataReceived(TickReceived(tun, d)) ELSE TickReceived(tun, d)
  OBVIOUS
<1>3. t \in Tunnels /\ Alike(tun, t) /\ t.est = tun.est /\ t.started = tun.started /\ t.lag = tun.lag
  <2>1. PICK u : u = TickReceived(tun, d)
    OBVIOUS
  <2>2. u \in Tunnels /\ Alike(tun, u) /\ u.est = tun.est /\ u.started = tun.started /\ u.lag = tun.lag
    BY <1>1, <2>1, Heard
  <2>3. CASE data
    <3>1. t = TickDataReceived(u)
      BY <1>2, <2>1, <2>3
    <3>2. QED
      BY <2>2, <3>1, HeardData DEF Alike
  <2>4. CASE ~data
    BY <1>2, <2>1, <2>2, <2>4
  <2>5. QED
    BY <2>3, <2>4
<1>4. Holds(t, cycle, flush)
  BY <1>1, <1>3, AlikeHolds
<1>5. UNCHANGED <<flush, cycle>>
  BY DEF ReceiveData
<1>6. CASE tun' = t
  BY <1>4, <1>5, <1>6 DEF TimersInv
<1>7. CASE onSpare /\ tun' = [t EXCEPT !.session = "live", !.sess = tun.spare, !.spare = -1]
  <2>1. tun.spare \in Nat
    BY <1>1, <1>7 DEF ReceiveData, Tunnels, Age
  <2>2. tun' \in Tunnels
    BY <1>3, <1>7, <2>1, Stamps, Zenon DEF Tunnels
  <2>3. /\ tun'.hs = t.hs /\ tun'.queue = t.queue /\ tun'.burst = t.burst
        /\ tun'.est = t.est /\ tun'.started = t.started /\ tun'.lag = t.lag
    BY <1>3, <1>7 DEF Tunnels
  <2>4. Holds(tun', cycle, flush)
    BY <1>1, <1>3, <1>4, <2>2, <2>3 DEF Holds, Alike, Drives
  <2>5. QED
    BY <1>5, <2>4 DEF TimersInv
<1>8. QED
  BY <1>2, <1>6, <1>7 DEF ReceiveData


\* Nonces run out, keys change.
LEMMA SessionStep ==
  ASSUME TimersInv, Exhaust \/ SetKey
  PROVE  TimersInv'
<1>1. tun \in Tunnels /\ Holds(tun, cycle, flush) /\ UNCHANGED <<flush, cycle>>
  BY DEF TimersInv, Holds, Exhaust, SetKey
<1>2. CASE Exhaust
  <2>1. tun' = [tun EXCEPT !.session = "spent"] /\ tun.session = "live"
    BY <1>2 DEF Exhaust
  <2>2. tun' \in Tunnels
    BY <1>1, <2>1, Zenon DEF Tunnels
  <2>3. /\ tun'.hs = tun.hs /\ tun'.queue = tun.queue /\ tun'.burst = tun.burst
        /\ tun'.est = tun.est /\ tun'.started = tun.started /\ tun'.lag = tun.lag
    BY <1>1, <2>1 DEF Tunnels
  <2>4. Holds(tun', cycle, flush)
    BY <1>1, <2>1, <2>2, <2>3 DEF Holds, Drives
  <2>5. QED
    BY <1>1, <2>4 DEF TimersInv
<1>3. CASE SetKey
  <2>1. tun' = [tun EXCEPT !.session = "none", !.spare = -1]
    BY <1>3 DEF SetKey
  <2>2. tun' \in Tunnels
    BY <1>1, <2>1, Stamps, Zenon DEF Tunnels
  <2>3. /\ tun'.hs = tun.hs /\ tun'.queue = tun.queue /\ tun'.burst = tun.burst
        /\ tun'.est = tun.est /\ tun'.started = tun.started /\ tun'.lag = tun.lag
        /\ tun'.session = "none" /\ tun'.spare = -1 /\ (tun'.previous <=> tun.previous)
    BY <1>1, <2>1 DEF Tunnels
  <2>4. Holds(tun', cycle, flush)
    BY <1>1, <2>2, <2>3 DEF Holds, Drives, Owing
  <2>5. QED
    BY <1>1, <2>4 DEF TimersInv
<1>4. QED
  BY <1>2, <1>3

\* Obfuscation and keepalive are set on a live tunnel.
LEMMA SettingStep ==
  ASSUME TimersInv,
         \/ \E c \in Configs : SetObfuscation(c)
         \/ \E range \in Intervals, d \in BOOLEAN : SetPersistentKeepalive(range, d)
  PROVE  TimersInv'
<1>1. tun \in Tunnels /\ Holds(tun, cycle, flush) /\ UNCHANGED <<flush, cycle>>
  BY Zenon DEF TimersInv, Holds, SetObfuscation, SetPersistentKeepalive
<1>2. ASSUME NEW c \in Configs, SetObfuscation(c) PROVE TimersInv'
  <2>1. PICK b : b = IF <<c.grams, c.junk>> # <<tun.cfg.grams, tun.cfg.junk>>
                     THEN RestartBurst(tun, c) ELSE tun.burst
    OBVIOUS
  <2>2. /\ b \in Pending \cup {NoBurst} /\ (b = NoBurst <=> tun.burst = NoBurst)
        /\ tun.burst # NoBurst => (b.owed <=> tun.burst.owed)
    <3>1. CASE b = tun.burst
      BY <1>1, <3>1 DEF Tunnels
    <3>2. CASE b = RestartBurst(tun, c) /\ tun.burst # NoBurst
      <4>1. tun.burst \in Pending
        BY <1>1, <3>2 DEF Tunnels
      <4>2. c.grams \in Nat /\ c.junk \in Nat /\ tun.burst.last \in Age /\ tun.burst.owed \in BOOLEAN
        <5>1. c \in [grams: Nat, junk: Nat, tuned: BOOLEAN]
          BY <1>2, TimersAssumption
        <5>2. QED
          BY <4>1, <5>1 DEF Pending
      <4>3. b = [grams |-> c.grams, junk |-> c.junk, last |-> tun.burst.last, owed |-> tun.burst.owed]
        BY <3>2 DEF RestartBurst, Burst
      <4>4. b \in Pending
        BY <4>2, <4>3, Zenon DEF Pending
      <4>5. QED
        BY <3>2, <4>3, <4>4, BurstsApart
    <3>3. CASE b = RestartBurst(tun, c) /\ tun.burst = NoBurst
      BY <3>3, Zenon DEF RestartBurst
    <3>4. QED
      BY <2>1, <3>1, <3>2, <3>3
  <2>3. tun' = [tun EXCEPT !.cfg = c, !.burst = b]
    BY <1>2, <2>1, Zenon DEF SetObfuscation
  <2>4. tun' \in Tunnels
    BY <1>1, <2>2, <2>3, Zenon DEF Tunnels
  <2>5. /\ tun'.hs = tun.hs /\ tun'.queue = tun.queue /\ tun'.burst = b
        /\ tun'.est = tun.est /\ tun'.started = tun.started /\ tun'.lag = tun.lag
        /\ tun'.session = tun.session /\ tun'.spare = tun.spare /\ (tun'.previous <=> tun.previous)
    BY <1>1, <2>3 DEF Tunnels
  <2>6. Holds(tun', cycle, flush)
    BY <1>1, <2>2, <2>4, <2>5 DEF Holds, Drives, Owing
  <2>7. QED
    BY <1>1, <2>6 DEF TimersInv
<1>3. ASSUME NEW range \in Intervals, NEW d \in BOOLEAN, SetPersistentKeepalive(range, d)
      PROVE  TimersInv'
  <2>1. range \in Nat \X Nat
    BY TimersAssumption
  <2>2. PICK n \in Nat : n = IF d THEN range[2] ELSE range[1]
    BY <2>1
  <2>3. PICK due \in BOOLEAN : due = IF range = Off THEN FALSE ELSE tun.due \/ tun.range = Off
    BY <1>1, Zenon DEF Tunnels
  <2>4. PICK unmet \in BOOLEAN : unmet = IF range = Off THEN FALSE ELSE tun.unmet \/ tun.range = Off
    BY <1>1, Zenon DEF Tunnels
  <2>5. tun' = [tun EXCEPT !.range = range, !.interval = n, !.due = due, !.unmet = unmet]
    BY <1>3, <2>2, <2>3, <2>4, Zenon DEF SetPersistentKeepalive
  <2>6. tun' \in Tunnels
    BY <1>1, <2>5, Zenon DEF Tunnels
  <2>7. /\ tun'.hs = tun.hs /\ tun'.queue = tun.queue /\ tun'.burst = tun.burst
        /\ tun'.est = tun.est /\ tun'.started = tun.started /\ tun'.lag = tun.lag
        /\ tun'.session = tun.session /\ tun'.spare = tun.spare /\ (tun'.previous <=> tun.previous)
    BY <1>1, <2>5 DEF Tunnels
  <2>8. Holds(tun', cycle, flush)
    BY <1>1, <2>6, <2>7 DEF Holds, Drives, Owing
  <2>9. QED
    BY <1>1, <2>8 DEF TimersInv
<1>4. QED
  BY <1>2, <1>3, Zenon


\* The caps on ages are numbers.
LEMMA Caps ==
  /\ Zero \in Nat /\ MaxLag \in Nat /\ MaxLag <= Zero /\ Window \in Nat /\ Window <= Zero
  /\ MaxInterval \in Nat
  /\ Reject \in Nat /\ Retransmit \in Nat /\ Keepalive \in Nat /\ NewHandshake \in Nat /\ Delay \in Nat
<1>1. /\ Keepalive \in Nat /\ NewHandshake \in Nat /\ Retransmit \in Nat /\ Reject \in Nat
      /\ Window \in Nat /\ Delay \in Nat /\ MaxLag \in Nat
  BY TimersAssumption
<1>2. Zero \in Nat /\ MaxLag <= Zero /\ Window <= Zero
  BY <1>1, TimersAssumption DEF Zero
<1>3. Ends \subseteq Nat
  <2>1. Intervals \subseteq Nat \X Nat
    BY TimersAssumption
  <2>2. QED
    BY <1>1, <2>1 DEF Ends
<1>4. MaxInterval \in Ends
  <2>1. \E m \in Ends : \A n \in Ends : n <= m
    BY TimersAssumption
  <2>2. QED
    BY <2>1, Zenon DEF MaxInterval, Longest
<1>5. QED
  BY <1>1, <1>2, <1>3, <1>4

\* Time passes, for the cycle as for the stamps.
LEMMA PassStep ==
  ASSUME TimersInv, Pass
  PROVE  TimersInv'
<1>1. tun \in Tunnels /\ Holds(tun, cycle, flush) /\ flush' = flush /\ tun.lag < MaxLag
  BY DEF TimersInv, Holds, Pass
<1>2. \A a \in Age, n \in Nat : Aged(a, n) \in Age
  BY DEF Age, Aged, Least
<1>3. \A a \in Nat, n \in Nat : Least(a + 1, n) \in Nat
  BY DEF Least
<1>4. /\ tun.lag \in 0..MaxLag /\ tun.sess \in Nat /\ tun.hsAge \in Nat /\ tun.est \in Nat /\ tun.started \in Nat
      /\ tun.pk \in Nat /\ tun.ka \in Age /\ tun.nh \in Age /\ tun.spare \in Age
      /\ tun.burst \in Pending \cup {NoBurst}
  BY <1>1 DEF Tunnels
<1>5. PICK hsAge \in Nat : hsAge = IF tun.hs = "InitSent" THEN Least(tun.hsAge + 1, Retransmit) ELSE 0
  BY <1>3, <1>4, Caps
<1>6. PICK b : b = [tun.burst EXCEPT !.last = Aged(tun.burst.last, Delay)]
  BY Zenon
<1>7. /\ b \in Pending \cup {NoBurst} /\ (b = NoBurst <=> tun.burst = NoBurst)
      /\ tun.burst # NoBurst => (b.owed <=> tun.burst.owed)
  <2>1. CASE tun.burst = NoBurst
    BY <1>6, <2>1 DEF NoBurst, Aged
  <2>2. CASE tun.burst \in Pending
    <3>1. tun.burst.last \in Age
      BY <2>2 DEF Pending
    <3>2. Aged(tun.burst.last, Delay) \in Age
      BY <1>2, <3>1, Caps
    <3>3. b \in Pending
      BY <1>6, <2>2, <3>2, Zenon DEF Pending
    <3>4. b.owed <=> tun.burst.owed
      BY <1>6, <2>2 DEF Pending
    <3>5. QED
      BY <2>2, <3>3, <3>4, BurstsApart
  <2>3. QED
    BY <1>4, <2>1, <2>2
<1>8. PICK lag \in 0..MaxLag : lag = tun.lag + 1
  BY <1>1, <1>4, Caps
<1>9. PICK est, started, sess, pk \in Nat :
        /\ est = Least(tun.est + 1, Zero) /\ started = Least(tun.started + 1, Window)
        /\ sess = Least(tun.sess + 1, Reject + 1) /\ pk = Least(tun.pk + 1, MaxInterval)
  <2>1. Least(tun.est + 1, Zero) \in Nat /\ Least(tun.started + 1, Window) \in Nat
    BY <1>3, <1>4, Caps
  <2>2. Least(tun.sess + 1, Reject + 1) \in Nat /\ Least(tun.pk + 1, MaxInterval) \in Nat
    BY <1>3, <1>4, Caps
  <2>3. QED
    BY <2>1, <2>2, Zenon
<1>10. PICK ka, nh, spare \in Age :
        /\ ka = Aged(tun.ka, Keepalive) /\ nh = Aged(tun.nh, NewHandshake)
        /\ spare = Aged(tun.spare, Reject + 1)
  <2>1. Aged(tun.ka, Keepalive) \in Age /\ Aged(tun.nh, NewHandshake) \in Age
    BY <1>2, <1>4, Caps, SMTT(30)
  <2>2. Reject + 1 \in Nat
    BY Caps
  <2>3. Aged(tun.spare, Reject + 1) \in Age
    BY <1>2, <1>4, <2>2
  <2>4. QED
    BY <2>1, <2>3, Zenon
<1>11. tun' = [tun EXCEPT !.lag = lag, !.sess = sess, !.hsAge = hsAge, !.est = est,
                  !.started = started, !.pk = pk, !.ka = ka, !.nh = nh, !.spare = spare, !.burst = b]
  <2>1. tun' = [tun EXCEPT
          !.lag = tun.lag + 1, !.sess = Least(tun.sess + 1, Reject + 1),
          !.hsAge = IF tun.hs = "InitSent" THEN Least(tun.hsAge + 1, Retransmit) ELSE 0,
          !.est = Least(tun.est + 1, Zero), !.started = Least(tun.started + 1, Window),
          !.pk = Least(tun.pk + 1, MaxInterval), !.ka = Aged(tun.ka, Keepalive),
          !.nh = Aged(tun.nh, NewHandshake), !.spare = Aged(tun.spare, Reject + 1),
          !.burst = [tun.burst EXCEPT !.last = Aged(tun.burst.last, Delay)]]
    BY DEF Pass
  <2>2. QED
    BY <1>5, <1>6, <1>8, <1>9, <1>10, <2>1
<1>12. tun' \in Tunnels
  BY <1>1, <1>7, <1>11, Zenon DEF Tunnels
<1>13. /\ tun'.hs = tun.hs /\ tun'.queue = tun.queue /\ tun'.burst = b
       /\ tun'.est = est /\ tun'.started = started /\ tun'.lag = lag
       /\ tun'.session = tun.session /\ tun'.spare = spare /\ (tun'.previous <=> tun.previous)
  BY <1>1, <1>11 DEF Tunnels
<1>14. /\ cycle \in Age /\ cycle' \in Age /\ (cycle' = -1 <=> cycle = -1)
       /\ cycle # -1 => lag <= cycle' /\ (tun.est <= cycle => est <= cycle')
                        /\ (tun.started <= cycle => started <= cycle')
  <2>1. cycle \in Age /\ cycle' = Aged(cycle, Zero)
    BY <1>1 DEF Holds, Pass
  <2>2. cycle # -1 => tun.lag <= cycle
    BY <1>1 DEF Holds
  <2>3. QED
    BY <1>4, <1>8, <1>9, <2>1, <2>2, Caps DEF Aged, Least, Age
<1>15. tun.spare = -1 => spare = -1
  BY <1>10 DEF Aged
<1>16. Holds(tun', cycle', flush)
  BY <1>1, <1>7, <1>12, <1>13, <1>14, <1>15 DEF Holds, Drives, Owing
<1>17. QED
  BY <1>1, <1>16 DEF TimersInv


\* The calls that may send.
LEMMA CallStep ==
  ASSUME TimersInv, NEW fits \in BOOLEAN, NEW d \in BOOLEAN,
         \/ Tick(fits, d) \/ Write(fits, d)
         \/ \E force \in BOOLEAN : Initiate(fits, d, force)
  PROVE  TimersInv'
<1>1. Holds(tun, cycle, flush)
  BY DEF TimersInv
<1>2. CASE Tick(fits, d)
  <2>1. PICK r : r = UpdateTimers(tun, fits, d)
    OBVIOUS
  <2>2. Returns(r) /\ flush' = flush
    BY <1>2, <2>1 DEF Tick
  <2>3. Holds(r.t, After(tun, cycle, r), flush)
    BY <1>1, <2>1, UpdateServed, Zenon DEF Served
  <2>4. QED
    BY <2>2, <2>3, ReturnsHold
<1>3. CASE Write(fits, d)
  <2>1. PICK r : r = Encapsulate(tun, fits, d, TRUE)
    BY Zenon
  <2>2. Returns(r) /\ flush' = flush
    BY <1>3, <2>1, Zenon DEF Write
  <2>3. TRUE \in BOOLEAN
    OBVIOUS
  <2>4. Returned(tun, cycle, flush, r)
    BY <1>1, <2>1, <2>3, EncapsulateReturns, Zenon
  <2>5. QED
    BY <2>2, <2>4, ReturnsHold DEF Returned
<1>4. ASSUME NEW force \in BOOLEAN, Initiate(fits, d, force) PROVE TimersInv'
  <2>1. PICK r : r = Format(tun, fits, d, force)
    OBVIOUS
  <2>2. Returns(r) /\ flush' = flush
    BY <1>4, <2>1 DEF Initiate
  <2>3. Answers(tun, cycle, flush, r)
    BY <1>1, <2>1, FormatAnswers
  <2>4. QED
    BY <2>2, <2>3, ReturnsHold DEF Answers
<1>5. QED
  BY <1>2, <1>3, <1>4

LEMMA DrainStep ==
  ASSUME TimersInv, NEW fits \in BOOLEAN, NEW d \in BOOLEAN, NEW data \in BOOLEAN,
         NEW drop \in 0..MaxQueue, drop <= tun.queue, Drain(fits, d, data, drop)
  PROVE  TimersInv'
<1>1. Holds(tun, cycle, flush) /\ drop \in Nat
  BY TimersAssumption DEF TimersInv
<1>2. PICK r : r = SendQueued(tun, fits, d, data, drop)
  OBVIOUS
<1>3. Returns(r) /\ flush' = (flush /\ r.out # "done")
  BY <1>2 DEF Drain
<1>4. Holds(r.t, After(tun, cycle, r), flush /\ r.out # "done")
  BY <1>1, <1>2, DrainReturns
<1>5. tun' = r.t /\ cycle' = After(tun, cycle, r)
  BY <1>3 DEF Returns, After
<1>6. QED
  BY <1>3, <1>4, <1>5, Zenon DEF TimersInv

\* Every tunnel begins in it.
LEMMA TimersInit == Init => TimersInv
<1> SUFFICES ASSUME Init PROVE TimersInv
  OBVIOUS
<1>1. /\ tun.hs = "None" /\ tun.hsAge = 0 /\ tun.previous = FALSE /\ tun.session = "none"
      /\ tun.sess = 0 /\ tun.spare = -1 /\ tun.initiator = FALSE /\ tun.est = 0
      /\ tun.started = 0 /\ tun.sent = FALSE /\ tun.recv = FALSE /\ tun.ka = -1
  BY Zenon DEF Init
<1>2. /\ tun.nh = -1 /\ tun.pk = 0 /\ tun.lag = 0 /\ tun.range \in Intervals
      /\ tun.interval \in 0..MaxInterval /\ tun.due \in BOOLEAN /\ tun.unmet \in BOOLEAN
      /\ tun.attempts = 0 /\ tun.queue = 0 /\ tun.burst = NoBurst /\ tun.cfg \in Configs
  BY DEF Init
<1>3. tun = [hs |-> tun.hs, hsAge |-> tun.hsAge, previous |-> tun.previous, session |-> tun.session,
             sess |-> tun.sess, spare |-> tun.spare, initiator |-> tun.initiator, est |-> tun.est,
             started |-> tun.started, sent |-> tun.sent, recv |-> tun.recv, ka |-> tun.ka,
             nh |-> tun.nh, pk |-> tun.pk, lag |-> tun.lag, range |-> tun.range,
             interval |-> tun.interval, due |-> tun.due, unmet |-> tun.unmet,
             attempts |-> tun.attempts, queue |-> tun.queue, burst |-> tun.burst, cfg |-> tun.cfg]
  BY Zenon DEF Init
<1>4. /\ tun.interval \in Nat /\ 0 \in Nat /\ FALSE \in BOOLEAN
  BY <1>2, Caps
<1>5. tun \in Tunnels
  BY <1>1, <1>2, <1>3, <1>4, Stamps, Zenon DEF Tunnels
<1>6. cycle = -1 /\ flush = FALSE
  BY DEF Init
<1>7. QED
  <2>1. cycle \in Age /\ flush \in BOOLEAN
    BY <1>6, Stamps, Zenon
  <2>2. tun.hs # "Expired" /\ ~(tun.queue > 0) /\ cycle = -1
    BY <1>1, <1>2, <1>6
  <2>3. QED
    BY <1>5, <2>1, <2>2 DEF TimersInv, Holds

LEMMA TimersStep == TimersInv /\ [Next]_vars => TimersInv'
<1> SUFFICES ASSUME TimersInv, [Next]_vars PROVE TimersInv'
  OBVIOUS
<1>1. Draws \subseteq BOOLEAN /\ Fits \subseteq BOOLEAN
  BY DrawnFrom
<1>2. CASE UNCHANGED vars
  BY <1>2 DEF vars, TimersInv
<1>3. CASE Ticks \/ \E fits \in Fits, d \in Draws :
             \/ Write(fits, d) \/ \E force \in BOOLEAN : Initiate(fits, d, force)
  BY <1>1, <1>3, CallStep DEF Ticks
<1>4. CASE \E fits \in Fits, d \in Draws, data \in BOOLEAN, drop \in 0..MaxQueue :
             drop <= tun.queue /\ Drain(fits, d, data, drop)
  BY <1>1, <1>4, DrainStep
<1>5. CASE \E d \in Draws :
             \/ ReceiveInitiation(d) \/ ReceiveResponse(d)
             \/ \E data, onSpare \in BOOLEAN : ReceiveData(d, data, onSpare)
  BY <1>1, <1>5, HandshakeStep, DataStep
<1>6. CASE \/ \E c \in Configs : SetObfuscation(c)
           \/ \E range \in Intervals, d \in BOOLEAN : SetPersistentKeepalive(range, d)
  BY <1>6, SettingStep
<1>7. CASE Exhaust \/ SetKey
  BY <1>7, SessionStep
<1>8. CASE Pass
  BY <1>8, PassStep
<1>9. QED
  BY <1>2, <1>3, <1>4, <1>5, <1>6, <1>7, <1>8 DEF Next, Calls

LEMMA TimersInvariant == Spec => []TimersInv
BY TimersInit, TimersStep, PTL DEF Spec

\* A packet accepted for a session that is not there always has something that will
\* bring one up or give the packet up: QueuedHasDriver, whatever the deadlines,
\* the queue's depth and the settings (queue_packet, set_obfuscation,
\* update_timers_with_budget).
THEOREM QueuedDriven == Spec => []QueuedHasDriver
<1>1. TimersInv => QueuedHasDriver
  BY DEF TimersInv, Holds, Drives, QueuedHasDriver
<1>2. QED
  BY <1>1, TimersInvariant, PTL

\* Neither absolute bound counts time from before the cycle it ends:
\* BoundsMeasureTheCycle (reset_expired_timers_on_first_emit, Timers::clear).
THEOREM BoundsMeasured == Spec => []BoundsMeasureTheCycle
<1>1. TimersInv => BoundsMeasureTheCycle
  BY DEF TimersInv, Holds, BoundsMeasureTheCycle
<1>2. QED
  BY <1>1, TimersInvariant, PTL

\* A tick whose output is refused gives back every demand it spent:
\* RefusedTickSpendsNothing, in every state and for every draw
\* (update_timers_with_budget).
THEOREM RefusalSpendsNothing == Spec => []RefusedTickSpendsNothing
<1>1. TimersInv => RefusedTickSpendsNothing
  <2> SUFFICES ASSUME TimersInv, NEW fits \in BOOLEAN, NEW d \in Draws,
                      NEW r, r = UpdateTimers(tun, fits, d), r.out = "err"
               PROVE  /\ <<r.t.ka, r.t.due, r.t.pk, r.t.interval>>
                         = <<tun.ka, tun.due, tun.pk, tun.interval>>
                      /\ r.t.nh = tun.nh \/ r.t.burst # NoBurst
                      /\ r.t.queue = tun.queue
    BY DEF RefusedTickSpendsNothing
  <2>1. Holds(tun, cycle, flush) /\ d \in BOOLEAN
    BY DrawnFrom DEF TimersInv
  <2>2. Served(tun, tun, cycle, flush, r)
    BY <2>1, UpdateServed
  <2>3. Refunds(tun, r.t) /\ tun \in Tunnels /\ r.t \in Tunnels
    BY <2>1, <2>2 DEF Served, Holds
  <2>4. r.t.due = tun.due
    BY <2>3, Zenon DEF Refunds, Tunnels
  <2>5. QED
    BY <2>3, <2>4 DEF Refunds
<1>2. QED
  BY <1>1, TimersInvariant, PTL
=============================================================================
