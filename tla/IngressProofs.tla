-------------------------- MODULE IngressProofs --------------------------
(***************************************************************************)
(* The structures all workers share when datagrams come in.                *)
(*                                                                         *)
(* The ceiling of ProbeBudget for any rate, any number of workers and any  *)
(* sizes of replies.  BudgetInv is inductive: a worker's stamp is never    *)
(* ahead of the clock it read, and what was granted and what is left come  *)
(* to no more than the allowance up to the stamp of the balance.           *)
(*                                                                         *)
(* That the handshake limiter keeps no reading from its trial but by its   *)
(* own verdict, for any limits, slots and orders of readings.  LimiterInv  *)
(* says at every place of a call what is decided of its datagram so far.   *)
(*                                                                         *)
(* That no worker is handed stale evidence from the table of hints, for    *)
(* any capacity and lifetime.  HintInv keeps the order by age.             *)
(*                                                                         *)
(* That a tunnel's cookies move forward, for any secrets, restarts and     *)
(* late or repeated replies.  CookieInv keeps a message, the reply to it   *)
(* and the cookie of the tunnel in order.                                  *)
(***************************************************************************)
EXTENDS IngressTables, TLAPS

\* What the code's types and MAX_BYTES_PER_SEC make of the constants, and a
\* behaviour shorter than a turn of the clock.
BudgetConstants ==
  /\ Rate \in Nat /\ Milli \in Nat /\ MaxTime \in Nat /\ Sizes \subseteq Nat
  /\ ClockSize \in Nat /\ ClockSize > MaxTime + 2

BudgetType ==
  /\ tokens \in 0..Cap /\ spent \in Nat /\ {time, anchor, mark} \subseteq Nat
  /\ pc \in [Workers -> {"idle", "load", "clock", "swap"}]
  /\ old \in [Workers -> Nat \X Nat] /\ read \in [Workers -> Nat] /\ want \in [Workers -> Nat]

\* When this behaviour began.
Start == IF time < Late THEN 0 ELSE Late

StampsPast ==
  /\ time <= Start + MaxTime
  /\ anchor \in Start..time /\ mark \in Start..time
  /\ \A w \in Workers : pc[w] \in {"clock", "swap"} =>
       \E a \in Start..time : /\ old[w][2] = Millis(a)
                              /\ pc[w] = "swap" => read[w] \in a..time

Account ==
  IF anchor >= mark THEN spent + tokens <= Cap + Rate * (anchor - mark) ELSE spent = 0

BudgetInv == BudgetType /\ StampsPast /\ Account

-----------------------------------------------------------------------------
\* Allowances of two stretches of time add up, and grow with it.
LEMMA Stretches ==
  ASSUME NEW rate \in Nat, NEW x \in Nat, NEW y \in Nat
  PROVE  /\ rate * (x + y) = rate * x + rate * y
         /\ rate * x \in Nat /\ rate * x <= rate * (x + y)
<1>1. rate * (x + y) = rate * x + rate * y
  OBVIOUS
<1>2. rate * x \in Nat /\ rate * y \in Nat
  OBVIOUS
<1> QED BY <1>1, <1>2

\* The millisecond clock over its first two turns.
LEMMA Wraps ==
  ASSUME NEW t \in Nat, NEW n \in Nat \ {0}, t < n + n
  PROVE  (t % n) = IF t < n THEN t ELSE t - n
<1>1. (t % n) \in 0..(n - 1) /\ (t \div n) \in Nat /\ t = n * (t \div n) + (t % n)
  OBVIOUS
<1>2. PICK q \in Nat, r \in 0..(n - 1) : t = n * q + r /\ r = (t % n)
  BY <1>1, Zenon
<1>3. q = 0 \/ q = 1
  <2>1. ASSUME q >= 2 PROVE FALSE
    <3>1. n * q >= n * 2
      BY <2>1, <1>2
    <3> QED BY <1>2, <3>1
  <2> QED BY <1>2, <2>1
<1>4. CASE q = 0
  <2>1. n * q = 0
    BY <1>4
  <2> QED BY <1>2, <2>1
<1>5. CASE q = 1
  <2>1. n * q = n
    BY <1>5
  <2> QED BY <1>2, <2>1
<1> QED BY <1>3, <1>4, <1>5, Zenon

\* Within one behaviour the wrapped clock tells times apart, and never makes
\* a stretch of time longer than it was.
LEMMA ClockSound ==
  ASSUME BudgetConstants, NEW s \in {0, Late}, NEW a \in s..(s + MaxTime), NEW r \in s..(s + MaxTime)
  PROVE  /\ Millis(a) = Millis(r) => a = r
         /\ a <= r /\ Millis(r) >= Millis(a) => Millis(r) - Millis(a) = r - a
         /\ Millis(a) \in Nat /\ Millis(r) \in Nat
<1>1. ClockSize \in Nat \ {0} /\ ClockSize > MaxTime + 2 /\ MaxTime \in Nat /\ s \in Nat /\ s < ClockSize
  BY DEF BudgetConstants, Late
<1>2. a \in Nat /\ r \in Nat /\ a < ClockSize + ClockSize /\ r < ClockSize + ClockSize
  BY <1>1
<1>3. Millis(a) = IF a < ClockSize THEN a ELSE a - ClockSize
  BY <1>1, <1>2, Wraps, Zenon DEF Millis
<1>4. Millis(r) = IF r < ClockSize THEN r ELSE r - ClockSize
  BY <1>1, <1>2, Wraps, Zenon DEF Millis
<1> HIDE DEF Millis
<1> QED BY <1>1, <1>2, <1>3, <1>4

\* A draw on a balance struck at a, by a caller that read the clock at r: what
\* was granted and what is left stay within the allowance up to r.
LEMMA Draw ==
  ASSUME NEW cap \in Nat, NEW rate \in Nat, NEW tok \in Nat, NEW a \in Nat, NEW r \in Nat, NEW m \in Nat,
         NEW sp \in Nat, NEW avail \in Nat, a <= r, avail <= cap, avail <= tok + rate * (r - a),
         IF a >= m THEN sp + tok <= cap + rate * (a - m) ELSE sp = 0
  PROVE  IF r >= m THEN sp + avail <= cap + rate * (r - m) ELSE sp = 0
<1>1. CASE a >= m
  <2>1. PICK x \in Nat : x = a - m
    BY <1>1
  <2>2. PICK y \in Nat : y = r - a
    OBVIOUS
  <2>3. rate * (r - m) = rate * x + rate * y
    <3>1. r - m = x + y
      BY <2>1, <2>2
    <3> QED BY <3>1, Stretches
  <2>4. rate * x \in Nat /\ rate * y \in Nat
    BY Stretches, Zenon
  <2>5. sp + tok <= cap + rate * x /\ avail <= tok + rate * y
    BY <1>1, <2>1, <2>2, Zenon
  <2>6. PICK p \in Nat, q \in Nat : p = rate * x /\ q = rate * y
    BY <2>4, Zenon
  <2>7. sp + avail <= cap + (p + q)
    BY <2>5, <2>6
  <2> QED BY <1>1, <2>3, <2>6, <2>7
<1>2. CASE a < m
  <2>1. CASE r >= m
    <3>1. PICK z \in Nat : z = r - m
      BY <2>1
    <3>2. rate * z \in Nat
      BY Stretches, Zenon
    <3>3. PICK p \in Nat : p = rate * (r - m)
      BY <3>1, <3>2, Zenon
    <3> QED BY <1>2, <2>1, <3>3
  <2> QED BY <1>2, <2>1
<1> QED BY <1>1, <1>2

\* A second's allowance is a number of millibytes.
LEMMA CapType == ASSUME BudgetConstants PROVE Cap \in Nat
BY DEF BudgetConstants, Cap

\* A behaviour starts with the clock at 0, or just before it wraps.
LEMMA StartKnown ==
  ASSUME BudgetConstants
  PROVE  Start \in {0, Late} /\ Late \in Nat /\ Late > MaxTime + 1
BY DEF BudgetConstants, Start, Late

\* A new budget satisfies the invariant.
LEMMA BudgetInit == ASSUME BudgetConstants, Init PROVE BudgetInv
<1>1. Cap \in Nat /\ Late \in Nat /\ Late > MaxTime + 1 /\ MaxTime \in Nat /\ Rate \in Nat
  BY CapType, StartKnown, Zenon DEF BudgetConstants
<1>2. tokens \in 0..Cap /\ time \in {0, Late} /\ anchor = time /\ mark = time /\ spent = Cap - tokens
  BY <1>1 DEF Init
<1>3. BudgetType
  BY <1>1, <1>2 DEF Init, BudgetType
<1>4. Start = time
  BY <1>1, <1>2 DEF Start
<1>5. StampsPast
  BY <1>1, <1>2, <1>4 DEF Init, StampsPast
<1>6. Account
  <2>1. Rate * (anchor - mark) = 0
    BY <1>1, <1>2
  <2> QED BY <1>1, <1>2, <2>1 DEF Account
<1> QED BY <1>3, <1>5, <1>6, Zenon DEF BudgetInv

\* What a caller finds available is at most what accrued since the stamp of
\* the balance it still holds.
LEMMA AvailableSound ==
  ASSUME BudgetConstants, BudgetInv, NEW w \in Workers, pc[w] = "swap"
  PROVE  /\ Available(w) \in 0..Cap /\ read[w] \in Start..time
         /\ Unchanged(w) => /\ anchor <= read[w]
                            /\ Available(w) <= tokens + Rate * (read[w] - anchor)
<1>0. /\ Cap \in Nat /\ Start \in {0, Late} /\ Rate \in Nat /\ MaxTime \in Nat
      /\ tokens \in 0..Cap /\ time \in Nat /\ time <= Start + MaxTime /\ anchor \in Start..time
      /\ old[w] \in Nat \X Nat /\ Late \in Nat
  BY CapType, StartKnown, Zenon DEF BudgetConstants, BudgetInv, BudgetType, StampsPast
<1>1. PICK a \in Start..time : old[w][2] = Millis(a) /\ read[w] \in a..time
  BY Zenon DEF BudgetInv, StampsPast
<1>2. PICK s \in {0, Late} : s = Start
  BY <1>0, Zenon
<1>3. a \in s..(s + MaxTime) /\ read[w] \in s..(s + MaxTime) /\ anchor \in s..(s + MaxTime) /\ a <= read[w]
  BY <1>0, <1>1, <1>2
<1>4. /\ Millis(read[w]) >= Millis(a) => Millis(read[w]) - Millis(a) = read[w] - a
      /\ Millis(a) = Millis(anchor) => a = anchor
      /\ Millis(a) \in Nat /\ Millis(read[w]) \in Nat
  BY <1>3, ClockSound, Zenon
<1>5. PICK y \in Nat : y = read[w] - a
  BY <1>0, <1>2, <1>3
<1>6. Elapsed(w) \in Nat /\ (Elapsed(w) = 0 \/ Elapsed(w) = y)
  BY <1>1, <1>4, <1>5, Zenon DEF Elapsed
<1>7. Elapsed(w) * Rate \in Nat /\ Elapsed(w) * Rate <= Rate * y
  BY <1>0, <1>6
<1>8. old[w][1] \in Nat
  BY <1>0, Zenon
<1>9. Available(w) \in 0..Cap /\ Available(w) <= old[w][1] + Rate * y
  <2>1. PICK e \in Nat, f \in Nat : e = Elapsed(w) * Rate /\ f = Rate * y /\ e <= f
    BY <1>0, <1>7
  <2> QED BY <1>0, <1>8, <2>1 DEF Available, SmallerOf
<1>10. ASSUME Unchanged(w)
       PROVE  anchor <= read[w] /\ Available(w) <= tokens + Rate * (read[w] - anchor)
  <2>1. old[w][1] = tokens /\ Millis(a) = Millis(anchor)
    BY <1>1, <1>10 DEF Unchanged, Word
  <2>2. a = anchor
    BY <1>4, <2>1, Zenon
  <2> QED BY <1>3, <1>5, <1>9, <2>1, <2>2, Zenon
<1>11. read[w] \in Start..time
  BY <1>0, <1>1, <1>2
<1> QED BY <1>9, <1>10, <1>11, Zenon

\* What the steps before the swap leave alone.
LEMMA ApproachStep ==
  ASSUME BudgetConstants, BudgetInv, NEW w \in Workers,
         Begin(w) \/ Load(w) \/ ReadClock(w) \/ Retry(w)
  PROVE  BudgetInv'
<1>0. /\ BudgetType /\ StampsPast /\ Account /\ Start \in {0, Late} /\ Late \in Nat
      /\ Cap \in Nat /\ Milli \in Nat /\ Sizes \subseteq Nat
  BY StartKnown, CapType, Zenon DEF BudgetInv, BudgetConstants
<1>1. UNCHANGED <<tokens, anchor, time, spent, mark>> /\ Start' = Start
  BY Zenon DEF Begin, Load, ReadClock, Retry, Start
<1>2. Account'
  BY <1>0, <1>1, Zenon DEF Account
<1>3. anchor \in Start..time /\ Millis(anchor) \in Nat /\ time \in Nat /\ tokens \in Nat
  <2>1. anchor \in Start..time /\ time <= Start + MaxTime /\ time \in Nat /\ Start \in Nat /\ MaxTime \in Nat
    BY <1>0 DEF StampsPast, BudgetType, BudgetConstants
  <2>2. anchor \in Start..(Start + MaxTime)
    BY <2>1
  <2>3. Millis(anchor) \in Nat
    BY <1>0, <2>2, ClockSound, Zenon
  <2> QED BY <1>0, <2>1, <2>3 DEF BudgetType
<1>4. BudgetType'
  <2>1. CASE Begin(w)
    <3>1. PICK bytes \in Nat : want' = [want EXCEPT ![w] = bytes * Milli]
      BY <1>0, <2>1, Zenon DEF Begin
    <3>2. bytes * Milli \in Nat
      BY <1>0
    <3> QED BY <1>0, <1>1, <2>1, <3>1, <3>2, Zenon DEF Begin, BudgetType
  <2>2. CASE Load(w)
    BY <1>0, <1>1, <1>3, <2>2, Zenon DEF Load, Word, BudgetType
  <2>3. CASE ReadClock(w)
    BY <1>0, <1>1, <1>3, <2>3, Zenon DEF ReadClock, BudgetType
  <2>4. CASE Retry(w)
    BY <1>0, <1>1, <2>4, Zenon DEF Retry, BudgetType
  <2> QED BY <2>1, <2>2, <2>3, <2>4, Zenon
<1>5. \A v \in Workers : pc'[v] \in {"clock", "swap"} =>
        \E a \in Start..time : /\ old'[v][2] = Millis(a)
                               /\ pc'[v] = "swap" => read'[v] \in a..time
  <2> SUFFICES ASSUME NEW v \in Workers, pc'[v] \in {"clock", "swap"}
               PROVE  \E a \in Start..time : /\ old'[v][2] = Millis(a)
                                             /\ pc'[v] = "swap" => read'[v] \in a..time
    BY Zenon
  <2>1. CASE v # w \/ UNCHANGED <<pc, old, read>>
    <3>1. pc'[v] = pc[v] /\ old'[v] = old[v] /\ read'[v] = read[v]
      BY <1>0, <2>1, Zenon DEF BudgetType, Begin, Load, ReadClock, Retry
    <3> QED BY <1>0, <3>1, Zenon DEF StampsPast
  <2>2. CASE v = w /\ (Begin(w) \/ Retry(w))
    BY <1>0, <2>2, Zenon DEF Begin, Retry, BudgetType
  <2>3. CASE v = w /\ Load(w)
    <3>1. old'[v][2] = Millis(anchor) /\ pc'[v] = "clock"
      BY <1>0, <2>3, Zenon DEF Load, Word, BudgetType
    <3> QED BY <1>3, <3>1, Zenon
  <2>4. CASE v = w /\ ReadClock(w)
    <3>1. old'[v] = old[v] /\ pc[v] = "clock" /\ read'[v] = time
      BY <1>0, <2>4, Zenon DEF ReadClock, BudgetType
    <3>2. PICK a \in Start..time : old[v][2] = Millis(a)
      BY <1>0, <3>1, Zenon DEF StampsPast
    <3>3. time \in a..time
      BY <1>0, <1>3, <3>2
    <3> QED BY <3>1, <3>2, <3>3, Zenon
  <2> QED BY <2>1, <2>2, <2>3, <2>4, Zenon
<1>6. StampsPast'
  BY <1>0, <1>1, <1>5, Zenon DEF StampsPast
<1> QED BY <1>2, <1>4, <1>6, Zenon DEF BudgetInv

\* A caller leaves: the stamp may move up to the clock it read.
LEMMA LeaveKeeps ==
  ASSUME BudgetConstants, BudgetInv, NEW w \in Workers, AtRest(w), UNCHANGED <<time, mark>>,
         tokens' \in 0..Cap, spent' \in Nat, anchor' \in Start..time, Account'
  PROVE  BudgetInv'
<1>0. BudgetType /\ StampsPast /\ Start' = Start /\ Start \in {0, Late} /\ Late \in Nat
  BY StartKnown, Zenon DEF BudgetInv, Start
<1>1. anchor' \in Nat
  BY <1>0 DEF BudgetType
<1>2. BudgetType'
  BY <1>0, <1>1, Zenon DEF BudgetType, AtRest
<1>3. \A v \in Workers : pc'[v] \in {"clock", "swap"} =>
        \E a \in Start..time : /\ old'[v][2] = Millis(a)
                               /\ pc'[v] = "swap" => read'[v] \in a..time
  <2> SUFFICES ASSUME NEW v \in Workers, pc'[v] \in {"clock", "swap"}
               PROVE  \E a \in Start..time : /\ old'[v][2] = Millis(a)
                                             /\ pc'[v] = "swap" => read'[v] \in a..time
    BY Zenon
  <2>1. v # w
    BY <1>0, Zenon DEF AtRest, BudgetType
  <2>2. pc'[v] = pc[v] /\ old'[v] = old[v] /\ read'[v] = read[v]
    BY <1>0, <2>1, Zenon DEF AtRest, BudgetType
  <2> QED BY <1>0, <2>2, Zenon DEF StampsPast
<1>4. StampsPast'
  BY <1>0, <1>3, Zenon DEF StampsPast
<1> QED BY <1>2, <1>4, Zenon DEF BudgetInv

\* The compare-and-swap grants a request, or sends its caller round again.
LEMMA SwapStep ==
  ASSUME BudgetConstants, BudgetInv, NEW w \in Workers, Refuse(w) \/ Grant(w)
  PROVE  BudgetInv'
<1>0. /\ BudgetType /\ StampsPast /\ Account /\ Cap \in Nat /\ Rate \in Nat /\ pc[w] = "swap"
      /\ Start \in {0, Late} /\ Late \in Nat /\ AtRest(w) /\ UNCHANGED <<time, mark>>
  BY StartKnown, CapType, Zenon DEF BudgetInv, BudgetConstants, Refuse, Grant
<1>1. PICK avail \in 0..Cap : avail = Available(w)
  BY AvailableSound, <1>0, Zenon
<1>2. PICK r \in Start..time : r = read[w]
  BY AvailableSound, <1>0, Zenon
<1>3. Unchanged(w) => anchor <= r /\ avail <= tokens + Rate * (r - anchor)
  BY <1>0, <1>1, <1>2, AvailableSound, Zenon
<1>4. {anchor, r, mark, tokens, spent, time} \subseteq Nat /\ want[w] \in Nat /\ anchor \in Start..time
  BY <1>0, <1>2 DEF BudgetType, StampsPast
<1>5. Unchanged(w) => IF r >= mark THEN spent + avail <= Cap + Rate * (r - mark) ELSE spent = 0
  <2> SUFFICES ASSUME Unchanged(w)
               PROVE  IF r >= mark THEN spent + avail <= Cap + Rate * (r - mark) ELSE spent = 0
    BY Zenon
  <2>1. IF anchor >= mark THEN spent + tokens <= Cap + Rate * (anchor - mark) ELSE spent = 0
    BY <1>0, Zenon DEF Account
  <2>2. avail \in Nat /\ avail <= Cap /\ anchor <= r /\ avail <= tokens + Rate * (r - anchor)
    BY <1>0, <1>1, <1>3
  <2>3. /\ Cap \in Nat /\ Rate \in Nat /\ tokens \in Nat /\ anchor \in Nat /\ r \in Nat
        /\ mark \in Nat /\ spent \in Nat
    BY <1>0, <1>4, Zenon
  <2> HIDE DEF Cap
  <2> QED BY <2>1, <2>2, <2>3, Draw, Zenon
<1>6. CASE Refuse(w)
  <2>1. CASE UNCHANGED <<tokens, anchor>>
    <3>1. Account' /\ tokens' \in 0..Cap /\ spent' \in Nat /\ anchor' \in Start..time
      BY <1>0, <1>4, <1>6, <2>1, Zenon DEF Account, Refuse, BudgetType
    <3> QED BY <1>0, <3>1, LeaveKeeps, Zenon
  <2>2. CASE Unchanged(w) /\ tokens' = avail /\ anchor' = r
    <3>1. UNCHANGED spent
      BY <1>6, Zenon DEF Refuse
    <3>2. Account'
      BY <1>0, <1>5, <2>2, <3>1, Zenon DEF Account, Cap
    <3> QED BY <1>0, <1>4, <2>2, <3>1, <3>2, LeaveKeeps, Zenon
  <2> QED BY <1>1, <1>2, <1>6, <2>1, <2>2, Zenon DEF Refuse
<1>7. CASE Grant(w)
  <2>1. /\ Unchanged(w) /\ avail >= want[w] /\ tokens' = avail - want[w] /\ anchor' = r
        /\ spent' = IF r >= mark THEN spent + want[w] ELSE spent
    BY <1>1, <1>2, <1>7, Zenon DEF Grant
  <2>2. PICK take \in Nat : take = want[w]
    BY <1>4, Zenon
  <2>3. tokens' \in 0..Cap /\ spent' \in Nat
    BY <1>0, <1>1, <1>4, <2>1
  <2>4. Account'
    <3>1. CASE r >= mark
      <4>1. spent' = spent + take /\ tokens' = avail - take
        BY <2>1, <2>2, <3>1, Zenon
      <4>2. (spent + take) + (avail - take) = spent + avail
        BY <1>1, <1>4, <2>2
      <4>3. spent' + tokens' <= Cap + Rate * (r - mark)
        BY <1>5, <2>1, <3>1, <4>1, <4>2, Zenon
      <4> QED BY <1>0, <2>1, <3>1, <4>3, Zenon DEF Account, Cap
    <3>2. CASE ~(r >= mark)
      BY <1>0, <1>5, <2>1, <3>2, Zenon DEF Account
    <3> QED BY <3>1, <3>2, Zenon
  <2> QED BY <1>0, <2>1, <2>3, <2>4, LeaveKeeps, Zenon
<1> QED BY <1>6, <1>7, Zenon

\* Time passes within the behaviour; an observer may start to count.
LEMMA TimeStep ==
  ASSUME BudgetConstants, BudgetInv, Tick \/ Observe
  PROVE  BudgetInv'
<1>0. /\ BudgetType /\ StampsPast /\ Account /\ Cap \in Nat /\ Rate \in Nat /\ MaxTime \in Nat
      /\ Start \in {0, Late} /\ Late \in Nat /\ Late > MaxTime + 1 /\ time \in Nat
      /\ anchor \in Start..time /\ mark \in Start..time /\ tokens \in 0..Cap
  BY StartKnown, CapType, Zenon DEF BudgetInv, BudgetConstants, BudgetType, StampsPast
<1>1. CASE Tick
  <2>1. PICK t \in Nat : t = time + 1
    BY <1>0
  <2>2. time' = t /\ t \in Times /\ UNCHANGED <<tokens, anchor, pc, old, read, want, spent, mark>>
    BY <1>1, <2>1, Zenon DEF Tick
  <2>3. t <= Start + MaxTime /\ (IF t < Late THEN 0 ELSE Late) = Start
    <3>1. time <= Start + MaxTime
      BY <1>0, Zenon DEF StampsPast
    <3> QED BY <1>0, <2>1, <2>2, <3>1 DEF Times, Start
  <2>4. Start' = Start
    BY <2>2, <2>3, Zenon DEF Start
  <2>5. BudgetType' /\ Account'
    BY <1>0, <2>2, Zenon DEF BudgetType, Account
  <2>6. \A x \in Start..time : x \in Start..t
    BY <1>0, <2>1
  <2>7. \A a \in Start..time : \A x \in a..time : x \in a..t
    BY <1>0, <2>1
  <2>8. \A w \in Workers : pc[w] \in {"clock", "swap"} =>
          \E a \in Start..t : old[w][2] = Millis(a) /\ (pc[w] = "swap" => read[w] \in a..t)
    <3> SUFFICES ASSUME NEW w \in Workers, pc[w] \in {"clock", "swap"}
                 PROVE  \E a \in Start..t : old[w][2] = Millis(a) /\ (pc[w] = "swap" => read[w] \in a..t)
      BY Zenon
    <3>1. PICK a \in Start..time : old[w][2] = Millis(a) /\ (pc[w] = "swap" => read[w] \in a..time)
      BY <1>0, Zenon DEF StampsPast
    <3> QED BY <2>6, <2>7, <3>1, Zenon
  <2>9. StampsPast'
    BY <1>0, <2>2, <2>3, <2>4, <2>6, <2>8, Zenon DEF StampsPast
  <2> QED BY <2>5, <2>9, Zenon DEF BudgetInv
<1>2. CASE Observe
  <2>1. mark' = time /\ spent' = 0 /\ UNCHANGED <<tokens, anchor, time, pc, old, read, want>> /\ Start' = Start
    BY <1>2, Zenon DEF Observe, Start
  <2>2. BudgetType'
    BY <1>0, <2>1, Zenon DEF BudgetType
  <2>3. time \in Start..time
    BY <1>0
  <2>4. StampsPast'
    BY <1>0, <2>1, <2>3, Zenon DEF StampsPast
  <2>5. Account'
    <3>1. CASE anchor >= time
      <4>1. anchor - time = 0 /\ Rate * (anchor - time) = 0
        BY <1>0, <3>1
      <4>2. 0 + tokens <= Cap + Rate * (anchor - time)
        BY <1>0, <4>1
      <4> QED BY <2>1, <3>1, <4>2, Zenon DEF Account, Cap
    <3>2. CASE ~(anchor >= time)
      BY <2>1, <3>2, Zenon DEF Account
    <3> QED BY <3>1, <3>2, Zenon
  <2> QED BY <2>2, <2>4, <2>5, Zenon DEF BudgetInv
<1> QED BY <1>1, <1>2, Zenon

-----------------------------------------------------------------------------
\* Every step keeps the invariant.
LEMMA BudgetStep ==
  ASSUME BudgetConstants, BudgetInv, [Next]_vars
  PROVE  BudgetInv'
<1>1. CASE UNCHANGED vars
  BY <1>1, Zenon DEF vars, BudgetInv, BudgetType, StampsPast, Account, Start
<1>2. CASE Next
  BY <1>2, ApproachStep, SwapStep, TimeStep, Zenon DEF Next
<1> QED BY <1>1, <1>2, Zenon

\* No more than one second's allowance and what accrues is granted over any
\* stretch of time, for any rate, any workers and wherever the millisecond
\* clock wraps (ProbeBudget::consume).
THEOREM CeilingHolds == Spec => []Ceiling
<1>0. BudgetConstants
  BY TablesAssumption, Zenon DEF BudgetConstants
<1>1. Init => BudgetInv
  BY <1>0, BudgetInit, Zenon
<1>2. BudgetInv /\ [Next]_vars => BudgetInv'
  BY <1>0, BudgetStep, Zenon
<1>3. BudgetInv => Ceiling
  <2> SUFFICES ASSUME BudgetInv PROVE Ceiling
    BY Zenon
  <2>0. /\ Cap \in Nat /\ Rate \in Nat /\ {anchor, mark, time, spent, tokens} \subseteq Nat
        /\ anchor <= time /\ mark <= time
    BY <1>0, CapType, StartKnown DEF BudgetConstants, BudgetInv, BudgetType, StampsPast
  <2>1. CASE anchor >= mark
    <3>1. PICK x \in Nat, y \in Nat : x = anchor - mark /\ y = time - anchor
      BY <2>0, <2>1
    <3>2. time - mark = x + y
      BY <2>0, <3>1
    <3>3. Rate * x \in Nat /\ Rate * (x + y) \in Nat /\ Rate * x <= Rate * (x + y)
      BY <2>0, Stretches
    <3>4. spent + tokens <= Cap + Rate * x
      BY <2>1, <3>1, Zenon DEF BudgetInv, Account
    <3>5. PICK p \in Nat, q \in Nat : p = Rate * x /\ q = Rate * (x + y)
      BY <3>3, Zenon
    <3>6. spent <= Cap + q
      BY <2>0, <3>3, <3>4, <3>5
    <3> QED BY <3>2, <3>5, <3>6, Zenon DEF Ceiling
  <2>2. CASE ~(anchor >= mark)
    <3>1. PICK z \in Nat : z = time - mark
      BY <2>0
    <3>2. Rate * z \in Nat
      BY <2>0, Stretches, Zenon
    <3>3. PICK p \in Nat : p = Rate * (time - mark)
      BY <3>1, <3>2, Zenon
    <3> QED BY <2>0, <2>2, <3>3 DEF BudgetInv, Account, Ceiling
  <2> QED BY <2>1, <2>2, Zenon
<1> QED BY <1>1, <1>2, <1>3, PTL DEF Spec


-----------------------------------------------------------------------------
(***************************************************************************)
(* The readings of one datagram, in any order: off is whether cookies are  *)
(* disabled.  Every reading passed over was kept out by the limiter, if it *)
(* would have authenticated; and the load and the source's standing, once  *)
(* decided, stay for the readings that follow.                             *)
(***************************************************************************)
LimiterConstants ==
  \A t \in Traffics : t.workers \subseteq Callers /\ t.datagrams \subseteq Seq(Readings)

CallFields ==
  {"at", "datagram", "k", "source", "load", "proven", "window", "row", "min",
   "cookie", "under_load", "refused", "outcome"}

KeptOut(c, r, off) ==
  /\ r.kind = "handshake" /\ ~off /\ c.load # "clear"
  /\ ~r.mac2 \/ c.proven = "refused" \/ c.source = NoSource

PassedOver(c, off) ==
  \A i \in 1..(c.k - 1) :
    i \in DOMAIN c.datagram /\ c.datagram[i].ok =>
      KeptOut(c, c.datagram[i], off) /\ c.load # "undecided"

Underway(c, off) ==
  /\ DOMAIN c = CallFields /\ c.datagram \in Seq(Readings) /\ c.k \in Nat \ {0}
  /\ c.outcome = "none" /\ c.proven \in {"undecided", "admitted", "refused"}
  /\ PassedOver(c, off)

\* The handshake message in hand, and what is decided of it where the call is.
InHand(c, off) ==
  /\ c.k <= Len(c.datagram) /\ c.datagram[c.k].kind = "handshake" /\ ~off
  /\ c.at \in {"sources", "aggregate"} => c.load = "undecided"
  /\ c.at \in {"gate", "admit", "proven"} => c.load # "undecided"
  /\ c.at \in {"admit", "proven"} =>
       c.load # "clear" /\ c.proven = "undecided" /\ c.datagram[c.k].mac2

Calling(c, off) ==
  /\ c.at # "idle" => Underway(c, off)
  /\ c.at \notin {"idle", "reading"} => InHand(c, off)
  /\ c.outcome \in {"cookie", "under_load", "refused"} =>
       \A i \in DOMAIN c.datagram : c.datagram[i].ok => KeptOut(c, c.datagram[i], off)

LimiterInv ==
  /\ call = [w \in Callers |-> call[w]] /\ traffic \in Traffics
  /\ \A w \in Callers : Calling(call[w], disabled)

-----------------------------------------------------------------------------
\* A worker at rest holds no datagram.
LEMMA IdleCalls == ASSUME NEW off PROVE Calling(Limiter!Idle, off)
<1>1. Limiter!Idle.at = "idle" /\ Limiter!Idle.outcome = "none"
  BY Zenon DEF Limiter!Idle
<1>2. QED
  BY <1>1, Zenon DEF Calling

\* A call that ends keeps what decided it.
LEMMA EndsCalling ==
  ASSUME NEW c, NEW off, NEW outcome,
         outcome \in {"cookie", "under_load", "refused"} =>
           \A i \in DOMAIN c.datagram : c.datagram[i].ok => KeptOut(c, c.datagram[i], off)
  PROVE  Calling(Limiter!Ends(c, outcome), off)
<1>1. PICK e : e = Limiter!Ends(c, outcome)
  BY Zenon
<1>2. /\ e.at = "idle" /\ e.datagram = c.datagram /\ e.outcome = outcome
      /\ e.load = c.load /\ e.proven = c.proven /\ e.source = c.source
  BY <1>1, Zenon DEF Limiter!Ends, Limiter!Idle
<1>3. Calling(e, off)
  BY <1>2, Zenon DEF Calling, KeptOut
<1>4. QED
  BY <1>1, <1>3, Zenon

\* What is decided of a datagram, once decided, lets no reading back in.
LEMMA DecidedStays ==
  ASSUME NEW c, NEW off, Underway(c, off), NEW d, DOMAIN d = CallFields,
         d.datagram = c.datagram, d.k = c.k, d.source = c.source, d.outcome = c.outcome,
         d.load = c.load \/ c.load = "undecided",
         d.proven = c.proven \/ (c.proven = "undecided" /\ d.proven \in {"admitted", "refused"})
  PROVE  Underway(d, off)
<1>1. PassedOver(c, off)
  BY Zenon DEF Underway
<1>2. ASSUME NEW i \in 1..(d.k - 1), i \in DOMAIN d.datagram, d.datagram[i].ok
      PROVE  KeptOut(d, d.datagram[i], off) /\ d.load # "undecided"
  <2>1. KeptOut(c, c.datagram[i], off) /\ c.load # "undecided"
    BY <1>1, <1>2, Zenon DEF PassedOver
  <2>2. c.proven = "refused" => d.proven = "refused"
    BY Zenon
  <2>3. QED
    BY <2>1, <2>2, Zenon DEF KeptOut
<1>3. PassedOver(d, off)
  BY <1>2, Zenon DEF PassedOver
<1>4. d.proven \in {"undecided", "admitted", "refused"}
  BY Zenon DEF Underway
<1>5. QED
  BY <1>3, <1>4, Zenon DEF Underway

\* A reading passed over counts from then on.
LEMMA GoesOnCalling ==
  ASSUME NEW c, NEW off, Underway(c, off), c.k <= Len(c.datagram),
         c.datagram[c.k].ok => KeptOut(c, c.datagram[c.k], off) /\ c.load # "undecided",
         NEW g, DOMAIN g = CallFields, g.at = "reading", g.k = c.k + 1, g.datagram = c.datagram,
         g.load = c.load, g.proven = c.proven, g.source = c.source, g.outcome = c.outcome
  PROVE  Calling(g, off)
<1>1. /\ c.k \in Nat \ {0} /\ c.outcome = "none" /\ PassedOver(c, off)
      /\ c.proven \in {"undecided", "admitted", "refused"} /\ c.datagram \in Seq(Readings)
  BY Zenon DEF Underway
<1>2. ASSUME NEW i \in 1..(g.k - 1), i \in DOMAIN g.datagram, g.datagram[i].ok
      PROVE  KeptOut(g, g.datagram[i], off) /\ g.load # "undecided"
  <2>1. i \in 1..(c.k - 1) \/ i = c.k
    BY <1>1, <1>2
  <2>2. KeptOut(c, c.datagram[i], off) /\ c.load # "undecided"
    BY <1>1, <1>2, <2>1, Zenon DEF PassedOver
  <2>3. QED
    BY <2>2, Zenon DEF KeptOut
<1>3. PassedOver(g, off)
  BY <1>2, Zenon DEF PassedOver
<1>4. g.k \in Nat \ {0}
  BY <1>1
<1>5. Underway(g, off)
  BY <1>1, <1>3, <1>4, Zenon DEF Underway
<1>6. g.outcome \notin {"cookie", "under_load", "refused"}
  BY <1>1, Zenon
<1>7. QED
  BY <1>5, <1>6, Zenon DEF Calling

\* The trial accepts the reading, or goes on to the next.
LEMMA Trialled ==
  ASSUME NEW c, NEW off, Underway(c, off), c.k <= Len(c.datagram)
  PROVE  Calling(Limiter!Trial(c, c.datagram[c.k].ok), off)
<1>1. CASE c.datagram[c.k].ok
  <2>1. Limiter!Trial(c, c.datagram[c.k].ok) = Limiter!Ends(c, "accepted")
    BY <1>1, Zenon DEF Limiter!Trial
  <2>2. "accepted" \notin {"cookie", "under_load", "refused"}
    BY Zenon
  <2>3. QED
    BY <2>1, <2>2, EndsCalling, Zenon
<1>2. CASE ~c.datagram[c.k].ok
  <2>1. PICK g : g = [[c EXCEPT !.at = "reading", !.k = @ + 1] EXCEPT !.refused = TRUE]
    BY Zenon
  <2>2. Limiter!Trial(c, c.datagram[c.k].ok) = g
    BY <1>2, <2>1, Zenon DEF Limiter!Trial, Limiter!GoesOn
  <2>3. /\ DOMAIN g = CallFields /\ g.at = "reading" /\ g.k = c.k + 1 /\ g.datagram = c.datagram
        /\ g.load = c.load /\ g.proven = c.proven /\ g.source = c.source /\ g.outcome = c.outcome
    BY <2>1, Zenon DEF Underway, CallFields
  <2>4. Calling(g, off)
    BY <1>2, <2>3, GoesOnCalling, Zenon
  <2>5. QED
    BY <2>2, <2>4, Zenon
<1>3. QED
  BY <1>1, <1>2, Zenon


\* Only the calling worker's place changes.
LEMMA Replaced ==
  ASSUME LimiterInv, NEW w \in Callers, NEW e, Limiter!Becomes(w, e), Calling(e, disabled),
         UNCHANGED <<disabled, traffic>>
  PROVE  LimiterInv'
<1>1. call' = [call EXCEPT ![w] = e] /\ call = [v \in Callers |-> call[v]]
  BY Zenon DEF Limiter!Becomes, LimiterInv
<1>2. DOMAIN call = Callers
  BY <1>1, Zenon
<1>3. call' = [v \in Callers |-> call'[v]] /\ call'[w] = e /\ \A v \in Callers : v # w => call'[v] = call[v]
  BY <1>1, <1>2, Zenon
<1>4. ASSUME NEW v \in Callers PROVE Calling(call'[v], disabled)
  BY <1>3, Zenon DEF LimiterInv
<1>5. QED
  BY <1>3, <1>4, Zenon DEF LimiterInv

\* A handshake message on its way through the limiter.
LEMMA InHandCalling ==
  ASSUME NEW c, NEW off, Underway(c, off), c.k <= Len(c.datagram),
         c.datagram[c.k].kind = "handshake", ~off, NEW e, DOMAIN e = CallFields,
         e.datagram = c.datagram, e.k = c.k, e.source = c.source, e.outcome = c.outcome,
         e.proven = c.proven, e.load = c.load \/ c.load = "undecided",
         e.at \in {"sources", "aggregate"} => e.load = "undecided",
         e.at \in {"gate", "admit", "proven"} => e.load # "undecided",
         e.at \in {"admit", "proven"} =>
           e.load # "clear" /\ e.proven = "undecided" /\ c.datagram[c.k].mac2
  PROVE  Calling(e, off)
<1>1. Underway(e, off)
  BY DecidedStays, Zenon
<1>2. InHand(e, off)
  BY Zenon DEF InHand
<1>3. e.outcome \notin {"cookie", "under_load", "refused"}
  BY <1>1, Zenon DEF Underway
<1>4. QED
  BY <1>1, <1>2, <1>3, Zenon DEF Calling

\* A datagram comes in; its first reading is next.
LEMMA ArriveStep ==
  ASSUME LimiterConstants, LimiterInv, NEW w \in Callers, Limiter!Arrive(w), UNCHANGED traffic
  PROVE  LimiterInv'
<1>1. PICK s \in Sources \cup {NoSource}, d \in traffic.datagrams :
        Limiter!Becomes(w, [Limiter!Idle EXCEPT !.at = "reading", !.source = s, !.datagram = d])
  BY Zenon DEF Limiter!Arrive
<1>2. PICK e : e = [Limiter!Idle EXCEPT !.at = "reading", !.source = s, !.datagram = d]
  BY Zenon
<1>3. d \in Seq(Readings)
  BY Zenon DEF LimiterConstants, LimiterInv
<1>4. /\ DOMAIN e = CallFields /\ e.at = "reading" /\ e.datagram = d /\ e.k = 1 /\ e.outcome = "none"
      /\ e.proven = "undecided"
  BY <1>2, Zenon DEF Limiter!Idle, CallFields
<1>5. PassedOver(e, disabled)
  BY <1>4 DEF PassedOver
<1>6. Underway(e, disabled)
  BY <1>3, <1>4, <1>5 DEF Underway
<1>7. Calling(e, disabled)
  BY <1>4, <1>6, Zenon DEF Calling
<1>8. QED
  BY <1>1, <1>2, <1>7, Replaced, Zenon DEF Limiter!Arrive

\* No reading is left: the outcome is the best that any earned.
LEMMA FinishStep ==
  ASSUME LimiterInv, NEW w \in Callers, Limiter!Finish(w), UNCHANGED traffic
  PROVE  LimiterInv'
<1>1. PICK c : c = call[w]
  BY Zenon
<1>2. Calling(c, disabled) /\ c.at = "reading" /\ c.k > Len(c.datagram)
  BY <1>1, Zenon DEF LimiterInv, Limiter!Finish
<1>3. PICK o : Limiter!Becomes(w, Limiter!Ends(c, o))
  BY <1>1, Zenon DEF Limiter!Finish
<1>4. Underway(c, disabled)
  BY <1>2, Zenon DEF Calling
<1>5. c.k \in Nat \ {0} /\ c.datagram \in Seq(Readings) /\ PassedOver(c, disabled)
  BY <1>4, Zenon DEF Underway
<1>6. \A i \in DOMAIN c.datagram : i \in 1..(c.k - 1)
  BY <1>2, <1>5
<1>7. \A i \in DOMAIN c.datagram : c.datagram[i].ok => KeptOut(c, c.datagram[i], disabled)
  BY <1>5, <1>6, Zenon DEF PassedOver
<1>8. Calling(Limiter!Ends(c, o), disabled)
  BY <1>7, EndsCalling, Zenon
<1>9. QED
  BY <1>3, <1>8, Replaced, Zenon DEF Limiter!Finish

\* The next reading is tried, or its handshake message is brought to the gate.
LEMMA ReadStep ==
  ASSUME LimiterInv, NEW w \in Callers, Limiter!ReadOther(w) \/ Limiter!ReadHandshake(w),
         UNCHANGED traffic
  PROVE  LimiterInv'
<1>1. PICK c : c = call[w]
  BY Zenon
<1>2. Calling(c, disabled) /\ c.at = "reading" /\ c.k <= Len(c.datagram) /\ UNCHANGED disabled
  BY <1>1, Zenon DEF LimiterInv, Limiter!ReadOther, Limiter!ReadHandshake
<1>3. Underway(c, disabled)
  BY <1>2, Zenon DEF Calling
<1>4. Calling(Limiter!Trial(c, c.datagram[c.k].ok), disabled)
  BY <1>2, <1>3, Trialled, Zenon
<1>5. CASE Limiter!Becomes(w, Limiter!Trial(c, c.datagram[c.k].ok))
  BY <1>2, <1>4, <1>5, Replaced, Zenon
<1>6. CASE /\ Limiter!ReadHandshake(w) /\ ~disabled
  <2>1. c.datagram[c.k].kind = "handshake" /\ DOMAIN c = CallFields
    BY <1>1, <1>3, <1>6, Zenon DEF Limiter!ReadHandshake, Limiter!Reading, Underway
  <2>2. CASE c.load # "undecided"
    <3>1. PICK e : e = [c EXCEPT !.at = "gate"]
      BY Zenon
    <3>2. /\ DOMAIN e = CallFields /\ e.at = "gate" /\ e.datagram = c.datagram /\ e.k = c.k
          /\ e.source = c.source /\ e.outcome = c.outcome /\ e.load = c.load /\ e.proven = c.proven
      BY <2>1, <3>1, Zenon DEF CallFields
    <3>3. "gate" \notin {"sources", "aggregate"} /\ "gate" \notin {"admit", "proven"}
      BY Zenon
    <3>4. Calling(e, disabled)
      BY <1>2, <1>3, <1>6, <2>1, <2>2, <3>2, <3>3, InHandCalling, Zenon
    <3>5. Limiter!Becomes(w, e)
      BY <1>1, <1>6, <2>2, <3>1, Zenon DEF Limiter!ReadHandshake
    <3>6. QED
      BY <1>2, <3>4, <3>5, Replaced, Zenon
  <2>3. CASE c.load = "undecided"
    <3>1. PICK e : e = IF c.source = NoSource THEN [c EXCEPT !.at = "aggregate"]
                       ELSE [c EXCEPT !.at = "sources", !.window = clock, !.row = 1]
      BY Zenon
    <3>2. /\ DOMAIN e = CallFields /\ e.datagram = c.datagram /\ e.k = c.k /\ e.source = c.source
          /\ e.outcome = c.outcome /\ e.load = c.load /\ e.proven = c.proven
          /\ e.at \notin {"gate", "admit", "proven"}
      BY <2>1, <3>1, Zenon DEF CallFields
    <3>3. e.at \notin {"admit", "proven"}
      BY <3>2, Zenon
    <3>4. Calling(e, disabled)
      BY <1>2, <1>3, <1>6, <2>1, <2>3, <3>2, <3>3, InHandCalling, Zenon
    <3>5. Limiter!Becomes(w, e)
      BY <1>1, <1>6, <2>3, <3>1, Zenon DEF Limiter!ReadHandshake
    <3>6. QED
      BY <1>2, <3>4, <3>5, Replaced, Zenon
  <2>4. QED
    BY <2>2, <2>3, Zenon
<1>7. QED
  BY <1>1, <1>5, <1>6, Zenon DEF Limiter!ReadOther, Limiter!ReadHandshake, Limiter!Reading


\* What a call that has a handshake message in hand knows of it.
LEMMA HandKnown ==
  ASSUME LimiterInv, NEW w \in Callers, call[w].at \notin {"idle", "reading"}
  PROVE  /\ Underway(call[w], disabled) /\ InHand(call[w], disabled)
         /\ DOMAIN call[w] = CallFields /\ call[w].proven \in {"undecided", "admitted", "refused"}
<1>1. Calling(call[w], disabled)
  BY Zenon DEF LimiterInv
<1>2. call[w].at # "idle"
  BY Zenon
<1>3. QED
  BY <1>1, <1>2, Zenon DEF Calling, Underway

\* A row of the source's counters, and what the last of them decides.
LEMMA CountStep ==
  ASSUME LimiterInv, NEW w \in Callers, Limiter!CountSource(w) \/ Limiter!CountAggregate(w),
         UNCHANGED traffic
  PROVE  LimiterInv'
<1>1. PICK c : c = call[w]
  BY Zenon
<1>2. c.at \in {"sources", "aggregate"} /\ UNCHANGED disabled
  BY <1>1, Zenon DEF Limiter!CountSource, Limiter!CountAggregate
<1>3. Underway(c, disabled) /\ InHand(c, disabled) /\ DOMAIN c = CallFields
  BY <1>1, <1>2, HandKnown, Zenon
<1>4. c.load = "undecided" /\ c.k <= Len(c.datagram) /\ c.datagram[c.k].kind = "handshake" /\ ~disabled
  BY <1>2, <1>3, Zenon DEF InHand
<1>5. PICK e : /\ Limiter!Becomes(w, e)
               /\ \/ \E r, m : e = [c EXCEPT !.row = r, !.min = m]
                  \/ e = [c EXCEPT !.at = "gate", !.load = "source_share"]
                  \/ e = [c EXCEPT !.at = "aggregate"]
                  \/ \E l \in {"aggregate", "clear"} : e = [c EXCEPT !.at = "gate", !.load = l]
  <2>1. CASE Limiter!CountSource(w) /\ ~Limiter!LastRow(w)
    <3>1. Limiter!NextRow(w, "sources")
      BY <2>1, Zenon DEF Limiter!CountSource
    <3>2. PICK r, m : r = c.row + 1 /\ m = Limiter!RowMin(w, "sources")
      BY Zenon
    <3>3. Limiter!Becomes(w, [c EXCEPT !.row = r, !.min = m])
      BY <1>1, <3>1, <3>2, Zenon DEF Limiter!NextRow
    <3>4. QED
      BY <3>3, ZenonT(30)
  <2>2. CASE Limiter!CountSource(w) /\ Limiter!LastRow(w)
    BY <1>1, <2>2, Zenon DEF Limiter!CountSource, Limiter!ShareDecides
  <2>3. CASE Limiter!CountAggregate(w)
    <3>1. PICK l : /\ l = IF count >= Limit THEN "aggregate" ELSE "clear"
                   /\ Limiter!Becomes(w, [c EXCEPT !.at = "gate", !.load = l])
      BY <1>1, <2>3, Zenon DEF Limiter!CountAggregate
    <3>2. l \in {"aggregate", "clear"}
      BY <3>1, Zenon
    <3>3. QED
      BY <3>1, <3>2, Zenon
  <2>4. QED
    BY <2>1, <2>2, <2>3, Zenon
<1>6. /\ DOMAIN e = CallFields /\ e.datagram = c.datagram /\ e.k = c.k
      /\ e.source = c.source /\ e.outcome = c.outcome /\ e.proven = c.proven
      /\ \/ e.at \in {"sources", "aggregate"} /\ e.load = "undecided"
         \/ e.at = "gate" /\ e.load \in {"source_share", "aggregate", "clear"}
  BY <1>2, <1>3, <1>4, <1>5, Zenon DEF CallFields
<1>7. /\ e.at \in {"sources", "aggregate"} => e.load = "undecided"
      /\ e.at \in {"gate", "admit", "proven"} => e.load # "undecided"
      /\ e.at \notin {"admit", "proven"}
  BY <1>6, Zenon
<1>8. Calling(e, disabled)
  BY <1>3, <1>4, <1>6, <1>7, InHandCalling, Zenon
<1>9. QED
  BY <1>2, <1>5, <1>8, Replaced, Zenon

\* The message the source is refused its standing for is dropped, for good.
LEMMA Dropped ==
  ASSUME LimiterInv, NEW w \in Callers, NEW d, Underway(d, disabled), d.k <= Len(d.datagram),
         d.datagram[d.k].kind = "handshake", ~disabled, d.load \notin {"clear", "undecided"},
         ~d.datagram[d.k].mac2 \/ d.proven = "refused" \/ d.source = NoSource,
         Limiter!Becomes(w, Limiter!GoesOn(d)), UNCHANGED <<disabled, traffic>>
  PROVE  LimiterInv'
<1>1. PICK g : g = [d EXCEPT !.at = "reading", !.k = @ + 1]
  BY Zenon
<1>2. /\ DOMAIN g = CallFields /\ g.at = "reading" /\ g.k = d.k + 1 /\ g.datagram = d.datagram
      /\ g.load = d.load /\ g.proven = d.proven /\ g.source = d.source /\ g.outcome = d.outcome
  BY <1>1, Zenon DEF Underway, CallFields
<1>3. KeptOut(d, d.datagram[d.k], disabled) /\ d.load # "undecided"
  BY Zenon DEF KeptOut
<1>4. Calling(g, disabled)
  BY <1>2, <1>3, GoesOnCalling, Zenon
<1>5. Limiter!Becomes(w, g)
  BY <1>1, Zenon DEF Limiter!GoesOn
<1>6. QED
  BY <1>4, <1>5, Replaced, Zenon

\* A standing decided: the message is tried, or dropped.
LEMMA StandingKeeps ==
  ASSUME LimiterInv, NEW w \in Callers, NEW admitted \in BOOLEAN, call[w].at \in {"gate", "proven"},
         call[w].load \notin {"clear", "undecided"},
         call[w].proven = "undecided" \/ call[w].proven = (IF admitted THEN "admitted" ELSE "refused"),
         Limiter!ProvenDecides(w, admitted), UNCHANGED <<disabled, traffic>>
  PROVE  LimiterInv'
<1>1. PICK c : c = call[w]
  BY Zenon
<1>2. /\ Underway(c, disabled) /\ DOMAIN c = CallFields /\ c.k <= Len(c.datagram)
      /\ c.datagram[c.k].kind = "handshake" /\ ~disabled
  BY <1>1, HandKnown, Zenon DEF InHand
<1>3. CASE admitted
  <2>1. PICK d : d = [c EXCEPT !.proven = "admitted"]
    BY Zenon
  <2>2. /\ DOMAIN d = CallFields /\ d.datagram = c.datagram /\ d.k = c.k /\ d.source = c.source
        /\ d.outcome = c.outcome /\ d.load = c.load /\ d.proven = "admitted"
    BY <1>2, <2>1, Zenon DEF CallFields
  <2>3. d.proven = c.proven \/ (c.proven = "undecided" /\ d.proven \in {"admitted", "refused"})
    BY <1>1, <1>3, <2>2, Zenon
  <2>4. Underway(d, disabled)
    BY <1>2, <2>2, <2>3, DecidedStays, Zenon
  <2>5. Calling(Limiter!Trial(d, d.datagram[d.k].ok), disabled)
    BY <1>2, <2>2, <2>4, Trialled, Zenon
  <2>6. Limiter!Becomes(w, Limiter!Trial(d, d.datagram[d.k].ok))
    BY <1>1, <1>3, <2>1, <2>2, Zenon DEF Limiter!ProvenDecides, Limiter!Reading
  <2>7. QED
    BY <2>5, <2>6, Replaced, Zenon
<1>4. CASE ~admitted
  <2>1. PICK d : d = [c EXCEPT !.proven = "refused", !.under_load = TRUE]
    BY Zenon
  <2>2. /\ DOMAIN d = CallFields /\ d.datagram = c.datagram /\ d.k = c.k /\ d.source = c.source
        /\ d.outcome = c.outcome /\ d.load = c.load /\ d.proven = "refused"
    BY <1>2, <2>1, Zenon DEF CallFields
  <2>3. d.proven = c.proven \/ (c.proven = "undecided" /\ d.proven \in {"admitted", "refused"})
    BY <1>1, <1>4, <2>2, Zenon
  <2>4. Underway(d, disabled)
    BY <1>2, <2>2, <2>3, DecidedStays, Zenon
  <2>5. Limiter!Becomes(w, Limiter!GoesOn(d))
    BY <1>1, <1>4, <2>1, Zenon DEF Limiter!ProvenDecides
  <2>6. QED
    BY <1>1, <1>2, <2>2, <2>4, <2>5, Dropped, Zenon
<1>5. QED
  BY <1>3, <1>4, Zenon


\* The gate's verdict on the message in hand.
LEMMA GateStep ==
  ASSUME LimiterInv, NEW w \in Callers, Limiter!Gate(w), UNCHANGED traffic
  PROVE  LimiterInv'
<1>1. PICK c : c = call[w]
  BY Zenon
<1>2. c.at = "gate" /\ UNCHANGED disabled /\ Limiter!Reading(w) = c.datagram[c.k]
  BY <1>1, Zenon DEF Limiter!Gate, Limiter!Reading
<1>3. /\ Underway(c, disabled) /\ DOMAIN c = CallFields /\ InHand(c, disabled)
      /\ c.proven \in {"undecided", "admitted", "refused"}
  BY <1>1, <1>2, HandKnown, Zenon
<1>4. /\ c.k <= Len(c.datagram) /\ c.datagram[c.k].kind = "handshake" /\ ~disabled
      /\ c.load # "undecided"
  BY <1>2, <1>3, Zenon DEF InHand
<1>5. CASE c.load = "clear" /\ Limiter!Becomes(w, Limiter!Trial(c, c.datagram[c.k].ok))
  <2>1. Calling(Limiter!Trial(c, c.datagram[c.k].ok), disabled)
    BY <1>3, <1>4, Trialled, Zenon
  <2>2. QED
    BY <1>2, <1>5, <2>1, Replaced, Zenon
<1>6. ASSUME c.load # "clear", c.source = NoSource \/ ~c.datagram[c.k].mac2,
             NEW d, d \in {[c EXCEPT !.under_load = TRUE], [c EXCEPT !.cookie = TRUE]},
             Limiter!Becomes(w, Limiter!GoesOn(d))
      PROVE  LimiterInv'
  <2>1. /\ DOMAIN d = CallFields /\ d.datagram = c.datagram /\ d.k = c.k /\ d.source = c.source
        /\ d.outcome = c.outcome /\ d.load = c.load /\ d.proven = c.proven
    BY <1>3, <1>6, Zenon DEF CallFields
  <2>2. Underway(d, disabled)
    BY <1>3, <2>1, DecidedStays, Zenon
  <2>3. d.load \notin {"clear", "undecided"}
    BY <1>4, <1>6, <2>1, Zenon
  <2>4. QED
    BY <1>2, <1>4, <1>6, <2>1, <2>2, <2>3, Dropped, Zenon
<1>7. CASE c.load # "clear" /\ c.source = NoSource
           /\ Limiter!Becomes(w, Limiter!GoesOn([c EXCEPT !.under_load = TRUE]))
  BY <1>6, <1>7, Zenon
<1>8. CASE c.load # "clear" /\ ~c.datagram[c.k].mac2 /\ Limiter!Becomes(w, Limiter!HoldBack(c))
  BY <1>6, <1>8, Zenon DEF Limiter!HoldBack
<1>9. CASE c.load # "clear" /\ c.proven # "undecided" /\ Limiter!ProvenDecides(w, c.proven = "admitted")
  <2>1. PICK admitted \in BOOLEAN : admitted = (c.proven = "admitted")
    BY Zenon
  <2>2. c.proven = (IF admitted THEN "admitted" ELSE "refused")
    BY <1>3, <1>9, <2>1, Zenon
  <2>3. Limiter!ProvenDecides(w, admitted)
    BY <1>9, <2>1, Zenon
  <2>4. c.at \in {"gate", "proven"} /\ c.load \notin {"clear", "undecided"}
    BY <1>2, <1>4, <1>9, Zenon
  <2>5. QED
    BY <1>1, <1>2, <2>2, <2>3, <2>4, StandingKeeps, Zenon
<1>10. CASE c.load # "clear" /\ c.proven = "undecided"
            /\ Limiter!Becomes(w, Limiter!Trial([c EXCEPT !.proven = "admitted"], c.datagram[c.k].ok))
  <2>1. PICK d : d = [c EXCEPT !.proven = "admitted"]
    BY Zenon
  <2>2. /\ DOMAIN d = CallFields /\ d.datagram = c.datagram /\ d.k = c.k /\ d.source = c.source
        /\ d.outcome = c.outcome /\ d.load = c.load /\ d.proven \in {"admitted", "refused"}
    BY <1>3, <2>1, Zenon DEF CallFields
  <2>3. Underway(d, disabled)
    BY <1>3, <1>10, <2>2, DecidedStays, Zenon
  <2>4. Calling(Limiter!Trial(d, d.datagram[d.k].ok), disabled)
    BY <1>4, <2>2, <2>3, Trialled, Zenon
  <2>5. Limiter!Becomes(w, Limiter!Trial(d, d.datagram[d.k].ok))
    BY <1>10, <2>1, <2>2, Zenon
  <2>6. QED
    BY <1>2, <2>4, <2>5, Replaced, Zenon
<1>11. CASE c.load # "clear" /\ c.proven = "undecided" /\ c.datagram[c.k].mac2
            /\ Limiter!Becomes(w, [c EXCEPT !.at = "admit"])
  <2>1. PICK e : e = [c EXCEPT !.at = "admit"]
    BY Zenon
  <2>2. /\ DOMAIN e = CallFields /\ e.datagram = c.datagram /\ e.k = c.k /\ e.source = c.source
        /\ e.outcome = c.outcome /\ e.load = c.load /\ e.proven = c.proven
        /\ e.at \notin {"sources", "aggregate"}
    BY <1>3, <2>1, Zenon DEF CallFields
  <2>3. Calling(e, disabled)
    BY <1>3, <1>4, <1>11, <2>2, InHandCalling, Zenon
  <2>4. QED
    BY <1>2, <1>11, <2>1, <2>3, Replaced, Zenon
<1>12. "aggregate" # "clear" /\ "source_share" # "clear"
  BY Zenon
<1>13. QED
  BY <1>1, <1>2, <1>5, <1>7, <1>8, <1>9, <1>10, <1>11, <1>12, Zenon DEF Limiter!Gate

\* A row of the proven counters, and what the last of them decides.
LEMMA ProvenStep ==
  ASSUME LimiterInv, NEW w \in Callers, Limiter!ReadWindow(w) \/ Limiter!CountProven(w),
         UNCHANGED traffic
  PROVE  LimiterInv'
<1>1. PICK c : c = call[w]
  BY Zenon
<1>2. c.at \in {"admit", "proven"} /\ UNCHANGED disabled
  BY <1>1, Zenon DEF Limiter!ReadWindow, Limiter!CountProven
<1>3. Underway(c, disabled) /\ DOMAIN c = CallFields /\ InHand(c, disabled)
  BY <1>1, <1>2, HandKnown, Zenon
<1>4. /\ c.k <= Len(c.datagram) /\ c.datagram[c.k].kind = "handshake" /\ ~disabled
      /\ c.load \notin {"clear", "undecided"} /\ c.proven = "undecided" /\ c.datagram[c.k].mac2
  BY <1>2, <1>3, Zenon DEF InHand
<1>5. ASSUME NEW e, Limiter!Becomes(w, e), DOMAIN e = CallFields, e.at = "proven",
             e.datagram = c.datagram, e.k = c.k, e.source = c.source, e.outcome = c.outcome,
             e.load = c.load, e.proven = c.proven
      PROVE  LimiterInv'
  <2>1. e.at \notin {"sources", "aggregate"} /\ e.load # "undecided" /\ e.load # "clear"
    BY <1>4, <1>5, Zenon
  <2>2. Calling(e, disabled)
    BY <1>3, <1>4, <1>5, <2>1, InHandCalling, Zenon
  <2>3. QED
    BY <1>2, <1>5, <2>2, Replaced, Zenon
<1>6. CASE Limiter!ReadWindow(w)
  <2>1. PICK e : e = [c EXCEPT !.at = "proven", !.window = clock, !.row = 1]
    BY Zenon
  <2>2. /\ DOMAIN e = CallFields /\ e.datagram = c.datagram /\ e.k = c.k /\ e.source = c.source
        /\ e.outcome = c.outcome /\ e.load = c.load /\ e.proven = c.proven /\ e.at = "proven"
    BY <1>3, <2>1, Zenon DEF CallFields
  <2>3. Limiter!Becomes(w, e)
    BY <1>1, <1>6, <2>1, Zenon DEF Limiter!ReadWindow
  <2>4. QED
    BY <1>5, <2>2, <2>3, Zenon
<1>7. CASE Limiter!CountProven(w) /\ ~Limiter!LastRow(w)
  <2>1. Limiter!NextRow(w, "proven") /\ c.at = "proven"
    BY <1>1, <1>7, Zenon DEF Limiter!CountProven
  <2>2. PICK r, m : r = c.row + 1 /\ m = Limiter!RowMin(w, "proven")
    BY Zenon
  <2>3. PICK e : e = [c EXCEPT !.row = r, !.min = m]
    BY Zenon
  <2>4. Limiter!Becomes(w, e)
    BY <1>1, <2>1, <2>2, <2>3, Zenon DEF Limiter!NextRow
  <2>5. /\ DOMAIN e = CallFields /\ e.datagram = c.datagram /\ e.k = c.k /\ e.source = c.source
        /\ e.outcome = c.outcome /\ e.load = c.load /\ e.proven = c.proven /\ e.at = "proven"
    BY <1>3, <2>1, <2>3, Zenon DEF CallFields
  <2>6. QED
    BY <1>5, <2>4, <2>5, Zenon
<1>8. CASE Limiter!CountProven(w) /\ Limiter!LastRow(w)
  <2>1. PICK admitted : admitted = (Limiter!RowMin(w, "proven")[2] <= Limiter!ProvenLimit)
    BY Zenon
  <2>2. Limiter!ProvenDecides(w, admitted) /\ c.at = "proven"
    BY <1>1, <1>8, <2>1, Zenon DEF Limiter!CountProven
  <2>3. admitted \in BOOLEAN
    BY <2>1
  <2>4. c.at \in {"gate", "proven"}
    BY <2>2, Zenon
  <2>5. QED
    BY <1>1, <1>2, <1>4, <2>2, <2>3, <2>4, StandingKeeps, Zenon
<1>9. QED
  BY <1>6, <1>7, <1>8, Zenon

-----------------------------------------------------------------------------
\* Every step of the limiter keeps the invariant.
LEMMA LimiterStep ==
  ASSUME LimiterConstants, LimiterInv, [Limiter!Next]_Limiter!vars
  PROVE  LimiterInv'
<1>1. CASE UNCHANGED <<call, disabled, traffic>>
  BY <1>1, Zenon DEF LimiterInv
<1>2. ASSUME NEW w \in traffic.workers, UNCHANGED traffic,
             \/ Limiter!Arrive(w) \/ Limiter!ReadOther(w) \/ Limiter!ReadHandshake(w)
             \/ Limiter!CountSource(w) \/ Limiter!CountAggregate(w) \/ Limiter!Gate(w)
             \/ Limiter!ReadWindow(w) \/ Limiter!CountProven(w) \/ Limiter!Finish(w)
      PROVE  LimiterInv'
  <2>1. w \in Callers
    BY Zenon DEF LimiterConstants, LimiterInv
  <2>2. QED
    BY <1>2, <2>1, ArriveStep, FinishStep, ReadStep, CountStep, GateStep, ProvenStep, Zenon
<1>3. CASE Limiter!Next
  <2>1. CASE Limiter!ResetCount \/ Limiter!Tick
    BY <1>1, <1>3, <2>1, Zenon DEF Limiter!Next, Limiter!ResetCount, Limiter!Tick
  <2>2. QED
    BY <1>2, <1>3, <2>1, Zenon DEF Limiter!Next
<1>4. CASE UNCHANGED Limiter!vars
  BY <1>1, <1>4, Zenon DEF Limiter!vars
<1>5. QED
  BY <1>3, <1>4, Zenon

\* A datagram with a reading that authenticates is accepted, unless the
\* limiter kept every such reading from its trial: for any workers, sources,
\* slots, limits and orders of readings (receive and gate_handshake).
THEOREM AuthenticWins == Limiter!Spec => []AuthenticReadingWins
<1>0. LimiterConstants
  BY AdmissionAssumption, Zenon DEF LimiterConstants
<1>1. Limiter!Init => LimiterInv
  <2> SUFFICES ASSUME Limiter!Init PROVE LimiterInv
    BY Zenon
  <2>1. call = [w \in Callers |-> Limiter!Idle] /\ traffic \in Traffics
    BY Zenon DEF Limiter!Init
  <2>2. PICK f : f = Limiter!Idle
    BY Zenon
  <2>3. call = [w \in Callers |-> call[w]] /\ \A w \in Callers : call[w] = f
    BY <2>1, <2>2, Zenon
  <2>4. Calling(f, disabled)
    BY <2>2, IdleCalls, Zenon
  <2>5. QED
    BY <2>1, <2>3, <2>4, Zenon DEF LimiterInv
<1>2. LimiterInv /\ [Limiter!Next]_Limiter!vars => LimiterInv'
  BY <1>0, LimiterStep, Zenon
<1>3. LimiterInv => AuthenticReadingWins
  BY Zenon DEF LimiterInv, Calling, KeptOut, AuthenticReadingWins, Limiter!AuthenticReadingWins
<1>4. QED
  BY <1>1, <1>2, <1>3, PTL DEF Limiter!Spec


-----------------------------------------------------------------------------
(***************************************************************************)
(* The table of hints: o names the sources of m, each once, oldest first,  *)
(* and no hint is from after t.                                            *)
(***************************************************************************)
HintConstants == MaxHints \in Nat \ {0} /\ Lifetime \in Nat

Named(o) == {o[i] : i \in DOMAIN o}
Firsts(o, k) == {o[i] : i \in 1..k}
ByAge(o, m) == \A i, j \in DOMAIN o : i < j => m[o[i]].received <= m[o[j]].received

Chronicle(o, m, t) ==
  /\ o \in Seq(Addresses) /\ Len(o) <= MaxHints
  /\ \A i, j \in DOMAIN o : o[i] = o[j] => i = j
  /\ DOMAIN m = Named(o)
  /\ \A s \in DOMAIN m : m[s].received \in Nat /\ m[s].received <= t
  /\ ByAge(o, m)

Handed(j) ==
  /\ j.at = "detected" => j.source \in Addresses
  /\ j.at = "answered" /\ j.protocol # NoProtocol => j.age < Lifetime

HintInv ==
  /\ now \in Nat /\ Chronicle(order, by_source, now)
  /\ job = [w \in Workers |-> job[w]] /\ \A w \in Workers : Handed(job[w])

\* Some places of an order, taken in that order.
Thins(p, n, f, o, m) ==
  /\ p \in Seq(Addresses) /\ Len(p) <= Len(o) /\ f \in [DOMAIN p -> DOMAIN o]
  /\ \A i, j \in DOMAIN p : i < j => f[i] < f[j]
  /\ \A i \in DOMAIN p : p[i] = o[f[i]]
  /\ DOMAIN n = Named(p) /\ \A s \in DOMAIN n : n[s] = m[s]

\* They are a table of hints as well.
LEMMA Thinned ==
  ASSUME HintConstants, NEW o, NEW m, NEW t, Chronicle(o, m, t),
         NEW p, NEW f, NEW n, Thins(p, n, f, o, m)
  PROVE  Chronicle(p, n, t)
<1> USE DEF Thins
<1>1. /\ o \in Seq(Addresses) /\ Len(o) <= MaxHints /\ DOMAIN m = Named(o)
      /\ \A i, j \in DOMAIN o : o[i] = o[j] => i = j
      /\ \A s \in DOMAIN m : m[s].received \in Nat /\ m[s].received <= t
      /\ ByAge(o, m)
  BY Zenon DEF Chronicle
<1>2. DOMAIN p \subseteq Nat /\ DOMAIN o \subseteq Nat /\ Len(p) \in Nat /\ Len(o) \in Nat
  BY <1>1
<1>3. Len(p) <= MaxHints
  BY <1>1, <1>2 DEF HintConstants
<1>4. \A i, j \in DOMAIN p : p[i] = p[j] => i = j
  <2> SUFFICES ASSUME NEW i \in DOMAIN p, NEW j \in DOMAIN p, p[i] = p[j] PROVE i = j
    BY Zenon
  <2>1. f[i] \in DOMAIN o /\ f[j] \in DOMAIN o /\ o[f[i]] = o[f[j]]
    BY Zenon
  <2>2. f[i] = f[j] /\ f[i] \in Nat
    BY <1>1, <1>2, <2>1, Zenon
  <2>3. ~(i < j) /\ ~(j < i)
    BY <2>2
  <2>4. QED
    BY <1>2, <2>3
<1>5. \A i \in DOMAIN p : p[i] \in DOMAIN n /\ n[p[i]] = m[o[f[i]]] /\ f[i] \in DOMAIN o
  BY Zenon DEF Named
<1>6. ASSUME NEW s \in DOMAIN n PROVE s \in DOMAIN m
  <2>1. PICK i \in DOMAIN p : s = p[i]
    BY <1>6 DEF Named
  <2>2. s = o[f[i]] /\ f[i] \in DOMAIN o
    BY <1>5, <2>1, Zenon
  <2>3. QED
    BY <1>1, <2>2, Zenon DEF Named
<1>7. \A s \in DOMAIN n : n[s].received \in Nat /\ n[s].received <= t
  BY <1>1, <1>6, Zenon
<1>8. ByAge(p, n)
  <2> SUFFICES ASSUME NEW i \in DOMAIN p, NEW j \in DOMAIN p, i < j
               PROVE  n[p[i]].received <= n[p[j]].received
    BY Zenon DEF ByAge
  <2>1. m[o[f[i]]].received <= m[o[f[j]]].received
    BY <1>1, <1>5, Zenon DEF ByAge
  <2>2. QED
    BY <1>5, <2>1, Zenon
<1>9. QED
  BY <1>3, <1>4, <1>7, <1>8, Zenon DEF Chronicle

\* An order without its first k, and the map without theirs.
Shortens(p, n, k, o, m) ==
  /\ k \in 0..Len(o) /\ p \in Seq(Addresses) /\ Len(p) = Len(o) - k
  /\ \A i \in 1..Len(p) : p[i] = o[i + k]
  /\ n = Hints!Forget(m, Firsts(o, k))

\* They are a table of hints as well.
LEMMA Shortened ==
  ASSUME HintConstants, NEW o, NEW m, NEW t, Chronicle(o, m, t),
         NEW p, NEW k, NEW n, Shortens(p, n, k, o, m)
  PROVE  Chronicle(p, n, t) /\ DOMAIN n = Named(p) /\ \A s \in DOMAIN n : n[s] = m[s]
<1> USE DEF Shortens
<1>1. /\ o \in Seq(Addresses) /\ DOMAIN m = Named(o)
      /\ \A i, j \in DOMAIN o : o[i] = o[j] => i = j
  BY Zenon DEF Chronicle
<1>2. Len(o) \in Nat /\ Len(p) \in Nat /\ DOMAIN o = 1..Len(o) /\ DOMAIN p = 1..Len(p)
  BY <1>1
<1>3. PICK f : f = [i \in 1..Len(p) |-> i + k]
  BY Zenon
<1>4. /\ f \in [DOMAIN p -> DOMAIN o] /\ \A i \in DOMAIN p : f[i] = i + k
      /\ \A i, j \in DOMAIN p : i < j => f[i] < f[j]
  BY <1>2, <1>3
<1>5. DOMAIN n = DOMAIN m \ Firsts(o, k) /\ \A s \in DOMAIN n : n[s] = m[s]
  BY Zenon DEF Hints!Forget
<1>6. ASSUME NEW s \in DOMAIN n PROVE s \in Named(p)
  <2>1. PICK i \in 1..Len(o) : o[i] = s
    BY <1>1, <1>2, <1>5, <1>6, Zenon DEF Named
  <2>2. i \notin 1..k
    BY <1>5, <1>6, <2>1, Zenon DEF Firsts
  <2>3. i - k \in 1..Len(p) /\ (i - k) + k = i
    BY <1>2, <2>2
  <2>4. p[i - k] = s
    BY <2>1, <2>3, Zenon
  <2>5. QED
    BY <1>2, <2>3, <2>4, Zenon DEF Named
<1>7. ASSUME NEW i \in DOMAIN p PROVE p[i] \in DOMAIN n
  <2>1. i + k \in 1..Len(o) /\ i + k \notin 1..k /\ p[i] = o[i + k]
    BY <1>2, <1>7
  <2>2. 1..k \subseteq 1..Len(o)
    BY <1>2
  <2>3. o[i + k] \in DOMAIN m /\ o[i + k] \notin Firsts(o, k)
    BY <1>1, <1>2, <2>1, <2>2, Zenon DEF Named, Firsts
  <2>4. QED
    BY <1>5, <2>1, <2>3, Zenon
<1>8. DOMAIN n = Named(p)
  BY <1>6, <1>7, Zenon DEF Named
<1>9. Len(p) <= Len(o) /\ \A i \in DOMAIN p : p[i] = o[f[i]]
  BY <1>2, <1>4
<1>10. Chronicle(p, n, t)
  <2>1. Thins(p, n, f, o, m)
    BY <1>4, <1>5, <1>8, <1>9, Zenon DEF Thins
  <2>2. QED
    BY <2>1, Thinned, Zenon
<1>11. QED
  BY <1>5, <1>8, <1>10, Zenon

\* expire leaves live hints only: the front is the oldest.
LEMMA ExpireKeeps ==
  ASSUME HintConstants, HintInv, NEW k \in Hints!Dead
  PROVE  /\ Chronicle(Hints!KeptOrder(k), Hints!KeptMap(k), now)
         /\ \A s \in DOMAIN Hints!KeptMap(k) : now - Hints!KeptMap(k)[s].received < Lifetime
<1>1. /\ order \in Seq(Addresses) /\ now \in Nat /\ Chronicle(order, by_source, now)
      /\ DOMAIN by_source = Named(order) /\ ByAge(order, by_source)
      /\ \A s \in DOMAIN by_source : by_source[s].received \in Nat /\ by_source[s].received <= now
  BY Zenon DEF HintInv, Chronicle
<1>2. k \in 0..Len(order) /\ (k < Len(order) => now - by_source[order[k + 1]].received < Lifetime)
  BY Zenon DEF Hints!Dead, Hints!IsLive
<1>3. PICK p : p = Hints!KeptOrder(k)
  BY Zenon
<1>4. p \in Seq(Addresses) /\ Len(p) = Len(order) - k /\ \A i \in 1..Len(p) : p[i] = order[i + k]
  BY <1>1, <1>2, <1>3 DEF Hints!KeptOrder
<1>5. PICK n : n = Hints!KeptMap(k)
  BY Zenon
<1>6. n = Hints!Forget(by_source, Firsts(order, k))
  BY <1>5, Zenon DEF Hints!KeptMap, Firsts
<1>7. Chronicle(p, n, now) /\ DOMAIN n = Named(p) /\ \A s \in DOMAIN n : n[s] = by_source[s]
  <2>1. Shortens(p, n, k, order, by_source)
    BY <1>2, <1>4, <1>6, Zenon DEF Shortens
  <2>2. QED
    BY <1>1, <2>1, Shortened
<1>8. ASSUME NEW s \in DOMAIN n PROVE now - n[s].received < Lifetime
  <2>1. PICK i \in 1..Len(p) : p[i] = s
    BY <1>4, <1>7, <1>8 DEF Named
  <2>2. /\ i + k \in DOMAIN order /\ k + 1 \in DOMAIN order /\ k < Len(order) /\ s = order[i + k]
        /\ (k + 1 < i + k \/ k + 1 = i + k)
    BY <1>1, <1>2, <1>4, <2>1
  <2>3. PICK a, b : a = by_source[order[k + 1]].received /\ b = by_source[order[i + k]].received
    BY Zenon
  <2>4. a \in Nat /\ b \in Nat
    BY <1>1, <2>2, <2>3, Zenon DEF Named
  <2>5. a <= b
    <3>1. CASE k + 1 < i + k
      BY <1>1, <2>2, <2>3, <3>1, Zenon DEF ByAge
    <3>2. CASE k + 1 = i + k
      BY <2>3, <2>4, <3>2
    <3>3. QED
      BY <2>2, <3>1, <3>2, Zenon
  <2>6. now - a < Lifetime
    BY <1>2, <2>2, <2>3, Zenon
  <2>7. now - b < Lifetime
    BY <1>1, <2>4, <2>5, <2>6 DEF HintConstants
  <2>8. QED
    BY <1>7, <2>2, <2>3, <2>7, Zenon
<1>9. QED
  BY <1>3, <1>5, <1>7, <1>8, Zenon


\* A newer source at the end.
LEMMA Entered ==
  ASSUME HintConstants, NEW o, NEW m, NEW t \in Nat, Chronicle(o, m, t), Len(o) < MaxHints,
         NEW source \in Addresses, source \notin DOMAIN m, NEW hint, hint.received = t,
         NEW n, n = [s \in DOMAIN m \cup {source} |-> IF s = source THEN hint ELSE m[s]]
  PROVE  Chronicle(Append(o, source), n, t)
<1>1. /\ o \in Seq(Addresses) /\ DOMAIN m = Named(o)
      /\ \A i, j \in DOMAIN o : o[i] = o[j] => i = j
      /\ \A s \in DOMAIN m : m[s].received \in Nat /\ m[s].received <= t
      /\ ByAge(o, m)
  BY Zenon DEF Chronicle
<1>2. PICK p : p = Append(o, source)
  BY Zenon
<1>3. /\ p \in Seq(Addresses) /\ Len(p) = Len(o) + 1 /\ Len(o) \in Nat /\ DOMAIN o = 1..Len(o)
      /\ DOMAIN p = 1..(Len(o) + 1) /\ \A i \in DOMAIN o : p[i] = o[i]
      /\ p[Len(o) + 1] = source
  BY <1>1, <1>2
<1>4. Len(p) <= MaxHints
  BY <1>3 DEF HintConstants
<1>5. \A i \in DOMAIN p : i \in DOMAIN o \/ i = Len(o) + 1
  BY <1>3
<1>6. \A i \in DOMAIN o : i \in DOMAIN p /\ o[i] \in DOMAIN m /\ o[i] # source
  BY <1>1, <1>3 DEF Named
<1>7. \A i, j \in DOMAIN p : p[i] = p[j] => i = j
  BY <1>1, <1>3, <1>5, <1>6, Zenon
<1>8. /\ DOMAIN n = DOMAIN m \cup {source} /\ n[source].received = t
      /\ \A s \in DOMAIN m : n[s] = m[s]
  BY Zenon
<1>9. DOMAIN n = Named(p)
  <2>1. ASSUME NEW s \in DOMAIN n PROVE s \in Named(p)
    <3>1. Len(o) + 1 \in DOMAIN p
      BY <1>3
    <3>2. CASE s = source
      BY <1>3, <3>1, <3>2, Zenon DEF Named
    <3>3. CASE s \in DOMAIN m
      <4>1. PICK i \in DOMAIN o : o[i] = s
        BY <1>1, <3>3, Zenon DEF Named
      <4>2. QED
        BY <1>3, <1>6, <4>1, Zenon DEF Named
    <3>4. QED
      BY <1>8, <2>1, <3>2, <3>3, Zenon
  <2>2. ASSUME NEW i \in DOMAIN p PROVE p[i] \in DOMAIN n
    BY <1>3, <1>5, <1>6, <1>8, <2>2, Zenon
  <2>3. QED
    BY <2>1, <2>2, Zenon DEF Named
<1>10. \A s \in DOMAIN n : n[s].received \in Nat /\ n[s].received <= t
  <2>1. t <= t
    OBVIOUS
  <2>2. QED
    BY <1>1, <1>8, <2>1, Zenon
<1>11. ByAge(p, n)
  <2> SUFFICES ASSUME NEW i \in DOMAIN p, NEW j \in DOMAIN p, i < j
               PROVE  n[p[i]].received <= n[p[j]].received
    BY Zenon DEF ByAge
  <2>1. i \in DOMAIN o
    BY <1>3, <1>5
  <2>2. CASE j \in DOMAIN o
    <3>1. m[o[i]].received <= m[o[j]].received
      BY <1>1, <2>1, <2>2, Zenon DEF ByAge
    <3>2. n[p[i]] = m[o[i]] /\ n[p[j]] = m[o[j]]
      BY <1>3, <1>6, <1>8, <2>1, <2>2, Zenon
    <3>3. QED
      BY <3>1, <3>2, Zenon
  <2>3. CASE j = Len(o) + 1
    <3>1. n[p[j]].received = t /\ p[i] \in DOMAIN n
      BY <1>3, <1>6, <1>8, <2>1, <2>3, Zenon
    <3>2. QED
      BY <1>10, <3>1, Zenon
  <2>4. QED
    BY <1>5, <2>2, <2>3, Zenon
<1>12. Chronicle(p, n, t)
  BY <1>3, <1>4, <1>7, <1>9, <1>10, <1>11, Zenon DEF Chronicle
<1>13. QED
  BY <1>2, <1>12, Zenon

\* What Observe enters, into a table it has expired.
LEMMA EnterKeeps ==
  ASSUME HintConstants, HintInv, NEW k \in Hints!Dead, NEW source \in Addresses,
         NEW hint, hint.received = now, Hints!Enter(k, source, hint)
  PROVE  Chronicle(order', by_source', now)
<1>1. PICK o, m : o = Hints!KeptOrder(k) /\ m = Hints!KeptMap(k)
  BY Zenon
<1>2. Chronicle(o, m, now) /\ now \in Nat
  BY <1>1, ExpireKeeps, Zenon DEF HintInv
<1>3. o \in Seq(Addresses) /\ Len(o) \in Nat /\ Len(o) <= MaxHints
  BY <1>2 DEF Chronicle
<1>4. CASE source \in DOMAIN m
  BY <1>1, <1>2, <1>4, Zenon DEF Hints!Enter
<1>5. CASE source \notin DOMAIN m /\ Len(o) = MaxHints
  <2>1. PICK p, q : p = Tail(o) /\ q = Hints!Forget(m, {Head(o)})
    BY Zenon
  <2>2. /\ o # << >> /\ p \in Seq(Addresses) /\ Len(p) = Len(o) - 1 /\ 1 \in 0..Len(o)
        /\ \A i \in 1..Len(p) : p[i] = o[i + 1]
    BY <1>3, <1>5, <2>1 DEF HintConstants
  <2>3. {Head(o)} = Firsts(o, 1)
    BY <1>3, <2>2 DEF Firsts
  <2>4. Shortens(p, q, 1, o, m)
    BY <2>1, <2>2, <2>3, Zenon DEF Shortens
  <2>5. Chronicle(p, q, now)
    BY <1>2, <2>4, Shortened, Zenon
  <2>6. DOMAIN q \subseteq DOMAIN m
    BY <2>1, Zenon DEF Hints!Forget
  <2>7. PICK n : n = [s \in DOMAIN q \cup {source} |-> IF s = source THEN hint ELSE q[s]]
    BY Zenon
  <2>8. Len(p) < MaxHints /\ source \notin DOMAIN q
    BY <1>3, <1>5, <2>2, <2>6 DEF HintConstants
  <2>9. Chronicle(Append(p, source), n, now)
    BY <1>2, <2>5, <2>7, <2>8, Entered, Zenon
  <2>10. order' = Append(p, source) /\ by_source' = n
    BY <1>1, <1>5, <2>1, <2>7, Zenon DEF Hints!Enter
  <2>11. QED
    BY <2>9, <2>10, Zenon
<1>6. CASE source \notin DOMAIN m /\ Len(o) # MaxHints
  <2>1. PICK n : n = [s \in DOMAIN m \cup {source} |-> IF s = source THEN hint ELSE m[s]]
    BY Zenon
  <2>2. Len(o) < MaxHints
    BY <1>3, <1>6 DEF HintConstants
  <2>3. Chronicle(Append(o, source), n, now)
    BY <1>2, <1>6, <2>1, <2>2, Entered, Zenon
  <2>4. order' = Append(o, source) /\ by_source' = n
    BY <1>1, <1>6, <2>1, Zenon DEF Hints!Enter
  <2>5. QED
    BY <2>3, <2>4, Zenon
<1>7. QED
  BY <1>4, <1>5, <1>6, Zenon

\* Only one worker's job changes.
LEMMA JobKeeps ==
  ASSUME HintInv, NEW w \in Workers, NEW j, Handed(j), job' = [job EXCEPT ![w] = j],
         now' = now, Chronicle(order', by_source', now)
  PROVE  HintInv'
<1>1. job = [v \in Workers |-> job[v]]
  BY Zenon DEF HintInv
<1>2. job' = [v \in Workers |-> job'[v]] /\ job'[w] = j /\ \A v \in Workers : v # w => job'[v] = job[v]
  BY <1>1, Zenon
<1>3. ASSUME NEW v \in Workers PROVE Handed(job'[v])
  BY <1>2, Zenon DEF HintInv
<1>4. QED
  BY <1>2, <1>3, Zenon DEF HintInv

\* discard takes its source from the map and from the order.
LEMMA DiscardKeeps ==
  ASSUME HintConstants, HintInv, NEW w \in Workers, Hints!Discard(w)
  PROVE  Chronicle(order', by_source', now)
<1>1. PICK e : e = job[w].source
  BY Zenon
<1>2. by_source' = Hints!Forget(by_source, {e})
  BY <1>1, Zenon DEF Hints!Discard
<1>3. DOMAIN by_source' = DOMAIN by_source \ {e} /\ \A s \in DOMAIN by_source' : by_source'[s] = by_source[s]
  BY <1>2, Zenon DEF Hints!Forget
<1>4. /\ Chronicle(order, by_source, now) /\ order \in Seq(Addresses) /\ DOMAIN by_source = Named(order)
  BY Zenon DEF HintInv, Chronicle
<1>5. CASE e \in DOMAIN by_source
  <2>1. PICK f \in Hints!Retained(e) : order' = [i \in DOMAIN f |-> order[f[i]]]
    BY <1>1, <1>5, Zenon DEF Hints!Discard
  <2>2. PICK n \in 0..Len(order) : f \in [1..n -> DOMAIN order]
    BY <2>1, Zenon DEF Hints!Retained
  <2>3. /\ Hints!Range(f) = {i \in DOMAIN order : order[i] # e}
        /\ \A i, j \in DOMAIN f : i < j => f[i] < f[j]
    BY <2>1, Zenon DEF Hints!Retained
  <2>4. /\ order' \in Seq(Addresses) /\ Len(order') = n /\ DOMAIN order' = 1..n /\ DOMAIN f = 1..n
        /\ n <= Len(order) /\ \A i \in 1..n : order'[i] = order[f[i]]
    BY <1>4, <2>1, <2>2
  <2>5. \A i \in 1..n : f[i] \in DOMAIN order /\ order[f[i]] # e
    BY <2>2, <2>3, <2>4, Zenon DEF Hints!Range
  <2>6. \A i \in DOMAIN order : order[i] # e => \E j \in 1..n : f[j] = i
    BY <2>3, <2>4 DEF Hints!Range
  <2>7. DOMAIN by_source' = Named(order')
    <3>1. ASSUME NEW s \in DOMAIN by_source' PROVE s \in Named(order')
      <4>1. PICK i \in DOMAIN order : order[i] = s /\ s # e
        BY <1>3, <1>4, <3>1, Zenon DEF Named
      <4>2. PICK j \in 1..n : f[j] = i
        BY <2>6, <4>1, Zenon
      <4>3. order'[j] = s
        BY <2>4, <4>1, <4>2, Zenon
      <4>4. QED
        BY <2>4, <4>3, Zenon DEF Named
    <3>2. ASSUME NEW i \in DOMAIN order' PROVE order'[i] \in DOMAIN by_source'
      <4>1. f[i] \in DOMAIN order /\ order'[i] = order[f[i]] /\ order[f[i]] # e
        BY <2>4, <2>5, <3>2, Zenon
      <4>2. order[f[i]] \in DOMAIN by_source
        BY <1>4, <4>1, Zenon DEF Named
      <4>3. QED
        BY <1>3, <4>1, <4>2, Zenon
    <3>3. QED
      BY <3>1, <3>2, Zenon DEF Named
  <2>8. Thins(order', by_source', f, order, by_source)
    BY <1>3, <2>2, <2>3, <2>4, <2>7, Zenon DEF Thins
  <2>9. QED
    BY <1>4, <2>8, Thinned, Zenon
<1>6. CASE e \notin DOMAIN by_source
  <2>1. order' = order /\ DOMAIN by_source' = DOMAIN by_source
    BY <1>1, <1>3, <1>6, Zenon DEF Hints!Discard
  <2>2. \A i \in DOMAIN order : order[i] \in DOMAIN by_source'
    BY <1>4, <2>1, Zenon DEF Named
  <2>3. ByAge(order', by_source')
    BY <1>3, <1>4, <2>1, <2>2, Zenon DEF Chronicle, ByAge
  <2>4. QED
    BY <1>3, <1>4, <2>1, <2>3, Zenon DEF Chronicle
<1>7. QED
  BY <1>5, <1>6, Zenon


\* Every step of the table keeps the invariant.
LEMMA HintStep ==
  ASSUME HintConstants, HintInv, [Hints!Next]_Hints!vars
  PROVE  HintInv'
<1>0. now \in Nat /\ Chronicle(order, by_source, now) /\ \A w \in Workers : Handed(job[w])
  BY Zenon DEF HintInv
<1>1. Handed(Hints!Idle)
  BY Zenon DEF Handed, Hints!Idle
<1>2. ASSUME NEW w \in Workers, NEW s \in Addresses, NEW p \in Protocols, Hints!Detect(w, s, p)
      PROVE  HintInv'
  <2>1. PICK j : j = [at |-> "detected", source |-> s, protocol |-> p, seen |-> now]
    BY Zenon
  <2>2. Handed(j)
    BY <2>1, Zenon DEF Handed
  <2>3. job' = [job EXCEPT ![w] = j] /\ UNCHANGED <<by_source, order, now>>
    BY <1>2, <2>1, Zenon DEF Hints!Detect
  <2>4. QED
    BY <1>0, <2>2, <2>3, JobKeeps, Zenon
<1>3. ASSUME NEW w \in Workers, NEW s \in Addresses, Hints!Get(w, s)
      PROVE  HintInv'
  <2>1. PICK k \in Hints!Dead :
          /\ order' = Hints!KeptOrder(k) /\ by_source' = Hints!KeptMap(k)
          /\ job' = [job EXCEPT ![w] =
               IF s \in DOMAIN Hints!KeptMap(k)
               THEN [at |-> "answered", source |-> s, protocol |-> Hints!KeptMap(k)[s].protocol,
                     age |-> now - Hints!KeptMap(k)[s].received]
               ELSE [at |-> "answered", source |-> s, protocol |-> NoProtocol, age |-> 0]]
    BY <1>3, Zenon DEF Hints!Get
  <2>2. PICK m : m = Hints!KeptMap(k)
    BY Zenon
  <2>3. Chronicle(order', by_source', now) /\ \A x \in DOMAIN m : now - m[x].received < Lifetime
    BY <2>1, <2>2, ExpireKeeps, Zenon
  <2>4. PICK j : j = IF s \in DOMAIN m
                     THEN [at |-> "answered", source |-> s, protocol |-> m[s].protocol,
                           age |-> now - m[s].received]
                     ELSE [at |-> "answered", source |-> s, protocol |-> NoProtocol, age |-> 0]
    BY Zenon
  <2>5. Handed(j)
    <3>1. CASE s \in DOMAIN m
      BY <2>3, <2>4, <3>1, Zenon DEF Handed
    <3>2. CASE s \notin DOMAIN m
      BY <2>4, <3>2, Zenon DEF Handed
    <3>3. QED
      BY <3>1, <3>2, Zenon
  <2>6. job' = [job EXCEPT ![w] = j] /\ now' = now
    BY <1>3, <2>1, <2>2, <2>4, Zenon DEF Hints!Get
  <2>7. QED
    BY <2>3, <2>5, <2>6, JobKeeps, Zenon
<1>4. ASSUME NEW w \in Workers, Hints!Observe(w)
      PROVE  HintInv'
  <2>1. PICK k \in Hints!Dead :
          Hints!Enter(k, job[w].source, [protocol |-> job[w].protocol, received |-> now])
    BY <1>4, Zenon DEF Hints!Observe
  <2>2. PICK hint : hint = [protocol |-> job[w].protocol, received |-> now]
    BY Zenon
  <2>3. hint.received = now /\ Hints!Enter(k, job[w].source, hint)
    BY <2>1, <2>2, Zenon
  <2>4. job[w].source \in Addresses
    BY <1>0, <1>4, Zenon DEF Hints!Observe, Handed
  <2>5. Chronicle(order', by_source', now)
    BY <2>3, <2>4, EnterKeeps, Zenon
  <2>6. job' = [job EXCEPT ![w] = Hints!Idle] /\ now' = now
    BY <1>4, Zenon DEF Hints!Observe
  <2>7. QED
    BY <1>1, <2>5, <2>6, JobKeeps, Zenon
<1>5. ASSUME NEW w \in Workers, Hints!Discard(w)
      PROVE  HintInv'
  <2>1. Chronicle(order', by_source', now)
    BY <1>5, DiscardKeeps, Zenon
  <2>2. QED
    BY <1>1, <1>5, <2>1, JobKeeps, Zenon DEF Hints!Discard
<1>6. ASSUME NEW w \in Workers, Hints!KeepHint(w)
      PROVE  HintInv'
  BY <1>0, <1>1, <1>6, JobKeeps, Zenon DEF Hints!KeepHint
<1>7. CASE Hints!Clear
  <2>1. by_source' = << >> /\ order' = << >> /\ UNCHANGED <<now, job>>
    BY <1>7, Zenon DEF Hints!Clear
  <2>2. DOMAIN by_source' = Named(order') /\ DOMAIN order' = {} /\ order' \in Seq(Addresses)
        /\ Len(order') <= MaxHints /\ DOMAIN by_source' = {}
    BY <2>1 DEF Named, HintConstants
  <2>3. Chronicle(order', by_source', now')
    BY <2>2, Zenon DEF Chronicle, ByAge
  <2>4. QED
    BY <2>1, <2>3, Zenon DEF HintInv
<1>8. CASE Hints!Tick
  <2>1. now' = now + 1 /\ UNCHANGED <<by_source, order, job>>
    BY <1>8, Zenon DEF Hints!Tick
  <2>2. now' \in Nat /\ \A x \in Nat : x <= now => x <= now'
    BY <1>0, <2>1
  <2>3. Chronicle(order', by_source', now')
    BY <1>0, <2>1, <2>2, Zenon DEF Chronicle
  <2>4. QED
    BY <2>1, <2>2, <2>3, Zenon DEF HintInv
<1>9. CASE UNCHANGED Hints!vars
  BY <1>9, Zenon DEF Hints!vars, HintInv
<1>10. QED
  BY <1>2, <1>3, <1>4, <1>5, <1>6, <1>7, <1>8, <1>9, Zenon DEF Hints!Next

\* The hints' map and order agree, hold no more than MAX_HINTS, and no worker
\* is handed evidence older than HINT_LIFETIME: for any workers, sources,
\* capacity and lifetime, however long a worker waits between detecting a
\* prelude and entering it (Pending::expire, observe, get and discard).
THEOREM HintsLive == Hints!Spec => []HintsAreLive
<1>0. HintConstants
  BY TablesAssumption, Zenon DEF HintConstants
<1>1. Hints!Init => HintInv
  <2> SUFFICES ASSUME Hints!Init PROVE HintInv
    BY Zenon
  <2>1. by_source = << >> /\ order = << >> /\ now = 0 /\ job = [w \in Workers |-> Hints!Idle]
    BY Zenon DEF Hints!Init
  <2>2. DOMAIN by_source = Named(order) /\ DOMAIN order = {} /\ order \in Seq(Addresses)
        /\ Len(order) <= MaxHints /\ DOMAIN by_source = {} /\ now \in Nat
    BY <1>0, <2>1 DEF Named, HintConstants
  <2>3. Chronicle(order, by_source, now)
    BY <2>2, Zenon DEF Chronicle, ByAge
  <2>4. PICK f : f = Hints!Idle
    BY Zenon
  <2>5. job = [w \in Workers |-> job[w]] /\ \A w \in Workers : job[w] = f
    BY <2>1, <2>4, Zenon
  <2>6. Handed(f)
    BY <2>4, Zenon DEF Handed, Hints!Idle
  <2>7. QED
    BY <2>2, <2>3, <2>5, <2>6, Zenon DEF HintInv
<1>2. HintInv /\ [Hints!Next]_Hints!vars => HintInv'
  BY <1>0, HintStep, Zenon
<1>3. HintInv => HintsAreLive
  <2> SUFFICES ASSUME HintInv PROVE HintsAreLive
    BY Zenon
  <2>1. Hints!OrderMatchesMap
    BY Zenon DEF HintInv, Chronicle, Named, Hints!OrderMatchesMap, Hints!Range, Hints!IsInjective
  <2>2. Hints!AnswersAreLive
    BY Zenon DEF HintInv, Handed, Hints!AnswersAreLive
  <2>3. QED
    BY <2>1, <2>2, Zenon DEF HintsAreLive, Hints!HintsAreLive
<1>4. QED
  BY <1>1, <1>2, <1>3, PTL DEF Hints!Spec

-----------------------------------------------------------------------------
(***************************************************************************)
(* Cookies.  Secrets are ordered by the limiter that made them and its     *)
(* age.  A message carries a cookie under no later secret than the one in  *)
(* force, so a reply to it is under no earlier one; and while the tunnel   *)
(* still takes a reply to its newest message, the cookie it keeps is the   *)
(* one that message carried, or none.                                      *)
(***************************************************************************)
NoEarlier(a, b) ==
  \/ a.limiter > b.limiter
  \/ a.limiter = b.limiter /\ a.counter >= b.counter

CookieSources == {<<>>} \cup Endpoints \cup {<<e[1]>> : e \in Endpoints}
IssuedCookie == [source: CookieSources, limiter: Nat, counter: Nat]
SentMessage == [index: Nat, from: Endpoints, to: Nat, mac2: IssuedCookie]

Age == (seconds - limiter.start_time) \div CookieRefresh

\* Issued under the secret in force, or an earlier one.
Issued(k) ==
  \/ limiter.id > k.limiter
  \/ limiter.id = k.limiter /\ Age >= k.counter

Answer(r) ==
  /\ r.aad \in 1..Len(sent) /\ r.cookie \in IssuedCookie
  /\ r.cookie.source = Exchange!CookieInput(sent[r.aad].from)
  /\ r.cookie.limiter >= sent[r.aad].to
  /\ NoEarlier(r.cookie, sent[r.aad].mac2)
  /\ Issued(r.cookie)

CookieClock ==
  /\ seconds \in Nat
  /\ limiter \in [id: Nat, start_time: Nat, ports: BOOLEAN]
  /\ limiter.start_time <= seconds
  /\ endpoint \in Endpoints

Outgoing ==
  /\ sent \in Seq(SentMessage)
  /\ \A n \in 1..Len(sent) : sent[n].to <= limiter.id /\ Issued(sent[n].mac2)

KeptCookie ==
  /\ cookies \in [index: Nat, last_mac1: Nat, write_cookie: IssuedCookie]
  /\ Issued(cookies.write_cookie)
  /\ cookies.last_mac1 # 0 =>
       /\ cookies.last_mac1 = Len(sent) /\ Len(sent) # 0
       /\ cookies.write_cookie \in {Exchange!NoCookie, sent[Len(sent)].mac2}

CookieInv == CookieClock /\ Outgoing /\ KeptCookie /\ \A r \in replies : Answer(r)

\* Dividing keeps the order.
LEMMA DivGrows ==
  ASSUME NEW a \in Nat, NEW b \in Nat, NEW d \in Nat \ {0}, a <= b
  PROVE  a \div d \in Nat /\ a \div d <= b \div d
<1> DEFINE p == a \div d
           q == b \div d
<1>1. p \in Int /\ q \in Int /\ a = d * p + (a % d) /\ b = d * q + (b % d)
      /\ a % d \in 0..(d - 1) /\ b % d \in 0..(d - 1)
  OBVIOUS
<1> HIDE DEF p, q
<1>2. d * (p - q) < d
  <2>1. d * p - d * q < d
    BY <1>1
  <2>2. d * (p - q) = d * p - d * q
    BY <1>1
  <2> QED BY <2>1, <2>2
<1>3. p - q < 1
  <2> SUFFICES ASSUME p - q >= 1 PROVE FALSE
    BY <1>1
  <2>1. d * (p - q) >= d
    BY <1>1
  <2> QED BY <1>1, <1>2, <2>1
<1>4. p >= 0
  <2> SUFFICES ASSUME p <= -1 PROVE FALSE
    BY <1>1
  <2>1. d * p <= -d
    BY <1>1
  <2> QED BY <1>1, <2>1
<1> QED BY <1>1, <1>3, <1>4 DEF p, q

LEMMA CookieConstants == CookieRefresh \in Nat \ {0} /\ IndexSpace \in Nat \ {0}
  BY TablesAssumption

LEMMA AgeType == ASSUME CookieClock PROVE Age \in Nat
<1>1. seconds - limiter.start_time \in Nat
  BY DEF CookieClock
<1> QED BY <1>1, CookieConstants, DivGrows DEF Age

\* Time and restarts only bring later secrets.
LEMMA IssuedStays ==
  ASSUME CookieClock, CookieClock',
         \/ limiter' = limiter /\ seconds' >= seconds
         \/ limiter'.id > limiter.id
  PROVE  \A k \in IssuedCookie : Issued(k) => Issued(k)'
<1> SUFFICES ASSUME NEW k \in IssuedCookie, Issued(k) PROVE Issued(k)'
  BY Zenon
<1>1. limiter.id \in Nat /\ limiter'.id \in Nat /\ k.limiter \in Nat /\ k.counter \in Nat
  <2>1. limiter \in [id: Nat, start_time: Nat, ports: BOOLEAN]
    BY Zenon DEF CookieClock
  <2>2. limiter' \in [id: Nat, start_time: Nat, ports: BOOLEAN]
    BY Zenon DEF CookieClock
  <2> QED BY <2>1, <2>2 DEF IssuedCookie
<1>2. CASE limiter'.id > limiter.id
  <2>1. limiter.id >= k.limiter
    BY <1>1, AgeType DEF Issued
  <2>2. limiter'.id > k.limiter
    BY <1>1, <1>2, <2>1
  <2> QED BY <2>2, Zenon DEF Issued
<1>3. CASE limiter' = limiter /\ seconds' >= seconds
  <2>1. /\ seconds - limiter.start_time \in Nat /\ seconds' - limiter.start_time \in Nat
        /\ seconds - limiter.start_time <= seconds' - limiter.start_time
    BY <1>3 DEF CookieClock
  <2>2. Age \in Nat /\ Age' \in Nat /\ Age <= Age'
    BY <1>3, <2>1, CookieConstants, DivGrows DEF Age
  <2> QED BY <1>1, <1>3, <2>2 DEF Issued
<1> QED BY <1>2, <1>3, Zenon

\* The cookie a message is answered with is under the secret in force.
LEMMA CurrentIssued ==
  ASSUME CookieClock, NEW from \in Endpoints
  PROVE  /\ Exchange!CurrentCookie(from) \in IssuedCookie
         /\ Issued(Exchange!CurrentCookie(from))
         /\ Exchange!CurrentCookie(from).source = Exchange!CookieInput(from)
         /\ Exchange!CurrentCookie(from).limiter = limiter.id
         /\ Exchange!CurrentCookie(from).counter = Age
<1>1. Exchange!CookieInput(from) \in CookieSources
  BY Zenon DEF Exchange!CookieInput, CookieSources
<1>2. Age \in Nat /\ limiter.id \in Nat
  BY AgeType DEF CookieClock
<1>3. Exchange!CurrentCookie(from) =
        [source |-> Exchange!CookieInput(from), limiter |-> limiter.id, counter |-> Age]
  BY Zenon DEF Exchange!CurrentCookie, Age
<1> QED BY <1>1, <1>2, <1>3 DEF IssuedCookie, Issued

LEMMA CookieInit == ASSUME Exchange!Init PROVE CookieInv
<1>1. /\ seconds = 0 /\ endpoint \in Endpoints
      /\ limiter \in [id: {1}, start_time: {0}, ports: BOOLEAN]
      /\ sent = <<>> /\ replies = {} /\ cookies = Exchange!Empty
  BY Zenon DEF Exchange!Init
<1>2. CookieClock /\ limiter.id = 1
  BY <1>1 DEF CookieClock
<1>3. Outgoing
  BY <1>1 DEF Outgoing
<1>4. /\ Exchange!NoCookie \in IssuedCookie /\ Exchange!NoCookie.limiter = 0
      /\ Exchange!NoCookie.counter = 0
  BY DEF Exchange!NoCookie, IssuedCookie, CookieSources
<1>5. /\ cookies \in [index: Nat, last_mac1: Nat, write_cookie: IssuedCookie]
      /\ cookies.last_mac1 = 0 /\ cookies.write_cookie = Exchange!NoCookie
  BY <1>1, <1>4 DEF Exchange!Empty
<1>6. Issued(cookies.write_cookie)
  <2>1. limiter.id > cookies.write_cookie.limiter
    BY <1>2, <1>4, <1>5
  <2> QED BY <2>1, Zenon DEF Issued
<1>7. KeptCookie
  BY <1>5, <1>6, Zenon DEF KeptCookie
<1> QED BY <1>1, <1>2, <1>3, <1>7, Zenon DEF CookieInv

\* What stays true of the replies while later secrets and messages come.
LEMMA AnswersStay ==
  ASSUME CookieInv, sent' \in Seq(SentMessage), Len(sent') >= Len(sent),
         \A n \in 1..Len(sent) : sent'[n] = sent[n],
         limiter'.ports = limiter.ports,
         \A k \in IssuedCookie : Issued(k) => Issued(k)'
  PROVE  \A r \in replies : Answer(r)'
<1> SUFFICES ASSUME NEW r \in replies PROVE Answer(r)'
  BY Zenon
<1>1. Answer(r)
  BY Zenon DEF CookieInv
<1>2. /\ r.aad \in 1..Len(sent) /\ r.cookie \in IssuedCookie
      /\ r.cookie.source = Exchange!CookieInput(sent[r.aad].from)
      /\ r.cookie.limiter >= sent[r.aad].to
      /\ NoEarlier(r.cookie, sent[r.aad].mac2)
      /\ Issued(r.cookie)
  BY <1>1, Zenon DEF Answer
<1>3. sent'[r.aad] = sent[r.aad] /\ Issued(r.cookie)'
  BY <1>2, Zenon
<1>4. r.aad \in 1..Len(sent')
  <2>1. Len(sent) \in Nat /\ Len(sent') \in Nat
    BY DEF CookieInv, Outgoing
  <2> QED BY <1>2, <2>1
<1>5. Exchange!CookieInput(sent[r.aad].from)' = Exchange!CookieInput(sent[r.aad].from)
  BY <1>3, Zenon DEF Exchange!CookieInput
<1>6. NoEarlier(r.cookie, sent[r.aad].mac2)'
  BY <1>2, <1>3, Zenon DEF NoEarlier
<1> QED BY <1>2, <1>3, <1>4, <1>5, <1>6, Zenon DEF Answer

\* The clock and restarts of the responder, and the path of the tunnel.
LEMMA ClockStep ==
  ASSUME CookieInv,
         Exchange!Restart \/ Exchange!Tick \/ \E to \in Endpoints : Exchange!Rebind(to)
  PROVE  CookieInv'
<1>0. UNCHANGED <<sent, replies, cookies>>
  BY Zenon DEF Exchange!Restart, Exchange!Tick, Exchange!Rebind
<1>1. CookieClock' /\ limiter'.ports = limiter.ports
      /\ \/ limiter' = limiter /\ seconds' >= seconds
         \/ limiter'.id > limiter.id
  <2>1. /\ seconds \in Nat /\ limiter \in [id: Nat, start_time: Nat, ports: BOOLEAN]
        /\ limiter.start_time <= seconds /\ endpoint \in Endpoints
    BY Zenon DEF CookieInv, CookieClock
  <2>2. CASE Exchange!Restart
    <3>1. /\ limiter' = [limiter EXCEPT !.id = limiter.id + 1, !.start_time = seconds]
          /\ seconds' = seconds /\ endpoint' = endpoint
      BY <2>2, Zenon DEF Exchange!Restart
    <3>2. /\ limiter' \in [id: Nat, start_time: Nat, ports: BOOLEAN]
          /\ limiter'.id > limiter.id /\ limiter'.start_time <= seconds
          /\ limiter'.ports = limiter.ports
      <4>1. limiter.id \in Nat /\ limiter.start_time \in Nat /\ limiter.ports \in BOOLEAN
        BY <2>1, Zenon
      <4>2. limiter.id + 1 \in Nat /\ limiter.id + 1 > limiter.id /\ seconds <= seconds
        BY <2>1, <4>1
      <4>3. limiter' = [id |-> limiter.id + 1, start_time |-> seconds, ports |-> limiter.ports]
        BY <2>1, <3>1, Zenon
      <4> QED BY <2>1, <4>1, <4>2, <4>3, Zenon
    <3> QED BY <2>1, <3>1, <3>2, Zenon DEF CookieClock
  <2>3. CASE Exchange!Tick
    <3>1. limiter' = limiter /\ seconds' = seconds + 1 /\ endpoint' = endpoint
      BY <2>3, Zenon DEF Exchange!Tick
    <3> QED BY <2>1, <3>1 DEF CookieClock
  <2>4. ASSUME NEW to \in Endpoints, Exchange!Rebind(to)
        PROVE  CookieClock' /\ limiter' = limiter /\ seconds' >= seconds
    <3>1. limiter' = limiter /\ seconds' = seconds /\ endpoint' = to
      BY <2>4, Zenon DEF Exchange!Rebind
    <3> QED BY <2>1, <3>1 DEF CookieClock
  <2> QED BY <2>2, <2>3, <2>4, Zenon
<1>2. \A k \in IssuedCookie : Issued(k) => Issued(k)'
  BY <1>1, IssuedStays, Zenon DEF CookieInv
<1>3. sent \in Seq(SentMessage) /\ Len(sent) \in Nat
  BY DEF CookieInv, Outgoing
<1>4. \A r \in replies' : Answer(r)'
  <2>1. Len(sent') >= Len(sent) /\ sent' \in Seq(SentMessage)
    BY <1>0, <1>3
  <2> QED BY <1>0, <1>1, <1>2, <2>1, AnswersStay, Zenon
<1>5. limiter'.id >= limiter.id /\ limiter.id \in Nat /\ limiter'.id \in Nat
  BY <1>1 DEF CookieInv, CookieClock
<1>6. Outgoing'
  <2>1. \A n \in 1..Len(sent) : /\ sent[n] \in SentMessage /\ sent[n].to <= limiter.id
                                /\ Issued(sent[n].mac2)
    BY <1>3 DEF CookieInv, Outgoing
  <2>2. \A n \in 1..Len(sent) : sent[n].to \in Nat /\ sent[n].mac2 \in IssuedCookie
    BY <2>1 DEF SentMessage
  <2>3. \A n \in 1..Len(sent) : sent[n].to <= limiter'.id
    BY <1>5, <2>1, <2>2
  <2>4. \A n \in 1..Len(sent) : Issued(sent[n].mac2)'
    BY <1>0, <1>2, <2>1, <2>2, Zenon
  <2> QED BY <1>0, <1>3, <2>3, <2>4, Zenon DEF Outgoing
<1>7. KeptCookie'
  <2>1. cookies.write_cookie \in IssuedCookie /\ Issued(cookies.write_cookie)
    BY DEF CookieInv, KeptCookie
  <2>2. Issued(cookies.write_cookie)'
    BY <1>0, <1>2, <2>1, Zenon
  <2> QED BY <1>0, <2>2, Zenon DEF CookieInv, KeptCookie, Exchange!NoCookie
<1> QED BY <1>1, <1>4, <1>6, <1>7, Zenon DEF CookieInv

\* The responder answers a message under the secret in force.
LEMMA DemandStep ==
  ASSUME CookieInv, NEW n \in DOMAIN sent, Exchange!Demand(n)
  PROVE  CookieInv'
<1>1. /\ UNCHANGED <<seconds, limiter, endpoint, sent, cookies>>
      /\ replies' = replies \cup {Exchange!CookieReply(n)}
  BY Zenon DEF Exchange!Demand
<1>2. CookieClock' /\ Outgoing' /\ KeptCookie' /\ \A k : Issued(k)' <=> Issued(k)
  BY <1>1, Zenon DEF CookieInv, CookieClock, Outgoing, KeptCookie, Issued, Age
<1>3. \A r : Answer(r)' <=> Answer(r)
  BY <1>1, <1>2, Zenon DEF Answer, NoEarlier, Exchange!CookieInput
<1>4. n \in 1..Len(sent) /\ sent[n] \in SentMessage
  BY DEF CookieInv, Outgoing
<1>5. /\ sent[n].from \in Endpoints /\ sent[n].to \in Nat /\ sent[n].mac2 \in IssuedCookie
      /\ sent[n].to <= limiter.id /\ Issued(sent[n].mac2)
  BY <1>4 DEF CookieInv, Outgoing, SentMessage
<1>6. PICK k : k = Exchange!CurrentCookie(sent[n].from)
  BY Zenon
<1>7. /\ k \in IssuedCookie /\ Issued(k) /\ k.source = Exchange!CookieInput(sent[n].from)
      /\ k.limiter = limiter.id /\ k.counter = Age
  BY <1>5, <1>6, CurrentIssued, Zenon DEF CookieInv
<1>8. PICK r : r = Exchange!CookieReply(n)
  BY Zenon
<1>9. r.aad = n /\ r.cookie = k
  BY <1>6, <1>8 DEF Exchange!CookieReply
<1>10. NoEarlier(k, sent[n].mac2)
  BY <1>5, <1>7, Zenon DEF NoEarlier, Issued
<1>11. k.limiter >= sent[n].to
  BY <1>5, <1>7
<1>12. Answer(r)
  BY <1>4, <1>7, <1>9, <1>10, <1>11, Zenon DEF Answer
<1> QED BY <1>1, <1>2, <1>3, <1>8, <1>12, Zenon DEF CookieInv

\* A message carries the cookie the tunnel keeps, and makes older replies stale.
LEMMA SendStep == ASSUME CookieInv, Exchange!Send PROVE CookieInv'
<1>1. PICK index \in Exchange!IncIndex(cookies.index) : Exchange!AppendMacs(index)
  BY Zenon DEF Exchange!Send
<1>2. UNCHANGED <<seconds, limiter, endpoint, replies>>
  BY Zenon DEF Exchange!Send
<1>3. CookieClock' /\ \A k : Issued(k)' <=> Issued(k)
  BY <1>2, Zenon DEF CookieInv, CookieClock, Issued, Age
<1>4. PICK m : m = [index |-> index, from |-> endpoint, to |-> limiter.id,
                    mac2 |-> cookies.write_cookie]
  BY Zenon
<1>5. /\ sent' = Append(sent, m)
      /\ cookies' = [cookies EXCEPT !.index = index, !.last_mac1 = Len(sent) + 1]
  BY <1>1, <1>4, Zenon DEF Exchange!AppendMacs
<1>6. /\ cookies \in [index: Nat, last_mac1: Nat, write_cookie: IssuedCookie]
      /\ Issued(cookies.write_cookie) /\ sent \in Seq(SentMessage)
      /\ endpoint \in Endpoints /\ limiter \in [id: Nat, start_time: Nat, ports: BOOLEAN]
  BY Zenon DEF CookieInv, KeptCookie, Outgoing, CookieClock
<1>7. index \in Nat
  <2>1. cookies.index \in Nat
    BY <1>6
  <2>2. \A j \in {1, 2} : (cookies.index + j) % IndexSpace \in Nat
    BY <2>1, CookieConstants
  <2> QED BY <1>1, <2>2, Zenon DEF Exchange!IncIndex
<1>8. /\ m \in SentMessage /\ m.to = limiter.id /\ limiter.id \in Nat
      /\ m.mac2 = cookies.write_cookie
  BY <1>4, <1>6, <1>7 DEF SentMessage
<1>9. /\ sent' \in Seq(SentMessage) /\ Len(sent') = Len(sent) + 1 /\ Len(sent) \in Nat
      /\ sent'[Len(sent')] = m /\ \A n \in 1..Len(sent) : sent'[n] = sent[n]
  BY <1>5, <1>6, <1>8
<1>10. \A r \in replies' : Answer(r)'
  <2>1. Len(sent') >= Len(sent)
    BY <1>9
  <2> QED BY <1>2, <1>3, <1>9, <2>1, AnswersStay, Zenon
<1>11. Outgoing'
  <2>1. 1..Len(sent') = 1..Len(sent) \cup {Len(sent')}
    BY <1>9
  <2>2. m.to <= limiter.id
    BY <1>8
  <2> QED BY <1>2, <1>3, <1>6, <1>8, <1>9, <2>1, <2>2, Zenon DEF CookieInv, Outgoing
<1>12. KeptCookie'
  <2>1. /\ cookies' \in [index: Nat, last_mac1: Nat, write_cookie: IssuedCookie]
        /\ cookies'.write_cookie = cookies.write_cookie /\ cookies'.last_mac1 = Len(sent')
        /\ Len(sent') # 0
    <3>1. Len(sent) + 1 \in Nat /\ Len(sent) + 1 # 0
      BY <1>9
    <3>2. cookies' = [index |-> index, last_mac1 |-> Len(sent) + 1,
                      write_cookie |-> cookies.write_cookie]
      BY <1>5, <1>6, Zenon
    <3>3. cookies.write_cookie \in IssuedCookie
      BY <1>6, Zenon
    <3> QED BY <1>7, <1>9, <3>1, <3>2, <3>3, Zenon
  <2> QED BY <1>3, <1>6, <1>8, <1>9, <2>1, Zenon DEF KeptCookie
<1> QED BY <1>3, <1>10, <1>11, <1>12, Zenon DEF CookieInv

\* A reply taken is for the newest message.
LEMMA ReceiveStep ==
  ASSUME CookieInv, NEW r \in replies, Exchange!Receive(r)
  PROVE  /\ CookieInv'
         /\ cookies'.write_cookie = r.cookie /\ r.aad = Len(sent)
         /\ cookies.write_cookie \in {Exchange!NoCookie, sent[Len(sent)].mac2}
<1>1. /\ UNCHANGED <<seconds, limiter, endpoint, sent, replies>>
      /\ cookies' = [cookies EXCEPT !.write_cookie = r.cookie, !.last_mac1 = 0]
      /\ cookies.last_mac1 # 0 /\ r.aad = cookies.last_mac1
  BY Zenon DEF Exchange!Receive, Exchange!AuthenticateCookieReply, Exchange!CommitCookie
<1>2. CookieClock' /\ Outgoing' /\ \A k : Issued(k)' <=> Issued(k)
  BY <1>1, Zenon DEF CookieInv, CookieClock, Outgoing, Issued, Age
<1>3. \A q : Answer(q)' <=> Answer(q)
  BY <1>1, <1>2, Zenon DEF Answer, NoEarlier, Exchange!CookieInput
<1>4. r.cookie \in IssuedCookie /\ Issued(r.cookie)
  BY Zenon DEF CookieInv, Answer
<1>5. cookies \in [index: Nat, last_mac1: Nat, write_cookie: IssuedCookie]
  BY Zenon DEF CookieInv, KeptCookie
<1>6. /\ cookies' \in [index: Nat, last_mac1: Nat, write_cookie: IssuedCookie]
      /\ cookies'.write_cookie = r.cookie /\ cookies'.last_mac1 = 0
  BY <1>1, <1>4, <1>5, Zenon
<1>7. KeptCookie'
  BY <1>2, <1>4, <1>6, Zenon DEF KeptCookie
<1> QED BY <1>1, <1>2, <1>3, <1>6, <1>7, Zenon DEF CookieInv, KeptCookie

LEMMA ClearStep ==
  ASSUME CookieInv, Exchange!ClearCookie
  PROVE  CookieInv' /\ cookies'.write_cookie = Exchange!NoCookie
<1>1. /\ UNCHANGED <<seconds, limiter, endpoint, sent, replies>>
      /\ cookies' = [cookies EXCEPT !.write_cookie = Exchange!NoCookie]
  BY Zenon DEF Exchange!ClearCookie
<1>2. CookieClock' /\ Outgoing' /\ \A k : Issued(k)' <=> Issued(k)
  BY <1>1, Zenon DEF CookieInv, CookieClock, Outgoing, Issued, Age
<1>3. \A q : Answer(q)' <=> Answer(q)
  BY <1>1, <1>2, Zenon DEF Answer, NoEarlier, Exchange!CookieInput
<1>4. /\ Exchange!NoCookie \in IssuedCookie /\ Exchange!NoCookie.limiter = 0
      /\ Exchange!NoCookie.counter = 0
  BY DEF Exchange!NoCookie, IssuedCookie, CookieSources
<1>5. /\ cookies \in [index: Nat, last_mac1: Nat, write_cookie: IssuedCookie]
      /\ limiter.id \in Nat
  BY DEF CookieInv, KeptCookie, CookieClock
<1>6. /\ cookies' \in [index: Nat, last_mac1: Nat, write_cookie: IssuedCookie]
      /\ cookies'.write_cookie = Exchange!NoCookie
      /\ cookies'.last_mac1 = cookies.last_mac1
  BY <1>1, <1>4, <1>5
<1>7. Issued(Exchange!NoCookie)
  <2>1. Age >= 0
    BY AgeType DEF CookieInv
  <2>2. limiter.id > 0 \/ limiter.id = 0
    BY <1>5
  <2> QED BY <1>4, <2>1, <2>2, Zenon DEF Issued
<1>8. KeptCookie'
  BY <1>1, <1>2, <1>6, <1>7, Zenon DEF CookieInv, KeptCookie, Exchange!NoCookie
<1> QED BY <1>1, <1>2, <1>3, <1>6, <1>8, Zenon DEF CookieInv

LEMMA CookieStep == CookieInv /\ [Exchange!Next]_(Exchange!vars) => CookieInv'
<1> SUFFICES ASSUME CookieInv, [Exchange!Next]_(Exchange!vars) PROVE CookieInv'
  BY Zenon
<1>1. CASE UNCHANGED Exchange!vars
  <2>1. UNCHANGED <<seconds, limiter, endpoint, sent, replies, cookies>>
    BY <1>1, Zenon DEF Exchange!vars
  <2> QED BY <2>1, Zenon DEF CookieInv, CookieClock, Outgoing, KeptCookie, Answer, Issued,
                             Age, NoEarlier, Exchange!CookieInput
<1> QED BY <1>1, ClockStep, DemandStep, SendStep, ReceiveStep, ClearStep, Zenon
        DEF Exchange!Next

\* Replies that are late, repeated or out of order, indices used again, restarts
\* and changes of the secret never bring an old cookie back: CookiesMoveForward
\* (authenticate_cookie_reply, commit_cookie, current_cookie).
THEOREM CookiesForward == Exchange!Spec => CookiesMoveForward
<1> DEFINE Forward ==
      LET kept == cookies.write_cookie
          new == cookies'.write_cookie
          newest == sent[Len(sent)]
      IN  new \notin {kept, Exchange!NoCookie} =>
            /\ new.source = Exchange!CookieInput(newest.from)
            /\ new.limiter >= newest.to
            /\ \/ new.limiter > kept.limiter
               \/ new.limiter = kept.limiter /\ new.counter >= kept.counter
<1>1. Exchange!Init => CookieInv
  BY CookieInit, Zenon
<1>2. CookieInv /\ [Exchange!Next]_(Exchange!vars) => CookieInv'
  BY CookieStep, Zenon
<1>3. CookieInv /\ [Exchange!Next]_(Exchange!vars) => [Forward]_(Exchange!vars)
  <2> SUFFICES ASSUME CookieInv, Exchange!Next PROVE Forward
    BY Zenon
  <2>1. ASSUME cookies' = cookies PROVE Forward
    BY <2>1, Zenon
  <2>2. CASE Exchange!Send
    <3>1. cookies'.write_cookie = cookies.write_cookie
      BY <2>2 DEF CookieInv, KeptCookie, Exchange!Send, Exchange!AppendMacs
    <3> QED BY <3>1, Zenon
  <2>3. CASE Exchange!ClearCookie
    <3>1. cookies'.write_cookie = Exchange!NoCookie
      BY <2>3, ClearStep, Zenon
    <3> QED BY <3>1, Zenon
  <2>4. ASSUME NEW r \in replies, Exchange!Receive(r) PROVE Forward
    <3>1. /\ cookies'.write_cookie = r.cookie /\ r.aad = Len(sent)
          /\ cookies.write_cookie \in {Exchange!NoCookie, sent[Len(sent)].mac2}
      BY <2>4, ReceiveStep, Zenon
    <3>2. /\ r.cookie \in IssuedCookie
          /\ r.cookie.source = Exchange!CookieInput(sent[Len(sent)].from)
          /\ r.cookie.limiter >= sent[Len(sent)].to
          /\ NoEarlier(r.cookie, sent[Len(sent)].mac2)
      BY <3>1, Zenon DEF CookieInv, Answer
    <3>3. NoEarlier(r.cookie, Exchange!NoCookie)
      BY <3>2 DEF NoEarlier, Exchange!NoCookie, IssuedCookie
    <3>4. NoEarlier(r.cookie, cookies.write_cookie)
      BY <3>1, <3>2, <3>3, Zenon
    <3> QED BY <3>1, <3>2, <3>4, Zenon DEF NoEarlier
  <2>5. CASE \/ Exchange!Restart \/ Exchange!Tick
             \/ \E n \in DOMAIN sent : Exchange!Demand(n)
             \/ \E to \in Endpoints : Exchange!Rebind(to)
    <3>1. cookies' = cookies
      BY <2>5, Zenon DEF Exchange!Restart, Exchange!Tick, Exchange!Demand, Exchange!Rebind
    <3> QED BY <2>1, <3>1, Zenon
  <2> QED BY <2>2, <2>3, <2>4, <2>5, Zenon DEF Exchange!Next
<1>4. [][Forward]_(Exchange!vars) => CookiesMoveForward
  BY Zenon DEF CookiesMoveForward, Exchange!CookiesMoveForward
<1> HIDE DEF Forward
<1> QED BY <1>1, <1>2, <1>3, <1>4, PTL DEF Exchange!Spec
=============================================================================
