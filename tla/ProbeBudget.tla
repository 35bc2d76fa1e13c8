---------------------------- MODULE ProbeBudget ----------------------------
(***************************************************************************)
(* The ceiling on bytes sent in reply to unauthenticated probes:           *)
(* device/probe_budget.rs, shared by every worker of the device.           *)
(*                                                                         *)
(* The balance and the time it was struck are one atomic word.  A caller   *)
(* loads it, then reads the clock, computes the refill, and swaps in the   *)
(* new word; if another caller was faster it starts over.                  *)
(*                                                                         *)
(* Times are kept as the monotonic clock has them.  What the code sees of  *)
(* them is milliseconds modulo the width of half a word: Millis.  A caller *)
(* overtaken by a whole turn of that clock, 49 days, could mistake another *)
(* word for the one it loaded; a behaviour is shorter than that.           *)
(***************************************************************************)
EXTENDS Integers

CONSTANTS
  Workers,
  Rate,       \* bytes_per_sec; also the refill per millisecond
  Milli,      \* MILLI: tokens per byte, and milliseconds per second
  Sizes,      \* the replies asked for, in bytes
  ClockSize,  \* 2^32: where the millisecond clock wraps
  MaxTime     \* bound: milliseconds that pass, less than ClockSize

VARIABLES
  tokens,         \* ProbeBudget::state, the balance
  anchor,         \* ProbeBudget::state, when it was struck
  time,           \* the monotonic clock, in milliseconds since start
  pc,
  old,            \* the word each worker loaded
  read,           \* the clock as each worker read it
  want,           \* the millibytes each worker asks for
  mark,           \* history: when an observer began to count
  spent           \* history: millibytes granted on clock reads since then

vars == <<tokens, anchor, time, pc, old, read, want, spent, mark>>

Cap == Rate * Milli
Millis(t) == t % ClockSize
Word == <<tokens, Millis(anchor)>>
SmallerOf(x, y) == IF x <= y THEN x ELSE y

\* Where a behaviour starts: with a device, or a millisecond before the clock
\* wraps, when a reply has just taken the whole allowance.
Late == ClockSize - 1
Times == (0..MaxTime) \cup (Late..(Late + MaxTime))

Init ==
  /\ \/ tokens = Cap /\ time = 0
     \/ tokens = 0 /\ time = Late
  /\ anchor = time /\ mark = time
  /\ pc = [w \in Workers |-> "idle"]
  /\ old = [w \in Workers |-> <<0, 0>>]
  /\ read = [w \in Workers |-> 0]
  /\ want = [w \in Workers |-> 0]
  /\ spent = Cap - tokens

\* A reply larger than the allowance of a second is refused at once.
Begin(w) ==
  /\ pc[w] = "idle"
  /\ \E bytes \in Sizes :
       /\ bytes * Milli <= Cap
       /\ want' = [want EXCEPT ![w] = bytes * Milli]
  /\ pc' = [pc EXCEPT ![w] = "load"]
  /\ UNCHANGED <<tokens, anchor, time, old, read, spent, mark>>

Load(w) ==
  /\ pc[w] = "load"
  /\ old' = [old EXCEPT ![w] = Word]
  /\ pc' = [pc EXCEPT ![w] = "clock"]
  /\ UNCHANGED <<tokens, anchor, time, read, want, spent, mark>>

ReadClock(w) ==
  /\ pc[w] = "clock"
  /\ read' = [read EXCEPT ![w] = time]
  /\ pc' = [pc EXCEPT ![w] = "swap"]
  /\ UNCHANGED <<tokens, anchor, time, old, want, spent, mark>>

\* A clock behind the stamp taken for a long time.
ElapsedFull(w) ==
  IF Millis(read[w]) >= old[w][2] THEN Millis(read[w]) - old[w][2] ELSE ClockSize

\* saturating_sub: a clock behind the stamp refills nothing.
Elapsed(w) ==
  IF Millis(read[w]) >= old[w][2] THEN Millis(read[w]) - old[w][2] ELSE 0

Available(w) == SmallerOf(old[w][1] + Elapsed(w) * Rate, Cap)

AtRest(w) ==
  /\ pc' = [pc EXCEPT ![w] = "idle"]
  /\ old' = [old EXCEPT ![w] = <<0, 0>>]
  /\ read' = [read EXCEPT ![w] = 0]
  /\ want' = [want EXCEPT ![w] = 0]

Unchanged(w) == old[w] = Word

\* Not enough: store the refill, if there is one to store and nobody was
\* faster, and refuse.
Refuse(w) ==
  /\ pc[w] = "swap" /\ Available(w) < want[w]
  /\ IF Unchanged(w) /\ old[w] # <<Available(w), Millis(read[w])>>
     THEN tokens' = Available(w) /\ anchor' = read[w]
     ELSE UNCHANGED <<tokens, anchor>>
  /\ AtRest(w)
  /\ UNCHANGED <<time, spent, mark>>

Grant(w) ==
  /\ pc[w] = "swap" /\ Available(w) >= want[w]
  /\ Unchanged(w)
  /\ tokens' = Available(w) - want[w]
  /\ anchor' = read[w]
  /\ spent' = IF read[w] >= mark THEN spent + want[w] ELSE spent
  /\ AtRest(w)
  /\ UNCHANGED <<time, mark>>

Retry(w) ==
  /\ pc[w] = "swap" /\ Available(w) >= want[w]
  /\ ~Unchanged(w)
  /\ pc' = [pc EXCEPT ![w] = "load"]
  /\ UNCHANGED <<tokens, anchor, time, old, read, want, spent, mark>>

\* Time passes.
Tick ==
  /\ time + 1 \in Times
  /\ time' = time + 1
  /\ UNCHANGED <<tokens, anchor, pc, old, read, want, spent, mark>>

\* An observer starts to count.
Observe ==
  /\ mark' = time
  /\ spent' = 0
  /\ UNCHANGED <<tokens, anchor, time, pc, old, read, want>>

Next ==
  \/ \E w \in Workers : \/ Begin(w) \/ Load(w) \/ ReadClock(w)
                        \/ Refuse(w) \/ Grant(w) \/ Retry(w)
  \/ Tick
  \/ Observe

Spec == Init /\ [][Next]_vars

-----------------------------------------------------------------------------
\* Over any stretch of time no more is granted than one second's allowance
\* and what accrues while it passes, however many workers draw at once and
\* wherever the millisecond clock wraps.  A grant belongs to the moment its
\* caller read the clock.
Ceiling == spent <= Cap + Rate * (time - mark)
=============================================================================
