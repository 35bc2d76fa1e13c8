---------------------------- MODULE RateLimiter ----------------------------
(***************************************************************************)
(* How handshake messages pass the rate limiter: noise/rate_limiter.rs     *)
(* (SourceCounts, is_under_load, gate_handshake, admit_proven, reset_count)*)
(* under the loop over a datagram's readings in noise/inbound.rs receive.  *)
(*                                                                         *)
(* One limiter is shared by every worker.  A source's count is the minimum *)
(* over rows bumped one after the other, each bump atomic, and the window  *)
(* it counts in was read from the clock before the first.  So the calls of *)
(* several workers, the ticking of the clock and reset_count interleave.   *)
(*                                                                         *)
(* A reading is a handshake message (mac1 holds; mac2 and the Noise trial  *)
(* hold or not), another packet whose trial holds or not, or one refused   *)
(* before that (not parsed, or mac1 does not hold).                        *)
(***************************************************************************)
EXTENDS Integers, Sequences, FiniteSets, FiniteSetsExt

CONSTANTS
  Workers,
  Sources,       \* budget keys: an IPv4 address or an IPv6 /64
  NoSource,      \* a receiver that knows no address
  Slots,         \* SOURCE_SLOTS
  SlotOf,        \* slots_of: per row, where a source counts
  Limit,         \* RateLimiter::limit
  SourceShare,   \* SOURCE_SHARE
  SourceFloor,   \* SOURCE_FLOOR
  Traffics,      \* bounds: who receives, and the datagrams: sequences of readings
  MaxTime,       \* bound: seconds that pass
  MaxDatagrams   \* bound: datagrams that arrive

Rows == DOMAIN SlotOf
Tables == {"sources", "proven"}
Windows == 0..MaxTime

VARIABLES
  table,       \* SourceCounts: per table, row and slot its window and count
  count,       \* RateLimiter::count
  last_reset,  \* RateLimiter::last_reset
  time,        \* the clock, in seconds
  disabled,    \* AmneziaWG DisableCookies
  call,        \* per worker: where its receive is
  arrived,     \* datagrams so far
  traffic,     \* the workers and datagrams of this behaviour
  asked,       \* history: bumps of a source's own, per table, row and window
  granted      \* history: sources not refused their share, per window

vars == <<table, count, last_reset, time, disabled, call, arrived, asked, granted,
          traffic>>

Handshake(mac2, noise) == [kind |-> "handshake", mac2 |-> mac2, ok |-> noise]
Other(ok) == [kind |-> "other", mac2 |-> FALSE, ok |-> ok]
Bad == [kind |-> "bad", mac2 |-> FALSE, ok |-> FALSE]

\* RateLimiter::new
SourceLimit == Max({Limit \div SourceShare, Min({Limit, SourceFloor})})
ProvenLimit == Max({SourceLimit, SourceFloor})

Idle ==
  [at |-> "idle", datagram |-> <<>>, k |-> 1, source |-> NoSource,
   load |-> "undecided", proven |-> "undecided", window |-> 0, row |-> 1,
   min |-> <<0, 0>>, cookie |-> FALSE, under_load |-> FALSE, refused |-> FALSE,
   outcome |-> "none"]

Init ==
  /\ table = [tb \in Tables |-> [r \in Rows |-> [s \in Slots |-> <<0, 0>>]]]
  /\ count = 0
  /\ last_reset = 0
  /\ time = 0
  /\ disabled \in BOOLEAN
  /\ call = [w \in Workers |-> Idle]
  /\ arrived = 0
  /\ traffic \in Traffics
  /\ asked = [tb \in Tables |-> [r \in Rows |-> [s \in Sources |-> [v \in Windows |-> 0]]]]
  /\ granted = [s \in Sources |-> [v \in Windows |-> 0]]

Reading(w) == call[w].datagram[call[w].k]

Becomes(w, c) == call' = [call EXCEPT ![w] = c]
Ends(c, outcome) ==
  [Idle EXCEPT !.outcome = outcome, !.source = c.source, !.datagram = c.datagram,
               !.load = c.load, !.proven = c.proven]
GoesOn(c) == [c EXCEPT !.at = "reading", !.k = @ + 1]

(***************************************************************************)
(* receive: the next reading, or the outcome when there is none left.      *)
(***************************************************************************)
Arrive(w) ==
  /\ call[w].at = "idle" /\ arrived < MaxDatagrams
  /\ arrived' = arrived + 1
  /\ \E s \in Sources \cup {NoSource}, d \in traffic.datagrams :
       Becomes(w, [Idle EXCEPT !.at = "reading", !.source = s, !.datagram = d])
  /\ UNCHANGED <<table, count, last_reset, time, disabled, asked, granted>>

Finish(w) ==
  /\ call[w].at = "reading" /\ call[w].k > Len(call[w].datagram)
  /\ LET c == call[w]
     IN  Becomes(w, Ends(c, CASE c.cookie -> "cookie"
                              [] ~c.cookie /\ c.under_load -> "under_load"
                              [] ~c.cookie /\ ~c.under_load /\ c.refused -> "refused"
                              [] OTHER -> "not_ours"))
  /\ UNCHANGED <<table, count, last_reset, time, disabled, arrived, asked, granted>>

\* The trial of a reading: the first that authenticates is the outcome.
Trial(c, ok) ==
  IF ok THEN Ends(c, "accepted") ELSE [GoesOn(c) EXCEPT !.refused = TRUE]

ReadOther(w) ==
  /\ call[w].at = "reading" /\ call[w].k <= Len(call[w].datagram)
  /\ Reading(w).kind # "handshake"
  /\ Becomes(w, Trial(call[w], Reading(w).ok))
  /\ UNCHANGED <<table, count, last_reset, time, disabled, arrived, asked, granted>>

\* gate_handshake up to the load decision, which a datagram takes once.
ReadHandshake(w) ==
  /\ call[w].at = "reading" /\ call[w].k <= Len(call[w].datagram)
  /\ Reading(w).kind = "handshake"
  /\ Becomes(w,
       IF disabled
       THEN Trial(call[w], Reading(w).ok)
       ELSE IF call[w].load # "undecided"
       THEN [call[w] EXCEPT !.at = "gate"]
       ELSE IF call[w].source = NoSource
       THEN [call[w] EXCEPT !.at = "aggregate"]
       ELSE [call[w] EXCEPT !.at = "sources", !.window = time, !.row = 1])
  /\ UNCHANGED <<table, count, last_reset, time, disabled, arrived, asked, granted>>

(***************************************************************************)
(* SourceCounts::bump: a slot already in a later window counts in that one.*)
(***************************************************************************)
Bumped(slot, window) ==
  IF slot[1] >= window THEN <<slot[1], slot[2] + 1>> ELSE <<window, 1>>

\* The rows' maximum.
LargerOf(a, b) == IF b[2] > a[2] THEN b ELSE a

\* The smaller count, with the window it was counted in.
SmallerOf(a, b) == IF b[2] < a[2] THEN b ELSE a

\* The slot of the row a caller has come to, with its message counted.
RowBumped(w, tb) ==
  LET c == call[w] IN Bumped(table[tb][c.row][SlotOf[c.row][c.source]], c.window)

\* The minimum over the rows so far.
RowMin(w, tb) ==
  IF call[w].row = 1 THEN RowBumped(w, tb) ELSE SmallerOf(call[w].min, RowBumped(w, tb))

\* One row of SourceCounts::count.
BumpRow(w, tb) ==
  LET c == call[w]
  IN  /\ table' = [table EXCEPT ![tb][c.row][SlotOf[c.row][c.source]] = RowBumped(w, tb)]
      /\ asked' = [asked EXCEPT ![tb][c.row][c.source][RowBumped(w, tb)[1]] = @ + 1]

LastRow(w) == call[w].row = Len(SlotOf)
NextRow(w, tb) ==
  /\ Becomes(w, [call[w] EXCEPT !.row = @ + 1, !.min = RowMin(w, tb)])
  /\ UNCHANGED granted

(***************************************************************************)
(* is_under_load: the source's share first, then the aggregate.            *)
(***************************************************************************)
\* The count before this message compared, as for the aggregate.
ShareDecidesBefore(w, min) ==
  LET c == call[w]
  IN  IF min[2] - 1 > SourceLimit
      THEN /\ Becomes(w, [c EXCEPT !.at = "gate", !.load = "source_share"])
           /\ UNCHANGED granted
      ELSE /\ Becomes(w, [c EXCEPT !.at = "aggregate"])
           /\ granted' = [granted EXCEPT ![c.source][min[1]] = @ + 1]

ShareDecides(w, min) ==
  LET c == call[w]
  IN  IF min[2] > SourceLimit
      THEN /\ Becomes(w, [c EXCEPT !.at = "gate", !.load = "source_share"])
           /\ UNCHANGED granted
      ELSE /\ Becomes(w, [c EXCEPT !.at = "aggregate"])
           /\ granted' = [granted EXCEPT ![c.source][min[1]] = @ + 1]

CountSource(w) ==
  /\ call[w].at = "sources"
  /\ BumpRow(w, "sources")
  /\ IF LastRow(w) THEN ShareDecides(w, RowMin(w, "sources")) ELSE NextRow(w, "sources")
  /\ UNCHANGED <<count, last_reset, time, disabled, arrived>>

CountAggregate(w) ==
  /\ call[w].at = "aggregate"
  /\ count' = count + 1
  /\ Becomes(w, [call[w] EXCEPT
       !.at = "gate",
       !.load = IF count >= Limit THEN "aggregate" ELSE "clear"])
  /\ UNCHANGED <<table, last_reset, time, disabled, arrived, asked, granted>>

(***************************************************************************)
(* gate_handshake after the load decision, and admit_proven.               *)
(***************************************************************************)
ProvenDecides(w, admitted) ==
  LET c == call[w]
  IN  IF admitted
      THEN Becomes(w, Trial([c EXCEPT !.proven = "admitted"], Reading(w).ok))
      ELSE Becomes(w, GoesOn([c EXCEPT !.proven = "refused", !.under_load = TRUE]))

\* Answered as soon as it is earned.
AnswerAtOnce(c) == Ends(c, "cookie")

\* A cookie demand is held back while other readings are left.
HoldBack(c) == GoesOn([c EXCEPT !.cookie = TRUE])

Gate(w) ==
  /\ call[w].at = "gate"
  /\ LET c == call[w]
     IN  \/ /\ c.load = "clear"
            /\ Becomes(w, Trial(c, Reading(w).ok))
            /\ UNCHANGED count
         \/ /\ c.load # "clear" /\ c.source = NoSource
            /\ Becomes(w, GoesOn([c EXCEPT !.under_load = TRUE]))
            /\ UNCHANGED count
         \/ /\ c.load # "clear" /\ c.source # NoSource /\ ~Reading(w).mac2
            /\ Becomes(w, HoldBack(c))
            /\ UNCHANGED count
         \/ /\ c.load # "clear" /\ c.source # NoSource /\ Reading(w).mac2
            /\ c.proven # "undecided"
            /\ ProvenDecides(w, c.proven = "admitted")
            /\ UNCHANGED count
         \/ /\ c.load = "aggregate" /\ c.source # NoSource /\ Reading(w).mac2
            /\ c.proven = "undecided"
            /\ Becomes(w, [c EXCEPT !.at = "admit"])
            /\ UNCHANGED count
         \/ /\ c.load = "source_share" /\ Reading(w).mac2
            /\ c.proven = "undecided"
            /\ count' = count + 1
            /\ IF count < Limit
               THEN Becomes(w, Trial([c EXCEPT !.proven = "admitted"], Reading(w).ok))
               ELSE Becomes(w, [c EXCEPT !.at = "admit"])
  /\ UNCHANGED <<table, last_reset, time, disabled, arrived, asked, granted>>

\* admit_proven reads the clock after it has asked the aggregate.
ReadWindow(w) ==
  /\ call[w].at = "admit"
  /\ Becomes(w, [call[w] EXCEPT !.at = "proven", !.window = time, !.row = 1])
  /\ UNCHANGED <<table, count, last_reset, time, disabled, arrived, asked, granted>>

CountProven(w) ==
  /\ call[w].at = "proven"
  /\ BumpRow(w, "proven")
  /\ IF LastRow(w)
     THEN ProvenDecides(w, RowMin(w, "proven")[2] <= ProvenLimit) /\ UNCHANGED granted
     ELSE NextRow(w, "proven")
  /\ UNCHANGED <<count, last_reset, time, disabled, arrived>>

\* reset_count, from the device's one-second timer.
ResetCount ==
  /\ time - last_reset >= 1
  /\ count' = 0
  /\ last_reset' = time
  /\ UNCHANGED <<table, time, disabled, call, arrived, asked, granted>>

Tick ==
  /\ time < MaxTime
  /\ time' = time + 1
  /\ UNCHANGED <<table, count, last_reset, disabled, call, arrived, asked, granted>>

Next ==
  /\ \/ \E w \in traffic.workers :
          \/ Arrive(w) \/ ReadOther(w) \/ ReadHandshake(w) \/ CountSource(w)
          \/ CountAggregate(w) \/ Gate(w) \/ ReadWindow(w) \/ CountProven(w) \/ Finish(w)
     \/ ResetCount
     \/ Tick
  /\ UNCHANGED traffic

Spec == Init /\ [][Next]_vars

-----------------------------------------------------------------------------
\* Each row hands out every count of a window once, so however the calls
\* overlap no window grants a source more than its share once per row; and for
\* calls that do not overlap the share is exact.
ShareBounded ==
  \A s \in Sources, v \in Windows :
    granted[s][v] <= SourceLimit * (IF Cardinality(traffic.workers) = 1 THEN 1 ELSE Len(SlotOf))

\* No other source counts where this one does.
OwnRow(r, s) == \A t \in Sources : t # s => SlotOf[r][t] # SlotOf[r][s]

\* A source with a row to itself is held to its own messages: it is refused its
\* share, or its proven messages are dropped, only when more of them were counted
\* in a window than it may send, whatever others count in the rows they share
\* with it.  The min over the rows in SourceCounts::count is what one such row buys.
OnlyOwnMessagesCount ==
  \A w \in Workers :
    LET c == call[w]
        Over(tb, limit) ==
          \A r \in Rows : OwnRow(r, c.source) => \E v \in Windows : asked[tb][r][c.source][v] > limit
    IN  /\ c.load = "source_share" => Over("sources", SourceLimit)
        /\ c.proven = "refused" => Over("proven", ProvenLimit)

\* A source has its share of the handshakes: no window grants it more, and, with
\* one row to itself, others' messages in its other slots do not count against it.
SharesAreFair == ShareBounded /\ OnlyOwnMessagesCount

\* A reading that only earns a cookie reply or UnderLoad is held back, and the
\* load is decided once for all of them: whatever the order of its readings, a
\* datagram with one that authenticates is accepted unless the limiter itself
\* kept every such reading from its trial.
AuthenticReadingWins ==
  \A w \in Workers :
    LET c == call[w]
        KeptOut(r) == /\ r.kind = "handshake" /\ ~disabled /\ c.load # "clear"
                      /\ ~r.mac2 \/ c.proven = "refused" \/ c.source = NoSource
    IN  c.outcome \in {"cookie", "under_load", "refused"} =>
          \A k \in DOMAIN c.datagram : c.datagram[k].ok => KeptOut(c.datagram[k])
=============================================================================
