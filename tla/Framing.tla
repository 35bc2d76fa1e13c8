------------------------------- MODULE Framing -------------------------------
(***************************************************************************)
(* How a message becomes a datagram and is read back: the AmneziaWG        *)
(* prefixes, padding, trailers and header protection (noise/amnezia.rs,    *)
(* noise/header_protection.rs) and the output budget a datagram is         *)
(* admitted under (noise/budget.rs).                                       *)
(*                                                                         *)
(* Lengths are counted in cells, each as long as a message's type tag.  A  *)
(* cell is a set of bits, so XOR is symmetric difference.  A prefix, a     *)
(* ciphertext or a trailer varies only in the cells some kind's tag is     *)
(* read from, and the nonce is the first cell: no other is ever looked at. *)
(***************************************************************************)
EXTENDS Naturals, Sequences, FiniteSetsExt

CONSTANTS
  Bits,           \* the bits of a cell
  Ranges,         \* H1-H4: the tags of each kind, disjoint
  Base,           \* the length of each kind's bare message; Data: of an empty one
  Header,         \* DATA_OFFSET_SZ
  Nonce,          \* NONCE_SIZE
  Keystream,      \* the cipher: a nonce to the cells it is XORed with
  Multiple,       \* PADDING_MULTIPLE
  DefaultWindow,  \* DEFAULT_UDP_WINDOW
  MaxSendable,    \* MAX_SENDABLE_DATAGRAM
  MaxFramings,    \* UPSTREAM_COLLISION_CANDIDATES
  Configs         \* [s, key, trailers, redraws, pad, mtu, junk, shaped]; with noise,
                  \* the cells chance may draw, and asks, the calls made under it

VARIABLES
  config,         \* AmneziaConfig
  frame           \* the datagram being made, and the call that makes it

Kinds == {"Init", "Response", "Cookie", "Data"}
Controls == Kinds \ {"Data"}
TrialOrder == <<"Init", "Response", "Cookie", "Data">>
Cell == SUBSET Bits
S(k) == config.s[k]

Less(a, b) == IF a > b THEN a - b ELSE 0        \* saturating_sub
Least(a, b) == IF a < b THEN a ELSE b
Most(a, b) == IF a > b THEN a ELSE b
Inclusive(lo, hi) == IF lo >= hi THEN {lo} ELSE lo..hi
Below(n) == IF n = 0 THEN {0} ELSE 0..(n - 1)

\* The cells a receiver looks at, and what a sender may put in cells lo..hi.
Seen == {1} \cup {S(k) + 1 : k \in Kinds}
Drawn(lo, hi) ==
  {[i \in 1..Less(hi + 1, lo) |->
      IF lo + i - 1 \in Seen THEN c[lo + i - 1] ELSE {}] :
      c \in [Seen \cap (lo..hi) -> config.noise]}
Messages(k, len) ==
  {<<tag>> \o rest : tag \in Ranges[k], rest \in Drawn(S(k) + 2, S(k) + len)}

-----------------------------------------------------------------------------
\* Sizes.

BudgetCeiling(dst, budget) == IF budget = 0 THEN dst ELSE Least(dst, budget)
Exceeds(mandatory, budget) == budget # 0 /\ mandatory > budget
Admits(mandatory, dst, budget) == ~Exceeds(mandatory, budget) /\ mandatory <= dst

\* content_padding: a draw from the range, or rounding up within one MTU unit.
ContentPadding(src, space) ==
  LET mtu == config.mtu
      unit == IF mtu # 0 /\ src > mtu THEN src % mtu ELSE src
      padded == ((unit + Multiple - 1) \div Multiple) * Multiple
      rounded == IF mtu # 0 THEN Least(padded, mtu) ELSE padded
      wants == IF config.pad # <<0, 0>> THEN Inclusive(config.pad[1], config.pad[2])
               ELSE {Less(rounded, unit)}
      capped(want) == IF mtu # 0 THEN Least(want, Less(mtu, unit)) ELSE want
  IN {Least(capped(want), space) : want \in wants}

WindowPadding(base, window) ==
  IF config.pad # <<0, 0>>
  THEN {Least(p, Less(window, base)) : p \in Inclusive(config.pad[1], config.pad[2])}
  ELSE Below(Less(window, base))

\* A mistake: the frame is sized without its prefix.
TransportFrameBare(src) == src + Base["Data"]

TransportFrame(src) == src + Base["Data"] + S("Data")

PaddingForFrame(src, room, window) ==
  LET committed == src + Base["Data"] + S("Data")
      space == Least(Less(room, committed), Less(MaxSendable, committed))
  IN IF config.trailers
     THEN {Least(p, space) : p \in WindowPadding(committed, window)}
     ELSE ContentPadding(src, space)

TrailerLen(k, base, buffer, window, max_wire) ==
  IF ~config.trailers \/ k = "Data" THEN {0}
  ELSE LET ceiling == Less(Least(Least(buffer, MaxSendable), max_wire), base)
       IN Below(Least(Less(window, base), ceiling + 1))

-----------------------------------------------------------------------------
\* Masking, and the readings of a datagram.

MaskedLen(k, len) == IF k = "Data" THEN Header ELSE len

CanMask(w, off, len) == config.key => off >= Nonce /\ Len(w) >= off + len
Masked(w, off, len) ==
  IF ~config.key THEN w
  ELSE [i \in DOMAIN w |-> IF i \in (off + 1)..(off + len)
                           THEN SymDiff(w[i], Keystream[w[1]][i - off]) ELSE w[i]]

TypeMask(w) == IF config.key THEN Keystream[w[1]][1] ELSE {}
TagMatches(k, w, mask) == SymDiff(w[S(k) + 1], mask) \in Ranges[k]
LengthFits(k, len) ==
  IF k = "Data" \/ config.trailers THEN len >= S(k) + Base[k] ELSE len = S(k) + Base[k]

InboundCandidates(w) ==
  {k \in Kinds : /\ config.key => Len(w) >= Nonce /\ S(k) >= Nonce
                 /\ LengthFits(k, Len(w))
                 /\ TagMatches(k, w, TypeMask(w))}

CandidateMessage(k, w) ==
  LET len == IF k = "Data" THEN Len(w) - S(k) ELSE Base[k]
  IN [i \in 1..len |-> IF config.key /\ i <= MaskedLen(k, len)
                       THEN SymDiff(w[S(k) + i], Keystream[w[1]][i]) ELSE w[S(k) + i]]

ClassifyOutbound(m) ==
  CHOOSE k \in Kinds : /\ m[1] \in Ranges[k]
                       /\ IF k = "Data" THEN Len(m) >= Base[k] ELSE Len(m) = Base[k]

UpstreamCollision(w, mask) ==
  \E k \in Controls : LengthFits(k, Len(w)) /\ TagMatches(k, w, mask)
CollisionApplies(k, len) ==
  /\ k = "Data" /\ config.key /\ config.redraws
  /\ \E c \in Controls : LengthFits(c, len)

\* What an upstream receiver takes a datagram for: the first kind that fits.
UpstreamReads(w) ==
  LET fits(i) == TrialOrder[i] \in InboundCandidates(w)
  IN TrialOrder[CHOOSE i \in 1..4 : fits(i) /\ \A j \in 1..(i - 1) : ~fits(j)]

-----------------------------------------------------------------------------
\* The calls.

Idle == [at |-> "idle", kind |-> "none", ask |-> <<>>,
         msg |-> <<>>, wire |-> <<>>, trailer |-> 0, tried |-> 0]

Init == config \in Configs /\ frame = Idle

Ended(r, k, how) == frame' = [Idle EXCEPT !.at = how, !.kind = k, !.ask = r]

\* prepend_outbound_with_trailer up to its collision check: the prefix, and the
\* message masked behind it.  A refusal here loses what was already admitted.
Prepend(r, m, window, max_wire) ==
  LET k == ClassifyOutbound(m)
      size == Len(m) + S(k)
  IN \E t \in TrailerLen(k, size, r.dst, window, max_wire) :
       \E prefix \in Drawn(1, S(k)) :
         IF \/ S(k) = 0 /\ ~config.key /\ t = 0
            \/ r.dst >= size /\ CanMask(prefix \o m, S(k), MaskedLen(k, Len(m)))
         THEN frame' = [at |-> "framed", kind |-> k, ask |-> r, msg |-> m,
                        wire |-> Masked(prefix \o m, S(k), MaskedLen(k, Len(m))),
                        trailer |-> t, tried |-> 1]
         ELSE Ended(r, k, "lost")

\* encapsulate_on_session, and the keepalive of commit_handshake_response: the
\* window first grows to the bare frame.  format_packet_data checks only the
\* message, and spends a nonce.
Encapsulate(r) ==
  /\ frame.at = "idle" /\ r.kind = "Data"
  /\ LET window == Most(r.window, r.src + Base["Data"] + S("Data"))
     IN IF ~Admits(TransportFrame(r.src), r.dst, r.budget) THEN Ended(r, "Data", "refused")
        ELSE \E pad \in PaddingForFrame(r.src, BudgetCeiling(r.dst, r.budget), window) :
               LET len == r.src + pad + Base["Data"]
               IN IF len > r.dst THEN Ended(r, "Data", "lost")
                  ELSE \E m \in Messages("Data", len) : Prepend(r, m, window, r.dst)
  /\ UNCHANGED config

\* An initiation or a response, once admitted.
FormatHandshake(r) ==
  /\ frame.at = "idle" /\ r.kind \in {"Init", "Response"}
  /\ IF ~Admits(Base[r.kind] + S(r.kind), r.dst, r.budget)
     THEN Ended(r, r.kind, "refused")
     ELSE \E m \in Messages(r.kind, Base[r.kind]) :
            Prepend(r, m, r.window, BudgetCeiling(r.dst, r.budget))
  /\ UNCHANGED config

\* A cookie reply to a datagram of r.src cells: suppressed when it would be the
\* longer of the two.
CookieReply(r) ==
  /\ frame.at = "idle" /\ r.kind = "Cookie"
  /\ IF Base["Cookie"] + S("Cookie") > r.src THEN Ended(r, "Cookie", "suppressed")
     ELSE IF r.dst < Base["Cookie"] THEN Ended(r, "Cookie", "refused")
     ELSE \E m \in Messages("Cookie", Base["Cookie"]) :
            Prepend(r, m, DefaultWindow, r.src)
  /\ UNCHANGED config

\* The range of a junk datagram's length: lowered to the budget at both ends, at
\* the upper one alone when a protocol shapes it.
JunkRange(budget) ==
  LET lowered(n) == IF budget = 0 THEN n ELSE Least(n, budget)
  IN <<IF config.shaped THEN config.junk[1] ELSE lowered(config.junk[1]),
       lowered(config.junk[2])>>

\* A junk datagram ahead of the handshake: the whole range must fit the buffer.
Junk(r) ==
  /\ frame.at = "idle" /\ r.kind = "Junk"
  /\ LET lo == JunkRange(r.budget)[1]
         hi == JunkRange(r.budget)[2]
     IN IF (r.budget # 0 /\ config.shaped /\ lo > hi) \/ r.dst < Most(lo, hi)
        THEN Ended(r, "Junk", "refused")
        ELSE \E n \in Inclusive(lo, hi) :
               frame' = [Idle EXCEPT !.at = "sent", !.kind = "Junk", !.ask = r,
                                     !.wire = [i \in 1..n |-> {}]]
  /\ UNCHANGED config

\* Whether avoid_upstream_control_collision goes round again.  The mask is
\* recovered from the canonical tag and the one on the wire.
Collides ==
  /\ CollisionApplies(frame.kind, Len(frame.wire) + frame.trailer)
  /\ frame.tried < MaxFramings
  /\ UpstreamCollision(frame.wire, SymDiff(frame.msg[1], frame.wire[S("Data") + 1]))

\* A mistake: the header is masked again over its last mask.
ReframedOver(prefix) ==
  Masked(prefix \o SubSeq(frame.wire, S("Data") + 1, Len(frame.wire)), S("Data"), Header)

\* Another prefix, and the canonical header masked afresh behind it.
Reframed(prefix) == Masked(prefix \o frame.msg, S("Data"), Header)

Redraw ==
  /\ frame.at = "framed" /\ Collides
  /\ \E prefix \in Drawn(1, S("Data")) :
       frame' = [frame EXCEPT !.wire = Reframed(prefix), !.tried = @ + 1]
  /\ UNCHANGED config

\* The suffix, and the last look at a cookie reply's length.
Emit ==
  /\ frame.at = "framed" /\ ~Collides
  /\ \E suffix \in Drawn(Len(frame.wire) + 1, Len(frame.wire) + frame.trailer) :
       LET w == frame.wire \o suffix
           longer == frame.kind = "Cookie" /\ Len(w) > frame.ask.src
       IN frame' = [frame EXCEPT !.wire = w, !.at = IF longer THEN "lost" ELSE "sent"]
  /\ UNCHANGED config

Next ==
  \/ \E r \in config.asks : Encapsulate(r) \/ FormatHandshake(r) \/ CookieReply(r) \/ Junk(r)
  \/ Redraw
  \/ Emit

-----------------------------------------------------------------------------
\* A datagram that leaves is read back: among the receiver's readings is the
\* message itself, whatever the other readings are, and an upstream receiver,
\* which commits to the first, takes a protected transport frame for transport
\* unless every framing was spent on it.  A redraw that masked a masked header
\* or a reading that ran into the trailer would lose the message.
FramesReadBack ==
  frame.at = "sent" /\ frame.kind # "Junk" =>
    /\ frame.kind \in InboundCandidates(frame.wire)
    /\ CandidateMessage(frame.kind, frame.wire) = frame.msg
    /\ frame.kind = "Data" /\ config.key /\ config.redraws /\ frame.tried < MaxFramings
         => UpstreamReads(frame.wire) = "Data"

\* What was admitted is sent, so no nonce, index or timestamp is spent on a
\* frame that cannot leave, and it fits: the caller's buffer and budget, the
\* largest datagram unless the bare frame is larger, the window when sizes are
\* drawn against one, one MTU unit when they are not, and for a cookie reply the
\* datagram it answers.
AdmittedFits ==
  LET r == frame.ask
      n == Len(frame.wire)
      bare == Base[frame.kind] + S(frame.kind) + (IF frame.kind = "Data" THEN r.src ELSE 0)
  IN /\ frame.at = "lost" => frame.kind = "Cookie" /\ r.dst < bare
     /\ frame.at = "sent" =>
          /\ n <= r.dst
          /\ frame.kind # "Cookie" /\ r.budget # 0 => n <= r.budget
          /\ frame.kind = "Cookie" => n <= r.src
          /\ frame.kind # "Junk" =>
               /\ n <= Most(MaxSendable, bare)
               /\ config.trailers => n <= Most(Most(r.window, DefaultWindow), bare)
               /\ frame.kind = "Data" /\ ~config.trailers /\ config.mtu # 0 /\ r.src <= config.mtu
                    => n - S("Data") - Base["Data"] <= config.mtu

\* What is admitted leaves within its bounds, and what leaves is read back.
DatagramsArrive == FramesReadBack /\ AdmittedFits
==============================================================================
