---------------------------- MODULE ReplayWindow ----------------------------
(***************************************************************************)
(* The receive side of a transport session: noise/session.rs,              *)
(* ReceivingKeyCounterValidator and Session::receive_packet_data.          *)
(*                                                                         *)
(* A receiver checks a packet's counter under the validator's mutex,       *)
(* releases it, opens the AEAD, and takes the mutex again to mark the      *)
(* counter.  Other receivers of the same session may run in between.       *)
(* mark_did_receive clears the skipped part of the bitmap in three loops:  *)
(* bits up to a word boundary, whole words, remaining bits.  Each          *)
(* iteration is a step here, taken with the mutex held.                    *)
(*                                                                         *)
(* The bitmap is kept flat: position p is bit p % WordSize of word         *)
(* p \div WordSize.  Additions wrap at the width of the counter, as the    *)
(* release build's do.                                                     *)
(***************************************************************************)
EXTENDS SessionLimits, FiniteSets

CONSTANTS
  WordSize,             \* WORD_SIZE
  NWords,               \* N_WORDS
  Receivers             \* callers of receive_packet_data on this session

NBits == WordSize * NWords

ASSUME ReplayAssumption ==
  /\ WordSize \in Nat \ {0}
  /\ NWords \in Nat \ {0}
  /\ MaxU64 \in Nat
  /\ RejectAfterMessages \in Nat
  /\ RejectAfterMessages + NBits <= MaxU64

VARIABLES
  next,         \* one above the highest counter marked
  bitmap,       \* which positions of the window are marked
  receive_cnt,  \* packets marked, for the loss estimate
  pc,           \* where each receiver is in receive_packet_data
  counter,      \* the counter each receiver is working on
  i,            \* the clearing loops' index
  delivered     \* history: how often each counter has been let through

vars == <<next, bitmap, receive_cnt, pc, counter, i, delivered>>

Positions == 0..(NBits - 1)
Loops == {"align", "words", "tail"}

Plus(a, b) == (a + b) % (MaxU64 + 1)

BitIdx(idx) == idx % NBits
SetBit(b, idx) == [b EXCEPT ![BitIdx(idx)] = 1]
ClearBit(b, idx) == [b EXCEPT ![BitIdx(idx)] = 0]
ClearWord(b, idx) ==
  [p \in Positions |->
     IF p \div WordSize = BitIdx(idx) \div WordSize THEN 0 ELSE b[p]]
CheckBit(b, idx) == b[BitIdx(idx)] = 1
Empty == [p \in Positions |-> 0]

(***************************************************************************)
(* The early returns of will_accept and of mark_did_receive.               *)
(***************************************************************************)
WillAccept(c) ==
  /\ c < RejectAfterMessages
  /\ \/ c >= next
     \/ /\ Plus(c, NBits) >= next
        /\ ~CheckBit(bitmap, c)

\* The bit is not looked at again once the packet is open.
MarkRefusesNoRecheck(c) == c >= RejectAfterMessages \/ Plus(c, NBits) < next
MarkRefuses(c) ==
  \/ c >= RejectAfterMessages
  \/ Plus(c, NBits) < next
  \/ (c < next /\ CheckBit(bitmap, c))

MutexFree == \A r \in Receivers : pc[r] \notin Loops

Init ==
  /\ next = 0
  /\ bitmap = Empty
  /\ receive_cnt = 0
  /\ pc = [r \in Receivers |-> "idle"]
  /\ counter = [r \in Receivers |-> 0]
  /\ i = 0
  /\ delivered = [c \in U64 |-> 0]

(***************************************************************************)
(* receive_packet_data up to the opened AEAD.  A counter the quick check   *)
(* refuses, or a packet that does not open, changes nothing.               *)
(***************************************************************************)
QuickCheckAndOpen(r, c) ==
  /\ pc[r] = "idle"
  /\ MutexFree
  /\ WillAccept(c)
  /\ pc' = [pc EXCEPT ![r] = "opened"]
  /\ counter' = [counter EXCEPT ![r] = c]
  /\ UNCHANGED <<next, bitmap, receive_cnt, i, delivered>>

\* The common end of every successful mark: the packet is let through and
\* receiving_counter_mark counts it.  A receiver at rest holds no counter.
Deliver(r) ==
  /\ delivered' = [delivered EXCEPT ![counter[r]] = @ + 1]
  /\ receive_cnt' = receive_cnt + 1
  /\ pc' = [pc EXCEPT ![r] = "idle"]
  /\ counter' = [counter EXCEPT ![r] = 0]
  /\ i' = 0

MarkRefused(r) ==
  /\ pc[r] = "opened" /\ MutexFree
  /\ MarkRefuses(counter[r])
  /\ pc' = [pc EXCEPT ![r] = "idle"]
  /\ counter' = [counter EXCEPT ![r] = 0]
  /\ UNCHANGED <<next, bitmap, receive_cnt, i, delivered>>

MarkInOrder(r) ==
  /\ pc[r] = "opened" /\ MutexFree
  /\ ~MarkRefuses(counter[r])
  /\ counter[r] = next
  /\ bitmap' = SetBit(bitmap, counter[r])
  /\ next' = Plus(next, 1)
  /\ Deliver(r)

MarkLate(r) ==
  /\ pc[r] = "opened" /\ MutexFree
  /\ ~MarkRefuses(counter[r])
  /\ counter[r] < next
  /\ bitmap' = SetBit(bitmap, counter[r])
  /\ UNCHANGED next
  /\ Deliver(r)

\* The marks of the window left behind stay.
MarkFarAheadKeeps(r) ==
  /\ pc[r] = "opened" /\ MutexFree
  /\ ~MarkRefuses(counter[r])
  /\ counter[r] > next
  /\ counter[r] - next >= NBits
  /\ bitmap' = SetBit(bitmap, counter[r])
  /\ next' = Plus(counter[r], 1)
  /\ Deliver(r)

\* A counter so far ahead that nothing of the window survives.
MarkFarAhead(r) ==
  /\ pc[r] = "opened" /\ MutexFree
  /\ ~MarkRefuses(counter[r])
  /\ counter[r] > next
  /\ counter[r] - next >= NBits
  /\ bitmap' = SetBit(Empty, counter[r])
  /\ next' = Plus(counter[r], 1)
  /\ Deliver(r)

\* A counter ahead within the window: the skipped positions are cleared.
MarkAhead(r) ==
  /\ pc[r] = "opened" /\ MutexFree
  /\ ~MarkRefuses(counter[r])
  /\ counter[r] > next
  /\ counter[r] - next < NBits
  /\ i' = next
  /\ pc' = [pc EXCEPT ![r] = "align"]
  /\ UNCHANGED <<next, bitmap, receive_cnt, counter, delivered>>

\* No clearing up to the next word.
NoAlignGuard(r) == FALSE
AlignGuard(r) == i % WordSize # 0 /\ i < counter[r]
WordsGuard(r) == Plus(i, WordSize) < counter[r]
NextWord(idx) == (Plus(idx, WordSize) \div WordSize) * WordSize

ClearToBoundary(r) ==
  /\ pc[r] = "align"
  /\ AlignGuard(r)
  /\ bitmap' = ClearBit(bitmap, i)
  /\ i' = i + 1
  /\ UNCHANGED <<next, receive_cnt, pc, counter, delivered>>

ClearWholeWord(r) ==
  /\ \/ pc[r] = "words"
     \/ pc[r] = "align" /\ ~AlignGuard(r)
  /\ WordsGuard(r)
  /\ bitmap' = ClearWord(bitmap, i)
  /\ i' = NextWord(i)
  /\ pc' = [pc EXCEPT ![r] = "words"]
  /\ UNCHANGED <<next, receive_cnt, counter, delivered>>

ClearRemaining(r) ==
  /\ \/ pc[r] = "tail"
     \/ pc[r] = "words" /\ ~WordsGuard(r)
     \/ pc[r] = "align" /\ ~AlignGuard(r) /\ ~WordsGuard(r)
  /\ i < counter[r]
  /\ bitmap' = ClearBit(bitmap, i)
  /\ i' = i + 1
  /\ pc' = [pc EXCEPT ![r] = "tail"]
  /\ UNCHANGED <<next, receive_cnt, counter, delivered>>

FinishMark(r) ==
  /\ pc[r] \in Loops
  /\ i >= counter[r]
  /\ bitmap' = SetBit(bitmap, counter[r])
  /\ next' = Plus(counter[r], 1)
  /\ Deliver(r)

Mark(r) ==
  \/ MarkRefused(r) \/ MarkInOrder(r) \/ MarkLate(r)
  \/ MarkFarAhead(r) \/ MarkAhead(r)
  \/ ClearToBoundary(r) \/ ClearWholeWord(r) \/ ClearRemaining(r)
  \/ FinishMark(r)

Next ==
  \E r \in Receivers :
    \/ \E c \in U64 : QuickCheckAndOpen(r, c)
    \/ Mark(r)

Spec == Init /\ [][Next]_vars

-----------------------------------------------------------------------------
TypeOK ==
  /\ next \in 0..RejectAfterMessages
  /\ bitmap \in [Positions -> {0, 1}]
  /\ receive_cnt \in Nat
  /\ pc \in [Receivers -> {"idle", "opened"} \cup Loops]
  /\ counter \in [Receivers -> 0..RejectAfterMessages]
  /\ i \in 0..RejectAfterMessages
  /\ delivered \in [U64 -> Nat]

\* No counter is let through twice, however the receivers' checks and marks
\* interleave: the recheck in mark_did_receive is what refuses the second of
\* two receivers that both passed the quick check.
DeliveredOnce == \A c \in U64 : delivered[c] <= 1

\* Between marks the quick check says yes to exactly the counters below
\* REJECT_AFTER_MESSAGES that have not been delivered and are at most N_BITS
\* behind `next`: clearing never forgets a delivered counter of the window
\* and never leaves a stale mark that would refuse a fresh one.
WindowExact ==
  MutexFree =>
    \A c \in U64 :
      WillAccept(c) <=> /\ c < RejectAfterMessages
                        /\ delivered[c] = 0
                        /\ c + NBits >= next

\* estimate_loss divides receive_cnt by next: never more received than the
\* highest counter allows.
LossEstimateSane ==
  /\ receive_cnt = Cardinality({c \in U64 : delivered[c] > 0})
  /\ receive_cnt <= next

Abstract == INSTANCE AntiReplay
              WITH Counters <- U64, Limit <- RejectAfterMessages,
                   Width <- NBits, horizon <- next

\* receive_packet_data keeps the promise of AntiReplay: a mark is one
\* abstract step, the quick check and the clearing loops are none.
ImplementsAntiReplay == Abstract!Spec

-----------------------------------------------------------------------------
(***************************************************************************)
(* The inductive invariant.  While a receiver clears the skipped part of   *)
(* the window, the bitmap mirrors the history only above the window that   *)
(* is being opened, and is clear from `next` up to the loops' index.       *)
(***************************************************************************)
Mirrors(c) == CheckBit(bitmap, c) <=> delivered[c] = 1

OneHolder ==
  \A q, r \in Receivers : pc[q] \in Loops /\ pc[r] \in Loops => q = r

PendingBelowLimit ==
  \A r \in Receivers : pc[r] # "idle" => counter[r] < RejectAfterMessages

NothingAhead == \A c \in U64 : c >= next => delivered[c] = 0

MirrorAtRest ==
  MutexFree => \A c \in U64 : c < next /\ c + NBits >= next => Mirrors(c)

Clearing(r) ==
  /\ next < counter[r]
  /\ counter[r] - next < NBits
  /\ next <= i
  /\ i <= counter[r]
  /\ pc[r] = "words" => i % WordSize = 0
  /\ \A c \in U64 : next <= c /\ c < i => ~CheckBit(bitmap, c)
  /\ \A c \in U64 : c < next /\ c + NBits > counter[r] => Mirrors(c)

\* The inductive invariant behind DeliveredOnce, WindowExact and the
\* refinement: what the bitmap of ReceivingKeyCounterValidator says about the
\* counters delivered, at rest and during the clearing loops of
\* mark_did_receive.
ReplayInv ==
  /\ TypeOK
  /\ DeliveredOnce
  /\ OneHolder
  /\ PendingBelowLimit
  /\ NothingAhead
  /\ MirrorAtRest
  /\ \A r \in Receivers : pc[r] \in Loops => Clearing(r)
=============================================================================
