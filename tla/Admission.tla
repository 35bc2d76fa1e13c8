------------------------------ MODULE Admission ------------------------------
(***************************************************************************)
(* The handshake limiter (RateLimiter) as the workers of a device share    *)
(* it, and what it owes the sources it admits and the datagrams it reads.  *)
(***************************************************************************)
EXTENDS Integers, Sequences, FiniteSets

CONSTANTS
  Callers,       \* the workers that call receive
  Sources, NoSource, Slots, SlotOf, Limit, SourceShare, SourceFloor,
  Traffics, MaxClock, MaxDatagrams

VARIABLES
  table, count, last_reset, clock, disabled, call, arrived, traffic, asked, granted

Limiter == INSTANCE RateLimiter WITH Workers <- Callers, time <- clock, MaxTime <- MaxClock

Readings == [kind: {"handshake", "other", "bad"}, mac2: BOOLEAN, ok: BOOLEAN]

ASSUME AdmissionAssumption ==
  /\ IsFiniteSet(Callers) /\ NoSource \notin Sources
  /\ \A t \in Traffics : t.workers \subseteq Callers /\ t.datagrams \subseteq Seq(Readings)
  /\ SlotOf \in Seq([Sources -> Slots]) /\ SlotOf # <<>>
  /\ {Limit, SourceFloor, MaxClock, MaxDatagrams} \subseteq Nat /\ SourceShare \in Nat \ {0}

-----------------------------------------------------------------------------
\* However the workers' calls overlap, no window grants a source more than its
\* share once per row of the limiter's table, and for calls that do not overlap
\* the share is exact; and a source with a row to itself is refused its share, or
\* its proven messages are dropped, only when it sent more of them in a window
\* than it may.
SharesAreFair == Limiter!SharesAreFair

\* A datagram with a reading that authenticates is accepted, unless the limiter
\* kept every such reading from its trial.
AuthenticReadingWins == Limiter!AuthenticReadingWins
=============================================================================
