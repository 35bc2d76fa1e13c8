---------------------------- MODULE IngressTables ----------------------------
(***************************************************************************)
(* What all workers share when datagrams come in from strangers: the       *)
(* ceiling on bytes sent in reply to probes (ProbeBudget), the handshake   *)
(* limiter (Admission), the cookies it issues (Cookies) and the            *)
(* camouflage evidence (ImitationHints).                                   *)
(***************************************************************************)
EXTENDS ProbeBudget, Admission

CONSTANTS
  Addresses, Protocols, NoProtocol, MaxHints, Lifetime, MaxNow,
  Endpoints, IndexSpace, CookieRefresh, MaxMessages, MaxReplies, MaxSeconds, MaxRestarts

VARIABLES
  by_source, order, now, job,
  seconds, limiter, endpoint, sent, replies, cookies

Hints == INSTANCE ImitationHints WITH Sources <- Addresses
Exchange == INSTANCE Cookies

ASSUME TablesAssumption ==
  /\ {Rate, Milli, MaxTime} \subseteq Nat /\ Sizes \subseteq Nat
  /\ ClockSize \in Nat /\ ClockSize > MaxTime + 2
  /\ MaxNow \in Nat /\ {MaxHints, Lifetime} \subseteq Nat \ {0} /\ NoProtocol \notin Protocols
  /\ {CookieRefresh, IndexSpace} \subseteq Nat \ {0}

-----------------------------------------------------------------------------
\* The hints' map and their order name the same sources, each once, and never
\* more than MAX_HINTS: expire would panic on a source the map has lost.  And
\* no worker is handed evidence older than the lifetime, however long another
\* was descheduled between detecting a prelude and entering it.
HintsAreLive == Hints!HintsAreLive

\* A cookie taken is one for the tunnel's newest message: made by a limiter
\* that was not gone when that message was sent, for where it was sent from,
\* and under no earlier secret than the cookie it replaces.
CookiesMoveForward == Exchange!CookiesMoveForward
=============================================================================
