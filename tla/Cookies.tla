------------------------------- MODULE Cookies -------------------------------
(***************************************************************************)
(* How a handshake message finds its way past a responder under load: the  *)
(* cookies its limiter issues (noise/rate_limiter.rs), and what one tunnel *)
(* that sends to it keeps of them (noise/handshake.rs).                    *)
(*                                                                         *)
(* A message's mac1 is its number, since no two are equal.  A cookie is a  *)
(* MAC over the source under a secret that changes with the limiter's age  *)
(* and with the limiter itself; mac2 is known by the cookie it was made    *)
(* with.  The network keeps what it was given and delivers any of it, in   *)
(* any order, any number of times or never.  Whether the limiter is under  *)
(* load is RateLimiter's matter and left open, as is when a timer comes to *)
(* drop an old cookie: a message that passes has no effect here.           *)
(***************************************************************************)
EXTENDS Integers, Sequences, FiniteSets

CONSTANTS
  Endpoints,         \* pairs of a host and a port the tunnel may send from
  IndexSpace,        \* local indices of a tunnel, 256 in the code
  CookieRefresh,     \* COOKIE_REFRESH
  MaxMessages, MaxReplies, MaxSeconds, MaxRestarts   \* bounds

VARIABLES
  seconds,           \* the responder's clock
  limiter,           \* which one it is, when it started, and whether its receiver
                     \* knows ports (decapsulate_from) or addresses alone
  endpoint,          \* where the tunnel's messages come from now
  sent,              \* the tunnel's handshake messages
  replies,           \* the cookie replies on their way to it
  cookies            \* Handshake::cookies

vars == <<seconds, limiter, endpoint, sent, replies, cookies>>

NoCookie == [source |-> <<>>, limiter |-> 0, counter |-> 0]
Empty == [index |-> 0, last_mac1 |-> 0, write_cookie |-> NoCookie]

Init ==
  /\ seconds = 0
  /\ limiter \in [id: {1}, start_time: {0}, ports: BOOLEAN]
  /\ endpoint \in Endpoints
  /\ sent = <<>> /\ replies = {}
  /\ cookies = Empty

-----------------------------------------------------------------------------
\* The tag byte keeps an endpoint from its bare address.
CookieInput(from) == IF limiter.ports THEN from ELSE <<from[1]>>

CurrentCookie(from) ==
  [source |-> CookieInput(from), limiter |-> limiter.id,
   counter |-> (seconds - limiter.start_time) \div CookieRefresh]

CookieReply(n) ==
  [receiver_idx |-> sent[n].index, aad |-> n, cookie |-> CurrentCookie(sent[n].from)]

\* gate_handshake under load: a message whose mac2 does not hold is answered.
Demand(n) ==
  /\ Cardinality(replies) < MaxReplies
  /\ sent[n].mac2 # CurrentCookie(sent[n].from)
  /\ replies' = replies \cup {CookieReply(n)}
  /\ UNCHANGED <<seconds, limiter, endpoint, sent, cookies>>

\* The responder restarts, with another secret.
Restart ==
  /\ limiter.id <= MaxRestarts
  /\ limiter' = [limiter EXCEPT !.id = @ + 1, !.start_time = seconds]
  /\ UNCHANGED <<seconds, endpoint, sent, replies, cookies>>

Tick ==
  /\ seconds < MaxSeconds
  /\ seconds' = seconds + 1
  /\ UNCHANGED <<limiter, endpoint, sent, replies, cookies>>

-----------------------------------------------------------------------------
\* An initiation takes the next index; a response may skip one in use.
IncIndex(index) == {(index + k) % IndexSpace : k \in {1, 2}}

AppendMacs(index) ==
  /\ sent' = Append(sent, [index |-> index, from |-> endpoint, to |-> limiter.id,
                           mac2 |-> cookies.write_cookie])
  /\ cookies' = [cookies EXCEPT !.index = index, !.last_mac1 = Len(sent) + 1]

Send ==
  /\ Len(sent) < MaxMessages
  /\ \E index \in IncIndex(cookies.index) : AppendMacs(index)
  /\ UNCHANGED <<seconds, limiter, endpoint, replies>>

\* The reply names the last message's index and opens under its mac1.
AuthenticateCookieReply(reply) ==
  /\ cookies.last_mac1 # 0
  /\ reply.receiver_idx = cookies.index
  /\ reply.aad = cookies.last_mac1

\* The message stays answerable after a reply to it.
CommitKeepingMac1(reply) == cookies' = [cookies EXCEPT !.write_cookie = reply.cookie]

CommitCookie(reply) ==
  cookies' = [cookies EXCEPT !.write_cookie = reply.cookie, !.last_mac1 = 0]

Receive(reply) ==
  /\ AuthenticateCookieReply(reply)
  /\ CommitCookie(reply)
  /\ UNCHANGED <<seconds, limiter, endpoint, sent, replies>>

ClearCookie ==
  /\ cookies.write_cookie # NoCookie
  /\ cookies' = [cookies EXCEPT !.write_cookie = NoCookie]
  /\ UNCHANGED <<seconds, limiter, endpoint, sent, replies>>

\* The path changes under the tunnel.
Rebind(to) ==
  /\ to # endpoint
  /\ endpoint' = to
  /\ UNCHANGED <<seconds, limiter, sent, replies, cookies>>

Next ==
  \/ Send \/ ClearCookie \/ Restart \/ Tick
  \/ \E n \in DOMAIN sent : Demand(n)
  \/ \E reply \in replies : Receive(reply)
  \/ \E to \in Endpoints : Rebind(to)

Spec == Init /\ [][Next]_vars

-----------------------------------------------------------------------------
\* A cookie taken is one for the tunnel's newest message: made by a limiter
\* that was not gone when that message was sent, for where it was sent from,
\* and under no earlier secret than the cookie it replaces.  So replies that
\* are late, repeated or out of order, and indices used again, never bring an
\* old cookie back.
CookiesMoveForward ==
  [][LET old == cookies.write_cookie
         new == cookies'.write_cookie
         newest == sent[Len(sent)]
     IN  new \notin {old, NoCookie} =>
           /\ new.source = CookieInput(newest.from)
           /\ new.limiter >= newest.to
           /\ \/ new.limiter > old.limiter
              \/ new.limiter = old.limiter /\ new.counter >= old.counter]_vars
==============================================================================
