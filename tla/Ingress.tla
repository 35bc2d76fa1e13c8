------------------------------- MODULE Ingress -------------------------------
(***************************************************************************)
(* What datagrams from strangers meet: the tables all workers share        *)
(* (IngressTables), and how the datagrams themselves are made and read     *)
(* (Framing).  None of the structures reads another's state, so a          *)
(* behaviour takes the steps of one and leaves the others where they       *)
(* began.                                                                  *)
(***************************************************************************)
EXTENDS IngressTables

CONSTANTS
  Bits, Ranges, Base, Header, Nonce, Keystream, Multiple, DefaultWindow,
  MaxSendable, MaxFramings, Configs

VARIABLES
  config, frame,
  part            \* the structure whose calls this behaviour makes

Frames == INSTANCE Framing

ASSUME IngressAssumption ==
  /\ \A j, k \in DOMAIN Ranges : j # k => Ranges[j] \cap Ranges[k] = {}
  /\ \A c \in Configs : c.key => \A k \in DOMAIN c.s : c.s[k] >= Nonce

limiterVars ==
  <<table, count, last_reset, clock, disabled, call, arrived, traffic, asked, granted>>
hintVars == <<by_source, order, now, job>>
frameVars == <<config, frame>>
cookieVars == <<seconds, limiter, endpoint, sent, replies, cookies>>

\* The traffic in which nothing reaches the limiter.
Quiet == [workers |-> {}, datagrams |-> {}]

Still == traffic = Quiet /\ ~disabled

IngressInit ==
  /\ Init /\ Limiter!Init /\ Hints!Init
  /\ \/ part = "limiter" /\ traffic # Quiet /\ time = 0
     \/ part = "budget" /\ Still
     \/ part \in {"hints", "framing", "cookies"} /\ Still /\ time = 0
  /\ IF part = "framing" THEN Frames!Init
     ELSE config = <<>> /\ frame = Frames!Idle
  /\ IF part = "cookies" THEN Exchange!Init
     ELSE /\ seconds = 0 /\ limiter = <<>> /\ endpoint = <<>>
          /\ sent = <<>> /\ replies = {} /\ cookies = Exchange!Empty

IngressNext ==
  /\ \/ part = "limiter" /\ Limiter!Next /\ UNCHANGED <<vars, hintVars, frameVars, cookieVars>>
     \/ part = "budget" /\ Next /\ UNCHANGED <<limiterVars, hintVars, frameVars, cookieVars>>
     \/ part = "hints" /\ Hints!Next /\ UNCHANGED <<limiterVars, vars, frameVars, cookieVars>>
     \/ part = "framing" /\ Frames!Next /\ UNCHANGED <<limiterVars, vars, hintVars, cookieVars>>
     \/ part = "cookies" /\ Exchange!Next /\ UNCHANGED <<limiterVars, vars, hintVars, frameVars>>
  /\ UNCHANGED part

IngressSpec ==
  IngressInit
  /\ [][IngressNext]_<<limiterVars, vars, hintVars, frameVars, cookieVars, part>>

-----------------------------------------------------------------------------
\* Every datagram sent is read back as the message it carries, and a protected
\* transport frame as transport by an upstream receiver, unless every framing
\* was spent on it; what was admitted is sent, and fits the buffer, the budget,
\* the window and the request that every optional byte was drawn within.
DatagramsArrive == Frames!DatagramsArrive
==============================================================================
