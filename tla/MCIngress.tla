------------------------------ MODULE MCIngress ------------------------------
(***************************************************************************)
(* Two workers whose sources share a slot of one row; or one worker that   *)
(* reads ambiguous datagrams.  Two workers on the budget and the hints.    *)
(* Framings with every content and ample room, or with every room and one  *)
(* content.  A tunnel on two ports of one host that is asked for cookies,  *)
(* with a change of the secret, a restart and an index used again.         *)
(***************************************************************************)
EXTENDS Ingress, TLC

CONSTANTS w1, w2, sA, sB

WorkerSymmetry == Permutations(Workers)
OneSlotShared == << (sA :> 1) @@ (sB :> 1), (sA :> 1) @@ (sB :> 2) >>
Reading(kind, mac2, ok) == [kind |-> kind, mac2 |-> mac2, ok |-> ok]
Handshake(mac2, noise) == Reading("handshake", mac2, noise)
Other(ok) == Reading("other", FALSE, ok)
Bad == Reading("bad", FALSE, FALSE)
Plain == { <<Handshake(FALSE, TRUE)>>, <<Handshake(TRUE, TRUE)>> }
Ambiguous ==
  { <<Handshake(FALSE, FALSE), Other(TRUE)>>,
    <<Handshake(TRUE, FALSE), Handshake(TRUE, TRUE)>>,
    <<Handshake(FALSE, TRUE), Handshake(TRUE, TRUE), Other(FALSE)>>,
    <<Bad, Handshake(FALSE, TRUE)>>, <<Bad>>, <<>> }
AllTraffic ==
  {Quiet, [workers |-> Callers, datagrams |-> Plain]}
  \cup {[workers |-> {w}, datagrams |-> Ambiguous] : w \in Callers}

-----------------------------------------------------------------------------
TwoBits == {0, 1}
OneTagEach ==
  [Init |-> {{}}, Response |-> {{0}}, Cookie |-> {{1}}, Data |-> {{0, 1}}]
Lengths == [Init |-> 7, Response |-> 5, Cookie |-> 4, Data |-> 3]
Stream == [n \in SUBSET TwoBits |->
             [i \in 1..16 |-> IF i = 1 THEN n ELSE IF i % 2 = 0 THEN TwoBits \ n ELSE {0}]]

Prefixes(a, b, c, d) == [Init |-> a, Response |-> b, Cookie |-> c, Data |-> d]
Plainly == [key |-> FALSE, trailers |-> FALSE, redraws |-> TRUE, pad |-> <<0, 0>>,
            mtu |-> 4, junk |-> <<2, 5>>, shaped |-> FALSE, s |-> Prefixes(0, 0, 0, 0),
            noise |-> {{}}, asks |-> {}]
Ask(k, src, dst, budget, window) ==
  [kind |-> k, src |-> src, dst |-> dst, budget |-> budget, window |-> window]

Roomy == {Ask("Data", n, 14, 0, 9) : n \in {1, 3, 4}}
         \cup {Ask(k, 12, 14, 0, 9) : k \in {"Init", "Response", "Cookie"}}
Contents ==
  {[Plainly EXCEPT !.noise = SUBSET TwoBits, !.asks = Roomy, !.s = s, !.key = key,
                   !.trailers = trailers, !.redraws = redraws] :
      s \in {Prefixes(1, 2, 3, 1), Prefixes(2, 1, 1, 3)},
      key \in BOOLEAN, trailers \in BOOLEAN, redraws \in BOOLEAN}
  \cup {[Plainly EXCEPT !.noise = SUBSET TwoBits, !.asks = Roomy]}

Tight ==
  {Ask("Data", src, dst, budget, window) :
      src \in {0, 1, 3, 5, 9}, dst \in 3..12, budget \in {0, 4, 7, 9}, window \in {8, 11}}
  \cup {Ask(k, 0, dst, budget, window) :
      k \in {"Init", "Response"}, dst \in 4..12, budget \in {0, 5, 9}, window \in {8, 11}}
  \cup {Ask("Cookie", request, dst, 0, 8) : request \in 3..12, dst \in 3..12}
  \cup {Ask("Junk", 0, dst, budget, 8) : dst \in 1..6, budget \in {0, 1, 3, 6}}
Rooms ==
  {[Plainly EXCEPT !.asks = Tight, !.s = s, !.key = s["Data"] > 0, !.trailers = trailers,
                   !.pad = pad, !.mtu = mtu, !.shaped = mtu = 0] :
      s \in {Prefixes(0, 0, 0, 0), Prefixes(1, 2, 1, 2)}, trailers \in BOOLEAN,
      pad \in {<<0, 0>>, <<1, 3>>}, mtu \in {0, 4}}
Framings == Contents \cup Rooms

TwoPorts == {<<"host", 1>>, <<"host", 2>>}
==============================================================================
