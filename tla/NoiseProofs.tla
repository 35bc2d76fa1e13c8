----------------------------- MODULE NoiseProofs -----------------------------
(***************************************************************************)
(* Proofs about what workers share in noise/: a session, and the limiter   *)
(* of handshakes.                                                          *)
(*                                                                         *)
(* SendingNonce, for any number of senders and any limit: no nonce is      *)
(* sealed under twice.  ReplayWindow, for every word size, number of       *)
(* words, counter width and set of receivers: ReplayInv is inductive, and  *)
(* from it the session delivers every counter at most once, the quick      *)
(* check is exact and the session implements AntiReplay.  Together: what   *)
(* is delivered was sealed.                                                *)
(*                                                                         *)
(* RateLimiter, for any limits and any number of workers, sources, rows    *)
(* and slots: ShareInv is inductive, and from it every source has its      *)
(* share of the handshakes, no more and no less.                           *)
(***************************************************************************)
EXTENDS Session, Admission, TLAPS

-----------------------------------------------------------------------------
(***************************************************************************)
(* The shares of the sources.  A slot hands out the counts of a window one *)
(* after the other.  The ledger of a source and a window holds a row and a *)
(* count for every grant, each handed out there and no two alike, nor like *)
(* those that calls under way still hold: T is the table, P what each      *)
(* worker holds (a source, a window and a count, or nothing), g the number *)
(* of grants.                                                              *)
(***************************************************************************)
CallFields ==
  {"at", "datagram", "k", "source", "load", "proven", "window", "row", "min",
   "cookie", "under_load", "refused", "outcome"}

Rows == DOMAIN SlotOf
Windows == 0..MaxClock
Share == Limiter!SourceLimit

\* A finite set with one element more.
Adding ==
  \A S, x : IsFiniteSet(S) /\ x \notin S =>
    IsFiniteSet(S \cup {x}) /\ Cardinality(S \cup {x}) = Cardinality(S) + 1

ShareConstants ==
  /\ Adding
  /\ SlotOf \in Seq([Sources -> Slots]) /\ SlotOf # <<>> /\ NoSource \notin Sources
  /\ MaxClock \in Nat /\ Share \in Nat /\ Limiter!ProvenLimit \in Nat

Counts == [Rows -> [Slots -> Windows \X Nat]]

\* A slot x has come to the count n of the window v, or past it.
Past(x, v, n) == x[1] > v \/ (x[1] = v /\ x[2] >= n)

Handed(T, r, s, v, n) == Past(T[r][SlotOf[r][s]], v, n)

\* The worker w holds a count of the source s in the window v.
Holds(P, w, s, v) == P[w] # <<>> /\ P[w][1] = s /\ P[w][2] = v

\* G is what was granted, R[w] the row in which w took the count it holds.
Books(G, R, T, P, g, s, v) ==
  /\ G \subseteq Rows \X (1..Share) /\ R \in [Callers -> Rows]
  /\ IsFiniteSet(G) /\ Cardinality(G) = g
  /\ \A p \in G : Handed(T, p[1], s, v, p[2])
  /\ \A w \in Callers : Holds(P, w, s, v) =>
       Handed(T, R[w], s, v, P[w][3]) /\ <<R[w], P[w][3]>> \notin G
  /\ \A w, u \in Callers : w # u /\ Holds(P, w, s, v) /\ Holds(P, u, s, v) =>
       <<R[w], P[w][3]>> # <<R[u], P[u][3]>>

Ledger(T, P, g, s, v) == \E G, R : Books(G, R, T, P, g, s, v)

Holdings(P) ==
  DOMAIN P = Callers /\ \A w \in Callers : P[w] # <<>> => P[w][2] \in Windows /\ P[w][3] \in Nat

\* The table U after the message of the source t is counted in the row r.
Moved(T, U, r, t, window) ==
  /\ T \in Counts /\ r \in Rows /\ t \in Sources /\ window \in Windows
  /\ SlotOf[r][t] \in Slots
  /\ U = [T EXCEPT ![r] = [T[r] EXCEPT
           ![SlotOf[r][t]] = Limiter!Bumped(T[r][SlotOf[r][t]], window)]]

\* A slot only moves forward, and its next count was not handed out before.
LEMMA BumpedNext ==
  ASSUME NEW x \in Windows \X Nat, NEW window \in Windows, NEW b,
         b = Limiter!Bumped(x, window)
  PROVE  /\ b \in Windows \X Nat /\ b[2] # 0
         /\ b[1] >= window /\ b[1] >= x[1] /\ b[1] \in {x[1], window}
         /\ ~Past(x, b[1], b[2]) /\ Past(b, b[1], b[2])
<1>2. b = IF x[1] >= window THEN <<x[1], x[2] + 1>> ELSE <<window, 1>>
  BY Zenon DEF Limiter!Bumped
<1>3. /\ b \in Windows \X Nat /\ b[2] # 0
      /\ b[1] >= window /\ b[1] >= x[1] /\ b[1] \in {x[1], window}
  BY <1>2 DEF Windows
<1>4. ~Past(x, b[1], b[2]) /\ Past(b, b[1], b[2])
  BY <1>2 DEF Windows, Past
<1> QED BY <1>3, <1>4, Zenon

\* A slot never falls back behind a count it has passed.
LEMMA PastStays ==
  ASSUME NEW x \in Windows \X Nat, NEW window \in Windows,
         NEW v \in Windows, NEW n, Past(x, v, n), NEW b, b = Limiter!Bumped(x, window), n \in Nat
  PROVE  Past(b, v, n)
<1>1. b = IF x[1] >= window THEN <<x[1], x[2] + 1>> ELSE <<window, 1>>
  BY Zenon DEF Limiter!Bumped
<1> QED BY <1>1 DEF Windows, Past

OneSlot(T, U, r, t, window) ==
  /\ U \in Counts
  /\ \A q \in Rows : \A x \in Slots : T[q][x] \in Windows \X Nat
  /\ U[r][SlotOf[r][t]] = Limiter!Bumped(T[r][SlotOf[r][t]], window)
  /\ \A q \in Rows : \A x \in Slots :
       q # r \/ x # SlotOf[r][t] => U[q][x] = T[q][x]

\* Counting a message moves one slot of one row.
LEMMA MovedSlots ==
  ASSUME NEW T, NEW U, NEW r, NEW t, NEW window, Moved(T, U, r, t, window)
  PROVE  OneSlot(T, U, r, t, window)
<1>1. PICK x0 \in Slots : x0 = SlotOf[r][t]
  BY Zenon DEF Moved
<1>2. PICK b : b = Limiter!Bumped(T[r][x0], window)
  BY Zenon
<1>3. /\ T \in [Rows -> [Slots -> Windows \X Nat]] /\ r \in Rows /\ window \in Windows
      /\ U = [T EXCEPT ![r] = [T[r] EXCEPT ![x0] = b]]
  BY <1>1, <1>2, Zenon DEF Moved, Counts
<1>4. \A q \in Rows : \A x \in Slots : T[q][x] \in Windows \X Nat
  BY <1>3, Zenon
<1>5. b \in Windows \X Nat
  <2>1. PICK y \in Windows \X Nat : y = T[r][x0]
    BY <1>3, <1>4, Zenon
  <2>2. b = Limiter!Bumped(y, window)
    BY <1>2, <2>1, Zenon
  <2> QED BY <1>3, <2>2, BumpedNext, Zenon
<1>6. U \in [Rows -> [Slots -> Windows \X Nat]]
  BY <1>3, <1>5, Zenon
<1>7. U[r][x0] = b /\ \A q \in Rows : \A x \in Slots : q # r \/ x # x0 => U[q][x] = T[q][x]
  BY <1>3, Zenon
<1> QED BY <1>1, <1>2, <1>4, <1>6, <1>7, Zenon DEF Counts, OneSlot

\* A count that was handed out stays handed out.
LEMMA HandedStays ==
  ASSUME ShareConstants, NEW T, NEW U, NEW r, NEW t, NEW window, Moved(T, U, r, t, window),
         NEW q \in Rows, NEW s \in Sources, NEW v \in Windows, NEW n \in Nat,
         Handed(T, q, s, v, n)
  PROVE  Handed(U, q, s, v, n)
<1>1. SlotOf[q][s] \in Slots
  BY DEF ShareConstants, Rows
<1>2. PICK x \in Slots : x = SlotOf[q][s]
  BY <1>1, Zenon
<1>3. /\ T[q][x] \in Windows \X Nat
      /\ q = r /\ x = SlotOf[r][t] => U[q][x] = Limiter!Bumped(T[q][x], window)
      /\ q # r \/ x # SlotOf[r][t] => U[q][x] = T[q][x]
  <2>1. /\ \A p \in Rows : \A y \in Slots : T[p][y] \in Windows \X Nat
        /\ U[r][SlotOf[r][t]] = Limiter!Bumped(T[r][SlotOf[r][t]], window)
        /\ \A p \in Rows : \A y \in Slots :
             p # r \/ y # SlotOf[r][t] => U[p][y] = T[p][y]
    <3>1. OneSlot(T, U, r, t, window)
      BY MovedSlots, Zenon
    <3> QED BY <3>1, Zenon DEF OneSlot
  <2>2. ASSUME q = r, x = SlotOf[r][t] PROVE U[q][x] = Limiter!Bumped(T[q][x], window)
    BY <2>1, <2>2, Zenon
  <2> QED BY <2>1, <2>2, Zenon
<1>4. Past(T[q][x], v, n) /\ window \in Windows
  BY <1>2, Zenon DEF Handed, Moved
<1>5. Past(U[q][x], v, n)
  BY <1>3, <1>4, PastStays, Zenon
<1> QED BY <1>2, <1>5, Zenon DEF Handed

\* The worker w takes the count m: a new one of the row r, or the one it held.
Taken(T, U, r, t, window, P, Q, w, b, m) ==
  /\ Moved(T, U, r, t, window) /\ Holdings(P)
  /\ b = Limiter!Bumped(T[r][SlotOf[r][t]], window)
  /\ m = b \/ P[w] = <<t, m[1], m[2]>>
  /\ m \in Windows \X Nat
  /\ Q = [P EXCEPT ![w] = <<t, m[1], m[2]>>]

\* The count a message takes is new, and stays its own.
LEMMA LedgerMoves ==
  ASSUME ShareConstants, NEW T, NEW U, NEW r, NEW t, NEW window, NEW P, NEW Q,
         NEW w \in Callers, NEW b, NEW m, Taken(T, U, r, t, window, P, Q, w, b, m),
         NEW g, NEW s \in Sources, NEW v \in Windows, Ledger(T, P, g, s, v)
  PROVE  Ledger(U, Q, g, s, v)
<1>0. /\ Moved(T, U, r, t, window) /\ Holdings(P)
      /\ b = Limiter!Bumped(T[r][SlotOf[r][t]], window)
      /\ m = b \/ P[w] = <<t, m[1], m[2]>>
      /\ m \in Windows \X Nat
      /\ Q = [P EXCEPT ![w] = <<t, m[1], m[2]>>]
  BY Zenon DEF Taken
<1> USE <1>0
<1>1. PICK G, R : Books(G, R, T, P, g, s, v)
  BY Zenon DEF Ledger
<1>2. /\ Q[w] = <<t, m[1], m[2]>> /\ \A u \in Callers : u # w => Q[u] = P[u]
      /\ \A u \in Callers : P[u] # <<>> => P[u][2] \in Windows /\ P[u][3] \in Nat
  BY Zenon DEF Holdings
<1>3. /\ G \subseteq Rows \X (1..Share) /\ R \in [Callers -> Rows]
      /\ \A p \in G : Handed(T, p[1], s, v, p[2])
      /\ IsFiniteSet(G) /\ Cardinality(G) = g
  BY <1>1, Zenon DEF Books
<1>4. \A p \in G : p[1] \in Rows /\ p[2] \in Nat
  <2>1. Share \in Nat
    BY Zenon DEF ShareConstants
  <2> QED BY <1>3, <2>1
<1>5. \A p \in G : Handed(U, p[1], s, v, p[2])
  BY <1>3, <1>4, HandedStays, Zenon
<1>6. ASSUME NEW u \in Callers, u # w, Holds(Q, u, s, v)
      PROVE  /\ Holds(P, u, s, v) /\ Q[u][3] = P[u][3] /\ Handed(T, R[u], s, v, Q[u][3])
             /\ Handed(U, R[u], s, v, Q[u][3]) /\ <<R[u], Q[u][3]>> \notin G
  <2>1. Holds(P, u, s, v) /\ Q[u] = P[u] /\ P[u][3] \in Nat
    BY <1>2, <1>6, Zenon DEF Holds
  <2>2. Handed(T, R[u], s, v, P[u][3]) /\ <<R[u], P[u][3]>> \notin G /\ R[u] \in Rows
    BY <1>1, <1>3, <2>1, Zenon DEF Books
  <2> QED BY <2>1, <2>2, HandedStays, Zenon
<1>7. \A x, y \in Callers : x # y /\ x # w /\ y # w /\ Holds(Q, x, s, v) /\ Holds(Q, y, s, v) =>
        <<R[x], Q[x][3]>> # <<R[y], Q[y][3]>>
  BY <1>1, <1>6, ZenonT(30) DEF Books
<1>8. CASE ~Holds(Q, w, s, v)
  <2>1. Books(G, R, U, Q, g, s, v)
    BY <1>3, <1>5, <1>6, <1>7, <1>8, Zenon DEF Books
  <2> QED BY <2>1, Zenon DEF Ledger
<1>9. CASE Holds(Q, w, s, v) /\ P[w] = <<t, m[1], m[2]>>
  <2>1. Q[w] = P[w] /\ Holds(P, w, s, v) /\ P[w][3] \in Nat
    BY <1>2, <1>9, Zenon DEF Holds
  <2>2. Handed(T, R[w], s, v, P[w][3]) /\ <<R[w], P[w][3]>> \notin G /\ R[w] \in Rows
    BY <1>1, <1>3, <2>1, Zenon DEF Books
  <2>3. Handed(U, R[w], s, v, Q[w][3])
    BY <2>1, <2>2, HandedStays, Zenon
  <2>4. \A x, y \in Callers : x # y /\ Holds(Q, x, s, v) /\ Holds(Q, y, s, v) =>
          <<R[x], Q[x][3]>> # <<R[y], Q[y][3]>>
    <3>1. \A x \in Callers : Holds(Q, x, s, v) => Holds(P, x, s, v) /\ Q[x][3] = P[x][3]
      BY <1>6, <2>1, Zenon
    <3> QED BY <1>1, <3>1, ZenonT(30) DEF Books
  <2>5. Books(G, R, U, Q, g, s, v)
    BY <1>3, <1>5, <1>6, <2>1, <2>2, <2>3, <2>4, Zenon DEF Books
  <2> QED BY <2>5, Zenon DEF Ledger
<1>10. CASE Holds(Q, w, s, v) /\ m = b
  <2>1. t = s /\ m[1] = v /\ Q[w][3] = m[2]
    <3> HIDE <1>0
    <3> QED BY <1>2, <1>10 DEF Holds
  <2>2. PICK x \in Slots : x = SlotOf[r][s]
    BY <2>1, Zenon DEF Moved
  <2>3. /\ T[r][x] \in Windows \X Nat /\ U[r][x] = b /\ b = Limiter!Bumped(T[r][x], window)
        /\ r \in Rows /\ window \in Windows
    <3>1. r \in Rows /\ window \in Windows
      BY Zenon DEF Moved
    <3>2. /\ \A q \in Rows : \A y \in Slots : T[q][y] \in Windows \X Nat
          /\ U[r][SlotOf[r][t]] = Limiter!Bumped(T[r][SlotOf[r][t]], window)
      <4>1. OneSlot(T, U, r, t, window)
        BY MovedSlots, Zenon
      <4> QED BY <4>1, Zenon DEF OneSlot
    <3>3. U[r][SlotOf[r][t]] = b /\ SlotOf[r][t] = x
      BY <2>1, <2>2, <3>2, Zenon
    <3> QED BY <3>1, <3>2, <3>3, Zenon
  <2>4. ~Past(T[r][x], b[1], b[2]) /\ Past(b, b[1], b[2])
    <3>1. PICK y \in Windows \X Nat : y = T[r][x]
      BY <2>3, Zenon
    <3>2. b = Limiter!Bumped(y, window) /\ window \in Windows
      BY <2>3, <3>1, Zenon
    <3>3. ~Past(y, b[1], b[2]) /\ Past(b, b[1], b[2])
      BY <3>2, BumpedNext, ZenonT(30)
    <3> QED BY <3>1, <3>3, ZenonT(30)
  <2>5. ~Handed(T, r, s, v, m[2]) /\ Handed(U, r, s, v, m[2])
    BY <1>10, <2>1, <2>2, <2>3, <2>4, ZenonT(30) DEF Handed
  <2>6. PICK S : S = [R EXCEPT ![w] = r]
    BY ZenonT(30)
  <2>7. /\ S \in [Callers -> Rows] /\ S[w] = r /\ \A u \in Callers : u # w => S[u] = R[u]
    BY <1>3, <2>3, <2>6, Zenon
  <2>8. <<r, m[2]>> \notin G
    <3> SUFFICES ASSUME <<r, m[2]>> \in G PROVE FALSE
      BY Zenon
    <3>1. PICK p \in G : p = <<r, m[2]>>
      BY Zenon
    <3>2. p[1] = r /\ p[2] = m[2]
      BY <3>1, Zenon
    <3> QED BY <1>3, <2>5, <3>2, Zenon
  <2>9. \A u \in Callers : u # w /\ Holds(Q, u, s, v) => <<S[u], Q[u][3]>> # <<r, m[2]>>
    <3> SUFFICES ASSUME NEW u \in Callers, u # w, Holds(Q, u, s, v),
                        <<S[u], Q[u][3]>> = <<r, m[2]>>
                 PROVE  FALSE
      BY Zenon
    <3>1. R[u] = r /\ Q[u][3] = m[2]
      BY <2>7, Zenon
    <3> QED BY <1>6, <2>5, <3>1, Zenon
  <2>10. \A y, z \in Callers : y # z /\ Holds(Q, y, s, v) /\ Holds(Q, z, s, v) =>
           <<S[y], Q[y][3]>> # <<S[z], Q[z][3]>>
    <3> SUFFICES ASSUME NEW y \in Callers, NEW z \in Callers, y # z,
                        Holds(Q, y, s, v), Holds(Q, z, s, v)
                 PROVE  <<S[y], Q[y][3]>> # <<S[z], Q[z][3]>>
      BY Zenon
    <3>1. CASE y # w /\ z # w
      BY <1>7, <2>7, <3>1, Zenon
    <3>2. CASE y = w \/ z = w
      BY <2>1, <2>7, <2>9, <3>2, Zenon
    <3> QED BY <3>1, <3>2, Zenon
  <2>11. \A u \in Callers : Holds(Q, u, s, v) =>
           Handed(U, S[u], s, v, Q[u][3]) /\ <<S[u], Q[u][3]>> \notin G
    BY <1>6, <2>1, <2>5, <2>7, <2>8, Zenon
  <2>12. Books(G, S, U, Q, g, s, v)
    BY <1>3, <1>5, <2>7, <2>10, <2>11, Zenon DEF Books
  <2> QED BY <2>12, Zenon DEF Ledger
<1> QED BY <1>8, <1>9, <1>10, Zenon

\* A worker that holds nothing more takes nothing from the ledger.
LEMMA LedgerDrops ==
  ASSUME NEW T, NEW P, Holdings(P), NEW Q, NEW w \in Callers, NEW g, NEW s, NEW v,
         Q = P \/ Q = [P EXCEPT ![w] = <<>>], Ledger(T, P, g, s, v)
  PROVE  Ledger(T, Q, g, s, v)
<1>1. PICK G, R : Books(G, R, T, P, g, s, v)
  BY Zenon DEF Ledger
<1>2. \A u \in Callers : Holds(Q, u, s, v) => Holds(P, u, s, v) /\ Q[u] = P[u]
  BY Zenon DEF Holdings, Holds
<1>3. Books(G, R, T, Q, g, s, v)
  BY <1>1, <1>2, Zenon DEF Books
<1> QED BY <1>3, Zenon DEF Ledger

\* A grant enters what its worker held.
LEMMA LedgerGrants ==
  ASSUME ShareConstants, NEW T, NEW P, Holdings(P), NEW Q, NEW w \in Callers, NEW g \in Nat, NEW s, NEW v,
         NEW n \in 1..Share, P[w] = <<s, v, n>>, Q = [P EXCEPT ![w] = <<>>],
         Ledger(T, P, g, s, v)
  PROVE  Ledger(T, Q, g + 1, s, v)
<1>1. PICK G, R : Books(G, R, T, P, g, s, v)
  BY Zenon DEF Ledger
<1>2. /\ \A u \in Callers : u # w => Q[u] = P[u]
      /\ ~Holds(Q, w, s, v) /\ Holds(P, w, s, v) /\ P[w][3] = n
  BY DEF Holdings, Holds
<1>3. PICK p : p = <<R[w], n>>
  BY Zenon
<1>4. /\ G \subseteq Rows \X (1..Share) /\ R \in [Callers -> Rows]
      /\ IsFiniteSet(G) /\ Cardinality(G) = g
      /\ \A q \in G : Handed(T, q[1], s, v, q[2])
      /\ Handed(T, R[w], s, v, n) /\ p \notin G
  BY <1>1, <1>2, <1>3, Zenon DEF Books
<1>5. p \in Rows \X (1..Share) /\ p[1] = R[w] /\ p[2] = n
  BY <1>3, <1>4
<1>6. IsFiniteSet(G \cup {p}) /\ Cardinality(G \cup {p}) = g + 1
  BY <1>4, Zenon DEF ShareConstants, Adding
<1>7. ASSUME NEW u \in Callers, Holds(Q, u, s, v)
      PROVE  /\ u # w /\ Holds(P, u, s, v) /\ Q[u] = P[u]
             /\ Handed(T, R[u], s, v, Q[u][3]) /\ <<R[u], Q[u][3]>> \notin G \cup {p}
  <2>1. u # w /\ Holds(P, u, s, v) /\ Q[u] = P[u]
    BY <1>2, <1>7, Zenon DEF Holds
  <2>2. Handed(T, R[u], s, v, P[u][3]) /\ <<R[u], P[u][3]>> \notin G
    BY <1>1, <2>1, Zenon DEF Books
  <2>3. <<R[u], P[u][3]>> # <<R[w], P[w][3]>>
    BY <1>1, <1>2, <2>1, Zenon DEF Books
  <2> QED BY <1>2, <1>3, <2>1, <2>2, <2>3, Zenon
<1>8. \A x, y \in Callers : x # y /\ Holds(Q, x, s, v) /\ Holds(Q, y, s, v) =>
        <<R[x], Q[x][3]>> # <<R[y], Q[y][3]>>
  <2> SUFFICES ASSUME NEW x \in Callers, NEW y \in Callers, x # y, Holds(Q, x, s, v), Holds(Q, y, s, v)
               PROVE  <<R[x], Q[x][3]>> # <<R[y], Q[y][3]>>
    BY Zenon
  <2>1. /\ Holds(P, x, s, v) /\ Q[x] = P[x]
        /\ Holds(P, y, s, v) /\ Q[y] = P[y]
    BY <1>7, Zenon
  <2>2. <<R[x], P[x][3]>> # <<R[y], P[y][3]>>
    BY <1>1, <2>1, Zenon DEF Books
  <2> QED BY <2>1, <2>2, Zenon
<1>9. \A q \in G \cup {p} : Handed(T, q[1], s, v, q[2])
  BY <1>4, <1>5, Zenon
<1>10. G \cup {p} \subseteq Rows \X (1..Share)
  BY <1>4, <1>5, Zenon
<1>11. Books(G \cup {p}, R, T, Q, g + 1, s, v)
  BY <1>4, <1>6, <1>7, <1>8, <1>9, <1>10, Zenon DEF Books
<1> QED BY <1>11, Zenon DEF Ledger

-----------------------------------------------------------------------------
(***************************************************************************)
(* What holds of the limiter between any two steps.  OwnCounts: in a row   *)
(* of its own a source meets its own messages alone, so the minimum over   *)
(* the rows a call has passed is no more than those of any such row.       *)
(* Ledgers: above.  Sole: a worker without company finds every slot in its *)
(* own window or an earlier one, and each row counts every grant.          *)
(***************************************************************************)
TableNames == {"sources", "proven"}

CallType(c, t) ==
  /\ DOMAIN c = CallFields
  /\ c.source \in Sources \cup {NoSource}
  /\ c.proven \in {"undecided", "admitted", "refused"}
  /\ c.load = "source_share" => c.source \in Sources
  /\ c.proven = "refused" => c.source \in Sources
  /\ c.at \in {"sources", "proven", "admit"} => c.source \in Sources
  /\ c.at \in TableNames =>
       /\ c.row \in Rows /\ c.window \in Windows /\ c.window <= t
       /\ c.row # 1 => c.min \in Windows \X Nat /\ c.min[2] # 0

ShareType ==
  /\ clock \in Windows /\ table \in [TableNames -> Counts]
  /\ asked \in [TableNames -> [Rows -> [Sources -> [Windows -> Nat]]]]
  /\ granted \in [Sources -> [Windows -> Nat]]
  /\ call = [w \in Callers |-> call[w]] /\ traffic \in Traffics
  /\ \A w \in Callers : CallType(call[w], clock)

Own(r, s) == Limiter!OwnRow(r, s)

Sent(A, tb, r, s, n) == \E v \in Windows : n <= A[tb][r][s][v]

Exceeded(A, tb, s, limit) ==
  \A r \in Rows : Own(r, s) => \E v \in Windows : A[tb][r][s][v] > limit

OwnCall(c, A) ==
  /\ c.at \in TableNames /\ c.row # 1 =>
       \A r \in Rows : r < c.row /\ Own(r, c.source) => Sent(A, c.at, r, c.source, c.min[2])
  /\ c.load = "source_share" => Exceeded(A, "sources", c.source, Share)
  /\ c.proven = "refused" => Exceeded(A, "proven", c.source, Limiter!ProvenLimit)

OwnSlot(T, A, tb, r, s) ==
  T[tb][r][SlotOf[r][s]][2] <= A[tb][r][s][T[tb][r][SlotOf[r][s]][1]]

OwnCounts ==
  /\ \A tb \in TableNames : \A r \in Rows : \A s \in Sources :
       Own(r, s) => OwnSlot(table, asked, tb, r, s)
  /\ \A w \in Callers : OwnCall(call[w], asked)

Held(c) ==
  IF c.at = "sources" /\ c.row # 1 THEN <<c.source, c.min[1], c.min[2]>> ELSE <<>>

Holding(calls) == [w \in Callers |-> Held(calls[w])]

Ledgers ==
  \A s \in Sources : \A v \in Windows :
    Ledger(table["sources"], Holding(call), granted[s][v], s, v)

\* The slot x of a source with g grants per window, up to the window t.
Kept(x, g, t) ==
  /\ x[1] <= t
  /\ \A v \in Windows : /\ g[v] <= Share
                        /\ g[v] > 0 => x[1] >= v
                        /\ x[1] = v => x[2] >= g[v]

SoleCall(c, T, g) ==
  c.at = "sources" /\ c.row # 1 =>
    /\ c.min[1] = c.window /\ c.min[2] > g[c.source][c.window]
    /\ \A r \in Rows : r < c.row =>
         /\ T[r][SlotOf[r][c.source]][1] = c.window
         /\ T[r][SlotOf[r][c.source]][2] > g[c.source][c.window]

Latest(c, t) == IF c.at = "sources" THEN c.window ELSE t

SoleOf(c, T, g, t) ==
  /\ \A s \in Sources : \A r \in Rows : Kept(T[r][SlotOf[r][s]], g[s], Latest(c, t))
  /\ SoleCall(c, T, g)

Sole ==
  \A w \in Callers : traffic.workers = {w} => SoleOf(call[w], table["sources"], granted, clock)

ShareInv == ShareType /\ OwnCounts /\ Ledgers /\ Sole

-----------------------------------------------------------------------------
\* A call that counts nothing: it may begin to, with the clock it has read.
Milder(c, e, t) ==
  /\ c.at \notin TableNames /\ CallType(e, t)
  /\ e.at \in TableNames => e.row = 1 /\ e.window = t
  /\ e.load = "source_share" => c.load = "source_share" /\ e.source = c.source
  /\ e.proven = "refused" => c.proven = "refused" /\ e.source = c.source

\* A step that counts nothing keeps the invariant.
LEMMA MilderKeeps ==
  ASSUME ShareInv, NEW w \in Callers, NEW e, Milder(call[w], e, clock),
         call' = [call EXCEPT ![w] = e], UNCHANGED <<table, asked, granted, clock, traffic>>
  PROVE  ShareInv'
<1>1. DOMAIN call = Callers /\ call'[w] = e /\ \A u \in Callers : u # w => call'[u] = call[u]
  BY Zenon DEF ShareInv, ShareType
<1>2. ShareType'
  <2>1. call' = [u \in Callers |-> call'[u]]
    BY <1>1, Zenon
  <2>2. \A u \in Callers : CallType(call'[u], clock)
    BY <1>1, Zenon DEF ShareInv, ShareType, Milder
  <2> QED BY <2>1, <2>2, Zenon DEF ShareInv, ShareType
<1>3. OwnCounts'
  <2>1. OwnCall(e, asked)
    BY Zenon DEF ShareInv, OwnCounts, OwnCall, Milder
  <2>2. \A u \in Callers : OwnCall(call'[u], asked)
    BY <1>1, <2>1, Zenon DEF ShareInv, OwnCounts
  <2> QED BY <2>2, Zenon DEF ShareInv, OwnCounts
<1>4. Ledgers'
  <2>1. Held(call[w]) = <<>> /\ Held(e) = <<>>
    BY Zenon DEF Held, Milder, TableNames
  <2>2. \A u \in Callers : Held(call'[u]) = Held(call[u])
    BY <1>1, <2>1, Zenon
  <2>3. Holding(call') = Holding(call)
    BY <2>2, Zenon DEF Holding
  <2> QED BY <2>3, Zenon DEF ShareInv, Ledgers
<1>5. Sole'
  <2>1. Latest(call[w], clock) = clock /\ Latest(e, clock) = clock
    BY Zenon DEF Latest, Milder, TableNames
  <2>2. SoleCall(e, table["sources"], granted)
    BY Zenon DEF SoleCall, Milder, TableNames
  <2>3. ASSUME NEW u \in Callers, traffic.workers = {u}
        PROVE  SoleOf(call'[u], table["sources"], granted, clock)
    <3>1. SoleOf(call[u], table["sources"], granted, clock)
      BY <2>3, Zenon DEF ShareInv, Sole
    <3>2. CASE u # w
      BY <1>1, <3>1, <3>2, Zenon
    <3>3. CASE u = w
      BY <1>1, <2>1, <2>2, <3>1, <3>3, Zenon DEF SoleOf
    <3> QED BY <3>2, <3>3, Zenon
  <2> QED BY <2>3, Zenon DEF Sole
<1> QED BY <1>2, <1>3, <1>4, <1>5, Zenon DEF ShareInv

\* A later clock changes nothing.
LEMMA LaterKeeps ==
  ASSUME ShareInv, clock' \in Windows, clock <= clock', ShareConstants,
         UNCHANGED <<table, asked, granted, call, traffic>>
  PROVE  ShareInv'
<1>1. \A w \in Callers : CallType(call[w], clock')
  <2> SUFFICES ASSUME NEW w \in Callers PROVE CallType(call[w], clock')
    BY Zenon
  <2>1. CallType(call[w], clock) /\ clock \in Windows
    BY Zenon DEF ShareInv, ShareType
  <2>2. \A x \in Windows : x <= clock => x <= clock'
    BY <2>1 DEF Windows, ShareConstants
  <2> QED BY <2>1, <2>2, Zenon DEF CallType
<1>2. ShareType'
  BY <1>1, Zenon DEF ShareInv, ShareType
<1>3. OwnCounts' /\ Ledgers'
  BY Zenon DEF ShareInv, OwnCounts, Ledgers
<1>4. Sole'
  <2> SUFFICES ASSUME NEW w \in Callers, traffic.workers = {w}
               PROVE  SoleOf(call[w], table["sources"], granted, clock')
    BY Zenon DEF Sole
  <2>1. SoleOf(call[w], table["sources"], granted, clock)
    BY Zenon DEF ShareInv, Sole
  <2>2. CASE call[w].at = "sources"
    BY <2>1, <2>2, Zenon DEF SoleOf, Latest
  <2>3. CASE call[w].at # "sources"
    <3> SUFFICES ASSUME NEW s \in Sources, NEW r \in Rows
                 PROVE  Kept(table["sources"][r][SlotOf[r][s]], granted[s], clock')
      BY <2>1, <2>3, Zenon DEF SoleOf, Latest
    <3>1. Kept(table["sources"][r][SlotOf[r][s]], granted[s], clock)
      BY <2>1, <2>3, Zenon DEF SoleOf, Latest
    <3>2. table["sources"][r][SlotOf[r][s]] \in Windows \X Nat
      <4>1. SlotOf[r][s] \in Slots
        BY DEF ShareConstants, Rows
      <4>2. table["sources"] \in [Rows -> [Slots -> Windows \X Nat]]
        BY Zenon DEF ShareInv, ShareType, TableNames, Counts
      <4> QED BY <4>1, <4>2, Zenon
    <3>3. PICK x \in Windows \X Nat : x = table["sources"][r][SlotOf[r][s]]
      BY <3>2, Zenon
    <3>4. x[1] <= clock /\ clock \in Windows
      BY <3>1, <3>3, Zenon DEF Kept, ShareInv, ShareType
    <3>5. x[1] <= clock'
      BY <3>4 DEF Windows, ShareConstants
    <3> QED BY <3>1, <3>3, <3>5, Zenon DEF Kept
  <2> QED BY <2>2, <2>3, Zenon
<1> QED BY <1>2, <1>3, <1>4, Zenon DEF ShareInv

-----------------------------------------------------------------------------
\* One row counted in the table tb for the call of w: b is the slot's new value,
\* m the minimum so far, e the call then.
Counting(w, tb, b, m, e) ==
  /\ tb \in TableNames /\ call[w].at = tb /\ clock' = clock /\ traffic' = traffic
  /\ table' = [table EXCEPT ![tb] = table'[tb]]
  /\ Moved(table[tb], table'[tb], call[w].row, call[w].source, call[w].window)
  /\ b = Limiter!Bumped(table[tb][call[w].row][SlotOf[call[w].row][call[w].source]], call[w].window)
  /\ asked' = [asked EXCEPT ![tb][call[w].row][call[w].source][b[1]] = @ + 1]
  /\ m = IF call[w].row = 1 THEN b ELSE Limiter!SmallerOf(call[w].min, b)
  /\ call' = [call EXCEPT ![w] = e]

\* What the new value and the minimum are.
Minimum(c, t, b, m) ==
  /\ c.source \in Sources /\ c.row \in Rows /\ c.window \in Windows /\ c.window <= t
  /\ b \in Windows \X Nat /\ b[2] # 0 /\ m \in Windows \X Nat /\ m[2] # 0
  /\ m = b \/ (c.row # 1 /\ m = c.min)
  /\ m[2] <= b[2]
  /\ c.row # 1 => m[2] <= c.min[2] /\ c.min \in Windows \X Nat

\* The minimum so far is the row's new count or the one the call held.
LEMMA MinimumKnown ==
  ASSUME ShareInv, ShareConstants, NEW w \in Callers, NEW tb, NEW b, NEW m, NEW e,
         Counting(w, tb, b, m, e)
  PROVE  Minimum(call[w], clock, b, m)
<1>1. PICK c : c = call[w]
  BY Zenon
<1>2. /\ c.source \in Sources /\ c.row \in Rows /\ c.window \in Windows /\ c.window <= clock
      /\ c.row # 1 => c.min \in Windows \X Nat /\ c.min[2] # 0
  BY <1>1, Zenon DEF ShareInv, ShareType, CallType, Counting, TableNames
<1>3. PICK x \in Windows \X Nat : x = table[tb][c.row][SlotOf[c.row][c.source]]
  <2>1. OneSlot(table[tb], table'[tb], c.row, c.source, c.window)
    BY <1>1, MovedSlots, Zenon DEF Counting
  <2>2. SlotOf[c.row][c.source] \in Slots
    BY <1>1, Zenon DEF Counting, Moved
  <2> QED BY <1>2, <2>1, <2>2, Zenon DEF OneSlot
<1>4. b = Limiter!Bumped(x, c.window)
  BY <1>1, <1>3, Zenon DEF Counting
<1>5. b \in Windows \X Nat /\ b[2] # 0
  <2>1. PICK window \in Windows : window = c.window
    BY <1>2, Zenon
  <2>2. b = Limiter!Bumped(x, window)
    BY <1>4, <2>1, Zenon
  <2> QED BY <2>2, BumpedNext
<1>6. m = IF c.row = 1 THEN b ELSE Limiter!SmallerOf(c.min, b)
  BY <1>1, Zenon DEF Counting
<1>7. CASE c.row = 1
  <2>1. m = b /\ b[2] <= b[2]
    BY <1>5, <1>6, <1>7
  <2> QED BY <1>1, <1>2, <1>5, <1>7, <2>1, Zenon DEF Minimum
<1>8. CASE c.row # 1
  <2>1. PICK y \in Windows \X Nat : y = c.min
    BY <1>2, <1>8, Zenon
  <2>2. m = IF b[2] < y[2] THEN b ELSE y
    BY <1>6, <1>8, <2>1, Zenon DEF Limiter!SmallerOf
  <2>3. (m = b \/ m = y) /\ m[2] <= b[2] /\ m[2] <= y[2]
    BY <1>5, <2>2
  <2> QED BY <1>1, <1>2, <1>5, <1>8, <2>1, <2>3, Zenon DEF Minimum
<1> QED BY <1>7, <1>8, Zenon

\* The table and the history after: one slot and one count moved.
Grows(tb, r, s, v) ==
  /\ asked' \in [TableNames -> [Rows -> [Sources -> [Windows -> Nat]]]]
  /\ \A o \in TableNames : \A q \in Rows : \A t \in Sources : \A u \in Windows :
       asked[o][q][t][u] <= asked'[o][q][t][u]
  /\ asked'[tb][r][s][v] = asked[tb][r][s][v] + 1

Histories == [TableNames -> [Rows -> [Sources -> [Windows -> Nat]]]]

\* The history of messages, one level at a time.
LEMMA HistoryCounts ==
  ASSUME NEW A \in Histories, NEW o \in TableNames, NEW q \in Rows, NEW t \in Sources
  PROVE  /\ A[o] \in [Rows -> [Sources -> [Windows -> Nat]]]
         /\ A[o][q] \in [Sources -> [Windows -> Nat]]
         /\ A[o][q][t] \in [Windows -> Nat]
         /\ \A u \in Windows : A[o][q][t][u] \in Nat
<1>1. A[o] \in [Rows -> [Sources -> [Windows -> Nat]]]
  BY Zenon DEF Histories
<1>2. A[o][q] \in [Sources -> [Windows -> Nat]]
  BY <1>1, Zenon
<1>3. A[o][q][t] \in [Windows -> Nat]
  BY <1>2, Zenon
<1> QED BY <1>1, <1>2, <1>3, Zenon

\* The history only grows, and here by the message counted.
LEMMA AskedGrows ==
  ASSUME ShareInv, NEW tb \in TableNames, NEW r \in Rows, NEW s \in Sources, NEW v \in Windows,
         asked' = [asked EXCEPT ![tb][r][s][v] = @ + 1]
  PROVE  Grows(tb, r, s, v)
<1>1. PICK A : A = asked /\ A \in Histories /\ asked' = [A EXCEPT ![tb][r][s][v] = @ + 1]
  BY Zenon DEF ShareInv, ShareType, Histories
<1>2. /\ A[tb] \in [Rows -> [Sources -> [Windows -> Nat]]]
      /\ A[tb][r] \in [Sources -> [Windows -> Nat]]
      /\ A[tb][r][s] \in [Windows -> Nat] /\ A[tb][r][s][v] \in Nat
  BY <1>1, HistoryCounts, Zenon
<1>3. PICK m : m = A[tb][r][s][v] + 1
  BY Zenon
<1>4. m \in Nat /\ A[tb][r][s][v] <= m /\ \A x \in Nat : x <= x
  BY <1>2, <1>3
<1>5. PICK F : F = [A[tb][r][s] EXCEPT ![v] = m]
  BY Zenon
<1>6. /\ F \in [Windows -> Nat] /\ F[v] = m
      /\ \A u \in Windows : u # v => F[u] = A[tb][r][s][u]
  BY <1>2, <1>4, <1>5, Zenon
<1>7. PICK H : H = [A[tb][r] EXCEPT ![s] = F]
  BY Zenon
<1>8. /\ H \in [Sources -> [Windows -> Nat]] /\ H[s] = F
      /\ \A t \in Sources : t # s => H[t] = A[tb][r][t]
  BY <1>2, <1>6, <1>7, Zenon
<1>9. PICK J : J = [A[tb] EXCEPT ![r] = H]
  BY Zenon
<1>10. /\ J \in [Rows -> [Sources -> [Windows -> Nat]]] /\ J[r] = H
       /\ \A q \in Rows : q # r => J[q] = A[tb][q]
  BY <1>2, <1>8, <1>9, Zenon
<1>11. asked' = [A EXCEPT ![tb] = J]
  BY <1>1, <1>3, <1>5, <1>7, <1>9, Zenon
<1>12. /\ asked' \in Histories /\ asked'[tb] = J
       /\ \A o \in TableNames : o # tb => asked'[o] = A[o]
  <2>1. A \in [TableNames -> [Rows -> [Sources -> [Windows -> Nat]]]]
    BY <1>1, Zenon DEF Histories
  <2> QED BY <1>10, <1>11, <2>1, Zenon DEF Histories
<1>13. ASSUME NEW o \in TableNames, NEW q \in Rows, NEW t \in Sources, NEW u \in Windows
       PROVE  A[o][q][t][u] <= asked'[o][q][t][u]
  <2>1. A[o][q][t][u] \in Nat
    BY <1>1, HistoryCounts, Zenon
  <2>2. CASE o = tb /\ q = r /\ t = s /\ u = v
    BY <1>4, <1>6, <1>8, <1>10, <1>12, <2>2, Zenon
  <2>3. CASE ~(o = tb /\ q = r /\ t = s /\ u = v)
    <3>1. asked'[o][q][t][u] = A[o][q][t][u]
      BY <1>6, <1>8, <1>10, <1>12, <2>3, ZenonT(30)
    <3> QED BY <1>4, <2>1, <3>1, ZenonT(30)
  <2> QED BY <2>2, <2>3, ZenonT(30)
<1>14. asked'[tb][r][s][v] = A[tb][r][s][v] + 1
  BY <1>3, <1>6, <1>8, <1>10, <1>12, ZenonT(30)
<1> QED BY <1>1, <1>12, <1>13, <1>14, ZenonT(30) DEF Grows, Histories

\* What a source has sent stays sent.
LEMMA SentStays ==
  ASSUME ShareInv, NEW tb, NEW r, NEW s, NEW v, Grows(tb, r, s, v), ShareConstants,
         NEW c, CallType(c, clock), OwnCall(c, asked)
  PROVE  OwnCall(c, asked')
<1>1. /\ \A o \in TableNames : \A q \in Rows : \A t \in Sources : \A u \in Windows :
           /\ asked[o][q][t][u] \in Nat /\ asked'[o][q][t][u] \in Nat
           /\ asked[o][q][t][u] <= asked'[o][q][t][u]
  <2>1. asked \in Histories
    BY Zenon DEF ShareInv, ShareType, Histories
  <2>2. asked' \in Histories
    BY Zenon DEF Grows, Histories
  <2>3. \A o \in TableNames : \A q \in Rows : \A t \in Sources : \A u \in Windows :
          asked[o][q][t][u] \in Nat /\ asked'[o][q][t][u] \in Nat
    BY <2>1, <2>2, HistoryCounts, Zenon
  <2> QED BY <2>3, Zenon DEF Grows
<1>2. /\ \A n, x, y \in Nat : n <= x /\ x <= y => n <= y
      /\ \A n, x, y \in Nat : x > n /\ x <= y => y > n
  OBVIOUS
<1>3. ASSUME NEW o \in TableNames, NEW q \in Rows, NEW t \in Sources, NEW n \in Nat,
             Sent(asked, o, q, t, n)
      PROVE  Sent(asked', o, q, t, n)
  BY <1>1, <1>2, <1>3, Zenon DEF Sent
<1>4. ASSUME NEW o \in TableNames, NEW t \in Sources, NEW n \in Nat, Exceeded(asked, o, t, n)
      PROVE  Exceeded(asked', o, t, n)
  BY <1>1, <1>2, <1>4, Zenon DEF Exceeded
<1>5. Share \in Nat /\ Limiter!ProvenLimit \in Nat
  BY Zenon DEF ShareConstants
<1>6. CASE c.source \in Sources
  <2>1. c.at \in TableNames /\ c.row # 1 => c.min[2] \in Nat
    BY DEF CallType
  <2> QED BY <1>3, <1>4, <1>5, <1>6, <2>1, Zenon DEF OwnCall, CallType, TableNames
<1>7. CASE c.source \notin Sources
  BY <1>7, Zenon DEF OwnCall, CallType, TableNames
<1> QED BY <1>6, <1>7, Zenon

\* How a call stands after a row: in the next one, or with the verdict.
Outcome(c, tb, m, e) ==
  /\ CallType(e, clock) /\ e.source = c.source
  /\ e.at \in TableNames => e.at = tb /\ e.row = c.row + 1 /\ e.min = m /\ e.window = c.window
  /\ e.load = "source_share" =>
       c.load = "source_share" \/ (tb = "sources" /\ c.row = Len(SlotOf) /\ m[2] > Share)
  /\ e.proven = "refused" =>
       c.proven = "refused" \/ (tb = "proven" /\ c.row = Len(SlotOf) /\ m[2] > Limiter!ProvenLimit)

\* A slot in a row of its own moves with its source's messages alone.
LEMMA CountingOwn ==
  ASSUME ShareInv, ShareConstants, NEW w \in Callers, NEW tb, NEW b, NEW m, NEW e,
         Counting(w, tb, b, m, e), Outcome(call[w], tb, m, e)
  PROVE  OwnCounts'
<1>1. PICK c : c = call[w]
  BY Zenon
<1>2. /\ c.source \in Sources /\ c.row \in Rows /\ c.window \in Windows
      /\ b \in Windows \X Nat /\ m \in Windows \X Nat /\ m[2] <= b[2]
      /\ c.row # 1 => m[2] <= c.min[2] /\ c.min \in Windows \X Nat
      /\ tb \in TableNames /\ c.at = tb
  <2>1. Minimum(call[w], clock, b, m)
    BY MinimumKnown, Zenon
  <2> QED BY <1>1, <2>1, Zenon DEF Minimum, Counting
<1>3. b[1] \in Windows /\ b[2] \in Nat /\ m[2] \in Nat
  BY <1>2
<1>4. Grows(tb, c.row, c.source, b[1])
  <2>1. PICK r \in Rows, s \in Sources, v \in Windows : r = c.row /\ s = c.source /\ v = b[1]
    BY <1>2, <1>3, Zenon
  <2>2. asked' = [asked EXCEPT ![tb][r][s][v] = @ + 1]
    BY <1>1, <2>1, Zenon DEF Counting
  <2>3. Grows(tb, r, s, v)
    BY <1>2, <2>2, AskedGrows, Zenon
  <2> QED BY <2>1, <2>3, Zenon
<1>5. \A o \in TableNames : \A q \in Rows : \A t \in Sources : \A u \in Windows :
        /\ asked[o][q][t][u] \in Nat /\ asked'[o][q][t][u] \in Nat
        /\ asked[o][q][t][u] <= asked'[o][q][t][u]
  <2>1. asked \in Histories
    BY Zenon DEF ShareInv, ShareType, Histories
  <2>2. asked' \in Histories
    BY <1>4, Zenon DEF Grows, Histories
  <2>3. \A o \in TableNames : \A q \in Rows : \A t \in Sources : \A u \in Windows :
          asked[o][q][t][u] \in Nat /\ asked'[o][q][t][u] \in Nat
    BY <2>1, <2>2, HistoryCounts, Zenon
  <2> QED BY <1>4, <2>3, Zenon DEF Grows
<1>6. /\ \A o \in TableNames : o # tb => table'[o] = table[o]
      /\ OneSlot(table[tb], table'[tb], c.row, c.source, c.window)
  <2>1. \A o \in TableNames : o # tb => table'[o] = table[o]
    <3>1. table' = [table EXCEPT ![tb] = table'[tb]] /\ DOMAIN table = TableNames
      BY Zenon DEF Counting, ShareInv, ShareType
    <3>2. PICK X : X = table'[tb]
      BY Zenon
    <3>3. table' = [table EXCEPT ![tb] = X]
      BY <3>1, <3>2, Zenon
    <3> QED BY <3>1, <3>3, Zenon
  <2>2. OneSlot(table[tb], table'[tb], c.row, c.source, c.window)
    BY <1>1, MovedSlots, Zenon DEF Counting
  <2> QED BY <2>1, <2>2, Zenon
<1>7. \A q \in Rows : \A t \in Sources : SlotOf[q][t] \in Slots
  BY DEF ShareConstants, Rows
<1>8. ASSUME NEW q \in Rows, NEW x \in Slots
      PROVE  /\ table[tb][q][x] \in Windows \X Nat
             /\ q # c.row \/ x # SlotOf[c.row][c.source] => table'[tb][q][x] = table[tb][q][x]
  BY <1>6, Zenon DEF OneSlot
<1>9. table'[tb][c.row][SlotOf[c.row][c.source]] = b
  BY <1>1, <1>6, Zenon DEF OneSlot, Counting
<1>10. ASSUME NEW o \in TableNames, NEW q \in Rows, NEW t \in Sources, Own(q, t)
       PROVE  OwnSlot(table', asked', o, q, t)
  <2>0. OwnSlot(table, asked, o, q, t)
    BY <1>10, Zenon DEF ShareInv, OwnCounts
  <2>1. CASE o # tb \/ q # c.row \/ SlotOf[q][t] # SlotOf[c.row][c.source]
    <3>1. table[o][q][SlotOf[q][t]] \in Windows \X Nat
      <4>1. table[o] \in [Rows -> [Slots -> Windows \X Nat]]
        BY Zenon DEF ShareInv, ShareType, Counts
      <4>2. table[o][q] \in [Slots -> Windows \X Nat]
        BY <4>1, Zenon
      <4> QED BY <1>7, <4>2, Zenon
    <3>2. PICK x \in Windows \X Nat : x = table[o][q][SlotOf[q][t]]
      BY <3>1, Zenon
    <3>3. table'[o][q][SlotOf[q][t]] = x
      <4>1. CASE o # tb
        BY <1>6, <3>2, <4>1, Zenon
      <4>2. CASE o = tb
        BY <1>7, <1>8, <2>1, <3>2, <4>2, Zenon
      <4> QED BY <4>1, <4>2, Zenon
    <3>4. x[2] <= asked[o][q][t][x[1]]
      BY <2>0, <3>2, Zenon DEF OwnSlot
    <3>5. x[1] \in Windows /\ x[2] \in Nat
      OBVIOUS
    <3>6. asked[o][q][t][x[1]] \in Nat /\ asked'[o][q][t][x[1]] \in Nat
          /\ asked[o][q][t][x[1]] <= asked'[o][q][t][x[1]]
      BY <1>5, <3>5, Zenon
    <3>7. x[2] <= asked'[o][q][t][x[1]]
      BY <3>4, <3>5, <3>6
    <3> QED BY <3>3, <3>7, Zenon DEF OwnSlot
  <2>2. CASE o = tb /\ q = c.row /\ SlotOf[q][t] = SlotOf[c.row][c.source]
    <3>1. t = c.source
      BY <1>2, <1>10, <2>2, Zenon DEF Own, Limiter!OwnRow
    <3>2. PICK x \in Windows \X Nat : x = table[tb][q][SlotOf[q][t]]
      BY <1>7, <1>8, Zenon
    <3>3. b = Limiter!Bumped(x, c.window)
      BY <1>1, <2>2, <3>2, Zenon DEF Counting
    <3>4. b = IF x[1] >= c.window THEN <<x[1], x[2] + 1>> ELSE <<c.window, 1>>
      BY <3>3, Zenon DEF Limiter!Bumped
    <3>5. x[1] \in Windows /\ x[2] \in Nat /\ x[2] <= asked[tb][q][t][x[1]]
      <4>1. x[2] <= asked[tb][q][t][x[1]]
        BY <2>0, <2>2, <3>2, Zenon DEF OwnSlot
      <4> QED BY <4>1
    <3>6. PICK n \in Nat, k \in Nat : n = asked[tb][q][t][b[1]] /\ k = asked[tb][q][t][x[1]]
      BY <1>2, <1>3, <1>5, <3>5, Zenon
    <3>7. asked'[tb][q][t][b[1]] = n + 1
      BY <1>4, <2>2, <3>1, <3>6, Zenon DEF Grows
    <3>8. b[1] = x[1] => n = k
      BY <3>6, Zenon
    <3>9. x[2] <= k
      BY <3>5, <3>6, Zenon
    <3>10. b[2] <= n + 1
      BY <1>2, <3>4, <3>8, <3>9
    <3> QED BY <1>9, <2>2, <3>7, <3>10, Zenon DEF OwnSlot
  <2> QED BY <2>1, <2>2, Zenon
<1>11. ASSUME NEW r \in Rows, r <= c.row, Own(r, c.source)
       PROVE  Sent(asked', tb, r, c.source, m[2])
  <2>1. c.row \in Nat /\ r \in Nat /\ (r = c.row \/ r < c.row) /\ (r < c.row => c.row # 1)
    BY <1>2, <1>11 DEF ShareConstants, Rows
  <2>2. CASE r = c.row
    <3>1. b[2] <= asked'[tb][r][c.source][b[1]]
      BY <1>2, <1>9, <1>10, <1>11, <2>2, Zenon DEF OwnSlot
    <3>2. m[2] <= asked'[tb][r][c.source][b[1]]
      <4>1. PICK n \in Nat : n = asked'[tb][r][c.source][b[1]]
        BY <1>2, <1>3, <1>5, Zenon
      <4> QED BY <1>2, <1>3, <3>1, <4>1
    <3> QED BY <1>3, <3>2, Zenon DEF Sent
  <2>3. CASE r < c.row
    <3>1. Sent(asked', tb, r, c.source, c.min[2])
      <4>1. OwnCall(c, asked) /\ CallType(c, clock)
        BY <1>1, Zenon DEF ShareInv, OwnCounts, ShareType
      <4>2. OwnCall(c, asked')
        BY <1>4, <4>1, SentStays, Zenon
      <4> QED BY <1>2, <1>11, <2>1, <2>3, <4>2, Zenon DEF OwnCall
    <3>2. m[2] <= c.min[2] /\ c.min[2] \in Nat
      BY <1>2, <2>1, <2>3
    <3>3. \A n \in Nat : c.min[2] <= n => m[2] <= n
      BY <1>3, <3>2
    <3> QED BY <1>2, <1>5, <3>1, <3>3, ZenonT(30) DEF Sent
  <2> QED BY <2>1, <2>2, <2>3, Zenon
<1>12. ASSUME NEW limit \in Nat, m[2] > limit, c.row = Len(SlotOf)
       PROVE  Exceeded(asked', tb, c.source, limit)
  <2>1. \A r \in Rows : r <= c.row
    BY <1>12 DEF ShareConstants, Rows
  <2>2. \A n \in Nat : m[2] <= n => n > limit
    BY <1>3, <1>12
  <2> QED BY <1>2, <1>5, <1>11, <2>1, <2>2, Zenon DEF Exceeded, Sent
<1>13. OwnCall(e, asked')
  <2>1. OwnCall(c, asked')
    <3>1. OwnCall(c, asked) /\ CallType(c, clock)
      BY <1>1, Zenon DEF ShareInv, OwnCounts, ShareType
    <3> QED BY <1>4, <3>1, SentStays, Zenon
  <2>2. e.at \in TableNames => \A r \in Rows : r < e.row => r <= c.row
    BY <1>1, <1>2 DEF Outcome, ShareConstants, Rows
  <2>3. Share \in Nat /\ Limiter!ProvenLimit \in Nat
    BY Zenon DEF ShareConstants
  <2>4. ASSUME e.at \in TableNames, e.row # 1, NEW r \in Rows, r < e.row, Own(r, e.source)
        PROVE  Sent(asked', e.at, r, e.source, e.min[2])
    BY <1>1, <1>11, <2>2, <2>4, Zenon DEF Outcome
  <2>5. e.load = "source_share" => Exceeded(asked', "sources", e.source, Share)
    BY <1>1, <1>12, <2>1, <2>3, Zenon DEF Outcome, OwnCall
  <2>6. e.proven = "refused" => Exceeded(asked', "proven", e.source, Limiter!ProvenLimit)
    BY <1>1, <1>12, <2>1, <2>3, Zenon DEF Outcome, OwnCall
  <2> QED BY <2>4, <2>5, <2>6, Zenon DEF OwnCall
<1>14. \A u \in Callers : OwnCall(call'[u], asked')
  <2> SUFFICES ASSUME NEW u \in Callers PROVE OwnCall(call'[u], asked')
    BY Zenon
  <2>1. call'[w] = e /\ (u # w => call'[u] = call[u])
    BY Zenon DEF Counting, ShareInv, ShareType
  <2>2. OwnCall(call[u], asked) /\ CallType(call[u], clock)
    BY Zenon DEF ShareInv, OwnCounts, ShareType
  <2>3. OwnCall(call[u], asked')
    BY <1>4, <2>2, SentStays, Zenon
  <2> QED BY <1>13, <2>1, <2>3, Zenon
<1> QED BY <1>10, <1>14, Zenon DEF OwnCounts

\* What is granted: nothing, or this message in the window of its minimum.
Grants(c, tb, m, e) ==
  \/ granted' = granted
  \/ /\ tb = "sources" /\ c.row = Len(SlotOf) /\ m[2] <= Share /\ e.at \notin TableNames
     /\ granted' = [granted EXCEPT ![c.source][m[1]] = @ + 1]

\* A grant adds one to its source and window alone.
LEMMA GrantedThen ==
  ASSUME ShareInv, NEW s \in Sources, NEW v \in Windows,
         granted' = [granted EXCEPT ![s][v] = @ + 1]
  PROVE  /\ granted' \in [Sources -> [Windows -> Nat]]
         /\ granted'[s][v] = granted[s][v] + 1
         /\ \A t \in Sources : \A u \in Windows :
              t # s \/ u # v => granted'[t][u] = granted[t][u]
<1>1. PICK A : A = granted /\ A \in [Sources -> [Windows -> Nat]]
  BY Zenon DEF ShareInv, ShareType
<1>2. A[s] \in [Windows -> Nat] /\ A[s][v] \in Nat
  BY <1>1, Zenon
<1>3. PICK m : m = A[s][v] + 1
  BY Zenon
<1>4. m \in Nat
  BY <1>2, <1>3
<1>5. PICK F : F = [A[s] EXCEPT ![v] = m]
  BY Zenon
<1>6. F \in [Windows -> Nat] /\ F[v] = m /\ \A u \in Windows : u # v => F[u] = A[s][u]
  BY <1>2, <1>4, <1>5, Zenon
<1>7. granted' = [A EXCEPT ![s] = F]
  BY <1>1, <1>3, <1>5, Zenon
<1>8. granted' \in [Sources -> [Windows -> Nat]] /\ granted'[s] = F
      /\ \A t \in Sources : t # s => granted'[t] = A[t]
  BY <1>1, <1>6, <1>7, Zenon
<1> QED BY <1>1, <1>3, <1>6, <1>8, Zenon

\* Counting a row keeps the types.
LEMMA CountingType ==
  ASSUME ShareInv, ShareConstants, NEW w \in Callers, NEW tb, NEW b, NEW m, NEW e,
         Counting(w, tb, b, m, e), Outcome(call[w], tb, m, e), Grants(call[w], tb, m, e)
  PROVE  ShareType'
<1>1. PICK c : c = call[w]
  BY Zenon
<1>2. Minimum(c, clock, b, m)
  BY <1>1, MinimumKnown, Zenon
<1>3. table' \in [TableNames -> Counts]
  <2>1. OneSlot(table[tb], table'[tb], c.row, c.source, c.window)
    BY <1>1, MovedSlots, Zenon DEF Counting
  <2>2. table'[tb] \in Counts
    BY <2>1, Zenon DEF OneSlot
  <2>3. PICK X \in Counts : X = table'[tb]
    BY <2>2, Zenon
  <2>4. table' = [table EXCEPT ![tb] = X] /\ table \in [TableNames -> Counts]
    BY <2>3, Zenon DEF Counting, ShareInv, ShareType
  <2> QED BY <2>4, Zenon
<1>4. asked' \in [TableNames -> [Rows -> [Sources -> [Windows -> Nat]]]]
  <2>1. PICK r \in Rows, s \in Sources, v \in Windows : r = c.row /\ s = c.source /\ v = b[1]
    BY <1>2 DEF Minimum
  <2>2. asked' = [asked EXCEPT ![tb][r][s][v] = @ + 1] /\ tb \in TableNames
    BY <1>1, <2>1, Zenon DEF Counting
  <2>3. Grows(tb, r, s, v)
    BY <2>2, AskedGrows, Zenon
  <2> QED BY <2>3, Zenon DEF Grows
<1>5. granted' \in [Sources -> [Windows -> Nat]]
  <2>1. CASE granted' = granted
    BY <2>1, Zenon DEF ShareInv, ShareType
  <2>2. CASE granted' = [granted EXCEPT ![c.source][m[1]] = @ + 1]
    <3>1. PICK s \in Sources, v \in Windows : s = c.source /\ v = m[1]
      BY <1>2 DEF Minimum
    <3>2. granted' = [granted EXCEPT ![s][v] = @ + 1]
      BY <2>2, <3>1, Zenon
    <3> QED BY <3>2, GrantedThen, Zenon
  <2> QED BY <1>1, <2>1, <2>2, Zenon DEF Grants
<1>6. call' = [u \in Callers |-> call'[u]] /\ \A u \in Callers : CallType(call'[u], clock)
  <2>1. DOMAIN call = Callers /\ \A u \in Callers : CallType(call[u], clock)
    BY Zenon DEF ShareInv, ShareType
  <2>2. call' = [call EXCEPT ![w] = e] /\ CallType(e, clock)
    BY Zenon DEF Counting, Outcome
  <2> QED BY <2>1, <2>2, Zenon
<1>7. clock' = clock /\ traffic' = traffic
  BY Zenon DEF Counting
<1> QED BY <1>3, <1>4, <1>5, <1>6, <1>7, Zenon DEF ShareType, ShareInv

\* Counting a row keeps every ledger: the count taken is new, and a grant
\* enters the one its call held.
LEMMA CountingLedgers ==
  ASSUME ShareInv, ShareConstants, NEW w \in Callers, NEW tb, NEW b, NEW m, NEW e,
         Counting(w, tb, b, m, e), Outcome(call[w], tb, m, e), Grants(call[w], tb, m, e)
  PROVE  Ledgers'
<1>1. PICK c : c = call[w]
  BY Zenon
<1>2. PICK P : P = Holding(call)
  BY Zenon
<1>3. PICK h : h = <<c.source, m[1], m[2]>>
  BY Zenon
<1>4. /\ Minimum(c, clock, b, m) /\ c.at = tb /\ tb \in TableNames
      /\ CallType(e, clock)
  BY <1>1, MinimumKnown, Zenon DEF Counting, Outcome
<1>5. \A s \in Sources : \A v \in Windows :
        Ledger(table["sources"], P, granted[s][v], s, v)
  BY <1>2, Zenon DEF ShareInv, Ledgers
<1>6. /\ DOMAIN P = Callers /\ P[w] = Held(c)
      /\ Holding(call') = [P EXCEPT ![w] = Held(e)]
  <2>1. DOMAIN P = Callers /\ \A u \in Callers : P[u] = Held(call[u])
    BY <1>2, Zenon DEF Holding
  <2>2. DOMAIN call = Callers /\ call' = [call EXCEPT ![w] = e]
    BY Zenon DEF ShareInv, ShareType, Counting
  <2>3. call'[w] = e /\ \A u \in Callers : u # w => call'[u] = call[u]
    BY <2>2, Zenon
  <2>4. DOMAIN Holding(call') = Callers /\ \A u \in Callers : Holding(call')[u] = Held(call'[u])
    BY Zenon DEF Holding
  <2>5. Holding(call') = [u \in Callers |-> Held(call'[u])]
    BY Zenon DEF Holding
  <2>6. [P EXCEPT ![w] = Held(e)] = [u \in Callers |-> IF u = w THEN Held(e) ELSE P[u]]
    BY <2>1, Zenon
  <2>7. \A u \in Callers : Held(call'[u]) = IF u = w THEN Held(e) ELSE P[u]
    BY <2>1, <2>3, Zenon
  <2>8. [u \in Callers |-> Held(call'[u])] = [u \in Callers |-> IF u = w THEN Held(e) ELSE P[u]]
    BY <2>7, Zenon
  <2> QED BY <1>1, <2>1, <2>5, <2>6, <2>8, Zenon
<1>7. Holdings(P)
  <2> SUFFICES ASSUME NEW u \in Callers, P[u] # <<>> PROVE P[u][2] \in Windows /\ P[u][3] \in Nat
    BY <1>6, Zenon DEF Holdings
  <2>1. PICK d : d = call[u]
    BY Zenon
  <2>2. P[u] = Held(d) /\ CallType(d, clock)
    BY <1>2, <2>1, Zenon DEF Holding, ShareInv, ShareType
  <2>3. d.at = "sources" /\ d.row # 1 /\ P[u] = <<d.source, d.min[1], d.min[2]>>
    BY <2>2, Zenon DEF Held
  <2>4. d.min \in Windows \X Nat
    BY <2>2, <2>3, Zenon DEF CallType, TableNames
  <2>5. d.min[1] \in Windows /\ d.min[2] \in Nat
    BY <2>4
  <2> QED BY <2>3, <2>5
<1>8. CASE tb = "proven"
  <2>1. table'["sources"] = table["sources"]
    <3>1. PICK X : X = table'["proven"]
      BY Zenon
    <3>2. table' = [table EXCEPT !["proven"] = X]
      BY <1>8, <3>1, Zenon DEF Counting
    <3>3. DOMAIN table = TableNames
      BY Zenon DEF ShareInv, ShareType
    <3> QED BY <3>2, <3>3, Zenon DEF TableNames
  <2>2. Held(c) = <<>> /\ Held(e) = <<>>
    BY <1>1, <1>4, <1>8, Zenon DEF Held, Outcome, TableNames
  <2>3. Holding(call') = P
    <3>1. P = [u \in Callers |-> P[u]]
      BY <1>2, Zenon DEF Holding
    <3> QED BY <1>6, <2>2, <3>1, ZenonT(30)
  <2>4. granted' = granted
    BY <1>8, Zenon DEF Grants
  <2> QED BY <1>5, <2>1, <2>3, <2>4, Zenon DEF Ledgers
<1>9. CASE tb = "sources"
  <2>1. PICK T, U : T = table["sources"] /\ U = table'["sources"]
    BY Zenon
  <2>2. PICK r, t, window : r = c.row /\ t = c.source /\ window = c.window
    BY Zenon
  <2>3. /\ Moved(T, U, r, t, window) /\ b = Limiter!Bumped(T[r][SlotOf[r][t]], window)
        /\ t \in Sources
    BY <1>1, <1>4, <1>9, <2>1, <2>2, Zenon DEF Counting, Minimum
  <2>4. PICK Q : Q = [P EXCEPT ![w] = h]
    BY Zenon
  <2>5. h = <<t, m[1], m[2]>> /\ (m = b \/ P[w] = <<t, m[1], m[2]>>) /\ m \in Windows \X Nat
    <3>1. c.row # 1 => Held(c) = <<c.source, c.min[1], c.min[2]>>
      BY <1>4, <1>9, Zenon DEF Held
    <3> QED BY <1>3, <1>4, <1>6, <2>2, <3>1, Zenon DEF Minimum
  <2>6. Q = [P EXCEPT ![w] = <<t, m[1], m[2]>>]
    BY <2>4, <2>5, Zenon
  <2>7. Taken(T, U, r, t, window, P, Q, w, b, m)
    BY <1>7, <2>3, <2>5, <2>6, Zenon DEF Taken
  <2>8. \A s \in Sources : \A v \in Windows : Ledger(U, Q, granted[s][v], s, v)
    <3> SUFFICES ASSUME NEW s \in Sources, NEW v \in Windows
                 PROVE  Ledger(U, Q, granted[s][v], s, v)
      BY Zenon
    <3>1. PICK g : g = granted[s][v]
      BY Zenon
    <3>2. Ledger(T, P, g, s, v)
      BY <1>5, <2>1, <3>1, Zenon
    <3>3. Ledger(U, Q, g, s, v)
      BY <2>7, <3>2, LedgerMoves, Zenon
    <3> QED BY <3>1, <3>3, Zenon
  <2>9. CASE e.at = "sources"
    <3>1. e.row # 1
      BY <1>1, <1>4, <2>9 DEF Outcome, TableNames, Minimum, Rows, ShareConstants
    <3>2. Held(e) = h
      BY <1>1, <1>3, <2>9, <3>1, Zenon DEF Held, Outcome, TableNames
    <3>3. Holding(call') = Q /\ granted' = granted
      BY <1>6, <2>4, <2>9, <3>2, Zenon DEF Grants, TableNames
    <3> QED BY <2>1, <2>8, <3>3, Zenon DEF Ledgers
  <2>10. CASE e.at # "sources"
    <3>1. PICK D : D = Holding(call')
      BY Zenon
    <3>2. Held(e) = <<>>
      BY <2>10, Zenon DEF Held
    <3>3. D = [Q EXCEPT ![w] = <<>>] /\ Q[w] = h
      BY <1>6, <2>4, <3>1, <3>2, Zenon
    <3>4. m[1] \in Windows /\ m[2] \in Nat /\ m[2] # 0 /\ Share \in Nat
      BY <1>4 DEF Minimum, ShareConstants
    <3>5. Holdings(Q)
      <4>1. h[2] \in Windows /\ h[3] \in Nat
        BY <1>3, <3>4
      <4> QED BY <1>6, <1>7, <2>4, <4>1, Zenon DEF Holdings
    <3>6. \A s \in Sources : \A v \in Windows : Ledger(U, D, granted[s][v], s, v)
      BY <2>8, <3>3, <3>5, LedgerDrops, Zenon
    <3>7. CASE granted' = granted
      BY <2>1, <3>1, <3>6, <3>7, Zenon DEF Ledgers
    <3>8. CASE m[2] <= Share /\ granted' = [granted EXCEPT ![c.source][m[1]] = @ + 1]
      <4>1. PICK v \in Windows, n \in 1..Share : v = m[1] /\ n = m[2]
        BY <3>4, <3>8
      <4>2. granted' = [granted EXCEPT ![t][v] = @ + 1]
        BY <2>2, <3>8, <4>1, Zenon
      <4>3. /\ granted'[t][v] = granted[t][v] + 1
            /\ \A s \in Sources : \A u \in Windows :
                 s # t \/ u # v => granted'[s][u] = granted[s][u]
        BY <2>3, <4>2, GrantedThen, ZenonT(30)
      <4>4. Q[w] = <<t, v, n>>
        BY <2>5, <3>3, <4>1, Zenon
      <4>5. PICK g \in Nat : g = granted[t][v]
        BY <2>3, Zenon DEF ShareInv, ShareType
      <4>6. Ledger(U, Q, g, t, v)
        BY <2>3, <2>8, <4>5, Zenon
      <4>7. Ledger(U, D, g + 1, t, v)
        BY <3>3, <3>5, <4>4, <4>6, LedgerGrants, Zenon
      <4>8. \A s \in Sources : \A u \in Windows : Ledger(U, D, granted'[s][u], s, u)
        BY <3>6, <4>3, <4>5, <4>7, Zenon
      <4> QED BY <2>1, <3>1, <4>8, Zenon DEF Ledgers
    <3> QED BY <1>1, <3>7, <3>8, Zenon DEF Grants
  <2> QED BY <2>9, <2>10, Zenon
<1> QED BY <1>4, <1>8, <1>9, Zenon DEF TableNames

\* The worker alone counts in its own window, past all it was granted there.
LEMMA KeptBumped ==
  ASSUME ShareConstants, NEW x \in Windows \X Nat, NEW g \in [Windows -> Nat],
         NEW t \in Windows, Kept(x, g, t), NEW b, b = Limiter!Bumped(x, t)
  PROVE  Kept(b, g, t) /\ b[1] = t /\ b[2] > g[t]
<1>1. b = IF x[1] >= t THEN <<x[1], x[2] + 1>> ELSE <<t, 1>>
  BY Zenon DEF Limiter!Bumped
<1>2. x[1] <= t /\ g[t] \in Nat /\ (g[t] > 0 => x[1] >= t) /\ (x[1] = t => x[2] >= g[t])
  BY Zenon DEF Kept
<1>3. b[1] = t /\ b[2] > g[t] /\ b[1] >= x[1] /\ b[1] <= t /\ b[2] >= g[t]
  BY <1>1, <1>2 DEF Windows, ShareConstants
<1>4. ASSUME NEW v \in Windows
      PROVE  g[v] <= Share /\ (g[v] > 0 => b[1] >= v) /\ (b[1] = v => b[2] >= g[v])
  <2>1. g[v] \in Nat /\ g[v] <= Share /\ (g[v] > 0 => x[1] >= v)
    BY Zenon DEF Kept
  <2>2. b[1] = v => b[2] >= g[v]
    BY <1>3, Zenon
  <2>3. g[v] > 0 => b[1] >= v
    BY <1>2, <1>3, <2>1 DEF Windows, ShareConstants
  <2> QED BY <2>1, <2>2, <2>3, Zenon
<1> QED BY <1>3, <1>4, Zenon DEF Kept

\* Counting a row by the only worker keeps every row at or above the grants.
LEMMA CountingSole ==
  ASSUME ShareInv, ShareConstants, NEW w \in Callers, NEW tb, NEW b, NEW m, NEW e,
         w \in traffic.workers,
         Counting(w, tb, b, m, e), Outcome(call[w], tb, m, e), Grants(call[w], tb, m, e)
  PROVE  Sole'
<1>1. PICK c : c = call[w]
  BY Zenon
<1>2. /\ Minimum(c, clock, b, m) /\ c.at = tb /\ tb \in TableNames /\ traffic' = traffic
      /\ clock' = clock /\ CallType(e, clock) /\ call'[w] = e
  <2>1. DOMAIN call = Callers
    BY Zenon DEF ShareInv, ShareType
  <2> QED BY <1>1, <2>1, MinimumKnown, Zenon DEF Counting, Outcome
<1> SUFFICES ASSUME traffic.workers = {w}
             PROVE  SoleOf(e, table'["sources"], granted', clock)
  BY <1>2, Zenon DEF Sole
<1>3. SoleOf(c, table["sources"], granted, clock)
  BY <1>1, Zenon DEF ShareInv, Sole
<1>4. CASE tb = "proven"
  <2>1. table'["sources"] = table["sources"] /\ granted' = granted
    <3>1. PICK X : X = table'["proven"]
      BY Zenon
    <3>2. table' = [table EXCEPT !["proven"] = X]
      BY <1>4, <3>1, Zenon DEF Counting
    <3>3. DOMAIN table = TableNames
      BY Zenon DEF ShareInv, ShareType
    <3> QED BY <1>4, <3>2, <3>3, Zenon DEF TableNames, Grants
  <2>2. e.at # "sources" /\ c.at # "sources"
    BY <1>2, <1>4, Zenon DEF Outcome, TableNames
  <2> QED BY <1>3, <2>1, <2>2, Zenon DEF SoleOf, Latest, SoleCall
<1>5. CASE tb = "sources"
  <2>1. PICK T, U, r, s, t : T = table["sources"] /\ U = table'["sources"] /\ r = c.row
                             /\ s = c.source /\ t = c.window
    BY Zenon
  <2>2. /\ OneSlot(T, U, r, s, t) /\ b = Limiter!Bumped(T[r][SlotOf[r][s]], t)
        /\ r \in Rows /\ s \in Sources /\ t \in Windows /\ t <= clock /\ clock \in Windows
    <3>1. Moved(T, U, r, s, t) /\ b = Limiter!Bumped(T[r][SlotOf[r][s]], t)
      BY <1>1, <1>5, <2>1, Zenon DEF Counting
    <3> QED BY <1>2, <2>1, <3>1, MovedSlots, Zenon DEF Minimum, ShareInv, ShareType
  <2>3. \A q \in Rows : \A z \in Sources : SlotOf[q][z] \in Slots
    BY DEF ShareConstants, Rows
  <2>4. /\ \A z \in Sources : \A q \in Rows : Kept(T[q][SlotOf[q][z]], granted[z], t)
        /\ SoleCall(c, T, granted)
    BY <1>2, <1>3, <1>5, <2>1, Zenon DEF SoleOf, Latest
  <2>5. /\ U[r][SlotOf[r][s]] = b
        /\ \A q \in Rows : \A z \in Sources :
             /\ T[q][SlotOf[q][z]] \in Windows \X Nat
             /\ q # r \/ SlotOf[q][z] # SlotOf[r][s] => U[q][SlotOf[q][z]] = T[q][SlotOf[q][z]]
             /\ q = r /\ SlotOf[q][z] = SlotOf[r][s] => U[q][SlotOf[q][z]] = b
    BY <2>2, <2>3, Zenon DEF OneSlot
  <2>6. granted \in [Sources -> [Windows -> Nat]]
        /\ \A z \in Sources : granted[z] \in [Windows -> Nat]
    BY Zenon DEF ShareInv, ShareType
  <2>7. ASSUME NEW z \in Sources, SlotOf[r][z] = SlotOf[r][s]
        PROVE  Kept(b, granted[z], t) /\ b[1] = t /\ b[2] > granted[z][t]
    <3>1. PICK x \in Windows \X Nat : x = T[r][SlotOf[r][z]]
      BY <2>2, <2>5, Zenon
    <3>2. Kept(x, granted[z], t) /\ b = Limiter!Bumped(x, t)
      BY <2>2, <2>4, <2>7, <3>1, Zenon
    <3> QED BY <2>2, <2>6, <3>2, KeptBumped, Zenon
  <2>8. \A z \in Sources : \A q \in Rows : Kept(U[q][SlotOf[q][z]], granted[z], t)
    <3> SUFFICES ASSUME NEW z \in Sources, NEW q \in Rows
                 PROVE  Kept(U[q][SlotOf[q][z]], granted[z], t)
      BY Zenon
    <3>1. CASE q = r /\ SlotOf[q][z] = SlotOf[r][s]
      <4>1. SlotOf[r][z] = SlotOf[r][s] /\ U[q][SlotOf[q][z]] = b
        BY <2>5, <3>1, Zenon
      <4>2. Kept(b, granted[z], t)
        BY <2>7, <4>1, Zenon
      <4> QED BY <4>1, <4>2, Zenon
    <3>2. CASE q # r \/ SlotOf[q][z] # SlotOf[r][s]
      BY <2>4, <2>5, <3>2, Zenon
    <3> QED BY <3>1, <3>2, Zenon
  <2>9. b[1] = t /\ b[2] > granted[s][t]
    BY <2>2, <2>7, Zenon
  <2>10. m[1] = t /\ m[2] > granted[s][t]
    <3>1. m = b \/ (c.row # 1 /\ m = c.min)
      BY <1>2, Zenon DEF Minimum
    <3>2. c.row # 1 => c.min[1] = t /\ c.min[2] > granted[s][t]
      BY <1>2, <1>5, <2>1, <2>4, Zenon DEF SoleCall
    <3> QED BY <2>9, <3>1, <3>2, Zenon
  <2>11. \A q \in Rows : q <= r =>
           U[q][SlotOf[q][s]][1] = t /\ U[q][SlotOf[q][s]][2] > granted[s][t]
    <3> SUFFICES ASSUME NEW q \in Rows, q <= r
                 PROVE  U[q][SlotOf[q][s]][1] = t /\ U[q][SlotOf[q][s]][2] > granted[s][t]
      BY Zenon
    <3>1. (q = r \/ q < r) /\ (q < r => r # 1 /\ q # r)
      BY <2>2 DEF ShareConstants, Rows
    <3>2. CASE q = r
      BY <2>5, <2>9, <3>2, Zenon
    <3>3. CASE q < r
      BY <1>2, <1>5, <2>1, <2>2, <2>4, <2>5, <3>1, <3>3, Zenon DEF SoleCall
    <3> QED BY <3>1, <3>2, <3>3, Zenon
  <2>12. CASE e.at = "sources"
    <3>1. /\ e.row = r + 1 /\ e.min = m /\ e.window = t /\ e.source = s
          /\ granted' = granted
      BY <1>1, <2>1, <2>12, Zenon DEF Outcome, Grants, TableNames
    <3>2. \A q \in Rows : q < e.row => q <= r
      BY <2>2, <3>1 DEF ShareConstants, Rows
    <3>3. SoleCall(e, U, granted)
      BY <2>10, <2>11, <3>1, <3>2, Zenon DEF SoleCall
    <3>4. Latest(e, clock) = t
      BY <2>12, <3>1, Zenon DEF Latest
    <3> QED BY <2>1, <2>8, <3>1, <3>3, <3>4, Zenon DEF SoleOf
  <2>13. CASE e.at # "sources"
    <3>1. SoleCall(e, U, granted') /\ Latest(e, clock) = clock
      BY <2>13, Zenon DEF SoleCall, Latest
    <3>2. ASSUME NEW z \in Sources, NEW q \in Rows
          PROVE  Kept(U[q][SlotOf[q][z]], granted[z], clock)
      <4>1. PICK y : y = U[q][SlotOf[q][z]]
        BY Zenon
      <4>2. y \in Windows \X Nat
        <5>1. U[q] \in [Slots -> Windows \X Nat]
          BY <2>2, Zenon DEF OneSlot, Counts
        <5> QED BY <2>3, <4>1, <5>1, Zenon
      <4>3. Kept(y, granted[z], t)
        BY <2>8, <4>1, Zenon
      <4>4. y[1] <= t
        BY <4>3, Zenon DEF Kept
      <4>5. y[1] <= clock
        BY <2>2, <4>2, <4>4 DEF Windows, ShareConstants
      <4> QED BY <4>1, <4>3, <4>5, Zenon DEF Kept
    <3>3. CASE granted' = granted
      BY <2>1, <3>1, <3>2, <3>3, Zenon DEF SoleOf
    <3>4. CASE r = Len(SlotOf) /\ m[2] <= Share /\ granted' = [granted EXCEPT ![s][m[1]] = @ + 1]
      <4>1. granted' = [granted EXCEPT ![s][t] = @ + 1]
        BY <2>10, <3>4, Zenon
      <4>2. /\ granted'[s][t] = granted[s][t] + 1
            /\ \A z \in Sources : \A u \in Windows :
                 z # s \/ u # t => granted'[z][u] = granted[z][u]
        BY <2>2, <4>1, GrantedThen, ZenonT(30)
      <4>3. \A q \in Rows : q <= r
        BY <3>4 DEF ShareConstants, Rows
      <4>4. ASSUME NEW z \in Sources, NEW q \in Rows
            PROVE  Kept(U[q][SlotOf[q][z]], granted'[z], clock)
        <5>1. PICK y : y = U[q][SlotOf[q][z]]
          BY Zenon
        <5>2. y \in Windows \X Nat
          <6>1. U[q] \in [Slots -> Windows \X Nat]
            BY <2>2, Zenon DEF OneSlot, Counts
          <6> QED BY <2>3, <5>1, <6>1, Zenon
        <5>3. Kept(y, granted[z], clock)
          BY <3>2, <5>1, Zenon
        <5>4. ASSUME NEW v \in Windows
              PROVE  /\ granted'[z][v] <= Share
                     /\ granted'[z][v] > 0 => y[1] >= v
                     /\ y[1] = v => y[2] >= granted'[z][v]
          <6>1. CASE z # s \/ v # t
            BY <4>2, <5>3, <6>1, Zenon DEF Kept
          <6>2. CASE z = s /\ v = t
            <7>1. PICK n \in Nat : n = granted[s][t]
              BY <2>2, <2>6, Zenon
            <7>2. y[1] = t /\ y[2] > n
              BY <2>11, <4>3, <5>1, <6>2, <7>1, Zenon
            <7>3. granted'[z][v] = n + 1 /\ m[2] > n
              BY <2>10, <4>2, <6>2, <7>1, Zenon
            <7>4. m[2] \in Nat /\ Share \in Nat /\ m[2] <= Share
              BY <1>2, <3>4 DEF Minimum, ShareConstants
            <7>5. n + 1 <= Share /\ y[2] >= n + 1 /\ y[1] >= t
              BY <2>2, <5>2, <7>2, <7>3, <7>4 DEF Windows
            <7> QED BY <6>2, <7>3, <7>5, Zenon
          <6> QED BY <6>1, <6>2, Zenon
        <5>5. y[1] <= clock
          BY <5>3, Zenon DEF Kept
        <5> QED BY <5>1, <5>4, <5>5, Zenon DEF Kept
      <4> QED BY <2>1, <3>1, <4>4, Zenon DEF SoleOf
    <3> QED BY <1>1, <2>1, <3>3, <3>4, Zenon DEF Grants
  <2> QED BY <2>12, <2>13, Zenon
<1> QED BY <1>2, <1>4, <1>5, Zenon DEF TableNames

-----------------------------------------------------------------------------
\* A call that ends or goes on to its next reading keeps its verdicts.
Plain(c, e) ==
  /\ DOMAIN e = CallFields /\ e.source = c.source /\ e.load = c.load
  /\ e.proven = c.proven /\ e.at \in {"idle", "reading"}

\* An outcome ends a call.
LEMMA EndsPlain == ASSUME NEW c, NEW o PROVE Plain(c, Limiter!Ends(c, o))
<1>1. PICK e : e = Limiter!Ends(c, o)
  BY Zenon
<1>2. /\ DOMAIN e = CallFields /\ e.source = c.source /\ e.load = c.load
      /\ e.proven = c.proven /\ e.at = "idle"
  BY <1>1, Zenon DEF Limiter!Ends, Limiter!Idle, CallFields
<1> QED BY <1>1, <1>2, Zenon DEF Plain

\* A reading that fails leads to the next, or ends the call.
LEMMA GoesOnPlain ==
  ASSUME NEW c, DOMAIN c = CallFields
  PROVE  Plain(c, Limiter!GoesOn(c))
<1>1. PICK e : e = Limiter!GoesOn(c)
  BY Zenon
<1>2. /\ DOMAIN e = CallFields /\ e.source = c.source /\ e.load = c.load
      /\ e.proven = c.proven /\ e.at = "reading"
  BY <1>1, Zenon DEF Limiter!GoesOn, CallFields
<1> QED BY <1>1, <1>2, Zenon DEF Plain

\* So does the trial of a reading.
LEMMA TrialPlain ==
  ASSUME NEW c, DOMAIN c = CallFields, NEW ok
  PROVE  Plain(c, Limiter!Trial(c, ok))
<1>1. CASE ok
  BY <1>1, EndsPlain, Zenon DEF Limiter!Trial
<1>2. CASE ~ok
  <2>1. PICK e, g : g = Limiter!GoesOn(c) /\ e = [g EXCEPT !.refused = TRUE]
    BY Zenon
  <2>2. Plain(c, g)
    BY <2>1, GoesOnPlain, Zenon
  <2>3. Plain(c, e)
    BY <2>1, <2>2, Zenon DEF Plain, CallFields
  <2> QED BY <1>2, <2>1, <2>3, Zenon DEF Limiter!Trial
<1> QED BY <1>1, <1>2, Zenon

\* The verdict on a proven message, taken before or now.
Decided(c, admitted, d) ==
  /\ d.source = c.source /\ d.load = c.load
  /\ d.proven = IF admitted THEN "admitted" ELSE "refused"

\* The verdict on a proven message leads to a trial or past the reading.
LEMMA ProvenPlain ==
  ASSUME NEW w, NEW c, c = call[w], DOMAIN c = CallFields, NEW admitted,
         Limiter!ProvenDecides(w, admitted)
  PROVE  \E d, e : Limiter!Becomes(w, e) /\ Plain(d, e) /\ Decided(c, admitted, d)
<1>1. CASE admitted
  <2>1. PICK d : d = [c EXCEPT !.proven = "admitted"]
    BY Zenon
  <2>2. PICK e : e = Limiter!Trial(d, Limiter!Reading(w).ok)
    BY Zenon
  <2>3. Limiter!Becomes(w, e)
    BY <1>1, <2>1, <2>2, Zenon DEF Limiter!ProvenDecides
  <2>4. DOMAIN d = CallFields /\ d.source = c.source /\ d.load = c.load /\ d.proven = "admitted"
    BY <2>1, Zenon DEF CallFields
  <2>5. Plain(d, e)
    BY <2>2, <2>4, TrialPlain, Zenon
  <2> QED BY <1>1, <2>3, <2>4, <2>5, Zenon DEF Decided
<1>2. CASE ~admitted
  <2>1. PICK d : d = [c EXCEPT !.proven = "refused", !.under_load = TRUE]
    BY Zenon
  <2>2. PICK e : e = Limiter!GoesOn(d)
    BY Zenon
  <2>3. Limiter!Becomes(w, e)
    BY <1>2, <2>1, <2>2, Zenon DEF Limiter!ProvenDecides
  <2>4. DOMAIN d = CallFields /\ d.source = c.source /\ d.load = c.load /\ d.proven = "refused"
    BY <2>1, Zenon DEF CallFields
  <2>5. Plain(d, e)
    BY <2>2, <2>4, GoesOnPlain, Zenon
  <2> QED BY <1>2, <2>3, <2>4, <2>5, Zenon DEF Decided
<1> QED BY <1>1, <1>2, Zenon

\* When a call that counts nothing goes on without a new verdict against it.
LEMMA MilderIf ==
  ASSUME ShareInv, NEW c, CallType(c, clock), c.at \notin TableNames, NEW e, DOMAIN e = CallFields,
         e.source = c.source, e.load = c.load \/ e.load \in {"clear", "aggregate"},
         e.proven = c.proven \/ e.proven = "admitted",
         e.at \in {"sources", "proven", "admit"} => c.source \in Sources,
         e.at \in TableNames => e.row = 1 /\ e.window = clock, ShareConstants
  PROVE  Milder(c, e, clock)
<1>1. 1 \in Rows /\ clock \in Windows /\ clock <= clock
  <2>1. clock \in Windows
    BY Zenon DEF ShareInv, ShareType
  <2> QED BY <2>1 DEF ShareConstants, Rows, Windows
<1>2. /\ e.source \in Sources \cup {NoSource}
      /\ e.proven \in {"undecided", "admitted", "refused"}
      /\ e.load = "source_share" => c.load = "source_share" /\ e.source \in Sources
      /\ e.proven = "refused" => c.proven = "refused" /\ e.source \in Sources
  BY Zenon DEF CallType
<1>3. CallType(e, clock)
  BY <1>1, <1>2, Zenon DEF CallType
<1> QED BY <1>2, <1>3, Zenon DEF Milder

\* A call that ends or goes on has no new verdict against it.
LEMMA PlainMilder ==
  ASSUME ShareInv, ShareConstants, NEW c, CallType(c, clock), c.at \notin TableNames, NEW d, NEW e,
         Plain(d, e), d.source = c.source, d.load = c.load,
         d.proven = c.proven \/ d.proven = "admitted"
  PROVE  Milder(c, e, clock)
<1>1. /\ DOMAIN e = CallFields /\ e.source = c.source /\ e.load = c.load
      /\ e.proven = c.proven \/ e.proven = "admitted"
  BY Zenon DEF Plain
<1>2. e.at \notin {"sources", "proven", "admit"}
  BY Zenon DEF Plain
<1>3. e.at \notin TableNames
  BY <1>2, Zenon DEF TableNames
<1> QED BY <1>1, <1>2, <1>3, MilderIf, Zenon

-----------------------------------------------------------------------------
\* The steps that count nothing.
ReadsOnly(w) ==
  \/ Limiter!Arrive(w) \/ Limiter!Finish(w) \/ Limiter!ReadOther(w) \/ Limiter!ReadHandshake(w)
  \/ Limiter!CountAggregate(w) \/ Limiter!Gate(w) \/ Limiter!ReadWindow(w)

\* Every step that counts nothing goes on so.
LEMMA ReadsMilder ==
  ASSUME ShareInv, ShareConstants, NEW w \in Callers, ReadsOnly(w)
  PROVE  \E e : Milder(call[w], e, clock) /\ Limiter!Becomes(w, e)
<1>1. PICK c : c = call[w]
  BY Zenon
<1>2. CallType(c, clock) /\ DOMAIN c = CallFields
  BY <1>1, Zenon DEF ShareInv, ShareType, CallType
<1>3. CASE Limiter!Arrive(w)
  <2>1. PICK s \in Sources \cup {NoSource}, d \in traffic.datagrams :
          Limiter!Becomes(w, [Limiter!Idle EXCEPT !.at = "reading", !.source = s, !.datagram = d])
    BY <1>3, Zenon DEF Limiter!Arrive
  <2>2. PICK e : e = [Limiter!Idle EXCEPT !.at = "reading", !.source = s, !.datagram = d]
    BY Zenon
  <2>3. /\ DOMAIN e = CallFields /\ e.at = "reading" /\ e.source = s /\ e.load = "undecided"
        /\ e.proven = "undecided"
    BY <2>2, Zenon DEF Limiter!Idle, CallFields
  <2>4. c.at \notin TableNames
    BY <1>1, <1>3, Zenon DEF Limiter!Arrive, TableNames
  <2>5. Milder(c, e, clock)
    BY <2>3, <2>4, Zenon DEF Milder, CallType, TableNames
  <2> QED BY <1>1, <2>1, <2>2, <2>5, Zenon
<1>4. CASE Limiter!Finish(w)
  <2>1. PICK o : Limiter!Becomes(w, Limiter!Ends(c, o))
    BY <1>1, <1>4, Zenon DEF Limiter!Finish
  <2>2. c.at \notin TableNames
    BY <1>1, <1>4, Zenon DEF Limiter!Finish, TableNames
  <2>3. Plain(c, Limiter!Ends(c, o))
    BY EndsPlain, Zenon
  <2>4. Milder(c, Limiter!Ends(c, o), clock)
    BY <1>2, <2>2, <2>3, PlainMilder, Zenon
  <2> QED BY <1>1, <2>1, <2>4, Zenon
<1>5. ASSUME NEW ok, Limiter!Becomes(w, Limiter!Trial(c, ok)), c.at \notin TableNames
      PROVE  \E e : Milder(call[w], e, clock) /\ Limiter!Becomes(w, e)
  <2>1. Plain(c, Limiter!Trial(c, ok))
    BY <1>2, TrialPlain, Zenon
  <2>2. Milder(c, Limiter!Trial(c, ok), clock)
    BY <1>2, <1>5, <2>1, PlainMilder, Zenon
  <2> QED BY <1>1, <1>5, <2>2, Zenon
<1>6. CASE Limiter!ReadOther(w)
  <2>1. c.at \notin TableNames /\ Limiter!Becomes(w, Limiter!Trial(c, Limiter!Reading(w).ok))
    BY <1>1, <1>6, Zenon DEF Limiter!ReadOther, TableNames
  <2> QED BY <1>5, <2>1, Zenon
<1>7. CASE Limiter!ReadHandshake(w)
  <2>1. c.at \notin TableNames
    BY <1>1, <1>7, Zenon DEF Limiter!ReadHandshake, TableNames
  <2>2. CASE disabled
    <3>1. Limiter!Becomes(w, Limiter!Trial(c, Limiter!Reading(w).ok))
      BY <1>1, <1>7, <2>2, Zenon DEF Limiter!ReadHandshake
    <3> QED BY <1>5, <2>1, <3>1, Zenon
  <2>3. CASE ~disabled
    <3>1. PICK e : Limiter!Becomes(w, e) /\
                   \/ e = [c EXCEPT !.at = "gate"]
                   \/ e = [c EXCEPT !.at = "aggregate"]
                   \/ c.source # NoSource /\ e = [c EXCEPT !.at = "sources", !.window = clock, !.row = 1]
      BY <1>1, <1>7, <2>3, Zenon DEF Limiter!ReadHandshake
    <3>2. /\ DOMAIN e = CallFields /\ e.source = c.source /\ e.load = c.load /\ e.proven = c.proven
          /\ \/ e.at \in {"gate", "aggregate"}
             \/ e.at = "sources" /\ c.source # NoSource /\ e.row = 1 /\ e.window = clock
      BY <1>2, <3>1, Zenon DEF CallFields
    <3>3. /\ e.at \in {"sources", "proven", "admit"} => c.source \in Sources
          /\ e.at \in TableNames => e.row = 1 /\ e.window = clock
      BY <1>2, <3>2, Zenon DEF TableNames, CallType
    <3>4. Milder(c, e, clock)
      BY <1>2, <2>1, <3>2, <3>3, MilderIf, Zenon
    <3> QED BY <1>1, <3>1, <3>4, Zenon
  <2> QED BY <2>2, <2>3, Zenon
<1>8. CASE Limiter!CountAggregate(w)
  <2>1. PICK e, l : /\ Limiter!Becomes(w, e) /\ e = [c EXCEPT !.at = "gate", !.load = l]
                    /\ l \in {"clear", "aggregate"}
    BY <1>1, <1>8, Zenon DEF Limiter!CountAggregate
  <2>2. c.at \notin TableNames
    BY <1>1, <1>8, Zenon DEF Limiter!CountAggregate, TableNames
  <2>3. /\ DOMAIN e = CallFields /\ e.source = c.source /\ e.load = l /\ e.proven = c.proven
        /\ e.at = "gate"
    BY <1>2, <2>1, Zenon DEF CallFields
  <2>4. e.at \notin {"sources", "proven", "admit"} /\ e.at \notin TableNames
    BY <2>3, Zenon DEF TableNames
  <2>5. Milder(c, e, clock)
    BY <1>2, <2>1, <2>2, <2>3, <2>4, MilderIf, Zenon
  <2> QED BY <1>1, <2>1, <2>5, Zenon
<1>9. ASSUME c.at \notin TableNames, c.source \in Sources, NEW e, Limiter!Becomes(w, e),
             \/ e = [c EXCEPT !.at = "admit"]
             \/ e = [c EXCEPT !.at = "proven", !.window = clock, !.row = 1]
      PROVE  \E f : Milder(call[w], f, clock) /\ Limiter!Becomes(w, f)
  <2>1. /\ DOMAIN e = CallFields /\ e.source = c.source /\ e.load = c.load /\ e.proven = c.proven
        /\ e.at = "admit" \/ (e.at = "proven" /\ e.row = 1 /\ e.window = clock)
    BY <1>2, <1>9, Zenon DEF CallFields
  <2>2. e.at \in TableNames => e.row = 1 /\ e.window = clock
    BY <2>1, Zenon DEF TableNames
  <2>3. Milder(c, e, clock)
    BY <1>2, <1>9, <2>1, <2>2, MilderIf, Zenon
  <2> QED BY <1>1, <1>9, <2>3, Zenon
<1>10. CASE Limiter!ReadWindow(w)
  <2>1. /\ Limiter!Becomes(w, [c EXCEPT !.at = "proven", !.window = clock, !.row = 1])
        /\ c.at = "admit"
    BY <1>1, <1>10, Zenon DEF Limiter!ReadWindow
  <2>2. c.at \notin TableNames /\ c.source \in Sources
    BY <1>2, <2>1, Zenon DEF TableNames, CallType
  <2> QED BY <1>9, <2>1, <2>2, Zenon
<1>11. CASE Limiter!Gate(w)
  <2>1. c.at = "gate"
    BY <1>1, <1>11, Zenon DEF Limiter!Gate
  <2>2. c.at \notin TableNames
    BY <2>1, Zenon DEF TableNames
  <2>3. \/ Limiter!Becomes(w, Limiter!Trial(c, Limiter!Reading(w).ok))
        \/ Limiter!Becomes(w, Limiter!GoesOn([c EXCEPT !.under_load = TRUE]))
        \/ Limiter!Becomes(w, Limiter!HoldBack(c))
        \/ c.proven # "undecided" /\ Limiter!ProvenDecides(w, c.proven = "admitted")
        \/ c.source # NoSource /\ Limiter!Becomes(w, [c EXCEPT !.at = "admit"])
        \/ /\ c.load = "source_share"
           /\ \/ Limiter!Becomes(w, Limiter!Trial([c EXCEPT !.proven = "admitted"], Limiter!Reading(w).ok))
              \/ Limiter!Becomes(w, [c EXCEPT !.at = "admit"])
    BY <1>1, <1>11, Zenon DEF Limiter!Gate
  <2>4. CASE Limiter!Becomes(w, Limiter!Trial(c, Limiter!Reading(w).ok))
    BY <1>5, <2>2, <2>4, Zenon
  <2>5. ASSUME NEW d, d = [c EXCEPT !.under_load = TRUE] \/ d = [c EXCEPT !.cookie = TRUE],
               Limiter!Becomes(w, Limiter!GoesOn(d))
        PROVE  \E e : Milder(call[w], e, clock) /\ Limiter!Becomes(w, e)
    <3>1. /\ DOMAIN d = CallFields /\ d.source = c.source /\ d.load = c.load /\ d.proven = c.proven
      BY <1>2, <2>5, Zenon DEF CallFields
    <3>2. Plain(d, Limiter!GoesOn(d))
      BY <3>1, GoesOnPlain, Zenon
    <3>3. Milder(c, Limiter!GoesOn(d), clock)
      BY <1>2, <2>2, <3>1, <3>2, PlainMilder, Zenon
    <3> QED BY <1>1, <2>5, <3>3, Zenon
  <2>6. CASE Limiter!Becomes(w, Limiter!GoesOn([c EXCEPT !.under_load = TRUE]))
    BY <2>5, <2>6, Zenon
  <2>7. CASE Limiter!Becomes(w, Limiter!HoldBack(c))
    BY <2>5, <2>7, Zenon DEF Limiter!HoldBack
  <2>8. CASE c.proven # "undecided" /\ Limiter!ProvenDecides(w, c.proven = "admitted")
    <3>1. PICK admitted : admitted = (c.proven = "admitted")
      BY Zenon
    <3>2. Limiter!ProvenDecides(w, admitted)
      BY <2>8, <3>1, Zenon
    <3>3. PICK d, e : Limiter!Becomes(w, e) /\ Plain(d, e) /\ Decided(c, admitted, d)
      BY <1>1, <1>2, <3>2, ProvenPlain, Zenon
    <3>4. d.source = c.source /\ d.load = c.load /\ d.proven = c.proven
      BY <1>2, <2>8, <3>1, <3>3, Zenon DEF CallType, Decided
    <3>5. Milder(c, e, clock)
      BY <1>2, <2>2, <3>3, <3>4, PlainMilder, Zenon
    <3> QED BY <1>1, <3>3, <3>5, Zenon
  <2>9. CASE /\ Limiter!Becomes(w, [c EXCEPT !.at = "admit"])
             /\ c.source # NoSource \/ c.load = "source_share"
    <3>1. c.source \in Sources
      BY <1>2, <2>9, Zenon DEF CallType
    <3> QED BY <1>9, <2>2, <2>9, <3>1, Zenon
  <2>10. CASE Limiter!Becomes(w, Limiter!Trial([c EXCEPT !.proven = "admitted"], Limiter!Reading(w).ok))
    <3>1. PICK d : d = [c EXCEPT !.proven = "admitted"]
      BY Zenon
    <3>2. PICK e : e = Limiter!Trial(d, Limiter!Reading(w).ok)
      BY Zenon
    <3>3. DOMAIN d = CallFields /\ d.source = c.source /\ d.load = c.load /\ d.proven = "admitted"
      BY <1>2, <3>1, Zenon DEF CallFields
    <3>4. Plain(d, e)
      BY <3>2, <3>3, TrialPlain, Zenon
    <3>5. Milder(c, e, clock)
      BY <1>2, <2>2, <3>3, <3>4, PlainMilder, Zenon
    <3> QED BY <1>1, <2>10, <3>1, <3>2, <3>5, Zenon
  <2> QED BY <2>3, <2>4, <2>6, <2>7, <2>8, <2>9, <2>10, Zenon
<1> QED BY <1>3, <1>4, <1>6, <1>7, <1>8, <1>10, <1>11, Zenon DEF ReadsOnly

\* A row counted, whatever then becomes of the call.
LEMMA BumpCounts ==
  ASSUME ShareInv, ShareConstants, NEW w \in Callers, NEW tb \in TableNames, call[w].at = tb,
         Limiter!BumpRow(w, tb), NEW e, Limiter!Becomes(w, e), UNCHANGED <<clock, traffic>>
  PROVE  Counting(w, tb, Limiter!RowBumped(w, tb), Limiter!RowMin(w, tb), e)
<1>1. PICK c : c = call[w]
  BY Zenon
<1>2. PICK b : b = Limiter!RowBumped(w, tb)
  BY Zenon
<1>3. /\ c.source \in Sources /\ c.row \in Rows /\ c.window \in Windows
      /\ table \in [TableNames -> Counts] /\ table[tb] \in Counts
  BY <1>1, Zenon DEF ShareInv, ShareType, CallType, TableNames
<1>4. SlotOf[c.row][c.source] \in Slots
  <2>1. \A q \in Rows : \A t \in Sources : SlotOf[q][t] \in Slots
    BY DEF ShareConstants, Rows
  <2> QED BY <1>3, <2>1, Zenon
<1>5. b = Limiter!Bumped(table[tb][c.row][SlotOf[c.row][c.source]], c.window)
  BY <1>1, <1>2, Zenon DEF Limiter!RowBumped
<1>6. /\ table' = [table EXCEPT ![tb][c.row][SlotOf[c.row][c.source]] = b]
      /\ asked' = [asked EXCEPT ![tb][c.row][c.source][b[1]] = @ + 1]
  BY <1>1, <1>2, Zenon DEF Limiter!BumpRow
<1>7. PICK U : U = [table[tb] EXCEPT ![c.row] = [table[tb][c.row] EXCEPT
                      ![SlotOf[c.row][c.source]] = b]]
  BY Zenon
<1>8. table' = [table EXCEPT ![tb] = U]
  BY <1>6, <1>7, Zenon
<1>9. table'[tb] = U
  BY <1>3, <1>8, Zenon
<1>10. U = [table[tb] EXCEPT ![c.row] = [table[tb][c.row] EXCEPT ![SlotOf[c.row][c.source]] =
             Limiter!Bumped(table[tb][c.row][SlotOf[c.row][c.source]], c.window)]]
  BY <1>5, <1>7, Zenon
<1>11. Moved(table[tb], table'[tb], c.row, c.source, c.window)
  BY <1>3, <1>4, <1>9, <1>10, Zenon DEF Moved
<1>12. Limiter!RowMin(w, tb) = IF c.row = 1 THEN b ELSE Limiter!SmallerOf(c.min, b)
  BY <1>1, <1>2, Zenon DEF Limiter!RowMin
<1>13. table' = [table EXCEPT ![tb] = table'[tb]] /\ call' = [call EXCEPT ![w] = e]
  BY <1>8, <1>9, Zenon DEF Limiter!Becomes
<1> QED BY <1>1, <1>2, <1>5, <1>6, <1>11, <1>12, <1>13, Zenon DEF Counting

\* Counting a row keeps the invariant.
LEMMA CountingKeeps ==
  ASSUME ShareInv, ShareConstants, NEW w \in Callers, NEW tb, NEW b, NEW m, NEW e,
         w \in traffic.workers,
         Counting(w, tb, b, m, e), Outcome(call[w], tb, m, e), Grants(call[w], tb, m, e)
  PROVE  ShareInv'
<1>1. ShareType'
  BY CountingType, Zenon
<1>2. OwnCounts'
  BY CountingOwn, Zenon
<1>3. Ledgers'
  BY CountingLedgers, Zenon
<1>4. Sole'
  BY CountingSole, Zenon
<1> QED BY <1>1, <1>2, <1>3, <1>4, Zenon DEF ShareInv

\* The rows that are left, and the minimum so far.
LEMMA NextRowOutcome ==
  ASSUME ShareInv, ShareConstants, NEW w \in Callers, NEW tb \in TableNames, call[w].at = tb,
         ~Limiter!LastRow(w), NEW b, NEW m, Minimum(call[w], clock, b, m), NEW e,
         e = [call[w] EXCEPT !.row = @ + 1, !.min = m]
  PROVE  Outcome(call[w], tb, m, e)
<1>1. PICK c : c = call[w]
  BY Zenon
<1>2. CallType(c, clock) /\ DOMAIN c = CallFields /\ e = [c EXCEPT !.row = @ + 1, !.min = m]
  BY <1>1, Zenon DEF ShareInv, ShareType, CallType
<1>3. /\ DOMAIN e = CallFields /\ e.source = c.source /\ e.load = c.load /\ e.proven = c.proven
      /\ e.at = c.at /\ e.row = c.row + 1 /\ e.min = m /\ e.window = c.window
  BY <1>2, Zenon DEF CallFields
<1>4. c.row \in Rows /\ c.row # Len(SlotOf)
  BY <1>1, Zenon DEF Minimum, Limiter!LastRow
<1>5. c.row + 1 \in Rows
  BY <1>4 DEF Rows, ShareConstants
<1>6. m \in Windows \X Nat /\ m[2] # 0
  BY <1>1, Zenon DEF Minimum
<1>7. CallType(e, clock)
  BY <1>1, <1>2, <1>3, <1>5, <1>6, Zenon DEF CallType
<1> QED BY <1>1, <1>3, <1>7, Zenon DEF Outcome

\* Counting a source in a row of the first table keeps the invariant.
LEMMA CountSourceStep ==
  ASSUME ShareInv, ShareConstants, NEW w \in Callers, w \in traffic.workers,
         Limiter!CountSource(w), UNCHANGED traffic
  PROVE  ShareInv'
<1>1. PICK c : c = call[w]
  BY Zenon
<1>2. PICK b, m : b = Limiter!RowBumped(w, "sources") /\ m = Limiter!RowMin(w, "sources")
  BY Zenon
<1>3. /\ c.at = "sources" /\ "sources" \in TableNames /\ Limiter!BumpRow(w, "sources")
      /\ UNCHANGED <<clock, traffic>> /\ CallType(c, clock) /\ DOMAIN c = CallFields
  BY <1>1, Zenon DEF Limiter!CountSource, TableNames, ShareInv, ShareType, CallType
<1>4. ASSUME NEW e, Limiter!Becomes(w, e)
      PROVE  Counting(w, "sources", b, m, e) /\ Minimum(c, clock, b, m)
  <2>1. Counting(w, "sources", b, m, e)
    BY <1>1, <1>2, <1>3, <1>4, BumpCounts, Zenon
  <2> QED BY <1>1, <2>1, MinimumKnown, Zenon
<1>5. CASE ~Limiter!LastRow(w)
  <2>1. PICK e : e = [c EXCEPT !.row = @ + 1, !.min = m]
    BY Zenon
  <2>2. Limiter!Becomes(w, e) /\ granted' = granted
    BY <1>1, <1>2, <1>5, <2>1, Zenon DEF Limiter!CountSource, Limiter!NextRow
  <2>3. Outcome(c, "sources", m, e)
    BY <1>1, <1>3, <1>4, <1>5, <2>1, <2>2, NextRowOutcome, Zenon
  <2>4. Grants(c, "sources", m, e)
    BY <2>2, Zenon DEF Grants
  <2> QED BY <1>1, <1>4, <2>2, <2>3, <2>4, CountingKeeps, Zenon
<1>6. CASE Limiter!LastRow(w)
  <2>1. Limiter!ShareDecides(w, m) /\ c.row = Len(SlotOf) /\ c.source \in Sources
    BY <1>1, <1>2, <1>3, <1>6, Zenon DEF Limiter!CountSource, Limiter!LastRow, CallType
  <2>2. CASE m[2] > Share
    <3>1. PICK e : e = [c EXCEPT !.at = "gate", !.load = "source_share"]
      BY Zenon
    <3>2. Limiter!Becomes(w, e) /\ granted' = granted
      BY <1>1, <2>1, <2>2, <3>1, Zenon DEF Limiter!ShareDecides, Share
    <3>3. /\ DOMAIN e = CallFields /\ e.source = c.source /\ e.load = "source_share"
          /\ e.proven = c.proven /\ e.at = "gate"
      BY <1>3, <3>1, Zenon DEF CallFields
    <3>4. e.at \notin TableNames /\ e.at \notin {"sources", "proven", "admit"}
      BY <3>3, Zenon DEF TableNames
    <3>5. CallType(e, clock)
      BY <1>3, <2>1, <3>3, <3>4, Zenon DEF CallType
    <3>6. Outcome(c, "sources", m, e)
      BY <2>1, <2>2, <3>3, <3>4, <3>5, Zenon DEF Outcome
    <3>7. Grants(c, "sources", m, e)
      BY <3>2, Zenon DEF Grants
    <3> QED BY <1>1, <1>4, <3>2, <3>6, <3>7, CountingKeeps, Zenon
  <2>3. CASE ~(m[2] > Share)
    <3>1. PICK e : e = [c EXCEPT !.at = "aggregate"]
      BY Zenon
    <3>2. Limiter!Becomes(w, e) /\ granted' = [granted EXCEPT ![c.source][m[1]] = @ + 1]
      BY <1>1, <2>1, <2>3, <3>1, Zenon DEF Limiter!ShareDecides, Share
    <3>3. /\ DOMAIN e = CallFields /\ e.source = c.source /\ e.load = c.load
          /\ e.proven = c.proven /\ e.at = "aggregate"
      BY <1>3, <3>1, Zenon DEF CallFields
    <3>4. e.at \notin TableNames /\ e.at \notin {"sources", "proven", "admit"}
      BY <3>3, Zenon DEF TableNames
    <3>5. CallType(e, clock)
      BY <1>3, <3>3, <3>4, Zenon DEF CallType
    <3>6. Outcome(c, "sources", m, e)
      BY <3>3, <3>4, <3>5, Zenon DEF Outcome
    <3>7. m[2] <= Share
      <4>1. Minimum(c, clock, b, m)
        BY <1>4, <3>2, Zenon
      <4>2. m \in Windows \X Nat /\ Share \in Nat
        BY <4>1, Zenon DEF Minimum, ShareConstants
      <4> QED BY <2>3, <4>2
    <3>8. Grants(c, "sources", m, e)
      BY <2>1, <3>2, <3>4, <3>7, Zenon DEF Grants
    <3> QED BY <1>1, <1>4, <3>2, <3>6, <3>8, CountingKeeps, Zenon
  <2> QED BY <2>2, <2>3, Zenon
<1> QED BY <1>5, <1>6, Zenon

\* Counting a proven message in a row of the second keeps the invariant.
LEMMA CountProvenStep ==
  ASSUME ShareInv, ShareConstants, NEW w \in Callers, w \in traffic.workers,
         Limiter!CountProven(w), UNCHANGED traffic
  PROVE  ShareInv'
<1>1. PICK c : c = call[w]
  BY Zenon
<1>2. PICK b, m : b = Limiter!RowBumped(w, "proven") /\ m = Limiter!RowMin(w, "proven")
  BY Zenon
<1>3. /\ c.at = "proven" /\ "proven" \in TableNames /\ Limiter!BumpRow(w, "proven")
      /\ UNCHANGED <<clock, traffic>> /\ CallType(c, clock) /\ DOMAIN c = CallFields
  BY <1>1, Zenon DEF Limiter!CountProven, TableNames, ShareInv, ShareType, CallType
<1>4. ASSUME NEW e, Limiter!Becomes(w, e)
      PROVE  Counting(w, "proven", b, m, e) /\ Minimum(c, clock, b, m)
  <2>1. Counting(w, "proven", b, m, e)
    BY <1>1, <1>2, <1>3, <1>4, BumpCounts, Zenon
  <2> QED BY <1>1, <2>1, MinimumKnown, Zenon
<1>5. CASE ~Limiter!LastRow(w)
  <2>1. PICK e : e = [c EXCEPT !.row = @ + 1, !.min = m]
    BY Zenon
  <2>2. Limiter!Becomes(w, e) /\ granted' = granted
    BY <1>1, <1>2, <1>5, <2>1, Zenon DEF Limiter!CountProven, Limiter!NextRow
  <2>3. Outcome(c, "proven", m, e)
    BY <1>1, <1>3, <1>4, <1>5, <2>1, <2>2, NextRowOutcome, Zenon
  <2>4. Grants(c, "proven", m, e)
    BY <2>2, Zenon DEF Grants
  <2> QED BY <1>1, <1>4, <2>2, <2>3, <2>4, CountingKeeps, Zenon
<1>6. CASE Limiter!LastRow(w)
  <2>1. PICK admitted : admitted = (m[2] <= Limiter!ProvenLimit)
    BY Zenon
  <2>2. /\ Limiter!ProvenDecides(w, admitted) /\ granted' = granted
        /\ c.row = Len(SlotOf) /\ c.source \in Sources
    <3>1. /\ Limiter!ProvenDecides(w, m[2] <= Limiter!ProvenLimit) /\ granted' = granted
      BY <1>2, <1>6, Zenon DEF Limiter!CountProven
    <3>2. Limiter!ProvenDecides(w, admitted)
      BY <2>1, <3>1, Zenon
    <3> QED BY <1>1, <1>3, <1>6, <3>1, <3>2, Zenon DEF Limiter!LastRow, CallType
  <2>3. PICK d, e : Limiter!Becomes(w, e) /\ Plain(d, e) /\ Decided(c, admitted, d)
    BY <1>1, <1>3, <2>2, ProvenPlain, Zenon
  <2>4. /\ DOMAIN e = CallFields /\ e.source = c.source /\ e.load = c.load
        /\ e.proven \in {"undecided", "admitted", "refused"}
        /\ e.proven = "refused" => ~admitted
        /\ e.at \in {"idle", "reading"}
    BY <2>3, Zenon DEF Plain, Decided
  <2>5. e.at \notin TableNames /\ e.at \notin {"sources", "proven", "admit"}
    BY <2>4, Zenon DEF TableNames
  <2>6. CallType(e, clock)
    BY <1>3, <2>2, <2>4, <2>5, Zenon DEF CallType
  <2>7. e.proven = "refused" => m[2] > Limiter!ProvenLimit
    <3>1. Minimum(c, clock, b, m)
      BY <1>4, <2>3, Zenon
    <3>2. m \in Windows \X Nat /\ Limiter!ProvenLimit \in Nat
      BY <3>1, Zenon DEF Minimum, ShareConstants
    <3>3. ~(m[2] <= Limiter!ProvenLimit) => m[2] > Limiter!ProvenLimit
      BY <3>2
    <3> QED BY <2>1, <2>4, <3>3, Zenon
  <2>8. Outcome(c, "proven", m, e)
    BY <2>2, <2>4, <2>5, <2>6, <2>7, Zenon DEF Outcome
  <2>9. Grants(c, "proven", m, e)
    BY <2>2, Zenon DEF Grants
  <2> QED BY <1>1, <1>4, <2>3, <2>8, <2>9, CountingKeeps, Zenon
<1> QED BY <1>5, <1>6, Zenon

-----------------------------------------------------------------------------
\* The limits are numbers.
LEMMA LargestOfTwo ==
  ASSUME NEW x \in Nat, NEW y \in Nat
  PROVE  Limiter!Max({x, y}) \in Nat /\ Limiter!Min({x, y}) \in Nat
<1>1. \E z \in {x, y} : \A u \in {x, y} : z >= u
  BY Z3
<1>2. \E z \in {x, y} : \A u \in {x, y} : z <= u
  BY Z3
<1>3. Limiter!Max({x, y}) \in {x, y}
  BY <1>1, Zenon DEF Limiter!Max
<1>4. Limiter!Min({x, y}) \in {x, y}
  BY <1>2, Zenon DEF Limiter!Min
<1> QED BY <1>3, <1>4, Zenon

\* Every step of every worker, a reset and a tick keep the invariant.
LEMMA ShareStep ==
  ASSUME ShareConstants, ShareInv, [Limiter!Next]_(Limiter!vars)
  PROVE  ShareInv'
<1>1. CASE UNCHANGED Limiter!vars
  BY <1>1, Zenon DEF Limiter!vars, ShareInv, ShareType, OwnCounts, Ledgers, Sole
<1>2. CASE Limiter!Next
  <2>1. UNCHANGED traffic /\ traffic.workers \subseteq Callers
    <3>1. traffic \in Traffics /\ \A t \in Traffics : t.workers \subseteq Callers
      BY AdmissionAssumption, Zenon DEF ShareInv, ShareType
    <3> QED BY <1>2, <3>1, Zenon DEF Limiter!Next
  <2>2. ASSUME NEW w \in traffic.workers, ReadsOnly(w) PROVE ShareInv'
    <3>1. w \in Callers
      BY <2>1, Zenon
    <3>2. PICK e : Milder(call[w], e, clock) /\ Limiter!Becomes(w, e)
      BY <2>2, <3>1, ReadsMilder, Zenon
    <3>3. UNCHANGED <<table, asked, granted, clock, traffic>>
      BY <2>1, <2>2, Zenon DEF ReadsOnly, Limiter!Arrive, Limiter!Finish, Limiter!ReadOther,
         Limiter!ReadHandshake, Limiter!CountAggregate, Limiter!Gate, Limiter!ReadWindow
    <3>4. call' = [call EXCEPT ![w] = e]
      BY <3>2, Zenon DEF Limiter!Becomes
    <3> QED BY <3>1, <3>2, <3>3, <3>4, MilderKeeps, Zenon
  <2>3. ASSUME NEW w \in traffic.workers, Limiter!CountSource(w) \/ Limiter!CountProven(w)
        PROVE  ShareInv'
    BY <2>1, <2>3, CountSourceStep, CountProvenStep, Zenon
  <2>4. CASE Limiter!ResetCount \/ Limiter!Tick
    <3>1. clock' \in Windows /\ clock <= clock'
      <4>1. clock \in Windows
        BY Zenon DEF ShareInv, ShareType
      <4>2. clock' = clock \/ (clock < MaxClock /\ clock' = clock + 1)
        BY <2>4, Zenon DEF Limiter!ResetCount, Limiter!Tick
      <4> QED BY <4>1, <4>2 DEF Windows, ShareConstants
    <3>2. UNCHANGED <<table, asked, granted, call, traffic>>
      BY <2>1, <2>4, Zenon DEF Limiter!ResetCount, Limiter!Tick
    <3> QED BY <3>1, <3>2, LaterKeeps, Zenon
  <2> QED BY <1>2, <2>2, <2>3, <2>4, Zenon DEF Limiter!Next, ReadsOnly
<1> QED BY <1>1, <1>2, Zenon

-----------------------------------------------------------------------------
(* The sending nonce. *)

\* An addition that stays below the modulus does not wrap.
LEMMA NoWrap ==
  ASSUME NEW x \in Nat, NEW m \in Nat, x < m
  PROVE  x % m = x
OBVIOUS

\* The invariant of claim_sending_nonce.
NonceInv == SendTypeOK /\ NoncesUsedOnce

\* Session::new: the counter is zero and nothing has been sealed.
LEMMA NonceInit == SendInit => NonceInv
  BY LimitsAssumption DEF LimitsAssumption, SendInit, NonceInv, SendTypeOK, NoncesUsedOnce, U64

\* Every step of every sender keeps the invariant.
LEMMA NonceStep == NonceInv /\ [SendNext]_send_vars => NonceInv'
<1> SUFFICES ASSUME NonceInv, [SendNext]_send_vars
             PROVE  NonceInv'
  BY Zenon
<1> USE LimitsAssumption DEF LimitsAssumption, NonceInv, SendTypeOK, U64
<1>1. ASSUME NEW s \in Senders, Route(s) \/ DestinationTooSmall(s)
      PROVE  NonceInv'
  BY <1>1, Zenon DEF NoncesUsedOnce, Route, DestinationTooSmall
<1>2. ASSUME NEW s \in Senders, Load(s)
      PROVE  NonceInv'
  BY <1>2, Zenon DEF NoncesUsedOnce, Load
<1>3. ASSUME NEW s \in Senders, Refuse(s)
      PROVE  NonceInv'
  BY <1>3 DEF NoncesUsedOnce, Refuse
<1>4. ASSUME NEW s \in Senders, Swap(s)
      PROVE  NonceInv'
  <2>1. /\ seen[s] < RejectAfterMessages
        /\ sending_key_counter = seen[s]
        /\ sending_key_counter' = (seen[s] + 1) % (MaxU64 + 1)
        /\ sealed' = [sealed EXCEPT ![seen[s]] = sealed[seen[s]] + 1]
        /\ seen' = [seen EXCEPT ![s] = 0]
        /\ send_pc' = [send_pc EXCEPT ![s] = "idle"]
    BY <1>4, Zenon DEF Swap
  <2>2. /\ seen[s] \in U64 /\ seen[s] + 1 \in 0..RejectAfterMessages
        /\ MaxU64 + 1 \in Nat /\ seen[s] + 1 < MaxU64 + 1
    <3>1. seen[s] \in Nat /\ seen[s] < RejectAfterMessages
      BY <2>1
    <3>2. QED
      BY <3>1
  <2>3. sending_key_counter' = seen[s] + 1
    <3>1. (seen[s] + 1) % (MaxU64 + 1) = seen[s] + 1
      BY <2>2, NoWrap
    <3>2. QED
      BY <2>1, <3>1, Zenon
  <2>4. SendTypeOK'
    <3>1. sending_key_counter' \in 0..RejectAfterMessages
      BY <2>2, <2>3, Zenon
    <3>2. send_pc' \in [Senders -> {"idle", "claim", "update"}]
      BY <2>1, Zenon
    <3>3. seen' \in [Senders -> 0..RejectAfterMessages]
      <4>1. 0 \in 0..RejectAfterMessages
        OBVIOUS
      <4>2. seen \in [Senders -> 0..RejectAfterMessages] /\ seen' = [seen EXCEPT ![s] = 0]
        BY <2>1, Zenon
      <4>3. QED
        BY <4>1, <4>2, Zenon
    <3>4. sealed' \in [U64 -> Nat]
      <4>1. sealed \in [U64 -> Nat] /\ sealed[seen[s]] + 1 \in Nat
        BY <2>2
      <4>2. sealed' = [sealed EXCEPT ![seen[s]] = sealed[seen[s]] + 1]
        BY <2>1, Zenon
      <4>3. QED
        BY <4>1, <4>2, Zenon
    <3>5. QED
      BY <3>1, <3>2, <3>3, <3>4, Zenon
  <2>5. NoncesUsedOnce'
    <3>1. sealed' = [sealed EXCEPT ![seen[s]] = sealed[seen[s]] + 1]
      BY <2>1, Zenon
    <3>2. sending_key_counter = seen[s]
      BY <2>1, Zenon
    <3>3. ASSUME NEW n \in U64
          PROVE  sealed'[n] = IF n < seen[s] + 1 THEN 1 ELSE 0
      <4>1. sealed[n] = IF n < seen[s] THEN 1 ELSE 0
        BY <3>2, Zenon DEF NoncesUsedOnce
      <4>2. CASE n = seen[s]
        BY <2>2, <3>1, <4>1, <4>2
      <4>3. CASE n # seen[s]
        BY <2>2, <3>1, <4>1, <4>3
      <4>4. QED
        BY <4>2, <4>3, Zenon
    <3>4. QED
      BY <2>3, <3>3, Zenon DEF NoncesUsedOnce
  <2>6. QED
    BY <2>4, <2>5, Zenon
<1>5. ASSUME NEW s \in Senders, Retry(s)
      PROVE  NonceInv'
  BY <1>5, Zenon DEF NoncesUsedOnce, Retry
<1>6. CASE UNCHANGED send_vars
  BY <1>6, Zenon DEF NoncesUsedOnce, send_vars
<1>7. QED
  BY <1>1, <1>2, <1>3, <1>4, <1>5, <1>6, Zenon DEF SendNext

\* No nonce of a session is sealed under twice, whatever the interleaving of
\* the senders' loads and compare-and-swaps, up to and past exhaustion.
THEOREM NonceReuseImpossible == SendSpec => [](SendTypeOK /\ NoncesUsedOnce)
<1>1. SendInit => NonceInv
  BY NonceInit, Zenon
<1>2. NonceInv /\ [SendNext]_send_vars => NonceInv'
  BY NonceStep, Zenon
<1>3. NonceInv => SendTypeOK /\ NoncesUsedOnce
  BY Zenon DEF NonceInv
<1>4. QED
  BY <1>1, <1>2, <1>3, PTL DEF SendSpec

-----------------------------------------------------------------------------
(* Division with remainder. *)

\* Euclidean division, the arithmetic of `idx % N_BITS`.
LEMMA DivMod ==
  ASSUME NEW x \in Nat, NEW n \in Nat \ {0}
  PROVE  /\ (x % n) \in 0..(n - 1)
         /\ (x \div n) \in Nat
         /\ x = n * (x \div n) + (x % n)
OBVIOUS

\* The same with the quotient and the remainder named.
LEMMA Quotient ==
  ASSUME NEW x \in Nat, NEW n \in Nat \ {0}
  PROVE  \E q \in Nat, r \in 0..(n - 1) :
           /\ x = n * q + r
           /\ r = (x % n)
           /\ q = (x \div n)
<1>1. (x \div n) \in Nat /\ (x % n) \in 0..(n - 1)
  BY DivMod, Zenon
<1> WITNESS (x \div n) \in Nat, (x % n) \in 0..(n - 1)
<1> QED BY DivMod, Zenon

\* Two counters less than N_BITS apart never share a position of the bitmap.
LEMMA ModInjective ==
  ASSUME NEW x \in Nat, NEW y \in Nat, NEW n \in Nat \ {0},
         x < y, y - x < n
  PROVE  (x % n) # (y % n)
<1> DEFINE a == x \div n
<1> DEFINE b == y \div n
<1> SUFFICES ASSUME (x % n) = (y % n)
             PROVE  FALSE
  BY Zenon
<1>1. x = n * a + (x % n) /\ y = n * b + (y % n) /\ a \in Nat /\ b \in Nat
  BY DivMod, Zenon
<1>2. y - x = n * (b - a)
  BY <1>1
<1>3. b > a
  BY <1>1, <1>2
<1>4. n * (b - a) >= n
  BY <1>1, <1>3
<1> QED BY <1>2, <1>4

\* Quotient and remainder are unique.
LEMMA DivModUnique ==
  ASSUME NEW x \in Nat, NEW n \in Nat \ {0}, NEW q \in Nat,
         NEW r \in 0..(n - 1), x = n * q + r
  PROVE  (x % n) = r /\ (x \div n) = q
<1> DEFINE a == x \div n
<1>1. x = n * a + (x % n) /\ a \in Nat /\ (x % n) \in 0..(n - 1)
  BY DivMod, Zenon
<1>2. CASE a > q
  <2>1. n * a >= n * (q + 1)
    BY <1>1, <1>2
  <2> QED BY <2>1, <1>1
<1>3. CASE a < q
  <2>1. n * q >= n * (a + 1)
    BY <1>1, <1>3
  <2> QED BY <2>1, <1>1
<1> QED BY <1>1, <1>2, <1>3

\* A multiple of n leaves no remainder.
LEMMA Multiple ==
  ASSUME NEW n \in Nat \ {0}, NEW q \in Nat, NEW x \in Nat, x = n * q
  PROVE  (x % n) = 0 /\ (x \div n) = q
<1>1. x = n * q + 0 /\ 0 \in 0..(n - 1)
  OBVIOUS
<1> QED BY <1>1, DivModUnique, Zenon

\* A multiple of a product, split off a multiple of its first factor.
LEMMA SplitProduct ==
  ASSUME NEW w \in Int, NEW n \in Int, NEW t \in Int, NEW m \in Int
  PROVE  w * m - (w * n) * t = w * (m - n * t)
OBVIOUS

-----------------------------------------------------------------------------
(* The constants and the bitmap operators. *)

\* What the sizes of the bitmap and the counter limits are numbers of.
LEMMA Sizes ==
  /\ WordSize \in Nat \ {0}
  /\ NWords \in Nat \ {0}
  /\ NBits \in Nat \ {0}
  /\ NBits = WordSize * NWords
  /\ MaxU64 \in Nat
  /\ RejectAfterMessages \in Nat
  /\ RejectAfterMessages + NBits <= MaxU64
  /\ WordSize <= NBits
<1>1. WordSize \in Nat \ {0} /\ NWords \in Nat \ {0}
  BY ReplayAssumption, Zenon
<1>2. WordSize * NWords \in Nat \ {0} /\ WordSize <= WordSize * NWords
  BY <1>1
<1> QED BY <1>1, <1>2, ReplayAssumption, Zenon DEF NBits

\* Below the limit no addition of the validator wraps.
LEMMA PlusExact ==
  ASSUME NEW a \in Nat, NEW b \in Nat, a + b <= MaxU64
  PROVE  Plus(a, b) = a + b
<1>1. a + b = (MaxU64 + 1) * 0 + (a + b) /\ a + b \in 0..((MaxU64 + 1) - 1)
  BY Sizes
<1>2. MaxU64 + 1 \in Nat \ {0} /\ a + b \in Nat
  BY Sizes
<1>3. ((a + b) % (MaxU64 + 1)) = a + b
  BY <1>1, <1>2, DivModUnique, Zenon
<1> QED BY <1>3, Zenon DEF Plus

\* Every counter has a position.
LEMMA BitIdxType ==
  ASSUME NEW c \in Nat
  PROVE  BitIdx(c) \in Positions
BY Sizes, DivMod, Zenon DEF BitIdx, Positions

\* Counters of one window have positions of their own.
LEMMA BitIdxInjective ==
  ASSUME NEW c \in Nat, NEW d \in Nat, c # d, c - d < NBits, d - c < NBits
  PROVE  BitIdx(c) # BitIdx(d)
<1>1. CASE c < d
  BY <1>1, Sizes, ModInjective, Zenon DEF BitIdx
<1>2. CASE d < c
  BY <1>2, Sizes, ModInjective, Zenon DEF BitIdx
<1> QED BY <1>1, <1>2

\* set_bit marks its counter and no other of the same window.
LEMMA SetBitEffect ==
  ASSUME NEW b \in [Positions -> {0, 1}], NEW d \in Nat
  PROVE  /\ SetBit(b, d) \in [Positions -> {0, 1}]
         /\ CheckBit(SetBit(b, d), d)
         /\ \A c \in Nat : c # d /\ c - d < NBits /\ d - c < NBits
              => (CheckBit(SetBit(b, d), c) <=> CheckBit(b, c))
BY BitIdxType, BitIdxInjective, Zenon DEF SetBit, CheckBit

\* clear_bit clears its counter and no other of the same window.
LEMMA ClearBitEffect ==
  ASSUME NEW b \in [Positions -> {0, 1}], NEW d \in Nat
  PROVE  /\ ClearBit(b, d) \in [Positions -> {0, 1}]
         /\ ~CheckBit(ClearBit(b, d), d)
         /\ \A c \in Nat : c # d /\ c - d < NBits /\ d - c < NBits
              => (CheckBit(ClearBit(b, d), c) <=> CheckBit(b, c))
BY BitIdxType, BitIdxInjective DEF ClearBit, CheckBit

\* The word that holds an aligned counter d holds exactly the positions of
\* d .. d + WORD_SIZE - 1.
LEMMA WordOfAligned ==
  ASSUME NEW d \in Nat, (d % WordSize) = 0, NEW c \in Nat
  PROVE  /\ d <= c /\ c < d + WordSize
              => (BitIdx(c) \div WordSize) = (BitIdx(d) \div WordSize)
         /\ (BitIdx(c) \div WordSize) = (BitIdx(d) \div WordSize)
              => \E k \in 0..(WordSize - 1) : BitIdx(c) = BitIdx(d + k)
<1>0. WordSize \in Nat \ {0} /\ NBits \in Nat \ {0} /\ NWords \in Nat \ {0}
      /\ NBits = WordSize * NWords
  BY Sizes, Zenon
<1>1. PICK m \in Nat : d = WordSize * m + 0
  <2>1. PICK m \in Nat, k \in 0..(WordSize - 1) : d = WordSize * m + k /\ k = (d % WordSize)
    BY <1>0, Quotient
  <2> QED BY <2>1, Zenon
<1>2. PICK t \in Nat : d = NBits * t + BitIdx(d)
  <2>1. PICK t \in Nat, k \in 0..(NBits - 1) : d = NBits * t + k /\ k = (d % NBits)
    BY <1>0, Quotient, SMTT(30)
  <2> QED BY <2>1, Zenon DEF BitIdx
<1>3. BitIdx(d) \in 0..(NBits - 1)
  BY BitIdxType, Zenon DEF Positions
<1>4. PICK q \in Int : BitIdx(d) = WordSize * q
  <2>1. WordSize * m - (WordSize * NWords) * t = WordSize * (m - NWords * t)
    BY <1>0, SplitProduct
  <2>2. m - NWords * t \in Int /\ NBits * t \in Int
    BY <1>0
  <2>3. BitIdx(d) = d - NBits * t
    <3>1. \A u, v \in Int : d = u + v => v = d - u
      OBVIOUS
    <3>2. BitIdx(d) \in Int
      BY <1>0, <1>3
    <3> QED BY <3>1, <3>2, <2>2, <1>2, Zenon
  <2> QED BY <2>1, <2>2, <2>3, <1>0, <1>1
<1>5. q \in Nat /\ q <= NWords - 1
  <2>1. q >= 0
    BY <1>0, <1>3, <1>4
  <2>2. ASSUME q >= NWords PROVE FALSE
    <3>1. WordSize * q >= WordSize * NWords
      BY <1>0, <2>2
    <3> QED BY <3>1, <1>0, <1>3, <1>4
  <2> QED BY <2>1, <2>2, <1>0
<1>6. (BitIdx(d) \div WordSize) = q
  <2>1. BitIdx(d) = WordSize * q + 0 /\ 0 \in 0..(WordSize - 1) /\ BitIdx(d) \in Nat
    BY <1>0, <1>3, <1>4
  <2> QED BY <2>1, <1>0, <1>5, DivModUnique
<1>7. ASSUME NEW k \in 0..(WordSize - 1)
      PROVE  BitIdx(d + k) = WordSize * q + k /\ (BitIdx(d + k) \div WordSize) = q
  <2>1. WordSize * q + k \in 0..(NBits - 1)
    <3>1. WordSize * q <= WordSize * (NWords - 1)
      BY <1>0, <1>5
    <3>2. WordSize * (NWords - 1) = NBits - WordSize
      BY <1>0
    <3>3. WordSize * q \in Nat
      BY <1>0, <1>5
    <3> QED BY <3>1, <3>2, <3>3, <1>0
  <2>2. d + k = NBits * t + (WordSize * q + k)
    <3>1. NBits * t \in Nat /\ WordSize * q \in Nat
      BY <1>0, <1>5
    <3> QED BY <3>1, <1>2, <1>4
  <2>3. BitIdx(d + k) = WordSize * q + k
    <3>1. d + k \in Nat
      BY <1>0
    <3> HIDE DEF BitIdx
    <3>2. ((d + k) % NBits) = WordSize * q + k
      BY <3>1, <2>1, <2>2, <1>0, DivModUnique, Zenon
    <3> QED BY <3>2, Zenon DEF BitIdx
  <2>4. (BitIdx(d + k) \div WordSize) = q
    <3>1. WordSize * q + k \in Nat
      BY <2>1, <1>0
    <3> QED BY <3>1, <2>3, <1>0, <1>5, DivModUnique
  <2> QED BY <2>3, <2>4, Zenon
<1>8. ASSUME d <= c, c < d + WordSize
      PROVE  (BitIdx(c) \div WordSize) = (BitIdx(d) \div WordSize)
  <2>1. (c - d) \in 0..(WordSize - 1) /\ d + (c - d) = c
    BY <1>0, <1>8
  <2> QED BY <2>1, <1>6, <1>7
<1>9. ASSUME (BitIdx(c) \div WordSize) = (BitIdx(d) \div WordSize)
      PROVE  \E k \in 0..(WordSize - 1) : BitIdx(c) = BitIdx(d + k)
  <2>1. BitIdx(c) \in Nat
    BY BitIdxType, <1>0 DEF Positions
  <2>2. PICK u \in Nat, k \in 0..(WordSize - 1) :
          /\ BitIdx(c) = WordSize * u + k
          /\ k = (BitIdx(c) % WordSize)
          /\ u = (BitIdx(c) \div WordSize)
    BY <2>1, <1>0, Quotient, Zenon
  <2>3. BitIdx(c) = WordSize * q + k
    BY <2>2, <1>6, <1>9, Zenon
  <2>4. BitIdx(c) = BitIdx(d + k)
    BY <2>3, <1>7, Zenon
  <2> QED BY <2>4, Zenon
<1> QED BY <1>8, <1>9, Zenon

\* clear_word clears the WORD_SIZE counters from an aligned one on and keeps
\* those behind it that are still within N_BITS of the last one cleared.
LEMMA ClearWordEffect ==
  ASSUME NEW b \in [Positions -> {0, 1}], NEW d \in Nat, (d % WordSize) = 0
  PROVE  /\ ClearWord(b, d) \in [Positions -> {0, 1}]
         /\ \A c \in Nat : ~CheckBit(b, c) => ~CheckBit(ClearWord(b, d), c)
         /\ \A c \in Nat : d <= c /\ c < d + WordSize
              => ~CheckBit(ClearWord(b, d), c)
         /\ \A c \in Nat : c < d /\ c + NBits >= d + WordSize
              => (CheckBit(ClearWord(b, d), c) <=> CheckBit(b, c))
<1>1. ClearWord(b, d) \in [Positions -> {0, 1}]
  BY Zenon DEF ClearWord
<1>2. ASSUME NEW c \in Nat
      PROVE  CheckBit(ClearWord(b, d), c)
               <=> /\ (BitIdx(c) \div WordSize) # (BitIdx(d) \div WordSize)
                   /\ CheckBit(b, c)
  <2>1. BitIdx(c) \in Positions
    BY BitIdxType, Zenon
  <2> QED BY <2>1 DEF ClearWord, CheckBit
<1>3. ASSUME NEW c \in Nat, d <= c, c < d + WordSize
      PROVE  ~CheckBit(ClearWord(b, d), c)
  BY <1>2, <1>3, WordOfAligned, Zenon
<1>4. ASSUME NEW c \in Nat, c < d, c + NBits >= d + WordSize
      PROVE  CheckBit(ClearWord(b, d), c) <=> CheckBit(b, c)
  <2>1. ASSUME NEW k \in 0..(WordSize - 1)
        PROVE  BitIdx(c) # BitIdx(d + k)
    BY <1>4, Sizes, BitIdxInjective
  <2>2. (BitIdx(c) \div WordSize) # (BitIdx(d) \div WordSize)
    BY <2>1, WordOfAligned, Zenon
  <2> QED BY <2>2, <1>2, Zenon
<1> QED BY <1>1, <1>2, <1>3, <1>4, Zenon

\* The word loop's step: from an aligned index to the next boundary.
LEMMA NextWordAligned ==
  ASSUME NEW d \in Nat, (d % WordSize) = 0, d + WordSize <= MaxU64
  PROVE  NextWord(d) = d + WordSize /\ (NextWord(d) % WordSize) = 0
<1>1. PICK m \in Nat, k \in 0..(WordSize - 1) :
        /\ d = WordSize * m + k
        /\ k = (d % WordSize)
        /\ m = (d \div WordSize)
  BY Sizes, Quotient, Zenon
<1>2. d = WordSize * m
  BY <1>1, Sizes
<1>3. d + WordSize = WordSize * (m + 1) /\ d + WordSize \in Nat /\ m + 1 \in Nat
  BY <1>2, Sizes
<1>4. ((d + WordSize) % WordSize) = 0 /\ ((d + WordSize) \div WordSize) = m + 1
  <2>1. WordSize \in Nat \ {0}
    BY Sizes, Zenon
  <2> QED BY <1>3, <2>1, Multiple, Zenon
<1>5. Plus(d, WordSize) = d + WordSize
  BY Sizes, PlusExact, Zenon
<1>6. (m + 1) * WordSize = d + WordSize
  BY <1>2, Sizes
<1> QED BY <1>4, <1>5, <1>6, Zenon DEF NextWord

-----------------------------------------------------------------------------
(* The invariant is inductive. *)

\* A fresh session satisfies the invariant.
LEMMA ReplayInit == Init => ReplayInv
BY Sizes
   DEF Init, ReplayInv, TypeOK, DeliveredOnce, OneHolder, PendingBelowLimit,
       NothingAhead, MirrorAtRest, Clearing, Loops, Empty, U64, MutexFree

\* What a mark that is not refused knows about its counter.
LEMMA NotRefused ==
  ASSUME ReplayInv, NEW r \in Receivers, pc[r] = "opened", MutexFree,
         ~MarkRefuses(counter[r])
  PROVE  /\ counter[r] \in U64
         /\ counter[r] < RejectAfterMessages
         /\ counter[r] + NBits >= next
         /\ delivered[counter[r]] = 0
<1>1. /\ counter[r] \in 0..RejectAfterMessages
      /\ counter[r] < RejectAfterMessages
      /\ next \in Nat
      /\ delivered \in [U64 -> Nat]
  BY DEF ReplayInv, TypeOK, PendingBelowLimit
<1>2. counter[r] \in U64 /\ counter[r] + NBits <= MaxU64
  BY <1>1, Sizes DEF U64
<1>3. counter[r] + NBits >= next
  BY <1>1, <1>2, Sizes, PlusExact DEF MarkRefuses
<1>4. delivered[counter[r]] = 0
  <2>1. CASE counter[r] >= next
    BY <2>1, <1>2, Zenon DEF ReplayInv, NothingAhead
  <2>2. CASE counter[r] < next
    <3>1. Mirrors(counter[r])
      BY <2>2, <1>2, <1>3, Zenon DEF ReplayInv, MirrorAtRest
    <3>2. delivered[counter[r]] # 1 /\ delivered[counter[r]] <= 1
      BY <3>1, <2>2, <1>2, Zenon DEF Mirrors, MarkRefuses, ReplayInv, DeliveredOnce
    <3> QED BY <3>2, <1>1, <1>2
  <2> QED BY <2>1, <2>2, <1>1
<1> QED BY <1>1, <1>2, <1>3, <1>4, Zenon

\* The clearing loops: what one iteration of any of them preserves, given
\* what it does to the bitmap and to the index.
LEMMA ClearingStep ==
  ASSUME ReplayInv, NEW r \in Receivers, pc[r] \in Loops,
         UNCHANGED <<next, receive_cnt, counter, delivered>>,
         pc' \in {pc, [pc EXCEPT ![r] = "words"], [pc EXCEPT ![r] = "tail"]},
         bitmap' \in [Positions -> {0, 1}],
         i' \in Nat, i < i', i' <= counter[r],
         pc'[r] = "words" => (i' % WordSize) = 0,
         \A c \in U64 : ~CheckBit(bitmap, c) => ~CheckBit(bitmap', c),
         \A c \in U64 : i <= c /\ c < i' => ~CheckBit(bitmap', c),
         \A c \in U64 : c < next /\ c + NBits > counter[r]
                          => (CheckBit(bitmap', c) <=> CheckBit(bitmap, c))
  PROVE  ReplayInv'
<1> USE DEF Loops
<1>0. /\ next \in Nat /\ i \in Nat
      /\ counter[r] \in Nat /\ counter[r] <= RejectAfterMessages
      /\ pc \in [Receivers -> {"idle", "opened"} \cup Loops]
  BY Sizes DEF ReplayInv, TypeOK
<1>1. pc'[r] \in Loops /\ \A q \in Receivers : q # r => pc'[q] = pc[q]
  BY <1>0, Zenon
<1>2. \A q \in Receivers : pc[q] \in Loops => q = r
  BY Zenon DEF ReplayInv, OneHolder
<1>3. TypeOK'
  BY <1>0, <1>1, Sizes DEF ReplayInv, TypeOK
<1>4. DeliveredOnce' /\ NothingAhead'
  BY Zenon DEF ReplayInv, DeliveredOnce, NothingAhead
<1>5. OneHolder'
  BY <1>1, <1>2, Zenon DEF OneHolder
<1>6. PendingBelowLimit'
  BY <1>1, Zenon DEF ReplayInv, PendingBelowLimit
<1>7. MirrorAtRest'
  BY <1>1, Zenon DEF MirrorAtRest, MutexFree
<1>8. Clearing(r)'
  <2>1. Clearing(r)
    BY Zenon DEF ReplayInv
  <2>2. \A c \in U64 : next <= c /\ c < i' => ~CheckBit(bitmap', c)
    <3> TAKE c \in U64
    <3>1. CASE c < i
      BY <3>1, <2>1, Zenon DEF Clearing
    <3>2. CASE i <= c
      BY <3>2, Zenon
    <3> QED BY <3>1, <3>2, <1>0, Sizes DEF U64
  <2>3. \A c \in U64 : c < next /\ c + NBits > counter[r] => Mirrors(c)'
    BY <2>1, Zenon DEF Clearing, Mirrors, CheckBit
  <2> QED BY <2>1, <2>2, <2>3, <1>0 DEF Clearing, CheckBit
<1>9. \A q \in Receivers : pc'[q] \in Loops => Clearing(q)'
  BY <1>1, <1>2, <1>8, Zenon
<1> QED BY <1>3, <1>4, <1>5, <1>6, <1>7, <1>9, Zenon DEF ReplayInv

\* The end of a mark: what delivering a counter preserves, given that the new
\* bitmap mirrors the history over the window below the new `next`.
LEMMA DeliverStep ==
  ASSUME ReplayInv, NEW r \in Receivers, Deliver(r),
         pc[r] \in Loops \/ MutexFree,
         counter[r] \in U64, counter[r] < RejectAfterMessages,
         delivered[counter[r]] = 0,
         next' \in 0..RejectAfterMessages,
         next' >= next, next' > counter[r],
         bitmap' \in [Positions -> {0, 1}],
         CheckBit(bitmap', counter[r]),
         \A c \in U64 : c # counter[r] /\ c < next' /\ c + NBits >= next'
                         => (CheckBit(bitmap', c) <=> delivered[c] = 1)
  PROVE  ReplayInv'
<1>0. /\ pc \in [Receivers -> {"idle", "opened"} \cup Loops]
      /\ counter \in [Receivers -> 0..RejectAfterMessages]
      /\ delivered \in [U64 -> Nat]
      /\ next \in Nat
      /\ receive_cnt \in Nat
  BY DEF ReplayInv, TypeOK
<1>1. /\ pc' = [pc EXCEPT ![r] = "idle"]
      /\ delivered' = [delivered EXCEPT ![counter[r]] = 1]
      /\ counter' = [counter EXCEPT ![r] = 0]
      /\ receive_cnt' = receive_cnt + 1
      /\ i' = 0
  BY DEF Deliver
<1>2. MutexFree' /\ \A q \in Receivers : pc'[q] \notin Loops
  BY <1>0, <1>1, Zenon DEF ReplayInv, OneHolder, MutexFree, Loops
<1>3. TypeOK'
  BY <1>0, <1>1, Sizes DEF TypeOK, Loops
<1>4. DeliveredOnce'
  BY <1>0, <1>1 DEF ReplayInv, DeliveredOnce
<1>5. NothingAhead'
  BY <1>0, <1>1, Sizes DEF ReplayInv, NothingAhead, U64
<1>6. PendingBelowLimit' /\ OneHolder'
  BY <1>0, <1>1, <1>2, Zenon DEF ReplayInv, PendingBelowLimit, OneHolder
<1>7. MirrorAtRest'
  BY <1>0, <1>1, Zenon DEF MirrorAtRest, Mirrors, CheckBit
<1> QED BY <1>2, <1>3, <1>4, <1>5, <1>6, <1>7, Zenon DEF ReplayInv

\* Every step of every receiver preserves the invariant.
LEMMA ReplayStep == ReplayInv /\ [Next]_vars => ReplayInv'
<1> SUFFICES ASSUME ReplayInv, [Next]_vars
             PROVE  ReplayInv'
  BY Zenon
<1>0. /\ next \in 0..RejectAfterMessages
      /\ next \in Nat
      /\ i \in Nat
      /\ i <= RejectAfterMessages
      /\ bitmap \in [Positions -> {0, 1}]
      /\ counter \in [Receivers -> 0..RejectAfterMessages]
      /\ pc \in [Receivers -> {"idle", "opened"} \cup Loops]
  BY Sizes DEF ReplayInv, TypeOK
<1>1. ASSUME NEW r \in Receivers, NEW c \in U64, QuickCheckAndOpen(r, c)
      PROVE  ReplayInv'
  <2> USE DEF QuickCheckAndOpen
  <2>1. c < RejectAfterMessages
    BY <1>1, Zenon DEF WillAccept
  <2>2. MutexFree'
    BY <1>0, <1>1, Zenon DEF MutexFree, Loops
  <2>3. TypeOK'
    BY <1>0, <1>1, <2>1, Sizes DEF ReplayInv, TypeOK, U64
  <2>4. PendingBelowLimit'
    BY <1>0, <1>1, <2>1, Zenon DEF ReplayInv, PendingBelowLimit
  <2>5. DeliveredOnce' /\ NothingAhead'
    BY <1>1, Zenon DEF ReplayInv, DeliveredOnce, NothingAhead
  <2>6. MirrorAtRest'
    BY <1>1, Zenon DEF ReplayInv, MirrorAtRest, Mirrors, CheckBit
  <2> QED BY <2>2, <2>3, <2>4, <2>5, <2>6, Zenon DEF ReplayInv, OneHolder, MutexFree
<1>2. ASSUME NEW r \in Receivers, MarkRefused(r)
      PROVE  ReplayInv'
  <2> USE DEF MarkRefused
  <2>1. MutexFree'
    BY <1>0, <1>2, Zenon DEF MutexFree, Loops
  <2>2. TypeOK'
    BY <1>0, <1>2, Sizes DEF ReplayInv, TypeOK
  <2>3. PendingBelowLimit'
    BY <1>0, <1>2, Zenon DEF ReplayInv, PendingBelowLimit
  <2>4. DeliveredOnce' /\ NothingAhead'
    BY <1>2, Zenon DEF ReplayInv, DeliveredOnce, NothingAhead
  <2>5. MirrorAtRest'
    BY <1>2, Zenon DEF ReplayInv, MirrorAtRest, Mirrors, CheckBit
  <2> QED BY <2>1, <2>2, <2>3, <2>4, <2>5, Zenon DEF ReplayInv, OneHolder, MutexFree
<1>3. ASSUME NEW r \in Receivers, MarkInOrder(r)
      PROVE  ReplayInv'
  <2> DEFINE n == counter[r]
  <2>1. n \in U64 /\ n \in Nat /\ n < RejectAfterMessages /\ delivered[n] = 0
    BY <1>0, <1>3, NotRefused, Zenon DEF MarkInOrder
  <2>2. n = next /\ next' = n + 1 /\ bitmap' = SetBit(bitmap, n)
    BY <1>0, <1>3, <2>1, PlusExact, Sizes DEF MarkInOrder
  <2>3. /\ bitmap' \in [Positions -> {0, 1}]
        /\ CheckBit(bitmap', n)
        /\ \A c \in Nat : c # n /\ c - n < NBits /\ n - c < NBits
              => (CheckBit(bitmap', c) <=> CheckBit(bitmap, c))
    BY <1>0, <2>1, <2>2, SetBitEffect, Zenon
  <2>4. ASSUME NEW c \in U64, c # n, c < next', c + NBits >= next'
        PROVE  CheckBit(bitmap', c) <=> delivered[c] = 1
    <3>1. c \in Nat /\ c < next /\ c + NBits >= next /\ c - n < NBits /\ n - c < NBits
      BY <1>0, <2>1, <2>2, <2>4, Sizes DEF U64
    <3>2. Mirrors(c)
      BY <1>3, <3>1, Zenon DEF MarkInOrder, ReplayInv, MirrorAtRest
    <3> QED BY <3>1, <3>2, <2>3, <2>4, Zenon DEF Mirrors
  <2> QED BY <1>0, <1>3, <2>1, <2>2, <2>3, <2>4, Sizes, DeliverStep, SMTT(30) DEF MarkInOrder
<1>4. ASSUME NEW r \in Receivers, MarkLate(r)
      PROVE  ReplayInv'
  <2> DEFINE n == counter[r]
  <2>1. n \in U64 /\ n \in Nat /\ n < RejectAfterMessages /\ delivered[n] = 0
        /\ n + NBits >= next
    BY <1>0, <1>4, NotRefused DEF MarkLate
  <2>2. n < next /\ next' = next /\ bitmap' = SetBit(bitmap, n)
    BY <1>4, Zenon DEF MarkLate
  <2>3. /\ bitmap' \in [Positions -> {0, 1}]
        /\ CheckBit(bitmap', n)
        /\ \A c \in Nat : c # n /\ c - n < NBits /\ n - c < NBits
              => (CheckBit(bitmap', c) <=> CheckBit(bitmap, c))
    BY <1>0, <2>1, <2>2, SetBitEffect, Zenon
  <2>4. ASSUME NEW c \in U64, c # n, c < next', c + NBits >= next'
        PROVE  CheckBit(bitmap', c) <=> delivered[c] = 1
    <3>1. c \in Nat /\ c < next /\ c + NBits >= next /\ c - n < NBits /\ n - c < NBits
      BY <1>0, <2>1, <2>2, <2>4, Sizes, SMTT(30) DEF U64
    <3>2. Mirrors(c)
      BY <1>4, <3>1, Zenon DEF MarkLate, ReplayInv, MirrorAtRest
    <3> QED BY <3>1, <3>2, <2>3, <2>4, Zenon DEF Mirrors
  <2> QED BY <1>0, <1>4, <2>1, <2>2, <2>3, <2>4, Sizes, DeliverStep, SMTT(30) DEF MarkLate
<1>5. ASSUME NEW r \in Receivers, MarkFarAhead(r)
      PROVE  ReplayInv'
  <2> DEFINE n == counter[r]
  <2>1. n \in U64 /\ n \in Nat /\ n < RejectAfterMessages /\ delivered[n] = 0
    BY <1>0, <1>5, NotRefused DEF MarkFarAhead
  <2>2. n > next /\ n - next >= NBits /\ next' = n + 1 /\ bitmap' = SetBit(Empty, n)
    <3>1. n + 1 <= MaxU64 /\ 1 \in Nat
      BY <2>1, Sizes
    <3>2. Plus(n, 1) = n + 1
      BY <2>1, <3>1, PlusExact, Zenon
    <3>3. n > next /\ n - next >= NBits /\ next' = Plus(n, 1) /\ bitmap' = SetBit(Empty, n)
      BY <1>5, Zenon DEF MarkFarAhead
    <3> QED BY <3>2, <3>3, Zenon
  <2>3. /\ bitmap' \in [Positions -> {0, 1}]
        /\ CheckBit(bitmap', n)
        /\ \A c \in Nat : c # n /\ c - n < NBits /\ n - c < NBits
              => (CheckBit(bitmap', c) <=> CheckBit(Empty, c))
    <3>1. Empty \in [Positions -> {0, 1}]
      BY Zenon DEF Empty
    <3> QED BY <3>1, <2>1, <2>2, SetBitEffect, Zenon
  <2>4. ASSUME NEW c \in U64, c # n, c < next', c + NBits >= next'
        PROVE  CheckBit(bitmap', c) <=> delivered[c] = 1
    <3>1. c \in Nat /\ c >= next /\ c - n < NBits /\ n - c < NBits
      BY <1>0, <2>1, <2>2, <2>4, Sizes, SMTT(30) DEF U64
    <3>2. ~CheckBit(Empty, c)
      BY <3>1, BitIdxType DEF CheckBit, Empty
    <3>3. delivered[c] = 0
      BY <3>1, Zenon DEF ReplayInv, NothingAhead
    <3> QED BY <3>1, <3>2, <3>3, <2>3, <2>4, SMTT(30)
  <2> QED BY <1>0, <1>5, <2>1, <2>2, <2>3, <2>4, Sizes, DeliverStep, SMTT(30) DEF MarkFarAhead
<1>6. ASSUME NEW r \in Receivers, MarkAhead(r)
      PROVE  ReplayInv'
  <2> USE DEF MarkAhead
  <2>1. counter[r] \in Nat /\ counter[r] < RejectAfterMessages
    BY <1>0, <1>6, NotRefused
  <2>2. pc'[r] = "align" /\ \A q \in Receivers : q # r => pc'[q] \notin Loops
    BY <1>0, <1>6, Zenon DEF MutexFree
  <2>3. TypeOK'
    BY <1>0, <1>6, Zenon DEF ReplayInv, TypeOK, Loops
  <2>4. DeliveredOnce' /\ NothingAhead'
    BY <1>6, Zenon DEF ReplayInv, DeliveredOnce, NothingAhead
  <2>5. OneHolder' /\ MirrorAtRest'
    BY <2>2, Zenon DEF OneHolder, MirrorAtRest, MutexFree, Loops
  <2>6. PendingBelowLimit'
    BY <1>0, <1>6, <2>1, Zenon DEF ReplayInv, PendingBelowLimit
  <2>7. Clearing(r)'
    <3>1. \A c \in U64 : c < next /\ c + NBits > counter[r] => Mirrors(c)
      BY <1>0, <1>6, <2>1, Sizes DEF ReplayInv, MirrorAtRest, U64
    <3>2. \A c \in U64 : c < next /\ c + NBits > counter[r] => Mirrors(c)'
      BY <3>1, <1>6, Zenon DEF Mirrors, CheckBit
    <3> QED BY <1>0, <1>6, <2>1, <2>2, <3>2, Sizes, SMTT(30) DEF Clearing, U64
  <2> QED BY <2>2, <2>3, <2>4, <2>5, <2>6, <2>7, Zenon DEF ReplayInv
<1>7. ASSUME NEW r \in Receivers, pc[r] \in Loops
      PROVE  /\ Clearing(r)
             /\ counter[r] \in U64
             /\ counter[r] \in Nat
             /\ counter[r] < RejectAfterMessages
             /\ Plus(i, WordSize) = i + WordSize
  <2>1. Clearing(r) /\ counter[r] \in 0..RejectAfterMessages
    BY <1>0, <1>7, Zenon DEF ReplayInv
  <2>2. counter[r] < RejectAfterMessages
    BY <1>7, Zenon DEF ReplayInv, PendingBelowLimit, Loops
  <2>3. Plus(i, WordSize) = i + WordSize
    BY <1>0, Sizes, PlusExact
  <2> QED BY <2>1, <2>2, <2>3, Sizes DEF U64
<1>8. ASSUME NEW r \in Receivers, pc[r] \in Loops, i < counter[r],
             bitmap' = ClearBit(bitmap, i), i' = i + 1,
             pc' \in {pc, [pc EXCEPT ![r] = "tail"]},
             pc'[r] # "words",
             UNCHANGED <<next, receive_cnt, counter, delivered>>
      PROVE  ReplayInv'
  <2>1. /\ Clearing(r) /\ counter[r] \in Nat /\ next <= i
        /\ counter[r] - next < NBits
    BY <1>7, <1>8, Zenon DEF Clearing
  <2>2. /\ bitmap' \in [Positions -> {0, 1}]
        /\ ~CheckBit(bitmap', i)
        /\ \A c \in Nat : c # i /\ c - i < NBits /\ i - c < NBits
              => (CheckBit(bitmap', c) <=> CheckBit(bitmap, c))
    BY <1>0, <1>8, ClearBitEffect, Zenon
  <2>3. \A c \in U64 : ~CheckBit(bitmap, c) => ~CheckBit(bitmap', c)
    <3> TAKE c \in U64
    <3>1. BitIdx(c) \in Positions
      BY BitIdxType DEF U64
    <3> QED BY <3>1, <1>0, <1>8, Zenon DEF ClearBit, CheckBit
  <2>4. \A c \in U64 : i <= c /\ c < i' => ~CheckBit(bitmap', c)
    <3> TAKE c \in U64
    <3>1. i <= c /\ c < i' => c = i
      BY <1>0, <1>8 DEF U64
    <3> QED BY <3>1, <2>2, Zenon
  <2>5. \A c \in U64 : c < next /\ c + NBits > counter[r]
                          => (CheckBit(bitmap', c) <=> CheckBit(bitmap, c))
    <3> TAKE c \in U64
    <3>1. c < next /\ c + NBits > counter[r]
            => c \in Nat /\ c # i /\ c - i < NBits /\ i - c < NBits
      BY <1>0, <1>8, <2>1, Sizes DEF U64
    <3> QED BY <3>1, <2>2, Zenon
  <2> QED BY <1>0, <1>8, <2>1, <2>2, <2>3, <2>4, <2>5, ClearingStep, SMTT(30)
<1>9. ASSUME NEW r \in Receivers, ClearToBoundary(r)
      PROVE  ReplayInv'
  BY <1>8, <1>9, Zenon DEF ClearToBoundary, AlignGuard, Loops
<1>10. ASSUME NEW r \in Receivers, ClearRemaining(r)
       PROVE  ReplayInv'
  <2>1. pc[r] \in Loops /\ pc'[r] = "tail"
    BY <1>0, <1>10, Zenon DEF ClearRemaining, Loops
  <2> QED BY <1>8, <1>10, <2>1, Zenon DEF ClearRemaining
<1>11. ASSUME NEW r \in Receivers, ClearWholeWord(r)
       PROVE  ReplayInv'
  <2>1. /\ pc[r] \in Loops
        /\ pc' = [pc EXCEPT ![r] = "words"]
        /\ bitmap' = ClearWord(bitmap, i)
        /\ UNCHANGED <<next, receive_cnt, counter, delivered>>
    BY <1>11, Zenon DEF ClearWholeWord, Loops
  <2>2. Clearing(r) /\ counter[r] \in Nat /\ next <= i /\ i + WordSize < counter[r]
        /\ counter[r] < RejectAfterMessages
    BY <1>7, <1>11, <2>1, Zenon DEF Clearing, ClearWholeWord, WordsGuard
  <2>3. (i % WordSize) = 0
    BY <1>0, <1>11, <2>2, Sizes DEF Clearing, ClearWholeWord, AlignGuard
  <2>4. i' = i + WordSize /\ (i' % WordSize) = 0
    <3>1. i + WordSize <= MaxU64
      BY <1>0, <2>2, Sizes
    <3>2. NextWord(i) = i + WordSize /\ (NextWord(i) % WordSize) = 0
      BY <3>1, <2>3, <1>0, NextWordAligned, Zenon
    <3> QED BY <3>2, <1>11, Zenon DEF ClearWholeWord
  <2>5. /\ bitmap' \in [Positions -> {0, 1}]
        /\ \A c \in Nat : ~CheckBit(bitmap, c) => ~CheckBit(bitmap', c)
        /\ \A c \in Nat : i <= c /\ c < i + WordSize => ~CheckBit(bitmap', c)
        /\ \A c \in Nat : c < i /\ c + NBits >= i + WordSize
              => (CheckBit(bitmap', c) <=> CheckBit(bitmap, c))
    BY <1>0, <2>1, <2>3, ClearWordEffect, Zenon
  <2>6. /\ \A c \in U64 : ~CheckBit(bitmap, c) => ~CheckBit(bitmap', c)
        /\ \A c \in U64 : i <= c /\ c < i' => ~CheckBit(bitmap', c)
    BY <2>4, <2>5 DEF U64
  <2>7. \A c \in U64 : c < next /\ c + NBits > counter[r]
                          => (CheckBit(bitmap', c) <=> CheckBit(bitmap, c))
    <3> TAKE c \in U64
    <3>1. c < next /\ c + NBits > counter[r]
            => c \in Nat /\ c < i /\ c + NBits >= i + WordSize
      BY <1>0, <2>2, Sizes DEF U64
    <3> QED BY <3>1, <2>5, Zenon
  <2>8. i' \in Nat /\ i < i' /\ i' <= counter[r]
    BY <1>0, <2>2, <2>4, Sizes
  <2> QED BY <1>0, <2>1, <2>4, <2>5, <2>6, <2>7, <2>8, ClearingStep, Zenon
<1>12. ASSUME NEW r \in Receivers, FinishMark(r)
       PROVE  ReplayInv'
  <2> DEFINE n == counter[r]
  <2>1. pc[r] \in Loops /\ bitmap' = SetBit(bitmap, n) /\ i >= n /\ Deliver(r)
    BY <1>12, Zenon DEF FinishMark
  <2>2. /\ n \in U64 /\ n \in Nat /\ n < RejectAfterMessages
        /\ next < n /\ n - next < NBits
        /\ Clearing(r) /\ i = n
    BY <1>0, <1>7, <2>1, SMTT(30) DEF Clearing
  <2>3. next' = n + 1
    BY <1>12, <2>2, PlusExact, Sizes DEF FinishMark
  <2>4. delivered[n] = 0
    BY <1>0, <2>2 DEF ReplayInv, NothingAhead
  <2>5. /\ bitmap' \in [Positions -> {0, 1}]
        /\ CheckBit(bitmap', n)
        /\ \A c \in Nat : c # n /\ c - n < NBits /\ n - c < NBits
              => (CheckBit(bitmap', c) <=> CheckBit(bitmap, c))
    BY <1>0, <2>1, <2>2, SetBitEffect, Zenon
  <2>6. ASSUME NEW c \in U64, c # n, c < next', c + NBits >= next'
        PROVE  CheckBit(bitmap', c) <=> delivered[c] = 1
    <3>1. c \in Nat /\ c - n < NBits /\ n - c < NBits /\ c < n /\ c + NBits > n
      BY <2>2, <2>3, <2>6, Sizes DEF U64
    <3>2. CheckBit(bitmap, c) <=> delivered[c] = 1
      <4>1. CASE c < next
        BY <4>1, <3>1, <2>2, Zenon DEF Clearing, Mirrors
      <4>2. CASE c >= next
        <5>1. delivered[c] = 0
          BY <4>2, Zenon DEF ReplayInv, NothingAhead
        <5>2. ~CheckBit(bitmap, c)
          BY <4>2, <3>1, <2>2, Zenon DEF Clearing
        <5> QED BY <5>1, <5>2
      <4> QED BY <4>1, <4>2, <3>1, <1>0
    <3> QED BY <3>1, <3>2, <2>5, <2>6, Zenon
  <2>7. next' \in 0..RejectAfterMessages /\ next' >= next /\ next' > n
    BY <1>0, <2>2, <2>3, Sizes
  <2> QED BY <2>1, <2>2, <2>4, <2>5, <2>6, <2>7, DeliverStep, Zenon
<1>13. CASE UNCHANGED vars
  BY <1>13, Zenon
     DEF vars, ReplayInv, TypeOK, DeliveredOnce, OneHolder, PendingBelowLimit,
         NothingAhead, MirrorAtRest, Clearing, Mirrors, CheckBit, MutexFree
<1> QED BY <1>1, <1>2, <1>3, <1>4, <1>5, <1>6, <1>9, <1>10, <1>11, <1>12, <1>13, Zenon
        DEF Next, Mark

\* The inductive invariant holds in every reachable state of the session's
\* receive side.
THEOREM ReplayInvariant == Spec => []ReplayInv
BY ReplayInit, ReplayStep, PTL DEF Spec

\* Type correctness: in particular `next` and the clearing index never pass
\* REJECT_AFTER_MESSAGES, so no addition of the validator ever wraps.
THEOREM TypeCorrect == Spec => []TypeOK
<1>1. ReplayInv => TypeOK
  BY Zenon DEF ReplayInv
<1> QED BY <1>1, ReplayInvariant, PTL

\* receive_packet_data lets no counter through twice, for any number of
\* concurrent receivers and any window size.
THEOREM AtMostOnce == Spec => []DeliveredOnce
<1>1. ReplayInv => DeliveredOnce
  BY Zenon DEF ReplayInv
<1> QED BY <1>1, ReplayInvariant, PTL

\* What will_accept computes from the bitmap is the definition of the window.
LEMMA InvImpliesExact == ReplayInv => WindowExact
<1> SUFFICES ASSUME ReplayInv, MutexFree, NEW c \in U64
             PROVE  WillAccept(c) <=> /\ c < RejectAfterMessages
                                      /\ delivered[c] = 0
                                      /\ c + NBits >= next
  BY Zenon DEF WindowExact
<1>0. /\ c \in Nat /\ next \in Nat /\ next <= RejectAfterMessages
      /\ delivered[c] \in Nat /\ delivered[c] <= 1
  BY Sizes DEF ReplayInv, TypeOK, DeliveredOnce, U64
<1>1. CASE c < RejectAfterMessages
  <2>1. Plus(c, NBits) = c + NBits
    BY <1>0, <1>1, PlusExact, Sizes
  <2>2. CASE c >= next
    BY <1>0, <1>1, <2>2, Sizes DEF WillAccept, ReplayInv, NothingAhead
  <2>3. CASE c < next /\ c + NBits >= next
    <3>1. Mirrors(c)
      BY <2>3, Zenon DEF ReplayInv, MirrorAtRest
    <3> QED BY <1>0, <1>1, <2>1, <2>3, <3>1 DEF WillAccept, Mirrors
  <2>4. CASE c < next /\ c + NBits < next
    BY <1>0, <1>1, <2>1, <2>4, Sizes DEF WillAccept
  <2> QED BY <2>2, <2>3, <2>4, <1>0, Sizes
<1>2. CASE c >= RejectAfterMessages
  BY <1>0, <1>2, Sizes DEF WillAccept
<1> QED BY <1>1, <1>2, <1>0, Sizes

\* Between marks the quick check accepts exactly the fresh counters of the
\* window, whatever packets were skipped, late or far ahead before.
THEOREM QuickCheckExact == Spec => []WindowExact
BY InvImpliesExact, ReplayInvariant, PTL

\* A mark lets through what AntiReplay allows and every other step of a
\* receiver leaves history and horizon alone.
LEMMA RefinementStep ==
  ReplayInv /\ [Next]_vars => [Abstract!Next]_<<delivered, next>>
<1> SUFFICES ASSUME ReplayInv, [Next]_vars
             PROVE  [Abstract!Next]_<<delivered, next>>
  BY Zenon
<1>0. /\ next \in Nat /\ next <= RejectAfterMessages
      /\ counter \in [Receivers -> 0..RejectAfterMessages]
      /\ delivered \in [U64 -> Nat]
  BY Sizes DEF ReplayInv, TypeOK
<1>1. ASSUME NEW r \in Receivers, Deliver(r),
             counter[r] \in U64, counter[r] < RejectAfterMessages,
             delivered[counter[r]] = 0, counter[r] + NBits >= next,
             next' = IF counter[r] >= next THEN counter[r] + 1 ELSE next
      PROVE  Abstract!Next
  <2>1. delivered' = [delivered EXCEPT ![counter[r]] = 1]
    BY <1>0, <1>1 DEF Deliver
  <2>2. Abstract!LetThrough(counter[r])
    BY <1>1, <2>1, Zenon DEF Abstract!LetThrough
  <2> QED BY <1>1, <2>2, Zenon DEF Abstract!Next
<1>2. ASSUME NEW r \in Receivers,
             MarkInOrder(r) \/ MarkLate(r) \/ MarkFarAhead(r)
      PROVE  Abstract!Next
  <2>1. Deliver(r) /\ pc[r] = "opened" /\ MutexFree /\ ~MarkRefuses(counter[r])
    BY <1>2, Zenon DEF MarkInOrder, MarkLate, MarkFarAhead
  <2>2. /\ counter[r] \in U64 /\ counter[r] \in Nat
        /\ counter[r] < RejectAfterMessages
        /\ counter[r] + NBits >= next /\ delivered[counter[r]] = 0
    BY <2>1, <1>0, NotRefused
  <2>3. Plus(counter[r], 1) = counter[r] + 1
    <3>1. counter[r] + 1 <= MaxU64
      BY <2>2, Sizes
    <3> QED BY <3>1, <2>2, PlusExact, Zenon
  <2>4. next' = IF counter[r] >= next THEN counter[r] + 1 ELSE next
    BY <1>0, <1>2, <2>2, <2>3, Sizes DEF MarkInOrder, MarkLate, MarkFarAhead
  <2> QED BY <1>1, <2>1, <2>2, <2>4, Zenon
<1>3. ASSUME NEW r \in Receivers, FinishMark(r)
      PROVE  Abstract!Next
  <2>1. /\ counter[r] \in U64 /\ counter[r] \in Nat
        /\ counter[r] < RejectAfterMessages /\ next < counter[r]
    BY <1>0, <1>3, Sizes, SMTT(30)
       DEF FinishMark, ReplayInv, Clearing, PendingBelowLimit, U64, Loops
  <2>2. delivered[counter[r]] = 0
    BY <1>0, <2>1 DEF ReplayInv, NothingAhead
  <2>3. next' = counter[r] + 1
    BY <1>3, <2>1, PlusExact, Sizes DEF FinishMark
  <2> QED BY <1>0, <1>1, <1>3, <2>1, <2>2, <2>3, Sizes, SMTT(30) DEF FinishMark
<1>4. ASSUME UNCHANGED <<delivered, next>>
      PROVE  [Abstract!Next]_<<delivered, next>>
  BY <1>4, Zenon
<1> QED BY <1>2, <1>3, <1>4, Zenon
        DEF Next, Mark, QuickCheckAndOpen, MarkRefused, MarkAhead, vars,
            ClearToBoundary, ClearWholeWord, ClearRemaining

\* The receive side of a session, with its concurrent checks, its mutex and
\* its word-wise clearing, implements the one-step promise of AntiReplay.
THEOREM Refinement == Spec => ImplementsAntiReplay
<1>1. Init => Abstract!Init
  BY Zenon DEF Init, Abstract!Init
<1> QED BY <1>1, RefinementStep, ReplayInvariant, PTL
        DEF Spec, ImplementsAntiReplay, Abstract!Spec

-----------------------------------------------------------------------------
(* The two ends together. *)

\* A session is its senders and its receivers, each as they are alone.
THEOREM SessionParts == SessionSpec => SendSpec /\ Spec
<1>1. SessionInit => SendInit /\ Init
  BY Zenon DEF SessionInit
<1>2. [SessionNext]_session_vars => [SendNext]_send_vars /\ [Next]_vars
  BY Zenon DEF SessionNext, session_vars, Send, Receive, Decide, Next
<1> QED BY <1>1, <1>2, PTL DEF SessionSpec, SendSpec, Spec

\* No packet is let through that was not sealed, nor more often than it was:
\* of a network that repeats and reorders, the receivers of a session make
\* each sealed packet at most once (receive_packet_data).
DeliveredWasSealed == \A c \in U64 : delivered[c] <= sealed[c]

\* What a receiver has opened was sealed.
OpenedWasSealed ==
  \A r \in Receivers : pc[r] # "idle" => sealed[counter[r]] > 0

\* What is sealed stays sealed.
LEMMA SealedStays ==
  ASSUME SendTypeOK, NoncesUsedOnce, [SendNext]_send_vars
  PROVE  \A c \in U64 : sealed[c] \in Nat /\ sealed'[c] \in Nat /\ sealed'[c] >= sealed[c]
<1>1. sealed \in [U64 -> Nat] /\ seen \in [Senders -> 0..RejectAfterMessages]
  BY Zenon DEF SendTypeOK
<1>2. CASE sealed' = sealed
  BY <1>1, <1>2
<1>3. ASSUME NEW s \in Senders, sealed' = [sealed EXCEPT ![seen[s]] = sealed[seen[s]] + 1],
             seen[s] < RejectAfterMessages
      PROVE  \A c \in U64 : sealed[c] \in Nat /\ sealed'[c] \in Nat /\ sealed'[c] >= sealed[c]
  <2>1. seen[s] \in U64
    BY <1>1, <1>3, LimitsAssumption DEF LimitsAssumption, U64
  <2> QED BY <1>1, <1>3, <2>1
<1> QED BY <1>2, <1>3, Zenon DEF SendNext, send_vars, Route, DestinationTooSmall, Load, Refuse, Swap,
            Retry

\* A delivery needs an opened packet, and an opened packet was sealed.
LEMMA DeliveredStep ==
  ASSUME SendTypeOK, NoncesUsedOnce, ReplayInv, ReplayInv', OpenedWasSealed,
         DeliveredWasSealed, [SessionNext]_session_vars
  PROVE  OpenedWasSealed' /\ DeliveredWasSealed'
<1>0. /\ delivered \in [U64 -> Nat] /\ counter \in [Receivers -> 0..RejectAfterMessages]
      /\ sealed \in [U64 -> Nat] /\ pc \in [Receivers -> {"idle", "opened"} \cup Loops]
      /\ 0..RejectAfterMessages \subseteq U64
  <2>1. 0..RejectAfterMessages \subseteq U64
    BY Sizes DEF U64
  <2> QED BY <2>1, Zenon DEF ReplayInv, TypeOK, SendTypeOK
<1>1. CASE UNCHANGED vars /\ [SendNext]_send_vars
  <2>1. \A c \in U64 : sealed[c] \in Nat /\ sealed'[c] \in Nat /\ sealed'[c] >= sealed[c]
    BY <1>1, SealedStays, Zenon
  <2> QED BY <1>0, <1>1, <2>1 DEF vars, OpenedWasSealed, DeliveredWasSealed
<1>2. ASSUME NEW r \in Receivers, NEW c \in U64, Receive(r, c)
      PROVE  OpenedWasSealed' /\ DeliveredWasSealed'
  <2>1. /\ sealed' = sealed /\ delivered' = delivered /\ sealed[c] > 0
        /\ pc' = [pc EXCEPT ![r] = "opened"] /\ counter' = [counter EXCEPT ![r] = c]
    BY <1>2, Zenon DEF Receive, QuickCheckAndOpen, send_vars
  <2>2. ASSUME NEW q \in Receivers, pc'[q] # "idle"
        PROVE  sealed[counter'[q]] > 0
    <3>1. CASE q = r
      BY <1>0, <2>1, <3>1, Zenon
    <3>2. CASE q # r
      <4>1. pc[q] # "idle" /\ counter'[q] = counter[q]
        BY <1>0, <2>1, <2>2, <3>2, Zenon
      <4> QED BY <4>1, Zenon DEF OpenedWasSealed
    <3> QED BY <3>1, <3>2, Zenon
  <2>3. DeliveredWasSealed'
    BY <2>1, Zenon DEF DeliveredWasSealed
  <2> QED BY <2>1, <2>2, <2>3, Zenon DEF OpenedWasSealed
<1>3. ASSUME NEW r \in Receivers, Decide(r)
      PROVE  OpenedWasSealed' /\ DeliveredWasSealed'
  <2>1. sealed' = sealed /\ Mark(r)
    BY <1>3, Zenon DEF Decide, send_vars
  <2>2. CASE Deliver(r) /\ pc[r] # "idle"
    <3>1. /\ delivered' = [delivered EXCEPT ![counter[r]] = delivered[counter[r]] + 1]
          /\ pc' = [pc EXCEPT ![r] = "idle"] /\ counter' = [counter EXCEPT ![r] = 0]
      BY <2>2, Zenon DEF Deliver
    <3>2. counter[r] \in U64 /\ sealed[counter[r]] > 0
      BY <1>0, <2>2, Zenon DEF OpenedWasSealed
    <3>3. \A c \in U64 : delivered'[c] <= 1
      BY Zenon DEF ReplayInv, DeliveredOnce
    <3>4. DeliveredWasSealed'
      BY <1>0, <2>1, <3>1, <3>2, <3>3 DEF DeliveredWasSealed
    <3> QED BY <1>0, <2>1, <3>1, <3>4, Zenon DEF OpenedWasSealed
  <2>3. CASE /\ delivered' = delivered
             /\ \A q \in Receivers : pc'[q] # "idle" => pc[q] # "idle" /\ counter'[q] = counter[q]
    BY <2>1, <2>3, Zenon DEF OpenedWasSealed, DeliveredWasSealed
  <2> QED BY <1>0, <2>1, <2>2, <2>3, Zenon
         DEF Mark, MarkRefused, MarkInOrder, MarkLate, MarkFarAhead, MarkAhead,
             ClearToBoundary, ClearWholeWord, ClearRemaining, FinishMark, Loops
<1> QED BY <1>1, <1>2, <1>3, Zenon DEF SessionNext, session_vars, Send, vars, send_vars

\* A session lets through only what was sealed, and each packet at most once.
THEOREM DeliveredSealed == SessionSpec => [](DeliveredWasSealed /\ DeliveredOnce)
<1>1. SessionInit => OpenedWasSealed /\ DeliveredWasSealed
  BY DEF SessionInit, SendInit, Init, OpenedWasSealed, DeliveredWasSealed
<1>2. SendTypeOK /\ NoncesUsedOnce /\ ReplayInv /\ ReplayInv' /\ OpenedWasSealed
      /\ DeliveredWasSealed /\ [SessionNext]_session_vars
      => OpenedWasSealed' /\ DeliveredWasSealed'
  BY DeliveredStep, Zenon
<1> QED BY <1>1, <1>2, SessionParts, NonceReuseImpossible, ReplayInvariant, AtMostOnce, PTL
        DEF SessionSpec

-----------------------------------------------------------------------------
(* What needs the theorems about finite sets: the number of grants, and the
   session's estimate of what was lost. *)
INSTANCE FiniteSetTheorems

\* There are no more entries than counts of a share, once per row.
LEMMA LedgerBounds ==
  ASSUME ShareConstants, NEW T, NEW P, NEW g, NEW s, NEW v, Ledger(T, P, g, s, v)
  PROVE  g <= Share * Len(SlotOf)
<1>1. PICK G, R : Books(G, R, T, P, g, s, v)
  BY Zenon DEF Ledger
<1>2. Share \in Nat /\ Len(SlotOf) \in Nat /\ Rows = 1..Len(SlotOf)
  BY DEF ShareConstants, Rows
<1>3. /\ IsFiniteSet(Rows) /\ Cardinality(Rows) = Len(SlotOf)
      /\ IsFiniteSet(1..Share) /\ Cardinality(1..Share) = Share
  <2>1. /\ IsFiniteSet(1..Len(SlotOf))
        /\ Cardinality(1..Len(SlotOf)) = IF 1 > Len(SlotOf) THEN 0 ELSE Len(SlotOf) - 1 + 1
    BY <1>2, FS_Interval, SMTT(30)
  <2>2. IsFiniteSet(1..Share) /\ Cardinality(1..Share) = IF 1 > Share THEN 0 ELSE Share - 1 + 1
    BY <1>2, FS_Interval
  <2> QED BY <1>2, <2>1, <2>2, SMTT(30)
<1>4. /\ IsFiniteSet(Rows \X (1..Share))
      /\ Cardinality(Rows \X (1..Share)) = Cardinality(Rows) * Cardinality(1..Share)
  BY <1>3, FS_Product, Zenon
<1>5. G \in SUBSET (Rows \X (1..Share)) /\ Cardinality(G) = g
  BY <1>1, Zenon DEF Books
<1>6. g <= Cardinality(Rows \X (1..Share))
  BY <1>4, <1>5, FS_Subset, Zenon
<1>7. Cardinality(Rows \X (1..Share)) = Len(SlotOf) * Share
  BY <1>3, <1>4, Zenon
<1> QED BY <1>2, <1>6, <1>7

\* A ledger opens empty.
LEMMA LedgerOpens ==
  ASSUME ShareConstants, NEW T, NEW P, \A w \in Callers : P[w] = <<>>, NEW s, NEW v
  PROVE  Ledger(T, P, 0, s, v)
<1>1. 1 \in Rows
  BY DEF ShareConstants, Rows
<1>2. [w \in Callers |-> 1] \in [Callers -> Rows]
  BY <1>1, Zenon
<1>3. \A w \in Callers : ~Holds(P, w, s, v)
  BY Zenon DEF Holds
<1>4. Books({}, [w \in Callers |-> 1], T, P, 0, s, v)
  BY <1>2, <1>3, FS_EmptySet, Zenon DEF Books
<1> QED BY <1>4, Zenon DEF Ledger

\* What is used of the constants holds.
LEMMA SharesKnown == ShareConstants
<1>1. /\ Limit \in Nat /\ SourceFloor \in Nat /\ MaxClock \in Nat /\ SourceShare \in Nat \ {0}
      /\ SlotOf \in Seq([Sources -> Slots]) /\ SlotOf # <<>> /\ NoSource \notin Sources
  BY AdmissionAssumption, Zenon
<1>2. Limit \div SourceShare \in Nat
  BY <1>1
<1>3. Limiter!Min({Limit, SourceFloor}) \in Nat
  BY <1>1, LargestOfTwo, Zenon
<1>4. Limiter!SourceLimit \in Nat
  BY <1>2, <1>3, LargestOfTwo, Zenon DEF Limiter!SourceLimit
<1>5. Limiter!ProvenLimit \in Nat
  BY <1>1, <1>4, LargestOfTwo, Zenon DEF Limiter!ProvenLimit
<1>6. Adding
  BY FS_AddElement, Zenon DEF Adding
<1> QED BY <1>1, <1>4, <1>5, <1>6, Zenon DEF ShareConstants, Share

\* RateLimiter::new: the tables are empty and nothing was asked or granted.
LEMMA SharesInit == ASSUME ShareConstants, Limiter!Init PROVE ShareInv
<1>1. /\ table = [tb \in TableNames |-> [r \in Rows |-> [s \in Slots |-> <<0, 0>>]]]
      /\ asked = [tb \in TableNames |-> [r \in Rows |-> [s \in Sources |-> [v \in Windows |-> 0]]]]
      /\ granted = [s \in Sources |-> [v \in Windows |-> 0]]
      /\ call = [w \in Callers |-> Limiter!Idle] /\ clock = 0 /\ traffic \in Traffics
  BY Zenon DEF Limiter!Init, Limiter!Tables, Limiter!Rows, Limiter!Windows, TableNames, Rows, Windows
<1>2. 0 \in Windows /\ 0 \in Nat /\ <<0, 0>> \in Windows \X Nat /\ Share \in Nat
      /\ \A n \in Nat : 0 <= n
  BY DEF ShareConstants, Windows
<1>3. /\ Limiter!Idle.at = "idle" /\ Limiter!Idle.source = NoSource
      /\ Limiter!Idle.load = "undecided" /\ Limiter!Idle.proven = "undecided"
      /\ DOMAIN Limiter!Idle = CallFields
  BY Zenon DEF Limiter!Idle, CallFields
<1>4. CallType(Limiter!Idle, clock)
  BY <1>3, Zenon DEF CallType, TableNames
<1>5. ShareType
  <2>1. table \in [TableNames -> Counts]
    BY <1>1, <1>2, Zenon DEF Counts
  <2>2. asked \in [TableNames -> [Rows -> [Sources -> [Windows -> Nat]]]]
    BY <1>1, <1>2, Zenon
  <2>3. granted \in [Sources -> [Windows -> Nat]]
    BY <1>1, <1>2, Zenon
  <2>4. call = [w \in Callers |-> call[w]] /\ \A w \in Callers : call[w] = Limiter!Idle
    BY <1>1, Zenon
  <2> QED BY <1>1, <1>2, <1>4, <2>1, <2>2, <2>3, <2>4, Zenon DEF ShareType
<1>6. \A q \in Rows : \A t \in Sources : SlotOf[q][t] \in Slots
  BY DEF ShareConstants, Rows
<1>7. OwnCounts
  <2>1. ASSUME NEW tb \in TableNames, NEW r \in Rows, NEW s \in Sources
        PROVE  OwnSlot(table, asked, tb, r, s)
    <3>1. table[tb][r][SlotOf[r][s]] = <<0, 0>>
      BY <1>1, <1>6, Zenon
    <3>2. <<0, 0>>[1] = 0 /\ <<0, 0>>[2] = 0
      OBVIOUS
    <3>3. asked[tb][r][s][0] = 0
      BY <1>1, <1>2, Zenon
    <3> QED BY <1>2, <3>1, <3>2, <3>3, Zenon DEF OwnSlot
  <2>2. ASSUME NEW w \in Callers PROVE OwnCall(call[w], asked)
    <3>1. call[w] = Limiter!Idle
      BY <1>1, Zenon
    <3> QED BY <1>3, <3>1, Zenon DEF OwnCall, TableNames
  <2> QED BY <2>1, <2>2, Zenon DEF OwnCounts
<1>8. Ledgers
  <2> SUFFICES ASSUME NEW s \in Sources, NEW v \in Windows
               PROVE  Ledger(table["sources"], Holding(call), granted[s][v], s, v)
    BY Zenon DEF Ledgers
  <2>1. \A w \in Callers : Holding(call)[w] = <<>>
    BY <1>1, <1>3, Zenon DEF Holding, Held
  <2>2. granted[s][v] = 0
    BY <1>1, Zenon
  <2> QED BY <2>1, <2>2, LedgerOpens, Zenon
<1>9. Sole
  <2> SUFFICES ASSUME NEW w \in Callers
               PROVE  SoleOf(call[w], table["sources"], granted, clock)
    BY Zenon DEF Sole
  <2>1. call[w] = Limiter!Idle
    BY <1>1, Zenon
  <2>2. SoleCall(call[w], table["sources"], granted) /\ Latest(call[w], clock) = 0
    BY <1>1, <1>3, <2>1, Zenon DEF SoleCall, Latest
  <2>3. ASSUME NEW s \in Sources, NEW r \in Rows
        PROVE  Kept(table["sources"][r][SlotOf[r][s]], granted[s], 0)
    <3>1. table["sources"][r][SlotOf[r][s]] = <<0, 0>>
      BY <1>1, <1>6, Zenon DEF TableNames
    <3>2. \A v \in Windows : granted[s][v] = 0
      BY <1>1, Zenon
    <3>3. Kept(<<0, 0>>, granted[s], 0)
      BY <1>2, <3>2 DEF Kept
    <3> QED BY <3>1, <3>3, Zenon
  <2> QED BY <2>2, <2>3, Zenon DEF SoleOf
<1> QED BY <1>5, <1>7, <1>8, <1>9, Zenon DEF ShareInv

\* From the invariant follows what the limiter owes every source.
LEMMA SharesFollow == ASSUME ShareConstants, ShareInv PROVE SharesAreFair
<1>1. ASSUME NEW s \in Sources, NEW v \in Windows
      PROVE  granted[s][v] <= Share * (IF Cardinality(traffic.workers) = 1 THEN 1 ELSE Len(SlotOf))
  <2>1. CASE Cardinality(traffic.workers) = 1
    <3>1. traffic.workers \subseteq Callers /\ IsFiniteSet(Callers)
      BY AdmissionAssumption, Zenon DEF ShareInv, ShareType
    <3>2. IsFiniteSet(traffic.workers)
      BY <3>1, FS_Subset, Zenon
    <3>3. PICK w : traffic.workers = {w}
      BY <2>1, <3>2, FS_Singleton, Zenon
    <3>4. SoleOf(call[w], table["sources"], granted, clock)
      BY <3>1, <3>3, Zenon DEF ShareInv, Sole
    <3>5. 1 \in Rows
      BY DEF ShareConstants, Rows
    <3>6. granted[s][v] <= Share
      BY <3>4, <3>5, Zenon DEF SoleOf, Kept
    <3>7. Share * 1 = Share
      BY DEF ShareConstants
    <3> QED BY <2>1, <3>6, <3>7, Zenon
  <2>2. CASE Cardinality(traffic.workers) # 1
    <3>1. Ledger(table["sources"], Holding(call), granted[s][v], s, v)
      BY Zenon DEF ShareInv, Ledgers
    <3>2. granted[s][v] <= Share * Len(SlotOf)
      BY <3>1, LedgerBounds, Zenon
    <3> QED BY <2>2, <3>2, Zenon
  <2> QED BY <2>1, <2>2, Zenon
<1>2. Limiter!ShareBounded
  <2>0. Limiter!Cardinality(traffic.workers) = Cardinality(traffic.workers)
    BY Zenon DEF Limiter!Cardinality, Cardinality
  <2>1. Limiter!Windows = Windows /\ Limiter!SourceLimit = Share
    BY Zenon DEF Limiter!Windows, Windows, Share
  <2> SUFFICES ASSUME NEW s \in Sources, NEW v \in Limiter!Windows
               PROVE  granted[s][v] <= Limiter!SourceLimit *
                        (IF Cardinality(traffic.workers) = 1 THEN 1 ELSE Len(SlotOf))
    BY <2>0, Zenon DEF Limiter!ShareBounded
  <2>2. v \in Windows
    BY <2>1, Zenon
  <2>3. granted[s][v] <= Share * (IF Cardinality(traffic.workers) = 1 THEN 1 ELSE Len(SlotOf))
    BY <1>1, <2>2, Zenon
  <2> QED BY <2>1, <2>3, Zenon
<1>3. Limiter!OnlyOwnMessagesCount
  BY Zenon DEF ShareInv, OwnCounts, OwnCall, Exceeded, Own, Share, Rows, Windows,
     Limiter!OnlyOwnMessagesCount, Limiter!Rows, Limiter!Windows
<1> QED BY <1>2, <1>3, Zenon DEF SharesAreFair, Limiter!SharesAreFair

\* A source has its share of the handshakes, no more and no less, for every
\* number of workers, sources, rows and slots: overlapping calls take no window
\* past the share once per row, a lone worker's share is exact, and a source
\* with a row of its own is held to its own messages.
THEOREM SharesFair == Limiter!Spec => []SharesAreFair
<1>1. Limiter!Init => ShareInv
  BY SharesKnown, SharesInit, Zenon
<1>2. ShareInv /\ [Limiter!Next]_(Limiter!vars) => ShareInv'
  BY SharesKnown, ShareStep, Zenon
<1>3. ShareInv => SharesAreFair
  BY SharesKnown, SharesFollow, Zenon
<1> QED BY <1>1, <1>2, <1>3, PTL DEF Limiter!Spec

\* The counters let through, and their number as receive_cnt has it.
Received == {c \in U64 : delivered[c] > 0}
Counted == IsFiniteSet(Received) /\ receive_cnt = Cardinality(Received)

\* A step that lets a counter through counts it, and no other step counts.
LEMMA CountedStep == ReplayInv /\ ReplayInv' /\ Counted /\ [Next]_vars => Counted'
<1> SUFFICES ASSUME ReplayInv, ReplayInv', Counted, [Next]_vars
             PROVE  Counted'
  BY Zenon
<1>0. delivered \in [U64 -> Nat] /\ counter \in [Receivers -> 0..RejectAfterMessages]
  BY Zenon DEF ReplayInv, TypeOK
<1>1. CASE UNCHANGED <<delivered, receive_cnt>>
  BY <1>1, Zenon DEF Counted, Received
<1>2. ASSUME NEW r \in Receivers, Deliver(r)
      PROVE  Counted'
  <2>1. PICK c \in U64 : c = counter[r]
    BY <1>0, Sizes DEF U64
  <2>2. delivered' = [delivered EXCEPT ![c] = delivered[c] + 1] /\ receive_cnt' = receive_cnt + 1
    BY <1>2, <2>1, Zenon DEF Deliver
  <2>3. delivered[c] = 0
    <3>1. delivered'[c] = delivered[c] + 1 /\ delivered[c] \in Nat
      BY <1>0, <2>2, Zenon
    <3>2. delivered'[c] <= 1
      BY Zenon DEF ReplayInv, DeliveredOnce
    <3> QED BY <3>1, <3>2
  <2>4. Received' = Received \cup {c} /\ c \notin Received
    BY <1>0, <2>2, <2>3 DEF Received
  <2> QED BY <2>2, <2>4, FS_AddElement, Zenon DEF Counted
<1> QED BY <1>1, <1>2, Zenon
       DEF Next, Mark, vars, QuickCheckAndOpen, MarkRefused, MarkInOrder, MarkLate, MarkFarAhead,
           MarkAhead, ClearToBoundary, ClearWholeWord, ClearRemaining, FinishMark

\* receive_cnt is the number of counters let through, and estimate_loss never
\* divides more of them than `next` by `next` (estimate_loss reads both).
THEOREM LossEstimate == Spec => []LossEstimateSane
<1>1. Init => Counted
  BY FS_EmptySet DEF Init, Counted, Received
<1>2. ReplayInv /\ Counted => LossEstimateSane
  <2> SUFFICES ASSUME ReplayInv, Counted PROVE LossEstimateSane
    BY Zenon
  <2>1. next \in Nat
    BY Sizes DEF ReplayInv, TypeOK
  <2>2. Received \in SUBSET (0..(next - 1))
    BY <2>1, Sizes DEF ReplayInv, NothingAhead, Received, U64
  <2>3. IsFiniteSet(0..(next - 1)) /\ Cardinality(0..(next - 1)) = next
    BY <2>1, FS_Interval
  <2>4. Cardinality(Received) <= next
    BY <2>2, <2>3, FS_Subset, Zenon
  <2> QED BY <2>4, Zenon DEF Counted, LossEstimateSane, Received
<1> QED BY <1>1, <1>2, CountedStep, ReplayInvariant, PTL DEF Spec
=============================================================================
