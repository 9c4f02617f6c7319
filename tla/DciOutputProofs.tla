-------------------------- MODULE DciOutputProofs --------------------------
(***************************************************************************)
(* Proofs about the two ends the collected DCIs have: the sink, which sends*)
(* them to remote clients (DciSink), and the logger, which writes them to  *)
(* files (DciLogger).  The two specifications share no state.              *)
(***************************************************************************)
EXTENDS DciSink, DciLogger, SequenceTheorems, IndexLemmas, TLAPS

(***************************************************************************)
(* The sink.                                                               *)
(***************************************************************************)
-----------------------------------------------------------------------------
(* Packets on the way.                                                     *)

Msgs == {Ack, Config} \cup {Dci(i, n) : i \in RfDevs, n \in Nat}
Requests == {Connect(c) : c \in Clients} \cup {Close(c) : c \in Clients}

IsDci(q, p) == q[p].type = "dci"

\* The DCIs of a cell from a position on.
From(q, i, r) == {x \in OfCell(q, i) : x >= r}

\* s is q without its element k.
Up(k, x) == IF x < k THEN x ELSE x + 1
Without(q, k, s) ==
    /\ s \in Seq(Msgs) /\ Len(s) = Len(q) - 1
    /\ \A x \in 1 .. Len(s) : s[x] = q[Up(k, x)]

(* What the fields of a packet may be.                                     *)
LEMMA MsgFields ==
  ASSUME NEW m \in Msgs
  PROVE  /\ m.type \in {"ack", "config", "dci"}
         /\ m.type = "ack" <=> m = Ack
         /\ m.type = "config" <=> m = Config
         /\ m.type = "dci" => m.cell \in RfDevs /\ m.n \in Nat /\ m = Dci(m.cell, m.n)
BY DEF Msgs, Ack, Config, Dci

(* The three kinds of packets.                                             *)
LEMMA MsgKinds ==
  /\ Ack \in Msgs /\ Ack.type = "ack" /\ Config \in Msgs /\ Config.type = "config"
  /\ \A i \in RfDevs, n \in Nat : /\ Dci(i, n) \in Msgs /\ Dci(i, n).type = "dci"
                                  /\ Dci(i, n).cell = i /\ Dci(i, n).n = n
<1>1. Ack \in Msgs /\ Config \in Msgs
  BY DEF Msgs
<1>2. Ack.type = "ack" /\ Config.type = "config"
  BY DEF Ack, Config
<1>3. ASSUME NEW i \in RfDevs, NEW n \in Nat PROVE Dci(i, n) \in Msgs
  BY DEF Msgs
<1>4. ASSUME NEW i \in RfDevs, NEW n \in Nat
      PROVE  Dci(i, n).type = "dci" /\ Dci(i, n).cell = i /\ Dci(i, n).n = n
  BY DEF Dci
<1> QED
  BY <1>1, <1>2, <1>3, <1>4

(* Taking the first packet.                                                *)
LEMMA TailWithout ==
  ASSUME NEW q \in Seq(Msgs), q # << >>
  PROVE  Without(q, 1, Tail(q))
<1>1. Tail(q) \in Seq(Msgs) /\ Len(Tail(q)) = Len(q) - 1 /\ Len(q) \in Nat
  BY HeadTailProperties, LenProperties
<1>2. \A x \in 1 .. Len(Tail(q)) : Tail(q)[x] = q[x + 1]
  BY HeadTailProperties
<1> QED
  BY <1>1, <1>2 DEF Without, Up

(* Losing one.                                                             *)
LEMMA RemoveWithout ==
  ASSUME NEW q \in Seq(Msgs), NEW k \in 1 .. Len(q)
  PROVE  Without(q, k, RemoveAt(q, k))
<1> DEFINE a == SubSeq(q, 1, k - 1)
           b == SubSeq(q, k + 1, Len(q))
<1>1. Len(q) \in Nat /\ k \in Nat /\ k >= 1 /\ k <= Len(q)
  BY LenProperties
<1>2. /\ a \in Seq(Msgs) /\ Len(a) = k - 1
      /\ \A x \in 1 .. k - 1 : a[x] = q[x]
  BY <1>1
<1>3. /\ b \in Seq(Msgs) /\ Len(b) = Len(q) - k
      /\ \A x \in 1 .. Len(q) - k : b[x] = q[x + k]
  BY <1>1
<1>4. RemoveAt(q, k) = a \o b
  BY DEF RemoveAt
<1> HIDE DEF a, b
<1>5. /\ a \o b \in Seq(Msgs) /\ Len(a \o b) = Len(q) - 1
      /\ \A x \in 1 .. Len(q) - 1 : (a \o b)[x] = IF x <= k - 1 THEN a[x] ELSE b[x - (k - 1)]
  <2>1. /\ a \o b \in Seq(Msgs) /\ Len(a \o b) = Len(a) + Len(b)
        /\ \A x \in 1 .. Len(a) + Len(b) : (a \o b)[x] = IF x <= Len(a) THEN a[x] ELSE b[x - Len(a)]
    BY <1>2, <1>3, ConcatProperties
  <2>2. Len(a) + Len(b) = Len(q) - 1
    BY <1>1, <1>2, <1>3
  <2> QED
    BY <1>2, <2>1, <2>2
<1>6. ASSUME NEW x \in 1 .. Len(q) - 1 PROVE (a \o b)[x] = q[Up(k, x)]
  <2>1. CASE x < k
    BY <1>1, <1>2, <1>5, <2>1 DEF Up
  <2>2. CASE ~(x < k)
    <3>1. x - (k - 1) \in 1 .. Len(q) - k /\ x - (k - 1) + k = x + 1
      BY <1>1, <2>2
    <3> QED
      BY <1>1, <1>3, <1>5, <2>2, <3>1 DEF Up
  <2> QED
    BY <2>1, <2>2
<1> QED
  BY <1>4, <1>5, <1>6 DEF Without

(* Either behind one more packet.                                          *)
LEMMA ConsWithout ==
  ASSUME NEW q \in Seq(Msgs), NEW k \in 1 .. Len(q), NEW s, Without(q, k, s), NEW m \in Msgs
  PROVE  Without(<<m>> \o q, k + 1, <<m>> \o s)
<1>1. /\ Len(q) \in Nat /\ k \in Nat /\ s \in Seq(Msgs) /\ Len(s) = Len(q) - 1
      /\ <<m>> \in Seq(Msgs) /\ Len(<<m>>) = 1 /\ <<m>>[1] = m
  BY LenProperties DEF Without
<1>2. /\ <<m>> \o q \in Seq(Msgs) /\ Len(<<m>> \o q) = Len(q) + 1
      /\ \A x \in 1 .. Len(q) + 1 : (<<m>> \o q)[x] = IF x = 1 THEN m ELSE q[x - 1]
  BY <1>1, ConcatProperties
<1>3. /\ <<m>> \o s \in Seq(Msgs) /\ Len(<<m>> \o s) = Len(q)
      /\ \A x \in 1 .. Len(q) : (<<m>> \o s)[x] = IF x = 1 THEN m ELSE s[x - 1]
  BY <1>1, ConcatProperties
<1>4. ASSUME NEW x \in 1 .. Len(q) PROVE (<<m>> \o s)[x] = (<<m>> \o q)[Up(k + 1, x)]
  <2>1. CASE x = 1
    BY <1>1, <1>2, <1>3, <2>1 DEF Up
  <2>2. CASE x # 1
    <3>1. x - 1 \in 1 .. Len(s) /\ s[x - 1] = q[Up(k, x - 1)]
      BY <1>1, <2>2 DEF Without
    <3>2. Up(k + 1, x) \in 1 .. Len(q) + 1 /\ Up(k + 1, x) # 1 /\ Up(k + 1, x) - 1 = Up(k, x - 1)
      BY <1>1, <2>2 DEF Up
    <3> QED
      BY <1>2, <1>3, <2>2, <3>1, <3>2
  <2> QED
    BY <2>1, <2>2
<1>5. Len(<<m>> \o s) = Len(<<m>> \o q) - 1
  BY <1>1, <1>2, <1>3
<1> QED
  BY <1>3, <1>4, <1>5 DEF Without

-----------------------------------------------------------------------------
(* Counting packets.                                                       *)

(* Positions in a queue are finitely many.                                 *)
LEMMA PositionsFinite ==
  ASSUME NEW n \in Nat, NEW A \in SUBSET (1 .. n)
  PROVE  IsFiniteSet(A) /\ Cardinality(A) \in Nat
<1>1. IsFiniteSet(1 .. n)
  BY FS_Interval
<1>2. IsFiniteSet(A)
  BY <1>1, FS_Subset
<1> QED
  BY <1>2, FS_CardinalityType

(* The positions after a removal are as many as those before, less the one *)
(* removed.                                                                *)
LEMMA CountWithout ==
  ASSUME NEW n \in Nat, NEW k \in 1 .. n, NEW A \in SUBSET (1 .. n), NEW B,
         B = {x \in 1 .. n - 1 : Up(k, x) \in A}
  PROVE  /\ IsFiniteSet(A) /\ IsFiniteSet(B) /\ Cardinality(A) \in Nat /\ Cardinality(B) \in Nat
         /\ Cardinality(B) = IF k \in A THEN Cardinality(A) - 1 ELSE Cardinality(A)
<1>1. IsFiniteSet(A) /\ Cardinality(A) \in Nat
  BY PositionsFinite
<1>2. /\ IsFiniteSet(A \ {k})
      /\ Cardinality(A \ {k}) = IF k \in A THEN Cardinality(A) - 1 ELSE Cardinality(A)
  BY <1>1, FS_RemoveElement
<1> DEFINE f == [x \in A \ {k} |-> IF x < k THEN x ELSE x - 1]
<1>3. ASSUME NEW x \in A \ {k} PROVE f[x] \in B /\ Up(k, f[x]) = x
  BY DEF Up
<1>4. ASSUME NEW x \in B PROVE Up(k, x) \in A \ {k} /\ f[Up(k, x)] = x
  BY DEF Up
<1> HIDE DEF f
<1>5. f \in [A \ {k} -> B]
  BY <1>3 DEF f
<1>6. f \in Bijection(A \ {k}, B)
  <2>1. \A x, y \in A \ {k} : f[x] = f[y] => x = y
    BY <1>3
  <2>2. \A y \in B : \E x \in A \ {k} : f[x] = y
    BY <1>4
  <2> QED
    BY <1>5, <2>1, <2>2 DEF Bijection, Injection, Surjection, IsInjective
<1>7. IsFiniteSet(B) /\ Cardinality(B) = Cardinality(A \ {k})
  BY <1>2, <1>6, FS_Bijection DEF ExistsBijection
<1> QED
  BY <1>1, <1>2, <1>7, FS_CardinalityType

(* Where the DCIs of a cell are after a removal.                           *)
LEMMA FromWithout ==
  ASSUME NEW q \in Seq(Msgs), NEW k \in 1 .. Len(q), NEW s, Without(q, k, s), NEW i
  PROVE  /\ \A r \in 1 .. Len(s) : /\ Up(k, r) \in 1 .. Len(q) /\ Up(k, r) # k
                                   /\ s[r] = q[Up(k, r)]
                                   /\ r \in OfCell(s, i) <=> Up(k, r) \in OfCell(q, i)
         /\ \A r, p \in 1 .. Len(s) : p < r <=> Up(k, p) < Up(k, r)
         /\ \A r \in 1 .. Len(s) :
                Cardinality(From(s, i, r)) = IF k \in From(q, i, Up(k, r)) THEN Cardinality(From(q, i, Up(k, r))) - 1
                                             ELSE Cardinality(From(q, i, Up(k, r)))
<1>1. Len(q) \in Nat /\ Len(s) = Len(q) - 1 /\ DOMAIN q = 1 .. Len(q) /\ s \in Seq(Msgs) /\ DOMAIN s = 1 .. Len(s)
  BY LenProperties DEF Without
<1>2. ASSUME NEW r \in 1 .. Len(s)
      PROVE  Up(k, r) \in 1 .. Len(q) /\ Up(k, r) # k /\ s[r] = q[Up(k, r)]
  BY <1>1 DEF Without, Up
<1>3. ASSUME NEW r \in 1 .. Len(s) PROVE r \in OfCell(s, i) <=> Up(k, r) \in OfCell(q, i)
  BY <1>1, <1>2 DEF OfCell
<1>4. ASSUME NEW r \in 1 .. Len(s), NEW p \in 1 .. Len(s)
      PROVE  (p < r <=> Up(k, p) < Up(k, r)) /\ (p >= r <=> Up(k, p) >= Up(k, r))
  BY <1>1 DEF Up
<1>5. ASSUME NEW r \in 1 .. Len(s), NEW p \in 1 .. Len(s)
      PROVE  p \in From(s, i, r) <=> Up(k, p) \in From(q, i, Up(k, r))
  BY <1>3, <1>4 DEF From
<1>6. ASSUME NEW r PROVE From(q, i, r) \in SUBSET (1 .. Len(q)) /\ From(s, i, r) \in SUBSET (1 .. Len(q) - 1)
  BY <1>1 DEF From, OfCell
<1>7. ASSUME NEW r \in 1 .. Len(s)
      PROVE  From(s, i, r) = {x \in 1 .. Len(q) - 1 : Up(k, x) \in From(q, i, Up(k, r))}
  BY <1>1, <1>5, <1>6
<1>9. ASSUME NEW r \in 1 .. Len(s)
      PROVE  Cardinality(From(s, i, r)) = IF k \in From(q, i, Up(k, r)) THEN Cardinality(From(q, i, Up(k, r))) - 1
                                          ELSE Cardinality(From(q, i, Up(k, r)))
  BY <1>1, <1>6, <1>7, CountWithout
<1> QED
  BY <1>2, <1>3, <1>4, <1>9

(* How many DCIs of a cell are between two packets after a removal.        *)
LEMMA BetweenWithout ==
  ASSUME NEW q \in Seq(Msgs), NEW k \in 1 .. Len(q), NEW s, Without(q, k, s), NEW i,
         NEW r \in 1 .. Len(s), NEW p \in 1 .. Len(s),
         NEW A, A = From(q, i, Up(k, r)) \ From(q, i, Up(k, p)),
         NEW B, B = From(s, i, r) \ From(s, i, p)
  PROVE  Cardinality(B) = IF k \in A THEN Cardinality(A) - 1 ELSE Cardinality(A)
<1>1. Len(q) \in Nat /\ Len(s) = Len(q) - 1 /\ DOMAIN q = 1 .. Len(q) /\ s \in Seq(Msgs) /\ DOMAIN s = 1 .. Len(s)
  BY LenProperties DEF Without
<1>2. ASSUME NEW x \in 1 .. Len(s) PROVE x \in OfCell(s, i) <=> Up(k, x) \in OfCell(q, i)
  BY FromWithout
<1>3. ASSUME NEW x \in 1 .. Len(s), NEW y \in 1 .. Len(s)
      PROVE  x >= y <=> Up(k, x) >= Up(k, y)
  BY <1>1 DEF Up
<1>4. A \in SUBSET (1 .. Len(q)) /\ B = {x \in 1 .. Len(q) - 1 : Up(k, x) \in A}
  BY <1>1, <1>2, <1>3 DEF From, OfCell
<1>5. ASSUME NEW X \in SUBSET (1 .. Len(q)), NEW Y, Y = {x \in 1 .. Len(q) - 1 : Up(k, x) \in X}
      PROVE  Cardinality(Y) = IF k \in X THEN Cardinality(X) - 1 ELSE Cardinality(X)
  BY <1>1, <1>5, CountWithout
<1> QED
  BY <1>4, <1>5

(* Counts are numbers.                                                     *)
LEMMA FromNat ==
  ASSUME NEW q \in Seq(Msgs), NEW i, NEW r, NEW p
  PROVE  /\ IsFiniteSet(From(q, i, r)) /\ Cardinality(From(q, i, r)) \in Nat
         /\ IsFiniteSet(From(q, i, r) \ From(q, i, p)) /\ Cardinality(From(q, i, r) \ From(q, i, p)) \in Nat
<1>1. /\ From(q, i, r) \in SUBSET (1 .. Len(q)) /\ From(q, i, r) \ From(q, i, p) \in SUBSET (1 .. Len(q))
      /\ Len(q) \in Nat
  BY LenProperties DEF From, OfCell
<1> QED
  BY <1>1, PositionsFinite

-----------------------------------------------------------------------------
(* The DCIs of a cell on the way to a client.                              *)

\* They are the last ones sent, in order.
Exact(q, i, nx) == \A r \in OfCell(q, i) : q[r].n = nx[i] - Cardinality(From(q, i, r))

\* With at most l of them missing; and no DCI before one of them, of any cell,
\* is further ahead of it than the cells are apart, none behind it further than
\* that and the DCIs of its cell between the two.
Kept(q, i, l, nx) ==
    \A r \in OfCell(q, i) :
        /\ q[r].n < nx[i]
        /\ nx[i] <= q[r].n + Cardinality(From(q, i, r)) + l
        /\ \A p \in 1 .. Len(q) : IsDci(q, p) =>
               /\ p < r => q[p].n < q[r].n + MaxAhead
               /\ p > r => q[p].n < q[r].n + Cardinality(From(q, i, r) \ From(q, i, p)) + l + MaxAhead

\* What is on the way was sent, and the cells are not far apart.
AllSent(q, nx) == \A p \in 1 .. Len(q) : IsDci(q, p) => q[p].n < nx[q[p].cell]
Level(nx) == nx \in [RfDevs -> Nat] /\ \A a, b \in RfDevs : nx[a] - nx[b] <= MaxAhead

(* The number of a DCI.                                                    *)
LEMMA DciAt ==
  ASSUME NEW q \in Seq(Msgs), NEW p \in 1 .. Len(q), IsDci(q, p)
  PROVE  q[p].n \in Nat /\ q[p].cell \in RfDevs /\ p \in OfCell(q, q[p].cell)
<1>1. q[p] \in Msgs /\ DOMAIN q = 1 .. Len(q)
  BY ElementOfSeq, LenProperties
<1> QED
  BY <1>1, MsgFields DEF IsDci, OfCell

(* Losing a packet, or taking one that is not of the cell, or the first.   *)
LEMMA KeptWithout ==
  ASSUME NEW q \in Seq(Msgs), NEW k \in 1 .. Len(q), NEW s, Without(q, k, s), NEW i \in RfDevs,
         NEW nx, Level(nx), NEW l \in Nat, NEW l2 \in Nat, Kept(q, i, l, nx),
         l2 = l + 1 \/ (l2 = l /\ (k \notin OfCell(q, i) \/ k = 1))
  PROVE  Kept(s, i, l2, nx)
<1>0. MaxAhead \in Nat /\ nx \in [RfDevs -> Nat]
  BY SinkAssumption DEF Level
<1>1. s \in Seq(Msgs) /\ Len(q) \in Nat /\ Len(s) = Len(q) - 1 /\ DOMAIN s = 1 .. Len(s) /\ DOMAIN q = 1 .. Len(q)
  BY LenProperties DEF Without
<1> SUFFICES ASSUME NEW r \in OfCell(s, i)
             PROVE  /\ s[r].n < nx[i]
                    /\ nx[i] <= s[r].n + Cardinality(From(s, i, r)) + l2
                    /\ \A p \in 1 .. Len(s) : IsDci(s, p) =>
                           /\ p < r => s[p].n < s[r].n + MaxAhead
                           /\ p > r => s[p].n < s[r].n + Cardinality(From(s, i, r) \ From(s, i, p)) + l2 + MaxAhead
  BY DEF Kept
<1>2. r \in 1 .. Len(s) /\ IsDci(s, r)
  BY <1>1 DEF OfCell, IsDci
<1>r. PICK R : R = Up(k, r)
  OBVIOUS
<1>3. R \in OfCell(q, i) /\ s[r] = q[R] /\ R # k /\ R \in 1 .. Len(q) /\ IsDci(q, R)
  <2>1. R \in OfCell(q, i) /\ s[r] = q[R] /\ R # k /\ R \in 1 .. Len(q)
    BY <1>r, <1>2, FromWithout
  <2> QED
    BY <1>2, <2>1 DEF IsDci
<1>4. Cardinality(From(s, i, r)) = IF k \in From(q, i, R) THEN Cardinality(From(q, i, R)) - 1
                                   ELSE Cardinality(From(q, i, R))
  BY <1>r, <1>2, FromWithout
<1>5. q[R].n \in Nat /\ Cardinality(From(q, i, R)) \in Nat /\ nx[i] \in Nat
  BY <1>0, <1>3, DciAt, FromNat
<1>6. /\ q[R].n < nx[i]
      /\ nx[i] <= q[R].n + Cardinality(From(q, i, R)) + l
      /\ \A p \in 1 .. Len(q) : IsDci(q, p) =>
             /\ p < R => q[p].n < q[R].n + MaxAhead
             /\ p > R => q[p].n < q[R].n + Cardinality(From(q, i, R) \ From(q, i, p)) + l + MaxAhead
  BY <1>3 DEF Kept
<1>7. k \in OfCell(q, i) /\ l2 = l => k < R
  BY <1>1, <1>3
<1>8. nx[i] <= s[r].n + Cardinality(From(s, i, r)) + l2
  <2>1. CASE l2 = l
    <3>1. k \notin From(q, i, R)
      BY <1>1, <1>3, <1>7, <2>1 DEF From
    <3> QED
      BY <1>3, <1>4, <1>6, <2>1, <3>1
  <2>2. CASE l2 = l + 1
    BY <1>3, <1>4, <1>5, <1>6, <2>2
  <2> QED
    BY <2>1, <2>2
<1>9. ASSUME NEW p \in 1 .. Len(s), IsDci(s, p)
      PROVE  /\ p < r => s[p].n < s[r].n + MaxAhead
             /\ p > r => s[p].n < s[r].n + Cardinality(From(s, i, r) \ From(s, i, p)) + l2 + MaxAhead
  <2>p. PICK P : P = Up(k, p)
    OBVIOUS
  <2>a. PICK A : A = From(q, i, R) \ From(q, i, P)
    OBVIOUS
  <2>b. PICK B : B = From(s, i, r) \ From(s, i, p)
    OBVIOUS
  <2>1. /\ P \in 1 .. Len(q) /\ s[p] = q[P] /\ IsDci(q, P) /\ (p < r <=> P < R) /\ (r < p <=> R < P)
        /\ Cardinality(B) = IF k \in A THEN Cardinality(A) - 1 ELSE Cardinality(A)
    <3>1. /\ P \in 1 .. Len(q) /\ s[p] = q[P] /\ (p < r <=> P < R) /\ (r < p <=> R < P)
      BY <1>r, <1>2, <2>p, FromWithout
    <3>2. Cardinality(B) = IF k \in A THEN Cardinality(A) - 1 ELSE Cardinality(A)
      BY <1>r, <1>2, <2>p, <2>a, <2>b, BetweenWithout
    <3> QED
      BY <1>9, <3>1, <3>2 DEF IsDci
  <2>2. Cardinality(A) \in Nat /\ q[P].n \in Nat
    BY <2>1, <2>a, DciAt, FromNat
  <2>3. k \in A /\ l2 = l => FALSE
    BY <1>1, <1>3, <1>7, <2>a DEF From
  <2>4. /\ P < R => q[P].n < q[R].n + MaxAhead
        /\ P > R => q[P].n < q[R].n + Cardinality(A) + l + MaxAhead
    BY <1>6, <2>1, <2>a
  <2>5. p < r => s[p].n < s[r].n + MaxAhead
    BY <1>3, <2>1, <2>4
  <2>6. ASSUME p > r PROVE s[p].n < s[r].n + Cardinality(B) + l2 + MaxAhead
    <3>1. q[P].n < q[R].n + Cardinality(A) + l + MaxAhead
      BY <1>2, <2>1, <2>4, <2>6
    <3>2. CASE l2 = l
      BY <1>3, <2>1, <2>3, <3>1, <3>2
    <3>3. CASE l2 = l + 1
      <4>1. s[p].n = q[P].n /\ s[r].n = q[R].n
        BY <1>3, <2>1
      <4>2. Cardinality(B) \in Int /\ Cardinality(B) >= Cardinality(A) - 1
        BY <2>1, <2>2
      <4>3. ASSUME NEW x \in Nat, NEW y \in Nat, NEW m \in Nat, NEW n \in Int,
                   x < y + m + l + MaxAhead, n >= m - 1
            PROVE  x < y + n + l2 + MaxAhead
        BY <1>0, <3>3, <4>3
      <4> QED
        BY <1>5, <2>2, <3>1, <4>1, <4>2, <4>3
    <3> QED
      BY <3>2, <3>3
  <2> QED
    BY <2>5, <2>6, <2>b
<1> QED
  BY <1>3, <1>6, <1>8, <1>9

(* The same for a client nothing was lost for.                             *)
LEMMA ExactWithout ==
  ASSUME NEW q \in Seq(Msgs), NEW k \in 1 .. Len(q), NEW s, Without(q, k, s), NEW i \in RfDevs,
         NEW nx, Exact(q, i, nx), k \notin OfCell(q, i) \/ k = 1
  PROVE  Exact(s, i, nx)
<1>1. s \in Seq(Msgs) /\ Len(q) \in Nat /\ Len(s) = Len(q) - 1 /\ DOMAIN s = 1 .. Len(s) /\ DOMAIN q = 1 .. Len(q)
  BY LenProperties DEF Without
<1> SUFFICES ASSUME NEW r \in OfCell(s, i)
             PROVE  s[r].n = nx[i] - Cardinality(From(s, i, r))
  BY DEF Exact
<1>2. r \in 1 .. Len(s)
  BY <1>1 DEF OfCell
<1> DEFINE R == Up(k, r)
<1>3. R \in OfCell(q, i) /\ s[r] = q[R] /\ R # k /\ R \in 1 .. Len(q)
  BY <1>2, FromWithout
<1>4. Cardinality(From(s, i, r)) = IF k \in From(q, i, R) THEN Cardinality(From(q, i, R)) - 1
                                   ELSE Cardinality(From(q, i, R))
  BY <1>2, FromWithout
<1>5. k \notin From(q, i, R)
  BY <1>1, <1>3 DEF From
<1> QED
  BY <1>3, <1>4, <1>5 DEF Exact

\* s is q with one more packet at its end.
Longer(q, m, s) ==
    /\ s \in Seq(Msgs) /\ Len(s) = Len(q) + 1
    /\ \A x \in 1 .. Len(q) : s[x] = q[x]
    /\ s[Len(q) + 1] = m

(* One more packet at the end.                                             *)
LEMMA AppendLonger ==
  ASSUME NEW q \in Seq(Msgs), NEW m \in Msgs
  PROVE  Longer(q, m, q \o <<m>>)
<1>1. Len(q) \in Nat /\ <<m>> \in Seq(Msgs) /\ Len(<<m>>) = 1 /\ <<m>>[1] = m
  BY LenProperties
<1>2. PICK s : s = q \o <<m>>
  OBVIOUS
<1>3. /\ s \in Seq(Msgs) /\ Len(s) = Len(q) + 1
      /\ \A x \in 1 .. Len(q) + 1 : s[x] = IF x <= Len(q) THEN q[x] ELSE <<m>>[x - Len(q)]
  BY <1>1, <1>2, ConcatProperties
<1>4. s[Len(q) + 1] = <<m>>[1]
  <2>1. Len(q) + 1 \in 1 .. Len(q) + 1 /\ ~(Len(q) + 1 <= Len(q)) /\ Len(q) + 1 - Len(q) = 1
    BY <1>1
  <2> QED
    BY <1>3, <2>1
<1>5. \A x \in 1 .. Len(q) : s[x] = q[x]
  BY <1>1, <1>3
<1>6. Longer(q, m, s)
  BY <1>1, <1>3, <1>4, <1>5 DEF Longer
<1> QED
  BY <1>2, <1>6

(* What it is made of.                                                     *)
LEMMA LongerAt ==
  ASSUME NEW q \in Seq(Msgs), NEW m \in Msgs, NEW s, Longer(q, m, s)
  PROVE  /\ s \in Seq(Msgs) /\ Len(q) \in Nat /\ Len(s) = Len(q) + 1
         /\ DOMAIN q = 1 .. Len(q) /\ DOMAIN s = 1 .. Len(q) + 1
         /\ \A x \in 1 .. Len(q) : s[x] = q[x]
         /\ s[Len(q) + 1] = m
BY LenProperties DEF Longer

\* What that makes of the DCIs of a cell; more tells whether it is one.
Grown(q, s, i, last, more) ==
    /\ \A r \in 1 .. Len(q) : r \in OfCell(s, i) <=> r \in OfCell(q, i)
    /\ OfCell(s, i) \subseteq 1 .. last
    /\ last \in OfCell(s, i) <=> more = 1
    /\ \A r \in 1 .. Len(q) :
           /\ Cardinality(From(s, i, r)) = Cardinality(From(q, i, r)) + more
           /\ \A p \in 1 .. Len(q) : From(s, i, r) \ From(s, i, p) = From(q, i, r) \ From(q, i, p)
           /\ From(s, i, r) \ From(s, i, last) = From(q, i, r)
    /\ more = 1 => Cardinality(From(s, i, last)) = 1

(* It changes the DCIs of a cell only if it is one.                        *)
LEMMA FromAppend ==
  ASSUME NEW q \in Seq(Msgs), NEW m \in Msgs, NEW s, Longer(q, m, s), NEW i,
         NEW last, last = Len(q) + 1,
         NEW more \in 0 .. 1, more = 1 <=> m.type = "dci" /\ m.cell = i
  PROVE  Grown(q, s, i, last, more)
<1> DEFINE mine == more = 1
<1>1. /\ s \in Seq(Msgs) /\ Len(q) \in Nat /\ Len(s) = Len(q) + 1
      /\ DOMAIN q = 1 .. Len(q) /\ DOMAIN s = 1 .. Len(q) + 1
      /\ \A x \in 1 .. Len(q) : s[x] = q[x]
      /\ s[Len(q) + 1] = m
  BY LongerAt
<1>2. \A r \in 1 .. Len(q) : r \in OfCell(s, i) <=> r \in OfCell(q, i)
  BY <1>1 DEF OfCell
<1>3. OfCell(s, i) \subseteq 1 .. last /\ OfCell(q, i) \subseteq 1 .. Len(q)
  BY <1>1 DEF OfCell
<1>4. last \in OfCell(s, i) <=> mine
  BY <1>1 DEF OfCell
<1> HIDE DEF mine
<1>5. \A r \in 1 .. Len(q) : last \notin From(q, i, r) /\ From(q, i, r) \in SUBSET (1 .. Len(q))
  BY <1>1, <1>3 DEF From
<1>6. ASSUME NEW r \in 1 .. Len(q)
      PROVE  From(s, i, r) = IF mine THEN From(q, i, r) \cup {last} ELSE From(q, i, r)
  BY <1>1, <1>2, <1>3, <1>4 DEF From
<1>7. From(s, i, last) = IF mine THEN {last} ELSE {}
  BY <1>1, <1>3, <1>4 DEF From
<1>8. ASSUME NEW r \in 1 .. Len(q)
      PROVE  Cardinality(From(s, i, r)) = Cardinality(From(q, i, r)) + more
  <2>1. IsFiniteSet(From(q, i, r)) /\ Cardinality(From(q, i, r)) \in Nat
    BY FromNat
  <2>2. CASE mine
    BY <1>5, <1>6, <2>1, <2>2, FS_AddElement DEF mine
  <2>3. CASE ~mine
    BY <1>6, <2>1, <2>3 DEF mine
  <2> QED
    BY <2>2, <2>3
<1>9. ASSUME NEW r \in 1 .. Len(q), NEW p \in 1 .. Len(q)
      PROVE  From(s, i, r) \ From(s, i, p) = From(q, i, r) \ From(q, i, p)
  BY <1>5, <1>6
<1>10. ASSUME NEW r \in 1 .. Len(q) PROVE From(s, i, r) \ From(s, i, last) = From(q, i, r)
  BY <1>5, <1>6, <1>7
<1>11. mine => Cardinality(From(s, i, last)) = 1
  BY <1>7, FS_Singleton
<1> QED
  BY <1>2, <1>3, <1>4, <1>8, <1>9, <1>10, <1>11 DEF mine, Grown

(* An answer or a configuration changes nothing.                           *)
LEMMA KeptAppend ==
  ASSUME NEW q \in Seq(Msgs), NEW m \in Msgs, m.type # "dci", NEW s, Longer(q, m, s),
         NEW i, NEW l, NEW nx
  PROVE  /\ Kept(q, i, l, nx) => Kept(s, i, l, nx)
         /\ Exact(q, i, nx) => Exact(s, i, nx)
         /\ AllSent(q, nx) => AllSent(s, nx)
<1>1. PICK last : last = Len(q) + 1
  OBVIOUS
<1>2. /\ s \in Seq(Msgs) /\ Len(q) \in Nat /\ Len(s) = last
      /\ DOMAIN q = 1 .. Len(q) /\ DOMAIN s = 1 .. last
      /\ \A x \in 1 .. Len(q) : s[x] = q[x]
      /\ s[last] = m
  BY <1>1, LongerAt
<1>3. ~IsDci(s, last) /\ \A x \in 1 .. Len(q) : IsDci(s, x) <=> IsDci(q, x)
  BY <1>2 DEF IsDci
<1>4. OfCell(s, i) = OfCell(q, i) /\ OfCell(q, i) \subseteq 1 .. Len(q)
  BY <1>1, <1>2 DEF OfCell
<1>5. ASSUME NEW r PROVE From(s, i, r) = From(q, i, r)
  BY <1>4 DEF From
<1>6. ASSUME NEW r \in OfCell(q, i) PROVE r \in 1 .. Len(q) /\ s[r] = q[r]
  BY <1>2, <1>4
<1>7. ASSUME Kept(q, i, l, nx) PROVE Kept(s, i, l, nx)
  <2> SUFFICES ASSUME NEW r \in OfCell(q, i)
               PROVE  /\ s[r].n < nx[i]
                      /\ nx[i] <= s[r].n + Cardinality(From(s, i, r)) + l
                      /\ \A p \in 1 .. Len(s) : IsDci(s, p) =>
                             /\ p < r => s[p].n < s[r].n + MaxAhead
                             /\ p > r => s[p].n < s[r].n + Cardinality(From(s, i, r) \ From(s, i, p)) + l + MaxAhead
    BY <1>4 DEF Kept
  <2>1. \A p \in 1 .. Len(s) : IsDci(s, p) => p \in 1 .. Len(q) /\ IsDci(q, p) /\ s[p] = q[p]
    BY <1>1, <1>2, <1>3
  <2> QED
    BY <1>5, <1>6, <1>7, <2>1 DEF Kept
<1>8. ASSUME Exact(q, i, nx) PROVE Exact(s, i, nx)
  BY <1>4, <1>5, <1>6, <1>8 DEF Exact
<1>9. ASSUME AllSent(q, nx) PROVE AllSent(s, nx)
  BY <1>1, <1>2, <1>3, <1>9 DEF AllSent
<1> QED
  BY <1>7, <1>8, <1>9

OneMore(nx, j, nx2) ==
    /\ nx2 \in [RfDevs -> Nat] /\ nx2[j] = nx[j] + 1
    /\ \A i \in RfDevs \ {j} : nx2[i] = nx[i]

(* A DCI is sent: the next of its cell, by a cell that is not too far      *)
(* ahead.                                                                  *)
LEMMA KeptSend ==
  ASSUME NEW q \in Seq(Msgs), NEW j \in RfDevs, NEW nx, Level(nx), AllSent(q, nx),
         \A a \in RfDevs : nx[j] - nx[a] < MaxAhead,
         NEW s, Longer(q, Dci(j, nx[j]), s), NEW i \in RfDevs, NEW l \in Nat,
         NEW nx2, OneMore(nx, j, nx2)
  PROVE  /\ Kept(q, i, l, nx) => Kept(s, i, l, nx2)
         /\ Exact(q, i, nx) => Exact(s, i, nx2)
         /\ AllSent(s, nx2)
<1>0. MaxAhead \in Nat /\ nx \in [RfDevs -> Nat] /\ nx[i] \in Nat /\ nx[j] \in Nat /\ nx[j] - nx[i] < MaxAhead
  BY SinkAssumption DEF Level
<1>1. PICK m : m = Dci(j, nx[j])
  OBVIOUS
<1>2. m \in Msgs /\ m.type = "dci" /\ m.cell = j /\ m.n = nx[j] /\ Longer(q, m, s)
  BY <1>0, <1>1, MsgKinds
<1>3. PICK last : last = Len(q) + 1
  OBVIOUS
<1>4. /\ s \in Seq(Msgs) /\ Len(q) \in Nat /\ Len(s) = last
      /\ DOMAIN q = 1 .. Len(q) /\ DOMAIN s = 1 .. last
      /\ \A x \in 1 .. Len(q) : s[x] = q[x]
      /\ s[last] = m
  BY <1>2, <1>3, LongerAt
<1>k. PICK more \in 0 .. 1 : more = 1 <=> i = j
  OBVIOUS
<1>l. more = 1 <=> m.type = "dci" /\ m.cell = i
  BY <1>2, <1>k
<1>5. /\ \A r \in 1 .. Len(q) : r \in OfCell(s, i) <=> r \in OfCell(q, i)
      /\ OfCell(s, i) \subseteq 1 .. last
      /\ last \in OfCell(s, i) <=> more = 1
      /\ \A r \in 1 .. Len(q) :
             /\ Cardinality(From(s, i, r)) = Cardinality(From(q, i, r)) + more
             /\ \A p \in 1 .. Len(q) : From(s, i, r) \ From(s, i, p) = From(q, i, r) \ From(q, i, p)
             /\ From(s, i, r) \ From(s, i, last) = From(q, i, r)
      /\ more = 1 => Cardinality(From(s, i, last)) = 1
  <2>1. Grown(q, s, i, last, more)
    BY <1>2, <1>3, <1>l, FromAppend
  <2> QED
    BY <2>1 DEF Grown
<1>6. /\ nx2[i] = nx[i] + more /\ nx2 \in [RfDevs -> Nat] /\ nx2[i] \in Nat
      /\ \A a \in RfDevs : nx[a] <= nx2[a]
  BY <1>0, <1>k DEF OneMore
<1>7. \A p \in 1 .. last : IsDci(s, p) => (p = last \/ (p \in 1 .. Len(q) /\ IsDci(q, p) /\ s[p] = q[p]))
  BY <1>3, <1>4 DEF IsDci
<1>8. ASSUME Kept(q, i, l, nx) PROVE Kept(s, i, l, nx2)
  <2> SUFFICES ASSUME NEW r \in OfCell(s, i)
               PROVE  /\ s[r].n < nx2[i]
                      /\ nx2[i] <= s[r].n + Cardinality(From(s, i, r)) + l
                      /\ \A p \in 1 .. Len(s) : IsDci(s, p) =>
                             /\ p < r => s[p].n < s[r].n + MaxAhead
                             /\ p > r => s[p].n < s[r].n + Cardinality(From(s, i, r) \ From(s, i, p)) + l + MaxAhead
    BY DEF Kept
  <2>1. CASE r = last
    <3>1. more = 1 /\ s[r].n = nx[i] /\ Cardinality(From(s, i, r)) = 1
      <4>1. more = 1 /\ i = j
        BY <1>5, <1>k, <2>1
      <4> QED
        BY <1>2, <1>4, <1>5, <2>1, <4>1
    <3>2. ASSUME NEW p \in 1 .. Len(s), IsDci(s, p), p < r PROVE s[p].n < s[r].n + MaxAhead
      <4>1. p \in 1 .. Len(q) /\ IsDci(q, p) /\ s[p] = q[p]
        BY <1>3, <1>4, <1>7, <2>1, <3>2
      <4>2. q[p].n \in Nat /\ q[p].cell \in RfDevs /\ q[p].n < nx[q[p].cell]
        BY <4>1, DciAt DEF AllSent
      <4>3. nx[q[p].cell] \in Nat /\ nx[q[p].cell] - nx[i] <= MaxAhead
        BY <4>2 DEF Level
      <4> QED
        BY <1>0, <3>1, <4>1, <4>2, <4>3
    <3>3. \A p \in 1 .. Len(s) : ~(p > r)
      BY <1>4, <1>3, <2>1
    <3> QED
      BY <1>0, <1>6, <3>1, <3>2, <3>3
  <2>2. CASE r # last
    <3>1. r \in 1 .. Len(q) /\ r \in OfCell(q, i) /\ s[r] = q[r] /\ IsDci(q, r)
      <4>1. r \in 1 .. Len(q)
        BY <1>3, <1>4, <1>5, <2>2
      <4> QED
        BY <4>1, <1>4, <1>5 DEF OfCell, IsDci
    <3>2. q[r].n \in Nat /\ Cardinality(From(q, i, r)) \in Nat
      BY <3>1, DciAt, FromNat
    <3>3. /\ q[r].n < nx[i]
          /\ nx[i] <= q[r].n + Cardinality(From(q, i, r)) + l
          /\ \A p \in 1 .. Len(q) : IsDci(q, p) =>
                 /\ p < r => q[p].n < q[r].n + MaxAhead
                 /\ p > r => q[p].n < q[r].n + Cardinality(From(q, i, r) \ From(q, i, p)) + l + MaxAhead
      BY <1>8, <3>1 DEF Kept
    <3>4. s[r].n < nx2[i] /\ nx2[i] <= s[r].n + Cardinality(From(s, i, r)) + l
      <4>1. Cardinality(From(s, i, r)) = Cardinality(From(q, i, r)) + more
        BY <1>5, <3>1
      <4>2. more \in Nat /\ nx2[i] = nx[i] + more /\ s[r].n = q[r].n
        BY <1>6, <3>1
      <4>3. ASSUME NEW x \in Nat, NEW y \in Nat, NEW n \in Nat,
                   x < y, y <= x + n + l
            PROVE  x < y + more /\ y + more <= x + (n + more) + l
        BY <4>2, <4>3
      <4> QED
        BY <1>0, <3>2, <3>3, <4>1, <4>2, <4>3
    <3>5. ASSUME NEW p \in 1 .. Len(s), IsDci(s, p)
          PROVE  /\ p < r => s[p].n < s[r].n + MaxAhead
                 /\ p > r => s[p].n < s[r].n + Cardinality(From(s, i, r) \ From(s, i, p)) + l + MaxAhead
      <4>1. CASE p = last
        <5>1. s[p].n = nx[j] /\ From(s, i, r) \ From(s, i, p) = From(q, i, r) /\ ~(p < r)
          BY <1>2, <1>3, <1>4, <1>5, <3>1, <4>1
        <5>2. nx[j] < q[r].n + Cardinality(From(q, i, r)) + l + MaxAhead
          <6>1. PICK x \in Nat, y \in Nat, a \in Nat, b \in Nat :
                    x = q[r].n /\ y = Cardinality(From(q, i, r)) /\ a = nx[i] /\ b = nx[j]
            BY <1>0, <3>2
          <6>2. a <= x + y + l /\ b - a < MaxAhead
            BY <1>0, <3>3, <6>1
          <6>3. b < x + y + l + MaxAhead
            BY <1>0, <6>2
          <6> QED
            BY <6>1, <6>3
        <5> QED
          BY <3>1, <5>1, <5>2
      <4>2. CASE p # last
        <5>1. p \in 1 .. Len(q) /\ IsDci(q, p) /\ s[p] = q[p]
          BY <1>4, <1>7, <3>5, <4>2
        <5>2. From(s, i, r) \ From(s, i, p) = From(q, i, r) \ From(q, i, p)
          BY <1>5, <3>1, <5>1
        <5> QED
          BY <3>1, <3>3, <5>1, <5>2
      <4> QED
        BY <4>1, <4>2
    <3> QED
      BY <3>4, <3>5
  <2> QED
    BY <2>1, <2>2
<1>9. ASSUME Exact(q, i, nx) PROVE Exact(s, i, nx2)
  <2> SUFFICES ASSUME NEW r \in OfCell(s, i) PROVE s[r].n = nx2[i] - Cardinality(From(s, i, r))
    BY DEF Exact
  <2>1. CASE r = last
    <3>1. more = 1 /\ i = j
      BY <1>5, <1>k, <2>1
    <3> QED
      BY <1>0, <1>2, <1>4, <1>5, <1>6, <2>1, <3>1
  <2>2. CASE r # last
    <3>1. r \in 1 .. Len(q) /\ r \in OfCell(q, i) /\ s[r] = q[r]
      BY <1>3, <1>4, <1>5, <2>2
    <3>2. Cardinality(From(q, i, r)) \in Nat
      BY FromNat
    <3>3. q[r].n = nx[i] - Cardinality(From(q, i, r))
      BY <1>9, <3>1 DEF Exact
    <3> QED
      BY <1>0, <1>5, <1>6, <3>1, <3>2, <3>3
  <2> QED
    BY <2>1, <2>2
<1>10. AllSent(s, nx2)
  <2> SUFFICES ASSUME NEW p \in 1 .. last, IsDci(s, p) PROVE s[p].n < nx2[s[p].cell]
    BY <1>4 DEF AllSent
  <2>1. CASE p = last
    <3>1. s[p].n = nx[j] /\ s[p].cell = j /\ nx2[j] = nx[j] + 1
      BY <1>2, <1>4, <2>1 DEF OneMore
    <3> QED
      BY <1>0, <3>1
  <2>2. CASE p # last
    <3>1. p \in 1 .. Len(q) /\ IsDci(q, p) /\ s[p] = q[p]
      BY <1>7, <2>2
    <3>2. q[p].n \in Nat /\ q[p].cell \in RfDevs /\ q[p].n < nx[q[p].cell]
      BY <3>1, DciAt DEF AllSent
    <3>3. nx[q[p].cell] \in Nat /\ nx2[q[p].cell] \in Nat /\ nx[q[p].cell] <= nx2[q[p].cell]
      BY <1>0, <1>6, <3>2
    <3> QED
      BY <3>1, <3>2, <3>3
  <2> QED
    BY <2>1, <2>2
<1> QED
  BY <1>8, <1>9, <1>10

-----------------------------------------------------------------------------
(* A client's ring buffer.                                                 *)

CellBufs == [header : 0 .. NofLogDci - 1, nof : 0 .. NofLogDci, dci : [0 .. NofLogDci - 1 -> Int]]

\* Where its entry k is, and the newest one.
Slot(b, k) == (b.header - b.nof + k - 1 + NofLogDci) % NofLogDci
Entry(b, k) == b.dci[Slot(b, k)]
Latest(b) == b.dci[(b.header - 1 + NofLogDci) % NofLogDci]

\* d is b with a DCI more.
PutDci(b, n, d) ==
    /\ d \in CellBufs /\ d.nof > 0 /\ Latest(d) = n
    /\ d.nof = IF b.nof < NofLogDci THEN b.nof + 1 ELSE NofLogDci
    /\ \A k \in 1 .. d.nof - 1 :
           IF b.nof < NofLogDci THEN k \in 1 .. b.nof /\ Entry(d, k) = Entry(b, k)
                                ELSE k + 1 \in 1 .. b.nof /\ Entry(d, k) = Entry(b, k + 1)

(* The slots, without the remainder.                                       *)
LEMMA SlotAt ==
  ASSUME NEW b \in CellBufs
  PROVE  /\ \A k \in 1 .. b.nof : Slot(b, k) = LET x == b.header - b.nof + k - 1
                                               IN  IF x < 0 THEN x + NofLogDci ELSE x
         /\ (b.header - 1 + NofLogDci) % NofLogDci = IF b.header = 0 THEN NofLogDci - 1 ELSE b.header - 1
         /\ (b.header + 1) % NofLogDci = IF b.header = NofLogDci - 1 THEN 0 ELSE b.header + 1
<1>1. NofLogDci \in Nat \ {0} /\ b.header \in 0 .. NofLogDci - 1 /\ b.nof \in 0 .. NofLogDci
  BY SinkAssumption DEF CellBufs
<1>2. ASSUME NEW k \in 1 .. b.nof
      PROVE  Slot(b, k) = LET x == b.header - b.nof + k - 1 IN IF x < 0 THEN x + NofLogDci ELSE x
  <2>1. b.header - b.nof + k - 1 + NofLogDci \in 0 .. (NofLogDci + NofLogDci) - 1
    BY <1>1
  <2> QED
    BY <1>1, <2>1, Wraps DEF Slot
<1>3. (b.header - 1 + NofLogDci) % NofLogDci = IF b.header = 0 THEN NofLogDci - 1 ELSE b.header - 1
  <2>1. b.header - 1 + NofLogDci \in 0 .. (NofLogDci + NofLogDci) - 1
    BY <1>1
  <2> QED
    BY <1>1, <2>1, Wraps
<1>4. (b.header + 1) % NofLogDci = IF b.header = NofLogDci - 1 THEN 0 ELSE b.header + 1
  <2>1. b.header + 1 \in 0 .. (NofLogDci + NofLogDci) - 1
    BY <1>1
  <2> QED
    BY <1>1, <2>1, Wraps
<1> QED
  BY <1>2, <1>3, <1>4

(* The last entry is the newest one.                                       *)
LEMMA NewestEntry ==
  ASSUME NEW b \in CellBufs, b.nof > 0
  PROVE  Entry(b, b.nof) = Latest(b)
<1>1. NofLogDci \in Nat \ {0} /\ b.header \in 0 .. NofLogDci - 1 /\ b.nof \in 0 .. NofLogDci
  BY SinkAssumption DEF CellBufs
<1>2. b.header - b.nof + b.nof - 1 + NofLogDci = b.header - 1 + NofLogDci
  BY <1>1
<1> QED
  BY <1>2 DEF Entry, Slot, Latest

(* Moving the header on leaves an entry where it is.                       *)
LEMMA SlotArith ==
  ASSUME NEW N \in Nat \ {0}, NEW g \in 0 .. N - 1, NEW c \in 0 .. N, NEW h \in 0 .. N - 1,
         NEW m \in 0 .. N, NEW k \in 1 .. m - 1, NEW j \in 1 .. c,
         h = IF g = N - 1 THEN 0 ELSE g + 1,
         (c < N /\ m = c + 1 /\ j = k) \/ (c = N /\ m = N /\ j = k + 1)
  PROVE  LET u == IF h - m + k - 1 < 0 THEN h - m + k - 1 + N ELSE h - m + k - 1
             w == IF g - c + j - 1 < 0 THEN g - c + j - 1 + N ELSE g - c + j - 1
         IN  u = w /\ w # g /\ w \in 0 .. N - 1
<1>1. CASE c < N /\ m = c + 1 /\ j = k
  <2>1. CASE g = N - 1
    BY <1>1, <2>1
  <2>2. CASE g # N - 1
    BY <1>1, <2>2
  <2> QED
    BY <2>1, <2>2
<1>2. CASE c = N /\ m = N /\ j = k + 1
  <2>1. CASE g = N - 1
    BY <1>2, <2>1
  <2>2. CASE g # N - 1
    BY <1>2, <2>2
  <2> QED
    BY <2>1, <2>2
<1> QED
  BY <1>1, <1>2

(* So the slots before and after an insertion agree.                       *)
LEMMA SlotStays ==
  ASSUME NEW b \in CellBufs, NEW d \in CellBufs, NEW j \in 1 .. b.nof, NEW k \in 1 .. d.nof - 1,
         d.header = IF b.header = NofLogDci - 1 THEN 0 ELSE b.header + 1,
         \/ b.nof < NofLogDci /\ d.nof = b.nof + 1 /\ j = k
         \/ b.nof = NofLogDci /\ d.nof = NofLogDci /\ j = k + 1
  PROVE  Slot(d, k) = Slot(b, j) /\ Slot(b, j) # b.header /\ Slot(b, j) \in 0 .. NofLogDci - 1
<1>1. PICK N \in Nat \ {0} : N = NofLogDci
  BY SinkAssumption
<1>2. PICK g \in 0 .. N - 1, c \in 0 .. N, h \in 0 .. N - 1, m \in 0 .. N :
          g = b.header /\ c = b.nof /\ h = d.header /\ m = d.nof
  BY <1>1 DEF CellBufs
<1>3. /\ k \in 1 .. m - 1 /\ j \in 1 .. c /\ h = IF g = N - 1 THEN 0 ELSE g + 1
      /\ (c < N /\ m = c + 1 /\ j = k) \/ (c = N /\ m = N /\ j = k + 1)
  BY <1>1, <1>2
<1>4. Slot(d, k) = LET x == h - m + k - 1 IN IF x < 0 THEN x + N ELSE x
  BY <1>1, <1>2, <1>3, SlotAt
<1>5. Slot(b, j) = LET x == g - c + j - 1 IN IF x < 0 THEN x + N ELSE x
  BY <1>1, <1>2, <1>3, SlotAt
<1>6. LET u == IF h - m + k - 1 < 0 THEN h - m + k - 1 + N ELSE h - m + k - 1
          w == IF g - c + j - 1 < 0 THEN g - c + j - 1 + N ELSE g - c + j - 1
      IN  u = w /\ w # g /\ w \in 0 .. N - 1
  BY ONLY <1>3, N \in Nat \ {0}, g \in 0 .. N - 1, c \in 0 .. N, h \in 0 .. N - 1, m \in 0 .. N, SlotArith
<1> QED
  BY <1>1, <1>2, <1>4, <1>5, <1>6

(* An insertion: the new DCI comes last, the oldest one gives way if the   *)
(* ring is full.                                                           *)
LEMMA InsertPut ==
  ASSUME NEW b \in CellBufs, NEW n \in Nat
  PROVE  PutDci(b, n, [header |-> (b.header + 1) % NofLogDci,
                    nof    |-> IF b.nof < NofLogDci THEN b.nof + 1 ELSE b.nof,
                    dci    |-> [b.dci EXCEPT ![b.header] = n]])
<1>0. PICK d : d = [header |-> (b.header + 1) % NofLogDci,
                    nof    |-> IF b.nof < NofLogDci THEN b.nof + 1 ELSE b.nof,
                    dci    |-> [b.dci EXCEPT ![b.header] = n]]
  OBVIOUS
<1>1. /\ NofLogDci \in Nat \ {0} /\ b.header \in 0 .. NofLogDci - 1 /\ b.nof \in 0 .. NofLogDci
      /\ b.dci \in [0 .. NofLogDci - 1 -> Int]
  BY SinkAssumption DEF CellBufs
<1>2. PICK h \in 0 .. NofLogDci - 1 : h = (b.header + 1) % NofLogDci
  BY <1>1, SlotAt
<1>3. PICK m \in 0 .. NofLogDci : m = IF b.nof < NofLogDci THEN b.nof + 1 ELSE b.nof
  BY <1>1
<1>4. PICK a \in [0 .. NofLogDci - 1 -> Int] : a = [b.dci EXCEPT ![b.header] = n]
  <2>1. [b.dci EXCEPT ![b.header] = n] \in [0 .. NofLogDci - 1 -> Int]
    BY <1>1
  <2> QED
    BY <2>1
<1>5. d = [header |-> h, nof |-> m, dci |-> a]
  BY <1>0, <1>2, <1>3, <1>4
<1>6. d \in CellBufs /\ d.header = h /\ d.nof = m /\ d.dci = a
  BY <1>5 DEF CellBufs
<1>7. d.nof > 0 /\ d.nof = IF b.nof < NofLogDci THEN b.nof + 1 ELSE NofLogDci
  BY <1>1, <1>3, <1>6
<1>8. h = IF b.header = NofLogDci - 1 THEN 0 ELSE b.header + 1
  BY <1>2, SlotAt
<1>9. Latest(d) = n
  <2>1. (d.header - 1 + NofLogDci) % NofLogDci = IF d.header = 0 THEN NofLogDci - 1 ELSE d.header - 1
    BY <1>6, SlotAt
  <2>2. (d.header - 1 + NofLogDci) % NofLogDci = b.header
    BY <1>1, <1>6, <1>8, <2>1
  <2> QED
    BY <1>1, <1>4, <1>6, <2>2 DEF Latest
<1>10. ASSUME NEW k \in 1 .. d.nof - 1
       PROVE  IF b.nof < NofLogDci THEN k \in 1 .. b.nof /\ Entry(d, k) = Entry(b, k)
                                   ELSE k + 1 \in 1 .. b.nof /\ Entry(d, k) = Entry(b, k + 1)
  <2>1. PICK j : j = IF b.nof < NofLogDci THEN k ELSE k + 1
    OBVIOUS
  <2>2. j \in 1 .. b.nof /\ k \in 1 .. d.nof
    BY <1>1, <1>7, <2>1
  <2>3. Slot(d, k) = Slot(b, j) /\ Slot(b, j) # b.header /\ Slot(b, j) \in 0 .. NofLogDci - 1
    <3>1. d.header = IF b.header = NofLogDci - 1 THEN 0 ELSE b.header + 1
      BY <1>6, <1>8
    <3>2. \/ b.nof < NofLogDci /\ d.nof = b.nof + 1 /\ j = k
          \/ b.nof = NofLogDci /\ d.nof = NofLogDci /\ j = k + 1
      BY <1>1, <1>3, <1>6, <2>1
    <3> QED
      BY <1>6, <2>2, <3>1, <3>2, SlotStays
  <2>4. Entry(d, k) = Entry(b, j)
    BY <1>1, <1>4, <1>6, <2>3 DEF Entry
  <2> QED
    BY <2>1, <2>2, <2>4
<1> QED
  BY <1>0, <1>6, <1>7, <1>9, <1>10 DEF PutDci

-----------------------------------------------------------------------------
(* The newest DCI a client holds of a cell, and what follows it.           *)

Ahead(b, q, i) == IF b.nof = 0 THEN q ELSE <<Dci(i, Latest(b))>> \o q

\* A cell's buffer and what it holds.
Sound(b) == b \in CellBufs /\ \A k \in 1 .. b.nof : Entry(b, k) \in Nat

(* The newest DCI is one.                                                  *)
LEMMA NewestNat ==
  ASSUME NEW b, Sound(b), b.nof # 0
  PROVE  Latest(b) \in Nat /\ b.nof > 0
<1>1. b.nof \in Nat /\ b.nof > 0
  BY SinkAssumption DEF Sound, CellBufs
<1>2. b.nof \in 1 .. b.nof
  BY <1>1
<1> QED
  BY <1>1, <1>2, NewestEntry DEF Sound

(* What that sequence is made of.                                          *)
LEMMA AheadAt ==
  ASSUME NEW b, Sound(b), NEW q \in Seq(Msgs), NEW i \in RfDevs
  PROVE  /\ Ahead(b, q, i) \in Seq(Msgs) /\ Len(q) \in Nat
         /\ b.nof = 0 => Ahead(b, q, i) = q
         /\ b.nof # 0 => /\ Len(Ahead(b, q, i)) = Len(q) + 1
                         /\ Ahead(b, q, i)[1] = Dci(i, Latest(b))
                         /\ \A x \in 1 .. Len(q) : Ahead(b, q, i)[x + 1] = q[x]
<1>1. Len(q) \in Nat
  BY LenProperties
<1>2. CASE b.nof = 0
  BY <1>1, <1>2 DEF Ahead
<1>3. CASE b.nof # 0
  <2>1. PICK m : m = Dci(i, Latest(b))
    OBVIOUS
  <2>2. m \in Msgs
    BY <1>3, <2>1, NewestNat, MsgKinds
  <2>3. <<m>> \in Seq(Msgs) /\ Len(<<m>>) = 1 /\ <<m>>[1] = m
    BY <2>2
  <2>4. PICK s : s = <<m>> \o q
    OBVIOUS
  <2>5. /\ s \in Seq(Msgs) /\ Len(s) = Len(q) + 1
        /\ \A x \in 1 .. Len(q) + 1 : s[x] = IF x = 1 THEN m ELSE q[x - 1]
    BY <1>1, <2>3, <2>4, ConcatProperties
  <2>6. s[1] = m
    BY <1>1, <2>5
  <2>7. ASSUME NEW x \in 1 .. Len(q) PROVE s[x + 1] = q[x]
    <3>1. x + 1 \in 1 .. Len(q) + 1 /\ x + 1 # 1 /\ x + 1 - 1 = x
      BY <1>1
    <3> QED
      BY <2>5, <3>1
  <2>8. Ahead(b, q, i) = s
    BY <1>3, <2>1, <2>4 DEF Ahead
  <2> QED
    BY <1>1, <1>3, <2>1, <2>5, <2>6, <2>7, <2>8
<1> QED
  BY <1>2, <1>3

(* A packet less behind it.                                                *)
LEMMA AheadWithout ==
  ASSUME NEW b, Sound(b), NEW q \in Seq(Msgs), NEW i \in RfDevs, NEW k \in 1 .. Len(q),
         NEW s, Without(q, k, s)
  PROVE  \E at \in 1 .. Len(Ahead(b, q, i)) :
             /\ Without(Ahead(b, q, i), at, Ahead(b, s, i)) /\ Ahead(b, q, i)[at] = q[k]
             /\ at = IF b.nof = 0 THEN k ELSE k + 1
<1>1. Len(q) \in Nat /\ s \in Seq(Msgs)
  BY LenProperties DEF Without
<1>2. CASE b.nof = 0
  <2>1. Ahead(b, q, i) = q /\ Ahead(b, s, i) = s
    BY <1>2 DEF Ahead
  <2> QED
    BY <1>2, <2>1
<1>3. CASE b.nof # 0
  <2>1. PICK m : m = Dci(i, Latest(b))
    OBVIOUS
  <2>2. m \in Msgs
    BY <1>3, <2>1, NewestNat, MsgKinds
  <2>3. Ahead(b, q, i) = <<m>> \o q /\ Ahead(b, s, i) = <<m>> \o s
    BY <1>3, <2>1 DEF Ahead
  <2>4. Without(Ahead(b, q, i), k + 1, Ahead(b, s, i))
    BY <2>2, <2>3, ConsWithout
  <2>5. Len(Ahead(b, q, i)) = Len(q) + 1 /\ Ahead(b, q, i)[k + 1] = q[k]
    BY <1>3, AheadAt
  <2>6. k + 1 \in 1 .. Len(Ahead(b, q, i))
    BY <1>1, <2>5
  <2> QED
    BY <1>3, <2>4, <2>5, <2>6
<1> QED
  BY <1>2, <1>3

(* A packet more.                                                          *)
LEMMA AheadLonger ==
  ASSUME NEW b, Sound(b), NEW q \in Seq(Msgs), NEW i \in RfDevs, NEW m \in Msgs, NEW s, Longer(q, m, s)
  PROVE  Longer(Ahead(b, q, i), m, Ahead(b, s, i))
<1>1. s \in Seq(Msgs) /\ Len(q) \in Nat /\ Len(s) = Len(q) + 1
  BY LongerAt
<1>2. CASE b.nof = 0
  <2>1. Ahead(b, q, i) = q /\ Ahead(b, s, i) = s
    BY <1>2 DEF Ahead
  <2> QED
    BY <2>1
<1>3. CASE b.nof # 0
  <2>1. PICK u : u = Ahead(b, q, i)
    OBVIOUS
  <2>2. PICK v : v = Ahead(b, s, i)
    OBVIOUS
  <2>3. /\ Len(u) = Len(q) + 1 /\ u[1] = Dci(i, Latest(b))
        /\ \A x \in 1 .. Len(q) : u[x + 1] = q[x]
    BY <1>3, <2>1, AheadAt
  <2>4. /\ v \in Seq(Msgs) /\ Len(v) = Len(s) + 1 /\ v[1] = Dci(i, Latest(b))
        /\ \A x \in 1 .. Len(s) : v[x + 1] = s[x]
    BY <1>1, <1>3, <2>2, AheadAt
  <2>5. ASSUME NEW x \in 1 .. Len(u) PROVE v[x] = u[x]
    <3>1. CASE x = 1
      BY <2>3, <2>4, <3>1
    <3>2. CASE x # 1
      <4>1. x - 1 \in 1 .. Len(q) /\ x - 1 \in 1 .. Len(s) /\ x - 1 + 1 = x
        BY <1>1, <2>3, <3>2
      <4>2. s[x - 1] = q[x - 1]
        BY <4>1 DEF Longer
      <4> QED
        BY <2>3, <2>4, <4>1, <4>2
    <3> QED
      BY <3>1, <3>2
  <2>6. v[Len(u) + 1] = m
    <3>1. Len(s) \in 1 .. Len(s) /\ Len(u) + 1 = Len(s) + 1
      BY <1>1, <2>3
    <3> QED
      BY <1>1, <2>4, <3>1 DEF Longer
  <2>7. Len(v) = Len(u) + 1
    BY <1>1, <2>3, <2>4
  <2> QED
    BY <2>1, <2>2, <2>4, <2>5, <2>6, <2>7 DEF Longer
<1> QED
  BY <1>2, <1>3

-----------------------------------------------------------------------------
(* A client's queue and its buffers together.                              *)

Buffers(f) == f \in [RfDevs -> CellBufs] /\ \A i \in RfDevs : Sound(f[i])

\* The newest DCIs the client holds are close to each other, and none is far
\* ahead of a DCI still to come.
Near(q, f, l) ==
    \A i, j \in RfDevs : f[i].nof # 0 =>
        /\ f[j].nof # 0 => Latest(f[i]) <= Latest(f[j]) + l + MaxAhead
        /\ \A p \in OfCell(q, j) : Latest(f[i]) < q[p].n + MaxAhead

Link(q, f, l, nx) ==
    /\ q \in Seq(Msgs) /\ Buffers(f) /\ AllSent(q, nx) /\ Near(q, f, l)
    /\ \A i \in RfDevs : Kept(Ahead(f[i], q, i), i, l, nx)

\* Nothing is missing between the client's oldest DCI and the last one sent.
Run(b) == \A k \in 1 .. b.nof - 1 : Entry(b, k + 1) = Entry(b, k) + 1
Whole(q, f, nx) == \A i \in RfDevs : Run(f[i]) /\ Exact(Ahead(f[i], q, i), i, nx)

(* The newest DCI of a cell was sent.                                      *)
LEMMA NewestSent ==
  ASSUME NEW b, Sound(b), b.nof # 0, NEW q \in Seq(Msgs), NEW i \in RfDevs, NEW nx, Level(nx), NEW l \in Nat,
         Kept(Ahead(b, q, i), i, l, nx)
  PROVE  Latest(b) < nx[i]
<1>1. /\ Ahead(b, q, i) \in Seq(Msgs) /\ Len(q) \in Nat /\ Len(Ahead(b, q, i)) = Len(q) + 1
      /\ Ahead(b, q, i)[1] = Dci(i, Latest(b))
  BY AheadAt
<1>2. Latest(b) \in Nat
  BY NewestNat
<1>3. 1 \in OfCell(Ahead(b, q, i), i) /\ Ahead(b, q, i)[1].n = Latest(b)
  BY <1>1, <1>2, MsgKinds, LenProperties DEF OfCell
<1> QED
  BY <1>3 DEF Kept

(* So that everything ahead was.                                           *)
LEMMA AheadSent ==
  ASSUME NEW b, Sound(b), NEW q \in Seq(Msgs), NEW i \in RfDevs, NEW nx, Level(nx), NEW l \in Nat,
         Kept(Ahead(b, q, i), i, l, nx), AllSent(q, nx)
  PROVE  AllSent(Ahead(b, q, i), nx)
<1>1. CASE b.nof = 0
  BY <1>1 DEF Ahead
<1>2. CASE b.nof # 0
  <2>1. PICK u : u = Ahead(b, q, i)
    OBVIOUS
  <2>2. /\ Len(u) = Len(q) + 1 /\ u[1] = Dci(i, Latest(b)) /\ Len(q) \in Nat
        /\ \A x \in 1 .. Len(q) : u[x + 1] = q[x]
    BY <1>2, <2>1, AheadAt
  <2>3. Latest(b) \in Nat /\ Latest(b) < nx[i]
    BY <1>2, NewestNat, NewestSent
  <2>4. ASSUME NEW p \in 1 .. Len(u), IsDci(u, p) PROVE u[p].n < nx[u[p].cell]
    <3>1. CASE p = 1
      BY <2>2, <2>3, <3>1, MsgKinds
    <3>2. CASE p # 1
      <4>1. p - 1 \in 1 .. Len(q) /\ p - 1 + 1 = p
        BY <2>2, <3>2
      <4>2. u[p] = q[p - 1]
        BY <2>2, <4>1
      <4> QED
        BY <2>4, <4>1, <4>2 DEF AllSent, IsDci
    <3> QED
      BY <3>1, <3>2
  <2> QED
    BY <2>1, <2>4 DEF AllSent
<1> QED
  BY <1>1, <1>2

(* An answer or a configuration is sent.                                   *)
LEMMA LinkAppend ==
  ASSUME NEW q, NEW f, NEW l \in Nat, NEW nx, Link(q, f, l, nx),
         NEW m \in Msgs, m.type # "dci", NEW s, Longer(q, m, s)
  PROVE  Link(s, f, l, nx) /\ (Whole(q, f, nx) => Whole(s, f, nx))
<1>1. q \in Seq(Msgs) /\ s \in Seq(Msgs) /\ Buffers(f)
  BY LongerAt DEF Link
<1>2. AllSent(s, nx)
  BY <1>1, KeptAppend DEF Link
<1>3. ASSUME NEW i \in RfDevs
      PROVE  /\ Kept(Ahead(f[i], s, i), i, l, nx)
             /\ Exact(Ahead(f[i], q, i), i, nx) => Exact(Ahead(f[i], s, i), i, nx)
  <2>1. Sound(f[i])
    BY <1>1 DEF Buffers
  <2>2. Longer(Ahead(f[i], q, i), m, Ahead(f[i], s, i)) /\ Ahead(f[i], q, i) \in Seq(Msgs)
    BY <1>1, <2>1, AheadLonger, AheadAt
  <2>3. Kept(Ahead(f[i], q, i), i, l, nx)
    BY DEF Link
  <2> QED
    BY <2>2, <2>3, KeptAppend
<1>4. ASSUME NEW j, NEW p \in OfCell(s, j) PROVE p \in OfCell(q, j) /\ s[p] = q[p]
  <2>1. p \in 1 .. Len(q) + 1 /\ s[p].type = "dci" /\ s[p].cell = j /\ DOMAIN q = 1 .. Len(q) /\ Len(q) \in Nat
    BY <1>1, LongerAt DEF OfCell
  <2>2. p # Len(q) + 1
    BY <1>1, <2>1, LongerAt
  <2>3. p \in 1 .. Len(q)
    BY <2>1, <2>2
  <2> QED
    BY <1>1, <2>1, <2>3, LongerAt DEF OfCell
<1>5. Near(s, f, l)
  BY <1>4 DEF Near, Link
<1> QED
  BY <1>1, <1>2, <1>3, <1>5 DEF Link, Whole

(* A DCI is sent.                                                          *)
LEMMA LinkSend ==
  ASSUME NEW q, NEW f, NEW l \in Nat, NEW nx, Level(nx), Link(q, f, l, nx), NEW j \in RfDevs,
         \A a \in RfDevs : nx[j] - nx[a] < MaxAhead,
         NEW s, Longer(q, Dci(j, nx[j]), s), NEW nx2, OneMore(nx, j, nx2)
  PROVE  Link(s, f, l, nx2) /\ (Whole(q, f, nx) => Whole(s, f, nx2))
<1>0. nx \in [RfDevs -> Nat] /\ MaxAhead \in Nat
  BY SinkAssumption DEF Level
<1>1. PICK m \in Msgs : m = Dci(j, nx[j])
  BY <1>0, MsgKinds
<1>2. m.type = "dci" /\ m.cell = j /\ m.n = nx[j] /\ Longer(q, m, s)
  BY <1>0, <1>1, MsgKinds
<1>3. q \in Seq(Msgs) /\ s \in Seq(Msgs) /\ Buffers(f) /\ AllSent(q, nx)
  BY <1>2, LongerAt DEF Link
<1>4. AllSent(s, nx2)
  BY <1>0, <1>3, KeptSend
<1>5. ASSUME NEW i \in RfDevs
      PROVE  /\ Kept(Ahead(f[i], s, i), i, l, nx2)
             /\ Exact(Ahead(f[i], q, i), i, nx) => Exact(Ahead(f[i], s, i), i, nx2)
  <2>1. Sound(f[i])
    BY <1>3 DEF Buffers
  <2>2. Longer(Ahead(f[i], q, i), m, Ahead(f[i], s, i)) /\ Ahead(f[i], q, i) \in Seq(Msgs)
    BY <1>2, <1>3, <2>1, AheadLonger, AheadAt
  <2>3. Kept(Ahead(f[i], q, i), i, l, nx)
    BY DEF Link
  <2>4. AllSent(Ahead(f[i], q, i), nx)
    BY <1>3, <2>1, <2>3, AheadSent
  <2> QED
    BY <1>1, <2>2, <2>3, <2>4, KeptSend
<1>6. Near(s, f, l)
  <2> SUFFICES ASSUME NEW a \in RfDevs, NEW b \in RfDevs, f[a].nof # 0
               PROVE  /\ f[b].nof # 0 => Latest(f[a]) <= Latest(f[b]) + l + MaxAhead
                      /\ \A p \in OfCell(s, b) : Latest(f[a]) < s[p].n + MaxAhead
    BY DEF Near
  <2>1. f[b].nof # 0 => Latest(f[a]) <= Latest(f[b]) + l + MaxAhead
    BY DEF Near, Link
  <2>2. ASSUME NEW p \in OfCell(s, b) PROVE Latest(f[a]) < s[p].n + MaxAhead
    <3>1. p \in 1 .. Len(q) + 1 /\ s[p].type = "dci" /\ s[p].cell = b /\ DOMAIN q = 1 .. Len(q) /\ Len(q) \in Nat
      BY <1>2, <1>3, LongerAt DEF OfCell
    <3>2. CASE p = Len(q) + 1
      <4>1. s[p].n = nx[j]
        BY <1>2, <1>3, <3>2, LongerAt
      <4>2. Latest(f[a]) \in Nat /\ Latest(f[a]) < nx[a]
        BY <1>3, NewestNat, NewestSent DEF Link, Buffers
      <4>3. nx[a] \in Nat /\ nx[j] \in Nat /\ nx[a] - nx[j] <= MaxAhead
        BY <1>0 DEF Level
      <4> QED
        BY <1>0, <4>1, <4>2, <4>3
    <3>3. CASE p # Len(q) + 1
      <4>1. p \in 1 .. Len(q)
        BY <3>1, <3>3
      <4>2. p \in OfCell(q, b) /\ s[p] = q[p]
        BY <1>2, <1>3, <3>1, <4>1, LongerAt DEF OfCell
      <4> QED
        BY <4>2 DEF Near, Link
    <3> QED
      BY <3>2, <3>3
  <2> QED
    BY <2>1, <2>2
<1> QED
  BY <1>3, <1>4, <1>5, <1>6 DEF Link, Whole

(* A packet is lost, or taken from the queue and not stored.               *)
LEMMA LinkWithout ==
  ASSUME NEW q, NEW f, NEW l \in Nat, NEW nx, Level(nx), Link(q, f, l, nx),
         NEW k \in 1 .. Len(q), NEW s, Without(q, k, s), NEW l2 \in Nat,
         \/ l2 = l + 1
         \/ l2 = l /\ (q[k].type # "dci" \/ (k = 1 /\ \A i \in RfDevs : f[i].nof = 0))
  PROVE  Link(s, f, l2, nx) /\ (l2 = l /\ Whole(q, f, nx) => Whole(s, f, nx))
<1>0. MaxAhead \in Nat
  BY SinkAssumption
<1>1. q \in Seq(Msgs) /\ s \in Seq(Msgs) /\ Buffers(f) /\ AllSent(q, nx)
  BY DEF Link, Without
<1>2. ASSUME NEW p \in 1 .. Len(s) PROVE Up(k, p) \in 1 .. Len(q) /\ s[p] = q[Up(k, p)]
  BY <1>1, FromWithout
<1>3. AllSent(s, nx)
  BY <1>1, <1>2 DEF AllSent, IsDci
<1>4. ASSUME NEW i \in RfDevs
      PROVE  /\ Kept(Ahead(f[i], s, i), i, l2, nx)
             /\ l2 = l /\ Exact(Ahead(f[i], q, i), i, nx) => Exact(Ahead(f[i], s, i), i, nx)
  <2>1. Sound(f[i])
    BY <1>1 DEF Buffers
  <2>2. PICK at \in 1 .. Len(Ahead(f[i], q, i)) :
            /\ Without(Ahead(f[i], q, i), at, Ahead(f[i], s, i)) /\ Ahead(f[i], q, i)[at] = q[k]
            /\ at = IF f[i].nof = 0 THEN k ELSE k + 1
    BY <1>1, <2>1, AheadWithout
  <2>3. Kept(Ahead(f[i], q, i), i, l, nx) /\ Ahead(f[i], q, i) \in Seq(Msgs)
    BY <1>1, <2>1, AheadAt DEF Link
  <2>4. l2 = l + 1 \/ (l2 = l /\ (at \notin OfCell(Ahead(f[i], q, i), i) \/ at = 1))
    BY <2>2 DEF OfCell
  <2> QED
    BY <2>2, <2>3, <2>4, KeptWithout, ExactWithout
<1>5. Near(s, f, l2)
  <2> SUFFICES ASSUME NEW a \in RfDevs, NEW b \in RfDevs, f[a].nof # 0
               PROVE  /\ f[b].nof # 0 => Latest(f[a]) <= Latest(f[b]) + l2 + MaxAhead
                      /\ \A p \in OfCell(s, b) : Latest(f[a]) < s[p].n + MaxAhead
    BY DEF Near
  <2>1. Near(q, f, l)
    BY DEF Link
  <2>2. Latest(f[a]) \in Nat /\ (f[b].nof # 0 => Latest(f[b]) \in Nat)
    BY <1>1, NewestNat DEF Buffers
  <2>3. f[b].nof # 0 => Latest(f[a]) <= Latest(f[b]) + l + MaxAhead
    BY <2>1 DEF Near
  <2>4. f[b].nof # 0 => Latest(f[a]) <= Latest(f[b]) + l2 + MaxAhead
    BY <1>0, <2>2, <2>3
  <2>5. ASSUME NEW p \in OfCell(s, b) PROVE Latest(f[a]) < s[p].n + MaxAhead
    <3>1. p \in 1 .. Len(s) /\ s[p].type = "dci" /\ s[p].cell = b
      BY <1>1, LenProperties DEF OfCell
    <3>2. Up(k, p) \in OfCell(q, b) /\ s[p] = q[Up(k, p)]
      BY <1>1, <1>2, <3>1, LenProperties DEF OfCell
    <3> QED
      BY <2>1, <3>2 DEF Near
  <2> QED
    BY <2>4, <2>5
<1> QED
  BY <1>1, <1>3, <1>4, <1>5 DEF Link, Whole

(* A packet of another client is lost.                                     *)
LEMMA LinkLost ==
  ASSUME NEW q, NEW f, NEW l \in Nat, NEW nx, Level(nx), Link(q, f, l, nx)
  PROVE  Link(q, f, l + 1, nx)
<1>0. MaxAhead \in Nat /\ nx \in [RfDevs -> Nat]
  BY SinkAssumption DEF Level
<1>1. q \in Seq(Msgs) /\ Buffers(f)
  BY DEF Link
<1>2. ASSUME NEW u \in Seq(Msgs), NEW i \in RfDevs, Kept(u, i, l, nx) PROVE Kept(u, i, l + 1, nx)
  <2> SUFFICES ASSUME NEW r \in OfCell(u, i)
               PROVE  /\ u[r].n < nx[i]
                      /\ nx[i] <= u[r].n + Cardinality(From(u, i, r)) + (l + 1)
                      /\ \A p \in 1 .. Len(u) : IsDci(u, p) =>
                             /\ p < r => u[p].n < u[r].n + MaxAhead
                             /\ p > r => u[p].n < u[r].n + Cardinality(From(u, i, r) \ From(u, i, p)) + (l + 1) + MaxAhead
    BY DEF Kept
  <2>1. r \in 1 .. Len(u) /\ IsDci(u, r)
    BY LenProperties DEF OfCell, IsDci
  <2>2. u[r].n \in Nat /\ Cardinality(From(u, i, r)) \in Nat
    BY <2>1, DciAt, FromNat
  <2>3. /\ u[r].n < nx[i]
        /\ nx[i] <= u[r].n + Cardinality(From(u, i, r)) + l
        /\ \A p \in 1 .. Len(u) : IsDci(u, p) =>
               /\ p < r => u[p].n < u[r].n + MaxAhead
               /\ p > r => u[p].n < u[r].n + Cardinality(From(u, i, r) \ From(u, i, p)) + l + MaxAhead
    BY <1>2 DEF Kept
  <2>4. nx[i] <= u[r].n + Cardinality(From(u, i, r)) + (l + 1)
    BY <1>0, <2>2, <2>3
  <2>5. ASSUME NEW p \in 1 .. Len(u), IsDci(u, p), p > r
        PROVE  u[p].n < u[r].n + Cardinality(From(u, i, r) \ From(u, i, p)) + (l + 1) + MaxAhead
    <3>1. u[p].n \in Nat /\ Cardinality(From(u, i, r) \ From(u, i, p)) \in Nat
      BY <2>5, DciAt, FromNat
    <3>2. u[p].n < u[r].n + Cardinality(From(u, i, r) \ From(u, i, p)) + l + MaxAhead
      BY <2>3, <2>5
    <3>3. ASSUME NEW x \in Nat, NEW y \in Nat, NEW n \in Nat, x < y + n + l + MaxAhead
          PROVE  x < y + n + (l + 1) + MaxAhead
      BY <1>0, <3>3
    <3> QED
      BY <2>2, <3>1, <3>2, <3>3
  <2> QED
    BY <2>3, <2>4, <2>5
<1>3. ASSUME NEW i \in RfDevs PROVE Kept(Ahead(f[i], q, i), i, l + 1, nx)
  <2>1. Ahead(f[i], q, i) \in Seq(Msgs) /\ Kept(Ahead(f[i], q, i), i, l, nx)
    BY <1>1, AheadAt DEF Link, Buffers
  <2> QED
    BY <1>2, <2>1
<1>4. Near(q, f, l + 1)
  <2> SUFFICES ASSUME NEW a \in RfDevs, NEW b \in RfDevs, f[a].nof # 0, f[b].nof # 0
               PROVE  Latest(f[a]) <= Latest(f[b]) + (l + 1) + MaxAhead
    BY DEF Near, Link
  <2>1. Latest(f[a]) \in Nat /\ Latest(f[b]) \in Nat
    BY <1>1, NewestNat DEF Buffers
  <2>2. Latest(f[a]) <= Latest(f[b]) + l + MaxAhead
    BY DEF Near, Link
  <2> QED
    BY <1>0, <2>1, <2>2
<1> QED
  BY <1>1, <1>3, <1>4 DEF Link

(* A DCI stored: the buffer is still one, and in a row if it follows the   *)
(* newest.                                                                 *)
LEMMA PutKeeps ==
  ASSUME NEW b, Sound(b), NEW n \in Nat, NEW d, PutDci(b, n, d)
  PROVE  /\ Sound(d) /\ d.nof # 0 /\ Latest(d) = n
         /\ Run(b) /\ (b.nof # 0 => n = Latest(b) + 1) => Run(d)
<1>0. /\ NofLogDci \in Nat \ {0} /\ b \in CellBufs /\ d \in CellBufs
      /\ b.nof \in 0 .. NofLogDci /\ d.nof \in 1 .. NofLogDci
      /\ d.nof = IF b.nof < NofLogDci THEN b.nof + 1 ELSE NofLogDci
  <2>1. /\ NofLogDci \in Nat \ {0} /\ b \in CellBufs /\ d \in CellBufs /\ d.nof > 0
        /\ d.nof = IF b.nof < NofLogDci THEN b.nof + 1 ELSE NofLogDci
    BY SinkAssumption DEF PutDci, Sound
  <2>2. b.nof \in 0 .. NofLogDci /\ d.nof \in 0 .. NofLogDci
    BY <2>1 DEF CellBufs
  <2> QED
    BY <2>1, <2>2
<1>1. Latest(d) = n /\ Entry(d, d.nof) = n
  BY <1>0, NewestEntry DEF PutDci
<1>2. ASSUME NEW k \in 1 .. d.nof - 1
      PROVE  IF b.nof < NofLogDci THEN k \in 1 .. b.nof /\ Entry(d, k) = Entry(b, k)
                                  ELSE k + 1 \in 1 .. b.nof /\ Entry(d, k) = Entry(b, k + 1)
  BY DEF PutDci
<1>3. ASSUME NEW k \in 1 .. d.nof PROVE Entry(d, k) \in Nat
  <2>1. CASE k = d.nof
    BY <1>1, <2>1
  <2>2. CASE k # d.nof
    <3>1. k \in 1 .. d.nof - 1
      BY <1>0, <2>2
    <3> QED
      BY <1>2, <3>1 DEF Sound
  <2> QED
    BY <2>1, <2>2
<1>4. ASSUME Run(b), b.nof # 0 => n = Latest(b) + 1, NEW k \in 1 .. d.nof - 1
      PROVE  Entry(d, k + 1) = Entry(d, k) + 1
  <2>1. PICK j : j = IF b.nof < NofLogDci THEN k ELSE k + 1
    OBVIOUS
  <2>2. j \in 1 .. b.nof /\ Entry(d, k) = Entry(b, j) /\ b.nof # 0
    BY <1>0, <1>2, <2>1
  <2>3. CASE k + 1 = d.nof
    <3>1. j = b.nof /\ b.nof > 0
      BY <1>0, <2>1, <2>2, <2>3
    <3>2. Entry(b, j) = Latest(b)
      BY <1>0, <3>1, NewestEntry
    <3> QED
      BY <1>1, <1>4, <2>2, <2>3, <3>2
  <2>4. CASE k + 1 # d.nof
    <3>1. k + 1 \in 1 .. d.nof - 1 /\ j \in 1 .. b.nof - 1
      BY <1>0, <2>1, <2>2, <2>4
    <3>2. Entry(d, k + 1) = Entry(b, j + 1)
      BY <1>2, <2>1, <3>1
    <3>3. Entry(b, j + 1) = Entry(b, j) + 1
      BY <1>4, <3>1 DEF Run
    <3> QED
      BY <2>2, <3>2, <3>3
  <2> QED
    BY <2>3, <2>4
<1>5. Run(b) /\ (b.nof # 0 => n = Latest(b) + 1) => Run(d)
  BY <1>4 DEF Run
<1> QED
  BY <1>0, <1>1, <1>3, <1>5 DEF Sound

(* Storing the first packet of the queue leaves what was on the way.       *)
LEMMA AheadTaken ==
  ASSUME NEW d, Sound(d), d.nof # 0, NEW q \in Seq(Msgs), NEW i \in RfDevs, 1 \in 1 .. Len(q),
         q[1] = Dci(i, Latest(d)), NEW s, Without(q, 1, s)
  PROVE  Ahead(d, s, i) = q
<1>1. Len(q) \in Nat /\ s \in Seq(Msgs) /\ Len(s) = Len(q) - 1 /\ \A x \in 1 .. Len(s) : s[x] = q[x + 1]
  BY LenProperties DEF Without, Up
<1>2. PICK u : u = Ahead(d, s, i)
  OBVIOUS
<1>3. /\ u \in Seq(Msgs) /\ Len(u) = Len(s) + 1 /\ u[1] = Dci(i, Latest(d))
      /\ \A x \in 1 .. Len(s) : u[x + 1] = s[x]
  BY <1>1, <1>2, AheadAt
<1>4. Len(u) = Len(q)
  BY <1>1, <1>3
<1>5. ASSUME NEW x \in 1 .. Len(q) PROVE u[x] = q[x]
  <2>1. CASE x = 1
    BY <1>3, <2>1
  <2>2. CASE x # 1
    <3>1. x - 1 \in 1 .. Len(s) /\ x - 1 + 1 = x
      BY <1>1, <2>2
    <3> QED
      BY <1>1, <1>3, <3>1
  <2> QED
    BY <2>1, <2>2
<1>6. u = q
  BY <1>3, <1>4, <1>5, SeqEqual
<1> QED
  BY <1>2, <1>6

(* Before that, the newest one stored comes first.                         *)
LEMMA AheadFirst ==
  ASSUME NEW b, Sound(b), b.nof # 0, NEW q \in Seq(Msgs), NEW i \in RfDevs
  PROVE  /\ Without(Ahead(b, q, i), 1, q) /\ 1 \in 1 .. Len(Ahead(b, q, i))
         /\ 1 \in OfCell(Ahead(b, q, i), i) /\ Ahead(b, q, i)[1].n = Latest(b)
<1>1. PICK u : u = Ahead(b, q, i)
  OBVIOUS
<1>2. /\ u \in Seq(Msgs) /\ Len(q) \in Nat /\ Len(u) = Len(q) + 1 /\ u[1] = Dci(i, Latest(b))
      /\ \A x \in 1 .. Len(q) : u[x + 1] = q[x]
  BY <1>1, AheadAt
<1>3. Without(u, 1, q)
  BY <1>2 DEF Without, Up
<1>4. Latest(b) \in Nat
  BY NewestNat
<1>5. 1 \in 1 .. Len(u) /\ DOMAIN u = 1 .. Len(u)
  BY <1>2, LenProperties
<1>6. 1 \in OfCell(u, i) /\ u[1].n = Latest(b)
  BY <1>2, <1>4, <1>5, MsgKinds DEF OfCell
<1> QED
  BY <1>1, <1>3, <1>5, <1>6

(* The first packet is the one between the first and the second.           *)
LEMMA FirstAlone ==
  ASSUME NEW u \in Seq(Msgs), NEW i, 1 \in OfCell(u, i)
  PROVE  /\ Cardinality(From(u, i, 1) \ From(u, i, 2)) = 1
         /\ Cardinality(From(u, i, 1)) = Cardinality(From(u, i, 2)) + 1
<1>1. OfCell(u, i) \subseteq 1 .. Len(u) /\ Len(u) \in Nat
  BY LenProperties DEF OfCell
<1>2. From(u, i, 1) = From(u, i, 2) \cup {1} /\ 1 \notin From(u, i, 2)
  BY <1>1 DEF From
<1>3. From(u, i, 1) \ From(u, i, 2) = {1}
  BY <1>2
<1>4. IsFiniteSet(From(u, i, 2)) /\ Cardinality(From(u, i, 2)) \in Nat
  BY FromNat
<1>5. Cardinality(From(u, i, 2) \cup {1}) = Cardinality(From(u, i, 2)) + 1
  BY <1>2, <1>4, FS_AddElement
<1> QED
  BY <1>2, <1>3, <1>5, FS_Singleton

(* A DCI comes just behind the newest one of another cell, or before one of*)
(* any cell.                                                               *)
LEMMA FirstNear ==
  ASSUME NEW b, Sound(b), NEW q \in Seq(Msgs), NEW i \in RfDevs, NEW l \in Nat, NEW nx,
         Kept(Ahead(b, q, i), i, l, nx), 1 \in 1 .. Len(q), IsDci(q, 1)
  PROVE  /\ b.nof # 0 => q[1].n <= Latest(b) + l + MaxAhead
         /\ \A p \in OfCell(q, i) : p # 1 => q[1].n < q[p].n + MaxAhead
<1>0. MaxAhead \in Nat /\ q[1].n \in Nat /\ Len(q) \in Nat /\ DOMAIN q = 1 .. Len(q)
  BY SinkAssumption, DciAt, LenProperties
<1>1. PICK u : u = Ahead(b, q, i)
  OBVIOUS
<1>2. Kept(u, i, l, nx)
  BY <1>1
<1>3. u \in Seq(Msgs) /\ (b.nof = 0 => u = q)
      /\ (b.nof # 0 => Len(u) = Len(q) + 1 /\ \A x \in 1 .. Len(q) : u[x + 1] = q[x])
  BY <1>1, AheadAt
<1>4. ASSUME b.nof # 0 PROVE q[1].n <= Latest(b) + l + MaxAhead
  <2>1. 1 \in OfCell(u, i) /\ u[1].n = Latest(b) /\ Latest(b) \in Nat
    BY <1>1, <1>4, AheadFirst, NewestNat
  <2>2. 2 \in 1 .. Len(u) /\ u[2] = q[1] /\ IsDci(u, 2)
    <3>1. 1 + 1 = 2 /\ Len(u) = Len(q) + 1 /\ u[1 + 1] = q[1]
      BY <1>3, <1>4
    <3> QED
      BY <1>0, <3>1 DEF IsDci
  <2>3. u[2].n < u[1].n + Cardinality(From(u, i, 1) \ From(u, i, 2)) + l + MaxAhead
    BY <1>2, <2>1, <2>2 DEF Kept
  <2>4. Cardinality(From(u, i, 1) \ From(u, i, 2)) = 1
    BY <1>3, <2>1, FirstAlone
  <2> QED
    BY <1>0, <2>1, <2>2, <2>3, <2>4
<1>5. ASSUME NEW p \in OfCell(q, i), p # 1 PROVE q[1].n < q[p].n + MaxAhead
  <2>1. p \in 1 .. Len(q) /\ q[p].type = "dci" /\ q[p].cell = i /\ 1 < p
    BY <1>0, <1>5 DEF OfCell
  <2>2. CASE b.nof = 0
    BY <1>2, <1>3, <1>5, <2>1, <2>2 DEF Kept
  <2>3. CASE b.nof # 0
    <3>1. Len(u) = Len(q) + 1 /\ u[p + 1] = q[p] /\ u[1 + 1] = q[1] /\ 1 + 1 = 2
      BY <1>3, <2>1, <2>3
    <3>2. p + 1 \in 1 .. Len(u) /\ 2 \in 1 .. Len(u) /\ 2 < p + 1
      BY <1>0, <2>1, <3>1
    <3>3. p + 1 \in OfCell(u, i) /\ IsDci(u, 2)
      BY <1>3, <2>1, <3>1, <3>2, LenProperties DEF OfCell, IsDci
    <3> QED
      BY <1>2, <3>1, <3>2, <3>3 DEF Kept
  <2> QED
    BY <2>2, <2>3
<1> QED
  BY <1>4, <1>5

\* Of all buffers, that of cell j got DCI n.
Stored(f, j, n, g) ==
    /\ g \in [RfDevs -> CellBufs] /\ PutDci(f[j], n, g[j])
    /\ \A i \in RfDevs \ {j} : g[i] = f[i]

(* A DCI is received.                                                      *)
LEMMA LinkRecv ==
  ASSUME NEW q, NEW f, NEW l \in Nat, NEW nx, Level(nx), Link(q, f, l, nx),
         1 \in 1 .. Len(q), IsDci(q, 1), NEW s, Without(q, 1, s), NEW g, Stored(f, q[1].cell, q[1].n, g)
  PROVE  Link(s, g, l, nx) /\ (Whole(q, f, nx) => Whole(s, g, nx))
<1>0. MaxAhead \in Nat
  BY SinkAssumption
<1>1. q \in Seq(Msgs) /\ s \in Seq(Msgs) /\ Buffers(f) /\ AllSent(q, nx) /\ Near(q, f, l)
  BY DEF Link, Without
<1>2. q[1] \in Msgs
  BY <1>1, ElementOfSeq
<1>3. PICK j \in RfDevs, n \in Nat : j = q[1].cell /\ n = q[1].n /\ q[1] = Dci(j, n)
  BY <1>2, MsgFields DEF IsDci
<1>4. g \in [RfDevs -> CellBufs] /\ PutDci(f[j], n, g[j]) /\ \A i \in RfDevs \ {j} : g[i] = f[i]
  BY <1>3 DEF Stored
<1>5. \A i \in RfDevs : Sound(f[i]) /\ Kept(Ahead(f[i], q, i), i, l, nx)
  BY <1>1 DEF Buffers, Link
<1>6. Sound(g[j]) /\ g[j].nof # 0 /\ Latest(g[j]) = n
  BY <1>4, <1>5, PutKeeps
<1>7. Buffers(g)
  BY <1>4, <1>5, <1>6 DEF Buffers
<1>8. ASSUME NEW p \in 1 .. Len(s) PROVE p + 1 \in 1 .. Len(q) /\ p + 1 # 1 /\ s[p] = q[p + 1]
  BY <1>1, LenProperties DEF Without, Up
<1>9. AllSent(s, nx)
  BY <1>1, <1>8 DEF AllSent, IsDci
<1>10. ASSUME NEW i \in RfDevs, i # j
       PROVE  /\ Kept(Ahead(g[i], s, i), i, l, nx)
              /\ Exact(Ahead(f[i], q, i), i, nx) => Exact(Ahead(g[i], s, i), i, nx)
  <2>1. PICK at \in 1 .. Len(Ahead(f[i], q, i)) :
            /\ Without(Ahead(f[i], q, i), at, Ahead(f[i], s, i)) /\ Ahead(f[i], q, i)[at] = q[1]
    BY <1>1, <1>5, AheadWithout
  <2>2. Ahead(f[i], q, i) \in Seq(Msgs)
    BY <1>1, <1>5, AheadAt
  <2>3. at \notin OfCell(Ahead(f[i], q, i), i)
    BY <1>3, <1>10, <2>1 DEF OfCell
  <2>4. g[i] = f[i]
    BY <1>4, <1>10
  <2>5. Kept(Ahead(f[i], s, i), i, l, nx)
    BY <1>5, <2>1, <2>2, <2>3, KeptWithout
  <2> QED
    BY <2>1, <2>2, <2>3, <2>4, <2>5, ExactWithout
<1>11. Ahead(g[j], s, j) = q
  <2>1. q[1] = Dci(j, Latest(g[j]))
    BY <1>3, <1>6
  <2> QED
    BY <1>1, <1>6, <2>1, AheadTaken
<1>12. Kept(q, j, l, nx) /\ (Exact(Ahead(f[j], q, j), j, nx) => Exact(q, j, nx))
  <2>1. CASE f[j].nof = 0
    BY <1>5, <2>1 DEF Ahead
  <2>2. CASE f[j].nof # 0
    <3>1. Without(Ahead(f[j], q, j), 1, q) /\ 1 \in 1 .. Len(Ahead(f[j], q, j)) /\ Ahead(f[j], q, j) \in Seq(Msgs)
      BY <1>1, <1>5, <2>2, AheadFirst, AheadAt
    <3> QED
      BY <1>5, <3>1, KeptWithout, ExactWithout
  <2> QED
    BY <2>1, <2>2
<1>13. Near(s, g, l)
  <2> SUFFICES ASSUME NEW a \in RfDevs, NEW b \in RfDevs, g[a].nof # 0
               PROVE  /\ g[b].nof # 0 => Latest(g[a]) <= Latest(g[b]) + l + MaxAhead
                      /\ \A p \in OfCell(s, b) : Latest(g[a]) < s[p].n + MaxAhead
    BY DEF Near
  <2>1. 1 \in OfCell(q, j)
    BY <1>1, <1>3, LenProperties DEF OfCell, IsDci
  <2>2. /\ f[b].nof # 0 => n <= Latest(f[b]) + l + MaxAhead
        /\ \A p \in OfCell(q, b) : p # 1 => n < q[p].n + MaxAhead
    BY <1>1, <1>3, <1>5, FirstNear
  <2>3. ASSUME g[b].nof # 0 PROVE Latest(g[a]) <= Latest(g[b]) + l + MaxAhead
    <3>1. CASE a = j /\ b = j
      BY <1>0, <1>6, <3>1
    <3>2. CASE a = j /\ b # j
      BY <1>4, <1>6, <2>2, <2>3, <3>2
    <3>3. CASE a # j /\ b = j
      <4>1. g[a] = f[a] /\ Latest(f[a]) \in Nat /\ Latest(f[a]) < n + MaxAhead
        <5>1. g[a] = f[a] /\ f[a].nof # 0
          BY <1>4, <3>3
        <5>2. Latest(f[a]) < q[1].n + MaxAhead
          BY <1>1, <2>1, <5>1 DEF Near
        <5> QED
          BY <1>3, <1>5, <5>1, <5>2, NewestNat
      <4> QED
        BY <1>0, <1>6, <3>3, <4>1
    <3>4. CASE a # j /\ b # j
      BY <1>1, <1>4, <2>3, <3>4 DEF Near
    <3> QED
      BY <3>1, <3>2, <3>3, <3>4
  <2>4. ASSUME NEW p \in OfCell(s, b) PROVE Latest(g[a]) < s[p].n + MaxAhead
    <3>1. p \in 1 .. Len(s) /\ s[p].type = "dci" /\ s[p].cell = b
      BY <1>1, LenProperties DEF OfCell
    <3>2. p + 1 \in OfCell(q, b) /\ p + 1 # 1 /\ s[p] = q[p + 1]
      BY <1>1, <1>8, <3>1, LenProperties DEF OfCell
    <3>3. CASE a = j
      BY <1>6, <2>2, <3>2, <3>3
    <3>4. CASE a # j
      BY <1>1, <1>4, <3>2, <3>4 DEF Near
    <3> QED
      BY <3>3, <3>4
  <2> QED
    BY <2>3, <2>4
<1>14. ASSUME Whole(q, f, nx) PROVE Run(g[j])
  <2>1. Run(f[j]) /\ Exact(Ahead(f[j], q, j), j, nx)
    BY <1>14 DEF Whole
  <2>2. ASSUME f[j].nof # 0 PROVE n = Latest(f[j]) + 1
    <3>1. PICK u \in Seq(Msgs) : u = Ahead(f[j], q, j)
      BY <1>1, <1>5, AheadAt
    <3>2. 1 \in OfCell(u, j) /\ u[1].n = Latest(f[j])
      BY <1>1, <1>5, <2>2, <3>1, AheadFirst
    <3>3. Len(u) = Len(q) + 1 /\ u[1 + 1] = q[1] /\ Len(q) \in Nat /\ 1 + 1 = 2
      <4>1. q \in Seq(Msgs) /\ Sound(f[j])
        BY <1>1, <1>5
      <4>2. /\ Len(Ahead(f[j], q, j)) = Len(q) + 1 /\ Len(q) \in Nat
            /\ \A x \in 1 .. Len(q) : Ahead(f[j], q, j)[x + 1] = q[x]
        BY <2>2, <4>1, AheadAt
      <4> QED
        BY <3>1, <4>2
    <3>4. 2 \in OfCell(u, j) /\ u[2].n = n
      BY <1>3, <3>3, LenProperties DEF OfCell, IsDci
    <3>5. u[1].n = nx[j] - Cardinality(From(u, j, 1)) /\ u[2].n = nx[j] - Cardinality(From(u, j, 2))
      BY <2>1, <3>1, <3>2, <3>4 DEF Exact
    <3>6. Cardinality(From(u, j, 1)) = Cardinality(From(u, j, 2)) + 1 /\ Cardinality(From(u, j, 2)) \in Nat
      BY <3>2, FirstAlone, FromNat
    <3>7. nx[j] \in Nat
      BY DEF Level
    <3>8. PICK w \in Nat, d \in Nat : w = nx[j] /\ d = Cardinality(From(u, j, 2))
      BY <3>6, <3>7
    <3>9. n = w - d /\ Latest(f[j]) = w - (d + 1)
      BY <3>2, <3>4, <3>5, <3>6, <3>8
    <3> QED
      BY <3>9
  <2> QED
    BY <1>4, <1>5, <2>1, <2>2, PutKeeps
<1>15. Link(s, g, l, nx)
  BY <1>1, <1>7, <1>9, <1>10, <1>11, <1>12, <1>13 DEF Link
<1>16. Whole(q, f, nx) => Whole(s, g, nx)
  BY <1>4, <1>10, <1>11, <1>12, <1>14 DEF Whole
<1> QED
  BY <1>15, <1>16

-----------------------------------------------------------------------------
(* The buffers of a client as one record.                                  *)

CaShape(r) ==
    /\ r = [nof_cell |-> r.nof_cell, ca_ready |-> r.ca_ready, header |-> r.header, tail |-> r.tail, cell |-> r.cell]
    /\ r.nof_cell \in {1, NofRfDev} /\ r.cell \in [RfDevs -> CellBufs]

(* They start empty.                                                       *)
LEMMA EmptyShape ==
  /\ CaShape(EmptyCaBuf) /\ Buffers(EmptyCaBuf.cell)
  /\ \A i \in RfDevs : EmptyCaBuf.cell[i].nof = 0
<1>1. NofLogDci \in Nat \ {0}
  BY SinkAssumption
<1>2. EmptyCell \in CellBufs /\ EmptyCell.nof = 0
  BY <1>1 DEF EmptyCell, CellBufs, NoDci
<1>3. Sound(EmptyCell)
  BY <1>2 DEF Sound
<1>4. PICK f : f = [i \in RfDevs |-> EmptyCell]
  OBVIOUS
<1>5. f \in [RfDevs -> CellBufs] /\ \A i \in RfDevs : f[i] = EmptyCell
  BY <1>2, <1>4
<1>6. EmptyCaBuf = [nof_cell |-> 1, ca_ready |-> FALSE, header |-> 0, tail |-> 0, cell |-> f]
  BY <1>4 DEF EmptyCaBuf
<1>7. CaShape(EmptyCaBuf) /\ EmptyCaBuf.cell = f
  BY <1>5, <1>6 DEF CaShape
<1> QED
  BY <1>2, <1>3, <1>5, <1>7 DEF Buffers

(* Storing a DCI, before the window is recomputed.                         *)
LEMMA InsertShape ==
  ASSUME NEW r, CaShape(r), NEW i \in RfDevs, NEW n \in Nat
  PROVE  /\ CaShape(Insert(r, i, n)) /\ Stored(r.cell, i, n, Insert(r, i, n).cell)
         /\ Insert(r, i, n).nof_cell = r.nof_cell /\ Insert(r, i, n).ca_ready = r.ca_ready
<1>1. PICK a, b, h, t, f : /\ a = r.nof_cell /\ b = r.ca_ready /\ h = r.header /\ t = r.tail /\ f = r.cell
  OBVIOUS
<1>2. r = [nof_cell |-> a, ca_ready |-> b, header |-> h, tail |-> t, cell |-> f] /\ f \in [RfDevs -> CellBufs]
      /\ a \in {1, NofRfDev}
  BY <1>1 DEF CaShape
<1>3. PICK d : d = [header |-> (f[i].header + 1) % NofLogDci,
                    nof    |-> IF f[i].nof < NofLogDci THEN f[i].nof + 1 ELSE f[i].nof,
                    dci    |-> [f[i].dci EXCEPT ![f[i].header] = n]]
  OBVIOUS
<1>4. PutDci(f[i], n, d) /\ d \in CellBufs
  <2>1. f[i] \in CellBufs
    BY <1>2
  <2> QED
    BY <1>3, <2>1, InsertPut DEF PutDci
<1>5. Insert(r, i, n) = [r EXCEPT !.cell[i] = d]
  BY <1>1, <1>3 DEF Insert
<1>6. PICK g : g = [f EXCEPT ![i] = d]
  OBVIOUS
<1>7. g \in [RfDevs -> CellBufs] /\ g[i] = d /\ \A j \in RfDevs \ {i} : g[j] = f[j]
  BY <1>2, <1>4, <1>6
<1>8. Insert(r, i, n) = [nof_cell |-> a, ca_ready |-> b, header |-> h, tail |-> t, cell |-> g]
  BY <1>2, <1>5, <1>6
<1>9. CaShape(Insert(r, i, n)) /\ Insert(r, i, n).cell = g
      /\ Insert(r, i, n).nof_cell = a /\ Insert(r, i, n).ca_ready = b
  BY <1>2, <1>7, <1>8 DEF CaShape
<1>10. Stored(f, i, n, g)
  BY <1>4, <1>7 DEF Stored
<1> QED
  BY <1>1, <1>9, <1>10

(* Recomputing the window leaves the buffers.                              *)
LEMMA UpdateShape ==
  ASSUME NEW r, CaShape(r), NEW stale
  PROVE  /\ CaShape(CaUpdate(r, stale)) /\ CaUpdate(r, stale).cell = r.cell
         /\ CaUpdate(r, stale).nof_cell = r.nof_cell
<1>1. PICK a, b, h, t, f : /\ a = r.nof_cell /\ b = r.ca_ready /\ h = r.header /\ t = r.tail /\ f = r.cell
  OBVIOUS
<1>2. r = [nof_cell |-> a, ca_ready |-> b, header |-> h, tail |-> t, cell |-> f] /\ f \in [RfDevs -> CellBufs]
      /\ a \in {1, NofRfDev}
  BY <1>1 DEF CaShape
<1>3. ASSUME NEW x, NEW y PROVE [r EXCEPT !.header = x, !.tail = y]
                                  = [nof_cell |-> a, ca_ready |-> b, header |-> x, tail |-> y, cell |-> f]
  <2>1. [r EXCEPT !.header = x] = [nof_cell |-> a, ca_ready |-> b, header |-> x, tail |-> t, cell |-> f]
    BY <1>2
  <2>2. [[r EXCEPT !.header = x] EXCEPT !.tail = y]
           = [nof_cell |-> a, ca_ready |-> b, header |-> x, tail |-> y, cell |-> f]
    <3>1. ASSUME NEW w, w = [nof_cell |-> a, ca_ready |-> b, header |-> x, tail |-> t, cell |-> f]
          PROVE  [w EXCEPT !.tail = y] = [nof_cell |-> a, ca_ready |-> b, header |-> x, tail |-> y, cell |-> f]
      BY <3>1
    <3> QED
      BY <2>1, <3>1, Zenon
  <2>3. [r EXCEPT !.header = x, !.tail = y] = [[r EXCEPT !.header = x] EXCEPT !.tail = y]
    OBVIOUS
  <2> QED
    BY <2>2, <2>3
<1>4. ASSUME NEW x PROVE [r EXCEPT !.ca_ready = x]
                                  = [nof_cell |-> a, ca_ready |-> x, header |-> h, tail |-> t, cell |-> f]
  BY <1>2
<1>5. \E x, y, z : CaUpdate(r, stale) = [nof_cell |-> a, ca_ready |-> z, header |-> x, tail |-> y, cell |-> f]
  <2>1. \E x, y, z : \/ CaUpdate(r, stale) = [r EXCEPT !.header = x, !.tail = y]
                     \/ CaUpdate(r, stale) = [r EXCEPT !.ca_ready = z]
    BY Zenon DEF CaUpdate
  <2> QED
    BY <1>3, <1>4, <2>1
<1>6. PICK x, y, z : CaUpdate(r, stale) = [nof_cell |-> a, ca_ready |-> z, header |-> x, tail |-> y, cell |-> f]
  BY <1>5
<1> QED
  BY <1>1, <1>2, <1>6 DEF CaShape

(* The configuration sets the number of cells.                             *)
LEMMA ConfigShape ==
  ASSUME NEW r, CaShape(r), NEW s, s = [r EXCEPT !.nof_cell = NofRfDev]
  PROVE  CaShape(s) /\ s.cell = r.cell /\ s.nof_cell = NofRfDev
<1>1. PICK a, b, h, t, f : /\ a = r.nof_cell /\ b = r.ca_ready /\ h = r.header /\ t = r.tail /\ f = r.cell
  OBVIOUS
<1>2. r = [nof_cell |-> a, ca_ready |-> b, header |-> h, tail |-> t, cell |-> f] /\ f \in [RfDevs -> CellBufs]
  BY <1>1 DEF CaShape
<1>3. s = [nof_cell |-> NofRfDev, ca_ready |-> b, header |-> h, tail |-> t, cell |-> f]
  BY <1>2
<1> QED
  BY <1>1, <1>2, <1>3 DEF CaShape

-----------------------------------------------------------------------------
(* The inductive invariant, first part: types, the server's steps, what is *)
(* empty when.                                                             *)

Steps == {"recv", "reply", "config"}
SentTtis == [RfDevs -> [FirstDci .. LastDci -> 0 .. MaxTti - 1]]

SinkTypes ==
    /\ requests \in Seq(Requests)
    /\ client_list \in Seq(Clients) /\ Len(client_list) <= MaxClient
    /\ IsFiniteSet(Listed) /\ Cardinality(Listed) = Len(client_list)
    /\ serving \in [step : Steps, client : Clients \cup {NoClient}, left : 0 .. 2]
    /\ next \in [RfDevs -> FirstDci .. LastDci + 1]
    /\ pc \in [Clients -> {"off", "connecting", "connected", "closed"}]
    /\ nof_serv_pkt \in [Clients -> 0 .. 2]
    /\ queue \in [Clients -> Seq(Msgs)]
    /\ lostPkt \in Seq(Clients) /\ Len(lostPkt) <= MaxLostPkt
    /\ lostReq \in Seq(Clients)
    /\ dci_tti \in SentTtis
    /\ DOMAIN ring = Clients /\ ring = [c \in Clients |-> ring[c]]

ServerOk ==
    \/ serving = Idle
    \/ serving.step = "reply" /\ serving.client \in Listed /\ serving.left \in {1, 2}
    \/ serving.step = "config" /\ serving.client \in Listed /\ serving.left = 0

ClientOk(c) ==
    /\ c \notin Listed => queue[c] = << >> /\ nof_serv_pkt[c] = 0 /\ pc[c] # "connected"
    /\ pc[c] = "off" => c \notin Listed /\ \A k \in 1 .. Len(requests) : requests[k].from # c
    /\ pc[c] \in {"off", "connecting"} => ring[c] = EmptyCaBuf /\ nof_serv_pkt[c] < 2
    /\ pc[c] = "closed" => queue[c] = << >>
    /\ CaShape(ring[c])

SinkBase == SinkTypes /\ ServerOk /\ Level(next) /\ \A c \in Clients : ClientOk(c)

(* The constants.                                                          *)
LEMMA SinkConstants ==
  /\ NofRfDev \in Nat \ {0} /\ MaxAhead \in Nat \ {0} /\ MaxClient \in Nat \ {0} /\ MaxLostPkt \in Nat
  /\ FirstDci \in Nat /\ LastDci \in Nat /\ FirstDci <= LastDci /\ NoClient \notin Clients
  /\ FirstDci .. LastDci + 1 \subseteq Nat
BY SinkAssumption

(* A request.                                                              *)
LEMMA RequestFields ==
  /\ \A m \in Requests : m.type \in {"connect", "close"} /\ m.from \in Clients
  /\ \A c \in Clients : /\ Connect(c) \in Requests /\ Close(c) \in Requests
                        /\ Connect(c).from = c /\ Close(c).from = c
<1>1. ASSUME NEW c \in Clients
      PROVE  /\ Connect(c).from = c /\ Close(c).from = c
             /\ Connect(c).type = "connect" /\ Close(c).type = "close"
  BY DEF Connect, Close
<1>2. ASSUME NEW c \in Clients PROVE Connect(c) \in Requests /\ Close(c) \in Requests
  BY DEF Requests
<1>3. ASSUME NEW m \in Requests PROVE \E c \in Clients : m = Connect(c) \/ m = Close(c)
  BY DEF Requests
<1> QED
  BY <1>1, <1>2, <1>3

(* A shorter sequence of requests, or of clients, has no others.           *)
LEMMA RemoveElements ==
  ASSUME NEW S, NEW q \in Seq(S), NEW k \in 1 .. Len(q)
  PROVE  /\ RemoveAt(q, k) \in Seq(S) /\ Len(RemoveAt(q, k)) = Len(q) - 1
         /\ \A x \in 1 .. Len(RemoveAt(q, k)) : \E y \in 1 .. Len(q) : RemoveAt(q, k)[x] = q[y]
<1> DEFINE a == SubSeq(q, 1, k - 1)
           b == SubSeq(q, k + 1, Len(q))
<1>1. Len(q) \in Nat /\ k \in Nat /\ k >= 1 /\ k <= Len(q)
  BY LenProperties
<1>2. /\ a \in Seq(S) /\ Len(a) = k - 1
      /\ \A x \in 1 .. k - 1 : a[x] = q[x]
  BY <1>1
<1>3. /\ b \in Seq(S) /\ Len(b) = Len(q) - k
      /\ \A x \in 1 .. Len(q) - k : b[x] = q[x + k]
  BY <1>1
<1>4. RemoveAt(q, k) = a \o b
  BY DEF RemoveAt
<1> HIDE DEF a, b
<1>5. PICK s : s = a \o b
  OBVIOUS
<1>6. /\ s \in Seq(S) /\ Len(s) = Len(a) + Len(b)
      /\ \A x \in 1 .. Len(a) + Len(b) : s[x] = IF x <= Len(a) THEN a[x] ELSE b[x - Len(a)]
  BY <1>2, <1>3, <1>5, ConcatProperties
<1>7. Len(s) = Len(q) - 1
  BY <1>1, <1>2, <1>3, <1>6
<1>8. ASSUME NEW x \in 1 .. Len(s) PROVE \E y \in 1 .. Len(q) : s[x] = q[y]
  <2>1. CASE x <= Len(a)
    <3>1. x \in 1 .. k - 1 /\ x \in 1 .. Len(q)
      BY <1>1, <1>2, <1>7, <2>1
    <3> QED
      BY <1>2, <1>6, <2>1, <3>1
  <2>2. CASE ~(x <= Len(a))
    <3>1. x - Len(a) \in 1 .. Len(q) - k /\ x - Len(a) + k \in 1 .. Len(q)
      BY <1>1, <1>2, <1>7, <2>2
    <3> QED
      BY <1>3, <1>6, <2>2, <3>1
  <2> QED
    BY <2>1, <2>2
<1> QED
  BY <1>4, <1>5, <1>6, <1>7, <1>8

(* Sending to clients.                                                     *)
LEMMA SendAt ==
  ASSUME NEW to, NEW m \in Msgs, queue \in [Clients -> Seq(Msgs)], NEW c \in Clients
  PROVE  /\ Send(queue, to, <<m>>) \in [Clients -> Seq(Msgs)]
         /\ c \in to /\ pc[c] # "closed" => Longer(queue[c], m, Send(queue, to, <<m>>)[c])
         /\ ~(c \in to /\ pc[c] # "closed") => Send(queue, to, <<m>>)[c] = queue[c]
<1>1. ASSUME NEW d \in Clients PROVE queue[d] \o <<m>> \in Seq(Msgs) /\ Longer(queue[d], m, queue[d] \o <<m>>)
  <2>1. queue[d] \in Seq(Msgs)
    OBVIOUS
  <2>2. Longer(queue[d], m, queue[d] \o <<m>>)
    BY <2>1, AppendLonger
  <2> QED
    BY <2>2 DEF Longer
<1> QED
  BY <1>1 DEF Send

(* The list of clients grows or stays.                                     *)
LEMMA PushResult ==
  ASSUME SinkTypes, NEW c \in Clients
  PROVE  \/ PushClient(c) = client_list
         \/ /\ c \notin Listed /\ Len(client_list) < MaxClient /\ PushClient(c) = Append(client_list, c)
            /\ Append(client_list, c) \in Seq(Clients)
            /\ Len(Append(client_list, c)) = Len(client_list) + 1
            /\ ToSet(Append(client_list, c)) = Listed \cup {c}
<1>1. /\ client_list \in Seq(Clients) /\ Len(client_list) \in Nat /\ DOMAIN client_list = 1 .. Len(client_list)
      /\ MaxClient \in Nat
  BY SinkConstants, LenProperties DEF SinkTypes
<1>2. PICK a : a = Append(client_list, c)
  OBVIOUS
<1>3. /\ a \in Seq(Clients) /\ Len(a) = Len(client_list) + 1 /\ DOMAIN a = 1 .. Len(client_list) + 1
      /\ \A x \in 1 .. Len(client_list) : a[x] = client_list[x]
      /\ a[Len(client_list) + 1] = c
  BY <1>1, <1>2, AppendProperties
<1>4. ToSet(a) = Listed \cup {c}
  <2>1. ASSUME NEW x \in ToSet(a) PROVE x \in Listed \cup {c}
    <3>1. PICK k \in 1 .. Len(client_list) + 1 : x = a[k]
      BY <1>3 DEF ToSet
    <3>2. k = Len(client_list) + 1 \/ k \in 1 .. Len(client_list)
      BY <1>1
    <3> QED
      BY <1>1, <1>3, <3>1, <3>2 DEF ToSet, Listed
  <2>2. ASSUME NEW x \in Listed PROVE x \in ToSet(a)
    <3>1. PICK k \in 1 .. Len(client_list) : x = client_list[k]
      BY <1>1 DEF ToSet, Listed
    <3>2. k \in 1 .. Len(client_list) + 1
      BY <1>1
    <3> QED
      BY <1>3, <3>1, <3>2 DEF ToSet
  <2>3. c \in ToSet(a)
    <3>1. Len(client_list) + 1 \in DOMAIN a
      BY <1>1, <1>3
    <3> QED
      BY <1>3, <3>1 DEF ToSet
  <2> QED
    BY <2>1, <2>2, <2>3
<1>5. PushClient(c) = IF c \in Listed \/ Len(client_list) >= MaxClient THEN client_list ELSE a
  BY <1>2 DEF PushClient
<1>6. CASE c \in Listed \/ Len(client_list) >= MaxClient
  BY <1>5, <1>6
<1>7. CASE ~(c \in Listed \/ Len(client_list) >= MaxClient)
  <2>1. Len(client_list) < MaxClient
    BY <1>1, <1>7
  <2> QED
    BY <1>2, <1>3, <1>4, <1>5, <1>7, <2>1
<1> QED
  BY <1>6, <1>7

(* A TTI is below the wrap.                                                *)
LEMMA TtiInRange == \A n \in Nat : Tti(n) \in 0 .. MaxTti - 1
  BY SinkAssumption DEF Tti

(* The invariant at the start.                                             *)
LEMMA BaseInit == SinkInit => SinkBase
<1> SUFFICES ASSUME SinkInit PROVE SinkBase
  OBVIOUS
<1>1. SinkTypes
  <2>1. client_list = << >> /\ requests = << >> /\ lostPkt = << >>
    BY DEF SinkInit
  <2>2. Listed = {}
    BY <2>1 DEF Listed, ToSet
  <2>3. IsFiniteSet(Listed) /\ Cardinality(Listed) = 0
    BY <2>2, FS_EmptySet
  <2>4. serving \in [step : Steps, client : Clients \cup {NoClient}, left : 0 .. 2]
    BY DEF SinkInit, Idle, Steps
  <2>5. dci_tti \in SentTtis
    <3>1. \A n \in FirstDci .. LastDci : Tti(n) \in 0 .. MaxTti - 1
      BY SinkConstants, TtiInRange
    <3> QED
      BY <3>1 DEF SinkInit, SentTtis
  <2>6. lostReq \in Seq(Clients)
    BY DEF SinkInit
  <2> QED
    BY <2>1, <2>3, <2>4, <2>5, <2>6, SinkConstants DEF SinkTypes, SinkInit
<1>2. ServerOk
  BY DEF ServerOk, SinkInit
<1>3. Level(next)
  BY SinkConstants DEF Level, SinkInit
<1>4. ASSUME NEW c \in Clients PROVE ClientOk(c)
  <2>1. Len(requests) = 0 /\ Listed = {} /\ pc[c] = "off" /\ queue[c] = << >> /\ nof_serv_pkt[c] = 0 /\ ring[c] = EmptyCaBuf
    BY DEF SinkInit, Listed, ToSet
  <2> QED
    BY <2>1, EmptyShape DEF ClientOk
<1> QED
  BY <1>1, <1>2, <1>3, <1>4 DEF SinkBase

(* The types of one client's state.                                        *)
LEMMA ClientTypes ==
  ASSUME SinkTypes, NEW c \in Clients
  PROVE  /\ queue[c] \in Seq(Msgs) /\ nof_serv_pkt[c] \in 0 .. 2
         /\ pc[c] \in {"off", "connecting", "connected", "closed"}
BY DEF SinkTypes

(* The server takes a request.                                             *)
LEMMA BaseServerRecv == SinkBase /\ ServerRecv => SinkBase'
<1> SUFFICES ASSUME SinkBase, ServerRecv PROVE SinkBase'
  OBVIOUS
<1>0. SinkTypes /\ ServerOk /\ Level(next) /\ \A c \in Clients : ClientOk(c)
  BY DEF SinkBase
<1>1. /\ serving.step = "recv" /\ requests # << >> /\ requests' = Tail(requests)
      /\ next' = next /\ queue' = queue /\ pc' = pc /\ nof_serv_pkt' = nof_serv_pkt /\ ring' = ring /\ lostPkt' = lostPkt
      /\ lostReq' = lostReq /\ dci_tti' = dci_tti
  BY DEF ServerRecv, clientVars, senderVars, lossVars
<1>2. /\ requests' \in Seq(Requests) /\ Len(requests) \in Nat /\ Len(requests') = Len(requests) - 1
      /\ \A k \in 1 .. Len(requests') : requests'[k] = requests[k + 1]
      /\ Len(requests) > 0
  BY <1>0, <1>1, HeadTailProperties, LenProperties DEF SinkTypes
<1>3. PICK m \in Requests : m = Head(requests) /\ m = requests[1]
  BY <1>0, <1>1, HeadTailProperties DEF SinkTypes
<1>4. m.from \in Clients /\ pc[m.from] # "off"
  <2>1. m.from \in Clients
    BY RequestFields
  <2>2. 1 \in 1 .. Len(requests)
    BY <1>2
  <2> QED
    BY <1>0, <1>3, <2>1, <2>2 DEF ClientOk
<1>5. \/ /\ m.from \notin Listed /\ Len(client_list) < MaxClient
         /\ client_list' = Append(client_list, m.from)
         /\ serving' = [step |-> "reply", client |-> m.from, left |-> 2]
         /\ Append(client_list, m.from) \in Seq(Clients)
         /\ Len(Append(client_list, m.from)) = Len(client_list) + 1
         /\ ToSet(Append(client_list, m.from)) = Listed \cup {m.from}
      \/ client_list' = client_list /\ serving' = serving
  BY <1>0, <1>3, <1>4, PushResult DEF ServerRecv, serverVars, senderVars, lossVars, NofReplies
<1>6. ASSUME NEW c \in Clients, NEW k \in 1 .. Len(requests'), requests'[k].from = c
      PROVE  \E x \in 1 .. Len(requests) : requests[x].from = c
  <2>1. k + 1 \in 1 .. Len(requests)
    BY <1>2
  <2> QED
    BY <1>2, <1>6, <2>1
<1>7. CASE client_list' = client_list /\ serving' = serving
  <2>1. Listed' = Listed
    BY <1>7 DEF Listed
  <2>2. SinkTypes'
    BY <1>0, <1>1, <1>2, <1>7, <2>1 DEF SinkTypes
  <2>3. ServerOk'
    BY <1>0, <1>7, <2>1 DEF ServerOk, Idle
  <2>4. ASSUME NEW c \in Clients PROVE ClientOk(c)'
    BY <1>0, <1>1, <1>6, <2>1 DEF ClientOk
  <2> QED
    BY <1>0, <1>1, <2>2, <2>3, <2>4 DEF SinkBase
<1>8. CASE /\ m.from \notin Listed /\ Len(client_list) < MaxClient
           /\ client_list' = Append(client_list, m.from)
           /\ serving' = [step |-> "reply", client |-> m.from, left |-> 2]
           /\ Append(client_list, m.from) \in Seq(Clients)
           /\ Len(Append(client_list, m.from)) = Len(client_list) + 1
           /\ ToSet(Append(client_list, m.from)) = Listed \cup {m.from}
  <2>1. Listed' = Listed \cup {m.from}
    BY <1>8 DEF Listed
  <2>2. IsFiniteSet(Listed') /\ Cardinality(Listed') = Len(client_list) + 1
    BY <1>0, <1>8, <2>1, FS_AddElement DEF SinkTypes
  <2>3. serving' \in [step : Steps, client : Clients \cup {NoClient}, left : 0 .. 2]
    BY <1>4, <1>8 DEF Steps
  <2>4. Len(client_list') <= MaxClient
    BY <1>0, <1>8, LenProperties, SinkConstants DEF SinkTypes
  <2>5. SinkTypes'
    <3>1. client_list' \in Seq(Clients) /\ Len(client_list') = Len(client_list) + 1
      BY <1>8
    <3> QED
      BY <1>0, <1>1, <1>2, <2>2, <2>3, <2>4, <3>1 DEF SinkTypes
  <2>6. ServerOk'
    BY <1>8, <2>1 DEF ServerOk
  <2>7. ASSUME NEW c \in Clients PROVE ClientOk(c)'
    BY <1>0, <1>1, <1>4, <1>6, <2>1 DEF ClientOk
  <2> QED
    BY <1>0, <1>1, <2>5, <2>6, <2>7 DEF SinkBase
<1> QED
  BY <1>5, <1>7, <1>8

(* The server answers.                                                     *)
LEMMA BaseServerSend == SinkBase /\ (ServerReply \/ ServerConfig) => SinkBase'
<1> SUFFICES ASSUME SinkBase, ServerReply \/ ServerConfig PROVE SinkBase'
  OBVIOUS
<1>0. SinkTypes /\ ServerOk /\ Level(next) /\ \A c \in Clients : ClientOk(c)
  BY DEF SinkBase
<1>1. /\ requests' = requests /\ client_list' = client_list /\ next' = next
      /\ pc' = pc /\ nof_serv_pkt' = nof_serv_pkt /\ ring' = ring /\ lostPkt' = lostPkt
      /\ lostReq' = lostReq /\ dci_tti' = dci_tti
  BY DEF ServerReply, ServerConfig, clientVars, senderVars, lossVars
<1>2. Listed' = Listed
  BY <1>1 DEF Listed
<1>3. \E to \in SUBSET Listed, m \in Msgs : queue' = Send(queue, to, <<m>>)
  <2>1. CASE ServerReply
    <3>1. serving.client \in Listed
      BY <1>0, <2>1 DEF ServerReply, ServerOk, Idle
    <3> QED
      BY <2>1, <3>1, MsgKinds DEF ServerReply
  <2>2. CASE ServerConfig
    BY <2>2, MsgKinds DEF ServerConfig
  <2> QED
    BY <2>1, <2>2
<1>4. PICK to \in SUBSET Listed, m \in Msgs : queue' = Send(queue, to, <<m>>)
  BY <1>3
<1>5. queue \in [Clients -> Seq(Msgs)]
  BY <1>0 DEF SinkTypes
<1>6. ASSUME NEW c \in Clients
      PROVE  queue' \in [Clients -> Seq(Msgs)] /\ (c \notin Listed \/ pc[c] = "closed" => queue'[c] = queue[c])
  BY <1>4, <1>5, SendAt
<1>7. queue' \in [Clients -> Seq(Msgs)]
  <2>1. CASE Clients = {}
    BY <1>4, <2>1 DEF Send
  <2>2. CASE Clients # {}
    BY <1>6, <2>2
  <2> QED
    BY <2>1, <2>2
<1>8. serving' \in [step : Steps, client : Clients \cup {NoClient}, left : 0 .. 2] /\ ServerOk'
  <2>1. CASE ServerReply
    <3>1. /\ serving.step = "reply" /\ serving.client \in Listed /\ serving.left \in {1, 2}
          /\ serving \in [step : Steps, client : Clients \cup {NoClient}, left : 0 .. 2]
      BY <1>0, <2>1 DEF ServerReply, ServerOk, Idle, SinkTypes
    <3>2. PICK x, l : x = serving.client /\ l = serving.left
      OBVIOUS
    <3>3. serving = [step |-> "reply", client |-> x, left |-> l]
      BY <3>1, <3>2
    <3>4. serving' = [step |-> IF l = 1 THEN "config" ELSE "reply", client |-> x, left |-> l - 1]
      BY <2>1, <3>2, <3>3 DEF ServerReply
    <3>5. x \in Listed /\ x \in Clients \cup {NoClient} /\ l \in {1, 2}
      BY <3>1, <3>2
    <3>6. serving' \in [step : Steps, client : Clients \cup {NoClient}, left : 0 .. 2]
      BY <3>4, <3>5 DEF Steps
    <3>7. serving'.step = (IF l = 1 THEN "config" ELSE "reply") /\ serving'.client = x /\ serving'.left = l - 1
      BY <3>4
    <3> QED
      BY <1>2, <3>5, <3>6, <3>7 DEF ServerOk
  <2>2. CASE ServerConfig
    BY <2>2 DEF ServerConfig, ServerOk, Idle, Steps
  <2> QED
    BY <2>1, <2>2
<1>9. SinkTypes'
  BY <1>0, <1>1, <1>2, <1>7, <1>8 DEF SinkTypes
<1>10. ASSUME NEW c \in Clients PROVE ClientOk(c)'
  BY <1>0, <1>1, <1>2, <1>6 DEF ClientOk
<1> QED
  BY <1>0, <1>1, <1>8, <1>9, <1>10 DEF SinkBase

(* A DCI is sent: what the step does to the counters.                      *)
LEMMA SendFacts ==
  ASSUME SinkTypes, Level(next), NEW i \in RfDevs, SendDci(i)
  PROVE  /\ next' \in [RfDevs -> FirstDci .. LastDci + 1] /\ OneMore(next, i, next')
         /\ Level(next') /\ Dci(i, next[i]) \in Msgs /\ next[i] \in Nat
         /\ \A a \in RfDevs : next[i] - next[a] < MaxAhead
         /\ queue' = Send(queue, Listed, <<Dci(i, next[i])>>)
         /\ requests' = requests /\ client_list' = client_list /\ serving' = serving
         /\ pc' = pc /\ nof_serv_pkt' = nof_serv_pkt /\ ring' = ring /\ lostPkt' = lostPkt
         /\ lostReq' = lostReq /\ dci_tti' \in SentTtis
<1>1. /\ next \in [RfDevs -> FirstDci .. LastDci + 1] /\ next[i] <= LastDci
      /\ \A a \in RfDevs : next[i] - next[a] < MaxAhead
      /\ next' = [next EXCEPT ![i] = @ + 1]
      /\ next \in [RfDevs -> Nat] /\ \A a, b \in RfDevs : next[a] - next[b] <= MaxAhead
  BY DEF SinkTypes, SendDci, Level
<1>2. next[i] + 1 \in FirstDci .. LastDci + 1 /\ next[i] \in Nat
  BY <1>1, SinkConstants
<1>3. next' \in [RfDevs -> FirstDci .. LastDci + 1]
  BY <1>1, <1>2
<1>4. next'[i] = next[i] + 1 /\ next' \in [RfDevs -> Nat] /\ \A a \in RfDevs \ {i} : next'[a] = next[a]
  BY <1>1, <1>2
<1>5. ASSUME NEW a \in RfDevs, NEW b \in RfDevs PROVE next'[a] - next'[b] <= MaxAhead
  <2>1. next[a] \in Nat /\ next[b] \in Nat /\ next[a] - next[b] <= MaxAhead /\ next[i] - next[b] < MaxAhead
        /\ MaxAhead \in Nat
    BY <1>1, SinkConstants
  <2>2. CASE a = i /\ b = i
    BY <1>2, <1>4, <2>1, <2>2
  <2>3. CASE a = i /\ b # i
    BY <1>2, <1>4, <2>1, <2>3
  <2>4. CASE a # i /\ b = i
    BY <1>2, <1>4, <2>1, <2>4
  <2>5. CASE a # i /\ b # i
    BY <1>4, <2>1, <2>5
  <2> QED
    BY <2>2, <2>3, <2>4, <2>5
<1>6. Dci(i, next[i]) \in Msgs
  BY <1>2, MsgKinds
<1>7. dci_tti' \in SentTtis
  <2>1. dci_tti \in SentTtis
    BY DEF SinkTypes
  <2>2. ASSUME NEW t \in GivenUpTtis(next[i]), dci_tti' = [dci_tti EXCEPT ![i][next[i]] = t]
        PROVE  dci_tti' \in SentTtis
    <3>1. t \in 0 .. MaxTti - 1
      <4>1. \A m \in 0 .. next[i] - 1 : Tti(m) \in 0 .. MaxTti - 1
        BY <1>2, TtiInRange
      <4>2. 0 \in 0 .. MaxTti - 1
        BY SinkAssumption
      <4> QED
        BY <2>2, <4>1, <4>2 DEF GivenUpTtis
    <3> QED
      BY <2>1, <2>2, <3>1 DEF SentTtis
  <2> QED
    BY <2>1, <2>2 DEF SendDci
<1> QED
  BY <1>1, <1>2, <1>3, <1>4, <1>5, <1>6, <1>7 DEF OneMore, Level, SendDci, serverVars, clientVars, senderVars, lossVars

(* A DCI is sent.                                                          *)
LEMMA BaseSendDci == ASSUME SinkBase, NEW i \in RfDevs, SendDci(i) PROVE SinkBase'
<1>0. SinkTypes /\ ServerOk /\ Level(next) /\ \A c \in Clients : ClientOk(c)
  BY DEF SinkBase
<1>1. PICK m \in Msgs : m = Dci(i, next[i])
  BY <1>0, SendFacts
<1>2. /\ next' \in [RfDevs -> FirstDci .. LastDci + 1] /\ Level(next')
      /\ queue' = Send(queue, Listed, <<m>>)
      /\ requests' = requests /\ client_list' = client_list /\ serving' = serving
      /\ pc' = pc /\ nof_serv_pkt' = nof_serv_pkt /\ ring' = ring /\ lostPkt' = lostPkt
      /\ lostReq' = lostReq /\ dci_tti' \in SentTtis
  BY <1>0, <1>1, SendFacts
<1>3. Listed' = Listed
  BY <1>2 DEF Listed
<1>4. queue \in [Clients -> Seq(Msgs)]
  BY <1>0 DEF SinkTypes
<1>5. ASSUME NEW c \in Clients
      PROVE  queue' \in [Clients -> Seq(Msgs)] /\ (c \notin Listed \/ pc[c] = "closed" => queue'[c] = queue[c])
  BY <1>2, <1>4, SendAt
<1>6. queue' \in [Clients -> Seq(Msgs)]
  <2>1. CASE Clients = {}
    BY <1>2, <2>1 DEF Send
  <2>2. CASE Clients # {}
    BY <1>5, <2>2
  <2> QED
    BY <2>1, <2>2
<1>7. SinkTypes'
  BY <1>0, <1>2, <1>3, <1>6 DEF SinkTypes
<1>8. ServerOk'
  BY <1>0, <1>2, <1>3 DEF ServerOk, Idle
<1>9. ASSUME NEW c \in Clients PROVE ClientOk(c)'
  BY <1>0, <1>2, <1>3, <1>5 DEF ClientOk
<1> QED
  BY <1>2, <1>7, <1>8, <1>9 DEF SinkBase

(* Requests are sent.                                                      *)
LEMMA RequestsSent ==
  ASSUME requests \in Seq(Requests), NEW c \in Clients, NEW more \in Seq(Requests),
         \A k \in 1 .. Len(more) : more[k].from = c, requests' = requests \o more
  PROVE  /\ requests' \in Seq(Requests)
         /\ \A k \in 1 .. Len(requests') : requests'[k].from = c \/ \E x \in 1 .. Len(requests) : requests'[k] = requests[x]
<1>1. PICK s : s = requests \o more
  OBVIOUS
<1>2. Len(requests) \in Nat /\ Len(more) \in Nat
  BY LenProperties
<1>3. /\ s \in Seq(Requests) /\ Len(s) = Len(requests) + Len(more)
      /\ \A x \in 1 .. Len(requests) + Len(more) : s[x] = IF x <= Len(requests) THEN requests[x] ELSE more[x - Len(requests)]
  BY <1>1, ConcatProperties
<1>4. ASSUME NEW k \in 1 .. Len(s) PROVE s[k].from = c \/ \E x \in 1 .. Len(requests) : s[k] = requests[x]
  <2>1. CASE k <= Len(requests)
    <3>1. k \in 1 .. Len(requests)
      BY <1>2, <1>3, <2>1
    <3> QED
      BY <1>3, <2>1, <3>1
  <2>2. CASE ~(k <= Len(requests))
    <3>1. k - Len(requests) \in 1 .. Len(more)
      BY <1>2, <1>3, <2>2
    <3> QED
      BY <1>3, <2>2, <3>1
  <2> QED
    BY <2>1, <2>2
<1> QED
  BY <1>1, <1>3, <1>4

(* A client connects or closes.                                            *)
LEMMA BaseClientSend == ASSUME SinkBase, NEW c \in Clients, ClientConnect(c) \/ ClientClose(c) PROVE SinkBase'
<1>0. SinkTypes /\ ServerOk /\ Level(next) /\ \A d \in Clients : ClientOk(d)
  BY DEF SinkBase
<1>1. /\ client_list' = client_list /\ serving' = serving /\ next' = next /\ nof_serv_pkt' = nof_serv_pkt
      /\ ring' = ring /\ lostPkt' = lostPkt
      /\ lostReq' = lostReq /\ dci_tti' = dci_tti
  BY DEF ClientConnect, ClientClose, serverVars, senderVars, lossVars
<1>2. Listed' = Listed
  BY <1>1 DEF Listed
<1>3. /\ requests' \in Seq(Requests)
      /\ \A k \in 1 .. Len(requests') : requests'[k].from = c \/ \E x \in 1 .. Len(requests) : requests'[k] = requests[x]
  <2>1. \E more \in Seq(Requests) : requests' = requests \o more /\ \A k \in 1 .. Len(more) : more[k].from = c
    <3>1. CASE ClientConnect(c)
      <4>1. <<Connect(c), Connect(c)>> \in Seq(Requests)
            /\ \A k \in 1 .. Len(<<Connect(c), Connect(c)>>) : <<Connect(c), Connect(c)>>[k].from = c
        BY RequestFields
      <4> QED
        BY <3>1, <4>1 DEF ClientConnect
    <3>2. CASE ClientClose(c)
      <4>1. <<Close(c), Close(c), Close(c)>> \in Seq(Requests)
            /\ \A k \in 1 .. Len(<<Close(c), Close(c), Close(c)>>) : <<Close(c), Close(c), Close(c)>>[k].from = c
        BY RequestFields
      <4> QED
        BY <3>2, <4>1 DEF ClientClose
    <3> QED
      BY <3>1, <3>2
  <2>2. requests \in Seq(Requests)
    BY <1>0 DEF SinkTypes
  <2> QED
    BY <2>1, <2>2, RequestsSent
<1>4. /\ pc' \in [Clients -> {"off", "connecting", "connected", "closed"}] /\ pc'[c] # "off"
      /\ queue' \in [Clients -> Seq(Msgs)]
      /\ \A d \in Clients \ {c} : pc'[d] = pc[d] /\ queue'[d] = queue[d]
  <2>1. pc \in [Clients -> {"off", "connecting", "connected", "closed"}] /\ queue \in [Clients -> Seq(Msgs)]
        /\ << >> \in Seq(Msgs)
    BY <1>0 DEF SinkTypes
  <2>2. CASE ClientConnect(c)
    BY <2>1, <2>2 DEF ClientConnect
  <2>3. CASE ClientClose(c)
    <3>1. pc' = [pc EXCEPT ![c] = "closed"] /\ queue' = [queue EXCEPT ![c] = << >>]
      BY <2>3 DEF ClientClose
    <3>2. queue' \in [Clients -> Seq(Msgs)]
      BY <2>1, <3>1
    <3> QED
      BY <2>1, <3>1, <3>2
  <2> QED
    BY <2>2, <2>3
<1>5. SinkTypes'
  BY <1>0, <1>1, <1>2, <1>3, <1>4 DEF SinkTypes
<1>6. ServerOk'
  BY <1>0, <1>1, <1>2 DEF ServerOk, Idle
<1>7. ASSUME NEW d \in Clients \ {c} PROVE ClientOk(d)'
  <2>1. pc[d] = "off" => \A k \in 1 .. Len(requests') : requests'[k].from # d
    BY <1>0, <1>3 DEF ClientOk
  <2> QED
    BY <1>0, <1>1, <1>2, <1>4, <2>1 DEF ClientOk
<1>8. ClientOk(c)'
  <2>1. CASE ClientConnect(c)
    <3>1. pc[c] = "off" /\ pc'[c] = "connecting" /\ queue' = queue
      BY <1>0, <2>1 DEF SinkTypes, ClientConnect
    <3> QED
      BY <1>0, <1>1, <1>2, <3>1 DEF ClientOk
  <2>2. CASE ClientClose(c)
    <3>1. pc'[c] = "closed" /\ queue'[c] = << >>
      BY <1>0, <2>2 DEF SinkTypes, ClientClose
    <3> QED
      BY <1>0, <1>1, <1>2, <3>1 DEF ClientOk
  <2> QED
    BY <2>1, <2>2
<1> QED
  BY <1>0, <1>1, <1>5, <1>6, <1>7, <1>8 DEF SinkBase

(* A client takes the first packet of its queue.                           *)
LEMMA QueueTaken ==
  ASSUME SinkTypes, NEW c \in Clients, queue[c] # << >>, queue' = [queue EXCEPT ![c] = Tail(@)]
  PROVE  /\ queue' \in [Clients -> Seq(Msgs)] /\ Without(queue[c], 1, queue'[c])
         /\ 1 \in 1 .. Len(queue[c]) /\ Head(queue[c]) = queue[c][1] /\ queue[c][1] \in Msgs
         /\ \A d \in Clients \ {c} : queue'[d] = queue[d]
<1>1. queue \in [Clients -> Seq(Msgs)] /\ queue[c] \in Seq(Msgs)
  BY DEF SinkTypes
<1>2. Without(queue[c], 1, Tail(queue[c])) /\ Tail(queue[c]) \in Seq(Msgs)
  BY <1>1, TailWithout DEF Without
<1>3. 1 \in 1 .. Len(queue[c]) /\ Head(queue[c]) = queue[c][1]
  BY <1>1, HeadTailProperties, LenProperties
<1>4. queue[c][1] \in Msgs
  BY <1>1, <1>3, ElementOfSeq
<1> QED
  BY <1>1, <1>2, <1>3, <1>4

(* A connecting client takes one.                                          *)
LEMMA AwaitFacts ==
  ASSUME SinkTypes, NEW c \in Clients, ClientOk(c), ClientAwait(c)
  PROVE  /\ pc[c] = "connecting" /\ queue[c] # << >> /\ queue' = [queue EXCEPT ![c] = Tail(@)]
         /\ requests' = requests /\ client_list' = client_list /\ serving' = serving /\ next' = next
         /\ ring' = ring /\ lostPkt' = lostPkt
         /\ lostReq' = lostReq /\ dci_tti' = dci_tti
         /\ nof_serv_pkt' \in [Clients -> 0 .. 2]
         /\ nof_serv_pkt'[c] = nof_serv_pkt[c] + (IF queue[c][1].type = "config" THEN 0 ELSE 1)
         /\ pc' \in [Clients -> {"off", "connecting", "connected", "closed"}]
         /\ pc'[c] = IF nof_serv_pkt'[c] >= 2 THEN "connected" ELSE "connecting"
         /\ \A d \in Clients \ {c} : pc'[d] = pc[d] /\ nof_serv_pkt'[d] = nof_serv_pkt[d]
<1>1. /\ pc[c] = "connecting" /\ queue[c] # << >> /\ queue' = [queue EXCEPT ![c] = Tail(@)]
      /\ requests' = requests /\ client_list' = client_list /\ serving' = serving /\ next' = next
      /\ ring' = ring /\ lostPkt' = lostPkt
      /\ lostReq' = lostReq /\ dci_tti' = dci_tti
  BY DEF ClientAwait, serverVars, senderVars, lossVars
<1>2. Head(queue[c]) = queue[c][1]
  BY <1>1, QueueTaken
<1>3. nof_serv_pkt \in [Clients -> 0 .. 2] /\ nof_serv_pkt[c] \in {0, 1}
      /\ pc \in [Clients -> {"off", "connecting", "connected", "closed"}]
  <2>1. nof_serv_pkt \in [Clients -> 0 .. 2] /\ pc \in [Clients -> {"off", "connecting", "connected", "closed"}]
    BY DEF SinkTypes
  <2>2. nof_serv_pkt[c] < 2
    BY <1>1 DEF ClientOk
  <2> QED
    BY <2>1, <2>2
<1>4. PICK n \in 0 .. 2 : n = nof_serv_pkt[c] + (IF queue[c][1].type = "config" THEN 0 ELSE 1)
  BY <1>3
<1>5. nof_serv_pkt' = [nof_serv_pkt EXCEPT ![c] = n]
  BY <1>2, <1>4 DEF ClientAwait
<1>6. nof_serv_pkt' \in [Clients -> 0 .. 2] /\ nof_serv_pkt'[c] = n /\ \A d \in Clients \ {c} : nof_serv_pkt'[d] = nof_serv_pkt[d]
  BY <1>3, <1>5
<1>7. PICK x \in {"off", "connecting", "connected", "closed"} : x = IF nof_serv_pkt'[c] >= 2 THEN "connected" ELSE pc[c]
  BY <1>1
<1>8. pc' = [pc EXCEPT ![c] = x]
  BY <1>7 DEF ClientAwait
<1>9. /\ pc' \in [Clients -> {"off", "connecting", "connected", "closed"}] /\ pc'[c] = x
      /\ \A d \in Clients \ {c} : pc'[d] = pc[d]
  BY <1>3, <1>8
<1> QED
  BY <1>1, <1>4, <1>6, <1>7, <1>9

(* So the first part of the invariant stays.                               *)
LEMMA BaseAwait == ASSUME SinkBase, NEW c \in Clients, ClientAwait(c) PROVE SinkBase'
<1>0. SinkTypes /\ ServerOk /\ Level(next) /\ \A d \in Clients : ClientOk(d)
  BY DEF SinkBase
<1>1. /\ pc[c] = "connecting" /\ queue[c] # << >> /\ queue' = [queue EXCEPT ![c] = Tail(@)]
      /\ requests' = requests /\ client_list' = client_list /\ serving' = serving /\ next' = next
      /\ ring' = ring /\ lostPkt' = lostPkt
      /\ lostReq' = lostReq /\ dci_tti' = dci_tti
      /\ nof_serv_pkt' \in [Clients -> 0 .. 2]
      /\ pc' \in [Clients -> {"off", "connecting", "connected", "closed"}]
      /\ pc'[c] = IF nof_serv_pkt'[c] >= 2 THEN "connected" ELSE "connecting"
      /\ \A d \in Clients \ {c} : pc'[d] = pc[d] /\ nof_serv_pkt'[d] = nof_serv_pkt[d]
  BY <1>0, AwaitFacts
<1>2. queue' \in [Clients -> Seq(Msgs)] /\ \A d \in Clients \ {c} : queue'[d] = queue[d]
  BY <1>0, <1>1, QueueTaken
<1>3. Listed' = Listed
  BY <1>1 DEF Listed
<1>4. c \in Listed
  BY <1>0, <1>1 DEF ClientOk
<1>5. SinkTypes'
  BY <1>0, <1>1, <1>2, <1>3 DEF SinkTypes
<1>6. ServerOk'
  BY <1>0, <1>1, <1>3 DEF ServerOk, Idle
<1>7. ASSUME NEW d \in Clients \ {c} PROVE ClientOk(d)'
  BY <1>0, <1>1, <1>2, <1>3 DEF ClientOk
<1>8. ClientOk(c)'
  <2>1. nof_serv_pkt'[c] \in 0 .. 2
    BY <1>1
  <2> QED
    BY <1>0, <1>1, <1>3, <1>4, <2>1 DEF ClientOk
<1> QED
  BY <1>0, <1>1, <1>5, <1>6, <1>7, <1>8 DEF SinkBase

(* A connected client takes one: what becomes of its buffers.              *)
LEMMA RecvFacts ==
  ASSUME SinkTypes, NEW c \in Clients, ClientOk(c), ClientRecv(c)
  PROVE  /\ pc[c] = "connected" /\ queue[c] # << >> /\ queue' = [queue EXCEPT ![c] = Tail(@)]
         /\ requests' = requests /\ client_list' = client_list /\ serving' = serving /\ next' = next
         /\ pc' = pc /\ nof_serv_pkt' = nof_serv_pkt /\ lostPkt' = lostPkt
         /\ lostReq' = lostReq /\ dci_tti' = dci_tti
         /\ DOMAIN ring' = Clients /\ ring' = [d \in Clients |-> ring'[d]]
         /\ \A d \in Clients \ {c} : ring'[d] = ring[d]
         /\ CaShape(ring'[c])
         /\ \/ queue[c][1].type = "ack" /\ ring'[c] = ring[c]
            \/ queue[c][1].type = "config" /\ ring'[c].cell = ring[c].cell /\ ring'[c].nof_cell = NofRfDev
            \/ /\ queue[c][1].type = "dci" /\ ring'[c].nof_cell = ring[c].nof_cell
               /\ queue[c][1].cell \in RfDevs /\ queue[c][1].n \in Nat
               /\ Stored(ring[c].cell, queue[c][1].cell, queue[c][1].n, ring'[c].cell)
               /\ \E stale \in [RfDevs -> StaleTimes] :
                      ring'[c] = CaUpdate(Insert(ring[c], queue[c][1].cell, queue[c][1].n), stale)
<1>1. /\ pc[c] = "connected" /\ queue[c] # << >> /\ queue' = [queue EXCEPT ![c] = Tail(@)]
      /\ requests' = requests /\ client_list' = client_list /\ serving' = serving /\ next' = next
      /\ pc' = pc /\ nof_serv_pkt' = nof_serv_pkt /\ lostPkt' = lostPkt
      /\ lostReq' = lostReq /\ dci_tti' = dci_tti
  BY DEF ClientRecv, serverVars, senderVars, lossVars
<1>2. PICK m \in Msgs : m = queue[c][1] /\ m = Head(queue[c])
  BY <1>1, QueueTaken
<1>3. \E r : /\ ring' = [ring EXCEPT ![c] = r] /\ CaShape(r)
             /\ \/ m.type = "ack" /\ r = ring[c]
                \/ m.type = "config" /\ r.cell = ring[c].cell /\ r.nof_cell = NofRfDev
                \/ /\ m.type = "dci" /\ r.nof_cell = ring[c].nof_cell
                   /\ m.cell \in RfDevs /\ m.n \in Nat
                   /\ Stored(ring[c].cell, m.cell, m.n, r.cell)
                   /\ \E stale \in [RfDevs -> StaleTimes] : r = CaUpdate(Insert(ring[c], m.cell, m.n), stale)
  <2>1. CaShape(ring[c]) /\ DOMAIN ring = Clients /\ ring = [d \in Clients |-> ring[d]]
    BY DEF ClientOk, SinkTypes
  <2>2. CASE m.type = "ack" /\ ring' = ring
    <3>1. ring' = [ring EXCEPT ![c] = ring[c]]
      BY <2>1, <2>2
    <3> QED
      BY <2>1, <2>2, <3>1
  <2>3. CASE m.type = "config" /\ ring' = [ring EXCEPT ![c].nof_cell = NofRfDev]
    <3>1. PICK r : r = [ring[c] EXCEPT !.nof_cell = NofRfDev]
      OBVIOUS
    <3>2. ring' = [ring EXCEPT ![c] = r]
      BY <2>3, <3>1
    <3>3. CaShape(r) /\ r.cell = ring[c].cell /\ r.nof_cell = NofRfDev
      BY <2>1, <3>1, ConfigShape
    <3> QED
      BY <2>3, <3>2, <3>3
  <2>4. CASE /\ m.type = "dci"
             /\ \E stale \in [RfDevs -> StaleTimes] :
                    ring' = [ring EXCEPT ![c] = CaUpdate(Insert(@, m.cell, m.n), stale)]
    <3>1. m.cell \in RfDevs /\ m.n \in Nat
      BY <2>4, MsgFields
    <3>2. PICK stale \in [RfDevs -> StaleTimes] :
                    ring' = [ring EXCEPT ![c] = CaUpdate(Insert(@, m.cell, m.n), stale)]
      BY <2>4
    <3>3. PICK t : t = Insert(ring[c], m.cell, m.n)
      OBVIOUS
    <3>4. CaShape(t) /\ Stored(ring[c].cell, m.cell, m.n, t.cell) /\ t.nof_cell = ring[c].nof_cell
      BY <2>1, <3>1, <3>3, InsertShape
    <3>5. PICK r : r = CaUpdate(t, stale)
      OBVIOUS
    <3>6. CaShape(r) /\ r.cell = t.cell /\ r.nof_cell = t.nof_cell
      BY <3>4, <3>5, UpdateShape
    <3>7. ring' = [ring EXCEPT ![c] = r]
      BY <3>2, <3>3, <3>5
    <3> QED
      BY <2>4, <3>1, <3>3, <3>4, <3>5, <3>6, <3>7
  <2> QED
    BY <1>2, <2>2, <2>3, <2>4 DEF ClientRecv
<1>4. PICK r : /\ ring' = [ring EXCEPT ![c] = r] /\ CaShape(r)
               /\ \/ m.type = "ack" /\ r = ring[c]
                  \/ m.type = "config" /\ r.cell = ring[c].cell /\ r.nof_cell = NofRfDev
                  \/ /\ m.type = "dci" /\ r.nof_cell = ring[c].nof_cell
                     /\ m.cell \in RfDevs /\ m.n \in Nat
                     /\ Stored(ring[c].cell, m.cell, m.n, r.cell)
                     /\ \E stale \in [RfDevs -> StaleTimes] : r = CaUpdate(Insert(ring[c], m.cell, m.n), stale)
  BY <1>3
<1>5. /\ DOMAIN ring' = Clients /\ ring' = [d \in Clients |-> ring'[d]]
      /\ ring'[c] = r /\ \A d \in Clients \ {c} : ring'[d] = ring[d]
  BY <1>4 DEF SinkTypes
<1> QED
  BY <1>1, <1>2, <1>4, <1>5

(* So the first part of the invariant stays.                               *)
LEMMA BaseClientRecv == ASSUME SinkBase, NEW c \in Clients, ClientRecv(c) PROVE SinkBase'
<1>0. SinkTypes /\ ServerOk /\ Level(next) /\ \A d \in Clients : ClientOk(d)
  BY DEF SinkBase
<1>1. /\ pc[c] = "connected" /\ queue[c] # << >> /\ queue' = [queue EXCEPT ![c] = Tail(@)]
      /\ requests' = requests /\ client_list' = client_list /\ serving' = serving /\ next' = next
      /\ pc' = pc /\ nof_serv_pkt' = nof_serv_pkt /\ lostPkt' = lostPkt
      /\ lostReq' = lostReq /\ dci_tti' = dci_tti
      /\ DOMAIN ring' = Clients /\ ring' = [d \in Clients |-> ring'[d]]
      /\ \A d \in Clients \ {c} : ring'[d] = ring[d]
      /\ CaShape(ring'[c])
  BY <1>0, RecvFacts
<1>2. queue' \in [Clients -> Seq(Msgs)] /\ \A d \in Clients \ {c} : queue'[d] = queue[d]
  BY <1>0, <1>1, QueueTaken
<1>3. Listed' = Listed
  BY <1>1 DEF Listed
<1>4. c \in Listed
  BY <1>0, <1>1 DEF ClientOk
<1>5. SinkTypes'
  BY <1>0, <1>1, <1>2, <1>3 DEF SinkTypes
<1>6. ServerOk'
  BY <1>0, <1>1, <1>3 DEF ServerOk, Idle
<1>7. ASSUME NEW d \in Clients \ {c} PROVE ClientOk(d)'
  BY <1>0, <1>1, <1>2, <1>3 DEF ClientOk
<1>8. ClientOk(c)'
  BY <1>0, <1>1, <1>3, <1>4 DEF ClientOk
<1> QED
  BY <1>0, <1>1, <1>5, <1>6, <1>7, <1>8 DEF SinkBase

(* A lost packet is recorded.                                              *)
LEMMA LostFacts ==
  ASSUME SinkTypes, Len(lostPkt) < MaxLostPkt, NEW c \in Clients, lostPkt' = Append(lostPkt, c)
  PROVE  /\ lostPkt' \in Seq(Clients) /\ Len(lostPkt) \in Nat /\ Len(lostPkt') = Len(lostPkt) + 1
         /\ Len(lostPkt') <= MaxLostPkt
         /\ \A d : Unharmed(d)' => Unharmed(d) /\ d # c
<1>1. lostPkt \in Seq(Clients) /\ Len(lostPkt) \in Nat /\ DOMAIN lostPkt = 1 .. Len(lostPkt) /\ MaxLostPkt \in Nat
  BY SinkConstants, LenProperties DEF SinkTypes
<1>2. PICK a : a = Append(lostPkt, c)
  OBVIOUS
<1>3. /\ a \in Seq(Clients) /\ Len(a) = Len(lostPkt) + 1 /\ DOMAIN a = 1 .. Len(lostPkt) + 1
      /\ \A x \in 1 .. Len(lostPkt) : a[x] = lostPkt[x]
      /\ a[Len(lostPkt) + 1] = c
  BY <1>1, <1>2, AppendProperties
<1>4. ASSUME NEW d, d \in ToSet(lostPkt) \/ d = c PROVE d \in ToSet(a)
  <2>1. CASE d = c
    <3>1. Len(lostPkt) + 1 \in DOMAIN a
      BY <1>1, <1>3
    <3> QED
      BY <1>3, <2>1, <3>1 DEF ToSet
  <2>2. CASE d \in ToSet(lostPkt)
    <3>1. PICK k \in 1 .. Len(lostPkt) : d = lostPkt[k]
      BY <1>1, <2>2 DEF ToSet
    <3>2. k \in 1 .. Len(lostPkt) + 1
      BY <1>1
    <3> QED
      BY <1>3, <3>1, <3>2 DEF ToSet
  <2> QED
    BY <1>4, <2>1, <2>2
<1>5. Len(a) <= MaxLostPkt
  BY <1>1, <1>3
<1> QED
  BY <1>1, <1>2, <1>3, <1>4, <1>5 DEF Unharmed

\* Neither the server, nor the sender, nor a client notices a loss.
Unnoticed ==
    /\ client_list' = client_list /\ serving' = serving /\ next' = next /\ dci_tti' = dci_tti
    /\ pc' = pc /\ nof_serv_pkt' = nof_serv_pkt /\ ring' = ring

(* A loss is noticed by nobody.                                            *)
LEMMA LossUnnoticed == LosePkt => Unnoticed
BY DEF LosePkt, LoseToServer, LoseToClient, serverVars, clientVars, senderVars, Unnoticed

(* A lost request.                                                         *)
LEMMA RequestLost ==
  ASSUME SinkTypes, LoseToServer
  PROVE  /\ lostPkt' = lostPkt /\ queue' = queue /\ lostReq' \in Seq(Clients)
         /\ requests' \in Seq(Requests)
         /\ \A k \in 1 .. Len(requests') : \E x \in 1 .. Len(requests) : requests'[k] = requests[x]
<1>1. PICK i \in 1 .. Len(requests) :
          /\ requests' = RemoveAt(requests, i)
          /\ lostReq' = Append(lostReq, requests[i].from)
          /\ UNCHANGED <<serverVars, senderVars, queue, clientVars, lostPkt>>
  BY DEF LoseToServer
<1>2. requests \in Seq(Requests) /\ queue \in [Clients -> Seq(Msgs)]
  BY DEF SinkTypes
<1>3. requests[i] \in Requests /\ requests[i].from \in Clients
  BY <1>2, ElementOfSeq, RequestFields
<1>4. /\ requests' \in Seq(Requests)
      /\ \A k \in 1 .. Len(requests') : \E x \in 1 .. Len(requests) : requests'[k] = requests[x]
  <2>1. PICK s : s = RemoveAt(requests, i)
    OBVIOUS
  <2>2. s \in Seq(Requests) /\ \A k \in 1 .. Len(s) : \E x \in 1 .. Len(requests) : s[k] = requests[x]
    BY <1>2, <2>1, RemoveElements
  <2>3. requests' = s
    BY <1>1, <2>1
  <2> QED
    BY <2>2, <2>3
<1>5. lostReq' \in Seq(Clients)
  BY <1>1, <1>3 DEF SinkTypes
<1> QED
  BY <1>1, <1>4, <1>5

(* A lost packet to a client.                                              *)
LEMMA PacketLost ==
  ASSUME SinkTypes, NEW c \in Clients, LoseToClient(c)
  PROVE  /\ lostPkt' = Append(lostPkt, c) /\ lostReq' = lostReq
         /\ requests' = requests /\ requests \in Seq(Requests)
         /\ queue' \in [Clients -> Seq(Msgs)]
         /\ \A d \in Clients \ {c} : queue'[d] = queue[d]
         /\ \E k \in 1 .. Len(queue[c]) : Without(queue[c], k, queue'[c])
<1>1. PICK i \in 1 .. Len(queue[c]) : queue' = [queue EXCEPT ![c] = RemoveAt(@, i)]
  BY DEF LoseToClient
<1>2. queue \in [Clients -> Seq(Msgs)] /\ queue[c] \in Seq(Msgs) /\ requests \in Seq(Requests)
  BY DEF SinkTypes
<1>3. Without(queue[c], i, RemoveAt(queue[c], i)) /\ RemoveAt(queue[c], i) \in Seq(Msgs)
  BY <1>2, RemoveWithout DEF Without
<1>4. queue' \in [Clients -> Seq(Msgs)] /\ queue'[c] = RemoveAt(queue[c], i) /\ \A d \in Clients \ {c} : queue'[d] = queue[d]
  BY <1>1, <1>2, <1>3
<1> QED
  BY <1>2, <1>3, <1>4 DEF LoseToClient

(* What is lost: a request, or a packet to a client.                       *)
LEMMA LossFacts ==
  ASSUME SinkTypes, LosePkt
  PROVE  \/ LoseToServer
         \/ Len(lostPkt) < MaxLostPkt /\ \E c \in Clients : LoseToClient(c)
<1>1. Len(lostPkt) \in Nat /\ Len(lostReq) \in Nat /\ MaxLostPkt \in Nat
  BY SinkConstants, LenProperties DEF SinkTypes
<1>2. Len(lostPkt) + Len(lostReq) < MaxLostPkt
  BY DEF LosePkt
<1>3. Len(lostPkt) < MaxLostPkt
  BY <1>1, <1>2
<1> QED
  BY <1>3 DEF LosePkt

(* A packet is lost.                                                       *)
LEMMA BaseLose == SinkBase /\ LosePkt => SinkBase'
<1> SUFFICES ASSUME SinkBase, LosePkt PROVE SinkBase'
  OBVIOUS
<1>0. SinkTypes /\ ServerOk /\ Level(next) /\ \A d \in Clients : ClientOk(d)
  BY DEF SinkBase
<1>1. Unnoticed
  BY LossUnnoticed
<1>l. /\ requests' \in Seq(Requests) /\ queue' \in [Clients -> Seq(Msgs)] /\ lostReq' \in Seq(Clients)
      /\ lostPkt' \in Seq(Clients) /\ Len(lostPkt') <= MaxLostPkt
      /\ \A k \in 1 .. Len(requests') : \E x \in 1 .. Len(requests) : requests'[k] = requests[x]
      /\ \A d \in Clients : queue[d] = << >> => queue'[d] = << >>
  <2>1. CASE LoseToServer
    BY <1>0, <2>1, RequestLost DEF SinkTypes
  <2>2. ASSUME NEW c \in Clients, LoseToClient(c), Len(lostPkt) < MaxLostPkt
        PROVE  /\ requests' = requests /\ requests \in Seq(Requests)
               /\ queue' \in [Clients -> Seq(Msgs)] /\ lostReq' \in Seq(Clients)
               /\ lostPkt' \in Seq(Clients) /\ Len(lostPkt') <= MaxLostPkt
               /\ \A d \in Clients : queue[d] = << >> => queue'[d] = << >>
    <3>1. /\ lostPkt' = Append(lostPkt, c) /\ lostReq' = lostReq
          /\ requests' = requests /\ requests \in Seq(Requests)
          /\ queue' \in [Clients -> Seq(Msgs)]
          /\ \A d \in Clients \ {c} : queue'[d] = queue[d]
          /\ Len(queue[c]) # 0
      BY <1>0, <2>2, PacketLost
    <3>2. queue[c] # << >>
      BY <3>1
    <3> QED
      BY <1>0, <2>2, <3>1, <3>2, LostFacts DEF SinkTypes
  <2> QED
    BY <1>0, <2>1, <2>2, LossFacts
<1>2. Listed' = Listed
  BY <1>1 DEF Listed, Unnoticed
<1>3. SinkTypes'
  BY <1>0, <1>1, <1>l, <1>2 DEF SinkTypes, Unnoticed
<1>4. ServerOk'
  BY <1>0, <1>1, <1>2 DEF ServerOk, Idle, Unnoticed
<1>6. ASSUME NEW d \in Clients PROVE ClientOk(d)'
  <2>1. ASSUME pc[d] = "off", NEW k \in 1 .. Len(requests') PROVE requests'[k].from # d
    <3>1. \A x \in 1 .. Len(requests) : requests[x].from # d
      BY <1>0, <2>1 DEF ClientOk
    <3>2. PICK x \in 1 .. Len(requests) : requests'[k] = requests[x]
      BY <1>l
    <3> QED
      BY <3>1, <3>2
  <2> QED
    BY <1>0, <1>1, <1>l, <1>2, <2>1 DEF ClientOk, Unnoticed
<1> QED
  BY <1>0, <1>1, <1>3, <1>4, <1>6 DEF SinkBase, Unnoticed

(* No variable of the sink changes.                                        *)
SinkStutter ==
    /\ requests' = requests /\ client_list' = client_list /\ serving' = serving /\ next' = next /\ pc' = pc
    /\ nof_serv_pkt' = nof_serv_pkt /\ queue' = queue /\ ring' = ring /\ lostPkt' = lostPkt
    /\ lostReq' = lostReq /\ dci_tti' = dci_tti

(* The kinds of steps.                                                     *)
LEMMA SinkSteps ==
  ASSUME [SinkNext]_sinkVars
  PROVE  \/ ServerRecv \/ ServerReply \/ ServerConfig \/ SinkStutter
         \/ \E i \in RfDevs : SendDci(i)
         \/ \E c \in Clients : ClientConnect(c) \/ ClientAwait(c) \/ ClientRecv(c) \/ ClientClose(c)
         \/ LosePkt
BY DEF SinkNext, Server, ServerPoll, sinkVars, SinkStutter

(* The first part of the invariant is inductive.                           *)
LEMMA BaseStep == SinkBase /\ [SinkNext]_sinkVars => SinkBase'
<1> SUFFICES ASSUME SinkBase, [SinkNext]_sinkVars PROVE SinkBase'
  OBVIOUS
<1>1. CASE SinkStutter
  <2>1. Listed' = Listed /\ sinkVars' = sinkVars
    BY <1>1 DEF Listed, SinkStutter, sinkVars
  <2> QED
    BY <1>1, <2>1 DEF SinkStutter, SinkBase, SinkTypes, ServerOk, Idle, ClientOk
<1> QED
  BY <1>1, SinkSteps, BaseServerRecv, BaseServerSend, BaseSendDci, BaseClientSend, BaseAwait, BaseClientRecv, BaseLose

-----------------------------------------------------------------------------
(* The inductive invariant, second part: the DCIs.                         *)

LinkOk(c) ==
    pc[c] # "closed" => /\ Link(queue[c], ring[c].cell, Len(lostPkt), next)
                        /\ Unharmed(c) => Whole(queue[c], ring[c].cell, next)

(* Nothing on the way, nothing stored.                                     *)
LEMMA LinkEmpty ==
  ASSUME NEW l, NEW nx
  PROVE  Link(<< >>, EmptyCaBuf.cell, l, nx) /\ Whole(<< >>, EmptyCaBuf.cell, nx)
<1>1. Buffers(EmptyCaBuf.cell) /\ \A i \in RfDevs : EmptyCaBuf.cell[i].nof = 0
  BY EmptyShape
<1>2. PICK q : q = << >>
  OBVIOUS
<1>3. q \in Seq(Msgs) /\ Len(q) = 0 /\ \A i : OfCell(q, i) = {}
  BY <1>2 DEF OfCell
<1>4. AllSent(q, nx)
  BY <1>3 DEF AllSent
<1>5. Near(q, EmptyCaBuf.cell, l)
  BY <1>1 DEF Near
<1>6. ASSUME NEW i \in RfDevs
      PROVE  /\ Run(EmptyCaBuf.cell[i]) /\ Kept(Ahead(EmptyCaBuf.cell[i], q, i), i, l, nx)
             /\ Exact(Ahead(EmptyCaBuf.cell[i], q, i), i, nx)
  <2>1. Ahead(EmptyCaBuf.cell[i], q, i) = q
    BY <1>1 DEF Ahead
  <2>2. Run(EmptyCaBuf.cell[i])
    BY <1>1 DEF Run
  <2> QED
    BY <1>3, <2>1, <2>2 DEF Kept, Exact
<1>7. Link(q, EmptyCaBuf.cell, l, nx) /\ Whole(q, EmptyCaBuf.cell, nx)
  BY <1>1, <1>3, <1>4, <1>5, <1>6 DEF Link, Whole
<1> QED
  BY <1>2, <1>7

(* A step that leaves what a client's link is made of.                     *)
LEMMA LinkSame ==
  ASSUME NEW c \in Clients, LinkOk(c), pc'[c] # "closed" => pc[c] # "closed",
         pc'[c] # "closed" => queue'[c] = queue[c], ring'[c].cell = ring[c].cell, lostPkt' = lostPkt, next' = next
  PROVE  LinkOk(c)'
BY DEF LinkOk, Unharmed

(* The server answers or sends a configuration.                            *)
LEMMA LinkServerSend ==
  ASSUME SinkBase, ServerReply \/ ServerConfig, NEW c \in Clients, LinkOk(c)
  PROVE  LinkOk(c)'
<1>0. SinkTypes /\ queue \in [Clients -> Seq(Msgs)] /\ Len(lostPkt) \in Nat
  BY LenProperties DEF SinkBase, SinkTypes
<1>1. /\ next' = next /\ pc' = pc /\ ring' = ring /\ lostPkt' = lostPkt
  BY DEF ServerReply, ServerConfig, clientVars, senderVars, lossVars
<1>2. \E to \in SUBSET Clients, m \in Msgs : m.type # "dci" /\ queue' = Send(queue, to, <<m>>)
  <2>1. Listed \subseteq Clients
    BY <1>0, LenProperties DEF SinkTypes, Listed, ToSet
  <2>2. CASE ServerReply
    <3>1. serving.client \in Clients
      BY <2>1, <2>2 DEF SinkBase, ServerOk, Idle, ServerReply
    <3> QED
      BY <2>2, <3>1, MsgKinds DEF ServerReply
  <2>3. CASE ServerConfig
    BY <2>1, <2>3, MsgKinds DEF ServerConfig
  <2> QED
    BY <2>2, <2>3
<1>3. PICK to \in SUBSET Clients, m \in Msgs : m.type # "dci" /\ queue' = Send(queue, to, <<m>>)
  BY <1>2
<1>4. CASE c \in to /\ pc[c] # "closed"
  <2>1. Longer(queue[c], m, queue'[c])
    BY <1>0, <1>3, <1>4, SendAt
  <2>2. Link(queue[c], ring[c].cell, Len(lostPkt), next) /\ (Unharmed(c) => Whole(queue[c], ring[c].cell, next))
    BY <1>4 DEF LinkOk
  <2>3. /\ Link(queue'[c], ring[c].cell, Len(lostPkt), next)
        /\ Unharmed(c) => Whole(queue'[c], ring[c].cell, next)
    BY <1>0, <1>3, <2>1, <2>2, LinkAppend
  <2> QED
    BY <1>1, <2>3 DEF LinkOk, Unharmed
<1>5. CASE ~(c \in to /\ pc[c] # "closed")
  <2>1. queue'[c] = queue[c]
    BY <1>0, <1>3, <1>5, SendAt
  <2> QED
    BY <1>1, <2>1, LinkSame
<1> QED
  BY <1>4, <1>5

(* A DCI is sent.                                                          *)
LEMMA LinkSendDci ==
  ASSUME SinkBase, NEW i \in RfDevs, SendDci(i), NEW c \in Clients, LinkOk(c)
  PROVE  LinkOk(c)'
<1>0. SinkTypes /\ Level(next) /\ ClientOk(c) /\ queue \in [Clients -> Seq(Msgs)] /\ Len(lostPkt) \in Nat
  BY LenProperties DEF SinkBase, SinkTypes
<1>1. PICK m \in Msgs : m = Dci(i, next[i])
  BY <1>0, SendFacts
<1>2. /\ OneMore(next, i, next') /\ \A a \in RfDevs : next[i] - next[a] < MaxAhead
      /\ queue' = Send(queue, Listed, <<m>>) /\ pc' = pc /\ ring' = ring /\ lostPkt' = lostPkt
  BY <1>0, <1>1, SendFacts
<1>3. CASE c \in Listed /\ pc[c] # "closed"
  <2>1. Longer(queue[c], m, queue'[c])
    BY <1>0, <1>2, <1>3, SendAt
  <2>2. Link(queue[c], ring[c].cell, Len(lostPkt), next) /\ (Unharmed(c) => Whole(queue[c], ring[c].cell, next))
    BY <1>3 DEF LinkOk
  <2>3. /\ Link(queue'[c], ring[c].cell, Len(lostPkt), next')
        /\ Unharmed(c) => Whole(queue'[c], ring[c].cell, next')
    BY <1>0, <1>1, <1>2, <2>1, <2>2, LinkSend
  <2> QED
    BY <1>2, <2>3 DEF LinkOk, Unharmed
<1>4. CASE c \notin Listed /\ pc[c] # "closed"
  <2>1. queue'[c] = << >> /\ ring'[c] = EmptyCaBuf
    <3>1. queue'[c] = queue[c] /\ pc[c] \in {"off", "connecting", "connected", "closed"}
      BY <1>0, <1>2, <1>4, SendAt, ClientTypes
    <3> QED
      BY <1>0, <1>2, <1>4, <3>1 DEF ClientOk
  <2> QED
    BY <2>1, LinkEmpty DEF LinkOk
<1>5. CASE pc[c] = "closed"
  BY <1>2, <1>5 DEF LinkOk
<1> QED
  BY <1>3, <1>4, <1>5

(* A connecting client takes a packet.                                     *)
LEMMA LinkAwait ==
  ASSUME SinkBase, NEW d \in Clients, ClientAwait(d), NEW c \in Clients, LinkOk(c)
  PROVE  LinkOk(c)'
<1>0. SinkTypes /\ Level(next) /\ ClientOk(d) /\ Len(lostPkt) \in Nat
  BY LenProperties DEF SinkBase, SinkTypes
<1>1. /\ pc[d] = "connecting" /\ queue[d] # << >> /\ queue' = [queue EXCEPT ![d] = Tail(@)]
      /\ next' = next /\ ring' = ring /\ lostPkt' = lostPkt
      /\ \A x \in Clients \ {d} : pc'[x] = pc[x]
  BY <1>0, AwaitFacts
<1>2. /\ Without(queue[d], 1, queue'[d]) /\ 1 \in 1 .. Len(queue[d])
      /\ \A x \in Clients \ {d} : queue'[x] = queue[x]
  BY <1>0, <1>1, QueueTaken
<1>3. CASE c # d
  BY <1>1, <1>2, <1>3, LinkSame
<1>4. CASE c = d
  <2>1. ring[c] = EmptyCaBuf /\ \A i \in RfDevs : ring[c].cell[i].nof = 0
    BY <1>0, <1>1, <1>4, EmptyShape DEF ClientOk
  <2>2. Link(queue[c], ring[c].cell, Len(lostPkt), next) /\ (Unharmed(c) => Whole(queue[c], ring[c].cell, next))
    BY <1>1, <1>4 DEF LinkOk
  <2>3. /\ Link(queue'[c], ring[c].cell, Len(lostPkt), next)
        /\ Unharmed(c) => Whole(queue'[c], ring[c].cell, next)
    BY <1>0, <1>2, <1>4, <2>1, <2>2, LinkWithout
  <2> QED
    BY <1>1, <2>3 DEF LinkOk, Unharmed
<1> QED
  BY <1>3, <1>4

(* A connected client takes one.                                           *)
LEMMA LinkClientRecv ==
  ASSUME SinkBase, NEW d \in Clients, ClientRecv(d), NEW c \in Clients, LinkOk(c)
  PROVE  LinkOk(c)'
<1>0. SinkTypes /\ Level(next) /\ ClientOk(d) /\ Len(lostPkt) \in Nat
  BY LenProperties DEF SinkBase, SinkTypes
<1>1. /\ pc[d] = "connected" /\ queue[d] # << >> /\ queue' = [queue EXCEPT ![d] = Tail(@)]
      /\ next' = next /\ pc' = pc /\ lostPkt' = lostPkt
      /\ \A x \in Clients \ {d} : ring'[x] = ring[x]
      /\ \/ queue[d][1].type # "dci" /\ ring'[d].cell = ring[d].cell
         \/ queue[d][1].type = "dci" /\ Stored(ring[d].cell, queue[d][1].cell, queue[d][1].n, ring'[d].cell)
  BY <1>0, RecvFacts
<1>2. /\ Without(queue[d], 1, queue'[d]) /\ 1 \in 1 .. Len(queue[d])
      /\ \A x \in Clients \ {d} : queue'[x] = queue[x]
  BY <1>0, <1>1, QueueTaken
<1>3. CASE c # d
  BY <1>1, <1>2, <1>3, LinkSame
<1>4. CASE c = d
  <2>1. Link(queue[c], ring[c].cell, Len(lostPkt), next) /\ (Unharmed(c) => Whole(queue[c], ring[c].cell, next))
    BY <1>1, <1>4 DEF LinkOk
  <2>2. CASE queue[d][1].type # "dci" /\ ring'[d].cell = ring[d].cell
    <3>1. /\ Link(queue'[c], ring[c].cell, Len(lostPkt), next)
          /\ Unharmed(c) => Whole(queue'[c], ring[c].cell, next)
      <4>1. queue[c][1].type # "dci" /\ 1 \in 1 .. Len(queue[c]) /\ Without(queue[c], 1, queue'[c])
        BY <1>2, <1>4, <2>2
      <4> QED
        BY <1>0, <2>1, <4>1, LinkWithout
    <3> QED
      BY <1>1, <1>4, <2>2, <3>1 DEF LinkOk, Unharmed
  <2>3. CASE queue[d][1].type = "dci" /\ Stored(ring[d].cell, queue[d][1].cell, queue[d][1].n, ring'[d].cell)
    <3>1. IsDci(queue[d], 1)
      BY <2>3 DEF IsDci
    <3>2. /\ Link(queue'[c], ring'[c].cell, Len(lostPkt), next)
          /\ Unharmed(c) => Whole(queue'[c], ring'[c].cell, next)
      BY <1>0, <1>2, <1>4, <2>1, <2>3, <3>1, LinkRecv
    <3> QED
      BY <1>1, <3>2 DEF LinkOk, Unharmed
  <2> QED
    BY <1>1, <2>2, <2>3
<1> QED
  BY <1>3, <1>4

(* A packet is lost.                                                       *)
LEMMA LinkLose ==
  ASSUME SinkBase, LosePkt, NEW d \in Clients, LinkOk(d)
  PROVE  LinkOk(d)'
<1>0. SinkTypes /\ Level(next) /\ next' = next /\ pc' = pc /\ ring' = ring
  BY LossUnnoticed DEF SinkBase, Unnoticed
<1>r. CASE LoseToServer
  <2>1. lostPkt' = lostPkt /\ queue' = queue
    BY <1>0, <1>r, RequestLost
  <2> QED
    BY <1>0, <2>1, LinkSame
<1>c. SUFFICES ASSUME ~LoseToServer PROVE LinkOk(d)'
  BY <1>r
<1>1. PICK c \in Clients :
             /\ lostPkt' = Append(lostPkt, c) /\ Len(lostPkt) < MaxLostPkt
             /\ next' = next /\ pc' = pc /\ ring' = ring
             /\ \A x \in Clients \ {c} : queue'[x] = queue[x]
             /\ \E k \in 1 .. Len(queue[c]) : Without(queue[c], k, queue'[c])
  BY <1>0, <1>c, LossFacts, PacketLost
<1>2. /\ Len(lostPkt) \in Nat /\ Len(lostPkt') = Len(lostPkt) + 1 /\ Len(lostPkt') \in Nat
      /\ \A x : Unharmed(x)' => Unharmed(x) /\ x # c
  BY <1>0, <1>1, LostFacts
<1> SUFFICES ASSUME pc[d] # "closed"
             PROVE  /\ Link(queue'[d], ring[d].cell, Len(lostPkt'), next)
                    /\ Unharmed(d)' => Whole(queue'[d], ring[d].cell, next)
  BY <1>1 DEF LinkOk
<1>3. Link(queue[d], ring[d].cell, Len(lostPkt), next) /\ (Unharmed(d) => Whole(queue[d], ring[d].cell, next))
  BY DEF LinkOk
<1>4. CASE queue'[d] = queue[d]
  BY <1>0, <1>2, <1>3, <1>4, LinkLost
<1>5. CASE queue'[d] # queue[d]
  <2>1. c = d /\ \E k \in 1 .. Len(queue[d]) : Without(queue[d], k, queue'[d])
    BY <1>1, <1>5
  <2>2. Link(queue'[d], ring[d].cell, Len(lostPkt'), next)
    BY <1>0, <1>2, <1>3, <2>1, LinkWithout
  <2> QED
    BY <1>2, <2>1, <2>2
<1> QED
  BY <1>4, <1>5

(* The second part is inductive, given the first.                          *)
LEMMA LinkStep ==
  ASSUME SinkBase, [SinkNext]_sinkVars, NEW c \in Clients, LinkOk(c)
  PROVE  LinkOk(c)'
<1>0. SinkTypes
  BY DEF SinkBase
<1>1. CASE SinkStutter \/ ServerRecv
  <2>1. next' = next /\ queue' = queue /\ pc' = pc /\ ring' = ring /\ lostPkt' = lostPkt
    BY <1>1 DEF SinkStutter, ServerRecv, clientVars, senderVars, lossVars
  <2> QED
    BY <2>1, LinkSame
<1>2. ASSUME NEW d \in Clients, ClientConnect(d) \/ ClientClose(d) PROVE LinkOk(c)'
  <2>1. next' = next /\ ring' = ring /\ lostPkt' = lostPkt
    BY <1>2 DEF ClientConnect, ClientClose, senderVars, lossVars
  <2>2. /\ pc'[c] # "closed" => pc[c] # "closed" /\ queue'[c] = queue[c]
    BY <1>0, <1>2 DEF ClientConnect, ClientClose, SinkTypes
  <2> QED
    BY <2>1, <2>2, LinkSame
<1> QED
  BY <1>1, <1>2, SinkSteps, LinkServerSend, LinkSendDci, LinkAwait, LinkClientRecv, LinkLose

-----------------------------------------------------------------------------
(* The inductive invariant, third part: the configuration.                 *)

IsConfig(q, p) == q[p].type = "config"
HasConfig(q) == \E p \in 1 .. Len(q) : IsConfig(q, p)

\* While the server answers, a connecting client has, or will get, packets
\* enough to be connected before the configuration comes.
Served(n, q, left) == n + Len(q) + left >= 2 /\ ~HasConfig(q)

\* After that, the configuration is behind the packets it needs.
Answered(n, q) ==
    \E p \in 1 .. Len(q) : IsConfig(q, p) /\ n + p > 2 /\ \A r \in 1 .. p - 1 : ~IsConfig(q, r)

ConfigOk(c) ==
    Unharmed(c) /\ c \in Listed =>
        /\ serving.client = c /\ pc[c] = "connecting" => Served(nof_serv_pkt[c], queue[c], serving.left)
        /\ serving.client # c /\ pc[c] = "connecting" => Answered(nof_serv_pkt[c], queue[c])
        /\ serving.client # c /\ pc[c] = "connected" => ring[c].nof_cell = NofRfDev \/ HasConfig(queue[c])

(* A packet more.                                                          *)
LEMMA ConfigAppend ==
  ASSUME NEW q \in Seq(Msgs), NEW m \in Msgs, NEW s, Longer(q, m, s), NEW n \in Nat, NEW left \in Nat
  PROVE  /\ HasConfig(q) \/ m.type = "config" => HasConfig(s)
         /\ Answered(n, q) => Answered(n, s)
         /\ Served(n, q, left) /\ m.type # "config" => Served(n, s, left) /\ (left > 0 => Served(n, s, left - 1))
         /\ Served(n, q, 0) /\ m.type = "config" => Answered(n, s)
<1>1. /\ s \in Seq(Msgs) /\ Len(q) \in Nat /\ Len(s) = Len(q) + 1
      /\ \A x \in 1 .. Len(q) : s[x] = q[x]
      /\ s[Len(q) + 1] = m
  BY LongerAt
<1>2. ASSUME HasConfig(q) \/ m.type = "config" PROVE HasConfig(s)
  <2>1. CASE HasConfig(q)
    <3>1. PICK p \in 1 .. Len(q) : IsConfig(q, p)
      BY <2>1 DEF HasConfig
    <3>2. p \in 1 .. Len(s) /\ IsConfig(s, p)
      BY <1>1, <3>1 DEF IsConfig
    <3> QED
      BY <3>2 DEF HasConfig
  <2>2. CASE m.type = "config"
    <3>1. Len(q) + 1 \in 1 .. Len(s) /\ IsConfig(s, Len(q) + 1)
      BY <1>1, <2>2 DEF IsConfig
    <3> QED
      BY <3>1 DEF HasConfig
  <2> QED
    BY <1>2, <2>1, <2>2
<1>3. ASSUME Answered(n, q) PROVE Answered(n, s)
  <2>1. PICK p \in 1 .. Len(q) : IsConfig(q, p) /\ n + p > 2 /\ \A r \in 1 .. p - 1 : ~IsConfig(q, r)
    BY <1>3 DEF Answered
  <2>2. p \in 1 .. Len(s) /\ IsConfig(s, p) /\ \A r \in 1 .. p - 1 : r \in 1 .. Len(q)
    BY <1>1, <2>1 DEF IsConfig
  <2>3. \A r \in 1 .. p - 1 : ~IsConfig(s, r)
    BY <1>1, <2>1, <2>2 DEF IsConfig
  <2> QED
    BY <2>1, <2>2, <2>3 DEF Answered
<1>4. ASSUME ~HasConfig(q), m.type # "config" PROVE ~HasConfig(s)
  <2> SUFFICES ASSUME NEW p \in 1 .. Len(s), IsConfig(s, p) PROVE FALSE
    BY DEF HasConfig
  <2>1. p = Len(q) + 1 \/ p \in 1 .. Len(q)
    BY <1>1
  <2> QED
    BY <1>1, <1>4, <2>1 DEF HasConfig, IsConfig
<1>5. ASSUME Served(n, q, left), m.type # "config" PROVE Served(n, s, left) /\ (left > 0 => Served(n, s, left - 1))
  BY <1>1, <1>4, <1>5 DEF Served
<1>6. ASSUME Served(n, q, 0), m.type = "config" PROVE Answered(n, s)
  <2>1. Len(q) + 1 \in 1 .. Len(s) /\ IsConfig(s, Len(q) + 1) /\ n + (Len(q) + 1) > 2
    BY <1>1, <1>6 DEF IsConfig, Served
  <2>2. \A r \in 1 .. (Len(q) + 1) - 1 : r \in 1 .. Len(q) /\ ~IsConfig(s, r)
    BY <1>1, <1>6 DEF IsConfig, Served, HasConfig
  <2> QED
    BY <2>1, <2>2 DEF Answered
<1> QED
  BY <1>2, <1>3, <1>5, <1>6

(* The first packet less.                                                  *)
LEMMA ConfigTaken ==
  ASSUME NEW q \in Seq(Msgs), 1 \in 1 .. Len(q), NEW s, Without(q, 1, s), NEW n \in {0, 1}, NEW left \in Nat
  PROVE  /\ HasConfig(q) /\ ~IsConfig(q, 1) => HasConfig(s)
         /\ Answered(n, q) => ~IsConfig(q, 1) /\ Answered(n + 1, s) /\ HasConfig(s)
         /\ Served(n, q, left) => ~IsConfig(q, 1) /\ Served(n + 1, s, left)
<1>1. /\ s \in Seq(Msgs) /\ Len(q) \in Nat /\ Len(s) = Len(q) - 1
      /\ \A x \in 1 .. Len(s) : x + 1 \in 1 .. Len(q) /\ s[x] = q[x + 1]
  BY LenProperties DEF Without, Up
<1>2. ASSUME NEW p \in 1 .. Len(q), IsConfig(q, p), p # 1 PROVE p - 1 \in 1 .. Len(s) /\ IsConfig(s, p - 1)
  <2>1. p - 1 \in 1 .. Len(s) /\ p - 1 + 1 = p
    BY <1>1, <1>2
  <2> QED
    BY <1>1, <1>2, <2>1 DEF IsConfig
<1>3. ASSUME NEW p \in 1 .. Len(s) PROVE IsConfig(s, p) <=> IsConfig(q, p + 1)
  BY <1>1 DEF IsConfig
<1>4. HasConfig(q) /\ ~IsConfig(q, 1) => HasConfig(s)
  BY <1>2 DEF HasConfig
<1>5. ASSUME Answered(n, q) PROVE ~IsConfig(q, 1) /\ Answered(n + 1, s) /\ HasConfig(s)
  <2>1. PICK p \in 1 .. Len(q) : IsConfig(q, p) /\ n + p > 2 /\ \A r \in 1 .. p - 1 : ~IsConfig(q, r)
    BY <1>5 DEF Answered
  <2>2. p > 1 /\ p \in Nat
    BY <1>1, <2>1
  <2>3. 1 \in 1 .. p - 1 /\ p # 1
    BY <2>2
  <2>4. p - 1 \in 1 .. Len(s) /\ IsConfig(s, p - 1) /\ (n + 1) + (p - 1) > 2
    BY <1>2, <2>1, <2>2, <2>3
  <2>5. ASSUME NEW r \in 1 .. (p - 1) - 1 PROVE ~IsConfig(s, r)
    <3>1. r \in 1 .. Len(s) /\ r + 1 \in 1 .. p - 1
      BY <1>1, <2>2
    <3> QED
      BY <1>3, <2>1, <3>1
  <2> QED
    BY <2>1, <2>3, <2>4, <2>5 DEF Answered, HasConfig
<1>6. ASSUME Served(n, q, left) PROVE ~IsConfig(q, 1) /\ Served(n + 1, s, left)
  BY <1>1, <1>3, <1>6 DEF Served, HasConfig
<1> QED
  BY <1>4, <1>5, <1>6

(* A step that leaves what the client's configuration depends on.          *)
LEMMA ConfigSame ==
  ASSUME NEW c \in Clients, ConfigOk(c), c \in Listed' => c \in Listed, Unharmed(c)' => Unharmed(c),
         pc'[c] = pc[c] \/ pc'[c] = "closed",
         Unharmed(c)' /\ pc'[c] # "closed" => queue'[c] = queue[c],
         ring'[c].nof_cell = ring[c].nof_cell, nof_serv_pkt'[c] = nof_serv_pkt[c],
         serving'.client = c <=> serving.client = c, serving.client = c => serving' = serving
  PROVE  ConfigOk(c)'
BY DEF ConfigOk

(* A request is taken: a client that is new has both answers before it.    *)
LEMMA ConfigServerRecv ==
  ASSUME SinkBase, ServerRecv, NEW c \in Clients, ConfigOk(c)
  PROVE  ConfigOk(c)'
<1>0. SinkTypes /\ ServerOk /\ ClientOk(c)
  BY DEF SinkBase
<1>1. /\ next' = next /\ queue' = queue /\ pc' = pc /\ nof_serv_pkt' = nof_serv_pkt /\ ring' = ring
      /\ lostPkt' = lostPkt /\ serving.step = "recv" /\ requests # << >>
  BY DEF ServerRecv, clientVars, senderVars, lossVars
<1>2. serving = Idle /\ serving.client # c
  BY <1>0, <1>1, SinkConstants DEF ServerOk, Idle, SinkBase
<1>3. \/ client_list' = client_list /\ serving' = serving
      \/ \E d \in Clients : /\ d \notin Listed /\ ToSet(client_list') = Listed \cup {d}
                            /\ serving' = [step |-> "reply", client |-> d, left |-> 2]
  <2>1. PICK m \in Requests : m = Head(requests)
    <3>1. requests \in Seq(Requests)
      BY <1>0 DEF SinkTypes
    <3> QED
      BY <1>1, <3>1, HeadTailProperties
  <2>2. m.from \in Clients
    BY RequestFields
  <2>3. CASE /\ m.type = "connect" /\ PushClient(m.from) # client_list
             /\ client_list' = PushClient(m.from)
             /\ serving' = [step |-> "reply", client |-> m.from, left |-> NofReplies]
    BY <1>0, <2>2, <2>3, PushResult DEF NofReplies
  <2>4. CASE UNCHANGED serverVars
    BY <2>4 DEF serverVars, senderVars, lossVars
  <2> QED
    BY <2>1, <2>3, <2>4 DEF ServerRecv
<1>4. CASE client_list' = client_list /\ serving' = serving
  <2>1. Listed' = Listed /\ Unharmed(c)' = Unharmed(c)
    BY <1>1, <1>4 DEF Listed, Unharmed
  <2> QED
    BY <1>1, <1>4, <2>1, ConfigSame
<1>5. ASSUME NEW d \in Clients, d \notin Listed, ToSet(client_list') = Listed \cup {d},
             serving' = [step |-> "reply", client |-> d, left |-> 2]
      PROVE  ConfigOk(c)'
  <2>0. serving'.client = d /\ serving'.left = 2 /\ Listed' = Listed \cup {d} /\ Unharmed(c)' = Unharmed(c)
    BY <1>1, <1>5 DEF Listed, Unharmed
  <2>1. CASE c = d
    <3>1. queue[c] = << >> /\ nof_serv_pkt[c] = 0 /\ pc[c] # "connected"
      BY <1>0, <1>5, <2>1 DEF ClientOk
    <3>2. Served(0, << >>, 2)
      BY DEF Served, HasConfig
    <3> QED
      BY <1>1, <2>0, <2>1, <3>1, <3>2 DEF ConfigOk
  <2>2. CASE c # d
    BY <1>1, <1>2, <2>0, <2>2, ConfigSame
  <2> QED
    BY <2>1, <2>2
<1> QED
  BY <1>3, <1>4, <1>5

(* An answer is sent.                                                      *)
LEMMA ConfigServerReply ==
  ASSUME SinkBase, ServerReply, NEW c \in Clients, ConfigOk(c)
  PROVE  ConfigOk(c)'
<1>0. SinkTypes /\ ServerOk /\ ClientOk(c) /\ queue \in [Clients -> Seq(Msgs)] /\ nof_serv_pkt[c] \in Nat
      /\ queue[c] \in Seq(Msgs)
  <2>1. SinkTypes /\ ServerOk /\ ClientOk(c)
    BY DEF SinkBase
  <2>2. queue \in [Clients -> Seq(Msgs)] /\ nof_serv_pkt \in [Clients -> 0 .. 2]
    BY <2>1 DEF SinkTypes
  <2>3. nof_serv_pkt[c] \in Nat /\ queue[c] \in Seq(Msgs)
    BY <2>2
  <2> QED
    BY <2>1, <2>2, <2>3
<1>1. /\ client_list' = client_list /\ pc' = pc /\ nof_serv_pkt' = nof_serv_pkt /\ ring' = ring
      /\ lostPkt' = lostPkt /\ serving.step = "reply"
      /\ queue' = Send(queue, {serving.client}, <<Ack>>)
  BY DEF ServerReply, clientVars, senderVars, lossVars
<1>2. serving.left \in {1, 2} /\ serving.client \in Listed
  BY <1>0, <1>1 DEF ServerOk, Idle
<1>3. serving'.client = serving.client /\ serving'.left = serving.left - 1
  BY <1>0 DEF ServerReply, SinkTypes
<1>4. Listed' = Listed /\ Unharmed(c)' = Unharmed(c)
  BY <1>1 DEF Listed, Unharmed
<1>5. Ack \in Msgs /\ Ack.type # "config"
  BY MsgKinds DEF Ack
<1>6. CASE c # serving.client
  <2>1. queue'[c] = queue[c]
    BY <1>0, <1>1, <1>5, <1>6, SendAt
  <2> QED
    BY <1>1, <1>3, <1>4, <1>6, <2>1, ConfigSame
<1>7. CASE c = serving.client /\ pc[c] = "connecting"
  <2>1. Longer(queue[c], Ack, queue'[c])
    BY <1>0, <1>1, <1>5, <1>7, SendAt
  <2>2. Unharmed(c) => Served(nof_serv_pkt[c], queue[c], serving.left)
    BY <1>2, <1>7 DEF ConfigOk
  <2>3. Unharmed(c) => Served(nof_serv_pkt[c], queue'[c], serving.left - 1)
    <3>1. serving.left \in Nat /\ serving.left > 0
      BY <1>2
    <3> QED
      BY <1>0, <1>5, <2>1, <2>2, <3>1, ConfigAppend
  <2> QED
    BY <1>1, <1>3, <1>4, <1>7, <2>3 DEF ConfigOk
<1>8. CASE c = serving.client /\ pc[c] # "connecting"
  BY <1>1, <1>3, <1>8 DEF ConfigOk
<1> QED
  BY <1>6, <1>7, <1>8

(* The configuration is sent, to all.                                      *)
LEMMA ConfigServerConfig ==
  ASSUME SinkBase, ServerConfig, NEW c \in Clients, ConfigOk(c)
  PROVE  ConfigOk(c)'
<1>0. SinkTypes /\ ServerOk /\ ClientOk(c) /\ queue \in [Clients -> Seq(Msgs)] /\ nof_serv_pkt[c] \in Nat
      /\ queue[c] \in Seq(Msgs)
  <2>1. SinkTypes /\ ServerOk /\ ClientOk(c)
    BY DEF SinkBase
  <2>2. queue \in [Clients -> Seq(Msgs)] /\ nof_serv_pkt \in [Clients -> 0 .. 2]
    BY <2>1 DEF SinkTypes
  <2>3. nof_serv_pkt[c] \in Nat /\ queue[c] \in Seq(Msgs)
    BY <2>2
  <2> QED
    BY <2>1, <2>2, <2>3
<1>1. /\ client_list' = client_list /\ pc' = pc /\ nof_serv_pkt' = nof_serv_pkt /\ ring' = ring
      /\ lostPkt' = lostPkt /\ serving.step = "config" /\ serving' = Idle
      /\ queue' = Send(queue, Listed, <<Config>>)
  BY DEF ServerConfig, clientVars, senderVars, lossVars
<1>2. serving.left = 0 /\ serving.client \in Listed
  BY <1>0, <1>1 DEF ServerOk, Idle
<1>3. serving'.client # c
  BY <1>1, SinkConstants DEF Idle
<1>4. Listed' = Listed /\ Unharmed(c)' = Unharmed(c)
  BY <1>1 DEF Listed, Unharmed
<1>5. Config \in Msgs /\ Config.type = "config"
  BY MsgKinds DEF Config
<1>6. CASE c \in Listed /\ pc[c] # "closed" /\ Unharmed(c)
  <2>1. Longer(queue[c], Config, queue'[c])
    BY <1>0, <1>1, <1>5, <1>6, SendAt
  <2>2. HasConfig(queue'[c])
    BY <1>0, <1>5, <2>1, ConfigAppend
  <2>3. ASSUME pc[c] = "connecting" PROVE Answered(nof_serv_pkt[c], queue'[c])
    <3>1. Served(nof_serv_pkt[c], queue[c], 0) \/ Answered(nof_serv_pkt[c], queue[c])
      BY <1>2, <1>6, <2>3 DEF ConfigOk
    <3> QED
      BY <1>0, <1>5, <2>1, <3>1, ConfigAppend
  <2> QED
    BY <1>1, <1>3, <2>2, <2>3 DEF ConfigOk
<1>7. CASE ~(c \in Listed /\ pc[c] # "closed" /\ Unharmed(c))
  BY <1>1, <1>4, <1>7 DEF ConfigOk
<1> QED
  BY <1>6, <1>7

(* A DCI is sent.                                                          *)
LEMMA ConfigSendDci ==
  ASSUME SinkBase, NEW i \in RfDevs, SendDci(i), NEW c \in Clients, ConfigOk(c)
  PROVE  ConfigOk(c)'
<1>0. SinkTypes /\ Level(next) /\ ClientOk(c) /\ queue \in [Clients -> Seq(Msgs)] /\ nof_serv_pkt[c] \in Nat
      /\ queue[c] \in Seq(Msgs) /\ serving.left \in Nat
  <2>1. SinkTypes /\ Level(next) /\ ClientOk(c)
    BY DEF SinkBase
  <2>2. queue \in [Clients -> Seq(Msgs)] /\ nof_serv_pkt \in [Clients -> 0 .. 2] /\ serving.left \in 0 .. 2
    BY <2>1 DEF SinkTypes
  <2> QED
    BY <2>1, <2>2
<1>1. PICK m \in Msgs : m = Dci(i, next[i])
  BY <1>0, SendFacts
<1>2. /\ queue' = Send(queue, Listed, <<m>>) /\ pc' = pc /\ ring' = ring /\ lostPkt' = lostPkt
      /\ client_list' = client_list /\ serving' = serving /\ nof_serv_pkt' = nof_serv_pkt
  BY <1>0, <1>1, SendFacts
<1>3. Listed' = Listed /\ Unharmed(c)' = Unharmed(c) /\ m.type # "config"
  BY <1>1, <1>2 DEF Listed, Unharmed, Dci
<1>4. CASE c \in Listed /\ pc[c] # "closed"
  <2>1. Longer(queue[c], m, queue'[c])
    BY <1>0, <1>2, <1>4, SendAt
  <2>2. /\ HasConfig(queue[c]) => HasConfig(queue'[c])
        /\ Answered(nof_serv_pkt[c], queue[c]) => Answered(nof_serv_pkt[c], queue'[c])
        /\ Served(nof_serv_pkt[c], queue[c], serving.left) => Served(nof_serv_pkt[c], queue'[c], serving.left)
    BY <1>0, <1>3, <2>1, ConfigAppend
  <2> QED
    BY <1>2, <1>3, <2>2 DEF ConfigOk
<1>5. CASE ~(c \in Listed /\ pc[c] # "closed")
  BY <1>2, <1>3, <1>5 DEF ConfigOk
<1> QED
  BY <1>4, <1>5

(* A connecting client takes a packet: never the configuration.            *)
LEMMA ConfigAwait ==
  ASSUME SinkBase, NEW d \in Clients, ClientAwait(d), NEW c \in Clients, ConfigOk(c)
  PROVE  ConfigOk(c)'
<1>0. SinkTypes /\ ClientOk(d) /\ queue[d] \in Seq(Msgs) /\ serving.left \in Nat /\ nof_serv_pkt[d] \in 0 .. 2
  BY DEF SinkBase, SinkTypes
<1>1. /\ pc[d] = "connecting" /\ queue[d] # << >> /\ queue' = [queue EXCEPT ![d] = Tail(@)]
      /\ client_list' = client_list /\ serving' = serving /\ ring' = ring /\ lostPkt' = lostPkt
      /\ nof_serv_pkt'[d] = nof_serv_pkt[d] + (IF queue[d][1].type = "config" THEN 0 ELSE 1)
      /\ pc'[d] = IF nof_serv_pkt'[d] >= 2 THEN "connected" ELSE "connecting"
      /\ \A x \in Clients \ {d} : pc'[x] = pc[x] /\ nof_serv_pkt'[x] = nof_serv_pkt[x]
  BY <1>0, AwaitFacts
<1>2. /\ Without(queue[d], 1, queue'[d]) /\ 1 \in 1 .. Len(queue[d])
      /\ \A x \in Clients \ {d} : queue'[x] = queue[x]
  BY <1>0, <1>1, QueueTaken
<1>3. Listed' = Listed /\ Unharmed(c)' = Unharmed(c)
  BY <1>1 DEF Listed, Unharmed
<1>4. CASE c # d
  BY <1>1, <1>2, <1>3, <1>4, ConfigSame
<1>5. CASE c = d /\ Unharmed(c) /\ c \in Listed
  <2>1. nof_serv_pkt[c] \in {0, 1}
    <3>1. nof_serv_pkt[c] < 2
      BY <1>0, <1>1, <1>5 DEF ClientOk
    <3> QED
      BY <1>0, <1>5, <3>1
  <2>2. CASE serving.client = c
    <3>1. Served(nof_serv_pkt[c], queue[c], serving.left)
      BY <1>1, <1>5, <2>2 DEF ConfigOk
    <3>2. ~IsConfig(queue[c], 1) /\ Served(nof_serv_pkt[c] + 1, queue'[c], serving.left)
      BY <1>0, <1>2, <1>5, <2>1, <3>1, ConfigTaken
    <3>3. Served(nof_serv_pkt'[c], queue'[c], serving.left)
      BY <1>1, <1>5, <3>2 DEF IsConfig
    <3> QED
      BY <1>1, <2>2, <3>3 DEF ConfigOk
  <2>3. CASE serving.client # c
    <3>1. Answered(nof_serv_pkt[c], queue[c])
      BY <1>1, <1>5, <2>3 DEF ConfigOk
    <3>2. ~IsConfig(queue[c], 1) /\ Answered(nof_serv_pkt[c] + 1, queue'[c]) /\ HasConfig(queue'[c])
      BY <1>0, <1>2, <1>5, <2>1, <3>1, ConfigTaken
    <3>3. Answered(nof_serv_pkt'[c], queue'[c])
      BY <1>1, <1>5, <3>2 DEF IsConfig
    <3> QED
      BY <1>1, <2>3, <3>2, <3>3 DEF ConfigOk
  <2> QED
    BY <2>2, <2>3
<1>6. CASE ~(Unharmed(c) /\ c \in Listed)
  BY <1>3, <1>6 DEF ConfigOk
<1> QED
  BY <1>4, <1>5, <1>6

(* A connected client takes one.                                           *)
LEMMA ConfigClientRecv ==
  ASSUME SinkBase, NEW d \in Clients, ClientRecv(d), NEW c \in Clients, ConfigOk(c)
  PROVE  ConfigOk(c)'
<1>0. SinkTypes /\ ClientOk(d) /\ queue[d] \in Seq(Msgs)
  BY DEF SinkBase, SinkTypes
<1>1. /\ pc[d] = "connected" /\ queue[d] # << >> /\ queue' = [queue EXCEPT ![d] = Tail(@)]
      /\ client_list' = client_list /\ serving' = serving
      /\ pc' = pc /\ nof_serv_pkt' = nof_serv_pkt /\ lostPkt' = lostPkt
      /\ \A x \in Clients \ {d} : ring'[x] = ring[x]
      /\ \/ queue[d][1].type # "config" /\ ring'[d].nof_cell = ring[d].nof_cell
         \/ queue[d][1].type = "config" /\ ring'[d].nof_cell = NofRfDev
  BY <1>0, RecvFacts
<1>2. /\ Without(queue[d], 1, queue'[d]) /\ 1 \in 1 .. Len(queue[d])
      /\ \A x \in Clients \ {d} : queue'[x] = queue[x]
  BY <1>0, <1>1, QueueTaken
<1>3. Listed' = Listed /\ Unharmed(c)' = Unharmed(c)
  BY <1>1 DEF Listed, Unharmed
<1>4. CASE c # d
  BY <1>1, <1>2, <1>3, <1>4, ConfigSame
<1>5. CASE c = d
  <2>1. HasConfig(queue[c]) /\ ~IsConfig(queue[c], 1) => HasConfig(queue'[c])
    BY <1>0, <1>2, <1>5, ConfigTaken
  <2> QED
    BY <1>1, <1>3, <1>5, <2>1 DEF ConfigOk, IsConfig
<1> QED
  BY <1>4, <1>5

(* A packet is lost.                                                       *)
LEMMA ConfigLose ==
  ASSUME SinkBase, LosePkt, NEW d \in Clients, ConfigOk(d)
  PROVE  ConfigOk(d)'
<1>0. SinkTypes
  BY DEF SinkBase
<1>1. /\ client_list' = client_list /\ serving' = serving
      /\ pc' = pc /\ nof_serv_pkt' = nof_serv_pkt /\ ring' = ring
  BY LossUnnoticed DEF Unnoticed
<1>2. Listed' = Listed
  BY <1>1 DEF Listed
<1>3. /\ Unharmed(d)' => Unharmed(d)
      /\ Unharmed(d)' => queue'[d] = queue[d]
  <2>1. CASE LoseToServer
    BY <1>0, <2>1, RequestLost DEF Unharmed
  <2>2. ASSUME NEW c \in Clients, LoseToClient(c), Len(lostPkt) < MaxLostPkt, Unharmed(d)'
        PROVE  Unharmed(d) /\ queue'[d] = queue[d]
    <3>1. lostPkt' = Append(lostPkt, c) /\ \A x \in Clients \ {c} : queue'[x] = queue[x]
      BY <1>0, <2>2, PacketLost
    <3>2. Unharmed(d) /\ d # c
      BY <1>0, <2>2, <3>1, LostFacts
    <3> QED
      BY <3>1, <3>2
  <2> QED
    BY <1>0, <2>1, <2>2, LossFacts
<1> QED
  BY <1>1, <1>2, <1>3, ConfigSame

(* The third part is inductive, given the first.                           *)
LEMMA ConfigStep ==
  ASSUME SinkBase, [SinkNext]_sinkVars, NEW c \in Clients, ConfigOk(c)
  PROVE  ConfigOk(c)'
<1>0. SinkTypes
  BY DEF SinkBase
<1>1. CASE SinkStutter
  <2>1. Listed' = Listed /\ Unharmed(c)' = Unharmed(c)
    BY <1>1 DEF SinkStutter, Listed, Unharmed
  <2> QED
    BY <1>1, <2>1, ConfigSame DEF SinkStutter
<1>2. ASSUME NEW d \in Clients, ClientConnect(d) PROVE ConfigOk(c)'
  <2>1. /\ client_list' = client_list /\ serving' = serving /\ nof_serv_pkt' = nof_serv_pkt
        /\ queue' = queue /\ ring' = ring /\ lostPkt' = lostPkt /\ pc[d] = "off"
        /\ pc' = [pc EXCEPT ![d] = "connecting"]
    BY <1>2 DEF ClientConnect, serverVars, senderVars, lossVars
  <2>2. Listed' = Listed /\ Unharmed(c)' = Unharmed(c) /\ d \notin Listed
    BY <2>1 DEF Listed, Unharmed, SinkBase, ClientOk
  <2>3. CASE c = d
    BY <2>2, <2>3 DEF ConfigOk
  <2>4. CASE c # d
    <3>1. pc'[c] = pc[c]
      BY <1>0, <2>1, <2>4 DEF SinkTypes
    <3> QED
      BY <2>1, <2>2, <3>1, ConfigSame
  <2> QED
    BY <2>3, <2>4
<1>3. ASSUME NEW d \in Clients, ClientClose(d) PROVE ConfigOk(c)'
  <2>1. /\ client_list' = client_list /\ serving' = serving /\ nof_serv_pkt' = nof_serv_pkt
        /\ ring' = ring /\ lostPkt' = lostPkt
        /\ pc' = [pc EXCEPT ![d] = "closed"] /\ queue' = [queue EXCEPT ![d] = << >>]
    BY <1>3 DEF ClientClose, serverVars, senderVars, lossVars
  <2>2. Listed' = Listed /\ Unharmed(c)' = Unharmed(c)
    BY <2>1 DEF Listed, Unharmed
  <2>3. (pc'[c] = pc[c] \/ pc'[c] = "closed") /\ (pc'[c] # "closed" => queue'[c] = queue[c])
    BY <1>0, <2>1 DEF SinkTypes
  <2> QED
    BY <2>1, <2>2, <2>3, ConfigSame
<1> QED
  BY <1>1, <1>2, <1>3, SinkSteps, ConfigServerRecv, ConfigServerReply, ConfigServerConfig, ConfigSendDci,
     ConfigAwait, ConfigClientRecv, ConfigLose

-----------------------------------------------------------------------------
(* The invariant and the theorems.                                         *)

SinkInv == SinkBase /\ \A c \in Clients : LinkOk(c) /\ ConfigOk(c)

(* It is one.                                                              *)
LEMMA SinkInvariant == SinkSpec => []SinkInv
<1>1. SinkInit => SinkInv
  <2> SUFFICES ASSUME SinkInit PROVE SinkInv
    OBVIOUS
  <2>1. SinkBase
    BY BaseInit
  <2>2. ASSUME NEW c \in Clients PROVE LinkOk(c) /\ ConfigOk(c)
    <3>1. queue[c] = << >> /\ ring[c] = EmptyCaBuf /\ pc[c] = "off"
      BY DEF SinkInit
    <3>2. LinkOk(c)
      BY <3>1, LinkEmpty DEF LinkOk
    <3>3. ConfigOk(c)
      BY <3>1 DEF ConfigOk
    <3> QED
      BY <3>2, <3>3
  <2> QED
    BY <2>1, <2>2 DEF SinkInv
<1>2. SinkInv /\ [SinkNext]_sinkVars => SinkInv'
  <2> SUFFICES ASSUME SinkInv, [SinkNext]_sinkVars PROVE SinkInv'
    OBVIOUS
  <2>1. SinkBase /\ SinkBase'
    BY BaseStep DEF SinkInv
  <2>2. ASSUME NEW c \in Clients PROVE LinkOk(c)' /\ ConfigOk(c)'
    <3>1. LinkOk(c) /\ ConfigOk(c)
      BY DEF SinkInv
    <3> QED
      BY <2>1, <3>1, LinkStep, ConfigStep
  <2> QED
    BY <2>1, <2>2 DEF SinkInv
<1> QED
  BY <1>1, <1>2, PTL DEF SinkSpec

(* The types; the list of clients never outgrows MAX_CLIENT nor holds an   *)
(* address twice, a client's header stays inside its array.                *)
THEOREM SinkTypeCorrect == SinkSpec => []SinkTypeOK
<1>1. SinkInv => SinkTypeOK
  <2> SUFFICES ASSUME SinkInv PROVE SinkTypeOK
    OBVIOUS
  <2>1. SinkTypes /\ \A c \in Clients : CaShape(ring[c])
    BY DEF SinkInv, SinkBase, ClientOk
  <2>2. ASSUME NEW c \in Clients, NEW i \in RfDevs
        PROVE  ring[c].cell[i].header \in 0 .. NofLogDci - 1 /\ ring[c].cell[i].nof \in 0 .. NofLogDci
    <3>1. ring[c].cell[i] \in CellBufs
      BY <2>1 DEF CaShape
    <3> QED
      BY <3>1 DEF CellBufs
  <2> QED
    BY <2>1, <2>2 DEF SinkTypeOK, SinkTypes, Steps, SentTtis
<1> QED
  BY <1>1, SinkInvariant, PTL

(* A connected client that lost nothing and has read everything knows the  *)
(* number of cells.                                                        *)
THEOREM ConfigIfNothingLost == SinkSpec => []ConfigUnlessLost
<1>1. SinkInv => ConfigUnlessLost
  <2> SUFFICES ASSUME SinkInv, NEW c \in Clients, pc[c] = "connected", queue[c] = << >>,
                      serving.client # c, Unharmed(c)
               PROVE  ring[c].nof_cell = NofRfDev
    BY DEF ConfigUnlessLost
  <2>1. ClientOk(c) /\ ConfigOk(c)
    BY DEF SinkInv, SinkBase
  <2>2. c \in Listed
    BY <2>1 DEF ClientOk
  <2>3. ~HasConfig(queue[c])
    BY DEF HasConfig
  <2> QED
    BY <2>1, <2>2, <2>3 DEF ConfigOk
<1> QED
  BY <1>1, SinkInvariant, PTL

(* The entries of a buffer whose neighbours follow each other, from the    *)
(* newest one back.                                                        *)
LEMMA RunBack ==
  ASSUME NEW b, Sound(b), Run(b), NEW k \in 1 .. b.nof
  PROVE  Entry(b, k) = Latest(b) - (b.nof - k)
<1>0. b.nof \in Nat /\ b.nof > 0 /\ b \in CellBufs /\ NofLogDci \in Nat
  BY SinkAssumption DEF Sound, CellBufs
<1>1. PICK n \in Nat : n = b.nof
  BY <1>0
<1>2. Latest(b) = Entry(b, n) /\ \A x \in 1 .. n : Entry(b, x) \in Nat
  BY <1>0, <1>1, NewestEntry DEF Sound
<1>3. \A x \in 1 .. n - 1 : Entry(b, x + 1) = Entry(b, x) + 1
  BY <1>1 DEF Run
<1> DEFINE Bad == {j \in 0 .. n : n - j \in 1 .. n /\ Entry(b, n - j) # Entry(b, n) - j}
<1>4. CASE Bad = {}
  <2>1. n - k \in 0 .. n /\ n - (n - k) = k /\ k \in 1 .. n
    BY <1>1
  <2>2. n - k \notin Bad
    BY <1>4
  <2> HIDE DEF Bad
  <2>3. Entry(b, k) = Entry(b, n) - (n - k)
    BY <2>1, <2>2 DEF Bad
  <2> QED
    BY <1>1, <1>2, <2>3
<1>5. CASE Bad # {}
  <2>1. Bad \in SUBSET (0 .. n)
    OBVIOUS
  <2>2. \E m \in Bad : \A x \in Bad : m <= x
    <3> HIDE DEF Bad
    <3> QED
      BY <1>5, <2>1, LowestExists
  <2>3. PICK m \in Bad : \A x \in Bad : m <= x
    BY <2>2
  <2>4. m \in 0 .. n /\ n - m \in 1 .. n /\ Entry(b, n - m) # Entry(b, n) - m
    OBVIOUS
  <2>5. m # 0
    <3>1. n \in 1 .. n /\ Entry(b, n) \in Nat
      BY <1>0, <1>1, <1>2
    <3>2. n - 0 = n /\ Entry(b, n) - 0 = Entry(b, n)
      BY <3>1
    <3> QED
      BY <2>4, <3>2
  <2>6. m - 1 \in 0 .. n /\ n - (m - 1) \in 1 .. n /\ n - m \in 1 .. n - 1 /\ n - (m - 1) = n - m + 1
    BY <2>4, <2>5
  <2>7. m - 1 \notin Bad
    <3>1. ~(m <= m - 1)
      BY <2>4
    <3> QED
      BY <2>3, <3>1
  <2>8. Entry(b, n - (m - 1)) = Entry(b, n) - (m - 1)
    BY <2>6, <2>7
  <2>9. Entry(b, n - (m - 1)) = Entry(b, n - m) + 1
    BY <1>3, <2>6
  <2>10. Entry(b, n - m) \in Nat /\ Entry(b, n) \in Nat
    <3>1. n \in 1 .. n
      BY <1>0, <1>1
    <3> QED
      BY <1>2, <2>4, <3>1
  <2>11. Entry(b, n - m) = Entry(b, n) - m
    BY <2>4, <2>8, <2>9, <2>10
  <2> QED
    BY <2>4, <2>11
<1> QED
  BY <1>4, <1>5

(* What a client holds of a cell and what is on the way, if nothing was    *)
(* lost.                                                                   *)
LEMMA WholeRow ==
  ASSUME NEW q \in Seq(Msgs), NEW b, Sound(b), NEW i \in RfDevs, NEW nx, nx[i] \in Nat,
         Run(b), Exact(Ahead(b, q, i), i, nx)
  PROVE  /\ Exact(q, i, nx)
         /\ \A k \in 1 .. b.nof : Entry(b, k) = nx[i] - Cardinality(OfCell(q, i)) - (b.nof - k + 1)
<1>1. CASE b.nof = 0
  <2>1. Ahead(b, q, i) = q
    BY <1>1 DEF Ahead
  <2> QED
    BY <1>1, <2>1
<1>2. CASE b.nof # 0
  <2>1. PICK u : u = Ahead(b, q, i)
    OBVIOUS
  <2>2. /\ u \in Seq(Msgs) /\ Without(u, 1, q) /\ 1 \in 1 .. Len(u) /\ 1 \in OfCell(u, i) /\ u[1].n = Latest(b)
        /\ Exact(u, i, nx)
    BY <1>2, <2>1, AheadAt, AheadFirst
  <2>3. Exact(q, i, nx)
    BY <2>2, ExactWithout
  <2>4. Latest(b) = nx[i] - Cardinality(From(u, i, 1))
    BY <2>2 DEF Exact
  <2>5. OfCell(q, i) \subseteq 1 .. Len(q) /\ Len(q) \in Nat /\ OfCell(u, i) \subseteq 1 .. Len(u) /\ Len(u) \in Nat
    BY <2>2, LenProperties DEF OfCell
  <2>6. From(u, i, 1) = OfCell(u, i)
    BY <2>5 DEF From
  <2>7. Cardinality(OfCell(q, i)) = Cardinality(OfCell(u, i)) - 1
    <3>1. OfCell(q, i) = {x \in 1 .. Len(u) - 1 : Up(1, x) \in OfCell(u, i)}
      <4>1. Len(q) = Len(u) - 1 /\ \A x \in 1 .. Len(q) : q[x] = u[Up(1, x)]
        BY <2>2 DEF Without
      <4>2. DOMAIN q = 1 .. Len(q) /\ DOMAIN u = 1 .. Len(u)
        BY <2>2, LenProperties
      <4>3. \A x \in 1 .. Len(q) : Up(1, x) \in 1 .. Len(u)
        BY <2>5, <4>1 DEF Up
      <4> QED
        BY <4>1, <4>2, <4>3 DEF OfCell
    <3>2. OfCell(u, i) \in SUBSET (1 .. Len(u))
      BY <2>5
    <3>3. PICK A, B : A = OfCell(u, i) /\ B = OfCell(q, i)
      OBVIOUS
    <3>4. Cardinality(B) = IF 1 \in A THEN Cardinality(A) - 1 ELSE Cardinality(A)
      BY <2>2, <2>5, <3>1, <3>2, <3>3, CountWithout
    <3> QED
      BY <2>2, <3>3, <3>4
  <2>8. ASSUME NEW k \in 1 .. b.nof
        PROVE  Entry(b, k) = nx[i] - Cardinality(OfCell(q, i)) - (b.nof - k + 1)
    <3>1. Entry(b, k) = Latest(b) - (b.nof - k)
      BY RunBack
    <3>2. Latest(b) \in Nat /\ b.nof \in Nat
      <4>1. Latest(b) \in Nat
        BY <1>2, NewestNat
      <4> QED
        BY <4>1, SinkAssumption DEF Sound, CellBufs
    <3>3. Cardinality(OfCell(u, i)) \in Nat
      BY <2>2, <2>6, FromNat
    <3>4. Latest(b) = nx[i] - (Cardinality(OfCell(q, i)) + 1)
      BY <2>4, <2>6, <2>7, <3>3
    <3>5. Cardinality(OfCell(q, i)) \in Int
      BY <2>7, <3>3
    <3>6. PICK w \in Int : w = Cardinality(OfCell(q, i))
      BY <3>5
    <3>7. Latest(b) = nx[i] - (w + 1)
      BY <3>4, <3>6
    <3>8. ASSUME NEW x \in Nat, NEW y \in Nat, NEW z \in Nat, x = z - (w + 1)
          PROVE  x - (y - k) = z - w - (y - k + 1)
      <4>1. k \in Int
        BY <3>2
      <4> QED
        BY <3>8, <4>1
    <3>9. Latest(b) - (b.nof - k) = nx[i] - w - (b.nof - k + 1)
      BY <3>2, <3>7, <3>8
    <3> QED
      BY <3>1, <3>6, <3>9
  <2> QED
    BY <2>3, <2>8
<1> QED
  BY <1>1, <1>2

(* What a connected client that lost nothing holds of a cell, with what is *)
(* on the way, is the run of DCIs up to the last one sent: for any number  *)
(* of clients, cells, entries of a ring and packets lost to others.        *)
THEOREM NoGapIfNothingLost == SinkSpec => []NoGapUnlessLost
<1>1. SinkInv => NoGapUnlessLost
  <2> SUFFICES ASSUME SinkInv, NEW c \in Clients, NEW i \in RfDevs, pc[c] = "connected", Unharmed(c)
               PROVE  LET coming == Coming(c, i)
                          held   == Held(c, i)
                      IN  /\ \A p \in coming : queue[c][p].n = next[i] - Cardinality({r \in coming : r >= p})
                          /\ \A k \in DOMAIN held :
                                 held[k] = next[i] - Cardinality(coming) - (Len(held) - k + 1)
    BY DEF NoGapUnlessLost
  <2>1. /\ SinkTypes /\ Level(next) /\ LinkOk(c)
    BY DEF SinkInv, SinkBase
  <2>2. /\ Link(queue[c], ring[c].cell, Len(lostPkt), next) /\ Whole(queue[c], ring[c].cell, next)
    BY <2>1 DEF LinkOk
  <2>3. PICK b : b = ring[c].cell[i]
    OBVIOUS
  <2>4. queue[c] \in Seq(Msgs) /\ Sound(b) /\ next[i] \in Nat /\ Run(b) /\ Exact(Ahead(b, queue[c], i), i, next)
    BY <2>1, <2>2, <2>3 DEF Link, Whole, Buffers, Level
  <2>5. /\ Exact(queue[c], i, next)
        /\ \A k \in 1 .. b.nof : Entry(b, k) = next[i] - Cardinality(OfCell(queue[c], i)) - (b.nof - k + 1)
    BY <2>4, WholeRow
  <2>6. PICK h : h = Held(c, i)
    OBVIOUS
  <2>7. h = [k \in 1 .. b.nof |-> Entry(b, k)]
    BY <2>3, <2>6 DEF Held, Entry, Slot
  <2>8. b.nof \in Nat
    BY <2>4, SinkAssumption DEF Sound, CellBufs
  <2>9. DOMAIN h = 1 .. b.nof /\ Len(h) = b.nof /\ \A k \in 1 .. b.nof : h[k] = Entry(b, k)
    BY <2>7, <2>8
  <2>10. \A p \in Coming(c, i) : queue[c][p].n = next[i] - Cardinality({r \in Coming(c, i) : r >= p})
    BY <2>5 DEF Exact, From, Coming
  <2>11. \A k \in DOMAIN h : h[k] = next[i] - Cardinality(Coming(c, i)) - (Len(h) - k + 1)
    BY <2>5, <2>9 DEF Coming
  <2> QED
    BY <2>6, <2>10, <2>11
<1> QED
  BY <1>1, SinkInvariant, PTL

-----------------------------------------------------------------------------
(* The carrier aggregation window.                                         *)

\* f is the TTI of the number x after one with TTI h; unwrapping it.
TtiFrom(h, x, f) == (h + x < MaxTti /\ f = h + x) \/ (~(h + x < MaxTti) /\ f = h + x - MaxTti)
Unwrapped(top, f) == IF Abs(top - f) > Abs(top - (f + MaxTti)) THEN f + MaxTti ELSE f

(* Unwrapping one TTI: counted from the round of the lowest number.        *)
LEMMA UnwrapOne ==
  ASSUME NEW D \in Nat, 2 * D < MaxTti, NEW h \in 0 .. MaxTti - 1, NEW x \in 0 .. D, NEW y \in 0 .. D,
         NEW f, TtiFrom(h, x, f), NEW top, TtiFrom(h, y, top), h <= top
  PROVE  Unwrapped(top, f) = h + x
<1>0. MaxTti \in Nat
  BY SinkAssumption
<1>1. h + y < MaxTti /\ top = h + y /\ top \in Int
  BY <1>0 DEF TtiFrom
<1>2. CASE h + x < MaxTti
  <2>1. f = h + x /\ top - f = y - x /\ top - (f + MaxTti) = y - x - MaxTti
    BY <1>0, <1>1, <1>2 DEF TtiFrom
  <2>2. Abs(y - x) <= D /\ Abs(y - x - MaxTti) > D /\ Abs(y - x) \in Int /\ Abs(y - x - MaxTti) \in Int
    BY <1>0 DEF Abs
  <2>3. ~(Abs(top - f) > Abs(top - (f + MaxTti)))
    BY <2>1, <2>2
  <2> QED
    BY <2>1, <2>3 DEF Unwrapped
<1>3. CASE ~(h + x < MaxTti)
  <2>1. f = h + x - MaxTti /\ top - f = y - x + MaxTti /\ top - (f + MaxTti) = y - x
    BY <1>0, <1>1, <1>3 DEF TtiFrom
  <2>2. Abs(y - x) <= D /\ Abs(y - x + MaxTti) > D /\ Abs(y - x) \in Int /\ Abs(y - x + MaxTti) \in Int
    BY <1>0 DEF Abs
  <2>3. Abs(top - f) > Abs(top - (f + MaxTti))
    BY <2>1, <2>2
  <2>4. f + MaxTti = h + x
    BY <1>0, <2>1
  <2> QED
    BY <2>3, <2>4 DEF Unwrapped
<1> QED
  BY <1>2, <1>3

\* The values of a table, its TTIs; the numbers in it are not far apart.
ValuesOf(S, k, N) == \A x : x \in S <=> \E i \in 0 .. k - 1 : x = N[i]
TtisOf(f, k, N) == DOMAIN f = 0 .. k - 1 /\ \A i \in 0 .. k - 1 : f[i] = Tti(N[i])
TtiSet(F, k, N) == \A x : x \in F <=> \E i \in 0 .. k - 1 : x = Tti(N[i])
Together(k, N, D) == 2 * D < MaxTti /\ \A i, j \in 0 .. k - 1 : N[i] <= N[j] + D
OneRound(S) == \A m, n \in S : m \div MaxTti = n \div MaxTti

(* A TTI is its own remainder, and so is the next one but for the wrap.    *)
LEMMA TtiAgain ==
  ASSUME NEW h \in 0 .. MaxTti - 1
  PROVE  /\ h % MaxTti = h
         /\ (h + 1) % MaxTti = IF h + 1 < MaxTti THEN h + 1 ELSE h + 1 - MaxTti
<1>0. MaxTti \in Nat \ {0}
  BY SinkAssumption
<1>1. h \in 0 .. (MaxTti + MaxTti) - 1 /\ h < MaxTti /\ h + 1 \in 0 .. (MaxTti + MaxTti) - 1
  BY <1>0
<1> QED
  BY <1>0, <1>1, Wraps

(* The end of the window: the TTIs of numbers that are not far apart, once *)
(* unwrapped, have the TTI of the lowest number as their lowest.           *)
LEMMA WindowHead ==
  ASSUME NEW k \in Nat \ {0}, NEW N \in [0 .. k - 1 -> Nat], NEW D \in Nat, Together(k, N, D),
         NEW f, TtisOf(f, k, N), NEW S, ValuesOf(S, k, N)
  PROVE  Tti(Min(Range(Unwrap(f)))) = Tti(Min(S))
<1> USE DEF Together, TtisOf, ValuesOf
<1>0. MaxTti \in Nat \ {0} /\ 0 \in 0 .. k - 1 /\ MaxTti - 1 \in Nat /\ MaxTti + D \in Nat
  BY SinkAssumption
<1>1. Min(S) \in S /\ \A x \in S : Min(S) <= x
  <2>1. N[0] + D \in Nat /\ S \in SUBSET (0 .. N[0] + D)
    BY <1>0
  <2>2. S # {}
    BY <1>0
  <2> QED
    BY <2>1, <2>2, MinIsLowest
<1>2. PICK m \in Nat, lo \in 0 .. k - 1 : m = Min(S) /\ m = N[lo] /\ \A i \in 0 .. k - 1 : m <= N[i]
  BY <1>1
<1>3. \E g \in [0 .. k - 1 -> 0 .. D] : \A i \in 0 .. k - 1 : N[i] = m + g[i]
  <2>1. ASSUME NEW i \in 0 .. k - 1 PROVE N[i] - m \in 0 .. D /\ N[i] = m + (N[i] - m)
    <3>1. N[i] \in Nat /\ m <= N[i] /\ N[i] <= m + D
      BY <1>2
    <3> QED
      BY <3>1
  <2>2. [i \in 0 .. k - 1 |-> N[i] - m] \in [0 .. k - 1 -> 0 .. D]
    BY <2>1
  <2> QED
    BY <2>1, <2>2
<1>4. PICK e \in [0 .. k - 1 -> 0 .. D] : \A i \in 0 .. k - 1 : N[i] = m + e[i]
  BY <1>3
<1>5. e[lo] = 0
  <2>1. PICK d \in 0 .. D : d = e[lo]
    OBVIOUS
  <2>2. m = m + d
    BY <1>2, <1>4, <2>1
  <2> QED
    BY <2>1, <2>2
<1>6. PICK h \in 0 .. MaxTti - 1 : h = m % MaxTti
  BY <1>0, Division
<1>7. ASSUME NEW i \in 0 .. k - 1
      PROVE  /\ f[i] = IF h + e[i] < MaxTti THEN h + e[i] ELSE h + e[i] - MaxTti
             /\ f[i] \in 0 .. MaxTti - 1
  <2>1. PICK d \in 0 .. D : d = e[i]
    OBVIOUS
  <2>2. d \in 0 .. MaxTti - 1
    BY <1>0
  <2>3. (m + d) % MaxTti = IF h + d < MaxTti THEN h + d ELSE h + d - MaxTti
    BY <1>0, <1>6, <2>2, RemainderMoves
  <2>4. f[i] = (m + d) % MaxTti
    BY <1>4, <2>1 DEF Tti
  <2>5. PICK v : v = f[i]
    OBVIOUS
  <2>6. v = IF h + d < MaxTti THEN h + d ELSE h + d - MaxTti
    BY <2>3, <2>4, <2>5
  <2>7. v \in 0 .. MaxTti - 1
    BY <1>0, <2>2, <2>6
  <2> QED
    BY <2>1, <2>5, <2>6, <2>7
<1>8. f[lo] = h
  <2>1. h + 0 < MaxTti /\ h + 0 = h
    BY <1>0
  <2> QED
    BY <1>5, <1>7, <2>1
<1>9. PICK R : R = {f[i] : i \in 0 .. k - 1}
  OBVIOUS
<1>10. \A x : x \in R <=> \E i \in 0 .. k - 1 : x = f[i]
  BY <1>9, Zenon
<1>11. Max(R) \in R /\ \A x \in R : x <= Max(R)
  <2>1. R \in SUBSET (0 .. MaxTti - 1)
    BY <1>7, <1>10
  <2>2. R # {}
    BY <1>0, <1>10
  <2> QED
    BY <1>0, <2>1, <2>2, MaxIsHighest
<1>12. PICK j \in 0 .. k - 1 : f[j] = Max(R)
  BY <1>10, <1>11
<1>13. h <= f[j]
  BY <1>8, <1>10, <1>11, <1>12
<1>14. R = Range(f)
  BY <1>9, Zenon DEF Range
<1>15. PICK u : u = Unwrap(f)
  OBVIOUS
<1>16. u = [i \in 0 .. k - 1 |-> IF Abs(f[j] - f[i]) > Abs(f[j] - (f[i] + MaxTti)) THEN f[i] + MaxTti ELSE f[i]]
  BY <1>12, <1>14, <1>15 DEF Unwrap
<1>17. ASSUME NEW i \in 0 .. k - 1 PROVE u[i] = h + e[i]
  <2>1. e[i] \in 0 .. D /\ e[j] \in 0 .. D
    OBVIOUS
  <2>2. TtiFrom(h, e[i], f[i]) /\ TtiFrom(h, e[j], f[j])
    BY <1>7 DEF TtiFrom
  <2>3. 2 * D < MaxTti
    OBVIOUS
  <2>4. PICK x \in 0 .. D, y \in 0 .. D : x = e[i] /\ y = e[j]
    BY <2>1
  <2>5. PICK a, top : a = f[i] /\ top = f[j]
    OBVIOUS
  <2>6. TtiFrom(h, x, a) /\ TtiFrom(h, y, top) /\ h <= top
    BY <1>13, <2>2, <2>4, <2>5
  <2>7. Unwrapped(top, a) = h + x
    <3> HIDE DEF Together, TtisOf, ValuesOf
    <3> QED
      BY <2>3, <2>6, UnwrapOne
  <2> QED
    BY <1>16, <2>4, <2>5, <2>7 DEF Unwrapped
<1>18. PICK V : V = Range(u)
  OBVIOUS
<1>19. \A x : x \in V <=> \E i \in 0 .. k - 1 : x = h + e[i]
  <2>1. DOMAIN u = 0 .. k - 1
    BY <1>16
  <2>2. V = {u[i] : i \in 0 .. k - 1}
    BY <1>18, <2>1, Zenon DEF Range
  <2>3. \A x : x \in V <=> \E i \in 0 .. k - 1 : x = u[i]
    BY <2>2, Zenon
  <2>4. ASSUME NEW x \in V PROVE \E i \in 0 .. k - 1 : x = h + e[i]
    <3>1. PICK i \in 0 .. k - 1 : x = u[i]
      BY <2>3
    <3> QED
      BY <1>17, <3>1
  <2>5. ASSUME NEW i \in 0 .. k - 1 PROVE h + e[i] \in V
    BY <1>17, <2>3
  <2> QED
    BY <2>4, <2>5, Zenon
<1>20. \A i \in 0 .. k - 1 : h + e[i] \in 0 .. MaxTti + D /\ h + e[i] >= h
  BY <1>0
<1>21. Min(V) \in V /\ \A x \in V : Min(V) <= x
  <2>1. V \in SUBSET (0 .. MaxTti + D)
    BY <1>19, <1>20
  <2>2. V # {}
    BY <1>0, <1>19
  <2> QED
    BY <1>0, <2>1, <2>2, MinIsLowest
<1>22. Min(V) = h
  <2>1. h \in V
    <3>1. h + e[lo] = h
      BY <1>5
    <3> QED
      BY <1>19, <3>1
  <2>2. Min(V) \in Int /\ Min(V) >= h
    BY <1>19, <1>20, <1>21
  <2> QED
    BY <1>21, <2>1, <2>2
<1>23. h % MaxTti = h
  BY TtiAgain
<1> QED
  BY <1>2, <1>6, <1>15, <1>18, <1>22, <1>23 DEF Tti

(* Its start: the TTIs of numbers of one round are ordered as the numbers. *)
LEMMA WindowTail ==
  ASSUME NEW k \in Nat \ {0}, NEW N \in [0 .. k - 1 -> Nat],
         NEW F, TtiSet(F, k, N), NEW S, ValuesOf(S, k, N), OneRound(S)
  PROVE  Tti(Max(F) + 1) = Tti(Max(S) + 1)
<1> USE DEF TtiSet, ValuesOf, OneRound
<1>0. MaxTti \in Nat \ {0} /\ MaxTti # 1 /\ 0 \in 0 .. k - 1 /\ MaxTti - 1 \in Nat
  BY SinkAssumption
<1>1. Max(S) \in S /\ \A x \in S : x <= Max(S)
  <2>0. PICK n \in Nat : \A i \in 0 .. k - 1 : N[i] <= n
    BY TableBounded
  <2>1. S \in SUBSET (0 .. n)
    BY <2>0
  <2>2. S # {}
    BY <1>0
  <2> QED
    BY <2>1, <2>2, MaxIsHighest
<1>2. PICK m \in Nat, hi \in 0 .. k - 1 : m = Max(S) /\ m = N[hi] /\ \A i \in 0 .. k - 1 : N[i] <= m
  BY <1>1
<1>3. PICK a \in Nat : a = m \div MaxTti
  BY <1>0, Division
<1>4. ASSUME NEW i \in 0 .. k - 1 PROVE N[i] = a * MaxTti + Tti(N[i]) /\ Tti(N[i]) \in 0 .. MaxTti - 1
  <2>1. N[i] \in Nat /\ N[i] \div MaxTti = a
    BY <1>1, <1>2, <1>3
  <2> QED
    BY <1>0, <2>1, Division DEF Tti
<1>5. Max(F) \in F /\ \A x \in F : x <= Max(F)
  <2>1. F \in SUBSET (0 .. MaxTti - 1)
    BY <1>4
  <2>2. F # {}
    BY <1>0
  <2> QED
    BY <1>0, <2>1, <2>2, MaxIsHighest
<1>6. PICK j \in 0 .. k - 1 : Max(F) = Tti(N[j])
  BY <1>5
<1>7. Tti(m) <= Tti(N[j]) /\ N[j] <= m
  BY <1>2, <1>5, <1>6
<1>8. Tti(m) = Tti(N[j])
  <2>1. PICK b \in Nat : b = a * MaxTti
    BY <1>0
  <2>2. PICK x \in 0 .. MaxTti - 1, y \in 0 .. MaxTti - 1 : x = Tti(m) /\ y = Tti(N[j])
    BY <1>2, <1>4
  <2>3. m = b + x /\ N[j] = b + y /\ x <= y
    BY <1>2, <1>4, <1>7, <2>1, <2>2
  <2>4. b + y <= b + x
    BY <1>7, <2>3
  <2>5. x = y
    BY <2>3, <2>4
  <2> QED
    BY <2>2, <2>5
<1>9. PICK h \in 0 .. MaxTti - 1 : h = m % MaxTti /\ h = Tti(m)
  BY <1>0, Division DEF Tti
<1>10. 1 \in 0 .. MaxTti - 1
  BY <1>0
<1>11. (m + 1) % MaxTti = IF h + 1 < MaxTti THEN h + 1 ELSE h + 1 - MaxTti
  <2>1. (m + 1) % MaxTti = IF (m % MaxTti) + 1 < MaxTti THEN (m % MaxTti) + 1 ELSE (m % MaxTti) + 1 - MaxTti
    BY <1>0, <1>10, RemainderMoves
  <2> QED
    BY <1>9, <2>1, Zenon
<1>12. (h + 1) % MaxTti = IF h + 1 < MaxTti THEN h + 1 ELSE h + 1 - MaxTti
  BY TtiAgain
<1> QED
  BY <1>2, <1>6, <1>8, <1>9, <1>11, <1>12 DEF Tti

\* The window of k cells with buffers g, from the TTIs f of the newest, where
\* the header is not 0, and F of the oldest DCIs.
WindowFrom(w, k, g, f, F) ==
    /\ w.header = Tti(Min(Range(Unwrap(f)))) /\ w.tail = Tti(Max(F) + 1)
    /\ DOMAIN f = 0 .. k - 1
    /\ \A i \in 0 .. k - 1 : g[i].header # 0 => f[i] = EntryTti(i, g[i].dci[g[i].header - 1])
    /\ \A x : x \in F <=> \E i \in 0 .. k - 1 : x = EntryTti(i, Oldest(g[i]))
WindowOf(w, k, g) == \E f, F : WindowFrom(w, k, g, f, F)

(* What ca_update_header computes once all cells are ready.                *)
LEMMA UpdateAt ==
  ASSUME NEW r, CaShape(r), r.ca_ready, NEW stale
  PROVE  WindowOf(CaUpdate(r, stale), r.nof_cell, r.cell)
<1>1. PICK f : f = [i \in 0 .. r.nof_cell - 1 |-> IF r.cell[i].header = 0 THEN stale[i]
                                                  ELSE EntryTti(i, r.cell[i].dci[r.cell[i].header - 1])]
  OBVIOUS
<1>2. PICK F : F = {EntryTti(i, Oldest(r.cell[i])) : i \in 0 .. r.nof_cell - 1}
  OBVIOUS
<1>3. CaUpdate(r, stale) = [r EXCEPT !.header = Tti(Min(Range(Unwrap(f)))), !.tail = Tti(Max(F) + 1)]
  BY <1>1, <1>2 DEF CaUpdate
<1>4. PICK x, y : x = Tti(Min(Range(Unwrap(f)))) /\ y = Tti(Max(F) + 1)
  OBVIOUS
<1>5. [r EXCEPT !.header = x, !.tail = y].header = x /\ [r EXCEPT !.header = x, !.tail = y].tail = y
  <2>1. PICK a, b, h, t, g : r = [nof_cell |-> a, ca_ready |-> b, header |-> h, tail |-> t, cell |-> g]
    BY DEF CaShape
  <2> QED
    BY <2>1
<1>6. CaUpdate(r, stale).header = x /\ CaUpdate(r, stale).tail = y
  BY <1>3, <1>4, <1>5
<1>7. DOMAIN f = 0 .. r.nof_cell - 1 /\ \A i \in 0 .. r.nof_cell - 1 :
             r.cell[i].header # 0 => f[i] = EntryTti(i, r.cell[i].dci[r.cell[i].header - 1])
  BY <1>1
<1>8. \A z : z \in F <=> \E i \in 0 .. r.nof_cell - 1 : z = EntryTti(i, Oldest(r.cell[i]))
  BY <1>2, Zenon
<1>9. WindowFrom(CaUpdate(r, stale), r.nof_cell, r.cell, f, F)
  BY <1>4, <1>6, <1>7, <1>8 DEF WindowFrom
<1> QED
  BY <1>9 DEF WindowOf

\* The newest and the oldest DCIs of a client's cells after a step.
NewestSet(S, c) ==
    \A x : x \in S <=> \E i \in 0 .. ring[c].nof_cell - 1 :
                          x = ring'[c].cell[i].dci[Before(ring'[c].cell[i].header)]
OldestSet(S, c) == \A x : x \in S <=> \E i \in 0 .. ring[c].nof_cell - 1 : x = Held(c, i)'[1]

\* None of the newest DCIs, none of the oldest, was given up; none of the
\* newest is the last of its array.
EndsOwn(c) ==
    \A i \in 0 .. ring[c].nof_cell - 1 :
        /\ ring'[c].cell[i].header # 0
        /\ OwnTti(i, ring'[c].cell[i].dci[Before(ring'[c].cell[i].header)])
StartsOwn(c) == \A i \in 0 .. ring[c].nof_cell - 1 : OwnTti(i, Held(c, i)'[1])

(* The buffers of a client change only when it stores a DCI.               *)
LEMMA StoreOnly ==
  ASSUME SinkBase, [SinkNext]_sinkVars, NEW c \in Clients, ring'[c].cell # ring[c].cell
  PROVE  /\ pc[c] = "connected" /\ pc'[c] = "connected"
         /\ \E r, stale : /\ CaShape(r) /\ ring'[c] = CaUpdate(r, stale) /\ r.cell = ring'[c].cell
                          /\ r.nof_cell = ring[c].nof_cell /\ r.ca_ready = ring[c].ca_ready
<1>0. SinkTypes /\ Level(next) /\ \A d \in Clients : ClientOk(d)
  BY DEF SinkBase
<1>1. ring' # ring
  OBVIOUS
<1>2. \A i \in RfDevs : ~SendDci(i)
  BY <1>1 DEF SendDci, clientVars, senderVars, lossVars
<1>3. ~LosePkt
  BY <1>1 DEF LosePkt, LoseToServer, LoseToClient, clientVars, senderVars, lossVars
<1>4. ~ServerRecv /\ ~ServerReply /\ ~ServerConfig /\ ~SinkStutter
  BY <1>1 DEF ServerRecv, ServerReply, ServerConfig, SinkStutter, clientVars, senderVars, lossVars
<1>5. \A d \in Clients : ~ClientConnect(d) /\ ~ClientAwait(d) /\ ~ClientClose(d)
  BY <1>1 DEF ClientConnect, ClientAwait, ClientClose
<1>6. PICK d \in Clients : ClientRecv(d)
  BY <1>2, <1>3, <1>4, <1>5, SinkSteps
<1>7. d = c
  BY <1>0, <1>6, RecvFacts
<1>8. pc[c] = "connected" /\ pc' = pc
  BY <1>0, <1>6, <1>7, RecvFacts
<1>9. PICK i \in RfDevs, n \in Nat : \E stale : ring'[c] = CaUpdate(Insert(ring[c], i, n), stale)
  BY <1>0, <1>6, <1>7, RecvFacts
<1>10. PICK r : r = Insert(ring[c], i, n)
  OBVIOUS
<1>11. CaShape(r) /\ r.nof_cell = ring[c].nof_cell /\ r.ca_ready = ring[c].ca_ready
  BY <1>0, <1>10, InsertShape DEF ClientOk
<1>w. PICK stale : ring'[c] = CaUpdate(r, stale)
  BY <1>9, <1>10
<1>12. r.cell = ring'[c].cell
  BY <1>w, <1>11, UpdateShape
<1> QED
  BY <1>w, <1>8, <1>11, <1>12

(* An entry of a buffer that holds a DCI has its TTI; the oldest is the    *)
(* first of those held, the newest the one before the header.              *)
LEMMA BufferEnds ==
  ASSUME NEW b, Sound(b), b.nof > 0, NEW i
  PROVE  /\ b.dci[Before(b.header)] = Latest(b) /\ Latest(b) \in Nat
         /\ b.header # 0 => b.dci[b.header - 1] = Latest(b)
         /\ OwnTti(i, Latest(b)) => EntryTti(i, Latest(b)) = Tti(Latest(b))
         /\ Oldest(b) = Entry(b, 1) /\ Entry(b, 1) \in Nat
         /\ OwnTti(i, Entry(b, 1)) => EntryTti(i, Entry(b, 1)) = Tti(Entry(b, 1))
<1>0. b \in CellBufs /\ NofLogDci \in Nat \ {0} /\ b.header \in 0 .. NofLogDci - 1 /\ b.nof \in 0 .. NofLogDci
  BY SinkAssumption DEF Sound, CellBufs
<1>1. b.dci[Before(b.header)] = Latest(b) /\ (b.header # 0 => b.dci[b.header - 1] = Latest(b))
  BY <1>0, SlotAt DEF Latest, Before
<1>2. Latest(b) \in Nat
  BY <1>0, NewestNat
<1>3. Oldest(b) = Entry(b, 1)
  <2>1. b.header - b.nof + 1 - 1 + NofLogDci = b.header - b.nof + NofLogDci
    BY <1>0
  <2> QED
    BY <2>1 DEF Oldest, Entry, Slot
<1>4. Entry(b, 1) \in Nat
  <2>1. 1 \in 1 .. b.nof
    BY <1>0
  <2> QED
    BY <2>1 DEF Sound
<1>5. \A n \in Nat : OwnTti(i, n) => EntryTti(i, n) = Tti(n)
  BY DEF EntryTti, NoDci, OwnTti
<1> QED
  BY <1>1, <1>2, <1>3, <1>4, <1>5

(* So the window is right.                                                 *)
LEMMA WindowStep ==
  ASSUME 2 * (MaxAhead + MaxLostPkt) < MaxTti, SinkInv, SinkInv', [SinkNext]_sinkVars,
         NEW c \in Clients, Recomputed(c), NEW newest, NewestSet(newest, c), NEW oldest, OldestSet(oldest, c)
  PROVE  /\ EndsOwn(c) => ring'[c].header = Tti(Min(newest))
         /\ StartsOwn(c) /\ OneRound(oldest) => ring'[c].tail = Tti(Max(oldest) + 1)
<1>0. /\ ring[c].ca_ready /\ ring'[c].cell # ring[c].cell
      /\ \A i \in 0 .. ring[c].nof_cell - 1 : ring'[c].cell[i].nof > 0
  BY DEF Recomputed
<1>1. SinkBase /\ ClientOk(c) /\ LinkOk(c)' /\ SinkTypes'
  BY DEF SinkInv, SinkBase
<1>2. /\ pc'[c] = "connected"
      /\ \E r, stale : /\ CaShape(r) /\ ring'[c] = CaUpdate(r, stale) /\ r.cell = ring'[c].cell
                       /\ r.nof_cell = ring[c].nof_cell /\ r.ca_ready = ring[c].ca_ready
  BY <1>0, <1>1, StoreOnly
<1>3. PICK r, stale : /\ CaShape(r) /\ ring'[c] = CaUpdate(r, stale) /\ r.cell = ring'[c].cell
                      /\ r.nof_cell = ring[c].nof_cell /\ r.ca_ready = ring[c].ca_ready
  BY <1>2
<1>4. PICK k, g : k = ring[c].nof_cell /\ g = ring'[c].cell
  OBVIOUS
<1>5. k \in Nat \ {0} /\ \A i \in 0 .. k - 1 : i \in RfDevs
  <2>1. k \in {1, NofRfDev} /\ NofRfDev \in Nat \ {0}
    BY <1>1, <1>4, SinkConstants DEF ClientOk, CaShape
  <2> QED
    BY <2>1 DEF RfDevs
<1>6. Buffers(g) /\ Near(queue'[c], g, Len(lostPkt'))
  BY <1>1, <1>2, <1>4 DEF LinkOk, Link
<1>7. ASSUME NEW i \in 0 .. k - 1
      PROVE  /\ g[i].nof > 0 /\ g[i].nof # 0
             /\ g[i].dci[Before(g[i].header)] = Latest(g[i]) /\ Latest(g[i]) \in Nat
             /\ g[i].header # 0 => g[i].dci[g[i].header - 1] = Latest(g[i])
             /\ OwnTti(i, Latest(g[i])) => EntryTti(i, Latest(g[i])) = Tti(Latest(g[i]))
             /\ Oldest(g[i]) = Entry(g[i], 1) /\ Entry(g[i], 1) \in Nat
             /\ OwnTti(i, Entry(g[i], 1)) => EntryTti(i, Entry(g[i], 1)) = Tti(Entry(g[i], 1))
             /\ Held(c, i)'[1] = Entry(g[i], 1)
  <2>1. g[i].nof > 0 /\ Sound(g[i])
    BY <1>0, <1>4, <1>5, <1>6 DEF Buffers
  <2>2. g[i].nof \in Nat
    BY <2>1, SinkAssumption DEF Sound, CellBufs
  <2>3. 1 \in 1 .. g[i].nof
    BY <2>1, <2>2
  <2>4. Held(c, i)'[1] = Entry(g[i], 1)
    <3>1. PICK h : h = Held(c, i)'
      OBVIOUS
    <3>2. h = [x \in 1 .. g[i].nof |-> Entry(g[i], x)]
      BY <1>4, <3>1 DEF Held, Entry, Slot
    <3>3. h[1] = Entry(g[i], 1)
      BY <2>3, <3>2
    <3> QED
      BY <3>1, <3>3
  <2> QED
    BY <2>1, <2>2, <2>4, BufferEnds
<1>8. PICK f, F : /\ ring'[c].header = Tti(Min(Range(Unwrap(f)))) /\ ring'[c].tail = Tti(Max(F) + 1)
                  /\ DOMAIN f = 0 .. k - 1
                  /\ \A i \in 0 .. k - 1 : g[i].header # 0 => f[i] = EntryTti(i, g[i].dci[g[i].header - 1])
                  /\ \A x : x \in F <=> \E i \in 0 .. k - 1 : x = EntryTti(i, Oldest(g[i]))
  <2>1. WindowOf(CaUpdate(r, stale), r.nof_cell, r.cell)
    BY <1>0, <1>3, UpdateAt
  <2>2. WindowOf(ring'[c], k, g)
    BY <1>3, <1>4, <2>1
  <2> QED
    BY <2>2 DEF WindowOf, WindowFrom
<1>9. ASSUME EndsOwn(c) PROVE ring'[c].header = Tti(Min(newest))
  <2>0. ASSUME NEW i \in 0 .. k - 1 PROVE g[i].header # 0 /\ OwnTti(i, Latest(g[i]))
    BY <1>4, <1>7, <1>9 DEF EndsOwn
  <2>1. PICK N : N = [i \in 0 .. k - 1 |-> Latest(g[i])]
    OBVIOUS
  <2>2. N \in [0 .. k - 1 -> Nat] /\ \A i \in 0 .. k - 1 : N[i] = Latest(g[i])
    BY <1>7, <2>1
  <2>3. PICK D \in Nat : D = MaxAhead + MaxLostPkt /\ 2 * D < MaxTti
    BY SinkConstants
  <2>4. ASSUME NEW i \in 0 .. k - 1, NEW j \in 0 .. k - 1 PROVE N[i] <= N[j] + D
    <3>1. Latest(g[i]) <= Latest(g[j]) + Len(lostPkt') + MaxAhead
      BY <1>5, <1>6, <1>7 DEF Near
    <3>2. Len(lostPkt') \in Nat /\ Len(lostPkt') <= MaxLostPkt
      BY <1>1, LenProperties DEF SinkTypes
    <3>3. PICK x \in Nat, y \in Nat, l \in Nat : x = Latest(g[i]) /\ y = Latest(g[j]) /\ l = Len(lostPkt')
      BY <1>7, <3>2
    <3>4. ASSUME NEW a \in Nat, NEW b \in Nat, D = a + b, x <= y + l + a, l <= b PROVE x <= y + D
      BY <3>4
    <3>5. x <= y + D
      BY <2>3, <3>1, <3>2, <3>3, <3>4, SinkConstants
    <3> QED
      BY <2>2, <3>3, <3>5
  <2>5. TtisOf(f, k, N) /\ Together(k, N, D)
    <3>1. ASSUME NEW i \in 0 .. k - 1 PROVE f[i] = Tti(N[i])
      BY <1>7, <1>8, <2>0, <2>2
    <3> QED
      BY <1>8, <2>3, <2>4, <3>1 DEF TtisOf, Together
  <2>6. \A x : x \in newest <=> \E i \in 0 .. k - 1 : x = g[i].dci[Before(g[i].header)]
    BY <1>4 DEF NewestSet
  <2>7. ValuesOf(newest, k, N)
    <3>1. \A i \in 0 .. k - 1 : N[i] = g[i].dci[Before(g[i].header)]
      BY <1>7, <2>2
    <3> QED
      BY <2>6, <3>1 DEF ValuesOf
  <2>8. Tti(Min(Range(Unwrap(f)))) = Tti(Min(newest))
    BY <1>5, <2>2, <2>5, <2>7, WindowHead
  <2> QED
    BY <1>8, <2>8
<1>10. ASSUME StartsOwn(c), OneRound(oldest) PROVE ring'[c].tail = Tti(Max(oldest) + 1)
  <2>1. PICK N : N = [i \in 0 .. k - 1 |-> Entry(g[i], 1)]
    OBVIOUS
  <2>2. N \in [0 .. k - 1 -> Nat] /\ \A i \in 0 .. k - 1 : N[i] = Entry(g[i], 1)
    BY <1>7, <2>1
  <2>3. TtiSet(F, k, N)
    <3>1. ASSUME NEW i \in 0 .. k - 1 PROVE EntryTti(i, Oldest(g[i])) = Tti(N[i])
      <4>1. OwnTti(i, Entry(g[i], 1))
        BY <1>4, <1>7, <1>10 DEF StartsOwn
      <4> QED
        BY <1>7, <2>2, <4>1
    <3> QED
      BY <1>8, <3>1 DEF TtiSet
  <2>4. ValuesOf(oldest, k, N)
    <3>1. \A x : x \in oldest <=> \E i \in 0 .. k - 1 : x = Held(c, i)'[1]
      BY <1>4 DEF OldestSet
    <3>2. \A i \in 0 .. k - 1 : N[i] = Held(c, i)'[1]
      BY <1>7, <2>2
    <3> QED
      BY <3>1, <3>2 DEF ValuesOf
  <2>5. Tti(Max(F) + 1) = Tti(Max(oldest) + 1)
    BY <1>5, <1>10, <2>2, <2>3, <2>4, WindowTail
  <2> QED
    BY <1>8, <2>5
<1> QED
  BY <1>9, <1>10

(* The window of a client ends at the newest DCI that all cells have and   *)
(* starts after the latest of their oldest, whatever the number of cells,  *)
(* of entries, of wraps and of subframes that were given up in between, if *)
(* cells are apart, and packets lost, by less than half a round of TTIs    *)
(* together.  The end is claimed when the newest DCIs carry their own TTI  *)
(* and no header is 0, the start when the oldest ones do and lie in one    *)
(* round.                                                                  *)
THEOREM WindowOfAllCells ==
  ASSUME 2 * (MaxAhead + MaxLostPkt) < MaxTti
  PROVE  SinkSpec => CaWindow
<1>1. ASSUME SinkInv, SinkInv', [SinkNext]_sinkVars, NEW c \in Clients, Recomputed(c)
      PROVE  LET used       == 0 .. ring[c].nof_cell - 1
                 EndOf(i)   == ring'[c].cell[i].dci[Before(ring'[c].cell[i].header)]
                 StartOf(i) == Held(c, i)'[1]
                 newest     == {EndOf(i) : i \in used}
                 oldest     == {StartOf(i) : i \in used}
             IN  /\ (\A i \in used : ring'[c].cell[i].header # 0 /\ OwnTti(i, EndOf(i)))
                        => ring'[c].header = Tti(Min(newest))
                 /\ /\ \A i \in used : OwnTti(i, StartOf(i))
                    /\ \A m, n \in oldest : m \div MaxTti = n \div MaxTti
                    => ring'[c].tail = Tti(Max(oldest) + 1)
  <2>1. PICK newest : newest = {ring'[c].cell[i].dci[Before(ring'[c].cell[i].header)] : i \in 0 .. ring[c].nof_cell - 1}
    OBVIOUS
  <2>2. PICK oldest : oldest = {Held(c, i)'[1] : i \in 0 .. ring[c].nof_cell - 1}
    OBVIOUS
  <2>3. NewestSet(newest, c)
    BY <2>1, Zenon DEF NewestSet
  <2>4. OldestSet(oldest, c)
    BY <2>2, Zenon DEF OldestSet
  <2>5. /\ EndsOwn(c) => ring'[c].header = Tti(Min(newest))
        /\ StartsOwn(c) /\ OneRound(oldest) => ring'[c].tail = Tti(Max(oldest) + 1)
    BY <1>1, <2>3, <2>4, WindowStep
  <2> QED
    BY <2>1, <2>2, <2>5 DEF OneRound, EndsOwn, StartsOwn
<1>2. SinkInv /\ SinkInv' /\ [SinkNext]_sinkVars =>
          [\A c \in Clients : Recomputed(c) =>
               LET used       == 0 .. ring[c].nof_cell - 1
                   EndOf(i)   == ring'[c].cell[i].dci[Before(ring'[c].cell[i].header)]
                   StartOf(i) == Held(c, i)'[1]
                   newest     == {EndOf(i) : i \in used}
                   oldest     == {StartOf(i) : i \in used}
               IN  /\ (\A i \in used : ring'[c].cell[i].header # 0 /\ OwnTti(i, EndOf(i)))
                          => ring'[c].header = Tti(Min(newest))
                   /\ /\ \A i \in used : OwnTti(i, StartOf(i))
                      /\ \A m, n \in oldest : m \div MaxTti = n \div MaxTti
                      => ring'[c].tail = Tti(Max(oldest) + 1)]_sinkVars
  BY <1>1
<1> QED
  BY <1>2, SinkInvariant, PTL DEF SinkSpec, CaWindow

(***************************************************************************)
(* The logger.                                                             *)
(***************************************************************************)
-----------------------------------------------------------------------------
(* Slots of a ring.                                                        *)

(* Every number is a number of laps and a slot.                            *)
LEMMA Laps ==
  ASSUME NEW N \in Nat \ {0}, NEW x \in Int
  PROVE  \E a \in Int, s \in 0 .. N - 1 : x = a * N + s /\ x % N = s
<1>1. x = (x \div N) * N + (x % N) /\ x % N \in 0 .. N - 1 /\ x \div N \in Int
  OBVIOUS
<1> QED
  BY <1>1

(* The slot of a number of laps and a slot.                                *)
LEMMA LapsBack ==
  ASSUME NEW N \in Nat \ {0}, NEW a \in Int, NEW s \in 0 .. N - 1
  PROVE  (a * N + s) % N = s
OBVIOUS

(* Whole laps do not change a slot.                                        *)
LEMMA WholeLaps ==
  ASSUME NEW N \in Nat \ {0}, NEW x \in Int, NEW a \in Int
  PROVE  (a * N + x) % N = x % N
<1>1. PICK b \in Int, s \in 0 .. N - 1 : x = b * N + s /\ x % N = s
  BY Laps
<1>2. a * N + x = (a + b) * N + s /\ a + b \in Int
  BY <1>1
<1> QED
  BY <1>1, <1>2, LapsBack

(* Remainders may be taken early.                                          *)
LEMMA EarlyRemainder ==
  ASSUME NEW N \in Nat \ {0}, NEW x \in Int, NEW y \in Int
  PROVE  /\ x % N \in 0 .. N - 1
         /\ ((x % N) + y) % N = (x + y) % N
         /\ (y - (x % N)) % N = (y - x) % N
<1>1. PICK a \in Int, s \in 0 .. N - 1 : x = a * N + s /\ x % N = s
  BY Laps
<1>2. PICK u \in Int : u = s + y /\ x + y = a * N + u
  BY <1>1
<1>3. PICK v \in Int : v = y - x
  OBVIOUS
<1>4. (x + y) % N = (s + y) % N
  <2>1. (a * N + u) % N = u % N
    BY <1>1, WholeLaps
  <2> QED
    BY <1>2, <2>1
<1>5. (y - s) % N = (y - x) % N
  <2>1. y - s = a * N + v
    BY <1>1, <1>3
  <2>2. (a * N + v) % N = v % N
    BY <1>1, WholeLaps
  <2> QED
    BY <1>3, <2>1, <2>2
<1> QED
  BY <1>1, <1>4, <1>5

(* Numbers less than a lap apart that share a slot are the same.           *)
LEMMA SameSlot ==
  ASSUME NEW N \in Nat \ {0}, NEW x \in Int, NEW y \in Int,
         x % N = y % N, x - y < N, y - x < N
  PROVE  x = y
<1>1. CASE x >= y
  <2>1. PICK d \in 0 .. N - 1 : d = x - y
    BY <1>1
  <2>2. (x - (y % N)) % N = d % N /\ (x - (x % N)) % N = (x - x) % N
    BY <2>1, EarlyRemainder
  <2>3. d % N = d /\ 0 % N = 0 /\ x - x = 0
    BY <2>1
  <2> QED
    BY <2>1, <2>2, <2>3
<1>2. CASE y >= x
  <2>1. PICK d \in 0 .. N - 1 : d = y - x
    BY <1>2
  <2>2. (y - (x % N)) % N = d % N /\ (y - (y % N)) % N = (y - y) % N
    BY <2>1, EarlyRemainder
  <2>3. d % N = d /\ 0 % N = 0 /\ y - y = 0
    BY <2>1
  <2> QED
    BY <2>1, <2>2, <2>3
<1> QED
  BY <1>1, <1>2

\* An eighth of the buffer: the forward window of most_recent_sf.
Eighth == BufSize \div 8

(* The constants of the ring.                                              *)
LEMMA RingConstants ==
  /\ BufSize \in Nat \ {0} /\ Eighth \in Nat \ {0} /\ BufSize = 8 * Eighth
  /\ (6 * BufSize) \div 8 = 6 * Eighth /\ DecodeTimeout \in Nat \ {0}
<1>1. BufSize \in Nat /\ BufSize >= 8 /\ BufSize % 8 = 0 /\ DecodeTimeout \in Nat \ {0}
  BY RingAssumption
<1>2. Eighth \in Nat \ {0} /\ BufSize = 8 * Eighth
  BY <1>1 DEF Eighth
<1>3. (6 * BufSize) \div 8 = 6 * Eighth
  BY <1>1, <1>2
<1> QED
  BY <1>1, <1>2, <1>3

(* The slot of a subframe, and how far slots are from each other.          *)
LEMMA SlotOf ==
  ASSUME NEW x \in Int
  PROVE  /\ x % BufSize \in Slots
         /\ \A y \in Int : ((x % BufSize) + y) % BufSize = (x + y) % BufSize
BY RingConstants, EarlyRemainder DEF Slots

(* How far a slot is from the one d subframes earlier.                     *)
LEMMA DistSlots ==
  ASSUME NEW x \in Int, NEW d \in 0 .. BufSize - 1
  PROVE  /\ Dist(x % BufSize, (x + d) % BufSize) = d
         /\ Dist((x % BufSize) + 1, (x + 1 + d) % BufSize) = d
<1>0. BufSize \in Nat \ {0} /\ d % BufSize = d /\ d \in Int
  BY RingConstants
<1>1. ASSUME NEW y \in Int PROVE (((x + y) % BufSize) - (x % BufSize)) % BufSize = y % BufSize
  <2>1. PICK s \in Int : s = (x + y) % BufSize
    BY <1>0, EarlyRemainder
  <2>2. (s - (x % BufSize)) % BufSize = (s - x) % BufSize
    BY <1>0, <2>1, EarlyRemainder
  <2>3. PICK z \in Int, v \in Int : z = x + y /\ v = 0 - x
    OBVIOUS
  <2>4. ((z % BufSize) + v) % BufSize = (z + v) % BufSize
    BY <1>0, <2>3, EarlyRemainder
  <2>5. s + v = s - x /\ z + v = y
    BY <2>1, <2>3
  <2> QED
    BY <2>1, <2>2, <2>3, <2>4, <2>5
<1>2. Dist(x % BufSize, (x + d) % BufSize) = d
  BY <1>0, <1>1 DEF Dist
<1>3. Dist((x % BufSize) + 1, (x + 1 + d) % BufSize) = d
  <2>0. PICK e \in Int, v \in Int : e = 1 + d /\ x + e = x + 1 + d /\ v = 0 - 1
    BY <1>0
  <2>1. PICK s \in Int : s = (x + 1 + d) % BufSize /\ s = (x + e) % BufSize
    BY <1>0, <2>0, EarlyRemainder
  <2>2. PICK h \in Int : h = x % BufSize
    BY <1>0, EarlyRemainder
  <2>3. PICK w \in Int : w = s - h /\ w % BufSize = e % BufSize
    BY <1>1, <2>0, <2>1, <2>2
  <2>4. ((w % BufSize) + v) % BufSize = (w + v) % BufSize
    BY <1>0, <2>0, <2>3, EarlyRemainder
  <2>5. ((e % BufSize) + v) % BufSize = (e + v) % BufSize
    BY <1>0, <2>0, EarlyRemainder
  <2>6. w + v = s - (h + 1) /\ e + v = d
    BY <1>0, <2>0, <2>1, <2>2, <2>3
  <2>7. (s - (h + 1)) % BufSize = d
    BY <1>0, <2>3, <2>4, <2>5, <2>6
  <2> QED
    BY <2>1, <2>2, <2>7 DEF Dist
<1> QED
  BY <1>2, <1>3

(* Every slot lies some steps after a given one.                           *)
LEMMA SlotAfter ==
  ASSUME NEW x \in Int, NEW s \in Slots
  PROVE  /\ Dist((x % BufSize) + 1, s) \in 0 .. BufSize - 1
         /\ s = (x + 1 + Dist((x % BufSize) + 1, s)) % BufSize
<1>0. BufSize \in Nat \ {0} /\ s \in Int /\ s % BufSize = s /\ s \in 0 .. BufSize - 1
  BY RingConstants DEF Slots
<1>1. PICK h \in Int : h = x % BufSize
  BY <1>0, EarlyRemainder
<1>v. PICK u \in Int, v \in Int : u = h + 1 /\ v = s - u
  BY <1>0, <1>1
<1>2. PICK d \in 0 .. BufSize - 1 : d = v % BufSize
  BY <1>0, <1>v, EarlyRemainder
<1>3. (d + u) % BufSize = (v + u) % BufSize
  BY <1>0, <1>v, <1>2, EarlyRemainder
<1>4. PICK e \in Int : e = 1 + d /\ v + u = s /\ d + u = h + e /\ x + e = x + 1 + d
  BY <1>0, <1>1, <1>v, <1>2
<1>5. (h + e) % BufSize = (x + e) % BufSize
  BY <1>0, <1>1, <1>4, EarlyRemainder
<1>6. s = (x + 1 + d) % BufSize /\ d = (s - (h + 1)) % BufSize
  BY <1>0, <1>v, <1>2, <1>3, <1>4, <1>5
<1> QED
  BY <1>1, <1>2, <1>6 DEF Dist

-----------------------------------------------------------------------------
(* One put.                                                                *)

\* What a slot may hold, and the rings.
Vals == {None} \cup (FirstTti .. LastTti)
Rings == [filled : SUBSET Slots, content : [Slots -> Vals], cell_ready : BOOLEAN,
          cell_header : Slots, most_recent_sf : Slots, nof_logged_dci : 0 .. BufSize,
          head : Int, first : Int, early : SUBSET Slots, clean : BOOLEAN, pushed : Seq(Vals)]

\* The intermediate results of Put.
HeaderFor(r, n) == IF r.cell_ready THEN r.cell_header ELSE FirstHeader(n % BufSize)
RecentFor(r, n) == MostRecent(IF r.cell_ready THEN r.most_recent_sf ELSE HeaderFor(r, n), n % BufSize)
NofFor(r) == IF r.nof_logged_dci < BufSize THEN r.nof_logged_dci + 1 ELSE r.nof_logged_dci
FillFor(r, n) == r.filled \cup {n % BufSize}
KnownFor(r, n) ==
    IF NofFor(r) >= Eighth
    THEN FillFor(r, n) \cup TimedOut(FillFor(r, n), HeaderFor(r, n), RecentFor(r, n))
    ELSE FillFor(r, n)
StepsFor(r, n) == IF NofFor(r) >= Eighth THEN Advance(KnownFor(r, n), HeaderFor(r, n)) ELSE 0
ContentFor(r, n) == [r.content EXCEPT ![n % BufSize] = n]
HandedFor(r, n) == [k \in 1 .. StepsFor(r, n) |-> ContentFor(r, n)[(HeaderFor(r, n) + k) % BufSize]]
FirstFor(r, n) == IF r.cell_ready THEN r.first ELSE n
EarlyFor(r, n) ==
    IF n < FirstFor(r, n) THEN r.early \cup {n % BufSize} ELSE r.early \ {n % BufSize}
CleanFor(r, n) ==
    r.clean /\ \A s \in EarlyFor(r, n) : Dist(HeaderFor(r, n) + 1, s) >= StepsFor(r, n)

(* The fields of the ring a put leaves behind.                             *)
IsPut(q, r, n) ==
    /\ q.filled = {s \in KnownFor(r, n) : Dist(HeaderFor(r, n) + 1, s) >= StepsFor(r, n)}
    /\ q.content = ContentFor(r, n)
    /\ q.cell_ready = TRUE
    /\ q.cell_header = IF StepsFor(r, n) = 0 THEN HeaderFor(r, n)
                       ELSE (HeaderFor(r, n) + StepsFor(r, n)) % BufSize
    /\ q.most_recent_sf = RecentFor(r, n)
    /\ q.nof_logged_dci = NofFor(r)
    /\ q.head = (IF r.cell_ready THEN r.head ELSE n - 1) + StepsFor(r, n)
    /\ q.first = FirstFor(r, n) /\ q.early = EarlyFor(r, n) /\ q.clean = CleanFor(r, n)
    /\ q.pushed = r.pushed \o HandedFor(r, n)

(* A put leaves these fields.                                              *)
LEMMA PutFields == \A r, n : IsPut(Put(r, n), r, n)
<1> SUFFICES ASSUME NEW r, NEW n PROVE IsPut(Put(r, n), r, n)
  OBVIOUS
<1>1. /\ Put(r, n).filled = {s \in KnownFor(r, n) : Dist(HeaderFor(r, n) + 1, s) >= StepsFor(r, n)}
      /\ Put(r, n).content = ContentFor(r, n)
      /\ Put(r, n).cell_ready = TRUE
      /\ Put(r, n).cell_header = IF StepsFor(r, n) = 0 THEN HeaderFor(r, n)
                                 ELSE (HeaderFor(r, n) + StepsFor(r, n)) % BufSize
      /\ Put(r, n).most_recent_sf = RecentFor(r, n)
      /\ Put(r, n).nof_logged_dci = NofFor(r)
      /\ Put(r, n).head = (IF r.cell_ready THEN r.head ELSE n - 1) + StepsFor(r, n)
      /\ Put(r, n).pushed = r.pushed \o HandedFor(r, n)
  BY DEF Put, HeaderFor, RecentFor, NofFor, FillFor, KnownFor, StepsFor, ContentFor, HandedFor, Eighth
<1>2. Put(r, n).first = FirstFor(r, n) /\ Put(r, n).early = EarlyFor(r, n)
  BY DEF Put, FirstFor, EarlyFor
<1>3. Put(r, n).clean = CleanFor(r, n)
  BY DEF Put, HeaderFor, RecentFor, NofFor, FillFor, KnownFor, StepsFor, FirstFor, EarlyFor, CleanFor, Eighth
<1> QED
  BY <1>1, <1>2, <1>3 DEF IsPut

(* A record with the fields of a ring has no others.                       *)
LEMMA RingRecord ==
  ASSUME NEW a, NEW b, NEW c, NEW d, NEW e, NEW f, NEW g, NEW h, NEW i, NEW j, NEW k, NEW x,
         x = [filled |-> a, content |-> b, cell_ready |-> c, cell_header |-> d,
              most_recent_sf |-> e, nof_logged_dci |-> f, head |-> g, first |-> h,
              early |-> i, clean |-> j, pushed |-> k]
  PROVE  x = [filled |-> x.filled, content |-> x.content, cell_ready |-> x.cell_ready,
              cell_header |-> x.cell_header, most_recent_sf |-> x.most_recent_sf,
              nof_logged_dci |-> x.nof_logged_dci, head |-> x.head, first |-> x.first,
              early |-> x.early, clean |-> x.clean, pushed |-> x.pushed]
OBVIOUS

(* A put leaves a record.                                                  *)
LEMMA PutRecord ==
  ASSUME NEW r, NEW n
  PROVE  Put(r, n) = [filled |-> Put(r, n).filled, content |-> Put(r, n).content,
                      cell_ready |-> Put(r, n).cell_ready, cell_header |-> Put(r, n).cell_header,
                      most_recent_sf |-> Put(r, n).most_recent_sf,
                      nof_logged_dci |-> Put(r, n).nof_logged_dci, head |-> Put(r, n).head,
                      first |-> Put(r, n).first, early |-> Put(r, n).early,
                      clean |-> Put(r, n).clean, pushed |-> Put(r, n).pushed]
<1>1. Put(r, n) =
        [filled |-> {s \in KnownFor(r, n) : Dist(HeaderFor(r, n) + 1, s) >= StepsFor(r, n)},
         content |-> ContentFor(r, n), cell_ready |-> TRUE,
         cell_header |-> IF StepsFor(r, n) = 0 THEN HeaderFor(r, n)
                         ELSE (HeaderFor(r, n) + StepsFor(r, n)) % BufSize,
         most_recent_sf |-> RecentFor(r, n), nof_logged_dci |-> NofFor(r),
         head |-> (IF r.cell_ready THEN r.head ELSE n - 1) + StepsFor(r, n),
         first |-> FirstFor(r, n), early |-> EarlyFor(r, n), clean |-> CleanFor(r, n),
         pushed |-> r.pushed \o HandedFor(r, n)]
  BY DEF Put, HeaderFor, RecentFor, NofFor, FillFor, KnownFor, StepsFor, ContentFor, HandedFor,
         FirstFor, EarlyFor, CleanFor, Eighth
<1> QED
  BY <1>1, RingRecord

(* The header walks to the first slot that is not filled.                  *)
LEMMA Walk ==
  ASSUME NEW H \in Int, NEW known \in SUBSET Slots, known # Slots
  PROVE  /\ Advance(known, H % BufSize) \in 0 .. BufSize - 1
         /\ \A k \in 1 .. Advance(known, H % BufSize) : (H + k) % BufSize \in known
         /\ (H + Advance(known, H % BufSize) + 1) % BufSize \notin known
<1> DEFINE T == {Dist((H % BufSize) + 1, s) : s \in Slots \ known}
<1>0. BufSize \in Nat \ {0}
  BY RingConstants
<1>1. T \in SUBSET (0 .. BufSize - 1) /\ BufSize - 1 \in Nat
  <2>1. \A s \in Slots : Dist((H % BufSize) + 1, s) \in 0 .. BufSize - 1
    BY SlotAfter
  <2> QED
    BY <1>0, <2>1
<1>2. T # {}
  OBVIOUS
<1>3. PICK a : a = Min(T)
  OBVIOUS
<1>4. a \in T /\ \A d \in T : a <= d
  BY <1>1, <1>2, <1>3, MinIsLowest
<1>5. a \in 0 .. BufSize - 1 /\ Advance(known, H % BufSize) = a
  BY <1>1, <1>3, <1>4 DEF Advance
<1>6. ASSUME NEW k \in 1 .. a PROVE (H + k) % BufSize \in known
  <2>1. PICK d \in 0 .. BufSize - 1 : d = k - 1 /\ H + 1 + d = H + k /\ H + k \in Int
    BY <1>0, <1>5
  <2>2. Dist((H % BufSize) + 1, (H + k) % BufSize) = d /\ (H + k) % BufSize \in Slots
    BY <2>1, DistSlots, SlotOf
  <2>3. d \notin T
    BY <1>4, <1>5, <2>1
  <2> QED
    BY <2>2, <2>3
<1>7. (H + a + 1) % BufSize \notin known
  <2>1. PICK s \in Slots \ known : a = Dist((H % BufSize) + 1, s)
    BY <1>4
  <2>2. s = (H + 1 + a) % BufSize
    BY <2>1, SlotAfter
  <2>3. H + 1 + a = H + a + 1
    BY <1>5
  <2> QED
    BY <2>1, <2>2, <2>3
<1> QED
  BY <1>5, <1>6, <1>7

(* It never walks further than a lap.                                      *)
LEMMA WalkType ==
  ASSUME NEW h \in Slots, NEW known \in SUBSET Slots
  PROVE  Advance(known, h) \in Nat
<1>1. h \in Int /\ h % BufSize = h
  BY RingConstants DEF Slots
<1>2. CASE known = Slots
  BY <1>2, RingConstants DEF Advance
<1>3. CASE known # Slots
  <2>1. Advance(known, h % BufSize) \in 0 .. BufSize - 1
    BY <1>1, <1>3, Walk
  <2> QED
    BY <1>1, <2>1, RingConstants
<1> QED
  BY <1>2, <1>3

(* What is given up on are slots.                                          *)
LEMMA TimedOutSlots ==
  ASSUME NEW h \in Slots, NEW recent \in Slots, NEW filled
  PROVE  TimedOut(filled, h, recent) \subseteq Slots
<1>1. \A k \in Int : (h + k) % BufSize \in Slots
  BY RingConstants, SlotOf DEF Slots
<1>2. Dist(h + 1, recent) - DecodeTimeout \in Int
  BY RingConstants, EarlyRemainder DEF Slots, Dist
<1> QED
  BY <1>1, <1>2 DEF TimedOut

(* A put of any subframe leaves a ring.                                    *)
LEMMA PutRing ==
  ASSUME NEW r \in Rings, NEW n \in FirstTti .. LastTti
  PROVE  Put(r, n) \in Rings /\ StepsFor(r, n) \in Nat /\ KnownFor(r, n) \subseteq Slots
<1>0. /\ BufSize \in Nat \ {0} /\ n \in Int /\ n \in Vals /\ n % BufSize \in Slots
      /\ (n % BufSize) - 1 \in Int
  <2>1. n \in Int
    BY LoggerAssumption
  <2> QED
    BY <2>1, RingConstants, SlotOf DEF Vals, Slots
<1>1. /\ r.filled \in SUBSET Slots /\ r.content \in [Slots -> Vals] /\ r.cell_header \in Slots
      /\ r.most_recent_sf \in Slots /\ r.nof_logged_dci \in 0 .. BufSize /\ r.head \in Int
      /\ r.first \in Int /\ r.early \in SUBSET Slots /\ r.clean \in BOOLEAN /\ r.pushed \in Seq(Vals)
  BY DEF Rings
<1>2. HeaderFor(r, n) \in Slots
  BY <1>0, <1>1, SlotOf DEF HeaderFor, FirstHeader
<1>3. RecentFor(r, n) \in Slots
  BY <1>0, <1>1, <1>2 DEF RecentFor, MostRecent
<1>4. NofFor(r) \in 0 .. BufSize
  BY <1>0, <1>1 DEF NofFor
<1>5. KnownFor(r, n) \in SUBSET Slots
  BY <1>0, <1>1, <1>2, <1>3, TimedOutSlots DEF KnownFor, FillFor
<1>6. StepsFor(r, n) \in Nat
  BY <1>2, <1>5, WalkType DEF StepsFor
<1>7. PICK f : f = ContentFor(r, n)
  OBVIOUS
<1>8. f \in [Slots -> Vals]
  BY <1>0, <1>1, <1>7 DEF ContentFor
<1>9. \A k \in Int : (HeaderFor(r, n) + k) % BufSize \in Slots
  BY <1>0, <1>2, SlotOf DEF Slots
<1>10. PICK w : w = HandedFor(r, n)
  OBVIOUS
<1>11. w \in Seq(Vals)
  <2>1. \A k \in 1 .. StepsFor(r, n) : f[(HeaderFor(r, n) + k) % BufSize] \in Vals
    BY <1>6, <1>8, <1>9
  <2>2. w \in [1 .. StepsFor(r, n) -> Vals]
    BY <1>7, <1>10, <2>1 DEF HandedFor
  <2> QED
    BY <1>6, <2>2, SeqDef
<1>12. r.pushed \o w \in Seq(Vals)
  BY <1>1, <1>11, ConcatProperties
<1>13. PICK p : p = Put(r, n)
  OBVIOUS
<1>f. IsPut(p, r, n)
  BY <1>13, PutFields
<1>14. /\ p.filled \in SUBSET Slots /\ p.content \in [Slots -> Vals] /\ p.cell_ready \in BOOLEAN
       /\ p.cell_header \in Slots /\ p.most_recent_sf \in Slots /\ p.nof_logged_dci \in 0 .. BufSize
       /\ p.head \in Int /\ p.first \in Int /\ p.early \in SUBSET Slots /\ p.clean \in BOOLEAN
       /\ p.pushed \in Seq(Vals)
  <2>1. p.first \in Int /\ p.early \in SUBSET Slots /\ p.clean \in BOOLEAN
    <3>1. FirstFor(r, n) \in Int
      BY <1>0, <1>1 DEF FirstFor
    <3>2. EarlyFor(r, n) \in SUBSET Slots
      BY <1>0, <1>1 DEF EarlyFor
    <3>3. CleanFor(r, n) \in BOOLEAN
      BY DEF CleanFor
    <3> QED
      BY <1>f, <3>1, <3>2, <3>3 DEF IsPut
  <2>2. p.filled \subseteq KnownFor(r, n)
    BY <1>f DEF IsPut
  <2>3. p.cell_header \in Slots
    BY <1>2, <1>6, <1>9, <1>f DEF IsPut
  <2>4. p.head \in Int
    BY <1>0, <1>1, <1>6, <1>f DEF IsPut
  <2> QED
    BY <1>3, <1>4, <1>5, <1>7, <1>8, <1>10, <1>12, <1>f, <2>1, <2>2, <2>3, <2>4 DEF IsPut
<1>15. p = [filled |-> p.filled, content |-> p.content, cell_ready |-> p.cell_ready,
            cell_header |-> p.cell_header, most_recent_sf |-> p.most_recent_sf,
            nof_logged_dci |-> p.nof_logged_dci, head |-> p.head, first |-> p.first,
            early |-> p.early, clean |-> p.clean, pushed |-> p.pushed]
  BY <1>13, PutRecord
<1>16. p \in Rings
  BY <1>14, <1>15 DEF Rings
<1> QED
  BY <1>5, <1>6, <1>13, <1>16

-----------------------------------------------------------------------------
(* What a ring holds of the results put into it: R are the results, L the  *)
(* subframes that will have none, N the newest of R, p how many subframes  *)
(* the pool has in work and l how many of them it may lose.                *)

Newer(N, R) == N \in R /\ \A m \in R : m <= N
Missing(R, L, N) == {m \in FirstTti .. N : m \notin R /\ m \notin L}

\* Fewer than p results up to N are still to come, none of them very old.
Gaps(R, L, N, p) ==
    /\ Cardinality(Missing(R, L, N)) < p
    /\ \A m \in Missing(R, L, N) : N - m < MaxLag

Losses(L, l, p) ==
    /\ IsFiniteSet(L) /\ l \in Nat /\ p \in Nat
    /\ Cardinality(L) <= l /\ p + l < Eighth

\* The pools are done with a subframe before the ring gives up on it, and the
\* timeout is within the forward window.
Timely == MaxLag <= DecodeTimeout /\ DecodeTimeout < Eighth

\* The header waits for the next subframe, no longer than the timeout.
Lag(r, N) ==
    IF r.nof_logged_dci >= Eighth
    THEN N - r.head <= DecodeTimeout + 1 /\ (r.head + 1) % BufSize \notin r.filled
    ELSE r.head = r.first - 1

\* The flags that are up are those of results the header did not pass, and
\* those behind the first header.
Marked(r, R) == \A s \in r.filled : s \in r.early \/ \E m \in R : m > r.head /\ s = m % BufSize

\* The results older than the first: they came soon after it, and for a lap
\* their slots are known as early.
Earlies(r, R, N) ==
    \A m \in R : m < r.first =>
        r.first - m < MaxLag /\ (N - m < BufSize => m % BufSize \in r.early)

\* The results of the last lap are in their slots.
Contents(r, R, N) == \A m \in R : N - m < BufSize => r.content[m % BufSize] = m

\* What the header passed will not come any more.
Passed(r, R, L) == \A m \in r.first .. r.head : m \in R \/ m \in L

\* What was handed on came in its turn.
Turn(r, k) == r.head - Len(r.pushed) + k
Handed(r, R, L, N) ==
    \A k \in 1 .. Len(r.pushed) :
        /\ r.pushed[k] = Turn(r, k) \/ Turn(r, k) \in L
        /\ Turn(r, k) \in R \/ N - Turn(r, k) > DecodeTimeout

RingAt(r, R, L, N, p) ==
    /\ Newer(N, R) /\ r.first \in R /\ R \subseteq FirstTti .. LastTti
    /\ Gaps(R, L, N, p)
    /\ r.head \in r.first - 1 .. N
    /\ r.cell_header = r.head % BufSize /\ r.most_recent_sf = N % BufSize
    /\ r.nof_logged_dci <= Cardinality(R)
    /\ r.nof_logged_dci < BufSize => r.nof_logged_dci = Cardinality(R)
    /\ Lag(r, N) /\ Marked(r, R) /\ Earlies(r, R, N) /\ Contents(r, R, N) /\ Passed(r, R, L)
    /\ Handed(r, R, L, N)

(* An interval inside two sets is no longer than they are large.           *)
LEMMA CoverBound ==
  ASSUME NEW a \in Int, NEW b \in Int, NEW A, NEW B, IsFiniteSet(A), IsFiniteSet(B),
         a .. b \subseteq A \cup B
  PROVE  /\ Cardinality(A) \in Nat /\ Cardinality(B) \in Nat
         /\ b - a + 1 <= Cardinality(A) + Cardinality(B)
<1>1. Cardinality(A) \in Nat /\ Cardinality(B) \in Nat
  BY FS_CardinalityType
<1>2. /\ IsFiniteSet(A \cup B) /\ Cardinality(A \cap B) \in Nat
      /\ Cardinality(A \cup B) = Cardinality(A) + Cardinality(B) - Cardinality(A \cap B)
  <2>1. IsFiniteSet(A \cap B)
    BY FS_Subset
  <2> QED
    BY <2>1, FS_Union, FS_CardinalityType
<1>3. Cardinality(a .. b) <= Cardinality(A \cup B) /\ Cardinality(A \cup B) \in Nat
  BY <1>2, FS_Subset, FS_CardinalityType
<1>4. Cardinality(a .. b) = IF a > b THEN 0 ELSE b - a + 1
  BY FS_Interval
<1> QED
  BY <1>1, <1>2, <1>3, <1>4

(* Only finitely many subframes are missing.                               *)
LEMMA MissingFinite ==
  ASSUME NEW R, NEW L, NEW N \in Int
  PROVE  IsFiniteSet(Missing(R, L, N)) /\ Cardinality(Missing(R, L, N)) \in Nat
<1>1. FirstTti \in Int /\ IsFiniteSet(FirstTti .. N) /\ Missing(R, L, N) \subseteq FirstTti .. N
  BY LoggerAssumption, FS_Interval DEF Missing
<1> QED
  BY <1>1, FS_Subset, FS_CardinalityType

(* Only finitely many were received.                                       *)
LEMMA ReceivedFinite ==
  ASSUME NEW R, R \subseteq FirstTti .. LastTti
  PROVE  IsFiniteSet(R) /\ Cardinality(R) \in Nat /\ R \subseteq Int
<1>1. IsFiniteSet(FirstTti .. LastTti) /\ FirstTti .. LastTti \subseteq Int
  BY LoggerAssumption, FS_Interval
<1> QED
  BY <1>1, FS_Subset, FS_CardinalityType

(* Results that go on above N: as many as A has, besides lost and missing. *)
LEMMA StretchBound ==
  ASSUME NEW R, NEW L, NEW M \in Int, NEW l, NEW p, Losses(L, l, p), Gaps(R, L, M, p),
         NEW N \in Int, FirstTti - 1 <= N, NEW A, IsFiniteSet(A), \A m \in R : m > N => m \in A
  PROVE  M - N < Cardinality(A) + p + l /\ Cardinality(A) \in Nat
<1>0. FirstTti \in Int /\ Cardinality(L) <= l /\ IsFiniteSet(L) /\ l \in Nat /\ p \in Nat
  BY LoggerAssumption DEF Losses
<1>1. PICK U : U = Missing(R, L, M)
  OBVIOUS
<1>2. IsFiniteSet(U) /\ Cardinality(U) \in Nat /\ Cardinality(U) < p
  BY <1>1, MissingFinite DEF Gaps
<1>3. /\ IsFiniteSet(L \cup U) /\ Cardinality(L \cup U) \in Nat
      /\ Cardinality(L \cup U) <= Cardinality(L) + Cardinality(U)
  <2>1. IsFiniteSet(L \cap U)
    BY <1>2, FS_Subset
  <2>2. Cardinality(L \cap U) \in Nat /\ Cardinality(L) \in Nat
    BY <1>0, <2>1, FS_CardinalityType
  <2>3. IsFiniteSet(L \cup U) /\ Cardinality(L \cup U) = Cardinality(L) + Cardinality(U) - Cardinality(L \cap U)
    BY <1>0, <1>2, FS_Union
  <2>4. Cardinality(L \cup U) \in Nat
    BY <2>3, FS_CardinalityType
  <2> QED
    BY <1>2, <2>2, <2>3, <2>4
<1>4. N + 1 .. M \subseteq A \cup (L \cup U)
  <2> SUFFICES ASSUME NEW m \in N + 1 .. M PROVE m \in A \cup (L \cup U)
    OBVIOUS
  <2>1. m \in FirstTti .. M /\ m > N
    BY <1>0
  <2> QED
    BY <1>1, <2>1 DEF Missing
<1>5. N + 1 \in Int
  OBVIOUS
<1>6. Cardinality(A) \in Nat /\ M - (N + 1) + 1 <= Cardinality(A) + Cardinality(L \cup U)
  BY <1>3, <1>4, <1>5, CoverBound
<1>7. Cardinality(L) \in Nat
  BY <1>0, FS_CardinalityType
<1> QED
  BY <1>0, <1>2, <1>3, <1>6, <1>7

(* The header is within two eighths of the newest result.                  *)
LEMMA HeaderNear ==
  ASSUME NEW r, r \in Rings, NEW R, NEW L, NEW N, NEW p, NEW l, RingAt(r, R, L, N, p), Losses(L, l, p), Timely
  PROVE  N \in Int /\ r.head \in Int /\ r.head <= N /\ N - r.head <= 2 * Eighth
<1>0. /\ FirstTti \in Int /\ N \in Int /\ r.first \in FirstTti .. LastTti /\ r.head \in r.first - 1 .. N
      /\ Eighth \in Nat /\ BufSize = 8 * Eighth
      /\ DecodeTimeout \in Nat /\ r.nof_logged_dci \in Nat /\ p \in Nat /\ l \in Nat /\ p + l < Eighth
      /\ DecodeTimeout < Eighth
  <2>1. N \in FirstTti .. LastTti /\ r.first \in FirstTti .. LastTti /\ r.head \in r.first - 1 .. N
    BY DEF RingAt, Newer
  <2>2. r.nof_logged_dci \in 0 .. BufSize
    BY DEF Rings
  <2> QED
    BY <2>1, <2>2, LoggerAssumption, RingConstants DEF Losses, Timely
<1>1. CASE r.nof_logged_dci >= Eighth
  <2>1. N - r.head <= DecodeTimeout + 1
    BY <1>1 DEF RingAt, Lag
  <2> QED
    BY <1>0, <2>1
<1>2. CASE ~(r.nof_logged_dci >= Eighth)
  <2>1. r.head = r.first - 1 /\ Cardinality(R) < Eighth
    <3>1. r.nof_logged_dci < BufSize
      BY <1>0, <1>2
    <3> QED
      BY <1>0, <1>2, <3>1 DEF RingAt, Lag
  <2>2. IsFiniteSet(R) /\ Gaps(R, L, N, p)
    BY ReceivedFinite DEF RingAt
  <2>3. r.first - 1 \in Int /\ FirstTti - 1 <= r.first - 1
    BY <1>0
  <2>4. N - (r.first - 1) < Cardinality(R) + p + l /\ Cardinality(R) \in Nat
    BY <1>0, <2>2, <2>3, StretchBound
  <2> QED
    BY <1>0, <2>1, <2>4
<1> QED
  BY <1>1, <1>2

(* most_recent_sf follows the newest result.                               *)
LEMMA RecentMoves ==
  ASSUME NEW N \in Int, NEW n \in Int, n # N, n - N < Eighth, N - n <= 2 * Eighth
  PROVE  MostRecent(N % BufSize, n % BufSize) = IF n > N THEN n % BufSize ELSE N % BufSize
<1>0. /\ BufSize \in Nat \ {0} /\ Eighth \in Nat \ {0} /\ BufSize = 8 * Eighth
      /\ (6 * BufSize) \div 8 = 6 * Eighth /\ BufSize \div 8 = Eighth
  BY RingConstants DEF Eighth
<1>1. PICK s \in 0 .. BufSize - 1 : s = N % BufSize
  BY <1>0, EarlyRemainder
<1>2. PICK d \in Int : d = n - N /\ n = N + d
  OBVIOUS
<1>3. PICK t \in 0 .. BufSize - 1 : t = n % BufSize /\ t = (s + d) % BufSize
  <2>1. n % BufSize \in 0 .. BufSize - 1
    BY <1>0, EarlyRemainder
  <2>2. ((N % BufSize) + d) % BufSize = (N + d) % BufSize
    BY <1>0, EarlyRemainder
  <2> QED
    BY <1>1, <1>2, <2>1, <2>2
<1>4. t = s + d \/ t = s + d + BufSize \/ t = s + d - BufSize
  <2>1. s + d \in 0 .. BufSize - 1 \/ s + d + BufSize \in 0 .. BufSize - 1 \/ s + d - BufSize \in 0 .. BufSize - 1
    BY <1>0, <1>1, <1>2
  <2>2. CASE s + d \in 0 .. BufSize - 1
    BY <1>0, <1>3, <2>2
  <2>3. CASE s + d + BufSize \in 0 .. BufSize - 1
    <3>1. (0 - 1) * BufSize + (s + d + BufSize) = s + d
      BY <1>0, <1>1, <1>2
    <3>2. ((0 - 1) * BufSize + (s + d + BufSize)) % BufSize = s + d + BufSize
      BY <1>0, <2>3, LapsBack
    <3> QED
      BY <1>3, <3>1, <3>2
  <2>4. CASE s + d - BufSize \in 0 .. BufSize - 1
    <3>1. 1 * BufSize + (s + d - BufSize) = s + d
      BY <1>0, <1>1, <1>2
    <3>2. (1 * BufSize + (s + d - BufSize)) % BufSize = s + d - BufSize
      BY <1>0, <2>4, LapsBack
    <3> QED
      BY <1>3, <3>1, <3>2
  <2> QED
    BY <2>1, <2>2, <2>3, <2>4
<1>5. CASE d > 0
  <2>1. t # s /\ (t > s => t - s < Eighth) /\ (t < s => s - t > 6 * Eighth)
    BY <1>0, <1>1, <1>2, <1>3, <1>4, <1>5
  <2> QED
    BY <1>0, <1>1, <1>2, <1>3, <1>5, <2>1 DEF MostRecent
<1>6. CASE d < 0
  <2>1. ~(t > s /\ t - s < Eighth) /\ ~(t < s /\ s - t > 6 * Eighth)
    BY <1>0, <1>1, <1>2, <1>3, <1>4, <1>6
  <2> QED
    BY <1>0, <1>1, <1>2, <1>3, <1>6, <2>1 DEF MostRecent
<1> QED
  BY <1>2, <1>5, <1>6

\* M is the higher of N and n.
IsTop(M, N, n) == (n < N /\ M = N) \/ (n > N /\ M = n)

\* A result n that comes in later than the first one, M the newest then.  The
\* header does not walk over an early flag.
PutAt(r, R, L, N, p, l, n, M) ==
    /\ r \in Rings /\ r.cell_ready /\ RingAt(r, R, L, N, p) /\ Losses(L, l, p) /\ Timely
    /\ n \in FirstTti .. LastTti /\ n \notin R /\ n \notin L
    /\ IsTop(M, N, n) /\ Gaps(R \cup {n}, L, M, p)
    /\ CleanFor(r, n)

\* Where the result lies: after the header, or before the first result and
\* then not long ago.
Lies(r, N, n, M) ==
    /\ N \in Int /\ M \in Int /\ n \in Int /\ r.head \in Int /\ r.first \in Int
    /\ n <= M /\ N <= M /\ r.head <= N /\ r.first - 1 <= r.head /\ r.first <= N
    /\ M - r.head <= 3 * Eighth /\ M - n <= 3 * Eighth
    /\ n > r.head \/ (n < r.first /\ M = N /\ N - n < MaxLag)
    /\ HeaderFor(r, n) = r.head % BufSize /\ RecentFor(r, n) = M % BufSize

(* Where it lies.                                                          *)
LEMMA PutLies ==
  ASSUME NEW r, NEW R, NEW L, NEW N, NEW p, NEW l, NEW n, NEW M, PutAt(r, R, L, N, p, l, n, M)
  PROVE  Lies(r, N, n, M)
<1> USE DEF PutAt
<1>0. /\ BufSize \in Nat \ {0} /\ Eighth \in Nat \ {0} /\ BufSize = 8 * Eighth /\ DecodeTimeout \in Nat \ {0}
      /\ FirstTti \in Int /\ LastTti \in Int /\ n \in Int /\ MaxLag \in Nat /\ MaxLag < Eighth
  BY RingConstants, LoggerAssumption DEF Timely
<1>1. N \in Int /\ r.head \in Int /\ r.head <= N /\ N - r.head <= 2 * Eighth
  BY HeaderNear
<1>2. r.first \in Int /\ r.first - 1 <= r.head /\ r.first <= N
  <2>1. r.first \in FirstTti .. LastTti /\ r.head \in r.first - 1 .. N /\ r.first <= N
    BY DEF RingAt, Newer
  <2> QED
    BY <1>0, <1>1, <2>1
<1>3. M \in Int /\ n <= M /\ N <= M /\ M \in {N, n} /\ n # N
  BY <1>0, <1>1 DEF IsTop
<1>4. n > r.head \/ n < r.first
  BY <1>0, <1>1, <1>2 DEF RingAt, Passed
<1>5. ASSUME n > N PROVE n - N < Eighth
  <2>1. p \in Nat /\ l \in Nat /\ p + l < Eighth
    BY DEF Losses
  <2>2. M = n
    BY <1>0, <1>1, <1>5 DEF IsTop
  <2>3. IsFiniteSet({n}) /\ Cardinality({n}) = 1
    BY FS_Singleton
  <2>4. \A m \in R \cup {n} : m > N => m \in {n}
    BY <1>1, ReceivedFinite DEF RingAt, Newer
  <2>5. FirstTti - 1 <= N
    BY <1>0, <1>1 DEF RingAt, Newer
  <2>6. M - N < Cardinality({n}) + p + l
    BY <1>1, <1>3, <2>3, <2>4, <2>5, StretchBound
  <2> QED
    BY <1>0, <1>1, <2>1, <2>2, <2>3, <2>6
<1>6. ASSUME ~(n > r.head) PROVE n < r.first /\ M = N /\ N - n < MaxLag
  <2>1. n < r.first /\ n < N /\ M = N
    BY <1>0, <1>1, <1>2, <1>4, <1>6 DEF IsTop
  <2>2. n \in FirstTti .. N
    BY <1>0, <1>1, <2>1
  <2>3. n \in Missing(R, L, N)
    BY <2>2 DEF Missing
  <2>4. Gaps(R, L, N, p)
    BY DEF RingAt
  <2> QED
    BY <2>1, <2>3, <2>4 DEF Gaps
<1>7. M - r.head <= 3 * Eighth /\ M - n <= 3 * Eighth
  BY <1>0, <1>1, <1>2, <1>3, <1>5, <1>6
<1>8. HeaderFor(r, n) = r.head % BufSize
  BY DEF HeaderFor, RingAt
<1>9. RecentFor(r, n) = M % BufSize
  <2>1. RecentFor(r, n) = MostRecent(N % BufSize, n % BufSize)
    BY DEF RecentFor, RingAt
  <2>2. n - N < Eighth /\ N - n <= 2 * Eighth
    BY <1>0, <1>1, <1>5, <1>6
  <2>3. MostRecent(N % BufSize, n % BufSize) = IF n > N THEN n % BufSize ELSE N % BufSize
    BY <1>0, <1>1, <1>3, <2>2, RecentMoves
  <2> QED
    BY <1>0, <1>1, <2>1, <2>3 DEF IsTop
<1> QED
  BY <1>0, <1>1, <1>2, <1>3, <1>6, <1>7, <1>8, <1>9 DEF Lies

(* An old result that finds the header at the newest one would send it     *)
(* round the ring, and over an early flag: that of one of the results that *)
(* made the header start to walk.                                          *)
LEMMA NotCaughtUp ==
  ASSUME NEW r, NEW R, NEW L, NEW N, NEW p, NEW l, NEW n, NEW M, PutAt(r, R, L, N, p, l, n, M)
  PROVE  M > r.head
<1> SUFFICES ASSUME ~(M > r.head) PROVE FALSE
  OBVIOUS
<1>d. Lies(r, N, n, M)
  BY PutLies
<1>0. /\ BufSize \in Nat \ {0} /\ Eighth \in Nat \ {0} /\ BufSize = 8 * Eighth /\ DecodeTimeout \in Nat \ {0}
      /\ FirstTti \in Int /\ LastTti \in Int /\ MaxLag \in Nat /\ MaxLag <= DecodeTimeout /\ DecodeTimeout < Eighth
  BY RingConstants, LoggerAssumption DEF PutAt, Timely
<1>1. PICK H \in Int : H = r.head
  BY <1>d DEF Lies
<1>2. /\ n \in Int /\ r.first \in Int /\ N = H /\ M = H /\ n < r.first /\ r.first <= H /\ H - n < MaxLag
      /\ HeaderFor(r, n) = H % BufSize /\ RecentFor(r, n) = H % BufSize
  BY <1>1, <1>d DEF Lies
<1>3. RingAt(r, R, L, H, p) /\ r \in Rings /\ n \notin R /\ n \in FirstTti .. LastTti
  BY <1>2 DEF PutAt
<1>4. r.nof_logged_dci >= Eighth /\ r.nof_logged_dci \in 0 .. BufSize
  <2>1. r.nof_logged_dci \in 0 .. BufSize
    BY <1>3 DEF Rings
  <2>2. ~(r.nof_logged_dci >= Eighth) => r.head = r.first - 1
    BY <1>3 DEF RingAt, Lag
  <2> QED
    BY <1>1, <1>2, <2>1, <2>2
<1>5. R \subseteq Int /\ IsFiniteSet(R) /\ Cardinality(R) \in Nat /\ Cardinality(R) >= Eighth /\ \A m \in R : m <= H
  <2>1. R \subseteq Int /\ IsFiniteSet(R) /\ Cardinality(R) \in Nat
    BY <1>3, ReceivedFinite DEF RingAt
  <2>2. r.nof_logged_dci <= Cardinality(R) /\ \A m \in R : m <= H
    BY <1>3 DEF RingAt, Newer
  <2> QED
    BY <1>0, <1>4, <2>1, <2>2
<1>6. PICK e \in R : H - e > DecodeTimeout
  <2> SUFFICES ASSUME \A m \in R : ~(H - m > DecodeTimeout) PROVE FALSE
    OBVIOUS
  <2>1. PICK a \in Int : a = H - DecodeTimeout
    BY <1>0
  <2>2. R \cup {n} \subseteq a .. H
    BY <1>0, <1>2, <1>5, <2>1
  <2>3. IsFiniteSet(a .. H) /\ Cardinality(a .. H) = IF a > H THEN 0 ELSE H - a + 1
    BY <2>1, FS_Interval
  <2>4. Cardinality(R \cup {n}) = Cardinality(R) + 1
    BY <1>3, <1>5, FS_AddElement
  <2>5. Cardinality(R \cup {n}) <= Cardinality(a .. H)
    BY <2>2, <2>3, FS_Subset
  <2> QED
    BY <1>0, <1>5, <2>1, <2>3, <2>4, <2>5
<1>7. /\ e \in Int /\ e < r.first /\ H - e < BufSize /\ e % BufSize \in r.early
  <2>1. e \in Int /\ e < r.first
    BY <1>0, <1>2, <1>5, <1>6
  <2>2. r.first - e < MaxLag /\ (H - e < BufSize => e % BufSize \in r.early)
    BY <1>3, <2>1 DEF RingAt, Earlies
  <2>3. H - e < BufSize
    BY <1>0, <1>2, <2>1, <2>2
  <2> QED
    BY <2>1, <2>2, <2>3
<1>8. e % BufSize \in EarlyFor(r, n)
  <2>1. FirstFor(r, n) = r.first
    BY DEF PutAt, FirstFor
  <2> QED
    BY <1>2, <1>7, <2>1 DEF EarlyFor
\* k is where its slot lies from the header on.
<1>9. PICK k \in Int : k = BufSize - (H - e)
  BY <1>0, <1>7
<1>10. k >= 1 /\ k <= BufSize - 1 - DecodeTimeout
  BY <1>0, <1>6, <1>7, <1>9
<1>11. (H + k) % BufSize = e % BufSize
  <2>1. PICK a \in Int : a = 1 /\ H + k = a * BufSize + e
    BY <1>0, <1>7, <1>9
  <2>2. (a * BufSize + e) % BufSize = e % BufSize
    BY <1>0, <1>7, WholeLaps
  <2> QED
    BY <2>1, <2>2
<1>12. Dist((H % BufSize) + 1, e % BufSize) = k - 1
  <2>1. PICK d \in 0 .. BufSize - 1 : d = k - 1 /\ H + 1 + d = H + k
    BY <1>0, <1>10
  <2> QED
    BY <1>11, <2>1, DistSlots
<1>13. Dist((H % BufSize) + 1, H % BufSize) = BufSize - 1
  <2>1. PICK d \in 0 .. BufSize - 1, a \in Int : d = BufSize - 1 /\ a = 1 /\ H + 1 + d = a * BufSize + H
    BY <1>0
  <2>2. (a * BufSize + H) % BufSize = H % BufSize
    BY <1>0, WholeLaps
  <2>3. Dist((H % BufSize) + 1, (H + 1 + d) % BufSize) = d
    BY DistSlots
  <2> QED
    BY <2>1, <2>2, <2>3
<1>14. NofFor(r) >= Eighth
  BY <1>0, <1>4 DEF NofFor
<1>15. ASSUME NEW j \in 1 .. BufSize - 1 - DecodeTimeout PROVE (H + j) % BufSize \in KnownFor(r, n)
  <2>0. j \in Int /\ BufSize - 1 - DecodeTimeout \in Int
    BY <1>0
  <2>1. ((H % BufSize) + j) % BufSize = (H + j) % BufSize /\ BufSize - 1 - DecodeTimeout \in Int
    BY <2>0, SlotOf
  <2> QED
    BY <1>2, <1>13, <1>14, <2>1 DEF KnownFor, TimedOut
<1>16. StepsFor(r, n) >= k
  <2>0. KnownFor(r, n) \in SUBSET Slots
    BY <1>3, PutRing
  <2>1. StepsFor(r, n) = Advance(KnownFor(r, n), H % BufSize)
    BY <1>2, <1>14 DEF StepsFor
  <2>2. CASE KnownFor(r, n) = Slots
    BY <1>0, <1>10, <2>1, <2>2 DEF Advance
  <2>3. CASE KnownFor(r, n) # Slots
    <3>1. PICK a \in 0 .. BufSize - 1 : a = StepsFor(r, n) /\ (H + a + 1) % BufSize \notin KnownFor(r, n)
      BY <2>0, <2>1, <2>3, Walk
    <3>2. ASSUME ~(a >= k) PROVE FALSE
      <4>1. a + 1 \in 1 .. BufSize - 1 - DecodeTimeout /\ H + (a + 1) = H + a + 1
        BY <1>0, <1>10, <3>1, <3>2
      <4> QED
        BY <1>15, <3>1, <4>1
    <3> QED
      BY <3>1, <3>2
  <2> QED
    BY <2>2, <2>3
<1>17. StepsFor(r, n) \in Nat /\ k - 1 >= StepsFor(r, n)
  <2>1. StepsFor(r, n) \in Nat
    BY <1>3, PutRing
  <2>2. CleanFor(r, n)
    BY DEF PutAt
  <2> QED
    BY <1>2, <1>8, <1>12, <2>1, <2>2 DEF CleanFor
<1> QED
  BY <1>9, <1>16, <1>17

\* What the header knows before it walks.
Knows(r, R, N, n, M) ==
    /\ Lies(r, N, n, M) /\ M > r.head
    /\ \A s \in KnownFor(r, n) :
           \/ s \in EarlyFor(r, n)
           \/ \E m \in R \cup {n} : m > r.head /\ m <= M /\ s = m % BufSize
           \/ /\ NofFor(r) >= Eighth
              /\ \E k \in 1 .. M - r.head - 1 - DecodeTimeout : s = (r.head + k) % BufSize
    /\ NofFor(r) >= Eighth =>
           \A k \in 1 .. M - r.head - 1 - DecodeTimeout : (r.head + k) % BufSize \in KnownFor(r, n)
    /\ \A m \in R \cup {n} : m % BufSize \in r.filled \cup {n % BufSize} => m % BufSize \in KnownFor(r, n)

(* The header knows the results that came, and what timed out.             *)
LEMMA PutKnows ==
  ASSUME NEW r, NEW R, NEW L, NEW N, NEW p, NEW l, NEW n, NEW M, PutAt(r, R, L, N, p, l, n, M)
  PROVE  Knows(r, R, N, n, M)
<1> USE DEF PutAt
<1>0. /\ BufSize \in Nat \ {0} /\ Eighth \in Nat \ {0} /\ BufSize = 8 * Eighth /\ DecodeTimeout \in Nat \ {0}
      /\ FirstTti \in Int /\ LastTti \in Int /\ n \in Int
  BY RingConstants, LoggerAssumption
<1>d. Lies(r, N, n, M)
  BY PutLies
<1>1. N \in Int /\ r.head \in Int /\ r.head <= N /\ M \in Int /\ n <= M /\ N <= M
  BY <1>d DEF Lies
<1>2. n > r.head \/ n < r.first
  BY <1>d DEF Lies
<1>5. M - r.head <= 3 * Eighth /\ M - r.head > 0 /\ M > r.head
  BY <1>1, <1>d, NotCaughtUp DEF Lies
<1>6. HeaderFor(r, n) = r.head % BufSize
  BY <1>d DEF Lies
<1>7. RecentFor(r, n) = M % BufSize
  BY <1>d DEF Lies
<1>8. ASSUME NEW s \in FillFor(r, n)
      PROVE  \/ s \in EarlyFor(r, n)
             \/ \E m \in R \cup {n} : m > r.head /\ m <= M /\ s = m % BufSize
  <2>0. FirstFor(r, n) = r.first
    BY DEF FirstFor
  <2>1. CASE s = n % BufSize
    <3>1. CASE n > r.head
      BY <1>1, <2>1, <3>1
    <3>2. CASE n < r.first
      BY <2>0, <2>1, <3>2 DEF EarlyFor
    <3> QED
      BY <1>2, <3>1, <3>2
  <2>2. CASE s \in r.filled /\ s # n % BufSize
    <3>1. CASE s \in r.early
      BY <2>2, <3>1 DEF EarlyFor
    <3>2. CASE \E m \in R : m > r.head /\ s = m % BufSize
      <4>1. PICK m \in R : m > r.head /\ s = m % BufSize
        BY <3>2
      <4>2. m <= N /\ m \in Int
        BY ReceivedFinite DEF RingAt, Newer
      <4>3. m <= M
        BY <1>1, <4>2
      <4> QED
        BY <4>1, <4>3
    <3> QED
      BY <2>2, <3>1, <3>2 DEF RingAt, Marked
  <2> QED
    BY <2>1, <2>2 DEF FillFor
<1>9. Dist((r.head % BufSize) + 1, M % BufSize) = M - r.head - 1
  <2>1. PICK d \in 0 .. BufSize - 1 : d = M - r.head - 1 /\ r.head + 1 + d = M
    BY <1>0, <1>1, <1>5
  <2> QED
    BY <1>1, <2>1, DistSlots
<1>10. ASSUME NEW k \in Int PROVE ((r.head % BufSize) + k) % BufSize = (r.head + k) % BufSize
  BY <1>1, SlotOf
<1>11. M - r.head - 1 - DecodeTimeout \in Int
  BY <1>0, <1>1
<1>12. TimedOut(FillFor(r, n), HeaderFor(r, n), RecentFor(r, n))
         = {(r.head + k) % BufSize : k \in 1 .. M - r.head - 1 - DecodeTimeout} \ FillFor(r, n)
  BY <1>6, <1>7, <1>9, <1>10, <1>11 DEF TimedOut
<1>13. ASSUME NEW s \in KnownFor(r, n)
       PROVE  \/ s \in EarlyFor(r, n)
              \/ \E m \in R \cup {n} : m > r.head /\ m <= M /\ s = m % BufSize
              \/ /\ NofFor(r) >= Eighth
                 /\ \E k \in 1 .. M - r.head - 1 - DecodeTimeout : s = (r.head + k) % BufSize
  BY <1>8, <1>12 DEF KnownFor
<1>14. ASSUME NofFor(r) >= Eighth, NEW k \in 1 .. M - r.head - 1 - DecodeTimeout
       PROVE  (r.head + k) % BufSize \in KnownFor(r, n)
  BY <1>12, <1>14 DEF KnownFor
<1>15. FillFor(r, n) \subseteq KnownFor(r, n)
  BY DEF KnownFor
<1> QED
  BY <1>5, <1>d, <1>13, <1>14, <1>15 DEF FillFor, Knows

(* How far the header walks then.                                          *)
LEMMA PutWalks ==
  ASSUME NEW r, NEW R, NEW L, NEW N, NEW p, NEW l, NEW n, NEW M, PutAt(r, R, L, N, p, l, n, M)
  PROVE  /\ StepsFor(r, n) \in 0 .. M - r.head
         /\ \A k \in 1 .. StepsFor(r, n) :
                \/ r.head + k \in R \cup {n}
                \/ r.head + k \in L /\ M - (r.head + k) > DecodeTimeout
         /\ IF NofFor(r) >= Eighth
            THEN /\ M - (r.head + StepsFor(r, n)) <= DecodeTimeout + 1
                 /\ (r.head + StepsFor(r, n) + 1) % BufSize \notin KnownFor(r, n)
            ELSE StepsFor(r, n) = 0
<1> USE DEF PutAt
<1>k. Knows(r, R, N, n, M)
  BY PutKnows
<1>0. /\ BufSize \in Nat \ {0} /\ Eighth \in Nat \ {0} /\ BufSize = 8 * Eighth /\ DecodeTimeout \in Nat \ {0}
      /\ FirstTti \in Int /\ n \in Int /\ MaxLag \in Nat /\ MaxLag <= DecodeTimeout
  BY RingConstants, LoggerAssumption DEF Timely
<1>1. PICK H \in Int : H = r.head
  BY HeaderNear
<1>2. /\ M \in Int /\ M > H /\ n <= M /\ N <= M /\ M - H <= 3 * Eighth
      /\ HeaderFor(r, n) = H % BufSize /\ RecentFor(r, n) = M % BufSize
  <2>1. /\ M \in Int /\ M > r.head /\ n <= M /\ N <= M /\ M - r.head <= 3 * Eighth
        /\ HeaderFor(r, n) = r.head % BufSize /\ RecentFor(r, n) = M % BufSize
    BY <1>k DEF Knows, Lies
  <2> QED
    BY <1>1, <2>1
<1>3. ASSUME NEW s \in KnownFor(r, n), s \notin EarlyFor(r, n)
      PROVE  \/ \E m \in R \cup {n} : m > H /\ m <= M /\ s = m % BufSize
             \/ /\ NofFor(r) >= Eighth
                /\ \E k \in 1 .. M - H - 1 - DecodeTimeout : s = (H + k) % BufSize
  <2>1. \/ \E m \in R \cup {n} : m > r.head /\ m <= M /\ s = m % BufSize
        \/ /\ NofFor(r) >= Eighth
           /\ \E k \in 1 .. M - r.head - 1 - DecodeTimeout : s = (r.head + k) % BufSize
    BY <1>k, <1>3 DEF Knows
  <2> QED
    BY <1>1, <2>1
<1>4. NofFor(r) >= Eighth =>
           \A k \in 1 .. M - H - 1 - DecodeTimeout : (H + k) % BufSize \in KnownFor(r, n)
  BY <1>1, <1>k DEF Knows
<1>5. FirstTti - 1 <= H /\ R \cup {n} \subseteq Int
  <2>1. r.first \in FirstTti .. LastTti /\ R \subseteq Int
    BY ReceivedFinite DEF RingAt
  <2>2. r.first - 1 <= r.head
    BY <1>k DEF Knows, Lies
  <2> QED
    BY <1>0, <1>1, <2>1, <2>2, LoggerAssumption
<1>6. KnownFor(r, n) \in SUBSET Slots
  BY PutRing
\* A slot the header knows, as the subframe it stands for.
<1>7. ASSUME NEW x \in Int, x > H, x <= M + 1, x % BufSize \in KnownFor(r, n), x % BufSize \notin EarlyFor(r, n)
      PROVE  x \in R \cup {n} \/ (M - x > DecodeTimeout /\ NofFor(r) >= Eighth)
  <2>1. CASE \E m \in R \cup {n} : m > H /\ m <= M /\ x % BufSize = m % BufSize
    <3>1. PICK m \in R \cup {n} : m > H /\ m <= M /\ x % BufSize = m % BufSize
      BY <2>1
    <3>m. m \in Int
      BY <1>5, <3>1
    <3>2. m \in Int /\ x - m < BufSize /\ m - x < BufSize
      BY <1>0, <1>2, <1>7, <3>1, <3>m
    <3> QED
      BY <1>0, <1>7, <3>1, <3>2, SameSlot
  <2>2. CASE /\ NofFor(r) >= Eighth
             /\ \E k \in 1 .. M - H - 1 - DecodeTimeout : x % BufSize = (H + k) % BufSize
    <3>1. PICK k \in 1 .. M - H - 1 - DecodeTimeout : x % BufSize = (H + k) % BufSize
      BY <2>2
    <3>2. H + k \in Int /\ x - (H + k) < BufSize /\ (H + k) - x < BufSize
      BY <1>0, <1>2, <1>7
    <3>3. x = H + k
      BY <1>0, <1>7, <3>1, <3>2, SameSlot
    <3> QED
      BY <1>0, <1>2, <2>2, <3>3
  <2> QED
    BY <1>3, <1>7, <2>1, <2>2
<1>8. (M + 1) % BufSize \notin KnownFor(r, n) \/ (M + 1) % BufSize \in EarlyFor(r, n)
  <2>1. M + 1 \in Int /\ M + 1 > H /\ M + 1 <= M + 1 /\ ~(M - (M + 1) > DecodeTimeout)
    BY <1>0, <1>2
  <2>2. M + 1 \notin R \cup {n}
    BY <1>0, <1>2, <1>5 DEF RingAt, Newer
  <2> QED
    BY <1>7, <2>1, <2>2
<1>9. ASSUME NEW s \in EarlyFor(r, n) PROVE Dist((H % BufSize) + 1, s) >= StepsFor(r, n)
  BY <1>2 DEF CleanFor
<1>10. PICK q : q = StepsFor(r, n)
  OBVIOUS
<1>a. NofFor(r) >= Eighth => KnownFor(r, n) # Slots
  <2> SUFFICES ASSUME NofFor(r) >= Eighth, KnownFor(r, n) = Slots PROVE FALSE
    OBVIOUS
  <2>1. StepsFor(r, n) = BufSize
    BY DEF StepsFor, Advance
  <2>0. M + 1 \in Int
    BY <1>2
  <2>2. (M + 1) % BufSize \in Slots /\ (M + 1) % BufSize \in EarlyFor(r, n)
    BY <1>8, <2>0, SlotOf
  <2>3. Dist((H % BufSize) + 1, (M + 1) % BufSize) \in 0 .. BufSize - 1
    BY <2>2, SlotAfter
  <2> QED
    BY <1>0, <1>9, <2>1, <2>2, <2>3
<1>11. /\ q \in 0 .. BufSize - 1 /\ \A k \in 1 .. q : (H + k) % BufSize \in KnownFor(r, n)
       /\ IF NofFor(r) >= Eighth THEN (H + q + 1) % BufSize \notin KnownFor(r, n) ELSE q = 0
  <2>1. CASE NofFor(r) >= Eighth
    BY <1>2, <1>6, <1>a, <1>10, <2>1, Walk DEF StepsFor
  <2>2. CASE ~(NofFor(r) >= Eighth)
    BY <1>0, <1>10, <2>2 DEF StepsFor
  <2> QED
    BY <2>1, <2>2
\* What it passes is not early.
<1>b. ASSUME NEW k \in 1 .. q PROVE (H + k) % BufSize \notin EarlyFor(r, n)
  <2>1. PICK d \in 0 .. BufSize - 1 : d = k - 1 /\ H + 1 + d = H + k /\ ~(d >= q)
    BY <1>0, <1>11
  <2>2. Dist((H % BufSize) + 1, (H + k) % BufSize) = d
    BY <2>1, DistSlots
  <2> QED
    BY <1>9, <1>10, <2>1, <2>2
<1>12. q <= M - H
  <2> SUFFICES ASSUME ~(q <= M - H) PROVE FALSE
    OBVIOUS
  <2>1. M + 1 - H \in 1 .. q /\ H + (M + 1 - H) = M + 1
    BY <1>0, <1>2, <1>11
  <2> QED
    BY <1>8, <1>11, <1>b, <2>1
<1>13. ASSUME NEW k \in 1 .. q
       PROVE  H + k \in R \cup {n} \/ (H + k \in L /\ M - (H + k) > DecodeTimeout)
  <2>1. H + k \in Int /\ H + k > H /\ H + k <= M + 1 /\ H + k <= M /\ (H + k) % BufSize \in KnownFor(r, n)
    BY <1>2, <1>11, <1>12
  <2>2. H + k \in R \cup {n} \/ M - (H + k) > DecodeTimeout
    BY <1>7, <1>b, <2>1
  <2>3. ASSUME H + k \notin R \cup {n}, H + k \notin L PROVE FALSE
    <3>1. H + k \in FirstTti .. M
      BY <1>0, <1>2, <1>5, <2>1
    <3>2. H + k \in Missing(R \cup {n}, L, M)
      BY <2>3, <3>1 DEF Missing
    <3>3. M - (H + k) < MaxLag
      BY <3>2 DEF Gaps
    <3> QED
      BY <1>0, <1>2, <2>1, <2>2, <2>3, <3>3
  <2> QED
    BY <2>2, <2>3
<1>14. ASSUME NofFor(r) >= Eighth PROVE M - (H + q) <= DecodeTimeout + 1
  <2> SUFFICES ASSUME ~(M - (H + q) <= DecodeTimeout + 1) PROVE FALSE
    OBVIOUS
  <2>1. q + 1 \in 1 .. M - H - 1 - DecodeTimeout /\ H + (q + 1) = H + q + 1
    BY <1>0, <1>2, <1>11
  <2>2. (H + q + 1) % BufSize \in KnownFor(r, n)
    BY <1>4, <1>14, <2>1
  <2> QED
    BY <1>11, <1>14, <2>2
<1> QED
  BY <1>1, <1>2, <1>10, <1>11, <1>12, <1>13, <1>14

\* The last subframes that came have their flags up until the header passes.
Late(r, R) ==
    r.clean => \A m \in R : m > r.head /\ m >= LastTti - DecodeTimeout => m % BufSize \in r.filled

(* The ring after such a result.                                           *)
LEMMA PutLater ==
  ASSUME NEW r, NEW R, NEW L, NEW N, NEW p, NEW l, NEW n, NEW M, PutAt(r, R, L, N, p, l, n, M)
  PROVE  RingAt(Put(r, n), R \cup {n}, L, M, p) /\ (Late(r, R) => Late(Put(r, n), R \cup {n}))
<1> USE DEF PutAt
<1>k. Knows(r, R, N, n, M)
  BY PutKnows
<1>0. /\ BufSize \in Nat \ {0} /\ Eighth \in Nat \ {0} /\ BufSize = 8 * Eighth /\ DecodeTimeout \in Nat \ {0}
      /\ FirstTti \in Int /\ LastTti \in Int /\ n \in Int
  BY RingConstants, LoggerAssumption
<1>1. PICK H \in Int : H = r.head
  BY HeaderNear
<1>2. /\ M \in Int /\ n <= M /\ N <= M /\ H < M /\ M - H <= 3 * Eighth /\ M - n <= 3 * Eighth
      /\ HeaderFor(r, n) = H % BufSize /\ RecentFor(r, n) = M % BufSize
      /\ r.first \in Int /\ r.first - 1 <= H /\ r.first <= N
      /\ n > H \/ (n < r.first /\ M = N /\ N - n < MaxLag)
  BY <1>1, <1>k DEF Knows, Lies
<1>3. PICK S : S = R \cup {n}
  OBVIOUS
<1>4. /\ R \subseteq FirstTti .. LastTti /\ S \subseteq FirstTti .. LastTti /\ S \subseteq Int
      /\ IsFiniteSet(R) /\ Cardinality(R) \in Nat /\ FirstTti - 1 <= H /\ H <= N /\ N \in Int
  <2>1. R \subseteq FirstTti .. LastTti /\ r.head \in r.first - 1 .. N /\ N \in R /\ r.first \in R
    BY DEF RingAt, Newer
  <2>2. IsFiniteSet(R) /\ Cardinality(R) \in Nat
    BY <2>1, ReceivedFinite
  <2>3. S \subseteq FirstTti .. LastTti /\ S \subseteq Int
    BY <1>0, <1>3, <2>1
  <2> QED
    BY <1>0, <1>1, <1>2, <2>1, <2>2, <2>3
<1>5. Newer(M, S)
  <2>1. M \in {N, n} /\ N \in R /\ \A m \in R : m <= N
    BY DEF RingAt, Newer, IsTop
  <2>2. \A m \in R : m <= M
    BY <1>2, <1>4, <2>1
  <2> QED
    BY <1>2, <1>3, <2>1, <2>2 DEF Newer
<1>6. PICK q : q = StepsFor(r, n)
  OBVIOUS
<1>7. /\ q \in 0 .. M - H
      /\ \A k \in 1 .. q : H + k \in S \/ (H + k \in L /\ M - (H + k) > DecodeTimeout)
      /\ IF NofFor(r) >= Eighth
         THEN /\ M - (H + q) <= DecodeTimeout + 1
              /\ (H + q + 1) % BufSize \notin KnownFor(r, n)
         ELSE q = 0
  <2>1. /\ StepsFor(r, n) \in 0 .. M - r.head
        /\ \A k \in 1 .. StepsFor(r, n) :
                \/ r.head + k \in R \cup {n}
                \/ r.head + k \in L /\ M - (r.head + k) > DecodeTimeout
        /\ IF NofFor(r) >= Eighth
           THEN /\ M - (r.head + StepsFor(r, n)) <= DecodeTimeout + 1
                /\ (r.head + StepsFor(r, n) + 1) % BufSize \notin KnownFor(r, n)
           ELSE StepsFor(r, n) = 0
    BY PutWalks
  <2> QED
    BY <1>1, <1>3, <1>6, <2>1
<1>8. PICK t : t = Put(r, n)
  OBVIOUS
<1>9. t \in Rings /\ IsPut(t, r, n)
  BY <1>8, PutRing, PutFields
<1>10. /\ t.head = H + q /\ t.most_recent_sf = M % BufSize /\ t.nof_logged_dci = NofFor(r)
       /\ t.first = r.first /\ t.early = EarlyFor(r, n)
       /\ EarlyFor(r, n) = IF n < r.first THEN r.early \cup {n % BufSize} ELSE r.early \ {n % BufSize}
  BY <1>1, <1>2, <1>6, <1>9 DEF IsPut, FirstFor, EarlyFor
<1>11. t.cell_header = (H + q) % BufSize
  <2>1. ((H % BufSize) + q) % BufSize = (H + q) % BufSize /\ q \in Int
    BY <1>2, <1>7, SlotOf
  <2>2. t.cell_header = IF q = 0 THEN H % BufSize ELSE ((H % BufSize) + q) % BufSize
    BY <1>2, <1>6, <1>9 DEF IsPut
  <2> QED
    BY <2>1, <2>2
<1>12. /\ t.nof_logged_dci <= Cardinality(S)
       /\ t.nof_logged_dci < BufSize => t.nof_logged_dci = Cardinality(S)
  <2>1. Cardinality(S) = Cardinality(R) + 1
    BY <1>3, <1>4, FS_AddElement
  <2>2. /\ r.nof_logged_dci \in 0 .. BufSize /\ r.nof_logged_dci <= Cardinality(R)
        /\ r.nof_logged_dci < BufSize => r.nof_logged_dci = Cardinality(R)
    BY DEF Rings, RingAt
  <2> QED
    BY <1>0, <1>4, <1>10, <2>1, <2>2 DEF NofFor
<1>13. Lag(t, M)
  <2>1. CASE NofFor(r) >= Eighth
    <3>1. t.filled \subseteq KnownFor(r, n)
      BY <1>9 DEF IsPut
    <3> QED
      BY <1>7, <1>10, <2>1, <3>1 DEF Lag
  <2>2. CASE ~(NofFor(r) >= Eighth)
    <3>1. ~(r.nof_logged_dci >= Eighth) /\ q = 0
      <4>1. r.nof_logged_dci \in 0 .. BufSize
        BY DEF Rings
      <4> QED
        BY <1>0, <1>7, <2>2, <4>1 DEF NofFor
    <3>2. H = r.first - 1
      BY <1>1, <3>1 DEF RingAt, Lag
    <3> QED
      BY <1>10, <2>2, <3>1, <3>2 DEF Lag
  <2> QED
    BY <2>1, <2>2
<1>14. t.filled = {s \in KnownFor(r, n) : Dist((H % BufSize) + 1, s) >= q}
  BY <1>2, <1>6, <1>9 DEF IsPut
\* How far a subframe of the window is from the header.
<1>15. ASSUME NEW m \in Int, m > H, m <= M PROVE Dist((H % BufSize) + 1, m % BufSize) = m - H - 1
  <2>1. PICK d \in 0 .. BufSize - 1 : d = m - H - 1 /\ H + 1 + d = m
    BY <1>0, <1>2, <1>15
  <2> QED
    BY <2>1, DistSlots
<1>16. Marked(t, S)
  <2> SUFFICES ASSUME NEW s \in t.filled, s \notin EarlyFor(r, n)
               PROVE  \E m \in S : m > H + q /\ s = m % BufSize
    BY <1>10 DEF Marked
  <2>1. s \in KnownFor(r, n) /\ Dist((H % BufSize) + 1, s) >= q
    BY <1>14
  <2>2. \/ \E m \in S : m > H /\ m <= M /\ s = m % BufSize
        \/ /\ NofFor(r) >= Eighth
           /\ \E k \in 1 .. M - H - 1 - DecodeTimeout : s = (H + k) % BufSize
    <3>1. \/ \E m \in R \cup {n} : m > r.head /\ m <= M /\ s = m % BufSize
          \/ /\ NofFor(r) >= Eighth
             /\ \E k \in 1 .. M - r.head - 1 - DecodeTimeout : s = (r.head + k) % BufSize
      BY <1>k, <2>1 DEF Knows
    <3> QED
      BY <1>1, <1>3, <3>1
  <2>3. CASE \E m \in S : m > H /\ m <= M /\ s = m % BufSize
    <3>1. PICK m \in S : m > H /\ m <= M /\ s = m % BufSize
      BY <2>3
    <3>2. m \in Int /\ m - H - 1 >= q
      BY <1>4, <1>15, <2>1, <3>1
    <3>3. m > H + q
      BY <1>7, <3>2
    <3> QED
      BY <3>1, <3>3
  <2>4. CASE /\ NofFor(r) >= Eighth
             /\ \E k \in 1 .. M - H - 1 - DecodeTimeout : s = (H + k) % BufSize
    <3>1. PICK k \in 1 .. M - H - 1 - DecodeTimeout : s = (H + k) % BufSize
      BY <2>4
    <3>2. H + k \in Int /\ H + k > H /\ H + k <= M
      BY <1>0, <1>2
    <3>3. (H + k) - H - 1 >= q
      BY <1>15, <2>1, <3>1, <3>2
    <3>4. M - (H + q) <= DecodeTimeout + 1
      BY <1>7, <2>4
    <3> QED
      BY <1>0, <1>2, <1>7, <3>3, <3>4
  <2> QED
    BY <2>2, <2>3, <2>4
<1>17. t.content = [r.content EXCEPT ![n % BufSize] = n] /\ r.content \in [Slots -> Vals]
  BY <1>9 DEF IsPut, ContentFor, Rings
<1>18. ASSUME NEW m \in S, M - m < BufSize PROVE t.content[m % BufSize] = m
  <2>1. m \in Int /\ m <= M /\ m % BufSize \in Slots /\ n % BufSize \in Slots
    BY <1>0, <1>4, <1>5, SlotOf DEF Newer
  <2>2. CASE m = n
    BY <1>17, <2>1, <2>2
  <2>3. CASE m # n
    <3>1. m - n < BufSize /\ n - m < BufSize
      BY <1>0, <1>2, <1>18, <2>1
    <3>2. m % BufSize # n % BufSize
      BY <1>0, <2>1, <2>3, <3>1, SameSlot
    <3>3. m \in R /\ N - m < BufSize
      BY <1>0, <1>2, <1>3, <1>4, <1>18, <2>1, <2>3
    <3>4. r.content[m % BufSize] = m
      BY <3>3 DEF RingAt, Contents
    <3> QED
      BY <1>17, <2>1, <3>2, <3>4
  <2> QED
    BY <2>2, <2>3
<1>19. Contents(t, S, M)
  BY <1>18 DEF Contents
<1>e. Earlies(t, S, M)
  <2>1. ASSUME NEW m \in S, m < r.first PROVE r.first - m < MaxLag
    <3>1. CASE m \in R
      BY <2>1, <3>1 DEF RingAt, Earlies
    <3>2. CASE m = n
      BY <1>0, <1>2, <1>4, <2>1, <3>2, LoggerAssumption
    <3> QED
      BY <1>3, <2>1, <3>1, <3>2
  <2>2. ASSUME NEW m \in S, m < r.first, M - m < BufSize PROVE m % BufSize \in EarlyFor(r, n)
    <3>0. m \in Int
      BY <1>4
    <3>1. CASE m = n
      BY <1>10, <2>2, <3>1
    <3>2. CASE m # n
      <4>1. m \in R /\ N - m < BufSize
        BY <1>0, <1>2, <1>3, <1>4, <2>2, <3>0, <3>2
      <4>2. m % BufSize \in r.early
        BY <2>2, <4>1 DEF RingAt, Earlies
      <4>3. m - n < BufSize /\ n - m < BufSize
        BY <1>0, <1>2, <1>4, <2>2, <3>0
      <4>4. m % BufSize # n % BufSize
        BY <1>0, <3>0, <3>2, <4>3, SameSlot
      <4> QED
        BY <1>10, <4>2, <4>4
    <3> QED
      BY <3>1, <3>2
  <2> QED
    BY <1>10, <2>1, <2>2 DEF Earlies
<1>20. Passed(t, S, L)
  <2> SUFFICES ASSUME NEW m \in r.first .. H + q PROVE m \in S \/ m \in L
    BY <1>10 DEF Passed
  <2>1. CASE m <= H
    <3>1. m \in r.first .. r.head
      BY <1>0, <1>1, <1>2, <2>1
    <3> QED
      BY <1>3, <3>1 DEF RingAt, Passed
  <2>2. CASE m > H
    <3>1. m - H \in 1 .. q /\ H + (m - H) = m
      BY <1>0, <1>2, <1>7, <2>2
    <3> QED
      BY <1>7, <3>1
  <2> QED
    BY <1>0, <1>2, <2>1, <2>2
<1>21. PICK w : w = HandedFor(r, n)
  OBVIOUS
<1>22. /\ w \in Seq(Vals) /\ Len(w) = q
       /\ \A k \in 1 .. q : w[k] = t.content[(H + k) % BufSize]
  <2>1. w = [k \in 1 .. q |-> t.content[((H % BufSize) + k) % BufSize]]
    BY <1>2, <1>6, <1>9, <1>21 DEF HandedFor, IsPut
  <2>2. \A k \in Int : ((H % BufSize) + k) % BufSize = (H + k) % BufSize /\ (H + k) % BufSize \in Slots
    BY SlotOf
  <2>3. t.content \in [Slots -> Vals] /\ q \in Nat
    BY <1>7, <1>9 DEF Rings
  <2>a. PICK f : f = t.content
    OBVIOUS
  <2>b. PICK h \in Int : h = H % BufSize
    BY <1>0, EarlyRemainder
  <2>c. \A k \in 1 .. q : f[(h + k) % BufSize] \in Vals /\ f[(h + k) % BufSize] = f[(H + k) % BufSize]
    BY <2>2, <2>3, <2>a, <2>b
  <2>d. w = [k \in 1 .. q |-> f[(h + k) % BufSize]]
    BY <2>1, <2>a, <2>b
  <2>4. w \in [1 .. q -> Vals] /\ \A k \in 1 .. q : w[k] = t.content[(H + k) % BufSize]
    BY <2>a, <2>c, <2>d
  <2>5. w \in Seq(Vals)
    BY <2>3, <2>4, SeqDef
  <2>6. DOMAIN w = 1 .. q
    BY <2>4
  <2>7. Len(w) = q
    BY <2>3, <2>5, <2>6, LenProperties
  <2> QED
    BY <2>4, <2>5, <2>7
<1>23. PICK u : u = r.pushed
  OBVIOUS
<1>24. /\ u \in Seq(Vals) /\ Len(u) \in Nat /\ t.pushed = u \o w /\ Len(t.pushed) = Len(u) + q
       /\ \A k \in 1 .. Len(u) + q : t.pushed[k] = IF k <= Len(u) THEN u[k] ELSE w[k - Len(u)]
  <2>1. u \in Seq(Vals) /\ t.pushed = u \o w
    BY <1>9, <1>21, <1>23 DEF Rings, IsPut
  <2>2. Len(u) \in Nat /\ Len(w) = q
    BY <1>22, <2>1, LenProperties
  <2>3. /\ Len(u \o w) = Len(u) + Len(w)
        /\ \A k \in 1 .. Len(u) + Len(w) : (u \o w)[k] = IF k <= Len(u) THEN u[k] ELSE w[k - Len(u)]
    BY <1>22, <2>1, ConcatProperties
  <2> QED
    BY <2>1, <2>2, <2>3
<1>25. ASSUME NEW k \in 1 .. Len(t.pushed)
       PROVE  /\ t.pushed[k] = Turn(t, k) \/ Turn(t, k) \in L
              /\ Turn(t, k) \in S \/ M - Turn(t, k) > DecodeTimeout
  <2>0. q \in Nat /\ k \in Int
    BY <1>7, <1>24
  <2>1. CASE k <= Len(u)
    <3>1. k \in 1 .. Len(r.pushed) /\ t.pushed[k] = r.pushed[k]
      BY <1>23, <1>24, <1>25, <2>0, <2>1
    <3>2. Turn(t, k) = Turn(r, k) /\ Turn(r, k) \in Int
      BY <1>1, <1>10, <1>23, <1>24, <2>0 DEF Turn
    <3>3. /\ r.pushed[k] = Turn(r, k) \/ Turn(r, k) \in L
          /\ Turn(r, k) \in R \/ N - Turn(r, k) > DecodeTimeout
      BY <3>1 DEF RingAt, Handed
    <3>4. N - Turn(r, k) > DecodeTimeout => M - Turn(r, k) > DecodeTimeout
      BY <1>0, <1>2, <1>4, <3>2
    <3> QED
      BY <1>3, <3>1, <3>2, <3>3, <3>4
  <2>2. CASE ~(k <= Len(u))
    <3>1. PICK j \in 1 .. q : j = k - Len(u)
      BY <1>24, <1>25, <2>0, <2>2
    <3>2. Turn(t, k) = H + j
      BY <1>10, <1>24, <2>0, <3>1 DEF Turn
    <3>3. t.pushed[k] = t.content[(H + j) % BufSize]
      BY <1>22, <1>24, <1>25, <2>2, <3>1
    <3>4. H + j \in S \/ (H + j \in L /\ M - (H + j) > DecodeTimeout)
      BY <1>7, <3>1
    <3>5. M - (H + j) < BufSize
      BY <1>0, <1>2, <3>1
    <3> QED
      BY <1>18, <3>2, <3>3, <3>4, <3>5
  <2> QED
    BY <2>1, <2>2
<1>26. Handed(t, S, L, M)
  BY <1>25 DEF Handed
<1>27. t.first \in S /\ Gaps(S, L, M, p) /\ t.head \in t.first - 1 .. M
  <2>1. H + q \in r.first - 1 .. M
    BY <1>0, <1>2, <1>4, <1>7
  <2> QED
    BY <1>3, <1>10, <2>1 DEF RingAt
<1>28. RingAt(t, S, L, M, p)
  BY <1>4, <1>5, <1>10, <1>11, <1>12, <1>13, <1>16, <1>19, <1>20, <1>26, <1>27, <1>e DEF RingAt
<1>29. ASSUME Late(r, R) PROVE Late(t, S)
  <2> SUFFICES ASSUME NEW m \in S, m > H + q, m >= LastTti - DecodeTimeout PROVE m % BufSize \in t.filled
    BY <1>10 DEF Late
  <2>1. m \in Int /\ m <= M /\ m > H /\ m - H - 1 >= q
    BY <1>4, <1>5, <1>7 DEF Newer
  <2>2. m % BufSize \in r.filled \cup {n % BufSize}
    BY <1>1, <1>3, <1>29, <2>1 DEF Late, CleanFor
  <2>3. m % BufSize \in KnownFor(r, n)
    BY <1>k, <1>3, <2>2 DEF Knows
  <2> QED
    BY <1>14, <1>15, <2>1, <2>3
<1> QED
  BY <1>3, <1>8, <1>28, <1>29

(* More results or losses leave fewer gaps.                                *)
LEMMA FewerGaps ==
  ASSUME NEW R, NEW L, NEW S, NEW K, NEW N \in Int, NEW p \in Nat, R \subseteq S, L \subseteq K, Gaps(R, L, N, p)
  PROVE  Gaps(S, K, N, p)
<1>1. Missing(S, K, N) \subseteq Missing(R, L, N)
  BY DEF Missing
<1>2. Cardinality(Missing(S, K, N)) <= Cardinality(Missing(R, L, N))
  BY <1>1, MissingFinite, FS_Subset
<1>3. Cardinality(Missing(S, K, N)) < p
  BY <1>2, MissingFinite DEF Gaps
<1> QED
  BY <1>1, <1>3 DEF Gaps

\* A ring into which R was put; at first there is nothing in it.  Once the
\* header walked over an early flag nothing is said of it.
RingOk(r, R, L, p) ==
    /\ r \in Rings /\ (r.cell_ready <=> R # {})
    /\ R = {} => r.filled = {} /\ r.nof_logged_dci = 0 /\ r.pushed = << >>
    /\ R # {} /\ r.clean => \E N : RingAt(r, R, L, N, p)

(* The first result of a cell.                                             *)
LEMMA PutFirst ==
  ASSUME NEW r, NEW R, NEW L, NEW p, NEW l, RingOk(r, R, L, p), R = {}, Losses(L, l, p),
         NEW n \in FirstTti .. LastTti, Gaps(R \cup {n}, L, n, p)
  PROVE  RingAt(Put(r, n), R \cup {n}, L, n, p) /\ Late(Put(r, n), R \cup {n})
<1>0. /\ BufSize \in Nat \ {0} /\ Eighth \in Nat \ {0} /\ BufSize = 8 * Eighth /\ DecodeTimeout \in Nat \ {0}
      /\ FirstTti \in Nat /\ LastTti \in Nat /\ FirstTti <= LastTti /\ n \in Nat /\ n \in FirstTti .. LastTti
  BY RingConstants, LoggerAssumption
<1>1. r \in Rings /\ ~r.cell_ready /\ r.filled = {} /\ r.nof_logged_dci = 0 /\ r.pushed = << >>
  BY DEF RingOk
<1>2. Eighth > 1
  <2>1. p \in Nat /\ l \in Nat /\ p + l < Eighth
    BY DEF Losses
  <2>2. Cardinality(Missing(R \cup {n}, L, n)) < p /\ Cardinality(Missing(R \cup {n}, L, n)) \in Nat
    BY <1>0, MissingFinite DEF Gaps
  <2> QED
    BY <1>0, <2>1, <2>2
<1>3. PICK H \in Int : H = n - 1
  BY <1>0
<1>4. HeaderFor(r, n) = H % BufSize
  <2>0. PICK v \in Int, x \in Int : v = 0 - 1 /\ x = n
    BY <1>0
  <2>b. BufSize \in Nat \ {0}
    BY <1>0
  <2>c. ((x % BufSize) + v) % BufSize = (x + v) % BufSize
    BY <2>b, EarlyRemainder
  <2>d. x % BufSize \in 0 .. BufSize - 1
    BY <2>b, EarlyRemainder
  <2>1. ((x % BufSize) + v) % BufSize = (x + v) % BufSize /\ x % BufSize \in Int
    BY <2>b, <2>c, <2>d
  <2>2. x + v = H /\ (x % BufSize) + v = (n % BufSize) - 1
    BY <1>0, <1>3, <2>0, <2>1
  <2> QED
    BY <1>1, <2>1, <2>2 DEF HeaderFor, FirstHeader
<1>5. RecentFor(r, n) = n % BufSize
  <2>1. n # H /\ n - H < Eighth /\ H - n <= 2 * Eighth /\ n > H
    BY <1>0, <1>2, <1>3
  <2>n. n \in Int
    BY <1>0
  <2>2. MostRecent(H % BufSize, n % BufSize) = IF n > H THEN n % BufSize ELSE H % BufSize
    BY <2>1, <2>n, RecentMoves
  <2> QED
    BY <1>1, <1>4, <2>1, <2>2 DEF RecentFor
<1>6. NofFor(r) = 1 /\ ~(NofFor(r) >= Eighth)
  BY <1>0, <1>1, <1>2 DEF NofFor
<1>7. KnownFor(r, n) = {n % BufSize} /\ StepsFor(r, n) = 0
  BY <1>1, <1>6 DEF KnownFor, StepsFor, FillFor
<1>8. PICK t : t = Put(r, n)
  OBVIOUS
<1>9. t \in Rings /\ IsPut(t, r, n)
  BY <1>0, <1>1, <1>8, PutRing, PutFields
<1>10. t.filled = {n % BufSize}
  <2>1. n % BufSize \in Slots
    BY <1>0, SlotOf
  <2>2. Dist((H % BufSize) + 1, n % BufSize) \in 0 .. BufSize - 1
    BY <2>1, SlotAfter
  <2>3. Dist((H % BufSize) + 1, n % BufSize) >= 0
    BY <1>0, <2>2
  <2> QED
    BY <1>4, <1>7, <1>9, <2>3 DEF IsPut
<1>11. /\ t.content = [r.content EXCEPT ![n % BufSize] = n] /\ r.content \in [Slots -> Vals]
       /\ n % BufSize \in Slots
  BY <1>0, <1>1, <1>9, SlotOf DEF IsPut, ContentFor, Rings
<1>12. /\ t.cell_header = H % BufSize /\ t.most_recent_sf = n % BufSize /\ t.nof_logged_dci = 1
       /\ t.head = H /\ t.first = n
  BY <1>1, <1>3, <1>4, <1>5, <1>6, <1>7, <1>9 DEF IsPut, FirstFor
<1>13. t.pushed = << >>
  <2>1. HandedFor(r, n) = << >>
    BY <1>7 DEF HandedFor
  <2> QED
    BY <1>1, <1>9, <2>1 DEF IsPut
<1>14. PICK S : S = {n}
  OBVIOUS
<1>15. S = R \cup {n} /\ Cardinality(S) = 1 /\ \A m \in S : m = n
  BY <1>14, FS_Singleton
<1>16. Newer(n, S) /\ t.first \in S /\ S \subseteq FirstTti .. LastTti /\ Gaps(S, L, n, p)
  BY <1>0, <1>12, <1>14, <1>15 DEF Newer
<1>17. /\ Lag(t, n) /\ Marked(t, S) /\ Earlies(t, S, n) /\ Contents(t, S, n) /\ Passed(t, S, L)
       /\ Handed(t, S, L, n)
  <2>1. Lag(t, n)
    BY <1>0, <1>2, <1>3, <1>12 DEF Lag
  <2>2. Marked(t, S)
    BY <1>0, <1>3, <1>10, <1>12, <1>14 DEF Marked
  <2>3. Contents(t, S, n)
    BY <1>11, <1>14 DEF Contents
  <2>4. Passed(t, S, L)
    BY <1>0, <1>3, <1>12 DEF Passed
  <2>5. Handed(t, S, L, n)
    BY <1>13 DEF Handed
  <2>6. Earlies(t, S, n)
    BY <1>0, <1>12, <1>14 DEF Earlies
  <2> QED
    BY <2>1, <2>2, <2>3, <2>4, <2>5, <2>6
<1>18. t.head \in t.first - 1 .. n /\ t.nof_logged_dci <= Cardinality(S)
  BY <1>0, <1>3, <1>12, <1>15
<1>19. RingAt(t, S, L, n, p)
  BY <1>12, <1>15, <1>16, <1>17, <1>18 DEF RingAt
<1>20. Late(t, S)
  BY <1>10, <1>14 DEF Late
<1> QED
  BY <1>8, <1>15, <1>19, <1>20

(* A ring after any put.                                                   *)
LEMMA PutOk ==
  ASSUME NEW r, NEW R, NEW L, NEW p, NEW l, RingOk(r, R, L, p), Losses(L, l, p), Timely,
         NEW n \in FirstTti .. LastTti, n \notin R, n \notin L, Gaps(R \cup {n}, L, n, p)
  PROVE  RingOk(Put(r, n), R \cup {n}, L, p) /\ (Late(r, R) => Late(Put(r, n), R \cup {n}))
<1>0. r \in Rings /\ p \in Nat /\ n \in Int
  BY LoggerAssumption DEF RingOk, Losses
<1>1. Put(r, n) \in Rings
  BY <1>0, PutRing
<1>2. Put(r, n).cell_ready
  BY PutFields DEF IsPut
<1>3. CASE R = {}
  <2>1. RingAt(Put(r, n), R \cup {n}, L, n, p) /\ Late(Put(r, n), R \cup {n})
    BY <1>3, PutFirst
  <2> QED
    BY <1>1, <1>2, <2>1 DEF RingOk
<1>c. Put(r, n).clean = CleanFor(r, n)
  BY PutFields DEF IsPut
<1>5. CASE R # {} /\ ~CleanFor(r, n)
  BY <1>1, <1>2, <1>5, <1>c DEF RingOk, Late
<1>4. CASE R # {} /\ CleanFor(r, n)
  <2>1. PICK N : RingAt(r, R, L, N, p)
    BY <1>4 DEF RingOk, CleanFor
  <2>2. N \in Int /\ n # N
    BY LoggerAssumption, <2>1 DEF RingAt, Newer
  <2>3. PICK M : IsTop(M, N, n)
    <3>1. CASE n < N
      <4>1. IsTop(N, N, n)
        BY <3>1 DEF IsTop
      <4> QED
        BY <4>1
    <3>2. CASE n > N
      <4>1. IsTop(n, N, n)
        BY <3>2 DEF IsTop
      <4> QED
        BY <4>1
    <3> QED
      BY <1>0, <2>2, <3>1, <3>2
  <2>4. Gaps(R \cup {n}, L, M, p)
    <3>1. CASE M = n
      BY <3>1
    <3>2. CASE M = N
      <4>1. Gaps(R, L, N, p)
        BY <2>1 DEF RingAt
      <4> QED
        BY <1>0, <2>2, <3>2, <4>1, FewerGaps
    <3> QED
      BY <2>3, <3>1, <3>2 DEF IsTop
  <2>5. PutAt(r, R, L, N, p, l, n, M)
    BY <1>0, <1>4, <2>1, <2>3, <2>4 DEF PutAt, RingOk
  <2>6. RingAt(Put(r, n), R \cup {n}, L, M, p) /\ (Late(r, R) => Late(Put(r, n), R \cup {n}))
    BY <2>5, PutLater
  <2> QED
    BY <1>1, <1>2, <2>6 DEF RingOk
<1> QED
  BY <1>3, <1>4, <1>5

(* The ring when what it handed on is forgotten.                           *)
LEMMA ForgetOk ==
  ASSUME NEW r, NEW R, NEW L, NEW p, RingOk(r, R, L, p)
  PROVE  /\ RingOk([r EXCEPT !.pushed = << >>], R, L, p)
         /\ Late(r, R) => Late([r EXCEPT !.pushed = << >>], R)
<1>0. r \in Rings
  BY DEF RingOk
<1>1. PICK t : t = [r EXCEPT !.pushed = << >>]
  OBVIOUS
<1>2. /\ t \in Rings /\ t.filled = r.filled /\ t.content = r.content /\ t.cell_ready = r.cell_ready
      /\ t.cell_header = r.cell_header /\ t.most_recent_sf = r.most_recent_sf
      /\ t.nof_logged_dci = r.nof_logged_dci /\ t.head = r.head /\ t.pushed = << >>
      /\ t.first = r.first /\ t.early = r.early /\ t.clean = r.clean
  <2>1. << >> \in Seq(Vals)
    OBVIOUS
  <2>2. t \in Rings
    BY <1>0, <1>1, <2>1 DEF Rings
  <2>3. /\ t.filled = r.filled /\ t.content = r.content /\ t.cell_ready = r.cell_ready
        /\ t.cell_header = r.cell_header /\ t.most_recent_sf = r.most_recent_sf
        /\ t.nof_logged_dci = r.nof_logged_dci /\ t.head = r.head
        /\ t.first = r.first /\ t.early = r.early /\ t.clean = r.clean
    BY <1>0, <1>1 DEF Rings
  <2>4. t.pushed = << >>
    BY <1>0, <1>1 DEF Rings
  <2> QED
    BY <2>2, <2>3, <2>4
<1>3. ASSUME NEW N, RingAt(r, R, L, N, p) PROVE RingAt(t, R, L, N, p)
  <2>1. Lag(t, N) /\ Marked(t, R) /\ Earlies(t, R, N) /\ Contents(t, R, N) /\ Passed(t, R, L)
    BY <1>2, <1>3 DEF RingAt, Lag, Marked, Earlies, Contents, Passed
  <2>2. Handed(t, R, L, N)
    BY <1>2 DEF Handed
  <2> QED
    BY <1>2, <1>3, <2>1, <2>2 DEF RingAt
<1>4. RingOk(t, R, L, p)
  BY <1>2, <1>3 DEF RingOk
<1>5. Late(r, R) => Late(t, R)
  BY <1>2 DEF Late
<1> QED
  BY <1>1, <1>4, <1>5

-----------------------------------------------------------------------------
(* The puts of one round.                                                  *)

\* The results of cell i among the first b entries of u.
TakenOf(u, i, b) == {n \in FirstTti .. LastTti : \E a \in 1 .. b : u[a] = <<i, n>>}
Entries == Cells \X (FirstTti .. LastTti)

\* Entry b of u, of cell i, when the cell's ring got R before the round.
EntryOk(u, b, i, R, L) ==
    /\ u[b][2] \notin R /\ u[b][2] \notin L
    /\ Gaps(R \cup TakenOf(u, i, b), L, u[b][2], MaxInFlight[i])

Distinct(u) == \A a, b \in 1 .. Len(u) : a # b => u[a] # u[b]

BufOk ==
    /\ log_stat_buffer \in Seq(Entries) /\ Len(log_stat_buffer) <= MaxBuffer
    /\ Distinct(log_stat_buffer)
    /\ \A b \in 1 .. Len(log_stat_buffer) :
           EntryOk(log_stat_buffer, b, log_stat_buffer[b][1],
                   Received(log_stat_buffer[b][1]), lost[log_stat_buffer[b][1]])

RingsOk == \A i \in Cells : RingOk(cell_status[i], Received(i), lost[i], MaxInFlight[i])
LossesOk == \A i \in Cells : Losses(lost[i], MaxLost[i], MaxInFlight[i])
LateOk == \A i \in Cells : Late(cell_status[i], Received(i))

(* One more entry.                                                         *)
LEMMA TakenNext ==
  ASSUME NEW u \in Seq(Entries), NEW b \in 1 .. Len(u)
  PROVE  /\ u[b] \in Entries /\ u[b] = <<u[b][1], u[b][2]>> /\ u[b][1] \in Cells
         /\ u[b][2] \in FirstTti .. LastTti
         /\ TakenOf(u, u[b][1], b) = TakenOf(u, u[b][1], b - 1) \cup {u[b][2]}
         /\ \A i \in Cells : i # u[b][1] => TakenOf(u, i, b) = TakenOf(u, i, b - 1)
<1>0. Len(u) \in Nat
  BY LenProperties
<1>1. u[b] \in Entries
  BY ElementOfSeq
<1>2. u[b] = <<u[b][1], u[b][2]>> /\ u[b][1] \in Cells /\ u[b][2] \in FirstTti .. LastTti
  BY <1>1 DEF Entries
<1>3. PICK j, n : u[b] = <<j, n>>
  BY <1>2
<1>4. u[b][1] = j /\ u[b][2] = n /\ n \in FirstTti .. LastTti
  BY <1>2, <1>3
<1>5. ASSUME NEW i, NEW m \in FirstTti .. LastTti
      PROVE  (\E a \in 1 .. b : u[a] = <<i, m>>) <=> ((\E a \in 1 .. b - 1 : u[a] = <<i, m>>) \/ u[b] = <<i, m>>)
  <2>1. \A a : a \in 1 .. b <=> a \in 1 .. b - 1 \/ a = b
    BY <1>0
  <2> QED
    BY <2>1
<1>6. TakenOf(u, j, b) = TakenOf(u, j, b - 1) \cup {n}
  <2>1. \A m : <<j, n>> = <<j, m>> <=> n = m
    OBVIOUS
  <2> QED
    BY <1>3, <1>4, <1>5, <2>1 DEF TakenOf
<1>7. ASSUME NEW i \in Cells, i # j PROVE TakenOf(u, i, b) = TakenOf(u, i, b - 1)
  <2>1. \A m : <<j, n>> # <<i, m>>
    BY <1>7
  <2> QED
    BY <1>3, <1>5, <2>1 DEF TakenOf
<1> QED
  BY <1>1, <1>2, <1>4, <1>6, <1>7

\* No step of a loop leaves S.
Stays(f, N, S) == \A n \in 1 .. N : f[n - 1] \in S => f[n] \in S

(* Nor does the loop.                                                      *)
LEMMA LoopStays ==
  ASSUME NEW N \in Nat, NEW S, NEW f, f[0] \in S, Stays(f, N, S)
  PROVE  f[N] \in S
<1> DEFINE Bad == {n \in 0 .. N : f[n] \notin S}
<1>1. Bad = {}
  <2> SUFFICES ASSUME Bad # {} PROVE FALSE
    OBVIOUS
  <2>1. PICK b \in Bad : \A c \in Bad : b <= c
    BY LowestExists
  <2>2. b \in 1 .. N /\ b - 1 \in 0 .. N /\ ~(b <= b - 1)
    BY <2>1
  <2> QED
    BY <2>1, <2>2 DEF Stays
<1> QED
  BY <1>1

\* The rings after one of the puts.
PutEntry(rings, e) == [rings EXCEPT ![e[1]] = Put(@, e[2])]

\* Puts of the entries stay in G.
Puts(G, u, N) == \A x \in G, b \in 1 .. N : PutEntry(x, u[b]) \in G

(* The rings after each of the puts.                                       *)
LEMMA PutsExist ==
  ASSUME NEW N \in Nat, NEW u, NEW G, NEW base \in G, Puts(G, u, N)
  PROVE  \E g \in [0 .. N -> G] : g[0] = base /\ \A b \in 1 .. N : g[b] = PutEntry(g[b - 1], u[b])
<1> DEFINE F == [x \in G \X (1 .. N) |-> PutEntry(x[1], u[x[2]])]
<1>1. F \in [G \X (1 .. N) -> G] /\ \A x \in G, b \in 1 .. N : F[<<x, b>>] = PutEntry(x, u[b])
  BY DEF Puts
<1> HIDE DEF F
<1>2. PICK g \in [0 .. N -> G] : g[0] = base /\ \A b \in 1 .. N : g[b] = F[<<g[b - 1], b>>]
  BY <1>1, RecursionExists
<1>3. ASSUME NEW b \in 1 .. N PROVE g[b] = PutEntry(g[b - 1], u[b])
  <2>1. b - 1 \in 0 .. N
    OBVIOUS
  <2> QED
    BY <1>1, <1>2, <2>1
<1> QED
  BY <1>2, <1>3

\* The rings before the puts of a round, and how far they are after them.
Base == [i \in Cells |-> [cell_status[i] EXCEPT !.pushed = << >>]]
Onward == {t \in [Cells -> Rings] : \A i \in Cells :
              /\ t[i].clean => cell_status[i].clean
              /\ cell_status[i].cell_ready => /\ t[i].cell_ready /\ t[i].head >= cell_status[i].head
                                              /\ t[i].first = cell_status[i].first}

(* One put keeps the type and takes the headers forward.                   *)
LEMMA PutOnward ==
  ASSUME cell_status \in [Cells -> Rings], NEW t \in [Cells -> Rings], NEW e \in Entries
  PROVE  /\ PutEntry(t, e) \in [Cells -> Rings] /\ PutEntry(t, e)[e[1]] = Put(t[e[1]], e[2])
         /\ \A i \in Cells : i # e[1] => PutEntry(t, e)[i] = t[i]
         /\ t \in Onward => PutEntry(t, e) \in Onward
<1>1. PICK j \in Cells, n \in FirstTti .. LastTti : e = <<j, n>> /\ j = e[1] /\ n = e[2]
  BY DEF Entries
<1>2. PICK q : q = Put(t[j], n)
  OBVIOUS
<1>3. q \in Rings
  BY <1>2, PutRing
<1>4. PICK z : z = PutEntry(t, e)
  OBVIOUS
<1>5. z = [t EXCEPT ![j] = q]
  BY <1>1, <1>2, <1>4 DEF PutEntry
<1>6. z \in [Cells -> Rings] /\ z[j] = q /\ \A i \in Cells : i # j => z[i] = t[i]
  BY <1>3, <1>5
<1>7. /\ q.cell_ready /\ (q.clean => t[j].clean)
      /\ t[j].cell_ready => q.head >= t[j].head /\ q.first = t[j].first
  <2>1. IsPut(q, t[j], n) /\ StepsFor(t[j], n) \in Nat /\ t[j].head \in Int
    BY <1>2, PutFields, PutRing DEF Rings
  <2>2. q.clean => t[j].clean
    BY <2>1 DEF IsPut, CleanFor
  <2> QED
    BY <2>1, <2>2 DEF IsPut, FirstFor
<1>8. ASSUME t \in Onward PROVE z \in Onward
  <2>1. ASSUME NEW i \in Cells, cell_status[i].cell_ready
        PROVE  /\ z[i].cell_ready /\ z[i].head >= cell_status[i].head
               /\ z[i].first = cell_status[i].first
    <3>1. t[i].cell_ready /\ t[i].head >= cell_status[i].head /\ t[i].first = cell_status[i].first
      BY <1>8, <2>1 DEF Onward
    <3>2. CASE i = j
      <4>1. PICK old \in Int : old = cell_status[i].head
        BY DEF Rings
      <4>2. t[j].head \in Int /\ q.head \in Int /\ q.head >= t[j].head
        BY <1>3, <1>7, <3>1, <3>2 DEF Rings
      <4>3. z[i] = q /\ t[j].head >= old
        BY <1>6, <3>1, <3>2, <4>1
      <4>4. q.head >= old
        BY <4>2, <4>3
      <4> QED
        BY <1>7, <3>1, <3>2, <4>1, <4>3, <4>4
    <3>3. CASE i # j
      BY <1>6, <3>1, <3>3
    <3> QED
      BY <3>2, <3>3
  <2>2. ASSUME NEW i \in Cells, z[i].clean PROVE cell_status[i].clean
    <3>1. t[i].clean
      BY <1>6, <1>7, <2>2
    <3> QED
      BY <1>8, <3>1 DEF Onward
  <2> QED
    BY <1>6, <2>1, <2>2 DEF Onward
<1> QED
  BY <1>1, <1>2, <1>4, <1>6, <1>8

(* Filled is the last state of a loop over the entries.                    *)
LEMMA FilledLoop ==
  ASSUME log_stat_buffer \in Seq(Entries), cell_status \in [Cells -> Rings]
  PROVE  /\ Base \in [Cells -> Rings] /\ Base \in Onward
         /\ \E f : /\ f[0] = Base /\ Filled = f[Len(log_stat_buffer)]
                   /\ \A b \in 1 .. Len(log_stat_buffer) : f[b] = PutEntry(f[b - 1], log_stat_buffer[b])
<1>1. PICK u : u = log_stat_buffer
  OBVIOUS
<1>2. PICK N : N = Len(u)
  OBVIOUS
<1>3. PICK base : base = Base
  OBVIOUS
<1>4. u \in Seq(Entries) /\ N \in Nat
  BY <1>1, <1>2, LenProperties
<1> DEFINE G == [Cells -> Rings]
           Loop(v) == [b \in 0 .. N |-> IF b = 0 THEN base ELSE PutEntry(v[b - 1], u[b])]
<1>5. base \in G /\ base \in Onward
  <2>1. ASSUME NEW i \in Cells
        PROVE  LET q == [cell_status[i] EXCEPT !.pushed = << >>]
               IN  /\ q \in Rings /\ q.cell_ready = cell_status[i].cell_ready
                   /\ q.head = cell_status[i].head /\ q.clean = cell_status[i].clean
                   /\ q.first = cell_status[i].first
    <3>1. PICK r \in Rings : r = cell_status[i]
      OBVIOUS
    <3>2. << >> \in Seq(Vals)
      BY EmptySeq
    <3>3. PICK q : q = [r EXCEPT !.pushed = << >>]
      OBVIOUS
    <3>4. /\ q \in Rings /\ q.cell_ready = r.cell_ready /\ q.head = r.head /\ q.clean = r.clean
          /\ q.first = r.first
      BY <3>1, <3>2, <3>3 DEF Rings
    <3> QED
      BY <3>1, <3>3, <3>4
  <2>2. base \in G
    BY <1>3, <2>1 DEF Base
  <2>3. ASSUME NEW i \in Cells, cell_status[i].cell_ready
        PROVE  /\ base[i].cell_ready /\ base[i].head >= cell_status[i].head
               /\ base[i].first = cell_status[i].first
    <3>1. /\ base[i].cell_ready = cell_status[i].cell_ready /\ base[i].head = cell_status[i].head
          /\ base[i].first = cell_status[i].first
      BY <1>3, <2>1 DEF Base
    <3>2. cell_status[i].head \in Int
      BY DEF Rings
    <3> QED
      BY <2>3, <3>1, <3>2
  <2>4. ASSUME NEW i \in Cells PROVE base[i].clean => cell_status[i].clean
    BY <1>3, <2>1 DEF Base
  <2> QED
    BY <2>2, <2>3, <2>4 DEF Onward
<1>6. ASSUME NEW x \in G, NEW b \in 1 .. N PROVE PutEntry(x, u[b]) \in G
  <2>1. u[b] \in Entries
    BY <1>2, <1>4, ElementOfSeq
  <2> QED
    BY <2>1, PutOnward
<1>7. PICK g \in [0 .. N -> G] : g[0] = base /\ \A b \in 1 .. N : g[b] = PutEntry(g[b - 1], u[b])
  <2>1. N \in Nat /\ base \in G /\ Puts(G, u, N)
    BY <1>4, <1>5, <1>6 DEF Puts
  <2> HIDE DEF G
  <2> QED
    BY <2>1, PutsExist
<1> HIDE DEF G
<1>8. g = Loop(g)
  <2>1. ASSUME NEW b \in 0 .. N PROVE g[b] = IF b = 0 THEN base ELSE PutEntry(g[b - 1], u[b])
    <3>1. b = 0 \/ b \in 1 .. N
      BY <1>4
    <3> QED
      BY <1>7, <3>1
  <2> QED
    BY <1>7, <2>1
<1>9. Filled = (CHOOSE v : v = Loop(v))[N]
  BY <1>1, <1>2, <1>3 DEF Filled, PutEntry, Base
<1>10. PICK f : f = Loop(f) /\ Filled = f[N]
  BY <1>8, <1>9
<1>11. f[0] = base
  <2>1. \A v : Loop(v)[0] = base
    BY <1>4
  <2> HIDE DEF Loop
  <2> QED
    BY <1>10, <2>1
<1>12. ASSUME NEW b \in 1 .. N PROVE f[b] = PutEntry(f[b - 1], u[b])
  <2>1. b \in 0 .. N /\ b # 0
    BY <1>4
  <2>2. \A v : Loop(v)[b] = PutEntry(v[b - 1], u[b])
    BY <2>1
  <2> HIDE DEF Loop
  <2> QED
    BY <1>10, <2>2
<1> HIDE DEF Loop
<1> QED
  BY <1>1, <1>2, <1>3, <1>5, <1>10, <1>11, <1>12 DEF G

(* The rings after a round are rings, their headers not further back.      *)
LEMMA FilledType ==
  ASSUME log_stat_buffer \in Seq(Entries), cell_status \in [Cells -> Rings]
  PROVE  Filled \in [Cells -> Rings] /\ Filled \in Onward
<1>1. PICK u, N : u = log_stat_buffer /\ N = Len(u)
  OBVIOUS
<1>2. u \in Seq(Entries) /\ N \in Nat
  BY <1>1, LenProperties
<1>3. PICK f : f[0] = Base /\ Filled = f[N] /\ \A b \in 1 .. N : f[b] = PutEntry(f[b - 1], u[b])
  BY <1>1, FilledLoop
<1>4. Base \in Onward
  BY FilledLoop
<1>5. PICK S : S = Onward
  OBVIOUS
<1>6. ASSUME NEW b \in 1 .. N, f[b - 1] \in S PROVE f[b] \in S
  <2>1. u[b] \in Entries
    BY <1>1, <1>2, ElementOfSeq
  <2>2. PICK t : t = f[b - 1]
    OBVIOUS
  <2>3. t \in [Cells -> Rings] /\ t \in Onward
    BY <1>5, <1>6, <2>2 DEF Onward
  <2>4. PutEntry(t, u[b]) \in Onward
    BY <2>1, <2>3, PutOnward
  <2> QED
    BY <1>3, <1>5, <2>2, <2>4
<1>7. f[N] \in S
  <2>1. f[0] \in S /\ Stays(f, N, S)
    BY <1>3, <1>4, <1>5, <1>6 DEF Stays
  <2> QED
    BY <1>2, <2>1, LoopStays
<1>8. Filled \in Onward
  BY <1>3, <1>5, <1>7
<1> QED
  BY <1>8 DEF Onward

(* The entries of a round keep what each ring holds.                       *)
LEMMA FilledOk ==
  ASSUME BufOk, cell_status \in [Cells -> Rings], RingsOk, LossesOk, Timely
  PROVE  /\ Filled \in [Cells -> Rings]
         /\ \A i \in Cells : RingOk(Filled[i], Received(i) \cup TakenOf(log_stat_buffer, i, Len(log_stat_buffer)),
                                    lost[i], MaxInFlight[i])
         /\ LateOk => \A i \in Cells :
                Late(Filled[i], Received(i) \cup TakenOf(log_stat_buffer, i, Len(log_stat_buffer)))
<1>1. PICK u : u = log_stat_buffer
  OBVIOUS
<1>2. PICK N : N = Len(u)
  OBVIOUS
<1>3. PICK base : base = Base
  OBVIOUS
<1>4. /\ u \in Seq(Entries) /\ N \in Nat /\ Distinct(u)
      /\ \A b \in 1 .. N : EntryOk(u, b, u[b][1], Received(u[b][1]), lost[u[b][1]])
  BY <1>1, <1>2, LenProperties DEF BufOk
<1> DEFINE G == [Cells -> Rings]
<1>5. base \in G /\ \A i \in Cells : base[i] = [cell_status[i] EXCEPT !.pushed = << >>]
  BY <1>1, <1>3, <1>4, FilledLoop DEF Base
<1>6. ASSUME NEW x \in G, NEW b \in 1 .. N
      PROVE  /\ PutEntry(x, u[b]) \in G /\ PutEntry(x, u[b])[u[b][1]] = Put(x[u[b][1]], u[b][2])
             /\ \A i \in Cells : i # u[b][1] => PutEntry(x, u[b])[i] = x[i]
  <2>1. u[b] \in Entries
    BY <1>2, <1>4, ElementOfSeq
  <2> QED
    BY <2>1, PutOnward
<1> HIDE DEF G
<1>10. PICK f : f[0] = base /\ Filled = f[N] /\ \A b \in 1 .. N : f[b] = PutEntry(f[b - 1], u[b])
  BY <1>1, <1>2, <1>3, <1>4, FilledLoop
<1>11. f[0] = base
  BY <1>10
<1>12. ASSUME NEW b \in 1 .. N PROVE f[b] = PutEntry(f[b - 1], u[b])
  BY <1>10
<1> DEFINE Good(t, b) ==
              /\ t \in G
              /\ \A i \in Cells : RingOk(t[i], Received(i) \cup TakenOf(u, i, b), lost[i], MaxInFlight[i])
              /\ LateOk => \A i \in Cells : Late(t[i], Received(i) \cup TakenOf(u, i, b))
           Bad == {b \in 0 .. N : ~Good(f[b], b)}
<1>13. Good(f[0], 0)
  <2>1. ASSUME NEW i \in Cells PROVE Received(i) \cup TakenOf(u, i, 0) = Received(i)
    BY DEF TakenOf
  <2>2. ASSUME NEW i \in Cells
        PROVE  /\ RingOk(base[i], Received(i), lost[i], MaxInFlight[i])
               /\ LateOk => Late(base[i], Received(i))
    <3>1. PICK t : t = [cell_status[i] EXCEPT !.pushed = << >>]
      OBVIOUS
    <3>2. RingOk(cell_status[i], Received(i), lost[i], MaxInFlight[i])
      BY DEF RingsOk
    <3>3. /\ RingOk(t, Received(i), lost[i], MaxInFlight[i])
          /\ Late(cell_status[i], Received(i)) => Late(t, Received(i))
      BY <3>1, <3>2, ForgetOk
    <3>4. base[i] = t
      BY <1>5, <3>1
    <3> QED
      BY <3>3, <3>4 DEF LateOk
  <2> QED
    BY <1>5, <1>11, <2>1, <2>2
<1>14. ASSUME NEW t, NEW b \in 1 .. N, Good(t, b - 1) PROVE Good(PutEntry(t, u[b]), b)
  <2>1. PICK j, n : j = u[b][1] /\ n = u[b][2]
    OBVIOUS
  <2>2. /\ j \in Cells /\ n \in FirstTti .. LastTti /\ u[b] = <<j, n>>
        /\ TakenOf(u, j, b) = TakenOf(u, j, b - 1) \cup {n}
        /\ \A i \in Cells : i # j => TakenOf(u, i, b) = TakenOf(u, i, b - 1)
    BY <1>2, <1>4, <2>1, TakenNext
  <2>3. PICK z : z = PutEntry(t, u[b])
    OBVIOUS
  <2>4. z \in G /\ z[j] = Put(t[j], n) /\ \A i \in Cells : i # j => z[i] = t[i]
    <3>1. t \in G
      BY <1>14
    <3> QED
      BY <1>6, <2>1, <2>3, <3>1
  <2>5. PICK R : R = Received(j) \cup TakenOf(u, j, b - 1)
    OBVIOUS
  <2>6. /\ n \notin Received(j) /\ n \notin lost[j]
        /\ Gaps(R \cup {n}, lost[j], n, MaxInFlight[j])
    <3>1. EntryOk(u, b, j, Received(j), lost[j])
      BY <1>4, <2>1
    <3>2. Received(j) \cup TakenOf(u, j, b) = R \cup {n}
      BY <2>2, <2>5
    <3> QED
      BY <2>1, <2>5, <3>1, <3>2 DEF EntryOk
  <2>7. n \notin R
    <3>1. ASSUME NEW a \in 1 .. b - 1 PROVE u[a] # <<j, n>>
      <4>1. a \in 1 .. Len(u) /\ b \in 1 .. Len(u) /\ a # b
        BY <1>2, <1>4
      <4> QED
        BY <1>4, <2>2, <4>1 DEF Distinct
    <3> QED
      BY <2>5, <2>6, <3>1 DEF TakenOf
  <2>8. Losses(lost[j], MaxLost[j], MaxInFlight[j]) /\ RingOk(t[j], R, lost[j], MaxInFlight[j])
    BY <1>14, <2>2, <2>5 DEF LossesOk
  <2>9. /\ RingOk(Put(t[j], n), R \cup {n}, lost[j], MaxInFlight[j])
        /\ Late(t[j], R) => Late(Put(t[j], n), R \cup {n})
    BY <2>2, <2>6, <2>7, <2>8, PutOk
  <2>10. ASSUME NEW i \in Cells
         PROVE  /\ RingOk(z[i], Received(i) \cup TakenOf(u, i, b), lost[i], MaxInFlight[i])
                /\ LateOk => Late(z[i], Received(i) \cup TakenOf(u, i, b))
    <3>1. CASE i = j
      <4>1. Received(j) \cup TakenOf(u, j, b) = R \cup {n}
        BY <2>2, <2>5
      <4>2. LateOk => Late(t[j], R)
        BY <1>14, <2>2, <2>5
      <4> QED
        BY <2>4, <2>9, <3>1, <4>1, <4>2
    <3>2. CASE i # j
      BY <1>14, <2>2, <2>4, <3>2
    <3> QED
      BY <3>1, <3>2
  <2> QED
    BY <2>3, <2>4, <2>10
<1> HIDE DEF Good
<1>15. Bad = {}
  <2> SUFFICES ASSUME Bad # {} PROVE FALSE
    OBVIOUS
  <2>1. PICK b \in Bad : \A c \in Bad : b <= c
    BY <1>4, LowestExists
  <2>2. b # 0
    BY <1>13, <2>1
  <2>3. b \in 1 .. N /\ b - 1 \in 0 .. N /\ ~(b <= b - 1)
    BY <1>4, <2>1, <2>2
  <2>4. Good(f[b - 1], b - 1)
    BY <2>1, <2>3
  <2> QED
    BY <1>12, <1>14, <2>1, <2>3, <2>4
<1>16. Good(f[N], N)
  BY <1>4, <1>15
<1> QED
  BY <1>1, <1>2, <1>10, <1>16 DEF Good, G

-----------------------------------------------------------------------------
(* The log files.                                                          *)

\* The static variable of a log function and the files it wrote.
Logs == {st \in [first : BOOLEAN, file : [Cells -> {"empty", "array"}]] :
             st.first => \A i \in Cells : st.file[i] = "empty"}

(* At least one record is written for a subframe.                          *)
LEMMA SomeRecord ==
  ASSUME NEW k \in Kinds, NEW n \in Vals
  PROVE  NofRecords(k, n) # 0
<1>1. NofMsg(k, n) \in Nat
  BY LoggerAssumption DEF Vals
<1>2. PICK x \in Nat : x = NofMsg(k, n)
  BY <1>1
<1>3. {1, x} \in SUBSET (0 .. x + 1) /\ {1, x} # {} /\ x + 1 \in Nat
  BY <1>2
<1>4. Max({1, x}) \in {1, x} /\ \A y \in {1, x} : y <= Max({1, x})
  BY <1>3, MaxIsHighest
<1>5. Max({1, x}) # 0
  BY <1>2, <1>4
<1> QED
  BY <1>2, <1>5 DEF NofRecords

(* One call of a log function.                                             *)
LEMMA LogStep ==
  ASSUME NEW k \in Kinds, NEW i \in Cells, NEW n \in Vals, NEW st \in Logs
  PROVE  LogSubframe(k, st, i, n) \in Logs
<1>0. NofRecords(k, n) # 0
  BY SomeRecord
<1>1. /\ st.first \in BOOLEAN /\ st.file \in [Cells -> {"empty", "array"}]
      /\ st.first => st.file[i] = "empty"
  BY DEF Logs
<1>2. LogSubframe(k, st, i, n) = [first |-> FALSE, file |-> [st.file EXCEPT ![i] = "array"]]
  <2>1. CASE st.file[i] = "empty"
    BY <1>0, <1>1, <2>1 DEF LogSubframe, OpensArray
  <2>2. CASE st.file[i] = "array"
    BY <1>0, <1>1, <2>2 DEF LogSubframe, OpensArray
  <2> QED
    BY <1>1, <2>1, <2>2
<1>3. PICK f : f = [st.file EXCEPT ![i] = "array"]
  OBVIOUS
<1>4. f \in [Cells -> {"empty", "array"}]
  BY <1>1, <1>3
<1>5. PICK t : t = [first |-> FALSE, file |-> f]
  OBVIOUS
<1>6. t \in [first : BOOLEAN, file : [Cells -> {"empty", "array"}]] /\ t.first = FALSE
  BY <1>4, <1>5
<1> QED
  BY <1>2, <1>3, <1>5, <1>6 DEF Logs

(* The slots of a cell are logged.                                         *)
LEMMA LogPerCellOk ==
  ASSUME NEW k \in Kinds, NEW i \in Cells, NEW out \in Seq(Vals), NEW st \in Logs
  PROVE  LogPerCell(k, st, i, out) \in Logs
<1>0. PICK N \in Nat : N = Len(out)
  BY LenProperties
<1>s. PICK S : S = Logs
  OBVIOUS
<1> DEFINE F == [x \in S \X (1 .. N) |-> LogSubframe(k, x[1], i, out[x[2]])]
           Loop(v) == [j \in 0 .. N |-> IF j = 0 THEN st ELSE LogSubframe(k, v[j - 1], i, out[j])]
<1>1. ASSUME NEW x \in S, NEW j \in 1 .. N PROVE LogSubframe(k, x, i, out[j]) \in S
  <2>1. out[j] \in Vals
    BY <1>0, ElementOfSeq
  <2> QED
    BY <2>1, <1>s, LogStep
<1>2. F \in [S \X (1 .. N) -> S] /\ \A x \in S, j \in 1 .. N : F[<<x, j>>] = LogSubframe(k, x, i, out[j])
  BY <1>1
<1>3. PICK g \in [0 .. N -> S] : g[0] = st /\ \A j \in 1 .. N : g[j] = F[<<g[j - 1], j>>]
  <2> HIDE DEF F
  <2>1. st \in S /\ F \in [S \X (1 .. N) -> S]
    BY <1>s, <1>2
  <2>2. LoopStates(N, S, st, F)
    BY <1>0, <2>1, LoopListed
  <2> QED
    BY <2>2 DEF LoopStates
<1>4. g = Loop(g)
  <2>1. ASSUME NEW j \in 0 .. N PROVE g[j] = IF j = 0 THEN st ELSE LogSubframe(k, g[j - 1], i, out[j])
    <3> HIDE DEF F
    <3>1. CASE j = 0
      BY <1>3, <3>1
    <3>2. CASE j # 0
      <4>1. j \in 1 .. N /\ j - 1 \in 0 .. N
        BY <3>2
      <4> QED
        BY <1>2, <1>3, <3>2, <4>1
    <3> QED
      BY <3>1, <3>2
  <2> QED
    BY <1>3, <2>1
<1>5. LogPerCell(k, st, i, out) = (CHOOSE v : v = Loop(v))[N]
  BY <1>0 DEF LogPerCell
<1>6. PICK f : f = Loop(f) /\ LogPerCell(k, st, i, out) = f[N]
  BY <1>4, <1>5
<1>7. f[0] = st
  <2>1. \A v : Loop(v)[0] = st
    OBVIOUS
  <2> HIDE DEF Loop
  <2> QED
    BY <1>6, <2>1
<1>8. ASSUME NEW j \in 1 .. N PROVE f[j] = LogSubframe(k, f[j - 1], i, out[j])
  <2>1. j \in 0 .. N /\ j # 0
    OBVIOUS
  <2>2. \A v : Loop(v)[j] = LogSubframe(k, v[j - 1], i, out[j])
    BY <2>1
  <2> HIDE DEF Loop
  <2> QED
    BY <1>6, <2>2
<1>9. Stays(f, N, S)
  BY <1>1, <1>8 DEF Stays
<1> QED
  BY <1>s, <1>6, <1>7, <1>9, LoopStays

\* The state of kind k's logs, and what they look like after cell c.
LogsNow(k) == [first |-> isFirstCall[k], file |-> file[k]]
NextCell(k, st, c, out) ==
    IF k \in LogsOf[c - 1] THEN LogPerCell(k, st, c - 1, out[c - 1]) ELSE st

(* The same for all cells, from any state of the logs.                     *)
LEMMA CellsExist ==
  ASSUME NEW k \in Kinds, NEW out \in [Cells -> Seq(Vals)], NEW st \in Logs
  PROVE  /\ NofCell \in Nat
         /\ \A x \in Logs, c \in 1 .. NofCell : NextCell(k, x, c, out) \in Logs
         /\ \E g \in [0 .. NofCell -> Logs] :
                g[0] = st /\ \A c \in 1 .. NofCell : g[c] = NextCell(k, g[c - 1], c, out)
<1>s. PICK S : S = Logs
  OBVIOUS
<1> DEFINE F == [x \in S \X (1 .. NofCell) |-> NextCell(k, x[1], x[2], out)]
<1>0. NofCell \in Nat
  BY LoggerAssumption
<1>1. ASSUME NEW x \in S, NEW c \in 1 .. NofCell PROVE NextCell(k, x, c, out) \in S
  <2>1. c - 1 \in Cells
    BY <1>0 DEF Cells
  <2> QED
    BY <2>1, <1>s, LogPerCellOk DEF NextCell
<1>2. F \in [S \X (1 .. NofCell) -> S] /\ \A x \in S, c \in 1 .. NofCell : F[<<x, c>>] = NextCell(k, x, c, out)
  BY <1>1
<1> HIDE DEF F
<1>3. PICK g \in [0 .. NofCell -> S] : g[0] = st /\ \A c \in 1 .. NofCell : g[c] = F[<<g[c - 1], c>>]
  <2>1. st \in S /\ F \in [S \X (1 .. NofCell) -> S]
    BY <1>s, <1>2
  <2>2. LoopStates(NofCell, S, st, F)
    BY <1>0, <2>1, LoopListed
  <2> QED
    BY <2>2 DEF LoopStates
<1>4. ASSUME NEW c \in 1 .. NofCell PROVE g[c] = NextCell(k, g[c - 1], c, out)
  <2>1. c - 1 \in 0 .. NofCell
    BY <1>0
  <2> QED
    BY <1>2, <1>3, <2>1
<1> QED
  BY <1>s, <1>0, <1>1, <1>3, <1>4

(* A round of the logger.                                                  *)
LEMMA LogMultiCellOk ==
  ASSUME NEW k \in Kinds, NEW out \in [Cells -> Seq(Vals)], LogsNow(k) \in Logs
  PROVE  LogMultiCell(k, out) \in Logs
<1>0. PICK st \in Logs : st = LogsNow(k)
  OBVIOUS
<1> DEFINE Loop(v) == [c \in 0 .. NofCell |-> IF c = 0 THEN st ELSE NextCell(k, v[c - 1], c, out)]
<1>1. NofCell \in Nat /\ \A x \in Logs, c \in 1 .. NofCell : NextCell(k, x, c, out) \in Logs
  BY CellsExist
<1>2. PICK g \in [0 .. NofCell -> Logs] :
             g[0] = st /\ \A c \in 1 .. NofCell : g[c] = NextCell(k, g[c - 1], c, out)
  BY CellsExist
<1>3. g = Loop(g)
  <2>1. ASSUME NEW c \in 0 .. NofCell PROVE g[c] = IF c = 0 THEN st ELSE NextCell(k, g[c - 1], c, out)
    <3>1. c = 0 \/ c \in 1 .. NofCell
      BY <1>1
    <3> QED
      BY <1>2, <3>1
  <2> QED
    BY <1>2, <2>1
<1>4. LogMultiCell(k, out) = (CHOOSE v : v = Loop(v))[NofCell]
  BY <1>0 DEF LogMultiCell, NextCell, LogsNow
<1>5. PICK f : f = Loop(f) /\ LogMultiCell(k, out) = f[NofCell]
  BY <1>3, <1>4
<1>6. f[0] = st
  <2>1. \A v : Loop(v)[0] = st
    BY <1>1
  <2> HIDE DEF Loop
  <2> QED
    BY <1>5, <2>1
<1>7. ASSUME NEW c \in 1 .. NofCell PROVE f[c] = NextCell(k, f[c - 1], c, out)
  <2>1. c \in 0 .. NofCell /\ c # 0
    BY <1>1
  <2>2. \A v : Loop(v)[c] = NextCell(k, v[c - 1], c, out)
    BY <2>1
  <2> HIDE DEF Loop
  <2> QED
    BY <1>5, <2>2
<1>8. Stays(f, NofCell, Logs)
  BY <1>1, <1>7 DEF Stays
<1> QED
  BY <1>1, <1>5, <1>6, <1>8, LoopStays

-----------------------------------------------------------------------------
(* Types.                                                                  *)

PoolTypes ==
    /\ nextTti \in [Cells -> FirstTti .. LastTti + 1]
    /\ inFlight \in [Cells -> SUBSET (FirstTti .. LastTti)]
    /\ lost \in [Cells -> SUBSET (FirstTti .. LastTti)]
    /\ log_stat_buffer \in Seq(Entries) /\ Len(log_stat_buffer) <= MaxBuffer
    /\ log_stat_header \in 0 .. MaxBuffer - 1 /\ overrun \in BOOLEAN

Configs == [cell_ready : BOOLEAN, curr_header : Slots, tti : Int]
RingTypes ==
    /\ cell_status \in [Cells -> Rings] /\ all_cell_ready \in BOOLEAN
    /\ log_config \in [Cells -> Configs] /\ logged \in [Cells -> Seq(Vals)]

FilesOk ==
    /\ file \in [Kinds -> [Cells -> {"empty", "array"}]] /\ isFirstCall \in [Kinds -> BOOLEAN]
    /\ \A k \in Kinds : LogsNow(k) \in Logs

Types == PoolTypes /\ RingTypes /\ FilesOk

(* The higher of two numbers.                                              *)
LEMMA MaxOfTwo ==
  ASSUME NEW a \in Nat, NEW b \in Nat
  PROVE  Max({a, b}) = IF a < b THEN b ELSE a
<1>1. PICK n \in Nat : a <= n /\ b <= n
  <2>1. a + b \in Nat /\ a <= a + b /\ b <= a + b
    OBVIOUS
  <2> QED
    BY <2>1
<1>2. PICK S : S = {a, b}
  OBVIOUS
<1>3. S \in SUBSET (0 .. n) /\ S # {}
  BY <1>1, <1>2
<1>4. Max(S) \in S /\ \A x \in S : x <= Max(S)
  BY <1>3, MaxIsHighest
<1> QED
  BY <1>2, <1>4

\* The subframes that Finish may choose.
Candidates(i) == inFlight[i] \cup (nextTti[i] .. nextTti[i] + MaxLag)

\* The status tracker finds room for a result, or overwrites another one.
Appends(e) ==
    /\ Len(log_stat_buffer) < MaxBuffer
    /\ log_stat_buffer' = Append(log_stat_buffer, e)
    /\ lost' = lost /\ overrun' = overrun
Overwrites(e) ==
    /\ Len(log_stat_buffer) = MaxBuffer
    /\ log_stat_buffer' = [log_stat_buffer EXCEPT ![log_stat_header + 1] = e]
    /\ overrun' = TRUE
    /\ LET old == log_stat_buffer[log_stat_header + 1]
       IN  lost' = [lost EXCEPT ![old[1]] = @ \cup {old[2]}]

\* What a result of cell i does to its pool.
Finished(i, n, T) ==
    /\ n \in FirstTti .. LastTti /\ T \in FirstTti .. LastTti + 1
    /\ T = IF nextTti[i] < n + 1 THEN n + 1 ELSE nextTti[i]
    /\ nextTti' = [nextTti EXCEPT ![i] = T]
    /\ inFlight' = [inFlight EXCEPT ![i] = (@ \cup (nextTti[i] .. n)) \ {n}]
    /\ Appends(<<i, n>>) \/ Overwrites(<<i, n>>)
    /\ log_stat_header' = (log_stat_header + 1) % MaxBuffer

(* A result is one of a subframe within the bounds.                        *)
LEMMA FinishFacts ==
  ASSUME PoolTypes, NEW i \in Cells, NEW n \in Candidates(i), Finish(i, n)
  PROVE  \E T : Finished(i, n, T)
<1>1. FirstTti \in Nat /\ LastTti \in Nat /\ MaxLag \in Nat
  BY LoggerAssumption
<1>2. PICK t \in FirstTti .. LastTti + 1 : t = nextTti[i]
  BY DEF PoolTypes
<1>3. inFlight[i] \subseteq FirstTti .. LastTti
  BY DEF PoolTypes
<1>4. n \in FirstTti .. LastTti
  <2>1. CASE n \in inFlight[i]
    BY <1>3, <2>1
  <2>2. CASE n \notin inFlight[i]
    <3>1. n \in t .. t + MaxLag
      BY <1>2, <2>2 DEF Candidates
    <3>2. n <= LastTti
      BY <2>2 DEF Finish, InStep
    <3> QED
      BY <1>1, <1>2, <3>1, <3>2
  <2> QED
    BY <2>1, <2>2
<1>5. PICK T : T = Max({t, n + 1})
  OBVIOUS
<1>6. T = (IF t < n + 1 THEN n + 1 ELSE t) /\ T \in FirstTti .. LastTti + 1
  <2>1. t \in Nat /\ n + 1 \in Nat
    BY <1>1, <1>2, <1>4
  <2>2. T = (IF t < n + 1 THEN n + 1 ELSE t)
    BY <1>5, <2>1, MaxOfTwo
  <2> QED
    BY <1>1, <1>2, <1>4, <2>2
<1>7. nextTti' = [nextTti EXCEPT ![i] = T]
  BY <1>2, <1>5 DEF Finish, PoolTypes
<1>8. inFlight' = [inFlight EXCEPT ![i] = (@ \cup (nextTti[i] .. n)) \ {n}]
  BY DEF Finish
<1>9. /\ Appends(<<i, n>>) \/ Overwrites(<<i, n>>)
      /\ log_stat_header' = (log_stat_header + 1) % MaxBuffer
  BY DEF Finish, Store, Appends, Overwrites
<1> QED
  BY <1>2, <1>4, <1>6, <1>7, <1>8, <1>9 DEF Finished

(* A result keeps the types of the pools.                                  *)
LEMMA FinishTypes ==
  ASSUME PoolTypes, NEW i \in Cells, NEW n \in Candidates(i), Finish(i, n)
  PROVE  PoolTypes'
<1>1. PICK T : Finished(i, n, T)
  BY FinishFacts
<1>2. nextTti' \in [Cells -> FirstTti .. LastTti + 1]
  BY <1>1 DEF Finished, PoolTypes
<1>3. inFlight' \in [Cells -> SUBSET (FirstTti .. LastTti)]
  <2>1. PICK s \in FirstTti .. LastTti + 1 : s = nextTti[i]
    BY DEF PoolTypes
  <2>2. inFlight[i] \subseteq FirstTti .. LastTti
    BY DEF PoolTypes
  <2>3. PICK F : F = (inFlight[i] \cup (s .. n)) \ {n}
    OBVIOUS
  <2>4. F \subseteq FirstTti .. LastTti
    BY <1>1, <2>2, <2>3, LoggerAssumption DEF Finished
  <2>5. inFlight' = [inFlight EXCEPT ![i] = F]
    BY <1>1, <2>1, <2>3 DEF Finished, PoolTypes
  <2> QED
    BY <2>4, <2>5 DEF PoolTypes
<1>4. /\ log_stat_buffer' \in Seq(Entries) /\ Len(log_stat_buffer') <= MaxBuffer
      /\ lost' \in [Cells -> SUBSET (FirstTti .. LastTti)] /\ overrun' \in BOOLEAN
  <2>0. PICK u, e, h : u = log_stat_buffer /\ e = <<i, n>> /\ h = log_stat_header + 1
    OBVIOUS
  <2>1. e \in Entries
    BY <1>1, <2>0 DEF Finished, Entries
  <2>2. /\ u \in Seq(Entries) /\ Len(u) \in Nat /\ Len(u) <= MaxBuffer /\ MaxBuffer \in Nat \ {0}
        /\ h \in 1 .. MaxBuffer
    BY <2>0, LoggerAssumption, LenProperties DEF PoolTypes
  <2>3. CASE Appends(e)
    <3>1. /\ log_stat_buffer' = Append(u, e) /\ Len(u) < MaxBuffer /\ lost' = lost /\ overrun' = overrun
      BY <2>0, <2>3 DEF Appends
    <3>2. Append(u, e) \in Seq(Entries) /\ Len(Append(u, e)) = Len(u) + 1
      BY <2>1, <2>2, AppendProperties
    <3> QED
      BY <2>2, <3>1, <3>2 DEF PoolTypes
  <2>4. CASE Overwrites(e)
    <3>1. /\ Len(u) = MaxBuffer /\ log_stat_buffer' = [u EXCEPT ![h] = e] /\ overrun' = TRUE
          /\ lost' = [lost EXCEPT ![u[h][1]] = @ \cup {u[h][2]}]
      BY <2>0, <2>4 DEF Overwrites
    <3>2. [u EXCEPT ![h] = e] \in Seq(Entries) /\ Len([u EXCEPT ![h] = e]) = Len(u)
      BY <2>1, <2>2, <3>1, ExceptSeq
    <3>3. u[h] \in Entries
      BY <2>2, <3>1, ElementOfSeq
    <3>4. PICK j \in Cells, m \in FirstTti .. LastTti : u[h] = <<j, m>>
      BY <3>3 DEF Entries
    <3>5. lost' = [lost EXCEPT ![j] = @ \cup {m}]
      BY <3>1, <3>4
    <3>6. lost' \in [Cells -> SUBSET (FirstTti .. LastTti)]
      BY <3>4, <3>5 DEF PoolTypes
    <3> QED
      BY <2>2, <3>1, <3>2, <3>6
  <2> QED
    BY <1>1, <2>0, <2>3, <2>4 DEF Finished
<1>5. log_stat_header' \in 0 .. MaxBuffer - 1
  <2>1. MaxBuffer \in Nat \ {0} /\ log_stat_header + 1 \in Int
    BY LoggerAssumption DEF PoolTypes
  <2>2. (log_stat_header + 1) % MaxBuffer \in 0 .. MaxBuffer - 1
    BY <2>1, EarlyRemainder
  <2> QED
    BY <1>1, <2>2 DEF Finished
<1> QED
  BY <1>2, <1>3, <1>4, <1>5 DEF PoolTypes

(* So does a loss.                                                         *)
LEMMA LoseTypes ==
  ASSUME PoolTypes, NEW i \in Cells, Lose(i)
  PROVE  PoolTypes'
<1>1. PICK t \in FirstTti .. LastTti + 1 : t = nextTti[i]
  BY DEF PoolTypes
<1>2. t <= LastTti /\ FirstTti \in Nat /\ LastTti \in Nat
  BY <1>1, LoggerAssumption DEF Lose, InStep
<1>3. t + 1 \in FirstTti .. LastTti + 1 /\ t \in FirstTti .. LastTti
  BY <1>1, <1>2
<1>4. nextTti' = [nextTti EXCEPT ![i] = t + 1] /\ lost' = [lost EXCEPT ![i] = @ \cup {t}]
  BY <1>1 DEF Lose, PoolTypes
<1>5. /\ inFlight' = inFlight /\ log_stat_buffer' = log_stat_buffer
      /\ log_stat_header' = log_stat_header /\ overrun' = overrun
  BY DEF Lose
<1> QED
  BY <1>3, <1>4, <1>5 DEF PoolTypes

\* The slots of cell i that are logged, and what they hold.
SpanOf(i, rings) == Span(log_config[i].curr_header, rings[i].cell_header)
Out(rings) == [i \in Cells |-> [j \in DOMAIN SpanOf(i, rings) |-> rings[i].content[SpanOf(i, rings)[j]]]]

(* What is logged are contents of slots.                                   *)
LEMMA OutType ==
  ASSUME NEW rings \in [Cells -> Rings], log_config \in [Cells -> Configs]
  PROVE  /\ Out(rings) \in [Cells -> Seq(Vals)]
         /\ \A i \in Cells :
                /\ Dist(log_config[i].curr_header, rings[i].cell_header) \in Nat
                /\ Len(Out(rings)[i]) = Dist(log_config[i].curr_header, rings[i].cell_header)
                /\ \A j \in 1 .. Len(Out(rings)[i]) :
                       Out(rings)[i][j] = rings[i].content[(log_config[i].curr_header + j) % BufSize]
<1>1. ASSUME NEW i \in Cells
      PROVE  LET d == Dist(log_config[i].curr_header, rings[i].cell_header) IN
             /\ d \in Nat /\ Out(rings)[i] \in Seq(Vals) /\ Len(Out(rings)[i]) = d
             /\ \A j \in 1 .. d : Out(rings)[i][j] = rings[i].content[(log_config[i].curr_header + j) % BufSize]
  <2>1. PICK c \in Slots, h \in Slots : c = log_config[i].curr_header /\ h = rings[i].cell_header
    BY DEF Configs, Rings
  <2>2. PICK d : d = Dist(c, h)
    OBVIOUS
  <2>3. BufSize \in Nat \ {0} /\ c \in Int /\ h \in Int
    BY RingConstants DEF Slots
  <2>4. d \in Nat
    <3>1. PICK y \in Int : y = h - c
      BY <2>3
    <3>2. y % BufSize \in Slots
      BY <3>1, SlotOf
    <3> QED
      BY <2>2, <2>3, <3>1, <3>2 DEF Dist, Slots
  <2>5. SpanOf(i, rings) = [k \in 1 .. d |-> (c + k) % BufSize]
    BY <2>1, <2>2 DEF SpanOf, Span
  <2>6. PICK g : g = [j \in 1 .. d |-> rings[i].content[(c + j) % BufSize]]
    OBVIOUS
  <2>7. Out(rings)[i] = g
    BY <2>5, <2>6 DEF Out
  <2>8. ASSUME NEW j \in 1 .. d PROVE rings[i].content[(c + j) % BufSize] \in Vals
    <3>1. PICK y \in Int : y = c + j
      BY <2>3, <2>4
    <3>2. y % BufSize \in Slots
      BY <3>1, SlotOf
    <3>3. rings[i].content \in [Slots -> Vals]
      BY DEF Rings
    <3> QED
      BY <3>1, <3>2, <3>3
  <2>9. g \in [1 .. d -> Vals] /\ \A j \in 1 .. d : g[j] = rings[i].content[(c + j) % BufSize]
    BY <2>6, <2>8
  <2>10. g \in Seq(Vals) /\ Len(g) = d
    BY <2>4, <2>9, IsASeq
  <2> QED
    BY <2>1, <2>2, <2>4, <2>7, <2>9, <2>10
<1>2. Out(rings) \in [Cells -> Seq(Vals)]
  BY <1>1 DEF Out
<1> QED
  BY <1>1, <1>2

(* A round that logs.                                                      *)
LEMMA LogCellsFacts ==
  ASSUME NEW rings, LogCells(rings)
  PROVE  /\ all_cell_ready /\ all_cell_ready' = all_cell_ready /\ cell_status' = rings
         /\ logged' = Out(rings)
         /\ log_config' = [i \in Cells |-> [log_config[i] EXCEPT !.curr_header = rings[i].cell_header,
                                                                 !.tti = @ + Len(Out(rings)[i])]]
         /\ isFirstCall' = [k \in Kinds |-> LogMultiCell(k, Out(rings)).first]
         /\ \/ file' = [k \in Kinds |-> LogMultiCell(k, Out(rings)).file]
            \/ file' = [k \in Kinds |-> [i \in Cells |-> "empty"]]
<1> DEFINE span == [i \in Cells |-> Span(log_config[i].curr_header, rings[i].cell_header)]
           out == [i \in Cells |-> [j \in DOMAIN span[i] |-> rings[i].content[span[i][j]]]]
           after == [k \in Kinds |-> LogMultiCell(k, out)]
<1>1. \A i \in Cells : span[i] = SpanOf(i, rings)
  BY DEF SpanOf
<1>2. out = Out(rings)
  BY <1>1 DEF Out
<1>3. \A k \in Kinds : after[k] = LogMultiCell(k, Out(rings))
  <2> HIDE DEF out
  <2> QED
    BY <1>2
<1>4. /\ all_cell_ready /\ all_cell_ready' = all_cell_ready /\ cell_status' = rings
      /\ logged' = out
      /\ log_config' = [i \in Cells |-> [log_config[i] EXCEPT !.curr_header = rings[i].cell_header,
                                                              !.tti = @ + Len(out[i])]]
      /\ isFirstCall' = [k \in Kinds |-> after[k].first]
      /\ \/ file' = [k \in Kinds |-> after[k].file]
         \/ file' = [k \in Kinds |-> [i \in Cells |-> "empty"]]
  BY DEF LogCells
<1> HIDE DEF span, out, after
<1> QED
  BY <1>2, <1>3, <1>4

(* The rings with the flags cleared.                                       *)
LEMMA ClearedType ==
  ASSUME NEW rings \in [Cells -> Rings]
  PROVE  /\ Cleared(rings) \in [Cells -> Rings] /\ 0 \in Cells
         /\ Cleared(rings)[0] = [rings[0] EXCEPT !.filled = @ \ Cells]
         /\ \A i \in Cells : i # 0 => Cleared(rings)[i] = rings[i]
<1>1. 0 \in Cells
  BY LoggerAssumption DEF Cells
<1>2. PICK r \in Rings : r = rings[0]
  BY <1>1
<1>3. PICK q : q = [r EXCEPT !.filled = @ \ Cells]
  OBVIOUS
<1>4. q \in Rings
  BY <1>3 DEF Rings
<1>5. Cleared(rings) = [rings EXCEPT ![0] = q]
  BY <1>1, <1>2, <1>3 DEF Cleared, Rings
<1> QED
  BY <1>1, <1>2, <1>3, <1>4, <1>5

(* The logger's state keeps its type.                                      *)
LEMMA LogTypes ==
  ASSUME Types, Log
  PROVE  RingTypes' /\ FilesOk'
<1>1. PICK rings \in [Cells -> Rings] : LogNothing(rings) \/ LogFirst(rings) \/ LogCells(rings)
  <2>1. Filled \in [Cells -> Rings]
    BY FilledType DEF Types, PoolTypes, RingTypes
  <2> QED
    BY <2>1 DEF Log
<1>2. [i \in Cells |-> << >>] \in [Cells -> Seq(Vals)]
  BY EmptySeq
<1>3. CASE LogNothing(rings)
  <2>1. RingTypes'
    BY <1>2, <1>3 DEF LogNothing, Types, RingTypes
  <2>2. FilesOk'
    BY <1>3 DEF LogNothing, Types, FilesOk, LogsNow
  <2> QED
    BY <2>1, <2>2
<1>4. CASE LogFirst(rings)
  <2>1. Cleared(rings) \in [Cells -> Rings]
    BY ClearedType
  <2>2. ASSUME NEW i \in Cells
        PROVE  [cell_ready |-> TRUE, curr_header |-> rings[i].cell_header, tti |-> rings[i].head] \in Configs
    BY DEF Rings, Configs
  <2>3. RingTypes'
    BY <1>2, <1>4, <2>1, <2>2 DEF LogFirst, Types, RingTypes
  <2>4. FilesOk'
    BY <1>4 DEF LogFirst, Types, FilesOk, LogsNow
  <2> QED
    BY <2>3, <2>4
<1>5. CASE LogCells(rings)
  <2>1. PICK out : out = Out(rings)
    OBVIOUS
  <2>2. out \in [Cells -> Seq(Vals)]
    BY <2>1, OutType DEF Types, RingTypes
  <2>3. /\ all_cell_ready' = all_cell_ready /\ cell_status' = rings /\ logged' = out
        /\ log_config' = [i \in Cells |-> [log_config[i] EXCEPT !.curr_header = rings[i].cell_header,
                                                                !.tti = @ + Len(out[i])]]
        /\ isFirstCall' = [k \in Kinds |-> LogMultiCell(k, out).first]
        /\ \/ file' = [k \in Kinds |-> LogMultiCell(k, out).file]
           \/ file' = [k \in Kinds |-> [i \in Cells |-> "empty"]]
    BY <1>5, <2>1, LogCellsFacts
  <2>4. ASSUME NEW i \in Cells
        PROVE  [log_config[i] EXCEPT !.curr_header = rings[i].cell_header, !.tti = @ + Len(out[i])] \in Configs
    <3>1. Len(out[i]) \in Nat /\ rings[i].cell_header \in Slots
      BY <2>2, LenProperties DEF Rings
    <3>2. PICK c \in Configs : c = log_config[i]
      BY DEF Types, RingTypes
    <3>3. c.tti + Len(out[i]) \in Int
      BY <3>1 DEF Configs
    <3>4. [c EXCEPT !.curr_header = rings[i].cell_header, !.tti = @ + Len(out[i])] \in Configs
      BY <3>1, <3>3 DEF Configs
    <3> QED
      BY <3>2, <3>4
  <2>5. RingTypes'
    BY <2>2, <2>3, <2>4 DEF Types, RingTypes
  <2>6. FilesOk'
    <3>1. ASSUME NEW k \in Kinds PROVE LogMultiCell(k, out) \in Logs
      BY <2>2, LogMultiCellOk DEF Types, FilesOk
    <3>2. ASSUME NEW k \in Kinds
          PROVE  /\ LogMultiCell(k, out).first \in BOOLEAN
                 /\ LogMultiCell(k, out).file \in [Cells -> {"empty", "array"}]
                 /\ LogMultiCell(k, out).first => \A i \in Cells : LogMultiCell(k, out).file[i] = "empty"
      BY <3>1 DEF Logs
    <3>3. isFirstCall' \in [Kinds -> BOOLEAN] /\ file' \in [Kinds -> [Cells -> {"empty", "array"}]]
      <4>1. isFirstCall' \in [Kinds -> BOOLEAN]
        BY <2>3, <3>2
      <4>2. CASE file' = [k \in Kinds |-> LogMultiCell(k, out).file]
        BY <3>2, <4>1, <4>2
      <4>3. CASE file' = [k \in Kinds |-> [i \in Cells |-> "empty"]]
        BY <4>1, <4>3
      <4> QED
        BY <2>3, <4>2, <4>3
    <3>4. ASSUME NEW k \in Kinds, isFirstCall'[k], NEW i \in Cells PROVE file'[k][i] = "empty"
      BY <2>3, <3>2, <3>4
    <3> QED
      BY <3>3, <3>4 DEF FilesOk, LogsNow, Logs
  <2> QED
    BY <2>5, <2>6
<1> QED
  BY <1>1, <1>3, <1>4, <1>5

(* The types hold at first.                                                *)
LEMMA InitTypes ==
  ASSUME Init
  PROVE  Types
<1>1. FirstTti \in Nat /\ LastTti \in Nat /\ FirstTti <= LastTti
  BY LoggerAssumption
<1>2. PoolTypes
  <2>1. FirstTti \in FirstTti .. LastTti + 1
    BY <1>1
  <2>2. MaxBuffer \in Nat /\ 0 \in 0 .. MaxBuffer - 1 /\ Len(<< >>) = 0
    BY LoggerAssumption
  <2>3. /\ nextTti \in [Cells -> FirstTti .. LastTti + 1] /\ overrun \in BOOLEAN
        /\ inFlight \in [Cells -> SUBSET (FirstTti .. LastTti)]
        /\ lost \in [Cells -> SUBSET (FirstTti .. LastTti)]
    BY <2>1 DEF Init
  <2>4. /\ log_stat_buffer \in Seq(Entries) /\ log_stat_buffer = << >>
        /\ log_stat_header \in 0 .. MaxBuffer - 1
    BY <2>2, EmptySeq DEF Init
  <2>5. Len(log_stat_buffer) <= MaxBuffer
    BY <2>2, <2>4
  <2> QED
    BY <2>3, <2>4, <2>5 DEF PoolTypes
<1>3. 0 \in Slots /\ EmptyRing \in Rings
  <2>1. 0 \in Slots /\ BufSize \in Nat /\ 0 \in 0 .. BufSize
    BY RingConstants DEF Slots
  <2>2. [s \in Slots |-> None] \in [Slots -> Vals] /\ None \in Int
    BY DEF Vals, None
  <2>3. << >> \in Seq(Vals)
    BY EmptySeq
  <2> QED
    BY <2>1, <2>2, <2>3 DEF EmptyRing, Rings
<1>4. RingTypes
  <2>1. [i \in Cells |-> << >>] \in [Cells -> Seq(Vals)]
    BY EmptySeq
  <2>2. [cell_ready |-> FALSE, curr_header |-> 0, tti |-> None] \in Configs
    BY <1>3 DEF Configs, None
  <2> QED
    BY <1>3, <2>1, <2>2 DEF Init, RingTypes
<1>5. FilesOk
  <2>1. file \in [Kinds -> [Cells -> {"empty", "array"}]] /\ isFirstCall \in [Kinds -> BOOLEAN]
    BY DEF Init
  <2>2. ASSUME NEW k \in Kinds PROVE LogsNow(k) \in Logs
    BY DEF Init, LogsNow, Logs
  <2> QED
    BY <2>1, <2>2 DEF FilesOk
<1> QED
  BY <1>2, <1>4, <1>5 DEF Types

(* Every step keeps them.                                                  *)
LEMMA StepTypes ==
  ASSUME Types, [Next]_vars
  PROVE  Types'
<1>1. ASSUME NEW i \in Cells, NEW n \in Candidates(i), Finish(i, n) PROVE Types'
  <2>1. PoolTypes'
    BY <1>1, FinishTypes DEF Types
  <2>2. RingTypes' /\ FilesOk'
    BY <1>1 DEF Finish, loggerVars, Types, RingTypes, FilesOk, LogsNow
  <2> QED
    BY <2>1, <2>2 DEF Types
<1>2. ASSUME NEW i \in Cells, Lose(i) PROVE Types'
  <2>1. PoolTypes'
    BY <1>2, LoseTypes DEF Types
  <2>2. RingTypes' /\ FilesOk'
    BY <1>2 DEF Lose, loggerVars, Types, RingTypes, FilesOk, LogsNow
  <2> QED
    BY <2>1, <2>2 DEF Types
<1>3. CASE Log
  <2>1. PoolTypes'
    <3>1. MaxBuffer \in Nat /\ 0 \in 0 .. MaxBuffer - 1 /\ Len(<< >>) = 0
      BY LoggerAssumption
    <3> QED
      BY <1>3, <3>1, EmptySeq DEF Log, Types, PoolTypes
  <2> QED
    BY <1>3, <2>1, LogTypes DEF Types
<1>4. CASE UNCHANGED vars
  BY <1>4 DEF vars, Types, PoolTypes, RingTypes, FilesOk, LogsNow
<1> QED
  BY <1>1, <1>2, <1>3, <1>4 DEF Next, Done, Candidates

(* The variables of the logger and of the pools keep their types: every    *)
(* slot index dci_log.c and dci_ring_buffer.c compute is one of the ring.  *)
THEOREM LoggerTypeCorrect == Spec => []TypeOK
<1>1. Types => TypeOK
  <2> SUFFICES ASSUME Types PROVE TypeOK
    OBVIOUS
  <2>1. ASSUME NEW i \in Cells
        PROVE  /\ nextTti[i] \in FirstTti .. LastTti + 1
               /\ inFlight[i] \subseteq FirstTti .. LastTti /\ lost[i] \subseteq FirstTti .. LastTti
    BY DEF Types, PoolTypes
  <2>2. ASSUME NEW i \in Cells
        PROVE  /\ cell_status[i].filled \subseteq Slots
               /\ cell_status[i].content \in [Slots -> {None} \cup (FirstTti .. LastTti)]
               /\ cell_status[i].cell_header \in Slots /\ cell_status[i].most_recent_sf \in Slots
               /\ cell_status[i].nof_logged_dci \in 0 .. BufSize
    BY DEF Types, RingTypes, Rings, Vals
  <2>3. ASSUME NEW i \in Cells PROVE log_config[i].curr_header \in Slots
    BY DEF Types, RingTypes, Configs
  <2>4. file \in [Kinds -> [Cells -> {"empty", "[]", "array", "broken"}]]
    BY DEF Types, FilesOk
  <2>5. /\ all_cell_ready \in BOOLEAN /\ isFirstCall \in [Kinds -> BOOLEAN]
        /\ log_stat_buffer \in Seq(Cells \X (FirstTti .. LastTti))
        /\ Len(log_stat_buffer) <= MaxBuffer /\ log_stat_header \in 0 .. MaxBuffer - 1
    BY DEF Types, PoolTypes, RingTypes, FilesOk, Entries
  <2> QED
    BY <2>1, <2>2, <2>3, <2>4, <2>5 DEF TypeOK
<1> QED
  BY <1>1, InitTypes, StepTypes, PTL DEF Spec

(* Whatever the pools do and whenever the files are replaced, each log     *)
(* file is a JSON array or empty: the static flag of a log function is up  *)
(* only while all the files it writes to are empty (log_dl_subframe,       *)
(* log_ul_subframe, log_phich_subframe).                                   *)
THEOREM LogsWellFormed == Spec => []WellFormed
<1>1. Types => WellFormed
  BY DEF Types, FilesOk, WellFormed
<1> QED
  BY <1>1, InitTypes, StepTypes, PTL DEF Spec

-----------------------------------------------------------------------------
(* The pools and the results that wait.                                    *)

\* A subframe handed to pool i is being decoded, lost, waiting or received.
PoolOf(i) ==
    /\ inFlight[i] \subseteq FirstTti .. nextTti[i] - 1 /\ lost[i] \subseteq FirstTti .. nextTti[i] - 1
    /\ inFlight[i] \cap lost[i] = {}
    /\ Cardinality(lost[i]) <= MaxLost[i]
Pools == \A i \in Cells : PoolOf(i)

Queued ==
    \A b \in 1 .. Len(log_stat_buffer) :
        /\ log_stat_buffer[b][2] < nextTti[log_stat_buffer[b][1]]
        /\ log_stat_buffer[b][2] \notin inFlight[log_stat_buffer[b][1]]

\* Received, spelled out: t subframes were handed out, F are being decoded, L
\* are lost and u are the results that wait.
Got(i, t, F, L, u) == {m \in FirstTti .. t - 1 : m \notin F /\ m \notin L /\ m \notin TakenOf(u, i, Len(u))}

(* What waits for the logger.                                              *)
LEMMA WaitingTaken ==
  ASSUME NEW u \in Seq(Entries), NEW i \in Cells
  PROVE  {b[2] : b \in {x \in ToSet(u) : x[1] = i}} = TakenOf(u, i, Len(u))
<1>1. Len(u) \in Nat /\ DOMAIN u = 1 .. Len(u)
  BY LenProperties
<1>2. ASSUME NEW m \in TakenOf(u, i, Len(u)) PROVE m \in {b[2] : b \in {x \in ToSet(u) : x[1] = i}}
  <2>1. PICK a \in 1 .. Len(u) : u[a] = <<i, m>>
    BY DEF TakenOf
  <2>2. <<i, m>> \in ToSet(u)
    BY <1>1, <2>1 DEF ToSet
  <2> QED
    BY <2>2
<1>3. ASSUME NEW e \in ToSet(u), e[1] = i PROVE e[2] \in TakenOf(u, i, Len(u))
  <2>1. PICK a \in 1 .. Len(u) : u[a] = e
    BY <1>1 DEF ToSet
  <2>2. e \in Entries
    BY <2>1, ElementOfSeq
  <2> QED
    BY <1>3, <2>1, <2>2 DEF TakenOf, Entries
<1> QED
  BY <1>2, <1>3

(* Received, before and after a step.                                      *)
LEMMA ReceivedGot ==
  ASSUME PoolTypes, NEW i \in Cells
  PROVE  Received(i) = Got(i, nextTti[i], inFlight[i], lost[i], log_stat_buffer)
<1>1. Waiting(i) = TakenOf(log_stat_buffer, i, Len(log_stat_buffer))
  BY WaitingTaken DEF Waiting, PoolTypes
<1> QED
  BY <1>1 DEF Received, Got

(* The same after a step.                                                  *)
LEMMA ReceivedGotNext ==
  ASSUME PoolTypes', NEW i \in Cells
  PROVE  Received(i)' = Got(i, nextTti'[i], inFlight'[i], lost'[i], log_stat_buffer')
<1>1. PICK u : u = log_stat_buffer'
  OBVIOUS
<1>2. u \in Seq(Entries)
  BY <1>1 DEF PoolTypes
<1>3. Waiting(i)' = TakenOf(u, i, Len(u))
  BY <1>1, <1>2, WaitingTaken DEF Waiting
<1> QED
  BY <1>1, <1>3 DEF Received, Got

\* v is u and one more entry e.
Appended(u, e, v) ==
    /\ v \in Seq(Entries) /\ Len(v) = Len(u) + 1 /\ Len(u) \in Nat
    /\ v[Len(v)] = e /\ \A b \in 1 .. Len(u) : v[b] = u[b]
    /\ \A i \in Cells, b \in 0 .. Len(u) : TakenOf(v, i, b) = TakenOf(u, i, b)
    /\ TakenOf(v, e[1], Len(v)) = TakenOf(u, e[1], Len(u)) \cup {e[2]}
    /\ \A i \in Cells : i # e[1] => TakenOf(v, i, Len(v)) = TakenOf(u, i, Len(u))

(* The entries before a new one.                                           *)
LEMMA TakenAppend ==
  ASSUME NEW u \in Seq(Entries), NEW e \in Entries, NEW v, v = Append(u, e)
  PROVE  Appended(u, e, v)
<1>1. /\ v \in Seq(Entries) /\ Len(v) = Len(u) + 1 /\ Len(u) \in Nat
      /\ v[Len(v)] = e /\ \A b \in 1 .. Len(u) : v[b] = u[b]
  BY AppendProperties, LenProperties
<1>2. ASSUME NEW i \in Cells, NEW b \in 0 .. Len(u) PROVE TakenOf(v, i, b) = TakenOf(u, i, b)
  <2>1. \A a \in 1 .. b : v[a] = u[a]
    BY <1>1
  <2> QED
    BY <2>1 DEF TakenOf
<1>3. PICK c : c = Len(v)
  OBVIOUS
<1>4. c \in 1 .. Len(v) /\ c - 1 = Len(u) /\ v[c] = e
  BY <1>1, <1>3
<1>5. /\ TakenOf(v, e[1], c) = TakenOf(v, e[1], Len(u)) \cup {e[2]} /\ e[1] \in Cells
      /\ \A i \in Cells : i # e[1] => TakenOf(v, i, c) = TakenOf(v, i, Len(u))
  <2>1. PICK d : d = c - 1
    OBVIOUS
  <2>2. /\ TakenOf(v, v[c][1], c) = TakenOf(v, v[c][1], c - 1) \cup {v[c][2]} /\ v[c][1] \in Cells
        /\ \A i \in Cells : i # v[c][1] => TakenOf(v, i, c) = TakenOf(v, i, c - 1)
    BY <1>1, <1>4, TakenNext
  <2>3. /\ TakenOf(v, v[c][1], c) = TakenOf(v, v[c][1], d) \cup {v[c][2]} /\ v[c][1] \in Cells
        /\ \A i \in Cells : i # v[c][1] => TakenOf(v, i, c) = TakenOf(v, i, d)
    BY <2>1, <2>2
  <2>4. d = Len(u) /\ v[c] = e
    BY <1>4, <2>1
  <2> QED
    BY <2>3, <2>4
<1>6. \A i \in Cells : TakenOf(v, i, Len(u)) = TakenOf(u, i, Len(u))
  BY <1>1, <1>2
<1> QED
  BY <1>1, <1>2, <1>3, <1>5, <1>6 DEF Appended

(* A result that waits is in the buffer.                                   *)
LEMMA TakenWhere ==
  ASSUME NEW u \in Seq(Entries), NEW i \in Cells, NEW m \in TakenOf(u, i, Len(u))
  PROVE  \E b \in 1 .. Len(u) : u[b] = <<i, m>> /\ u[b][1] = i /\ u[b][2] = m
BY DEF TakenOf

(* A result of cell i waits first: nothing is received by it.              *)
LEMMA FinishReceived ==
  ASSUME PoolTypes, Pools, Queued, NEW i \in Cells, NEW n \in Candidates(i), Finish(i, n),
         Appends(<<i, n>>)
  PROVE  /\ \A j \in Cells : Received(j)' = Received(j)
         /\ n \notin Received(i) /\ n \notin lost[i] /\ n \notin TakenOf(log_stat_buffer, i, Len(log_stat_buffer))
<1>1. PICK T : Finished(i, n, T)
  BY FinishFacts
<1>2. PICK u, v : u \in Seq(Entries) /\ u = log_stat_buffer /\ v = Append(u, <<i, n>>)
  BY DEF PoolTypes
<1>3. PICK t \in FirstTti .. LastTti + 1 : t = nextTti[i]
  BY DEF PoolTypes
<1>4. PICK F : F = (inFlight[i] \cup (t .. n)) \ {n}
  OBVIOUS
<1>5. /\ nextTti' = [nextTti EXCEPT ![i] = T] /\ inFlight' = [inFlight EXCEPT ![i] = F]
      /\ lost' = lost /\ log_stat_buffer' = v
      /\ n \in FirstTti .. LastTti /\ T = IF t < n + 1 THEN n + 1 ELSE t
  BY <1>1, <1>2, <1>3, <1>4 DEF Finished, Appends, PoolTypes
<1>6. <<i, n>> \in Entries /\ <<i, n>>[1] = i /\ <<i, n>>[2] = n
  BY <1>5 DEF Entries
<1>7. /\ Len(v) = Len(u) + 1 /\ Len(u) \in Nat
      /\ TakenOf(v, i, Len(v)) = TakenOf(u, i, Len(u)) \cup {n}
      /\ \A j \in Cells : j # i => TakenOf(v, j, Len(v)) = TakenOf(u, j, Len(u))
  <2>1. PICK e \in Entries : v = Append(u, e) /\ e[1] = i /\ e[2] = n
    BY <1>2, <1>6
  <2>2. Appended(u, e, v)
    BY <1>2, <2>1, TakenAppend
  <2> QED
    BY <2>1, <2>2 DEF Appended
<1>8. n \in inFlight[i] \/ n >= t
  BY <1>3 DEF Finish
<1>9. /\ inFlight[i] \subseteq FirstTti .. t - 1 /\ lost[i] \subseteq FirstTti .. t - 1
      /\ inFlight[i] \cap lost[i] = {}
  BY <1>3 DEF Pools, PoolOf
<1>10. FirstTti \in Nat /\ LastTti \in Nat
  BY LoggerAssumption
<1>11. n \notin lost[i]
  BY <1>3, <1>5, <1>8, <1>9, <1>10
<1>12. n \notin TakenOf(u, i, Len(u))
  <2> SUFFICES ASSUME n \in TakenOf(u, i, Len(u)) PROVE FALSE
    OBVIOUS
  <2>1. PICK b \in 1 .. Len(u) : u[b][1] = i /\ u[b][2] = n
    BY <1>2, TakenWhere
  <2>2. n < t /\ n \notin inFlight[i]
    BY <1>2, <1>3, <2>1 DEF Queued
  <2> QED
    BY <1>3, <1>5, <1>8, <1>10, <2>2
<1>13. Received(i) = Got(i, t, inFlight[i], lost[i], u)
  BY <1>2, <1>3, ReceivedGot
<1>14. n \notin Received(i)
  BY <1>3, <1>5, <1>8, <1>10, <1>13 DEF Got
<1>15. PoolTypes'
  BY FinishTypes
<1>16. Received(i)' = Got(i, T, F, lost[i], v)
  <2>1. nextTti'[i] = T /\ inFlight'[i] = F
    BY <1>5 DEF PoolTypes
  <2> QED
    BY <1>5, <1>15, <2>1, ReceivedGotNext
<1>17. Got(i, T, F, lost[i], v) = Got(i, t, inFlight[i], lost[i], u)
  <2>1. ASSUME NEW m \in Int
        PROVE  m \in Got(i, T, F, lost[i], v) <=> m \in Got(i, t, inFlight[i], lost[i], u)
    <3>1. m \in TakenOf(v, i, Len(v)) <=> m \in TakenOf(u, i, Len(u)) \/ m = n
      BY <1>7
    <3>2. m \in F <=> (m \in inFlight[i] \/ m \in t .. n) /\ m # n
      BY <1>4
    <3> QED
      BY <1>3, <1>5, <1>8, <1>10, <3>1, <3>2 DEF Got
  <2> QED
    BY <1>10, <2>1 DEF Got
<1>18. ASSUME NEW j \in Cells, j # i PROVE Received(j)' = Received(j)
  <2>1. nextTti'[j] = nextTti[j] /\ inFlight'[j] = inFlight[j] /\ lost'[j] = lost[j]
    BY <1>5, <1>18 DEF PoolTypes
  <2>2. TakenOf(v, j, Len(v)) = TakenOf(u, j, Len(u))
    BY <1>7, <1>18
  <2>3. Received(j) = Got(j, nextTti[j], inFlight[j], lost[j], u)
    BY <1>2, ReceivedGot
  <2>4. Received(j)' = Got(j, nextTti[j], inFlight[j], lost[j], v)
    BY <1>5, <1>15, <2>1, ReceivedGotNext
  <2> QED
    BY <2>2, <2>3, <2>4 DEF Got
<1> QED
  BY <1>2, <1>11, <1>12, <1>13, <1>14, <1>16, <1>17, <1>18

(* The pools after a result.                                               *)
LEMMA FinishPools ==
  ASSUME PoolTypes, Pools, Queued, NEW i \in Cells, NEW n \in Candidates(i), Finish(i, n),
         Appends(<<i, n>>)
  PROVE  Pools' /\ Queued'
<1>1. PICK T : Finished(i, n, T)
  BY FinishFacts
<1>2. PICK u, v : u \in Seq(Entries) /\ u = log_stat_buffer /\ v = Append(u, <<i, n>>)
  BY DEF PoolTypes
<1>3. PICK t \in FirstTti .. LastTti + 1 : t = nextTti[i]
  BY DEF PoolTypes
<1>4. PICK F : F = (inFlight[i] \cup (t .. n)) \ {n}
  OBVIOUS
<1>5. /\ nextTti' = [nextTti EXCEPT ![i] = T] /\ inFlight' = [inFlight EXCEPT ![i] = F]
      /\ lost' = lost /\ log_stat_buffer' = v
      /\ n \in FirstTti .. LastTti /\ T = IF t < n + 1 THEN n + 1 ELSE t
  BY <1>1, <1>2, <1>3, <1>4 DEF Finished, Appends, PoolTypes
<1>6. <<i, n>> \in Entries /\ <<i, n>>[1] = i /\ <<i, n>>[2] = n
  BY <1>5 DEF Entries
<1>7. Len(v) = Len(u) + 1 /\ Len(u) \in Nat /\ v[Len(v)] = <<i, n>> /\ \A b \in 1 .. Len(u) : v[b] = u[b]
  <2>1. Appended(u, <<i, n>>, v)
    BY <1>2, <1>6, TakenAppend
  <2> QED
    BY <2>1 DEF Appended
<1>8. /\ inFlight[i] \subseteq FirstTti .. t - 1 /\ lost[i] \subseteq FirstTti .. t - 1
      /\ inFlight[i] \cap lost[i] = {}
      /\ Cardinality(lost[i]) <= MaxLost[i]
  BY <1>3 DEF Pools, PoolOf
<1>9. FirstTti \in Nat /\ LastTti \in Nat
  BY LoggerAssumption
<1>10. /\ F \subseteq FirstTti .. T - 1 /\ lost[i] \subseteq FirstTti .. T - 1
       /\ F \cap lost[i] = {}
  <2>2. ASSUME NEW m \in F PROVE m \in FirstTti .. T - 1 /\ m \notin lost[i]
    <3>1. (m \in inFlight[i] \/ m \in t .. n) /\ m # n
      BY <1>4
    <3> QED
      BY <1>3, <1>5, <1>8, <1>9, <3>1
  <2>3. lost[i] \subseteq FirstTti .. T - 1
    BY <1>3, <1>5, <1>8, <1>9
  <2> QED
    BY <2>2, <2>3
<1>11. Pools'
  <2>1. ASSUME NEW j \in Cells PROVE PoolOf(j)'
    <3>1. CASE j = i
      <4>1. nextTti'[i] = T /\ inFlight'[i] = F /\ lost'[i] = lost[i]
        BY <1>5 DEF PoolTypes
      <4> QED
        BY <1>8, <1>10, <3>1, <4>1 DEF PoolOf
    <3>2. CASE j # i
      <4>1. nextTti'[j] = nextTti[j] /\ inFlight'[j] = inFlight[j] /\ lost'[j] = lost[j]
        BY <1>5, <3>2 DEF PoolTypes
      <4>2. PoolOf(j)
        BY DEF Pools
      <4> QED
        BY <4>1, <4>2 DEF PoolOf
    <3> QED
      BY <3>1, <3>2
  <2> QED
    BY <2>1 DEF Pools
<1>12. ASSUME NEW b \in 1 .. Len(v) PROVE v[b][2] < nextTti'[v[b][1]] /\ v[b][2] \notin inFlight'[v[b][1]]
  <2>1. CASE b = Len(v)
    <3>1. v[b][1] = i /\ v[b][2] = n /\ nextTti'[i] = T /\ inFlight'[i] = F
      BY <1>5, <1>6, <1>7, <2>1 DEF PoolTypes
    <3>2. n < T /\ n \notin F
      BY <1>3, <1>4, <1>5, <1>9
    <3> QED
      BY <3>1, <3>2
  <2>2. CASE b # Len(v)
    <3>1. b \in 1 .. Len(u) /\ v[b] = u[b]
      BY <1>7, <2>2
    <3>2. PICK j \in Cells, m \in FirstTti .. LastTti : j = u[b][1] /\ m = u[b][2]
      BY <1>2, <3>1, TakenNext
    <3>3. m < nextTti[j] /\ m \notin inFlight[j]
      BY <1>2, <3>1, <3>2 DEF Queued
    <3>4. CASE j = i
      <4>1. m < t /\ m \notin inFlight[i]
        BY <1>3, <3>3, <3>4
      <4>2. nextTti'[i] = T /\ inFlight'[i] = F
        BY <1>5 DEF PoolTypes
      <4>3. m < T /\ m \notin F
        BY <1>3, <1>4, <1>5, <1>9, <4>1
      <4> QED
        BY <3>1, <3>2, <3>4, <4>2, <4>3
    <3>5. CASE j # i
      <4>1. nextTti'[j] = nextTti[j] /\ inFlight'[j] = inFlight[j]
        BY <1>5, <3>5 DEF PoolTypes
      <4> QED
        BY <3>1, <3>2, <3>3, <4>1
    <3> QED
      BY <3>4, <3>5
  <2> QED
    BY <2>1, <2>2
<1> QED
  BY <1>5, <1>11, <1>12 DEF Queued

(* The entries after a result.                                             *)
LEMMA FinishBuf ==
  ASSUME PoolTypes, Pools, Queued, BufOk, NEW i \in Cells, NEW n \in Candidates(i), Finish(i, n),
         Appends(<<i, n>>)
  PROVE  BufOk'
<1>1. PICK T : Finished(i, n, T)
  BY FinishFacts
<1>2. PICK u \in Seq(Entries), e \in Entries : u = log_stat_buffer /\ e = <<i, n>> /\ e[1] = i /\ e[2] = n
  <2>1. <<i, n>> \in Entries /\ <<i, n>>[1] = i /\ <<i, n>>[2] = n
    BY <1>1 DEF Finished, Entries
  <2>2. log_stat_buffer \in Seq(Entries)
    BY DEF PoolTypes
  <2> QED
    BY <2>1, <2>2
<1>3. PICK v : v = Append(u, e)
  OBVIOUS
<1>4. log_stat_buffer' = v /\ lost' = lost /\ n \in FirstTti .. LastTti
  BY <1>1, <1>2, <1>3 DEF Finished, Appends
<1>5. Appended(u, e, v)
  BY <1>2, <1>3, TakenAppend
<1>6. v \in Seq(Entries) /\ Len(v) = Len(u) + 1 /\ Len(u) \in Nat /\ v[Len(v)] = e /\ \A b \in 1 .. Len(u) : v[b] = u[b]
  BY <1>5 DEF Appended
<1>7. /\ \A j \in Cells : Received(j)' = Received(j)
      /\ n \notin Received(i) /\ n \notin lost[i] /\ n \notin TakenOf(u, i, Len(u))
  BY <1>2, FinishReceived
<1>8. Len(v) <= MaxBuffer
  BY <1>2, <1>6, LoggerAssumption DEF Appends
<1>9. Distinct(v)
  <2>1. ASSUME NEW a \in 1 .. Len(u) PROVE u[a] # e
    BY <1>2, <1>4, <1>7 DEF TakenOf
  <2>2. ASSUME NEW a \in 1 .. Len(v), NEW b \in 1 .. Len(v), a # b PROVE v[a] # v[b]
    <3>1. Distinct(u)
      BY <1>2 DEF BufOk
    <3>2. CASE a = Len(v)
      <4>1. b \in 1 .. Len(u)
        BY <1>6, <2>2, <3>2
      <4> QED
        BY <1>6, <2>1, <3>2, <4>1
    <3>3. CASE b = Len(v)
      <4>1. a \in 1 .. Len(u)
        BY <1>6, <2>2, <3>3
      <4> QED
        BY <1>6, <2>1, <3>3, <4>1
    <3>4. CASE a # Len(v) /\ b # Len(v)
      <4>1. a \in 1 .. Len(u) /\ b \in 1 .. Len(u)
        BY <1>6, <3>4
      <4> QED
        BY <1>6, <2>2, <3>1, <4>1 DEF Distinct
    <3> QED
      BY <3>2, <3>3, <3>4
  <2> QED
    BY <2>2 DEF Distinct
<1>10. ASSUME NEW b \in 1 .. Len(u)
       PROVE  EntryOk(v, b, v[b][1], Received(v[b][1])', lost'[v[b][1]])
  <2>1. PICK j \in Cells : j = u[b][1]
    BY TakenNext
  <2>2. EntryOk(u, b, j, Received(j), lost[j])
    BY <1>2, <2>1 DEF BufOk
  <2>3. b \in 0 .. Len(u) /\ b - 1 \in 0 .. Len(u) /\ v[b] = u[b]
    BY <1>6
  <2>4. TakenOf(v, j, b) = TakenOf(u, j, b) /\ TakenOf(v, j, b - 1) = TakenOf(u, j, b - 1)
    BY <1>5, <2>3 DEF Appended
  <2>5. EntryOk(v, b, j, Received(j), lost[j])
    BY <2>2, <2>3, <2>4 DEF EntryOk
  <2>6. Received(j)' = Received(j) /\ lost'[j] = lost[j] /\ v[b][1] = j
    BY <1>4, <1>7, <2>1, <2>3
  <2> QED
    BY <2>5, <2>6
<1>11. EntryOk(v, Len(v), i, Received(i)', lost'[i])
  <2>1. PICK R, L, b : R = Received(i) /\ L = lost[i] /\ b = Len(v)
    OBVIOUS
  <2>2. v[b][2] = n /\ n \notin R /\ n \notin L /\ R = Received(i)' /\ L = lost'[i]
    BY <1>2, <1>4, <1>6, <1>7, <2>1
  <2>3. TakenOf(v, i, b) = TakenOf(u, i, Len(u)) \cup {n} /\ TakenOf(v, i, b - 1) = TakenOf(u, i, Len(u))
    <3>1. b - 1 = Len(u) /\ Len(u) \in 0 .. Len(u)
      BY <1>6, <2>1
    <3>2. PICK c : c = b - 1
      OBVIOUS
    <3>3. TakenOf(v, i, c) = TakenOf(u, i, Len(u))
      BY <1>5, <3>1, <3>2 DEF Appended
    <3> QED
      BY <1>2, <1>5, <2>1, <3>2, <3>3 DEF Appended
  <2>4. PICK F : F = inFlight'[i]
    OBVIOUS
  <2>5. PICK t \in FirstTti .. LastTti + 1 : t = nextTti[i]
    BY DEF PoolTypes
  <2>6. FirstTti \in Nat /\ LastTti \in Nat
    BY LoggerAssumption
  <2>7. T = nextTti'[i] /\ n < T /\ n \in Int
    BY <1>1, <2>5, <2>6 DEF Finished, PoolTypes
  <2>8. PoolTypes'
    BY FinishTypes
  <2>9. F \subseteq FirstTti .. LastTti /\ T \in Int
    BY <2>4, <2>6, <2>7, <2>8 DEF PoolTypes
  <2>10. ASSUME NEW m \in Missing(R \cup TakenOf(v, i, b), L, n) PROVE m \in F
    <3>1. m \in FirstTti .. n /\ m \notin R /\ m \notin TakenOf(v, i, b) /\ m \notin L
      BY DEF Missing
    <3>2. R = Got(i, T, F, L, v)
      BY <1>4, <2>2, <2>4, <2>7, <2>8, ReceivedGotNext
    <3>3. m \in FirstTti .. T - 1
      BY <2>6, <2>7, <2>9, <3>1
    <3> QED
      BY <2>1, <3>1, <3>2, <3>3 DEF Got
  <2>11. Gaps(R \cup TakenOf(v, i, b), L, n, MaxInFlight[i])
    <3>1. PICK M : M = Missing(R \cup TakenOf(v, i, b), L, n)
      OBVIOUS
    <3>2. IsFiniteSet(F) /\ M \subseteq F
      <4>1. IsFiniteSet(FirstTti .. LastTti)
        BY <2>6, FS_Interval
      <4>2. IsFiniteSet(F)
        BY <2>9, <4>1, FS_Subset
      <4>3. M \subseteq F
        BY <2>10, <3>1
      <4> QED
        BY <4>2, <4>3
    <3>3. Cardinality(M) \in Nat /\ Cardinality(F) \in Nat /\ Cardinality(M) <= Cardinality(F)
      BY <3>2, FS_Subset, FS_CardinalityType
    <3>4. Cardinality(F) < MaxInFlight[i] /\ MaxInFlight[i] \in Nat
      BY <2>4, LoggerAssumption DEF Finish
    <3>5. \A m \in F : n - m < MaxLag
      BY <2>4 DEF Finish
    <3>6. Cardinality(M) < MaxInFlight[i]
      BY <3>3, <3>4
    <3> QED
      BY <3>1, <3>2, <3>5, <3>6 DEF Gaps
  <2>13. EntryOk(v, b, i, R, L)
    BY <2>2, <2>11 DEF EntryOk
  <2> QED
    BY <2>1, <2>2, <2>13
<1>12. ASSUME NEW b \in 1 .. Len(v)
       PROVE  EntryOk(v, b, v[b][1], Received(v[b][1])', lost'[v[b][1]])
  <2>1. CASE b = Len(v)
    <3>1. v[b][1] = i
      BY <1>2, <1>6, <2>1
    <3> QED
      BY <1>11, <2>1, <3>1
  <2>2. CASE b # Len(v)
    <3>1. b \in 1 .. Len(u)
      BY <1>6, <2>2
    <3> QED
      BY <1>10, <3>1
  <2> QED
    BY <2>1, <2>2
<1> QED
  BY <1>4, <1>6, <1>8, <1>9, <1>12 DEF BufOk

(* A subframe that is lost was not received, nor does it wait.             *)
LEMMA LoseFacts ==
  ASSUME PoolTypes, Pools, Queued, NEW i \in Cells, Lose(i)
  PROVE  /\ \A j \in Cells : Received(j)' = Received(j)
         /\ \A j \in Cells : lost[j] \subseteq lost'[j]
         /\ \A b \in 1 .. Len(log_stat_buffer) :
                log_stat_buffer[b][2] \notin lost[log_stat_buffer[b][1]]
                    => log_stat_buffer[b][2] \notin lost'[log_stat_buffer[b][1]]
         /\ Pools' /\ Queued'
<1>1. PICK t \in FirstTti .. LastTti + 1 : t = nextTti[i]
  BY DEF PoolTypes
<1>2. FirstTti \in Nat /\ LastTti \in Nat /\ t \in Nat /\ t >= FirstTti
  BY <1>1, LoggerAssumption
<1>3. PICK L : L = lost[i] \cup {t}
  OBVIOUS
<1>4. /\ nextTti' = [nextTti EXCEPT ![i] = t + 1] /\ lost' = [lost EXCEPT ![i] = L]
      /\ inFlight' = inFlight /\ log_stat_buffer' = log_stat_buffer
  BY <1>1, <1>3 DEF Lose, PoolTypes
<1>5. PoolTypes'
  BY LoseTypes
<1>6. nextTti'[i] = t + 1 /\ lost'[i] = L
  BY <1>4 DEF PoolTypes
<1>7. \A j \in Cells : j # i => nextTti'[j] = nextTti[j] /\ lost'[j] = lost[j]
  BY <1>4 DEF PoolTypes
<1>8. /\ inFlight[i] \subseteq FirstTti .. t - 1 /\ lost[i] \subseteq FirstTti .. t - 1
      /\ inFlight[i] \cap lost[i] = {} /\ Cardinality(lost[i]) <= MaxLost[i]
  BY <1>1 DEF Pools, PoolOf
<1>9. PICK u \in Seq(Entries) : u = log_stat_buffer
  BY DEF PoolTypes
<1>10. Received(i)' = Received(i)
  <2>1. Received(i) = Got(i, t, inFlight[i], lost[i], u)
    BY <1>1, <1>9, ReceivedGot
  <2>2. Received(i)' = Got(i, t + 1, inFlight[i], L, u)
    BY <1>4, <1>5, <1>6, <1>9, ReceivedGotNext
  <2>3. ASSUME NEW m \in Int
        PROVE  m \in Got(i, t + 1, inFlight[i], L, u) <=> m \in Got(i, t, inFlight[i], lost[i], u)
    BY <1>1, <1>2, <1>3 DEF Got
  <2>4. Got(i, t + 1, inFlight[i], L, u) = Got(i, t, inFlight[i], lost[i], u)
    BY <1>2, <2>3 DEF Got
  <2> QED
    BY <2>1, <2>2, <2>4
<1>11. ASSUME NEW j \in Cells, j # i PROVE Received(j)' = Received(j)
  <2>1. Received(j) = Got(j, nextTti[j], inFlight[j], lost[j], u)
    BY <1>9, ReceivedGot
  <2>2. Received(j)' = Got(j, nextTti[j], inFlight[j], lost[j], u)
    BY <1>4, <1>5, <1>7, <1>9, <1>11, ReceivedGotNext
  <2> QED
    BY <2>1, <2>2
<1>12. ASSUME NEW j \in Cells PROVE lost[j] \subseteq lost'[j]
  BY <1>3, <1>6, <1>7
<1>13. ASSUME NEW b \in 1 .. Len(u)
       PROVE  /\ u[b][2] \notin lost[u[b][1]] => u[b][2] \notin lost'[u[b][1]]
              /\ u[b][2] < nextTti'[u[b][1]] /\ u[b][2] \notin inFlight'[u[b][1]]
  <2>1. PICK j \in Cells, m \in FirstTti .. LastTti : j = u[b][1] /\ m = u[b][2]
    BY TakenNext
  <2>2. m < nextTti[j] /\ m \notin inFlight[j]
    BY <1>9, <2>1 DEF Queued
  <2>3. CASE j = i
    <3>1. m < t /\ m < t + 1 /\ m # t
      BY <1>1, <1>2, <2>2, <2>3
    <3> QED
      BY <1>3, <1>4, <1>6, <2>1, <2>2, <2>3, <3>1
  <2>4. CASE j # i
    BY <1>4, <1>7, <2>1, <2>2, <2>4
  <2> QED
    BY <2>3, <2>4
<1>14. Queued'
  BY <1>4, <1>9, <1>13 DEF Queued
<1>15. Pools'
  <2>1. ASSUME NEW j \in Cells PROVE PoolOf(j)'
    <3>1. CASE j = i
      <4>1. /\ inFlight[i] \subseteq FirstTti .. (t + 1) - 1 /\ L \subseteq FirstTti .. (t + 1) - 1
            /\ inFlight[i] \cap L = {}
        BY <1>1, <1>2, <1>3, <1>8
      <4>2. Cardinality(L) <= MaxLost[i]
        <5>1. IsFiniteSet(lost[i])
          <6>1. IsFiniteSet(FirstTti .. LastTti) /\ lost[i] \subseteq FirstTti .. LastTti
            BY <1>2, FS_Interval DEF PoolTypes
          <6> QED
            BY <6>1, FS_Subset
        <5>2. t \notin lost[i]
          BY <1>1, <1>2, <1>8
        <5>3. Cardinality(L) = Cardinality(lost[i]) + 1 /\ Cardinality(lost[i]) \in Nat
          BY <1>3, <5>1, <5>2, FS_AddElement, FS_CardinalityType
        <5>4. Cardinality(lost[i]) < MaxLost[i] /\ MaxLost[i] \in Nat
          BY LoggerAssumption DEF Lose
        <5> QED
          BY <5>3, <5>4
      <4> QED
        BY <1>4, <1>6, <1>8, <3>1, <4>1, <4>2 DEF PoolOf
    <3>2. CASE j # i
      <4>1. PoolOf(j)
        BY DEF Pools
      <4> QED
        BY <1>4, <1>7, <3>2, <4>1 DEF PoolOf
    <3> QED
      BY <3>1, <3>2
  <2> QED
    BY <2>1 DEF Pools
<1> QED
  BY <1>9, <1>10, <1>11, <1>12, <1>13, <1>14, <1>15

(* The entries after a loss.                                               *)
LEMMA LoseBuf ==
  ASSUME PoolTypes, Pools, Queued, BufOk, NEW i \in Cells, Lose(i)
  PROVE  BufOk'
<1>1. PICK u \in Seq(Entries) : u = log_stat_buffer
  BY DEF PoolTypes
<1>2. log_stat_buffer' = u
  BY <1>1 DEF Lose
<1>3. ASSUME NEW b \in 1 .. Len(u) PROVE EntryOk(u, b, u[b][1], Received(u[b][1])', lost'[u[b][1]])
  <2>1. PICK j \in Cells, n \in FirstTti .. LastTti : j = u[b][1] /\ n = u[b][2]
    BY TakenNext
  <2>2. EntryOk(u, b, j, Received(j), lost[j])
    BY <1>1, <2>1 DEF BufOk
  <2>3. Received(j)' = Received(j) /\ lost[j] \subseteq lost'[j] /\ (n \notin lost[j] => n \notin lost'[j])
    BY <1>1, <2>1, LoseFacts
  <2>4. PICK R, L, K : R = Received(j) /\ L = lost[j] /\ K = lost'[j]
    OBVIOUS
  <2>5. n \notin R /\ n \notin L /\ Gaps(R \cup TakenOf(u, j, b), L, n, MaxInFlight[j])
    BY <2>1, <2>2, <2>4 DEF EntryOk
  <2>6. n \in Int /\ MaxInFlight[j] \in Nat /\ L \subseteq K
    BY <2>3, <2>4, LoggerAssumption
  <2>7. PICK S : S = R \cup TakenOf(u, j, b)
    OBVIOUS
  <2>8. Gaps(S, K, n, MaxInFlight[j])
    BY <2>5, <2>6, <2>7, FewerGaps
  <2>9. EntryOk(u, b, j, R, K)
    BY <2>1, <2>3, <2>4, <2>5, <2>7, <2>8 DEF EntryOk
  <2> QED
    BY <2>1, <2>3, <2>4, <2>9
<1>4. u \in Seq(Entries) /\ Len(u) <= MaxBuffer /\ Distinct(u)
  BY <1>1 DEF BufOk
<1> QED
  BY <1>2, <1>3, <1>4 DEF BufOk

(* A ring does not mind a loss.                                            *)
LEMMA RingMoreLost ==
  ASSUME NEW r, NEW R, NEW L, NEW K, NEW p \in Nat, RingOk(r, R, L, p), L \subseteq K
  PROVE  RingOk(r, R, K, p)
<1>1. ASSUME NEW N, RingAt(r, R, L, N, p) PROVE RingAt(r, R, K, N, p)
  <2>1. N \in Int
    <3>1. N \in R /\ R \subseteq FirstTti .. LastTti
      BY <1>1 DEF RingAt, Newer
    <3> QED
      BY <3>1
  <2>2. Gaps(R, K, N, p)
    BY <1>1, <2>1, FewerGaps DEF RingAt
  <2>3. Passed(r, R, K)
    BY <1>1 DEF RingAt, Passed
  <2>4. Handed(r, R, K, N)
    BY <1>1 DEF RingAt, Handed
  <2> QED
    BY <1>1, <2>2, <2>3, <2>4 DEF RingAt
<1> QED
  BY <1>1 DEF RingOk

(* A round of the logger receives what waits.                              *)
LEMMA LogReceived ==
  ASSUME PoolTypes, Queued, BufOk, Log, NEW i \in Cells
  PROVE  Received(i)' = Received(i) \cup TakenOf(log_stat_buffer, i, Len(log_stat_buffer))
<1>1. PICK u \in Seq(Entries) : u = log_stat_buffer
  BY DEF PoolTypes
<1>2. PICK e \in Seq(Entries) : e = << >>
  BY EmptySeq
<1>3. nextTti' = nextTti /\ inFlight' = inFlight /\ lost' = lost /\ log_stat_buffer' = e
  BY <1>2 DEF Log
<1>4. PoolTypes'
  <2>1. /\ log_stat_header' = 0 /\ overrun' = overrun /\ MaxBuffer \in Nat /\ 0 \in 0 .. MaxBuffer - 1
        /\ Len(e) = 0
    BY <1>2, LoggerAssumption DEF Log
  <2> QED
    BY <1>3, <2>1 DEF PoolTypes
<1>5. Received(i) = Got(i, nextTti[i], inFlight[i], lost[i], u)
  BY <1>1, ReceivedGot
<1>6. Received(i)' = Got(i, nextTti[i], inFlight[i], lost[i], e)
  BY <1>3, <1>4, ReceivedGotNext
<1>7. TakenOf(e, i, Len(e)) = {}
  BY <1>2 DEF TakenOf
<1>8. ASSUME NEW m \in TakenOf(u, i, Len(u))
      PROVE  m \in FirstTti .. nextTti[i] - 1 /\ m \notin inFlight[i] /\ m \notin lost[i]
  <2>1. PICK b \in 1 .. Len(u) : u[b][1] = i /\ u[b][2] = m
    BY TakenWhere
  <2>2. m < nextTti[i] /\ m \notin inFlight[i]
    BY <1>1, <2>1 DEF Queued
  <2>3. m \notin lost[i]
    BY <1>1, <2>1 DEF BufOk, EntryOk
  <2>4. m \in FirstTti .. LastTti /\ nextTti[i] \in FirstTti .. LastTti + 1
    BY DEF TakenOf, PoolTypes
  <2> QED
    BY <2>2, <2>3, <2>4, LoggerAssumption
<1>9. Got(i, nextTti[i], inFlight[i], lost[i], e)
      = Got(i, nextTti[i], inFlight[i], lost[i], u) \cup TakenOf(u, i, Len(u))
  BY <1>7, <1>8 DEF Got
<1> QED
  BY <1>1, <1>5, <1>6, <1>9

-----------------------------------------------------------------------------
(* The rings and what is logged.                                           *)

\* The sizes of the code: the ring gives up on a subframe only when its
\* decoder is done with it, the timeout, the pool and the losses fit into an
\* eighth of the ring and what waits for the logger into half of it.
Sizes ==
    /\ MaxLag <= DecodeTimeout /\ DecodeTimeout < BufSize \div 8
    /\ \A i \in Cells : MaxInFlight[i] + MaxLost[i] < BufSize \div 8
    /\ MaxBuffer <= BufSize \div 2

\* The logger is where the headers are, and logged what they passed.
Logging ==
    /\ all_cell_ready =>
           \A i \in Cells : /\ cell_status[i].cell_ready
                            /\ cell_status[i].clean => log_config[i].tti = cell_status[i].head
                            /\ log_config[i].curr_header = cell_status[i].cell_header
    /\ \A i \in Cells : ~all_cell_ready => logged[i] = << >>
    /\ \A i \in Cells : cell_status[i].clean => \A k \in 1 .. Len(logged[i]) :
           \/ logged[i][k] = log_config[i].tti - Len(logged[i]) + k
           \/ log_config[i].tti - Len(logged[i]) + k \in lost[i]

\* As long as no result was overwritten.
KeptUp == Pools /\ Queued /\ BufOk /\ RingsOk /\ Logging
LoggerInv == Types /\ (~overrun => KeptUp)

(* The sizes bound the losses.                                             *)
LEMMA LossesBound ==
  ASSUME Sizes, PoolTypes, Pools
  PROVE  LossesOk /\ Timely
<1>1. ASSUME NEW i \in Cells PROVE Losses(lost[i], MaxLost[i], MaxInFlight[i])
  <2>1. IsFiniteSet(FirstTti .. LastTti) /\ lost[i] \subseteq FirstTti .. LastTti
    <3>1. FirstTti \in Int /\ LastTti \in Int
      BY LoggerAssumption
    <3> QED
      BY <3>1, FS_Interval DEF PoolTypes
  <2>2. IsFiniteSet(lost[i])
    BY <2>1, FS_Subset
  <2>3. MaxLost[i] \in Nat /\ MaxInFlight[i] \in Nat
    BY LoggerAssumption
  <2>4. MaxInFlight[i] + MaxLost[i] < Eighth
    BY DEF Sizes, Eighth
  <2>5. Cardinality(lost[i]) <= MaxLost[i]
    BY DEF Pools, PoolOf
  <2> QED
    BY <2>2, <2>3, <2>4, <2>5 DEF Losses
<1> QED
  BY <1>1 DEF LossesOk, Timely, Sizes, Eighth

(* A round takes no more results of a cell than there are entries.         *)
LEMMA TakenFew ==
  ASSUME NEW u \in Seq(Entries), NEW i \in Cells
  PROVE  /\ IsFiniteSet(TakenOf(u, i, Len(u))) /\ Len(u) \in Nat
         /\ Cardinality(TakenOf(u, i, Len(u))) \in Nat /\ Cardinality(TakenOf(u, i, Len(u))) <= Len(u)
<1>1. PICK N \in Nat : N = Len(u)
  BY LenProperties
<1>2. PICK T : T = {u[a][2] : a \in 1 .. N}
  OBVIOUS
<1>3. PICK f : f = [a \in 1 .. N |-> u[a][2]]
  OBVIOUS
<1>4. f \in Surjection(1 .. N, T)
  BY <1>2, <1>3 DEF Surjection
<1>5. IsFiniteSet(1 .. N) /\ Cardinality(1 .. N) = N
  BY FS_Interval
<1>6. IsFiniteSet(T) /\ Cardinality(T) <= N
  BY <1>4, <1>5, FS_Surjection
<1>7. TakenOf(u, i, N) \subseteq T
  BY <1>2 DEF TakenOf
<1>8. IsFiniteSet(TakenOf(u, i, N)) /\ Cardinality(TakenOf(u, i, N)) <= Cardinality(T)
  BY <1>6, <1>7, FS_Subset
<1>9. Cardinality(TakenOf(u, i, N)) \in Nat /\ Cardinality(T) \in Nat
  BY <1>6, <1>8, FS_CardinalityType
<1>10. Cardinality(TakenOf(u, i, N)) <= N
  BY <1>6, <1>8, <1>9
<1> QED
  BY <1>1, <1>8, <1>9, <1>10

(* The newest result and the header of a ring that has one.                *)
LEMMA RingNewest ==
  ASSUME NEW r, NEW R, NEW L, NEW p, RingOk(r, R, L, p), r.cell_ready, r.clean
  PROVE  \E N \in Int : RingAt(r, R, L, N, p)
<1>1. R # {}
  BY DEF RingOk
<1>2. PICK N : RingAt(r, R, L, N, p)
  BY <1>1 DEF RingOk
<1>3. N \in R /\ R \subseteq FirstTti .. LastTti
  BY <1>2 DEF RingAt, Newer
<1> QED
  BY <1>2, <1>3

(* In one round the newest result stays within a lap of the old header.    *)
LEMMA RoundBound ==
  ASSUME Sizes, PoolTypes, Pools, BufOk, NEW i \in Cells, NEW r \in Rings, NEW N \in Int, NEW M \in Int,
         RingAt(r, Received(i), lost[i], N, MaxInFlight[i]),
         Gaps(Received(i) \cup TakenOf(log_stat_buffer, i, Len(log_stat_buffer)), lost[i], M, MaxInFlight[i])
  PROVE  M - r.head < BufSize /\ r.head \in Int
<1>1. PICK u \in Seq(Entries) : u = log_stat_buffer
  BY DEF PoolTypes
<1>2. PICK A : A = TakenOf(u, i, Len(u))
  OBVIOUS
<1>3. PICK R : R = Received(i)
  OBVIOUS
<1>4. PICK p, l, L : p = MaxInFlight[i] /\ l = MaxLost[i] /\ L = lost[i]
  OBVIOUS
<1>5. Losses(L, l, p) /\ Timely
  BY <1>4, LossesBound DEF LossesOk
<1>6. N \in Int /\ r.head \in Int /\ r.head <= N /\ N - r.head <= 2 * Eighth
  <2>1. RingAt(r, R, L, N, p)
    BY <1>3, <1>4
  <2> QED
    BY <1>5, <2>1, HeaderNear
<1>7. FirstTti - 1 <= N
  <2>1. FirstTti \in Int /\ LastTti \in Int /\ N \in FirstTti .. LastTti
    BY LoggerAssumption DEF RingAt, Newer
  <2> QED
    BY <1>6, <2>1
<1>8. \A m \in R \cup A : m > N => m \in A
  <2>1. R \subseteq FirstTti .. LastTti /\ \A m \in R : m <= N
    BY <1>3 DEF RingAt, Newer
  <2>2. ASSUME NEW m \in R PROVE ~(m > N)
    <3>1. m \in Int /\ m <= N
      BY <2>1
    <3> QED
      BY <3>1
  <2> QED
    BY <2>2
<1>9. IsFiniteSet(A) /\ Cardinality(A) \in Nat /\ Cardinality(A) <= Len(u) /\ Len(u) \in Nat
  BY <1>2, TakenFew
<1>10. PICK S : S = R \cup A
  OBVIOUS
<1>11. M - N < Cardinality(A) + p + l
  <2>1. Gaps(S, L, M, p) /\ \A m \in S : m > N => m \in A
    BY <1>1, <1>2, <1>3, <1>4, <1>8, <1>10
  <2> QED
    BY <1>5, <1>7, <1>9, <2>1, StretchBound
<1>12. p \in Nat /\ l \in Nat /\ p + l < Eighth
  BY <1>5 DEF Losses
<1>13. Len(u) <= MaxBuffer /\ MaxBuffer <= 4 * Eighth /\ MaxBuffer \in Nat
  <2>1. BufSize \div 2 = 4 * Eighth
    BY RingConstants
  <2> QED
    BY <1>1, <2>1, LoggerAssumption DEF BufOk, Sizes
<1>14. BufSize = 8 * Eighth /\ Eighth \in Nat \ {0}
  BY RingConstants
<1> QED
  BY <1>6, <1>9, <1>11, <1>12, <1>13, <1>14

(* What the loop of log_per_cell writes for cell i: the subframes after    *)
(* the old header up to the new one.                                       *)
LEMMA LoggedSpan ==
  ASSUME Sizes, PoolTypes, Pools, BufOk, RingTypes, NEW i \in Cells, NEW rings \in [Cells -> Rings],
         RingOk(cell_status[i], Received(i), lost[i], MaxInFlight[i]), cell_status[i].cell_ready,
         RingOk(rings[i], Received(i) \cup TakenOf(log_stat_buffer, i, Len(log_stat_buffer)), lost[i], MaxInFlight[i]),
         rings[i].cell_ready, rings[i].head >= cell_status[i].head, rings[i].first = cell_status[i].first,
         rings[i].clean, cell_status[i].clean,
         log_config[i].curr_header = cell_status[i].cell_header
  PROVE  /\ Len(Out(rings)[i]) = rings[i].head - cell_status[i].head
         /\ cell_status[i].head \in Int /\ rings[i].head \in Int
         /\ \A k \in 1 .. Len(Out(rings)[i]) :
                \/ Out(rings)[i][k] = cell_status[i].head + k
                \/ cell_status[i].head + k \in lost[i]
<1>1. PICK r \in Rings, q \in Rings : r = cell_status[i] /\ q = rings[i]
  BY DEF RingTypes
<1>2. PICK R, S, L, p : /\ R = Received(i) /\ S = R \cup TakenOf(log_stat_buffer, i, Len(log_stat_buffer))
                        /\ L = lost[i] /\ p = MaxInFlight[i]
  OBVIOUS
<1>3. PICK N \in Int : RingAt(r, R, L, N, p)
  <2>1. RingOk(r, R, L, p) /\ r.cell_ready /\ r.clean
    BY <1>1, <1>2
  <2> QED
    BY <2>1, RingNewest
<1>4. PICK M \in Int : RingAt(q, S, L, M, p)
  <2>1. RingOk(q, S, L, p) /\ q.cell_ready /\ q.clean
    BY <1>1, <1>2
  <2> QED
    BY <2>1, RingNewest
<1>5. M - r.head < BufSize /\ r.head \in Int
  BY <1>1, <1>2, <1>3, <1>4, RoundBound DEF RingAt
<1>6. PICK h \in Int, g \in Int : h = r.head /\ g = q.head
  BY DEF Rings
<1>7. q.first \in Int /\ h >= q.first - 1 /\ g <= M /\ g >= h
  <2>1. r.first \in Int /\ q.first = r.first /\ h \in r.first - 1 .. N /\ g \in q.first - 1 .. M /\ g >= h
    BY <1>1, <1>3, <1>4, <1>6 DEF RingAt, Rings
  <2> QED
    BY <2>1
<1>8. BufSize \in Nat
  BY RingConstants
<1>9. PICK d \in 0 .. BufSize - 1 : d = g - h /\ g = h + d
  <2>1. g - h \in 0 .. BufSize - 1 /\ g = h + (g - h)
    BY <1>5, <1>6, <1>7, <1>8
  <2> QED
    BY <2>1
<1>10. r.cell_header = h % BufSize /\ q.cell_header = g % BufSize
  BY <1>3, <1>4, <1>6 DEF RingAt
<1>11. Dist(h % BufSize, g % BufSize) = d
  BY <1>9, DistSlots
<1>12. PICK c : c = log_config[i].curr_header
  OBVIOUS
<1>13. c = h % BufSize
  BY <1>1, <1>10, <1>12
<1>14. PICK out : out = Out(rings)[i]
  OBVIOUS
<1>15. Len(out) = Dist(c, q.cell_header) /\ \A j \in 1 .. Len(out) : out[j] = q.content[(c + j) % BufSize]
  BY <1>1, <1>12, <1>14, OutType DEF RingTypes
<1>16. Len(out) = d
  BY <1>10, <1>11, <1>13, <1>15
<1>17. ASSUME NEW k \in 1 .. d PROVE out[k] = h + k \/ h + k \in L
  <2>1. PICK m \in Int : m = h + k
    BY <1>8
  <2>2. (c + k) % BufSize = m % BufSize
    BY <1>13, <2>1, SlotOf
  <2>3. out[k] = q.content[m % BufSize]
    BY <1>15, <1>16, <2>2
  <2>4. m \in q.first .. g /\ M - m < BufSize
    <3>1. M - h < BufSize
      BY <1>5, <1>6
    <3>2. m <= g
      BY <1>9, <2>1
    <3>3. m >= q.first
      BY <1>7, <2>1
    <3>4. M - m < BufSize
      BY <1>8, <2>1, <3>1
    <3> QED
      BY <1>7, <3>2, <3>3, <3>4
  <2>5. m \in S \/ m \in L
    BY <1>4, <1>6, <2>4 DEF RingAt, Passed
  <2>6. ASSUME m \in S PROVE q.content[m % BufSize] = m
    BY <1>4, <2>4, <2>6 DEF RingAt, Contents
  <2> QED
    BY <2>1, <2>3, <2>5, <2>6
<1> QED
  BY <1>1, <1>2, <1>6, <1>9, <1>14, <1>16, <1>17

(* Clearing flags leaves a ring as it should be.                           *)
LEMMA FewerFlags ==
  ASSUME NEW r, NEW R, NEW L, NEW p, RingOk(r, R, L, p), NEW X, X \subseteq r.filled
  PROVE  RingOk([r EXCEPT !.filled = X], R, L, p)
<1>1. PICK q : q = [r EXCEPT !.filled = X]
  OBVIOUS
<1>2. r \in Rings
  BY DEF RingOk
<1>3. /\ q \in Rings /\ q.filled = X /\ q.content = r.content /\ q.cell_ready = r.cell_ready
      /\ q.cell_header = r.cell_header /\ q.most_recent_sf = r.most_recent_sf
      /\ q.nof_logged_dci = r.nof_logged_dci /\ q.head = r.head /\ q.pushed = r.pushed
      /\ q.first = r.first /\ q.early = r.early /\ q.clean = r.clean
  BY <1>1, <1>2 DEF Rings
<1>4. ASSUME NEW N, RingAt(r, R, L, N, p) PROVE RingAt(q, R, L, N, p)
  <2>1. Lag(q, N)
    BY <1>3, <1>4 DEF RingAt, Lag
  <2>2. Marked(q, R)
    BY <1>3, <1>4 DEF RingAt, Marked
  <2>3. Earlies(q, R, N) /\ Contents(q, R, N) /\ Passed(q, R, L)
    BY <1>3, <1>4 DEF RingAt, Earlies, Contents, Passed
  <2>4. Handed(q, R, L, N)
    BY <1>3, <1>4 DEF RingAt, Handed, Turn
  <2> QED
    BY <1>3, <1>4, <2>1, <2>2, <2>3, <2>4 DEF RingAt
<1>5. RingOk(q, R, L, p)
  BY <1>3, <1>4 DEF RingOk
<1> QED
  BY <1>1, <1>5

(* The fields of the rings that log_multi_cell leaves.                     *)
LEMMA ClearedOk ==
  ASSUME NEW rings \in [Cells -> Rings], NEW i \in Cells, NEW R, NEW L, NEW p, RingOk(rings[i], R, L, p)
  PROVE  /\ RingOk(Cleared(rings)[i], R, L, p)
         /\ Cleared(rings)[i].cell_ready = rings[i].cell_ready /\ Cleared(rings)[i].head = rings[i].head
         /\ Cleared(rings)[i].cell_header = rings[i].cell_header
         /\ Cleared(rings)[i].clean = rings[i].clean
<1>1. CASE i = 0
  <2>1. PICK r \in Rings : r = rings[0] /\ RingOk(r, R, L, p)
    BY <1>1
  <2>2. PICK X : X = r.filled \ Cells
    OBVIOUS
  <2>3. PICK q : q = [r EXCEPT !.filled = X]
    OBVIOUS
  <2>4. Cleared(rings)[i] = q
    BY <1>1, <2>1, <2>2, <2>3, ClearedType DEF Rings
  <2>5. RingOk(q, R, L, p)
    BY <2>1, <2>2, <2>3, FewerFlags
  <2>6. /\ q.cell_ready = r.cell_ready /\ q.head = r.head /\ q.cell_header = r.cell_header
        /\ q.clean = r.clean
    BY <2>1, <2>3 DEF Rings
  <2> QED
    BY <1>1, <2>1, <2>4, <2>5, <2>6
<1>2. CASE i # 0
  <2>1. Cleared(rings)[i] = rings[i]
    BY <1>2, ClearedType
  <2> QED
    BY <2>1
<1> QED
  BY <1>1, <1>2

(* A round of the logger keeps the rings and what is logged.               *)
LEMMA LogKeeps ==
  ASSUME Sizes, Types, KeptUp, Log
  PROVE  KeptUp'
<1>1. PoolTypes /\ RingTypes /\ Pools /\ Queued /\ BufOk /\ RingsOk /\ Logging
  BY DEF KeptUp, Types
<1>2. nextTti' = nextTti /\ inFlight' = inFlight /\ lost' = lost /\ log_stat_buffer' = << >>
  BY DEF Log
<1>3. Pools'
  <2>1. ASSUME NEW i \in Cells PROVE PoolOf(i)'
    BY <1>1, <1>2 DEF Pools, PoolOf
  <2> QED
    BY <2>1 DEF Pools
<1>4. Queued' /\ BufOk'
  <2>1. Len(<< >>) = 0 /\ << >> \in Seq(Entries)
    BY EmptySeq
  <2>2. MaxBuffer \in Nat
    BY LoggerAssumption
  <2> QED
    BY <1>2, <2>1, <2>2 DEF Queued, BufOk, Distinct
<1>5. PICK rings : rings = Filled
  OBVIOUS
<1>6. LogNothing(rings) \/ LogFirst(rings) \/ LogCells(rings)
  BY <1>5 DEF Log
<1>7. rings \in [Cells -> Rings] /\ rings \in Onward
  BY <1>1, <1>5, FilledType DEF PoolTypes, RingTypes
<1>8. LossesOk /\ Timely
  BY <1>1, LossesBound
<1>9. ASSUME NEW i \in Cells
      PROVE  /\ RingOk(rings[i], Received(i) \cup TakenOf(log_stat_buffer, i, Len(log_stat_buffer)), lost[i], MaxInFlight[i])
             /\ Received(i)' = Received(i) \cup TakenOf(log_stat_buffer, i, Len(log_stat_buffer))
             /\ rings[i].clean => cell_status[i].clean
             /\ cell_status[i].cell_ready => /\ rings[i].cell_ready /\ rings[i].head >= cell_status[i].head
                                             /\ rings[i].first = cell_status[i].first
  <2>1. RingOk(rings[i], Received(i) \cup TakenOf(log_stat_buffer, i, Len(log_stat_buffer)), lost[i], MaxInFlight[i])
    BY <1>1, <1>5, <1>8, FilledOk DEF RingTypes
  <2>2. Received(i)' = Received(i) \cup TakenOf(log_stat_buffer, i, Len(log_stat_buffer))
    BY <1>1, LogReceived
  <2> QED
    BY <1>7, <2>1, <2>2 DEF Onward
<1>10. ASSUME NEW i \in Cells PROVE RingOk(rings[i], Received(i)', lost'[i], MaxInFlight[i])
  BY <1>2, <1>9
<1>11. CASE LogNothing(rings)
  <2>1. ~all_cell_ready
    BY <1>1, <1>9, <1>11 DEF LogNothing, Logging
  <2>2. /\ cell_status' = rings /\ all_cell_ready' = all_cell_ready /\ log_config' = log_config
        /\ logged' = [i \in Cells |-> << >>]
    BY <1>11 DEF LogNothing
  <2>3. RingsOk'
    BY <1>10, <2>2 DEF RingsOk
  <2>4. \A i \in Cells : logged'[i] = << >> /\ Len(logged'[i]) = 0
    BY <2>2, EmptySeq
  <2>5. Logging'
    BY <2>1, <2>2, <2>4 DEF Logging
  <2> QED
    BY <1>3, <1>4, <2>3, <2>5 DEF KeptUp
<1>12. CASE LogFirst(rings)
  <2>1. /\ cell_status' = Cleared(rings) /\ all_cell_ready' = TRUE
        /\ logged' = [i \in Cells |-> << >>]
        /\ log_config' = [i \in Cells |-> [cell_ready |-> TRUE, curr_header |-> rings[i].cell_header,
                                           tti |-> rings[i].head]]
        /\ \A i \in Cells : rings[i].cell_ready
    BY <1>12 DEF LogFirst
  <2>2. ASSUME NEW i \in Cells
        PROVE  /\ RingOk(cell_status'[i], Received(i)', lost'[i], MaxInFlight[i])
               /\ cell_status'[i].cell_ready
               /\ log_config'[i].tti = cell_status'[i].head
               /\ log_config'[i].curr_header = cell_status'[i].cell_header
               /\ logged'[i] = << >> /\ Len(logged'[i]) = 0
    <3>1. PICK z : z = Cleared(rings)[i]
      OBVIOUS
    <3>2. PICK R : R = Received(i)'
      OBVIOUS
    <3>3. RingOk(rings[i], R, lost'[i], MaxInFlight[i])
      BY <1>10, <3>2
    <3>4. /\ RingOk(z, R, lost'[i], MaxInFlight[i]) /\ z.cell_ready = rings[i].cell_ready
          /\ z.head = rings[i].head /\ z.cell_header = rings[i].cell_header
      BY <1>7, <3>1, <3>3, ClearedOk
    <3>5. /\ cell_status'[i] = z
          /\ log_config'[i] = [cell_ready |-> TRUE, curr_header |-> rings[i].cell_header, tti |-> rings[i].head]
          /\ logged'[i] = << >>
      BY <2>1, <3>1
    <3> QED
      BY <2>1, <3>2, <3>4, <3>5, EmptySeq
  <2>3. RingsOk'
    BY <2>2 DEF RingsOk
  <2>4. Logging'
    <3>1. ASSUME NEW i \in Cells
          PROVE  \A k \in 1 .. Len(logged'[i]) :
                      \/ logged'[i][k] = log_config'[i].tti - Len(logged'[i]) + k
                      \/ log_config'[i].tti - Len(logged'[i]) + k \in lost'[i]
      BY <2>2
    <3>2. all_cell_ready'
      BY <2>1
    <3> QED
      BY <2>2, <3>1, <3>2 DEF Logging
  <2> QED
    BY <1>3, <1>4, <2>3, <2>4 DEF KeptUp
<1>13. CASE LogCells(rings)
  <2>1. /\ all_cell_ready /\ all_cell_ready' = all_cell_ready /\ cell_status' = rings
        /\ logged' = Out(rings)
        /\ log_config' = [i \in Cells |-> [log_config[i] EXCEPT !.curr_header = rings[i].cell_header,
                                                                !.tti = @ + Len(Out(rings)[i])]]
    BY <1>13, LogCellsFacts
  <2>2. RingsOk'
    BY <1>10, <2>1 DEF RingsOk
  <2>3. ASSUME NEW i \in Cells
        PROVE  rings[i].cell_ready /\ log_config'[i].curr_header = rings[i].cell_header
    <3>1. cell_status[i].cell_ready
      BY <1>1, <2>1 DEF Logging
    <3>2. rings[i].cell_ready
      BY <1>9, <3>1
    <3>3. log_config[i] \in Configs
      BY <1>1 DEF RingTypes
    <3>4. log_config'[i].curr_header = rings[i].cell_header
      BY <2>1, <3>3 DEF Configs
    <3> QED
      BY <3>2, <3>4
  <2>5. ASSUME NEW i \in Cells, rings[i].clean
        PROVE  /\ log_config'[i].tti = rings[i].head
               /\ \A k \in 1 .. Len(logged'[i]) :
                      \/ logged'[i][k] = log_config'[i].tti - Len(logged'[i]) + k
                      \/ log_config'[i].tti - Len(logged'[i]) + k \in lost'[i]
    <3>0. cell_status[i].clean
      BY <1>9, <2>5
    <3>1. /\ cell_status[i].cell_ready /\ log_config[i].tti = cell_status[i].head
          /\ log_config[i].curr_header = cell_status[i].cell_header
      BY <1>1, <2>1, <3>0 DEF Logging
    <3>2. rings[i].cell_ready /\ rings[i].head >= cell_status[i].head /\ rings[i].first = cell_status[i].first
      BY <1>9, <3>1
    <3>3. RingOk(cell_status[i], Received(i), lost[i], MaxInFlight[i])
      BY <1>1 DEF RingsOk
    <3>4. PICK out : out = Out(rings)[i]
      OBVIOUS
    <3>5. PICK h, g : h = cell_status[i].head /\ g = rings[i].head
      OBVIOUS
    <3>6. /\ Len(out) = g - h /\ h \in Int /\ g \in Int
          /\ \A k \in 1 .. Len(out) : out[k] = h + k \/ h + k \in lost[i]
      BY <1>1, <1>7, <1>9, <2>5, <3>0, <3>1, <3>2, <3>3, <3>4, <3>5, LoggedSpan
    <3>7. PICK c \in Configs : c = log_config[i]
      BY <1>1 DEF RingTypes
    <3>8. log_config'[i] = [c EXCEPT !.curr_header = rings[i].cell_header, !.tti = @ + Len(out)] /\ logged'[i] = out
      BY <2>1, <3>4, <3>7
    <3>9. log_config'[i].tti = c.tti + Len(out) /\ log_config'[i].curr_header = rings[i].cell_header
      BY <3>7, <3>8 DEF Configs
    <3>10. log_config'[i].tti = g
      BY <3>1, <3>5, <3>6, <3>7, <3>9
    <3>11. ASSUME NEW k \in 1 .. Len(out) PROVE g - Len(out) + k = h + k
      BY <3>6
    <3> QED
      BY <1>2, <3>2, <3>5, <3>6, <3>8, <3>9, <3>10, <3>11
  <2>4. Logging'
    BY <2>1, <2>3, <2>5 DEF Logging
  <2> QED
    BY <1>3, <1>4, <2>2, <2>4 DEF KeptUp
<1> QED
  BY <1>6, <1>11, <1>12, <1>13

(* The invariant holds at first.                                           *)
LEMMA InitLogger ==
  ASSUME Init
  PROVE  LoggerInv
<1>1. Types
  BY InitTypes
<1>2. FirstTti \in Nat
  BY LoggerAssumption
<1>3. ASSUME NEW i \in Cells PROVE PoolOf(i)
  <2>1. Cardinality({}) = 0 /\ MaxLost[i] \in Nat
    BY FS_EmptySet, LoggerAssumption
  <2> QED
    BY <2>1 DEF Init, PoolOf
<1>4. Len(log_stat_buffer) = 0 /\ log_stat_buffer \in Seq(Entries)
  BY <1>1, EmptySeq DEF Init, Types, PoolTypes
<1>5. Queued /\ BufOk
  BY <1>4, LoggerAssumption DEF Queued, BufOk, Distinct
<1>6. ASSUME NEW i \in Cells PROVE RingOk(cell_status[i], Received(i), lost[i], MaxInFlight[i])
  <2>1. Received(i) = {}
    BY <1>2 DEF Init, Received
  <2>2. cell_status[i] = EmptyRing /\ cell_status[i] \in Rings
    BY <1>1 DEF Init, Types, RingTypes
  <2> QED
    BY <2>1, <2>2 DEF RingOk, EmptyRing
<1>7. Logging
  <2>1. \A i \in Cells : logged[i] = << >> /\ Len(logged[i]) = 0
    BY EmptySeq DEF Init
  <2>2. ~all_cell_ready
    BY DEF Init
  <2> QED
    BY <2>1, <2>2 DEF Logging
<1> QED
  BY <1>1, <1>3, <1>5, <1>6, <1>7 DEF LoggerInv, KeptUp, Pools, RingsOk

(* Every step keeps it, unless a result is overwritten.                    *)
LEMMA StepKept ==
  ASSUME Sizes, Types, KeptUp, [Next]_vars, ~overrun'
  PROVE  KeptUp'
<1>1. PoolTypes /\ RingTypes /\ Pools /\ Queued /\ BufOk /\ RingsOk /\ Logging
  BY DEF KeptUp, Types
<1>2. ASSUME NEW i \in Cells, NEW n \in Candidates(i), Finish(i, n) PROVE KeptUp'
  <2>1. Appends(<<i, n>>)
    <3>1. PICK T : Finished(i, n, T)
      BY <1>1, <1>2, FinishFacts
    <3> QED
      BY <3>1 DEF Finished, Overwrites
  <2>2. Pools' /\ Queued' /\ BufOk' /\ \A j \in Cells : Received(j)' = Received(j)
    BY <1>1, <1>2, <2>1, FinishPools, FinishBuf, FinishReceived
  <2>3. /\ lost' = lost /\ cell_status' = cell_status /\ all_cell_ready' = all_cell_ready
        /\ log_config' = log_config /\ logged' = logged
    BY <1>2, <2>1 DEF Finish, Appends, loggerVars
  <2>4. RingsOk'
    BY <1>1, <2>2, <2>3 DEF RingsOk
  <2>5. Logging'
    BY <1>1, <2>3 DEF Logging
  <2> QED
    BY <2>2, <2>4, <2>5 DEF KeptUp
<1>3. ASSUME NEW i \in Cells, Lose(i) PROVE KeptUp'
  <2>1. /\ Pools' /\ Queued'
        /\ \A j \in Cells : Received(j)' = Received(j)
        /\ \A j \in Cells : lost[j] \subseteq lost'[j]
    BY <1>1, <1>3, LoseFacts
  <2>2. BufOk'
    BY <1>1, <1>3, LoseBuf
  <2>3. /\ cell_status' = cell_status /\ all_cell_ready' = all_cell_ready
        /\ log_config' = log_config /\ logged' = logged
    BY <1>3 DEF Lose, loggerVars
  <2>4. RingsOk'
    <3>1. ASSUME NEW j \in Cells PROVE RingOk(cell_status[j], Received(j), lost'[j], MaxInFlight[j])
      <4>1. RingOk(cell_status[j], Received(j), lost[j], MaxInFlight[j]) /\ MaxInFlight[j] \in Nat
        BY <1>1, LoggerAssumption DEF RingsOk
      <4> QED
        BY <2>1, <4>1, RingMoreLost
    <3> QED
      BY <2>1, <2>3, <3>1 DEF RingsOk
  <2>5. Logging'
    BY <1>1, <2>1, <2>3 DEF Logging
  <2> QED
    BY <2>1, <2>2, <2>4, <2>5 DEF KeptUp
<1>4. CASE Log
  BY <1>4, LogKeeps
<1>5. CASE UNCHANGED vars
  <2>1. /\ nextTti' = nextTti /\ inFlight' = inFlight /\ lost' = lost
        /\ log_stat_buffer' = log_stat_buffer /\ cell_status' = cell_status
        /\ all_cell_ready' = all_cell_ready /\ log_config' = log_config /\ logged' = logged
    BY <1>5 DEF vars
  <2>2. \A j \in Cells : Received(j)' = Received(j)
    BY <2>1 DEF Received, Waiting
  <2>3. Pools' /\ Queued'
    BY <1>1, <2>1 DEF Pools, PoolOf, Queued
  <2>4. BufOk'
    <3>1. ASSUME NEW b \in 1 .. Len(log_stat_buffer) PROVE log_stat_buffer[b][1] \in Cells
      BY <1>1, TakenNext DEF PoolTypes
    <3> QED
      BY <1>1, <2>1, <2>2, <3>1 DEF BufOk
  <2>5. RingsOk'
    BY <1>1, <2>1, <2>2 DEF RingsOk
  <2>6. Logging'
    BY <1>1, <2>1 DEF Logging
  <2> QED
    BY <2>3, <2>4, <2>5, <2>6 DEF KeptUp
<1> QED
  BY <1>2, <1>3, <1>4, <1>5 DEF Next, Done, Candidates

(* Once a result was overwritten it stays so.                              *)
LEMMA OverrunStays ==
  ASSUME Types, [Next]_vars, ~overrun'
  PROVE  ~overrun
<1>1. ASSUME NEW i \in Cells, NEW n \in Candidates(i), Finish(i, n) PROVE ~overrun
  <2>1. PICK T : Finished(i, n, T)
    BY <1>1, FinishFacts DEF Types
  <2> QED
    BY <2>1 DEF Finished, Appends, Overwrites
<1>2. ASSUME NEW i \in Cells, Lose(i) PROVE ~overrun
  BY <1>2 DEF Lose
<1>3. CASE Log
  BY <1>3 DEF Log
<1>4. CASE UNCHANGED vars
  BY <1>4 DEF vars
<1> QED
  BY <1>1, <1>2, <1>3, <1>4 DEF Next, Done, Candidates

(* The invariant is inductive.                                             *)
LEMMA StepLogger ==
  ASSUME Sizes, LoggerInv, [Next]_vars
  PROVE  LoggerInv'
<1>1. Types'
  BY StepTypes DEF LoggerInv
<1>2. ASSUME ~overrun' PROVE KeptUp'
  BY <1>2, OverrunStays, StepKept DEF LoggerInv
<1> QED
  BY <1>1, <1>2 DEF LoggerInv

(* The newest result of a cell.                                            *)
LEMMA NewestIs ==
  ASSUME NEW i \in Cells, NEW r, NEW N, NEW L, NEW p, RingAt(r, Received(i), L, N, p)
  PROVE  Newest(i) = N /\ N \in Int
<1>1. PICK R : R = Received(i)
  OBVIOUS
<1>2. N \in R /\ (\A m \in R : m <= N) /\ R \subseteq FirstTti .. LastTti
  BY <1>1 DEF RingAt, Newer
<1>3. LastTti \in Nat /\ R \in SUBSET (0 .. LastTti) /\ R # {}
  BY <1>2, LoggerAssumption
<1>4. Max(R) \in R /\ \A m \in R : m <= Max(R)
  BY <1>3, MaxIsHighest
<1>5. PICK M \in R : M = Max(R) /\ \A m \in R : m <= M
  BY <1>4
<1>6. M \in Int /\ N \in Int /\ M <= N /\ N <= M
  BY <1>2, <1>5
<1> QED
  BY <1>1, <1>5, <1>6 DEF Newest

(* The ring of a cell, either empty or at its newest result.               *)
LEMMA RingNow ==
  ASSUME LoggerInv, NEW i \in Cells, Regular(i)
  PROVE  \/ /\ cell_status[i].pushed = << >> /\ ~cell_status[i].cell_ready /\ Received(i) = {}
            /\ cell_status[i].nof_logged_dci = 0
         \/ /\ RingAt(cell_status[i], Received(i), lost[i], Newest(i), MaxInFlight[i])
            /\ cell_status[i].cell_ready /\ Newest(i) \in Int
<1>1. RingOk(cell_status[i], Received(i), lost[i], MaxInFlight[i]) /\ cell_status[i].clean
  BY DEF LoggerInv, KeptUp, RingsOk, Regular
<1>2. CASE Received(i) = {}
  BY <1>1, <1>2 DEF RingOk
<1>3. CASE Received(i) # {}
  <2>1. PICK N : RingAt(cell_status[i], Received(i), lost[i], N, MaxInFlight[i])
    BY <1>1, <1>3 DEF RingOk
  <2>2. Newest(i) = N /\ N \in Int
    BY <2>1, NewestIs
  <2> QED
    BY <1>1, <1>3, <2>1, <2>2 DEF RingOk
<1> QED
  BY <1>2, <1>3

(* A subframe that did produce a result is handed on in its turn, for any  *)
(* number of cells, decoders and laps (dci_ring_buffer_put_dci).           *)
THEOREM HandedInOrder ==
  ASSUME Sizes
  PROVE  Spec => []InOrderButLost
<1>1. LoggerInv => InOrderButLost
  <2> SUFFICES ASSUME LoggerInv, NEW i \in Cells, Regular(i), NEW k \in DOMAIN cell_status[i].pushed
               PROVE  cell_status[i].pushed[k] = Expected(i, k) \/ Expected(i, k) \in lost[i]
    BY DEF InOrderButLost
  <2>1. cell_status[i].pushed \in Seq(Vals)
    BY DEF LoggerInv, Types, RingTypes, Rings
  <2>2. k \in 1 .. Len(cell_status[i].pushed)
    BY <2>1, LenProperties
  <2>3. cell_status[i].pushed # << >>
    BY <2>2, EmptySeq
  <2>4. Handed(cell_status[i], Received(i), lost[i], Newest(i))
    BY <2>3, RingNow DEF RingAt
  <2> QED
    BY <2>2, <2>4 DEF Handed, Turn, Expected
<1> QED
  BY <1>1, InitLogger, StepLogger, PTL DEF Spec

(* The header passes a subframe without a result only when it lags the     *)
(* newest one by more than the timeout (check_dci_decoding_timeout).       *)
THEOREM GivesUpLate ==
  ASSUME Sizes
  PROVE  Spec => []GiveUpOnlyAfterTimeout
<1>1. LoggerInv => GiveUpOnlyAfterTimeout
  <2> SUFFICES ASSUME LoggerInv, NEW i \in Cells, Regular(i), NEW k \in DOMAIN cell_status[i].pushed
               PROVE  Expected(i, k) \in Received(i) \/ Newest(i) - Expected(i, k) > DecodeTimeout
    BY DEF GiveUpOnlyAfterTimeout
  <2>1. cell_status[i].pushed \in Seq(Vals)
    BY DEF LoggerInv, Types, RingTypes, Rings
  <2>2. k \in 1 .. Len(cell_status[i].pushed)
    BY <2>1, LenProperties
  <2>3. cell_status[i].pushed # << >>
    BY <2>2, EmptySeq
  <2>4. Handed(cell_status[i], Received(i), lost[i], Newest(i))
    BY <2>3, RingNow DEF RingAt
  <2> QED
    BY <2>2, <2>4 DEF Handed, Turn, Expected
<1> QED
  BY <1>1, InitLogger, StepLogger, PTL DEF Spec

(* The header of an active ring follows the newest result within the       *)
(* timeout: neither a slow decoder, nor a lost subframe, nor a flag that   *)
(* was cleared in the wrong slot holds it back (update_cell_status_header).*)
THEOREM HeaderKeepsUp ==
  ASSUME Sizes
  PROVE  Spec => []BoundedLag
<1>1. LoggerInv => BoundedLag
  <2> SUFFICES ASSUME LoggerInv, NEW i \in Cells, Regular(i), cell_status[i].cell_ready, Active(i)
               PROVE  Newest(i) - cell_status[i].head <= DecodeTimeout + 1
    BY DEF BoundedLag
  <2>1. Lag(cell_status[i], Newest(i))
    BY RingNow DEF RingAt
  <2> QED
    BY <2>1 DEF Lag, Active, Eighth
<1> QED
  BY <1>1, InitLogger, StepLogger, PTL DEF Spec

(* The header never overtakes the newest result.                           *)
THEOREM HeaderNotAhead ==
  ASSUME Sizes
  PROVE  Spec => []HeaderBehindNewest
<1>1. LoggerInv => HeaderBehindNewest
  <2> SUFFICES ASSUME LoggerInv, NEW i \in Cells, Regular(i), cell_status[i].cell_ready
               PROVE  cell_status[i].head <= Newest(i)
    BY DEF HeaderBehindNewest
  <2>1. cell_status[i].head \in cell_status[i].first - 1 .. Newest(i) /\ Newest(i) \in Int
    BY RingNow DEF RingAt
  <2> QED
    BY <2>1
<1> QED
  BY <1>1, InitLogger, StepLogger, PTL DEF Spec

(* The files get every subframe the header passes, once and in order, with *)
(* the content its decoder reported (log_multi_cell, log_per_cell).        *)
THEOREM LogsInOrder ==
  ASSUME Sizes
  PROVE  Spec => []LoggedInOrder
<1>1. LoggerInv => LoggedInOrder
  <2> SUFFICES ASSUME LoggerInv, NEW i \in Cells, Regular(i)
               PROVE  /\ all_cell_ready => log_config[i].tti = cell_status[i].head
                      /\ \A k \in DOMAIN logged[i] :
                             \/ logged[i][k] = log_config[i].tti - Len(logged[i]) + k
                             \/ log_config[i].tti - Len(logged[i]) + k \in lost[i]
    BY DEF LoggedInOrder
  <2>1. logged[i] \in Seq(Vals)
    BY DEF LoggerInv, Types, RingTypes
  <2>2. DOMAIN logged[i] = 1 .. Len(logged[i])
    BY <2>1, LenProperties
  <2> QED
    BY <2>2 DEF LoggerInv, KeptUp, Logging, Regular
<1> QED
  BY <1>1, InitLogger, StepLogger, PTL DEF Spec

-----------------------------------------------------------------------------
(* The end of the input.                                                   *)

\* The input goes on after every cell delivered its first result.
LongEnough ==
    \A j \in Cells :
        FirstTti + MaxSkew + MaxBuffer + MaxInFlight[j] + MaxLost[j] + DecodeTimeout <= LastTti

\* No pool has more in work than it has decoders, the cells stay in step, and
\* the logger waits while a cell delivered nothing.
Working == \A i \in Cells : Cardinality(inFlight[i]) < MaxInFlight[i]
Skewed == \A i, j \in Cells : nextTti[i] <= nextTti[j] + MaxSkew
Awaits == ~all_cell_ready => \E j \in Cells : ~cell_status[j].cell_ready
Drains == Working /\ Skewed /\ Awaits /\ LateOk
DrainInv == LoggerInv /\ (~overrun => Drains)

(* A cell that delivered nothing is not far.                               *)
LEMMA FirstRound ==
  ASSUME Types, KeptUp, Working, NEW j \in Cells, Received(j) = {}
  PROVE  nextTti[j] <= FirstTti + MaxBuffer + MaxInFlight[j] + MaxLost[j]
<1>1. PICK t \in FirstTti .. LastTti + 1 : t = nextTti[j]
  BY DEF Types, PoolTypes
<1>2. PICK u \in Seq(Entries) : u = log_stat_buffer /\ Len(u) <= MaxBuffer
  BY DEF KeptUp, BufOk
<1>3. PICK F, L, W : F = inFlight[j] /\ L = lost[j] /\ W = TakenOf(u, j, Len(u))
  OBVIOUS
<1>4. Received(j) = Got(j, t, F, L, u)
  BY <1>1, <1>2, <1>3, ReceivedGot DEF Types
<1>5. FirstTti \in Nat /\ LastTti \in Nat /\ MaxBuffer \in Nat /\ MaxInFlight[j] \in Nat /\ MaxLost[j] \in Nat
  BY LoggerAssumption
<1>6. IsFiniteSet(F) /\ IsFiniteSet(L)
  <2>1. IsFiniteSet(FirstTti .. LastTti)
    BY <1>5, FS_Interval
  <2>2. F \subseteq FirstTti .. LastTti /\ L \subseteq FirstTti .. LastTti
    BY <1>3 DEF Types, PoolTypes
  <2> QED
    BY <2>1, <2>2, FS_Subset
<1>7. IsFiniteSet(W) /\ Cardinality(W) \in Nat /\ Cardinality(W) <= Len(u) /\ Len(u) \in Nat
  BY <1>3, TakenFew
<1>8. PICK B : B = L \cup W
  OBVIOUS
<1>9. IsFiniteSet(B) /\ Cardinality(B) <= Cardinality(L) + Cardinality(W)
  <2>1. /\ IsFiniteSet(L \cup W) /\ IsFiniteSet(L \cap W)
        /\ Cardinality(L \cup W) = Cardinality(L) + Cardinality(W) - Cardinality(L \cap W)
    BY <1>6, <1>7, FS_Union, FS_Subset
  <2>2. Cardinality(L) \in Nat /\ Cardinality(W) \in Nat /\ Cardinality(L \cap W) \in Nat
    BY <1>6, <1>7, <2>1, FS_CardinalityType
  <2> QED
    BY <1>8, <2>1, <2>2
<1>10. PICK b \in Int : b = t - 1
  BY <1>1
<1>11. FirstTti .. b \subseteq F \cup B
  BY <1>3, <1>4, <1>8, <1>10 DEF Got
<1>12. b - FirstTti + 1 <= Cardinality(F) + Cardinality(B) /\ Cardinality(F) \in Nat /\ Cardinality(B) \in Nat
  <2>1. FirstTti \in Int
    BY <1>5
  <2> QED
    BY <1>6, <1>9, <1>11, <2>1, CoverBound
<1>13. Cardinality(F) < MaxInFlight[j] /\ Cardinality(L) <= MaxLost[j] /\ Cardinality(L) \in Nat
  BY <1>3, <1>6, FS_CardinalityType DEF Working, KeptUp, Pools, PoolOf
<1>14. PICK f \in Nat, l \in Nat, w \in Nat, c \in Nat :
           f = Cardinality(F) /\ l = Cardinality(L) /\ w = Cardinality(W) /\ c = Cardinality(B)
  BY <1>7, <1>12, <1>13
<1>15. PICK p \in Nat, q \in Nat : p = MaxInFlight[j] /\ q = MaxLost[j]
  BY <1>5
<1>16. t - FirstTti <= f + c /\ c <= l + w /\ f < p /\ l <= q
  <2>1. b - FirstTti + 1 = t - FirstTti
    BY <1>1, <1>5, <1>10
  <2> QED
    BY <1>9, <1>12, <1>13, <1>14, <1>15, <2>1
<1>17. w <= MaxBuffer
  BY <1>2, <1>5, <1>7, <1>14
<1>18. t <= FirstTti + MaxBuffer + p + q
  BY <1>1, <1>5, <1>16, <1>17
<1> QED
  BY <1>1, <1>15, <1>18

(* Clearing flags before the end of the input does not matter.             *)
LEMMA ClearedLate ==
  ASSUME NEW rings \in [Cells -> Rings], NEW i \in Cells, NEW R, Late(rings[i], R),
         i = 0 => \A m \in R : ~(m >= LastTti - DecodeTimeout)
  PROVE  Late(Cleared(rings)[i], R)
<1>1. CASE i = 0
  BY <1>1 DEF Late
<1>2. CASE i # 0
  BY <1>2, ClearedType
<1> QED
  BY <1>1, <1>2

(* A round of the logger on the way there.                                 *)
LEMMA LogDrains ==
  ASSUME Sizes, LongEnough, Types, KeptUp, Drains, Log
  PROVE  Awaits' /\ LateOk'
<1>1. PoolTypes /\ RingTypes /\ Pools /\ Queued /\ BufOk /\ RingsOk /\ Logging /\ LateOk /\ Awaits
  BY DEF Drains, KeptUp, Types
<1>2. nextTti' = nextTti
  BY DEF Log
<1>3. PICK rings : rings = Filled
  OBVIOUS
<1>4. LogNothing(rings) \/ LogFirst(rings) \/ LogCells(rings)
  BY <1>3 DEF Log
<1>5. LossesOk /\ Timely
  BY <1>1, LossesBound
<1>6. rings \in [Cells -> Rings]
  BY <1>1, <1>3, FilledType DEF PoolTypes, RingTypes
<1>7. ASSUME NEW i \in Cells PROVE Late(rings[i], Received(i)')
  <2>1. PICK S : S = Received(i) \cup TakenOf(log_stat_buffer, i, Len(log_stat_buffer))
    OBVIOUS
  <2>2. Late(rings[i], S)
    BY <1>1, <1>3, <1>5, <2>1, FilledOk DEF RingTypes
  <2>3. Received(i)' = S
    BY <1>1, <2>1, LogReceived
  <2> QED
    BY <2>2, <2>3
<1>8. CASE LogNothing(rings)
  BY <1>7, <1>8 DEF LogNothing, Awaits, LateOk
<1>9. CASE LogFirst(rings)
  <2>1. PICK j \in Cells : ~cell_status[j].cell_ready
    BY <1>1, <1>9 DEF LogFirst, Awaits
  <2>2. Received(j) = {}
    BY <1>1, <2>1 DEF RingsOk, RingOk
  <2>3. nextTti[j] <= FirstTti + MaxBuffer + MaxInFlight[j] + MaxLost[j]
    BY <2>2, FirstRound DEF Drains
  <2>4. 0 \in Cells
    BY LoggerAssumption DEF Cells
  <2>5. PICK s \in FirstTti .. LastTti + 1, t \in FirstTti .. LastTti + 1 : s = nextTti[0] /\ t = nextTti[j]
    BY <1>1, <2>4 DEF PoolTypes
  <2>6. s <= t + MaxSkew
    BY <2>4, <2>5 DEF Drains, Skewed
  <2>7. PICK p \in Nat, l \in Nat : p = MaxInFlight[j] /\ l = MaxLost[j]
    BY LoggerAssumption
  <2>8. /\ FirstTti \in Nat /\ LastTti \in Nat /\ MaxSkew \in Nat /\ MaxBuffer \in Nat /\ DecodeTimeout \in Nat
        /\ FirstTti + MaxSkew + MaxBuffer + p + l + DecodeTimeout <= LastTti
    BY <2>7, LoggerAssumption, RingConstants DEF LongEnough
  <2>9. t <= FirstTti + MaxBuffer + p + l
    BY <2>3, <2>5, <2>7
  <2>10. s <= LastTti - DecodeTimeout
    BY <2>5, <2>6, <2>8, <2>9
  <2>11. ASSUME NEW m \in Received(0)' PROVE ~(m >= LastTti - DecodeTimeout)
    <3>1. m \in FirstTti .. s - 1
      BY <1>2, <2>5, <2>11 DEF Received
    <3> QED
      BY <2>5, <2>8, <2>10, <3>1
  <2>12. ASSUME NEW i \in Cells PROVE Late(Cleared(rings)[i], Received(i)')
    <3>1. PICK R : R = Received(i)'
      OBVIOUS
    <3>2. Late(rings[i], R) /\ (i = 0 => \A m \in R : ~(m >= LastTti - DecodeTimeout))
      BY <1>7, <2>11, <3>1
    <3> QED
      BY <1>6, <3>1, <3>2, ClearedLate
  <2> QED
    BY <1>9, <2>12 DEF LogFirst, Awaits, LateOk
<1>10. CASE LogCells(rings)
  <2>1. all_cell_ready /\ all_cell_ready' = all_cell_ready /\ cell_status' = rings
    BY <1>10 DEF LogCells
  <2>2. all_cell_ready'
    BY <2>1
  <2> QED
    BY <1>7, <2>1, <2>2 DEF Awaits, LateOk
<1> QED
  BY <1>4, <1>8, <1>9, <1>10

(* The pools stay in step.                                                 *)
LEMMA FinishDrains ==
  ASSUME PoolTypes, Pools, Working, Skewed, NEW i \in Cells, NEW n \in Candidates(i), Finish(i, n)
  PROVE  Working' /\ Skewed'
<1>1. PICK T : Finished(i, n, T)
  BY FinishFacts
<1>2. FirstTti \in Nat /\ LastTti \in Nat /\ MaxSkew \in Nat
  BY LoggerAssumption
<1>3. nextTti' = [nextTti EXCEPT ![i] = T] /\ nextTti \in [Cells -> FirstTti .. LastTti + 1]
  BY <1>1 DEF Finished, PoolTypes
<1>4. T \in FirstTti .. LastTti + 1 /\ T >= nextTti[i]
  BY <1>1, <1>2, <1>3 DEF Finished
<1>5. Working'
  <2>1. ASSUME NEW j \in Cells PROVE Cardinality(inFlight'[j]) < MaxInFlight[j]
    <3>1. CASE j = i
      BY <3>1 DEF Finish
    <3>2. CASE j # i
      <4>1. inFlight'[j] = inFlight[j]
        BY <1>1, <3>2 DEF Finished, PoolTypes
      <4> QED
        BY <4>1 DEF Working
    <3> QED
      BY <3>1, <3>2
  <2> QED
    BY <2>1 DEF Working
<1>6. ASSUME NEW a \in Cells, NEW b \in Cells PROVE nextTti'[a] <= nextTti'[b] + MaxSkew
  <2>1. PICK x \in FirstTti .. LastTti + 1, y \in FirstTti .. LastTti + 1 : x = nextTti[a] /\ y = nextTti[b]
    BY <1>3
  <2>2. x <= y + MaxSkew
    BY <2>1 DEF Skewed
  <2>3. CASE a = i /\ b = i
    <3>1. nextTti'[a] = T /\ nextTti'[b] = T
      BY <1>3, <2>3
    <3> QED
      BY <1>2, <1>4, <3>1
  <2>4. CASE a = i /\ b # i
    <3>1. nextTti'[a] = T /\ nextTti'[b] = y
      BY <1>3, <2>1, <2>4
    <3>2. T = x \/ (T = n + 1 /\ n \in FirstTti .. LastTti /\ n >= x)
      BY <1>1, <1>2, <2>1, <2>4 DEF Finished
    <3>3. CASE T = x
      BY <2>2, <3>1, <3>3
    <3>4. CASE T = n + 1 /\ n \in FirstTti .. LastTti /\ n >= x
      <4>1. n \notin inFlight[i] => n - y < MaxSkew
        BY <2>1, <2>4 DEF Finish, InStep
      <4>2. CASE n \notin inFlight[i]
        BY <1>2, <2>1, <3>1, <3>4, <4>1, <4>2
      <4>3. CASE n \in inFlight[i] /\ n >= x
        <5>1. n >= nextTti[i] /\ inFlight[i] \subseteq FirstTti .. nextTti[i] - 1
          BY <2>1, <2>4, <4>3 DEF Pools, PoolOf
        <5> QED
          BY <1>2, <1>3, <4>3, <5>1
      <4> QED
        BY <3>4, <4>2, <4>3
    <3> QED
      BY <3>2, <3>3, <3>4
  <2>5. CASE a # i /\ b = i
    <3>1. nextTti'[a] = x /\ nextTti'[b] = T /\ T >= y
      BY <1>3, <1>4, <2>1, <2>5
    <3> QED
      BY <1>2, <1>4, <2>1, <2>2, <3>1
  <2>6. CASE a # i /\ b # i
    <3>1. nextTti'[a] = x /\ nextTti'[b] = y
      BY <1>3, <2>1, <2>6
    <3> QED
      BY <2>2, <3>1
  <2> QED
    BY <2>3, <2>4, <2>5, <2>6
<1> QED
  BY <1>5, <1>6 DEF Skewed

(* Nor does a loss take them out of step.                                  *)
LEMMA LoseDrains ==
  ASSUME PoolTypes, Working, Skewed, NEW i \in Cells, Lose(i)
  PROVE  Working' /\ Skewed'
<1>1. PICK t \in FirstTti .. LastTti + 1 : t = nextTti[i]
  BY DEF PoolTypes
<1>2. FirstTti \in Nat /\ LastTti \in Nat /\ MaxSkew \in Nat \ {0}
  BY LoggerAssumption
<1>3. /\ nextTti' = [nextTti EXCEPT ![i] = t + 1] /\ inFlight' = inFlight
      /\ nextTti \in [Cells -> FirstTti .. LastTti + 1]
  BY <1>1 DEF Lose, PoolTypes
<1>4. Working'
  BY <1>3 DEF Working
<1>5. ASSUME NEW a \in Cells, NEW b \in Cells PROVE nextTti'[a] <= nextTti'[b] + MaxSkew
  <2>1. PICK x \in FirstTti .. LastTti + 1, y \in FirstTti .. LastTti + 1 : x = nextTti[a] /\ y = nextTti[b]
    BY <1>3
  <2>2. x <= y + MaxSkew
    BY <2>1 DEF Skewed
  <2>3. CASE a = i /\ b = i
    <3>1. nextTti'[a] = t + 1 /\ nextTti'[b] = t + 1
      BY <1>3, <2>3
    <3> QED
      BY <1>1, <1>2, <3>1
  <2>4. CASE a = i /\ b # i
    <3>1. nextTti'[a] = t + 1 /\ nextTti'[b] = y
      BY <1>3, <2>1, <2>4
    <3>2. t - y < MaxSkew
      BY <1>1, <2>1, <2>4 DEF Lose, InStep
    <3> QED
      BY <1>1, <1>2, <2>1, <3>1, <3>2
  <2>5. CASE a # i /\ b = i
    <3>1. nextTti'[a] = x /\ nextTti'[b] = t + 1 /\ y = t
      BY <1>1, <1>3, <2>1, <2>5
    <3> QED
      BY <1>1, <1>2, <2>1, <2>2, <3>1
  <2>6. CASE a # i /\ b # i
    <3>1. nextTti'[a] = x /\ nextTti'[b] = y
      BY <1>3, <2>1, <2>6
    <3> QED
      BY <2>2, <3>1
  <2> QED
    BY <2>3, <2>4, <2>5, <2>6
<1> QED
  BY <1>4, <1>5 DEF Skewed

(* The invariant for the end of the input holds at first,                  *)
LEMMA InitDrain ==
  ASSUME Init
  PROVE  DrainInv
<1>1. LoggerInv
  BY InitLogger
<1>2. FirstTti \in Nat /\ MaxSkew \in Nat /\ 0 \in Cells
  BY LoggerAssumption DEF Cells
<1>3. Working
  <2>1. ASSUME NEW i \in Cells PROVE Cardinality(inFlight[i]) < MaxInFlight[i]
    <3>1. inFlight[i] = {} /\ Cardinality({}) = 0
      BY FS_EmptySet DEF Init
    <3>2. MaxInFlight[i] \in Nat \ {0}
      BY LoggerAssumption
    <3> QED
      BY <3>1, <3>2
  <2> QED
    BY <2>1 DEF Working
<1>4. Skewed
  BY <1>2 DEF Init, Skewed
<1>5. Awaits
  BY <1>2 DEF Init, Awaits, EmptyRing
<1>6. LateOk
  <2>1. ASSUME NEW i \in Cells PROVE Received(i) = {}
    BY <1>2 DEF Init, Received
  <2> QED
    BY <2>1 DEF LateOk, Late
<1> QED
  BY <1>1, <1>3, <1>4, <1>5, <1>6 DEF DrainInv, Drains

(* every step keeps it unless a result is overwritten,                     *)
LEMMA StepDrains ==
  ASSUME Sizes, LongEnough, Types, KeptUp, Drains, [Next]_vars, ~overrun'
  PROVE  Drains'
<1>1. PoolTypes /\ Pools /\ Queued /\ Working /\ Skewed /\ Awaits /\ LateOk
  BY DEF Drains, KeptUp, Types
<1>2. ASSUME NEW i \in Cells, NEW n \in Candidates(i), Finish(i, n) PROVE Drains'
  <2>1. Working' /\ Skewed'
    BY <1>1, <1>2, FinishDrains
  <2>2. Appends(<<i, n>>)
    <3>1. PICK T : Finished(i, n, T)
      BY <1>1, <1>2, FinishFacts
    <3> QED
      BY <3>1 DEF Finished, Overwrites
  <2>3. \A j \in Cells : Received(j)' = Received(j)
    BY <1>1, <1>2, <2>2, FinishReceived
  <2>4. cell_status' = cell_status /\ all_cell_ready' = all_cell_ready
    BY <1>2 DEF Finish, loggerVars
  <2>5. Awaits' /\ LateOk'
    BY <1>1, <2>3, <2>4 DEF Awaits, LateOk
  <2> QED
    BY <2>1, <2>5 DEF Drains
<1>3. ASSUME NEW i \in Cells, Lose(i) PROVE Drains'
  <2>1. Working' /\ Skewed'
    BY <1>1, <1>3, LoseDrains
  <2>2. \A j \in Cells : Received(j)' = Received(j)
    BY <1>1, <1>3, LoseFacts
  <2>3. cell_status' = cell_status /\ all_cell_ready' = all_cell_ready
    BY <1>3 DEF Lose, loggerVars
  <2>4. Awaits' /\ LateOk'
    BY <1>1, <2>2, <2>3 DEF Awaits, LateOk
  <2> QED
    BY <2>1, <2>4 DEF Drains
<1>4. CASE Log
  <2>1. Awaits' /\ LateOk'
    BY <1>4, LogDrains
  <2>2. Working' /\ Skewed'
    BY <1>1, <1>4 DEF Log, Working, Skewed
  <2> QED
    BY <2>1, <2>2 DEF Drains
<1>5. CASE UNCHANGED vars
  <2>1. \A j \in Cells : Received(j)' = Received(j)
    BY <1>5 DEF vars, Received, Waiting
  <2> QED
    BY <1>1, <1>5, <2>1 DEF vars, Working, Skewed, Awaits, LateOk, Drains
<1> QED
  BY <1>2, <1>3, <1>4, <1>5 DEF Next, Done, Candidates

(* and so it is inductive.                                                 *)
LEMMA StepDrain ==
  ASSUME Sizes, LongEnough, DrainInv, [Next]_vars
  PROVE  DrainInv'
<1>1. LoggerInv'
  BY StepLogger DEF DrainInv
<1>2. ASSUME ~overrun' PROVE Drains'
  BY <1>2, OverrunStays, StepDrains DEF DrainInv, LoggerInv
<1> QED
  BY <1>1, <1>2 DEF DrainInv

(* At the end of an input that is long enough the header of an active ring *)
(* stands at the last subframe: the flags log_multi_cell clears in the     *)
(* first ring, with the cells' indices for slots, hold nothing back.       *)
THEOREM HeaderArrives ==
  ASSUME Sizes, LongEnough
  PROVE  Spec => []Drained
<1>1. DrainInv => Drained
  <2> SUFFICES ASSUME DrainInv, NEW i \in Cells, Regular(i), Received(i) = FirstTti .. LastTti, Active(i)
               PROVE  cell_status[i].head = LastTti
    BY DEF Drained
  <2>1. FirstTti \in Nat /\ LastTti \in Nat /\ FirstTti <= LastTti /\ DecodeTimeout \in Nat
    BY LoggerAssumption, RingConstants
  <2>2. PICK r : r = cell_status[i]
    OBVIOUS
  <2>3. Received(i) # {}
    BY <2>1
  <2>4. PICK N : N = Newest(i) /\ RingAt(r, Received(i), lost[i], N, MaxInFlight[i]) /\ N \in Int
    BY <2>2, <2>3, RingNow DEF DrainInv
  <2>5. N = LastTti
    <3>1. N \in FirstTti .. LastTti /\ \A m \in FirstTti .. LastTti : m <= N
      BY <2>4 DEF RingAt, Newer
    <3> QED
      BY <2>1, <3>1
  <2>6. PICK h \in Int : h = r.head /\ h <= LastTti /\ h >= FirstTti - 1
    <3>1. PICK f \in FirstTti .. LastTti : f = r.first
      BY <2>4 DEF RingAt
    <3> QED
      BY <2>1, <2>4, <2>5, <3>1 DEF RingAt
  <2>7. N - h <= DecodeTimeout + 1 /\ (h + 1) % BufSize \notin r.filled
    BY <2>2, <2>4, <2>6 DEF RingAt, Lag, Active, Eighth
  <2>8. ASSUME h # LastTti PROVE FALSE
    <3>1. PICK m \in Int : m = h + 1
      OBVIOUS
    <3>2. m \in Received(i) /\ m > h /\ m >= LastTti - DecodeTimeout
      BY <2>1, <2>5, <2>6, <2>7, <2>8, <3>1
    <3>3. Late(r, Received(i))
      BY <2>2 DEF DrainInv, Drains, LateOk, Regular
    <3>4. r.clean
      BY <2>2 DEF Regular
    <3> QED
      BY <2>6, <2>7, <3>1, <3>2, <3>3, <3>4 DEF Late
  <2> QED
    BY <2>2, <2>6, <2>8
<1> QED
  BY <1>1, InitDrain, StepDrain, PTL DEF Spec
=============================================================================
