---------------------------- MODULE IndexLemmas ----------------------------
(***************************************************************************)
(* Facts about sets of array indices that several proofs use: what is      *)
(* proved for the first index that could fail is proved for all of them.   *)
(***************************************************************************)
EXTENDS Integers, FiniteSetsExt, FiniteSetTheorems, TLAPS

(* A nonempty set of indices has a lowest one.  (Sets of lower elements    *)
(* are finite, so strict inclusion between them is well founded.)          *)
LEMMA LowestExists ==
  ASSUME NEW n \in Nat, NEW S \in SUBSET (0 .. n), S # {}
  PROVE  \E m \in S : \A x \in S : m <= x
<1> DEFINE Below(m) == {x \in S : x < m}
<1> DEFINE Family == {Below(m) : m \in S}
<1> DEFINE R == StrictSubsetOrdering(0 .. n)
<1>1. Family \subseteq SUBSET (0 .. n) /\ Family # {}
  <2>1. \A m \in S : Below(m) \in SUBSET (0 .. n)
    OBVIOUS
  <2> HIDE DEF Below
  <2> QED
    BY <2>1
<1>2. IsWellFoundedOn(R, SUBSET (0 .. n))
  <2>1. IsFiniteSet(0 .. n)
    BY FS_Interval
  <2> QED
    BY <2>1, FS_StrictSubsetOrderingWellFounded, FS_FiniteSubsetsOfFinite
<1> HIDE DEF R, Family
<1>3. \E X \in Family : \A Y \in Family : ~(<<Y, X>> \in R)
  BY ONLY <1>1, <1>2, WFMin, Zenon
<1>4. PICK m \in S : \A Y \in Family : ~(<<Y, Below(m)>> \in R)
  BY <1>3 DEF Family
<1>5. ASSUME NEW x \in S, x < m PROVE FALSE
  <2>1. /\ Below(x) \in Family
        /\ Below(x) \in SUBSET (0 .. n) /\ Below(m) \in SUBSET (0 .. n)
    BY DEF Family
  <2>2. x \in Below(m) /\ x \notin Below(x)
    BY <1>5
  <2>3. Below(x) \subseteq Below(m)
    <3> SUFFICES ASSUME NEW y \in S, y < x PROVE y < m
      OBVIOUS
    <3> QED
      BY <1>5
  <2>4. <<Below(x), Below(m)>> \in R
    BY <2>1, <2>2, <2>3 DEF R, StrictSubsetOrdering
  <2> QED
    BY <1>4, <2>1, <2>4
<1> QED
  BY <1>5

(* Min of a set of indices is that lowest one.                             *)
LEMMA MinIsLowest ==
  ASSUME NEW n \in Nat, NEW S \in SUBSET (0 .. n), S # {}
  PROVE  Min(S) \in S /\ \A x \in S : Min(S) <= x
<1>1. \E m \in S : \A x \in S : m <= x
  BY LowestExists
<1> QED
  BY <1>1 DEF Min

(* It has a highest one: the lowest when counted from the other end.       *)
LEMMA HighestExists ==
  ASSUME NEW n \in Nat, NEW S \in SUBSET (0 .. n), S # {}
  PROVE  \E m \in S : \A x \in S : x <= m
<1> DEFINE T == {n - x : x \in S}
<1>1. T \in SUBSET (0 .. n) /\ T # {}
  <2>1. \A x \in S : n - x \in 0 .. n
    OBVIOUS
  <2>2. PICK x : x \in S
    OBVIOUS
  <2>3. n - x \in T
    BY <2>2
  <2>4. T \subseteq 0 .. n
    BY <2>1
  <2> QED
    BY <2>3, <2>4
<1>2. \E t \in T : \A u \in T : t <= u
  <2> HIDE DEF T
  <2> QED
    BY <1>1, LowestExists
<1>3. PICK m \in S : \A u \in T : n - m <= u
  BY <1>2
<1>4. ASSUME NEW x \in S PROVE x <= m
  <2>1. n - m <= n - x
    BY <1>3
  <2> QED
    BY <2>1
<1> QED
  BY <1>4

(* Max of a set of indices is that highest one.                            *)
LEMMA MaxIsHighest ==
  ASSUME NEW n \in Nat, NEW S \in SUBSET (0 .. n), S # {}
  PROVE  Max(S) \in S /\ \A x \in S : x <= Max(S)
<1>1. PICK m \in S : \A x \in S : x <= m
  BY HighestExists
<1>2. \E y \in S : \A x \in S : y >= x
  BY <1>1
<1> QED
  BY <1>2 DEF Max

(* The numbers a table holds have a bound.                                 *)
LEMMA TableBounded ==
  ASSUME NEW k \in Nat, NEW f \in [0 .. k - 1 -> Nat]
  PROVE  \E n \in Nat : \A i \in 0 .. k - 1 : f[i] <= n
<1> DEFINE Has(m) == \E n \in Nat : \A i \in 0 .. m - 1 : f[i] <= n
<1> DEFINE Bad == {m \in 0 .. k : ~Has(m)}
<1>1. CASE Bad = {}
  <2>1. k \in 0 .. k
    OBVIOUS
  <2>2. Has(k)
    <3> HIDE DEF Has
    <3> QED
      BY <1>1, <2>1
  <2> QED
    BY <2>2
<1>2. CASE Bad # {}
  <2>1. \E m \in Bad : \A x \in Bad : m <= x
    <3>1. Bad \in SUBSET (0 .. k)
      OBVIOUS
    <3> HIDE DEF Bad
    <3> QED
      BY <1>2, <3>1, LowestExists
  <2>2. PICK m \in Bad : \A x \in Bad : m <= x
    BY <2>1
  <2>3. m \in 0 .. k /\ ~Has(m)
    OBVIOUS
  <2>4. Has(0)
    <3>1. 0 \in Nat /\ \A i \in 0 .. 0 - 1 : f[i] <= 0
      OBVIOUS
    <3> QED
      BY <3>1
  <2>5. m # 0 /\ m - 1 \in 0 .. k /\ m - 1 \in 0 .. k - 1 /\ ~(m <= m - 1)
    BY <2>3, <2>4
  <2>6. Has(m - 1)
    <3> HIDE DEF Has
    <3> QED
      BY <2>2, <2>5
  <2>7. PICK n \in Nat : \A i \in 0 .. (m - 1) - 1 : f[i] <= n
    BY <2>6
  <2>8. PICK w \in Nat : n <= w /\ f[m - 1] <= w
    <3>1. f[m - 1] \in Nat
      BY <2>5
    <3>2. n + f[m - 1] \in Nat /\ n <= n + f[m - 1] /\ f[m - 1] <= n + f[m - 1]
      BY <3>1
    <3> QED
      BY <3>2
  <2>9. ASSUME NEW i \in 0 .. m - 1 PROVE f[i] <= w
    <3>1. CASE i = m - 1
      BY <2>8, <3>1
    <3>2. CASE i # m - 1
      <4>1. i \in 0 .. (m - 1) - 1 /\ i \in 0 .. k - 1
        BY <2>3, <2>5, <3>2
      <4>2. f[i] \in Nat /\ f[i] <= n
        BY <2>7, <4>1
      <4> QED
        BY <2>8, <4>2
    <3> QED
      BY <3>1, <3>2
  <2>10. Has(m)
    BY <2>9
  <2> QED
    BY <2>3, <2>10
<1> QED
  BY <1>1, <1>2

\* Functions that give each index but 0 an earlier one; the tables over
\* 0 .. N in which an entry is a function F of the entry at that index.
Earlier(N) == {u \in [1 .. N -> 0 .. N] : \A n \in 1 .. N : u[n] < n}
Fills(g, N, s, F, up) == g[0] = s /\ \A n \in 1 .. N : g[n] = F[<<g[up[n]], n>>]

(* Such a table exists: it can be filled in index order.                   *)
LEMMA TableExists ==
  ASSUME NEW N \in Nat, NEW S, NEW s \in S, NEW F \in [S \X (1 .. N) -> S],
         NEW up \in Earlier(N)
  PROVE  \E g \in [0 .. N -> S] : Fills(g, N, s, F, up)
<1> USE DEF Earlier, Fills
<1> DEFINE Lists(g, m) == g[0] = s /\ \A n \in 1 .. m : g[n] = F[<<g[up[n]], n>>]
           Bad == {m \in 0 .. N : ~ \E g \in [0 .. m -> S] : Lists(g, m)}
<1>1. Bad = {}
  <2> SUFFICES ASSUME Bad # {} PROVE FALSE
    OBVIOUS
  <2>1. PICK m \in Bad : \A n \in Bad : m <= n
    <3>1. Bad \in SUBSET (0 .. N)
      OBVIOUS
    <3> HIDE DEF Bad
    <3> QED
      BY <3>1, LowestExists
  <2>2. m \in 0 .. N /\ ~ \E g \in [0 .. m -> S] : Lists(g, m)
    OBVIOUS
  <2>3. CASE m = 0
    <3>1. [n \in 0 .. 0 |-> s] \in [0 .. 0 -> S] /\ Lists([n \in 0 .. 0 |-> s], 0)
      OBVIOUS
    <3> QED
      BY <2>2, <2>3, <3>1
  <2>4. CASE m # 0
    <3>1. m - 1 \in 0 .. N /\ m - 1 \notin Bad /\ m \in 1 .. N /\ up[m] \in 0 .. m - 1
      <4>1. m \in Int /\ m - 1 \in 0 .. N /\ m \in 1 .. N /\ up[m] \in 0 .. m - 1 /\ ~(m <= m - 1)
        BY <2>2, <2>4
      <4>2. m - 1 \notin Bad
        <5> HIDE DEF Bad
        <5> QED
          BY <2>1, <4>1
      <4> QED
        BY <4>1, <4>2
    <3>2. PICK g \in [0 .. m - 1 -> S] : Lists(g, m - 1)
      BY <3>1
    <3> DEFINE h == [n \in 0 .. m |-> IF n = m THEN F[<<g[up[m]], m>>] ELSE g[n]]
    <3>3. h \in [0 .. m -> S]
      <4>1. <<g[up[m]], m>> \in S \X (1 .. N)
        BY <3>1
      <4>2. F[<<g[up[m]], m>>] \in S
        BY <4>1
      <4>3. ASSUME NEW n \in 0 .. m, n # m PROVE g[n] \in S
        BY <3>1, <4>3
      <4> QED
        BY <4>2, <4>3
    <3>4. h[0] = s
      BY <2>4, <3>1, <3>2
    <3>5. ASSUME NEW n \in 1 .. m PROVE h[n] = F[<<h[up[n]], n>>]
      <4>1. n \in 0 .. m /\ up[n] \in 0 .. m /\ up[n] # m
        BY <3>1
      <4>2. h[up[n]] = g[up[n]]
        BY <4>1
      <4>3. CASE n = m
        BY <4>1, <4>2, <4>3
      <4>4. CASE n # m
        <5>1. n \in 1 .. m - 1
          BY <3>1, <4>4
        <5>2. g[n] = F[<<g[up[n]], n>>] /\ h[n] = g[n]
          BY <3>2, <4>1, <4>4, <5>1
        <5> QED
          BY <4>2, <5>2
      <4> QED
        BY <4>3, <4>4
    <3>6. Lists(h, m)
      BY <3>4, <3>5
    <3> QED
      BY <2>2, <3>3, <3>6
  <2> QED
    BY <2>3, <2>4
<1>2. N \in 0 .. N
  OBVIOUS
<1> QED
  BY <1>1, <1>2

\* The states of a loop over the indices 1 .. N with body F, s the first.
LoopStates(N, S, s, F) == \E g \in [0 .. N -> S] : g[0] = s /\ \A n \in 1 .. N : g[n] = F[<<g[n - 1], n>>]

(* A loop over the indices 1 .. N whose body F stays inside S has a        *)
(* function that lists its states.                                         *)
LEMMA LoopListed ==
  ASSUME NEW N \in Nat, NEW S, NEW s \in S, NEW F \in [S \X (1 .. N) -> S]
  PROVE  LoopStates(N, S, s, F)
<1>1. PICK up : up = [n \in 1 .. N |-> n - 1]
  OBVIOUS
<1>2. up \in [1 .. N -> 0 .. N]
  BY <1>1
<1>3. \A n \in 1 .. N : up[n] = n - 1
  BY <1>1
<1>4. up \in Earlier(N)
  BY <1>2, <1>3 DEF Earlier
<1>5. PICK g \in [0 .. N -> S] : Fills(g, N, s, F, up)
  BY <1>4, TableExists
<1> QED
  BY <1>3, <1>5 DEF Fills, LoopStates

(* The same with the list spelled out.                                     *)
LEMMA RecursionExists ==
  ASSUME NEW N \in Nat, NEW S, NEW s \in S, NEW F \in [S \X (1 .. N) -> S]
  PROVE  \E g \in [0 .. N -> S] : g[0] = s /\ \A n \in 1 .. N : g[n] = F[<<g[n - 1], n>>]
<1>1. LoopStates(N, S, s, F)
  BY LoopListed
<1> QED
  BY <1>1 DEF LoopStates

\* Keys that tell the elements of S apart; the elements with fewer than room
\* lower ones.
Keys(S, n) == {k \in [S -> 0 .. n] : \A x, y \in S : k[x] = k[y] => x = y}
First(S, key, room) == {x \in S : Cardinality({y \in S : key[y] < key[x]}) < room}

(* When the elements of a set are taken in the order of their keys while   *)
(* there is room, no more are taken than there is room for, and as many as *)
(* that when one is left.                                                  *)
LEMMA TakenInOrder ==
  ASSUME NEW n \in Nat, NEW S, IsFiniteSet(S), NEW key \in Keys(S, n),
         NEW room \in Nat, NEW T, T = First(S, key, room)
  PROVE  /\ IsFiniteSet(T) /\ Cardinality(T) \in Nat /\ Cardinality(T) <= room
         /\ T # S => Cardinality(T) >= room
<1> USE DEF Keys, First
<1> DEFINE Lower(x) == {y \in S : key[y] < key[x]}
           Image(U) == {key[x] : x \in U}
<1>1. IsFiniteSet(T) /\ Cardinality(T) \in Nat
  BY FS_Subset, FS_CardinalityType
<1>2. ASSUME NEW x \in S PROVE IsFiniteSet(Lower(x)) /\ Cardinality(Lower(x)) \in Nat
  BY FS_Subset, FS_CardinalityType
<1>3. ASSUME NEW U \in SUBSET S, U # {} PROVE Image(U) \in SUBSET (0 .. n) /\ Image(U) # {}
  BY <1>3
<1>4. Cardinality(T) <= room
  <2>1. CASE T = {}
    <3>1. Cardinality(T) = 0
      BY <2>1, FS_EmptySet
    <3> QED
      BY <3>1
  <2>2. CASE T # {}
    <3>1. Image(T) \in SUBSET (0 .. n) /\ Image(T) # {}
      BY <1>3, <2>2
    <3>2. \E k \in Image(T) : \A j \in Image(T) : j <= k
      <4> HIDE DEF Image
      <4> QED
        BY <3>1, HighestExists
    <3>3. PICK x \in T : \A y \in T : key[y] <= key[x]
      BY <3>2
    <3>4. T \subseteq Lower(x) \cup {x}
      <4> SUFFICES ASSUME NEW y \in T, y # x PROVE key[y] < key[x]
        OBVIOUS
      <4>1. key[y] <= key[x] /\ key[y] # key[x] /\ key[x] \in Int /\ key[y] \in Int
        BY <3>3
      <4> QED
        BY <4>1
    <3>5. x \in S /\ Cardinality(Lower(x)) < room /\ x \notin Lower(x)
      OBVIOUS
    <3>6. PICK L : L = Lower(x)
      OBVIOUS
    <3>7. /\ IsFiniteSet(L) /\ Cardinality(L) \in Nat /\ Cardinality(L) < room /\ x \notin L
          /\ T \subseteq L \cup {x}
      BY <1>2, <3>4, <3>5, <3>6
    <3>8. IsFiniteSet(L \cup {x}) /\ Cardinality(L \cup {x}) = Cardinality(L) + 1
      BY <3>7, FS_AddElement
    <3>9. Cardinality(T) <= Cardinality(L \cup {x})
      BY <3>7, <3>8, FS_Subset
    <3> QED
      BY <1>1, <3>7, <3>8, <3>9
  <2> QED
    BY <2>1, <2>2
<1>5. ASSUME T # S PROVE Cardinality(T) >= room
  <2>1. S \ T \in SUBSET S /\ S \ T # {}
    BY <1>5
  <2>2. Image(S \ T) \in SUBSET (0 .. n) /\ Image(S \ T) # {}
    BY <1>3, <2>1
  <2>3. \E k \in Image(S \ T) : \A j \in Image(S \ T) : k <= j
    <3> HIDE DEF Image
    <3> QED
      BY <2>2, LowestExists
  <2>4. PICK x \in S \ T : \A y \in S \ T : key[x] <= key[y]
    BY <2>3
  <2>5. Lower(x) \subseteq T
    <3> SUFFICES ASSUME NEW y \in S, key[y] < key[x], y \notin T PROVE FALSE
      OBVIOUS
    <3>1. key[x] <= key[y] /\ key[x] \in Int /\ key[y] \in Int
      BY <2>4
    <3> QED
      BY <3>1
  <2>6. ~(Cardinality(Lower(x)) < room) /\ Cardinality(Lower(x)) \in Nat
    BY <1>2
  <2>7. Cardinality(Lower(x)) <= Cardinality(T)
    <3> HIDE DEF Lower
    <3> QED
      BY <1>1, <2>5, FS_Subset
  <2> QED
    BY <1>1, <2>6, <2>7
<1> QED
  BY <1>1, <1>4, <1>5

(* The remainders of the code as the one subtraction they stand for.       *)
LEMMA Wraps ==
  ASSUME NEW N \in Nat \ {0}, NEW x \in 0 .. (N + N) - 1
  PROVE  x % N = IF x < N THEN x ELSE x - N
<1>1. CASE x < N
  BY <1>1
<1>2. CASE ~(x < N)
  <2>1. PICK d \in 0 .. N - 1 : x = d + N
    <3>1. x - N \in 0 .. N - 1 /\ x = (x - N) + N
      BY <1>2
    <3> QED
      BY <3>1
  <2> QED
    BY <1>2, <2>1
<1> QED
  BY <1>1, <1>2

(* Dividing, and back.                                                     *)
LEMMA Division ==
  ASSUME NEW N \in Nat \ {0}, NEW n \in Nat
  PROVE  n = (n \div N) * N + (n % N) /\ n % N \in 0 .. N - 1 /\ n \div N \in Nat
OBVIOUS

(* The remainder of what is put together from a quotient and a remainder.  *)
LEMMA DivisionBack ==
  ASSUME NEW N \in Nat \ {0}, NEW a \in Nat, NEW x \in 0 .. N - 1
  PROVE  (a * N + x) % N = x
OBVIOUS

(* The remainder of a number a little further on.                          *)
LEMMA RemainderMoves ==
  ASSUME NEW N \in Nat \ {0}, NEW m \in Nat, NEW d \in 0 .. N - 1
  PROVE  (m + d) % N = IF (m % N) + d < N THEN (m % N) + d ELSE (m % N) + d - N
<1>1. PICK a \in Nat, h \in 0 .. N - 1 : m = a * N + h /\ m % N = h
  BY Division
<1>2. CASE h + d < N
  <2>1. h + d \in 0 .. N - 1 /\ m + d = a * N + (h + d)
    BY <1>1, <1>2
  <2> QED
    BY <1>1, <1>2, <2>1, DivisionBack
<1>3. CASE ~(h + d < N)
  <2>1. h + d - N \in 0 .. N - 1 /\ m + d = (a + 1) * N + (h + d - N) /\ a + 1 \in Nat
    BY <1>1, <1>3
  <2>2. (m + d) % N = h + d - N
    BY <2>1, DivisionBack
  <2> QED
    BY <1>1, <1>3, <2>2
<1> QED
  BY <1>2, <1>3
=============================================================================
