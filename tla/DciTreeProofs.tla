--------------------------- MODULE DciTreeProofs ---------------------------
(***************************************************************************)
(* Proofs about DciTree for every size of the blocks and of the control    *)
(* region, every set of formats and UEs and every signal.                  *)
(***************************************************************************)
EXTENDS DciTree, IndexLemmas, TLAPS

-----------------------------------------------------------------------------
(* The tree of one block.                                                  *)

Parent(i) == (i - 1) \div 2

(* The sizes of a block's tree; the parent of an index comes before it and *)
(* is the parent of its left child.                                        *)
LEMMA Sizes ==
  /\ BlockCces \in Nat \ {0} /\ NofParents \in Nat /\ BlockLocs \in Nat \ {0}
  /\ NofParents = BlockCces - 1 /\ BlockLocs = 2 * BlockCces - 1
  /\ BlockLocs - 1 \in Nat /\ Indices = 0 .. BlockLocs - 1 /\ 0 \in Indices
  /\ \A i \in Indices \ {0} : Parent(i) \in Indices /\ Parent(i) < i
  /\ \A i \in 0 .. NofParents - 1 : 2 * i + 1 \in Indices \ {0} /\ i = Parent(2 * i + 1)
<1>1. BlockCces \in Nat \ {0}
  BY TreeAssumption
<1>2. /\ NofParents \in Nat /\ BlockLocs \in Nat \ {0}
      /\ NofParents = BlockCces - 1 /\ BlockLocs = 2 * BlockCces - 1
  BY <1>1 DEF NofParents, BlockLocs
<1> QED
  BY <1>1, <1>2 DEF Indices, Parent

(* The recursive definition of Above has a solution, so Above is one.      *)
LEMMA AboveIs ==
  /\ Above[0] = {0}
  /\ \A i \in Indices \ {0} : Above[i] = {i} \cup Above[Parent(i)]
<1> DEFINE N == BlockLocs - 1
           up == [i \in 1 .. N |-> Parent(i)]
           F == [p \in (SUBSET Indices) \X (1 .. N) |-> {p[2]} \cup p[1]]
           Loop(v) == [i \in Indices |-> IF i = 0 THEN {0} ELSE {i} \cup v[Parent(i)]]
<1>0. N \in Nat /\ Indices = 0 .. N /\ 1 .. N = Indices \ {0} /\ 0 \in Indices
  BY Sizes
<1>1. up \in Earlier(N)
  BY <1>0, Sizes DEF Earlier
<1>2. F \in [(SUBSET Indices) \X (1 .. N) -> SUBSET Indices]
  BY <1>0
<1>3. \A S \in SUBSET Indices, i \in 1 .. N : F[<<S, i>>] = {i} \cup S
  OBVIOUS
<1>4. \A i \in 1 .. N : up[i] = Parent(i)
  OBVIOUS
<1>5. {0} \in SUBSET Indices
  BY <1>0
<1>6. PICK g \in [0 .. N -> SUBSET Indices] : Fills(g, N, {0}, F, up)
  <2>1. PICK S, s, u, G, n : S = SUBSET Indices /\ s = {0} /\ u = up /\ G = F /\ n = N
    OBVIOUS
  <2> HIDE DEF up, F, N
  <2>2. n \in Nat /\ s \in S /\ G \in [S \X (1 .. n) -> S] /\ u \in Earlier(n)
    BY <1>0, <1>1, <1>2, <1>5, <2>1
  <2>3. \E g \in [0 .. n -> S] : Fills(g, n, s, G, u)
    BY <2>2, TableExists
  <2> QED
    BY <2>1, <2>3
<1>7. g = Loop(g)
  <2>1. ASSUME NEW i \in Indices \ {0} PROVE g[i] = {i} \cup g[Parent(i)]
    <3>1. i \in 1 .. N /\ Parent(i) \in 0 .. N /\ g[Parent(i)] \in SUBSET Indices
      BY <1>0, Sizes
    <3>2. g[i] = F[<<g[up[i]], i>>]
      BY <1>6, <3>1 DEF Fills
    <3> HIDE DEF F, up
    <3> QED
      BY <1>3, <1>4, <3>1, <3>2
  <2>2. g[0] = {0}
    BY <1>6 DEF Fills
  <2>3. ASSUME NEW i \in Indices PROVE g[i] = IF i = 0 THEN {0} ELSE {i} \cup g[Parent(i)]
    BY <2>1, <2>2
  <2> QED
    BY <1>0, <2>3
<1>8. Above = CHOOSE v : v = Loop(v)
  BY DEF Above, Parent
<1>9. Above = Loop(Above)
  BY <1>7, <1>8
<1>10. \A v : Loop(v)[0] = {0}
  BY <1>0
<1>11. \A i \in Indices \ {0} : \A v : Loop(v)[i] = {i} \cup v[Parent(i)]
  OBVIOUS
<1> HIDE DEF Loop
<1> QED
  BY <1>9, <1>10, <1>11

(* The indices above an index are itself and earlier ones.                 *)
LEMMA AboveEarlier ==
  ASSUME NEW i \in Indices
  PROVE  Above[i] \subseteq 0 .. i /\ i \in Above[i]
<1> DEFINE Bad == {j \in Indices : ~(Above[j] \subseteq 0 .. j /\ j \in Above[j])}
<1>1. SUFFICES ASSUME Bad # {} PROVE FALSE
  OBVIOUS
<1>2. PICK j \in Bad : \A k \in Bad : j <= k
  <2>1. Bad \in SUBSET (0 .. BlockLocs - 1) /\ BlockLocs - 1 \in Nat
    BY Sizes
  <2> HIDE DEF Bad
  <2> QED
    BY <1>1, <2>1, LowestExists
<1>3. j \in Indices /\ ~(Above[j] \subseteq 0 .. j /\ j \in Above[j])
  OBVIOUS
<1>4. CASE j = 0
  BY <1>3, <1>4, AboveIs
<1>5. CASE j # 0
  <2>1. PICK p : p = Parent(j)
    OBVIOUS
  <2>2. p \in Indices /\ p < j /\ j \in Nat /\ p \in Nat /\ Above[j] = {j} \cup Above[p]
    BY <1>3, <1>5, <2>1, Sizes, AboveIs
  <2>3. p \notin Bad
    <3> HIDE DEF Bad
    <3> QED
      BY <1>2, <2>2
  <2>4. Above[p] \subseteq 0 .. p
    BY <2>2, <2>3
  <2> QED
    BY <1>3, <2>2, <2>4
<1> QED
  BY <1>4, <1>5

(* What is above something above an index is above that index, and two     *)
(* indices above the same one are above each other.                        *)
LEMMA AboveChain ==
  ASSUME NEW i \in Indices, NEW a \in Above[i]
  PROVE  /\ Above[a] \subseteq Above[i]
         /\ \A b \in Above[i] : a \in Above[b] \/ b \in Above[a]
<1> DEFINE Ok(j) == \A x \in Above[j] :
                      /\ Above[x] \subseteq Above[j]
                      /\ \A y \in Above[j] : x \in Above[y] \/ y \in Above[x]
           Bad == {j \in Indices : ~Ok(j)}
<1>1. SUFFICES ASSUME Bad # {} PROVE FALSE
  OBVIOUS
<1>2. PICK j \in Bad : \A k \in Bad : j <= k
  <2>1. Bad \in SUBSET (0 .. BlockLocs - 1) /\ BlockLocs - 1 \in Nat
    BY Sizes
  <2> HIDE DEF Bad
  <2> QED
    BY <1>1, <2>1, LowestExists
<1>3. j \in Indices /\ ~Ok(j)
  OBVIOUS
<1>4. CASE j = 0
  BY <1>3, <1>4, AboveIs
<1>5. CASE j # 0
  <2>1. PICK p : p = Parent(j)
    OBVIOUS
  <2>2. p \in Indices /\ p < j /\ j \in Nat /\ p \in Nat /\ Above[j] = {j} \cup Above[p]
    BY <1>3, <1>5, <2>1, Sizes, AboveIs
  <2>3. Ok(p)
    <3>1. p \notin Bad
      <4> HIDE DEF Bad
      <4> QED
        BY <1>2, <2>2
    <3> QED
      BY <2>2, <3>1
  <2>4. j \in Above[j] /\ Above[p] \subseteq Above[j]
    BY <2>2
  <2>5. ASSUME NEW x \in Above[j] PROVE Above[x] \subseteq Above[j]
    <3>1. x = j \/ x \in Above[p]
      BY <2>2
    <3> QED
      BY <2>3, <2>4, <3>1
  <2>6. ASSUME NEW x \in Above[j], NEW y \in Above[j] PROVE x \in Above[y] \/ y \in Above[x]
    <3>1. x = j \/ y = j \/ (x \in Above[p] /\ y \in Above[p])
      BY <2>2
    <3> QED
      BY <2>3, <3>1
  <2> QED
    BY <1>3, <2>5, <2>6
<1> QED
  BY <1>4, <1>5

(* Below every index there is a leaf.                                      *)
LEMMA LeafBelow ==
  ASSUME NEW i \in Indices
  PROVE  \E j \in 0 .. BlockCces - 1 : NofParents + j \in Indices /\ i \in Above[NofParents + j]
<1> DEFINE Leaves == {NofParents + j : j \in 0 .. BlockCces - 1}
           Bad == {x \in Indices : ~ \E l \in Leaves : x \in Above[l]}
<1>0. Leaves \subseteq Indices /\ \A x \in Indices : x \in Leaves \/ x \in 0 .. NofParents - 1
  <2>1. \A j \in 0 .. BlockCces - 1 : NofParents + j \in Indices
    BY Sizes
  <2>2. ASSUME NEW x \in Indices, x >= NofParents PROVE x \in Leaves
    <3>1. x - NofParents \in 0 .. BlockCces - 1 /\ x = NofParents + (x - NofParents)
      BY <2>2, Sizes
    <3> QED
      BY <3>1
  <2>3. \A x \in Indices : x >= NofParents \/ x \in 0 .. NofParents - 1
    BY Sizes
  <2> HIDE DEF Leaves
  <2>4. \A x \in Indices : x \in Leaves \/ x \in 0 .. NofParents - 1
    BY <2>2, <2>3
  <2> QED
    BY <2>1, <2>4 DEF Leaves
<1>1. SUFFICES ASSUME Bad # {} PROVE FALSE
  BY <1>0
<1>2. PICK x \in Bad : \A k \in Bad : k <= x
  <2>1. Bad \in SUBSET (0 .. BlockLocs - 1) /\ BlockLocs - 1 \in Nat
    BY Sizes
  <2> HIDE DEF Bad
  <2> QED
    BY <1>1, <2>1, HighestExists
<1> HIDE DEF Leaves
<1>3. x \in Indices /\ ~ \E l \in Leaves : x \in Above[l]
  OBVIOUS
<1>4. x \in 0 .. NofParents - 1
  BY <1>0, <1>3, AboveEarlier
<1>5. PICK c : c = 2 * x + 1
  OBVIOUS
<1>6. c \in Indices \ {0} /\ x = Parent(c) /\ c \in Int /\ x \in Int /\ c > x
  BY <1>4, <1>5, Sizes
<1>7. Above[c] = {c} \cup Above[x] /\ x \in Above[x]
  BY <1>3, <1>6, AboveIs, AboveEarlier
<1>8. c \notin Bad
  <2> HIDE DEF Bad
  <2> QED
    BY <1>2, <1>6
<1>9. PICK l \in Leaves : c \in Above[l]
  BY <1>6, <1>8
<1>10. Above[c] \subseteq Above[l]
  BY <1>0, <1>9, AboveChain
<1> QED
  BY <1>3, <1>7, <1>9, <1>10

-----------------------------------------------------------------------------
(* The locations.                                                          *)

(* A location is an index in the tree of a block.                          *)
LEMMA Place ==
  ASSUME NEW a \in Nat
  PROVE  Block(a) \in Nat /\ InTree(a) \in Indices /\ a = Block(a) * BlockLocs + InTree(a)
<1>1. PICK L \in Nat \ {0} : L = BlockLocs
  BY Sizes
<1>2. /\ a \div L \in Nat /\ a % L \in 0 .. L - 1
      /\ a = (a \div L) * L + (a % L)
  OBVIOUS
<1> QED
  BY <1>1, <1>2 DEF Block, InTree, Indices

(* Block and index determine the location.                                 *)
LEMMA PlaceOf ==
  ASSUME NEW b \in Nat, NEW i \in Indices
  PROVE  /\ b * BlockLocs + i \in Nat
         /\ Block(b * BlockLocs + i) = b /\ InTree(b * BlockLocs + i) = i
<1>1. PICK L \in Nat \ {0} : L = BlockLocs
  BY Sizes
<1>2. PICK a : a = b * L + i
  OBVIOUS
<1>3. i \in 0 .. L - 1 /\ a \in Nat
  BY <1>1, <1>2 DEF Indices
<1>4. /\ Block(a) \in Nat /\ InTree(a) \in 0 .. L - 1 /\ a = Block(a) * L + InTree(a)
  BY <1>1, <1>3, Place DEF Indices
<1>5. ASSUME NEW c \in Nat, NEW j \in 0 .. L - 1, b * L + i = c * L + j
      PROVE  c = b /\ j = i
  BY <1>3, <1>5
<1>6. Block(a) = b /\ InTree(a) = i
  BY <1>2, <1>4, <1>5
<1> QED
  BY <1>1, <1>2, <1>3, <1>6

(* The nodes marked and emptied around a location are those of its block   *)
(* below it, and below or above it; the ones above come before it.         *)
LEMMA ClearedIs ==
  ASSUME NEW a \in Nat
  PROVE  /\ \A m : m \in Subtree(a) <=> m \in Nat /\ Block(m) = Block(a) /\ InTree(a) \in Above[InTree(m)]
         /\ \A m : m \in Cleared(a) <=> /\ m \in Nat /\ Block(m) = Block(a)
                                        /\ InTree(a) \in Above[InTree(m)] \/ InTree(m) \in Above[InTree(a)]
         /\ \A m \in Cleared(a) : m \in Subtree(a) \/ m <= a
         /\ Subtree(a) \subseteq Cleared(a) /\ a \in Subtree(a)
<1>1. PICK b, i : b = Block(a) /\ i = InTree(a)
  OBVIOUS
<1>2. b \in Nat /\ i \in Indices /\ a = b * BlockLocs + i /\ Above[i] \subseteq 0 .. i /\ i \in Above[i]
  BY <1>1, Place, AboveEarlier
<1>3. ASSUME NEW I \in SUBSET Indices, NEW m
      PROVE  m \in At(a, I) <=> m \in Nat /\ Block(m) = b /\ InTree(m) \in I
  <2>1. ASSUME m \in At(a, I) PROVE m \in Nat /\ Block(m) = b /\ InTree(m) \in I
    <3>1. PICK j \in I : m = b * BlockLocs + j
      BY <1>1, <2>1 DEF At
    <3> QED
      BY <1>2, <3>1, PlaceOf
  <2>2. ASSUME m \in Nat, Block(m) = b, InTree(m) \in I PROVE m \in At(a, I)
    <3>1. m = b * BlockLocs + InTree(m)
      BY <2>2, Place
    <3> QED
      BY <1>1, <2>2, <3>1 DEF At
  <2> QED
    BY <2>1, <2>2
<1>4. Below[i] = {j \in Indices : i \in Above[j]}
  BY <1>2 DEF Below
<1>5. Above[i] \in SUBSET Indices /\ Below[i] \in SUBSET Indices
  <2>1. 0 .. i \subseteq Indices
    BY <1>2, Sizes
  <2> QED
    BY <1>2, <1>4, <2>1
<1>6. \A m : m \in Subtree(a) <=> m \in Nat /\ Block(m) = b /\ i \in Above[InTree(m)]
  <2>1. ASSUME NEW m PROVE m \in Subtree(a) <=> m \in Nat /\ Block(m) = b /\ InTree(m) \in Below[i]
    BY <1>1, <1>3, <1>5 DEF Subtree
  <2>2. ASSUME NEW m \in Nat PROVE InTree(m) \in Below[i] <=> i \in Above[InTree(m)]
    BY <1>4, Place
  <2> QED
    BY <2>1, <2>2
<1>7. \A m : m \in At(a, Above[i]) <=> m \in Nat /\ Block(m) = b /\ InTree(m) \in Above[i]
  BY <1>3, <1>5
<1>8. \A m : m \in Cleared(a) <=> m \in Subtree(a) \/ m \in At(a, Above[i])
  BY <1>1 DEF Cleared
<1>9. ASSUME NEW m \in At(a, Above[i]) PROVE m <= a
  <2>1. m \in Nat /\ Block(m) = b /\ InTree(m) \in 0 .. i /\ m = b * BlockLocs + InTree(m)
    BY <1>2, <1>7, <1>9, Place
  <2>2. PICK p : p = b * BlockLocs
    OBVIOUS
  <2>3. p \in Nat
    BY <1>2, <2>2, Sizes
  <2> QED
    BY <1>2, <2>1, <2>2, <2>3
<1>10. a \in Subtree(a)
  BY <1>1, <1>2, <1>6
<1> QED
  BY <1>1, <1>6, <1>7, <1>8, <1>9, <1>10

(* Two locations share a CCE exactly when each is among the nodes emptied  *)
(* around the other.                                                       *)
LEMMA OverlapIs ==
  ASSUME NEW a \in Nat, NEW b \in Nat
  PROVE  (Overlap(a, b) <=> b \in Cleared(a)) /\ (b \in Cleared(a) <=> a \in Cleared(b))
<1>1. PICK i, j : i = InTree(a) /\ j = InTree(b)
  OBVIOUS
<1>2. i \in Indices /\ j \in Indices /\ Block(a) \in Nat /\ Block(b) \in Nat
  BY <1>1, Place
<1>3. b \in Cleared(a) <=> Block(a) = Block(b) /\ (i \in Above[j] \/ j \in Above[i])
  BY <1>1, ClearedIs
<1>4. a \in Cleared(b) <=> Block(a) = Block(b) /\ (i \in Above[j] \/ j \in Above[i])
  BY <1>1, ClearedIs
<1>5. \A x \in Indices : \A c : c \in LeafCces[x] <=>
        c \in 0 .. BlockCces - 1 /\ NofParents + c \in Indices /\ x \in Above[NofParents + c]
  BY DEF LeafCces, Below
<1>6. ASSUME Overlap(a, b) PROVE b \in Cleared(a)
  <2>1. PICK c \in LeafCces[i], d \in LeafCces[j] :
          BlockCces * Block(a) + c = BlockCces * Block(b) + d
    BY <1>1, <1>6 DEF Overlap, Cces
  <2>2. c \in 0 .. BlockCces - 1 /\ d \in 0 .. BlockCces - 1
    BY <1>2, <1>5
  <2>3. Block(a) = Block(b) /\ c = d
    <3>1. PICK p, q, L : p = Block(a) /\ q = Block(b) /\ L = BlockCces
      OBVIOUS
    <3>2. /\ p \in Nat /\ q \in Nat /\ L \in Nat \ {0} /\ c \in 0 .. L - 1 /\ d \in 0 .. L - 1
          /\ L * p + c = L * q + d
      BY <1>2, <2>1, <2>2, <3>1, Sizes
    <3>3. p = q /\ c = d
      BY ONLY <3>2
    <3> QED
      BY <3>1, <3>3
  <2>4. NofParents + c \in Indices /\ i \in Above[NofParents + c] /\ j \in Above[NofParents + c]
    BY <1>2, <1>5, <2>3
  <2>5. i \in Above[j] \/ j \in Above[i]
    BY <2>4, AboveChain
  <2> QED
    BY <1>3, <2>3, <2>5
<1>7. ASSUME b \in Cleared(a) PROVE Overlap(a, b)
  <2>1. ASSUME NEW x \in Indices, NEW y \in Indices, x \in Above[y]
        PROVE  LeafCces[x] \cap LeafCces[y] # {}
    <3>1. PICK c \in 0 .. BlockCces - 1 : NofParents + c \in Indices /\ y \in Above[NofParents + c]
      BY LeafBelow
    <3>2. x \in Above[NofParents + c]
      BY <2>1, <3>1, AboveChain
    <3> QED
      BY <1>5, <3>1, <3>2
  <2>2. PICK c : c \in LeafCces[i] /\ c \in LeafCces[j]
    BY <1>2, <1>3, <1>7, <2>1
  <2>3. BlockCces * Block(a) + c \in Cces(a) /\ BlockCces * Block(a) + c \in Cces(b)
    BY <1>1, <1>3, <1>7, <2>2 DEF Cces
  <2> QED
    BY <2>3 DEF Overlap
<1> QED
  BY <1>3, <1>4, <1>6, <1>7

(* The locations of a subframe are whole blocks.                           *)
LEMMA WholeBlocks ==
  ASSUME nof_cce \in CceCounts
  PROVE  /\ NofLocations(nof_cce) \in Nat /\ Locs = 0 .. NofLocations(nof_cce) - 1
         /\ \A a \in Locs : a \in Nat /\ Cleared(a) \subseteq Locs
         /\ \A a \in Locs, b \in Nat : Block(b) = Block(a) => b \in Locs
<1>1. PICK n, C : n = nof_cce /\ C = BlockCces
  OBVIOUS
<1>2. n \in Nat \ {0} /\ C \in Nat \ {0}
  BY <1>1, TreeAssumption
<1>3. (n + C - 1) \div C \in Nat
  <2>1. PICK x : x = n + C - 1
    OBVIOUS
  <2>2. x \in Nat
    BY <1>2, <2>1
  <2> QED
    BY <1>2, <2>1, <2>2
<1>4. PICK B : B = NofBlocks(nof_cce)
  OBVIOUS
<1>5. B \in Nat
  BY <1>1, <1>3, <1>4 DEF NofBlocks
<1>6. PICK L \in Nat \ {0} : L = BlockLocs
  BY Sizes
<1>7. NofLocations(nof_cce) = B * L /\ B * L \in Nat
  BY <1>4, <1>5, <1>6 DEF NofLocations
<1>8. Locs = 0 .. B * L - 1
  BY <1>7 DEF Locs
<1>9. ASSUME NEW a \in Locs, NEW b \in Nat, Block(b) = Block(a) PROVE b \in Locs
  <2>1. PICK p, i, j : p = Block(a) /\ i = InTree(a) /\ j = InTree(b)
    OBVIOUS
  <2>2. a \in Nat
    BY <1>7, <1>8
  <2>3. /\ p \in Nat /\ i \in 0 .. L - 1 /\ j \in 0 .. L - 1
        /\ a = p * L + i /\ b = p * L + j
    BY <1>6, <1>9, <2>1, <2>2, Place DEF Indices
  <2>4. p * L + i < B * L
    BY <1>7, <1>8, <2>3
  <2>5. p < B
    <3>1. ASSUME p >= B PROVE p * L >= B * L
      BY <1>5, <2>3, <3>1
    <3>2. PICK s, t : s = p * L /\ t = B * L
      OBVIOUS
    <3>3. s \in Nat /\ t \in Nat
      BY <1>5, <2>3, <3>2
    <3> QED
      BY <1>5, <2>3, <2>4, <3>1, <3>2, <3>3
  <2>6. p * L + j < B * L
    <3>1. (p + 1) * L <= B * L
      BY <1>5, <2>3, <2>5
    <3>2. (p + 1) * L = p * L + L
      BY <2>3
    <3>3. PICK s, t : s = p * L /\ t = B * L
      OBVIOUS
    <3>4. s \in Nat /\ t \in Nat
      BY <1>5, <2>3, <3>3
    <3> QED
      BY <2>3, <3>1, <3>2, <3>3, <3>4
  <2> QED
    BY <1>7, <1>8, <2>3, <2>6
<1>10. ASSUME NEW a \in Locs PROVE a \in Nat /\ Cleared(a) \subseteq Locs
  <2>1. a \in Nat
    BY <1>7, <1>8
  <2>2. \A m \in Cleared(a) : m \in Nat /\ Block(m) = Block(a)
    BY <2>1, ClearedIs
  <2> QED
    BY <1>9, <2>1, <2>2
<1> QED
  BY <1>7, <1>8, <1>9, <1>10

(* A parent's left child is a later location of the same block.            *)
LEMMA LeftIs ==
  ASSUME nof_cce \in CceCounts, NEW a \in Locs, NEW i \in 0 .. NofParents - 1
  PROVE  /\ Left(a, i) \in Locs /\ Block(Left(a, i)) = Block(a)
         /\ Block(a) * BlockLocs + i \in Locs /\ Block(Block(a) * BlockLocs + i) = Block(a)
         /\ InTree(Block(a) * BlockLocs + i) = i
         /\ Block(a) * BlockLocs + i < Left(a, i)
<1>1. PICK b, c : b = Block(a) /\ c = 2 * i + 1
  OBVIOUS
<1>2. a \in Nat /\ b \in Nat
  BY <1>1, WholeBlocks, Place
<1>3. c \in Indices /\ i \in Indices /\ i < c /\ i \in Nat /\ c \in Nat
  BY <1>1, Sizes
<1>4. PICK p : p = b * BlockLocs
  OBVIOUS
<1>5. p \in Nat
  BY <1>2, <1>4, Sizes
<1>6. Left(a, i) = p + c
  BY <1>1, <1>3, <1>4, <1>5 DEF Left
<1>7. /\ p + c \in Nat /\ Block(p + c) = b
      /\ p + i \in Nat /\ Block(p + i) = b /\ InTree(p + i) = i
  BY <1>2, <1>3, <1>4, PlaceOf
<1>8. p + c \in Locs /\ p + i \in Locs
  BY <1>1, <1>7, WholeBlocks
<1>9. p + i < p + c
  BY <1>3, <1>5
<1> QED
  BY <1>1, <1>4, <1>6, <1>7, <1>8, <1>9

(* The loop goes on at a later location that is not checked, or ends; what *)
(* it passes over is checked.                                              *)
LEMMA NextLocIs ==
  ASSUME nof_cce \in CceCounts, NEW checked, NEW from \in 0 .. NofLocations(nof_cce)
  PROVE  /\ NextLoc(checked, from) \in from .. NofLocations(nof_cce)
         /\ NextLoc(checked, from) \in Locs => NextLoc(checked, from) \notin checked
         /\ NextLoc(checked, from) \notin Locs => NextLoc(checked, from) = NofLocations(nof_cce)
         /\ \A loc \in Locs : loc >= from /\ loc < NextLoc(checked, from) => loc \in checked
<1>1. PICK N : N = NofLocations(nof_cce)
  OBVIOUS
<1>2. N \in Nat /\ Locs = 0 .. N - 1 /\ from \in 0 .. N
  BY <1>1, WholeBlocks
<1> DEFINE S == {loc \in Locs : loc >= from /\ loc \notin checked} \cup {N}
<1>3. S \in SUBSET (0 .. N) /\ S # {}
  BY <1>2
<1>4. Min(S) \in S /\ \A x \in S : Min(S) <= x
  <2> HIDE DEF S
  <2> QED
    BY <1>2, <1>3, MinIsLowest
<1>5. PICK k : k = Min(S)
  OBVIOUS
<1>6. NextLoc(checked, from) = k
  BY <1>1, <1>5 DEF NextLoc
<1>7. k \in S /\ \A x \in S : k <= x
  BY <1>4, <1>5
<1>8. k \in from .. N /\ (k \in Locs => k \notin checked) /\ (k \notin Locs => k = N)
  BY <1>2, <1>7
<1>9. ASSUME NEW loc \in Locs, loc >= from, loc < k PROVE loc \in checked
  <2>1. loc \in Int /\ k \in Int
    BY <1>2, <1>8
  <2> QED
    BY <1>7, <1>9, <2>1
<1> QED
  BY <1>1, <1>6, <1>8, <1>9

-----------------------------------------------------------------------------
(* The array of candidates and the output.                                 *)

Arrays == [Locs -> [Formats -> Rntis \cup {None}]]
Reports == [rnti : Rntis, format : Formats, loc : Locs, by : {"search", "copy", "filter"}]

\* What was decoded lies inside the control region; the array and the output
\* hold nothing else.
Inside(dec) == dec \subseteq (Locs \ Invalid(nof_cce)) \X Formats \X Rntis
InArray(arr, dec) ==
    \A loc \in Locs, f \in Formats : arr[loc][f] # None => <<loc, f, arr[loc][f]>> \in dec
Reported(out, dec) == \A d \in out : <<d.loc, d.format, d.rnti>> \in dec

\* Reports that were not copied do not overlap, and the array is empty around
\* them.
Apart(out) == \A a, b \in out : a # b /\ Overlap(a.loc, b.loc) => "copy" \in {a.by, b.by}
Around(arr, out) == \A d \in out : d.by # "copy" => \A m \in Cleared(d.loc) : arr[m] = Empty

Room(out) == IsFiniteSet(out) /\ \A ul \in BOOLEAN : NofDci(out, ul) <= MaxDci

Good(arr, out, dec) ==
    /\ arr \in Arrays /\ out \subseteq Reports
    /\ Inside(dec) /\ InArray(arr, dec) /\ Reported(out, dec)
    /\ Apart(out) /\ Around(arr, out) /\ Room(out)

\* The target's candidates are in the array, or overlap a report, or there is
\* no room left.
Full(out) == \E ul \in BOOLEAN : NofDci(out, ul) = MaxDci
Covered(out, c) == Full(out) \/ \E d \in out : Overlap(d.loc, c[1])
TargetKept(arr, out, dec) ==
    \A c \in dec : c[3] = Target => arr[c[1]][c[2]] = Target \/ Covered(out, c)

Report(f, loc, rnti, by) == [rnti |-> rnti, format |-> f, loc |-> loc, by |-> by]

(* A report is added if its direction has room; otherwise the output is    *)
(* full and stays so.                                                      *)
LEMMA PushIs ==
  ASSUME NEW out, Room(out), NEW f, NEW loc, NEW rnti, NEW by
  PROVE  /\ Room(Push(out, f, loc, rnti, by))
         /\ Full(out) => Full(Push(out, f, loc, rnti, by))
         /\ \/ Push(out, f, loc, rnti, by) = out \cup {Report(f, loc, rnti, by)}
            \/ Push(out, f, loc, rnti, by) = out /\ Full(out)
<1>1. PICK d : d = Report(f, loc, rnti, by)
  OBVIOUS
<1>2. d.format = f
  BY <1>1 DEF Report
<1>3. PICK new : new = Push(out, f, loc, rnti, by)
  OBVIOUS
<1> DEFINE Way(o, ul) == {x \in o : (x.format = 0) <=> ul}
<1>4. MaxDci \in Nat
  BY TreeAssumption
<1>5. \A ul \in BOOLEAN : IsFiniteSet(Way(out, ul)) /\ Cardinality(Way(out, ul)) \in Nat
  <2>1. \A ul \in BOOLEAN : Way(out, ul) \subseteq out
    OBVIOUS
  <2> HIDE DEF Way
  <2> QED
    BY <2>1, FS_Subset, FS_CardinalityType DEF Room
<1>6. \A o, ul : NofDci(o, ul) = Cardinality(Way(o, ul))
  BY DEF NofDci
<1>7. (f = 0) \in BOOLEAN
  OBVIOUS
<1>8. CASE NofDci(out, f = 0) < MaxDci
  <2>1. new = out \cup {d}
    BY <1>1, <1>3, <1>8 DEF Push, Report
  <2>2. IsFiniteSet(new)
    BY <2>1, FS_AddElement DEF Room
  <2>3. ASSUME NEW ul \in BOOLEAN, ul # (f = 0) PROVE Way(new, ul) = Way(out, ul)
    BY <1>2, <2>1, <2>3
  <2>4. Way(new, f = 0) = Way(out, f = 0) \cup {d}
    BY <1>2, <2>1
  <2> HIDE DEF Way
  <2>5. Cardinality(Way(new, f = 0)) <= MaxDci
    <3>1. PICK W : W = Way(out, f = 0)
      OBVIOUS
    <3>2. /\ IsFiniteSet(W) /\ Cardinality(W) \in Nat /\ Cardinality(W) < MaxDci
          /\ Way(new, f = 0) = W \cup {d}
      BY <1>5, <1>6, <1>7, <1>8, <2>4, <3>1
    <3>3. Cardinality(W \cup {d}) = IF d \in W THEN Cardinality(W) ELSE Cardinality(W) + 1
      BY <3>2, FS_AddElement
    <3> QED
      BY <1>4, <3>2, <3>3
  <2>6. Room(new)
    <3>1. ASSUME NEW ul \in BOOLEAN PROVE NofDci(new, ul) <= MaxDci
      <4>1. CASE ul = (f = 0)
        BY <1>6, <2>5, <4>1
      <4>2. CASE ul # (f = 0)
        BY <1>6, <2>3, <4>2 DEF Room
      <4> QED
        BY <4>1, <4>2
    <3> QED
      BY <2>2, <3>1 DEF Room
  <2>7. ASSUME Full(out) PROVE Full(new)
    <3>1. PICK ul \in BOOLEAN : NofDci(out, ul) = MaxDci
      BY <2>7 DEF Full
    <3>2. ul # (f = 0)
      BY <1>4, <1>8, <3>1
    <3> QED
      BY <1>6, <2>3, <3>1, <3>2 DEF Full
  <2> QED
    BY <1>1, <1>3, <2>1, <2>6, <2>7
<1>9. CASE ~(NofDci(out, f = 0) < MaxDci)
  <2>1. new = out
    BY <1>3, <1>9 DEF Push
  <2>2. NofDci(out, f = 0) = MaxDci
    <3>1. PICK k : k = NofDci(out, f = 0)
      OBVIOUS
    <3>2. k \in Nat
      <4> HIDE DEF Way
      <4> QED
        BY <1>5, <1>6, <1>7, <3>1
    <3>3. k <= MaxDci
      BY <1>7, <3>1 DEF Room
    <3> QED
      BY <1>4, <1>9, <3>1, <3>2, <3>3
  <2>3. Full(out)
    BY <1>7, <2>2 DEF Full
  <2> QED
    BY <1>3, <2>1, <2>3
<1> QED
  BY <1>8, <1>9

(* None is no RNTI, and an empty node holds none.                          *)
LEMMA NoneIs ==
  /\ None \notin Rntis /\ Target \in Rntis /\ Target # None
  /\ \A f \in Formats : Empty[f] = None
  /\ Empty \in [Formats -> Rntis \cup {None}]
BY TreeAssumption DEF Rntis, Empty

New(loc, found) == {<<loc, f, found[f]>> : f \in {g \in Formats : found[g] # None}}

(* What is decoded at a location that no report surrounds can be put into  *)
(* the array.                                                              *)
LEMMA PutGood ==
  ASSUME nof_cce \in CceCounts, NEW arr, NEW out, NEW dec, Good(arr, out, dec),
         NEW loc \in Locs, loc \notin Invalid(nof_cce), arr[loc] = Empty,
         \A d \in out : d.by # "copy" => loc \notin Cleared(d.loc),
         NEW found \in [Formats -> Rntis \cup {None}]
  PROVE  /\ Good([arr EXCEPT ![loc] = found], out, dec \cup New(loc, found))
         /\ TargetKept(arr, out, dec) =>
              TargetKept([arr EXCEPT ![loc] = found], out, dec \cup New(loc, found))
<1>1. PICK arr2 : arr2 = [arr EXCEPT ![loc] = found]
  OBVIOUS
<1>2. PICK dec2 : dec2 = dec \cup New(loc, found)
  OBVIOUS
<1>3. /\ arr2 \in Arrays /\ arr2[loc] = found
      /\ \A m \in Locs : m # loc => arr2[m] = arr[m]
  BY <1>1 DEF Good, Arrays
<1>4. dec \subseteq dec2 /\ \A f \in Formats : found[f] # None => <<loc, f, found[f]>> \in dec2
  BY <1>2 DEF New
<1>5. Inside(dec2)
  <2>1. ASSUME NEW c \in New(loc, found)
        PROVE  c \in (Locs \ Invalid(nof_cce)) \X Formats \X Rntis
    <3>1. PICK f \in Formats : found[f] # None /\ c = <<loc, f, found[f]>>
      BY DEF New
    <3>2. found[f] \in Rntis
      BY <3>1
    <3> QED
      BY <3>1, <3>2
  <2> QED
    BY <1>2, <2>1 DEF Good, Inside
<1>6. InArray(arr2, dec2)
  <2> SUFFICES ASSUME NEW m \in Locs, NEW f \in Formats, arr2[m][f] # None
               PROVE  <<m, f, arr2[m][f]>> \in dec2
    BY DEF InArray
  <2>1. CASE m = loc
    BY <1>3, <1>4, <2>1
  <2>2. CASE m # loc
    BY <1>3, <1>4, <2>2 DEF Good, InArray
  <2> QED
    BY <2>1, <2>2
<1>7. Reported(out, dec2)
  BY <1>4 DEF Good, Reported
<1>8. Around(arr2, out)
  <2> SUFFICES ASSUME NEW d \in out, d.by # "copy", NEW m \in Cleared(d.loc) PROVE arr2[m] = Empty
    BY DEF Around
  <2>1. d.loc \in Locs
    BY DEF Good, Reports
  <2>2. m \in Locs /\ m # loc
    BY <2>1, WholeBlocks
  <2> QED
    BY <1>3, <2>2 DEF Good, Around
<1>9. Good(arr2, out, dec2)
  BY <1>3, <1>5, <1>6, <1>7, <1>8 DEF Good
<1>10. ASSUME TargetKept(arr, out, dec) PROVE TargetKept(arr2, out, dec2)
  <2> SUFFICES ASSUME NEW c \in dec2, c[3] = Target
               PROVE  arr2[c[1]][c[2]] = Target \/ Covered(out, c)
    BY DEF TargetKept
  <2>1. CASE c \in New(loc, found)
    <3>1. PICK f \in Formats : c = <<loc, f, found[f]>>
      BY <2>1 DEF New
    <3> QED
      BY <1>3, <3>1
  <2>2. CASE c \in dec
    <3>1. arr[c[1]][c[2]] = Target \/ Covered(out, c)
      BY <1>10, <2>2 DEF TargetKept
    <3>2. c[1] \in Locs /\ c[2] \in Formats
      BY <2>2 DEF Good, Inside
    <3>3. CASE arr[c[1]][c[2]] = Target
      BY <1>3, <3>2, <3>3, NoneIs
    <3> QED
      BY <3>1, <3>3
  <2> QED
    BY <1>2, <2>1, <2>2
<1> QED
  BY <1>1, <1>2, <1>9, <1>10

Emptied(arr, loc) == [m \in DOMAIN arr |-> IF m \in Cleared(loc) THEN Empty ELSE arr[m]]

(* A candidate can be taken out of the array into the output, with the     *)
(* nodes around it emptied: it overlaps nothing reported before, and the   *)
(* candidates lost overlap it.                                             *)
LEMMA TakeGood ==
  ASSUME nof_cce \in CceCounts, NEW arr, NEW out, NEW dec, Good(arr, out, dec),
         NEW loc \in Locs, NEW f \in Formats, arr[loc][f] # None,
         NEW by \in {"search", "filter"}
  PROVE  /\ Good(Emptied(arr, loc), Push(out, f, loc, arr[loc][f], by), dec)
         /\ \A c \in dec : Covered(out, c) => Covered(Push(out, f, loc, arr[loc][f], by), c)
         /\ TargetKept(arr, out, dec) =>
              TargetKept(Emptied(arr, loc), Push(out, f, loc, arr[loc][f], by), dec)
<1>1. PICK arr2 : arr2 = Emptied(arr, loc)
  OBVIOUS
<1>2. PICK r : r = arr[loc][f]
  OBVIOUS
<1>3. PICK out2 : out2 = Push(out, f, loc, r, by)
  OBVIOUS
<1>4. PICK new : new = Report(f, loc, r, by)
  OBVIOUS
<1>5. /\ r \in Rntis /\ new.loc = loc /\ new.format = f /\ new.rnti = r /\ new.by = by
      /\ new \in Reports /\ new.by # "copy"
  <2>1. r \in Rntis
    BY <1>2 DEF Good, Arrays
  <2> QED
    BY <1>4, <2>1 DEF Report, Reports
<1>6. /\ Room(out2) /\ (Full(out) => Full(out2)) /\ out \subseteq out2
      /\ out2 \subseteq out \cup {new} /\ (new \in out2 \/ Full(out2))
  <2>1. Room(out)
    BY DEF Good
  <2>2. /\ Room(out2) /\ (Full(out) => Full(out2))
        /\ out2 = out \cup {new} \/ (out2 = out /\ Full(out))
    BY <1>3, <1>4, <2>1, PushIs
  <2> QED
    BY <2>2
<1>7. /\ arr2 \in Arrays
      /\ \A m \in Locs : arr2[m] = IF m \in Cleared(loc) THEN Empty ELSE arr[m]
  <2>1. arr2 = [m \in Locs |-> IF m \in Cleared(loc) THEN Empty ELSE arr[m]]
    BY <1>1 DEF Good, Arrays, Emptied
  <2>2. \A m \in Locs : arr[m] \in [Formats -> Rntis \cup {None}]
    BY DEF Good, Arrays
  <2>3. \A m \in Locs : (IF m \in Cleared(loc) THEN Empty ELSE arr[m]) \in [Formats -> Rntis \cup {None}]
    BY <2>2, NoneIs
  <2> QED
    BY <2>1, <2>3 DEF Arrays
<1>8. InArray(arr2, dec)
  <2> SUFFICES ASSUME NEW m \in Locs, NEW g \in Formats, arr2[m][g] # None
               PROVE  <<m, g, arr2[m][g]>> \in dec
    BY DEF InArray
  <2>1. arr2[m] = arr[m]
    BY <1>7, NoneIs
  <2> QED
    BY <2>1 DEF Good, InArray
<1>9. Reported(out2, dec)
  <2>1. <<loc, f, r>> \in dec
    BY <1>2 DEF Good, InArray
  <2> QED
    BY <1>5, <1>6, <2>1 DEF Good, Reported
<1>10. ASSUME NEW d \in out, d.by # "copy" PROVE ~Overlap(d.loc, loc) /\ ~Overlap(loc, d.loc)
  <2>1. d.loc \in Locs /\ \A m \in Cleared(d.loc) : arr[m] = Empty
    BY <1>10 DEF Good, Around, Reports
  <2>2. loc \notin Cleared(d.loc)
    BY <2>1, NoneIs
  <2>3. d.loc \in Nat /\ loc \in Nat
    BY <2>1, WholeBlocks
  <2> QED
    BY <2>2, <2>3, OverlapIs
<1>11. Apart(out2)
  <2> SUFFICES ASSUME NEW a \in out2, NEW b \in out2, a # b, Overlap(a.loc, b.loc),
                      a.by # "copy", b.by # "copy"
               PROVE  FALSE
    BY DEF Apart
  <2>1. a \in out \/ a = new
    BY <1>6
  <2>2. b \in out \/ b = new
    BY <1>6
  <2>3. CASE a \in out /\ b \in out
    BY <2>3 DEF Good, Apart
  <2>4. CASE a = new \/ b = new
    BY <1>5, <1>10, <2>1, <2>2, <2>4
  <2> QED
    BY <2>1, <2>2, <2>3, <2>4
<1>12. Around(arr2, out2)
  <2> SUFFICES ASSUME NEW d \in out2, d.by # "copy", NEW m \in Cleared(d.loc) PROVE arr2[m] = Empty
    BY DEF Around
  <2>1. d.loc \in Locs
    BY <1>5, <1>6 DEF Good, Reports
  <2>2. m \in Locs
    BY <2>1, WholeBlocks
  <2>3. CASE d \in out
    BY <1>7, <2>2, <2>3 DEF Good, Around
  <2>4. CASE d = new
    BY <1>5, <1>7, <2>2, <2>4
  <2> QED
    BY <1>6, <2>3, <2>4
<1>13. Good(arr2, out2, dec)
  <2>1. out2 \subseteq Reports
    BY <1>5, <1>6 DEF Good
  <2> QED
    BY <1>6, <1>7, <1>8, <1>9, <1>11, <1>12, <2>1 DEF Good
<1>14. ASSUME NEW c \in dec, Covered(out, c) PROVE Covered(out2, c)
  BY <1>6, <1>14 DEF Covered
<1>15. ASSUME TargetKept(arr, out, dec) PROVE TargetKept(arr2, out2, dec)
  <2> SUFFICES ASSUME NEW c \in dec, c[3] = Target
               PROVE  arr2[c[1]][c[2]] = Target \/ Covered(out2, c)
    BY DEF TargetKept
  <2>1. c[1] \in Locs /\ c[2] \in Formats
    BY DEF Good, Inside
  <2>2. arr[c[1]][c[2]] = Target \/ Covered(out, c)
    BY <1>15 DEF TargetKept
  <2>3. CASE c[1] \in Cleared(loc)
    <3>1. Overlap(loc, c[1])
      BY <2>1, <2>3, OverlapIs, WholeBlocks
    <3> QED
      BY <1>5, <1>6, <3>1 DEF Covered
  <2>4. CASE c[1] \notin Cleared(loc)
    BY <1>7, <1>14, <2>1, <2>2, <2>4
  <2> QED
    BY <2>3, <2>4
<1> QED
  BY <1>1, <1>2, <1>3, <1>13, <1>14, <1>15

-----------------------------------------------------------------------------
(* Child-parent matching.                                                  *)

(* A nonempty set of formats has a lowest one.                             *)
LEMMA FirstFormat ==
  ASSUME NEW S \in SUBSET Formats, S # {}
  PROVE  Min(S) \in S /\ Min(S) \in Formats
<1>1. S \in SUBSET (0 .. 4) /\ 4 \in Nat
  BY TreeAssumption
<1> QED
  BY <1>1, MinIsLowest

(* What is taken for a root and its child is held by one of the two, and   *)
(* by the root unless the target is in one of them; a pair that holds the  *)
(* same RNTI yields something.                                             *)
LEMMA MatchIs ==
  ASSUME NEW arr \in Arrays, NEW root \in Locs, NEW child \in Locs
  PROVE  /\ \A m \in Match(arr, root, child) :
              /\ m[1] \in Formats /\ m[2] \in {root, child} /\ arr[m[2]][m[1]] # None
              /\ WithTarget(arr, root, child) = {} => m[2] = root
         /\ Match(arr, root, child) # {} <=>
              WithTarget(arr, root, child) # {} \/ Matching(arr, root, child) # {}
<1> DEFINE target == WithTarget(arr, root, child)
           matched == Matching(arr, root, child)
           first == Min(target)
           best == IF matched \cap {0, 4} # {} THEN matched \cap {0, 4} ELSE matched
           early == {f \in matched : f < first} \cup {first}
           node == IF arr[root][first] = Target THEN root ELSE child
<1>1. Match(arr, root, child) = IF target # {} THEN {<<Min(early), node>>}
                                ELSE {<<f, root>> : f \in best}
  BY DEF Match
<1>2. target \in SUBSET Formats /\ matched \in SUBSET Formats
  BY DEF WithTarget, Matching
<1>3. \A f \in target : Target \in {arr[root][f], arr[child][f]}
  BY DEF WithTarget
<1>4. \A f \in matched : arr[root][f] # None /\ arr[root][f] = arr[child][f]
  BY DEF Matching
<1>5. CASE target # {}
  <2>1. first \in target /\ first \in Formats
    <3> HIDE DEF target
    <3> QED
      BY <1>2, <1>5, FirstFormat
  <2>2. arr[node][first] = Target
    BY <1>3, <2>1
  <2> HIDE DEF target, matched, first
  <2>3. early \in SUBSET Formats /\ early # {}
    BY <1>2, <2>1
  <2>4. Min(early) \in early /\ Min(early) \in Formats
    <3> HIDE DEF early
    <3> QED
      BY <2>3, FirstFormat
  <2>5. PICK f : f = Min(early)
    OBVIOUS
  <2>6. f = first \/ f \in matched
    BY <2>4, <2>5
  <2>7. node \in {root, child}
    OBVIOUS
  <2>8. arr[node][f] # None
    <3>1. CASE f = first
      BY <2>2, <3>1, NoneIs
    <3>2. CASE f \in matched
      BY <1>4, <2>7, <3>2
    <3> QED
      BY <2>6, <3>1, <3>2
  <2> HIDE DEF early, node
  <2>9. Match(arr, root, child) = {<<f, node>>}
    BY <1>1, <1>5, <2>5
  <2>10. f \in Formats
    BY <2>4, <2>5
  <2> QED
    BY <1>5, <2>7, <2>8, <2>9, <2>10 DEF target
<1>6. CASE target = {}
  <2>1. Match(arr, root, child) = {<<f, root>> : f \in best}
    BY <1>1, <1>6
  <2>2. best \subseteq matched /\ (best # {} <=> matched # {})
    OBVIOUS
  <2> HIDE DEF best
  <2>3. ASSUME NEW m \in Match(arr, root, child)
        PROVE  m[1] \in Formats /\ m[2] = root /\ arr[m[2]][m[1]] # None
    <3>1. PICK f \in best : m = <<f, root>>
      BY <2>1
    <3> QED
      BY <1>2, <1>4, <2>2, <3>1
  <2> QED
    BY <1>6, <2>1, <2>2, <2>3
<1> QED
  BY <1>5, <1>6

(* The first parent whose left child was reached and that matches decides. *)
LEMMA CpMatchIs ==
  ASSUME NEW arr, NEW loc
  PROVE  \/ /\ CpMatch(arr, loc) = {}
            /\ \A i \in 0 .. NofParents - 1 :
                 Left(loc, i) <= loc => Match(arr, Block(loc) * BlockLocs + i, Left(loc, i)) = {}
         \/ \E i \in 0 .. NofParents - 1 :
              /\ Left(loc, i) <= loc
              /\ CpMatch(arr, loc) = Match(arr, Block(loc) * BlockLocs + i, Left(loc, i))
              /\ CpMatch(arr, loc) # {}
              /\ \A j \in 0 .. NofParents - 1 :
                   Left(loc, j) <= loc /\ Match(arr, Block(loc) * BlockLocs + j, Left(loc, j)) # {}
                     => i <= j
<1> DEFINE M(i) == Match(arr, Block(loc) * BlockLocs + i, Left(loc, i))
           roots == {i \in 0 .. NofParents - 1 : Left(loc, i) <= loc /\ M(i) # {}}
<1>1. CpMatch(arr, loc) = IF roots = {} THEN {} ELSE M(Min(roots))
  BY DEF CpMatch
<1>2. CASE roots = {}
  BY <1>1, <1>2
<1>3. CASE roots # {}
  <2>1. roots \in SUBSET (0 .. NofParents) /\ NofParents \in Nat
    BY Sizes
  <2>2. Min(roots) \in roots /\ \A x \in roots : Min(roots) <= x
    <3> HIDE DEF roots
    <3> QED
      BY <1>3, <2>1, MinIsLowest
  <2>3. PICK i : i = Min(roots)
    OBVIOUS
  <2>4. i \in roots /\ (\A x \in roots : i <= x) /\ CpMatch(arr, loc) = M(i)
    <3> HIDE DEF roots, M
    <3> QED
      BY <1>1, <1>3, <2>2, <2>3
  <2> QED
    BY <2>4
<1> QED
  BY <1>2, <1>3

-----------------------------------------------------------------------------
(* The end of the search.                                                  *)

(* Candidates may be dropped from the array.                               *)
LEMMA WithoutGood ==
  ASSUME nof_cce \in CceCounts, NEW arr, NEW out, NEW dec, Good(arr, out, dec), NEW gone
  PROVE  Good(Without(arr, gone), out, dec)
<1>1. PICK arr2 : arr2 = Without(arr, gone)
  OBVIOUS
<1>2. arr2 = [loc \in Locs |-> [f \in Formats |-> IF <<loc, f>> \in gone THEN None ELSE arr[loc][f]]]
  BY <1>1 DEF Without, Good, Arrays
<1>3. ASSUME NEW loc \in Locs, NEW f \in Formats
      PROVE  /\ arr2[loc][f] = IF <<loc, f>> \in gone THEN None ELSE arr[loc][f]
             /\ arr2[loc][f] \in Rntis \cup {None}
  <2>1. arr[loc][f] \in Rntis \cup {None}
    BY DEF Good, Arrays
  <2> QED
    BY <1>2, <2>1
<1>4. arr2 \in Arrays
  BY <1>2, <1>3 DEF Arrays
<1>5. InArray(arr2, dec)
  BY <1>3 DEF Good, InArray
<1>6. Around(arr2, out)
  <2> SUFFICES ASSUME NEW d \in out, d.by # "copy", NEW m \in Cleared(d.loc) PROVE arr2[m] = Empty
    BY DEF Around
  <2>1. m \in Locs /\ arr[m] = Empty
    BY WholeBlocks DEF Good, Around, Reports
  <2>2. \A f \in Formats : arr2[m][f] = None
    BY <1>3, <2>1, NoneIs
  <2> QED
    BY <1>2, <2>1, <2>2 DEF Empty
<1> QED
  BY <1>1, <1>4, <1>5, <1>6 DEF Good

\* The target's candidates in an array, by direction; those copy_rnti takes.
Mine(arr) == {c \in Candidates(arr) : arr[c[1]][c[2]] = Target}
MineOf(arr, ul) == {c \in Mine(arr) : (c[2] = 0) <=> ul}
Before(arr, c) == {d \in Mine(arr) : /\ (d[2] = 0) <=> (c[2] = 0)
                                     /\ d[1] < c[1] \/ (d[1] = c[1] /\ d[2] < c[2])}
Taken(arr, out) == {c \in Mine(arr) : Cardinality(Before(arr, c)) < MaxDci - NofDci(out, c[2] = 0)}
Copy(c) == Report(c[2], c[1], Target, "copy")

(* Of each direction copy_rnti takes as many as there is room for, or all. *)
LEMMA TakenOf ==
  ASSUME nof_cce \in CceCounts, NEW arr \in Arrays, NEW out, Room(out), NEW ul \in BOOLEAN, NEW T,
         T = {c \in Taken(arr, out) : (c[2] = 0) <=> ul}
  PROVE  /\ IsFiniteSet(T) /\ Cardinality(T) \in Nat /\ Cardinality(T) <= MaxDci - NofDci(out, ul)
         /\ T # MineOf(arr, ul) => Cardinality(T) = MaxDci - NofDci(out, ul)
         /\ NofDci(out, ul) \in Nat
<1>1. PICK S : S = MineOf(arr, ul)
  OBVIOUS
<1>2. PICK N : N = NofLocations(nof_cce)
  OBVIOUS
<1>3. N \in Nat /\ Locs = 0 .. N - 1 /\ Formats \subseteq 0 .. 4
  BY <1>2, WholeBlocks, TreeAssumption
<1>4. S \subseteq Locs \X Formats /\ \A c \in S : (c[2] = 0) <=> ul
  BY <1>1 DEF MineOf, Mine, Candidates, Arrays
<1>5. IsFiniteSet(S)
  <2>1. IsFiniteSet(Locs)
    BY <1>3, FS_Interval
  <2>2. IsFiniteSet(0 .. 4)
    <3>1. PICK a \in Int, b \in Int : a = 0 /\ b = 4
      OBVIOUS
    <3> QED
      BY <3>1, FS_Interval
  <2>3. IsFiniteSet(Formats)
    BY <1>3, <2>2, FS_Subset
  <2>4. IsFiniteSet(Locs \X Formats)
    BY <2>1, <2>3, FS_Product
  <2> QED
    BY <1>4, <2>4, FS_Subset
<1>6. PICK key : key = [c \in S |-> 5 * c[1] + c[2]]
  OBVIOUS
<1>7. ASSUME NEW c \in S
      PROVE  c = <<c[1], c[2]>> /\ c[1] \in 0 .. N - 1 /\ c[2] \in 0 .. 4 /\ key[c] = 5 * c[1] + c[2]
  <2>1. key[c] = 5 * c[1] + c[2]
    BY <1>6
  <2>2. PICK l \in Locs, f \in Formats : c = <<l, f>>
    BY <1>4
  <2> QED
    BY <1>3, <2>1, <2>2
<1>8. key \in [S -> 0 .. 5 * N + 4] /\ 5 * N + 4 \in Nat
  <2>1. ASSUME NEW c \in S PROVE key[c] \in 0 .. 5 * N + 4
    BY <1>3, <1>7
  <2> QED
    BY <1>3, <1>6, <2>1
<1>9. \A x, y \in S : key[x] = key[y] => x = y
  <2> SUFFICES ASSUME NEW x \in S, NEW y \in S, key[x] = key[y] PROVE x = y
    OBVIOUS
  <2>1. x[1] = y[1] /\ x[2] = y[2]
    BY <1>3, <1>7
  <2> QED
    BY <1>7, <2>1
<1>10. NofDci(out, ul) \in Nat /\ NofDci(out, ul) <= MaxDci /\ MaxDci \in Nat
  <2>1. PICK W : W = {d \in out : (d.format = 0) <=> ul}
    OBVIOUS
  <2>2. W \subseteq out /\ NofDci(out, ul) = Cardinality(W)
    BY <2>1 DEF NofDci
  <2>3. Cardinality(W) \in Nat
    BY <2>2, FS_Subset, FS_CardinalityType DEF Room
  <2> QED
    BY <2>2, <2>3, TreeAssumption DEF Room
<1>11. PICK room : room = MaxDci - NofDci(out, ul)
  OBVIOUS
<1>12. room \in Nat
  BY <1>10, <1>11
<1>13. ASSUME NEW c \in S PROVE Before(arr, c) = {y \in S : key[y] < key[c]}
  <2>1. Before(arr, c) = {y \in S : y[1] < c[1] \/ (y[1] = c[1] /\ y[2] < c[2])}
    BY <1>1, <1>4 DEF Before, MineOf
  <2>2. ASSUME NEW y \in S
        PROVE  (y[1] < c[1] \/ (y[1] = c[1] /\ y[2] < c[2])) <=> key[y] < key[c]
    BY <1>3, <1>7
  <2> QED
    BY <2>1, <2>2
<1>14. T = First(S, key, room)
  <2>1. T = {c \in S : Cardinality(Before(arr, c)) < MaxDci - NofDci(out, c[2] = 0)}
    BY <1>1 DEF Taken, MineOf
  <2>2. ASSUME NEW c \in S PROVE NofDci(out, c[2] = 0) = NofDci(out, ul)
    BY <1>4 DEF NofDci
  <2> QED
    BY <1>11, <1>13, <2>1, <2>2 DEF First
<1>15. PICK n : n = 5 * N + 4
  OBVIOUS
<1>16. /\ IsFiniteSet(T) /\ Cardinality(T) \in Nat /\ Cardinality(T) <= room
       /\ T # S => Cardinality(T) >= room
  <2>1. n \in Nat /\ key \in Keys(S, n)
    BY <1>8, <1>9, <1>15 DEF Keys
  <2> QED
    BY <1>5, <1>12, <1>14, <2>1, TakenInOrder
<1>17. T # S => Cardinality(T) = room
  BY <1>12, <1>16
<1> QED
  BY <1>1, <1>10, <1>11, <1>16, <1>17

(* copy_rnti keeps the output within its bound; when a candidate of the    *)
(* target does not fit, its direction is full.                             *)
LEMMA CopiedRoom ==
  ASSUME nof_cce \in CceCounts, NEW arr \in Arrays, NEW out, Room(out),
         \A d \in out : d.by # "copy",
         NEW out2, out2 = out \cup {Copy(c) : c \in Taken(arr, out)}
  PROVE  /\ Room(out2) /\ (Full(out) => Full(out2))
         /\ \A c \in Mine(arr) : c \in Taken(arr, out) \/ Full(out2)
<1> DEFINE Way(o, ul) == {d \in o : (d.format = 0) <=> ul}
           T(ul) == {c \in Taken(arr, out) : (c[2] = 0) <=> ul}
           C(ul) == {Copy(c) : c \in T(ul)}
<1>0. MaxDci \in Nat
  BY TreeAssumption
<1>1. \A c : Copy(c).format = c[2] /\ Copy(c).by = "copy" /\ Copy(c).loc = c[1]
  BY DEF Copy, Report
<1>2. \A c, d \in Taken(arr, out) : Copy(c) = Copy(d) => c = d
  <2> SUFFICES ASSUME NEW c \in Taken(arr, out), NEW d \in Taken(arr, out), Copy(c) = Copy(d)
               PROVE  c = d
    OBVIOUS
  <2>1. c[1] = d[1] /\ c[2] = d[2]
    BY <1>1
  <2>2. c \in Locs \X Formats /\ d \in Locs \X Formats
    BY DEF Taken, Mine, Candidates, Arrays
  <2> QED
    BY <2>1, <2>2
<1>3. ASSUME NEW ul \in BOOLEAN
      PROVE  /\ IsFiniteSet(Way(out, ul)) /\ NofDci(out, ul) = Cardinality(Way(out, ul))
             /\ NofDci(out, ul) \in Nat /\ NofDci(out, ul) <= MaxDci
             /\ IsFiniteSet(C(ul)) /\ Cardinality(C(ul)) \in Nat
             /\ Cardinality(C(ul)) <= MaxDci - NofDci(out, ul)
             /\ T(ul) # MineOf(arr, ul) => Cardinality(C(ul)) = MaxDci - NofDci(out, ul)
  <2>1. IsFiniteSet(Way(out, ul)) /\ NofDci(out, ul) = Cardinality(Way(out, ul))
    <3>1. Way(out, ul) \in SUBSET out
      OBVIOUS
    <3>2. IsFiniteSet(Way(out, ul))
      <4> HIDE DEF Way
      <4> QED
        BY <3>1, FS_Subset DEF Room
    <3> QED
      BY <3>2 DEF NofDci
  <2>2. PICK t : t = T(ul)
    OBVIOUS
  <2>3. /\ IsFiniteSet(t) /\ Cardinality(t) \in Nat /\ Cardinality(t) <= MaxDci - NofDci(out, ul)
        /\ t # MineOf(arr, ul) => Cardinality(t) = MaxDci - NofDci(out, ul)
        /\ NofDci(out, ul) \in Nat
    BY <2>2, TakenOf
  <2>4. PICK u : u = C(ul)
    OBVIOUS
  <2>5. u = {Copy(c) : c \in t} /\ \A c, d \in t : Copy(c) = Copy(d) => c = d
    BY <1>2, <2>2, <2>4
  <2>6. ExistsBijection(t, u)
    <3>1. PICK b : b = [c \in t |-> Copy(c)]
      OBVIOUS
    <3>2. b \in [t -> u] /\ \A c \in t : b[c] = Copy(c)
      BY <2>5, <3>1
    <3>3. b \in Injection(t, u)
      BY <2>5, <3>2 DEF Injection, IsInjective
    <3>4. b \in Surjection(t, u)
      <4>1. \A y \in u : \E c \in t : b[c] = y
        BY <2>5, <3>2
      <4> QED
        BY <3>2, <4>1 DEF Surjection
    <3> QED
      BY <3>3, <3>4 DEF ExistsBijection, Bijection
  <2>7. IsFiniteSet(u) /\ Cardinality(u) = Cardinality(t)
    BY <2>3, <2>6, FS_Bijection
  <2>8. NofDci(out, ul) <= MaxDci
    BY DEF Room
  <2> HIDE DEF Way, T, C
  <2> QED
    BY <2>1, <2>2, <2>3, <2>4, <2>7, <2>8
<1>4. ASSUME NEW ul \in BOOLEAN
      PROVE  /\ IsFiniteSet(Way(out2, ul))
             /\ NofDci(out2, ul) = NofDci(out, ul) + Cardinality(C(ul))
  <2>1. Way(out2, ul) = Way(out, ul) \cup C(ul)
    <3>1. ASSUME NEW d \in Way(out2, ul) PROVE d \in Way(out, ul) \cup C(ul)
      <4>1. d \in out \/ \E c \in Taken(arr, out) : d = Copy(c)
        OBVIOUS
      <4> QED
        BY <1>1, <4>1
    <3>2. ASSUME NEW d \in C(ul) PROVE d \in Way(out2, ul)
      <4>1. PICK c \in Taken(arr, out) : d = Copy(c) /\ ((c[2] = 0) <=> ul)
        OBVIOUS
      <4> QED
        BY <1>1, <4>1
    <3> QED
      BY <3>1, <3>2
  <2>2. Way(out, ul) \cap C(ul) = {}
    <3> SUFFICES ASSUME NEW d \in out, d \in C(ul) PROVE FALSE
      OBVIOUS
    <3>1. PICK c : d = Copy(c)
      OBVIOUS
    <3> QED
      BY <1>1, <3>1
  <2>3. NofDci(out2, ul) = Cardinality(Way(out2, ul))
    BY DEF NofDci
  <2>4. PICK A, B : A = Way(out, ul) /\ B = C(ul)
    OBVIOUS
  <2> HIDE DEF Way, C
  <2>5. IsFiniteSet(A) /\ IsFiniteSet(B) /\ Cardinality(A) \in Nat /\ Cardinality(B) \in Nat /\ A \cap B = {}
    BY <1>3, <2>2, <2>4
  <2>6. /\ IsFiniteSet(A \cup B)
        /\ Cardinality(A \cup B) = Cardinality(A) + Cardinality(B) - Cardinality(A \cap B)
    BY <2>5, FS_Union
  <2>7. Cardinality(A \cap B) = 0
    BY <2>5, FS_EmptySet
  <2>8. Cardinality(A \cup B) = Cardinality(A) + Cardinality(B)
    BY <2>5, <2>6, <2>7
  <2> QED
    BY <1>3, <2>1, <2>3, <2>4, <2>6, <2>8
<1>c. ASSUME NEW ul \in BOOLEAN
      PROVE  /\ NofDci(out2, ul) <= MaxDci
             /\ NofDci(out, ul) = MaxDci => NofDci(out2, ul) = MaxDci
             /\ T(ul) # MineOf(arr, ul) => NofDci(out2, ul) = MaxDci
  <2>1. PICK n, c, n2 : n = NofDci(out, ul) /\ c = Cardinality(C(ul)) /\ n2 = NofDci(out2, ul)
    OBVIOUS
  <2>2. /\ n \in Nat /\ n <= MaxDci /\ c \in Nat /\ c <= MaxDci - n
        /\ T(ul) # MineOf(arr, ul) => c = MaxDci - n
    BY <1>3, <2>1
  <2>3. n2 = n + c
    BY <1>4, <2>1
  <2> HIDE DEF T, C
  <2> QED
    BY <1>0, <2>1, <2>2, <2>3
<1>5. Room(out2)
  <2>1. out2 = Way(out2, TRUE) \cup Way(out2, FALSE)
    OBVIOUS
  <2>2. IsFiniteSet(Way(out2, TRUE)) /\ IsFiniteSet(Way(out2, FALSE))
    <3> HIDE DEF Way
    <3> QED
      BY <1>4
  <2>3. IsFiniteSet(out2)
    <3> HIDE DEF Way
    <3> QED
      BY <2>1, <2>2, FS_Union
  <2>4. ASSUME NEW ul \in BOOLEAN PROVE NofDci(out2, ul) <= MaxDci
    BY <1>c
  <2> QED
    BY <2>3, <2>4 DEF Room
<1>6. ASSUME Full(out) PROVE Full(out2)
  <2>1. PICK ul \in BOOLEAN : NofDci(out, ul) = MaxDci
    BY <1>6 DEF Full
  <2>2. NofDci(out2, ul) = MaxDci
    BY <1>c, <2>1
  <2> QED
    BY <2>2 DEF Full
<1>7. ASSUME NEW c \in Mine(arr), c \notin Taken(arr, out) PROVE Full(out2)
  <2>1. PICK ul \in BOOLEAN : ul = (c[2] = 0)
    OBVIOUS
  <2>2. c \in MineOf(arr, ul) /\ c \notin T(ul)
    BY <1>7, <2>1 DEF MineOf
  <2>3. NofDci(out2, ul) = MaxDci
    <3>1. T(ul) # MineOf(arr, ul)
      BY <2>2
    <3> HIDE DEF T
    <3> QED
      BY <1>c, <3>1
  <2> QED
    BY <2>3 DEF Full
<1> QED
  BY <1>5, <1>6, <1>7

(* After copy_rnti every candidate of the target overlaps a report, or     *)
(* there was no room for it.                                               *)
LEMMA CopyGood ==
  ASSUME nof_cce \in CceCounts, NEW t, NEW dec, Good(t.arr, t.out, dec),
         TargetKept(t.arr, t.out, dec), \A d \in t.out : d.by = "search"
  PROVE  /\ Good(CopyRnti(t).arr, CopyRnti(t).out, dec) /\ CopyRnti(t).checked = t.checked
         /\ CopyRnti(t) = [arr |-> CopyRnti(t).arr, checked |-> t.checked, out |-> CopyRnti(t).out]
         /\ \A c \in dec : c[3] = Target => Covered(CopyRnti(t).out, c)
<1>1. PICK arr, out : arr = t.arr /\ out = t.out
  OBVIOUS
<1>2. PICK out2 : out2 = out \cup {Copy(c) : c \in Taken(arr, out)}
  OBVIOUS
<1>3. CopyRnti(t) = [arr |-> Without(arr, Mine(arr)), checked |-> t.checked, out |-> out2]
  BY <1>1, <1>2 DEF CopyRnti, Mine, Taken, Before, Copy, Report
<1>4. Good(arr, out, dec) /\ arr \in Arrays /\ Room(out) /\ \A d \in out : d.by = "search" /\ d.by # "copy"
  BY <1>1 DEF Good
<1>5. Good(Without(arr, Mine(arr)), out, dec)
  BY <1>4, WithoutGood
<1>6. /\ Room(out2) /\ (Full(out) => Full(out2))
      /\ \A c \in Mine(arr) : c \in Taken(arr, out) \/ Full(out2)
  BY <1>2, <1>4, CopiedRoom
<1>7. ASSUME NEW d \in out2
      PROVE  d \in out \/ (\E c \in Taken(arr, out) : d = Copy(c))
  BY <1>2
<1>8. ASSUME NEW c \in Taken(arr, out)
      PROVE  /\ Copy(c) \in Reports /\ Copy(c).by = "copy" /\ Copy(c).loc = c[1]
             /\ <<c[1], c[2], Target>> \in dec
             /\ Copy(c).format = c[2] /\ Copy(c).rnti = Target
  <2>1. c \in Locs \X Formats /\ arr[c[1]][c[2]] = Target
    BY <1>4 DEF Taken, Mine, Candidates, Arrays
  <2>2. c[1] \in Locs /\ c[2] \in Formats
    BY <2>1
  <2>3. <<c[1], c[2], Target>> \in dec
    BY <1>4, <2>1, <2>2, NoneIs DEF Good, InArray
  <2> QED
    BY <2>2, <2>3, NoneIs DEF Copy, Report, Reports
<1>9. Reported(out2, dec) /\ out2 \subseteq Reports
  <2>1. ASSUME NEW d \in out2 PROVE <<d.loc, d.format, d.rnti>> \in dec /\ d \in Reports
    <3>1. CASE d \in out
      BY <1>4, <3>1 DEF Good, Reported
    <3>2. CASE \E c \in Taken(arr, out) : d = Copy(c)
      BY <1>8, <3>2
    <3> QED
      BY <1>7, <3>1, <3>2
  <2> QED
    BY <2>1 DEF Reported
<1>10. \A d \in out2 : d.by # "copy" => d \in out
  BY <1>7, <1>8
<1>11. Apart(out2)
  BY <1>4, <1>10 DEF Good, Apart
<1>12. Around(Without(arr, Mine(arr)), out2)
  BY <1>5, <1>10 DEF Good, Around
<1>13. Good(Without(arr, Mine(arr)), out2, dec)
  BY <1>5, <1>6, <1>9, <1>11, <1>12 DEF Good
<1>14. ASSUME NEW c \in dec, c[3] = Target PROVE Covered(out2, c)
  <2>1. c[1] \in Locs /\ c[2] \in Formats
    BY <1>4 DEF Good, Inside
  <2>2. arr[c[1]][c[2]] = Target \/ Covered(out, c)
    BY <1>1, <1>14 DEF TargetKept
  <2>3. CASE Covered(out, c)
    BY <1>2, <1>6, <2>3 DEF Covered
  <2>4. CASE arr[c[1]][c[2]] = Target
    <3>1. PICK e : e = <<c[1], c[2]>>
      OBVIOUS
    <3>2. e \in Mine(arr) /\ e[1] = c[1]
      BY <1>4, <2>1, <2>4, <3>1, NoneIs DEF Mine, Candidates, Arrays
    <3>3. CASE Full(out2)
      BY <3>3 DEF Covered
    <3>4. CASE e \in Taken(arr, out)
      <4>1. Copy(e) \in out2 /\ Copy(e).loc = c[1]
        BY <1>2, <1>8, <3>2, <3>4
      <4>2. c[1] \in Nat
        BY <2>1, WholeBlocks
      <4>3. Overlap(c[1], c[1])
        BY <4>2, ClearedIs, OverlapIs
      <4> QED
        BY <4>1, <4>3 DEF Covered
    <3> QED
      BY <1>6, <3>2, <3>3, <3>4
  <2> QED
    BY <2>2, <2>3, <2>4
<1> QED
  BY <1>3, <1>13, <1>14

-----------------------------------------------------------------------------
(* The invariant.                                                          *)

Trees == [arr : Arrays, checked : SUBSET Locs, out : SUBSET Reports]

\* The pairs whose child lies before a location were taken, or the target is
\* in their block.
TargetIn(dec, b) == \E c \in dec : c[3] = Target /\ Block(c[1]) = b
PairsTaken(arr, at, dec) ==
    \A loc \in Locs : InTree(loc) < NofParents /\ Left(loc, InTree(loc)) < at =>
        Matching(arr, loc, Left(loc, InTree(loc))) = {} \/ TargetIn(dec, Block(loc))

\* While the search is at a location: nothing was decoded from there on, and
\* what surrounds a report is before it or checked.
SearchInv(t, at, dec) ==
    /\ \A d \in t.out : d.by = "search" /\ \A m \in Cleared(d.loc) : m < at \/ m \in t.checked
    /\ Invalid(nof_cce) \subseteq t.checked /\ (at \in Locs => at \notin t.checked)
    /\ \A loc \in Locs : loc >= at => t.arr[loc] = Empty
    /\ TargetKept(t.arr, t.out, dec) /\ PairsTaken(t.arr, at, dec)

TreeInv ==
    /\ nof_cce \in CceCounts /\ phase \in {"search", "filter", "done"}
    /\ loc_idx \in 0 .. NofLocations(nof_cce) /\ skipped \subseteq Locs
    /\ tree \in Trees /\ known.top \subseteq Others /\ known.active \subseteq Others
    /\ Good(tree.arr, tree.out, decoded)
    /\ phase = "search" => SearchInv(tree, loc_idx, decoded)
    /\ phase # "search" => \A c \in decoded : c[3] = Target => Covered(tree.out, c)

(* A parent and its left child, seen from the child.                       *)
LEMMA ParentOf ==
  ASSUME nof_cce \in CceCounts, NEW loc \in Locs, InTree(loc) < NofParents,
         NEW at, at = Left(loc, InTree(loc))
  PROVE  /\ InTree(loc) \in 0 .. NofParents - 1 /\ at \in Locs /\ loc < at
         /\ Block(at) = Block(loc) /\ Left(at, InTree(loc)) = at
         /\ Block(at) * BlockLocs + InTree(loc) = loc
<1>1. PICK i : i = InTree(loc)
  OBVIOUS
<1>2. loc \in Nat /\ i \in Indices /\ loc = Block(loc) * BlockLocs + i
  BY <1>1, WholeBlocks, Place
<1>3. i \in 0 .. NofParents - 1
  BY <1>1, <1>2, Sizes
<1>4. at = Left(loc, i) /\ at \in Locs /\ Block(at) = Block(loc) /\ Block(loc) * BlockLocs + i < at
  BY <1>1, <1>3, LeftIs
<1>5. Left(at, i) = at
  <2>1. Left(at, i) = Left(loc, i)
    BY <1>4 DEF Left
  <2> QED
    BY <1>4, <2>1
<1> QED
  BY <1>1, <1>2, <1>3, <1>4, <1>5

(* Emptying nodes makes no new pair.                                       *)
LEMMA FewerPairs ==
  ASSUME NEW arr, NEW arr2, NEW r, NEW c,
         arr2[r] \in {arr[r], Empty}, arr2[c] \in {arr[c], Empty},
         Matching(arr, r, c) = {} \/ arr2[r] = Empty \/ arr2[c] = Empty
  PROVE  Matching(arr2, r, c) = {}
BY NoneIs DEF Matching

(* The location just decoded completes at most the pair it is the child    *)
(* of; that pair, or an earlier one of its block that has the target, is   *)
(* the one taken.                                                          *)
LEMMA PairsAfter ==
  ASSUME nof_cce \in CceCounts, NEW arr \in Arrays, NEW at \in Locs, NEW dec,
         InArray(arr, dec), PairsTaken(arr, at, dec)
  PROVE  /\ CpMatch(arr, at) = {} => PairsTaken(arr, at + 1, dec)
         /\ \A m \in CpMatch(arr, at) :
              /\ m[1] \in Formats /\ m[2] \in Locs /\ m[2] <= at /\ arr[m[2]][m[1]] # None
              /\ PairsTaken(Emptied(arr, m[2]), at + 1, dec)
<1>0. at \in Nat /\ \A l \in Locs : l \in Nat
  BY WholeBlocks
<1>1. ASSUME NEW i \in 0 .. NofParents - 1
      PROVE  /\ Left(at, i) \in Locs /\ Block(at) * BlockLocs + i \in Locs
             /\ Block(Left(at, i)) = Block(at) /\ Block(Block(at) * BlockLocs + i) = Block(at)
             /\ Block(at) * BlockLocs + i < Left(at, i)
             /\ InTree(Block(at) * BlockLocs + i) = i
             /\ Left(Block(at) * BlockLocs + i, i) = Left(at, i)
  <2>1. /\ Left(at, i) \in Locs /\ Block(at) * BlockLocs + i \in Locs
        /\ Block(Left(at, i)) = Block(at) /\ Block(Block(at) * BlockLocs + i) = Block(at)
        /\ Block(at) * BlockLocs + i < Left(at, i)
        /\ InTree(Block(at) * BlockLocs + i) = i
    BY LeftIs
  <2> QED
    BY <2>1 DEF Left
<1>2. ASSUME NEW l \in Locs, NEW f \in Formats, arr[l][f] = Target
      PROVE  TargetIn(dec, Block(l))
  <2>1. <<l, f, Target>> \in dec
    BY <1>2, NoneIs DEF InArray
  <2> QED
    BY <2>1 DEF TargetIn
<1>3. ASSUME CpMatch(arr, at) = {} PROVE PairsTaken(arr, at + 1, dec)
  <2> SUFFICES ASSUME NEW loc \in Locs, InTree(loc) < NofParents, Left(loc, InTree(loc)) < at + 1
               PROVE  Matching(arr, loc, Left(loc, InTree(loc))) = {} \/ TargetIn(dec, Block(loc))
    BY DEF PairsTaken
  <2>1. PICK c : c = Left(loc, InTree(loc))
    OBVIOUS
  <2>2. /\ InTree(loc) \in 0 .. NofParents - 1 /\ c \in Locs /\ loc < c
        /\ Block(c) = Block(loc) /\ Left(c, InTree(loc)) = c
        /\ Block(c) * BlockLocs + InTree(loc) = loc
    BY <2>1, ParentOf
  <2>3. CASE c < at
    BY <2>1, <2>3 DEF PairsTaken
  <2>4. CASE c = at
    <3>1. Match(arr, loc, c) = {}
      <4>1. \A i \in 0 .. NofParents - 1 :
              Left(at, i) <= at => Match(arr, Block(at) * BlockLocs + i, Left(at, i)) = {}
        BY <1>3, CpMatchIs
      <4> QED
        BY <1>0, <2>2, <2>4, <4>1
    <3> QED
      BY <2>1, <2>2, <3>1, MatchIs
  <2> QED
    BY <1>0, <2>1, <2>2, <2>3, <2>4
<1>4. ASSUME NEW m \in CpMatch(arr, at)
      PROVE  /\ m[1] \in Formats /\ m[2] \in Locs /\ m[2] <= at /\ arr[m[2]][m[1]] # None
             /\ PairsTaken(Emptied(arr, m[2]), at + 1, dec)
  <2>1. PICK i \in 0 .. NofParents - 1 :
           /\ Left(at, i) <= at
           /\ m \in Match(arr, Block(at) * BlockLocs + i, Left(at, i))
           /\ \A j \in 0 .. NofParents - 1 :
                Left(at, j) <= at /\ Match(arr, Block(at) * BlockLocs + j, Left(at, j)) # {} => i <= j
    BY <1>4, CpMatchIs
  <2>2. PICK root, child : root = Block(at) * BlockLocs + i /\ child = Left(at, i)
    OBVIOUS
  <2>3. /\ root \in Locs /\ child \in Locs /\ root < child /\ child <= at /\ InTree(root) = i
        /\ Block(root) = Block(at) /\ Block(child) = Block(at) /\ Left(root, i) = child
        /\ m \in Match(arr, root, child)
    BY <1>1, <2>1, <2>2
  <2>4. /\ m[1] \in Formats /\ m[2] \in {root, child} /\ arr[m[2]][m[1]] # None
        /\ WithTarget(arr, root, child) = {} => m[2] = root
        /\ WithTarget(arr, root, child) # {} \/ Matching(arr, root, child) # {}
    BY <2>3, MatchIs
  <2>5. m[2] \in Locs /\ m[2] <= at
    <3>1. root \in Nat /\ child \in Nat
      BY <1>0, <2>3
    <3>2. m[2] = root \/ m[2] = child
      BY <2>4
    <3> QED
      BY <1>0, <2>3, <3>1, <3>2
  <2>6. PICK arr2 : arr2 = Emptied(arr, m[2])
    OBVIOUS
  <2>7. /\ \A l \in Locs : arr2[l] \in {arr[l], Empty}
        /\ arr2[m[2]] = Empty
    <3>1. arr2 = [l \in Locs |-> IF l \in Cleared(m[2]) THEN Empty ELSE arr[l]]
      BY <2>6 DEF Emptied, Arrays
    <3>2. m[2] \in Cleared(m[2])
      BY <1>0, <2>5, ClearedIs
    <3> QED
      BY <2>5, <3>1, <3>2
  <2>8. WithTarget(arr, root, child) # {} => TargetIn(dec, Block(at))
    <3> SUFFICES ASSUME NEW f \in WithTarget(arr, root, child) PROVE TargetIn(dec, Block(at))
      OBVIOUS
    <3>1. f \in Formats /\ (arr[root][f] = Target \/ arr[child][f] = Target)
      BY DEF WithTarget
    <3> QED
      BY <1>2, <2>3, <3>1
  <2>9. ASSUME NEW loc \in Locs, InTree(loc) < NofParents, Left(loc, InTree(loc)) < at + 1
        PROVE  Matching(arr2, loc, Left(loc, InTree(loc))) = {} \/ TargetIn(dec, Block(loc))
    <3>1. PICK c : c = Left(loc, InTree(loc))
      OBVIOUS
    <3>2. /\ InTree(loc) \in 0 .. NofParents - 1 /\ c \in Locs /\ loc < c
          /\ Block(c) = Block(loc) /\ Left(c, InTree(loc)) = c
          /\ Block(c) * BlockLocs + InTree(loc) = loc
      BY <2>9, <3>1, ParentOf
    <3>3. arr2[loc] \in {arr[loc], Empty} /\ arr2[c] \in {arr[c], Empty}
      BY <2>7, <3>2
    <3>4. CASE Matching(arr, loc, c) = {}
      BY <3>1, <3>3, <3>4, FewerPairs
    <3>5. CASE Matching(arr, loc, c) # {} /\ c < at
      BY <2>9, <3>1, <3>5 DEF PairsTaken
    <3>6. CASE Matching(arr, loc, c) # {} /\ c = at
      <4>1. Match(arr, loc, c) # {}
        BY <3>2, <3>6, MatchIs
      <4>2. i <= InTree(loc)
        BY <1>0, <2>1, <3>2, <3>6, <4>1
      <4>3. CASE i = InTree(loc)
        <5>1. root = loc /\ child = c
          BY <2>2, <3>2, <3>6, <4>3
        <5>2. CASE WithTarget(arr, root, child) = {}
          BY <2>4, <2>7, <3>1, <3>3, <5>1, <5>2, FewerPairs
        <5>3. CASE WithTarget(arr, root, child) # {}
          BY <2>8, <3>2, <3>6, <5>3
        <5> QED
          BY <5>2, <5>3
      <4>4. CASE i # InTree(loc)
        <5>1. child < at
          <6>1. i < InTree(loc)
            BY <3>2, <4>2, <4>4
          <6>2. PICK p : p = Block(at) * BlockLocs
            OBVIOUS
          <6>3. p \in Nat
            <7>1. Block(at) \in Nat /\ BlockLocs \in Nat
              BY <1>0, Place, Sizes
            <7> QED
              BY <6>2, <7>1
          <6>4. child = p + 2 * i + 1
            BY <2>2, <6>2 DEF Left
          <6>5. at = p + 2 * InTree(loc) + 1
            BY <3>2, <3>6, <6>2 DEF Left
          <6> QED
            BY <3>2, <6>1, <6>3, <6>4, <6>5
        <5>2. i < NofParents
          BY Sizes
        <5>3. Matching(arr, root, child) = {} \/ TargetIn(dec, Block(root))
          BY <2>3, <5>1, <5>2 DEF PairsTaken
        <5> QED
          BY <2>3, <2>4, <2>8, <3>2, <3>6, <5>3
      <4> QED
        BY <4>3, <4>4
    <3> QED
      BY <1>0, <2>9, <3>1, <3>2, <3>4, <3>5, <3>6
  <2>10. PairsTaken(arr2, at + 1, dec)
    BY <2>9 DEF PairsTaken
  <2> QED
    BY <2>4, <2>5, <2>6, <2>10
<1> QED
  BY <1>3, <1>4

(* When a location is done with, the search may go on at the next one that *)
(* is not checked.                                                         *)
LEMMA Advance ==
  ASSUME nof_cce \in CceCounts, NEW at \in Locs, NEW t, NEW dec,
         t.arr \in Arrays, t.out \subseteq Reports,
         \A d \in t.out : d.by = "search" /\ \A m \in Cleared(d.loc) : m <= at \/ m \in t.checked,
         Invalid(nof_cce) \subseteq t.checked,
         \A loc \in Locs : loc > at => t.arr[loc] = Empty,
         TargetKept(t.arr, t.out, dec), PairsTaken(t.arr, at + 1, dec)
  PROVE  /\ SearchInv(t, NextLoc(t.checked, at + 1), dec)
         /\ NextLoc(t.checked, at + 1) \in 0 .. NofLocations(nof_cce)
<1>1. PICK N, n : N = NofLocations(nof_cce) /\ n = NextLoc(t.checked, at + 1)
  OBVIOUS
<1>2. N \in Nat /\ Locs = 0 .. N - 1 /\ at \in Nat /\ at + 1 \in 0 .. N /\ \A l \in Locs : l \in Nat
  BY <1>1, WholeBlocks
<1>3. PICK from : from = at + 1
  OBVIOUS
<1>4. /\ n \in from .. N /\ (n \in Locs => n \notin t.checked)
  BY <1>1, <1>2, <1>3, NextLocIs
<1>5. n \in 0 .. N /\ n > at /\ n \in Nat
  BY <1>2, <1>3, <1>4
<1>6. ASSUME NEW d \in t.out, NEW m \in Cleared(d.loc) PROVE m < n \/ m \in t.checked
  <2>1. m \in Nat
    BY <1>2, WholeBlocks DEF Reports
  <2> QED
    BY <1>2, <1>5, <2>1
<1>7. PairsTaken(t.arr, n, dec)
  <2> SUFFICES ASSUME NEW loc \in Locs, InTree(loc) < NofParents, Left(loc, InTree(loc)) < n
               PROVE  Matching(t.arr, loc, Left(loc, InTree(loc))) = {} \/ TargetIn(dec, Block(loc))
    BY DEF PairsTaken
  <2>1. PICK c : c = Left(loc, InTree(loc))
    OBVIOUS
  <2>2. c \in Locs /\ c \in Nat
    BY <1>2, <2>1, ParentOf
  <2>3. CASE c < at + 1
    BY <2>1, <2>3 DEF PairsTaken
  <2>4. CASE c > at
    <3>1. t.arr[c] = Empty
      BY <2>2, <2>4
    <3>2. Matching(t.arr, loc, c) = {}
      BY <3>1, NoneIs DEF Matching
    <3> QED
      BY <2>1, <3>2
  <2> QED
    BY <1>2, <2>2, <2>3, <2>4
<1>8. \A loc \in Locs : loc >= n => t.arr[loc] = Empty
  BY <1>2, <1>5
<1>9. SearchInv(t, n, dec)
  BY <1>4, <1>6, <1>7, <1>8 DEF SearchInv
<1> QED
  BY <1>1, <1>5, <1>9

(* A candidate at or before the current location can be taken.             *)
LEMMA TakeAt ==
  ASSUME nof_cce \in CceCounts, NEW at \in Locs, NEW t \in Trees, NEW dec,
         Good(t.arr, t.out, dec), TargetKept(t.arr, t.out, dec),
         \A d \in t.out : d.by = "search" /\ \A m \in Cleared(d.loc) : m <= at \/ m \in t.checked,
         \A loc \in Locs : loc > at => t.arr[loc] = Empty,
         NEW loc \in Locs, loc <= at, NEW f \in Formats, t.arr[loc][f] # None,
         NEW u, u = CopyDci(t, f, loc)
  PROVE  /\ u \in Trees /\ u.arr = Emptied(t.arr, loc) /\ t.checked \subseteq u.checked
         /\ Good(u.arr, u.out, dec) /\ TargetKept(u.arr, u.out, dec)
         /\ \A d \in u.out : d.by = "search" /\ \A m \in Cleared(d.loc) : m <= at \/ m \in u.checked
         /\ \A l \in Locs : l > at => u.arr[l] = Empty
<1>1. PICK r : r = t.arr[loc][f]
  OBVIOUS
<1>2. PICK out2 : out2 = Push(t.out, f, loc, r, "search")
  OBVIOUS
<1>3. PICK arr2 : arr2 = Emptied(t.arr, loc)
  OBVIOUS
<1>4. u = [arr |-> arr2, checked |-> t.checked \cup Subtree(loc), out |-> out2]
  BY <1>1, <1>2, <1>3 DEF CopyDci, Emptied
<1>5. u.arr = arr2 /\ u.checked = t.checked \cup Subtree(loc) /\ u.out = out2
  BY <1>4
<1>6. PICK by \in {"search", "filter"} : by = "search"
  OBVIOUS
<1>7. Good(arr2, out2, dec) /\ TargetKept(arr2, out2, dec)
  BY <1>1, <1>2, <1>3, <1>6, TakeGood
<1>8. loc \in Nat /\ at \in Nat /\ (\A l \in Locs : l \in Nat) /\ Cleared(loc) \subseteq Locs
  BY WholeBlocks
<1>9. /\ Subtree(loc) \subseteq Locs
      /\ \A m \in Cleared(loc) : m \in Subtree(loc) \/ m <= loc
  BY <1>8, ClearedIs
<1>10. u \in Trees
  <2>1. arr2 \in Arrays /\ out2 \in SUBSET Reports
    BY <1>7 DEF Good
  <2>2. t.checked \cup Subtree(loc) \in SUBSET Locs
    BY <1>9 DEF Trees
  <2> QED
    BY <1>4, <2>1, <2>2 DEF Trees
<1>11. ASSUME NEW d \in out2
       PROVE  d.by = "search" /\ \A m \in Cleared(d.loc) : m <= at \/ m \in u.checked
  <2>1. Room(t.out)
    BY DEF Good
  <2>2. d \in t.out \/ d = Report(f, loc, r, "search")
    BY <1>2, <2>1, PushIs
  <2>3. CASE d \in t.out
    BY <1>5, <2>3
  <2>4. CASE d = Report(f, loc, r, "search")
    <3>1. d.by = "search" /\ d.loc = loc
      BY <2>4 DEF Report
    <3>2. ASSUME NEW m \in Cleared(loc) PROVE m <= at \/ m \in u.checked
      <4>1. m \in Nat
        BY <1>8
      <4> QED
        BY <1>5, <1>8, <1>9, <4>1
    <3> QED
      BY <3>1, <3>2
  <2> QED
    BY <2>2, <2>3, <2>4
<1>12. ASSUME NEW l \in Locs, l > at PROVE arr2[l] = Empty
  <2>1. arr2 = [m \in Locs |-> IF m \in Cleared(loc) THEN Empty ELSE t.arr[m]]
    BY <1>3 DEF Emptied, Good, Arrays
  <2> QED
    BY <1>12, <2>1
<1> QED
  BY <1>3, <1>5, <1>7, <1>10, <1>11, <1>12

(* Searching a location keeps the invariant, whatever is found there.      *)
LEMMA SearchStep ==
  ASSUME TreeInv, Searching, NEW found \in Found, Search(found)
  PROVE  /\ tree' \in Trees /\ Good(tree'.arr, tree'.out, decoded')
         /\ SearchInv(tree', loc_idx', decoded') /\ loc_idx' \in 0 .. NofLocations(nof_cce)
<1>1. PICK at, dec : at = loc_idx /\ dec = decoded'
  OBVIOUS
<1>2. PICK arr : arr = [tree.arr EXCEPT ![at] = found]
  OBVIOUS
<1>3. PICK t : t = Put(found)
  OBVIOUS
<1>4. nof_cce \in CceCounts /\ at \in Locs /\ at \in Nat /\ (\A l \in Locs : l \in Nat)
  <2>1. nof_cce \in CceCounts /\ at \in Locs
    BY <1>1 DEF TreeInv, Searching
  <2> QED
    BY <2>1, WholeBlocks
<1>5. /\ tree \in Trees /\ Good(tree.arr, tree.out, decoded) /\ SearchInv(tree, at, decoded)
  BY <1>1 DEF TreeInv, Searching
<1>6. found \in [Formats -> Rntis \cup {None}]
  BY DEF Found
<1>7. dec = decoded \cup New(at, found)
  BY <1>1 DEF Search, New
<1>8. t = [arr |-> arr, checked |-> tree.checked, out |-> tree.out]
  <2>1. tree = [arr |-> tree.arr, checked |-> tree.checked, out |-> tree.out]
    BY <1>5 DEF Trees
  <2>2. t = [tree EXCEPT !.arr = arr]
    BY <1>1, <1>2, <1>3, <2>1 DEF Put
  <2> QED
    BY <2>1, <2>2
<1>9. t.arr = arr /\ t.checked = tree.checked /\ t.out = tree.out
  BY <1>8
<1>10. Good(arr, t.out, dec) /\ TargetKept(arr, t.out, dec)
  <2>1. PICK arr0, out0, dec0 : arr0 = tree.arr /\ out0 = tree.out /\ dec0 = decoded
    OBVIOUS
  <2>2. /\ Good(arr0, out0, dec0) /\ TargetKept(arr0, out0, dec0)
        /\ at \notin Invalid(nof_cce) /\ arr0[at] = Empty
        /\ \A d \in out0 : d.by # "copy" => at \notin Cleared(d.loc)
    BY <1>4, <1>5, <2>1 DEF SearchInv
  <2>3. /\ Good([arr0 EXCEPT ![at] = found], out0, dec0 \cup New(at, found))
        /\ TargetKept([arr0 EXCEPT ![at] = found], out0, dec0 \cup New(at, found))
    BY <1>4, <1>6, <2>2, PutGood
  <2> QED
    BY <1>2, <1>7, <1>9, <2>1, <2>3
<1>11. t \in Trees
  <2>1. arr \in Arrays
    BY <1>10 DEF Good
  <2> QED
    BY <1>5, <1>8, <2>1 DEF Trees
<1>12. /\ \A d \in t.out : d.by = "search" /\ \A m \in Cleared(d.loc) : m <= at \/ m \in t.checked
       /\ Invalid(nof_cce) \subseteq t.checked
  <2>1. ASSUME NEW d \in t.out, NEW m \in Cleared(d.loc) PROVE m <= at \/ m \in t.checked
    <3>1. d.loc \in Locs
      BY <1>5, <1>9 DEF Trees, Reports
    <3>2. m \in Nat
      BY <1>4, <3>1, WholeBlocks
    <3> QED
      BY <1>4, <1>5, <1>9, <3>2 DEF SearchInv
  <2> QED
    BY <1>5, <1>9, <2>1 DEF SearchInv
<1>13. \A l \in Locs : l > at => t.arr[l] = Empty
  <2> SUFFICES ASSUME NEW l \in Locs, l > at PROVE t.arr[l] = Empty
    OBVIOUS
  <2>1. l >= at /\ l # at
    BY <1>4
  <2>2. t.arr[l] = tree.arr[l]
    BY <1>2, <1>5, <1>9, <2>1 DEF Trees, Arrays
  <2> QED
    BY <1>5, <2>1, <2>2 DEF SearchInv
<1>14. PairsTaken(t.arr, at, dec)
  <2> SUFFICES ASSUME NEW loc \in Locs, InTree(loc) < NofParents, Left(loc, InTree(loc)) < at
               PROVE  Matching(t.arr, loc, Left(loc, InTree(loc))) = {} \/ TargetIn(dec, Block(loc))
    BY DEF PairsTaken
  <2>1. PICK c : c = Left(loc, InTree(loc))
    OBVIOUS
  <2>2. c \in Locs /\ loc < c /\ c < at
    BY <1>4, <2>1, ParentOf
  <2>3. loc # at /\ c # at
    BY <1>4, <2>2
  <2>4. t.arr[loc] = tree.arr[loc] /\ t.arr[c] = tree.arr[c]
    BY <1>2, <1>5, <1>9, <2>2, <2>3 DEF Trees, Arrays
  <2>5. Matching(t.arr, loc, c) = Matching(tree.arr, loc, c)
    BY <2>4 DEF Matching
  <2>6. Matching(tree.arr, loc, c) = {} \/ TargetIn(decoded, Block(loc))
    BY <1>5, <2>1, <2>2 DEF SearchInv, PairsTaken
  <2>7. TargetIn(decoded, Block(loc)) => TargetIn(dec, Block(loc))
    BY <1>7 DEF TargetIn
  <2> QED
    BY <2>1, <2>5, <2>6, <2>7
<1>15. arr \in Arrays /\ InArray(arr, dec) /\ t.arr \in Arrays /\ InArray(t.arr, dec)
  BY <1>9, <1>10 DEF Good
<1>16. \E u \in Trees :
         /\ tree' = u /\ Good(u.arr, u.out, dec) /\ TargetKept(u.arr, u.out, dec)
         /\ \A d \in u.out : d.by = "search" /\ \A m \in Cleared(d.loc) : m <= at \/ m \in u.checked
         /\ Invalid(nof_cce) \subseteq u.checked
         /\ \A l \in Locs : l > at => u.arr[l] = Empty
         /\ PairsTaken(u.arr, at + 1, dec)
  <2>1. CASE TakePaging(found)
    <3>1. PICK f : f = Min(PagingFormats(found))
      OBVIOUS
    <3>2. f \in Formats /\ found[f] = Paging
      <4>1. PagingFormats(found) \in SUBSET Formats /\ PagingFormats(found) # {}
        BY <2>1 DEF TakePaging, PagingFormats
      <4>2. f \in PagingFormats(found) /\ f \in Formats
        BY <3>1, <4>1, FirstFormat
      <4> QED
        BY <4>2 DEF PagingFormats
    <3>3. t.arr[at][f] # None
      <4>1. t.arr[at] = found
        BY <1>2, <1>4, <1>5, <1>9 DEF Trees, Arrays
      <4>2. Paging \in Rntis
        BY DEF Rntis
      <4> QED
        BY <3>2, <4>1, <4>2, NoneIs
    <3>4. PICK u : u = CopyDci(t, f, at)
      OBVIOUS
    <3>5. tree' = u
      BY <1>1, <1>3, <2>1, <3>1, <3>4 DEF TakePaging
    <3>6. at <= at /\ Good(t.arr, t.out, dec) /\ TargetKept(t.arr, t.out, dec)
      BY <1>4, <1>9, <1>10
    <3>7. /\ u \in Trees /\ u.arr = Emptied(t.arr, at) /\ t.checked \subseteq u.checked
          /\ Good(u.arr, u.out, dec) /\ TargetKept(u.arr, u.out, dec)
          /\ \A d \in u.out : d.by = "search" /\ \A m \in Cleared(d.loc) : m <= at \/ m \in u.checked
          /\ \A l \in Locs : l > at => u.arr[l] = Empty
      BY <1>4, <1>11, <1>12, <1>13, <3>2, <3>3, <3>4, <3>6, TakeAt
    <3>8. PairsTaken(u.arr, at + 1, dec)
      <4> SUFFICES ASSUME NEW loc \in Locs, InTree(loc) < NofParents, Left(loc, InTree(loc)) < at + 1
                   PROVE  Matching(u.arr, loc, Left(loc, InTree(loc))) = {} \/ TargetIn(dec, Block(loc))
        BY DEF PairsTaken
      <4>1. PICK c : c = Left(loc, InTree(loc))
        OBVIOUS
      <4>2. c \in Locs /\ c \in Nat
        BY <1>4, <4>1, ParentOf
      <4>3. at \in Cleared(at)
        BY <1>4, ClearedIs
      <4>4. u.arr = [m \in Locs |-> IF m \in Cleared(at) THEN Empty ELSE t.arr[m]]
        BY <1>15, <3>7 DEF Emptied, Arrays
      <4>5. /\ u.arr[loc] \in {t.arr[loc], Empty} /\ u.arr[c] \in {t.arr[c], Empty}
            /\ c = at => u.arr[c] = Empty
        BY <4>2, <4>3, <4>4
      <4>6. c < at \/ c = at
        BY <1>4, <4>1, <4>2
      <4>7. CASE c = at
        BY <4>1, <4>5, <4>7, FewerPairs
      <4>8. CASE c < at
        BY <1>14, <4>1, <4>5, <4>8, FewerPairs DEF PairsTaken
      <4> QED
        BY <4>6, <4>7, <4>8
    <3> QED
      BY <1>12, <3>5, <3>7, <3>8
  <2>2. CASE MatchTree(found)
    <3>1. PICK taken : taken = CpMatch(t.arr, at)
      OBVIOUS
    <3>2. /\ taken = {} => PairsTaken(t.arr, at + 1, dec)
          /\ \A m \in taken :
               /\ m[1] \in Formats /\ m[2] \in Locs /\ m[2] <= at /\ t.arr[m[2]][m[1]] # None
               /\ PairsTaken(Emptied(t.arr, m[2]), at + 1, dec)
      BY <1>4, <1>14, <1>15, <3>1, PairsAfter
    <3>3. PICK r \in IF taken = {} THEN {t} ELSE {CopyDci(t, m[1], m[2]) : m \in taken} :
             tree' = [r EXCEPT !.checked = @ \cup {at}]
      BY <1>1, <1>3, <2>2, <3>1 DEF MatchTree
    <3>4. /\ r \in Trees /\ Good(r.arr, r.out, dec) /\ TargetKept(r.arr, r.out, dec)
          /\ \A d \in r.out : d.by = "search" /\ \A m \in Cleared(d.loc) : m <= at \/ m \in r.checked
          /\ Invalid(nof_cce) \subseteq r.checked
          /\ \A l \in Locs : l > at => r.arr[l] = Empty
          /\ PairsTaken(r.arr, at + 1, dec)
      <4>1. CASE taken = {}
        <5>1. r = t
          BY <3>3, <4>1
        <5> QED
          BY <1>9, <1>10, <1>11, <1>12, <1>13, <3>2, <4>1, <5>1
      <4>2. CASE taken # {}
        <5>1. PICK m \in taken : r = CopyDci(t, m[1], m[2])
          BY <3>3, <4>2
        <5>2. PICK f, loc : f = m[1] /\ loc = m[2]
          OBVIOUS
        <5>3. /\ f \in Formats /\ loc \in Locs /\ loc <= at /\ t.arr[loc][f] # None
              /\ r = CopyDci(t, f, loc) /\ PairsTaken(Emptied(t.arr, loc), at + 1, dec)
          BY <3>2, <5>1, <5>2
        <5>4. Good(t.arr, t.out, dec) /\ TargetKept(t.arr, t.out, dec)
          BY <1>9, <1>10
        <5>5. PICK u : u = CopyDci(t, f, loc)
          OBVIOUS
        <5>6. /\ u \in Trees /\ u.arr = Emptied(t.arr, loc) /\ t.checked \subseteq u.checked
              /\ Good(u.arr, u.out, dec) /\ TargetKept(u.arr, u.out, dec)
              /\ \A d \in u.out : d.by = "search" /\ \A x \in Cleared(d.loc) : x <= at \/ x \in u.checked
              /\ \A l \in Locs : l > at => u.arr[l] = Empty
          BY <1>4, <1>11, <1>12, <1>13, <5>3, <5>4, <5>5, TakeAt
        <5> QED
          BY <1>12, <5>3, <5>5, <5>6
      <4> QED
        BY <4>1, <4>2
    <3>5. PICK u : u = [r EXCEPT !.checked = r.checked \cup {at}]
      OBVIOUS
    <3>6. u = [arr |-> r.arr, checked |-> r.checked \cup {at}, out |-> r.out]
      BY <3>4, <3>5 DEF Trees
    <3>7. /\ tree' = u /\ u.arr = r.arr /\ u.out = r.out /\ u.checked = r.checked \cup {at}
          /\ u \in Trees
      BY <1>4, <3>3, <3>4, <3>5, <3>6 DEF Trees
    <3> QED
      BY <3>4, <3>7
  <2> QED
    BY <2>1, <2>2 DEF Search
<1>17. PICK u \in Trees :
         /\ tree' = u /\ Good(u.arr, u.out, dec) /\ TargetKept(u.arr, u.out, dec)
         /\ \A d \in u.out : d.by = "search" /\ \A m \in Cleared(d.loc) : m <= at \/ m \in u.checked
         /\ Invalid(nof_cce) \subseteq u.checked
         /\ \A l \in Locs : l > at => u.arr[l] = Empty
         /\ PairsTaken(u.arr, at + 1, dec)
  BY <1>16
<1>18. u.arr \in Arrays /\ u.out \subseteq Reports
  BY <1>17 DEF Good
<1>19. /\ SearchInv(u, NextLoc(u.checked, at + 1), dec)
       /\ NextLoc(u.checked, at + 1) \in 0 .. NofLocations(nof_cce)
  BY <1>4, <1>17, <1>18, Advance
<1>20. loc_idx' = NextLoc(u.checked, at + 1)
  BY <1>1, <1>17 DEF Search
<1> QED
  BY <1>1, <1>17, <1>19, <1>20

(* A step that leaves the number of CCEs alone keeps the invariant when    *)
(* its parts hold of the new values.                                       *)
LEMMA Keep ==
  ASSUME nof_cce \in CceCounts, UNCHANGED nof_cce, phase' \in {"search", "filter", "done"},
         loc_idx' \in 0 .. NofLocations(nof_cce), skipped' \subseteq Locs,
         tree' \in Trees, known'.top \subseteq Others, known'.active \subseteq Others,
         Good(tree'.arr, tree'.out, decoded'),
         phase' = "search" => SearchInv(tree', loc_idx', decoded'),
         phase' # "search" => \A c \in decoded' : c[3] = Target => Covered(tree'.out, c)
  PROVE  TreeInv'
<1>1. Locs' = Locs /\ nof_cce' = nof_cce
  BY DEF Locs
<1>2. Arrays' = Arrays /\ Reports' = Reports
  BY <1>1 DEF Arrays, Reports
<1>3. Trees' = Trees
  BY <1>1, <1>2 DEF Trees
<1>4. Good(tree.arr, tree.out, decoded)'
  <2>1. Inside(decoded)'
    BY <1>1 DEF Good, Inside
  <2>2. InArray(tree.arr, decoded)'
    BY <1>1 DEF Good, InArray
  <2> QED
    BY <1>2, <2>1, <2>2 DEF Good
<1>5. ASSUME phase' = "search" PROVE SearchInv(tree, loc_idx, decoded)'
  <2>1. PairsTaken(tree.arr, loc_idx, decoded)'
    BY <1>1, <1>5 DEF SearchInv, PairsTaken
  <2> QED
    BY <1>1, <1>5, <2>1 DEF SearchInv
<1> QED
  BY <1>1, <1>3, <1>4, <1>5 DEF TreeInv

(* Passing over a location keeps the invariant.                            *)
LEMMA SkipStep ==
  ASSUME TreeInv, SkipLowLlr
  PROVE  TreeInv'
<1>1. PICK at : at = loc_idx
  OBVIOUS
<1>2. /\ nof_cce \in CceCounts /\ at \in Locs /\ tree \in Trees /\ skipped \subseteq Locs
      /\ Good(tree.arr, tree.out, decoded) /\ SearchInv(tree, at, decoded)
      /\ known.top \subseteq Others /\ known.active \subseteq Others /\ phase = "search"
  BY <1>1 DEF TreeInv, SkipLowLlr, Searching
<1>3. at \in Nat /\ \A l \in Locs : l \in Nat
  BY <1>2, WholeBlocks
<1>4. PICK t, dec : t = tree /\ dec = decoded
  OBVIOUS
<1>5. t.arr \in Arrays /\ t.out \subseteq Reports /\ TargetKept(t.arr, t.out, dec)
  BY <1>2, <1>4 DEF Good, SearchInv
<1>6. /\ \A d \in t.out : d.by = "search" /\ \A m \in Cleared(d.loc) : m <= at \/ m \in t.checked
      /\ Invalid(nof_cce) \subseteq t.checked
  <2>1. ASSUME NEW d \in t.out, NEW m \in Cleared(d.loc) PROVE m <= at \/ m \in t.checked
    <3>1. d.loc \in Locs
      BY <1>5 DEF Reports
    <3>2. m \in Nat
      BY <1>2, <1>3, <3>1, WholeBlocks
    <3> QED
      BY <1>2, <1>3, <1>4, <3>2 DEF SearchInv
  <2> QED
    BY <1>2, <1>4, <2>1 DEF SearchInv
<1>7. t.arr[at] = Empty /\ \A l \in Locs : l > at => t.arr[l] = Empty
  BY <1>2, <1>3, <1>4 DEF SearchInv
<1>8. PairsTaken(t.arr, at + 1, dec)
  <2> SUFFICES ASSUME NEW loc \in Locs, InTree(loc) < NofParents, Left(loc, InTree(loc)) < at + 1
               PROVE  Matching(t.arr, loc, Left(loc, InTree(loc))) = {} \/ TargetIn(dec, Block(loc))
    BY DEF PairsTaken
  <2>1. PICK c : c = Left(loc, InTree(loc))
    OBVIOUS
  <2>2. c \in Nat
    BY <1>2, <1>3, <2>1, ParentOf
  <2>3. CASE c = at
    <3>1. Matching(t.arr, loc, c) = {}
      BY <1>7, <2>3, NoneIs DEF Matching
    <3> QED
      BY <2>1, <3>1
  <2>4. CASE c < at
    BY <1>2, <1>4, <2>1, <2>4 DEF SearchInv, PairsTaken
  <2> QED
    BY <1>3, <2>1, <2>2, <2>3, <2>4
<1>9. /\ SearchInv(t, NextLoc(t.checked, at + 1), dec)
      /\ NextLoc(t.checked, at + 1) \in 0 .. NofLocations(nof_cce)
  BY <1>2, <1>5, <1>6, <1>7, <1>8, Advance
<1>10. /\ loc_idx' = NextLoc(t.checked, at + 1) /\ tree' = t /\ decoded' = dec /\ phase' = "search"
       /\ skipped' \subseteq Locs /\ UNCHANGED <<nof_cce, known>>
  BY <1>1, <1>2, <1>4 DEF SkipLowLlr
<1> QED
  BY <1>2, <1>4, <1>9, <1>10, Keep

(* What the UE tracker's filter takes at a location.                       *)
LEMMA KnownGood ==
  ASSUME nof_cce \in CceCounts, NEW t \in Trees, NEW dec, Good(t.arr, t.out, dec),
         NEW loc \in Locs, NEW ues \in SUBSET Others, NEW u, u = TakeKnown(t, loc, ues)
  PROVE  /\ u \in Trees /\ Good(u.arr, u.out, dec)
         /\ \A c \in dec : Covered(t.out, c) => Covered(u.out, c)
<1>1. PICK fs : fs = {f \in Formats : t.arr[loc][f] \in ues}
  OBVIOUS
<1>2. CASE fs = {}
  <2>1. u = t
    BY <1>1, <1>2 DEF TakeKnown
  <2> QED
    BY <2>1
<1>3. CASE fs # {}
  <2>1. PICK f : f = Min(fs)
    OBVIOUS
  <2>2. f \in fs /\ f \in Formats
    <3>1. fs \in SUBSET Formats
      BY <1>1
    <3> QED
      BY <1>3, <2>1, <3>1, FirstFormat
  <2>3. PICK r : r = t.arr[loc][f]
    OBVIOUS
  <2>4. r # None
    BY <1>1, <2>2, <2>3, TreeAssumption
  <2>5. PICK by \in {"search", "filter"} : by = "filter"
    OBVIOUS
  <2>6. PICK arr2, out2 : arr2 = Emptied(t.arr, loc) /\ out2 = Push(t.out, f, loc, r, by)
    OBVIOUS
  <2>7. u = [arr |-> arr2, checked |-> t.checked, out |-> out2]
    BY <1>1, <1>3, <2>1, <2>3, <2>5, <2>6 DEF TakeKnown, Emptied
  <2>8. Good(arr2, out2, dec) /\ \A c \in dec : Covered(t.out, c) => Covered(out2, c)
    BY <2>2, <2>3, <2>4, <2>6, TakeGood
  <2>9. arr2 \in Arrays /\ out2 \subseteq Reports /\ t.checked \in SUBSET Locs
    BY <2>8 DEF Good, Trees
  <2>10. u \in Trees /\ u.arr = arr2 /\ u.out = out2
    BY <2>7, <2>9 DEF Trees
  <2> QED
    BY <2>8, <2>10
<1> QED
  BY <1>2, <1>3

(* The filter keeps the invariant.                                         *)
LEMMA FilterStep ==
  ASSUME TreeInv, Filter
  PROVE  TreeInv'
<1>1. PICK at, t, dec, top, active :
        /\ at = loc_idx /\ t = tree /\ dec = decoded /\ top = known.top /\ active = known.active
  OBVIOUS
<1>2. /\ nof_cce \in CceCounts /\ at \in Locs /\ t \in Trees /\ skipped \subseteq Locs
      /\ Good(t.arr, t.out, dec) /\ top \in SUBSET Others /\ active \in SUBSET Others
      /\ \A c \in dec : c[3] = Target => Covered(t.out, c)
  BY <1>1 DEF TreeInv, Filter
<1>3. PICK u : u = TakeKnown(t, at, top)
  OBVIOUS
<1>4. /\ u \in Trees /\ Good(u.arr, u.out, dec)
      /\ \A c \in dec : Covered(t.out, c) => Covered(u.out, c)
  BY <1>2, <1>3, KnownGood
<1>5. PICK v : v = TakeKnown(u, at, active)
  OBVIOUS
<1>6. /\ v \in Trees /\ Good(v.arr, v.out, dec)
      /\ \A c \in dec : Covered(u.out, c) => Covered(v.out, c)
  BY <1>2, <1>4, <1>5, KnownGood
<1>7. tree' = v /\ decoded' = dec /\ phase' = "filter" /\ UNCHANGED <<nof_cce, skipped, known>>
  BY <1>1, <1>3, <1>5 DEF Filter, FilterLoc
<1>8. loc_idx' \in 0 .. NofLocations(nof_cce)
  <2>1. PICK N : N = NofLocations(nof_cce)
    OBVIOUS
  <2>2. N \in Nat /\ Locs = 0 .. N - 1
    BY <1>2, <2>1, WholeBlocks
  <2>3. PICK S : S = {c[1] : c \in {d \in Candidates(v.arr) : d[1] > at}} \cup {N}
    OBVIOUS
  <2>4. loc_idx' = Min(S)
    BY <1>1, <1>7, <2>1, <2>3 DEF Filter
  <2>5. S \in SUBSET (0 .. N) /\ S # {}
    <3>1. ASSUME NEW c \in Candidates(v.arr) PROVE c[1] \in 0 .. N
      <4>1. c[1] \in Locs
        BY <1>6 DEF Candidates, Trees, Arrays
      <4> QED
        BY <2>2, <4>1
    <3> QED
      BY <2>2, <2>3, <3>1
  <2>6. Min(S) \in S
    BY <2>2, <2>5, MinIsLowest
  <2> QED
    BY <2>1, <2>4, <2>5, <2>6
<1>9. \A c \in dec : c[3] = Target => Covered(v.out, c)
  BY <1>2, <1>4, <1>6
<1> QED
  BY <1>1, <1>2, <1>6, <1>7, <1>8, <1>9, Keep

(* The end of the search keeps the invariant.                              *)
LEMMA EndSearchStep ==
  ASSUME TreeInv, NEW top \in SUBSET Others, NEW active \in SUBSET (Others \ top), EndSearch(top, active)
  PROVE  TreeInv'
<1>1. PICK t, dec : t = tree /\ dec = decoded
  OBVIOUS
<1>2. /\ nof_cce \in CceCounts /\ t \in Trees /\ skipped \subseteq Locs
      /\ Good(t.arr, t.out, dec) /\ TargetKept(t.arr, t.out, dec)
      /\ \A d \in t.out : d.by = "search"
  BY <1>1 DEF TreeInv, EndSearch, SearchInv
<1>3. PICK u : u = CopyRnti(t)
  OBVIOUS
<1>4. /\ Good(u.arr, u.out, dec) /\ u = [arr |-> u.arr, checked |-> t.checked, out |-> u.out]
      /\ \A c \in dec : c[3] = Target => Covered(u.out, c)
  BY <1>2, <1>3, CopyGood
<1>5. PICK pruned : tree' = [u EXCEPT !.arr = Without(u.arr, pruned)]
  BY <1>1, <1>3 DEF EndSearch
<1>6. PICK arr2 : arr2 = Without(u.arr, pruned)
  OBVIOUS
<1>7. Good(arr2, u.out, dec)
  BY <1>2, <1>4, <1>6, WithoutGood
<1>8. tree' = [arr |-> arr2, checked |-> t.checked, out |-> u.out]
  BY <1>4, <1>5, <1>6
<1>9. tree' \in Trees /\ tree'.arr = arr2 /\ tree'.out = u.out
  <2>1. arr2 \in Arrays /\ u.out \in SUBSET Reports /\ t.checked \in SUBSET Locs
    BY <1>2, <1>7 DEF Good, Trees
  <2> QED
    BY <1>8, <2>1 DEF Trees
<1>10. /\ decoded' = dec /\ phase' = "filter" /\ loc_idx' = 0
       /\ known' = [top |-> top, active |-> active] /\ UNCHANGED <<nof_cce, skipped>>
  BY <1>1 DEF EndSearch
<1>11. loc_idx' \in 0 .. NofLocations(nof_cce)
  BY <1>2, <1>10, WholeBlocks
<1>12. known'.top \subseteq Others /\ known'.active \subseteq Others
  BY <1>10
<1> QED
  BY <1>2, <1>4, <1>7, <1>9, <1>10, <1>11, <1>12, Keep

(* The invariant holds initially.                                          *)
LEMMA InitTree ==
  ASSUME Init
  PROVE  TreeInv
<1>1. PICK arr, out : arr = [loc \in Locs |-> Empty] /\ out = {}
  OBVIOUS
<1>2. PICK inv : inv = Invalid(nof_cce)
  OBVIOUS
<1>3. /\ nof_cce \in CceCounts /\ phase = "search" /\ skipped = {} /\ decoded = {}
      /\ known = [top |-> {}, active |-> {}]
      /\ tree = [arr |-> arr, checked |-> inv, out |-> out]
      /\ loc_idx = NextLoc(inv, 0)
  BY <1>1, <1>2 DEF Init
<1>4. tree.arr = arr /\ tree.checked = inv /\ tree.out = out
  BY <1>3
<1>5. arr \in Arrays /\ \A l \in Locs : arr[l] = Empty
  BY <1>1, NoneIs DEF Arrays
<1>6. inv \subseteq Locs
  BY <1>2 DEF Invalid, Locs
<1>7. tree \in Trees
  BY <1>1, <1>3, <1>5, <1>6 DEF Trees
<1>8. Room(out)
  <2>1. IsFiniteSet(out) /\ Cardinality(out) = 0
    BY <1>1, FS_EmptySet
  <2>2. ASSUME NEW ul \in BOOLEAN PROVE NofDci(out, ul) = 0
    <3>1. {d \in out : (d.format = 0) <=> ul} = out
      BY <1>1
    <3> QED
      BY <2>1, <3>1 DEF NofDci
  <2> QED
    BY <2>1, <2>2, TreeAssumption DEF Room
<1>9. Good(tree.arr, tree.out, decoded)
  <2>1. Inside(decoded) /\ InArray(arr, decoded) /\ Reported(out, decoded)
    BY <1>1, <1>3, <1>5, NoneIs DEF Inside, InArray, Reported
  <2>2. Apart(out) /\ Around(arr, out)
    BY <1>1 DEF Apart, Around
  <2> QED
    BY <1>1, <1>4, <1>5, <1>8, <2>1, <2>2 DEF Good
<1>10. PICK from : from = 0
  OBVIOUS
<1>11. from \in 0 .. NofLocations(nof_cce)
  BY <1>3, <1>10, WholeBlocks
<1>12. /\ NextLoc(inv, from) \in from .. NofLocations(nof_cce)
       /\ NextLoc(inv, from) \in Locs => NextLoc(inv, from) \notin inv
  BY <1>3, <1>11, NextLocIs
<1>13. loc_idx \in 0 .. NofLocations(nof_cce) /\ (loc_idx \in Locs => loc_idx \notin inv)
  BY <1>3, <1>10, <1>12
<1>14. SearchInv(tree, loc_idx, decoded)
  <2>1. TargetKept(arr, out, decoded)
    BY <1>3 DEF TargetKept
  <2>2. PairsTaken(arr, loc_idx, decoded)
    <3> SUFFICES ASSUME NEW loc \in Locs
                 PROVE  Matching(arr, loc, Left(loc, InTree(loc))) = {}
      BY DEF PairsTaken
    <3> QED
      BY <1>5, NoneIs DEF Matching
  <2> QED
    BY <1>1, <1>2, <1>4, <1>5, <1>13, <2>1, <2>2 DEF SearchInv
<1> QED
  BY <1>3, <1>7, <1>9, <1>13, <1>14 DEF TreeInv

(* Every step keeps the invariant.                                         *)
LEMMA StepTree ==
  ASSUME TreeInv, [Next]_vars
  PROVE  TreeInv'
<1>0. /\ nof_cce \in CceCounts /\ phase \in {"search", "filter", "done"}
      /\ loc_idx \in 0 .. NofLocations(nof_cce) /\ skipped \subseteq Locs
      /\ tree \in Trees /\ known.top \subseteq Others /\ known.active \subseteq Others
      /\ Good(tree.arr, tree.out, decoded)
      /\ phase = "search" => SearchInv(tree, loc_idx, decoded)
      /\ phase # "search" => \A c \in decoded : c[3] = Target => Covered(tree.out, c)
  BY DEF TreeInv
<1>1. CASE SkipLowLlr
  BY <1>1, SkipStep
<1>2. ASSUME Searching, NEW found \in Found, Search(found) PROVE TreeInv'
  <2>1. /\ tree' \in Trees /\ Good(tree'.arr, tree'.out, decoded')
        /\ SearchInv(tree', loc_idx', decoded') /\ loc_idx' \in 0 .. NofLocations(nof_cce)
    BY <1>2, SearchStep
  <2>2. phase' = "search" /\ UNCHANGED <<nof_cce, skipped, known>>
    BY <1>2 DEF Search, Searching
  <2> QED
    BY <1>0, <2>1, <2>2, Keep
<1>3. ASSUME NEW top \in SUBSET Others, NEW active \in SUBSET (Others \ top), EndSearch(top, active)
      PROVE  TreeInv'
  BY <1>3, EndSearchStep
<1>4. CASE Filter
  BY <1>4, FilterStep
<1>5. CASE EndFilter
  <2>1. phase = "filter" /\ phase' = "done" /\ UNCHANGED <<nof_cce, loc_idx, skipped, tree, known, decoded>>
    BY <1>5 DEF EndFilter
  <2> QED
    BY <1>0, <2>1, Keep
<1>6. CASE UNCHANGED vars
  <2>1. UNCHANGED <<nof_cce, phase, loc_idx, skipped, tree, known, decoded>>
    BY <1>6 DEF vars
  <2> QED
    BY <1>0, <2>1, Keep
<1> QED
  BY <1>1, <1>2, <1>3, <1>4, <1>5, <1>6 DEF Next, Done

(* The invariant of the search holds in every state.                       *)
LEMMA TreeInvariant == Spec => []TreeInv
<1>1. Init => TreeInv
  BY InitTree
<1>2. TreeInv /\ [Next]_vars => TreeInv'
  BY StepTree
<1> QED
  BY <1>1, <1>2, PTL DEF Spec

-----------------------------------------------------------------------------
(* Theorems.                                                               *)

(* The variables keep their types; in particular no direction of the output*)
(* exceeds MAX_DCI_PER_SUB, copy_rnti's additions included.                *)
THEOREM TreeTypes == Spec => []TypeOK
<1>1. TreeInv => TypeOK
  BY DEF TreeInv, TypeOK, Trees, Arrays, Good, Room
<1> QED
  BY <1>1, TreeInvariant, PTL

(* Two DCIs reported for a subframe never share a CCE unless copy_rnti     *)
(* added one of them.                                                      *)
THEOREM NeverOverlap == Spec => []NoOverlap
<1>1. TreeInv => NoOverlap
  BY DEF TreeInv, Good, Apart, NoOverlap
<1> QED
  BY <1>1, TreeInvariant, PTL

(* Whatever is reported was decoded at that location, on CCEs the control  *)
(* region has.                                                             *)
THEOREM OnlyDecoded == Spec => []ReportedDecoded
<1>1. TreeInv => ReportedDecoded
  <2> SUFFICES ASSUME TreeInv, NEW d \in tree.out
               PROVE  /\ <<d.loc, d.format, d.rnti>> \in decoded
                      /\ \A cce \in Cces(d.loc) : cce < nof_cce
    BY DEF ReportedDecoded
  <2>1. nof_cce \in CceCounts /\ Good(tree.arr, tree.out, decoded)
    BY DEF TreeInv
  <2>2. <<d.loc, d.format, d.rnti>> \in decoded
    BY <2>1 DEF Good, Reported
  <2>3. d.loc \in Locs /\ d.loc \notin Invalid(nof_cce)
    BY <2>1, <2>2 DEF Good, Inside
  <2>4. ASSUME NEW cce \in Cces(d.loc) PROVE cce < nof_cce
    <3>1. ~(cce >= nof_cce)
      BY <2>3 DEF Invalid, Locs
    <3>2. PICK j \in LeafCces[InTree(d.loc)] : cce = BlockCces * Block(d.loc) + j
      BY DEF Cces
    <3>3. d.loc \in Nat /\ InTree(d.loc) \in Indices /\ Block(d.loc) \in Nat
      BY <2>1, <2>3, WholeBlocks, Place
    <3>4. j \in 0 .. BlockCces - 1
      BY <3>3 DEF LeafCces
    <3>5. BlockCces * Block(d.loc) \in Nat
      BY <3>3, Sizes
    <3>6. cce \in Nat /\ nof_cce \in Nat
      BY <2>1, <3>2, <3>4, <3>5, Sizes, TreeAssumption
    <3> QED
      BY <3>1, <3>6
  <2> QED
    BY <2>2, <2>4
<1> QED
  BY <1>1, TreeInvariant, PTL

(* No candidate with the target's RNTI is lost: from the end of the search *)
(* on something reported overlaps it, unless the output is full.           *)
THEOREM TargetNotLost == Spec => []TargetReported
<1>1. TreeInv => TargetReported
  BY DEF TreeInv, TargetReported, Covered, Full
<1> QED
  BY <1>1, TreeInvariant, PTL

(* When the search ends, no RNTI is left both in a node and in its left    *)
(* child, except in the blocks of the target.                              *)
THEOREM PairsNotLeft == Spec => []RepeatedTaken
<1>1. TreeInv => RepeatedTaken
  <2> SUFFICES ASSUME TreeInv, phase = "search", loc_idx \notin Locs,
                      NEW loc \in Locs, InTree(loc) < NofParents
               PROVE  \/ Matching(tree.arr, loc, Left(loc, InTree(loc))) = {}
                      \/ \E c \in decoded : c[3] = Target /\ Block(c[1]) = Block(loc)
    BY DEF RepeatedTaken
  <2>1. nof_cce \in CceCounts /\ PairsTaken(tree.arr, loc_idx, decoded)
    BY DEF TreeInv, SearchInv
  <2>2. PICK N, c : N = NofLocations(nof_cce) /\ c = Left(loc, InTree(loc))
    OBVIOUS
  <2>3. N \in Nat /\ Locs = 0 .. N - 1 /\ loc_idx \in 0 .. N
    BY <2>1, <2>2, WholeBlocks DEF TreeInv
  <2>4. c \in Locs
    BY <2>1, <2>2, ParentOf
  <2>5. c < loc_idx
    BY <2>3, <2>4
  <2> QED
    BY <2>1, <2>2, <2>5 DEF PairsTaken, TargetIn
<1> QED
  BY <1>1, TreeInvariant, PTL
=============================================================================
