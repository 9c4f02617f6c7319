-------------------------- MODULE UeTrackerProofs --------------------------
(***************************************************************************)
(* Proofs about UeTracker for any number of UEs, any length of the array   *)
(* of the most frequent ones, any thresholds and any order of decoding.    *)
(***************************************************************************)
EXTENDS UeTracker, IndexLemmas, TLAPS

Entry == [rnti : {0} \cup Rntis, freq : Nat]
Tops == [1 .. TopN -> Entry]

\* The array agrees with the UEs' activity and counts.
TopOk(top, active, cnt) ==
    /\ \A i, j \in 1 .. TopN : i < j => top[i].freq >= top[j].freq
    /\ \A i \in 1 .. TopN : \/ top[i] = NoUe
                            \/ /\ top[i].rnti \in Rntis /\ top[i].freq > 0
                               /\ active[top[i].rnti] /\ top[i].freq = cnt[top[i].rnti]
    /\ \A i, j \in 1 .. TopN : top[i].rnti = top[j].rnti /\ i # j => top[i] = NoUe

(* A UE is at one position of the array at most, and not at an empty one.  *)
LEMMA OnePosition ==
  ASSUME NEW top \in Tops, NEW active, NEW cnt, TopOk(top, active, cnt), NEW r \in Rntis,
         NEW i \in 1 .. TopN, NEW j \in 1 .. TopN, top[i].rnti = r, top[j].rnti = r
  PROVE  i = j /\ top[i] # NoUe
<1>1. r # 0
  BY DEF Rntis
<1>2. top[i] # NoUe
  BY <1>1 DEF NoUe
<1> QED
  BY <1>2 DEF TopOk

(* What happens to a UE that is not in the array does not matter to it.    *)
LEMMA OtherUe ==
  ASSUME NEW top \in Tops, NEW active \in [Rntis -> BOOLEAN], NEW cnt \in [Rntis -> Nat],
         TopOk(top, active, cnt), NEW r \in Rntis, InTop(top, r) = {},
         NEW a \in BOOLEAN, NEW c \in Nat
  PROVE  TopOk(top, [active EXCEPT ![r] = a], [cnt EXCEPT ![r] = c])
<1>1. \A i \in 1 .. TopN : top[i].rnti # r
  BY DEF InTop
<1>2. \A i \in 1 .. TopN : \/ top[i] = NoUe
                           \/ /\ top[i].rnti \in Rntis /\ top[i].freq > 0
                              /\ [active EXCEPT ![r] = a][top[i].rnti]
                              /\ top[i].freq = [cnt EXCEPT ![r] = c][top[i].rnti]
  BY <1>1 DEF TopOk
<1> QED
  BY <1>2 DEF TopOk

(* Shifting the array left over a UE that is forgotten.                    *)
LEMMA Shifted ==
  ASSUME NEW top \in Tops, NEW active \in [Rntis -> BOOLEAN], NEW cnt \in [Rntis -> Nat],
         TopOk(top, active, cnt), NEW r \in Rntis, NEW p \in 1 .. TopN, top[p].rnti = r
  PROVE  /\ RemoveTop(top, p) \in Tops /\ RemoveTop(top, p)[TopN] = NoUe
         /\ TopOk(RemoveTop(top, p), [active EXCEPT ![r] = FALSE], [cnt EXCEPT ![r] = 0])
<1> DEFINE new == RemoveTop(top, p)
           act == [active EXCEPT ![r] = FALSE]
           ct == [cnt EXCEPT ![r] = 0]
           From(j) == IF j < p THEN j ELSE j + 1
<1>0. TopN \in Nat /\ TopN >= 2
  BY TrackerAssumption
<1>1. NoUe \in Entry /\ NoUe.freq = 0 /\ NoUe.rnti = 0 /\ 0 \notin Rntis
  BY DEF NoUe, Entry, Rntis
<1>2. ASSUME NEW j \in 1 .. TopN
      PROVE  /\ j < TopN \/ j < p => From(j) \in 1 .. TopN /\ From(j) # p /\ new[j] = top[From(j)]
             /\ ~(j < TopN \/ j < p) => new[j] = NoUe
  BY <1>0 DEF RemoveTop
<1>3. new[TopN] = NoUe
  BY <1>0, <1>2
<1>4. new \in Tops
  <2>1. \A j \in 1 .. TopN : new[j] \in Entry
    BY <1>1, <1>2 DEF Tops
  <2> QED
    BY <2>1 DEF RemoveTop, Tops
<1>5. \A i \in 1 .. TopN : top[i].freq \in Nat
  BY DEF Tops, Entry
<1>6. \A i \in 1 .. TopN : i # p => top[i].rnti # r
  BY OnePosition
<1> HIDE DEF new
<1>7. \A i, j \in 1 .. TopN : i < j => new[i].freq >= new[j].freq
  <2> SUFFICES ASSUME NEW i \in 1 .. TopN, NEW j \in 1 .. TopN, i < j
               PROVE  new[i].freq >= new[j].freq
    OBVIOUS
  <2>1. i < TopN /\ From(i) \in 1 .. TopN /\ new[i] = top[From(i)]
    BY <1>0, <1>2
  <2>2. CASE j < TopN \/ j < p
    <3>1. From(j) \in 1 .. TopN /\ new[j] = top[From(j)] /\ From(i) < From(j)
      BY <1>2, <2>2
    <3> QED
      BY <2>1, <3>1 DEF TopOk
  <2>3. CASE ~(j < TopN \/ j < p)
    BY <1>1, <1>2, <1>5, <2>1, <2>3
  <2> QED
    BY <2>2, <2>3
<1>8. ASSUME NEW i \in 1 .. TopN
      PROVE  \/ new[i] = NoUe
             \/ /\ new[i].rnti \in Rntis /\ new[i].freq > 0
                /\ act[new[i].rnti] /\ new[i].freq = ct[new[i].rnti]
  <2>1. CASE i < TopN \/ i < p
    <3>1. From(i) \in 1 .. TopN /\ From(i) # p /\ new[i] = top[From(i)]
      BY <1>2, <2>1
    <3>2. new[i].rnti # r
      BY <1>6, <3>1
    <3> QED
      BY <3>1, <3>2 DEF TopOk
  <2>2. CASE ~(i < TopN \/ i < p)
    BY <1>2, <2>2
  <2> QED
    BY <2>1, <2>2
<1>9. ASSUME NEW i \in 1 .. TopN, NEW j \in 1 .. TopN, new[i].rnti = new[j].rnti, i # j
      PROVE  new[i] = NoUe
  <2>1. CASE (i < TopN \/ i < p) /\ (j < TopN \/ j < p)
    <3>1. /\ From(i) \in 1 .. TopN /\ new[i] = top[From(i)]
          /\ From(j) \in 1 .. TopN /\ new[j] = top[From(j)] /\ From(i) # From(j)
      BY <1>0, <1>2, <1>9, <2>1
    <3> QED
      BY <1>9, <3>1 DEF TopOk
  <2>2. CASE ~(i < TopN \/ i < p)
    BY <1>2, <2>2
  <2>3. CASE ~(j < TopN \/ j < p)
    <3>1. new[i].rnti = 0
      BY <1>1, <1>2, <1>9, <2>3
    <3> QED
      BY <1>1, <1>8, <3>1
  <2> QED
    BY <2>1, <2>2, <2>3
<1>10. TopOk(new, act, ct)
  BY <1>7, <1>8, <1>9 DEF TopOk
<1> QED
  BY <1>3, <1>4, <1>10 DEF new

(* The open position at the end is given to a UE with a smaller count.     *)
LEMMA EndFilled ==
  ASSUME NEW top \in Tops, NEW active \in [Rntis -> BOOLEAN], NEW cnt \in [Rntis -> Nat],
         TopOk(top, active, cnt), top[TopN] = NoUe,
         NEW x \in Rntis, active[x], cnt[x] > 0, cnt[x] < top[TopN - 1].freq
  PROVE  /\ [top EXCEPT ![TopN] = [rnti |-> x, freq |-> cnt[x]]] \in Tops
         /\ TopOk([top EXCEPT ![TopN] = [rnti |-> x, freq |-> cnt[x]]], active, cnt)
<1> DEFINE e == [rnti |-> x, freq |-> cnt[x]]
           new == [top EXCEPT ![TopN] = e]
<1>0. TopN \in Nat /\ TopN >= 2 /\ TopN - 1 \in 1 .. TopN /\ TopN \in 1 .. TopN
  BY TrackerAssumption
<1>1. e \in Entry /\ e.rnti = x /\ e.freq = cnt[x]
  BY DEF Entry
<1> HIDE DEF e
<1>2. new \in Tops
  BY <1>0, <1>1 DEF Tops
<1>3. new[TopN] = e /\ \A i \in 1 .. TopN : i # TopN => new[i] = top[i] /\ i <= TopN - 1
  BY <1>0 DEF Tops
<1>4. \A i \in 1 .. TopN : top[i].freq \in Nat
  BY DEF Tops, Entry
<1> HIDE DEF new
<1>5. ASSUME NEW i \in 1 .. TopN, i # TopN PROVE top[i].freq > cnt[x]
  <2>1. i = TopN - 1 \/ i < TopN - 1
    BY <1>0, <1>3, <1>5
  <2>2. top[i].freq >= top[TopN - 1].freq
    BY <1>0, <1>4, <2>1 DEF TopOk
  <2> QED
    BY <1>0, <1>4, <2>2
<1>6. ASSUME NEW i \in 1 .. TopN, i # TopN PROVE top[i].rnti # x
  <2>1. top[i].freq > cnt[x] /\ top[i].freq \in Nat /\ cnt[x] \in Nat
    BY <1>4, <1>5, <1>6
  <2>2. top[i] # NoUe
    BY <2>1 DEF NoUe
  <2> QED
    BY <2>1, <2>2 DEF TopOk
<1>7. \A i, j \in 1 .. TopN : i < j => new[i].freq >= new[j].freq
  <2> SUFFICES ASSUME NEW i \in 1 .. TopN, NEW j \in 1 .. TopN, i < j
               PROVE  new[i].freq >= new[j].freq
    OBVIOUS
  <2>1. i # TopN /\ new[i] = top[i]
    BY <1>0, <1>3
  <2>2. CASE j = TopN
    BY <1>1, <1>3, <1>4, <1>5, <2>1, <2>2
  <2>3. CASE j # TopN
    BY <1>3, <2>1, <2>3 DEF TopOk
  <2> QED
    BY <2>2, <2>3
<1>8. \A i \in 1 .. TopN : \/ new[i] = NoUe
                           \/ /\ new[i].rnti \in Rntis /\ new[i].freq > 0
                              /\ active[new[i].rnti] /\ new[i].freq = cnt[new[i].rnti]
  BY <1>1, <1>3 DEF TopOk
<1>9. ASSUME NEW i \in 1 .. TopN, NEW j \in 1 .. TopN, new[i].rnti = new[j].rnti, i # j
      PROVE  new[i] = NoUe
  <2>1. CASE i # TopN /\ j # TopN
    BY <1>3, <1>9, <2>1 DEF TopOk
  <2>2. CASE i = TopN \/ j = TopN
    BY <1>1, <1>3, <1>6, <1>9, <2>2
  <2> QED
    BY <2>1, <2>2
<1> QED
  BY <1>2, <1>7, <1>8, <1>9 DEF TopOk, new, e

(* A UE in the array is seen once more and has overtaken nobody.           *)
LEMMA InPlace ==
  ASSUME NEW top \in Tops, NEW active \in [Rntis -> BOOLEAN], NEW cnt \in [Rntis -> Nat],
         TopOk(top, active, cnt), NEW r \in Rntis, NEW p \in 1 .. TopN, top[p].rnti = r,
         \A i \in 1 .. TopN : i < p => ~(top[i].freq < cnt[r] + 1)
  PROVE  /\ [top EXCEPT ![p] = [rnti |-> r, freq |-> cnt[r] + 1]] \in Tops
         /\ TopOk([top EXCEPT ![p] = [rnti |-> r, freq |-> cnt[r] + 1]],
                  [active EXCEPT ![r] = TRUE], [cnt EXCEPT ![r] = cnt[r] + 1])
<1> DEFINE e == [rnti |-> r, freq |-> cnt[r] + 1]
           new == [top EXCEPT ![p] = e]
           act == [active EXCEPT ![r] = TRUE]
           ct == [cnt EXCEPT ![r] = cnt[r] + 1]
<1>1. e \in Entry /\ e.rnti = r /\ e.freq = cnt[r] + 1 /\ cnt[r] \in Nat
  BY DEF Entry
<1>2. /\ act[r] /\ ct[r] = cnt[r] + 1
      /\ \A x \in Rntis : x # r => act[x] = active[x] /\ ct[x] = cnt[x]
  OBVIOUS
<1> HIDE DEF e, act, ct
<1>3. new \in Tops
  BY <1>1 DEF Tops
<1>4. new[p] = e /\ \A i \in 1 .. TopN : i # p => new[i] = top[i]
  BY DEF Tops
<1>5. \A i \in 1 .. TopN : top[i].freq \in Nat
  BY DEF Tops, Entry
<1>6. top[p].freq = cnt[r] /\ \A i \in 1 .. TopN : i # p => top[i].rnti # r
  BY OnePosition DEF TopOk
<1> HIDE DEF new
<1>7. \A i, j \in 1 .. TopN : i < j => new[i].freq >= new[j].freq
  <2> SUFFICES ASSUME NEW i \in 1 .. TopN, NEW j \in 1 .. TopN, i < j
               PROVE  new[i].freq >= new[j].freq
    OBVIOUS
  <2>1. CASE i = p
    <3>1. new[j] = top[j] /\ top[p].freq >= top[j].freq
      BY <1>4, <2>1 DEF TopOk
    <3> QED
      BY <1>1, <1>4, <1>5, <1>6, <2>1, <3>1
  <2>2. CASE j = p
    <3>1. new[i] = top[i] /\ ~(top[i].freq < cnt[r] + 1)
      BY <1>4, <2>2
    <3> QED
      BY <1>1, <1>4, <1>5, <2>2, <3>1
  <2>3. CASE i # p /\ j # p
    BY <1>4, <2>3 DEF TopOk
  <2> QED
    BY <2>1, <2>2, <2>3
<1>8. ASSUME NEW i \in 1 .. TopN
      PROVE  \/ new[i] = NoUe
             \/ /\ new[i].rnti \in Rntis /\ new[i].freq > 0
                /\ act[new[i].rnti] /\ new[i].freq = ct[new[i].rnti]
  <2>1. CASE i = p
    BY <1>1, <1>2, <1>4, <2>1
  <2>2. CASE i # p
    BY <1>2, <1>4, <1>6, <2>2 DEF TopOk
  <2> QED
    BY <2>1, <2>2
<1>9. ASSUME NEW i \in 1 .. TopN, NEW j \in 1 .. TopN, new[i].rnti = new[j].rnti, i # j
      PROVE  new[i] = NoUe
  <2>1. CASE i # p /\ j # p
    BY <1>4, <1>9, <2>1 DEF TopOk
  <2>2. CASE i = p \/ j = p
    BY <1>1, <1>4, <1>6, <1>9, <2>2
  <2> QED
    BY <2>1, <2>2
<1> QED
  BY <1>3, <1>7, <1>8, <1>9 DEF TopOk, new, e, act, ct

(* It has overtaken those that had the same count; it changes places with  *)
(* the first of them.                                                      *)
LEMMA Swapped ==
  ASSUME NEW top \in Tops, NEW active \in [Rntis -> BOOLEAN], NEW cnt \in [Rntis -> Nat],
         TopOk(top, active, cnt), NEW r \in Rntis, NEW p \in 1 .. TopN, top[p].rnti = r,
         NEW m \in 1 .. TopN, m < p, top[m].freq < cnt[r] + 1,
         \A i \in 1 .. TopN : i < m => ~(top[i].freq < cnt[r] + 1)
  PROVE  /\ [top EXCEPT ![p] = top[m], ![m] = [rnti |-> r, freq |-> cnt[r] + 1]] \in Tops
         /\ TopOk([top EXCEPT ![p] = top[m], ![m] = [rnti |-> r, freq |-> cnt[r] + 1]],
                  [active EXCEPT ![r] = TRUE], [cnt EXCEPT ![r] = cnt[r] + 1])
<1> DEFINE e == [rnti |-> r, freq |-> cnt[r] + 1]
           new == [top EXCEPT ![p] = top[m], ![m] = e]
           act == [active EXCEPT ![r] = TRUE]
           ct == [cnt EXCEPT ![r] = cnt[r] + 1]
<1>1. e \in Entry /\ e.rnti = r /\ e.freq = cnt[r] + 1 /\ cnt[r] \in Nat
  BY DEF Entry
<1>2. /\ act[r] /\ ct[r] = cnt[r] + 1
      /\ \A x \in Rntis : x # r => act[x] = active[x] /\ ct[x] = cnt[x]
  OBVIOUS
<1> HIDE DEF e, act, ct
<1>3. m # p /\ top[m] \in Entry
  BY DEF Tops
<1>4. new \in Tops
  BY <1>1, <1>3 DEF Tops
<1>5. new[p] = top[m] /\ new[m] = e /\ \A i \in 1 .. TopN : i # p /\ i # m => new[i] = top[i]
  BY <1>3 DEF Tops
<1>6. \A i \in 1 .. TopN : top[i].freq \in Nat
  BY DEF Tops, Entry
<1>7. top[p].freq = cnt[r] /\ \A i \in 1 .. TopN : i # p => top[i].rnti # r
  BY OnePosition DEF TopOk
<1>8. top[m].freq = cnt[r]
  <2>1. top[m].freq >= top[p].freq
    BY DEF TopOk
  <2> QED
    BY <1>1, <1>6, <1>7, <2>1
<1> HIDE DEF new
<1>9. \A i, j \in 1 .. TopN : i < j => new[i].freq >= new[j].freq
  <2> SUFFICES ASSUME NEW i \in 1 .. TopN, NEW j \in 1 .. TopN, i < j
               PROVE  new[i].freq >= new[j].freq
    OBVIOUS
  <2>0. /\ new[p].freq = cnt[r] /\ new[m].freq = cnt[r] + 1
        /\ \A k \in 1 .. TopN : k # m => new[k].freq = top[k].freq /\ new[k].freq \in Nat
    BY <1>1, <1>5, <1>6, <1>7, <1>8
  <2>1. CASE i = m
    <3>1. j # m /\ top[m].freq >= top[j].freq
      BY <2>1 DEF TopOk
    <3> QED
      BY <1>1, <1>8, <2>0, <2>1, <3>1
  <2>2. CASE j = m
    <3>1. i # m /\ ~(top[i].freq < cnt[r] + 1)
      BY <2>2
    <3> QED
      BY <1>1, <1>6, <2>0, <2>2, <3>1
  <2>3. CASE i # m /\ j # m
    BY <2>0, <2>3 DEF TopOk
  <2> QED
    BY <2>1, <2>2, <2>3
<1>10. ASSUME NEW i \in 1 .. TopN
       PROVE  \/ new[i] = NoUe
              \/ /\ new[i].rnti \in Rntis /\ new[i].freq > 0
                 /\ act[new[i].rnti] /\ new[i].freq = ct[new[i].rnti]
  <2>1. CASE i = m
    BY <1>1, <1>2, <1>5, <2>1
  <2>2. CASE i = p
    BY <1>2, <1>3, <1>5, <1>7, <2>2 DEF TopOk
  <2>3. CASE i # p /\ i # m
    BY <1>2, <1>5, <1>7, <2>3 DEF TopOk
  <2> QED
    BY <2>1, <2>2, <2>3
<1>11. ASSUME NEW i \in 1 .. TopN, NEW j \in 1 .. TopN, new[i].rnti = new[j].rnti, i # j
       PROVE  new[i] = NoUe
  <2> DEFINE From(k) == IF k = p THEN m ELSE k
  <2>1. \A k \in 1 .. TopN : k # m => From(k) \in 1 .. TopN /\ From(k) # p /\ new[k] = top[From(k)]
    BY <1>3, <1>5
  <2>2. CASE i = m \/ j = m
    BY <1>1, <1>5, <1>7, <1>11, <2>1, <2>2
  <2>3. CASE i # m /\ j # m
    <3>1. From(i) # From(j)
      BY <1>11, <2>3
    <3> HIDE DEF From
    <3> QED
      BY <1>11, <2>1, <2>3, <3>1 DEF TopOk
  <2> QED
    BY <2>2, <2>3
<1> QED
  BY <1>4, <1>9, <1>10, <1>11 DEF TopOk, new, e, act, ct

(* An active UE that is not in the array goes before the first one with a  *)
(* smaller count.                                                          *)
LEMMA Inserted ==
  ASSUME NEW top \in Tops, NEW active \in [Rntis -> BOOLEAN], NEW cnt \in [Rntis -> Nat],
         TopOk(top, active, cnt), NEW r \in Rntis, InTop(top, r) = {},
         active[r], cnt[r] > 0,
         NEW m \in 1 .. TopN, top[m].freq < cnt[r],
         \A i \in 1 .. TopN : i < m => ~(top[i].freq < cnt[r])
  PROVE  /\ InsertTop(top, m, [rnti |-> r, freq |-> cnt[r]]) \in Tops
         /\ TopOk(InsertTop(top, m, [rnti |-> r, freq |-> cnt[r]]), active, cnt)
<1> DEFINE e == [rnti |-> r, freq |-> cnt[r]]
           new == InsertTop(top, m, e)
           From(j) == IF j < m THEN j ELSE j - 1
<1>0. TopN \in Nat
  BY TrackerAssumption
<1>1. e \in Entry /\ e.rnti = r /\ e.freq = cnt[r] /\ cnt[r] \in Nat
  BY DEF Entry
<1> HIDE DEF e
<1>2. ASSUME NEW j \in 1 .. TopN
      PROVE  /\ j = m => new[j] = e
             /\ j # m => From(j) \in 1 .. TopN /\ new[j] = top[From(j)]
  BY <1>0 DEF InsertTop
<1>3. new \in Tops
  <2>1. \A j \in 1 .. TopN : new[j] \in Entry
    BY <1>1, <1>2 DEF Tops
  <2> QED
    BY <2>1 DEF InsertTop, Tops
<1>4. \A i \in 1 .. TopN : top[i].freq \in Nat /\ top[i].rnti # r
  BY DEF Tops, Entry, InTop
<1> HIDE DEF new
<1>5. ASSUME NEW j \in 1 .. TopN, j >= m PROVE top[j].freq < cnt[r]
  <2>1. j = m \/ top[m].freq >= top[j].freq
    BY <1>5 DEF TopOk
  <2> QED
    BY <1>1, <1>4, <2>1
<1>6. \A i, j \in 1 .. TopN : i < j => new[i].freq >= new[j].freq
  <2> SUFFICES ASSUME NEW i \in 1 .. TopN, NEW j \in 1 .. TopN, i < j
               PROVE  new[i].freq >= new[j].freq
    OBVIOUS
  <2>1. CASE i = m
    <3>1. new[i] = e /\ From(j) \in 1 .. TopN /\ new[j] = top[From(j)] /\ From(j) >= m
      BY <1>2, <2>1
    <3>2. top[From(j)].freq < cnt[r]
      BY <1>5, <3>1
    <3> QED
      BY <1>1, <1>4, <3>1, <3>2
  <2>2. CASE j = m
    <3>1. new[j] = e /\ new[i] = top[i] /\ ~(top[i].freq < cnt[r])
      BY <1>2, <2>2
    <3> QED
      BY <1>1, <1>4, <3>1
  <2>3. CASE i # m /\ j # m
    <3>1. /\ From(i) \in 1 .. TopN /\ new[i] = top[From(i)]
          /\ From(j) \in 1 .. TopN /\ new[j] = top[From(j)] /\ From(i) < From(j)
      BY <1>2, <2>3
    <3> QED
      BY <3>1 DEF TopOk
  <2> QED
    BY <2>1, <2>2, <2>3
<1>7. ASSUME NEW i \in 1 .. TopN
      PROVE  \/ new[i] = NoUe
             \/ /\ new[i].rnti \in Rntis /\ new[i].freq > 0
                /\ active[new[i].rnti] /\ new[i].freq = cnt[new[i].rnti]
  <2>1. CASE i = m
    BY <1>1, <1>2, <2>1
  <2>2. CASE i # m
    BY <1>2, <2>2 DEF TopOk
  <2> QED
    BY <2>1, <2>2
<1>8. ASSUME NEW i \in 1 .. TopN, NEW j \in 1 .. TopN, new[i].rnti = new[j].rnti, i # j
      PROVE  new[i] = NoUe
  <2>1. CASE i = m \/ j = m
    BY <1>1, <1>2, <1>4, <1>8, <2>1
  <2>2. CASE i # m /\ j # m
    <3>1. /\ From(i) \in 1 .. TopN /\ new[i] = top[From(i)]
          /\ From(j) \in 1 .. TopN /\ new[j] = top[From(j)]
      BY <1>2, <2>2
    <3>2. From(i) # From(j)
      BY <1>8, <2>2
    <3> HIDE DEF From
    <3> QED
      BY <1>8, <3>1, <3>2 DEF TopOk
  <2> QED
    BY <2>1, <2>2
<1> QED
  BY <1>3, <1>6, <1>7, <1>8 DEF TopOk, new, e

-----------------------------------------------------------------------------
(* The operations on the tracker.                                          *)

States == [active : [Rntis -> BOOLEAN], cnt : [Rntis -> Nat],
           last : [Rntis -> 0 .. MaxTti - 1], top : Tops]

\* The states of the tracker in which the array is in order.
Good == {s \in States : TopOk(s.top, s.active, s.cnt)}

(* What writing the array or the entries of one UE leaves alone.           *)
LEMMA Fields ==
  ASSUME NEW s \in States
  PROVE  /\ s.active \in [Rntis -> BOOLEAN] /\ s.cnt \in [Rntis -> Nat]
         /\ s.last \in [Rntis -> 0 .. MaxTti - 1] /\ s.top \in Tops
         /\ \A t \in Tops :
               /\ [s EXCEPT !.top = t] \in States
               /\ [s EXCEPT !.top = t].top = t
               /\ [s EXCEPT !.top = t].active = s.active
               /\ [s EXCEPT !.top = t].cnt = s.cnt
               /\ [s EXCEPT !.top = t].last = s.last
  BY DEF States

\* The entries of one UE are written.
Put(s, r, c, l, a) == [s EXCEPT !.cnt[r] = c, !.last[r] = l, !.active[r] = a]

(* Writing them leaves the other UEs and the array alone.                  *)
LEMMA Written ==
  ASSUME NEW s \in States, NEW r \in Rntis,
         NEW c \in Nat, NEW l \in 0 .. MaxTti - 1, NEW a \in BOOLEAN
  PROVE  /\ Put(s, r, c, l, a) \in States /\ Put(s, r, c, l, a).top = s.top
         /\ Put(s, r, c, l, a).cnt = [s.cnt EXCEPT ![r] = c]
         /\ Put(s, r, c, l, a).last = [s.last EXCEPT ![r] = l]
         /\ Put(s, r, c, l, a).active = [s.active EXCEPT ![r] = a]
<1> DEFINE C == [s.cnt EXCEPT ![r] = c]
           L == [s.last EXCEPT ![r] = l]
           A == [s.active EXCEPT ![r] = a]
<1>1. /\ s.active \in [Rntis -> BOOLEAN] /\ s.cnt \in [Rntis -> Nat]
      /\ s.last \in [Rntis -> 0 .. MaxTti - 1] /\ s.top \in Tops
  BY Fields
<1>2. C \in [Rntis -> Nat] /\ L \in [Rntis -> 0 .. MaxTti - 1] /\ A \in [Rntis -> BOOLEAN]
  BY <1>1
<1>3. PICK w1 : w1 = [s EXCEPT !.cnt = C]
  OBVIOUS
<1>4. PICK w2 : w2 = [w1 EXCEPT !.last = [w1.last EXCEPT ![r] = l]]
  OBVIOUS
<1>5. Put(s, r, c, l, a) = [w2 EXCEPT !.active = [w2.active EXCEPT ![r] = a]]
  BY <1>3, <1>4 DEF Put
<1> HIDE DEF C
<1>6. w1 = [active |-> s.active, cnt |-> C, last |-> s.last, top |-> s.top]
  BY <1>3 DEF States
<1>7. w2 = [active |-> s.active, cnt |-> C, last |-> L, top |-> s.top]
  BY <1>4, <1>6
<1> HIDE DEF L
<1>8. Put(s, r, c, l, a) = [active |-> A, cnt |-> C, last |-> L, top |-> s.top]
  BY <1>5, <1>7
<1> HIDE DEF A
<1> QED
  BY <1>1, <1>2, <1>8 DEF States, C, L, A

(* ngscope_ue_tracker_remove_ue_rnti forgets the UE and keeps the array in *)
(* order.                                                                  *)
LEMMA Removed ==
  ASSUME NEW s \in Good, NEW r \in Rntis
  PROVE  /\ RemoveUe(s, r) \in Good
         /\ RemoveUe(s, r).cnt = [s.cnt EXCEPT ![r] = 0]
         /\ RemoveUe(s, r).last = [s.last EXCEPT ![r] = 0]
         /\ RemoveUe(s, r).active = [s.active EXCEPT ![r] = FALSE]
<1> DEFINE cleared == [s EXCEPT !.cnt[r] = 0, !.last[r] = 0, !.active[r] = FALSE]
           p == Min(InTop(s.top, r))
           t == RemoveTop(s.top, p)
           shifted == [cleared EXCEPT !.top = RemoveTop(@, Min(InTop(s.top, r)))]
           index == FindTopN(shifted, TopN - 1)
           filled == [shifted EXCEPT !.top[TopN] = [rnti |-> index, freq |-> s.cnt[index]]]
<1>0. s \in States /\ TopOk(s.top, s.active, s.cnt) /\ 0 \in 0 .. MaxTti - 1
  BY TrackerAssumption DEF Good
<1>1. /\ s.active \in [Rntis -> BOOLEAN] /\ s.cnt \in [Rntis -> Nat] /\ s.top \in Tops
  BY <1>0, Fields
<1>2. /\ cleared \in States /\ cleared.top = s.top
      /\ cleared.cnt = [s.cnt EXCEPT ![r] = 0]
      /\ cleared.last = [s.last EXCEPT ![r] = 0]
      /\ cleared.active = [s.active EXCEPT ![r] = FALSE]
  <2>1. PICK a \in BOOLEAN : a = FALSE
    OBVIOUS
  <2>2. cleared = Put(s, r, 0, 0, a)
    BY <2>1 DEF Put
  <2> HIDE DEF cleared
  <2>3. /\ cleared \in States /\ cleared.top = s.top
        /\ cleared.cnt = [s.cnt EXCEPT ![r] = 0]
        /\ cleared.last = [s.last EXCEPT ![r] = 0]
        /\ cleared.active = [s.active EXCEPT ![r] = a]
    BY <1>0, <2>2, Written
  <2> QED
    BY <2>1, <2>3
<1>3. RemoveUe(s, r) = IF InTop(s.top, r) = {} THEN cleared
                       ELSE IF index = 0 THEN shifted ELSE filled
  BY DEF RemoveUe
<1> HIDE DEF cleared
<1>4. CASE InTop(s.top, r) = {}
  <2>1. TopOk(s.top, [s.active EXCEPT ![r] = FALSE], [s.cnt EXCEPT ![r] = 0])
    BY <1>0, <1>1, <1>4, OtherUe
  <2> QED
    BY <1>2, <1>3, <1>4, <2>1 DEF Good
<1>5. CASE InTop(s.top, r) # {}
  <2>1. p \in InTop(s.top, r)
    <3>1. TopN \in Nat /\ InTop(s.top, r) \in SUBSET (0 .. TopN)
      BY TrackerAssumption DEF InTop
    <3> QED
      BY <1>5, <3>1, MinIsLowest
  <2>2. p \in 1 .. TopN /\ s.top[p].rnti = r
    BY <2>1 DEF InTop
  <2>3. shifted = [cleared EXCEPT !.top = t]
    BY <1>2
  <2> HIDE DEF p, shifted
  <2>4. /\ t \in Tops /\ t[TopN] = NoUe
        /\ TopOk(t, [s.active EXCEPT ![r] = FALSE], [s.cnt EXCEPT ![r] = 0])
    BY <1>0, <1>1, <2>2, Shifted
  <2> HIDE DEF t
  <2>5. /\ shifted \in States /\ shifted.top = t /\ shifted.cnt = cleared.cnt
        /\ shifted.active = cleared.active /\ shifted.last = cleared.last
    BY <1>2, <2>3, <2>4, Fields
  <2>6. TopOk(shifted.top, shifted.active, shifted.cnt) /\ shifted.top[TopN] = NoUe
    BY <1>2, <2>4, <2>5
  <2>7. CASE index = 0
    BY <1>2, <1>3, <1>5, <2>5, <2>6, <2>7 DEF Good
  <2>8. CASE index # 0
    <3>1. /\ index \in Rntis /\ shifted.active[index] /\ shifted.cnt[index] > 0
          /\ shifted.cnt[index] < shifted.top[TopN - 1].freq
      <4> DEFINE below == {x \in Rntis : /\ shifted.active[x] /\ shifted.cnt[x] > 0
                                         /\ shifted.cnt[x] < shifted.top[TopN - 1].freq}
                 best == {x \in below : \A o \in below : shifted.cnt[o] <= shifted.cnt[x]}
      <4>1. index = IF below = {} THEN 0 ELSE Min(best)
        BY DEF FindTopN
      <4> HIDE DEF index
      <4>2. below # {} /\ index = Min(best)
        BY <2>8, <4>1
      <4>3. best \in SUBSET (0 .. MaxRnti) /\ MaxRnti \in Nat
        BY TrackerAssumption DEF Rntis
      <4>4. best # {}
        <5>1. PICK x0 \in below : TRUE
          BY <4>2
        <5> DEFINE cs == {shifted.cnt[x] : x \in below}
        <5>2. \A x \in below : shifted.cnt[x] \in 0 .. shifted.top[TopN - 1].freq
          <6>1. TopN - 1 \in 1 .. TopN
            BY TrackerAssumption
          <6>2. shifted.top[TopN - 1].freq \in Nat
            BY <2>5, <2>4, <6>1 DEF Tops, Entry
          <6>3. \A x \in Rntis : shifted.cnt[x] \in Nat
            BY <2>5 DEF States
          <6> QED
            BY <6>2, <6>3
        <5>3. cs \in SUBSET (0 .. shifted.top[TopN - 1].freq) /\ cs # {}
          BY <5>1, <5>2
        <5>4. shifted.top[TopN - 1].freq \in Nat
          <6>1. TopN - 1 \in 1 .. TopN
            BY TrackerAssumption
          <6> QED
            BY <2>5, <2>4, <6>1 DEF Tops, Entry
        <5>5. PICK c \in cs : \A d \in cs : d <= c
          <6> HIDE DEF cs
          <6> QED
            BY <5>3, <5>4, HighestExists
        <5>6. PICK x \in below : shifted.cnt[x] = c
          BY <5>5
        <5>7. \A o \in below : shifted.cnt[o] <= shifted.cnt[x]
          BY <5>5, <5>6
        <5> QED
          BY <5>6, <5>7
      <4>5. index \in best
        <5> HIDE DEF best
        <5> QED
          BY <4>2, <4>3, <4>4, MinIsLowest
      <4> QED
        BY <4>5
    <3>2. shifted.cnt[index] = s.cnt[index]
      <4>1. shifted.cnt = [s.cnt EXCEPT ![r] = 0]
        BY <1>2, <2>5
      <4>2. index # r
        BY <1>1, <3>1, <4>1
      <4> QED
        BY <1>1, <3>1, <4>1, <4>2
    <3> HIDE DEF index
    <3> DEFINE u == [t EXCEPT ![TopN] = [rnti |-> index, freq |-> shifted.cnt[index]]]
    <3>3. u \in Tops /\ TopOk(u, shifted.active, shifted.cnt)
      <4>1. shifted.active \in [Rntis -> BOOLEAN] /\ shifted.cnt \in [Rntis -> Nat]
        BY <2>5, Fields
      <4> QED
        BY <2>4, <2>5, <2>6, <3>1, <4>1, EndFilled
    <3>4. filled = [shifted EXCEPT !.top = u]
      BY <2>5, <3>2
    <3> HIDE DEF u, filled
    <3>5. /\ filled \in States /\ filled.top = u /\ filled.cnt = shifted.cnt
          /\ filled.active = shifted.active /\ filled.last = shifted.last
      BY <2>5, <3>3, <3>4, Fields
    <3> QED
      BY <1>2, <1>3, <1>5, <2>5, <2>8, <3>3, <3>5 DEF Good
  <2> QED
    BY <2>7, <2>8
<1> QED
  BY <1>4, <1>5

(* ngscope_ue_tracker_enqueue_ue_rnti counts the UE, records the subframe  *)
(* and keeps the array in order.                                           *)
LEMMA Enqueued ==
  ASSUME NEW s \in Good, NEW tti \in 0 .. MaxTti - 1, NEW r \in Rntis
  PROVE  /\ EnqueueUe(s, tti, r) \in Good
         /\ EnqueueUe(s, tti, r).cnt = [s.cnt EXCEPT ![r] = s.cnt[r] + 1]
         /\ EnqueueUe(s, tti, r).last = [s.last EXCEPT ![r] = tti]
         /\ \E a \in BOOLEAN : EnqueueUe(s, tti, r).active = [s.active EXCEPT ![r] = a]
<1> DEFINE n == s.cnt[r] + 1
           now == s.active[r] \/ TtiDifference(s.last[r], tti) < ActiveTti \/ n > ActiveCnt
<1>0. s \in States /\ TopOk(s.top, s.active, s.cnt)
  BY DEF Good
<1>1. s.active \in [Rntis -> BOOLEAN] /\ s.cnt \in [Rntis -> Nat] /\ s.top \in Tops /\ n \in Nat
  BY <1>0, Fields
<1>2. PICK a \in BOOLEAN : a = now
  BY <1>1
<1>3. s.active[r] => a = TRUE
  BY <1>2
<1>4. PICK w : w = [s EXCEPT !.cnt[r] = n, !.last[r] = tti, !.active[r] = a]
  OBVIOUS
<1>5. EnqueueUe(s, tti, r) = UpdateTop(w, r)
  BY <1>2, <1>4 DEF EnqueueUe
<1> HIDE DEF now
<1>6. /\ w \in States /\ w.top = s.top
      /\ w.cnt = [s.cnt EXCEPT ![r] = n]
      /\ w.last = [s.last EXCEPT ![r] = tti]
      /\ w.active = [s.active EXCEPT ![r] = a]
  <2>1. w = Put(s, r, n, tti, a)
    BY <1>4 DEF Put
  <2> HIDE DEF n
  <2> QED
    BY <1>0, <1>1, <2>1, Written
<1>7. w.cnt[r] = n /\ w.active[r] = a /\ s.cnt[r] \in Nat
  BY <1>1, <1>6
<1> DEFINE e == [rnti |-> r, freq |-> w.cnt[r]]
           idx == Min(InTop(w.top, r))
           low == {i \in 1 .. TopN : w.top[i].freq < w.cnt[r]}
           above == {i \in low : i < idx}
           moved == [w EXCEPT !.top[idx] = w.top[Min(above)], !.top[Min(above)] = e]
<1>8. UpdateTop(w, r) =
        IF InTop(w.top, r) # {}
        THEN IF above = {} THEN [w EXCEPT !.top[idx] = e] ELSE moved
        ELSE IF ~w.active[r] \/ low = {} THEN w
        ELSE [w EXCEPT !.top = InsertTop(@, Min(low), e)]
  BY DEF UpdateTop
<1>9. ASSUME NEW t \in Tops, TopOk(t, w.active, w.cnt), EnqueueUe(s, tti, r) = [w EXCEPT !.top = t]
      PROVE  /\ EnqueueUe(s, tti, r) \in Good
             /\ EnqueueUe(s, tti, r).cnt = w.cnt
             /\ EnqueueUe(s, tti, r).last = w.last
             /\ EnqueueUe(s, tti, r).active = w.active
  <2>1. PICK v : v = [w EXCEPT !.top = t]
    OBVIOUS
  <2>2. v \in States /\ v.top = t /\ v.active = w.active /\ v.cnt = w.cnt /\ v.last = w.last
    BY <1>6, <2>1, Fields
  <2>3. v \in Good
    BY <1>9, <2>2 DEF Good
  <2> QED
    BY <1>9, <2>1, <2>2, <2>3
<1>10. low \in SUBSET (0 .. TopN) /\ above \in SUBSET (0 .. TopN) /\ TopN \in Nat
  BY TrackerAssumption
<1>11. \A i \in low : i \in 1 .. TopN /\ s.top[i].freq < n
  BY <1>6, <1>7
<1>12. CASE InTop(w.top, r) # {}
  <2>1. idx \in InTop(w.top, r)
    <3>1. InTop(w.top, r) \in SUBSET (0 .. TopN)
      BY <1>10 DEF InTop
    <3> QED
      BY <1>10, <1>12, <3>1, MinIsLowest
  <2>2. idx \in 1 .. TopN /\ s.top[idx].rnti = r
    BY <1>6, <2>1 DEF InTop
  <2>3. a = TRUE
    <3>1. s.top[idx] # NoUe
      BY <1>0, <1>1, <2>2, OnePosition
    <3> QED
      BY <1>0, <1>3, <2>2, <3>1 DEF TopOk
  <2>4. w.active = [s.active EXCEPT ![r] = TRUE]
    BY <1>6, <2>3
  <2> HIDE DEF idx
  <2>5. CASE above = {}
    <3> DEFINE t == [s.top EXCEPT ![idx] = [rnti |-> r, freq |-> s.cnt[r] + 1]]
    <3>1. \A i \in 1 .. TopN : i < idx => ~(s.top[i].freq < s.cnt[r] + 1)
      BY <1>6, <1>7, <2>5
    <3>2. t \in Tops /\ TopOk(t, w.active, w.cnt)
      <4>1. t \in Tops /\ TopOk(t, [s.active EXCEPT ![r] = TRUE], [s.cnt EXCEPT ![r] = s.cnt[r] + 1])
        BY <1>0, <1>1, <2>2, <3>1, InPlace
      <4> HIDE DEF t
      <4> QED
        BY <1>6, <2>4, <4>1
    <3>3. EnqueueUe(s, tti, r) = [w EXCEPT !.top = t]
      BY <1>5, <1>6, <1>7, <1>8, <1>12, <2>5
    <3> HIDE DEF t
    <3> QED
      BY <1>2, <1>6, <1>9, <3>2, <3>3
  <2>6. CASE above # {}
    <3> DEFINE m == Min(above)
               t == [s.top EXCEPT ![idx] = s.top[m], ![m] = [rnti |-> r, freq |-> s.cnt[r] + 1]]
    <3>1. m \in above /\ \A x \in above : m <= x
      <4> HIDE DEF above
      <4> QED
        BY <1>10, <2>6, MinIsLowest
    <3>2. EnqueueUe(s, tti, r) = [w EXCEPT !.top = t]
      <4>1. EnqueueUe(s, tti, r) = [w EXCEPT !.top[idx] = w.top[m], !.top[m] = e]
        BY <1>5, <1>8, <1>12, <2>6
      <4> HIDE DEF m
      <4>2. e = [rnti |-> r, freq |-> s.cnt[r] + 1] /\ w.top = s.top
        BY <1>6, <1>7
      <4> HIDE DEF e
      <4>3. PICK v : v = [w EXCEPT !.top[idx] = w.top[m]]
        OBVIOUS
      <4>4. EnqueueUe(s, tti, r) = [v EXCEPT !.top = [v.top EXCEPT ![m] = e]]
        BY <4>1, <4>3
      <4>5. v = [w EXCEPT !.top = [s.top EXCEPT ![idx] = s.top[m]]]
        BY <4>2, <4>3
      <4>6. v.top = [s.top EXCEPT ![idx] = s.top[m]]
        BY <1>6, <4>5 DEF States
      <4>7. EnqueueUe(s, tti, r) = [v EXCEPT !.top = t]
        BY <4>2, <4>4, <4>6
      <4> HIDE DEF t
      <4> QED
        BY <1>6, <4>5, <4>7 DEF States
    <3> HIDE DEF m
    <3>3. /\ m \in 1 .. TopN /\ m < idx /\ s.top[m].freq < s.cnt[r] + 1
          /\ \A i \in 1 .. TopN : i < m => ~(s.top[i].freq < s.cnt[r] + 1)
      <4>1. m \in 1 .. TopN /\ m < idx /\ s.top[m].freq < s.cnt[r] + 1
        BY <1>11, <3>1
      <4>2. ASSUME NEW i \in 1 .. TopN, i < m, s.top[i].freq < s.cnt[r] + 1 PROVE FALSE
        <5>1. i < idx
          BY <1>10, <2>2, <4>1, <4>2
        <5>2. i \in above
          BY <1>6, <1>7, <4>2, <5>1
        <5> QED
          BY <1>10, <3>1, <4>1, <4>2, <5>2
      <4> QED
        BY <4>1, <4>2
    <3>4. t \in Tops /\ TopOk(t, w.active, w.cnt)
      <4>1. t \in Tops /\ TopOk(t, [s.active EXCEPT ![r] = TRUE], [s.cnt EXCEPT ![r] = s.cnt[r] + 1])
        BY <1>0, <1>1, <2>2, <3>3, Swapped
      <4> HIDE DEF t
      <4> QED
        BY <1>6, <2>4, <4>1
    <3> HIDE DEF t
    <3> QED
      BY <1>2, <1>6, <1>9, <3>2, <3>4
  <2> QED
    BY <2>5, <2>6
<1>13. CASE InTop(w.top, r) = {}
  <2>1. TopOk(w.top, w.active, w.cnt)
    BY <1>0, <1>1, <1>2, <1>6, <1>13, OtherUe
  <2>2. CASE ~w.active[r] \/ low = {}
    <3>1. EnqueueUe(s, tti, r) = w
      BY <1>5, <1>8, <1>13, <2>2
    <3> QED
      BY <1>2, <1>6, <2>1, <3>1 DEF Good
  <2>3. CASE w.active[r] /\ low # {}
    <3> DEFINE m == Min(low)
               t == InsertTop(w.top, m, e)
    <3>1. m \in low /\ \A x \in low : m <= x
      <4> HIDE DEF low
      <4> QED
        BY <1>10, <2>3, MinIsLowest
    <3>2. EnqueueUe(s, tti, r) = [w EXCEPT !.top = t]
      BY <1>5, <1>8, <1>13, <2>3
    <3> HIDE DEF m
    <3>3. /\ m \in 1 .. TopN /\ w.top[m].freq < w.cnt[r]
          /\ \A i \in 1 .. TopN : i < m => ~(w.top[i].freq < w.cnt[r])
      BY <1>10, <3>1
    <3>4. w.active \in [Rntis -> BOOLEAN] /\ w.cnt \in [Rntis -> Nat] /\ w.top \in Tops
      BY <1>6, Fields
    <3>5. w.cnt[r] > 0
      BY <1>1, <1>7
    <3>6. t \in Tops /\ TopOk(t, w.active, w.cnt)
      BY <1>13, <2>1, <2>3, <3>3, <3>4, <3>5, Inserted
    <3> HIDE DEF t
    <3> QED
      BY <1>2, <1>6, <1>9, <3>2, <3>6
  <2> QED
    BY <2>2, <2>3
<1> QED
  BY <1>12, <1>13

\* The entries of UE r are the same in both states.
Same(s, t, r) == t.cnt[r] = s.cnt[r] /\ t.last[r] = s.last[r] /\ t.active[r] = s.active[r]

(* The candidates that are counted name UEs.                               *)
LEMMA CountedAreUes ==
  ASSUME NEW s, NEW loc \in Locations, NEW f \in Counted(s, loc)
  PROVE  f \in Formats /\ loc[f] \in Rntis
<1> DEFINE found == {g \in Formats : loc[g] # 0}
           top == {g \in Formats : loc[g] # 0 /\ InTop(s.top, loc[g]) # {}}
           act == {g \in Formats : loc[g] # 0 /\ s.active[loc[g]]}
<1>1. \A S \in SUBSET Formats : S # {} => Min(S) \in S
  <2> SUFFICES ASSUME NEW S \in SUBSET Formats, S # {} PROVE Min(S) \in S
    OBVIOUS
  <2>1. 2 \in Nat /\ S \in SUBSET (0 .. 2)
    BY DEF Formats
  <2> QED
    BY <2>1, MinIsLowest
<1>2. top \in SUBSET Formats /\ act \in SUBSET Formats
  OBVIOUS
<1>3. Accepted(s, loc) = IF top # {} THEN {Min(top)} ELSE IF act # {} THEN {Min(act)} ELSE {}
  BY DEF Accepted
<1>4. top \subseteq found /\ act \subseteq found
  OBVIOUS
<1> HIDE DEF top, act
<1>5. Accepted(s, loc) \subseteq found
  <2>1. CASE top # {}
    <3>1. Min(top) \in top
      BY <1>1, <1>2, <2>1
    <3> HIDE DEF found
    <3> QED
      BY <1>3, <1>4, <2>1, <3>1
  <2>2. CASE top = {} /\ act # {}
    <3>1. Min(act) \in act
      BY <1>1, <1>2, <2>2
    <3> HIDE DEF found
    <3> QED
      BY <1>3, <1>4, <2>2, <3>1
  <2>3. CASE top = {} /\ act = {}
    BY <1>3, <2>3
  <2> QED
    BY <2>1, <2>2, <2>3
<1>6. Counted(s, loc) = IF Accepted(s, loc) # {} THEN Accepted(s, loc)
                        ELSE IF Cardinality(found) = 1 THEN found
                        ELSE found \cap {0, 2}
  BY DEF Counted
<1>7. f \in found
  <2> HIDE DEF found
  <2> QED
    BY <1>5, <1>6
<1> QED
  BY <1>7 DEF Locations

(* The three formats of a location, one after the other: the UEs counted   *)
(* are last seen in this subframe, and nothing happens to the others.      *)
LEMMA CountDone ==
  ASSUME NEW s \in Good, NEW tti \in 0 .. MaxTti - 1, NEW loc \in Locations
  PROVE  /\ Count(s, tti, loc) \in Good
         /\ \A r \in Rntis :
               IF r \in {loc[f] : f \in Counted(s, loc)}
               THEN Count(s, tti, loc).last[r] = tti /\ Count(s, tti, loc).cnt[r] > 0
               ELSE Same(s, Count(s, tti, loc), r)
<1> DEFINE C == Counted(s, loc)
           E(t, f) == IF f \in C THEN EnqueueUe(t, tti, loc[f]) ELSE t
           Hit(t, r) == t.last[r] = tti /\ t.cnt[r] > 0
<1>1. ASSUME NEW t \in Good, NEW f \in Formats
      PROVE  /\ E(t, f) \in Good
             /\ \A r \in Rntis : f \in C /\ r = loc[f] => Hit(E(t, f), r)
             /\ \A r \in Rntis : ~(f \in C /\ r = loc[f]) => Same(t, E(t, f), r)
  <2>1. CASE f \notin C
    BY <2>1 DEF Same
  <2>2. CASE f \in C
    <3>1. loc[f] \in Rntis
      BY <2>2, CountedAreUes
    <3>2. PICK x \in Rntis : x = loc[f]
      BY <3>1
    <3>3. PICK e : e = EnqueueUe(t, tti, x)
      OBVIOUS
    <3>4. /\ e \in Good /\ e.cnt = [t.cnt EXCEPT ![x] = t.cnt[x] + 1]
          /\ e.last = [t.last EXCEPT ![x] = tti]
          /\ \E a \in BOOLEAN : e.active = [t.active EXCEPT ![x] = a]
      BY <3>3, Enqueued
    <3>5. /\ t.active \in [Rntis -> BOOLEAN] /\ t.cnt \in [Rntis -> Nat]
          /\ t.last \in [Rntis -> 0 .. MaxTti - 1]
      BY Fields DEF Good
    <3>6. Hit(e, x)
      BY <3>4, <3>5
    <3>7. \A r \in Rntis : r # x => Same(t, e, r)
      BY <3>4, <3>5 DEF Same
    <3>8. E(t, f) = e
      BY <2>2, <3>2, <3>3
    <3> HIDE DEF E, Hit
    <3> QED
      BY <2>2, <3>2, <3>4, <3>6, <3>7, <3>8
  <2> QED
    BY <2>1, <2>2
<1>2. ASSUME NEW t, NEW u, NEW r \in Rntis, Hit(t, r), Same(t, u, r) PROVE Hit(u, r)
  BY <1>2 DEF Same
<1>3. PICK t0 : t0 = E(s, 0)
  OBVIOUS
<1>4. PICK t1 : t1 = E(t0, 1)
  OBVIOUS
<1>5. PICK t2 : t2 = E(t1, 2)
  OBVIOUS
<1>6. Count(s, tti, loc) = t2
  BY <1>3, <1>4, <1>5 DEF Count
<1>7. 0 \in Formats /\ 1 \in Formats /\ 2 \in Formats /\ \A f \in Formats : f = 0 \/ f = 1 \/ f = 2
  BY DEF Formats
<1>8. \A f \in C : f \in Formats
  BY CountedAreUes
<1> HIDE DEF E, Hit, C
<1>9. /\ t0 \in Good
      /\ \A r \in Rntis : 0 \in C /\ r = loc[0] => Hit(t0, r)
      /\ \A r \in Rntis : ~(0 \in C /\ r = loc[0]) => Same(s, t0, r)
  BY <1>1, <1>3, <1>7
<1>10. /\ t1 \in Good
       /\ \A r \in Rntis : 1 \in C /\ r = loc[1] => Hit(t1, r)
       /\ \A r \in Rntis : ~(1 \in C /\ r = loc[1]) => Same(t0, t1, r)
  BY <1>1, <1>4, <1>7, <1>9
<1>11. /\ t2 \in Good
       /\ \A r \in Rntis : 2 \in C /\ r = loc[2] => Hit(t2, r)
       /\ \A r \in Rntis : ~(2 \in C /\ r = loc[2]) => Same(t1, t2, r)
  BY <1>1, <1>5, <1>7, <1>10
<1>12. ASSUME NEW r \in Rntis, r \in {loc[f] : f \in C} PROVE Hit(t2, r)
  BY <1>2, <1>7, <1>8, <1>9, <1>10, <1>11, <1>12
<1>13. ASSUME NEW r \in Rntis, r \notin {loc[f] : f \in C} PROVE Same(s, t2, r)
  <2>1. Same(s, t0, r) /\ Same(t0, t1, r) /\ Same(t1, t2, r)
    BY <1>9, <1>10, <1>11, <1>13
  <2> QED
    BY <2>1 DEF Same
<1> QED
  BY <1>6, <1>11, <1>12, <1>13 DEF Hit, C

(* One round of the loop of kick_inactive_ue.                              *)
LEMMA KickOne ==
  ASSUME NEW t \in Good, NEW tti \in 0 .. MaxTti - 1, NEW r \in Rntis
  PROVE  /\ Kick(t, tti, r) \in Good
         /\ IF Expired(t, tti, r) THEN Kick(t, tti, r).cnt[r] = 0 ELSE Same(t, Kick(t, tti, r), r)
         /\ \A x \in Rntis : x # r => Same(t, Kick(t, tti, r), x)
<1>1. CASE Expired(t, tti, r)
  <2>1. PICK u : u = RemoveUe(t, r)
    OBVIOUS
  <2>2. Kick(t, tti, r) = u
    BY <1>1, <2>1 DEF Kick
  <2>3. /\ u \in Good /\ u.cnt = [t.cnt EXCEPT ![r] = 0] /\ u.last = [t.last EXCEPT ![r] = 0]
        /\ u.active = [t.active EXCEPT ![r] = FALSE]
    BY <2>1, Removed
  <2>4. /\ t.active \in [Rntis -> BOOLEAN] /\ t.cnt \in [Rntis -> Nat]
        /\ t.last \in [Rntis -> 0 .. MaxTti - 1]
    BY Fields DEF Good
  <2> QED
    BY <1>1, <2>2, <2>3, <2>4 DEF Same
<1>2. CASE ~Expired(t, tti, r)
  <2>1. Kick(t, tti, r) = t
    BY <1>2 DEF Kick
  <2> QED
    BY <1>2, <2>1 DEF Same
<1> QED
  BY <1>1, <1>2

(* The loop as a whole forgets exactly the UEs that are due and leaves the *)
(* entries of all others alone.                                            *)
LEMMA KickDone ==
  ASSUME NEW s \in Good, NEW tti \in 0 .. MaxTti - 1
  PROVE  /\ KickInactive(s, tti) \in Good
         /\ \A r \in Rntis : IF Expired(s, tti, r) THEN KickInactive(s, tti).cnt[r] = 0
                             ELSE Same(s, KickInactive(s, tti), r)
<1> DEFINE N == MaxRnti
           F == [p \in Good \X (1 .. N) |-> Kick(p[1], tti, p[2])]
           Loop(v) == [n \in 0 .. N |-> IF n = 0 THEN s ELSE Kick(v[n - 1], tti, n)]
<1>0. N \in Nat /\ Rntis = 1 .. N /\ N \in 0 .. N
  BY TrackerAssumption DEF Rntis
<1>1. PICK g \in [0 .. N -> Good] : g[0] = s /\ \A n \in 1 .. N : g[n] = Kick(g[n - 1], tti, n)
  <2>1. \A t \in Good, n \in 1 .. N : Kick(t, tti, n) \in Good
    BY <1>0, KickOne
  <2>2. F \in [Good \X (1 .. N) -> Good]
    BY <2>1
  <2>3. \A t \in Good, n \in 1 .. N : F[<<t, n>>] = Kick(t, tti, n)
    OBVIOUS
  <2> HIDE DEF F
  <2>4. PICK g \in [0 .. N -> Good] : g[0] = s /\ \A n \in 1 .. N : g[n] = F[<<g[n - 1], n>>]
    BY <1>0, <2>2, RecursionExists
  <2>5. ASSUME NEW n \in 1 .. N PROVE g[n] = Kick(g[n - 1], tti, n)
    <3>1. n - 1 \in 0 .. N
      BY <1>0
    <3> QED
      BY <2>3, <2>4, <3>1
  <2> QED
    BY <2>4, <2>5
<1>2. g = Loop(g)
  <2>1. ASSUME NEW n \in 0 .. N PROVE g[n] = IF n = 0 THEN s ELSE Kick(g[n - 1], tti, n)
    <3>1. n = 0 \/ n \in 1 .. N
      BY <1>0
    <3> QED
      BY <1>1, <3>1
  <2> QED
    BY <1>1, <2>1
<1>3. KickInactive(s, tti) = (CHOOSE v : v = Loop(v))[N]
  BY DEF KickInactive
<1>4. PICK f : f = Loop(f) /\ KickInactive(s, tti) = f[N]
  BY <1>2, <1>3
<1>5. f[0] = s
  <2>1. \A v : Loop(v)[0] = s
    BY <1>0
  <2> HIDE DEF Loop
  <2> QED
    BY <1>4, <2>1
<1>6. ASSUME NEW n \in 1 .. N PROVE f[n] = Kick(f[n - 1], tti, n)
  <2>1. n \in 0 .. N /\ n # 0
    BY <1>0
  <2>2. \A v : Loop(v)[n] = Kick(v[n - 1], tti, n)
    BY <2>1
  <2> HIDE DEF Loop
  <2> QED
    BY <1>4, <2>2
<1> DEFINE Done(t, n) ==
              /\ t \in Good
              /\ \A r \in 1 .. N : r <= n => IF Expired(s, tti, r) THEN t.cnt[r] = 0
                                             ELSE Same(s, t, r)
              /\ \A r \in 1 .. N : r > n => Same(s, t, r)
           Bad == {n \in 0 .. N : ~Done(f[n], n)}
<1>7. Done(f[0], 0)
  BY <1>0, <1>5 DEF Same
<1>8. ASSUME NEW t, NEW n \in 1 .. N, Done(t, n - 1)
      PROVE  Done(Kick(t, tti, n), n)
  <2>1. PICK u : u = Kick(t, tti, n)
    OBVIOUS
  <2>2. /\ u \in Good
        /\ IF Expired(t, tti, n) THEN u.cnt[n] = 0 ELSE Same(t, u, n)
        /\ \A x \in 1 .. N : x # n => Same(t, u, x)
    BY <1>0, <1>8, <2>1, KickOne
  <2>3. Same(s, t, n)
    BY <1>0, <1>8
  <2>4. Expired(t, tti, n) <=> Expired(s, tti, n)
    BY <2>3 DEF Expired, Same
  <2>5. ASSUME NEW r \in 1 .. N, r <= n
        PROVE  IF Expired(s, tti, r) THEN u.cnt[r] = 0 ELSE Same(s, u, r)
    <3>1. CASE r = n
      BY <2>2, <2>3, <2>4, <3>1 DEF Same
    <3>2. CASE r # n
      <4>1. r <= n - 1
        BY <1>0, <2>5, <3>2
      <4>2. IF Expired(s, tti, r) THEN t.cnt[r] = 0 ELSE Same(s, t, r)
        BY <1>8, <4>1
      <4>3. Same(t, u, r)
        BY <2>2, <3>2
      <4> QED
        BY <4>2, <4>3 DEF Same
    <3> QED
      BY <3>1, <3>2
  <2>6. ASSUME NEW r \in 1 .. N, r > n PROVE Same(s, u, r)
    <3>1. r > n - 1 /\ r # n
      BY <1>0, <2>6
    <3>2. Same(s, t, r) /\ Same(t, u, r)
      BY <1>8, <2>2, <3>1
    <3> QED
      BY <3>2 DEF Same
  <2> QED
    BY <2>1, <2>2, <2>5, <2>6
<1> HIDE DEF Done
<1>9. Bad = {}
  <2> SUFFICES ASSUME Bad # {} PROVE FALSE
    OBVIOUS
  <2>1. PICK n \in Bad : \A x \in Bad : n <= x
    <3>1. Bad \in SUBSET (0 .. N)
      OBVIOUS
    <3> HIDE DEF Bad
    <3> QED
      BY <1>0, <3>1, LowestExists
  <2>2. n \in 0 .. N /\ ~Done(f[n], n)
    OBVIOUS
  <2>3. n # 0
    BY <1>7, <2>2
  <2>4. n \in 1 .. N /\ n - 1 \in 0 .. N /\ ~(n <= n - 1)
    BY <1>0, <2>2, <2>3
  <2>5. Done(f[n - 1], n - 1)
    BY <2>1, <2>4
  <2>6. Done(f[n], n)
    BY <1>6, <1>8, <2>4, <2>5
  <2> QED
    BY <2>2, <2>6
<1>10. Done(f[N], N)
  BY <1>0, <1>9
<1>11. \A r \in 1 .. N : r <= N
  BY <1>0
<1> QED
  BY <1>0, <1>4, <1>10, <1>11 DEF Done

-----------------------------------------------------------------------------
(* TTIs.                                                                   *)

\* The TTI k subframes before n.
Back(n, k) == IF k <= n THEN n - k ELSE (n - k) + MaxTti

(* The TTI of a subframe in work.                                          *)
LEMMA TtiIsBack ==
  ASSUME newest \in 0 .. MaxTti - 1, NEW o \in 0 .. MaxTti - 1
  PROVE  TtiOf(o) = Back(newest, o) /\ Back(newest, o) \in 0 .. MaxTti - 1
<1>1. MaxTti \in Nat \ {0} /\ newest + MaxTti - o \in 0 .. (MaxTti + MaxTti) - 1
  BY TrackerAssumption
<1>2. PICK x \in 0 .. (MaxTti + MaxTti) - 1 : x = newest + MaxTti - o
  BY <1>1
<1>3. x % MaxTti = IF x < MaxTti THEN x ELSE x - MaxTti
  BY <1>1, Wraps
<1>4. TtiOf(o) = x % MaxTti
  BY <1>2 DEF TtiOf
<1> QED
  BY <1>1, <1>2, <1>3, <1>4 DEF Back

(* The TTI of a sighting is one further back when a subframe arrives.      *)
LEMMA OneFurther ==
  ASSUME NEW n \in 0 .. MaxTti - 1, NEW lag \in 0 .. MaxTti - 1
  PROVE  /\ (n + 1) % MaxTti \in 0 .. MaxTti - 1
         /\ lag < MaxTti - 1 => Back(n, lag) = Back((n + 1) % MaxTti, lag + 1)
         /\ lag = MaxTti - 1 => Back(n, lag) = Back((n + 1) % MaxTti, 0)
<1>1. MaxTti \in Nat \ {0} /\ n + 1 \in 0 .. (MaxTti + MaxTti) - 1
  BY TrackerAssumption
<1>2. PICK m : m = (n + 1) % MaxTti
  OBVIOUS
<1>3. m = IF n + 1 < MaxTti THEN n + 1 ELSE (n + 1) - MaxTti
  <2>1. PICK x \in 0 .. (MaxTti + MaxTti) - 1 : x = n + 1
    BY <1>1
  <2> QED
    BY <1>1, <1>2, <2>1, Wraps
<1>4. /\ m \in 0 .. MaxTti - 1
      /\ lag < MaxTti - 1 => Back(n, lag) = Back(m, lag + 1)
      /\ lag = MaxTti - 1 => Back(n, lag) = Back(m, 0)
  BY <1>1, <1>3 DEF Back
<1> QED
  BY <1>2, <1>4

(* tti_difference of two subframes in the past of the newest one.          *)
LEMMA Distance ==
  ASSUME NEW n \in 0 .. MaxTti - 1, NEW k \in 0 .. MaxTti - 1, NEW o \in 0 .. MaxTti - 1
  PROVE  LET d == IF k < o THEN o - k ELSE k - o
         IN  TtiDifference(Back(n, k), Back(n, o)) = IF d > MaxTti - d THEN MaxTti - d ELSE d
  BY TrackerAssumption DEF TtiDifference, Back

-----------------------------------------------------------------------------
(* The locked region of a decoder.                                         *)

Thd(s, r) == IF s.active[r] THEN ActiveThd ELSE InactiveThd
Seen(s, loc) == {loc[f] : f \in Counted(s, loc)}

(* A decoder keeps the UEs it has just counted, forgets the others that    *)
(* are due and does nothing to the rest.                                   *)
LEMMA TrackedDone ==
  ASSUME q \in Good, newest \in 0 .. MaxTti - 1, NEW o \in 0 .. Window, NEW loc \in Locations
  PROVE  /\ Tracked(q, o, loc) \in Good
         /\ \A r \in Rntis :
               IF r \in Seen(q, loc)
               THEN Tracked(q, o, loc).cnt[r] > 0 /\ Tracked(q, o, loc).last[r] = Back(newest, o)
               ELSE IF Expired(q, Back(newest, o), r) THEN Tracked(q, o, loc).cnt[r] = 0
               ELSE Same(q, Tracked(q, o, loc), r)
<1>1. o \in 0 .. MaxTti - 1
  BY TrackerAssumption
<1>2. PICK tti : tti = Back(newest, o)
  OBVIOUS
<1>3. TtiOf(o) = tti /\ tti \in 0 .. MaxTti - 1
  BY <1>1, <1>2, TtiIsBack
<1>4. PICK u : u = Count(q, tti, loc)
  OBVIOUS
<1>5. /\ u \in Good
      /\ \A r \in Rntis : IF r \in Seen(q, loc) THEN u.last[r] = tti /\ u.cnt[r] > 0
                          ELSE Same(q, u, r)
  BY <1>3, <1>4, CountDone DEF Seen
<1>6. PICK t : t = KickInactive(u, tti)
  OBVIOUS
<1>7. /\ t \in Good
      /\ \A r \in Rntis : IF Expired(u, tti, r) THEN t.cnt[r] = 0 ELSE Same(u, t, r)
  BY <1>3, <1>5, <1>6, KickDone
<1>8. Tracked(q, o, loc) = t
  BY <1>3, <1>4, <1>6 DEF Tracked
<1>9. ASSUME NEW r \in Rntis, r \in Seen(q, loc) PROVE t.cnt[r] > 0 /\ t.last[r] = tti
  <2>1. u.last[r] = tti /\ u.cnt[r] > 0
    BY <1>5, <1>9
  <2>2. TtiDifference(tti, tti) = 0
    BY <1>3, TrackerAssumption DEF TtiDifference
  <2>3. ~Expired(u, tti, r)
    BY <2>1, <2>2, TrackerAssumption DEF Expired
  <2> QED
    BY <1>7, <2>1, <2>3 DEF Same
<1>10. ASSUME NEW r \in Rntis, r \notin Seen(q, loc)
       PROVE  IF Expired(q, tti, r) THEN t.cnt[r] = 0 ELSE Same(q, t, r)
  <2>1. Same(q, u, r)
    BY <1>5, <1>10
  <2>2. Expired(u, tti, r) <=> Expired(q, tti, r)
    BY <2>1 DEF Expired, Same
  <2> QED
    BY <1>7, <2>1, <2>2 DEF Same
<1> QED
  BY <1>2, <1>7, <1>8, <1>9, <1>10

-----------------------------------------------------------------------------
(* The array of the most frequent UEs, and UEs on the air.                 *)

\* The sighting recorded for a UE is at most Window subframes older than the
\* newest one.
AgeKept ==
    \A r \in Rntis : Tracking(r) =>
        \E lag \in 0 .. MaxTti - 1 : q.last[r] = Back(newest, lag) /\ lag <= age[r] + Window

TrackerInv ==
    /\ q \in Good
    /\ newest \in 0 .. MaxTti - 1
    /\ pending \in SUBSET (0 .. Window)
    /\ lost \in 0 .. MaxLost
    /\ age \in [Rntis -> Nat]
    /\ AgeKept

\* By how much an older sighting recorded last makes the UE look older.
Late(r) == IF q.last[r] = TtiOf(age[r]) THEN 0 ELSE Window

(* Going back by different numbers leads to different TTIs.                *)
LEMMA BackUnique ==
  ASSUME NEW n \in 0 .. MaxTti - 1, NEW k \in 0 .. MaxTti - 1, NEW j \in 0 .. MaxTti - 1,
         Back(n, k) = Back(n, j)
  PROVE  k = j
  BY TrackerAssumption DEF Back

(* A UE that is due although it was not in this subframe was not on the    *)
(* air for its threshold, less what the order of decoding makes out.       *)
LEMMA DueIsOld ==
  ASSUME Window < InactiveThd,
         TrackerInv, NEW r \in Rntis, Tracking(r), NEW o \in 0 .. Window,
         Expired(q, Back(newest, o), r)
  PROVE  age[r] + Late(r) >= Thd(q, r)
<1>1. PICK lag \in 0 .. MaxTti - 1 : q.last[r] = Back(newest, lag) /\ lag <= age[r] + Window
  BY DEF TrackerInv, AgeKept
<1>2. newest \in 0 .. MaxTti - 1 /\ o \in 0 .. MaxTti - 1 /\ MaxTti \in Nat /\ Window \in Nat
  BY TrackerAssumption DEF TrackerInv
<1>3. age[r] \in Nat
  BY DEF TrackerInv
<1> DEFINE d == IF lag < o THEN o - lag ELSE lag - o
           w == IF d > MaxTti - d THEN MaxTti - d ELSE d
<1>4. w >= Thd(q, r)
  <2>1. TtiDifference(q.last[r], Back(newest, o)) = w
    BY <1>1, <1>2, Distance
  <2> HIDE DEF w
  <2> QED
    BY <2>1 DEF Expired, Thd
<1>5. w <= age[r] + Window
  BY <1>1, <1>2, <1>3
<1>6. w \in Int /\ Thd(q, r) \in Int /\ Window < Thd(q, r)
  BY <1>2, TrackerAssumption DEF Thd
<1>7. w <= Window \/ w <= lag
  BY <1>1, <1>2
<1>8. ASSUME q.last[r] = TtiOf(age[r]) PROVE lag <= age[r]
  <2>1. CASE age[r] < MaxTti
    <3>1. age[r] \in 0 .. MaxTti - 1
      BY <1>2, <1>3, <2>1
    <3>2. TtiOf(age[r]) = Back(newest, age[r])
      BY <1>2, <3>1, TtiIsBack
    <3>3. Back(newest, lag) = Back(newest, age[r])
      BY <1>1, <1>8, <3>2
    <3>4. lag = age[r]
      BY <1>1, <1>2, <3>1, <3>3, BackUnique
    <3> QED
      BY <1>3, <3>4
  <2> QED
    BY <1>1, <1>2, <1>3, <2>1
<1> HIDE DEF w
<1>9. CASE q.last[r] = TtiOf(age[r])
  <2>1. w <= lag
    BY <1>2, <1>4, <1>6, <1>7
  <2>2. w <= age[r]
    BY <1>1, <1>3, <1>6, <1>8, <1>9, <2>1
  <2> QED
    BY <1>3, <1>4, <1>6, <1>9, <2>2 DEF Late
<1> QED
  BY <1>2, <1>3, <1>4, <1>5, <1>6, <1>9 DEF Late

(* The next subframe arrives.                                              *)
LEMMA ReceiveKeeps ==
  ASSUME TrackerInv, Receive
  PROVE  TrackerInv'
<1>0. /\ newest \in 0 .. MaxTti - 1 /\ MaxTti \in Nat \ {0} /\ Window \in Nat
      /\ newest' = (newest + 1) % MaxTti /\ q' = q /\ lost' = lost
      /\ pending \in SUBSET (0 .. Window) /\ age \in [Rntis -> Nat]
  BY TrackerAssumption DEF TrackerInv, Receive
<1>1. newest' \in 0 .. MaxTti - 1
  <2>1. 0 \in 0 .. MaxTti - 1
    BY <1>0
  <2> QED
    BY <1>0, <2>1, OneFurther
<1>2. pending' \in SUBSET (0 .. Window)
  BY <1>0 DEF Receive
<1>3. age' \in [Rntis -> Nat] /\ \A r \in Rntis : Tracking(r) => age'[r] = age[r] + 1
  BY <1>0, TrackerAssumption DEF Receive, Tracking, TrackerInv, Good, States
<1>4. ASSUME NEW r \in Rntis, q.cnt[r] > 0
      PROVE  \E lag \in 0 .. MaxTti - 1 : q.last[r] = Back(newest', lag) /\ lag <= age'[r] + Window
  <2>1. PICK k \in 0 .. MaxTti - 1 : q.last[r] = Back(newest, k) /\ k <= age[r] + Window
    BY <1>4 DEF TrackerInv, AgeKept, Tracking
  <2>2. age'[r] = age[r] + 1 /\ age[r] \in Nat
    BY <1>0, <1>3, <1>4 DEF Tracking
  <2>3. CASE k < MaxTti - 1
    <3>1. k + 1 \in 0 .. MaxTti - 1 /\ k + 1 <= age'[r] + Window
      BY <1>0, <2>1, <2>2, <2>3
    <3>2. q.last[r] = Back(newest', k + 1)
      BY <1>0, <2>1, <2>3, OneFurther
    <3> QED
      BY <3>1, <3>2
  <2>4. CASE k = MaxTti - 1
    <3>1. 0 \in 0 .. MaxTti - 1 /\ 0 <= age'[r] + Window
      BY <1>0, <2>2
    <3>2. q.last[r] = Back(newest', 0)
      BY <1>0, <2>1, <2>4, OneFurther
    <3> QED
      BY <3>1, <3>2
  <2> QED
    BY <1>0, <2>3, <2>4
<1>5. AgeKept'
  BY <1>0, <1>4 DEF AgeKept, Tracking
<1> QED
  BY <1>0, <1>1, <1>2, <1>3, <1>5 DEF TrackerInv

(* A decoder works on a subframe.                                          *)
LEMMA DecodeKeeps ==
  ASSUME TrackerInv, NEW o \in pending, NEW loc \in Locations, Decode(o, loc)
  PROVE  /\ TrackerInv'
         /\ Window < InactiveThd =>
              \A r \in Rntis : Tracking(r) /\ q'.cnt[r] = 0 => age[r] + Late(r) >= Thd(q, r)
<1>0. /\ q \in Good /\ newest \in 0 .. MaxTti - 1 /\ MaxTti \in Nat \ {0} /\ Window \in Nat
      /\ o \in 0 .. Window /\ o \in 0 .. MaxTti - 1 /\ age \in [Rntis -> Nat]
      /\ newest' = newest /\ lost' \in 0 .. MaxLost /\ pending' \in SUBSET (0 .. Window)
      /\ q' = Tracked(q, o, loc)
  <2>1. newest' = newest /\ lost' = 0 /\ pending' = pending \ {o} /\ q' = Tracked(q, o, loc)
    BY DEF Decode
  <2>2. /\ q \in Good /\ newest \in 0 .. MaxTti - 1 /\ pending \in SUBSET (0 .. Window)
        /\ age \in [Rntis -> Nat]
    BY DEF TrackerInv
  <2>3. /\ MaxTti \in Nat \ {0} /\ Window \in Nat /\ Window <= MaxTti - 1 /\ 0 \in 0 .. MaxLost
    BY TrackerAssumption
  <2>4. o \in 0 .. Window /\ o \in 0 .. MaxTti - 1
    BY <2>2, <2>3
  <2> QED
    BY <2>1, <2>2, <2>3, <2>4
<1>1. /\ q' \in Good
      /\ \A r \in Rntis : IF r \in Seen(q, loc) THEN q'.cnt[r] > 0 /\ q'.last[r] = Back(newest, o)
                          ELSE IF Expired(q, Back(newest, o), r) THEN q'.cnt[r] = 0
                          ELSE Same(q, q', r)
  BY <1>0, TrackedDone
<1>2. age' = [r \in Rntis |-> IF q'.cnt[r] = 0 THEN 0
                              ELSE IF r \in Seen(q, loc) /\ (q.cnt[r] = 0 \/ o < age[r]) THEN o
                              ELSE age[r]]
  BY DEF Decode, Seen
<1>3. age' \in [Rntis -> Nat]
  BY <1>0, <1>2
<1>4. ASSUME NEW r \in Rntis, q'.cnt[r] > 0
      PROVE  \E lag \in 0 .. MaxTti - 1 : q'.last[r] = Back(newest, lag) /\ lag <= age'[r] + Window
  <2>1. CASE r \in Seen(q, loc)
    <3>1. q'.last[r] = Back(newest, o)
      BY <1>1, <2>1
    <3>2. age'[r] \in Nat
      BY <1>3
    <3>3. o <= age'[r] + Window
      BY <1>0, <3>2
    <3> QED
      BY <1>0, <3>1, <3>3
  <2>2. CASE r \notin Seen(q, loc)
    <3>1. Same(q, q', r)
      BY <1>1, <1>4, <2>2
    <3>2. age'[r] = age[r]
      BY <1>2, <1>4, <2>2
    <3>3. \E lag \in 0 .. MaxTti - 1 : q.last[r] = Back(newest, lag) /\ lag <= age[r] + Window
      BY <1>4, <3>1 DEF TrackerInv, AgeKept, Tracking, Same
    <3> QED
      BY <3>1, <3>2, <3>3 DEF Same
  <2> QED
    BY <2>1, <2>2
<1>5. AgeKept'
  BY <1>0, <1>4 DEF AgeKept, Tracking
<1>6. ASSUME Window < InactiveThd, NEW r \in Rntis, Tracking(r), q'.cnt[r] = 0
      PROVE  age[r] + Late(r) >= Thd(q, r)
  <2>1. r \notin Seen(q, loc)
    BY <1>1, <1>6
  <2>2. ~Same(q, q', r)
    BY <1>6 DEF Same, Tracking
  <2>3. Expired(q, Back(newest, o), r)
    BY <1>1, <2>1, <2>2
  <2> QED
    BY <1>0, <1>6, <2>3, DueIsOld
<1> QED
  BY <1>0, <1>1, <1>3, <1>5, <1>6 DEF TrackerInv

(* A subframe is not decoded, or nothing happens.                          *)
LEMMA SkipKeeps ==
  ASSUME TrackerInv, \/ \E o \in pending : NotDecoded(o)
                     \/ vars' = vars
  PROVE  TrackerInv' /\ q' = q
<1>1. CASE vars' = vars
  BY <1>1 DEF vars, TrackerInv, AgeKept, Tracking
<1>2. ASSUME NEW o \in pending, NotDecoded(o)
      PROVE  TrackerInv' /\ q' = q
  <2>1. /\ q' = q /\ newest' = newest /\ age' = age
        /\ pending' \in SUBSET (0 .. Window) /\ lost' \in 0 .. MaxLost
    BY <1>2, TrackerAssumption DEF NotDecoded, TrackerInv
  <2> QED
    BY <2>1 DEF TrackerInv, AgeKept, Tracking
<1> QED
  BY <1>1, <1>2

(* The tracker starts empty.                                               *)
LEMMA TrackerStarts ==
  ASSUME Init
  PROVE  TrackerInv
<1>1. TopN \in Nat /\ TopN >= 2 /\ 0 \in 0 .. MaxTti - 1 /\ 0 \in 0 .. MaxLost
  BY TrackerAssumption
<1>2. NoUe \in Entry /\ NoUe.freq = 0
  BY DEF NoUe, Entry
<1>3. [i \in 1 .. TopN |-> NoUe] \in Tops
  BY <1>2 DEF Tops
<1>4. q \in States
  BY <1>1, <1>3 DEF Init, States
<1>5. \A i \in 1 .. TopN : q.top[i] = NoUe
  BY DEF Init
<1>6. TopOk(q.top, q.active, q.cnt)
  BY <1>2, <1>5 DEF TopOk
<1>7. AgeKept
  BY DEF AgeKept, Tracking, Init
<1> QED
  BY <1>1, <1>4, <1>6, <1>7 DEF TrackerInv, Init, Good

(* Every step keeps the invariant, and forgets no UE that was on the air.  *)
LEMMA TrackerStep ==
  ASSUME TrackerInv, [Next]_vars
  PROVE  /\ TrackerInv'
         /\ Window < InactiveThd =>
              \A r \in Rntis : Tracking(r) /\ q'.cnt[r] = 0 => age[r] + Late(r) >= Thd(q, r)
<1>1. ASSUME q' = q
      PROVE  \A r \in Rntis : Tracking(r) /\ q'.cnt[r] = 0 => age[r] + Late(r) >= Thd(q, r)
  BY <1>1 DEF Tracking
<1>2. CASE Receive
  <2>1. q' = q
    BY <1>2 DEF Receive
  <2> QED
    BY <1>1, <1>2, <2>1, ReceiveKeeps
<1>3. CASE (\E o \in pending : NotDecoded(o)) \/ vars' = vars
  BY <1>1, <1>3, SkipKeeps
<1>4. ASSUME NEW o \in pending, NEW loc \in Locations, Decode(o, loc)
      PROVE  /\ TrackerInv'
             /\ Window < InactiveThd =>
                  \A r \in Rntis : Tracking(r) /\ q'.cnt[r] = 0 => age[r] + Late(r) >= Thd(q, r)
  BY <1>4, DecodeKeeps
<1> QED
  BY <1>2, <1>3, <1>4 DEF Next

(* What the sorted order of TopOk means for neighbours.                    *)
LEMMA TrackerConsistent ==
  TrackerInv => TopConsistent
<1> SUFFICES ASSUME TrackerInv PROVE TopConsistent
  OBVIOUS
<1>1. TopOk(q.top, q.active, q.cnt) /\ TopN \in Nat
  BY TrackerAssumption DEF TrackerInv, Good
<1>2. \A i \in 1 .. TopN - 1 : i \in 1 .. TopN /\ i + 1 \in 1 .. TopN /\ i < i + 1
  BY <1>1
<1> QED
  BY <1>1, <1>2 DEF TopOk, TopConsistent

(* TopConsistent: "NOTE: TOP-N array ue freq is always sorted"             *)
(* (ue_tracker.c:83) holds for any number of UEs and any length of the     *)
(* array, through every sequence of sightings, removals and refills.       *)
THEOREM TopStaysConsistent == Spec => []TopConsistent
<1>1. Init => TrackerInv
  BY TrackerStarts
<1>2. TrackerInv /\ [Next]_vars => TrackerInv'
  BY TrackerStep
<1> QED
  BY <1>1, <1>2, TrackerConsistent, PTL DEF Spec

(* FreshKept: with decoders closer together than the shorter threshold,    *)
(* kick_inactive_ue forgets a UE whose newest sighting is the one recorded *)
(* only after the full threshold, and no other earlier than that by more   *)
(* than the decoders are apart.                                            *)
THEOREM FreshStayKept == Window < InactiveThd => (Spec => FreshKept)
<1> SUFFICES ASSUME Window < InactiveThd PROVE Spec => FreshKept
  OBVIOUS
<1> DEFINE Kept == \A r \in Rntis : (Tracking(r) /\ q'.cnt[r] = 0) =>
                      age[r] + (IF q.last[r] = TtiOf(age[r]) THEN 0 ELSE Window)
                          >= (IF q.active[r] THEN ActiveThd ELSE InactiveThd)
<1>1. Init => TrackerInv
  BY TrackerStarts
<1>2. TrackerInv /\ [Next]_vars => TrackerInv'
  BY TrackerStep
<1>3. TrackerInv /\ [Next]_vars => [Kept]_vars
  BY TrackerStep DEF Thd, Late
<1> QED
  BY <1>1, <1>2, <1>3, PTL DEF Spec, FreshKept

-----------------------------------------------------------------------------
(* UEs that left the cell.                                                 *)

(* What the numbers of the deployment have to satisfy: both thresholds,    *)
(* the spread of the decoders and the subframes that may be lost in a row  *)
(* fit into one turn of the TTIs (10000 of 10240 are the thresholds').     *)
Slack == ActiveThd + ActiveThd + Window + Window + MaxLost <= MaxTti

(* How many subframes are in work, and that one more is when one arrives.  *)
LEMMA PendingSize ==
  ASSUME NEW P \in SUBSET (0 .. Window)
  PROVE  /\ Cardinality(P) \in 0 .. Window + 1
         /\ Window \notin P => Cardinality(P) <= Window
         /\ Window \notin P => Cardinality({o + 1 : o \in P} \cup {0}) = Cardinality(P) + 1
         /\ \A o \in P : Cardinality(P \ {o}) = Cardinality(P) - 1
<1>0. Window \in Nat
  BY TrackerAssumption
<1>1. IsFiniteSet(0 .. Window) /\ Cardinality(0 .. Window) = Window + 1
  BY <1>0, FS_Interval
<1>2. IsFiniteSet(P) /\ Cardinality(P) <= Window + 1
  BY <1>0, <1>1, FS_Subset
<1>3. Cardinality(P) \in Nat
  BY <1>2, FS_CardinalityType
<1>4. ASSUME Window \notin P PROVE Cardinality(P) <= Window
  <2>1. IsFiniteSet(0 .. Window - 1) /\ Cardinality(0 .. Window - 1) = Window
    BY <1>0, FS_Interval
  <2>2. P \in SUBSET (0 .. Window - 1)
    BY <1>0, <1>4
  <2> QED
    BY <2>1, <2>2, FS_Subset
<1>5. Cardinality({o + 1 : o \in P} \cup {0}) = Cardinality(P) + 1
  <2> DEFINE T == {o + 1 : o \in P}
             f == [o \in P |-> o + 1]
  <2>1. f \in [P -> T] /\ \A a, b \in P : f[a] = f[b] => a = b
    BY <1>0
  <2>2. \A t \in T : \E o \in P : f[o] = t
    OBVIOUS
  <2>3. f \in Injection(P, T) /\ f \in Surjection(P, T)
    BY <2>1, <2>2 DEF Injection, Surjection, IsInjective
  <2>4. ExistsBijection(P, T)
    BY <2>3 DEF ExistsBijection, Bijection
  <2>5. 0 \notin T
    BY <1>0
  <2> HIDE DEF T, f
  <2>6. IsFiniteSet(T) /\ Cardinality(T) = Cardinality(P)
    BY <1>2, <2>4, FS_Bijection
  <2>7. Cardinality(T \cup {0}) = Cardinality(T) + 1
    BY <2>5, <2>6, FS_AddElement
  <2> QED
    BY <2>6, <2>7 DEF T
<1>6. \A o \in P : Cardinality(P \ {o}) = Cardinality(P) - 1
  BY <1>2, FS_RemoveElement
<1> QED
  BY <1>0, <1>2, <1>3, <1>4, <1>5, <1>6

\* How far back the sighting recorded for a UE may be: since its threshold
\* was last tested as many subframes arrived as are in work or were lost.
Reach(r) == Thd(q, r) - 1 + (Window + lost + Cardinality(pending))

\* A sighting no older than that, and no newer than the UE's age.
LagKept ==
    \A r \in Rntis : Tracking(r) =>
        \E lag \in 0 .. MaxTti - 1 :
            q.last[r] = Back(newest, lag) /\ age[r] <= lag /\ lag <= Reach(r)

(* The numbers the steps need.                                             *)
LEMMA ReachBound ==
  ASSUME Slack, TrackerInv, NEW r \in Rntis
  PROVE  /\ Thd(q, r) \in 1 .. ActiveThd /\ age[r] \in Nat
         /\ ActiveThd \in Nat /\ MaxTti \in Nat /\ Window \in Nat /\ lost \in Nat
         /\ Cardinality(pending) \in Nat /\ Reach(r) \in Nat
         /\ Reach(r) <= MaxTti - Thd(q, r)
         /\ Window \notin pending => Reach(r) < MaxTti - ActiveThd
<1>1. /\ Thd(q, r) \in 1 .. ActiveThd /\ ActiveThd \in Nat /\ MaxTti \in Nat /\ Window \in Nat
      /\ MaxLost \in Nat
  BY TrackerAssumption DEF Thd
<1>2. /\ lost \in 0 .. MaxLost /\ pending \in SUBSET (0 .. Window) /\ age[r] \in Nat
  BY DEF TrackerInv
<1>3. PICK c : c = Cardinality(pending)
  OBVIOUS
<1>4. c \in 0 .. Window + 1 /\ (Window \notin pending => c <= Window)
  BY <1>2, <1>3, PendingSize
<1>5. PICK t \in 1 .. ActiveThd : t = Thd(q, r)
  BY <1>1
<1>6. Reach(r) = t - 1 + (Window + lost + c)
  BY <1>3, <1>5 DEF Reach
<1> QED
  BY <1>1, <1>2, <1>3, <1>4, <1>5, <1>6 DEF Slack

(* A UE that is tracked is not older than the half turn of tti_difference. *)
LEMMA LagRemoves ==
  Slack /\ TrackerInv /\ LagKept => StaleRemoved
<1> SUFFICES ASSUME Slack, TrackerInv, LagKept, NEW r \in Rntis, Tracking(r)
             PROVE  age[r] <= MaxTti - Thd(q, r)
  BY DEF StaleRemoved, Thd
<1>1. PICK lag \in 0 .. MaxTti - 1 : age[r] <= lag /\ lag <= Reach(r)
  BY DEF LagKept
<1>2. PICK x : x = Reach(r)
  OBVIOUS
<1>3. PICK t : t = Thd(q, r)
  OBVIOUS
<1>4. /\ t \in 1 .. ActiveThd /\ age[r] \in Nat /\ ActiveThd \in Nat /\ MaxTti \in Nat
      /\ x \in Nat /\ x <= MaxTti - t
  BY <1>2, <1>3, ReachBound
<1> QED
  BY <1>1, <1>2, <1>3, <1>4

(* A subframe arrives: every UE is one older and one more is in work.      *)
LEMMA LagReceive ==
  ASSUME Slack, TrackerInv, LagKept, Receive
  PROVE  LagKept'
<1>0. /\ newest \in 0 .. MaxTti - 1 /\ newest' = (newest + 1) % MaxTti /\ q' = q /\ lost' = lost
      /\ Window \notin pending /\ pending \in SUBSET (0 .. Window)
      /\ pending' = {o + 1 : o \in pending} \cup {0}
  BY DEF TrackerInv, Receive
<1>1. \A r \in Rntis : Tracking(r) => age'[r] = age[r] + 1
  BY TrackerAssumption DEF Receive, Tracking, TrackerInv, Good, States
<1>2. PICK c : c = Cardinality(pending)
  OBVIOUS
<1>3. c \in Nat /\ Cardinality(pending') = c + 1
  <2>1. PICK P \in SUBSET (0 .. Window) : P = pending
    BY <1>0
  <2>2. /\ Cardinality(P) \in 0 .. Window + 1 /\ Window \notin P
        /\ Cardinality({o + 1 : o \in P} \cup {0}) = Cardinality(P) + 1
    BY <1>0, <2>1, PendingSize
  <2>3. Window \in Nat
    BY TrackerAssumption
  <2> QED
    BY <1>0, <1>2, <2>1, <2>2, <2>3
<1>4. ASSUME NEW r \in Rntis, q.cnt[r] > 0
      PROVE  \E lag \in 0 .. MaxTti - 1 :
                /\ q.last[r] = Back(newest', lag) /\ age'[r] <= lag
                /\ lag <= Thd(q, r) - 1 + (Window + lost + Cardinality(pending'))
  <2>1. PICK k \in 0 .. MaxTti - 1 : q.last[r] = Back(newest, k) /\ age[r] <= k /\ k <= Reach(r)
    BY <1>4 DEF LagKept, Tracking
  <2>2. PICK t : t = Thd(q, r)
    OBVIOUS
  <2>3. PICK x : x = Reach(r)
    OBVIOUS
  <2>4. /\ t \in 1 .. ActiveThd /\ age[r] \in Nat /\ ActiveThd \in Nat /\ MaxTti \in Nat
        /\ Window \in Nat /\ lost \in Nat /\ x \in Nat /\ x < MaxTti - ActiveThd
    BY <1>0, <2>2, <2>3, ReachBound
  <2>5. x = t - 1 + (Window + lost + c)
    BY <1>2, <2>2, <2>3 DEF Reach
  <2>6. k < MaxTti - 1 /\ k + 1 \in 0 .. MaxTti - 1
    BY <2>1, <2>3, <2>4
  <2>7. q.last[r] = Back(newest', k + 1)
    BY <1>0, <2>1, <2>6, OneFurther
  <2>8. age'[r] = age[r] + 1
    BY <1>1, <1>4 DEF Tracking
  <2>9. age'[r] <= k + 1 /\ k + 1 <= t - 1 + (Window + lost + (c + 1))
    BY <1>3, <2>1, <2>3, <2>4, <2>5, <2>8
  <2> QED
    BY <1>3, <2>2, <2>6, <2>7, <2>9
<1> QED
  BY <1>0, <1>4 DEF LagKept, Tracking, Reach, Thd

(* A subframe that is not decoded is lost instead of in work.              *)
LEMMA LagLost ==
  ASSUME TrackerInv, LagKept, NEW o \in pending, NotDecoded(o)
  PROVE  LagKept'
<1>1. /\ q' = q /\ newest' = newest /\ age' = age /\ lost' = lost + 1 /\ pending' = pending \ {o}
      /\ lost \in Nat /\ Window \in Nat
  BY TrackerAssumption DEF TrackerInv, NotDecoded
<1>2. PICK c : c = Cardinality(pending)
  OBVIOUS
<1>3. c \in Nat /\ Cardinality(pending') = c - 1
  <2>1. PICK P \in SUBSET (0 .. Window) : P = pending
    BY DEF TrackerInv
  <2>2. Cardinality(P) \in 0 .. Window + 1 /\ Cardinality(P \ {o}) = Cardinality(P) - 1
    BY <2>1, PendingSize
  <2> QED
    BY <1>1, <1>2, <2>1, <2>2
<1>4. Window + lost' + Cardinality(pending') = Window + lost + Cardinality(pending)
  BY <1>1, <1>2, <1>3
<1>5. \A r \in Rntis : Reach(r)' = Reach(r)
  BY <1>1, <1>4 DEF Reach, Thd
<1> HIDE DEF Reach
<1> QED
  BY <1>1, <1>5 DEF LagKept, Tracking

(* A decoder has tested the threshold of every UE that is left; with Slack *)
(* the distance it compared is the true one.                               *)
LEMMA LagDecode ==
  ASSUME Slack, TrackerInv, TrackerInv', LagKept, NEW o \in pending, NEW loc \in Locations,
         Decode(o, loc)
  PROVE  LagKept'
<1>0. /\ q \in Good /\ newest \in 0 .. MaxTti - 1 /\ MaxTti \in Nat \ {0} /\ Window \in Nat
      /\ o \in 0 .. Window /\ o \in 0 .. MaxTti - 1
      /\ newest' = newest /\ q' = Tracked(q, o, loc)
  <2>1. newest' = newest /\ q' = Tracked(q, o, loc)
    BY DEF Decode
  <2>2. /\ q \in Good /\ newest \in 0 .. MaxTti - 1 /\ pending \in SUBSET (0 .. Window)
    BY DEF TrackerInv
  <2>3. /\ MaxTti \in Nat \ {0} /\ Window \in Nat /\ Window <= MaxTti - 1
    BY TrackerAssumption
  <2> QED
    BY <2>1, <2>2, <2>3
<1>1. \A r \in Rntis : IF r \in Seen(q, loc) THEN q'.cnt[r] > 0 /\ q'.last[r] = Back(newest, o)
                       ELSE IF Expired(q, Back(newest, o), r) THEN q'.cnt[r] = 0
                       ELSE Same(q, q', r)
  BY <1>0, TrackedDone
<1>2. age' = [r \in Rntis |-> IF q'.cnt[r] = 0 THEN 0
                              ELSE IF r \in Seen(q, loc) /\ (q.cnt[r] = 0 \/ o < age[r]) THEN o
                              ELSE age[r]]
  BY DEF Decode, Seen
<1>3. ASSUME NEW r \in Rntis, NEW lag \in 0 .. MaxTti - 1, lag <= Thd(q', r) - 1 + Window
      PROVE  lag <= Reach(r)'
  <2>1. PICK c : c = Cardinality(pending')
    OBVIOUS
  <2>2. PICK t : t = Thd(q', r)
    OBVIOUS
  <2>3. t \in Nat /\ lost' \in Nat
    <3>1. Thd(q', r) \in Nat
      BY TrackerAssumption DEF Thd
    <3> QED
      BY <2>2, <3>1, TrackerAssumption DEF TrackerInv
  <2>4. c \in Nat
    <3>1. PICK P \in SUBSET (0 .. Window) : P = pending'
      BY DEF TrackerInv
    <3>2. Cardinality(P) \in 0 .. Window + 1
      BY <3>1, PendingSize
    <3> QED
      BY <1>0, <2>1, <3>1, <3>2
  <2>5. Reach(r)' = t - 1 + (Window + lost' + c)
    BY <2>1, <2>2 DEF Reach
  <2> QED
    BY <1>0, <1>3, <2>2, <2>3, <2>4, <2>5
<1>4. ASSUME NEW r \in Rntis, q'.cnt[r] > 0
      PROVE  \E lag \in 0 .. MaxTti - 1 :
                q'.last[r] = Back(newest, lag) /\ age'[r] <= lag /\ lag <= Thd(q', r) - 1 + Window
  <2>0. age[r] \in Nat /\ q.cnt[r] \in Nat /\ q'.cnt[r] # 0
    BY <1>4 DEF TrackerInv, Good, States
  <2>1. CASE r \in Seen(q, loc)
    <3>1. q'.last[r] = Back(newest, o)
      BY <1>1, <2>1
    <3>2. age'[r] = IF q.cnt[r] = 0 \/ o < age[r] THEN o ELSE age[r]
      BY <1>2, <2>0, <2>1
    <3>3. age'[r] <= o
      BY <1>0, <2>0, <3>2
    <3>4. PICK t : t = Thd(q', r)
      OBVIOUS
    <3>5. t \in Nat /\ t >= 1
      BY <3>4, TrackerAssumption DEF Thd
    <3>6. o <= t - 1 + Window
      BY <1>0, <3>5
    <3> QED
      BY <1>0, <3>1, <3>3, <3>4, <3>6
  <2>2. CASE r \notin Seen(q, loc)
    <3>1. Same(q, q', r) /\ ~Expired(q, Back(newest, o), r)
      BY <1>1, <2>0, <2>2
    <3>2. age'[r] = age[r] /\ Thd(q', r) = Thd(q, r) /\ q.cnt[r] > 0
      BY <1>2, <1>4, <2>0, <2>2, <3>1 DEF Same, Thd
    <3>3. PICK k \in 0 .. MaxTti - 1 : q.last[r] = Back(newest, k) /\ age[r] <= k /\ k <= Reach(r)
      BY <3>2 DEF LagKept, Tracking
    <3>4. PICK t : t = Thd(q, r)
      OBVIOUS
    <3>5. PICK x : x = Reach(r)
      OBVIOUS
    <3>6. t \in 1 .. ActiveThd /\ ActiveThd \in Nat /\ x \in Nat /\ x <= MaxTti - t
      BY <3>4, <3>5, ReachBound
    <3> DEFINE d == IF k < o THEN o - k ELSE k - o
               w == IF d > MaxTti - d THEN MaxTti - d ELSE d
    <3>7. ~(w >= t)
      <4>1. TtiDifference(q.last[r], Back(newest, o)) = w
        BY <1>0, <3>3, Distance
      <4> HIDE DEF w
      <4> QED
        BY <3>1, <3>2, <3>4, <4>1 DEF Expired, Thd
    <3>8. k <= t - 1 + Window
      BY <1>0, <3>3, <3>5, <3>6, <3>7
    <3>9. q'.last[r] = Back(newest, k)
      BY <3>1, <3>3 DEF Same
    <3> QED
      BY <3>2, <3>3, <3>4, <3>8, <3>9
  <2> QED
    BY <2>1, <2>2
<1>5. ASSUME NEW r \in Rntis, q'.cnt[r] > 0
      PROVE  \E lag \in 0 .. MaxTti - 1 :
                q'.last[r] = Back(newest', lag) /\ age'[r] <= lag /\ lag <= Reach(r)'
  BY <1>0, <1>3, <1>4, <1>5
<1> HIDE DEF Reach
<1> QED
  BY <1>5 DEF LagKept, Tracking

(* StaleRemoved: if the numbers leave room for it, no UE that left the     *)
(* cell outlives the wrap-around of the TTIs, in whatever order and with   *)
(* whatever losses the subframes are decoded.                              *)
THEOREM StaleStayRemoved == Slack => (Spec => []StaleRemoved)
<1> SUFFICES ASSUME Slack PROVE Spec => []StaleRemoved
  OBVIOUS
<1>1. Init => TrackerInv /\ LagKept
  <2>1. Init => LagKept
    BY DEF Init, LagKept, Tracking
  <2> QED
    BY <2>1, TrackerStarts
<1>2. TrackerInv /\ LagKept /\ [Next]_vars => (TrackerInv /\ LagKept)'
  <2> SUFFICES ASSUME TrackerInv, LagKept, [Next]_vars PROVE TrackerInv' /\ LagKept'
    OBVIOUS
  <2>1. TrackerInv'
    BY TrackerStep
  <2>2. CASE Receive
    BY <2>1, <2>2, LagReceive
  <2>3. ASSUME NEW o \in pending, NotDecoded(o) PROVE LagKept'
    BY <2>3, LagLost
  <2>4. ASSUME NEW o \in pending, NEW loc \in Locations, Decode(o, loc) PROVE LagKept'
    BY <2>1, <2>4, LagDecode
  <2>5. ASSUME vars' = vars PROVE LagKept'
    <3>1. q' = q /\ newest' = newest /\ pending' = pending /\ lost' = lost /\ age' = age
      BY <2>5 DEF vars
    <3>2. \A r \in Rntis : Reach(r)' = Reach(r)
      BY <3>1 DEF Reach, Thd
    <3> HIDE DEF Reach
    <3> QED
      BY <3>1, <3>2 DEF LagKept, Tracking
  <2> QED
    BY <2>1, <2>2, <2>3, <2>4, <2>5 DEF Next
<1>3. TrackerInv /\ LagKept => StaleRemoved
  BY LagRemoves
<1> QED
  BY <1>1, <1>2, <1>3, PTL DEF Spec
=============================================================================
