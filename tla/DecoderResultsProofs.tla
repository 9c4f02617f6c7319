------------------------ MODULE DecoderResultsProofs ------------------------
(***************************************************************************)
(* Proofs about the path from the decoders to the consumers of their       *)
(* results, and about the cell configuration they save, for buffers of any *)
(* size and any number of decoders and results.                            *)
(***************************************************************************)
EXTENDS DecoderResults, Integers, SequenceTheorems, IndexLemmas, TLAPS

-----------------------------------------------------------------------------
(* The buffers.                                                            *)

\* The slots of a buffer as a circle, without the division.
Fwd(h, n) == IF h + n < MaxDciBuffer THEN h + n ELSE h + n - MaxDciBuffer
Dist(h, s) == IF s >= h THEN s - h ELSE s - h + MaxDciBuffer

\* A buffer is filled from slot 0; only a full one is written all round.
Sound(b) == b \in BufferType /\ (b.nof < MaxDciBuffer => b.header = b.nof)

\* What n entries of q stored one after another make of buffer b.
After(b, q, n) ==
    [data   |-> [s \in Slots |-> IF Dist(b.header, s) < n THEN q[Dist(b.header, s) + 1] ELSE b.data[s]],
     header |-> Fwd(b.header, n),
     nof    |-> IF b.nof + n < MaxDciBuffer THEN b.nof + n ELSE MaxDciBuffer]

(* The header wraps at the end of the array.                               *)
LEMMA HeaderWraps ==
  ASSUME NEW h \in Slots
  PROVE  (h + 1) % MaxDciBuffer = Fwd(h, 1) /\ Fwd(h, 1) \in Slots
<1>1. MaxDciBuffer \in Nat /\ MaxDciBuffer > 0 /\ h \in Nat /\ h < MaxDciBuffer
  BY HandoffAssumption DEF Slots
<1>2. CASE h + 1 < MaxDciBuffer
  BY <1>1, <1>2 DEF Fwd, Slots
<1>3. CASE h + 1 = MaxDciBuffer
  BY <1>1, <1>3 DEF Fwd, Slots
<1> QED
  BY <1>1, <1>2, <1>3

(* The two ways to count on the circle fit.                                *)
LEMMA StepAndDistance ==
  ASSUME NEW h \in Slots, NEW s \in Slots, NEW n \in Nat, n < MaxDciBuffer
  PROVE  /\ Dist(h, s) \in 0 .. MaxDciBuffer - 1
         /\ Fwd(h, n) \in Slots
         /\ Dist(h, s) = n <=> s = Fwd(h, n)
<1>1. /\ MaxDciBuffer \in Nat /\ h \in Nat /\ h < MaxDciBuffer
      /\ s \in Nat /\ s < MaxDciBuffer
  BY HandoffAssumption DEF Slots
<1>2. Dist(h, s) \in 0 .. MaxDciBuffer - 1
  BY <1>1 DEF Dist
<1>3. Fwd(h, n) \in Slots
  BY <1>1 DEF Fwd, Slots
<1>4. Dist(h, s) = n => s = Fwd(h, n)
  BY <1>1 DEF Dist, Fwd
<1>5. s = Fwd(h, n) => Dist(h, s) = n
  BY <1>1 DEF Dist, Fwd
<1> QED
  BY <1>2, <1>3, <1>4, <1>5

(* A function on 0 .. n that is given by its predecessor is unique.        *)
LEMMA Unfolds ==
  ASSUME NEW N \in Nat, NEW b, NEW q,
         NEW f, f[0] = b, \A n \in 1 .. N : f[n] = Push(f[n - 1], q[n]),
         NEW g, g[0] = b, \A n \in 1 .. N : g[n] = Push(g[n - 1], q[n])
  PROVE  f[N] = g[N]
<1> DEFINE D == {n \in 0 .. N : f[n] # g[n]}
<1>1. D = {}
  <2> SUFFICES ASSUME D # {} PROVE FALSE
    OBVIOUS
  <2>1. PICK m \in D : \A n \in D : m <= n
    <3>1. D \in SUBSET (0 .. N) /\ D # {}
      OBVIOUS
    <3> HIDE DEF D
    <3> QED
      BY <3>1, LowestExists
  <2>2. m # 0
    BY <2>1
  <2>3. m - 1 \in 0 .. N /\ m - 1 \notin D
    BY <2>1, <2>2
  <2>4. f[m - 1] = g[m - 1]
    BY <2>3
  <2>5. f[m] = Push(f[m - 1], q[m]) /\ g[m] = Push(g[m - 1], q[m])
    BY <2>1, <2>2
  <2> QED
    BY <2>1, <2>4, <2>5
<1> QED
  BY <1>1

(* Storing one more entry.                                                 *)
LEMMA AfterStep ==
  ASSUME NEW b, b \in BufferType, NEW q \in Seq(Results), Len(q) <= MaxDciBuffer,
         NEW n \in 1 .. Len(q)
  PROVE  After(b, q, n) = Push(After(b, q, n - 1), q[n])
<1> DEFINE a == After(b, q, n - 1)
           h == Fwd(b.header, n - 1)
<1>1. /\ MaxDciBuffer \in Nat /\ MaxDciBuffer > 0 /\ n \in Nat /\ n >= 1 /\ n <= MaxDciBuffer
      /\ b.header \in Nat /\ b.header < MaxDciBuffer /\ b.nof \in Nat /\ b.nof <= MaxDciBuffer
  BY HandoffAssumption DEF BufferType, Slots
<1>2. a.header = h /\ h \in Slots
  BY <1>1 DEF After, Fwd, Slots
<1>3. (h + 1) % MaxDciBuffer = Fwd(b.header, n)
  <2>1. (h + 1) % MaxDciBuffer = Fwd(h, 1)
    BY <1>2, HeaderWraps
  <2>2. Fwd(h, 1) = Fwd(b.header, n)
    BY <1>1 DEF Fwd
  <2> QED
    BY <2>1, <2>2
<1>4. ASSUME NEW s \in Slots
      PROVE  /\ Dist(b.header, s) = n - 1 <=> s = h
             /\ Dist(b.header, s) < n <=> s = h \/ Dist(b.header, s) < n - 1
  <2>1. s \in Nat /\ s < MaxDciBuffer
    BY <1>1 DEF Slots
  <2>2. Dist(b.header, s) \in Nat /\ (Dist(b.header, s) = n - 1 <=> s = h)
    <3>1. n - 1 \in Nat /\ n - 1 < MaxDciBuffer /\ b.header \in Slots
      BY <1>1 DEF Slots
    <3> QED
      BY <3>1, StepAndDistance
  <2> QED
    BY <1>1, <2>2
<1>5. After(b, q, n).data = [a.data EXCEPT ![h] = q[n]]
  <2>1. \A s \in Slots : After(b, q, n).data[s] = [a.data EXCEPT ![h] = q[n]][s]
    <3> SUFFICES ASSUME NEW s \in Slots
                 PROVE  After(b, q, n).data[s] = [a.data EXCEPT ![h] = q[n]][s]
      OBVIOUS
    <3>1. a.data = [t \in Slots |-> IF Dist(b.header, t) < n - 1 THEN q[Dist(b.header, t) + 1]
                                    ELSE b.data[t]]
      BY DEF After
    <3>2. After(b, q, n).data[s] = IF Dist(b.header, s) < n THEN q[Dist(b.header, s) + 1]
                                    ELSE b.data[s]
      BY DEF After
    <3>3. CASE s = h
      <4>1. Dist(b.header, s) = n - 1 /\ Dist(b.header, s) < n /\ Dist(b.header, s) + 1 = n
        BY <1>1, <1>4, <3>3
      <4> QED
        BY <3>1, <3>2, <3>3, <4>1
    <3>4. CASE s # h
      <4>1. Dist(b.header, s) < n <=> Dist(b.header, s) < n - 1
        BY <1>4, <3>4
      <4> QED
        BY <3>1, <3>2, <3>4, <4>1
    <3> QED
      BY <3>3, <3>4
  <2> QED
    BY <2>1 DEF After
<1>6. After(b, q, n).nof = IF a.nof < MaxDciBuffer THEN a.nof + 1 ELSE a.nof
  BY <1>1 DEF After
<1>7. After(b, q, n).header = (a.header + 1) % MaxDciBuffer
  BY <1>2, <1>3 DEF After
<1>8. After(b, q, n) = [data |-> After(b, q, n).data, header |-> After(b, q, n).header,
                        nof |-> After(b, q, n).nof]
  BY DEF After
<1> HIDE DEF a, h
<1> QED
  BY <1>2, <1>5, <1>6, <1>7, <1>8 DEF Push, a

(* Storing nothing.                                                        *)
LEMMA AfterNone ==
  ASSUME NEW b, b \in BufferType, NEW q
  PROVE  After(b, q, 0) = b
<1>1. /\ MaxDciBuffer \in Nat /\ b.header \in Nat /\ b.header < MaxDciBuffer
      /\ b.nof \in Nat /\ b.nof <= MaxDciBuffer
  BY HandoffAssumption DEF BufferType, Slots
<1>2. \A s \in Slots : ~(Dist(b.header, s) < 0)
  BY <1>1 DEF Dist, Slots
<1>3. After(b, q, 0).data = b.data
  BY <1>2 DEF After, BufferType
<1>4. After(b, q, 0).header = b.header /\ After(b, q, 0).nof = b.nof
  BY <1>1 DEF After, Fwd
<1>5. b = [data |-> b.data, header |-> b.header, nof |-> b.nof]
  BY DEF BufferType
<1> QED
  BY <1>3, <1>4, <1>5 DEF After

(* The tracker's loop as one assignment.                                   *)
LEMMA PushAllIsAfter ==
  ASSUME NEW b, b \in BufferType, NEW q \in Seq(Results), Len(q) <= MaxDciBuffer
  PROVE  PushAll(b, q) = After(b, q, Len(q))
<1> DEFINE g == [n \in 0 .. Len(q) |-> After(b, q, n)]
           F(f) == [n \in 0 .. Len(q) |-> IF n = 0 THEN b ELSE Push(f[n - 1], q[n])]
<1>0. Len(q) \in Nat
  OBVIOUS
<1>1. After(b, q, 0) = b
  BY AfterNone
<1>2. g = F(g)
  <2>1. ASSUME NEW n \in 0 .. Len(q) PROVE g[n] = IF n = 0 THEN b ELSE Push(g[n - 1], q[n])
    <3>1. CASE n = 0
      BY <1>0, <1>1, <3>1
    <3>2. CASE n # 0
      <4>1. n \in 1 .. Len(q) /\ n - 1 \in 0 .. Len(q)
        BY <1>0, <3>2
      <4> QED
        BY <3>2, <4>1, AfterStep
    <3> QED
      BY <3>1, <3>2
  <2> QED
    BY <2>1
<1> HIDE DEF g
<1>3. PushAll(b, q) = (CHOOSE f : f = F(f))[Len(q)]
  BY DEF PushAll
<1>4. PICK f : f = F(f) /\ PushAll(b, q) = f[Len(q)]
  BY <1>2, <1>3
<1>5. f[Len(q)] = g[Len(q)]
  <2>1. f[0] = b /\ g[0] = b
    BY <1>0, <1>2, <1>4
  <2>2. ASSUME NEW n \in 1 .. Len(q)
        PROVE  f[n] = Push(f[n - 1], q[n]) /\ g[n] = Push(g[n - 1], q[n])
    <3>1. n \in 0 .. Len(q) /\ n # 0
      BY <1>0
    <3>2. \A v : F(v)[n] = Push(v[n - 1], q[n])
      BY <3>1
    <3> HIDE DEF F
    <3> QED
      BY <1>2, <1>4, <3>2
  <2> QED
    BY <1>0, <2>1, <2>2, Unfolds
<1> QED
  BY <1>0, <1>4, <1>5 DEF g

(* A single entry stored is the loop on a sequence of one.                 *)
LEMMA PushIsAfter ==
  ASSUME NEW b, b \in BufferType, NEW x \in Results
  PROVE  Push(b, x) = After(b, <<x>>, 1)
<1> DEFINE q == <<x>>
<1>1. q \in Seq(Results) /\ Len(q) = 1 /\ q[1] = x /\ 1 <= MaxDciBuffer
  BY HandoffAssumption
<1>2. After(b, q, 0) = b
  BY <1>1, AfterNone
<1>3. After(b, q, 1) = Push(After(b, q, 1 - 1), q[1])
  <2>1. 1 \in 1 .. Len(q) /\ Len(q) <= MaxDciBuffer
    BY <1>1
  <2> HIDE DEF q
  <2> QED
    BY <1>1, <2>1, AfterStep
<1> QED
  BY <1>1, <1>2, <1>3

-----------------------------------------------------------------------------
(* The invariant.                                                          *)

\* A buffer all of whose counted entries were stored since it was emptied.
Filled(b) == Sound(b) /\ \A s \in 0 .. b.nof - 1 : b.data[s] \in Results

\* How many entries were stored after the one in slot s, if h is next.
Age(h, s) == IF s < h THEN h - 1 - s ELSE h - 1 - s + MaxDciBuffer

(* dci_buffer holds the newest results, and where each of them is follows  *)
(* from its age.                                                           *)
Newest ==
    /\ dci.nof <= produced
    /\ \A s \in 0 .. dci.nof - 1 : dci.data[s] = produced - Age(dci.header, s)

\* The results that have left dci_buffer, one way or the other.
Settled == produced - dci.nof

(* What a consumer took, what its buffer holds and what the tracker still  *)
(* has for it are different results, and none of them is in dci_buffer.    *)
Apart(got, held, coming, settled) ==
    /\ IsInjective(got) /\ IsInjective(held) /\ IsInjective(coming)
    /\ \A i \in DOMAIN got : got[i] <= settled
    /\ \A i \in DOMAIN held : held[i] <= settled
    /\ \A i \in DOMAIN coming : coming[i] <= settled
    /\ \A i \in DOMAIN got, j \in DOMAIN held : got[i] # held[j]
    /\ \A i \in DOMAIN got, j \in DOMAIN coming : got[i] # coming[j]
    /\ \A i \in DOMAIN held, j \in DOMAIN coming : held[i] # coming[j]

HandoffInv ==
    /\ TypeOK
    /\ Filled(dci) /\ Filled(cell) /\ Filled(log)
    /\ tpc = "drain" => queue = << >>
    /\ Newest
    /\ Apart(cellGot, Contents(cell), ForCell, Settled)
    /\ Apart(logGot, Contents(log), queue, Settled)
    /\ ConsumersGetAll

(* Storing an entry makes all the others one older.                        *)
LEMMA AgeStep ==
  ASSUME NEW h \in Slots, NEW s \in Slots
  PROVE  /\ Age(h, s) \in Int /\ Age(Fwd(h, 1), h) = 0
         /\ s # h => Age(Fwd(h, 1), s) = Age(h, s) + 1
<1>1. /\ MaxDciBuffer \in Nat /\ h \in Nat /\ h < MaxDciBuffer
      /\ s \in Nat /\ s < MaxDciBuffer
  BY HandoffAssumption DEF Slots
<1> QED
  BY <1>1 DEF Age, Fwd

-----------------------------------------------------------------------------
(* What the operations do to the contents of a buffer.                     *)

(* The numbers in a buffer.                                                *)
LEMMA BufferNumbers ==
  ASSUME NEW b, b \in BufferType
  PROVE  /\ MaxDciBuffer \in Nat /\ MaxDciBuffer > 0
         /\ b.header \in Slots /\ b.header \in Nat /\ b.header < MaxDciBuffer
         /\ b.nof \in Nat /\ b.nof <= MaxDciBuffer
         /\ b.data \in [Slots -> 0 .. NofDci]
  BY HandoffAssumption DEF BufferType, Slots

(* A reader takes a sequence of results.                                   *)
LEMMA ContentsType ==
  ASSUME NEW b, Filled(b)
  PROVE  /\ Contents(b) \in Seq(Results) /\ Len(Contents(b)) = b.nof
         /\ DOMAIN Contents(b) = 1 .. b.nof
         /\ \A k \in 1 .. b.nof : k - 1 \in 0 .. b.nof - 1 /\ Contents(b)[k] = b.data[k - 1]
<1>1. b.nof \in Nat
  BY BufferNumbers DEF Filled, Sound
<1>2. \A k \in 1 .. b.nof : k - 1 \in 0 .. b.nof - 1 /\ Contents(b)[k] = b.data[k - 1]
  BY <1>1 DEF Contents
<1>3. Contents(b) \in [1 .. b.nof -> Results]
  BY <1>1, <1>2 DEF Contents, Filled
<1> QED
  BY <1>1, <1>2, <1>3

(* An emptied buffer.                                                      *)
LEMMA ClearedFilled ==
  ASSUME NEW b, Filled(b)
  PROVE  Filled(Cleared(b)) /\ Contents(Cleared(b)) = << >> /\ Cleared(b).nof = 0
<1>1. /\ MaxDciBuffer \in Nat /\ MaxDciBuffer > 0 /\ NofDci \in Nat
      /\ b.data \in [Slots -> 0 .. NofDci]
  BY BufferNumbers, HandoffAssumption DEF Filled, Sound
<1>2. /\ Cleared(b).data \in [Slots -> 0 .. NofDci]
      /\ Cleared(b).header = 0 /\ Cleared(b).nof = 0
  BY <1>1 DEF Cleared
<1>3. Cleared(b) \in BufferType
  BY <1>1, <1>2 DEF Cleared, BufferType, Slots
<1>4. Contents(Cleared(b)) = << >>
  BY <1>2 DEF Contents
<1> QED
  BY <1>2, <1>3, <1>4 DEF Filled, Sound

(* Each counted entry after storing q comes from q, or was there before and*)
(* not overwritten.                                                        *)
LEMMA AfterEntries ==
  ASSUME NEW b, Filled(b), NEW q \in Seq(Results), Len(q) <= MaxDciBuffer,
         NEW s \in 0 .. After(b, q, Len(q)).nof - 1
  PROVE  /\ s \in Slots /\ Dist(b.header, s) \in Nat
         /\ Dist(b.header, s) < Len(q) =>
                /\ Dist(b.header, s) + 1 \in 1 .. Len(q)
                /\ After(b, q, Len(q)).data[s] = q[Dist(b.header, s) + 1]
         /\ ~(Dist(b.header, s) < Len(q)) =>
                s \in 0 .. b.nof - 1 /\ After(b, q, Len(q)).data[s] = b.data[s]
<1> DEFINE a == After(b, q, Len(q))
<1>1. /\ MaxDciBuffer \in Nat /\ MaxDciBuffer > 0
      /\ b.header \in Slots /\ b.header \in Nat /\ b.header < MaxDciBuffer
      /\ b.nof \in Nat /\ b.nof <= MaxDciBuffer
      /\ b.nof < MaxDciBuffer => b.header = b.nof
  BY BufferNumbers DEF Filled, Sound
<1>2. Len(q) \in Nat
  OBVIOUS
<1>3. a.nof = IF b.nof + Len(q) < MaxDciBuffer THEN b.nof + Len(q) ELSE MaxDciBuffer
  BY DEF After
<1>4. s \in Slots /\ s \in Nat /\ s < MaxDciBuffer /\ s < a.nof
  BY <1>1, <1>2, <1>3 DEF Slots
<1>5. Dist(b.header, s) \in Nat
  BY <1>1, <1>4 DEF Dist
<1>6. a.data[s] = IF Dist(b.header, s) < Len(q) THEN q[Dist(b.header, s) + 1] ELSE b.data[s]
  BY <1>4 DEF After
<1>7. ~(Dist(b.header, s) < Len(q)) => s < b.nof
  <2> HIDE DEF a
  <2> QED
    BY <1>1, <1>2, <1>3, <1>4 DEF Dist
<1> HIDE DEF a
<1> QED
  BY <1>1, <1>2, <1>4, <1>5, <1>6, <1>7 DEF a

(* Storing q keeps a buffer sound.                                         *)
LEMMA AfterFilled ==
  ASSUME NEW b, Filled(b), NEW q \in Seq(Results), Len(q) <= MaxDciBuffer
  PROVE  Filled(After(b, q, Len(q)))
<1> DEFINE a == After(b, q, Len(q))
<1>1. /\ MaxDciBuffer \in Nat /\ MaxDciBuffer > 0 /\ NofDci \in Nat
      /\ b.header \in Slots /\ b.header \in Nat /\ b.header < MaxDciBuffer
      /\ b.nof \in Nat /\ b.nof <= MaxDciBuffer
      /\ b.nof < MaxDciBuffer => b.header = b.nof
      /\ b.data \in [Slots -> 0 .. NofDci]
  BY BufferNumbers, HandoffAssumption DEF Filled, Sound
<1>2. Len(q) \in Nat
  OBVIOUS
<1>3. /\ a.nof = IF b.nof + Len(q) < MaxDciBuffer THEN b.nof + Len(q) ELSE MaxDciBuffer
      /\ a.header = Fwd(b.header, Len(q))
  BY DEF After
<1>4. a.nof \in 0 .. MaxDciBuffer /\ a.header \in Slots /\ (a.nof < MaxDciBuffer => a.header = a.nof)
  <2> HIDE DEF a
  <2> QED
    BY <1>1, <1>2, <1>3 DEF Fwd, Slots
<1>5. \A s \in Slots : (IF Dist(b.header, s) < Len(q) THEN q[Dist(b.header, s) + 1] ELSE b.data[s])
                          \in 0 .. NofDci
  <2> SUFFICES ASSUME NEW s \in Slots
               PROVE  (IF Dist(b.header, s) < Len(q) THEN q[Dist(b.header, s) + 1] ELSE b.data[s])
                          \in 0 .. NofDci
    OBVIOUS
  <2>1. Dist(b.header, s) \in Nat
    BY <1>1 DEF Dist, Slots
  <2>2. Dist(b.header, s) < Len(q) => q[Dist(b.header, s) + 1] \in Results
    BY <1>2, <2>1
  <2> QED
    BY <1>1, <2>2 DEF Results
<1>6. a.data \in [Slots -> 0 .. NofDci]
  BY <1>5 DEF After
<1>7. a = [data |-> a.data, header |-> a.header, nof |-> a.nof]
  BY DEF After
<1>8. ASSUME NEW s \in 0 .. a.nof - 1 PROVE a.data[s] \in Results
  <2>1. CASE Dist(b.header, s) < Len(q)
    <3>1. /\ Dist(b.header, s) + 1 \in 1 .. Len(q)
          /\ a.data[s] = q[Dist(b.header, s) + 1]
      BY <2>1, AfterEntries
    <3> HIDE DEF a
    <3> QED
      BY <1>2, <3>1
  <2>2. CASE ~(Dist(b.header, s) < Len(q))
    <3>1. s \in 0 .. b.nof - 1 /\ a.data[s] = b.data[s]
      BY <2>2, AfterEntries
    <3> HIDE DEF a
    <3> QED
      BY <3>1 DEF Filled
  <2> QED
    BY <2>1, <2>2
<1> HIDE DEF a
<1>9. a \in BufferType
  BY <1>4, <1>6, <1>7 DEF BufferType
<1> QED
  BY <1>4, <1>8, <1>9 DEF Filled, Sound, a

(* Where it fits, q is appended to what a reader will take.                *)
LEMMA AfterContents ==
  ASSUME NEW b, Filled(b), NEW q \in Seq(Results), Len(q) <= MaxDciBuffer,
         ~Overflows(b, Len(q))
  PROVE  Contents(After(b, q, Len(q))) = Contents(b) \o q
<1> DEFINE a == After(b, q, Len(q))
           c == Contents(b) \o q
<1>1. /\ MaxDciBuffer \in Nat /\ MaxDciBuffer > 0
      /\ b.header \in Slots /\ b.header \in Nat /\ b.header < MaxDciBuffer
      /\ b.nof \in Nat /\ b.nof <= MaxDciBuffer
      /\ b.nof < MaxDciBuffer => b.header = b.nof
      /\ Len(q) \in Nat /\ b.nof + Len(q) <= MaxDciBuffer
  BY BufferNumbers DEF Filled, Sound, Overflows
<1>2. a.nof = b.nof + Len(q)
  BY <1>1 DEF After
<1>3. /\ Contents(b) \in Seq(Results) /\ Len(Contents(b)) = b.nof
      /\ \A k \in 1 .. b.nof : Contents(b)[k] = b.data[k - 1]
  BY ContentsType
<1>4. Filled(a)
  BY AfterFilled
<1>5. /\ Contents(a) \in Seq(Results) /\ Len(Contents(a)) = a.nof
      /\ \A k \in 1 .. a.nof : Contents(a)[k] = a.data[k - 1]
  <2> HIDE DEF a
  <2> QED
    BY <1>4, ContentsType
<1>6. /\ c \in Seq(Results) /\ Len(c) = b.nof + Len(q)
      /\ \A k \in 1 .. Len(c) : c[k] = IF k <= b.nof THEN Contents(b)[k] ELSE q[k - b.nof]
  <2>1. PICK d \in Seq(Results) : d = Contents(b)
    BY <1>3
  <2>2. /\ d \o q \in Seq(Results) /\ Len(d \o q) = Len(d) + Len(q)
        /\ \A k \in 1 .. Len(d) + Len(q) : (d \o q)[k] = IF k <= Len(d) THEN d[k] ELSE q[k - Len(d)]
    BY ConcatProperties
  <2> QED
    BY <1>3, <2>1, <2>2
<1>7. ASSUME NEW k \in 1 .. Len(c) PROVE Contents(a)[k] = c[k]
  <2>0. k \in Nat /\ k >= 1 /\ k <= b.nof + Len(q) /\ k \in 1 .. a.nof /\ k - 1 \in 0 .. a.nof - 1
    BY <1>1, <1>2, <1>6
  <2>1. Contents(a)[k] = a.data[k - 1]
    BY <1>5, <2>0
  <2>2. CASE k <= b.nof
    <3>1. ~(Dist(b.header, k - 1) < Len(q))
      BY <1>1, <2>0, <2>2 DEF Dist
    <3>2. a.data[k - 1] = b.data[k - 1]
      BY <2>0, <3>1, AfterEntries
    <3>3. k \in 1 .. b.nof
      BY <1>1, <2>0, <2>2
    <3> HIDE DEF a, c
    <3> QED
      BY <1>3, <1>6, <2>1, <2>2, <3>2, <3>3
  <2>3. CASE ~(k <= b.nof)
    <3>1. b.header = b.nof /\ Dist(b.header, k - 1) = k - 1 - b.nof
      BY <1>1, <2>0, <2>3 DEF Dist
    <3>2. Dist(b.header, k - 1) < Len(q) /\ Dist(b.header, k - 1) + 1 = k - b.nof
      BY <1>1, <2>0, <3>1
    <3>3. a.data[k - 1] = q[k - b.nof]
      BY <2>0, <3>2, AfterEntries
    <3> HIDE DEF a, c
    <3> QED
      BY <1>6, <2>1, <2>3, <3>3
  <2> QED
    BY <2>2, <2>3
<1>8. Len(Contents(a)) = Len(c)
  BY <1>2, <1>5, <1>6
<1>9. Contents(a) = c
  <2> HIDE DEF a, c
  <2> QED
    BY <1>5, <1>6, <1>7, <1>8, SeqEqual
<1> QED
  BY <1>9

-----------------------------------------------------------------------------
(* Different results stay different on their way.                          *)

(* A consumer takes all that its buffer holds.                             *)
LEMMA ApartTake ==
  ASSUME NEW got \in Seq(Results), NEW held \in Seq(Results), NEW coming \in Seq(Results),
         NEW settled \in Int, Apart(got, held, coming, settled)
  PROVE  Apart(got \o held, << >>, coming, settled)
<1> DEFINE all == got \o held
<1>1. /\ all \in Seq(Results) /\ DOMAIN all = 1 .. Len(got) + Len(held)
      /\ \A i \in 1 .. Len(got) + Len(held) :
             all[i] = IF i <= Len(got) THEN got[i] ELSE held[i - Len(got)]
  BY ConcatProperties
<1> HIDE DEF all
<1>2. /\ Len(got) \in Nat /\ DOMAIN got = 1 .. Len(got)
      /\ Len(held) \in Nat /\ DOMAIN held = 1 .. Len(held)
  OBVIOUS
<1>3. ASSUME NEW i \in DOMAIN all
      PROVE  \/ i \in DOMAIN got /\ all[i] = got[i]
             \/ i - Len(got) \in DOMAIN held /\ all[i] = held[i - Len(got)]
  BY <1>1, <1>2
<1>4. IsInjective(all)
  <2> SUFFICES ASSUME NEW i \in DOMAIN all, NEW j \in DOMAIN all, all[i] = all[j]
               PROVE  i = j
    BY DEF IsInjective
  <2>1. i \in Int /\ j \in Int
    BY <1>1, <1>2
  <2>2. CASE i \in DOMAIN got /\ all[i] = got[i] /\ j \in DOMAIN got /\ all[j] = got[j]
    BY <2>2 DEF Apart, IsInjective
  <2>3. CASE i - Len(got) \in DOMAIN held /\ all[i] = held[i - Len(got)] /\ j - Len(got) \in DOMAIN held /\ all[j] = held[j - Len(got)]
    <3>1. i - Len(got) = j - Len(got)
      BY <2>3 DEF Apart, IsInjective
    <3> QED
      BY <1>2, <2>1, <3>1
  <2> QED
    BY <1>3, <2>2, <2>3 DEF Apart
<1>5. IsInjective(<< >>)
  BY DEF IsInjective
<1>6. \A i \in DOMAIN all : all[i] <= settled /\ \A j \in DOMAIN coming : all[i] # coming[j]
  BY <1>3 DEF Apart
<1>7. Apart(all, << >>, coming, settled)
  BY <1>4, <1>5, <1>6 DEF Apart
<1> QED
  BY <1>7 DEF all

(* The tracker stores its whole batch for a consumer, even if that         *)
(* overwrites entries.                                                     *)
LEMMA ApartPass ==
  ASSUME NEW got \in Seq(Results), NEW b, Filled(b), NEW q \in Seq(Results),
         Len(q) <= MaxDciBuffer, NEW settled \in Int,
         Apart(got, Contents(b), q, settled)
  PROVE  Apart(got, Contents(After(b, q, Len(q))), << >>, settled)
<1> DEFINE a == After(b, q, Len(q))
           c == Contents(a)
<1>1. /\ DOMAIN c = 1 .. a.nof /\ a.nof \in Nat
      /\ \A k \in 1 .. a.nof : k - 1 \in 0 .. a.nof - 1 /\ c[k] = a.data[k - 1]
  <2>1. Filled(a)
    BY AfterFilled
  <2> HIDE DEF a
  <2> QED
    BY <2>1, ContentsType, BufferNumbers DEF Filled, Sound
<1>2. /\ DOMAIN Contents(b) = 1 .. b.nof /\ b.nof \in Nat
      /\ \A k \in 1 .. b.nof : Contents(b)[k] = b.data[k - 1]
  BY ContentsType, BufferNumbers DEF Filled, Sound
<1>3. /\ Len(q) \in Nat /\ DOMAIN q = 1 .. Len(q)
      /\ MaxDciBuffer \in Nat /\ b.header \in Nat /\ b.header < MaxDciBuffer
  BY BufferNumbers DEF Filled, Sound
\* Where each entry comes from: the batch or the buffer before.
<1>4. ASSUME NEW k \in DOMAIN c
      PROVE  /\ k \in Nat /\ k - 1 \in 0 .. MaxDciBuffer - 1 /\ Dist(b.header, k - 1) \in Nat
             /\ \/ /\ Dist(b.header, k - 1) + 1 \in DOMAIN q
                   /\ c[k] = q[Dist(b.header, k - 1) + 1]
                \/ k \in DOMAIN Contents(b) /\ c[k] = Contents(b)[k]
  <2>1. k \in Nat /\ k - 1 \in 0 .. a.nof - 1 /\ c[k] = a.data[k - 1]
    BY <1>1
  <2>2. /\ k - 1 \in Slots /\ Dist(b.header, k - 1) \in Nat
        /\ Dist(b.header, k - 1) < Len(q) =>
                /\ Dist(b.header, k - 1) + 1 \in 1 .. Len(q)
                /\ a.data[k - 1] = q[Dist(b.header, k - 1) + 1]
        /\ ~(Dist(b.header, k - 1) < Len(q)) =>
                k - 1 \in 0 .. b.nof - 1 /\ a.data[k - 1] = b.data[k - 1]
    BY <2>1, AfterEntries
  <2> HIDE DEF a, c
  <2>3. k - 1 \in 0 .. b.nof - 1 => k \in 1 .. b.nof
    BY <1>2, <2>1
  <2> QED
    BY <1>2, <1>3, <2>1, <2>2, <2>3 DEF Slots
<1> HIDE DEF a, c
<1>5. \A i, j \in Nat : i - 1 \in 0 .. MaxDciBuffer - 1 /\ j - 1 \in 0 .. MaxDciBuffer - 1
                          /\ Dist(b.header, i - 1) + 1 = Dist(b.header, j - 1) + 1 => i = j
  BY <1>3 DEF Dist
<1>6. IsInjective(c)
  <2> SUFFICES ASSUME NEW i \in DOMAIN c, NEW j \in DOMAIN c, c[i] = c[j]
               PROVE  i = j
    BY DEF IsInjective
  <2> DEFINE FromQ(k) == /\ Dist(b.header, k - 1) + 1 \in DOMAIN q
                         /\ c[k] = q[Dist(b.header, k - 1) + 1]
             FromB(k) == k \in DOMAIN Contents(b) /\ c[k] = Contents(b)[k]
  <2>1. CASE FromQ(i) /\ FromQ(j)
    <3>1. Dist(b.header, i - 1) + 1 = Dist(b.header, j - 1) + 1
      BY <2>1 DEF Apart, IsInjective
    <3> QED
      BY <1>4, <1>5, <3>1
  <2>2. CASE FromB(i) /\ FromB(j)
    BY <2>2 DEF Apart, IsInjective
  <2>3. CASE FromQ(i) /\ FromB(j)
    BY <2>3 DEF Apart
  <2>4. CASE FromB(i) /\ FromQ(j)
    BY <2>4 DEF Apart
  <2> QED
    BY <1>4, <2>1, <2>2, <2>3, <2>4
<1>7. IsInjective(<< >>)
  BY DEF IsInjective
<1>8. \A k \in DOMAIN c : c[k] <= settled /\ \A i \in DOMAIN got : got[i] # c[k]
  BY <1>4 DEF Apart
<1>9. Apart(got, c, << >>, settled)
  BY <1>6, <1>7, <1>8 DEF Apart
<1> QED
  BY <1>9 DEF a, c

(* The tracker takes the contents of dci_buffer, which are all newer.      *)
LEMMA ApartDrain ==
  ASSUME NEW got \in Seq(Results), NEW held \in Seq(Results), NEW new \in Seq(Results),
         NEW settled \in Int, NEW later \in Int,
         Apart(got, held, << >>, settled), IsInjective(new),
         \A k \in DOMAIN new : settled < new[k] /\ new[k] <= later, settled <= later
  PROVE  Apart(got, held, new, later)
<1>1. /\ \A i \in DOMAIN got : got[i] \in Int
      /\ \A i \in DOMAIN held : held[i] \in Int
      /\ \A i \in DOMAIN new : new[i] \in Int
  BY HandoffAssumption DEF Results
<1>2. \A i \in DOMAIN got : got[i] <= later /\ \A k \in DOMAIN new : got[i] # new[k]
  BY <1>1 DEF Apart
<1>3. \A i \in DOMAIN held : held[i] <= later /\ \A k \in DOMAIN new : held[i] # new[k]
  BY <1>1 DEF Apart
<1> QED
  BY <1>2, <1>3 DEF Apart

(* A result overwritten in dci_buffer settles, too.                        *)
LEMMA ApartLater ==
  ASSUME NEW got \in Seq(Results), NEW held \in Seq(Results), NEW coming \in Seq(Results),
         NEW settled \in Int, NEW later \in Int, settled <= later,
         Apart(got, held, coming, settled)
  PROVE  Apart(got, held, coming, later)
<1>1. /\ \A i \in DOMAIN got : got[i] \in Int
      /\ \A i \in DOMAIN held : held[i] \in Int
      /\ \A i \in DOMAIN coming : coming[i] \in Int
  BY HandoffAssumption DEF Results
<1> QED
  BY <1>1 DEF Apart

-----------------------------------------------------------------------------
(* The order of the results: what each step moves from one sequence to the *)
(* next leaves the whole of them as it was.                                *)

(* A taken buffer joins what was taken.                                    *)
LEMMA OrderTake ==
  ASSUME NEW g \in Seq(Results), NEW c \in Seq(Results), NEW q \in Seq(Results), NEW d \in Seq(Results)
  PROVE  (g \o c) \o << >> \o q \o d = g \o c \o q \o d
<1>1. g \o c \in Seq(Results)
  BY ConcatProperties
<1>2. (g \o c) \o << >> = g \o c
  BY <1>1, ConcatEmptySeq
<1> QED
  BY <1>2

(* The tracker's batch joins a buffer.                                     *)
LEMMA OrderPass ==
  ASSUME NEW g \in Seq(Results), NEW c \in Seq(Results), NEW q \in Seq(Results), NEW d \in Seq(Results)
  PROVE  g \o (c \o q) \o << >> \o d = g \o c \o q \o d
<1>1. g \o c \o q \in Seq(Results)
  BY ConcatProperties
<1>2. (g \o c \o q) \o << >> = g \o c \o q
  BY <1>1, ConcatEmptySeq
<1>3. g \o (c \o q) = (g \o c) \o q
  BY ConcatAssociative
<1> QED
  BY <1>2, <1>3

(* The contents of dci_buffer become the batch.                            *)
LEMMA OrderDrain ==
  ASSUME NEW g \in Seq(Results), NEW c \in Seq(Results), NEW d \in Seq(Results)
  PROVE  g \o c \o d \o << >> = g \o c \o << >> \o d
<1>1. g \o c \in Seq(Results) /\ g \o c \o d \in Seq(Results)
  BY ConcatProperties
<1>2. g \o c \o d \o << >> = g \o c \o d /\ (g \o c) \o << >> = g \o c
  BY <1>1, ConcatEmptySeq
<1> QED
  BY <1>2

(* Concatenation of results is associative.                                *)
LEMMA Regroup ==
  \A g, c, q \in Seq(Results) : g \o (c \o q) = (g \o c) \o q
  BY ConcatAssociative

(* A new result comes last.                                                *)
LEMMA OrderStore ==
  ASSUME NEW z \in Seq(Results), NEW d \in Seq(Results),
         NEW n \in Nat, n + 1 \in Results, z \o d = Upto(n)
  PROVE  z \o (d \o <<n + 1>>) = Upto(n + 1)
<1> DEFINE x == <<n + 1>>
           u == Upto(n)
           v == Upto(n + 1)
           w == u \o x
<1>1. x \in Seq(Results) /\ Len(x) = 1 /\ x[1] = n + 1
  OBVIOUS
<1>2. z \o d \in Seq(Results)
  <2> HIDE DEF x
  <2> QED
    BY <1>1, ConcatProperties
<1>3. u \in Seq(Results) /\ Len(u) = n /\ (\A k \in 1 .. n : u[k] = k)
  BY <1>2 DEF Upto
<1>4. w \in Seq(Results) /\ Len(w) = n + 1
      /\ \A k \in 1 .. n + 1 : w[k] = IF k <= n THEN u[k] ELSE x[k - n]
  <2>1. PICK y \in Seq(Results) : y = x
    BY <1>1
  <2>2. PICK r \in Seq(Results) : r = u
    BY <1>3
  <2>3. /\ r \o y \in Seq(Results) /\ Len(r \o y) = Len(r) + Len(y)
        /\ \A k \in 1 .. Len(r) + Len(y) : (r \o y)[k] = IF k <= Len(r) THEN r[k] ELSE y[k - Len(r)]
    BY ConcatProperties
  <2> HIDE DEF u, x
  <2> QED
    BY <1>1, <1>3, <2>1, <2>2, <2>3
<1>5. v \in Seq(Results) /\ Len(v) = n + 1 /\ \A k \in 1 .. n + 1 : v[k] = k
  <2>1. 1 .. n + 1 \subseteq Results
    BY HandoffAssumption DEF Results
  <2> QED
    BY <2>1 DEF Upto
<1>6. ASSUME NEW k \in 1 .. n + 1 PROVE w[k] = v[k]
  <2>1. CASE k <= n
    <3> HIDE DEF u, v, w, x
    <3> QED
      BY <1>3, <1>4, <1>5, <2>1
  <2>2. CASE ~(k <= n)
    <3>1. k = n + 1 /\ k - n = 1
      BY <2>2
    <3> HIDE DEF u, v, w, x
    <3> QED
      BY <1>1, <1>4, <1>5, <2>2, <3>1
  <2> QED
    BY <2>1, <2>2
<1>7. w = v
  <2> HIDE DEF u, v, w, x
  <2> QED
    BY <1>4, <1>5, <1>6, SeqEqual
<1>8. z \o (d \o x) = (z \o d) \o x
  <2>1. PICK y \in Seq(Results) : y = x
    BY <1>1
  <2>2. (z \o d) \o y = z \o (d \o y)
    <3>1. z \in Seq(Results) /\ d \in Seq(Results) /\ y \in Seq(Results)
      OBVIOUS
    <3> QED
      BY <3>1, Regroup
  <2> QED
    BY <2>1, <2>2
<1> QED
  BY <1>7, <1>8

-----------------------------------------------------------------------------
(* The invariant, action by action.                                        *)

(* What the invariant says of the sequences a step moves.                  *)
LEMMA Sequences ==
  HandoffInv =>
      /\ cellGot \in Seq(Results) /\ logGot \in Seq(Results)
      /\ queue \in Seq(Results) /\ ForCell \in Seq(Results)
      /\ Contents(dci) \in Seq(Results) /\ Contents(cell) \in Seq(Results)
      /\ Contents(log) \in Seq(Results)
      /\ produced \in Nat /\ dci.nof \in Nat /\ Settled \in Int /\ Settled <= produced
      /\ cell.nof \in Nat /\ log.nof \in Nat /\ Len(queue) \in Nat
<1> SUFFICES ASSUME HandoffInv
             PROVE  /\ cellGot \in Seq(Results) /\ logGot \in Seq(Results)
                    /\ queue \in Seq(Results) /\ ForCell \in Seq(Results)
                    /\ Contents(dci) \in Seq(Results) /\ Contents(cell) \in Seq(Results)
                    /\ Contents(log) \in Seq(Results)
                    /\ produced \in Nat /\ dci.nof \in Nat /\ Settled \in Int /\ Settled <= produced
                    /\ cell.nof \in Nat /\ log.nof \in Nat /\ Len(queue) \in Nat
  OBVIOUS
<1>1. /\ cellGot \in Seq(Results) /\ logGot \in Seq(Results) /\ queue \in Seq(Results)
      /\ produced \in Nat
  BY HandoffAssumption DEF HandoffInv, TypeOK
<1>2. /\ Contents(dci) \in Seq(Results) /\ Contents(cell) \in Seq(Results)
      /\ Contents(log) \in Seq(Results)
  BY ContentsType DEF HandoffInv
<1>3. dci.nof \in Nat /\ cell.nof \in Nat /\ log.nof \in Nat
  BY BufferNumbers DEF HandoffInv, Filled, Sound
<1>4. ForCell \in Seq(Results)
  BY <1>1 DEF ForCell
<1> QED
  BY <1>1, <1>2, <1>3, <1>4 DEF Settled

(* Empty buffers satisfy the invariant.                                    *)
LEMMA HandoffInit ==
  Init => HandoffInv
<1> SUFFICES ASSUME Init PROVE HandoffInv
  OBVIOUS
<1>1. /\ produced = 0 /\ dci = EmptyBuffer /\ cell = EmptyBuffer /\ log = EmptyBuffer
      /\ tpc = "drain" /\ queue = << >> /\ cellGot = << >> /\ logGot = << >> /\ full = {}
  BY DEF Init
<1>2. Filled(EmptyBuffer) /\ EmptyBuffer \in BufferType /\ EmptyBuffer.nof = 0
  BY HandoffAssumption DEF Filled, Sound, BufferType, EmptyBuffer, Slots
<1>3. Contents(EmptyBuffer) = << >>
  BY <1>2 DEF Contents
<1>4. TypeOK
  BY <1>1, <1>2, HandoffAssumption DEF TypeOK
<1>5. Newest
  BY <1>1, <1>2 DEF Newest
<1>6. IsInjective(<< >>)
  BY DEF IsInjective
<1>7. Apart(<< >>, << >>, << >>, Settled)
  BY <1>6 DEF Apart
<1>8. << >> \o << >> \o << >> \o << >> = << >>
  <2>1. << >> \in Seq(Results)
    OBVIOUS
  <2> QED
    BY <2>1, ConcatEmptySeq
<1>9. ConsumersGetAll
  <2>1. Upto(0) = << >>
    BY DEF Upto
  <2> QED
    BY <1>1, <1>3, <1>8, <2>1 DEF ConsumersGetAll, ForCell
<1> QED
  BY <1>1, <1>2, <1>3, <1>4, <1>5, <1>7, <1>9 DEF HandoffInv, ForCell

(* A decoder stores a result.                                              *)
LEMMA StoreKeeps ==
  HandoffInv /\ DecoderStore => HandoffInv'
<1> SUFFICES ASSUME HandoffInv, DecoderStore PROVE HandoffInv'
  OBVIOUS
<1>s. /\ cellGot \in Seq(Results) /\ logGot \in Seq(Results)
      /\ queue \in Seq(Results) /\ ForCell \in Seq(Results)
      /\ Contents(dci) \in Seq(Results) /\ Contents(cell) \in Seq(Results)
      /\ Contents(log) \in Seq(Results)
      /\ produced \in Nat /\ dci.nof \in Nat /\ Settled \in Int /\ Settled <= produced
  BY Sequences
<1>i. /\ TypeOK /\ Filled(dci) /\ Filled(cell) /\ Filled(log) /\ Newest /\ ConsumersGetAll
      /\ Apart(cellGot, Contents(cell), ForCell, Settled)
      /\ Apart(logGot, Contents(log), queue, Settled)
      /\ tpc = "drain" => queue = << >>
  BY DEF HandoffInv
<1>a. /\ produced < NofDci /\ produced' = produced + 1 /\ dci' = Push(dci, produced + 1)
      /\ full' = IF Overflows(dci, 1) THEN full \cup {"dci"} ELSE full
      /\ UNCHANGED <<cell, log, tpc, queue, cellGot, logGot>>
  BY DEF DecoderStore
<1>n. /\ MaxDciBuffer \in Nat /\ MaxDciBuffer > 0 /\ NofDci \in Nat
      /\ dci.header \in Slots /\ dci.header \in Nat /\ dci.header < MaxDciBuffer
      /\ dci.nof \in Nat /\ dci.nof <= MaxDciBuffer
      /\ dci.nof < MaxDciBuffer => dci.header = dci.nof
      /\ dci \in BufferType /\ dci.data \in [Slots -> 0 .. NofDci]
  BY <1>i, BufferNumbers, HandoffAssumption DEF Filled, Sound
<1>1. produced + 1 \in Results
  BY <1>a, <1>n, <1>s DEF Results
<1>2. PICK q \in Seq(Results) : q = <<produced + 1>> /\ Len(q) = 1
  <2>1. <<produced + 1>> \in Seq(Results) /\ Len(<<produced + 1>>) = 1
    BY <1>1
  <2> QED
    BY <2>1
<1>3. dci' = After(dci, q, Len(q)) /\ Len(q) <= MaxDciBuffer
  BY <1>1, <1>2, <1>a, <1>n, PushIsAfter
<1>4. Filled(dci')
  BY <1>2, <1>3, <1>i, AfterFilled
<1>5. /\ dci'.header = Fwd(dci.header, 1)
      /\ dci'.nof = IF dci.nof < MaxDciBuffer THEN dci.nof + 1 ELSE dci.nof
      /\ dci'.data = [dci.data EXCEPT ![dci.header] = produced + 1]
  BY <1>a, <1>n, HeaderWraps DEF Push
<1>6. TypeOK'
  <2>1. dci' \in BufferType
    BY <1>4 DEF Filled, Sound
  <2>2. full' \subseteq {"dci", "cell", "log"}
    BY <1>a, <1>i DEF TypeOK
  <2>3. produced' \in 0 .. NofDci
    BY <1>a, <1>n, <1>s
  <2> QED
    BY <1>a, <1>i, <2>1, <2>2, <2>3 DEF TypeOK
<1>7. Newest'
  <2>1. dci'.nof <= produced'
    BY <1>5, <1>a, <1>i, <1>n, <1>s DEF Newest
  <2>2. ASSUME NEW s \in 0 .. dci'.nof - 1
        PROVE  dci'.data[s] = produced' - Age(dci'.header, s)
    <3>0. s \in Nat /\ s < MaxDciBuffer /\ s \in Slots /\ s < dci'.nof
      BY <1>5, <1>n DEF Slots
    <3>1. CASE s = dci.header
      <4>1. dci'.data[s] = produced + 1
        BY <1>5, <1>n, <3>1
      <4>2. Age(dci'.header, s) = 0
        BY <1>5, <1>n, <3>1, AgeStep
      <4> QED
        BY <1>a, <1>s, <4>1, <4>2
    <3>2. CASE s # dci.header
      <4>1. s \in 0 .. dci.nof - 1
        BY <1>5, <1>n, <3>0, <3>2
      <4>2. dci'.data[s] = dci.data[s]
        BY <1>5, <1>n, <3>0, <3>2
      <4>3. Age(dci'.header, s) = Age(dci.header, s) + 1 /\ Age(dci.header, s) \in Int
        BY <1>5, <1>n, <3>0, <3>2, AgeStep
      <4>4. dci.data[s] = produced - Age(dci.header, s)
        BY <1>i, <4>1 DEF Newest
      <4> QED
        BY <1>a, <1>s, <4>2, <4>3, <4>4
    <3> QED
      BY <3>1, <3>2
  <2> QED
    BY <2>1, <2>2 DEF Newest, Age
<1>8. Settled' \in Int /\ Settled <= Settled'
  <2>1. PICK n \in Int, m \in Int : n = dci.nof /\ m = dci'.nof
    BY <1>5, <1>n
  <2>2. m <= n + 1
    BY <1>5, <1>n, <2>1
  <2>3. PICK p \in Int : p = produced
    BY <1>s
  <2>4. produced' = p + 1
    BY <1>a, <2>3
  <2>5. Settled = p - n
    BY <2>1, <2>3 DEF Settled
  <2>6. Settled' = p + 1 - m
    BY <2>1, <2>4 DEF Settled
  <2> QED
    BY <2>2, <2>5, <2>6
<1>9. /\ Apart(cellGot, Contents(cell), ForCell, Settled')
      /\ Apart(logGot, Contents(log), queue, Settled')
  <2>1. PICK later \in Int : later = Settled'
    BY <1>8
  <2> QED
    BY <1>8, <1>i, <1>s, <2>1, ApartLater
<1>10. ConsumersGetAll'
  <2>1. ~Overflows(dci, 1) => Contents(dci') = Contents(dci) \o <<produced + 1>>
    BY <1>2, <1>3, <1>i, AfterContents
  <2>2. full' \cap {"dci", "cell"} = {} =>
            cellGot \o Contents(cell) \o ForCell \o Contents(dci') = Upto(produced + 1)
    <3> SUFFICES ASSUME full' \cap {"dci", "cell"} = {}
                 PROVE  cellGot \o Contents(cell) \o ForCell \o Contents(dci') = Upto(produced + 1)
      OBVIOUS
    <3>1. ~Overflows(dci, 1) /\ full \cap {"dci", "cell"} = {}
      BY <1>a
    <3>2. cellGot \o Contents(cell) \o ForCell \o Contents(dci) = Upto(produced)
      BY <1>i, <3>1 DEF ConsumersGetAll
    <3>3. cellGot \o Contents(cell) \o ForCell \o (Contents(dci) \o <<produced + 1>>) = Upto(produced + 1)
      <4>1. cellGot \o Contents(cell) \o ForCell \in Seq(Results)
        BY <1>s, ConcatProperties
      <4>2. PICK z \in Seq(Results) : z = cellGot \o Contents(cell) \o ForCell
        BY <4>1
      <4>3. PICK d \in Seq(Results) : d = Contents(dci)
        BY <1>s
      <4>4. PICK n \in Nat : n = produced
        BY <1>s
      <4>5. z \o (d \o <<n + 1>>) = Upto(n + 1)
        BY <1>1, <3>2, <4>2, <4>3, <4>4, OrderStore
      <4> QED
        BY <4>2, <4>3, <4>4, <4>5
    <3> QED
      BY <2>1, <3>1, <3>3
  <2>3. full' \cap {"dci", "log"} = {} =>
            logGot \o Contents(log) \o queue \o Contents(dci') = Upto(produced + 1)
    <3> SUFFICES ASSUME full' \cap {"dci", "log"} = {}
                 PROVE  logGot \o Contents(log) \o queue \o Contents(dci') = Upto(produced + 1)
      OBVIOUS
    <3>1. ~Overflows(dci, 1) /\ full \cap {"dci", "log"} = {}
      BY <1>a
    <3>2. logGot \o Contents(log) \o queue \o Contents(dci) = Upto(produced)
      BY <1>i, <3>1 DEF ConsumersGetAll
    <3>3. logGot \o Contents(log) \o queue \o (Contents(dci) \o <<produced + 1>>) = Upto(produced + 1)
      <4>1. logGot \o Contents(log) \o queue \in Seq(Results)
        BY <1>s, ConcatProperties
      <4>2. PICK z \in Seq(Results) : z = logGot \o Contents(log) \o queue
        BY <4>1
      <4>3. PICK d \in Seq(Results) : d = Contents(dci)
        BY <1>s
      <4>4. PICK n \in Nat : n = produced
        BY <1>s
      <4>5. z \o (d \o <<n + 1>>) = Upto(n + 1)
        BY <1>1, <3>2, <4>2, <4>3, <4>4, OrderStore
      <4> QED
        BY <4>2, <4>3, <4>4, <4>5
    <3> QED
      BY <2>1, <3>1, <3>3
  <2> QED
    BY <1>a, <2>2, <2>3 DEF ConsumersGetAll, ForCell, Contents
<1>11. /\ Contents(cell)' = Contents(cell) /\ Contents(log)' = Contents(log)
       /\ ForCell' = ForCell /\ Filled(cell)' /\ Filled(log)' /\ Filled(dci)'
  BY <1>4, <1>a, <1>i DEF Contents, ForCell, Filled, Sound
<1>12. (Apart(cellGot, Contents(cell), ForCell, Settled))'
       /\ (Apart(logGot, Contents(log), queue, Settled))'
  BY <1>9, <1>11, <1>a DEF Apart
<1> QED
  BY <1>a, <1>i, <1>6, <1>7, <1>10, <1>11, <1>12 DEF HandoffInv

(* The tracker empties dci_buffer.                                         *)
LEMMA DrainKeeps ==
  HandoffInv /\ TrackerDrain => HandoffInv'
<1> SUFFICES ASSUME HandoffInv, TrackerDrain PROVE HandoffInv'
  OBVIOUS
<1>s. /\ cellGot \in Seq(Results) /\ logGot \in Seq(Results)
      /\ queue \in Seq(Results) /\ ForCell \in Seq(Results)
      /\ Contents(dci) \in Seq(Results) /\ Contents(cell) \in Seq(Results)
      /\ Contents(log) \in Seq(Results)
      /\ produced \in Nat /\ dci.nof \in Nat /\ Settled \in Int /\ Settled <= produced
      /\ cell.nof \in Nat /\ log.nof \in Nat /\ Len(queue) \in Nat
  BY Sequences
<1>i. /\ TypeOK /\ Filled(dci) /\ Filled(cell) /\ Filled(log) /\ Newest /\ ConsumersGetAll
      /\ Apart(cellGot, Contents(cell), ForCell, Settled)
      /\ Apart(logGot, Contents(log), queue, Settled)
      /\ tpc = "drain" => queue = << >>
  BY DEF HandoffInv
<1>a. /\ tpc = "drain" /\ queue = << >> /\ ForCell = << >>
      /\ queue' = Contents(dci) /\ dci' = Cleared(dci) /\ tpc' = "toCell"
      /\ UNCHANGED <<produced, cell, log, cellGot, logGot, full>>
  BY <1>i DEF TrackerDrain, ForCell
<1>1. Filled(dci') /\ Contents(dci') = << >> /\ dci'.nof = 0
  BY <1>a, <1>i, ClearedFilled
<1>2. /\ Len(Contents(dci)) = dci.nof /\ DOMAIN Contents(dci) = 1 .. dci.nof
      /\ \A k \in 1 .. dci.nof : k - 1 \in 0 .. dci.nof - 1 /\ Contents(dci)[k] = dci.data[k - 1]
  BY <1>i, ContentsType
<1>n. /\ MaxDciBuffer \in Nat /\ dci.header \in Nat /\ dci.header < MaxDciBuffer
      /\ dci.nof \in Nat /\ dci.nof <= MaxDciBuffer
      /\ dci.nof < MaxDciBuffer => dci.header = dci.nof
  BY <1>i, BufferNumbers DEF Filled, Sound
<1>3. TypeOK'
  <2>1. dci' \in BufferType
    BY <1>1 DEF Filled, Sound
  <2>2. queue' \in Seq(Results) /\ Len(queue') <= MaxDciBuffer
    BY <1>2, <1>a, <1>n, <1>s
  <2> QED
    BY <1>a, <1>i, <2>1, <2>2 DEF TypeOK
<1>4. Newest'
  BY <1>1, <1>a, <1>s DEF Newest
<1>5. Settled' = produced
  BY <1>1, <1>a, <1>s DEF Settled
<1>6. ASSUME NEW k \in DOMAIN Contents(dci)
      PROVE  /\ k \in Nat /\ k - 1 \in Nat /\ k - 1 < dci.nof
             /\ Contents(dci)[k] = produced - Age(dci.header, k - 1)
             /\ Age(dci.header, k - 1) \in 0 .. dci.nof - 1
  <2>1. k \in Nat /\ k - 1 \in Nat /\ k - 1 < dci.nof /\ k - 1 \in 0 .. dci.nof - 1
    BY <1>2, <1>n
  <2>2. Contents(dci)[k] = produced - Age(dci.header, k - 1)
    BY <1>2, <1>i, <2>1 DEF Newest
  <2>3. Age(dci.header, k - 1) \in 0 .. dci.nof - 1
    BY <1>n, <2>1 DEF Age
  <2> QED
    BY <2>1, <2>2, <2>3
<1>7. IsInjective(Contents(dci))
  <2> SUFFICES ASSUME NEW i \in DOMAIN Contents(dci), NEW j \in DOMAIN Contents(dci),
                      Contents(dci)[i] = Contents(dci)[j]
               PROVE  i = j
    BY DEF IsInjective
  <2>1. Age(dci.header, i - 1) = Age(dci.header, j - 1)
    <3>1. Contents(dci)[i] = produced - Age(dci.header, i - 1) /\ Age(dci.header, i - 1) \in 0 .. dci.nof - 1
      BY <1>6
    <3>2. Contents(dci)[j] = produced - Age(dci.header, j - 1) /\ Age(dci.header, j - 1) \in 0 .. dci.nof - 1
      BY <1>6
    <3>3. \A m, n \in 0 .. dci.nof - 1 : produced - m = produced - n => m = n
      BY <1>n, <1>s
    <3> QED
      BY <3>1, <3>2, <3>3
  <2>2. i \in Nat /\ j \in Nat /\ i - 1 \in Nat /\ i - 1 < MaxDciBuffer /\ j - 1 \in Nat /\ j - 1 < MaxDciBuffer
    BY <1>6, <1>n
  <2> QED
    BY <1>n, <2>1, <2>2 DEF Age
<1>8. \A k \in DOMAIN Contents(dci) : Settled < Contents(dci)[k] /\ Contents(dci)[k] <= produced
  <2> SUFFICES ASSUME NEW k \in DOMAIN Contents(dci)
               PROVE  Settled < Contents(dci)[k] /\ Contents(dci)[k] <= produced
    OBVIOUS
  <2>1. Contents(dci)[k] = produced - Age(dci.header, k - 1) /\ Age(dci.header, k - 1) \in 0 .. dci.nof - 1
    BY <1>6
  <2>2. \A m \in 0 .. dci.nof - 1 : produced - dci.nof < produced - m /\ produced - m <= produced
    BY <1>n, <1>s
  <2> QED
    BY <2>1, <2>2 DEF Settled
<1>9. /\ Apart(cellGot, Contents(cell), Contents(dci), produced)
      /\ Apart(logGot, Contents(log), Contents(dci), produced)
  <2>1. PICK new \in Seq(Results) : new = Contents(dci)
    BY <1>s
  <2>2. PICK later \in Int : later = produced
    BY <1>s
  <2> QED
    BY <1>7, <1>8, <1>a, <1>i, <1>s, <2>1, <2>2, ApartDrain
<1>10. ForCell' = Contents(dci)
  BY <1>a DEF ForCell
<1>11. /\ cellGot \o Contents(cell) \o Contents(dci) \o << >> = cellGot \o Contents(cell) \o << >> \o Contents(dci)
       /\ logGot \o Contents(log) \o Contents(dci) \o << >> = logGot \o Contents(log) \o << >> \o Contents(dci)
  BY <1>s, OrderDrain
<1>12. /\ Contents(cell)' = Contents(cell) /\ Contents(log)' = Contents(log)
       /\ Contents(dci)' = << >> /\ Filled(cell)' /\ Filled(log)' /\ Filled(dci)'
  BY <1>1, <1>a, <1>i DEF Contents, Filled, Sound
<1>13. ConsumersGetAll'
  BY <1>10, <1>11, <1>12, <1>a, <1>i DEF ConsumersGetAll, Upto
<1>14. /\ (Apart(cellGot, Contents(cell), ForCell, Settled))'
       /\ (Apart(logGot, Contents(log), queue, Settled))'
  BY <1>5, <1>9, <1>10, <1>12, <1>a DEF Apart
<1> QED
  BY <1>3, <1>4, <1>12, <1>13, <1>14, <1>a DEF HandoffInv

(* The tracker stores its batch for the cell status thread.                *)
LEMMA ToCellKeeps ==
  HandoffInv /\ TrackerToCell => HandoffInv'
<1> SUFFICES ASSUME HandoffInv, TrackerToCell PROVE HandoffInv'
  OBVIOUS
<1>s. /\ cellGot \in Seq(Results) /\ logGot \in Seq(Results)
      /\ queue \in Seq(Results) /\ ForCell \in Seq(Results)
      /\ Contents(dci) \in Seq(Results) /\ Contents(cell) \in Seq(Results)
      /\ Contents(log) \in Seq(Results)
      /\ produced \in Nat /\ dci.nof \in Nat /\ Settled \in Int /\ Settled <= produced
      /\ cell.nof \in Nat /\ log.nof \in Nat /\ Len(queue) \in Nat
  BY Sequences
<1>i. /\ TypeOK /\ Filled(dci) /\ Filled(cell) /\ Filled(log) /\ Newest /\ ConsumersGetAll
      /\ Apart(cellGot, Contents(cell), ForCell, Settled)
      /\ Apart(logGot, Contents(log), queue, Settled)
      /\ tpc = "drain" => queue = << >>
  BY DEF HandoffInv
<1>a. /\ tpc = "toCell" /\ cell' = PushAll(cell, queue) /\ tpc' = "toLog"
      /\ full' = IF Overflows(cell, Len(queue)) THEN full \cup {"cell"} ELSE full
      /\ UNCHANGED <<produced, dci, log, queue, cellGot, logGot>>
  BY DEF TrackerToCell
<1>1. Len(queue) <= MaxDciBuffer /\ cell \in BufferType
  BY <1>i DEF TypeOK
<1>2. PICK q \in Seq(Results) : q = queue /\ Len(q) <= MaxDciBuffer
  BY <1>1, <1>s
<1>3. cell' = After(cell, q, Len(q))
  BY <1>1, <1>2, <1>a, PushAllIsAfter
<1>4. Filled(cell')
  BY <1>2, <1>3, <1>i, AfterFilled
<1>5. TypeOK'
  <2>1. cell' \in BufferType
    BY <1>4 DEF Filled, Sound
  <2>2. full' \subseteq {"dci", "cell", "log"}
    BY <1>a, <1>i DEF TypeOK
  <2> QED
    BY <1>a, <1>i, <2>1, <2>2 DEF TypeOK
<1>6. ForCell = q /\ ForCell' = << >>
  BY <1>2, <1>a DEF ForCell
<1>7. Apart(cellGot, Contents(cell'), << >>, Settled)
  BY <1>2, <1>3, <1>6, <1>i, <1>s, ApartPass
<1>8. full' \cap {"dci", "cell"} = {} =>
          cellGot \o Contents(cell') \o << >> \o Contents(dci) = Upto(produced)
  <2> SUFFICES ASSUME full' \cap {"dci", "cell"} = {}
               PROVE  cellGot \o Contents(cell') \o << >> \o Contents(dci) = Upto(produced)
    OBVIOUS
  <2>1. ~Overflows(cell, Len(q)) /\ full \cap {"dci", "cell"} = {}
    BY <1>2, <1>a
  <2>2. Contents(cell') = Contents(cell) \o q
    BY <1>2, <1>3, <1>i, <2>1, AfterContents
  <2>3. cellGot \o Contents(cell) \o q \o Contents(dci) = Upto(produced)
    BY <1>6, <1>i, <2>1 DEF ConsumersGetAll
  <2>4. cellGot \o (Contents(cell) \o q) \o << >> \o Contents(dci)
            = cellGot \o Contents(cell) \o q \o Contents(dci)
    <3>1. PICK g \in Seq(Results) : g = cellGot
      BY <1>s
    <3>2. PICK c \in Seq(Results) : c = Contents(cell)
      BY <1>s
    <3>3. PICK d \in Seq(Results) : d = Contents(dci)
      BY <1>s
    <3>4. g \o (c \o q) \o << >> \o d = g \o c \o q \o d
      BY OrderPass
    <3> QED
      BY <3>1, <3>2, <3>3, <3>4
  <2> QED
    BY <2>2, <2>3, <2>4
<1>9. full' \cap {"dci", "log"} = {} => full \cap {"dci", "log"} = {}
  BY <1>a
<1>10. /\ Contents(dci)' = Contents(dci) /\ Contents(log)' = Contents(log) /\ Settled' = Settled
       /\ Contents(cell)' = Contents(cell')
       /\ Filled(dci)' /\ Filled(log)' /\ Filled(cell)' /\ Newest'
  BY <1>4, <1>a, <1>i DEF Contents, Filled, Sound, Newest, Settled
<1>11. ConsumersGetAll'
  BY <1>6, <1>8, <1>9, <1>10, <1>a, <1>i DEF ConsumersGetAll, Upto
<1>12. /\ (Apart(cellGot, Contents(cell), ForCell, Settled))'
       /\ (Apart(logGot, Contents(log), queue, Settled))'
  BY <1>6, <1>7, <1>10, <1>a, <1>i DEF Apart
<1> QED
  BY <1>5, <1>10, <1>11, <1>12, <1>a DEF HandoffInv

(* The tracker stores its batch for the logger and forgets it.             *)
LEMMA ToLogKeeps ==
  HandoffInv /\ TrackerToLog => HandoffInv'
<1> SUFFICES ASSUME HandoffInv, TrackerToLog PROVE HandoffInv'
  OBVIOUS
<1>s. /\ cellGot \in Seq(Results) /\ logGot \in Seq(Results)
      /\ queue \in Seq(Results) /\ ForCell \in Seq(Results)
      /\ Contents(dci) \in Seq(Results) /\ Contents(cell) \in Seq(Results)
      /\ Contents(log) \in Seq(Results)
      /\ produced \in Nat /\ dci.nof \in Nat /\ Settled \in Int /\ Settled <= produced
      /\ cell.nof \in Nat /\ log.nof \in Nat /\ Len(queue) \in Nat
  BY Sequences
<1>i. /\ TypeOK /\ Filled(dci) /\ Filled(cell) /\ Filled(log) /\ Newest /\ ConsumersGetAll
      /\ Apart(cellGot, Contents(cell), ForCell, Settled)
      /\ Apart(logGot, Contents(log), queue, Settled)
      /\ tpc = "drain" => queue = << >>
  BY DEF HandoffInv
<1>a. /\ tpc = "toLog" /\ log' = PushAll(log, queue) /\ tpc' = "drain" /\ queue' = << >>
      /\ full' = IF Overflows(log, Len(queue)) THEN full \cup {"log"} ELSE full
      /\ UNCHANGED <<produced, dci, cell, cellGot, logGot>>
  BY DEF TrackerToLog
<1>1. Len(queue) <= MaxDciBuffer /\ log \in BufferType
  BY <1>i DEF TypeOK
<1>2. PICK q \in Seq(Results) : q = queue /\ Len(q) <= MaxDciBuffer
  BY <1>1, <1>s
<1>3. log' = After(log, q, Len(q))
  BY <1>1, <1>2, <1>a, PushAllIsAfter
<1>4. Filled(log')
  BY <1>2, <1>3, <1>i, AfterFilled
<1>5. TypeOK'
  <2>1. log' \in BufferType
    BY <1>4 DEF Filled, Sound
  <2>2. full' \subseteq {"dci", "cell", "log"}
    BY <1>a, <1>i DEF TypeOK
  <2>3. queue' \in Seq(Results) /\ Len(queue') <= MaxDciBuffer
    BY <1>a, HandoffAssumption
  <2> QED
    BY <1>a, <1>i, <2>1, <2>2, <2>3 DEF TypeOK
<1>6. ForCell = << >> /\ ForCell' = << >>
  BY <1>a DEF ForCell
<1>7. Apart(logGot, Contents(log'), << >>, Settled)
  BY <1>2, <1>3, <1>i, <1>s, ApartPass
<1>8. full' \cap {"dci", "log"} = {} =>
          logGot \o Contents(log') \o << >> \o Contents(dci) = Upto(produced)
  <2> SUFFICES ASSUME full' \cap {"dci", "log"} = {}
               PROVE  logGot \o Contents(log') \o << >> \o Contents(dci) = Upto(produced)
    OBVIOUS
  <2>1. ~Overflows(log, Len(q)) /\ full \cap {"dci", "log"} = {}
    BY <1>2, <1>a
  <2>2. Contents(log') = Contents(log) \o q
    BY <1>2, <1>3, <1>i, <2>1, AfterContents
  <2>3. logGot \o Contents(log) \o q \o Contents(dci) = Upto(produced)
    BY <1>2, <1>i, <2>1 DEF ConsumersGetAll
  <2>4. logGot \o (Contents(log) \o q) \o << >> \o Contents(dci)
            = logGot \o Contents(log) \o q \o Contents(dci)
    <3>1. PICK g \in Seq(Results) : g = logGot
      BY <1>s
    <3>2. PICK c \in Seq(Results) : c = Contents(log)
      BY <1>s
    <3>3. PICK d \in Seq(Results) : d = Contents(dci)
      BY <1>s
    <3>4. g \o (c \o q) \o << >> \o d = g \o c \o q \o d
      BY OrderPass
    <3> QED
      BY <3>1, <3>2, <3>3, <3>4
  <2> QED
    BY <2>2, <2>3, <2>4
<1>9. full' \cap {"dci", "cell"} = {} => full \cap {"dci", "cell"} = {}
  BY <1>a
<1>10. /\ Contents(dci)' = Contents(dci) /\ Contents(cell)' = Contents(cell) /\ Settled' = Settled
       /\ Contents(log)' = Contents(log')
       /\ Filled(dci)' /\ Filled(log)' /\ Filled(cell)' /\ Newest'
  BY <1>4, <1>a, <1>i DEF Contents, Filled, Sound, Newest, Settled
<1>11. ConsumersGetAll'
  BY <1>6, <1>8, <1>9, <1>10, <1>a, <1>i DEF ConsumersGetAll, Upto
<1>12. /\ (Apart(cellGot, Contents(cell), ForCell, Settled))'
       /\ (Apart(logGot, Contents(log), queue, Settled))'
  BY <1>6, <1>7, <1>10, <1>a, <1>i DEF Apart
<1> QED
  BY <1>5, <1>10, <1>11, <1>12, <1>a DEF HandoffInv

(* The cell status thread takes its results.                               *)
LEMMA CellTakeKeeps ==
  HandoffInv /\ CellTake => HandoffInv'
<1> SUFFICES ASSUME HandoffInv, CellTake PROVE HandoffInv'
  OBVIOUS
<1>s. /\ cellGot \in Seq(Results) /\ logGot \in Seq(Results)
      /\ queue \in Seq(Results) /\ ForCell \in Seq(Results)
      /\ Contents(dci) \in Seq(Results) /\ Contents(cell) \in Seq(Results)
      /\ Contents(log) \in Seq(Results)
      /\ produced \in Nat /\ dci.nof \in Nat /\ Settled \in Int /\ Settled <= produced
      /\ cell.nof \in Nat /\ log.nof \in Nat /\ Len(queue) \in Nat
  BY Sequences
<1>i. /\ TypeOK /\ Filled(dci) /\ Filled(cell) /\ Filled(log) /\ Newest /\ ConsumersGetAll
      /\ Apart(cellGot, Contents(cell), ForCell, Settled)
      /\ Apart(logGot, Contents(log), queue, Settled)
      /\ tpc = "drain" => queue = << >>
  BY DEF HandoffInv
<1>a. /\ cellGot' = cellGot \o Contents(cell) /\ cell' = Cleared(cell)
      /\ UNCHANGED <<produced, dci, log, tpc, queue, logGot, full>>
  BY DEF CellTake
<1>1. Filled(cell') /\ Contents(cell') = << >>
  BY <1>a, <1>i, ClearedFilled
<1>2. cellGot' \in Seq(Results)
  BY <1>a, <1>s, ConcatProperties
<1>3. TypeOK'
  <2>1. cell' \in BufferType
    BY <1>1 DEF Filled, Sound
  <2> QED
    BY <1>2, <1>a, <1>i, <2>1 DEF TypeOK
<1>4. Apart(cellGot', << >>, ForCell, Settled)
  BY <1>a, <1>i, <1>s, ApartTake
<1>5. cellGot' \o << >> \o ForCell \o Contents(dci) = cellGot \o Contents(cell) \o ForCell \o Contents(dci)
  BY <1>a, <1>s, OrderTake
<1>6. /\ Contents(dci)' = Contents(dci) /\ Contents(log)' = Contents(log) /\ Settled' = Settled
      /\ Contents(cell)' = << >> /\ ForCell' = ForCell
      /\ Filled(dci)' /\ Filled(log)' /\ Filled(cell)' /\ Newest'
  BY <1>1, <1>a, <1>i DEF Contents, Filled, Sound, Newest, Settled, ForCell
<1>7. ConsumersGetAll'
  BY <1>5, <1>6, <1>a, <1>i DEF ConsumersGetAll, Upto
<1>8. /\ (Apart(cellGot, Contents(cell), ForCell, Settled))'
      /\ (Apart(logGot, Contents(log), queue, Settled))'
  BY <1>4, <1>6, <1>a, <1>i DEF Apart
<1> QED
  BY <1>3, <1>6, <1>7, <1>8, <1>a, <1>i DEF HandoffInv

(* The DCI logger takes its results.                                       *)
LEMMA LoggerTakeKeeps ==
  HandoffInv /\ LoggerTake => HandoffInv'
<1> SUFFICES ASSUME HandoffInv, LoggerTake PROVE HandoffInv'
  OBVIOUS
<1>s. /\ cellGot \in Seq(Results) /\ logGot \in Seq(Results)
      /\ queue \in Seq(Results) /\ ForCell \in Seq(Results)
      /\ Contents(dci) \in Seq(Results) /\ Contents(cell) \in Seq(Results)
      /\ Contents(log) \in Seq(Results)
      /\ produced \in Nat /\ dci.nof \in Nat /\ Settled \in Int /\ Settled <= produced
      /\ cell.nof \in Nat /\ log.nof \in Nat /\ Len(queue) \in Nat
  BY Sequences
<1>i. /\ TypeOK /\ Filled(dci) /\ Filled(cell) /\ Filled(log) /\ Newest /\ ConsumersGetAll
      /\ Apart(cellGot, Contents(cell), ForCell, Settled)
      /\ Apart(logGot, Contents(log), queue, Settled)
      /\ tpc = "drain" => queue = << >>
  BY DEF HandoffInv
<1>a. /\ logGot' = logGot \o Contents(log) /\ log' = Cleared(log)
      /\ UNCHANGED <<produced, dci, cell, tpc, queue, cellGot, full>>
  BY DEF LoggerTake
<1>1. Filled(log') /\ Contents(log') = << >>
  BY <1>a, <1>i, ClearedFilled
<1>2. logGot' \in Seq(Results)
  BY <1>a, <1>s, ConcatProperties
<1>3. TypeOK'
  <2>1. log' \in BufferType
    BY <1>1 DEF Filled, Sound
  <2> QED
    BY <1>2, <1>a, <1>i, <2>1 DEF TypeOK
<1>4. Apart(logGot', << >>, queue, Settled)
  BY <1>a, <1>i, <1>s, ApartTake
<1>5. logGot' \o << >> \o queue \o Contents(dci) = logGot \o Contents(log) \o queue \o Contents(dci)
  BY <1>a, <1>s, OrderTake
<1>6. /\ Contents(dci)' = Contents(dci) /\ Contents(cell)' = Contents(cell) /\ Settled' = Settled
      /\ Contents(log)' = << >> /\ ForCell' = ForCell
      /\ Filled(dci)' /\ Filled(log)' /\ Filled(cell)' /\ Newest'
  BY <1>1, <1>a, <1>i DEF Contents, Filled, Sound, Newest, Settled, ForCell
<1>7. ConsumersGetAll'
  BY <1>5, <1>6, <1>a, <1>i DEF ConsumersGetAll, Upto
<1>8. /\ (Apart(cellGot, Contents(cell), ForCell, Settled))'
      /\ (Apart(logGot, Contents(log), queue, Settled))'
  BY <1>4, <1>6, <1>a, <1>i DEF Apart
<1> QED
  BY <1>3, <1>6, <1>7, <1>8, <1>a, <1>i DEF HandoffInv

(* Every step keeps the invariant.                                         *)
LEMMA HandoffStep ==
  HandoffInv /\ [Next]_vars => HandoffInv'
<1> SUFFICES ASSUME HandoffInv, [Next]_vars PROVE HandoffInv'
  OBVIOUS
<1>1. CASE UNCHANGED vars
  <2>1. UNCHANGED <<produced, dci, cell, log, tpc, queue, cellGot, logGot, full>>
    BY <1>1 DEF vars
  <2>2. /\ Contents(dci)' = Contents(dci) /\ Contents(cell)' = Contents(cell)
        /\ Contents(log)' = Contents(log) /\ ForCell' = ForCell /\ Settled' = Settled
    BY <2>1 DEF Contents, ForCell, Settled
  <2>3. TypeOK' /\ Newest' /\ Filled(dci)' /\ Filled(cell)' /\ Filled(log)'
    BY <2>1 DEF HandoffInv, TypeOK, Newest, Filled, Sound
  <2>4. ConsumersGetAll'
    BY <2>1, <2>2 DEF HandoffInv, ConsumersGetAll
  <2>5. /\ Apart(cellGot, Contents(cell), ForCell, Settled)'
        /\ Apart(logGot, Contents(log), queue, Settled)'
    BY <2>1, <2>2 DEF HandoffInv, Apart
  <2> QED
    BY <2>1, <2>3, <2>4, <2>5 DEF HandoffInv
<1>2. CASE Done
  BY <1>1, <1>2 DEF Done
<1> QED
  BY <1>1, <1>2, StoreKeeps, DrainKeeps, ToCellKeeps, ToLogKeeps, CellTakeKeeps, LoggerTakeKeeps
     DEF Next, Tracker

(* The invariant holds throughout.                                         *)
LEMMA HandoffInvariant ==
  Spec => []HandoffInv
  BY HandoffInit, HandoffStep, PTL DEF Spec

-----------------------------------------------------------------------------
(* The results.                                                            *)

(* Every buffer's count stays within its array, and what the consumers take*)
(* are results.                                                            *)
THEOREM TypeCorrect ==
  Spec => []TypeOK
<1>1. HandoffInv => TypeOK
  BY DEF HandoffInv
<1> QED
  BY <1>1, HandoffInvariant, PTL

(* dci_buffer holds the newest results, for every size of the buffer and   *)
(* however often its header wrapped.                                       *)
THEOREM OverflowKeepsNewest ==
  Spec => []KeepsNewest
<1>1. HandoffInv => KeepsNewest
  <2> SUFFICES ASSUME HandoffInv PROVE KeepsNewest
    OBVIOUS
  <2>i. Filled(dci) /\ Newest
    BY DEF HandoffInv
  <2>n. /\ MaxDciBuffer \in Nat /\ dci.header \in Nat /\ dci.header < MaxDciBuffer
        /\ dci.nof \in Nat /\ dci.nof <= MaxDciBuffer /\ produced \in Nat
        /\ dci.nof < MaxDciBuffer => dci.header = dci.nof
    BY <2>i, BufferNumbers, Sequences DEF Filled, Sound
  <2>1. /\ DOMAIN Contents(dci) = 1 .. dci.nof
        /\ \A k \in 1 .. dci.nof : k - 1 \in 0 .. dci.nof - 1 /\ Contents(dci)[k] = dci.data[k - 1]
    BY <2>i, ContentsType
  <2>2. ToSet(Contents(dci)) = {Contents(dci)[k] : k \in 1 .. dci.nof}
    BY <2>1 DEF ToSet
  <2>3. ASSUME NEW k \in 1 .. dci.nof
        PROVE  Contents(dci)[k] \in (produced - dci.nof + 1) .. produced
    <3>1. Contents(dci)[k] = produced - Age(dci.header, k - 1)
      BY <2>1, <2>i DEF Newest
    <3>2. Age(dci.header, k - 1) \in 0 .. dci.nof - 1
      BY <2>n DEF Age
    <3>3. \A m \in 0 .. dci.nof - 1 : produced - m \in (produced - dci.nof + 1) .. produced
      BY <2>n
    <3> QED
      BY <3>1, <3>2, <3>3
  <2>4. ASSUME NEW x \in (produced - dci.nof + 1) .. produced
        PROVE  \E k \in 1 .. dci.nof : Contents(dci)[k] = x
    <3>1. PICK a \in 0 .. dci.nof - 1 : a = produced - x
      BY <2>n
    <3>2. PICK k \in 1 .. dci.nof : k = IF a < dci.header THEN dci.header - a
                                        ELSE dci.header - a + MaxDciBuffer
      BY <2>n
    <3>3. Age(dci.header, k - 1) = a
      BY <2>n, <3>2 DEF Age
    <3>4. Contents(dci)[k] = produced - Age(dci.header, k - 1)
      BY <2>1, <2>i DEF Newest
    <3>5. produced - a = x
      BY <2>n, <3>1
    <3> QED
      BY <3>3, <3>4, <3>5
  <2> QED
    BY <2>2, <2>3, <2>4 DEF KeepsNewest
<1> QED
  BY <1>1, HandoffInvariant, PTL

(* No consumer takes a result twice, overflow or not.                      *)
THEOREM NothingTakenTwice ==
  Spec => []NoDuplicates
<1>1. HandoffInv => NoDuplicates
  BY DEF HandoffInv, Apart, NoDuplicates
<1> QED
  BY <1>1, HandoffInvariant, PTL

(* Without overflow on its way each consumer takes every result exactly    *)
(* once and in order, each at its own pace.                                *)
THEOREM AllInOrder ==
  Spec => []ConsumersGetAll
<1>1. HandoffInv => ConsumersGetAll
  BY DEF HandoffInv
<1> QED
  BY <1>1, HandoffInvariant, PTL

(* The decoders' turns, with their search for SIBs, are steps of the path  *)
(* of the results or leave it alone: all that is proved of Spec holds of   *)
(* the composition.                                                        *)
THEOREM TurnsImplementHandoff ==
  TurnSpec => FairSpec
<1>1. TurnInit => Init
  BY DEF TurnInit
<1>2. [TurnNext]_turnVars => [Next]_vars
  <2> SUFFICES ASSUME [TurnNext]_turnVars PROVE [Next]_vars
    OBVIOUS
  <2>1. CASE UNCHANGED turnVars
    BY <2>1 DEF turnVars
  <2>2. ASSUME NEW d \in Decoders, Search(d) \/ Store(d) PROVE [Next]_vars
    BY <2>2 DEF Search, Store, Next
  <2>3. CASE Rest /\ UNCHANGED configVars
    BY <2>3 DEF Rest, Next
  <2> QED
    BY <2>1, <2>2, <2>3 DEF TurnNext
<1> QED
  BY <1>1, <1>2, PTL DEF TurnSpec, FairSpec, Spec

\* What is saved of the cell, and that the file shows it.
ConfigInv ==
    /\ have_sib1 \in BOOLEAN /\ have_sib2 \in BOOLEAN /\ unsaved \in BOOLEAN
    /\ record \in [sib1 : BOOLEAN, power : BOOLEAN]
    /\ cellcfg \in [sib1 : BOOLEAN, power : BOOLEAN]
    /\ have_sib2 => record.power
    /\ have_sib1 /\ ~unsaved => record.sib1 /\ cellcfg = record

(* Saving either SIB keeps file and record together.                       *)
LEMMA ConfigStep ==
  ASSUME ConfigInv, NEW d, Config!Sib(d)
  PROVE  ConfigInv'
<1>1. CASE UNCHANGED <<have_sib1, have_sib2, record, cellcfg, unsaved>>
  BY <1>1 DEF ConfigInv
<1>2. ASSUME NEW opened \in BOOLEAN, NEW plmn \in BOOLEAN, Config!SaveSib1(d, plmn, opened)
      PROVE  ConfigInv'
  BY <1>2 DEF ConfigInv, Config!SaveSib1
<1>3. ASSUME NEW opened \in BOOLEAN, Config!SaveSib2(d, opened)
      PROVE  ConfigInv'
  BY <1>3 DEF ConfigInv, Config!SaveSib2
<1> QED
  BY <1>1, <1>2, <1>3
     DEF Config!Sib, Config!FindNoSib, Config!FindSib1, Config!FindSib2

(* Once both SIBs were taken the file shows both, whichever came first, for*)
(* any number of decoders that test the flags without a lock.              *)
THEOREM ConfigurationComplete ==
  TurnSpec => []ConfigComplete
<1>1. TurnInit => ConfigInv
  <2> SUFFICES ASSUME TurnInit PROVE ConfigInv
    OBVIOUS
  <2>1. /\ have_sib1 = FALSE /\ have_sib2 = FALSE /\ unsaved = FALSE
        /\ record = [sib1 |-> FALSE, power |-> FALSE] /\ cellcfg = [sib1 |-> FALSE, power |-> FALSE]
    BY DEF TurnInit, Config!ConfigInit, Config!Nothing
  <2>2. FALSE \in BOOLEAN /\ [sib1 |-> FALSE, power |-> FALSE] \in [sib1 : BOOLEAN, power : BOOLEAN]
    OBVIOUS
  <2> QED
    BY <2>1, <2>2 DEF ConfigInv
<1>2. ConfigInv /\ [TurnNext]_turnVars => ConfigInv'
  <2> SUFFICES ASSUME ConfigInv, [TurnNext]_turnVars PROVE ConfigInv'
    OBVIOUS
  <2>1. CASE UNCHANGED <<have_sib1, have_sib2, record, cellcfg, unsaved>>
    BY <2>1 DEF ConfigInv
  <2>2. ASSUME NEW d \in Decoders, Search(d) PROVE ConfigInv'
    BY <2>2, ConfigStep DEF Search
  <2>3. ASSUME NEW d \in Decoders, Store(d) PROVE ConfigInv'
    BY <2>1, <2>3 DEF Store
  <2> QED
    BY <2>1, <2>2, <2>3 DEF TurnNext, turnVars, configVars
<1>3. ConfigInv => ConfigComplete
  <2> SUFFICES ASSUME ConfigInv, have_sib1, have_sib2, ~unsaved
               PROVE  cellcfg = [sib1 |-> TRUE, power |-> TRUE]
    BY DEF ConfigComplete
  <2> QED
    BY DEF ConfigInv
<1> QED
  BY <1>1, <1>2, <1>3, PTL DEF TurnSpec
=============================================================================
