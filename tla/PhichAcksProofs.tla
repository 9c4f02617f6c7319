-------------------------- MODULE PhichAcksProofs --------------------------
(***************************************************************************)
(* Proofs about the TTIs the task scheduler gives to subframes and about   *)
(* the list of pending acknowledgements, for frames, lists and decoder     *)
(* pools of any size.                                                      *)
(***************************************************************************)
EXTENDS PhichAcks, TLAPS

USE SfnAssumption

-----------------------------------------------------------------------------
(* Arithmetic of frame and subframe numbers.                               *)

(* Quotient and rest of a sum whose rest is known.                         *)
LEMMA DivRest ==
  ASSUME NEW n \in Nat \ {0}, NEW q \in Nat, NEW r \in 0 .. n - 1
  PROVE  ((n * q) + r) % n = r /\ ((n * q) + r) \div n = q
OBVIOUS

(* Below the modulus, the rest is the number itself.                       *)
LEMMA ModSmall ==
  ASSUME NEW n \in Nat \ {0}, NEW a \in 0 .. n - 1
  PROVE  a % n = a
OBVIOUS

(* A TTI is its frame number times the frame's length plus its subframe    *)
(* number, both in range.                                                  *)
LEMMA TtiParts ==
  ASSUME NEW a \in 0 .. NofTti - 1
  PROVE  /\ a \div SfPerFrame \in 0 .. NofSfn - 1 /\ a % SfPerFrame \in 0 .. SfPerFrame - 1
         /\ a = (SfPerFrame * (a \div SfPerFrame)) + (a % SfPerFrame)
<1> DEFINE q == a \div SfPerFrame
           r == a % SfPerFrame
<1>1. a = (SfPerFrame * q) + r /\ r \in 0 .. SfPerFrame - 1 /\ q \in Nat
  BY DEF NofTti
<1> HIDE DEF q, r
<1>2. ASSUME q >= NofSfn PROVE FALSE
  <2>1. SfPerFrame * q >= SfPerFrame * NofSfn
    BY <1>1, <1>2
  <2> QED
    BY <1>1, <2>1 DEF NofTti
<1> QED
  BY <1>1, <1>2 DEF q, r

(* Putting a frame and a subframe number together gives a TTI in range.    *)
LEMMA TtiRange ==
  ASSUME NEW q \in 0 .. NofSfn - 1, NEW r \in 0 .. SfPerFrame - 1
  PROVE  (q * SfPerFrame) + r \in 0 .. NofTti - 1 /\ NofTti \in Nat \ {0}
<1>1. q + 1 <= NofSfn
  OBVIOUS
<1>2. (q + 1) * SfPerFrame <= NofSfn * SfPerFrame
  BY <1>1
<1>3. (q + 1) * SfPerFrame = (q * SfPerFrame) + SfPerFrame /\ q * SfPerFrame \in Nat
  OBVIOUS
<1> QED
  BY <1>2, <1>3 DEF NofTti

(* The next TTI is in the next frame exactly after the last subframe.      *)
LEMMA NextFrame ==
  ASSUME NEW a \in 0 .. NofTti - 1
  PROVE  /\ (a + 1) % NofTti \in 0 .. NofTti - 1
         /\ ((a + 1) % NofTti) \div SfPerFrame = FrameEnd(a \div SfPerFrame, a % SfPerFrame)
<1> DEFINE q == a \div SfPerFrame
           r == a % SfPerFrame
<1>1. q \in 0 .. NofSfn - 1 /\ r \in 0 .. SfPerFrame - 1 /\ a = (SfPerFrame * q) + r
  BY TtiParts
<1>0. NofTti \in Nat \ {0}
  BY DEF NofTti
<1> HIDE DEF q, r
<1>2. CASE r # SfPerFrame - 1
  <2>1. r + 1 \in 0 .. SfPerFrame - 1 /\ a + 1 = (SfPerFrame * q) + (r + 1)
    BY <1>1, <1>2
  <2>2. (q * SfPerFrame) + (r + 1) \in 0 .. NofTti - 1
    BY <1>1, <2>1, TtiRange
  <2>3. a + 1 \in 0 .. NofTti - 1
    BY <1>1, <2>1, <2>2
  <2>4. (a + 1) % NofTti = a + 1
    BY <1>0, <2>3, ModSmall
  <2>5. (a + 1) \div SfPerFrame = q
    BY <1>1, <2>1, DivRest
  <2> QED
    BY <1>2, <2>3, <2>4, <2>5 DEF FrameEnd, q, r
<1>3. CASE r = SfPerFrame - 1
  <2>1. a + 1 = (SfPerFrame * (q + 1)) + 0
    BY <1>1, <1>3
  <2>2. CASE q + 1 < NofSfn
    <3>1. q + 1 \in 0 .. NofSfn - 1 /\ 0 \in 0 .. SfPerFrame - 1
      BY <1>1, <2>2
    <3>2. ((q + 1) * SfPerFrame) + 0 \in 0 .. NofTti - 1
      BY <3>1, TtiRange
    <3>3. a + 1 \in 0 .. NofTti - 1
      BY <1>1, <2>1, <3>2
    <3>4. (a + 1) % NofTti = a + 1
      BY <1>0, <3>3, ModSmall
    <3>5. (a + 1) \div SfPerFrame = q + 1
      <4>1. q + 1 \in Nat
        BY <3>1
      <4>2. ((SfPerFrame * (q + 1)) + 0) \div SfPerFrame = q + 1
        BY <3>1, <4>1, DivRest
      <4> QED
        BY <2>1, <4>2
    <3>6. (q + 1) % NofSfn = q + 1
      BY <3>1, ModSmall
    <3> QED
      BY <1>3, <3>3, <3>4, <3>5, <3>6 DEF FrameEnd, q, r
  <2>3. CASE q + 1 = NofSfn
    <3>1. a + 1 = NofTti
      BY <1>1, <2>1, <2>3 DEF NofTti
    <3>2. (a + 1) % NofTti = 0 /\ (q + 1) % NofSfn = 0
      BY <1>0, <2>3, <3>1
    <3>3. 0 \div SfPerFrame = 0
      OBVIOUS
    <3> QED
      BY <1>0, <1>3, <3>2, <3>3 DEF FrameEnd, q, r
  <2> QED
    BY <1>1, <2>2, <2>3
<1> QED
  BY <1>2, <1>3

-----------------------------------------------------------------------------
(* Once a MIB was accepted and unless a frame boundary was missed since,   *)
(* the counter is the frame number of the next subframe on the air.        *)
CounterRight == (decode_pdcch /\ ~gap) => sfn = AirSfn

(* The inductive invariant of the frame counter.                           *)
SfnInv == TypeOK /\ CounterRight

(* The frame number of the MIB is that of the subframe it came in.         *)
LEMMA MibRight == TypeOK => MibSfn = AirSfn
<1> SUFFICES ASSUME TypeOK PROVE MibSfn = AirSfn
  OBVIOUS
<1>1. AirSfn \in 0 .. NofSfn - 1
  BY TtiParts DEF TypeOK, AirSfn
<1> HIDE DEF AirSfn
<1>2. (4 * (AirSfn \div 4)) + (AirSfn % 4) = AirSfn
  BY <1>1
<1> QED
  BY <1>1, <1>2, ModSmall DEF MibSfn

(* What one synchronised subframe does to the counter and under which TTI  *)
(* it is dispatched.                                                       *)
LEMMA SyncedRight ==
  ASSUME SfnInv, NEW found \in BOOLEAN, ReceiveSubframe(found)
  PROVE  SfnInv' /\ ((sent' # sent /\ ~gap') => sent'[1] = sent'[2])
<1> DEFINE sfn_tmp == IF found THEN MibSfn ELSE 0
           accepted == sfn_tmp > 0
           sfn_now == IF accepted THEN sfn_tmp ELSE sfn
<1>t. /\ air \in 0 .. NofTti - 1 /\ sfn \in 0 .. NofSfn - 1 /\ decode_pdcch \in BOOLEAN
      /\ sent = << >> \/ sent \in (0 .. NofTti - 1) \X (0 .. NofTti - 1)
      /\ gap \in BOOLEAN /\ ((decode_pdcch /\ ~gap) => sfn = AirSfn)
  BY DEF SfnInv, TypeOK, CounterRight
<1>1. /\ AirSfn \in 0 .. NofSfn - 1 /\ AirSf \in 0 .. SfPerFrame - 1
      /\ air = (AirSfn * SfPerFrame) + AirSf
  BY <1>t, TtiParts DEF AirSfn, AirSf
<1>2. MibSfn = AirSfn
  BY MibRight DEF SfnInv
<1>3. sfn_now \in 0 .. NofSfn - 1 /\ (((decode_pdcch /\ ~gap) \/ accepted) => sfn_now = AirSfn)
  BY <1>t, <1>1, <1>2
<1>4. /\ decode_pdcch' = (decode_pdcch \/ accepted)
      /\ sent' = IF decode_pdcch' THEN <<(sfn_now * SfPerFrame) + AirSf, air>> ELSE sent
      /\ gap' = (gap /\ ~accepted)
      /\ sfn' = FrameEnd(sfn_now, AirSf)
      /\ air' = AirNext /\ lost' = 0
  BY DEF ReceiveSubframe, Synced
<1>5. (sfn_now * SfPerFrame) + AirSf \in 0 .. NofTti - 1
  BY <1>1, <1>3, TtiRange
<1> HIDE DEF sfn_now, accepted
<1>6. accepted \in BOOLEAN
  BY DEF accepted
<1>7. FrameEnd(sfn_now, AirSf) \in 0 .. NofSfn - 1
  BY <1>1, <1>3 DEF FrameEnd
<1>8. AirNext \in 0 .. NofTti - 1 /\ AirSfn' = FrameEnd(AirSfn, AirSf)
  BY <1>t, <1>4, NextFrame DEF AirNext, AirSfn, AirSf
<1>9. TypeOK'
  <2>1. air' \in 0 .. NofTti - 1 /\ sfn' \in 0 .. NofSfn - 1 /\ lost' \in 0 .. MaxLost
    BY <1>4, <1>7, <1>8
  <2>2. decode_pdcch' \in BOOLEAN /\ gap' \in BOOLEAN
    BY <1>t, <1>4, <1>6
  <2>3. sent' = << >> \/ sent' \in (0 .. NofTti - 1) \X (0 .. NofTti - 1)
    BY <1>t, <1>4, <1>5
  <2> QED
    BY <2>1, <2>2, <2>3 DEF TypeOK
<1>10. CounterRight'
  BY <1>3, <1>4, <1>8 DEF CounterRight
<1>11. (sent' # sent /\ ~gap') => sent'[1] = sent'[2]
  BY <1>1, <1>3, <1>4
<1> QED
  BY <1>9, <1>10, <1>11 DEF SfnInv

(* A subframe that is lost leaves the counter right unless it is the last  *)
(* of its frame, which gap records.                                        *)
LEMMA LostRight == ASSUME SfnInv, LoseSubframe PROVE SfnInv' /\ sent' = sent
<1>t. /\ air \in 0 .. NofTti - 1 /\ sfn \in 0 .. NofSfn - 1 /\ decode_pdcch \in BOOLEAN
      /\ sent = << >> \/ sent \in (0 .. NofTti - 1) \X (0 .. NofTti - 1)
      /\ gap \in BOOLEAN /\ ((decode_pdcch /\ ~gap) => sfn = AirSfn) /\ lost \in 0 .. MaxLost
  BY DEF SfnInv, TypeOK, CounterRight
<1>1. /\ lost < MaxLost /\ lost' = lost + 1 /\ air' = AirNext
      /\ gap' = (gap \/ AirSf = SfPerFrame - 1)
      /\ sfn' = sfn /\ decode_pdcch' = decode_pdcch /\ sent' = sent
  BY DEF LoseSubframe
<1>2. AirNext \in 0 .. NofTti - 1 /\ AirSfn' = FrameEnd(AirSfn, AirSf)
  BY <1>t, <1>1, NextFrame DEF AirNext, AirSfn, AirSf
<1>3. gap' \in BOOLEAN /\ lost' \in 0 .. MaxLost
  BY <1>t, <1>1
<1>4. TypeOK'
  BY <1>t, <1>1, <1>2, <1>3 DEF TypeOK
<1>5. CounterRight'
  BY <1>t, <1>1, <1>2 DEF CounterRight, FrameEnd
<1> QED
  BY <1>1, <1>4, <1>5 DEF SfnInv

(* The frame counter's invariant is inductive.                             *)
LEMMA SfnInductive == Spec => []SfnInv
<1>1. Init => SfnInv
  <2> SUFFICES ASSUME Init PROVE SfnInv
    OBVIOUS
  <2>1. 0 \in 0 .. NofSfn - 1 /\ 0 \in 0 .. MaxLost
    OBVIOUS
  <2> QED
    BY <2>1 DEF Init, SfnInv, TypeOK, CounterRight
<1>2. SfnInv /\ [Next]_vars => SfnInv'
  <2>1. ASSUME SfnInv, UNCHANGED vars PROVE SfnInv'
    BY <2>1 DEF vars, SfnInv, TypeOK, CounterRight, AirSfn
  <2> QED
    BY <2>1, SyncedRight, LostRight DEF Next
<1> QED
  BY <1>1, <1>2, PTL DEF Spec

(* Types: the TTI given to a decoder stays below 10240.                    *)
THEOREM SfnTypeCorrect == Spec => []TypeOK
<1>1. SfnInv => TypeOK
  BY DEF SfnInv
<1> QED
  BY <1>1, SfnInductive, PTL

(* Unless synchronisation was lost over a frame boundary since the last    *)
(* accepted MIB, or since the start, the scheduler dispatches every        *)
(* subframe under its true TTI, however many MIBs it failed to decode in   *)
(* between, and none before the first.                                     *)
THEOREM TtiStaysCorrect == Spec => TtiCorrect
<1>1. SfnInv /\ [Next]_vars => [(sent' # sent /\ ~gap') => sent'[1] = sent'[2]]_vars
  BY SyncedRight, LostRight DEF Next
<1> QED
  BY <1>1, SfnInductive, PTL DEF Spec, TtiCorrect

(* The composed system takes no other steps on the scheduler's side, so it *)
(* inherits that property.                                                 *)
THEOREM PhichTtiCorrect == PhichSpec => TtiCorrect
<1>1. PhichInit => Init
  BY DEF PhichInit
<1>2. [PhichNext]_<<vars, phichVars>> => [Next]_vars
  BY DEF PhichNext, Dispatch, LoseSync, Decoder, SetAck, ResetAck, GetAck, DecodeAck, DecodeNack,
     ResetAfterNack, Next
<1>3. PhichSpec => Spec
  BY <1>1, <1>2, PTL DEF PhichSpec, Spec
<1> QED
  BY <1>3, TtiStaysCorrect, PTL

-----------------------------------------------------------------------------
(* The list of pending acknowledgements.                                   *)

(* The decoders are at most AckDelay subframes behind, the list is long    *)
(* enough for what is in flight, and so is the rest that the TTIs leave at *)
(* their wrap.  (In the code 100 slots, a delay of 8 and a rest of 40.)    *)
Sizes ==
    /\ MaxLag \in 1 .. AckDelay
    /\ MaxLag + AckDelay <= TtiModSz /\ TtiModSz <= NofTti
    /\ NofTti % TtiModSz = 0 \/ NofTti % TtiModSz >= MaxLag + AckDelay

Ttis == 0 .. NofTti - 1

\* The TTI k subframes after a, and the subframes from a to b.
Plus(a, k) == IF a + k < NofTti THEN a + k ELSE a + k - NofTti
Dist(a, b) == IF b >= a THEN b - a ELSE b - a + NofTti

\* A subframe that may still be in work, and one on the air from now until
\* the acknowledgement of a grant in the next subframe is.
Past(f) == Dist(f, air) \in 1 .. MaxLag
Coming(f) == Dist(air, f) < AckDelay

(* The constants as numbers.                                               *)
LEMMA SizeNumbers ==
  ASSUME Sizes
  PROVE  /\ NofTti \in Nat /\ TtiModSz \in Nat /\ AckDelay \in Nat /\ MaxLag \in Nat
         /\ 1 <= MaxLag /\ MaxLag <= AckDelay /\ MaxLag + AckDelay <= TtiModSz
         /\ TtiModSz <= NofTti /\ AckDelay < NofTti /\ NofTti > 1
<1>1. NofTti \in Nat
  BY DEF NofTti
<1> QED
  BY <1>1, PhichAssumption DEF Sizes

(* No subframe is behind and ahead of another at once: the two reaches do  *)
(* not meet on the far side of the circle of TTIs.                         *)
LEMMA NotBoth ==
  ASSUME Sizes, NEW b \in Ttis, NEW f \in Ttis
  PROVE  ~(Dist(f, b) \in 1 .. MaxLag /\ Dist(b, f) < AckDelay)
  BY SizeNumbers DEF Dist, Ttis

(* The code's modulo arithmetic on TTIs, without the division.             *)
LEMMA TtiArithmetic ==
  ASSUME Sizes, NEW a \in Ttis
  PROVE  /\ TtiRxAck(a) = Plus(a, AckDelay) /\ AirAck(a) = Plus(a, AckDelay)
         /\ (a + 1) % NofTti = Plus(a, 1)
         /\ \A b \in Ttis : (b - a) % NofTti = Dist(a, b)
<1> DEFINE N == NofTti
<1>0. /\ N \in Nat \ {0} /\ a \in 0 .. N - 1 /\ AckDelay \in 0 .. N - 1 /\ 1 \in 0 .. N - 1
  BY SizeNumbers DEF Ttis
<1> HIDE DEF N
<1>1. \A x \in 0 .. N - 1 : x % N = x
  BY <1>0
<1>2. \A x \in N .. N + N - 1 : x % N = x - N
  BY <1>0
<1>3. \A x \in (0 - N) .. (0 - 1) : x % N = x + N
  BY <1>0
<1>4. \A k \in 0 .. N - 1 : (a + k) % N = Plus(a, k)
  <2> TAKE k \in 0 .. N - 1
  <2>1. CASE a + k < N
    <3>1. a + k \in 0 .. N - 1
      BY <1>0, <2>1
    <3>2. (a + k) % N = a + k
      BY <1>1, <3>1
    <3> QED
      BY <2>1, <3>2 DEF Plus, N
  <2>2. CASE ~(a + k < N)
    <3>1. a + k \in N .. N + N - 1
      BY <1>0, <2>2
    <3>2. (a + k) % N = (a + k) - N
      BY <1>2, <3>1, Zenon
    <3> QED
      BY <1>0, <2>2, <3>2 DEF Plus, N
  <2> QED
    BY <2>1, <2>2
<1>5. ASSUME NEW b \in Ttis PROVE (b - a) % N = Dist(a, b)
  <2>0. b \in 0 .. N - 1
    BY DEF Ttis, N
  <2>1. CASE b >= a
    <3>1. b - a \in 0 .. N - 1
      BY <1>0, <2>0, <2>1
    <3> QED
      BY <1>1, <2>1, <3>1 DEF Dist
  <2>2. CASE ~(b >= a)
    <3>1. b - a \in (0 - N) .. (0 - 1)
      BY <1>0, <2>0, <2>2
    <3> QED
      BY <1>3, <2>2, <3>1 DEF Dist, N
  <2> QED
    BY <2>1, <2>2
<1> QED
  BY <1>0, <1>4, <1>5 DEF TtiRxAck, AirAck, N

(* Moving on by one subframe.                                              *)
LEMMA Advance ==
  ASSUME Sizes, NEW a \in Ttis, NEW f \in Ttis
  PROVE  LET b == Plus(a, 1)
         IN  /\ b \in Ttis
             /\ Dist(f, a) < MaxLag => Dist(f, b) = Dist(f, a) + 1
             /\ f # a => Dist(b, f) = Dist(a, f) - 1
             /\ Dist(a, b) = 1
             /\ Dist(b, Plus(a, AckDelay)) = AckDelay - 1
<1>1. /\ NofTti \in Nat /\ AckDelay \in Nat /\ MaxLag \in Nat /\ AckDelay >= 1
      /\ MaxLag + AckDelay <= NofTti /\ AckDelay < NofTti /\ NofTti > 1
  BY SizeNumbers
<1> QED
  BY <1>1 DEF Plus, Dist, Ttis

(* The acknowledgement of a subframe in work is still to come, and no      *)
(* subframe is both in work and to come.                                   *)
LEMMA AckIsComing ==
  ASSUME Sizes, air \in Ttis, NEW a \in Ttis
  PROVE  /\ Plus(a, AckDelay) \in Ttis
         /\ Past(a) => Coming(Plus(a, AckDelay))
         /\ ~(Past(a) /\ Coming(a))
<1>1. /\ NofTti \in Nat /\ AckDelay \in Nat /\ MaxLag \in Nat /\ MaxLag <= AckDelay
      /\ MaxLag + AckDelay <= NofTti /\ AckDelay < NofTti
  BY SizeNumbers
<1> QED
  BY <1>1 DEF Plus, Dist, Ttis, Past, Coming

(* A multiple of n that lies strictly between -n and n is 0.               *)
LEMMA SmallMultiple ==
  ASSUME NEW n \in Nat \ {0}, NEW m \in Int, n * m < n, 0 - n < n * m
  PROVE  m = 0
<1>1. CASE m >= 1
  <2>1. n * m >= n
    BY <1>1
  <2> QED
    BY <2>1
<1>2. CASE m <= 0 - 1
  <2>1. n * m <= 0 - n
    BY <1>2
  <2> QED
    BY <2>1
<1> QED
  BY <1>1, <1>2

(* Two TTIs less than MaxLag + AckDelay apart have different slots, also   *)
(* when the TTIs wrap between them.                                        *)
LEMMA ApartSlots ==
  ASSUME Sizes, NEW f \in Ttis, NEW g \in Ttis, Dist(f, g) \in 1 .. MaxLag + AckDelay - 1
  PROVE  TtiMod(f) # TtiMod(g)
<1> DEFINE T == TtiModSz
           N == NofTti
           k == Dist(f, g)
           c == IF g >= f THEN 0 ELSE 1
<1>0. /\ T \in Nat \ {0} /\ N \in Nat /\ f \in 0 .. N - 1 /\ g \in 0 .. N - 1 /\ k \in 1 .. T - 1
      /\ N % T = 0 \/ N % T > k
  BY SizeNumbers DEF Sizes, Ttis
<1> SUFFICES ASSUME f % T = g % T PROVE FALSE
  BY DEF TtiMod
<1>1. k = (g - f) + (c * N)
  BY <1>0 DEF Dist
<1> DEFINE q1 == f \div T
           q2 == g \div T
           q3 == N \div T
<1> HIDE DEF k, T, N
<1>2. /\ f = (T * q1) + (f % T) /\ g = (T * q2) + (g % T) /\ N = (T * q3) + (N % T)
      /\ q1 \in Int /\ q2 \in Int /\ q3 \in Int
  BY <1>0
<1> HIDE DEF q1, q2, q3
<1>3. N % T \in 0 .. T - 1
  BY <1>0
<1>4. CASE c = 0
  <2>1. k = T * (q2 - q1)
    BY <1>0, <1>1, <1>2, <1>4
  <2>2. q2 - q1 = 0
    <3> DEFINE m == q2 - q1
    <3>1. m \in Int /\ T * m < T /\ 0 - T < T * m
      BY <1>0, <1>2, <2>1
    <3> HIDE DEF m
    <3>2. m = 0
      BY <1>0, <3>1, SmallMultiple
    <3> QED
      BY <3>2 DEF m
  <2> QED
    BY <1>0, <2>1, <2>2
<1>5. CASE c = 1
  <2>1. k - (N % T) = T * (q2 - q1 + q3)
    BY <1>0, <1>1, <1>2, <1>3, <1>5
  <2>2. q2 - q1 + q3 = 0
    <3> DEFINE m == q2 - q1 + q3
    <3>1. m \in Int /\ T * m < T /\ 0 - T < T * m
      BY <1>0, <1>2, <1>3, <2>1
    <3> HIDE DEF m
    <3>2. m = 0
      BY <1>0, <3>1, SmallMultiple
    <3> QED
      BY <3>2 DEF m
  <2> QED
    BY <1>0, <1>3, <2>1, <2>2
<1> QED
  BY <1>4, <1>5

(* So have any two subframes in work or to come.                           *)
LEMMA OwnSlots ==
  ASSUME Sizes, air \in Ttis, NEW f \in Ttis, NEW g \in Ttis,
         Past(f) \/ Coming(f), Past(g) \/ Coming(g), TtiMod(f) = TtiMod(g)
  PROVE  f = g
<1>1. /\ NofTti \in Nat /\ AckDelay \in Nat /\ MaxLag \in Nat
      /\ MaxLag + AckDelay <= NofTti /\ MaxLag >= 1 /\ AckDelay >= 1
  BY SizeNumbers
<1>2. ASSUME f # g
      PROVE  Dist(f, g) \in 1 .. MaxLag + AckDelay - 1 \/ Dist(g, f) \in 1 .. MaxLag + AckDelay - 1
  BY <1>1, <1>2 DEF Dist, Past, Coming, Ttis
<1> QED
  BY <1>2, ApartSlots

-----------------------------------------------------------------------------
Steps == {"set", "reset", "get", "decode", "nack"}
Tasks == [step : Steps, tti : Ttis, air : Ttis, grant : BOOLEAN, empty : BOOLEAN]

\* The slot of f holds the entry noted for f; decoder d is at one of the steps S with f.
Holds(f) == pending_ack[TtiMod(f)].enabled /\ pending_ack[TtiMod(f)].for = f
At(d, f, S) == task[d].step \in S /\ task[d].air = f

ListType ==
    /\ pending_ack \in [0 .. TtiModSz - 1 -> [enabled : BOOLEAN, for : Ttis]]
    /\ dl_tti \in [Decoders -> Ttis]
    /\ DOMAIN task = Decoders /\ \A d \in Decoders : task[d] = Idle \/ task[d] \in Tasks
    /\ due \subseteq Ttis

(* Decoders work on subframes dispatched under their true TTIs.            *)
TrueTtis ==
    /\ decode_pdcch => ~gap
    /\ ~decode_pdcch => (\A d \in Decoders : ~Busy(d)) /\ due = {}

(* The subframes in work are recent and no two decoders share one.         *)
InWork ==
    /\ \A d \in Decoders : Busy(d) =>
          task[d].tti = task[d].air /\ dl_tti[d] = task[d].air /\ Past(task[d].air)
    /\ \A d, e \in Decoders : Busy(d) /\ Busy(e) /\ task[d].air = task[e].air => d = e

(* An enabled entry is in the slot of the subframe it was noted for, which *)
(* is due or being decoded.                                                *)
Entries ==
    \A s \in 0 .. TtiModSz - 1 : pending_ack[s].enabled =>
        /\ TtiMod(pending_ack[s].for) = s
        /\ \/ pending_ack[s].for \in due
           \/ \E d \in Decoders : At(d, pending_ack[s].for, {"decode", "nack"})

(* What is due is to come, or its decoder has not read the list yet.       *)
DueUnread ==
    \A f \in due : Coming(f) \/ \E d \in Decoders : At(d, f, {"set", "reset", "get"})

(* What is due is noted, unless the decoder with the grant is about to     *)
(* note it or a new grant in the same subframe has overridden it.          *)
DueNoted ==
    \A f \in due :
        \/ Holds(f)
        \/ \E d \in Decoders : task[d].step = "set" /\ f = Plus(task[d].air, AckDelay)
        \/ \E d \in Decoders : At(d, f, {"get"}) /\ task[d].grant

(* What a decoder's step says of its own slot and of what is due.          *)
OwnEntry ==
    \A d \in Decoders :
        /\ task[d].step \in {"set", "reset"} => task[d].grant
        /\ task[d].step = "get" /\ task[d].grant => ~pending_ack[TtiMod(task[d].air)].enabled
        /\ task[d].step = "set" => Plus(task[d].air, AckDelay) \in due
        /\ task[d].step \in {"decode", "nack"} => task[d].air \notin due

ListInv == ListType /\ TrueTtis /\ InWork /\ Entries /\ DueUnread /\ DueNoted /\ OwnEntry

(* The inductive invariant: it says nothing of the list once a subframe    *)
(* was missed.                                                             *)
PhichInv == SfnInv /\ missed \in Nat /\ (missed = 0 => ListInv)

(* Types of the list alone.                                                *)
LEMMA SlotType ==
  ASSUME Sizes, NEW f \in Ttis
  PROVE  TtiMod(f) \in 0 .. TtiModSz - 1
BY SizeNumbers DEF TtiMod, Ttis

(* One decoder moves on to step s and keeps its subframe.                  *)
LEMMA TaskMoves ==
  ASSUME ListType, NEW d \in Decoders, Busy(d), NEW s \in Steps,
         task' = [task EXCEPT ![d].step = s]
  PROVE  /\ DOMAIN task' = Decoders /\ \A e \in Decoders : task'[e] = Idle \/ task'[e] \in Tasks
         /\ task'[d].step = s /\ task'[d].tti = task[d].tti /\ task'[d].air = task[d].air
         /\ task'[d].grant = task[d].grant
         /\ \A e \in Decoders : e # d => task'[e] = task[e]
<1>1. task[d] \in Tasks
  BY DEF ListType, Busy, Idle
<1>2. task'[d] = [task[d] EXCEPT !.step = s]
  BY DEF ListType
<1>3. \A e \in Decoders : e # d => task'[e] = task[e]
  BY DEF ListType
<1>4. task'[d] \in Tasks
  BY <1>1, <1>2 DEF Tasks
<1>5. /\ task'[d].step = s /\ task'[d].tti = task[d].tti /\ task'[d].air = task[d].air
      /\ task'[d].grant = task[d].grant
  BY <1>1, <1>2 DEF Tasks
<1> QED
  BY <1>3, <1>4, <1>5 DEF ListType

(* A decoder that is at a step has a subframe, in work.                    *)
LEMMA BusyTask ==
  ASSUME ListInv, NEW d \in Decoders, task[d].step \in Steps
  PROVE  /\ Busy(d) /\ task[d] \in Tasks /\ task[d].air \in Ttis
         /\ task[d].tti = task[d].air /\ dl_tti[d] = task[d].air /\ Past(task[d].air)
<1>1. Busy(d)
  BY DEF Busy, Steps
<1>2. task[d] \in Tasks
  BY <1>1 DEF ListInv, ListType, Busy, Idle
<1> QED
  BY <1>1, <1>2 DEF Tasks, ListInv, InWork

(* What is due is recent enough to have a slot of its own.                 *)
LEMMA DueNear ==
  ASSUME ListInv, NEW f \in due
  PROVE  f \in Ttis /\ (Past(f) \/ Coming(f))
<1>1. f \in Ttis
  BY DEF ListInv, ListType
<1>2. ASSUME NEW d \in Decoders, At(d, f, {"set", "reset", "get"}) PROVE Past(f)
  BY <1>2, BusyTask DEF At, Steps
<1> QED
  BY <1>1, <1>2 DEF ListInv, DueUnread

-----------------------------------------------------------------------------
(* Noting the acknowledgement of a subframe in work: after a grant, which  *)
(* made it due when the subframe was dispatched, or after a NACK.          *)
LEMMA NoteInv ==
  ASSUME Sizes, PhichInv, missed = 0, NEW d \in Decoders, SetAck(d) \/ DecodeNack(d)
  PROVE  ListInv' /\ missed' = 0
<1> DEFINE a == task[d].air
           f == Plus(a, AckDelay)
           s == IF task[d].step = "set" THEN "reset" ELSE "nack"
<1>i. ListInv /\ air \in Ttis
  BY DEF PhichInv, SfnInv, TypeOK, Ttis
<1>i2. ListType /\ TrueTtis /\ InWork /\ Entries /\ DueUnread /\ DueNoted /\ OwnEntry
  BY <1>i DEF ListInv
<1>1. /\ task[d].step \in {"set", "decode"}
      /\ task[d].step = "set" => SetAck(d)
      /\ task[d].step = "decode" => DecodeNack(d)
  BY DEF SetAck, DecodeNack
<1>2. /\ Busy(d) /\ a \in Ttis /\ task[d].tti = a /\ dl_tti[d] = a /\ Past(a)
      /\ task[d] \in Tasks
  BY <1>i, <1>1, BusyTask DEF Steps
<1>3. f \in Ttis /\ Coming(f) /\ ~Past(f) /\ TtiRxAck(a) = f /\ AirAck(a) = f
  BY <1>i, <1>2, AckIsComing, TtiArithmetic
<1>4. /\ pending_ack' = [pending_ack EXCEPT ![TtiMod(f)] = [enabled |-> TRUE, for |-> f]]
      /\ task' = [task EXCEPT ![d].step = s]
      /\ due' = due \cup {f}
      /\ UNCHANGED <<vars, dl_tti>> /\ missed' = 0
  <2>1. CASE task[d].step = "set"
    <3>1. f \in due
      BY <1>i2, <2>1 DEF OwnEntry
    <3> QED
      BY <1>1, <1>2, <1>3, <2>1, <3>1 DEF SetAck, SetPendingAck
  <2>2. CASE task[d].step = "decode"
    BY <1>1, <1>2, <1>3, <2>2 DEF DecodeNack, SetPendingAck, Count
  <2> QED
    BY <1>1, <2>1, <2>2
<1> HIDE DEF f
<1>5. s \in {"reset", "nack"} /\ s \in Steps
  BY DEF Steps
<1>6. /\ DOMAIN task' = Decoders /\ \A e \in Decoders : task'[e] = Idle \/ task'[e] \in Tasks
      /\ task'[d].step = s /\ task'[d].tti = a /\ task'[d].air = a
      /\ task'[d].grant = task[d].grant
      /\ \A e \in Decoders : e # d => task'[e] = task[e]
  BY <1>i2, <1>2, <1>4, <1>5, TaskMoves
<1> HIDE DEF s
<1>7. /\ TtiMod(f) \in 0 .. TtiModSz - 1
      /\ pending_ack'[TtiMod(f)] = [enabled |-> TRUE, for |-> f]
      /\ \A n \in 0 .. TtiModSz - 1 : n # TtiMod(f) => pending_ack'[n] = pending_ack[n]
      /\ pending_ack' \in [0 .. TtiModSz - 1 -> [enabled : BOOLEAN, for : Ttis]]
  BY <1>i2, <1>3, <1>4, SlotType DEF ListType
<1>8. UNCHANGED <<air, decode_pdcch, gap>>
  BY <1>4 DEF vars
<1>9. \A g \in Ttis : (Past(g)' <=> Past(g)) /\ (Coming(g)' <=> Coming(g))
  BY <1>8 DEF Past, Coming, Dist
<1>10. \A e \in Decoders : Busy(e)' <=> Busy(e)
  BY <1>2, <1>5, <1>6 DEF Busy
<1>11. ListType'
  BY <1>i2, <1>3, <1>4, <1>6, <1>7 DEF ListType
<1>12. TrueTtis'
  <2>1. decode_pdcch
    BY <1>i2, <1>2 DEF TrueTtis
  <2> QED
    BY <1>i2, <1>8, <2>1 DEF TrueTtis
<1>13. \A e \in Decoders : Busy(e) => task'[e].air = task[e].air /\ task'[e].tti = task[e].tti
  BY <1>2, <1>6
<1>14. InWork'
  <2>1. \A e \in Decoders : Busy(e) => task[e].air \in Ttis
    BY <1>i2 DEF ListType, Busy, Idle, Tasks
  <2> QED
    BY <1>i2, <1>4, <1>9, <1>10, <1>13, <2>1 DEF InWork
<1>15. Entries'
  <2> SUFFICES ASSUME NEW n \in 0 .. TtiModSz - 1, pending_ack'[n].enabled
               PROVE  /\ TtiMod(pending_ack'[n].for) = n
                      /\ \/ pending_ack'[n].for \in due'
                         \/ \E e \in Decoders : At(e, pending_ack[n].for, {"decode", "nack"})'
    BY DEF Entries, TtiMod
  <2>1. CASE n = TtiMod(f)
    BY <1>4, <1>7, <2>1
  <2>2. CASE n # TtiMod(f)
    <3>1. pending_ack'[n] = pending_ack[n]
      BY <1>7, <2>2
    <3>2. ASSUME NEW e \in Decoders, At(e, pending_ack[n].for, {"decode", "nack"})
          PROVE  At(e, pending_ack[n].for, {"decode", "nack"})'
      <4>1. CASE e = d
        <5>1. s = "nack" /\ task'[d].step = "nack" /\ task'[d].air = pending_ack[n].for
          BY <1>1, <1>6, <3>2, <4>1 DEF At, s
        <5> QED
          BY <3>1, <4>1, <5>1 DEF At
      <4>2. CASE e # d
        BY <1>6, <3>1, <3>2, <4>2 DEF At
      <4> QED
        BY <4>1, <4>2
    <3> QED
      BY <1>i2, <1>4, <3>1, <3>2 DEF Entries, At
  <2> QED
    BY <2>1, <2>2
<1>16. DueUnread'
  <2> SUFFICES ASSUME NEW g \in due'
               PROVE  Coming(g)' \/ \E e \in Decoders : At(e, g, {"set", "reset", "get"})'
    BY DEF DueUnread
  <2>1. CASE g = f
    BY <1>3, <1>9, <2>1
  <2>2. CASE g \in due
    <3>1. g \in Ttis
      BY <1>i2, <2>2 DEF ListType
    <3>2. ASSUME NEW e \in Decoders, At(e, g, {"set", "reset", "get"})
          PROVE  At(e, g, {"set", "reset", "get"})'
      BY <1>1, <1>6, <3>2 DEF At, s
    <3> QED
      BY <1>i2, <1>9, <2>2, <3>1, <3>2 DEF DueUnread
  <2> QED
    BY <1>4, <2>1, <2>2
<1>17. \A g \in due : g # f => TtiMod(g) # TtiMod(f)
  BY <1>i, <1>3, DueNear, OwnSlots
<1>18. DueNoted'
  <2> SUFFICES ASSUME NEW g \in due'
               PROVE  \/ Holds(g)'
                      \/ \E e \in Decoders : task'[e].step = "set" /\ g = Plus(task'[e].air, AckDelay)
                      \/ \E e \in Decoders : At(e, g, {"get"})' /\ task'[e].grant
    BY DEF DueNoted, Plus
  <2>1. CASE g = f
    BY <1>7, <2>1 DEF Holds, TtiMod
  <2>2. CASE g \in due /\ g # f
    <3>1. TtiMod(g) # TtiMod(f) /\ TtiMod(g) \in 0 .. TtiModSz - 1
      BY <1>i2, <1>17, <2>2, SlotType DEF ListType
    <3>2. Holds(g) => Holds(g)'
      BY <1>7, <3>1 DEF Holds, TtiMod
    <3>3. ASSUME NEW e \in Decoders, task[e].step = "set" /\ g = Plus(task[e].air, AckDelay)
          PROVE  task'[e].step = "set" /\ g = Plus(task'[e].air, AckDelay)
      <4>1. e # d
        BY <2>2, <3>3 DEF f
      <4> QED
        BY <1>6, <3>3, <4>1
    <3>4. ASSUME NEW e \in Decoders, At(e, g, {"get"}) /\ task[e].grant
          PROVE  At(e, g, {"get"})' /\ task'[e].grant
      BY <1>1, <1>6, <3>4 DEF At
    <3> QED
      BY <1>i2, <2>2, <3>2, <3>3, <3>4 DEF DueNoted
  <2> QED
    BY <1>4, <2>1, <2>2
<1>19. OwnEntry'
  <2> SUFFICES ASSUME NEW e \in Decoders
               PROVE  /\ task'[e].step \in {"set", "reset"} => task'[e].grant
                      /\ task'[e].step = "get" /\ task'[e].grant =>
                            ~pending_ack'[TtiMod(task'[e].air)].enabled
                      /\ task'[e].step = "set" => Plus(task'[e].air, AckDelay) \in due'
                      /\ task'[e].step \in {"decode", "nack"} => task'[e].air \notin due'
    BY DEF OwnEntry, TtiMod, Plus
  <2>1. CASE e = d
    <3>1. s = "reset" => task[d].grant
      BY <1>i2, <1>1 DEF OwnEntry, s
    <3>2. s = "nack" => a \notin due
      BY <1>i2, <1>1 DEF OwnEntry, s
    <3>3. a # f
      BY <1>2, <1>3
    <3> QED
      BY <1>4, <1>5, <1>6, <2>1, <3>1, <3>2, <3>3
  <2>2. CASE e # d
    <3>1. task'[e] = task[e]
      BY <1>6, <2>2
    <3>2. CASE task[e].step \in Steps
      <4>1. task[e].air \in Ttis /\ Past(task[e].air) /\ task[e].air # f
        BY <1>i, <1>3, <3>2, BusyTask
      <4>2. TtiMod(task[e].air) # TtiMod(f) /\ TtiMod(task[e].air) \in 0 .. TtiModSz - 1
        BY <1>i, <1>3, <4>1, OwnSlots, SlotType
      <4>3. pending_ack'[TtiMod(task[e].air)] = pending_ack[TtiMod(task[e].air)]
        BY <1>7, <4>2
      <4>4. /\ task[e].step \in {"set", "reset"} => task[e].grant
            /\ task[e].step = "get" /\ task[e].grant => ~pending_ack[TtiMod(task[e].air)].enabled
            /\ task[e].step = "set" => Plus(task[e].air, AckDelay) \in due
            /\ task[e].step \in {"decode", "nack"} => task[e].air \notin due
        BY <1>i2 DEF OwnEntry
      <4>5. due \subseteq due' /\ (task[e].air \notin due => task[e].air \notin due')
        BY <1>4, <4>1
      <4> QED
        BY <3>1, <4>3, <4>4, <4>5
    <3>3. CASE task[e].step \notin Steps
      BY <3>1, <3>3 DEF Steps
    <3> QED
      BY <3>2, <3>3
  <2> QED
    BY <2>1, <2>2
<1> QED
  BY <1>4, <1>11, <1>12, <1>14, <1>15, <1>16, <1>18, <1>19 DEF ListInv

(* A decoder clears the slot of its own subframe: when that has a grant,   *)
(* or when its acknowledgement was decoded.                                *)
LEMMA ClearInv ==
  ASSUME Sizes, PhichInv, missed = 0, NEW d \in Decoders,
         ResetAck(d) \/ DecodeAck(d) \/ ResetAfterNack(d)
  PROVE  ListInv' /\ missed' = 0
<1> DEFINE a == task[d].air
<1>i. ListInv /\ air \in Ttis
  BY DEF PhichInv, SfnInv, TypeOK, Ttis
<1>i2. ListType /\ TrueTtis /\ InWork /\ Entries /\ DueUnread /\ DueNoted /\ OwnEntry
  BY <1>i DEF ListInv
<1>1. task[d].step \in {"reset", "decode", "nack"}
  BY DEF ResetAck, DecodeAck, ResetAfterNack
<1>2. /\ Busy(d) /\ a \in Ttis /\ task[d].tti = a /\ dl_tti[d] = a /\ Past(a)
      /\ task[d] \in Tasks
  BY <1>i, <1>1, BusyTask DEF Steps
<1>3. pending_ack' = [pending_ack EXCEPT ![TtiMod(a)] = NotPending] /\ missed' = 0
  BY <1>2 DEF ResetAck, DecodeAck, ResetAfterNack, ResetPendingAck
<1>4. UNCHANGED <<air, decode_pdcch, gap, dl_tti, due>>
  BY DEF ResetAck, DecodeAck, ResetAfterNack, vars
<1>5. /\ DOMAIN task' = Decoders /\ \A e \in Decoders : task'[e] = Idle \/ task'[e] \in Tasks
      /\ \A e \in Decoders : e # d => task'[e] = task[e]
      /\ \/ /\ task[d].step = "reset" /\ task'[d].step = "get" /\ task'[d].air = a
            /\ task'[d].tti = a /\ task'[d].grant = task[d].grant
         \/ /\ task[d].step \in {"decode", "nack"} /\ task'[d] = Idle
  <2>1. CASE ResetAck(d)
    BY <1>i2, <1>2, <2>1, TaskMoves DEF ResetAck, Steps
  <2>2. CASE DecodeAck(d) \/ ResetAfterNack(d)
    <3>1. task' = [task EXCEPT ![d] = Idle] /\ task[d].step \in {"decode", "nack"}
      BY <2>2 DEF DecodeAck, ResetAfterNack
    <3> QED
      BY <1>i2, <3>1 DEF ListType
  <2> QED
    BY <2>1, <2>2
<1>6. /\ TtiMod(a) \in 0 .. TtiModSz - 1
      /\ ~pending_ack'[TtiMod(a)].enabled
      /\ \A n \in 0 .. TtiModSz - 1 : n # TtiMod(a) => pending_ack'[n] = pending_ack[n]
      /\ pending_ack' \in [0 .. TtiModSz - 1 -> [enabled : BOOLEAN, for : Ttis]]
  <2>1. TtiMod(a) \in 0 .. TtiModSz - 1
    BY <1>2, SlotType
  <2>2. NotPending \in [enabled : BOOLEAN, for : Ttis] /\ NotPending.enabled = FALSE
    BY SizeNumbers DEF NotPending, Ttis
  <2> QED
    BY <1>i2, <1>3, <2>1, <2>2 DEF ListType
<1> HIDE DEF a
<1>7. \A e \in Decoders : task'[e].step \in Steps =>
         /\ task[e].step \in Steps
         /\ task'[e].air = task[e].air /\ task'[e].tti = task[e].tti
         /\ task'[e].grant = task[e].grant
         /\ e # d => task'[e] = task[e]
         /\ e = d => task'[d].step = "get" /\ task[d].step = "reset"
  BY <1>1, <1>2, <1>5 DEF Idle, Steps, a
<1>8. \A e \in Decoders : (Busy(e)' => task'[e].step \in Steps)
                          /\ (task[e].step \in Steps => Busy(e) /\ task[e].air \in Ttis)
  <2>1. \A e \in Decoders : task[e].step \in Steps => Busy(e) /\ task[e].air \in Ttis
    BY <1>i, BusyTask
  <2>2. \A e \in Decoders : Busy(e)' => task'[e].step \in Steps
    BY <1>5 DEF Busy, Idle, Tasks
  <2> QED
    BY <2>1, <2>2
<1>9. \A g \in Ttis : (Past(g)' <=> Past(g)) /\ (Coming(g)' <=> Coming(g))
  BY <1>4 DEF Past, Coming, Dist
<1>11. ListType'
  BY <1>i2, <1>4, <1>5, <1>6 DEF ListType
<1>12. TrueTtis'
  <2>1. decode_pdcch
    BY <1>i2, <1>2 DEF TrueTtis
  <2> QED
    BY <1>i2, <1>4, <2>1 DEF TrueTtis
<1>14. InWork'
  BY <1>i2, <1>4, <1>7, <1>8, <1>9 DEF InWork
<1>15. Entries'
  <2> SUFFICES ASSUME NEW n \in 0 .. TtiModSz - 1, pending_ack'[n].enabled
               PROVE  /\ TtiMod(pending_ack'[n].for) = n
                      /\ \/ pending_ack'[n].for \in due'
                         \/ \E e \in Decoders : At(e, pending_ack[n].for, {"decode", "nack"})'
    BY DEF Entries, TtiMod
  <2>1. n # TtiMod(a) /\ pending_ack'[n] = pending_ack[n]
    BY <1>6
  <2>2. ASSUME NEW e \in Decoders, At(e, pending_ack[n].for, {"decode", "nack"}),
               TtiMod(pending_ack[n].for) = n
        PROVE  At(e, pending_ack[n].for, {"decode", "nack"})'
    <3>1. e # d
      BY <2>1, <2>2 DEF At, a
    <3> QED
      BY <1>5, <2>1, <2>2, <3>1 DEF At
  <2> QED
    BY <1>i2, <1>4, <2>1, <2>2 DEF Entries
<1>16. DueUnread'
  <2> SUFFICES ASSUME NEW g \in due
               PROVE  Coming(g)' \/ \E e \in Decoders : At(e, g, {"set", "reset", "get"})'
    BY <1>4 DEF DueUnread
  <2>1. g \in Ttis
    BY <1>i2 DEF ListType
  <2>2. ASSUME NEW e \in Decoders, At(e, g, {"set", "reset", "get"})
        PROVE  At(e, g, {"set", "reset", "get"})'
    BY <1>5, <2>2 DEF At, a
  <2> QED
    BY <1>i2, <1>9, <2>1, <2>2 DEF DueUnread
<1>18. DueNoted'
  <2> SUFFICES ASSUME NEW g \in due
               PROVE  \/ Holds(g)'
                      \/ \E e \in Decoders : task'[e].step = "set" /\ g = Plus(task'[e].air, AckDelay)
                      \/ \E e \in Decoders : At(e, g, {"get"})' /\ task'[e].grant
    BY <1>4 DEF DueNoted, Plus
  <2>1. g \in Ttis /\ TtiMod(g) \in 0 .. TtiModSz - 1
    BY <1>i2, SlotType DEF ListType
  <2>2. CASE Holds(g) /\ TtiMod(g) # TtiMod(a)
    BY <1>6, <2>1, <2>2 DEF Holds, TtiMod
  <2>3. CASE TtiMod(g) = TtiMod(a)
    <3>1. g = a
      BY <1>i, <1>2, <2>3, DueNear, OwnSlots
    <3>2. task[d].step = "reset"
      BY <1>i2, <1>1, <3>1 DEF OwnEntry, a
    <3>3. At(d, g, {"get"})' /\ task'[d].grant
      BY <1>i2, <1>5, <3>1, <3>2 DEF At, OwnEntry, Idle
    <3> QED
      BY <3>3
  <2>4. ASSUME NEW e \in Decoders, task[e].step = "set" /\ g = Plus(task[e].air, AckDelay)
        PROVE  task'[e].step = "set" /\ g = Plus(task'[e].air, AckDelay)
    BY <1>1, <1>5, <2>4
  <2>5. ASSUME NEW e \in Decoders, At(e, g, {"get"}) /\ task[e].grant
        PROVE  At(e, g, {"get"})' /\ task'[e].grant
    BY <1>1, <1>5, <2>5 DEF At
  <2> QED
    BY <1>i2, <2>2, <2>3, <2>4, <2>5 DEF DueNoted
<1>19. OwnEntry'
  <2> SUFFICES ASSUME NEW e \in Decoders
               PROVE  /\ task'[e].step \in {"set", "reset"} => task'[e].grant
                      /\ task'[e].step = "get" /\ task'[e].grant =>
                            ~pending_ack'[TtiMod(task'[e].air)].enabled
                      /\ task'[e].step = "set" => Plus(task'[e].air, AckDelay) \in due
                      /\ task'[e].step \in {"decode", "nack"} => task'[e].air \notin due
    BY <1>4 DEF OwnEntry, TtiMod, Plus
  <2>1. CASE e = d
    BY <1>5, <1>6, <2>1 DEF Idle
  <2>2. CASE e # d
    <3>1. task'[e] = task[e]
      BY <1>5, <2>2
    <3>2. task[e].step = "get" =>
             (~pending_ack[TtiMod(task[e].air)].enabled => ~pending_ack'[TtiMod(task[e].air)].enabled)
      <4>1. task[e].step = "get" => TtiMod(task[e].air) \in 0 .. TtiModSz - 1
        BY <1>8, SlotType DEF Steps
      <4> QED
        BY <1>6, <4>1
    <3>3. /\ task[e].step \in {"set", "reset"} => task[e].grant
          /\ task[e].step = "get" /\ task[e].grant => ~pending_ack[TtiMod(task[e].air)].enabled
          /\ task[e].step = "set" => Plus(task[e].air, AckDelay) \in due
          /\ task[e].step \in {"decode", "nack"} => task[e].air \notin due
      BY <1>i2 DEF OwnEntry
    <3> QED
      BY <3>1, <3>2, <3>3
  <2> QED
    BY <2>1, <2>2
<1> QED
  BY <1>3, <1>11, <1>12, <1>14, <1>15, <1>16, <1>18, <1>19 DEF ListInv

(* A decoder reads the list: it finds what is due and nothing else.        *)
LEMMA ReadInv ==
  ASSUME Sizes, PhichInv, missed = 0, NEW d \in Decoders, GetAck(d)
  PROVE  /\ ListInv' /\ missed' = 0
         /\ task'[d].step = "decode" <=> (task[d].air \in due /\ ~task[d].grant)
         /\ task'[d].step = "decode" => GetPendingAck(dl_tti[d]).for = task[d].air
<1> DEFINE a == task[d].air
           p == pending_ack[TtiMod(a)]
<1>i. ListInv /\ air \in Ttis
  BY DEF PhichInv, SfnInv, TypeOK, Ttis
<1>i2. ListType /\ TrueTtis /\ InWork /\ Entries /\ DueUnread /\ DueNoted /\ OwnEntry
  BY <1>i DEF ListInv
<1>1. task[d].step = "get"
  BY DEF GetAck
<1>2. /\ Busy(d) /\ a \in Ttis /\ task[d].tti = a /\ dl_tti[d] = a /\ Past(a)
      /\ task[d] \in Tasks
  BY <1>i, <1>1, BusyTask DEF Steps
<1>3. /\ task' = [task EXCEPT ![d] = IF p.enabled THEN [task[d] EXCEPT !.step = "decode"] ELSE Idle]
      /\ due' = due \ {a} /\ missed' = 0
      /\ UNCHANGED <<air, decode_pdcch, gap, dl_tti, pending_ack>>
  BY <1>i2, <1>2 DEF GetAck, GetPendingAck, vars, ListType
<1>4. TtiMod(a) \in 0 .. TtiModSz - 1 /\ p \in [enabled : BOOLEAN, for : Ttis]
  BY <1>i2, <1>2, SlotType DEF ListType
<1>n. ~Coming(a)
  BY <1>i, <1>2, AckIsComing
<1>5. \A e \in Decoders : task[e].step \in Steps /\ task[e].air = a => e = d
  BY <1>i2, <1>2 DEF InWork, Busy, Steps
\* The entry in the slot was noted for this subframe ...
<1>6. p.enabled => p.for = a /\ a \in due /\ ~task[d].grant
  <2> SUFFICES ASSUME p.enabled PROVE p.for = a /\ a \in due /\ ~task[d].grant
    OBVIOUS
  <2>1. ~task[d].grant
    BY <1>i2, <1>1 DEF OwnEntry
  <2>2. /\ TtiMod(p.for) = TtiMod(a) /\ p.for \in Ttis
        /\ p.for \in due \/ \E e \in Decoders : At(e, p.for, {"decode", "nack"})
    BY <1>i2, <1>4 DEF Entries
  <2>3. Past(p.for) \/ Coming(p.for)
    BY <1>i, <2>2, DueNear, BusyTask DEF At, Steps
  <2>4. p.for = a
    BY <1>i, <1>2, <2>2, <2>3, OwnSlots
  <2>5. ~\E e \in Decoders : At(e, a, {"decode", "nack"})
    BY <1>1, <1>5 DEF At, Steps
  <2> QED
    BY <2>1, <2>2, <2>4, <2>5
\* ... and what is due was noted, for the decoder that had to note it is done.
<1>7. a \in due /\ ~task[d].grant => p.enabled
  <2> SUFFICES ASSUME a \in due, ~task[d].grant PROVE p.enabled
    OBVIOUS
  <2>1. ASSUME NEW e \in Decoders, task[e].step = "set", a = Plus(task[e].air, AckDelay)
        PROVE  FALSE
    BY <1>i, <1>n, <2>1, BusyTask, AckIsComing DEF Steps
  <2>2. ASSUME NEW e \in Decoders, At(e, a, {"get"}), task[e].grant PROVE FALSE
    BY <1>5, <2>2 DEF At, Steps
  <2>3. Holds(a)
    BY <1>i2, <2>1, <2>2 DEF DueNoted
  <2> QED
    BY <2>3 DEF Holds
<1>8. /\ DOMAIN task' = Decoders /\ \A e \in Decoders : task'[e] = Idle \/ task'[e] \in Tasks
      /\ \A e \in Decoders : e # d => task'[e] = task[e]
      /\ p.enabled => /\ task'[d].step = "decode" /\ task'[d].air = a /\ task'[d].tti = a
                      /\ task'[d].grant = task[d].grant
      /\ ~p.enabled => task'[d] = Idle
  <2> DEFINE t == IF p.enabled THEN [task[d] EXCEPT !.step = "decode"] ELSE Idle
  <2>1. /\ t = Idle \/ t \in Tasks
        /\ p.enabled => t.step = "decode" /\ t.air = a /\ t.tti = a /\ t.grant = task[d].grant
        /\ ~p.enabled => t = Idle
    BY <1>2 DEF Tasks, Steps
  <2>2. task' = [task EXCEPT ![d] = t]
    BY <1>3
  <2> HIDE DEF t, p
  <2> QED
    BY <1>i2, <2>1, <2>2 DEF ListType
<1> HIDE DEF p, a
<1>9. \A e \in Decoders : task'[e].step \in Steps =>
         /\ task[e].step \in Steps
         /\ task'[e].air = task[e].air /\ task'[e].tti = task[e].tti
         /\ task'[e].grant = task[e].grant
  BY <1>1, <1>2, <1>8 DEF Idle, Steps, a
<1>10. \A e \in Decoders : (Busy(e)' => task'[e].step \in Steps)
                           /\ (task[e].step \in Steps => Busy(e) /\ task[e].air \in Ttis)
  <2>1. \A e \in Decoders : task[e].step \in Steps => Busy(e) /\ task[e].air \in Ttis
    BY <1>i, BusyTask
  <2>2. \A e \in Decoders : Busy(e)' => task'[e].step \in Steps
    BY <1>8 DEF Busy, Idle, Tasks
  <2> QED
    BY <2>1, <2>2
<1>11. \A g \in Ttis : (Past(g)' <=> Past(g)) /\ (Coming(g)' <=> Coming(g))
  BY <1>3 DEF Past, Coming, Dist
<1>12. ListType'
  BY <1>i2, <1>3, <1>8 DEF ListType
<1>13. TrueTtis'
  <2>1. decode_pdcch
    BY <1>i2, <1>2 DEF TrueTtis
  <2> QED
    BY <1>i2, <1>3, <2>1 DEF TrueTtis
<1>14. InWork'
  BY <1>i2, <1>3, <1>9, <1>10, <1>11 DEF InWork
<1>15. Entries'
  <2> SUFFICES ASSUME NEW n \in 0 .. TtiModSz - 1, pending_ack[n].enabled
               PROVE  /\ TtiMod(pending_ack[n].for) = n
                      /\ \/ pending_ack[n].for \in due'
                         \/ \E e \in Decoders : At(e, pending_ack[n].for, {"decode", "nack"})'
    BY <1>3 DEF Entries, TtiMod
  <2>1. /\ TtiMod(pending_ack[n].for) = n
        /\ \/ pending_ack[n].for \in due
           \/ \E e \in Decoders : At(e, pending_ack[n].for, {"decode", "nack"})
    BY <1>i2 DEF Entries
  <2>2. CASE pending_ack[n].for = a
    <3>1. n = TtiMod(a) /\ p.enabled
      BY <2>1, <2>2 DEF p
    <3>2. At(d, pending_ack[n].for, {"decode", "nack"})'
      BY <1>3, <1>8, <2>2, <3>1 DEF At
    <3> QED
      BY <2>1, <3>2
  <2>3. CASE pending_ack[n].for # a
    <3>1. ASSUME NEW e \in Decoders, At(e, pending_ack[n].for, {"decode", "nack"})
          PROVE  At(e, pending_ack[n].for, {"decode", "nack"})'
      BY <1>1, <1>3, <1>8, <3>1 DEF At
    <3> QED
      BY <1>3, <2>1, <2>3, <3>1
  <2> QED
    BY <2>2, <2>3
<1>16. DueUnread'
  <2> SUFFICES ASSUME NEW g \in due, g # a
               PROVE  Coming(g)' \/ \E e \in Decoders : At(e, g, {"set", "reset", "get"})'
    BY <1>3 DEF DueUnread
  <2>1. g \in Ttis
    BY <1>i2 DEF ListType
  <2>2. ASSUME NEW e \in Decoders, At(e, g, {"set", "reset", "get"})
        PROVE  At(e, g, {"set", "reset", "get"})'
    BY <1>8, <2>2 DEF At, a
  <2> QED
    BY <1>i2, <1>11, <2>1, <2>2 DEF DueUnread
<1>17. DueNoted'
  <2> SUFFICES ASSUME NEW g \in due, g # a
               PROVE  \/ Holds(g)'
                      \/ \E e \in Decoders : task'[e].step = "set" /\ g = Plus(task'[e].air, AckDelay)
                      \/ \E e \in Decoders : At(e, g, {"get"})' /\ task'[e].grant
    BY <1>3 DEF DueNoted, Plus
  <2>1. Holds(g) => Holds(g)'
    BY <1>3 DEF Holds, TtiMod
  <2>2. ASSUME NEW e \in Decoders, task[e].step = "set" /\ g = Plus(task[e].air, AckDelay)
        PROVE  task'[e].step = "set" /\ g = Plus(task'[e].air, AckDelay)
    BY <1>1, <1>8, <2>2
  <2>3. ASSUME NEW e \in Decoders, At(e, g, {"get"}) /\ task[e].grant
        PROVE  At(e, g, {"get"})' /\ task'[e].grant
    BY <1>8, <2>3 DEF At, a
  <2> QED
    BY <1>i2, <2>1, <2>2, <2>3 DEF DueNoted
<1>18. OwnEntry'
  <2> SUFFICES ASSUME NEW e \in Decoders
               PROVE  /\ task'[e].step \in {"set", "reset"} => task'[e].grant
                      /\ task'[e].step = "get" /\ task'[e].grant =>
                            ~pending_ack[TtiMod(task'[e].air)].enabled
                      /\ task'[e].step = "set" => Plus(task'[e].air, AckDelay) \in due'
                      /\ task'[e].step \in {"decode", "nack"} => task'[e].air \notin due'
    BY <1>3 DEF OwnEntry, TtiMod, Plus
  <2>1. CASE e = d
    BY <1>3, <1>8, <2>1 DEF Idle
  <2>2. CASE e # d
    <3>1. task'[e] = task[e]
      BY <1>8, <2>2
    <3>2. task[e].step = "set" => Plus(task[e].air, AckDelay) # a
      BY <1>i, <1>n, BusyTask, AckIsComing DEF Steps
    <3>3. /\ task[e].step \in {"set", "reset"} => task[e].grant
          /\ task[e].step = "get" /\ task[e].grant => ~pending_ack[TtiMod(task[e].air)].enabled
          /\ task[e].step = "set" => Plus(task[e].air, AckDelay) \in due
          /\ task[e].step \in {"decode", "nack"} => task[e].air \notin due
      BY <1>i2 DEF OwnEntry
    <3>4. due' = due \ {a}
      BY <1>3
    <3> QED
      BY <3>1, <3>2, <3>3, <3>4
  <2> QED
    BY <2>1, <2>2
<1>19. ListInv'
  BY <1>12, <1>13, <1>14, <1>15, <1>16, <1>17, <1>18 DEF ListInv
<1>20. task'[d].step = "decode" <=> p.enabled
  BY <1>8 DEF Idle
<1>21. task'[d].step = "decode" <=> (task[d].air \in due /\ ~task[d].grant)
  BY <1>6, <1>7, <1>20 DEF a
<1>22. task'[d].step = "decode" => GetPendingAck(dl_tti[d]).for = task[d].air
  BY <1>2, <1>6, <1>20 DEF a, p, GetPendingAck
<1> QED
  BY <1>3, <1>19, <1>21, <1>22

(* Before the first MIB nothing is in work, so time may pass.              *)
LEMMA WaitInv ==
  ASSUME ListInv, ~decode_pdcch, ~decode_pdcch', UNCHANGED <<pending_ack, dl_tti, task, due>>
  PROVE  ListInv'
<1>1. /\ \A d \in Decoders : ~Busy(d) /\ ~Busy(d)' /\ task[d].step = "idle"
      /\ due = {} /\ due' = {}
  BY DEF ListInv, TrueTtis, Busy
<1>2. ListType' /\ TrueTtis' /\ InWork'
  BY <1>1 DEF ListInv, ListType, TrueTtis, InWork
<1>3. Entries'
  BY <1>1 DEF ListInv, Entries, At, TtiMod
<1>4. DueUnread' /\ DueNoted' /\ OwnEntry'
  BY <1>1 DEF DueUnread, DueNoted, OwnEntry
<1> QED
  BY <1>2, <1>3, <1>4 DEF ListInv

(* A subframe that is not empty goes to an idle decoder.                   *)
LEMMA DispatchInv ==
  ASSUME Sizes, PhichInv, missed = 0, NEW found \in BOOLEAN, Dispatch(found), missed' = 0
  PROVE  ListInv'
<1>i. ListInv /\ SfnInv /\ air \in Ttis
  BY DEF PhichInv, SfnInv, TypeOK, Ttis
<1>i2. ListType /\ TrueTtis /\ InWork /\ Entries /\ DueUnread /\ DueNoted /\ OwnEntry
  BY <1>i DEF ListInv
<1>0. PICK a \in Ttis : a = air
  BY <1>i
<1>1. InStep /\ ReceiveSubframe(found)
  BY DEF Dispatch
<1>2. CASE ~decode_pdcch'
  <2>1. UNCHANGED phichVars
    BY <1>2 DEF Dispatch
  <2>2. ~decode_pdcch
    BY <1>1, <1>2 DEF ReceiveSubframe, Synced
  <2> QED
    BY <1>i, <1>2, <2>1, <2>2, WaitInv DEF phichVars
<1>3. CASE decode_pdcch'
  <2>1. PICK d \in Decoders, grant \in BOOLEAN, empty \in BOOLEAN :
           /\ ~Busy(d)
           /\ task' = [task EXCEPT ![d] = [step |-> IF grant THEN "set" ELSE "get", tti |-> sent'[1],
                                           air |-> a, grant |-> grant, empty |-> empty]]
           /\ dl_tti' = [dl_tti EXCEPT ![d] = IF empty THEN @ ELSE sent'[1]]
           /\ missed' = IF empty THEN missed + 1 ELSE IF grant THEN Count ELSE missed
           /\ due' = IF missed' > 0 THEN {} ELSE IF grant THEN due \cup {AirAck(a)} ELSE due
    BY <1>0, <1>3 DEF Dispatch
  <2>2. ~empty
    BY <2>1
  <2>3. pending_ack' = pending_ack
    BY <1>3 DEF Dispatch
  <2>4. ~gap' /\ sent'[1] = a /\ air' = Plus(a, 1)
    <3>1. ~gap'
      BY <1>i2, <1>1, <1>3 DEF TrueTtis, ReceiveSubframe, Synced
    <3>2. sent'[2] = air
      BY <1>1, <1>3 DEF ReceiveSubframe, Synced
    <3>3. SfnInv' /\ ((sent' # sent /\ ~gap') => sent'[1] = sent'[2])
      BY <1>i, <1>1, SyncedRight
    <3>4. sent'[1] = air
      <4> DEFINE sfn_tmp == IF found THEN MibSfn ELSE 0
                 sfn_now == IF sfn_tmp > 0 THEN sfn_tmp ELSE sfn
      <4>1. sent'[1] = (sfn_now * SfPerFrame) + AirSf /\ gap' = (gap /\ ~(sfn_tmp > 0))
        BY <1>1, <1>3 DEF ReceiveSubframe, Synced
      <4>2. MibSfn = AirSfn /\ ((decode_pdcch /\ ~gap) => sfn = AirSfn)
        BY <1>i, MibRight DEF SfnInv, CounterRight
      <4>3. sfn_now = AirSfn
        <5> HIDE DEF sfn_tmp
        <5>1. (decode_pdcch /\ ~gap) \/ sfn_tmp > 0
          <6>1. decode_pdcch' = (decode_pdcch \/ sfn_tmp > 0)
            BY <1>1 DEF ReceiveSubframe, Synced, sfn_tmp
          <6> QED
            BY <1>3, <3>1, <4>1, <6>1
        <5>2. sfn_tmp > 0 => sfn_tmp = AirSfn
          BY <4>2 DEF sfn_tmp
        <5> QED
          BY <4>2, <5>1, <5>2
      <4>4. /\ AirSfn \in 0 .. NofSfn - 1 /\ AirSf \in 0 .. SfPerFrame - 1
            /\ air = (AirSfn * SfPerFrame) + AirSf
        BY <1>i, TtiParts DEF AirSfn, AirSf, Ttis
      <4> QED
        BY <4>1, <4>3, <4>4
    <3> QED
      BY <1>0, <1>1, <3>1, <3>4, TtiArithmetic DEF ReceiveSubframe, AirNext
  <2>5. due' = IF grant THEN due \cup {Plus(a, AckDelay)} ELSE due
    <3>1. AirAck(a) = Plus(a, AckDelay) /\ ~(missed' > 0)
      BY TtiArithmetic
    <3> QED
      BY <2>1, <3>1
  <2> DEFINE t == [step |-> IF grant THEN "set" ELSE "get", tti |-> a,
                   air |-> a, grant |-> grant, empty |-> empty]
  <2>6. /\ DOMAIN task' = Decoders /\ task'[d] = t
        /\ \A e \in Decoders : e # d => task'[e] = task[e]
    BY <1>i2, <2>1, <2>4 DEF ListType
  <2>7. /\ t \in Tasks /\ t.step = (IF grant THEN "set" ELSE "get")
        /\ t.tti = a /\ t.air = a /\ t.grant = grant
    BY DEF Tasks, Steps
  <2> HIDE DEF t
  <2>8. dl_tti' \in [Decoders -> Ttis] /\ dl_tti'[d] = a
        /\ \A e \in Decoders : e # d => dl_tti'[e] = dl_tti[e]
    BY <1>i2, <2>1, <2>2, <2>4 DEF ListType
  <2>9. Plus(a, AckDelay) \in Ttis
    BY <1>i, AckIsComing
  <2>10. task[d].step = "idle" /\ \A e \in Decoders : task[e].step \in Steps => e # d
    BY <2>1 DEF Busy, Steps
  <2>11. /\ Past(a)' /\ Coming(Plus(a, AckDelay))'
         /\ \A f \in Ttis : f # a /\ Coming(f) => Coming(f)'
         /\ \A f \in Ttis : Dist(f, a) < MaxLag => Past(f)'
    <3>1. /\ Dist(a, air') = 1 /\ Dist(air', Plus(a, AckDelay)) = AckDelay - 1
          /\ \A f \in Ttis : f # a => Dist(air', f) = Dist(a, f) - 1
          /\ \A f \in Ttis : Dist(f, a) < MaxLag => Dist(f, air') = Dist(f, a) + 1
      BY <2>4, Advance
    <3>2. MaxLag \in Nat /\ AckDelay \in Nat /\ 1 \in 1 .. MaxLag /\ AckDelay - 1 < AckDelay
      BY SizeNumbers
    <3>3. \A f \in Ttis : Dist(f, a) \in Nat /\ Dist(a, f) \in Nat
      BY SizeNumbers DEF Dist, Ttis
    <3>4. Past(a)' /\ Coming(Plus(a, AckDelay))'
      BY <3>1, <3>2 DEF Past, Coming, Dist, Plus
    <3>5. ASSUME NEW f \in Ttis, f # a, Dist(a, f) < AckDelay PROVE Dist(air', f) < AckDelay
      BY <3>1, <3>2, <3>3, <3>5
    <3>6. ASSUME NEW f \in Ttis, Dist(f, a) < MaxLag PROVE Dist(f, air') \in 1 .. MaxLag
      BY <3>1, <3>2, <3>3, <3>6
    <3> QED
      BY <1>0, <3>4, <3>5, <3>6 DEF Past, Coming, Dist
  <2>12. ASSUME NEW e \in Decoders, Busy(e)
         PROVE  e # d /\ task[e].air \in Ttis /\ task[e].air # a /\ Past(task[e].air)'
    <3>1. e # d /\ task[e].air \in Ttis /\ Past(task[e].air)
      BY <1>i2, <2>1, <2>12 DEF ListType, Busy, Idle, Tasks, InWork
    <3>2. PICK f \in Ttis : f = task[e].air
      BY <3>1
    <3>3. Dist(f, a) < MaxLag
      <4>1. (air - task[e].air) % NofTti < MaxLag
        BY <1>1, <2>12 DEF InStep, Lag
      <4> QED
        BY <1>0, <3>2, <4>1, TtiArithmetic
    <3>4. f # a
      BY <1>0, <3>1, <3>2, SizeNumbers DEF Past, Dist, Ttis
    <3>5. task'[e] = task[e]
      BY <2>6, <3>1
    <3> QED
      BY <2>11, <3>1, <3>2, <3>3, <3>4, <3>5
  <2>13. ListType'
    BY <1>i2, <2>3, <2>5, <2>6, <2>7, <2>8, <2>9 DEF ListType
  <2>14. TrueTtis'
    BY <1>3, <2>4 DEF TrueTtis
  <2>15. InWork'
    <3>1. \A e \in Decoders : Busy(e)' => e = d \/ (e # d /\ Busy(e) /\ task'[e] = task[e])
      BY <2>6 DEF Busy
    <3>2. Past(task[d].air)'
      BY <2>6, <2>7, <2>11 DEF Past, Dist
    <3>3. ASSUME NEW e \in Decoders, Busy(e)'
          PROVE  task'[e].tti = task'[e].air /\ dl_tti'[e] = task'[e].air /\ Past(task[e].air)'
      <4>1. CASE e = d
        BY <2>6, <2>7, <2>8, <3>2, <4>1
      <4>2. CASE e # d
        <5>1. Busy(e) /\ task'[e] = task[e] /\ dl_tti'[e] = dl_tti[e]
          BY <2>8, <3>1, <3>3, <4>2
        <5> QED
          BY <1>i2, <2>12, <5>1 DEF InWork
      <4> QED
        BY <4>1, <4>2
    <3>4. ASSUME NEW e \in Decoders, NEW c \in Decoders, Busy(e)', Busy(c)',
                 task'[e].air = task'[c].air
          PROVE  e = c
      BY <1>i2, <2>6, <2>7, <2>12, <3>1, <3>4 DEF InWork
    <3> QED
      BY <3>3, <3>4 DEF InWork
  <2>16. \A e \in Decoders : task[e].step \in Steps => task'[e] = task[e]
    BY <2>6, <2>10
  <2>17. Entries'
    <3> SUFFICES ASSUME NEW n \in 0 .. TtiModSz - 1, pending_ack[n].enabled
                 PROVE  /\ TtiMod(pending_ack[n].for) = n
                        /\ \/ pending_ack[n].for \in due'
                           \/ \E e \in Decoders : At(e, pending_ack[n].for, {"decode", "nack"})'
      BY <2>3 DEF Entries, TtiMod
    <3>1. ASSUME NEW e \in Decoders, At(e, pending_ack[n].for, {"decode", "nack"})
          PROVE  At(e, pending_ack[n].for, {"decode", "nack"})'
      BY <2>3, <2>16, <3>1 DEF At, Steps
    <3> QED
      BY <1>i2, <2>5, <3>1 DEF Entries
  <2>18. DueUnread'
    <3> SUFFICES ASSUME NEW f \in due'
                 PROVE  Coming(f)' \/ \E e \in Decoders : At(e, f, {"set", "reset", "get"})'
      BY DEF DueUnread
    <3>1. CASE f = Plus(a, AckDelay)
      BY <2>11, <3>1 DEF Coming, Dist, Plus
    <3>2. CASE f \in due
      <4>1. f \in Ttis
        BY <1>i2, <3>2 DEF ListType
      <4>2. CASE f = a
        BY <2>6, <2>7, <4>2 DEF At
      <4>3. CASE f # a /\ Coming(f)
        BY <2>11, <4>1, <4>3
      <4>4. ASSUME NEW e \in Decoders, At(e, f, {"set", "reset", "get"})
            PROVE  At(e, f, {"set", "reset", "get"})'
        BY <2>16, <4>4 DEF At, Steps
      <4> QED
        BY <1>i2, <3>2, <4>2, <4>3, <4>4 DEF DueUnread
    <3> QED
      BY <2>5, <3>1, <3>2
  <2>19. DueNoted'
    <3> SUFFICES ASSUME NEW f \in due'
                 PROVE  \/ Holds(f)'
                        \/ \E e \in Decoders : task'[e].step = "set" /\ f = Plus(task'[e].air, AckDelay)
                        \/ \E e \in Decoders : At(e, f, {"get"})' /\ task'[e].grant
      BY DEF DueNoted, Plus
    <3>1. CASE grant /\ f = Plus(a, AckDelay)
      BY <2>6, <2>7, <3>1
    <3>2. CASE f \in due
      <4>1. Holds(f) => Holds(f)'
        BY <2>3 DEF Holds, TtiMod
      <4>2. ASSUME NEW e \in Decoders, task[e].step = "set" /\ f = Plus(task[e].air, AckDelay)
            PROVE  task'[e].step = "set" /\ f = Plus(task'[e].air, AckDelay)
        BY <2>16, <4>2 DEF Steps
      <4>3. ASSUME NEW e \in Decoders, At(e, f, {"get"}) /\ task[e].grant
            PROVE  At(e, f, {"get"})' /\ task'[e].grant
        BY <2>16, <4>3 DEF At, Steps
      <4> QED
        BY <1>i2, <3>2, <4>1, <4>2, <4>3 DEF DueNoted
    <3> QED
      BY <2>5, <3>1, <3>2
  <2>20. OwnEntry'
    <3> SUFFICES ASSUME NEW e \in Decoders
                 PROVE  /\ task'[e].step \in {"set", "reset"} => task'[e].grant
                        /\ task'[e].step = "get" /\ task'[e].grant =>
                              ~pending_ack[TtiMod(task'[e].air)].enabled
                        /\ task'[e].step = "set" => Plus(task'[e].air, AckDelay) \in due'
                        /\ task'[e].step \in {"decode", "nack"} => task'[e].air \notin due'
      BY <2>3 DEF OwnEntry, TtiMod, Plus
    <3>1. CASE e = d
      BY <2>5, <2>6, <2>7, <3>1
    <3>2. CASE e # d
      <4>1. task'[e] = task[e]
        BY <2>6, <3>2
      <4>2. /\ task[e].step \in {"set", "reset"} => task[e].grant
            /\ task[e].step = "get" /\ task[e].grant => ~pending_ack[TtiMod(task[e].air)].enabled
            /\ task[e].step = "set" => Plus(task[e].air, AckDelay) \in due
            /\ task[e].step \in {"decode", "nack"} => task[e].air \notin due
        BY <1>i2 DEF OwnEntry
      <4>3. task[e].step \in {"decode", "nack"} => task[e].air # Plus(a, AckDelay)
        <5>1. task[e].step \in {"decode", "nack"} => task[e].air \in Ttis /\ Past(task[e].air)'
          BY <1>i, <2>12, BusyTask DEF Steps
        <5>2. ASSUME NEW f \in Ttis PROVE ~(Past(f)' /\ Coming(f)')
          <6>1. PICK b \in Ttis : b = air'
            BY <2>4, Advance
          <6>2. ~(Dist(f, b) \in 1 .. MaxLag /\ Dist(b, f) < AckDelay)
            BY NotBoth
          <6> QED
            BY <6>1, <6>2 DEF Past, Coming, Dist
        <5>3. PICK f : f = task'[e].air
          OBVIOUS
        <5>4. task[e].step \in {"decode", "nack"} => Past(f)'
          BY <4>1, <5>1, <5>3 DEF Past
        <5>5. PICK c \in Ttis : c = Plus(a, AckDelay)
          BY <2>9
        <5>6. Coming(c)'
          BY <2>11, <5>5 DEF Coming, Dist, Plus
        <5> QED
          BY <4>1, <5>2, <5>3, <5>4, <5>5, <5>6
      <4>4. due \subseteq due' /\ due' \subseteq due \cup {Plus(a, AckDelay)}
        BY <2>5
      <4> QED
        BY <4>1, <4>2, <4>3, <4>4
    <3> QED
      BY <3>1, <3>2
  <2> QED
    BY <2>13, <2>14, <2>15, <2>17, <2>18, <2>19, <2>20 DEF ListInv
<1> QED
  BY <1>2, <1>3

-----------------------------------------------------------------------------
(* At the start nothing is noted and nobody works.                         *)
LEMMA PhichInitInv == ASSUME Sizes, PhichInit PROVE PhichInv
<1>1. SfnInv
  <2>1. 0 \in 0 .. NofSfn - 1 /\ 0 \in 0 .. MaxLost
    OBVIOUS
  <2> QED
    BY <2>1 DEF PhichInit, Init, SfnInv, TypeOK, CounterRight
<1>2. 0 \in Ttis
  BY SizeNumbers DEF Ttis
<1>3. /\ \A d \in Decoders : task[d] = Idle /\ ~Busy(d) /\ task[d].step = "idle"
      /\ \A s \in 0 .. TtiModSz - 1 : ~pending_ack[s].enabled
      /\ due = {} /\ missed = 0 /\ decode_pdcch = FALSE
  BY DEF PhichInit, Init, Busy, Idle, NotPending
<1>4. ListType
  BY <1>2 DEF PhichInit, ListType, NotPending
<1>5. TrueTtis /\ InWork /\ Entries /\ DueUnread /\ DueNoted /\ OwnEntry
  BY <1>3 DEF TrueTtis, InWork, Entries, DueUnread, DueNoted, OwnEntry
<1> QED
  BY <1>1, <1>3, <1>4, <1>5 DEF PhichInv, ListInv

(* Every step keeps the invariant, and a subframe that was missed stays    *)
(* counted.                                                                *)
LEMMA PhichStep ==
  ASSUME Sizes, PhichInv, [PhichNext]_<<vars, phichVars>>
  PROVE  PhichInv'
<1>1. SfnInv'
  <2>1. SfnInv
    BY DEF PhichInv
  <2>2. CASE UNCHANGED vars
    BY <2>1, <2>2 DEF vars, SfnInv, TypeOK, CounterRight, AirSfn
  <2>3. ASSUME NEW found \in BOOLEAN, Dispatch(found) PROVE SfnInv'
    BY <2>1, <2>3, SyncedRight DEF Dispatch
  <2>4. CASE LoseSync
    BY <2>1, <2>4, LostRight DEF LoseSync
  <2>5. ASSUME NEW d \in Decoders, Decoder(d) PROVE UNCHANGED vars
    BY <2>5 DEF Decoder, SetAck, ResetAck, GetAck, DecodeAck, DecodeNack, ResetAfterNack
  <2> QED
    BY <2>2, <2>3, <2>4, <2>5 DEF PhichNext
<1>2. missed' \in Nat /\ (missed' = 0 => missed = 0)
  <2>1. missed \in Nat
    BY DEF PhichInv
  <2> QED
    BY <2>1 DEF PhichNext, Dispatch, LoseSync, Decoder, SetAck, ResetAck, GetAck, DecodeAck,
       DecodeNack, ResetAfterNack, Count, phichVars
<1>3. missed' = 0 => ListInv'
  <2> SUFFICES ASSUME missed' = 0 PROVE ListInv'
    OBVIOUS
  <2>0. missed = 0 /\ ListInv
    BY <1>2 DEF PhichInv
  <2>1. ASSUME NEW found \in BOOLEAN, Dispatch(found) PROVE ListInv'
    BY <2>0, <2>1, DispatchInv
  <2>2. CASE LoseSync
    <3>1. ~decode_pdcch /\ ~decode_pdcch' /\ UNCHANGED <<pending_ack, dl_tti, task, due>>
      BY <2>0, <2>2 DEF LoseSync, LoseSubframe
    <3> QED
      BY <2>0, <3>1, WaitInv
  <2>3. ASSUME NEW d \in Decoders, Decoder(d) PROVE ListInv'
    BY <2>0, <2>3, NoteInv, ClearInv, ReadInv DEF Decoder
  <2>4. CASE UNCHANGED <<vars, phichVars>>
    BY <2>0, <2>4 DEF vars, phichVars, ListInv, ListType, TrueTtis, InWork, Entries, DueUnread,
       DueNoted, OwnEntry, Busy, At, Holds, Past, Coming, Dist, TtiMod, Plus
  <2> QED
    BY <2>1, <2>2, <2>3, <2>4 DEF PhichNext
<1> QED
  BY <1>1, <1>2, <1>3 DEF PhichInv

(* As long as every subframe is decoded, at most AckDelay subframes late,  *)
(* each decoder learns from the shared list exactly whether its subframe   *)
(* carries an acknowledgement for the target, from the entry noted for     *)
(* that subframe, although entries are reset and read without ack_mutex.   *)
THEOREM ReadsRight == Sizes => (PhichSpec => ReadsWhatIsDue)
<1> SUFFICES ASSUME Sizes PROVE PhichSpec => ReadsWhatIsDue
  OBVIOUS
<1> DEFINE Reads == \A d \in Decoders : task[d].step = "get" /\ task'[d] # task[d] /\ missed = 0 =>
             /\ task'[d].step = "decode" <=> (task[d].air \in due /\ ~task[d].grant)
             /\ task'[d].step = "decode" => GetPendingAck(dl_tti[d]).for = task[d].air
<1>1. PhichInit => PhichInv
  BY PhichInitInv
<1>2. PhichInv /\ [PhichNext]_<<vars, phichVars>> => PhichInv'
  BY PhichStep
<1>3. PhichInv /\ [PhichNext]_<<vars, phichVars>> => [Reads]_<<vars, phichVars>>
  <2> SUFFICES ASSUME PhichInv, PhichNext, NEW d \in Decoders,
                      task[d].step = "get", task'[d] # task[d], missed = 0
               PROVE  /\ task'[d].step = "decode" <=> (task[d].air \in due /\ ~task[d].grant)
                      /\ task'[d].step = "decode" => GetPendingAck(dl_tti[d]).for = task[d].air
    OBVIOUS
  <2>1. Busy(d) /\ DOMAIN task = Decoders
    BY DEF Busy, PhichInv, ListInv, ListType
  <2>2. CASE GetAck(d)
    BY <2>2, ReadInv
  <2>3. ASSUME NEW found \in BOOLEAN, Dispatch(found) PROVE task'[d] = task[d]
    BY <2>1, <2>3 DEF Dispatch, phichVars
  <2>4. ASSUME NEW e \in Decoders, e # d, Decoder(e) PROVE task'[d] = task[d]
    BY <2>1, <2>4 DEF Decoder, SetAck, ResetAck, GetAck, DecodeAck, DecodeNack, ResetAfterNack
  <2>5. Decoder(d) => GetAck(d)
    BY DEF Decoder, SetAck, ResetAck, GetAck, DecodeAck, DecodeNack, ResetAfterNack
  <2>6. LoseSync => task'[d] = task[d]
    BY DEF LoseSync
  <2> QED
    BY <2>2, <2>3, <2>4, <2>5, <2>6 DEF PhichNext
<1> QED
  BY <1>1, <1>2, <1>3, PTL DEF PhichSpec, ReadsWhatIsDue
=============================================================================
