------------------------- MODULE DecoderPoolProofs -------------------------
(***************************************************************************)
(* Proofs about DecoderPool for every number of decoders, every capacity of*)
(* the containers and any number of subframes.                             *)
(***************************************************************************)
EXTENDS DecoderPool, SequenceTheorems, TLAPS

USE PoolAssumption

\* What the proofs below assume of the platform: pthread_cond_wait returns
\* only when signalled, and the decoders have started before the first
\* subframe arrives.
Platform == MaxSpurious = 0 /\ SleepSuffices

(* The token protocol.  A decoder that find_idle_decoder has handed out is *)
(* marked and sits in, or just before, its condition wait; a decoder that  *)
(* is not marked is not working.                                           *)
Handshake ==
    /\ \A d \in Decoders : TakenByScheduler(d) \/ TakenByHandler(d) =>
            token[d] /\ pc[d] \in {"released", "waiting"}
    /\ \A d \in Decoders : ~token[d] => pc[d] \in {"start", "released", "waiting"}
    /\ TakenExclusive

(* Nothing moves before the first subframe ...                             *)
Quiet == sf_cnt = 0 => spc = "sync" /\ hpc = "sleep" /\ tmp = << >> /\ skip = << >>

(* ... and by then the decoders have started.                              *)
Started == sf_cnt > 0 => \A d \in Decoders : pc[d] # "start"

(* The handler only loops over a container that has something in it.       *)
HandlerBusy ==
    /\ hpc \in {"skip", "skipAssign"} => skip # << >>
    /\ hpc \in {"ring", "ringAssign"} => tmp # << >>

Open(i) == reported[i] = 0 /\ i \notin dropped
InDecoder(i) == \E d \in Decoders : HeldByDecoder(d, i)

(* A subframe is in one place: it has one copy, it leaves its place when it*)
(* moves on, and it is reported or dropped only once it has left them all. *)
OnePlace ==
    /\ IsInjective(tmp) /\ IsInjective(skip)
    /\ \A i \in Subframes :
          /\ i > sf_cnt \/ HeldByScheduler(i) =>
                ~Buffered(i) /\ ~Skipped(i) /\ ~InDecoder(i) /\ Open(i)
          /\ Buffered(i) => ~Skipped(i) /\ ~InDecoder(i) /\ Open(i)
          /\ Skipped(i) => ~InDecoder(i) /\ Open(i)
          /\ InDecoder(i) => Open(i)
    /\ \A i \in Subframes : \A d, e \in Decoders :
          HeldByDecoder(d, i) /\ HeldByDecoder(e, i) => d = e
    /\ \A d \in Decoders : ~HeldByDecoder(d, 0)
    /\ AtMostOnce

(* The inductive invariant of the pool on such a platform.                 *)
PoolInv == TypeOK /\ Quiet /\ HandlerBusy /\ Started /\ Handshake /\ Accounted /\ OnePlace

-----------------------------------------------------------------------------
(* What skip_tti_get leaves behind: everything below the top of the stack. *)
LEMMA FrontProperties ==
  ASSUME NEW S, NEW s \in Seq(S), s # << >>
  PROVE  /\ Len(s) \in 1 .. Len(s)
         /\ s[Len(s)] \in S
         /\ SubSeq(s, 1, Len(s) - 1) \in Seq(S)
         /\ Len(SubSeq(s, 1, Len(s) - 1)) = Len(s) - 1
         /\ \A i \in 1 .. Len(s) - 1 : SubSeq(s, 1, Len(s) - 1)[i] = s[i]
<1>1. Len(s) \in Nat \ {0}
  BY EmptySeq
<1>2. \A i \in 1 .. Len(s) : s[i] \in S
  BY ElementOfSeq
<1>3. \A i \in 1 .. Len(s) - 1 : s[i] \in S
  BY <1>1, <1>2
<1>4. 1 \in Int /\ Len(s) - 1 \in Int
  BY <1>1
<1> DEFINE n == Len(s) - 1
           f == SubSeq(s, 1, n)
<1>5. /\ f \in Seq(S)
      /\ Len(f) = IF 1 <= n THEN n - 1 + 1 ELSE 0
      /\ \A i \in 1 .. n - 1 + 1 : f[i] = s[1 + i - 1]
  BY <1>3, <1>4, SubSeqProperties
<1>6. n \in Nat
  BY <1>1
<1> HIDE DEF f, n
<1>7. Len(f) = n
  BY <1>5, <1>6
<1>8. \A i \in 1 .. n : f[i] = s[i]
  BY <1>5, <1>6
<1> QED
  BY <1>1, <1>2, <1>5, <1>7, <1>8 DEF f, n

(* The state task_scheduler_start leaves behind is well typed.             *)
LEMMA InitType == Init => TypeOK
<1> SUFFICES ASSUME Init PROVE TypeOK
  OBVIOUS
<1>1. 0 \in Decoders
  BY DEF Decoders
<1>2. tmp \in Seq(Subframes) /\ Len(tmp) <= MaxTmpBuffer
  BY DEF Init
<1>3. skip \in Seq(Subframes) /\ Len(skip) <= MaxSkipTti
  BY DEF Init
<1> QED
  BY <1>1, <1>2, <1>3 DEF Init, TypeOK, Mailbox, Task, DecoderPc

(* Quiet gives the subframe the scheduler holds a number, HandlerBusy says *)
(* that the handler only takes from a container that is not empty.         *)
LEMMA NextType == ASSUME TypeOK, Quiet, HandlerBusy, [Next]_vars PROVE TypeOK'
<1> USE DEF TypeOK, DecoderPc, handlerVars, decoderVars, schedVars
<1>1. CASE Receive
  BY <1>1 DEF Receive
<1>2. CASE SchedulerFind
  BY <1>2 DEF SchedulerFind
<1>3. CASE SchedulerAssign
  <2>1. sf_cnt \in 0 .. NofSubframes
    OBVIOUS
  <2>2. sf_buffer' \in [Decoders -> Mailbox]
    BY <1>3, <2>1 DEF SchedulerAssign, AssignTask, Mailbox
  <2> QED
    BY <1>3, <2>2 DEF SchedulerAssign, AssignTask, Signal
<1>4. CASE SchedulerLog
  BY <1>4 DEF SchedulerLog
<1>5. CASE SchedulerBuffer
  <2>1. sf_cnt \in Subframes
    BY <1>5 DEF SchedulerBuffer, Quiet, Subframes
  <2>2. tmp' \in Seq(Subframes) /\ Len(tmp') <= MaxTmpBuffer
    <3> DEFINE q == Append(tmp, sf_cnt)
    <3>1. q \in Seq(Subframes) /\ Len(q) = Len(tmp) + 1
      BY <2>1, AppendProperties
    <3>2. Len(tmp) \in Nat
      BY LenProperties
    <3>3. (tmp' = q /\ Len(tmp) < MaxTmpBuffer) \/ tmp' = tmp
      BY <1>5 DEF SchedulerBuffer
    <3> HIDE DEF q
    <3> QED
      BY <3>1, <3>2, <3>3
  <2>3. skip' \in Seq(Subframes) /\ Len(skip') <= MaxSkipTti
    <3> DEFINE q == Append(skip, sf_cnt)
    <3>1. q \in Seq(Subframes) /\ Len(q) = Len(skip) + 1
      BY <2>1, AppendProperties
    <3>2. Len(skip) \in Nat
      BY LenProperties
    <3>3. (skip' = q /\ Len(skip) < MaxSkipTti) \/ skip' = skip
      BY <1>5 DEF SchedulerBuffer
    <3> HIDE DEF q
    <3> QED
      BY <3>1, <3>2, <3>3
  <2>4. dropped' \subseteq Subframes
    BY <1>5, <2>1 DEF SchedulerBuffer
  <2> QED
    BY <1>5, <2>2, <2>3, <2>4 DEF SchedulerBuffer
<1>6. CASE HandlerLock
  BY <1>6 DEF HandlerLock
<1>7. CASE HandlerFindSkip
  BY <1>7 DEF HandlerFindSkip, AfterSkip
<1>8. CASE HandlerAssignSkip
  <2>1. skip # << >>
    BY <1>8 DEF HandlerAssignSkip, HandlerBusy
  <2> DEFINE i == skip[Len(skip)]
  <2>2. i \in 0 .. NofSubframes
    BY <2>1, FrontProperties DEF Subframes
  <2>3. skip' \in Seq(Subframes) /\ Len(skip') <= MaxSkipTti
    <3>1. /\ SubSeq(skip, 1, Len(skip) - 1) \in Seq(Subframes)
          /\ Len(SubSeq(skip, 1, Len(skip) - 1)) = Len(skip) - 1
      BY <2>1, FrontProperties
    <3>2. Len(skip) \in Nat
      BY LenProperties
    <3> QED
      BY <1>8, <3>1, <3>2 DEF HandlerAssignSkip
  <2>4. sf_buffer' \in [Decoders -> Mailbox]
    <3>1. sf_buffer' = [sf_buffer EXCEPT ![hidle].tti = i, ![hidle].empty = TRUE]
      BY <1>8 DEF HandlerAssignSkip, AssignEmptyTask
    <3> HIDE DEF i
    <3> QED
      BY <2>2, <3>1 DEF Mailbox
  <2>5. pc' \in [Decoders -> DecoderPc]
    BY <1>8 DEF HandlerAssignSkip, AssignEmptyTask, Signal
  <2> QED
    BY <1>8, <2>3, <2>4, <2>5 DEF HandlerAssignSkip, AfterSkip, AssignEmptyTask
<1>9. CASE HandlerFindRing
  BY <1>9 DEF HandlerFindRing
<1>10. CASE HandlerAssignRing
  <2>1. Head(tmp) \in Subframes /\ tmp' \in Seq(Subframes) /\ Len(tmp') <= MaxTmpBuffer
    <3>1. tmp # << >>
      BY <1>10 DEF HandlerAssignRing, HandlerBusy
    <3>2. /\ Head(tmp) \in Subframes /\ Tail(tmp) \in Seq(Subframes)
          /\ Len(Tail(tmp)) = Len(tmp) - 1
      BY <3>1, HeadTailProperties
    <3>3. Len(tmp) \in Nat
      BY LenProperties
    <3> QED
      BY <1>10, <3>2, <3>3 DEF HandlerAssignRing
  <2>2. sf_buffer' \in [Decoders -> Mailbox]
    <3> DEFINE i == Head(tmp)
    <3>1. i \in 0 .. NofSubframes
      BY <2>1 DEF Subframes
    <3>2. sf_buffer' = [sf_buffer EXCEPT ![hidle] = [tti |-> i, empty |-> FALSE, iq |-> i]]
      BY <1>10 DEF HandlerAssignRing, AssignTask
    <3> HIDE DEF i
    <3> QED
      BY <3>1, <3>2 DEF Mailbox
  <2>3. pc' \in [Decoders -> DecoderPc]
    BY <1>10 DEF HandlerAssignRing, AssignTask, Signal
  <2> QED
    BY <1>10, <2>1, <2>2, <2>3 DEF HandlerAssignRing, AssignTask
<1>11. ASSUME NEW d \in Decoders, ReleaseToken(d) PROVE TypeOK'
  BY <1>11 DEF ReleaseToken
<1>12. ASSUME NEW d \in Decoders, CondWait(d) PROVE TypeOK'
  BY <1>12 DEF CondWait
<1>13. ASSUME NEW d \in Decoders, WakeUp(d) PROVE TypeOK'
  BY <1>13 DEF WakeUp, Mailbox, Task
<1>14. ASSUME NEW d \in Decoders, SpuriousWakeUp(d) PROVE TypeOK'
  <2>1. cur' \in [Decoders -> Task]
    BY <1>14 DEF SpuriousWakeUp, Mailbox, Task
  <2>2. spurious' \in 0 .. MaxSpurious
    BY <1>14 DEF SpuriousWakeUp
  <2> QED
    BY <1>14, <2>1, <2>2 DEF SpuriousWakeUp
<1>15. ASSUME NEW d \in Decoders, Decode(d) PROVE TypeOK'
  BY <1>15 DEF Decode
<1>16. ASSUME NEW d \in Decoders, Report(d) PROVE TypeOK'
  <2>1. cur[d].tti \in 0 .. NofSubframes
    BY DEF Task
  <2>2. reported' \in [0 .. NofSubframes -> Nat]
    BY <1>16, <2>1 DEF Report
  <2> QED
    BY <1>16, <2>2 DEF Report
<1>17. CASE UNCHANGED vars
  BY <1>17 DEF vars
<1> QED
  BY <1>1, <1>2, <1>3, <1>4, <1>5, <1>6, <1>7, <1>8, <1>9, <1>10, <1>11,
     <1>12, <1>13, <1>14, <1>15, <1>16, <1>17
     DEF Next, Scheduler, Handler, Decoder, Idle

-----------------------------------------------------------------------------
(* Quiet and HandlerBusy are preserved on every platform.                  *)
LEMMA NextQuiet == ASSUME TypeOK, Quiet, HandlerBusy, [Next]_vars PROVE Quiet' /\ HandlerBusy'
<1> USE DEF Quiet, HandlerBusy, handlerVars, decoderVars, schedVars
<1>0. sf_cnt \in Nat
  BY DEF TypeOK
<1>1. CASE Receive
  BY <1>0, <1>1 DEF Receive
<1>2. CASE SchedulerFind
  BY <1>2 DEF SchedulerFind
<1>3. CASE SchedulerAssign
  BY <1>3 DEF SchedulerAssign
<1>4. CASE SchedulerLog
  BY <1>4 DEF SchedulerLog
<1>5. CASE SchedulerBuffer
  BY <1>5 DEF SchedulerBuffer, TmpMutexFree
<1>6. CASE HandlerLock
  BY <1>6 DEF HandlerLock
<1>7. CASE HandlerFindSkip
  BY <1>7 DEF HandlerFindSkip, AfterSkip
<1>8. CASE HandlerAssignSkip
  <2>1. skip # << >> /\ skip \in Seq(Subframes)
    BY <1>8 DEF HandlerAssignSkip, TypeOK
  <2> DEFINE q == SubSeq(skip, 1, Len(skip) - 1)
  <2>2. Len(q) = Len(skip) - 1 /\ q \in Seq(Subframes) /\ Len(skip) \in 1 .. Len(skip)
    BY <2>1, FrontProperties
  <2>3. skip' = q
    BY <1>8 DEF HandlerAssignSkip
  <2> HIDE DEF q
  <2>4. Len(skip) > 1 => q # << >>
    BY <2>2, EmptySeq
  <2> QED
    BY <1>8, <2>3, <2>4 DEF HandlerAssignSkip, AfterSkip
<1>9. CASE HandlerFindRing
  BY <1>9 DEF HandlerFindRing
<1>10. CASE HandlerAssignRing
  <2>1. tmp # << >> /\ tmp \in Seq(Subframes)
    BY <1>10 DEF HandlerAssignRing, TypeOK
  <2> DEFINE q == Tail(tmp)
  <2>2. Len(q) = Len(tmp) - 1 /\ q \in Seq(Subframes)
    BY <2>1, HeadTailProperties
  <2>3. tmp' = q
    BY <1>10 DEF HandlerAssignRing
  <2> HIDE DEF q
  <2>4. Len(tmp) \in Nat /\ (Len(tmp) > 1 => q # << >>)
    BY <2>1, <2>2, EmptySeq, LenProperties
  <2> QED
    BY <1>10, <2>3, <2>4 DEF HandlerAssignRing
<1>11. ASSUME NEW d \in Decoders, Decoder(d) \/ SpuriousWakeUp(d) PROVE Quiet' /\ HandlerBusy'
  BY <1>11 DEF Decoder, ReleaseToken, CondWait, WakeUp, SpuriousWakeUp, Decode, Report
<1>12. CASE UNCHANGED vars
  BY <1>12 DEF vars
<1> QED
  BY <1>1, <1>2, <1>3, <1>4, <1>5, <1>6, <1>7, <1>8, <1>9, <1>10, <1>11, <1>12
     DEF Next, Scheduler, Handler, Idle

(* Type correctness of the pool on every platform: whatever the condition  *)
(* variables and the start-up do, no container outgrows its array.         *)
THEOREM TypeCorrect == Spec => []TypeOK
<1>1. Init => TypeOK /\ Quiet /\ HandlerBusy
  BY InitType DEF Init, Quiet, HandlerBusy
<1>2. TypeOK /\ Quiet /\ HandlerBusy /\ [Next]_vars => (TypeOK /\ Quiet /\ HandlerBusy)'
  BY NextType, NextQuiet
<1> QED
  BY <1>1, <1>2, PTL DEF Spec

-----------------------------------------------------------------------------
(* Started and Handshake are preserved on a platform without spurious      *)
(* wake-ups whose decoders start in time.                                  *)
LEMMA NextStarted ==
  ASSUME Platform, TypeOK, Started, [Next]_vars
  PROVE  Started'
<1> USE DEF Platform, Started, handlerVars, decoderVars, schedVars
<1>0. sf_cnt \in Nat /\ pc \in [Decoders -> DecoderPc]
  BY DEF TypeOK
<1>1. CASE Receive
  BY <1>0, <1>1 DEF Receive
<1>2. CASE SchedulerFind \/ SchedulerLog \/ SchedulerBuffer \/ HandlerLock
           \/ HandlerFindSkip \/ HandlerFindRing
  BY <1>2 DEF SchedulerFind, SchedulerLog, SchedulerBuffer, HandlerLock,
              HandlerFindSkip, HandlerFindRing
<1>3. CASE SchedulerAssign \/ HandlerAssignSkip \/ HandlerAssignRing
  BY <1>0, <1>3 DEF SchedulerAssign, HandlerAssignSkip, HandlerAssignRing,
                    AssignTask, AssignEmptyTask, Signal
<1>4. ASSUME NEW d \in Decoders, Decoder(d) \/ SpuriousWakeUp(d) PROVE Started'
  BY <1>0, <1>4 DEF Decoder, ReleaseToken, CondWait, WakeUp, SpuriousWakeUp, Decode, Report
<1>5. CASE UNCHANGED vars
  BY <1>5 DEF vars
<1> QED
  BY <1>1, <1>2, <1>3, <1>4, <1>5 DEF Next, Scheduler, Handler, Idle

(* The token protocol survives every step: an assignment always finds its  *)
(* decoder inside pthread_cond_wait, so the signal is never lost.          *)
LEMMA NextHandshake ==
  ASSUME Platform, TypeOK, Quiet, Started, Handshake, [Next]_vars
  PROVE  Handshake'
<1> USE DEF Handshake, TakenExclusive, TakenByScheduler, TakenByHandler,
            handlerVars, decoderVars, schedVars
<1>0. /\ token \in [Decoders -> BOOLEAN] /\ pc \in [Decoders -> DecoderPc]
      /\ sidle \in Decoders /\ hidle \in Decoders /\ sf_cnt \in Nat
  BY DEF TypeOK
<1>1. spc # "sync" \/ hpc # "sleep" => \A d \in Decoders : pc[d] # "start"
  BY <1>0 DEF Quiet, Started
<1>2. CASE Receive \/ SchedulerLog \/ SchedulerBuffer \/ HandlerLock
  BY <1>2 DEF Receive, SchedulerLog, SchedulerBuffer, HandlerLock
<1>3. CASE SchedulerFind
  BY <1>0, <1>1, <1>3 DEF SchedulerFind, FirstIdle
<1>4. CASE HandlerFindSkip
  BY <1>0, <1>1, <1>4 DEF HandlerFindSkip, FirstIdle, AfterSkip
<1>5. CASE HandlerFindRing
  BY <1>0, <1>1, <1>5 DEF HandlerFindRing, FirstIdle
<1>6. CASE SchedulerAssign
  BY <1>0, <1>6 DEF SchedulerAssign, AssignTask, Signal, SfMutexFree
<1>7. CASE HandlerAssignSkip
  BY <1>0, <1>7 DEF HandlerAssignSkip, AssignEmptyTask, Signal, SfMutexFree, AfterSkip
<1>8. CASE HandlerAssignRing
  BY <1>0, <1>8 DEF HandlerAssignRing, AssignTask, Signal, SfMutexFree
<1>9. ASSUME NEW d \in Decoders, ReleaseToken(d) PROVE Handshake'
  BY <1>0, <1>9 DEF ReleaseToken
<1>10. ASSUME NEW d \in Decoders, CondWait(d) \/ WakeUp(d) \/ Decode(d) \/ Report(d)
       PROVE  Handshake'
  BY <1>0, <1>10 DEF CondWait, WakeUp, Decode, Report
<1>11. ASSUME NEW d \in Decoders, SpuriousWakeUp(d) PROVE FALSE
  BY <1>11 DEF SpuriousWakeUp, Platform, TypeOK
<1>12. CASE UNCHANGED vars
  BY <1>12 DEF vars
<1> QED
  BY <1>2, <1>3, <1>4, <1>5, <1>6, <1>7, <1>8, <1>9, <1>10, <1>11, <1>12
     DEF Next, Scheduler, Handler, Decoder, Idle

-----------------------------------------------------------------------------
(* What the container operations do to the set of subframes they hold:     *)
(* a put adds the new subframe and keeps the entries distinct.             *)
LEMMA AppendRange ==
  ASSUME NEW S, NEW q \in Seq(S), NEW x \in S, IsInjective(q), x \notin Range(q)
  PROVE  /\ Range(Append(q, x)) = Range(q) \cup {x}
         /\ IsInjective(Append(q, x))
<1> DEFINE a == Append(q, x)
<1>1. /\ a \in Seq(S) /\ Len(a) = Len(q) + 1
      /\ \A k \in 1 .. Len(q) : a[k] = q[k]
      /\ a[Len(q) + 1] = x
  BY AppendProperties
<1>2. Len(q) \in Nat /\ DOMAIN q = 1 .. Len(q) /\ DOMAIN a = 1 .. Len(a)
  BY <1>1, LenProperties
<1> HIDE DEF a
<1>3. DOMAIN a = (1 .. Len(q)) \cup {Len(q) + 1}
  BY <1>1, <1>2
<1>4. Range(a) = Range(q) \cup {x}
  BY <1>1, <1>2, <1>3 DEF Range
<1>5. IsInjective(a)
  <2> SUFFICES ASSUME NEW j \in DOMAIN a, NEW k \in DOMAIN a, a[j] = a[k] PROVE j = k
    BY DEF IsInjective
  <2>1. CASE j \in 1 .. Len(q) /\ k \in 1 .. Len(q)
    BY <1>1, <1>2, <2>1 DEF IsInjective
  <2>2. CASE j = Len(q) + 1 \/ k = Len(q) + 1
    BY <1>1, <1>2, <1>3, <2>2 DEF Range
  <2> QED
    BY <1>3, <2>1, <2>2
<1> QED
  BY <1>4, <1>5 DEF a

(* task_sf_ring_buffer_get removes exactly the oldest subframe.            *)
LEMMA TailRange ==
  ASSUME NEW S, NEW q \in Seq(S), q # << >>, IsInjective(q)
  PROVE  /\ Range(Tail(q)) = Range(q) \ {Head(q)}
         /\ Head(q) \in Range(q)
         /\ IsInjective(Tail(q))
<1> DEFINE t == Tail(q)
<1>1. t \in Seq(S) /\ Len(t) = Len(q) - 1 /\ \A k \in 1 .. Len(t) : t[k] = q[k + 1]
  BY HeadTailProperties
<1>2. Len(q) \in Nat \ {0}
  BY EmptySeq
<1>3. DOMAIN q = 1 .. Len(q) /\ DOMAIN t = 1 .. Len(t)
  BY <1>1, LenProperties
<1>4. Head(q) = q[1]
  OBVIOUS
<1> HIDE DEF t
<1>5. Range(t) = Range(q) \ {q[1]}
  <2>1. ASSUME NEW k \in DOMAIN t PROVE t[k] \in Range(q) \ {q[1]}
    BY <1>1, <1>2, <1>3 DEF Range, IsInjective
  <2>2. ASSUME NEW k \in DOMAIN q, q[k] # q[1] PROVE q[k] \in Range(t)
    <3>1. k - 1 \in DOMAIN t /\ t[k - 1] = q[k]
      BY <1>1, <1>2, <1>3, <2>2
    <3> QED
      BY <3>1 DEF Range
  <2> QED
    BY <2>1, <2>2 DEF Range
<1>6. IsInjective(t)
  BY <1>1, <1>2, <1>3 DEF IsInjective
<1>7. q[1] \in Range(q)
  BY <1>2, <1>3 DEF Range
<1> QED
  BY <1>4, <1>5, <1>6, <1>7 DEF t

(* skip_tti_get removes exactly the newest subframe.                       *)
LEMMA FrontRange ==
  ASSUME NEW S, NEW q \in Seq(S), q # << >>, IsInjective(q)
  PROVE  /\ Range(SubSeq(q, 1, Len(q) - 1)) = Range(q) \ {q[Len(q)]}
         /\ q[Len(q)] \in Range(q)
         /\ IsInjective(SubSeq(q, 1, Len(q) - 1))
<1> DEFINE f == SubSeq(q, 1, Len(q) - 1)
<1>1. /\ Len(q) \in 1 .. Len(q) /\ f \in Seq(S) /\ Len(f) = Len(q) - 1
      /\ \A k \in 1 .. Len(q) - 1 : f[k] = q[k]
  BY FrontProperties
<1>2. Len(q) \in Nat \ {0}
  BY EmptySeq
<1>3. DOMAIN q = 1 .. Len(q) /\ DOMAIN f = 1 .. Len(f)
  BY <1>1, LenProperties
<1> HIDE DEF f
<1>4. Range(f) = Range(q) \ {q[Len(q)]}
  <2>1. ASSUME NEW k \in DOMAIN f PROVE f[k] \in Range(q) \ {q[Len(q)]}
    BY <1>1, <1>2, <1>3 DEF Range, IsInjective
  <2>2. ASSUME NEW k \in DOMAIN q, q[k] # q[Len(q)] PROVE q[k] \in Range(f)
    <3>1. k \in DOMAIN f /\ f[k] = q[k]
      BY <1>1, <1>2, <1>3, <2>2
    <3> QED
      BY <3>1 DEF Range
  <2> QED
    BY <2>1, <2>2 DEF Range
<1>5. IsInjective(f)
  BY <1>1, <1>2, <1>3 DEF IsInjective
<1>6. q[Len(q)] \in Range(q)
  BY <1>1, <1>3 DEF Range
<1> QED
  BY <1>4, <1>5, <1>6 DEF f

-----------------------------------------------------------------------------
(* An assignment to a decoder that waits makes the decoder hold exactly the*)
(* assigned subframe, and touches no other decoder.                        *)
LEMMA AssignHolds ==
  ASSUME TypeOK, NEW d \in Decoders, NEW n, pc[d] = "waiting",
         pc' = [pc EXCEPT ![d] = "signalled"], cur' = cur,
         sf_buffer'[d].tti = n,
         \A e \in Decoders \ {d} : sf_buffer'[e] = sf_buffer[e]
  PROVE  /\ \A i : ~HeldByDecoder(d, i)
         /\ \A i : HeldByDecoder(d, i)' <=> i = n
         /\ \A e \in Decoders \ {d} : \A i : HeldByDecoder(e, i)' <=> HeldByDecoder(e, i)
BY DEF TypeOK, HeldByDecoder

(* Steps that leave the mailboxes, the tasks and the containers alone move *)
(* no subframe, as long as no decoder starts or ends its work.             *)
LEMMA SameHolds ==
  ASSUME sf_buffer' = sf_buffer, cur' = cur, pc' = pc
  PROVE  \A d \in Decoders : \A i : HeldByDecoder(d, i)' <=> HeldByDecoder(d, i)
BY DEF HeldByDecoder

(* The steps of a decoder's loop.  Only the report ends its hold.          *)
LEMMA DecoderHolds ==
  ASSUME TypeOK, NEW d \in Decoders,
         ReleaseToken(d) \/ CondWait(d) \/ WakeUp(d) \/ Decode(d)
  PROVE  \A e \in Decoders : \A i : HeldByDecoder(e, i)' <=> HeldByDecoder(e, i)
<1> USE DEF TypeOK, HeldByDecoder
<1>1. CASE ReleaseToken(d)
  BY <1>1 DEF ReleaseToken
<1>2. CASE CondWait(d)
  BY <1>2 DEF CondWait
<1>3. CASE WakeUp(d)
  BY <1>3 DEF WakeUp
<1>4. CASE Decode(d)
  BY <1>4 DEF Decode
<1> QED
  BY <1>1, <1>2, <1>3, <1>4

(* An assigning thread that holds a subframe's turn finds the decoder it   *)
(* chose in its condition wait.                                            *)
LEMMA AssignWaits ==
  ASSUME TypeOK, Handshake, NEW d \in Decoders, SfMutexFree(d), Signal(d),
         TakenByScheduler(d) \/ TakenByHandler(d)
  PROVE  pc[d] = "waiting" /\ pc' = [pc EXCEPT ![d] = "signalled"]
BY DEF TypeOK, Handshake, SfMutexFree, Signal

(* No step loses a subframe or gives it a second place.                    *)
LEMMA NextPlaces ==
  ASSUME Platform, TypeOK, Quiet, HandlerBusy, Handshake, Accounted, OnePlace, [Next]_vars
  PROVE  Accounted' /\ OnePlace'
<1> DEFINE Goal == Accounted' /\ OnePlace'
<1>t. /\ sf_cnt \in 0 .. NofSubframes /\ sidle \in Decoders /\ hidle \in Decoders
      /\ reported \in [0 .. NofSubframes -> Nat]
      /\ tmp \in Seq(Subframes) /\ skip \in Seq(Subframes)
  BY DEF TypeOK
<1>u. spc # "sync" => sf_cnt \in Subframes
  BY <1>t DEF Quiet, Subframes
<1> USE DEF handlerVars, decoderVars, schedVars
<1>1. CASE Receive
  <2>1. \A d \in Decoders : \A i : HeldByDecoder(d, i)' <=> HeldByDecoder(d, i)
    BY <1>1, SameHolds DEF Receive
  <2>2. /\ sf_cnt' = sf_cnt + 1 /\ tmp' = tmp /\ skip' = skip
        /\ reported' = reported /\ dropped' = dropped /\ spc = "sync" /\ spc' = "find"
        /\ sf_cnt + 1 \in Subframes
    BY <1>1, <1>t DEF Receive, Subframes
  <2>3. Accounted'
    BY <1>t, <2>1, <2>2 DEF Accounted, HeldByScheduler, Buffered, Skipped
  <2>4. OnePlace'
    BY <1>t, <2>1, <2>2 DEF OnePlace, HeldByScheduler, Buffered, Skipped, InDecoder, Open,
                            AtMostOnce, Subframes
  <2> QED
    BY <2>3, <2>4
<1>2. CASE SchedulerFind \/ SchedulerLog \/ HandlerLock \/ HandlerFindSkip \/ HandlerFindRing
           \/ UNCHANGED vars
  <2>1. \A d \in Decoders : \A i : HeldByDecoder(d, i)' <=> HeldByDecoder(d, i)
    BY <1>2, SameHolds DEF SchedulerFind, SchedulerLog, HandlerLock, HandlerFindSkip,
                           HandlerFindRing, vars
  <2>2. /\ sf_cnt' = sf_cnt /\ tmp' = tmp /\ skip' = skip
        /\ reported' = reported /\ dropped' = dropped
        /\ spc' \in {"find", "assign", "buffer"} <=> spc \in {"find", "assign", "buffer"}
    BY <1>2 DEF SchedulerFind, SchedulerLog, HandlerLock, HandlerFindSkip,
                HandlerFindRing, vars
  <2>3. Accounted'
    BY <2>1, <2>2 DEF Accounted, HeldByScheduler, Buffered, Skipped
  <2>4. OnePlace'
    BY <2>1, <2>2 DEF OnePlace, HeldByScheduler, Buffered, Skipped, InDecoder, Open, AtMostOnce
  <2> QED
    BY <2>3, <2>4
<1>3. CASE SchedulerAssign
  <2>0. PICK d \in Decoders : d = sidle
    BY <1>t
  <2>1. pc[d] = "waiting" /\ pc' = [pc EXCEPT ![d] = "signalled"]
    BY <1>3, <2>0, AssignWaits DEF SchedulerAssign, AssignTask, TakenByScheduler
  <2>2. /\ sf_cnt' = sf_cnt /\ tmp' = tmp /\ skip' = skip
        /\ reported' = reported /\ dropped' = dropped /\ cur' = cur
        /\ spc = "assign" /\ spc' = "log"
    BY <1>3 DEF SchedulerAssign
  <2>3. PICK n \in Subframes : n = sf_cnt
    BY <1>u, <2>2
  <2>4. /\ \A i : ~HeldByDecoder(d, i)
        /\ \A i : HeldByDecoder(d, i)' <=> i = n
        /\ \A e \in Decoders \ {d} : \A i : HeldByDecoder(e, i)' <=> HeldByDecoder(e, i)
    <3>1. sf_buffer'[d].tti = n /\ \A e \in Decoders \ {d} : sf_buffer'[e] = sf_buffer[e]
      BY <1>3, <2>0, <2>3 DEF SchedulerAssign, AssignTask, TypeOK
    <3> QED
      BY <2>1, <2>2, <3>1, AssignHolds
  <2>5. Accounted'
    BY <1>t, <2>2, <2>3, <2>4 DEF Accounted, HeldByScheduler, Buffered, Skipped
  <2>6. OnePlace'
    <3>1. ~InDecoder(n) /\ \A i \in Subframes : InDecoder(i)' <=> InDecoder(i) \/ i = n
      <4>1. ~InDecoder(n)
        BY <1>t, <2>2, <2>3 DEF OnePlace, HeldByScheduler, Buffered, Skipped
      <4> QED
        BY <2>4, <4>1 DEF InDecoder
    <3>2. \A i \in Subframes : \A c, e \in Decoders :
             HeldByDecoder(c, i)' /\ HeldByDecoder(e, i)' => c = e
      BY <2>4, <3>1 DEF OnePlace, InDecoder
    <3>3. \A e \in Decoders : ~HeldByDecoder(e, 0)'
      BY <2>4 DEF OnePlace, Subframes
    <3>4. AtMostOnce' /\ \A i \in Subframes : Open(i)' <=> Open(i)
      BY <2>2 DEF OnePlace, AtMostOnce, Open
    <3> QED
      BY <1>t, <2>2, <2>3, <3>1, <3>2, <3>3, <3>4 DEF OnePlace, HeldByScheduler, Buffered, Skipped
  <2> QED
    BY <2>5, <2>6
<1>4. CASE SchedulerBuffer
  <2>1. \A d \in Decoders : \A i : HeldByDecoder(d, i)' <=> HeldByDecoder(d, i)
    BY <1>4, SameHolds DEF SchedulerBuffer
  <2>2. /\ sf_cnt' = sf_cnt /\ reported' = reported
        /\ spc = "buffer" /\ spc' = "sync" /\ sf_cnt \in Subframes
    BY <1>4, <1>u DEF SchedulerBuffer
  <2>3. ~Buffered(sf_cnt) /\ ~Skipped(sf_cnt)
    BY <2>2 DEF OnePlace, HeldByScheduler
  <2>4. CASE tmp' = Append(tmp, sf_cnt) /\ skip' = skip /\ dropped' = dropped
    <3>1. Range(tmp)' = Range(tmp) \cup {sf_cnt} /\ IsInjective(tmp)'
      BY <1>t, <2>2, <2>3, <2>4, AppendRange DEF OnePlace, Buffered
    <3>2. Accounted'
      BY <2>1, <2>2, <2>4, <3>1 DEF Accounted, HeldByScheduler, Buffered, Skipped
    <3>3. OnePlace'
      BY <1>t, <2>1, <2>2, <2>4, <3>1 DEF OnePlace, HeldByScheduler, Buffered, Skipped,
         InDecoder, Open, AtMostOnce, Subframes
    <3> QED
      BY <3>2, <3>3
  <2>5. CASE skip' = Append(skip, sf_cnt) /\ tmp' = tmp /\ dropped' = dropped
    <3>1. Range(skip)' = Range(skip) \cup {sf_cnt} /\ IsInjective(skip)'
      BY <1>t, <2>2, <2>3, <2>5, AppendRange DEF OnePlace, Skipped
    <3>2. Accounted'
      BY <2>1, <2>2, <2>5, <3>1 DEF Accounted, HeldByScheduler, Buffered, Skipped
    <3>3. OnePlace'
      BY <1>t, <2>1, <2>2, <2>5, <3>1 DEF OnePlace, HeldByScheduler, Buffered, Skipped,
         InDecoder, Open, AtMostOnce, Subframes
    <3> QED
      BY <3>2, <3>3
  <2>6. CASE dropped' = dropped \cup {sf_cnt} /\ tmp' = tmp /\ skip' = skip
    <3>1. Accounted'
      BY <2>1, <2>2, <2>6 DEF Accounted, HeldByScheduler, Buffered, Skipped
    <3>2. OnePlace'
      BY <1>t, <2>1, <2>2, <2>6 DEF OnePlace, HeldByScheduler, Buffered, Skipped,
         InDecoder, Open, AtMostOnce, Subframes
    <3> QED
      BY <3>1, <3>2
  <2> QED
    BY <1>4, <2>4, <2>5, <2>6 DEF SchedulerBuffer
<1>5. CASE HandlerAssignSkip
  <2>0. PICK d \in Decoders : d = hidle
    BY <1>t
  <2>1. pc[d] = "waiting" /\ pc' = [pc EXCEPT ![d] = "signalled"]
    BY <1>5, <2>0, AssignWaits DEF HandlerAssignSkip, AssignEmptyTask, TakenByHandler
  <2>2. /\ sf_cnt' = sf_cnt /\ tmp' = tmp /\ spc' = spc /\ cur' = cur
        /\ reported' = reported /\ dropped' = dropped
    BY <1>5 DEF HandlerAssignSkip
  <2>3. skip # << >>
    BY <1>5 DEF HandlerAssignSkip, HandlerBusy
  <2> DEFINE q == SubSeq(skip, 1, Len(skip) - 1)
  <2>4. skip[Len(skip)] \in Subframes
    BY <1>t, <2>3, FrontProperties
  <2>5. PICK n \in Subframes : n = skip[Len(skip)]
    BY <2>4
  <2>6. n \in Range(skip) /\ Range(q) = Range(skip) \ {n} /\ IsInjective(q)
    BY <1>t, <2>3, <2>5, FrontRange DEF OnePlace
  <2>7. skip' = q
    BY <1>5 DEF HandlerAssignSkip
  <2> HIDE DEF q
  <2>8. /\ \A i : ~HeldByDecoder(d, i)
        /\ \A i : HeldByDecoder(d, i)' <=> i = n
        /\ \A e \in Decoders \ {d} : \A i : HeldByDecoder(e, i)' <=> HeldByDecoder(e, i)
    <3>1. sf_buffer' = [sf_buffer EXCEPT ![d].tti = n, ![d].empty = TRUE]
      BY <1>5, <2>0, <2>5 DEF HandlerAssignSkip, AssignEmptyTask
    <3>2. sf_buffer'[d].tti = n /\ \A e \in Decoders \ {d} : sf_buffer'[e] = sf_buffer[e]
      BY <3>1 DEF TypeOK, Mailbox
    <3> QED
      BY <2>1, <2>2, <3>2, AssignHolds
  <2>9. Range(skip)' = Range(skip) \ {n} /\ IsInjective(skip)'
    BY <2>6, <2>7
  <2>10. Accounted'
    BY <1>t, <2>2, <2>6, <2>8, <2>9 DEF Accounted, HeldByScheduler, Buffered, Skipped
  <2>11. OnePlace'
    <3>1. ~InDecoder(n) /\ \A i \in Subframes : InDecoder(i)' <=> InDecoder(i) \/ i = n
      <4>1. ~InDecoder(n)
        BY <1>t, <2>2, <2>6, <2>9 DEF OnePlace, HeldByScheduler, Buffered, Skipped
      <4> QED
        BY <2>8, <4>1 DEF InDecoder
    <3>2. \A i \in Subframes : \A c, e \in Decoders :
             HeldByDecoder(c, i)' /\ HeldByDecoder(e, i)' => c = e
      BY <2>8, <3>1 DEF OnePlace, InDecoder
    <3>3. \A e \in Decoders : ~HeldByDecoder(e, 0)'
      BY <2>8 DEF OnePlace, Subframes
    <3>4. AtMostOnce' /\ \A i \in Subframes : Open(i)' <=> Open(i)
      BY <2>2 DEF OnePlace, AtMostOnce, Open
    <3> QED
      BY <1>t, <2>2, <2>6, <2>9, <3>1, <3>2, <3>3, <3>4 DEF OnePlace, HeldByScheduler, Buffered, Skipped
  <2> QED
    BY <2>10, <2>11
<1>6. CASE HandlerAssignRing
  <2>0. PICK d \in Decoders : d = hidle
    BY <1>t
  <2>1. pc[d] = "waiting" /\ pc' = [pc EXCEPT ![d] = "signalled"]
    BY <1>6, <2>0, AssignWaits DEF HandlerAssignRing, AssignTask, TakenByHandler
  <2>2. /\ sf_cnt' = sf_cnt /\ skip' = skip /\ spc' = spc /\ cur' = cur
        /\ reported' = reported /\ dropped' = dropped
    BY <1>6 DEF HandlerAssignRing
  <2>3. tmp # << >>
    BY <1>6 DEF HandlerAssignRing, HandlerBusy
  <2> DEFINE q == Tail(tmp)
  <2>4. Head(tmp) \in Subframes
    BY <1>t, <2>3, HeadTailProperties
  <2>5. PICK n \in Subframes : n = Head(tmp)
    BY <2>4
  <2>6. n \in Range(tmp) /\ Range(q) = Range(tmp) \ {n} /\ IsInjective(q)
    BY <1>t, <2>3, <2>5, TailRange DEF OnePlace
  <2>7. tmp' = q
    BY <1>6 DEF HandlerAssignRing
  <2> HIDE DEF q
  <2>8. /\ \A i : ~HeldByDecoder(d, i)
        /\ \A i : HeldByDecoder(d, i)' <=> i = n
        /\ \A e \in Decoders \ {d} : \A i : HeldByDecoder(e, i)' <=> HeldByDecoder(e, i)
    <3>1. sf_buffer' = [sf_buffer EXCEPT ![d] = [tti |-> n, empty |-> FALSE, iq |-> n]]
      BY <1>6, <2>0, <2>5 DEF HandlerAssignRing, AssignTask
    <3>2. sf_buffer'[d].tti = n /\ \A e \in Decoders \ {d} : sf_buffer'[e] = sf_buffer[e]
      BY <3>1 DEF TypeOK, Mailbox
    <3> QED
      BY <2>1, <2>2, <3>2, AssignHolds
  <2>9. Range(tmp)' = Range(tmp) \ {n} /\ IsInjective(tmp)'
    BY <2>6, <2>7
  <2>10. Accounted'
    BY <1>t, <2>2, <2>6, <2>8, <2>9 DEF Accounted, HeldByScheduler, Buffered, Skipped
  <2>11. OnePlace'
    <3>1. ~InDecoder(n) /\ \A i \in Subframes : InDecoder(i)' <=> InDecoder(i) \/ i = n
      <4>1. ~InDecoder(n)
        BY <1>t, <2>2, <2>6, <2>9 DEF OnePlace, HeldByScheduler, Buffered, Skipped
      <4> QED
        BY <2>8, <4>1 DEF InDecoder
    <3>2. \A i \in Subframes : \A c, e \in Decoders :
             HeldByDecoder(c, i)' /\ HeldByDecoder(e, i)' => c = e
      BY <2>8, <3>1 DEF OnePlace, InDecoder
    <3>3. \A e \in Decoders : ~HeldByDecoder(e, 0)'
      BY <2>8 DEF OnePlace, Subframes
    <3>4. AtMostOnce' /\ \A i \in Subframes : Open(i)' <=> Open(i)
      BY <2>2 DEF OnePlace, AtMostOnce, Open
    <3> QED
      BY <1>t, <2>2, <2>6, <2>9, <3>1, <3>2, <3>3, <3>4 DEF OnePlace, HeldByScheduler, Buffered, Skipped
  <2> QED
    BY <2>10, <2>11
<1>7. ASSUME NEW d \in Decoders, ReleaseToken(d) \/ CondWait(d) \/ WakeUp(d) \/ Decode(d)
      PROVE  Goal
  <2>1. \A e \in Decoders : \A i : HeldByDecoder(e, i)' <=> HeldByDecoder(e, i)
    BY <1>7, DecoderHolds
  <2>2. /\ sf_cnt' = sf_cnt /\ tmp' = tmp /\ skip' = skip
        /\ reported' = reported /\ dropped' = dropped /\ spc' = spc
    BY <1>7 DEF ReleaseToken, CondWait, WakeUp, Decode
  <2>3. Accounted'
    BY <2>1, <2>2 DEF Accounted, HeldByScheduler, Buffered, Skipped
  <2>4. OnePlace'
    BY <2>1, <2>2 DEF OnePlace, HeldByScheduler, Buffered, Skipped, InDecoder, Open, AtMostOnce
  <2> QED
    BY <2>3, <2>4
<1>8. ASSUME NEW d \in Decoders, Report(d) PROVE Goal
  <2>1. PICK n \in 0 .. NofSubframes : n = cur[d].tti
    BY DEF TypeOK, Task
  <2>2. /\ \A i : HeldByDecoder(d, i) <=> i = n
        /\ \A i : ~HeldByDecoder(d, i)'
        /\ \A e \in Decoders \ {d} : \A i : HeldByDecoder(e, i)' <=> HeldByDecoder(e, i)
    BY <1>8, <2>1 DEF Report, HeldByDecoder, TypeOK
  <2>3. n \in Subframes
    BY <2>2 DEF OnePlace, Subframes
  <2>4. /\ sf_cnt' = sf_cnt /\ tmp' = tmp /\ skip' = skip /\ dropped' = dropped /\ spc' = spc
        /\ reported' = [reported EXCEPT ![n] = @ + 1]
    BY <1>8, <2>1 DEF Report
  <2>5. reported[n] = 0
    BY <2>2, <2>3 DEF OnePlace, InDecoder, Open
  <2>6. \A i \in Subframes : reported'[i] = IF i = n THEN 1 ELSE reported[i]
    BY <1>t, <2>3, <2>4, <2>5 DEF Subframes
  <2>7. Accounted'
    <3> SUFFICES ASSUME NEW i \in 1 .. sf_cnt
                 PROVE  \/ HeldByScheduler(i)' \/ Buffered(i)' \/ Skipped(i)'
                        \/ \E e \in Decoders : HeldByDecoder(e, i)'
                        \/ reported'[i] > 0
                        \/ i \in dropped'
      BY <2>4 DEF Accounted
    <3>1. i \in Subframes
      BY <1>t DEF Subframes
    <3>2. CASE i = n
      BY <2>6, <3>1, <3>2
    <3>3. CASE i # n
      BY <2>2, <2>4, <2>6, <3>1, <3>3 DEF Accounted, HeldByScheduler, Buffered, Skipped
    <3> QED
      BY <3>2, <3>3
  <2>8. OnePlace'
    <3>0. \A i \in Subframes : reported[i] <= 1
      BY DEF OnePlace, AtMostOnce
    <3>1. AtMostOnce'
      BY <2>6, <3>0 DEF AtMostOnce
    <3>2. \A i \in Subframes : InDecoder(i)' => InDecoder(i) /\ i # n
      BY <2>2 DEF InDecoder, OnePlace
    <3>3. \A i \in Subframes : i # n => (Open(i)' <=> Open(i))
      BY <2>4, <2>6 DEF Open
    <3>4. InDecoder(n)
      BY <2>2 DEF InDecoder
    <3> QED
      BY <2>2, <2>3, <2>4, <3>1, <3>2, <3>3, <3>4 DEF OnePlace, HeldByScheduler, Buffered, Skipped
  <2> QED
    BY <2>7, <2>8
<1>9. ASSUME NEW d \in Decoders, SpuriousWakeUp(d) PROVE FALSE
  BY <1>9 DEF SpuriousWakeUp, Platform, TypeOK
<1> QED
  BY <1>1, <1>2, <1>3, <1>4, <1>5, <1>6, <1>7, <1>8, <1>9
     DEF Next, Scheduler, Handler, Decoder, Idle

-----------------------------------------------------------------------------
(* The state task_scheduler_start leaves behind satisfies the invariant.   *)
LEMMA InitInv == Init => PoolInv
<1> SUFFICES ASSUME Init PROVE PoolInv
  OBVIOUS
<1>1. TypeOK
  BY InitType
<1>2. Quiet /\ HandlerBusy /\ Started
  BY DEF Init, Quiet, HandlerBusy, Started
<1>3. Handshake
  BY DEF Init, Handshake, TakenExclusive, TakenByScheduler, TakenByHandler
<1>4. Accounted
  BY DEF Init, Accounted
<1>5. \A d \in Decoders : \A i : ~HeldByDecoder(d, i)
  BY DEF Init, HeldByDecoder
<1>6. OnePlace
  <2>1. IsInjective(tmp) /\ IsInjective(skip) /\ Range(tmp) = {} /\ Range(skip) = {}
    BY DEF Init, IsInjective, Range
  <2>2. AtMostOnce /\ \A i \in Subframes : Open(i)
    BY DEF Init, AtMostOnce, Open, Subframes
  <2> QED
    BY <1>5, <2>1, <2>2 DEF OnePlace, InDecoder, Buffered, Skipped
<1> QED
  BY <1>1, <1>2, <1>3, <1>4, <1>6 DEF PoolInv

(* The invariant is inductive on such a platform.                          *)
LEMMA Inductive == Platform => (Spec => []PoolInv)
<1> SUFFICES ASSUME Platform PROVE Spec => []PoolInv
  OBVIOUS
<1>1. PoolInv /\ [Next]_vars => PoolInv'
  BY NextType, NextQuiet, NextStarted, NextHandshake, NextPlaces DEF PoolInv
<1> QED
  BY <1>1, InitInv, PTL DEF Spec

(* find_idle_decoder never gives one decoder to both assigning threads, for*)
(* any number of decoders, as long as pthread_cond_wait returns only when  *)
(* signalled and the decoders start within the scheduler's sleep(1).       *)
THEOREM Exclusive == Platform => (Spec => []TakenExclusive)
<1>1. PoolInv => TakenExclusive
  BY DEF PoolInv, Handshake
<1> QED
  BY <1>1, Inductive, PTL

(* On the same platform no subframe is lost between the threads: each one  *)
(* received is held somewhere, reported, or was refused by skip_tti_put.   *)
THEOREM NothingLost == Platform => (Spec => []Accounted)
<1>1. PoolInv => Accounted
  BY DEF PoolInv
<1> QED
  BY <1>1, Inductive, PTL

(* On the same platform no subframe is put into dci_buffer twice.          *)
THEOREM NothingTwice == Platform => (Spec => []AtMostOnce)
<1>1. PoolInv => AtMostOnce
  BY DEF PoolInv, OnePlace
<1> QED
  BY <1>1, Inductive, PTL

(* On the same platform every step of the pool is a step of the delivery   *)
(* service or leaves what the service shows unchanged.                     *)
THEOREM Refinement == Platform => (Spec => ImplementsDelivery)
<1> DEFINE reports == [i \in Subframes |-> reported[i]]
<1>1. Init => Delivery!DeliveryInit
  BY DEF Init, Delivery!DeliveryInit, Subframes
<1>2. ASSUME Platform, PoolInv, [Next]_vars
      PROVE  [Delivery!DeliveryNext]_(Delivery!deliveryVars)
  <2>t. /\ sf_cnt \in 0 .. NofSubframes /\ reported \in [0 .. NofSubframes -> Nat]
    BY <1>2 DEF PoolInv, TypeOK
  <2> USE DEF handlerVars, decoderVars, schedVars
  <2>1. CASE Receive
    BY <2>1 DEF Receive, Delivery!DeliveryNext, Delivery!Arrive
  <2>2. CASE SchedulerBuffer
    <3>1. sf_cnt \in Subframes
      BY <1>2, <2>2, <2>t DEF PoolInv, Quiet, SchedulerBuffer, Subframes
    <3>2. reported[sf_cnt] = 0 /\ sf_cnt \notin dropped
      BY <1>2, <2>2, <3>1 DEF PoolInv, OnePlace, HeldByScheduler, Open, SchedulerBuffer
    <3>3. sf_cnt' = sf_cnt /\ reported' = reported
      BY <2>2 DEF SchedulerBuffer
    <3>4. dropped' = dropped \/ dropped' = dropped \cup {sf_cnt}
      BY <2>2 DEF SchedulerBuffer
    <3>5. sf_cnt > 0
      BY <3>1 DEF Subframes
    <3> QED
      BY <3>1, <3>2, <3>3, <3>4, <3>5
         DEF Delivery!DeliveryNext, Delivery!Drop, Delivery!deliveryVars
  <2>3. ASSUME NEW d \in Decoders, Report(d)
        PROVE  [Delivery!DeliveryNext]_(Delivery!deliveryVars)
    <3>1. PICK n \in 0 .. NofSubframes : n = cur[d].tti
      BY <1>2 DEF PoolInv, TypeOK, Task
    <3>2. HeldByDecoder(d, n)
      BY <2>3, <3>1 DEF Report, HeldByDecoder
    <3>3. n \in Subframes
      BY <1>2, <3>2 DEF PoolInv, OnePlace, Subframes
    <3>4. reported[n] = 0 /\ n \notin dropped /\ n \in 1 .. sf_cnt
      BY <1>2, <2>t, <3>2, <3>3 DEF PoolInv, OnePlace, InDecoder, Open, Subframes
    <3>5. /\ sf_cnt' = sf_cnt /\ dropped' = dropped
          /\ reported' = [reported EXCEPT ![n] = @ + 1]
      BY <2>3, <3>1 DEF Report
    <3>6. reports' = [reports EXCEPT ![n] = 1]
      <4>1. \A i \in Subframes : reported'[i] = IF i = n THEN 1 ELSE reported[i]
        BY <2>t, <3>3, <3>4, <3>5 DEF Subframes
      <4> QED
        BY <3>3, <4>1
    <3>7. reports[n] = 0
      BY <3>3, <3>4
    <3>8. Delivery!Deliver(n)
      BY <3>4, <3>5, <3>6, <3>7 DEF Delivery!Deliver
    <3> QED
      BY <3>4, <3>8 DEF Delivery!DeliveryNext
  <2>4. CASE SchedulerFind \/ SchedulerAssign \/ SchedulerLog \/ Handler \/ UNCHANGED vars
    <3>1. sf_cnt' = sf_cnt /\ reported' = reported /\ dropped' = dropped
      BY <2>4 DEF SchedulerFind, SchedulerAssign, SchedulerLog, Handler, HandlerLock,
         HandlerFindSkip, HandlerAssignSkip, HandlerFindRing, HandlerAssignRing, vars
    <3> QED
      BY <3>1 DEF Delivery!deliveryVars
  <2>5. ASSUME NEW d \in Decoders,
               ReleaseToken(d) \/ CondWait(d) \/ WakeUp(d) \/ SpuriousWakeUp(d) \/ Decode(d)
        PROVE  [Delivery!DeliveryNext]_(Delivery!deliveryVars)
    <3>1. sf_cnt' = sf_cnt /\ reported' = reported /\ dropped' = dropped
      BY <2>5 DEF ReleaseToken, CondWait, WakeUp, SpuriousWakeUp, Decode
    <3> QED
      BY <3>1 DEF Delivery!deliveryVars
  <2> QED
    BY <1>2, <2>1, <2>2, <2>3, <2>4, <2>5 DEF Next, Scheduler, Decoder, Idle
<1> SUFFICES ASSUME Platform PROVE Spec => ImplementsDelivery
  OBVIOUS
<1>3. PoolInv /\ [Next]_vars => [Delivery!DeliveryNext]_(Delivery!deliveryVars)
  BY <1>2
<1>4. Spec => []PoolInv
  BY Inductive
<1> QED
  BY <1>1, <1>3, <1>4, PTL DEF Spec, ImplementsDelivery, Delivery!Spec

-----------------------------------------------------------------------------
(* A mailbox that asks for decoding holds the samples of the subframe it   *)
(* names, and a decoder that decodes works on what its mailbox holds.      *)
MailboxCoherent ==
    \A d \in Decoders :
        /\ ~sf_buffer[d].empty => sf_buffer[d].iq = sf_buffer[d].tti
        /\ pc[d] = "decoding" => /\ cur[d].tti = sf_buffer[d].tti
                                 /\ cur[d].empty = sf_buffer[d].empty

(* sf_mutex keeps a mailbox as it is while its decoder decodes, whatever   *)
(* woke the decoder up.                                                    *)
LEMMA NextCoherent == ASSUME TypeOK, MailboxCoherent, [Next]_vars PROVE MailboxCoherent'
<1> USE DEF MailboxCoherent, handlerVars, decoderVars, schedVars
<1>t. /\ sf_buffer \in [Decoders -> Mailbox] /\ pc \in [Decoders -> DecoderPc]
      /\ cur \in [Decoders -> Task] /\ sidle \in Decoders /\ hidle \in Decoders
  BY DEF TypeOK
<1>1. ASSUME NEW d \in Decoders, NEW i, AssignTask(d, i), UNCHANGED cur PROVE MailboxCoherent'
  BY <1>1, <1>t DEF AssignTask, SfMutexFree, Signal
<1>2. ASSUME NEW d \in Decoders, NEW i, AssignEmptyTask(d, i), UNCHANGED cur
      PROVE  MailboxCoherent'
  <2>1. /\ sf_buffer'[d].empty = TRUE
        /\ \A e \in Decoders : e # d => sf_buffer'[e] = sf_buffer[e] /\ pc'[e] = pc[e]
    BY <1>2, <1>t DEF AssignEmptyTask, Signal, Mailbox
  <2>2. pc'[d] # "decoding"
    BY <1>2, <1>t DEF AssignEmptyTask, Signal, SfMutexFree
  <2> QED
    BY <1>2, <2>1, <2>2
<1>3. CASE SchedulerAssign
  BY <1>1, <1>3, <1>t DEF SchedulerAssign
<1>4. CASE HandlerAssignSkip
  BY <1>2, <1>4, <1>t DEF HandlerAssignSkip
<1>5. CASE HandlerAssignRing
  BY <1>1, <1>5, <1>t DEF HandlerAssignRing
<1>6. CASE \/ Receive \/ SchedulerFind \/ SchedulerLog \/ SchedulerBuffer
           \/ HandlerLock \/ HandlerFindSkip \/ HandlerFindRing
  BY <1>6 DEF Receive, SchedulerFind, SchedulerLog, SchedulerBuffer,
     HandlerLock, HandlerFindSkip, HandlerFindRing
<1>7. ASSUME NEW d \in Decoders, WakeUp(d) \/ SpuriousWakeUp(d) PROVE MailboxCoherent'
  BY <1>7, <1>t DEF WakeUp, SpuriousWakeUp
<1>8. ASSUME NEW d \in Decoders, ReleaseToken(d) \/ CondWait(d) \/ Decode(d) \/ Report(d)
      PROVE  MailboxCoherent'
  BY <1>8, <1>t DEF ReleaseToken, CondWait, Decode, Report
<1>9. CASE UNCHANGED vars
  BY <1>9 DEF vars
<1> QED
  BY <1>3, <1>4, <1>5, <1>6, <1>7, <1>8, <1>9 DEF Next, Scheduler, Handler, Decoder, Idle

(* dci_decoder_decode works on the IQ samples of the subframe whose TTI it *)
(* reports, on every platform: a spurious wake-up repeats a subframe but   *)
(* does not mix two.                                                       *)
THEOREM SamplesMatch == Spec => []IqMatchesTti
<1>1. Init => MailboxCoherent
  BY DEF Init, MailboxCoherent
<1>2. TypeOK /\ MailboxCoherent /\ [Next]_vars => MailboxCoherent'
  BY NextCoherent
<1>3. MailboxCoherent => IqMatchesTti
  BY DEF MailboxCoherent, IqMatchesTti
<1> QED
  BY <1>1, <1>2, <1>3, TypeCorrect, PTL DEF Spec
=============================================================================
