-------------------------- MODULE SchedulerProofs --------------------------
(***************************************************************************)
(* Proofs about ThreadExit for any number of RF devices and of decoders in *)
(* each, with and without a logger, and with SIGINT at any moment; and     *)
(* about TmpBuffer for rings, skip lists and frames of any size.           *)
(***************************************************************************)
EXTENDS ThreadExit, TmpBuffer, IndexLemmas, SequenceTheorems, TLAPS

-----------------------------------------------------------------------------
(* How the threads end.                                                    *)

USE ExitAssumption

\* The scheduler has cleared task_scheduler_up.
IsDown(r) == spc[r] \in {"signal", "join", "joinTmp", "done"}

(* The flags other threads poll say where the scheduler is, and its        *)
(* signalling loop stays inside its decoders.                              *)
SchedulerFlags ==
    \A r \in RfDevs :
        /\ IsDown(r) <=> ~task_scheduler_up[r]
        /\ task_scheduler_closed[r] <=> spc[r] = "done"
        /\ iqFreed[r] <=> spc[r] \in {"joinTmp", "done"}
        /\ spc[r] \in {"run", "body", "turn"} => sigIdx[r] = 0
        /\ spc[r] = "signal" => sigIdx[r] < NofDecoder[r]

(* A device goes down after the ones above it have closed, frees what its  *)
(* decoders use after they ended, and closes after its handler did.        *)
DeviceOrder ==
    \A r \in RfDevs :
        /\ IsDown(r) => \A i \in RfDevs : i > r => task_scheduler_closed[i]
        /\ spc[r] \in {"joinTmp", "done"} => \A d \in Decoders(r) : dpc[r][d] = "done"
        /\ spc[r] = "done" => hpc[r] = "done"
        /\ hpc[r] = "assign" => hidle[r] \in Decoders(r)

(* A decoder ends after its scheduler went down and after the decoders     *)
(* above it, whose flags say so.                                           *)
DecoderOrder ==
    \A r \in RfDevs : \A d \in Decoders(r) :
        /\ dci_decoder_up[r][d] <=> dpc[r][d] # "done"
        /\ dpc[r][d] = "done" => IsDown(r) /\ \A i \in Decoders(r) : i > d => dpc[r][i] = "done"

(* A consumer that has freed its ring buffers has seen all devices closed. *)
ConsumerLast == \A c \in Consumers : kpc[c] = "done" => AllRfDevsClosed

(* Whoever is on the way out has seen go_exit.                             *)
SawExit ==
    \A r \in RfDevs :
        /\ spc[r] \notin {"run", "body"} => go_exit
        /\ \A d \in Decoders(r) : dpc[r][d] \in {"turn", "done"} => go_exit

(* The inductive invariant of the exit protocol.                           *)
ExitInv == TypeOK /\ SchedulerFlags /\ DeviceOrder /\ DecoderOrder /\ ConsumerLast /\ SawExit

-----------------------------------------------------------------------------
(* All threads are up and well typed when ngscope_main starts to wait.     *)
LEMMA InitType == Init => TypeOK
<1> SUFFICES ASSUME Init PROVE TypeOK
  OBVIOUS
<1>1. \A r \in RfDevs : NofDecoder[r] \in Nat \ {0}
  BY DEF RfDevs
<1>2. DOMAIN dpc = RfDevs /\ \A r \in RfDevs : dpc[r] \in [Decoders(r) -> DecoderPc]
  BY DEF Init, DecoderPc
<1>3. /\ DOMAIN dci_decoder_up = RfDevs
      /\ \A r \in RfDevs : dci_decoder_up[r] \in [Decoders(r) -> BOOLEAN]
  BY DEF Init
<1>4. sigIdx \in [RfDevs -> Nat] /\ \A r \in RfDevs : sigIdx[r] <= NofDecoder[r]
  BY <1>1 DEF Init
<1>5. hidle \in [RfDevs -> Nat] /\ \A r \in RfDevs : hidle[r] <= NofDecoder[r]
  BY <1>1 DEF Init, NoDecoder
<1> QED
  BY <1>2, <1>3, <1>4, <1>5 DEF Init, TypeOK, SchedulerPc, SinkPc

(* A signal wakes a waiting decoder and disturbs no other.                 *)
LEMMA SignalledType ==
  ASSUME TypeOK, NEW r \in RfDevs, NEW n \in Decoders(r), dpc' = Signalled(r, n)
  PROVE  /\ DOMAIN dpc' = RfDevs /\ \A i \in RfDevs : dpc'[i] \in [Decoders(i) -> DecoderPc]
         /\ \A i \in RfDevs : \A d \in Decoders(i) :
               \/ dpc'[i][d] = dpc[i][d]
               \/ i = r /\ d = n /\ dpc[i][d] = "waiting" /\ dpc'[i][d] = "signalled"
BY DEF TypeOK, Signalled, DecoderPc

(* A step of one decoder changes its own position only.                    *)
LEMMA DecoderSetType ==
  ASSUME TypeOK, NEW r \in RfDevs, NEW n \in Decoders(r), NEW from, NEW to \in DecoderPc,
         DecoderSet(r, n, from, to)
  PROVE  /\ DOMAIN dpc' = RfDevs /\ \A i \in RfDevs : dpc'[i] \in [Decoders(i) -> DecoderPc]
         /\ dpc[r][n] = from /\ dpc'[r][n] = to
         /\ \A i \in RfDevs : \A d \in Decoders(i) : i # r \/ d # n => dpc'[i][d] = dpc[i][d]
BY DEF TypeOK, DecoderSet, DecoderPc

(* Every step keeps the types: a scheduler's loop over its decoders and    *)
(* the index find_idle_decoder returned stay in range.                     *)
LEMMA NextType == ASSUME ExitInv, [Next]_vars PROVE TypeOK'
<1> USE DEF schedVars, decVars, handlerVars, sinkVars
<1>t. TypeOK /\ \A r \in RfDevs : NofDecoder[r] \in Nat \ {0}
  BY DEF ExitInv, RfDevs
<1>1. CASE SigInt
  BY <1>1, <1>t DEF SigInt, TypeOK
<1>2. ASSUME NEW r \in RfDevs, NEW d \in Decoders(r),
             DecoderTop(r, d) \/ DecoderWait(r, d) \/ DecoderWake(r, d)
      PROVE  TypeOK'
  <2>1. PICK from, to \in DecoderPc : DecoderSet(r, d, from, to)
    BY <1>2 DEF DecoderTop, DecoderWait, DecoderWake, DecoderPc
  <2> QED
    BY <1>2, <1>t, <2>1, DecoderSetType DEF DecoderTop, DecoderWait, DecoderWake, TypeOK
<1>3. ASSUME NEW r \in RfDevs, NEW d \in Decoders(r), DecoderReport(r, d) PROVE TypeOK'
  <2>1. DecoderSet(r, d, "work", "top")
    BY <1>3 DEF DecoderReport
  <2> QED
    BY <1>3, <1>t, <2>1, DecoderSetType DEF DecoderReport, TypeOK, DecoderPc
<1>4. ASSUME NEW r \in RfDevs, NEW d \in Decoders(r), DecoderClose(r, d) PROVE TypeOK'
  <2>1. DecoderSet(r, d, "turn", "done")
    BY <1>4 DEF DecoderClose
  <2>2. /\ DOMAIN dci_decoder_up' = RfDevs
        /\ \A i \in RfDevs : dci_decoder_up'[i] \in [Decoders(i) -> BOOLEAN]
    BY <1>4, <1>t DEF DecoderClose, TypeOK
  <2> QED
    BY <1>4, <1>t, <2>1, <2>2, DecoderSetType DEF DecoderClose, TypeOK, DecoderPc
<1>5. ASSUME NEW r \in RfDevs, NEW d \in Decoders(r), HandlerTake(r, d) PROVE TypeOK'
  BY <1>5, <1>t DEF HandlerTake, TypeOK, Decoders
<1>6. ASSUME NEW r \in RfDevs, HandlerAssign(r) PROVE TypeOK'
  <2>1. hidle[r] \in Decoders(r) /\ dpc' = Signalled(r, hidle[r])
    BY <1>6 DEF HandlerAssign, ExitInv, DeviceOrder
  <2>2. hidle' \in [RfDevs -> Nat] /\ \A i \in RfDevs : hidle'[i] <= NofDecoder[i]
    BY <1>6, <1>t DEF HandlerAssign, TypeOK, NoDecoder
  <2> QED
    BY <1>6, <1>t, <2>1, <2>2, SignalledType DEF HandlerAssign, TypeOK
<1>7. ASSUME NEW r \in RfDevs, HandlerExit(r) PROVE TypeOK'
  BY <1>7, <1>t DEF HandlerExit, TypeOK
<1>8. ASSUME NEW r \in RfDevs, NEW d \in Decoders(r), SchedulerAssign(r, d) PROVE TypeOK'
  <2>1. dpc' = Signalled(r, d) /\ spc' \in [RfDevs -> SchedulerPc]
    BY <1>8, <1>t DEF SchedulerAssign, SchedulerSet, TypeOK, SchedulerPc
  <2> QED
    BY <1>8, <1>t, <2>1, SignalledType DEF SchedulerAssign, TypeOK
<1>9. ASSUME NEW r \in RfDevs,
             \/ SchedulerReceive(r) \/ SchedulerStore(r) \/ SchedulerExit(r)
             \/ SchedulerDown(r) \/ SchedulerJoin(r) \/ SchedulerClose(r)
      PROVE  TypeOK'
  BY <1>9, <1>t DEF SchedulerReceive, SchedulerStore, SchedulerExit, SchedulerDown, SchedulerJoin,
     SchedulerClose, SchedulerSet, TypeOK, SchedulerPc
<1>10. ASSUME NEW r \in RfDevs, SchedulerSignal(r) PROVE TypeOK'
  <2>1. sigIdx[r] \in Decoders(r) /\ dpc' = Signalled(r, sigIdx[r])
    BY <1>10, <1>t DEF SchedulerSignal, ExitInv, SchedulerFlags, TypeOK, Decoders
  <2>2. sigIdx' \in [RfDevs -> Nat] /\ \A i \in RfDevs : sigIdx'[i] <= NofDecoder[i]
    BY <1>10, <1>t, <2>1 DEF SchedulerSignal, TypeOK, Decoders
  <2>3. spc' \in [RfDevs -> SchedulerPc]
    BY <1>10, <1>t DEF SchedulerSignal, TypeOK, SchedulerPc
  <2> QED
    BY <1>10, <1>t, <2>1, <2>2, <2>3, SignalledType DEF SchedulerSignal, TypeOK
<1>11. CASE Tracker \/ MainReturn
  BY <1>11, <1>t DEF Tracker, TrackerTop, TrackerForward, TrackerClose, MainReturn, AfterTop,
     TypeOK, SinkPc
<1>12. ASSUME NEW c \in Consumers, Consumer(c) PROVE TypeOK'
  BY <1>12, <1>t DEF Consumer, ConsumerTop, ConsumerTake, ConsumerClose, ConsumerSet, AfterTop,
     TypeOK, SinkPc
<1>13. CASE UNCHANGED vars
  BY <1>13, <1>t DEF vars, TypeOK
<1> QED
  BY <1>1, <1>2, <1>3, <1>4, <1>5, <1>6, <1>7, <1>8, <1>9, <1>10, <1>11, <1>12, <1>13
     DEF Next, Scheduler, Handler, Decoder

(* Every step keeps the order in which the threads end.                    *)
LEMMA NextOrder ==
  ASSUME ExitInv, [Next]_vars
  PROVE  (SchedulerFlags /\ DeviceOrder /\ DecoderOrder /\ ConsumerLast /\ SawExit)'
<1> USE DEF schedVars, decVars, handlerVars, sinkVars
<1> DEFINE Goal == (SchedulerFlags /\ DeviceOrder /\ DecoderOrder /\ ConsumerLast /\ SawExit)'
<1>t. TypeOK /\ \A r \in RfDevs : NofDecoder[r] \in Nat \ {0}
  BY DEF ExitInv, RfDevs
<1>o. SchedulerFlags /\ DeviceOrder /\ DecoderOrder /\ ConsumerLast /\ SawExit
  BY DEF ExitInv
<1> USE DEF SchedulerFlags, DeviceOrder, DecoderOrder, ConsumerLast, SawExit, IsDown, AllRfDevsClosed
<1>1. CASE SigInt
  BY <1>1, <1>o DEF SigInt
<1>2. ASSUME NEW r \in RfDevs, NEW d \in Decoders(r),
             \/ DecoderTop(r, d) \/ DecoderWait(r, d) \/ DecoderWake(r, d) \/ DecoderReport(r, d)
      PROVE  Goal
  <2>1. PICK from, to \in DecoderPc \ {"done"} :
           /\ DecoderSet(r, d, from, to)
           /\ from # "done" /\ (to = "turn" => go_exit)
    BY <1>2 DEF DecoderTop, DecoderWait, DecoderWake, DecoderReport, DecoderPc
  <2>2. /\ dpc[r][d] = from /\ dpc'[r][d] = to
        /\ \A i \in RfDevs : \A e \in Decoders(i) : i # r \/ e # d => dpc'[i][e] = dpc[i][e]
    BY <1>t, <2>1, DecoderSetType
  <2>3. UNCHANGED <<go_exit, schedVars, dci_decoder_up, handlerVars, kpc>>
    BY <1>2 DEF DecoderTop, DecoderWait, DecoderWake, DecoderReport
  <2>4. DecoderOrder'
    BY <1>o, <2>1, <2>2, <2>3
  <2>5. SawExit' /\ DeviceOrder'
    BY <1>o, <2>1, <2>2, <2>3
  <2> QED
    BY <1>o, <2>3, <2>4, <2>5
<1>3. ASSUME NEW r \in RfDevs, NEW d \in Decoders(r), DecoderClose(r, d) PROVE Goal
  <2>1. /\ dpc[r][d] = "turn" /\ dpc'[r][d] = "done"
        /\ \A i \in RfDevs : \A e \in Decoders(i) : i # r \/ e # d => dpc'[i][e] = dpc[i][e]
    BY <1>3, <1>t, DecoderSetType DEF DecoderClose, DecoderPc
  <2>2. /\ ~dci_decoder_up'[r][d]
        /\ \A i \in RfDevs : \A e \in Decoders(i) :
              i # r \/ e # d => dci_decoder_up'[i][e] = dci_decoder_up[i][e]
    BY <1>3, <1>t DEF DecoderClose, TypeOK
  <2>3. IsDown(r) /\ \A i \in Decoders(r) : i > d => dpc[r][i] = "done"
    BY <1>3, <1>o DEF DecoderClose, DecoderTurn
  <2>4. UNCHANGED <<go_exit, schedVars, handlerVars, kpc>>
    BY <1>3 DEF DecoderClose
  <2>5. \A i \in Decoders(r) : i > d => i # d
    BY DEF Decoders
  <2>6. DecoderOrder'
    <3> SUFFICES ASSUME NEW i \in RfDevs, NEW e \in Decoders(i)
                 PROVE  /\ dci_decoder_up'[i][e] <=> dpc'[i][e] # "done"
                        /\ dpc'[i][e] = "done" => /\ IsDown(i)'
                                                  /\ \A j \in Decoders(i) : j > e => dpc'[i][j] = "done"
      BY DEF DecoderOrder
    <3>1. CASE i = r /\ e = d
      <4>1. IsDown(r)' /\ \A j \in Decoders(r) : j > d => dpc'[r][j] = "done"
        BY <2>1, <2>3, <2>4, <2>5
      <4>2. dpc'[r][d] = "done" /\ ~dci_decoder_up'[r][d]
        BY <2>1, <2>2
      <4> QED
        BY <3>1, <4>1, <4>2
    <3>2. CASE i # r \/ e # d
      <4>1. dpc'[i][e] = dpc[i][e] /\ dci_decoder_up'[i][e] = dci_decoder_up[i][e]
        BY <2>1, <2>2, <3>2
      <4>2. \A j \in Decoders(i) : dpc[i][j] = "done" => dpc'[i][j] = "done"
        BY <2>1
      <4> QED
        BY <1>o, <2>4, <4>1, <4>2
    <3> QED
      BY <3>1, <3>2
  <2> QED
    BY <1>o, <2>1, <2>4, <2>6
<1>4. ASSUME NEW r \in RfDevs, NEW d \in Decoders(r), HandlerTake(r, d) PROVE Goal
  BY <1>4, <1>t, <1>o DEF HandlerTake, TypeOK
<1>5. ASSUME NEW r \in RfDevs, HandlerAssign(r) PROVE Goal
  <2>1. \A i \in RfDevs : \A e \in Decoders(i) :
           dpc'[i][e] = dpc[i][e] \/ (dpc[i][e] = "waiting" /\ dpc'[i][e] = "signalled")
    BY <1>5, <1>t, <1>o, SignalledType DEF HandlerAssign
  <2>2. UNCHANGED <<go_exit, schedVars, dci_decoder_up, kpc>>
    BY <1>5 DEF HandlerAssign
  <2>3. \A i \in RfDevs : (hpc'[i] = "assign" => hpc[i] = "assign" /\ hidle'[i] = hidle[i])
                          /\ (hpc[i] = "done" => hpc'[i] = "done")
    BY <1>5, <1>t DEF HandlerAssign, TypeOK
  <2>4. DecoderOrder'
    BY <1>o, <2>1, <2>2
  <2> QED
    BY <1>o, <2>1, <2>2, <2>3, <2>4
<1>6. ASSUME NEW r \in RfDevs, HandlerExit(r) PROVE Goal
  BY <1>6, <1>t, <1>o DEF HandlerExit, TypeOK
<1>7. ASSUME NEW r \in RfDevs, NEW d \in Decoders(r), SchedulerAssign(r, d) PROVE Goal
  <2>1. \A i \in RfDevs : \A e \in Decoders(i) :
           dpc'[i][e] = dpc[i][e] \/ (dpc[i][e] = "waiting" /\ dpc'[i][e] = "signalled")
    BY <1>7, <1>t, SignalledType DEF SchedulerAssign
  <2>2. \A i \in RfDevs : spc'[i] = spc[i] \/ (spc[i] = "body" /\ spc'[i] = "run")
    BY <1>7, <1>t DEF SchedulerAssign, SchedulerSet, TypeOK
  <2>3. UNCHANGED <<go_exit, sigIdx, task_scheduler_up, task_scheduler_closed, iqFreed,
                    dci_decoder_up, handlerVars, kpc>>
    BY <1>7 DEF SchedulerAssign
  <2>4. DecoderOrder'
    BY <1>o, <2>1, <2>2, <2>3
  <2>5. SchedulerFlags'
    BY <1>o, <2>2, <2>3
  <2>6. DeviceOrder'
    BY <1>o, <2>1, <2>2, <2>3
  <2>7. SawExit'
    BY <1>o, <2>1, <2>2, <2>3
  <2>8. ConsumerLast'
    BY <1>o, <2>3
  <2> QED
    BY <2>4, <2>5, <2>6, <2>7, <2>8
<1>8. ASSUME NEW r \in RfDevs, SchedulerReceive(r) \/ SchedulerStore(r) \/ SchedulerExit(r)
      PROVE  Goal
  <2>1. \A i \in RfDevs :
           spc'[i] = spc[i] \/ ({spc[i], spc'[i]} \subseteq {"run", "body", "turn"}
                                /\ (spc'[i] = "turn" => go_exit))
    BY <1>8, <1>t DEF SchedulerReceive, SchedulerStore, SchedulerExit, SchedulerSet, TypeOK
  <2>2. UNCHANGED <<go_exit, sigIdx, task_scheduler_up, task_scheduler_closed, iqFreed,
                    decVars, handlerVars, kpc>>
    BY <1>8 DEF SchedulerReceive, SchedulerStore, SchedulerExit
  <2>3. SchedulerFlags' /\ DeviceOrder'
    BY <1>o, <2>1, <2>2
  <2>4. DecoderOrder'
    BY <1>o, <2>1, <2>2
  <2>5. ConsumerLast' /\ SawExit'
    BY <1>o, <2>1, <2>2
  <2> QED
    BY <2>3, <2>4, <2>5
<1>9. ASSUME NEW r \in RfDevs, SchedulerDown(r) PROVE Goal
  <2>1. /\ spc[r] = "turn" /\ spc'[r] = "signal" /\ ~task_scheduler_up'[r]
        /\ \A i \in RfDevs : i # r => spc'[i] = spc[i] /\ task_scheduler_up'[i] = task_scheduler_up[i]
    BY <1>9, <1>t DEF SchedulerDown, SchedulerSet, TypeOK
  <2>2. \A i \in RfDevs : i > r => task_scheduler_closed[i]
    BY <1>9 DEF SchedulerDown
  <2>3. UNCHANGED <<go_exit, sigIdx, task_scheduler_closed, iqFreed, decVars, handlerVars, kpc>>
    BY <1>9 DEF SchedulerDown
  <2>4. SchedulerFlags'
    BY <1>t, <1>o, <2>1, <2>3
  <2>5. DeviceOrder' /\ DecoderOrder'
    BY <1>o, <2>1, <2>2, <2>3
  <2>6. ConsumerLast'
    BY <1>o, <2>3
  <2>7. SawExit'
    BY <1>o, <2>1, <2>3

  <2> QED
    BY <2>4, <2>5, <2>6, <2>7
<1>10. ASSUME NEW r \in RfDevs, SchedulerSignal(r) PROVE Goal
  <2>1. \A i \in RfDevs : \A e \in Decoders(i) :
           dpc'[i][e] = dpc[i][e] \/ (dpc[i][e] = "waiting" /\ dpc'[i][e] = "signalled")
    <3>1. sigIdx[r] \in Decoders(r) /\ dpc' = Signalled(r, sigIdx[r])
      BY <1>10, <1>t, <1>o DEF SchedulerSignal, TypeOK, Decoders
    <3> QED
      BY <1>t, <3>1, SignalledType
  <2>2. \A i \in RfDevs :
           \/ spc'[i] = spc[i] /\ sigIdx'[i] = sigIdx[i]
           \/ spc[i] = "signal" /\ spc'[i] = "join"
           \/ spc[i] = "signal" /\ spc'[i] = "signal" /\ sigIdx'[i] < NofDecoder[i]
    <3>1. sigIdx[r] \in Nat /\ sigIdx[r] < NofDecoder[r] /\ NofDecoder[r] \in Nat
      BY <1>10, <1>t, <1>o DEF SchedulerSignal, TypeOK
    <3> QED
      BY <1>10, <1>t, <3>1 DEF SchedulerSignal, TypeOK
  <2>3. UNCHANGED <<go_exit, task_scheduler_up, task_scheduler_closed, iqFreed,
                    dci_decoder_up, handlerVars, kpc>>
    BY <1>10 DEF SchedulerSignal
  <2>4. DecoderOrder'
    BY <1>o, <2>1, <2>2, <2>3
  <2> QED
    BY <1>o, <2>1, <2>2, <2>3, <2>4
<1>11. ASSUME NEW r \in RfDevs, SchedulerJoin(r) \/ SchedulerClose(r) PROVE Goal
  <2>1. PICK to \in {"joinTmp", "done"} :
           /\ spc' = [spc EXCEPT ![r] = to]
           /\ spc[r] = IF to = "joinTmp" THEN "join" ELSE "joinTmp"
           /\ to = "joinTmp" => /\ \A d \in Decoders(r) : dpc[r][d] = "done"
                                /\ iqFreed' = [iqFreed EXCEPT ![r] = TRUE]
                                /\ UNCHANGED task_scheduler_closed
           /\ to = "done" => /\ hpc[r] = "done" /\ UNCHANGED iqFreed
                             /\ task_scheduler_closed' = [task_scheduler_closed EXCEPT ![r] = TRUE]
    BY <1>11 DEF SchedulerJoin, SchedulerClose, SchedulerSet
  <2>2. UNCHANGED <<go_exit, sigIdx, task_scheduler_up, decVars, handlerVars, kpc>>
    BY <1>11 DEF SchedulerJoin, SchedulerClose
  <2>3. \A i \in RfDevs : /\ i # r => spc'[i] = spc[i]
                          /\ task_scheduler_closed[i] => task_scheduler_closed'[i]
                          /\ IsDown(i)' <=> IsDown(i)
    BY <1>t, <2>1 DEF TypeOK
  <2>4. SchedulerFlags'
    BY <1>t, <1>o, <2>1, <2>2, <2>3 DEF TypeOK
  <2>5. DeviceOrder' /\ DecoderOrder'
    BY <1>t, <1>o, <2>1, <2>2, <2>3 DEF TypeOK
  <2>6. ConsumerLast' /\ SawExit'
    BY <1>t, <1>o, <2>1, <2>2, <2>3 DEF TypeOK
  <2> QED
    BY <2>4, <2>5, <2>6
<1>12. CASE Tracker \/ MainReturn
  BY <1>12, <1>o DEF Tracker, TrackerTop, TrackerForward, TrackerClose, MainReturn
<1>13. ASSUME NEW c \in Consumers, Consumer(c) PROVE Goal
  BY <1>13, <1>t, <1>o DEF Consumer, ConsumerTop, ConsumerTake, ConsumerClose, ConsumerSet,
     AfterTop, TypeOK
<1>14. CASE UNCHANGED vars
  BY <1>14, <1>o DEF vars
<1> QED
  BY <1>1, <1>2, <1>3, <1>4, <1>5, <1>6, <1>7, <1>8, <1>9, <1>10, <1>11, <1>12, <1>13, <1>14
     DEF Next, Scheduler, Handler, Decoder

-----------------------------------------------------------------------------
(* All threads run before SIGINT.                                          *)
LEMMA InitInv == Init => ExitInv
<1> SUFFICES ASSUME Init PROVE ExitInv
  OBVIOUS
<1>1. \A r \in RfDevs : NofDecoder[r] \in Nat \ {0}
  BY DEF RfDevs
<1>2. SchedulerFlags /\ DeviceOrder
  BY <1>1 DEF Init, SchedulerFlags, DeviceOrder, IsDown
<1>3. DecoderOrder /\ ConsumerLast /\ SawExit
  BY DEF Init, DecoderOrder, ConsumerLast, SawExit
<1> QED
  BY <1>2, <1>3, InitType DEF ExitInv

(* The exit invariant holds in every reachable state.                      *)
LEMMA Inductive == Spec => []ExitInv
<1>1. ExitInv /\ [Next]_vars => ExitInv'
  BY NextType, NextOrder DEF ExitInv
<1> QED
  BY <1>1, InitInv, PTL DEF Spec

(* Types: in particular the scheduler's loop that signals its decoders     *)
(* (task_scheduler.c) never leaves the array.                              *)
THEOREM TypeCorrect == Spec => []TypeOK
<1>1. ExitInv => TypeOK
  BY DEF ExitInv
<1> QED
  BY <1>1, Inductive, PTL

(* The devices and the decoders of each close in the order the polls of    *)
(* thread_exit.c impose, although they test the flags without a lock.      *)
THEOREM ClosesInOrder == Spec => []ClosedInOrder
<1>1. ExitInv => ClosedInOrder
  <2> SUFFICES ASSUME ExitInv PROVE ClosedInOrder
    OBVIOUS
  <2>o. SchedulerFlags /\ DeviceOrder /\ DecoderOrder
    BY DEF ExitInv
  <2>1. ASSUME NEW r \in RfDevs, task_scheduler_closed[r]
        PROVE  /\ hpc[r] = "done"
               /\ \A i \in RfDevs : i >= r => \A d \in Decoders(i) : dpc[i][d] = "done"
    <3>1. spc[r] = "done" /\ hpc[r] = "done"
      BY <2>o, <2>1 DEF SchedulerFlags, DeviceOrder
    <3>2. \A i \in RfDevs : i > r => spc[i] = "done"
      BY <2>o, <3>1 DEF SchedulerFlags, DeviceOrder, IsDown
    <3>3. \A i \in RfDevs : i >= r => i = r \/ i > r
      BY DEF RfDevs
    <3>4. \A i \in RfDevs : spc[i] = "done" => \A d \in Decoders(i) : dpc[i][d] = "done"
      BY <2>o DEF DeviceOrder
    <3> QED
      BY <3>1, <3>2, <3>3, <3>4
  <2>2. ASSUME NEW r \in RfDevs, NEW d \in Decoders(r), dpc[r][d] = "done"
        PROVE  /\ \A i \in Decoders(r) : i > d => dpc[r][i] = "done"
               /\ \A i \in RfDevs : i > r => task_scheduler_closed[i]
    BY <2>o, <2>2 DEF DecoderOrder, DeviceOrder
  <2> QED
    BY <2>1, <2>2 DEF ClosedInOrder
<1> QED
  BY <1>1, Inductive, PTL

(* The join in task_scheduler_thread comes before the free of ue_dl and of *)
(* the IQ buffers: no decoder is woken or works after it.                  *)
THEOREM FreedAfterLastDecode == Spec => []NoDecodeAfterFree
<1>1. ExitInv => NoDecodeAfterFree
  BY DEF ExitInv, SchedulerFlags, DeviceOrder, NoDecodeAfterFree
<1> QED
  BY <1>1, Inductive, PTL

(* A consumer that freed its ring buffers has no producer left.            *)
THEOREM ConsumersEndLast == Spec => []ConsumersOutliveProducers
<1>1. ExitInv => ConsumersOutliveProducers
  BY DEF ExitInv, SchedulerFlags, DeviceOrder, ConsumerLast, AllRfDevsClosed,
     ConsumersOutliveProducers
<1> QED
  BY <1>1, Inductive, PTL

-----------------------------------------------------------------------------
(* What a device that is not closed can wait for: the guards of the steps  *)
(* with which its scheduler, its handler and its decoders end.             *)
SchedulerCanGoOn(r) ==
    \/ spc[r] = "run" /\ go_exit
    \/ spc[r] = "body" /\ \A d \in Decoders(r) : dpc[r][d] \notin {"locked", "waiting"}
    \/ spc[r] = "turn" /\ \A i \in RfDevs : i > r => task_scheduler_closed[i]
    \/ spc[r] = "signal"
    \/ spc[r] = "join" /\ \A d \in Decoders(r) : dpc[r][d] = "done"
    \/ spc[r] = "joinTmp" /\ hpc[r] = "done"

HandlerCanGoOn(r) ==
    \/ hpc[r] = "run" /\ go_exit
    \/ hpc[r] = "assign" /\ dpc[r][hidle[r]] \notin {"locked", "work"}

DecoderCanGoOn(r) == \E d \in Decoders(r) : dpc[r][d] = "turn" /\ DecoderTurn(r, d)

(* The polls of thread_exit.c and the joins never wait in a circle: once   *)
(* every decoder has left its loop and until all devices are closed, some  *)
(* thread of the highest device that is not closed has its next step's     *)
(* guard satisfied.                                                        *)
THEOREM NoCircle ==
  Spec => [](DecodersLeftLoop /\ ~AllRfDevsClosed =>
                \E r \in RfDevs : SchedulerCanGoOn(r) \/ HandlerCanGoOn(r) \/ DecoderCanGoOn(r))
<1> DEFINE Goal == \E r \in RfDevs :
                      SchedulerCanGoOn(r) \/ HandlerCanGoOn(r) \/ DecoderCanGoOn(r)
<1>1. ExitInv => (DecodersLeftLoop /\ ~AllRfDevsClosed => Goal)
  <2> SUFFICES ASSUME ExitInv, DecodersLeftLoop, ~AllRfDevsClosed PROVE Goal
    OBVIOUS
  <2>o. TypeOK /\ SchedulerFlags /\ DeviceOrder /\ DecoderOrder /\ SawExit
    BY DEF ExitInv
  <2>1. PICK m \in RfDevs : /\ ~task_scheduler_closed[m]
                            /\ \A i \in RfDevs : i > m => task_scheduler_closed[i]
    <3> DEFINE Open == {r \in RfDevs : ~task_scheduler_closed[r]}
    <3>1. NofRfDev - 1 \in Nat /\ Open \in SUBSET (0 .. NofRfDev - 1) /\ Open # {}
      BY DEF RfDevs, AllRfDevsClosed
    <3>2. \E m \in Open : \A x \in Open : x <= m
      <4> HIDE DEF Open
      <4> QED
        BY <3>1, HighestExists
    <3>3. \A i, m \in RfDevs : i > m => ~(i <= m)
      BY DEF RfDevs
    <3> QED
      BY <3>2, <3>3
  <2>2. NofDecoder[m] \in Nat \ {0} /\ NofDecoder[m] - 1 \in Nat
    BY DEF RfDevs
  <2>3. go_exit
    <3>1. 0 \in Decoders(m)
      BY <2>2 DEF Decoders
    <3> QED
      BY <2>o, <3>1 DEF DecodersLeftLoop, SawExit
  <2>4. spc[m] \in {"run", "body", "turn", "signal", "join", "joinTmp"}
    BY <2>o, <2>1 DEF TypeOK, SchedulerPc, SchedulerFlags
  <2>5. CASE spc[m] \in {"run", "body", "turn", "signal"}
    BY <2>1, <2>3, <2>5 DEF DecodersLeftLoop, SchedulerCanGoOn
  <2>6. CASE spc[m] = "join"
    <3>1. CASE \A d \in Decoders(m) : dpc[m][d] = "done"
      BY <2>6, <3>1 DEF SchedulerCanGoOn
    <3>2. CASE \E d \in Decoders(m) : dpc[m][d] # "done"
      <4> DEFINE Left == {d \in Decoders(m) : dpc[m][d] # "done"}
      <4>1. Left \in SUBSET (0 .. NofDecoder[m] - 1) /\ Left # {}
        BY <3>2 DEF Decoders
      <4>2. PICK e \in Left : \A x \in Left : x <= e
        <5>1. \E e \in Left : \A x \in Left : x <= e
          <6> HIDE DEF Left
          <6> QED
            BY <2>2, <4>1, HighestExists
        <5> QED
          BY <5>1
      <4>3. \A i \in Decoders(m) : i > e => ~(i <= e)
        BY <2>2 DEF Decoders
      <4>4. \A i \in Decoders(m) : i > e => dpc[m][i] = "done"
        BY <4>2, <4>3
      <4>5. dpc[m][e] = "turn"
        BY DEF DecodersLeftLoop
      <4>6. DecoderTurn(m, e)
        BY <2>o, <2>6, <4>4 DEF DecoderTurn, SchedulerFlags, IsDown, DecoderOrder
      <4> QED
        BY <4>5, <4>6 DEF DecoderCanGoOn
    <3> QED
      BY <3>1, <3>2
  <2>7. CASE spc[m] = "joinTmp"
    <3>1. hpc[m] = "assign" => dpc[m][hidle[m]] \in {"turn", "done"}
      BY <2>o DEF DeviceOrder, DecodersLeftLoop
    <3>2. hpc[m] \in {"run", "assign", "done"}
      BY <2>o DEF TypeOK
    <3> QED
      BY <2>3, <2>7, <3>1, <3>2 DEF SchedulerCanGoOn, HandlerCanGoOn
  <2> QED
    BY <2>4, <2>5, <2>6, <2>7
<1> QED
  BY <1>1, Inductive, PTL

-----------------------------------------------------------------------------
(* The tmp buffer and the list of skipped TTIs.                            *)

HIDE ExitAssumption
USE BufferAssumption

Slots == 0 .. MaxTmpBuffer - 1
Sfs == {Sf(t) : t \in 0 .. LastTti}

\* The slot that is k steps after slot t.
Slot(t, k) == IF t + k < MaxTmpBuffer THEN t + k ELSE t + k - MaxTmpBuffer

(* Stepping around a ring of n slots by at most n.                         *)
LEMMA ModStep ==
  ASSUME NEW n \in Nat \ {0}, NEW t \in 0 .. n - 1, NEW k \in 0 .. n
  PROVE  (t + k) % n = IF t + k < n THEN t + k ELSE t + k - n
<1>1. \A a \in 0 .. n - 1 : a % n = a
  OBVIOUS
<1>2. \A a \in n .. n + n - 1 : a % n = a - n
  OBVIOUS
<1>3. CASE t + k < n
  <2>1. t + k \in 0 .. n - 1
    BY <1>3
  <2> QED
    BY <1>1, <1>3, <2>1
<1>4. CASE ~(t + k < n)
  <2>1. t + k \in n .. n + n - 1
    BY <1>4
  <2> QED
    BY <1>2, <1>4, <2>1
<1> QED
  BY <1>3, <1>4

(* The ring's slots, without the division.                                 *)
LEMMA SlotMod == \A t \in Slots : \A k \in 0 .. MaxTmpBuffer : (t + k) % MaxTmpBuffer = Slot(t, k)
BY ModStep DEF Slot, Slots

(* A TTI survives being split into frame and subframe number and rebuilt.  *)
LEMMA TtiRebuilt == \A t \in 0 .. LastTti : Tti(Sf(t)) = t
<1> TAKE t \in 0 .. LastTti
<1>1. ((t \div SfPerFrame) * SfPerFrame) + (t % SfPerFrame) = t
  OBVIOUS
<1> QED
  BY <1>1 DEF Tti, Sf

(* Whatever is stored is the TTI of a subframe that arrived.               *)
LEMMA TtiStored == \A sf \in Sfs : Tti(sf) \in 0 .. LastTti
BY TtiRebuilt DEF Sfs

-----------------------------------------------------------------------------
(* Header, tail and length agree on where the ring ends, and the flag says *)
(* when it is full.                                                        *)
RingShape ==
    /\ ring.header = Slot(ring.tail, ring.len)
    /\ ring.full <=> ring.len = MaxTmpBuffer

(* The inductive invariant of the containers.                              *)
BufferInv == BufferTypeOK /\ RingShape

(* The ring a put leaves behind.                                           *)
LEMMA PutRing ==
  ASSUME BufferInv, ~ring.full, NEW sf \in Sfs
  PROVE  LET q == RingPut(ring, sf)
         IN  /\ q \in [sf_buf : [Slots -> Sfs], header : Slots, tail : Slots,
                       len : 0 .. MaxTmpBuffer, full : BOOLEAN]
             /\ q.len = ring.len + 1 /\ q.tail = ring.tail
             /\ q.header = Slot(q.tail, q.len)
             /\ q.full <=> q.len = MaxTmpBuffer
             /\ q.sf_buf[ring.header] = sf
             /\ \A s \in Slots : s # ring.header => q.sf_buf[s] = ring.sf_buf[s]
<1> DEFINE q == RingPut(ring, sf)
<1>t. /\ ring \in [sf_buf : [Slots -> Sfs], header : Slots, tail : Slots,
                   len : 0 .. MaxTmpBuffer, full : BOOLEAN]
      /\ ring.header = Slot(ring.tail, ring.len)
      /\ ring.len \in 0 .. MaxTmpBuffer - 1
  BY DEF BufferInv, BufferTypeOK, RingShape, Slots, Sfs
<1>1. (ring.header + 1) % MaxTmpBuffer = Slot(ring.tail, ring.len + 1)
  <2>1. ring.header \in Slots /\ ring.tail \in Slots
    BY <1>t
  <2>2. (ring.header + 1) % MaxTmpBuffer = Slot(ring.header, 1)
    BY <2>1, SlotMod
  <2>3. \A t \in Slots : \A k \in Slots : Slot(Slot(t, k), 1) = Slot(t, k + 1)
    BY DEF Slot, Slots
  <2> QED
    BY <1>t, <2>1, <2>2, <2>3 DEF Slots
<1>2. Slot(ring.tail, ring.len + 1) \in Slots
  BY <1>t DEF Slot, Slots
<1>3. /\ q.sf_buf = [ring.sf_buf EXCEPT ![ring.header] = sf]
      /\ q.len = ring.len + 1 /\ q.tail = ring.tail
      /\ q.header = (ring.header + 1) % MaxTmpBuffer
      /\ q.full = (ring.len + 1 = MaxTmpBuffer)
  BY <1>t DEF RingPut
<1>5. q \in [sf_buf : [Slots -> Sfs], header : Slots, tail : Slots,
             len : 0 .. MaxTmpBuffer, full : BOOLEAN]
  <2>1. q.sf_buf \in [Slots -> Sfs] /\ q.header \in Slots /\ q.tail \in Slots
    BY <1>t, <1>1, <1>2, <1>3
  <2>2. q.len \in 0 .. MaxTmpBuffer /\ q.full \in BOOLEAN
    BY <1>t, <1>3
  <2> QED
    BY <1>t, <2>1, <2>2 DEF RingPut
<1> HIDE DEF q
<1>6. /\ q.sf_buf[ring.header] = sf
      /\ \A s \in Slots : s # ring.header => q.sf_buf[s] = ring.sf_buf[s]
  BY <1>t, <1>3
<1>7. q.header = Slot(q.tail, q.len) /\ (q.full <=> q.len = MaxTmpBuffer)
  BY <1>1, <1>3
<1> QED
  BY <1>3, <1>5, <1>6, <1>7 DEF q

(* The ring a get leaves behind.                                           *)
LEMMA GetRing ==
  ASSUME BufferInv, ring.len > 0
  PROVE  LET q == RingGet(ring)
         IN  /\ q \in [sf_buf : [Slots -> Sfs], header : Slots, tail : Slots,
                       len : 0 .. MaxTmpBuffer, full : BOOLEAN]
             /\ q.len = ring.len - 1 /\ q.tail = Slot(ring.tail, 1)
             /\ q.header = Slot(q.tail, q.len)
             /\ q.full <=> q.len = MaxTmpBuffer
             /\ q.sf_buf = ring.sf_buf
<1> DEFINE q == RingGet(ring)
<1>t. /\ ring \in [sf_buf : [Slots -> Sfs], header : Slots, tail : Slots,
                   len : 0 .. MaxTmpBuffer, full : BOOLEAN]
      /\ ring.header = Slot(ring.tail, ring.len)
      /\ ring.len \in 1 .. MaxTmpBuffer
  BY DEF BufferInv, BufferTypeOK, RingShape, Slots, Sfs
<1>1. (ring.tail + 1) % MaxTmpBuffer = Slot(ring.tail, 1) /\ Slot(ring.tail, 1) \in Slots
  <2>1. ring.tail \in Slots /\ 1 \in 0 .. MaxTmpBuffer
    BY <1>t
  <2>2. (ring.tail + 1) % MaxTmpBuffer = Slot(ring.tail, 1)
    BY <2>1, SlotMod
  <2>3. \A t \in Slots : Slot(t, 1) \in Slots
    BY DEF Slot, Slots
  <2> QED
    BY <2>1, <2>2, <2>3
<1>2. ring.len - 1 \in 0 .. MaxTmpBuffer /\ ring.len - 1 < MaxTmpBuffer
  BY <1>t
<1>3. q = [ring EXCEPT !.len = ring.len - 1, !.tail = Slot(ring.tail, 1), !.full = FALSE]
  BY <1>t, <1>1, <1>2 DEF RingGet
<1> HIDE DEF q
<1>4. /\ q.sf_buf = ring.sf_buf /\ q.header = ring.header
      /\ q.len = ring.len - 1 /\ q.tail = Slot(ring.tail, 1)
      /\ ~q.full
  BY <1>t, <1>3
<1>5. q \in [sf_buf : [Slots -> Sfs], header : Slots, tail : Slots,
             len : 0 .. MaxTmpBuffer, full : BOOLEAN]
  BY <1>t, <1>1, <1>2, <1>3
<1>6. \A t \in Slots : \A k \in 1 .. MaxTmpBuffer : Slot(Slot(t, 1), k - 1) = Slot(t, k)
  BY DEF Slot, Slots
<1>7. q.header = Slot(q.tail, q.len) /\ q.len # MaxTmpBuffer
  BY <1>t, <1>2, <1>4, <1>6
<1> QED
  BY <1>4, <1>5, <1>7 DEF q

(* The skip list a put leaves behind.                                      *)
LEMMA PutSkip ==
  ASSUME BufferTypeOK, NEW sf \in Sfs, skipped.nof_tti < MaxSkipTti
  PROVE  LET q == SkipPut(skipped, sf)
         IN  /\ q \in [sf : [0 .. MaxSkipTti - 1 -> Sfs], nof_tti : 0 .. MaxSkipTti]
             /\ q.nof_tti = skipped.nof_tti + 1 /\ q.sf[skipped.nof_tti] = sf
             /\ \A k \in 0 .. skipped.nof_tti - 1 : q.sf[k] = skipped.sf[k]
<1> DEFINE n == skipped.nof_tti
           q == SkipPut(skipped, sf)
<1>t. skipped \in [sf : [0 .. MaxSkipTti - 1 -> Sfs], nof_tti : 0 .. MaxSkipTti]
  BY DEF BufferTypeOK, Sfs
<1>1. n \in 0 .. MaxSkipTti - 1 /\ n + 1 \in 0 .. MaxSkipTti
  BY <1>t
<1>2. q = [skipped EXCEPT !.sf = [skipped.sf EXCEPT ![n] = sf], !.nof_tti = n + 1]
  BY <1>t DEF SkipPut
<1> HIDE DEF n, q
<1>3. q.sf = [skipped.sf EXCEPT ![n] = sf] /\ q.nof_tti = n + 1
  BY <1>t, <1>2
<1>4. q \in [sf : [0 .. MaxSkipTti - 1 -> Sfs], nof_tti : 0 .. MaxSkipTti]
  BY <1>t, <1>1, <1>2
<1>5. q.sf[n] = sf /\ \A k \in 0 .. n - 1 : q.sf[k] = skipped.sf[k]
  BY <1>t, <1>1, <1>3
<1> QED
  BY <1>3, <1>4, <1>5 DEF n, q

(* The skip list a get leaves behind.                                      *)
LEMMA GetSkip ==
  ASSUME BufferTypeOK, skipped.nof_tti > 0
  PROVE  LET q == SkipGet(skipped)
         IN  /\ q \in [sf : [0 .. MaxSkipTti - 1 -> Sfs], nof_tti : 0 .. MaxSkipTti]
             /\ q.nof_tti = skipped.nof_tti - 1
             /\ \A k \in 0 .. skipped.nof_tti - 2 : q.sf[k] = skipped.sf[k]
<1> DEFINE n == skipped.nof_tti
           q == SkipGet(skipped)
<1>t. skipped \in [sf : [0 .. MaxSkipTti - 1 -> Sfs], nof_tti : 0 .. MaxSkipTti]
  BY DEF BufferTypeOK, Sfs
<1>z. Sf(0) \in Sfs
  BY DEF Sfs
<1>1. n - 1 \in 0 .. MaxSkipTti - 1 /\ n - 1 \in 0 .. MaxSkipTti /\ n \in Nat
  BY <1>t
<1>2. q = [skipped EXCEPT !.sf = [skipped.sf EXCEPT ![n - 1] = Sf(0)], !.nof_tti = n - 1]
  BY <1>t DEF SkipGet
<1> HIDE DEF n, q
<1>3. q.sf = [skipped.sf EXCEPT ![n - 1] = Sf(0)] /\ q.nof_tti = n - 1
  BY <1>t, <1>2
<1>4. q \in [sf : [0 .. MaxSkipTti - 1 -> Sfs], nof_tti : 0 .. MaxSkipTti]
  BY <1>t, <1>z, <1>1, <1>2
<1>5. \A k \in 0 .. n - 2 : q.sf[k] = skipped.sf[k]
  BY <1>t, <1>1, <1>3
<1> QED
  BY <1>3, <1>4, <1>5 DEF n, q

-----------------------------------------------------------------------------
(* Both containers start empty.                                            *)
LEMMA BufferInitInv == BufferInit => BufferInv
<1> SUFFICES ASSUME BufferInit PROVE BufferInv
  OBVIOUS
<1>1. Sf(0) \in Sfs
  BY DEF Sfs
<1>2. BufferTypeOK
  <2>1. ring \in [sf_buf : [0 .. MaxTmpBuffer - 1 -> Sfs],
                  header : 0 .. MaxTmpBuffer - 1, tail : 0 .. MaxTmpBuffer - 1,
                  len : 0 .. MaxTmpBuffer, full : BOOLEAN]
    BY <1>1 DEF BufferInit
  <2>2. skipped \in [sf : [0 .. MaxSkipTti - 1 -> Sfs], nof_tti : 0 .. MaxSkipTti]
    BY <1>1 DEF BufferInit
  <2>3. next \in 0 .. LastTti + 1 /\ taken \in 0 .. LastTti
    BY DEF BufferInit
  <2> QED
    BY <2>1, <2>2, <2>3 DEF BufferTypeOK, Sfs
<1>3. RingShape
  BY DEF BufferInit, RingShape, Slot
<1> QED
  BY <1>2, <1>3 DEF BufferInv

(* Every operation keeps header, tail, len and full consistent.            *)
LEMMA BufferNextInv == BufferInv /\ [BufferNext]_bufferVars => BufferInv'
<1> SUFFICES ASSUME BufferInv, [BufferNext]_bufferVars PROVE BufferInv'
  OBVIOUS
<1>t. /\ BufferTypeOK /\ RingShape
      /\ ring \in [sf_buf : [Slots -> Sfs], header : Slots, tail : Slots,
                   len : 0 .. MaxTmpBuffer, full : BOOLEAN]
      /\ skipped \in [sf : [0 .. MaxSkipTti - 1 -> Sfs], nof_tti : 0 .. MaxSkipTti]
      /\ next \in 0 .. LastTti + 1 /\ taken \in 0 .. LastTti
  BY DEF BufferInv, BufferTypeOK, Slots, Sfs
<1> DEFINE RingOK == /\ ring' \in [sf_buf : [Slots -> Sfs], header : Slots, tail : Slots,
                                   len : 0 .. MaxTmpBuffer, full : BOOLEAN]
                     /\ ring'.header = Slot(ring'.tail, ring'.len)
                     /\ ring'.full <=> ring'.len = MaxTmpBuffer
           SkipOK == skipped' \in [sf : [0 .. MaxSkipTti - 1 -> Sfs], nof_tti : 0 .. MaxSkipTti]
           RestOK == next' \in 0 .. LastTti + 1 /\ taken' \in 0 .. LastTti
<1>g. ASSUME RingOK, SkipOK, RestOK PROVE BufferInv'
  BY <1>g DEF BufferInv, BufferTypeOK, RingShape, Slots, Sfs
<1>s. UNCHANGED ring => RingOK
  BY <1>t DEF RingShape
<1>1. CASE StoreSubframe
  <2>1. next \in 0 .. LastTti /\ Sf(next) \in Sfs /\ RestOK
    BY <1>1, <1>t DEF StoreSubframe, Sfs
  <2>2. RingOK
    <3>1. CASE UNCHANGED ring
      BY <1>s, <3>1
    <3>2. CASE ~ring.full /\ ring' = RingPut(ring, Sf(next))
      BY <2>1, <3>2, PutRing
    <3> QED
      BY <1>1, <3>1, <3>2 DEF StoreSubframe
  <2>3. SkipOK
    <3>1. CASE skipped.nof_tti # MaxSkipTti /\ skipped' = SkipPut(skipped, Sf(next))
      <4>1. skipped.nof_tti < MaxSkipTti
        BY <1>t, <3>1
      <4> QED
        BY <1>t, <2>1, <3>1, <4>1, PutSkip
    <3> QED
      BY <1>1, <1>t, <3>1 DEF StoreSubframe
  <2> QED
    BY <1>g, <2>1, <2>2, <2>3
<1>2. CASE TakeFromRing
  <2>1. RingOK
    BY <1>2, GetRing DEF TakeFromRing
  <2>2. ring.sf_buf[ring.tail] \in Sfs
    BY <1>t
  <2>3. SkipOK /\ RestOK
    BY <1>2, <1>t, <2>2, TtiStored DEF TakeFromRing
  <2> QED
    BY <1>g, <2>1, <2>3
<1>3. CASE TakeFromSkip
  <2>1. SkipOK
    BY <1>3, <1>t, GetSkip DEF TakeFromSkip
  <2>2. skipped.sf[skipped.nof_tti - 1] \in Sfs
    BY <1>3, <1>t DEF TakeFromSkip
  <2>3. RingOK /\ RestOK
    BY <1>3, <1>t, <1>s, <2>2, TtiStored DEF TakeFromSkip
  <2> QED
    BY <1>g, <2>1, <2>3
<1>4. CASE UNCHANGED bufferVars
  BY <1>4, <1>t, <1>s, <1>g DEF bufferVars
<1> QED
  BY <1>1, <1>2, <1>3, <1>4 DEF BufferNext, Done

(* The invariant holds in every reachable state.                           *)
LEMMA BufferInductive == BufferSpec => []BufferInv
BY BufferInitInv, BufferNextInv, PTL DEF BufferSpec

(* Types: no index of the ring or of the skip list leaves its array.       *)
THEOREM BufferTypeCorrect == BufferSpec => []BufferTypeOK
<1>1. BufferInv => BufferTypeOK
  BY DEF BufferInv
<1> QED
  BY <1>1, BufferInductive, PTL

(* header, tail, len and full describe the same ring, and the occupancy    *)
(* get_nof_buffered_sf computes from header and tail is right unless the   *)
(* ring is full, when it is 0.                                             *)
THEOREM RingStaysConsistent == BufferSpec => []RingConsistent
<1>1. BufferInv => RingConsistent
  <2> SUFFICES ASSUME BufferInv PROVE RingConsistent
    OBVIOUS
  <2>t. /\ ring.header \in Slots /\ ring.tail \in Slots /\ ring.len \in 0 .. MaxTmpBuffer
        /\ ring.header = Slot(ring.tail, ring.len)
        /\ ring.full <=> ring.len = MaxTmpBuffer
    BY DEF BufferInv, BufferTypeOK, RingShape, Slots
  <2>1. ring.header = (ring.tail + ring.len) % MaxTmpBuffer
    BY <2>t, SlotMod
  <2>2. GetNofBufferedSf = Slot(ring.header, MaxTmpBuffer - ring.tail)
    <3>1. MaxTmpBuffer - ring.tail \in 0 .. MaxTmpBuffer
      BY <2>t DEF Slots
    <3>2. ring.header + MaxTmpBuffer - ring.tail = ring.header + (MaxTmpBuffer - ring.tail)
      BY <2>t DEF Slots
    <3> QED
      BY <2>t, <3>1, <3>2, SlotMod DEF GetNofBufferedSf
  <2>3. \A t \in Slots : \A k \in 0 .. MaxTmpBuffer :
           Slot(Slot(t, k), MaxTmpBuffer - t) = IF k = MaxTmpBuffer THEN 0 ELSE k
    BY DEF Slot, Slots
  <2>4. GetNofBufferedSf = IF ring.len = MaxTmpBuffer THEN 0 ELSE ring.len
    BY <2>t, <2>2, <2>3
  <2> QED
    BY <2>t, <2>1, <2>4 DEF RingConsistent
<1> QED
  BY <1>1, BufferInductive, PTL

-----------------------------------------------------------------------------
(* What the arrays hold, as the queue and the stack of TmpStore.           *)
RingSeq == [k \in 1 .. ring.len |-> Tti(ring.sf_buf[(ring.tail + k - 1) % MaxTmpBuffer])]
SkipSeq == [k \in 1 .. skipped.nof_tti |-> Tti(skipped.sf[k - 1])]

(* A function on 1 .. n is a sequence of length n.                         *)
LEMMA FcnIsSeq ==
  ASSUME NEW S, NEW n \in Nat, NEW f \in [1 .. n -> S]
  PROVE  f \in Seq(S) /\ Len(f) = n
<1>1. f \in Seq(S)
  BY SeqDef
<1> QED
  BY <1>1, LenProperties

(* Two such functions that agree, but for a last element, are a sequence   *)
(* and its extension.                                                      *)
LEMMA FcnAppend ==
  ASSUME NEW S, NEW n \in Nat, NEW f \in [1 .. n -> S], NEW g \in [1 .. n + 1 -> S],
         \A k \in 1 .. n : g[k] = f[k]
  PROVE  g = Append(f, g[n + 1])
<1>1. f \in Seq(S) /\ Len(f) = n
  BY FcnIsSeq
<1>2. g \in Seq(S) /\ Len(g) = n + 1
  BY FcnIsSeq
<1>3. g[n + 1] \in S
  OBVIOUS
<1> DEFINE h == Append(f, g[n + 1])
<1>4. /\ h \in Seq(S) /\ Len(h) = n + 1 /\ h[n + 1] = g[n + 1]
      /\ \A k \in 1 .. n : h[k] = f[k]
  BY <1>1, <1>3, AppendProperties
<1> HIDE DEF h
<1>5. \A k \in 1 .. n + 1 : g[k] = h[k]
  BY <1>4
<1> QED
  BY <1>2, <1>4, <1>5, SeqEqual DEF h

(* Shifted by one they are a sequence and its tail.                        *)
LEMMA FcnTail ==
  ASSUME NEW S, NEW n \in Nat, NEW f \in [1 .. n + 1 -> S], NEW g \in [1 .. n -> S],
         \A k \in 1 .. n : g[k] = f[k + 1]
  PROVE  f # << >> /\ g = Tail(f)
<1>1. f \in Seq(S) /\ Len(f) = n + 1
  BY FcnIsSeq
<1>2. g \in Seq(S) /\ Len(g) = n
  BY FcnIsSeq
<1>3. f # << >>
  BY <1>1
<1>4. /\ Tail(f) \in Seq(S) /\ Len(Tail(f)) = n
      /\ \A k \in 1 .. n : Tail(f)[k] = f[k + 1]
  BY <1>1, <1>3, HeadTailProperties
<1> QED
  BY <1>2, <1>3, <1>4, SeqEqual

(* Without the last element they are a sequence and its front.             *)
LEMMA FcnFront ==
  ASSUME NEW S, NEW n \in Nat, NEW f \in [1 .. n + 1 -> S], NEW g \in [1 .. n -> S],
         \A k \in 1 .. n : g[k] = f[k]
  PROVE  f # << >> /\ g = SubSeq(f, 1, Len(f) - 1)
<1>1. f \in Seq(S) /\ Len(f) = n + 1
  BY FcnIsSeq
<1>2. g \in Seq(S) /\ Len(g) = n
  BY FcnIsSeq
<1>3. f # << >>
  BY <1>1
<1> DEFINE h == SubSeq(f, 1, n)
<1>4. h \in Seq(S) /\ Len(h) = n /\ \A k \in 1 .. n : h[k] = f[k]
  <2>1. \A k \in 1 .. n : f[k] \in S
    OBVIOUS
  <2>2. /\ h \in Seq(S) /\ Len(h) = IF 1 <= n THEN n - 1 + 1 ELSE 0
        /\ \A i \in 1 .. n - 1 + 1 : h[i] = f[1 + i - 1]
    BY <2>1, SubSeqProperties
  <2> HIDE DEF h
  <2> QED
    BY <2>2
<1> HIDE DEF h
<1>5. g = h
  BY <1>2, <1>4, SeqEqual
<1> QED
  BY <1>1, <1>3, <1>5 DEF h

(* The queue has as many elements as len says, each at its slot.           *)
ViewOK ==
    /\ RingSeq \in [1 .. ring.len -> 0 .. LastTti]
    /\ SkipSeq \in [1 .. skipped.nof_tti -> 0 .. LastTti]
    /\ \A k \in 1 .. ring.len : RingSeq[k] = Tti(ring.sf_buf[Slot(ring.tail, k - 1)])

(* The invariant makes that so.                                            *)
LEMMA ViewType == BufferInv => ViewOK
<1> SUFFICES ASSUME BufferInv PROVE ViewOK
  OBVIOUS
<1>t. /\ ring \in [sf_buf : [Slots -> Sfs], header : Slots, tail : Slots,
                   len : 0 .. MaxTmpBuffer, full : BOOLEAN]
      /\ skipped \in [sf : [0 .. MaxSkipTti - 1 -> Sfs], nof_tti : 0 .. MaxSkipTti]
  BY DEF BufferInv, BufferTypeOK, Slots, Sfs
<1>1. ASSUME NEW k \in 1 .. ring.len
      PROVE  /\ (ring.tail + k - 1) % MaxTmpBuffer = Slot(ring.tail, k - 1)
             /\ Tti(ring.sf_buf[Slot(ring.tail, k - 1)]) \in 0 .. LastTti
  <2>1. k - 1 \in Slots /\ ring.tail \in Slots /\ ring.tail + k - 1 = ring.tail + (k - 1)
    BY <1>t DEF Slots
  <2>2. (ring.tail + (k - 1)) % MaxTmpBuffer = Slot(ring.tail, k - 1)
    <3>1. k - 1 \in 0 .. MaxTmpBuffer
      BY <2>1 DEF Slots
    <3> QED
      BY <2>1, <3>1, SlotMod
  <2>3. Slot(ring.tail, k - 1) \in Slots
    BY <2>1 DEF Slot, Slots
  <2>4. ring.sf_buf[Slot(ring.tail, k - 1)] \in Sfs
    BY <1>t, <2>3
  <2> QED
    BY <2>1, <2>2, <2>4, TtiStored
<1>2. ASSUME NEW k \in 1 .. skipped.nof_tti PROVE Tti(skipped.sf[k - 1]) \in 0 .. LastTti
  <2>1. k - 1 \in 0 .. MaxSkipTti - 1
    BY <1>t
  <2> QED
    BY <1>t, <2>1, TtiStored
<1> QED
  BY <1>1, <1>2 DEF ViewOK, RingSeq, SkipSeq

(* The arrays of task_tmp_buffer and skip_tti implement the queue and the  *)
(* stack the scheduler and its handler rely on.                            *)
THEOREM Refinement == BufferSpec => ImplementsTmpStore
<1>1. BufferInit => View!StoreInit
  <2> SUFFICES ASSUME BufferInit PROVE View!StoreInit
    OBVIOUS
  <2>1. ring.len = 0 /\ skipped.nof_tti = 0 /\ dropped = {}
    BY DEF BufferInit
  <2>2. RingSeq = << >> /\ SkipSeq = << >>
    BY <2>1 DEF RingSeq, SkipSeq
  <2> QED
    BY <2>1, <2>2 DEF View!StoreInit, RingSeq, SkipSeq
<1>2. ASSUME BufferInv, ViewOK, ViewOK', [BufferNext]_bufferVars PROVE [View!StoreNext]_(View!storeVars)
  <2>t. /\ ring.header \in Slots /\ ring.tail \in Slots /\ ring.len \in 0 .. MaxTmpBuffer
        /\ skipped.nof_tti \in 0 .. MaxSkipTti
        /\ ring.header = Slot(ring.tail, ring.len)
        /\ ring.full <=> ring.len = MaxTmpBuffer
    BY <1>2 DEF BufferInv, BufferTypeOK, RingShape, Slots
  <2>u. /\ RingSeq' \in [1 .. ring'.len -> 0 .. LastTti]
        /\ SkipSeq' \in [1 .. skipped'.nof_tti -> 0 .. LastTti]
        /\ \A k \in 1 .. ring'.len : RingSeq'[k] = Tti(ring'.sf_buf[Slot(ring'.tail, k - 1)])
    BY <1>2 DEF ViewOK
  <2>v. /\ RingSeq \in [1 .. ring.len -> 0 .. LastTti]
        /\ SkipSeq \in [1 .. skipped.nof_tti -> 0 .. LastTti]
        /\ \A k \in 1 .. ring.len : RingSeq[k] = Tti(ring.sf_buf[Slot(ring.tail, k - 1)])
    BY <1>2 DEF ViewOK
  <2>n. ring.len \in Nat /\ skipped.nof_tti \in Nat
    BY <2>t
  <2>l. Len(RingSeq) = ring.len /\ Len(SkipSeq) = skipped.nof_tti
    <3> HIDE DEF RingSeq, SkipSeq
    <3>1. Len(RingSeq) = ring.len
      BY <2>v, <2>n, FcnIsSeq
    <3>2. Len(SkipSeq) = skipped.nof_tti
      BY <2>v, <2>n, FcnIsSeq
    <3> QED
      BY <3>1, <3>2
  <2>1. CASE StoreSubframe
    <3>1. next \in 0 .. LastTti /\ Sf(next) \in Sfs
      BY <1>2, <2>1 DEF StoreSubframe, BufferInv, BufferTypeOK, Sfs
    <3>2. CASE ~ring.full /\ ring' = RingPut(ring, Sf(next)) /\ UNCHANGED <<skipped, dropped>>
      <4>1. /\ ring'.len = ring.len + 1 /\ ring'.tail = ring.tail
            /\ ring'.sf_buf[ring.header] = Sf(next)
            /\ \A s \in Slots : s # ring.header => ring'.sf_buf[s] = ring.sf_buf[s]
        BY <1>2, <3>1, <3>2, PutRing
      <4>2. ring.len < MaxTmpBuffer
        BY <2>t, <3>2
      <4>3. \A k \in 1 .. ring.len : RingSeq'[k] = RingSeq[k]
        <5> TAKE k \in 1 .. ring.len
        <5>1. Slot(ring.tail, k - 1) \in Slots /\ Slot(ring.tail, k - 1) # ring.header
          BY <2>t, <4>2 DEF Slot, Slots
        <5>2. k \in 1 .. ring.len + 1
          BY <2>t
        <5> QED
          BY <2>u, <2>v, <4>1, <5>1, <5>2
      <4>4. RingSeq'[ring.len + 1] = next
        <5>1. ring.len + 1 \in 1 .. ring.len + 1 /\ ring.len + 1 - 1 = ring.len
          BY <2>t
        <5> QED
          BY <2>t, <2>u, <3>1, <4>1, <5>1, TtiRebuilt
      <4>5. RingSeq' = Append(RingSeq, next)
        <5>1. RingSeq' \in [1 .. ring.len + 1 -> 0 .. LastTti]
          BY <2>u, <4>1
        <5> HIDE DEF RingSeq
        <5> QED
          BY <2>n, <2>v, <4>3, <4>4, <5>1, FcnAppend
      <4>6. SkipSeq' = SkipSeq
        BY <3>2 DEF SkipSeq
      <4>7. View!Store(next)
        BY <2>l, <3>2, <4>2, <4>5, <4>6 DEF View!Store, RingSeq, SkipSeq
      <4> QED
        BY <3>1, <4>7 DEF View!StoreNext
    <3>3. CASE /\ ring.full /\ skipped.nof_tti # MaxSkipTti
               /\ skipped' = SkipPut(skipped, Sf(next)) /\ UNCHANGED <<ring, dropped>>
      <4>1. skipped.nof_tti < MaxSkipTti
        BY <2>t, <3>3
      <4>2. /\ skipped'.nof_tti = skipped.nof_tti + 1
            /\ skipped'.sf[skipped.nof_tti] = Sf(next)
            /\ \A k \in 0 .. skipped.nof_tti - 1 : skipped'.sf[k] = skipped.sf[k]
        BY <1>2, <3>1, <3>3, <4>1, PutSkip DEF BufferInv
      <4>3. /\ \A k \in 1 .. skipped.nof_tti : SkipSeq'[k] = SkipSeq[k]
            /\ SkipSeq'[skipped.nof_tti + 1] = next
        <5>1. \A k \in 1 .. skipped.nof_tti + 1 : SkipSeq'[k] = Tti(skipped'.sf[k - 1])
          BY <4>2 DEF SkipSeq
        <5>2. \A k \in 1 .. skipped.nof_tti : k \in 1 .. skipped.nof_tti + 1 /\ k - 1 \in 0 .. skipped.nof_tti - 1
          BY <2>n
        <5>3. /\ skipped.nof_tti + 1 \in 1 .. skipped.nof_tti + 1
              /\ skipped.nof_tti + 1 - 1 = skipped.nof_tti
          BY <2>n
        <5>4. SkipSeq'[skipped.nof_tti + 1] = Tti(Sf(next))
          <6>1. PICK m \in 1 .. skipped.nof_tti + 1 : m = skipped.nof_tti + 1
            BY <5>3
          <6>2. SkipSeq'[m] = Tti(skipped'.sf[m - 1])
            BY <5>1
          <6>3. m - 1 = skipped.nof_tti
            BY <2>n, <6>1
          <6> QED
            BY <4>2, <6>1, <6>2, <6>3
        <5> QED
          BY <3>1, <4>2, <5>1, <5>2, <5>4, TtiRebuilt DEF SkipSeq
      <4>4. SkipSeq' = Append(SkipSeq, next)
        <5>1. SkipSeq' \in [1 .. skipped.nof_tti + 1 -> 0 .. LastTti]
          BY <2>u, <4>2
        <5> HIDE DEF SkipSeq
        <5> QED
          BY <2>n, <2>v, <4>3, <5>1, FcnAppend
      <4>5. RingSeq' = RingSeq
        BY <3>3 DEF RingSeq
      <4>6. View!Store(next)
        BY <2>t, <2>l, <3>3, <4>1, <4>4, <4>5 DEF View!Store, RingSeq, SkipSeq
      <4> QED
        BY <3>1, <4>6 DEF View!StoreNext
    <3>4. CASE /\ ring.full /\ skipped.nof_tti = MaxSkipTti
               /\ dropped' = dropped \cup {next} /\ UNCHANGED <<ring, skipped>>
      <4>1. RingSeq' = RingSeq /\ SkipSeq' = SkipSeq
        BY <3>4 DEF RingSeq, SkipSeq
      <4>2. View!Store(next)
        BY <2>t, <2>l, <3>4, <4>1 DEF View!Store, RingSeq, SkipSeq
      <4> QED
        BY <3>1, <4>2 DEF View!StoreNext
    <3> QED
      BY <2>1, <3>2, <3>3, <3>4 DEF StoreSubframe
  <2>2. CASE TakeFromRing
    <3> DEFINE n == ring.len - 1
    <3>1. /\ ring.len > 0 /\ ring' = RingGet(ring) /\ UNCHANGED <<skipped, dropped>>
      BY <2>2 DEF TakeFromRing
    <3>2. ring'.len = n /\ ring'.tail = Slot(ring.tail, 1) /\ ring'.sf_buf = ring.sf_buf
      BY <1>2, <3>1, GetRing
    <3>3. n \in Nat /\ ring.len = n + 1
      BY <2>t, <3>1
    <3>4. \A k \in 1 .. n : RingSeq'[k] = RingSeq[k + 1]
      <4> TAKE k \in 1 .. n
      <4>1. Slot(Slot(ring.tail, 1), k - 1) = Slot(ring.tail, k + 1 - 1)
        BY <2>t DEF Slot, Slots
      <4>2. k + 1 \in 1 .. ring.len
        BY <3>3
      <4> QED
        BY <2>u, <2>v, <3>2, <4>1, <4>2
    <3>5. RingSeq # << >> /\ RingSeq' = Tail(RingSeq)
      <4>1. RingSeq \in [1 .. n + 1 -> 0 .. LastTti] /\ RingSeq' \in [1 .. n -> 0 .. LastTti]
        BY <2>u, <2>v, <3>2, <3>3
      <4> HIDE DEF RingSeq, n
      <4> QED
        BY <3>3, <3>4, <4>1, FcnTail
    <3>6. SkipSeq' = SkipSeq
      BY <3>1 DEF SkipSeq
    <3>7. View!TakeOldest
      BY <3>1, <3>5, <3>6 DEF View!TakeOldest, RingSeq, SkipSeq
    <3> QED
      BY <3>7 DEF View!StoreNext
  <2>3. CASE TakeFromSkip
    <3> DEFINE n == skipped.nof_tti - 1
    <3>1. skipped.nof_tti > 0 /\ skipped' = SkipGet(skipped) /\ UNCHANGED <<ring, dropped>>
      BY <2>3 DEF TakeFromSkip
    <3>2. /\ skipped'.nof_tti = n
          /\ \A k \in 0 .. skipped.nof_tti - 2 : skipped'.sf[k] = skipped.sf[k]
      BY <1>2, <3>1, GetSkip DEF BufferInv
    <3>3. n \in Nat /\ skipped.nof_tti = n + 1
      BY <2>t, <3>1
    <3>4. \A k \in 1 .. n : SkipSeq'[k] = SkipSeq[k]
      <4> TAKE k \in 1 .. n
      <4>1. k \in 1 .. skipped.nof_tti /\ k - 1 \in 0 .. skipped.nof_tti - 2
        BY <3>3
      <4> QED
        BY <3>2, <4>1 DEF SkipSeq
    <3>5. SkipSeq # << >> /\ SkipSeq' = SubSeq(SkipSeq, 1, Len(SkipSeq) - 1)
      <4>1. SkipSeq \in [1 .. n + 1 -> 0 .. LastTti] /\ SkipSeq' \in [1 .. n -> 0 .. LastTti]
        BY <2>u, <2>v, <3>2, <3>3
      <4> HIDE DEF SkipSeq, n
      <4> QED
        BY <3>3, <3>4, <4>1, FcnFront
    <3>6. RingSeq' = RingSeq
      BY <3>1 DEF RingSeq
    <3>7. View!TakeSkipped
      BY <3>1, <3>5, <3>6 DEF View!TakeSkipped, RingSeq, SkipSeq
    <3> QED
      BY <3>7 DEF View!StoreNext
  <2>4. CASE UNCHANGED bufferVars
    <3>1. RingSeq' = RingSeq /\ SkipSeq' = SkipSeq /\ dropped' = dropped
      BY <2>4 DEF bufferVars, RingSeq, SkipSeq
    <3> QED
      BY <3>1 DEF View!storeVars, RingSeq, SkipSeq
  <2> QED
    BY <1>2, <2>1, <2>2, <2>3, <2>4 DEF BufferNext, Done
<1> QED
  BY <1>1, <1>2, BufferInductive, ViewType, PTL DEF BufferSpec, ImplementsTmpStore, View!StoreSpec
=============================================================================
