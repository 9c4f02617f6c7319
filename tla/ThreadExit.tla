----------------------------- MODULE ThreadExit -----------------------------
(***************************************************************************)
(* How the threads of NG-Scope end after SIGINT set go_exit: the polling   *)
(* loops of thread_exit.c, the signals and joins at the end of each thread,*)
(* and the condition waits a thread may be in when go_exit is set.         *)
(*                                                                         *)
(* The decoder pool is reduced to what ending depends on: whether a decoder*)
(* waits for its condition, is woken, works, or has left its loop; and     *)
(* whether the tmp buffer handler is about to write a decoder's IQ buffer. *)
(* The buffers of DciHandoff are reduced to empty or not.                  *)
(***************************************************************************)
EXTENDS Naturals

CONSTANTS
    NofRfDev,     \* RF devices, each with a scheduler thread
    NofDecoder,   \* decoder threads of each RF device (rf_config[].nof_thread)
    HasLogger     \* a DCI logger thread exists

ASSUME ExitAssumption ==
    /\ NofRfDev \in Nat \ {0}
    /\ NofDecoder \in [0 .. NofRfDev - 1 -> Nat \ {0}]
    /\ HasLogger \in BOOLEAN

RfDevs == 0 .. NofRfDev - 1
Decoders(r) == 0 .. NofDecoder[r] - 1
NoDecoder(r) == NofDecoder[r]

\* The threads that take results from the status tracker.
Consumers == {"cell_status"} \cup (IF HasLogger THEN {"dci_log"} ELSE {})

VARIABLES
    go_exit,
    spc,        \* scheduler threads
    sigIdx,     \* loop index of the scheduler's signalling loop
    task_scheduler_up, task_scheduler_closed,
    dpc,        \* decoder threads
    dci_decoder_up,
    hpc,        \* tmp buffer handler threads
    hidle,      \* the decoder a handler has taken and not yet written
    iqFreed,    \* the scheduler freed the IQ buffers of its decoders
    tpc,        \* status tracker thread
    kpc,        \* cell status and logger threads
    dciReady,   \* dci_ready.nof_dci > 0
    ready,      \* nof_dci > 0 in the buffer of each consumer
    mpc         \* ngscope_main

schedVars == <<spc, sigIdx, task_scheduler_up, task_scheduler_closed, iqFreed>>
decVars == <<dpc, dci_decoder_up>>
handlerVars == <<hpc, hidle>>
sinkVars == <<tpc, kpc, ready, mpc>>
vars == <<go_exit, spc, sigIdx, task_scheduler_up, task_scheduler_closed,
          dpc, dci_decoder_up, hpc, hidle, iqFreed, tpc, kpc, dciReady, ready, mpc>>

\* All threads are up: ngscope_main and the schedulers have created them.
Init ==
    /\ go_exit = FALSE
    /\ spc = [r \in RfDevs |-> "run"] /\ sigIdx = [r \in RfDevs |-> 0]
    /\ task_scheduler_up = [r \in RfDevs |-> TRUE]
    /\ task_scheduler_closed = [r \in RfDevs |-> FALSE]
    /\ dpc = [r \in RfDevs |-> [d \in Decoders(r) |-> "top"]]
    /\ dci_decoder_up = [r \in RfDevs |-> [d \in Decoders(r) |-> TRUE]]
    /\ hpc = [r \in RfDevs |-> "run"] /\ hidle = [r \in RfDevs |-> NoDecoder(r)]
    /\ iqFreed = [r \in RfDevs |-> FALSE]
    /\ tpc = "top" /\ kpc = [c \in Consumers |-> "top"]
    /\ dciReady = FALSE /\ ready = [c \in Consumers |-> FALSE]
    /\ mpc = "join"

-----------------------------------------------------------------------------
\* sig_int_handler
SigInt ==
    /\ ~go_exit
    /\ go_exit' = TRUE
    /\ UNCHANGED <<schedVars, decVars, handlerVars, sinkVars, dciReady>>

\* pthread_cond_signal reaches a decoder that waits and no other.
Signalled(r, d) == [dpc EXCEPT ![r][d] = IF @ = "waiting" THEN "signalled" ELSE @]

(* Decoder threads.                                                        *)
DecoderSet(r, d, from, to) == dpc[r][d] = from /\ dpc' = [dpc EXCEPT ![r][d] = to]

DecoderTop(r, d) ==
    /\ DecoderSet(r, d, "top", IF go_exit THEN "turn" ELSE "locked")
    /\ UNCHANGED <<go_exit, schedVars, dci_decoder_up, handlerVars, sinkVars, dciReady>>

DecoderWait(r, d) ==
    /\ DecoderSet(r, d, "locked", "waiting")
    /\ UNCHANGED <<go_exit, schedVars, dci_decoder_up, handlerVars, sinkVars, dciReady>>

DecoderWake(r, d) ==
    /\ DecoderSet(r, d, "signalled", "work")
    /\ UNCHANGED <<go_exit, schedVars, dci_decoder_up, handlerVars, sinkVars, dciReady>>

DecoderReport(r, d) ==
    /\ DecoderSet(r, d, "work", "top")
    /\ dciReady' = TRUE
    /\ UNCHANGED <<go_exit, schedVars, dci_decoder_up, handlerVars, sinkVars>>

(* Slip: a decoder does not wait for the ones with a higher index.         *)
DecoderTurnAny(r, d) == ~task_scheduler_up[r]

\* wait_for_decoder_ready_to_close
DecoderTurn(r, d) ==
    /\ ~task_scheduler_up[r]
    /\ \A i \in Decoders(r) : i > d => ~dci_decoder_up[r][i]

DecoderClose(r, d) ==
    /\ DecoderTurn(r, d)
    /\ DecoderSet(r, d, "turn", "done")
    /\ dci_decoder_up' = [dci_decoder_up EXCEPT ![r][d] = FALSE]
    /\ UNCHANGED <<go_exit, schedVars, handlerVars, sinkVars, dciReady>>

(* Tmp buffer handler threads.                                             *)

\* find_idle_decoder, with a subframe in the tmp buffer and go_exit unseen.
HandlerTake(r, d) ==
    /\ hpc[r] = "run" /\ ~go_exit
    /\ dpc[r][d] \in {"locked", "waiting"}
    /\ hpc' = [hpc EXCEPT ![r] = "assign"]
    /\ hidle' = [hidle EXCEPT ![r] = d]
    /\ UNCHANGED <<go_exit, schedVars, decVars, sinkVars, dciReady>>

\* assign_task_to_decoder writes the decoder's IQ buffer and signals it.
HandlerAssign(r) ==
    /\ hpc[r] = "assign"
    /\ dpc[r][hidle[r]] \notin {"locked", "work"}
    /\ dpc' = Signalled(r, hidle[r])
    /\ hpc' = [hpc EXCEPT ![r] = "run"]
    /\ hidle' = [hidle EXCEPT ![r] = NoDecoder(r)]
    /\ UNCHANGED <<go_exit, schedVars, dci_decoder_up, sinkVars, dciReady>>

HandlerExit(r) ==
    /\ hpc[r] = "run" /\ go_exit
    /\ hpc' = [hpc EXCEPT ![r] = "done"]
    /\ UNCHANGED <<go_exit, schedVars, decVars, hidle, sinkVars, dciReady>>

(* Scheduler threads.                                                      *)
SchedulerSet(r, from, to) == spc[r] = from /\ spc' = [spc EXCEPT ![r] = to]

\* The loop condition holds and the radio delivers a subframe.
SchedulerReceive(r) ==
    /\ ~go_exit
    /\ SchedulerSet(r, "run", "body")
    /\ UNCHANGED <<go_exit, sigIdx, task_scheduler_up, task_scheduler_closed, iqFreed>>
    /\ UNCHANGED <<decVars, handlerVars, sinkVars, dciReady>>

\* It goes to an idle decoder that the handler has not taken ...
SchedulerAssign(r, d) ==
    /\ SchedulerSet(r, "body", "run")
    /\ dpc[r][d] = "waiting" /\ hidle[r] # d
    /\ dpc' = Signalled(r, d)
    /\ UNCHANGED <<go_exit, sigIdx, task_scheduler_up, task_scheduler_closed, iqFreed>>
    /\ UNCHANGED <<dci_decoder_up, handlerVars, sinkVars, dciReady>>

\* ... or, if there is none, to the tmp buffer.
SchedulerStore(r) ==
    /\ SchedulerSet(r, "body", "run")
    /\ \A d \in Decoders(r) : dpc[r][d] \in {"locked", "waiting"} => hidle[r] = d
    /\ UNCHANGED <<go_exit, sigIdx, task_scheduler_up, task_scheduler_closed, iqFreed>>
    /\ UNCHANGED <<decVars, handlerVars, sinkVars, dciReady>>

SchedulerExit(r) ==
    /\ go_exit
    /\ SchedulerSet(r, "run", "turn")
    /\ UNCHANGED <<go_exit, sigIdx, task_scheduler_up, task_scheduler_closed, iqFreed>>
    /\ UNCHANGED <<decVars, handlerVars, sinkVars, dciReady>>

(* Slip: the scheduler does not announce that it is down.                  *)
SchedulerDownSilent(r) ==
    /\ SchedulerSet(r, "turn", "signal")
    /\ \A i \in RfDevs : i > r => task_scheduler_closed[i]
    /\ UNCHANGED <<go_exit, sigIdx, task_scheduler_up, task_scheduler_closed, iqFreed>>
    /\ UNCHANGED <<decVars, handlerVars, sinkVars, dciReady>>

\* wait_for_scheduler_ready_to_close, then task_scheduler_up is cleared
SchedulerDown(r) ==
    /\ SchedulerSet(r, "turn", "signal")
    /\ \A i \in RfDevs : i > r => task_scheduler_closed[i]
    /\ task_scheduler_up' = [task_scheduler_up EXCEPT ![r] = FALSE]
    /\ UNCHANGED <<go_exit, sigIdx, task_scheduler_closed, iqFreed>>
    /\ UNCHANGED <<decVars, handlerVars, sinkVars, dciReady>>

\* One signal for each decoder, without its mutex.
SchedulerSignal(r) ==
    /\ spc[r] = "signal"
    /\ dpc' = Signalled(r, sigIdx[r])
    /\ sigIdx' = [sigIdx EXCEPT ![r] = @ + 1]
    /\ spc' = [spc EXCEPT ![r] = IF sigIdx[r] + 1 = NofDecoder[r] THEN "join" ELSE "signal"]
    /\ UNCHANGED <<go_exit, task_scheduler_up, task_scheduler_closed, iqFreed>>
    /\ UNCHANGED <<dci_decoder_up, handlerVars, sinkVars, dciReady>>

(* Slip: the buffers are freed without joining the decoders first.         *)
SchedulerJoinNone(r) ==
    /\ SchedulerSet(r, "join", "joinTmp")
    /\ iqFreed' = [iqFreed EXCEPT ![r] = TRUE]
    /\ UNCHANGED <<go_exit, sigIdx, task_scheduler_up, task_scheduler_closed>>
    /\ UNCHANGED <<decVars, handlerVars, sinkVars, dciReady>>

\* Joining the decoders, then freeing ue_dl and the IQ buffers.
SchedulerJoin(r) ==
    /\ SchedulerSet(r, "join", "joinTmp")
    /\ \A d \in Decoders(r) : dpc[r][d] = "done"
    /\ iqFreed' = [iqFreed EXCEPT ![r] = TRUE]
    /\ UNCHANGED <<go_exit, sigIdx, task_scheduler_up, task_scheduler_closed>>
    /\ UNCHANGED <<decVars, handlerVars, sinkVars, dciReady>>

SchedulerClose(r) ==
    /\ SchedulerSet(r, "joinTmp", "done")
    /\ hpc[r] = "done"
    /\ task_scheduler_closed' = [task_scheduler_closed EXCEPT ![r] = TRUE]
    /\ UNCHANGED <<go_exit, sigIdx, task_scheduler_up, iqFreed>>
    /\ UNCHANGED <<decVars, handlerVars, sinkVars, dciReady>>

-----------------------------------------------------------------------------
(* Status tracker, its consumers, and ngscope_main.                        *)

(* Slip: the poll is satisfied by the first closed device.                 *)
SomeRfDevClosed == \E r \in RfDevs : task_scheduler_closed[r]

\* wait_for_ALL_RF_DEV_close
AllRfDevsClosed == \A r \in RfDevs : task_scheduler_closed[r]

AfterTop == IF go_exit THEN "turn" ELSE "wait"

TrackerTop ==
    /\ tpc = "top" /\ tpc' = AfterTop
    /\ UNCHANGED <<go_exit, schedVars, decVars, handlerVars, kpc, dciReady, ready, mpc>>

TrackerForward ==
    /\ tpc = "wait" /\ dciReady
    /\ tpc' = "top"
    /\ dciReady' = FALSE /\ ready' = [c \in Consumers |-> TRUE]
    /\ UNCHANGED <<go_exit, schedVars, decVars, handlerVars, kpc, mpc>>

TrackerClose ==
    /\ \/ tpc = "turn" /\ AllRfDevsClosed /\ tpc' = "join"
       \/ tpc = "join" /\ (\A c \in Consumers : kpc[c] = "done") /\ tpc' = "done"
    /\ UNCHANGED <<go_exit, schedVars, decVars, handlerVars, kpc, dciReady, ready, mpc>>

ConsumerSet(c, from, to) == kpc[c] = from /\ kpc' = [kpc EXCEPT ![c] = to]

ConsumerTop(c) ==
    /\ ConsumerSet(c, "top", AfterTop)
    /\ UNCHANGED <<go_exit, schedVars, decVars, handlerVars, tpc, dciReady, ready, mpc>>

ConsumerTake(c) ==
    /\ ready[c]
    /\ ConsumerSet(c, "wait", "top")
    /\ ready' = [ready EXCEPT ![c] = FALSE]
    /\ UNCHANGED <<go_exit, schedVars, decVars, handlerVars, tpc, dciReady, mpc>>

\* The ring buffers of the consumer are freed.
ConsumerClose(c) ==
    /\ AllRfDevsClosed
    /\ ConsumerSet(c, "turn", "done")
    /\ UNCHANGED <<go_exit, schedVars, decVars, handlerVars, tpc, dciReady, ready, mpc>>

MainReturn ==
    /\ mpc = "join"
    /\ \A r \in RfDevs : spc[r] = "done"
    /\ tpc = "done"
    /\ mpc' = "done"
    /\ UNCHANGED <<go_exit, schedVars, decVars, handlerVars, tpc, kpc, dciReady, ready>>

-----------------------------------------------------------------------------
Decoder(r, d) == \/ DecoderTop(r, d) \/ DecoderWait(r, d) \/ DecoderWake(r, d)
                 \/ DecoderReport(r, d) \/ DecoderClose(r, d)

Handler(r) == \/ HandlerAssign(r) \/ HandlerExit(r)
              \/ \E d \in Decoders(r) : HandlerTake(r, d)

Scheduler(r) == \/ SchedulerStore(r) \/ \E d \in Decoders(r) : SchedulerAssign(r, d)
                \/ SchedulerExit(r) \/ SchedulerDown(r) \/ SchedulerSignal(r)
                \/ SchedulerJoin(r) \/ SchedulerClose(r)

Tracker == TrackerTop \/ TrackerForward \/ TrackerClose

Consumer(c) == ConsumerTop(c) \/ ConsumerTake(c) \/ ConsumerClose(c)

Next ==
    \/ SigInt
    \/ \E r \in RfDevs : SchedulerReceive(r) \/ Scheduler(r) \/ Handler(r)
    \/ \E r \in RfDevs : \E d \in Decoders(r) : Decoder(r, d)
    \/ Tracker \/ (\E c \in Consumers : Consumer(c)) \/ MainReturn

\* Every thread that can take a step takes one; the radio and the user owe
\* nothing.
Fairness ==
    /\ \A r \in RfDevs : WF_vars(Scheduler(r)) /\ WF_vars(Handler(r))
    /\ \A r \in RfDevs : \A d \in Decoders(r) : WF_vars(Decoder(r, d))
    /\ WF_vars(Tracker) /\ WF_vars(MainReturn)
    /\ \A c \in Consumers : WF_vars(Consumer(c))

Spec == Init /\ [][Next]_vars
FairSpec == Spec /\ Fairness

-----------------------------------------------------------------------------
(* Properties.                                                             *)

DecoderPc == {"top", "locked", "waiting", "signalled", "work", "turn", "done"}
SchedulerPc == {"run", "body", "turn", "signal", "join", "joinTmp", "done"}
SinkPc == {"top", "wait", "turn", "join", "done"}

(* Types; the signalling loop of a scheduler stays inside its decoders.    *)
TypeOK ==
    /\ go_exit \in BOOLEAN
    /\ spc \in [RfDevs -> SchedulerPc]
    /\ sigIdx \in [RfDevs -> Nat] /\ \A r \in RfDevs : sigIdx[r] <= NofDecoder[r]
    /\ task_scheduler_up \in [RfDevs -> BOOLEAN]
    /\ task_scheduler_closed \in [RfDevs -> BOOLEAN]
    /\ DOMAIN dpc = RfDevs /\ \A r \in RfDevs : dpc[r] \in [Decoders(r) -> DecoderPc]
    /\ DOMAIN dci_decoder_up = RfDevs
    /\ \A r \in RfDevs : dci_decoder_up[r] \in [Decoders(r) -> BOOLEAN]
    /\ hpc \in [RfDevs -> {"run", "assign", "done"}]
    /\ hidle \in [RfDevs -> Nat] /\ \A r \in RfDevs : hidle[r] <= NofDecoder[r]
    /\ iqFreed \in [RfDevs -> BOOLEAN]
    /\ tpc \in SinkPc /\ kpc \in [Consumers -> SinkPc]
    /\ dciReady \in BOOLEAN /\ ready \in [Consumers -> BOOLEAN]
    /\ mpc \in {"join", "done"}

(* Devices close one after the other, the highest index first, and so do   *)
(* the decoders of a device; a device closes only after its decoders and   *)
(* its handler ended (thread_exit.c polls without a lock on the flags).    *)
ClosedInOrder ==
    \A r \in RfDevs :
        /\ task_scheduler_closed[r] =>
              /\ hpc[r] = "done"
              /\ \A i \in RfDevs : i >= r => \A d \in Decoders(i) : dpc[i][d] = "done"
        /\ \A d \in Decoders(r) : dpc[r][d] = "done" =>
              /\ \A i \in Decoders(r) : i > d => dpc[r][i] = "done"
              /\ \A i \in RfDevs : i > r => task_scheduler_closed[i]

(* No decoder works on a mailbox or ue_dl its scheduler has freed.         *)
NoDecodeAfterFree ==
    \A r \in RfDevs : iqFreed[r] => \A d \in Decoders(r) : dpc[r][d] \notin {"signalled", "work"}

(* The consumers' ring buffers and files outlive every producer of DCIs.   *)
ConsumersOutliveProducers ==
    (\E c \in Consumers : kpc[c] = "done") =>
        \A r \in RfDevs : \A d \in Decoders(r) : dpc[r][d] = "done"

\* All decoders have left their loops.
DecodersLeftLoop ==
    \A r \in RfDevs : \A d \in Decoders(r) : dpc[r][d] \in {"turn", "done"}

(* Schedulers, decoders and handlers never all wait for each other: once   *)
(* every decoder has seen go_exit and until all devices are closed, some   *)
(* thread of some device can go on.  No loop is left by then, so each step *)
(* moves its thread forward for good and the devices do close.             *)
NoCircularWait ==
    (DecodersLeftLoop /\ ~AllRfDevsClosed) =>
        \E r \in RfDevs :
            ENABLED (Scheduler(r) \/ Handler(r) \/ \E d \in Decoders(r) : Decoder(r, d))

(* "Tell the decoder thread to exit in case they are still waiting for the *)
(* signal" (task_scheduler.c:679): after go_exit every device closes.      *)
DevicesClose == go_exit ~> AllRfDevsClosed

(* "Wait for the cell status tracking thread to end" (status_tracker.c:247)*)
(* and "Now waiting for those threads to end" (ngscope_main.c:122): once the *)
(* devices are closed, ngscope_main returns.                               *)
MainReturns == AllRfDevsClosed ~> (mpc = "done")
=============================================================================
