---------------------------- MODULE DecoderPool ----------------------------
(***************************************************************************)
(* The decoder pool of one RF device: the task scheduler thread, the thread*)
(* that drains the temporary subframe buffer, and the DCI decoder threads. *)
(*                                                                         *)
(*   scheduler --(find_idle_decoder, assign_task_to_decoder)--> decoders   *)
(*        \--(all decoders busy)--> tmp buffer / skip list                 *)
(*   handler  --(find_idle_decoder, assign_[empty_]task)-----> decoders    *)
(*                                                                         *)
(* A subframe is the number of its arrival, 1 .. NofSubframes; number 0 is *)
(* the zeroed content every sf_buffer[rf_idx][d] starts with.              *)
(*                                                                         *)
(* sf_mutex of decoder d is held exactly while pc[d] is "released" or      *)
(* "decoding" (the assigning threads take and release it in one action);   *)
(* tmp_buf_mutex is held by the handler exactly while hpc # "sleep";       *)
(* token_mutex is never held across a blocking call.                       *)
(***************************************************************************)
EXTENDS Naturals, Sequences, Functions

CONSTANTS
    NofDecoder,       \* decoders of this RF device (rf_config.nof_thread)
    MaxTmpBuffer,     \* MAX_TMP_BUFFER: subframes kept with their IQ samples
    MaxSkipTti,       \* MAX_NOF_SKIP_TTI: subframes kept as a bare TTI
    NofSubframes,     \* bound: subframes the radio delivers
    MaxSpurious,      \* bound: wake-ups of pthread_cond_wait with no signal
    SleepSuffices     \* the scheduler's sleep(1) outlasts the decoders' start

ASSUME PoolAssumption ==
    /\ NofDecoder \in Nat \ {0}
    /\ MaxTmpBuffer \in Nat \ {0}
    /\ MaxSkipTti \in Nat \ {0}
    /\ NofSubframes \in Nat \ {0}
    /\ MaxSpurious \in Nat
    /\ SleepSuffices \in BOOLEAN

Decoders == 0 .. NofDecoder - 1
Subframes == 1 .. NofSubframes

VARIABLES
    token,      \* sf_token[rf_idx]: TRUE when a decoder is taken or busy
    sf_buffer,  \* sf_buffer[rf_idx]: the task in each decoder's mailbox
    pc,         \* where each decoder thread is
    cur,        \* tti and empty_sf each decoder read when it woke up
    spc,        \* where the scheduler thread is
    sidle,      \* idle_idx of the scheduler
    sf_cnt,     \* subframes received so far; also the one in sync_buffer
    hpc,        \* where the tmp buffer handler thread is
    hidle,      \* idle_idx of the handler
    tmp,        \* task_tmp_buffer[rf_idx], oldest subframe first
    skip,       \* skip_tti[rf_idx], a stack whose top is the last element
    spurious,   \* wake-ups without a signal so far
    reported,   \* how often each subframe was put into dci_buffer
    dropped     \* subframes skip_tti_put refused

schedVars == <<spc, sidle, sf_cnt>>
handlerVars == <<hpc, hidle>>
decoderVars == <<pc, cur, spurious, reported>>
vars == <<token, sf_buffer, pc, cur, spc, sidle, sf_cnt, hpc, hidle,
          tmp, skip, spurious, reported, dropped>>

Mailbox == [tti : 0 .. NofSubframes, empty : BOOLEAN, iq : 0 .. NofSubframes]
Task == [tti : 0 .. NofSubframes, empty : BOOLEAN]

Init ==
    /\ token = [d \in Decoders |-> FALSE]
    /\ sf_buffer = [d \in Decoders |-> [tti |-> 0, empty |-> FALSE, iq |-> 0]]
    /\ pc = [d \in Decoders |-> "start"]
    /\ cur = [d \in Decoders |-> [tti |-> 0, empty |-> FALSE]]
    /\ spc = "sync" /\ sidle = 0 /\ sf_cnt = 0
    /\ hpc = "sleep" /\ hidle = 0
    /\ tmp = << >> /\ skip = << >>
    /\ spurious = 0
    /\ reported = [i \in 0 .. NofSubframes |-> 0]
    /\ dropped = {}

-----------------------------------------------------------------------------
(* What the two assigning threads share.                                   *)

\* The loop of find_idle_decoder stops at the first decoder whose token is free.
FirstIdle(d) == ~token[d] /\ \A e \in Decoders : e < d => token[e]

NoneIdle == \A d \in Decoders : token[d]

(* Slip: the assigning threads do not lock sf_mutex.                       *)
SfMutexIgnored(d) == TRUE

(* Slip: the decoder waits on sf_cond with another mutex and keeps sf_mutex. *)
SfMutexKept(d) == pc[d] \notin {"released", "decoding", "waiting"}

SfMutexFree(d) == pc[d] \notin {"released", "decoding"}

TmpMutexFree == hpc = "sleep"

\* pthread_cond_signal wakes the decoder if it waits and is lost otherwise.
Signal(d) == pc' = [pc EXCEPT ![d] = IF @ = "waiting" THEN "signalled" ELSE @]

\* The body of assign_task_to_decoder, which runs under sf_mutex.
AssignTask(d, i) ==
    /\ SfMutexFree(d)
    /\ token' = [token EXCEPT ![d] = TRUE]
    /\ sf_buffer' = [sf_buffer EXCEPT ![d] = [tti |-> i, empty |-> FALSE, iq |-> i]]
    /\ Signal(d)

\* assign_empty_task_to_decoder leaves the IQ samples of the mailbox alone.
AssignEmptyTask(d, i) ==
    /\ SfMutexFree(d)
    /\ token' = [token EXCEPT ![d] = TRUE]
    /\ sf_buffer' = [sf_buffer EXCEPT ![d].tti = i, ![d].empty = TRUE]
    /\ Signal(d)

-----------------------------------------------------------------------------
(* The scheduler thread.                                                   *)

\* srsran_ue_sync_zerocopy returned 1 and the SFN is known.
Receive ==
    /\ spc = "sync"
    /\ sf_cnt < NofSubframes
    /\ SleepSuffices => \A d \in Decoders : pc[d] # "start"
    /\ sf_cnt' = sf_cnt + 1
    /\ spc' = "find"
    /\ UNCHANGED <<token, sf_buffer, sidle, tmp, skip, dropped>>
    /\ UNCHANGED <<handlerVars, decoderVars>>

(* Slip: find_idle_decoder returns a decoder without marking it as taken.  *)
SchedulerFindUnmarked ==
    /\ spc = "find"
    /\ \/ \E d \in Decoders : FirstIdle(d) /\ sidle' = d /\ spc' = "assign"
       \/ NoneIdle /\ spc' = "buffer" /\ UNCHANGED sidle
    /\ UNCHANGED <<token, sf_buffer, sf_cnt, tmp, skip, dropped>>
    /\ UNCHANGED <<handlerVars, decoderVars>>

SchedulerFind ==
    /\ spc = "find"
    /\ \/ \E d \in Decoders :
             /\ FirstIdle(d)
             /\ token' = [token EXCEPT ![d] = TRUE]
             /\ sidle' = d
             /\ spc' = "assign"
       \/ /\ NoneIdle
          /\ spc' = "buffer"
          /\ UNCHANGED <<token, sidle>>
    /\ UNCHANGED <<sf_buffer, sf_cnt, tmp, skip, dropped>>
    /\ UNCHANGED <<handlerVars, decoderVars>>

SchedulerAssign ==
    /\ spc = "assign"
    /\ AssignTask(sidle, sf_cnt)
    /\ spc' = "log"
    /\ UNCHANGED <<sidle, sf_cnt, tmp, skip, dropped>>
    /\ UNCHANGED <<handlerVars, cur, spurious, reported>>

\* The occupancy of the tmp buffer is read and logged under tmp_buf_mutex.
SchedulerLog ==
    /\ spc = "log"
    /\ TmpMutexFree
    /\ spc' = "sync"
    /\ UNCHANGED <<token, sf_buffer, sidle, sf_cnt, tmp, skip, dropped>>
    /\ UNCHANGED <<handlerVars, decoderVars>>

(* Slip: the ring's full flag is ignored.                                  *)
SchedulerBufferUnbounded ==
    /\ spc = "buffer"
    /\ TmpMutexFree
    /\ spc' = "sync"
    /\ tmp' = Append(tmp, sf_cnt)
    /\ UNCHANGED <<token, sf_buffer, sidle, sf_cnt, skip, dropped>>
    /\ UNCHANGED <<handlerVars, decoderVars>>

\* task_sf_ring_buffer_put, and skip_tti_put when the ring is full.
SchedulerBuffer ==
    /\ spc = "buffer"
    /\ TmpMutexFree
    /\ spc' = "sync"
    /\ \/ /\ Len(tmp) < MaxTmpBuffer
          /\ tmp' = Append(tmp, sf_cnt)
          /\ UNCHANGED <<skip, dropped>>
       \/ /\ Len(tmp) = MaxTmpBuffer
          /\ Len(skip) < MaxSkipTti
          /\ skip' = Append(skip, sf_cnt)
          /\ UNCHANGED <<tmp, dropped>>
       \/ /\ Len(tmp) = MaxTmpBuffer
          /\ Len(skip) = MaxSkipTti
          /\ dropped' = dropped \cup {sf_cnt}
          /\ UNCHANGED <<tmp, skip>>
    /\ UNCHANGED <<token, sf_buffer, sidle, sf_cnt>>
    /\ UNCHANGED <<handlerVars, decoderVars>>

-----------------------------------------------------------------------------
(* The handler of the tmp buffer.                                          *)

AfterSkip(q) == IF q = << >> THEN "sleep" ELSE "ring"

(* Slip: the handler only looks at the ring, never at the skipped TTIs.    *)
HandlerLockRingOnly ==
    /\ hpc = "sleep"
    /\ tmp # << >>
    /\ hpc' = "ring"
    /\ UNCHANGED <<token, sf_buffer, hidle, tmp, skip, dropped>>
    /\ UNCHANGED <<schedVars, decoderVars>>

\* Locking and finding both containers empty changes nothing.
HandlerLock ==
    /\ hpc = "sleep"
    /\ skip # << >> \/ tmp # << >>
    /\ hpc' = IF skip # << >> THEN "skip" ELSE "ring"
    /\ UNCHANGED <<token, sf_buffer, hidle, tmp, skip, dropped>>
    /\ UNCHANGED <<schedVars, decoderVars>>

HandlerFindSkip ==
    /\ hpc = "skip"
    /\ \/ \E d \in Decoders :
             /\ FirstIdle(d)
             /\ token' = [token EXCEPT ![d] = TRUE]
             /\ hidle' = d
             /\ hpc' = "skipAssign"
       \/ /\ NoneIdle
          /\ hpc' = AfterSkip(tmp)
          /\ UNCHANGED <<token, hidle>>
    /\ UNCHANGED <<sf_buffer, tmp, skip, dropped>>
    /\ UNCHANGED <<schedVars, decoderVars>>

\* skip_tti_get pops the newest skipped TTI.
HandlerAssignSkip ==
    /\ hpc = "skipAssign"
    /\ AssignEmptyTask(hidle, skip[Len(skip)])
    /\ skip' = SubSeq(skip, 1, Len(skip) - 1)
    /\ hpc' = IF Len(skip) > 1 THEN "skip" ELSE AfterSkip(tmp)
    /\ UNCHANGED <<hidle, tmp, dropped>>
    /\ UNCHANGED <<schedVars, cur, spurious, reported>>

HandlerFindRing ==
    /\ hpc = "ring"
    /\ \/ \E d \in Decoders :
             /\ FirstIdle(d)
             /\ token' = [token EXCEPT ![d] = TRUE]
             /\ hidle' = d
             /\ hpc' = "ringAssign"
       \/ /\ NoneIdle
          /\ hpc' = "sleep"
          /\ UNCHANGED <<token, hidle>>
    /\ UNCHANGED <<sf_buffer, tmp, skip, dropped>>
    /\ UNCHANGED <<schedVars, decoderVars>>

(* Slip: the tail is not advanced after the assignment.                    *)
HandlerAssignRingKeep ==
    /\ hpc = "ringAssign"
    /\ AssignTask(hidle, Head(tmp))
    /\ hpc' = "sleep"
    /\ UNCHANGED <<hidle, tmp, skip, dropped>>
    /\ UNCHANGED <<schedVars, cur, spurious, reported>>

\* The oldest buffered subframe is assigned, then task_sf_ring_buffer_get.
HandlerAssignRing ==
    /\ hpc = "ringAssign"
    /\ AssignTask(hidle, Head(tmp))
    /\ tmp' = Tail(tmp)
    /\ hpc' = IF Len(tmp) > 1 THEN "ring" ELSE "sleep"
    /\ UNCHANGED <<hidle, skip, dropped>>
    /\ UNCHANGED <<schedVars, cur, spurious, reported>>

-----------------------------------------------------------------------------
(* A decoder thread.                                                       *)

\* Top of the loop: lock sf_mutex and free the token.
ReleaseToken(d) ==
    /\ pc[d] \in {"start", "top"}
    /\ pc' = [pc EXCEPT ![d] = "released"]
    /\ token' = [token EXCEPT ![d] = FALSE]
    /\ UNCHANGED <<sf_buffer, cur, spurious, reported, tmp, skip, dropped>>
    /\ UNCHANGED <<schedVars, handlerVars>>

\* pthread_cond_wait gives sf_mutex back.
CondWait(d) ==
    /\ pc[d] = "released"
    /\ pc' = [pc EXCEPT ![d] = "waiting"]
    /\ UNCHANGED <<token, sf_buffer, cur, spurious, reported, tmp, skip, dropped>>
    /\ UNCHANGED <<schedVars, handlerVars>>

\* The signalled decoder has sf_mutex again and reads its task.
WakeUp(d) ==
    /\ pc[d] = "signalled"
    /\ pc' = [pc EXCEPT ![d] = "decoding"]
    /\ cur' = [cur EXCEPT ![d] = [tti |-> sf_buffer[d].tti, empty |-> sf_buffer[d].empty]]
    /\ UNCHANGED <<token, sf_buffer, spurious, reported, tmp, skip, dropped>>
    /\ UNCHANGED <<schedVars, handlerVars>>

\* POSIX lets pthread_cond_wait return unsignalled; the code does not re-check.
SpuriousWakeUp(d) ==
    /\ pc[d] = "waiting"
    /\ spurious < MaxSpurious
    /\ spurious' = spurious + 1
    /\ pc' = [pc EXCEPT ![d] = "decoding"]
    /\ cur' = [cur EXCEPT ![d] = [tti |-> sf_buffer[d].tti, empty |-> sf_buffer[d].empty]]
    /\ UNCHANGED <<token, sf_buffer, reported, tmp, skip, dropped>>
    /\ UNCHANGED <<schedVars, handlerVars>>

\* dci_decoder_decode runs under sf_mutex, unless the subframe is empty;
\* both branches end with the unlock.
Decode(d) ==
    /\ pc[d] = "decoding"
    /\ pc' = [pc EXCEPT ![d] = "report"]
    /\ UNCHANGED <<token, sf_buffer, cur, spurious, reported, tmp, skip, dropped>>
    /\ UNCHANGED <<schedVars, handlerVars>>

\* The result goes into dci_buffer (module DciHandoff).
Report(d) ==
    /\ pc[d] = "report"
    /\ pc' = [pc EXCEPT ![d] = "top"]
    /\ reported' = [reported EXCEPT ![cur[d].tti] = @ + 1]
    /\ UNCHANGED <<token, sf_buffer, cur, spurious, tmp, skip, dropped>>
    /\ UNCHANGED <<schedVars, handlerVars>>

-----------------------------------------------------------------------------
Scheduler == Receive \/ SchedulerFind \/ SchedulerAssign \/ SchedulerLog \/ SchedulerBuffer

Handler == \/ HandlerLock \/ HandlerFindSkip \/ HandlerAssignSkip
           \/ HandlerFindRing \/ HandlerAssignRing

Decoder(d) == \/ ReleaseToken(d) \/ CondWait(d) \/ WakeUp(d)
              \/ Decode(d) \/ Report(d)

\* The bounded radio has delivered everything and every thread is parked:
\* the only state in which the pool may stop.
Idle ==
    /\ spc = "sync" /\ sf_cnt = NofSubframes
    /\ hpc = "sleep" /\ tmp = << >> /\ skip = << >>
    /\ \A d \in Decoders : pc[d] = "waiting"
    /\ UNCHANGED vars

Next == \/ Scheduler
        \/ Handler
        \/ \E d \in Decoders : Decoder(d) \/ SpuriousWakeUp(d)
        \/ Idle

\* Every thread that can run is eventually scheduled; the radio owes nothing.
Fairness ==
    /\ WF_vars(SchedulerFind \/ SchedulerAssign \/ SchedulerLog \/ SchedulerBuffer)
    /\ WF_vars(Handler)
    /\ \A d \in Decoders : WF_vars(Decoder(d))

Spec == Init /\ [][Next]_vars
FairSpec == Spec /\ Fairness

-----------------------------------------------------------------------------
(* Properties.                                                             *)

DecoderPc == {"start", "released", "waiting", "signalled", "decoding", "report", "top"}

(* Every variable has its type, and neither container of subframes that    *)
(* found no decoder outgrows the array it has in the code.                 *)
TypeOK ==
    /\ token \in [Decoders -> BOOLEAN]
    /\ sf_buffer \in [Decoders -> Mailbox]
    /\ pc \in [Decoders -> DecoderPc]
    /\ cur \in [Decoders -> Task]
    /\ spc \in {"sync", "find", "assign", "buffer", "log"}
    /\ sidle \in Decoders
    /\ sf_cnt \in 0 .. NofSubframes
    /\ hpc \in {"sleep", "skip", "skipAssign", "ring", "ringAssign"}
    /\ hidle \in Decoders
    /\ tmp \in Seq(Subframes) /\ Len(tmp) <= MaxTmpBuffer
    /\ skip \in Seq(Subframes) /\ Len(skip) <= MaxSkipTti
    /\ spurious \in 0 .. MaxSpurious
    /\ reported \in [0 .. NofSubframes -> Nat]
    /\ dropped \subseteq Subframes

\* The decoders find_idle_decoder has returned to a thread that has not yet
\* completed its assignment.
TakenByScheduler(d) == spc = "assign" /\ sidle = d
TakenByHandler(d) == hpc \in {"skipAssign", "ringAssign"} /\ hidle = d

(* A decoder that find_idle_decoder gave to one thread is not given to     *)
(* another before the first has assigned its subframe: the token "marks    *)
(* that this decoder has been taken" (task_scheduler.c:94).                *)
TakenExclusive == \A d \in Decoders : ~(TakenByScheduler(d) /\ TakenByHandler(d))

(* No subframe is reported to the status tracker twice: neither the two    *)
(* assigning threads nor a decoder's loop repeats a task.                  *)
AtMostOnce == \A i \in Subframes : reported[i] <= 1

HeldByScheduler(i) == spc \in {"find", "assign", "buffer"} /\ sf_cnt = i
Buffered(i) == i \in Range(tmp)
Skipped(i) == i \in Range(skip)
HeldByDecoder(d, i) ==
    \/ pc[d] = "signalled" /\ sf_buffer[d].tti = i
    \/ pc[d] \in {"decoding", "report"} /\ cur[d].tti = i

(* Every subframe received from the radio is with the scheduler, in a      *)
(* container, in the mailbox of a decoder that will wake up for it, being  *)
(* decoded, or reported; only skip_tti_put on a full list drops one.  An   *)
(* assignment that reaches a decoder before it waits on sf_cond, or that   *)
(* overwrites another one, breaks this.                                    *)
Accounted ==
    \A i \in 1 .. sf_cnt :
        \/ HeldByScheduler(i) \/ Buffered(i) \/ Skipped(i)
        \/ \E d \in Decoders : HeldByDecoder(d, i)
        \/ reported[i] > 0
        \/ i \in dropped

Delivery == INSTANCE SubframeDelivery WITH
    arrived <- sf_cnt,
    reports <- [i \in Subframes |-> reported[i]]

(* The pool implements the delivery service of SubframeDelivery: a step    *)
(* reports one subframe that was neither reported nor dropped before, only *)
(* the subframe that just arrived may be dropped, and nothing is reported  *)
(* that did not arrive.                                                    *)
ImplementsDelivery == Delivery!Spec

(* dci_decoder_decode never runs over IQ samples of another subframe than  *)
(* the one whose TTI it reports, even when the condition variable wakes a  *)
(* decoder that was not signalled.                                         *)
IqMatchesTti ==
    \A d \in Decoders :
        (pc[d] = "decoding" /\ ~cur[d].empty) => sf_buffer[d].iq = cur[d].tti

(* A decoder that was given a subframe reports it, whatever the radio      *)
(* delivers meanwhile. What waits in the tmp buffer or on the skip list is *)
(* reported once the radio falls silent, wherever the threads are then:    *)
(* nothing is left behind. While the radio goes on this is not promised:   *)
(* although "we give higher priority to subframes stored inside the tmp    *)
(* buffer" (task_scheduler.c:359), the scheduler may take every decoder    *)
(* that falls idle before the handler looks, and a stream without end may  *)
(* starve what is buffered.                                                *)
BacklogWorkedOff ==
    /\ \A i \in Subframes : (\E d \in Decoders : HeldByDecoder(d, i)) ~> (reported[i] > 0)
    /\ <>[](spc = "sync") =>
          \A i \in Subframes : (sf_cnt >= i) ~> (reported[i] > 0 \/ i \in dropped)

(* The scheduler always returns to the radio: it never waits for ever for  *)
(* sf_mutex of the decoder it chose or for tmp_buf_mutex, which the handler*)
(* holds while it waits for an sf_mutex itself.                            *)
SchedulerReturnsToRadio == (spc # "sync") ~> (spc = "sync")
=============================================================================
