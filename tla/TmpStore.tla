------------------------------ MODULE TmpStore ------------------------------
(***************************************************************************)
(* What the task scheduler expects of the two containers for subframes that*)
(* found no idle decoder: a bounded FIFO queue of subframes with their IQ  *)
(* samples and, for what does not fit, a bounded stack of bare TTIs; what  *)
(* fits in neither is dropped.  Module DecoderPool is written over this    *)
(* view, module TmpBuffer shows that the arrays of the code implement it.  *)
(***************************************************************************)
EXTENDS Naturals, Sequences

CONSTANTS MaxTmpBuffer, MaxSkipTti, LastTti

VARIABLES tmp, skip, dropped

storeVars == <<tmp, skip, dropped>>

StoreInit == tmp = << >> /\ skip = << >> /\ dropped = {}

Store(i) ==
    \/ /\ Len(tmp) < MaxTmpBuffer
       /\ tmp' = Append(tmp, i)
       /\ UNCHANGED <<skip, dropped>>
    \/ /\ Len(tmp) = MaxTmpBuffer /\ Len(skip) < MaxSkipTti
       /\ skip' = Append(skip, i)
       /\ UNCHANGED <<tmp, dropped>>
    \/ /\ Len(tmp) = MaxTmpBuffer /\ Len(skip) = MaxSkipTti
       /\ dropped' = dropped \cup {i}
       /\ UNCHANGED <<tmp, skip>>

TakeOldest == tmp # << >> /\ tmp' = Tail(tmp) /\ UNCHANGED <<skip, dropped>>

TakeSkipped ==
    /\ skip # << >>
    /\ skip' = SubSeq(skip, 1, Len(skip) - 1)
    /\ UNCHANGED <<tmp, dropped>>

StoreNext == (\E i \in 0 .. LastTti : Store(i)) \/ TakeOldest \/ TakeSkipped

StoreSpec == StoreInit /\ [][StoreNext]_storeVars
=============================================================================
