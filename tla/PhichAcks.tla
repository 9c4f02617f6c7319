----------------------------- MODULE PhichAcks -----------------------------
(***************************************************************************)
(* The pending acknowledgements of the target UE's uplink.  A decoder that *)
(* finds an uplink grant notes in a list, indexed by TTI modulo its length,*)
(* that the PHICH eight subframes later carries the acknowledgement; the   *)
(* decoder of that subframe looks it up, and after a NACK notes the next   *)
(* one and reports a retransmission.  The list is shared by all decoders:  *)
(* entries are set under ack_mutex, but reset and read without it.         *)
(*                                                                         *)
(* The subframes come from the task scheduler under the TTIs of SfnTracking*)
(* and are decoded side by side; a decoder that was given an empty subframe*)
(* looks at the list too, with the TTI of the subframe it decoded before.  *)
(* FDD; each test, set, reset and read of the list is one step.            *)
(***************************************************************************)
EXTENDS SfnTracking, Integers

CONSTANTS
    NofDecoder,
    TtiModSz,     \* TTIMOD_SZ: entries of the list
    AckDelay,     \* 2 * HARQ_DELAY_MS
    MaxLag,       \* bound: how many subframes a decoder is behind
    MaxAfter      \* bound: grants, NACKs and empty subframes after one was missed

ASSUME PhichAssumption ==
    /\ NofDecoder \in Nat \ {0}
    /\ TtiModSz \in Nat \ {0}
    /\ AckDelay \in 1 .. TtiModSz - 1
    /\ MaxLag \in Nat /\ MaxAfter \in Nat

Decoders == 0 .. NofDecoder - 1

VARIABLES
    pending_ack,  \* per slot: enabled; for is history: the TTI on the air it was noted for
    dl_tti,       \* per decoder dl_sf.tti: the subframe it decoded last
    task,         \* per decoder what it is doing, with which subframe
    due,          \* history: TTIs on the air whose PHICH is for the target
    missed        \* history: 0 while every subframe was decoded, then 1 and up

phichVars == <<pending_ack, dl_tti, task, due, missed>>

\* Counting what may still happen after a subframe was missed.
Within == missed <= MaxAfter
Count == IF missed = 0 THEN 0 ELSE missed + 1

Idle == [step |-> "idle"]
Busy(d) == task[d].step # "idle"

NotPending == [enabled |-> FALSE, for |-> 0]

PhichInit ==
    /\ Init
    /\ pending_ack = [s \in 0 .. TtiModSz - 1 |-> NotPending]
    /\ dl_tti = [d \in Decoders |-> 0]
    /\ task = [d \in Decoders |-> Idle]
    /\ due = {}
    /\ missed = 0

-----------------------------------------------------------------------------
(* phich_decoder.c                                                         *)

(* Slip: the TTI is not wrapped.                                           *)
TtiRxAckNoWrap(tti) == tti + AckDelay

TtiRxAck(tti) == (tti + AckDelay) % NofTti
TtiMod(tti) == tti % TtiModSz

SetPendingAck(tti, air_tti) == [pending_ack EXCEPT ![TtiMod(tti)] = [enabled |-> TRUE, for |-> air_tti]]
ResetPendingAck(tti) == [pending_ack EXCEPT ![TtiMod(tti)] = NotPending]
GetPendingAck(tti) == pending_ack[TtiMod(tti)]

AirAck(air_tti) == (air_tti + AckDelay) % NofTti

-----------------------------------------------------------------------------
(* Scheduler and radio.                                                    *)

Lag(d) == (air - task[d].air) % NofTti
InStep == \A d \in Decoders : Busy(d) => Lag(d) < MaxLag

\* A subframe goes to the first idle decoder once the scheduler knows the SFN; it
\* may hold a grant for the target, or be empty because its samples were
\* dropped.
Dispatch(found) ==
    /\ InStep
    /\ ReceiveSubframe(found)
    /\ \/ /\ ~decode_pdcch' /\ UNCHANGED phichVars
       \/ /\ decode_pdcch'
          /\ \E d \in Decoders, grant, empty \in BOOLEAN :
                 /\ ~Busy(d) /\ \A e \in 0 .. d - 1 : Busy(e)
                 /\ empty => ~grant
                 /\ grant \/ empty => Within
                 /\ task' = [task EXCEPT ![d] = [step |-> IF grant THEN "set" ELSE "get", tti |-> sent'[1],
                                                 air |-> air, grant |-> grant, empty |-> empty]]
                 /\ dl_tti' = [dl_tti EXCEPT ![d] = IF empty THEN @ ELSE sent'[1]]
                 /\ missed' = IF empty THEN missed + 1 ELSE IF grant THEN Count ELSE missed
                 /\ due' = IF missed' > 0 THEN {} ELSE IF grant THEN due \cup {AirAck(air)} ELSE due
          /\ UNCHANGED pending_ack

LoseSync ==
    /\ InStep
    /\ LoseSubframe
    /\ missed' = IF decode_pdcch /\ missed = 0 THEN 1 ELSE missed
    /\ due' = IF decode_pdcch THEN {} ELSE due
    /\ UNCHANGED <<pending_ack, dl_tti, task>>

-----------------------------------------------------------------------------
(* dci_decoder.c: dci_decoder_phich_decode, phich_decoder.c: decode_phich  *)

SetAck(d) ==
    /\ task[d].step = "set"
    /\ pending_ack' = SetPendingAck(TtiRxAck(task[d].tti), AirAck(task[d].air))
    /\ task' = [task EXCEPT ![d].step = "reset"]
    /\ UNCHANGED <<vars, dl_tti, due, missed>>

ResetAck(d) ==
    /\ task[d].step = "reset"
    /\ pending_ack' = ResetPendingAck(task[d].tti)
    /\ task' = [task EXCEPT ![d].step = "get"]
    /\ UNCHANGED <<vars, dl_tti, due, missed>>

GetAck(d) ==
    /\ task[d].step = "get"
    /\ task' = [task EXCEPT ![d] = IF GetPendingAck(dl_tti[d]).enabled THEN [@ EXCEPT !.step = "decode"] ELSE Idle]
    /\ due' = due \ {task[d].air}
    /\ UNCHANGED <<vars, pending_ack, dl_tti, missed>>

\* An ACK, or an error while decoding, ends it.
DecodeAck(d) ==
    /\ task[d].step = "decode"
    /\ pending_ack' = ResetPendingAck(dl_tti[d])
    /\ task' = [task EXCEPT ![d] = Idle]
    /\ UNCHANGED <<vars, dl_tti, due, missed>>

\* A NACK: the next acknowledgement is noted, then this one reset.
DecodeNack(d) ==
    /\ task[d].step = "decode"
    /\ Within /\ missed' = Count
    /\ pending_ack' = SetPendingAck(TtiRxAck(dl_tti[d]), AirAck(task[d].air))
    /\ task' = [task EXCEPT ![d].step = "nack"]
    /\ due' = IF missed > 0 THEN {} ELSE due \cup {AirAck(task[d].air)}
    /\ UNCHANGED <<vars, dl_tti>>

ResetAfterNack(d) ==
    /\ task[d].step = "nack"
    /\ pending_ack' = ResetPendingAck(dl_tti[d])
    /\ task' = [task EXCEPT ![d] = Idle]
    /\ UNCHANGED <<vars, dl_tti, due, missed>>

Decoder(d) == SetAck(d) \/ ResetAck(d) \/ GetAck(d) \/ DecodeAck(d) \/ DecodeNack(d) \/ ResetAfterNack(d)

PhichNext ==
    \/ \E found \in BOOLEAN : Dispatch(found)
    \/ LoseSync
    \/ \E d \in Decoders : Decoder(d)

PhichSpec == PhichInit /\ [][PhichNext]_<<vars, phichVars>>

-----------------------------------------------------------------------------
(* As long as every subframe is decoded, fewer than AckDelay subframes     *)
(* late, the list tells every decoder exactly whether its subframe carries *)
(* an acknowledgement for the target: there is one if and only if a grant  *)
(* was found or a NACK received eight subframes before and there is no new *)
(* grant; and the entry is the one noted for this subframe, not one left   *)
(* over in the same slot.  So the accesses without ack_mutex do no harm,   *)
(* and the wrap of the TTIs, no multiple of TTIMOD_SZ, does none either.   *)
ReadsWhatIsDue ==
    [][\A d \in Decoders : task[d].step = "get" /\ task'[d] # task[d] /\ missed = 0 =>
           /\ task'[d].step = "decode" <=> (task[d].air \in due /\ ~task[d].grant)
           /\ task'[d].step = "decode" => GetPendingAck(dl_tti[d]).for = task[d].air]_<<vars, phichVars>>
=============================================================================
