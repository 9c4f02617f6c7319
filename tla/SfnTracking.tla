---------------------------- MODULE SfnTracking ----------------------------
(***************************************************************************)
(* How the task scheduler names the subframes it receives.  The subframe   *)
(* index comes from the synchronisation signals; the system frame number is*)
(* read from the MIB in subframe 0 when that succeeds and counted otherwise*)
(* - also while the radio has lost synchronisation and delivers nothing.   *)
(***************************************************************************)
EXTENDS Naturals

CONSTANTS
    NofSfn,       \* 1024 system frame numbers; a multiple of 4
    SfPerFrame,   \* 10 subframes
    MaxLost       \* bound: subframes in a row lost without synchronisation

ASSUME SfnAssumption ==
    /\ NofSfn \in Nat \ {0} /\ NofSfn % 4 = 0
    /\ SfPerFrame \in Nat \ {0}
    /\ MaxLost \in Nat

VARIABLES
    air,            \* TTI of the base station for the next subframe
    sfn,            \* the scheduler's frame counter
    decode_pdcch,   \* the SFN was decoded once; subframes are dispatched
    sent,           \* <<TTI given, true TTI>> of the last subframe dispatched
    gap,            \* history: a frame boundary was missed since the last
                    \* accepted MIB, or since the start
    lost            \* subframes in a row without synchronisation

vars == <<air, sfn, decode_pdcch, sent, gap, lost>>

NofTti == NofSfn * SfPerFrame

Init ==
    /\ air \in 0 .. NofTti - 1
    /\ sfn = 0
    /\ decode_pdcch = FALSE
    /\ sent = << >>
    /\ gap = FALSE
    /\ lost = 0

AirSfn == air \div SfPerFrame
AirSf == air % SfPerFrame
AirNext == (air + 1) % NofTti

\* ue_mib_decode_sfn: the MIB carries the SFN without its two low bits, the
\* position in the 40 ms period gives the rest.
MibSfn == ((4 * (AirSfn \div 4)) + (AirSfn % 4)) % NofSfn

\* "we increase the sfn incase MIB decoding failed"
FrameEnd(s, sf_idx) == IF sf_idx = SfPerFrame - 1 THEN (s + 1) % NofSfn ELSE s

(* Slip: subframes are dispatched before any MIB was decoded.              *)
SyncedAlways(found) ==
    LET sfn_tmp == IF found THEN MibSfn ELSE 0
        accepted == sfn_tmp > 0
        sfn_now == IF accepted THEN sfn_tmp ELSE sfn
    IN  /\ decode_pdcch' = TRUE
        /\ sent' = <<(sfn_now * SfPerFrame) + AirSf, air>>
        /\ gap' = (gap /\ ~accepted)
        /\ sfn' = FrameEnd(sfn_now, AirSf)

\* One subframe with ret == 1; found says whether its MIB was decoded, which
\* only subframe 0 carries.
Synced(found) ==
    LET sfn_tmp  == IF found THEN MibSfn ELSE 0
        accepted == sfn_tmp > 0
        sfn_now  == IF accepted THEN sfn_tmp ELSE sfn
    IN  /\ decode_pdcch' = (decode_pdcch \/ accepted)
        /\ sent' = IF decode_pdcch' THEN <<(sfn_now * SfPerFrame) + AirSf, air>> ELSE sent
        /\ gap' = (gap /\ ~accepted)
        /\ sfn' = FrameEnd(sfn_now, AirSf)

ReceiveSubframe(found) ==
    /\ found => AirSf = 0
    /\ Synced(found)
    /\ air' = AirNext
    /\ lost' = 0

\* srsran_ue_sync_zerocopy returned 0 (searching) or an error: the loop goes
\* round without touching its counters.
LoseSubframe ==
    /\ lost < MaxLost
    /\ lost' = lost + 1
    /\ air' = AirNext
    /\ gap' = (gap \/ AirSf = SfPerFrame - 1)
    /\ UNCHANGED <<sfn, decode_pdcch, sent>>

Next == LoseSubframe \/ \E found \in BOOLEAN : ReceiveSubframe(found)

Spec == Init /\ [][Next]_vars

-----------------------------------------------------------------------------
(* Types; the frame counter stays below 1024, so a TTI stays below 10240.  *)
TypeOK ==
    /\ air \in 0 .. NofTti - 1
    /\ sfn \in 0 .. NofSfn - 1
    /\ decode_pdcch \in BOOLEAN
    /\ sent = << >> \/ sent \in (0 .. NofTti - 1) \X (0 .. NofTti - 1)
    /\ gap \in BOOLEAN
    /\ lost \in 0 .. MaxLost

(* Unless synchronisation was lost over a frame boundary since the last    *)
(* accepted MIB, or since the start, every subframe is dispatched under its*)
(* true TTI, however many MIBs in between were missed: also the first one, *)
(* since decode_pdcch holds the subframes back until a MIB was accepted.   *)
TtiCorrect == [][(sent' # sent /\ ~gap') => sent'[1] = sent'[2]]_vars
=============================================================================
