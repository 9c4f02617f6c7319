--------------------------- MODULE DecoderResults ---------------------------
(***************************************************************************)
(* The turns of the decoders, from the search for system information to    *)
(* the result they store: CellConfig composed with DciHandoff.             *)
(***************************************************************************)
EXTENDS DciHandoff, FiniteSets

CONSTANT Decoders

VARIABLES have_sib1, have_sib2, record, cellcfg, sib, unsaved

Config == INSTANCE CellConfig

configVars == <<have_sib1, have_sib2, record, cellcfg, sib, unsaved>>
turnVars == <<vars, configVars>>

TurnInit == Init /\ Config!ConfigInit

Busy == {d \in Decoders : sib[d] # "idle"}

\* dci_decoder_decode, up to and with the search for SIBs.
Search(d) ==
    /\ sib[d] = "idle" => produced + Cardinality(Busy) < NofDci
    /\ Config!Sib(d)
    /\ UNCHANGED vars

\* The result of the subframe, which ends the turn.
Store(d) ==
    /\ sib[d] = "done"
    /\ DecoderStore
    /\ sib' = [sib EXCEPT ![d] = "idle"]
    /\ UNCHANGED <<have_sib1, have_sib2, record, cellcfg, unsaved>>

Rest == Tracker \/ CellTake \/ LoggerTake \/ Done

TurnNext ==
    \/ \E d \in Decoders : Search(d) \/ Store(d)
    \/ Rest /\ UNCHANGED configVars

TurnSpec == TurnInit /\ [][TurnNext]_turnVars /\ Fairness

-----------------------------------------------------------------------------
(* Whichever SIB is found first, by whichever decoders, and however often: *)
(* once both kinds were taken, cellcfg.json shows both, unless a SIB1 had  *)
(* no PLMN or the file could not be opened.  The unlocked tests of the     *)
(* flags cost at most a second writing.                                    *)
ConfigComplete ==
    have_sib1 /\ have_sib2 /\ ~unsaved => cellcfg = [sib1 |-> TRUE, power |-> TRUE]
=============================================================================
