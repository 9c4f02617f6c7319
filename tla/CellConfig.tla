----------------------------- MODULE CellConfig -----------------------------
(***************************************************************************)
(* What the decoders learn of the cell from its system information.  Every *)
(* subframe is searched for SIB1 or SIB2, depending on its place in the    *)
(* frame; the first one of each kind fills sib_json_record, and            *)
(* cellcfg.json is written from that record.  The flags have_sib1 and      *)
(* have_sib2 are tested without a lock, any number of steps before the     *)
(* record is changed under token_mutex[0].                                 *)
(*                                                                         *)
(* Of a record only the two parts are kept, one from each kind of SIB.     *)
(***************************************************************************)
CONSTANT Decoders

VARIABLES
    have_sib1, have_sib2,
    record,     \* sib_json_record: which parts were filled in
    cellcfg,    \* cellcfg.json: which parts it shows
    sib,        \* per decoder where it is: idle, save1, save2, or done with its SIB
    unsaved     \* history: a SIB1 without PLMN was taken, or the file could not be opened

Nothing == [sib1 |-> FALSE, power |-> FALSE]

ConfigInit ==
    /\ have_sib1 = FALSE /\ have_sib2 = FALSE
    /\ record = Nothing /\ cellcfg = Nothing
    /\ sib = [d \in Decoders |-> "idle"]
    /\ unsaved = FALSE

\* A subframe is searched: nothing is found or unpacked, ...
FindNoSib(d) ==
    /\ sib[d] = "idle"
    /\ sib' = [sib EXCEPT ![d] = "done"]
    /\ UNCHANGED <<have_sib1, have_sib2, record, cellcfg, unsaved>>

\* ... or a SIB of a kind that no decoder has saved yet.
FindSib1(d) ==
    /\ sib[d] = "idle"
    /\ ~have_sib1
    /\ sib' = [sib EXCEPT ![d] = "save1"]
    /\ UNCHANGED <<have_sib1, have_sib2, record, cellcfg, unsaved>>

FindSib2(d) ==
    /\ sib[d] = "idle"
    /\ ~have_sib2
    /\ sib' = [sib EXCEPT ![d] = "save2"]
    /\ UNCHANGED <<have_sib1, have_sib2, record, cellcfg, unsaved>>

\* The regions under token_mutex[0].  plmn: the list of PLMNs is not empty;
\* opened: fopen succeeded.
SaveSib1(d, plmn, opened) ==
    /\ sib[d] = "save1"
    /\ sib' = [sib EXCEPT ![d] = "done"]
    /\ record' = IF plmn THEN [record EXCEPT !.sib1 = TRUE] ELSE record
    /\ cellcfg' = IF plmn /\ opened THEN record' ELSE cellcfg
    /\ have_sib1' = TRUE
    /\ unsaved' = (unsaved \/ ~plmn \/ ~opened)
    /\ UNCHANGED have_sib2

(* Slip: the power is only kept when the file is written at once.          *)
SaveSib2Late(d, opened) ==
    /\ sib[d] = "save2"
    /\ sib' = [sib EXCEPT ![d] = "done"]
    /\ record' = IF have_sib1 THEN [record EXCEPT !.power = TRUE] ELSE record
    /\ cellcfg' = IF have_sib1 /\ opened THEN record' ELSE cellcfg
    /\ have_sib2' = TRUE
    /\ unsaved' = (unsaved \/ (have_sib1 /\ ~opened))
    /\ UNCHANGED have_sib1

SaveSib2(d, opened) ==
    /\ sib[d] = "save2"
    /\ sib' = [sib EXCEPT ![d] = "done"]
    /\ record' = [record EXCEPT !.power = TRUE]
    /\ cellcfg' = IF have_sib1 /\ opened THEN record' ELSE cellcfg
    /\ have_sib2' = TRUE
    /\ unsaved' = (unsaved \/ (have_sib1 /\ ~opened))
    /\ UNCHANGED have_sib1

Sib(d) ==
    \/ FindNoSib(d) \/ FindSib1(d) \/ FindSib2(d)
    \/ \E opened \in BOOLEAN : SaveSib2(d, opened) \/ \E plmn \in BOOLEAN : SaveSib1(d, plmn, opened)
=============================================================================
