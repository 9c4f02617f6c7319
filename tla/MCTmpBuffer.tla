---------------------------- MODULE MCTmpBuffer ----------------------------
(***************************************************************************)
(* Instance of TmpBuffer for TLC: 3 ring slots (15 in the code), 2 skipped *)
(* TTIs (200 in the code), frames of 4 subframes.                          *)
(***************************************************************************)
EXTENDS TmpBuffer
=============================================================================
