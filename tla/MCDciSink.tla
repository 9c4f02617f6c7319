----------------------------- MODULE MCDciSink -----------------------------
(***************************************************************************)
(* Instances of DciSink for TLC: a client and two cells whose TTIs wrap    *)
(* while they are sent, ring buffers that overflow, two packets lost and   *)
(* one DCI of a subframe that was given up.                                *)
(***************************************************************************)
EXTENDS DciSink
=============================================================================
