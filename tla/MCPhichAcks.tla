---------------------------- MODULE MCPhichAcks ----------------------------
(***************************************************************************)
(* Instance of PhichAcks, and with it of SfnTracking, for TLC: two 40 ms   *)
(* periods of frames of 3 subframes.  24 TTIs leave a rest of 6 modulo the *)
(* 9 slots (10240 a rest of 40 modulo 100), more than AckDelay and the lag *)
(* of the decoders together.                                               *)
(***************************************************************************)
EXTENDS PhichAcks
=============================================================================
