---------------------------- MODULE MCThreadExit ----------------------------
(***************************************************************************)
(* Instances of ThreadExit for TLC, with go_exit at any moment: two RF     *)
(* devices, the first of them with two decoders, or a single decoder.      *)
(***************************************************************************)
EXTENDS ThreadExit

TwoDevices == [r \in 0 .. 1 |-> IF r = 0 THEN 2 ELSE 1]
OneDecoder == [r \in {0} |-> 1]
=============================================================================
