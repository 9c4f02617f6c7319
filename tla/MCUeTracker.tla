---------------------------- MODULE MCUeTracker ----------------------------
(***************************************************************************)
(* Instance of UeTracker for TLC: three UEs for an array of two, TTIs that *)
(* wrap at 10, and thresholds below half of that, as 5000 is below half of *)
(* 10240.                                                                  *)
(***************************************************************************)
EXTENDS UeTracker
=============================================================================
