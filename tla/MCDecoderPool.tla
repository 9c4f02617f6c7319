--------------------------- MODULE MCDecoderPool ---------------------------
(***************************************************************************)
(* Instances of DecoderPool for TLC.  The cfg files bound the arrivals so  *)
(* that the tmp buffer and the skip list both fill and overflow.           *)
(***************************************************************************)
EXTENDS DecoderPool
=============================================================================
