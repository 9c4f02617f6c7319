-------------------------- MODULE MCDecoderResults --------------------------
(* Two decoders and buffers of three entries that overflow.                *)
EXTENDS DecoderResults
=============================================================================
