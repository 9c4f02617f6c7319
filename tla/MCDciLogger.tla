---------------------------- MODULE MCDciLogger ----------------------------
(***************************************************************************)
(* Instances of DciLogger for TLC.  The code has 320 slots, an eighth of   *)
(* them (40) as forward window and a timeout of 30; the instances keep     *)
(* timeout < BufSize / 8 and run over more than one lap of the ring.       *)
(***************************************************************************)
EXTENDS DciLogger

\* Two cells, the second without a PHICH log.
TwoLogs == (0 :> {"dl", "phich"}) @@ (1 :> {"dl"})
OneLog == (0 :> {"dl"})

\* A pool of two decoders for the first cell, one decoder for the second.
TwoPools == (0 :> 2) @@ (1 :> 1)
OnePool == (0 :> 2)

\* One subframe of the first cell is lost.
LossInFirst == (0 :> 1) @@ (1 :> 0)
NoLoss == (0 :> 0)

Messages(k, n) == IF k = "dl" THEN n % 3 ELSE n % 2
=============================================================================
