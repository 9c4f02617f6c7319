----------------------------- MODULE MCDciTree -----------------------------
(***************************************************************************)
(* Instances of DciTree for TLC: blocks of four CCEs (7 locations), a      *)
(* control region with a partial block and one with a full and a partial   *)
(* block.                                                                  *)
(***************************************************************************)
EXTENDS DciTree

(* The loops of srsran_ngscope_search_space_block_yx: location j of those  *)
(* with L CCEs is number BlockCces / L - 1 + j of block i and has the L    *)
(* CCEs from ncce = BlockCces * i + L * j.                                 *)
ASSUME LocationsOfLoops ==
    \A i \in 0 .. 1, L \in {n \in 1 .. BlockCces : \E l \in 0 .. n : n = 2 ^ l} :
        \A j \in 0 .. (BlockCces \div L) - 1 :
            LET loc == i * BlockLocs + (BlockCces \div L) - 1 + j
                ncce == BlockCces * i + L * j
            IN  Ncce(loc) = ncce /\ Cces(loc) = ncce .. ncce + L - 1
=============================================================================
