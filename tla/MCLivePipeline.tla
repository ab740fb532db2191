--------------------------- MODULE MCLivePipeline ---------------------------
(* LivePipeline for TLC; the cfg files give the bounds of each run. *)
EXTENDS LivePipeline, TLC

(* No definition tells one order from another. *)
OrderSymmetry == Permutations(Orders)
=============================================================================
