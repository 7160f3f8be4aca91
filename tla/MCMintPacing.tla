--------------------------- MODULE MCMintPacing ---------------------------
(* The proportions of the code on a coarse clock: a spacing of 3 ticks, two   *)
(* mints per window of 5, and a queue of at most 7 ticks.                     *)
EXTENDS MintPacing, TLC

MCSymmetry == Permutations(Mints)
=============================================================================
