------------------------------ MODULE MCRollup ------------------------------
(* Series are alike: nothing in Rollup tells one from another.              *)
EXTENDS Rollup, TLC

MCSymmetry == Permutations(Series)
=============================================================================
