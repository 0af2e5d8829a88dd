---------------------------- MODULE MCEnrollment ----------------------------
(***************************************************************************)
(* Enrollment for TLC. Identities are random bytes, boxes are told apart   *)
(* only by what they hold, and no action orders nodes or rotations, so     *)
(* these sets are symmetric for the safety properties.                     *)
(***************************************************************************)
EXTENDS Enrollment, TLC

Symmetry == Permutations(Identities) \cup Permutations(Boxes) \cup Permutations(Nodes)
                \cup Permutations(Rotations)

=============================================================================
