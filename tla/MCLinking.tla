----------------------------- MODULE MCLinking ------------------------------
(***************************************************************************)
(* Instances of Linking for TLC.  Companions are interchangeable.          *)
(***************************************************************************)
EXTENDS Linking, TLC

Symmetry == Permutations(Companion)
=============================================================================
