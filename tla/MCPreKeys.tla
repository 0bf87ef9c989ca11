----------------------------- MODULE MCPreKeys ------------------------------
(***************************************************************************)
(* Instances of PreKeys for TLC; the bundles are interchangeable.          *)
(***************************************************************************)
EXTENDS PreKeys, TLC

Symmetry == Permutations(Bundle)
=============================================================================
