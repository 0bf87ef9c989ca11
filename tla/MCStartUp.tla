------------------------------ MODULE MCStartUp -----------------------------
(***************************************************************************)
(* Instances of StartUp for TLC; processes are interchangeable.            *)
(***************************************************************************)
EXTENDS StartUp, TLC

Symmetry == Permutations(Proc)
=============================================================================
