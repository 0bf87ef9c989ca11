----------------------------- MODULE MCRatchet ------------------------------
(***************************************************************************)
(* Instances of Ratchet for TLC; the two devices are interchangeable.      *)
(***************************************************************************)
EXTENDS Ratchet, TLC

(* Bound: a conversation with a restart and an abandoned send is one send  *)
(* shorter than the others.                                                *)
FewSends == Cardinality(abandoned) + restarts < 2 \/ Len(sent) < MaxSends

Symmetry == Permutations(Device)
=============================================================================
