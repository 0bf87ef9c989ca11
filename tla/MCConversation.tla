--------------------------- MODULE MCConversation ---------------------------
(***************************************************************************)
(* Instances of Conversation for TLC; the two devices are interchangeable. *)
(***************************************************************************)
EXTENDS Conversation, TLC

(* Bound: interrupted receives, abandoned sends and restarts together.     *)
FewFaults == faults + Cardinality(abandoned) + restarts <= 2

Symmetry == Permutations(Device)
=============================================================================
