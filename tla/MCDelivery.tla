----------------------------- MODULE MCDelivery -----------------------------
(***************************************************************************)
(* Instances of Delivery for TLC.  The messages are interchangeable, and   *)
(* so are the processes.                                                   *)
(***************************************************************************)
EXTENDS Delivery, TLC

Symmetry == Permutations(Msg) \union Permutations(Proc)
=============================================================================
