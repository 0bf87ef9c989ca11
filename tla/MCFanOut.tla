------------------------------ MODULE MCFanOut ------------------------------
(***************************************************************************)
(* Instances of FanOut for TLC: two devices in each account, whose ids are *)
(* ordered against their usual order of registration.  Calls are           *)
(* interchangeable.                                                        *)
(***************************************************************************)
EXTENDS FanOut, TLC

CONSTANTS s, h, p, q

Backwards == <<q, p, h, s>>

Symmetry == Permutations(Call)
=============================================================================
