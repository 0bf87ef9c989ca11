------------------------------ MODULE Mailbox -------------------------------
(***************************************************************************)
(* What the relay and a device promise together: a mailbox that delivers   *)
(* envelopes in the order in which they were accepted, each at most once,  *)
(* and skips none that was not dropped.                                    *)
(***************************************************************************)
EXTENDS Naturals, Sequences, Functions

CONSTANT Envelope

VARIABLES
  sent,       \* the accepted envelopes
  delivered,  \* positions in sent of the delivered ones, in order
  dropped     \* positions that may be skipped

vars == <<sent, delivered, dropped>>

Init ==
  /\ sent = <<>>
  /\ delivered = <<>>
  /\ dropped = {}

Accept ==
  /\ \E e \in Envelope : sent' = Append(sent, e)
  /\ UNCHANGED <<delivered, dropped>>

(* The next envelope is later than every delivered one, and the ones       *)
(* between were dropped.                                                   *)
Deliver ==
  \E i \in DOMAIN sent :
    /\ \A j \in Range(delivered) : j < i
    /\ \A j \in 1..(i - 1) : j \in Range(delivered) \union dropped
    /\ delivered' = Append(delivered, i)
    /\ UNCHANGED <<sent, dropped>>

(* A crash of the mailbox; what is in the owner's hands may still arrive.  *)
Drop ==
  /\ \E D \in SUBSET DOMAIN sent : dropped' = dropped \union D
  /\ UNCHANGED <<sent, delivered>>

Next == Accept \/ Deliver \/ Drop

Spec == Init /\ [][Next]_vars
=============================================================================
