------------------------------- MODULE FanOut -------------------------------
(***************************************************************************)
(* The encrypted sends of one device to every other device of two          *)
(* accounts: the rosters a call fetches, its loop over the targets, one    *)
(* request and one save for each, and the sent copy at its end.  Companions*)
(* are linked meanwhile, requests come late, calls stop anywhere, and the  *)
(* relay restarts.                                                         *)
(*                                                                         *)
(* A call sends one message and makes one envelope for each target, named  *)
(* <<call, device>>: its client_message_id is fresh, so a user who repeats *)
(* a failed send makes another call.  Ids are positions in accepted.  What *)
(* an envelope holds is module Ratchet's subject, what becomes of it at    *)
(* the recipient module Delivery's, and how companions link module         *)
(* Linking's; here a device's session is the number of envelopes that the  *)
(* saved state has been advanced for.                                      *)
(***************************************************************************)
EXTENDS Naturals, SequencesExt

CONSTANTS
  Home,        \* devices of the sender's account
  Away,        \* devices of the other account
  Sender,      \* the sending device
  IdOrder,     \* all devices, in the order of their ids
  Call,        \* calls of send
  MaxFaults,   \* bound: attempts that time out and calls that end early
  MaxRestarts  \* bound: restarts of the relay

Device == Home \union Away

ASSUME FanOutAssumption ==
  /\ Sender \in Home
  /\ Away # {}
  /\ Home \intersect Away = {}
  /\ IdOrder \in Seq(Device)
  /\ Range(IdOrder) = Device
  /\ IsInjective(IdOrder)
  /\ MaxFaults \in Nat
  /\ MaxRestarts \in Nat

Account == {"home", "away"}
Members(a) == IF a = "home" THEN Home ELSE Away

VARIABLES
  primary,   \* the primary device of each account
  roster,    \* the devices in each account's registration, in its order
  listed,    \* companions in the signed lists of devices
  pending,   \* pending links, as pairs <<device, list it was approved with>>
  bundled,   \* devices with a published pre-key bundle
  receipts,  \* ids of the envelopes whose receipt the relay remembers
  late,      \* submissions whose sender no longer waits
  accepted,  \* history: every envelope the relay accepted
  disk,      \* envelopes to each device the saved state was advanced for
  mem,       \* the same in each call's copy of the state
  pc,        \* where each call is
  to,        \* the account each call sends to
  todo,      \* the targets each call still has to serve
  keyed,     \* devices with keys in the rosters each call fetched
  tries,     \* attempts of the current request
  reply,     \* the id in the answer to it, 0 when there is none
  got,       \* each call's delivery_receipts, as pairs <<device, id>>
  sent,      \* the id of each call's sent copy, 0 when none is stored
  before,    \* history: the reachable devices when each call began
  faults, restarts  \* counters for the bounds

relayVars  == <<receipts, late, accepted>>
linkVars   == <<primary, roster, listed, pending, bundled>>
callVars   == <<mem, pc, to, todo, keyed, tries, reply, got, sent, before>>
boundVars  == <<faults, restarts>>
vars == <<linkVars, relayVars, disk, callVars, boundVars>>

(* Both primaries and the sender, which may be a companion, are linked.    *)
Init ==
  /\ primary \in [Account -> Device]
  /\ \A a \in Account : primary[a] \in Members(a)
  /\ roster = [a \in Account |->
                 IF a = "home" /\ primary[a] # Sender
                 THEN <<primary[a], Sender>>
                 ELSE <<primary[a]>>]
  /\ listed = {Sender} \ {primary["home"]}
  /\ pending = {}
  /\ bundled = {Sender, primary["home"], primary["away"]}
  /\ receipts = {}
  /\ late = {}
  /\ accepted = <<>>
  /\ disk = [d \in Device |-> 0]
  /\ mem = [c \in Call |-> [d \in Device |-> 0]]
  /\ pc = [c \in Call |-> "idle"]
  /\ to = [c \in Call |-> "away"]
  /\ todo = [c \in Call |-> <<>>]
  /\ keyed = [c \in Call |-> {}]
  /\ tries = [c \in Call |-> 0]
  /\ reply = [c \in Call |-> 0]
  /\ got = [c \in Call |-> <<>>]
  /\ sent = [c \in Call |-> 0]
  /\ before = [c \in Call |-> {}]
  /\ faults = 0
  /\ restarts = 0

Fault == faults < MaxFaults /\ faults' = faults + 1

-----------------------------------------------------------------------------
(* Devices of an account come and go through Linking; three of its steps   *)
(* matter to a sender.                                                     *)

Companions(a) == Range(roster[a]) \ {primary[a]}

(* POST /link: the signed list becomes the registered companions and one   *)
(* that is not registered yet; a pending link is not replaced by another.  *)
Approve(a, d) ==
  LET list == Companions(a) \union {d}
  IN  /\ d \in Members(a) \ Range(roster[a])
      /\ \A l \in pending : l[1] = d => l[2] = list
      /\ listed' = (listed \ Members(a)) \union list
      /\ pending' = pending \union {<<d, list>>}
      /\ UNCHANGED <<primary, roster, bundled, relayVars, disk, callVars,
                     boundVars>>

(* POST /register of a companion whose link is pending.                    *)
Register(a, d) ==
  /\ d \in Members(a) \ Range(roster[a])
  /\ \E l \in pending : l[1] = d
  /\ pending' = {l \in pending : l[1] # d}
  /\ roster' = [roster EXCEPT ![a] = Append(@, d)]
  /\ UNCHANGED <<primary, listed, bundled, relayVars, disk, callVars,
                 boundVars>>

(* POST /bundles, the last request of a registration.                      *)
PublishBundle(a, d) ==
  /\ d \in Companions(a) \ bundled
  /\ bundled' = bundled \union {d}
  /\ UNCHANGED <<primary, roster, listed, pending, relayVars, disk, callVars,
                 boundVars>>

-----------------------------------------------------------------------------
(* The relay's POST /messages.                                             *)

(* An earlier submission with the receipt key of envelope e.               *)
KnownReceipt_AnyDevice(i, e) == i \in receipts /\ accepted[i][1] = e[1]
KnownReceipt(i, e) == i \in receipts /\ accepted[i] = e

(* Envelope e is queued unless its receipt is known; id is the answer.     *)
Queue(e, id) ==
  IF \E i \in receipts : KnownReceipt(i, e)
  THEN KnownReceipt(id, e) /\ UNCHANGED <<accepted, receipts>>
  ELSE /\ id = Len(accepted) + 1
       /\ accepted' = Append(accepted, e)
       /\ receipts' = receipts \union {id}

QueueMessage(c) ==
  /\ pc[c] = "posted"
  /\ \E id \in 1..(Len(accepted) + 1) :
       /\ Queue(<<c, Head(todo[c])>>, id)
       /\ reply' = [reply EXCEPT ![c] = id]
  /\ pc' = [pc EXCEPT ![c] = "answered"]
  /\ UNCHANGED <<linkVars, late, disk, mem, to, todo, keyed, tries, got,
                 sent, before, boundVars>>

LateQueueMessage(e) ==
  /\ e \in late
  /\ late' = late \ {e}
  /\ \E id \in 1..(Len(accepted) + 1) : Queue(e, id)
  /\ UNCHANGED <<linkVars, disk, callVars, boundVars>>

(* A restart forgets queues and receipts, and reads registrations back     *)
(* from a file that was written with sorted keys.                          *)
Precedes(d, e) ==
  \E i, j \in DOMAIN IdOrder : i < j /\ IdOrder[i] = d /\ IdOrder[j] = e

Sorted(s) ==
  {r \in [DOMAIN s -> Range(s)] :
     /\ Range(r) = Range(s)
     /\ \A i, j \in DOMAIN r : i < j => Precedes(r[i], r[j])}

Restart ==
  /\ restarts < MaxRestarts
  /\ restarts' = restarts + 1
  /\ receipts' = {}
  /\ late' = {}
  /\ \E home \in Sorted(roster["home"]), away \in Sorted(roster["away"]) :
       roster' = [a \in Account |-> IF a = "home" THEN home ELSE away]
  /\ UNCHANGED <<primary, listed, pending, bundled, accepted, disk, callVars,
                 faults>>

-----------------------------------------------------------------------------
(* A call of send.                                                         *)

Inside == {"home", "away", "next", "posted", "answered"}

(* The devices of an account that a sender can reach.                      *)
Reachable(a) == (Range(roster[a]) \intersect bundled) \ {Sender}

LockIsFree_Always == TRUE
LockIsFree == \A c \in Call : pc[c] \notin Inside

(* send() takes the lock and restores the state file.                      *)
Send(c, a) ==
  /\ pc[c] = "idle"
  /\ LockIsFree
  /\ pc' = [pc EXCEPT ![c] = "home"]
  /\ to' = [to EXCEPT ![c] = a]
  /\ mem' = [mem EXCEPT ![c] = disk]
  /\ before' = [before EXCEPT ![c] = Reachable("home") \union Reachable(a)]
  /\ UNCHANGED <<linkVars, relayVars, disk, todo, keyed, tries, reply, got,
                 sent, boundVars>>

(* fetch_devices: with companions in the roster, the signed list must name *)
(* exactly these.                                                          *)
Verifies(a) ==
  Companions(a) # {} => listed \intersect Members(a) = Companions(a)

(* The devices of an account that a message goes to.                       *)
Others(a) ==
  LET at == {i \in DOMAIN roster[a] : roster[a][i] = Sender}
  IN  IF at = {} THEN roster[a]
                 ELSE RemoveAt(roster[a], CHOOSE i \in at : TRUE)

(* A call without any target ends with an error.                           *)
StartOn(targets) == IF targets = <<>> THEN "failed" ELSE "next"

(* GET /devices of the sender's account, then of the recipient's.          *)
FetchHome(c) ==
  /\ pc[c] = "home"
  /\ IF Verifies("home")
     THEN /\ todo' = [todo EXCEPT ![c] = Others("home")]
          /\ keyed' = [keyed EXCEPT ![c] = Home \intersect bundled]
          /\ pc' = [pc EXCEPT ![c] =
                      IF to[c] = "home" THEN StartOn(Others("home"))
                                        ELSE "away"]
     ELSE pc' = [pc EXCEPT ![c] = "failed"] /\ UNCHANGED <<todo, keyed>>
  /\ UNCHANGED <<linkVars, relayVars, disk, mem, to, tries, reply, got, sent,
                 before, boundVars>>

FetchAway(c) ==
  /\ pc[c] = "away"
  /\ IF Verifies("away")
     THEN /\ todo' = [todo EXCEPT ![c] = @ \o Others("away")]
          /\ keyed' = [keyed EXCEPT ![c] = @ \union (Away \intersect bundled)]
          /\ pc' = [pc EXCEPT ![c] = StartOn(todo[c] \o Others("away"))]
     ELSE pc' = [pc EXCEPT ![c] = "failed"] /\ UNCHANGED <<todo, keyed>>
  /\ UNCHANGED <<linkVars, relayVars, disk, mem, to, tries, reply, got, sent,
                 before, boundVars>>

(* The envelope for the next target is encrypted and posted, provided that *)
(* the roster had its identity keys.                                       *)
PostNext(c) ==
  /\ pc[c] = "next"
  /\ todo[c] # <<>>
  /\ IF Head(todo[c]) \in keyed[c]
     THEN /\ pc' = [pc EXCEPT ![c] = "posted"]
          /\ tries' = [tries EXCEPT ![c] = 1]
     ELSE pc' = [pc EXCEPT ![c] = "failed"] /\ UNCHANGED tries
  /\ UNCHANGED <<linkVars, relayVars, disk, mem, to, todo, keyed, reply, got,
                 sent, before, boundVars>>

(* The first attempt times out and is repeated; it may be handled later.   *)
MayRetry_Always(c) == TRUE
MayRetry(c) == tries[c] = 1

RetrySend(c) ==
  /\ pc[c] = "posted"
  /\ MayRetry(c)
  /\ Fault
  /\ tries' = [tries EXCEPT ![c] = @ + 1]
  /\ late' = late \union {<<c, Head(todo[c])>>}
  /\ UNCHANGED <<linkVars, receipts, accepted, disk, mem, pc, to, todo, keyed,
                 reply, got, sent, before, restarts>>

(* What a call writes to the state file once it has served target d.       *)
SavedState_AtTheEnd(c, d) ==
  IF Len(todo[c]) = 1 THEN [mem[c] EXCEPT ![d] = @ + 1] ELSE disk
SavedState(c, d) == [mem[c] EXCEPT ![d] = @ + 1]

(* The receipt arrives: the session is advanced and the state saved.       *)
SaveSession(c) ==
  LET d == Head(todo[c]) IN
  /\ pc[c] = "answered"
  /\ mem' = [mem EXCEPT ![c][d] = @ + 1]
  /\ disk' = SavedState(c, d)
  /\ got' = [got EXCEPT ![c] = Append(@, <<d, reply[c]>>)]
  /\ todo' = [todo EXCEPT ![c] = Tail(@)]
  /\ reply' = [reply EXCEPT ![c] = 0]
  /\ pc' = [pc EXCEPT ![c] = "next"]
  /\ UNCHANGED <<linkVars, relayVars, to, keyed, tries, sent, before,
                 boundVars>>

(* The message id of the sent copy: that of the envelope for the           *)
(* recipient's primary device, or the first one if that was no target.     *)
SentId_First(c) == got[c][1][2]
SentId(c) ==
  LET named == {r \in Range(got[c]) : r[1] = primary[to[c]]}
  IN  IF named # {} THEN (CHOOSE r \in named : TRUE)[2] ELSE got[c][1][2]

(* All targets are served: the sent copy is stored.                        *)
StoreSent(c) ==
  /\ pc[c] = "next"
  /\ todo[c] = <<>>
  /\ sent' = [sent EXCEPT ![c] = SentId(c)]
  /\ pc' = [pc EXCEPT ![c] = "done"]
  /\ UNCHANGED <<linkVars, relayVars, disk, mem, to, todo, keyed, tries,
                 reply, got, before, boundVars>>

(* A request fails for good, or the process stops: the call ends here.     *)
Interrupt(c) ==
  /\ pc[c] \in Inside
  /\ Fault
  /\ pc' = [pc EXCEPT ![c] = "failed"]
  /\ late' = IF pc[c] = "posted"
             THEN late \union {<<c, Head(todo[c])>>}
             ELSE late
  /\ UNCHANGED <<linkVars, receipts, accepted, disk, mem, to, todo, keyed,
                 tries, reply, got, sent, before, restarts>>

-----------------------------------------------------------------------------
Next ==
  \/ \E a \in Account, d \in Device :
       Approve(a, d) \/ Register(a, d) \/ PublishBundle(a, d)
  \/ \E c \in Call, a \in Account : Send(c, a)
  \/ \E c \in Call :
       \/ FetchHome(c) \/ FetchAway(c) \/ PostNext(c) \/ RetrySend(c)
       \/ QueueMessage(c) \/ SaveSession(c) \/ StoreSent(c) \/ Interrupt(c)
  \/ \E e \in late : LateQueueMessage(e)
  \/ Restart

Spec == Init /\ [][Next]_vars

-----------------------------------------------------------------------------
(* Properties.                                                             *)

Ids == DOMAIN accepted
Envelopes == Call \X Device

(* Every variable has its type; a posted envelope has a target.            *)
TypeOK ==
  /\ primary \in [Account -> Device]
  /\ DOMAIN roster = Account
  /\ \A a \in Account :
       /\ roster[a] \in Seq(Members(a))
       /\ primary[a] \in Range(roster[a])
  /\ listed \subseteq Device
  /\ \A l \in pending : l[1] \in Device /\ l[2] \subseteq Device
  /\ bundled \subseteq Device
  /\ receipts \subseteq Ids
  /\ late \subseteq Envelopes
  /\ accepted \in Seq(Envelopes)
  /\ disk \in [Device -> Nat]
  /\ mem \in [Call -> [Device -> Nat]]
  /\ pc \in [Call -> Inside \union {"idle", "done", "failed"}]
  /\ to \in [Call -> Account]
  /\ todo \in [Call -> Seq(Device)]
  /\ keyed \in [Call -> SUBSET Device]
  /\ tries \in [Call -> 0..2]
  /\ reply \in [Call -> Ids \union {0}]
  /\ got \in [Call -> Seq(Device \X Ids)]
  /\ sent \in [Call -> Ids \union {0}]
  /\ before \in [Call -> SUBSET Device]
  /\ faults \in 0..MaxFaults
  /\ restarts \in 0..MaxRestarts
  /\ \A c \in Call : pc[c] \in {"posted", "answered"} => todo[c] # <<>>

(* Devices the envelopes of call c reached or may still reach, and those   *)
(* it has a saved receipt for.                                             *)
Reached(c) == {d \in Device : <<c, d>> \in Range(accepted) \union late}
Served(c) == {r[1] : r \in Range(got[c])}

(* A stored sent copy means that every device that could be reached when   *)
(* the call began, the sender's own included, has had an envelope of the   *)
(* message queued, although the rosters were fetched one after the other,  *)
(* devices registered meanwhile, and requests were repeated                *)
(* (client.py:453-592).                                                    *)
SentReachesAll ==
  \A c \in Call : sent[c] # 0 =>
    \A d \in before[c] : <<c, d>> \in Range(accepted)

(* The sent copy is stored under the id of an envelope of its own message, *)
(* the one for the recipient's primary whenever there is one, so that no   *)
(* two entries of the history collide and one of them is ignored           *)
(* (client.py:580-592, 758).                                               *)
SentNamesEnvelope ==
  \A c \in Call : sent[c] # 0 =>
    LET e == accepted[sent[c]]
    IN  /\ e[1] = c
        /\ primary[to[c]] # Sender => e[2] = primary[to[c]]

(* The envelopes of call c at the relay.                                   *)
At(c) == {i \in Ids : accepted[i][1] = c}
AllBefore(b, c) == \A i \in At(b), j \in At(c) : i < j

(* Two completed sends of a device reach all their targets in one order:   *)
(* the envelopes of one all precede those of the other at the relay, late  *)
(* attempts included, because the lock is held for the whole loop          *)
(* (client.py:447-451).                                                    *)
SendsDoNotInterleave ==
  \A b, c \in Call :
    /\ b # c
    /\ sent[b] # 0
    /\ sent[c] # 0
    => AllBefore(b, c) \/ AllBefore(c, b)

(* A call that fails in the middle of its loop leaves at most one session  *)
(* out of step, that of the device it was at: for every other device the   *)
(* state file was advanced once for each envelope the relay accepted, a    *)
(* second copy of one over a restart not counted (client.py:571-578).      *)
FailureTearsOne ==
  /\ \A c \in Call : Cardinality(Reached(c) \ Served(c)) <= 1
  /\ \A d \in Device :
       disk[d] = Cardinality({c \in Call : d \in Served(c)})

-----------------------------------------------------------------------------
(* The inductive invariant behind these, by parts.                         *)

RostersAreDistinct == \A a \in Account : IsInjective(roster[a])

(* One call at a time holds the lock, and has the state file's contents.   *)
HolderIsCurrent ==
  \A c \in Call : pc[c] \in Inside =>
    /\ mem[c] = disk
    /\ \A b \in Call : pc[b] \in Inside => b = c

(* What a call has done and what it still has to do.                       *)
CallsProgress ==
  \A c \in Call :
    /\ IsInjective(todo[c])
    /\ Range(todo[c]) \intersect Served(c) = {}
    /\ pc[c] \in {"idle", "home"} => todo[c] = <<>> /\ got[c] = <<>>
    /\ pc[c] = "away" => Range(todo[c]) \subseteq Home /\ got[c] = <<>>
    /\ pc[c] = "next" => todo[c] # <<>> \/ got[c] # <<>>
    /\ pc[c] = "done" => todo[c] = <<>>
    /\ pc[c] = "done" <=> sent[c] # 0

(* The devices that a completed call must have served are among those it   *)
(* has fetched or will fetch.                                              *)
Targets(c) == before[c] \union ({primary[to[c]]} \ {Sender})

TargetsRemain ==
  \A c \in Call :
    /\ pc[c] = "home" =>
         Targets(c) \subseteq
           (Range(roster["home"]) \union Range(roster[to[c]])) \ {Sender}
    /\ pc[c] = "away" =>
         /\ to[c] = "away"
         /\ Targets(c) \subseteq Range(todo[c]) \union Range(roster["away"])
    /\ pc[c] \in {"next", "posted", "answered", "done"} =>
         Targets(c) \subseteq Range(todo[c]) \union Served(c)

(* Every id a call was given is that of its envelope for the device.       *)
AnswersAreTrue ==
  \A c \in Call :
    /\ \A r \in Range(got[c]) : accepted[r[2]] = <<c, r[1]>>
    /\ pc[c] = "answered" =>
         reply[c] # 0 /\ accepted[reply[c]] = <<c, Head(todo[c])>>

(* The relay has, or may get, envelopes for the devices a call has served  *)
(* and the one it is at.                                                   *)
Current(c) ==
  IF pc[c] \in {"posted", "answered", "failed"} /\ todo[c] # <<>>
  THEN {Head(todo[c])}
  ELSE {}

ReachedIsServed ==
  \A c \in Call : Reached(c) \subseteq Served(c) \union Current(c)

(* The state file counts the calls that have served a device.              *)
ServedBy(d) == {c \in Call : d \in Served(c)}

DiskCounts ==
  \A d \in Device :
    IsFiniteSet(ServedBy(d)) /\ disk[d] = Cardinality(ServedBy(d))

(* A late submission that was answered too is still remembered.            *)
Answered(c, d) ==
  d \in Served(c) \/ (pc[c] = "answered" /\ d = Head(todo[c]))

LateIsKnown ==
  \A e \in late :
    Answered(e[1], e[2]) => \E i \in receipts : KnownReceipt(i, e)

(* Envelopes of completed calls precede those of a call in progress.       *)
CompletedAreFirst ==
  \A b, c \in Call : pc[b] = "done" /\ b # c =>
    /\ pc[c] \in Inside => AllBefore(b, c)
    /\ pc[c] = "done" => AllBefore(b, c) \/ AllBefore(c, b)

(* What a call leaves behind for every device, however it ends             *)
(* (client.py:447-592, server.py:688-786).                                 *)
FanOutInv ==
  /\ TypeOK
  /\ RostersAreDistinct
  /\ HolderIsCurrent
  /\ CallsProgress
  /\ TargetsRemain
  /\ AnswersAreTrue
  /\ ReachedIsServed
  /\ DiskCounts
  /\ LateIsKnown
  /\ CompletedAreFirst
  /\ SentNamesEnvelope
=============================================================================
