---------------------------- MODULE Conversation ----------------------------
(***************************************************************************)
(* Two encrypted devices that write to each other: the sessions of module  *)
(* Ratchet over the relay's queues, journals, acknowledgments and          *)
(* histories of module Delivery.  Here whether an envelope opens depends   *)
(* on the session states, and whether it is delivered again on what the    *)
(* relay and the device still know of it.                                  *)
(*                                                                         *)
(* A send or a receive of a device is under its lock, from restore to the  *)
(* last save, so a device is in one of them at a time, whichever process   *)
(* runs it; Delivery has the processes that wait.  Sends are Ratchet's own *)
(* actions.  A message is named by its position in accepted, which is its  *)
(* id; queues and batches are sets of these, in the order of the ids.      *)
(***************************************************************************)
EXTENDS Naturals, Sequences, FiniteSets, SequencesExt

CONSTANTS
  Alice, Bob,    \* the two devices
  MaxSends,      \* bound: sends, abandoned ones included
  MaxAbandoned,  \* bound: sends that end without a receipt
  MaxRestarts,   \* bound: restarts of the relay
  MaxFaults      \* bound: receives that end early, and abandoned sends

ASSUME ConversationAssumption ==
  /\ Alice # Bob
  /\ {Alice, Bob} \intersect Nat = {}
  /\ MaxSends \in Nat
  /\ MaxAbandoned \in Nat
  /\ MaxRestarts \in Nat
  /\ MaxFaults \in Nat

VARIABLES
  sent, posts, forgotten, accepted, call, draft, outgoing, incoming, active,
  session, abandoned, crossed, cut, restarts,  \* as in Ratchet
  queue,     \* the relay's queue of each device
  lateAcks,  \* acknowledgments whose device no longer waits
  journal,   \* processed_incoming of each device's state file
  stored,    \* the received messages in each device's history
  pc,        \* where each device's call of receive() is
  batch,     \* what is left of the envelopes it polled
  done,      \* the envelopes it has stored
  faults     \* counter for the bound

ratchetVars == <<sent, posts, forgotten, accepted, call, draft, outgoing,
                 incoming, active, session, abandoned, crossed, cut, restarts>>
sendVars    == <<sent, posts, forgotten, accepted, call, draft, outgoing,
                 abandoned, crossed, restarts>>
sessionVars == <<incoming, active, session>>
receiveVars == <<queue, lateAcks, journal, stored, pc, batch, done, faults>>
vars == <<ratchetVars, receiveVars>>

Device == {Alice, Bob}

(* Ratchet sees the envelopes that a device has not decrypted: those in    *)
(* its hands, and the others the relay has for it.                         *)
Known(d) == journal[d] \union stored[d]
InHand(d) == batch[d] \ Known(d)
AtRelay(d) == queue[d] \ (batch[d] \union Known(d))
Inbox == [d \in Device |-> (batch[d] \union queue[d]) \ Known(d)]

Sessions == INSTANCE Ratchet WITH inbox <- Inbox

Init ==
  /\ queue = [d \in Device |-> {}]
  /\ lateAcks = {}
  /\ journal = [d \in Device |-> {}]
  /\ stored = [d \in Device |-> {}]
  /\ pc = [d \in Device |-> "idle"]
  /\ batch = [d \in Device |-> {}]
  /\ done = [d \in Device |-> {}]
  /\ faults = 0
  /\ Sessions!Init

-----------------------------------------------------------------------------
(* Sending, and the relay.                                                 *)

FaultsAreLeft == faults + Cardinality(abandoned) < MaxFaults

Send(d) ==
  /\ pc[d] = "idle"
  /\ UNCHANGED receiveVars
  /\ \/ Sessions!Encrypt(d)
     \/ Sessions!SaveSend(d)
     \/ FaultsAreLeft /\ Sessions!AbandonSend(d)

Enqueue(n) ==
  /\ accepted' = Append(accepted, n)
  /\ queue' = [queue EXCEPT ![sent[n].to] = @ \union {Len(accepted) + 1}]
  /\ UNCHANGED <<sent, call, draft, outgoing, incoming, active, session,
                 abandoned, crossed, cut, restarts, lateAcks, journal, stored,
                 pc, batch, done, faults>>

QueueMessage(n) ==
  /\ n \in posts
  /\ posts' = posts \ {n}
  /\ forgotten' = forgotten
  /\ Enqueue(n)

(* The second submission of an envelope whose receipt a restart forgot is  *)
(* queued again, under an id of its own.                                   *)
QueueAgain(n) ==
  /\ n \in forgotten
  /\ forgotten' = forgotten \ {n}
  /\ posts' = posts
  /\ Enqueue(n)

(* The relay drops the envelopes ids from the queue of device d.           *)
Acknowledged_WholeQueue(d, ids) == queue' = [queue EXCEPT ![d] = {}]
Acknowledged(d, ids) == queue' = [queue EXCEPT ![d] = @ \ ids]

(* Envelopes that leave the system undelivered.                            *)
Lose(ids) ==
  cut' = cut \union {sent[accepted[i]].sid : i \in ids \ Sessions!Repeated}

Restart ==
  /\ restarts < MaxRestarts
  /\ restarts' = restarts + 1
  /\ queue' = [d \in Device |-> {}]
  /\ lateAcks' = {}
  /\ Lose(UNION {AtRelay(d) : d \in Device})
  /\ forgotten' = forgotten \union Sessions!Forgetting
  /\ UNCHANGED <<sent, posts, accepted, call, draft, outgoing, incoming,
                 active, session, abandoned, crossed, journal, stored, pc,
                 batch, done, faults>>

-----------------------------------------------------------------------------
(* receive().                                                              *)

Goto(d, step) == pc' = [pc EXCEPT ![d] = step]

(* The call ends; what only it had in its hands is lost.                   *)
EndReceive(d) ==
  /\ Goto(d, "idle")
  /\ batch' = [batch EXCEPT ![d] = {}]
  /\ done' = [done EXCEPT ![d] = {}]
  /\ Lose(InHand(d) \ queue[d])

LockIsFree_WhileSending(d) == pc[d] = "idle"
LockIsFree(d) == pc[d] = "idle" /\ call[d] = 0

AfterRestore_NoFlush(d) == "poll"
AfterRestore(d) == IF journal[d] = {} THEN "poll" ELSE "flush"

(* The lock is taken and the state file read.                              *)
Receive(d) ==
  /\ LockIsFree(d)
  /\ Goto(d, AfterRestore(d))
  /\ UNCHANGED <<ratchetVars, queue, lateAcks, journal, stored, batch, done,
                 faults>>

(* _flush_processed_incoming stores what the journal holds.                *)
FlushStore(d) ==
  /\ pc[d] = "flush"
  /\ Goto(d, "flushAck")
  /\ stored' = [stored EXCEPT ![d] = @ \union journal[d]]
  /\ UNCHANGED <<ratchetVars, queue, lateAcks, journal, batch, done, faults>>

(* The ids an acknowledgment names: the whole journal, or those this call  *)
(* has stored.                                                             *)
Asking(d) == pc[d] \in {"flushAck", "ack"}
AckIds(d) == IF pc[d] \in {"flushAck", "flushEnd"} THEN journal[d] ELSE done[d]

(* The acknowledgment is handled and answered.                             *)
AcknowledgeMessages(d) ==
  /\ Asking(d)
  /\ Acknowledged(d, AckIds(d))
  /\ Goto(d, IF pc[d] = "ack" THEN "ackEnd" ELSE "flushEnd")
  /\ UNCHANGED <<ratchetVars, lateAcks, journal, stored, batch, done, faults>>

LateAcknowledge(a) ==
  /\ a \in lateAcks
  /\ lateAcks' = lateAcks \ {a}
  /\ Acknowledged(a.device, a.ids)
  /\ UNCHANGED <<ratchetVars, journal, stored, pc, batch, done, faults>>

DropJournal(d) ==
  journal' = [journal EXCEPT ![d] = @ \ AckIds(d)]

FlushEnd(d) ==
  /\ pc[d] = "flushEnd"
  /\ Goto(d, "poll")
  /\ DropJournal(d)
  /\ UNCHANGED <<ratchetVars, queue, lateAcks, stored, batch, done, faults>>

Poll(d) ==
  /\ pc[d] = "poll"
  /\ batch' = [batch EXCEPT ![d] = queue[d]]
  /\ Goto(d, IF queue[d] = {} THEN "idle" ELSE "batch")
  /\ UNCHANGED <<ratchetVars, queue, lateAcks, journal, stored, done, faults>>

(* The call comes to envelope i next.                                      *)
IsNext(d, i) == i \in batch[d] /\ \A j \in batch[d] : i <= j

(* _decrypt_envelope_locked: the session is advanced, the plaintext put in *)
(* the journal, and both saved at once.  The journal is never asked: this  *)
(* call's own flush has emptied it before the poll, under one lock.        *)
DecryptEnvelope(d, i) ==
  LET e == sent[accepted[i]] IN
  /\ pc[d] = "batch"
  /\ IsNext(d, i)
  /\ Sessions!Opens(d, e)
  /\ Sessions!SetSession(d, e.sid,
       Sessions!AfterReceive(Sessions!ReceivingState(d, e)))
  /\ incoming' = [incoming EXCEPT ![d] =
                    IF Sessions!Holds(d, e.sid) THEN @ ELSE Append(@, e.sid)]
  /\ active' = [active EXCEPT ![d] = e.sid]
  /\ journal' = [journal EXCEPT ![d] = @ \union {i}]
  /\ Goto(d, "store")
  /\ UNCHANGED <<sendVars, cut, queue, lateAcks, stored, batch, done, faults>>

(* An envelope that does not open, as a second copy, raises: under its own *)
(* id it is in no journal.                                                 *)
RejectEnvelope(d, i) ==
  /\ pc[d] = "batch"
  /\ IsNext(d, i)
  /\ ~Sessions!Opens(d, sent[accepted[i]])
  /\ EndReceive(d)
  /\ UNCHANGED <<sendVars, sessionVars, queue, lateAcks, journal, stored,
                 faults>>

StoreMessage(d, i) ==
  /\ pc[d] = "store"
  /\ IsNext(d, i)
  /\ stored' = [stored EXCEPT ![d] = @ \union {i}]
  /\ done' = [done EXCEPT ![d] = @ \union {i}]
  /\ batch' = [batch EXCEPT ![d] = @ \ {i}]
  /\ Goto(d, IF batch[d] = {i} THEN "ack" ELSE "batch")
  /\ UNCHANGED <<ratchetVars, queue, lateAcks, journal, faults>>

AckEnd(d) ==
  /\ pc[d] = "ackEnd"
  /\ DropJournal(d)
  /\ EndReceive(d)
  /\ UNCHANGED <<sendVars, sessionVars, queue, lateAcks, stored, faults>>

(* A request fails, or the process stops.                                  *)
Interrupt(d) ==
  /\ pc[d] # "idle"
  /\ FaultsAreLeft
  /\ faults' = faults + 1
  /\ lateAcks' = IF Asking(d)
                 THEN lateAcks \union {[device |-> d, ids |-> AckIds(d)]}
                 ELSE lateAcks
  /\ EndReceive(d)
  /\ UNCHANGED <<sendVars, sessionVars, queue, journal, stored>>

-----------------------------------------------------------------------------
Next ==
  \/ \E d \in Device :
       \/ Send(d) \/ Receive(d) \/ FlushStore(d) \/ AcknowledgeMessages(d)
       \/ FlushEnd(d) \/ Poll(d) \/ AckEnd(d) \/ Interrupt(d)
       \/ \E i \in batch[d] :
            DecryptEnvelope(d, i) \/ RejectEnvelope(d, i) \/ StoreMessage(d, i)
  \/ \E n \in posts : QueueMessage(n)
  \/ \E n \in forgotten : QueueAgain(n)
  \/ \E a \in lateAcks : LateAcknowledge(a)
  \/ Restart

Spec == Init /\ [][Next]_vars

-----------------------------------------------------------------------------
(* Properties.                                                             *)

Ids == DOMAIN accepted
Steps == {"idle", "flush", "flushAck", "flushEnd", "poll", "batch", "store",
          "ack", "ackEnd"}

ReceiveTypes ==
  /\ queue \in [Device -> SUBSET Ids]
  /\ \A a \in lateAcks : a.device \in Device /\ a.ids \subseteq Ids
  /\ journal \in [Device -> SUBSET Ids]
  /\ stored \in [Device -> SUBSET Ids]
  /\ pc \in [Device -> Steps]
  /\ batch \in [Device -> SUBSET Ids]
  /\ done \in [Device -> SUBSET Ids]
  /\ faults \in 0..MaxFaults
  /\ \A d \in Device : call[d] # 0 => pc[d] = "idle"

(* Every variable has its type, and a device that sends is not receiving.  *)
TypeOK == Sessions!TypeOK /\ ReceiveTypes

(* What receive() comes to next opens exactly when it was not queued       *)
(* before, although it may have been delivered before, decrypted with a    *)
(* key that is gone and interrupted on its way to the history, and         *)
(* although sends of the device ratchet the session in between: no         *)
(* interleaving of the two directions, of interruptions, late              *)
(* acknowledgments and redelivery wedges a queue, and a second copy,       *)
(* submitted again over a restart, always does.  The exceptions are the    *)
(* sessions that crossed, were torn or were cut, as in Ratchet's HeadOpens *)
(* (client.py:400-445, 571, 594-700, 793-799, server.py:68).               *)
NextOpens ==
  \A d \in Device, i \in Ids :
    LET e == sent[accepted[i]] IN
    /\ pc[d] = "batch"
    /\ IsNext(d, i)
    /\ e.sid \notin crossed \union Sessions!Torn \union cut
    => (Sessions!Opens(d, e) <=> i \notin Sessions!Repeated)

(* Ratchet, in which a receive is one step on a queue, is implemented:     *)
(* every session advances exactly once for each message, in the order the  *)
(* relay accepted them, and interruptions, repeated polls, late            *)
(* acknowledgments and redelivery are invisible to it                      *)
(* (client.py:594-601, 684-700, 400-445).                                  *)
ReceivesAtomically == Sessions!Spec

-----------------------------------------------------------------------------
(* The inductive invariant behind these, by parts, for each device d.      *)

(* What is in the history and still queued is in the journal, so that the  *)
(* next receive acknowledges it before it polls.                           *)
StoredIsJournaled(d) == queue[d] \intersect stored[d] \subseteq journal[d]

(* Only what is in the history is acknowledged, however late.              *)
AcksAreStored(d) ==
  /\ done[d] \subseteq stored[d]
  /\ \A a \in lateAcks : a.device = d => a.ids \subseteq stored[d]

(* What the call has in its hands, has stored and has still to acknowledge *)
(* at each of its steps.                                                   *)
StepsAgree(d) ==
  /\ pc[d] \notin {"batch", "store"} => batch[d] = {}
  /\ pc[d] \in {"idle", "flush", "flushAck", "flushEnd", "poll"} => done[d] = {}
  /\ pc[d] \in {"flushAck", "flushEnd"} => journal[d] \subseteq stored[d]
  /\ pc[d] = "flushEnd" => journal[d] \intersect queue[d] = {}
  /\ pc[d] = "poll" => journal[d] = {}
  /\ pc[d] \in {"batch", "ack", "ackEnd"} => journal[d] = done[d]
  /\ pc[d] = "ackEnd" => done[d] \intersect queue[d] = {}
  /\ pc[d] = "batch" => InHand(d) = batch[d]
  /\ pc[d] = "store" => \A i \in batch[d] : IsNext(d, i) =>
       journal[d] = done[d] \union {i} /\ InHand(d) = batch[d] \ {i}

(* What the device has in its hands comes before what the relay has, and   *)
(* the relay still has all of it, or lost it in a restart.                 *)
HandIsAhead(d) == \A i \in batch[d], j \in AtRelay(d) : i < j
HandIsWhole(d) ==
  \/ InHand(d) \subseteq queue[d]
  \/ restarts > 0 /\ InHand(d) \intersect queue[d] = {}

DeviceInv(d) ==
  /\ StoredIsJournaled(d)
  /\ AcksAreStored(d)
  /\ StepsAgree(d)
  /\ HandIsAhead(d)
  /\ HandIsWhole(d)

(* What the relay, the journal and the history know of an envelope, at     *)
(* each step of a receive (client.py:400-445, 594-700,                     *)
(* server.py:788-849).                                                     *)
ReceiveInv == ReceiveTypes /\ \A d \in Device : DeviceInv(d)
=============================================================================
