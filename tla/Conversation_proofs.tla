------------------------ MODULE Conversation_proofs -------------------------
(***************************************************************************)
(* Conversation implements Ratchet, step by step: a receive that polls,    *)
(* decrypts, stores and acknowledges, and may end anywhere, is to the      *)
(* sessions one step per envelope.  What the theorems of Ratchet say then  *)
(* holds of the receive loop: the envelope it comes to next opens, unless  *)
(* it is a second copy.                                                    *)
(* The proof rests on ReceiveInv, which relates the queue, the batch, the  *)
(* journal and the history of a device at each step of the call.           *)
(***************************************************************************)
EXTENDS Conversation, WellFoundedInduction, FiniteSetTheorems, TLAPS

(* The theorems about Ratchet, of the queues that Sessions sees.           *)
R == INSTANCE Ratchet_proofs WITH inbox <- Inbox

-----------------------------------------------------------------------------
(* Types.                                                                  *)

(* What the relay's variables are, by Ratchet's types.                     *)
LEMMA RelayFacts ==
  ASSUME Sessions!TypeOK
  PROVE  /\ accepted \in Seq(DOMAIN sent) /\ Len(accepted) \in Nat
         /\ Ids = 1..Len(accepted)
         /\ \A n \in posts \union forgotten :
              n \in DOMAIN sent /\ sent[n].to \in Device
         /\ call \in [Device -> DOMAIN sent \union {0}]
<1>1. /\ accepted \in Seq(DOMAIN sent)
      /\ posts \subseteq DOMAIN sent /\ forgotten \subseteq DOMAIN sent
      /\ sent \in Seq(Sessions!Envelopes)
      /\ call \in [Device -> DOMAIN sent \union {0}]
  BY DEF Sessions!TypeOK, Sessions!Sends, Device, Sessions!Device
<1>2. \A n \in DOMAIN sent : sent[n] \in Sessions!Envelopes
  BY <1>1
<1>3. \A n \in DOMAIN sent : sent[n].to \in Device
  BY <1>2 DEF Sessions!Envelopes, Device, Sessions!Device
<1>4. QED
  BY <1>1, <1>3 DEF Ids

(* The abandoned sends can be counted.                                     *)
LEMMA AbandonedFacts ==
  ASSUME Sessions!TypeOK
  PROVE  Cardinality(abandoned) \in Nat
<1>1. sent \in Seq(Sessions!Envelopes) /\ abandoned \subseteq DOMAIN sent
  BY DEF Sessions!TypeOK, Sessions!Sends
<1>2. abandoned \subseteq 1..Len(sent) /\ Len(sent) \in Nat
  BY <1>1
<1>3. IsFiniteSet(abandoned)
  <2>1. IsFiniteSet(1..Len(sent))
    BY <1>2, FS_Interval
  <2>2. QED
    BY <1>2, <2>1, FS_Subset
<1>4. QED
  BY <1>3, FS_CardinalityType

(* A first or a second copy reaches the relay.                             *)
Queues(n) == QueueMessage(n) \/ QueueAgain(n)

(* The relay's positions only grow, by one at a time.                      *)
LEMMA QueueFacts ==
  ASSUME Sessions!TypeOK, NEW n, Queues(n)
  PROVE  /\ sent[n].to \in Device
         /\ Len(accepted) + 1 \notin Ids
         /\ Ids' = Ids \union {Len(accepted) + 1}
         /\ \A i \in Ids : i < Len(accepted) + 1
<1>1. accepted' = Append(accepted, n) /\ n \in DOMAIN sent
  BY RelayFacts DEF Queues, QueueMessage, QueueAgain, Enqueue
<1>2. DOMAIN accepted' = 1..(Len(accepted) + 1)
  BY <1>1, RelayFacts
<1>3. sent[n].to \in Device
  BY RelayFacts DEF Queues, QueueMessage, QueueAgain
<1>4. QED
  BY <1>2, <1>3, RelayFacts DEF Ids

(* The three steps of a send change neither the relay nor a receive.       *)
LEMMA SendFacts ==
  ASSUME Sessions!TypeOK, NEW d \in Device, Send(d)
  PROVE  /\ UNCHANGED <<accepted, restarts, receiveVars>>
         /\ pc[d] = "idle"
         /\ \A e \in Device : e # d => call'[e] = call[e]
<1>. USE DEF Send, receiveVars, Device, Sessions!Device
<1>1. CASE Sessions!Encrypt(d)
  BY <1>1, RelayFacts DEF Sessions!Encrypt
<1>2. CASE Sessions!SaveSend(d)
  BY <1>2, RelayFacts
     DEF Sessions!SaveSend, Sessions!EndCall, Sessions!historyVars
<1>3. CASE Sessions!AbandonSend(d)
  BY <1>3, RelayFacts
     DEF Sessions!AbandonSend, Sessions!EndCall, Sessions!relayVars
<1>4. QED
  BY <1>1, <1>2, <1>3

(* Every step keeps the types.                                             *)
LEMMA NextTypes ==
  Sessions!TypeOK /\ ReceiveTypes /\ [Next]_vars => ReceiveTypes'
<1>. SUFFICES ASSUME Sessions!TypeOK, ReceiveTypes, [Next]_vars
              PROVE  ReceiveTypes'
  OBVIOUS
<1>. USE DEF ReceiveTypes, Steps, ratchetVars, sendVars, sessionVars
<1>1. CASE UNCHANGED vars
  BY <1>1 DEF vars, receiveVars, Ids
<1>2. ASSUME NEW d \in Device, Send(d) PROVE ReceiveTypes'
  BY <1>2, SendFacts DEF receiveVars, Ids
<1>3. ASSUME NEW d \in Device, Receive(d) PROVE ReceiveTypes'
  BY <1>3 DEF Receive, LockIsFree, AfterRestore, Goto, Ids
<1>4. ASSUME NEW d \in Device, FlushStore(d) PROVE ReceiveTypes'
  BY <1>4 DEF FlushStore, Goto, Ids
<1>5. ASSUME NEW d \in Device, AcknowledgeMessages(d) PROVE ReceiveTypes'
  BY <1>5 DEF AcknowledgeMessages, Asking, Acknowledged, Goto, Ids
<1>6. ASSUME NEW d \in Device, FlushEnd(d) PROVE ReceiveTypes'
  BY <1>6 DEF FlushEnd, DropJournal, Goto, Ids
<1>7. ASSUME NEW d \in Device, Poll(d) PROVE ReceiveTypes'
  BY <1>7 DEF Poll, Goto, Ids
<1>8. ASSUME NEW d \in Device, AckEnd(d) PROVE ReceiveTypes'
  BY <1>8 DEF AckEnd, DropJournal, EndReceive, Goto, Ids
<1>9. ASSUME NEW d \in Device, Interrupt(d) PROVE ReceiveTypes'
  <2>1. AckIds(d) \subseteq Ids
    BY DEF AckIds
  <2>2. faults + 1 \in 0..MaxFaults
    BY <1>9, AbandonedFacts, ConversationAssumption
       DEF Interrupt, FaultsAreLeft, ConversationAssumption
  <2>3. QED
    BY <1>9, <2>1, <2>2 DEF Interrupt, EndReceive, Goto, Ids
<1>10. ASSUME NEW d \in Device, NEW i \in batch[d],
              \/ DecryptEnvelope(d, i) \/ RejectEnvelope(d, i)
              \/ StoreMessage(d, i)
       PROVE  ReceiveTypes'
  <2>1. i \in Ids
    OBVIOUS
  <2>2. CASE DecryptEnvelope(d, i)
    BY <2>1, <2>2 DEF DecryptEnvelope, Goto, Ids
  <2>3. CASE RejectEnvelope(d, i)
    BY <2>3 DEF RejectEnvelope, EndReceive, Goto, Ids
  <2>4. CASE StoreMessage(d, i)
    BY <2>1, <2>4 DEF StoreMessage, Goto, Ids
  <2>5. QED
    BY <1>10, <2>2, <2>3, <2>4
<1>11. ASSUME NEW n, Queues(n) PROVE ReceiveTypes'
  <2>1. Ids \subseteq Ids' /\ Len(accepted) + 1 \in Ids' /\ sent[n].to \in Device
    BY <1>11, QueueFacts
  <2>2. queue' \in [Device -> SUBSET Ids']
    BY <1>11, <2>1 DEF Queues, QueueMessage, QueueAgain, Enqueue
  <2>3. QED
    BY <1>11, <2>1, <2>2 DEF Queues, QueueMessage, QueueAgain, Enqueue
<1>12. ASSUME NEW a \in lateAcks, LateAcknowledge(a) PROVE ReceiveTypes'
  BY <1>12 DEF LateAcknowledge, Acknowledged, Ids
<1>13. CASE Restart
  BY <1>13 DEF Restart, Ids
<1>14. QED
  BY <1>1, <1>2, <1>3, <1>4, <1>5, <1>6, <1>7, <1>8, <1>9, <1>10, <1>11, <1>12,
     <1>13 DEF Next, Queues

-----------------------------------------------------------------------------
(* The invariant of one device.                                            *)

(* A step of which device e sees nothing.                                  *)
Rests(e) ==
  /\ queue'[e] = queue[e] /\ journal'[e] = journal[e] /\ stored'[e] = stored[e]
  /\ pc'[e] = pc[e] /\ batch'[e] = batch[e] /\ done'[e] = done[e]
  /\ \A a \in lateAcks' : a.device = e => a \in lateAcks
  /\ restarts > 0 => restarts' > 0

LEMMA RestsKeeps ==
  ASSUME NEW e \in Device, DeviceInv(e), Rests(e)
  PROVE  DeviceInv(e)'
<1>. USE DEF DeviceInv, Rests
<1>1. StoredIsJournaled(e)' /\ AcksAreStored(e)'
  BY DEF StoredIsJournaled, AcksAreStored
<1>2. Known(e)' = Known(e)
  BY DEF Known
<1>3. InHand(e)' = InHand(e) /\ AtRelay(e)' = AtRelay(e)
  BY <1>2 DEF InHand, AtRelay
<1>4. \A i : IsNext(e, i)' <=> IsNext(e, i)
  BY DEF IsNext
<1>5. StepsAgree(e)'
  BY <1>3, <1>4 DEF StepsAgree
<1>6. HandIsAhead(e)' /\ HandIsWhole(e)'
  BY <1>3 DEF HandIsAhead, HandIsWhole
<1>7. QED
  BY <1>1, <1>5, <1>6

(* What a step of d's call leaves of the other device.                     *)
Only(d) == \A e \in Device : e # d => Rests(e)

(* A call that has nothing in its hands is neither ahead nor whole.        *)
LEMMA EmptyHand ==
  ASSUME NEW d, batch'[d] = {}
  PROVE  HandIsAhead(d)' /\ HandIsWhole(d)' /\ InHand(d)' = {}
BY DEF HandIsAhead, HandIsWhole, InHand

(* The start of a receive, and the flush of what an earlier one left.      *)
LEMMA FlushKeeps ==
  ASSUME ReceiveInv, NEW d \in Device,
         \/ Receive(d) \/ FlushStore(d) \/ FlushEnd(d)
         \/ (AcknowledgeMessages(d) /\ pc[d] = "flushAck")
  PROVE  DeviceInv(d)' /\ Only(d)
<1>. USE DEF ReceiveInv, ReceiveTypes, ratchetVars
<1>1. Only(d)
  BY DEF Only, Rests, Receive, FlushStore, FlushEnd, AcknowledgeMessages,
         Goto, DropJournal, Acknowledged
<1>2. DeviceInv(d)
  OBVIOUS
<1>. USE <1>2 DEF DeviceInv
<1>3. batch[d] = {} /\ done[d] = {} /\ batch'[d] = {} /\ done'[d] = {}
  BY DEF StepsAgree, Receive, LockIsFree, FlushStore, FlushEnd,
         AcknowledgeMessages
<1>4. HandIsAhead(d)' /\ HandIsWhole(d)'
  BY <1>3, EmptyHand
<1>. USE DEF StoredIsJournaled, AcksAreStored, StepsAgree, Goto
<1>5. CASE Receive(d)
  <2>1. pc'[d] = IF journal[d] = {} THEN "poll" ELSE "flush"
    BY <1>5 DEF Receive, AfterRestore
  <2>2. QED
    BY <1>3, <1>4, <1>5, <2>1, <1>1 DEF Receive
<1>6. CASE FlushStore(d)
  <2>1. pc'[d] = "flushAck" /\ stored'[d] = stored[d] \union journal[d]
    BY <1>6 DEF FlushStore
  <2>2. QED
    BY <1>1, <1>3, <1>4, <1>6, <2>1 DEF FlushStore
<1>7. CASE FlushEnd(d)
  <2>1. pc'[d] = "poll" /\ journal'[d] = {}
    BY <1>7 DEF FlushEnd, DropJournal, AckIds
  <2>2. QED
    BY <1>1, <1>3, <1>4, <1>7, <2>1 DEF FlushEnd
<1>8. CASE AcknowledgeMessages(d) /\ pc[d] = "flushAck"
  <2>1. pc'[d] = "flushEnd" /\ queue'[d] = queue[d] \ journal[d]
    BY <1>8 DEF AcknowledgeMessages, Acknowledged, AckIds
  <2>2. QED
    BY <1>1, <1>3, <1>4, <1>8, <2>1 DEF AcknowledgeMessages
<1>9. QED
  BY <1>5, <1>6, <1>7, <1>8

(* The poll: the journal is empty, so nothing polled is known.             *)
LEMMA PollKeeps ==
  ASSUME ReceiveInv, NEW d \in Device, Poll(d)
  PROVE  DeviceInv(d)' /\ Only(d)
<1>. USE DEF ReceiveInv, ReceiveTypes, ratchetVars, Poll, Goto
<1>1. Only(d)
  BY DEF Only, Rests
<1>2. /\ journal[d] = {} /\ done[d] = {} /\ queue[d] \intersect stored[d] = {}
      /\ done[d] \subseteq stored[d]
      /\ \A a \in lateAcks : a.device = d => a.ids \subseteq stored[d]
  BY DEF DeviceInv, StepsAgree, StoredIsJournaled, AcksAreStored
<1>3. /\ batch'[d] = queue[d] /\ journal'[d] = {} /\ done'[d] = {}
      /\ queue'[d] = queue[d] /\ stored'[d] = stored[d]
      /\ pc'[d] = IF queue[d] = {} THEN "idle" ELSE "batch"
      /\ lateAcks' = lateAcks
  BY <1>2
<1>4. InHand(d)' = queue[d] /\ AtRelay(d)' = {}
  BY <1>2, <1>3 DEF InHand, AtRelay, Known
<1>5. StepsAgree(d)'
  BY <1>3, <1>4 DEF StepsAgree
<1>6. HandIsAhead(d)' /\ HandIsWhole(d)'
  BY <1>3, <1>4 DEF HandIsAhead, HandIsWhole
<1>7. StoredIsJournaled(d)' /\ AcksAreStored(d)'
  BY <1>2, <1>3 DEF StoredIsJournaled, AcksAreStored
<1>8. QED
  BY <1>1, <1>5, <1>6, <1>7 DEF DeviceInv

(* The envelope that comes next is in the hands of the device, and the     *)
(* first of its undelivered ones.                                          *)
LEMMA NextIsHead ==
  ASSUME Sessions!TypeOK, ReceiveInv, NEW d \in Device, NEW i \in batch[d],
         pc[d] = "batch", IsNext(d, i)
  PROVE  i \in InHand(d) /\ i \notin Known(d) /\ Sessions!IsHead(d, i)
<1>1. i \in InHand(d)
  BY DEF ReceiveInv, DeviceInv, StepsAgree
<1>2. Ids \subseteq Nat
  BY RelayFacts
<1>3. ASSUME NEW j \in Inbox[d]
      PROVE  i <= j
  <2>1. j \in batch[d] \/ j \in AtRelay(d)
    BY DEF Inbox, AtRelay
  <2>2. CASE j \in batch[d]
    BY <2>2 DEF IsNext
  <2>3. CASE j \in AtRelay(d)
    <3>1. i < j
      BY <2>3 DEF ReceiveInv, DeviceInv, HandIsAhead
    <3>2. i \in Nat /\ j \in Nat
      BY <1>2, <2>3 DEF ReceiveInv, ReceiveTypes, AtRelay
    <3>3. QED
      BY <3>1, <3>2
  <2>4. QED
    BY <2>1, <2>2, <2>3
<1>4. i \in Inbox[d]
  BY <1>1 DEF Inbox, InHand
<1>5. QED
  BY <1>1, <1>3, <1>4 DEF Sessions!IsHead, InHand

(* A decryption: the envelope goes into the journal.                       *)
LEMMA DecryptKeeps ==
  ASSUME Sessions!TypeOK, ReceiveInv, NEW d \in Device, NEW i \in batch[d],
         DecryptEnvelope(d, i)
  PROVE  DeviceInv(d)' /\ Only(d)
<1>. USE DEF ReceiveInv, ReceiveTypes, sendVars, DecryptEnvelope, Goto
<1>1. Only(d)
  BY DEF Only, Rests
<1>2. /\ journal[d] = done[d] /\ InHand(d) = batch[d] /\ i \in InHand(d)
      /\ i \notin Known(d) /\ IsNext(d, i)
  BY NextIsHead DEF DeviceInv, StepsAgree
<1>3. /\ batch'[d] = batch[d] /\ done'[d] = done[d] /\ queue'[d] = queue[d]
      /\ journal'[d] = journal[d] \union {i} /\ stored'[d] = stored[d]
      /\ pc'[d] = "store" /\ lateAcks' = lateAcks /\ restarts' = restarts
  OBVIOUS
<1>4. InHand(d)' = InHand(d) \ {i} /\ AtRelay(d)' = AtRelay(d)
  BY <1>2, <1>3 DEF InHand, AtRelay, Known
<1>5. StepsAgree(d)'
  <2>1. ASSUME NEW j \in batch[d], IsNext(d, j)
        PROVE  j = i
    <3>1. i \in Nat /\ j \in Nat /\ i <= j /\ j <= i
      BY <1>2, <2>1, RelayFacts DEF IsNext
    <3>2. QED
      BY <3>1
  <2>2. \A j : IsNext(d, j)' <=> IsNext(d, j)
    BY <1>3 DEF IsNext
  <2>3. QED
    BY <1>2, <1>3, <1>4, <2>1, <2>2 DEF StepsAgree
<1>6. HandIsAhead(d)' /\ HandIsWhole(d)'
  BY <1>3, <1>4 DEF HandIsAhead, HandIsWhole, DeviceInv
<1>7. StoredIsJournaled(d)' /\ AcksAreStored(d)'
  BY <1>3 DEF StoredIsJournaled, AcksAreStored, DeviceInv
<1>8. QED
  BY <1>1, <1>5, <1>6, <1>7 DEF DeviceInv

(* Storing: the envelope leaves the batch.                                 *)
LEMMA StoreKeeps ==
  ASSUME ReceiveInv, NEW d \in Device, NEW i \in batch[d], StoreMessage(d, i)
  PROVE  DeviceInv(d)' /\ Only(d)
<1>. USE DEF ReceiveInv, ReceiveTypes, ratchetVars, StoreMessage, Goto
<1>1. Only(d)
  BY DEF Only, Rests
<1>2. journal[d] = done[d] \union {i} /\ InHand(d) = batch[d] \ {i}
  BY DEF DeviceInv, StepsAgree
<1>3. /\ batch'[d] = batch[d] \ {i} /\ done'[d] = done[d] \union {i}
      /\ queue'[d] = queue[d] /\ journal'[d] = journal[d]
      /\ stored'[d] = stored[d] \union {i}
      /\ pc'[d] = IF batch[d] = {i} THEN "ack" ELSE "batch"
      /\ lateAcks' = lateAcks /\ restarts' = restarts
  OBVIOUS
<1>4. Known(d)' = Known(d)
  BY <1>2, <1>3 DEF Known
<1>5. InHand(d)' = InHand(d) /\ AtRelay(d)' = AtRelay(d)
  BY <1>2, <1>3, <1>4 DEF InHand, AtRelay, Known
<1>6. StepsAgree(d)'
  BY <1>2, <1>3, <1>5 DEF StepsAgree
<1>7. HandIsAhead(d)' /\ HandIsWhole(d)'
  BY <1>3, <1>5 DEF HandIsAhead, HandIsWhole, DeviceInv
<1>8. StoredIsJournaled(d)' /\ AcksAreStored(d)'
  BY <1>2, <1>3 DEF StoredIsJournaled, AcksAreStored, DeviceInv
<1>9. QED
  BY <1>1, <1>6, <1>7, <1>8 DEF DeviceInv

(* The acknowledgment of the batch, and the end of the call.               *)
LEMMA AckKeeps ==
  ASSUME ReceiveInv, NEW d \in Device,
         AcknowledgeMessages(d), pc[d] = "ack"
  PROVE  DeviceInv(d)' /\ Only(d)
<1>. USE DEF ReceiveInv, ReceiveTypes, ratchetVars, AcknowledgeMessages, Goto,
             Acknowledged, AckIds
<1>1. Only(d)
  BY DEF Only, Rests
<1>2. batch[d] = {} /\ journal[d] = done[d]
  BY DEF DeviceInv, StepsAgree
<1>3. /\ batch'[d] = {} /\ done'[d] = done[d] /\ queue'[d] = queue[d] \ done[d]
      /\ journal'[d] = done[d] /\ stored'[d] = stored[d]
      /\ pc'[d] = "ackEnd" /\ lateAcks' = lateAcks
  BY <1>2
<1>4. HandIsAhead(d)' /\ HandIsWhole(d)'
  BY <1>3, EmptyHand
<1>5. StoredIsJournaled(d)' /\ AcksAreStored(d)' /\ StepsAgree(d)'
  BY <1>2, <1>3 DEF StoredIsJournaled, AcksAreStored, StepsAgree, DeviceInv
<1>6. QED
  BY <1>1, <1>4, <1>5 DEF DeviceInv

LEMMA EndKeeps ==
  ASSUME ReceiveInv, NEW d \in Device,
         \/ AckEnd(d) \/ Interrupt(d) \/ \E i \in batch[d] : RejectEnvelope(d, i)
  PROVE  DeviceInv(d)' /\ Only(d)
<1>. USE DEF ReceiveInv, ReceiveTypes, sendVars, EndReceive, Goto
<1>0. AckIds(d) \subseteq Ids
  BY DEF AckIds
<1>1. Only(d)
  BY DEF Only, Rests, AckEnd, Interrupt, RejectEnvelope, DropJournal
<1>2. DeviceInv(d)
  OBVIOUS
<1>3. /\ batch'[d] = {} /\ done'[d] = {} /\ queue'[d] = queue[d]
      /\ stored'[d] = stored[d] /\ pc'[d] = "idle"
  BY DEF AckEnd, Interrupt, RejectEnvelope
<1>4. HandIsAhead(d)' /\ HandIsWhole(d)' /\ StepsAgree(d)'
  BY <1>3, EmptyHand DEF StepsAgree
<1>5. StoredIsJournaled(d)'
  <2>1. CASE AckEnd(d)
    <3>1. /\ journal'[d] = journal[d] \ done[d] /\ journal[d] = done[d]
          /\ done[d] \intersect queue[d] = {}
      BY <1>2, <2>1 DEF AckEnd, DropJournal, AckIds, DeviceInv, StepsAgree
    <3>2. QED
      BY <1>2, <1>3, <3>1 DEF StoredIsJournaled, DeviceInv
  <2>2. CASE journal' = journal
    BY <1>2, <1>3, <2>2 DEF StoredIsJournaled, DeviceInv
  <2>3. QED
    BY <2>1, <2>2 DEF Interrupt, RejectEnvelope
<1>6. AcksAreStored(d)'
  <2>1. \A a \in lateAcks' : a \in lateAcks \/ (Asking(d) /\ a.ids = AckIds(d))
    BY DEF AckEnd, Interrupt, RejectEnvelope
  <2>2. Asking(d) => AckIds(d) \subseteq stored[d]
    BY <1>2 DEF Asking, AckIds, DeviceInv, StepsAgree, AcksAreStored
  <2>3. QED
    BY <1>2, <1>3, <2>1, <2>2 DEF AcksAreStored, DeviceInv
<1>7. QED
  BY <1>1, <1>4, <1>5, <1>6 DEF DeviceInv

(* The relay's own steps.                                                  *)
LEMMA QueueKeeps ==
  ASSUME Sessions!TypeOK, ReceiveInv, NEW n, Queues(n)
  PROVE  \A d \in Device : DeviceInv(d)'
<1>. USE DEF ReceiveInv, ReceiveTypes, Queues, QueueMessage, QueueAgain, Enqueue
<1>1. ASSUME NEW d \in Device, d # sent[n].to
      PROVE  Rests(d)
  BY <1>1, QueueFacts DEF Rests
<1>2. ASSUME NEW d \in Device, d = sent[n].to
      PROVE  DeviceInv(d)'
  <2>. PICK k : k = Len(accepted) + 1
    OBVIOUS
  <2>1. /\ queue'[d] = queue[d] \union {k}
        /\ journal'[d] = journal[d] /\ stored'[d] = stored[d]
        /\ pc'[d] = pc[d] /\ batch'[d] = batch[d] /\ done'[d] = done[d]
        /\ lateAcks' = lateAcks /\ restarts' = restarts
    BY <1>2
  <2>2. k \notin Ids /\ \A i \in Ids : i < k
    BY QueueFacts
  <2>3. /\ batch[d] \subseteq Ids /\ journal[d] \subseteq Ids
        /\ stored[d] \subseteq Ids /\ done[d] \subseteq Ids
    OBVIOUS
  <2>4. InHand(d)' = InHand(d) /\ AtRelay(d)' = AtRelay(d) \union {k}
    BY <2>1, <2>2, <2>3 DEF InHand, AtRelay, Known
  <2>5. DeviceInv(d)
    OBVIOUS
  <2>6. HandIsAhead(d)'
    BY <2>1, <2>2, <2>3, <2>4, <2>5 DEF HandIsAhead, DeviceInv
  <2>7. HandIsWhole(d)'
    <3>1. k \notin InHand(d)
      BY <2>2, <2>3 DEF InHand
    <3>2. QED
      BY <2>1, <2>4, <2>5, <3>1 DEF HandIsWhole, DeviceInv
  <2>8. StepsAgree(d)'
    <3>1. \A i : IsNext(d, i)' <=> IsNext(d, i)
      BY <2>1 DEF IsNext
    <3>2. QED
      BY <2>1, <2>2, <2>3, <2>4, <2>5, <3>1 DEF StepsAgree, DeviceInv
  <2>9. StoredIsJournaled(d)' /\ AcksAreStored(d)'
    BY <2>1, <2>2, <2>3, <2>5 DEF StoredIsJournaled, AcksAreStored, DeviceInv
  <2>10. QED
    BY <2>6, <2>7, <2>8, <2>9 DEF DeviceInv
<1>3. QED
  BY <1>1, <1>2, RestsKeeps

(* The relay drops envelopes that the device's history has.                *)
LEMMA LateAckKeeps ==
  ASSUME ReceiveInv, NEW a \in lateAcks, LateAcknowledge(a)
  PROVE  \A d \in Device : DeviceInv(d)'
<1>. USE DEF ReceiveInv, ReceiveTypes, LateAcknowledge, Acknowledged, ratchetVars
<1>1. ASSUME NEW d \in Device, d # a.device
      PROVE  Rests(d)
  BY <1>1 DEF Rests
<1>2. ASSUME NEW d \in Device, d = a.device
      PROVE  DeviceInv(d)'
  <2>1. /\ queue'[d] = queue[d] \ a.ids
        /\ journal'[d] = journal[d] /\ stored'[d] = stored[d]
        /\ pc'[d] = pc[d] /\ batch'[d] = batch[d] /\ done'[d] = done[d]
        /\ lateAcks' \subseteq lateAcks /\ restarts' = restarts
    BY <1>2
  <2>2. DeviceInv(d)
    OBVIOUS
  <2>3. a.ids \subseteq stored[d]
    BY <1>2, <2>2 DEF AcksAreStored, DeviceInv
  <2>4. InHand(d)' = InHand(d) /\ AtRelay(d)' = AtRelay(d)
    BY <2>1, <2>3 DEF InHand, AtRelay, Known
  <2>5. HandIsAhead(d)' /\ HandIsWhole(d)'
    <3>1. InHand(d) \intersect a.ids = {}
      BY <2>3 DEF InHand, Known
    <3>2. QED
      BY <2>1, <2>2, <2>4, <3>1 DEF HandIsAhead, HandIsWhole, DeviceInv
  <2>6. StepsAgree(d)'
    <3>1. \A i : IsNext(d, i)' <=> IsNext(d, i)
      BY <2>1 DEF IsNext
    <3>2. QED
      BY <2>1, <2>2, <2>4, <3>1 DEF StepsAgree, DeviceInv
  <2>7. StoredIsJournaled(d)' /\ AcksAreStored(d)'
    BY <2>1, <2>2 DEF StoredIsJournaled, AcksAreStored, DeviceInv
  <2>8. QED
    BY <2>5, <2>6, <2>7 DEF DeviceInv
<1>3. QED
  BY <1>1, <1>2, RestsKeeps

LEMMA RestartKeeps ==
  ASSUME Sessions!TypeOK, ReceiveInv, Restart
  PROVE  \A d \in Device : DeviceInv(d)'
<1>. SUFFICES ASSUME NEW d \in Device PROVE DeviceInv(d)'
  OBVIOUS
<1>. USE DEF ReceiveInv, ReceiveTypes, Restart
<1>1. /\ queue'[d] = {} /\ lateAcks' = {}
      /\ journal'[d] = journal[d] /\ stored'[d] = stored[d]
      /\ pc'[d] = pc[d] /\ batch'[d] = batch[d] /\ done'[d] = done[d]
  OBVIOUS
<1>2. restarts' > 0
  BY ConversationAssumption DEF ConversationAssumption, Sessions!TypeOK
<1>3. DeviceInv(d)
  OBVIOUS
<1>4. InHand(d)' = InHand(d) /\ AtRelay(d)' = {}
  BY <1>1 DEF InHand, AtRelay, Known
<1>5. HandIsAhead(d)' /\ HandIsWhole(d)'
  BY <1>1, <1>2, <1>4 DEF HandIsAhead, HandIsWhole
<1>6. StepsAgree(d)'
  <2>1. \A i : IsNext(d, i)' <=> IsNext(d, i)
    BY <1>1 DEF IsNext
  <2>2. QED
    BY <1>1, <1>3, <1>4, <2>1 DEF StepsAgree, DeviceInv
<1>7. StoredIsJournaled(d)' /\ AcksAreStored(d)'
  BY <1>1, <1>3 DEF StoredIsJournaled, AcksAreStored, DeviceInv
<1>8. QED
  BY <1>5, <1>6, <1>7 DEF DeviceInv

(* Every step keeps the invariant of the receive loop.                     *)
LEMMA NextReceive ==
  Sessions!TypeOK /\ ReceiveInv /\ [Next]_vars => ReceiveInv'
<1>. SUFFICES ASSUME Sessions!TypeOK, ReceiveInv, [Next]_vars
              PROVE  ReceiveInv'
  OBVIOUS
<1>1. ReceiveTypes'
  BY NextTypes DEF ReceiveInv
<1>2. ASSUME \A e \in Device : Rests(e)
      PROVE  \A e \in Device : DeviceInv(e)'
  BY <1>2, RestsKeeps DEF ReceiveInv
<1>3. ASSUME NEW d \in Device, DeviceInv(d)' /\ Only(d)
      PROVE  \A e \in Device : DeviceInv(e)'
  BY <1>3, RestsKeeps DEF ReceiveInv, Only
<1>4. ASSUME UNCHANGED vars
      PROVE  \A e \in Device : DeviceInv(e)'
  BY <1>2, <1>4 DEF vars, ratchetVars, receiveVars, Rests
<1>5. ASSUME NEW d \in Device, Send(d)
      PROVE  \A e \in Device : DeviceInv(e)'
  BY <1>2, <1>5, SendFacts DEF receiveVars, Rests
<1>6. ASSUME NEW d \in Device, AcknowledgeMessages(d)
      PROVE  \A e \in Device : DeviceInv(e)'
  <2>1. pc[d] \in {"flushAck", "ack"}
    BY <1>6 DEF AcknowledgeMessages, Asking
  <2>2. QED
    BY <1>3, <1>6, <2>1, FlushKeeps, AckKeeps
<1>7. ASSUME NEW d \in Device,
             \/ Receive(d) \/ FlushStore(d) \/ FlushEnd(d) \/ Poll(d)
             \/ AckEnd(d) \/ Interrupt(d)
      PROVE  \A e \in Device : DeviceInv(e)'
  BY <1>3, <1>7, FlushKeeps, PollKeeps, EndKeeps
<1>8. ASSUME NEW d \in Device, NEW i \in batch[d],
             \/ DecryptEnvelope(d, i) \/ RejectEnvelope(d, i)
             \/ StoreMessage(d, i)
      PROVE  \A e \in Device : DeviceInv(e)'
  BY <1>3, <1>8, DecryptKeeps, StoreKeeps, EndKeeps
<1>9. ASSUME \/ \E n : Queues(n)
             \/ \E a \in lateAcks : LateAcknowledge(a)
             \/ Restart
      PROVE  \A e \in Device : DeviceInv(e)'
  BY <1>9, QueueKeeps, RestartKeeps, LateAckKeeps
<1>10. QED
  BY <1>1, <1>4, <1>5, <1>6, <1>7, <1>8, <1>9 DEF Next, Queues, ReceiveInv

-----------------------------------------------------------------------------
(* The refinement.                                                         *)

(* What the device has not decrypted.                                      *)
Left(e) == (batch[e] \union queue[e]) \ Known(e)

LEMMA LeftIs ==
  ASSUME NEW e
  PROVE  Left(e) = InHand(e) \union AtRelay(e)
BY DEF Left, InHand, AtRelay

LEMMA RestsLeft ==
  ASSUME NEW e, Rests(e)
  PROVE  Left(e)' = Left(e)
BY DEF Rests, Left, Known

LEMMA SameInbox ==
  ASSUME \A e \in Device : Left(e)' = Left(e)
  PROVE  Inbox' = Inbox
BY DEF Inbox, Left

(* Steps the sessions do not see.                                          *)
Silent == UNCHANGED ratchetVars /\ \A e \in Device : Left(e)' = Left(e)

LEMMA SilentStutters ==
  ASSUME Silent
  PROVE  UNCHANGED Sessions!vars
BY SameInbox
   DEF Silent, ratchetVars, Sessions!vars, Sessions!relayVars,
       Sessions!callVars, Sessions!stateVars, Sessions!historyVars

LEMMA OnlySilent ==
  ASSUME NEW d \in Device, Only(d), Left(d)' = Left(d), UNCHANGED ratchetVars
  PROVE  Silent
BY RestsLeft DEF Only, Silent

(* What the flush, the poll, the history and the acknowledgments change    *)
(* the sessions do not see: an acknowledged envelope is known, and a       *)
(* journal is dropped when the history has it.                             *)
LEMMA CallIsSilent ==
  ASSUME ReceiveInv, NEW d \in Device,
         \/ Receive(d) \/ FlushStore(d) \/ FlushEnd(d) \/ Poll(d)
         \/ AcknowledgeMessages(d) \/ \E i \in batch[d] : StoreMessage(d, i)
  PROVE  Silent
<1>. USE DEF ReceiveInv, ReceiveTypes, Left, Known
<1>0. UNCHANGED ratchetVars
  BY DEF Receive, FlushStore, FlushEnd, Poll, AcknowledgeMessages, StoreMessage
<1>1. Only(d)
  BY DEF Only, Rests, Receive, FlushStore, FlushEnd, Poll,
         AcknowledgeMessages, StoreMessage, Goto, DropJournal, Acknowledged,
         ratchetVars
<1>2. StepsAgree(d) /\ AcksAreStored(d)
  BY DEF DeviceInv
<1>3. CASE Receive(d)
  BY <1>0, <1>1, <1>3, OnlySilent DEF Receive
<1>4. CASE FlushStore(d)
  <2>1. Left(d)' = Left(d)
    BY <1>4 DEF FlushStore
  <2>2. QED
    BY <1>0, <1>1, <2>1, OnlySilent
<1>5. CASE FlushEnd(d)
  <2>1. Left(d)' = Left(d)
    BY <1>2, <1>5 DEF FlushEnd, DropJournal, AckIds, StepsAgree
  <2>2. QED
    BY <1>0, <1>1, <2>1, OnlySilent
<1>6. CASE Poll(d)
  <2>1. Left(d)' = Left(d)
    BY <1>2, <1>6 DEF Poll, StepsAgree
  <2>2. QED
    BY <1>0, <1>1, <2>1, OnlySilent
<1>7. CASE AcknowledgeMessages(d)
  <2>1. AckIds(d) \subseteq Known(d)
    BY <1>2 DEF AckIds, AcksAreStored
  <2>2. Left(d)' = Left(d)
    BY <1>7, <2>1 DEF AcknowledgeMessages, Acknowledged
  <2>3. QED
    BY <1>0, <1>1, <2>2, OnlySilent
<1>8. ASSUME NEW i \in batch[d], StoreMessage(d, i)
      PROVE  Silent
  <2>1. i \in journal[d]
    BY <1>2, <1>8 DEF StoreMessage, StepsAgree
  <2>2. Left(d)' = Left(d)
    BY <1>8, <2>1 DEF StoreMessage
  <2>3. QED
    BY <1>0, <1>1, <2>2, OnlySilent
<1>9. QED
  BY <1>3, <1>4, <1>5, <1>6, <1>7, <1>8

LEMMA LateAckIsSilent ==
  ASSUME ReceiveInv, NEW a \in lateAcks, LateAcknowledge(a)
  PROVE  Silent
<1>. USE DEF ReceiveInv, ReceiveTypes, LateAcknowledge, Acknowledged, ratchetVars
<1>1. a.ids \subseteq stored[a.device]
  BY DEF DeviceInv, AcksAreStored
<1>2. \A e \in Device : Left(e)' = Left(e)
  BY <1>1 DEF Left, Known
<1>3. QED
  BY <1>2 DEF Silent

(* A decryption is Ratchet's.                                              *)
LEMMA DecryptIsStep ==
  ASSUME Sessions!TypeOK, ReceiveInv, NEW d \in Device, NEW i \in batch[d],
         DecryptEnvelope(d, i)
  PROVE  Sessions!Decrypt(d, i) /\ i \in Inbox[d]
<1>. USE DEF ReceiveInv, ReceiveTypes
<1>1. /\ i \in InHand(d) /\ i \notin Known(d)
      /\ Sessions!IsHead(d, i)
  BY NextIsHead DEF DecryptEnvelope
<1>2. Only(d)
  BY DecryptKeeps
<1>3. call[d] = 0
  BY DEF DecryptEnvelope
<1>4. /\ journal'[d] = journal[d] \union {i} /\ stored'[d] = stored[d]
      /\ batch'[d] = batch[d] /\ queue'[d] = queue[d]
  BY DEF DecryptEnvelope, Goto
<1>5. Left(d)' = Left(d) \ {i}
  BY <1>4 DEF Left, Known
<1>6. Inbox' = [Inbox EXCEPT ![d] = @ \ {i}]
  BY <1>2, <1>5, RestsLeft DEF Only, Inbox, Left
<1>7. QED
  BY <1>1, <1>3, <1>6
     DEF DecryptEnvelope, Sessions!Decrypt, sendVars, Sessions!IsHead,
         Sessions!callVars, Sessions!historyVars

(* A set of positions has a last one.                                      *)
LEMMA HasLast ==
  ASSUME NEW k \in Nat, NEW S, S \subseteq 1..k, S # {}
  PROVE  \E m \in S : S \subseteq 1..m
<1>. DEFINE T == {k - i : i \in S}
            Before == {p \in Nat \X Nat : p[1] < p[2]}
<1>1. T \subseteq Nat
  <2>1. \A i \in 1..k : k - i \in Nat
    OBVIOUS
  <2>2. QED
    BY <2>1
<1>2. T # {}
  OBVIOUS
<1>3. IsWellFoundedOn(Before, Nat)
  BY NatLessThanWellFounded, Zenon DEF OpToRel
<1>4. PICK x \in T : \A y \in T : <<y, x>> \notin Before
  <2>. HIDE DEF T, Before
  <2>. QED BY <1>1, <1>2, <1>3, WFMin
<1>5. ASSUME NEW y \in T
      PROVE  x <= y
  <2>1. x \in Nat /\ y \in Nat
    BY <1>1
  <2>2. <<y, x>> \notin Before
    BY <1>4
  <2>. HIDE DEF T
  <2>3. ~(y < x)
    BY <2>1, <2>2
  <2>4. QED
    BY <2>1, <2>3
<1>6. PICK m \in S : x = k - m
  OBVIOUS
<1>7. ASSUME NEW i \in S PROVE i <= m
  <2>1. k - m <= k - i
    BY <1>5, <1>6
  <2>2. k \in Int /\ m \in Int /\ i \in Int
    OBVIOUS
  <2>. HIDE DEF T, Before
  <2>3. QED
    BY <2>1, <2>2
<1>8. QED
  BY <1>7

(* The end of a call: what only it had in its hands is lost, if anything,  *)
(* and then all of it.                                                     *)
LEMMA EndIsStep ==
  ASSUME Sessions!TypeOK, ReceiveInv, NEW d \in Device,
         \/ AckEnd(d) \/ Interrupt(d) \/ \E i \in batch[d] : RejectEnvelope(d, i)
  PROVE  Silent \/ Sessions!LoseBatch(d)
<1>. USE DEF ReceiveInv, ReceiveTypes
<1>1. Only(d)
  BY EndKeeps
<1>2. DeviceInv(d)
  OBVIOUS
<1>3. /\ UNCHANGED <<sendVars, sessionVars>>
      /\ batch'[d] = {} /\ queue'[d] = queue[d] /\ stored'[d] = stored[d]
      /\ Lose(InHand(d) \ queue[d])
  BY DEF AckEnd, Interrupt, RejectEnvelope, EndReceive
<1>4. Known(d)' = Known(d)
  <2>1. CASE AckEnd(d)
    BY <1>2, <1>3, <2>1
       DEF AckEnd, DropJournal, AckIds, DeviceInv, AcksAreStored, Known
  <2>2. CASE journal' = journal
    BY <1>3, <2>2 DEF Known
  <2>3. QED
    BY <2>1, <2>2 DEF Interrupt, RejectEnvelope
<1>5. Left(d)' = queue[d] \ Known(d)
  BY <1>3, <1>4 DEF Left
<1>6. CASE InHand(d) \subseteq queue[d]
  <2>1. Left(d)' = Left(d)
    BY <1>5, <1>6 DEF Left, InHand
  <2>2. cut' = cut
    BY <1>3, <1>6 DEF Lose
  <2>3. QED
    BY <1>1, <1>3, <2>1, <2>2, OnlySilent DEF ratchetVars, sendVars, sessionVars
<1>7. CASE ~(InHand(d) \subseteq queue[d])
  <2>1. restarts > 0 /\ InHand(d) \intersect queue[d] = {} /\ InHand(d) # {}
    BY <1>2, <1>7 DEF DeviceInv, HandIsWhole
  <2>2. InHand(d) \subseteq 1..Len(accepted) /\ AtRelay(d) \subseteq 1..Len(accepted)
        /\ Len(accepted) \in Nat
    BY RelayFacts DEF InHand, AtRelay
  <2>3. PICK m \in InHand(d) : InHand(d) \subseteq 1..m
    BY <2>1, <2>2, HasLast
  <2>4. Left(d)' = AtRelay(d)
    BY <1>5, <2>1 DEF InHand, AtRelay
  <2>5. AtRelay(d) = Left(d) \ (1..m)
    <3>1. \A j \in AtRelay(d) : m < j
      BY <1>2, <2>3 DEF DeviceInv, HandIsAhead, InHand
    <3>2. AtRelay(d) \intersect 1..m = {}
      BY <2>2, <3>1
    <3>3. QED
      BY <2>3, <3>2, LeftIs
  <2>6. Inbox' = [Inbox EXCEPT ![d] = @ \ (1..m)]
    BY <1>1, <2>4, <2>5, RestsLeft DEF Only, Inbox, Left
  <2>7. m \in Inbox[d]
    BY DEF Inbox, InHand
  <2>8. \A e \in Device : Inbox[e] \ Inbox'[e]
                             = IF e = d THEN InHand(d) \ queue[d] ELSE {}
    <3>1. Inbox[d] \ Inbox'[d] = InHand(d)
      BY <2>4, <2>5, <2>6, LeftIs DEF Inbox, Left, InHand, AtRelay
    <3>2. \A e \in Device : e # d => Inbox'[e] = Inbox[e]
      BY <2>6 DEF Inbox
    <3>3. InHand(d) \ queue[d] = InHand(d)
      BY <2>1
    <3>4. QED
      BY <3>1, <3>2, <3>3
  <2>9. Sessions!Drop
    <3>1. UNION {Sessions!Waiting(e) \ Inbox'[e] : e \in Device}
            = (InHand(d) \ queue[d]) \ Sessions!Repeated
      BY <2>8 DEF Sessions!Waiting
    <3>2. QED
      BY <1>3, <3>1 DEF Lose, Sessions!Drop, Device, Sessions!Device
  <2>10. QED
    BY <1>3, <2>1, <2>6, <2>7, <2>9
       DEF Sessions!LoseBatch, sendVars, sessionVars, Sessions!callVars,
           Sessions!stateVars
<1>8. QED
  BY <1>6, <1>7

(* A restart empties the queues: of what is left, each device keeps what   *)
(* it has in its hands.                                                    *)
LEMMA RestartIsStep ==
  ASSUME Sessions!TypeOK, ReceiveInv, Restart
  PROVE  Sessions!Restart
<1>. USE DEF ReceiveInv, ReceiveTypes
<1>. DEFINE Polled(d, m) ==
              /\ m \in {0} \union InHand(d)
              /\ InHand(d) \subseteq 1..m
<1>1. \A d \in Device :
        /\ InHand(d) \subseteq 1..Len(accepted)
        /\ AtRelay(d) \subseteq 1..Len(accepted)
        /\ Len(accepted) \in Nat
  BY RelayFacts DEF InHand, AtRelay
<1>2. ASSUME NEW d \in Device
      PROVE  \E m : Polled(d, m)
  <2>1. CASE InHand(d) = {}
    BY <2>1
  <2>2. CASE InHand(d) # {}
    BY SMTT(30), <1>1, <2>2, HasLast
  <2>3. QED
    BY <2>1, <2>2
<1>. DEFINE polled == [d \in Device |-> CHOOSE m : Polled(d, m)]
<1>3. \A d \in Device : Polled(d, polled[d])
  BY <1>2
<1>. HIDE DEF polled
<1>4. ASSUME NEW d \in Device
      PROVE  Left(d)' = InHand(d)
  BY DEF Restart, Left, InHand, Known
<1>5. ASSUME NEW d \in Device
      PROVE  InHand(d) = Left(d) \intersect 1..polled[d]
  <2>. PICK m : m = polled[d]
    OBVIOUS
  <2>1. m \in {0} \union InHand(d) /\ InHand(d) \subseteq 1..m
    BY <1>3
  <2>2. AtRelay(d) \intersect 1..m = {}
    <3>1. CASE m = 0
      BY <3>1
    <3>2. CASE m \in InHand(d)
      <4>1. \A j \in AtRelay(d) : m < j
        BY <3>2 DEF DeviceInv, HandIsAhead, InHand
      <4>2. QED
        BY <1>1, <3>2, <4>1
    <3>3. QED
      BY <2>1, <3>1, <3>2
  <2>3. QED
    BY <2>1, <2>2, LeftIs
<1>6. Inbox' = [d \in Device |-> Inbox[d] \intersect 1..polled[d]]
  BY <1>4, <1>5 DEF Inbox, Left
<1>7. polled \in [Device -> {0} \union Inbox[Alice] \union Inbox[Bob]]
  <2>1. \A d \in Device : polled[d] \in {0} \union Inbox[d]
    BY <1>3 DEF Inbox, InHand
  <2>2. polled = [d \in Device |-> polled[d]]
    BY DEF polled
  <2>3. QED
    BY <2>1, <2>2 DEF Device
<1>8. ASSUME NEW e \in Device
      PROVE  Inbox[e] \ Inbox'[e] = AtRelay(e)
  <2>1. Inbox[e] = Left(e) /\ Inbox'[e] = InHand(e)
    BY <1>4 DEF Inbox, Left
  <2>2. InHand(e) \intersect AtRelay(e) = {}
    BY DEF InHand, AtRelay
  <2>3. QED
    BY <2>1, <2>2, LeftIs
<1>9. Sessions!Drop
  <2>1. UNION {Sessions!Waiting(e) \ Inbox'[e] : e \in Device}
          = (UNION {AtRelay(e) : e \in Device}) \ Sessions!Repeated
    BY <1>8 DEF Sessions!Waiting
  <2>2. QED
    BY <2>1 DEF Restart, Lose, Sessions!Drop, Device, Sessions!Device
<1>10. QED
  BY <1>6, <1>7, <1>9
     DEF Restart, Sessions!Restart, Sessions!callVars, Sessions!stateVars,
         Device, Sessions!Device

(* The relay accepts an envelope.                                          *)
LEMMA QueueIsStep ==
  ASSUME Sessions!TypeOK, ReceiveInv, NEW n, Queues(n)
  PROVE  /\ QueueMessage(n) => Sessions!QueueMessage(n)
         /\ QueueAgain(n) => Sessions!QueueAgain(n)
<1>0. Enqueue(n)
  BY DEF Queues, QueueMessage, QueueAgain
<1>. USE <1>0 DEF ReceiveInv, ReceiveTypes, Enqueue
<1>. PICK k, q : k = Len(accepted) + 1 /\ q = sent[n].to
  OBVIOUS
<1>1. q \in Device /\ k \notin Ids
  BY QueueFacts
<1>2. \A e \in Device : k \notin batch[e] /\ k \notin Known(e)
  BY <1>1 DEF Known
<1>3. Left(q)' = Left(q) \union {k}
  BY <1>1, <1>2 DEF Left, Known
<1>4. \A e \in Device : e # q => Left(e)' = Left(e)
  BY <1>1 DEF Left, Known
<1>5. Inbox' = [Inbox EXCEPT ![q] = @ \union {k}]
  BY <1>1, <1>3, <1>4 DEF Inbox, Left
<1>6. Sessions!Enqueue(n)
  BY <1>5 DEF Sessions!Enqueue, Sessions!callVars, Sessions!stateVars,
              Sessions!historyVars
<1>7. QED
  BY <1>6 DEF QueueMessage, QueueAgain, Sessions!QueueMessage,
              Sessions!QueueAgain

(* Every step is one of Ratchet's or a stutter.                            *)
LEMMA NextRefines ==
  Sessions!TypeOK /\ ReceiveInv /\ [Next]_vars =>
    [Sessions!Next]_(Sessions!vars)
<1>. SUFFICES ASSUME Sessions!TypeOK, ReceiveInv, [Next]_vars
              PROVE  Sessions!Next \/ UNCHANGED Sessions!vars
  OBVIOUS
<1>. USE DEF Device, Sessions!Device
<1>1. CASE UNCHANGED vars
  <2>1. Silent
    BY <1>1 DEF vars, ratchetVars, receiveVars, Silent, Left, Known
  <2>2. QED
    BY <2>1, SilentStutters
<1>2. ASSUME NEW d \in Device, Send(d)
      PROVE  Sessions!Next
  BY <1>2 DEF Send, Sessions!Next
<1>3. ASSUME NEW d \in Device,
             \/ Receive(d) \/ FlushStore(d) \/ FlushEnd(d) \/ Poll(d)
             \/ AcknowledgeMessages(d) \/ \E i \in batch[d] : StoreMessage(d, i)
      PROVE  UNCHANGED Sessions!vars
  BY <1>3, CallIsSilent, SilentStutters
<1>4. ASSUME NEW d \in Device, NEW i \in batch[d], DecryptEnvelope(d, i)
      PROVE  Sessions!Next
  BY <1>4, DecryptIsStep DEF Sessions!Next
<1>5. ASSUME NEW d \in Device,
             \/ AckEnd(d) \/ Interrupt(d)
             \/ \E i \in batch[d] : RejectEnvelope(d, i)
      PROVE  Sessions!Next \/ UNCHANGED Sessions!vars
  BY <1>5, EndIsStep, SilentStutters DEF Sessions!Next
<1>6. ASSUME NEW n, Queues(n)
      PROVE  Sessions!Next
  <2>1. \/ n \in posts /\ Sessions!QueueMessage(n)
        \/ n \in forgotten /\ Sessions!QueueAgain(n)
    BY <1>6, QueueIsStep DEF Queues, QueueMessage, QueueAgain
  <2>2. QED
    BY <2>1 DEF Sessions!Next
<1>7. ASSUME NEW a \in lateAcks, LateAcknowledge(a)
      PROVE  UNCHANGED Sessions!vars
  BY <1>7, LateAckIsSilent, SilentStutters
<1>8. CASE Restart
  BY <1>8, RestartIsStep DEF Sessions!Next
<1>9. QED
  BY <1>1, <1>2, <1>3, <1>4, <1>5, <1>6, <1>7, <1>8 DEF Next, Queues

-----------------------------------------------------------------------------
(* Sessions and R are two instances of the same definitions.               *)

LEMMA SameInit == Sessions!Init <=> R!Init
BY DEF Sessions!Init, R!Init, Sessions!NoState, R!NoState, Sessions!Device,
       R!Device

LEMMA SameStutter == UNCHANGED Sessions!vars <=> UNCHANGED R!vars
BY DEF Sessions!vars, R!vars, Sessions!relayVars, R!relayVars,
       Sessions!callVars, R!callVars, Sessions!stateVars, R!stateVars,
       Sessions!historyVars, R!historyVars

LEMMA SameWaiting ==
  /\ Sessions!Repeated = R!Repeated
  /\ \A d : Sessions!Waiting(d) = R!Waiting(d)
BY DEF Sessions!Repeated, R!Repeated, Sessions!Waiting, R!Waiting

LEMMA SameNext == Sessions!Next <=> R!Next
<1>1. ASSUME NEW d PROVE Sessions!Encrypt(d) <=> R!Encrypt(d)
  <2>1. Sessions!Selected(d) = R!Selected(d)
    BY DEF Sessions!Selected, R!Selected, Sessions!Contains, R!Contains,
           Sessions!Last, R!Last
  <2>2. Sessions!Peer(d) = R!Peer(d)
    BY DEF Sessions!Peer, R!Peer, Sessions!Device, R!Device
  <2>3. \A n, q : Sessions!InitiatorState(n, q) = R!InitiatorState(n, q)
    BY DEF Sessions!InitiatorState, R!InitiatorState, Sessions!FirstRoot,
           R!FirstRoot, Sessions!ChainKey, R!ChainKey
  <2>4. \A s, n : Sessions!SendState(s, n) = R!SendState(s, n)
    BY DEF Sessions!SendState, R!SendState, Sessions!RatchetRoot,
           R!RatchetRoot, Sessions!ChainKey, R!ChainKey
  <2>5. \A s : Sessions!AfterSend(s) = R!AfterSend(s)
    BY DEF Sessions!AfterSend, R!AfterSend, Sessions!NextChainKey,
           R!NextChainKey
  <2>6. \A k : Sessions!MessageKey(k) = R!MessageKey(k)
    BY DEF Sessions!MessageKey, R!MessageKey
  <2>7. Sessions!Towards(d) = R!Towards(d)
    BY SameWaiting DEF Sessions!Towards, R!Towards
  <2>8. QED
    BY <2>1, <2>2, <2>3, <2>4, <2>5, <2>6, <2>7
       DEF Sessions!Encrypt, R!Encrypt, Sessions!stateVars, R!stateVars
<1>2. \A d : Sessions!SaveSend(d) <=> R!SaveSend(d)
  BY DEF Sessions!Device, R!Device, Sessions!relayVars, R!relayVars,
         Sessions!callVars, R!callVars, Sessions!stateVars, R!stateVars,
         Sessions!historyVars, R!historyVars, Sessions!NoState, R!NoState,
         Sessions!EndCall, R!EndCall, Sessions!SetSession, R!SetSession,
         Sessions!NewOutgoing, R!NewOutgoing, Sessions!SaveSend, R!SaveSend
<1>3. \A d : Sessions!AbandonSend(d) <=> R!AbandonSend(d)
  BY DEF Sessions!Device, R!Device, Sessions!relayVars, R!relayVars,
         Sessions!callVars, R!callVars, Sessions!stateVars, R!stateVars,
         Sessions!historyVars, R!historyVars, Sessions!NoState, R!NoState,
         Sessions!EndCall, R!EndCall, Sessions!Cardinality, R!Cardinality,
         Sessions!AbandonSend, R!AbandonSend
<1>4. \A d : Sessions!LoseBatch(d) <=> R!LoseBatch(d)
  BY SameWaiting
     DEF Sessions!Device, R!Device, Sessions!relayVars, R!relayVars,
         Sessions!callVars, R!callVars, Sessions!stateVars, R!stateVars,
         Sessions!historyVars, R!historyVars, Sessions!Drop, R!Drop,
         Sessions!LoseBatch, R!LoseBatch
<1>5. Sessions!Restart <=> R!Restart
  BY SameWaiting
     DEF Sessions!Device, R!Device, Sessions!relayVars, R!relayVars,
         Sessions!callVars, R!callVars, Sessions!stateVars, R!stateVars,
         Sessions!historyVars, R!historyVars, Sessions!Drop, R!Drop,
         Sessions!Range, R!Range, Sessions!Forgetting, R!Forgetting,
         Sessions!Restart, R!Restart
<1>6. \A n : /\ Sessions!QueueMessage(n) <=> R!QueueMessage(n)
             /\ Sessions!QueueAgain(n) <=> R!QueueAgain(n)
  BY DEF Sessions!relayVars, R!relayVars, Sessions!callVars, R!callVars,
         Sessions!stateVars, R!stateVars, Sessions!historyVars, R!historyVars,
         Sessions!Enqueue, R!Enqueue, Sessions!QueueMessage, R!QueueMessage,
         Sessions!QueueAgain, R!QueueAgain
<1>7. \A d, i : Sessions!Decrypt(d, i) <=> R!Decrypt(d, i)
  BY DEF Sessions!Device, R!Device, Sessions!Peer, R!Peer, Sessions!Sends,
         R!Sends, Sessions!NoState, R!NoState, Sessions!ChainKey, R!ChainKey,
         Sessions!MessageKey, R!MessageKey, Sessions!NextChainKey,
         R!NextChainKey, Sessions!RatchetRoot, R!RatchetRoot,
         Sessions!FirstRoot, R!FirstRoot, Sessions!InitiatorState,
         R!InitiatorState, Sessions!ResponderState, R!ResponderState,
         Sessions!SendState, R!SendState, Sessions!AfterSend, R!AfterSend,
         Sessions!ReceiveState, R!ReceiveState, Sessions!AfterReceive,
         R!AfterReceive, Sessions!relayVars, R!relayVars, Sessions!callVars,
         R!callVars, Sessions!stateVars, R!stateVars, Sessions!historyVars,
         R!historyVars, Sessions!Contains, R!Contains, Sessions!SetSession,
         R!SetSession, Sessions!Holds, R!Holds, Sessions!ReceivingState,
         R!ReceivingState, Sessions!Initiator, R!Initiator, Sessions!Opens,
         R!Opens, Sessions!IsHead, R!IsHead, Sessions!Decrypt, R!Decrypt
<1>8. QED
  BY <1>1, <1>2, <1>3, <1>4, <1>5, <1>6, <1>7
     DEF Sessions!Next, R!Next, Sessions!Device, R!Device

LEMMA SameTypes == Sessions!TypeOK <=> R!TypeOK
BY DEF Sessions!Device, R!Device, Sessions!Sends, R!Sends, Sessions!NoState,
       R!NoState, Sessions!KeyIds, R!KeyIds, Sessions!Roots, R!Roots,
       Sessions!Chains, R!Chains, Sessions!States, R!States,
       Sessions!Envelopes, R!Envelopes, Sessions!Holds, R!Holds,
       Sessions!Contains, R!Contains, Sessions!TypeOK, R!TypeOK

LEMMA SameHeads == Sessions!HeadOpens <=> R!HeadOpens
BY SameWaiting DEF
       Sessions!Device, R!Device, Sessions!Peer, R!Peer, Sessions!Sends,
       R!Sends, Sessions!NoState, R!NoState, Sessions!ChainKey, R!ChainKey,
       Sessions!MessageKey, R!MessageKey, Sessions!NextChainKey,
       R!NextChainKey, Sessions!RatchetRoot, R!RatchetRoot, Sessions!FirstRoot,
       R!FirstRoot, Sessions!InitiatorState, R!InitiatorState,
       Sessions!ResponderState, R!ResponderState, Sessions!SendState,
       R!SendState, Sessions!AfterSend, R!AfterSend, Sessions!ReceiveState,
       R!ReceiveState, Sessions!AfterReceive, R!AfterReceive,
       Sessions!Contains, R!Contains, Sessions!Holds, R!Holds,
       Sessions!ReceivingState, R!ReceivingState, Sessions!Initiator,
       R!Initiator, Sessions!Opens, R!Opens, Sessions!IsHead, R!IsHead,
       Sessions!Torn, R!Torn, Sessions!HeadOpensUnless, R!HeadOpensUnless,
       Sessions!HeadOpens, R!HeadOpens

(* The assumptions on the constants are Ratchet's.                         *)
LEMMA RatchetAssumed == R!RatchetAssumption
BY ConversationAssumption DEF ConversationAssumption, R!RatchetAssumption

-----------------------------------------------------------------------------
(* The theorems.                                                           *)

LEMMA InitReceive == Init => ReceiveInv /\ Sessions!Init
<1>. SUFFICES ASSUME Init PROVE ReceiveInv /\ Sessions!Init
  OBVIOUS
<1>1. Inbox = [d \in Device |-> {}]
  BY DEF Init, Inbox, Known
<1>2. Sessions!Init
  BY DEF Init
<1>3. ReceiveTypes
  BY <1>2, ConversationAssumption
     DEF Init, ReceiveTypes, Steps, Sessions!Init, Device, Sessions!Device,
         ConversationAssumption
<1>4. \A d \in Device : DeviceInv(d)
  BY DEF Init, DeviceInv, StoredIsJournaled, AcksAreStored, StepsAgree,
         HandIsAhead, HandIsWhole, InHand
<1>5. QED
  BY <1>2, <1>3, <1>4 DEF ReceiveInv

(* What the queue, the journal and the history know of an envelope agrees  *)
(* at each step of a receive, and every step is one of Ratchet's or none   *)
(* (client.py:400-445, 594-700, server.py:788-849).                        *)
THEOREM ReceiveCorrect ==
  Spec => [](ReceiveInv /\ R!BySession) /\ [][Sessions!Next]_(Sessions!vars)
<1>1. Init => ReceiveInv /\ R!BySession
  <2>1. R!Init => R!BySession
    BY R!InitRatchet, R!InvParts, RatchetAssumed
  <2>2. QED
    BY <2>1, InitReceive, SameInit
<1>2. ReceiveInv /\ R!BySession /\ [Next]_vars =>
        /\ (ReceiveInv /\ R!BySession)'
        /\ [Sessions!Next]_(Sessions!vars)
  <2>. SUFFICES ASSUME ReceiveInv, R!BySession, [Next]_vars
                PROVE  /\ ReceiveInv' /\ (R!BySession)'
                       /\ [Sessions!Next]_(Sessions!vars)
    OBVIOUS
  <2>1. Sessions!TypeOK
    BY SameTypes DEF R!BySession
  <2>2. [Sessions!Next]_(Sessions!vars)
    BY <2>1, NextRefines
  <2>3. [R!Next]_(R!vars)
    BY <2>2, SameNext, SameStutter
  <2>4. (R!BySession)'
    BY <2>3, R!NextRatchet, RatchetAssumed
  <2>5. QED
    BY <2>1, <2>2, <2>4, NextReceive
<1>3. QED
  BY <1>1, <1>2, PTL DEF Spec

(* Every variable has its type, and a device that sends is not receiving.  *)
THEOREM TypesHold == Spec => []TypeOK
<1>1. ReceiveInv /\ R!BySession => TypeOK
  BY SameTypes DEF ReceiveInv, R!BySession, TypeOK
<1>2. QED
  BY <1>1, ReceiveCorrect, PTL

(* Every session advances exactly once for each message, in the order the  *)
(* relay accepted them, over interruptions, repeated polls, late           *)
(* acknowledgments and redelivery (client.py:594-601, 684-700, 400-445).   *)
THEOREM RatchetIsImplemented == Spec => ReceivesAtomically
<1>1. Init => Sessions!Init
  BY InitReceive
<1>2. QED
  BY <1>1, ReceiveCorrect, PTL DEF Spec, ReceivesAtomically, Sessions!Spec

(* What receive() comes to next opens exactly when it was not queued       *)
(* before, unless its session crossed, was torn or was cut, whatever was   *)
(* delivered before and however (client.py:400-445, 571, 594-700, 793-799, *)
(* server.py:68).                                                          *)
THEOREM NextEnvelopesOpen == Spec => []NextOpens
<1>1. ReceiveInv /\ R!BySession /\ R!HeadOpens => NextOpens
  <2>. SUFFICES ASSUME ReceiveInv, R!BySession, R!HeadOpens,
                       NEW d \in Device, NEW i \in Ids, pc[d] = "batch",
                       IsNext(d, i),
                       sent[accepted[i]].sid
                         \notin crossed \union Sessions!Torn \union cut
                PROVE  Sessions!Opens(d, sent[accepted[i]])
                         <=> i \notin Sessions!Repeated
    BY DEF NextOpens
  <2>1. Sessions!TypeOK /\ Sessions!HeadOpens
    BY SameTypes, SameHeads DEF R!BySession
  <2>2. Sessions!IsHead(d, i)
    BY <2>1, NextIsHead DEF IsNext
  <2>3. call[d] = 0
    BY DEF ReceiveInv, ReceiveTypes
  <2>4. QED
    BY <2>1, <2>2, <2>3
       DEF Sessions!HeadOpens, Sessions!HeadOpensUnless, Ids, Device,
           Sessions!Device
<1>2. Spec => R!Spec
  <2>1. Init => R!Init
    BY InitReceive, SameInit
  <2>2. [Sessions!Next]_(Sessions!vars) => [R!Next]_(R!vars)
    BY SameNext, SameStutter
  <2>3. QED
    BY <2>1, <2>2, ReceiveCorrect, PTL DEF Spec, R!Spec
<1>3. R!Spec => []R!HeadOpens
  BY R!HeadsOpen, RatchetAssumed
<1>4. QED
  BY <1>1, <1>2, <1>3, ReceiveCorrect, PTL
=============================================================================
