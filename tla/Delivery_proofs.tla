--------------------------- MODULE Delivery_proofs --------------------------
(***************************************************************************)
(* Proofs about Delivery, for every set of messages and of processes and   *)
(* every number of interrupted calls and restarts.                         *)
(***************************************************************************)
EXTENDS Delivery, TLAPS

USE DEF MaxTries, serverVars, senderVars, storeVars, procVars

-----------------------------------------------------------------------------
(* Lemmas about the operators of the model.                                *)

(* Appending to a sequence adds one element to its range.                  *)
LEMMA RangeAppend ==
  ASSUME NEW S, NEW s \in Seq(S), NEW x \in S
  PROVE  Range(Append(s, x)) = Range(s) \union {x}
<1>1. \A y \in Range(Append(s, x)) : y \in Range(s) \union {x}
  BY DEF Range
<1>2. \A y \in Range(s) \union {x} : y \in Range(Append(s, x))
  <2>1. x = Append(s, x)[Len(s) + 1] /\ Len(s) + 1 \in DOMAIN Append(s, x)
    OBVIOUS
  <2>2. \A k \in DOMAIN s : Append(s, x)[k] = s[k] /\ k \in DOMAIN Append(s, x)
    OBVIOUS
  <2>. QED
    BY <2>1, <2>2 DEF Range
<1>. QED
  BY <1>1, <1>2

-----------------------------------------------------------------------------
(* Type correctness.                                                       *)

(* TypeOK is inductive together with NewIsUntried.                         *)
TypeInv == TypeOK /\ NewIsUntried

LEMMA InitTypeInv == Init => TypeInv
BY DeliveryAssumption DEF Init, TypeInv, NewIsUntried, TypeOK, DeliveryAssumption, State, Empty, Ids, Steps

LEMMA NextTypeOK == TypeInv /\ [Next]_vars => TypeOK'
<1>. SUFFICES ASSUME TypeOK, NewIsUntried, [Next]_vars PROVE TypeOK'
  BY DEF TypeInv
<1>. USE DeliveryAssumption DEF DeliveryAssumption, TypeOK, State, Ids, Steps
<1>1. CASE UNCHANGED vars
  BY <1>1 DEF vars
<1>2. ASSUME NEW m \in Msg, SendMessage(m) PROVE TypeOK'
  <2>1. try' \in [Msg -> 0..MaxTries] /\ posts' \subseteq Msg \X (1..MaxTries)
    BY <1>2 DEF SendMessage, Attempt, NewIsUntried
  <2>. QED
    BY <1>2, <2>1 DEF SendMessage, Attempt
<1>3. ASSUME NEW m \in Msg, RetrySend(m) PROVE TypeOK'
  BY <1>3 DEF RetrySend, Attempt
<1>4. ASSUME NEW m \in Msg, GiveUp(m) PROVE TypeOK'
  BY <1>4 DEF GiveUp
<1>5. ASSUME NEW m \in Msg, GetReceipt(m) PROVE TypeOK'
  BY <1>5 DEF GetReceipt
<1>6. ASSUME NEW m \in Msg, NEW k \in 1..MaxTries, QueueMessage(m, k)
      PROVE  TypeOK'
  <2>1. CASE receipts[m] # 0
    BY <1>6, <2>1 DEF QueueMessage, KnownReceipt, NewId
  <2>2. CASE receipts[m] = 0
    <3>1. accepted' = Append(accepted, m) /\ NewId \in Ids'
      BY <1>6, <2>2 DEF QueueMessage, KnownReceipt, NewId
    <3>2. accepted' \in Seq(Msg) /\ Ids \subseteq Ids'
      BY <3>1
    <3>3. queue' \subseteq Ids' /\ receipts' \in [Msg -> Ids' \union {0}]
      BY <1>6, <2>2, <3>1, <3>2 DEF QueueMessage, KnownReceipt, NewId
    <3>4. reply' \in [Msg -> Ids' \union {0}] /\ posts' \subseteq posts
      BY <1>6, <2>2, <3>1, <3>2 DEF QueueMessage, KnownReceipt, NewId
    <3>5. history' \in Seq(Ids') /\ disk' \in State' /\ mem' \in [Proc -> State']
      BY <1>6, <3>2 DEF QueueMessage
    <3>6. /\ batch' \in [Proc -> SUBSET Ids'] /\ done' \in [Proc -> SUBSET Ids']
          /\ acks' \subseteq SUBSET Ids' /\ lost' \subseteq Ids'
          /\ sentAs' \in [Msg -> Ids' \union {0}]
      BY <1>6, <3>2 DEF QueueMessage
    <3>. QED
      BY <1>6, <3>2, <3>3, <3>4, <3>5, <3>6 DEF QueueMessage
  <2>. QED
    BY <2>1, <2>2
<1>7. ASSUME NEW p \in Proc, Receive(p) PROVE TypeOK'
  <2>1. pc' \in [Proc -> Steps] /\ lock' \in Proc \union {NoProc}
    BY <1>7 DEF Receive, Enter, Goto
  <2>2. mem' \in [Proc -> State]
    BY <1>7 DEF Receive, Enter
  <2>. QED
    BY <1>7, <2>1, <2>2 DEF Receive
<1>8. ASSUME NEW p \in Proc, BeginReply(p) PROVE TypeOK'
  BY <1>8 DEF BeginReply, Enter, Goto
<1>9. ASSUME NEW p \in Proc, Interrupt(p) PROVE TypeOK'
  BY <1>9 DEF Interrupt, Leave, Goto, AckIds, Empty
<1>10. ASSUME NEW ids \in acks, LateAcknowledge(ids) PROVE TypeOK'
  BY <1>10 DEF LateAcknowledge
<1>11. CASE Restart
  BY <1>11 DEF Restart
<1>12. ASSUME NEW p \in Proc, FlushStore(p) PROVE TypeOK'
  BY <1>12 DEF FlushStore, StoreMessage
<1>13. ASSUME NEW p \in Proc, FlushSend(p) PROVE TypeOK'
  BY <1>13 DEF FlushSend, Goto
<1>14. ASSUME NEW p \in Proc, FlushEnd(p) PROVE TypeOK'
  BY <1>14 DEF FlushEnd, Save, Goto
<1>15. ASSUME NEW p \in Proc, Poll(p) PROVE TypeOK'
  BY <1>15 DEF Poll, Goto
<1>16. ASSUME NEW p \in Proc, DecryptEnvelope(p) PROVE TypeOK'
  <2>. PICK i \in batch[p] :
         \/ UNCHANGED <<mem, disk>>
         \/ Save(p, [journal |-> mem[p].journal \union {i},
                     opened  |-> mem[p].opened \union {accepted[i]}])
    BY <1>16 DEF DecryptEnvelope, Current
  <2>1. mem[p] \in State /\ i \in Ids /\ accepted[i] \in Msg
    OBVIOUS
  <2>2. [journal |-> mem[p].journal \union {i},
         opened  |-> mem[p].opened \union {accepted[i]}] \in State
    BY <2>1
  <2>3. mem' \in [Proc -> State] /\ disk' \in State
    <3>1. CASE UNCHANGED <<mem, disk>>
      BY <3>1
    <3>2. CASE mem' = [mem EXCEPT ![p] = disk'] /\ disk' \in State
      BY <3>2
    <3>. QED
      BY <2>2, <3>1, <3>2 DEF Save
  <2>. QED
    BY <1>16, <2>3 DEF DecryptEnvelope, Goto
<1>17. ASSUME NEW p \in Proc, RejectEnvelope(p) PROVE TypeOK'
  BY <1>17 DEF RejectEnvelope, Leave, Goto, Empty
<1>18. ASSUME NEW p \in Proc, StoreNext(p) PROVE TypeOK'
  <2>. PICK i \in batch[p] :
         /\ StoreMessage(i)
         /\ batch' = [batch EXCEPT ![p] = @ \ {i}]
         /\ done' = [done EXCEPT ![p] = @ \union {i}]
    BY <1>18 DEF StoreNext, Current
  <2>1. i \in Ids /\ Append(history, i) \in Seq(Ids)
    OBVIOUS
  <2>2. history' \in Seq(Ids)
    BY <2>1 DEF StoreMessage
  <2>. QED
    BY <1>18, <2>2 DEF StoreNext, Goto
<1>19. ASSUME NEW p \in Proc, AckSend(p) PROVE TypeOK'
  BY <1>19 DEF AckSend, Goto
<1>20. ASSUME NEW p \in Proc, AcknowledgeMessages(p) PROVE TypeOK'
  BY <1>20 DEF AcknowledgeMessages
<1>21. ASSUME NEW p \in Proc, AckEnd(p) PROVE TypeOK'
  BY <1>21 DEF AckEnd, Leave, Goto, Empty
<1>22. ASSUME NEW p \in Proc, ReceiveNothing(p) PROVE TypeOK'
  BY <1>22 DEF ReceiveNothing, Leave, Goto, Empty
<1>23. ASSUME NEW p \in Proc, EndReply(p) PROVE TypeOK'
  BY <1>23 DEF EndReply, Leave, Goto, Empty
<1>. QED
  BY <1>1, <1>2, <1>3, <1>4, <1>5, <1>6, <1>7, <1>8, <1>9, <1>10, <1>11,
     <1>12, <1>13, <1>14, <1>15, <1>16, <1>17, <1>18, <1>19, <1>20, <1>21,
     <1>22, <1>23 DEF Next, ReceiveStep

(* Only the senders change what NewIsUntried is about.                     *)
LEMMA NextNewIsUntried == TypeInv /\ [Next]_vars => NewIsUntried'
<1>. SUFFICES ASSUME TypeInv, [Next]_vars PROVE NewIsUntried'
  OBVIOUS
<1>. USE DEF TypeInv, NewIsUntried
<1>1. ASSUME NEW m \in Msg, SendMessage(m) \/ RetrySend(m) PROVE NewIsUntried'
  <2>1. try' = [try EXCEPT ![m] = @ + 1] /\ posts' = posts \union {<<m, try[m] + 1>>}
    BY <1>1 DEF SendMessage, RetrySend, Attempt
  <2>2. try'[m] # 0 /\ out'[m] # "new"
    BY <1>1, <2>1 DEF SendMessage, RetrySend, TypeOK
  <2>3. \A n \in Msg \ {m} : out'[n] = out[n] /\ try'[n] = try[n]
    BY <1>1, <2>1 DEF SendMessage, RetrySend, TypeOK
  <2>4. \A r \in posts' : r[1] = m \/ (r \in posts /\ r[1] \in Msg)
    BY <2>1 DEF TypeOK
  <2>. QED
    BY <2>2, <2>3, <2>4
<1>2. ASSUME NEW m \in Msg, GiveUp(m) \/ GetReceipt(m) PROVE NewIsUntried'
  BY ZenonT(40), <1>2 DEF GiveUp, GetReceipt, TypeOK
<1>3. CASE UNCHANGED <<out, try>> /\ posts' \subseteq posts
  BY <1>3
<1>. QED
  BY ZenonT(40), <1>1, <1>2, <1>3
  DEF Next, vars, ReceiveStep, QueueMessage, Receive, BeginReply, Interrupt,
      LateAcknowledge, Restart, FlushStore, FlushSend, FlushEnd, Poll,
      DecryptEnvelope, RejectEnvelope, StoreNext, AckSend, AcknowledgeMessages,
      AckEnd, ReceiveNothing, EndReply

(* Every variable keeps its type, whatever is interrupted or restarted.    *)
THEOREM TypeCorrect == Spec => []TypeOK
<1>1. TypeInv /\ [Next]_vars => TypeInv'
  BY NextTypeOK, NextNewIsUntried DEF TypeInv
<1>. QED
  BY <1>1, InitTypeInv, PTL DEF Spec, TypeInv

-----------------------------------------------------------------------------
(* How a call begins.                                                      *)

LEMMA Begins ==
  ASSUME TypeOK, NEW p \in Proc, Receive(p) \/ BeginReply(p)
  PROVE  /\ pc[p] = "idle"
         /\ IF Encrypted
            THEN /\ pc'[p] \in {"poll", "flush", "reply"}
                 /\ lock = NoProc /\ lock' = p /\ mem'[p] = disk
            ELSE pc'[p] = "poll" /\ UNCHANGED <<lock, mem>>
         /\ \A q \in Proc \ {p} : pc'[q] = pc[q] /\ mem'[q] = mem[q]
         /\ UNCHANGED <<serverVars, senderVars, storeVars, batch, done, acks,
                        faults>>
<1>1. CASE Receive(p)
  <2>1. \A q \in Proc \ {p} : pc'[q] = pc[q] /\ mem'[q] = mem[q]
    BY <1>1 DEF Receive, Enter, Goto, TypeOK
  <2>. QED
    BY <1>1, <2>1 DEF Receive, Enter, Goto, TypeOK
<1>2. CASE BeginReply(p)
  BY <1>2 DEF BeginReply, Enter, Goto, TypeOK
<1>. QED
  BY <1>1, <1>2

-----------------------------------------------------------------------------
(* What the actions do to the history.                                     *)

LEMMA StoreMessageStores ==
  ASSUME TypeOK, NEW i \in Ids, StoreMessage(i)
  PROVE  Stored' = Stored \union {i}
<1>1. CASE i \in Stored
  BY <1>1 DEF StoreMessage, Stored
<1>2. CASE i \notin Stored
  BY <1>2, RangeAppend DEF StoreMessage, Stored, TypeOK
<1>. QED
  BY <1>1, <1>2

LEMMA FlushStoreStores ==
  ASSUME TypeOK, NEW p \in Proc, FlushStore(p)
  PROVE  \E i \in mem[p].journal \ Stored : Stored' = Stored \union {i}
BY StoreMessageStores DEF FlushStore, TypeOK, State

LEMMA StoreNextStores ==
  ASSUME TypeOK, NEW p \in Proc, StoreNext(p)
  PROVE  \E i \in Current(p) :
           /\ i \in Ids
           /\ Stored' = Stored \union {i}
           /\ done' = [done EXCEPT ![p] = @ \union {i}]
BY StoreMessageStores DEF StoreNext, Current, TypeOK

LEMMA StoredGrows ==
  ASSUME TypeOK, [Next]_vars
  PROVE  Stored \subseteq Stored'
<1>1. CASE UNCHANGED history
  BY <1>1 DEF Stored
<1>2. ASSUME NEW p \in Proc, FlushStore(p) \/ StoreNext(p)
      PROVE  Stored \subseteq Stored'
  BY <1>2, FlushStoreStores, StoreNextStores
<1>. QED
  BY <1>1, <1>2
  DEF Next, vars, ReceiveStep, SendMessage, RetrySend, GiveUp, GetReceipt,
      Attempt, QueueMessage, Receive, BeginReply, Interrupt, LateAcknowledge,
      Restart, FlushSend, FlushEnd, Poll, DecryptEnvelope, RejectEnvelope,
      AckSend, AcknowledgeMessages, AckEnd, ReceiveNothing, EndReply

-----------------------------------------------------------------------------
(* Nothing is acknowledged before it is stored.                            *)

LEMMA NextAckedIsStored ==
  ASSUME DeliveryInv, [Next]_vars
  PROVE  AckedIsStored'
<1>. USE DEF DeliveryInv, AckedIsStored, Goto
<1>1. Stored \subseteq Stored'
  BY StoredGrows
<1>2. CASE UNCHANGED <<done, pc, mem, acks>>
  BY <1>1, <1>2
<1>3. ASSUME NEW p \in Proc, Leave(p), acks' \subseteq acks
      PROVE  AckedIsStored'
  BY <1>1, <1>3 DEF Leave, TypeOK, Empty
<1>4. ASSUME NEW p \in Proc, Interrupt(p) PROVE AckedIsStored'
  <2>1. \A ids \in acks' : ids \subseteq Stored
    BY <1>4 DEF Interrupt, AckIds
  <2>. QED
    BY <1>1, <1>4, <2>1 DEF Interrupt, Leave, TypeOK, Empty
<1>5. ASSUME NEW p \in Proc, Receive(p) \/ BeginReply(p) PROVE AckedIsStored'
  BY <1>1, <1>5, Begins
<1>6. ASSUME NEW p \in Proc, FlushSend(p) PROVE AckedIsStored'
  BY <1>1, <1>6 DEF FlushSend, TypeOK
<1>7. ASSUME NEW p \in Proc, FlushEnd(p) PROVE AckedIsStored'
  BY <1>1, <1>7 DEF FlushEnd, Save, TypeOK
<1>8. ASSUME NEW p \in Proc, Poll(p) PROVE AckedIsStored'
  BY <1>1, <1>8 DEF Poll, TypeOK
<1>9. ASSUME NEW p \in Proc, DecryptEnvelope(p) PROVE AckedIsStored'
  BY <1>1, <1>9 DEF DecryptEnvelope, Save, TypeOK
<1>10. ASSUME NEW p \in Proc, StoreNext(p) PROVE AckedIsStored'
  <2>1. PICK i \in Current(p) :
          Stored' = Stored \union {i} /\ done' = [done EXCEPT ![p] = @ \union {i}]
    BY <1>10, StoreNextStores
  <2>2. \A q \in Proc : done'[q] \subseteq Stored'
    BY <2>1 DEF TypeOK
  <2>. QED
    BY <1>1, <1>10, <2>2 DEF StoreNext, TypeOK
<1>11. ASSUME NEW p \in Proc, AckSend(p) PROVE AckedIsStored'
  BY <1>1, <1>11 DEF AckSend, TypeOK
<1>12. ASSUME NEW p \in Proc, AcknowledgeMessages(p) PROVE AckedIsStored'
  BY <1>1, <1>12 DEF AcknowledgeMessages, TypeOK
<1>13. CASE Restart \/ \E ids \in acks : LateAcknowledge(ids)
  BY <1>1, <1>13 DEF Restart, LateAcknowledge
<1>. QED
  BY ZenonT(40), <1>2, <1>3, <1>4, <1>5, <1>6, <1>7, <1>8, <1>9, <1>10, <1>11, <1>12, <1>13
  DEF Next, vars, ReceiveStep, SendMessage, RetrySend, GiveUp, GetReceipt,
      Attempt, QueueMessage, FlushStore, RejectEnvelope, AckEnd,
      ReceiveNothing, EndReply

LEMMA NextNothingLost ==
  ASSUME DeliveryInv, [Next]_vars
  PROVE  NothingLost'
<1>. USE DEF DeliveryInv, NothingLost, Goto
<1>1. Stored \subseteq Stored'
  BY StoredGrows
<1>2. CASE UNCHANGED <<accepted, queue, lost>>
  BY <1>1, <1>2 DEF Ids
<1>3. ASSUME NEW m \in Msg, NEW k \in 1..MaxTries, QueueMessage(m, k)
      PROVE  NothingLost'
  <2>1. CASE accepted' = Append(accepted, m) /\ queue' = queue \union {Len(accepted) + 1}
    <3>1. Ids' = Ids \union {Len(accepted) + 1}
      BY <2>1 DEF Ids, TypeOK
    <3>. QED
      BY <1>1, <1>3, <2>1, <3>1 DEF QueueMessage
  <2>. QED
    BY <1>2, <1>3, <2>1 DEF QueueMessage, NewId
<1>4. ASSUME NEW p \in Proc, AcknowledgeMessages(p) PROVE NothingLost'
  BY <1>1, <1>4 DEF AcknowledgeMessages, AckIds, AckedIsStored, Ids
<1>5. ASSUME NEW ids \in acks, LateAcknowledge(ids) PROVE NothingLost'
  BY <1>1, <1>5 DEF LateAcknowledge, AckedIsStored, Ids
<1>6. CASE Restart
  BY <1>1, <1>6 DEF Restart, Ids
<1>. QED
  BY <1>2, <1>3, <1>4, <1>5, <1>6
  DEF Next, vars, ReceiveStep, SendMessage, RetrySend, GiveUp, GetReceipt,
      Attempt, Receive, BeginReply, Interrupt, FlushStore, FlushSend, FlushEnd,
      Poll, DecryptEnvelope, RejectEnvelope, StoreNext, AckSend, AckEnd,
      ReceiveNothing, EndReply

-----------------------------------------------------------------------------
(* An answered acknowledgment has emptied the queue of its ids.            *)

LEMMA NextAnsweredIsUnqueued ==
  ASSUME DeliveryInv, [Next]_vars
  PROVE  AnsweredIsUnqueued'
<1>. USE DEF DeliveryInv, AnsweredIsUnqueued, Goto
<1>1. CASE UNCHANGED <<queue, done, pc, mem>>
  BY <1>1
<1>2. ASSUME NEW m \in Msg, NEW k \in 1..MaxTries, QueueMessage(m, k)
      PROVE  AnsweredIsUnqueued'
  <2>1. queue' \subseteq queue \union {Len(accepted) + 1}
    BY <1>2 DEF QueueMessage, NewId
  <2>2. Len(accepted) + 1 \notin Ids
    BY DEF Ids, TypeOK
  <2>3. \A p \in Proc : mem[p].journal \subseteq Ids /\ done[p] \subseteq Ids
    BY DEF TypeOK, State
  <2>. QED
    BY <1>2, <2>1, <2>2, <2>3 DEF QueueMessage
<1>3. ASSUME NEW p \in Proc, AcknowledgeMessages(p) PROVE AnsweredIsUnqueued'
  BY <1>3 DEF AcknowledgeMessages, AckIds, TypeOK
<1>4. CASE Restart \/ \E ids \in acks : LateAcknowledge(ids)
  BY <1>4 DEF Restart, LateAcknowledge
<1>5. ASSUME NEW p \in Proc, UNCHANGED queue,
             pc'[p] \notin {"flushDone", "ackDone"},
             \A q \in Proc \ {p} :
               pc'[q] = pc[q] /\ mem'[q] = mem[q] /\ done'[q] = done[q]
      PROVE  AnsweredIsUnqueued'
  BY <1>5
<1>6. ASSUME NEW p \in Proc, Leave(p), UNCHANGED queue
      PROVE  AnsweredIsUnqueued'
  BY <1>5, <1>6 DEF Leave, TypeOK
<1>7. ASSUME NEW p \in Proc, Receive(p) \/ BeginReply(p)
      PROVE  AnsweredIsUnqueued'
  BY <1>5, <1>7, Begins
<1>8. ASSUME NEW p \in Proc, FlushSend(p) \/ AckSend(p)
      PROVE  AnsweredIsUnqueued'
  BY <1>5, <1>8 DEF FlushSend, AckSend, TypeOK
<1>9. ASSUME NEW p \in Proc, FlushEnd(p) \/ Poll(p) PROVE AnsweredIsUnqueued'
  BY <1>5, <1>9 DEF FlushEnd, Poll, Save, TypeOK
<1>10. ASSUME NEW p \in Proc, DecryptEnvelope(p) PROVE AnsweredIsUnqueued'
  BY <1>5, <1>10 DEF DecryptEnvelope, Save, TypeOK
<1>11. ASSUME NEW p \in Proc, StoreNext(p) PROVE AnsweredIsUnqueued'
  BY <1>5, <1>11 DEF StoreNext, TypeOK
<1>. QED
  BY <1>1, <1>2, <1>3, <1>4, <1>6, <1>7, <1>8, <1>9, <1>10, <1>11
  DEF Next, vars, ReceiveStep, SendMessage, RetrySend, GiveUp, GetReceipt,
      Attempt, Interrupt, FlushStore, RejectEnvelope, AckEnd, ReceiveNothing,
      EndReply

-----------------------------------------------------------------------------
(* The lock serialises the read and the save of the state file.            *)

LEMMA NextHolderIsCurrent ==
  ASSUME DeliveryInv, [Next]_vars
  PROVE  HolderIsCurrent'
<1>. USE DeliveryAssumption DEF DeliveryAssumption, DeliveryInv, HolderIsCurrent, Goto
<1>1. CASE UNCHANGED <<lock, disk, mem, pc>>
  BY <1>1
<1>2. ASSUME NEW p \in Proc, Leave(p), Encrypted, lock = p \/ UNCHANGED disk
      PROVE  HolderIsCurrent'
  BY <1>2 DEF Leave, TypeOK
<1>3. ASSUME NEW p \in Proc, Leave(p), ~Encrypted, UNCHANGED disk
      PROVE  HolderIsCurrent'
  BY <1>3 DEF Leave, TypeOK
<1>4. ASSUME NEW p \in Proc, Receive(p) \/ BeginReply(p) PROVE HolderIsCurrent'
  BY <1>4, Begins
<1>5. ASSUME NEW p \in Proc, FlushSend(p) \/ AckSend(p) PROVE HolderIsCurrent'
  BY <1>5 DEF FlushSend, AckSend, TypeOK
<1>6. ASSUME NEW p \in Proc, FlushEnd(p) PROVE HolderIsCurrent'
  BY <1>6 DEF FlushEnd, Save, TypeOK
<1>7. ASSUME NEW p \in Proc, Poll(p) PROVE HolderIsCurrent'
  BY <1>7 DEF Poll, TypeOK
<1>8. ASSUME NEW p \in Proc, DecryptEnvelope(p) PROVE HolderIsCurrent'
  BY ZenonT(40), <1>8 DEF DecryptEnvelope, Save, TypeOK
<1>9. ASSUME NEW p \in Proc, StoreNext(p) PROVE HolderIsCurrent'
  BY <1>9 DEF StoreNext, TypeOK
<1>10. ASSUME NEW p \in Proc, AcknowledgeMessages(p) PROVE HolderIsCurrent'
  BY <1>10 DEF AcknowledgeMessages, TypeOK
<1>11. ASSUME NEW p \in Proc, RejectEnvelope(p) \/ ReceiveNothing(p) \/ Interrupt(p)
       PROVE  HolderIsCurrent'
  BY <1>2, <1>3, <1>11 DEF RejectEnvelope, ReceiveNothing, Interrupt
<1>12. ASSUME NEW p \in Proc, AckEnd(p) \/ EndReply(p) PROVE HolderIsCurrent'
  BY <1>2, <1>3, <1>12 DEF AckEnd, EndReply
<1>. QED
  BY ZenonT(40), <1>1, <1>4, <1>5, <1>6, <1>7, <1>8, <1>9, <1>10, <1>11, <1>12
  DEF Next, vars, ReceiveStep, SendMessage, RetrySend, GiveUp, GetReceipt,
      Attempt, QueueMessage, LateAcknowledge, Restart, FlushStore

-----------------------------------------------------------------------------
(* What the relay queues, and under which ids.                             *)

(* A submission either is answered by its receipt or gets the next id.     *)
LEMMA Queues ==
  ASSUME TypeOK, NEW m \in Msg, NEW k \in 1..MaxTries, QueueMessage(m, k)
  PROVE  \/ /\ receipts[m] # 0
            /\ receipts' = receipts
            /\ UNCHANGED <<accepted, queue>>
         \/ /\ receipts[m] = 0
            /\ accepted' = Append(accepted, m)
            /\ Ids' = Ids \union {Len(accepted) + 1}
            /\ Len(accepted) + 1 \notin Ids
            /\ \A i \in Ids : accepted'[i] = accepted[i]
            /\ accepted'[Len(accepted) + 1] = m
            /\ queue' = queue \union {Len(accepted) + 1}
            /\ receipts' = [receipts EXCEPT ![m] = Len(accepted) + 1]
<1>1. CASE receipts[m] # 0
  BY <1>1 DEF QueueMessage, KnownReceipt, NewId, TypeOK
<1>2. CASE receipts[m] = 0
  <2>1. /\ accepted' = Append(accepted, m)
        /\ queue' = queue \union {Len(accepted) + 1}
        /\ receipts' = [receipts EXCEPT ![m] = Len(accepted) + 1]
    BY <1>2 DEF QueueMessage, KnownReceipt, NewId
  <2>2. /\ Ids' = Ids \union {Len(accepted) + 1}
        /\ Len(accepted) + 1 \notin Ids
        /\ \A i \in Ids : accepted'[i] = accepted[i]
        /\ accepted'[Len(accepted) + 1] = m
    BY <2>1 DEF Ids, TypeOK
  <2>. QED
    BY <1>2, <2>1, <2>2
<1>. QED
  BY <1>1, <1>2

LEMMA NextReceiptIsTheId ==
  ASSUME DeliveryInv, [Next]_vars
  PROVE  ReceiptIsTheId'
<1>. USE DEF DeliveryInv, ReceiptIsTheId
<1>1. CASE UNCHANGED <<accepted, receipts, restarts>>
  BY <1>1 DEF Ids
<1>2. ASSUME NEW m \in Msg, NEW k \in 1..MaxTries, QueueMessage(m, k)
      PROVE  ReceiptIsTheId'
  <2>1. UNCHANGED restarts
    BY <1>2 DEF QueueMessage
  <2>2. \A i \in Ids : i # 0 /\ accepted[i] \in Msg
    BY DEF Ids, TypeOK
  <2>3. CASE UNCHANGED <<accepted, receipts>>
    BY <1>1, <2>1, <2>3
  <2>4. CASE /\ receipts[m] = 0
             /\ Ids' = Ids \union {Len(accepted) + 1}
             /\ \A i \in Ids : accepted'[i] = accepted[i]
             /\ accepted'[Len(accepted) + 1] = m
             /\ receipts' = [receipts EXCEPT ![m] = Len(accepted) + 1]
    <3>1. receipts'[m] = Len(accepted) + 1
      BY <2>4 DEF TypeOK
    <3>2. restarts = 0 => \A i \in Ids : receipts'[accepted[i]] = i
      BY <2>2, <2>4 DEF TypeOK
    <3>. QED
      BY <2>1, <2>4, <3>1, <3>2
  <2>. QED
    BY <1>2, <2>3, <2>4, Queues
<1>3. CASE Restart
  BY <1>3 DEF Restart, TypeOK
<1>. QED
  BY <1>1, <1>2, <1>3
  DEF Next, vars, ReceiveStep, SendMessage, RetrySend, GiveUp, GetReceipt,
      Attempt, Receive, BeginReply, Interrupt, LateAcknowledge, FlushStore,
      FlushSend, FlushEnd, Poll, DecryptEnvelope, RejectEnvelope, StoreNext,
      AckSend, AcknowledgeMessages, AckEnd, ReceiveNothing, EndReply

LEMMA NextPlaintextIsQueuedOnce ==
  ASSUME DeliveryInv, [Next]_vars
  PROVE  PlaintextIsQueuedOnce'
<1>. SUFFICES ASSUME ~Encrypted PROVE PlaintextIsQueuedOnce'
  BY DEF PlaintextIsQueuedOnce
<1>. USE DEF DeliveryInv, PlaintextIsQueuedOnce, RetryQueuesOnce, IsInjective
<1>1. CASE UNCHANGED <<accepted, out>> /\ posts' \subseteq posts
  BY <1>1
<1>2. ASSUME NEW m \in Msg, SendMessage(m) PROVE PlaintextIsQueuedOnce'
  <2>1. m \notin Range(accepted) /\ UNCHANGED accepted
    BY <1>2 DEF SendMessage, Attempt
  <2>2. \A n \in Msg \ {m} : out'[n] = out[n]
    BY <1>2 DEF SendMessage, TypeOK
  <2>3. posts' = posts \union {<<m, 1>>}
    BY <1>2 DEF SendMessage, Attempt, NewIsUntried
  <2>4. Range(accepted) \subseteq Msg
    BY DEF TypeOK, Range
  <2>. QED
    BY <2>1, <2>2, <2>3, <2>4
<1>3. ASSUME NEW m \in Msg, RetrySend(m) PROVE FALSE
  BY <1>3 DEF RetrySend, NewIsUntried, TypeOK
<1>4. ASSUME NEW m \in Msg, GiveUp(m) \/ GetReceipt(m)
      PROVE  PlaintextIsQueuedOnce'
  <2>1. \A n \in Msg : out'[n] = "new" => out[n] = "new"
    BY <1>4 DEF GiveUp, GetReceipt, TypeOK
  <2>2. Range(accepted) \subseteq Msg
    BY DEF TypeOK, Range
  <2>3. UNCHANGED <<accepted, posts>>
    BY <1>4 DEF GiveUp, GetReceipt
  <2>. QED
    BY <2>1, <2>2, <2>3
<1>5. ASSUME NEW m \in Msg, NEW k \in 1..MaxTries, QueueMessage(m, k)
      PROVE  PlaintextIsQueuedOnce'
  <2>1. k = 1 /\ <<m, 1>> \in posts /\ posts' = posts \ {<<m, 1>>} /\ out' = out
    BY <1>5 DEF QueueMessage
  <2>2. m \notin Range(accepted) /\ out[m] # "new"
    BY <2>1 DEF NewIsUntried
  <2>3. CASE UNCHANGED accepted
    BY <1>1, <2>1, <2>3
  <2>4. CASE accepted' = Append(accepted, m)
    <3>1. Range(accepted') = Range(accepted) \union {m}
      BY <2>4, RangeAppend DEF TypeOK
    <3>2. \A i, j \in DOMAIN accepted' : accepted'[i] = accepted'[j] => i = j
      BY <2>2, <2>4 DEF TypeOK, Range
    <3>. QED
      BY <2>1, <2>2, <3>1, <3>2
  <2>. QED
    BY <1>5, <2>3, <2>4, Queues
<1>6. CASE Restart
  BY <1>1, <1>6 DEF Restart
<1>. QED
  BY <1>1, <1>2, <1>3, <1>4, <1>5, <1>6
  DEF Next, vars, ReceiveStep, Receive, BeginReply, Interrupt,
      LateAcknowledge, FlushStore, FlushSend, FlushEnd, Poll, DecryptEnvelope,
      RejectEnvelope, StoreNext, AckSend, AcknowledgeMessages, AckEnd,
      ReceiveNothing, EndReply

-----------------------------------------------------------------------------
(* No delivery id is stored twice.                                         *)

LEMMA StoreMessageInjective ==
  ASSUME TypeOK, IsInjective(history), NEW i \in Ids, StoreMessage(i)
  PROVE  IsInjective(history')
<1>1. CASE i \in Stored
  BY <1>1 DEF StoreMessage
<1>2. CASE i \notin Stored
  <2>1. history' = Append(history, i) /\ \A k \in DOMAIN history : history[k] # i
    BY <1>2 DEF StoreMessage, Stored, Range
  <2>. QED
    BY <2>1 DEF IsInjective, TypeOK
<1>. QED
  BY <1>1, <1>2

LEMMA NextHistoryInjective ==
  ASSUME DeliveryInv, [Next]_vars
  PROVE  IsInjective(history')
<1>. USE DEF DeliveryInv
<1>1. CASE UNCHANGED history
  BY <1>1
<1>2. ASSUME NEW p \in Proc, FlushStore(p) PROVE IsInjective(history')
  BY <1>2, StoreMessageInjective DEF FlushStore, TypeOK, State
<1>3. ASSUME NEW p \in Proc, StoreNext(p) PROVE IsInjective(history')
  BY <1>3, StoreMessageInjective DEF StoreNext, Current, TypeOK
<1>. QED
  BY <1>1, <1>2, <1>3
  DEF Next, vars, ReceiveStep, SendMessage, RetrySend, GiveUp, GetReceipt,
      Attempt, QueueMessage, Receive, BeginReply, Interrupt, LateAcknowledge,
      Restart, FlushSend, FlushEnd, Poll, DecryptEnvelope, RejectEnvelope,
      AckSend, AcknowledgeMessages, AckEnd, ReceiveNothing, EndReply

-----------------------------------------------------------------------------
(* The state file, as the holder of the lock changes it.                   *)

(* What p opens is the one oldest id of its batch, with an unspent key.    *)
LEMMA Decrypts ==
  ASSUME DeliveryInv, NEW p \in Proc, DecryptEnvelope(p)
  PROVE  /\ Encrypted /\ lock = p
         /\ UNCHANGED <<accepted, queue, receipts, restarts, history, batch>>
         /\ \A q \in Proc \ {p} : pc'[q] = pc[q]
         /\ \E i \in Ids :
              /\ Current(p) = {i}
              /\ \/ i \in disk.journal /\ UNCHANGED disk
                 \/ /\ accepted[i] \notin disk.opened
                    /\ disk'.journal = disk.journal \union {i}
                    /\ disk'.opened = disk.opened \union {accepted[i]}
<1>. USE DEF DeliveryInv
<1>1. Encrypted /\ lock = p /\ mem[p] = disk
  BY DEF DecryptEnvelope, HolderIsCurrent
<1>2. PICK i \in Current(p) :
        /\ i \in mem[p].journal \/ Opens(p, i)
        /\ IF i \in mem[p].journal
           THEN UNCHANGED <<mem, disk>>
           ELSE Save(p, [journal |-> mem[p].journal \union {i},
                         opened  |-> mem[p].opened \union {accepted[i]}])
  BY DEF DecryptEnvelope
<1>3. batch[p] \subseteq Ids /\ Ids \subseteq Nat
  BY DEF TypeOK, Ids
<1>4. i \in Ids /\ Current(p) = {i}
  <2>1. i \in batch[p] /\ i \in Nat
    BY <1>2, <1>3 DEF Current
  <2>2. \A j \in Current(p) : j \in Nat /\ j <= i /\ i <= j
    BY <1>2, <1>3, <2>1 DEF Current
  <2>3. \A j \in Current(p) : j = i
    BY <2>1, <2>2
  <2>. QED
    BY <1>2, <1>3, <2>1, <2>3
<1>5. \/ i \in disk.journal /\ UNCHANGED disk
      \/ /\ accepted[i] \notin disk.opened
         /\ disk'.journal = disk.journal \union {i}
         /\ disk'.opened = disk.opened \union {accepted[i]}
  BY <1>1, <1>2 DEF Opens, Save
<1>6. /\ UNCHANGED <<accepted, queue, receipts, restarts, history, batch>>
      /\ \A q \in Proc \ {p} : pc'[q] = pc[q]
  BY DEF DecryptEnvelope, Goto, TypeOK
<1>. QED
  BY <1>1, <1>4, <1>5, <1>6

LEMMA NextRedeliveryNeedsNoKey ==
  ASSUME DeliveryInv, [Next]_vars
  PROVE  RedeliveryNeedsNoKey'
<1>. USE DEF DeliveryInv, RedeliveryNeedsNoKey
<1>1. CASE UNCHANGED <<accepted, disk, restarts>> /\ queue' \subseteq queue
  BY <1>1
<1>2. CASE Restart
  BY <1>2 DEF Restart, TypeOK
<1>3. CASE ~Encrypted
  <2>1. disk' = Empty
    BY <1>3, NextHolderIsCurrent DEF HolderIsCurrent
  <2>. QED
    BY <2>1 DEF Empty
<1>4. ASSUME Encrypted, NEW m \in Msg, NEW k \in 1..MaxTries, QueueMessage(m, k)
      PROVE  RedeliveryNeedsNoKey'
  <2>1. UNCHANGED <<disk, restarts>> /\ queue \subseteq Ids
    BY <1>4 DEF QueueMessage, TypeOK
  <2>2. CASE UNCHANGED <<accepted, queue>>
    BY <1>1, <2>1, <2>2
  <2>3. CASE /\ receipts[m] = 0
             /\ \A i \in Ids : accepted'[i] = accepted[i]
             /\ accepted'[Len(accepted) + 1] = m
             /\ queue' = queue \union {Len(accepted) + 1}
    <3>1. ASSUME restarts = 0 PROVE m \notin disk.opened
      <4>1. \A i \in Ids : i # 0 /\ receipts[accepted[i]] = i
        BY <3>1 DEF ReceiptIsTheId, Ids, TypeOK
      <4>2. m \notin Range(accepted)
        BY <2>3, <4>1 DEF Range, Ids
      <4>. QED
        BY <1>4, <4>2 DEF StoredIsSpent
    <3>. QED
      BY <2>1, <2>3, <3>1
  <2>. QED
    BY <1>4, <2>2, <2>3, Queues
<1>5. ASSUME NEW p \in Proc, FlushEnd(p), Encrypted PROVE RedeliveryNeedsNoKey'
  <2>1. mem[p] = disk /\ mem[p].journal \intersect queue = {}
    BY <1>5 DEF FlushEnd, HolderIsCurrent, AnsweredIsUnqueued
  <2>2. disk'.opened = disk.opened /\ UNCHANGED <<accepted, queue, restarts>>
    BY <1>5, <2>1 DEF FlushEnd, Save, TypeOK, State
  <2>. QED
    BY <2>1, <2>2
<1>6. ASSUME NEW p \in Proc, DecryptEnvelope(p) PROVE RedeliveryNeedsNoKey'
  <2>1. PICK i \in Ids :
          \/ i \in disk.journal /\ UNCHANGED disk
          \/ /\ accepted[i] \notin disk.opened
             /\ disk'.journal = disk.journal \union {i}
             /\ disk'.opened = disk.opened \union {accepted[i]}
    BY <1>6, Decrypts
  <2>2. UNCHANGED <<accepted, queue, restarts>> /\ queue \subseteq Ids
    BY <1>6, Decrypts DEF TypeOK
  <2>3. restarts = 0 => \A j \in Ids : accepted[j] = accepted[i] => j = i
    BY DEF ReceiptIsTheId
  <2>. QED
    BY <2>1, <2>2, <2>3
<1>7. ASSUME NEW p \in Proc, AckEnd(p), Encrypted PROVE RedeliveryNeedsNoKey'
  <2>1. mem[p] = disk /\ done[p] \intersect queue = {}
    BY <1>7 DEF AckEnd, HolderIsCurrent, AnsweredIsUnqueued
  <2>2. /\ disk'.opened = disk.opened /\ disk'.journal = disk.journal \ done[p]
        /\ UNCHANGED <<accepted, queue, restarts>>
    BY <1>7, <2>1 DEF AckEnd, TypeOK, State
  <2>. QED
    BY <2>1, <2>2
<1>8. ASSUME NEW p \in Proc, EndReply(p), Encrypted PROVE RedeliveryNeedsNoKey'
  BY <1>8 DEF EndReply, HolderIsCurrent
<1>9. CASE \E p \in Proc : AcknowledgeMessages(p)
  BY <1>1, <1>9 DEF AcknowledgeMessages
<1>10. CASE \E ids \in acks : LateAcknowledge(ids)
  BY <1>1, <1>10 DEF LateAcknowledge
<1>. QED
  BY <1>1, <1>2, <1>3, <1>4, <1>5, <1>6, <1>7, <1>8, <1>9, <1>10
  DEF Next, vars, ReceiveStep, SendMessage, RetrySend, GiveUp, GetReceipt,
      Attempt, Receive, BeginReply, Interrupt, FlushStore, FlushSend, Poll,
      RejectEnvelope, StoreNext, AckSend, ReceiveNothing

LEMMA NextStoredIsSpent ==
  ASSUME DeliveryInv, [Next]_vars
  PROVE  StoredIsSpent'
<1>. SUFFICES ASSUME Encrypted PROVE StoredIsSpent'
  BY DEF StoredIsSpent
<1>. USE DEF DeliveryInv, StoredIsSpent, Goto
<1>1. ASSUME UNCHANGED <<accepted, disk, Stored>>,
             \A q \in Proc : pc'[q] = "store" => pc[q] = "store" /\ batch'[q] = batch[q]
      PROVE  StoredIsSpent'
  BY <1>1 DEF Current
<1>2. \A p, q \in Proc : lock = p /\ pc[q] = "store" => p = q
  BY DEF HolderIsCurrent
<1>3. Stored \subseteq Ids /\ disk.journal \subseteq Ids
  BY DEF Stored, Range, TypeOK, State
<1>4. ASSUME NEW m \in Msg, NEW k \in 1..MaxTries, QueueMessage(m, k)
      PROVE  StoredIsSpent'
  <2>1. UNCHANGED <<disk, Stored, pc, batch>>
    BY <1>4 DEF QueueMessage, Stored
  <2>2. \A i \in Ids : i \in Ids' /\ accepted'[i] = accepted[i]
    <3>1. CASE UNCHANGED accepted
      BY <3>1 DEF Ids
    <3>2. CASE /\ Ids' = Ids \union {Len(accepted) + 1}
               /\ \A i \in Ids : accepted'[i] = accepted[i]
      BY <3>2
    <3>. QED
      BY <1>4, <3>1, <3>2, Queues
  <2>3. Range(accepted) \subseteq Range(accepted')
    BY <2>2 DEF Range, Ids
  <2>. QED
    BY <1>3, <2>1, <2>2, <2>3 DEF Current
<1>5. ASSUME NEW p \in Proc, Leave(p), UNCHANGED <<accepted, disk, history>>
      PROVE  StoredIsSpent'
  <2>1. \A q \in Proc : pc'[q] = "store" => pc[q] = "store" /\ batch'[q] = batch[q]
    BY <1>5 DEF Leave, TypeOK
  <2>. QED
    BY <1>1, <1>5, <2>1 DEF Stored
<1>6. ASSUME NEW p \in Proc, lock = p, pc'[p] # "store",
             UNCHANGED <<accepted, Stored>>,
             disk'.opened = disk.opened, disk'.journal \subseteq disk.journal,
             \A q \in Proc \ {p} : pc'[q] = pc[q]
      PROVE  StoredIsSpent'
  BY <1>2, <1>6
<1>7. ASSUME NEW p \in Proc, Receive(p) \/ BeginReply(p) PROVE StoredIsSpent'
  <2>1. \A q \in Proc : pc'[q] = "store" => pc[q] = "store" /\ batch'[q] = batch[q]
    BY <1>7, Begins
  <2>. QED
    BY <1>1, <1>7, <2>1, Begins DEF Stored
<1>8. ASSUME NEW p \in Proc, FlushStore(p) PROVE StoredIsSpent'
  <2>1. PICK i \in mem[p].journal : Stored' = Stored \union {i}
    BY <1>8, FlushStoreStores
  <2>2. mem[p] = disk /\ UNCHANGED <<accepted, disk, pc, batch>>
    BY <1>8 DEF FlushStore, HolderIsCurrent
  <2>. QED
    BY <2>1, <2>2 DEF Current
<1>9. ASSUME NEW p \in Proc, FlushSend(p) \/ AckSend(p) \/ Poll(p)
      PROVE  StoredIsSpent'
  <2>1. \A q \in Proc : pc'[q] = "store" => pc[q] = "store" /\ batch'[q] = batch[q]
    BY <1>9 DEF FlushSend, AckSend, Poll, TypeOK
  <2>2. UNCHANGED <<accepted, disk, Stored>>
    BY <1>9 DEF FlushSend, AckSend, Poll, Stored
  <2>. QED
    BY <1>1, <2>1, <2>2
<1>10. ASSUME NEW p \in Proc, FlushEnd(p) PROVE StoredIsSpent'
  <2>1. lock = p /\ mem[p] = disk
    BY <1>10 DEF FlushEnd, HolderIsCurrent
  <2>2. disk'.opened = disk.opened /\ disk'.journal = {}
    BY <1>10, <2>1 DEF FlushEnd, Save, TypeOK, State
  <2>3. /\ UNCHANGED <<accepted, Stored>> /\ pc'[p] # "store"
        /\ \A q \in Proc \ {p} : pc'[q] = pc[q]
    BY <1>10 DEF FlushEnd, Stored, TypeOK
  <2>. QED
    BY <1>6, <2>1, <2>2, <2>3
<1>11. ASSUME NEW p \in Proc, DecryptEnvelope(p) PROVE StoredIsSpent'
  <2>1. /\ lock = p /\ UNCHANGED <<accepted, Stored, batch>>
        /\ \A q \in Proc \ {p} : pc'[q] = pc[q]
    BY <1>11, Decrypts DEF Stored
  <2>2. PICK i \in Ids :
          /\ Current(p) = {i}
          /\ \/ i \in disk.journal /\ UNCHANGED disk
             \/ /\ accepted[i] \notin disk.opened
                /\ disk'.journal = disk.journal \union {i}
                /\ disk'.opened = disk.opened \union {accepted[i]}
    BY <1>11, Decrypts
  <2>3. \A q \in Proc : pc'[q] = "store" => Current(q)' \subseteq disk'.journal
    <3>1. \A q \in Proc : pc'[q] = "store" => q = p
      BY <1>2, <2>1
    <3>. QED
      BY <2>1, <2>2, <3>1 DEF Current
  <2>4. accepted[i] \in Range(accepted)
    BY DEF Range, Ids
  <2>. QED
    BY <2>1, <2>2, <2>3, <2>4
<1>12. ASSUME NEW p \in Proc, StoreNext(p) PROVE StoredIsSpent'
  <2>1. PICK i \in Current(p) : Stored' = Stored \union {i}
    BY <1>12, StoreNextStores
  <2>2. i \in disk.journal /\ UNCHANGED <<accepted, disk>>
    BY <1>12 DEF StoreNext
  <2>3. \A q \in Proc : pc'[q] = "store" => pc[q] = "store" /\ batch'[q] = batch[q]
    BY <1>12 DEF StoreNext, TypeOK
  <2>. QED
    BY <2>1, <2>2, <2>3 DEF Current
<1>13. ASSUME NEW p \in Proc, AcknowledgeMessages(p) PROVE StoredIsSpent'
  <2>1. \A q \in Proc : pc'[q] = "store" => pc[q] = "store" /\ batch'[q] = batch[q]
    BY <1>13 DEF AcknowledgeMessages, TypeOK
  <2>. QED
    BY <1>1, <1>13, <2>1 DEF AcknowledgeMessages, Stored
<1>14. ASSUME NEW p \in Proc, AckEnd(p) \/ EndReply(p) PROVE StoredIsSpent'
  <2>1. lock = p /\ mem[p] = disk
    BY <1>14 DEF AckEnd, EndReply, HolderIsCurrent
  <2>2. disk'.opened = disk.opened /\ disk'.journal \subseteq disk.journal
    BY <1>14, <2>1 DEF AckEnd, EndReply, TypeOK, State
  <2>3. /\ UNCHANGED <<accepted, Stored>> /\ pc'[p] # "store"
        /\ \A q \in Proc \ {p} : pc'[q] = pc[q]
    BY <1>14 DEF AckEnd, EndReply, Leave, Stored, TypeOK
  <2>. QED
    BY <1>6, <2>1, <2>2, <2>3
<1>15. CASE UNCHANGED <<accepted, disk, history, pc, batch>>
  BY <1>1, <1>15 DEF Stored
<1>. QED
  BY <1>4, <1>5, <1>7, <1>8, <1>9, <1>10, <1>11, <1>12, <1>13, <1>14, <1>15
  DEF Next, vars, ReceiveStep, SendMessage, RetrySend, GiveUp, GetReceipt,
      Attempt, Interrupt, LateAcknowledge, Restart, RejectEnvelope,
      ReceiveNothing

-----------------------------------------------------------------------------
(* The invariant, and the properties that follow from it.                  *)

LEMMA InitDeliveryInv == Init => DeliveryInv
<1>. SUFFICES ASSUME Init PROVE DeliveryInv
  OBVIOUS
<1>1. TypeOK /\ NewIsUntried
  BY InitTypeInv DEF TypeInv
<1>2. Stored = {} /\ Ids = {} /\ Range(accepted) = {}
  BY DEF Init, Stored, Ids, Range
<1>3. AckedIsStored /\ AnsweredIsUnqueued /\ NothingLost
  BY <1>2 DEF Init, AckedIsStored, AnsweredIsUnqueued, NothingLost
<1>4. HolderIsCurrent
  BY DeliveryAssumption DEF Init, HolderIsCurrent, DeliveryAssumption
<1>5. ReceiptIsTheId /\ RedeliveryNeedsNoKey
  BY <1>2 DEF Init, ReceiptIsTheId, RedeliveryNeedsNoKey
<1>6. PlaintextIsQueuedOnce /\ StoredIsSpent
  BY <1>2 DEF Init, PlaintextIsQueuedOnce, RetryQueuesOnce, IsInjective,
              StoredIsSpent, Empty
<1>7. IsInjective(history)
  BY DEF Init, IsInjective
<1>. QED
  BY <1>1, <1>3, <1>4, <1>5, <1>6, <1>7 DEF DeliveryInv

LEMMA NextDeliveryInv == DeliveryInv /\ [Next]_vars => DeliveryInv'
<1>. SUFFICES ASSUME DeliveryInv, [Next]_vars PROVE DeliveryInv'
  OBVIOUS
<1>1. TypeOK' /\ NewIsUntried'
  BY NextTypeOK, NextNewIsUntried DEF DeliveryInv, TypeInv
<1>2. IsInjective(history)'
  BY NextHistoryInjective
<1>. QED
  BY <1>1, <1>2, NextAckedIsStored, NextAnsweredIsUnqueued,
     NextHolderIsCurrent, NextReceiptIsTheId, NextPlaintextIsQueuedOnce,
     NextStoredIsSpent, NextNothingLost, NextRedeliveryNeedsNoKey
  DEF DeliveryInv

(* The inductive invariant of Delivery holds in every reachable state.     *)
THEOREM DeliveryCorrect == Spec => []DeliveryInv
BY InitDeliveryInv, NextDeliveryInv, PTL DEF Spec

(* An envelope the relay answered 202 for is queued, stored by the device  *)
(* or was dropped by a restart, with any number of processes, lost         *)
(* acknowledgments and interrupted calls.                                  *)
THEOREM NothingIsLost == Spec => []NothingLost
<1>1. DeliveryInv => NothingLost
  BY DEF DeliveryInv
<1>. QED
  BY <1>1, DeliveryCorrect, PTL

(* While the server stays up, a redelivered envelope whose key is spent    *)
(* has its plaintext in the journal.                                       *)
THEOREM RedeliveryIsJournaled == Spec => []RedeliveryNeedsNoKey
<1>1. DeliveryInv => RedeliveryNeedsNoKey
  BY DEF DeliveryInv
<1>. QED
  BY <1>1, DeliveryCorrect, PTL

(* The history holds no message twice: ids are stored once, and a message  *)
(* is stored under one id, because its key is spent or because a plaintext *)
(* send makes one attempt.                                                 *)
THEOREM HistoryHasNoDuplicate == Spec => []NoDuplicateHistory
<1>1. ASSUME DeliveryInv PROVE NoDuplicateHistory
  <2>1. SUFFICES ASSUME NEW a \in DOMAIN history, NEW b \in DOMAIN history,
                        accepted[history[a]] = accepted[history[b]]
                 PROVE  a = b
    BY DEF NoDuplicateHistory
  <2>2. history[a] \in Stored /\ history[b] \in Stored
    BY DEF Stored, Range
  <2>3. Stored \subseteq Ids
    BY <1>1 DEF DeliveryInv, TypeOK, Stored, Range
  <2>4. history[a] = history[b]
    <3>1. CASE Encrypted
      BY <1>1, <2>1, <2>2, <3>1 DEF DeliveryInv, StoredIsSpent
    <3>2. CASE ~Encrypted
      BY <1>1, <2>1, <2>2, <2>3, <3>2
      DEF DeliveryInv, PlaintextIsQueuedOnce, RetryQueuesOnce, IsInjective, Ids
    <3>. QED
      BY <3>1, <3>2
  <2>. QED
    BY <1>1, <2>4 DEF DeliveryInv, IsInjective
<1>. QED
  BY <1>1, DeliveryCorrect, PTL

(* No process saves over what another saved: a spent key stays spent, and  *)
(* what leaves the journal is stored and no longer queued.                 *)
THEOREM SavesAreKept == Spec => SavesLoseNothing
<1>. DEFINE Kept == /\ disk.opened \subseteq disk'.opened
                    /\ \A i \in disk.journal \ disk'.journal : i \in Stored \ queue
<1>1. ASSUME DeliveryInv, [Next]_vars PROVE [Kept]_vars
  <2>. USE <1>1 DEF DeliveryInv
  <2>1. CASE UNCHANGED disk
    BY <2>1
  <2>2. ASSUME NEW p \in Proc, FlushEnd(p) PROVE Kept
    <3>1. disk'.opened = mem[p].opened /\ disk'.journal = {}
      BY <2>2 DEF FlushEnd, Save, TypeOK, State
    <3>2. mem[p].journal \subseteq Stored \ queue
      BY <2>2 DEF FlushEnd, AckedIsStored, AnsweredIsUnqueued
    <3>3. mem[p] = disk
      BY <2>2 DEF FlushEnd, HolderIsCurrent
    <3>. QED
      BY <3>1, <3>2, <3>3
  <2>3. ASSUME NEW p \in Proc, DecryptEnvelope(p) PROVE Kept
    BY <2>3, Decrypts
  <2>4. ASSUME NEW p \in Proc, AckEnd(p), Encrypted PROVE Kept
    <3>1. mem[p] = disk
      BY <2>4 DEF AckEnd, HolderIsCurrent
    <3>2. disk'.opened = disk.opened /\ disk'.journal = disk.journal \ done[p]
      BY <2>4, <3>1 DEF AckEnd, TypeOK, State
    <3>3. done[p] \subseteq Stored \ queue
      BY <2>4 DEF AckEnd, AckedIsStored, AnsweredIsUnqueued
    <3>. QED
      BY <3>2, <3>3
  <2>5. ASSUME NEW p \in Proc, EndReply(p), Encrypted PROVE Kept
    BY <2>5 DEF EndReply, HolderIsCurrent
  <2>6. CASE ~Encrypted
    BY <2>1, <2>6, NextHolderIsCurrent DEF HolderIsCurrent
  <2>. QED
    BY <2>1, <2>2, <2>3, <2>4, <2>5, <2>6
    DEF Next, vars, ReceiveStep, SendMessage, RetrySend, GiveUp, GetReceipt,
        Attempt, QueueMessage, Receive, BeginReply, Interrupt,
        LateAcknowledge, Restart, FlushStore, FlushSend, Poll,
        RejectEnvelope, StoreNext, AckSend, AcknowledgeMessages,
        ReceiveNothing
<1>. QED
  BY <1>1, DeliveryCorrect, PTL DEF Spec, SavesLoseNothing

(* While the server stays up, the relay queues a message once however      *)
(* often it is sent again.                                                 *)
THEOREM RetriesQueueOnce == Spec => [](restarts = 0 => RetryQueuesOnce)
<1>1. DeliveryInv => (restarts = 0 => RetryQueuesOnce)
  BY DEF DeliveryInv, ReceiptIsTheId, RetryQueuesOnce, IsInjective, Ids
<1>. QED
  BY <1>1, DeliveryCorrect, PTL

-----------------------------------------------------------------------------
(* Receipts.                                                               *)

LEMMA NextAnswers ==
  ASSUME TypeOK, AnswersNameTheirMessage, SentWasAccepted, [Next]_vars
  PROVE  AnswersNameTheirMessage' /\ SentWasAccepted'
<1>. USE DEF AnswersNameTheirMessage, SentWasAccepted
<1>1. CASE UNCHANGED <<accepted, receipts, reply, sentAs, out>>
  BY <1>1 DEF Ids
<1>2. ASSUME NEW m \in Msg, SendMessage(m) \/ RetrySend(m)
      PROVE  AnswersNameTheirMessage' /\ SentWasAccepted'
  <2>1. UNCHANGED <<accepted, receipts, sentAs>> /\ reply' = [reply EXCEPT ![m] = 0]
    BY <1>2 DEF SendMessage, RetrySend, Attempt
  <2>2. \A n \in Msg : out'[n] = "sent" => out[n] = "sent"
    BY <1>2 DEF SendMessage, RetrySend, TypeOK
  <2>. QED
    BY <2>1, <2>2 DEF TypeOK, Ids
<1>3. ASSUME NEW m \in Msg, GiveUp(m) \/ GetReceipt(m)
      PROVE  AnswersNameTheirMessage' /\ SentWasAccepted'
  <2>1. CASE GiveUp(m)
    BY <2>1 DEF GiveUp, TypeOK, Ids
  <2>2. CASE GetReceipt(m)
    BY <2>2 DEF GetReceipt, TypeOK, Ids
  <2>. QED
    BY <1>3, <2>1, <2>2
<1>4. ASSUME NEW m \in Msg, NEW k \in 1..MaxTries, QueueMessage(m, k)
      PROVE  AnswersNameTheirMessage' /\ SentWasAccepted'
  <2>1. UNCHANGED <<sentAs, out>>
    BY <1>4 DEF QueueMessage
  <2>2. PICK i \in Ids' :
          /\ accepted'[i] = m
          /\ receipts' = [receipts EXCEPT ![m] = i]
          /\ reply' = [reply EXCEPT ![m] = i] \/ reply' = reply
    <3>1. CASE receipts[m] # 0
      <4>1. receipts[m] \in Ids /\ accepted[receipts[m]] = m
        BY <3>1 DEF TypeOK
      <4>. QED
        BY <1>4, <3>1, <4>1 DEF QueueMessage, KnownReceipt, Ids
    <3>2. CASE receipts[m] = 0
      <4>1. NewId \in Ids' /\ accepted'[NewId] = m
        BY <1>4, <3>2, Queues DEF NewId
      <4>. QED
        BY <1>4, <3>2, <4>1 DEF QueueMessage, KnownReceipt
    <3>. QED
      BY <3>1, <3>2 DEF TypeOK
  <2>3. \A j \in Ids : j \in Ids' /\ accepted'[j] = accepted[j]
    <3>1. CASE UNCHANGED accepted
      BY <3>1 DEF Ids
    <3>2. CASE Ids \subseteq Ids' /\ \A j \in Ids : accepted'[j] = accepted[j]
      BY <3>2
    <3>. QED
      BY <1>4, <3>1, <3>2, Queues
  <2>4. \A n \in Msg : receipts'[n] = (IF n = m THEN i ELSE receipts[n])
    BY <2>2 DEF TypeOK
  <2>5. \A n \in Msg : reply'[n] = reply[n] \/ (n = m /\ reply'[n] = i)
    BY <2>2 DEF TypeOK
  <2>6. \A n \in Msg : \A j \in {receipts[n], reply[n], sentAs[n]} :
          j # 0 => j \in Ids /\ accepted'[j] = n
    BY <2>3 DEF TypeOK
  <2>. QED
    BY <2>1, <2>2, <2>3, <2>4, <2>5, <2>6
<1>5. CASE Restart
  BY <1>5 DEF Restart, Ids
<1>. QED
  BY <1>1, <1>2, <1>3, <1>4, <1>5
  DEF Next, vars, ReceiveStep, Receive, BeginReply, Interrupt,
      LateAcknowledge, FlushStore, FlushSend, FlushEnd, Poll, DecryptEnvelope,
      RejectEnvelope, StoreNext, AckSend, AcknowledgeMessages, AckEnd,
      ReceiveNothing, EndReply

(* The message_id a sender records with its copy is that of its own        *)
(* envelope, over retries, late requests and restarts.                     *)
THEOREM ReceiptsAreTrue == Spec => []SentWasAccepted
<1>1. Init => AnswersNameTheirMessage /\ SentWasAccepted
  BY DEF Init, AnswersNameTheirMessage, SentWasAccepted
<1>2. TypeOK /\ AnswersNameTheirMessage /\ SentWasAccepted /\ [Next]_vars
        => AnswersNameTheirMessage' /\ SentWasAccepted'
  BY NextAnswers
<1>. QED
  BY <1>1, <1>2, TypeCorrect, PTL DEF Spec
=============================================================================
