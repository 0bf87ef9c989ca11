-------------------------- MODULE Delivery_refines --------------------------
(***************************************************************************)
(* Delivery implements Mailbox: proof that a device's history is the       *)
(* delivered side of a mailbox, for every set of messages and of processes *)
(* and every number of interrupted calls, when the device is encrypted or  *)
(* the server does not restart.                                            *)
(***************************************************************************)
EXTENDS Delivery_proofs

USE DEF MaxTries, serverVars, senderVars, storeVars, procVars

-----------------------------------------------------------------------------
(* What a call works on.                                                   *)

(* One process at a time is inside an encrypted call.                      *)
LEMMA OthersIdle ==
  ASSUME DeliveryInv, OrderInv, Encrypted, NEW p \in Proc, pc[p] # "idle"
  PROVE  /\ lock = p /\ mem[p] = disk
         /\ \A q \in Proc \ {p} : pc[q] = "idle" /\ batch[q] = {}
BY DEF DeliveryInv, HolderIsCurrent, OrderInv, OneIsPending

(* StoreNext stores the oldest id of the batch and takes it off.           *)
LEMMA StoresOldest ==
  ASSUME DeliveryInv, NEW p \in Proc, StoreNext(p)
  PROVE  \E i \in Ids :
           /\ Current(p) = {i}
           /\ i \in batch[p]
           /\ \A j \in batch[p] \ {i} : i < j
           /\ StoreMessage(i)
           /\ Stored' = Stored \union {i}
           /\ batch' = [batch EXCEPT ![p] = @ \ {i}]
<1>. USE DEF DeliveryInv
<1>1. PICK i \in Current(p) :
        StoreMessage(i) /\ batch' = [batch EXCEPT ![p] = @ \ {i}]
  BY DEF StoreNext
<1>2. batch[p] \subseteq Ids /\ Ids \subseteq Nat
  BY DEF TypeOK, Ids
<1>3. i \in batch[p] /\ \A j \in batch[p] : i <= j
  BY <1>1 DEF Current
<1>4. \A j \in batch[p] \ {i} : i < j
  <2>1. SUFFICES ASSUME NEW j \in batch[p], j # i PROVE i < j
    OBVIOUS
  <2>2. i \in Nat /\ j \in Nat /\ i <= j
    BY <1>2, <1>3
  <2>. QED
    BY <2>1, <2>2
<1>5. Current(p) = {i}
  <2>1. SUFFICES ASSUME NEW j \in Current(p) PROVE j = i
    BY <1>1
  <2>2. j \in batch[p] /\ j <= i /\ i <= j
    BY <1>3 DEF Current
  <2>3. i \in Nat /\ j \in Nat
    BY <1>2, <1>3, <2>2
  <2>. QED
    BY <2>2, <2>3
<1>. QED
  BY <1>1, <1>2, <1>3, <1>4, <1>5, StoreMessageStores

(* FlushStore stores the one id that an interrupted call left behind.      *)
LEMMA FlushStoresPending ==
  ASSUME DeliveryInv, OrderInv, NEW p \in Proc, FlushStore(p)
  PROVE  \E i \in Ids :
           /\ disk.journal \ Stored = {i}
           /\ StoreMessage(i)
           /\ Stored' = Stored \union {i}
<1>. USE DEF DeliveryInv
<1>1. Encrypted /\ mem[p] = disk
  BY DEF FlushStore, HolderIsCurrent
<1>2. PICK i \in disk.journal \ Stored : StoreMessage(i)
  BY <1>1 DEF FlushStore
<1>3. i \in Ids
  BY DEF TypeOK, State
<1>4. disk.journal \ Stored = {i}
  BY DEF OrderInv, OneIsPending
<1>. QED
  BY <1>2, <1>3, <1>4, StoreMessageStores

-----------------------------------------------------------------------------
(* The invariant.                                                          *)

LEMMA NextNothingSkipped ==
  ASSUME DeliveryInv, OrderInv, [Next]_vars
  PROVE  NothingSkipped'
<1>. USE DEF DeliveryInv, OrderInv, NothingSkipped, Goto
<1>1. Ids \subseteq Nat /\ Stored \subseteq Ids /\ lost \subseteq Ids
  BY DEF TypeOK, Ids, Stored, Range
<1>2. \A p \in Proc : batch[p] \subseteq Ids
  BY DEF TypeOK
<1>3. ASSUME UNCHANGED <<accepted, lost, restarts, Stored>>,
             queue' \subseteq queue,
             \A p \in Proc : batch'[p] = batch[p] \/ batch'[p] = {}
      PROVE  NothingSkipped'
  <2>1. \A i \in Ids : Before(i)' = Before(i)
    BY <1>3 DEF Before, Ids
  <2>. QED
    BY <1>1, <1>2, <1>3, <2>1
<1>4. CASE UNCHANGED <<accepted, queue, lost, restarts, history, batch>>
  BY <1>3, <1>4 DEF Stored
<1>5. ASSUME NEW p \in Proc, Leave(p),
             UNCHANGED <<accepted, queue, lost, restarts, history>>
      PROVE  NothingSkipped'
  BY <1>3, <1>5 DEF Leave, Stored, TypeOK
<1>6. ASSUME NEW m \in Msg, NEW k \in 1..MaxTries, QueueMessage(m, k)
      PROVE  NothingSkipped'
  <2>1. UNCHANGED <<lost, restarts, Stored, batch>>
    BY <1>6 DEF QueueMessage, Stored
  <2>2. CASE UNCHANGED <<accepted, queue>>
    BY <1>3, <2>1, <2>2
  <2>3. CASE /\ Ids' = Ids \union {Len(accepted) + 1}
             /\ queue' = queue \union {Len(accepted) + 1}
    <3>1. \A i \in Ids : i < Len(accepted) + 1
      BY DEF Ids, TypeOK
    <3>2. \A i \in Ids : Before(i)' = Before(i)
      BY <1>1, <2>3, <3>1 DEF Before, TypeOK
    <3>3. queue' \intersect lost' = {}
      BY <1>1, <2>1, <2>3, <3>1
    <3>4. \A i \in Stored' : Before(i)' \subseteq Stored' \union lost'
      BY <1>1, <2>1, <3>2
    <3>5. \A p \in Proc : \A i \in batch'[p] :
            Before(i)' \subseteq Stored' \union lost' \union batch'[p]
      BY <1>2, <2>1, <3>2
    <3>. QED
      BY <2>1, <3>3, <3>4, <3>5
  <2>. QED
    BY <1>6, <2>2, <2>3, Queues
<1>7. ASSUME NEW p \in Proc, Receive(p) \/ BeginReply(p)
      PROVE  NothingSkipped'
  BY <1>4, <1>7, Begins
<1>8. CASE Restart
  <2>1. UNCHANGED <<accepted, Stored, batch>> /\ lost' = lost \union queue
    BY <1>8 DEF Restart, Stored
  <2>2. queue' = {} /\ restarts' # 0
    BY <1>8 DEF Restart, TypeOK
  <2>3. \A i \in Ids : Before(i)' = Before(i)
    BY <2>1 DEF Before, Ids
  <2>. QED
    <3>1. \A i \in Stored' : Before(i)' \subseteq Stored' \union lost'
      BY <1>1, <2>1, <2>3
    <3>2. \A p \in Proc : \A i \in batch'[p] :
            Before(i)' \subseteq Stored' \union lost' \union batch'[p]
      BY <1>2, <2>1, <2>3
    <3>. QED
      BY <2>2, <3>1, <3>2
<1>9. ASSUME NEW p \in Proc, Poll(p) PROVE NothingSkipped'
  <2>1. UNCHANGED <<accepted, lost, restarts, queue, Stored>>
    BY <1>9 DEF Poll, Stored
  <2>2. \A q \in Proc : batch'[q] = batch[q] \/ batch'[q] = queue
    BY <1>9 DEF Poll, TypeOK
  <2>3. \A i \in Ids : Before(i)' = Before(i)
    BY <2>1 DEF Before, Ids
  <2>4. \A i \in Ids : Before(i) \subseteq Stored \union lost \union queue
    BY DEF NothingLost, Before
  <2>. QED
    <3>1. \A i \in Stored' : Before(i)' \subseteq Stored' \union lost'
      BY <1>1, <2>1, <2>3
    <3>2. queue \subseteq Ids
      BY DEF TypeOK
    <3>3. \A q \in Proc : \A i \in batch'[q] :
            Before(i)' \subseteq Stored' \union lost' \union batch'[q]
      BY <1>2, <2>1, <2>2, <2>3, <2>4, <3>2
    <3>. QED
      BY <2>1, <3>1, <3>3
<1>10. ASSUME NEW p \in Proc, FlushStore(p) PROVE NothingSkipped'
  <2>1. PICK i \in Ids : disk.journal \ Stored = {i} /\ Stored' = Stored \union {i}
    BY <1>10, FlushStoresPending
  <2>2. Before(i) \subseteq Stored \union lost
    BY <2>1 DEF OneIsPending
  <2>3. UNCHANGED <<accepted, lost, restarts, queue, batch>>
    BY <1>10 DEF FlushStore
  <2>4. \A j \in Ids : Before(j)' = Before(j)
    BY <2>3 DEF Before, Ids
  <2>. QED
    <3>1. \A j \in Stored' : Before(j)' \subseteq Stored' \union lost'
      BY <1>1, <2>1, <2>2, <2>3, <2>4
    <3>2. \A q \in Proc : \A j \in batch'[q] :
            Before(j)' \subseteq Stored' \union lost' \union batch'[q]
      BY <1>2, <2>1, <2>3, <2>4
    <3>. QED
      BY <2>3, <3>1, <3>2
<1>11. ASSUME NEW p \in Proc, StoreNext(p) PROVE NothingSkipped'
  <2>1. PICK i \in Ids :
          /\ i \in batch[p]
          /\ \A j \in batch[p] \ {i} : i < j
          /\ Stored' = Stored \union {i}
          /\ batch' = [batch EXCEPT ![p] = @ \ {i}]
    BY <1>11, StoresOldest
  <2>2. UNCHANGED <<accepted, lost, restarts, queue>>
    BY <1>11 DEF StoreNext
  <2>3. \A j \in Ids : Before(j)' = Before(j)
    BY <2>2 DEF Before, Ids
  <2>4. Before(i) \intersect batch[p] = {}
    <3>1. SUFFICES ASSUME NEW j \in Before(i), j \in batch[p] PROVE FALSE
      OBVIOUS
    <3>2. i \in Nat /\ j \in Nat /\ j < i /\ (j = i \/ i < j)
      BY <1>1, <2>1, <3>1 DEF Before
    <3>. QED
      BY <3>2
  <2>5. Before(i) \subseteq Stored \union lost
    BY <2>1, <2>4
  <2>6. /\ batch'[p] = batch[p] \ {i}
        /\ \A q \in Proc \ {p} : batch'[q] = batch[q]
        /\ \A q \in Proc : batch[q] \subseteq Ids
    BY <2>1 DEF TypeOK
  <2>7. \A q \in Proc : batch[q] \subseteq batch'[q] \union {i}
    BY <2>6
  <2>8. \A q \in Proc : \A j \in batch'[q] :
          Before(j)' \subseteq Stored' \union lost' \union batch'[q]
    BY <2>1, <2>2, <2>3, <2>6, <2>7
  <2>. QED
    BY <1>1, <2>1, <2>2, <2>3, <2>5, <2>8
<1>12. ASSUME NEW p \in Proc, AcknowledgeMessages(p) PROVE NothingSkipped'
  BY <1>3, <1>12 DEF AcknowledgeMessages, Stored
<1>13. ASSUME NEW ids \in acks, LateAcknowledge(ids) PROVE NothingSkipped'
  BY <1>3, <1>13 DEF LateAcknowledge, Stored
<1>. QED
  BY <1>4, <1>5, <1>6, <1>7, <1>8, <1>9, <1>10, <1>11, <1>12, <1>13
  DEF Next, vars, ReceiveStep, SendMessage, RetrySend, GiveUp, GetReceipt,
      Attempt, Interrupt, FlushSend, FlushEnd, DecryptEnvelope, RejectEnvelope,
      AckSend, AckEnd, ReceiveNothing, EndReply

LEMMA NextOneIsPending ==
  ASSUME DeliveryInv, OrderInv, [Next]_vars
  PROVE  OneIsPending'
<1>. USE DeliveryAssumption
     DEF DeliveryAssumption, DeliveryInv, OrderInv, OneIsPending, Goto
<1>. DEFINE Pending == disk.journal \ Stored
            Busy(p) == pc[p] \notin {"idle", "reply", "flush"}
<1>1. Stored \subseteq Ids /\ disk.journal \subseteq Ids /\ Ids \subseteq Nat
  BY DEF TypeOK, State, Ids, Stored, Range
(* A step that adds nothing to what is pending, of a process p that it     *)
(* leaves in a suitable state.                                             *)
<1>2. ASSUME NEW p \in Proc,
             UNCHANGED <<accepted, lost>>, Pending' \subseteq Pending,
             Stored \subseteq Stored',
             \A q \in Proc \ {p} : pc'[q] = pc[q] /\ batch'[q] = batch[q],
             batch'[p] # {} => pc'[p] \in {"process", "store"},
             pc'[p] # "store",
             Busy(p)' => Pending' = {}
      PROVE  OneIsPending'
  <2>1. \A i \in Pending : Before(i)' = Before(i)
    BY <1>2 DEF Before, Ids
  <2>2. \A q \in Proc : pc'[q] = "store" => Current(q)' = Current(q)
    BY <1>2 DEF Current
  <2>. QED
    BY <1>2, <2>1, <2>2
<1>3. CASE UNCHANGED <<accepted, lost, disk, history, pc, batch>>
  BY <1>3 DEF Stored, Before, Ids, Current
<1>4. ASSUME NEW m \in Msg, NEW k \in 1..MaxTries, QueueMessage(m, k)
      PROVE  OneIsPending'
  <2>1. UNCHANGED <<disk, lost, pc, batch, Stored>>
    BY <1>4 DEF QueueMessage, Stored
  <2>2. \A i \in Ids : Before(i)' = Before(i)
    <3>1. CASE UNCHANGED accepted
      BY <3>1 DEF Before, Ids
    <3>2. CASE Ids' = Ids \union {Len(accepted) + 1}
      <4>1. \A i \in Ids : i < Len(accepted) + 1
        BY DEF Ids, TypeOK
      <4>. QED
        BY <1>1, <3>2, <4>1 DEF Before, TypeOK
    <3>. QED
      BY <1>4, <3>1, <3>2, Queues
  <2>3. \A i \in Pending : Before(i)' = Before(i)
    BY <1>1, <2>2
  <2>4. \A p \in Proc : Current(p)' = Current(p)
    BY <2>1 DEF Current
  <2>. QED
    BY <2>1, <2>3, <2>4
<1>5. CASE Restart
  <2>1. UNCHANGED <<accepted, disk, Stored, pc, batch>> /\ lost \subseteq lost'
    BY <1>5 DEF Restart, Stored
  <2>2. \A i \in Pending : Before(i)' = Before(i)
    BY <2>1 DEF Before, Ids
  <2>. QED
    BY <2>1, <2>2 DEF Current
<1>6. ASSUME NEW p \in Proc, Leave(p), UNCHANGED <<accepted, lost, history>>,
             disk'.journal \subseteq disk.journal
      PROVE  OneIsPending'
  <2>1. /\ pc'[p] = "idle" /\ batch'[p] = {}
        /\ \A q \in Proc \ {p} : pc'[q] = pc[q] /\ batch'[q] = batch[q]
    BY <1>6 DEF Leave, TypeOK
  <2>2. UNCHANGED Stored
    BY <1>6 DEF Stored
  <2>. QED
    BY <1>2, <1>6, <2>1, <2>2
<1>7. ASSUME NEW p \in Proc, Receive(p) PROVE OneIsPending'
  <2>1. pc[p] = "idle" /\ batch[p] = {} /\ UNCHANGED <<disk, Stored, batch, accepted, lost>>
    BY <1>7 DEF Receive, Stored
  <2>2. pc'[p] \in {"poll", "flush"} /\ (pc'[p] = "poll" => disk.journal = {})
    BY <1>7 DEF Receive, TypeOK, HolderIsCurrent, Empty
  <2>3. \A q \in Proc \ {p} : pc'[q] = pc[q]
    BY <1>7, Begins
  <2>. QED
    BY <1>2, <2>1, <2>2, <2>3
<1>8. ASSUME NEW p \in Proc, BeginReply(p) PROVE OneIsPending'
  <2>1. /\ pc[p] = "idle" /\ batch[p] = {} /\ pc'[p] = "reply"
        /\ UNCHANGED <<disk, Stored, batch, accepted, lost>>
    BY <1>8 DEF BeginReply, Stored, TypeOK
  <2>2. \A q \in Proc \ {p} : pc'[q] = pc[q]
    BY <1>8, Begins
  <2>. QED
    BY <1>2, <2>1, <2>2
<1>9. ASSUME NEW p \in Proc, FlushStore(p) PROVE OneIsPending'
  <2>1. Pending' = {} /\ Stored \subseteq Stored'
    <3>1. UNCHANGED disk
      BY <1>9 DEF FlushStore
    <3>. QED
      BY <1>9, <3>1, FlushStoresPending
  <2>2. UNCHANGED <<accepted, lost, pc, batch>> /\ pc[p] = "flush"
    BY <1>9 DEF FlushStore
  <2>. QED
    BY <1>2, <2>1, <2>2
<1>10. ASSUME NEW p \in Proc, FlushSend(p) PROVE OneIsPending'
  <2>1. mem[p] = disk /\ Pending = {} /\ pc[p] = "flush"
    BY <1>10 DEF FlushSend, HolderIsCurrent
  <2>2. /\ UNCHANGED <<accepted, lost, disk, Stored, batch>> /\ pc'[p] = "flushSent"
        /\ \A q \in Proc \ {p} : pc'[q] = pc[q]
    BY <1>10 DEF FlushSend, Stored, TypeOK
  <2>. QED
    BY <1>2, <2>1, <2>2
<1>11. ASSUME NEW p \in Proc, FlushEnd(p) PROVE OneIsPending'
  <2>1. disk'.journal = {}
    BY <1>11 DEF FlushEnd, Save, TypeOK, State
  <2>2. /\ UNCHANGED <<accepted, lost, Stored, batch>>
        /\ pc[p] = "flushDone" /\ pc'[p] = "poll"
        /\ \A q \in Proc \ {p} : pc'[q] = pc[q]
    BY <1>11 DEF FlushEnd, Stored, TypeOK
  <2>. QED
    BY <1>2, <2>1, <2>2
<1>12. ASSUME NEW p \in Proc, Poll(p) PROVE OneIsPending'
  <2>1. /\ UNCHANGED <<accepted, lost, disk, Stored>>
        /\ pc[p] = "poll" /\ pc'[p] = "process"
        /\ \A q \in Proc \ {p} : pc'[q] = pc[q] /\ batch'[q] = batch[q]
    BY <1>12 DEF Poll, Stored, TypeOK
  <2>. QED
    BY <1>2, <2>1
<1>13. ASSUME NEW p \in Proc, DecryptEnvelope(p) PROVE OneIsPending'
  <2>1. PICK i \in Ids :
          Current(p) = {i} /\ disk'.journal \subseteq disk.journal \union {i}
    BY <1>13, Decrypts
  <2>2. pc[p] = "process" /\ pc'[p] = "store" /\ Encrypted
    BY <1>13 DEF DecryptEnvelope, TypeOK
  <2>3. UNCHANGED <<accepted, lost, Stored, batch>>
    BY <1>13 DEF DecryptEnvelope, Stored
  <2>4. \A q \in Proc \ {p} : pc'[q] = "idle" /\ batch'[q] = {}
    BY <1>13, <2>2, <2>3, OthersIdle, Decrypts
  <2>5. Pending = {} /\ Pending' \subseteq {i}
    BY <2>1, <2>2, <2>3
  <2>6. Before(i)' = Before(i) /\ Current(p)' = Current(p)
    BY <2>3 DEF Before, Ids, Current
  <2>7. Before(i) \subseteq Stored \union lost
    <3>1. i \in batch[p] /\ \A j \in batch[p] : i <= j
      BY <2>1 DEF Current
    <3>2. SUFFICES ASSUME NEW j \in Before(i), j \in batch[p] PROVE FALSE
      BY <3>1 DEF NothingSkipped
    <3>3. i \in Nat /\ j \in Nat /\ j < i /\ i <= j
      BY <1>1, <3>1, <3>2 DEF Before
    <3>. QED
      BY <3>3
  <2>. QED
    BY <2>1, <2>2, <2>3, <2>4, <2>5, <2>6, <2>7
<1>14. ASSUME NEW p \in Proc, StoreNext(p) PROVE OneIsPending'
  <2>1. PICK i \in Ids :
          /\ Current(p) = {i}
          /\ Stored' = Stored \union {i}
          /\ batch' = [batch EXCEPT ![p] = @ \ {i}]
    BY <1>14, StoresOldest
  <2>2. UNCHANGED <<accepted, lost, disk>> /\ pc[p] # "idle"
    BY <1>14 DEF StoreNext
  <2>3. /\ pc'[p] = "process"
        /\ \A q \in Proc \ {p} : pc'[q] = pc[q] /\ batch'[q] = batch[q]
    BY <1>14, <2>1 DEF StoreNext, TypeOK
  <2>4. Pending' = {}
    <3>1. CASE Encrypted
      BY <1>14, <2>1, <2>2, <3>1 DEF StoreNext
    <3>2. CASE ~Encrypted
      BY <2>2, <3>2 DEF HolderIsCurrent, Empty
    <3>. QED
      BY <3>1, <3>2
  <2>. QED
    BY <1>2, <2>1, <2>2, <2>3, <2>4
<1>15. ASSUME NEW p \in Proc, AckSend(p) PROVE OneIsPending'
  <2>1. /\ UNCHANGED <<accepted, lost, disk, Stored, batch>>
        /\ pc[p] = "process" /\ batch[p] = {} /\ pc'[p] = "ackSent"
        /\ \A q \in Proc \ {p} : pc'[q] = pc[q]
    BY <1>15 DEF AckSend, Stored, TypeOK
  <2>. QED
    BY <1>2, <2>1
<1>16. ASSUME NEW p \in Proc, AcknowledgeMessages(p) PROVE OneIsPending'
  <2>1. /\ UNCHANGED <<accepted, lost, disk, Stored, batch>>
        /\ pc[p] \in {"flushSent", "ackSent"}
        /\ pc'[p] \in {"flushDone", "ackDone"}
        /\ \A q \in Proc \ {p} : pc'[q] = pc[q]
    BY <1>16 DEF AcknowledgeMessages, Stored, TypeOK
  <2>. QED
    BY <1>2, <2>1
<1>17. ASSUME NEW p \in Proc, AckEnd(p) \/ EndReply(p) PROVE OneIsPending'
  <2>1. disk'.journal \subseteq disk.journal
    <3>1. CASE Encrypted
      <4>1. mem[p] = disk
        BY <1>17, <3>1 DEF AckEnd, EndReply, HolderIsCurrent
      <4>. QED
        BY <1>17, <3>1, <4>1 DEF AckEnd, EndReply, TypeOK, State
    <3>2. CASE ~Encrypted
      BY <1>17, <3>2 DEF AckEnd, EndReply, HolderIsCurrent
    <3>. QED
      BY <3>1, <3>2
  <2>. QED
    BY <1>6, <1>17, <2>1 DEF AckEnd, EndReply
<1>18. ASSUME NEW p \in Proc, RejectEnvelope(p) \/ ReceiveNothing(p) \/ Interrupt(p)
       PROVE  OneIsPending'
  BY <1>6, <1>18 DEF RejectEnvelope, ReceiveNothing, Interrupt
<1>. QED
  BY <1>3, <1>4, <1>5, <1>7, <1>8, <1>9, <1>10, <1>11, <1>12, <1>13, <1>14,
     <1>15, <1>16, <1>17, <1>18
  DEF Next, vars, ReceiveStep, SendMessage, RetrySend, GiveUp, GetReceipt,
      Attempt, LateAcknowledge

LEMMA NextPendingIsNewest ==
  ASSUME DeliveryInv, OrderInv, [Next]_vars
  PROVE  PendingIsNewest'
<1>. SUFFICES ASSUME Encrypted PROVE PendingIsNewest'
  BY DEF PendingIsNewest
<1>. USE DEF DeliveryInv, OrderInv, PendingIsNewest, Goto
<1>1. Stored \subseteq Ids /\ Ids \subseteq Nat
  BY DEF TypeOK, Ids, Stored, Range
<1>2. ASSUME UNCHANGED Stored, disk'.journal \subseteq disk.journal,
             \A p \in Proc : batch'[p] \subseteq batch[p]
      PROVE  PendingIsNewest'
  BY <1>2
<1>3. CASE UNCHANGED <<disk, history, batch>>
  BY <1>2, <1>3 DEF Stored
<1>4. ASSUME NEW p \in Proc, Leave(p), UNCHANGED history,
             UNCHANGED disk \/ (lock = p /\ disk'.journal \subseteq disk.journal)
      PROVE  PendingIsNewest'
  BY <1>2, <1>4 DEF Leave, Stored, TypeOK
<1>5. ASSUME NEW p \in Proc, FlushStore(p) PROVE PendingIsNewest'
  <2>1. /\ \A q \in Proc : batch'[q] = {}
        /\ UNCHANGED disk
    BY <1>5, OthersIdle DEF FlushStore, OneIsPending
  <2>2. disk.journal \ Stored' = {}
    BY <1>5, FlushStoresPending
  <2>. QED
    BY <2>1, <2>2
<1>6. ASSUME NEW p \in Proc, FlushEnd(p) PROVE PendingIsNewest'
  <2>1. disk'.journal = {}
    BY <1>6 DEF FlushEnd, Save, TypeOK, State
  <2>. QED
    BY <1>2, <1>6, <2>1 DEF FlushEnd, Stored
<1>7. ASSUME NEW p \in Proc, Poll(p) PROVE PendingIsNewest'
  <2>1. ASSUME NEW i \in queue \ Stored, NEW j \in Stored PROVE j < i
    <3>1. i \in Ids /\ i \notin lost
      BY DEF TypeOK, NothingSkipped
    <3>2. i \notin Before(j)
      BY <2>1, <3>1 DEF NothingSkipped
    <3>3. i \in Nat /\ j \in Nat /\ i # j /\ ~(i < j)
      BY <1>1, <2>1, <3>1, <3>2 DEF Before
    <3>. QED
      BY <3>3
  <2>2. \A q \in Proc : batch'[q] = batch[q] \/ batch'[q] = queue
    BY <1>7 DEF Poll, TypeOK
  <2>. QED
    BY <1>7, <2>1, <2>2 DEF Poll, Stored
<1>8. ASSUME NEW p \in Proc, DecryptEnvelope(p) PROVE PendingIsNewest'
  <2>1. PICK i \in batch[p] : disk'.journal \subseteq disk.journal \union {i}
    BY <1>8, Decrypts DEF Current
  <2>. QED
    BY <1>8, <2>1 DEF DecryptEnvelope, Stored
<1>9. ASSUME NEW p \in Proc, StoreNext(p) PROVE PendingIsNewest'
  <2>1. PICK i \in Ids :
          /\ Current(p) = {i}
          /\ i \in batch[p]
          /\ \A j \in batch[p] \ {i} : i < j
          /\ Stored' = Stored \union {i}
          /\ batch' = [batch EXCEPT ![p] = @ \ {i}]
    BY <1>9, StoresOldest
  <2>2. pc[p] = "store" /\ UNCHANGED disk
    BY <1>9 DEF StoreNext
  <2>3. disk.journal \ Stored' = {}
    BY <2>1, <2>2 DEF OneIsPending
  <2>4. /\ batch'[p] = batch[p] \ {i}
        /\ \A q \in Proc \ {p} : batch'[q] = {}
    BY <2>1, <2>2, OthersIdle DEF TypeOK
  <2>. QED
    BY <2>1, <2>2, <2>3, <2>4
<1>10. ASSUME NEW p \in Proc, AckEnd(p) \/ EndReply(p) PROVE PendingIsNewest'
  <2>1. lock = p /\ mem[p] = disk
    BY <1>10 DEF AckEnd, EndReply, HolderIsCurrent
  <2>2. disk'.journal \subseteq disk.journal
    BY <1>10, <2>1 DEF AckEnd, EndReply, TypeOK, State
  <2>. QED
    BY <1>4, <1>10, <2>1, <2>2 DEF AckEnd, EndReply
<1>11. ASSUME NEW p \in Proc, Receive(p) \/ BeginReply(p) PROVE PendingIsNewest'
  BY <1>3, <1>11, Begins
<1>. QED
  BY <1>3, <1>4, <1>5, <1>6, <1>7, <1>8, <1>9, <1>10, <1>11
  DEF Next, vars, ReceiveStep, SendMessage, RetrySend, GiveUp, GetReceipt,
      Attempt, QueueMessage, LateAcknowledge, Restart, FlushSend, AckSend,
      AcknowledgeMessages, RejectEnvelope, ReceiveNothing, Interrupt

(* The order invariant holds in every reachable state: nothing is skipped, *)
(* and what is pending is newer than what is stored.                       *)
THEOREM OrderCorrect == Spec => []OrderInv
<1>1. Init => OrderInv
  <2>1. ASSUME Init PROVE OrderInv
    <3>1. Ids = {} /\ Stored = {}
      BY <2>1 DEF Init, Ids, Stored, Range
    <3>. QED
      BY <2>1, <3>1 DEF Init, OrderInv, NothingSkipped, OneIsPending,
                        PendingIsNewest, Empty
  <2>. QED
    BY <2>1
<1>2. DeliveryInv /\ OrderInv /\ [Next]_vars => OrderInv'
  BY NextNothingSkipped, NextOneIsPending, NextPendingIsNewest DEF OrderInv
<1>. QED
  BY <1>1, <1>2, DeliveryCorrect, PTL DEF Spec

-----------------------------------------------------------------------------
(* The refinement.                                                         *)

(* What is stored next is newer than the history, and what it passes over  *)
(* was dropped by a restart.                                               *)
LEMMA DeliversNext ==
  ASSUME DeliveryInv, OrderInv, Encrypted \/ restarts = 0, NEW i \in Ids,
         StoreMessage(i), i \notin Stored, UNCHANGED <<accepted, lost>>,
         Before(i) \subseteq Stored \union lost,
         Encrypted => \A j \in Stored : j < i
  PROVE  Box!Deliver
<1>1. DOMAIN accepted = Ids /\ Ids = 1..Len(accepted)
  BY DEF DeliveryInv, TypeOK, Ids
<1>2. Stored \subseteq Ids /\ Ids \subseteq Nat
  BY DEF DeliveryInv, TypeOK, Ids, Stored, Range
<1>3. ASSUME NEW j \in Stored PROVE j < i
  <2>1. CASE Encrypted
    BY <2>1
  <2>2. CASE restarts = 0
    <3>1. i \notin Before(j)
      BY <1>3, <2>2 DEF OrderInv, NothingSkipped
    <3>2. i \in Nat /\ j \in Nat /\ i # j /\ ~(i < j)
      BY <1>2, <1>3, <3>1 DEF Before
    <3>. QED
      BY <3>2
  <2>. QED
    BY <2>1, <2>2
<1>4. ASSUME NEW j \in 1..(i - 1) PROVE j \in Stored \union lost
  <2>1. j \in Ids /\ j < i
    BY <1>1, <1>4
  <2>. QED
    BY <2>1 DEF Before
<1>5. history' = Append(history, i)
  BY DEF StoreMessage
<1>. QED
  BY <1>1, <1>3, <1>4, <1>5 DEF Box!Deliver, Box!Range, Stored, Range

(* The history of a device is the delivered side of a mailbox of the       *)
(* envelopes the relay accepted: each is delivered at most once, in the    *)
(* order of acceptance, and only those a restart dropped are skipped       *)
(* (server.py:773-777, 794-807, client.py:400-445, 749-770).  Without a    *)
(* lock this needs a server that stays up: a process still holding a       *)
(* dropped envelope may store it after another has stored newer ones.      *)
THEOREM MailboxRefined ==
  ASSUME Encrypted \/ MaxRestarts = 0
  PROVE  Spec => DeliversInOrder
<1>1. Init => Box!Init
  BY DEF Init, Box!Init
<1>2. ASSUME DeliveryInv, OrderInv, [Next]_vars PROVE [Box!Next]_(Box!vars)
  <2>. USE <1>2
  <2>1. Encrypted \/ restarts = 0
    BY DEF DeliveryInv, TypeOK
  <2>2. CASE UNCHANGED <<accepted, history, lost>>
    BY <2>2 DEF Box!vars
  <2>3. ASSUME NEW m \in Msg, NEW k \in 1..MaxTries, QueueMessage(m, k)
        PROVE  Box!Accept \/ UNCHANGED Box!vars
    <3>1. TypeOK
      BY DEF DeliveryInv
    <3>2. accepted' = Append(accepted, m) \/ UNCHANGED accepted
      BY <2>3, <3>1, Queues
    <3>3. UNCHANGED <<history, lost>>
      BY <2>3 DEF QueueMessage
    <3>. QED
      BY <3>2, <3>3 DEF Box!Accept, Box!vars
  <2>4. ASSUME Restart PROVE Box!Drop
    <3>1. queue \in SUBSET DOMAIN accepted
      BY DEF DeliveryInv, TypeOK, Ids
    <3>2. lost' = lost \union queue /\ UNCHANGED <<accepted, history>>
      BY <2>4 DEF Restart
    <3>. QED
      BY <3>1, <3>2 DEF Box!Drop
  <2>5. ASSUME NEW p \in Proc, FlushStore(p) PROVE Box!Deliver
    <3>1. PICK i \in Ids : disk.journal \ Stored = {i} /\ StoreMessage(i)
      BY <2>5, FlushStoresPending
    <3>2. Before(i) \subseteq Stored \union lost
      BY <3>1 DEF OrderInv, OneIsPending
    <3>3. Encrypted => \A j \in Stored : j < i
      BY <3>1 DEF OrderInv, PendingIsNewest
    <3>4. UNCHANGED <<accepted, lost>>
      BY <2>5 DEF FlushStore
    <3>. QED
      BY <2>1, <3>1, <3>2, <3>3, <3>4, DeliversNext
  <2>6. ASSUME NEW p \in Proc, StoreNext(p)
        PROVE  Box!Deliver \/ UNCHANGED Box!vars
    <3>1. PICK i \in Ids :
            /\ i \in batch[p]
            /\ \A j \in batch[p] \ {i} : i < j
            /\ StoreMessage(i)
      BY <2>6, StoresOldest
    <3>2. UNCHANGED <<accepted, lost>>
      BY <2>6 DEF StoreNext
    <3>3. CASE i \in Stored
      BY <3>1, <3>2, <3>3 DEF StoreMessage, Box!vars
    <3>4. CASE i \notin Stored
      <4>1. Before(i) \subseteq Stored \union lost
        <5>1. SUFFICES ASSUME NEW j \in Before(i), j \in batch[p] PROVE FALSE
          BY <3>1 DEF OrderInv, NothingSkipped
        <5>2. i \in Nat /\ j \in Nat /\ j < i /\ (j = i \/ i < j)
          BY <3>1, <5>1 DEF Before, DeliveryInv, TypeOK, Ids
        <5>. QED
          BY <5>2
      <4>2. Encrypted => \A j \in Stored : j < i
        BY <3>1, <3>4 DEF OrderInv, PendingIsNewest
      <4>. QED
        BY <2>1, <3>1, <3>2, <3>4, <4>1, <4>2, DeliversNext
    <3>. QED
      BY <3>3, <3>4
  <2>7. ASSUME NEW p \in Proc, Receive(p) \/ BeginReply(p)
        PROVE  UNCHANGED <<accepted, history, lost>>
    BY <2>7, Begins DEF DeliveryInv
  <2>. QED
    BY <2>2, <2>3, <2>4, <2>5, <2>6, <2>7
    DEF Next, vars, ReceiveStep, SendMessage, RetrySend, GiveUp, GetReceipt,
        Attempt, LateAcknowledge, FlushSend, FlushEnd, Poll, DecryptEnvelope,
        RejectEnvelope, AckSend, AcknowledgeMessages, AckEnd, ReceiveNothing,
        EndReply, Interrupt, Box!Next
<1>. QED
  BY <1>1, <1>2, DeliveryCorrect, OrderCorrect, PTL
  DEF Spec, DeliversInOrder, Box!Spec
=============================================================================
