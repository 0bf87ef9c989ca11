------------------------------ MODULE Delivery ------------------------------
(***************************************************************************)
(* Delivery of messages to one device: the senders' POST /messages with    *)
(* its retry, the relay's queue and receipts for that device, and the      *)
(* poll / decrypt / store / acknowledge loop of the processes that share   *)
(* the device's state directory.  Requests may be lost or handled after    *)
(* their client has given up, processes may stop at any step, and the      *)
(* server may restart.                                                     *)
(*                                                                         *)
(* Names and values.  A member of Msg is one client_message_id together    *)
(* with its sender and its addressee, the key of a receipt; it stands for  *)
(* the envelope too, so that it also names the message key that opens it.  *)
(* A delivery id (the server's message_id, a fresh UUID) is the position   *)
(* of the envelope in accepted, the sequence of everything the relay ever  *)
(* queued; ids only grow, so a queue, which the relay appends to and       *)
(* filters, is the set of its ids read in increasing order.                *)
(***************************************************************************)
EXTENDS Naturals, Sequences, FiniteSetsExt, Functions

CONSTANTS
  Msg,          \* client_message_ids the senders may use
  Proc,         \* processes sharing the device's state directory
  NoProc,       \* value of lock when the state file is not locked
  Encrypted,    \* encryption_enabled of senders and recipient
  MaxFaults,    \* bound: interrupted calls of the recipient's processes
  MaxRestarts   \* bound: restarts of the server

ASSUME DeliveryAssumption ==
  /\ NoProc \notin Proc
  /\ Encrypted \in BOOLEAN
  /\ MaxFaults \in Nat
  /\ MaxRestarts \in Nat

VARIABLES
  accepted,   \* history: the envelope of every delivery id
  queue,      \* ids in the relay's queue for the device
  receipts,   \* receipt of each client_message_id, 0 when there is none
  lost,       \* history: ids that a restart dropped from the queue
  restarts,   \* number of restarts so far
  out,        \* progress of the sender's call for each message
  try,        \* number of the sender's current attempt
  posts,      \* submissions <<m, attempt>> on their way to the server
  reply,      \* receipt on its way to the sender's current attempt, or 0
  sentAs,     \* message_id in the sender's own history, or 0
  disk,       \* journal and opened keys in the device's state file
  history,    \* rows of the device's SQLite history, in rowid order
  lock,       \* process holding the lock on the state file
  pc,         \* step of each process of the device
  mem,        \* its copy of the state file, restored under the lock
  batch,      \* polled ids it has not processed yet
  done,       \* acknowledged_ids: the ids it processed in this poll
  acks,       \* id sets of acknowledgments whose client has given up
  faults      \* number of interrupted calls so far

serverVars == <<accepted, queue, receipts, lost, restarts>>
senderVars == <<out, try, posts, reply, sentAs>>
storeVars  == <<disk, history>>
procVars   == <<lock, pc, mem, batch, done, acks, faults>>
vars == <<serverVars, senderVars, storeVars, procVars>>

Ids    == DOMAIN accepted
Stored == Range(history)
Empty  == [journal |-> {}, opened |-> {}]

(* Encrypted sends pass retries=1 to _request, plaintext sends none.       *)
MaxTries == IF Encrypted THEN 2 ELSE 1

Init ==
  /\ accepted = <<>>
  /\ queue = {}
  /\ receipts = [m \in Msg |-> 0]
  /\ lost = {}
  /\ restarts = 0
  /\ out = [m \in Msg |-> "new"]
  /\ try = [m \in Msg |-> 0]
  /\ posts = {}
  /\ reply = [m \in Msg |-> 0]
  /\ sentAs = [m \in Msg |-> 0]
  /\ disk = Empty
  /\ history = <<>>
  /\ lock = NoProc
  /\ pc = [p \in Proc |-> "idle"]
  /\ mem = [p \in Proc |-> Empty]
  /\ batch = [p \in Proc |-> {}]
  /\ done = [p \in Proc |-> {}]
  /\ acks = {}
  /\ faults = 0

-----------------------------------------------------------------------------
(* The senders.                                                            *)

(* One attempt of _request: the request leaves for the server.             *)
Attempt(m) ==
  /\ try' = [try EXCEPT ![m] = @ + 1]
  /\ posts' = posts \union {<<m, try[m] + 1>>}
  /\ reply' = [reply EXCEPT ![m] = 0]
  /\ UNCHANGED <<serverVars, sentAs, storeVars, procVars>>

SendMessage(m) ==
  /\ out[m] = "new"
  /\ out' = [out EXCEPT ![m] = "wait"]
  /\ Attempt(m)

(* URLError or timeout with attempts left: the same envelope again.        *)
RetrySend(m) ==
  /\ out[m] = "wait"
  /\ try[m] < MaxTries
  /\ Attempt(m)
  /\ UNCHANGED out

(* The call ends without a receipt: the last attempt fails, the connection *)
(* breaks in a way _request does not retry, or the process is killed.      *)
(* Nothing is stored on the sender's side.                                 *)
GiveUp(m) ==
  /\ out[m] = "wait"
  /\ out' = [out EXCEPT ![m] = "failed"]
  /\ UNCHANGED <<serverVars, try, posts, reply, sentAs, storeVars, procVars>>

(* The receipt arrives: send() records its own copy under the server's id. *)
GetReceipt(m) ==
  /\ out[m] = "wait"
  /\ reply[m] # 0
  /\ out' = [out EXCEPT ![m] = "sent"]
  /\ sentAs' = [sentAs EXCEPT ![m] = reply[m]]
  /\ UNCHANGED <<serverVars, try, posts, reply, storeVars, procVars>>

-----------------------------------------------------------------------------
(* The relay.                                                              *)

NewId_Stale == Len(accepted)
NewId == Len(accepted) + 1

KnownReceipt_AnyMessage(m) == Max(Range(receipts))
KnownReceipt_None(m) == 0
KnownReceipt(m) == receipts[m]

(* Handler of POST /messages, under the server's lock: a submission whose  *)
(* receipt is known gets that receipt again, any other is queued.          *)
QueueMessage(m, k) ==
  LET known == KnownReceipt(m)
      id    == IF known # 0 THEN known ELSE NewId
  IN  /\ <<m, k>> \in posts
      /\ posts' = posts \ {<<m, k>>}
      /\ receipts' = [receipts EXCEPT ![m] = id]
      /\ IF known # 0
         THEN UNCHANGED <<accepted, queue>>
         ELSE /\ accepted' = Append(accepted, m)
              /\ queue' = queue \union {id}
      /\ reply' = IF out[m] = "wait" /\ try[m] = k
                  THEN [reply EXCEPT ![m] = id]
                  ELSE reply
      /\ UNCHANGED <<lost, restarts, out, try, sentAs, storeVars, procVars>>

(* Handler of POST /messages/.../ack for the request p waits on.           *)
AckIds_WholeQueue(p) == queue
AckIds(p) == IF pc[p] = "flushSent" THEN mem[p].journal ELSE done[p]

AcknowledgeMessages(p) ==
  /\ pc[p] \in {"flushSent", "ackSent"}
  /\ queue' = queue \ AckIds(p)
  /\ pc' = [pc EXCEPT ![p] = IF @ = "flushSent" THEN "flushDone" ELSE "ackDone"]
  /\ UNCHANGED <<accepted, receipts, lost, restarts, senderVars, storeVars,
                 lock, mem, batch, done, acks, faults>>

(* The same handler for a request whose client no longer waits.            *)
LateAcknowledge(ids) ==
  /\ ids \in acks
  /\ acks' = acks \ {ids}
  /\ queue' = queue \ ids
  /\ UNCHANGED <<accepted, receipts, lost, restarts, senderVars, storeVars,
                 lock, pc, mem, batch, done, faults>>

(* Queues and receipts live in memory only.  Requests whose client still   *)
(* waits may reach the new server; those it gave up on are gone.           *)
Restart ==
  /\ restarts < MaxRestarts
  /\ restarts' = restarts + 1
  /\ lost' = lost \union queue
  /\ queue' = {}
  /\ receipts' = [m \in Msg |-> 0]
  /\ posts' = {r \in posts : out[r[1]] = "wait" /\ try[r[1]] = r[2]}
  /\ acks' = {}
  /\ UNCHANGED <<accepted, out, try, reply, sentAs, storeVars,
                 lock, pc, mem, batch, done, faults>>

-----------------------------------------------------------------------------
(* The recipient device.                                                   *)

Goto(p, step) == pc' = [pc EXCEPT ![p] = step]

(* Leaving receive() or send() releases the lock and ends the call's       *)
(* variables; the copy of the state file is read again before its next use.*)
Leave(p) ==
  /\ Goto(p, "idle")
  /\ lock' = IF lock = p THEN NoProc ELSE lock
  /\ mem' = [mem EXCEPT ![p] = Empty]
  /\ batch' = [batch EXCEPT ![p] = {}]
  /\ done' = [done EXCEPT ![p] = {}]

Enter_Unlocked(p) ==
  /\ lock' = p
  /\ mem' = [mem EXCEPT ![p] = disk]

(* Entering a locked section: lock() and restore().                        *)
Enter(p) ==
  /\ lock = NoProc
  /\ lock' = p
  /\ mem' = [mem EXCEPT ![p] = disk]

(* The copy changes and save() replaces the whole state file by it.        *)
Save(p, s) ==
  /\ mem' = [mem EXCEPT ![p] = s]
  /\ disk' = s

Receive_NoFlush(p) ==
  /\ pc[p] = "idle"
  /\ Enter(p)
  /\ Goto(p, "poll")
  /\ UNCHANGED <<serverVars, senderVars, storeVars, batch, done, acks, faults>>

(* receive(): a plaintext client polls at once, an encrypted one locks and *)
(* restores its state and first flushes a journal it finds there.          *)
Receive(p) ==
  /\ pc[p] = "idle"
  /\ IF Encrypted
     THEN /\ Enter(p)
          /\ Goto(p, IF disk.journal = {} THEN "poll" ELSE "flush")
     ELSE /\ Goto(p, "poll")
          /\ UNCHANGED <<lock, mem>>
  /\ UNCHANGED <<serverVars, senderVars, storeVars, batch, done, acks, faults>>

StoreMessage_Insert(i) == history' = Append(history, i)

(* INSERT OR IGNORE: message_id is the primary key.                        *)
StoreMessage(i) ==
  history' = IF i \in Stored THEN history ELSE Append(history, i)

FlushStore(p) ==
  /\ pc[p] = "flush"
  /\ \E i \in mem[p].journal \ Stored : StoreMessage(i)
  /\ UNCHANGED <<serverVars, senderVars, disk, procVars>>

FlushSend_NoRequest(p) ==
  /\ pc[p] = "flush"
  /\ mem[p].journal \subseteq Stored
  /\ Goto(p, "flushDone")
  /\ UNCHANGED <<serverVars, senderVars, storeVars, lock, mem, batch, done,
                 acks, faults>>

FlushSend(p) ==
  /\ pc[p] = "flush"
  /\ mem[p].journal \subseteq Stored
  /\ Goto(p, "flushSent")
  /\ UNCHANGED <<serverVars, senderVars, storeVars, lock, mem, batch, done,
                 acks, faults>>

FlushEnd(p) ==
  /\ pc[p] = "flushDone"
  /\ Save(p, [mem[p] EXCEPT !.journal = {}])
  /\ Goto(p, "poll")
  /\ UNCHANGED <<serverVars, senderVars, history, lock, batch, done, acks,
                 faults>>

(* GET /messages: the relay answers with a snapshot of the queue.          *)
Poll(p) ==
  /\ pc[p] = "poll"
  /\ batch' = [batch EXCEPT ![p] = queue]
  /\ done' = [done EXCEPT ![p] = {}]
  /\ Goto(p, "process")
  /\ UNCHANGED <<serverVars, senderVars, storeVars, lock, mem, acks, faults>>

Current_Newest(p) == {i \in batch[p] : \A j \in batch[p] : i >= j}

(* The loop over the polled messages takes them in queue order: the oldest *)
(* id that p has not processed, if there is one.                           *)
Current(p) == {i \in batch[p] : \A j \in batch[p] : i <= j}

(* A message key opens one envelope, if any: the receive chain has         *)
(* advanced past every spent key.                                          *)
Opens_Always(p, i) == TRUE
Opens(p, i) == accepted[i] \notin mem[p].opened

(* _decrypt_envelope_locked: the spent key and the plaintext are saved     *)
(* together before the message is stored.                                  *)
DecryptEnvelope(p) ==
  /\ Encrypted
  /\ pc[p] = "process"
  /\ \E i \in Current(p) :
       /\ i \in mem[p].journal \/ Opens(p, i)
       /\ IF i \in mem[p].journal
          THEN UNCHANGED <<mem, disk>>
          ELSE Save(p, [journal |-> mem[p].journal \union {i},
                        opened  |-> mem[p].opened \union {accepted[i]}])
  /\ Goto(p, "store")
  /\ UNCHANGED <<serverVars, senderVars, history, lock, batch, done, acks,
                 faults>>

(* Any error while an envelope is checked and decrypted is raised out of   *)
(* receive(): neither this message nor those before it in the batch are    *)
(* acknowledged now.  A spent key always raises, and any envelope may: its *)
(* session may be crossed, torn or cut (module Ratchet), the roster of its *)
(* sender may not be served or not verify (module Linking).                *)
RejectEnvelope(p) ==
  /\ Encrypted
  /\ pc[p] = "process"
  /\ \E i \in Current(p) : i \notin mem[p].journal
  /\ Leave(p)
  /\ UNCHANGED <<serverVars, senderVars, storeVars, acks, faults>>

StoreNext(p) ==
  /\ pc[p] = IF Encrypted THEN "store" ELSE "process"
  /\ \E i \in Current(p) :
       /\ StoreMessage(i)
       /\ batch' = [batch EXCEPT ![p] = @ \ {i}]
       /\ done' = [done EXCEPT ![p] = @ \union {i}]
  /\ Goto(p, "process")
  /\ UNCHANGED <<serverVars, senderVars, disk, lock, mem, acks, faults>>

AckSend(p) ==
  /\ pc[p] = "process"
  /\ batch[p] = {}
  /\ done[p] # {}
  /\ Goto(p, "ackSent")
  /\ UNCHANGED <<serverVars, senderVars, storeVars, lock, mem, batch, done,
                 acks, faults>>

ReceiveNothing(p) ==
  /\ pc[p] = "process"
  /\ batch[p] = {}
  /\ done[p] = {}
  /\ Leave(p)
  /\ UNCHANGED <<serverVars, senderVars, storeVars, acks, faults>>

(* The acknowledgment is answered: its ids leave the journal.              *)
AckEnd(p) ==
  /\ pc[p] = "ackDone"
  /\ disk' = IF Encrypted
             THEN [mem[p] EXCEPT !.journal = @ \ done[p]]
             ELSE disk
  /\ Leave(p)
  /\ UNCHANGED <<serverVars, senderVars, history, acks, faults>>

(* The device's own encrypted send() holds the same lock and saves the     *)
(* same file; what it changes in it (sessions) is the Ratchet module's.    *)
BeginReply(p) ==
  /\ Encrypted
  /\ pc[p] = "idle"
  /\ Enter(p)
  /\ Goto(p, "reply")
  /\ UNCHANGED <<serverVars, senderVars, storeVars, batch, done, acks, faults>>

EndReply(p) ==
  /\ pc[p] = "reply"
  /\ disk' = mem[p]
  /\ Leave(p)
  /\ UNCHANGED <<serverVars, senderVars, history, acks, faults>>

(* A failed or timed-out request raises out of the call, and a process may *)
(* be killed: either way its copy is forgotten and the lock is released.   *)
(* An acknowledgment it waited for may still be handled.                   *)
Interrupt(p) ==
  /\ pc[p] # "idle"
  /\ faults < MaxFaults
  /\ faults' = faults + 1
  /\ acks' = IF pc[p] \in {"flushSent", "ackSent"}
             THEN acks \union {AckIds(p)}
             ELSE acks
  /\ Leave(p)
  /\ UNCHANGED <<serverVars, senderVars, storeVars>>

-----------------------------------------------------------------------------
(* receive() from its first step to its last.                              *)
ReceiveStep(p) ==
  \/ FlushStore(p) \/ FlushSend(p) \/ FlushEnd(p)
  \/ Poll(p)
  \/ DecryptEnvelope(p) \/ RejectEnvelope(p) \/ StoreNext(p)
  \/ AckSend(p) \/ AcknowledgeMessages(p) \/ AckEnd(p)
  \/ ReceiveNothing(p)
  \/ EndReply(p)

Next ==
  \/ \E m \in Msg :
       \/ SendMessage(m) \/ RetrySend(m) \/ GiveUp(m) \/ GetReceipt(m)
       \/ \E k \in 1..MaxTries : QueueMessage(m, k)
  \/ \E p \in Proc :
       \/ Receive(p) \/ BeginReply(p) \/ ReceiveStep(p) \/ Interrupt(p)
  \/ \E ids \in acks : LateAcknowledge(ids)
  \/ Restart

Spec == Init /\ [][Next]_vars

(* A call that has begun goes on.  That receive() is called at all is not  *)
(* assumed: any error ends listen(), and the process with it.  Nothing is  *)
(* assumed of senders or of late requests either.                          *)
Fairness == \A p \in Proc : WF_vars(ReceiveStep(p))

FairSpec == Spec /\ Fairness

-----------------------------------------------------------------------------
(* Properties.                                                             *)

State == [journal : SUBSET Ids, opened : SUBSET Msg]

Steps == {"idle", "reply", "flush", "flushSent", "flushDone", "poll",
          "process", "store", "ackSent", "ackDone"}

(* Every variable has its type; delivery ids denote accepted envelopes.    *)
TypeOK ==
  /\ accepted \in Seq(Msg)
  /\ queue \subseteq Ids
  /\ receipts \in [Msg -> Ids \union {0}]
  /\ lost \subseteq Ids
  /\ restarts \in 0..MaxRestarts
  /\ out \in [Msg -> {"new", "wait", "sent", "failed"}]
  /\ try \in [Msg -> 0..MaxTries]
  /\ posts \subseteq Msg \X (1..MaxTries)
  /\ reply \in [Msg -> Ids \union {0}]
  /\ sentAs \in [Msg -> Ids \union {0}]
  /\ disk \in State
  /\ history \in Seq(Ids)
  /\ lock \in Proc \union {NoProc}
  /\ pc \in [Proc -> Steps]
  /\ mem \in [Proc -> State]
  /\ batch \in [Proc -> SUBSET Ids]
  /\ done \in [Proc -> SUBSET Ids]
  /\ acks \subseteq SUBSET Ids
  /\ faults \in 0..MaxFaults

(* An envelope the relay answered 202 for stays in the queue until the     *)
(* device has stored it, whatever is interrupted, polled twice or          *)
(* acknowledged late; only a restart of the server loses envelopes         *)
(* (server.py:811-849, client.py:400-445).                                 *)
NothingLost == Ids \subseteq queue \union Stored \union lost

(* While the server stays up, an envelope that is still queued and whose   *)
(* message key is spent has its plaintext in the journal, so that no       *)
(* redelivery is ever decrypted again with an advanced chain: that would   *)
(* raise out of every later receive() (client.py:376-378, 597-601).        *)
RedeliveryNeedsNoKey ==
  restarts = 0 =>
    \A i \in queue : accepted[i] \in disk.opened => i \in disk.journal

(* A message is in the history at most once, however often it is sent      *)
(* again, polled, journaled or stored by several processes                 *)
(* (client.py:749-770, server.py:755-766).                                 *)
NoDuplicateHistory ==
  \A a, b \in DOMAIN history :
    accepted[history[a]] = accepted[history[b]] => a = b

(* No process saves over what another has saved: a spent key stays spent,  *)
(* and an entry leaves the journal only when it is stored and no longer    *)
(* queued (client_state.py:62-126, client.py:424-428, 443-445).            *)
SavesLoseNothing ==
  [][ /\ disk.opened \subseteq disk'.opened
      /\ \A i \in disk.journal \ disk'.journal : i \in Stored \ queue ]_vars

(* The message_id a sender records is that of its own envelope: an answer  *)
(* never vouches for another message (server.py:755-785,                   *)
(* client.py:571-592).                                                     *)
SentWasAccepted ==
  \A m \in Msg :
    out[m] = "sent" => sentAs[m] \in Ids /\ accepted[sentAs[m]] = m

(* However a submission is repeated, the relay queues it once              *)
(* (server.py:755-785; tests/test_http_relay.py:113).                      *)
RetryQueuesOnce == IsInjective(accepted)

(* A call that fails on envelope i or on one before it.                    *)
RefusedUpTo(i) ==
  \E p \in Proc : RejectEnvelope(p) /\ \A j \in Current(p) : j <= i

(* If receive() is called again and again, by whatever process, and does   *)
(* not keep failing on an envelope or on one before it, the envelope       *)
(* leaves the queue: interrupted calls, concurrent receivers, the device's *)
(* own sends, lost acknowledgments and calls that always fail on a later   *)
(* envelope delay it but never for ever (client.py:374-445).               *)
QueueDrains ==
  \A i \in 1..Cardinality(Msg) :
    /\ []<><<\E p \in Proc : Receive(p)>>_vars
    /\ <>[][~RefusedUpTo(i)]_vars
    => (i \in queue ~> i \notin queue)

(* The device's history is the delivered side of a mailbox.                *)
Box == INSTANCE Mailbox WITH sent <- accepted, delivered <- history,
                             dropped <- lost, Envelope <- Msg
DeliversInOrder == Box!Spec

-----------------------------------------------------------------------------
(* The inductive invariant behind the safety properties, by parts.         *)

(* A message has had an attempt exactly when its send has begun.           *)
NewIsUntried ==
  /\ \A m \in Msg : out[m] = "new" <=> try[m] = 0
  /\ \A r \in posts : out[r[1]] # "new"

(* Whatever is being acknowledged, or may be acknowledged late, is stored. *)
AckedIsStored ==
  /\ \A p \in Proc : done[p] \subseteq Stored
  /\ \A p \in Proc :
       pc[p] \in {"flushSent", "flushDone"} => mem[p].journal \subseteq Stored
  /\ \A ids \in acks : ids \subseteq Stored

(* What an answered acknowledgment named is no longer queued.              *)
AnsweredIsUnqueued ==
  \A p \in Proc :
    /\ pc[p] = "flushDone" => mem[p].journal \intersect queue = {}
    /\ pc[p] = "ackDone" => done[p] \intersect queue = {}

(* An encrypted call holds the lock, and the holder's copy is the file;    *)
(* a plaintext client has neither lock nor file.                           *)
HolderIsCurrent ==
  IF Encrypted
  THEN \A p \in Proc :
         /\ pc[p] # "idle" <=> lock = p
         /\ lock = p => mem[p] = disk
  ELSE /\ lock = NoProc
       /\ disk = Empty
       /\ \A p \in Proc :
            /\ mem[p] = Empty
            /\ pc[p] \in {"idle", "poll", "process", "ackSent", "ackDone"}

(* While the server stays up, a receipt is that of the one delivery.       *)
ReceiptIsTheId ==
  restarts = 0 => \A i \in Ids : receipts[accepted[i]] = i

(* A plaintext send makes one attempt, so each message has one delivery.   *)
PlaintextIsQueuedOnce ==
  ~Encrypted =>
    /\ RetryQueuesOnce
    /\ \A m \in Range(accepted) : out[m] # "new" /\ <<m, 1>> \notin posts

(* An encrypted device has spent the key of what it stored or journaled,   *)
(* under one id per message; what it is about to store is journaled.       *)
StoredIsSpent ==
  Encrypted =>
    /\ disk.opened \subseteq Range(accepted)
    /\ \A i \in Stored \union disk.journal : accepted[i] \in disk.opened
    /\ \A i, j \in Stored \union disk.journal :
         accepted[i] = accepted[j] => i = j
    /\ \A p \in Proc : pc[p] = "store" => Current(p) \subseteq disk.journal

(* What is acknowledged is stored, the lock's holder works on the file's   *)
(* contents, a receipt names the one delivery and stored messages have     *)
(* spent keys: together inductive (client.py:374-445, server.py:688-849).  *)
DeliveryInv ==
  /\ TypeOK
  /\ NewIsUntried
  /\ AckedIsStored
  /\ AnsweredIsUnqueued
  /\ HolderIsCurrent
  /\ ReceiptIsTheId
  /\ PlaintextIsQueuedOnce
  /\ StoredIsSpent
  /\ IsInjective(history)
  /\ NothingLost
  /\ RedeliveryNeedsNoKey

-----------------------------------------------------------------------------
(* What DeliversInOrder and SentWasAccepted rest on besides.               *)

Before(i) == {j \in Ids : j < i}

(* What is behind a stored or a polled id is stored, dropped by a restart  *)
(* or polled with it.                                                      *)
NothingSkipped ==
  /\ queue \intersect lost = {}
  /\ restarts = 0 => lost = {}
  /\ \A i \in Stored : Before(i) \subseteq Stored \union lost
  /\ \A p \in Proc : \A i \in batch[p] :
       Before(i) \subseteq Stored \union lost \union batch[p]

(* A batch is worked on by the call that polled it, and at most its        *)
(* current message is journaled and not stored; an interrupted call leaves *)
(* at most that one behind.                                                *)
OneIsPending ==
  /\ \A p \in Proc : batch[p] # {} => pc[p] \in {"process", "store"}
  /\ \A i, j \in disk.journal \ Stored : i = j
  /\ \A i \in disk.journal \ Stored : Before(i) \subseteq Stored \union lost
  /\ \A p \in Proc :
       pc[p] \notin {"idle", "reply", "flush"} =>
         disk.journal \ Stored \subseteq
           IF pc[p] = "store" THEN Current(p) ELSE {}

(* An encrypted device stores nothing newer than what it still has to      *)
(* store, even if a restart dropped that from the queue.                   *)
PendingIsNewest ==
  Encrypted =>
    \A j \in Stored :
      /\ \A i \in disk.journal \ Stored : j < i
      /\ \A p \in Proc : \A i \in batch[p] \ Stored : j < i

(* The device goes through the relay's list in order, over interrupted     *)
(* calls: what refines Mailbox (client.py:400-445).                        *)
OrderInv == NothingSkipped /\ OneIsPending /\ PendingIsNewest

(* A receipt, wherever it is, is that of the message it answers.           *)
AnswersNameTheirMessage ==
  \A m \in Msg :
    \A i \in {receipts[m], reply[m], sentAs[m]} : i # 0 => accepted[i] = m
=============================================================================
