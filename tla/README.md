# Verification of nso_messaging

TLA+ models of the messaging system in `src/src/nso_messaging`, model-checked
with TLC, with theorems checked by TLAPS. Line numbers refer to that directory.

## The system

One relay (`server.py`) and clients (`client.py`), one per device. An account
is a phone number with one primary device and any number of companions; each
device has its own state directory, identity, pre-keys, sessions and queue.

| component | state | operations |
|---|---|---|
| relay message queue (server.py:688-849) | `_messages`, `_message_receipts`, in memory | `_queue_message`, `_deliver_messages`, `_acknowledge_messages` |
| pre-key store (server.py:96-126, 587-686) | `_bundles`, `_consumed_pre_key_ids`, `pre_key_bundles.json` | `_publish_bundle`, `_fetch_bundle` |
| registrations and links (server.py:86-94, 286-585) | `_registrations`, `registrations.json` | `_register`, `_publish_link_data`, `_get_link_data`, `_get_devices` |
| request authentication (server.py:242-284, request_auth.py) | none | `_is_authenticated` |
| delivery loop (client.py:374-445, 749-799) | SQLite history, a call's variables | `receive`, `listen`, `_flush_processed_incoming`, `_request` |
| crypto state (client_state.py) | `state.json`, `state.lock` | `lock`, `restore`, `save`, `load_or_create` |
| sessions and ratchet (client.py:453-700, session.py:499-627, crypto.py) | `sessions`, `incoming_sessions`, `active_sessions` | `_send_encrypted_locked`, `_decrypt_envelope_locked` |
| linking (client.py:226-350, companion_link.py) | offer file, companion keys, link metadata | `write_link_offer`, `link_companion`, `complete_companion_link` |
| device start-up (device_identity.py:72-87, json_store.py) | `device_identity.json` | `load_or_create_device_fingerprint`, `write_json_atomic` |
| CLI, configuration, encodings, primitives | none | |

Clients talk to the relay by HTTP; each request is answered by a thread of its
own, and every handler works under one lock of the server. The server calls
nobody: devices poll. Processes of one device (a `listen` in one terminal, a
`send` in another) share the state directory: an encrypted client takes an
exclusive `flock` for the whole of a send or receive, network calls included,
reads the state file again under it, and replaces the whole file on each save.
A plaintext client takes no lock.

What is hard here:

* a request is retried, or handled after its client gave up; its answer is lost;
* a process stops between any two of: save the spent key, store the message,
  acknowledge it, drop it from the journal;
* several processes work on one state directory, with snapshots of the queue
  that others overtake;
* a restart of the server empties queues and receipts, and falls back to the
  pre-keys and registrations that were saved;
* processes start together on a state directory that has nothing in it yet;
* one send is many requests, each saved on its own, while devices come and go;
* two devices advance a shared ratchet from opposite ends, in any order, and a
  send may advance one end only.

`PROJECT.json` lists these hazards one by one, with the properties that cover
each, or why none does.

What makes each component correct: the queue loses nothing before it is stored
and delivers once and in order; the journal covers every spent key that may be
needed again; no process undoes another's progress; no message key is used
twice and both ends of a session stay able to read each other; a one-time
pre-key is served once and is usable when it is; a stored sent copy has reached
every device there was; processes of one directory are one device, and its
credential logs it in; a companion that got a
credential is registered for good, the signed list names the registered
companions, and the two sides of a link hold one certificate.

## Modules

### Delivery

Messages to one device, from the senders' `POST /messages` to the device's
history. Its state is the relay's queue and receipts (`queue`, `receipts`), the
progress of each sender's call (`out`, `try`, `posts`, `reply`, `sentAs`), the
device's state file and SQLite history (`disk`, `history`), its lock, and each
process' step and variables (`pc`, `mem`, `batch`, `done`). `accepted` and
`lost` are history variables.

* A message names its `client_message_id` with sender and addressee (the
  receipt key, server.py:756-762), its envelope and the message key in it. The
  server's message ids are positions in `accepted`. They only grow, so the set
  `queue` read in increasing order is the relay's list.
* `SendMessage`, `RetrySend`, `GiveUp`, `GetReceipt` are a sender's call of
  `_request` (client.py:772-799): two attempts when encrypted, one otherwise.
  A submission stays in `posts` until the relay handles it, which may be after
  the call has ended, or never.
* `QueueMessage`, `AcknowledgeMessages`, `LateAcknowledge`, `Poll`, `Restart`
  are the relay; each handler runs under the server's lock and is one step.
* `Receive` to `AckEnd` are receive() (client.py:374-445): lock and restore,
  flush the journal (store, acknowledge, save), poll, and for each envelope
  decrypt and save, then store; then acknowledge and save. Every save, SQLite
  insert and request is a step of its own, and `Interrupt` may end the call
  before any of them: a failed request raises through the whole call, and a
  killed process looks the same to everyone else.
* `BeginReply`, `EndReply` are the device's own encrypted sends, which compete
  for the lock and save the same file.
* `Opens` says that a message key opens one envelope: a spent key always raises.
  `RejectEnvelope` may refuse any other envelope as well, at any time, because
  receive() has many reasons to raise: a session that is crossed, torn or cut
  (Ratchet's subject), a sender's roster that is not served or does not verify
  (client.py:608-618, Linking's), a certificate or an identity that does not
  match. Only an envelope in the journal cannot fail any more.

### Mailbox

The abstract promise: envelopes are delivered in the order they were accepted,
each at most once, and none is skipped unless it was dropped. Delivery
implements it with `sent <- accepted`, `delivered <- history`,
`dropped <- lost`.

### Ratchet

The sessions of two devices. Keys are symbolic: a root is the sequence of the
Diffie-Hellman secrets mixed into it, each named by the set of the two key
pairs that made it; chain and message keys are named by root, label and index.
The constructors are injective, as the KDFs are taken to be. `Encrypt` chooses
the session (client.py:484-520), ratchets and leaves the new state in `draft`;
`SaveSend` is the receipt's arrival (572-578); `AbandonSend` is a call that ends
without it. `Decrypt` is `_decrypt_envelope_locked` on the head of the queue;
an envelope that does not open stays there. Delivery once and in order of what was
queued is taken from Delivery. A device's `inbox` is the set of its envelopes' positions in
`accepted`, read in increasing order, as in Delivery.

A send may be queued twice: a restart forgets the receipts (server.py:68), and
an attempt of `_request` that comes after it (client.py:793-799) is queued again.
`Restart` puts the sends whose device still waits for the receipt into
`forgotten`, `QueueAgain` queues the second copy, and `SaveSend` takes away the
possibility, as a call that has its receipt makes no other attempt. The positions
of second copies are `Repeated`; their key is spent when they come to the head
(`ReceivedAreSpent`), so that they never open. If the restart dropped the first
copy, the session counts as cut, although the second copy then opens.

A restart leaves in a device's `inbox` what it had polled already, and
`LoseBatch` is the receive() that ends early after it: what was only in that
device's hands is gone. (Both were found missing by the refinement below.)

### Conversation

Delivery and Ratchet composed: two encrypted devices, the relay's queues, the
journals, acknowledgments and histories, and real sessions in place of
Delivery's `Opens`. Sends are Ratchet's actions, taken through
`INSTANCE Ratchet`; receive() has Delivery's steps, each interruptible, one call
per device at a time, which is what the lock makes of its processes. Ratchet's
`inbox` is not a variable here but what a device has not decrypted: the rest of
its batch, then what the relay has for it, less what is journaled or stored.

The property `ReceivesAtomically` is `Sessions!Spec`: under that mapping every
step is a step of Ratchet or leaves it alone, second copies included
(`QueueAgain`, as in Ratchet; it has an id of its own, so no journal knows it). Ratchet takes a receive as one
step on a queue that delivers once and in order; this shows that it may.

### FanOut

One device's encrypted sends to all devices of two accounts. State: the
registrations in the relay's order, signed lists and published bundles; the
relay's receipts and accepted envelopes; the state file `disk`, as the number
of envelopes each session was advanced for; and each call's copy of it, targets
and receipts. Calls that overlap are processes of the device; the user who
repeats a failed send makes another call.

* `Send`, `FetchHome`, `FetchAway`, `PostNext`, `RetrySend`, `SaveSession`,
  `StoreSent`, `Interrupt` are client.py:447-592, one step per request, save and
  insert. `QueueMessage`, `LateQueueMessage` and `Restart` are the relay.
* `Approve`, `Register`, `PublishBundle` are the three steps of linking that a
  sender can see, at any time. `Approve` replaces the signed list by the
  registered companions and the new one (server.py:499-535), whatever other
  links are in `pending`; while the list and the registrations differ, the
  roster does not verify.
* The order of the devices in a roster is the order of registration and, after
  a restart, of ids, because registrations are written with sorted keys.
* `accepted` and `before` (who could be reached when a call began) are history.

### StartUp

Processes started on one state directory, from the constructor to a saved
credential (client.py:66-152): the fingerprint file, the crypto state, and the
registration of a primary. `write_json_atomic` is three steps, and files are
what a file system makes of them: a name refers to a file, an open handle stays
with its file when the name is moved, opening for writing empties it.

* `ReadFingerprint` to `ReplaceDestination` are device_identity.py:72-87 with
  json_store.py:8-13; `LockState`, `SaveState` are `load_or_create`.
* `SendRegister`, `Register`, `LateRegister`, `SaveAuthKey` are the
  registration; a primary's is not retried. `SaveRegistrations` may fail.
* `Crash` ends a process anywhere; its request may arrive later.
* `raced` is a history variable: two processes made a fingerprint at once.

### PreKeys

The one-time pre-keys of one device: the relay's store in memory and on disk,
the registered identity key in memory and on disk, and the client's private
keys. The published list is a set: the relay takes its first key, and nothing
depends on which. `Saved` and `SaveFails` are the two outcomes of `_save_bundles` (a raised
error leaves memory changed and sends no answer).

### Linking

The companions of one account: the account's registrations in memory and on
disk (`srv`, `file`), the primary's call of `link_companion` and its saved keys,
and each companion's offer, call of `complete_companion_link`, saved link and
credential. An approval, which the primary signs with fresh metadata, is named
by its number in `links`; two uploads are equal exactly when they have one
number, which is what server.py:530 compares.

* `PublishLinkData`, `Register` are the handlers for a call that waits,
  `LatePublishLinkData`, `LateRegister` for one that was given up. `MayLink` and
  `MayRegister` are their checks on what is signed; the signatures verify.
  `SaveRegistrations` may fail: memory stays changed and nobody is answered. The
  registration of any other account saves this one too (`RegisterOther`).
* `LinkCompanion`, `RetryLink`, `ConfirmLink`, `LinkRefused`, `AbandonLink` are
  the primary's call (client.py:261-296). A refusal is retried: an HTTPError is
  a URLError (client.py:797).
* `WriteLinkOffer` to `Interrupt` are a companion, one process each, from the
  offer file to the published bundle (client.py:247-259, 298-350, 116-165).
* `took`, the approvals the relay accepted, is a history variable. `Confirmed`
  says that the primary saved each, or still waits for its answer.

## Runs

| run | instance | shows |
|---|---|---|
| DeliveryEncrypted | 2 messages, 2 processes, 2 interruptions, 1 restart | TypeOK, NothingLost, RedeliveryNeedsNoKey, NoDuplicateHistory, SentWasAccepted, SavesLoseNothing, refinement of Mailbox |
| DeliveryPlaintext | the same without encryption | NothingLost, NoDuplicateHistory |
| DeliveryLive | 2 messages, 2 processes, 2 interruptions, no restart | RetryQueuesOnce, and QueueDrains: each envelope leaves the queue, if receive() is called again and again and does not keep failing on it or on one before it |
| RatchetSessions | 4 sends with 1 abandoned or 1 restart, 3 with both | TypeOK, KeysUsedOnce, ActiveIsHeld, HeadOpens, TurnsKeepMatching |
| RatchetCrossed | 4 sends, none abandoned | PeersDeriveMatchingKeys fails |
| ConversationOpens | 3 sends, 2 faults (interrupted receives, at most 1 abandoned send and 1 restart) | TypeOK, NextOpens, refinement of Ratchet (ReceivesAtomically) |
| FanOutReaches | 2 calls, 2 devices per account, 2 faults, 1 restart | TypeOK, SentReachesAll, SentNamesEnvelope, SendsDoNotInterleave, FailureTearsOne |
| StartUpAgrees | 3 processes, 2 crashes, 1 failed save, 1 restart | TypeOK, StartsAgree, KeysAreShared, RegisteredKeysAreHeld, CredentialIsAccounts, CredentialLogsIn |
| PreKeysServed | 2 bundles of 3 keys, 2 failed saves, 2 restarts | TypeOK, ServedOnce, ServedIsDurable, OfferedIsHeld, IdentityIsKept |
| LinkingAgrees | 2 companions with 2 offers, 2 approvals, 2 cut calls, 1 failed save, 1 restart | TypeOK, CredentialIsRegistered, CertificateIsHeld, ListedIsKnown, ListsAgree |
| LinkingListed | 2 companions, 1 cut call | LinkedIsListed fails |
| LinkingRoster | 2 companions, no fault | RosterVerifies fails |

Bounds. Two messages are enough for a batch with a stored and an unstored
envelope, and for a later message that an early acknowledgment must not touch;
two processes for every race on the state directory; two interruptions for a
call that is interrupted, resumed by a flush, and interrupted there; one
restart because the second finds the same empty memory, and because a call
makes two attempts, which one restart can queue twice. Four sends open a
session, change direction twice and go on after it, or cross, with any of them
submitted over the restart; three, in Conversation, open one and change
direction twice, with a receive interrupted and the one that resumes it
interrupted again. Two of the bounds are CONSTRAINTs of the MC modules
(`FewSends`, `FewFaults`). Two devices per account give a send from a primary
to its own companion, the peer's primary and the peer's companion, a send from
a companion, and a linking that overlaps any of them; two faults are a retry
whose first attempt comes late and a call that fails after it. Three processes
are one that crashes in the fingerprint, one that crashes with a registration
on its way, and one that is started after them (four, checked once, show
nothing more). A pool of three keys lets one be served, one used and one
offered across two restarts. Two approvals by one primary are one per companion
or two for one, before and after the restart; a second offer makes a pending
link one that its companion no longer verifies; with two cut calls, an upload
and a registration can both be late.
Safety runs use symmetry over messages and processes (devices, bundles,
companions), but for FanOut, whose devices have roles and an order; runs with
liveness properties do not. `CHECK_DEADLOCK FALSE` in every run: once the
bounds are used up and every process may rest, a system without work stops.

Fairness, in `FairSpec` only, is weak fairness of each process' steps inside
receive() or send(): a thread that runs goes on, and its requests are answered
or fail. Nothing is assumed of senders, of late requests or of where calls are
interrupted, only that they are so finitely often (`MaxFaults`); and not that
receive() is called again: any error leaves `listen` (client.py:394-398), and
the CLI catches only KeyboardInterrupt (cli.py:158-165), so the process ends
and someone has to start another. QueueDrains therefore has that as a premise,
`[]<><<\E p : Receive(p)>>_vars`, and a second one: from some time on, no call
fails on the envelope or on one before it (`RefusedUpTo`). Under these it says
that nothing else can keep the envelope in the queue: not a journal left by an
interrupted call, a lost acknowledgment, the other process, the device's own
sends or an envelope behind it that fails for ever. An envelope that does fail
for ever wedges the queue from there on, which the premise excludes and the
sections below describe. Liveness is checked without restarts, which empty the
queue and would make it vacuous.

## What disagrees with the code's own statements

* **Crossed sends break a session** (RatchetCrossed): client.py:541-547 and
  665-670 both mix into one root, so two sends that cross on an established
  session leave roots that neither end can reconcile.
* **A lost link answer drops a companion from the list** (LinkingListed): the
  primary saves a companion only after the answer (client.py:293-295), and the
  relay takes a list without a companion that is still pending. Once that one
  registers, no roster of the account verifies and, by the CLI, no link is
  accepted any more.
* **Linking a second companion makes the account unreachable** (LinkingRoster)
  until it registers: the list changes at the approval (server.py:533), the
  registrations later, and client.py:215-223 wants them equal.

## What the properties except

The passing properties say what does hold. Where they make an exception, the
models reach the following, and no run states it.

* *HeadOpens, TurnsKeepMatching and NextOpens except torn, crossed and cut
  sessions.* Crossed ones are RatchetCrossed's; cut ones lost an envelope in a
  restart. The sender
  saves after the receipt (client.py:571-578), so a send whose receipt is lost
  leaves the two ends one ratchet step apart for good. FailureTearsOne bounds
  this to one session per failed call.
* *RetryQueuesOnce is for servers that stay up.* Receipts are in memory only
  (server.py:68): a restart between two attempts queues a submission twice.
  HeadOpens and NextOpens say what follows: on a session that is otherwise in
  order the second copy, and nothing else, does not open, so every later
  receive() of the recipient raises on it and what is behind it stays queued.
* *QueueDrains has its two premises*: receive() goes on being called, and does not
  keep failing on the envelope or on one before it.
* *IdentityIsKept is for saved identities.* server.py:637 assigns the identity
  of a bundle before the check at 639, so that after a restart that forgot the
  unsaved one, a refused bundle replaces it.
* *StartsAgree and CredentialLogsIn except starts that race.* Two processes that
  make the fingerprint at once share the temporary file: one may go on with a
  fingerprint that is not on disk, find its file renamed away, or rename the
  other's while it is still empty, after which no process can start. If the
  other one registers, the credential is not for the device on disk.
* *SentReachesAll is for sends that completed.* A send may fail after it
  reached some devices, with no fault at all when a companion is registered and
  its bundle is not published yet: its keys are looked at only inside the loop
  (client.py:513-523).
* *ListsAgree is for accounts without an unconfirmed approval*: then the list is
  the registered companions and at most one in progress.

No document says otherwise of these either: a device whose registration
was saved and not answered can never log in (a second attempt is refused); a
companion that is stopped between saving its credential and
publishing its pre-keys (client.py:152-155) stays without them, because with a
credential the command refuses to run again (302-303), and every send to it
raises; and one that writes a new offer after its approval can be
linked no more and keeps every other companion from being linked.

A plaintext process that holds a polled batch over a restart of the server may
store it after newer messages, so the order of a plaintext history is promised
only while the server stays up (the theorem MailboxRefined assumes it, and
DeliveryPlaintext, which has a restart, does not check DeliversInOrder).

## Theorems

`Delivery_proofs.tla`, for all `Msg`, `Proc`, `Encrypted`,
`MaxFaults`, `MaxRestarts` that satisfy `DeliveryAssumption`:

| theorem | statement |
|---|---|
| TypeCorrect | `Spec => []TypeOK` |
| DeliveryCorrect | `Spec => []DeliveryInv` |
| NothingIsLost | `Spec => []NothingLost` |
| RedeliveryIsJournaled | `Spec => []RedeliveryNeedsNoKey` |
| HistoryHasNoDuplicate | `Spec => []NoDuplicateHistory` |
| SavesAreKept | `Spec => SavesLoseNothing` |
| RetriesQueueOnce | `Spec => [](restarts = 0 => RetryQueuesOnce)` |
| ReceiptsAreTrue | `Spec => []SentWasAccepted` |

`Delivery_refines.tla`, under the same assumption:

| theorem | statement |
|---|---|
| OrderCorrect | `Spec => []OrderInv` |
| MailboxRefined | `Spec => DeliversInOrder`, if `Encrypted \/ MaxRestarts = 0` |

`Linking_proofs.tla`, for every set of companions and all bounds in `Nat`
(`LinkingAssumption`):

| theorem | statement |
|---|---|
| LinkingCorrect | `Spec => []LinkingInv` |
| CredentialsAreKept | `Spec => []CredentialIsRegistered` |
| CertificatesAgree | `Spec => []CertificateIsHeld` |
| ListsNameKnown | `Spec => []ListedIsKnown` |
| TypesHold | `Spec => []TypeOK` |
| AgreementCorrect | `Spec => []AgreementInv` |
| ListsStayTogether | `Spec => []ListsAgree` |

`StartUp_proofs.tla`, for every set of processes and all bounds in `Nat`
(`StartUpAssumption`):

| theorem | statement |
|---|---|
| StartUpCorrect | `Spec => []StartUpInv` |
| StartsUseOneFingerprint | `Spec => []StartsAgree` |
| StartsShareKeys | `Spec => []KeysAreShared` |
| AccountsHaveKeys | `Spec => []RegisteredKeysAreHeld` |
| CredentialsAreGood | `Spec => []CredentialIsAccounts` |
| CredentialsLogIn | `Spec => []CredentialLogsIn` |
| TypesHold | `Spec => []TypeOK` |

`PreKeys_proofs.tla`, for every set of bundles, pool size and bounds in `Nat`
(`PreKeysAssumption`):

| theorem | statement |
|---|---|
| PreKeysCorrect | `Spec => []PreKeysInv` |
| KeysAreServedOnce | `Spec => []ServedOnce` |
| ServedKeysAreRecorded | `Spec => []ServedIsDurable` |
| OfferedKeysAreHeld | `Spec => []OfferedIsHeld` |
| IdentitiesAreKept | `Spec => []IdentityIsKept` |
| TypesHold | `Spec => []TypeOK` |

`FanOut_proofs.tla`, for any accounts, sender, order of ids and set of calls,
and bounds in `Nat` (`FanOutAssumption`):

| theorem | statement |
|---|---|
| FanOutCorrect | `Spec => []FanOutInv` |
| TypesHold | `Spec => []TypeOK` |
| SentCopiesAreComplete | `Spec => []SentReachesAll` |
| SentCopiesAreNamed | `Spec => []SentNamesEnvelope` |
| CompletedSendsInOrder | `Spec => []SendsDoNotInterleave` |
| FailuresTearOne | `Spec => []FailureTearsOne` |

`Ratchet_proofs.tla`, for two devices and any bounds in `Nat`, so for
conversations of any length (`RatchetAssumption`):

| theorem | statement |
|---|---|
| RatchetCorrect | `Spec => []RatchetInv` |
| TypesHold | `Spec => []TypeOK` |
| ActiveSessionsAreHeld | `Spec => []ActiveIsHeld` |
| KeysAreUsedOnce | `Spec => []KeysUsedOnce` |
| HeadsOpen | `Spec => []HeadOpens` |
| TurnsMatch | `Spec => []TurnsKeepMatching` |

`Conversation_proofs.tla`, the same for the composition
(`ConversationAssumption`):

| theorem | statement |
|---|---|
| ReceiveCorrect | `ReceiveInv` and Ratchet's invariant hold, and every step is Ratchet's or a stutter |
| TypesHold | `Spec => []TypeOK` |
| RatchetIsImplemented | `Spec => ReceivesAtomically` |
| NextEnvelopesOpen | `Spec => []NextOpens` |

None of the properties is inductive alone. `DeliveryInv` adds what each rests
on: whatever is or may be acknowledged is stored (`AckedIsStored`, for
NothingLost); the lock's holder has the file's contents in its copy
(`HolderIsCurrent`, for SavesLoseNothing); an answered acknowledgment has
emptied the queue of its ids (`AnsweredIsUnqueued`) and a receipt names the one
delivery of its message (`ReceiptIsTheId`), for RedeliveryNeedsNoKey; stored
and journaled messages have spent keys, one id each (`StoredIsSpent`), or, in
plaintext, one attempt each (`PlaintextIsQueuedOnce`), for NoDuplicateHistory;
and a message is untried exactly while it is new (`NewIsUntried`, for the
types). TLC found this invariant and every other one below to hold in its module's
instances before it was proved; since they are proved, no run repeats them.
The proof has one lemma `Next<Part>` per part, with one step per action that
can disturb it.

The refinement needs more than DeliveryInv. A step of the device maps to
Mailbox's Deliver only if everything before the stored id is stored or dropped
(`NothingSkipped`), which a flush keeps, although it takes journaled ids in no
particular order, because at most one of them is not stored yet
(`OneIsPending`) and, in an encrypted device, nothing stored is newer
(`PendingIsNewest`). The last part fails for plaintext processes over a
restart, hence the assumption. All other steps map to Accept, Drop or a
stutter.

`LinkingInv` adds to its three properties that answered registrations are in
memory and on disk (`AnsweredIsDurable`), that memory is never behind the file
(`FileIsBehind`), and that a registration under way carries what its companion
saved, or can no longer succeed (`CallsAgree`): a restart may replace the
pending link that a companion read, but it also discards late requests. The
proof brings what any step does to the account into one of four forms
(`RelayStep`).

`StartUpInv` adds that a process that creates a crypto state is the only one
for its fingerprint and that nothing is on disk yet (`StateIsMadeOnce`, for
KeysAreShared); that accounts are complete and late registrations come from
processes that have ended (`AccountsAreComplete`, for RegisteredKeysAreHeld: as
keys on disk are never replaced, an account once held stays held); that an
answered registration is the account (`AnsweredIsAccount`); and, for histories
without a race, that the one maker has the temporary file to itself
(`MakerIsAlone`) and that accounts are those of the fingerprint on disk
(`AccountsAreOfDevice`). Accounts known after a step were known before or posted
(`KnownStep`).

`PreKeysInv` adds that consumed keys are not on offer, in memory and on disk,
which a publication keeps because it refuses consumed keys (server.py:642-647).

`AgreementInv` relates the two sides of linking for ListsAgree. Every approval in
an account, in memory or on disk, is one the relay took (`ApprovalsAreTaken`);
what the primary saved is known to both copies, so a restart cannot undo it, and
what was accepted will be (`SavedIsKnown`). An account is *owned* when all its
companions are saved or in the primary's present call. An owned one lists
exactly its companions, at most one of them pending (`ListFollows`). ListsAgree
itself is about the moment between calls; this is what survives the states in
between, in which the relay has taken an approval and the primary has not heard
of it. Accounts that are not owned, after an approval that went unconfirmed,
promise nothing, and `MayLink` accepts no list that would make one owned again
with a wrong list.

`FanOutInv` says what a call of send has done at each step: the lock's holder has
the state file in its copy and is alone (`HolderIsCurrent`), the targets that a
complete send must reach are served, in `todo` or still to be fetched
(`TargetsRemain`), answers name the call's own envelopes (`AnswersAreTrue`), and
the relay has, or may still get, nothing of a call beyond what it served and the
one device it is at (`ReachedIsServed`), which gives FailureTearsOne. For the order
of sends (`CompletedAreFirst`) a late attempt must not be queued after its call
was answered; it is not, because the answer's receipt is remembered, or a
restart that forgot it discarded the late attempt as well (`LateIsKnown`).

`RatchetInv` treats each session by itself, if it did not cross and was neither
torn nor cut. Its sends on their way, second copies aside, go in one direction (`OneDirection`) and
wait in the order they were made (`WaitInOrder`). Each is encrypted one ratchet
step after the one before it and the first one step after the receiver's state
(`ReceiverFollows`); the sender's state is where the receiver will be when it has
them all (`SenderLeads`). A send that waits for its receipt has advanced in its
draft only, so both parts are about the state a device will have (`State`), and a
send that has not reached the relay can still be abandoned, so SenderLeads is
also about the saved state without it. The responder's end comes to be
with the first envelope (`EndsMeet`). A second copy was queued after a first one (`QueuesAgree`),
which the receiver has taken when the second is at the head, and a state is past
every envelope it has received: neither its receive chain nor a new one derived
from it can have the key again (`ReceivedAreSpent`). HeadOpens is ReceiverFollows
at the head of the queue, and for second copies ReceivedAreSpent; TurnsKeepMatching is SenderLeads with nothing on its way. KeysUsedOnce
needs only that a root ends in its own send's ratchet key (`KeysAreFresh`). The
proof carries the parts about sessions per session and device (`BySession`) and
treats a send, a receive and an abandoned send one after the other.

`ReceiveInv` says, for each step of a receive, where an envelope is: what is
stored and still queued is in the journal (`StoredIsJournaled`), only stored ones
are acknowledged, however late (`AcksAreStored`), what the call has in its hands,
stored and journaled agree (`StepsAgree`), and what it has in its hands precedes
what the relay has, which still has all of it or lost it in a restart
(`HandIsAhead`, `HandIsWhole`). From these a decryption takes the head of the
queue Ratchet sees, `Inbox`, and a poll, flush, acknowledgment or interrupted call
leaves that queue alone or loses what a `LoseBatch` does.
`Conversation_proofs` instantiates `Ratchet_proofs` with `Inbox`, so that
Ratchet's induction step carries over to Conversation and NextOpens follows from
HeadOpens.

What stays with TLC: QueueDrains, as liveness under fairness is outside the
prover's reach, and the properties of the three runs that expect a violation.
RetryQueuesOnce is proved for histories without a restart, which is the instance
DeliveryLive checks. All other properties of the runs are proved for all values
of the constants, DeliversInOrder under the assumption of MailboxRefined.

## Not modelled

Authentication and payload checks (pure; a failure changes nothing),
update_device_list (no caller in the package), the
byte-level primitives and encodings, the CLI and configuration, and two
processes of one primary or companion that link at once. Time-outs are the
choice to give up at any moment.
A crash in the middle of `write_json_atomic` leaves the old file, so it is an
interruption before the save; only StartUp, where writers of one file are not
under a lock, has its steps.

## Plan

Every component but the pure ones is modelled, and every safety property of the
runs is proved. What is left to prove are properties that relate the modules:

1. Delivery to Conversation: what Delivery's theorems say of one device with
   several processes, restated for Conversation's two devices (nothing that is
   neither acknowledged nor lost to a restart leaves the system).
2. Ratchet: how far apart a torn session is, so that the exception of HeadOpens
   is described by what does hold of it.
3. FanOut to Ratchet: that one call advances each target's session as one of
   Ratchet's sends does.
