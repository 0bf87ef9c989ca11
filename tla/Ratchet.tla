------------------------------ MODULE Ratchet -------------------------------
(***************************************************************************)
(* The sessions of two encrypted devices: their set-up from a pre-key      *)
(* bundle, the DH ratchet every later send performs, and the receive side  *)
(* that follows it.  A device sends and receives under the lock of its     *)
(* state file, so that a receive is one step here; a send is not, because  *)
(* it computes its envelope, waits for the relay and saves its new state   *)
(* only when the receipt has come.                                         *)
(*                                                                         *)
(* Names and values.  Keys are symbolic.  The n-th send generates the key  *)
(* pair n (its ephemeral or ratchet key), and the session it creates, if   *)
(* it creates one, is named n too: session_id_for_header is the encoded    *)
(* ephemeral.  The device itself names its signed pre-key.  A root key is  *)
(* the sequence of the Diffie-Hellman secrets it was derived from, each    *)
(* the set of its two key pairs; X3DH, which mixes the initiator's         *)
(* ephemeral with the responder's long-term keys, counts as the first.     *)
(* HKDF and HMAC are injective: a chain key is the root that was derived   *)
(* with it, a label for its direction and the number of times it advanced, *)
(* and the message key of a chain key is that chain key.  An envelope      *)
(* opens exactly when the two message keys are equal (its MAC).  Queues    *)
(* are sets of positions in accepted, as in module Delivery.               *)
(***************************************************************************)
EXTENDS Naturals, Sequences, FiniteSets, SequencesExt

CONSTANTS
  Alice, Bob,   \* the two devices
  MaxSends,     \* bound: sends, abandoned ones included
  MaxAbandoned, \* bound: sends that end without a receipt
  MaxRestarts   \* bound: restarts of the relay

ASSUME RatchetAssumption ==
  /\ Alice # Bob
  /\ {Alice, Bob} \intersect Nat = {}
  /\ MaxSends \in Nat
  /\ MaxAbandoned \in Nat
  /\ MaxRestarts \in Nat

Device == {Alice, Bob}
Peer(d) == IF d = Alice THEN Bob ELSE Alice

VARIABLES
  sent,       \* history: every envelope encrypted, abandoned ones included
  posts,      \* sends whose request has not been handled by the relay
  forgotten,  \* queued sends a restart forgot, that may be submitted again
  accepted,   \* history: the sends the relay queued, in their order
  inbox,      \* the relay's queue of each device: positions in accepted
  call,       \* the send each device waits on, 0 when there is none
  draft,      \* the session state that send will save
  outgoing,   \* sessions[peer] of each device: a session or 0
  incoming,   \* its incoming_sessions, in order of insertion
  active,     \* active_sessions[peer]: a session or 0
  session,    \* the state of each session a device holds
  abandoned,  \* history: sends that ended without a receipt
  crossed,    \* history: sessions written in both directions at once
  cut,        \* history: sessions of envelopes a restart dropped
  restarts    \* number of restarts so far

relayVars   == <<posts, forgotten, accepted, inbox>>
callVars    == <<call, draft>>
stateVars   == <<outgoing, incoming, active, session>>
historyVars == <<abandoned, crossed, cut, restarts>>
vars == <<sent, relayVars, callVars, stateVars, historyVars>>

Sends == DOMAIN sent
NoState == <<>>

Init ==
  /\ sent = <<>>
  /\ posts = {}
  /\ forgotten = {}
  /\ accepted = <<>>
  /\ inbox = [d \in Device |-> {}]
  /\ call = [d \in Device |-> 0]
  /\ draft = [d \in Device |-> NoState]
  /\ outgoing = [d \in Device |-> 0]
  /\ incoming = [d \in Device |-> <<>>]
  /\ active = [d \in Device |-> 0]
  /\ session = [d \in Device |-> <<>>]
  /\ abandoned = {}
  /\ crossed = {}
  /\ cut = {}
  /\ restarts = 0

-----------------------------------------------------------------------------
(* Keys and session states.                                                *)

ChainKey(root, label) == [root |-> root, label |-> label, index |-> 0]

(* derive_message_key: the message key and the chain key after it.         *)
MessageKey(chain) == chain
NextChainKey(chain) == [chain EXCEPT !.index = @ + 1]

(* ratchet_with_peer: the next root, and the chain key derived with it.    *)
RatchetRoot(root, priv, remote) == Append(root, {priv, remote})

(* X3DH between the initiator's ephemeral n and the responder q.           *)
FirstRoot(n, q) == <<{n, q}>>

(* establish_initiator_session of send n to device q.                      *)
InitiatorState(n, q) ==
  LET root == FirstRoot(n, q)
  IN  [root    |-> root,
       send    |-> ChainKey(root, "initiator"),
       receive |-> ChainKey(root, "responder"),
       priv    |-> n,
       remote  |-> q,
       ratchet |-> FALSE]

(* establish_responder_session at device q for an envelope of session n    *)
(* that advertises the key rpub.                                           *)
ResponderState(n, q, rpub) ==
  LET root == FirstRoot(n, q)
  IN  [root    |-> root,
       send    |-> ChainKey(root, "responder"),
       receive |-> ChainKey(root, "initiator"),
       priv    |-> q,
       remote  |-> rpub,
       ratchet |-> TRUE]

(* The state from which send number n encrypts.                            *)
SendState_KeepRoot(s, n) ==
  IF s.ratchet
  THEN LET root == RatchetRoot(s.root, n, s.remote)
       IN  [s EXCEPT !.send = ChainKey(root, "ratchet"), !.priv = n]
  ELSE s

SendState_OldKey(s, n) ==
  IF s.ratchet
  THEN LET root == RatchetRoot(s.root, s.priv, s.remote)
       IN  [s EXCEPT !.root = root, !.send = ChainKey(root, "ratchet")]
  ELSE s

SendState(s, n) ==
  IF s.ratchet
  THEN LET root == RatchetRoot(s.root, n, s.remote)
       IN  [s EXCEPT !.root = root,
                     !.send = ChainKey(root, "ratchet"),
                     !.priv = n]
  ELSE s

(* The state that send saves once it has its receipt.                      *)
AfterSend(s) ==
  [s EXCEPT !.send = NextChainKey(s.send), !.ratchet = TRUE]

(* The state from which an envelope advertising rpub is decrypted: a new   *)
(* key of the peer derives a new root and receive chain.                   *)
ReceiveState(s, rpub) ==
  IF rpub = s.remote
  THEN s
  ELSE LET root == RatchetRoot(s.root, s.priv, rpub)
       IN  [s EXCEPT !.root = root,
                     !.receive = ChainKey(root, "ratchet"),
                     !.remote = rpub,
                     !.ratchet = TRUE]

AfterReceive(s) == [s EXCEPT !.receive = NextChainKey(s.receive)]

-----------------------------------------------------------------------------
(* Sending.                                                                *)

(* The session _send_encrypted_locked chooses for the peer, 0 for none.    *)
Selected(d) ==
  LET own  == outgoing[d]
      last == active[d]
  IN  IF own # 0 /\ (last = 0 \/ own = last) THEN own
      ELSE IF last # 0 /\ Contains(incoming[d], last) THEN last
      ELSE IF last = 0 /\ incoming[d] # <<>> THEN Last(incoming[d])
      ELSE 0

(* The positions of second copies of a send, and of the first copies that  *)
(* wait in device d's queue.                                               *)
Repeated ==
  {i \in DOMAIN accepted :
     \E j \in DOMAIN accepted : j < i /\ accepted[j] = accepted[i]}
Waiting(d) == inbox[d] \ Repeated

(* Sends that wait in device d's queue or are about to reach it.           *)
Towards(d) ==
  {n \in posts \ abandoned : sent[n].to = d}
    \union {accepted[i] : i \in Waiting(d)}

(* The envelope is encrypted and its request leaves.  Nothing is saved, a  *)
(* new session included.                                                   *)
Encrypt(d) ==
  LET n   == Len(sent) + 1
      q   == Peer(d)
      sid == IF Selected(d) = 0 THEN n ELSE Selected(d)
      s   == SendState(IF sid = n THEN InitiatorState(n, q)
                                  ELSE session[d][sid], n)
  IN  /\ n <= MaxSends
      /\ call[d] = 0
      /\ call' = [call EXCEPT ![d] = n]
      /\ sent' = Append(sent, [from |-> d, to |-> q, sid |-> sid,
                               rpub |-> s.priv, key |-> MessageKey(s.send)])
      /\ posts' = posts \union {n}
      /\ draft' = [draft EXCEPT ![d] = AfterSend(s)]
      /\ crossed' = IF \E k \in Towards(d) : sent[k].sid = sid
                    THEN crossed \union {sid}
                    ELSE crossed
      /\ UNCHANGED <<forgotten, accepted, inbox, stateVars, abandoned, cut,
                     restarts>>

(* The relay puts send n at the end of its recipient's queue.              *)
Enqueue(n) ==
  /\ accepted' = Append(accepted, n)
  /\ inbox' = [inbox EXCEPT ![sent[n].to] = @ \union {Len(accepted) + 1}]
  /\ UNCHANGED <<sent, callVars, stateVars, historyVars>>

(* The relay queues the envelope; while it has the receipt in memory a     *)
(* second submission is answered with it (module Delivery).                *)
QueueMessage(n) ==
  /\ n \in posts
  /\ posts' = posts \ {n}
  /\ forgotten' = forgotten
  /\ Enqueue(n)

(* The second submission of an envelope whose receipt a restart forgot: a  *)
(* second copy is queued.                                                  *)
QueueAgain(n) ==
  /\ n \in forgotten
  /\ forgotten' = forgotten \ {n}
  /\ posts' = posts
  /\ Enqueue(n)

EndCall_StillCalling(d) ==
  /\ call' = call
  /\ draft' = [draft EXCEPT ![d] = NoState]

EndCall(d) ==
  /\ call' = [call EXCEPT ![d] = 0]
  /\ draft' = [draft EXCEPT ![d] = NoState]

SetSession(d, sid, s) ==
  session' = [session EXCEPT ![d] =
                [x \in DOMAIN @ \union {sid} |-> IF x = sid THEN s ELSE @[x]]]

NewOutgoing_Forgotten(d, sid, n) == outgoing[d]

(* sessions[peer] after send n on session sid: its own session if new.     *)
NewOutgoing(d, sid, n) == IF sid = n THEN n ELSE outgoing[d]

(* The receipt arrives, so that the envelope is not submitted again, and   *)
(* the new state is saved.                                                 *)
SaveSend(d) ==
  LET n   == call[d]
      sid == sent[n].sid
  IN  /\ n # 0
      /\ n \notin posts
      /\ SetSession(d, sid, draft[d])
      /\ outgoing' = [outgoing EXCEPT ![d] = NewOutgoing(d, sid, n)]
      /\ active' = [active EXCEPT ![d] = sid]
      /\ EndCall(d)
      /\ forgotten' = forgotten \ {n}
      /\ UNCHANGED <<sent, posts, accepted, inbox, incoming, historyVars>>

(* The call ends without a receipt: both attempts fail, or the process     *)
(* stops before it saves.  A request that was not handled yet stays in     *)
(* posts or forgotten: it may be handled later, or never.                  *)
AbandonSend(d) ==
  LET n == call[d]
  IN  /\ n # 0
      /\ Cardinality(abandoned) < MaxAbandoned
      /\ abandoned' = abandoned \union {n}
      /\ EndCall(d)
      /\ UNCHANGED <<sent, relayVars, stateVars, crossed, cut, restarts>>

-----------------------------------------------------------------------------
(* Receiving.                                                              *)

(* The state with which device d would decrypt envelope e: a session it    *)
(* has received on, the one it opened, or a new one, whose initiator must  *)
(* be the sender.                                                          *)
Holds(d, sid) == Contains(incoming[d], sid) \/ outgoing[d] = sid

ReceivingState(d, e) ==
  ReceiveState(IF Holds(d, e.sid)
               THEN session[d][e.sid]
               ELSE ResponderState(e.sid, d, e.rpub), e.rpub)

Initiator(sid) == sent[sid].from

Opens(d, e) ==
  /\ Holds(d, e.sid) \/ Initiator(e.sid) = e.from
  /\ MessageKey(ReceivingState(d, e).receive) = e.key

(* The head of device d's queue is at position i.                          *)
IsHead(d, i) == i \in inbox[d] /\ \A j \in inbox[d] : i <= j

(* receive() decrypts the head of the queue and saves; delivery once and   *)
(* in order is module Delivery's.  An envelope that does not open, as a    *)
(* second copy, raises, leaves everything as it is and stays at the head.  *)
Decrypt(d, i) ==
  LET e == sent[accepted[i]]
  IN  /\ call[d] = 0
      /\ IsHead(d, i)
      /\ Opens(d, e)
      /\ SetSession(d, e.sid, AfterReceive(ReceivingState(d, e)))
      /\ incoming' = [incoming EXCEPT ![d] =
                        IF Holds(d, e.sid) THEN @ ELSE Append(@, e.sid)]
      /\ active' = [active EXCEPT ![d] = e.sid]
      /\ inbox' = [inbox EXCEPT ![d] = @ \ {i}]
      /\ UNCHANGED <<sent, posts, forgotten, accepted, callVars, outgoing,
                     historyVars>>

(* Envelopes leave the queues undelivered.                                 *)
Drop ==
  cut' = cut \union
    {sent[accepted[i]].sid :
       i \in UNION {Waiting(d) \ inbox'[d] : d \in Device}}

(* The sends a restart makes the relay forget: queued once so far, by a    *)
(* device that still waits for the receipt.                                *)
Forgetting ==
  {n \in Range(call) : n \in Range(accepted)
                       /\ \A i \in Repeated : accepted[i] # n}

(* The relay restarts with empty queues and without the receipts it gave;  *)
(* of each queue, what the device polled before stays in its hands.        *)
Restart ==
  /\ restarts < MaxRestarts
  /\ restarts' = restarts + 1
  /\ \E polled \in [Device -> {0} \union inbox[Alice] \union inbox[Bob]] :
       inbox' = [d \in Device |-> inbox[d] \intersect 1..polled[d]]
  /\ Drop
  /\ forgotten' = forgotten \union Forgetting
  /\ UNCHANGED <<sent, posts, accepted, callVars, stateVars, abandoned,
                 crossed>>

(* A receive() that began before a restart ends early: what only it still  *)
(* had in its hands is gone.                                               *)
LoseBatch(d) ==
  /\ restarts > 0
  /\ \E last \in inbox[d] :
       inbox' = [inbox EXCEPT ![d] = @ \ (1..last)]
  /\ Drop
  /\ UNCHANGED <<sent, posts, forgotten, accepted, callVars, stateVars,
                 abandoned, crossed, restarts>>

-----------------------------------------------------------------------------
Next ==
  \/ \E d \in Device :
       \/ Encrypt(d) \/ SaveSend(d) \/ AbandonSend(d) \/ LoseBatch(d)
       \/ \E i \in inbox[d] : Decrypt(d, i)
  \/ \E n \in posts : QueueMessage(n)
  \/ \E n \in forgotten : QueueAgain(n)
  \/ Restart

Spec == Init /\ [][Next]_vars

-----------------------------------------------------------------------------
(* Properties.                                                             *)

KeyIds == Device \union Sends
Roots == Seq(SUBSET KeyIds)
Chains == [root : Roots, label : {"initiator", "responder", "ratchet"},
           index : Nat]
States == [root : Roots, send : Chains, receive : Chains, priv : KeyIds,
           remote : KeyIds, ratchet : BOOLEAN]
Envelopes == [from : Device, to : Device, sid : Sends, rpub : KeyIds,
              key : Chains]

(* Every variable has its type; a device has a state for exactly the       *)
(* sessions it holds.                                                      *)
TypeOK ==
  /\ sent \in Seq(Envelopes)
  /\ posts \subseteq Sends
  /\ forgotten \subseteq Sends
  /\ accepted \in Seq(Sends)
  /\ inbox \in [Device -> SUBSET DOMAIN accepted]
  /\ call \in [Device -> Sends \union {0}]
  /\ DOMAIN draft = Device
  /\ \A d \in Device : draft[d] \in
       IF call[d] = 0 THEN {NoState} ELSE States
  /\ outgoing \in [Device -> Sends \union {0}]
  /\ incoming \in [Device -> Seq(Sends)]
  /\ active \in [Device -> Sends \union {0}]
  /\ DOMAIN session = Device
  /\ \A d \in Device :
       session[d] \in [{x \in Sends : Holds(d, x)} -> States]
  /\ abandoned \subseteq Sends
  /\ crossed \subseteq Sends
  /\ cut \subseteq Sends
  /\ restarts \in 0..MaxRestarts

(* No message key encrypts two envelopes, whatever is retried, abandoned,  *)
(* crossed or dropped: a send that is repeated after its state was lost    *)
(* does so with a fresh ratchet key (client.py:541-549).                   *)
KeysUsedOnce ==
  \A m, n \in Sends : sent[m].key = sent[n].key => m = n

(* An active session is one the device holds, so that the next send never  *)
(* falls back to a new session behind the peer's back                      *)
(* (client.py:485-512, 577, 692-693).                                      *)
ActiveIsHeld == \A d \in Device : active[d] # 0 => Holds(d, active[d])

(* Sessions on which a send was abandoned although the relay queued it.    *)
Torn == {sent[n].sid : n \in abandoned \ posts}

(* The envelope at the head of the queue of a device that may receive      *)
(* opens if it is a first copy, and not if it is a second one, unless it   *)
(* belongs to one of the sessions S.                                       *)
HeadOpensUnless(S) ==
  \A d \in Device, i \in DOMAIN accepted :
    LET e == sent[accepted[i]]
    IN  call[d] = 0 /\ IsHead(d, i) /\ e.sid \notin S =>
          (Opens(d, e) <=> i \notin Repeated)

(* On a session that was never written in both directions at once, torn    *)
(* or cut by a restart, the envelope at the head of a queue opens exactly  *)
(* when it was not queued before: each message is decrypted once, and what *)
(* a history of sends, receives, failed sends and new sessions can wedge a *)
(* queue with is a second copy, submitted again over a restart             *)
(* (client.py:571, 637-677, 793-799, server.py:68).                        *)
HeadOpens == HeadOpensUnless(crossed \union Torn \union cut)

(* Both ends of session sid, with nothing of it on its way, have the same  *)
(* root and know each other's ratchet key.                                 *)
Quiet(sid) ==
  \A d \in Device :
    /\ Holds(d, sid)
    /\ \A n \in {call[d]} \union Towards(d) : n # 0 => sent[n].sid # sid

Matched(sid) ==
  LET a == session[Alice][sid]
      b == session[Bob][sid]
  IN  a.root = b.root /\ a.priv = b.remote /\ b.priv = a.remote

(* Two devices that take turns agree on the root and the ratchet keys of   *)
(* their session whenever nothing of it is on its way                      *)
(* (session.py:499-603, 617-627).                                          *)
TurnsKeepMatching ==
  \A sid \in Sends \ (crossed \union Torn \union cut) :
    Quiet(sid) => Matched(sid)

(* HeadOpens for every session whose sends all completed: "when a peer     *)
(* ephemeral changes, both sides derive matching ratchet root/chain keys"  *)
(* (docs/plans/protocol-security.md:24).  It takes no account of sends     *)
(* that cross.                                                             *)
PeersDeriveMatchingKeys == HeadOpensUnless(Torn \union cut)

-----------------------------------------------------------------------------
(* The inductive invariant behind these, by parts.                         *)

(* A device that has chosen a session goes on with the last one it used,   *)
(* and it creates one only when it holds none.                             *)
ActiveIsChosen ==
  \A d \in Device :
    active[d] = 0 => outgoing[d] = 0 /\ incoming[d] = <<>>

(* The send a device waits on is its latest, on a session it holds or on   *)
(* its first one.                                                          *)
CallsAreLatest ==
  \A d \in Device : call[d] # 0 =>
    LET e == sent[call[d]] IN
    /\ e.from = d
    /\ call[d] \notin abandoned
    /\ \A n \in Sends : sent[n].from = d => n <= call[d]
    /\ e.sid = call[d] => active[d] = 0
    /\ e.sid # call[d] => Holds(d, e.sid)

PostsAreCalls == \A n \in posts \ abandoned : call[sent[n].from] = n

(* The relay queues a send for its recipient, and again only what it has   *)
(* queued before.                                                          *)
QueuesAgree ==
  /\ \A i \in DOMAIN accepted : accepted[i] \notin posts
  /\ forgotten \subseteq Range(accepted)
  /\ \A i \in Repeated : \E j \in DOMAIN accepted \ Repeated :
       j < i /\ accepted[j] = accepted[i]
  /\ \A d \in Device : \A i \in inbox[d] : sent[accepted[i]].to = d

(* Every send but the first of its session is encrypted with a root that   *)
(* ends in its own ratchet key.                                            *)
KeyIsFresh(n) ==
  LET e    == sent[n]
      root == e.key.root
  IN  \/ e.sid = n /\ e.key = ChainKey(FirstRoot(n, e.to), "initiator")
      \/ /\ e.sid < n
         /\ sent[e.sid].sid = e.sid
         /\ e.key = ChainKey(root, "ratchet")
         /\ \E r \in Device \union 1..(n - 1) :
              root[Len(root)] = {n, r} /\ root # <<>>

KeysAreFresh ==
  \A n \in Sends :
    sent[n].to = Peer(sent[n].from) /\ sent[n].rpub = n /\ KeyIsFresh(n)

(* A saved state, or one that will be, performs the ratchet when it sends. *)
StatesRatchet ==
  \A d \in Device :
    /\ call[d] # 0 => draft[d].ratchet
    /\ \A sid \in Sends : Holds(d, sid) => session[d][sid].ratchet

SessionsHaveEnds ==
  \A d \in Device, sid \in Sends :
    /\ outgoing[d] = sid => sent[sid].sid = sid /\ sent[sid].from = d
    /\ Contains(incoming[d], sid) =>
         sent[sid].sid = sid /\ sent[sid].from = Peer(d)

(* A session as the device will have it once its call has completed.       *)
Calls(d, sid) == call[d] # 0 /\ sent[call[d]].sid = sid
Working(d, sid) == Holds(d, sid) \/ call[d] = sid
State(d, sid) == IF Calls(d, sid) THEN draft[d] ELSE session[d][sid]
RatchetKey(d, sid) == IF Working(d, sid) THEN State(d, sid).priv ELSE d

(* The sends of session sid on their way to device d.                      *)
Coming(d, sid) == {n \in Towards(d) : sent[n].sid = sid}

IsFirst(n, S) == n \in S /\ \A m \in S : n <= m
IsLast(n, S) == n \in S /\ \A m \in S : m <= n
Follows(n, m, S) == n \in S /\ m \in S /\ m < n /\ ~\E k \in S : m < k /\ k < n

Clean == {sid \in Sends : sent[sid].sid = sid} \ (crossed \union Torn \union cut)

OneDirection ==
  \A sid \in Clean, d \in Device :
    Coming(d, sid) = {} \/ Coming(Peer(d), sid) = {}

WaitInOrder ==
  \A sid \in Clean, d \in Device : \A i, j \in Waiting(d) :
    i < j /\ sent[accepted[i]].sid = sid /\ sent[accepted[j]].sid = sid
      => accepted[i] < accepted[j]

(* The responder's end of a session comes to be with its first envelope.   *)
EndsMeet ==
  \A sid \in Clean, d \in Device :
    LET p == Peer(d) IN
    /\ Coming(d, sid) # {} => Working(p, sid)
    /\ Working(d, sid) /\ Working(p, sid) => sid \notin Towards(d)
    /\ sent[sid].from = d /\ Working(d, sid) /\ ~Working(p, sid) =>
         sid \in Towards(p)
    /\ sent[sid].from = d /\ Working(p, sid) => Working(d, sid)

(* State s of a sender, with the sends S on their way to the other end p,  *)
(* is where p's end will be once it has received them.                     *)
LeadsBy(s, p, sid, S) ==
  /\ S = {} => s.root = State(p, sid).root /\ s.priv = State(p, sid).remote
  /\ \A n \in S : IsLast(n, S) => s.root = sent[n].key.root /\ s.priv = n
  /\ s.remote = RatchetKey(p, sid)

SenderLeads ==
  \A sid \in Clean, d \in Device :
    LET p == Peer(d) IN
    Working(d, sid) /\ Coming(d, sid) = {} =>
      /\ LeadsBy(State(d, sid), p, sid, Coming(p, sid))
      /\ Calls(d, sid) /\ call[d] \in posts /\ Holds(d, sid) =>
           LeadsBy(session[d][sid], p, sid, Coming(p, sid) \ {call[d]})

(* Each send on its way to device d is encrypted one ratchet step after    *)
(* the one before it, the first one after d's state.                       *)
OneStep(root, n, d, sid) ==
  sent[n].key = ChainKey(RatchetRoot(root, n, RatchetKey(d, sid)), "ratchet")

ReceiverFollows ==
  \A sid \in Clean, d \in Device :
    LET S == Coming(d, sid) IN
    \A n \in S :
      /\ \A m \in S : Follows(n, m, S) => OneStep(sent[m].key.root, n, d, sid)
      /\ IsFirst(n, S) =>
           IF Working(d, sid) THEN OneStep(State(d, sid).root, n, d, sid)
                              ELSE n = sid
      /\ Working(d, sid) => State(d, sid).remote # n

(* State s is past envelope e: neither its receive chain nor a new one of  *)
(* it has the key of e.                                                    *)
Spent(s, e) ==
  /\ Len(e.key.root) <= Len(s.root)
  /\ s.remote = e.rpub => s.receive.index > 0

(* A device is past every envelope it has received.                        *)
IsPast(e) ==
  LET d == e.to IN
  /\ Holds(d, e.sid)
  /\ Spent(session[d][e.sid], e)
  /\ Calls(d, e.sid) => Spent(draft[d], e)

ReceivedAreSpent ==
  \A i \in DOMAIN accepted \ Repeated :
    LET e == sent[accepted[i]]
    IN  e.sid \in Clean /\ i \notin inbox[e.to] => IsPast(e)

(* Sessions that did not cross and lost nothing stay in step               *)
(* (client.py:447-592, 594-700, session.py:499-627).                       *)
RatchetInv ==
  /\ TypeOK
  /\ ActiveIsHeld
  /\ ActiveIsChosen
  /\ CallsAreLatest
  /\ PostsAreCalls
  /\ QueuesAgree
  /\ KeysAreFresh
  /\ StatesRatchet
  /\ SessionsHaveEnds
  /\ OneDirection
  /\ WaitInOrder
  /\ ReceivedAreSpent
  /\ EndsMeet
  /\ SenderLeads
  /\ ReceiverFollows
=============================================================================
