--------------------------- MODULE Ratchet_proofs ---------------------------
(***************************************************************************)
(* RatchetInv is an invariant of Ratchet, for any two devices and bounds.  *)
(***************************************************************************)
EXTENDS Ratchet, TLAPS

-----------------------------------------------------------------------------
(* Sequences, functions and devices.                                       *)

(* An element is added at the end.                                         *)
LEMMA AddLast ==
  ASSUME NEW S, NEW s \in Seq(S), NEW x \in S
  PROVE  /\ Append(s, x) \in Seq(S)
         /\ Len(s) \in Nat
         /\ DOMAIN s = 1..Len(s)
         /\ Len(Append(s, x)) = Len(s) + 1
         /\ DOMAIN Append(s, x) = 1..(Len(s) + 1)
         /\ Append(s, x) # <<>>
         /\ \A i \in 1..Len(s) : Append(s, x)[i] = s[i]
         /\ Append(s, x)[Len(s) + 1] = x
OBVIOUS

(* What a sequence with one more element contains.                         *)
LEMMA ContainsMore ==
  ASSUME NEW S, NEW s \in Seq(S), NEW x \in S
  PROVE  \A y : Contains(Append(s, x), y) <=> Contains(s, y) \/ y = x
<1>1. /\ Len(s) \in Nat
      /\ Len(Append(s, x)) = Len(s) + 1
      /\ \A i \in 1..Len(s) : Append(s, x)[i] = s[i]
      /\ Append(s, x)[Len(s) + 1] = x
  BY AddLast
<1>2. \A i \in 1..(Len(s) + 1) : i \in 1..Len(s) \/ i = Len(s) + 1
  BY <1>1
<1>3. 1..Len(s) \subseteq 1..(Len(s) + 1) /\ Len(s) + 1 \in 1..(Len(s) + 1)
  BY <1>1
<1>4. QED
  BY <1>1, <1>2, <1>3 DEF Contains

(* A sequence contains members of its set, and an empty one none.          *)
LEMMA ContainsFacts ==
  ASSUME NEW S, NEW s \in Seq(S)
  PROVE  /\ \A y : Contains(s, y) => y \in S
         /\ s = <<>> <=> \A y : ~Contains(s, y)
         /\ s # <<>> => Contains(s, Last(s)) /\ Last(s) \in S
<1>1. /\ Len(s) \in Nat /\ s = <<>> <=> Len(s) = 0
      /\ \A i \in 1..Len(s) : s[i] \in S
  OBVIOUS
<1>2. s # <<>> => Len(s) \in 1..Len(s)
  BY <1>1
<1>3. QED
  BY <1>1, <1>2 DEF Contains, Last

(* A sequence over a set is one over a larger set.                         *)
LEMMA WiderSeq ==
  ASSUME NEW S, NEW T, S \subseteq T
  PROVE  Seq(S) \subseteq Seq(T)
OBVIOUS

(* One value of a function is replaced.                                    *)
LEMMA Updated ==
  ASSUME NEW A, NEW B, NEW f \in [A -> B], NEW a \in A, NEW b \in B
  PROVE  [f EXCEPT ![a] = b] \in [A -> B]
OBVIOUS

(* There are two devices.                                                  *)
LEMMA Peers ==
  /\ \A d \in Device : /\ Peer(d) \in Device /\ Peer(d) # d
                       /\ Peer(Peer(d)) = d
                       /\ \A e \in Device : e = d \/ e = Peer(d)
  /\ Alice \in Device /\ Bob \in Device /\ Device \intersect Nat = {}
BY RatchetAssumption DEF RatchetAssumption, Device, Peer

-----------------------------------------------------------------------------
(* Session states over the keys K.                                         *)

RootsOver(K) == Seq(SUBSET K)
ChainsOver(K) == [root : RootsOver(K),
                  label : {"initiator", "responder", "ratchet"}, index : Nat]
StatesOver(K) == [root : RootsOver(K), send : ChainsOver(K),
                  receive : ChainsOver(K), priv : K, remote : K,
                  ratchet : BOOLEAN]

LEMMA StatesAre ==
  /\ Roots = RootsOver(KeyIds) /\ Chains = ChainsOver(KeyIds)
  /\ States = StatesOver(KeyIds)
BY DEF Roots, Chains, States, RootsOver, ChainsOver, StatesOver

LEMMA StatesGrow ==
  ASSUME NEW J, NEW K, J \subseteq K
  PROVE  /\ RootsOver(J) \subseteq RootsOver(K)
         /\ ChainsOver(J) \subseteq ChainsOver(K)
         /\ StatesOver(J) \subseteq StatesOver(K)
<1>1. RootsOver(J) \subseteq RootsOver(K)
  <2>1. SUBSET J \subseteq SUBSET K
    OBVIOUS
  <2>2. QED
    BY <2>1, WiderSeq DEF RootsOver
<1>2. ChainsOver(J) \subseteq ChainsOver(K)
  BY <1>1 DEF ChainsOver
<1>3. StatesOver(J) \subseteq StatesOver(K)
  BY <1>1, <1>2 DEF StatesOver
<1>4. QED
  BY <1>1, <1>2, <1>3

(* A root after one more ratchet step.                                     *)
LEMMA RootGrows ==
  ASSUME NEW K, NEW root \in RootsOver(K), NEW a \in K, NEW b \in K
  PROVE  /\ RatchetRoot(root, a, b) \in RootsOver(K)
         /\ RatchetRoot(root, a, b) # <<>>
         /\ RatchetRoot(root, a, b)[Len(RatchetRoot(root, a, b))] = {a, b}
         /\ Len(root) \in Nat /\ Len(RatchetRoot(root, a, b)) = Len(root) + 1
         /\ RatchetRoot(root, a, b) = RatchetRoot(root, b, a)
<1>. DEFINE x == {a, b}
<1>1. x \in SUBSET K /\ {a, b} = {b, a}
  OBVIOUS
<1>. HIDE DEF x
<1>2. /\ Append(root, x) \in Seq(SUBSET K) /\ Append(root, x) # <<>>
      /\ Append(root, x)[Len(Append(root, x))] = x
      /\ Len(root) \in Nat /\ Len(Append(root, x)) = Len(root) + 1
  BY <1>1, AddLast DEF RootsOver
<1>3. QED
  BY <1>1, <1>2 DEF RatchetRoot, RootsOver, x

LEMMA ChainKeyType ==
  ASSUME NEW K, NEW root \in RootsOver(K),
         NEW label \in {"initiator", "responder", "ratchet"}
  PROVE  /\ ChainKey(root, label) \in ChainsOver(K)
         /\ NextChainKey(ChainKey(root, label)) \in ChainsOver(K)
         /\ ChainKey(root, label).root = root
BY DEF ChainKey, ChainsOver, NextChainKey

LEMMA NextChainKeyType ==
  ASSUME NEW K, NEW c \in ChainsOver(K)
  PROVE  NextChainKey(c) \in ChainsOver(K)
BY DEF ChainsOver, NextChainKey

(* The state a send leaves behind.                                         *)
LEMMA SendFields ==
  ASSUME NEW K, NEW s \in StatesOver(K), NEW n \in K, s.ratchet
  PROVE  LET root == RatchetRoot(s.root, n, s.remote)
             t == SendState(s, n)
         IN  /\ t \in StatesOver(K)
             /\ t.priv = n
             /\ t.send = ChainKey(root, "ratchet")
             /\ root \in RootsOver(K)
             /\ AfterSend(t) \in StatesOver(K)
             /\ AfterSend(t).root = root
             /\ AfterSend(t).priv = n
             /\ AfterSend(t).remote = s.remote
             /\ AfterSend(t).receive = s.receive
             /\ AfterSend(t).ratchet
<1>. DEFINE root == RatchetRoot(s.root, n, s.remote)
            c == ChainKey(root, "ratchet")
            t == SendState(s, n)
<1>1. /\ s.root \in RootsOver(K) /\ s.remote \in K /\ s.receive \in ChainsOver(K)
      /\ s = [root |-> s.root, send |-> s.send, receive |-> s.receive,
              priv |-> s.priv, remote |-> s.remote, ratchet |-> s.ratchet]
  BY DEF StatesOver
<1>2. /\ root \in RootsOver(K)
      /\ c \in ChainsOver(K) /\ NextChainKey(c) \in ChainsOver(K)
  BY <1>1, RootGrows, ChainKeyType
<1>3. t = [s EXCEPT !.root = root, !.send = c, !.priv = n]
  BY DEF SendState
<1>. HIDE DEF root, c, t
<1>4. t = [root |-> root, send |-> c, receive |-> s.receive, priv |-> n,
           remote |-> s.remote, ratchet |-> s.ratchet]
  BY <1>1, <1>3
<1>5. AfterSend(t) = [root |-> root, send |-> NextChainKey(c),
                      receive |-> s.receive, priv |-> n,
                      remote |-> s.remote, ratchet |-> TRUE]
  <2>1. AfterSend(t) = [t EXCEPT !.send = NextChainKey(c), !.ratchet = TRUE]
    BY <1>4 DEF AfterSend
  <2>2. QED
    BY <1>4, <2>1
<1>6. t \in StatesOver(K) /\ AfterSend(t) \in StatesOver(K)
  <2>1. t \in StatesOver(K)
    BY <1>1, <1>2, <1>4 DEF StatesOver
  <2>2. AfterSend(t) \in StatesOver(K)
    BY <1>1, <1>2, <1>5 DEF StatesOver
  <2>3. QED
    BY <2>1, <2>2
<1>7. QED
  BY <1>2, <1>4, <1>5, <1>6 DEF root, c, t

(* The same for the first send of a session.                               *)
LEMMA FirstSendFields ==
  ASSUME NEW K, NEW n \in K, NEW q \in K
  PROVE  LET root == FirstRoot(n, q)
             t == SendState(InitiatorState(n, q), n)
         IN  /\ t.priv = n
             /\ t.send = ChainKey(root, "initiator")
             /\ root \in RootsOver(K)
             /\ t \in StatesOver(K)
             /\ AfterSend(t) \in StatesOver(K)
             /\ AfterSend(t).root = root
             /\ AfterSend(t).priv = n
             /\ AfterSend(t).remote = q
             /\ AfterSend(t).ratchet
<1>. DEFINE root == FirstRoot(n, q)
            t == SendState(InitiatorState(n, q), n)
<1>1. root \in RootsOver(K)
  BY DEF RootsOver, FirstRoot
<1>. HIDE DEF root
<1>2. /\ ChainKey(root, "initiator") \in ChainsOver(K)
      /\ NextChainKey(ChainKey(root, "initiator")) \in ChainsOver(K)
      /\ ChainKey(root, "responder") \in ChainsOver(K)
  BY <1>1, ChainKeyType
<1>3. t = [root |-> root, send |-> ChainKey(root, "initiator"),
           receive |-> ChainKey(root, "responder"), priv |-> n,
           remote |-> q, ratchet |-> FALSE]
  BY DEF SendState, InitiatorState, root
<1>. HIDE DEF t
<1>4. AfterSend(t) = [root |-> root,
                      send |-> NextChainKey(ChainKey(root, "initiator")),
                      receive |-> ChainKey(root, "responder"), priv |-> n,
                      remote |-> q, ratchet |-> TRUE]
  <2>1. AfterSend(t) =
          [t EXCEPT !.send = NextChainKey(ChainKey(root, "initiator")),
                    !.ratchet = TRUE]
    BY <1>3 DEF AfterSend
  <2>2. QED
    BY <1>3, <2>1
<1>5. t \in StatesOver(K)
  BY <1>1, <1>2, <1>3 DEF StatesOver
<1>6. AfterSend(t) \in StatesOver(K)
  BY <1>1, <1>2, <1>4 DEF StatesOver
<1>7. t.priv = n /\ t.send = ChainKey(root, "initiator")
  BY <1>3
<1>8. /\ AfterSend(t).root = root /\ AfterSend(t).priv = n
      /\ AfterSend(t).remote = q /\ AfterSend(t).ratchet
  BY <1>4
<1>9. QED
  BY <1>1, <1>5, <1>6, <1>7, <1>8 DEF root, t

(* The state a receive leaves behind.                                      *)
LEMMA ReceiveFields ==
  ASSUME NEW K, NEW s \in StatesOver(K), NEW n \in K, s.ratchet, n # s.remote
  PROVE  LET root == RatchetRoot(s.root, s.priv, n)
             t == ReceiveState(s, n)
         IN  /\ t.receive = ChainKey(root, "ratchet")
             /\ AfterReceive(t).receive.index = 1
             /\ AfterReceive(t) \in StatesOver(K)
             /\ AfterReceive(t).root = root
             /\ AfterReceive(t).priv = s.priv
             /\ AfterReceive(t).remote = n
             /\ AfterReceive(t).ratchet
<1>. DEFINE root == RatchetRoot(s.root, s.priv, n)
            c == ChainKey(root, "ratchet")
            t == ReceiveState(s, n)
<1>1. /\ s.root \in RootsOver(K) /\ s.priv \in K /\ s.send \in ChainsOver(K)
      /\ s = [root |-> s.root, send |-> s.send, receive |-> s.receive,
              priv |-> s.priv, remote |-> s.remote, ratchet |-> s.ratchet]
  BY DEF StatesOver
<1>2. /\ root \in RootsOver(K)
      /\ c \in ChainsOver(K) /\ NextChainKey(c) \in ChainsOver(K)
  BY <1>1, RootGrows, ChainKeyType
<1>3. t = [s EXCEPT !.root = root, !.receive = c, !.remote = n, !.ratchet = TRUE]
  BY DEF ReceiveState
<1>. HIDE DEF root, c, t
<1>4. t = [root |-> root, send |-> s.send, receive |-> c, priv |-> s.priv,
           remote |-> n, ratchet |-> TRUE]
  BY <1>1, <1>3
<1>5. AfterReceive(t) = [root |-> root, send |-> s.send,
                         receive |-> NextChainKey(c), priv |-> s.priv,
                         remote |-> n, ratchet |-> TRUE]
  <2>1. AfterReceive(t) = [t EXCEPT !.receive = NextChainKey(c)]
    BY <1>4 DEF AfterReceive
  <2>2. QED
    BY <1>4, <2>1
<1>6. AfterReceive(t) \in StatesOver(K)
  BY <1>1, <1>2, <1>5 DEF StatesOver
<1>7. t.receive = c
  BY <1>4
<1>8. /\ AfterReceive(t).root = root /\ AfterReceive(t).priv = s.priv
      /\ AfterReceive(t).remote = n /\ AfterReceive(t).ratchet
      /\ AfterReceive(t).receive.index = 1
  <2>1. NextChainKey(c).index = 1
    BY DEF c, NextChainKey, ChainKey
  <2>2. QED
    BY <1>5, <2>1
<1>9. QED
  BY <1>6, <1>7, <1>8 DEF root, c, t

(* The same with the present keys.                                         *)
LEMMA ReceiveFieldsHere ==
  ASSUME NEW s, NEW n, s \in StatesOver(KeyIds), n \in KeyIds, s.ratchet,
         n # s.remote
  PROVE  /\ ReceiveState(s, n).receive
              = ChainKey(RatchetRoot(s.root, s.priv, n), "ratchet")
         /\ AfterReceive(ReceiveState(s, n)).receive.index = 1
         /\ AfterReceive(ReceiveState(s, n)).root
              = RatchetRoot(s.root, s.priv, n)
         /\ AfterReceive(ReceiveState(s, n)).priv = s.priv
         /\ AfterReceive(ReceiveState(s, n)).remote = n
BY ReceiveFields

(* The same for the first envelope of a session.                           *)
LEMMA FirstReceiveFields ==
  ASSUME NEW K, NEW n \in K, NEW q \in K
  PROVE  LET root == FirstRoot(n, q)
             t == ReceiveState(ResponderState(n, q, n), n)
         IN  /\ t.receive = ChainKey(root, "initiator")
             /\ AfterReceive(t).receive.index = 1
             /\ AfterReceive(t) \in StatesOver(K)
             /\ AfterReceive(t).root = root
             /\ AfterReceive(t).priv = q
             /\ AfterReceive(t).remote = n
             /\ AfterReceive(t).ratchet
<1>. DEFINE root == FirstRoot(n, q)
            c == ChainKey(root, "initiator")
            t == ReceiveState(ResponderState(n, q, n), n)
<1>1. root \in RootsOver(K)
  BY DEF RootsOver, FirstRoot
<1>. HIDE DEF root
<1>2. /\ c \in ChainsOver(K) /\ NextChainKey(c) \in ChainsOver(K)
      /\ ChainKey(root, "responder") \in ChainsOver(K)
  BY <1>1, ChainKeyType
<1>3. t = [root |-> root, send |-> ChainKey(root, "responder"), receive |-> c,
           priv |-> q, remote |-> n, ratchet |-> TRUE]
  BY DEF ReceiveState, ResponderState, root
<1>. HIDE DEF t, c
<1>4. AfterReceive(t) = [root |-> root, send |-> ChainKey(root, "responder"),
                         receive |-> NextChainKey(c), priv |-> q,
                         remote |-> n, ratchet |-> TRUE]
  <2>1. AfterReceive(t) = [t EXCEPT !.receive = NextChainKey(c)]
    BY <1>3 DEF AfterReceive
  <2>2. QED
    BY <1>3, <2>1
<1>5. AfterReceive(t) \in StatesOver(K)
  BY <1>1, <1>2, <1>4 DEF StatesOver
<1>6. t.receive = c
  BY <1>3
<1>7. /\ AfterReceive(t).root = root /\ AfterReceive(t).priv = q
      /\ AfterReceive(t).remote = n /\ AfterReceive(t).ratchet
      /\ AfterReceive(t).receive.index = 1
  <2>1. NextChainKey(c).index = 1
    BY DEF c, NextChainKey, ChainKey
  <2>2. QED
    BY <1>4, <2>1
<1>8. QED
  BY <1>5, <1>6, <1>7 DEF root, c, t

(* However an envelope is received, the state keeps its type and will      *)
(* perform the ratchet.                                                    *)
LEMMA AnyReceiveFields ==
  ASSUME NEW K, NEW s \in StatesOver(K), NEW n \in K, s.ratchet
  PROVE  /\ AfterReceive(ReceiveState(s, n)) \in StatesOver(K)
         /\ AfterReceive(ReceiveState(s, n)).ratchet
<1>1. CASE n # s.remote
  BY <1>1, ReceiveFields
<1>2. CASE n = s.remote
  <2>1. ReceiveState(s, n) = s
    BY <1>2 DEF ReceiveState
  <2>2. /\ s.receive \in ChainsOver(K)
        /\ s = [root |-> s.root, send |-> s.send, receive |-> s.receive,
                priv |-> s.priv, remote |-> s.remote, ratchet |-> s.ratchet]
    BY DEF StatesOver
  <2>3. NextChainKey(s.receive) \in ChainsOver(K)
    BY <2>2, NextChainKeyType
  <2>4. AfterReceive(s) = [s EXCEPT !.receive = NextChainKey(s.receive)]
    BY DEF AfterReceive
  <2>5. AfterReceive(s) \in StatesOver(K)
    BY <2>3, <2>4 DEF StatesOver
  <2>6. AfterReceive(s).ratchet
    BY <2>2, <2>4
  <2>7. QED
    BY <2>1, <2>5, <2>6
<1>3. QED
  BY <1>1, <1>2

LEMMA ResponderType ==
  ASSUME NEW K, NEW n \in K, NEW q \in K, NEW r \in K
  PROVE  ResponderState(n, q, r) \in StatesOver(K) /\ ResponderState(n, q, r).ratchet
<1>. DEFINE root == FirstRoot(n, q)
<1>1. root \in RootsOver(K)
  BY DEF RootsOver, FirstRoot
<1>. HIDE DEF root
<1>2. /\ ChainKey(root, "responder") \in ChainsOver(K)
      /\ ChainKey(root, "initiator") \in ChainsOver(K)
  BY <1>1, ChainKeyType
<1>3. ResponderState(n, q, r) =
        [root |-> root, send |-> ChainKey(root, "responder"),
         receive |-> ChainKey(root, "initiator"), priv |-> q, remote |-> r,
         ratchet |-> TRUE]
  BY DEF ResponderState, root
<1>4. ResponderState(n, q, r) \in StatesOver(K)
  BY <1>1, <1>2, <1>3 DEF StatesOver
<1>5. QED
  BY <1>3, <1>4

-----------------------------------------------------------------------------
(* Steps, one device or send at a time.                                    *)

(* A send goes out on the active session, or on a new one if there is none.*)
LEMMA SelectedIsActive ==
  ASSUME TypeOK, ActiveIsHeld, ActiveIsChosen, NEW d \in Device
  PROVE  Selected(d) = active[d]
<1>1. CASE active[d] = 0
  BY <1>1 DEF Selected, ActiveIsChosen
<1>2. CASE active[d] # 0
  BY <1>2 DEF Selected, ActiveIsHeld, Holds
<1>3. QED
  BY <1>1, <1>2

(* What is sent stays.                                                     *)
LEMMA SentStays ==
  ASSUME TypeOK, [Next]_vars
  PROVE  /\ Sends \subseteq Sends' /\ KeyIds \subseteq KeyIds'
         /\ \A n \in Sends : sent'[n] = sent[n]
         /\ (\A d \in Device : ~Encrypt(d)) => sent' = sent /\ Sends' = Sends
<1>1. ASSUME NEW d \in Device, Encrypt(d)
      PROVE  Sends \subseteq Sends' /\ \A n \in Sends : sent'[n] = sent[n]
  <2>1. PICK e : sent' = Append(sent, e)
    BY <1>1 DEF Encrypt
  <2>2. sent \in Seq(Envelopes)
    BY DEF TypeOK
  <2>3. QED
    BY <2>1, <2>2 DEF Sends
<1>2. ASSUME \A d \in Device : ~Encrypt(d) PROVE sent' = sent
  BY <1>2 DEF Next, vars, SaveSend, AbandonSend, LoseBatch, Decrypt,
     QueueMessage, QueueAgain, Enqueue, Restart
<1>3. QED
  BY <1>1, <1>2 DEF Sends, KeyIds

(* The send with which device d answers on session state s, or its first.  *)
KeyOf(d, n) ==
  IF active[d] = 0
  THEN ChainKey(FirstRoot(n, Peer(d)), "initiator")
  ELSE LET s == session[d][active[d]]
       IN  ChainKey(RatchetRoot(s.root, n, s.remote), "ratchet")

LEMMA EncryptFacts ==
  ASSUME TypeOK, ActiveIsHeld, ActiveIsChosen, StatesRatchet,
         NEW d \in Device, Encrypt(d)
  PROVE  LET n == Len(sent) + 1
             p == Peer(d)
             s == session[d][active[d]]
         IN  /\ n \in Sends' /\ n \notin Sends /\ n # 0 /\ n \in Nat
             /\ n \notin Device
             /\ Sends' = Sends \union {n}
             /\ \A m \in Sends : sent'[m] = sent[m] /\ m < n /\ m \in Nat
             /\ sent'[n].from = d
             /\ sent'[n].to = p
             /\ sent'[n].sid = IF active[d] = 0 THEN n ELSE active[d]
             /\ sent'[n].rpub = n
             /\ sent'[n].key = KeyOf(d, n)
             /\ sent' \in Seq(Envelopes')
             /\ posts' = posts \union {n}
             /\ call[d] = 0 /\ call'[d] = n /\ call'[p] = call[p]
             /\ DOMAIN draft' = Device
             /\ draft'[d] \in StatesOver(KeyIds')
             /\ draft'[d].priv = n
             /\ draft'[d].remote = IF active[d] = 0 THEN p ELSE s.remote
             /\ draft'[d].root = sent'[n].key.root
             /\ draft'[d].ratchet
             /\ active[d] # 0 => draft'[d].receive = s.receive
             /\ draft'[p] = draft[p]
             /\ active[d] # 0 =>
                  Holds(d, active[d]) /\ s \in StatesOver(KeyIds) /\ s.ratchet
<1>. DEFINE n == Len(sent) + 1
            p == Peer(d)
            sid == IF active[d] = 0 THEN n ELSE active[d]
            s == session[d][active[d]]
            t == SendState(IF sid = n THEN InitiatorState(n, p)
                                      ELSE session[d][sid], n)
            e == [from |-> d, to |-> p, sid |-> sid, rpub |-> t.priv,
                  key |-> MessageKey(t.send)]
<1>1. /\ sent \in Seq(Envelopes) /\ Len(sent) \in Nat /\ Sends = 1..Len(sent)
      /\ d \in Device /\ p \in Device /\ p # d
      /\ active[d] \in Sends \union {0}
  BY Peers DEF TypeOK, Sends
<1>2. sent' = Append(sent, e) /\ draft' = [draft EXCEPT ![d] = AfterSend(t)]
  <2>1. (IF Selected(d) = 0 THEN n ELSE Selected(d)) = sid
    BY SelectedIsActive
  <2>2. QED
    BY <2>1 DEF Encrypt
<1>3. /\ posts' = posts \union {n} /\ call[d] = 0
      /\ call' = [call EXCEPT ![d] = n]
  BY DEF Encrypt
<1>4. n \in Nat /\ n \notin Sends /\ n # 0 /\ n \notin Device
      /\ \A m \in Sends : m < n /\ m \in Nat
  BY <1>1, Peers
<1>. HIDE DEF e
<1>5. Sends' = Sends \union {n} /\ sent'[n] = e
      /\ \A m \in Sends : sent'[m] = sent[m]
  <2>1. /\ DOMAIN sent' = 1..(Len(sent) + 1) /\ sent'[Len(sent) + 1] = e
        /\ \A m \in 1..Len(sent) : sent'[m] = sent[m]
    BY <1>1, <1>2
  <2>2. QED
    BY <1>1, <2>1 DEF Sends
<1>. HIDE DEF n
<1>6. /\ n \in KeyIds' /\ p \in KeyIds' /\ KeyIds \subseteq KeyIds'
      /\ sid \in Sends'
  BY <1>1, <1>5 DEF KeyIds
<1>7. active[d] # 0 =>
        Holds(d, active[d]) /\ s \in StatesOver(KeyIds) /\ s.ratchet
  BY <1>1, StatesAre DEF ActiveIsHeld, TypeOK, StatesRatchet
<1>. HIDE DEF s
<1>8. /\ t.priv = n
      /\ t.send = KeyOf(d, n)
      /\ t.send \in ChainsOver(KeyIds')
      /\ AfterSend(t) \in StatesOver(KeyIds')
      /\ AfterSend(t).root = t.send.root
      /\ AfterSend(t).priv = n
      /\ AfterSend(t).remote = IF active[d] = 0 THEN p ELSE s.remote
      /\ AfterSend(t).ratchet
      /\ active[d] # 0 => AfterSend(t).receive = s.receive
  <2>1. CASE active[d] = 0
    <3>. DEFINE root == FirstRoot(n, p)
    <3>1. /\ t = SendState(InitiatorState(n, p), n)
          /\ KeyOf(d, n) = ChainKey(root, "initiator")
      BY <2>1 DEF KeyOf
    <3>2. LET u == SendState(InitiatorState(n, p), n)
          IN  /\ u.priv = n
              /\ u.send = ChainKey(root, "initiator")
              /\ root \in RootsOver(KeyIds')
              /\ AfterSend(u) \in StatesOver(KeyIds')
              /\ AfterSend(u).root = root
              /\ AfterSend(u).priv = n
              /\ AfterSend(u).remote = p
              /\ AfterSend(u).ratchet
      <4>1. n \in KeyIds' /\ p \in KeyIds'
        BY <1>6
      <4>2. QED
        BY ONLY <4>1, FirstSendFields
    <3>. HIDE DEF t, root
    <3>3. /\ t.send \in ChainsOver(KeyIds')
          /\ t.send.root = root
      BY <3>1, <3>2, ChainKeyType
    <3>4. QED
      BY <2>1, <3>1, <3>2, <3>3
  <2>2. CASE active[d] # 0
    <3>. DEFINE root == RatchetRoot(s.root, n, s.remote)
    <3>1. /\ t = SendState(s, n) /\ KeyOf(d, n) = ChainKey(root, "ratchet")
          /\ s \in StatesOver(KeyIds') /\ s.ratchet
      <4>1. sid # n /\ sid = active[d]
        BY <1>1, <1>4, <2>2
      <4>2. s \in StatesOver(KeyIds')
        BY <1>6, <1>7, <2>2, StatesGrow
      <4>3. QED
        BY <1>7, <2>2, <4>1, <4>2 DEF KeyOf, s
    <3>. HIDE DEF t
    <3>2. /\ t.priv = n
          /\ t.send = ChainKey(root, "ratchet")
          /\ root \in RootsOver(KeyIds')
          /\ AfterSend(t) \in StatesOver(KeyIds')
          /\ AfterSend(t).root = root
          /\ AfterSend(t).priv = n
          /\ AfterSend(t).remote = s.remote
          /\ AfterSend(t).receive = s.receive
          /\ AfterSend(t).ratchet
      BY <1>6, <3>1, SendFields
    <3>. HIDE DEF root
    <3>3. /\ t.send \in ChainsOver(KeyIds')
          /\ t.send.root = root
      BY <3>2, ChainKeyType
    <3>4. QED
      BY <2>2, <3>1, <3>2, <3>3
  <2>3. QED
    BY <2>1, <2>2
<1>. HIDE DEF t, sid
<1>9. e = [from |-> d, to |-> p, sid |-> sid, rpub |-> n, key |-> KeyOf(d, n)]
  BY <1>8 DEF e, MessageKey
<1>10. sent' \in Seq(Envelopes')
  <2>1. e \in Envelopes'
    <3>1. KeyOf(d, n) \in Chains'
      BY <1>8, StatesAre DEF Chains, ChainsOver, RootsOver, Roots
    <3>2. QED
      BY <1>1, <1>6, <1>9, <3>1 DEF Envelopes
  <2>2. Envelopes \subseteq Envelopes'
    <3>1. Chains \subseteq Chains'
      <4>1. Chains = ChainsOver(KeyIds) /\ Chains' = ChainsOver(KeyIds')
        BY DEF Chains, ChainsOver, RootsOver, Roots
      <4>2. QED
        BY <1>6, <4>1, StatesGrow
    <3>2. QED
      BY <1>5, <1>6, <3>1 DEF Envelopes
  <2>3. QED
    BY <1>1, <1>2, <2>1, <2>2
<1>11. /\ draft'[d] = AfterSend(t) /\ draft'[p] = draft[p]
       /\ DOMAIN draft' = Device
       /\ call'[d] = n /\ call'[p] = call[p]
  BY <1>1, <1>2, <1>3 DEF TypeOK
<1>12. e.from = d /\ e.to = p /\ e.sid = sid /\ e.rpub = n /\ e.key = KeyOf(d, n)
  BY <1>9
<1>13. QED
  BY <1>3, <1>4, <1>5, <1>7, <1>8, <1>10, <1>11, <1>12 DEF n, sid, s

(* One session of one device is replaced or added.                         *)
LEMMA SetSessionFacts ==
  ASSUME TypeOK, NEW d \in Device, NEW sid \in Sends, NEW s,
         SetSession(d, sid, s)
  PROVE  /\ DOMAIN session' = Device
         /\ session'[d] = [x \in {y \in Sends : Holds(d, y)} \union {sid} |->
                             IF x = sid THEN s ELSE session[d][x]]
         /\ session'[d][sid] = s
         /\ \A x \in Sends : Holds(d, x) /\ x # sid =>
              session'[d][x] = session[d][x]
         /\ session'[Peer(d)] = session[Peer(d)]
<1>1. /\ DOMAIN session = Device
      /\ DOMAIN session[d] = {y \in Sends : Holds(d, y)}
  BY DEF TypeOK
<1>2. session' = [session EXCEPT ![d] =
                    [x \in DOMAIN session[d] \union {sid} |->
                       IF x = sid THEN s ELSE session[d][x]]]
  BY DEF SetSession
<1>3. /\ DOMAIN session' = Device
      /\ session'[d] = [x \in DOMAIN session[d] \union {sid} |->
                          IF x = sid THEN s ELSE session[d][x]]
      /\ session'[Peer(d)] = session[Peer(d)]
  BY <1>1, <1>2, Peers
<1>4. QED
  BY <1>1, <1>3

(* A saved send.                                                           *)
LEMMA SaveFacts ==
  ASSUME TypeOK, ActiveIsChosen, CallsAreLatest, NEW d \in Device, SaveSend(d)
  PROVE  LET n   == call[d]
             sid == sent[n].sid
             p   == Peer(d)
         IN  /\ n \in Sends /\ n \notin posts /\ sid \in Sends
             /\ outgoing'[d] = IF sid = n THEN n ELSE outgoing[d]
             /\ outgoing'[p] = outgoing[p]
             /\ outgoing' \in [Device -> Sends \union {0}]
             /\ sid = n => outgoing[d] = 0 /\ incoming[d] = <<>>
             /\ \A x \in Sends : Holds(d, x)' <=> Holds(d, x) \/ x = sid
             /\ \A x \in Sends : Holds(p, x)' <=> Holds(p, x)
             /\ session'[d] \in [{x \in Sends : Holds(d, x)'} -> States]
             /\ session'[d][sid] = draft[d]
             /\ \A x \in Sends : Holds(d, x) /\ x # sid =>
                  session'[d][x] = session[d][x]
             /\ session'[p] = session[p] /\ DOMAIN session' = Device
             /\ active'[d] = sid /\ active'[p] = active[p]
             /\ active' \in [Device -> Sends \union {0}]
             /\ call'[d] = 0 /\ call'[p] = call[p]
             /\ call' \in [Device -> Sends \union {0}]
             /\ draft'[d] = NoState /\ draft'[p] = draft[p]
             /\ DOMAIN draft' = Device
<1>. DEFINE n == call[d]
            sid == sent[n].sid
            p == Peer(d)
<1>1. /\ n \in Sends /\ n \notin posts /\ n # 0
      /\ SetSession(d, sid, draft[d])
      /\ outgoing' = [outgoing EXCEPT ![d] = IF sid = n THEN n ELSE outgoing[d]]
      /\ active' = [active EXCEPT ![d] = sid]
      /\ call' = [call EXCEPT ![d] = 0] /\ draft' = [draft EXCEPT ![d] = NoState]
      /\ sent' = sent /\ incoming' = incoming
  BY DEF SaveSend, EndCall, NewOutgoing, TypeOK
<1>2. sent[n] \in Envelopes
  BY <1>1 DEF TypeOK, Sends
<1>3. sid \in Sends /\ p \in Device /\ p # d
  BY <1>2, Peers DEF Envelopes
<1>4. /\ sid = n => active[d] = 0
      /\ sid # n => Holds(d, sid)
  BY <1>1 DEF CallsAreLatest
<1>5. draft[d] \in States
  <2>1. n # 0
    BY DEF SaveSend
  <2>2. QED
    BY <2>1 DEF TypeOK
<1>. HIDE DEF n, sid, p
<1>6. /\ outgoing'[d] = IF sid = n THEN n ELSE outgoing[d]
      /\ outgoing'[p] = outgoing[p]
      /\ outgoing' \in [Device -> Sends \union {0}]
      /\ active'[d] = sid /\ active'[p] = active[p]
      /\ active' \in [Device -> Sends \union {0}]
      /\ call'[d] = 0 /\ call'[p] = call[p]
      /\ call' \in [Device -> Sends \union {0}]
      /\ draft'[d] = NoState /\ draft'[p] = draft[p]
      /\ DOMAIN draft' = Device
  BY <1>1, <1>3 DEF TypeOK
<1>7. sid = n => outgoing[d] = 0 /\ incoming[d] = <<>>
  BY <1>4 DEF ActiveIsChosen
<1>8. Sends \subseteq Nat \ {0}
  BY DEF TypeOK, Sends
<1>9. \A x \in Sends : Holds(d, x)' <=> Holds(d, x) \/ x = sid
  <2>1. CASE sid = n
    BY <1>1, <1>6, <1>7, <1>8, <2>1 DEF Holds
  <2>2. CASE sid # n
    BY <1>1, <1>4, <1>6, <2>2 DEF Holds
  <2>3. QED
    BY <2>1, <2>2
<1>10. \A x \in Sends : Holds(p, x)' <=> Holds(p, x)
  BY <1>1, <1>6 DEF Holds
<1>11. /\ DOMAIN session' = Device
       /\ session'[d] = [x \in {y \in Sends : Holds(d, y)} \union {sid} |->
                           IF x = sid THEN draft[d] ELSE session[d][x]]
       /\ session'[d][sid] = draft[d]
       /\ \A x \in Sends : Holds(d, x) /\ x # sid =>
            session'[d][x] = session[d][x]
       /\ session'[p] = session[p]
  BY <1>1, <1>3, SetSessionFacts DEF p
<1>12. session'[d] \in [{x \in Sends : Holds(d, x)'} -> States]
  <2>1. {y \in Sends : Holds(d, y)} \union {sid} = {x \in Sends : Holds(d, x)'}
    BY <1>3, <1>9
  <2>2. \A x \in Sends : Holds(d, x) => session[d][x] \in States
    BY DEF TypeOK
  <2>3. QED
    BY <1>5, <1>11, <2>1, <2>2
<1>13. QED
  BY <1>1, <1>3, <1>6, <1>7, <1>9, <1>10, <1>11, <1>12 DEF n, sid, p

(* An envelope that was decrypted.                                         *)
Received(d, i) ==
  LET n   == accepted[i]
      e   == sent[n]
      sid == e.sid
      p   == Peer(d)
      t   == AfterReceive(ReceivingState(d, e))
  IN  /\ n \in Sends /\ sid \in Sends
      /\ e.to = d /\ e.from = p /\ e.rpub = n
      /\ call[d] = 0 /\ Opens(d, e)
      /\ IsHead(d, i)
      /\ t \in States /\ t.ratchet
      /\ session'[d][sid] = t
      /\ \A x \in Sends : Holds(d, x) /\ x # sid =>
           session'[d][x] = session[d][x]
      /\ session'[p] = session[p] /\ DOMAIN session' = Device
      /\ session'[d] \in [{x \in Sends : Holds(d, x)'} -> States]
      /\ incoming' \in [Device -> Seq(Sends)]
      /\ \A x : Contains(incoming'[d], x) <=>
           Contains(incoming[d], x) \/ (x = sid /\ ~Holds(d, sid))
      /\ incoming'[p] = incoming[p]
      /\ \A x : Holds(d, x)' <=> Holds(d, x) \/ x = sid
      /\ \A x : Holds(p, x)' <=> Holds(p, x)
      /\ active'[d] = sid /\ active'[p] = active[p]
      /\ active' \in [Device -> Sends \union {0}]
      /\ inbox'[d] = inbox[d] \ {i} /\ inbox'[p] = inbox[p]
      /\ inbox' \in [Device -> SUBSET DOMAIN accepted]
      /\ UNCHANGED <<sent, posts, forgotten, accepted, callVars, outgoing,
                     historyVars>>

LEMMA DecryptFacts ==
  ASSUME TypeOK, QueuesAgree, KeysAreFresh, StatesRatchet, NEW d \in Device,
         NEW i \in inbox[d], Decrypt(d, i)
  PROVE  Received(d, i)
<1>. DEFINE n == accepted[i]
            e == sent[n]
            sid == e.sid
            p == Peer(d)
            t == AfterReceive(ReceivingState(d, e))
<1>1. /\ i \in DOMAIN accepted /\ accepted \in Seq(Sends)
      /\ sent \in Seq(Envelopes)
  BY DEF TypeOK
<1>2. n \in Sends /\ e \in Envelopes
  BY <1>1 DEF Sends
<1>3. /\ sid \in Sends /\ e.to = d /\ e.from = p /\ e.rpub = n
      /\ p \in Device /\ p # d
  <2>1. e.to = d
    BY DEF QueuesAgree
  <2>2. e.to = Peer(e.from) /\ e.rpub = n
    BY <1>2 DEF KeysAreFresh
  <2>3. e.sid \in Sends /\ e.from \in Device
    BY <1>2 DEF Envelopes
  <2>4. QED
    BY <2>1, <2>2, <2>3, Peers
<1>4. /\ call[d] = 0 /\ Opens(d, e) /\ IsHead(d, i)
      /\ SetSession(d, sid, t)
      /\ incoming' = [incoming EXCEPT ![d] =
                        IF Holds(d, sid) THEN @ ELSE Append(@, sid)]
      /\ active' = [active EXCEPT ![d] = sid]
      /\ inbox' = [inbox EXCEPT ![d] = @ \ {i}]
      /\ UNCHANGED <<sent, posts, forgotten, accepted, callVars, outgoing,
                     historyVars>>
  BY DEF Decrypt
<1>5. t \in States /\ t.ratchet
  <2>. DEFINE s == IF Holds(d, sid) THEN session[d][sid]
                                    ELSE ResponderState(sid, d, n)
  <2>1. s \in StatesOver(KeyIds) /\ s.ratchet
    <3>1. CASE Holds(d, sid)
      BY <1>3, <3>1, StatesAre DEF TypeOK, StatesRatchet
    <3>2. CASE ~Holds(d, sid)
      <4>1. sid \in KeyIds /\ d \in KeyIds /\ n \in KeyIds
        BY <1>2, <1>3 DEF KeyIds
      <4>2. QED
        BY <3>2, <4>1, ResponderType
    <3>3. QED
      BY <3>1, <3>2
  <2>2. t = AfterReceive(ReceiveState(s, n))
    BY <1>3 DEF ReceivingState
  <2>3. n \in KeyIds
    BY <1>2 DEF KeyIds
  <2>. HIDE DEF s, t
  <2>4. QED
    BY <2>1, <2>2, <2>3, AnyReceiveFields, StatesAre
<1>. HIDE DEF n, e, sid, p, t
<1>6. /\ active'[d] = sid /\ active'[p] = active[p]
      /\ active' \in [Device -> Sends \union {0}]
      /\ inbox'[d] = inbox[d] \ {i} /\ inbox'[p] = inbox[p]
      /\ inbox' \in [Device -> SUBSET DOMAIN accepted]
  BY <1>3, <1>4 DEF TypeOK
<1>7. /\ incoming' \in [Device -> Seq(Sends)]
      /\ incoming'[p] = incoming[p]
      /\ \A x : Contains(incoming'[d], x) <=>
           Contains(incoming[d], x) \/ (x = sid /\ ~Holds(d, sid))
  <2>1. incoming \in [Device -> Seq(Sends)] /\ incoming[d] \in Seq(Sends)
    BY DEF TypeOK
  <2>2. CASE Holds(d, sid)
    <3>1. incoming' = incoming
      BY <1>4, <2>1, <2>2
    <3>2. QED
      BY <2>1, <2>2, <3>1
  <2>3. CASE ~Holds(d, sid)
    <3>1. incoming' = [incoming EXCEPT ![d] = Append(incoming[d], sid)]
      BY <1>4, <2>3
    <3>2. Append(incoming[d], sid) \in Seq(Sends)
      BY <1>3, <2>1, AddLast
    <3>3. /\ incoming' \in [Device -> Seq(Sends)]
          /\ incoming'[p] = incoming[p]
          /\ incoming'[d] = Append(incoming[d], sid)
      BY <1>3, <2>1, <3>1, <3>2
    <3>4. \A x : Contains(Append(incoming[d], sid), x) <=>
                   Contains(incoming[d], x) \/ x = sid
      BY <1>3, <2>1, ContainsMore
    <3>5. QED
      BY <2>3, <3>3, <3>4
  <2>4. QED
    BY <2>2, <2>3
<1>8. /\ \A x : Holds(d, x)' <=> Holds(d, x) \/ x = sid
      /\ \A x : Holds(p, x)' <=> Holds(p, x)
  BY <1>4, <1>7 DEF Holds
<1>9. /\ DOMAIN session' = Device
      /\ session'[d] = [x \in {y \in Sends : Holds(d, y)} \union {sid} |->
                          IF x = sid THEN t ELSE session[d][x]]
      /\ session'[d][sid] = t
      /\ \A x \in Sends : Holds(d, x) /\ x # sid =>
           session'[d][x] = session[d][x]
      /\ session'[p] = session[p]
  BY <1>3, <1>4, SetSessionFacts DEF p
<1>10. session'[d] \in [{x \in Sends : Holds(d, x)'} -> States]
  <2>1. {y \in Sends : Holds(d, y)} \union {sid} = {x \in Sends : Holds(d, x)'}
    BY <1>3, <1>8
  <2>2. \A x \in Sends : Holds(d, x) => session[d][x] \in States
    BY DEF TypeOK
  <2>3. QED
    BY <1>5, <1>9, <2>1, <2>2
<1>11. QED
  BY <1>2, <1>3, <1>4, <1>5, <1>6, <1>7, <1>8, <1>9, <1>10
     DEF Received, n, e, sid, p, t

(* A queue loses what its device gave up or the relay forgot.              *)
LEMMA DropFacts ==
  ASSUME TypeOK, Restart \/ \E d \in Device : LoseBatch(d)
  PROVE  /\ inbox' \in [Device -> SUBSET DOMAIN accepted]
         /\ \A d \in Device : inbox'[d] \subseteq inbox[d]
         /\ cut \subseteq cut'
         /\ \A d \in Device : \A i \in Waiting(d) \ inbox'[d] :
              sent[accepted[i]].sid \in cut'
         /\ cut' \subseteq Sends
         /\ restarts' \in 0..MaxRestarts
         /\ forgotten' \subseteq forgotten \union Range(accepted)
         /\ forgotten' \subseteq Sends
         /\ Repeated' = Repeated
         /\ UNCHANGED <<sent, posts, accepted, callVars, stateVars, abandoned,
                        crossed>>
<1>1. inbox \in [Device -> SUBSET DOMAIN accepted]
  BY DEF TypeOK
<1>2. /\ inbox' \in [Device -> SUBSET DOMAIN accepted]
      /\ \A d \in Device : inbox'[d] \subseteq inbox[d]
      /\ Drop
      /\ restarts' \in 0..MaxRestarts
      /\ forgotten' \subseteq forgotten \union Range(accepted)
      /\ UNCHANGED <<sent, posts, accepted, callVars, stateVars, abandoned,
                     crossed>>
  <2>1. CASE Restart
    <3>1. PICK polled : inbox' = [d \in Device |-> inbox[d] \intersect 1..polled[d]]
      BY <2>1 DEF Restart
    <3>2. restarts' \in 0..MaxRestarts
      BY <2>1, RatchetAssumption DEF Restart, TypeOK, RatchetAssumption
    <3>3. /\ inbox' \in [Device -> SUBSET DOMAIN accepted]
          /\ \A d \in Device : inbox'[d] \subseteq inbox[d]
      BY <1>1, <3>1
    <3>4. forgotten' \subseteq forgotten \union Range(accepted)
      BY <2>1 DEF Restart, Forgetting
    <3>5. QED
      BY <2>1, <3>2, <3>3, <3>4 DEF Restart
  <2>2. ASSUME NEW e \in Device, LoseBatch(e)
        PROVE  /\ inbox' \in [Device -> SUBSET DOMAIN accepted]
               /\ \A d \in Device : inbox'[d] \subseteq inbox[d]
               /\ restarts' = restarts
    <3>1. PICK last : inbox' = [inbox EXCEPT ![e] = @ \ (1..last)]
      BY <2>2 DEF LoseBatch
    <3>2. inbox[e] \ (1..last) \in SUBSET DOMAIN accepted
      BY <1>1
    <3>3. QED
      BY <1>1, <2>2, <3>1, <3>2 DEF LoseBatch
  <2>3. QED
    BY <2>1, <2>2 DEF LoseBatch, TypeOK
<1>3. cut' = cut \union {sent[accepted[i]].sid :
               i \in UNION {Waiting(d) \ inbox'[d] : d \in Device}}
  BY <1>2 DEF Drop
<1>4. \A d \in Device : \A i \in Waiting(d) \ inbox'[d] :
        sent[accepted[i]].sid \in cut'
  <2>1. ASSUME NEW d \in Device, NEW i \in Waiting(d) \ inbox'[d]
        PROVE  i \in UNION {Waiting(c) \ inbox'[c] : c \in Device}
    OBVIOUS
  <2>2. QED
    BY <1>3, <2>1
<1>5. \A i \in DOMAIN accepted : sent[accepted[i]].sid \in Sends
                                 /\ accepted[i] \in Sends
  <2>1. accepted \in Seq(Sends) /\ sent \in Seq(Envelopes)
    BY DEF TypeOK
  <2>2. \A i \in DOMAIN accepted : sent[accepted[i]] \in Envelopes
    BY <2>1 DEF Sends
  <2>3. QED
    BY <2>1, <2>2 DEF Envelopes
<1>6. cut' \subseteq Sends
  <2>1. cut \subseteq Sends
    BY DEF TypeOK
  <2>2. \A i \in UNION {Waiting(c) \ inbox'[c] : c \in Device} :
          i \in DOMAIN accepted
    BY <1>1 DEF Waiting
  <2>3. QED
    BY <1>3, <1>5, <2>1, <2>2
<1>7. forgotten' \subseteq Sends
  <2>1. forgotten \subseteq Sends
    BY DEF TypeOK
  <2>2. Range(accepted) \subseteq Sends
    BY <1>5 DEF Range
  <2>3. QED
    BY <1>2, <2>1, <2>2
<1>8. Repeated' = Repeated
  BY <1>2 DEF Repeated
<1>9. QED
  BY <1>2, <1>3, <1>4, <1>6, <1>7, <1>8

(* The relay queues a send, for the first time or once more.               *)
Queues(n) == QueueMessage(n) \/ QueueAgain(n)

LEMMA QueueFacts ==
  ASSUME TypeOK, QueuesAgree, NEW n, Queues(n)
  PROVE  /\ n \in Sends /\ sent[n].to \in Device
         /\ posts' = posts \ {n} /\ forgotten' \subseteq forgotten
         /\ UNCHANGED <<sent, callVars, stateVars, historyVars>>
         /\ accepted' \in Seq(Sends)
         /\ inbox' \in [Device -> SUBSET DOMAIN accepted']
         /\ n \in posts <=> ~\E i \in DOMAIN accepted : accepted[i] = n
         /\ \E k \in Nat :
              /\ k \notin DOMAIN accepted
              /\ DOMAIN accepted' = DOMAIN accepted \union {k}
              /\ accepted'[k] = n
              /\ \A i \in DOMAIN accepted : accepted'[i] = accepted[i] /\ i < k
              /\ \A e \in Device :
                   inbox'[e] = IF sent[n].to = e THEN inbox[e] \union {k}
                                                 ELSE inbox[e]
              /\ Repeated' = IF n \in posts THEN Repeated
                                            ELSE Repeated \union {k}
              /\ \A e \in Device :
                   Waiting(e)' = IF sent[n].to = e /\ n \in posts
                                 THEN Waiting(e) \union {k} ELSE Waiting(e)
<1>1. /\ sent \in Seq(Envelopes) /\ accepted \in Seq(Sends)
      /\ posts \subseteq Sends /\ forgotten \subseteq Sends
      /\ inbox \in [Device -> SUBSET DOMAIN accepted]
  BY DEF TypeOK
<1>2. /\ n \in Sends
      /\ n \in posts <=> ~\E i \in DOMAIN accepted : accepted[i] = n
      /\ posts' = posts \ {n} /\ forgotten' \subseteq forgotten
      /\ Enqueue(n)
  <2>1. /\ \A i \in DOMAIN accepted : accepted[i] \notin posts
        /\ \A m \in forgotten : \E i \in DOMAIN accepted : accepted[i] = m
    BY DEF QueuesAgree, Range
  <2>2. CASE QueueMessage(n)
    BY <1>1, <2>1, <2>2 DEF QueueMessage
  <2>3. CASE QueueAgain(n)
    BY <1>1, <2>1, <2>3 DEF QueueAgain
  <2>4. QED
    BY <2>2, <2>3 DEF Queues
<1>3. sent[n].to \in Device
  <2>1. sent[n] \in Envelopes
    BY <1>1, <1>2 DEF Sends
  <2>2. QED
    BY <2>1 DEF Envelopes
<1>. PICK k : k = Len(accepted) + 1
  OBVIOUS
<1>4. /\ k \in Nat /\ k \notin DOMAIN accepted
      /\ DOMAIN accepted' = DOMAIN accepted \union {k}
      /\ accepted' \in Seq(Sends) /\ accepted'[k] = n
      /\ \A i \in DOMAIN accepted : accepted'[i] = accepted[i] /\ i < k
  <2>1. /\ Len(accepted) \in Nat /\ DOMAIN accepted = 1..Len(accepted)
        /\ DOMAIN accepted' = 1..(Len(accepted) + 1)
        /\ \A i \in 1..Len(accepted) : accepted'[i] = accepted[i]
        /\ accepted'[Len(accepted) + 1] = n
        /\ accepted' \in Seq(Sends)
    BY <1>1, <1>2, AddLast DEF Enqueue
  <2>2. QED
    BY <2>1
<1>5. /\ inbox' \in [Device -> SUBSET DOMAIN accepted']
      /\ \A e \in Device :
           inbox'[e] = IF sent[n].to = e THEN inbox[e] \union {k} ELSE inbox[e]
  <2>1. inbox' = [inbox EXCEPT ![sent[n].to] =
                    inbox[sent[n].to] \union {k}]
    BY <1>2 DEF Enqueue
  <2>2. inbox \in [Device -> SUBSET DOMAIN accepted'] /\ k \in DOMAIN accepted'
    BY <1>1, <1>4
  <2>3. inbox[sent[n].to] \union {k} \in SUBSET DOMAIN accepted'
    BY <1>3, <2>2
  <2>4. QED
    BY <1>3, <2>1, <2>2, <2>3
<1>6. Repeated' = IF n \in posts THEN Repeated ELSE Repeated \union {k}
  <2>1. \A i, j \in DOMAIN accepted : i < k /\ ~(k < i)
    <3>1. DOMAIN accepted = 1..Len(accepted) /\ Len(accepted) \in Nat
      BY <1>1
    <3>2. QED
      BY <3>1
  <2>2. ~(k < k)
    BY <1>4
  <2>3. ASSUME NEW i
        PROVE  i \in Repeated' <=> i \in Repeated \/ (i = k /\ n \notin posts)
    <3>1. i \in Repeated' <=>
            /\ i \in DOMAIN accepted'
            /\ \E j \in DOMAIN accepted' : j < i /\ accepted'[j] = accepted'[i]
      BY DEF Repeated
    <3>2. i \in Repeated <=>
            /\ i \in DOMAIN accepted
            /\ \E j \in DOMAIN accepted : j < i /\ accepted[j] = accepted[i]
      BY DEF Repeated
    <3>3. CASE i = k
      BY <1>2, <1>4, <2>2, <3>1, <3>2, <3>3
    <3>4. CASE i # k
      BY <1>4, <2>1, <3>1, <3>2, <3>4
    <3>5. QED
      BY <3>3, <3>4
  <2>4. QED
    BY <2>3
<1>7. \A e \in Device :
        Waiting(e)' = IF sent[n].to = e /\ n \in posts
                      THEN Waiting(e) \union {k} ELSE Waiting(e)
  <2>1. \A e \in Device : k \notin inbox[e] /\ k \notin Repeated
    BY <1>1, <1>4 DEF Repeated
  <2>2. \A e \in Device : Waiting(e)' = inbox'[e] \ Repeated'
    BY DEF Waiting
  <2>3. QED
    BY <1>5, <1>6, <2>1, <2>2 DEF Waiting
<1>8. UNCHANGED <<sent, callVars, stateVars, historyVars>>
  BY <1>2 DEF Enqueue
<1>9. QED
  BY <1>2, <1>3, <1>4, <1>5, <1>6, <1>7, <1>8

-----------------------------------------------------------------------------
(* Types.                                                                  *)

(* The initial states satisfy every part.                                  *)
LEMMA InitRatchet == Init => RatchetInv
<1>. SUFFICES ASSUME Init PROVE RatchetInv
  OBVIOUS
<1>. USE DEF Init
<1>1. Sends = {} /\ KeyIds = Device
  BY DEF Sends, KeyIds
<1>2. \A d \in Device : \A sid : ~Contains(incoming[d], sid)
  BY DEF Contains
<1>3. TypeOK
  <2>1. /\ sent \in Seq(Envelopes) /\ accepted \in Seq(Sends)
        /\ incoming \in [Device -> Seq(Sends)]
    OBVIOUS
  <2>2. \A d \in Device : session[d] \in [{x \in Sends : Holds(d, x)} -> States]
    <3>1. {x \in Sends : FALSE} = {}
      OBVIOUS
    <3>2. \A d \in Device : {x \in Sends : Holds(d, x)} = {}
      BY <1>1
    <3>3. <<>> \in [{} -> States]
      OBVIOUS
    <3>4. QED
      BY <3>2, <3>3
  <2>3. restarts \in 0..MaxRestarts
    BY RatchetAssumption DEF RatchetAssumption
  <2>4. QED
    BY <2>1, <2>2, <2>3 DEF TypeOK
<1>4. ActiveIsHeld /\ ActiveIsChosen /\ CallsAreLatest /\ PostsAreCalls
  BY DEF ActiveIsHeld, ActiveIsChosen, CallsAreLatest, PostsAreCalls
<1>5. QueuesAgree /\ KeysAreFresh /\ StatesRatchet /\ SessionsHaveEnds
  <2>1. DOMAIN accepted = {} /\ Repeated = {}
    BY DEF Repeated
  <2>2. QED
    BY <1>1, <2>1 DEF QueuesAgree, KeysAreFresh, StatesRatchet, SessionsHaveEnds
<1>6. Clean = {}
  BY <1>1 DEF Clean
<1>7. /\ OneDirection /\ WaitInOrder /\ ReceivedAreSpent /\ EndsMeet
      /\ SenderLeads /\ ReceiverFollows
  BY <1>6 DEF OneDirection, WaitInOrder, ReceivedAreSpent, EndsMeet,
     SenderLeads, ReceiverFollows
<1>8. QED
  BY <1>3, <1>4, <1>5, <1>7 DEF RatchetInv

(* A step that sends nothing keeps the sets of the types.                  *)
LEMMA SameSends ==
  ASSUME sent' = sent
  PROVE  Sends' = Sends /\ KeyIds' = KeyIds /\ States' = States
         /\ Envelopes' = Envelopes
BY DEF Sends, KeyIds, States, Envelopes, Chains, Roots

LEMMA SameHolds ==
  ASSUME outgoing' = outgoing, incoming' = incoming
  PROVE  \A e, x : Holds(e, x)' <=> Holds(e, x)
BY DEF Holds

LEMMA SameSessions ==
  ASSUME TypeOK, UNCHANGED stateVars
  PROVE  \A e \in Device : session'[e] \in [{x \in Sends : Holds(e, x)'} -> States]
<1>1. \A e, x : Holds(e, x)' <=> Holds(e, x)
  BY SameHolds DEF stateVars
<1>2. \A e \in Device :
        {x \in Sends : Holds(e, x)'} = {x \in Sends : Holds(e, x)}
  BY <1>1
<1>3. QED
  BY <1>2 DEF TypeOK, stateVars

LEMMA TypesAgain ==
  ASSUME TypeOK, sent' = sent, posts' \subseteq Sends,
         forgotten' \subseteq Sends, accepted' \in Seq(Sends),
         inbox' \in [Device -> SUBSET DOMAIN accepted'],
         call' \in [Device -> Sends \union {0}], DOMAIN draft' = Device,
         \A d \in Device :
           draft'[d] \in IF call'[d] = 0 THEN {NoState} ELSE States,
         outgoing' \in [Device -> Sends \union {0}],
         incoming' \in [Device -> Seq(Sends)],
         active' \in [Device -> Sends \union {0}],
         DOMAIN session' = Device,
         \A d \in Device :
           session'[d] \in [{x \in Sends : Holds(d, x)'} -> States],
         abandoned' \subseteq Sends, crossed' \subseteq Sends, cut' \subseteq Sends,
         restarts' \in 0..MaxRestarts
  PROVE  TypeOK'
<1>1. /\ Sends' = Sends /\ States' = States /\ Envelopes' = Envelopes
  BY SameSends
<1>2. \A d \in Device : {x \in Sends' : Holds(d, x)'} = {x \in Sends : Holds(d, x)'}
  BY <1>1
<1>3. \A d \in Device :
        session'[d] \in [{x \in Sends' : Holds(d, x)'} -> States']
  BY <1>1, <1>2
<1>4. sent' \in Seq(Envelopes')
  BY <1>1 DEF TypeOK
<1>5. QED
  BY <1>1, <1>3, <1>4 DEF TypeOK

(* TypeOK is preserved by every step.                                      *)
LEMMA NextTypes == RatchetInv /\ [Next]_vars => TypeOK'
<1>. SUFFICES ASSUME TypeOK, ActiveIsHeld, ActiveIsChosen, CallsAreLatest,
                     QueuesAgree, KeysAreFresh, StatesRatchet, [Next]_vars
              PROVE  TypeOK'
  BY DEF RatchetInv
<1>. USE DEF vars, relayVars, callVars, stateVars, historyVars
<1>1. CASE UNCHANGED vars
  <2>1. \A e \in Device :
          session'[e] \in [{x \in Sends : Holds(e, x)'} -> States]
    BY <1>1, SameSessions
  <2>2. QED
    BY <1>1, <2>1, TypesAgain DEF TypeOK
<1>2. ASSUME NEW d \in Device, Encrypt(d) PROVE TypeOK'
  <2>. DEFINE n == Len(sent) + 1
              p == Peer(d)
  <2>1. /\ Sends' = Sends \union {n} /\ KeyIds \subseteq KeyIds'
        /\ sent' \in Seq(Envelopes')
        /\ posts' = posts \union {n}
        /\ call' = [call EXCEPT ![d] = n]
        /\ DOMAIN draft' = Device
        /\ draft'[d] \in StatesOver(KeyIds')
        /\ call'[d] = n /\ n # 0 /\ n \notin Sends /\ call'[p] = call[p]
        /\ draft'[p] = draft[p]
        /\ crossed' \subseteq crossed \union {sent'[n].sid}
        /\ sent'[n].sid \in Sends'
        /\ UNCHANGED <<forgotten, accepted, inbox, stateVars, abandoned, cut,
                       restarts>>
    <3>1. /\ Sends' = Sends \union {n}
          /\ sent' \in Seq(Envelopes')
          /\ posts' = posts \union {n}
          /\ DOMAIN draft' = Device
          /\ draft'[d] \in StatesOver(KeyIds')
          /\ call'[d] = n /\ n # 0 /\ n \notin Sends /\ call'[p] = call[p]
          /\ draft'[p] = draft[p]
          /\ sent'[n].sid = IF active[d] = 0 THEN n ELSE active[d]
      BY <1>2, EncryptFacts
    <3>2. crossed' \subseteq crossed \union {sent'[n].sid}
      BY <1>2, <3>1, SelectedIsActive DEF Encrypt
    <3>3. /\ call' = [call EXCEPT ![d] = n]
          /\ UNCHANGED <<forgotten, accepted, inbox, stateVars, abandoned, cut,
                         restarts>>
      BY <1>2 DEF Encrypt
    <3>4. sent'[n].sid \in Sends'
      BY <3>1 DEF TypeOK
    <3>5. QED
      BY <3>1, <3>2, <3>3, <3>4, SentStays
  <2>. HIDE DEF n
  <2>2. Seq(Sends) \subseteq Seq(Sends')
    BY <2>1, WiderSeq
  <2>3. accepted' \in Seq(Sends') /\ incoming' \in [Device -> Seq(Sends')]
    BY <2>1, <2>2 DEF TypeOK
  <2>4. States \subseteq States' /\ States' = StatesOver(KeyIds')
    <3>1. States' = StatesOver(KeyIds')
      BY DEF States, Chains, Roots, StatesOver, ChainsOver, RootsOver
    <3>2. QED
      BY <2>1, <3>1, StatesAre, StatesGrow
  <2>5. \A e \in Device : session'[e] \in [{x \in Sends' : Holds(e, x)'} -> States']
    <3>1. ASSUME NEW e \in Device
          PROVE  {x \in Sends' : Holds(e, x)'} = {x \in Sends : Holds(e, x)}
      <4>1. \A x : Holds(e, x)' <=> Holds(e, x)
        BY <2>1 DEF Holds
      <4>2. ~Holds(e, n)
        <5>1. outgoing[e] # n
          BY <2>1 DEF TypeOK
        <5>2. ~Contains(incoming[e], n)
          BY <2>1, ContainsFacts DEF TypeOK
        <5>3. QED
          BY <5>1, <5>2 DEF Holds
      <4>3. QED
        BY <2>1, <4>1, <4>2
    <3>2. ASSUME NEW e \in Device
          PROVE  session'[e] \in [{x \in Sends' : Holds(e, x)'} -> States']
      <4>1. session[e] \in [{x \in Sends : Holds(e, x)} -> States]
        BY DEF TypeOK
      <4>2. session' = session
        BY <2>1
      <4>3. session[e] \in [{x \in Sends : Holds(e, x)} -> States']
        BY <2>4, <4>1
      <4>4. QED
        BY <3>1, <4>2, <4>3
    <3>3. QED
      BY <3>2
  <2>6. \A e \in Device : draft'[e] \in
          IF call'[e] = 0 THEN {NoState} ELSE States'
    <3>1. draft[p] \in IF call[p] = 0 THEN {NoState} ELSE States
      BY Peers DEF TypeOK
    <3>2. draft'[p] \in IF call'[p] = 0 THEN {NoState} ELSE States'
      BY <2>1, <2>4, <3>1
    <3>3. draft'[d] \in IF call'[d] = 0 THEN {NoState} ELSE States'
      BY <2>1, <2>4
    <3>4. QED
      BY <3>2, <3>3, Peers
  <2>7. call' \in [Device -> Sends' \union {0}]
    BY <2>1 DEF TypeOK
  <2>8. QED
    BY <2>1, <2>3, <2>5, <2>6, <2>7 DEF TypeOK
<1>3. ASSUME NEW n, Queues(n) PROVE TypeOK'
  <2>1. /\ accepted' \in Seq(Sends)
        /\ inbox' \in [Device -> SUBSET DOMAIN accepted']
        /\ posts' \subseteq posts /\ forgotten' \subseteq forgotten
        /\ UNCHANGED <<sent, callVars, stateVars, historyVars>>
    BY <1>3, QueueFacts
  <2>2. \A e \in Device :
          session'[e] \in [{x \in Sends : Holds(e, x)'} -> States]
    BY <2>1, SameSessions
  <2>3. posts' \subseteq Sends /\ forgotten' \subseteq Sends
    BY <2>1 DEF TypeOK
  <2>4. QED
    BY <2>1, <2>2, <2>3, TypesAgain DEF TypeOK
<1>4. ASSUME NEW d \in Device, SaveSend(d) PROVE TypeOK'
  <2>1. /\ outgoing' \in [Device -> Sends \union {0}]
        /\ active' \in [Device -> Sends \union {0}]
        /\ call' \in [Device -> Sends \union {0}]
        /\ DOMAIN draft' = Device /\ DOMAIN session' = Device
        /\ call'[d] = 0 /\ draft'[d] = NoState
        /\ call'[Peer(d)] = call[Peer(d)] /\ draft'[Peer(d)] = draft[Peer(d)]
        /\ session'[d] \in [{x \in Sends : Holds(d, x)'} -> States]
        /\ session'[Peer(d)] = session[Peer(d)]
        /\ \A x \in Sends : Holds(Peer(d), x)' <=> Holds(Peer(d), x)
    BY <1>4, SaveFacts
  <2>2. /\ UNCHANGED <<sent, posts, accepted, inbox, incoming, historyVars>>
        /\ forgotten' \subseteq forgotten
    BY <1>4 DEF SaveSend
  <2>3. \A e \in Device : session'[e] \in [{x \in Sends : Holds(e, x)'} -> States]
    <3>1. {x \in Sends : Holds(Peer(d), x)'} = {x \in Sends : Holds(Peer(d), x)}
      BY <2>1
    <3>2. session'[Peer(d)] \in [{x \in Sends : Holds(Peer(d), x)'} -> States]
      BY <2>1, <3>1, Peers DEF TypeOK
    <3>3. ASSUME NEW e \in Device
          PROVE  session'[e] \in [{x \in Sends : Holds(e, x)'} -> States]
      <4>1. CASE e = d
        BY <2>1, <4>1
      <4>2. CASE e = Peer(d)
        BY <3>2, <4>2
      <4>3. QED
        BY <4>1, <4>2, Peers
    <3>4. QED
      BY <3>3
  <2>4. \A e \in Device : draft'[e] \in
          IF call'[e] = 0 THEN {NoState} ELSE States
    BY <2>1, Peers DEF TypeOK
  <2>5. QED
    BY <2>1, <2>2, <2>3, <2>4, TypesAgain DEF TypeOK
<1>5. ASSUME NEW d \in Device, AbandonSend(d) PROVE TypeOK'
  <2>1. /\ call' = [call EXCEPT ![d] = 0] /\ draft' = [draft EXCEPT ![d] = NoState]
        /\ abandoned' = abandoned \union {call[d]} /\ call[d] # 0
        /\ UNCHANGED <<sent, relayVars, stateVars, crossed, cut, restarts>>
    BY <1>5 DEF AbandonSend, EndCall
  <2>2. /\ call' \in [Device -> Sends \union {0}] /\ DOMAIN draft' = Device
        /\ abandoned' \subseteq Sends
        /\ \A e \in Device : draft'[e] \in
             IF call'[e] = 0 THEN {NoState} ELSE States
    BY <2>1 DEF TypeOK
  <2>3. \A e \in Device :
          session'[e] \in [{x \in Sends : Holds(e, x)'} -> States]
    BY <2>1, SameSessions
  <2>4. QED
    BY <2>1, <2>2, <2>3, TypesAgain DEF TypeOK
<1>6. ASSUME NEW d \in Device, NEW i \in inbox[d], Decrypt(d, i) PROVE TypeOK'
  <2>1. /\ session'[Peer(d)] = session[Peer(d)] /\ DOMAIN session' = Device
        /\ session'[d] \in [{x \in Sends : Holds(d, x)'} -> States]
        /\ incoming' \in [Device -> Seq(Sends)]
        /\ \A x : Holds(Peer(d), x)' <=> Holds(Peer(d), x)
        /\ active' \in [Device -> Sends \union {0}]
        /\ inbox' \in [Device -> SUBSET DOMAIN accepted]
        /\ UNCHANGED <<sent, posts, forgotten, accepted, callVars, outgoing,
                       historyVars>>
    BY <1>6, DecryptFacts DEF Received
  <2>2. \A e \in Device : session'[e] \in [{x \in Sends : Holds(e, x)'} -> States]
    <3>1. {x \in Sends : Holds(Peer(d), x)'} = {x \in Sends : Holds(Peer(d), x)}
      BY <2>1
    <3>2. session'[Peer(d)] \in [{x \in Sends : Holds(Peer(d), x)'} -> States]
      BY <2>1, <3>1, Peers DEF TypeOK
    <3>3. ASSUME NEW e \in Device
          PROVE  session'[e] \in [{x \in Sends : Holds(e, x)'} -> States]
      <4>1. e = d \/ e = Peer(d)
        BY Peers
      <4>2. CASE e = d
        BY <2>1, <4>2
      <4>3. CASE e = Peer(d)
        BY <3>2, <4>3
      <4>4. QED
        BY <4>1, <4>2, <4>3
    <3>4. QED
      BY <3>3
  <2>3. QED
    BY <2>1, <2>2, TypesAgain DEF TypeOK
<1>7. CASE Restart \/ \E d \in Device : LoseBatch(d)
  <2>1. /\ inbox' \in [Device -> SUBSET DOMAIN accepted]
        /\ cut' \subseteq Sends
        /\ restarts' \in 0..MaxRestarts
        /\ forgotten' \subseteq Sends
        /\ UNCHANGED <<sent, posts, accepted, callVars, stateVars, abandoned,
                       crossed>>
    BY <1>7, DropFacts
  <2>2. \A e \in Device :
          session'[e] \in [{x \in Sends : Holds(e, x)'} -> States]
    BY <2>1, SameSessions
  <2>3. QED
    BY <2>1, <2>2, TypesAgain DEF TypeOK
<1>8. QED
  BY <1>1, <1>2, <1>3, <1>4, <1>5, <1>6, <1>7 DEF Next, Queues

-----------------------------------------------------------------------------
(* The parts about single sends and devices.                               *)

Basics ==
  /\ ActiveIsHeld
  /\ ActiveIsChosen
  /\ CallsAreLatest
  /\ PostsAreCalls
  /\ QueuesAgree
  /\ KeysAreFresh
  /\ StatesRatchet
  /\ SessionsHaveEnds

(* Sends are positive numbers, and their envelopes have fields.            *)
LEMMA SendFacts ==
  ASSUME TypeOK
  PROVE  /\ Sends \subseteq Nat /\ 0 \notin Sends /\ Sends \intersect Device = {}
         /\ \A n \in Sends :
              /\ sent[n].sid \in Sends /\ sent[n].from \in Device
              /\ sent[n].to \in Device /\ sent[n].key \in Chains
         /\ \A i \in DOMAIN accepted : accepted[i] \in Sends
         /\ \A d \in Device : \A i \in inbox[d] :
              i \in DOMAIN accepted /\ i \in Nat /\ accepted[i] \in Sends
         /\ posts \subseteq Sends /\ abandoned \subseteq Sends
         /\ \A d \in Device : call[d] # 0 => call[d] \in Sends
<1>1. sent \in Seq(Envelopes) /\ accepted \in Seq(Sends)
  BY DEF TypeOK
<1>2. Sends = 1..Len(sent) /\ Len(sent) \in Nat
  BY <1>1 DEF Sends
<1>3. DOMAIN accepted = 1..Len(accepted) /\ Len(accepted) \in Nat
  BY <1>1
<1>4. \A n \in Sends : sent[n] \in Envelopes
  BY <1>1 DEF Sends
<1>5. Sends \subseteq Nat /\ 0 \notin Sends /\ Sends \intersect Device = {}
  BY <1>2, Peers
<1>6. \A n \in Sends :
        /\ sent[n].sid \in Sends /\ sent[n].from \in Device
        /\ sent[n].to \in Device /\ sent[n].key \in Chains
  BY <1>4 DEF Envelopes
<1>7. \A i \in DOMAIN accepted : accepted[i] \in Sends /\ i \in Nat
  BY <1>1, <1>3
<1>8. QED
  BY <1>5, <1>6, <1>7 DEF TypeOK

(* Devices hold sessions of envelopes that exist.                          *)
LEMMA HeldAreSends ==
  ASSUME TypeOK, NEW d \in Device, NEW x, x # 0, Holds(d, x)
  PROVE  x \in Sends
<1>1. incoming[d] \in Seq(Sends) /\ outgoing[d] \in Sends \union {0}
  BY DEF TypeOK
<1>2. QED
  BY <1>1, ContainsFacts DEF Holds

(* The queues agree as long as nothing is queued.                          *)
LEMMA QueuesAgain ==
  ASSUME TypeOK, QueuesAgree, accepted' = accepted,
         forgotten' \subseteq forgotten \union Range(accepted),
         \A i \in DOMAIN accepted : accepted[i] \notin posts',
         \A d \in Device : inbox'[d] \subseteq inbox[d],
         \A n \in Sends : sent'[n] = sent[n]
  PROVE  QueuesAgree' /\ Repeated' = Repeated
<1>1. Repeated' = Repeated /\ Range(accepted)' = Range(accepted)
  BY DEF Repeated, Range
<1>2. forgotten \subseteq Range(accepted)
  BY DEF QueuesAgree
<1>3. \A i \in Repeated : \E j \in DOMAIN accepted \ Repeated :
        j < i /\ accepted[j] = accepted[i]
  BY DEF QueuesAgree
<1>4. \A d \in Device : \A i \in inbox'[d] : sent'[accepted[i]].to = d
  <2>1. \A d \in Device : \A i \in inbox[d] :
          accepted[i] \in Sends /\ sent[accepted[i]].to = d
    BY SendFacts DEF QueuesAgree
  <2>2. QED
    BY <2>1
<1>. HIDE DEF Repeated, Range
<1>5. QED
  BY <1>1, <1>2, <1>3, <1>4 DEF QueuesAgree

LEMMA EncryptBasics ==
  ASSUME TypeOK, Basics, NEW d \in Device, Encrypt(d)
  PROVE  Basics'
<1>. PICK n : n = Len(sent) + 1
  OBVIOUS
<1>. DEFINE p == Peer(d)
            s == session[d][active[d]]
<1>1. /\ n \in Sends' /\ n \notin Sends /\ n # 0 /\ n \in Nat
      /\ Sends' = Sends \union {n}
      /\ \A m \in Sends : sent'[m] = sent[m] /\ m < n /\ m \in Nat
      /\ sent'[n].from = d
      /\ sent'[n].to = p
      /\ sent'[n].sid = IF active[d] = 0 THEN n ELSE active[d]
      /\ sent'[n].rpub = n
      /\ sent'[n].key = KeyOf(d, n)
      /\ posts' = posts \union {n}
      /\ call[d] = 0 /\ call'[d] = n /\ call'[p] = call[p]
      /\ draft'[d].ratchet
      /\ draft'[p] = draft[p]
      /\ active[d] # 0 =>
           Holds(d, active[d]) /\ s \in StatesOver(KeyIds) /\ s.ratchet
  BY EncryptFacts DEF Basics
<1>2. UNCHANGED <<forgotten, accepted, inbox, stateVars, abandoned, cut,
                  restarts>>
  BY DEF Encrypt
<1>3. p \in Device /\ p # d /\ \A e \in Device : e = d \/ e = p
  BY Peers
<1>4. \A e, x : Holds(e, x)' <=> Holds(e, x)
  BY <1>2, SameHolds DEF stateVars
<1>. HIDE DEF s, p
<1>5. ActiveIsHeld'
  BY <1>2, <1>4 DEF ActiveIsHeld, Basics, stateVars
<1>6. ActiveIsChosen'
  BY <1>2 DEF ActiveIsChosen, Basics, stateVars
<1>7. CallsAreLatest'
  <2>1. /\ n \notin abandoned'
        /\ \A m \in Sends' : m <= n
        /\ sent'[n].sid = n => active[d] = 0
        /\ sent'[n].sid # n => Holds(d, sent'[n].sid)
    <3>1. n \notin abandoned
      BY <1>1, SendFacts
    <3>2. \A m \in Sends' : m <= n
      BY <1>1
    <3>3. /\ sent'[n].sid = n => active[d] = 0
          /\ sent'[n].sid # n => Holds(d, sent'[n].sid)
      BY <1>1 DEF TypeOK
    <3>4. QED
      BY <1>2, <3>1, <3>2, <3>3
  <2>2. ASSUME call'[p] # 0
        PROVE  LET e == sent'[call'[p]] IN
               /\ e.from = p
               /\ call'[p] \notin abandoned'
               /\ \A m \in Sends' : sent'[m].from = p => m <= call'[p]
               /\ e.sid = call'[p] => active[p] = 0
               /\ e.sid # call'[p] => Holds(p, e.sid)
    <3>1. call[p] \in Sends /\ call[p] # 0
      BY <1>1, <1>3, <2>2 DEF TypeOK
    <3>2. sent'[call'[p]] = sent[call[p]] /\ call'[p] = call[p]
      BY ZenonT(40), <1>1, <3>1
    <3>3. LET e == sent[call[p]] IN
          /\ e.from = p
          /\ call[p] \notin abandoned
          /\ \A m \in Sends : sent[m].from = p => m <= call[p]
          /\ e.sid = call[p] => active[p] = 0
          /\ e.sid # call[p] => Holds(p, e.sid)
      BY <1>3, <3>1 DEF CallsAreLatest, Basics
    <3>4. \A m \in Sends' : sent'[m].from = p => m <= call[p]
      BY <1>1, <1>3, <3>3
    <3>5. QED
      BY <1>2, <3>2, <3>3, <3>4
  <2>3. ASSUME NEW e \in Device, call'[e] # 0
        PROVE  LET f == sent'[call'[e]] IN
               /\ f.from = e
               /\ call'[e] \notin abandoned'
               /\ \A m \in Sends' : sent'[m].from = e => m <= call'[e]
               /\ f.sid = call'[e] => active[e] = 0
               /\ f.sid # call'[e] => Holds(e, f.sid)
    <3>1. CASE e = d
      BY <1>1, <2>1, <3>1
    <3>2. CASE e = p
      BY <2>2, <2>3, <3>2
    <3>3. QED
      BY <1>3, <3>1, <3>2
  <2>4. QED
    BY <1>2, <2>3 DEF CallsAreLatest, Holds, stateVars
<1>8. PostsAreCalls'
  <2>1. ASSUME NEW m \in posts \ abandoned PROVE call'[sent'[m].from] = m
    <3>1. /\ m \in Sends /\ call[sent[m].from] = m /\ sent'[m] = sent[m]
          /\ sent[m].from \in Device
      BY <1>1, SendFacts DEF PostsAreCalls, Basics
    <3>2. sent[m].from # d
      BY <1>1, <3>1, SendFacts
    <3>3. QED
      BY <1>1, <1>3, <3>1, <3>2
  <2>2. QED
    BY <1>1, <1>2, <2>1 DEF PostsAreCalls
<1>9. QueuesAgree'
  <2>1. \A i \in DOMAIN accepted : accepted[i] \notin posts'
    <3>1. \A i \in DOMAIN accepted : accepted[i] \in Sends
      BY SendFacts
    <3>2. \A i \in DOMAIN accepted : accepted[i] \notin posts
      BY DEF QueuesAgree, Basics
    <3>3. QED
      BY <1>1, <3>1, <3>2
  <2>2. QED
    BY <1>1, <1>2, <2>1, QueuesAgain DEF Basics
<1>10. KeysAreFresh'
  <2>1. ASSUME NEW m \in Sends
        PROVE  sent'[m].to = Peer(sent'[m].from) /\ sent'[m].rpub = m
               /\ KeyIsFresh(m)'
    <3>1. sent'[m] = sent[m] /\ sent[m].sid \in Sends
          /\ sent'[sent[m].sid] = sent[sent[m].sid]
      BY <1>1, SendFacts
    <3>2. sent[m].to = Peer(sent[m].from) /\ sent[m].rpub = m /\ KeyIsFresh(m)
      BY DEF KeysAreFresh, Basics
    <3>3. QED
      BY <3>1, <3>2 DEF KeyIsFresh
  <2>2. KeyIsFresh(n)'
    <3>1. CASE active[d] = 0
      <4>1. /\ sent'[n].sid = n /\ sent'[n].to = p
            /\ sent'[n].key = ChainKey(FirstRoot(n, p), "initiator")
        BY <1>1, <3>1 DEF KeyOf, p
      <4>2. QED
        BY <4>1 DEF KeyIsFresh
    <3>2. CASE active[d] # 0
      <4>. DEFINE root == RatchetRoot(s.root, n, s.remote)
      <4>1. /\ sent'[n].sid = active[d] /\ sent'[n].key = ChainKey(root, "ratchet")
            /\ active[d] \in Sends
        BY <1>1, <3>2 DEF KeyOf, s, TypeOK
      <4>2. sent[active[d]].sid = active[d]
        BY ZenonT(40), <1>1, <3>2, <4>1 DEF SessionsHaveEnds, Basics, Holds
      <4>3. /\ s.root \in RootsOver(KeyIds) /\ s.remote \in KeyIds
        BY <1>1, <3>2 DEF StatesOver
      <4>4. s.root \in RootsOver(KeyIds \union {n})
        BY <4>3, StatesGrow
      <4>5. root # <<>> /\ root[Len(root)] = {n, s.remote}
            /\ root \in RootsOver(KeyIds \union {n})
        <5>1. n \in KeyIds \union {n} /\ s.remote \in KeyIds \union {n}
          BY <4>3
        <5>. DEFINE x == {n, s.remote}
        <5>2. x \in SUBSET (KeyIds \union {n})
          BY <5>1
        <5>. HIDE DEF x
        <5>3. /\ Append(s.root, x) \in Seq(SUBSET (KeyIds \union {n}))
              /\ Append(s.root, x) # <<>>
              /\ Append(s.root, x)[Len(Append(s.root, x))] = x
          BY <4>4, <5>2, AddLast DEF RootsOver
        <5>4. QED
          BY <5>3 DEF RatchetRoot, RootsOver, x
      <4>6. s.remote \in Device \union 1..(n - 1)
        BY <1>1, <4>3 DEF KeyIds, Sends, TypeOK
      <4>. HIDE DEF root
      <4>7. sent'[n].key.root = root /\ sent'[n].key = ChainKey(root, "ratchet")
        BY <4>1, <4>5, ChainKeyType
      <4>8. active[d] < n /\ sent'[active[d]].sid = active[d]
        BY <1>1, <4>1, <4>2
      <4>9. PICK r \in Device \union 1..(n - 1) : root[Len(root)] = {n, r}
        BY <4>5, <4>6
      <4>10. /\ sent'[n].sid < n /\ sent'[sent'[n].sid].sid = sent'[n].sid
             /\ sent'[n].key = ChainKey(sent'[n].key.root, "ratchet")
             /\ sent'[n].key.root # <<>>
             /\ sent'[n].key.root[Len(sent'[n].key.root)] = {n, r}
        BY <4>1, <4>5, <4>7, <4>8, <4>9
      <4>11. QED
        BY <4>10 DEF KeyIsFresh
    <3>3. QED
      BY <3>1, <3>2
  <2>3. sent'[n].to = Peer(sent'[n].from) /\ sent'[n].rpub = n
    BY <1>1 DEF p
  <2>4. \A m \in Sends' : m \in Sends \/ m = n
    BY <1>1
  <2>5. QED
    BY <2>1, <2>2, <2>3, <2>4 DEF KeysAreFresh
<1>11. StatesRatchet'
  <2>1. \A e \in Device, x \in Sends' : Holds(e, x) => x \in Sends
    BY <1>1, HeldAreSends
  <2>2. \A e \in Device, x \in Sends : Holds(e, x) => session[e][x].ratchet
    BY DEF StatesRatchet, Basics
  <2>3. \A e \in Device, x \in Sends' : Holds(e, x)' => session'[e][x].ratchet
    BY <1>2, <1>4, <2>1, <2>2 DEF stateVars
  <2>4. call[p] # 0 => draft[p].ratchet
    BY <1>3 DEF StatesRatchet, Basics
  <2>5. QED
    BY <1>1, <1>3, <2>3, <2>4 DEF StatesRatchet
<1>12. SessionsHaveEnds'
  <2>1. \A e \in Device : ~Holds(e, n)
    BY <1>1, HeldAreSends
  <2>2. \A e \in Device : outgoing[e] # n /\ ~Contains(incoming[e], n)
    BY <2>1 DEF Holds
  <2>3. QED
    BY <1>1, <1>2, <2>2 DEF SessionsHaveEnds, Basics, stateVars
<1>13. QED
  BY <1>5, <1>6, <1>7, <1>8, <1>9, <1>10, <1>11, <1>12 DEF Basics

(* The parts that speak of calls, sessions and envelopes only.             *)
LEMMA SameParts ==
  ASSUME TypeOK, Basics, UNCHANGED <<sent, callVars, stateVars, abandoned>>
  PROVE  /\ ActiveIsHeld' /\ ActiveIsChosen' /\ CallsAreLatest'
         /\ KeysAreFresh' /\ StatesRatchet' /\ SessionsHaveEnds'
<1>. USE DEF callVars, stateVars, Basics
<1>1. Sends' = Sends
  BY SameSends
<1>2. ActiveIsHeld' /\ ActiveIsChosen' /\ SessionsHaveEnds'
  BY <1>1 DEF ActiveIsHeld, ActiveIsChosen, SessionsHaveEnds, Holds
<1>3. CallsAreLatest'
  BY <1>1 DEF CallsAreLatest, Holds
<1>4. KeysAreFresh'
  BY <1>1 DEF KeysAreFresh, KeyIsFresh
<1>5. StatesRatchet'
  BY <1>1 DEF StatesRatchet, Holds
<1>6. QED
  BY <1>2, <1>3, <1>4, <1>5

LEMMA QueueBasics ==
  ASSUME TypeOK, Basics, NEW n, Queues(n)
  PROVE  Basics'
<1>1. /\ n \in Sends /\ posts' = posts \ {n} /\ forgotten' \subseteq forgotten
      /\ UNCHANGED <<sent, callVars, stateVars, historyVars>>
      /\ n \in posts <=> ~\E i \in DOMAIN accepted : accepted[i] = n
  BY QueueFacts DEF Basics
<1>2. PICK k \in Nat :
        /\ k \notin DOMAIN accepted
        /\ DOMAIN accepted' = DOMAIN accepted \union {k}
        /\ accepted'[k] = n
        /\ \A i \in DOMAIN accepted : accepted'[i] = accepted[i] /\ i < k
        /\ \A e \in Device :
             inbox'[e] = IF sent[n].to = e THEN inbox[e] \union {k}
                                           ELSE inbox[e]
        /\ Repeated' = IF n \in posts THEN Repeated ELSE Repeated \union {k}
  BY QueueFacts DEF Basics
<1>3. /\ ActiveIsHeld' /\ ActiveIsChosen' /\ CallsAreLatest'
      /\ KeysAreFresh' /\ StatesRatchet' /\ SessionsHaveEnds'
  BY <1>1, SameParts DEF historyVars
<1>4. PostsAreCalls'
  BY <1>1 DEF PostsAreCalls, Basics, historyVars, callVars
<1>5. QueuesAgree'
  <2>1. \A i \in DOMAIN accepted' : accepted'[i] \notin posts'
    BY <1>1, <1>2 DEF QueuesAgree, Basics
  <2>2. forgotten' \subseteq Range(accepted)'
    BY <1>1, <1>2 DEF QueuesAgree, Basics, Range
  <2>3. \A i \in Repeated' : \E j \in DOMAIN accepted' \ Repeated' :
          j < i /\ accepted'[j] = accepted'[i]
    <3>1. \A i \in Repeated : i \in DOMAIN accepted
      BY DEF Repeated
    <3>2. \A i \in Repeated : \E j \in DOMAIN accepted \ Repeated :
            j < i /\ accepted[j] = accepted[i]
      BY DEF QueuesAgree, Basics
    <3>3. \A j \in DOMAIN accepted \ Repeated : j \in DOMAIN accepted' \ Repeated'
      BY <1>2
    <3>4. ASSUME NEW i \in Repeated
          PROVE  \E j \in DOMAIN accepted' \ Repeated' :
                   j < i /\ accepted'[j] = accepted'[i]
      <4>1. PICK j \in DOMAIN accepted \ Repeated :
              j < i /\ accepted[j] = accepted[i]
        BY <3>2
      <4>2. accepted'[j] = accepted[j] /\ accepted'[i] = accepted[i]
        BY <1>2, <3>1
      <4>3. QED
        BY <3>3, <4>1, <4>2
    <3>5. ASSUME n \notin posts
          PROVE  \E j \in DOMAIN accepted' \ Repeated' :
                   j < k /\ accepted'[j] = accepted'[k]
      <4>1. PICK i \in DOMAIN accepted : accepted[i] = n
        BY <1>1, <3>5
      <4>2. PICK j \in DOMAIN accepted \ Repeated : accepted[j] = n
        BY <3>2, <4>1
      <4>3. QED
        BY <1>2, <3>3, <4>2
    <3>6. QED
      BY <1>2, <3>4, <3>5
  <2>4. ASSUME NEW e \in Device, NEW i \in inbox'[e]
        PROVE  sent'[accepted'[i]].to = e
    <3>1. i \in inbox[e] \/ (i = k /\ sent[n].to = e)
      BY <1>2, <2>4
    <3>2. CASE i \in inbox[e]
      <4>1. i \in DOMAIN accepted /\ sent[accepted[i]].to = e
        BY <3>2, SendFacts DEF QueuesAgree, Basics
      <4>2. QED
        BY <1>1, <1>2, <4>1
    <3>3. CASE i = k /\ sent[n].to = e
      BY <1>1, <1>2, <3>3
    <3>4. QED
      BY <3>1, <3>2, <3>3
  <2>5. QED
    BY <2>1, <2>2, <2>3, <2>4 DEF QueuesAgree
<1>6. QED
  BY <1>3, <1>4, <1>5 DEF Basics

LEMMA SaveBasics ==
  ASSUME TypeOK, Basics, NEW d \in Device, SaveSend(d)
  PROVE  Basics'
<1>. PICK n : n = call[d]
  OBVIOUS
<1>. PICK sid : sid = sent[n].sid
  OBVIOUS
<1>. DEFINE p == Peer(d)
<1>1. /\ n \in Sends /\ n \notin posts /\ sid \in Sends /\ n # 0
      /\ outgoing'[d] = IF sid = n THEN n ELSE outgoing[d]
      /\ outgoing'[p] = outgoing[p]
      /\ \A x \in Sends : Holds(d, x)' <=> Holds(d, x) \/ x = sid
      /\ \A x \in Sends : Holds(p, x)' <=> Holds(p, x)
      /\ session'[d][sid] = draft[d]
      /\ \A x \in Sends : Holds(d, x) /\ x # sid =>
           session'[d][x] = session[d][x]
      /\ session'[p] = session[p]
      /\ active'[d] = sid /\ active'[p] = active[p]
      /\ call'[d] = 0 /\ call'[p] = call[p] /\ draft'[p] = draft[p]
      /\ UNCHANGED <<sent, posts, accepted, inbox, incoming, historyVars>>
      /\ forgotten' \subseteq forgotten
  <2>1. /\ UNCHANGED <<sent, posts, accepted, inbox, incoming, historyVars>>
        /\ forgotten' \subseteq forgotten /\ n # 0
    BY DEF SaveSend
  <2>2. QED
    BY <2>1, SaveFacts DEF Basics
<1>2. /\ p \in Device /\ p # d /\ \A e \in Device : e = d \/ e = p
      /\ Sends' = Sends /\ 0 \notin Sends
  BY <1>1, SameSends, SendFacts, Peers
<1>. HIDE DEF p
<1>3. ActiveIsHeld'
  <2>1. active'[d] # 0 => Holds(d, active[d])'
    <3>1. Holds(d, sid)'
      BY <1>1
    <3>2. QED
      BY <1>1, <3>1 DEF Holds
  <2>2. active'[p] # 0 => Holds(p, active[p])'
    BY <1>1, <1>2 DEF ActiveIsHeld, Basics, Holds
  <2>3. QED
    BY <1>2, <2>1, <2>2 DEF ActiveIsHeld, Holds
<1>4. ActiveIsChosen'
  BY <1>1, <1>2 DEF ActiveIsChosen, Basics
<1>5. CallsAreLatest'
  <2>1. ASSUME call[p] # 0
        PROVE  LET f == sent[call[p]] IN
               /\ f.from = p
               /\ call[p] \notin abandoned
               /\ \A m \in Sends : sent[m].from = p => m <= call[p]
               /\ f.sid = call[p] => active[p] = 0
               /\ f.sid # call[p] => Holds(p, f.sid)
    BY <1>2, <2>1 DEF CallsAreLatest, Basics
  <2>2. ASSUME call'[p] # 0
        PROVE  LET f == sent'[call'[p]] IN
               /\ f.from = p
               /\ call'[p] \notin abandoned'
               /\ \A m \in Sends' : sent'[m].from = p => m <= call'[p]
               /\ f.sid = call'[p] => active'[p] = 0
               /\ f.sid # call'[p] =>
                    Contains(incoming'[p], f.sid) \/ outgoing'[p] = f.sid
    BY <1>1, <1>2, <2>1, <2>2 DEF Holds, historyVars
  <2>3. QED
    BY <1>1, <1>2, <2>2 DEF CallsAreLatest, Holds
<1>6. PostsAreCalls'
  <2>1. ASSUME NEW m \in posts \ abandoned PROVE call'[sent[m].from] = m
    <3>1. call[sent[m].from] = m /\ sent[m].from \in Device
      BY SendFacts DEF PostsAreCalls, Basics
    <3>2. sent[m].from # d
      BY <1>1, <3>1
    <3>3. QED
      BY <1>1, <1>2, <3>1, <3>2
  <2>2. QED
    BY <1>1, <2>1 DEF PostsAreCalls, historyVars
<1>7. QueuesAgree' /\ KeysAreFresh'
  <2>1. QueuesAgree'
    <3>1. \A i \in DOMAIN accepted : accepted[i] \notin posts'
      BY <1>1 DEF QueuesAgree, Basics
    <3>2. QED
      BY <1>1, <3>1, QueuesAgain DEF Basics
  <2>2. KeysAreFresh'
    BY <1>1, <1>2 DEF KeysAreFresh, KeyIsFresh, Basics
  <2>3. QED
    BY <2>1, <2>2
<1>8. StatesRatchet'
  <2>1. draft[d].ratchet
    BY <1>1 DEF StatesRatchet, Basics
  <2>2. \A x \in Sends : Holds(d, x)' => session'[d][x].ratchet
    BY <1>1, <2>1 DEF StatesRatchet, Basics
  <2>3. \A x \in Sends : Holds(p, x)' => session'[p][x].ratchet
    BY <1>1, <1>2 DEF StatesRatchet, Basics
  <2>4. (call'[d] # 0 => draft'[d].ratchet) /\ (call'[p] # 0 => draft'[p].ratchet)
    BY <1>1, <1>2 DEF StatesRatchet, Basics
  <2>5. QED
    BY <1>2, <2>2, <2>3, <2>4 DEF StatesRatchet
<1>9. SessionsHaveEnds'
  <2>1. sent[n].from = d
    BY <1>1 DEF CallsAreLatest, Basics
  <2>2. \A x \in Sends : outgoing'[d] = x => sent[x].sid = x /\ sent[x].from = d
    BY <1>1, <2>1 DEF SessionsHaveEnds, Basics
  <2>3. \A x \in Sends : outgoing'[p] = x => sent[x].sid = x /\ sent[x].from = p
    <3>1. \A x \in Sends : outgoing[p] = x => sent[x].sid = x /\ sent[x].from = p
      BY <1>2 DEF SessionsHaveEnds, Basics
    <3>2. QED
      BY <1>1, <3>1
  <2>4. QED
    BY <1>1, <1>2, <2>2, <2>3 DEF SessionsHaveEnds, Basics
<1>10. QED
  BY <1>3, <1>4, <1>5, <1>6, <1>7, <1>8, <1>9 DEF Basics

LEMMA AbandonBasics ==
  ASSUME TypeOK, Basics, NEW d \in Device, AbandonSend(d)
  PROVE  Basics'
<1>. DEFINE n == call[d]
            p == Peer(d)
<1>1. /\ call' = [call EXCEPT ![d] = 0] /\ draft' = [draft EXCEPT ![d] = NoState]
      /\ abandoned' = abandoned \union {n} /\ n # 0
      /\ UNCHANGED <<sent, relayVars, stateVars, crossed, cut, restarts>>
  BY DEF AbandonSend, EndCall
<1>2. /\ p \in Device /\ p # d /\ \A e \in Device : e = d \/ e = p
      /\ Sends' = Sends
  BY <1>1, SameSends, Peers
<1>3. /\ call'[d] = 0 /\ call'[p] = call[p] /\ draft'[p] = draft[p]
  BY <1>1, <1>2 DEF TypeOK
<1>. HIDE DEF n, p
<1>4. ActiveIsHeld' /\ ActiveIsChosen' /\ SessionsHaveEnds' /\ QueuesAgree'
  <2>1. ActiveIsHeld' /\ ActiveIsChosen' /\ SessionsHaveEnds'
    BY <1>1, <1>2 DEF ActiveIsHeld, ActiveIsChosen, SessionsHaveEnds, Holds,
       Basics, stateVars
  <2>2. \A i \in DOMAIN accepted : accepted[i] \notin posts'
    BY <1>1 DEF QueuesAgree, Basics, relayVars
  <2>3. QueuesAgree'
    BY <1>1, <2>2, QueuesAgain DEF Basics, relayVars
  <2>4. QED
    BY <2>1, <2>3
<1>5. KeysAreFresh'
  BY <1>1, <1>2 DEF KeysAreFresh, KeyIsFresh, Basics
<1>6. CallsAreLatest'
  <2>1. ASSUME call[p] # 0
        PROVE  LET f == sent[call[p]] IN
               /\ f.from = p
               /\ call[p] \notin abandoned
               /\ \A m \in Sends : sent[m].from = p => m <= call[p]
               /\ f.sid = call[p] => active[p] = 0
               /\ f.sid # call[p] => Holds(p, f.sid)
    BY <1>2, <2>1 DEF CallsAreLatest, Basics
  <2>2. sent[n].from = d
    BY <1>1 DEF CallsAreLatest, Basics, n
  <2>3. ASSUME call'[p] # 0
        PROVE  LET f == sent'[call'[p]] IN
               /\ f.from = p
               /\ call'[p] \notin abandoned'
               /\ \A m \in Sends' : sent'[m].from = p => m <= call'[p]
               /\ f.sid = call'[p] => active'[p] = 0
               /\ f.sid # call'[p] =>
                    Contains(incoming'[p], f.sid) \/ outgoing'[p] = f.sid
    BY <1>1, <1>2, <1>3, <2>1, <2>2, <2>3 DEF Holds, stateVars
  <2>4. QED
    BY <1>2, <1>3, <2>3 DEF CallsAreLatest, Holds
<1>7. PostsAreCalls'
  <2>1. ASSUME NEW m \in posts \ abandoned' PROVE call'[sent[m].from] = m
    <3>1. call[sent[m].from] = m /\ sent[m].from \in Device
      BY <1>1, SendFacts DEF PostsAreCalls, Basics
    <3>2. sent[m].from # d
      BY <1>1, <3>1 DEF n
    <3>3. QED
      BY <1>2, <1>3, <3>1, <3>2
  <2>2. QED
    BY <1>1, <2>1 DEF PostsAreCalls, relayVars
<1>8. StatesRatchet'
  <2>1. \A e \in Device : \A x \in Sends : Holds(e, x) => session[e][x].ratchet
    BY DEF StatesRatchet, Basics
  <2>2. \A e \in Device : \A x \in Sends' : Holds(e, x)' => session'[e][x].ratchet
    BY <1>1, <1>2, <2>1 DEF Holds, stateVars
  <2>3. (call'[d] # 0 => draft'[d].ratchet) /\ (call'[p] # 0 => draft'[p].ratchet)
    BY <1>2, <1>3 DEF StatesRatchet, Basics
  <2>4. QED
    BY <1>2, <2>2, <2>3 DEF StatesRatchet
<1>9. QED
  BY <1>4, <1>5, <1>6, <1>7, <1>8 DEF Basics

LEMMA DecryptBasics ==
  ASSUME TypeOK, Basics, NEW d \in Device, NEW i \in inbox[d], Decrypt(d, i)
  PROVE  Basics'
<1>. PICK n : n = accepted[i]
  OBVIOUS
<1>. PICK sid : sid = sent[n].sid
  OBVIOUS
<1>. DEFINE p == Peer(d)
<1>1. /\ n \in Sends /\ sid \in Sends
      /\ sent[n].to = d /\ sent[n].from = p
      /\ call[d] = 0 /\ Opens(d, sent[n])
      /\ session'[d][sid].ratchet
      /\ \A x \in Sends : Holds(d, x) /\ x # sid =>
           session'[d][x] = session[d][x]
      /\ session'[p] = session[p]
      /\ \A x : Contains(incoming'[d], x) <=>
           Contains(incoming[d], x) \/ (x = sid /\ ~Holds(d, sid))
      /\ incoming'[p] = incoming[p]
      /\ \A x : Holds(d, x)' <=> Holds(d, x) \/ x = sid
      /\ \A x : Holds(p, x)' <=> Holds(p, x)
      /\ active'[d] = sid /\ active'[p] = active[p]
      /\ inbox'[d] = inbox[d] \ {i} /\ inbox'[p] = inbox[p]
      /\ UNCHANGED <<sent, posts, forgotten, accepted, callVars, outgoing,
                     historyVars>>
  <2>1. Received(d, i)
    BY DecryptFacts DEF Basics
  <2>2. QED
    BY <2>1 DEF Received
<1>2. /\ p \in Device /\ p # d /\ \A e \in Device : e = d \/ e = p
      /\ Sends' = Sends /\ 0 \notin Sends
  BY <1>1, SameSends, SendFacts, Peers
<1>. HIDE DEF p
<1>3. ActiveIsHeld'
  <2>1. active'[d] # 0 => Holds(d, active[d])'
    <3>1. Holds(d, sid)'
      BY <1>1
    <3>2. QED
      BY <1>1, <3>1 DEF Holds
  <2>2. active'[p] # 0 => Holds(p, active[p])'
    BY <1>1, <1>2 DEF ActiveIsHeld, Basics, Holds
  <2>3. QED
    BY <1>2, <2>1, <2>2 DEF ActiveIsHeld, Holds
<1>4. ActiveIsChosen'
  BY <1>1, <1>2 DEF ActiveIsChosen, Basics
<1>5. CallsAreLatest'
  <2>1. ASSUME call[p] # 0
        PROVE  LET f == sent[call[p]] IN
               /\ f.from = p
               /\ call[p] \notin abandoned
               /\ \A m \in Sends : sent[m].from = p => m <= call[p]
               /\ f.sid = call[p] => active[p] = 0
               /\ f.sid # call[p] => Holds(p, f.sid)
    BY <1>2, <2>1 DEF CallsAreLatest, Basics
  <2>2. ASSUME call'[p] # 0
        PROVE  LET f == sent'[call'[p]] IN
               /\ f.from = p
               /\ call'[p] \notin abandoned'
               /\ \A m \in Sends' : sent'[m].from = p => m <= call'[p]
               /\ f.sid = call'[p] => active'[p] = 0
               /\ f.sid # call'[p] =>
                    Contains(incoming'[p], f.sid) \/ outgoing'[p] = f.sid
    BY <1>1, <1>2, <2>1, <2>2 DEF Holds, historyVars, callVars
  <2>3. QED
    BY <1>1, <1>2, <2>2 DEF CallsAreLatest, Holds, callVars
<1>6. PostsAreCalls' /\ KeysAreFresh'
  BY <1>1, <1>2 DEF PostsAreCalls, KeysAreFresh, KeyIsFresh, Basics, callVars,
     historyVars
<1>7. QueuesAgree'
  <2>1. \A e \in Device : inbox'[e] \subseteq inbox[e]
    BY <1>1, <1>2
  <2>2. \A j \in DOMAIN accepted : accepted[j] \notin posts'
    BY <1>1 DEF QueuesAgree, Basics
  <2>3. QED
    BY <1>1, <2>1, <2>2, QueuesAgain DEF Basics
<1>8. StatesRatchet'
  <2>1. \A x \in Sends : Holds(d, x)' => session'[d][x].ratchet
    BY <1>1 DEF StatesRatchet, Basics
  <2>2. \A x \in Sends : Holds(p, x)' => session'[p][x].ratchet
    BY <1>1, <1>2 DEF StatesRatchet, Basics
  <2>3. \A e \in Device : call'[e] # 0 => draft'[e].ratchet
    BY <1>1 DEF StatesRatchet, Basics, callVars
  <2>4. QED
    BY <1>2, <2>1, <2>2, <2>3 DEF StatesRatchet
<1>9. SessionsHaveEnds'
  <2>1. ~Holds(d, sid) => sent[sid].sid = sid /\ sent[sid].from = p
    <3>1. sent[sid].sid = sid
      BY <1>1 DEF KeysAreFresh, KeyIsFresh, Basics
    <3>2. ~Holds(d, sid) => sent[sid].from = p
      BY <1>1 DEF Opens, Initiator
    <3>3. QED
      BY <3>1, <3>2
  <2>2. \A x \in Sends : Contains(incoming'[d], x) =>
          sent[x].sid = x /\ sent[x].from = p
    BY <1>1, <2>1 DEF SessionsHaveEnds, Basics, p
  <2>3. QED
    BY <1>1, <1>2, <2>2 DEF SessionsHaveEnds, Basics, p
<1>10. QED
  BY <1>3, <1>4, <1>5, <1>6, <1>7, <1>8, <1>9 DEF Basics

LEMMA DropBasics ==
  ASSUME TypeOK, Basics, Restart \/ \E d \in Device : LoseBatch(d)
  PROVE  Basics'
<1>1. /\ \A d \in Device : inbox'[d] \subseteq inbox[d]
      /\ forgotten' \subseteq forgotten \union Range(accepted)
      /\ UNCHANGED <<sent, posts, accepted, callVars, stateVars, abandoned>>
  BY DropFacts
<1>2. /\ ActiveIsHeld' /\ ActiveIsChosen' /\ CallsAreLatest'
      /\ KeysAreFresh' /\ StatesRatchet' /\ SessionsHaveEnds'
  BY <1>1, SameParts
<1>3. PostsAreCalls'
  BY <1>1 DEF PostsAreCalls, Basics, callVars
<1>4. QueuesAgree'
  <2>1. \A i \in DOMAIN accepted : accepted[i] \notin posts'
    BY <1>1 DEF QueuesAgree, Basics
  <2>2. QED
    BY <1>1, <2>1, QueuesAgain DEF Basics
<1>5. QED
  BY <1>2, <1>3, <1>4 DEF Basics

LEMMA NextBasics == TypeOK /\ Basics /\ [Next]_vars => Basics'
<1>. SUFFICES ASSUME TypeOK, Basics, [Next]_vars PROVE Basics'
  OBVIOUS
<1>1. CASE UNCHANGED vars
  <2>1. /\ ActiveIsHeld' /\ ActiveIsChosen' /\ CallsAreLatest'
        /\ KeysAreFresh' /\ StatesRatchet' /\ SessionsHaveEnds'
    BY <1>1, SameParts DEF vars, historyVars
  <2>2. PostsAreCalls'
    BY <1>1 DEF PostsAreCalls, Basics, vars, callVars, relayVars, historyVars
  <2>3. QueuesAgree'
    <3>1. \A i \in DOMAIN accepted : accepted[i] \notin posts'
      BY <1>1 DEF QueuesAgree, Basics, vars, relayVars
    <3>2. QED
      BY <1>1, <3>1, QueuesAgain DEF Basics, vars, relayVars
  <2>4. QED
    BY <2>1, <2>2, <2>3 DEF Basics
<1>2. QED
  BY <1>1, EncryptBasics, QueueBasics, SaveBasics, AbandonBasics, DecryptBasics,
     DropBasics DEF Next, Queues

-----------------------------------------------------------------------------
(* The parts about the sessions that stayed clean, for one session and one *)
(* of its ends.                                                            *)

Apart(sid, d) == Coming(d, sid) = {} \/ Coming(Peer(d), sid) = {}

Meets(sid, d) ==
  LET p == Peer(d) IN
  /\ Coming(d, sid) # {} => Working(p, sid)
  /\ Working(d, sid) /\ Working(p, sid) => sid \notin Coming(d, sid)
  /\ sent[sid].from = d /\ Working(d, sid) /\ ~Working(p, sid) =>
       sid \in Coming(p, sid)
  /\ sent[sid].from = d /\ Working(p, sid) => Working(d, sid)

Pending(sid, d) == Calls(d, sid) /\ call[d] \in posts /\ Holds(d, sid)

Leads(sid, d) ==
  LET p == Peer(d) IN
  Working(d, sid) /\ Coming(d, sid) = {} =>
    /\ LeadsBy(State(d, sid), p, sid, Coming(p, sid))
    /\ Pending(sid, d) =>
         LeadsBy(session[d][sid], p, sid, Coming(p, sid) \ {call[d]})

Followed(sid, d) ==
  LET S == Coming(d, sid) IN
  \A n \in S :
    /\ \A m \in S : Follows(n, m, S) => OneStep(sent[m].key.root, n, d, sid)
    /\ IsFirst(n, S) =>
         IF Working(d, sid) THEN OneStep(State(d, sid).root, n, d, sid)
                            ELSE n = sid
    /\ Working(d, sid) => State(d, sid).remote # n

InStep(sid) ==
  \A d \in Device :
    Apart(sid, d) /\ Meets(sid, d) /\ Leads(sid, d) /\ Followed(sid, d)

(* RatchetInv, with the parts about one session together.                  *)
BySession ==
  /\ TypeOK
  /\ Basics
  /\ WaitInOrder
  /\ ReceivedAreSpent
  /\ \A sid \in Clean : InStep(sid)

LEMMA InvParts == RatchetInv <=> BySession
<1>1. OneDirection <=> \A sid \in Clean, d \in Device : Apart(sid, d)
  BY DEF OneDirection, Apart
<1>2. EndsMeet <=> \A sid \in Clean, d \in Device : Meets(sid, d)
  <2>1. \A sid \in Clean : sent[sid].sid = sid
    BY DEF Clean
  <2>2. \A sid \in Clean, d \in Device : sid \in Coming(d, sid) <=> sid \in Towards(d)
    BY <2>1 DEF Coming
  <2>3. QED
    BY <2>2, Peers DEF EndsMeet, Meets
<1>3. SenderLeads <=> \A sid \in Clean, d \in Device : Leads(sid, d)
  BY DEF SenderLeads, Leads, Pending
<1>4. ReceiverFollows <=> \A sid \in Clean, d \in Device : Followed(sid, d)
  BY DEF ReceiverFollows, Followed
<1>5. QED
  BY <1>1, <1>2, <1>3, <1>4 DEF RatchetInv, BySession, Basics, InStep

(* What one end is, in the terms the parts above use, is what it was.      *)
SameEnd(sid, e) ==
  /\ Coming(e, sid)' = Coming(e, sid)
  /\ Working(e, sid)' <=> Working(e, sid)
  /\ Working(e, sid) => State(e, sid)' = State(e, sid)
  /\ Pending(sid, e)' => /\ Pending(sid, e)
                         /\ call'[e] = call[e]
                         /\ session'[e][sid] = session[e][sid]

LEMMA ComingAreSends ==
  ASSUME TypeOK, NEW d \in Device, NEW sid
  PROVE  Coming(d, sid) \subseteq Sends
BY SendFacts DEF Coming, Towards, Waiting

(* LeadsBy after a step, for a state and sends of now.                     *)
LeadsNext(s, p, sid, S) ==
  /\ S = {} => s.root = (State(p, sid)').root /\ s.priv = (State(p, sid)').remote
  /\ \A n \in S : IsLast(n, S) => s.root = sent'[n].key.root /\ s.priv = n
  /\ s.remote = RatchetKey(p, sid)'

LEMMA SameLead ==
  ASSUME NEW s, NEW p, NEW sid, NEW S, LeadsBy(s, p, sid, S),
         \A n \in S : sent'[n] = sent[n],
         S = {} => State(p, sid)' = State(p, sid),
         RatchetKey(p, sid)' = RatchetKey(p, sid)
  PROVE  LeadsNext(s, p, sid, S)
BY DEF LeadsBy, LeadsNext

LEMMA LeadsWillBe ==
  ASSUME NEW d, NEW p, NEW sid
  PROVE  /\ LeadsBy(State(d, sid), p, sid, Coming(p, sid))' <=>
              LeadsNext(State(d, sid)', p, sid, Coming(p, sid)')
         /\ LeadsBy(session[d][sid], p, sid, Coming(p, sid) \ {call[d]})' <=>
              LeadsNext(session'[d][sid], p, sid, Coming(p, sid)' \ {call'[d]})
BY DEF LeadsBy, LeadsNext, IsLast

(* A send that waits to be queued on a session the device has saved is not *)
(* the one that opened it.                                                 *)
LEMMA PendingIsLater ==
  ASSUME TypeOK, Basics, NEW d \in Device, NEW sid \in Sends, Pending(sid, d)
  PROVE  /\ call[d] \in Sends /\ call[d] # sid /\ call[d] \in posts
         /\ call[d] \notin abandoned /\ sent[call[d]].sid = sid
         /\ sent[call[d]].from = d /\ call[d] # 0
<1>1. /\ call[d] # 0 /\ sent[call[d]].sid = sid /\ call[d] \in posts
      /\ Holds(d, sid)
  BY DEF Pending, Calls
<1>2. call[d] \in Sends /\ 0 \notin Sends
  BY <1>1, SendFacts
<1>3. /\ sent[call[d]].from = d /\ call[d] \notin abandoned
      /\ sid = call[d] => active[d] = 0
  BY <1>1 DEF CallsAreLatest, Basics
<1>4. active[d] # 0
  BY <1>1, <1>2 DEF ActiveIsChosen, Basics, Holds, Contains
<1>5. QED
  BY <1>1, <1>2, <1>3, <1>4

LEMMA SameView ==
  ASSUME TypeOK, Basics, NEW sid \in Sends, \A m \in Sends : sent'[m] = sent[m],
         \A e \in Device : SameEnd(sid, e), InStep(sid)
  PROVE  InStep(sid)'
<1>1. /\ \A e \in Device : Coming(e, sid)' = Coming(e, sid)
      /\ \A e \in Device : Working(e, sid)' <=> Working(e, sid)
      /\ \A e \in Device : Working(e, sid) => State(e, sid)' = State(e, sid)
      /\ \A e \in Device :
           Pending(sid, e)' => /\ Pending(sid, e)
                               /\ call'[e] = call[e]
                               /\ session'[e][sid] = session[e][sid]
  BY DEF SameEnd
<1>2. \A e \in Device : \A n \in Coming(e, sid) : n \in Sends
  BY ComingAreSends
<1>3. \A e \in Device : RatchetKey(e, sid)' = RatchetKey(e, sid)
  BY <1>1 DEF RatchetKey
<1>4. ASSUME NEW d \in Device
      PROVE  /\ Apart(sid, d)' /\ Meets(sid, d)' /\ Leads(sid, d)'
             /\ Followed(sid, d)'
  <2>. PICK p \in Device : p = Peer(d) /\ d = Peer(p)
    BY Peers
  <2>1. Apart(sid, d) /\ Meets(sid, d) /\ Leads(sid, d) /\ Followed(sid, d)
        /\ Meets(sid, p)
    BY DEF InStep
  <2>2. Apart(sid, d)'
    BY <1>1, <2>1 DEF Apart
  <2>3. Meets(sid, d)'
    BY <1>1, <2>1 DEF Meets
  <2>4. Leads(sid, d)'
    <3>1. ASSUME Working(d, sid), sid \notin Coming(p, sid)
          PROVE  Working(p, sid)
      BY <2>1, <3>1, SendFacts, Peers DEF Meets
    <3>2. PICK s, t, u, S :
            /\ s = State(d, sid) /\ t = State(p, sid) /\ u = session[d][sid]
            /\ S = Coming(p, sid)
      OBVIOUS
    <3>3. ASSUME Working(d, sid)', Coming(d, sid)' = {}
          PROVE  /\ State(d, sid)' = s /\ Coming(p, sid)' = S
                 /\ sid \notin S => State(p, sid)' = t
                 /\ RatchetKey(p, sid)' = RatchetKey(p, sid)
                 /\ \A n \in S : sent'[n] = sent[n]
                 /\ LeadsBy(s, p, sid, S)
      BY <1>1, <1>2, <1>3, <2>1, <3>1, <3>2, <3>3 DEF Leads
    <3>4. ASSUME Working(d, sid)', Coming(d, sid)' = {}
          PROVE  LeadsNext(State(d, sid)', p, sid, Coming(p, sid)')
      <4>1. S = {} => State(p, sid)' = State(p, sid)
        BY <3>2, <3>3, <3>4
      <4>2. LeadsNext(s, p, sid, S)
        BY <3>3, <3>4, <4>1, SameLead
      <4>3. QED
        BY <3>3, <3>4, <4>2
    <3>5. ASSUME Working(d, sid)', Coming(d, sid)' = {}, Pending(sid, d)'
          PROVE  LeadsNext(session'[d][sid], p, sid, Coming(p, sid)' \ {call'[d]})
      <4>1. PICK c, R : c = call[d] /\ R = S \ {c}
        OBVIOUS
      <4>2. /\ session'[d][sid] = u /\ call'[d] = c /\ c # sid
            /\ LeadsBy(u, p, sid, R)
        BY <1>1, <2>1, <3>2, <3>5, <4>1, PendingIsLater DEF Leads
      <4>3. R = {} => State(p, sid)' = State(p, sid)
        BY <3>2, <3>3, <3>5, <4>1, <4>2
      <4>4. LeadsNext(u, p, sid, R)
        BY <3>3, <3>5, <4>1, <4>2, <4>3, SameLead
      <4>5. QED
        BY <3>3, <3>5, <4>1, <4>2, <4>4
    <3>6. QED
      BY <3>4, <3>5, LeadsWillBe DEF Leads
  <2>5. Followed(sid, d)'
    BY <1>1, <1>2, <1>3, <2>1 DEF Followed, OneStep, Follows, IsFirst
  <2>6. QED
    BY <2>2, <2>3, <2>4, <2>5
<1>5. QED
  BY <1>4 DEF InStep

-----------------------------------------------------------------------------
(* What a step does to the sends on their way.                             *)

LEMMA ComingMembers ==
  ASSUME NEW d, NEW sid, NEW m
  PROVE  /\ m \in Coming(d, sid) <=>
              /\ \/ m \in posts /\ m \notin abandoned /\ sent[m].to = d
                 \/ \E i \in Waiting(d) : accepted[i] = m
              /\ sent[m].sid = sid
         /\ m \in Coming(d, sid)' <=>
              /\ \/ m \in posts' /\ m \notin abandoned' /\ sent'[m].to = d
                 \/ \E i \in Waiting(d)' : accepted'[i] = m
              /\ sent'[m].sid = sid
BY DEF Coming, Towards

(* A session that is clean after a step was clean before it, or is new.    *)
LEMMA CleanBefore ==
  ASSUME TypeOK, [Next]_vars, NEW sid \in Sends, sid \in Clean'
  PROVE  sid \in Clean /\ sent[sid].sid = sid
<1>1. \A m \in Sends : sent'[m] = sent[m]
  BY SentStays
<1>2. /\ crossed \subseteq crossed' /\ cut \subseteq cut'
      /\ abandoned \subseteq abandoned'
      /\ \A m \in abandoned : m \notin posts => m \notin posts'
  <2>. USE SendFacts DEF vars, relayVars, callVars, stateVars, historyVars
  <2>1. CASE UNCHANGED vars
    BY <2>1
  <2>2. ASSUME NEW d \in Device, Encrypt(d)
        PROVE  /\ crossed \subseteq crossed' /\ cut \subseteq cut'
               /\ abandoned \subseteq abandoned'
               /\ \A m \in abandoned : m \notin posts => m \notin posts'
    <3>1. Len(sent) + 1 \notin Sends
      BY DEF TypeOK, Sends
    <3>2. QED
      BY <2>2, <3>1 DEF Encrypt
  <2>3. ASSUME NEW n, Queues(n)
        PROVE  /\ crossed \subseteq crossed' /\ cut \subseteq cut'
               /\ abandoned \subseteq abandoned'
               /\ \A m \in abandoned : m \notin posts => m \notin posts'
    BY <2>3 DEF Queues, QueueMessage, QueueAgain, Enqueue
  <2>4. ASSUME NEW d \in Device, SaveSend(d) \/ AbandonSend(d)
        PROVE  /\ crossed \subseteq crossed' /\ cut \subseteq cut'
               /\ abandoned \subseteq abandoned'
               /\ \A m \in abandoned : m \notin posts => m \notin posts'
    BY <2>4 DEF SaveSend, AbandonSend
  <2>5. ASSUME NEW d \in Device, NEW i \in inbox[d], Decrypt(d, i)
        PROVE  /\ crossed \subseteq crossed' /\ cut \subseteq cut'
               /\ abandoned \subseteq abandoned'
               /\ \A m \in abandoned : m \notin posts => m \notin posts'
    BY <2>5 DEF Decrypt
  <2>6. CASE Restart \/ \E d \in Device : LoseBatch(d)
    BY <2>6, DropFacts
  <2>7. QED
    BY <2>1, <2>2, <2>3, <2>4, <2>5, <2>6 DEF Next, Queues
<1>3. sent[sid].sid = sid
  BY <1>1 DEF Clean
<1>4. ASSUME sid \in Torn PROVE sid \in Torn'
  <2>1. PICK m \in abandoned \ posts : sent[m].sid = sid
    BY <1>4 DEF Torn
  <2>2. m \in abandoned' \ posts' /\ sent'[m].sid = sid
    BY <1>1, <1>2, <2>1, SendFacts
  <2>3. QED
    BY <2>2 DEF Torn
<1>5. QED
  BY <1>2, <1>3, <1>4 DEF Clean

(* A working end has a state.                                              *)
LEMMA StateType ==
  ASSUME TypeOK, NEW d \in Device, NEW sid \in Sends, sent[sid].sid = sid,
         Working(d, sid)
  PROVE  State(d, sid) \in States
<1>1. CASE Calls(d, sid)
  BY <1>1 DEF State, Calls, TypeOK
<1>2. CASE ~Calls(d, sid)
  <2>1. Holds(d, sid)
    BY <1>2, SendFacts DEF Working, Calls
  <2>2. QED
    BY <1>2, <2>1 DEF State, TypeOK
<1>3. QED
  BY <1>1, <1>2

LEMMA QueueViews ==
  ASSUME TypeOK, Basics, NEW n, Queues(n), NEW sid \in Sends, sid \in Clean'
  PROVE  \A e \in Device : SameEnd(sid, e)
<1>1. /\ n \in Sends /\ posts' = posts \ {n}
      /\ UNCHANGED <<sent, callVars, stateVars, historyVars>>
      /\ n \in posts <=> ~\E i \in DOMAIN accepted : accepted[i] = n
  BY QueueFacts DEF Basics
<1>2. PICK k \in Nat :
        /\ accepted'[k] = n
        /\ \A i \in DOMAIN accepted : accepted'[i] = accepted[i]
        /\ \A e \in Device :
             Waiting(e)' = IF sent[n].to = e /\ n \in posts
                           THEN Waiting(e) \union {k} ELSE Waiting(e)
  BY QueueFacts DEF Basics
<1>3. ASSUME NEW e \in Device PROVE Coming(e, sid)' = Coming(e, sid)
  <2>1. \A i \in Waiting(e) : i \in DOMAIN accepted
    BY SendFacts DEF Waiting
  <2>2. \A m : (\E i \in Waiting(e)' : accepted'[i] = m) <=>
               \/ \E i \in Waiting(e) : accepted[i] = m
               \/ m = n /\ sent[n].to = e /\ n \in posts
    BY <1>2, <2>1
  <2>3. n \in posts /\ sent[n].sid = sid => n \notin abandoned
    <3>1. ASSUME n \in posts, sent[n].sid = sid, n \in abandoned
          PROVE  sid \in Torn'
      BY <1>1, <3>1 DEF Torn, historyVars
    <3>2. QED
      BY <3>1 DEF Clean
  <2>4. ASSUME NEW m PROVE m \in Coming(e, sid)' <=> m \in Coming(e, sid)
    <3>1. ASSUME sent[m].sid = sid
          PROVE  \/ m \in posts' /\ m \notin abandoned' /\ sent'[m].to = e
                 \/ \E i \in Waiting(e)' : accepted'[i] = m
                 <=>
                 \/ m \in posts /\ m \notin abandoned /\ sent[m].to = e
                 \/ \E i \in Waiting(e) : accepted[i] = m
      <4>1. CASE m = n
        BY <1>1, <2>2, <2>3, <3>1, <4>1 DEF historyVars
      <4>2. CASE m # n
        BY <1>1, <2>2, <4>2 DEF historyVars
      <4>3. QED
        BY <4>1, <4>2
    <3>2. sent' = sent
      BY <1>1
    <3>3. /\ m \in Coming(e, sid) <=>
               /\ \/ m \in posts /\ m \notin abandoned /\ sent[m].to = e
                  \/ \E i \in Waiting(e) : accepted[i] = m
               /\ sent[m].sid = sid
          /\ m \in Coming(e, sid)' <=>
               /\ \/ m \in posts' /\ m \notin abandoned' /\ sent'[m].to = e
                  \/ \E i \in Waiting(e)' : accepted'[i] = m
               /\ sent'[m].sid = sid
      BY ComingMembers
    <3>4. QED
      BY <3>1, <3>2, <3>3
  <2>5. QED
    BY <2>4
<1>4. \A e, x : Holds(e, x)' <=> Holds(e, x)
  BY <1>1, SameHolds DEF stateVars
<1>5. ASSUME NEW e \in Device, Pending(sid, e)' PROVE Pending(sid, e)
  BY <1>1, <1>4, <1>5 DEF Pending, Calls, callVars
<1>6. QED
  BY <1>1, <1>3, <1>4, <1>5 DEF SameEnd, Working, State, Calls, callVars,
     stateVars

LEMMA DropViews ==
  ASSUME TypeOK, Basics, Restart \/ \E d \in Device : LoseBatch(d),
         NEW sid \in Sends, sid \in Clean'
  PROVE  \A e \in Device : SameEnd(sid, e)
<1>1. /\ \A d \in Device : inbox'[d] \subseteq inbox[d]
      /\ \A d \in Device : \A i \in Waiting(d) \ inbox'[d] :
           sent[accepted[i]].sid \in cut'
      /\ Repeated' = Repeated
      /\ UNCHANGED <<sent, posts, accepted, callVars, stateVars, abandoned>>
  BY DropFacts
<1>2. ASSUME NEW e \in Device PROVE Coming(e, sid)' = Coming(e, sid)
  <2>1. sid \notin cut'
    BY DEF Clean
  <2>2. Waiting(e)' = Waiting(e) \intersect inbox'[e]
    BY <1>1 DEF Waiting
  <2>3. \A m : m \in Coming(e, sid)' <=> m \in Coming(e, sid)
    BY <1>1, <2>1, <2>2, ComingMembers
  <2>4. QED
    BY <2>3
<1>3. \A e, x : Holds(e, x)' <=> Holds(e, x)
  BY <1>1, SameHolds DEF stateVars
<1>4. QED
  BY <1>1, <1>2, <1>3 DEF SameEnd, Working, State, Calls, Pending, callVars,
     stateVars

LEMMA SaveViews ==
  ASSUME TypeOK, Basics, NEW d \in Device, SaveSend(d),
         NEW sid \in Sends, sent[sid].sid = sid
  PROVE  \A e \in Device : SameEnd(sid, e)
<1>. PICK n, s0, p : n = call[d] /\ s0 = sent[n].sid /\ p = Peer(d)
  OBVIOUS
<1>1. /\ n \in Sends /\ n # 0 /\ s0 \in Sends
      /\ \A x \in Sends : Holds(d, x)' <=> Holds(d, x) \/ x = s0
      /\ \A x \in Sends : Holds(p, x)' <=> Holds(p, x)
      /\ session'[d][s0] = draft[d]
      /\ \A x \in Sends : Holds(d, x) /\ x # s0 =>
           session'[d][x] = session[d][x]
      /\ session'[p] = session[p]
      /\ call'[d] = 0 /\ call'[p] = call[p] /\ draft'[p] = draft[p]
      /\ UNCHANGED <<sent, posts, accepted, inbox, incoming, historyVars>>
      /\ s0 # n => Holds(d, s0)
  <2>1. UNCHANGED <<sent, posts, accepted, inbox, incoming, historyVars>> /\ n # 0
    BY DEF SaveSend
  <2>2. s0 # n => Holds(d, s0)
    BY <2>1 DEF Basics, CallsAreLatest
  <2>3. QED
    BY ZenonT(40), <2>1, <2>2, SaveFacts DEF Basics
<1>2. p \in Device /\ p # d /\ \A e \in Device : e = d \/ e = p
  BY Peers
<1>3. \A e \in Device : Coming(e, sid)' = Coming(e, sid)
  BY <1>1 DEF Coming, Towards, Waiting, Repeated, historyVars
<1>4. SameEnd(sid, p)
  BY <1>1, <1>2, <1>3 DEF SameEnd, Working, State, Calls, Pending
<1>5. SameEnd(sid, d)
  <2>1. Working(d, sid)' <=> Working(d, sid)
    BY <1>1, SendFacts DEF Working
  <2>2. Working(d, sid) => State(d, sid)' = State(d, sid)
    <3>1. ~Calls(d, sid)' /\ State(d, sid)' = session'[d][sid]
      BY <1>1 DEF Calls, State
    <3>2. CASE sid = s0
      <4>1. Calls(d, sid)
        BY <1>1, <3>2 DEF Calls
      <4>2. QED
        BY <1>1, <3>1, <3>2, <4>1 DEF State
    <3>3. CASE sid # s0
      BY <1>1, <3>1, <3>3 DEF State, Calls, Working
    <3>4. QED
      BY <3>2, <3>3
  <2>3. ~Pending(sid, d)'
    BY <1>1 DEF Pending, Calls
  <2>4. QED
    BY <1>3, <2>1, <2>2, <2>3 DEF SameEnd
<1>6. QED
  BY <1>2, <1>4, <1>5

(* The last of some sends does not matter to the order of the others.      *)
LEMMA WithoutLast ==
  ASSUME NEW S \in SUBSET Nat, NEW n, IsLast(n, S)
  PROVE  \A a \in S \ {n} :
           /\ IsFirst(a, S \ {n}) <=> IsFirst(a, S)
           /\ \A b \in S \ {n} : Follows(a, b, S \ {n}) <=> Follows(a, b, S)
BY DEF IsLast, IsFirst, Follows

(* The first of some sends does not matter either, but to the second.      *)
LEMMA WithoutFirst ==
  ASSUME NEW S \in SUBSET Nat, NEW n, IsFirst(n, S)
  PROVE  \A a \in S \ {n} :
           /\ IsFirst(a, S \ {n}) <=> Follows(a, n, S)
           /\ IsLast(a, S \ {n}) <=> IsLast(a, S)
           /\ \A b \in S \ {n} : Follows(a, b, S \ {n}) <=> Follows(a, b, S)
BY DEF IsLast, IsFirst, Follows

LEMMA AbandonStep ==
  ASSUME TypeOK, Basics, NEW d \in Device, AbandonSend(d),
         NEW sid \in Sends, sent[sid].sid = sid, sid \in Clean', InStep(sid)
  PROVE  InStep(sid)'
<1>. PICK n, p : n = call[d] /\ p = Peer(d)
  OBVIOUS
<1>1. /\ abandoned' = abandoned \union {n} /\ n # 0
      /\ UNCHANGED <<sent, relayVars, stateVars, crossed, cut, restarts>>
      /\ call'[d] = 0 /\ call'[p] = call[p] /\ draft'[p] = draft[p]
      /\ p \in Device /\ p # d /\ d = Peer(p)
      /\ \A e \in Device : e = d \/ e = p
  <2>1. /\ call' = [call EXCEPT ![d] = 0] /\ draft' = [draft EXCEPT ![d] = NoState]
        /\ abandoned' = abandoned \union {n} /\ n # 0
        /\ UNCHANGED <<sent, relayVars, stateVars, crossed, cut, restarts>>
    BY DEF AbandonSend, EndCall
  <2>2. /\ p \in Device /\ p # d /\ d = Peer(p)
        /\ \A e \in Device : e = d \/ e = p
    BY Peers
  <2>3. QED
    BY <2>1, <2>2 DEF TypeOK
<1>2. /\ n \in Sends /\ n \in Nat /\ sent[n].from = d /\ sent[n].to = p
      /\ n \notin abandoned
      /\ \A m \in Sends : sent[m].from = d => m <= n
      /\ sent[n].sid # n => Holds(d, sent[n].sid)
      /\ sent[n].sid = n => ~Holds(d, n)
  <2>1. n \in Sends /\ n \in Nat
    BY <1>1, SendFacts
  <2>2. /\ sent[n].from = d /\ n \notin abandoned
        /\ \A m \in Sends : sent[m].from = d => m <= n
        /\ sent[n].sid # n => Holds(d, sent[n].sid)
        /\ sent[n].sid = n => active[d] = 0
    BY <1>1 DEF CallsAreLatest, Basics
  <2>3. active[d] = 0 => ~Holds(d, n)
    BY <1>1, <2>1 DEF ActiveIsChosen, Basics, Holds, Contains
  <2>4. sent[n].to = p
    BY <2>1, <2>2 DEF KeysAreFresh, Basics
  <2>5. QED
    BY <2>1, <2>2, <2>3, <2>4
<1>3. \A e \in Device :
        Coming(e, sid)' = IF n \in posts THEN Coming(e, sid) \ {n}
                                         ELSE Coming(e, sid)
  <2>1. ASSUME NEW e \in Device, NEW m
        PROVE  m \in Coming(e, sid)' <=>
                 m \in Coming(e, sid) /\ ~(m = n /\ n \in posts)
    <3>1. n \in posts => \A i \in Waiting(e) : accepted[i] # n
      BY SendFacts DEF QueuesAgree, Basics, Waiting
    <3>2. Waiting(e)' = Waiting(e)
      BY <1>1 DEF Waiting, Repeated, relayVars
    <3>3. QED
      BY <1>1, <3>1, <3>2, ComingMembers DEF relayVars
  <2>2. QED
    BY <2>1
<1>4. \A e, x : Holds(e, x)' <=> Holds(e, x)
  BY <1>1, SameHolds DEF stateVars
<1>5. /\ Working(p, sid)' <=> Working(p, sid)
      /\ State(p, sid)' = State(p, sid)
      /\ Pending(sid, p)' <=> Pending(sid, p)
      /\ call'[p] = call[p] /\ session'[p] = session[p]
  BY <1>1, <1>4 DEF Working, State, Calls, Pending, relayVars, stateVars
<1>6. /\ Working(d, sid)' <=> Holds(d, sid)
      /\ State(d, sid)' = session[d][sid]
      /\ ~Pending(sid, d)'
  BY <1>1, <1>4, SendFacts DEF Working, State, Calls, Pending, stateVars
<1>7. \A m \in Sends : sent'[m] = sent[m]
  BY <1>1
<1>8. CASE sent[n].sid # sid
  <2>1. \A e \in Device : n \notin Coming(e, sid)
    BY <1>8, ComingMembers
  <2>2. \A e \in Device : Coming(e, sid)' = Coming(e, sid)
    BY <1>3, <2>1
  <2>3. /\ Working(d, sid)' <=> Working(d, sid)
        /\ State(d, sid)' = State(d, sid)
    BY <1>6, <1>8 DEF Working, State, Calls
  <2>4. \A e \in Device : SameEnd(sid, e)
    BY <1>1, <1>5, <1>6, <2>2, <2>3 DEF SameEnd
  <2>5. QED
    BY <1>7, <2>4, SameView
<1>9. CASE sent[n].sid = sid
  <2>1. n \in posts
    <3>1. n \notin posts => sid \in Torn'
      BY <1>1, <1>2, <1>9 DEF Torn, relayVars
    <3>2. QED
      BY <3>1 DEF Clean
  <2>2. n \in Coming(p, sid)
    BY <1>2, <1>9, <2>1, ComingMembers
  <2>3. /\ Apart(sid, p) /\ Meets(sid, p) /\ Leads(sid, p) /\ Followed(sid, p)
        /\ Apart(sid, d) /\ Meets(sid, d) /\ Leads(sid, d) /\ Followed(sid, d)
    BY <1>1 DEF InStep
  <2>4. Coming(d, sid) = {} /\ Coming(d, sid)' = {}
        /\ Coming(p, sid)' = Coming(p, sid) \ {n}
    BY <1>1, <1>3, <2>1, <2>2, <2>3 DEF Apart
  <2>5. \A m \in Coming(p, sid) : m \in Sends /\ m \in Nat /\ sent[m].from = d
                                  /\ sent[m].sid = sid
    <3>1. ASSUME NEW m \in Coming(p, sid) PROVE sent[m].to = p
      BY <1>1, <3>1, ComingMembers DEF QueuesAgree, Basics, Waiting
    <3>2. ASSUME NEW m \in Coming(p, sid) PROVE m \in Sends /\ sent[m].sid = sid
      BY <1>1, <3>2, ComingAreSends, ComingMembers
    <3>3. \A m \in Sends : sent[m].from \in Device /\ m \in Nat
      BY SendFacts
    <3>4. \A m \in Sends : sent[m].to = Peer(sent[m].from)
      BY DEF KeysAreFresh, Basics
    <3>5. \A m \in Sends : sent[m].to = p => sent[m].from = d
      BY <1>1, <3>3, <3>4
    <3>6. QED
      BY <3>1, <3>2, <3>3, <3>5
  <2>6. IsLast(n, Coming(p, sid))
    BY <1>2, <2>2, <2>5 DEF IsLast
  <2>7. CASE sid = n
    <3>1. \A m \in Coming(p, sid) : m = n
      <4>1. \A m \in Coming(p, sid) : sent[m].sid <= m
        <5>1. ASSUME NEW m \in Sends PROVE sent[m].sid = m \/ sent[m].sid < m
          BY DEF KeysAreFresh, KeyIsFresh, Basics
        <5>2. QED
          BY <2>5, <5>1, SendFacts
      <4>2. QED
        BY <1>2, <2>5, <2>7, <4>1
    <3>2. Coming(p, sid)' = {}
      BY <2>4, <3>1
    <3>3. Working(d, sid) /\ ~Working(d, sid)'
      BY <1>2, <1>6, <2>7 DEF Working
    <3>4. ~Working(p, sid)'
      BY <1>1, <1>5, <2>2, <2>3, <2>7, <3>3 DEF Meets
    <3>5. \A e \in Device : Coming(e, sid)' = {} /\ ~Working(e, sid)'
      BY <1>1, <2>4, <3>2, <3>3, <3>4
    <3>6. QED
      BY <1>1, <3>5, Peers DEF InStep, Apart, Meets, Leads, Followed
  <2>8. CASE sid # n
    <3>1. Pending(sid, d) /\ Working(d, sid) /\ Working(d, sid)'
      BY <1>1, <1>2, <1>6, <1>9, <2>1, <2>8 DEF Pending, Calls, Working
    <3>2. PICK S, s, t :
            /\ S = Coming(p, sid) \ {n} /\ s = session[d][sid]
            /\ t = State(p, sid)
      OBVIOUS
    <3>3. LeadsBy(s, p, sid, S)
      BY <1>1, <2>3, <2>4, <3>1, <3>2 DEF Leads
    <3>4. /\ Coming(p, sid)' = S /\ Coming(d, sid)' = {}
          /\ State(d, sid)' = s /\ State(p, sid)' = t
          /\ S \subseteq Coming(p, sid)
      BY <1>5, <1>6, <2>4, <3>2
    <3>5. RatchetKey(p, sid)' = RatchetKey(p, sid)
      BY <1>5 DEF RatchetKey
    <3>6. \A e \in Device : Apart(sid, e)'
      BY <1>1, <3>4 DEF Apart
    <3>7. \A e \in Device : Meets(sid, e)'
      <4>1. Meets(sid, d)'
        BY <1>1, <1>5, <2>3, <2>4, <2>8, <3>1 DEF Meets
      <4>2. Meets(sid, p)'
        BY <1>1, <1>5, <2>3, <2>4, <2>8, <3>1 DEF Meets
      <4>3. QED
        BY <1>1, <4>1, <4>2
    <3>8. Leads(sid, d)'
      <4>1. \A m \in S : sent'[m] = sent[m]
        BY <1>7, <2>5, <3>4
      <4>2. State(p, sid)' = State(p, sid)
        BY <1>5
      <4>3. LeadsNext(s, p, sid, S)
        BY <3>3, <3>5, <4>1, <4>2, SameLead
      <4>4. QED
        BY <1>1, <1>6, <3>4, <4>3, LeadsWillBe DEF Leads
    <3>9. Leads(sid, p)'
      <4>1. ASSUME Working(p, sid)', S = {}
            PROVE  LeadsNext(t, d, sid, {})
        <5>1. /\ s.root = t.root /\ s.priv = t.remote
              /\ s.remote = RatchetKey(p, sid)
          BY <3>2, <3>3, <4>1 DEF LeadsBy
        <5>2. RatchetKey(p, sid) = t.priv
          BY <1>5, <3>2, <4>1 DEF RatchetKey
        <5>3. RatchetKey(d, sid)' = s.priv
          BY <3>1, <3>4 DEF RatchetKey
        <5>4. QED
          BY <3>4, <5>1, <5>2, <5>3 DEF LeadsNext
      <4>2. ~Pending(sid, p)
        <5>1. ASSUME Pending(sid, p) PROVE call[p] \in Coming(d, sid)
          <6>1. /\ call[p] \in Sends /\ call[p] \in posts
                /\ call[p] \notin abandoned /\ sent[call[p]].sid = sid
                /\ sent[call[p]].from = p
            BY <1>1, <5>1, PendingIsLater
          <6>2. sent[call[p]].to = d
            BY <1>1, <6>1 DEF KeysAreFresh, Basics
          <6>3. QED
            BY <6>1, <6>2, ComingMembers
        <5>2. QED
          BY <2>4, <5>1
      <4>3. QED
        BY <1>1, <1>5, <3>4, <4>1, <4>2, LeadsWillBe DEF Leads
    <3>10. Followed(sid, d)'
      BY <3>4 DEF Followed
    <3>11. Followed(sid, p)'
      <4>1. \A a \in S :
              /\ IsFirst(a, S) => IsFirst(a, Coming(p, sid))
              /\ \A b \in S : Follows(a, b, S) => Follows(a, b, Coming(p, sid))
        BY <2>5, <2>6, <3>2, WithoutLast
      <4>2. \A m \in S : sent'[m] = sent[m]
        BY <1>7, <2>5, <3>4
      <4>3. \A a \in S : \A b \in S : Follows(a, b, S) =>
              OneStep(sent[b].key.root, a, p, sid)
        BY <2>3, <3>4, <4>1 DEF Followed
      <4>4. \A a \in S : IsFirst(a, S) =>
              IF Working(p, sid) THEN OneStep(t.root, a, p, sid) ELSE a = sid
        BY <2>3, <3>2, <3>4, <4>1 DEF Followed
      <4>5. \A a \in S : Working(p, sid) => t.remote # a
        BY <2>3, <3>2, <3>4 DEF Followed
      <4>6. QED
        BY <1>5, <3>4, <3>5, <4>2, <4>3, <4>4, <4>5
           DEF Followed, OneStep, IsFirst, Follows
    <3>12. QED
      BY <1>1, <3>6, <3>7, <3>8, <3>9, <3>10, <3>11 DEF InStep
  <2>9. QED
    BY <2>7, <2>8
<1>10. QED
  BY <1>8, <1>9

(* A first copy at the head of a queue is the first of its session on its  *)
(* way.                                                                    *)
LEMMA HeadIsFirst ==
  ASSUME TypeOK, Basics, WaitInOrder, NEW d \in Device, NEW i \in Waiting(d),
         IsHead(d, i), sent[accepted[i]].sid \in Clean
  PROVE  IsFirst(accepted[i], Coming(d, sent[accepted[i]].sid))
<1>. PICK n, sid : n = accepted[i] /\ sid = sent[n].sid
  OBVIOUS
<1>1. /\ n \in Sends /\ n \in Nat /\ i \in Nat /\ sid \in Clean
      /\ sent[n].to = d /\ n \in Coming(d, sid)
      /\ \A j \in Waiting(d) : j \in Nat /\ i <= j
  <2>1. /\ i \in inbox[d]
        /\ \A j \in Waiting(d) : j \in inbox[d] /\ i <= j
    BY DEF Waiting, IsHead
  <2>2. n \in Coming(d, sid)
    BY ComingMembers
  <2>3. QED
    BY <2>1, <2>2, SendFacts DEF QueuesAgree, Basics
<1>2. ASSUME NEW m \in Coming(d, sid) PROVE n <= m
  <2>1. m \in Sends /\ m \in Nat /\ sent[m].sid = sid
    BY ComingAreSends, ComingMembers, SendFacts
  <2>2. CASE \E j \in Waiting(d) : accepted[j] = m
    <3>1. PICK j \in Waiting(d) : accepted[j] = m
      BY <2>2
    <3>2. j = i \/ i < j
      BY <1>1
    <3>3. i < j => n < m
      BY <1>1, <2>1, <3>1 DEF WaitInOrder
    <3>4. QED
      BY <1>1, <2>1, <3>1, <3>2, <3>3
  <2>3. CASE m \in posts /\ m \notin abandoned /\ sent[m].to = d
    <3>1. /\ call[sent[m].from] = m /\ sent[m].from \in Device /\ m # 0
          /\ sent[n].from \in Device
      BY <1>1, <2>1, <2>3, SendFacts DEF PostsAreCalls, Basics
    <3>2. sent[n].to = Peer(sent[n].from) /\ sent[m].to = Peer(sent[m].from)
      BY <1>1, <2>1 DEF KeysAreFresh, Basics
    <3>3. sent[n].from = sent[m].from
      BY <1>1, <2>3, <3>1, <3>2, Peers
    <3>4. QED
      BY <1>1, <3>1, <3>3 DEF CallsAreLatest, Basics
  <2>4. QED
    BY <2>2, <2>3, ComingMembers
<1>3. QED
  BY <1>1, <1>2 DEF IsFirst

(* A first copy of a clean session opens, and leads its receiver to the    *)
(* root it was encrypted with.                                             *)
HeadLeads(d, n) ==
  LET e == sent[n]
      t == AfterReceive(ReceivingState(d, e))
  IN  /\ Opens(d, e)
      /\ t.root = e.key.root
      /\ t.remote = n
      /\ t.priv = RatchetKey(d, e.sid)
      /\ t.receive.index = 1
      /\ Holds(d, e.sid) => Len(session[d][e.sid].root) <= Len(t.root)

LEMMA HeadFacts ==
  ASSUME TypeOK, Basics, WaitInOrder, NEW d \in Device, NEW i \in Waiting(d),
         IsHead(d, i), call[d] = 0, sent[accepted[i]].sid \in Clean,
         InStep(sent[accepted[i]].sid)
  PROVE  HeadLeads(d, accepted[i])
<1>. PICK n, sid, k : n = accepted[i] /\ sid = sent[n].sid /\ k = RatchetKey(d, sid)
  OBVIOUS
<1>1. /\ n \in Sends /\ sid \in Sends /\ sid # 0 /\ n \in Coming(d, sid)
      /\ IsFirst(n, Coming(d, sid)) /\ Followed(sid, d)
      /\ sent[n].rpub = n /\ sent[n].to = d /\ KeyIsFresh(n)
  <2>1. n \in Sends /\ sid \in Sends /\ sid # 0
    BY SendFacts DEF Waiting
  <2>2. IsFirst(n, Coming(d, sid)) /\ Followed(sid, d)
    BY HeadIsFirst DEF InStep
  <2>3. sent[n].to = d
    BY DEF QueuesAgree, Basics, Waiting
  <2>4. sent[n].rpub = n /\ KeyIsFresh(n)
    BY <2>1 DEF KeysAreFresh, Basics
  <2>5. QED
    BY <2>1, <2>2, <2>3, <2>4 DEF IsFirst
<1>2. n \in KeyIds /\ d \in KeyIds
  BY <1>1 DEF KeyIds
<1>3. CASE Holds(d, sid)
  <2>1. PICK s : s = session[d][sid]
    OBVIOUS
  <2>2. /\ s \in StatesOver(KeyIds) /\ s.ratchet
        /\ State(d, sid) = s /\ Working(d, sid) /\ k = s.priv
    <3>1. State(d, sid) = s /\ Working(d, sid) /\ k = s.priv
      BY <1>1, <1>3, <2>1 DEF State, Calls, Working, RatchetKey
    <3>2. session[d] \in [{x \in Sends : Holds(d, x)} -> States]
      BY DEF TypeOK
    <3>3. s \in States
      BY <1>1, <1>3, <2>1, <3>2
    <3>4. s.ratchet
      BY <1>1, <1>3, <2>1 DEF StatesRatchet, Basics
    <3>5. QED
      BY <3>1, <3>3, <3>4, StatesAre
  <2>3. s.remote # n /\ OneStep(s.root, n, d, sid)
    BY <1>1, <2>2 DEF Followed
  <2>4. /\ s.root \in RootsOver(KeyIds) /\ s.priv \in KeyIds
    BY <2>2 DEF StatesOver
  <2>5. /\ ReceiveState(s, n).receive
              = ChainKey(RatchetRoot(s.root, s.priv, n), "ratchet")
        /\ AfterReceive(ReceiveState(s, n)).root
              = RatchetRoot(s.root, s.priv, n)
        /\ AfterReceive(ReceiveState(s, n)).priv = s.priv
        /\ AfterReceive(ReceiveState(s, n)).remote = n
        /\ AfterReceive(ReceiveState(s, n)).receive.index = 1
    <3>1. s \in StatesOver(KeyIds) /\ n \in KeyIds /\ s.ratchet /\ n # s.remote
      BY <1>2, <2>2, <2>3
    <3>2. QED
      BY <3>1, ReceiveFieldsHere
  <2>. DEFINE root == RatchetRoot(s.root, s.priv, n)
              t == ReceiveState(s, n)
  <2>6. /\ root = RatchetRoot(s.root, n, s.priv)
        /\ Len(s.root) <= Len(root)
    <3>1. /\ RatchetRoot(s.root, s.priv, n) = RatchetRoot(s.root, n, s.priv)
          /\ Len(RatchetRoot(s.root, s.priv, n)) = Len(s.root) + 1
          /\ Len(s.root) \in Nat
      BY SMTT(30), <1>2, <2>4, RootGrows
    <3>2. QED
      BY <3>1
  <2>7. /\ t.receive = ChainKey(root, "ratchet")
        /\ AfterReceive(t).root = root
        /\ AfterReceive(t).priv = s.priv
        /\ AfterReceive(t).remote = n
        /\ AfterReceive(t).receive.index = 1
    BY <2>5
  <2>8. sent[n].key = ChainKey(root, "ratchet")
    BY <2>2, <2>3, <2>6 DEF OneStep
  <2>9. ReceivingState(d, sent[n]) = t
    BY <1>1, <1>3, <2>1 DEF ReceivingState
  <2>. HIDE DEF root, t
  <2>10. sent[n].key.root = root
    BY <2>8 DEF ChainKey
  <2>11. QED
    BY <1>3, <2>1, <2>2, <2>6, <2>7, <2>8, <2>9, <2>10
       DEF HeadLeads, Opens, MessageKey
<1>4. CASE ~Holds(d, sid)
  <2>1. ~Working(d, sid)
    BY <1>1, <1>4 DEF Working
  <2>2. n = sid /\ k = d
    BY <1>1, <2>1 DEF Followed, RatchetKey
  <2>. DEFINE root == FirstRoot(n, d)
              t == ReceiveState(ResponderState(n, d, n), n)
  <2>3. sent[n].key = ChainKey(root, "initiator")
    <3>1. n \in Nat
      BY <1>1, SendFacts
    <3>2. ~(n < n)
      BY <3>1
    <3>3. sent[n].sid = n
      BY <2>2
    <3>4. QED
      BY <1>1, <3>2, <3>3 DEF KeyIsFresh
  <2>4. /\ t.receive = ChainKey(root, "initiator")
        /\ AfterReceive(t).root = root
        /\ AfterReceive(t).priv = d
        /\ AfterReceive(t).remote = n
        /\ AfterReceive(t).receive.index = 1
    <3>1. LET u == ReceiveState(ResponderState(n, d, n), n) IN
          /\ u.receive = ChainKey(FirstRoot(n, d), "initiator")
          /\ AfterReceive(u).root = FirstRoot(n, d)
          /\ AfterReceive(u).priv = d
          /\ AfterReceive(u).remote = n
          /\ AfterReceive(u).receive.index = 1
      BY ONLY <1>2, FirstReceiveFields
    <3>2. QED
      BY <3>1
  <2>5. ReceivingState(d, sent[n]) = t
    BY <1>1, <1>4, <2>2 DEF ReceivingState
  <2>. HIDE DEF root, t
  <2>6. sent[n].key.root = root
    BY <2>3 DEF ChainKey
  <2>7. Initiator(sid) = sent[n].from
    BY <2>2 DEF Initiator
  <2>8. QED
    BY <1>4, <2>2, <2>3, <2>4, <2>5, <2>6, <2>7 DEF HeadLeads, Opens, MessageKey
<1>5. QED
  BY <1>3, <1>4

(* A second copy at the head of a queue, of a clean session, does not      *)
(* open: the device received the first one and is past it.                 *)
LEMMA RepeatsStayShut ==
  ASSUME TypeOK, Basics, ReceivedAreSpent, NEW d \in Device,
         NEW i \in Repeated, IsHead(d, i), sent[accepted[i]].sid \in Clean
  PROVE  ~Opens(d, sent[accepted[i]])
<1>. PICK n, e : n = accepted[i] /\ e = sent[n]
  OBVIOUS
<1>1. PICK j \in DOMAIN accepted \ Repeated : j < i /\ accepted[j] = n
  BY DEF QueuesAgree, Basics
<1>2. /\ n \in Sends /\ e.sid \in Sends /\ e.to = d /\ e.rpub = n
      /\ KeyIsFresh(n)
  <2>1. i \in inbox[d]
    BY DEF IsHead
  <2>2. n \in Sends /\ e.sid \in Sends /\ e.to = d
    BY <2>1, SendFacts DEF QueuesAgree, Basics
  <2>3. e.rpub = n /\ KeyIsFresh(n)
    BY <2>2 DEF KeysAreFresh, Basics
  <2>4. QED
    BY <2>2, <2>3
<1>3. j \notin inbox[d]
  <2>1. j \in Nat /\ i \in Nat
    BY <1>1 DEF TypeOK, Repeated
  <2>2. \A k \in inbox[d] : i <= k
    BY DEF IsHead
  <2>3. QED
    BY <1>1, <2>1, <2>2
<1>. PICK s : s = session[d][e.sid]
  OBVIOUS
<1>4. Holds(d, e.sid) /\ Spent(s, e)
  BY <1>1, <1>2, <1>3 DEF ReceivedAreSpent, IsPast
<1>5. s \in StatesOver(KeyIds) /\ s.ratchet
  <2>1. session[d] \in [{x \in Sends : Holds(d, x)} -> States]
    BY DEF TypeOK
  <2>2. s \in States
    BY <1>2, <1>4, <2>1
  <2>3. s.ratchet
    BY <1>2, <1>4 DEF StatesRatchet, Basics
  <2>4. QED
    BY <2>2, <2>3, StatesAre
<1>6. ReceivingState(d, e) = ReceiveState(s, n)
  BY <1>2, <1>4 DEF ReceivingState
<1>7. CASE n = s.remote
  <2>1. s.receive.index > 0
    BY <1>2, <1>4, <1>7 DEF Spent
  <2>2. e.key.index = 0
    BY <1>2 DEF KeyIsFresh, ChainKey
  <2>3. ReceiveState(s, n) = s
    BY <1>7 DEF ReceiveState
  <2>4. s.receive # e.key
    BY <2>1, <2>2
  <2>5. QED
    BY <1>6, <2>3, <2>4 DEF Opens, MessageKey
<1>8. CASE n # s.remote
  <2>1. n \in KeyIds
    BY <1>2 DEF KeyIds
  <2>. DEFINE root == RatchetRoot(s.root, s.priv, n)
  <2>2. ReceiveState(s, n).receive = ChainKey(root, "ratchet")
    BY <1>5, <1>8, <2>1, ReceiveFieldsHere
  <2>3. /\ s.root \in RootsOver(KeyIds) /\ s.priv \in KeyIds
    BY <1>5 DEF StatesOver
  <2>4. Len(s.root) \in Nat /\ Len(root) = Len(s.root) + 1
    BY SMTT(30), <2>1, <2>3, RootGrows
  <2>5. Len(e.key.root) <= Len(s.root)
    BY <1>4 DEF Spent
  <2>. HIDE DEF root
  <2>6. e.key.root # root
    BY SMTT(30), <2>4, <2>5
  <2>7. ChainKey(root, "ratchet").root = root
    BY DEF ChainKey
  <2>8. QED
    BY <1>6, <2>2, <2>6, <2>7 DEF Opens, MessageKey
<1>9. QED
  BY <1>7, <1>8

LEMMA DecryptStep ==
  ASSUME TypeOK, Basics, WaitInOrder, ReceivedAreSpent,
         NEW d \in Device, NEW i \in inbox[d], Decrypt(d, i), NEW sid \in Sends, sid \in Clean, InStep(sid)
  PROVE  InStep(sid)'
<1>. PICK n, p, s0 : n = accepted[i] /\ p = Peer(d) /\ s0 = sent[n].sid
  OBVIOUS
<1>. PICK t : t = AfterReceive(ReceivingState(d, sent[n]))
  OBVIOUS
<1>1. /\ n \in Sends /\ s0 \in Sends
      /\ sent[n].to = d /\ sent[n].from = p
      /\ call[d] = 0
      /\ IsHead(d, i)
      /\ session'[d][s0] = t
      /\ \A x \in Sends : Holds(d, x) /\ x # s0 =>
           session'[d][x] = session[d][x]
      /\ session'[p] = session[p]
      /\ \A x : Holds(d, x)' <=> Holds(d, x) \/ x = s0
      /\ \A x : Holds(p, x)' <=> Holds(p, x)
      /\ inbox'[d] = inbox[d] \ {i} /\ inbox'[p] = inbox[p]
      /\ UNCHANGED <<sent, posts, forgotten, accepted, callVars, outgoing,
                     historyVars>>
  <2>1. Received(d, i)
    BY DecryptFacts DEF Basics
  <2>2. QED
    BY <2>1 DEF Received
<1>2. /\ p \in Device /\ p # d /\ d = Peer(p)
      /\ \A e \in Device : e = d \/ e = p
      /\ n \in Nat /\ sid # 0 /\ sent[sid].sid = sid
  BY <1>1, Peers, SendFacts DEF Clean
<1>3. /\ Coming(p, sid)' = Coming(p, sid)
      /\ Coming(d, sid)' = Coming(d, sid) \ {n}
  <2>1. ASSUME NEW m PROVE m \in Coming(p, sid)' <=> m \in Coming(p, sid)
    <3>1. Waiting(p)' = Waiting(p)
      BY <1>1 DEF Waiting, Repeated
    <3>2. QED
      BY <1>1, <3>1, ComingMembers DEF historyVars
  <2>2. ASSUME NEW m PROVE m \in Coming(d, sid)' <=> m \in Coming(d, sid) \ {n}
    <3>1. \A j \in Waiting(d) : accepted[j] = n => j = i
      <4>1. ASSUME NEW j \in Waiting(d), accepted[j] = n, j # i PROVE FALSE
        <5>1. /\ i \in DOMAIN accepted /\ j \in DOMAIN accepted
              /\ i \in Nat /\ j \in Nat /\ i <= j
          BY <1>1, SendFacts DEF Waiting, IsHead
        <5>2. i < j
          BY <4>1, <5>1
        <5>3. j \in Repeated
          BY <4>1, <5>1, <5>2 DEF Repeated
        <5>4. QED
          BY <5>3 DEF Waiting
      <4>2. QED
        BY <4>1
    <3>2. n \notin posts
      BY SendFacts DEF QueuesAgree, Basics
    <3>3. Waiting(d)' = Waiting(d) \ {i}
      BY <1>1 DEF Waiting, Repeated
    <3>4. (\E j \in Waiting(d)' : accepted'[j] = m) <=>
             (\E j \in Waiting(d) : accepted[j] = m) /\ m # n
      BY <1>1, <3>1, <3>3
    <3>5. QED
      BY <1>1, <3>2, <3>4, ComingMembers DEF historyVars
  <2>3. QED
    BY <2>1, <2>2
<1>4. /\ Working(p, sid)' <=> Working(p, sid)
      /\ State(p, sid)' = State(p, sid)
      /\ Pending(sid, p)' <=> Pending(sid, p)
      /\ call'[p] = call[p] /\ session'[p] = session[p]
  BY <1>1 DEF Working, State, Calls, Pending, callVars
<1>5. /\ Working(d, sid)' <=> Holds(d, sid) \/ sid = s0
      /\ Working(d, sid) <=> Holds(d, sid)
      /\ State(d, sid)' = session'[d][sid]
      /\ State(d, sid) = session[d][sid]
      /\ ~Pending(sid, d)'
  BY <1>1, <1>2 DEF Working, State, Calls, Pending, callVars
<1>6. \A m \in Sends : sent'[m] = sent[m]
  BY <1>1
<1>7. CASE sid # s0
  <2>1. n \notin Coming(d, sid)
    BY <1>7, ComingMembers
  <2>2. Coming(d, sid)' = Coming(d, sid)
    BY <1>3, <2>1
  <2>3. Working(d, sid) => State(d, sid)' = State(d, sid)
    BY <1>1, <1>5, <1>7
  <2>4. SameEnd(sid, d)
    BY <1>5, <1>7, <2>2, <2>3 DEF SameEnd
  <2>5. SameEnd(sid, p)
    BY <1>3, <1>4 DEF SameEnd
  <2>6. QED
    BY <1>2, <1>6, <2>4, <2>5, SameView
<1>8. CASE sid = s0
  <2>1. /\ IsFirst(n, Coming(d, sid))
        /\ t.root = sent[n].key.root /\ t.remote = n
        /\ t.priv = RatchetKey(d, sid)
    <3>1. i \in Waiting(d)
      <4>1. i \in Repeated => ~Opens(d, sent[n])
        BY <1>1, <1>8, RepeatsStayShut
      <4>2. Opens(d, sent[n])
        BY DEF Decrypt
      <4>3. QED
        BY <4>1, <4>2 DEF Waiting
    <3>2. HeadLeads(d, n)
      BY <1>1, <1>8, <3>1, HeadFacts
    <3>3. QED
      BY <1>1, <1>8, <3>1, <3>2, HeadIsFirst DEF HeadLeads
  <2>2. /\ Apart(sid, p) /\ Meets(sid, p) /\ Leads(sid, p) /\ Followed(sid, p)
        /\ Apart(sid, d) /\ Meets(sid, d) /\ Leads(sid, d) /\ Followed(sid, d)
    BY <1>2 DEF InStep
  <2>. PICK C, S, sp :
         C = Coming(d, sid) /\ S = C \ {n} /\ sp = State(p, sid)
    OBVIOUS
  <2>3. /\ n \in C /\ Coming(p, sid) = {} /\ Coming(p, sid)' = {}
        /\ Coming(d, sid)' = S /\ S \subseteq C
        /\ Working(p, sid) /\ Working(p, sid)' /\ Working(d, sid)'
        /\ State(d, sid)' = t /\ State(p, sid)' = sp
    BY <1>1, <1>2, <1>3, <1>4, <1>5, <1>8, <2>1, <2>2 DEF Apart, Meets, IsFirst
  <2>4. /\ RatchetKey(d, sid)' = RatchetKey(d, sid)
        /\ RatchetKey(p, sid)' = sp.priv
        /\ RatchetKey(p, sid) = sp.priv
    BY <2>1, <2>3 DEF RatchetKey
  <2>5. \A m \in C : m \in Sends /\ m \in Nat
    BY ComingAreSends, SendFacts
  <2>6. \A a \in S :
          /\ IsFirst(a, S) => Follows(a, n, C)
          /\ IsLast(a, S) => IsLast(a, C)
          /\ \A b \in S : Follows(a, b, S) => Follows(a, b, C)
    BY <2>1, <2>5, WithoutFirst
  <2>7. Apart(sid, d)' /\ Apart(sid, p)'
    BY <1>2, <2>3 DEF Apart
  <2>8. Meets(sid, d)' /\ Meets(sid, p)'
    <3>1. ~Working(d, sid) => n = sid
      BY <2>1, <2>2 DEF Followed, IsFirst
    <3>2. sid \notin S
      BY <2>2, <2>3, <3>1 DEF Meets
    <3>3. Meets(sid, d)'
      BY <1>2, <2>3, <3>2 DEF Meets
    <3>4. Meets(sid, p)'
      BY <1>2, <2>3, <3>2 DEF Meets
    <3>5. QED
      BY <3>3, <3>4
  <2>9. Leads(sid, p)'
    <3>1. LeadsBy(sp, d, sid, C)
      BY <1>2, <2>2, <2>3 DEF Leads
    <3>2. ASSUME NEW s, NEW D, D \subseteq C, n \in D, LeadsBy(s, d, sid, D)
          PROVE  LeadsNext(s, d, sid, D \ {n})
      <4>1. /\ \A m \in D : IsLast(m, D) => s.root = sent[m].key.root /\ s.priv = m
            /\ s.remote = RatchetKey(d, sid)
        BY <3>2 DEF LeadsBy
      <4>2. IsFirst(n, D) /\ D \in SUBSET Nat
        BY <2>1, <2>5, <3>2 DEF IsFirst
      <4>3. \A m \in D \ {n} : IsLast(m, D \ {n}) => IsLast(m, D)
        BY <4>2, WithoutFirst
      <4>4. D \ {n} = {} => IsLast(n, D)
        BY <2>5, <3>2 DEF IsLast
      <4>5. D \ {n} = {} => s.root = t.root /\ s.priv = t.remote
        BY <2>1, <3>2, <4>1, <4>4
      <4>6. \A m \in D \ {n} : IsLast(m, D \ {n}) =>
              s.root = sent'[m].key.root /\ s.priv = m
        BY <1>1, <4>1, <4>3
      <4>7. QED
        BY <2>3, <2>4, <4>1, <4>5, <4>6 DEF LeadsNext
    <3>3. LeadsNext(sp, d, sid, S)
      BY <2>3, <3>1, <3>2
    <3>4. ASSUME Pending(sid, p)
          PROVE  LeadsNext(session'[p][sid], d, sid, S \ {call'[p]})
      <4>1. PICK c, D, u : c = call[p] /\ D = C \ {c} /\ u = session[p][sid]
        OBVIOUS
      <4>2. c \in posts
        BY <3>4, <4>1 DEF Pending
      <4>3. n # c
        BY <4>2, SendFacts DEF QueuesAgree, Basics
      <4>4. LeadsBy(u, d, sid, D)
        BY <1>2, <2>2, <2>3, <3>4, <4>1 DEF Leads
      <4>5. D \subseteq C /\ n \in D /\ D \ {n} = S \ {c}
        BY <2>3, <4>1, <4>3
      <4>6. LeadsNext(u, d, sid, D \ {n})
        BY <3>2, <4>4, <4>5
      <4>7. QED
        BY <1>4, <4>1, <4>5, <4>6
    <3>5. QED
      BY <1>2, <1>4, <2>3, <3>3, <3>4, LeadsWillBe DEF Leads
  <2>10. Leads(sid, d)'
    <3>1. ASSUME S = {} PROVE LeadsNext(t, p, sid, {})
      <4>1. LeadsBy(sp, d, sid, C)
        BY <1>2, <2>2, <2>3 DEF Leads
      <4>2. IsLast(n, C)
        BY <2>3, <2>5, <3>1 DEF IsLast
      <4>3. sp.root = sent[n].key.root /\ sp.priv = n
            /\ sp.remote = RatchetKey(d, sid)
        BY <2>3, <4>1, <4>2 DEF LeadsBy
      <4>4. QED
        BY <2>1, <2>3, <2>4, <4>3 DEF LeadsNext
    <3>2. QED
      BY <1>2, <1>5, <2>3, <3>1, LeadsWillBe DEF Leads
  <2>11. Followed(sid, d)'
    <3>1. \A m \in S : sent'[m] = sent[m]
      BY <1>1
    <3>2. \A a \in S : \A b \in S : Follows(a, b, S) =>
            OneStep(sent[b].key.root, a, d, sid)
      BY <2>2, <2>3, <2>6 DEF Followed
    <3>3. \A a \in S : IsFirst(a, S) => OneStep(t.root, a, d, sid)
      BY <2>1, <2>2, <2>3, <2>6 DEF Followed
    <3>4. \A a \in S : t.remote # a
      BY <2>1
    <3>5. QED
      BY <2>3, <2>4, <3>1, <3>2, <3>3, <3>4 DEF Followed, OneStep, IsFirst, Follows
  <2>12. Followed(sid, p)'
    BY <2>3 DEF Followed
  <2>13. QED
    BY <1>2, <2>7, <2>8, <2>9, <2>10, <2>11, <2>12 DEF InStep
<1>9. QED
  BY <1>7, <1>8

(* The sends a new one joins come before it.                               *)
LEMMA WithLater ==
  ASSUME NEW S \in SUBSET Nat, NEW n \in Nat, \A m \in S : m < n
  PROVE  /\ \A a \in S \union {n} : IsLast(a, S \union {n}) => a = n
         /\ \A a \in S : IsFirst(a, S \union {n}) => IsFirst(a, S)
         /\ \A a, b \in S : Follows(a, b, S \union {n}) => Follows(a, b, S)
         /\ \A b \in S : Follows(n, b, S \union {n}) => IsLast(b, S)
         /\ \A a \in S \union {n} : ~Follows(a, n, S \union {n})
         /\ IsFirst(n, S \union {n}) => S = {}
<1>1. /\ \A m \in S : m \in Nat /\ n \in Nat /\ m < n /\ ~(n < m) /\ ~(n <= m)
      /\ \A a, b \in S : a <= b \/ b < a
  OBVIOUS
<1>2. \A a \in S \union {n} : IsLast(a, S \union {n}) => a = n
  BY <1>1 DEF IsLast
<1>3. \A a \in S : IsFirst(a, S \union {n}) => IsFirst(a, S)
  BY DEF IsFirst
<1>4. \A a, b \in S : Follows(a, b, S \union {n}) => Follows(a, b, S)
  BY DEF Follows
<1>5. \A b \in S : Follows(n, b, S \union {n}) => IsLast(b, S)
  BY <1>1 DEF Follows, IsLast
<1>6. \A a \in S \union {n} : ~Follows(a, n, S \union {n})
  BY <1>1 DEF Follows
<1>7. IsFirst(n, S \union {n}) => S = {}
  BY <1>1 DEF IsFirst
<1>8. QED
  BY <1>2, <1>3, <1>4, <1>5, <1>6, <1>7

LEMMA EncryptStep ==
  ASSUME TypeOK, Basics, NEW d \in Device, Encrypt(d), NEW sid \in Clean',
         sid \in Sends => sid \in Clean /\ InStep(sid)
  PROVE  InStep(sid)'
<1>. PICK n, p, s : n = Len(sent) + 1 /\ p = Peer(d) /\ s = session[d][active[d]]
  OBVIOUS
<1>1. /\ n \in Sends' /\ n \notin Sends /\ n # 0 /\ n \in Nat /\ n \notin Device
      /\ Sends' = Sends \union {n}
      /\ \A m \in Sends : sent'[m] = sent[m] /\ m < n /\ m \in Nat
      /\ sent'[n].from = d
      /\ sent'[n].to = p
      /\ sent'[n].sid = IF active[d] = 0 THEN n ELSE active[d]
      /\ sent'[n].key = KeyOf(d, n)
      /\ posts' = posts \union {n}
      /\ call[d] = 0 /\ call'[d] = n /\ call'[p] = call[p]
      /\ draft'[d].priv = n
      /\ draft'[d].remote = IF active[d] = 0 THEN p ELSE s.remote
      /\ draft'[d].root = sent'[n].key.root
      /\ draft'[p] = draft[p]
      /\ active[d] # 0 => Holds(d, active[d]) /\ active[d] \in Sends
  <2>1. /\ n \in Sends' /\ n \notin Sends /\ n # 0 /\ n \in Nat /\ n \notin Device
        /\ Sends' = Sends \union {n}
        /\ \A m \in Sends : sent'[m] = sent[m] /\ m < n /\ m \in Nat
        /\ sent'[n].from = d
        /\ sent'[n].to = p
        /\ sent'[n].sid = IF active[d] = 0 THEN n ELSE active[d]
        /\ sent'[n].key = KeyOf(d, n)
        /\ posts' = posts \union {n}
        /\ call[d] = 0 /\ call'[d] = n /\ call'[p] = call[p]
        /\ draft'[d].priv = n
        /\ draft'[d].remote = IF active[d] = 0 THEN p ELSE s.remote
        /\ draft'[d].root = sent'[n].key.root
        /\ draft'[p] = draft[p]
    BY EncryptFacts DEF Basics
  <2>2. active[d] # 0 => Holds(d, active[d]) /\ active[d] \in Sends
    BY DEF TypeOK, ActiveIsHeld, Basics
  <2>3. QED
    BY <2>1, <2>2
<1>2. UNCHANGED <<forgotten, accepted, inbox, stateVars, abandoned, cut,
                  restarts>>
  BY DEF Encrypt
<1>3. /\ p \in Device /\ p # d /\ d = Peer(p)
      /\ \A e \in Device : e = d \/ e = p
  BY Peers
<1>. PICK s0 : s0 = sent'[n].sid
  OBVIOUS
<1>4. \A e \in Device : ~Holds(e, n)
  BY <1>1, HeldAreSends
<1>5. /\ Coming(d, sid)' = Coming(d, sid)
      /\ Coming(p, sid)' = IF sid = s0 THEN Coming(p, sid) \union {n}
                                       ELSE Coming(p, sid)
      /\ \A e \in Device : \A m \in Coming(e, sid) :
           m \in Sends /\ m \in Nat /\ m < n /\ sent'[m] = sent[m]
  <2>1. \A e \in Device : \A m \in Coming(e, sid) :
           m \in Sends /\ m \in Nat /\ m < n /\ sent'[m] = sent[m]
    BY <1>1, ComingAreSends
  <2>2. \A e \in Device : /\ Waiting(e)' = Waiting(e)
                          /\ \A i \in Waiting(e) : accepted[i] \in Sends
    BY <1>2, SendFacts DEF Waiting, Repeated
  <2>3. /\ n \notin abandoned /\ posts \subseteq Sends
    BY <1>1, SendFacts
  <2>4. ASSUME NEW e \in Device, NEW m
        PROVE  m \in Coming(e, sid)' <=>
                 m \in Coming(e, sid) \/ (m = n /\ e = p /\ sid = s0)
    <3>1. CASE m = n
      <4>1. m \notin Coming(e, sid)
        BY <1>1, <3>1, ComingAreSends
      <4>2. ~\E i \in Waiting(e)' : accepted'[i] = n
        BY <1>1, <1>2, <2>2
      <4>3. n \in Coming(e, sid)' <=> sent'[n].to = e /\ sent'[n].sid = sid
        BY <1>1, <1>2, <2>3, <4>2, ComingMembers
      <4>4. QED
        BY <1>1, <3>1, <4>1, <4>3
    <3>2. CASE m # n
      <4>1. CASE m \in Sends
        BY <1>1, <1>2, <2>2, <3>2, <4>1, ComingMembers
      <4>2. CASE m \notin Sends
        <5>1. m \notin Coming(e, sid)
          BY <4>2, ComingAreSends
        <5>2. m \notin Coming(e, sid)'
          <6>1. m \notin posts'
            BY <1>1, <2>3, <3>2, <4>2
          <6>2. ~\E i \in Waiting(e)' : accepted'[i] = m
            BY <1>2, <2>2, <4>2
          <6>3. QED
            BY <6>1, <6>2, ComingMembers
        <5>3. QED
          BY <3>2, <5>1, <5>2
      <4>3. QED
        BY <4>1, <4>2
    <3>3. QED
      BY <3>1, <3>2
  <2>5. QED
    BY <1>3, <2>1, <2>4
<1>6. \A e, x : Holds(e, x)' <=> Holds(e, x)
  BY <1>2, SameHolds DEF stateVars
<1>7. sid \in Sends =>
        /\ Working(p, sid)' <=> Working(p, sid)
        /\ State(p, sid)' = State(p, sid)
        /\ Pending(sid, p)' <=> Pending(sid, p)
        /\ call'[p] = call[p] /\ session'[p] = session[p]
        /\ Working(d, sid)' <=> Working(d, sid)
  <2>1. /\ session'[p] = session[p] /\ \A x \in Sends : x # n /\ x # 0
    BY <1>1, <1>2, SendFacts DEF stateVars
  <2>2. call[p] # 0 => call[p] \in Sends /\ sent'[call[p]] = sent[call[p]]
                       /\ call[p] # n
    BY ZenonT(40), <1>1, <1>3, SendFacts
  <2>3. Calls(p, sid)' <=> Calls(p, sid)
    BY <1>1, <2>2 DEF Calls
  <2>4. State(p, sid)' = State(p, sid)
    BY <1>1, <2>1, <2>3 DEF State
  <2>5. Pending(sid, p)' <=> Pending(sid, p)
    BY <1>1, <1>6, <2>2, <2>3 DEF Pending, Calls
  <2>6. sid \in Sends => /\ Working(p, sid)' <=> Working(p, sid)
                         /\ Working(d, sid)' <=> Working(d, sid)
    BY <1>1, <1>6, <2>1 DEF Working
  <2>7. QED
    BY <1>1, <2>1, <2>4, <2>5, <2>6
<1>8. \A m \in Sends : sent'[m] = sent[m]
  BY <1>1
<1>9. CASE sid \in Sends /\ sid # s0
  <2>1. /\ ~Calls(d, sid)' /\ ~Calls(d, sid)
    BY <1>1, <1>9 DEF Calls
  <2>2. SameEnd(sid, d)
    <3>1. State(d, sid)' = State(d, sid)
      BY <1>2, <2>1 DEF State, stateVars
    <3>2. QED
      BY <1>5, <1>7, <1>9, <2>1, <3>1 DEF SameEnd, Pending
  <2>3. SameEnd(sid, p)
    BY <1>3, <1>5, <1>7, <1>9 DEF SameEnd
  <2>4. QED
    BY <1>3, <1>8, <1>9, <2>2, <2>3, SameView
<1>10. CASE sid \in Sends /\ sid = s0
  <2>. PICK C, q : C = Coming(p, sid) /\ q = draft'[d]
    OBVIOUS
  <2>1. /\ active[d] = sid /\ Holds(d, sid) /\ Working(d, sid)
        /\ s = session[d][sid]
        /\ sent'[n].key = ChainKey(RatchetRoot(s.root, n, s.remote), "ratchet")
        /\ q.priv = n /\ q.remote = s.remote /\ q.root = sent'[n].key.root
    BY <1>1, <1>10 DEF KeyOf, Working
  <2>2. /\ Apart(sid, p) /\ Meets(sid, p) /\ Leads(sid, p) /\ Followed(sid, p)
        /\ Apart(sid, d) /\ Meets(sid, d) /\ Leads(sid, d) /\ Followed(sid, d)
    BY <1>3, <1>10 DEF InStep
  <2>3. Coming(d, sid) = {}
    <3>1. Selected(d) = sid
      BY <1>1, <1>10, SelectedIsActive DEF Basics
    <3>2. sid # 0
      BY <1>10, SendFacts
    <3>3. crossed' = IF \E k \in Towards(d) : sent[k].sid = sid
                     THEN crossed \union {sid} ELSE crossed
      BY <3>1, <3>2 DEF Encrypt
    <3>4. sid \notin crossed'
      BY DEF Clean
    <3>5. QED
      BY <3>3, <3>4 DEF Coming
  <2>4. /\ Coming(d, sid)' = {} /\ Coming(p, sid)' = C \union {n}
        /\ State(d, sid) = s /\ State(d, sid)' = q
        /\ session'[d][sid] = s /\ call'[d] = n
        /\ Working(d, sid)'
    <3>1. State(d, sid) = s
      BY <1>1, <2>1 DEF State, Calls
    <3>2. State(d, sid)' = q
      BY <1>1, <1>10 DEF State, Calls
    <3>3. QED
      BY <1>1, <1>2, <1>5, <1>7, <1>10, <2>1, <2>3, <3>1, <3>2 DEF stateVars
  <2>5. /\ RatchetKey(p, sid)' = RatchetKey(p, sid)
        /\ s.remote = RatchetKey(p, sid)
        /\ LeadsBy(s, p, sid, C)
    <3>1. LeadsBy(s, p, sid, C)
      BY <1>3, <2>1, <2>2, <2>3, <2>4 DEF Leads
    <3>2. QED
      BY <1>7, <1>10, <3>1 DEF RatchetKey, LeadsBy
  <2>6. /\ \A m \in C : m \in Sends /\ m \in Nat /\ m < n /\ sent'[m] = sent[m]
        /\ n \notin C
    BY <1>1, <1>3, <1>5
  <2>7. Working(p, sid) \/ sid \in C
    BY <1>3, <1>10, <2>1, <2>2, SendFacts DEF Meets
  <2>8. Apart(sid, d)' /\ Apart(sid, p)'
    BY <1>3, <2>4 DEF Apart
  <2>9. Meets(sid, d)' /\ Meets(sid, p)'
    <3>1. sent'[sid] = sent[sid] /\ sid # n
      BY <1>1, <1>10
    <3>2. Meets(sid, d)'
      BY <1>3, <1>7, <1>10, <2>1, <2>2, <2>4, <3>1 DEF Meets
    <3>3. Meets(sid, p)'
      BY <1>3, <1>7, <1>10, <2>1, <2>2, <2>4, <3>1 DEF Meets
    <3>4. QED
      BY <3>2, <3>3
  <2>10. Leads(sid, d)'
    <3>1. LeadsNext(q, p, sid, C \union {n})
      <4>1. \A a \in C \union {n} : IsLast(a, C \union {n}) => a = n
        BY <1>1, <2>6, WithLater
      <4>2. q.remote = RatchetKey(p, sid)'
        BY <2>1, <2>5
      <4>3. QED
        BY <2>1, <4>1, <4>2 DEF LeadsNext
    <3>2. LeadsNext(s, p, sid, C)
      <4>1. C = {} => State(p, sid)' = State(p, sid)
        BY <1>7, <1>10
      <4>2. \A m \in C : sent'[m] = sent[m]
        BY <2>6
      <4>3. QED
        BY <2>5, <4>1, <4>2, SameLead
    <3>3. (C \union {n}) \ {n} = C
      BY <2>6
    <3>4. QED
      BY ZenonT(40), <1>3, <2>4, <3>1, <3>2, <3>3, LeadsWillBe DEF Leads
  <2>11. Leads(sid, p)'
    BY <2>4 DEF Leads
  <2>12. Followed(sid, d)'
    BY <2>4 DEF Followed
  <2>13. Followed(sid, p)'
    <3>. PICK D, t, k : /\ D = C \union {n} /\ t = State(p, sid)
                        /\ k = RatchetKey(p, sid)
      OBVIOUS
    <3>1. /\ \A a \in C : IsFirst(a, D) => IsFirst(a, C)
          /\ \A a, b \in C : Follows(a, b, D) => Follows(a, b, C)
          /\ \A b \in C : Follows(n, b, D) => IsLast(b, C)
          /\ \A a \in D : ~Follows(a, n, D)
          /\ IsFirst(n, D) => C = {}
      BY <1>1, <2>6, WithLater
    <3>2. \A a, b \in D : Follows(a, b, D) =>
            sent'[a].key = ChainKey(RatchetRoot(sent'[b].key.root, a, k), "ratchet")
      <4>1. ASSUME NEW a \in C, NEW b \in C, Follows(a, b, D)
            PROVE  sent'[a].key =
                     ChainKey(RatchetRoot(sent'[b].key.root, a, k), "ratchet")
        <5>1. Follows(a, b, C)
          BY <3>1, <4>1
        <5>2. OneStep(sent[b].key.root, a, p, sid)
          BY <2>2, <4>1, <5>1 DEF Followed
        <5>3. QED
          BY <2>6, <4>1, <5>2 DEF OneStep
      <4>2. ASSUME NEW b \in C, Follows(n, b, D)
            PROVE  sent'[n].key =
                     ChainKey(RatchetRoot(sent'[b].key.root, n, k), "ratchet")
        <5>1. s.root = sent[b].key.root /\ sent'[b] = sent[b]
          BY <2>5, <2>6, <3>1, <4>2 DEF LeadsBy
        <5>2. QED
          BY <2>1, <2>5, <5>1
      <4>3. \A a \in D : a \in C \/ a = n
        OBVIOUS
      <4>4. ASSUME NEW a \in D, NEW b \in D, Follows(a, b, D)
            PROVE  sent'[a].key =
                     ChainKey(RatchetRoot(sent'[b].key.root, a, k), "ratchet")
        <5>1. b \in C
          BY <3>1, <4>3, <4>4
        <5>2. CASE a = n
          BY <4>2, <4>4, <5>1, <5>2
        <5>3. CASE a \in C
          BY <4>1, <4>4, <5>1, <5>3
        <5>4. QED
          BY <4>3, <5>2, <5>3
      <4>5. QED
        BY <4>4
    <3>3. \A a \in D : IsFirst(a, D) =>
            IF Working(p, sid)
            THEN sent'[a].key = ChainKey(RatchetRoot(t.root, a, k), "ratchet")
            ELSE a = sid
      <4>1. ASSUME NEW a \in C, IsFirst(a, D)
            PROVE  IF Working(p, sid)
                   THEN sent'[a].key = ChainKey(RatchetRoot(t.root, a, k), "ratchet")
                   ELSE a = sid
        BY <2>2, <2>6, <3>1, <4>1 DEF Followed, OneStep
      <4>2. ASSUME IsFirst(n, D)
            PROVE  /\ Working(p, sid)
                   /\ sent'[n].key = ChainKey(RatchetRoot(t.root, n, k), "ratchet")
        <5>1. C = {} /\ Working(p, sid)
          BY <2>7, <3>1, <4>2
        <5>2. s.root = t.root
          BY <2>5, <5>1 DEF LeadsBy
        <5>3. QED
          BY <2>1, <2>5, <5>1, <5>2
      <4>3. QED
        BY <4>1, <4>2
    <3>4. \A a \in D : Working(p, sid) => t.remote # a
      <4>1. Working(p, sid) => t.remote # n
        <5>1. ASSUME Working(p, sid) PROVE t \in States
          BY <1>3, <1>10, <5>1, StateType DEF Clean
        <5>2. n \notin KeyIds
          BY <1>1 DEF KeyIds
        <5>3. QED
          BY <5>1, <5>2 DEF States
      <4>2. QED
        BY <2>2, <4>1 DEF Followed
    <3>5. /\ Coming(p, sid)' = D /\ State(p, sid)' = t /\ RatchetKey(p, sid)' = k
          /\ Working(p, sid)' <=> Working(p, sid)
      BY <1>7, <1>10, <2>4, <2>5
    <3>6. QED
      BY <3>2, <3>3, <3>4, <3>5 DEF Followed, OneStep, IsFirst, Follows
  <2>14. QED
    BY <1>3, <2>8, <2>9, <2>10, <2>11, <2>12, <2>13 DEF InStep
<1>11. CASE sid \notin Sends
  <2>1. sid = n /\ sent'[n].sid = n /\ active[d] = 0
    BY <1>1, <1>11 DEF Clean
  <2>2. \A e \in Device : Coming(e, n) = {}
    <3>1. ASSUME NEW e \in Device, NEW m \in Coming(e, n) PROVE FALSE
      <4>1. m \in Sends
        BY <1>1, ComingAreSends
      <4>2. sent[m].sid = n
        BY DEF Coming
      <4>3. QED
        BY <1>1, <4>1, <4>2, SendFacts
    <3>2. QED
      BY <3>1
  <2>3. Coming(d, n)' = {} /\ Coming(p, n)' = {n}
    BY <1>3, <1>5, <2>1, <2>2
  <2>4. Working(d, n)' /\ ~Working(p, n)' /\ ~Pending(n, d)'
    <3>1. call[p] # n
      BY <1>1, <1>3, SendFacts
    <3>2. QED
      BY <1>1, <1>3, <1>4, <1>6, <3>1 DEF Working, Pending
  <2>5. State(d, n)' = draft'[d] /\ RatchetKey(p, n)' = p
    BY <1>1, <2>1, <2>4 DEF State, Calls, RatchetKey
  <2>6. /\ Apart(n, d)' /\ Apart(n, p)'
    BY <1>3, <2>3 DEF Apart
  <2>7. /\ Meets(n, d)' /\ Meets(n, p)'
    BY <1>1, <1>3, <2>3, <2>4 DEF Meets
  <2>8. /\ Leads(n, d)' /\ Leads(n, p)'
    <3>1. LeadsNext(draft'[d], p, n, {n})
      BY <1>1, <2>1, <2>5 DEF LeadsNext
    <3>2. QED
      <4>1. Leads(n, p)'
        BY <2>4 DEF Leads
      <4>2. LeadsBy(State(d, n), p, n, Coming(p, n))'
        BY <2>3, <2>5, <3>1, LeadsWillBe
      <4>3. Leads(n, d)'
        BY <1>3, <2>4, <4>2 DEF Leads
      <4>4. QED
        BY <4>1, <4>3
  <2>9. /\ Followed(n, d)' /\ Followed(n, p)'
    <3>1. \A m : ~Follows(n, n, {n})
      BY <1>1 DEF Follows
    <3>2. QED
      BY <2>3, <2>4, <3>1 DEF Followed, Follows
  <2>10. QED
    BY <1>3, <2>1, <2>6, <2>7, <2>8, <2>9 DEF InStep
<1>12. QED
  BY <1>9, <1>10, <1>11

(* No other step adds to the queues.                                       *)
LEMMA OnlyQueuesAdd ==
  ASSUME TypeOK, [Next]_vars, \A n : ~Queues(n)
  PROVE  accepted' = accepted /\ \A e \in Device : inbox'[e] \subseteq inbox[e]
<1>1. CASE UNCHANGED vars
  BY <1>1 DEF vars, relayVars
<1>2. ASSUME NEW e \in Device, Encrypt(e) \/ SaveSend(e) \/ AbandonSend(e)
      PROVE  accepted' = accepted /\ inbox' = inbox
  BY <1>2 DEF Encrypt, SaveSend, AbandonSend, relayVars
<1>3. ASSUME NEW e \in Device, NEW a \in inbox[e], Decrypt(e, a)
      PROVE  accepted' = accepted /\ \A f \in Device : inbox'[f] \subseteq inbox[f]
  BY <1>3 DEF Decrypt, TypeOK
<1>4. CASE Restart \/ \E e \in Device : LoseBatch(e)
  BY <1>4, DropFacts
<1>5. QED
  BY <1>1, <1>2, <1>3, <1>4 DEF Next, Queues

(* A send is queued after the ones of its sender that wait already.        *)
LEMMA NextWaits ==
  ASSUME TypeOK, Basics, WaitInOrder, [Next]_vars
  PROVE  WaitInOrder'
<1>. SUFFICES ASSUME NEW sid \in Clean', NEW d \in Device,
                     NEW i \in Waiting(d)', NEW j \in Waiting(d)', i < j,
                     sent'[accepted'[i]].sid = sid, sent'[accepted'[j]].sid = sid
              PROVE  accepted'[i] < accepted'[j]
  BY DEF WaitInOrder
<1>1. \A m \in Sends : sent'[m] = sent[m] /\ sent[m].sid \in Sends
  BY SentStays, SendFacts
<1>2. ASSUME i \in Waiting(d), j \in Waiting(d),
             accepted'[i] = accepted[i], accepted'[j] = accepted[j]
      PROVE  accepted'[i] < accepted'[j]
  <2>1. accepted[i] \in Sends /\ accepted[j] \in Sends
    BY <1>2, SendFacts DEF Waiting
  <2>2. sent[accepted[i]].sid = sid /\ sent[accepted[j]].sid = sid /\ sid \in Sends
    BY <1>1, <1>2, <2>1
  <2>3. sid \in Clean
    BY <2>2, CleanBefore
  <2>4. QED
    BY <1>2, <2>2, <2>3 DEF WaitInOrder
<1>3. ASSUME NEW n, Queues(n)
      PROVE  accepted'[i] < accepted'[j]
  <2>1. /\ n \in Sends /\ posts' = posts \ {n}
        /\ UNCHANGED <<sent, callVars, stateVars, historyVars>>
        /\ n \in posts <=> ~\E a \in DOMAIN accepted : accepted[a] = n
    BY <1>3, QueueFacts DEF Basics
  <2>2. PICK k \in Nat :
          /\ accepted'[k] = n
          /\ \A a \in DOMAIN accepted : accepted'[a] = accepted[a] /\ a < k
          /\ \A e \in Device :
               Waiting(e)' = IF sent[n].to = e /\ n \in posts
                             THEN Waiting(e) \union {k} ELSE Waiting(e)
    BY ZenonT(30), <1>3, QueueFacts DEF Basics
  <2>3. \A a \in Waiting(d) : a \in DOMAIN accepted /\ a \in Nat
    BY SendFacts DEF Waiting
  <2>4. i \in Waiting(d)
    BY <2>2, <2>3
  <2>5. CASE j \in Waiting(d)
    BY <1>2, <2>2, <2>3, <2>4, <2>5
  <2>6. CASE j = k /\ sent[n].to = d /\ n \in posts
    <3>. PICK m : m = accepted[i]
      OBVIOUS
    <3>1. /\ m \in Sends /\ m \in Nat /\ n \in Nat /\ n # 0
          /\ sent[m].to = d /\ m # n
          /\ sent[m].from \in Device /\ sent[n].from \in Device
      BY <2>1, <2>3, <2>4, <2>6, SendFacts DEF QueuesAgree, Basics, Waiting
    <3>2. n \notin abandoned
      <4>1. sent[n].sid = sid
        BY <2>1, <2>2, <2>6
      <4>2. n \in abandoned => sid \in Torn'
        BY <2>1, <4>1 DEF Torn, historyVars
      <4>3. QED
        BY <4>2 DEF Clean
    <3>3. call[sent[n].from] = n
      BY <2>6, <3>2 DEF PostsAreCalls, Basics
    <3>4. sent[m].from = sent[n].from
      <4>1. sent[m].to = Peer(sent[m].from) /\ sent[n].to = Peer(sent[n].from)
        BY <2>1, <3>1 DEF KeysAreFresh, Basics
      <4>2. QED
        BY <2>6, <3>1, <4>1, Peers
    <3>5. m <= n
      BY <3>1, <3>3, <3>4 DEF CallsAreLatest, Basics
    <3>6. accepted'[i] = m /\ accepted'[j] = n
      BY <2>2, <2>3, <2>4, <2>6
    <3>7. QED
      BY <3>1, <3>5, <3>6
  <2>7. QED
    BY <2>2, <2>5, <2>6
<1>4. ASSUME \A n : ~Queues(n)
      PROVE  accepted' = accepted /\ \A e \in Device : inbox'[e] \subseteq inbox[e]
  BY <1>4, OnlyQueuesAdd
<1>5. CASE \A n : ~Queues(n)
  <2>1. i \in Waiting(d) /\ j \in Waiting(d)
    BY <1>4, <1>5 DEF Waiting, Repeated
  <2>2. QED
    BY <1>2, <1>4, <1>5, <2>1
<1>6. QED
  BY <1>3, <1>5

(* A device stays past what it has received, and comes past what it        *)
(* receives.                                                               *)
LEMMA EncryptSpent ==
  ASSUME TypeOK, Basics, NEW c \in Device, Encrypt(c), NEW n \in Sends,
         sent[n].to \in Device, sent[n].sid \in Sends, IsPast(sent[n])
  PROVE  IsPast(sent[n])'
<1>. PICK d, e, sid, s : /\ d = e.to /\ e = sent[n] /\ sid = e.sid
                         /\ s = session[d][sid]
  OBVIOUS
<1>1. /\ Holds(d, sid) /\ Spent(s, e) /\ d \in Device /\ sid \in Sends
      /\ Calls(d, sid) => Spent(draft[d], e)
  BY DEF IsPast
<1>2. /\ sent'[n] = e
      /\ UNCHANGED stateVars
      /\ \A m \in Sends : sent'[m] = sent[m]
  BY ZenonT(30), EncryptFacts DEF Basics, Encrypt
<1>3. Holds(d, sid)' /\ session'[d][sid] = s
  BY <1>1, <1>2 DEF Holds, stateVars
<1>4. CASE c # d
  <2>1. call'[d] = call[d] /\ draft'[d] = draft[d]
    <3>1. d = Peer(c)
      BY <1>1, <1>4, Peers
    <3>2. QED
      BY <3>1, EncryptFacts DEF Basics
  <2>2. call[d] # 0 => call[d] \in Sends
    BY <1>1, SendFacts
  <2>3. Calls(d, sid)' <=> Calls(d, sid)
    BY <1>2, <2>1, <2>2 DEF Calls
  <2>4. QED
    BY <1>1, <1>2, <1>3, <2>1, <2>3 DEF IsPast, Spent, Calls
<1>5. CASE c = d
  <2>. PICK k, t : k = Len(sent) + 1 /\ t = draft'[d]
    OBVIOUS
  <2>1. /\ call'[d] = k
        /\ sent'[k].sid = IF active[d] = 0 THEN k ELSE active[d]
        /\ sent'[k].key = KeyOf(d, k)
        /\ k \in Sends' /\ k \notin Sends
        /\ t.root = sent'[k].key.root
        /\ t.remote = IF active[d] = 0 THEN Peer(d) ELSE session[d][active[d]].remote
        /\ active[d] # 0 => t.receive = session[d][active[d]].receive
    BY <1>5, EncryptFacts DEF Basics
  <2>2. active[d] # 0
    BY <1>1, SendFacts DEF ActiveIsChosen, Basics, Holds, Contains
  <2>3. ASSUME active[d] = sid PROVE Spent(t, e)
    <3>1. s \in StatesOver(KeyIds)
      <4>1. session[d] \in [{x \in Sends : Holds(d, x)} -> States]
        BY <1>1 DEF TypeOK
      <4>2. QED
        BY <1>1, <4>1, StatesAre
    <3>2. s.root \in RootsOver(KeyIds \union {k}) /\ s.remote \in KeyIds \union {k}
      BY <3>1, StatesGrow DEF StatesOver
    <3>. DEFINE root == RatchetRoot(s.root, k, s.remote)
    <3>3. Len(s.root) \in Nat /\ Len(root) = Len(s.root) + 1
      <4>1. PICK K, x, r : K = KeyIds \union {k} /\ x = s.root /\ r = s.remote
        OBVIOUS
      <4>2. x \in RootsOver(K) /\ k \in K /\ r \in K
        BY <3>2, <4>1
      <4>3. Len(x) \in Nat /\ Len(RatchetRoot(x, k, r)) = Len(x) + 1
        BY ONLY <4>2, RootGrows
      <4>4. QED
        BY <4>1, <4>3
    <3>4. t.root = root /\ t.remote = s.remote /\ t.receive = s.receive
      BY <2>1, <2>2, <2>3 DEF KeyOf, ChainKey
    <3>. HIDE DEF root
    <3>5. Len(e.key.root) <= Len(root)
      <4>1. Len(e.key.root) <= Len(s.root)
        BY <1>1 DEF Spent
      <4>2. Len(e.key.root) \in Nat
        BY SendFacts DEF Chains, Roots
      <4>3. \A a, b \in Nat : a <= b => a <= b + 1
        OBVIOUS
      <4>4. QED
        BY <3>3, <4>1, <4>2, <4>3
    <3>6. QED
      BY <1>1, <3>4, <3>5 DEF Spent
  <2>4. Calls(d, sid)' => active[d] = sid
    BY <1>1, <2>1, <2>2 DEF Calls
  <2>5. QED
    BY <1>1, <1>2, <1>3, <2>3, <2>4 DEF IsPast, Spent, Calls
<1>6. QED
  BY <1>4, <1>5

LEMMA SaveSpent ==
  ASSUME TypeOK, Basics, NEW c \in Device, SaveSend(c), NEW n \in Sends,
         sent[n].to \in Device, sent[n].sid \in Sends, IsPast(sent[n])
  PROVE  IsPast(sent[n])'
<1>. PICK d, e, sid, s0 : /\ d = e.to /\ e = sent[n] /\ sid = e.sid
                          /\ s0 = sent[call[c]].sid
  OBVIOUS
<1>1. /\ Holds(d, sid) /\ Spent(session[d][sid], e)
      /\ d \in Device /\ sid \in Sends
      /\ Calls(d, sid) => Spent(draft[d], e)
  BY DEF IsPast
<1>2. /\ call[c] # 0
      /\ \A x \in Sends : Holds(c, x)' <=> Holds(c, x) \/ x = s0
      /\ \A x \in Sends : Holds(Peer(c), x)' <=> Holds(Peer(c), x)
      /\ session'[c][s0] = draft[c]
      /\ \A x \in Sends : Holds(c, x) /\ x # s0 =>
           session'[c][x] = session[c][x]
      /\ session'[Peer(c)] = session[Peer(c)]
      /\ call'[c] = 0 /\ call'[Peer(c)] = call[Peer(c)]
      /\ draft'[Peer(c)] = draft[Peer(c)]
      /\ sent' = sent
  <2>1. call[c] # 0 /\ sent' = sent
    BY DEF SaveSend
  <2>2. QED
    BY <2>1, SaveFacts DEF Basics
<1>3. CASE c # d
  <2>1. d = Peer(c)
    BY <1>1, <1>3, Peers
  <2>2. /\ Holds(d, sid)' /\ session'[d][sid] = session[d][sid]
        /\ draft'[d] = draft[d]
        /\ Calls(d, sid)' => Calls(d, sid)
    BY <1>1, <1>2, <2>1 DEF Calls
  <2>3. QED
    BY <1>1, <1>2, <2>2 DEF IsPast, Spent, Calls
<1>4. CASE c = d
  <2>1. Holds(d, sid)' /\ ~Calls(d, sid)'
    BY <1>1, <1>2, <1>4 DEF Calls
  <2>2. Spent(session'[d][sid], e)
    <3>1. CASE sid = s0
      BY <1>1, <1>2, <1>4, <3>1 DEF Calls
    <3>2. CASE sid # s0
      BY <1>1, <1>2, <1>4, <3>2
    <3>3. QED
      BY <3>1, <3>2
  <2>3. QED
    BY <1>2, <2>1, <2>2 DEF IsPast, Spent, Calls
<1>5. QED
  BY <1>3, <1>4

LEMMA DecryptSpent ==
  ASSUME BySession, NEW c \in Device, NEW j \in inbox[c], Decrypt(c, j),
         NEW n \in Sends, sent[n].to \in Device, sent[n].sid \in Sends,
         sent[n].sid \in Clean, sent[n].rpub = n,
         IsPast(sent[n]) \/ (n = accepted[j] /\ sent[n].to = c)
  PROVE  IsPast(sent[n])'
<1>. PICK d, e, sid, m, s0, t :
       /\ d = e.to /\ e = sent[n] /\ sid = e.sid /\ m = accepted[j]
       /\ s0 = sent[m].sid /\ t = AfterReceive(ReceivingState(c, sent[m]))
  OBVIOUS
<1>1. TypeOK /\ Basics /\ WaitInOrder /\ ReceivedAreSpent
      /\ \A x \in Clean : InStep(x)
  BY DEF BySession
<1>2. /\ m \in Sends /\ s0 \in Sends /\ call[c] = 0 /\ Opens(c, sent[m])
      /\ IsHead(c, j)
      /\ session'[c][s0] = t
      /\ \A x \in Sends : Holds(c, x) /\ x # s0 =>
           session'[c][x] = session[c][x]
      /\ session'[Peer(c)] = session[Peer(c)]
      /\ \A x : Holds(c, x)' <=> Holds(c, x) \/ x = s0
      /\ \A x : Holds(Peer(c), x)' <=> Holds(Peer(c), x)
      /\ UNCHANGED <<sent, callVars>>
  <2>1. Received(c, j)
    BY <1>1, DecryptFacts DEF Basics
  <2>2. QED
    BY <2>1 DEF Received
<1>3. /\ d \in Device
      /\ IsPast(e) => /\ Holds(d, sid) /\ Spent(session[d][sid], e)
                      /\ Calls(d, sid) => Spent(draft[d], e)
  BY DEF IsPast
<1>4. Len(e.key.root) \in Nat
  BY <1>1, SendFacts DEF Chains, Roots
<1>5. CASE c # d
  <2>1. d = Peer(c) /\ IsPast(e)
    BY <1>3, <1>5, Peers
  <2>2. /\ Holds(d, sid)' /\ session'[d][sid] = session[d][sid]
        /\ Calls(d, sid)' => Calls(d, sid)
        /\ draft'[d] = draft[d]
    BY <1>2, <1>3, <2>1 DEF Calls, callVars
  <2>3. QED
    BY <1>2, <1>3, <2>1, <2>2 DEF IsPast, Spent, Calls
<1>6. CASE c = d /\ sid # s0
  <2>1. IsPast(e)
    BY <1>6
  <2>2. /\ Holds(d, sid)' /\ session'[d][sid] = session[d][sid]
        /\ ~Calls(d, sid)'
    BY <1>2, <1>3, <1>6, <2>1 DEF Calls, callVars
  <2>3. QED
    BY <1>2, <1>3, <2>1, <2>2 DEF IsPast, Spent, Calls
<1>7. CASE c = d /\ sid = s0
  <2>1. j \in Waiting(d)
    <3>1. j \in Repeated => ~Opens(d, sent[m])
      BY <1>1, <1>2, <1>7, RepeatsStayShut
    <3>2. QED
      BY <1>2, <1>7, <3>1 DEF Waiting
  <2>2. HeadLeads(d, m)
    BY <1>1, <1>2, <1>7, <2>1, HeadFacts
  <2>3. /\ t.root = sent[m].key.root /\ t.receive.index = 1
        /\ Holds(d, sid) => Len(session[d][sid].root) <= Len(t.root)
    BY <1>7, <2>2 DEF HeadLeads
  <2>4. Len(e.key.root) <= Len(t.root)
    <3>1. CASE n = m
      BY <1>4, <2>3, <3>1
    <3>2. CASE IsPast(e)
      <4>1. Len(e.key.root) <= Len(session[d][sid].root) /\ Holds(d, sid)
        BY <1>3, <3>2 DEF Spent
      <4>2. session[d][sid] \in States
        BY <1>1, <1>3, <4>1 DEF TypeOK
      <4>3. Len(session[d][sid].root) \in Nat /\ Len(t.root) \in Nat
        <5>1. session[d][sid].root \in Roots /\ sent[m].key.root \in Roots
          BY <1>1, <1>2, <4>2, SendFacts DEF States, Chains
        <5>2. \A root \in Roots : Len(root) \in Nat
          BY DEF Roots
        <5>3. QED
          BY <2>3, <5>1, <5>2
      <4>4. \A x, y, z \in Nat : x <= y /\ y <= z => x <= z
        OBVIOUS
      <4>5. QED
        BY <1>4, <2>3, <4>1, <4>3, <4>4
    <3>3. QED
      BY <3>1, <3>2
  <2>5. Spent(t, e)
    BY <2>3, <2>4 DEF Spent
  <2>6. /\ Holds(d, sid)' /\ session'[d][sid] = t /\ ~Calls(d, sid)'
    BY <1>2, <1>7 DEF Calls, callVars
  <2>7. QED
    BY <1>2, <2>5, <2>6 DEF IsPast, Spent, Calls
<1>8. QED
  BY <1>5, <1>6, <1>7

LEMMA NextSpent ==
  ASSUME BySession, [Next]_vars
  PROVE  ReceivedAreSpent'
<1>1. TypeOK /\ Basics /\ ReceivedAreSpent
  BY DEF BySession
<1>. SUFFICES ASSUME NEW i \in DOMAIN accepted' \ Repeated',
                     sent'[accepted'[i]].sid \in Clean',
                     i \notin inbox'[sent'[accepted'[i]].to]
              PROVE  IsPast(sent[accepted[i]])'
  BY DEF ReceivedAreSpent
<1>. PICK n, e, d, sid : /\ n = accepted[i] /\ e = sent[n] /\ d = e.to
                         /\ sid = e.sid
  OBVIOUS
<1>2. \A m \in Sends : sent'[m] = sent[m]
  BY <1>1, SentStays
<1>3. CASE \E m : Queues(m)
  <2>. PICK m : Queues(m)
    BY <1>3
  <2>1. UNCHANGED <<sent, callVars, stateVars, historyVars>>
    BY <1>1, QueueFacts DEF Basics
  <2>2. PICK k \in Nat :
          /\ DOMAIN accepted' = DOMAIN accepted \union {k}
          /\ accepted'[k] = m
          /\ \A a \in DOMAIN accepted : accepted'[a] = accepted[a] /\ a < k
          /\ \A f \in Device :
               inbox'[f] = IF sent[m].to = f THEN inbox[f] \union {k}
                                             ELSE inbox[f]
          /\ Repeated' = IF m \in posts THEN Repeated ELSE Repeated \union {k}
    BY <1>1, QueueFacts DEF Basics
  <2>3. m \in Sends /\ sent[m].to \in Device
    BY <1>1, QueueFacts DEF Basics
  <2>4. i # k
    BY <2>1, <2>2, <2>3
  <2>5. i \in DOMAIN accepted \ Repeated /\ accepted'[i] = n
    BY <2>2, <2>4
  <2>6. /\ n \in Sends /\ sid \in Sends /\ d \in Device /\ sent'[n] = e
    BY <1>1, <1>2, <2>5, SendFacts
  <2>7. sid \in Clean
    BY <1>1, <2>5, <2>6, CleanBefore
  <2>8. i \notin inbox[d]
    BY ZenonT(30), <2>2, <2>5, <2>6
  <2>9. IsPast(e)
    BY <1>1, <2>5, <2>7, <2>8 DEF ReceivedAreSpent
  <2>10. QED
    BY <2>1, <2>5, <2>9 DEF IsPast, Spent, Holds, Calls, callVars, stateVars
<1>4. CASE \A m : ~Queues(m)
  <2>1. accepted' = accepted /\ \A f \in Device : inbox'[f] \subseteq inbox[f]
    BY <1>1, <1>4, OnlyQueuesAdd
  <2>2. i \in DOMAIN accepted \ Repeated /\ accepted'[i] = n
    BY <2>1 DEF Repeated
  <2>3. /\ n \in Sends /\ sid \in Sends /\ d \in Device /\ sent'[n] = e
        /\ e.rpub = n
    <3>1. n \in Sends
      BY <1>1, <2>2, SendFacts
    <3>2. QED
      BY <1>1, <1>2, <3>1, SendFacts DEF KeysAreFresh, Basics
  <2>4. sid \in Clean
    BY <1>1, <2>2, <2>3, CleanBefore
  <2>5. i \notin inbox'[d]
    BY <2>2, <2>3
  <2>6. i \notin inbox[d] => IsPast(e)
    BY <1>1, <2>2, <2>4 DEF ReceivedAreSpent
  <2>7. CASE UNCHANGED vars
    <3>1. IsPast(e)
      BY <2>5, <2>6, <2>7 DEF vars, relayVars
    <3>2. QED
      BY <2>2, <2>7, <3>1 DEF IsPast, Spent, Holds, Calls, vars, callVars,
         stateVars
  <2>8. ASSUME NEW c \in Device, Encrypt(c) PROVE IsPast(sent[n])'
    <3>1. IsPast(e)
      BY <2>5, <2>6, <2>8 DEF Encrypt
    <3>2. QED
      BY <1>1, <2>3, <2>8, <3>1, EncryptSpent
  <2>9. ASSUME NEW c \in Device, SaveSend(c) PROVE IsPast(sent[n])'
    <3>1. IsPast(e)
      BY <2>5, <2>6, <2>9 DEF SaveSend
    <3>2. QED
      BY <1>1, <2>3, <2>9, <3>1, SaveSpent
  <2>10. ASSUME NEW c \in Device, AbandonSend(c) PROVE IsPast(sent[n])'
    <3>1. IsPast(e)
      BY <2>5, <2>6, <2>10 DEF AbandonSend, relayVars
    <3>2. /\ UNCHANGED <<sent, stateVars>>
          /\ call' = [call EXCEPT ![c] = 0]
          /\ draft' = [draft EXCEPT ![c] = NoState]
      BY <2>10 DEF AbandonSend, EndCall
    <3>3. Calls(d, sid)' => Calls(d, sid) /\ draft'[d] = draft[d]
      BY <1>1, <2>3, <3>2 DEF Calls, TypeOK
    <3>4. QED
      BY <3>1, <3>2, <3>3 DEF IsPast, Spent, Holds, Calls, stateVars
  <2>11. ASSUME NEW c \in Device, NEW j \in inbox[c], Decrypt(c, j)
         PROVE  IsPast(sent[n])'
    <3>1. IsPast(e) \/ (n = accepted[j] /\ d = c)
      <4>1. inbox' = [inbox EXCEPT ![c] = @ \ {j}]
        BY <2>11 DEF Decrypt
      <4>2. inbox[d] \ {j} \subseteq inbox'[d] /\ (d # c => inbox'[d] = inbox[d])
        BY <1>1, <2>3, <4>1 DEF TypeOK
      <4>3. QED
        BY <2>5, <2>6, <4>2
    <3>2. QED
      BY <2>3, <2>4, <2>11, <3>1, DecryptSpent
  <2>12. CASE Restart \/ \E c \in Device : LoseBatch(c)
    <3>1. /\ \A f \in Device : \A a \in Waiting(f) \ inbox'[f] :
               sent[accepted[a]].sid \in cut'
          /\ UNCHANGED <<sent, callVars, stateVars>>
      BY <1>1, <2>12, DropFacts
    <3>2. i \notin inbox[d]
      <4>1. i \in inbox[d] => i \in Waiting(d) \ inbox'[d]
        BY <2>2, <2>5 DEF Waiting
      <4>2. sid \notin cut'
        BY <2>2, <2>3 DEF Clean
      <4>3. QED
        BY <2>3, <3>1, <4>1, <4>2
    <3>3. QED
      BY <2>6, <2>2, <3>1, <3>2 DEF IsPast, Spent, Holds, Calls, callVars, stateVars
  <2>13. QED
    BY <1>4, <2>2, <2>7, <2>8, <2>9, <2>10, <2>11, <2>12 DEF Next, Queues
<1>5. QED
  BY <1>3, <1>4

-----------------------------------------------------------------------------
(* The theorems.                                                           *)

LEMMA NextRatchet == BySession /\ [Next]_vars => BySession'
<1>. SUFFICES ASSUME BySession, [Next]_vars PROVE BySession'
  OBVIOUS
<1>1. /\ TypeOK /\ Basics /\ WaitInOrder /\ ReceivedAreSpent
      /\ \A sid \in Clean : InStep(sid)
  BY DEF BySession
<1>2. TypeOK' /\ Basics' /\ WaitInOrder' /\ ReceivedAreSpent'
  <2>1. RatchetInv
    BY InvParts
  <2>2. QED
    BY <1>1, <2>1, NextTypes, NextBasics, NextWaits, NextSpent
<1>3. ASSUME NEW sid \in Clean' PROVE InStep(sid)'
  <2>1. sid \in Sends => sid \in Clean /\ InStep(sid) /\ sent[sid].sid = sid
    BY <1>1, CleanBefore
  <2>2. (\A d \in Device : ~Encrypt(d)) => sid \in Sends
    BY <1>1, SentStays DEF Clean
  <2>3. \A m \in Sends : sent'[m] = sent[m]
    BY <1>1, SentStays
  <2>4. CASE \E d \in Device : Encrypt(d)
    BY <1>1, <2>1, <2>4, EncryptStep
  <2>5. CASE \A d \in Device : ~Encrypt(d)
    <3>1. CASE UNCHANGED vars
      <4>1. \A e, x : Holds(e, x)' <=> Holds(e, x)
        BY <3>1, SameHolds DEF vars, stateVars
      <4>2. \A e \in Device : SameEnd(sid, e)
        BY <3>1, <4>1 DEF SameEnd, Coming, Towards, Waiting, Repeated, Working,
           State, Calls, Pending, vars, relayVars, callVars, stateVars, historyVars
      <4>3. QED
        BY <1>1, <2>1, <2>2, <2>3, <2>5, <4>2, SameView
    <3>2. CASE \E n : Queues(n)
      <4>1. \A e \in Device : SameEnd(sid, e)
        BY <1>1, <2>2, <2>5, <3>2, QueueViews
      <4>2. QED
        BY <1>1, <2>1, <2>2, <2>3, <2>5, <4>1, SameView
    <3>3. CASE \E d \in Device : SaveSend(d)
      <4>1. \A e \in Device : SameEnd(sid, e)
        BY <1>1, <2>1, <2>2, <2>5, <3>3, SaveViews
      <4>2. QED
        BY <1>1, <2>1, <2>2, <2>3, <2>5, <4>1, SameView
    <3>4. CASE \E d \in Device : AbandonSend(d)
      BY <1>1, <2>1, <2>2, <2>5, <3>4, AbandonStep
    <3>5. CASE \E d \in Device : \E i \in inbox[d] : Decrypt(d, i)
      BY <1>1, <2>1, <2>2, <2>5, <3>5, DecryptStep
    <3>6. CASE Restart \/ \E d \in Device : LoseBatch(d)
      <4>1. \A e \in Device : SameEnd(sid, e)
        BY <1>1, <2>2, <2>5, <3>6, DropViews
      <4>2. QED
        BY <1>1, <2>1, <2>2, <2>3, <2>5, <4>1, SameView
    <3>7. QED
      BY <2>5, <3>1, <3>2, <3>3, <3>4, <3>5, <3>6 DEF Next, Queues
  <2>6. QED
    BY <2>4, <2>5
<1>4. QED
  BY <1>2, <1>3 DEF BySession

(* RatchetInv holds in every reachable state: what sends, receives, failed *)
(* sends, crossing sends, restarts and submissions repeated over them do   *)
(* to the sessions of two devices (client.py:447-592, 594-700, 793-799,    *)
(* session.py:499-627, server.py:68).                                      *)
THEOREM RatchetCorrect == Spec => []RatchetInv
<1>1. Init => BySession
  BY InitRatchet, InvParts
<1>2. BySession /\ [Next]_vars => BySession'
  BY NextRatchet
<1>3. BySession => RatchetInv
  BY InvParts
<1>4. QED
  BY <1>1, <1>2, <1>3, PTL DEF Spec

(* Every variable has its type, and a device has a state for exactly the   *)
(* sessions it holds.                                                      *)
THEOREM TypesHold == Spec => []TypeOK
<1>1. RatchetInv => TypeOK
  BY DEF RatchetInv
<1>2. QED
  BY <1>1, RatchetCorrect, PTL

(* The active session is one the device holds (client.py:485-512, 577,     *)
(* 692-693).                                                               *)
THEOREM ActiveSessionsAreHeld == Spec => []ActiveIsHeld
<1>1. RatchetInv => ActiveIsHeld
  BY DEF RatchetInv
<1>2. QED
  BY <1>1, RatchetCorrect, PTL

(* No message key encrypts two envelopes, however sends are repeated,      *)
(* abandoned, crossed or dropped (client.py:541-549).                      *)
THEOREM KeysAreUsedOnce == Spec => []KeysUsedOnce
<1>1. RatchetInv => KeysUsedOnce
  <2>. SUFFICES ASSUME RatchetInv, NEW m \in Sends, NEW n \in Sends,
                       sent[m].key = sent[n].key
                PROVE  m = n
    BY DEF KeysUsedOnce
  <2>1. /\ KeyIsFresh(m) /\ KeyIsFresh(n) /\ m \in Nat /\ n \in Nat
        /\ sent[m].to \in Device /\ sent[n].to \in Device
    BY SendFacts DEF RatchetInv, KeysAreFresh
  <2>2. Device \intersect Nat = {}
    BY Peers
  <2>. PICK key : key = sent[n].key
    OBVIOUS
  <2>3. CASE key.label = "initiator"
    <3>1. ASSUME NEW k \in Sends, KeyIsFresh(k), sent[k].key = key
          PROVE  key.root = FirstRoot(k, sent[k].to)
      BY <2>3, <3>1 DEF KeyIsFresh, ChainKey
    <3>2. FirstRoot(m, sent[m].to) = FirstRoot(n, sent[n].to)
      BY <2>1, <3>1
    <3>3. {m, sent[m].to} = {n, sent[n].to}
      BY <3>2 DEF FirstRoot
    <3>4. QED
      BY <2>1, <2>2, <3>3
  <2>4. CASE key.label # "initiator"
    <3>1. ASSUME NEW k \in Sends, KeyIsFresh(k), sent[k].key = key
          PROVE  \E r \in Device \union 1..(k - 1) :
                   key.root[Len(key.root)] = {k, r}
      BY <2>4, <3>1 DEF KeyIsFresh, ChainKey
    <3>2. PICK q \in Device \union 1..(m - 1) : key.root[Len(key.root)] = {m, q}
      BY <2>1, <3>1
    <3>3. PICK r \in Device \union 1..(n - 1) : key.root[Len(key.root)] = {n, r}
      BY <2>1, <3>1
    <3>4. m = n \/ (m = r /\ n = q)
      BY <3>2, <3>3
    <3>5. ~(m = r /\ n = q)
      BY <2>1, <2>2
    <3>6. QED
      BY <3>4, <3>5
  <2>5. QED
    BY <2>3, <2>4
<1>2. QED
  BY <1>1, RatchetCorrect, PTL

(* On a session that was never written in both directions at once, torn or *)
(* cut, the envelope at the head of a queue opens exactly when it was not  *)
(* queued before: what else stops a queue is a second copy, which a retry  *)
(* leaves there when a restart forgot the first one's receipt              *)
(* (client.py:571, 637-677, 793-799, server.py:68).                        *)
THEOREM HeadsOpen == Spec => []HeadOpens
<1>1. RatchetInv => HeadOpens
  <2>. SUFFICES ASSUME RatchetInv, NEW d \in Device, NEW i \in DOMAIN accepted,
                       call[d] = 0, IsHead(d, i),
                       sent[accepted[i]].sid \notin crossed \union Torn \union cut
                PROVE  Opens(d, sent[accepted[i]]) <=> i \notin Repeated
    BY DEF HeadOpens, HeadOpensUnless
  <2>1. /\ TypeOK /\ Basics /\ WaitInOrder /\ ReceivedAreSpent
        /\ \A sid \in Clean : InStep(sid)
    BY InvParts DEF BySession
  <2>. PICK n, sid : n = accepted[i] /\ sid = sent[n].sid
    OBVIOUS
  <2>2. n \in Sends /\ sid \in Sends
    BY <2>1, SendFacts
  <2>3. sent[sid].sid = sid
    BY <2>1, <2>2 DEF KeysAreFresh, KeyIsFresh, Basics
  <2>4. sid \in Clean
    BY <2>2, <2>3 DEF Clean
  <2>5. CASE i \notin Repeated
    <3>1. i \in Waiting(d)
      BY <2>5 DEF IsHead, Waiting
    <3>2. HeadLeads(d, n)
      BY <2>1, <2>4, <3>1, HeadFacts
    <3>3. QED
      BY <2>5, <3>2 DEF HeadLeads
  <2>6. CASE i \in Repeated
    BY <2>1, <2>4, <2>6, RepeatsStayShut
  <2>7. QED
    BY <2>5, <2>6
<1>2. QED
  BY <1>1, RatchetCorrect, PTL

(* Two devices that take turns agree on the root and the ratchet keys of   *)
(* their session whenever nothing of it is on its way (session.py:499-603, *)
(* 617-627).                                                               *)
THEOREM TurnsMatch == Spec => []TurnsKeepMatching
<1>1. RatchetInv => TurnsKeepMatching
  <2>. SUFFICES ASSUME RatchetInv,
                       NEW sid \in Sends \ (crossed \union Torn \union cut),
                       Quiet(sid)
                PROVE  Matched(sid)
    BY DEF TurnsKeepMatching
  <2>1. /\ TypeOK /\ Basics /\ WaitInOrder
        /\ \A x \in Clean : InStep(x)
    BY InvParts DEF BySession
  <2>2. \A d \in Device :
          /\ Holds(d, sid) /\ Working(d, sid)
          /\ ~Calls(d, sid) /\ State(d, sid) = session[d][sid]
    BY DEF Quiet, Working, Calls, State
  <2>3. \A d \in Device : Coming(d, sid) = {}
    <3>1. ASSUME NEW d \in Device, NEW m \in Coming(d, sid) PROVE FALSE
      <4>1. m \in Towards(d) /\ sent[m].sid = sid /\ m # 0
        BY <2>1, ComingAreSends, SendFacts DEF Coming
      <4>2. QED
        BY <4>1 DEF Quiet
    <3>2. QED
      BY <3>1
  <2>4. sid \in Clean
    <3>1. sent[sid].sid = sid
      BY <2>1, <2>2, Peers DEF SessionsHaveEnds, Basics, Holds
    <3>2. QED
      BY <3>1 DEF Clean
  <2>5. Alice \in Device /\ Bob \in Device /\ Peer(Alice) = Bob
    BY Peers DEF Peer
  <2>6. LeadsBy(State(Alice, sid), Bob, sid, {})
    BY <2>1, <2>2, <2>3, <2>4, <2>5 DEF InStep, Leads
  <2>7. RatchetKey(Bob, sid) = State(Bob, sid).priv
    BY <2>2, <2>5 DEF RatchetKey
  <2>8. QED
    BY <2>2, <2>5, <2>6, <2>7 DEF LeadsBy, Matched
<1>2. QED
  BY <1>1, RatchetCorrect, PTL
=============================================================================
