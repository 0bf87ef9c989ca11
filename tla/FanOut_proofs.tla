---------------------------- MODULE FanOut_proofs ----------------------------
(***************************************************************************)
(* FanOutInv is an invariant of FanOut, for any devices, calls and bounds. *)
(***************************************************************************)
EXTENDS FanOut, FiniteSetTheorems, TLAPS

-----------------------------------------------------------------------------
(* Sequences without repetition.                                           *)

(* A sequence and its set of elements.                                     *)
LEMMA SeqFacts ==
  ASSUME NEW S, NEW s \in Seq(S)
  PROVE  /\ Len(s) \in Nat
         /\ DOMAIN s = 1..Len(s)
         /\ Range(s) = {s[i] : i \in 1..Len(s)}
         /\ Range(s) \subseteq S
         /\ \A i \in 1..Len(s) : s[i] \in Range(s)
         /\ s = <<>> <=> Range(s) = {}
<1>1. /\ Len(s) \in Nat
      /\ DOMAIN s = 1..Len(s)
      /\ \A i \in 1..Len(s) : s[i] \in S
      /\ s = <<>> <=> Len(s) = 0
  OBVIOUS
<1>2. Len(s) # 0 => 1 \in 1..Len(s)
  BY <1>1
<1>3. Range(s) = {s[i] : i \in 1..Len(s)}
  BY <1>1 DEF Range
<1>4. QED
  BY <1>1, <1>2, <1>3

(* The first element is taken off.                                         *)
LEMMA TakeHead ==
  ASSUME NEW S, NEW s \in Seq(S), s # <<>>
  PROVE  /\ Head(s) \in S
         /\ Head(s) \in Range(s)
         /\ Tail(s) \in Seq(S)
         /\ Range(s) = Range(Tail(s)) \union {Head(s)}
         /\ IsInjective(s) =>
              IsInjective(Tail(s)) /\ Head(s) \notin Range(Tail(s))
<1>1. /\ Len(s) \in Nat \ {0}
      /\ DOMAIN s = 1..Len(s)
      /\ Head(s) = s[1]
      /\ Tail(s) \in Seq(S)
      /\ DOMAIN Tail(s) = 1..(Len(s) - 1)
      /\ \A i \in 1..(Len(s) - 1) : Tail(s)[i] = s[i + 1]
  OBVIOUS
<1>2. \A i \in 1..Len(s) : i = 1 \/ i - 1 \in 1..(Len(s) - 1)
  BY <1>1
<1>3. Range(s) = Range(Tail(s)) \union {Head(s)}
  <2>1. \A i \in 1..Len(s) :
          i # 1 => s[i] = Tail(s)[i - 1] /\ i - 1 \in DOMAIN Tail(s)
    BY <1>1, <1>2
  <2>2. \A i \in 1..(Len(s) - 1) : i + 1 \in 1..Len(s)
    BY <1>1
  <2>3. Range(s) \subseteq Range(Tail(s)) \union {Head(s)}
    <3>1. \A i \in 1..Len(s) : s[i] \in Range(Tail(s)) \union {Head(s)}
      BY <1>1, <2>1 DEF Range
    <3>2. QED
      BY <3>1, SeqFacts
  <2>4. Range(Tail(s)) \union {Head(s)} \subseteq Range(s)
    BY <1>1, <2>2 DEF Range
  <2>5. QED
    BY <2>3, <2>4
<1>4. IsInjective(s) => IsInjective(Tail(s)) /\ Head(s) \notin Range(Tail(s))
  BY <1>1 DEF IsInjective, Range
<1>5. QED
  BY <1>1, <1>3, <1>4, SeqFacts

(* An element is added at the end.                                         *)
LEMMA AddLast ==
  ASSUME NEW S, NEW s \in Seq(S), NEW x \in S
  PROVE  /\ Append(s, x) \in Seq(S)
         /\ Append(s, x) # <<>>
         /\ Range(Append(s, x)) = Range(s) \union {x}
         /\ IsInjective(s) /\ x \notin Range(s) => IsInjective(Append(s, x))
<1>1. /\ Append(s, x) \in Seq(S)
      /\ Len(s) \in Nat
      /\ DOMAIN s = 1..Len(s)
      /\ DOMAIN Append(s, x) = 1..(Len(s) + 1)
      /\ \A i \in 1..Len(s) : Append(s, x)[i] = s[i]
      /\ Append(s, x)[Len(s) + 1] = x
  OBVIOUS
<1>2. \A i \in 1..(Len(s) + 1) : i \in 1..Len(s) \/ i = Len(s) + 1
  BY <1>1
<1>3. Range(Append(s, x)) = Range(s) \union {x}
  BY <1>1, <1>2 DEF Range
<1>4. IsInjective(s) /\ x \notin Range(s) => IsInjective(Append(s, x))
  BY <1>1, <1>2 DEF IsInjective, Range
<1>5. QED
  BY <1>1, <1>3, <1>4

(* A sequence over a set is one over a larger set.                         *)
LEMMA WiderSeq ==
  ASSUME NEW S, NEW T, S \subseteq T
  PROVE  Seq(S) \subseteq Seq(T) /\ \A R : Seq(R \X S) \subseteq Seq(R \X T)
<1>1. \A U, V : U \subseteq V => Seq(U) \subseteq Seq(V)
  OBVIOUS
<1>2. \A R : R \X S \subseteq R \X T
  OBVIOUS
<1>3. QED
  BY <1>1, <1>2

(* One value of a function is replaced.                                    *)
LEMMA Updated ==
  ASSUME NEW A, NEW B, NEW f \in [A -> B], NEW a \in A, NEW b \in B
  PROVE  [f EXCEPT ![a] = b] \in [A -> B]
OBVIOUS

(* A sequence of one element.                                              *)
LEMMA Single ==
  ASSUME NEW S, NEW x \in S
  PROVE  <<x>> \in Seq(S) /\ Range(<<x>>) = {x} /\ IsInjective(<<x>>)
<1>1. DOMAIN <<x>> = {1} /\ <<x>>[1] = x /\ <<x>> \in Seq(S)
  OBVIOUS
<1>2. QED
  BY <1>1 DEF Range, IsInjective

(* Two sequences without a common element, one after the other.            *)
LEMMA Joined ==
  ASSUME NEW S, NEW s \in Seq(S), NEW t \in Seq(S)
  PROVE  /\ s \o t \in Seq(S)
         /\ Range(s \o t) = Range(s) \union Range(t)
         /\ IsInjective(s) /\ IsInjective(t) /\ Range(s) \intersect Range(t) = {}
              => IsInjective(s \o t)
<1>1. /\ s \o t \in Seq(S)
      /\ Len(s) \in Nat /\ Len(t) \in Nat
      /\ DOMAIN s = 1..Len(s) /\ DOMAIN t = 1..Len(t)
      /\ DOMAIN (s \o t) = 1..(Len(s) + Len(t))
      /\ \A i \in 1..Len(s) : (s \o t)[i] = s[i]
      /\ \A i \in 1..Len(t) : (s \o t)[Len(s) + i] = t[i]
  OBVIOUS
<1>2. \A i \in 1..(Len(s) + Len(t)) :
        \/ i \in 1..Len(s)
        \/ i - Len(s) \in 1..Len(t) /\ i = Len(s) + (i - Len(s))
  BY <1>1
<1>3. \A i \in 1..Len(t) : Len(s) + i \in 1..(Len(s) + Len(t))
  BY <1>1
<1>4. Range(s \o t) = Range(s) \union Range(t)
  <2>1. \A i \in 1..(Len(s) + Len(t)) :
          (s \o t)[i] \in Range(s) \union Range(t)
    BY <1>1, <1>2 DEF Range
  <2>2. ASSUME NEW i \in 1..Len(s) PROVE s[i] \in Range(s \o t)
    <3>1. i \in DOMAIN (s \o t) /\ (s \o t)[i] = s[i]
      BY <1>1
    <3>2. QED
      BY <3>1 DEF Range
  <2>3. ASSUME NEW i \in 1..Len(t) PROVE t[i] \in Range(s \o t)
    <3>1. Len(s) + i \in DOMAIN (s \o t) /\ (s \o t)[Len(s) + i] = t[i]
      BY <1>1, <1>3
    <3>2. QED
      BY <3>1 DEF Range
  <2>4. Range(s \o t) \subseteq Range(s) \union Range(t)
    <3>. DEFINE u == s \o t
    <3>1. u \in Seq(S) /\ Len(u) = Len(s) + Len(t)
      BY <1>1
    <3>2. \A i \in 1..Len(u) : u[i] \in Range(s) \union Range(t)
      BY <2>1, <3>1
    <3>. HIDE DEF u
    <3>3. Range(u) \subseteq Range(s) \union Range(t)
      BY <3>1, <3>2, SeqFacts
    <3>4. QED
      BY <3>3 DEF u
  <2>5. Range(s) \union Range(t) \subseteq Range(s \o t)
    BY <2>2, <2>3, SeqFacts
  <2>6. QED
    BY <2>4, <2>5
<1>5. ASSUME IsInjective(s), IsInjective(t), Range(s) \intersect Range(t) = {},
             NEW i \in 1..(Len(s) + Len(t)), NEW j \in 1..(Len(s) + Len(t)),
             (s \o t)[i] = (s \o t)[j]
      PROVE  i = j
  <2>1. CASE i \in 1..Len(s) /\ j \in 1..Len(s)
    BY <1>1, <1>5, <2>1 DEF IsInjective
  <2>2. CASE i \notin 1..Len(s) /\ j \notin 1..Len(s)
    <3>1. t[i - Len(s)] = t[j - Len(s)]
      BY <1>1, <1>2, <1>5, <2>2
    <3>2. i - Len(s) = j - Len(s)
      BY <1>1, <1>2, <1>5, <2>2, <3>1 DEF IsInjective
    <3>3. QED
      BY <1>1, <3>2
  <2>3. ASSUME NEW k \in 1..Len(s), NEW l \in 1..Len(t)
        PROVE  s[k] # t[l]
    BY <1>1, <1>5 DEF Range
  <2>4. QED
    BY <1>1, <1>2, <1>5, <2>1, <2>2, <2>3
<1>6. QED
  BY <1>1, <1>4, <1>5 DEF IsInjective

(* A part of a sequence.                                                   *)
LEMMA Part ==
  ASSUME NEW S, NEW s \in Seq(S), NEW m \in 1..(Len(s) + 1), NEW n \in 0..Len(s)
  PROVE  /\ SubSeq(s, m, n) \in Seq(S)
         /\ Range(SubSeq(s, m, n)) = {s[i] : i \in m..n}
         /\ IsInjective(s) => IsInjective(SubSeq(s, m, n))
<1>. DEFINE u == SubSeq(s, m, n)
<1>1. /\ Len(s) \in Nat /\ DOMAIN s = 1..Len(s)
      /\ u \in Seq(S)
      /\ Len(u) = IF m <= n THEN n - m + 1 ELSE 0
      /\ \A i \in 1..(n - m + 1) : u[i] = s[m + i - 1]
  OBVIOUS
<1>2. DOMAIN u = 1..Len(u) /\ Len(u) \in Nat
  BY <1>1
<1>. HIDE DEF u
<1>3. \A i \in 1..Len(u) : m + i - 1 \in m..n /\ u[i] = s[m + i - 1]
  BY <1>1
<1>4. \A i \in m..n : i - m + 1 \in 1..Len(u) /\ u[i - m + 1] = s[i]
  <2>1. ASSUME NEW i \in m..n
        PROVE  /\ i - m + 1 \in 1..(n - m + 1) /\ m <= n
               /\ m + (i - m + 1) - 1 = i
    OBVIOUS
  <2>2. QED
    BY <1>1, <2>1
<1>5. Range(u) = {s[i] : i \in m..n}
  <2>1. Range(u) = {u[i] : i \in 1..Len(u)}
    BY <1>1, SeqFacts
  <2>2. \A i \in 1..Len(u) : u[i] \in {s[j] : j \in m..n}
    BY <1>3
  <2>3. \A i \in m..n : s[i] \in {u[j] : j \in 1..Len(u)}
    BY <1>4
  <2>4. QED
    BY <2>1, <2>2, <2>3
<1>6. ASSUME IsInjective(s), NEW i \in 1..Len(u), NEW j \in 1..Len(u),
             u[i] = u[j]
      PROVE  i = j
  <2>1. m + i - 1 \in 1..Len(s) /\ m + j - 1 \in 1..Len(s)
    BY <1>1, <1>3
  <2>2. m + i - 1 = m + j - 1
    BY <1>1, <1>3, <1>6, <2>1 DEF IsInjective
  <2>3. QED
    BY <1>2, <2>2
<1>7. QED
  BY <1>1, <1>2, <1>5, <1>6 DEF IsInjective, u

(* One element is left out.                                                *)
LEMMA LeaveOut ==
  ASSUME NEW S, NEW s \in Seq(S), IsInjective(s), NEW k \in 1..Len(s)
  PROVE  /\ RemoveAt(s, k) \in Seq(S)
         /\ Range(RemoveAt(s, k)) = Range(s) \ {s[k]}
         /\ IsInjective(RemoveAt(s, k))
<1>. DEFINE a == SubSeq(s, 1, k - 1)
            b == SubSeq(s, k + 1, Len(s))
<1>1. Len(s) \in Nat /\ DOMAIN s = 1..Len(s)
  OBVIOUS
<1>2. /\ a \in Seq(S) /\ IsInjective(a) /\ Range(a) = {s[i] : i \in 1..(k - 1)}
      /\ b \in Seq(S) /\ IsInjective(b)
      /\ Range(b) = {s[i] : i \in (k + 1)..Len(s)}
  <2>1. /\ 1 \in 1..(Len(s) + 1) /\ k - 1 \in 0..Len(s)
        /\ k + 1 \in 1..(Len(s) + 1) /\ Len(s) \in 0..Len(s)
    BY <1>1
  <2>2. a \in Seq(S) /\ IsInjective(a) /\ Range(a) = {s[i] : i \in 1..(k - 1)}
    BY <2>1, Part
  <2>3. /\ b \in Seq(S) /\ IsInjective(b)
        /\ Range(b) = {s[i] : i \in (k + 1)..Len(s)}
    BY <2>1, Part
  <2>4. QED
    BY <2>2, <2>3
<1>. HIDE DEF a, b
<1>3. Range(a) \intersect Range(b) = {}
  BY <1>1, <1>2 DEF IsInjective
<1>4. Range(a) \union Range(b) = Range(s) \ {s[k]}
  <2>1. Range(s) = {s[i] : i \in 1..Len(s)}
    BY SeqFacts
  <2>2. \A i \in 1..Len(s) : i \in 1..(k - 1) \/ i = k \/ i \in (k + 1)..Len(s)
    BY <1>1
  <2>3. \A i \in 1..Len(s) : i # k => s[i] # s[k]
    BY <1>1 DEF IsInjective
  <2>4. \A i \in 1..(k - 1) : i \in 1..Len(s) /\ i # k
    BY <1>1
  <2>5. \A i \in (k + 1)..Len(s) : i \in 1..Len(s) /\ i # k
    BY <1>1
  <2>6. Range(a) \union Range(b) \subseteq Range(s) \ {s[k]}
    BY <1>2, <2>1, <2>3, <2>4, <2>5
  <2>7. Range(s) \ {s[k]} \subseteq Range(a) \union Range(b)
    BY <1>2, <2>1, <2>2
  <2>8. QED
    BY <2>6, <2>7
<1>5. RemoveAt(s, k) = a \o b
  BY DEF RemoveAt, a, b
<1>6. /\ a \o b \in Seq(S)
      /\ Range(a \o b) = Range(a) \union Range(b)
      /\ IsInjective(a \o b)
  BY ZenonT(40), <1>2, <1>3, Joined
<1>7. QED
  BY <1>4, <1>5, <1>6

-----------------------------------------------------------------------------
(* Rosters.                                                                *)

(* The targets in a roster are its devices but the sender.                 *)
LEMMA OthersAreTargets ==
  ASSUME TypeOK, RostersAreDistinct, NEW a \in Account
  PROVE  /\ Others(a) \in Seq(Members(a))
         /\ Range(Others(a)) = Range(roster[a]) \ {Sender}
         /\ IsInjective(Others(a))
<1>. DEFINE s == roster[a]
            at == {i \in DOMAIN s : s[i] = Sender}
<1>1. s \in Seq(Members(a)) /\ IsInjective(s)
  BY DEF TypeOK, RostersAreDistinct
<1>2. CASE at = {}
  <2>1. Others(a) = s
    BY <1>2 DEF Others
  <2>2. Sender \notin Range(s)
    BY <1>2 DEF Range
  <2>3. QED
    BY <1>1, <2>1, <2>2
<1>3. CASE at # {}
  <2>. DEFINE k == CHOOSE i \in at : TRUE
  <2>1. k \in at
    BY <1>3
  <2>2. Others(a) = RemoveAt(s, k)
    BY <1>3 DEF Others
  <2>. HIDE DEF k
  <2>3. k \in 1..Len(s) /\ s[k] = Sender
    BY <1>1, <2>1
  <2>. HIDE DEF s
  <2>4. QED
    BY <1>1, <2>2, <2>3, LeaveOut DEF s
<1>4. QED
  BY <1>2, <1>3

(* A roster that is read back has the same devices, each once.             *)
LEMMA SortedIsDistinct ==
  ASSUME NEW S, NEW s \in Seq(S), NEW r \in Sorted(s)
  PROVE  r \in Seq(S) /\ Range(r) = Range(s) /\ IsInjective(r)
<1>1. /\ Len(s) \in Nat /\ DOMAIN s = 1..Len(s)
      /\ r \in [1..Len(s) -> Range(s)]
      /\ Range(r) = Range(s) /\ Range(s) \subseteq S
  BY SeqFacts DEF Sorted
<1>2. r \in Seq(S)
  <2>1. r \in [1..Len(s) -> S]
    BY <1>1
  <2>2. QED
    BY <1>1, <2>1
<1>3. \A d : ~ Precedes(d, d)
  <2>1. /\ IdOrder \in Seq(Device)
        /\ IsInjective(IdOrder)
    BY FanOutAssumption DEF FanOutAssumption
  <2>2. DOMAIN IdOrder \subseteq Nat
    BY <2>1
  <2>3. \A i, j \in Nat : i < j => i # j
    OBVIOUS
  <2>4. QED
    BY <2>1, <2>2, <2>3 DEF Precedes, IsInjective
<1>4. ASSUME NEW i \in 1..Len(s), NEW j \in 1..Len(s), r[i] = r[j]
      PROVE  i = j
  <2>1. i < j => Precedes(r[i], r[j])
    BY <1>1 DEF Sorted
  <2>2. j < i => Precedes(r[j], r[i])
    BY <1>1 DEF Sorted
  <2>3. QED
    BY <1>1, <1>3, <1>4, <2>1, <2>2
<1>5. QED
  BY <1>1, <1>2, <1>4 DEF IsInjective

-----------------------------------------------------------------------------
(* Envelopes.                                                              *)

(* An envelope that is posted has its receipt afterwards; it is queued     *)
(* behind all others unless it had one.                                    *)
LEMMA QueueFacts ==
  ASSUME TypeOK, NEW e \in Envelopes, NEW id \in 1..(Len(accepted) + 1),
         Queue(e, id)
  PROVE  /\ accepted' \in Seq(Envelopes)
         /\ Ids \subseteq Ids'
         /\ \A i \in Ids : accepted'[i] = accepted[i]
         /\ id \in Ids' /\ id # 0
         /\ accepted'[id] = e
         /\ receipts \subseteq receipts' /\ receipts' \subseteq Ids'
         /\ id \in receipts'
         /\ Range(accepted') = Range(accepted) \union {e}
         /\ \/ accepted' = accepted
            \/ /\ ~\E i \in receipts : KnownReceipt(i, e)
               /\ Ids' = Ids \union {id}
               /\ \A i \in Ids : i < id
<1>1. /\ accepted \in Seq(Envelopes) /\ receipts \subseteq Ids
      /\ Len(accepted) \in Nat
      /\ Ids = 1..Len(accepted)
  BY DEF TypeOK, Ids
<1>2. CASE \E i \in receipts : KnownReceipt(i, e)
  <2>1. UNCHANGED <<accepted, receipts>> /\ KnownReceipt(id, e)
    BY <1>2 DEF Queue
  <2>2. id \in receipts /\ accepted[id] = e
    BY <2>1 DEF KnownReceipt
  <2>3. e \in Range(accepted)
    BY <1>1, <2>2 DEF Ids, Range
  <2>4. QED
    BY <1>1, <2>1, <2>2, <2>3 DEF Ids
<1>3. CASE ~\E i \in receipts : KnownReceipt(i, e)
  <2>1. /\ id = Len(accepted) + 1
        /\ accepted' = Append(accepted, e)
        /\ receipts' = receipts \union {id}
    BY <1>3 DEF Queue
  <2>2. /\ accepted' \in Seq(Envelopes)
        /\ Range(accepted') = Range(accepted) \union {e}
    BY <1>1, <2>1, AddLast
  <2>3. /\ Ids' = 1..(Len(accepted) + 1)
        /\ \A i \in Ids : accepted'[i] = accepted[i]
        /\ accepted'[id] = e
    BY <1>1, <2>1 DEF Ids
  <2>4. Ids' = Ids \union {id} /\ \A i \in Ids : i < id
    BY <1>1, <2>1, <2>3
  <2>5. id \in Ids' /\ id # 0
    BY <2>4
  <2>6. receipts' \subseteq Ids'
    BY <1>1, <2>1, <2>4
  <2>7. QED
    BY <1>3, <2>1, <2>2, <2>3, <2>4, <2>5, <2>6
<1>4. QED
  BY <1>2, <1>3

(* What the relay accepted stays.                                          *)
LEMMA AcceptedStays ==
  ASSUME TypeOK, [Next]_vars
  PROVE  /\ Ids \subseteq Ids'
         /\ \A i \in Ids : accepted'[i] = accepted[i]
         /\ Range(accepted) \subseteq Range(accepted')
<1>1. CASE accepted' = accepted
  BY <1>1 DEF Ids
<1>2. ASSUME NEW c \in Call, QueueMessage(c)
      PROVE  \E e \in Envelopes, id \in 1..(Len(accepted) + 1) : Queue(e, id)
  <2>1. todo[c] # <<>> /\ todo[c] \in Seq(Device)
    BY <1>2 DEF QueueMessage, TypeOK
  <2>2. <<c, Head(todo[c])>> \in Envelopes
    BY <2>1 DEF Envelopes
  <2>3. QED
    BY <1>2, <2>2 DEF QueueMessage
<1>3. ASSUME NEW e \in late, LateQueueMessage(e)
      PROVE  \E f \in Envelopes, id \in 1..(Len(accepted) + 1) : Queue(f, id)
  BY <1>3 DEF LateQueueMessage, TypeOK
<1>4. ASSUME NEW e \in Envelopes, NEW id \in 1..(Len(accepted) + 1), Queue(e, id)
      PROVE  /\ Ids \subseteq Ids'
             /\ \A i \in Ids : accepted'[i] = accepted[i]
             /\ Range(accepted) \subseteq Range(accepted')
  BY <1>4, QueueFacts
<1>5. \/ accepted' = accepted
      \/ \E c \in Call : QueueMessage(c)
      \/ \E e \in late : LateQueueMessage(e)
  BY DEF Next, vars, relayVars, Approve, Register, PublishBundle, Restart,
     Send, FetchHome, FetchAway, PostNext, RetrySend, SaveSession, StoreSent,
     Interrupt
<1>6. QED
  BY <1>1, <1>2, <1>3, <1>4, <1>5

(* A call that is posting works on a device.                               *)
LEMMA CurrentIsDevice ==
  ASSUME TypeOK, NEW c \in Call, todo[c] # <<>>
  PROVE  Head(todo[c]) \in Device /\ <<c, Head(todo[c])>> \in Envelopes
BY DEF TypeOK, Envelopes

-----------------------------------------------------------------------------
(* Types.                                                                  *)

(* The initial states satisfy every part.                                  *)
LEMMA InitFanOut == Init => FanOutInv
<1>. SUFFICES ASSUME Init PROVE FanOutInv
  OBVIOUS
<1>. USE FanOutAssumption DEF FanOutAssumption, Init
<1>1. ASSUME NEW a \in Account
      PROVE  /\ roster[a] \in Seq(Members(a))
             /\ primary[a] \in Range(roster[a])
             /\ IsInjective(roster[a])
  <2>1. CASE a = "home" /\ primary[a] # Sender
    <3>1. roster[a] = <<primary[a], Sender>>
      BY <2>1
    <3>2. primary[a] \in Members(a) /\ Sender \in Members(a)
      BY <2>1 DEF Members
    <3>3. QED
      BY <2>1, <3>1, <3>2 DEF Range, IsInjective
  <2>2. CASE ~(a = "home" /\ primary[a] # Sender)
    <3>1. roster[a] = <<primary[a]>> /\ primary[a] \in Members(a)
      BY <2>2
    <3>2. QED
      BY <3>1, Single
  <2>3. QED
    BY <2>1, <2>2
<1>2. TypeOK
  <2>1. <<>> \in Seq(Envelopes) /\ <<>> \in Seq(Device)
        /\ <<>> \in Seq(Device \X Ids)
    OBVIOUS
  <2>2. listed \subseteq Device /\ bundled \subseteq Device
    BY DEF Device, Members, Account
  <2>3. QED
    BY <1>1, <2>1, <2>2 DEF TypeOK, Inside, Account
<1>3. \A c \in Call : Served(c) = {} /\ Reached(c) = {}
  BY DEF Served, Reached, Range
<1>4. HolderIsCurrent /\ TargetsRemain /\ AnswersAreTrue
  BY DEF HolderIsCurrent, TargetsRemain, AnswersAreTrue, Inside, Range
<1>5. CallsProgress /\ SentNamesEnvelope
  BY <1>3 DEF CallsProgress, SentNamesEnvelope, IsInjective, Range
<1>6. DiskCounts
  <2>1. \A d \in Device : ServedBy(d) = {}
    BY <1>3 DEF ServedBy
  <2>2. QED
    BY <2>1, FS_EmptySet DEF DiskCounts
<1>7. LateIsKnown /\ CompletedAreFirst /\ ReachedIsServed
  BY <1>3 DEF LateIsKnown, CompletedAreFirst, ReachedIsServed
<1>8. QED
  BY <1>1, <1>2, <1>4, <1>5, <1>6, <1>7 DEF FanOutInv, RostersAreDistinct

(* TypeOK is preserved by every step.                                      *)
LEMMA NextTypes == FanOutInv /\ [Next]_vars => TypeOK'
<1>. SUFFICES ASSUME TypeOK, RostersAreDistinct, AnswersAreTrue, CallsProgress,
                     [Next]_vars
              PROVE  TypeOK'
  BY DEF FanOutInv
<1>. USE FanOutAssumption
     DEF FanOutAssumption, vars, linkVars, relayVars, callVars, boundVars,
         Fault
<1>0. CASE UNCHANGED vars
  BY <1>0 DEF TypeOK, Ids
<1>1. ASSUME NEW a \in Account, NEW d \in Device, Approve(a, d)
      PROVE  TypeOK'
  <2>. DEFINE list == Companions(a) \union {d}
  <2>1. list \subseteq Device
    <3>1. roster[a] \in Seq(Members(a)) /\ Members(a) \subseteq Device
      BY DEF TypeOK, Members, Device
    <3>2. Range(roster[a]) \subseteq Device
      BY <3>1, SeqFacts
    <3>3. QED
      BY <3>2 DEF Companions
  <2>2. /\ listed' = (listed \ Members(a)) \union list
        /\ pending' = pending \union {<<d, list>>}
        /\ UNCHANGED <<primary, roster, bundled, relayVars, disk, callVars,
                       boundVars>>
    BY <1>1 DEF Approve
  <2>. HIDE DEF list
  <2>3. listed' \subseteq Device
    BY <2>1, <2>2 DEF TypeOK
  <2>4. \A l \in pending' : l[1] \in Device /\ l[2] \subseteq Device
    BY <2>1, <2>2 DEF TypeOK
  <2>5. QED
    BY <2>2, <2>3, <2>4 DEF TypeOK, Ids
<1>2. ASSUME NEW a \in Account, NEW d \in Device, Register(a, d)
      PROVE  TypeOK'
  <2>1. d \in Members(a)
    BY <1>2 DEF Register
  <2>2. /\ Append(roster[a], d) \in Seq(Members(a))
        /\ Range(roster[a]) \subseteq Range(Append(roster[a], d))
    BY <2>1, AddLast DEF TypeOK
  <2>3. \A b \in Account : /\ roster'[b] \in Seq(Members(b))
                           /\ primary'[b] \in Range(roster'[b])
    BY <1>2, <2>2 DEF Register, TypeOK
  <2>4. QED
    BY <1>2, <2>3 DEF Register, TypeOK, Ids
<1>3. ASSUME NEW a \in Account, NEW d \in Device, PublishBundle(a, d)
      PROVE  TypeOK'
  BY <1>3 DEF PublishBundle, TypeOK, Ids
<1>4. ASSUME NEW c \in Call, NEW a \in Account, Send(c, a) PROVE TypeOK'
  <2>1. Reachable("home") \union Reachable(a) \subseteq Device
    BY DEF Reachable, TypeOK
  <2>2. QED
    BY <1>4, <2>1 DEF Send, TypeOK, Ids, Inside
<1>5. ASSUME NEW c \in Call, FetchHome(c) PROVE TypeOK'
  <2>1. Others("home") \in Seq(Device)
    BY OthersAreTargets DEF Account, Members, Device
  <2>2. todo' \in [Call -> Seq(Device)] /\ keyed' \in [Call -> SUBSET Device]
    <3>1. \/ UNCHANGED <<todo, keyed>>
          \/ /\ todo' = [todo EXCEPT ![c] = Others("home")]
             /\ \E ks \in SUBSET Device : keyed' = [keyed EXCEPT ![c] = ks]
      BY <1>5 DEF FetchHome, TypeOK, Device
    <3>2. todo \in [Call -> Seq(Device)] /\ keyed \in [Call -> SUBSET Device]
      BY DEF TypeOK
    <3>3. todo' \in [Call -> Seq(Device)]
      <4>1. [todo EXCEPT ![c] = Others("home")] \in [Call -> Seq(Device)]
        BY <2>1, <3>2, Updated
      <4>2. QED
        BY <3>1, <3>2, <4>1
    <3>4. keyed' \in [Call -> SUBSET Device]
      <4>1. \A ks \in SUBSET Device :
              [keyed EXCEPT ![c] = ks] \in [Call -> SUBSET Device]
        BY <3>2, Updated
      <4>2. QED
        BY <3>1, <3>2, <4>1
    <3>5. QED
      BY <3>3, <3>4
  <2>3. /\ pc' \in [Call -> Inside \union {"idle", "done", "failed"}]
        /\ pc'[c] \notin {"posted", "answered"}
        /\ \A b \in Call : b # c => pc'[b] = pc[b] /\ todo'[b] = todo[b]
    <3>1. /\ \E step \in {"next", "away", "failed"} :
               pc' = [pc EXCEPT ![c] = step]
          /\ \/ todo' = todo
             \/ todo' = [todo EXCEPT ![c] = Others("home")]
      BY <1>5 DEF FetchHome, StartOn
    <3>2. QED
      BY <3>1 DEF TypeOK, Inside
  <2>4. QED
    BY <1>5, <2>2, <2>3 DEF FetchHome, TypeOK, Ids
<1>6. ASSUME NEW c \in Call, FetchAway(c) PROVE TypeOK'
  <2>1. Others("away") \in Seq(Device)
    BY OthersAreTargets DEF Account, Members, Device
  <2>2. todo[c] \o Others("away") \in Seq(Device)
    BY <2>1 DEF TypeOK
  <2>3. todo' \in [Call -> Seq(Device)] /\ keyed' \in [Call -> SUBSET Device]
    <3>1. \/ UNCHANGED <<todo, keyed>>
          \/ /\ todo' = [todo EXCEPT ![c] = todo[c] \o Others("away")]
             /\ \E ks \in SUBSET Device : keyed' = [keyed EXCEPT ![c] = ks]
      BY <1>6 DEF FetchAway, TypeOK, Device
    <3>2. todo \in [Call -> Seq(Device)] /\ keyed \in [Call -> SUBSET Device]
      BY DEF TypeOK
    <3>3. todo' \in [Call -> Seq(Device)]
      <4>1. [todo EXCEPT ![c] = todo[c] \o Others("away")] \in [Call -> Seq(Device)]
        BY <2>2, <3>2, Updated
      <4>2. QED
        BY <3>1, <3>2, <4>1
    <3>4. keyed' \in [Call -> SUBSET Device]
      <4>1. \A ks \in SUBSET Device :
              [keyed EXCEPT ![c] = ks] \in [Call -> SUBSET Device]
        BY <3>2, Updated
      <4>2. QED
        BY <3>1, <3>2, <4>1
    <3>5. QED
      BY <3>3, <3>4
  <2>4. /\ pc' \in [Call -> Inside \union {"idle", "done", "failed"}]
        /\ pc'[c] \notin {"posted", "answered"}
        /\ \A b \in Call : b # c => pc'[b] = pc[b] /\ todo'[b] = todo[b]
    <3>1. /\ \E step \in {"next", "away", "failed"} :
               pc' = [pc EXCEPT ![c] = step]
          /\ \/ todo' = todo
             \/ todo' = [todo EXCEPT ![c] = todo[c] \o Others("away")]
      BY <1>6 DEF FetchAway, StartOn
    <3>2. QED
      BY <3>1 DEF TypeOK, Inside
  <2>5. QED
    BY <1>6, <2>3, <2>4 DEF FetchAway, TypeOK, Ids
<1>7. ASSUME NEW c \in Call, PostNext(c) PROVE TypeOK'
  <2>1. /\ \/ pc' = [pc EXCEPT ![c] = "posted"] /\ todo[c] # <<>>
           \/ pc' = [pc EXCEPT ![c] = "failed"]
        /\ tries' = tries \/ tries' = [tries EXCEPT ![c] = 1]
        /\ UNCHANGED <<linkVars, relayVars, disk, mem, to, todo, keyed, reply,
                       got, sent, before, boundVars>>
    BY <1>7 DEF PostNext
  <2>2. tries' \in [Call -> 0..2]
    <3>1. tries \in [Call -> 0..2] /\ 1 \in 0..2
      BY DEF TypeOK
    <3>2. QED
      BY <2>1, <3>1, Updated
  <2>3. QED
    BY <2>1, <2>2 DEF TypeOK, Ids, Inside
<1>8. ASSUME NEW c \in Call, RetrySend(c) PROVE TypeOK'
  <2>1. <<c, Head(todo[c])>> \in Envelopes
    BY <1>8, CurrentIsDevice DEF RetrySend, TypeOK
  <2>2. late' \subseteq Envelopes /\ tries' \in [Call -> 0..2]
    <3>1. late' \subseteq Envelopes
      BY <1>8, <2>1 DEF RetrySend, TypeOK
    <3>2. tries' = [tries EXCEPT ![c] = 2]
      BY <1>8 DEF RetrySend, MayRetry, TypeOK
    <3>3. QED
      BY SMTT(30), <3>1, <3>2 DEF TypeOK
  <2>3. QED
    BY SMTT(30), <1>8, <2>2 DEF RetrySend, TypeOK, Ids
<1>9. ASSUME NEW c \in Call, QueueMessage(c) PROVE TypeOK'
  <2>1. <<c, Head(todo[c])>> \in Envelopes
    BY <1>9, CurrentIsDevice DEF QueueMessage, TypeOK
  <2>2. PICK id \in 1..(Len(accepted) + 1) :
          /\ Queue(<<c, Head(todo[c])>>, id)
          /\ reply' = [reply EXCEPT ![c] = id]
    BY <1>9 DEF QueueMessage
  <2>3. /\ accepted' \in Seq(Envelopes)
        /\ Ids \subseteq Ids'
        /\ id \in Ids'
        /\ receipts' \subseteq Ids'
    BY <2>1, <2>2, QueueFacts
  <2>4. Seq(Device \X Ids) \subseteq Seq(Device \X Ids')
    BY <2>3, WiderSeq
  <2>5. got' \in [Call -> Seq(Device \X Ids')]
    BY <1>9, <2>4 DEF QueueMessage, TypeOK
  <2>6. reply' \in [Call -> Ids' \union {0}] /\ sent' \in [Call -> Ids' \union {0}]
    BY <1>9, <2>2, <2>3 DEF QueueMessage, TypeOK
  <2>7. QED
    BY <1>9, <2>3, <2>5, <2>6 DEF QueueMessage, TypeOK, Inside
<1>10. ASSUME NEW e \in late, LateQueueMessage(e) PROVE TypeOK'
  <2>1. e \in Envelopes
    BY DEF TypeOK
  <2>2. PICK id \in 1..(Len(accepted) + 1) : Queue(e, id)
    BY <1>10 DEF LateQueueMessage
  <2>3. /\ accepted' \in Seq(Envelopes)
        /\ Ids \subseteq Ids'
        /\ receipts' \subseteq Ids'
    BY <2>1, <2>2, QueueFacts
  <2>4. Seq(Device \X Ids) \subseteq Seq(Device \X Ids')
    BY <2>3, WiderSeq
  <2>5. got' \in [Call -> Seq(Device \X Ids')]
    BY <1>10, <2>4 DEF LateQueueMessage, TypeOK
  <2>6. reply' \in [Call -> Ids' \union {0}] /\ sent' \in [Call -> Ids' \union {0}]
    BY <1>10, <2>3 DEF LateQueueMessage, TypeOK
  <2>7. QED
    BY <1>10, <2>3, <2>5, <2>6 DEF LateQueueMessage, TypeOK
<1>11. CASE Restart
  <2>1. PICK home \in Sorted(roster["home"]), away \in Sorted(roster["away"]) :
          roster' = [a \in Account |-> IF a = "home" THEN home ELSE away]
    BY <1>11 DEF Restart
  <2>2. /\ home \in Seq(Members("home")) /\ Range(home) = Range(roster["home"])
        /\ away \in Seq(Members("away")) /\ Range(away) = Range(roster["away"])
    BY SortedIsDistinct DEF TypeOK, Account
  <2>3. \A a \in Account : /\ roster'[a] \in Seq(Members(a))
                           /\ primary'[a] \in Range(roster'[a])
    BY <1>11, <2>1, <2>2 DEF Restart, TypeOK, Account
  <2>4. QED
    BY <1>11, <2>3 DEF Restart, TypeOK, Ids
<1>12. ASSUME NEW c \in Call, SaveSession(c) PROVE TypeOK'
  <2>. DEFINE d == Head(todo[c])
  <2>1. todo[c] # <<>> /\ d \in Device /\ reply[c] \in Ids
    BY <1>12, CurrentIsDevice DEF SaveSession, TypeOK, AnswersAreTrue
  <2>2. Tail(todo[c]) \in Seq(Device)
    BY <2>1, TakeHead DEF TypeOK
  <2>3. Append(got[c], <<d, reply[c]>>) \in Seq(Device \X Ids)
    <3>1. got[c] \in Seq(Device \X Ids)
      BY DEF TypeOK
    <3>2. <<d, reply[c]>> \in Device \X Ids
      BY <2>1
    <3>3. QED
      BY <3>1, <3>2, AddLast
  <2>4. got' \in [Call -> Seq(Device \X Ids)] /\ todo' \in [Call -> Seq(Device)]
    BY <1>12, <2>2, <2>3 DEF SaveSession, TypeOK
  <2>5. disk' \in [Device -> Nat] /\ mem' \in [Call -> [Device -> Nat]]
    <3>1. /\ mem' = [mem EXCEPT ![c][d] = @ + 1]
          /\ disk' = [mem[c] EXCEPT ![d] = @ + 1]
          /\ mem \in [Call -> [Device -> Nat]]
      BY <1>12 DEF SaveSession, SavedState, TypeOK
    <3>2. [mem[c] EXCEPT ![d] = @ + 1] \in [Device -> Nat]
      BY <2>1, <3>1
    <3>3. QED
      BY <3>1, <3>2
  <2>6. /\ pc' = [pc EXCEPT ![c] = "next"] /\ reply' = [reply EXCEPT ![c] = 0]
        /\ todo' = [todo EXCEPT ![c] = Tail(@)]
        /\ UNCHANGED <<linkVars, relayVars, to, keyed, tries, sent, before,
                       boundVars>>
    BY <1>12 DEF SaveSession
  <2>7. QED
    BY <2>4, <2>5, <2>6 DEF TypeOK, Ids, Inside
<1>13. ASSUME NEW c \in Call, StoreSent(c) PROVE TypeOK'
  <2>1. got[c] # <<>> /\ got[c] \in Seq(Device \X Ids)
    BY <1>13 DEF StoreSent, CallsProgress, TypeOK
  <2>2. \A r \in Range(got[c]) : r[2] \in Ids
    BY <2>1, SeqFacts
  <2>3. got[c][1] \in Range(got[c])
    BY <2>1, TakeHead
  <2>4. SentId(c) \in Ids
    BY <2>2, <2>3 DEF SentId
  <2>5. QED
    BY <1>13, <2>4 DEF StoreSent, TypeOK, Ids, Inside
<1>14. ASSUME NEW c \in Call, Interrupt(c) PROVE TypeOK'
  <2>1. late' \subseteq Envelopes
    BY <1>14, CurrentIsDevice DEF Interrupt, TypeOK
  <2>2. QED
    BY SMTT(30), <1>14, <2>1 DEF Interrupt, TypeOK, Ids
<1>15. QED
  BY <1>0, <1>1, <1>2, <1>3, <1>4, <1>5, <1>6, <1>7, <1>8, <1>9, <1>10, <1>11,
     <1>12, <1>13, <1>14 DEF Next

-----------------------------------------------------------------------------
(* What a step of one call leaves alone.                                   *)

StepOf(c) ==
  \/ \E a \in Account : Send(c, a)
  \/ FetchHome(c) \/ FetchAway(c) \/ PostNext(c) \/ RetrySend(c)
  \/ QueueMessage(c) \/ SaveSession(c) \/ StoreSent(c) \/ Interrupt(c)

StateOf(c) ==
  <<mem[c], pc[c], to[c], todo[c], keyed[c], reply[c], got[c], sent[c],
    before[c]>>

(* A call's variables change in its own steps only.                        *)
LEMMA StaysPut ==
  ASSUME TypeOK, [Next]_vars, NEW c \in Call, ~StepOf(c)
  PROVE  UNCHANGED StateOf(c)
<1>. USE DEF vars, callVars, StateOf
<1>1. ASSUME NEW b \in Call, b # c, StepOf(b) PROVE UNCHANGED StateOf(c)
  <2>1. CASE SaveSession(b)
    <3>1. mem'[c] = mem[c]
      BY <1>1, <2>1 DEF SaveSession, TypeOK
    <3>2. QED
      BY <1>1, <2>1, <3>1 DEF SaveSession, TypeOK
  <2>2. CASE FetchHome(b) \/ FetchAway(b) \/ PostNext(b) \/ RetrySend(b)
    <3>1. CASE FetchHome(b)
      BY <1>1, <3>1 DEF TypeOK, FetchHome
    <3>2. CASE FetchAway(b)
      BY SMTT(30), <1>1, <3>2 DEF TypeOK, FetchAway
    <3>3. CASE PostNext(b)
      BY ZenonT(40), <1>1, <3>3 DEF TypeOK, PostNext
    <3>4. CASE RetrySend(b)
      BY <1>1, <3>4 DEF TypeOK, RetrySend
    <3>5. QED
      BY <2>2, <3>1, <3>2, <3>3, <3>4
  <2>3. CASE QueueMessage(b) \/ StoreSent(b) \/ Interrupt(b)
    BY <1>1, <2>3 DEF TypeOK, QueueMessage, StoreSent, Interrupt
  <2>4. ASSUME NEW a \in Account, Send(b, a) PROVE UNCHANGED StateOf(c)
    BY <1>1, <2>4 DEF TypeOK, Send
  <2>5. QED
    BY <1>1, <2>1, <2>2, <2>3, <2>4 DEF StepOf
<1>2. CASE UNCHANGED callVars
  BY <1>2
<1>3. \/ UNCHANGED callVars
      \/ \E b \in Call : StepOf(b)
  BY DEF Next, Approve, Register, PublishBundle, LateQueueMessage, Restart,
     StepOf
<1>4. QED
  BY <1>1, <1>2, <1>3

(* The sender's own steps but these two leave the state file alone.        *)
LEMMA DiskStays ==
  ASSUME [Next]_vars, \A c \in Call : ~SaveSession(c)
  PROVE  disk' = disk
BY DEF Next, vars, Approve, Register, PublishBundle, LateQueueMessage, Restart,
   Send, FetchHome, FetchAway, PostNext, RetrySend, QueueMessage, StoreSent,
   Interrupt

(* Rosters keep their devices, each once.                                  *)
LEMMA RostersGrow ==
  ASSUME TypeOK, RostersAreDistinct, [Next]_vars
  PROVE  /\ RostersAreDistinct'
         /\ \A a \in Account : Range(roster[a]) \subseteq Range(roster'[a])
         /\ primary' = primary
<1>1. primary' = primary
  BY DEF Next, vars, linkVars, Approve, Register, PublishBundle,
     LateQueueMessage, Restart, Send, FetchHome, FetchAway, PostNext,
     RetrySend, QueueMessage, SaveSession, StoreSent, Interrupt
<1>2. ASSUME NEW a \in Account, NEW d \in Device, Register(a, d)
      PROVE  \A b \in Account : /\ IsInjective(roster'[b])
                                /\ Range(roster[b]) \subseteq Range(roster'[b])
  <2>1. d \in Members(a) /\ d \notin Range(roster[a])
    BY <1>2 DEF Register
  <2>2. /\ IsInjective(Append(roster[a], d))
        /\ Range(roster[a]) \subseteq Range(Append(roster[a], d))
    BY <2>1, AddLast DEF TypeOK, RostersAreDistinct
  <2>3. roster' = [roster EXCEPT ![a] = Append(@, d)]
    BY <1>2 DEF Register
  <2>4. ASSUME NEW b \in Account, b # a PROVE roster'[b] = roster[b]
    BY <2>3, <2>4
  <2>5. a \in DOMAIN roster => roster'[a] = Append(roster[a], d)
    BY <2>3
  <2>6. QED
    BY <2>2, <2>4, <2>5 DEF RostersAreDistinct, TypeOK
<1>3. CASE Restart
  <2>1. PICK home \in Sorted(roster["home"]), away \in Sorted(roster["away"]) :
          roster' = [a \in Account |-> IF a = "home" THEN home ELSE away]
    BY <1>3 DEF Restart
  <2>2. /\ IsInjective(home) /\ Range(home) = Range(roster["home"])
        /\ IsInjective(away) /\ Range(away) = Range(roster["away"])
    BY SortedIsDistinct DEF TypeOK, Account
  <2>3. QED
    BY <1>1, <2>1, <2>2 DEF Account, RostersAreDistinct
<1>4. CASE roster' = roster
  BY <1>1, <1>4 DEF RostersAreDistinct
<1>5. \/ \E a \in Account, d \in Device : Register(a, d)
      \/ Restart
      \/ roster' = roster
  BY DEF Next, vars, linkVars, Approve, PublishBundle,
     LateQueueMessage, Send, FetchHome, FetchAway, PostNext,
     RetrySend, QueueMessage, SaveSession, StoreSent, Interrupt
<1>6. QED
  BY <1>1, <1>2, <1>3, <1>4, <1>5 DEF RostersAreDistinct

(* HolderIsCurrent is preserved: only send() takes the lock, when it is    *)
(* free, and only the call that has it writes the state file.              *)
LEMMA NextHolder == FanOutInv /\ [Next]_vars => HolderIsCurrent'
<1>. SUFFICES ASSUME TypeOK, HolderIsCurrent, [Next]_vars,
                     NEW c \in Call, pc'[c] \in Inside
              PROVE  /\ mem'[c] = disk'
                     /\ \A b \in Call : pc'[b] \in Inside => b = c
  BY DEF FanOutInv, HolderIsCurrent
<1>1. ASSUME NEW b \in Call, pc'[b] \in Inside, pc[b] \notin Inside
      PROVE  /\ \A e \in Call : pc[e] \notin Inside
             /\ \A e \in Call : e # b => pc'[e] = pc[e]
             /\ mem'[b] = disk /\ disk' = disk
  <2>1. \E a \in Account : Send(b, a)
    <3>1. StepOf(b)
      BY <1>1, StaysPut DEF StateOf
    <3>2. ~Interrupt(b) /\ ~StoreSent(b)
      BY <1>1 DEF Interrupt, StoreSent, TypeOK, Inside
    <3>3. QED
      BY <1>1, <3>1, <3>2 DEF StepOf, FetchHome, FetchAway, PostNext,
         RetrySend, QueueMessage, SaveSession, Inside
  <2>2. QED
    BY <2>1 DEF Send, LockIsFree, TypeOK
<1>2. CASE pc[c] \notin Inside
  BY <1>1, <1>2
<1>3. CASE pc[c] \in Inside
  <2>1. \A b \in Call : pc'[b] \in Inside => b = c
    BY <1>1, <1>3 DEF HolderIsCurrent
  <2>2. CASE \E b \in Call : SaveSession(b)
    <3>1. SaveSession(c)
      BY <1>3, <2>2 DEF HolderIsCurrent, SaveSession, Inside
    <3>2. QED
      BY <2>1, <3>1 DEF SaveSession, SavedState, TypeOK
  <2>3. CASE \A b \in Call : ~SaveSession(b)
    <3>1. disk' = disk
      BY <2>3, DiskStays
    <3>2. mem'[c] = mem[c]
      <4>1. \A a \in Account : ~Send(c, a)
        BY <1>3 DEF Send, Inside
      <4>2. CASE StepOf(c)
        BY <2>3, <4>1, <4>2 DEF StepOf, FetchHome, FetchAway, PostNext,
           RetrySend, QueueMessage, StoreSent, Interrupt
      <4>3. QED
        BY <4>2, StaysPut DEF StateOf
    <3>3. QED
      BY <1>3, <2>1, <3>1, <3>2 DEF HolderIsCurrent
  <2>4. QED
    BY <2>2, <2>3
<1>4. QED
  BY <1>2, <1>3

(* A device is served when its receipt has arrived.                        *)
LEMMA ServedGrows ==
  ASSUME TypeOK, AnswersAreTrue, [Next]_vars, NEW c \in Call
  PROVE  /\ SaveSession(c) =>
              /\ todo[c] # <<>>
              /\ got'[c] = Append(got[c], <<Head(todo[c]), reply[c]>>)
              /\ got'[c] # <<>>
              /\ Range(got'[c]) = Range(got[c]) \union {<<Head(todo[c]), reply[c]>>}
              /\ Served(c)' = Served(c) \union {Head(todo[c])}
         /\ ~SaveSession(c) => got'[c] = got[c] /\ Served(c)' = Served(c)
<1>1. ASSUME SaveSession(c)
      PROVE  /\ todo[c] # <<>>
             /\ got'[c] = Append(got[c], <<Head(todo[c]), reply[c]>>)
             /\ got'[c] # <<>>
             /\ Range(got'[c]) = Range(got[c]) \union {<<Head(todo[c]), reply[c]>>}
             /\ Served(c)' = Served(c) \union {Head(todo[c])}
  <2>. DEFINE r == <<Head(todo[c]), reply[c]>>
  <2>1. todo[c] # <<>> /\ reply[c] \in Ids
    BY <1>1 DEF SaveSession, TypeOK, AnswersAreTrue
  <2>2. r \in Device \X Ids /\ r[1] = Head(todo[c])
    BY <2>1, CurrentIsDevice
  <2>3. got[c] \in Seq(Device \X Ids) /\ got'[c] = Append(got[c], r)
    BY <1>1 DEF SaveSession, TypeOK
  <2>. HIDE DEF r
  <2>4. Range(got'[c]) = Range(got[c]) \union {r} /\ got'[c] # <<>>
    BY <2>2, <2>3, AddLast
  <2>5. Served(c)' = Served(c) \union {Head(todo[c])}
    BY <2>2, <2>4 DEF Served
  <2>6. QED
    BY <2>1, <2>3, <2>4, <2>5 DEF r
<1>2. ASSUME ~SaveSession(c) PROVE got'[c] = got[c]
  <2>1. CASE StepOf(c)
    BY <1>2, <2>1 DEF StepOf, Send, FetchHome, FetchAway, PostNext, RetrySend,
       QueueMessage, StoreSent, Interrupt
  <2>2. QED
    BY <2>1, StaysPut DEF StateOf
<1>3. QED
  BY <1>1, <1>2 DEF Served

(* The sent copy has the id of one of the call's receipts, the primary's   *)
(* if there is one.                                                        *)
LEMMA SentIdIsOurs ==
  ASSUME TypeOK, NEW c \in Call, got[c] # <<>>
  PROVE  /\ \E r \in Range(got[c]) : SentId(c) = r[2]
         /\ primary[to[c]] \in Served(c) =>
              \E r \in Range(got[c]) : r[1] = primary[to[c]] /\ SentId(c) = r[2]
<1>. DEFINE named == {r \in Range(got[c]) : r[1] = primary[to[c]]}
<1>1. got[c] \in Seq(Device \X Ids)
  BY DEF TypeOK
<1>2. got[c][1] \in Range(got[c])
  BY <1>1, TakeHead
<1>3. primary[to[c]] \in Served(c) => named # {}
  BY DEF Served
<1>4. CASE named # {}
  <2>1. (CHOOSE r \in named : TRUE) \in named
    BY <1>4
  <2>2. SentId(c) = (CHOOSE r \in named : TRUE)[2]
    BY <1>4 DEF SentId
  <2>3. QED
    BY <2>1, <2>2
<1>5. CASE named = {}
  BY <1>2, <1>3, <1>5 DEF SentId
<1>6. QED
  BY <1>4, <1>5

(* CallsProgress is preserved: a call fetches distinct targets and serves  *)
(* each once.                                                              *)
LEMMA NextProgress == FanOutInv /\ [Next]_vars => CallsProgress'
<1>. SUFFICES ASSUME TypeOK, RostersAreDistinct, AnswersAreTrue, CallsProgress,
                     [Next]_vars, NEW c \in Call
              PROVE
                (/\ IsInjective(todo[c])
                 /\ Range(todo[c]) \intersect Served(c) = {}
                 /\ pc[c] \in {"idle", "home"} => todo[c] = <<>> /\ got[c] = <<>>
                 /\ pc[c] = "away" =>
                      Range(todo[c]) \subseteq Home /\ got[c] = <<>>
                 /\ pc[c] = "next" => todo[c] # <<>> \/ got[c] # <<>>
                 /\ pc[c] = "done" => todo[c] = <<>>
                 /\ pc[c] = "done" <=> sent[c] # 0)'
  BY DEF FanOutInv, CallsProgress
<1>. USE DEF CallsProgress
<1>1. CASE ~StepOf(c)
  BY SMTT(30), <1>1, StaysPut DEF StateOf, Served
<1>2. ASSUME NEW a \in Account, Send(c, a)
      PROVE  pc'[c] = "home" /\ UNCHANGED <<todo[c], got[c], sent[c]>>
  BY <1>2 DEF Send, TypeOK
<1>3. CASE FetchHome(c)
  <2>1. /\ Others("home") \in Seq(Home)
        /\ IsInjective(Others("home"))
        /\ Range(Others("home")) \subseteq Home
    BY OthersAreTargets, SeqFacts DEF Account, Members
  <2>2. /\ pc[c] = "home" /\ got[c] = <<>> /\ sent[c] = 0
        /\ UNCHANGED <<got[c], sent[c]>>
        /\ \/ pc'[c] = "failed" /\ todo'[c] = todo[c]
           \/ /\ todo'[c] = Others("home")
              /\ \/ pc'[c] \in {"away", "failed"}
                 \/ pc'[c] = "next" /\ Others("home") # <<>>
    BY <1>3 DEF FetchHome, StartOn, TypeOK
  <2>3. Served(c)' = {} /\ Served(c) = {}
    BY <2>2 DEF Served, Range
  <2>4. QED
    BY <2>1, <2>2, <2>3
<1>4. CASE FetchAway(c)
  <2>. DEFINE s == todo[c] \o Others("away")
  <2>1. /\ Others("away") \in Seq(Away) /\ IsInjective(Others("away"))
        /\ Range(Others("away")) \subseteq Away
    BY OthersAreTargets, SeqFacts DEF Account, Members
  <2>2. /\ pc[c] = "away" /\ got[c] = <<>> /\ sent[c] = 0
        /\ UNCHANGED <<got[c], sent[c]>>
        /\ \/ pc'[c] = "failed" /\ todo'[c] = todo[c]
           \/ todo'[c] = s /\ pc'[c] = "failed"
           \/ todo'[c] = s /\ pc'[c] = "next" /\ s # <<>>
    BY <1>4 DEF FetchAway, StartOn, TypeOK
  <2>3. IsInjective(s)
    <3>1. /\ todo[c] \in Seq(Device) /\ Others("away") \in Seq(Device)
          /\ Range(todo[c]) \intersect Range(Others("away")) = {}
      BY <2>1, <2>2, WiderSeq, FanOutAssumption
         DEF TypeOK, FanOutAssumption, Device
    <3>2. QED
      BY <2>1, <3>1, Joined
  <2>4. Served(c)' = {} /\ Served(c) = {}
    BY <2>2 DEF Served, Range
  <2>. HIDE DEF s
  <2>5. QED
    BY <2>2, <2>3, <2>4
<1>5. CASE PostNext(c) \/ RetrySend(c) \/ QueueMessage(c) \/ Interrupt(c)
  <2>1. /\ pc[c] \notin {"done", "idle"}
        /\ pc'[c] \in {"posted", "answered", "failed"}
        /\ UNCHANGED <<todo[c], got[c], sent[c]>>
    BY <1>5 DEF PostNext, RetrySend, QueueMessage, Interrupt, TypeOK, Inside
  <2>2. QED
    BY <2>1 DEF Served
<1>6. CASE SaveSession(c)
  <2>1. /\ todo[c] # <<>> /\ got'[c] # <<>>
        /\ Served(c)' = Served(c) \union {Head(todo[c])}
    BY <1>6, ServedGrows
  <2>2. /\ pc'[c] = "next" /\ todo'[c] = Tail(todo[c]) /\ pc[c] = "answered"
        /\ sent'[c] = sent[c]
    BY <1>6 DEF SaveSession, TypeOK
  <2>3. /\ IsInjective(Tail(todo[c])) /\ Head(todo[c]) \notin Range(Tail(todo[c]))
        /\ Range(Tail(todo[c])) \subseteq Range(todo[c])
    BY <2>1, TakeHead DEF TypeOK
  <2>4. QED
    BY <2>1, <2>2, <2>3
<1>7. CASE StoreSent(c)
  <2>1. /\ pc[c] = "next" /\ pc'[c] = "done" /\ todo[c] = <<>>
        /\ sent'[c] = SentId(c)
        /\ UNCHANGED <<todo[c], got[c]>>
    BY <1>7 DEF StoreSent, TypeOK
  <2>2. SentId(c) # 0
    <3>1. got[c] # <<>> /\ got[c] \in Seq(Device \X Ids)
      BY <2>1 DEF TypeOK
    <3>2. \A r \in Range(got[c]) : r[2] \in Ids
      BY <3>1, SeqFacts
    <3>3. Ids = 1..Len(accepted) /\ Len(accepted) \in Nat
      BY DEF Ids, TypeOK
    <3>4. SentId(c) \in Ids
      BY <3>1, <3>2, SentIdIsOurs
    <3>5. QED
      BY <3>3, <3>4
  <2>3. QED
    BY <2>1, <2>2 DEF Served
<1>8. QED
  <2>1. ASSUME NEW a \in Account, Send(c, a) PROVE pc[c] = "idle"
    BY <2>1 DEF Send
  <2>2. CASE \E a \in Account : Send(c, a)
    BY <1>2, <2>1, <2>2 DEF Served
  <2>3. QED
    BY <1>1, <1>3, <1>4, <1>5, <1>6, <1>7, <2>2 DEF StepOf

(* TargetsRemain is preserved: rosters only grow, so what could be reached *)
(* at first is fetched later, and what is fetched is served in the end.    *)
LEMMA NextTargets == FanOutInv /\ [Next]_vars => TargetsRemain'
<1>. SUFFICES ASSUME TypeOK, RostersAreDistinct, AnswersAreTrue, TargetsRemain,
                     [Next]_vars, NEW c \in Call
              PROVE
                (/\ pc[c] = "home" =>
                      Targets(c) \subseteq
                        (Range(roster["home"]) \union Range(roster[to[c]]))
                          \ {Sender}
                 /\ pc[c] = "away" =>
                      /\ to[c] = "away"
                      /\ Targets(c) \subseteq
                           Range(todo[c]) \union Range(roster["away"])
                 /\ pc[c] \in {"next", "posted", "answered", "done"} =>
                      Targets(c) \subseteq Range(todo[c]) \union Served(c))'
  BY DEF FanOutInv, TargetsRemain
<1>. USE DEF TargetsRemain, Targets
<1>1. /\ \A a \in Account : Range(roster[a]) \subseteq Range(roster'[a])
      /\ primary' = primary
      /\ to[c] \in Account /\ "home" \in Account /\ "away" \in Account
  BY RostersGrow DEF TypeOK, Account
<1>2. CASE ~StepOf(c)
  BY ZenonT(40), <1>1, <1>2, StaysPut DEF StateOf, Served
<1>3. ASSUME NEW a \in Account, Send(c, a)
      PROVE  /\ pc'[c] = "home"
             /\ Targets(c)' \subseteq
                  ((Range(roster["home"]) \union Range(roster[to[c]]))
                     \ {Sender})'
  <2>1. /\ pc'[c] = "home" /\ to'[c] = a
        /\ before'[c] = Reachable("home") \union Reachable(a)
        /\ roster' = roster
    BY <1>3 DEF Send, TypeOK, linkVars
  <2>2. primary[a] \in Range(roster[a])
    BY DEF TypeOK
  <2>3. QED
    BY <1>1, <2>1, <2>2 DEF Reachable
<1>4. CASE FetchHome(c)
  <2>1. Range(Others("home")) = Range(roster["home"]) \ {Sender}
    BY <1>1, OthersAreTargets
  <2>2. /\ pc[c] = "home"
        /\ UNCHANGED <<to[c], before[c], roster>>
        /\ \/ pc'[c] = "failed"
           \/ to[c] = "home" /\ pc'[c] = "next" /\ todo'[c] = Others("home")
           \/ to[c] = "away" /\ pc'[c] = "away" /\ todo'[c] = Others("home")
    BY <1>1, <1>4 DEF FetchHome, StartOn, TypeOK, linkVars, Account
  <2>3. QED
    BY <1>1, <2>1, <2>2
<1>5. CASE FetchAway(c)
  <2>1. /\ Range(Others("away")) = Range(roster["away"]) \ {Sender}
        /\ Others("away") \in Seq(Away)
    BY <1>1, OthersAreTargets DEF Members
  <2>2. Sender \notin Range(roster["away"])
    <3>1. roster["away"] \in Seq(Away)
      BY <1>1 DEF TypeOK, Members
    <3>2. Range(roster["away"]) \subseteq Away
      BY <3>1, SeqFacts
    <3>3. QED
      BY <3>2, FanOutAssumption DEF FanOutAssumption
  <2>3. Range(todo[c] \o Others("away")) =
          Range(todo[c]) \union Range(roster["away"])
    <3>1. /\ Others("away") \in Seq(Device)
          /\ todo[c] \in Seq(Device)
      BY <2>1, WiderSeq DEF TypeOK, Device
    <3>2. QED
      BY <2>1, <2>2, <3>1, Joined
  <2>4. /\ pc[c] = "away"
        /\ UNCHANGED <<to[c], before[c], got[c]>>
        /\ \/ pc'[c] = "failed"
           \/ pc'[c] = "next" /\ todo'[c] = todo[c] \o Others("away")
    BY <1>5 DEF FetchAway, StartOn, TypeOK
  <2>5. QED
    BY <1>1, <2>3, <2>4
<1>6. CASE PostNext(c) \/ RetrySend(c) \/ QueueMessage(c) \/ StoreSent(c)
  <2>1. /\ pc[c] \in {"next", "posted"}
        /\ pc'[c] \in {"posted", "answered", "failed", "done"}
        /\ UNCHANGED <<to[c], before[c], got[c], todo[c]>>
    BY <1>6 DEF PostNext, RetrySend, QueueMessage, StoreSent, TypeOK
  <2>2. QED
    BY <1>1, <2>1 DEF Served
<1>7. CASE SaveSession(c)
  <2>1. todo[c] # <<>> /\ Served(c)' = Served(c) \union {Head(todo[c])}
    BY <1>7, ServedGrows
  <2>2. /\ pc'[c] = "next" /\ todo'[c] = Tail(todo[c]) /\ pc[c] = "answered"
        /\ UNCHANGED <<to[c], before[c]>>
    BY <1>7 DEF SaveSession, TypeOK
  <2>3. Range(todo[c]) = Range(Tail(todo[c])) \union {Head(todo[c])}
    BY <2>1, TakeHead DEF TypeOK
  <2>4. QED
    BY <1>1, <2>1, <2>2, <2>3
<1>8. CASE Interrupt(c)
  BY <1>8 DEF Interrupt, TypeOK
<1>9. QED
  BY <1>2, <1>3, <1>4, <1>5, <1>6, <1>7, <1>8 DEF StepOf

(* AnswersAreTrue is preserved: the relay answers with the id of the       *)
(* envelope, and what it accepted stays.                                   *)
LEMMA NextAnswers == FanOutInv /\ [Next]_vars => AnswersAreTrue'
<1>. SUFFICES ASSUME TypeOK, AnswersAreTrue, [Next]_vars, NEW c \in Call
              PROVE
                (/\ \A r \in Range(got[c]) : accepted[r[2]] = <<c, r[1]>>
                 /\ pc[c] = "answered" =>
                      reply[c] # 0 /\ accepted[reply[c]] = <<c, Head(todo[c])>>)'
  BY DEF FanOutInv, AnswersAreTrue
<1>. USE DEF AnswersAreTrue
<1>1. \A i \in Ids : accepted'[i] = accepted[i]
  BY AcceptedStays
<1>2. /\ \A r \in Range(got[c]) : r[2] \in Ids
      /\ reply[c] # 0 => reply[c] \in Ids
  <2>1. got[c] \in Seq(Device \X Ids)
    BY DEF TypeOK
  <2>2. QED
    BY <2>1, SeqFacts DEF TypeOK
<1>3. \A r \in Range(got'[c]) : accepted'[r[2]] = <<c, r[1]>>
  <2>1. CASE SaveSession(c)
    <3>. DEFINE r == <<Head(todo[c]), reply[c]>>
    <3>1. pc[c] = "answered" /\ Range(got'[c]) = Range(got[c]) \union {r}
      BY <2>1, ServedGrows DEF SaveSession
    <3>2. /\ r[1] = Head(todo[c]) /\ r[2] = reply[c]
          /\ accepted[r[2]] = <<c, r[1]>> /\ r[2] \in Ids
      BY <1>2, <3>1
    <3>. HIDE DEF r
    <3>3. QED
      BY <1>1, <1>2, <3>1, <3>2
  <2>2. CASE ~SaveSession(c)
    BY ZenonT(40), <1>1, <1>2, <2>2, ServedGrows
  <2>3. QED
    BY <2>1, <2>2
<1>4. ASSUME pc'[c] = "answered"
      PROVE  reply'[c] # 0 /\ accepted'[reply'[c]] = <<c, Head(todo'[c])>>
  <2>1. CASE QueueMessage(c)
    <3>1. todo[c] # <<>> /\ <<c, Head(todo[c])>> \in Envelopes
      BY <2>1, CurrentIsDevice DEF QueueMessage, TypeOK
    <3>2. PICK id \in 1..(Len(accepted) + 1) :
            /\ Queue(<<c, Head(todo[c])>>, id)
            /\ reply' = [reply EXCEPT ![c] = id]
      BY <2>1 DEF QueueMessage
    <3>3. accepted'[id] = <<c, Head(todo[c])>> /\ id # 0
      BY <3>1, <3>2, QueueFacts
    <3>4. QED
      BY <2>1, <3>2, <3>3 DEF QueueMessage, TypeOK
  <2>2. CASE ~QueueMessage(c)
    <3>1. pc[c] = "answered" /\ UNCHANGED <<reply[c], todo[c]>>
      <4>1. CASE StepOf(c)
        BY <1>4, <2>2, <4>1 DEF StepOf, Send, FetchHome, FetchAway, PostNext,
           RetrySend, SaveSession, StoreSent, Interrupt, StartOn, TypeOK
      <4>2. QED
        BY <1>4, <4>1, StaysPut DEF StateOf
    <3>2. QED
      BY <1>1, <1>2, <3>1
  <2>3. QED
    BY <2>1, <2>2
<1>5. QED
  BY <1>3, <1>4

(* ReachedIsServed is preserved: a call sends to the device it is at.      *)
LEMMA NextReached == FanOutInv /\ [Next]_vars => ReachedIsServed'
<1>. SUFFICES ASSUME TypeOK, AnswersAreTrue, ReachedIsServed, [Next]_vars,
                     NEW c \in Call
              PROVE  (Reached(c) \subseteq Served(c) \union Current(c))'
  BY DEF FanOutInv, ReachedIsServed
<1>1. CASE QueueMessage(c)
  <2>1. /\ todo[c] # <<>> /\ <<c, Head(todo[c])>> \in Envelopes
        /\ pc'[c] = "answered" /\ todo' = todo /\ late' = late
        /\ Served(c)' = Served(c)
    BY <1>1, CurrentIsDevice DEF QueueMessage, TypeOK, Served
  <2>2. Range(accepted') = Range(accepted) \union {<<c, Head(todo[c])>>}
    BY <1>1, <2>1, QueueFacts DEF QueueMessage
  <2>3. Current(c)' = {Head(todo[c])} /\ Current(c) \subseteq {Head(todo[c])}
    BY <2>1 DEF Current
  <2>4. Reached(c)' \subseteq Reached(c) \union {Head(todo[c])}
    BY <2>1, <2>2 DEF Reached
  <2>5. QED
    BY <2>1, <2>3, <2>4 DEF ReachedIsServed
<1>2. CASE RetrySend(c) \/ Interrupt(c)
  <2>1. /\ accepted' = accepted
        /\ todo' = todo
        /\ pc'[c] \in {"posted", "failed"}
        /\ \/ late' = late
           \/ late' = late \union {<<c, Head(todo[c])>>} /\ todo[c] # <<>>
        /\ Served(c)' = Served(c)
    BY <1>2 DEF RetrySend, Interrupt, TypeOK, Served
  <2>2. Current(c) \subseteq Current(c)'
    BY <2>1 DEF Current
  <2>3. Reached(c)' \subseteq Reached(c) \union Current(c)'
    BY <2>1 DEF Reached, Current
  <2>4. QED
    BY <2>1, <2>2, <2>3 DEF ReachedIsServed
<1>3. CASE SaveSession(c)
  <2>1. /\ accepted' = accepted /\ late' = late
        /\ Served(c)' = Served(c) \union {Head(todo[c])}
    BY <1>3, ServedGrows DEF SaveSession, relayVars
  <2>2. Reached(c)' = Reached(c) /\ Current(c) \subseteq {Head(todo[c])}
    BY <2>1 DEF Reached, Current
  <2>3. QED
    BY <2>1, <2>2 DEF ReachedIsServed
<1>4. CASE \/ \E a \in Account : Send(c, a)
           \/ FetchHome(c) \/ FetchAway(c) \/ PostNext(c) \/ StoreSent(c)
  <2>1. /\ accepted' = accepted /\ late' = late /\ got' = got
        /\ pc[c] \in {"idle", "home", "away", "next"}
    BY <1>4 DEF Send, FetchHome, FetchAway, PostNext, StoreSent, relayVars
  <2>2. Reached(c)' = Reached(c) /\ Current(c) = {} /\ Served(c)' = Served(c)
    BY <2>1 DEF Reached, Current, Served
  <2>3. QED
    BY <2>2 DEF ReachedIsServed
<1>5. CASE ~StepOf(c)
  <2>1. Served(c)' = Served(c) /\ Current(c)' = Current(c)
    BY <1>5, StaysPut DEF StateOf, Served, Current
  <2>2. Reached(c)' \subseteq Reached(c)
    <3>1. ASSUME NEW b \in Call, b # c, StepOf(b)
          PROVE  Reached(c)' \subseteq Reached(c)
      <4>1. CASE QueueMessage(b)
        <5>1. /\ todo[b] # <<>> /\ <<b, Head(todo[b])>> \in Envelopes
              /\ late' = late
          BY <4>1, CurrentIsDevice DEF QueueMessage, TypeOK
        <5>2. Range(accepted') = Range(accepted) \union {<<b, Head(todo[b])>>}
          BY <4>1, <5>1, QueueFacts DEF QueueMessage
        <5>3. QED
          BY <3>1, <5>1, <5>2 DEF Reached
      <4>2. CASE ~QueueMessage(b)
        <5>1. /\ accepted' = accepted
              /\ late' \subseteq late \union {<<b, Head(todo[b])>>}
          BY <3>1, <4>2 DEF StepOf, Send, FetchHome, FetchAway, PostNext,
             RetrySend, SaveSession, StoreSent, Interrupt, relayVars
        <5>2. QED
          BY <3>1, <5>1 DEF Reached
      <4>3. QED
        BY <4>1, <4>2
    <3>2. ASSUME NEW e \in late, LateQueueMessage(e)
          PROVE  Reached(c)' \subseteq Reached(c)
      <4>1. Range(accepted') = Range(accepted) \union {e} /\ late' = late \ {e}
        BY <3>2, QueueFacts DEF LateQueueMessage, TypeOK
      <4>2. QED
        BY <4>1 DEF Reached
    <3>3. CASE accepted' = accepted /\ late' \subseteq late
      BY <3>3 DEF Reached
    <3>4. \/ \E b \in Call : StepOf(b)
          \/ \E e \in late : LateQueueMessage(e)
          \/ accepted' = accepted /\ late' \subseteq late
      BY DEF Next, vars, relayVars, Approve, Register, PublishBundle, Restart,
         StepOf
    <3>5. QED
      BY <1>5, <3>1, <3>2, <3>3, <3>4
  <2>3. QED
    BY <2>1, <2>2 DEF ReachedIsServed
<1>6. QED
  BY <1>1, <1>2, <1>3, <1>4, <1>5 DEF StepOf

(* DiskCounts is preserved: the state is saved when one more device has    *)
(* been served, from what the file holds.                                  *)
LEMMA NextDisk == FanOutInv /\ [Next]_vars => DiskCounts'
<1>. SUFFICES ASSUME TypeOK, HolderIsCurrent, CallsProgress, AnswersAreTrue,
                     DiskCounts, [Next]_vars, NEW d \in Device
              PROVE  (/\ IsFiniteSet(ServedBy(d))
                      /\ disk[d] = Cardinality(ServedBy(d)))'
  BY DEF FanOutInv, DiskCounts
<1>1. IsFiniteSet(ServedBy(d)) /\ disk[d] = Cardinality(ServedBy(d))
  BY DEF DiskCounts
<1>2. ASSUME NEW c \in Call, SaveSession(c)
      PROVE  (/\ IsFiniteSet(ServedBy(d))
              /\ disk[d] = Cardinality(ServedBy(d)))'
  <2>. DEFINE h == Head(todo[c])
  <2>1. /\ Served(c)' = Served(c) \union {h}
        /\ \A b \in Call : b # c => Served(b)' = Served(b)
    <3>1. \A b \in Call : b # c => ~SaveSession(b)
      BY <1>2 DEF HolderIsCurrent, SaveSession, Inside
    <3>2. QED
      BY <1>2, <3>1, ServedGrows
  <2>2. h \notin Served(c)
    <3>1. todo[c] # <<>>
      BY <1>2, ServedGrows
    <3>2. h \in Range(todo[c])
      BY <3>1, TakeHead DEF TypeOK
    <3>3. QED
      BY <3>2 DEF CallsProgress
  <2>3. disk' = [disk EXCEPT ![h] = @ + 1]
    BY <1>2 DEF SaveSession, SavedState, HolderIsCurrent, Inside
  <2>. HIDE DEF h
  <2>4. CASE d = h
    <3>1. ServedBy(d)' = ServedBy(d) \union {c} /\ c \notin ServedBy(d)
      BY <2>1, <2>2, <2>4 DEF ServedBy
    <3>2. disk'[d] = disk[d] + 1
      BY <2>3, <2>4 DEF TypeOK
    <3>3. QED
      BY <1>1, <3>1, <3>2, FS_AddElement
  <2>5. CASE d # h
    <3>1. ServedBy(d)' = ServedBy(d)
      BY <2>1, <2>5 DEF ServedBy
    <3>2. disk'[d] = disk[d]
      BY <2>3, <2>5 DEF TypeOK
    <3>3. QED
      BY <1>1, <3>1, <3>2
  <2>6. QED
    BY <2>4, <2>5
<1>3. ASSUME \A c \in Call : ~SaveSession(c)
      PROVE  (/\ IsFiniteSet(ServedBy(d))
              /\ disk[d] = Cardinality(ServedBy(d)))'
  <2>1. \A c \in Call : Served(c)' = Served(c)
    BY <1>3, ServedGrows
  <2>2. ServedBy(d)' = ServedBy(d)
    BY <2>1 DEF ServedBy
  <2>3. QED
    BY <1>1, <1>3, <2>2, DiskStays
<1>4. QED
  BY <1>2, <1>3

(* A receipt is forgotten in a restart only.                               *)
LEMMA KnownStays ==
  ASSUME TypeOK, [Next]_vars, ~Restart, NEW e,
         \E i \in receipts : KnownReceipt(i, e)
  PROVE  \E i \in receipts' : KnownReceipt(i, e)'
<1>1. receipts \subseteq receipts'
  <2>1. ASSUME NEW c \in Call, QueueMessage(c) PROVE receipts \subseteq receipts'
    BY <2>1 DEF QueueMessage, Queue
  <2>2. ASSUME NEW f \in late, LateQueueMessage(f)
        PROVE  receipts \subseteq receipts'
    BY <2>2 DEF LateQueueMessage, Queue
  <2>3. \/ \E c \in Call : QueueMessage(c)
        \/ \E f \in late : LateQueueMessage(f)
        \/ receipts' = receipts
    BY DEF Next, vars, relayVars, Approve, Register, PublishBundle, Send,
       FetchHome, FetchAway, PostNext, RetrySend, SaveSession, StoreSent,
       Interrupt
  <2>4. QED
    BY <2>1, <2>2, <2>3
<1>2. PICK i \in receipts : KnownReceipt(i, e)
  OBVIOUS
<1>3. i \in Ids /\ accepted'[i] = accepted[i]
  BY AcceptedStays DEF TypeOK
<1>4. QED
  BY <1>1, <1>2, <1>3 DEF KnownReceipt

(* LateIsKnown is preserved: a call serves a device after the relay has    *)
(* its envelope, and a restart of the relay forgets late submissions too.  *)
LEMMA NextLate == FanOutInv /\ [Next]_vars => LateIsKnown'
<1>. SUFFICES ASSUME TypeOK, AnswersAreTrue, CallsProgress, LateIsKnown,
                     [Next]_vars, NEW e \in late', Answered(e[1], e[2])'
              PROVE  \E i \in receipts' : KnownReceipt(i, e)'
  BY DEF FanOutInv, LateIsKnown
<1>1. ~Restart
  BY DEF Restart
<1>2. CASE \E c \in Call : c = e[1] /\ QueueMessage(c) /\ e[2] = Head(todo[c])
           /\ e \in late
  <2>1. PICK c \in Call :
          c = e[1] /\ QueueMessage(c) /\ e[2] = Head(todo[c]) /\ e \in late
    BY <1>2
  <2>2. e = <<c, Head(todo[c])>> /\ e \in Envelopes
    BY <2>1 DEF TypeOK, Envelopes
  <2>3. PICK id \in 1..(Len(accepted) + 1) : Queue(e, id)
    BY <2>1, <2>2 DEF QueueMessage
  <2>4. id \in receipts' /\ accepted'[id] = e
    BY <2>2, <2>3, QueueFacts
  <2>5. QED
    BY <2>4 DEF KnownReceipt
<1>3. CASE e \in late /\ Answered(e[1], e[2])
  BY <1>1, <1>3, KnownStays DEF LateIsKnown
<1>4. ASSUME e \in late, ~Answered(e[1], e[2])
      PROVE  \E c \in Call : c = e[1] /\ QueueMessage(c) /\ e[2] = Head(todo[c])
  <2>. DEFINE c == e[1]
              d == e[2]
  <2>1. c \in Call
    BY <1>4 DEF TypeOK, Envelopes
  <2>2. /\ d \notin Served(c)
        /\ ~(pc[c] = "answered" /\ d = Head(todo[c]))
        /\ d \in Served(c)' \/ (pc'[c] = "answered" /\ d = Head(todo'[c]))
    BY <1>4 DEF Answered
  <2>. HIDE DEF c, d
  <2>3. SaveSession(c) => pc[c] = "answered" /\ pc'[c] = "next"
    BY <2>1 DEF SaveSession, TypeOK
  <2>4. ~SaveSession(c) /\ pc'[c] = "answered" /\ d = Head(todo'[c])
    BY <2>1, <2>2, <2>3, ServedGrows
  <2>5. StepOf(c)
    BY <2>1, <2>2, <2>4, StaysPut DEF StateOf
  <2>6. QueueMessage(c)
    BY <2>1, <2>2, <2>4, <2>5 DEF StepOf, Send, FetchHome, FetchAway,
       PostNext, RetrySend, StoreSent, Interrupt, StartOn, TypeOK
  <2>7. d = Head(todo[c])
    BY <2>4, <2>6 DEF QueueMessage
  <2>8. QED
    BY <2>1, <2>6, <2>7 DEF c, d
<1>5. e \in late
  <2>1. ASSUME NEW c \in Call, RetrySend(c) \/ Interrupt(c), e \notin late
        PROVE  FALSE
    <3>1. /\ e = <<c, Head(todo[c])>> /\ todo[c] # <<>>
          /\ pc[c] = "posted" /\ pc'[c] \in {"posted", "failed"}
          /\ Served(c)' = Served(c)
      BY <2>1 DEF RetrySend, Interrupt, TypeOK, Served
    <3>2. Head(todo[c]) \in Range(todo[c])
      BY <3>1, TakeHead DEF TypeOK
    <3>3. Head(todo[c]) \in Served(c)
      BY <3>1 DEF Answered
    <3>4. QED
      BY <3>2, <3>3 DEF CallsProgress
  <2>2. \/ \E c \in Call : RetrySend(c) \/ Interrupt(c)
        \/ late' \subseteq late
    BY DEF Next, vars, relayVars, Approve, Register, PublishBundle, Send,
       FetchHome, FetchAway, PostNext, SaveSession, StoreSent, QueueMessage,
       LateQueueMessage, Restart
  <2>3. QED
    BY <2>1, <2>2
<1>6. QED
  BY <1>2, <1>3, <1>4, <1>5

(* SentNamesEnvelope is preserved.                                         *)
LEMMA NextNames == FanOutInv /\ [Next]_vars => SentNamesEnvelope'
<1>. SUFFICES ASSUME TypeOK, AnswersAreTrue, CallsProgress, TargetsRemain,
                     SentNamesEnvelope, [Next]_vars, NEW c \in Call, sent'[c] # 0
              PROVE  /\ accepted'[sent'[c]][1] = c
                     /\ primary'[to'[c]] # Sender =>
                          accepted'[sent'[c]][2] = primary'[to'[c]]
  BY DEF FanOutInv, SentNamesEnvelope
<1>1. /\ \A i \in Ids : accepted'[i] = accepted[i]
      /\ primary' = primary
  BY AcceptedStays DEF Next, vars, linkVars, Approve, Register, PublishBundle,
     LateQueueMessage, Restart, Send, FetchHome, FetchAway, PostNext,
     RetrySend, QueueMessage, SaveSession, StoreSent, Interrupt
<1>2. CASE StoreSent(c)
  <2>1. /\ got[c] # <<>> /\ todo[c] = <<>> /\ pc[c] = "next"
        /\ sent'[c] = SentId(c) /\ to' = to
    BY <1>2 DEF StoreSent, CallsProgress, TypeOK
  <2>2. PICK r \in Range(got[c]) :
          /\ sent'[c] = r[2]
          /\ primary[to[c]] \in Served(c) => r[1] = primary[to[c]]
    BY <2>1, SentIdIsOurs
  <2>3. accepted[r[2]] = <<c, r[1]>> /\ r[2] \in Ids
    <3>1. got[c] \in Seq(Device \X Ids)
      BY DEF TypeOK
    <3>2. r \in Device \X Ids
      BY <3>1, SeqFacts
    <3>3. QED
      BY <3>2 DEF AnswersAreTrue
  <2>4. primary[to[c]] # Sender => primary[to[c]] \in Served(c)
    BY <2>1, SeqFacts DEF TargetsRemain, Targets, Range
  <2>5. QED
    BY <1>1, <2>1, <2>2, <2>3, <2>4
<1>3. CASE ~StoreSent(c)
  <2>1. sent'[c] = sent[c]
    <3>1. CASE StepOf(c)
      BY <1>3, <3>1 DEF StepOf, Send, FetchHome, FetchAway, PostNext, RetrySend,
         QueueMessage, SaveSession, Interrupt
    <3>2. QED
      BY <3>1, StaysPut DEF StateOf
  <2>2. pc[c] = "done" /\ sent[c] # 0 /\ sent[c] \in Ids
    BY <2>1 DEF CallsProgress, TypeOK
  <2>3. to'[c] = to[c]
    <3>1. ~StepOf(c)
      BY <2>2 DEF StepOf, Send, FetchHome, FetchAway, PostNext, RetrySend,
         QueueMessage, SaveSession, StoreSent, Interrupt, Inside
    <3>2. QED
      BY <3>1, StaysPut DEF StateOf
  <2>4. QED
    BY <1>1, <2>1, <2>2, <2>3 DEF SentNamesEnvelope
<1>4. QED
  BY <1>2, <1>3

(* No envelope of a completed call is queued any more.                     *)
LEMMA CompletedIsQuiet ==
  ASSUME FanOutInv, [Next]_vars, NEW b \in Call, pc[b] = "done"
  PROVE  At(b)' = At(b) /\ pc'[b] = "done"
<1>. USE DEF FanOutInv
<1>1. ~StepOf(b)
  BY DEF StepOf, Send, FetchHome, FetchAway, PostNext, RetrySend,
     QueueMessage, SaveSession, StoreSent, Interrupt, Inside
<1>2. pc'[b] = "done"
  BY <1>1, StaysPut DEF StateOf
<1>3. ASSUME NEW e \in Envelopes, NEW id \in 1..(Len(accepted) + 1),
             Queue(e, id),
             e[1] = b => \E i \in receipts : KnownReceipt(i, e)
      PROVE  At(b)' = At(b)
  <2>1. /\ \A i \in Ids : accepted'[i] = accepted[i]
        /\ \/ accepted' = accepted
           \/ Ids' = Ids \union {id} /\ accepted'[id] = e /\ e[1] # b
    BY <1>3, QueueFacts
  <2>2. QED
    BY <2>1 DEF At, Ids
<1>4. ASSUME NEW c \in Call, QueueMessage(c) PROVE At(b)' = At(b)
  <2>1. c # b /\ todo[c] # <<>>
    BY <1>4 DEF QueueMessage, TypeOK
  <2>2. <<c, Head(todo[c])>> \in Envelopes /\ <<c, Head(todo[c])>>[1] = c
    BY <2>1, CurrentIsDevice
  <2>3. QED
    BY <1>3, <1>4, <2>1, <2>2 DEF QueueMessage
<1>5. ASSUME NEW e \in late, LateQueueMessage(e) PROVE At(b)' = At(b)
  <2>1. e \in Envelopes /\ e = <<e[1], e[2]>> /\ e[2] \in Device
    <3>1. e \in Call \X Device
      BY DEF TypeOK, Envelopes
    <3>2. QED
      BY <3>1 DEF Envelopes
  <2>2. e[1] = b => e[2] \in Served(b)
    BY <2>1 DEF ReachedIsServed, Reached, Current
  <2>3. e[1] = b => \E i \in receipts : KnownReceipt(i, e)
    BY <2>2 DEF LateIsKnown, Answered
  <2>4. QED
    BY <1>3, <1>5, <2>1, <2>3 DEF LateQueueMessage
<1>6. CASE accepted' = accepted
  BY <1>2, <1>6 DEF At, Ids
<1>7. \/ \E c \in Call : QueueMessage(c)
      \/ \E e \in late : LateQueueMessage(e)
      \/ accepted' = accepted
  BY DEF Next, vars, relayVars, Approve, Register, PublishBundle, Restart,
     Send, FetchHome, FetchAway, PostNext, RetrySend, SaveSession, StoreSent,
     Interrupt
<1>8. QED
  BY <1>2, <1>4, <1>5, <1>6, <1>7

(* What the relay queues is behind what it has.                            *)
LEMMA LastIsNew ==
  ASSUME TypeOK, [Next]_vars, NEW c \in Call
  PROVE  \A j \in At(c)' : j \in At(c) \/ \A i \in Ids : i < j
<1>1. ASSUME NEW e \in Envelopes, NEW id \in 1..(Len(accepted) + 1), Queue(e, id)
      PROVE  \A j \in At(c)' : j \in At(c) \/ \A i \in Ids : i < j
  <2>1. /\ \A i \in Ids : accepted'[i] = accepted[i]
        /\ \/ accepted' = accepted
           \/ Ids' = Ids \union {id} /\ \A i \in Ids : i < id
    BY <1>1, QueueFacts
  <2>2. QED
    BY <2>1 DEF At, Ids
<1>2. ASSUME NEW b \in Call, QueueMessage(b)
      PROVE  \A j \in At(c)' : j \in At(c) \/ \A i \in Ids : i < j
  <2>1. <<b, Head(todo[b])>> \in Envelopes
    BY <1>2, CurrentIsDevice DEF QueueMessage, TypeOK
  <2>2. QED
    BY <1>1, <1>2, <2>1 DEF QueueMessage
<1>3. ASSUME NEW e \in late, LateQueueMessage(e)
      PROVE  \A j \in At(c)' : j \in At(c) \/ \A i \in Ids : i < j
  BY <1>1, <1>3 DEF LateQueueMessage, TypeOK
<1>4. CASE accepted' = accepted
  BY <1>4 DEF At, Ids
<1>5. \/ \E b \in Call : QueueMessage(b)
      \/ \E e \in late : LateQueueMessage(e)
      \/ accepted' = accepted
  BY DEF Next, vars, relayVars, Approve, Register, PublishBundle, Restart,
     Send, FetchHome, FetchAway, PostNext, RetrySend, SaveSession, StoreSent,
     Interrupt
<1>6. QED
  BY <1>2, <1>3, <1>4, <1>5

(* CompletedAreFirst is preserved: a late submission of a completed call   *)
(* is answered with its receipt and not queued behind a later call's.      *)
LEMMA NextCompleted == FanOutInv /\ [Next]_vars => CompletedAreFirst'
<1>. SUFFICES ASSUME FanOutInv, [Next]_vars, NEW b \in Call, NEW c \in Call,
                     pc'[b] = "done", b # c
              PROVE  /\ pc'[c] \in Inside => AllBefore(b, c)'
                     /\ pc'[c] = "done" => AllBefore(b, c)' \/ AllBefore(c, b)'
  BY DEF CompletedAreFirst
<1>. USE DEF FanOutInv
<1>1. CASE pc[b] = "done"
  <2>1. At(b)' = At(b) /\ At(b) \subseteq Ids
    BY <1>1, CompletedIsQuiet DEF At
  <2>2. AllBefore(b, c) => AllBefore(b, c)'
    BY <2>1, LastIsNew DEF AllBefore
  <2>3. CASE pc[c] \in Inside
    BY <1>1, <2>2, <2>3 DEF CompletedAreFirst, Inside
  <2>4. CASE pc[c] = "done"
    <3>1. At(c)' = At(c) /\ pc'[c] = "done"
      BY <2>4, CompletedIsQuiet
    <3>2. QED
      BY <1>1, <2>1, <2>4, <3>1 DEF CompletedAreFirst, AllBefore, Inside
  <2>5. CASE pc[c] \notin Inside \union {"done"}
    <3>1. pc'[c] \in Inside \union {"done"} => \E a \in Account : Send(c, a)
      <4>1. CASE StepOf(c)
        BY <2>5, <4>1 DEF StepOf, FetchHome, FetchAway, PostNext, RetrySend,
           QueueMessage, SaveSession, StoreSent, Interrupt, Inside
      <4>2. QED
        BY <2>5, <4>1, StaysPut DEF StateOf
    <3>2. ASSUME NEW a \in Account, Send(c, a) PROVE AllBefore(b, c)'
      <4>1. Served(c) = {} /\ Current(c) = {}
        BY <3>2 DEF Send, CallsProgress, Served, Range, Current
      <4>2. At(c) = {}
        <5>1. ASSUME NEW i \in At(c) PROVE FALSE
          <6>1. i \in Ids /\ accepted \in Seq(Envelopes) /\ accepted[i][1] = c
            BY DEF At, TypeOK
          <6>2. accepted[i] \in Envelopes /\ accepted[i] \in Range(accepted)
            BY <6>1 DEF Ids, Range
          <6>3. accepted[i] = <<c, accepted[i][2]>> /\ accepted[i][2] \in Device
            BY <6>1, <6>2 DEF Envelopes
          <6>4. accepted[i][2] \in Reached(c)
            BY <6>2, <6>3 DEF Reached
          <6>5. QED
            BY <4>1, <6>4 DEF ReachedIsServed
        <5>2. QED
          BY <5>1
      <4>3. accepted' = accepted
        BY <3>2 DEF Send, relayVars
      <4>4. QED
        BY <4>2, <4>3 DEF AllBefore, At, Ids
    <3>3. ASSUME NEW a \in Account, Send(c, a) PROVE pc'[c] # "done"
      BY <3>3 DEF Send, TypeOK
    <3>4. QED
      BY <3>1, <3>2, <3>3
  <2>6. QED
    BY <2>3, <2>4, <2>5
<1>2. CASE pc[b] # "done"
  <2>1. StoreSent(b)
    <3>1. StepOf(b)
      BY <1>2, StaysPut DEF StateOf
    <3>2. QED
      BY <1>2, <3>1 DEF StepOf, Send, FetchHome, FetchAway, PostNext, RetrySend,
         QueueMessage, SaveSession, Interrupt, StartOn, TypeOK
  <2>2. pc[b] = "next" /\ accepted' = accepted /\ pc'[c] = pc[c]
    BY <2>1 DEF StoreSent, relayVars, TypeOK
  <2>3. pc[c] \notin Inside
    BY <2>2 DEF HolderIsCurrent, Inside
  <2>4. pc[c] = "done" => AllBefore(c, b)
    BY <2>2 DEF CompletedAreFirst, Inside
  <2>5. QED
    BY <2>2, <2>3, <2>4 DEF AllBefore, At, Ids
<1>3. QED
  BY <1>1, <1>2

-----------------------------------------------------------------------------
(* Every call of send leaves sessions, history and the relay in step, for  *)
(* any rosters, calls, timeouts and restarts (client.py:447-592,           *)
(* server.py:688-786).                                                     *)
THEOREM FanOutCorrect == Spec => []FanOutInv
<1>1. Init => FanOutInv
  BY InitFanOut
<1>2. FanOutInv /\ [Next]_vars => FanOutInv'
  <2>1. FanOutInv /\ [Next]_vars => RostersAreDistinct'
    BY RostersGrow DEF FanOutInv
  <2>2. QED
    BY <2>1, NextTypes, NextHolder, NextProgress, NextTargets, NextAnswers,
       NextReached, NextDisk, NextLate, NextCompleted, NextNames
       DEF FanOutInv
<1>3. QED
  BY <1>1, <1>2, PTL DEF Spec

(* Every variable keeps its type.                                          *)
THEOREM TypesHold == Spec => []TypeOK
<1>1. FanOutInv => TypeOK
  BY DEF FanOutInv
<1>2. QED
  BY <1>1, FanOutCorrect, PTL

(* A sent copy is stored only when the relay has accepted an envelope for  *)
(* every device that could be reached at first (client.py:453-592).                              *)
THEOREM SentCopiesAreComplete == Spec => []SentReachesAll
<1>1. FanOutInv => SentReachesAll
  <2>. SUFFICES ASSUME FanOutInv, NEW c \in Call, sent[c] # 0,
                       NEW d \in before[c]
                PROVE  <<c, d>> \in Range(accepted)
    BY DEF SentReachesAll
  <2>. USE DEF FanOutInv
  <2>1. pc[c] = "done" /\ todo[c] = <<>>
    BY DEF CallsProgress
  <2>2. d \in Served(c)
    BY <2>1 DEF TargetsRemain, Targets, Range
  <2>3. PICK r \in Range(got[c]) : r[1] = d
    BY <2>2 DEF Served
  <2>4. r[2] \in Ids /\ accepted[r[2]] = <<c, d>>
    <3>1. got[c] \in Seq(Device \X Ids)
      BY DEF TypeOK
    <3>2. QED
      BY <2>3, <3>1, SeqFacts DEF AnswersAreTrue
  <2>5. QED
    BY <2>4 DEF Ids, Range
<1>2. QED
  BY <1>1, FanOutCorrect, PTL

(* A sent copy has the id of an envelope of its own message                *)
(* (client.py:580-592, 758).                                               *)
THEOREM SentCopiesAreNamed == Spec => []SentNamesEnvelope
<1>1. FanOutInv => SentNamesEnvelope
  BY DEF FanOutInv
<1>2. QED
  BY <1>1, FanOutCorrect, PTL

(* Completed sends reach all their targets in one order, late attempts     *)
(* included (client.py:447-451, server.py:755-766).                        *)
THEOREM CompletedSendsInOrder == Spec => []SendsDoNotInterleave
<1>1. FanOutInv => SendsDoNotInterleave
  BY DEF FanOutInv, CallsProgress, CompletedAreFirst, SendsDoNotInterleave
<1>2. QED
  BY <1>1, FanOutCorrect, PTL

(* However a call ends, at most one device's session is out of step with   *)
(* the relay (client.py:571-578).                                          *)
THEOREM FailuresTearOne == Spec => []FailureTearsOne
<1>1. FanOutInv => FailureTearsOne
  <2>. SUFFICES ASSUME FanOutInv PROVE FailureTearsOne
    OBVIOUS
  <2>. USE DEF FanOutInv
  <2>1. ASSUME NEW c \in Call PROVE Cardinality(Reached(c) \ Served(c)) <= 1
    <3>. DEFINE torn == Reached(c) \ Served(c)
    <3>1. torn = {} \/ \E d : torn = {d}
      BY DEF ReachedIsServed, Current
    <3>2. CASE torn = {}
      BY <3>2, FS_EmptySet
    <3>3. ASSUME NEW d, torn = {d} PROVE Cardinality(torn) = 1
      BY <3>3, FS_Singleton
    <3>4. QED
      BY <3>1, <3>2, <3>3
  <2>2. QED
    BY <2>1 DEF DiskCounts, ServedBy, FailureTearsOne
<1>2. QED
  BY <1>1, FanOutCorrect, PTL
=============================================================================
