--------------------------- MODULE PreKeys_proofs ---------------------------
(***************************************************************************)
(* PreKeysInv is an invariant of PreKeys, for any bundles, pool size and   *)
(* bounds.                                                                 *)
(***************************************************************************)
EXTENDS PreKeys, TLAPS

(* The initial states satisfy every part.                                  *)
LEMMA InitPreKeys == Init => PreKeysInv
<1>. SUFFICES ASSUME Init PROVE PreKeysInv
  OBVIOUS
<1>. USE PreKeysAssumption DEF PreKeysAssumption, Init, EmptyStore
<1>1. TypeOK
  BY DEF TypeOK, Stores
<1>2. ServedOnce /\ ServedIsDurable /\ OfferedIsHeld /\ IdentityIsKept
  BY DEF ServedOnce, ServedIsDurable, OfferedIsHeld, IdentityIsKept,
         IsInjective, Range
<1>3. QED
  BY <1>1, <1>2 DEF PreKeysInv

(* Appending a key to the keys served adds it to their set, and keeps them *)
(* distinct if it is new.                                                  *)
LEMMA AppendServed ==
  ASSUME NEW s \in Seq(PreKey), NEW k \in PreKey
  PROVE  /\ Append(s, k) \in Seq(PreKey)
         /\ Range(Append(s, k)) = Range(s) \union {k}
         /\ IsInjective(s) /\ k \notin Range(s) => IsInjective(Append(s, k))
<1>1. /\ DOMAIN s = 1..Len(s)
      /\ DOMAIN Append(s, k) = 1..(Len(s) + 1)
      /\ \A i \in 1..Len(s) : Append(s, k)[i] = s[i]
      /\ Append(s, k)[Len(s) + 1] = k
      /\ Len(s) \in Nat
  OBVIOUS
<1>2. Range(Append(s, k)) = Range(s) \union {k}
  BY <1>1 DEF Range
<1>3. IsInjective(s) /\ k \notin Range(s) => IsInjective(Append(s, k))
  BY <1>1 DEF IsInjective, Range
<1>4. QED
  BY <1>2, <1>3

(* The relay's store, in memory and on disk, after a publication.          *)
LEMMA NextPublish ==
  ASSUME PreKeysInv, NEW b \in Bundle, PublishBundle(b)
  PROVE  PreKeysInv'
<1>. USE PreKeysAssumption DEF PreKeysAssumption, PreKeysInv
<1>1. IdentityIsKept'
  BY DEF PublishBundle, MatchesIdentity, MayPublish, IdentityIsKept, TypeOK,
         Stores
<1>2. CASE ~MayPublish(b)
  BY <1>1, <1>2 DEF PublishBundle, TypeOK, ServedOnce, ServedIsDurable,
                    OfferedIsHeld, Stores
<1>3. CASE MayPublish(b)
  <2>. DEFINE new == [store EXCEPT !.bundle = b, !.keys = Offered(b)]
  <2>1. /\ store' = new
        /\ disk' = new \/ disk' = disk
        /\ failures' \in 0..MaxFailures
        /\ UNCHANGED <<identityDisk, held, served, restarts>>
    BY <1>3 DEF PublishBundle, Saved, SaveFails, TypeOK
  <2>2. /\ new.keys = Offered(b)
        /\ new.consumed = store.consumed
        /\ new \in Stores
    BY DEF TypeOK, Stores, Offered, KeysOf, PreKey
  <2>. HIDE DEF new
  <2>3. TypeOK'
    BY <2>1, <2>2 DEF TypeOK, PublishBundle, Stores
  <2>4. /\ new.keys \intersect new.consumed = {}
        /\ Range(served) \subseteq new.consumed
        /\ new.keys \subseteq held
    BY <1>3, <2>2 DEF MayPublish, Offered, ServedIsDurable
  <2>5. ServedOnce' /\ ServedIsDurable' /\ OfferedIsHeld'
    BY <2>1, <2>4 DEF ServedOnce, ServedIsDurable, OfferedIsHeld
  <2>6. QED
    BY <1>1, <2>1, <2>3, <2>4, <2>5
<1>4. QED
  BY <1>2, <1>3

(* ... and after a fetch.                                                  *)
LEMMA NextFetch ==
  ASSUME PreKeysInv, NEW k \in store.keys, FetchBundle(k)
  PROVE  PreKeysInv'
<1>. USE PreKeysAssumption DEF PreKeysAssumption, PreKeysInv
<1>1. k \in PreKey /\ k \in held /\ k \notin store.consumed
      /\ k \notin Range(served)
  BY DEF TypeOK, Stores, OfferedIsHeld, ServedIsDurable
<1>. DEFINE new == Taken(store, k)
<1>2. /\ new \in Stores
      /\ new.keys = store.keys \ {k}
      /\ new.consumed = store.consumed \union {k}
      /\ new.bundle = store.bundle
  BY <1>1 DEF TypeOK, Stores, Taken
<1>3. /\ store' = new
      /\ UNCHANGED <<identity, identityDisk, held, restarts>>
      /\ \/ disk' = new /\ served' = Append(served, k) /\ failures' = failures
         \/ disk' = disk /\ served' = served /\ failures' \in 0..MaxFailures
  BY DEF FetchBundle, Saved, SaveFails, TypeOK
<1>. HIDE DEF new
<1>4. CASE disk' = disk /\ served' = served /\ failures' \in 0..MaxFailures
  <2>1. TypeOK'
    BY <1>2, <1>3, <1>4 DEF TypeOK, Stores
  <2>2. QED
    BY <2>1, <1>2, <1>3, <1>4
       DEF ServedOnce, ServedIsDurable, OfferedIsHeld, IdentityIsKept
<1>5. CASE disk' = new /\ served' = Append(served, k) /\ failures' = failures
  <2>1. /\ served' \in Seq(PreKey)
        /\ Range(served') = Range(served) \union {k}
        /\ IsInjective(served')
    BY <1>1, <1>5, AppendServed DEF TypeOK, ServedOnce
  <2>2. TypeOK'
    BY <1>2, <1>3, <1>5, <2>1 DEF TypeOK, Stores
  <2>3. QED
    BY <1>1, <1>2, <1>3, <1>5, <2>1, <2>2
       DEF ServedOnce, ServedIsDurable, OfferedIsHeld, IdentityIsKept
<1>6. QED
  BY <1>3, <1>4, <1>5

(* PreKeysInv is preserved by every step.                                  *)
LEMMA NextPreKeys == PreKeysInv /\ [Next]_vars => PreKeysInv'
<1>. SUFFICES ASSUME PreKeysInv, [Next]_vars PROVE PreKeysInv'
  OBVIOUS
<1>. USE PreKeysAssumption DEF PreKeysAssumption, PreKeysInv, TypeOK,
         ServedOnce, ServedIsDurable, OfferedIsHeld, IdentityIsKept, Stores
<1>1. CASE SaveRegistrations
  BY <1>1 DEF SaveRegistrations
<1>2. CASE Restart
  BY <1>2 DEF Restart
<1>3. ASSUME NEW k \in PreKey, ConsumePreKey(k) PROVE PreKeysInv'
  BY <1>3 DEF ConsumePreKey
<1>4. CASE UNCHANGED vars
  BY <1>4 DEF vars
<1>5. QED
  BY <1>1, <1>2, <1>3, <1>4, NextPublish, NextFetch DEF Next

-----------------------------------------------------------------------------
(* The theorems.                                                           *)

(* The store, the keys served, the keys the client has and the registered  *)
(* identity stay consistent over failed saves, restarts and repeated       *)
(* publications (server.py:96-126, 587-686).                               *)
THEOREM PreKeysCorrect == Spec => []PreKeysInv
BY InitPreKeys, NextPreKeys, PTL DEF Spec

(* A one-time pre-key is handed out at most once (server.py:638-682).      *)
THEOREM KeysAreServedOnce == Spec => []ServedOnce
<1>1. PreKeysInv => ServedOnce
  BY DEF PreKeysInv
<1>2. QED
  BY <1>1, PreKeysCorrect, PTL

(* A key handed out is on record, in memory and on disk, and off offer     *)
(* (server.py:113-126, 674-682).                                           *)
THEOREM ServedKeysAreRecorded == Spec => []ServedIsDurable
<1>1. PreKeysInv => ServedIsDurable
  BY DEF PreKeysInv
<1>2. QED
  BY <1>1, PreKeysCorrect, PTL

(* The device still has the private half of every key on offer             *)
(* (session.py:90-92, server.py:651).                                      *)
THEOREM OfferedKeysAreHeld == Spec => []OfferedIsHeld
<1>1. PreKeysInv => OfferedIsHeld
  BY DEF PreKeysInv
<1>2. QED
  BY <1>1, PreKeysCorrect, PTL

(* A saved identity key is never replaced, and until a restart the         *)
(* registered one is that of the published bundle (server.py:627-641).     *)
THEOREM IdentitiesAreKept == Spec => []IdentityIsKept
<1>1. PreKeysInv => IdentityIsKept
  BY DEF PreKeysInv
<1>2. QED
  BY <1>1, PreKeysCorrect, PTL

(* Every variable of the pre-key store has its type                        *)
(* (server.py:113-126, 574-682).                                           *)
THEOREM TypesHold == Spec => []TypeOK
<1>1. PreKeysInv => TypeOK
  BY DEF PreKeysInv
<1>2. QED
  BY <1>1, PreKeysCorrect, PTL
=============================================================================
