------------------------------ MODULE PreKeys -------------------------------
(***************************************************************************)
(* The one-time pre-keys of one device: published once, handed out one per *)
(* fetch by the relay, which saves its store before it answers, and used   *)
(* up by the device when the first message of a session opens.  Saves may  *)
(* fail and the relay may restart from what it saved.                      *)
(*                                                                         *)
(* A member of Bundle is a generated pre-key bundle and names the identity *)
(* key in it; its one-time keys are the pairs <<b, i>>.  The relay hands   *)
(* them out in the order of the published list, which nothing depends on:  *)
(* here they are a set and any of them may be next.  A handler of the      *)
(* relay runs under the relay's lock and is one step.                      *)
(***************************************************************************)
EXTENDS Naturals, Sequences, Functions

CONSTANTS
  Bundle,        \* the bundles the device's client may generate
  NoBundle,      \* none published, or no identity registered
  PoolSize,      \* one_time_pre_key_count
  MaxFailures,   \* bound: saves of the relay that fail
  MaxRestarts    \* bound: restarts of the relay

ASSUME PreKeysAssumption ==
  /\ NoBundle \notin Bundle
  /\ PoolSize \in Nat
  /\ MaxFailures \in Nat
  /\ MaxRestarts \in Nat

VARIABLES
  store,         \* _bundles and _consumed_pre_key_ids of the device
  disk,          \* pre_key_bundles.json
  identity,      \* identity key in the device's registration
  identityDisk,  \* the same in registrations.json
  held,          \* one-time private keys the client still has
  served,        \* history: the keys the relay answered with
  failures,      \* number of failed saves so far
  restarts       \* number of restarts so far

vars == <<store, disk, identity, identityDisk, held, served, failures,
          restarts>>

KeysOf(b) == {b} \X (1..PoolSize)
PreKey == Bundle \X (1..PoolSize)

EmptyStore == [bundle |-> NoBundle, keys |-> {}, consumed |-> {}]

(* The device is registered, with the identity key of its bundle if it is  *)
(* an encrypted one.                                                       *)
Init ==
  /\ store = EmptyStore
  /\ disk = EmptyStore
  /\ identity \in Bundle \union {NoBundle}
  /\ identityDisk = identity
  /\ held = PreKey
  /\ served = <<>>
  /\ failures = 0
  /\ restarts = 0

-----------------------------------------------------------------------------
Saved_NoLedger(s) ==
  /\ disk' = [bundle |-> s.bundle, keys |-> s.keys]
  /\ UNCHANGED failures

Saved_Never(s) ==
  /\ disk' = disk
  /\ UNCHANGED failures

(* _save_bundles writes the whole store atomically ...                     *)
Saved(s) ==
  /\ disk' = s
  /\ UNCHANGED failures

(* ... or raises: no answer is sent, and the store in memory stays as it   *)
(* was changed.                                                            *)
SaveFails ==
  /\ failures < MaxFailures
  /\ failures' = failures + 1
  /\ UNCHANGED disk

(* What publish_pre_key_bundle sends: the public half of every key that    *)
(* the client still has.                                                   *)
Offered(b) == KeysOf(b) \intersect held

MayPublish_Always(b) == TRUE

(* A bundle is accepted when none is published and none of its keys was    *)
(* served.                                                                 *)
MayPublish(b) ==
  /\ store.bundle = NoBundle
  /\ Offered(b) \intersect store.consumed = {}

MatchesIdentity_Always(b) == TRUE

(* The identity of the bundle may not differ from a registered one.        *)
MatchesIdentity(b) == identity \in {b, NoBundle}

(* POST /bundles.  The identity key is registered in memory first; a       *)
(* bundle refused after that (409) leaves it registered.                   *)
PublishBundle(b) ==
  /\ MatchesIdentity(b)
  /\ identity' = b
  /\ IF MayPublish(b)
     THEN /\ store' = [store EXCEPT !.bundle = b, !.keys = Offered(b)]
          /\ Saved(store') \/ SaveFails
     ELSE UNCHANGED <<store, disk, failures>>
  /\ UNCHANGED <<identityDisk, held, served, restarts>>

Taken_KeepKey(s, k) == [s EXCEPT !.consumed = @ \union {k}]

(* The store after key k is taken.                                         *)
Taken(s, k) == [s EXCEPT !.keys = @ \ {k}, !.consumed = @ \union {k}]

(* GET /bundles with keys on offer; without any it answers the bundle      *)
(* alone and changes nothing.                                              *)
FetchBundle(k) ==
  /\ store.bundle # NoBundle
  /\ store' = Taken(store, k)
  /\ \/ Saved(store') /\ served' = Append(served, k)
     \/ SaveFails /\ UNCHANGED served
  /\ UNCHANGED <<identity, identityDisk, held, restarts>>

(* A registration or a link of any device saves every registration.        *)
SaveRegistrations ==
  /\ identityDisk' = identity
  /\ UNCHANGED <<store, disk, identity, held, served, failures, restarts>>

Restart ==
  /\ restarts < MaxRestarts
  /\ restarts' = restarts + 1
  /\ store' = disk
  /\ identity' = identityDisk
  /\ UNCHANGED <<disk, identityDisk, held, served, failures>>

(* The first message of a session opens with key k, which is then gone.    *)
ConsumePreKey(k) ==
  /\ k \in Range(served) \intersect held
  /\ held' = held \ {k}
  /\ UNCHANGED <<store, disk, identity, identityDisk, served, failures,
                 restarts>>

-----------------------------------------------------------------------------
Next ==
  \/ \E b \in Bundle : PublishBundle(b)
  \/ \E k \in store.keys : FetchBundle(k)
  \/ SaveRegistrations
  \/ Restart
  \/ \E k \in PreKey : ConsumePreKey(k)

Spec == Init /\ [][Next]_vars

-----------------------------------------------------------------------------
(* Properties.                                                             *)

Stores == [bundle : Bundle \union {NoBundle}, keys : SUBSET PreKey,
           consumed : SUBSET PreKey]

(* Every variable has its type.                                            *)
TypeOK ==
  /\ store \in Stores
  /\ disk \in Stores
  /\ identity \in Bundle \union {NoBundle}
  /\ identityDisk \in Bundle \union {NoBundle}
  /\ held \in SUBSET PreKey
  /\ served \in Seq(PreKey)
  /\ failures \in 0..MaxFailures
  /\ restarts \in 0..MaxRestarts

(* A one-time pre-key is handed out at most once, over failed saves,       *)
(* restarts and repeated publications (server.py:638-682;                  *)
(* tests/test_http_relay.py:375).                                          *)
ServedOnce == IsInjective(served)

(* A key that was handed out is on record as consumed and no longer on     *)
(* offer, in memory and on disk, so that no crash can bring it back        *)
(* (server.py:113-126, 674-682).                                           *)
ServedIsDurable ==
  \A s \in {store, disk} :
    /\ Range(served) \subseteq s.consumed
    /\ Range(served) \intersect s.keys = {}

(* The device still has the private half of every key it may be asked to   *)
(* use: a key on offer has not been used up (session.py:90-92,             *)
(* server.py:651, client.py:638-649).                                      *)
OfferedIsHeld ==
  store.keys \union disk.keys \subseteq held

(* An identity key that is saved in the device's registration is never     *)
(* replaced, and until a restart the identity that senders compare with a  *)
(* bundle before they open a session is the bundle's, although a refused   *)
(* publication registers its identity first and nothing saves it           *)
(* (server.py:627-641, client.py:526-530).  After a restart that forgot    *)
(* the unsaved identity a refused publication may replace it.              *)
IdentityIsKept ==
  /\ identityDisk # NoBundle => identity = identityDisk
  /\ restarts = 0 => store.bundle \in {NoBundle, identity}

-----------------------------------------------------------------------------
(* What the properties above rest on, with them: a key on record as        *)
(* consumed is not on offer, in memory and on disk.                        *)
PreKeysInv ==
  /\ TypeOK
  /\ \A s \in {store, disk} : s.keys \intersect s.consumed = {}
  /\ ServedOnce
  /\ ServedIsDurable
  /\ OfferedIsHeld
  /\ IdentityIsKept
=============================================================================
