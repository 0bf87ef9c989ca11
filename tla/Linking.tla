------------------------------ MODULE Linking -------------------------------
(***************************************************************************)
(* Linking companion devices to an account: the primary's link_companion,  *)
(* the relay's registrations in memory and on disk, and the companions'    *)
(* write_link_offer and complete_companion_link up to the publication of   *)
(* their pre-keys.  Requests and answers may be lost or late, calls may    *)
(* stop at any step, saves may fail, and the relay may restart.            *)
(*                                                                         *)
(* An approval is what link_companion signs and uploads once: fresh        *)
(* metadata, the device, the signed list and the HMAC under the offer's    *)
(* secret.  It is named by its position in links, so two uploads are equal *)
(* exactly when they have one number.  A companion is its device id and    *)
(* its identity key, both made once.  The primary is registered; signatures*)
(* verify, and the checks left are those on what is signed.                *)
(***************************************************************************)
EXTENDS Naturals, Sequences, FiniteSets

CONSTANTS
  Companion,    \* companion devices of the account
  MaxOffers,    \* bound: offers a companion writes
  MaxLinks,     \* bound: approvals the primary signs
  MaxFaults,    \* bound: calls that end early
  MaxFailures,  \* bound: failed saves of the relay
  MaxRestarts   \* bound: restarts of the relay

ASSUME LinkingAssumption ==
  /\ MaxOffers \in Nat
  /\ MaxLinks \in Nat
  /\ MaxFaults \in Nat
  /\ MaxFailures \in Nat
  /\ MaxRestarts \in Nat

VARIABLES
  srv,         \* the account in _registrations
  file,        \* the account in registrations.json
  bundled,     \* companions with a published pre-key bundle
  lateLinks,   \* approvals in uploads whose client no longer waits
  lateRegs,    \* registrations <<c, approval>> likewise
  links,       \* every approval, in order
  linkStep,    \* where the primary's call is; its approval is the last one
  tries,       \* attempts of its upload so far
  saved,       \* the primary's saved companion keys
  offer,       \* number of each companion's current offer, 0 before any
  step,        \* where each companion's call is
  got,         \* the approval that call works with
  meta,        \* the approval in each companion's state file, 0 when none
  credential,  \* companions whose auth_key is saved
  took,        \* history: approvals the relay accepted
  faults, failures, restarts   \* counters for the bounds

relayVars     == <<srv, file, bundled, lateLinks, lateRegs, took>>
primaryVars   == <<links, linkStep, tries, saved>>
companionVars == <<offer, step, got, meta, credential>>
boundVars     == <<faults, failures, restarts>>
vars == <<relayVars, primaryVars, companionVars, boundVars>>

(* An account: the approval each companion is registered with, the one     *)
(* pending for it, and the companions in the signed device list.           *)
NoAccount == [cert    |-> [c \in Companion |-> 0],
              pending |-> [c \in Companion |-> 0],
              list    |-> {}]

Registered(s) == {c \in Companion : s.cert[c] # 0}
Pending(s)    == {c \in Companion : s.pending[c] # 0}

Init ==
  /\ srv = NoAccount
  /\ file = NoAccount
  /\ bundled = {}
  /\ lateLinks = {}
  /\ lateRegs = {}
  /\ links = <<>>
  /\ linkStep = "idle"
  /\ tries = 0
  /\ saved = {}
  /\ offer = [c \in Companion |-> 0]
  /\ step = [c \in Companion |-> "idle"]
  /\ got = [c \in Companion |-> 0]
  /\ meta = [c \in Companion |-> 0]
  /\ credential = {}
  /\ took = {}
  /\ faults = 0
  /\ failures = 0
  /\ restarts = 0

Fault == faults < MaxFaults /\ faults' = faults + 1

-----------------------------------------------------------------------------
(* The relay.                                                              *)

(* A handler changed the account to s and saves it: the client waiting for *)
(* it is answered only if the save succeeds.                               *)
SaveRegistrations_MemoryOnly(s, ok) == srv' = s /\ UNCHANGED <<file, failures>>
SaveRegistrations(s, ok) ==
  /\ srv' = s
  /\ IF ok
     THEN file' = s /\ UNCHANGED failures
     ELSE /\ failures < MaxFailures
          /\ failures' = failures + 1
          /\ UNCHANGED file

(* POST /link, the checks: the device is not registered, the list is the   *)
(* registered companions and it, and no other approval is pending for it.  *)
MayLink_AnyList(s, n) ==
  /\ s.cert[links[n].device] = 0
  /\ s.pending[links[n].device] \in {0, n}
MayLink(s, n) ==
  /\ s.cert[links[n].device] = 0
  /\ links[n].list = Registered(s) \union {links[n].device}
  /\ s.pending[links[n].device] \in {0, n}

Linked(s, n) == [s EXCEPT !.list = links[n].list,
                          !.pending[links[n].device] = n]

(* POST /link for the call that waits.  A failed save drops the connection *)
(* in a way _request does not retry.                                       *)
PublishLinkData ==
  LET n == Len(links) IN
  /\ linkStep = "posted"
  /\ \/ /\ ~MayLink(srv, n)
        /\ linkStep' = "refused"
        /\ UNCHANGED <<srv, file, took, failures>>
     \/ /\ MayLink(srv, n)
        /\ took' = took \union {n}
        /\ \E ok \in BOOLEAN :
             /\ SaveRegistrations(Linked(srv, n), ok)
             /\ linkStep' = IF ok THEN "accepted" ELSE "failed"
  /\ UNCHANGED <<bundled, lateLinks, lateRegs, links, tries, saved,
                 companionVars, faults, restarts>>

(* POST /link for a client that no longer waits.                           *)
LatePublishLinkData(n) ==
  /\ n \in lateLinks
  /\ lateLinks' = lateLinks \ {n}
  /\ \/ ~MayLink(srv, n) /\ UNCHANGED <<srv, file, took, failures>>
     \/ /\ MayLink(srv, n)
        /\ took' = took \union {n}
        /\ \E ok \in BOOLEAN : SaveRegistrations(Linked(srv, n), ok)
  /\ UNCHANGED <<bundled, lateRegs, primaryVars, companionVars, faults,
                 restarts>>

(* POST /register of a companion: it is not registered, and its            *)
(* certificate is the pending approval.                                    *)
MayRegister_AnyLink(s, c, n) == s.cert[c] = 0 /\ s.pending[c] # 0
MayRegister(s, c, n) == s.cert[c] = 0 /\ s.pending[c] = n

Joined(s, c, n) == [s EXCEPT !.cert[c] = n, !.pending[c] = 0]

Register(c) ==
  /\ step[c] = "posted"
  /\ \/ /\ ~MayRegister(srv, c, got[c])
        /\ step' = [step EXCEPT ![c] = "idle"]
        /\ UNCHANGED <<srv, file, failures>>
     \/ /\ MayRegister(srv, c, got[c])
        /\ \E ok \in BOOLEAN :
             /\ SaveRegistrations(Joined(srv, c, got[c]), ok)
             /\ step' = [step EXCEPT ![c] = IF ok THEN "answered" ELSE "idle"]
  /\ UNCHANGED <<bundled, lateLinks, lateRegs, took, primaryVars, offer, got,
                 meta, credential, faults, restarts>>

LateRegister(c, n) ==
  /\ <<c, n>> \in lateRegs
  /\ lateRegs' = lateRegs \ {<<c, n>>}
  /\ \/ ~MayRegister(srv, c, n) /\ UNCHANGED <<srv, file, failures>>
     \/ /\ MayRegister(srv, c, n)
        /\ \E ok \in BOOLEAN : SaveRegistrations(Joined(srv, c, n), ok)
  /\ UNCHANGED <<bundled, lateLinks, took, primaryVars, companionVars, faults,
                 restarts>>

(* The registration of another account saves this one with it.             *)
RegisterOther ==
  /\ file # srv
  /\ file' = srv
  /\ UNCHANGED <<srv, bundled, lateLinks, lateRegs, took, primaryVars,
                 companionVars, boundVars>>

(* What was not saved is forgotten.  Requests whose client still waits may *)
(* reach the new server; the others are gone.                              *)
Recovered_NoPending == [file EXCEPT !.pending = NoAccount.pending]
Recovered == file

Restart ==
  /\ restarts < MaxRestarts
  /\ restarts' = restarts + 1
  /\ srv' = Recovered
  /\ lateLinks' = {}
  /\ lateRegs' = {}
  /\ UNCHANGED <<file, bundled, took, primaryVars, companionVars, faults,
                 failures>>

-----------------------------------------------------------------------------
(* The primary.                                                            *)

(* link_companion, under the state lock: a list of the saved companions    *)
(* and the offered one, and an HMAC under the offer's secret.              *)
HasOffer_Always(c) == TRUE
HasOffer(c) == offer[c] # 0

LinkCompanion(c) ==
  /\ linkStep = "idle"
  /\ HasOffer(c)
  /\ Len(links) < MaxLinks
  /\ links' = Append(links, [device |-> c, offer |-> offer[c],
                             list |-> saved \union {c}])
  /\ linkStep' = "posted"
  /\ tries' = 1
  /\ UNCHANGED <<relayVars, saved, companionVars, boundVars>>

(* retries=1: the same upload again, after a refusal, which is an HTTPError*)
(* and so a URLError, or after a timeout, which may leave the first one to *)
(* be handled late.                                                        *)
RetryLink ==
  /\ linkStep \in {"posted", "refused", "accepted"}
  /\ tries = 1
  /\ tries' = 2
  /\ \/ linkStep = "posted" /\ lateLinks' = lateLinks \union {Len(links)}
     \/ UNCHANGED lateLinks
  /\ linkStep' = "posted"
  /\ UNCHANGED <<srv, file, bundled, lateRegs, took, links, saved,
                 companionVars, boundVars>>

(* The answer arrives, and the companion's key is saved.                   *)
SaveLink == saved' = links[Len(links)].list

ConfirmLink ==
  /\ linkStep = "accepted"
  /\ SaveLink
  /\ linkStep' = "idle"
  /\ UNCHANGED <<relayVars, links, tries, companionVars, boundVars>>

(* A second refusal, or a failed save, is raised to the caller.            *)
LinkRefused ==
  /\ linkStep = "failed" \/ (linkStep = "refused" /\ tries = 2)
  /\ linkStep' = "idle"
  /\ UNCHANGED <<relayVars, links, tries, saved, companionVars, boundVars>>

(* The call ends before its answer: both attempts time out, the connection *)
(* breaks, or the process is killed.                                       *)
AbandonLink ==
  /\ linkStep # "idle"
  /\ Fault
  /\ \/ linkStep = "posted" /\ lateLinks' = lateLinks \union {Len(links)}
     \/ UNCHANGED lateLinks
  /\ linkStep' = "idle"
  /\ UNCHANGED <<srv, file, bundled, lateRegs, took, links, tries, saved,
                 companionVars, failures, restarts>>

-----------------------------------------------------------------------------
(* A companion.                                                            *)

(* write_link_offer replaces the offer file, with a fresh secret.          *)
WriteLinkOffer(c) ==
  /\ offer[c] < MaxOffers
  /\ offer' = [offer EXCEPT ![c] = @ + 1]
  /\ UNCHANGED <<relayVars, primaryVars, step, got, meta, credential,
                 boundVars>>

(* complete_companion_link: GET /link, and the checks of what it answers.  *)
VerifiesLink(c, n) == links[n].offer = offer[c] /\ c \in links[n].list

GetLinkData(c) ==
  /\ step[c] = "idle"
  /\ c \notin credential
  /\ srv.pending[c] # 0
  /\ VerifiesLink(c, srv.pending[c])
  /\ step' = [step EXCEPT ![c] = "got"]
  /\ got' = [got EXCEPT ![c] = srv.pending[c]]
  /\ UNCHANGED <<relayVars, primaryVars, offer, meta, credential, boundVars>>

(* The verified link is saved, and POST /register leaves, once.            *)
SaveMetadata(c) == meta' = [meta EXCEPT ![c] = got[c]]

SaveLinkData(c) ==
  /\ step[c] = "got"
  /\ SaveMetadata(c)
  /\ step' = [step EXCEPT ![c] = "posted"]
  /\ UNCHANGED <<relayVars, primaryVars, offer, got, credential, boundVars>>

SaveAuthKey(c) ==
  /\ step[c] = "answered"
  /\ credential' = credential \union {c}
  /\ step' = [step EXCEPT ![c] = "publish"]
  /\ UNCHANGED <<relayVars, primaryVars, offer, got, meta, boundVars>>

(* POST /bundles, authenticated by the new key.                            *)
PublishBundle(c) ==
  /\ step[c] = "publish"
  /\ c \in Registered(srv)
  /\ bundled' = bundled \union {c}
  /\ step' = [step EXCEPT ![c] = "idle"]
  /\ UNCHANGED <<srv, file, lateLinks, lateRegs, took, primaryVars, offer,
                 got, meta, credential, boundVars>>

(* The call ends early; a registration may still be on its way.            *)
Interrupt(c) ==
  /\ step[c] # "idle"
  /\ Fault
  /\ \/ step[c] = "posted" /\ lateRegs' = lateRegs \union {<<c, got[c]>>}
     \/ UNCHANGED lateRegs
  /\ step' = [step EXCEPT ![c] = "idle"]
  /\ UNCHANGED <<srv, file, bundled, lateLinks, took, primaryVars, offer,
                 got, meta, credential, failures, restarts>>

-----------------------------------------------------------------------------
Next ==
  \/ PublishLinkData
  \/ \E n \in lateLinks : LatePublishLinkData(n)
  \/ \E c \in Companion : Register(c)
  \/ \E r \in lateRegs : LateRegister(r[1], r[2])
  \/ RegisterOther
  \/ Restart
  \/ \E c \in Companion : LinkCompanion(c)
  \/ RetryLink
  \/ ConfirmLink
  \/ LinkRefused
  \/ AbandonLink
  \/ \E c \in Companion : WriteLinkOffer(c)
  \/ \E c \in Companion : GetLinkData(c)
  \/ \E c \in Companion : SaveLinkData(c)
  \/ \E c \in Companion : SaveAuthKey(c)
  \/ \E c \in Companion : PublishBundle(c)
  \/ \E c \in Companion : Interrupt(c)

Spec == Init /\ [][Next]_vars

-----------------------------------------------------------------------------
(* Properties.                                                             *)

LinkIds  == DOMAIN links
Accounts == [cert : [Companion -> {0} \union LinkIds],
             pending : [Companion -> {0} \union LinkIds],
             list : SUBSET Companion]

(* Every variable has its type.                                            *)
TypeOK ==
  /\ srv \in Accounts
  /\ file \in Accounts
  /\ bundled \subseteq Companion
  /\ lateLinks \subseteq LinkIds
  /\ lateRegs \subseteq Companion \X LinkIds
  /\ links \in Seq([device : Companion, offer : 1..MaxOffers,
                    list : SUBSET Companion])
  /\ linkStep \in {"idle", "posted", "refused", "failed", "accepted"}
  /\ tries \in 0..2
  /\ saved \subseteq Companion
  /\ offer \in [Companion -> 0..MaxOffers]
  /\ step \in [Companion -> {"idle", "got", "posted", "answered", "publish"}]
  /\ got \in [Companion -> {0} \union LinkIds]
  /\ meta \in [Companion -> {0} \union LinkIds]
  /\ credential \subseteq Companion
  /\ took \subseteq LinkIds
  /\ faults \in 0..MaxFaults
  /\ failures \in 0..MaxFailures
  /\ restarts \in 0..MaxRestarts

(* A companion that holds a credential is registered, in memory and on     *)
(* disk: no failed save, restart or late request takes away what it was    *)
(* answered (server.py:408-433, client.py:150-152).                        *)
CredentialIsRegistered ==
  credential \subseteq Registered(srv) \intersect Registered(file)

(* The certificate the relay registers for a companion is the one the      *)
(* companion saved before it sent it, although a restart may bring another *)
(* approval in between (client.py:315-350, server.py:386-424).             *)
CertificateIsHeld ==
  \A s \in {srv, file} : \A c \in Registered(s) : meta[c] = s.cert[c]

(* The signed list never names a companion that is neither registered nor  *)
(* about to be, whatever was lost, and however late (server.py:508-535).   *)
ListedIsKnown ==
  \A s \in {srv, file} : s.list \subseteq Registered(s) \union Pending(s)

(* An approval the relay took is saved by the primary, unless its call was *)
(* cut off; the call in progress may still be.                             *)
Confirmed ==
  \A n \in took :
    \/ links[n].device \in saved
    \/ n = Len(links) /\ linkStep # "idle"

(* As long as no approval went unconfirmed, the primary's keys are the     *)
(* relay's list whenever it is at rest, and the list is the registered     *)
(* companions and at most one in progress (client.py:271-295,              *)
(* server.py:508-535).                                                     *)
ListsAgree ==
  Confirmed =>
    /\ linkStep = "idle" => saved = srv.list
    /\ srv.list = Registered(srv) \union Pending(srv)
    /\ Cardinality(Pending(srv)) <= 1

(* A linked companion is in the signed device list                         *)
(* (tests/test_client.py:475).                                             *)
LinkedIsListed == Registered(srv) \subseteq srv.list

(* fetch_devices accepts the roster of an account with companions          *)
(* (client.py:215-223), which every encrypted send to it and from it needs *)
(* (README.md:252).                                                        *)
RosterVerifies == Registered(srv) # {} => srv.list = Registered(srv)

-----------------------------------------------------------------------------
(* The inductive invariant behind the first three, by parts.               *)

(* An answered registration is in memory and on disk.                      *)
AnsweredIsDurable ==
  \A c \in Companion :
    c \in credential \/ step[c] \in {"answered", "publish"} =>
      c \in Registered(srv) \intersect Registered(file)

(* Memory is never behind the file, and what is pending is not registered. *)
FileIsBehind ==
  /\ \A c \in Registered(file) : srv.cert[c] = file.cert[c]
  /\ \A s \in {srv, file} : Registered(s) \intersect Pending(s) = {}

(* The primary's call has signed its approval.  A companion's registers    *)
(* with what it saved; a late registration does so too, or can no longer   *)
(* succeed before a restart discards it.                                   *)
CallsAgree ==
  /\ linkStep # "idle" => links # <<>>
  /\ \A c \in Companion :
       /\ step[c] \in {"got", "posted"} => got[c] # 0
       /\ step[c] = "posted" => meta[c] = got[c]
       /\ step[c] = "got" /\ c \in Registered(srv) => srv.cert[c] = got[c]
  /\ \A r \in lateRegs :
       \/ r[1] \in Registered(srv)
       \/ srv.pending[r[1]] \notin {0, r[2]}
       \/ /\ meta[r[1]] = r[2]
          /\ step[r[1]] = "got" => got[r[1]] = r[2]

(* The state that linking keeps consistent over lost answers, late         *)
(* requests, failed saves and restarts (server.py:286-552,                 *)
(* client.py:116-156, 261-350).                                            *)
LinkingInv ==
  /\ TypeOK
  /\ AnsweredIsDurable
  /\ FileIsBehind
  /\ CallsAgree
  /\ CertificateIsHeld
  /\ ListedIsKnown

-----------------------------------------------------------------------------
(* The inductive invariant behind ListsAgree, by parts.                    *)

Known(s) == Registered(s) \union Pending(s)

(* The companion's approval is that of the primary's call.                 *)
InProgress(s, c) ==
  linkStep # "idle" /\ Len(links) \in {s.cert[c], s.pending[c]}

(* A companion is registered with, or waits for, an approval of it that    *)
(* the relay took.                                                         *)
ApprovalsAreTaken ==
  \A s \in {srv, file} : \A c \in Companion :
    \A n \in {s.cert[c], s.pending[c]} \ {0} :
      n \in took /\ links[n].device = c

(* What the primary saved the relay knows, in memory and on disk, and will *)
(* still after a restart; so it does what was accepted, before the primary *)
(* saves it.                                                               *)
SavedIsKnown ==
  /\ \A s \in {srv, file} : saved \subseteq Known(s)
  /\ linkStep # "idle" =>
       links[Len(links)].list = saved \union {links[Len(links)].device}
  /\ linkStep = "accepted" =>
       \A s \in {srv, file} : InProgress(s, links[Len(links)].device)

(* An account all of whose companions the primary saved or is about to has *)
(* these in its list, one at a time pending.                               *)
Owned(s) == \A c \in Known(s) : c \in saved \/ InProgress(s, c)

Follows(s) ==
  Owned(s) => /\ s.list = Known(s)
              /\ \A c, d \in Pending(s) : c = d

ListFollows == \A s \in {srv, file} : Follows(s)

(* The state that keeps the relay's list and the primary's keys together   *)
(* (client.py:261-295, server.py:508-535).                                 *)
AgreementInv ==
  /\ LinkingInv
  /\ ApprovalsAreTaken
  /\ SavedIsKnown
  /\ ListFollows
=============================================================================
