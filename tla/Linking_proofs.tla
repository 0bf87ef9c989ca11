--------------------------- MODULE Linking_proofs ---------------------------
(***************************************************************************)
(* LinkingInv is an invariant of Linking, for any number of companions and *)
(* any bounds.  What a step does to the account in memory and on disk is   *)
(* first brought into one of four forms, in RelayStep; the parts about the *)
(* account follow from these, and the parts about calls by actions.        *)
(* AgreementInv, which adds what keeps the relay's list and the primary's  *)
(* keys together, rests on it and on what HandledFollows says of the forms.*)
(***************************************************************************)
EXTENDS Linking, FiniteSetTheorems, TLAPS

(* The initial states satisfy every part.                                  *)
LEMMA InitLinking == Init => LinkingInv
BY LinkingAssumption
   DEF LinkingAssumption, Init, LinkingInv, TypeOK, Accounts, LinkIds, NoAccount, Registered,
       Pending, AnsweredIsDurable, FileIsBehind, CallsAgree,
       CertificateIsHeld, ListedIsKnown

-----------------------------------------------------------------------------
(* Types.                                                                  *)

(* The parts of an approval.                                               *)
LEMMA LinkType ==
  ASSUME TypeOK, NEW n \in LinkIds
  PROVE  links[n].device \in Companion /\ links[n].list \subseteq Companion
<1>. DEFINE Link == [device : Companion, offer : 1..MaxOffers,
                     list : SUBSET Companion]
<1>1. links \in Seq(Link)
  BY DEF TypeOK
<1>2. links[n] \in Link
  <2>. HIDE DEF Link
  <2>. QED BY <1>1 DEF LinkIds
<1>3. QED
  BY <1>2

(* Accepting an approval or a registration keeps an account's type.        *)
LEMMA AccountTypes ==
  ASSUME TypeOK
  PROVE  /\ \A n \in LinkIds : Linked(srv, n) \in Accounts
         /\ \A c \in Companion : \A n \in LinkIds : Joined(srv, c, n) \in Accounts
<1>1. \A n \in LinkIds : links[n].device \in Companion
                         /\ links[n].list \in SUBSET Companion
  BY LinkType
<1>2. QED
  BY <1>1 DEF TypeOK, Accounts, Linked, Joined

(* A call that registers or was answered works with an approval.           *)
LEMMA GotIsLink ==
  ASSUME TypeOK, CallsAgree, NEW c \in Companion,
         step[c] \in {"got", "posted"}
  PROVE  got[c] \in LinkIds
BY DEF TypeOK, CallsAgree

(* TypeOK is preserved by every step.                                      *)
LEMMA NextTypes == LinkingInv /\ [Next]_vars => TypeOK'
<1>. SUFFICES ASSUME LinkingInv, [Next]_vars PROVE TypeOK'
  OBVIOUS
<1>. USE LinkingAssumption DEF LinkingAssumption, LinkingInv, relayVars,
         primaryVars, companionVars, boundVars, Fault
<1>0. CASE UNCHANGED vars
  BY <1>0 DEF TypeOK, vars, LinkIds, Accounts
<1>1. CASE PublishLinkData
  <2>1. Len(links) \in LinkIds
    BY <1>1 DEF PublishLinkData, CallsAgree, TypeOK, LinkIds
  <2>2. srv' \in Accounts /\ file' \in Accounts
    BY <1>1, <2>1, AccountTypes DEF PublishLinkData, SaveRegistrations, TypeOK
  <2>3. took' \subseteq LinkIds /\ failures' \in 0..MaxFailures
    BY <1>1, <2>1 DEF PublishLinkData, SaveRegistrations, TypeOK
  <2>4. QED
    BY <1>1, <2>2, <2>3 DEF PublishLinkData, TypeOK, LinkIds, Accounts
<1>2. ASSUME NEW n \in lateLinks, LatePublishLinkData(n) PROVE TypeOK'
  <2>1. n \in LinkIds
    BY DEF TypeOK
  <2>2. srv' \in Accounts /\ file' \in Accounts
    BY <1>2, <2>1, AccountTypes
       DEF LatePublishLinkData, SaveRegistrations, TypeOK
  <2>3. took' \subseteq LinkIds /\ failures' \in 0..MaxFailures
    BY <1>2, <2>1 DEF LatePublishLinkData, SaveRegistrations, TypeOK
  <2>4. QED
    BY <1>2, <2>2, <2>3 DEF LatePublishLinkData, TypeOK, LinkIds, Accounts
<1>3. ASSUME NEW c \in Companion, Register(c) PROVE TypeOK'
  <2>1. got[c] \in LinkIds
    BY <1>3, GotIsLink DEF Register
  <2>2. srv' \in Accounts /\ file' \in Accounts /\ failures' \in 0..MaxFailures
    BY <1>3, <2>1, AccountTypes DEF Register, SaveRegistrations, TypeOK
  <2>3. QED
    BY <1>3, <2>2 DEF Register, TypeOK, LinkIds, Accounts
<1>4. ASSUME NEW r \in lateRegs, LateRegister(r[1], r[2]) PROVE TypeOK'
  <2>1. r[1] \in Companion /\ r[2] \in LinkIds
    BY DEF TypeOK
  <2>2. srv' \in Accounts /\ file' \in Accounts /\ failures' \in 0..MaxFailures
    BY <1>4, <2>1, AccountTypes DEF LateRegister, SaveRegistrations, TypeOK
  <2>3. QED
    BY <1>4, <2>2 DEF LateRegister, TypeOK, LinkIds, Accounts
<1>5. CASE RegisterOther
  BY <1>5 DEF RegisterOther, TypeOK, LinkIds, Accounts
<1>6. CASE Restart
  BY <1>6 DEF Restart, Recovered, TypeOK, LinkIds, Accounts
<1>7. ASSUME NEW c \in Companion, LinkCompanion(c) PROVE TypeOK'
  <2>1. /\ links' \in Seq([device : Companion, offer : 1..MaxOffers,
                          list : SUBSET Companion])
        /\ LinkIds \subseteq LinkIds'
    BY <1>7 DEF LinkCompanion, HasOffer, TypeOK, LinkIds
  <2>2. Accounts \subseteq Accounts'
    BY <2>1 DEF Accounts
  <2>3. QED
    BY <1>7, <2>1, <2>2 DEF LinkCompanion, TypeOK
<1>8. CASE RetryLink
  <2>1. Len(links) \in LinkIds
    BY <1>8 DEF RetryLink, CallsAgree, TypeOK, LinkIds
  <2>2. QED
    BY <1>8, <2>1 DEF RetryLink, TypeOK, LinkIds, Accounts
<1>9. CASE ConfirmLink
  <2>1. Len(links) \in LinkIds
    BY <1>9 DEF ConfirmLink, CallsAgree, TypeOK, LinkIds
  <2>2. links[Len(links)].list \subseteq Companion
    BY <2>1, LinkType
  <2>3. QED
    BY <1>9, <2>2 DEF ConfirmLink, SaveLink, TypeOK, LinkIds, Accounts
<1>10. CASE LinkRefused
  BY <1>10 DEF LinkRefused, TypeOK, LinkIds, Accounts
<1>11. CASE AbandonLink
  <2>1. Len(links) \in LinkIds
    BY <1>11 DEF AbandonLink, CallsAgree, TypeOK, LinkIds
  <2>2. QED
    BY <1>11, <2>1 DEF AbandonLink, TypeOK, LinkIds, Accounts
<1>12. ASSUME NEW c \in Companion, WriteLinkOffer(c) PROVE TypeOK'
  BY <1>12 DEF WriteLinkOffer, TypeOK, LinkIds, Accounts
<1>13. ASSUME NEW c \in Companion, GetLinkData(c) PROVE TypeOK'
  <2>1. srv.pending[c] \in LinkIds
    BY <1>13 DEF GetLinkData, TypeOK, Accounts
  <2>2. QED
    BY <1>13, <2>1 DEF GetLinkData, TypeOK, LinkIds, Accounts
<1>14. ASSUME NEW c \in Companion, SaveLinkData(c) PROVE TypeOK'
  BY <1>14 DEF SaveLinkData, SaveMetadata, TypeOK, LinkIds, Accounts
<1>15. ASSUME NEW c \in Companion, SaveAuthKey(c) PROVE TypeOK'
  BY <1>15 DEF SaveAuthKey, TypeOK, LinkIds, Accounts
<1>16. ASSUME NEW c \in Companion, PublishBundle(c) PROVE TypeOK'
  BY <1>16 DEF PublishBundle, TypeOK, LinkIds, Accounts
<1>17. ASSUME NEW c \in Companion, Interrupt(c) PROVE TypeOK'
  <2>1. step[c] = "posted" => <<c, got[c]>> \in Companion \X LinkIds
    BY <1>17, GotIsLink DEF Interrupt
  <2>2. QED
    BY SMTT(30), <1>17, <2>1 DEF Interrupt, TypeOK, LinkIds, Accounts
<1>18. QED
  BY <1>0, <1>1, <1>2, <1>3, <1>4, <1>5, <1>6, <1>7, <1>8, <1>9, <1>10, <1>11,
     <1>12, <1>13, <1>14, <1>15, <1>16, <1>17 DEF Next

-----------------------------------------------------------------------------
(* The account.                                                            *)

(* What a handler makes of the account in memory: nothing, an approval     *)
(* accepted, which is then one of those taken, t, or a companion           *)
(* registered with the approval it saved.                                  *)
Handled(s, t) ==
  \/ s = srv
  \/ \E n \in LinkIds : MayLink(srv, n) /\ s = Linked(srv, n) /\ n \in t
  \/ \E c \in Companion : \E n \in LinkIds :
       /\ MayRegister(srv, c, n)
       /\ s = Joined(srv, c, n)
       /\ meta[c] = n
       /\ step[c] = "got" => got[c] = n

(* A step saves what a handler made of the account, or fails to, or goes   *)
(* back to the file.                                                       *)
LEMMA RelayStep ==
  ASSUME LinkingInv, [Next]_vars
  PROVE  \/ Handled(srv', took') /\ file' \in {file, srv'}
         \/ srv' = file /\ file' = file /\ restarts' # restarts
<1>. USE DEF LinkingInv, Handled, SaveRegistrations
<1>1. CASE PublishLinkData
  <2>1. Len(links) \in LinkIds
    BY <1>1 DEF PublishLinkData, CallsAgree, TypeOK, LinkIds
  <2>2. QED
    BY <1>1, <2>1 DEF PublishLinkData
<1>2. ASSUME NEW n \in lateLinks, LatePublishLinkData(n)
      PROVE  Handled(srv', took') /\ file' \in {file, srv'}
  <2>1. n \in LinkIds
    BY DEF TypeOK
  <2>2. QED
    BY <1>2, <2>1 DEF LatePublishLinkData
<1>3. ASSUME NEW c \in Companion, Register(c)
      PROVE  Handled(srv', took') /\ file' \in {file, srv'}
  <2>1. got[c] \in LinkIds /\ meta[c] = got[c] /\ step[c] # "got"
    BY <1>3, GotIsLink DEF Register, CallsAgree
  <2>2. QED
    BY <1>3, <2>1 DEF Register
<1>4. ASSUME NEW r \in lateRegs, LateRegister(r[1], r[2])
      PROVE  Handled(srv', took') /\ file' \in {file, srv'}
  <2>1. r[1] \in Companion /\ r[2] \in LinkIds
    BY DEF TypeOK
  <2>2. MayRegister(srv, r[1], r[2]) =>
          meta[r[1]] = r[2] /\ (step[r[1]] = "got" => got[r[1]] = r[2])
    BY <2>1 DEF CallsAgree, MayRegister, Registered
  <2>3. QED
    BY <1>4, <2>1, <2>2 DEF LateRegister
<1>5. CASE RegisterOther
  BY <1>5 DEF RegisterOther
<1>6. CASE Restart
  BY <1>6 DEF Restart, Recovered, TypeOK
<1>7. CASE UNCHANGED relayVars
  BY <1>7 DEF relayVars
<1>8. CASE RetryLink \/ AbandonLink
  BY <1>8 DEF RetryLink, AbandonLink
<1>9. ASSUME NEW c \in Companion, PublishBundle(c) \/ Interrupt(c)
      PROVE  Handled(srv', took') /\ file' \in {file, srv'}
  BY <1>9 DEF PublishBundle, Interrupt
<1>10. ASSUME NEW c \in Companion,
              \/ LinkCompanion(c) \/ WriteLinkOffer(c) \/ GetLinkData(c)
              \/ SaveLinkData(c) \/ SaveAuthKey(c)
       PROVE  UNCHANGED relayVars
  BY <1>10 DEF LinkCompanion, WriteLinkOffer, GetLinkData, SaveLinkData,
               SaveAuthKey
<1>11. CASE ConfirmLink \/ LinkRefused \/ UNCHANGED vars
  BY <1>7, <1>11 DEF ConfirmLink, LinkRefused, vars
<1>12. QED
  BY <1>1, <1>2, <1>3, <1>4, <1>5, <1>6, <1>7, <1>8, <1>9, <1>10, <1>11
     DEF Next

(* Accepting an approval lists the registered companions and the pending   *)
(* one; registering turns a pending one into a registered one.             *)
LEMMA HandledAccount ==
  ASSUME LinkingInv, NEW s, NEW t, Handled(s, t)
  PROVE  /\ s.list \subseteq Registered(s) \union Pending(s)
         /\ Registered(s) \intersect Pending(s) = {}
         /\ \A c \in Registered(srv) : s.cert[c] = srv.cert[c]
<1>1. /\ srv \in Accounts
      /\ srv.list \subseteq Registered(srv) \union Pending(srv)
      /\ Registered(srv) \intersect Pending(srv) = {}
      /\ LinkIds \subseteq Nat \ {0}
  BY DEF LinkingInv, TypeOK, LinkIds, ListedIsKnown, FileIsBehind
<1>2. CASE s = srv
  BY <1>1, <1>2
<1>3. ASSUME NEW n \in LinkIds, MayLink(srv, n), s = Linked(srv, n)
      PROVE  /\ s.list \subseteq Registered(s) \union Pending(s)
             /\ Registered(s) \intersect Pending(s) = {}
             /\ \A c \in Registered(srv) : s.cert[c] = srv.cert[c]
  <2>1. links[n].device \in Companion /\ n # 0
    BY <1>1, LinkType DEF LinkingInv
  <2>2. /\ s.cert = srv.cert
        /\ s.list = Registered(srv) \union {links[n].device}
        /\ s.pending = [srv.pending EXCEPT ![links[n].device] = n]
        /\ srv.cert[links[n].device] = 0
    BY <1>1, <1>3 DEF Linked, MayLink, Accounts
  <2>3. Registered(s) = Registered(srv)
        /\ Pending(s) = Pending(srv) \union {links[n].device}
    BY <1>1, <2>1, <2>2 DEF Registered, Pending, Accounts
  <2>4. links[n].device \notin Registered(srv)
    BY <2>2 DEF Registered
  <2>5. QED
    BY <1>1, <2>2, <2>3, <2>4
<1>4. ASSUME NEW c \in Companion, NEW n \in LinkIds, MayRegister(srv, c, n),
             s = Joined(srv, c, n)
      PROVE  /\ s.list \subseteq Registered(s) \union Pending(s)
             /\ Registered(s) \intersect Pending(s) = {}
             /\ \A d \in Registered(srv) : s.cert[d] = srv.cert[d]
  <2>1. /\ s.cert = [srv.cert EXCEPT ![c] = n]
        /\ s.list = srv.list
        /\ s.pending = [srv.pending EXCEPT ![c] = 0]
        /\ srv.cert[c] = 0
    BY <1>1, <1>4 DEF Joined, MayRegister, Accounts
  <2>2. Registered(s) = Registered(srv) \union {c}
        /\ Pending(s) = Pending(srv) \ {c}
    BY <1>1, <2>1 DEF Registered, Pending, Accounts
  <2>3. \A d \in Registered(srv) : s.cert[d] = srv.cert[d]
    BY <1>1, <2>1 DEF Registered, Accounts
  <2>4. QED
    BY <1>1, <2>1, <2>2, <2>3
<1>5. QED
  BY <1>2, <1>3, <1>4 DEF Handled

(* The file follows memory, and lists are kept, by every form of step.     *)
LEMMA NextAccounts ==
  LinkingInv /\ [Next]_vars => FileIsBehind' /\ ListedIsKnown'
<1>. SUFFICES ASSUME LinkingInv, [Next]_vars
              PROVE  FileIsBehind' /\ ListedIsKnown'
  OBVIOUS
<1>. USE DEF FileIsBehind, ListedIsKnown, Registered, Pending
<1>1. CASE srv' = file /\ file' = file
  BY <1>1 DEF LinkingInv
<1>2. CASE Handled(srv', took') /\ file' \in {file, srv'}
  <2>1. /\ srv'.list \subseteq Registered(srv') \union Pending(srv')
        /\ Registered(srv') \intersect Pending(srv') = {}
        /\ \A c \in Registered(srv) : srv'.cert[c] = srv.cert[c]
    BY <1>2, HandledAccount
  <2>2. CASE file' = srv'
    BY <2>1, <2>2
  <2>3. CASE file' = file
    <3>1. \A c \in Registered(file) : c \in Registered(srv)
                                     /\ srv.cert[c] = file.cert[c]
      BY DEF LinkingInv
    <3>2. \A c \in Registered(file) : srv'.cert[c] = file.cert[c]
      BY <2>1, <3>1
    <3>3. QED
      BY <2>1, <2>3, <3>2 DEF LinkingInv
  <2>4. QED
    BY <1>2, <2>2, <2>3
<1>3. QED
  BY <1>1, <1>2, RelayStep

(* A registration that is in memory and on disk stays there.               *)
LEMMA DurableStays ==
  ASSUME LinkingInv, [Next]_vars
  PROVE  Registered(srv) \intersect Registered(file)
           \subseteq Registered(srv') \intersect Registered(file')
<1>1. CASE srv' = file /\ file' = file
  BY <1>1
<1>2. CASE Handled(srv', took') /\ file' \in {file, srv'}
  <2>1. Registered(srv) \subseteq Registered(srv')
    BY <1>2, HandledAccount DEF Registered
  <2>2. QED
    BY <1>2, <2>1
<1>3. QED
  BY <1>1, <1>2, RelayStep

-----------------------------------------------------------------------------
(* The calls.                                                              *)

(* What a companion was answered was saved by the relay first.             *)
LEMMA NextDurable == LinkingInv /\ [Next]_vars => AnsweredIsDurable'
<1>. SUFFICES ASSUME LinkingInv, [Next]_vars, NEW c \in Companion,
                     (c \in credential \/ step[c] \in {"answered", "publish"})'
              PROVE  c \in Registered(srv') \intersect Registered(file')
  BY DEF AnsweredIsDurable, Registered
<1>1. CASE c \in credential \/ step[c] \in {"answered", "publish"}
  BY <1>1, DurableStays DEF LinkingInv, AnsweredIsDurable
<1>2. CASE ~(c \in credential \/ step[c] \in {"answered", "publish"})
  <2>1. \E d \in Companion : Register(d)
    <3>. USE <1>2 DEF LinkingInv, TypeOK
    <3>1. CASE UNCHANGED <<step, credential>>
      BY <3>1
    <3>2. ASSUME NEW d \in Companion,
                 \/ GetLinkData(d) \/ SaveLinkData(d) \/ SaveAuthKey(d)
                 \/ PublishBundle(d) \/ Interrupt(d)
          PROVE  FALSE
      BY <3>2 DEF GetLinkData, SaveLinkData, SaveAuthKey, PublishBundle,
                  Interrupt
    <3>3. ASSUME NEW d \in Companion, LinkCompanion(d) \/ WriteLinkOffer(d)
          PROVE  UNCHANGED <<step, credential>>
      BY <3>3 DEF LinkCompanion, WriteLinkOffer, companionVars
    <3>4. CASE \/ PublishLinkData \/ RegisterOther \/ Restart \/ RetryLink
               \/ ConfirmLink \/ LinkRefused \/ AbandonLink
               \/ UNCHANGED vars
      BY <3>1, <3>4 DEF PublishLinkData, RegisterOther, Restart, RetryLink,
         ConfirmLink, LinkRefused, AbandonLink, vars, companionVars
    <3>5. ASSUME NEW n, LatePublishLinkData(n)
          PROVE  UNCHANGED <<step, credential>>
      BY <3>5 DEF LatePublishLinkData, companionVars
    <3>6. ASSUME NEW d, NEW n, LateRegister(d, n)
          PROVE  UNCHANGED <<step, credential>>
      BY <3>6 DEF LateRegister, companionVars
    <3>7. QED
      BY <3>1, <3>2, <3>3, <3>4, <3>5, <3>6 DEF Next
  <2>2. PICK d \in Companion : Register(d)
    BY <2>1
  <2>3. /\ c = d
        /\ srv' = Joined(srv, c, got[c])
        /\ file' = srv'
    BY <1>2, <2>2 DEF Register, SaveRegistrations, LinkingInv, TypeOK
  <2>4. got[c] \in LinkIds /\ got[c] # 0
    BY <2>2, <2>3, GotIsLink DEF Register, LinkingInv, CallsAgree
  <2>5. c \in Registered(srv')
    BY <2>3, <2>4 DEF Registered, Joined, LinkingInv, TypeOK, Accounts
  <2>6. QED
    BY <2>3, <2>5
<1>3. QED
  BY <1>1, <1>2

(* Certificates stay those that the companions saved.                      *)
LEMMA NextCertificates == LinkingInv /\ [Next]_vars => CertificateIsHeld'
<1>. SUFFICES ASSUME LinkingInv, [Next]_vars PROVE CertificateIsHeld'
  OBVIOUS
<1>. USE DEF CertificateIsHeld
<1>1. ASSUME NEW c \in Companion, SaveLinkData(c) PROVE CertificateIsHeld'
  <2>1. srv' = srv /\ file' = file /\ meta' = [meta EXCEPT ![c] = got[c]]
    BY <1>1 DEF SaveLinkData, SaveMetadata, relayVars
  <2>2. /\ c \in Registered(srv) => srv.cert[c] = got[c]
        /\ c \in Registered(file) => file.cert[c] = got[c]
    BY <1>1 DEF SaveLinkData, LinkingInv, CallsAgree, FileIsBehind, Registered
  <2>3. QED
    BY <2>1, <2>2 DEF LinkingInv, TypeOK, Registered
<1>2. CASE meta' = meta
  <2>1. CASE srv' = file /\ file' = file
    BY <1>2, <2>1 DEF LinkingInv, Registered
  <2>2. CASE Handled(srv', took') /\ file' \in {file, srv'}
    <3>1. \A c \in Registered(srv') : meta[c] = srv'.cert[c]
      <4>1. CASE srv' = srv
        BY <4>1 DEF LinkingInv
      <4>2. ASSUME NEW n \in LinkIds, srv' = Linked(srv, n)
            PROVE  srv'.cert = srv.cert
        BY <4>2 DEF Linked, LinkingInv, TypeOK, Accounts
      <4>3. ASSUME NEW d \in Companion, NEW n \in LinkIds,
                   srv' = Joined(srv, d, n), meta[d] = n
            PROVE  srv'.cert = [srv.cert EXCEPT ![d] = n] /\ meta[d] = n
        BY <4>3 DEF Joined, LinkingInv, TypeOK, Accounts
      <4>4. CASE srv'.cert = srv.cert
        BY <4>4 DEF LinkingInv, Registered
      <4>5. ASSUME NEW d \in Companion, NEW n \in LinkIds,
                   srv'.cert = [srv.cert EXCEPT ![d] = n], meta[d] = n
            PROVE  \A c \in Registered(srv') : meta[c] = srv'.cert[c]
        BY <4>5 DEF LinkingInv, Registered, TypeOK, Accounts
      <4>6. QED
        BY <2>2, <4>1, <4>2, <4>3, <4>4, <4>5 DEF Handled
    <3>2. \A c \in Registered(file) : meta[c] = file.cert[c]
      BY DEF LinkingInv
    <3>3. QED
      BY <1>2, <2>2, <3>1, <3>2 DEF Registered
  <2>3. QED
    BY <2>1, <2>2, RelayStep
<1>3. (\E c \in Companion : SaveLinkData(c)) \/ meta' = meta
  BY DEF Next, vars, relayVars, primaryVars, companionVars, boundVars,
     PublishLinkData, LatePublishLinkData, Register, LateRegister,
     RegisterOther, Restart, LinkCompanion, RetryLink, ConfirmLink,
     LinkRefused, AbandonLink, WriteLinkOffer, GetLinkData, SaveAuthKey,
     PublishBundle, Interrupt
<1>4. QED
  BY <1>1, <1>2, <1>3

(* A late registration that can do no harm stays so when the relay         *)
(* handles another request.                                                *)
HarmlessAt(s, c, n) == c \in Registered(s) \/ s.pending[c] \notin {0, n}

LEMMA HarmlessStays ==
  ASSUME LinkingInv, NEW s, NEW t, Handled(s, t), NEW c \in Companion,
         NEW n, HarmlessAt(srv, c, n)
  PROVE  HarmlessAt(s, c, n)
<1>1. \A d \in Registered(srv) : d \in Registered(s)
  BY HandledAccount DEF Registered
<1>2. CASE c \in Registered(srv)
  BY <1>1, <1>2 DEF HarmlessAt
<1>3. CASE srv.pending[c] \notin {0, n}
  <2>1. ASSUME NEW k \in LinkIds, MayLink(srv, k), s = Linked(srv, k)
        PROVE  s.pending[c] = srv.pending[c]
    BY <1>3, <2>1, LinkType
       DEF MayLink, Linked, LinkingInv, TypeOK, Accounts
  <2>2. ASSUME NEW d \in Companion, NEW k \in LinkIds, s = Joined(srv, d, k)
        PROVE  s.pending[c] = srv.pending[c] \/ c \in Registered(s)
    <3>1. k # 0 /\ srv \in Accounts
      BY DEF LinkIds, LinkingInv, TypeOK
    <3>2. QED
      BY <2>2, <3>1 DEF Joined, Registered, Accounts
  <2>3. QED
    BY <1>3, <2>1, <2>2 DEF Handled, HarmlessAt
<1>4. QED
  BY <1>2, <1>3 DEF HarmlessAt

(* The parts of CallsAgree about a companion's call and about the late     *)
(* registrations hold after a step of the relay that leaves what they were *)
(* sent with alone.                                                        *)
LEMMA RelayKeepsCalls ==
  ASSUME LinkingInv, [Next]_vars, UNCHANGED <<got, meta>>,
         \A c \in Companion : step'[c] \in {step[c], "idle", "answered"},
         lateRegs' \subseteq lateRegs,
         Handled(srv', took') \/ (srv' = file /\ lateRegs' = {}),
         linkStep' # "idle" => linkStep # "idle", links' = links
  PROVE  CallsAgree'
<1>1. ASSUME NEW c \in Companion
      PROVE  /\ step'[c] \in {"got", "posted"} => got'[c] # 0
             /\ step'[c] = "posted" => meta'[c] = got'[c]
  BY DEF LinkingInv, CallsAgree
<1>2. ASSUME NEW c \in Companion, step'[c] = "got", c \in Registered(srv')
      PROVE  srv'.cert[c] = got[c]
  <2>1. step[c] = "got"
    BY <1>2
  <2>2. c \in Registered(srv) => srv.cert[c] = got[c]
    BY <2>1 DEF LinkingInv, CallsAgree
  <2>3. CASE c \in Registered(srv) /\ Handled(srv', took')
    BY <2>2, <2>3, HandledAccount
  <2>4. CASE c \notin Registered(srv) /\ Handled(srv', took')
    <3>1. srv.cert[c] = 0 /\ srv'.cert[c] # 0 /\ srv \in Accounts
      BY <1>2, <2>4 DEF Registered, LinkingInv, TypeOK
    <3>2. PICK d \in Companion, n \in LinkIds :
            /\ srv' = Joined(srv, d, n)
            /\ step[d] = "got" => got[d] = n
      BY <2>4, <3>1 DEF Handled, Linked, Accounts
    <3>3. QED
      BY <2>1, <3>1, <3>2 DEF Joined, Accounts
  <2>5. CASE srv' = file
    BY <1>2, <2>2, <2>5 DEF LinkingInv, FileIsBehind, Registered
  <2>6. QED
    BY <2>3, <2>4, <2>5
<1>3. ASSUME NEW r \in lateRegs'
      PROVE  \/ HarmlessAt(srv', r[1], r[2])
             \/ /\ meta'[r[1]] = r[2]
                /\ step'[r[1]] = "got" => got'[r[1]] = r[2]
  <2>1. r \in lateRegs /\ Handled(srv', took') /\ r[1] \in Companion
    BY <1>3 DEF LinkingInv, TypeOK
  <2>2. \/ HarmlessAt(srv, r[1], r[2])
        \/ /\ meta[r[1]] = r[2]
           /\ step[r[1]] = "got" => got[r[1]] = r[2]
    BY <2>1 DEF LinkingInv, CallsAgree, HarmlessAt
  <2>3. QED
    BY <2>1, <2>2, HarmlessStays
<1>4. linkStep' # "idle" => links' # <<>>
  BY DEF LinkingInv, CallsAgree
<1>5. QED
  BY <1>1, <1>2, <1>3, <1>4 DEF CallsAgree, HarmlessAt, Registered

(* Calls go on with what they were started with.                           *)
LEMMA NextCalls == LinkingInv /\ [Next]_vars => CallsAgree'
<1>. SUFFICES ASSUME LinkingInv, [Next]_vars PROVE CallsAgree'
  OBVIOUS
<1>. USE DEF relayVars, primaryVars, companionVars, boundVars
<1>. \A t : Handled(srv, t)
  BY DEF Handled
<1>1. CASE PublishLinkData
  <2>1. Handled(srv', took')
    BY <1>1, RelayStep DEF PublishLinkData
  <2>2. QED
    BY <1>1, <2>1, RelayKeepsCalls DEF PublishLinkData
<1>2. ASSUME NEW n \in lateLinks, LatePublishLinkData(n) PROVE CallsAgree'
  <2>1. Handled(srv', took')
    BY <1>2, RelayStep DEF LatePublishLinkData
  <2>2. QED
    BY <1>2, <2>1, RelayKeepsCalls DEF LatePublishLinkData
<1>3. ASSUME NEW c \in Companion, Register(c) PROVE CallsAgree'
  <2>1. Handled(srv', took')
    BY <1>3, RelayStep DEF Register
  <2>2. \A d \in Companion : step'[d] \in {step[d], "idle", "answered"}
    BY <1>3 DEF Register, LinkingInv, TypeOK
  <2>3. QED
    BY <1>3, <2>1, <2>2, RelayKeepsCalls DEF Register
<1>4. ASSUME NEW r \in lateRegs, LateRegister(r[1], r[2]) PROVE CallsAgree'
  <2>1. Handled(srv', took')
    BY <1>4, RelayStep DEF LateRegister
  <2>2. QED
    BY <1>4, <2>1, RelayKeepsCalls DEF LateRegister
<1>5. CASE RegisterOther
  BY <1>5, RelayKeepsCalls DEF RegisterOther
<1>6. CASE Restart
  BY <1>6, RelayKeepsCalls DEF Restart, Recovered
<1>7. ASSUME NEW c \in Companion, LinkCompanion(c) PROVE CallsAgree'
  <2>1. links' # <<>>
    BY <1>7 DEF LinkCompanion, LinkingInv, TypeOK
  <2>2. QED
    BY <1>7, <2>1 DEF LinkCompanion, LinkingInv, CallsAgree, Registered
<1>8. CASE RetryLink \/ ConfirmLink \/ LinkRefused \/ AbandonLink
  BY <1>8 DEF RetryLink, ConfirmLink, LinkRefused, AbandonLink, LinkingInv,
              CallsAgree, Registered
<1>9. ASSUME NEW c \in Companion, WriteLinkOffer(c) PROVE CallsAgree'
  BY <1>9 DEF WriteLinkOffer, LinkingInv, CallsAgree, Registered
<1>10. ASSUME NEW c \in Companion, GetLinkData(c) PROVE CallsAgree'
  <2>1. c \notin Registered(srv)
    BY <1>10 DEF GetLinkData, LinkingInv, FileIsBehind, Pending
  <2>2. QED
    BY <1>10, <2>1
       DEF GetLinkData, LinkingInv, CallsAgree, Registered, TypeOK
<1>11. ASSUME NEW c \in Companion, SaveLinkData(c) PROVE CallsAgree'
  BY ZenonT(40), <1>11
     DEF SaveLinkData, SaveMetadata, LinkingInv, CallsAgree, Registered, TypeOK
<1>12. ASSUME NEW c \in Companion, SaveAuthKey(c) \/ PublishBundle(c)
       PROVE  CallsAgree'
  BY SMTT(30), <1>12
     DEF SaveAuthKey, PublishBundle, LinkingInv, CallsAgree, Registered, TypeOK
<1>13. ASSUME NEW c \in Companion, Interrupt(c) PROVE CallsAgree'
  BY <1>13 DEF Interrupt, LinkingInv, CallsAgree, Registered, TypeOK
<1>14. CASE UNCHANGED vars
  BY <1>14 DEF vars, LinkingInv, CallsAgree, Registered
<1>15. QED
  BY <1>1, <1>2, <1>3, <1>4, <1>5, <1>6, <1>7, <1>8, <1>9, <1>10, <1>11,
     <1>12, <1>13, <1>14 DEF Next

-----------------------------------------------------------------------------
(* The lists.                                                              *)

(* A handler keeps every approval the account knows, and adds one it takes.*)
LEMMA HandledKeeps ==
  ASSUME LinkingInv, NEW s, NEW t, Handled(s, t), NEW c \in Companion
  PROVE  /\ {srv.cert[c], srv.pending[c]} \ {0} \subseteq {s.cert[c], s.pending[c]}
         /\ \A n \in {s.cert[c], s.pending[c]} \ {0} :
              \/ n \in {srv.cert[c], srv.pending[c]}
              \/ n \in t /\ links[n].device = c
<1>. USE DEF LinkingInv, TypeOK, Accounts
<1>1. CASE s = srv
  BY <1>1
<1>2. ASSUME NEW n \in LinkIds, MayLink(srv, n), s = Linked(srv, n), n \in t
      PROVE  /\ {srv.cert[c], srv.pending[c]} \ {0}
                  \subseteq {s.cert[c], s.pending[c]}
             /\ \A m \in {s.cert[c], s.pending[c]} \ {0} :
                  \/ m \in {srv.cert[c], srv.pending[c]}
                  \/ m \in t /\ links[m].device = c
  <2>1. links[n].device \in Companion
    BY LinkType
  <2>2. s.cert = srv.cert
        /\ s.pending = [srv.pending EXCEPT ![links[n].device] = n]
    BY <1>2 DEF Linked
  <2>3. srv.pending[links[n].device] \in {0, n}
    BY <1>2 DEF MayLink
  <2>4. CASE c = links[n].device
    BY <1>2, <2>2, <2>3, <2>4
  <2>5. CASE c # links[n].device
    BY <2>1, <2>2, <2>5
  <2>6. QED
    BY <2>4, <2>5
<1>3. ASSUME NEW d \in Companion, NEW n \in LinkIds, MayRegister(srv, d, n),
             s = Joined(srv, d, n)
      PROVE  {s.cert[c], s.pending[c]} = {srv.cert[c], srv.pending[c]}
  <2>1. /\ s.cert = [srv.cert EXCEPT ![d] = n]
        /\ s.pending = [srv.pending EXCEPT ![d] = 0]
    BY <1>3 DEF Joined
  <2>2. srv.cert[d] = 0 /\ srv.pending[d] = n
    BY <1>3 DEF MayRegister
  <2>3. QED
    BY <2>1, <2>2
<1>4. QED
  BY <1>1, <1>2, <1>3 DEF Handled

(* What an account knows, in terms of approvals.                           *)
LEMMA KnownBy ==
  ASSUME NEW s, NEW c \in Companion
  PROVE  c \in Known(s) <=> {s.cert[c], s.pending[c]} \ {0} # {}
BY DEF Known, Registered, Pending

(* An account a handler made follows the primary if the one before did: an *)
(* approval that adds a companion is the call's own or repeats the pending *)
(* one.                                                                    *)
LEMMA HandledFollows ==
  ASSUME AgreementInv, NEW s, NEW t, Handled(s, t)
  PROVE  Follows(s)
<1>. SUFFICES ASSUME Owned(s)
              PROVE  s.list = Known(s) /\ \A c, d \in Pending(s) : c = d
  BY DEF Follows
<1>. USE DEF AgreementInv, LinkingInv
<1>0. /\ srv \in Accounts
      /\ Registered(srv) \intersect Pending(srv) = {}
      /\ Follows(srv)
      /\ LinkIds \subseteq Nat \ {0}
      /\ linkStep # "idle" => Len(links) # 0
  BY DEF TypeOK, LinkIds, FileIsBehind, ListFollows, CallsAgree
<1>1. CASE s = srv
  BY <1>0, <1>1 DEF Follows
<1>2. ASSUME NEW d \in Companion, NEW n \in LinkIds, MayRegister(srv, d, n),
             s = Joined(srv, d, n)
      PROVE  s.list = Known(s) /\ \A c, e \in Pending(s) : c = e
  <2>1. /\ s.cert = [srv.cert EXCEPT ![d] = n]
        /\ s.pending = [srv.pending EXCEPT ![d] = 0]
        /\ s.list = srv.list
        /\ srv.cert[d] = 0 /\ srv.pending[d] = n
    BY <1>0, <1>2 DEF Joined, MayRegister, Accounts
  <2>2. \A c \in Companion : {s.cert[c], s.pending[c]}
                               = {srv.cert[c], srv.pending[c]}
    BY <1>0, <2>1 DEF Accounts
  <2>3. Known(s) = Known(srv)
    <3>1. Known(s) \subseteq Companion /\ Known(srv) \subseteq Companion
      BY DEF Known, Registered, Pending
    <3>2. ASSUME NEW c \in Companion PROVE c \in Known(s) <=> c \in Known(srv)
      <4>1. c \in Known(s) <=> {s.cert[c], s.pending[c]} \ {0} # {}
        BY KnownBy
      <4>2. c \in Known(srv) <=> {srv.cert[c], srv.pending[c]} \ {0} # {}
        BY KnownBy
      <4>3. QED
        BY <2>2, <4>1, <4>2
    <3>3. QED
      BY <3>1, <3>2
  <2>4. Owned(srv)
    BY <2>2, <2>3 DEF Owned, InProgress, Known, Registered, Pending
  <2>5. Pending(s) \subseteq Pending(srv)
    BY <1>0, <2>1 DEF Pending, Accounts
  <2>6. QED
    BY <1>0, <2>1, <2>3, <2>4, <2>5 DEF Follows
<1>3. ASSUME NEW n \in LinkIds, MayLink(srv, n), s = Linked(srv, n)
      PROVE  s.list = Known(s) /\ \A c, e \in Pending(s) : c = e
  <2>. PICK d : d = links[n].device
    OBVIOUS
  <2>1. d \in Companion /\ n # 0
    BY <1>0, LinkType
  <2>2. /\ s.cert = srv.cert
        /\ s.pending = [srv.pending EXCEPT ![d] = n]
        /\ s.list = links[n].list
        /\ links[n].list = Registered(srv) \union {d}
        /\ srv.cert[d] = 0 /\ srv.pending[d] \in {0, n}
    BY <1>0, <1>3 DEF Linked, MayLink, Accounts
  <2>3. /\ Registered(s) = Registered(srv)
        /\ Pending(s) = Pending(srv) \union {d}
    BY <1>0, <2>1, <2>2 DEF Registered, Pending, Accounts
  <2>4. \A c \in Known(srv) : {s.cert[c], s.pending[c]}
                                = {srv.cert[c], srv.pending[c]}
    BY <1>0, <2>1, <2>2 DEF Known, Registered, Pending, Accounts
  <2>5. Owned(srv)
    BY <2>3, <2>4 DEF Owned, Known, InProgress
  <2>6. \A c, e \in Pending(srv) : c = e
    BY <1>0, <2>5 DEF Follows
  <2>7. d \in saved \/ InProgress(s, d)
    BY <2>3 DEF Owned, Known
  <2>8. CASE d \in saved
    <3>1. d \in Pending(srv)
      BY <2>2, <2>8 DEF SavedIsKnown, Known, Registered
    <3>2. QED
      BY <2>2, <2>3, <2>6, <3>1 DEF Known
  <2>9. CASE InProgress(s, d)
    <3>1. linkStep # "idle" /\ n = Len(links)
      BY <1>0, <2>1, <2>2, <2>9 DEF InProgress, Accounts
    <3>2. Registered(srv) \union {d} = saved \union {d}
      BY <2>2, <3>1 DEF SavedIsKnown
    <3>3. ASSUME NEW e \in Pending(srv)
          PROVE  e = d
      <4>1. e \in Companion /\ e \notin Registered(srv) /\ e \in Known(srv)
        BY <1>0 DEF Pending, Known
      <4>2. CASE e \in saved
        BY <3>2, <4>1, <4>2
      <4>3. CASE InProgress(srv, e)
        BY <1>0, <3>1, <4>1, <4>3 DEF InProgress, ApprovalsAreTaken
      <4>4. QED
        BY <2>5, <4>1, <4>2, <4>3 DEF Owned
    <3>4. QED
      BY <2>2, <2>3, <3>3 DEF Known
  <2>10. QED
    BY <2>7, <2>8, <2>9
<1>4. QED
  BY <1>1, <1>2, <1>3 DEF Handled

(* Steps that leave the primary's call at one approval keep what it is     *)
(* about; the other steps are the primary's own and leave the relay alone. *)
PrimaryRests ==
  /\ UNCHANGED <<links, saved>>
  /\ linkStep' = "idle" <=> linkStep = "idle"

PrimaryMoves ==
  \/ \E c \in Companion : LinkCompanion(c)
  \/ ConfirmLink
  \/ LinkRefused
  \/ AbandonLink

LEMMA PrimaryStep ==
  ASSUME [Next]_vars
  PROVE  PrimaryRests \/ (PrimaryMoves /\ UNCHANGED <<srv, file, took>>)
<1>. USE DEF PrimaryRests, relayVars, primaryVars, companionVars
<1>1. CASE PrimaryMoves
  BY <1>1 DEF PrimaryMoves, LinkCompanion, ConfirmLink, LinkRefused, AbandonLink
<1>2. CASE RegisterOther \/ Restart \/ RetryLink \/ UNCHANGED vars
  BY <1>2 DEF RegisterOther, Restart, RetryLink, vars
<1>0. CASE PublishLinkData
  <2>1. linkStep = "posted" /\ linkStep' \in {"refused", "accepted", "failed"}
        /\ links' = links /\ saved' = saved
    BY <1>0 DEF PublishLinkData
  <2>2. QED
    BY <2>1
<1>3. ASSUME NEW n, LatePublishLinkData(n)
      PROVE  PrimaryRests
  BY <1>3 DEF LatePublishLinkData
<1>4. ASSUME NEW c, NEW n, LateRegister(c, n)
      PROVE  PrimaryRests
  BY <1>4 DEF LateRegister
<1>5. ASSUME NEW c \in Companion,
             \/ Register(c) \/ WriteLinkOffer(c) \/ GetLinkData(c)
             \/ SaveLinkData(c) \/ SaveAuthKey(c) \/ PublishBundle(c)
             \/ Interrupt(c)
      PROVE  PrimaryRests
  BY <1>5 DEF Register, WriteLinkOffer, GetLinkData, SaveLinkData,
              SaveAuthKey, PublishBundle, Interrupt
<1>6. CASE Next
  BY <1>0, <1>1, <1>2, <1>3, <1>4, <1>5, <1>6 DEF Next, PrimaryMoves
<1>7. QED
  BY <1>2, <1>6

(* Approvals taken and signed stay so.                                     *)
LEMMA TookGrows ==
  ASSUME [Next]_vars
  PROVE  took \subseteq took'
BY DEF Next, vars, relayVars, PublishLinkData, LatePublishLinkData, Register,
   LateRegister, RegisterOther, Restart, LinkCompanion, RetryLink,
   ConfirmLink, LinkRefused, AbandonLink, WriteLinkOffer, GetLinkData,
   SaveLinkData, SaveAuthKey, PublishBundle, Interrupt

LEMMA LinksStay ==
  ASSUME LinkingInv, [Next]_vars, NEW n \in LinkIds
  PROVE  links'[n] = links[n]
<1>1. CASE \E c \in Companion : LinkCompanion(c)
  BY <1>1 DEF LinkCompanion, LinkingInv, TypeOK, LinkIds
<1>2. CASE links' = links
  BY <1>2
<1>3. QED
  BY <1>1, <1>2, PrimaryStep
     DEF PrimaryRests, PrimaryMoves, ConfirmLink, LinkRefused, AbandonLink

(* What the account knows is what was taken.                               *)
LEMMA NextApprovals == AgreementInv /\ [Next]_vars => ApprovalsAreTaken'
<1>. SUFFICES ASSUME AgreementInv, [Next]_vars
              PROVE  ApprovalsAreTaken'
  OBVIOUS
<1>. USE DEF AgreementInv
<1>1. ASSUME NEW s \in {srv, file}, NEW c \in Companion,
             NEW n \in {s.cert[c], s.pending[c]} \ {0}
      PROVE  n \in took' /\ links'[n].device = c
  <2>1. n \in took /\ links[n].device = c /\ n \in LinkIds
    BY DEF ApprovalsAreTaken, LinkingInv, TypeOK
  <2>2. QED
    BY <2>1, TookGrows, LinksStay
<1>. PICK k : k = took'
  OBVIOUS
<1>2. ASSUME NEW s, Handled(s, k), NEW c \in Companion,
             NEW n \in {s.cert[c], s.pending[c]} \ {0}
      PROVE  n \in took' /\ links'[n].device = c
  <2>1. CASE n \in {srv.cert[c], srv.pending[c]}
    BY <1>1, <2>1
  <2>2. CASE n \in k /\ links[n].device = c
    <3>1. links' = links \/ took' = took
      BY PrimaryStep DEF PrimaryRests
    <3>2. took \subseteq LinkIds
      BY DEF LinkingInv, TypeOK
    <3>3. QED
      BY <2>2, <3>1, <3>2, LinksStay
  <2>3. QED
    BY <1>2, <2>1, <2>2, HandledKeeps
<1>3. PICK s, t : s = srv' /\ t = file'
  OBVIOUS
<1>4. (Handled(s, k) /\ t \in {file, s}) \/ (s = file /\ t = file)
  BY <1>3, RelayStep
<1>5. \A a \in {s, t} : \A c \in Companion : \A n \in {a.cert[c], a.pending[c]} \ {0} :
        n \in took' /\ links'[n].device = c
  BY <1>1, <1>2, <1>4
<1>6. QED
  BY <1>3, <1>5 DEF ApprovalsAreTaken

(* The relay forgets nothing the primary saved.                            *)
LEMMA NextSaved == AgreementInv /\ [Next]_vars => SavedIsKnown'
<1>. SUFFICES ASSUME AgreementInv, [Next]_vars
              PROVE  SavedIsKnown'
  OBVIOUS
<1>. USE DEF AgreementInv
<1>0. /\ links \in Seq([device : Companion, offer : 1..MaxOffers,
                        list : SUBSET Companion])
      /\ saved \subseteq Companion
      /\ linkStep # "idle" => Len(links) \in LinkIds
  BY DEF LinkingInv, TypeOK, CallsAgree, LinkIds
<1>1. CASE PrimaryRests
  <2>. PICK d : d = links[Len(links)].device
    OBVIOUS
  <2>1. PICK s, t : s = srv' /\ t = file'
    OBVIOUS
  <2>. PICK k : k = took'
    OBVIOUS
  <2>2. (Handled(s, k) /\ t \in {file, s}) \/ (s = file /\ t = file)
    BY <2>1, RelayStep
  <2>3. ASSUME NEW a \in {s, t}
        PROVE  saved \subseteq Known(a)
    <3>1. ASSUME NEW c \in saved, Handled(a, k)
          PROVE  c \in Known(a)
      <4>1. c \in Companion /\ c \in Known(srv)
        BY <1>0 DEF SavedIsKnown
      <4>2. {srv.cert[c], srv.pending[c]} \ {0} # {}
        BY <4>1, KnownBy
      <4>3. {srv.cert[c], srv.pending[c]} \ {0} \subseteq {a.cert[c], a.pending[c]}
        BY <3>1, <4>1, HandledKeeps
      <4>4. QED
        BY <4>1, <4>2, <4>3, KnownBy
    <3>2. QED
      BY <2>2, <3>1 DEF SavedIsKnown
  <2>4. ASSUME linkStep' = "accepted", NEW a \in {s, t}
        PROVE  Len(links) \in {a.cert[d], a.pending[d]}
    <3>1. Len(links) # 0 /\ d \in Companion
      BY <1>0, <1>1, <2>4, LinkType DEF PrimaryRests, LinkIds, LinkingInv
    <3>2. CASE linkStep = "accepted"
      <4>1. \A b \in {srv, file} : Len(links) \in {b.cert[d], b.pending[d]}
        BY <3>2 DEF SavedIsKnown, InProgress
      <4>2. ASSUME Handled(a, k)
            PROVE  Len(links) \in {a.cert[d], a.pending[d]}
        BY <3>1, <4>1, <4>2, HandledKeeps
      <4>3. QED
        BY <2>2, <4>1, <4>2
    <3>3. CASE linkStep # "accepted"
      <4>1. PublishLinkData
        BY <1>1, <2>4, <3>3
           DEF PrimaryRests, Next, vars, relayVars, primaryVars,
               LatePublishLinkData, Register, LateRegister, RegisterOther,
               Restart, LinkCompanion, RetryLink, ConfirmLink, LinkRefused,
               AbandonLink, WriteLinkOffer, GetLinkData, SaveLinkData,
               SaveAuthKey, PublishBundle, Interrupt
      <4>2. s = Linked(srv, Len(links)) /\ t = s
        BY <2>1, <2>4, <4>1 DEF PublishLinkData, SaveRegistrations
      <4>3. s.pending = [srv.pending EXCEPT ![d] = Len(links)]
        BY <4>2 DEF Linked, LinkingInv, TypeOK, Accounts
      <4>4. s.pending[d] = Len(links)
        BY <3>1, <4>3 DEF LinkingInv, TypeOK, Accounts
      <4>5. QED
        BY <4>2, <4>4
    <3>4. QED
      BY <3>2, <3>3
  <2>5. QED
    BY <1>1, <2>1, <2>3, <2>4
       DEF PrimaryRests, SavedIsKnown, Known, Registered, Pending, InProgress
<1>2. CASE PrimaryMoves /\ UNCHANGED <<srv, file, took>>
  <2>1. ASSUME NEW c \in Companion, LinkCompanion(c)
        PROVE  SavedIsKnown'
    <3>1. links'[Len(links')] = [device |-> c, offer |-> offer[c],
                                 list |-> saved \union {c}]
      BY <1>0, <2>1 DEF LinkCompanion
    <3>2. linkStep' = "posted" /\ saved' = saved
      BY <2>1 DEF LinkCompanion
    <3>3. QED
      BY <1>2, <3>1, <3>2 DEF SavedIsKnown, Known, Registered, Pending
  <2>2. CASE ConfirmLink
    <3>. PICK d : d = links[Len(links)].device
      OBVIOUS
    <3>1. saved' = saved \union {d} /\ linkStep = "accepted"
          /\ linkStep' = "idle" /\ d \in Companion /\ Len(links) # 0
      BY <1>0, <2>2, LinkType
         DEF ConfirmLink, SaveLink, SavedIsKnown, LinkIds, LinkingInv
    <3>2. \A a \in {srv, file} : d \in Known(a)
      BY <3>1, KnownBy DEF SavedIsKnown, InProgress
    <3>3. QED
      BY <1>2, <3>1, <3>2 DEF SavedIsKnown, Known, Registered, Pending
  <2>3. CASE LinkRefused \/ AbandonLink
    BY <1>2, <2>3 DEF LinkRefused, AbandonLink, SavedIsKnown, Known,
                      Registered, Pending
  <2>4. QED
    BY <1>2, <2>1, <2>2, <2>3 DEF PrimaryMoves
<1>3. QED
  BY <1>1, <1>2, PrimaryStep

(* The lists stay together.                                                *)
LEMMA NextFollows == AgreementInv /\ [Next]_vars => ListFollows'
<1>. SUFFICES ASSUME AgreementInv, [Next]_vars
              PROVE  ListFollows'
  OBVIOUS
<1>. USE DEF AgreementInv
<1>. PICK s, t : s = srv' /\ t = file'
  OBVIOUS
<1>1. ASSUME NEW a \in {s, t}
      PROVE  Follows(a)'
  <2>1. CASE PrimaryRests
    <3>1. Follows(a)
      BY RelayStep, HandledFollows DEF ListFollows
    <3>2. QED
      BY <2>1, <3>1 DEF PrimaryRests, Follows, Owned, InProgress, Known,
                        Registered, Pending
  <2>2. CASE PrimaryMoves /\ UNCHANGED <<srv, file, took>>
    <3>1. a \in {srv, file}
      BY <2>2
    <3>2. Follows(a)
      BY <3>1 DEF ListFollows
    <3>3. ASSUME NEW c \in Known(a), (c \in saved \/ InProgress(a, c))'
          PROVE  c \in saved \/ InProgress(a, c)
      <4>1. c \in Companion
        BY DEF Known, Registered, Pending
      <4>2. CASE LinkRefused \/ AbandonLink
        BY <3>3, <4>2 DEF LinkRefused, AbandonLink, InProgress
      <4>3. CASE ConfirmLink
        <5>1. linkStep' = "idle" /\ linkStep = "accepted"
              /\ saved' = saved \union {links[Len(links)].device}
          BY <4>3 DEF ConfirmLink, SaveLink, SavedIsKnown
        <5>2. c \in saved \/ c = links[Len(links)].device
          BY <3>3, <5>1 DEF InProgress
        <5>3. QED
          BY <3>1, <5>1, <5>2 DEF SavedIsKnown
      <4>4. ASSUME NEW e \in Companion, LinkCompanion(e)
            PROVE  c \in saved
        <5>1. links \in Seq([device : Companion, offer : 1..MaxOffers,
                             list : SUBSET Companion])
              /\ a \in Accounts
          BY <3>1 DEF LinkingInv, TypeOK
        <5>2. Len(links') = Len(links) + 1 /\ saved' = saved
          BY <4>4, <5>1 DEF LinkCompanion
        <5>3. Len(links) + 1 \notin {a.cert[c], a.pending[c]}
          BY <4>1, <5>1 DEF Accounts, LinkIds
        <5>4. QED
          BY <3>3, <5>2, <5>3 DEF InProgress
      <4>5. QED
        BY <2>2, <4>2, <4>3, <4>4 DEF PrimaryMoves
    <3>4. QED
      BY <3>2, <3>3 DEF Follows, Owned, Known, Registered, Pending
  <2>3. QED
    BY <2>1, <2>2, PrimaryStep
<1>2. QED
  BY <1>1 DEF ListFollows, Follows, Owned, InProgress, Known, Registered,
              Pending

-----------------------------------------------------------------------------
(* The theorems.                                                           *)

(* Linking keeps the account, the calls and the companions' saved links    *)
(* consistent over lost answers, late requests, failed saves and restarts  *)
(* (server.py:286-552, client.py:116-156, 261-350).                        *)
THEOREM LinkingCorrect == Spec => []LinkingInv
<1>1. LinkingInv /\ [Next]_vars => LinkingInv'
  BY NextTypes, NextAccounts, NextDurable, NextCertificates, NextCalls
     DEF LinkingInv
<1>2. QED
  BY <1>1, InitLinking, PTL DEF Spec

(* A companion that was given a credential stays registered, in memory and *)
(* on disk (server.py:408-433, client.py:150-152).                         *)
THEOREM CredentialsAreKept == Spec => []CredentialIsRegistered
<1>1. LinkingInv => CredentialIsRegistered
  BY DEF LinkingInv, AnsweredIsDurable, CredentialIsRegistered, TypeOK
<1>2. QED
  BY <1>1, LinkingCorrect, PTL

(* The certificate registered for a companion is the one it saved          *)
(* (client.py:315-350, server.py:386-424).                                 *)
THEOREM CertificatesAgree == Spec => []CertificateIsHeld
<1>1. LinkingInv => CertificateIsHeld
  BY DEF LinkingInv
<1>2. QED
  BY <1>1, LinkingCorrect, PTL

(* The signed list names only companions that are registered or about to   *)
(* be (server.py:508-535).                                                 *)
THEOREM ListsNameKnown == Spec => []ListedIsKnown
<1>1. LinkingInv => ListedIsKnown
  BY DEF LinkingInv
<1>2. QED
  BY <1>1, LinkingCorrect, PTL

(* Every variable of linking has its type; in particular every approval in *)
(* a request, an account or a companion's state is one the primary signed  *)
(* (client.py:261-350, server.py:386-552).                                 *)
THEOREM TypesHold == Spec => []TypeOK
<1>1. LinkingInv => TypeOK
  BY DEF LinkingInv
<1>2. QED
  BY <1>1, LinkingCorrect, PTL

(* The lists are kept together by what the relay took, what the primary    *)
(* saved, and the call in progress (client.py:261-295, server.py:508-535). *)
THEOREM AgreementCorrect == Spec => []AgreementInv
<1>1. Init => AgreementInv
  BY InitLinking
     DEF AgreementInv, ApprovalsAreTaken, SavedIsKnown, ListFollows, Follows,
         Owned, Known, Init, NoAccount, Registered, Pending
<1>2. AgreementInv /\ [Next]_vars => AgreementInv'
  <2>1. AgreementInv /\ [Next]_vars => LinkingInv'
    BY NextTypes, NextAccounts, NextDurable, NextCertificates, NextCalls
       DEF AgreementInv, LinkingInv
  <2>2. QED
    BY <2>1, NextApprovals, NextSaved, NextFollows DEF AgreementInv
<1>3. QED
  BY <1>1, <1>2, PTL DEF Spec

(* As long as no approval went unconfirmed, the primary's keys and the     *)
(* relay's list agree (client.py:271-295, server.py:508-535).              *)
THEOREM ListsStayTogether == Spec => []ListsAgree
<1>1. AgreementInv => ListsAgree
  <2>. SUFFICES ASSUME AgreementInv, Confirmed
                PROVE  /\ linkStep = "idle" => saved = srv.list
                       /\ srv.list = Registered(srv) \union Pending(srv)
                       /\ Cardinality(Pending(srv)) <= 1
    BY DEF ListsAgree
  <2>. USE DEF AgreementInv
  <2>1. ASSUME NEW c \in Known(srv)
        PROVE  c \in saved \/ InProgress(srv, c)
    <3>1. c \in Companion
      BY DEF Known, Registered, Pending
    <3>2. PICK n \in {srv.cert[c], srv.pending[c]} \ {0} : TRUE
      BY <3>1, KnownBy
    <3>3. n \in took /\ links[n].device = c
      BY <3>1 DEF ApprovalsAreTaken
    <3>4. QED
      BY <3>3 DEF Confirmed, InProgress
  <2>2. srv.list = Known(srv) /\ \A c, d \in Pending(srv) : c = d
    BY <2>1 DEF ListFollows, Follows, Owned
  <2>3. linkStep = "idle" => saved = srv.list
    BY <2>1, <2>2 DEF InProgress, SavedIsKnown
  <2>4. Pending(srv) = {} \/ \E c \in Companion : Pending(srv) = {c}
    BY <2>2 DEF Pending
  <2>5. Cardinality(Pending(srv)) <= 1
    BY <2>4, FS_EmptySet, FS_Singleton
  <2>6. QED
    BY <2>2, <2>3, <2>5 DEF Known
<1>2. QED
  BY <1>1, AgreementCorrect, PTL
=============================================================================
