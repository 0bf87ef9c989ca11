--------------------------- MODULE StartUp_proofs ---------------------------
(***************************************************************************)
(* StartUpInv is an invariant of StartUp, for any number of processes and  *)
(* any bounds.  The parts about the fingerprint file speak of histories in *)
(* which no two processes make one at once, the others of all.             *)
(***************************************************************************)
EXTENDS StartUp, TLAPS

(* The initial states satisfy every part.                                  *)
LEMMA InitStartUp == Init => StartUpInv
<1>. SUFFICES ASSUME Init PROVE StartUpInv
  OBVIOUS
<1>. USE StartUpAssumption DEF StartUpAssumption, Init, NoAccount
<1>1. TypeOK
  <2>1. srv \in Accounts /\ srvFile \in Accounts
    BY DEF Accounts, ProcOrNone
  <2>2. crashes \in 0..MaxCrashes /\ failures \in 0..MaxFailures
        /\ restarts \in 0..MaxRestarts
    OBVIOUS
  <2>3. QED
    BY <2>1, <2>2 DEF TypeOK, ProcOrNone
<1>2. StateIsMadeOnce /\ KeysAreShared /\ AnsweredIsAccount /\ MakerIsAlone
      /\ StartsAgree /\ CredentialIsAccounts
  BY DEF StateIsMadeOnce, KeysAreShared, AnsweredIsAccount, MakerIsAlone,
         StartsAgree, CredentialIsAccounts, Making, Named, Keyed
<1>3. KnownAccounts = {}
  BY DEF KnownAccounts
<1>4. QED
  BY <1>1, <1>2, <1>3
     DEF StartUpInv, AccountsAreComplete, RegisteredKeysAreHeld,
         AccountsAreOfDevice

-----------------------------------------------------------------------------
(* Types.                                                                  *)

(* A process asks for a complete account.                                  *)
LEMMA AccountIsComplete ==
  ASSUME TypeOK, NEW p \in Proc, id[p] \in Proc, held[p] \in Proc
  PROVE  /\ AccountOf(p) \in Accounts
         /\ AccountOf(p) # NoAccount
         /\ AccountOf(p).device = id[p]
         /\ AccountOf(p).identity = held[p]
         /\ AccountOf(p).key = p
BY StartUpAssumption
   DEF StartUpAssumption, AccountOf, NoAccount, Accounts, ProcOrNone

(* TypeOK is preserved by every step.                                      *)
LEMMA NextTypes == StartUpInv /\ [Next]_vars => TypeOK'
<1>. SUFFICES ASSUME StartUpInv, [Next]_vars PROVE TypeOK'
  OBVIOUS
<1>. USE StartUpAssumption DEF StartUpAssumption, StartUpInv, ProcOrNone,
         diskVars, procVars, serverVars, boundVars, Goto
<1>0. CASE UNCHANGED vars
  BY <1>0 DEF TypeOK, vars, Accounts
<1>1. ASSUME NEW p \in Proc, ReadFingerprint(p) PROVE TypeOK'
  BY <1>1 DEF ReadFingerprint, Exists, TypeOK, Accounts
<1>2. ASSUME NEW p \in Proc, GenerateFingerprint(p) PROVE TypeOK'
  BY <1>2 DEF GenerateFingerprint, TypeOK, Accounts
<1>3. ASSUME NEW p \in Proc, OpenTemporary(p) PROVE TypeOK'
  BY <1>3 DEF OpenTemporary, TypeOK, Accounts
<1>4. ASSUME NEW p \in Proc, WriteTemporary(p) PROVE TypeOK'
  BY ZenonT(40), <1>4 DEF WriteTemporary, TypeOK, Accounts
<1>5. ASSUME NEW p \in Proc, ReplaceDestination(p) PROVE TypeOK'
  BY <1>5 DEF ReplaceDestination, TypeOK, Accounts
<1>6. ASSUME NEW p \in Proc, LockState(p) PROVE TypeOK'
  <2>1. id[p] \in Proc
    BY <1>6 DEF LockState, StateIsMadeOnce, Named
  <2>2. QED
    BY <1>6, <2>1 DEF LockState, AfterRestore, TypeOK, Accounts
<1>7. ASSUME NEW p \in Proc, SaveState(p) PROVE TypeOK'
  BY ZenonT(40), <1>7 DEF SaveState, TypeOK, Accounts
<1>8. ASSUME NEW p \in Proc, SendRegister(p) PROVE TypeOK'
  BY <1>8 DEF SendRegister, TypeOK, Accounts
<1>9. ASSUME NEW p \in Proc, Register(p) PROVE TypeOK'
  <2>1. AccountOf(p) \in Accounts
    BY <1>9, AccountIsComplete DEF Register, StateIsMadeOnce, Named, Keyed
  <2>2. srv' \in Accounts /\ srvFile' \in Accounts
        /\ failures' \in 0..MaxFailures
    BY <1>9, <2>1 DEF Register, SaveRegistrations, TypeOK
  <2>3. QED
    BY <1>9, <2>2 DEF Register, TypeOK, Accounts
<1>10. ASSUME NEW p \in Proc, LateRegister(p) PROVE TypeOK'
  <2>1. AccountOf(p) \in Accounts
    BY DEF TypeOK, AccountOf, Accounts
  <2>2. srv' \in Accounts /\ srvFile' \in Accounts
        /\ failures' \in 0..MaxFailures
    BY <1>10, <2>1 DEF LateRegister, SaveRegistrations, TypeOK
  <2>3. QED
    BY <1>10, <2>2 DEF LateRegister, TypeOK, Accounts
<1>11. ASSUME NEW p \in Proc, SaveAuthKey(p) PROVE TypeOK'
  BY <1>11 DEF SaveAuthKey, TypeOK, Accounts
<1>12. ASSUME NEW p \in Proc, Crash(p) PROVE TypeOK'
  BY <1>12 DEF Crash, TypeOK, Accounts
<1>13. CASE RegisterOther
  BY <1>13 DEF RegisterOther, TypeOK, Accounts
<1>14. CASE Restart
  BY <1>14 DEF Restart, TypeOK, Accounts
<1>15. QED
  BY <1>0, <1>1, <1>2, <1>3, <1>4, <1>5, <1>6, <1>7, <1>8, <1>9, <1>10,
     <1>11, <1>12, <1>13, <1>14 DEF Next

-----------------------------------------------------------------------------
(* The private keys.                                                       *)

(* One process creates the keys of a fingerprint, and all share them.      *)
LEMMA NextKeys ==
  StartUpInv /\ [Next]_vars => StateIsMadeOnce' /\ KeysAreShared'
<1>. SUFFICES ASSUME StartUpInv, [Next]_vars
              PROVE  StateIsMadeOnce' /\ KeysAreShared'
  OBVIOUS
<1>. USE StartUpAssumption DEF StartUpAssumption, StartUpInv, StateIsMadeOnce,
         KeysAreShared, TypeOK, ProcOrNone, diskVars, procVars, Goto, Making,
         Named, Keyed
<1>0. CASE UNCHANGED vars
  BY <1>0 DEF vars
<1>1. ASSUME NEW p \in Proc, ReadFingerprint(p)
      PROVE  StateIsMadeOnce' /\ KeysAreShared'
  BY <1>1 DEF ReadFingerprint, Exists
<1>2. ASSUME NEW p \in Proc, GenerateFingerprint(p)
      PROVE  StateIsMadeOnce' /\ KeysAreShared'
  BY <1>2 DEF GenerateFingerprint
<1>3. ASSUME NEW p \in Proc, OpenTemporary(p)
      PROVE  StateIsMadeOnce' /\ KeysAreShared'
  BY <1>3 DEF OpenTemporary
<1>4. ASSUME NEW p \in Proc, WriteTemporary(p)
      PROVE  StateIsMadeOnce' /\ KeysAreShared'
  BY <1>4 DEF WriteTemporary
<1>5. ASSUME NEW p \in Proc, ReplaceDestination(p)
      PROVE  StateIsMadeOnce' /\ KeysAreShared'
  BY <1>5 DEF ReplaceDestination
<1>6. ASSUME NEW p \in Proc, LockState(p)
      PROVE  StateIsMadeOnce' /\ KeysAreShared'
  BY <1>6 DEF LockState, AfterRestore, LockIsFree
<1>7. ASSUME NEW p \in Proc, SaveState(p)
      PROVE  StateIsMadeOnce' /\ KeysAreShared'
  BY <1>7 DEF SaveState
<1>8. ASSUME NEW p \in Proc, SendRegister(p)
      PROVE  StateIsMadeOnce' /\ KeysAreShared'
  BY <1>8 DEF SendRegister
<1>9. ASSUME NEW p \in Proc, Register(p)
      PROVE  StateIsMadeOnce' /\ KeysAreShared'
  BY <1>9 DEF Register
<1>10. ASSUME NEW p \in Proc, LateRegister(p)
       PROVE  StateIsMadeOnce' /\ KeysAreShared'
  BY <1>10 DEF LateRegister
<1>11. ASSUME NEW p \in Proc, SaveAuthKey(p)
       PROVE  StateIsMadeOnce' /\ KeysAreShared'
  BY <1>11 DEF SaveAuthKey
<1>12. ASSUME NEW p \in Proc, Crash(p)
       PROVE  StateIsMadeOnce' /\ KeysAreShared'
  BY <1>12 DEF Crash
<1>13. CASE RegisterOther \/ Restart
  BY <1>13 DEF RegisterOther, Restart
<1>14. QED
  BY <1>0, <1>1, <1>2, <1>3, <1>4, <1>5, <1>6, <1>7, <1>8, <1>9, <1>10,
     <1>11, <1>12, <1>13 DEF Next

-----------------------------------------------------------------------------
(* The accounts the relay has or may get.                                  *)

(* A registration that comes late was posted, and keeps what it carries.   *)
LEMMA LateStep ==
  ASSUME StartUpInv, [Next]_vars, NEW q \in late'
  PROVE  /\ q \in Proc
         /\ q \in late \/ pc[q] = "posted"
         /\ id'[q] = id[q]
         /\ held'[q] = held[q]
         /\ pc'[q] = "failed"
<1>. USE DEF diskVars, procVars, serverVars, boundVars, Goto, StartUpInv,
         AccountsAreComplete, TypeOK
<1>1. ASSUME NEW p \in Proc, Crash(p)
      PROVE  /\ q \in late \/ pc[q] = "posted"
             /\ pc'[q] = "failed"
             /\ q \in Proc /\ UNCHANGED <<id, held>>
  BY <1>1 DEF Crash
<1>2. ASSUME NEW p \in Proc,
             \/ ReadFingerprint(p) \/ GenerateFingerprint(p) \/ LockState(p)
      PROVE  /\ q \in late /\ q # p
             /\ id'[q] = id[q] /\ held'[q] = held[q] /\ pc'[q] = pc[q]
  BY <1>2 DEF ReadFingerprint, GenerateFingerprint, LockState
<1>3. ASSUME NEW p \in Proc,
             \/ OpenTemporary(p) \/ WriteTemporary(p)
             \/ ReplaceDestination(p) \/ SaveState(p) \/ SendRegister(p)
             \/ Register(p) \/ SaveAuthKey(p)
      PROVE  /\ q \in late /\ q # p
             /\ UNCHANGED <<id, held>> /\ pc'[q] = pc[q]
  BY <1>3 DEF OpenTemporary, WriteTemporary, ReplaceDestination, SaveState,
              SendRegister, Register, SaveAuthKey
<1>4. ASSUME NEW p \in Proc, LateRegister(p)
      PROVE  q \in late /\ UNCHANGED procVars
  BY <1>4 DEF LateRegister
<1>5. CASE RegisterOther \/ Restart \/ UNCHANGED vars
  BY <1>5 DEF RegisterOther, Restart, vars
<1>6. QED
  BY <1>1, <1>2, <1>3, <1>4, <1>5 DEF Next

(* A step sets the account to what it was on disk, or to a posted one.     *)
LEMMA AccountStep ==
  ASSUME StartUpInv, [Next]_vars
  PROVE  /\ srv' \in {srv, srvFile} \union
              {AccountOf(p) : p \in late \union {q \in Proc : pc[q] = "posted"}}
         /\ srvFile' \in {srvFile, srv, srv'}
<1>. USE DEF diskVars, procVars, serverVars, boundVars
<1>1. ASSUME NEW p \in Proc,
             \/ ReadFingerprint(p) \/ GenerateFingerprint(p)
             \/ OpenTemporary(p) \/ WriteTemporary(p)
             \/ ReplaceDestination(p) \/ LockState(p) \/ SaveState(p)
             \/ SendRegister(p) \/ SaveAuthKey(p) \/ Crash(p)
      PROVE  UNCHANGED <<srv, srvFile>>
  BY <1>1 DEF ReadFingerprint, GenerateFingerprint, OpenTemporary,
              WriteTemporary, ReplaceDestination, LockState, SaveState,
              SendRegister, SaveAuthKey, Crash
<1>2. ASSUME NEW p \in Proc, Register(p) \/ LateRegister(p)
      PROVE  /\ \/ srv' = srv
                \/ srv' = AccountOf(p) /\ (p \in late \/ pc[p] = "posted")
             /\ srvFile' \in {srvFile, srv, srv'}
  BY <1>2 DEF Register, LateRegister, SaveRegistrations
<1>3. CASE RegisterOther \/ Restart \/ UNCHANGED vars
  BY <1>3 DEF RegisterOther, Restart, vars
<1>4. QED
  BY <1>1, <1>2, <1>3 DEF Next

(* A step lets the relay learn of an account only by a process that has    *)
(* posted its own.                                                         *)
LEMMA KnownStep ==
  ASSUME StartUpInv, [Next]_vars, NEW a \in KnownAccounts'
  PROVE  a \in KnownAccounts
         \/ \E p \in Proc : pc[p] = "posted" /\ a = AccountOf(p)
<1>1. a # NoAccount
      /\ (a \in {srv', srvFile'} \/ \E q \in late' : a = AccountOf(q)')
  BY DEF KnownAccounts
<1>2. CASE a \in {srv', srvFile'}
  BY <1>1, <1>2, AccountStep DEF KnownAccounts
<1>3. ASSUME NEW q \in late', a = AccountOf(q)'
      PROVE  /\ q \in Proc /\ a = AccountOf(q)
             /\ q \in late \/ pc[q] = "posted"
  BY <1>3, LateStep DEF AccountOf
<1>4. QED
  BY <1>1, <1>2, <1>3 DEF KnownAccounts

(* A posted account carries the keys on disk.                              *)
LEMMA PostedIsHeld ==
  ASSUME StartUpInv, NEW p \in Proc, pc[p] = "posted"
  PROVE  /\ AccountOf(p).device = id[p]
         /\ AccountOf(p).device \in Proc
         /\ AccountOf(p).identity \in Proc
         /\ AccountOf(p).identity = crypto[id[p]]
         /\ AccountOf(p).key = p
BY AccountIsComplete
   DEF StartUpInv, StateIsMadeOnce, KeysAreShared, Named, Keyed

(* Keys on disk are never replaced.                                        *)
LEMMA KeysStay ==
  ASSUME StartUpInv, [Next]_vars, NEW f \in Proc, crypto[f] # None
  PROVE  crypto'[f] = crypto[f]
<1>. USE DEF diskVars, procVars, serverVars, boundVars
<1>1. ASSUME NEW p \in Proc, SaveState(p) PROVE crypto'[f] = crypto[f]
  BY <1>1 DEF SaveState, StartUpInv, StateIsMadeOnce, TypeOK
<1>2. ASSUME NEW p \in Proc,
             \/ ReadFingerprint(p) \/ GenerateFingerprint(p)
             \/ OpenTemporary(p) \/ WriteTemporary(p)
             \/ ReplaceDestination(p) \/ LockState(p) \/ SendRegister(p)
             \/ Register(p) \/ LateRegister(p) \/ SaveAuthKey(p) \/ Crash(p)
      PROVE  UNCHANGED crypto
  BY <1>2 DEF ReadFingerprint, GenerateFingerprint, OpenTemporary,
              WriteTemporary, ReplaceDestination, LockState, SendRegister,
              Register, LateRegister, SaveAuthKey, Crash
<1>3. CASE RegisterOther \/ Restart \/ UNCHANGED vars
  BY <1>3 DEF RegisterOther, Restart, vars
<1>4. QED
  BY <1>1, <1>2, <1>3 DEF Next

(* Whatever account the relay has or may get is complete, and its private  *)
(* keys are on disk.                                                       *)
LEMMA NextAccounts ==
  StartUpInv /\ [Next]_vars => AccountsAreComplete' /\ RegisteredKeysAreHeld'
<1>. SUFFICES ASSUME StartUpInv, [Next]_vars
              PROVE  AccountsAreComplete' /\ RegisteredKeysAreHeld'
  OBVIOUS
<1>1. ASSUME NEW a \in KnownAccounts'
      PROVE  /\ a.device \in Proc /\ a.identity \in Proc /\ a.key \in Proc
             /\ a.identity = crypto[a.device]
  BY KnownStep, PostedIsHeld
     DEF StartUpInv, AccountsAreComplete, RegisteredKeysAreHeld
<1>2. ASSUME NEW a \in KnownAccounts' PROVE a.identity = crypto'[a.device]
  BY <1>1, KeysStay, StartUpAssumption DEF StartUpAssumption
<1>3. AccountsAreComplete'
  BY <1>1, LateStep DEF AccountsAreComplete
<1>4. RegisteredKeysAreHeld'
  BY <1>2 DEF RegisteredKeysAreHeld
<1>5. QED
  BY <1>3, <1>4

-----------------------------------------------------------------------------
(* The credential.                                                         *)

(* The account an answer or a credential was issued for stays, in memory   *)
(* and on disk.                                                            *)
LEMMA NextCredential ==
  StartUpInv /\ [Next]_vars => AnsweredIsAccount' /\ CredentialIsAccounts'
<1>. SUFFICES ASSUME StartUpInv, [Next]_vars
              PROVE  AnsweredIsAccount' /\ CredentialIsAccounts'
  OBVIOUS
<1>. USE StartUpAssumption DEF StartUpAssumption, StartUpInv,
         AnsweredIsAccount, CredentialIsAccounts, diskVars, procVars,
         serverVars, boundVars, Goto, TypeOK
<1>1. ASSUME NEW p \in Proc,
             \/ ReadFingerprint(p) \/ GenerateFingerprint(p)
             \/ OpenTemporary(p) \/ WriteTemporary(p)
             \/ ReplaceDestination(p) \/ LockState(p) \/ SaveState(p)
             \/ SendRegister(p) \/ Crash(p)
      PROVE  AnsweredIsAccount' /\ CredentialIsAccounts'
  <2>1. UNCHANGED <<srv, srvFile, credential>>
    BY <1>1 DEF ReadFingerprint, GenerateFingerprint, OpenTemporary,
                WriteTemporary, ReplaceDestination, LockState, SaveState,
                SendRegister, Crash
  <2>2. \A q \in Proc : pc'[q] = "answered" => pc[q] = "answered"
    BY <1>1 DEF ReadFingerprint, GenerateFingerprint, OpenTemporary,
                WriteTemporary, ReplaceDestination, LockState, AfterRestore,
                SaveState, SendRegister, Crash
  <2>3. QED
    BY <2>1, <2>2
<1>2. ASSUME NEW p \in Proc, Register(p)
      PROVE  AnsweredIsAccount' /\ CredentialIsAccounts'
  <2>1. AccountOf(p).key = p
    BY DEF AccountOf
  <2>2. CASE ~MayRegister
    BY <1>2, <2>2 DEF Register
  <2>3. CASE MayRegister
    <3>1. srv.key = None
      BY <2>3 DEF MayRegister, NoAccount
    <3>2. credential = None /\ \A q \in Proc : pc[q] # "answered"
      BY <3>1
    <3>3. srv' = AccountOf(p) /\ credential' = None
      BY <1>2, <2>3, <3>2 DEF Register
    <3>4. ASSUME NEW q \in Proc, pc'[q] = "answered"
          PROVE  q = p /\ srvFile' = srv'
      BY <1>2, <2>3, <3>2, <3>4 DEF Register, SaveRegistrations
    <3>5. QED
      BY <2>1, <3>3, <3>4
  <2>4. QED
    BY <2>2, <2>3
<1>3. ASSUME NEW p \in Proc, LateRegister(p)
      PROVE  AnsweredIsAccount' /\ CredentialIsAccounts'
  <2>1. CASE ~MayRegister
    BY <1>3, <2>1 DEF LateRegister
  <2>2. CASE MayRegister
    BY <1>3, <2>2 DEF LateRegister, MayRegister, NoAccount
  <2>3. QED
    BY <2>1, <2>2
<1>4. ASSUME NEW p \in Proc, SaveAuthKey(p)
      PROVE  AnsweredIsAccount' /\ CredentialIsAccounts'
  BY <1>4 DEF SaveAuthKey
<1>5. CASE RegisterOther \/ Restart \/ UNCHANGED vars
  BY <1>5 DEF RegisterOther, Restart, vars
<1>6. QED
  BY <1>1, <1>2, <1>3, <1>4, <1>5 DEF Next

-----------------------------------------------------------------------------
(* The fingerprint, when no two processes make one at once.                *)

(* A fingerprint is made alone, unless two are made at once.               *)
LEMMA MakerIsFirst ==
  ASSUME NEW p \in Proc, GenerateFingerprint(p), ~raced'
  PROVE  ~raced /\ \A q \in Proc : ~Making(q)
BY Zenon DEF GenerateFingerprint

(* The maker has the temporary file to itself, and every process that is   *)
(* past the fingerprint goes by the one on disk.                           *)
LEMMA NextFingerprint ==
  StartUpInv /\ [Next]_vars => MakerIsAlone' /\ StartsAgree'
<1>. SUFFICES ASSUME StartUpInv, [Next]_vars, ~raced'
              PROVE  MakerIsAlone' /\ StartsAgree'
  BY DEF MakerIsAlone, StartsAgree
<1>. USE StartUpAssumption DEF StartUpAssumption, StartUpInv, MakerIsAlone,
         StartsAgree, StateIsMadeOnce, diskVars, procVars, serverVars,
         boundVars, Goto, Making, Named, TypeOK, ProcOrNone
<1>1. ASSUME NEW p \in Proc, ReadFingerprint(p)
      PROVE  MakerIsAlone' /\ StartsAgree'
  BY <1>1 DEF ReadFingerprint, Exists
<1>2. ASSUME NEW p \in Proc, GenerateFingerprint(p)
      PROVE  MakerIsAlone' /\ StartsAgree'
  <2>1. ~raced /\ \A q \in Proc : ~Making(q)
    BY <1>2, MakerIsFirst
  <2>2. file = None /\ file' = file /\ id' = [id EXCEPT ![p] = p]
        /\ pc' = [pc EXCEPT ![p] = "open"]
    BY <1>2 DEF GenerateFingerprint, Exists
  <2>3. QED
    BY <2>1, <2>2
<1>3. ASSUME NEW p \in Proc, OpenTemporary(p)
      PROVE  MakerIsAlone' /\ StartsAgree'
  BY <1>3 DEF OpenTemporary
<1>4. ASSUME NEW p \in Proc, WriteTemporary(p)
      PROVE  MakerIsAlone' /\ StartsAgree'
  BY <1>4 DEF WriteTemporary
<1>5. ASSUME NEW p \in Proc, ReplaceDestination(p)
      PROVE  MakerIsAlone' /\ StartsAgree'
  BY <1>5 DEF ReplaceDestination
<1>6. ASSUME NEW p \in Proc, LockState(p)
      PROVE  MakerIsAlone' /\ StartsAgree'
  BY <1>6 DEF LockState, AfterRestore
<1>7. ASSUME NEW p \in Proc, SaveState(p) \/ SendRegister(p)
      PROVE  MakerIsAlone' /\ StartsAgree'
  BY <1>7 DEF SaveState, SendRegister
<1>8. ASSUME NEW p \in Proc, Register(p) \/ LateRegister(p)
      PROVE  MakerIsAlone' /\ StartsAgree'
  BY <1>8 DEF Register, LateRegister
<1>9. ASSUME NEW p \in Proc, SaveAuthKey(p)
      PROVE  MakerIsAlone' /\ StartsAgree'
  BY <1>9 DEF SaveAuthKey
<1>10. ASSUME NEW p \in Proc, Crash(p)
       PROVE  MakerIsAlone' /\ StartsAgree'
  BY <1>10 DEF Crash
<1>11. CASE RegisterOther \/ Restart \/ UNCHANGED vars
  BY <1>11 DEF RegisterOther, Restart, vars
<1>12. QED
  BY <1>1, <1>2, <1>3, <1>4, <1>5, <1>6, <1>7, <1>8, <1>9, <1>10, <1>11
     DEF Next

(* A fingerprint on disk stays while no two processes make one at once.    *)
LEMMA FingerprintStays ==
  ASSUME StartUpInv, [Next]_vars, ~raced', file # None
  PROVE  file' = file /\ content'[file] = content[file] /\ ~raced
<1>. USE DEF diskVars, procVars, serverVars, boundVars, StartUpInv,
         MakerIsAlone, Making
<1>1. ASSUME NEW p \in Proc,
             OpenTemporary(p) \/ WriteTemporary(p) \/ ReplaceDestination(p)
      PROVE  FALSE
  BY <1>1 DEF OpenTemporary, WriteTemporary, ReplaceDestination
<1>2. ASSUME NEW p \in Proc,
             \/ ReadFingerprint(p) \/ LockState(p) \/ SaveState(p)
             \/ SendRegister(p) \/ Register(p) \/ LateRegister(p)
             \/ SaveAuthKey(p) \/ Crash(p)
      PROVE  UNCHANGED <<file, content, raced>>
  BY <1>2 DEF ReadFingerprint, LockState, SaveState, SendRegister, Register,
              LateRegister, SaveAuthKey, Crash
<1>3. CASE RegisterOther \/ Restart \/ UNCHANGED vars
  BY <1>3 DEF RegisterOther, Restart, vars
<1>4. ASSUME NEW p \in Proc, GenerateFingerprint(p) PROVE FALSE
  BY <1>4 DEF GenerateFingerprint, Exists
<1>5. QED
  BY <1>1, <1>2, <1>3, <1>4 DEF Next

(* Every account is one of the device on disk.                             *)
LEMMA NextDevice == StartUpInv /\ [Next]_vars => AccountsAreOfDevice'
<1>. SUFFICES ASSUME StartUpInv, [Next]_vars, ~raced',
                     NEW a \in KnownAccounts'
              PROVE  file' # None /\ content'[file'] = a.device
  BY DEF AccountsAreOfDevice
<1>1. ~raced
  <2>1. ASSUME NEW p \in Proc, GenerateFingerprint(p) PROVE ~raced
    BY <2>1, MakerIsFirst
  <2>2. ASSUME NEW p \in Proc,
               \/ ReadFingerprint(p) \/ OpenTemporary(p)
               \/ WriteTemporary(p) \/ ReplaceDestination(p)
               \/ LockState(p) \/ SaveState(p) \/ SendRegister(p)
               \/ Register(p) \/ LateRegister(p) \/ SaveAuthKey(p)
               \/ Crash(p)
        PROVE  UNCHANGED raced
    BY <2>2 DEF ReadFingerprint, OpenTemporary, WriteTemporary,
                ReplaceDestination, LockState, SaveState, SendRegister,
                Register, LateRegister, SaveAuthKey, Crash
  <2>3. CASE RegisterOther \/ Restart \/ UNCHANGED vars
    BY <2>3 DEF RegisterOther, Restart, vars
  <2>4. QED
    BY <2>1, <2>2, <2>3 DEF Next
<1>2. file # None /\ content[file] = a.device
  BY <1>1, KnownStep, PostedIsHeld
     DEF StartUpInv, AccountsAreOfDevice, StartsAgree, Named
<1>3. QED
  BY <1>2, FingerprintStays

-----------------------------------------------------------------------------
(* The theorems.                                                           *)

(* What starts on a state directory leaves the fingerprint, the keys, the  *)
(* account and the credential consistent, over crashes, lost and late      *)
(* registrations, failed saves and restarts of the relay                   *)
(* (client.py:85-152, server.py:286-433).                                  *)
THEOREM StartUpCorrect == Spec => []StartUpInv
<1>1. StartUpInv /\ [Next]_vars => StartUpInv'
  BY NextTypes, NextKeys, NextAccounts, NextCredential, NextFingerprint,
     NextDevice DEF StartUpInv
<1>2. QED
  BY <1>1, InitStartUp, PTL DEF Spec

(* As long as no two processes make a fingerprint at once, every process   *)
(* goes by the one on disk (device_identity.py:72-87).                     *)
THEOREM StartsUseOneFingerprint == Spec => []StartsAgree
<1>1. StartUpInv => StartsAgree
  BY DEF StartUpInv
<1>2. QED
  BY <1>1, StartUpCorrect, PTL

(* All processes that go by one fingerprint have the keys on disk          *)
(* (client_state.py:52-60).                                                *)
THEOREM StartsShareKeys == Spec => []KeysAreShared
<1>1. StartUpInv => KeysAreShared
  BY DEF StartUpInv
<1>2. QED
  BY <1>1, StartUpCorrect, PTL

(* The relay never has an account whose private keys are not in the state  *)
(* directory (client.py:98-100, 138-150).                                  *)
THEOREM AccountsHaveKeys == Spec => []RegisteredKeysAreHeld
<1>1. StartUpInv => RegisteredKeysAreHeld
  BY DEF StartUpInv
<1>2. QED
  BY <1>1, StartUpCorrect, PTL

(* A saved credential is the account's, in memory and on disk              *)
(* (server.py:360-366, 408-433, client.py:150-152).                        *)
THEOREM CredentialsAreGood == Spec => []CredentialIsAccounts
<1>1. StartUpInv => CredentialIsAccounts
  BY DEF StartUpInv
<1>2. QED
  BY <1>1, StartUpCorrect, PTL

(* As long as no two processes make a fingerprint at once, whatever is     *)
(* started with the saved credential is the device it was issued to        *)
(* (client.py:90-97, server.py:253-259).                                   *)
THEOREM CredentialsLogIn == Spec => []CredentialLogsIn
<1>1. StartUpInv => CredentialLogsIn
  <2>. SUFFICES ASSUME StartUpInv, credential # None, ~raced
                PROVE  file # None /\ content[file] = srv.device
    BY DEF CredentialLogsIn
  <2>1. srv # NoAccount
    BY DEF StartUpInv, CredentialIsAccounts, NoAccount
  <2>2. QED
    BY <2>1 DEF StartUpInv, AccountsAreOfDevice, KnownAccounts
<1>2. QED
  BY <1>1, StartUpCorrect, PTL

(* Every variable of the start-up has its type                             *)
(* (client.py:84-156, client_state.py:40-66).                              *)
THEOREM TypesHold == Spec => []TypeOK
<1>1. StartUpInv => TypeOK
  BY DEF StartUpInv
<1>2. QED
  BY <1>1, StartUpCorrect, PTL
=============================================================================
