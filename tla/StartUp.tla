------------------------------ MODULE StartUp -------------------------------
(***************************************************************************)
(* Processes that start on one state directory, from an empty one on: the  *)
(* device's fingerprint file, its private keys, the registration of the    *)
(* account with the relay and the credential that comes back.  Processes   *)
(* and the relay stop anywhere, answers are lost, requests come late, and  *)
(* the relay's saves may fail.                                             *)
(*                                                                         *)
(* Every process is a new one: a command that is run again is another      *)
(* member of Proc.  What a process makes itself is named after it: its     *)
(* fingerprint, its private keys, the auth_key the relay issues for its    *)
(* registration, and the file it creates.  A file is what the operating    *)
(* system calls an inode: it may have a name, "tmp" or "file", and is      *)
(* written through the handle of whoever opened it, whatever its name is   *)
(* by then.  The client is an encrypted primary.                           *)
(***************************************************************************)
EXTENDS Naturals

CONSTANTS
  Proc,         \* processes started on the state directory
  None,         \* no process: nothing there
  MaxCrashes,   \* bound: processes that stop early
  MaxFailures,  \* bound: failed saves of the relay
  MaxRestarts   \* bound: restarts of the relay

ASSUME StartUpAssumption ==
  /\ None \notin Proc
  /\ MaxCrashes \in Nat
  /\ MaxFailures \in Nat
  /\ MaxRestarts \in Nat

ProcOrNone == Proc \union {None}

VARIABLES
  tmp,         \* the file named device_identity.tmp
  file,        \* the file named device_identity.json
  content,     \* the fingerprint in each file, None while it is empty
  crypto,      \* the keys in crypto/<fingerprint>/state.json
  credential,  \* the auth_key in credentials.json
  pc,          \* where each process is
  handle,      \* the file each process has open
  id,          \* the fingerprint each process goes by
  held,        \* the keys each process has in memory
  srv,         \* the account in _registrations
  srvFile,     \* the account in registrations.json
  late,        \* registrations whose process no longer waits
  raced,       \* history: a process began to make a fingerprint while
               \* another was making one
  crashes, failures, restarts   \* counters for the bounds

diskVars   == <<tmp, file, content, crypto, credential>>
procVars   == <<pc, handle, id, held>>
serverVars == <<srv, srvFile, late>>
boundVars  == <<crashes, failures, restarts>>
vars == <<diskVars, procVars, serverVars, raced, boundVars>>

NoAccount == [device |-> None, identity |-> None, key |-> None]

Init ==
  /\ tmp = None
  /\ file = None
  /\ content = [p \in Proc |-> None]
  /\ crypto = [f \in Proc |-> None]
  /\ credential = None
  /\ pc = [p \in Proc |-> "idle"]
  /\ handle = [p \in Proc |-> None]
  /\ id = [p \in Proc |-> None]
  /\ held = [p \in Proc |-> None]
  /\ srv = NoAccount
  /\ srvFile = NoAccount
  /\ late = {}
  /\ raced = FALSE
  /\ crashes = 0
  /\ failures = 0
  /\ restarts = 0

Goto(p, step) == pc' = [pc EXCEPT ![p] = step]

-----------------------------------------------------------------------------
(* load_or_create_device_fingerprint.                                      *)

Making(p) == pc[p] \in {"open", "write", "replace"}

Exists_Never == FALSE
Exists == file # None

(* The file is there and read: an empty one cannot be parsed.              *)
ReadFingerprint(p) ==
  /\ pc[p] = "idle"
  /\ Exists
  /\ IF content[file] = None
     THEN Goto(p, "failed") /\ UNCHANGED id
     ELSE Goto(p, "named") /\ id' = [id EXCEPT ![p] = content[file]]
  /\ UNCHANGED <<diskVars, handle, held, serverVars, raced, boundVars>>

(* There is none: the process goes by a fingerprint of its own from here.  *)
GenerateFingerprint(p) ==
  /\ pc[p] = "idle"
  /\ ~Exists
  /\ Goto(p, "open")
  /\ id' = [id EXCEPT ![p] = p]
  /\ raced' = (raced \/ \E q \in Proc : Making(q))
  /\ UNCHANGED <<diskVars, handle, held, serverVars, boundVars>>

(* write_json_atomic: the temporary file is created or emptied, then       *)
(* written, then renamed.                                                  *)
OpenTemporary(p) ==
  LET f == IF tmp = None THEN p ELSE tmp IN
  /\ pc[p] = "open"
  /\ Goto(p, "write")
  /\ tmp' = f
  /\ handle' = [handle EXCEPT ![p] = f]
  /\ content' = [content EXCEPT ![f] = None]
  /\ UNCHANGED <<file, crypto, credential, id, held, serverVars, raced,
                 boundVars>>

WriteTemporary(p) ==
  /\ pc[p] = "write"
  /\ Goto(p, "replace")
  /\ content' = [content EXCEPT ![handle[p]] = p]
  /\ handle' = [handle EXCEPT ![p] = None]
  /\ UNCHANGED <<tmp, file, crypto, credential, id, held, serverVars, raced,
                 boundVars>>

(* Another process may have renamed the temporary file away.               *)
ReplaceDestination(p) ==
  /\ pc[p] = "replace"
  /\ IF tmp = None
     THEN Goto(p, "failed") /\ UNCHANGED <<tmp, file>>
     ELSE Goto(p, "named") /\ file' = tmp /\ tmp' = None
  /\ UNCHANGED <<content, crypto, credential, handle, id, held, serverVars,
                 raced, boundVars>>

-----------------------------------------------------------------------------
(* ClientCryptoState.load_or_create, in the directory of the fingerprint.  *)

LockIsFree_Always(f) == TRUE
LockIsFree(f) == \A q \in Proc : ~(pc[q] = "saving" /\ id[q] = f)

AfterRestore_Unsaved(saved) == "ready"
AfterRestore(saved) == IF saved = None THEN "saving" ELSE "ready"

(* Under the lock, the keys on disk are restored or new ones made.         *)
LockState(p) ==
  LET saved == crypto[id[p]] IN
  /\ pc[p] = "named"
  /\ LockIsFree(id[p])
  /\ Goto(p, AfterRestore(saved))
  /\ held' = [held EXCEPT ![p] = IF saved = None THEN p ELSE saved]
  /\ UNCHANGED <<diskVars, handle, id, serverVars, raced, boundVars>>

SaveState(p) ==
  /\ pc[p] = "saving"
  /\ Goto(p, "ready")
  /\ crypto' = [crypto EXCEPT ![id[p]] = held[p]]
  /\ UNCHANGED <<tmp, file, content, credential, handle, id, held, serverVars,
                 raced, boundVars>>

-----------------------------------------------------------------------------
(* Registration of the primary.                                            *)

SendRegister(p) ==
  /\ pc[p] = "ready"
  /\ Goto(p, "posted")
  /\ UNCHANGED <<diskVars, handle, id, held, serverVars, raced, boundVars>>

(* The account that process p asks for.                                    *)
AccountOf_NoKey(p) == [device |-> id[p], identity |-> held[p]]
AccountOf_OtherDevice(p) == [device |-> p, identity |-> held[p], key |-> p]
AccountOf(p) == [device |-> id[p], identity |-> held[p], key |-> p]

(* POST /register: ok says whether the new account could be saved.         *)
MayRegister == srv = NoAccount

SaveRegistrations_MemoryOnly(ok) == UNCHANGED <<srvFile, failures>>
SaveRegistrations(ok) ==
  IF ok
  THEN srvFile' = srv' /\ UNCHANGED failures
  ELSE /\ failures < MaxFailures
       /\ failures' = failures + 1
       /\ UNCHANGED srvFile

(* The process is answered, refused with 409, or, when the save fails, has *)
(* its connection dropped, which _request does not retry.                  *)
Register(p) ==
  /\ pc[p] = "posted"
  /\ \/ /\ ~MayRegister
        /\ Goto(p, "failed")
        /\ UNCHANGED <<srv, srvFile, failures>>
     \/ /\ MayRegister
        /\ srv' = AccountOf(p)
        /\ \E ok \in BOOLEAN :
             /\ SaveRegistrations(ok)
             /\ Goto(p, IF ok THEN "answered" ELSE "failed")
  /\ UNCHANGED <<diskVars, handle, id, held, late, raced, crashes, restarts>>

LateRegister(p) ==
  /\ p \in late
  /\ late' = late \ {p}
  /\ \/ ~MayRegister /\ UNCHANGED <<srv, srvFile, failures>>
     \/ /\ MayRegister
        /\ srv' = AccountOf(p)
        /\ \E ok \in BOOLEAN : SaveRegistrations(ok)
  /\ UNCHANGED <<diskVars, procVars, raced, crashes, restarts>>

(* Another account registers, and this one is saved with it.               *)
RegisterOther ==
  /\ srvFile # srv
  /\ srvFile' = srv
  /\ UNCHANGED <<diskVars, procVars, srv, late, raced, boundVars>>

Restart ==
  /\ restarts < MaxRestarts
  /\ restarts' = restarts + 1
  /\ srv' = srvFile
  /\ late' = {}
  /\ UNCHANGED <<diskVars, procVars, srvFile, raced, crashes, failures>>

(* The answer arrives and the credential is saved.                         *)
SaveAuthKey(p) ==
  /\ pc[p] = "answered"
  /\ Goto(p, "done")
  /\ credential' = p
  /\ UNCHANGED <<tmp, file, content, crypto, handle, id, held, serverVars,
                 raced, boundVars>>

(* A process stops, or its request times out, which is the end of it too.  *)
Crash(p) ==
  /\ pc[p] \notin {"idle", "done", "failed"}
  /\ crashes < MaxCrashes
  /\ crashes' = crashes + 1
  /\ Goto(p, "failed")
  /\ late' = IF pc[p] = "posted" THEN late \union {p} ELSE late
  /\ UNCHANGED <<diskVars, handle, id, held, srv, srvFile, raced, failures,
                 restarts>>

-----------------------------------------------------------------------------
Next ==
  \/ \E p \in Proc :
       \/ ReadFingerprint(p) \/ GenerateFingerprint(p) \/ OpenTemporary(p)
       \/ WriteTemporary(p) \/ ReplaceDestination(p)
       \/ LockState(p) \/ SaveState(p)
       \/ SendRegister(p) \/ Register(p) \/ LateRegister(p) \/ SaveAuthKey(p)
       \/ Crash(p)
  \/ RegisterOther
  \/ Restart

Spec == Init /\ [][Next]_vars

-----------------------------------------------------------------------------
(* Properties.                                                             *)

Accounts == [device : ProcOrNone, identity : ProcOrNone, key : ProcOrNone]

(* Every variable has its type.                                            *)
TypeOK ==
  /\ tmp \in ProcOrNone
  /\ file \in ProcOrNone
  /\ content \in [Proc -> ProcOrNone]
  /\ crypto \in [Proc -> ProcOrNone]
  /\ credential \in ProcOrNone
  /\ pc \in [Proc -> {"idle", "open", "write", "replace", "named", "saving",
                      "ready", "posted", "answered", "done", "failed"}]
  /\ handle \in [Proc -> ProcOrNone]
  /\ id \in [Proc -> ProcOrNone]
  /\ held \in [Proc -> ProcOrNone]
  /\ srv \in Accounts
  /\ srvFile \in Accounts
  /\ late \subseteq Proc
  /\ raced \in BOOLEAN
  /\ crashes \in 0..MaxCrashes
  /\ failures \in 0..MaxFailures
  /\ restarts \in 0..MaxRestarts

(* Processes that have finished with the fingerprint, and with the keys.   *)
Named(p) == pc[p] \in {"named", "saving", "ready", "posted", "answered", "done"}
Keyed(p) == pc[p] \in {"ready", "posted", "answered", "done"}

(* "each device has a stable 16-byte fingerprint-derived ID persisted in   *)
(* device_identity.json" (README.md:248): as long as no two processes make *)
(* a fingerprint at once, every process that started goes by the one on    *)
(* disk, over crashes in the middle of writing and what they leave behind  *)
(* (device_identity.py:72-87, json_store.py:8-13).                         *)
StartsAgree ==
  ~raced => \A p \in Proc : Named(p) => file # None /\ content[file] = id[p]

(* Processes that go by one fingerprint have the private keys on disk, and *)
(* so the same ones, however many of them find the directory empty: the    *)
(* check and the creation are under one lock (client_state.py:52-60).      *)
KeysAreShared == \A p \in Proc : Keyed(p) => held[p] = crypto[id[p]]

(* Whatever account the relay has, in memory, on disk or in a late         *)
(* request, the private keys of its device are in the state directory:     *)
(* they are saved before a registration leaves (client.py:98-100, 138-150).*)
KnownAccounts ==
  ({srv, srvFile} \union {AccountOf(p) : p \in late}) \ {NoAccount}

RegisteredKeysAreHeld ==
  \A a \in KnownAccounts : a.identity = crypto[a.device]

(* A saved credential is the account's, in memory and on disk, for good,   *)
(* although registrations fail, come late and are repeated                 *)
(* (server.py:360-366, 408-433, client.py:150-152).                        *)
CredentialIsAccounts ==
  credential # None => srv.key = credential /\ srvFile.key = credential

(* Unless two processes made a fingerprint at once, any process started    *)
(* with the saved credential logs in: it reads the fingerprint of the      *)
(* device that the credential was issued to (client.py:90-97,              *)
(* server.py:253-259).                                                     *)
CredentialLogsIn ==
  credential # None /\ ~raced =>
    file # None /\ content[file] = srv.device

-----------------------------------------------------------------------------
(* The inductive invariant, in parts.                                      *)

(* A process that creates a state is the only one to do so for its         *)
(* fingerprint, and nothing is on disk yet.                                *)
StateIsMadeOnce ==
  \A p \in Proc :
    /\ Making(p) => id[p] = p
    /\ Named(p) => id[p] \in Proc
    /\ Keyed(p) => held[p] \in Proc
    /\ pc[p] = "saving" =>
         /\ held[p] = p
         /\ crypto[id[p]] = None
         /\ \A q \in Proc : pc[q] = "saving" /\ id[q] = id[p] => q = p

(* Accounts are complete; a late registration is that of a process that    *)
(* has ended.                                                              *)
AccountsAreComplete ==
  /\ \A a \in KnownAccounts :
       a.device \in Proc /\ a.identity \in Proc /\ a.key \in Proc
  /\ \A p \in late : pc[p] = "failed"

(* An answered registration is the account, in memory and on disk.         *)
AnsweredIsAccount ==
  \A p \in Proc : pc[p] = "answered" => srv.key = p /\ srvFile.key = p

(* The one process that makes a fingerprint has the temporary file to      *)
(* itself.                                                                 *)
MakerIsAlone ==
  ~raced =>
    \A p \in Proc : Making(p) =>
      /\ file = None
      /\ \A q \in Proc : Making(q) => q = p
      /\ pc[p] = "write" => tmp # None /\ handle[p] = tmp
      /\ pc[p] = "replace" => tmp # None /\ content[tmp] = p

(* Every account is one of the device on disk.                             *)
AccountsAreOfDevice ==
  ~raced => \A a \in KnownAccounts : file # None /\ content[file] = a.device

(* What the properties above rest on, with them.                           *)
StartUpInv ==
  /\ TypeOK
  /\ StateIsMadeOnce
  /\ KeysAreShared
  /\ AccountsAreComplete
  /\ RegisteredKeysAreHeld
  /\ AnsweredIsAccount
  /\ CredentialIsAccounts
  /\ MakerIsAlone
  /\ StartsAgree
  /\ AccountsAreOfDevice
=============================================================================
