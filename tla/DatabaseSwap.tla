---------------------------- MODULE DatabaseSwap -----------------------------
(***************************************************************************)
(* A running hub whose database is replaced under it: an import, or the    *)
(* restore of a backup set (routers/db_transfer.py), while threads hold    *)
(* pooled connections and contexts (db.py), people log in and out          *)
(* (active_account.py), work is pinned to an account across slow calls     *)
(* (pinned_share_operation), and the secret that signs tokens is cached    *)
(* (services/auth.py).                                                     *)
(*                                                                         *)
(* Each account has a database and a trash in a folder of its own; logged  *)
(* out, the hub uses that of NoAccount.  A database is told by the set it  *)
(* was installed from and by its auth_secret.  A step of a restore is one  *)
(* change of a file, or one take or release of transition_lock and of the  *)
(* maintenance gate.                                                       *)
(***************************************************************************)
EXTENDS Naturals, FiniteSets

CONSTANTS
  Accounts,
  NoAccount,      \* nobody is logged in
  Unread,         \* _cache[0] is False
  NoOne,          \* nobody holds the lock, the gate; no connection
  Servers,        \* threads that serve requests and sign tokens
  Workers,        \* threads that run pinned operations, maybe the same
  SetRestores,    \* restores of a content and trash set
  FileRestores,   \* imports of one database file
  MaxLogins,      \* bound: logins and logouts
  MaxSwapFaults   \* bound: failing steps and stops of the process

Threads == Servers \cup Workers
Homes == Accounts \cup {NoAccount}
Restores == SetRestores \cup FileRestores
Sets == Restores \cup {"own"}

VARIABLES
  dbFiles,        \* the files of each place
  dbPointer,      \* active.json
  dbCache,        \* active_account._cache
  dbLock,         \* transition_lock
  dbGate,         \* _maintenance_active
  dbEpoch,        \* _pool_epoch
  dbThread,       \* what each thread is at
  dbConn,         \* its pooled connection
  dbSecret,       \* auth._secret_cache
  dbRestore,      \* each call of _install_db
  dbLogins,
  dbTorn,         \* history: places a restore could not finish or take back
  dbFaults

dbVars == <<dbFiles, dbPointer, dbCache, dbLock, dbGate, dbEpoch, dbThread, dbConn,
            dbSecret, dbRestore, dbLogins, dbTorn, dbFaults>>
accountVars == <<dbPointer, dbCache, dbLock, dbLogins>>
restoreVars == <<dbRestore, dbTorn, dbFaults>>

Secret == [of : Homes, since : Sets]
File == [set : Sets, secret : Secret, trash : Sets]
Conn == [at : Homes, epoch : Nat, file : File]

ASSUME SwapAssumption ==
  /\ NoAccount \notin Accounts /\ Unread \notin Homes /\ NoOne \notin Restores \cup Conn
  /\ SetRestores \cap FileRestores = {} /\ "own" \notin Restores
  /\ MaxLogins \in Nat /\ MaxSwapFaults \in Nat

Cached == [at : Homes, epoch : Nat, secret : Secret]
Thread == [pc : {"idle", "reading", "plain", "remote", "share", "nested", "inner",
                 "secret", "loading", "loaded"},
           at : Homes,       \* the account it is pinned to, the path of its key, what it read
           epoch : Nat,       \* the epoch it is pinned to, that of its key
           file : File]       \* the database it is pinned to, the one it read the secret of
Restore == [pc : {"idle", "fetching", "draining", "flushed", "content", "files", "secured",
                  "cleared", "rolling", "rolled", "restoring", "done", "refused", "failed",
                  "stuck", "dead"},
            target : Homes,  \* _RestoreTarget
            path : Homes,    \* where it installs
            pointer : Homes, \* active_pointer_backup
            file : File]      \* the .bak copies

SwapTypeOK ==
  /\ dbFiles \in [Homes -> File]
  /\ dbPointer \in Homes
  /\ dbCache \in Homes \cup {Unread}
  /\ dbLock \in Homes \cup Restores \cup {NoOne}
  /\ dbGate \in Restores \cup {NoOne}
  /\ dbEpoch \in Nat
  /\ dbThread \in [Threads -> Thread]
  /\ dbConn \in [Threads -> Conn \cup {NoOne}]
  /\ dbSecret \in Cached \cup {NoOne}
  /\ dbRestore \in [Restores -> Restore]
  /\ dbLogins \in 0..MaxLogins
  /\ dbTorn \subseteq Homes
  /\ dbFaults \in 0..MaxSwapFaults

OwnFile(p) == [set |-> "own", secret |-> [of |-> p, since |-> "own"], trash |-> "own"]
AtRest == [pc |-> "idle", at |-> NoAccount, epoch |-> 0, file |-> OwnFile(NoAccount)]
Unasked == [pc |-> "idle", target |-> NoAccount, path |-> NoAccount, pointer |-> NoAccount,
            file |-> OwnFile(NoAccount)]

SwapInit ==
  /\ dbFiles = [p \in Homes |-> OwnFile(p)]
  /\ dbPointer \in Homes
  /\ dbCache = dbPointer      \* read when the hub started
  /\ dbLock = NoOne
  /\ dbGate = NoOne
  /\ dbEpoch = 0
  /\ dbThread = [x \in Threads |-> AtRest]
  /\ dbConn = [x \in Threads |-> NoOne]
  /\ dbSecret = NoOne
  /\ dbRestore = [r \in Restores |-> Unasked]
  /\ dbLogins = 0
  /\ dbTorn = {}
  /\ dbFaults = 0

SwapFault == dbFaults < MaxSwapFaults /\ dbFaults' = dbFaults + 1

-----------------------------------------------------------------------------
(* The account.                                                            *)

(* account_key of a caller that holds transition_lock.                     *)
LoadedPointer == IF dbCache = Unread THEN dbPointer ELSE dbCache

(* _read_pointer of a caller that does not: it reads the file, and later   *)
(* stores what it read.                                                    *)
ReadPointer(x) ==
  /\ dbThread[x].pc = "idle"
  /\ dbCache = Unread
  /\ dbThread' = [dbThread EXCEPT ![x].pc = "reading", ![x].at = dbPointer]
  /\ UNCHANGED <<dbFiles, accountVars, dbGate, dbEpoch, dbConn, dbSecret, restoreVars>>

StorePointer(x) ==
  /\ dbThread[x].pc = "reading"
  /\ dbCache' = dbThread[x].at
  /\ dbThread' = [dbThread EXCEPT ![x] = AtRest]
  /\ UNCHANGED <<dbFiles, dbPointer, dbLock, dbLogins, dbGate, dbEpoch, dbConn, dbSecret,
                 restoreVars>>

(* _switch_account_db: the account's database is prepared under the lock,  *)
(* the pointer is published last.                                          *)
BeginLogin(a) ==
  /\ dbLogins < MaxLogins
  /\ dbLock = NoOne
  /\ dbLock' = a
  /\ dbLogins' = dbLogins + 1
  /\ UNCHANGED <<dbFiles, dbPointer, dbCache, dbGate, dbEpoch, dbThread, dbConn, dbSecret,
                 restoreVars>>

EndLogin(prepared) ==
  /\ dbLock \in Accounts
  /\ IF prepared THEN dbPointer' = dbLock /\ dbCache' = dbLock
                 ELSE UNCHANGED <<dbPointer, dbCache>>
  /\ dbLock' = NoOne
  /\ UNCHANGED <<dbFiles, dbLogins, dbGate, dbEpoch, dbThread, dbConn, dbSecret, restoreVars>>

(* clear_active, which does not tell when the file stays.                  *)
Logout(removed) ==
  /\ dbLogins < MaxLogins
  /\ dbLock = NoOne
  /\ dbPointer' = IF removed THEN NoAccount ELSE dbPointer
  /\ dbCache' = NoAccount
  /\ dbLogins' = dbLogins + 1
  /\ UNCHANGED <<dbFiles, dbLock, dbGate, dbEpoch, dbThread, dbConn, dbSecret, restoreVars>>

-----------------------------------------------------------------------------
(* Threads and their contexts.                                             *)

InContext(x) == dbThread[x].pc \in {"plain", "share", "nested", "inner", "loading"}

(* _pooled_conn: the thread's connection if it is one to this path in this *)
(* epoch, else a new one.                                                  *)
PooledConn(x, p) ==
  IF dbConn[x] # NoOne /\ dbConn[x].at = p /\ dbConn[x].epoch = dbEpoch
  THEN dbConn[x]
  ELSE [at |-> p, epoch |-> dbEpoch, file |-> dbFiles[p]]

(* _enter_connection_context, and the connection.                          *)
EnterContext(x, p, pc) ==
  /\ dbGate = NoOne
  /\ dbThread' = [dbThread EXCEPT ![x].pc = pc]
  /\ dbConn' = [dbConn EXCEPT ![x] = PooledConn(x, p)]
  /\ UNCHANGED <<dbFiles, accountVars, dbGate, dbEpoch, dbSecret, restoreVars>>

(* Leaving by an exception discards the connection.                        *)
LeaveContext(x, thread, raised) ==
  /\ dbThread' = [dbThread EXCEPT ![x] = thread]
  /\ dbConn' = [dbConn EXCEPT ![x] = IF raised THEN NoOne ELSE @]
  /\ UNCHANGED <<dbFiles, accountVars, dbGate, dbEpoch, dbSecret, restoreVars>>

(* A request that is pinned to nothing.                                    *)
EnterPlain(x) ==
  /\ dbThread[x].pc = "idle"
  /\ dbCache # Unread
  /\ EnterContext(x, dbCache, "plain")

LeavePlain(x, raised) == dbThread[x].pc = "plain" /\ LeaveContext(x, AtRest, raised)

(* capture_share_operation: account and epoch, under both locks.           *)
CaptureOperation(x) ==
  /\ dbThread[x].pc = "idle"
  /\ dbLock = NoOne
  /\ dbGate = NoOne
  /\ dbCache' = LoadedPointer
  /\ dbThread' = [dbThread EXCEPT ![x] = [pc |-> "remote", at |-> LoadedPointer,
                                          epoch |-> dbEpoch, file |-> dbFiles[LoadedPointer]]]
  /\ UNCHANGED <<dbFiles, dbPointer, dbLock, dbLogins, dbGate, dbEpoch, dbConn, dbSecret,
                 restoreVars>>

(* Mutant: an operation is held to its account only.                       *)
SameEpoch_AccountOnly(x) == TRUE

(* _check_share_epoch_locked.                                              *)
SameEpoch(x) == dbThread[x].epoch = dbEpoch

(* Between its slow calls a pinned operation reads and writes its account. *)
EnterShare(x) ==
  /\ dbThread[x].pc = "remote"
  /\ SameEpoch(x)
  /\ EnterContext(x, dbThread[x].at, "share")

LeaveShare(x, raised) ==
  /\ dbThread[x].pc = "share"
  /\ LeaveContext(x, IF raised THEN AtRest ELSE [dbThread[x] EXCEPT !.pc = "remote"], raised)

(* A context in the context: it waits as any other does.                   *)
WantInner(x) ==
  /\ dbThread[x].pc = "share"
  /\ dbThread' = [dbThread EXCEPT ![x].pc = "nested"]
  /\ UNCHANGED <<dbFiles, accountVars, dbGate, dbEpoch, dbConn, dbSecret, restoreVars>>

EnterInner(x) ==
  /\ dbThread[x].pc = "nested"
  /\ SameEpoch(x)
  /\ EnterContext(x, dbThread[x].at, "inner")

LeaveInner(x) ==
  dbThread[x].pc = "inner" /\ LeaveContext(x, [dbThread[x] EXCEPT !.pc = "share"], FALSE)

(* The end of the operation, or DatabaseEpochChanged.                      *)
EndOperation(x) ==
  /\ dbThread[x].pc = "remote"
  /\ dbThread' = [dbThread EXCEPT ![x] = AtRest]
  /\ UNCHANGED <<dbFiles, accountVars, dbGate, dbEpoch, dbConn, dbSecret, restoreVars>>

-----------------------------------------------------------------------------
(* get_secret.                                                             *)

SecretIsCached == dbSecret # NoOne /\ dbSecret.at = dbCache /\ dbSecret.epoch = dbEpoch

(* _secret_lock is free.                                                   *)
NobodyLoads == \A x \in Threads : dbThread[x].pc \notin {"secret", "loading", "loaded"}

(* A miss: the key is taken before the database is read.                   *)
MissSecret(x) ==
  /\ dbThread[x].pc = "idle"
  /\ dbCache # Unread
  /\ ~SecretIsCached
  /\ NobodyLoads
  /\ dbGate = NoOne
  /\ dbThread' = [dbThread EXCEPT ![x].pc = "secret", ![x].at = dbCache, ![x].epoch = dbEpoch]
  /\ UNCHANGED <<dbFiles, accountVars, dbGate, dbEpoch, dbConn, dbSecret, restoreVars>>

(* _load_secret, on the path of this moment.                               *)
EnterSecret(x) ==
  /\ dbThread[x].pc = "secret"
  /\ dbCache # Unread
  /\ EnterContext(x, dbCache, "loading")

LoadSecret(x) ==
  /\ dbThread[x].pc = "loading"
  /\ LeaveContext(x, [dbThread[x] EXCEPT !.pc = "loaded", !.file = dbFiles[dbConn[x].at]], FALSE)

StoreSecret(x) ==
  /\ dbThread[x].pc = "loaded"
  /\ dbSecret' = [at |-> dbThread[x].at, epoch |-> dbThread[x].epoch,
                  secret |-> dbThread[x].file.secret]
  /\ dbThread' = [dbThread EXCEPT ![x] = AtRest]
  /\ UNCHANGED <<dbFiles, accountVars, dbGate, dbEpoch, dbConn, restoreVars>>

-----------------------------------------------------------------------------
(* _install_db.                                                            *)

Moved(r, pc) == dbRestore' = [dbRestore EXCEPT ![r].pc = pc]

(* The call has ended: what it remembered is gone.                         *)
Ended(r, pc) ==
  dbRestore' = [dbRestore EXCEPT
    ![r] = [Unasked EXCEPT !.pc = pc, !.target = dbRestore[r].target]]

LetGo == dbLock' = NoOne /\ dbGate' = NoOne

(* flush_pool: a new epoch, and no connection is left.                     *)
FlushPool ==
  /\ dbEpoch' = dbEpoch + 1
  /\ dbConn' = [x \in Threads |-> NoOne]

(* _capture_restore_target: the file and the cache tell the same account.  *)
TargetIs(p) == dbPointer = p /\ LoadedPointer = p

(* The request takes the account before it fetches the backup.             *)
Admit(r) ==
  /\ dbRestore[r].pc = "idle"
  /\ dbLock = NoOne
  /\ dbCache' = LoadedPointer
  /\ dbRestore' = [dbRestore EXCEPT
       ![r].pc = IF TargetIs(dbPointer) THEN "fetching" ELSE "refused",
       ![r].target = dbPointer]
  /\ UNCHANGED <<dbFiles, dbPointer, dbLock, dbLogins, dbGate, dbEpoch, dbThread, dbConn,
                 dbSecret, dbTorn, dbFaults>>

(* The first check, and the start of maintenance_gate.                     *)
TakeGate(r) ==
  /\ dbRestore[r].pc = "fetching"
  /\ dbLock = NoOne
  /\ dbGate = NoOne
  /\ dbCache' = LoadedPointer
  /\ IF TargetIs(dbRestore[r].target)
     THEN Moved(r, "draining") /\ dbLock' = r /\ dbGate' = r
     ELSE Ended(r, "refused") /\ UNCHANGED <<dbLock, dbGate>>
  /\ UNCHANGED <<dbFiles, dbPointer, dbLogins, dbEpoch, dbThread, dbConn, dbSecret, dbTorn,
                 dbFaults>>

(* No context is left: the path, the second check, the pointer's copy, the *)
(* flush and the copies of the files.                                      *)
Drained(r) ==
  /\ dbRestore[r].pc = "draining"
  /\ \A x \in Threads : ~InContext(x)
  /\ dbCache' = LoadedPointer
  /\ IF TargetIs(dbRestore[r].target)
     THEN /\ dbRestore' = [dbRestore EXCEPT ![r].pc = "flushed", ![r].path = LoadedPointer,
               ![r].pointer = dbPointer, ![r].file = dbFiles[LoadedPointer]]
          /\ FlushPool
          /\ UNCHANGED <<dbLock, dbGate>>
     ELSE Ended(r, "refused") /\ LetGo /\ UNCHANGED <<dbEpoch, dbConn>>
  /\ UNCHANGED <<dbFiles, dbPointer, dbLogins, dbThread, dbSecret, dbTorn, dbFaults>>

(* Mutant: the drain waits as long as it takes.                            *)
DrainTimesOut_Never(r) == FALSE /\ UNCHANGED dbVars

(* DatabaseMaintenanceTimeout.                                             *)
DrainTimesOut(r) ==
  /\ dbRestore[r].pc = "draining"
  /\ \E x \in Threads : InContext(x)
  /\ Ended(r, "refused")
  /\ LetGo
  /\ UNCHANGED <<dbFiles, dbPointer, dbCache, dbLogins, dbEpoch, dbThread, dbConn, dbSecret,
                 dbTorn, dbFaults>>

(* A step on the files behind the gate.                                    *)
OnFiles(r, from, to, file) ==
  /\ dbRestore[r].pc = from
  /\ Moved(r, to)
  /\ dbFiles' = [dbFiles EXCEPT ![dbRestore[r].path] = file]
  /\ UNCHANGED <<accountVars, dbGate, dbEpoch, dbThread, dbConn, dbSecret, dbTorn, dbFaults>>

(* os.replace; the set was made from this account's database and may still *)
(* hold its secret.  init_db, which follows, changes nothing told apart.   *)
ReplaceContent(r) ==
  OnFiles(r, "flushed", IF r \in SetRestores THEN "content" ELSE "files",
          [dbFiles[dbRestore[r].path] EXCEPT !.set = r])

ReplaceTrash(r) ==
  OnFiles(r, "content", "files", [dbFiles[dbRestore[r].path] EXCEPT !.trash = r])

(* _post_install_security_init.                                            *)
Secure(r) ==
  OnFiles(r, "files", "secured",
          [dbFiles[dbRestore[r].path] EXCEPT !.secret = [of |-> dbRestore[r].path, since |-> r]])

(* _strict_clear_active.                                                   *)
ClearPointer(r) ==
  /\ dbRestore[r].pc = "secured"
  /\ Moved(r, "cleared")
  /\ dbPointer' = NoAccount
  /\ dbCache' = NoAccount
  /\ UNCHANGED <<dbFiles, dbLock, dbLogins, dbGate, dbEpoch, dbThread, dbConn, dbSecret, dbTorn,
                 dbFaults>>

FinishRestore(r) ==
  /\ dbRestore[r].pc = "cleared"
  /\ Ended(r, "done")
  /\ LetGo
  /\ UNCHANGED <<dbFiles, dbPointer, dbCache, dbLogins, dbEpoch, dbThread, dbConn, dbSecret,
                 dbTorn, dbFaults>>

(* A copy or a check fails before the first file is replaced.              *)
Abandon(r) ==
  /\ dbRestore[r].pc = "flushed"
  /\ SwapFault
  /\ Ended(r, "refused")
  /\ LetGo
  /\ UNCHANGED <<dbFiles, dbPointer, dbCache, dbLogins, dbEpoch, dbThread, dbConn, dbSecret,
                 dbTorn>>

(* A step fails: the pool is flushed again, and what was changed is taken  *)
(* back.                                                                   *)
Fail(r) ==
  /\ dbRestore[r].pc \in {"flushed", "content", "files", "secured"}
  /\ SwapFault
  /\ Moved(r, "rolling")
  /\ FlushPool
  /\ UNCHANGED <<dbFiles, accountVars, dbGate, dbThread, dbSecret, dbTorn>>

(* Mutant: only the content is taken back.                                 *)
RollContent_Only(r) ==
  OnFiles(r, "rolling", "restoring",
          [dbFiles[dbRestore[r].path] EXCEPT !.set = dbRestore[r].file.set,
                                             !.secret = dbRestore[r].file.secret])

RollContent(r) ==
  OnFiles(r, "rolling", IF r \in SetRestores THEN "rolled" ELSE "restoring",
          [dbFiles[dbRestore[r].path] EXCEPT !.set = dbRestore[r].file.set,
                                             !.secret = dbRestore[r].file.secret])

RollTrash(r) ==
  OnFiles(r, "rolled", "restoring",
          [dbFiles[dbRestore[r].path] EXCEPT !.trash = dbRestore[r].file.trash])

(* The pointer is written back and will be read again.                     *)
RollPointer(r) ==
  /\ dbRestore[r].pc = "restoring"
  /\ Ended(r, "failed")
  /\ dbPointer' = dbRestore[r].pointer
  /\ dbCache' = Unread
  /\ LetGo
  /\ UNCHANGED <<dbFiles, dbLogins, dbEpoch, dbThread, dbConn, dbSecret, dbTorn, dbFaults>>

(* What r has changed and not taken back.                                  *)
Changed(r) ==
  IF dbRestore[r].pc \in {"content", "files", "rolling", "rolled"}
  THEN {dbRestore[r].path} ELSE {}

(* Taking back fails too: the copies are left for the operator.            *)
RollFails(r) ==
  /\ dbRestore[r].pc \in {"rolling", "rolled", "restoring"}
  /\ SwapFault
  /\ Ended(r, "stuck")
  /\ LetGo
  /\ dbTorn' = dbTorn \cup Changed(r)
  /\ UNCHANGED <<dbFiles, dbPointer, dbCache, dbLogins, dbEpoch, dbThread, dbConn, dbSecret>>

Unended == {"fetching", "draining", "flushed", "content", "files", "secured", "cleared",
            "rolling", "rolled", "restoring"}

(* The process ends and is started again.  Nothing resumes a restore.      *)
Stop ==
  /\ SwapFault
  /\ dbTorn' = dbTorn \cup UNION {Changed(r) : r \in Restores}
  /\ dbRestore' = [r \in Restores |-> IF dbRestore[r].pc \in Unended
                                      THEN [Unasked EXCEPT !.pc = "dead", !.target = dbRestore[r].target]
                                      ELSE dbRestore[r]]
  /\ dbCache' = dbPointer
  /\ LetGo
  /\ dbEpoch' = 0
  /\ dbThread' = [x \in Threads |-> AtRest]
  /\ dbConn' = [x \in Threads |-> NoOne]
  /\ dbSecret' = NoOne
  /\ UNCHANGED <<dbFiles, dbPointer, dbLogins>>

-----------------------------------------------------------------------------
ServerStep(x) ==
  \/ ReadPointer(x) \/ StorePointer(x)
  \/ EnterPlain(x) \/ \E raised \in BOOLEAN : LeavePlain(x, raised)
  \/ MissSecret(x) \/ EnterSecret(x) \/ LoadSecret(x) \/ StoreSecret(x)

WorkerStep(x) ==
  \/ CaptureOperation(x) \/ EnterShare(x) \/ WantInner(x) \/ EnterInner(x) \/ LeaveInner(x)
  \/ \E raised \in BOOLEAN : LeaveShare(x, raised)
  \/ EndOperation(x)

(* The steps of a restore that nothing but the code decides.               *)
RestoreStep(r) ==
  \/ TakeGate(r) \/ Drained(r) \/ DrainTimesOut(r)
  \/ ReplaceContent(r) \/ ReplaceTrash(r) \/ Secure(r) \/ ClearPointer(r) \/ FinishRestore(r)
  \/ RollContent(r) \/ RollTrash(r) \/ RollPointer(r)

AccountStep ==
  \/ \E a \in Accounts : BeginLogin(a)
  \/ \E prepared \in BOOLEAN : EndLogin(prepared)
  \/ \E removed \in BOOLEAN : Logout(removed)

SwapNext ==
  \/ \E x \in Servers : ServerStep(x)
  \/ \E x \in Workers : WorkerStep(x)
  \/ \E r \in Restores : Admit(r) \/ RestoreStep(r) \/ Abandon(r) \/ Fail(r) \/ RollFails(r)
  \/ AccountStep
  \/ Stop

(* A restore goes on, and its drain ends by its deadline; a context that   *)
(* waits behind the gate enters once the gate is free.                      *)
SwapFairness ==
  /\ WF_dbVars(\E r \in Restores : RestoreStep(r))
  /\ \A x \in Workers : WF_dbVars(EnterInner(x))

SwapSpec == SwapInit /\ [][SwapNext]_dbVars /\ SwapFairness

-----------------------------------------------------------------------------
(* Nothing that was made from a database outlives it: the connection of an *)
(* open context is one to the file that is there, a pinned operation works *)
(* on the file it was pinned to, and a secret that get_secret answers from *)
(* its cache is the one some place has now (db.py:232-236, auth.py:35-44). *)
NothingOutlivesItsDatabase ==
  /\ \A x \in Threads : InContext(x) =>
       /\ dbConn[x] # NoOne /\ dbConn[x].file = dbFiles[dbConn[x].at]
       /\ dbThread[x].pc \in {"share", "nested", "inner"} => dbConn[x].file = dbThread[x].file
  /\ SecretIsCached => \E p \in Homes : dbSecret.secret = dbFiles[p].secret

(* What is served behind no gate is whole: content and trash are of one    *)
(* set (an import of one file keeps the trash), the secret is the one made *)
(* when that set was installed, the set is in the place its request was    *)
(* made for, and a restore that was refused or that failed has left        *)
(* nothing.  Excepted are the places a restore could not take back         *)
(* (db_transfer.py:294-299, 408-412).                                      *)
ServedIsWhole ==
  dbGate = NoOne =>
    /\ \A p \in Homes \ dbTorn : LET f == dbFiles[p] IN
         /\ f.set \notin FileRestores => f.trash = f.set
         /\ f.secret = [of |-> p, since |-> f.set]
         /\ f.set \in Restores => dbRestore[f.set].target = p
    /\ \A r \in Restores : dbRestore[r].pc \in {"refused", "failed"} =>
         \A p \in Homes : r \notin {dbFiles[p].set, dbFiles[p].trash, dbFiles[p].secret.since}

Draining == \E r \in Restores : dbRestore[r].pc = "draining"

(* Nobody waits for ever on the two locks: a restore does not drain for    *)
(* ever, also when a context it waits for waits for a context inside it    *)
(* (db.py:397-413).                                                        *)
WaitersGoOn ==
  /\ Draining ~> ~Draining
  /\ \A x \in Workers : dbThread[x].pc = "nested" ~> dbThread[x].pc # "nested"

-----------------------------------------------------------------------------
(* Why it works: what the steps preserve.                                  *)

(* Behind the gate, from the flush on.                                     *)
Replacing(r) ==
  dbRestore[r].pc \in {"flushed", "content", "files", "secured", "cleared", "rolling", "rolled",
                      "restoring"}

(* A thread that remembers an epoch.                                       *)
Pins(x) == dbThread[x].pc \in {"remote", "share", "nested", "inner"}
Keyed(x) == dbThread[x].pc \in {"secret", "loading", "loaded"}

(* The gate is up while a restore drains or replaces; while it replaces,   *)
(* there is no context, no connection, and nothing of this epoch.          *)
GateIsUp ==
  \A r \in Restores :
    /\ dbRestore[r].pc = "draining" \/ Replacing(r) => dbGate = r
    /\ Replacing(r) =>
         /\ \A x \in Threads : /\ ~InContext(x)
                               /\ dbConn[x] = NoOne
                               /\ Pins(x) \/ Keyed(x) => dbThread[x].epoch < dbEpoch
         /\ dbSecret # NoOne => dbSecret.epoch < dbEpoch

(* A connection is of this epoch and of the file that is there.            *)
ConnectionsAreCurrent ==
  \A x \in Threads :
    /\ dbConn[x] # NoOne => dbConn[x].epoch = dbEpoch /\ dbConn[x].file = dbFiles[dbConn[x].at]
    /\ InContext(x) => dbConn[x] # NoOne

(* What was remembered in this epoch still holds.                          *)
EpochsTell ==
  /\ \A x \in Threads :
       /\ Pins(x) \/ Keyed(x) => dbThread[x].epoch <= dbEpoch
       /\ Pins(x) /\ dbThread[x].epoch = dbEpoch => dbThread[x].file = dbFiles[dbThread[x].at]
       /\ Pins(x) /\ InContext(x) =>
            dbThread[x].epoch = dbEpoch /\ dbConn[x].at = dbThread[x].at
       /\ dbThread[x].pc = "loaded" /\ dbThread[x].epoch = dbEpoch =>
            \E p \in Homes : dbThread[x].file.secret = dbFiles[p].secret
  /\ dbSecret # NoOne =>
       /\ dbSecret.epoch <= dbEpoch
       /\ dbSecret.epoch = dbEpoch => \E p \in Homes : dbSecret.secret = dbFiles[p].secret

SwapInv == SwapTypeOK /\ GateIsUp /\ ConnectionsAreCurrent /\ EpochsTell
=============================================================================
