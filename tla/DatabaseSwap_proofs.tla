----------------------- MODULE DatabaseSwap_proofs -----------------------
(***************************************************************************)
(* The types of a hub whose databases are replaced, that nothing made from *)
(* a database outlives it and that what is served is whole, for any number *)
(* of threads, restores, accounts and faults; and that the hub and a       *)
(* shared card keep their types together, as MCShareIntent has them.       *)
(***************************************************************************)
EXTENDS MCShareIntent, ShareIntent_proofs

\* The hub starts with its types.
LEMMA TypeInit == SwapInit => SwapTypeOK
BY SwapAssumption DEF SwapInit, SwapTypeOK, OwnFile, AtRest, Unasked, Homes, Sets, Secret, File,
   Thread, Restore

\* A restore that goes on, and one that has ended, keep their types.
LEMMA MovedType ==
  ASSUME SwapTypeOK, NEW r \in Restores, NEW pc, Moved(r, pc),
         pc \in {"draining", "flushed", "content", "files", "secured", "cleared", "rolling", "rolled",
                "restoring"}
  PROVE  dbRestore' \in [Restores -> Restore]
BY DEF SwapTypeOK, Moved, Restore

LEMMA EndedType ==
  ASSUME SwapTypeOK, NEW r \in Restores, NEW pc, Ended(r, pc),
         pc \in {"refused", "failed", "done", "stuck"}
  PROVE  dbRestore' \in [Restores -> Restore]
BY DEF SwapTypeOK, Ended, Unasked, OwnFile, Restore, File, Secret, Sets, Homes

\* A step on the files keeps the types, if it writes a file.
LEMMA OnFilesType ==
  ASSUME SwapTypeOK, NEW r \in Restores, NEW from, NEW to, NEW file \in File, OnFiles(r, from, to, file),
         to \in {"content", "files", "secured", "rolled", "restoring"}
  PROVE  SwapTypeOK'
<1>1. dbRestore' \in [Restores -> Restore]
  BY MovedType DEF OnFiles
<1>2. dbFiles' \in [Homes -> File]
  BY DEF OnFiles, SwapTypeOK
<1>. QED
  BY <1>1, <1>2 DEF OnFiles, SwapTypeOK, accountVars

\* What a restore has changed is a place.
LEMMA ChangedType == ASSUME SwapTypeOK, NEW r \in Restores PROVE Changed(r) \subseteq Homes
BY DEF Changed, SwapTypeOK, Restore

\* Every step keeps the types.
LEMMA TypeStep ==
  SwapTypeOK /\ ConnectionsAreCurrent /\ [SwapNext]_dbVars => SwapTypeOK'
<1> SUFFICES ASSUME SwapTypeOK, ConnectionsAreCurrent, [SwapNext]_dbVars PROVE SwapTypeOK'
  OBVIOUS
<1>1. ASSUME NEW x \in Servers, ReadPointer(x) PROVE SwapTypeOK'
  <2> DEFINE t == [dbThread[x] EXCEPT !.pc = "reading", !.at = dbPointer]
  <2>1. t \in Thread
    BY <1>1 DEF ReadPointer, SwapTypeOK, Thread, Threads
  <2>2. dbThread' = [dbThread EXCEPT ![x] = t]
    BY <1>1 DEF ReadPointer, SwapTypeOK, Threads, Thread
  <2>3. dbThread' \in [Threads -> Thread]
    BY <2>1, <2>2 DEF SwapTypeOK
  <2>. QED
    BY <1>1, <2>3 DEF ReadPointer, SwapTypeOK, accountVars, restoreVars
<1>2. ASSUME NEW x \in Servers, StorePointer(x) PROVE SwapTypeOK'
  BY <1>2, SwapAssumption DEF StorePointer, AtRest, OwnFile, SwapTypeOK, Homes, Sets, Secret,
     File, Conn, Cached, Thread, Restore, Threads, Restores, accountVars, restoreVars
<1>3. ASSUME NEW x \in Servers, EnterPlain(x) PROVE SwapTypeOK'
  BY <1>3, SwapAssumption DEF EnterPlain, EnterContext, PooledConn, SwapTypeOK, Homes, Sets,
     Secret, File, Conn, Cached, Thread, Restore, Threads, Restores, accountVars,
     restoreVars
<1>4. ASSUME NEW x \in Servers, NEW raised \in BOOLEAN, LeavePlain(x, raised) PROVE SwapTypeOK'
  BY <1>4, SwapAssumption DEF LeavePlain, LeaveContext, AtRest, OwnFile, SwapTypeOK, Homes,
     Sets, Secret, File, Conn, Cached, Thread, Restore, Threads, Restores, accountVars,
     restoreVars
<1>5. ASSUME NEW x \in Servers, MissSecret(x) PROVE SwapTypeOK'
  <2> DEFINE t == [dbThread[x] EXCEPT !.pc = "secret", !.at = dbCache, !.epoch = dbEpoch]
  <2>1. t \in Thread
    BY <1>5 DEF MissSecret, SwapTypeOK, Thread, Threads
  <2>2. dbThread' = [dbThread EXCEPT ![x] = t]
    BY <1>5 DEF MissSecret, SwapTypeOK, Threads, Thread
  <2>3. dbThread' \in [Threads -> Thread]
    BY <2>1, <2>2 DEF SwapTypeOK
  <2>. QED
    BY <1>5, <2>3 DEF MissSecret, SwapTypeOK, accountVars, restoreVars
<1>6. ASSUME NEW x \in Servers, EnterSecret(x) PROVE SwapTypeOK'
  BY <1>6, SwapAssumption DEF EnterSecret, EnterContext, PooledConn, SwapTypeOK, Homes, Sets,
     Secret, File, Conn, Cached, Thread, Restore, Threads, Restores, accountVars,
     restoreVars
<1>7. ASSUME NEW x \in Servers, LoadSecret(x) PROVE SwapTypeOK'
  <2> DEFINE t == [dbThread[x] EXCEPT !.pc = "loaded", !.file = dbFiles[dbConn[x].at]]
  <2>1. t \in Thread
    <3>1. dbConn[x] \in Conn
      BY <1>7 DEF LoadSecret, InContext, ConnectionsAreCurrent, SwapTypeOK, Threads
    <3>2. dbFiles[dbConn[x].at] \in File
      BY <3>1 DEF SwapTypeOK, Conn
    <3>. QED
      BY <1>7, <3>2 DEF SwapTypeOK, Thread, Threads
  <2>2. dbThread' \in [Threads -> Thread] /\ dbConn' = dbConn
    BY <1>7, <2>1 DEF LoadSecret, LeaveContext, SwapTypeOK, Threads
  <2>. QED
    BY <1>7, <2>2 DEF LoadSecret, LeaveContext, SwapTypeOK, accountVars, restoreVars
<1>8. ASSUME NEW x \in Servers, StoreSecret(x) PROVE SwapTypeOK'
  BY <1>8, SwapAssumption DEF StoreSecret, AtRest, OwnFile, SwapTypeOK, Homes, Sets, Secret,
     File, Conn, Cached, Thread, Restore, Threads, Restores, accountVars, restoreVars
<1>9. ASSUME NEW x \in Workers, CaptureOperation(x) PROVE SwapTypeOK'
  BY <1>9, SwapAssumption DEF CaptureOperation, LoadedPointer, SwapTypeOK, Homes, Sets,
     Secret, File, Conn, Cached, Thread, Restore, Threads, Restores, accountVars,
     restoreVars
<1>10. ASSUME NEW x \in Workers, EnterShare(x) PROVE SwapTypeOK'
  BY <1>10, SwapAssumption DEF EnterShare, EnterContext, PooledConn, SwapTypeOK, Homes, Sets,
     Secret, File, Conn, Cached, Thread, Restore, Threads, Restores, accountVars,
     restoreVars
<1>11. ASSUME NEW x \in Workers, WantInner(x) PROVE SwapTypeOK'
  BY <1>11, SwapAssumption DEF WantInner, SwapTypeOK, Homes, Sets, Secret, File, Conn,
     Cached, Thread, Restore, Threads, Restores, accountVars, restoreVars
<1>12. ASSUME NEW x \in Workers, EnterInner(x) PROVE SwapTypeOK'
  BY <1>12, SwapAssumption DEF EnterInner, EnterContext, PooledConn, SwapTypeOK, Homes, Sets,
     Secret, File, Conn, Cached, Thread, Restore, Threads, Restores, accountVars,
     restoreVars
<1>13. ASSUME NEW x \in Workers, LeaveInner(x) PROVE SwapTypeOK'
  <2> DEFINE t == [dbThread[x] EXCEPT !.pc = "share"]
  <2>1. t \in Thread
    BY DEF SwapTypeOK, Thread, Threads
  <2>2. dbThread' \in [Threads -> Thread] /\ dbConn' = dbConn
    BY <1>13, <2>1 DEF LeaveInner, LeaveContext, SwapTypeOK, Threads
  <2>. QED
    BY <1>13, <2>2 DEF LeaveInner, LeaveContext, SwapTypeOK, accountVars, restoreVars
<1>14. ASSUME NEW x \in Workers, NEW raised \in BOOLEAN, LeaveShare(x, raised) PROVE SwapTypeOK'
  BY <1>14, SwapAssumption DEF LeaveShare, LeaveContext, AtRest, OwnFile, SwapTypeOK, Homes,
     Sets, Secret, File, Conn, Cached, Thread, Restore, Threads, Restores, accountVars,
     restoreVars
<1>15. ASSUME NEW x \in Workers, EndOperation(x) PROVE SwapTypeOK'
  BY <1>15, SwapAssumption DEF EndOperation, AtRest, OwnFile, SwapTypeOK, Homes, Sets,
     Secret, File, Conn, Cached, Thread, Restore, Threads, Restores, accountVars,
     restoreVars
<1>16. ASSUME NEW r \in Restores, Admit(r) PROVE SwapTypeOK'
  BY <1>16, SwapAssumption DEF Admit, LoadedPointer, SwapTypeOK, Homes, Sets, Secret, File,
     Conn, Cached, Thread, Restore, Threads, Restores, accountVars, restoreVars
<1>17. ASSUME NEW r \in Restores, TakeGate(r) PROVE SwapTypeOK'
  <2>1. LoadedPointer \in Homes
    BY DEF LoadedPointer, SwapTypeOK
  <2>2. dbRestore' \in [Restores -> Restore]
    BY <1>17, MovedType, EndedType DEF TakeGate
  <2>3. dbLock' \in Homes \cup Restores \cup {NoOne} /\ dbGate' \in Restores \cup {NoOne}
    BY <1>17 DEF TakeGate, SwapTypeOK
  <2>. QED
    BY <1>17, <2>1, <2>2, <2>3 DEF TakeGate, SwapTypeOK
<1>18. ASSUME NEW r \in Restores, Drained(r) PROVE SwapTypeOK'
  <2>1. LoadedPointer \in Homes
    BY DEF LoadedPointer, SwapTypeOK
  <2>2. dbRestore' \in [Restores -> Restore]
    <3>1. CASE TargetIs(dbRestore[r].target)
      <4> DEFINE t == [dbRestore[r] EXCEPT !.pc = "flushed", !.path = LoadedPointer,
                                           !.pointer = dbPointer, !.file = dbFiles[LoadedPointer]]
      <4>1. t \in Restore
        BY <2>1 DEF SwapTypeOK, Restore
      <4>2. dbRestore' = [dbRestore EXCEPT ![r] = t]
        BY <1>18, <3>1 DEF Drained, SwapTypeOK, Restore
      <4>. QED
        BY <4>1, <4>2 DEF SwapTypeOK
    <3>2. CASE ~TargetIs(dbRestore[r].target)
      BY <1>18, <3>2, EndedType DEF Drained
    <3>. QED
      BY <3>1, <3>2
  <2>3. /\ dbLock' \in Homes \cup Restores \cup {NoOne} /\ dbGate' \in Restores \cup {NoOne}
        /\ dbEpoch' \in Nat /\ dbConn' \in [Threads -> Conn \cup {NoOne}]
    BY <1>18 DEF Drained, SwapTypeOK, LetGo, FlushPool
  <2>. QED
    BY <1>18, <2>1, <2>2, <2>3 DEF Drained, SwapTypeOK
<1>19. ASSUME NEW r \in Restores, DrainTimesOut(r) PROVE SwapTypeOK'
  <2>1. dbRestore' \in [Restores -> Restore]
    BY <1>19, EndedType DEF DrainTimesOut
  <2>. QED
    BY <1>19, <2>1, SwapAssumption DEF DrainTimesOut, LetGo, SwapTypeOK, Homes, Restore,
     accountVars, restoreVars
<1>20. ASSUME NEW r \in Restores, ReplaceContent(r) PROVE SwapTypeOK'
  <2> DEFINE f == [dbFiles[dbRestore[r].path] EXCEPT !.set = r]
  <2>1. /\ dbRestore[r].path \in Homes /\ dbRestore[r].file \in File
        /\ dbFiles[dbRestore[r].path] \in File
    BY DEF SwapTypeOK, Restore
  <2>2. f \in File
    BY <2>1 DEF File, Secret, Sets
  <2>. QED
    BY <1>20, <2>2, OnFilesType DEF ReplaceContent
<1>21. ASSUME NEW r \in Restores, ReplaceTrash(r) PROVE SwapTypeOK'
  <2> DEFINE f == [dbFiles[dbRestore[r].path] EXCEPT !.trash = r]
  <2>1. /\ dbRestore[r].path \in Homes /\ dbRestore[r].file \in File
        /\ dbFiles[dbRestore[r].path] \in File
    BY DEF SwapTypeOK, Restore
  <2>2. f \in File
    BY <2>1 DEF File, Secret, Sets
  <2>. QED
    BY <1>21, <2>2, OnFilesType DEF ReplaceTrash
<1>22. ASSUME NEW r \in Restores, Secure(r) PROVE SwapTypeOK'
  <2> DEFINE f == [dbFiles[dbRestore[r].path] EXCEPT !.secret = [of |-> dbRestore[r].path, since |-> r]]
  <2>1. /\ dbRestore[r].path \in Homes /\ dbRestore[r].file \in File
        /\ dbFiles[dbRestore[r].path] \in File
    BY DEF SwapTypeOK, Restore
  <2>2. f \in File
    BY <2>1 DEF File, Secret, Sets
  <2>. QED
    BY <1>22, <2>2, OnFilesType DEF Secure
<1>23. ASSUME NEW r \in Restores, ClearPointer(r) PROVE SwapTypeOK'
  <2>1. dbRestore' \in [Restores -> Restore]
    BY <1>23, MovedType DEF ClearPointer
  <2>. QED
    BY <1>23, <2>1, SwapAssumption DEF ClearPointer, LetGo, SwapTypeOK, Homes, Restore,
     accountVars, restoreVars
<1>24. ASSUME NEW r \in Restores, FinishRestore(r) PROVE SwapTypeOK'
  <2>1. dbRestore' \in [Restores -> Restore]
    BY <1>24, EndedType DEF FinishRestore
  <2>. QED
    BY <1>24, <2>1, SwapAssumption DEF FinishRestore, LetGo, SwapTypeOK, Homes, Restore,
     accountVars, restoreVars
<1>25. ASSUME NEW r \in Restores, RollContent(r) PROVE SwapTypeOK'
  <2> DEFINE f == [dbFiles[dbRestore[r].path] EXCEPT !.set = dbRestore[r].file.set,
                                                   !.secret = dbRestore[r].file.secret]
  <2>1. /\ dbRestore[r].path \in Homes /\ dbRestore[r].file \in File
        /\ dbFiles[dbRestore[r].path] \in File
    BY DEF SwapTypeOK, Restore
  <2>2. f \in File
    BY <2>1 DEF File, Secret, Sets
  <2>. QED
    BY <1>25, <2>2, OnFilesType DEF RollContent
<1>26. ASSUME NEW r \in Restores, RollTrash(r) PROVE SwapTypeOK'
  <2> DEFINE f == [dbFiles[dbRestore[r].path] EXCEPT !.trash = dbRestore[r].file.trash]
  <2>1. /\ dbRestore[r].path \in Homes /\ dbRestore[r].file \in File
        /\ dbFiles[dbRestore[r].path] \in File
    BY DEF SwapTypeOK, Restore
  <2>2. f \in File
    BY <2>1 DEF File, Secret, Sets
  <2>. QED
    BY <1>26, <2>2, OnFilesType DEF RollTrash
<1>27. ASSUME NEW r \in Restores, RollPointer(r) PROVE SwapTypeOK'
  <2>1. dbRestore' \in [Restores -> Restore]
    BY <1>27, EndedType DEF RollPointer
  <2>. QED
    BY <1>27, <2>1, SwapAssumption DEF RollPointer, LetGo, SwapTypeOK, Homes, Restore,
     accountVars, restoreVars
<1>28. ASSUME NEW r \in Restores, Abandon(r) PROVE SwapTypeOK'
  <2>2. dbRestore' \in [Restores -> Restore]
    BY <1>28, EndedType DEF Abandon
  <2>3. dbFaults' \in 0..MaxSwapFaults
    BY <1>28, SwapAssumption DEF Abandon, SwapFault, SwapTypeOK
  <2>. QED
    BY <1>28, <2>2, <2>3 DEF Abandon, LetGo, SwapTypeOK
<1>29. ASSUME NEW r \in Restores, Fail(r) PROVE SwapTypeOK'
  <2>1. dbRestore' \in [Restores -> Restore]
    BY <1>29, MovedType DEF Fail
  <2>. QED
    BY <1>29, <2>1, SwapAssumption DEF Fail, LetGo, FlushPool, SwapFault, SwapTypeOK, Homes,
     Restore, accountVars, restoreVars
<1>30. ASSUME NEW r \in Restores, RollFails(r) PROVE SwapTypeOK'
  <2>1. dbTorn' \subseteq Homes
    BY <1>30, ChangedType DEF RollFails, SwapTypeOK
  <2>2. dbRestore' \in [Restores -> Restore]
    BY <1>30, EndedType DEF RollFails
  <2>3. dbFaults' \in 0..MaxSwapFaults
    BY <1>30, SwapAssumption DEF RollFails, SwapFault, SwapTypeOK
  <2>. QED
    BY <1>30, <2>1, <2>2, <2>3 DEF RollFails, LetGo, SwapTypeOK
<1>31. ASSUME NEW a \in Accounts, BeginLogin(a) PROVE SwapTypeOK'
  BY <1>31, SwapAssumption DEF BeginLogin, SwapTypeOK, Homes, accountVars, restoreVars
<1>32. ASSUME NEW prepared \in BOOLEAN, EndLogin(prepared) PROVE SwapTypeOK'
  BY <1>32, SwapAssumption DEF EndLogin, SwapTypeOK, Homes, accountVars, restoreVars
<1>33. ASSUME NEW removed \in BOOLEAN, Logout(removed) PROVE SwapTypeOK'
  BY <1>33, SwapAssumption DEF Logout, SwapTypeOK, Homes, accountVars, restoreVars
<1>34. ASSUME Stop PROVE SwapTypeOK'
  <2>1. dbRestore' \in [Restores -> Restore]
    <3>1. \A r \in Restores : [Unasked EXCEPT !.pc = "dead", !.target = dbRestore[r].target] \in Restore
      BY DEF SwapTypeOK, Unasked, OwnFile, Restore, File, Secret, Sets, Homes
    <3>. QED
      BY <1>34, <3>1 DEF Stop, SwapTypeOK
  <2>2. dbTorn' \subseteq Homes
    BY <1>34, ChangedType DEF Stop, SwapTypeOK
  <2>3. dbThread' \in [Threads -> Thread]
    BY <1>34 DEF Stop, AtRest, OwnFile, Thread, File, Secret, Sets, Homes
  <2>4. dbFaults' \in 0..MaxSwapFaults
    <3>1. SwapFault
      BY <1>34 DEF Stop
    <3>. QED
      BY <3>1, SwapAssumption DEF SwapFault, SwapTypeOK
  <2>. QED
    BY <1>34, <2>1, <2>2, <2>3, <2>4 DEF Stop, LetGo, SwapTypeOK
<1>35. CASE UNCHANGED dbVars
  BY <1>35 DEF dbVars, SwapTypeOK, Homes, Sets, Secret, File, Conn, Cached, Thread, Restore,
     Threads, Restores, accountVars, restoreVars
<1>. QED
  BY <1>1, <1>2, <1>3, <1>4, <1>5, <1>6, <1>7, <1>8, <1>9, <1>10, <1>11, <1>12, <1>13, <1>14,
     <1>15, <1>16, <1>17, <1>18, <1>19, <1>20, <1>21, <1>22, <1>23, <1>24, <1>25, <1>26,
     <1>27, <1>28, <1>29, <1>30, <1>31, <1>32, <1>33, <1>34, <1>35
     DEF SwapNext, ServerStep, WorkerStep, RestoreStep, AccountStep

-----------------------------------------------------------------------------
\* What the steps have to keep beside the types.
SwapLater == GateIsUp' /\ ConnectionsAreCurrent' /\ EpochsTell'

LEMMA LaterStep == SwapInv /\ [SwapNext]_dbVars => SwapLater
<1> SUFFICES ASSUME SwapTypeOK, GateIsUp, ConnectionsAreCurrent, EpochsTell, [SwapNext]_dbVars
             PROVE  SwapLater
  BY DEF SwapInv
<1>1. ASSUME NEW x \in Servers, ReadPointer(x) PROVE SwapLater
  <2>1. GateIsUp'
    BY <1>1, SwapAssumption DEF GateIsUp, Replacing, Pins, Keyed, InContext, ReadPointer,
     SwapTypeOK, Threads, Thread, Restore, Conn, accountVars, restoreVars,
     ConnectionsAreCurrent, EpochsTell
  <2>2. ConnectionsAreCurrent'
    BY <1>1, SwapAssumption DEF ConnectionsAreCurrent, InContext, ReadPointer, SwapTypeOK,
     Threads, Thread, Restore, Conn, accountVars, restoreVars, GateIsUp, Replacing, Pins,
     Keyed
  <2>3. EpochsTell'
    BY <1>1, SwapAssumption DEF EpochsTell, Pins, Keyed, InContext, ReadPointer,
     SwapTypeOK, Threads, Thread, Restore, Conn, accountVars, restoreVars,
     ConnectionsAreCurrent, GateIsUp, Replacing
  <2>. QED
    BY <2>1, <2>2, <2>3 DEF SwapLater
<1>2. ASSUME NEW x \in Servers, StorePointer(x) PROVE SwapLater
  <2>1. GateIsUp'
    BY <1>2, SwapAssumption DEF GateIsUp, Replacing, Pins, Keyed, InContext, StorePointer,
     AtRest, OwnFile, SwapTypeOK, Threads, Thread, Restore, Conn, accountVars, restoreVars,
     ConnectionsAreCurrent, EpochsTell
  <2>2. ConnectionsAreCurrent'
    BY <1>2, SwapAssumption DEF ConnectionsAreCurrent, InContext, StorePointer, AtRest,
     OwnFile, SwapTypeOK, Threads, Thread, Restore, Conn, accountVars, restoreVars, GateIsUp,
     Replacing, Pins, Keyed
  <2>3. EpochsTell'
    BY <1>2, SwapAssumption DEF EpochsTell, Pins, Keyed, InContext, StorePointer, AtRest,
     OwnFile, SwapTypeOK, Threads, Thread, Restore, Conn, accountVars, restoreVars,
     ConnectionsAreCurrent, GateIsUp, Replacing
  <2>. QED
    BY <2>1, <2>2, <2>3 DEF SwapLater
<1>3. ASSUME NEW x \in Servers, EnterPlain(x) PROVE SwapLater
  <2>1. GateIsUp'
    BY <1>3, SwapAssumption DEF GateIsUp, Replacing, Pins, Keyed, InContext, EnterPlain,
     EnterContext, PooledConn, SwapTypeOK, Threads, Thread, Restore, Conn, accountVars,
     restoreVars, ConnectionsAreCurrent, EpochsTell
  <2>2. ConnectionsAreCurrent'
    BY <1>3, SwapAssumption DEF ConnectionsAreCurrent, InContext, EnterPlain, EnterContext,
     PooledConn, SwapTypeOK, Threads, Thread, Restore, Conn, accountVars, restoreVars,
     GateIsUp, Replacing, Pins, Keyed
  <2>3. EpochsTell'
    BY <1>3, SwapAssumption DEF EpochsTell, Pins, Keyed, InContext, EnterPlain,
     EnterContext, PooledConn, SwapTypeOK, Threads, Thread, Restore, Conn, accountVars,
     restoreVars, ConnectionsAreCurrent, GateIsUp, Replacing
  <2>. QED
    BY <2>1, <2>2, <2>3 DEF SwapLater
<1>4. ASSUME NEW x \in Servers, NEW raised \in BOOLEAN, LeavePlain(x, raised) PROVE SwapLater
  <2>1. GateIsUp'
    BY <1>4, SwapAssumption DEF GateIsUp, Replacing, Pins, Keyed, InContext, LeavePlain,
     LeaveContext, AtRest, OwnFile, SwapTypeOK, Threads, Thread, Restore, Conn, accountVars,
     restoreVars, ConnectionsAreCurrent, EpochsTell
  <2>2. ConnectionsAreCurrent'
    BY <1>4, SwapAssumption DEF ConnectionsAreCurrent, InContext, LeavePlain, LeaveContext,
     AtRest, OwnFile, SwapTypeOK, Threads, Thread, Restore, Conn, accountVars, restoreVars,
     GateIsUp, Replacing, Pins, Keyed
  <2>3. EpochsTell'
    BY <1>4, SwapAssumption DEF EpochsTell, Pins, Keyed, InContext, LeavePlain,
     LeaveContext, AtRest, OwnFile, SwapTypeOK, Threads, Thread, Restore, Conn, accountVars,
     restoreVars, ConnectionsAreCurrent, GateIsUp, Replacing
  <2>. QED
    BY <2>1, <2>2, <2>3 DEF SwapLater
<1>5. ASSUME NEW x \in Servers, MissSecret(x) PROVE SwapLater
  <2>1. GateIsUp'
    BY <1>5, SwapAssumption DEF GateIsUp, Replacing, Pins, Keyed, InContext, MissSecret,
     SwapTypeOK, Threads, Thread, Restore, Conn, accountVars, restoreVars,
     ConnectionsAreCurrent, EpochsTell
  <2>2. ConnectionsAreCurrent'
    BY <1>5, SwapAssumption DEF ConnectionsAreCurrent, InContext, MissSecret, SwapTypeOK,
     Threads, Thread, Restore, Conn, accountVars, restoreVars, GateIsUp, Replacing, Pins,
     Keyed
  <2>3. EpochsTell'
    BY <1>5, SwapAssumption DEF EpochsTell, Pins, Keyed, InContext, MissSecret, SwapTypeOK,
     Threads, Thread, Restore, Conn, accountVars, restoreVars, ConnectionsAreCurrent,
     GateIsUp, Replacing
  <2>. QED
    BY <2>1, <2>2, <2>3 DEF SwapLater
<1>6. ASSUME NEW x \in Servers, EnterSecret(x) PROVE SwapLater
  <2>1. GateIsUp'
    BY <1>6, SwapAssumption DEF GateIsUp, Replacing, Pins, Keyed, InContext, EnterSecret,
     EnterContext, PooledConn, SwapTypeOK, Threads, Thread, Restore, Conn, accountVars,
     restoreVars, ConnectionsAreCurrent, EpochsTell
  <2>2. ConnectionsAreCurrent'
    BY <1>6, SwapAssumption DEF ConnectionsAreCurrent, InContext, EnterSecret, EnterContext,
     PooledConn, SwapTypeOK, Threads, Thread, Restore, Conn, accountVars, restoreVars,
     GateIsUp, Replacing, Pins, Keyed
  <2>3. EpochsTell'
    BY <1>6, SwapAssumption DEF EpochsTell, Pins, Keyed, InContext, EnterSecret,
     EnterContext, PooledConn, SwapTypeOK, Threads, Thread, Restore, Conn, accountVars,
     restoreVars, ConnectionsAreCurrent, GateIsUp, Replacing
  <2>. QED
    BY <2>1, <2>2, <2>3 DEF SwapLater
<1>7. ASSUME NEW x \in Servers, LoadSecret(x) PROVE SwapLater
  <2>1. GateIsUp'
    BY <1>7, SwapAssumption DEF GateIsUp, Replacing, Pins, Keyed, InContext, LoadSecret,
     LeaveContext, SwapTypeOK, Threads, Thread, Restore, Conn, accountVars, restoreVars,
     ConnectionsAreCurrent, EpochsTell
  <2>2. ConnectionsAreCurrent'
    BY <1>7, SwapAssumption DEF ConnectionsAreCurrent, InContext, LoadSecret, LeaveContext,
     SwapTypeOK, Threads, Thread, Restore, Conn, accountVars, restoreVars, GateIsUp,
     Replacing, Pins, Keyed
  <2>3. EpochsTell'
    BY <1>7, SwapAssumption DEF EpochsTell, Pins, Keyed, InContext, LoadSecret,
     LeaveContext, SwapTypeOK, Threads, Thread, Restore, Conn, accountVars, restoreVars,
     ConnectionsAreCurrent, GateIsUp, Replacing
  <2>. QED
    BY <2>1, <2>2, <2>3 DEF SwapLater
<1>8. ASSUME NEW x \in Servers, StoreSecret(x) PROVE SwapLater
  <2>1. GateIsUp'
    BY <1>8, SwapAssumption DEF GateIsUp, Replacing, Pins, Keyed, InContext, StoreSecret,
     AtRest, OwnFile, SwapTypeOK, Threads, Thread, Restore, Conn, accountVars, restoreVars,
     ConnectionsAreCurrent, EpochsTell
  <2>2. ConnectionsAreCurrent'
    BY <1>8, SwapAssumption DEF ConnectionsAreCurrent, InContext, StoreSecret, AtRest,
     OwnFile, SwapTypeOK, Threads, Thread, Restore, Conn, accountVars, restoreVars, GateIsUp,
     Replacing, Pins, Keyed
  <2>3. EpochsTell'
    BY <1>8, SwapAssumption DEF EpochsTell, Pins, Keyed, InContext, StoreSecret, AtRest,
     OwnFile, SwapTypeOK, Threads, Thread, Restore, Conn, accountVars, restoreVars,
     ConnectionsAreCurrent, GateIsUp, Replacing
  <2>. QED
    BY <2>1, <2>2, <2>3 DEF SwapLater
<1>9. ASSUME NEW x \in Workers, CaptureOperation(x) PROVE SwapLater
  <2>1. GateIsUp'
    BY <1>9, SwapAssumption DEF GateIsUp, Replacing, Pins, Keyed, InContext,
     CaptureOperation, LoadedPointer, SwapTypeOK, Threads, Thread, Restore, Conn,
     accountVars, restoreVars, ConnectionsAreCurrent, EpochsTell
  <2>2. ConnectionsAreCurrent'
    BY <1>9, SwapAssumption DEF ConnectionsAreCurrent, InContext, CaptureOperation,
     LoadedPointer, SwapTypeOK, Threads, Thread, Restore, Conn, accountVars, restoreVars,
     GateIsUp, Replacing, Pins, Keyed
  <2>3. EpochsTell'
    BY <1>9, SwapAssumption DEF EpochsTell, Pins, Keyed, InContext, CaptureOperation,
     LoadedPointer, SwapTypeOK, Threads, Thread, Restore, Conn, accountVars, restoreVars,
     ConnectionsAreCurrent, GateIsUp, Replacing
  <2>. QED
    BY <2>1, <2>2, <2>3 DEF SwapLater
<1>10. ASSUME NEW x \in Workers, EnterShare(x) PROVE SwapLater
  <2>1. GateIsUp'
    BY <1>10, SwapAssumption DEF GateIsUp, Replacing, Pins, Keyed, InContext, EnterShare,
     EnterContext, PooledConn, SwapTypeOK, Threads, Thread, Restore, Conn, accountVars,
     restoreVars, ConnectionsAreCurrent, EpochsTell
  <2>2. ConnectionsAreCurrent'
    BY <1>10, SwapAssumption DEF ConnectionsAreCurrent, InContext, EnterShare, EnterContext,
     PooledConn, SwapTypeOK, Threads, Thread, Restore, Conn, accountVars, restoreVars,
     GateIsUp, Replacing, Pins, Keyed
  <2>3. EpochsTell'
    <3>1. /\ dbThread[x].epoch = dbEpoch /\ dbGate = NoOne
          /\ dbThread' = [dbThread EXCEPT ![x].pc = "share"]
          /\ dbConn'[x].at = dbThread[x].at
          /\ \A y \in Threads \ {x} : dbConn'[y] = dbConn[y]
          /\ UNCHANGED <<dbFiles, dbEpoch, dbSecret>>
      BY <1>10 DEF EnterShare, EnterContext, SameEpoch, PooledConn, SwapTypeOK, Threads
    <3>2. \A y \in Threads : /\ dbThread'[y].epoch = dbThread[y].epoch
                            /\ dbThread'[y].at = dbThread[y].at
                            /\ dbThread'[y].file = dbThread[y].file
                            /\ y # x => dbThread'[y] = dbThread[y]
      BY <3>1 DEF SwapTypeOK, Thread
    <3>3. dbThread[x].pc = "remote" /\ dbThread'[x].pc = "share"
      BY <1>10, <3>1 DEF EnterShare, SwapTypeOK, Threads, Thread
    <3>. QED
      BY <3>1, <3>2, <3>3 DEF EpochsTell, Pins, Keyed, InContext, Threads
  <2>. QED
    BY <2>1, <2>2, <2>3 DEF SwapLater
<1>11. ASSUME NEW x \in Workers, WantInner(x) PROVE SwapLater
  <2>1. GateIsUp'
    BY <1>11, SwapAssumption DEF GateIsUp, Replacing, Pins, Keyed, InContext, WantInner,
     SwapTypeOK, Threads, Thread, Restore, Conn, accountVars, restoreVars,
     ConnectionsAreCurrent, EpochsTell
  <2>2. ConnectionsAreCurrent'
    BY <1>11, SwapAssumption DEF ConnectionsAreCurrent, InContext, WantInner, SwapTypeOK,
     Threads, Thread, Restore, Conn, accountVars, restoreVars, GateIsUp, Replacing, Pins,
     Keyed
  <2>3. EpochsTell'
    BY <1>11, SwapAssumption DEF EpochsTell, Pins, Keyed, InContext, WantInner, SwapTypeOK,
     Threads, Thread, Restore, Conn, accountVars, restoreVars, ConnectionsAreCurrent,
     GateIsUp, Replacing
  <2>. QED
    BY <2>1, <2>2, <2>3 DEF SwapLater
<1>12. ASSUME NEW x \in Workers, EnterInner(x) PROVE SwapLater
  <2>1. GateIsUp'
    BY <1>12, SwapAssumption DEF GateIsUp, Replacing, Pins, Keyed, InContext, EnterInner,
     EnterContext, PooledConn, SwapTypeOK, Threads, Thread, Restore, Conn, accountVars,
     restoreVars, ConnectionsAreCurrent, EpochsTell
  <2>2. ConnectionsAreCurrent'
    BY <1>12, SwapAssumption DEF ConnectionsAreCurrent, InContext, EnterInner, EnterContext,
     PooledConn, SwapTypeOK, Threads, Thread, Restore, Conn, accountVars, restoreVars,
     GateIsUp, Replacing, Pins, Keyed
  <2>3. EpochsTell'
    BY <1>12, SwapAssumption DEF EpochsTell, Pins, Keyed, InContext, EnterInner,
     EnterContext, PooledConn, SwapTypeOK, Threads, Thread, Restore, Conn, accountVars,
     restoreVars, ConnectionsAreCurrent, GateIsUp, Replacing
  <2>. QED
    BY <2>1, <2>2, <2>3 DEF SwapLater
<1>13. ASSUME NEW x \in Workers, LeaveInner(x) PROVE SwapLater
  <2>1. GateIsUp'
    BY <1>13, SwapAssumption DEF GateIsUp, Replacing, Pins, Keyed, InContext, LeaveInner,
     LeaveContext, SwapTypeOK, Threads, Thread, Restore, Conn, accountVars, restoreVars,
     ConnectionsAreCurrent, EpochsTell
  <2>2. ConnectionsAreCurrent'
    BY <1>13, SwapAssumption DEF ConnectionsAreCurrent, InContext, LeaveInner, LeaveContext,
     SwapTypeOK, Threads, Thread, Restore, Conn, accountVars, restoreVars, GateIsUp,
     Replacing, Pins, Keyed
  <2>3. EpochsTell'
    BY <1>13, SwapAssumption DEF EpochsTell, Pins, Keyed, InContext, LeaveInner,
     LeaveContext, SwapTypeOK, Threads, Thread, Restore, Conn, accountVars, restoreVars,
     ConnectionsAreCurrent, GateIsUp, Replacing
  <2>. QED
    BY <2>1, <2>2, <2>3 DEF SwapLater
<1>14. ASSUME NEW x \in Workers, NEW raised \in BOOLEAN, LeaveShare(x, raised) PROVE SwapLater
  <2>1. GateIsUp'
    BY <1>14, SwapAssumption DEF GateIsUp, Replacing, Pins, Keyed, InContext, LeaveShare,
     LeaveContext, AtRest, OwnFile, SwapTypeOK, Threads, Thread, Restore, Conn, accountVars,
     restoreVars, ConnectionsAreCurrent, EpochsTell
  <2>2. ConnectionsAreCurrent'
    BY <1>14, SwapAssumption DEF ConnectionsAreCurrent, InContext, LeaveShare, LeaveContext,
     AtRest, OwnFile, SwapTypeOK, Threads, Thread, Restore, Conn, accountVars, restoreVars,
     GateIsUp, Replacing, Pins, Keyed
  <2>3. EpochsTell'
    BY <1>14, SwapAssumption DEF EpochsTell, Pins, Keyed, InContext, LeaveShare,
     LeaveContext, AtRest, OwnFile, SwapTypeOK, Threads, Thread, Restore, Conn, accountVars,
     restoreVars, ConnectionsAreCurrent, GateIsUp, Replacing
  <2>. QED
    BY <2>1, <2>2, <2>3 DEF SwapLater
<1>15. ASSUME NEW x \in Workers, EndOperation(x) PROVE SwapLater
  <2>1. GateIsUp'
    BY <1>15, SwapAssumption DEF GateIsUp, Replacing, Pins, Keyed, InContext, EndOperation,
     AtRest, OwnFile, SwapTypeOK, Threads, Thread, Restore, Conn, accountVars, restoreVars,
     ConnectionsAreCurrent, EpochsTell
  <2>2. ConnectionsAreCurrent'
    BY <1>15, SwapAssumption DEF ConnectionsAreCurrent, InContext, EndOperation, AtRest,
     OwnFile, SwapTypeOK, Threads, Thread, Restore, Conn, accountVars, restoreVars, GateIsUp,
     Replacing, Pins, Keyed
  <2>3. EpochsTell'
    BY <1>15, SwapAssumption DEF EpochsTell, Pins, Keyed, InContext, EndOperation, AtRest,
     OwnFile, SwapTypeOK, Threads, Thread, Restore, Conn, accountVars, restoreVars,
     ConnectionsAreCurrent, GateIsUp, Replacing
  <2>. QED
    BY <2>1, <2>2, <2>3 DEF SwapLater
<1>16. ASSUME NEW r \in Restores, Admit(r) PROVE SwapLater
  <2>1. GateIsUp'
    BY <1>16, SwapAssumption DEF GateIsUp, Replacing, Pins, Keyed, InContext, Admit,
     LoadedPointer, SwapTypeOK, Threads, Thread, Restore, Conn, accountVars, restoreVars,
     ConnectionsAreCurrent, EpochsTell
  <2>2. ConnectionsAreCurrent'
    BY <1>16, SwapAssumption DEF ConnectionsAreCurrent, InContext, Admit, LoadedPointer,
     SwapTypeOK, Threads, Thread, Restore, Conn, accountVars, restoreVars, GateIsUp,
     Replacing, Pins, Keyed
  <2>3. EpochsTell'
    BY <1>16, SwapAssumption DEF EpochsTell, Pins, Keyed, InContext, Admit, LoadedPointer,
     SwapTypeOK, Threads, Thread, Restore, Conn, accountVars, restoreVars,
     ConnectionsAreCurrent, GateIsUp, Replacing
  <2>. QED
    BY <2>1, <2>2, <2>3 DEF SwapLater
<1>17. ASSUME NEW r \in Restores, TakeGate(r) PROVE SwapLater
  <2>1. GateIsUp'
    <3>1. \A q \in Restores : ~(dbRestore[q].pc = "draining" \/ Replacing(q))
      BY <1>17, SwapAssumption DEF TakeGate, GateIsUp
    <3>2. CASE TargetIs(dbRestore[r].target)
      <4>1. dbGate' = r /\ dbRestore' = [dbRestore EXCEPT ![r].pc = "draining"]
        BY <1>17, <3>2 DEF TakeGate, Moved
      <4>2. \A q \in Restores : ~Replacing(q)' /\ (q # r => dbRestore'[q].pc # "draining")
        BY <3>1, <4>1 DEF SwapTypeOK, Replacing, Restore
      <4>. QED
        BY <4>1, <4>2 DEF GateIsUp
    <3>3. CASE ~TargetIs(dbRestore[r].target)
      <4>1. Ended(r, "refused")
        BY <1>17, <3>3 DEF TakeGate
      <4>2. \A q \in Restores : ~(dbRestore[q].pc = "draining" \/ Replacing(q))'
        BY <3>1, <4>1 DEF SwapTypeOK, Replacing, Restore, Ended, Unasked
      <4>. QED
        BY <4>2 DEF GateIsUp
    <3>. QED
      BY <3>2, <3>3
  <2>2. ConnectionsAreCurrent'
    BY <1>17, SwapAssumption DEF ConnectionsAreCurrent, InContext, TakeGate, LoadedPointer,
     Moved, Ended, LetGo, Unasked, OwnFile, SwapTypeOK, Threads, Thread, Restore, Conn,
     accountVars, restoreVars, GateIsUp, Replacing, Pins, Keyed
  <2>3. EpochsTell'
    BY <1>17, SwapAssumption DEF EpochsTell, Pins, Keyed, InContext, TakeGate,
     LoadedPointer, Moved, Ended, LetGo, Unasked, OwnFile, SwapTypeOK, Threads, Thread,
     Restore, Conn, accountVars, restoreVars, ConnectionsAreCurrent, GateIsUp, Replacing
  <2>. QED
    BY <2>1, <2>2, <2>3 DEF SwapLater
<1>18. ASSUME NEW r \in Restores, Drained(r) PROVE SwapLater
  <2>1. GateIsUp'
    <3>1. dbGate = r /\ \A q \in Restores \ {r} : ~(dbRestore[q].pc = "draining" \/ Replacing(q))
      BY <1>18 DEF Drained, GateIsUp
    <3>2. CASE TargetIs(dbRestore[r].target)
      <4>1. /\ dbRestore'[r].pc = "flushed"
            /\ \A q \in Restores \ {r} : dbRestore'[q] = dbRestore[q]
        BY <1>18, <3>2 DEF Drained, SwapTypeOK, Restore
      <4>2. dbEpoch' = dbEpoch + 1 /\ dbConn' = [x \in Threads |-> NoOne]
        BY <1>18, <3>2 DEF Drained, FlushPool
      <4>3. /\ dbGate' = dbGate /\ dbThread' = dbThread /\ dbSecret' = dbSecret
            /\ \A x \in Threads : ~InContext(x)
        BY <1>18, <3>2 DEF Drained
      <4>4. \A x \in Threads : Pins(x) \/ Keyed(x) => dbThread[x].epoch < dbEpoch'
        BY <4>2 DEF EpochsTell, SwapTypeOK, Thread
      <4>5. dbSecret # NoOne => dbSecret.epoch < dbEpoch'
        BY <4>2 DEF EpochsTell, SwapTypeOK, Cached
      <4>6. \A q \in Restores \ {r} : ~(dbRestore'[q].pc = "draining" \/ Replacing(q)')
        BY <3>1, <4>1 DEF Replacing
      <4>. QED
        BY <3>1, <4>2, <4>3, <4>4, <4>5, <4>6 DEF GateIsUp, InContext, Pins, Keyed
    <3>3. CASE ~TargetIs(dbRestore[r].target)
      <4>1. Ended(r, "refused")
        BY <1>18, <3>3 DEF Drained
      <4>2. \A q \in Restores : ~(dbRestore[q].pc = "draining" \/ Replacing(q))'
        BY <3>1, <4>1 DEF SwapTypeOK, Replacing, Restore, Ended, Unasked
      <4>. QED
        BY <4>2 DEF GateIsUp
    <3>. QED
      BY <3>2, <3>3
  <2>2. ConnectionsAreCurrent'
    BY <1>18, SwapAssumption DEF ConnectionsAreCurrent, InContext, Drained, LoadedPointer,
     Moved, Ended, LetGo, Unasked, OwnFile, FlushPool, SwapTypeOK, Threads, Thread, Restore,
     Conn, accountVars, restoreVars, GateIsUp, Replacing, Pins, Keyed
  <2>3. EpochsTell'
    <3>1. CASE TargetIs(dbRestore[r].target)
      <4>1. /\ dbEpoch' = dbEpoch + 1 /\ dbFiles' = dbFiles /\ dbThread' = dbThread
            /\ dbSecret' = dbSecret /\ \A x \in Threads : ~InContext(x)
        BY <1>18, <3>1 DEF Drained, FlushPool
      <4>2. \A x \in Threads : Pins(x) \/ Keyed(x) => dbThread[x].epoch < dbEpoch'
        BY <4>1 DEF EpochsTell, SwapTypeOK, Thread
      <4>3. dbSecret # NoOne => dbSecret.epoch < dbEpoch'
        BY <4>1 DEF EpochsTell, SwapTypeOK, Cached
      <4>. QED
        BY <4>1, <4>2, <4>3 DEF EpochsTell, InContext, Pins, Keyed, SwapTypeOK, Thread, Cached
    <3>2. CASE ~TargetIs(dbRestore[r].target)
      BY <1>18, <3>2 DEF Drained, EpochsTell, InContext, Pins, Keyed
    <3>. QED
      BY <3>1, <3>2
  <2>. QED
    BY <2>1, <2>2, <2>3 DEF SwapLater
<1>19. ASSUME NEW r \in Restores, DrainTimesOut(r) PROVE SwapLater
  <2>1. GateIsUp'
    BY <1>19, SwapAssumption DEF GateIsUp, Replacing, Pins, Keyed, InContext,
     DrainTimesOut, Moved, Ended, LetGo, Unasked, OwnFile, SwapTypeOK, Threads, Thread,
     Restore, Conn, accountVars, restoreVars, ConnectionsAreCurrent, EpochsTell
  <2>2. ConnectionsAreCurrent'
    BY <1>19, SwapAssumption DEF ConnectionsAreCurrent, InContext, DrainTimesOut, Moved,
     Ended, LetGo, Unasked, OwnFile, SwapTypeOK, Threads, Thread, Restore, Conn, accountVars,
     restoreVars, GateIsUp, Replacing, Pins, Keyed
  <2>3. EpochsTell'
    BY <1>19, SwapAssumption DEF EpochsTell, Pins, Keyed, InContext, DrainTimesOut, Moved,
     Ended, LetGo, Unasked, OwnFile, SwapTypeOK, Threads, Thread, Restore, Conn, accountVars,
     restoreVars, ConnectionsAreCurrent, GateIsUp, Replacing
  <2>. QED
    BY <2>1, <2>2, <2>3 DEF SwapLater
<1>20. ASSUME NEW r \in Restores, ReplaceContent(r) PROVE SwapLater
  <2>1. GateIsUp'
    BY <1>20, SwapAssumption DEF GateIsUp, Replacing, Pins, Keyed, InContext,
     ReplaceContent, OnFiles, Moved, SwapTypeOK, Threads, Thread, Restore, Conn, accountVars,
     restoreVars, ConnectionsAreCurrent, EpochsTell
  <2>2. ConnectionsAreCurrent'
    BY <1>20, SwapAssumption DEF ConnectionsAreCurrent, InContext, ReplaceContent, OnFiles,
     Moved, SwapTypeOK, Threads, Thread, Restore, Conn, accountVars, restoreVars, GateIsUp,
     Replacing, Pins, Keyed
  <2>3. EpochsTell'
    BY <1>20, SwapAssumption DEF EpochsTell, Pins, Keyed, InContext, ReplaceContent,
     OnFiles, Moved, SwapTypeOK, Threads, Thread, Restore, Conn, accountVars, restoreVars,
     ConnectionsAreCurrent, GateIsUp, Replacing
  <2>. QED
    BY <2>1, <2>2, <2>3 DEF SwapLater
<1>21. ASSUME NEW r \in Restores, ReplaceTrash(r) PROVE SwapLater
  <2>1. GateIsUp'
    BY <1>21, SwapAssumption DEF GateIsUp, Replacing, Pins, Keyed, InContext, ReplaceTrash,
     OnFiles, Moved, SwapTypeOK, Threads, Thread, Restore, Conn, accountVars, restoreVars,
     ConnectionsAreCurrent, EpochsTell
  <2>2. ConnectionsAreCurrent'
    BY <1>21, SwapAssumption DEF ConnectionsAreCurrent, InContext, ReplaceTrash, OnFiles,
     Moved, SwapTypeOK, Threads, Thread, Restore, Conn, accountVars, restoreVars, GateIsUp,
     Replacing, Pins, Keyed
  <2>3. EpochsTell'
    BY <1>21, SwapAssumption DEF EpochsTell, Pins, Keyed, InContext, ReplaceTrash, OnFiles,
     Moved, SwapTypeOK, Threads, Thread, Restore, Conn, accountVars, restoreVars,
     ConnectionsAreCurrent, GateIsUp, Replacing
  <2>. QED
    BY <2>1, <2>2, <2>3 DEF SwapLater
<1>22. ASSUME NEW r \in Restores, Secure(r) PROVE SwapLater
  <2>1. GateIsUp'
    BY <1>22, SwapAssumption DEF GateIsUp, Replacing, Pins, Keyed, InContext, Secure,
     OnFiles, Moved, SwapTypeOK, Threads, Thread, Restore, Conn, accountVars, restoreVars,
     ConnectionsAreCurrent, EpochsTell
  <2>2. ConnectionsAreCurrent'
    BY <1>22, SwapAssumption DEF ConnectionsAreCurrent, InContext, Secure, OnFiles, Moved,
     SwapTypeOK, Threads, Thread, Restore, Conn, accountVars, restoreVars, GateIsUp,
     Replacing, Pins, Keyed
  <2>3. EpochsTell'
    BY <1>22, SwapAssumption DEF EpochsTell, Pins, Keyed, InContext, Secure, OnFiles,
     Moved, SwapTypeOK, Threads, Thread, Restore, Conn, accountVars, restoreVars,
     ConnectionsAreCurrent, GateIsUp, Replacing
  <2>. QED
    BY <2>1, <2>2, <2>3 DEF SwapLater
<1>23. ASSUME NEW r \in Restores, ClearPointer(r) PROVE SwapLater
  <2>1. GateIsUp'
    BY <1>23, SwapAssumption DEF GateIsUp, Replacing, Pins, Keyed, InContext, ClearPointer,
     Moved, Ended, LetGo, Unasked, OwnFile, SwapTypeOK, Threads, Thread, Restore, Conn,
     accountVars, restoreVars, ConnectionsAreCurrent, EpochsTell
  <2>2. ConnectionsAreCurrent'
    BY <1>23, SwapAssumption DEF ConnectionsAreCurrent, InContext, ClearPointer, Moved,
     Ended, LetGo, Unasked, OwnFile, SwapTypeOK, Threads, Thread, Restore, Conn, accountVars,
     restoreVars, GateIsUp, Replacing, Pins, Keyed
  <2>3. EpochsTell'
    BY <1>23, SwapAssumption DEF EpochsTell, Pins, Keyed, InContext, ClearPointer, Moved,
     Ended, LetGo, Unasked, OwnFile, SwapTypeOK, Threads, Thread, Restore, Conn, accountVars,
     restoreVars, ConnectionsAreCurrent, GateIsUp, Replacing
  <2>. QED
    BY <2>1, <2>2, <2>3 DEF SwapLater
<1>24. ASSUME NEW r \in Restores, FinishRestore(r) PROVE SwapLater
  <2>1. GateIsUp'
    BY <1>24, SwapAssumption DEF GateIsUp, Replacing, Pins, Keyed, InContext,
     FinishRestore, Moved, Ended, LetGo, Unasked, OwnFile, SwapTypeOK, Threads, Thread,
     Restore, Conn, accountVars, restoreVars, ConnectionsAreCurrent, EpochsTell
  <2>2. ConnectionsAreCurrent'
    BY <1>24, SwapAssumption DEF ConnectionsAreCurrent, InContext, FinishRestore, Moved,
     Ended, LetGo, Unasked, OwnFile, SwapTypeOK, Threads, Thread, Restore, Conn, accountVars,
     restoreVars, GateIsUp, Replacing, Pins, Keyed
  <2>3. EpochsTell'
    BY <1>24, SwapAssumption DEF EpochsTell, Pins, Keyed, InContext, FinishRestore, Moved,
     Ended, LetGo, Unasked, OwnFile, SwapTypeOK, Threads, Thread, Restore, Conn, accountVars,
     restoreVars, ConnectionsAreCurrent, GateIsUp, Replacing
  <2>. QED
    BY <2>1, <2>2, <2>3 DEF SwapLater
<1>25. ASSUME NEW r \in Restores, RollContent(r) PROVE SwapLater
  <2>1. GateIsUp'
    BY <1>25, SwapAssumption DEF GateIsUp, Replacing, Pins, Keyed, InContext, RollContent,
     OnFiles, Moved, SwapTypeOK, Threads, Thread, Restore, Conn, accountVars, restoreVars,
     ConnectionsAreCurrent, EpochsTell
  <2>2. ConnectionsAreCurrent'
    BY <1>25, SwapAssumption DEF ConnectionsAreCurrent, InContext, RollContent, OnFiles,
     Moved, SwapTypeOK, Threads, Thread, Restore, Conn, accountVars, restoreVars, GateIsUp,
     Replacing, Pins, Keyed
  <2>3. EpochsTell'
    BY <1>25, SwapAssumption DEF EpochsTell, Pins, Keyed, InContext, RollContent, OnFiles,
     Moved, SwapTypeOK, Threads, Thread, Restore, Conn, accountVars, restoreVars,
     ConnectionsAreCurrent, GateIsUp, Replacing
  <2>. QED
    BY <2>1, <2>2, <2>3 DEF SwapLater
<1>26. ASSUME NEW r \in Restores, RollTrash(r) PROVE SwapLater
  <2>1. GateIsUp'
    BY <1>26, SwapAssumption DEF GateIsUp, Replacing, Pins, Keyed, InContext, RollTrash,
     OnFiles, Moved, SwapTypeOK, Threads, Thread, Restore, Conn, accountVars, restoreVars,
     ConnectionsAreCurrent, EpochsTell
  <2>2. ConnectionsAreCurrent'
    BY <1>26, SwapAssumption DEF ConnectionsAreCurrent, InContext, RollTrash, OnFiles, Moved,
     SwapTypeOK, Threads, Thread, Restore, Conn, accountVars, restoreVars, GateIsUp,
     Replacing, Pins, Keyed
  <2>3. EpochsTell'
    BY <1>26, SwapAssumption DEF EpochsTell, Pins, Keyed, InContext, RollTrash, OnFiles,
     Moved, SwapTypeOK, Threads, Thread, Restore, Conn, accountVars, restoreVars,
     ConnectionsAreCurrent, GateIsUp, Replacing
  <2>. QED
    BY <2>1, <2>2, <2>3 DEF SwapLater
<1>27. ASSUME NEW r \in Restores, RollPointer(r) PROVE SwapLater
  <2>1. GateIsUp'
    BY <1>27, SwapAssumption DEF GateIsUp, Replacing, Pins, Keyed, InContext, RollPointer,
     Moved, Ended, LetGo, Unasked, OwnFile, SwapTypeOK, Threads, Thread, Restore, Conn,
     accountVars, restoreVars, ConnectionsAreCurrent, EpochsTell
  <2>2. ConnectionsAreCurrent'
    BY <1>27, SwapAssumption DEF ConnectionsAreCurrent, InContext, RollPointer, Moved, Ended,
     LetGo, Unasked, OwnFile, SwapTypeOK, Threads, Thread, Restore, Conn, accountVars,
     restoreVars, GateIsUp, Replacing, Pins, Keyed
  <2>3. EpochsTell'
    BY <1>27, SwapAssumption DEF EpochsTell, Pins, Keyed, InContext, RollPointer, Moved,
     Ended, LetGo, Unasked, OwnFile, SwapTypeOK, Threads, Thread, Restore, Conn, accountVars,
     restoreVars, ConnectionsAreCurrent, GateIsUp, Replacing
  <2>. QED
    BY <2>1, <2>2, <2>3 DEF SwapLater
<1>28. ASSUME NEW r \in Restores, Abandon(r) PROVE SwapLater
  <2>1. GateIsUp'
    BY <1>28, SwapAssumption DEF GateIsUp, Replacing, Pins, Keyed, InContext, Abandon,
     Moved, Ended, LetGo, Unasked, OwnFile, SwapFault, SwapTypeOK, Threads, Thread, Restore,
     Conn, accountVars, restoreVars, ConnectionsAreCurrent, EpochsTell
  <2>2. ConnectionsAreCurrent'
    BY <1>28, SwapAssumption DEF ConnectionsAreCurrent, InContext, Abandon, Moved, Ended,
     LetGo, Unasked, OwnFile, SwapFault, SwapTypeOK, Threads, Thread, Restore, Conn,
     accountVars, restoreVars, GateIsUp, Replacing, Pins, Keyed
  <2>3. EpochsTell'
    BY <1>28, SwapAssumption DEF EpochsTell, Pins, Keyed, InContext, Abandon, Moved, Ended,
     LetGo, Unasked, OwnFile, SwapFault, SwapTypeOK, Threads, Thread, Restore, Conn,
     accountVars, restoreVars, ConnectionsAreCurrent, GateIsUp, Replacing
  <2>. QED
    BY <2>1, <2>2, <2>3 DEF SwapLater
<1>29. ASSUME NEW r \in Restores, Fail(r) PROVE SwapLater
  <2>1. GateIsUp'
    <3>1. Replacing(r)
      BY <1>29 DEF Fail, Replacing
    <3>2. dbGate = r /\ \A q \in Restores \ {r} : ~(dbRestore[q].pc = "draining" \/ Replacing(q))
      BY <3>1 DEF GateIsUp
    <3>3. /\ dbEpoch' = dbEpoch + 1 /\ dbThread' = dbThread /\ dbSecret' = dbSecret /\ dbGate' = dbGate
          /\ dbConn' = [x \in Threads |-> NoOne]
          /\ dbRestore' = [dbRestore EXCEPT ![r].pc = "rolling"]
      BY <1>29 DEF Fail, FlushPool, Moved
    <3>4. \A q \in Restores \ {r} : ~(dbRestore'[q].pc = "draining" \/ Replacing(q)')
      BY <3>2, <3>3 DEF Replacing, SwapTypeOK
    <3>5. /\ \A x \in Threads : ~InContext(x) /\ (Pins(x) \/ Keyed(x) => dbThread[x].epoch < dbEpoch')
          /\ dbSecret # NoOne => dbSecret.epoch < dbEpoch'
      BY <3>1, <3>3 DEF GateIsUp, SwapTypeOK, Thread, Cached
    <3>. QED
      BY <3>2, <3>3, <3>4, <3>5 DEF GateIsUp, InContext, Pins, Keyed
  <2>2. ConnectionsAreCurrent'
    BY <1>29, SwapAssumption DEF ConnectionsAreCurrent, InContext, Fail, Moved, Ended, LetGo,
     Unasked, OwnFile, FlushPool, SwapFault, SwapTypeOK, Threads, Thread, Restore, Conn,
     accountVars, restoreVars, GateIsUp, Replacing, Pins, Keyed
  <2>3. EpochsTell'
    <3>1. /\ dbEpoch' = dbEpoch + 1 /\ dbFiles' = dbFiles /\ dbThread' = dbThread
          /\ dbSecret' = dbSecret /\ \A x \in Threads : ~InContext(x)
      BY <1>29 DEF Fail, FlushPool, GateIsUp, Replacing
    <3>2. \A x \in Threads : Pins(x) \/ Keyed(x) => dbThread[x].epoch < dbEpoch'
      BY <3>1 DEF EpochsTell, SwapTypeOK, Thread
    <3>3. dbSecret # NoOne => dbSecret.epoch < dbEpoch'
      BY <3>1 DEF EpochsTell, SwapTypeOK, Cached
    <3>. QED
      BY <3>1, <3>2, <3>3 DEF EpochsTell, InContext, Pins, Keyed, SwapTypeOK, Thread, Cached
  <2>. QED
    BY <2>1, <2>2, <2>3 DEF SwapLater
<1>30. ASSUME NEW r \in Restores, RollFails(r) PROVE SwapLater
  <2>1. GateIsUp'
    BY <1>30, SwapAssumption DEF GateIsUp, Replacing, Pins, Keyed, InContext, RollFails,
     Moved, Ended, LetGo, Unasked, OwnFile, SwapFault, Changed, SwapTypeOK, Threads, Thread,
     Restore, Conn, accountVars, restoreVars, ConnectionsAreCurrent, EpochsTell
  <2>2. ConnectionsAreCurrent'
    BY <1>30, SwapAssumption DEF ConnectionsAreCurrent, InContext, RollFails, Moved, Ended,
     LetGo, Unasked, OwnFile, SwapFault, Changed, SwapTypeOK, Threads, Thread, Restore, Conn,
     accountVars, restoreVars, GateIsUp, Replacing, Pins, Keyed
  <2>3. EpochsTell'
    BY <1>30, SwapAssumption DEF EpochsTell, Pins, Keyed, InContext, RollFails, Moved,
     Ended, LetGo, Unasked, OwnFile, SwapFault, Changed, SwapTypeOK, Threads, Thread,
     Restore, Conn, accountVars, restoreVars, ConnectionsAreCurrent, GateIsUp, Replacing
  <2>. QED
    BY <2>1, <2>2, <2>3 DEF SwapLater
<1>31. ASSUME NEW a \in Accounts, BeginLogin(a) PROVE SwapLater
  <2>1. GateIsUp'
    BY <1>31, SwapAssumption DEF GateIsUp, Replacing, Pins, Keyed, InContext, BeginLogin,
     SwapTypeOK, Threads, Thread, Restore, Conn, accountVars, restoreVars,
     ConnectionsAreCurrent, EpochsTell
  <2>2. ConnectionsAreCurrent'
    BY <1>31, SwapAssumption DEF ConnectionsAreCurrent, InContext, BeginLogin, SwapTypeOK,
     Threads, Thread, Restore, Conn, accountVars, restoreVars, GateIsUp, Replacing, Pins,
     Keyed
  <2>3. EpochsTell'
    BY <1>31, SwapAssumption DEF EpochsTell, Pins, Keyed, InContext, BeginLogin,
     SwapTypeOK, Threads, Thread, Restore, Conn, accountVars, restoreVars,
     ConnectionsAreCurrent, GateIsUp, Replacing
  <2>. QED
    BY <2>1, <2>2, <2>3 DEF SwapLater
<1>32. ASSUME NEW prepared \in BOOLEAN, EndLogin(prepared) PROVE SwapLater
  <2>1. GateIsUp'
    BY <1>32, SwapAssumption DEF GateIsUp, Replacing, Pins, Keyed, InContext, EndLogin,
     SwapTypeOK, Threads, Thread, Restore, Conn, accountVars, restoreVars,
     ConnectionsAreCurrent, EpochsTell
  <2>2. ConnectionsAreCurrent'
    BY <1>32, SwapAssumption DEF ConnectionsAreCurrent, InContext, EndLogin, SwapTypeOK,
     Threads, Thread, Restore, Conn, accountVars, restoreVars, GateIsUp, Replacing, Pins,
     Keyed
  <2>3. EpochsTell'
    BY <1>32, SwapAssumption DEF EpochsTell, Pins, Keyed, InContext, EndLogin, SwapTypeOK,
     Threads, Thread, Restore, Conn, accountVars, restoreVars, ConnectionsAreCurrent,
     GateIsUp, Replacing
  <2>. QED
    BY <2>1, <2>2, <2>3 DEF SwapLater
<1>33. ASSUME NEW removed \in BOOLEAN, Logout(removed) PROVE SwapLater
  <2>1. GateIsUp'
    BY <1>33, SwapAssumption DEF GateIsUp, Replacing, Pins, Keyed, InContext, Logout,
     SwapTypeOK, Threads, Thread, Restore, Conn, accountVars, restoreVars,
     ConnectionsAreCurrent, EpochsTell
  <2>2. ConnectionsAreCurrent'
    BY <1>33, SwapAssumption DEF ConnectionsAreCurrent, InContext, Logout, SwapTypeOK,
     Threads, Thread, Restore, Conn, accountVars, restoreVars, GateIsUp, Replacing, Pins,
     Keyed
  <2>3. EpochsTell'
    BY <1>33, SwapAssumption DEF EpochsTell, Pins, Keyed, InContext, Logout, SwapTypeOK,
     Threads, Thread, Restore, Conn, accountVars, restoreVars, ConnectionsAreCurrent,
     GateIsUp, Replacing
  <2>. QED
    BY <2>1, <2>2, <2>3 DEF SwapLater
<1>34. ASSUME Stop PROVE SwapLater
  <2>1. GateIsUp'
    <3>1. \A q \in Restores : ~(dbRestore'[q].pc = "draining" \/ Replacing(q)')
      BY <1>34 DEF Stop, Unended, Replacing, Unasked
    <3>. QED
      BY <3>1 DEF GateIsUp
  <2>2. ConnectionsAreCurrent'
    BY <1>34, SwapAssumption DEF ConnectionsAreCurrent, InContext, Stop, SwapFault, LetGo,
     AtRest, OwnFile, Unasked, Changed, SwapTypeOK, Threads, Thread, Restore, Conn,
     accountVars, restoreVars, GateIsUp, Replacing, Pins, Keyed
  <2>3. EpochsTell'
    BY <1>34, SwapAssumption DEF EpochsTell, Pins, Keyed, InContext, Stop, SwapFault,
     LetGo, AtRest, OwnFile, Unasked, Changed, SwapTypeOK, Threads, Thread, Restore, Conn,
     accountVars, restoreVars, ConnectionsAreCurrent, GateIsUp, Replacing
  <2>. QED
    BY <2>1, <2>2, <2>3 DEF SwapLater
<1>35. CASE UNCHANGED dbVars
  BY <1>35 DEF dbVars, SwapLater, GateIsUp, Replacing, ConnectionsAreCurrent, EpochsTell,
     InContext, Pins, Keyed
<1>. QED
  BY <1>1, <1>2, <1>3, <1>4, <1>5, <1>6, <1>7, <1>8, <1>9, <1>10, <1>11, <1>12, <1>13, <1>14,
     <1>15, <1>16, <1>17, <1>18, <1>19, <1>20, <1>21, <1>22, <1>23, <1>24, <1>25, <1>26,
     <1>27, <1>28, <1>29, <1>30, <1>31, <1>32, <1>33, <1>34, <1>35
     DEF SwapNext, ServerStep, WorkerStep, RestoreStep, AccountStep

\* The hub starts with nothing open, nothing remembered and no restore.
LEMMA SwapInvInit == SwapInit => SwapInv
BY TypeInit, SwapAssumption DEF SwapInit, SwapInv, GateIsUp, Replacing, ConnectionsAreCurrent,
   EpochsTell, InContext, Pins, Keyed, AtRest, Unasked

\* Every step keeps the invariant.
LEMMA SwapInvStep == SwapInv /\ [SwapNext]_dbVars => SwapInv'
BY TypeStep, LaterStep DEF SwapInv, SwapLater

\* Behind the gate nothing is open and nothing is of this epoch; in front of it
\* what is of this epoch holds (maintenance_gate, flush_pool, _pooled_conn,
\* _check_share_epoch_locked, get_secret).
THEOREM SwapInvariant == SwapSpec => []SwapInv
BY SwapInvInit, SwapInvStep, PTL DEF SwapSpec

\* Every place, lock, thread and restore of a hub keeps its type.
THEOREM SwapTypeCorrect == SwapSpec => []SwapTypeOK
<1>1. SwapInv => SwapTypeOK BY DEF SwapInv
<1>. QED BY <1>1, SwapInvariant, PTL

\* Nothing that was made from a database outlives it: no connection of an open
\* context, no pinned operation, no secret that is answered from the cache
\* (_pooled_conn, _check_share_epoch_locked, get_secret).
THEOREM NothingOutlivesTheorem == SwapSpec => []NothingOutlivesItsDatabase
<1>1. SwapInv => NothingOutlivesItsDatabase
  BY DEF SwapInv, ConnectionsAreCurrent, EpochsTell, NothingOutlivesItsDatabase, Pins, InContext,
     SecretIsCached
<1>. QED BY <1>1, SwapInvariant, PTL

-----------------------------------------------------------------------------
(***************************************************************************)
(* Why what is served is whole: at every step of a restore its files are   *)
(* told by the copies it made.                                             *)
(***************************************************************************)

\* What is told of a restore by a file.
Names(f) == {f.set, f.trash, f.secret.since}

\* File f, in place p, is of one set, made for p, with the secret made when the
\* set was installed.
Whole(p, f) ==
  /\ f.set \notin FileRestores => f.trash = f.set
  /\ f.secret = [of |-> p, since |-> f.set]
  /\ f.set \in Restores => dbRestore[f.set].target = p

\* Restores that have not come to the files, or have left nothing there.
Untouched(r) == dbRestore[r].pc \in {"idle", "fetching", "draining", "refused", "failed"}

\* The trash that restore r installs over copy b: an import of one file has none.
TrashOf(r, b) == IF r \in SetRestores THEN r ELSE b.trash

\* The file f in the place p that r replaces, as r's copy b and its pc tell it.
FileOf(r, pc, p, f, b) ==
  /\ pc \in {"flushed", "restoring"} => f = b
  /\ pc = "content" => r \in SetRestores /\ f.set = r /\ f.secret = b.secret /\ f.trash = b.trash
  /\ pc = "files" => f.set = r /\ f.secret = b.secret /\ f.trash = TrashOf(r, b)
  /\ pc \in {"secured", "cleared"} =>
       f.set = r /\ f.secret = [of |-> p, since |-> r] /\ f.trash = TrashOf(r, b)
  /\ pc = "rolling" => f.trash \in {b.trash, TrashOf(r, b)}
  /\ pc = "rolled" => f.set = b.set /\ f.secret = b.secret

\* A restore that has changed nothing is told of by no file and no copy.
NothingIsLeft ==
  \A r \in Restores : Untouched(r) =>
    /\ \A p \in Homes : r \notin Names(dbFiles[p])
    /\ \A q \in Restores : Replacing(q) => r \notin Names(dbRestore[q].file)

\* One that replaces does so in the place it was asked for, and nowhere else; its
\* copy is whole and tells nothing of it.
CopiesTell ==
  \A r \in Restores : Replacing(r) =>
    LET p == dbRestore[r].path  b == dbRestore[r].file IN
    /\ p = dbRestore[r].target /\ r \notin Names(b)
    /\ \A h \in Homes \ {p} : r \notin Names(dbFiles[h])
    /\ FileOf(r, dbRestore[r].pc, p, dbFiles[p], b)
    /\ p \notin dbTorn => Whole(p, b)

\* A place that is not whole is being replaced, or was given up.
PlacesAreWhole ==
  \A p \in Homes \ dbTorn :
    Whole(p, dbFiles[p]) \/ \E r \in Restores : Replacing(r) /\ dbRestore[r].path = p

FilesAreTold == NothingIsLeft /\ CopiesTell /\ PlacesAreWhole

\* One restore replaces at a time.
LEMMA OneReplaces ==
  ASSUME GateIsUp, NEW r \in Restores, NEW q \in Restores,
         Replacing(r) \/ dbRestore[r].pc = "draining", Replacing(q)
  PROVE  q = r
BY DEF GateIsUp

\* A step that leaves files and restores alone.
LEMMA QuietTold ==
  ASSUME FilesAreTold, dbFiles' = dbFiles, dbRestore' = dbRestore, dbTorn' = dbTorn
  PROVE  FilesAreTold'
BY DEF FilesAreTold, NothingIsLeft, CopiesTell, PlacesAreWhole, Untouched, Replacing, Whole, FileOf,
       TrashOf, Names

\* A restore that has not come to the files may change all it remembers.
LEMMA RequestTold ==
  ASSUME SwapTypeOK, FilesAreTold, NEW r \in Restores, Untouched(r), Untouched(r)',
         dbFiles' = dbFiles, dbTorn' = dbTorn,
         \A q \in Restores \ {r} : dbRestore'[q] = dbRestore[q]
  PROVE  FilesAreTold'
<1>1. ~Replacing(r) /\ ~Replacing(r)'
  BY DEF Untouched, Replacing
<1>2. \A q \in Restores \ {r} : /\ Untouched(q)' = Untouched(q) /\ Replacing(q)' = Replacing(q)
                                /\ dbRestore'[q] = dbRestore[q]
  BY DEF Untouched, Replacing
<1>3. \A p \in Homes : dbFiles[p].set # r
  BY DEF FilesAreTold, NothingIsLeft, Names
<1>4. \A q \in Restores : Replacing(q) => dbRestore[q].file.set # r
  BY DEF FilesAreTold, NothingIsLeft, Names
<1>5. \A p \in Homes : Whole(p, dbFiles[p])' = Whole(p, dbFiles[p])
  BY <1>2, <1>3 DEF Whole
<1>6. NothingIsLeft'
  BY <1>1, <1>2 DEF FilesAreTold, NothingIsLeft, Names
<1>7. CopiesTell'
  <2> SUFFICES ASSUME NEW q \in Restores, Replacing(q)'
               PROVE  LET p == dbRestore[q].path  b == dbRestore[q].file IN
                      /\ p = dbRestore[q].target /\ q \notin Names(b)
                      /\ \A h \in Homes \ {p} : q \notin Names(dbFiles[h])
                      /\ FileOf(q, dbRestore[q].pc, p, dbFiles[p], b)
                      /\ p \notin dbTorn => Whole(p, b)'
    BY <1>1, <1>2 DEF CopiesTell, Names
  <2>1. q # r /\ Replacing(q)
    BY <1>1, <1>2
  <2>2. Whole(dbRestore[q].path, dbRestore[q].file)'
          = Whole(dbRestore[q].path, dbRestore[q].file)
    BY <2>1, <1>2, <1>4 DEF Whole
  <2>. QED
    BY <2>1, <2>2, <1>2 DEF FilesAreTold, CopiesTell
<1>8. PlacesAreWhole'
  BY <1>1, <1>2, <1>5 DEF FilesAreTold, PlacesAreWhole
<1>. QED
  BY <1>6, <1>7, <1>8 DEF FilesAreTold

\* The one that replaces goes on, maybe with another file in its place.
LEMMA ReplaceTold ==
  ASSUME SwapTypeOK, GateIsUp, FilesAreTold, NEW r \in Restores, Replacing(r), NEW to, Moved(r, to),
         Replacing(r)', NEW file, dbFiles' = [dbFiles EXCEPT ![dbRestore[r].path] = file],
         Names(file) \subseteq Names(dbFiles[dbRestore[r].path]) \cup Names(dbRestore[r].file) \cup {r},
         FileOf(r, to, dbRestore[r].path, file, dbRestore[r].file), dbTorn' = dbTorn
  PROVE  FilesAreTold'
<1> DEFINE p == dbRestore[r].path  b == dbRestore[r].file
<1>1. /\ p \in Homes /\ dbFiles'[p] = file
      /\ \A h \in Homes \ {p} : dbFiles'[h] = dbFiles[h]
  BY DEF SwapTypeOK, Restore
<1>2. /\ \A q \in Restores : /\ dbRestore'[q].target = dbRestore[q].target
                             /\ dbRestore'[q].path = dbRestore[q].path
                             /\ dbRestore'[q].file = dbRestore[q].file
      /\ \A q \in Restores \ {r} : dbRestore'[q] = dbRestore[q]
  BY DEF Moved, SwapTypeOK, Restore
<1>3. \A q \in Restores : Replacing(q) => q = r
  BY OneReplaces
<1>4. \A q \in Restores : Replacing(q)' => q = r
  BY <1>2, <1>3 DEF Replacing
<1>5. \A h, f : Whole(h, f)' = Whole(h, f)
  BY <1>2 DEF Whole
<1>6. NothingIsLeft'
  <2> SUFFICES ASSUME NEW q \in Restores, Untouched(q)'
               PROVE  /\ \A h \in Homes : q \notin Names(dbFiles'[h])
                      /\ q \notin Names(b)
    BY <1>2, <1>4 DEF NothingIsLeft, Names
  <2>1. q # r
    BY DEF Untouched, Replacing
  <2>2. Untouched(q)
    BY <2>1, <1>2 DEF Untouched
  <2>3. q \notin Names(b) /\ \A h \in Homes : q \notin Names(dbFiles[h])
    BY <2>2 DEF FilesAreTold, NothingIsLeft
  <2>4. q \notin Names(file)
    BY <2>1, <2>3, <1>1
  <2>. QED
    BY <2>3, <2>4, <1>1
<1>7. CopiesTell'
  <2>1. /\ p = dbRestore[r].target /\ r \notin Names(b)
        /\ \A h \in Homes \ {p} : r \notin Names(dbFiles[h])
        /\ p \notin dbTorn => Whole(p, b)
    BY DEF FilesAreTold, CopiesTell
  <2>2. /\ dbRestore'[r].path = p /\ dbRestore'[r].file = b /\ dbRestore'[r].target = p
        /\ \A h \in Homes \ {p} : r \notin Names(dbFiles'[h])
        /\ p \notin dbTorn => Whole(p, b)'
    BY <2>1, <1>1, <1>2, <1>5
  <2>3. FileOf(r, dbRestore'[r].pc, p, dbFiles'[p], b)
    BY <1>1 DEF Moved, SwapTypeOK
  <2>4. Whole(dbRestore[r].path, dbRestore[r].file)' = Whole(p, b)'
    BY <2>2 DEF Whole
  <2>. QED
    BY <2>1, <2>2, <2>3, <2>4, <1>4 DEF CopiesTell, Names
<1>8. PlacesAreWhole'
  <2> SUFFICES ASSUME NEW h \in Homes \ dbTorn
               PROVE  \/ Whole(h, dbFiles[h])'
                      \/ \E q \in Restores : Replacing(q)' /\ dbRestore'[q].path = h
    BY DEF PlacesAreWhole
  <2>1. CASE h = p
    BY <2>1, <1>2
  <2>2. CASE h # p
    <3>1. Whole(h, dbFiles[h])
      BY <2>2, <1>3 DEF FilesAreTold, PlacesAreWhole
    <3>. QED
      BY <2>2, <3>1, <1>1, <1>2 DEF Whole
  <2>. QED
    BY <2>1, <2>2
<1>. QED
  BY <1>6, <1>7, <1>8 DEF FilesAreTold

\* Whoever replaced has ended, and left a whole place or one that is given up.
LEMMA EndTold ==
  ASSUME FilesAreTold, dbFiles' = dbFiles, dbTorn \subseteq dbTorn',
         \A q \in Restores : dbRestore'[q].target = dbRestore[q].target /\ ~Replacing(q)',
         \A q \in Restores : Untouched(q)' => \A h \in Homes : q \notin Names(dbFiles[h]),
         \A q \in Restores : Replacing(q) /\ dbRestore[q].path \notin dbTorn' =>
           Whole(dbRestore[q].path, dbFiles[dbRestore[q].path])
  PROVE  FilesAreTold'
<1>1. \A h, f : Whole(h, f)' = Whole(h, f)
  BY DEF Whole
<1>2. NothingIsLeft' /\ CopiesTell'
  BY DEF NothingIsLeft, CopiesTell, Names
<1>3. \A h \in Homes \ dbTorn' : Whole(h, dbFiles[h])
  BY DEF FilesAreTold, PlacesAreWhole
<1>4. PlacesAreWhole'
  <2> SUFFICES ASSUME NEW h \in Homes \ dbTorn' PROVE Whole(h, dbFiles[h])'
    BY DEF PlacesAreWhole
  <2>. QED
    BY <1>3 DEF Whole
<1>. QED
  BY <1>2, <1>4 DEF FilesAreTold

-----------------------------------------------------------------------------
\* The copies are made: the place is whole, for nobody else replaces.
LEMMA DrainedTold ==
  ASSUME SwapTypeOK, GateIsUp, FilesAreTold, NEW r \in Restores, Drained(r)
  PROVE  FilesAreTold'
<1>1. Untouched(r) /\ dbFiles' = dbFiles /\ dbTorn' = dbTorn
  BY DEF Drained, Untouched
<1>2. CASE ~TargetIs(dbRestore[r].target)
  <2>1. Untouched(r)' /\ \A q \in Restores \ {r} : dbRestore'[q] = dbRestore[q]
    BY <1>2 DEF Drained, Ended, Unasked, Untouched, SwapTypeOK
  <2>. QED
    BY <1>1, <2>1, RequestTold
<1>3. CASE TargetIs(dbRestore[r].target)
  <2> DEFINE p == dbRestore[r].target  b == dbFiles[p]
  <2>1. LoadedPointer = p /\ p \in Homes
    BY <1>3 DEF TargetIs, SwapTypeOK, Restore
  <2>2. dbRestore' = [dbRestore EXCEPT ![r].pc = "flushed", ![r].path = p, ![r].pointer = dbPointer,
                                       ![r].file = b]
    BY <1>3, <2>1 DEF Drained
  <2>3. /\ dbRestore'[r].pc = "flushed" /\ dbRestore'[r].path = p /\ dbRestore'[r].file = b
        /\ \A q \in Restores : dbRestore'[q].target = dbRestore[q].target
        /\ \A q \in Restores \ {r} : dbRestore'[q] = dbRestore[q]
    BY <2>2 DEF SwapTypeOK, Restore
  <2> HIDE DEF p, b
  <2>4. \A q \in Restores : ~Replacing(q)
    BY OneReplaces DEF Drained, Replacing
  <2>5. \A q \in Restores : Replacing(q)' => q = r
    BY <2>3, <2>4 DEF Replacing
  <2>6. \A h \in Homes : r \notin Names(dbFiles[h])
    BY <1>1 DEF FilesAreTold, NothingIsLeft
  <2>7. \A h \in Homes \ dbTorn : Whole(h, dbFiles[h])
    BY <2>4 DEF FilesAreTold, PlacesAreWhole
  <2>8. NothingIsLeft'
    <3> SUFFICES ASSUME NEW q \in Restores, Untouched(q)'
                 PROVE  \A h \in Homes : q \notin Names(dbFiles[h])
      BY <1>1, <2>1, <2>3, <2>5 DEF NothingIsLeft, Names, b
    <3>1. q # r
      BY <2>3 DEF Untouched
    <3>2. Untouched(q)
      BY <3>1, <2>3 DEF Untouched
    <3>. QED
      BY <3>2 DEF FilesAreTold, NothingIsLeft
  <2>9. CopiesTell'
    <3>1. /\ p = dbRestore'[r].target /\ r \notin Names(b)
          /\ \A h \in Homes \ {p} : r \notin Names(dbFiles'[h])
      BY <1>1, <2>1, <2>3, <2>6 DEF p, b
    <3>2. FileOf(r, "flushed", p, b, b)
      BY DEF FileOf
    <3>3. p \notin dbTorn' => Whole(dbRestore[r].path, dbRestore[r].file)'
      BY <1>1, <2>1, <2>3, <2>7 DEF Whole, b
    <3>. QED
      BY <1>1, <2>3, <2>5, <3>1, <3>2, <3>3 DEF CopiesTell, Names, b
  <2>10. PlacesAreWhole'
    <3>1. \A h \in Homes \ dbTorn' : Whole(h, dbFiles[h])'
      BY <1>1, <2>3, <2>7 DEF Whole
    <3>. QED
      BY <3>1 DEF PlacesAreWhole
  <2>. QED
    BY <2>8, <2>9, <2>10 DEF FilesAreTold
<1>. QED
  BY <1>2, <1>3

\* A step that fails: its trash is the old one or that of the set.
LEMMA FailTold ==
  ASSUME SwapTypeOK, GateIsUp, FilesAreTold, NEW r \in Restores, Fail(r)
  PROVE  FilesAreTold'
<1> DEFINE p == dbRestore[r].path  b == dbRestore[r].file
<1>1. Replacing(r) /\ Moved(r, "rolling") /\ dbFiles' = dbFiles /\ dbTorn' = dbTorn
  BY DEF Fail, Replacing
<1>2. FileOf(r, dbRestore[r].pc, p, dbFiles[p], b)
  BY <1>1 DEF FilesAreTold, CopiesTell
<1>3. dbFiles[p].trash \in {b.trash, TrashOf(r, b)}
  BY <1>2 DEF Fail, FileOf
<1>4. FileOf(r, "rolling", p, dbFiles[p], b)
  BY <1>3 DEF FileOf
<1>5. Replacing(r)' /\ dbFiles' = [dbFiles EXCEPT ![p] = dbFiles[p]]
  BY <1>1 DEF Moved, Replacing, SwapTypeOK, Restore
<1>. QED
  BY <1>1, <1>4, <1>5, ReplaceTold

\* The pointer is cleared: the files are as they were.
LEMMA ClearTold ==
  ASSUME SwapTypeOK, GateIsUp, FilesAreTold, NEW r \in Restores, ClearPointer(r)
  PROVE  FilesAreTold'
<1> DEFINE p == dbRestore[r].path  b == dbRestore[r].file
<1>1. /\ Replacing(r) /\ Moved(r, "cleared") /\ dbFiles' = dbFiles /\ dbTorn' = dbTorn
      /\ dbRestore[r].pc = "secured"
  BY DEF ClearPointer, Replacing
<1>2. FileOf(r, "secured", p, dbFiles[p], b)
  BY <1>1 DEF FilesAreTold, CopiesTell
<1>3. FileOf(r, "cleared", p, dbFiles[p], b)
  BY <1>2 DEF FileOf
<1>4. Replacing(r)' /\ dbFiles' = [dbFiles EXCEPT ![p] = dbFiles[p]]
  BY <1>1 DEF Moved, Replacing, SwapTypeOK, Restore
<1>. QED
  BY <1>1, <1>3, <1>4, ReplaceTold

\* What a step on the files finds: the copy, and the file that it tells.
LEMMA OnFilesFacts ==
  ASSUME SwapTypeOK, FilesAreTold, NEW r \in Restores, NEW from, NEW to, NEW file,
         OnFiles(r, from, to, file),
         from \in {"flushed", "content", "files", "rolling", "rolled"},
         to \in {"content", "files", "secured", "rolled", "restoring"}
  PROVE  LET p == dbRestore[r].path  b == dbRestore[r].file IN
         /\ Replacing(r) /\ Replacing(r)' /\ Moved(r, to) /\ dbTorn' = dbTorn
         /\ dbFiles' = [dbFiles EXCEPT ![p] = file]
         /\ dbFiles[p] \in File /\ b \in File
         /\ FileOf(r, from, p, dbFiles[p], b)
<1>1. /\ Replacing(r) /\ Moved(r, to) /\ dbRestore[r].pc = from /\ dbTorn' = dbTorn
      /\ dbFiles' = [dbFiles EXCEPT ![dbRestore[r].path] = file]
  BY DEF OnFiles, Replacing
<1>2. Replacing(r)'
  BY <1>1 DEF Moved, Replacing, SwapTypeOK
<1>3. FileOf(r, from, dbRestore[r].path, dbFiles[dbRestore[r].path], dbRestore[r].file)
  BY <1>1 DEF FilesAreTold, CopiesTell
<1>. QED
  BY <1>1, <1>2, <1>3 DEF SwapTypeOK, Restore

\* The database is replaced: the trash is the old one.
LEMMA ReplaceContentTold ==
  ASSUME SwapTypeOK, GateIsUp, FilesAreTold, NEW r \in Restores, ReplaceContent(r)
  PROVE  FilesAreTold'
<1> DEFINE p == dbRestore[r].path  b == dbRestore[r].file
           file == [dbFiles[p] EXCEPT !.set = r]
           to == IF r \in SetRestores THEN "content" ELSE "files"
<1>1. OnFiles(r, "flushed", to, file)
  BY DEF ReplaceContent
<1>2. /\ Replacing(r) /\ Replacing(r)' /\ Moved(r, to) /\ dbTorn' = dbTorn
      /\ dbFiles' = [dbFiles EXCEPT ![p] = file]
      /\ dbFiles[p] \in File /\ b \in File
      /\ FileOf(r, "flushed", p, dbFiles[p], b)
  BY <1>1, OnFilesFacts
<1>3. FileOf(r, to, p, file, b)
  BY <1>2, SwapAssumption DEF FileOf, TrashOf, File, Restores
<1>4. Names(file) \subseteq Names(dbFiles[p]) \cup Names(b) \cup {r}
  BY <1>2 DEF Names, File
<1> HIDE DEF p, b, file, to
<1>. QED
  BY <1>2, <1>3, <1>4, ReplaceTold DEF p, b

\* The trash is replaced, if the set has one.
LEMMA ReplaceTrashTold ==
  ASSUME SwapTypeOK, GateIsUp, FilesAreTold, NEW r \in Restores, ReplaceTrash(r)
  PROVE  FilesAreTold'
<1> DEFINE p == dbRestore[r].path  b == dbRestore[r].file
           file == [dbFiles[p] EXCEPT !.trash = r]
           to == "files"
<1>1. OnFiles(r, "content", to, file)
  BY DEF ReplaceTrash
<1>2. /\ Replacing(r) /\ Replacing(r)' /\ Moved(r, to) /\ dbTorn' = dbTorn
      /\ dbFiles' = [dbFiles EXCEPT ![p] = file]
      /\ dbFiles[p] \in File /\ b \in File
      /\ FileOf(r, "content", p, dbFiles[p], b)
  BY <1>1, OnFilesFacts
<1>3. FileOf(r, to, p, file, b)
  BY <1>2, SwapAssumption DEF FileOf, TrashOf, File, Restores
<1>4. Names(file) \subseteq Names(dbFiles[p]) \cup Names(b) \cup {r}
  BY <1>2 DEF Names, File
<1> HIDE DEF p, b, file, to
<1>. QED
  BY <1>2, <1>3, <1>4, ReplaceTold DEF p, b

\* The place gets a secret of its own.
LEMMA SecureTold ==
  ASSUME SwapTypeOK, GateIsUp, FilesAreTold, NEW r \in Restores, Secure(r)
  PROVE  FilesAreTold'
<1> DEFINE p == dbRestore[r].path  b == dbRestore[r].file
           file == [dbFiles[p] EXCEPT !.secret = [of |-> p, since |-> r]]
           to == "secured"
<1>1. OnFiles(r, "files", to, file)
  BY DEF Secure
<1>2. /\ Replacing(r) /\ Replacing(r)' /\ Moved(r, to) /\ dbTorn' = dbTorn
      /\ dbFiles' = [dbFiles EXCEPT ![p] = file]
      /\ dbFiles[p] \in File /\ b \in File
      /\ FileOf(r, "files", p, dbFiles[p], b)
  BY <1>1, OnFilesFacts
<1>3. FileOf(r, to, p, file, b)
  BY <1>2, SwapAssumption DEF FileOf, TrashOf, File, Restores
<1>4. Names(file) \subseteq Names(dbFiles[p]) \cup Names(b) \cup {r}
  BY <1>2 DEF Names, File
<1> HIDE DEF p, b, file, to
<1>. QED
  BY <1>2, <1>3, <1>4, ReplaceTold DEF p, b

\* The database is taken back.
LEMMA RollContentTold ==
  ASSUME SwapTypeOK, GateIsUp, FilesAreTold, NEW r \in Restores, RollContent(r)
  PROVE  FilesAreTold'
<1> DEFINE p == dbRestore[r].path  b == dbRestore[r].file
           file == [dbFiles[p] EXCEPT !.set = b.set, !.secret = b.secret]
           to == IF r \in SetRestores THEN "rolled" ELSE "restoring"
<1>1. OnFiles(r, "rolling", to, file)
  BY DEF RollContent
<1>2. /\ Replacing(r) /\ Replacing(r)' /\ Moved(r, to) /\ dbTorn' = dbTorn
      /\ dbFiles' = [dbFiles EXCEPT ![p] = file]
      /\ dbFiles[p] \in File /\ b \in File
      /\ FileOf(r, "rolling", p, dbFiles[p], b)
  BY <1>1, OnFilesFacts
<1>3. FileOf(r, to, p, file, b)
  BY <1>2, SwapAssumption DEF FileOf, TrashOf, File, Restores
<1>4. Names(file) \subseteq Names(dbFiles[p]) \cup Names(b) \cup {r}
  BY <1>2 DEF Names, File
<1> HIDE DEF p, b, file, to
<1>. QED
  BY <1>2, <1>3, <1>4, ReplaceTold DEF p, b

\* The trash is taken back.
LEMMA RollTrashTold ==
  ASSUME SwapTypeOK, GateIsUp, FilesAreTold, NEW r \in Restores, RollTrash(r)
  PROVE  FilesAreTold'
<1> DEFINE p == dbRestore[r].path  b == dbRestore[r].file
           file == [dbFiles[p] EXCEPT !.trash = b.trash]
           to == "restoring"
<1>1. OnFiles(r, "rolled", to, file)
  BY DEF RollTrash
<1>2. /\ Replacing(r) /\ Replacing(r)' /\ Moved(r, to) /\ dbTorn' = dbTorn
      /\ dbFiles' = [dbFiles EXCEPT ![p] = file]
      /\ dbFiles[p] \in File /\ b \in File
      /\ FileOf(r, "rolled", p, dbFiles[p], b)
  BY <1>1, OnFilesFacts
<1>3. FileOf(r, to, p, file, b)
  BY <1>2, SwapAssumption DEF FileOf, TrashOf, File, Restores
<1>4. Names(file) \subseteq Names(dbFiles[p]) \cup Names(b) \cup {r}
  BY <1>2 DEF Names, File
<1> HIDE DEF p, b, file, to
<1>. QED
  BY <1>2, <1>3, <1>4, ReplaceTold DEF p, b

\* What an ending leaves of the files, by where the restore was.
LEMMA EndedTold ==
  ASSUME SwapTypeOK, GateIsUp, FilesAreTold, NEW r \in Restores, NEW pc, Ended(r, pc), Replacing(r),
         pc \in {"refused", "failed", "done", "stuck"}, dbFiles' = dbFiles, dbTorn \subseteq dbTorn',
         pc \in {"refused", "failed"} => dbRestore[r].pc \in {"flushed", "restoring"},
         \/ dbRestore[r].path \in dbTorn'
         \/ dbRestore[r].pc \in {"flushed", "restoring", "secured", "cleared"}
  PROVE  FilesAreTold'
<1> DEFINE p == dbRestore[r].path  b == dbRestore[r].file
<1>1. /\ dbRestore'[r].pc = pc /\ dbRestore'[r].target = dbRestore[r].target
      /\ \A q \in Restores \ {r} : dbRestore'[q] = dbRestore[q]
  BY DEF Ended, Unasked, SwapTypeOK
<1>2. \A q \in Restores : Replacing(q) => q = r
  BY OneReplaces
<1>3. \A q \in Restores : ~Replacing(q)'
  BY <1>1, <1>2 DEF Replacing
<1>4. /\ p = dbRestore[r].target /\ r \notin Names(b)
      /\ \A h \in Homes \ {p} : r \notin Names(dbFiles[h])
      /\ FileOf(r, dbRestore[r].pc, p, dbFiles[p], b)
      /\ p \notin dbTorn => Whole(p, b)
  BY DEF FilesAreTold, CopiesTell
<1>5. \A q \in Restores : Untouched(q)' => \A h \in Homes : q \notin Names(dbFiles[h])
  <2>1. Untouched(r)' => dbFiles[p] = b
    BY <1>1, <1>4 DEF Untouched, FileOf
  <2>2. \A q \in Restores \ {r} : Untouched(q)' => Untouched(q)
    BY <1>1 DEF Untouched
  <2>. QED
    BY <1>4, <2>1, <2>2 DEF FilesAreTold, NothingIsLeft
<1>6. p \notin dbTorn' => Whole(p, dbFiles[p])
  <2> SUFFICES ASSUME p \notin dbTorn' PROVE Whole(p, dbFiles[p])
    OBVIOUS
  <2>1. CASE dbRestore[r].pc \in {"flushed", "restoring"}
    BY <2>1, <1>4 DEF FileOf
  <2>2. CASE dbRestore[r].pc \in {"secured", "cleared"}
    <3>1. /\ dbFiles[p].set = r /\ dbFiles[p].secret = [of |-> p, since |-> r]
          /\ dbFiles[p].trash = TrashOf(r, b)
      BY <2>2, <1>4 DEF FileOf
    <3>. QED
      BY <3>1, <1>4, SwapAssumption DEF Whole, TrashOf, Restores
  <2>. QED
    BY <2>1, <2>2
<1>7. \A q \in Restores : dbRestore'[q].target = dbRestore[q].target
  BY <1>1
<1> HIDE DEF p, b
<1>8. \A q \in Restores : Replacing(q) /\ dbRestore[q].path \notin dbTorn' =>
        Whole(dbRestore[q].path, dbFiles[dbRestore[q].path])
  BY <1>2, <1>6 DEF p
<1>. QED
  BY <1>3, <1>5, <1>7, <1>8, EndTold

\* A process that ends gives up the places it had begun to change.
LEMMA StopTold ==
  ASSUME SwapTypeOK, GateIsUp, FilesAreTold, Stop
  PROVE  FilesAreTold'
<1>1. /\ dbFiles' = dbFiles /\ dbTorn \subseteq dbTorn'
      /\ \A q \in Restores : Changed(q) \subseteq dbTorn'
  BY DEF Stop
<1>2. \A q \in Restores : /\ dbRestore'[q].target = dbRestore[q].target
                          /\ ~Replacing(q)'
                          /\ Untouched(q)' => Untouched(q)
  BY DEF Stop, Unended, Unasked, Replacing, Untouched, SwapTypeOK
<1>3. \A q \in Restores : Untouched(q)' => \A h \in Homes : q \notin Names(dbFiles[h])
  BY <1>2 DEF FilesAreTold, NothingIsLeft
<1>4. ASSUME NEW q \in Restores, Replacing(q), dbRestore[q].path \notin dbTorn'
      PROVE  Whole(dbRestore[q].path, dbFiles[dbRestore[q].path])
  <2> DEFINE p == dbRestore[q].path  b == dbRestore[q].file
  <2>1. dbRestore[q].pc \in {"flushed", "restoring", "secured", "cleared"}
    BY <1>1, <1>4 DEF Changed, Replacing
  <2>2. /\ p = dbRestore[q].target /\ FileOf(q, dbRestore[q].pc, p, dbFiles[p], b)
        /\ p \notin dbTorn => Whole(p, b)
    BY <1>4 DEF FilesAreTold, CopiesTell
  <2>3. CASE dbRestore[q].pc \in {"flushed", "restoring"}
    BY <1>1, <1>4, <2>2, <2>3 DEF FileOf
  <2>4. CASE dbRestore[q].pc \in {"secured", "cleared"}
    <3>1. /\ dbFiles[p].set = q /\ dbFiles[p].secret = [of |-> p, since |-> q]
          /\ dbFiles[p].trash = TrashOf(q, b)
      BY <2>2, <2>4 DEF FileOf
    <3>. QED
      BY <3>1, <2>2, SwapAssumption DEF Whole, TrashOf, Restores
  <2>. QED
    BY <2>1, <2>3, <2>4
<1>. QED
  BY <1>1, <1>2, <1>3, <1>4, EndTold

\* Every step keeps the files told.
LEMMA FilesStep == SwapInv /\ FilesAreTold /\ [SwapNext]_dbVars => FilesAreTold'
<1> SUFFICES ASSUME SwapTypeOK, GateIsUp, FilesAreTold, [SwapNext]_dbVars PROVE FilesAreTold'
  BY DEF SwapInv
<1>1. ASSUME NEW x \in Servers, ServerStep(x) PROVE FilesAreTold'
  BY <1>1, QuietTold DEF ServerStep, ReadPointer, StorePointer, EnterPlain, LeavePlain, MissSecret,
     EnterSecret, LoadSecret, StoreSecret, EnterContext, LeaveContext, restoreVars
<1>2. ASSUME NEW x \in Workers, WorkerStep(x) PROVE FilesAreTold'
  BY <1>2, QuietTold DEF WorkerStep, CaptureOperation, EnterShare, LeaveShare, WantInner, EnterInner,
     LeaveInner, EndOperation, EnterContext, LeaveContext, restoreVars
<1>3. CASE AccountStep
  BY <1>3, QuietTold DEF AccountStep, BeginLogin, EndLogin, Logout, restoreVars
<1>4. CASE UNCHANGED dbVars
  BY <1>4, QuietTold DEF dbVars
<1>5. ASSUME NEW r \in Restores, Admit(r) PROVE FilesAreTold'
  <2>1. /\ Untouched(r) /\ Untouched(r)' /\ dbFiles' = dbFiles /\ dbTorn' = dbTorn
        /\ \A q \in Restores \ {r} : dbRestore'[q] = dbRestore[q]
    BY <1>5 DEF Admit, Untouched, SwapTypeOK, Restore
  <2>. QED
    BY <2>1, RequestTold
<1>6. ASSUME NEW r \in Restores, TakeGate(r) PROVE FilesAreTold'
  <2>1. /\ Untouched(r) /\ Untouched(r)' /\ dbFiles' = dbFiles /\ dbTorn' = dbTorn
        /\ \A q \in Restores \ {r} : dbRestore'[q] = dbRestore[q]
    BY <1>6 DEF TakeGate, Moved, Ended, Unasked, Untouched, SwapTypeOK, Restore
  <2>. QED
    BY <2>1, RequestTold
<1>7. ASSUME NEW r \in Restores, DrainTimesOut(r) PROVE FilesAreTold'
  <2>1. /\ Untouched(r) /\ Untouched(r)' /\ dbFiles' = dbFiles /\ dbTorn' = dbTorn
        /\ \A q \in Restores \ {r} : dbRestore'[q] = dbRestore[q]
    BY <1>7 DEF DrainTimesOut, Ended, Unasked, Untouched, SwapTypeOK, Restore
  <2>. QED
    BY <2>1, RequestTold
<1>8. ASSUME NEW r \in Restores, FinishRestore(r) PROVE FilesAreTold'
  BY <1>8, EndedTold DEF FinishRestore, Replacing
<1>9. ASSUME NEW r \in Restores, Abandon(r) PROVE FilesAreTold'
  BY <1>9, EndedTold DEF Abandon, Replacing
<1>10. ASSUME NEW r \in Restores, RollPointer(r) PROVE FilesAreTold'
  BY <1>10, EndedTold DEF RollPointer, Replacing
<1>11. ASSUME NEW r \in Restores, RollFails(r) PROVE FilesAreTold'
  <2>1. /\ Ended(r, "stuck") /\ Replacing(r) /\ dbFiles' = dbFiles /\ dbTorn \subseteq dbTorn'
        /\ dbRestore[r].path \in dbTorn' \/ dbRestore[r].pc = "restoring"
    BY <1>11 DEF RollFails, Changed, Replacing
  <2>. QED
    BY <2>1, EndedTold
<1>. QED
  BY <1>1, <1>2, <1>3, <1>4, <1>5, <1>6, <1>7, <1>8, <1>9, <1>10, <1>11, DrainedTold, FailTold,
     ClearTold, ReplaceContentTold, ReplaceTrashTold, SecureTold, RollContentTold, RollTrashTold,
     StopTold
     DEF SwapNext, RestoreStep

\* What is served behind no gate is whole: content, trash and secret are of one
\* set, in the place it was asked for, and a restore that was refused or failed
\* has left nothing (_install_db and its rollback).
THEOREM ServedIsWholeTheorem == SwapSpec => []ServedIsWhole
<1>1. SwapInit => FilesAreTold
  BY SwapAssumption DEF SwapInit, FilesAreTold, NothingIsLeft, CopiesTell, PlacesAreWhole, Replacing,
     Untouched, Unasked, OwnFile, Names, Whole, Restores
<1>2. SwapInv /\ FilesAreTold => ServedIsWhole
  <2> SUFFICES ASSUME SwapTypeOK, GateIsUp, FilesAreTold, dbGate = NoOne
               PROVE  /\ \A p \in Homes \ dbTorn : Whole(p, dbFiles[p])
                      /\ \A r \in Restores : Untouched(r) => \A p \in Homes : r \notin Names(dbFiles[p])
    BY DEF SwapInv, ServedIsWhole, Whole, Untouched, Names
  <2>1. \A r \in Restores : ~Replacing(r)
    BY SwapAssumption DEF GateIsUp
  <2>. QED
    BY <2>1 DEF FilesAreTold, PlacesAreWhole, NothingIsLeft
<1>. QED
  BY <1>1, <1>2, FilesStep, SwapInvariant, PTL DEF SwapSpec

-----------------------------------------------------------------------------
(***************************************************************************)
(* The hub and a shared card together.  They share no state.               *)
(***************************************************************************)

\* A step of the two is a step of one of them.
LEMMA ShareAndSwapSteps ==
  ASSUME [Share \/ Swap]_shareVars
  PROVE  [Next]_vars /\ [SwapNext]_dbVars
BY DEF Share, Swap, shareVars

\* The card, its ledger row, the turns, the hub's files, threads and restores
\* keep their types (ShareAndSwapTypeOK).
THEOREM ShareAndSwapTypeCorrect == ShareAndSwapSpec => []ShareAndSwapTypeOK
<1>1. ShareAndSwapInit => ShareInv /\ SwapInv
  BY ShareInvInit, SwapInvInit DEF ShareAndSwapInit
<1>2. ShareInv /\ SwapInv /\ [Share \/ Swap]_shareVars => ShareInv' /\ SwapInv'
  BY ShareAndSwapSteps, ShareInvStep, SwapInvStep
<1>3. ShareInv /\ SwapInv => ShareAndSwapTypeOK
  BY DEF ShareInv, SwapInv, ShareAndSwapTypeOK
<1>. QED BY <1>1, <1>2, <1>3, PTL DEF ShareAndSwapSpec

==========================================================================
