---------------------------- MODULE Trash_proofs ----------------------------
(*****************************************************************************)
(* What is proved of the trash: the transfer of cards implements CardPlace   *)
(* and can always be settled, for any number of cards, operations,           *)
(* processes and faults; and a card that is deleted and restored while its   *)
(* generation is on its way tells what happened, for any number of trips     *)
(* and faults.                                                               *)
(*****************************************************************************)
EXTENDS TrashTransfer, CardTrash, TLAPS

-----------------------------------------------------------------------------
(*****************************************************************************)
(* The transfer of cards between the two databases.                          *)
(*****************************************************************************)

\* The files and the processes start with their types.
LEMMA TransferTypeInit == TtInit => TtTypeOK
<1> SUFFICES ASSUME TtInit PROVE TtTypeOK
  OBVIOUS
<1>1. ttMain \in Rows /\ ttTrash \in Rows
  BY TransferAssumption DEF TransferAssumption, TtInit, Rows, Held, Absent
<1>2. ttOps \in [TtOps -> Op]
  BY TransferAssumption DEF TransferAssumption, TtInit, Op, Held
<1>3. ttAt \in [TtProcs -> At]
  <2>1. Resting \in At
    BY DEF Resting, Stopped, At
  <2>. QED
    BY <2>1 DEF TtInit
<1>4. ttFaults \in 0..MaxTtFaults
  BY TransferAssumption DEF TransferAssumption, TtInit
<1>5. ttMarkers \subseteq TtOps /\ ttMerged \subseteq TtCards /\ ttListed \subseteq TtCards
  BY DEF TtInit
<1>. QED
  BY <1>1, <1>2, <1>3, <1>4, <1>5 DEF TtTypeOK

\* A process is at rest, or stopped, after it gave up.
LEMMA GivesUp ==
  ASSUME TtTypeOK, NEW p \in TtProcs, ttAt' = GaveUp(p)
  PROVE  /\ ttAt' \in [TtProcs -> At]
         /\ \A q \in TtProcs \ {p} : ttAt'[q] = ttAt[q]
         /\ ~Locks(p)'
<1> DEFINE t == IF ttAt[p].up THEN Resting ELSE Stopped
<1>1. Resting \in At /\ Stopped \in At
  BY DEF Resting, Stopped, At
<1>2. t \in At /\ t.pc \in {"idle", "down"}
  BY <1>1 DEF Resting, Stopped
<1>3. ttAt' = [ttAt EXCEPT ![p] = t]
  BY DEF GaveUp
<1>. QED
  BY <1>2, <1>3 DEF TtTypeOK, Locks

\* Where a process that goes on stands.
Stands(p, pc, op) ==
  /\ ttAt' \in [TtProcs -> At]
  /\ \A q \in TtProcs \ {p} : ttAt'[q] = ttAt[q]
  /\ ttAt'[p].pc = pc
  /\ ttAt'[p].op = op

\* A process that takes a place of the protocol.
LEMMA GoesOn ==
  ASSUME TtTypeOK, NEW p \in TtProcs, NEW pc, NEW op \in SUBSET TtOps,
         pc \in {"prepared", "committed", "completed", "forgotten", "scanned", "idle"}
  PROVE  /\ ttAt' = [ttAt EXCEPT ![p].pc = pc] => Stands(p, pc, ttAt[p].op)
         /\ ttAt' = [ttAt EXCEPT ![p].pc = pc, ![p].op = op] => Stands(p, pc, op)
         /\ ttAt' = [ttAt EXCEPT ![p].op = op, ![p].pc = pc] => Stands(p, pc, op)
<1> DEFINE t(o) == [ttAt[p] EXCEPT !.pc = pc, !.op = o]
<1>1. ASSUME NEW o \in SUBSET TtOps, ttAt' = [ttAt EXCEPT ![p] = t(o)] PROVE Stands(p, pc, o)
  <2>1. t(o) \in At /\ t(o).pc = pc /\ t(o).op = o
    BY DEF TtTypeOK, At
  <2>. QED
    BY <1>1, <2>1 DEF TtTypeOK, Stands
<1>2. ttAt[p].op \in SUBSET TtOps
  BY DEF TtTypeOK, At
<1>3. /\ [ttAt EXCEPT ![p].pc = pc] = [ttAt EXCEPT ![p] = t(ttAt[p].op)]
      /\ [ttAt EXCEPT ![p].pc = pc, ![p].op = op] = [ttAt EXCEPT ![p] = t(op)]
      /\ [ttAt EXCEPT ![p].op = op, ![p].pc = pc] = [ttAt EXCEPT ![p] = t(op)]
  BY DEF TtTypeOK, At
<1>. QED
  BY <1>1, <1>2, <1>3

\* Where the steps of a transfer leave the process (_prepare, _finish).
LEMMA PrepareStands ==
  ASSUME TtTypeOK, NEW p \in TtProcs, NEW dir, NEW c, NEW is, Prepare(p, dir, c, is)
  PROVE  \E o \in InPhase("none") :
           /\ ttOps' = [ttOps EXCEPT ![o] = [phase |-> "prepared", dir |-> dir, card |-> c,
                                             sha |-> is, kept |-> TRUE]]
           /\ Stands(p, "prepared", {o})
<1>1. PICK o \in InPhase("none") :
        /\ ttOps' = [ttOps EXCEPT ![o] = [phase |-> "prepared", dir |-> dir, card |-> c,
                                          sha |-> is, kept |-> TRUE]]
        /\ ttAt' = [ttAt EXCEPT ![p].pc = "prepared", ![p].op = {o}]
  BY DEF Prepare
<1>2. {o} \in SUBSET TtOps
  BY DEF InPhase
<1>3. Stands(p, "prepared", {o})
  BY <1>1, <1>2, GoesOn
<1>. QED
  BY <1>1, <1>3

LEMMA CompleteStands ==
  ASSUME TtTypeOK, NEW p \in TtProcs, NEW o \in TtOps,
         ttAt' = [ttAt EXCEPT ![p].pc = "completed", ![p].op = {o}]
  PROVE  Stands(p, "completed", {o})
<1>1. {o} \in SUBSET TtOps
  OBVIOUS
<1>. QED
  BY <1>1, GoesOn

LEMMA DropStands ==
  ASSUME TtTypeOK, NEW p \in TtProcs, DropMarker(p)
  PROVE  Stands(p, IF ttAt[p].todo = {} THEN "idle" ELSE "scanned", {})
<1> DEFINE pc == IF ttAt[p].todo = {} THEN "idle" ELSE "scanned"
<1>1. ttAt' = [ttAt EXCEPT ![p].op = {}, ![p].pc = pc]
  BY DEF DropMarker
<1>2. pc \in {"scanned", "idle"} /\ {} \in SUBSET TtOps
  OBVIOUS
<1> HIDE DEF pc
<1>3. Stands(p, pc, {})
  BY <1>1, <1>2, GoesOn
<1>. QED
  BY <1>3 DEF pc

\* Every step keeps the types (move, restore, _finish, reconcile, and the
\* writers beside them).
LEMMA TransferTypeStep == TtTypeOK /\ [TtNext]_ttVars => TtTypeOK'
<1> SUFFICES ASSUME TtTypeOK, [TtNext]_ttVars PROVE TtTypeOK'
  OBVIOUS
<1> USE DEF TtTypeOK, ttFiles
<1>1. ASSUME NEW p \in TtProcs, NEW c \in TtCards, MoveToTrash(p, c) \/ RestoreFromTrash(p, c)
      PROVE  TtTypeOK'
  <2>1. PICK dir \in {"delete", "restore"}, is \in Held : Prepare(p, dir, c, is)
    BY <1>1 DEF MoveToTrash, RestoreFromTrash, Live, Trashed, Rows
  <2>2. ttAt' \in [TtProcs -> At] /\ ttOps' \in [TtOps -> Op]
    <3> DEFINE new == [phase |-> "prepared", dir |-> dir, card |-> c, sha |-> is, kept |-> TRUE]
    <3>1. PICK o \in InPhase("none") : /\ ttOps' = [ttOps EXCEPT ![o] = new]
                                       /\ Stands(p, "prepared", {o})
      BY <2>1, PrepareStands
    <3>2. new \in Op
      BY DEF Op
    <3>. QED
      BY <3>1, <3>2 DEF Stands
  <2>. QED
    BY <2>1, <2>2 DEF Prepare
<1>2. ASSUME NEW p \in TtProcs, CommitMain(p) PROVE TtTypeOK'
  <2>1. ttAt' \in [TtProcs -> At]
    BY <1>2 DEF CommitMain, At
  <2>. QED
    BY <1>2, <2>1 DEF CommitMain, Op, At, Rows
<1>3. ASSUME NEW p \in TtProcs, NEW o \in TtOps, CompleteOp(p, o) PROVE TtTypeOK'
  <2>1. ttAt' \in [TtProcs -> At]
    BY <1>3, GivesUp, CompleteStands DEF CompleteOp, Stands
  <2>. QED
    BY <1>3, <2>1 DEF CompleteOp, Op, Rows
<1>4. ASSUME NEW p \in TtProcs, Finish(p) PROVE TtTypeOK'
  <2>1. PICK o \in ttAt[p].op : IF o \in ttMarkers THEN CompleteOp(p, o)
                                ELSE /\ ttAt' = GaveUp(p)
                                     /\ UNCHANGED <<ttFiles, ttMerged, ttListed, ttFaults>>
    BY <1>4 DEF Finish
  <2>. QED
    BY <1>3, <2>1, GivesUp DEF At
<1>5. ASSUME NEW p \in TtProcs, ForgetPayload(p) PROVE TtTypeOK'
  <2>1. ttAt' \in [TtProcs -> At]
    BY <1>5 DEF ForgetPayload, At
  <2>2. ttOps' \in [TtOps -> Op]
    BY <1>5 DEF ForgetPayload, Op
  <2>. QED
    BY <1>5, <2>1, <2>2 DEF ForgetPayload
<1>6. ASSUME NEW p \in TtProcs, DropMarker(p) PROVE TtTypeOK'
  BY <1>6, DropStands DEF DropMarker, Stands
<1>7. ASSUME NEW p \in TtProcs, Scan(p) PROVE TtTypeOK'
  <2> DEFINE t == [ttAt[p] EXCEPT !.pc = "scanned",
                                  !.todo = InPhase("prepared") \cup ttMarkers
                                             \cup {o \in TtOps : ttOps[o].kept}]
  <2>1. t \in At
    BY DEF InPhase, At
  <2>2. ttAt' = [ttAt EXCEPT ![p] = t]
    BY <1>7 DEF Scan, At
  <2>. QED
    BY <1>7, <2>1, <2>2 DEF Scan
<1>8. ASSUME NEW p \in TtProcs, NEW o \in TtOps, CancelOp(p, o) PROVE TtTypeOK'
  <2>1. ttAt' \in [TtProcs -> At]
    BY <1>8, GivesUp DEF CancelOp, At
  <2>2. ttOps' \in [TtOps -> Op]
    BY <1>8 DEF CancelOp, Op
  <2>. QED
    BY <1>8, <2>1, <2>2 DEF CancelOp
<1>9. ASSUME NEW p \in TtProcs, ReconcileOp(p) PROVE TtTypeOK'
  <2>1. PICK o \in ttAt[p].todo :
          \/ /\ Settled(o)
             /\ ttAt' = [ttAt EXCEPT ![p].todo = @ \ {o}]
             /\ UNCHANGED <<ttFiles, ttMerged, ttListed, ttFaults>>
          \/ o \in ttMarkers /\ CompleteOp(p, o)
          \/ ~Settled(o) /\ o \notin ttMarkers /\ CancelOp(p, o)
    BY <1>9 DEF ReconcileOp
  <2>. QED
    BY <1>3, <1>8, <2>1 DEF At
<1>10. ASSUME NEW p \in TtProcs, Reconciled(p) PROVE TtTypeOK'
  BY <1>10 DEF Reconciled, Resting, Stopped, At
<1>11. ASSUME NEW p \in TtProcs, TtCrash(p) \/ TtFails(p) PROVE TtTypeOK'
  <2>1. ttAt' \in [TtProcs -> At]
    <3>1. Stopped \in At
      BY DEF Stopped, At
    <3>. QED
      BY <1>11, <3>1, GivesUp DEF TtCrash, TtFails
  <2>. QED
    BY <1>11, <2>1, TransferAssumption DEF TransferAssumption, TtCrash, TtFails, TtFault
<1>12. ASSUME NEW c \in TtCards, Purge(c) \/ Annotate(c) \/ Edit(c) \/ Merge(c) \/ List(c)
       PROVE  TtTypeOK'
  BY <1>12, TransferAssumption
  DEF TransferAssumption, Purge, Annotate, Edit, Merge, List, Rows, Held
<1>13. CASE UNCHANGED ttVars
  BY <1>13 DEF ttVars
<1>. QED
  BY <1>1, <1>2, <1>4, <1>5, <1>6, <1>7, <1>9, <1>10, <1>11, <1>12, <1>13
  DEF TtNext, Transfer, Recover

-----------------------------------------------------------------------------
\* A step that leaves the files alone and takes no lock.
LEMMA QuietStep ==
  ASSUME TtInv, TtTypeOK', UNCHANGED <<ttFiles, ttMerged, ttListed>>,
         \A q \in TtProcs : Locks(q)' => ttAt'[q].pc = ttAt[q].pc /\ ttAt'[q].op = ttAt[q].op
  PROVE  TtInv'
<1> USE DEF TtInv, OneTransfer, LockFits, PreparedFits, OnePlace, TtTypeOK, Rows, Held, Absent,
            Op, At, Unsettled, InPhase, Locks, Live, Trashed, ttFiles
<1>1. OneTransfer'
  OBVIOUS
<1>2. LockFits'
  OBVIOUS
<1>3. PreparedFits'
  OBVIOUS
<1>4. OnePlace'
  OBVIOUS
<1>. QED
  BY <1>1, <1>2, <1>3, <1>4

\* The copy and the journal (_prepare).
LEMMA PrepareStep ==
  ASSUME TtInv, TtTypeOK', NEW p \in TtProcs, NEW c \in TtCards, NEW dir, NEW is,
         Prepare(p, dir, c, is),
         \/ dir = "delete" /\ Live(c) /\ is = ttMain[c]
         \/ dir = "restore" /\ Trashed(c) /\ ~Live(c) /\ is = ttTrash[c]
  PROVE  TtInv'
<1>1. PICK o \in InPhase("none") :
        /\ ttOps' = [ttOps EXCEPT ![o] = [phase |-> "prepared", dir |-> dir, card |-> c,
                                          sha |-> is, kept |-> TRUE]]
        /\ Stands(p, "prepared", {o})
  BY PrepareStands DEF TtInv
<1>2. /\ ttOps'[o] = [phase |-> "prepared", dir |-> dir, card |-> c, sha |-> is, kept |-> TRUE]
      /\ \A o2 \in TtOps \ {o} : ttOps'[o2] = ttOps[o2]
  BY <1>1 DEF TtInv, TtTypeOK, InPhase
<1>3. Unlocked /\ Unsettled = {} /\ UNCHANGED <<ttMain, ttTrash, ttMarkers, ttMerged, ttListed>>
  BY DEF Prepare, Quiescent, Unsettled
<1>4. InPhase("prepared")' = {o}
  BY <1>1, <1>2, <1>3 DEF TtInv, TtTypeOK, Unsettled, InPhase
<1>5. \A q \in TtProcs \ {p} : ~Locks(q)'
  BY <1>1, <1>3 DEF Stands, Unlocked, Locks
<1>6. ttAt'[p].op = {o} /\ ttAt'[p].pc = "prepared" /\ o \in TtOps
  BY <1>1 DEF Stands, InPhase
<1>7. dir = "delete" => ttMain'[c] = is
  BY <1>3
<1> USE DEF TtInv, OneTransfer, LockFits, PreparedFits, OnePlace, TtTypeOK, Rows, Held, Absent,
            Op, At, Unsettled, InPhase, Locks, Live, Trashed, Unlocked
<1>8. OneTransfer'
  BY <1>1, <1>2, <1>3, <1>4, <1>5, <1>6, <1>7
<1>9. LockFits'
  BY <1>1, <1>2, <1>3, <1>4, <1>5, <1>6, <1>7
<1>10. PreparedFits'
  BY <1>1, <1>2, <1>3, <1>4, <1>5, <1>6, <1>7
<1>11. OnePlace'
  BY <1>1, <1>2, <1>3, <1>4, <1>5, <1>6, <1>7
<1>. QED
  BY <1>8, <1>9, <1>10, <1>11

\* The commit of the main database (D2, R1).
LEMMA CommitStep ==
  ASSUME TtInv, TtTypeOK', NEW p \in TtProcs, CommitMain(p)
  PROVE  TtInv'
<1>1. PICK o \in ttAt[p].op :
        /\ ttMain' = [ttMain EXCEPT ![ttOps[o].card] =
                        IF ttOps[o].dir = "delete" THEN Absent ELSE ttOps[o].sha]
        /\ ttMarkers' = ttMarkers \cup {o}
  BY DEF CommitMain
<1>2. Stands(p, "committed", ttAt[p].op)
  <2>1. ttAt' = [ttAt EXCEPT ![p].pc = "committed"]
    BY DEF CommitMain
  <2>. QED
    BY <2>1, GoesOn DEF TtInv, TtTypeOK, At
<1>3. Locks(p) /\ o \in TtOps /\ o \in InPhase("prepared") /\ o \notin ttMarkers
  BY <1>1 DEF CommitMain, TtInv, TtTypeOK, At, LockFits, InPhase, Locks
<1>4. UNCHANGED <<ttTrash, ttOps, ttMerged, ttListed>>
  BY DEF CommitMain
<1>5. ttMarkers = {} /\ InPhase("prepared") = {o}
  BY <1>3 DEF TtInv, OneTransfer, Unsettled
<1>6. ttAt[p].pc = "prepared"
  BY DEF CommitMain
<1> USE DEF TtInv, OneTransfer, LockFits, PreparedFits, OnePlace, TtTypeOK, Rows, Held, Absent,
            Op, At, Unsettled, InPhase, Locks, Live, Trashed, Stands
<1>7. OneTransfer'
  BY <1>1, <1>2, <1>3, <1>4, <1>5, <1>6
<1>8. LockFits'
  BY <1>1, <1>2, <1>3, <1>4, <1>5, <1>6
<1>9. PreparedFits'
  BY <1>1, <1>2, <1>3, <1>4, <1>5, <1>6
<1>10. OnePlace'
  BY <1>1, <1>2, <1>3, <1>4, <1>5, <1>6
<1>. QED
  BY <1>7, <1>8, <1>9, <1>10

\* What _finish would refuse never comes about.
LEMMA NothingRefused ==
  ASSUME TtInv, NEW o \in ttMarkers, ttOps[o].phase = "prepared"
  PROVE  ~Refused(o)
BY DEF TtInv, PreparedFits, InPhase, Refused, TtTypeOK, Trashed, Op

\* _finish finds the operation completed.
LEMMA AlreadyStep ==
  ASSUME TtInv, TtTypeOK', NEW p \in TtProcs, NEW o \in TtOps, CompleteOp(p, o), Unlocked,
         ttOps[o].phase # "prepared"
  PROVE  TtInv'
<1>1. Stands(p, "completed", {o})
  BY CompleteStands DEF CompleteOp, TtInv
<1>2. UNCHANGED <<ttMain, ttTrash, ttOps, ttMarkers, ttMerged, ttListed>>
  BY DEF CompleteOp
<1> USE DEF TtInv, OneTransfer, LockFits, PreparedFits, OnePlace, TtTypeOK, Rows, Held, Absent,
            Op, At, Unsettled, InPhase, Locks, Live, Trashed, Stands, Unlocked
<1>3. OneTransfer'
  BY <1>1, <1>2
<1>4. LockFits'
  BY <1>1, <1>2
<1>5. PreparedFits'
  BY <1>1, <1>2
<1>6. OnePlace'
  BY <1>1, <1>2
<1>. QED
  BY <1>3, <1>4, <1>5, <1>6

\* The commit of the trash (D3, R2).
LEMMA CompleteStep ==
  ASSUME TtInv, TtTypeOK', NEW p \in TtProcs, NEW o \in ttMarkers, CompleteOp(p, o), Unlocked,
         ttOps[o].phase = "prepared"
  PROVE  TtInv'
<1>1. o \in TtOps /\ ~Refused(o)
  BY NothingRefused DEF TtInv, TtTypeOK
<1>2. Stands(p, "completed", {o})
  BY <1>1, CompleteStands DEF CompleteOp, TtInv
<1>3. /\ ttTrash' = [ttTrash EXCEPT ![ttOps[o].card] =
                       IF ttOps[o].dir = "delete" THEN ttOps[o].sha ELSE Absent]
      /\ ttOps' = [ttOps EXCEPT ![o].phase = "completed"]
      /\ UNCHANGED <<ttMain, ttMarkers, ttMerged, ttListed>>
  BY <1>1 DEF CompleteOp
<1>4. Unsettled = {o} /\ InPhase("prepared")' = {}
  BY <1>1, <1>3 DEF TtInv, TtTypeOK, Op, OneTransfer, Unsettled, InPhase
<1>5. /\ ttOps'[o] = [ttOps[o] EXCEPT !.phase = "completed"]
      /\ \A o2 \in TtOps \ {o} : ttOps'[o2] = ttOps[o2]
  BY <1>1, <1>3 DEF TtInv, TtTypeOK
<1>6. \A o1 \in Unsettled' : o1 = o
  BY <1>3, <1>4 DEF Unsettled
<1>7. \A q \in TtProcs \ {p} : ~Locks(q)'
  BY <1>2 DEF Stands, Unlocked, Locks
<1> USE DEF TtInv, OneTransfer, LockFits, PreparedFits, OnePlace, TtTypeOK, Rows, Held, Absent,
            Op, At, Unsettled, InPhase, Locks, Live, Trashed, Stands, Unlocked
<1>8. OneTransfer'
  BY <1>1, <1>2, <1>3, <1>4, <1>5, <1>6, <1>7
<1>9. LockFits'
  BY <1>1, <1>2, <1>3, <1>4, <1>5, <1>6, <1>7
<1>10. PreparedFits'
  BY <1>1, <1>2, <1>3, <1>4, <1>5, <1>6, <1>7
<1>11. OnePlace'
  BY <1>1, <1>2, <1>3, <1>4, <1>5, <1>6, <1>7
<1>. QED
  BY <1>8, <1>9, <1>10, <1>11

\* The copy is dropped (D4, R3).
LEMMA ForgetStep ==
  ASSUME TtInv, TtTypeOK', NEW p \in TtProcs, ForgetPayload(p)
  PROVE  TtInv'
<1>1. PICK o \in ttAt[p].op : ttOps' = [ttOps EXCEPT ![o].kept = FALSE]
  BY DEF ForgetPayload
<1>2. o \in TtOps /\ o \notin InPhase("prepared")
  BY DEF ForgetPayload, TtInv, TtTypeOK, At, LockFits, InPhase
<1>3. Stands(p, "forgotten", ttAt[p].op)
  <2>1. ttAt' = [ttAt EXCEPT ![p].pc = "forgotten"]
    BY DEF ForgetPayload
  <2>. QED
    BY <2>1, GoesOn DEF TtInv, TtTypeOK, At
<1>4. \A o2 \in TtOps : ttOps'[o2].phase = ttOps[o2].phase
  BY <1>1, <1>2 DEF TtInv, TtTypeOK, Op
<1>5. /\ \A o2 \in TtOps : /\ ttOps'[o2].dir = ttOps[o2].dir
                           /\ ttOps'[o2].card = ttOps[o2].card
                           /\ ttOps'[o2].sha = ttOps[o2].sha
      /\ \A o2 \in TtOps \ {o} : ttOps'[o2].kept = ttOps[o2].kept
  BY <1>1, <1>2 DEF TtInv, TtTypeOK, Op
<1>6. Locks(p) /\ UNCHANGED <<ttMain, ttTrash, ttMarkers, ttMerged, ttListed>>
  BY DEF ForgetPayload, Locks
<1>7. InPhase("prepared")' = InPhase("prepared")
  BY <1>4 DEF InPhase, TtInv, TtTypeOK, Op
<1>8. ttAt[p].pc = "completed"
  BY DEF ForgetPayload
<1> USE DEF TtInv, OneTransfer, LockFits, PreparedFits, OnePlace, TtTypeOK, Rows, Held, Absent,
            Op, At, Unsettled, InPhase, Locks, Live, Trashed, Stands
<1>9. OneTransfer'
  BY <1>1, <1>2, <1>3, <1>4, <1>5, <1>6, <1>7, <1>8
<1>10. LockFits'
  BY <1>1, <1>2, <1>3, <1>4, <1>5, <1>6, <1>7, <1>8
<1>11. PreparedFits'
  BY <1>1, <1>2, <1>3, <1>4, <1>5, <1>6, <1>7, <1>8
<1>12. OnePlace'
  BY <1>1, <1>2, <1>3, <1>4, <1>5, <1>6, <1>7, <1>8
<1>. QED
  BY <1>9, <1>10, <1>11, <1>12

\* Then the marker.
LEMMA DropStep ==
  ASSUME TtInv, TtTypeOK', NEW p \in TtProcs, DropMarker(p)
  PROVE  TtInv'
<1>1. Stands(p, IF ttAt[p].todo = {} THEN "idle" ELSE "scanned", {})
  BY DropStands DEF TtInv
<1>2. ttMarkers' = ttMarkers \ ttAt[p].op /\ UNCHANGED <<ttMain, ttTrash, ttOps, ttMerged, ttListed>>
  BY DEF DropMarker
<1>3. ttAt[p].op \cap InPhase("prepared") = {}
  BY DEF DropMarker, TtInv, LockFits, InPhase
<1> USE DEF TtInv, OneTransfer, LockFits, PreparedFits, OnePlace, TtTypeOK, Rows, Held, Absent,
            Op, At, Unsettled, InPhase, Locks, Live, Trashed, Stands
<1>4. OneTransfer'
  BY <1>1, <1>2, <1>3
<1>5. LockFits'
  BY <1>1, <1>2, <1>3
<1>6. PreparedFits'
  BY <1>1, <1>2, <1>3
<1>7. OnePlace'
  BY <1>1, <1>2, <1>3
<1>. QED
  BY <1>4, <1>5, <1>6, <1>7

\* Reconcile cancels an operation that removed nothing.
LEMMA CancelStep ==
  ASSUME TtInv, TtTypeOK', NEW p \in TtProcs, NEW o \in TtOps, CancelOp(p, o),
         o \notin ttMarkers, Unlocked,
         Source(o)
  PROVE  TtInv'
<1>1. ttOps' = [ttOps EXCEPT ![o].phase = "canceled", ![o].kept = FALSE]
  BY DEF CancelOp
<1>2. \A q \in TtProcs : ~Locks(q)'
  BY DEF CancelOp, Unlocked, Locks, TtInv, TtTypeOK, At
<1>3. /\ ttOps'[o].phase = "canceled"
      /\ \A o2 \in TtOps \ {o} : ttOps'[o2] = ttOps[o2]
  BY <1>1 DEF TtInv, TtTypeOK, Op
<1>4. InPhase("prepared")' = InPhase("prepared") \ {o}
  BY <1>3 DEF InPhase
<1>5. UNCHANGED <<ttMain, ttTrash, ttMarkers, ttMerged, ttListed>>
  BY DEF CancelOp
<1> USE DEF TtInv, OneTransfer, LockFits, PreparedFits, OnePlace, TtTypeOK, Rows, Held, Absent,
            Op, At, Unsettled, InPhase, Locks, Live, Trashed
<1>6. OneTransfer'
  BY <1>1, <1>2, <1>3, <1>4, <1>5
<1>7. LockFits'
  BY <1>1, <1>2, <1>3, <1>4, <1>5
<1>8. PreparedFits'
  BY <1>1, <1>2, <1>3, <1>4, <1>5
<1>9. OnePlace'
  BY <1>1, <1>2, <1>3, <1>4, <1>5
<1>. QED
  BY <1>6, <1>7, <1>8, <1>9

\* The writers beside the protocol.
LEMMA PurgeStep ==
  ASSUME TtInv, TtTypeOK', NEW c \in TtCards, Purge(c)
  PROVE  TtInv'
<1>1. Unlocked /\ Unsettled = {}
  BY DEF Purge, TrashWritable, Quiescent, Unsettled
<1> USE DEF TtInv, OneTransfer, LockFits, PreparedFits, OnePlace, TtTypeOK, Rows, Held, Absent,
            Op, At, Unsettled, InPhase, Locks, Live, Trashed, Unlocked, Purge
<1>2. OneTransfer'
  BY <1>1
<1>3. LockFits'
  BY <1>1
<1>4. PreparedFits'
  BY <1>1
<1>5. OnePlace'
  BY <1>1
<1>. QED
  BY <1>2, <1>3, <1>4, <1>5

LEMMA AnnotateStep ==
  ASSUME TtInv, TtTypeOK', NEW c \in TtCards, Annotate(c)
  PROVE  TtInv'
<1>1. Unlocked /\ Unsettled = {}
  BY DEF Annotate, TrashWritable, Quiescent, Unsettled
<1> USE DEF TtInv, OneTransfer, LockFits, PreparedFits, OnePlace, TtTypeOK, Rows, Held, Absent,
            Op, At, Unsettled, InPhase, Locks, Live, Trashed, Unlocked, Annotate
<1>2. OneTransfer'
  BY <1>1
<1>3. LockFits'
  BY <1>1
<1>4. PreparedFits'
  BY <1>1
<1>5. OnePlace'
  BY <1>1
<1>. QED
  BY <1>2, <1>3, <1>4, <1>5

LEMMA EditStep ==
  ASSUME TtInv, TtTypeOK', NEW c \in TtCards, Edit(c)
  PROVE  TtInv'
<1>1. Unlocked /\ ttMarkers = {}
  BY DEF Edit, MainWritable
<1> USE DEF TtInv, OneTransfer, LockFits, PreparedFits, OnePlace, TtTypeOK, Rows, Held, Absent,
            Op, At, Unsettled, InPhase, Locks, Live, Trashed, Unlocked, ttFiles, Edit
<1>2. OneTransfer'
  BY <1>1
<1>3. LockFits'
  BY <1>1
<1>4. PreparedFits'
  BY <1>1
<1>5. OnePlace'
  BY <1>1
<1>. QED
  BY <1>2, <1>3, <1>4, <1>5

LEMMA MergeStep ==
  ASSUME TtInv, TtTypeOK', NEW c \in TtCards, Merge(c)
  PROVE  TtInv'
<1>1. Unlocked /\ ttMarkers = {}
  BY DEF Merge, MainWritable
<1> USE DEF TtInv, OneTransfer, LockFits, PreparedFits, OnePlace, TtTypeOK, Rows, Held, Absent,
            Op, At, Unsettled, InPhase, Locks, Live, Trashed, Unlocked, ttFiles, Merge
<1>2. OneTransfer'
  BY <1>1
<1>3. LockFits'
  BY <1>1
<1>4. PreparedFits'
  BY <1>1
<1>5. OnePlace'
  BY <1>1
<1>. QED
  BY <1>2, <1>3, <1>4, <1>5

LEMMA ListStep ==
  ASSUME TtInv, TtTypeOK', NEW c \in TtCards, List(c)
  PROVE  TtInv'
<1>1. Unlocked /\ ttMarkers = {}
  BY DEF List, MainWritable
<1> USE DEF TtInv, OneTransfer, LockFits, PreparedFits, OnePlace, TtTypeOK, Rows, Held, Absent,
            Op, At, Unsettled, InPhase, Locks, Live, Trashed, Unlocked, ttFiles, List
<1>2. OneTransfer'
  BY <1>1
<1>3. LockFits'
  BY <1>1
<1>4. PreparedFits'
  BY <1>1
<1>5. OnePlace'
  BY <1>1
<1>. QED
  BY <1>2, <1>3, <1>4, <1>5

-----------------------------------------------------------------------------
\* The invariant holds at the start, and every step keeps it.
LEMMA TransferInvInit == TtInit => TtInv
<1> SUFFICES ASSUME TtInit PROVE TtInv
  OBVIOUS
<1>1. ttMarkers = {} /\ InPhase("prepared") = {} /\ ttMerged = {} /\ ttListed = {}
  BY DEF TtInit, InPhase
<1>2. \A p \in TtProcs : ttAt[p].pc = "idle"
  BY DEF TtInit, Resting, Stopped
<1>3. \A c \in TtCards : ~(Live(c) /\ Trashed(c))
  BY DEF TtInit, Live, Trashed, Absent
<1>. QED
  BY <1>1, <1>2, <1>3, TransferTypeInit
  DEF TtInv, OneTransfer, Unsettled, Locks, LockFits, PreparedFits, OnePlace

\* The steps of _finish and reconcile.
LEMMA FinishStep ==
  ASSUME TtInv, TtTypeOK', NEW p \in TtProcs, NEW o \in ttMarkers, CompleteOp(p, o), Unlocked
  PROVE  TtInv'
<1>1. o \in TtOps
  BY DEF TtInv, TtTypeOK
<1>. QED
  BY <1>1, AlreadyStep, CompleteStep

LEMMA GivesUpStep ==
  ASSUME TtInv, TtTypeOK', NEW p \in TtProcs, ttAt' = GaveUp(p),
         UNCHANGED <<ttFiles, ttMerged, ttListed>>
  PROVE  TtInv'
<1>1. \A q \in TtProcs : Locks(q)' => ttAt'[q].pc = ttAt[q].pc /\ ttAt'[q].op = ttAt[q].op
  BY GivesUp DEF TtInv
<1>. QED
  BY <1>1, QuietStep

LEMMA TransferInvStep == TtInv /\ [TtNext]_ttVars => TtInv'
<1> SUFFICES ASSUME TtInv, [TtNext]_ttVars PROVE TtInv'
  OBVIOUS
<1>0. TtTypeOK'
  BY TransferTypeStep DEF TtInv
<1>1. ASSUME NEW p \in TtProcs, NEW c \in TtCards, MoveToTrash(p, c) PROVE TtInv'
  BY <1>0, <1>1, PrepareStep DEF MoveToTrash
<1>2. ASSUME NEW p \in TtProcs, NEW c \in TtCards, RestoreFromTrash(p, c) PROVE TtInv'
  BY <1>0, <1>2, PrepareStep DEF RestoreFromTrash
<1>3. ASSUME NEW p \in TtProcs, CommitMain(p) \/ ForgetPayload(p) \/ DropMarker(p) PROVE TtInv'
  BY <1>0, <1>3, CommitStep, ForgetStep, DropStep
<1>4. ASSUME NEW p \in TtProcs, Finish(p) PROVE TtInv'
  <2>1. PICK o \in ttAt[p].op : IF o \in ttMarkers THEN CompleteOp(p, o)
                                ELSE /\ ttAt' = GaveUp(p)
                                     /\ UNCHANGED <<ttFiles, ttMerged, ttListed, ttFaults>>
    BY <1>4 DEF Finish
  <2>2. CASE o \in ttMarkers
    BY <1>0, <1>4, <2>1, <2>2, FinishStep DEF Finish
  <2>3. CASE o \notin ttMarkers
    BY <1>0, <2>1, <2>3, GivesUpStep
  <2>. QED
    BY <2>2, <2>3
<1>5. ASSUME NEW p \in TtProcs, Scan(p) \/ Reconciled(p) \/ TtCrash(p) PROVE TtInv'
  <2>1. UNCHANGED <<ttFiles, ttMerged, ttListed>>
    BY <1>5 DEF Scan, Reconciled, TtCrash
  <2>2. \A q \in TtProcs : Locks(q)' => ttAt'[q].pc = ttAt[q].pc /\ ttAt'[q].op = ttAt[q].op
    <3>1. /\ ttAt'[p].pc \in {"scanned", "idle", "down"}
          /\ \A q \in TtProcs \ {p} : ttAt'[q] = ttAt[q]
      <4>1. CASE Scan(p)
        BY <4>1 DEF Scan, TtInv, TtTypeOK, At
      <4>2. CASE Reconciled(p)
        BY <4>2 DEF Reconciled, Resting, Stopped, TtInv, TtTypeOK, At
      <4>3. CASE TtCrash(p)
        BY <4>3 DEF TtCrash, Stopped, TtInv, TtTypeOK, At
      <4>. QED
        BY <1>5, <4>1, <4>2, <4>3
    <3>. QED
      BY <3>1 DEF Locks
  <2>. QED
    BY <1>0, <2>1, <2>2, QuietStep
<1>6. ASSUME NEW p \in TtProcs, ReconcileOp(p) PROVE TtInv'
  <2>1. PICK o \in ttAt[p].todo :
          \/ /\ Settled(o)
             /\ ttAt' = [ttAt EXCEPT ![p].todo = @ \ {o}]
             /\ UNCHANGED <<ttFiles, ttMerged, ttListed, ttFaults>>
          \/ o \in ttMarkers /\ CompleteOp(p, o)
          \/ ~Settled(o) /\ o \notin ttMarkers /\ CancelOp(p, o)
    BY <1>6 DEF ReconcileOp
  <2>2. o \in TtOps /\ Unlocked
    BY <1>6 DEF ReconcileOp, TtInv, TtTypeOK, At
  <2>3. CASE Settled(o) /\ ttAt' = [ttAt EXCEPT ![p].todo = @ \ {o}]
             /\ UNCHANGED <<ttFiles, ttMerged, ttListed, ttFaults>>
    <3>1. \A q \in TtProcs : ttAt'[q].pc = ttAt[q].pc /\ ttAt'[q].op = ttAt[q].op
      BY <2>3 DEF TtInv, TtTypeOK, At
    <3>. QED
      BY <1>0, <2>3, <3>1, QuietStep
  <2>4. CASE o \in ttMarkers /\ CompleteOp(p, o)
    BY <1>0, <2>2, <2>4, FinishStep
  <2>5. CASE o \notin ttMarkers /\ CancelOp(p, o)
    <3>1. CASE Source(o)
      BY <1>0, <2>2, <2>5, <3>1, CancelStep
    <3>2. CASE ~Source(o)
      BY <1>0, <2>5, <3>2, GivesUpStep DEF CancelOp, ttFiles
    <3>. QED
      BY <3>1, <3>2
  <2>. QED
    BY <2>1, <2>3, <2>4, <2>5
<1>7. ASSUME NEW p \in TtProcs, TtFails(p) PROVE TtInv'
  BY <1>0, <1>7, GivesUpStep DEF TtFails
<1>8. ASSUME NEW c \in TtCards, Purge(c) \/ Annotate(c) \/ Edit(c) \/ Merge(c) \/ List(c)
      PROVE  TtInv'
  BY <1>0, <1>8, PurgeStep, AnnotateStep, EditStep, MergeStep, ListStep
<1>9. CASE UNCHANGED ttVars
  BY <1>0, <1>9, QuietStep DEF ttVars, ttFiles
<1>. QED
  BY <1>1, <1>2, <1>3, <1>4, <1>5, <1>6, <1>7, <1>8, <1>9 DEF TtNext, Transfer, Recover

\* One operation is under way at a time, what it copied is where its marker
\* says it is, and every card is in one place (_prepare, _finish, reconcile).
THEOREM TransferInvariant == TtSpec => []TtInv
BY TransferInvInit, TransferInvStep, PTL DEF TtSpec

\* Whatever was interrupted, reconcile can settle it (_finish, reconcile).
THEOREM RecoveryTheorem == TtSpec => []RecoveryIsPossible
<1>1. TtInv => RecoveryIsPossible
  <2> SUFFICES ASSUME TtInv PROVE RecoveryIsPossible
    OBVIOUS
  <2>1. ASSUME NEW o \in InPhase("prepared") \ ttMarkers
        PROVE  Source(o) \/ ttOps[o].card \in ttMerged
    <3>1. ttOps[o] \in Op
      BY DEF TtInv, TtTypeOK, InPhase
    <3>. QED
      BY <3>1 DEF TtInv, PreparedFits, Source, Trashed, Op, Held, Absent, TtTypeOK
  <2>. QED
    BY <2>1, NothingRefused DEF RecoveryIsPossible
<1>. QED
  BY <1>1, TransferInvariant, PTL

-----------------------------------------------------------------------------
\* Where a card is, case by case, before a step and after it.
LEMMA WhereItWas ==
  ASSUME TtInv, NEW c \in TtCards
  PROVE  /\ c \in ttListed => PlaceOf(c) = [at |-> "listed", is |-> 0]
         /\ Live(c) => PlaceOf(c) = [at |-> "live", is |-> ttMain[c]]
         /\ \A o \in OnItsWay(c) : PlaceOf(c) = [at |-> "trash", is |-> ttOps[o].sha]
         /\ ~Live(c) /\ OnItsWay(c) = {} /\ Trashed(c) =>
              PlaceOf(c) = [at |-> "trash", is |-> ttTrash[c]]
         /\ ~Live(c) /\ OnItsWay(c) = {} /\ ~Trashed(c) /\ c \notin ttListed =>
              PlaceOf(c) = [at |-> IF c \in ttMerged THEN "merged" ELSE "purged", is |-> 0]
<1>1. Live(c) \/ Trashed(c) => c \notin ttListed
  BY DEF TtInv, OnePlace
<1>2. \A o \in OnItsWay(c) : ~Live(c) /\ c \notin ttListed /\ OnItsWay(c) = {o}
  BY DEF TtInv, TtTypeOK, OneTransfer, Unsettled, PreparedFits, InPhase, OnItsWay
<1>. QED
  BY <1>1, <1>2 DEF PlaceOf

LEMMA WhereItIs ==
  ASSUME TtInv', NEW c \in TtCards
  PROVE  /\ (c \in ttListed)' => PlaceOf(c)' = [at |-> "listed", is |-> 0]
         /\ Live(c)' => PlaceOf(c)' = [at |-> "live", is |-> ttMain'[c]]
         /\ \A o \in OnItsWay(c)' : PlaceOf(c)' = [at |-> "trash", is |-> ttOps'[o].sha]
         /\ ~Live(c)' /\ OnItsWay(c)' = {} /\ Trashed(c)' =>
              PlaceOf(c)' = [at |-> "trash", is |-> ttTrash'[c]]
         /\ ~Live(c)' /\ OnItsWay(c)' = {} /\ ~Trashed(c)' /\ (c \notin ttListed)' =>
              PlaceOf(c)' = [at |-> IF c \in ttMerged' THEN "merged" ELSE "purged", is |-> 0]
<1>1. Live(c)' \/ Trashed(c)' => (c \notin ttListed)'
  BY DEF TtInv, OnePlace
<1>2. \A o \in OnItsWay(c)' : ~Live(c)' /\ (c \notin ttListed)' /\ OnItsWay(c)' = {o}
  BY DEF TtInv, TtTypeOK, OneTransfer, Unsettled, PreparedFits, InPhase, OnItsWay
<1>. QED
  BY <1>1, <1>2 DEF PlaceOf

\* A card whose rows and whose operation stay is where it was.
LEMMA ItStays ==
  ASSUME TtInv, TtInv', NEW c \in TtCards,
         ttMain'[c] = ttMain[c], ttTrash'[c] = ttTrash[c],
         c \in ttMerged' <=> c \in ttMerged, c \in ttListed' <=> c \in ttListed,
         OnItsWay(c)' = OnItsWay(c), \A o \in OnItsWay(c) : ttOps'[o].sha = ttOps[o].sha
  PROVE  PlaceOf(c)' = PlaceOf(c)
<1>1. (Live(c)' <=> Live(c)) /\ (Trashed(c)' <=> Trashed(c))
  BY DEF Live, Trashed
<1>. QED
  BY <1>1, WhereItWas, WhereItIs

Place == [c \in TtCards |-> PlaceOf(c)]

\* One card goes to another place.
LEMMA OneGoes ==
  ASSUME NEW c \in TtCards, NEW v, PlaceOf(c)' = v,
         \A d \in TtCards \ {c} : PlaceOf(d)' = PlaceOf(d)
  PROVE  Place' = [Place EXCEPT ![c] = v]
BY DEF Place

\* The steps of CardPlace, said of Place.
LEMMA Moves ==
  ASSUME NEW c \in TtCards, NEW from, NEW to, NEW is, Place[c] = [at |-> from, is |-> is],
         Place' = [Place EXCEPT ![c] = [at |-> to, is |-> is]]
  PROVE  Places!Move(c, from, to)
<1>1. [Place[c] EXCEPT !.at = to] = [at |-> to, is |-> is] /\ Place[c].at = from
  OBVIOUS
<1>2. Place' = [Place EXCEPT ![c].at = to]
  BY <1>1
<1>. QED
  BY <1>1, <1>2 DEF Places!Move, Place

LEMMA Changes ==
  ASSUME NEW c \in TtCards, NEW at \in {"live", "trash"}, NEW was, NEW is,
         Place[c] = [at |-> at, is |-> was], Place' = [Place EXCEPT ![c] = [at |-> at, is |-> is]]
  PROVE  Places!Change(c, is)
<1>1. [Place[c] EXCEPT !.is = is] = [at |-> at, is |-> is] /\ Place[c].at = at
  OBVIOUS
<1>2. Place' = [Place EXCEPT ![c].is = is]
  BY <1>1
<1>. QED
  BY <1>1, <1>2 DEF Places!Change, Place

\* A step that moves no card: the rows stay, and so do the operations that
\* are marked and prepared.
LEMMA NoneGoes ==
  ASSUME TtInv, TtInv', UNCHANGED <<ttMain, ttTrash, ttMerged, ttListed>>,
         \A c \in TtCards : OnItsWay(c)' = OnItsWay(c),
         \A c \in TtCards : \A o \in OnItsWay(c) : ttOps'[o].sha = ttOps[o].sha
  PROVE  UNCHANGED Place
BY ItStays DEF Place

\* The commit of the main database is the move (D2, R1).
LEMMA CommitGoes ==
  ASSUME TtInv, TtInv', NEW p \in TtProcs, CommitMain(p)
  PROVE  Places!Next
<1>1. PICK o \in ttAt[p].op :
        /\ ttMain' = [ttMain EXCEPT ![ttOps[o].card] =
                        IF ttOps[o].dir = "delete" THEN Absent ELSE ttOps[o].sha]
        /\ ttMarkers' = ttMarkers \cup {o}
  BY DEF CommitMain
<1>2. UNCHANGED <<ttTrash, ttOps, ttMerged, ttListed>>
  BY DEF CommitMain
<1>3. /\ o \in TtOps /\ o \in InPhase("prepared") /\ o \notin ttMarkers
      /\ ttOps[o].dir = "delete" => ttMain[ttOps[o].card] = ttOps[o].sha
  BY <1>1 DEF CommitMain, TtInv, TtTypeOK, At, LockFits, InPhase
<1>4. ttMarkers = {} /\ InPhase("prepared") = {o}
  BY <1>3 DEF TtInv, OneTransfer, Unsettled
<1>5. PICK c \in TtCards, is \in Held :
        ttOps[o].card = c /\ ttOps[o].sha = is /\ ttOps[o].dir \in {"delete", "restore"}
  BY <1>3 DEF TtInv, TtTypeOK, Op
<1>6. \A d \in TtCards : OnItsWay(d) = {}
  BY <1>4 DEF OnItsWay
<1>7. \A d \in TtCards : OnItsWay(d)' = IF ttOps[o].dir = "delete" /\ d = c THEN {o} ELSE {}
  BY <1>1, <1>2, <1>3, <1>4, <1>5 DEF OnItsWay, InPhase
<1>8. \A d \in TtCards \ {c} : PlaceOf(d)' = PlaceOf(d)
  <2>1. \A d \in TtCards \ {c} : ttMain'[d] = ttMain[d]
    BY <1>1, <1>5 DEF TtInv, TtTypeOK, Rows
  <2>. QED
    BY <1>2, <1>6, <1>7, <2>1, ItStays
<1>9. CASE ttOps[o].dir = "delete"
  <2>1. PlaceOf(c) = [at |-> "live", is |-> is]
    <3>1. Live(c)
      BY <1>3, <1>5, <1>9 DEF Live, Held, Absent
    <3>. QED
      BY <1>3, <1>5, <1>9, <3>1, WhereItWas
  <2>2. PlaceOf(c)' = [at |-> "trash", is |-> is]
    BY <1>2, <1>5, <1>7, <1>9, WhereItIs
  <2>3. Place' = [Place EXCEPT ![c] = [at |-> "trash", is |-> is]]
    BY <1>5, <1>8, <2>2, OneGoes
  <2>4. Place[c] = [at |-> "live", is |-> is]
    BY <2>1 DEF Place
  <2>5. Places!Move(c, "live", "trash")
    BY <2>3, <2>4, Moves
  <2>. QED
    BY <1>5, <2>5 DEF Places!Next
<1>10. CASE ttOps[o].dir = "restore"
  <2>1. PlaceOf(c) = [at |-> "trash", is |-> is]
    <3>1. ~Live(c) /\ Trashed(c) /\ ttTrash[c] = is
      BY <1>3, <1>5, <1>10 DEF TtInv, PreparedFits, Trashed, Held, Absent
    <3>. QED
      BY <1>5, <1>6, <3>1, WhereItWas
  <2>2. PlaceOf(c)' = [at |-> "live", is |-> is]
    <3>1. ttMain'[c] = is
      BY <1>1, <1>5, <1>10 DEF TtInv, TtTypeOK, Rows
    <3>2. Live(c)'
      BY <1>5, <3>1 DEF Live, Held, Absent
    <3>. QED
      BY <1>5, <3>1, <3>2, WhereItIs
  <2>3. Place' = [Place EXCEPT ![c] = [at |-> "live", is |-> is]]
    BY <1>5, <1>8, <2>2, OneGoes
  <2>4. Place[c] = [at |-> "trash", is |-> is]
    BY <2>1 DEF Place
  <2>5. Places!Move(c, "trash", "live")
    BY <2>3, <2>4, Moves
  <2>. QED
    BY <1>5, <2>5 DEF Places!Next
<1>. QED
  BY <1>5, <1>9, <1>10

\* The commit of the trash moves nothing: the card was there already.
LEMMA CompleteGoes ==
  ASSUME TtInv, TtInv', NEW p \in TtProcs, NEW o \in ttMarkers, CompleteOp(p, o)
  PROVE  UNCHANGED Place
<1>0. PICK c \in TtCards, is \in Held :
        /\ o \in TtOps
        /\ ttOps[o].card = c /\ ttOps[o].sha = is /\ ttOps[o].dir \in {"delete", "restore"}
  BY DEF TtInv, TtTypeOK, Op
<1>1. CASE ttOps[o].phase # "prepared"
  <2>1. UNCHANGED <<ttMain, ttTrash, ttOps, ttMarkers, ttMerged, ttListed>>
    BY <1>1 DEF CompleteOp
  <2>. QED
    BY <2>1, NoneGoes DEF OnItsWay
<1>2. CASE ttOps[o].phase = "prepared"
  <2>1. /\ ttTrash' = [ttTrash EXCEPT ![c] =
                         IF ttOps[o].dir = "delete" THEN is ELSE Absent]
        /\ ttOps' = [ttOps EXCEPT ![o].phase = "completed"]
        /\ UNCHANGED <<ttMain, ttMarkers, ttMerged, ttListed>>
    BY <1>0, <1>2, NothingRefused DEF CompleteOp
  <2>2. o \in InPhase("prepared")
    BY <1>0, <1>2 DEF InPhase
  <2>3. ttMarkers = {o}
    BY <1>0, <2>2 DEF TtInv, OneTransfer, Unsettled
  <2>4. \A d \in TtCards : OnItsWay(d) = IF ttOps[o].dir = "delete" /\ d = c THEN {o} ELSE {}
    BY <1>0, <1>2, <2>3 DEF OnItsWay
  <2>5. \A d \in TtCards : OnItsWay(d)' = {}
    <3>1. ttOps'[o].phase = "completed"
      BY <2>1, <1>0, <2>2 DEF TtInv, TtTypeOK, Op
    <3>. QED
      BY <1>0, <2>1, <2>3, <3>1 DEF OnItsWay
  <2>6. \A d \in TtCards \ {c} : PlaceOf(d)' = PlaceOf(d)
    <3>1. \A d \in TtCards \ {c} : ttTrash'[d] = ttTrash[d]
      BY <2>1, <1>0, <2>2 DEF TtInv, TtTypeOK, Rows
    <3>. QED
      BY <2>1, <2>4, <2>5, <3>1, ItStays
  <2>7. PlaceOf(c)' = PlaceOf(c)
    <3>1. CASE ttOps[o].dir = "delete"
      <4>1. PlaceOf(c) = [at |-> "trash", is |-> is]
        BY <1>0, <2>2, <2>4, <3>1, WhereItWas
      <4>2. ~Live(c)' /\ Trashed(c)' /\ ttTrash'[c] = is
        <5>1. ttTrash'[c] = is
          BY <2>1, <1>0, <2>2, <3>1 DEF TtInv, TtTypeOK, Rows
        <5>2. ~Live(c)
          BY <1>0, <2>2, <2>3, <3>1 DEF TtInv, PreparedFits
        <5>. QED
          BY <2>1, <1>0, <2>2, <5>1, <5>2 DEF Live, Trashed, Held, Absent
      <4>. QED
        BY <1>0, <2>2, <2>5, <4>1, <4>2, WhereItIs
    <3>2. CASE ttOps[o].dir = "restore"
      <4>1. Live(c) /\ Live(c)' /\ ttMain'[c] = ttMain[c]
        BY <2>1, <1>0, <2>2, <2>3, <3>2 DEF TtInv, PreparedFits, Live
      <4>. QED
        BY <1>0, <2>2, <4>1, WhereItWas, WhereItIs
    <3>. QED
      BY <1>0, <2>2, <3>1, <3>2
  <2>. QED
    BY <2>6, <2>7 DEF Place
<1>. QED
  BY <1>1, <1>2

\* The writers beside the protocol lose a card, or change what it holds.
LEMMA WritersGo ==
  ASSUME TtInv, TtInv', NEW c \in TtCards,
         Purge(c) \/ Annotate(c) \/ Edit(c) \/ Merge(c) \/ List(c)
  PROVE  Places!Next \/ UNCHANGED Place
<1>1. \A d \in TtCards : OnItsWay(d) = {} /\ OnItsWay(d)' = {}
  BY DEF Purge, Annotate, Edit, Merge, List, MainWritable, TrashWritable, Quiescent, OnItsWay, ttFiles
<1>2. \A d \in TtCards \ {c} : PlaceOf(d)' = PlaceOf(d)
  <2>1. \A d \in TtCards \ {c} :
          /\ ttMain'[d] = ttMain[d] /\ ttTrash'[d] = ttTrash[d]
          /\ d \in ttMerged' <=> d \in ttMerged
          /\ d \in ttListed' <=> d \in ttListed
    BY DEF Purge, Annotate, Edit, Merge, List, ttFiles, TtInv, TtTypeOK, Rows
  <2>. QED
    BY <1>1, <2>1, ItStays
<1>3. Trashed(c) /\ (Purge(c) \/ Annotate(c)) => ~Live(c) /\ c \notin ttMerged
  BY DEF Purge, Annotate, TrashWritable, Quiescent, TtInv, OnePlace
<1>4. CASE Purge(c)
  <2>1. PlaceOf(c).at = "trash"
    BY <1>1, <1>3, <1>4, WhereItWas DEF Purge
  <2>2. PlaceOf(c)' = [at |-> "purged", is |-> 0]
    <3>1. ~Live(c)' /\ ~Trashed(c)' /\ (c \notin ttListed)' /\ c \notin ttMerged'
      BY <1>3, <1>4 DEF Purge, Live, Trashed, TtInv, TtTypeOK, Rows, OnePlace
    <3>. QED
      BY <1>1, <3>1, WhereItIs
  <2>3. Place' = [Place EXCEPT ![c] = [at |-> "purged", is |-> 0]] /\ Place[c].at = "trash"
    BY <1>2, <2>1, <2>2, OneGoes DEF Place
  <2>4. Places!Lose(c, "trash", "purged")
    BY <2>3 DEF Places!Lose, Place
  <2>. QED
    BY <2>4 DEF Places!Next
<1>5. CASE Annotate(c)
  <2>1. /\ ~Live(c) /\ Trashed(c) /\ ~Live(c)' /\ Trashed(c)'
        /\ ttTrash[c] \in Held /\ ttTrash'[c] \in Held
    BY <1>3, <1>5, TransferAssumption
    DEF TransferAssumption, Annotate, Live, Trashed, TtInv, TtTypeOK, Rows, Held, Absent
  <2>2. PlaceOf(c) = [at |-> "trash", is |-> ttTrash[c]]
    BY <1>1, <2>1, WhereItWas
  <2>3. PlaceOf(c)' = [at |-> "trash", is |-> ttTrash'[c]]
    BY <1>1, <2>1, WhereItIs
  <2>4. PICK was \in Held, is \in Held : was = ttTrash[c] /\ is = ttTrash'[c]
    BY <2>1
  <2>5. Place' = [Place EXCEPT ![c] = [at |-> "trash", is |-> is]]
    BY <1>2, <2>3, <2>4, OneGoes
  <2>6. Place[c] = [at |-> "trash", is |-> was]
    BY <2>2, <2>4 DEF Place
  <2>7. Places!Change(c, is)
    BY <2>5, <2>6, Changes
  <2>. QED
    BY <2>7 DEF Places!Next
<1>6. CASE Edit(c)
  <2>1. Live(c) /\ Live(c)' /\ ttMain[c] \in Held /\ ttMain'[c] \in Held
    BY <1>6, TransferAssumption
    DEF TransferAssumption, Edit, Live, TtInv, TtTypeOK, Rows, Held, Absent
  <2>2. PlaceOf(c) = [at |-> "live", is |-> ttMain[c]]
    BY <2>1, WhereItWas
  <2>3. PlaceOf(c)' = [at |-> "live", is |-> ttMain'[c]]
    BY <2>1, WhereItIs
  <2>4. PICK was \in Held, is \in Held : was = ttMain[c] /\ is = ttMain'[c]
    BY <2>1
  <2>5. Place' = [Place EXCEPT ![c] = [at |-> "live", is |-> is]]
    BY <1>2, <2>3, <2>4, OneGoes
  <2>6. Place[c] = [at |-> "live", is |-> was]
    BY <2>2, <2>4 DEF Place
  <2>7. Places!Change(c, is)
    BY <2>5, <2>6, Changes
  <2>. QED
    BY <2>7 DEF Places!Next
<1>7. CASE Merge(c)
  <2>1. PlaceOf(c).at = "live"
    BY <1>7, WhereItWas DEF Merge
  <2>2. PlaceOf(c)' = [at |-> "merged", is |-> 0]
    <3>1. ~Live(c)' /\ ~Trashed(c)' /\ (c \notin ttListed)' /\ c \in ttMerged'
      BY <1>7 DEF Merge, TtInv, OnePlace
    <3>. QED
      BY <1>1, <3>1, WhereItIs
  <2>3. Place' = [Place EXCEPT ![c] = [at |-> "merged", is |-> 0]] /\ Place[c].at = "live"
    BY <1>2, <2>1, <2>2, OneGoes DEF Place
  <2>4. Places!Lose(c, "live", "merged")
    BY <2>3 DEF Places!Lose, Place
  <2>. QED
    BY <2>4 DEF Places!Next
<1>8. CASE List(c)
  <2>1. c \in ttListed'
    BY <1>8 DEF List
  <2>2. PlaceOf(c)' = [at |-> "listed", is |-> 0]
    BY <2>1, WhereItIs
  <2>3. CASE c \in ttListed
    <3>1. PlaceOf(c) = [at |-> "listed", is |-> 0]
      BY <2>3, WhereItWas
    <3>. QED
      BY <1>2, <2>2, <3>1 DEF Place
  <2>4. CASE c \notin ttListed
    <3>1. PlaceOf(c) = [at |-> "purged", is |-> 0]
      BY <1>1, <1>8, <2>4, WhereItWas DEF List
    <3>2. Place' = [Place EXCEPT ![c] = [at |-> "listed", is |-> 0]] /\ Place[c].at = "purged"
      BY <1>2, <2>2, <3>1, OneGoes DEF Place
    <3>3. Places!Lose(c, "purged", "listed")
      BY <3>2 DEF Places!Lose, Place
    <3>. QED
      BY <3>3 DEF Places!Next
  <2>. QED
    BY <2>3, <2>4
<1>. QED
  BY <1>4, <1>5, <1>6, <1>7, <1>8

\* The promise of the trash is kept at the start and by every step.
LEMMA PlaceInit == TtInit => Places!Init
<1> SUFFICES ASSUME TtInit PROVE Places!Init
  OBVIOUS
<1>1. TtInv
  BY TransferInvInit
<1>2. ASSUME NEW c \in TtCards PROVE PlaceOf(c) \in [at : {"live", "trash"}, is : {0}]
  <2>1. OnItsWay(c) = {}
    BY DEF TtInit, OnItsWay
  <2>2. CASE Live(c)
    <3>1. ttMain[c] = 0
      BY <2>2 DEF TtInit, Live, Absent
    <3>. QED
      BY <1>1, <2>2, <3>1, WhereItWas
  <2>3. CASE ~Live(c)
    <3>1. ttTrash[c] = 0 /\ Trashed(c)
      BY <2>3 DEF TtInit, Live, Trashed, Absent
    <3>. QED
      BY <1>1, <2>1, <2>3, <3>1, WhereItWas
  <2>. QED
    BY <2>2, <2>3
<1>. QED
  BY <1>2 DEF Places!Init

LEMMA PlaceStep == TtInv /\ TtInv' /\ [TtNext]_ttVars => Places!Next \/ UNCHANGED Place
<1> SUFFICES ASSUME TtInv, TtInv', [TtNext]_ttVars PROVE Places!Next \/ UNCHANGED Place
  OBVIOUS
<1>1. ASSUME NEW p \in TtProcs, NEW c \in TtCards, MoveToTrash(p, c) \/ RestoreFromTrash(p, c)
      PROVE  UNCHANGED Place
  <2>1. ttMarkers = {} /\ UNCHANGED <<ttMain, ttTrash, ttMarkers, ttMerged, ttListed>>
    BY <1>1 DEF MoveToTrash, RestoreFromTrash, Prepare, Quiescent
  <2>. QED
    BY <2>1, NoneGoes DEF OnItsWay
<1>2. ASSUME NEW p \in TtProcs, CommitMain(p) PROVE Places!Next
  BY <1>2, CommitGoes
<1>3. ASSUME NEW p \in TtProcs, Finish(p) PROVE UNCHANGED Place
  <2>1. PICK o \in ttAt[p].op : IF o \in ttMarkers THEN CompleteOp(p, o)
                                ELSE UNCHANGED <<ttFiles, ttMerged, ttListed>>
    BY <1>3 DEF Finish
  <2>2. CASE o \in ttMarkers
    BY <2>1, <2>2, CompleteGoes
  <2>3. CASE o \notin ttMarkers
    BY <2>1, <2>3, NoneGoes DEF ttFiles, OnItsWay
  <2>. QED
    BY <2>2, <2>3
<1>4. ASSUME NEW p \in TtProcs, ForgetPayload(p) PROVE UNCHANGED Place
  <2>1. \A o \in TtOps : /\ ttOps'[o].phase = ttOps[o].phase /\ ttOps'[o].dir = ttOps[o].dir
                         /\ ttOps'[o].card = ttOps[o].card /\ ttOps'[o].sha = ttOps[o].sha
    BY <1>4 DEF ForgetPayload, TtInv, TtTypeOK, Op
  <2>2. UNCHANGED <<ttMain, ttTrash, ttMarkers, ttMerged, ttListed>>
    BY <1>4 DEF ForgetPayload
  <2>3. ttMarkers \subseteq TtOps
    BY DEF TtInv, TtTypeOK
  <2>. QED
    BY <2>1, <2>2, <2>3, NoneGoes DEF OnItsWay
<1>5. ASSUME NEW p \in TtProcs, DropMarker(p) PROVE UNCHANGED Place
  <2>1. /\ ttMarkers' = ttMarkers \ ttAt[p].op
        /\ UNCHANGED <<ttMain, ttTrash, ttOps, ttMerged, ttListed>>
    BY <1>5 DEF DropMarker
  <2>2. \A o \in ttAt[p].op : ttOps[o].phase # "prepared"
    BY <1>5 DEF DropMarker, TtInv, LockFits
  <2>. QED
    BY <2>1, <2>2, NoneGoes DEF OnItsWay
<1>6. ASSUME NEW p \in TtProcs, Scan(p) \/ Reconciled(p) \/ TtCrash(p) \/ TtFails(p)
      PROVE  UNCHANGED Place
  BY <1>6, NoneGoes DEF Scan, Reconciled, TtCrash, TtFails, ttFiles, OnItsWay
<1>7. ASSUME NEW p \in TtProcs, ReconcileOp(p) PROVE UNCHANGED Place
  <2>1. PICK o \in ttAt[p].todo :
          \/ UNCHANGED <<ttFiles, ttMerged, ttListed>>
          \/ o \in ttMarkers /\ CompleteOp(p, o)
          \/ o \notin ttMarkers /\ CancelOp(p, o)
    BY <1>7 DEF ReconcileOp
  <2>2. CASE UNCHANGED <<ttFiles, ttMerged, ttListed>>
    BY <2>2, NoneGoes DEF ttFiles, OnItsWay
  <2>3. CASE o \in ttMarkers /\ CompleteOp(p, o)
    BY <2>3, CompleteGoes
  <2>4. CASE o \notin ttMarkers /\ CancelOp(p, o)
    <3>1. \A o2 \in ttMarkers : ttOps'[o2] = ttOps[o2]
      BY <2>4 DEF CancelOp, TtInv, TtTypeOK
    <3>2. UNCHANGED <<ttMain, ttTrash, ttMarkers, ttMerged, ttListed>>
      BY <2>4 DEF CancelOp
    <3>. QED
      BY <3>1, <3>2, NoneGoes DEF OnItsWay
  <2>. QED
    BY <2>1, <2>2, <2>3, <2>4
<1>8. ASSUME NEW c \in TtCards, Purge(c) \/ Annotate(c) \/ Edit(c) \/ Merge(c) \/ List(c)
      PROVE  Places!Next \/ UNCHANGED Place
  BY <1>8, WritersGo
<1>9. CASE UNCHANGED ttVars
  BY <1>9, NoneGoes DEF ttVars, OnItsWay
<1>. QED
  BY <1>1, <1>2, <1>3, <1>4, <1>5, <1>6, <1>7, <1>8, <1>9 DEF TtNext, Transfer, Recover

\* The two files and their journal keep the promise of CardPlace: a card is
\* never lost, doubled, or moved with an old content, whatever is interrupted.
THEOREM PlaceRefinement == TtSpec => ImplementsCardPlace
<1>1. TtInv /\ TtInv' /\ [TtNext]_ttVars => [Places!Next]_([c \in TtCards |-> PlaceOf(c)])
  BY PlaceStep DEF Place
<1>. QED
  BY <1>1, PlaceInit, TransferInvariant, PTL DEF TtSpec, ImplementsCardPlace, Places!Spec

-----------------------------------------------------------------------------
(*****************************************************************************)
(* The card and its generation.                                              *)
(*****************************************************************************)

\* Who prepares, begins or creates has no job yet, and what is not handed out
\* yet is not paid; a create is under way for a request that was begun.
PaidOnlyOnce ==
  /\ ctJob # "none" => ctAgent.pc = "idle" /\ ctReq \notin Presubmit
  /\ ctAgent.pc = "create" => ctReq = "submitting" \/ (ctReq = "deleted" /\ ctCard.at = "purged")

\* What a request has come to, and what the card says, tells of its job.
EndsAreTold ==
  /\ ctReq \in {"retired", "done"} => ctCard.job
  /\ ctReq = "failed" => ctCard.job \/ ctJob = "none"
  /\ ctReq = "deleted" => ctJob = "none" \/ ctCard.at = "purged"
  /\ ctReq = "done" => ctJob = "success"
  /\ ctCard.st = "done" => ctCard.job /\ ctJob = "success" /\ ctCard.asset
  /\ ctCard.mark # "none" => ctCard.mark = ctJob
  /\ ctCard.why = "deleted" => ctReq \in {"deleted", "failed"} /\ ctJob = "none" /\ ctAgent.pc # "create"
  /\ ctCard.why = "retired" => ctJob = "failure"

CardInv == CardTypeOK /\ PaidOnlyOnce /\ EndsAreTold /\ PaidJobIsKept

\* A fault is counted within its bound.
LEMMA ArrivesType ==
  ASSUME CardTypeOK, NEW ok \in BOOLEAN, Arrives(ok)
  PROVE  ctFaults' \in 0..MaxTrashFaults
BY TrashAssumption DEF Arrives, CtFault, CardTypeOK

CardStates == {"pending", "running", "done", "failed"}
CardReasons == {"none", "deleted", "retired", "other"}

\* A card, and an agent, field by field.
CardIs(x, at, st, job, why, asset, mark) ==
  /\ x \in Card /\ x.at = at /\ x.st = st /\ x.job = job /\ x.why = why
  /\ (x.asset <=> asset) /\ x.mark = mark
AgentIs(x, pc, owes, tracks) ==
  x \in TrashAgent /\ x.pc = pc /\ (x.owes <=> owes) /\ (x.tracks <=> tracks)

\* A card that is shown otherwise.
LEMMA CardLooks ==
  ASSUME ctCard \in Card, NEW st \in CardStates, NEW why \in CardReasons, NEW x, x = Shown(st, why)
  PROVE  CardIs(x, ctCard.at, st, ctCard.job, why, ctCard.asset, ctCard.mark)
BY DEF Card, Shown, CardIs, CardStates, CardReasons

\* One that may have got its result.
LEMMA CardHasResult ==
  ASSUME ctCard \in Card, NEW st \in CardStates, NEW why \in CardReasons, NEW has \in BOOLEAN,
         NEW x, x = [Shown(st, why) EXCEPT !.asset = has]
  PROVE  CardIs(x, ctCard.at, st, ctCard.job, why, has, ctCard.mark)
<1>1. CardIs(Shown(st, why), ctCard.at, st, ctCard.job, why, ctCard.asset, ctCard.mark)
  BY CardLooks
<1>. QED
  BY <1>1 DEF CardIs, Card

\* One that has its job.
LEMMA CardTakesJob ==
  ASSUME ctCard \in Card, NEW x, x = [Shown("running", "none") EXCEPT !.job = TRUE]
  PROVE  CardIs(x, ctCard.at, "running", TRUE, "none", ctCard.asset, ctCard.mark)
BY DEF Card, Shown, CardIs

\* One that was deleted, purged, restored, or marked while it was in the trash.
LEMMA CardGoes ==
  ASSUME ctCard \in Card, NEW x, x = [ctCard EXCEPT !.at = "trash"]
  PROVE  CardIs(x, "trash", ctCard.st, ctCard.job, ctCard.why, ctCard.asset, ctCard.mark)
BY DEF Card, CardIs

LEMMA CardIsPurged ==
  ASSUME ctCard \in Card, NEW x, x = [ctCard EXCEPT !.at = "purged", !.mark = "none"]
  PROVE  CardIs(x, "purged", ctCard.st, ctCard.job, ctCard.why, ctCard.asset, "none")
BY DEF Card, CardIs

LEMMA CardReturns ==
  ASSUME ctCard \in Card, NEW st \in CardStates, NEW why \in CardReasons, NEW x, x = Returned(st, why)
  PROVE  CardIs(x, "live", st, ctCard.job, why, ctCard.asset, "none")
BY DEF Card, Returned, Shown, CardIs, CardStates, CardReasons

LEMMA CardIsMarked ==
  ASSUME ctCard \in Card, NEW m \in Verdicts, NEW x,
         x = [ctCard EXCEPT !.mark = IF @ = "none" THEN m ELSE @]
  PROVE  CardIs(x, ctCard.at, ctCard.st, ctCard.job, ctCard.why, ctCard.asset,
                IF ctCard.mark = "none" THEN m ELSE ctCard.mark)
BY DEF Card, CardIs, Verdicts

\* The agent's next place, and what it owes and tracks.
LEMMA AgentGoes ==
  ASSUME ctAgent \in TrashAgent, NEW pc \in {"idle", "prep", "begin", "release", "create"},
         NEW x, x = [ctAgent EXCEPT !.pc = pc]
  PROVE  AgentIs(x, pc, ctAgent.owes, ctAgent.tracks)
BY DEF TrashAgent, AgentIs

LEMMA AgentOwes ==
  ASSUME ctAgent \in TrashAgent, NEW owes \in BOOLEAN, NEW x, x = [ctAgent EXCEPT !.owes = owes]
  PROVE  AgentIs(x, ctAgent.pc, owes, ctAgent.tracks)
BY DEF TrashAgent, AgentIs

LEMMA AgentTracks ==
  ASSUME ctAgent \in TrashAgent, NEW still \in BOOLEAN,
         NEW x, x = [ctAgent EXCEPT !.tracks = @ /\ still]
  PROVE  AgentIs(x, ctAgent.pc, ctAgent.owes, ctAgent.tracks /\ still)
<1>1. (ctAgent.tracks /\ still) \in BOOLEAN
  OBVIOUS
<1>2. x \in TrashAgent /\ x.pc = ctAgent.pc /\ x.owes = ctAgent.owes
  BY <1>1 DEF TrashAgent
<1>3. x.tracks <=> ctAgent.tracks /\ still
  BY DEF TrashAgent
<1>. QED
  BY <1>2, <1>3 DEF AgentIs

\* Every step keeps what the card and its request tell.
LEMMA CardStep == CardInv /\ [CtNext]_ctVars => CardInv'
<1> SUFFICES ASSUME CardInv, [CtNext]_ctVars PROVE CardInv'
  OBVIOUS
<1>0. /\ ctCard \in Card /\ ctAgent \in TrashAgent /\ ctFaults \in 0..MaxTrashFaults
      /\ ctCard.st \in CardStates /\ ctCard.why \in CardReasons /\ ctCard.mark \in Verdicts \cup {"none"}
      /\ ctJob \in Verdicts \cup {"none", "running"}
  BY DEF CardInv, CardTypeOK, Card, CardStates, CardReasons
<1> USE DEF CardInv, CardTypeOK, PaidOnlyOnce, EndsAreTold, PaidJobIsKept, CardIs, AgentIs, Phases,
        Nonterminal, Presubmit, Canceled, Verdicts, OnBoard, Unfinished, Anchored, ctRest
<1>1. ASSUME ClaimRequest PROVE CardInv'
  <2>1. AgentIs(ctAgent', "prep", ctAgent.owes, ctAgent.tracks)
    BY <1>0, <1>1, AgentGoes DEF ClaimRequest
  <2>. QED
    BY <1>1, <2>1 DEF ClaimRequest
<1>2. ASSUME SweepRequest PROVE CardInv'
  <2>1. CASE Unfinished
    <3>1. PICK st \in {"pending", "running"} : ctCard' = Shown(st, "none")
      BY <1>2, <2>1 DEF SweepRequest
    <3>2. CardIs(ctCard', ctCard.at, st, ctCard.job, "none", ctCard.asset, ctCard.mark)
      BY <1>0, <3>1, CardLooks DEF CardStates, CardReasons
    <3>. QED
      BY <1>2, <3>2 DEF SweepRequest
  <2>2. CASE ~Unfinished
    BY <1>2, <2>2 DEF SweepRequest
  <2>. QED
    BY <2>1, <2>2
<1>3. ASSUME BeginGivenUp PROVE CardInv'
  <2>1. AgentIs(ctAgent', "release", ctAgent.owes, ctAgent.tracks)
    BY <1>0, <1>3, AgentGoes DEF BeginGivenUp
  <2>. QED
    BY <1>3, <2>1 DEF BeginGivenUp
<1>4. ASSUME CreateJob PROVE CardInv'
  <2>1. AgentIs(ctAgent', "idle", TRUE, TRUE)
    BY <1>4 DEF CreateJob, TrashAgent
  <2>. QED
    BY <1>4, <2>1 DEF CreateJob
<1>5. ASSUME WorkerDies PROVE CardInv'
  <2>1. AgentIs(ctAgent', "idle", ctAgent.owes, ctAgent.tracks)
    BY <1>0, <1>5, AgentGoes DEF WorkerDies
  <2>2. ctFaults' \in 0..MaxTrashFaults
    BY <1>0, <1>5, TrashAssumption DEF WorkerDies, CtFault
  <2>. QED
    BY <1>5, <2>1, <2>2 DEF WorkerDies
<1>6. ASSUME NEW ok \in BOOLEAN, PrepareFails(ok) PROVE CardInv'
  <2>1. AgentIs(ctAgent', "idle", ctAgent.owes, ctAgent.tracks)
    BY <1>0, <1>6, AgentGoes DEF PrepareFails
  <2>2. ctFaults' \in 0..MaxTrashFaults
    BY <1>6, ArrivesType DEF PrepareFails
  <2>3. CASE ctCard' = Shown("failed", "other")
    <3>1. CardIs(ctCard', ctCard.at, "failed", ctCard.job, "other", ctCard.asset, ctCard.mark)
      BY <1>0, <2>3, CardLooks DEF CardStates, CardReasons
    <3>. QED
      BY <1>6, <2>1, <2>2, <3>1 DEF PrepareFails
  <2>4. CASE ctCard' = ctCard
    BY <1>6, <2>1, <2>2, <2>4 DEF PrepareFails
  <2>. QED
    BY <1>6, <2>3, <2>4 DEF PrepareFails
<1>7. ASSUME NEW ok \in BOOLEAN, BeginRequest(ok) PROVE CardInv'
  <2>1. PICK pc \in {"begin", "create", "release"} : ctAgent' = [ctAgent EXCEPT !.pc = pc]
    BY <1>7 DEF BeginRequest
  <2>2. AgentIs(ctAgent', pc, ctAgent.owes, ctAgent.tracks)
    BY <1>0, <2>1, AgentGoes
  <2>3. ctFaults' \in 0..MaxTrashFaults
    BY <1>7, ArrivesType DEF BeginRequest
  <2>4. pc = "create" => ctReq' = "submitting"
    BY <1>7, <2>2 DEF BeginRequest, TrashAgent
  <2>5. CASE Unfinished /\ ctCard' = Shown("running", "none") /\ ctReq' = "submitting"
    <3>1. CardIs(ctCard', ctCard.at, "running", ctCard.job, "none", ctCard.asset, ctCard.mark)
      BY <1>0, <2>5, CardLooks DEF CardStates, CardReasons
    <3>. QED
      BY <1>7, <2>2, <2>3, <2>4, <2>5, <3>1 DEF BeginRequest
  <2>6. CASE ctCard' = ctCard
    BY <1>7, <2>2, <2>3, <2>4, <2>6 DEF BeginRequest
  <2>. QED
    BY <1>7, <2>5, <2>6 DEF BeginRequest
<1>8. ASSUME NEW ok \in BOOLEAN, ReleaseRequest(ok) PROVE CardInv'
  <2>1. AgentIs(ctAgent', "idle", ctAgent.owes, ctAgent.tracks)
    BY <1>0, <1>8, AgentGoes DEF ReleaseRequest
  <2>2. ctFaults' \in 0..MaxTrashFaults
    BY <1>8, ArrivesType DEF ReleaseRequest
  <2>3. CASE Unfinished /\ ctCard' = Shown("pending", "none")
    <3>1. CardIs(ctCard', ctCard.at, "pending", ctCard.job, "none", ctCard.asset, ctCard.mark)
      BY <1>0, <2>3, CardLooks DEF CardStates, CardReasons
    <3>. QED
      BY <1>8, <2>1, <2>2, <2>3, <3>1 DEF ReleaseRequest
  <2>4. CASE ctCard' = ctCard
    BY <1>8, <2>1, <2>2, <2>4 DEF ReleaseRequest
  <2>. QED
    BY <1>8, <2>3, <2>4 DEF ReleaseRequest
<1>9. ASSUME NEW ok \in BOOLEAN, AnchorJob(ok) PROVE CardInv'
  <2> DEFINE applied == OnBoard /\ ctReq \notin Canceled \cup {"done"}
             owes == ~(ok /\ (applied \/ ctReq \in Canceled \cup {"done", "failed"}))
  <2>1. AgentIs(ctAgent', ctAgent.pc, owes, ctAgent.tracks)
    BY <1>0, <1>9, AgentOwes DEF AnchorJob
  <2>2. ctFaults' \in 0..MaxTrashFaults
    BY <1>9, ArrivesType DEF AnchorJob
  <2>3. ctJob # "none" /\ ctJob' = ctJob
    BY <1>9 DEF AnchorJob
  <2>4. CASE applied /\ ctCard.st # "done"
    <3>1. ctCard' = [Shown("running", "none") EXCEPT !.job = TRUE] /\ ctReq' = "tracking"
      BY <1>9, <2>4 DEF AnchorJob
    <3>2. CardIs(ctCard', ctCard.at, "running", TRUE, "none", ctCard.asset, ctCard.mark)
      BY <1>0, <3>1, CardTakesJob
    <3>. QED
      BY <1>9, <2>1, <2>2, <2>3, <2>4, <3>1, <3>2 DEF AnchorJob
  <2>5. CASE applied /\ ctCard.st = "done"
    <3>1. ctCard' = ctCard /\ ctReq' = "tracking" /\ ctCard.job
      BY <1>9, <2>5 DEF AnchorJob
    <3>. QED
      BY <1>9, <2>1, <2>2, <2>3, <2>5, <3>1 DEF AnchorJob
  <2>6. CASE ~applied
    <3>1. UNCHANGED <<ctReq, ctCard, ctEvent>>
      BY <1>9, <2>6 DEF AnchorJob
    <3>2. ctReq \in Canceled \cup {"done", "failed"} =>
            ctCard.job \/ ctCard.at = "purged" \/ ctReq = "deleted"
      BY <2>3
    <3>. QED
      BY <1>9, <2>1, <2>2, <2>3, <2>6, <3>1, <3>2 DEF AnchorJob
  <2>. QED
    BY <2>4, <2>5, <2>6
<1>10. ASSUME NEW heard \in BOOLEAN, ReportEnded(heard) PROVE CardInv'
  <2>1. PICK over \in BOOLEAN : ctAgent' = [ctAgent EXCEPT !.tracks = @ /\ ~(heard /\ over)]
    <3> DEFINE over == \/ Anchored
                       \/ ctCard.at = "trash" /\ ctCard.job
                       \/ ctCard.at = "purged" /\ ctEvent
    <3>1. ctAgent' = [ctAgent EXCEPT !.tracks = @ /\ ~(heard /\ over)]
      BY <1>10 DEF ReportEnded
    <3>2. over \in BOOLEAN
      OBVIOUS
    <3>. QED
      BY <3>1, <3>2
  <2>2. AgentIs(ctAgent', ctAgent.pc, ctAgent.owes, ctAgent.tracks /\ ~(heard /\ over))
    BY <1>0, <2>1, AgentTracks
  <2>3. ctFaults' \in 0..MaxTrashFaults
    BY <1>10, ArrivesType DEF ReportEnded
  <2>4. ctJob \in Verdicts /\ ctJob' = ctJob /\ UNCHANGED ctRest
    BY <1>10 DEF ReportEnded
  <2>5. CASE UNCHANGED <<ctReq, ctCard>>
    BY <2>2, <2>3, <2>4, <2>5
  <2>6. CASE Anchored /\ SettleCard /\ ctCard' = ctCard
    <3>1. ctReq' \in {"done", "failed"} /\ (ctReq' = "done" => ctJob = "success")
      BY <2>4, <2>6 DEF SettleCard, Final
    <3>2. ctCard.why # "deleted"
      BY <2>4
    <3>. QED
      BY <2>2, <2>3, <2>4, <2>6, <3>1, <3>2
  <2>7. CASE Anchored /\ SettleCard /\ ctCard' # ctCard
    <3> DEFINE st == Final
               why == IF st = "failed" THEN "other" ELSE "none"
    <3>1. ctReq' = st /\ st \in {"done", "failed"} /\ (st = "done" <=> ctJob = "success")
      BY <2>4, <2>7 DEF SettleCard, Final
    <3>2. ctCard' = [Shown(st, why) EXCEPT !.asset = @ \/ st = "done"]
      BY <2>7 DEF SettleCard
    <3>3. st \in CardStates /\ why \in {"none", "other"} /\ why \in CardReasons
      BY <3>1 DEF CardStates, CardReasons
    <3> HIDE DEF st, why
    <3> DEFINE has == Shown(st, why).asset \/ st = "done"
    <3>4. has \in BOOLEAN /\ (st = "done" => has) /\ ctCard' = [Shown(st, why) EXCEPT !.asset = has]
      BY <3>2
    <3> HIDE DEF has, CardIs
    <3>5. CardIs(ctCard', ctCard.at, st, ctCard.job, why, has, ctCard.mark)
      BY <1>0, <3>3, <3>4, CardHasResult
    <3>. QED
      BY <2>2, <2>3, <2>4, <2>7, <3>1, <3>3, <3>4, <3>5 DEF CardIs
  <2>8. CASE ctCard.at = "trash" /\ ctCard.job /\ RetireRequest /\ ctReq \in Nonterminal
    <3>1. ctReq' = "retired" /\ ctCard' = [ctCard EXCEPT !.mark = IF @ = "none" THEN ctJob ELSE @]
      BY <2>8 DEF RetireRequest
    <3>2. CardIs(ctCard', ctCard.at, ctCard.st, ctCard.job, ctCard.why, ctCard.asset,
                 IF ctCard.mark = "none" THEN ctJob ELSE ctCard.mark)
      BY <1>0, <2>4, <3>1, CardIsMarked
    <3>. QED
      BY <2>2, <2>3, <2>4, <2>8, <3>1, <3>2
  <2>. QED
    BY <1>10, <2>5, <2>6, <2>7, <2>8 DEF ReportEnded, RetireRequest
<1>11. ASSUME ReportWorking PROVE CardInv'
  BY <1>11 DEF ReportWorking, Candidate
<1>12. ASSUME SetStatusLate PROVE CardInv'
  <2>1. CASE ctCard' = Shown("running", "none")
    <3>1. CardIs(ctCard', ctCard.at, "running", ctCard.job, "none", ctCard.asset, ctCard.mark)
      BY <1>0, <2>1, CardLooks DEF CardStates, CardReasons
    <3>. QED
      BY <1>12, <3>1 DEF SetStatusLate
  <2>2. CASE ctCard' = ctCard
    BY <1>12, <2>2 DEF SetStatusLate
  <2>. QED
    BY <1>12, <2>1, <2>2 DEF SetStatusLate
<1>13. ASSUME ListPush PROVE CardInv'
  <2>1. PICK saw \in {"running", ctJob} :
          LET st == CASE saw = "running" -> "running" [] saw = "success" -> "done"
                      [] saw = "failure" -> "failed"
          IN \E why \in IF st # "failed" THEN {"none"}
                        ELSE {"other"} \cup ({ctCard.why} \ {"none"}) :
               ctCard' = [Shown(st, why) EXCEPT !.asset = @ \/ saw = "success"]
    BY <1>13 DEF ListPush
  <2>2. saw \in {"running", "success", "failure"} /\ (saw # "running" => saw = ctJob)
    BY <1>13, <2>1 DEF ListPush
  <2>3. PICK st \in {"running", "done", "failed"}, why \in {"none", "other", ctCard.why} :
          /\ st = "done" <=> saw = "success"
          /\ why \notin {"none", "other"} => st = "failed"
          /\ ctCard' = [Shown(st, why) EXCEPT !.asset = @ \/ saw = "success"]
    BY <2>1, <2>2
  <2>4. st \in CardStates /\ why \in CardReasons
    BY <1>0 DEF CardStates, CardReasons
  <2> DEFINE has == Shown(st, why).asset \/ saw = "success"
  <2>5. has \in BOOLEAN /\ (st = "done" => has) /\ ctCard' = [Shown(st, why) EXCEPT !.asset = has]
    BY <2>3
  <2> HIDE DEF has, CardIs
  <2>6. CardIs(ctCard', ctCard.at, st, ctCard.job, why, has, ctCard.mark)
    BY <1>0, <2>4, <2>5, CardHasResult
  <2>7. Anchored /\ UNCHANGED <<ctReq, ctAgent, ctJob, ctRest, ctFaults>>
    BY <1>13 DEF ListPush
  <2>. QED
    BY <2>2, <2>3, <2>5, <2>6, <2>7 DEF CardIs
<1>14. ASSUME JobEnds PROVE CardInv'
  <2>1. ctJob = "running" /\ ctJob' \in Verdicts
    BY <1>14 DEF JobEnds
  <2>2. UNCHANGED <<ctCard, ctReq, ctAgent, ctEvent, ctLate, ctWithdrawn, ctTrips, ctFaults>>
    BY <1>14 DEF JobEnds
  <2>3. CardTypeOK'
    BY <2>1, <2>2
  <2>4. PaidOnlyOnce' /\ PaidJobIsKept'
    BY <2>1, <2>2
  <2>5. EndsAreTold'
    BY <1>0, <2>1, <2>2
  <2>. QED
    BY <2>3, <2>4, <2>5
<1>15. ASSUME DeleteCard PROVE CardInv'
  <2>1. CardIs(ctCard', "trash", ctCard.st, ctCard.job, ctCard.why, ctCard.asset, ctCard.mark)
    BY <1>0, <1>15, CardGoes DEF DeleteCard
  <2>2. ctTrips' \in 0..MaxTrips
    BY <1>15, TrashAssumption DEF DeleteCard
  <2>3. ctWithdrawn' \in BOOLEAN
    BY <1>15 DEF DeleteCard
  <2>. QED
    BY <1>15, <2>1, <2>2, <2>3 DEF DeleteCard
<1>16. ASSUME RestoreCard PROVE CardInv'
  <2>1. ctCard.at = "trash" /\ UNCHANGED <<ctAgent, ctJob, ctRest, ctFaults>>
    BY <1>16 DEF RestoreCard
  <2>2. PICK st \in CardStates, why \in CardReasons :
          /\ ctCard' = Returned(st, why)
          /\ \/ st = "failed" /\ why = "retired" /\ ctReq' = "failed" /\ ctCard.mark = "failure"
                /\ ctReq = "retired"
             \/ st = "done" /\ why = "none" /\ ctReq' = "done" /\ ctCard.mark = "success"
                /\ ctCard.asset /\ ctReq = "retired"
             \/ st = "running" /\ why = "none" /\ ctReq' = "tracking" /\ ctReq = "retired"
             \/ st = "failed" /\ why = "deleted" /\ ctReq = "deleted" /\ UNCHANGED ctReq
             \/ st = ctCard.st /\ why = ctCard.why /\ UNCHANGED ctReq
    <3>1. CASE ctReq = "retired" /\ ctCard.mark # "none"
      BY <1>16, <3>1 DEF RestoreCard, CardStates, CardReasons
    <3>2. CASE ~(ctReq = "retired" /\ ctCard.mark # "none")
      BY <1>0, <1>16, <3>2 DEF RestoreCard, CardStates, CardReasons
    <3>. QED
      BY <3>1, <3>2
  <2>3. CardIs(ctCard', "live", st, ctCard.job, why, ctCard.asset, "none")
    BY <1>0, <2>2, CardReturns
  <2>. QED
    BY <2>1, <2>2, <2>3
<1>17. ASSUME PurgeCard PROVE CardInv'
  <2>1. CardIs(ctCard', "purged", ctCard.st, ctCard.job, ctCard.why, ctCard.asset, "none")
    BY <1>0, <1>17, CardIsPurged DEF PurgeCard
  <2>. QED
    BY <1>17, <2>1 DEF PurgeCard
<1>18. ASSUME NEW after \in {{"purged"}, {"trash", "purged"}}, CancelOrphan(after) PROVE CardInv'
  BY <1>18 DEF CancelOrphan
<1>19. ASSUME FailOrphan PROVE CardInv'
  <2>1. CASE ctCard.job
    <3>1. ctCard' = Shown("running", ctCard.why) /\ UNCHANGED <<ctReq, ctAgent, ctJob, ctRest, ctFaults>>
      BY <1>19, <2>1 DEF FailOrphan
    <3>2. CardIs(ctCard', ctCard.at, "running", ctCard.job, ctCard.why, ctCard.asset, ctCard.mark)
      BY <1>0, <3>1, CardLooks DEF CardStates
    <3>. QED
      BY <3>1, <3>2
  <2>2. CASE ~ctCard.job
    <3>1. ctCard' = Shown("failed", "other") /\ UNCHANGED <<ctReq, ctAgent, ctJob, ctRest, ctFaults>>
      BY <1>19, <2>2 DEF FailOrphan
    <3>2. CardIs(ctCard', ctCard.at, "failed", ctCard.job, "other", ctCard.asset, ctCard.mark)
      BY <1>0, <3>1, CardLooks DEF CardStates, CardReasons
    <3>. QED
      BY <3>1, <3>2
  <2>. QED
    BY <2>1, <2>2
<1>20. CASE UNCHANGED ctVars
  BY <1>20 DEF ctVars
<1>. QED
  BY <1>1, <1>2, <1>3, <1>4, <1>5, <1>6, <1>7, <1>8, <1>9, <1>10, <1>11, <1>12, <1>13, <1>14,
     <1>15, <1>16, <1>17, <1>18, <1>19, <1>20
  DEF CtNext, Worker, Reports, Trash, Boot

\* The card starts alive and undecided.
LEMMA CardInvInit == CtInit => CardInv
<1> SUFFICES ASSUME CtInit PROVE CardInv
  OBVIOUS
<1>1. ctTrips \in 0..MaxTrips /\ ctFaults \in 0..MaxTrashFaults
  BY TrashAssumption DEF CtInit
<1>2. ctCard \in Card /\ ctAgent \in TrashAgent /\ ctReq \in Phases
  BY DEF CtInit, Card, TrashAgent, Phases, Nonterminal, Presubmit, Verdicts
<1>. QED
  BY <1>1, <1>2 DEF CtInit, CardInv, CardTypeOK, PaidOnlyOnce, EndsAreTold, PaidJobIsKept

\* The card, its request and the worker keep their types.
THEOREM CardInvariant == CtSpec => []CardInv
BY CardInvInit, CardStep, PTL DEF CtSpec

\* The card, its request, the worker and the job keep their types, however often
\* the card is deleted and restored.
THEOREM CardTypeCorrect == CtSpec => []CardTypeOK
<1>1. CardInv => CardTypeOK BY DEF CardInv
<1>. QED BY <1>1, CardInvariant, PTL

\* What a card says that was deleted, restored and purged is what happened to its
\* job (restore_from_trash, _restore_retired_request).
THEOREM TrashKeepsVerdictTheorem == CtSpec => []TrashKeepsVerdict
<1>1. CardInv => TrashKeepsVerdict
  BY DEF CardInv, EndsAreTold, TrashKeepsVerdict
<1>. QED BY <1>1, CardInvariant, PTL

\* A job that was paid for stays with its card, or with the outbox
\* (move_to_trash, apply_local_anchor).
THEOREM PaidJobIsKeptTheorem == CtSpec => []PaidJobIsKept
<1>1. CardInv => PaidJobIsKept BY DEF CardInv
<1>. QED BY <1>1, CardInvariant, PTL

=============================================================================
