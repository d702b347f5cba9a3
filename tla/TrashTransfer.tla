--------------------------- MODULE TrashTransfer ----------------------------
(***************************************************************************)
(* The opt-in protocol that moves a card between the main database and the *)
(* database of the trash (services/trash_transfer.py).  The two are files  *)
(* of their own: every commit changes one of them, and a process may stop, *)
(* or an exception end its call, between any two commits.                  *)
(*                                                                         *)
(* The file of the trash keeps a journal of operations, each with a copy   *)
(* of the card until it is no longer needed; the main database keeps a     *)
(* marker of the operation that is not finished.  Triggers refuse every    *)
(* write of the main database while there is a marker, and every write of  *)
(* the trash while an operation is prepared, but for the operation's own.  *)
(*                                                                         *)
(* A card is what it holds: a version, or Absent.                          *)
(***************************************************************************)
EXTENDS Integers

CONSTANTS
  TtCards,
  TtOps,        \* operation ids; as many as transfers are followed
  TtProcs,      \* backend processes on the two files
  MaxEdits,     \* bound: versions of a card
  MaxTtFaults   \* bound: crashes and exceptions

ASSUME TransferAssumption == MaxEdits \in Nat /\ MaxTtFaults \in Nat

VARIABLES
  ttMain,       \* the rows of the main database
  ttTrash,      \* the rows of the trash
  ttOps,        \* move_operation, in the file of the trash
  ttMarkers,    \* generation_transfer, in the main database
  ttAt,         \* where each process is
  ttMerged,     \* history: cards whose row was merged into another one
  ttListed,     \* cards whose job a list push made a new card of
  ttFaults

ttVars == <<ttMain, ttTrash, ttOps, ttMarkers, ttAt, ttMerged, ttListed, ttFaults>>
ttFiles == <<ttMain, ttTrash, ttOps, ttMarkers>>

Absent == -1
Held == 0..MaxEdits
Rows == [TtCards -> Held \cup {Absent}]
Op == [phase : {"none", "prepared", "completed", "canceled"}, dir : {"delete", "restore"},
       card : TtCards, sha : Held, kept : BOOLEAN]
At == [pc : {"down", "idle", "prepared", "committed", "completed", "forgotten", "scanned"},
       op : SUBSET TtOps, todo : SUBSET TtOps, up : BOOLEAN]

TtTypeOK ==
  /\ ttMain \in Rows
  /\ ttTrash \in Rows
  /\ ttOps \in [TtOps -> Op]
  /\ ttMarkers \subseteq TtOps
  /\ ttAt \in [TtProcs -> At]
  /\ ttMerged \subseteq TtCards
  /\ ttListed \subseteq TtCards
  /\ ttFaults \in 0..MaxTtFaults

Stopped == [pc |-> "down", op |-> {}, todo |-> {}, up |-> FALSE]
Resting == [Stopped EXCEPT !.pc = "idle", !.up = TRUE]

TtInit ==
  /\ ttMain \in [TtCards -> {0, Absent}]
  /\ ttTrash = [c \in TtCards |-> IF ttMain[c] = Absent THEN 0 ELSE Absent]
  /\ \E c \in TtCards :
       ttOps = [o \in TtOps |-> [phase |-> "none", dir |-> "delete", card |-> c,
                                 sha |-> 0, kept |-> FALSE]]
  /\ ttMarkers = {}
  /\ ttAt = [p \in TtProcs |-> Resting]
  /\ ttMerged = {}
  /\ ttListed = {}
  /\ ttFaults = 0

TtFault == ttFaults < MaxTtFaults /\ ttFaults' = ttFaults + 1

(* BEGIN IMMEDIATE on the main database: one writer at a time.             *)
Unlocked == \A p \in TtProcs : ttAt[p].pc \notin {"prepared", "completed", "forgotten"}

InPhase(phase) == {o \in TtOps : ttOps[o].phase = phase}

(* _assert_pair_quiescent.                                                 *)
Quiescent == ttMarkers = {} /\ InPhase("prepared") = {}

Live(c) == ttMain[c] # Absent
Trashed(c) == ttTrash[c] # Absent

(* An exception leaves the process up, or ends its start.                  *)
GaveUp(p) == [ttAt EXCEPT ![p] = IF @.up THEN Resting ELSE Stopped]

-----------------------------------------------------------------------------
(* move and restore, up to the commit of the main database.                *)

(* _prepare: the copy is committed in the file of the trash (D1, R0); the  *)
(* marker is in the transaction of the main database, which is still open. *)
Prepare(p, dir, c, is) ==
  /\ ttAt[p].pc = "idle"
  /\ Unlocked
  /\ Quiescent
  /\ \E o \in InPhase("none") :
       /\ ttOps' = [ttOps EXCEPT ![o] = [phase |-> "prepared", dir |-> dir, card |-> c,
                                         sha |-> is, kept |-> TRUE]]
       /\ ttAt' = [ttAt EXCEPT ![p].pc = "prepared", ![p].op = {o}]
  /\ UNCHANGED <<ttMain, ttTrash, ttMarkers, ttMerged, ttListed, ttFaults>>

MoveToTrash(p, c) == Live(c) /\ Prepare(p, "delete", c, ttMain[c])

RestoreFromTrash(p, c) == Trashed(c) /\ ~Live(c) /\ Prepare(p, "restore", c, ttTrash[c])

(* Mutant: the marker is not part of the main transaction.                 *)
CommitMain_NoMarker(p) ==
  /\ ttAt[p].pc = "prepared"
  /\ \E o \in ttAt[p].op :
       ttMain' = [ttMain EXCEPT ![ttOps[o].card] =
                    IF ttOps[o].dir = "delete" THEN Absent ELSE ttOps[o].sha]
  /\ ttAt' = [ttAt EXCEPT ![p].pc = "committed"]
  /\ UNCHANGED <<ttTrash, ttOps, ttMarkers, ttMerged, ttListed, ttFaults>>

(* The row is removed, or inserted, with the marker (D2, R1).              *)
CommitMain(p) ==
  /\ ttAt[p].pc = "prepared"
  /\ \E o \in ttAt[p].op :
       /\ ttMain' = [ttMain EXCEPT ![ttOps[o].card] =
                       IF ttOps[o].dir = "delete" THEN Absent ELSE ttOps[o].sha]
       /\ ttMarkers' = ttMarkers \cup {o}
  /\ ttAt' = [ttAt EXCEPT ![p].pc = "committed"]
  /\ UNCHANGED <<ttTrash, ttOps, ttMerged, ttListed, ttFaults>>

-----------------------------------------------------------------------------
(* _finish.                                                                *)

(* What it refuses: a payload that is gone, a row that is back, a row of   *)
(* the trash that holds something else, a restored row that is missing.    *)
Refused(o) ==
  LET c == ttOps[o].card IN
  \/ ~ttOps[o].kept
  \/ ttOps[o].dir = "delete" /\ (Live(c) \/ ttTrash[c] \notin {Absent, ttOps[o].sha})
  \/ ttOps[o].dir = "restore" /\ ~Live(c)

(* The file of the trash is committed (D3, R2); the lock is kept.          *)
CompleteOp(p, o) ==
  /\ IF ttOps[o].phase # "prepared"
       THEN /\ ttAt' = [ttAt EXCEPT ![p].pc = "completed", ![p].op = {o}]
            /\ UNCHANGED <<ttTrash, ttOps>>
     ELSE IF Refused(o)
       THEN /\ ttAt' = GaveUp(p)
            /\ UNCHANGED <<ttTrash, ttOps>>
     ELSE /\ ttTrash' = [ttTrash EXCEPT ![ttOps[o].card] =
                           IF ttOps[o].dir = "delete" THEN ttOps[o].sha ELSE Absent]
          /\ ttOps' = [ttOps EXCEPT ![o].phase = "completed"]
          /\ ttAt' = [ttAt EXCEPT ![p].pc = "completed", ![p].op = {o}]
  /\ UNCHANGED <<ttMain, ttMarkers, ttMerged, ttListed, ttFaults>>

(* Another process may have finished the operation meanwhile.              *)
Finish(p) ==
  /\ ttAt[p].pc = "committed"
  /\ Unlocked
  /\ \E o \in ttAt[p].op :
       IF o \in ttMarkers THEN CompleteOp(p, o)
       ELSE /\ ttAt' = GaveUp(p)
            /\ UNCHANGED <<ttFiles, ttMerged, ttListed, ttFaults>>

(* The copy is dropped, then the marker (D4, R3).                          *)
ForgetPayload(p) ==
  /\ ttAt[p].pc = "completed"
  /\ \E o \in ttAt[p].op : ttOps' = [ttOps EXCEPT ![o].kept = FALSE]
  /\ ttAt' = [ttAt EXCEPT ![p].pc = "forgotten"]
  /\ UNCHANGED <<ttMain, ttTrash, ttMarkers, ttMerged, ttListed, ttFaults>>

DropMarker(p) ==
  /\ ttAt[p].pc = "forgotten"
  /\ ttMarkers' = ttMarkers \ ttAt[p].op
  /\ ttAt' = [ttAt EXCEPT ![p].op = {},
                          ![p].pc = IF ttAt[p].todo = {} THEN "idle" ELSE "scanned"]
  /\ UNCHANGED <<ttMain, ttTrash, ttOps, ttMerged, ttListed, ttFaults>>

-----------------------------------------------------------------------------
(* reconcile: at the start of a process (init_db), and before and after    *)
(* the restores of a scene's kept cards (_settle_trash_transfer).          *)

Scan(p) ==
  /\ \/ ttAt[p].pc = "down"
     \/ ttAt[p].pc = "idle" /\ ~Quiescent
  /\ ttAt' = [ttAt EXCEPT ![p].pc = "scanned",
                          ![p].todo = InPhase("prepared") \cup ttMarkers
                                        \cup {o \in TtOps : ttOps[o].kept}]
  /\ UNCHANGED <<ttFiles, ttMerged, ttListed, ttFaults>>

Source(o) == IF ttOps[o].dir = "delete" THEN Live(ttOps[o].card) ELSE Trashed(ttOps[o].card)

(* Nothing was removed without a marker: the operation is canceled, and    *)
(* its source is kept.                                                     *)
CancelOp(p, o) ==
  /\ IF Source(o)
       THEN /\ ttOps' = [ttOps EXCEPT ![o].phase = "canceled", ![o].kept = FALSE]
            /\ ttAt' = [ttAt EXCEPT ![p].todo = @ \ {o}]
       ELSE ttAt' = GaveUp(p) /\ UNCHANGED ttOps
  /\ UNCHANGED <<ttMain, ttTrash, ttMarkers, ttMerged, ttListed, ttFaults>>

Settled(o) == o \notin ttMarkers /\ ttOps[o].phase # "prepared" /\ ~ttOps[o].kept

ReconcileOp(p) ==
  /\ ttAt[p].pc = "scanned"
  /\ Unlocked
  /\ \E o \in ttAt[p].todo :
       \/ /\ Settled(o)
          /\ ttAt' = [ttAt EXCEPT ![p].todo = @ \ {o}]
          /\ UNCHANGED <<ttFiles, ttMerged, ttListed, ttFaults>>
       \/ o \in ttMarkers /\ CompleteOp(p, o)
       \/ ~Settled(o) /\ o \notin ttMarkers /\ CancelOp(p, o)

Reconciled(p) ==
  /\ ttAt[p].pc = "scanned"
  /\ ttAt[p].todo = {}
  /\ ttAt' = [ttAt EXCEPT ![p] = Resting]
  /\ UNCHANGED <<ttFiles, ttMerged, ttListed, ttFaults>>

-----------------------------------------------------------------------------
(* Everything else that writes, and what the triggers let it do.           *)

MainWritable == Unlocked /\ ttMarkers = {}
TrashWritable == Unlocked /\ Quiescent

(* Mutant: the trash is purged whatever is under way.                      *)
Purge_Unguarded(c) ==
  /\ Unlocked
  /\ Trashed(c)
  /\ ttTrash' = [ttTrash EXCEPT ![c] = Absent]
  /\ UNCHANGED <<ttMain, ttOps, ttMarkers, ttAt, ttMerged, ttListed, ttFaults>>

(* purge_trashed_item.                                                     *)
Purge(c) ==
  /\ TrashWritable
  /\ Trashed(c)
  /\ ttTrash' = [ttTrash EXCEPT ![c] = Absent]
  /\ UNCHANGED <<ttMain, ttOps, ttMarkers, ttAt, ttMerged, ttListed, ttFaults>>

(* resolve_missing_target writes the provider's verdict into the payload.  *)
Annotate(c) ==
  /\ TrashWritable
  /\ ttTrash[c] \in 0..MaxEdits - 1
  /\ ttTrash' = [ttTrash EXCEPT ![c] = @ + 1]
  /\ UNCHANGED <<ttMain, ttOps, ttMarkers, ttAt, ttMerged, ttListed, ttFaults>>

(* Any change of a live card.                                              *)
Edit(c) ==
  /\ MainWritable
  /\ ttMain[c] \in 0..MaxEdits - 1
  /\ ttMain' = [ttMain EXCEPT ![c] = @ + 1]
  /\ UNCHANGED <<ttTrash, ttOps, ttMarkers, ttAt, ttMerged, ttListed, ttFaults>>

(* An anchor removes the listed copy of its job.                           *)
Merge(c) ==
  /\ MainWritable
  /\ Live(c)
  /\ ttMain' = [ttMain EXCEPT ![c] = Absent]
  /\ ttMerged' = ttMerged \cup {c}
  /\ UNCHANGED <<ttTrash, ttOps, ttMarkers, ttAt, ttListed, ttFaults>>

(* A list push makes a new card of a job that has none: not of one in the  *)
(* trash, nor of one on its way there (tombstoned_among).                  *)
List(c) ==
  /\ MainWritable
  /\ ~Live(c)
  /\ ~Trashed(c)
  /\ c \notin ttMerged
  /\ ttListed' = ttListed \cup {c}
  /\ UNCHANGED <<ttFiles, ttAt, ttMerged, ttFaults>>

(* The process stops, or an exception ends its call: the open transaction  *)
(* is rolled back.                                                         *)
TtCrash(p) ==
  /\ ttAt[p].pc # "down"
  /\ TtFault
  /\ ttAt' = [ttAt EXCEPT ![p] = Stopped]
  /\ UNCHANGED <<ttFiles, ttMerged, ttListed>>

TtFails(p) ==
  /\ ttAt[p].up
  /\ ttAt[p].pc # "idle"
  /\ TtFault
  /\ ttAt' = GaveUp(p)
  /\ UNCHANGED <<ttFiles, ttMerged, ttListed>>

-----------------------------------------------------------------------------
Transfer(p) ==
  \/ \E c \in TtCards : MoveToTrash(p, c) \/ RestoreFromTrash(p, c)
  \/ CommitMain(p) \/ Finish(p) \/ ForgetPayload(p) \/ DropMarker(p)

Recover(p) == Scan(p) \/ ReconcileOp(p) \/ Reconciled(p)

TtNext ==
  \/ \E p \in TtProcs : Transfer(p) \/ Recover(p) \/ TtCrash(p) \/ TtFails(p)
  \/ \E c \in TtCards : Purge(c) \/ Annotate(c) \/ Edit(c) \/ Merge(c) \/ List(c)

TtSpec == TtInit /\ [][TtNext]_ttVars

-----------------------------------------------------------------------------
(* Properties.                                                             *)

(* Where a card is: from the commit that removed its row on, it is in the  *)
(* trash, though the row of the trash is still to be written.              *)
OnItsWay(c) == {o \in ttMarkers : ttOps[o].phase = "prepared" /\ ttOps[o].dir = "delete"
                                    /\ ttOps[o].card = c}
PlaceOf(c) ==
  IF c \in ttListed THEN [at |-> "listed", is |-> 0]
  ELSE IF Live(c) THEN [at |-> "live", is |-> ttMain[c]]
  ELSE IF OnItsWay(c) # {} THEN [at |-> "trash", is |-> ttOps[CHOOSE o \in OnItsWay(c) : TRUE].sha]
  ELSE IF Trashed(c) THEN [at |-> "trash", is |-> ttTrash[c]]
  ELSE [at |-> IF c \in ttMerged THEN "merged" ELSE "purged", is |-> 0]

(* The two files keep the promise of CardPlace through every interruption: *)
(* a card is never lost, doubled, or moved with an old content.            *)
Places == INSTANCE CardPlace WITH Cards <- TtCards, Contents <- Held,
                                  place <- [c \in TtCards |-> PlaceOf(c)]
ImplementsCardPlace == Places!Spec

(* Whatever was interrupted, reconcile can settle it: no start of a        *)
(* process finds a journal it must refuse (transfer_..._conflict,          *)
(* _missing, _mismatch).  Not said of a card whose row was merged away     *)
(* while its own transfer was prepared: that start is refused.             *)
RecoveryIsPossible ==
  /\ \A o \in ttMarkers : ttOps[o].phase = "prepared" => ~Refused(o)
  /\ \A o \in InPhase("prepared") \ ttMarkers : Source(o) \/ ttOps[o].card \in ttMerged
-----------------------------------------------------------------------------
(* Why it works: what the steps preserve.                                  *)

(* One operation at a time is not finished, and one process at a time      *)
(* holds the lock.                                                         *)
Unsettled == ttMarkers \cup InPhase("prepared")
Locks(p) == ttAt[p].pc \in {"prepared", "completed", "forgotten"}

OneTransfer ==
  /\ \A o1, o2 \in Unsettled : o1 = o2
  /\ \A p1, p2 \in TtProcs : Locks(p1) /\ Locks(p2) => p1 = p2

(* Until it commits, the process that holds the lock sees the row it       *)
(* copied; what it forgets is completed.                                   *)
LockFits ==
  \A p \in TtProcs : \A o \in ttAt[p].op :
    /\ ttAt[p].pc = "prepared" =>
         /\ ttOps[o].phase = "prepared"
         /\ o \notin ttMarkers
         /\ ttOps[o].dir = "delete" => ttMain[ttOps[o].card] = ttOps[o].sha
    /\ ttAt[p].pc \in {"completed", "forgotten"} => ttOps[o].phase # "prepared"

(* What a prepared operation copied is where the marker says it is.        *)
PreparedFits ==
  \A o \in InPhase("prepared") :
    LET c == ttOps[o].card IN
    /\ ttOps[o].kept
    /\ ttOps[o].dir = "delete" =>
         /\ ~Trashed(c)
         /\ IF o \in ttMarkers THEN ~Live(c) /\ c \notin ttMerged \cup ttListed
            ELSE Live(c) \/ c \in ttMerged
    /\ ttOps[o].dir = "restore" =>
         /\ ttTrash[c] = ttOps[o].sha
         /\ o \in ttMarkers <=> Live(c)

(* A card that was merged away or listed anew is in neither file, and a    *)
(* card is in both only while its restore is under way.                    *)
OnePlace ==
  \A c \in TtCards :
    /\ Live(c) /\ Trashed(c) =>
         \E o \in ttMarkers \cap InPhase("prepared") :
           ttOps[o].dir = "restore" /\ ttOps[o].card = c
    /\ c \in ttMerged => ~Live(c) /\ ~Trashed(c) /\ c \notin ttListed
    /\ c \in ttListed => ~Live(c) /\ ~Trashed(c)

TtInv == TtTypeOK /\ OneTransfer /\ LockFits /\ PreparedFits /\ OnePlace
=============================================================================
