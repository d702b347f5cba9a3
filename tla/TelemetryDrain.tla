--------------------------- MODULE TelemetryDrain ---------------------------
(***************************************************************************)
(* A PC keeps, per card, a row in an outbox that says the team server does *)
(* not know the card's latest state yet (repo/manage_telemetry.py).  One   *)
(* drain at a time reads the dirty rows, builds the facts, sends them and  *)
(* settles the rows (services/telemetry_drain.py, routers/_telemetry.py).  *)
(* Every one of these steps is a transaction or a call of its own, cards   *)
(* change in between, and a call that timed out may still reach the server *)
(* (manage_db.upsert_facts) after a later one.                             *)
(*                                                                         *)
(* One card of the account that is logged in is followed.  A fact is the   *)
(* version of the card it was built from, the version in which the card    *)
(* was placed where it is, the time of that placement if one is recorded,  *)
(* and whether the card was deleted.                                       *)
(***************************************************************************)
EXTENDS Integers

CONSTANTS
  MaxChanges,   \* bound: changes of the card that are followed
  MaxTelFaults  \* bound: timeouts, lost calls, refusals and restarts

ASSUME TelemetryAssumption == MaxChanges \in Nat /\ MaxTelFaults \in Nat

VARIABLES
  telCard,    \* the card
  telRow,     \* its row in the outbox
  telOwed,    \* the card changed and the request has not marked it dirty yet
  telTask,    \* the background task: "none", "soon", "draining"
  telNewer,   \* a drain was asked for since the task last started one
  telDrain,   \* the drain's step and its snapshot
  telCalls,   \* pushes the server has not handled
  telTeam,    \* the fact the team server holds
  telTaken,   \* history: the latest version the server ever took
  telFaults

telCardVars == <<telCard, telRow, telOwed>>
telTaskVars == <<telTask, telNewer>>
telServerVars == <<telCalls, telTeam, telTaken>>
telVars == <<telCardVars, telTaskVars, telDrain, telServerVars, telFaults>>

Versions == 0..MaxChanges
Fact == [ver : Versions, place : Versions, stamp : Versions, gone : BOOLEAN]
NoFact == [ver |-> 0, place |-> 0, stamp |-> 0, gone |-> TRUE]
NoDrain == [at |-> "none", rev |-> 0, fact |-> NoFact]

TelTypeOK ==
  /\ telCard \in Fact
  /\ telRow \in [rev : 1..MaxChanges + 1, pushed : BOOLEAN, tomb : BOOLEAN,
                 snapshot : Fact, held : BOOLEAN, ver : Versions]
  /\ telOwed \in BOOLEAN
  /\ telTask \in {"none", "soon", "draining"}
  /\ telNewer \in BOOLEAN
  /\ telDrain \in [at : {"none", "list", "build", "push", "wait", "taken", "failed", "end"},
                   rev : 0..MaxChanges + 1, fact : Fact]
  /\ telCalls \subseteq [fact : Fact, awaited : BOOLEAN]
  /\ telTeam \in Fact
  /\ telTaken \in -1..MaxChanges
  /\ telFaults \in 0..MaxTelFaults

(* A card whose row was written with it, and whose fact the server has     *)
(* taken or not.                                                           *)
TelInit ==
  /\ telCard = [ver |-> 0, place |-> 0, stamp |-> 0, gone |-> FALSE]
  /\ \E taken \in BOOLEAN :
       /\ telRow = [rev |-> 1, pushed |-> taken, tomb |-> FALSE, snapshot |-> NoFact,
                    held |-> FALSE, ver |-> 0]
       /\ telTeam = IF taken THEN telCard ELSE NoFact
       /\ telTaken = IF taken THEN 0 ELSE -1
  /\ telOwed = FALSE
  /\ telTask = "none"
  /\ telNewer = FALSE
  /\ telDrain = NoDrain
  /\ telCalls = {}
  /\ telFaults = 0

TelFault == telFaults < MaxTelFaults /\ telFaults' = telFaults + 1

-----------------------------------------------------------------------------
(* The card and its row.                                                   *)

NextVersion == telCard.ver + 1

(* mark_telemetry_dirty_in_connection, mark_telemetry_tombstone_in_...     *)
MarkDirty(ver) ==
  telRow' = [telRow EXCEPT !.rev = @ + 1, !.pushed = FALSE, !.tomb = FALSE,
                           !.held = FALSE, !.ver = ver]
MarkTombstone(snapshot) ==
  telRow' = [telRow EXCEPT !.rev = @ + 1, !.pushed = FALSE, !.tomb = TRUE,
                           !.snapshot = snapshot, !.held = FALSE, !.ver = snapshot.ver]

(* Putting a card into a project or a folder: one transaction.             *)
CardMoves ==
  /\ ~telCard.gone
  /\ telCard.ver < MaxChanges
  /\ telCard' = [telCard EXCEPT !.ver = NextVersion, !.place = NextVersion,
                                !.stamp = NextVersion]
  /\ MarkDirty(NextVersion)
  /\ UNCHANGED <<telOwed, telTaskVars, telDrain, telServerVars, telFaults>>

(* Sharing, marking as final, an estimate or a metric that arrives: the    *)
(* row is marked after the change, in a transaction of its own and without *)
(* a look at the card (touch_generation_telemetry, pm_best_effort).        *)
CardChanges ==
  /\ ~telOwed
  /\ telCard.ver < MaxChanges
  /\ telCard' = [telCard EXCEPT !.ver = NextVersion]
  /\ telOwed' = TRUE
  /\ UNCHANGED <<telRow, telTaskVars, telDrain, telServerVars, telFaults>>

CardTouched ==
  /\ telOwed
  /\ telOwed' = FALSE
  /\ MarkDirty(telCard.ver)
  /\ UNCHANGED <<telCard, telTaskVars, telDrain, telServerVars, telFaults>>

CardTrashed ==
  /\ ~telCard.gone
  /\ telCard.ver < MaxChanges
  /\ telCard' = [telCard EXCEPT !.ver = NextVersion, !.gone = TRUE]
  /\ MarkTombstone(telCard')
  /\ UNCHANGED <<telOwed, telTaskVars, telDrain, telServerVars, telFaults>>

CardRestored ==
  /\ telCard.gone
  /\ telCard.ver < MaxChanges
  /\ telCard' = [telCard EXCEPT !.ver = NextVersion, !.gone = FALSE]
  /\ MarkDirty(NextVersion)
  /\ UNCHANGED <<telOwed, telTaskVars, telDrain, telServerVars, telFaults>>

BackoffEnds ==
  /\ telRow.held
  /\ telRow' = [telRow EXCEPT !.held = FALSE]
  /\ UNCHANGED <<telCard, telOwed, telTaskVars, telDrain, telServerVars, telFaults>>

-----------------------------------------------------------------------------
(* The background task: at most one drain, and another one when it was     *)
(* asked for meanwhile (schedule_telemetry_drain, _drain_soon).            *)

Schedule ==
  /\ IF telTask = "none" THEN telTask' = "soon" /\ UNCHANGED telNewer
                         ELSE telNewer' = TRUE /\ UNCHANGED telTask
  /\ UNCHANGED <<telCardVars, telDrain, telServerVars, telFaults>>

DrainStarts ==
  /\ telTask = "soon"
  /\ telTask' = "draining"
  /\ telNewer' = FALSE
  /\ telDrain' = [NoDrain EXCEPT !.at = "list"]
  /\ UNCHANGED <<telCardVars, telServerVars, telFaults>>

DrainEnds ==
  /\ telDrain.at = "end"
  /\ telDrain' = NoDrain
  /\ telTask' = IF telNewer THEN "soon" ELSE "none"
  /\ UNCHANGED <<telNewer, telCardVars, telServerVars, telFaults>>

(* list_dirty_telemetry.                                                   *)
ListDirty ==
  /\ telDrain.at = "list"
  /\ telDrain' =
       IF telRow.pushed \/ telRow.held THEN [telDrain EXCEPT !.at = "end"]
       ELSE IF telRow.tomb THEN [at |-> "push", rev |-> telRow.rev, fact |-> telRow.snapshot]
       ELSE [at |-> "build", rev |-> telRow.rev, fact |-> NoFact]
  /\ UNCHANGED <<telCardVars, telTaskVars, telServerVars, telFaults>>

(* mark_telemetry_pushed and mark_telemetry_failed touch a row only when   *)
(* it is still the one that was listed.                                    *)
Listed == telRow.rev = telDrain.rev /\ ~telRow.pushed

(* Mutant: the failure is settled as a success.                            *)
MarkFailed_Cleared == telRow' = IF Listed THEN [telRow EXCEPT !.pushed = TRUE] ELSE telRow

MarkPushed == telRow' = IF Listed THEN [telRow EXCEPT !.pushed = TRUE, !.held = FALSE]
                                  ELSE telRow
MarkFailed == telRow' = IF Listed THEN [telRow EXCEPT !.held = TRUE] ELSE telRow

(* build_telemetry_facts: a card that is gone by now makes no fact, and    *)
(* its row is put aside.                                                   *)
BuildFacts ==
  /\ telDrain.at = "build"
  /\ IF telCard.gone
       THEN MarkPushed /\ telDrain' = [telDrain EXCEPT !.at = "end"]
       ELSE /\ telDrain' = [telDrain EXCEPT !.at = "push", !.fact = telCard]
            /\ UNCHANGED telRow
  /\ UNCHANGED <<telCard, telOwed, telTaskVars, telServerVars, telFaults>>

Push ==
  /\ telDrain.at = "push"
  /\ telDrain' = [telDrain EXCEPT !.at = "wait"]
  /\ telCalls' = telCalls \cup {[fact |-> telDrain.fact, awaited |-> TRUE]}
  /\ UNCHANGED <<telCardVars, telTaskVars, telTeam, telTaken, telFaults>>

Forsaken == {[c EXCEPT !.awaited = FALSE] : c \in telCalls}

(* The drain hears nothing.  The call may still arrive, or be lost.        *)
PushTimesOut(lost) ==
  /\ telDrain.at = "wait"
  /\ TelFault
  /\ telDrain' = [telDrain EXCEPT !.at = "failed"]
  /\ telCalls' = IF lost THEN {c \in telCalls : ~c.awaited} ELSE Forsaken
  /\ UNCHANGED <<telCardVars, telTaskVars, telTeam, telTaken>>

Settle ==
  /\ \/ telDrain.at = "taken" /\ MarkPushed
     \/ telDrain.at = "failed" /\ MarkFailed
  /\ telDrain' = [telDrain EXCEPT !.at = "end"]
  /\ UNCHANGED <<telCard, telOwed, telTaskVars, telServerVars, telFaults>>

-----------------------------------------------------------------------------
(* The team server: upsert_facts.                                          *)

Older(a, b) == a.stamp < b.stamp /\ a.stamp > 0

(* Mutant: the placement of the last call that arrives.                    *)
Placed_AsItArrives(old, new) == new

(* merge_task_activity_location: a placement that is known to be older     *)
(* than the one on record does not replace it.                             *)
Placed(old, new) ==
  IF Older(new, old) THEN [new EXCEPT !.place = old.place, !.stamp = old.stamp]
  ELSE IF new.place = old.place /\ new.stamp = 0 THEN [new EXCEPT !.stamp = old.stamp]
  ELSE new

(* A deletion only marks what is known of the card.                        *)
Upserted(old, new) ==
  IF telTaken < 0 THEN new
  ELSE IF new.gone THEN [old EXCEPT !.gone = TRUE, !.ver = new.ver]
  ELSE Placed(old, new)

Answered(c, at) ==
  telDrain' = IF c.awaited THEN [telDrain EXCEPT !.at = at] ELSE telDrain

ServerTakes(c) ==
  /\ telCalls' = telCalls \ {c}
  /\ telTeam' = Upserted(telTeam, c.fact)
  /\ telTaken' = IF c.fact.ver > telTaken THEN c.fact.ver ELSE telTaken
  /\ Answered(c, "taken")
  /\ UNCHANGED <<telCardVars, telTaskVars, telFaults>>

(* The account is not linked on the server yet: the card is skipped.       *)
ServerSkips(c) ==
  /\ TelFault
  /\ telCalls' = telCalls \ {c}
  /\ Answered(c, "failed")
  /\ UNCHANGED <<telCardVars, telTaskVars, telTeam, telTaken>>

(* The backend of the PC restarts, and schedules a drain as it starts.     *)
TelRestart ==
  /\ TelFault
  /\ telOwed' = FALSE
  /\ telTask' = "soon"
  /\ telNewer' = FALSE
  /\ telDrain' = NoDrain
  /\ telCalls' = Forsaken
  /\ UNCHANGED <<telCard, telRow, telTeam, telTaken>>

-----------------------------------------------------------------------------
DrainStep == \/ DrainStarts \/ ListDirty \/ BuildFacts \/ Push \/ Settle \/ DrainEnds

TelNext ==
  \/ CardMoves \/ CardChanges \/ CardTouched \/ CardTrashed \/ CardRestored
  \/ BackoffEnds \/ Schedule
  \/ DrainStep
  \/ \E lost \in BOOLEAN : PushTimesOut(lost)
  \/ \E c \in telCalls : ServerTakes(c) \/ ServerSkips(c)
  \/ TelRestart

(* The task runs, the backoff ends, and the agent's regular ingest asks    *)
(* for a drain over and over (routers/ingest.py); the server answers what  *)
(* is waited for.                                                          *)
TelFairness ==
  /\ WF_telVars(DrainStep)
  /\ WF_telVars(BackoffEnds)
  /\ WF_telVars(Schedule)
  /\ WF_telVars(\E c \in telCalls : c.awaited /\ ServerTakes(c))

TelSpec == TelInit /\ [][TelNext]_telVars /\ TelFairness

-----------------------------------------------------------------------------
(* Properties.                                                             *)

(* A delayed call does not put a card back where it was: of two placements *)
(* with a recorded time, the server keeps the later one (upsert_facts,     *)
(* merge_task_activity_location).                                          *)
PlacementIsKept ==
  [][telTeam.stamp > 0 /\ telTeam'.stamp > 0 => telTeam'.place >= telTeam.place]_telVars

(* What is marked dirty is taken by the server in the end: no mark is lost *)
(* between two drains, whatever fails in between (_drain_soon).  Not said  *)
(* of a card that is gone: a late touch puts its tombstone aside.          *)
EveryMarkIsTaken ==
  \A v \in Versions :
    (telRow.ver = v /\ ~telRow.pushed) ~> (telTaken >= v \/ telCard.gone)
=============================================================================
