----------------------------- MODULE CardTrash ------------------------------
(***************************************************************************)
(* A card that is deleted, restored and purged while its generation is on  *)
(* its way: the usual path of the trash (repo/trash.py), where a card and  *)
(* its children move between two attached databases in one transaction,    *)
(* against the request's phases, which stay behind in the main database,   *)
(* the worker that claims, begins and creates, the outbox that anchors the *)
(* job, and the reports of what the provider decided.                      *)
(*                                                                         *)
(* One card, its request, its job, one agent process.  Who owns a lease,   *)
(* creates that end without an answer and confirmed requeues are           *)
(* GenSubmission's; the copies a list push makes of a job without a card   *)
(* are GenResult's.  A report is one step: what it decides on is read      *)
(* again in its transaction.  Only the report of a job still at work ends  *)
(* with a second transaction, which may come late.                         *)
(***************************************************************************)
EXTENDS Integers

CONSTANTS
  MaxTrips,      \* bound: deletions of the card
  MaxTrashFaults \* bound: lost answers and agent crashes

ASSUME TrashAssumption == MaxTrips \in Nat /\ MaxTrashFaults \in Nat

VARIABLES
  ctCard,      \* the card, in the main database or in a row of the trash
  ctReq,       \* phase of its request
  ctAgent,     \* the worker, the anchor its outbox owes, the job it tracks
  ctJob,       \* what the provider says of the job
  ctEvent,     \* the event journal holds an anchor of this job
  ctLate,      \* a report's second transaction is still to come
  ctWithdrawn, \* history: the card was deleted before anything was paid
  ctTrips,
  ctFaults

ctVars == <<ctCard, ctReq, ctAgent, ctJob, ctEvent, ctLate, ctWithdrawn, ctTrips, ctFaults>>

(* "deleted" and "retired" are canceled requests, by the note they carry   *)
(* (_DELETED_REQUEST_NOTE, _RETIRED_REQUEST_NOTE); "tracking" stands for   *)
(* verifying and blocked as well, "recovery" for recovery_required.        *)
Presubmit == {"pending", "claimed"}
Nonterminal == Presubmit \cup {"submitting", "tracking", "recovery"}
Canceled == {"deleted", "retired"}
Phases == Nonterminal \cup Canceled \cup {"done", "failed"}
Verdicts == {"success", "failure"}

(* mark: provider_terminal of the payload.  why: the error of the card.    *)
Card == [at : {"live", "trash", "purged"}, st : {"pending", "running", "done", "failed"},
         job : BOOLEAN, why : {"none", "deleted", "retired", "other"}, asset : BOOLEAN,
         mark : Verdicts \cup {"none"}]
TrashAgent == [pc : {"idle", "prep", "begin", "release", "create"}, owes : BOOLEAN, tracks : BOOLEAN]

CardTypeOK ==
  /\ ctCard \in Card
  /\ ctReq \in Phases
  /\ ctAgent \in TrashAgent
  /\ ctJob \in Verdicts \cup {"none", "running"}
  /\ {ctEvent, ctLate, ctWithdrawn} \subseteq BOOLEAN
  /\ ctTrips \in 0..MaxTrips
  /\ ctFaults \in 0..MaxTrashFaults
  /\ ctCard.at # "trash" => ctCard.mark = "none"
  /\ ctCard.job \/ ctAgent.owes => ctJob # "none"

CtInit ==
  /\ ctCard = [at |-> "live", st |-> "pending", job |-> FALSE, why |-> "none",
               asset |-> FALSE, mark |-> "none"]
  /\ ctReq = "pending"
  /\ ctAgent = [pc |-> "idle", owes |-> FALSE, tracks |-> FALSE]
  /\ ctJob = "none"
  /\ ctEvent = FALSE
  /\ ctLate = FALSE
  /\ ctWithdrawn = FALSE
  /\ ctTrips = 0
  /\ ctFaults = 0

OnBoard == ctCard.at = "live"
Unfinished == ctCard.st \in {"pending", "running"}
Anchored == OnBoard /\ ctCard.job

Shown(st, why) == [ctCard EXCEPT !.st = st, !.why = why]

CtFault == ctFaults < MaxTrashFaults /\ ctFaults' = ctFaults + 1
Arrives(heard) == IF heard THEN UNCHANGED ctFaults ELSE CtFault

ctRest == <<ctEvent, ctLate, ctWithdrawn, ctTrips>>

-----------------------------------------------------------------------------
(* The worker, up to the paid call.                                        *)

(* claim_pending_requests: a pending request whose card is live.           *)
ClaimRequest ==
  /\ ctAgent.pc = "idle"
  /\ ctReq = "pending"
  /\ OnBoard
  /\ ctReq' = "claimed"
  /\ ctAgent' = [ctAgent EXCEPT !.pc = "prep"]
  /\ UNCHANGED <<ctCard, ctJob, ctRest, ctFaults>>

(* sweep_expired_generation_claims, of a claim whose worker is gone: not   *)
(* of a request whose card is in the trash.                                *)
SweepRequest ==
  /\ ctAgent.pc = "idle"
  /\ OnBoard
  /\ ~ctCard.job
  /\ ctReq \in {"claimed", "submitting", "tracking"}
  /\ ctReq' = IF ctReq = "claimed" THEN "pending" ELSE "recovery"
  /\ ctCard' = IF Unfinished THEN Shown(IF ctReq = "claimed" THEN "pending" ELSE "running", "none")
               ELSE ctCard
  /\ UNCHANGED <<ctAgent, ctJob, ctRest, ctFaults>>

(* apply_local_failure: the preparation failed (a reference is missing).   *)
PrepareFails(handled) ==
  /\ ctAgent.pc = "prep"
  /\ Arrives(handled)
  /\ IF handled /\ ctReq \notin {"done", "failed"}
       THEN /\ ctReq' = "failed"
            /\ ctCard' = IF OnBoard THEN Shown("failed", "other") ELSE ctCard
       ELSE UNCHANGED <<ctReq, ctCard>>
  /\ ctAgent' = [ctAgent EXCEPT !.pc = "idle"]
  /\ UNCHANGED <<ctJob, ctRest>>

(* begin_request_submission; unanswered, it is sent again.                 *)
BeginRequest(heard) ==
  /\ ctAgent.pc \in {"prep", "begin"}
  /\ IF OnBoard /\ ~ctCard.job /\ ctReq \in {"claimed", "submitting"}
       THEN /\ ctReq' = "submitting"
            /\ ctCard' = IF ctReq = "claimed" /\ Unfinished THEN Shown("running", "none") ELSE ctCard
            /\ ctAgent' = [ctAgent EXCEPT !.pc = IF heard THEN "create" ELSE "begin"]
       ELSE /\ UNCHANGED <<ctReq, ctCard>>
            /\ ctAgent' = [ctAgent EXCEPT !.pc = IF heard THEN "release" ELSE "begin"]
  /\ Arrives(heard)
  /\ UNCHANGED <<ctJob, ctRest>>

BeginGivenUp ==
  /\ ctAgent.pc = "begin"
  /\ ctAgent' = [ctAgent EXCEPT !.pc = "release"]
  /\ UNCHANGED <<ctCard, ctReq, ctJob, ctRest, ctFaults>>

(* release_claimed_request: the card need not be there.                    *)
ReleaseRequest(handled) ==
  /\ ctAgent.pc = "release"
  /\ Arrives(handled)
  /\ IF handled /\ ctReq \in {"claimed", "submitting"} /\ ~Anchored
       THEN /\ ctReq' = "pending"
            /\ ctCard' = IF OnBoard /\ Unfinished THEN Shown("pending", "none") ELSE ctCard
       ELSE UNCHANGED <<ctReq, ctCard>>
  /\ ctAgent' = [ctAgent EXCEPT !.pc = "idle"]
  /\ UNCHANGED <<ctJob, ctRest>>

(* The paid call: the job is in the outbox and tracked.                    *)
CreateJob ==
  /\ ctAgent.pc = "create"
  /\ ctJob' = "running"
  /\ ctAgent' = [pc |-> "idle", owes |-> TRUE, tracks |-> TRUE]
  /\ UNCHANGED <<ctCard, ctReq, ctRest, ctFaults>>

WorkerDies ==
  /\ ctAgent.pc # "idle"
  /\ CtFault
  /\ ctAgent' = [ctAgent EXCEPT !.pc = "idle"]
  /\ UNCHANGED <<ctCard, ctReq, ctJob, ctRest>>

JobEnds ==
  /\ ctJob = "running"
  /\ ctJob' \in Verdicts
  /\ UNCHANGED <<ctCard, ctReq, ctAgent, ctRest, ctFaults>>

-----------------------------------------------------------------------------
(* apply_local_anchor.  The event is journaled if the journal can; an      *)
(* anchor that is not applied leaves the outbox when its request is over.  *)
AnchorJob(heard) ==
  /\ ctAgent.owes
  /\ LET applied == OnBoard /\ ctReq \notin Canceled \cup {"done"} IN
     /\ IF applied
          THEN /\ ctReq' = "tracking"
               /\ ctCard' = IF ctCard.st = "done" THEN ctCard
                            ELSE [Shown("running", "none") EXCEPT !.job = TRUE]
               /\ ctEvent' \in {ctEvent, TRUE}
          ELSE UNCHANGED <<ctReq, ctCard, ctEvent>>
     /\ ctAgent' = [ctAgent EXCEPT !.owes =
                      ~(heard /\ (applied \/ ctReq \in Canceled \cup {"done", "failed"}))]
  /\ Arrives(heard)
  /\ UNCHANGED <<ctJob, ctLate, ctWithdrawn, ctTrips>>

-----------------------------------------------------------------------------
(* Reports: of a job the agent tracks, or of a candidate of the server.    *)

(* list_reconcile_candidates.                                              *)
Candidate == Anchored /\ Unfinished /\ ctReq \in {"tracking", "done", "failed"}

(* The job is at work: record_request_check, then set_status, each of its  *)
(* own; neither asks whether the card is there.                            *)
ReportWorking ==
  /\ ctAgent.tracks \/ Candidate
  /\ ctJob = "running"
  /\ ctReq' = IF ctReq \in Nonterminal THEN "tracking" ELSE ctReq
  /\ ctLate' = TRUE
  /\ UNCHANGED <<ctCard, ctAgent, ctJob, ctEvent, ctWithdrawn, ctTrips, ctFaults>>

SetStatusLate ==
  /\ ctLate
  /\ ctCard' = IF OnBoard /\ ctCard.st # "done" THEN Shown("running", "none") ELSE ctCard
  /\ ctLate' = FALSE
  /\ UNCHANGED <<ctReq, ctAgent, ctJob, ctEvent, ctWithdrawn, ctTrips, ctFaults>>

(* apply_reconcile, of a card that has the job.                            *)
Final == IF ctJob = "success" THEN "done" ELSE "failed"

SettleCard ==
  IF ctCard.st = "done"
    THEN ctReq' = "done" /\ UNCHANGED ctCard
  ELSE /\ ctReq' = Final
       /\ ctCard' = IF ctCard.st = Final THEN ctCard
                    ELSE [Shown(Final, IF Final = "failed" THEN "other" ELSE "none")
                            EXCEPT !.asset = @ \/ Final = "done"]

(* resolve_missing_target, of a card in the trash: the request is retired, *)
(* and the first verdict is kept in the payload.                           *)
RetireRequest ==
  IF ctReq \in Nonterminal
    THEN /\ ctReq' = "retired"
         /\ ctCard' = [ctCard EXCEPT !.mark = IF @ = "none" THEN ctJob ELSE @]
    ELSE UNCHANGED <<ctReq, ctCard>>

(* Mutant: a purged card is never proof enough.                            *)
ReportEnded_Unverified(heard) ==
  /\ ctAgent.tracks \/ Candidate
  /\ ctJob \in Verdicts
  /\ \/ Anchored /\ SettleCard
     \/ ctCard.at = "trash" /\ ctCard.job /\ RetireRequest
     \/ UNCHANGED <<ctReq, ctCard>> /\ ~Anchored /\ ~(ctCard.at = "trash" /\ ctCard.job)
  /\ Arrives(heard)
  /\ ctAgent' = [ctAgent EXCEPT !.tracks = @ /\ ~(heard /\ ctCard.job /\ ctCard.at # "purged")]
  /\ UNCHANGED <<ctJob, ctRest>>

(* The job has ended.  The agent stops tracking it when the card is        *)
(* settled, the request is retired, or a purged card is known to have had  *)
(* this job.                                                               *)
ReportEnded(heard) ==
  /\ ctAgent.tracks \/ Candidate
  /\ ctJob \in Verdicts
  /\ LET trashed == ctCard.at = "trash" /\ ctCard.job
         released == ctCard.at = "purged" /\ ctEvent
     IN /\ IF Anchored THEN SettleCard
           ELSE IF trashed THEN RetireRequest
           ELSE UNCHANGED <<ctReq, ctCard>>
        /\ ctAgent' = [ctAgent EXCEPT !.tracks = @ /\ ~(heard /\ (Anchored \/ trashed \/ released))]
  /\ Arrives(heard)
  /\ UNCHANGED <<ctJob, ctRest>>

(* A list push of the job, as it is or was (_upsert_synced).               *)
ListPush ==
  /\ Anchored
  /\ \E saw \in {"running", ctJob} :
       LET st == CASE saw = "running" -> "running" [] saw = "success" -> "done"
                   [] saw = "failure" -> "failed"
       IN \E why \in IF st # "failed" THEN {"none"}
                     ELSE {"other"} \cup ({ctCard.why} \ {"none"}) :
            ctCard' = [Shown(st, why) EXCEPT !.asset = @ \/ saw = "success"]
  /\ UNCHANGED <<ctReq, ctAgent, ctJob, ctRest, ctFaults>>

-----------------------------------------------------------------------------
(* The trash.                                                              *)

(* Mutant: the request is canceled whatever was handed out.                *)
DeleteCard_AnyPhase ==
  /\ OnBoard
  /\ ctTrips < MaxTrips
  /\ ctTrips' = ctTrips + 1
  /\ ctCard' = [ctCard EXCEPT !.at = "trash"]
  /\ ctReq' = IF ctReq \in Nonterminal THEN "deleted" ELSE ctReq
  /\ UNCHANGED <<ctAgent, ctJob, ctEvent, ctLate, ctWithdrawn, ctFaults>>

(* move_to_trash: a request that was not handed to the provider is         *)
(* canceled with it.                                                       *)
DeleteCard ==
  /\ OnBoard
  /\ ctTrips < MaxTrips
  /\ ctTrips' = ctTrips + 1
  /\ ctCard' = [ctCard EXCEPT !.at = "trash"]
  /\ ctReq' = IF ctReq \in Presubmit THEN "deleted" ELSE ctReq
  /\ ctWithdrawn' = (ctWithdrawn \/ (ctJob = "none" /\ ctReq \in Presubmit \cup {"submitting"}))
  /\ UNCHANGED <<ctAgent, ctJob, ctEvent, ctLate, ctFaults>>

Returned(st, why) == [Shown(st, why) EXCEPT !.at = "live", !.mark = "none"]

(* Mutant: what the provider finished is done, saved or not.               *)
RestoreCard_Unsaved ==
  /\ ctCard.at = "trash"
  /\ IF ctReq = "retired" /\ ctCard.mark # "none"
       THEN LET st == IF ctCard.mark = "failure" THEN "failed" ELSE "done"
            IN /\ ctCard' = Returned(st, IF st = "failed" THEN "retired" ELSE "none")
               /\ ctReq' = st
       ELSE /\ ctCard' = IF ctReq = "deleted" /\ Unfinished THEN Returned("failed", "deleted")
                         ELSE Returned(ctCard.st, ctCard.why)
            /\ UNCHANGED ctReq
  /\ UNCHANGED <<ctAgent, ctJob, ctRest, ctFaults>>

(* Mutant: the retired request is left as it is.                           *)
RestoreCard_KeepsRequest ==
  /\ ctCard.at = "trash"
  /\ ctCard' = IF ctReq = "deleted" /\ Unfinished THEN Returned("failed", "deleted")
               ELSE Returned(ctCard.st, ctCard.why)
  /\ UNCHANGED <<ctReq, ctAgent, ctJob, ctRest, ctFaults>>

(* restore_from_trash.  A retired request takes the verdict the payload    *)
(* kept (_restore_retired_request); a card whose request was canceled      *)
(* before it was paid comes back failed.                                   *)
RestoreCard ==
  /\ ctCard.at = "trash"
  /\ IF ctReq = "retired" /\ ctCard.mark # "none"
       THEN CASE ctCard.mark = "failure" -> ctCard' = Returned("failed", "retired")
                                              /\ ctReq' = "failed"
              [] ctCard.mark = "success" /\ ctCard.asset -> ctCard' = Returned("done", "none")
                                                              /\ ctReq' = "done"
              [] OTHER -> ctCard' = Returned("running", "none") /\ ctReq' = "tracking"
       ELSE /\ ctCard' = IF ctReq = "deleted" /\ Unfinished THEN Returned("failed", "deleted")
                         ELSE Returned(ctCard.st, ctCard.why)
            /\ UNCHANGED ctReq
  /\ UNCHANGED <<ctAgent, ctJob, ctRest, ctFaults>>

PurgeCard ==
  /\ ctCard.at = "trash"
  /\ ctCard' = [ctCard EXCEPT !.at = "purged", !.mark = "none"]
  /\ UNCHANGED <<ctReq, ctAgent, ctJob, ctRest, ctFaults>>

(* _cancel_orphan_requests, after a purge in a transaction of its own, or  *)
(* at the next start, where the requests of the trash are looked at too.   *)
CancelOrphan(after) ==
  /\ ctCard.at \in after
  /\ ctReq \in (IF ctCard.at = "purged" THEN Nonterminal ELSE Presubmit)
  /\ ctReq' = "deleted"
  /\ UNCHANGED <<ctCard, ctAgent, ctJob, ctRest, ctFaults>>

(* fail_orphaned_jobs, at the start of the server.                         *)
FailOrphan ==
  /\ OnBoard /\ Unfinished
  /\ IF ctCard.job
       THEN ctCard' = Shown("running", ctCard.why)
       ELSE /\ ctReq \notin Nonterminal
            /\ ctCard' = Shown("failed", "other")
  /\ UNCHANGED <<ctReq, ctAgent, ctJob, ctRest, ctFaults>>

Boot == FailOrphan \/ CancelOrphan({"trash", "purged"})

-----------------------------------------------------------------------------
Worker ==
  \/ ClaimRequest \/ SweepRequest \/ BeginGivenUp \/ CreateJob \/ WorkerDies
  \/ \E ok \in BOOLEAN : PrepareFails(ok) \/ BeginRequest(ok) \/ ReleaseRequest(ok)

Reports ==
  \/ \E heard \in BOOLEAN : AnchorJob(heard) \/ ReportEnded(heard)
  \/ ReportWorking \/ SetStatusLate \/ ListPush \/ JobEnds

Trash == DeleteCard \/ RestoreCard \/ PurgeCard \/ CancelOrphan({"purged"})

CtNext == Worker \/ Reports \/ Trash \/ Boot

CtSpec == CtInit /\ [][CtNext]_ctVars

(* The passes of the agent come back to every job it tracks and to every   *)
(* candidate of the server; faults are bounded.  Nothing is asked of the   *)
(* provider, of the outbox, or of who deletes and restores.                *)
ReportFairness == WF_ctVars(\E heard \in BOOLEAN : ReportEnded(heard))

CtFairSpec == CtSpec /\ ReportFairness

-----------------------------------------------------------------------------
(* Properties.                                                             *)

(* Whatever a card goes through, what it says is what happened: "canceled  *)
(* before it was paid" only of a card without a job, "failed while in the  *)
(* trash" only if the provider failed, done only with a result, and its    *)
(* request is done only then.                                              *)
TrashKeepsVerdict ==
  /\ OnBoard /\ ctCard.why = "deleted" => ctJob = "none"
  /\ ctCard.why = "retired" => ctJob = "failure"
  /\ ctCard.st = "done" => ctJob = "success" /\ ctCard.asset
  /\ ctReq = "done" => ctJob = "success"

(* A card that was restored, or that nobody deleted, is not left running   *)
(* when the provider has decided.                                          *)
RestoredIsSettled ==
  (Anchored /\ ctJob \in Verdicts) ~> (~OnBoard \/ ctCard.st = Final)

(* A job that was paid for is not lost to its card while the card can be   *)
(* shown again: it is anchored, or the outbox will try.                    *)
PaidJobIsKept == ctJob # "none" /\ ctCard.at # "purged" => ctCard.job \/ ctAgent.owes

(* An agent does not track for ever a job that was anchored and is over,   *)
(* though its card is deleted, restored and purged meanwhile: a tracked    *)
(* job takes one of the agent's places (_MAX_IN_FLIGHT_JOBS).              *)
TrackingEnds == (ctAgent.tracks /\ ctEvent /\ ctJob \in Verdicts) ~> ~ctAgent.tracks

(* What repo/trash.py:474-475 says: a card deleted before it was paid for  *)
(* does not, when it is restored, come back with a request that is claimed *)
(* and charged.                                                            *)
DeletedIsNotClaimed == [][ctWithdrawn /\ ctReq = "pending" => ctReq' # "claimed"]_ctVars
=============================================================================
