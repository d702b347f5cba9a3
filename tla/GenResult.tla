----------------------------- MODULE GenResult -----------------------------
(***************************************************************************)
(* How the verdict on one submitted job reaches its card.  The agent that  *)
(* submitted it anchors and polls it, another agent of the account (or the *)
(* server itself) reconciles cards that look unfinished, and every agent   *)
(* pushes its job list.  Their calls are handled in any order, late, and   *)
(* with the answer lost                                                    *)
(* (src/backend/app/repo/generations.py, generation_sync.py,               *)
(* usecases/gen_requests.py; src/agent_push.py).                           *)
(*                                                                         *)
(* The card, its request and a possible second ("synced") row of the same  *)
(* job are followed from the moment create has returned the job id.  All   *)
(* request phases that are not final are "open".                           *)
(***************************************************************************)
EXTENDS Naturals

CONSTANTS
  Handlers,           \* bound: calls that are in flight together
  MaxPushes,          \* bound: list pushes
  InputsMayBeMissing  \* the provider may drop the reference images

ASSUME ResultAssumption ==
  /\ MaxPushes \in Nat
  /\ InputsMayBeMissing \in BOOLEAN

VARIABLES
  hf,        \* what the provider says of the job
  noInput,   \* it was generated without its reference images
  card,      \* generation.status of the local card
  barred,    \* generation.error is NO_REVIVE_ERROR
  asset,     \* the card has its result
  anchored,  \* generation.job_id is the job
  req,       \* gen_request.status
  copy,      \* status of the synced row of the job, "none" if there is none
  outbox,    \* the agent's anchor_outbox holds the job
  tracked,   \* the agent's tracked_job holds the job
  call,      \* the calls in flight
  pushes,    \* list pushes so far
  refused    \* history: the server took "references missing" for this card

cardVars == <<card, barred, asset, anchored, req, copy, refused>>
agentVars == <<outbox, tracked>>
providerVars == <<hf, noInput>>
vars == <<cardVars, agentVars, providerVars, call, pushes>>

Shown == {"running", "done", "failed"}
None == [op |-> "none", saw |-> "processing"]
Free(i) == call[i] = None
Answered(i) == call' = [call EXCEPT ![i] = None]

ResultTypeOK ==
  /\ hf \in {"processing", "completed", "result", "rejected"}
  /\ noInput \in BOOLEAN
  /\ card \in Shown
  /\ barred \in BOOLEAN
  /\ asset \in BOOLEAN
  /\ anchored \in BOOLEAN
  /\ req \in {"open", "done", "failed"}
  /\ copy \in Shown \cup {"none"}
  /\ outbox \in BOOLEAN
  /\ tracked \in BOOLEAN
  /\ call \in [Handlers -> [op : {"none", "anchor", "report", "force", "diff", "ingest"},
                            saw : {"processing", "completed", "result", "rejected"}]]
  /\ pushes \in 0..MaxPushes
  /\ refused \in BOOLEAN
  /\ barred => card = "failed" /\ anchored

Init ==
  /\ hf = "processing"
  /\ noInput \in {FALSE, InputsMayBeMissing}
  /\ card = "running" /\ barred = FALSE /\ asset = FALSE /\ anchored = FALSE
  /\ req = "open"
  /\ copy = "none"
  /\ outbox = TRUE /\ tracked = TRUE
  /\ call = [i \in Handlers |-> None]
  /\ pushes = 0
  /\ refused = FALSE

-----------------------------------------------------------------------------
(* The provider.  It may announce success before the result has a URL.     *)
ProviderMoves(from, to) ==
  /\ hf = from
  /\ hf' = to
  /\ UNCHANGED <<noInput, cardVars, agentVars, call, pushes>>

Provider == \/ ProviderMoves("processing", "completed")
            \/ ProviderMoves("completed", "result")
            \/ ProviderMoves("processing", "rejected")

-----------------------------------------------------------------------------
(* The agents' calls.  A call carries what the provider said when it was   *)
(* sent; a call that timed out is still handled.                           *)
Succeeded == hf \in {"completed", "result"}

Send(i, op, saw) ==
  /\ Free(i)
  /\ call' = [call EXCEPT ![i] = [op |-> op, saw |-> saw]]
  /\ UNCHANGED <<cardVars, agentVars, providerVars>>

SendAnchor(i) ==
  /\ outbox
  /\ Send(i, "anchor", "processing")
  /\ UNCHANGED pushes

(* _poll_active_jobs and _finalize_tracked_job.  Only this agent knows how *)
(* many reference images the job should have.                              *)
Poll(i) ==
  /\ tracked
  /\ IF noInput /\ Succeeded
       THEN Send(i, "force", hf)
       ELSE Send(i, "report", hf)
  /\ UNCHANGED pushes

(* Mutant: only requests that are still open are candidates.               *)
MayReconcile_OpenOnly == anchored /\ card = "running" /\ req = "open"

(* list_reconcile_candidates.                                              *)
MayReconcile == anchored /\ card = "running"

(* reconcile_pass of an agent that does not track the job, or              *)
(* reconcile_local_house of the server.                                    *)
Reconcile(i) ==
  /\ MayReconcile
  /\ Send(i, "report", hf)
  /\ UNCHANGED pushes

(* push_once, or the server's own periodic sync (full: no diff).  The list *)
(* is sent as the provider gave it, a completed job without its result URL *)
(* included.                                                               *)
Push(i, full) ==
  /\ pushes < MaxPushes
  /\ pushes' = pushes + 1
  /\ Send(i, IF full THEN "ingest" ELSE "diff", hf)

-----------------------------------------------------------------------------
(* apply_local_anchor.                                                     *)

(* Mutant: the synced row of the same job is left.                         *)
Anchor_KeepsCopy ==
  IF req = "done"
    THEN UNCHANGED cardVars
    ELSE /\ anchored' = TRUE
         /\ req' = "open"
         /\ card' = IF card = "done" THEN "done" ELSE "running"
         /\ barred' = FALSE
         /\ UNCHANGED <<asset, copy, refused>>

Anchor ==
  IF req = "done"
    THEN UNCHANGED cardVars
    ELSE /\ anchored' = TRUE
         /\ req' = "open"
         /\ card' = IF card = "done" THEN "done" ELSE "running"
         /\ barred' = FALSE
         /\ copy' = "none"
         /\ UNCHANGED <<asset, refused>>

(* Applied, or settled because the request is finished: the agent drops    *)
(* its outbox entry when it hears so.                                      *)
AnchorHandled(i, heard) ==
  /\ call[i].op = "anchor"
  /\ Answered(i)
  /\ Anchor
  /\ outbox' = (outbox /\ ~heard)
  /\ UNCHANGED <<tracked, providerVars, pushes>>

-----------------------------------------------------------------------------
(* _reconcile_request.                                                     *)

Resumed ==
  /\ card' = IF card = "done" THEN "done" ELSE "running"
  /\ barred' = (barred /\ card = "done")

(* Mutant: success without a result URL closes the card.                   *)
StillWorking_ClosesEmpty(i) ==
  /\ call[i].op = "report"
  /\ call[i].saw \in {"processing", "completed"}
  /\ Answered(i)
  /\ IF call[i].saw = "completed" THEN card' = "done" /\ barred' = FALSE ELSE Resumed
  /\ UNCHANGED <<asset, anchored, req, copy, refused, agentVars, providerVars, pushes>>

(* Still processing, or successful without a result URL:                   *)
(* record_request_check leaves a finished request as it is, set_status     *)
(* a finished card.                                                        *)
StillWorking(i) ==
  /\ call[i].op = "report"
  /\ call[i].saw \in {"processing", "completed"}
  /\ Answered(i)
  /\ Resumed
  /\ UNCHANGED <<asset, anchored, req, copy, refused, agentVars, providerVars, pushes>>

(* apply_reconcile with a verdict: what it does, and whether the agent is  *)
(* told that this verdict is now the card's.                               *)
Verdict(i) == IF call[i].saw = "result" THEN "done" ELSE "failed"

Apply(verdict) ==
  \/ /\ \/ ~anchored
        \/ barred /\ verdict = "done"
     /\ UNCHANGED cardVars
  \/ /\ anchored
     /\ card \in {"done", verdict}
     /\ req' = card
     /\ UNCHANGED <<card, barred, asset, anchored, copy, refused>>
  \/ /\ anchored
     /\ card \notin {"done", verdict}
     /\ ~(barred /\ verdict = "done")
     /\ card' = verdict
     /\ asset' = (asset \/ verdict = "done")
     /\ req' = verdict
     /\ UNCHANGED <<barred, anchored, copy, refused>>

(* Mutant: the answer does not look for the stored result.                 *)
Settled_Unsaved(verdict) == anchored /\ card' = verdict

Settled(verdict) == anchored /\ card' = verdict /\ (verdict = "done" => asset')

Settle(i, heard) ==
  /\ call[i].op = "report"
  /\ call[i].saw \in {"result", "rejected"}
  /\ Answered(i)
  /\ Apply(Verdict(i))
  /\ tracked' = (tracked /\ ~(heard /\ Settled(Verdict(i))))
  /\ UNCHANGED <<outbox, providerVars, pushes>>

(* The forced failure: the card is barred unless it is finished already.   *)
ForceFail(i, heard) ==
  /\ call[i].op = "force"
  /\ Answered(i)
  /\ IF anchored /\ card = "running"
       THEN /\ card' = "failed" /\ barred' = TRUE /\ req' = "failed" /\ refused' = TRUE
            /\ UNCHANGED <<asset, anchored, copy>>
       ELSE /\ req' = IF anchored /\ card = "done" THEN "done" ELSE req
            /\ UNCHANGED <<card, barred, asset, anchored, copy, refused>>
  /\ tracked' = (tracked /\ ~(heard /\ anchored))
  /\ UNCHANGED <<outbox, providerVars, pushes>>

-----------------------------------------------------------------------------
(* job_id_sync_diff: is the job unknown, or worth refreshing?              *)
Wanted ==
  \/ ~anchored /\ copy = "none"
  \/ anchored /\ card = "running"
  \/ copy = "running"
  \/ barred /\ copy = "none"

Diff(i) ==
  /\ call[i].op = "diff"
  /\ IF Wanted THEN call' = [call EXCEPT ![i].op = "ingest"] ELSE Answered(i)
  /\ UNCHANGED <<cardVars, agentVars, providerVars, pushes>>

Synced(saw) == CASE saw = "processing" -> "running"
                 [] saw = "rejected" -> "failed"
                 [] OTHER -> "done"

(* Mutant: the mark of a refusal is not looked at.                         *)
Upsert_IgnoresBar(saw) ==
  IF copy # "none" \/ ~anchored
    THEN copy' = Synced(saw) /\ UNCHANGED <<card, barred, asset>>
    ELSE /\ card' = Synced(saw)
         /\ barred' = (barred /\ Synced(saw) = "failed")
         /\ asset' = (asset \/ saw = "result")
         /\ UNCHANGED copy

(* _upsert_synced: the synced row of the job, or else its card unless that *)
(* is barred; a new synced row if there is neither.                        *)
Upsert(saw) ==
  IF copy # "none" \/ ~anchored \/ barred
    THEN copy' = Synced(saw) /\ UNCHANGED <<card, barred, asset>>
    ELSE /\ card' = Synced(saw)
         /\ asset' = (asset \/ saw = "result")
         /\ UNCHANGED <<barred, copy>>

Ingest(i) ==
  /\ call[i].op = "ingest"
  /\ Upsert(call[i].saw)
  /\ Answered(i)
  /\ UNCHANGED <<anchored, req, refused, agentVars, providerVars, pushes>>

-----------------------------------------------------------------------------
Report(i, heard) == Settle(i, heard) \/ ForceFail(i, heard)

Handle(i) ==
  \/ \E heard \in BOOLEAN : AnchorHandled(i, heard) \/ Report(i, heard)
  \/ StillWorking(i)
  \/ Diff(i)
  \/ Ingest(i)

Next ==
  \/ Provider
  \/ \E i \in Handlers :
       \/ SendAnchor(i)
       \/ Poll(i)
       \/ Reconcile(i)
       \/ \E full \in BOOLEAN : Push(i, full)
       \/ Handle(i)

Spec == Init /\ [][Next]_vars

(* Every call is handled; the agents' loops come back to every job they    *)
(* track and every candidate, whatever else they do; a resent anchor is    *)
(* answered at last.  Nothing is asked of the provider.                    *)
Fairness ==
  /\ \A i \in Handlers : WF_vars(Handle(i))
  /\ SF_vars(\E i \in Handlers : SendAnchor(i))
  /\ SF_vars(\E i \in Handlers : AnchorHandled(i, TRUE))
  /\ SF_vars(\E i \in Handlers : Poll(i))
  /\ SF_vars(\E i \in Handlers : Reconcile(i))

FairSpec == Spec /\ Fairness

-----------------------------------------------------------------------------
(* Why it works: the invariants that the steps preserve.                   *)

(* A card is barred by a refusal only.                                     *)
BarredIsRefused == barred => refused

(* A call in flight is late, but it never lies: what it saw of success or  *)
(* rejection is final with the provider.                                   *)
CallsAreTrue ==
  \A i \in Handlers :
    /\ call[i].saw \in {"completed", "result"} => Succeeded
    /\ call[i].saw = "rejected" => hf = "rejected"
    /\ call[i].op = "force" => noInput /\ Succeeded

(* Why a card may be done, may be barred, and why an agent may stop.       *)
DoneIsEarned == card = "done" => Succeeded
BarIsEarned == barred => noInput /\ Succeeded
StopIsEarned == ~tracked => asset \/ noInput \/ hf = "rejected"

ResultInv == CallsAreTrue /\ DoneIsEarned /\ BarIsEarned /\ StopIsEarned

-----------------------------------------------------------------------------
(* Properties.                                                             *)

(* Of all calls only a list can close a card on a success that has no      *)
(* result yet; anchors, reports and refusals never do, and a done card     *)
(* keeps its result (apply_reconcile and _reconcile_request do not close a *)
(* card on an empty success; _upsert_synced does not look).                *)
OnlyListsCloseEmpty ==
  [][card' = "done" /\ ~asset' =>
       /\ ~asset
       /\ \/ card = "done"
          \/ \E i \in Handlers : /\ call[i].op = "ingest" /\ call[i].saw = "completed"
                                 /\ Answered(i)]_vars

(* A card shown as done that has no result yet is not given up: the agent  *)
(* that submitted the job still tracks it, unless it refused the job for   *)
(* its missing references (asset_saved in the answer of _reconcile_request *)
(* is what _finalize_tracked_job waits for).                               *)
EmptyStaysTracked == card = "done" /\ ~asset /\ ~noInput => tracked

(* A card that was refused because its references are missing is never     *)
(* completed afterwards: the result stays apart (NO_REVIVE_ERROR in        *)
(* apply_reconcile and _upsert_synced).                                    *)
RefusedStaysFailed == refused => card # "done"

(* Nothing sent before a refusal can still reach the card: the anchor is   *)
(* acknowledged, no anchor and no ordinary report is on its way.           *)
NothingLate ==
  ~outbox /\ \A i \in Handlers : call[i].op \notin {"anchor", "report"}

(* What the mark of a refusal does promise: once nothing older is on its   *)
(* way, the refused card stays failed and marked for good.  No list brings *)
(* it back, no pass reports on it again, and its agent can only repeat the *)
(* refusal (apply_reconcile, _upsert_synced, list_reconcile_candidates,    *)
(* _finalize_tracked_job).                                                 *)
RefusalIsFinal ==
  [][barred /\ NothingLate => (barred /\ card = "failed" /\ NothingLate)']_vars

(* A card that holds its job is the only row of that job, unless it was    *)
(* refused: anchoring removes the row a list push may have put first, and  *)
(* a later push finds the card (apply_local_anchor, _upsert_synced).       *)
OneRowPerJob == anchored /\ copy # "none" => refused

(* The card ends on the provider's verdict and stays there, however late,  *)
(* lost or out of order the calls and pushes were; a completed card's      *)
(* request is closed with it (tracking_pass, list_reconcile_candidates).   *)
(* The card has its result then unless a list closed it empty              *)
(* (OnlyListsCloseEmpty): no report fills a done card.                     *)
VerdictArrives ==
  <>[](/\ hf = "result" /\ ~noInput => card = "done" /\ req = "done"
       /\ hf = "rejected" => card = "failed")
=============================================================================
