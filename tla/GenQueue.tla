------------------------------ MODULE GenQueue ------------------------------
(***************************************************************************)
(* The server's ledger of generation requests: the gen_request rows and    *)
(* the provider job attached to each row's generation.  Every operator     *)
(* below is one BEGIN IMMEDIATE transaction of                             *)
(* src/backend/app/repo/gen_requests.py or generations.py; who calls it,   *)
(* and when, is the business of the modules that extend this one.          *)
(*                                                                         *)
(* Phases the code treats alike are one status here: "tracking" stands for *)
(* running (legacy), tracking, verifying and blocked.  The lease clock is  *)
(* abstracted to fresh[r]; the two-minute freshness of a "no match" probe  *)
(* to the probe falling back to "none".                                    *)
(***************************************************************************)
EXTENDS Naturals, FiniteSets

CONSTANTS
  Requests,   \* gen_request ids of one account
  Agents,     \* lease owners: agent processes, "<device id>:<pid>"
  Jobs,       \* provider job ids
  NoAgent,    \* lease_owner IS NULL
  NoJob       \* job_id IS NULL

ASSUME SentinelAssumption == NoAgent \notin Agents /\ NoJob \notin Jobs

VARIABLES
  status,     \* gen_request.status
  owner,      \* gen_request.lease_owner
  fresh,      \* lease_expires_at lies in the future
  ledger,     \* submission_fingerprint IS NOT NULL
  probe,      \* recovery_probe_status, "no_match" only while it is fresh
  candidate,  \* recovery_probe_job_id
  job         \* generation.job_id

rows == <<status, owner, fresh, ledger, probe, candidate, job>>

Statuses == {"pending", "claimed", "submitting", "tracking",
             "recovery_required", "done", "failed"}
Probes == {"none", "no_match", "unique", "multiple"}
Terminal == {"done", "failed"}

(* Swept when the lease runs out and no job is attached:                   *)
(* "claimed" plus _AMBIGUOUS_ACTIVE_PHASES.                                *)
Leased == {"claimed", "submitting", "tracking"}

RowsTypeOK ==
  /\ status \in [Requests -> Statuses]
  /\ owner \in [Requests -> Agents \cup {NoAgent}]
  /\ fresh \in [Requests -> BOOLEAN]
  /\ ledger \in [Requests -> BOOLEAN]
  /\ probe \in [Requests -> Probes]
  /\ candidate \in [Requests -> Jobs \cup {NoJob}]
  /\ job \in [Requests -> Jobs \cup {NoJob}]

RowsInit ==
  /\ status = [r \in Requests |-> "pending"]
  /\ owner = [r \in Requests |-> NoAgent]
  /\ fresh = [r \in Requests |-> FALSE]
  /\ ledger = [r \in Requests |-> FALSE]
  /\ probe = [r \in Requests |-> "none"]
  /\ candidate = [r \in Requests |-> NoJob]
  /\ job = [r \in Requests |-> NoJob]

-----------------------------------------------------------------------------
(* What the passing of time does to a row.                                 *)

(* The lease of a row runs out.  Only a row without a job is ever swept,   *)
(* so the lease of the others is not followed.                             *)
LeaseExpires(r) ==
  /\ status[r] \in Leased
  /\ job[r] = NoJob
  /\ fresh[r]
  /\ fresh' = [fresh EXCEPT ![r] = FALSE]
  /\ UNCHANGED <<status, owner, ledger, probe, candidate, job>>

(* Two minutes pass since recovery_probe_at: "no match" counts no more.    *)
ProbeAges(r) ==
  /\ probe[r] = "no_match"
  /\ probe' = [probe EXCEPT ![r] = "none"]
  /\ UNCHANGED <<status, owner, fresh, ledger, candidate, job>>

-----------------------------------------------------------------------------
(* The transactions.                                                       *)

Swept(r) == status[r] \in Leased /\ ~fresh[r] /\ job[r] = NoJob

(* Mutants: a lost submission is requeued like a lost claim; or it is not  *)
(* swept at all.                                                           *)
Sweep_RequeuesAll ==
  /\ \E r \in Requests : Swept(r)
  /\ status' = [r \in Requests |-> IF Swept(r) THEN "pending" ELSE status[r]]
  /\ owner' = [r \in Requests |-> IF Swept(r) THEN NoAgent ELSE owner[r]]
  /\ UNCHANGED <<fresh, ledger, probe, candidate, job>>

Sweep_ClaimedOnly ==
  LET Lost(r) == Swept(r) /\ status[r] = "claimed"
  IN /\ \E r \in Requests : Lost(r)
     /\ status' = [r \in Requests |-> IF Lost(r) THEN "pending" ELSE status[r]]
     /\ owner' = [r \in Requests |-> IF Lost(r) THEN NoAgent ELSE owner[r]]
     /\ UNCHANGED <<fresh, ledger, probe, candidate, job>>

(* sweep_expired_generation_claims: one transaction over all expired rows. *)
Sweep ==
  /\ \E r \in Requests : Swept(r)
  /\ status' = [r \in Requests |->
       IF ~Swept(r) THEN status[r]
       ELSE IF status[r] = "claimed" THEN "pending" ELSE "recovery_required"]
  /\ owner' = [r \in Requests |-> IF Swept(r) THEN NoAgent ELSE owner[r]]
  /\ UNCHANGED <<fresh, ledger, probe, candidate, job>>

(* claim_pending_requests, for one of the rows it returns.                 *)
ClaimRow(r, a) ==
  /\ status[r] = "pending"
  /\ status' = [status EXCEPT ![r] = "claimed"]
  /\ owner' = [owner EXCEPT ![r] = a]
  /\ fresh' = [fresh EXCEPT ![r] = TRUE]
  /\ UNCHANGED <<ledger, probe, candidate, job>>

(* begin_request_submission: its guard, then its update.  A second call of *)
(* the same owner is accepted and changes nothing.                         *)
MayBegin(r, a) ==
  /\ status[r] \in {"claimed", "submitting"}
  /\ owner[r] = a
  /\ fresh[r]
  /\ job[r] = NoJob

BeginRow(r, a) ==
  /\ MayBegin(r, a)
  /\ IF status[r] = "claimed"
       THEN /\ status' = [status EXCEPT ![r] = "submitting"]
            /\ ledger' = [ledger EXCEPT ![r] = TRUE]
            /\ probe' = [probe EXCEPT ![r] = "none"]
            /\ candidate' = [candidate EXCEPT ![r] = NoJob]
       ELSE UNCHANGED <<status, ledger, probe, candidate>>
  /\ UNCHANGED <<owner, fresh, job>>

(* release_claimed_request: the owner hands back a claim it did not use.   *)
MayRelease(r, a) ==
  status[r] \in {"claimed", "submitting"} /\ owner[r] = a /\ job[r] = NoJob

ReleaseRow(r, a) ==
  /\ MayRelease(r, a)
  /\ status' = [status EXCEPT ![r] = "pending"]
  /\ owner' = [owner EXCEPT ![r] = NoAgent]
  /\ fresh' = [fresh EXCEPT ![r] = FALSE]
  /\ UNCHANGED <<ledger, probe, candidate, job>>

(* Mutant: any live row is quarantined.                                    *)
MayQuarantine_Live(r) == status[r] \notin Terminal

(* mark_request_recovery_required: no owner is asked for; a row already    *)
(* quarantined is left exactly as it is, its probe included.               *)
MayQuarantine(r) ==
  status[r] \in {"submitting", "recovery_required"} /\ job[r] = NoJob

(* Mutant: a repeated report resets the probe.                             *)
QuarantineRow_Resets(r) ==
  /\ MayQuarantine(r)
  /\ status' = [status EXCEPT ![r] = "recovery_required"]
  /\ owner' = [owner EXCEPT ![r] = NoAgent]
  /\ fresh' = [fresh EXCEPT ![r] = FALSE]
  /\ probe' = [probe EXCEPT ![r] = "none"]
  /\ candidate' = [candidate EXCEPT ![r] = NoJob]
  /\ UNCHANGED <<ledger, job>>

QuarantineRow(r) ==
  /\ MayQuarantine(r)
  /\ IF status[r] # "recovery_required"
       THEN /\ status' = [status EXCEPT ![r] = "recovery_required"]
            /\ owner' = [owner EXCEPT ![r] = NoAgent]
            /\ fresh' = [fresh EXCEPT ![r] = FALSE]
            /\ probe' = [probe EXCEPT ![r] = "none"]
            /\ candidate' = [candidate EXCEPT ![r] = NoJob]
       ELSE UNCHANGED <<status, owner, fresh, probe, candidate>>
  /\ UNCHANGED <<ledger, job>>

(* list_recovery_probe_requests: the rows an agent is asked to look for.   *)
MayProbe(r) ==
  /\ status[r] = "recovery_required"
  /\ ledger[r]
  /\ probe[r] # "multiple"
  /\ job[r] = NoJob

(* record_recovery_probe_result: a candidate once found is never replaced. *)
RecordProbe(r, outcome, j) ==
  /\ status[r] = "recovery_required"
  /\ job[r] = NoJob
  /\ IF probe[r] \in {"unique", "multiple"}
       THEN UNCHANGED <<probe, candidate>>
       ELSE /\ probe' = [probe EXCEPT ![r] = outcome]
            /\ candidate' = [candidate EXCEPT ![r] =
                               IF outcome = "unique" THEN j ELSE NoJob]
  /\ UNCHANGED <<status, owner, fresh, ledger, job>>

(* prepare_recovery_requeue: a person states that nothing was submitted.   *)
MayConfirm(r) ==
  /\ status[r] = "recovery_required"
  /\ job[r] = NoJob
  /\ probe[r] \notin {"unique", "multiple"}
  /\ ledger[r] => probe[r] = "no_match"

ConfirmRow(r) ==
  /\ MayConfirm(r)
  /\ status' = [status EXCEPT ![r] = "pending"]
  /\ owner' = [owner EXCEPT ![r] = NoAgent]
  /\ fresh' = [fresh EXCEPT ![r] = FALSE]
  /\ ledger' = [ledger EXCEPT ![r] = FALSE]
  /\ probe' = [probe EXCEPT ![r] = "none"]
  /\ candidate' = [candidate EXCEPT ![r] = NoJob]
  /\ UNCHANGED job

(* apply_local_anchor: attach a known job.  It refuses a finished request  *)
(* and a failed one that holds another job; it overwrites otherwise.       *)
(* Mutant: a quarantined request takes no anchor.                          *)
MayAnchor_NotQuarantined(r, j) ==
  /\ status[r] \notin {"done", "recovery_required"}
  /\ status[r] = "failed" => job[r] \in {NoJob, j}

MayAnchor(r, j) ==
  /\ status[r] # "done"
  /\ status[r] = "failed" => job[r] \in {NoJob, j}

AnchorRow(r, j) ==
  /\ MayAnchor(r, j)
  /\ status' = [status EXCEPT ![r] = "tracking"]
  /\ fresh' = [fresh EXCEPT ![r] = TRUE]
  /\ job' = [job EXCEPT ![r] = j]
  /\ UNCHANGED <<owner, ledger, probe, candidate>>

(* The "still processing" report of job j: _reconcile_request refuses it   *)
(* when another job is attached, record_request_check when the request is  *)
(* finished.  The row need not hold a job.                                 *)
MayCheck(r, j) ==
  status[r] \notin Terminal /\ job[r] \in {NoJob, j}

CheckRow(r, j) ==
  /\ MayCheck(r, j)
  /\ status' = [status EXCEPT ![r] = "tracking"]
  /\ fresh' = [fresh EXCEPT ![r] = TRUE]
  /\ UNCHANGED <<owner, ledger, probe, candidate, job>>

(* apply_local_failure without a job: any request that is not finished.    *)
MayFail(r) == status[r] \notin Terminal

FailRow(r) ==
  /\ MayFail(r)
  /\ status' = [status EXCEPT ![r] = "failed"]
  /\ owner' = [owner EXCEPT ![r] = NoAgent]
  /\ fresh' = [fresh EXCEPT ![r] = FALSE]
  /\ UNCHANGED <<ledger, probe, candidate, job>>

(* apply_reconcile with the provider's verdict on the attached job.  It    *)
(* may revive a failed request, never touch a completed one.               *)
SettleRow(r, verdict) ==
  /\ job[r] # NoJob
  /\ status[r] \notin {"done", verdict}
  /\ status' = [status EXCEPT ![r] = verdict]
  /\ owner' = [owner EXCEPT ![r] = NoAgent]
  /\ fresh' = [fresh EXCEPT ![r] = FALSE]
  /\ UNCHANGED <<ledger, probe, candidate, job>>
=============================================================================
