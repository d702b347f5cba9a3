--------------------------- MODULE GenSubmission ---------------------------
(***************************************************************************)
(* Two-stage submission of a paid generation: the agents of one account    *)
(* (src/agent_push.py) and the ledger they share (GenQueue), joined by     *)
(* HTTP calls that may be lost, delayed past the caller's timeout and      *)
(* reordered.  Calling the provider's "generate create" costs money; the   *)
(* protocol exists so that a request is never paid for twice.              *)
(*                                                                         *)
(* A slot is one worker of an agent's submit pool with the server handlers *)
(* of its HTTP calls.  A slot is given a new request only when the calls   *)
(* of its last one have all ended; more slots stand for longer delays.     *)
(*                                                                         *)
(* Timing.  The lease is 30 minutes and the bound on create is 30 minutes; *)
(* calls time out within a minute.  When AttemptsArePrompt, an attempt     *)
(* that has not reached create (its release or fail call included) ends    *)
(* before its lease does and before a person can confirm that nothing was  *)
(* submitted.  Nothing in the code enforces this.                          *)
(***************************************************************************)
EXTENDS GenQueue

CONSTANTS
  Devices,            \* PCs that run an agent for this account
  Slots,              \* submit workers, over all agents
  NoSlot,             \* the workspace lock is free
  NoRequest,          \* a slot without a request
  DeviceOf,           \* the PC an agent process runs on
  AgentOf,            \* the agent process a slot belongs to
  Alike,              \* requests whose submission fingerprints coincide
  MaxTries,           \* calls of one idempotent report (3 in the code)
  MaxConfirms,        \* bound: confirmations per request
  AttemptsArePrompt   \* the timing assumption above

ASSUME ConstantsAssumption ==
  /\ DeviceOf \in [Agents -> Devices]
  /\ AgentOf \in [Slots -> Agents]
  /\ Alike \in [Requests -> SUBSET Requests]
  /\ \A r \in Requests : r \in Alike[r]
  /\ MaxTries \in Nat \ {0}
  /\ MaxConfirms \in Nat
  /\ AttemptsArePrompt \in BOOLEAN
  /\ NoSlot \notin Slots
  /\ NoRequest \notin Requests

VARIABLES
  running,    \* agent processes: "new", "up" or "dead"
  pc,         \* where a slot's worker is in _submit_one_attempt
  req,        \* the request it works on
  tries,      \* the call of an idempotent report it waits for
  made,       \* the job its create has produced at the provider so far
  lock,       \* workspace_lock of each agent
  calls,      \* server handlers in flight
  owed,       \* jobs in an agent's memory whose anchor is not acknowledged
  outbox,     \* anchor_outbox on a PC's disk, one row per request
  look,       \* the probe result an agent is about to report
  paidFor,    \* what each provider job was created for, and when
  creates,    \* create calls for r since its last confirmation
  confirms    \* times a person confirmed that nothing was submitted

workerVars == <<pc, req, tries, made, lock>>
agentVars == <<running, owed, outbox, look>>
payVars == <<paidFor, creates, confirms>>
vars == <<rows, workerVars, agentVars, calls, payVars>>

PCs == {"idle", "prep", "begin", "release", "create", "report"}
Ops == {"begin", "release", "recover", "fail"}

(* A handler is at "sent" until its transaction runs; an accepted begin    *)
(* then waits at "reply" until its answer reaches the agent.               *)
CallType == [op : Ops, slot : Slots, req : Requests, n : 1..MaxTries,
             at : {"sent", "reply"}]
NoLook == [req |-> NoRequest, outcome |-> "none", job |-> NoJob]
LookType == [req : Requests \cup {NoRequest}, outcome : Probes,
             job : Jobs \cup {NoJob}]
NotPaid == <<NoRequest, 0>>

SlotsTypeOK ==
  /\ pc \in [Slots -> PCs]
  /\ req \in [Slots -> Requests \cup {NoRequest}]
  /\ \A s \in Slots : pc[s] # "idle" => req[s] \in Requests
  /\ tries \in [Slots -> 1..MaxTries]
  /\ made \in [Slots -> Jobs \cup {NoJob}]
  /\ lock \in [Agents -> Slots \cup {NoSlot}]

AgentsTypeOK ==
  /\ running \in [Agents -> {"new", "up", "dead"}]
  /\ owed \in [Agents -> SUBSET (Requests \X Jobs)]
  /\ outbox \in [Devices -> [Requests -> Jobs \cup {NoJob}]]
  /\ look \in [Agents -> LookType]

PayTypeOK ==
  /\ paidFor \in [Jobs -> (Requests \cup {NoRequest}) \X Nat]
  /\ creates \in [Requests -> Nat]
  /\ confirms \in [Requests -> Nat]

TypeOK ==
  /\ RowsTypeOK
  /\ SlotsTypeOK
  /\ calls \subseteq CallType
  /\ AgentsTypeOK
  /\ PayTypeOK

Init ==
  /\ RowsInit
  /\ running = [a \in Agents |-> "new"]
  /\ pc = [s \in Slots |-> "idle"]
  /\ req = [s \in Slots |-> NoRequest]
  /\ tries = [s \in Slots |-> 1]
  /\ made = [s \in Slots |-> NoJob]
  /\ lock = [a \in Agents |-> NoSlot]
  /\ calls = {}
  /\ owed = [a \in Agents |-> {}]
  /\ outbox = [d \in Devices |-> [r \in Requests |-> NoJob]]
  /\ look = [a \in Agents |-> NoLook]
  /\ paidFor = [j \in Jobs |-> NotPaid]
  /\ creates = [r \in Requests |-> 0]
  /\ confirms = [r \in Requests |-> 0]

-----------------------------------------------------------------------------
Call(op, s, n) == [op |-> op, slot |-> s, req |-> req[s], n |-> n, at |-> "sent"]

(* A worker that may still call create, and a claim on its way back.       *)
Attempting(s, r) == pc[s] \in {"prep", "begin"} /\ req[s] = r
Withdrawing(c, r) == c.op \in {"release", "fail"} /\ c.req = r
InSubmission(r) == \/ \E s \in Slots : Attempting(s, r)
                   \/ \E c \in calls : Withdrawing(c, r)

(* Is the agent still waiting for the answer of this call?                 *)
Awaited(c) == pc[c.slot] = c.op /\ tries[c.slot] = c.n

Free(s) == pc[s] = "idle" /\ \A c \in calls : c.slot # s

(* The slot's worker returns: it drops the workspace lock if it holds it.  *)
Unlock(s) == lock' = [lock EXCEPT ![AgentOf[s]] = IF @ = s THEN NoSlot ELSE @]
Idle(s) == /\ pc' = [pc EXCEPT ![s] = "idle"]
           /\ req' = [req EXCEPT ![s] = NoRequest]
           /\ tries' = [tries EXCEPT ![s] = 1]
           /\ made' = [made EXCEPT ![s] = NoJob]
           /\ Unlock(s)

(* The slot makes the first call of a new stage.                           *)
Enter(s, stage, op) ==
  /\ pc' = [pc EXCEPT ![s] = stage]
  /\ tries' = [tries EXCEPT ![s] = 1]
  /\ calls' = calls \cup {Call(op, s, 1)}
  /\ UNCHANGED req

-----------------------------------------------------------------------------
(* Time.                                                                   *)
LeaseEnds(r) ==
  /\ AttemptsArePrompt => ~InSubmission(r)
  /\ LeaseExpires(r)
  /\ UNCHANGED <<workerVars, agentVars, calls, payVars>>

ProbeEnds(r) ==
  /\ ProbeAges(r)
  /\ UNCHANGED <<workerVars, agentVars, calls, payVars>>

-----------------------------------------------------------------------------
(* Agent processes.  One runs per PC and account (a named mutex); its disk *)
(* outlives it.  The last instance listed for a PC does not crash: their   *)
(* number bounds the crashes that are followed.                            *)
Start(a) ==
  /\ running[a] = "new"
  /\ \A b \in Agents : DeviceOf[b] = DeviceOf[a] => running[b] # "up"
  /\ running' = [running EXCEPT ![a] = "up"]
  /\ UNCHANGED <<rows, workerVars, owed, outbox, look, calls, payVars>>

Crash(a) ==
  /\ running[a] = "up"
  /\ \E b \in Agents : DeviceOf[b] = DeviceOf[a] /\ running[b] = "new"
  /\ running' = [running EXCEPT ![a] = "dead"]
  /\ pc' = [s \in Slots |-> IF AgentOf[s] = a THEN "idle" ELSE pc[s]]
  /\ req' = [s \in Slots |-> IF AgentOf[s] = a THEN NoRequest ELSE req[s]]
  /\ tries' = [s \in Slots |-> IF AgentOf[s] = a THEN 1 ELSE tries[s]]
  /\ made' = [s \in Slots |-> IF AgentOf[s] = a THEN NoJob ELSE made[s]]
  /\ lock' = [lock EXCEPT ![a] = NoSlot]
  /\ owed' = [owed EXCEPT ![a] = {}]
  /\ look' = [look EXCEPT ![a] = NoLook]
  /\ UNCHANGED <<rows, outbox, calls, payVars>>

-----------------------------------------------------------------------------
(* Claiming.  A poll sweeps and then claims, in two transactions; it does  *)
(* not ask whether a worker of this process already has the request.       *)
SweepOnPoll(a) ==
  /\ running[a] = "up"
  /\ Sweep
  /\ UNCHANGED <<workerVars, agentVars, calls, payVars>>

Claim(s, r) ==
  /\ running[AgentOf[s]] = "up"
  /\ Free(s)
  /\ ClaimRow(r, AgentOf[s])
  /\ pc' = [pc EXCEPT ![s] = "prep"]
  /\ req' = [req EXCEPT ![s] = r]
  /\ UNCHANGED <<tries, made, lock, agentVars, calls, payVars>>

(* The claim commits but its answer never reaches the agent.               *)
ClaimLost(a, r) ==
  /\ running[a] = "up"
  /\ ClaimRow(r, a)
  /\ UNCHANGED <<workerVars, agentVars, calls, payVars>>

-----------------------------------------------------------------------------
(* Before create.                                                          *)

(* A reference, option or workspace check fails: one _fail call.           *)
PrepareFails(s) ==
  /\ pc[s] = "prep"
  /\ calls' = calls \cup {Call("fail", s, 1)}
  /\ Idle(s)
  /\ UNCHANGED <<rows, agentVars, payVars>>

(* The worker raises: execute_pending reports "recovery required".         *)
PrepareRaises(s) ==
  /\ pc[s] = "prep"
  /\ Enter(s, "report", "recover")
  /\ UNCHANGED <<rows, made, lock, agentVars, payVars>>

(* The workspace is selected under the lock and permission is asked for.   *)
AskToBegin(s) ==
  /\ pc[s] = "prep"
  /\ lock[AgentOf[s]] = NoSlot
  /\ lock' = [lock EXCEPT ![AgentOf[s]] = s]
  /\ Enter(s, "begin", "begin")
  /\ UNCHANGED <<rows, made, agentVars, payVars>>

(* The begin handler: accepted, its answer is on its way; refused with a   *)
(* 409, an agent that still waits hands the claim back.                    *)
BeginAccepted(c) ==
  /\ c.op = "begin" /\ c.at = "sent"
  /\ BeginRow(c.req, AgentOf[c.slot])
  /\ calls' = (calls \ {c}) \cup {[c EXCEPT !.at = "reply"]}
  /\ UNCHANGED <<workerVars, agentVars, payVars>>

BeginRefused(c) ==
  /\ c.op = "begin" /\ c.at = "sent"
  /\ ~MayBegin(c.req, AgentOf[c.slot])
  /\ IF Awaited(c)
       THEN /\ pc' = [pc EXCEPT ![c.slot] = "release"]
            /\ tries' = [tries EXCEPT ![c.slot] = 1]
            /\ calls' = (calls \ {c}) \cup {Call("release", c.slot, 1)}
       ELSE calls' = calls \ {c} /\ UNCHANGED <<pc, tries>>
  /\ UNCHANGED <<rows, req, made, lock, agentVars, payVars>>

(* Mutant: an answer that comes after the agent gave up still starts one.  *)
CreateCalled_Late(c) ==
  /\ c.op = "begin" /\ c.at = "reply"
  /\ calls' = calls \ {c}
  /\ pc' = [pc EXCEPT ![c.slot] = "create"]
  /\ req' = [req EXCEPT ![c.slot] = c.req]
  /\ creates' = [creates EXCEPT ![c.req] = @ + 1]
  /\ UNCHANGED <<rows, tries, made, lock, agentVars, paidFor, confirms>>

(* The answer arrives in time: the agent calls create.                     *)
CreateCalled(c) ==
  /\ c.op = "begin" /\ c.at = "reply"
  /\ Awaited(c)
  /\ calls' = calls \ {c}
  /\ pc' = [pc EXCEPT ![c.slot] = "create"]
  /\ creates' = [creates EXCEPT ![c.req] = @ + 1]
  /\ UNCHANGED <<rows, req, tries, made, lock, agentVars, paidFor, confirms>>

(* 15 seconds without an answer: ask again, or give up and release.        *)
BeginTimesOut(s) ==
  /\ pc[s] = "begin"
  /\ IF tries[s] < MaxTries
       THEN /\ tries' = [tries EXCEPT ![s] = @ + 1]
            /\ calls' = calls \cup {Call("begin", s, tries[s] + 1)}
            /\ UNCHANGED <<pc, req>>
       ELSE Enter(s, "release", "release")
  /\ UNCHANGED <<rows, made, lock, agentVars, payVars>>

(* The release handler; the lock is held until the agent has its answer or *)
(* stops waiting for it.                                                   *)
ReleaseHandled(c) ==
  /\ c.op = "release"
  /\ IF MayRelease(c.req, AgentOf[c.slot])
       THEN ReleaseRow(c.req, AgentOf[c.slot])
       ELSE UNCHANGED rows
  /\ calls' = calls \ {c}
  /\ IF Awaited(c) THEN Idle(c.slot) ELSE UNCHANGED workerVars
  /\ UNCHANGED <<agentVars, payVars>>

ReleaseTimesOut(s) ==
  /\ pc[s] = "release"
  /\ Idle(s)
  /\ UNCHANGED <<rows, calls, agentVars, payVars>>

-----------------------------------------------------------------------------
(* create and after.                                                       *)

(* The provider creates the job: the request is paid for.                  *)
ProviderAccepts(s, j) ==
  /\ pc[s] = "create"
  /\ made[s] = NoJob
  /\ paidFor[j] = NotPaid
  /\ paidFor' = [paidFor EXCEPT ![j] = <<req[s], confirms[req[s]]>>]
  /\ made' = [made EXCEPT ![s] = j]
  /\ UNCHANGED <<rows, pc, req, tries, lock, agentVars, calls, creates, confirms>>

(* create returns the job id: it is owed to the server until acknowledged, *)
(* in memory and, unless the write fails, in the outbox.                   *)
CreateReturns(s) ==
  /\ pc[s] = "create"
  /\ made[s] # NoJob
  /\ LET a == AgentOf[s]
     IN /\ owed' = [owed EXCEPT ![a] = @ \cup {<<req[s], made[s]>>}]
        /\ \/ outbox' = [outbox EXCEPT ![DeviceOf[a]][req[s]] = made[s]]
           \/ UNCHANGED outbox
  /\ Idle(s)
  /\ UNCHANGED <<rows, running, look, calls, payVars>>

(* Mutant: an unclear create is reported as a failure.                     *)
CreateUnclear_AsFailure(s) ==
  /\ pc[s] = "create"
  /\ calls' = calls \cup {Call("fail", s, 1)}
  /\ Idle(s)
  /\ UNCHANGED <<rows, agentVars, payVars>>

(* create times out or its output holds no job id, paid or not.            *)
CreateUnclear(s) ==
  /\ pc[s] = "create"
  /\ Enter(s, "report", "recover")
  /\ Unlock(s)
  /\ made' = [made EXCEPT ![s] = NoJob]
  /\ UNCHANGED <<rows, agentVars, payVars>>

RecoverHandled(c) ==
  /\ c.op = "recover"
  /\ IF MayQuarantine(c.req) THEN QuarantineRow(c.req) ELSE UNCHANGED rows
  /\ calls' = calls \ {c}
  /\ IF pc[c.slot] = "report" /\ tries[c.slot] = c.n
       THEN Idle(c.slot) ELSE UNCHANGED workerVars
  /\ UNCHANGED <<agentVars, payVars>>

ReportTimesOut(s) ==
  /\ pc[s] = "report"
  /\ IF tries[s] < MaxTries
       THEN /\ tries' = [tries EXCEPT ![s] = @ + 1]
            /\ calls' = calls \cup {Call("recover", s, tries[s] + 1)}
            /\ UNCHANGED <<pc, req, made, lock>>
       ELSE Idle(s) /\ UNCHANGED calls
  /\ UNCHANGED <<rows, agentVars, payVars>>

FailHandled(c) ==
  /\ c.op = "fail"
  /\ IF MayFail(c.req) THEN FailRow(c.req) ELSE UNCHANGED rows
  /\ calls' = calls \ {c}
  /\ UNCHANGED <<workerVars, agentVars, payVars>>

(* A call, or its answer, is lost.                                         *)
LoseCall(c) ==
  /\ calls' = calls \ {c}
  /\ UNCHANGED <<rows, workerVars, agentVars, payVars>>

-----------------------------------------------------------------------------
(* Attaching a job that was paid for.                                      *)

(* An anchor is settled when it was applied or the request is finished; a  *)
(* live request that refuses it answers 409 and is asked again.            *)
Anchor(r, j) == IF MayAnchor(r, j) THEN AnchorRow(r, j) ELSE UNCHANGED rows
Settled(r, j) == MayAnchor(r, j) \/ status[r] \in Terminal

(* _anchor_tracked_safe: the agent posts an anchor it owes.  Once settled, *)
(* the outbox row of the request goes, whichever job it names.             *)
AnchorOwed(a, r, j, answered) ==
  /\ running[a] = "up"
  /\ <<r, j>> \in owed[a]
  /\ Anchor(r, j)
  /\ IF answered /\ Settled(r, j)
       THEN /\ owed' = [owed EXCEPT ![a] = @ \ {<<r, j>>}]
            /\ outbox' = [outbox EXCEPT ![DeviceOf[a]][r] = NoJob]
       ELSE UNCHANGED <<owed, outbox>>
  /\ UNCHANGED <<workerVars, running, look, calls, payVars>>

(* replay_outbox: the next pass, or the next process on this PC, resends.  *)
ReplayOutbox(a, r, answered) ==
  LET d == DeviceOf[a]
      j == outbox[d][r]
  IN /\ running[a] = "up"
     /\ j # NoJob
     /\ Anchor(r, j)
     /\ outbox' = IF answered /\ Settled(r, j)
                    THEN [outbox EXCEPT ![d][r] = NoJob] ELSE outbox
     /\ UNCHANGED <<workerVars, running, owed, look, calls, payVars>>

(* _poll_active_jobs: a job is polled even when its anchor failed.         *)
ReportProcessing(a, r, j) ==
  /\ running[a] = "up"
  /\ <<r, j>> \in owed[a]
  /\ CheckRow(r, j)
  /\ UNCHANGED <<workerVars, agentVars, calls, payVars>>

(* The final state of the attached job is reconciled.                      *)
Settle(a, r, verdict) ==
  /\ running[a] = "up"
  /\ SettleRow(r, verdict)
  /\ UNCHANGED <<workerVars, agentVars, calls, payVars>>

-----------------------------------------------------------------------------
(* Recovery: look for the job, attach the only candidate, ask a person.    *)

(* The jobs in the provider's list that match the request's fingerprint:   *)
(* same model, prompt and options, created since this submission began.    *)
(* A job of a request with the same fingerprint matches as well.           *)
Matching(r) ==
  {j \in Jobs : /\ paidFor[j][1] \in Alike[r]
                /\ paidFor[j][1] = r => paidFor[j][2] = confirms[r]}

LookForJob(a, r) ==
  /\ running[a] = "up"
  /\ look[a] = NoLook
  /\ MayProbe(r)
  /\ probe[r] # "unique"
  /\ \/ /\ Matching(r) = {}
        /\ look' = [look EXCEPT ![a] = [req |-> r, outcome |-> "no_match", job |-> NoJob]]
     \/ \E j \in Jobs :
          /\ Matching(r) = {j}
          /\ look' = [look EXCEPT ![a] = [req |-> r, outcome |-> "unique", job |-> j]]
     \/ /\ Cardinality(Matching(r)) > 1
        /\ look' = [look EXCEPT ![a] = [req |-> r, outcome |-> "multiple", job |-> NoJob]]
  /\ UNCHANGED <<rows, workerVars, running, owed, outbox, calls, payVars>>

ReportLook(a) ==
  /\ look[a] # NoLook
  /\ LET k == look[a]
     IN \/ RecordProbe(k.req, k.outcome, k.job)
        \/ UNCHANGED rows          \* refused, or the report is lost
  /\ look' = [look EXCEPT ![a] = NoLook]
  /\ UNCHANGED <<workerVars, running, owed, outbox, calls, payVars>>

AnchorCandidate(a, r) ==
  /\ running[a] = "up"
  /\ MayProbe(r)
  /\ probe[r] = "unique"
  /\ AnchorRow(r, candidate[r])
  /\ UNCHANGED <<workerVars, agentVars, calls, payVars>>

Confirm(r) ==
  /\ confirms[r] < MaxConfirms
  /\ AttemptsArePrompt => ~InSubmission(r)
  /\ ConfirmRow(r)
  /\ confirms' = [confirms EXCEPT ![r] = @ + 1]
  /\ creates' = [creates EXCEPT ![r] = 0]
  /\ UNCHANGED <<workerVars, agentVars, calls, paidFor>>

-----------------------------------------------------------------------------
Time == \E r \in Requests : LeaseEnds(r) \/ ProbeEnds(r)

Work(s) ==
  \/ \E r \in Requests : Claim(s, r)
  \/ PrepareFails(s)
  \/ PrepareRaises(s)
  \/ AskToBegin(s)
  \/ BeginTimesOut(s)
  \/ ReleaseTimesOut(s)
  \/ \E j \in Jobs : ProviderAccepts(s, j)
  \/ CreateReturns(s)
  \/ CreateUnclear(s)
  \/ ReportTimesOut(s)

Handle(c) ==
  \/ BeginAccepted(c)
  \/ BeginRefused(c)
  \/ CreateCalled(c)
  \/ ReleaseHandled(c)
  \/ RecoverHandled(c)
  \/ FailHandled(c)
  \/ LoseCall(c)

Manage(a) ==
  \/ Start(a)
  \/ Crash(a)
  \/ SweepOnPoll(a)
  \/ ReportLook(a)
  \/ \E r \in Requests :
       \/ ClaimLost(a, r)
       \/ LookForJob(a, r)
       \/ AnchorCandidate(a, r)
       \/ \E answered \in BOOLEAN : ReplayOutbox(a, r, answered)
       \/ \E j \in Jobs : ReportProcessing(a, r, j)
       \/ \E j \in Jobs, answered \in BOOLEAN : AnchorOwed(a, r, j, answered)
       \/ \E verdict \in Terminal : Settle(a, r, verdict)

Next ==
  \/ Time
  \/ \E s \in Slots : Work(s)
  \/ \E c \in calls : Handle(c)
  \/ \E a \in Agents : Manage(a)
  \/ \E r \in Requests : Confirm(r)

Spec == Init /\ [][Next]_vars

(* Fairness.  Every wait of a worker has a timeout; a handler ends or its  *)
(* call is lost; agents are restarted, poll on, and now and then reach the *)
(* server; leases run out.  The workspace lock is handed round: a worker   *)
(* that keeps finding it free gets it.                                     *)
CallOfSlotEnds(s) == \E c \in calls : c.slot = s /\ Handle(c)

Fairness ==
  /\ \A s \in Slots :
       /\ SF_vars(AskToBegin(s))
       /\ WF_vars(BeginTimesOut(s))
       /\ WF_vars(ReleaseTimesOut(s))
       /\ WF_vars(CreateReturns(s) \/ CreateUnclear(s))
       /\ WF_vars(ReportTimesOut(s))
       /\ WF_vars(CallOfSlotEnds(s))
  /\ \A a \in Agents :
       /\ WF_vars(Start(a))
       /\ WF_vars(SweepOnPoll(a))
       /\ \A r \in Requests : WF_vars(ReplayOutbox(a, r, TRUE))
  /\ \A r \in Requests : WF_vars(LeaseEnds(r))

FairSpec == Spec /\ Fairness

-----------------------------------------------------------------------------
(* Why it works: the invariant that the steps preserve.                    *)

(* What a row remembers fits its status: an attached job takes it out of   *)
(* submission for good, a candidate is recorded only in or after recovery, *)
(* and a unique candidate is a job.                                        *)
RowsAreCoherent ==
  /\ \A r \in Requests :
       /\ job[r] # NoJob => status[r] \in {"tracking", "done", "failed"}
       /\ status[r] = "done" => job[r] # NoJob
       /\ status[r] \in {"pending", "claimed", "submitting"} =>
            probe[r] \in {"none", "no_match"}
       /\ probe[r] = "unique" => candidate[r] # NoJob
  /\ \A a \in Agents : look[a].outcome = "unique" => look[a].job # NoJob

(* The calls of a slot are about the request it works on, and it starts    *)
(* preparing only when none is left.                                       *)
CallsFitSlots ==
  \A c \in calls :
    /\ pc[c.slot] # "idle" => c.req = req[c.slot]
    /\ pc[c.slot] # "prep"

(* A claim is held once: by one worker that may still call create or by    *)
(* one call that takes the claim back.  A pending row is held by nobody,   *)
(* nor is a claim whose lease is over (AttemptsArePrompt).                 *)
ClaimIsHeldOnce ==
  \A r \in Requests :
    /\ status[r] = "pending" => ~InSubmission(r)
    /\ status[r] = "claimed" /\ ~fresh[r] => ~InSubmission(r)
    /\ \A s, t \in Slots : Attempting(s, r) /\ Attempting(t, r) => s = t
    /\ \A c, d \in calls : Withdrawing(c, r) /\ Withdrawing(d, r) => c = d
    /\ \A s \in Slots, c \in calls : ~(Attempting(s, r) /\ Withdrawing(c, r))

(* Money is spent last: while create may still be called it has not been,  *)
(* and a worker about to hear "accepted" finds the row past "claimed".     *)
CreateComesLast ==
  /\ \A r \in Requests :
       /\ creates[r] <= 1
       /\ status[r] \in {"pending", "claimed"} \/ InSubmission(r) => creates[r] = 0
       /\ status[r] = "failed" /\ job[r] = NoJob => creates[r] = 0 /\ ~InSubmission(r)
  /\ \A c \in calls :
       c.op = "begin" /\ c.at = "reply" /\ pc[c.slot] = "begin" =>
         status[c.req] \notin {"pending", "claimed"}

SubmissionInv == CallsFitSlots /\ ClaimIsHeldOnce /\ CreateComesLast

-----------------------------------------------------------------------------
(* Properties.                                                             *)

(* Between two confirmations by a person, create is called at most once    *)
(* for a request, whatever is lost, late, restarted or swept               *)
(* (begin_request_submission, sweep_expired_generation_claims).            *)
PaidOncePerConfirmation == \A r \in Requests : creates[r] <= 1

(* The protocol keeps the promise of PaidOnce: every step of it is a       *)
(* payment, a confirmation or, seen from outside, nothing.                 *)
Promise == INSTANCE PaidOnce WITH paid <- creates, confirmed <- confirms
ImplementsPaidOnce == Promise!Spec

(* A request for which create was called and whose job is not attached yet *)
(* is neither handed out again nor closed: it is being submitted, checked, *)
(* or quarantined for recovery (the "no automatic regeneration" rule of    *)
(* docs/GENERATION_SUBMISSION_RECOVERY.md, sweep and fail handlers).       *)
PaidIsNotGivenUp ==
  \A r \in Requests :
    creates[r] > 0 /\ job[r] = NoJob =>
      status[r] \in {"submitting", "tracking", "recovery_required"}

(* A candidate job that a probe recorded is kept until a job is attached:  *)
(* no later report, sweep or confirmation erases it, although the row may  *)
(* leave recovery_required and come back (record_recovery_probe_result).   *)
CandidateIsKept ==
  [][\A r \in Requests :
       probe[r] \in {"unique", "multiple"} /\ job'[r] = NoJob =>
         probe'[r] = probe[r] /\ candidate'[r] = candidate[r]]_vars

(* Once a job is attached, no late call of an earlier attempt, sweep or    *)
(* restart makes the request claimable or confirmable again.               *)
AttachedIsNotReissued ==
  [][\A r \in Requests :
       job[r] # NoJob => job'[r] # NoJob /\ status'[r] \in {"tracking", "done", "failed"}]_vars

(* Two requests never end up with the same provider job ("one card, one    *)
(* job", src/agent_push.py).                                               *)
OneCardPerJob ==
  \A r, q \in Requests : r # q /\ job[r] # NoJob => job[r] # job[q]

(* A job id on disk reaches its request, across crashes and lost answers.  *)
PaidJobIsAttached ==
  \A d \in Devices, r \in Requests : outbox[d][r] # NoJob ~> job[r] # NoJob

(* No claim is held for ever: it is used, handed back, swept or closed.    *)
NoClaimIsStranded ==
  \A r \in Requests :
    status[r] \in {"claimed", "submitting"} ~> status[r] \notin {"claimed", "submitting"}
=============================================================================
