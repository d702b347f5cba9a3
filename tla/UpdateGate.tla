----------------------------- MODULE UpdateGate -----------------------------
(***************************************************************************)
(* Installing a release on a PC stops its backend and its agent.  The      *)
(* update gate keeps that from cutting off a paid create or the storing of *)
(* a result: the updater writes "checking" and then counts what is active, *)
(* everybody else becomes countable and then reads the update state        *)
(* (src/backend/app/services/release_update.py, routers/gen_requests.py).  *)
(*                                                                         *)
(* The requests are those of GenQueue.  One agent works for this backend;  *)
(* its slots, the handlers of its calls and the updater interleave at      *)
(* every await of the code.                                                *)
(***************************************************************************)
EXTENDS GenQueue

CONSTANTS
  Agent,        \* the agent of this PC
  Slots,        \* its submit workers
  NoRequest,    \* a slot without a request
  MaxTries,     \* calls of one begin-submission (3 in the code)
  MaxUpdates,   \* bound: updates that are followed
  CallsArePrompt \* the timing assumption below

(* Timing.  A begin is asked again when its answer is late, and one claim  *)
(* is released twice: by the gate and by the worker it told no.  When      *)
(* CallsArePrompt, a call that was not lost is handled before its caller   *)
(* stops waiting, and every call of an attempt before its request is       *)
(* claimed again.  Nothing in the code enforces this.                      *)

ASSUME GateAssumption ==
  /\ Agent \in Agents
  /\ NoRequest \notin Requests
  /\ MaxTries \in Nat \ {0}
  /\ MaxUpdates \in Nat
  /\ CallsArePrompt \in BOOLEAN

VARIABLES
  file,       \* the update state on disk: "available", "checking", "starting"
  updater,    \* where start_update is
  updates,    \* updates started
  pc,         \* where a slot's worker is
  req,        \* the request it works on
  tries,      \* the begin call it waits for
  calls,      \* server handlers in flight
  writer      \* the handler that stores the result of a request

slotVars == <<pc, req, tries>>
updateVars == <<file, updater, updates>>
vars == <<rows, updateVars, slotVars, calls, writer>>

Ops == {"poll", "begin", "release"}
CallType == [op : Ops, slot : Slots, req : Requests \cup {NoRequest},
             n : 1..MaxTries, at : {"sent", "committed", "blocked", "reply"}]

GateTypeOK ==
  /\ RowsTypeOK
  /\ file \in {"available", "checking", "starting"}
  /\ updater \in {"idle", "asked", "checking", "counted", "clear", "launched"}
  /\ updates \in 0..MaxUpdates
  /\ pc \in [Slots -> {"idle", "prep", "begin", "release", "create"}]
  /\ req \in [Slots -> Requests \cup {NoRequest}]
  /\ tries \in [Slots -> 1..MaxTries]
  /\ calls \subseteq CallType
  /\ writer \in [Requests -> {"none", "counted", "writing"}]

Init ==
  /\ RowsInit
  /\ file = "available"
  /\ updater = "idle"
  /\ updates = 0
  /\ pc = [s \in Slots |-> "idle"]
  /\ req = [s \in Slots |-> NoRequest]
  /\ tries = [s \in Slots |-> 1]
  /\ calls = {}
  /\ writer = [r \in Requests |-> "none"]

-----------------------------------------------------------------------------
(* update_in_progress.                                                     *)
UpdateInProgress == file \in {"checking", "starting"}

(* generation_queue_snapshot: a request blocks an update while it is       *)
(* claimed under a live lease, being submitted, or tracked without a job   *)
(* that the next process could go on tracking.                             *)
Blocking(r) == \/ status[r] = "claimed" /\ fresh[r]
               \/ status[r] = "submitting"
               \/ status[r] = "tracking" /\ job[r] = NoJob

Generating == \E r \in Requests : Blocking(r)
Writing == \E r \in Requests : writer[r] # "none"

Awaited(c) == pc[c.slot] = c.op /\ tries[c.slot] = c.n
Call(op, s, n) == [op |-> op, slot |-> s, req |-> req[s], n |-> n, at |-> "sent"]
Idle(s) == /\ pc' = [pc EXCEPT ![s] = "idle"]
           /\ req' = [req EXCEPT ![s] = NoRequest]
           /\ tries' = [tries EXCEPT ![s] = 1]

-----------------------------------------------------------------------------
(* Claiming: the handler of a poll reads the update state, and claims in a *)
(* transaction of its own after other awaits.                              *)
PollPasses(s) ==
  /\ pc[s] = "idle"
  /\ \A c \in calls : c.slot # s
  /\ ~UpdateInProgress
  /\ calls' = calls \cup {Call("poll", s, 1)}
  /\ UNCHANGED <<rows, updateVars, slotVars, writer>>

PollClaims(c, r) ==
  /\ c.op = "poll"
  /\ CallsArePrompt => \A d \in calls : d.req # r
  /\ ClaimRow(r, Agent)
  /\ calls' = calls \ {c}
  /\ pc' = [pc EXCEPT ![c.slot] = "prep"]
  /\ req' = [req EXCEPT ![c.slot] = r]
  /\ UNCHANGED <<updateVars, tries, writer>>

PollSweeps(c) ==
  /\ c.op = "poll"
  /\ Sweep
  /\ UNCHANGED <<updateVars, slotVars, calls, writer>>

(* The lease of a request nobody works on any more runs out.               *)
LeaseEnds(r) ==
  /\ \A s \in Slots : req[s] # r
  /\ \A c \in calls : c.req # r
  /\ LeaseExpires(r)
  /\ UNCHANGED <<updateVars, slotVars, calls, writer>>

-----------------------------------------------------------------------------
(* begin-submission.                                                       *)
AskToBegin(s) ==
  /\ pc[s] = "prep"
  /\ pc' = [pc EXCEPT ![s] = "begin"]
  /\ calls' = calls \cup {Call("begin", s, 1)}
  /\ UNCHANGED <<rows, updateVars, req, tries, writer>>

BeginCommits(c) ==
  /\ c.op = "begin" /\ c.at = "sent"
  /\ BeginRow(c.req, Agent)
  /\ calls' = (calls \ {c}) \cup {[c EXCEPT !.at = "committed"]}
  /\ UNCHANGED <<updateVars, slotVars, writer>>

(* Only after the row is "submitting" is the update state read.  A handler *)
(* that is aborted here takes the claim back as well.                      *)
BeginReadsGate(c, aborted) ==
  /\ c.op = "begin" /\ c.at = "committed"
  /\ calls' = (calls \ {c}) \cup
       {[c EXCEPT !.at = IF UpdateInProgress \/ aborted THEN "blocked" ELSE "reply"]}
  /\ UNCHANGED <<rows, updateVars, slotVars, writer>>

(* A worker that is told no, or nothing, hands its claim back.             *)
GiveUp(s, left) ==
  /\ pc' = [pc EXCEPT ![s] = "release"]
  /\ tries' = [tries EXCEPT ![s] = 1]
  /\ calls' = left \cup {Call("release", s, 1)}
  /\ UNCHANGED req

(* 409: the begin was refused, or the update gate releases the claim.      *)
BeginRefused(c) ==
  /\ c.op = "begin"
  /\ \/ /\ c.at = "sent"
        /\ ~MayBegin(c.req, Agent)
        /\ UNCHANGED rows
     \/ /\ c.at = "blocked"
        /\ IF MayRelease(c.req, Agent) THEN ReleaseRow(c.req, Agent)
                                       ELSE UNCHANGED rows
  /\ IF Awaited(c) THEN GiveUp(c.slot, calls \ {c})
                   ELSE calls' = calls \ {c} /\ UNCHANGED slotVars
  /\ UNCHANGED <<updateVars, writer>>

CreateCalled(c) ==
  /\ c.at = "reply"
  /\ Awaited(c)
  /\ pc' = [pc EXCEPT ![c.slot] = "create"]
  /\ calls' = calls \ {c}
  /\ UNCHANGED <<rows, updateVars, req, tries, writer>>

(* A call that was promptly handled is overdue only when it was lost.      *)
Overdue(s) == CallsArePrompt => \A c \in calls : c.slot # s

BeginTimesOut(s) ==
  /\ pc[s] = "begin"
  /\ Overdue(s)
  /\ IF tries[s] < MaxTries
       THEN /\ tries' = [tries EXCEPT ![s] = @ + 1]
            /\ calls' = calls \cup {Call("begin", s, tries[s] + 1)}
            /\ UNCHANGED <<pc, req>>
       ELSE GiveUp(s, calls)
  /\ UNCHANGED <<rows, updateVars, writer>>

ReleaseHandled(c) ==
  /\ c.op = "release"
  /\ IF MayRelease(c.req, Agent) THEN ReleaseRow(c.req, Agent) ELSE UNCHANGED rows
  /\ calls' = calls \ {c}
  /\ IF Awaited(c) THEN Idle(c.slot) ELSE UNCHANGED slotVars
  /\ UNCHANGED <<updateVars, writer>>

ReleaseTimesOut(s) ==
  /\ pc[s] = "release"
  /\ Overdue(s)
  /\ Idle(s)
  /\ UNCHANGED <<rows, updateVars, calls, writer>>

(* A call is lost on its way, or its answer is; a handler that has started *)
(* goes on to its end.                                                     *)
LoseCall(c) ==
  /\ c.at \in {"sent", "reply"}
  /\ calls' = calls \ {c}
  /\ UNCHANGED <<rows, updateVars, slotVars, writer>>

(* create returns a job, which is anchored, or ends without a clear result.*)
CreateReturns(s, j) ==
  /\ pc[s] = "create"
  /\ \A r \in Requests : job[r] # j
  /\ MayAnchor(req[s], j)
  /\ AnchorRow(req[s], j)
  /\ Idle(s)
  /\ UNCHANGED <<updateVars, calls, writer>>

CreateUnclear(s) ==
  /\ pc[s] = "create"
  /\ IF MayQuarantine(req[s]) THEN QuarantineRow(req[s]) ELSE UNCHANGED rows
  /\ Idle(s)
  /\ UNCHANGED <<updateVars, calls, writer>>

-----------------------------------------------------------------------------
(* Storing a result (local_write in fulfill, reconcile and the media       *)
(* cache): count first, then read the update state, then write.            *)
WriteCounted(r) ==
  /\ writer[r] = "none"
  /\ status[r] = "tracking" /\ job[r] # NoJob
  /\ writer' = [writer EXCEPT ![r] = "counted"]
  /\ UNCHANGED <<rows, updateVars, slotVars, calls>>

WriteGated(r) ==
  /\ writer[r] = "counted"
  /\ writer' = [writer EXCEPT ![r] = IF UpdateInProgress THEN "none" ELSE "writing"]
  /\ UNCHANGED <<rows, updateVars, slotVars, calls>>

WriteDone(r, verdict) ==
  /\ writer[r] = "writing"
  /\ writer' = [writer EXCEPT ![r] = "none"]
  /\ IF status[r] \notin {"done", verdict} THEN SettleRow(r, verdict)
                                          ELSE UNCHANGED rows
  /\ UNCHANGED <<updateVars, slotVars, calls>>

-----------------------------------------------------------------------------
(* start_update, under _START_LOCK and without force.                      *)
UpdateAsked ==
  /\ updater = "idle"
  /\ updates < MaxUpdates
  /\ ~UpdateInProgress
  /\ ~Generating /\ ~Writing
  /\ updater' = "asked"
  /\ updates' = updates + 1
  /\ UNCHANGED <<rows, file, slotVars, calls, writer>>

UpdateAnnounced ==
  /\ updater = "asked"
  /\ updater' = "checking"
  /\ file' = "checking"
  /\ UNCHANGED <<rows, updates, slotVars, calls, writer>>

(* Busy, already up to date, or the latest release could not be read.      *)
UpdateOff ==
  /\ updater' = "idle"
  /\ file' = "available"
  /\ UNCHANGED <<rows, updates, slotVars, calls, writer>>

UpdateGivesUp == updater \in {"checking", "clear"} /\ UpdateOff

(* Mutant: the second count is left out.                                   *)
UpdateRecounts_Not ==
  /\ updater = "checking"
  /\ updater' = "counted"
  /\ UNCHANGED <<rows, file, updates, slotVars, calls, writer>>

UpdateRecounts ==
  /\ updater = "checking"
  /\ IF Generating
       THEN UpdateOff
       ELSE updater' = "counted" /\ UNCHANGED <<rows, file, updates, slotVars, calls, writer>>

UpdateRecountsWrites ==
  /\ updater = "counted"
  /\ IF Writing
       THEN UpdateOff
       ELSE updater' = "clear" /\ UNCHANGED <<rows, file, updates, slotVars, calls, writer>>

UpdateLaunches ==
  /\ updater = "clear"
  /\ updater' = "launched"
  /\ file' = "starting"
  /\ UNCHANGED <<rows, updates, slotVars, calls, writer>>

(* The installer stops backend and agent, and starts the new ones.         *)
InstallerRestarts ==
  /\ updater = "launched"
  /\ updater' = "idle"
  /\ file' = "available"
  /\ pc' = [s \in Slots |-> "idle"]
  /\ req' = [s \in Slots |-> NoRequest]
  /\ tries' = [s \in Slots |-> 1]
  /\ calls' = {}
  /\ writer' = [r \in Requests |-> "none"]
  /\ UNCHANGED <<rows, updates>>

-----------------------------------------------------------------------------
Work(s) ==
  \/ PollPasses(s)
  \/ AskToBegin(s)
  \/ BeginTimesOut(s)
  \/ ReleaseTimesOut(s)
  \/ \E j \in Jobs : CreateReturns(s, j)
  \/ CreateUnclear(s)

Handle(c) ==
  \/ \E r \in Requests : PollClaims(c, r)
  \/ PollSweeps(c)
  \/ BeginCommits(c)
  \/ \E aborted \in BOOLEAN : BeginReadsGate(c, aborted)
  \/ BeginRefused(c)
  \/ CreateCalled(c)
  \/ ReleaseHandled(c)
  \/ LoseCall(c)

Store(r) ==
  \/ WriteCounted(r)
  \/ WriteGated(r)
  \/ \E verdict \in Terminal : WriteDone(r, verdict)

Update ==
  \/ UpdateAsked
  \/ UpdateAnnounced
  \/ UpdateGivesUp
  \/ UpdateRecounts
  \/ UpdateRecountsWrites
  \/ UpdateLaunches
  \/ InstallerRestarts

Next ==
  \/ \E s \in Slots : Work(s)
  \/ \E c \in calls : Handle(c)
  \/ \E r \in Requests : LeaseEnds(r) \/ Store(r)
  \/ Update

Spec == Init /\ [][Next]_vars

-----------------------------------------------------------------------------
(* Properties.                                                             *)

(* When the installer is launched, no create is running, none can start    *)
(* before it stops the agent, and no result is being stored: whichever of  *)
(* begin-submission, a counted write and the update check comes first, the *)
(* other sees it (begin_gen_request_submission, local_write, start_update).*)
(* And the gate itself cuts no create off: the row of one that is running  *)
(* stays "submitting", since only a begin that was not acknowledged is     *)
(* released (routers/gen_requests.py).                                     *)
UpdateCutsNothingOff ==
  /\ updater = "launched" =>
       /\ \A s \in Slots : pc[s] # "create"
       /\ \A c \in calls : ~(c.at = "reply" /\ Awaited(c))
       /\ \A r \in Requests : writer[r] # "writing"
  /\ \A s \in Slots : pc[s] = "create" => status[req[s]] = "submitting"

-----------------------------------------------------------------------------
(* Why it works: what the steps preserve when CallsArePrompt.              *)

Alive(s) == pc[s] \in {"prep", "begin", "create"}

(* What the updater says on disk.                                          *)
FileTells ==
  file = CASE updater \in {"idle", "asked"} -> "available"
           [] updater \in {"checking", "counted", "clear"} -> "checking"
           [] updater = "launched" -> "starting"

(* A row has a job from its anchor on.                                     *)
JobsAreAnchored ==
  \A r \in Requests : job[r] # NoJob <=> status[r] \in {"tracking"} \cup Terminal

(* A slot waits for one call at a time, the one that is under way.         *)
SlotsFit ==
  \A s \in Slots :
    /\ pc[s] = "idle" <=> req[s] = NoRequest
    /\ pc[s] \in {"idle", "prep", "release"} => tries[s] = 1

CallsFit ==
  /\ \A c, d \in calls : c.slot = d.slot => c = d
  /\ \A c \in calls :
       /\ pc[c.slot] = IF c.op = "poll" THEN "idle" ELSE c.op
       /\ c.req = req[c.slot]
       /\ c.n = tries[c.slot]
       /\ c.op # "begin" => c.at = "sent"

(* A request is held by one slot that may still submit it, and nobody is   *)
(* about to take it back.                                                  *)
HeldOnce ==
  \A s \in Slots : Alive(s) =>
    /\ \A t \in Slots : Alive(t) /\ req[t] = req[s] => t = s
    /\ \A c \in calls : c.op = "release" => c.req # req[s]

(* The row of such a request is the claim of this agent, and past the      *)
(* begin that was acknowledged.                                            *)
RowsFit ==
  /\ \A s \in Slots : Alive(s) =>
       /\ status[req[s]] \in {"claimed", "submitting"}
       /\ owner[req[s]] = Agent
       /\ fresh[req[s]]
       /\ pc[s] = "create" => status[req[s]] = "submitting"
  /\ \A c \in calls : c.op = "begin" /\ c.at # "sent" => status[c.req] = "submitting"

(* From the count on, no create starts; from the second one on, no write.  *)
CountHolds ==
  /\ updater \in {"counted", "clear", "launched"} =>
       /\ \A s \in Slots : pc[s] # "create"
       /\ \A c \in calls : c.at # "reply"
  /\ updater \in {"clear", "launched"} => \A r \in Requests : writer[r] # "writing"

GateInv ==
  /\ GateTypeOK /\ FileTells /\ JobsAreAnchored /\ SlotsFit
  /\ CallsFit /\ HeldOnce /\ RowsFit /\ CountHolds
=============================================================================
