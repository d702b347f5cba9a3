------------------------------ MODULE ComfyRun ------------------------------
(***************************************************************************)
(* One run of a Comfy workflow that a canvas card asked for, and what is   *)
(* kept of it: the durable receipt of the run and of each of its outputs   *)
(* (repo/comfy_canvas_runs.py), the journal row that knows the prompt and  *)
(* what was fetched (services/comfy_run_journal.py), the job in memory,    *)
(* and the cards made of the outputs (repo/generations.py).  A worker      *)
(* thread submits, waits, fetches and saves; requests of the page          *)
(* reconcile the receipt first and then resolve it, acknowledge it, save,  *)
(* collect again or dismiss (routers/comfy.py).  Every write is a          *)
(* transaction of its own, and nothing in memory outlives the program.     *)
(***************************************************************************)
EXTENDS Integers, FiniteSets

CONSTANTS
  Media,        \* images and videos the workflow may produce
  Requests,     \* requests the program may be serving at once
  MaxCollects,  \* bound: second fetches
  MaxComFaults  \* bound: failures of a call or a write, and restarts

ASSUME ComfyAssumption ==
  /\ "text" \notin Media
  /\ MaxCollects \in Nat /\ MaxComFaults \in Nat
  /\ Requests \cap (0..MaxCollects) = {}

VARIABLES
  comPlan,    \* what ComfyUI produces, if the run succeeds
  comRemote,  \* the run at ComfyUI
  comRun,     \* comfy_canvas_run and comfy_canvas_output
  comGen,     \* the card of each output
  comMade,    \* history: how many cards were made of it
  comRow,     \* the journal row
  comJob,     \* _RUN_JOBS: the job of each worker
  comMem,     \* the worker's copy of its journal row, and the phase on disk
  comAct,     \* the step of each worker and request, and what it read
  comTold,    \* the page's last resolution: is the receipt still the same
  comFaults

comWorld == <<comPlan, comRemote>>
comDisk == <<comRun, comGen, comMade, comRow, comTold>>
comVars == <<comWorld, comDisk, comJob, comMem, comAct, comFaults>>

Workers == 0..MaxCollects           \* 0 submits, the others fetch again
Actors == Workers \cup Requests
Outs == Media \cup {"text"}

Phases == {"none", "submitting", "running", "result_pending", "collecting", "collected",
           "orphaned", "unknown", "not_submitted", "failed"}
Rows == [phase : Phases, term : {"none", "success", "failure"}, prompt : BOOLEAN,
         enum : BOOLEAN, unread : BOOLEAN, textOnly : BOOLEAN,
         known : SUBSET Media, down : SUBSET Media, gone : SUBSET Media,
         seq : Workers, prev : Phases]
NoRow == [phase |-> "none", term |-> "none", prompt |-> FALSE,
          enum |-> FALSE, unread |-> FALSE, textOnly |-> FALSE,
          known |-> {}, down |-> {}, gone |-> {}, seq |-> 0, prev |-> "none"]
NoMem == [row |-> NoRow, kept |-> "none"]

(* What an actor carries from step to step: the state it read or falls     *)
(* back to, whether there were outputs, the jobs and the journal row it    *)
(* read, the outputs it has left, the text it has, and so on.              *)
NoAct == [pc |-> "off", op |-> "none", st |-> "none", any |-> FALSE,
          jobs |-> [w \in Workers |-> "none"], row |-> NoRow, todo |-> {},
          full |-> TRUE, txt |-> FALSE, miss |-> FALSE, drop |-> FALSE, bad |-> FALSE]

RunStates == {"none", "accepted", "running", "saving", "saved", "failed",
              "needs_collect", "unknown", "linked", "dismissed"}

ComTypeOK ==
  /\ comPlan \in [media : SUBSET Media, text : {"none", "history", "file", "lost"}]
  /\ comRemote \in {"none", "running", "success", "failure"}
  /\ comRun \in [state : RunStates, enum : BOOLEAN,
                 out : [Outs -> {"none", "pending", "unavailable", "ready", "saved",
                                 "deleted", "text"}]]
  /\ comGen \in [Media -> {"none", "live", "trashed"}]
  /\ comMade \in [Media -> Nat]
  /\ comRow \in Rows
  /\ comRow.down \cup comRow.gone \subseteq comRow.known
  /\ comRow.down \cap comRow.gone = {}
  /\ comJob \in [Workers -> {"none", "active", "ended"}]
  /\ comMem \in [Workers -> [row : Rows, kept : Phases]]
  /\ \A a \in Actors : comAct[a].row \in Rows /\ comAct[a].todo \subseteq Media
  /\ comTold \in [told : BOOLEAN, bumped : BOOLEAN, changed : BOOLEAN]
  /\ comFaults \in 0..MaxComFaults

ComInit ==
  /\ comPlan \in [media : SUBSET Media, text : {"none", "history", "file"}]
  /\ comRemote = "none"
  /\ comRun = [state |-> "none", enum |-> FALSE, out |-> [o \in Outs |-> "none"]]
  /\ comGen = [m \in Media |-> "none"]
  /\ comMade = [m \in Media |-> 0]
  /\ comRow = NoRow
  /\ comJob = [w \in Workers |-> "none"]
  /\ comMem = [w \in Workers |-> NoMem]
  /\ comAct = [a \in Actors |-> NoAct]
  /\ comTold = [told |-> FALSE, bumped |-> FALSE, changed |-> FALSE]
  /\ comFaults = 0

ComFault == comFaults < MaxComFaults /\ comFaults' = comFaults + 1
At(a, pc) == comAct[a].pc = pc
Goes(a, pc) == comAct' = [comAct EXCEPT ![a].pc = pc]
Turns(a, pc) ==    \* and forgets what it carried
  comAct' = [comAct EXCEPT ![a] = [NoAct EXCEPT !.pc = pc, !.op = comAct[a].op]]
Ends(a) == comAct' = [comAct EXCEPT ![a] = NoAct]

-----------------------------------------------------------------------------
(* The durable receipt.  Its revision is compared with the one the page    *)
(* was told last, so all that is kept is whether it moved since.           *)

Settled == {"linked", "dismissed"}
Linked(m) == m \in Media /\ comGen[m] # "none"
Outputs(run) == {o \in Outs : run.out[o] # "none"}

isRunFullySaved(run) ==
  /\ run.enum
  /\ Outputs(run) # {}
  /\ \A o \in Outputs(run) :
       (Linked(o) /\ run.out[o] \in {"saved", "deleted"}) \/ run.out[o] = "text"

Write(run, bump) ==
  /\ comRun' = run
  /\ comTold' = IF comTold.told
                  THEN [comTold EXCEPT !.bumped = @ \/ bump,
                                       !.changed = @ \/ run.state # comRun.state
                                                     \/ run.out # comRun.out]
                  ELSE comTold

set_state(s) ==
  IF comRun.state \in Settled \cup {"none"} THEN UNCHANGED <<comRun, comTold>>
  ELSE Write([comRun EXCEPT !.state = s], s # comRun.state)

(* record_outputs: an output that is linked stays as it is, and what was   *)
(* fetched is not taken back by a stale list.                              *)
Stands(o, new) == Linked(o) \/ (comRun.out[o] = "ready" /\ new \in {"pending", "unavailable"})
record_outputs(items, enumerated) ==
  LET out == [o \in Outs |-> IF o \in DOMAIN items /\ ~Stands(o, items[o])
                               THEN items[o] ELSE comRun.out[o]]
  IN IF comRun.state \in Settled \cup {"none"} THEN UNCHANGED <<comRun, comTold>>
     ELSE Write([comRun EXCEPT !.out = out, !.enum = @ \/ enumerated],
                out # comRun.out \/ (enumerated /\ ~comRun.enum))

(* settle: what the user deleted is noted, and the run is saved when every *)
(* output is accounted for.  The journal row goes with it (what            *)
(* _ack_canvas_journal does later, with the run that settle returned).     *)
Deleted == {m \in Media : comGen[m] = "trashed" /\ comRun.out[m] # "deleted"}
Settlement(fallback) ==
  IF comRun.enum /\ Outputs(comRun) = {} THEN "failed"
  ELSE IF isRunFullySaved(comRun) THEN "saved" ELSE fallback
AfterSettle(fallback) ==
  IF comRun.state \in Settled \cup {"none"} THEN comRun
  ELSE [comRun EXCEPT !.state = Settlement(fallback),
                      !.out = [o \in Outs |-> IF o \in Deleted THEN "deleted" ELSE @[o]]]

(* Mutant: a deletion is noted and the revision stays.                     *)
settle_SameRevision(fallback) ==
  LET run == AfterSettle(fallback) IN Write(run, run.state # comRun.state)

settle(fallback) ==
  LET run == AfterSettle(fallback) IN Write(run, run # comRun)

RowIsDone(run) ==
  isRunFullySaved(run) \/ (run.state \in {"failed", "linked"} /\ Outputs(run) = {})
DropRow(a) == comRow' = IF comAct[a].drop THEN NoRow ELSE comRow

-----------------------------------------------------------------------------
(* The journal.                                                            *)

all_downloaded(row) ==
  row.enum /\ row.known # {} /\ ~row.unread /\ row.known \subseteq row.down

Restored(row) ==
  IF row.term = "success" /\ row.enum /\ row.textOnly /\ ~row.unread /\ row.known = {}
    THEN NoRow
  ELSE [row EXCEPT !.phase =
          IF @ = "submitting" THEN "unknown"
          ELSE IF @ = "collecting" /\ ~row.enum
            THEN IF row.prev \in {"orphaned", "result_pending"} THEN row.prev ELSE "orphaned"
          ELSE IF @ \in {"running", "collecting"}
            THEN IF row.term # "success" THEN "orphaned"
                 ELSE IF all_downloaded(row) THEN "collected" ELSE "result_pending"
          ELSE @]

(* _patch_run_record: memory first; the row is written when it is still    *)
(* this worker's, and a failing write is only logged.                      *)
Mine(w) == /\ comRow # NoRow
           /\ comRow.seq = comMem[w].row.seq
           /\ comRow.phase = comMem[w].kept
Patch(w, row) ==
  \/ /\ comRow' = IF Mine(w) THEN row ELSE comRow
     /\ comMem' = [comMem EXCEPT ![w] =
                     [row |-> row, kept |-> IF Mine(w) THEN row.phase ELSE @.kept]]
     /\ UNCHANGED comFaults
  \/ /\ ComFault
     /\ comMem' = [comMem EXCEPT ![w].row = row]
     /\ UNCHANGED comRow

Statuses(row) ==
  [m \in row.known |-> IF m \in row.gone THEN "unavailable"
                       ELSE IF m \in row.down THEN "ready" ELSE "pending"]
WithText(items, found) ==
  [o \in DOMAIN items \cup (IF found THEN {"text"} ELSE {}) |->
     IF o = "text" THEN "text" ELSE items[o]]

-----------------------------------------------------------------------------
(* The start: the receipt is claimed before the thread exists; the same    *)
(* attempt sent again finds it and changes nothing (_start_run).           *)
Start ==
  /\ comRun.state = "none"
  /\ comRun' = [comRun EXCEPT !.state = "accepted"]
  /\ comJob' = [comJob EXCEPT ![0] = "active"]
  /\ Goes(0, "staged")
  /\ UNCHANGED <<comWorld, comGen, comMade, comRow, comTold, comMem, comFaults>>

ThreadStarts ==
  /\ At(0, "staged")
  /\ \/ Goes(0, "begin") /\ UNCHANGED <<comRun, comTold, comJob, comFaults>>
     \/ /\ ComFault
        /\ set_state("failed")
        /\ comJob' = [comJob EXCEPT ![0] = "ended"]
        /\ Ends(0)
  /\ UNCHANGED <<comWorld, comGen, comMade, comRow, comMem>>

(* _run_comfy_job_impl.                                                    *)
BeginRun ==
  /\ At(0, "begin")
  /\ set_state("running")
  /\ Goes(0, "admit")
  /\ UNCHANGED <<comWorld, comGen, comMade, comRow, comJob, comMem, comFaults>>

Admit ==
  /\ At(0, "admit")
  /\ LET row == [NoRow EXCEPT !.phase = "submitting"] IN
     \/ /\ comRow' = row
        /\ comMem' = [comMem EXCEPT ![0] = [row |-> row, kept |-> "submitting"]]
        /\ Goes(0, "submit")
        /\ UNCHANGED comFaults
     \/ ComFault /\ Goes(0, "failRead") /\ UNCHANGED <<comRow, comMem>>
  /\ UNCHANGED <<comWorld, comRun, comGen, comMade, comTold, comJob>>

Submit ==
  /\ At(0, "submit")
  /\ comRemote' = "running"
  /\ Goes(0, "track")
  /\ UNCHANGED <<comPlan, comDisk, comJob, comMem, comFaults>>

Track ==
  /\ At(0, "track")
  /\ Patch(0, [comMem[0].row EXCEPT !.phase = "running", !.prompt = TRUE])
  /\ Goes(0, "wait")
  /\ UNCHANGED <<comWorld, comRun, comGen, comMade, comTold, comJob>>

SubmitFails ==
  /\ At(0, "submit")
  /\ ComFault
  /\ \E phase \in {"not_submitted", "unknown"} :
       LET row == [comMem[0].row EXCEPT !.phase = phase] IN
       /\ comRow' = IF Mine(0) THEN row ELSE comRow
       /\ comMem' = [comMem EXCEPT ![0] = [row |-> row, kept |-> phase]]
       /\ comRemote' \in IF phase = "unknown" THEN {"none", "running"} ELSE {"none"}
  /\ Goes(0, "fail")
  /\ UNCHANGED <<comPlan, comRun, comGen, comMade, comTold, comJob>>

(* _wait and _collect_existing_run: the end of the remote run is seen.     *)
Waiting(w) == At(w, "wait") \/ At(w, "look")
SeeSuccess(w) ==
  /\ Waiting(w)
  /\ comRemote = "success"
  /\ IF comMem[w].row.term = "success"
       THEN UNCHANGED <<comRow, comMem, comFaults>>
       ELSE Patch(w, [comMem[w].row EXCEPT !.term = "success",
                        !.phase = IF @ = "collecting" THEN @ ELSE "result_pending"])
  /\ Goes(w, "detail")
  /\ UNCHANGED <<comWorld, comRun, comGen, comMade, comTold, comJob>>

SeeFailure(w) ==
  /\ Waiting(w)
  /\ comRemote = "failure"
  /\ Patch(w, [comMem[w].row EXCEPT !.term = "failure", !.phase = "failed"])
  /\ Goes(w, "fail")
  /\ UNCHANGED <<comWorld, comRun, comGen, comMade, comTold, comJob>>

NotReady(w) ==     \* half an hour is over; or a second fetch finds it running
  /\ Waiting(w)
  /\ comRemote = "running"
  /\ Goes(w, "fail")
  /\ UNCHANGED <<comWorld, comDisk, comJob, comMem, comFaults>>

(* The list of outputs; a second fetch goes on without it when ComfyUI has *)
(* forgotten it and some outputs are known.                                *)
Detail(w) ==
  /\ At(w, "detail")
  /\ \/ Goes(w, "list") /\ UNCHANGED comFaults
     \/ /\ w # 0 /\ comMem[w].row.known # {}
        /\ ComFault
        /\ comAct' = [comAct EXCEPT ![w].pc = "list", ![w].full = FALSE]
  /\ UNCHANGED <<comWorld, comDisk, comJob, comMem>>

-----------------------------------------------------------------------------
(* _collect_run_outputs.                                                   *)
List(w) ==
  /\ At(w, "list")
  /\ LET old == comMem[w].row
         seen == IF comAct[w].full THEN comPlan.media ELSE {}
         known == old.known \cup seen
         gone == (known \ seen) \ old.down
     IN /\ Patch(w, [old EXCEPT !.known = known, !.gone = gone, !.enum = TRUE,
                                !.textOnly = FALSE,
                                !.unread = @ \/ comPlan.text \in {"file", "lost"}])
        /\ comAct' = [comAct EXCEPT ![w].pc = "note",
                                    ![w].todo = {m \in known \ gone : ~Linked(m)},
                                    ![w].txt = comAct[w].full /\ comPlan.text = "history"]
  /\ UNCHANGED <<comWorld, comRun, comGen, comMade, comTold, comJob>>

(* What is known is on disk before anything is read or fetched.            *)
Note(w) ==
  /\ At(w, "note")
  /\ LET row == comMem[w].row IN
     IF row.known # {} \/ comAct[w].txt
       THEN record_outputs(WithText(Statuses(row), comAct[w].txt), ~row.unread)
       ELSE UNCHANGED <<comRun, comTold>>
  /\ Goes(w, "read")
  /\ UNCHANGED <<comWorld, comGen, comMade, comRow, comJob, comMem, comFaults>>

ReadTexts(w) ==
  /\ At(w, "read")
  /\ \E miss \in IF comPlan.text = "file" THEN BOOLEAN ELSE {FALSE} :
       LET found == comAct[w].txt \/ (comPlan.text = "file" /\ ~miss) IN
       /\ IF miss THEN ComFault ELSE UNCHANGED comFaults
       /\ record_outputs(WithText(Statuses(comMem[w].row), found), ~miss)
       /\ comAct' = [comAct EXCEPT ![w].txt = found, ![w].miss = miss,
                        ![w].pc = IF comMem[w].row.unread /\ ~miss THEN "clear" ELSE "load"]
  /\ UNCHANGED <<comWorld, comGen, comMade, comRow, comJob, comMem>>

ClearUnread(w) ==
  /\ At(w, "clear")
  /\ Patch(w, [comMem[w].row EXCEPT !.unread = FALSE])
  /\ Goes(w, "load")
  /\ UNCHANGED <<comWorld, comRun, comGen, comMade, comTold, comJob>>

Load(w) ==
  /\ At(w, "load")
  /\ \E m \in comAct[w].todo :
       /\ \/ Patch(w, [comMem[w].row EXCEPT !.down = @ \cup {m}])
          \/ /\ m \notin comMem[w].row.down    \* ComfyUI has deleted the file
             /\ Patch(w, [comMem[w].row EXCEPT !.gone = @ \cup {m}])
       /\ comAct' = [comAct EXCEPT ![w].pc = "loaded", ![w].todo = @ \ {m}]
  /\ UNCHANGED <<comWorld, comRun, comGen, comMade, comTold, comJob>>

NoteLoaded(w) ==
  /\ At(w, "loaded")
  /\ record_outputs(Statuses(comMem[w].row), ~comAct[w].miss)
  /\ Goes(w, "load")
  /\ UNCHANGED <<comWorld, comGen, comMade, comRow, comJob, comMem, comFaults>>

CloseRun(w) ==
  /\ At(w, "load") /\ comAct[w].todo = {}
  /\ LET row == comMem[w].row IN
     IF comAct[w].miss
       THEN Turns(w, "fail") /\ UNCHANGED <<comRow, comMem, comFaults>>
       ELSE /\ Patch(w, [row EXCEPT
                 !.phase = IF row.known # {} /\ row.known \subseteq row.down
                             THEN "collected" ELSE "result_pending",
                 !.textOnly = row.known = {} /\ comAct[w].txt])
            /\ Turns(w, IF row.down = {} /\ ~comAct[w].txt THEN "fail" ELSE "saveRead")
  /\ UNCHANGED <<comWorld, comRun, comGen, comMade, comTold, comJob>>

(* A call or a write of these steps fails, or the time for them is over.   *)
WorkFails(w) ==
  /\ \E pc \in {"detail", "list", "note", "read", "clear", "load", "loaded"} : At(w, pc)
  /\ ComFault
  /\ Turns(w, "fail")
  /\ UNCHANGED <<comWorld, comDisk, comJob, comMem>>

-----------------------------------------------------------------------------
(* _save_canvas_run, by a worker or by a request; whatever happens, the    *)
(* run is settled and the journal row told at the end.                     *)
(* What follows: nothing for a request; a worker ends, or goes on with     *)
(* what it makes of its failure.                                           *)
AfterSave(a) ==
  IF a \in Requests THEN "off"
  ELSE IF comAct[a].op = "fail" THEN "failSettle"
  ELSE IF comAct[a].bad THEN "fail" ELSE "end"
SaveEnds(a) ==
  comAct' = [comAct EXCEPT ![a] = [NoAct EXCEPT !.pc = AfterSave(a), !.op = comAct[a].op,
                                                !.st = comAct[a].st]]

SaveRead(a) ==
  /\ At(a, "saveRead") \/ (a \in Requests /\ At(a, "op"))
  /\ IF comRun.state \in Settled THEN SaveEnds(a)
     ELSE comAct' = [comAct EXCEPT
            ![a].pc = IF comRun.state = "saved" THEN "saveSettle" ELSE "saveMark",
            ![a].todo = {m \in Media : comRun.out[m] = "ready" /\ ~Linked(m)}]
  /\ UNCHANGED <<comWorld, comDisk, comJob, comMem, comFaults>>

SaveMark(a) ==
  /\ At(a, "saveMark")
  /\ set_state("saving")
  /\ Goes(a, "save")
  /\ UNCHANGED <<comWorld, comGen, comMade, comRow, comJob, comMem, comFaults>>

(* create_comfy_generation with linked_output and link_output: one         *)
(* transaction; a card that is linked wins even if it was deleted, and a   *)
(* run that was put away takes no card.                                    *)
(* Mutant: a deleted card does not count.                                  *)
linked_output_Alive(m) ==
  IF comGen[m] = "live" THEN "linked"
  ELSE IF comRun.state \in Settled THEN "conflict" ELSE "none"

linked_output(m) ==
  IF Linked(m) THEN "linked" ELSE IF comRun.state \in Settled THEN "conflict" ELSE "none"

SaveItem(a) ==
  /\ At(a, "save")
  /\ \E m \in comAct[a].todo :
       LET found == linked_output(m) IN
       \/ /\ found = "none"
          /\ comGen' = [comGen EXCEPT ![m] = "live"]
          /\ comMade' = [comMade EXCEPT ![m] = @ + 1]
          /\ Write([comRun EXCEPT !.out[m] = "saved"], TRUE)
          /\ comAct' = [comAct EXCEPT ![a].todo = @ \ {m}]
          /\ UNCHANGED comFaults
       \/ /\ found = "linked"
          /\ comAct' = [comAct EXCEPT ![a].todo = @ \ {m}]
          /\ UNCHANGED <<comRun, comGen, comMade, comTold, comFaults>>
       \/ /\ IF found = "conflict" THEN UNCHANGED comFaults ELSE ComFault
          /\ comAct' = [comAct EXCEPT ![a].pc = "saveSettle", ![a].bad = TRUE, ![a].todo = {}]
          /\ UNCHANGED <<comRun, comGen, comMade, comTold>>
  /\ UNCHANGED <<comWorld, comRow, comJob, comMem>>

SaveSettle(a) ==
  /\ At(a, "saveSettle") \/ (At(a, "save") /\ comAct[a].todo = {})
  /\ settle("needs_collect")
  /\ comAct' = [comAct EXCEPT ![a].pc = "saveAck", ![a].drop = RowIsDone(comRun')]
  /\ UNCHANGED <<comWorld, comGen, comMade, comRow, comJob, comMem, comFaults>>

SaveAck(a) ==     \* _ack_canvas_journal; its failure is only logged
  /\ At(a, "saveAck")
  /\ \/ DropRow(a) /\ UNCHANGED comFaults
     \/ comAct[a].drop /\ ComFault /\ UNCHANGED comRow
  /\ SaveEnds(a)
  /\ UNCHANGED <<comWorld, comRun, comGen, comMade, comTold, comJob, comMem>>

-----------------------------------------------------------------------------
(* _mark_run_failure and the end of a worker.                              *)
Fail(w) ==
  /\ At(w, "fail")
  /\ LET row == comMem[w].row IN
     IF row.phase \in {"unknown", "not_submitted", "failed"}
       THEN UNCHANGED <<comRow, comMem, comFaults>>
       ELSE Patch(w, [row EXCEPT !.phase =
                        IF row.term # "success" THEN "orphaned"
                        ELSE IF all_downloaded(row) THEN "collected" ELSE "result_pending"])
  /\ Goes(w, "failRead")
  /\ UNCHANGED <<comWorld, comRun, comGen, comMade, comTold, comJob>>

FailRead(w) ==
  /\ At(w, "failRead")
  /\ LET row == comMem[w].row
         any == Outputs(comRun) # {}
         certain == row = NoRow \/ row.phase = "not_submitted" \/ row.term = "failure"
     IN comAct' = [comAct EXCEPT
          ![w].pc = IF any THEN "saveRead" ELSE "failSettle",
          ![w].op = "fail",
          ![w].st = IF any THEN "needs_collect"
                    ELSE IF certain THEN "failed"
                    ELSE IF row.prompt THEN "needs_collect" ELSE "unknown"]
  /\ UNCHANGED <<comWorld, comDisk, comJob, comMem, comFaults>>

FailSettle(w) ==
  /\ At(w, "failSettle")
  /\ settle(comAct[w].st)
  /\ comAct' = [comAct EXCEPT ![w].pc = "failAck", ![w].drop = RowIsDone(comRun')]
  /\ UNCHANGED <<comWorld, comGen, comMade, comRow, comJob, comMem, comFaults>>

FailAck(w) ==
  /\ At(w, "failAck")
  /\ \/ DropRow(w) /\ UNCHANGED comFaults
     \/ comAct[w].drop /\ ComFault /\ UNCHANGED comRow
  /\ Turns(w, "end")
  /\ UNCHANGED <<comWorld, comRun, comGen, comMade, comTold, comJob, comMem>>

WorkEnds(w) ==
  /\ At(w, "end")
  /\ comJob' = [comJob EXCEPT ![w] = "ended"]
  /\ comMem' = [comMem EXCEPT ![w] = NoMem]
  /\ Ends(w)
  /\ UNCHANGED <<comWorld, comDisk, comFaults>>

(* _sweep_run_jobs_locked, an hour after the end.  It is looked at only    *)
(* for a row that a job which is over has left in "collecting".            *)
Sweep(w) ==
  /\ comJob[w] = "ended"
  /\ comRow.phase = "collecting" /\ comRow.seq = w
  /\ comJob' = [comJob EXCEPT ![w] = "none"]
  /\ UNCHANGED <<comWorld, comDisk, comMem, comAct, comFaults>>

-----------------------------------------------------------------------------
(* A request.  First every one of them reconciles the receipt with the     *)
(* journal (_comfy_request_scope, _reconcile_canvas_runs), from what it    *)
(* reads one after the other.                                              *)
Arrive(q) ==
  /\ At(q, "off")
  /\ comRun.state # "none"
  /\ comAct' = [comAct EXCEPT ![q] =
       IF comRun.state \in Settled THEN [NoAct EXCEPT !.pc = "op"]
       ELSE [NoAct EXCEPT !.pc = "jobs", !.st = comRun.state,
                          !.any = Outputs(comRun) # {}]]
  /\ UNCHANGED <<comWorld, comDisk, comJob, comMem, comFaults>>

ReadJobs(q) ==
  /\ At(q, "jobs")
  /\ comAct' = [comAct EXCEPT ![q].pc = "journal", ![q].jobs = comJob]
  /\ UNCHANGED <<comWorld, comDisk, comJob, comMem, comFaults>>

ReadJournal(q) ==
  /\ At(q, "journal")
  /\ LET busy == \/ comAct[q].jobs[0] = "active"
                 \/ comRow # NoRow /\ comAct[q].jobs[comRow.seq] = "active"
     IN IF busy THEN Turns(q, "op")
        ELSE comAct' = [comAct EXCEPT ![q].pc = "move", ![q].row = comRow,
                                      ![q].jobs = NoAct.jobs]
  /\ UNCHANGED <<comWorld, comDisk, comJob, comMem, comFaults>>

(* The media of a complete list move to the receipt, unless a text of the  *)
(* run was not read: it would be saved without it.                         *)
(* Mutants: the unread text is not looked at; an empty list counts.        *)
Moves_Unread(row) == row.enum /\ row.known # {}
Moves_Empty(row) == row.enum /\ ~row.unread

Moves(row) == row.enum /\ row.known # {} /\ ~row.unread

Move(q) ==
  /\ At(q, "move")
  /\ LET row == comAct[q].row IN
     IF Moves(row)
       THEN /\ record_outputs(Statuses(row), TRUE)
            /\ comAct' = [comAct EXCEPT ![q].pc = "settle", ![q].st = comRun'.state,
                                        ![q].any = Outputs(comRun') # {}]
       ELSE Goes(q, "settle") /\ UNCHANGED <<comRun, comTold>>
  /\ UNCHANGED <<comWorld, comGen, comMade, comRow, comJob, comMem, comFaults>>

(* Mutant: a run in progress stays what it was.                            *)
Fallback_Kept(st, any, row) == st

Fallback(st, any, row) ==
  IF st \notin {"accepted", "running", "saving"} THEN st
  ELSE IF ~any /\ (row.term = "failure" \/ row.phase = "not_submitted") THEN "failed"
  ELSE IF any \/ row.prompt THEN "needs_collect" ELSE "unknown"

Reconcile(q) ==
  /\ At(q, "settle")
  /\ settle(Fallback(comAct[q].st, comAct[q].any, comAct[q].row))
  /\ IF comRun'.state \in {"saved", "failed"}
       THEN comAct' = [comAct EXCEPT ![q] = [NoAct EXCEPT !.pc = "tell", !.op = comAct[q].op,
                                                          !.drop = RowIsDone(comRun')]]
       ELSE Turns(q, "op")
  /\ UNCHANGED <<comWorld, comGen, comMade, comRow, comJob, comMem, comFaults>>

Tell(q) ==
  /\ At(q, "tell")
  /\ DropRow(q)
  /\ Turns(q, "op")
  /\ UNCHANGED <<comWorld, comRun, comGen, comMade, comTold, comJob, comMem, comFaults>>

-----------------------------------------------------------------------------
(* Then what it asks for: resolve_canvas_runs, ack_canvas_run,             *)
(* save_to_library (SaveRead), collect or dismiss.  One that only looks    *)
(* (run_status) is a resolution that nobody keeps.                         *)
Resolve(q) ==
  /\ At(q, "op")
  /\ comTold' = [told |-> TRUE, bumped |-> FALSE, changed |-> FALSE]
  /\ Ends(q)
  /\ UNCHANGED <<comWorld, comRun, comGen, comMade, comRow, comJob, comMem, comFaults>>

MayAcknowledge ==
  /\ comTold.told /\ ~comTold.bumped
  /\ comRun.state \in {"saved", "failed", "dismissed", "linked"}

acknowledge(q) ==
  /\ At(q, "op")
  /\ IF MayAcknowledge
       THEN /\ Write([comRun EXCEPT !.state = "linked"], FALSE)
            /\ comAct' = [comAct EXCEPT ![q].pc = "saveAck", ![q].drop = RowIsDone(comRun')]
       ELSE Ends(q) /\ UNCHANGED <<comRun, comTold>>
  /\ UNCHANGED <<comWorld, comGen, comMade, comRow, comJob, comMem, comFaults>>

(* collect_unresolved_run: the row is read, then the jobs, and claimed if  *)
(* it is still the same row.                                               *)
claim_token(row) == [NoRow EXCEPT !.seq = row.seq, !.phase = row.phase]

CollectRead(q) ==
  /\ At(q, "op")
  /\ IF comRow.prompt /\ comRun.state \notin Settled /\ comRow.seq < MaxCollects
       THEN comAct' = [comAct EXCEPT ![q].pc = "collectJobs", ![q].row = claim_token(comRow)]
       ELSE Ends(q)
  /\ UNCHANGED <<comWorld, comDisk, comJob, comMem, comFaults>>

CollectJobs(q) ==
  /\ At(q, "collectJobs")
  /\ comAct' = [comAct EXCEPT ![q].pc = "collect", ![q].jobs = comJob]
  /\ UNCHANGED <<comWorld, comDisk, comJob, comMem, comFaults>>

collect_available(row, jobs) ==
  \/ row.phase = "collecting" /\ jobs[row.seq] = "none"
  \/ row.phase \in {"result_pending", "orphaned"} /\ jobs[row.seq] # "active"

Collect(q) ==
  /\ At(q, "collect")
  /\ LET row == comRow
         next == [row EXCEPT !.phase = "collecting", !.seq = @ + 1,
                    !.prev = IF row.phase # "collecting" THEN row.phase
                             ELSE IF row.term = "success" THEN "result_pending"
                             ELSE "orphaned"]
     IN IF /\ claim_token(row) = comAct[q].row
           /\ row # NoRow
           /\ collect_available(row, comAct[q].jobs)
          THEN /\ comRow' = next
               /\ comJob' = [comJob EXCEPT ![next.seq] = "active"]
               /\ comMem' = [comMem EXCEPT ![next.seq] = [row |-> next, kept |-> "collecting"]]
               /\ \E pc \in {"look", "fail"} :
                    /\ comAct' = [comAct EXCEPT ![q] = NoAct, ![next.seq].pc = pc]
                    /\ IF pc = "fail" THEN ComFault ELSE UNCHANGED comFaults
          ELSE Ends(q) /\ UNCHANGED <<comRow, comJob, comMem, comFaults>>
  /\ UNCHANGED <<comWorld, comRun, comGen, comMade, comTold>>

(* dismiss_unresolved_runs; the receipt is written before the journal.     *)
DismissRead(q) ==
  /\ At(q, "op")
  /\ comAct' = [comAct EXCEPT ![q].pc = "dismissJobs", ![q].row = claim_token(comRow)]
  /\ UNCHANGED <<comWorld, comDisk, comJob, comMem, comFaults>>

DismissJobs(q) ==
  /\ At(q, "dismissJobs")
  /\ comAct' = [comAct EXCEPT ![q].pc = "dismiss", ![q].jobs = comJob]
  /\ UNCHANGED <<comWorld, comDisk, comJob, comMem, comFaults>>

MayDismiss(token, jobs) ==
  /\ jobs[0] # "active"
  /\ \/ token = NoRow
     \/ /\ comRow # NoRow
        /\ claim_token(comRow) = token
        /\ jobs[comRow.seq] # "active"

Dismiss(q) ==
  /\ At(q, "dismiss")
  /\ IF MayDismiss(comAct[q].row, comAct[q].jobs)
       THEN /\ set_state("dismissed")
            /\ \/ comRow' = NoRow /\ UNCHANGED comFaults
               \/ ComFault /\ UNCHANGED comRow
       ELSE UNCHANGED <<comRun, comTold, comRow, comFaults>>
  /\ Ends(q)
  /\ UNCHANGED <<comWorld, comGen, comMade, comJob, comMem>>

-----------------------------------------------------------------------------
(* The world: ComfyUI, the library, and a restart of the program.          *)
RemoteEnds ==
  /\ comRemote = "running"
  /\ comRemote' \in {"success", "failure"}
  /\ UNCHANGED <<comPlan, comDisk, comJob, comMem, comAct, comFaults>>

TextIsOverwritten ==    \* by another run, or deleted
  /\ comRemote = "success" /\ comPlan.text = "file"
  /\ comPlan' = [comPlan EXCEPT !.text = "lost"]
  /\ UNCHANGED <<comRemote, comDisk, comJob, comMem, comAct, comFaults>>

CardIsTrashed(m) ==
  /\ comGen[m] = "live"
  /\ comGen' = [comGen EXCEPT ![m] = "trashed"]
  /\ UNCHANGED <<comWorld, comRun, comMade, comRow, comTold, comJob, comMem, comAct, comFaults>>

CardIsRestored(m) ==
  /\ comGen[m] = "trashed"
  /\ comGen' = [comGen EXCEPT ![m] = "live"]
  /\ UNCHANGED <<comWorld, comRun, comMade, comRow, comTold, comJob, comMem, comAct, comFaults>>

RestartHub ==
  /\ ComFault
  /\ comRun.state # "none"
  /\ comJob' = [w \in Workers |-> "none"]
  /\ comMem' = [w \in Workers |-> NoMem]
  /\ comAct' = [a \in Actors |-> NoAct]
  /\ comRow' = Restored(comRow)
  /\ UNCHANGED <<comWorld, comRun, comGen, comMade, comTold>>

-----------------------------------------------------------------------------
WorkStep(w) ==
  \/ SeeSuccess(w) \/ SeeFailure(w) \/ NotReady(w) \/ Detail(w)
  \/ List(w) \/ Note(w) \/ ReadTexts(w) \/ ClearUnread(w) \/ Load(w) \/ NoteLoaded(w)
  \/ CloseRun(w) \/ WorkFails(w)
  \/ Fail(w) \/ FailRead(w) \/ FailSettle(w) \/ FailAck(w) \/ WorkEnds(w)
FirstRun ==
  ThreadStarts \/ BeginRun \/ Admit \/ Submit \/ Track \/ SubmitFails
Saving(a) ==
  SaveRead(a) \/ SaveMark(a) \/ SaveItem(a) \/ SaveSettle(a) \/ SaveAck(a)
Serve(q) ==
  \/ ReadJobs(q) \/ ReadJournal(q) \/ Move(q) \/ Reconcile(q) \/ Tell(q)
  \/ Resolve(q) \/ acknowledge(q)
  \/ CollectRead(q) \/ CollectJobs(q) \/ Collect(q)
  \/ DismissRead(q) \/ DismissJobs(q) \/ Dismiss(q)
World ==
  \/ RemoteEnds \/ TextIsOverwritten \/ RestartHub
  \/ \E m \in Media : CardIsTrashed(m) \/ CardIsRestored(m)
  \/ \E w \in Workers : Sweep(w)

ComNext ==
  \/ Start \/ FirstRun \/ World
  \/ \E w \in Workers : WorkStep(w)
  \/ \E a \in Actors : Saving(a)
  \/ \E q \in Requests : Arrive(q) \/ Serve(q)

(* Threads go on, a wait for ComfyUI ends after half an hour at the        *)
(* latest, and the page of a run in progress asks for it again and again.  *)
ComFairness ==
  /\ WF_comVars(FirstRun)
  /\ \A w \in Workers : WF_comVars(WorkStep(w))
  /\ \A a \in Actors : WF_comVars(Saving(a))
  /\ \A q \in Requests : WF_comVars(Serve(q)) /\ WF_comVars(Arrive(q))

ComSpec == ComInit /\ [][ComNext]_comVars /\ ComFairness

-----------------------------------------------------------------------------
(* Properties.                                                             *)

(* A run is called saved only when everything it produced is accounted     *)
(* for: a card of its own for every image and video, and the text it       *)
(* wrote, unless nobody can read it any more (isRunFullySaved,             *)
(* _reconcile_canvas_runs).                                                *)
SavedIsWhole ==
  comRun.state = "saved" =>
    /\ \A m \in comPlan.media : Linked(m)
    /\ comPlan.text \in {"history", "file"} => comRun.out["text"] = "text"

(* An output makes one card, whoever saves it and however often, and one   *)
(* that the user deleted is not made again (linked_output).                *)
OneCardEach == \A m \in Media : comMade[m] <= 1

(* The page acknowledges what it was shown: nothing of a receipt moves     *)
(* without its revision (acknowledge).  From then on, as after a           *)
(* dismissal, the receipt stays as it is and no card is made for it by     *)
(* whoever was still at work.                                              *)
SettledStands ==
  [][/\ comRun.state # "linked" /\ comRun'.state = "linked" => ~comTold.changed
     /\ comRun.state \in Settled =>
          /\ comRun'.state \in {comRun.state, "linked"}
          /\ comRun'.out = comRun.out
          /\ comMade' = comMade]_comVars

(* Once ComfyUI's number for the run is in the journal, the row goes only  *)
(* when there is nothing left to fetch with it, or when the user puts the  *)
(* run away (_ack_canvas_journal, _bootstrap_locked).                      *)
NothingToFetch ==
  \/ comRemote = "failure"
  \/ isRunFullySaved(comRun)
  \/ comPlan.media = {} /\ comPlan.text \in {"none", "lost"}
EvidenceIsKept ==
  [][comRow.prompt /\ ~comRow'.prompt =>
       NothingToFetch \/ comRun'.state \in Settled]_comVars

(* No run is shown as in progress for ever (_reconcile_canvas_runs).       *)
RunIsDecided ==
  comRun.state \in {"accepted", "running", "saving"} ~>
    comRun.state \notin {"accepted", "running", "saving"}
=============================================================================
