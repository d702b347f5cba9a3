---------------------------- MODULE ComfyRun_proofs ----------------------------
(*****************************************************************************)
(* What is proved of a Comfy run, for any number of outputs, requests,       *)
(* second fetches and faults: a run that is called saved has a card of its   *)
(* own for everything it made, an output makes one card, a receipt that was  *)
(* put away stands, and the journal row with ComfyUI's number for the run    *)
(* goes only when nothing is left to fetch with it.                          *)
(*****************************************************************************)
EXTENDS ComfyRun, TLAPS

-----------------------------------------------------------------------------
(* The inductive invariant.  Every actor works with a copy of the journal  *)
(* row that may be long out of date, so what a copy tells is stated of any *)
(* row, against truths that no step takes back.                            *)

IsSettled == comRun.state \in Settled
TextIsKept == comRun.out["text"] = "text"
FullySaved == isRunFullySaved(comRun)
Fetched == {"ready", "saved", "deleted"}
Ready == {m \in Media : comRun.out[m] \in Fetched}

(* Steps of a worker: before it knows the number of the run, while it      *)
(* looks for outputs, with a list of them, with the texts read, and while  *)
(* it saves.                                                               *)
First == {"staged", "begin", "admit"}
Early == First \cup {"submit", "track"}
Loading == {"clear", "load", "loaded"}
Listing == {"note", "read"} \cup Loading
Working == {"wait", "look", "detail", "list"} \cup Listing
Keeping == {"saveRead", "saveMark", "save", "saveSettle", "saveAck"}
Judging == {"jobs", "journal", "move", "settle"}

(* The run has no number at ComfyUI that the program knows, and gets none. *)
Numbered == comRow.prompt \/ \E w \in Workers : comMem[w].row.prompt
NeverNumbered ==
  ~Numbered /\ comAct[0].pc \notin Early /\ comRun.state # "none"

(* Nothing is left to fetch, or the run was put away: the row may go.      *)
NothingRemains ==
  NothingToFetch \/ NeverNumbered \/ IsSettled

(* What holds for good once it holds.                                      *)
Truths ==
  {x \in {"textSafe", "listed", "failure", "unnumbered", "done", "settled", "any", "whole"} :
     \/ x = "textSafe" /\ (TextIsKept \/ IsSettled)
     \/ x = "listed" /\ (comRun.enum \/ IsSettled)
     \/ x = "failure" /\ comRemote = "failure"
     \/ x = "unnumbered" /\ NeverNumbered
     \/ x = "done" /\ NothingRemains
     \/ x = "settled" /\ IsSettled
     \/ x = "any" /\ Outputs(comRun) # {}
     \/ x = "whole" /\ (FullySaved \/ IsSettled)}

(* What a copy of the journal row tells of the run.                        *)
RowTells(row, plan, truths) ==
  /\ row.known = (IF row.enum THEN plan.media ELSE {})
  /\ row.down \cup row.gone \subseteq row.known
  /\ row.down \cap row.gone = {}
  /\ row.enum /\ ~row.unread /\ plan.text = "file" => "textSafe" \in truths
  /\ row.down # {} /\ plan.text = "history" => "textSafe" \in truths
  /\ row.textOnly => /\ row.enum /\ row.known = {}
                     /\ {"textSafe", "listed"} \subseteq truths
  /\ row.term = "failure" => "failure" \in truths
  /\ row.prompt => row.phase \notin {"none", "submitting", "not_submitted"}

RowIsNumbered(row, truths) ==
  /\ row.phase \notin {"none", "submitting", "not_submitted", "unknown"} => row.prompt
  /\ row.phase = "not_submitted" => "unnumbered" \in truths

(* What an actor carries.                                                  *)
CarriedTells(act, truths, ready) ==
  /\ act.st \in Settled => "settled" \in truths
  /\ act.st = "saved" => "whole" \in truths
  /\ act.st = "failed" => truths \cap {"done", "any"} # {}
  /\ act.drop => "done" \in truths
  /\ act.pc \in {"saveMark", "save"} => act.todo \subseteq ready
  /\ act.op = "fail" /\ act.pc \in Keeping \cup {"failSettle"} =>
       act.st \in {"needs_collect", "failed", "unknown"}
  /\ act.pc = "failSettle" => act.op = "fail"
  /\ act.pc \in Judging \cup {"op", "tell"} => act.op = "none"
  /\ act.pc \in Judging => act.st # "none"
  /\ act.pc \in {"move", "settle"} /\ act.row.phase = "not_submitted" =>
       "unnumbered" \in truths
  /\ act.pc \in {"collectJobs", "collect"} => act.row.seq < MaxCollects

(* A worker with a list of outputs has what the plan has of them.          *)
ListTells(act, row, plan, truths) ==
  /\ act.pc = "list" => act.full \/ row.known # {}
  /\ act.pc \in Listing =>
       /\ row.enum /\ act.todo \subseteq row.known \ row.gone
       /\ plan.text = "history" => act.txt \/ (row.known # {} /\ act.todo \subseteq row.down)
       /\ act.txt => plan.text # "none"
  /\ act.pc \in Loading =>
       /\ act.txt => "textSafe" \in truths
       /\ ~act.miss => /\ "listed" \in truths
                       /\ plan.text = "file" => "textSafe" \in truths
  /\ act.pc = "clear" => ~act.miss

WorkTells(act, row, truths) ==
  /\ act.pc \in Working => row.prompt
  /\ act.pc \in Early \cup Working => act.op = "none"
  /\ act.pc \in Keeping => row.prompt \/ act.op = "fail"
  /\ act.pc = "fail" => row.prompt \/ row.phase \in {"unknown", "not_submitted"}
  /\ act.pc \in {"fail", "failRead"} /\ row = NoRow => "unnumbered" \in truths
  /\ ~act.full => act.pc \in {"list"} \cup Listing

RowsTell ==
  /\ RowTells(comRow, comPlan, Truths) /\ RowIsNumbered(comRow, Truths)
  /\ \A w \in Workers : /\ RowTells(comMem[w].row, comPlan, Truths)
                        /\ RowIsNumbered(comMem[w].row, Truths)

ActsTell ==
  /\ \A a \in Actors : /\ RowTells(comAct[a].row, comPlan, Truths)
                       /\ CarriedTells(comAct[a], Truths, Ready)
  /\ \A w \in Workers : /\ ListTells(comAct[w], comMem[w].row, comPlan, Truths)
                        /\ WorkTells(comAct[w], comMem[w].row, Truths)

(* What the receipt tells of the run, and its state of the receipt.        *)
OutsTell ==
  /\ comRun.enum => comPlan.media \subseteq Outputs(comRun)
  /\ Outputs(comRun) \subseteq comPlan.media \cup {"text"}
  /\ comRun.out["text"] \in {"none", "text"}
  /\ \A m \in Media : comRun.out[m] # "text"
  /\ comRun.enum /\ comPlan.text = "file" => TextIsKept
  /\ comRun.enum /\ comPlan.media = {} /\ comPlan.text = "history" => TextIsKept
  /\ Ready # {} /\ comPlan.text = "history" => TextIsKept
  /\ \A m \in Media : Linked(m) <=> comRun.out[m] \in {"saved", "deleted"}

StateTells ==
  /\ comRun.state = "saved" => FullySaved
  /\ comRun.state = "failed" => Truths \cap {"done", "any"} # {}

(* The first worker starts with nothing, and knows no number until it      *)
(* tracks the run; no worker of a number still to come is at work.         *)
WorkBegins ==
  /\ comRun.state = "none" => /\ comRow = NoRow
                              /\ \A a \in Actors : comAct[a] = NoAct
                              /\ \A w \in Workers : comMem[w] = NoMem
  /\ comRun.state = "none" \/ comAct[0].pc \in First \cup {"submit"} => comRemote = "none"
  /\ comAct[0].pc \in First => comRow = NoRow /\ \A w \in Workers \ {0} : comAct[w] = NoAct
  /\ comAct[0].pc \in Early => ~Numbered
  /\ comRow # NoRow => \A w \in Workers : w > comRow.seq => comAct[w] = NoAct

CardsAreCounted == \A m \in Media : comMade[m] = (IF comGen[m] = "none" THEN 0 ELSE 1)

(* Nothing of a receipt that the page may acknowledge moves untold.        *)
ChangeIsTold == comRun.state # "linked" /\ comTold.changed => comTold.bumped

JobStates == {"none", "active", "ended"}
Steps ==
  {"off", "end", "fail", "failRead", "failSettle", "failAck", "op", "tell",
   "collectJobs", "collect", "dismissJobs", "dismiss"}
    \cup Early \cup Working \cup Keeping \cup Judging
Acts == [pc : Steps, op : {"none", "fail"}, st : RunStates, any : BOOLEAN,
         jobs : [Workers -> JobStates], row : Rows, todo : SUBSET Media,
         full : BOOLEAN, txt : BOOLEAN, miss : BOOLEAN, drop : BOOLEAN, bad : BOOLEAN]
ComTypes == ComTypeOK /\ comAct \in [Actors -> Acts]

ComInv ==
  /\ ComTypes /\ OutsTell /\ StateTells /\ RowsTell /\ ActsTell /\ WorkBegins
  /\ CardsAreCounted /\ ChangeIsTold

-----------------------------------------------------------------------------
(*****************************************************************************)
(* What a copy tells, it tells for good.                                     *)
(*****************************************************************************)

\* The plan of the run only loses a text file that nobody has read.
Later(plan, after) ==
  /\ after.media = plan.media
  /\ after.text = plan.text \/ (plan.text = "file" /\ after.text = "lost")

\* A row tells no less later.
LEMMA RowStays ==
  ASSUME NEW row, NEW plan, NEW after, NEW truths, NEW more,
         RowTells(row, plan, truths), Later(plan, after), truths \subseteq more
  PROVE  RowTells(row, after, more)
BY DEF RowTells, Later

LEMMA RowStaysNumbered ==
  ASSUME NEW row, NEW truths, NEW more,
         RowIsNumbered(row, truths), truths \subseteq more
  PROVE  RowIsNumbered(row, more)
BY DEF RowIsNumbered

LEMMA CarriedStays ==
  ASSUME NEW act, NEW truths, NEW more, NEW ready, NEW wider,
         CarriedTells(act, truths, ready), truths \subseteq more, ready \subseteq wider
  PROVE  CarriedTells(act, more, wider)
BY DEF CarriedTells

LEMMA ListStays ==
  ASSUME NEW act, NEW row, NEW plan, NEW after, NEW truths, NEW more,
         ListTells(act, row, plan, truths), Later(plan, after), truths \subseteq more
  PROVE  ListTells(act, row, after, more)
BY DEF ListTells, Later

LEMMA WorkStays ==
  ASSUME NEW act, NEW row, NEW truths, NEW more,
         WorkTells(act, row, truths), truths \subseteq more
  PROVE  WorkTells(act, row, more)
BY DEF WorkTells

\* The step of an actor that carries nothing tells nothing.
LEMMA NothingCarried ==
  ASSUME NEW act, NEW truths, NEW ready, act.st \notin Settled \cup {"saved", "failed"},
         ~act.drop, act.op = "none" \/ act.pc \notin Keeping \cup {"failSettle", "op", "tell"},
         act.pc \notin {"saveMark", "save", "failSettle", "collectJobs", "collect"} \cup Judging
  PROVE  CarriedTells(act, truths, ready)
BY DEF CarriedTells, Judging

\* The empty row, and an actor at rest.
LEMMA NoRowTells ==
  ASSUME NEW plan, NEW truths
  PROVE  RowTells(NoRow, plan, truths) /\ RowIsNumbered(NoRow, truths) /\ NoRow \in Rows
BY ComfyAssumption DEF RowTells, RowIsNumbered, NoRow, Rows, Phases, Workers

LEMMA NoActTells ==
  ASSUME NEW plan, NEW truths, NEW ready, NEW row
  PROVE  /\ NoAct \in Acts /\ CarriedTells(NoAct, truths, ready)
         /\ NoAct.row = NoRow
         /\ ListTells(NoAct, row, plan, truths) /\ WorkTells(NoAct, row, truths)
<1>1. NoAct \in Acts
  <2>1. NoRow \in Rows
    BY NoRowTells
  <2>2. [w \in Workers |-> "none"] \in [Workers -> JobStates]
    BY DEF JobStates
  <2>. QED
    BY <2>1, <2>2 DEF NoAct, Acts, RunStates, Steps
<1>2. CarriedTells(NoAct, truths, ready)
  BY DEF CarriedTells, NoAct, Judging, Settled, Keeping
<1>. QED
  BY <1>1, <1>2 DEF NoAct, ListTells, WorkTells, Listing, Loading, Working, Keeping

-----------------------------------------------------------------------------
(*****************************************************************************)
(* The receipt is only added to.                                             *)
(*****************************************************************************)

OutStates == {"none", "pending", "unavailable", "ready", "saved", "deleted", "text"}
Receipts == [state : RunStates, enum : BOOLEAN, out : [Outs -> OutStates]]
Tellings == [told : BOOLEAN, bumped : BOOLEAN, changed : BOOLEAN]

RunGrows ==
  /\ comRun' \in Receipts
  /\ comRun.state # "none" => comRun'.state # "none"
  /\ comRun.state \in Settled => comRun'.state \in Settled
  /\ comRun.enum => comRun'.enum
  /\ Outputs(comRun) \subseteq Outputs(comRun')
  /\ comRun.out["text"] = "text" => comRun'.out["text"] = "text"
  /\ Ready \subseteq Ready'
  /\ \A m \in Media : comGen[m] # "none" => comGen'[m] # "none"

\* The step that SettledStands allows.
PutAwayStands ==
  /\ comRun.state # "linked" /\ comRun'.state = "linked" => ~comTold.changed
  /\ comRun.state \in Settled =>
       /\ comRun'.state \in {comRun.state, "linked"}
       /\ comRun'.out = comRun.out
       /\ comMade' = comMade

\* What the write of a receipt leaves.
Written ==
  /\ RunGrows /\ OutsTell' /\ ChangeIsTold' /\ PutAwayStands
  /\ comTold' \in Tellings

\* The media are not the text.
LEMMA OutsAreTwo == "text" \notin Media /\ Outs = Media \cup {"text"}
BY ComfyAssumption DEF Outs

\* A run that is fully saved stays so: its list is complete, and what is linked
\* stays linked.
LEMMA WholeStays ==
  ASSUME ComTypes, OutsTell, OutsTell', RunGrows, Later(comPlan, comPlan'), FullySaved
  PROVE  FullySaved'
<1>1. comRun.enum /\ comRun'.enum /\ Outputs(comRun) # {} /\ Outputs(comRun') # {}
  BY DEF FullySaved, isRunFullySaved, RunGrows, ComTypes, ComTypeOK, Outputs
<1>2. ASSUME NEW o \in Outputs(comRun')
      PROVE  \/ (o \in Media /\ comGen'[o] # "none") /\ comRun'.out[o] \in {"saved", "deleted"}
             \/ comRun'.out[o] = "text"
  <2>1. CASE o = "text"
    BY <1>2, <2>1 DEF OutsTell, Outputs
  <2>2. CASE o # "text"
    <3>1. o \in comPlan.media /\ o \in Media
      <4>1. Outputs(comRun') \subseteq comPlan'.media \cup {"text"}
        BY DEF OutsTell, Outputs
      <4>. QED
        BY <4>1, <1>2, <2>2, OutsAreTwo DEF Later, Outputs
    <3>2. o \in Outputs(comRun)
      BY <3>1, <1>1 DEF OutsTell
    <3>3. comGen[o] # "none"
      BY <3>1, <3>2 DEF FullySaved, isRunFullySaved, OutsTell, Linked
    <3>4. comGen'[o] # "none"
      BY <3>1, <3>3 DEF RunGrows
    <3>5. comRun'.out[o] \in {"saved", "deleted"}
      BY <3>1, <3>4 DEF OutsTell, Linked
    <3>. QED
      BY <3>1, <3>4, <3>5
  <2>. QED
    BY <2>1, <2>2
<1>3. Outputs(comRun)' = Outputs(comRun')
  BY DEF Outputs
<1>. QED
  BY <1>1, <1>2, <1>3 DEF FullySaved, isRunFullySaved, Linked

\* Nothing that holds for good is taken back.
LEMMA TruthsGrow ==
  ASSUME ComTypes, OutsTell, OutsTell', RunGrows, Later(comPlan, comPlan'),
         comRemote = "failure" => comRemote' = "failure",
         NeverNumbered => NeverNumbered'
  PROVE  Truths \subseteq Truths'
<1>1. FullySaved => FullySaved'
  BY WholeStays
<1>2. IsSettled => IsSettled'
  BY DEF RunGrows, IsSettled
<1>3. TextIsKept => TextIsKept'
  BY DEF RunGrows, TextIsKept
<1>4. Outputs(comRun) # {} => Outputs(comRun)' # {}
  BY DEF RunGrows, Outputs
<1>5. NothingRemains => NothingRemains'
  <2>1. NothingToFetch => NothingToFetch'
    BY <1>1 DEF NothingToFetch, Later, FullySaved
  <2>. QED
    BY <2>1, <1>2 DEF NothingRemains
<1>6. comRun.enum => comRun'.enum
  BY DEF RunGrows
<1> SUFFICES ASSUME NEW x \in Truths PROVE x \in Truths'
  OBVIOUS
<1>. QED
  BY <1>1, <1>2, <1>3, <1>4, <1>5, <1>6 DEF Truths

\* A step that leaves the receipt and the cards as they are.
LEMMA QuietRun ==
  ASSUME ComTypes, OutsTell, ChangeIsTold, Later(comPlan, comPlan'),
         UNCHANGED <<comRun, comGen, comMade, comTold>>
  PROVE  Written
<1>1. RunGrows
  BY DEF RunGrows, ComTypes, ComTypeOK, Ready, Receipts, OutStates
<1>2. OutsTell'
  BY DEF OutsTell, Later, Outputs, TextIsKept, Ready, Linked
<1>3. ChangeIsTold'
  BY DEF ChangeIsTold
<1>4. PutAwayStands
  BY DEF PutAwayStands
<1>. QED
  BY <1>1, <1>2, <1>3, <1>4 DEF Written, ComTypes, ComTypeOK, Tellings

\* A write that moves its revision with what it changes is told.
LEMMA WriteIsTold ==
  ASSUME ComTypes, ChangeIsTold, NEW run \in Receipts, NEW bump \in BOOLEAN, Write(run, bump),
         comRun.state = "linked" => run.state = "linked",
         (run.state # comRun.state \/ run.out # comRun.out) => bump \/ run.state = "linked"
  PROVE  ChangeIsTold' /\ comTold' \in Tellings /\ comRun' = run
<1>1. comTold \in Tellings
  BY DEF ComTypes, ComTypeOK, Tellings
<1>2. comTold' \in Tellings /\ comRun' = run
  BY <1>1 DEF Write, Tellings
<1>3. ChangeIsTold'
  BY <1>1, <1>2 DEF Write, Tellings, ChangeIsTold, Receipts
<1>. QED
  BY <1>2, <1>3

-----------------------------------------------------------------------------
(*****************************************************************************)
(* The writes of the receipt.                                                *)
(*****************************************************************************)

\* set_state: the outputs stay, and a run that was put away stays as it is.
LEMMA SetStateWrites ==
  ASSUME ComTypes, OutsTell, ChangeIsTold, NEW s \in RunStates \ {"none", "linked"}, set_state(s),
         UNCHANGED <<comPlan, comGen, comMade>>
  PROVE  /\ Written
         /\ comRun'.out = comRun.out /\ comRun'.enum = comRun.enum
         /\ comRun'.state \in {comRun.state, s}
         /\ comRun.state \notin Settled \cup {"none"} => comRun'.state = s
<1>1. CASE comRun.state \in Settled \cup {"none"}
  <2>1. UNCHANGED <<comRun, comGen, comMade, comTold>> /\ Later(comPlan, comPlan')
    BY <1>1 DEF set_state, Later
  <2>. QED
    BY <2>1, <1>1, QuietRun
<1>2. CASE comRun.state \notin Settled \cup {"none"}
  <2> DEFINE run == [comRun EXCEPT !.state = s]
  <2>1. comRun \in Receipts
    BY DEF ComTypes, ComTypeOK, Receipts, OutStates
  <2>2. run \in Receipts /\ run.state = s /\ run.out = comRun.out /\ run.enum = comRun.enum
    BY <2>1 DEF Receipts
  <2>3. Write(run, s # comRun.state) /\ comRun.state # "linked"
    BY <1>2 DEF set_state, Settled
  <2>4. ChangeIsTold' /\ comTold' \in Tellings /\ comRun' = run
    BY <2>2, <2>3, WriteIsTold
  <2> HIDE DEF run
  <2>5. RunGrows
    BY <2>2, <2>4, <1>2 DEF RunGrows, Outputs, Ready
  <2>6. OutsTell'
    BY <2>2, <2>4 DEF OutsTell, Outputs, TextIsKept, Ready, Linked
  <2>7. PutAwayStands
    BY <2>2, <2>4, <1>2 DEF PutAwayStands
  <2>. QED
    BY <2>2, <2>4, <2>5, <2>6, <2>7 DEF Written
<1>. QED
  BY <1>1, <1>2

\* What is recorded of a run: outputs of the plan, all of them when the list is
\* complete, and no text is missing then.
ItemsTell(items, enumerated, plan, truths) ==
  LET safe == "textSafe" \in truths \/ "text" \in DOMAIN items IN
  /\ DOMAIN items \subseteq plan.media \cup {"text"}
  /\ "text" \in DOMAIN items => items["text"] = "text"
  /\ \A o \in DOMAIN items \ {"text"} : items[o] \in {"pending", "unavailable", "ready"}
  /\ enumerated => plan.media \subseteq DOMAIN items
  /\ enumerated /\ plan.text = "file" => safe
  /\ enumerated /\ plan.media = {} /\ plan.text = "history" => safe
  /\ plan.text = "history" => safe \/ \A o \in DOMAIN items : items[o] # "ready"

\* record_outputs: what is linked or fetched stands, and nothing goes away.
LEMMA RecordWrites ==
  ASSUME ComTypes, OutsTell, ChangeIsTold, NEW items, NEW enumerated \in BOOLEAN,
         ItemsTell(items, enumerated, comPlan, Truths), record_outputs(items, enumerated),
         UNCHANGED <<comPlan, comGen, comMade>>
  PROVE  /\ Written
         /\ comRun'.state = comRun.state
         /\ comRun.state \notin Settled \cup {"none"} =>
              /\ enumerated => comRun'.enum
              /\ "text" \in DOMAIN items => comRun'.out["text"] = "text"
              /\ DOMAIN items # {} => Outputs(comRun') # {}
<1>1. CASE comRun.state \in Settled \cup {"none"}
  <2>1. UNCHANGED <<comRun, comGen, comMade, comTold>> /\ Later(comPlan, comPlan')
    BY <1>1 DEF record_outputs, Later
  <2>. QED
    BY <2>1, <1>1, QuietRun
<1>2. CASE comRun.state \notin Settled \cup {"none"}
  <2> DEFINE out == [o \in Outs |-> IF o \in DOMAIN items /\ ~Stands(o, items[o])
                                      THEN items[o] ELSE comRun.out[o]]
             run == [comRun EXCEPT !.out = out, !.enum = @ \/ enumerated]
             bump == out # comRun.out \/ (enumerated /\ ~comRun.enum)
  <2>1. comRun \in Receipts
    BY DEF ComTypes, ComTypeOK, Receipts, OutStates
  <2>2. comPlan.media \subseteq Media
    BY DEF ComTypes, ComTypeOK
  <2>3. \A o \in DOMAIN items : o \in Outs /\ items[o] \in OutStates \ {"none", "saved", "deleted"}
    BY <2>2, OutsAreTwo DEF ItemsTell, OutStates
  <2>4. out \in [Outs -> OutStates]
    BY <2>1, <2>3 DEF Receipts
  <2>5. run \in Receipts /\ run.state = comRun.state /\ run.out = out
        /\ run.enum = (comRun.enum \/ enumerated)
    BY <2>1, <2>4 DEF Receipts
  <2>6. Write(run, bump) /\ bump \in BOOLEAN
    BY <1>2 DEF record_outputs
  <2>7. ChangeIsTold' /\ comTold' \in Tellings /\ comRun' = run
    <3>1. (run.state # comRun.state \/ run.out # comRun.out) => bump
      BY <2>5
    <3>. QED
      BY <3>1, <2>5, <2>6, WriteIsTold
  <2>8. \A o \in Outs : comRun'.out[o] = IF o \in DOMAIN items /\ ~Stands(o, items[o])
                                           THEN items[o] ELSE comRun.out[o]
    BY <2>5, <2>7
  <2>9. comRun'.state = comRun.state /\ comRun'.enum = (comRun.enum \/ enumerated)
    BY <2>5, <2>7
  <2> HIDE DEF out, run, bump
  <2>10. "text" \in DOMAIN items => comRun'.out["text"] = "text"
    <3>1. "text" \in DOMAIN items => items["text"] = "text" /\ ~Stands("text", items["text"])
      BY OutsAreTwo DEF ItemsTell, Stands, Linked
    <3>. QED
      BY <3>1, <2>8, OutsAreTwo
  <2>11. "text" \notin DOMAIN items => comRun'.out["text"] = comRun.out["text"]
    BY <2>8, OutsAreTwo
  <2>12. \A m \in Media : comGen[m] # "none" => comRun'.out[m] = comRun.out[m]
    BY <2>8, OutsAreTwo DEF Stands, Linked
  <2>13. \A m \in Media : comGen[m] = "none" =>
            \/ comRun'.out[m] = comRun.out[m]
            \/ m \in DOMAIN items /\ comRun'.out[m] = items[m]
               /\ items[m] \in {"pending", "unavailable", "ready"}
               /\ (comRun.out[m] = "ready" => items[m] = "ready")
    BY <2>8, OutsAreTwo DEF Stands, Linked, ItemsTell
  <2>14. Outputs(comRun) \subseteq Outputs(comRun')
    BY <2>10, <2>11, <2>12, <2>13, OutsAreTwo DEF Outputs
  <2>15. DOMAIN items \subseteq Outputs(comRun')
    <3> SUFFICES ASSUME NEW o \in DOMAIN items PROVE o \in Outs /\ comRun'.out[o] # "none"
      BY DEF Outputs
    <3>1. o \in Outs /\ items[o] # "none"
      BY <2>3
    <3>2. CASE comRun.out[o] # "none"
      BY <3>1, <3>2, <2>14 DEF Outputs
    <3>3. CASE comRun.out[o] = "none"
      <4>1. ~Stands(o, items[o])
        BY <3>3 DEF Stands, Linked, OutsTell
      <4>. QED
        BY <4>1, <3>1, <2>8
    <3>. QED
      BY <3>2, <3>3
  <2>16. Ready \subseteq Ready'
    <3> SUFFICES ASSUME NEW m \in Media, comRun.out[m] \in Fetched PROVE comRun'.out[m] \in Fetched
      BY DEF Ready
    <3>1. comGen[m] = "none" => comRun.out[m] = "ready"
      BY DEF OutsTell, Linked, Fetched
    <3>. QED
      BY <3>1, <2>12, <2>13 DEF Fetched
  <2>17. RunGrows
    BY <2>5, <2>7, <2>9, <2>10, <2>11, <2>14, <2>16, <1>2 DEF RunGrows
  <2>18. OutsTell'
    <3>1. Outputs(comRun') \subseteq comPlan.media \cup {"text"}
      <4> SUFFICES ASSUME NEW o \in Outputs(comRun'), o # "text" PROVE o \in comPlan.media
        OBVIOUS
      <4>1. o \in Media
        BY OutsAreTwo DEF Outputs
      <4>2. comRun'.out[o] = comRun.out[o] \/ o \in DOMAIN items
        BY <4>1, <2>12, <2>13
      <4>. QED
        BY <4>1, <4>2 DEF OutsTell, ItemsTell, Outputs
    <3>2. comRun'.enum => comPlan.media \subseteq Outputs(comRun')
      BY <2>9, <2>14, <2>15 DEF OutsTell, ItemsTell
    <3>3. comRun'.out["text"] \in {"none", "text"}
      BY <2>10, <2>11 DEF OutsTell
    <3>4. \A m \in Media : comRun'.out[m] # "text"
      BY <2>12, <2>13 DEF OutsTell
    <3>5. ("textSafe" \in Truths \/ "text" \in DOMAIN items) => comRun'.out["text"] = "text"
      BY <2>10, <2>11, <1>2 DEF Truths, TextIsKept, IsSettled
    <3>6. comRun.out["text"] = "text" => comRun'.out["text"] = "text"
      BY <2>10, <2>11
    <3>7. comRun'.enum /\ comPlan.text = "file" => comRun'.out["text"] = "text"
      BY <3>5, <3>6, <2>9 DEF OutsTell, ItemsTell, TextIsKept
    <3>8. comRun'.enum /\ comPlan.media = {} /\ comPlan.text = "history" => comRun'.out["text"] = "text"
      BY <3>5, <3>6, <2>9 DEF OutsTell, ItemsTell, TextIsKept
    <3>9. Ready' # {} /\ comPlan.text = "history" => comRun'.out["text"] = "text"
      <4> SUFFICES ASSUME NEW m \in Media, comRun'.out[m] \in Fetched, comPlan.text = "history"
                   PROVE  comRun'.out["text"] = "text"
        BY DEF Ready
      <4>1. comRun.out[m] \in Fetched \/ (m \in DOMAIN items /\ items[m] = "ready")
        BY <2>12, <2>13 DEF Fetched
      <4>. QED
        BY <4>1, <3>5, <3>6 DEF OutsTell, ItemsTell, Ready, TextIsKept
    <3>10. \A m \in Media : Linked(m)' <=> comRun'.out[m] \in {"saved", "deleted"}
      BY <2>12, <2>13 DEF OutsTell, Linked
    <3>. QED
      BY <3>1, <3>2, <3>3, <3>4, <3>7, <3>8, <3>9, <3>10 DEF OutsTell, TextIsKept, Outputs
  <2>19. PutAwayStands
    BY <2>9, <1>2 DEF PutAwayStands, Settled
  <2>. QED
    BY <2>7, <2>9, <2>10, <2>15, <2>17, <2>18, <2>19 DEF Written
<1>. QED
  BY <1>1, <1>2

\* settle: what was deleted is noted, and the state is what the outputs say, or the
\* one to fall back to.
LEMMA SettleWrites ==
  ASSUME ComTypes, OutsTell, ChangeIsTold, NEW s \in RunStates \ {"none"}, settle(s),
         s \in Settled => comRun.state \in Settled,
         UNCHANGED <<comPlan, comGen, comMade>>
  PROVE  /\ Written
         /\ comRun.state \notin Settled \cup {"none"} => comRun'.state = Settlement(s)
         /\ comRun.state \in Settled \cup {"none"} => comRun'.state = comRun.state
         /\ Outputs(comRun') = Outputs(comRun)
<1> DEFINE run == AfterSettle(s)
<1>1. comRun \in Receipts
  BY DEF ComTypes, ComTypeOK, Receipts, OutStates
<1>2. Write(run, run # comRun)
  BY DEF settle
<1>3. CASE comRun.state \in Settled \cup {"none"}
  <2>1. run = comRun
    BY <1>3 DEF AfterSettle
  <2>2. ChangeIsTold' /\ comTold' \in Tellings /\ comRun' = comRun
    BY <2>1, <1>1, <1>2, WriteIsTold
  <2>3. RunGrows
    BY <2>2, <1>1 DEF RunGrows, Ready
  <2>4. OutsTell'
    BY <2>2 DEF OutsTell, Outputs, TextIsKept, Ready, Linked
  <2>. QED
    BY <2>2, <2>3, <2>4, <1>3 DEF Written, PutAwayStands
<1>4. CASE comRun.state \notin Settled \cup {"none"}
  <2> DEFINE out == [o \in Outs |-> IF o \in Deleted THEN "deleted" ELSE comRun.out[o]]
  <2>1. run = [comRun EXCEPT !.state = Settlement(s), !.out = out]
    BY <1>4 DEF AfterSettle
  <2>2. Settlement(s) \in RunStates \ {"none"} /\ (Settlement(s) \in Settled => comRun.state \in Settled)
    BY DEF Settlement, RunStates, Settled
  <2>3. out \in [Outs -> OutStates]
    BY <1>1 DEF Receipts, OutStates
  <2>4. run \in Receipts /\ run.state = Settlement(s) /\ run.out = out /\ run.enum = comRun.enum
    BY <2>1, <2>2, <2>3, <1>1 DEF Receipts
  <2>5. ChangeIsTold' /\ comTold' \in Tellings /\ comRun' = run
    <3>1. comRun.state # "linked" /\ (run.state # comRun.state \/ run.out # comRun.out => run # comRun)
      BY <1>4 DEF Settled
    <3>. QED
      BY <3>1, <2>4, <1>2, WriteIsTold
  <2>6. \A o \in Outs : comRun'.out[o] = IF o \in Deleted THEN "deleted" ELSE comRun.out[o]
    BY <2>4, <2>5
  <2>7. comRun' \in Receipts /\ comRun'.state = Settlement(s) /\ comRun'.enum = comRun.enum
    BY <2>4, <2>5
  <2> HIDE DEF run, out
  <2>8. \A m \in Media : comRun'.out[m] = comRun.out[m]
          \/ (comRun'.out[m] = "deleted" /\ comRun.out[m] = "saved" /\ comGen[m] # "none")
    BY <2>6, OutsAreTwo DEF Deleted, OutsTell, Linked
  <2>9. comRun'.out["text"] = comRun.out["text"]
    BY <2>6, OutsAreTwo DEF Deleted
  <2>10. Outputs(comRun') = Outputs(comRun)
    BY <2>8, <2>9, OutsAreTwo DEF Outputs
  <2>11. Ready' = Ready
    BY <2>8 DEF Ready, Fetched
  <2>12. RunGrows
    BY <2>2, <2>7, <2>9, <2>10, <2>11, <1>4 DEF RunGrows
  <2>13. OutsTell'
    <3>1. Outputs(comRun)' = Outputs(comRun)
      BY <2>10 DEF Outputs
    <3>2. \A m \in Media : comRun'.out[m] # "text"
      BY <2>8 DEF OutsTell
    <3>3. \A m \in Media : Linked(m)' <=> comRun'.out[m] \in {"saved", "deleted"}
      BY <2>8 DEF OutsTell, Linked
    <3>. QED
      BY <3>1, <3>2, <3>3, <2>7, <2>9, <2>11 DEF OutsTell, TextIsKept
  <2>14. PutAwayStands
    BY <2>2, <2>7, <1>4 DEF PutAwayStands, Settled
  <2>. QED
    BY <2>5, <2>7, <2>10, <2>12, <2>13, <2>14, <1>4 DEF Written
<1>. QED
  BY <1>3, <1>4

\* What settle leaves is true: a run called saved is whole, and one called failed
\* with nothing to show has nothing to fetch.
LEMMA SettledIsTrue ==
  ASSUME ComTypes, OutsTell, ChangeIsTold, StateTells, NEW s \in RunStates \ {"none"}, settle(s),
         UNCHANGED <<comPlan, comRemote, comGen, comMade>>,
         NeverNumbered => NeverNumbered',
         s \in Settled => "settled" \in Truths,
         s = "saved" => "whole" \in Truths,
         s = "failed" => Truths \cap {"done", "any"} # {}
  PROVE  /\ Written /\ StateTells' /\ Truths \subseteq Truths'
         /\ comRun.state # "none" => (RowIsDone(comRun') => "done" \in Truths')
<1>1. /\ Written
      /\ comRun.state \notin Settled \cup {"none"} => comRun'.state = Settlement(s)
      /\ comRun.state \in Settled \cup {"none"} => comRun'.state = comRun.state
      /\ Outputs(comRun') = Outputs(comRun)
  <2>1. s \in Settled => comRun.state \in Settled
    BY DEF Truths, IsSettled
  <2>. QED
    BY <2>1, SettleWrites
<1>2. Truths \subseteq Truths'
  BY <1>1, TruthsGrow DEF Later, Written
<1>3. FullySaved => FullySaved'
  BY <1>1, WholeStays DEF Later, Written
<1>4. StateTells'
  <2>1. CASE comRun.state \in Settled \cup {"none"}
    BY <2>1, <1>1 DEF StateTells, Settled
  <2>2. CASE comRun.state \notin Settled \cup {"none"}
    <3>1. comRun'.state = Settlement(s)
      BY <2>2, <1>1
    <3>2. "settled" \notin Truths /\ ~IsSettled
      BY <2>2 DEF Truths, IsSettled
    <3>3. comRun'.state = "saved" => FullySaved'
      BY <3>1, <3>2, <1>3 DEF Settlement, Truths, FullySaved
    <3>4. ASSUME comRun.enum, Outputs(comRun) = {} PROVE "done" \in Truths
      <4>1. comPlan.media = {}
        BY <3>4 DEF OutsTell
      <4>2. ~TextIsKept
        BY <3>4, OutsAreTwo DEF TextIsKept, Outputs
      <4>3. comPlan.text \in {"none", "lost"}
        BY <3>4, <4>1, <4>2 DEF OutsTell, ComTypes, ComTypeOK
      <4>. QED
        BY <4>1, <4>3 DEF Truths, NothingRemains, NothingToFetch
    <3>5. comRun'.state = "failed" => Truths \cap {"done", "any"} # {}
      BY <3>1, <3>4 DEF Settlement
    <3>. QED
      BY <3>3, <3>5, <1>2 DEF StateTells
  <2>. QED
    BY <2>1, <2>2
<1>5. comRun.state # "none" => (RowIsDone(comRun') => "done" \in Truths')
  <2> SUFFICES ASSUME RowIsDone(comRun') PROVE "done" \in Truths'
    OBVIOUS
  <2>1. CASE isRunFullySaved(comRun')
    <3>1. FullySaved'
      BY <2>1 DEF FullySaved, isRunFullySaved, Outputs, Linked
    <3>. QED
      BY <3>1 DEF Truths, NothingRemains, NothingToFetch, FullySaved
  <2>2. CASE comRun'.state = "failed" /\ Outputs(comRun') = {}
    BY <2>2, <1>4 DEF StateTells, Truths, Outputs
  <2>3. CASE comRun'.state = "linked"
    BY <2>3 DEF Truths, NothingRemains, IsSettled, Settled
  <2>. QED
    BY <2>1, <2>2, <2>3 DEF RowIsDone
<1>. QED
  BY <1>1, <1>2, <1>4, <1>5

\* SaveItem: the output that was fetched has its first card.
LEMMA SaveWrites ==
  ASSUME ComTypes, OutsTell, ChangeIsTold, NEW m \in Ready, comRun.state \notin Settled \cup {"none"},
         comGen' = [comGen EXCEPT ![m] = "live"], UNCHANGED comPlan,
         Write([comRun EXCEPT !.out[m] = "saved"], TRUE)
  PROVE  Written /\ comRun'.state = comRun.state
<1> DEFINE run == [comRun EXCEPT !.out[m] = "saved"]
<1>1. comRun \in Receipts /\ m \in Media /\ comRun.out[m] \in Fetched
  BY DEF ComTypes, ComTypeOK, Receipts, OutStates, Ready
<1>2. /\ run \in Receipts /\ run.state = comRun.state /\ run.enum = comRun.enum
      /\ \A o \in Outs : run.out[o] = IF o = m THEN "saved" ELSE comRun.out[o]
  BY <1>1, OutsAreTwo DEF Receipts, OutStates
<1>3. ChangeIsTold' /\ comTold' \in Tellings /\ comRun' = run
  BY <1>2, WriteIsTold
<1>4. \A n \in Media : comGen'[n] = IF n = m THEN "live" ELSE comGen[n]
  BY DEF ComTypes, ComTypeOK
<1> HIDE DEF run
<1>5. /\ comRun' \in Receipts /\ comRun'.state = comRun.state /\ comRun'.enum = comRun.enum
      /\ \A n \in Media : comRun'.out[n] = IF n = m THEN "saved" ELSE comRun.out[n]
      /\ comRun'.out["text"] = comRun.out["text"]
  BY <1>1, <1>2, <1>3, OutsAreTwo
<1>6. Outputs(comRun') = Outputs(comRun)
  BY <1>1, <1>5, OutsAreTwo DEF Outputs, Fetched
<1>7. Ready' = Ready
  BY <1>1, <1>5 DEF Ready, Fetched
<1>8. RunGrows
  BY <1>4, <1>5, <1>6, <1>7 DEF RunGrows
<1>9. OutsTell'
  <2>1. Outputs(comRun)' = Outputs(comRun)
    BY <1>6 DEF Outputs
  <2>2. \A n \in Media : comRun'.out[n] # "text"
    BY <1>5 DEF OutsTell
  <2>3. \A n \in Media : Linked(n)' <=> comRun'.out[n] \in {"saved", "deleted"}
    BY <1>4, <1>5 DEF OutsTell, Linked
  <2>. QED
    BY <2>1, <2>2, <2>3, <1>5, <1>7 DEF OutsTell, TextIsKept
<1>10. PutAwayStands
  BY <1>5 DEF PutAwayStands, Settled
<1>. QED
  BY <1>3, <1>5, <1>8, <1>9, <1>10 DEF Written

\* acknowledge: the page was told everything that it puts away.
LEMMA AcknowledgeWrites ==
  ASSUME ComTypes, OutsTell, ChangeIsTold, MayAcknowledge,
         Write([comRun EXCEPT !.state = "linked"], FALSE),
         UNCHANGED <<comPlan, comGen, comMade>>
  PROVE  Written /\ comRun'.state = "linked"
<1> DEFINE run == [comRun EXCEPT !.state = "linked"]
<1>1. comRun \in Receipts /\ comTold \in Tellings
  BY DEF ComTypes, ComTypeOK, Receipts, OutStates, Tellings
<1>2. run \in Receipts /\ run.state = "linked" /\ run.enum = comRun.enum /\ run.out = comRun.out
  BY <1>1 DEF Receipts, RunStates
<1>3. ChangeIsTold' /\ comTold' \in Tellings /\ comRun' = run
  BY <1>2, WriteIsTold
<1> HIDE DEF run
<1>4. RunGrows
  BY <1>2, <1>3 DEF RunGrows, Outputs, Ready, Settled
<1>5. OutsTell'
  BY <1>2, <1>3 DEF OutsTell, Outputs, TextIsKept, Ready, Linked
<1>6. PutAwayStands
  <2>1. comRun.state # "linked" => ~comTold.changed
    BY <1>1 DEF MayAcknowledge, ChangeIsTold, Tellings
  <2>. QED
    BY <2>1, <1>2, <1>3 DEF PutAwayStands
<1>. QED
  BY <1>2, <1>3, <1>4, <1>5, <1>6 DEF Written

-----------------------------------------------------------------------------
(*****************************************************************************)
(* The steps.                                                                *)
(*****************************************************************************)

\* The row with the number of the run goes when nothing is left to fetch with it.
EvidenceStands ==
  comRow.prompt /\ ~comRow'.prompt => NothingToFetch \/ comRun'.state \in Settled

ComMoves == ComInv' /\ PutAwayStands /\ EvidenceStands

\* A step of the actor a leaves the others, and the rows of the other workers.
OthersStay(a) ==
  /\ \A b \in Actors \ {a} : comAct'[b] = comAct[b]
  /\ \A w \in Workers \ {a} : comMem'[w] = comMem[w]

StepTypes ==
  /\ comPlan' \in [media : SUBSET Media, text : {"none", "history", "file", "lost"}]
  /\ comRemote' \in {"none", "running", "success", "failure"}
  /\ comGen' \in [Media -> {"none", "live", "trashed"}]
  /\ comMade' \in [Media -> Nat]
  /\ comRow' \in Rows
  /\ comJob' \in [Workers -> JobStates]
  /\ comMem' \in [Workers -> [row : Rows, kept : Phases]]
  /\ comAct' \in [Actors -> Acts]
  /\ comFaults' \in 0..MaxComFaults

\* Where the pieces of a step by the actor a meet.
LEMMA StepTells ==
  ASSUME ComInv, NEW a \in Actors, StepTypes, Written, StateTells',
         Later(comPlan, comPlan'), Truths \subseteq Truths', OthersStay(a),
         RowTells(comRow', comPlan', Truths'), RowIsNumbered(comRow', Truths'),
         RowTells(comAct'[a].row, comPlan', Truths'), CarriedTells(comAct'[a], Truths', Ready'),
         a \in Workers =>
           /\ RowTells(comMem'[a].row, comPlan', Truths')
           /\ RowIsNumbered(comMem'[a].row, Truths')
           /\ ListTells(comAct'[a], comMem'[a].row, comPlan', Truths')
           /\ WorkTells(comAct'[a], comMem'[a].row, Truths'),
         CardsAreCounted', WorkBegins', EvidenceStands
  PROVE  ComMoves
<1>1. ComTypes'
  <2>1. comRow'.down \cup comRow'.gone \subseteq comRow'.known /\ comRow'.down \cap comRow'.gone = {}
    BY DEF RowTells
  <2>2. \A b \in Actors : comAct'[b].row \in Rows /\ comAct'[b].todo \subseteq Media
    BY DEF StepTypes, Acts
  <2>. QED
    BY <2>1, <2>2 DEF StepTypes, ComTypes, ComTypeOK, Written, RunGrows, Receipts, OutStates,
       Tellings, JobStates
<1>2. Ready \subseteq Ready'
  BY DEF Written, RunGrows
<1>3. RowsTell'
  <2> SUFFICES ASSUME NEW w \in Workers
               PROVE  /\ RowTells(comMem'[w].row, comPlan', Truths')
                      /\ RowIsNumbered(comMem'[w].row, Truths')
    BY DEF RowsTell
  <2>1. CASE w = a
    BY <2>1
  <2>2. CASE w # a
    BY <2>2, RowStays, RowStaysNumbered DEF ComInv, RowsTell, OthersStay
  <2>. QED
    BY <2>1, <2>2
<1>4. ActsTell'
  <2>1. ASSUME NEW b \in Actors
        PROVE  RowTells(comAct'[b].row, comPlan', Truths') /\ CarriedTells(comAct'[b], Truths', Ready')
    <3>1. CASE b = a
      BY <3>1
    <3>2. CASE b # a
      <4>1. comAct'[b] = comAct[b] /\ RowTells(comAct[b].row, comPlan, Truths)
            /\ CarriedTells(comAct[b], Truths, Ready)
        BY <3>2 DEF ComInv, ActsTell, OthersStay
      <4>. QED
        BY <4>1, <1>2, RowStays, CarriedStays
    <3>. QED
      BY <3>1, <3>2
  <2>2. ASSUME NEW w \in Workers
        PROVE  /\ ListTells(comAct'[w], comMem'[w].row, comPlan', Truths')
               /\ WorkTells(comAct'[w], comMem'[w].row, Truths')
    <3>1. CASE w = a
      BY <3>1
    <3>2. CASE w # a
      <4>1. /\ comAct'[w] = comAct[w] /\ comMem'[w] = comMem[w]
            /\ ListTells(comAct[w], comMem[w].row, comPlan, Truths)
            /\ WorkTells(comAct[w], comMem[w].row, Truths)
        BY <3>2 DEF ComInv, ActsTell, OthersStay, Actors
      <4>. QED
        BY <4>1, ListStays, WorkStays
    <3>. QED
      BY <3>1, <3>2
  <2>. QED
    BY <2>1, <2>2 DEF ActsTell
<1>. QED
  BY <1>1, <1>3, <1>4 DEF ComMoves, ComInv, Written

\* After the first steps of the first worker, nothing begins any more.
LEMMA BeginsStay ==
  ASSUME ComTypes, WorkBegins, comRun.state # "none", comRun'.state # "none",
         \A w \in Workers : comAct[w] = NoAct => comAct'[w] = NoAct,
         comAct'[0].pc \in Early => comAct'[0] = comAct[0],
         comRemote' = comRemote,
         \/ comRow' \in {comRow, NoRow}
         \/ comRow # NoRow /\ comRow'.seq = comRow.seq,
         Numbered' => Numbered \/ (comAct[0].pc \in Early /\ comAct'[0].pc \notin Early)
  PROVE  WorkBegins' /\ (NeverNumbered => NeverNumbered')
<1>1. 0 \in Workers /\ 0 \in Actors
  BY ComfyAssumption DEF Workers, Actors
<1>2. WorkBegins'
  <2>1. comAct'[0].pc \in First \cup {"submit"} => comRemote' = "none"
    BY DEF WorkBegins, Early
  <2>2. comAct'[0].pc \in First => comRow' = NoRow /\ \A w \in Workers \ {0} : comAct'[w] = NoAct
    BY DEF WorkBegins, Early
  <2>3. comAct'[0].pc \in Early => ~Numbered'
    BY DEF WorkBegins
  <2>4. comRow' # NoRow => \A w \in Workers : w > comRow'.seq => comAct'[w] = NoAct
    BY DEF WorkBegins
  <2>. QED
    BY <2>1, <2>2, <2>3, <2>4 DEF WorkBegins
<1>3. NeverNumbered => NeverNumbered'
  BY DEF NeverNumbered
<1>. QED
  BY <1>2, <1>3

\* An actor that is at work has a run.
LEMMA Active ==
  ASSUME ComInv, NEW a \in Actors, comAct[a].pc # "off"
  PROVE  /\ comRun.state # "none" /\ comAct[a] # NoAct /\ comAct[a] \in Acts
         /\ RowTells(comAct[a].row, comPlan, Truths) /\ CarriedTells(comAct[a], Truths, Ready)
         /\ a \in Workers =>
              /\ ListTells(comAct[a], comMem[a].row, comPlan, Truths)
              /\ WorkTells(comAct[a], comMem[a].row, Truths)
              /\ RowTells(comMem[a].row, comPlan, Truths)
              /\ RowIsNumbered(comMem[a].row, Truths)
              /\ comMem[a].row \in Rows
<1>1. comAct[a] # NoAct
  BY DEF NoAct
<1>2. comRun.state # "none"
  BY <1>1 DEF ComInv, WorkBegins
<1>. QED
  BY <1>1, <1>2 DEF ComInv, ActsTell, RowsTell, ComTypes, ComTypeOK

\* A failure is counted up to its bound.
LEMMA FaultCounts ==
  ASSUME ComInv, ComFault \/ UNCHANGED comFaults
  PROVE  comFaults' \in 0..MaxComFaults
BY ComfyAssumption DEF ComInv, ComTypes, ComTypeOK, ComFault

\* Nothing is numbered anew by an actor that is past the first steps.
LEMMA ActBegins ==
  ASSUME ComInv, NEW a \in Actors, NEW act, comAct' = [comAct EXCEPT ![a] = act],
         comRun.state # "none", comRun'.state # "none", act.pc \notin Early,
         a \in Workers => comAct[a].pc # "off",
         UNCHANGED <<comRemote, comRow, comMem>>
  PROVE  WorkBegins' /\ (NeverNumbered => NeverNumbered')
<1>1. \A b \in Actors : comAct'[b] = IF b = a THEN act ELSE comAct[b]
  BY DEF ComInv, ComTypes
<1>2. 0 \in Actors
  BY ComfyAssumption DEF Workers, Actors
<1>3. comAct'[0].pc \in Early => comAct'[0] = comAct[0]
  BY <1>1, <1>2
<1>4. \A w \in Workers : comAct[w] = NoAct => comAct'[w] = NoAct
  BY <1>1 DEF Actors, NoAct
<1>5. Numbered' => Numbered
  BY DEF Numbered
<1>. QED
  BY <1>3, <1>4, <1>5, BeginsStay DEF ComInv

\* An actor writes the receipt and goes on.
LEMMA WriteStep ==
  ASSUME ComInv, NEW a \in Actors, NEW act \in Acts, comAct' = [comAct EXCEPT ![a] = act],
         comRun.state # "none", act.pc \notin Early, a \in Workers => comAct[a].pc # "off",
         Written, StateTells', Truths \subseteq Truths',
         UNCHANGED <<comPlan, comRemote, comRow, comMem>>,
         comGen' \in [Media -> {"none", "live", "trashed"}], comMade' \in [Media -> Nat],
         CardsAreCounted',
         comJob' \in [Workers -> JobStates], comFaults' \in 0..MaxComFaults,
         RowTells(act.row, comPlan, Truths'), CarriedTells(act, Truths', Ready'),
         a \in Workers => /\ ListTells(act, comMem[a].row, comPlan, Truths')
                          /\ WorkTells(act, comMem[a].row, Truths')
  PROVE  ComMoves
<1>1. comAct' \in [Actors -> Acts] /\ comAct'[a] = act /\ OthersStay(a)
  BY DEF ComInv, ComTypes, OthersStay
<1>2. WorkBegins'
  BY ActBegins DEF Written, RunGrows
<1>3. Later(comPlan, comPlan')
  BY DEF Later
<1>4. StepTypes
  BY <1>1 DEF StepTypes, ComInv, ComTypes, ComTypeOK
<1>5. RowTells(comRow', comPlan', Truths') /\ RowIsNumbered(comRow', Truths')
  BY RowStays, RowStaysNumbered, <1>3 DEF ComInv, RowsTell
<1>6. a \in Workers => RowTells(comMem'[a].row, comPlan', Truths')
                       /\ RowIsNumbered(comMem'[a].row, Truths')
  BY RowStays, RowStaysNumbered, <1>3 DEF ComInv, RowsTell
<1>7. EvidenceStands
  BY DEF EvidenceStands
<1>. QED
  BY <1>1, <1>2, <1>3, <1>4, <1>5, <1>6, <1>7, StepTells

\* The state of the receipt stays true when only more is known.
LEMMA StateStaysTrue ==
  ASSUME ComTypes, StateTells, OutsTell, Written, Later(comPlan, comPlan'), Truths \subseteq Truths',
         comRun'.state \in {comRun.state, "accepted", "running", "saving", "unknown",
                            "needs_collect", "linked", "dismissed"}
  PROVE  StateTells'
<1>1. FullySaved => FullySaved'
  BY WholeStays DEF Written
<1>. QED
  BY <1>1 DEF StateTells

\* An actor goes on, and may end or begin a job of a worker.
LEMMA ActStep ==
  ASSUME ComInv, NEW a \in Actors, NEW act \in Acts, comAct' = [comAct EXCEPT ![a] = act],
         comRun.state # "none", act.pc \notin Early, a \in Workers => comAct[a].pc # "off",
         UNCHANGED <<comPlan, comRemote, comRow, comMem, comRun, comGen, comMade, comTold>>,
         comJob' \in [Workers -> JobStates], comFaults' \in 0..MaxComFaults,
         RowTells(act.row, comPlan, Truths), CarriedTells(act, Truths, Ready),
         a \in Workers => /\ ListTells(act, comMem[a].row, comPlan, Truths)
                          /\ WorkTells(act, comMem[a].row, Truths)
  PROVE  ComMoves
<1>1. Later(comPlan, comPlan') /\ Ready' = Ready
  BY DEF Later, Ready
<1>2. Written
  BY <1>1, QuietRun DEF ComInv
<1>3. NeverNumbered => NeverNumbered'
  BY ActBegins
<1>4. Truths \subseteq Truths'
  BY <1>1, <1>2, <1>3, TruthsGrow DEF ComInv, Written
<1>5. StateTells'
  BY <1>1, <1>2, <1>4, StateStaysTrue DEF ComInv
<1>6. RowTells(act.row, comPlan, Truths') /\ CarriedTells(act, Truths', Ready')
  BY <1>1, <1>4, RowStays, CarriedStays
<1>7. a \in Workers => /\ ListTells(act, comMem[a].row, comPlan, Truths')
                       /\ WorkTells(act, comMem[a].row, Truths')
  BY <1>1, <1>4, ListStays, WorkStays
<1>8. CardsAreCounted'
  BY DEF ComInv, CardsAreCounted
<1>. QED
  BY <1>2, <1>4, <1>5, <1>6, <1>7, <1>8, WriteStep DEF ComInv, ComTypes, ComTypeOK

\* _patch_run_record by a worker that knows the number of the run, or learns it.
LEMMA PatchStep ==
  ASSUME ComInv, NEW w \in Workers, NEW row \in Rows, NEW act \in Acts, Patch(w, row),
         comAct' = [comAct EXCEPT ![w] = act], act.pc \notin Early, comAct[w].pc # "off",
         UNCHANGED <<comPlan, comRemote, comRun, comGen, comMade, comTold, comJob>>,
         comMem[w].row.prompt \/ (w = 0 /\ comAct[0].pc \in Early), row.prompt, row.seq = comMem[w].row.seq,
         RowTells(row, comPlan, Truths), RowIsNumbered(row, Truths),
         RowTells(act.row, comPlan, Truths), CarriedTells(act, Truths, Ready),
         ListTells(act, row, comPlan, Truths), WorkTells(act, row, Truths)
  PROVE  ComMoves
<1>1. w \in Actors /\ 0 \in Actors /\ 0 \in Workers
  BY ComfyAssumption DEF Actors, Workers
<1>2. comAct' \in [Actors -> Acts] /\ comAct'[w] = act /\ \A b \in Actors \ {w} : comAct'[b] = comAct[b]
  BY <1>1 DEF ComInv, ComTypes
<1>3. /\ comMem' \in [Workers -> [row : Rows, kept : Phases]] /\ comMem'[w].row = row
      /\ \A v \in Workers \ {w} : comMem'[v] = comMem[v]
  <2>1. comMem \in [Workers -> [row : Rows, kept : Phases]] /\ row.phase \in Phases
    BY DEF ComInv, ComTypes, ComTypeOK, Rows
  <2>2. CASE comMem' = [comMem EXCEPT ![w] =
                          [row |-> row, kept |-> IF Mine(w) THEN row.phase ELSE @.kept]]
    BY <2>1, <2>2
  <2>3. CASE comMem' = [comMem EXCEPT ![w].row = row]
    BY <2>1, <2>3
  <2>. QED
    BY <2>2, <2>3 DEF Patch
<1>4. comRow' = comRow \/ (comRow' = row /\ comRow # NoRow /\ comRow'.seq = comRow.seq)
  BY DEF Patch, Mine
<1>5. OthersStay(w)
  BY <1>2, <1>3 DEF OthersStay
<1>6. (Numbered \/ (comAct[0].pc \in Early /\ comAct'[0].pc \notin Early)) /\ comRun.state # "none" /\ Later(comPlan, comPlan') /\ Ready' = Ready
  BY <1>1, <1>2, Active DEF Numbered, Later, Ready
<1>7. WorkBegins' /\ (NeverNumbered => NeverNumbered')
  <2>1. comAct'[0].pc \in Early => comAct'[0] = comAct[0]
    BY <1>1, <1>2
  <2>2. \A v \in Workers : comAct[v] = NoAct => comAct'[v] = NoAct
    <3>1. comAct[w] # NoAct /\ \A v \in Workers : v \in Actors
      BY DEF NoAct, Actors
    <3>. QED
      BY <3>1, <1>2
  <2>. QED
    BY <2>1, <2>2, <1>4, <1>6, BeginsStay DEF ComInv
<1>8. Written
  BY <1>6, QuietRun DEF ComInv
<1>9. Truths \subseteq Truths'
  BY <1>6, <1>7, <1>8, TruthsGrow DEF ComInv, Written
<1>10. StateTells'
  BY <1>6, <1>8, <1>9, StateStaysTrue DEF ComInv
<1>11. StepTypes
  <2>1. comFaults' \in 0..MaxComFaults
    BY ComfyAssumption DEF Patch, ComFault, ComInv, ComTypes, ComTypeOK
  <2>2. comRow' \in Rows
    BY <1>4 DEF ComInv, ComTypes, ComTypeOK
  <2>. QED
    BY <2>1, <2>2, <1>2, <1>3 DEF StepTypes, ComInv, ComTypes, ComTypeOK, JobStates
<1>12. RowTells(comRow', comPlan', Truths') /\ RowIsNumbered(comRow', Truths')
  BY <1>4, <1>6, <1>9, RowStays, RowStaysNumbered DEF ComInv, RowsTell
<1>13. /\ RowTells(act.row, comPlan', Truths') /\ CarriedTells(act, Truths', Ready')
       /\ RowTells(row, comPlan', Truths') /\ RowIsNumbered(row, Truths')
       /\ ListTells(act, row, comPlan', Truths') /\ WorkTells(act, row, Truths')
  BY <1>6, <1>9, RowStays, CarriedStays, RowStaysNumbered, ListStays, WorkStays
<1>14. EvidenceStands
  BY <1>4 DEF EvidenceStands
<1>15. CardsAreCounted'
  BY DEF ComInv, CardsAreCounted
<1>. QED
  BY <1>1, <1>2, <1>3, <1>5, <1>6, <1>7, <1>8, <1>9, <1>10, <1>11, <1>12, <1>13, <1>14, <1>15, StepTells

-----------------------------------------------------------------------------
(*****************************************************************************)
(* The first steps: until the number of the run is known.                    *)
(*****************************************************************************)

\* In the first steps nobody else is at work on the run yet.
LEMMA FirstMoves ==
  ASSUME ComInv, comAct[0].pc \in Early
  PROVE  /\ 0 \in Workers /\ 0 \in Actors /\ comAct[0] \in Acts /\ comRun.state # "none"
         /\ ~Numbered /\ \A w \in Workers : ~comMem[w].row.prompt
         /\ CarriedTells(comAct[0], Truths, Ready)
<1>1. 0 \in Workers /\ 0 \in Actors
  BY ComfyAssumption DEF Actors, Workers
<1>2. comAct[0].pc # "off"
  BY DEF Early, First
<1>. QED
  BY <1>1, <1>2, Active DEF ComInv, WorkBegins, Numbered

\* The start of a run: its receipt is claimed before there is a worker.
LEMMA StartMoves == ASSUME ComInv, Start PROVE ComMoves
<1>1. /\ 0 \in Workers /\ 0 \in Actors /\ comAct \in [Actors -> Acts] /\ comRun \in Receipts
      /\ comRun.state = "none" /\ comRow = NoRow /\ comRemote = "none"
      /\ \A a \in Actors : comAct[a] = NoAct
      /\ \A w \in Workers : comMem[w] = NoMem
  BY ComfyAssumption DEF Start, comWorld, Actors, Workers, ComInv, WorkBegins, ComTypes, ComTypeOK,
     Receipts, OutStates
<1> DEFINE act == [comAct[0] EXCEPT !.pc = "staged"]
<1>2. act \in Acts /\ act = [NoAct EXCEPT !.pc = "staged"]
  <2>1. "staged" \in Steps
    BY DEF Steps, Early, First
  <2>. QED
    BY <1>1, <2>1 DEF Acts
<1>3. comAct' = [comAct EXCEPT ![0] = act]
  BY DEF Start, comWorld, Goes
<1>4. comAct' \in [Actors -> Acts] /\ comAct'[0] = act /\ OthersStay(0)
  BY <1>1, <1>2, <1>3 DEF OthersStay, Start
<1>5. comRun' \in Receipts /\ comRun'.state = "accepted" /\ comRun'.out = comRun.out
      /\ comRun'.enum = comRun.enum
  BY <1>1 DEF Start, comWorld, Receipts, RunStates
<1>6. Written
  <2>1. RunGrows
    BY <1>1, <1>5 DEF RunGrows, Outputs, Ready, Start, Settled
  <2>2. OutsTell'
    BY <1>5 DEF Start, comWorld, ComInv, OutsTell, Outputs, TextIsKept, Ready, Linked
  <2>3. ChangeIsTold' /\ PutAwayStands
    BY <1>1, <1>5 DEF Start, comWorld, ComInv, ChangeIsTold, PutAwayStands, Settled
  <2>. QED
    BY <2>1, <2>2, <2>3 DEF Written, Start, ComInv, ComTypes, ComTypeOK, Tellings
<1>7. Truths \subseteq Truths' /\ Later(comPlan, comPlan')
  <2>1. ~NeverNumbered
    BY <1>1 DEF NeverNumbered
  <2>. QED
    BY <2>1, <1>6, TruthsGrow DEF Start, comWorld, Later, Written, ComInv
<1>8. StateTells'
  BY <1>5 DEF StateTells
<1>9. WorkBegins'
  <2>1. ~Numbered'
    BY <1>1 DEF Numbered, Start, NoRow, NoMem
  <2>2. comRow' = NoRow /\ comRemote' = "none" /\ \A w \in Workers \ {0} : comAct'[w] = NoAct
    BY <1>1, <1>4 DEF Start, comWorld, OthersStay, Actors
  <2>. QED
    BY <2>1, <2>2, <1>5 DEF WorkBegins
<1>10. /\ RowTells(comRow', comPlan', Truths') /\ RowIsNumbered(comRow', Truths')
       /\ RowTells(comAct'[0].row, comPlan', Truths')
       /\ RowTells(comMem'[0].row, comPlan', Truths')
       /\ RowIsNumbered(comMem'[0].row, Truths')
  <2>1. comRow' = NoRow /\ comAct'[0].row = NoRow /\ comMem'[0].row = NoRow
    BY <1>1, <1>2, <1>4 DEF Start, comWorld, NoAct, NoMem
  <2>. QED
    BY <2>1, NoRowTells
<1>11. CarriedTells(comAct'[0], Truths', Ready')
  BY <1>2, <1>4, NothingCarried DEF NoAct, Settled, Keeping, Judging
<1>12. ListTells(comAct'[0], comMem'[0].row, comPlan', Truths')
       /\ WorkTells(comAct'[0], comMem'[0].row, Truths')
  BY <1>2, <1>4 DEF NoAct, ListTells, WorkTells, Listing, Loading, Working, Keeping
<1>13. StepTypes
  <2>1. comJob' \in [Workers -> JobStates]
    BY <1>1 DEF Start, comWorld, ComInv, ComTypes, ComTypeOK, JobStates
  <2>. QED
    BY <2>1, <1>4 DEF Start, comWorld, StepTypes, ComInv, ComTypes, ComTypeOK
<1>14. CardsAreCounted' /\ EvidenceStands
  BY <1>1 DEF Start, comWorld, ComInv, CardsAreCounted, EvidenceStands
<1>. QED
  BY <1>1, <1>4, <1>6, <1>7, <1>8, <1>9, <1>10, <1>11, <1>12, <1>13, <1>14, StepTells

\* An actor that goes on to a step that asks for nothing tells what it told.
LEMMA GoesCarried ==
  ASSUME NEW act \in Acts, NEW truths, NEW ready, CarriedTells(act, truths, ready),
         NEW pc \in Steps \ (Keeping \cup Judging
                              \cup {"op", "tell", "failSettle", "collectJobs", "collect"})
  PROVE  /\ [act EXCEPT !.pc = pc] \in Acts /\ [act EXCEPT !.pc = pc].pc = pc
         /\ CarriedTells([act EXCEPT !.pc = pc], truths, ready)
<1> DEFINE to == [act EXCEPT !.pc = pc]
<1>1. /\ to \in Acts /\ to.pc = pc /\ to.st = act.st /\ to.op = act.op /\ to.drop = act.drop
      /\ to.todo = act.todo /\ to.row = act.row
  BY DEF Acts
<1> HIDE DEF to
<1>2. CarriedTells(to, truths, ready)
  BY <1>1 DEF CarriedTells, Keeping, Judging
<1>. QED
  BY <1>1, <1>2 DEF to

\* A first step leads to the next one.
LEMMA FirstGoes ==
  ASSUME ComInv, comAct[0].pc \in Early, NEW pc \in {"begin", "admit", "submit", "track"}, Goes(0, pc),
         Written, comRun'.state \in {comRun.state, "running"}, WorkBegins',
         UNCHANGED <<comPlan, comGen, comMade, comJob, comFaults>>,
         comRemote' \in {"none", "running"}, comRemote = "none",
         comRow' \in Rows, comMem' \in [Workers -> [row : Rows, kept : Phases]],
         \A w \in Workers \ {0} : comMem'[w] = comMem[w],
         RowTells(comRow', comPlan, Truths), RowIsNumbered(comRow', Truths), ~comRow.prompt,
         RowTells(comMem'[0].row, comPlan, Truths), RowIsNumbered(comMem'[0].row, Truths)
  PROVE  ComMoves
<1>1. /\ 0 \in Workers /\ 0 \in Actors /\ comAct[0] \in Acts /\ comRun.state # "none"
      /\ CarriedTells(comAct[0], Truths, Ready) /\ comAct[0].pc # "off"
  BY FirstMoves DEF Early, First
<1>2. RowTells(comAct[0].row, comPlan, Truths) /\ WorkTells(comAct[0], comMem[0].row, Truths)
  BY <1>1, Active
<1> DEFINE act == [comAct[0] EXCEPT !.pc = pc]
<1>3. act \in Acts /\ act.pc = pc /\ CarriedTells(act, Truths, Ready)
  <2>1. pc \in Steps \ (Keeping \cup Judging
                    \cup {"op", "tell", "failSettle", "collectJobs", "collect"})
    BY DEF Steps, Early, First, Keeping, Judging
  <2>. QED
    BY <2>1, <1>1, GoesCarried
<1>4. act.row = comAct[0].row /\ act.full = comAct[0].full /\ act.op = comAct[0].op
  BY <1>1 DEF Acts
<1>5. comAct' = [comAct EXCEPT ![0] = act]
  BY DEF Goes
<1>6. comAct' \in [Actors -> Acts] /\ comAct'[0] = act /\ OthersStay(0)
  BY <1>1, <1>3, <1>5 DEF OthersStay, ComInv, ComTypes
<1> HIDE DEF act
<1>7. Truths \subseteq Truths' /\ Later(comPlan, comPlan')
  BY TruthsGrow DEF NeverNumbered, Later, Written, ComInv
<1>8. StateTells'
  BY <1>7, StateStaysTrue DEF ComInv
<1>9. ListTells(act, comMem'[0].row, comPlan', Truths') /\ WorkTells(act, comMem'[0].row, Truths')
  <2>1. act.full /\ act.op = "none"
    BY <1>2, <1>4 DEF WorkTells, Early, First, Listing, Loading
  <2>. QED
    BY <2>1, <1>3 DEF ListTells, WorkTells, Listing, Loading, Working, Keeping
<1>10. /\ RowTells(comRow', comPlan', Truths') /\ RowIsNumbered(comRow', Truths')
       /\ RowTells(comMem'[0].row, comPlan', Truths') /\ RowIsNumbered(comMem'[0].row, Truths')
       /\ RowTells(act.row, comPlan', Truths')
  BY <1>2, <1>4, <1>7, RowStays, RowStaysNumbered
<1>11. CarriedTells(act, Truths', Ready')
  BY <1>3, <1>7, CarriedStays DEF Written, RunGrows
<1>12. StepTypes
  BY <1>6 DEF StepTypes, ComInv, ComTypes, ComTypeOK, JobStates
<1>13. CardsAreCounted' /\ EvidenceStands
  BY DEF ComInv, CardsAreCounted, EvidenceStands
<1>. QED
  BY <1>1, <1>6, <1>7, <1>8, <1>9, <1>10, <1>11, <1>12, <1>13, StepTells

\* What holds in the very first steps, before the run is submitted.
LEMMA FirstHolds ==
  ASSUME ComInv, comAct[0].pc \in First \cup {"submit"}
  PROVE  /\ comAct[0].pc \in Early /\ comRemote = "none" /\ ~Numbered /\ ~comRow.prompt
         /\ comAct[0].pc \in First => comRow = NoRow /\ \A w \in Workers \ {0} : comAct[w] = NoAct
         /\ comRow \in Rows /\ comMem \in [Workers -> [row : Rows, kept : Phases]]
         /\ RowTells(comRow, comPlan, Truths) /\ RowIsNumbered(comRow, Truths)
         /\ RowTells(comMem[0].row, comPlan, Truths) /\ RowIsNumbered(comMem[0].row, Truths)
         /\ comAct \in [Actors -> Acts] /\ comFaults \in 0..MaxComFaults
         /\ comJob \in [Workers -> JobStates]
BY FirstMoves DEF ComInv, WorkBegins, Early, Numbered, RowsTell, ComTypes, ComTypeOK, JobStates

\* The receipt and the cards stay.
LEMMA QuietWritten ==
  ASSUME ComInv, UNCHANGED <<comPlan, comRun, comGen, comMade, comTold>>
  PROVE  Written
BY QuietRun DEF ComInv, Later

\* The thread starts, or the run has failed before it was submitted.
LEMMA ThreadStartsMoves == ASSUME ComInv, ThreadStarts PROVE ComMoves
<1>1. comAct[0].pc = "staged"
  BY DEF ThreadStarts, At
<1>2. /\ 0 \in Workers /\ 0 \in Actors /\ comAct[0] \in Acts /\ comRun.state # "none" /\ ~Numbered
  BY <1>1, FirstMoves DEF Early, First
<1>3. UNCHANGED <<comPlan, comRemote, comGen, comMade, comRow, comMem>>
  BY DEF ThreadStarts, comWorld
<1>4. CASE Goes(0, "begin") /\ UNCHANGED <<comRun, comTold, comJob, comFaults>>
  <2>1. comAct'[0].pc = "begin" /\ \A w \in Workers \ {0} : comAct'[w] = comAct[w]
    BY <1>2, <1>4 DEF Goes, ComInv, ComTypes, Acts, Actors
  <2>2. WorkBegins'
    BY <1>1, <1>2, <1>3, <1>4, <2>1, FirstHolds DEF WorkBegins, First, Early, Numbered
  <2>3. Written
    BY <1>3, <1>4, QuietWritten
  <2>. QED
    BY <1>1, <1>3, <1>4, <2>2, <2>3, FirstHolds, FirstGoes DEF First
<1>5. CASE ComFault /\ set_state("failed") /\ comJob' = [comJob EXCEPT ![0] = "ended"] /\ Ends(0)
  <2>1. Written /\ comRun'.state # "none" /\ comRun'.state \in {comRun.state, "failed"}
    <3>1. "failed" \in RunStates \ {"none", "linked"}
      BY DEF RunStates
    <3>. QED
      BY <3>1, <1>2, <1>3, <1>5, SetStateWrites DEF ComInv
  <2>2. comAct' = [comAct EXCEPT ![0] = NoAct]
    BY <1>5 DEF Ends
  <2>3. NeverNumbered'
    <3>1. comAct'[0] = NoAct
      BY <1>1, <2>2, <1>2, FirstHolds DEF First
    <3>. QED
      BY <3>1, <1>2, <1>3, <2>1 DEF NeverNumbered, Numbered, NoAct, Early, First
  <2>4. Truths \subseteq Truths' /\ Later(comPlan, comPlan')
    BY <2>1, <2>3, <1>3, TruthsGrow DEF Later, Written, ComInv
  <2>5. StateTells'
    <3>1. "done" \in Truths'
      BY <2>3 DEF Truths, NothingRemains
    <3>2. comRun'.state = "saved" => FullySaved'
      BY <2>1, <2>4, WholeStays DEF ComInv, StateTells, Written
    <3>. QED
      BY <3>1, <3>2 DEF StateTells
  <2>6. NoAct \in Acts /\ NoAct.pc \notin Early
    BY NoActTells DEF NoAct, Early, First
  <2>7. comJob' \in [Workers -> JobStates] /\ comFaults' \in 0..MaxComFaults
    <3>1. comJob' \in [Workers -> JobStates]
      BY <1>1, <1>5, FirstHolds DEF First, JobStates
    <3>. QED
      BY <3>1, <1>5, FaultCounts
  <2>8. /\ RowTells(NoAct.row, comPlan, Truths') /\ CarriedTells(NoAct, Truths', Ready')
        /\ ListTells(NoAct, comMem[0].row, comPlan, Truths')
        /\ WorkTells(NoAct, comMem[0].row, Truths')
    BY NoActTells, NoRowTells
  <2>9. CardsAreCounted' /\ comAct[0].pc # "off"
    BY <1>1, <1>3 DEF ComInv, CardsAreCounted
  <2>. QED
    BY <1>2, <1>3, <2>1, <2>2, <2>4, <2>5, <2>6, <2>7, <2>8, <2>9, WriteStep
       DEF ComInv, ComTypes, ComTypeOK
<1>. QED
  BY <1>4, <1>5 DEF ThreadStarts

LEMMA BeginRunMoves == ASSUME ComInv, BeginRun PROVE ComMoves
<1>1. comAct[0].pc = "begin" /\ Goes(0, "admit") /\ set_state("running")
      /\ UNCHANGED <<comPlan, comRemote, comGen, comMade, comRow, comJob, comMem, comFaults>>
  BY DEF BeginRun, At, comWorld
<1>2. 0 \in Workers /\ 0 \in Actors /\ comRun.state # "none" /\ ~Numbered
  BY <1>1, FirstMoves DEF Early, First
<1>3. Written /\ comRun'.state \in {comRun.state, "running"}
  <2>1. "running" \in RunStates \ {"none", "linked"}
    BY DEF RunStates
  <2>. QED
    BY <2>1, <1>1, SetStateWrites DEF ComInv
<1>4. comAct'[0].pc = "admit" /\ \A w \in Workers \ {0} : comAct'[w] = comAct[w]
  BY <1>1, <1>2 DEF Goes, ComInv, ComTypes, Acts, Actors
<1>5. WorkBegins'
  BY <1>1, <1>2, <1>3, <1>4, FirstHolds DEF WorkBegins, First, Early, Numbered
<1>. QED
  BY <1>1, <1>3, <1>5, FirstHolds, FirstGoes DEF First

\* The journal row is written before the run is submitted; when that fails, the run
\* has no number and gets none.
LEMMA AdmitMoves == ASSUME ComInv, Admit PROVE ComMoves
<1> DEFINE row == [NoRow EXCEPT !.phase = "submitting"]
<1>1. comAct[0].pc = "admit"
      /\ UNCHANGED <<comPlan, comRemote, comRun, comGen, comMade, comTold, comJob>>
  BY DEF Admit, At, comWorld
<1>2. 0 \in Workers /\ 0 \in Actors /\ comAct[0] \in Acts /\ comRun.state # "none" /\ ~Numbered
      /\ CarriedTells(comAct[0], Truths, Ready)
      /\ \A w \in Workers : ~comMem[w].row.prompt
  BY <1>1, FirstMoves DEF Early, First
<1>3. Written
  BY <1>1, QuietWritten
<1>4. /\ row \in Rows /\ ~row.prompt /\ row.phase = "submitting" /\ row.seq = 0
      /\ RowTells(row, comPlan, Truths) /\ RowIsNumbered(row, Truths)
  <2>1. NoRow \in Rows /\ RowTells(NoRow, comPlan, Truths) /\ RowIsNumbered(NoRow, Truths)
    BY NoRowTells
  <2>2. /\ row \in Rows /\ row.phase = "submitting" /\ ~row.prompt /\ row.seq = 0
        /\ row.enum = NoRow.enum /\ row.known = NoRow.known /\ row.down = NoRow.down
        /\ row.gone = NoRow.gone /\ row.unread = NoRow.unread /\ row.term = NoRow.term
        /\ row.textOnly = NoRow.textOnly
    BY <2>1 DEF NoRow, Rows, Phases
  <2> HIDE DEF row
  <2>3. RowTells(row, comPlan, Truths)
    BY <2>1, <2>2 DEF RowTells
  <2>4. RowIsNumbered(row, Truths)
    BY <2>2 DEF RowIsNumbered
  <2>. QED
    BY <2>2, <2>3, <2>4
<1>5. CASE /\ comRow' = row
           /\ comMem' = [comMem EXCEPT ![0] = [row |-> row, kept |-> "submitting"]]
           /\ Goes(0, "submit")
           /\ UNCHANGED comFaults
  <2>1. comAct'[0].pc = "submit" /\ \A w \in Workers \ {0} : comAct'[w] = comAct[w]
    BY <1>2, <1>5 DEF Goes, ComInv, ComTypes, Acts, Actors
  <2>2. /\ comMem' \in [Workers -> [row : Rows, kept : Phases]] /\ comMem'[0].row = row
        /\ \A w \in Workers \ {0} : comMem'[w] = comMem[w]
    BY <1>1, <1>2, <1>4, <1>5, FirstHolds DEF First, Phases
  <2> HIDE DEF row
  <2>3. WorkBegins'
    <3>1. ~Numbered'
      BY <1>2, <1>4, <1>5, <2>2 DEF Numbered
    <3>2. \A w \in Workers : w > comRow'.seq => comAct'[w] = NoAct
      BY <1>1, <1>4, <1>5, <2>1, FirstHolds DEF First, Workers
    <3>. QED
      BY <3>1, <3>2, <1>1, <1>2, <2>1, FirstHolds DEF WorkBegins, First, Early
  <2>. QED
    BY <1>1, <1>3, <1>4, <1>5, <2>2, <2>3, FirstHolds, FirstGoes DEF First
<1>6. CASE ComFault /\ Goes(0, "failRead") /\ UNCHANGED <<comRow, comMem>>
  <2> DEFINE act == [comAct[0] EXCEPT !.pc = "failRead"]
  <2>1. act \in Acts /\ act.pc = "failRead" /\ CarriedTells(act, Truths, Ready)
        /\ CarriedTells(act, Truths', Ready')
    <3>1. "failRead" \in Steps \ (Keeping \cup Judging
                    \cup {"op", "tell", "failSettle", "collectJobs", "collect"})
      BY DEF Steps, Keeping, Judging
    <3>2. act \in Acts /\ act.pc = "failRead" /\ CarriedTells(act, Truths, Ready)
      BY <3>1, <1>2, GoesCarried
    <3>3. CarriedTells(act, Truths', Ready')
      <4>1. /\ act.st = comAct[0].st /\ act.drop = comAct[0].drop
        BY <1>2 DEF Acts
      <4>2. Truths \subseteq Truths'
        BY <1>1, <1>3, TruthsGrow DEF NeverNumbered, Early, First, Later, Written, ComInv
      <4>. QED
        BY <3>2, <4>2, <1>3, CarriedStays DEF Written, RunGrows
    <3>. QED
      BY <3>2, <3>3
  <2>2. comAct' = [comAct EXCEPT ![0] = act] /\ act.row = comAct[0].row /\ act.full = comAct[0].full
    BY <1>2, <1>6 DEF Goes, Acts
  <2> HIDE DEF act
  <2>3. NeverNumbered'
    <3>1. comAct'[0].pc = "failRead"
      BY <1>2, <2>1, <2>2 DEF ComInv, ComTypes
    <3>. QED
      BY <3>1, <1>1, <1>2, <1>6 DEF NeverNumbered, Numbered, Early, First
  <2>4. Truths \subseteq Truths' /\ Later(comPlan, comPlan') /\ "unnumbered" \in Truths'
    BY <2>3, <1>1, <1>3, TruthsGrow DEF Later, Written, ComInv, Truths
  <2>5. StateTells'
    BY <1>1, <1>3, <2>4, StateStaysTrue DEF ComInv
  <2>6. comFaults' \in 0..MaxComFaults
    BY <1>6, FaultCounts
  <2>7. /\ RowTells(act.row, comPlan, Truths')
        /\ ListTells(act, comMem[0].row, comPlan, Truths')
        /\ WorkTells(act, comMem[0].row, Truths')
    <3>1. RowTells(comAct[0].row, comPlan, Truths) /\ WorkTells(comAct[0], comMem[0].row, Truths)
          /\ comAct[0].pc # "off"
      BY <1>1, <1>2, Active
    <3>2. act.full
      BY <3>1, <2>2, <1>1 DEF WorkTells, Listing, Loading
    <3>3. RowTells(act.row, comPlan, Truths')
      BY <3>1, <2>2, <2>4, <1>1, RowStays
    <3>. QED
      BY <3>2, <3>3, <2>1, <2>4 DEF ListTells, WorkTells, Listing, Loading, Working, Keeping, Early, First
  <2>8. CardsAreCounted' /\ comAct[0].pc # "off" /\ act.pc \notin Early
    BY <1>1, <2>1 DEF ComInv, CardsAreCounted, Early, First
  <2>. QED
    BY <1>1, <1>2, <1>3, <1>6, <2>1, <2>2, <2>4, <2>5, <2>6, <2>7, <2>8, FirstHolds, WriteStep
       DEF ComInv, ComTypes, ComTypeOK, First
<1>. QED
  BY <1>5, <1>6 DEF Admit

LEMMA SubmitMoves == ASSUME ComInv, Submit PROVE ComMoves
<1>1. comAct[0].pc = "submit" /\ Goes(0, "track") /\ comRemote' = "running"
      /\ UNCHANGED <<comPlan, comRun, comGen, comMade, comTold, comRow, comJob, comMem, comFaults>>
  BY DEF Submit, At, comDisk
<1>2. 0 \in Workers /\ 0 \in Actors /\ comRun.state # "none" /\ ~Numbered
  BY <1>1, FirstMoves DEF Early, First
<1>3. Written
  BY <1>1, QuietWritten
<1>4. comAct'[0].pc = "track" /\ \A w \in Workers \ {0} : comAct'[w] = comAct[w]
  BY <1>1, <1>2 DEF Goes, ComInv, ComTypes, Acts, Actors
<1>5. WorkBegins'
  <2>1. comRow # NoRow => \A w \in Workers : w > comRow.seq => comAct[w] = NoAct /\ w # 0
    <3>1. comAct[0] # NoAct
      BY <1>1 DEF NoAct
    <3>. QED
      BY <3>1 DEF ComInv, WorkBegins
  <2>. QED
    BY <2>1, <1>1, <1>2, <1>4 DEF WorkBegins, First, Early, Numbered
<1>. QED
  BY <1>1, <1>3, <1>5, FirstHolds, FirstGoes DEF First

\* The number of the run is known.
LEMMA TrackMoves == ASSUME ComInv, Track PROVE ComMoves
<1> DEFINE row == [comMem[0].row EXCEPT !.phase = "running", !.prompt = TRUE]
           act == [comAct[0] EXCEPT !.pc = "wait"]
<1>1. /\ comAct[0].pc = "track" /\ Goes(0, "wait") /\ Patch(0, row)
      /\ UNCHANGED <<comPlan, comRemote, comRun, comGen, comMade, comTold, comJob>>
  BY DEF Track, At, comWorld
<1>2. /\ 0 \in Workers /\ 0 \in Actors /\ comAct[0] \in Acts /\ comAct[0].pc \in Early
      /\ CarriedTells(comAct[0], Truths, Ready)
  BY <1>1, FirstMoves DEF Early, First
<1>3. /\ RowTells(comAct[0].row, comPlan, Truths) /\ comMem[0].row \in Rows
      /\ WorkTells(comAct[0], comMem[0].row, Truths)
      /\ RowTells(comMem[0].row, comPlan, Truths)
  BY <1>1, <1>2, Active
<1>4. /\ act \in Acts /\ act.pc = "wait" /\ CarriedTells(act, Truths, Ready)
  <2>1. "wait" \in Steps \ (Keeping \cup Judging
                    \cup {"op", "tell", "failSettle", "collectJobs", "collect"})
    BY DEF Steps, Working, Keeping, Judging
  <2>. QED
    BY <2>1, <1>2, GoesCarried
<1>5. act.row = comAct[0].row /\ act.full = comAct[0].full /\ act.op = comAct[0].op
      /\ comAct' = [comAct EXCEPT ![0] = act]
  BY <1>1, <1>2 DEF Acts, Goes
<1>6. /\ row \in Rows /\ row.phase = "running" /\ row.prompt /\ row.seq = comMem[0].row.seq
      /\ row.enum = comMem[0].row.enum /\ row.known = comMem[0].row.known
      /\ row.down = comMem[0].row.down /\ row.gone = comMem[0].row.gone
      /\ row.unread = comMem[0].row.unread /\ row.term = comMem[0].row.term
      /\ row.textOnly = comMem[0].row.textOnly
  BY <1>3 DEF Rows, Phases
<1> HIDE DEF row, act
<1>7. RowTells(row, comPlan, Truths) /\ RowIsNumbered(row, Truths)
  BY <1>3, <1>6 DEF RowTells, RowIsNumbered
<1>8. act.full /\ act.op = "none"
  BY <1>2, <1>3, <1>5 DEF WorkTells, Early, First, Listing, Loading
<1>9. ListTells(act, row, comPlan, Truths) /\ WorkTells(act, row, Truths) /\ act.pc \notin Early
  BY <1>4, <1>6, <1>8 DEF ListTells, WorkTells, Listing, Loading, Working, Keeping, Early, First
<1>10. comAct[0].pc # "off"
  BY <1>1
<1>. QED
  BY <1>1, <1>2, <1>3, <1>4, <1>5, <1>6, <1>7, <1>9, <1>10, PatchStep

\* The submission fails; when nobody can tell whether it was taken, the row says so.
LEMMA SubmitFailsMoves == ASSUME ComInv, SubmitFails PROVE ComMoves
<1>1. /\ comAct[0].pc = "submit" /\ Goes(0, "fail") /\ ComFault
      /\ UNCHANGED <<comPlan, comRun, comGen, comMade, comTold, comJob>>
  BY DEF SubmitFails, At
<1>2. /\ 0 \in Workers /\ 0 \in Actors /\ comAct[0] \in Acts /\ comAct[0].pc \in Early
      /\ CarriedTells(comAct[0], Truths, Ready) /\ comRun.state # "none"
      /\ ~Numbered /\ \A w \in Workers : ~comMem[w].row.prompt
  BY <1>1, FirstMoves DEF Early, First
<1>3. /\ RowTells(comAct[0].row, comPlan, Truths) /\ comMem[0].row \in Rows
      /\ WorkTells(comAct[0], comMem[0].row, Truths) /\ comAct[0] # NoAct
      /\ RowTells(comMem[0].row, comPlan, Truths)
  BY <1>1, <1>2, Active
<1> PICK phase \in {"not_submitted", "unknown"} :
      /\ comRow' = IF Mine(0) THEN [comMem[0].row EXCEPT !.phase = phase] ELSE comRow
      /\ comMem' = [comMem EXCEPT ![0] = [row |-> [comMem[0].row EXCEPT !.phase = phase],
                                          kept |-> phase]]
      /\ comRemote' \in IF phase = "unknown" THEN {"none", "running"} ELSE {"none"}
  BY DEF SubmitFails
<1> DEFINE row == [comMem[0].row EXCEPT !.phase = phase]
           act == [comAct[0] EXCEPT !.pc = "fail"]
<1>4. /\ act \in Acts /\ act.pc = "fail" /\ CarriedTells(act, Truths, Ready)
  <2>1. "fail" \in Steps \ (Keeping \cup Judging
                    \cup {"op", "tell", "failSettle", "collectJobs", "collect"})
    BY DEF Steps, Keeping, Judging
  <2>. QED
    BY <2>1, <1>2, GoesCarried
<1>5. act.row = comAct[0].row /\ act.full = comAct[0].full /\ comAct' = [comAct EXCEPT ![0] = act]
  BY <1>1, <1>2 DEF Acts, Goes
<1>6. /\ row \in Rows /\ row.phase = phase /\ ~row.prompt /\ row.seq = comMem[0].row.seq
      /\ row.enum = comMem[0].row.enum /\ row.known = comMem[0].row.known
      /\ row.down = comMem[0].row.down /\ row.gone = comMem[0].row.gone
      /\ row.unread = comMem[0].row.unread /\ row.term = comMem[0].row.term
      /\ row.textOnly = comMem[0].row.textOnly
  BY <1>2, <1>3 DEF Rows, Phases
<1>7. comRow' = comRow \/ (comRow' = row /\ comRow # NoRow /\ row.seq = comRow.seq)
  BY <1>6 DEF Mine
<1>8. /\ comMem' \in [Workers -> [row : Rows, kept : Phases]] /\ comMem'[0].row = row
      /\ \A w \in Workers \ {0} : comMem'[w] = comMem[w]
  <2>1. comMem \in [Workers -> [row : Rows, kept : Phases]] /\ phase \in Phases
    BY DEF ComInv, ComTypes, ComTypeOK, Phases
  <2>. QED
    BY <2>1, <1>2, <1>6
<1>9. comRemote = "none" /\ comRemote' \in {"none", "running"}
  BY <1>1, FirstHolds
<1> HIDE DEF row, act
<1>10. comAct' \in [Actors -> Acts] /\ comAct'[0] = act /\ OthersStay(0)
  BY <1>2, <1>4, <1>5, <1>8 DEF ComInv, ComTypes, OthersStay
<1>11. ~Numbered'
  BY <1>2, <1>6, <1>7, <1>8 DEF Numbered
<1>12. Written
  BY <1>1, QuietWritten
<1>13. NeverNumbered'
  BY <1>1, <1>2, <1>4, <1>10, <1>11 DEF NeverNumbered, Early, First
<1>14. /\ Truths \subseteq Truths' /\ Later(comPlan, comPlan') /\ "unnumbered" \in Truths'
       /\ Ready' = Ready
  BY <1>1, <1>9, <1>12, <1>13, TruthsGrow DEF Later, ComInv, Written, Truths, Ready
<1>15. RowTells(row, comPlan', Truths') /\ RowIsNumbered(row, Truths')
  <2>1. RowTells(row, comPlan, Truths)
    BY <1>3, <1>6 DEF RowTells
  <2>2. RowIsNumbered(row, Truths')
    BY <1>6, <1>14 DEF RowIsNumbered
  <2>. QED
    BY <2>1, <2>2, <1>14, RowStays
<1>16. RowTells(comRow', comPlan', Truths') /\ RowIsNumbered(comRow', Truths')
  BY <1>7, <1>14, <1>15, RowStays, RowStaysNumbered DEF ComInv, RowsTell
<1>17. RowTells(act.row, comPlan', Truths') /\ CarriedTells(act, Truths', Ready')
  BY <1>3, <1>4, <1>5, <1>14, RowStays, CarriedStays
<1>18. ListTells(act, row, comPlan', Truths') /\ WorkTells(act, row, Truths')
  <2>1. act.full
    BY <1>2, <1>3, <1>5 DEF WorkTells, Early, First, Listing, Loading
  <2>. QED
    BY <2>1, <1>4, <1>6, <1>14 DEF ListTells, WorkTells, Listing, Loading, Working, Keeping, Early, First
<1>19. WorkBegins'
  <2>1. comAct'[0].pc \notin Early
    BY <1>4, <1>10 DEF Early, First
  <2>2. \A w \in Workers : comAct[w] = NoAct => comAct'[w] = NoAct
    BY <1>2, <1>3, <1>10 DEF OthersStay, Actors
  <2>3. comRow' # NoRow => \A w \in Workers : w > comRow'.seq => comAct'[w] = NoAct
    BY <2>2, <1>7 DEF ComInv, WorkBegins
  <2>. QED
    BY <2>1, <2>3, <1>1, <1>2 DEF WorkBegins, Early
<1>20. StepTypes
  <2>1. comRow' \in Rows /\ comFaults' \in 0..MaxComFaults
    BY <1>1, <1>6, <1>7, FaultCounts DEF ComInv, ComTypes, ComTypeOK
  <2>. QED
    BY <2>1, <1>1, <1>8, <1>9, <1>10 DEF StepTypes, ComInv, ComTypes, ComTypeOK, JobStates
<1>21. StateTells' /\ CardsAreCounted' /\ EvidenceStands
  <2>1. StateTells'
    BY <1>1, <1>12, <1>14, StateStaysTrue DEF ComInv
  <2>2. ~comRow.prompt
    BY <1>2 DEF Numbered
  <2>. QED
    BY <2>1, <2>2, <1>1 DEF ComInv, CardsAreCounted, EvidenceStands
<1>. QED
  BY <1>2, <1>8, <1>10, <1>12, <1>14, <1>15, <1>16, <1>17, <1>18, <1>19, <1>20, <1>21, StepTells

-----------------------------------------------------------------------------
(*****************************************************************************)
(* A worker looks for the end of the run and fetches its outputs.            *)
(*****************************************************************************)

\* A worker that goes on from a step of the search.
LEMMA SearchGoes ==
  ASSUME ComInv, NEW w \in Workers, comAct[w].pc \in Working,
         NEW pc \in {"detail", "list", "fail"}
  PROVE  LET act == [comAct[w] EXCEPT !.pc = pc] IN
         /\ w \in Actors /\ comAct[w].pc # "off" /\ comRun.state # "none"
         /\ act \in Acts /\ act.pc = pc /\ act.pc \notin Early
         /\ act.full = comAct[w].full /\ act.op = "none"
         /\ comMem[w].row.prompt /\ comMem[w].row \in Rows
         /\ RowTells(comMem[w].row, comPlan, Truths) /\ RowIsNumbered(comMem[w].row, Truths)
         /\ RowTells(act.row, comPlan, Truths) /\ CarriedTells(act, Truths, Ready)
<1> DEFINE act == [comAct[w] EXCEPT !.pc = pc]
<1>1. w \in Actors /\ comAct[w].pc # "off"
  BY DEF Actors, Working, Listing, Loading
<1>2. /\ comRun.state # "none" /\ comAct[w] \in Acts /\ CarriedTells(comAct[w], Truths, Ready)
      /\ WorkTells(comAct[w], comMem[w].row, Truths) /\ RowTells(comAct[w].row, comPlan, Truths)
      /\ comMem[w].row \in Rows
      /\ RowTells(comMem[w].row, comPlan, Truths) /\ RowIsNumbered(comMem[w].row, Truths)
  BY <1>1, Active
<1>3. act \in Acts /\ act.pc = pc /\ CarriedTells(act, Truths, Ready)
  <2>1. pc \in Steps \ (Keeping \cup Judging
                    \cup {"op", "tell", "failSettle", "collectJobs", "collect"})
    BY DEF Steps, Working, Keeping, Judging
  <2>. QED
    BY <2>1, <1>2, GoesCarried
<1>4. act.full = comAct[w].full /\ act.op = comAct[w].op /\ act.row = comAct[w].row
  BY <1>2 DEF Acts
<1> HIDE DEF act
<1>5. act.pc \notin Early
  BY <1>3 DEF Early, First
<1>6. comAct[w].op = "none" /\ comMem[w].row.prompt
  BY <1>2 DEF WorkTells
<1>. QED
  BY <1>1, <1>2, <1>3, <1>4, <1>5, <1>6 DEF act

LEMMA SeeSuccessMoves == ASSUME ComInv, NEW w \in Workers, SeeSuccess(w) PROVE ComMoves
<1> DEFINE act == [comAct[w] EXCEPT !.pc = "detail"]
           old == comMem[w].row
           row == [old EXCEPT !.term = "success",
                     !.phase = IF @ = "collecting" THEN @ ELSE "result_pending"]
<1>1. /\ comAct[w].pc \in Working
      /\ comAct[w].pc \in {"wait", "look"}
      /\ UNCHANGED <<comPlan, comRemote, comRun, comGen, comMade, comTold, comJob>>
      /\ Goes(w, "detail")
      /\ \/ UNCHANGED <<comRow, comMem, comFaults>>
         \/ Patch(w, row)
  BY DEF SeeSuccess, Waiting, At, comWorld, Working
<1>2. /\ w \in Actors /\ comAct[w].pc # "off" /\ comRun.state # "none"
      /\ act \in Acts /\ act.pc = "detail" /\ act.pc \notin Early
      /\ act.full = comAct[w].full /\ act.op = "none" /\ old.prompt /\ old \in Rows
      /\ RowTells(old, comPlan, Truths) /\ RowIsNumbered(old, Truths)
      /\ RowTells(act.row, comPlan, Truths) /\ CarriedTells(act, Truths, Ready)
  BY <1>1, SearchGoes
<1>3. /\ row \in Rows /\ row.prompt /\ row.term = "success" /\ row.seq = old.seq
      /\ row.phase \in {"collecting", "result_pending"} /\ row.enum = old.enum
      /\ row.known = old.known /\ row.down = old.down /\ row.gone = old.gone
      /\ row.unread = old.unread /\ row.textOnly = old.textOnly
  BY <1>2 DEF Rows, Phases
<1>4. comAct' = [comAct EXCEPT ![w] = act]
  BY <1>1 DEF Goes
<1>5. act.full
  <2>1. WorkTells(comAct[w], comMem[w].row, Truths)
    BY <1>2, Active
  <2>. QED
    BY <2>1, <1>1, <1>2 DEF WorkTells, Listing, Loading
<1> HIDE DEF act, row, old
<1>6. RowTells(row, comPlan, Truths) /\ RowIsNumbered(row, Truths)
  BY <1>2, <1>3 DEF RowTells, RowIsNumbered
<1>7. \A r : ListTells(act, r, comPlan, Truths) /\ (r.prompt => WorkTells(act, r, Truths))
  BY <1>2, <1>5 DEF ListTells, WorkTells, Listing, Loading, Working, Keeping, Early, First
<1>8. CASE UNCHANGED <<comRow, comMem, comFaults>>
  BY <1>1, <1>2, <1>4, <1>7, <1>8, ActStep, FaultCounts DEF old, ComInv, ComTypes, ComTypeOK, JobStates
<1>9. CASE Patch(w, row)
  BY <1>1, <1>2, <1>3, <1>4, <1>6, <1>7, <1>9, PatchStep DEF old
<1>. QED
  BY <1>1, <1>8, <1>9

LEMMA SeeFailureMoves == ASSUME ComInv, NEW w \in Workers, SeeFailure(w) PROVE ComMoves
<1> DEFINE act == [comAct[w] EXCEPT !.pc = "fail"]
           old == comMem[w].row
           row == [old EXCEPT !.term = "failure", !.phase = "failed"]
<1>1. /\ comAct[w].pc \in Working /\ comAct[w].pc \in {"wait", "look"} /\ comRemote = "failure"
      /\ UNCHANGED <<comPlan, comRemote, comRun, comGen, comMade, comTold, comJob>>
      /\ Goes(w, "fail") /\ Patch(w, row)
  BY DEF SeeFailure, Waiting, At, comWorld, Working
<1>2. /\ w \in Actors /\ comAct[w].pc # "off" /\ comRun.state # "none"
      /\ act \in Acts /\ act.pc = "fail" /\ act.pc \notin Early
      /\ act.full = comAct[w].full /\ act.op = "none" /\ old.prompt /\ old \in Rows
      /\ RowTells(old, comPlan, Truths) /\ RowIsNumbered(old, Truths)
      /\ RowTells(act.row, comPlan, Truths) /\ CarriedTells(act, Truths, Ready)
  BY <1>1, SearchGoes
<1>3. /\ row \in Rows /\ row.prompt /\ row.term = "failure" /\ row.seq = old.seq
      /\ row.phase = "failed" /\ row.enum = old.enum
      /\ row.known = old.known /\ row.down = old.down /\ row.gone = old.gone
      /\ row.unread = old.unread /\ row.textOnly = old.textOnly
  BY <1>2 DEF Rows, Phases
<1>4. comAct' = [comAct EXCEPT ![w] = act]
  BY <1>1 DEF Goes
<1>5. act.full
  <2>1. WorkTells(comAct[w], comMem[w].row, Truths)
    BY <1>2, Active
  <2>. QED
    BY <2>1, <1>1, <1>2 DEF WorkTells, Listing, Loading
<1>6. row # NoRow
  BY <1>3 DEF NoRow
<1> HIDE DEF act, row, old
<1>7. RowTells(row, comPlan, Truths) /\ RowIsNumbered(row, Truths)
  <2>1. "failure" \in Truths
    BY <1>1 DEF Truths
  <2>. QED
    BY <2>1, <1>2, <1>3 DEF RowTells, RowIsNumbered
<1>8. ListTells(act, row, comPlan, Truths) /\ WorkTells(act, row, Truths)
  BY <1>2, <1>3, <1>5, <1>6 DEF ListTells, WorkTells, Listing, Loading, Working, Keeping, Early, First
<1>. QED
  BY <1>1, <1>2, <1>3, <1>4, <1>7, <1>8, PatchStep DEF old

LEMMA NotReadyMoves == ASSUME ComInv, NEW w \in Workers, NotReady(w) PROVE ComMoves
<1> DEFINE act == [comAct[w] EXCEPT !.pc = "fail"]
<1>1. /\ comAct[w].pc \in Working /\ comAct[w].pc \in {"wait", "look"}
      /\ UNCHANGED <<comPlan, comRemote, comRun, comGen, comMade, comTold, comJob,
                     comRow, comMem, comFaults>>
      /\ Goes(w, "fail")
  BY DEF NotReady, Waiting, At, comWorld, comDisk, Working
<1>2. /\ w \in Actors /\ comAct[w].pc # "off" /\ comRun.state # "none"
      /\ act \in Acts /\ act.pc = "fail" /\ act.pc \notin Early
      /\ act.full = comAct[w].full /\ act.op = "none" /\ comMem[w].row.prompt
      /\ RowTells(act.row, comPlan, Truths) /\ CarriedTells(act, Truths, Ready)
  BY <1>1, SearchGoes
<1>3. comAct' = [comAct EXCEPT ![w] = act]
  BY <1>1 DEF Goes
<1>4. act.full /\ comMem[w].row # NoRow
  <2>1. WorkTells(comAct[w], comMem[w].row, Truths)
    BY <1>2, Active
  <2>. QED
    BY <2>1, <1>1, <1>2 DEF WorkTells, Listing, Loading, NoRow
<1> HIDE DEF act
<1>5. ListTells(act, comMem[w].row, comPlan, Truths) /\ WorkTells(act, comMem[w].row, Truths)
  BY <1>2, <1>4 DEF ListTells, WorkTells, Listing, Loading, Working, Keeping, Early, First
<1>. QED
  BY <1>1, <1>2, <1>3, <1>5, ActStep DEF ComInv, ComTypes, ComTypeOK, JobStates

\* Without the list of ComfyUI a second fetch goes on with the outputs it knows.
LEMMA DetailMoves == ASSUME ComInv, NEW w \in Workers, Detail(w) PROVE ComMoves
<1> DEFINE act == [comAct[w] EXCEPT !.pc = "list"]
<1>1. /\ comAct[w].pc \in Working /\ comAct[w].pc = "detail"
      /\ UNCHANGED <<comPlan, comRemote, comRun, comGen, comMade, comTold, comJob, comRow, comMem>>
  BY DEF Detail, At, comWorld, comDisk, Working
<1>2. /\ w \in Actors /\ comAct[w].pc # "off" /\ comRun.state # "none"
      /\ act \in Acts /\ act.pc = "list" /\ act.pc \notin Early
      /\ act.full = comAct[w].full /\ act.op = "none" /\ comMem[w].row.prompt
      /\ RowTells(act.row, comPlan, Truths) /\ CarriedTells(act, Truths, Ready)
  BY <1>1, SearchGoes
<1>3. act.full
  <2>1. WorkTells(comAct[w], comMem[w].row, Truths)
    BY <1>2, Active
  <2>. QED
    BY <2>1, <1>1, <1>2 DEF WorkTells, Listing, Loading
<1>4. CASE Goes(w, "list") /\ UNCHANGED comFaults
  <2>1. comAct' = [comAct EXCEPT ![w] = act]
    BY <1>4 DEF Goes
  <2> HIDE DEF act
  <2>2. ListTells(act, comMem[w].row, comPlan, Truths) /\ WorkTells(act, comMem[w].row, Truths)
    BY <1>2, <1>3 DEF ListTells, WorkTells, Listing, Loading, Working, Keeping, Early, First
  <2>. QED
    BY <1>1, <1>2, <1>4, <2>1, <2>2, ActStep, FaultCounts DEF ComInv, ComTypes, ComTypeOK, JobStates
<1>5. CASE /\ w # 0 /\ comMem[w].row.known # {}
           /\ ComFault
           /\ comAct' = [comAct EXCEPT ![w].pc = "list", ![w].full = FALSE]
  <2> DEFINE to == [act EXCEPT !.full = FALSE]
  <2>1. comAct' = [comAct EXCEPT ![w] = to]
    BY <1>5
  <2>2. /\ to \in Acts /\ to.pc = "list" /\ to.row = act.row /\ to.st = act.st /\ to.op = act.op
        /\ to.drop = act.drop /\ to.todo = act.todo /\ ~to.full
    BY <1>2 DEF Acts
  <2> HIDE DEF act, to
  <2>3. CarriedTells(to, Truths, Ready) /\ RowTells(to.row, comPlan, Truths) /\ to.pc \notin Early
    BY <1>2, <2>2 DEF CarriedTells, Keeping, Judging, Early, First
  <2>4. ListTells(to, comMem[w].row, comPlan, Truths) /\ WorkTells(to, comMem[w].row, Truths)
    BY <1>2, <1>5, <2>2 DEF ListTells, WorkTells, Listing, Loading, Working, Keeping, Early, First
  <2>. QED
    BY <1>1, <1>2, <1>5, <2>1, <2>2, <2>3, <2>4, ActStep, FaultCounts
       DEF ComInv, ComTypes, ComTypeOK, JobStates
<1>. QED
  BY <1>4, <1>5 DEF Detail

-----------------------------------------------------------------------------
(*****************************************************************************)
(* A worker lists the outputs, notes them, reads the texts and loads them.   *)
(*****************************************************************************)

\* What an actor carries is what the one before it carried.
LEMMA SameCarried ==
  ASSUME NEW act, NEW to, NEW truths, NEW ready, CarriedTells(act, truths, ready),
         to.st = act.st, to.drop = act.drop,
         to.pc \notin {"saveMark", "save", "failSettle", "collectJobs", "collect"} \cup Judging,
         to.op = "none" \/ to.pc \notin Keeping \cup {"op", "tell"}
  PROVE  CarriedTells(to, truths, ready)
BY DEF CarriedTells, Judging, Keeping

\* The outputs of a row are what may be recorded of the run.
LEMMA RowItems ==
  ASSUME NEW row \in Rows, NEW plan, NEW truths, NEW found \in BOOLEAN, NEW enumerated \in BOOLEAN,
         RowTells(row, plan, truths), row.enum,
         enumerated /\ plan.text = "file" => "textSafe" \in truths \/ found,
         enumerated /\ plan.media = {} /\ plan.text = "history" => "textSafe" \in truths \/ found
  PROVE  /\ ItemsTell(WithText(Statuses(row), found), enumerated, plan, truths)
         /\ found => "text" \in DOMAIN WithText(Statuses(row), found)
         /\ ~found => ItemsTell(Statuses(row), enumerated, plan, truths)
<1> DEFINE items == Statuses(row)
           all == WithText(items, found)
<1>1. row.known = plan.media /\ row.known \subseteq Media /\ "text" \notin row.known
  BY OutsAreTwo DEF RowTells, Rows
<1>2. /\ DOMAIN items = row.known
      /\ \A m \in row.known : /\ items[m] \in {"pending", "unavailable", "ready"}
                              /\ items[m] = "ready" => m \in row.down
  BY DEF Statuses
<1>3. /\ DOMAIN all = row.known \cup (IF found THEN {"text"} ELSE {})
      /\ \A o \in DOMAIN all : all[o] = IF o = "text" THEN "text" ELSE items[o]
  BY <1>2 DEF WithText
<1>4. plan.text = "history" => "textSafe" \in truths \/ \A m \in row.known : items[m] # "ready"
  BY <1>2 DEF RowTells
<1> HIDE DEF items, all
<1>5. ItemsTell(all, enumerated, plan, truths)
  BY <1>1, <1>2, <1>3, <1>4 DEF ItemsTell
<1>6. ~found => ItemsTell(items, enumerated, plan, truths)
  BY <1>1, <1>2, <1>4 DEF ItemsTell
<1>. QED
  BY <1>3, <1>5, <1>6 DEF items, all

\* What holds of a worker with a list, or about to make one.
LEMMA ListHolds ==
  ASSUME ComInv, NEW w \in Workers, comAct[w].pc \in Listing \cup {"list"}
  PROVE  /\ w \in Actors /\ comAct[w].pc # "off" /\ comRun.state # "none"
         /\ comAct[w] \in Acts /\ comAct[w].op = "none"
         /\ comMem[w].row \in Rows /\ comMem[w].row.prompt
         /\ RowTells(comMem[w].row, comPlan, Truths) /\ RowIsNumbered(comMem[w].row, Truths)
         /\ RowTells(comAct[w].row, comPlan, Truths) /\ CarriedTells(comAct[w], Truths, Ready)
         /\ ListTells(comAct[w], comMem[w].row, comPlan, Truths)
         /\ WorkTells(comAct[w], comMem[w].row, Truths)
<1>1. w \in Actors /\ comAct[w].pc # "off"
  BY DEF Actors, Listing, Loading
<1>2. /\ comRun.state # "none" /\ comAct[w] \in Acts
      /\ comMem[w].row \in Rows
      /\ RowTells(comMem[w].row, comPlan, Truths) /\ RowIsNumbered(comMem[w].row, Truths)
      /\ RowTells(comAct[w].row, comPlan, Truths) /\ CarriedTells(comAct[w], Truths, Ready)
      /\ ListTells(comAct[w], comMem[w].row, comPlan, Truths)
      /\ WorkTells(comAct[w], comMem[w].row, Truths)
  BY <1>1, Active
<1>3. comAct[w].op = "none" /\ comMem[w].row.prompt
  BY <1>2 DEF WorkTells, Working
<1>. QED
  BY <1>1, <1>2, <1>3

\* A worker goes from list to list step; rows and outputs as they are said to be.
LEMMA ListingAct ==
  ASSUME NEW act \in Acts, NEW to \in Acts, NEW row \in Rows, NEW truths, NEW ready, NEW plan,
         CarriedTells(act, truths, ready), RowTells(act.row, plan, truths), row.prompt,
         to.pc \in Listing, to.st = act.st, to.drop = act.drop, to.row = act.row,
         to.op = act.op, act.op = "none"
  PROVE  /\ CarriedTells(to, truths, ready) /\ RowTells(to.row, plan, truths)
         /\ WorkTells(to, row, truths) /\ to.pc \notin Early
<1>1. /\ to.pc \notin {"saveMark", "save", "failSettle", "collectJobs", "collect"} \cup Judging
      /\ to.pc \notin Early /\ to.pc \notin Keeping \cup {"fail", "failRead"}
  BY DEF Listing, Loading, Judging, Early, First, Keeping
<1>2. CarriedTells(to, truths, ready)
  BY <1>1, SameCarried
<1>. QED
  BY <1>1, <1>2 DEF WorkTells

\* A step that stays with the list goes to a step of it.
LEMMA ListMoves == ASSUME ComInv, NEW w \in Workers, List(w) PROVE ComMoves
<1> DEFINE old == comMem[w].row
           seen == IF comAct[w].full THEN comPlan.media ELSE {}
           known == old.known \cup seen
           gone == (known \ seen) \ old.down
           unread == old.unread \/ comPlan.text \in {"file", "lost"}
           row == [old EXCEPT !.known = known, !.gone = gone, !.enum = TRUE,
                              !.textOnly = FALSE, !.unread = unread]
           todo == {m \in known \ gone : ~Linked(m)}
           txt == comAct[w].full /\ comPlan.text = "history"
           act == [comAct[w] EXCEPT !.pc = "note", !.todo = todo, !.txt = txt]
<1>1. /\ comAct[w].pc = "list" /\ Patch(w, row)
      /\ comAct' = [comAct EXCEPT ![w] = act]
      /\ UNCHANGED <<comPlan, comRemote, comRun, comGen, comMade, comTold, comJob>>
  BY DEF List, At, comWorld
<1>2. /\ w \in Actors /\ comAct[w].pc # "off" /\ comAct[w] \in Acts /\ comAct[w].op = "none"
      /\ old \in Rows /\ old.prompt
      /\ RowTells(old, comPlan, Truths) /\ RowIsNumbered(old, Truths)
      /\ RowTells(comAct[w].row, comPlan, Truths) /\ CarriedTells(comAct[w], Truths, Ready)
      /\ ListTells(comAct[w], old, comPlan, Truths)
  BY <1>1, ListHolds
<1>3. comPlan.media \subseteq Media /\ comPlan.text \in {"none", "history", "file", "lost"}
  BY DEF ComInv, ComTypes, ComTypeOK
<1>4. old.known \subseteq comPlan.media /\ (old.known # {} => old.known = comPlan.media)
      /\ old.down \subseteq old.known
  BY <1>2 DEF RowTells
<1>5. known = comPlan.media
  <2>1. comAct[w].full \/ old.known # {}
    BY <1>1, <1>2 DEF ListTells
  <2>. QED
    BY <2>1, <1>4
<1>6. gone \subseteq known /\ gone \cap old.down = {} /\ old.down \subseteq known
  BY <1>4
<1>7. todo \subseteq known \ gone /\ todo \subseteq Media
  BY <1>3, <1>5
<1>8. comPlan.text = "history" => txt \/ (known # {} /\ todo \subseteq old.down)
  <2>1. CASE comAct[w].full
    BY <2>1
  <2>2. CASE ~comAct[w].full
    <3>1. old.known # {} /\ gone = known \ old.down
      BY <2>2, <1>1, <1>2 DEF ListTells
    <3>. QED
      BY <3>1, <1>7
  <2>. QED
    BY <2>1, <2>2
<1>9. unread \in BOOLEAN /\ (~unread => comPlan.text # "file") /\ txt \in BOOLEAN
      /\ (txt => comPlan.text # "none")
  BY <1>2 DEF Rows, Acts
<1> HIDE DEF known, gone, unread, todo, txt
<1>10. /\ row \in Rows /\ row.enum /\ row.known = known /\ row.gone = gone /\ ~row.textOnly
       /\ row.unread = unread /\ row.down = old.down /\ row.prompt /\ row.seq = old.seq
       /\ row.phase = old.phase /\ row.term = old.term
  BY <1>2, <1>3, <1>5, <1>6, <1>9 DEF Rows
<1>11. /\ act \in Acts /\ act.pc = "note" /\ act.todo = todo /\ act.txt = txt
       /\ act.st = comAct[w].st /\ act.drop = comAct[w].drop /\ act.row = comAct[w].row
       /\ act.op = comAct[w].op
  <2>1. "note" \in Steps
    BY DEF Steps, Working, Listing
  <2>. QED
    BY <2>1, <1>2, <1>7, <1>9 DEF Acts
<1> HIDE DEF row, act
<1>12. RowTells(row, comPlan, Truths) /\ RowIsNumbered(row, Truths)
  <2>1. RowTells(row, comPlan, Truths)
    BY <1>2, <1>5, <1>6, <1>9, <1>10 DEF RowTells
  <2>2. RowIsNumbered(row, Truths)
    BY <1>2, <1>10 DEF RowIsNumbered
  <2>. QED
    BY <2>1, <2>2
<1>13. ListTells(act, row, comPlan, Truths)
  BY <1>7, <1>8, <1>9, <1>10, <1>11 DEF ListTells, Listing, Loading
<1>14. /\ CarriedTells(act, Truths, Ready) /\ RowTells(act.row, comPlan, Truths)
       /\ WorkTells(act, row, Truths) /\ act.pc \notin Early
  <2>1. act.pc \in Listing
    BY <1>11 DEF Listing
  <2>. QED
    BY <2>1, <1>2, <1>10, <1>11, ListingAct
<1>. QED
  BY <1>1, <1>2, <1>10, <1>11, <1>12, <1>13, <1>14, PatchStep DEF old

\* What is known after outputs were recorded.
LEMMA RecordTells ==
  ASSUME ComInv, NEW a \in Actors, NEW act, comAct' = [comAct EXCEPT ![a] = act],
         comRun.state # "none", act.pc \notin Early, a \in Workers => comAct[a].pc # "off",
         NEW items, NEW enumerated \in BOOLEAN, ItemsTell(items, enumerated, comPlan, Truths),
         record_outputs(items, enumerated),
         UNCHANGED <<comPlan, comRemote, comRow, comMem, comGen, comMade>>
  PROVE  /\ Written /\ Truths \subseteq Truths' /\ StateTells' /\ CardsAreCounted'
         /\ Ready \subseteq Ready' /\ comRun'.state = comRun.state
         /\ enumerated => "listed" \in Truths'
         /\ "text" \in DOMAIN items => "textSafe" \in Truths'
<1>1. /\ Written /\ comRun'.state = comRun.state
      /\ comRun.state \notin Settled =>
           /\ enumerated => comRun'.enum
           /\ "text" \in DOMAIN items => comRun'.out["text"] = "text"
  BY RecordWrites DEF ComInv
<1>2. NeverNumbered => NeverNumbered'
  BY <1>1, ActBegins
<1>3. Truths \subseteq Truths' /\ Later(comPlan, comPlan')
  BY <1>1, <1>2, TruthsGrow DEF Later, Written, ComInv
<1>4. StateTells'
  BY <1>1, <1>3, StateStaysTrue DEF ComInv
<1>5. comRun.state \in Settled => {"listed", "textSafe"} \subseteq Truths'
  BY <1>1 DEF Truths, IsSettled
<1>6. comRun'.enum => "listed" \in Truths'
  BY DEF Truths
<1>7. comRun'.out["text"] = "text" => "textSafe" \in Truths'
  BY DEF Truths, TextIsKept
<1>. QED
  BY <1>1, <1>3, <1>4, <1>5, <1>6, <1>7 DEF Written, RunGrows, ComInv, CardsAreCounted

\* What is known is on the receipt before anything is fetched.
LEMMA NoteMoves == ASSUME ComInv, NEW w \in Workers, Note(w) PROVE ComMoves
<1> DEFINE row == comMem[w].row
           act == [comAct[w] EXCEPT !.pc = "read"]
           items == WithText(Statuses(row), comAct[w].txt)
<1>1. /\ comAct[w].pc = "note" /\ comAct' = [comAct EXCEPT ![w] = act]
      /\ UNCHANGED <<comPlan, comRemote, comGen, comMade, comRow, comJob, comMem, comFaults>>
  BY DEF Note, At, Goes, comWorld
<1>2. /\ w \in Actors /\ comAct[w].pc # "off" /\ comRun.state # "none"
      /\ comAct[w] \in Acts /\ comAct[w].op = "none"
      /\ row \in Rows /\ row.prompt /\ RowTells(row, comPlan, Truths)
      /\ RowTells(comAct[w].row, comPlan, Truths) /\ CarriedTells(comAct[w], Truths, Ready)
      /\ ListTells(comAct[w], row, comPlan, Truths)
  BY <1>1, ListHolds DEF Listing
<1>3. /\ act \in Acts /\ act.pc = "read" /\ act.pc \in Listing /\ act.todo = comAct[w].todo
      /\ act.txt = comAct[w].txt /\ act.st = comAct[w].st /\ act.drop = comAct[w].drop
      /\ act.row = comAct[w].row /\ act.op = comAct[w].op
  <2>1. "read" \in Steps
    BY DEF Steps, Working, Listing
  <2>. QED
    BY <2>1, <1>2 DEF Acts, Listing
<1>4. row.enum /\ row.unread \in BOOLEAN /\ comAct[w].txt \in BOOLEAN
      /\ (comPlan.text = "history" => comAct[w].txt \/ row.known # {})
  BY <1>1, <1>2 DEF ListTells, Listing, Rows, Acts
<1>5. ItemsTell(items, ~row.unread, comPlan, Truths)
  <2>1. ~row.unread /\ comPlan.text = "file" => "textSafe" \in Truths \/ comAct[w].txt
    BY <1>2, <1>4 DEF RowTells
  <2>2. ~row.unread /\ comPlan.media = {} /\ comPlan.text = "history" =>
          "textSafe" \in Truths \/ comAct[w].txt
    BY <1>2, <1>4 DEF RowTells
  <2>. QED
    BY <2>1, <2>2, <1>2, <1>4, RowItems
<1> HIDE DEF act, items, row
<1>6. /\ CarriedTells(act, Truths, Ready) /\ RowTells(act.row, comPlan, Truths)
      /\ WorkTells(act, row, Truths) /\ act.pc \notin Early
  BY <1>2, <1>3, ListingAct
<1>7. ListTells(act, row, comPlan, Truths)
  BY <1>1, <1>2, <1>3 DEF ListTells, Listing, Loading
<1>8. CASE record_outputs(items, ~row.unread)
  <2>1. /\ Written /\ Truths \subseteq Truths' /\ StateTells' /\ CardsAreCounted'
        /\ Ready \subseteq Ready'
    <3>1. (~row.unread) \in BOOLEAN
      OBVIOUS
    <3>. QED
      BY <3>1, <1>1, <1>2, <1>5, <1>6, <1>8, RecordTells
  <2>2. Later(comPlan, comPlan)
    BY DEF Later
  <2>3. /\ CarriedTells(act, Truths', Ready') /\ RowTells(act.row, comPlan, Truths')
        /\ WorkTells(act, row, Truths') /\ ListTells(act, row, comPlan, Truths')
    BY <1>6, <1>7, <2>1, <2>2, CarriedStays, RowStays, WorkStays, ListStays
  <2>. QED
    BY <1>1, <1>2, <1>3, <1>6, <2>1, <2>3, WriteStep
       DEF row, ComInv, ComTypes, ComTypeOK, JobStates
<1>9. CASE UNCHANGED <<comRun, comTold>>
  BY <1>1, <1>2, <1>3, <1>6, <1>7, <1>9, ActStep DEF row, ComInv, ComTypes, ComTypeOK, JobStates
<1>. QED
  BY <1>8, <1>9 DEF Note, row, items

\* The texts of the run are read, unless a file of them cannot be.
LEMMA ReadTextsMoves == ASSUME ComInv, NEW w \in Workers, ReadTexts(w) PROVE ComMoves
<1> DEFINE row == comMem[w].row
<1>1. /\ comAct[w].pc = "read"
      /\ UNCHANGED <<comPlan, comRemote, comGen, comMade, comRow, comJob, comMem>>
  BY DEF ReadTexts, At, comWorld
<1>2. /\ w \in Actors /\ comAct[w].pc # "off" /\ comRun.state # "none"
      /\ comAct[w] \in Acts /\ comAct[w].op = "none"
      /\ row \in Rows /\ row.prompt /\ RowTells(row, comPlan, Truths)
      /\ RowTells(comAct[w].row, comPlan, Truths) /\ CarriedTells(comAct[w], Truths, Ready)
      /\ ListTells(comAct[w], row, comPlan, Truths)
  BY <1>1, ListHolds DEF Listing
<1> PICK miss \in IF comPlan.text = "file" THEN BOOLEAN ELSE {FALSE} :
      LET found == comAct[w].txt \/ (comPlan.text = "file" /\ ~miss) IN
      /\ IF miss THEN ComFault ELSE UNCHANGED comFaults
      /\ record_outputs(WithText(Statuses(row), found), ~miss)
      /\ comAct' = [comAct EXCEPT ![w].txt = found, ![w].miss = miss,
                       ![w].pc = IF row.unread /\ ~miss THEN "clear" ELSE "load"]
  BY DEF ReadTexts
<1> DEFINE found == comAct[w].txt \/ (comPlan.text = "file" /\ ~miss)
           items == WithText(Statuses(row), found)
           pc == IF row.unread /\ ~miss THEN "clear" ELSE "load"
           act == [comAct[w] EXCEPT !.txt = found, !.miss = miss, !.pc = pc]
<1>3. /\ miss \in BOOLEAN /\ (miss => comPlan.text = "file") /\ found \in BOOLEAN
      /\ (comPlan.text = "file" => miss \/ found) /\ (comAct[w].txt => found)
      /\ (found => comAct[w].txt \/ comPlan.text = "file")
  BY <1>2 DEF Acts
<1>4. /\ comFaults' \in 0..MaxComFaults /\ record_outputs(items, ~miss)
      /\ comAct' = [comAct EXCEPT ![w] = act]
  <2>1. comFaults' \in 0..MaxComFaults
    BY FaultCounts
  <2>. QED
    BY <2>1
<1>5. pc \in {"clear", "load"} /\ (pc = "clear" => ~miss)
  OBVIOUS
<1> HIDE DEF found, pc
<1>6. /\ act \in Acts /\ act.pc = pc /\ act.pc \in Loading /\ act.todo = comAct[w].todo
      /\ act.txt = found /\ act.miss = miss /\ act.st = comAct[w].st
      /\ act.drop = comAct[w].drop /\ act.row = comAct[w].row /\ act.op = comAct[w].op
  <2>1. pc \in Steps
    BY <1>5 DEF Steps, Working, Listing, Loading
  <2>. QED
    BY <2>1, <1>2, <1>3, <1>5 DEF Acts, Loading
<1>7. /\ row.enum /\ comAct[w].todo \subseteq row.known \ row.gone
      /\ (comPlan.text = "history" => comAct[w].txt \/ (row.known # {} /\ comAct[w].todo \subseteq row.down))
      /\ (comAct[w].txt => comPlan.text # "none")
  BY <1>1, <1>2 DEF ListTells, Listing
<1>8. ItemsTell(items, ~miss, comPlan, Truths) /\ (found => "text" \in DOMAIN items)
  <2>1. ~miss /\ comPlan.text = "file" => found
    BY <1>3
  <2>2. comPlan.media = {} /\ comPlan.text = "history" => found
    BY <1>2, <1>3, <1>7 DEF RowTells
  <2>. QED
    BY <2>1, <2>2, <1>2, <1>3, <1>7, RowItems
<1> HIDE DEF act, items, row
<1>9. /\ CarriedTells(act, Truths, Ready) /\ RowTells(act.row, comPlan, Truths)
      /\ WorkTells(act, row, Truths) /\ act.pc \notin Early
  <2>1. act.pc \in Listing
    BY <1>6 DEF Listing
  <2>. QED
    BY <2>1, <1>2, <1>6, ListingAct
<1>10. /\ Written /\ Truths \subseteq Truths' /\ StateTells' /\ CardsAreCounted'
       /\ Ready \subseteq Ready' /\ (~miss => "listed" \in Truths')
       /\ (found => "textSafe" \in Truths')
  <2>1. (~miss) \in BOOLEAN
    OBVIOUS
  <2>. QED
    BY <2>1, <1>1, <1>2, <1>4, <1>8, <1>9, RecordTells
<1>11. /\ CarriedTells(act, Truths', Ready') /\ RowTells(act.row, comPlan, Truths')
       /\ WorkTells(act, row, Truths')
  <2>1. Later(comPlan, comPlan)
    BY DEF Later
  <2>. QED
    BY <2>1, <1>9, <1>10, CarriedStays, RowStays, WorkStays
<1>12. ListTells(act, row, comPlan, Truths')
  BY <1>3, <1>5, <1>6, <1>7, <1>10 DEF ListTells, Listing, Loading
<1>. QED
  BY <1>1, <1>2, <1>4, <1>6, <1>9, <1>10, <1>11, <1>12, WriteStep
     DEF row, ComInv, ComTypes, ComTypeOK, JobStates

\* The mark of an unread text goes when the texts are read.
LEMMA ClearUnreadMoves == ASSUME ComInv, NEW w \in Workers, ClearUnread(w) PROVE ComMoves
<1> DEFINE old == comMem[w].row
           row == [old EXCEPT !.unread = FALSE]
           act == [comAct[w] EXCEPT !.pc = "load"]
<1>1. /\ comAct[w].pc = "clear" /\ Patch(w, row) /\ comAct' = [comAct EXCEPT ![w] = act]
      /\ UNCHANGED <<comPlan, comRemote, comRun, comGen, comMade, comTold, comJob>>
  BY DEF ClearUnread, At, Goes, comWorld
<1>2. /\ w \in Actors /\ comAct[w].pc # "off"
      /\ comAct[w] \in Acts /\ comAct[w].op = "none"
      /\ old \in Rows /\ old.prompt
      /\ RowTells(old, comPlan, Truths) /\ RowIsNumbered(old, Truths)
      /\ RowTells(comAct[w].row, comPlan, Truths) /\ CarriedTells(comAct[w], Truths, Ready)
      /\ ListTells(comAct[w], old, comPlan, Truths)
  BY <1>1, ListHolds DEF Listing, Loading
<1>3. /\ row \in Rows /\ ~row.unread /\ row.prompt /\ row.term = old.term /\ row.seq = old.seq
      /\ row.phase = old.phase /\ row.enum = old.enum /\ row.known = old.known
      /\ row.down = old.down /\ row.gone = old.gone /\ row.textOnly = old.textOnly
  BY <1>2 DEF Rows
<1>4. /\ act \in Acts /\ act.pc = "load" /\ act.pc \in Listing /\ act.todo = comAct[w].todo
      /\ act.txt = comAct[w].txt /\ act.miss = comAct[w].miss /\ act.st = comAct[w].st
      /\ act.drop = comAct[w].drop /\ act.row = comAct[w].row /\ act.op = comAct[w].op
  <2>1. "load" \in Steps
    BY DEF Steps, Working, Listing, Loading
  <2>. QED
    BY <2>1, <1>2 DEF Acts, Listing, Loading
<1> HIDE DEF row, act, old
<1>5. RowTells(row, comPlan, Truths) /\ RowIsNumbered(row, Truths)
  <2>1. comPlan.text = "file" => "textSafe" \in Truths
    BY <1>1, <1>2 DEF ListTells, Loading
  <2>2. RowTells(row, comPlan, Truths)
    BY <2>1, <1>2, <1>3 DEF RowTells
  <2>. QED
    BY <2>2, <1>2, <1>3 DEF RowIsNumbered
<1>6. ListTells(act, row, comPlan, Truths)
  BY <1>1, <1>2, <1>3, <1>4 DEF ListTells, Listing, Loading
<1>7. /\ CarriedTells(act, Truths, Ready) /\ RowTells(act.row, comPlan, Truths)
      /\ WorkTells(act, row, Truths) /\ act.pc \notin Early
  BY <1>2, <1>3, <1>4, ListingAct
<1>. QED
  BY <1>1, <1>2, <1>3, <1>4, <1>5, <1>6, <1>7, PatchStep DEF old

\* An output is fetched, or ComfyUI has it no more.
LEMMA LoadMoves == ASSUME ComInv, NEW w \in Workers, Load(w) PROVE ComMoves
<1> DEFINE old == comMem[w].row
<1>1. /\ comAct[w].pc = "load"
      /\ UNCHANGED <<comPlan, comRemote, comRun, comGen, comMade, comTold, comJob>>
  BY DEF Load, At, comWorld
<1>2. /\ w \in Actors /\ comAct[w].pc # "off"
      /\ comAct[w] \in Acts /\ comAct[w].op = "none"
      /\ old \in Rows /\ old.prompt
      /\ RowTells(old, comPlan, Truths) /\ RowIsNumbered(old, Truths)
      /\ RowTells(comAct[w].row, comPlan, Truths) /\ CarriedTells(comAct[w], Truths, Ready)
      /\ ListTells(comAct[w], old, comPlan, Truths)
  BY <1>1, ListHolds DEF Listing, Loading
<1> PICK m \in comAct[w].todo :
      /\ \/ Patch(w, [old EXCEPT !.down = @ \cup {m}])
         \/ m \notin old.down /\ Patch(w, [old EXCEPT !.gone = @ \cup {m}])
      /\ comAct' = [comAct EXCEPT ![w].pc = "loaded", ![w].todo = @ \ {m}]
  BY DEF Load
<1> DEFINE act == [comAct[w] EXCEPT !.pc = "loaded", !.todo = @ \ {m}]
<1>3. /\ act \in Acts /\ act.pc = "loaded" /\ act.pc \in Listing /\ act.todo = comAct[w].todo \ {m}
      /\ act.txt = comAct[w].txt /\ act.miss = comAct[w].miss /\ act.st = comAct[w].st
      /\ act.drop = comAct[w].drop /\ act.row = comAct[w].row /\ act.op = comAct[w].op
      /\ comAct' = [comAct EXCEPT ![w] = act]
  <2>1. "loaded" \in Steps
    BY DEF Steps, Working, Listing, Loading
  <2>. QED
    BY <2>1, <1>2 DEF Acts, Listing, Loading
<1>4. /\ old.enum /\ comAct[w].todo \subseteq old.known \ old.gone /\ m \in Media
      /\ (comPlan.text = "history" =>
            comAct[w].txt \/ (old.known # {} /\ comAct[w].todo \subseteq old.down))
      /\ (comAct[w].txt => "textSafe" \in Truths)
      /\ (comAct[w].txt => comPlan.text # "none")
  BY <1>1, <1>2 DEF ListTells, Listing, Loading, Acts
<1> HIDE DEF act
<1>5. ASSUME NEW row \in Rows, Patch(w, row), row.prompt, row.term = old.term, row.seq = old.seq,
             row.phase = old.phase, row.enum = old.enum, row.known = old.known,
             row.unread = old.unread, row.textOnly = old.textOnly,
             \/ row.down = old.down \cup {m} /\ row.gone = old.gone
             \/ m \notin old.down /\ row.down = old.down /\ row.gone = old.gone \cup {m}
      PROVE  ComMoves
  <2>1. RowTells(row, comPlan, Truths)
    <3>1. row.down \cup row.gone \subseteq row.known /\ row.down \cap row.gone = {}
      BY <1>2, <1>4, <1>5 DEF RowTells
    <3>2. row.down # {} /\ comPlan.text = "history" => "textSafe" \in Truths
      BY <1>2, <1>4, <1>5 DEF RowTells
    <3>. QED
      BY <3>1, <3>2, <1>2, <1>5 DEF RowTells
  <2>2. RowIsNumbered(row, Truths)
    BY <1>2, <1>5 DEF RowIsNumbered
  <2>3. ListTells(act, row, comPlan, Truths)
    <3>1. act.todo \subseteq row.known \ row.gone
      BY <1>3, <1>4, <1>5
    <3>2. comPlan.text = "history" => act.txt \/ (row.known # {} /\ act.todo \subseteq row.down)
      BY <1>3, <1>4, <1>5
    <3>. QED
      BY <3>1, <3>2, <1>1, <1>2, <1>3, <1>4, <1>5 DEF ListTells, Listing, Loading
  <2>4. /\ CarriedTells(act, Truths, Ready) /\ RowTells(act.row, comPlan, Truths)
        /\ WorkTells(act, row, Truths) /\ act.pc \notin Early
    BY <1>2, <1>3, <1>5, ListingAct
  <2>. QED
    BY <1>1, <1>2, <1>3, <1>5, <2>1, <2>2, <2>3, <2>4, PatchStep
<1>6. CASE Patch(w, [old EXCEPT !.down = @ \cup {m}])
  <2> DEFINE row == [old EXCEPT !.down = @ \cup {m}]
  <2>1. /\ row \in Rows /\ row.prompt /\ row.term = old.term /\ row.seq = old.seq
        /\ row.phase = old.phase /\ row.enum = old.enum /\ row.known = old.known
        /\ row.unread = old.unread /\ row.textOnly = old.textOnly
        /\ row.down = old.down \cup {m} /\ row.gone = old.gone
    BY <1>2, <1>4 DEF Rows
  <2>2. Patch(w, row)
    BY <1>6
  <2> HIDE DEF row
  <2>. QED
    BY <2>1, <2>2, <1>5
<1>7. CASE m \notin old.down /\ Patch(w, [old EXCEPT !.gone = @ \cup {m}])
  <2> DEFINE row == [old EXCEPT !.gone = @ \cup {m}]
  <2>1. /\ row \in Rows /\ row.prompt /\ row.term = old.term /\ row.seq = old.seq
        /\ row.phase = old.phase /\ row.enum = old.enum /\ row.known = old.known
        /\ row.unread = old.unread /\ row.textOnly = old.textOnly
        /\ row.down = old.down /\ row.gone = old.gone \cup {m}
    BY <1>2, <1>4 DEF Rows
  <2>2. Patch(w, row)
    BY <1>7
  <2> HIDE DEF row
  <2>. QED
    BY <2>1, <2>2, <1>5, <1>7
<1>. QED
  BY <1>6, <1>7

\* What was fetched is noted.
LEMMA NoteLoadedMoves == ASSUME ComInv, NEW w \in Workers, NoteLoaded(w) PROVE ComMoves
<1> DEFINE row == comMem[w].row
           act == [comAct[w] EXCEPT !.pc = "load"]
           items == Statuses(row)
           miss == comAct[w].miss
<1>1. /\ comAct[w].pc = "loaded" /\ comAct' = [comAct EXCEPT ![w] = act]
      /\ record_outputs(items, ~miss)
      /\ UNCHANGED <<comPlan, comRemote, comGen, comMade, comRow, comJob, comMem, comFaults>>
  BY DEF NoteLoaded, At, Goes, comWorld
<1>2. /\ w \in Actors /\ comAct[w].pc # "off" /\ comRun.state # "none"
      /\ comAct[w] \in Acts /\ comAct[w].op = "none"
      /\ row \in Rows /\ row.prompt /\ RowTells(row, comPlan, Truths)
      /\ RowTells(comAct[w].row, comPlan, Truths) /\ CarriedTells(comAct[w], Truths, Ready)
      /\ ListTells(comAct[w], row, comPlan, Truths)
  BY <1>1, ListHolds DEF Listing, Loading
<1>3. /\ act \in Acts /\ act.pc = "load" /\ act.pc \in Listing /\ act.todo = comAct[w].todo
      /\ act.txt = comAct[w].txt /\ act.miss = miss /\ act.st = comAct[w].st
      /\ act.drop = comAct[w].drop /\ act.row = comAct[w].row /\ act.op = comAct[w].op
  <2>1. "load" \in Steps
    BY DEF Steps, Working, Listing, Loading
  <2>. QED
    BY <2>1, <1>2 DEF Acts, Listing, Loading
<1>4. ItemsTell(items, ~miss, comPlan, Truths)
  <2>1. ~miss /\ comPlan.text = "file" => "textSafe" \in Truths
    BY <1>1, <1>2 DEF ListTells, Loading
  <2>2. comPlan.media = {} /\ comPlan.text = "history" => "textSafe" \in Truths
    BY <1>1, <1>2 DEF ListTells, Listing, Loading, RowTells
  <2>3. row.enum /\ (~miss) \in BOOLEAN
    BY <1>1, <1>2 DEF ListTells, Listing, Loading
  <2>. QED
    BY <2>1, <2>2, <2>3, <1>2, RowItems
<1> HIDE DEF act, items, row, miss
<1>5. /\ CarriedTells(act, Truths, Ready) /\ RowTells(act.row, comPlan, Truths)
      /\ WorkTells(act, row, Truths) /\ act.pc \notin Early
  BY <1>2, <1>3, ListingAct
<1>6. ListTells(act, row, comPlan, Truths)
  BY <1>1, <1>2, <1>3 DEF ListTells, Listing, Loading, miss
<1>7. /\ Written /\ Truths \subseteq Truths' /\ StateTells' /\ CardsAreCounted'
      /\ Ready \subseteq Ready'
  <2>1. (~miss) \in BOOLEAN
    OBVIOUS
  <2>. QED
    BY <2>1, <1>1, <1>2, <1>4, <1>5, RecordTells
<1>8. /\ CarriedTells(act, Truths', Ready') /\ RowTells(act.row, comPlan, Truths')
      /\ WorkTells(act, row, Truths') /\ ListTells(act, row, comPlan, Truths')
  <2>1. Later(comPlan, comPlan)
    BY DEF Later
  <2>. QED
    BY <2>1, <1>5, <1>6, <1>7, CarriedStays, RowStays, WorkStays, ListStays
<1>. QED
  BY <1>1, <1>2, <1>3, <1>5, <1>7, <1>8, WriteStep DEF row, ComInv, ComTypes, ComTypeOK, JobStates

\* What is done, is done for a reason.
LEMMA DoneFor ==
  /\ "unnumbered" \in Truths => "done" \in Truths
  /\ "failure" \in Truths => "done" \in Truths
  /\ "settled" \in Truths => "done" \in Truths
BY DEF Truths, NothingRemains, NothingToFetch

\* An actor that turns to a step forgets what it carried.
Turned(pc, op) == [NoAct EXCEPT !.pc = pc, !.op = op]

LEMMA TurnsTo ==
  ASSUME NEW op \in {"none", "fail"}, NEW pc \in Steps,
         pc \notin {"saveMark", "save", "failSettle", "collectJobs", "collect"} \cup Judging,
         op = "none" \/ pc \notin Keeping \cup {"op", "tell"}
  PROVE  LET act == Turned(pc, op) IN
         /\ act \in Acts /\ act.pc = pc /\ act.op = op /\ act.full /\ act.row = NoRow
         /\ \A truths, ready : CarriedTells(act, truths, ready)
         /\ \A plan, truths : RowTells(act.row, plan, truths)
<1> DEFINE act == Turned(pc, op)
<1>1. /\ act \in Acts /\ act.pc = pc /\ act.op = op /\ act.full /\ act.row = NoRow
      /\ act.st = "none" /\ ~act.drop
  BY NoActTells DEF Acts, NoAct, Turned
<1> HIDE DEF act
<1>2. \A truths, ready : CarriedTells(act, truths, ready)
  BY <1>1 DEF CarriedTells, Settled, Keeping, Judging
<1>. QED
  BY <1>1, <1>2, NoRowTells DEF act

\* The list is closed: what it has is on its row, and the receipt is saved next.
LEMMA CloseRunMoves == ASSUME ComInv, NEW w \in Workers, CloseRun(w) PROVE ComMoves
<1> DEFINE old == comMem[w].row
           turned(pc) == Turned(pc, comAct[w].op)
<1>1. /\ comAct[w].pc = "load"
      /\ UNCHANGED <<comPlan, comRemote, comRun, comGen, comMade, comTold, comJob>>
  BY DEF CloseRun, At, comWorld
<1>2. /\ w \in Actors /\ comAct[w].pc # "off" /\ comRun.state # "none"
      /\ comAct[w] \in Acts /\ comAct[w].op = "none"
      /\ old \in Rows /\ old.prompt /\ old # NoRow
      /\ RowTells(old, comPlan, Truths) /\ RowIsNumbered(old, Truths)
      /\ ListTells(comAct[w], old, comPlan, Truths)
  BY <1>1, ListHolds DEF Listing, Loading, NoRow
<1>3. ASSUME NEW pc \in {"fail", "saveRead"}
      PROVE  /\ turned(pc) \in Acts /\ turned(pc).pc \notin Early
             /\ CarriedTells(turned(pc), Truths, Ready) /\ RowTells(turned(pc).row, comPlan, Truths)
             /\ \A r : /\ ListTells(turned(pc), r, comPlan, Truths)
                       /\ r.prompt => WorkTells(turned(pc), r, Truths)
  <2>1. /\ pc \in Steps
        /\ pc \notin {"saveMark", "save", "failSettle", "collectJobs", "collect"} \cup Judging
    BY DEF Steps, Keeping, Judging
  <2>2. /\ turned(pc) \in Acts /\ turned(pc).pc = pc /\ turned(pc).op = "none" /\ turned(pc).full
        /\ CarriedTells(turned(pc), Truths, Ready) /\ RowTells(turned(pc).row, comPlan, Truths)
    <3>1. comAct[w].op \in {"none", "fail"} /\ (comAct[w].op = "none" \/ pc \notin Keeping \cup {"op", "tell"})
      BY <1>2
    <3>2. turned(pc) \in Acts
      BY <2>1, <3>1, TurnsTo
    <3>3. turned(pc).pc = pc /\ turned(pc).full /\ turned(pc).op = comAct[w].op
      BY <2>1, <3>1, TurnsTo
    <3>4. CarriedTells(turned(pc), Truths, Ready)
      BY <2>1, <3>1, TurnsTo
    <3>5. RowTells(turned(pc).row, comPlan, Truths)
      BY <2>1, <3>1, TurnsTo
    <3>. QED BY <3>2, <3>3, <3>4, <3>5, <1>2
  <2> HIDE DEF turned
  <2>3. pc \notin Early \cup Working
    BY DEF Early, First, Working, Listing, Loading
  <2>4. \A r : r.prompt => r # NoRow
    BY DEF NoRow
  <2>. QED
    BY <2>2, <2>3, <2>4 DEF ListTells, WorkTells, Listing, Loading, Working
<1> DEFINE row == [old EXCEPT
                     !.phase = IF old.known # {} /\ old.known \subseteq old.down
                                 THEN "collected" ELSE "result_pending",
                     !.textOnly = old.known = {} /\ comAct[w].txt]
           next == IF old.down = {} /\ ~comAct[w].txt THEN "fail" ELSE "saveRead"
<1>4. CASE comAct[w].miss
  <2>1. UNCHANGED <<comRow, comMem, comFaults>> /\ comAct' = [comAct EXCEPT ![w] = turned("fail")]
    BY <1>4 DEF CloseRun, Turns, Turned
  <2> HIDE DEF turned
  <2>. QED
    BY <2>1, <1>1, <1>2, <1>3, ActStep DEF ComInv, ComTypes, ComTypeOK, JobStates
<1>5. CASE ~comAct[w].miss
  <2>1. Patch(w, row) /\ comAct' = [comAct EXCEPT ![w] = turned(next)]
    BY <1>5 DEF CloseRun, Turns, Turned
  <2>2. /\ row \in Rows /\ row.phase \in {"collected", "result_pending"} /\ row.prompt
        /\ row.term = old.term /\ row.seq = old.seq /\ row.enum = old.enum
        /\ row.known = old.known /\ row.down = old.down /\ row.gone = old.gone
        /\ row.unread = old.unread /\ (row.textOnly => old.known = {} /\ comAct[w].txt)
    BY <1>2 DEF Rows, Phases, Acts
  <2>3. next \in {"fail", "saveRead"}
    OBVIOUS
  <2> HIDE DEF row, next, turned, old
  <2>4. RowTells(row, comPlan, Truths)
    <3>1. comAct[w].txt => old.enum /\ {"textSafe", "listed"} \subseteq Truths
      BY <1>1, <1>2, <1>5 DEF ListTells, Listing, Loading
    <3>. QED
      BY <3>1, <1>2, <2>2 DEF RowTells
  <2>5. RowIsNumbered(row, Truths)
    BY <2>2 DEF RowIsNumbered
  <2>. QED
    BY <1>1, <1>2, <1>3, <2>1, <2>2, <2>3, <2>4, <2>5, PatchStep DEF old
<1>. QED
  BY <1>4, <1>5

\* A step of the search fails; what is on the row stays.
LEMMA WorkFailsMoves == ASSUME ComInv, NEW w \in Workers, WorkFails(w) PROVE ComMoves
<1> DEFINE act == Turned("fail", comAct[w].op)
<1>1. /\ comAct[w].pc \in Working /\ comAct' = [comAct EXCEPT ![w] = act]
      /\ UNCHANGED <<comPlan, comRemote, comRun, comGen, comMade, comTold, comJob, comRow, comMem>>
  BY DEF WorkFails, At, comWorld, comDisk, Working, Listing, Loading, Turns, Turned
<1>2. w \in Actors /\ comAct[w].pc # "off" /\ comMem[w].row.prompt
  BY <1>1, SearchGoes
<1>3. /\ comRun.state # "none" /\ comAct[w] \in Acts
      /\ WorkTells(comAct[w], comMem[w].row, Truths)
  BY <1>2, Active
<1>4. comAct[w].op = "none" /\ comMem[w].row # NoRow
  BY <1>1, <1>2, <1>3 DEF WorkTells, NoRow
<1>5. /\ act \in Acts /\ act.pc = "fail" /\ act.op = "none" /\ act.full
      /\ CarriedTells(act, Truths, Ready) /\ RowTells(act.row, comPlan, Truths)
  <2>1. /\ "fail" \in Steps
        /\ "fail" \notin {"saveMark", "save", "failSettle", "collectJobs", "collect"} \cup Judging
    BY DEF Steps, Judging
  <2>. QED
    <3>1. comAct[w].op \in {"none", "fail"} /\ (comAct[w].op = "none" \/ "fail" \notin Keeping \cup {"op", "tell"})
      BY <1>4
    <3>2. act \in Acts
      BY <2>1, <3>1, TurnsTo
    <3>3. act.pc = "fail" /\ act.full /\ act.op = comAct[w].op
      BY <2>1, <3>1, TurnsTo
    <3>4. CarriedTells(act, Truths, Ready)
      BY <2>1, <3>1, TurnsTo
    <3>5. RowTells(act.row, comPlan, Truths)
      BY <2>1, <3>1, TurnsTo
    <3>. QED BY <3>2, <3>3, <3>4, <3>5, <1>4
<1> HIDE DEF act
<1>6. ListTells(act, comMem[w].row, comPlan, Truths) /\ WorkTells(act, comMem[w].row, Truths)
      /\ act.pc \notin Early
  BY <1>2, <1>4, <1>5 DEF ListTells, WorkTells, Listing, Loading, Working, Keeping, Early, First
<1>7. comFaults' \in 0..MaxComFaults
  BY FaultCounts DEF WorkFails
<1>. QED
  BY <1>1, <1>2, <1>3, <1>5, <1>6, <1>7, ActStep DEF ComInv, ComTypes, ComTypeOK, JobStates

-----------------------------------------------------------------------------
(*****************************************************************************)
(* The failure and the end of a worker.                                      *)
(*****************************************************************************)

\* An actor writes the receipt and may drop the journal row.
LEMMA DropStep ==
  ASSUME ComInv, NEW a \in Actors, NEW act \in Acts, comAct' = [comAct EXCEPT ![a] = act],
         comRun.state # "none", act.pc \notin Early, a \in Workers => comAct[a].pc # "off",
         Written, StateTells', Truths \subseteq Truths',
         UNCHANGED <<comPlan, comRemote, comMem, comGen, comMade, comJob>>,
         \/ comRow' = comRow
         \/ comRow' = NoRow /\ {"done", "settled"} \cap Truths' # {}
            /\ ("settled" \in Truths' \/ "done" \in Truths),
         comFaults' \in 0..MaxComFaults,
         RowTells(act.row, comPlan, Truths'), CarriedTells(act, Truths', Ready'),
         a \in Workers => /\ ListTells(act, comMem[a].row, comPlan, Truths')
                          /\ WorkTells(act, comMem[a].row, Truths')
  PROVE  ComMoves
<1>1. comAct' \in [Actors -> Acts] /\ comAct'[a] = act /\ OthersStay(a)
  BY DEF ComInv, ComTypes, OthersStay
<1>2. WorkBegins'
  <2>1. 0 \in Actors /\ \A w \in Workers : w \in Actors
    BY ComfyAssumption DEF Workers, Actors
  <2>2. comAct'[0].pc \in Early => comAct'[0] = comAct[0]
    BY <1>1, <2>1 DEF OthersStay
  <2>3. \A w \in Workers : comAct[w] = NoAct => comAct'[w] = NoAct
    BY <1>1, <2>1 DEF OthersStay, NoAct
  <2>4. Numbered' => Numbered
    BY DEF Numbered, NoRow
  <2>. QED
    BY <2>2, <2>3, <2>4, BeginsStay DEF ComInv, Written, RunGrows
<1>3. Later(comPlan, comPlan')
  BY DEF Later
<1>4. RowTells(comRow', comPlan', Truths') /\ RowIsNumbered(comRow', Truths') /\ comRow' \in Rows
  <2>1. CASE comRow' = comRow
    BY <2>1, <1>3, RowStays, RowStaysNumbered DEF ComInv, RowsTell, ComTypes, ComTypeOK
  <2>2. CASE comRow' = NoRow
    BY <2>2, NoRowTells
  <2>. QED
    BY <2>1, <2>2
<1>5. StepTypes
  BY <1>1, <1>4 DEF StepTypes, ComInv, ComTypes, ComTypeOK, JobStates
<1>6. a \in Workers => RowTells(comMem'[a].row, comPlan', Truths')
                       /\ RowIsNumbered(comMem'[a].row, Truths')
  BY RowStays, RowStaysNumbered, <1>3 DEF ComInv, RowsTell
<1>7. EvidenceStands
  <2> SUFFICES ASSUME comRow.prompt, ~comRow'.prompt
               PROVE  NothingToFetch \/ comRun'.state \in Settled
    BY DEF EvidenceStands
  <2>1. "settled" \in Truths' => comRun'.state \in Settled
    BY DEF Truths, IsSettled
  <2>2. "done" \in Truths => NothingToFetch \/ comRun.state \in Settled
    BY DEF Truths, NothingRemains, NeverNumbered, Numbered, IsSettled
  <2>. QED
    BY <2>1, <2>2 DEF Written, RunGrows
<1>8. CardsAreCounted'
  BY DEF ComInv, CardsAreCounted
<1>. QED
  BY <1>1, <1>2, <1>3, <1>4, <1>5, <1>6, <1>7, <1>8, StepTells

\* What an actor drops may go.
LEMMA QuietDropStep ==
  ASSUME ComInv, NEW a \in Actors, NEW act \in Acts, comAct' = [comAct EXCEPT ![a] = act],
         comRun.state # "none", act.pc \notin Early, a \in Workers => comAct[a].pc # "off",
         UNCHANGED <<comPlan, comRemote, comRun, comMem, comGen, comMade, comTold, comJob>>,
         DropRow(a) \/ UNCHANGED comRow, comFaults' \in 0..MaxComFaults,
         RowTells(act.row, comPlan, Truths), CarriedTells(act, Truths, Ready),
         a \in Workers => /\ ListTells(act, comMem[a].row, comPlan, Truths)
                          /\ WorkTells(act, comMem[a].row, Truths)
  PROVE  ComMoves
<1>1. Later(comPlan, comPlan') /\ Ready' = Ready
  BY DEF Later, Ready
<1>2. Written
  BY QuietWritten
<1>3. comRow' = comRow \/ (comRow' = NoRow /\ "done" \in Truths)
  <2>1. comAct[a].drop => "done" \in Truths
    BY DEF ComInv, ActsTell, CarriedTells
  <2>. QED
    BY <2>1 DEF DropRow
<1>4. NeverNumbered => NeverNumbered'
  <2>1. comAct'[0].pc \in Early => comAct[0].pc \in Early
    BY ComfyAssumption DEF ComInv, ComTypes, Actors, Workers
  <2>2. Numbered' => Numbered
    BY <1>3 DEF Numbered, NoRow
  <2>. QED
    BY <2>1, <2>2 DEF NeverNumbered
<1>5. Truths \subseteq Truths'
  BY <1>1, <1>2, <1>4, TruthsGrow DEF ComInv, Written
<1>6. StateTells'
  BY <1>1, <1>2, <1>5, StateStaysTrue DEF ComInv
<1>7. RowTells(act.row, comPlan, Truths') /\ CarriedTells(act, Truths', Ready')
  BY <1>1, <1>5, RowStays, CarriedStays
<1>8. a \in Workers => /\ ListTells(act, comMem[a].row, comPlan, Truths')
                       /\ WorkTells(act, comMem[a].row, Truths')
  BY <1>1, <1>5, ListStays, WorkStays
<1>. QED
  BY <1>2, <1>3, <1>5, <1>6, <1>7, <1>8, DropStep

\* The failure is noted on the row, unless it says more already.
LEMMA FailMoves == ASSUME ComInv, NEW w \in Workers, Fail(w) PROVE ComMoves
<1> DEFINE old == comMem[w].row
           phase == IF old.term # "success" THEN "orphaned"
                    ELSE IF all_downloaded(old) THEN "collected" ELSE "result_pending"
           row == [old EXCEPT !.phase = phase]
           act == [comAct[w] EXCEPT !.pc = "failRead"]
<1>1. /\ comAct[w].pc = "fail" /\ comAct' = [comAct EXCEPT ![w] = act]
      /\ UNCHANGED <<comPlan, comRemote, comRun, comGen, comMade, comTold, comJob>>
      /\ \/ /\ old.phase \in {"unknown", "not_submitted", "failed"}
            /\ UNCHANGED <<comRow, comMem, comFaults>>
         \/ /\ old.phase \notin {"unknown", "not_submitted", "failed"}
            /\ Patch(w, row)
  BY DEF Fail, At, Goes, comWorld
<1>2. w \in Actors /\ comAct[w].pc # "off"
  BY <1>1 DEF Actors
<1>3. /\ comRun.state # "none" /\ comAct[w] \in Acts
      /\ RowTells(comAct[w].row, comPlan, Truths) /\ CarriedTells(comAct[w], Truths, Ready)
      /\ WorkTells(comAct[w], old, Truths) /\ old \in Rows
      /\ RowTells(old, comPlan, Truths) /\ RowIsNumbered(old, Truths)
  BY <1>2, Active
<1>4. /\ act \in Acts /\ act.pc = "failRead" /\ CarriedTells(act, Truths, Ready)
  <2>1. "failRead" \in Steps \ (Keeping \cup Judging
                    \cup {"op", "tell", "failSettle", "collectJobs", "collect"})
    BY DEF Steps, Keeping, Judging
  <2>. QED
    BY <2>1, <1>3, GoesCarried
<1>5. act.row = comAct[w].row /\ act.full = comAct[w].full /\ act.full
  BY <1>1, <1>3 DEF Acts, WorkTells, Listing, Loading
<1> HIDE DEF act, phase
<1>6. \A r : /\ ListTells(act, r, comPlan, Truths)
             /\ (r = NoRow => "unnumbered" \in Truths) => WorkTells(act, r, Truths)
  BY <1>4, <1>5 DEF ListTells, WorkTells, Listing, Loading, Working, Keeping, Early, First
<1>7. act.pc \notin Early
  BY <1>4 DEF Early, First
<1>8. CASE old.phase \in {"unknown", "not_submitted", "failed"} /\ UNCHANGED <<comRow, comMem, comFaults>>
  <2>1. old = NoRow => "unnumbered" \in Truths
    BY <1>1, <1>3 DEF WorkTells
  <2>. QED
    BY <2>1, <1>1, <1>2, <1>3, <1>4, <1>5, <1>6, <1>7, <1>8, ActStep
       DEF ComInv, ComTypes, ComTypeOK, JobStates
<1>9. CASE old.phase \notin {"unknown", "not_submitted", "failed"} /\ Patch(w, row)
  <2>1. old.prompt
    BY <1>1, <1>3, <1>9 DEF WorkTells
  <2>2. phase \in {"orphaned", "collected", "result_pending"}
    BY DEF phase
  <2>3. /\ row \in Rows /\ row.phase = phase /\ row.prompt /\ row.term = old.term
        /\ row.seq = old.seq /\ row.enum = old.enum /\ row.known = old.known
        /\ row.down = old.down /\ row.gone = old.gone
        /\ row.unread = old.unread /\ row.textOnly = old.textOnly
    BY <1>3, <2>1, <2>2 DEF Rows, Phases
  <2> HIDE DEF row
  <2>4. row # NoRow
    BY <2>3 DEF NoRow
  <2>5. RowTells(row, comPlan, Truths) /\ RowIsNumbered(row, Truths)
    BY <1>3, <2>2, <2>3 DEF RowTells, RowIsNumbered
  <2>. QED
    BY <1>1, <1>2, <1>3, <1>4, <1>5, <1>6, <1>7, <1>9, <2>1, <2>3, <2>4, <2>5, PatchStep DEF old
<1>. QED
  BY <1>1, <1>8, <1>9

\* What the worker makes of its failure: failed only when nothing can be fetched.
LEMMA FailReadMoves == ASSUME ComInv, NEW w \in Workers, FailRead(w) PROVE ComMoves
<1> DEFINE row == comMem[w].row
           any == Outputs(comRun) # {}
           certain == row = NoRow \/ row.phase = "not_submitted" \/ row.term = "failure"
           pc == IF any THEN "saveRead" ELSE "failSettle"
           st == IF any THEN "needs_collect"
                 ELSE IF certain THEN "failed"
                 ELSE IF row.prompt THEN "needs_collect" ELSE "unknown"
           act == [comAct[w] EXCEPT !.pc = pc, !.op = "fail", !.st = st]
<1>1. /\ comAct[w].pc = "failRead" /\ comAct' = [comAct EXCEPT ![w] = act]
      /\ UNCHANGED <<comPlan, comRemote, comRun, comGen, comMade, comTold, comJob, comRow, comMem,
                     comFaults>>
  BY DEF FailRead, At, comWorld, comDisk
<1>2. w \in Actors /\ comAct[w].pc # "off"
  BY <1>1 DEF Actors
<1>3. /\ comRun.state # "none" /\ comAct[w] \in Acts
      /\ RowTells(comAct[w].row, comPlan, Truths) /\ CarriedTells(comAct[w], Truths, Ready)
      /\ WorkTells(comAct[w], row, Truths) /\ row \in Rows
      /\ RowTells(row, comPlan, Truths) /\ RowIsNumbered(row, Truths)
  BY <1>2, Active
<1>4. st \in {"needs_collect", "failed", "unknown"} /\ pc \in {"saveRead", "failSettle"}
  OBVIOUS
<1>5. st = "failed" => "done" \in Truths
  <2>1. row = NoRow => "unnumbered" \in Truths
    BY <1>1, <1>3 DEF WorkTells
  <2>2. row.phase = "not_submitted" => "unnumbered" \in Truths
    BY <1>3 DEF RowIsNumbered
  <2>3. row.term = "failure" => "failure" \in Truths
    BY <1>3 DEF RowTells
  <2>. QED
    BY <2>1, <2>2, <2>3, DoneFor
<1> HIDE DEF st, pc
<1>6. /\ act \in Acts /\ act.pc = pc /\ act.op = "fail" /\ act.st = st /\ act.row = comAct[w].row
      /\ act.drop = comAct[w].drop /\ act.full = comAct[w].full
  <2>1. pc \in Steps /\ st \in RunStates
    BY <1>4 DEF Steps, Keeping, RunStates
  <2>. QED
    BY <2>1, <1>3 DEF Acts
<1>7. act.full
  BY <1>1, <1>3, <1>6 DEF WorkTells, Listing, Loading
<1> HIDE DEF act
<1>8. CarriedTells(act, Truths, Ready)
  BY <1>3, <1>4, <1>5, <1>6 DEF CarriedTells, Settled, Judging
<1>9. ListTells(act, row, comPlan, Truths) /\ WorkTells(act, row, Truths) /\ act.pc \notin Early
  BY <1>4, <1>6, <1>7 DEF ListTells, WorkTells, Listing, Loading, Working, Keeping, Early, First
<1>. QED
  BY <1>1, <1>2, <1>3, <1>6, <1>8, <1>9, ActStep DEF ComInv, ComTypes, ComTypeOK, JobStates

LEMMA FailSettleMoves == ASSUME ComInv, NEW w \in Workers, FailSettle(w) PROVE ComMoves
<1> PICK drop \in BOOLEAN :
      /\ drop = RowIsDone(comRun')
      /\ comAct' = [comAct EXCEPT ![w].pc = "failAck", ![w].drop = drop]
  <2>1. RowIsDone(comRun') \in BOOLEAN
    BY DEF RowIsDone, isRunFullySaved
  <2>. QED
    BY <2>1 DEF FailSettle
<1> DEFINE act == [comAct[w] EXCEPT !.pc = "failAck", !.drop = drop]
           s == comAct[w].st
<1>1. /\ comAct[w].pc = "failSettle" /\ comAct' = [comAct EXCEPT ![w] = act] /\ settle(s)
      /\ UNCHANGED <<comPlan, comRemote, comGen, comMade, comRow, comJob, comMem, comFaults>>
  BY DEF FailSettle, At, comWorld
<1>2. w \in Actors /\ comAct[w].pc # "off"
  BY <1>1 DEF Actors
<1>3. /\ comRun.state # "none" /\ comAct[w] \in Acts
      /\ RowTells(comAct[w].row, comPlan, Truths) /\ CarriedTells(comAct[w], Truths, Ready)
      /\ WorkTells(comAct[w], comMem[w].row, Truths)
  BY <1>2, Active
<1>4. /\ s \in {"needs_collect", "failed", "unknown"} /\ comAct[w].op = "fail"
      /\ (s = "failed" => Truths \cap {"done", "any"} # {})
  BY <1>1, <1>3 DEF CarriedTells
<1>5. /\ act \in Acts /\ act.pc = "failAck" /\ act.op = "fail" /\ act.st = s
      /\ act.row = comAct[w].row /\ act.drop = drop /\ act.full = comAct[w].full /\ act.full
  <2>1. "failAck" \in Steps
    BY DEF Steps
  <2>. QED
    BY <2>1, <1>1, <1>3, <1>4 DEF Acts, WorkTells, Listing, Loading
<1> HIDE DEF act, s
<1>6. act.pc \notin Early
  BY <1>5 DEF Early, First
<1>7. NeverNumbered => NeverNumbered'
  <2>1. comRun'.state # "none"
    <3>1. s \in RunStates \ {"none"} /\ s \notin Settled
      BY <1>4 DEF RunStates, Settled
    <3>. QED
      BY <3>1, <1>1, <1>3, SettleWrites DEF ComInv, Written, RunGrows
  <2>. QED
    BY <2>1, <1>1, <1>2, <1>3, <1>6, ActBegins
<1>8. /\ Written /\ StateTells' /\ Truths \subseteq Truths'
      /\ (RowIsDone(comRun') => "done" \in Truths')
  <2>1. s \in RunStates \ {"none"} /\ s \notin Settled /\ s # "saved"
    BY <1>4 DEF RunStates, Settled
  <2>. QED
    BY <2>1, <1>1, <1>3, <1>4, <1>7, SettledIsTrue DEF ComInv
<1>9. RowTells(act.row, comPlan, Truths')
  BY <1>3, <1>5, <1>8, RowStays DEF Later
<1>10. CarriedTells(act, Truths', Ready')
  BY <1>4, <1>5, <1>8 DEF CarriedTells, Settled, Judging, Keeping
<1>11. ListTells(act, comMem[w].row, comPlan, Truths') /\ WorkTells(act, comMem[w].row, Truths')
  BY <1>5 DEF ListTells, WorkTells, Listing, Loading, Working, Keeping, Early, First
<1>12. CardsAreCounted'
  BY <1>1 DEF ComInv, CardsAreCounted
<1>. QED
  BY <1>1, <1>2, <1>3, <1>5, <1>6, <1>8, <1>9, <1>10, <1>11, <1>12, WriteStep
     DEF ComInv, ComTypes, ComTypeOK, JobStates

LEMMA FailAckMoves == ASSUME ComInv, NEW w \in Workers, FailAck(w) PROVE ComMoves
<1> DEFINE act == Turned("end", comAct[w].op)
<1>1. /\ comAct[w].pc = "failAck" /\ comAct' = [comAct EXCEPT ![w] = act]
      /\ UNCHANGED <<comPlan, comRemote, comRun, comGen, comMade, comTold, comJob, comMem>>
      /\ DropRow(w) \/ UNCHANGED comRow
      /\ comFaults' \in 0..MaxComFaults
  BY FaultCounts DEF FailAck, At, comWorld, Turns, Turned
<1>2. w \in Actors /\ comAct[w].pc # "off"
  BY <1>1 DEF Actors
<1>3. comRun.state # "none" /\ comAct[w] \in Acts
  BY <1>2, Active
<1>4. /\ act \in Acts /\ act.pc = "end" /\ act.full
      /\ CarriedTells(act, Truths, Ready) /\ RowTells(act.row, comPlan, Truths)
  <2>1. /\ "end" \in Steps /\ comAct[w].op \in {"none", "fail"} /\ "end" \notin Keeping \cup {"op", "tell"}
        /\ "end" \notin {"saveMark", "save", "failSettle", "collectJobs", "collect"} \cup Judging
    BY <1>3 DEF Steps, Judging, Keeping, Acts
  <2>2. act \in Acts /\ act.pc = "end" /\ act.full
    BY <2>1, TurnsTo
  <2>3. CarriedTells(act, Truths, Ready)
    BY <2>1, TurnsTo
  <2>4. RowTells(act.row, comPlan, Truths)
    BY <2>1, TurnsTo
  <2>. QED
    BY <2>2, <2>3, <2>4
<1> HIDE DEF act
<1>5. /\ ListTells(act, comMem[w].row, comPlan, Truths) /\ WorkTells(act, comMem[w].row, Truths)
      /\ act.pc \notin Early
  BY <1>4 DEF ListTells, WorkTells, Listing, Loading, Working, Keeping, Early, First
<1>. QED
  BY <1>1, <1>2, <1>3, <1>4, <1>5, QuietDropStep

\* A worker is over: its copy of the row goes with it.
LEMMA WorkEndsMoves == ASSUME ComInv, NEW w \in Workers, WorkEnds(w) PROVE ComMoves
<1>1. /\ comAct[w].pc = "end" /\ comAct' = [comAct EXCEPT ![w] = NoAct]
      /\ comMem' = [comMem EXCEPT ![w] = NoMem] /\ comJob' = [comJob EXCEPT ![w] = "ended"]
      /\ UNCHANGED <<comPlan, comRemote, comRun, comGen, comMade, comTold, comRow, comFaults>>
  BY DEF WorkEnds, At, Ends, comWorld, comDisk
<1>2. w \in Actors /\ comAct[w].pc # "off" /\ 0 \in Actors
  BY <1>1, ComfyAssumption DEF Actors, Workers
<1>3. comRun.state # "none"
  BY <1>2, Active
<1>4. /\ comAct' \in [Actors -> Acts] /\ comAct'[w] = NoAct
      /\ \A b \in Actors \ {w} : comAct'[b] = comAct[b]
  BY <1>1, <1>2, NoActTells DEF ComInv, ComTypes
<1>5. NoMem \in [row : Rows, kept : Phases] /\ NoMem.row = NoRow
  BY NoRowTells DEF NoMem, Phases
<1>6. /\ comMem' \in [Workers -> [row : Rows, kept : Phases]] /\ comMem'[w].row = NoRow
      /\ \A v \in Workers \ {w} : comMem'[v] = comMem[v]
  BY <1>1, <1>5 DEF ComInv, ComTypes, ComTypeOK
<1>7. Numbered' => Numbered
  BY <1>1, <1>6 DEF Numbered, NoRow
<1>8. WorkBegins' /\ (NeverNumbered => NeverNumbered')
  <2>1. comAct'[0].pc \in Early => comAct'[0] = comAct[0]
    BY <1>2, <1>4 DEF NoAct, Early, First
  <2>2. \A v \in Workers : comAct[v] = NoAct => comAct'[v] = NoAct
    BY <1>4 DEF Actors
  <2>. QED
    BY <2>1, <2>2, <1>1, <1>3, <1>7, BeginsStay DEF ComInv
<1>9. Written /\ Later(comPlan, comPlan')
  BY <1>1, QuietWritten DEF Later
<1>10. Truths \subseteq Truths'
  BY <1>1, <1>8, <1>9, TruthsGrow DEF ComInv, Written
<1>11. StateTells'
  BY <1>1, <1>9, <1>10, StateStaysTrue DEF ComInv
<1>12. RowTells(comRow', comPlan', Truths') /\ RowIsNumbered(comRow', Truths')
  BY <1>1, <1>9, <1>10, RowStays, RowStaysNumbered DEF ComInv, RowsTell
<1>13. StepTypes
  <2>1. comJob' \in [Workers -> JobStates]
    BY <1>1 DEF ComInv, ComTypes, ComTypeOK, JobStates
  <2>. QED
    BY <2>1, <1>1, <1>4, <1>6 DEF StepTypes, ComInv, ComTypes, ComTypeOK
<1>14. /\ RowTells(comMem'[w].row, comPlan', Truths') /\ RowIsNumbered(comMem'[w].row, Truths')
       /\ RowTells(comAct'[w].row, comPlan', Truths') /\ CarriedTells(comAct'[w], Truths', Ready')
       /\ ListTells(comAct'[w], comMem'[w].row, comPlan', Truths')
       /\ WorkTells(comAct'[w], comMem'[w].row, Truths')
  BY <1>4, <1>6, NoRowTells, NoActTells
<1>15. CardsAreCounted' /\ EvidenceStands /\ OthersStay(w)
  BY <1>1, <1>4, <1>6 DEF ComInv, CardsAreCounted, EvidenceStands, OthersStay
<1>. QED
  BY <1>2, <1>8, <1>9, <1>10, <1>11, <1>12, <1>13, <1>14, <1>15, StepTells


-----------------------------------------------------------------------------
(*****************************************************************************)
(* A run is saved, by a worker or by a request.                              *)
(*****************************************************************************)

\* What holds of whoever saves, or is about to.
LEMMA SavingHolds ==
  ASSUME ComInv, NEW a \in Actors, comAct[a].pc \in Keeping \/ (a \in Requests /\ comAct[a].pc = "op")
  PROVE  /\ comAct[a].pc # "off" /\ comRun.state # "none" /\ comAct[a] \in Acts
         /\ RowTells(comAct[a].row, comPlan, Truths) /\ CarriedTells(comAct[a], Truths, Ready)
         /\ a \in Workers => /\ WorkTells(comAct[a], comMem[a].row, Truths) /\ comAct[a].full
                             /\ comMem[a].row.prompt \/ comAct[a].op = "fail"
         /\ a \in Requests => a \notin Workers
         /\ comAct[a].op = "fail" => comAct[a].st \in {"needs_collect", "failed", "unknown"}
<1>1. comAct[a].pc # "off" /\ comAct[a].pc \notin Listing \cup {"list"}
  BY DEF Keeping, Listing, Loading
<1>2. a \in Requests => a \notin Workers
  BY ComfyAssumption DEF Workers
<1>3. /\ comRun.state # "none" /\ comAct[a] \in Acts
      /\ RowTells(comAct[a].row, comPlan, Truths) /\ CarriedTells(comAct[a], Truths, Ready)
      /\ a \in Workers => WorkTells(comAct[a], comMem[a].row, Truths)
  BY <1>1, Active
<1>4. a \in Workers => comAct[a].full /\ (comMem[a].row.prompt \/ comAct[a].op = "fail")
  BY <1>1, <1>2, <1>3 DEF WorkTells
<1>5. comAct[a].op = "fail" => comAct[a].st \in {"needs_collect", "failed", "unknown"}
  BY <1>3 DEF CarriedTells
<1>. QED
  BY <1>1, <1>2, <1>3, <1>4, <1>5

\* What is carried from one step of saving to the next.
LEMMA SavingAct ==
  ASSUME ComInv, NEW a \in Actors, comAct[a].pc \in Keeping \/ (a \in Requests /\ comAct[a].pc = "op"),
         NEW act \in Acts, act.pc \in Keeping, act.op = comAct[a].op, act.st = comAct[a].st,
         act.row = comAct[a].row, act.full = comAct[a].full,
         NEW truths, NEW ready, Truths \subseteq truths,
         act.pc \in {"saveMark", "save"} => act.todo \subseteq ready,
         act.drop => "done" \in truths
  PROVE  /\ act.pc \notin Early
         /\ RowTells(act.row, comPlan, truths) /\ CarriedTells(act, truths, ready)
         /\ a \in Workers => /\ ListTells(act, comMem[a].row, comPlan, truths)
                             /\ WorkTells(act, comMem[a].row, truths)
<1>1. /\ act.pc \notin Early \cup Working \cup Judging
      /\ act.pc \notin {"failSettle", "op", "tell", "collectJobs", "collect", "fail", "failRead"}
  BY DEF Keeping, Early, First, Working, Listing, Loading, Judging
<1>2. CarriedTells(act, truths, ready)
  <2>1. /\ CarriedTells(comAct[a], Truths, Ready)
        /\ comAct[a].op = "fail" => comAct[a].st \in {"needs_collect", "failed", "unknown"}
    BY SavingHolds
  <2>2. /\ act.st \in Settled => "settled" \in truths
        /\ act.st = "saved" => "whole" \in truths
        /\ act.st = "failed" => truths \cap {"done", "any"} # {}
    BY <2>1 DEF CarriedTells
  <2>. QED
    BY <1>1, <2>1, <2>2 DEF CarriedTells, Judging
<1>3. Later(comPlan, comPlan)
  BY DEF Later
<1>4. RowTells(act.row, comPlan, truths)
  BY <1>3, SavingHolds, RowStays
<1>5. a \in Workers => /\ ListTells(act, comMem[a].row, comPlan, truths)
                       /\ WorkTells(act, comMem[a].row, truths)
  BY <1>1, SavingHolds DEF ListTells, WorkTells, Working, Listing, Loading
<1>. QED
  BY <1>1, <1>2, <1>4, <1>5

\* Where saving ends: a worker goes on with what it makes of its failure.
LEMMA SavingEnds ==
  ASSUME ComInv, NEW a \in Actors, comAct[a].pc \in Keeping \/ (a \in Requests /\ comAct[a].pc = "op")
  PROVE  LET act == [NoAct EXCEPT !.pc = AfterSave(a), !.op = comAct[a].op, !.st = comAct[a].st] IN
         /\ act \in Acts /\ act.pc \notin Early
         /\ RowTells(act.row, comPlan, Truths) /\ CarriedTells(act, Truths, Ready)
         /\ a \in Workers => /\ ListTells(act, comMem[a].row, comPlan, Truths)
                             /\ WorkTells(act, comMem[a].row, Truths)
<1> DEFINE pc == AfterSave(a)
           act == [NoAct EXCEPT !.pc = pc, !.op = comAct[a].op, !.st = comAct[a].st]
<1>1. /\ pc \in {"off", "failSettle", "fail", "end"}
      /\ pc = "failSettle" => comAct[a].op = "fail"
      /\ pc = "fail" => a \in Workers /\ comAct[a].op # "fail"
  BY DEF AfterSave, Actors
<1> HIDE DEF pc
<1>2. /\ act \in Acts /\ act.pc = pc /\ act.op = comAct[a].op /\ act.st = comAct[a].st
      /\ act.row = NoRow /\ act.full /\ ~act.drop
  <2>1. pc \in Steps /\ comAct[a] \in Acts /\ NoAct \in Acts
    BY <1>1, SavingHolds, NoActTells DEF Steps
  <2>2. NoAct.row = NoRow /\ NoAct.full /\ ~NoAct.drop
    BY DEF NoAct
  <2>. QED
    BY <2>1, <2>2 DEF Acts
<1> HIDE DEF act
<1>3. act.pc \notin Early \cup Working \cup Judging \cup Keeping
      /\ act.pc \notin {"op", "tell", "collectJobs", "collect", "failRead"}
  BY <1>1, <1>2 DEF Keeping, Early, First, Working, Listing, Loading, Judging
<1>4. CarriedTells(act, Truths, Ready)
  <2>1. /\ act.st \in Settled => "settled" \in Truths
        /\ act.st = "saved" => "whole" \in Truths
        /\ act.st = "failed" => Truths \cap {"done", "any"} # {}
    BY <1>2, SavingHolds DEF CarriedTells
  <2>2. act.op = "fail" => act.st \in {"needs_collect", "failed", "unknown"}
    BY <1>2, SavingHolds
  <2>. QED
    BY <1>1, <1>2, <1>3, <2>1, <2>2 DEF CarriedTells, Keeping
<1>5. ASSUME a \in Workers
      PROVE  /\ ListTells(act, comMem[a].row, comPlan, Truths)
             /\ WorkTells(act, comMem[a].row, Truths)
  <2>1. act.pc = "fail" => comMem[a].row.prompt /\ comMem[a].row # NoRow
    BY <1>1, <1>2, <1>5, SavingHolds DEF NoRow
  <2>. QED
    BY <1>2, <1>3, <2>1 DEF ListTells, WorkTells, Working, Listing, Loading
<1>. QED
  BY <1>2, <1>3, <1>4, <1>5, NoRowTells DEF act, pc

LEMMA SaveReadMoves == ASSUME ComInv, NEW a \in Actors, SaveRead(a) PROVE ComMoves
<1>1. /\ comAct[a].pc = "saveRead" \/ (a \in Requests /\ comAct[a].pc = "op")
      /\ comAct[a].pc \in Keeping \/ (a \in Requests /\ comAct[a].pc = "op")
      /\ UNCHANGED <<comPlan, comRemote, comRun, comGen, comMade, comTold, comRow, comJob, comMem,
                     comFaults>>
  BY DEF SaveRead, At, comWorld, comDisk, Keeping
<1>2. comAct[a].pc # "off" /\ comRun.state # "none" /\ comAct[a] \in Acts
  BY <1>1, SavingHolds
<1>3. CASE comRun.state \in Settled
  <2> DEFINE act == [NoAct EXCEPT !.pc = AfterSave(a), !.op = comAct[a].op, !.st = comAct[a].st]
  <2>1. comAct' = [comAct EXCEPT ![a] = act]
    BY <1>3 DEF SaveRead, SaveEnds
  <2>2. /\ act \in Acts /\ act.pc \notin Early
        /\ RowTells(act.row, comPlan, Truths) /\ CarriedTells(act, Truths, Ready)
        /\ a \in Workers => /\ ListTells(act, comMem[a].row, comPlan, Truths)
                            /\ WorkTells(act, comMem[a].row, Truths)
    BY <1>1, SavingEnds
  <2> HIDE DEF act
  <2>. QED
    BY <1>1, <1>2, <2>1, <2>2, ActStep DEF ComInv, ComTypes, ComTypeOK, JobStates
<1>4. CASE comRun.state \notin Settled
  <2> DEFINE pc == IF comRun.state = "saved" THEN "saveSettle" ELSE "saveMark"
             todo == {m \in Media : comRun.out[m] = "ready" /\ ~Linked(m)}
             act == [comAct[a] EXCEPT !.pc = pc, !.todo = todo]
  <2>1. comAct' = [comAct EXCEPT ![a] = act]
    BY <1>4 DEF SaveRead
  <2>2. pc \in {"saveSettle", "saveMark"} /\ todo \subseteq Ready /\ todo \subseteq Media
    BY DEF Ready, Fetched
  <2> HIDE DEF pc, todo
  <2>3. /\ act \in Acts /\ act.pc = pc /\ act.todo = todo /\ act.op = comAct[a].op
        /\ act.st = comAct[a].st /\ act.row = comAct[a].row /\ act.full = comAct[a].full
        /\ act.drop = comAct[a].drop
    <3>1. pc \in Steps
      BY <2>2 DEF Steps, Keeping
    <3>. QED
      BY <3>1, <2>2, <1>2 DEF Acts
  <2> HIDE DEF act
  <2>4. act.drop => "done" \in Truths
    BY <1>1, <2>3, SavingHolds DEF CarriedTells
  <2>5. /\ act.pc \notin Early
        /\ RowTells(act.row, comPlan, Truths) /\ CarriedTells(act, Truths, Ready)
        /\ a \in Workers => /\ ListTells(act, comMem[a].row, comPlan, Truths)
                            /\ WorkTells(act, comMem[a].row, Truths)
    <3>1. act.pc \in Keeping
      BY <2>2, <2>3 DEF Keeping
    <3>. QED
      BY <1>1, <2>2, <2>3, <2>4, <3>1, SavingAct
  <2>. QED
    BY <1>1, <1>2, <2>1, <2>3, <2>5, ActStep DEF ComInv, ComTypes, ComTypeOK, JobStates
<1>. QED
  BY <1>3, <1>4

\* The run is called saving, unless it was put away.
LEMMA SaveMarkMoves == ASSUME ComInv, NEW a \in Actors, SaveMark(a) PROVE ComMoves
<1> DEFINE act == [comAct[a] EXCEPT !.pc = "save"]
<1>1. /\ comAct[a].pc = "saveMark" /\ comAct[a].pc \in Keeping
      /\ comAct' = [comAct EXCEPT ![a] = act] /\ set_state("saving")
      /\ UNCHANGED <<comPlan, comRemote, comGen, comMade, comRow, comJob, comMem, comFaults>>
  BY DEF SaveMark, At, Goes, comWorld, Keeping
<1>2. comAct[a].pc # "off" /\ comRun.state # "none" /\ comAct[a] \in Acts
      /\ CarriedTells(comAct[a], Truths, Ready)
  BY <1>1, SavingHolds
<1>3. /\ act \in Acts /\ act.pc = "save" /\ act.todo = comAct[a].todo /\ act.op = comAct[a].op
      /\ act.st = comAct[a].st /\ act.row = comAct[a].row /\ act.full = comAct[a].full
      /\ act.drop = comAct[a].drop /\ act.pc \in Keeping /\ act.pc \notin Early
  <2>1. "save" \in Steps /\ "save" \in Keeping /\ "save" \notin Early
    BY DEF Steps, Keeping, Early, First
  <2>. QED
    BY <2>1, <1>2 DEF Acts
<1> HIDE DEF act
<1>4. Written /\ comRun'.state \in {comRun.state, "saving"} /\ comRun'.state # "none"
  <2>1. "saving" \in RunStates \ {"none", "linked"}
    BY DEF RunStates
  <2>. QED
    BY <2>1, <1>1, <1>2, SetStateWrites DEF ComInv
<1>5. NeverNumbered => NeverNumbered'
  BY <1>1, <1>2, <1>3, <1>4, ActBegins
<1>6. Truths \subseteq Truths' /\ Later(comPlan, comPlan') /\ Ready \subseteq Ready'
  BY <1>1, <1>4, <1>5, TruthsGrow DEF Later, Written, ComInv, RunGrows
<1>7. StateTells'
  BY <1>4, <1>6, StateStaysTrue DEF ComInv
<1>8. /\ RowTells(act.row, comPlan, Truths') /\ CarriedTells(act, Truths', Ready')
      /\ a \in Workers => /\ ListTells(act, comMem[a].row, comPlan, Truths')
                          /\ WorkTells(act, comMem[a].row, Truths')
  <2>1. act.todo \subseteq Ready' /\ (act.drop => "done" \in Truths')
    BY <1>1, <1>2, <1>3, <1>6 DEF CarriedTells
  <2>. QED
    BY <2>1, <1>1, <1>3, <1>6, SavingAct
<1>. QED
  BY <1>1, <1>2, <1>3, <1>4, <1>6, <1>7, <1>8, WriteStep
     DEF ComInv, ComTypes, ComTypeOK, JobStates, CardsAreCounted

\* An output has its card, the first of whoever saves it; or it has one already; or
\* the run was put away, or the write failed.
LEMMA SaveItemMoves == ASSUME ComInv, NEW a \in Actors, SaveItem(a) PROVE ComMoves
<1>1. /\ comAct[a].pc = "save" /\ comAct[a].pc \in Keeping
      /\ UNCHANGED <<comPlan, comRemote, comRow, comJob, comMem>>
  BY DEF SaveItem, At, comWorld, Keeping
<1>2. comAct[a].pc # "off" /\ comRun.state # "none" /\ comAct[a] \in Acts
      /\ CarriedTells(comAct[a], Truths, Ready)
  BY <1>1, SavingHolds
<1>3. comAct[a].todo \subseteq Ready /\ (comAct[a].drop => "done" \in Truths)
  BY <1>1, <1>2 DEF CarriedTells
<1> PICK m \in comAct[a].todo :
      \/ /\ linked_output(m) = "none"
         /\ comGen' = [comGen EXCEPT ![m] = "live"]
         /\ comMade' = [comMade EXCEPT ![m] = @ + 1]
         /\ Write([comRun EXCEPT !.out[m] = "saved"], TRUE)
         /\ comAct' = [comAct EXCEPT ![a].todo = @ \ {m}]
         /\ UNCHANGED comFaults
      \/ /\ linked_output(m) = "linked"
         /\ comAct' = [comAct EXCEPT ![a].todo = @ \ {m}]
         /\ UNCHANGED <<comRun, comGen, comMade, comTold, comFaults>>
      \/ /\ IF linked_output(m) = "conflict" THEN UNCHANGED comFaults ELSE ComFault
         /\ comAct' = [comAct EXCEPT ![a].pc = "saveSettle", ![a].bad = TRUE, ![a].todo = {}]
         /\ UNCHANGED <<comRun, comGen, comMade, comTold>>
  BY DEF SaveItem
<1> DEFINE act == [comAct[a] EXCEPT !.todo = @ \ {m}]
<1>4. /\ act \in Acts /\ act.pc = "save" /\ act.todo = comAct[a].todo \ {m} /\ act.op = comAct[a].op
      /\ act.st = comAct[a].st /\ act.row = comAct[a].row /\ act.full = comAct[a].full
      /\ act.drop = comAct[a].drop /\ act.pc \in Keeping /\ act.pc \notin Early
  <2>1. "save" \in Keeping /\ "save" \notin Early
    BY DEF Keeping, Early, First
  <2>. QED
    BY <2>1, <1>1, <1>2 DEF Acts
<1> HIDE DEF act
<1>5. CASE /\ linked_output(m) = "none"
           /\ comGen' = [comGen EXCEPT ![m] = "live"]
           /\ comMade' = [comMade EXCEPT ![m] = @ + 1]
           /\ Write([comRun EXCEPT !.out[m] = "saved"], TRUE)
           /\ comAct' = [comAct EXCEPT ![a].todo = @ \ {m}]
           /\ UNCHANGED comFaults
  <2>1. m \in Ready /\ m \in Media /\ comRun.state \notin Settled \cup {"none"} /\ comGen[m] = "none"
    BY <1>2, <1>3, <1>5 DEF Ready, linked_output, Linked
  <2>2. Written /\ comRun'.state = comRun.state
    BY <1>1, <1>5, <2>1, SaveWrites DEF ComInv
  <2>3. comAct' = [comAct EXCEPT ![a] = act]
    BY <1>5 DEF act
  <2>4. NeverNumbered => NeverNumbered'
    BY <1>1, <1>2, <1>4, <2>2, <2>3, ActBegins
  <2>5. Truths \subseteq Truths' /\ Later(comPlan, comPlan') /\ Ready \subseteq Ready'
    BY <1>1, <2>2, <2>4, TruthsGrow DEF Later, Written, ComInv, RunGrows
  <2>6. StateTells'
    BY <2>2, <2>5, StateStaysTrue DEF ComInv
  <2>7. /\ RowTells(act.row, comPlan, Truths') /\ CarriedTells(act, Truths', Ready')
        /\ a \in Workers => /\ ListTells(act, comMem[a].row, comPlan, Truths')
                            /\ WorkTells(act, comMem[a].row, Truths')
    <3>1. act.todo \subseteq Ready' /\ (act.drop => "done" \in Truths')
      BY <1>3, <1>4, <2>5
    <3>. QED
      BY <3>1, <1>1, <1>4, <2>5, SavingAct
  <2>8. /\ comGen' \in [Media -> {"none", "live", "trashed"}] /\ comMade' \in [Media -> Nat]
        /\ CardsAreCounted'
    <3>1. /\ comGen \in [Media -> {"none", "live", "trashed"}] /\ comMade \in [Media -> Nat]
          /\ \A n \in Media : comMade[n] = (IF comGen[n] = "none" THEN 0 ELSE 1)
      BY DEF ComInv, ComTypes, ComTypeOK, CardsAreCounted
    <3>2. comMade[m] = 0
      BY <2>1, <3>1
    <3>3. \A n \in Media : /\ comMade'[n] = (IF n = m THEN 1 ELSE comMade[n])
                           /\ comGen'[n] = (IF n = m THEN "live" ELSE comGen[n])
      BY <1>5, <2>1, <3>1, <3>2
    <3>. QED
      BY <1>5, <2>1, <3>1, <3>3 DEF CardsAreCounted
  <2>. QED
    BY <1>1, <1>2, <1>4, <1>5, <2>2, <2>3, <2>5, <2>6, <2>7, <2>8, WriteStep
       DEF ComInv, ComTypes, ComTypeOK, JobStates
<1>6. CASE /\ linked_output(m) = "linked"
           /\ comAct' = [comAct EXCEPT ![a].todo = @ \ {m}]
           /\ UNCHANGED <<comRun, comGen, comMade, comTold, comFaults>>
  <2>1. /\ RowTells(act.row, comPlan, Truths) /\ CarriedTells(act, Truths, Ready)
        /\ a \in Workers => /\ ListTells(act, comMem[a].row, comPlan, Truths)
                            /\ WorkTells(act, comMem[a].row, Truths)
    <3>1. act.todo \subseteq Ready /\ (act.drop => "done" \in Truths)
      BY <1>3, <1>4
    <3>. QED
      BY <3>1, <1>1, <1>4, SavingAct
  <2>2. comAct' = [comAct EXCEPT ![a] = act]
    BY <1>6 DEF act
  <2>. QED
    BY <1>1, <1>2, <1>4, <1>6, <2>1, <2>2, ActStep DEF ComInv, ComTypes, ComTypeOK, JobStates
<1>7. CASE /\ IF linked_output(m) = "conflict" THEN UNCHANGED comFaults ELSE ComFault
           /\ comAct' = [comAct EXCEPT ![a].pc = "saveSettle", ![a].bad = TRUE, ![a].todo = {}]
           /\ UNCHANGED <<comRun, comGen, comMade, comTold>>
  <2> DEFINE to == [comAct[a] EXCEPT !.pc = "saveSettle", !.bad = TRUE, !.todo = {}]
  <2>1. comAct' = [comAct EXCEPT ![a] = to] /\ comFaults' \in 0..MaxComFaults
    BY <1>7, FaultCounts
  <2>2. /\ to \in Acts /\ to.pc = "saveSettle" /\ to.op = comAct[a].op
        /\ to.st = comAct[a].st /\ to.row = comAct[a].row /\ to.full = comAct[a].full
        /\ to.drop = comAct[a].drop /\ to.pc \in Keeping /\ to.pc \notin Early
    <3>1. "saveSettle" \in Steps /\ "saveSettle" \in Keeping /\ "saveSettle" \notin Early
      BY DEF Steps, Keeping, Early, First
    <3>. QED
      BY <3>1, <1>2 DEF Acts
  <2> HIDE DEF to
  <2>3. /\ RowTells(to.row, comPlan, Truths) /\ CarriedTells(to, Truths, Ready)
        /\ a \in Workers => /\ ListTells(to, comMem[a].row, comPlan, Truths)
                            /\ WorkTells(to, comMem[a].row, Truths)
    BY <1>1, <1>3, <2>2, SavingAct
  <2>. QED
    BY <1>1, <1>2, <1>7, <2>1, <2>2, <2>3, ActStep DEF ComInv, ComTypes, ComTypeOK, JobStates
<1>. QED
  BY <1>5, <1>6, <1>7

\* Whatever happened, the run is settled.
LEMMA SaveSettleMoves == ASSUME ComInv, NEW a \in Actors, SaveSettle(a) PROVE ComMoves
<1> PICK drop \in BOOLEAN :
      /\ drop = RowIsDone(comRun')
      /\ comAct' = [comAct EXCEPT ![a].pc = "saveAck", ![a].drop = drop]
  <2>1. RowIsDone(comRun') \in BOOLEAN
    BY DEF RowIsDone, isRunFullySaved
  <2>. QED
    BY <2>1 DEF SaveSettle
<1> DEFINE act == [comAct[a] EXCEPT !.pc = "saveAck", !.drop = drop]
<1>1. /\ comAct[a].pc \in Keeping /\ comAct' = [comAct EXCEPT ![a] = act] /\ settle("needs_collect")
      /\ UNCHANGED <<comPlan, comRemote, comGen, comMade, comRow, comJob, comMem, comFaults>>
  BY DEF SaveSettle, At, comWorld, Keeping
<1>2. comAct[a].pc # "off" /\ comRun.state # "none" /\ comAct[a] \in Acts
  BY <1>1, SavingHolds
<1>3. /\ act \in Acts /\ act.pc = "saveAck" /\ act.op = comAct[a].op
      /\ act.st = comAct[a].st /\ act.row = comAct[a].row /\ act.full = comAct[a].full
      /\ act.drop = drop /\ act.pc \in Keeping /\ act.pc \notin Early
  <2>1. "saveAck" \in Steps /\ "saveAck" \in Keeping /\ "saveAck" \notin Early
    BY DEF Steps, Keeping, Early, First
  <2>. QED
    BY <2>1, <1>2 DEF Acts
<1> HIDE DEF act
<1>4. "needs_collect" \in RunStates \ {"none"} /\ "needs_collect" \notin Settled
  BY DEF RunStates, Settled
<1>5. NeverNumbered => NeverNumbered'
  <2>1. comRun'.state # "none"
    BY <1>1, <1>2, <1>4, SettleWrites DEF ComInv, Written, RunGrows
  <2>. QED
    BY <2>1, <1>1, <1>2, <1>3, ActBegins
<1>6. /\ Written /\ StateTells' /\ Truths \subseteq Truths'
      /\ (RowIsDone(comRun') => "done" \in Truths')
  BY <1>1, <1>2, <1>4, <1>5, SettledIsTrue DEF ComInv
<1>7. /\ RowTells(act.row, comPlan, Truths') /\ CarriedTells(act, Truths', Ready')
      /\ a \in Workers => /\ ListTells(act, comMem[a].row, comPlan, Truths')
                          /\ WorkTells(act, comMem[a].row, Truths')
  BY <1>1, <1>3, <1>6, SavingAct
<1>8. CardsAreCounted'
  BY <1>1 DEF ComInv, CardsAreCounted
<1>. QED
  BY <1>1, <1>2, <1>3, <1>6, <1>7, <1>8, WriteStep DEF ComInv, ComTypes, ComTypeOK, JobStates

\* The journal row goes when settle said that nothing is left of it.
LEMMA SaveAckMoves == ASSUME ComInv, NEW a \in Actors, SaveAck(a) PROVE ComMoves
<1> DEFINE act == [NoAct EXCEPT !.pc = AfterSave(a), !.op = comAct[a].op, !.st = comAct[a].st]
<1>1. /\ comAct[a].pc = "saveAck" /\ comAct[a].pc \in Keeping
      /\ comAct' = [comAct EXCEPT ![a] = act]
      /\ UNCHANGED <<comPlan, comRemote, comRun, comGen, comMade, comTold, comJob, comMem>>
      /\ DropRow(a) \/ UNCHANGED comRow
      /\ comFaults' \in 0..MaxComFaults
  BY FaultCounts DEF SaveAck, At, comWorld, SaveEnds, Keeping
<1>2. comAct[a].pc # "off" /\ comRun.state # "none"
  BY <1>1, SavingHolds
<1>3. /\ act \in Acts /\ act.pc \notin Early
      /\ RowTells(act.row, comPlan, Truths) /\ CarriedTells(act, Truths, Ready)
      /\ a \in Workers => /\ ListTells(act, comMem[a].row, comPlan, Truths)
                          /\ WorkTells(act, comMem[a].row, Truths)
  BY <1>1, SavingEnds
<1> HIDE DEF act
<1>. QED
  BY <1>1, <1>2, <1>3, QuietDropStep

-----------------------------------------------------------------------------
(*****************************************************************************)
(* A request reconciles the receipt.                                         *)
(*****************************************************************************)

\* A request is not a worker, and has a run.
LEMMA RequestHolds ==
  ASSUME ComInv, NEW q \in Requests, comAct[q].pc # "off"
  PROVE  /\ q \in Actors /\ q \notin Workers /\ comRun.state # "none" /\ comAct[q] \in Acts
         /\ RowTells(comAct[q].row, comPlan, Truths) /\ CarriedTells(comAct[q], Truths, Ready)
         /\ comAct[q].pc \in Judging \cup {"op", "tell"} => comAct[q].op = "none"
<1>1. q \in Actors /\ q \notin Workers
  BY ComfyAssumption DEF Actors, Workers
<1>2. /\ comRun.state # "none" /\ comAct[q] \in Acts
      /\ RowTells(comAct[q].row, comPlan, Truths) /\ CarriedTells(comAct[q], Truths, Ready)
  BY <1>1, Active
<1>. QED
  BY <1>1, <1>2 DEF CarriedTells

\* A request reads, and nothing else moves.
LEMMA ReadStep ==
  ASSUME ComInv, NEW q \in Requests, NEW act \in Acts, comAct' = [comAct EXCEPT ![q] = act],
         comRun.state # "none", act.pc \notin Early,
         UNCHANGED <<comWorld, comDisk, comJob, comMem, comFaults>>,
         RowTells(act.row, comPlan, Truths), CarriedTells(act, Truths, Ready)
  PROVE  ComMoves
<1>1. q \in Actors /\ q \notin Workers
  BY ComfyAssumption DEF Actors, Workers
<1>2. UNCHANGED <<comPlan, comRemote, comRow, comMem, comRun, comGen, comMade, comTold, comJob,
                  comFaults>>
  BY DEF comWorld, comDisk
<1>3. comJob' \in [Workers -> JobStates] /\ comFaults' \in 0..MaxComFaults
  BY <1>2, FaultCounts DEF ComInv, ComTypes, ComTypeOK, JobStates
<1>. QED
  BY <1>1, <1>2, <1>3, ActStep

\* A request that is done, or goes on to what it asks for.
LEMMA TurnStep ==
  ASSUME ComInv, NEW q \in Requests, comRun.state # "none",
         comAct' = [comAct EXCEPT ![q] = NoAct]
           \/ (comAct[q].op = "none" /\ Turns(q, "op")),
         UNCHANGED <<comWorld, comDisk, comJob, comMem, comFaults>>
  PROVE  ComMoves
<1>1. CASE comAct' = [comAct EXCEPT ![q] = NoAct]
  <2>1. NoAct \in Acts /\ NoAct.pc \notin Early
    BY NoActTells DEF NoAct, Early, First
  <2>2. RowTells(NoAct.row, comPlan, Truths) /\ CarriedTells(NoAct, Truths, Ready)
    BY NoActTells, NoRowTells
  <2>. QED
    BY <1>1, <2>1, <2>2, ReadStep
<1>2. CASE comAct[q].op = "none" /\ Turns(q, "op")
  <2> DEFINE act == Turned("op", "none")
  <2>1. comAct' = [comAct EXCEPT ![q] = act]
    BY <1>2 DEF Turns, Turned
  <2>2. /\ "op" \in Steps
        /\ "op" \notin {"saveMark", "save", "failSettle", "collectJobs", "collect"} \cup Judging
    BY DEF Steps, Judging
  <2>3. act \in Acts /\ act.pc = "op"
    BY <2>2, TurnsTo
  <2>4. CarriedTells(act, Truths, Ready)
    BY <2>2, TurnsTo
  <2>5. RowTells(act.row, comPlan, Truths)
    BY <2>2, TurnsTo
  <2> HIDE DEF act
  <2>6. act.pc \notin Early
    BY <2>3 DEF Early, First
  <2>. QED
    BY <2>1, <2>3, <2>4, <2>5, <2>6, ReadStep
<1>. QED
  BY <1>1, <1>2

\* What the state of the receipt tells whoever reads it.
LEMMA StateIsRead ==
  ASSUME StateTells
  PROVE  /\ comRun.state \in Settled => "settled" \in Truths
         /\ comRun.state = "saved" => "whole" \in Truths
         /\ comRun.state = "failed" => Truths \cap {"done", "any"} # {}
BY DEF StateTells, Truths, IsSettled

LEMMA ArriveMoves == ASSUME ComInv, NEW q \in Requests, Arrive(q) PROVE ComMoves
<1> DEFINE act == IF comRun.state \in Settled THEN [NoAct EXCEPT !.pc = "op"]
                  ELSE [NoAct EXCEPT !.pc = "jobs", !.st = comRun.state,
                                     !.any = Outputs(comRun) # {}]
<1>1. /\ comRun.state # "none" /\ comAct' = [comAct EXCEPT ![q] = act]
      /\ UNCHANGED <<comWorld, comDisk, comJob, comMem, comFaults>>
  BY DEF Arrive
<1>2. /\ NoAct \in Acts /\ NoAct.op = "none" /\ NoAct.st = "none" /\ ~NoAct.drop
      /\ NoAct.row = NoRow
  BY NoActTells DEF NoAct
<1>3. comRun.state \in RunStates
  BY DEF ComInv, ComTypes, ComTypeOK
<1>4. /\ act \in Acts /\ act.op = "none" /\ ~act.drop /\ act.row = NoRow
      /\ act.pc \in {"op", "jobs"} /\ act.st \in {"none", comRun.state} /\ act.st \notin Settled
      /\ act.pc = "jobs" => act.st # "none"
  <2>1. "op" \in Steps /\ "jobs" \in Steps /\ "none" \notin Settled
    BY DEF Steps, Judging, Settled
  <2>. QED
    BY <1>1, <1>2, <1>3, <2>1 DEF Acts
<1> HIDE DEF act
<1>5. act.pc \notin Early /\ RowTells(act.row, comPlan, Truths)
  BY <1>4, NoRowTells DEF Early, First
<1>6. CarriedTells(act, Truths, Ready)
  <2>1. /\ act.st = "saved" => "whole" \in Truths
        /\ act.st = "failed" => Truths \cap {"done", "any"} # {}
    BY <1>4, StateIsRead DEF ComInv
  <2>. QED
    BY <2>1, <1>4 DEF CarriedTells, Keeping, Judging
<1>. QED
  BY <1>1, <1>4, <1>5, <1>6, ReadStep

LEMMA ReadJobsMoves == ASSUME ComInv, NEW q \in Requests, ReadJobs(q) PROVE ComMoves
<1> DEFINE act == [comAct[q] EXCEPT !.pc = "journal", !.jobs = comJob]
<1>1. /\ comAct[q].pc = "jobs" /\ comAct' = [comAct EXCEPT ![q] = act]
      /\ UNCHANGED <<comWorld, comDisk, comJob, comMem, comFaults>>
  BY DEF ReadJobs, At
<1>2. /\ comRun.state # "none" /\ comAct[q] \in Acts
      /\ RowTells(comAct[q].row, comPlan, Truths) /\ CarriedTells(comAct[q], Truths, Ready)
  BY <1>1, RequestHolds
<1>3. /\ act \in Acts /\ act.op = comAct[q].op /\ act.drop = comAct[q].drop /\ act.row = comAct[q].row
      /\ act.pc = "journal" /\ act.st = comAct[q].st
  <2>1. "journal" \in Steps /\ comJob \in [Workers -> JobStates]
    BY DEF Steps, Judging, ComInv, ComTypes, ComTypeOK, JobStates
  <2>. QED
    BY <1>2, <2>1 DEF Acts
<1> HIDE DEF act
<1>4. act.pc \notin Early /\ CarriedTells(act, Truths, Ready)
  BY <1>1, <1>2, <1>3 DEF CarriedTells, Keeping, Judging, Early, First
<1>. QED
  BY <1>1, <1>2, <1>3, <1>4, ReadStep

LEMMA ReadJournalMoves == ASSUME ComInv, NEW q \in Requests, ReadJournal(q) PROVE ComMoves
<1> DEFINE act == [comAct[q] EXCEPT !.pc = "move", !.row = comRow, !.jobs = NoAct.jobs]
<1>1. /\ comAct[q].pc = "journal"
      /\ Turns(q, "op") \/ comAct' = [comAct EXCEPT ![q] = act]
      /\ UNCHANGED <<comWorld, comDisk, comJob, comMem, comFaults>>
  BY DEF ReadJournal, At
<1>2. /\ comRun.state # "none" /\ comAct[q] \in Acts /\ comAct[q].op = "none"
      /\ CarriedTells(comAct[q], Truths, Ready)
  BY <1>1, RequestHolds DEF Judging
<1>3. comRow \in Rows /\ RowTells(comRow, comPlan, Truths) /\ RowIsNumbered(comRow, Truths)
  BY DEF ComInv, ComTypes, ComTypeOK, RowsTell
<1>4. /\ act \in Acts /\ act.op = comAct[q].op /\ act.drop = comAct[q].drop /\ act.row = comRow
      /\ act.pc = "move" /\ act.st = comAct[q].st
  <2>1. "move" \in Steps /\ NoAct.jobs \in [Workers -> JobStates]
    BY NoActTells DEF Steps, Judging, Acts
  <2>. QED
    BY <1>2, <1>3, <2>1 DEF Acts
<1> HIDE DEF act
<1>5. act.pc \notin Early /\ CarriedTells(act, Truths, Ready)
  BY <1>1, <1>2, <1>3, <1>4 DEF CarriedTells, RowIsNumbered, Keeping, Judging, Early, First
<1>. QED
  BY <1>1, <1>2, <1>3, <1>4, <1>5, ReadStep, TurnStep

\* The media of a complete list move to the receipt.
LEMMA MoveMoves == ASSUME ComInv, NEW q \in Requests, Move(q) PROVE ComMoves
<1> DEFINE row == comAct[q].row
<1>1. /\ comAct[q].pc = "move"
      /\ UNCHANGED <<comPlan, comRemote, comGen, comMade, comRow, comJob, comMem, comFaults>>
  BY DEF Move, At, comWorld
<1>2. /\ q \in Actors /\ q \notin Workers /\ comRun.state # "none" /\ comAct[q] \in Acts
      /\ RowTells(row, comPlan, Truths) /\ CarriedTells(comAct[q], Truths, Ready)
      /\ comAct[q].op = "none" /\ row \in Rows
  BY <1>1, RequestHolds DEF Judging, Acts
<1>3. CASE Moves(row)
  <2> PICK st \in {comRun'.state}, any \in BOOLEAN :
        comAct' = [comAct EXCEPT ![q].pc = "settle", ![q].st = st, ![q].any = any]
    BY <1>3 DEF Move
  <2> DEFINE act == [comAct[q] EXCEPT !.pc = "settle", !.st = st, !.any = any]
             items == Statuses(row)
  <2>1. comAct' = [comAct EXCEPT ![q] = act] /\ record_outputs(items, TRUE)
    BY <1>3 DEF Move
  <2>2. ItemsTell(items, TRUE, comPlan, Truths)
    <3>1. row.enum /\ (comPlan.text = "file" => "textSafe" \in Truths) /\ comPlan.media # {}
      BY <1>2, <1>3 DEF Moves, RowTells
    <3>. QED
      BY <3>1, <1>2, RowItems
  <2>3. comRun.state \in RunStates
    BY DEF ComInv, ComTypes, ComTypeOK
  <2> HIDE DEF items
  <2>4. act.pc \notin Early
    <3>1. act.pc = "settle"
      BY <1>2 DEF Acts
    <3> HIDE DEF act
    <3>. QED
      BY <3>1 DEF Early, First
  <2>5. /\ Written /\ Truths \subseteq Truths' /\ StateTells' /\ CardsAreCounted'
        /\ Ready \subseteq Ready' /\ comRun'.state = comRun.state
    <3> HIDE DEF act
    <3>. QED
      BY <1>1, <1>2, <2>1, <2>2, <2>4, RecordTells
  <2>6. /\ act \in Acts /\ act.pc = "settle" /\ act.st = comRun'.state /\ act.row = row
        /\ act.op = comAct[q].op /\ act.drop = comAct[q].drop
    <3>1. "settle" \in Steps /\ st \in RunStates /\ st = comRun'.state
      BY <2>3, <2>5 DEF Steps, Judging
    <3>. QED
      BY <1>2, <3>1 DEF Acts
  <2> HIDE DEF act
  <2>7. /\ act.st \in Settled => "settled" \in Truths'
        /\ act.st = "saved" => "whole" \in Truths'
        /\ act.st = "failed" => Truths' \cap {"done", "any"} # {}
    BY <2>5, <2>6 DEF StateTells, Truths, IsSettled
  <2>8. CarriedTells(act, Truths', Ready')
    BY <1>1, <1>2, <2>5, <2>6, <2>7 DEF CarriedTells, Keeping, Judging
  <2>9. RowTells(act.row, comPlan, Truths')
    BY <1>2, <2>5, <2>6, RowStays DEF Later
  <2>. QED
    BY <1>1, <1>2, <2>1, <2>4, <2>5, <2>6, <2>8, <2>9, WriteStep
       DEF ComInv, ComTypes, ComTypeOK, JobStates
<1>4. CASE ~Moves(row)
  <2> DEFINE act == [comAct[q] EXCEPT !.pc = "settle"]
  <2>1. /\ comAct' = [comAct EXCEPT ![q] = act]
        /\ UNCHANGED <<comWorld, comDisk, comJob, comMem, comFaults>>
    BY <1>4 DEF Move, Goes, comWorld, comDisk
  <2>2. /\ act \in Acts /\ act.pc = "settle" /\ act.st = comAct[q].st /\ act.row = row
        /\ act.op = comAct[q].op /\ act.drop = comAct[q].drop
    <3>1. "settle" \in Steps
      BY DEF Steps, Judging
    <3>. QED
      BY <1>2, <3>1 DEF Acts
  <2> HIDE DEF act
  <2>3. act.pc \notin Early /\ CarriedTells(act, Truths, Ready)
    BY <1>1, <1>2, <2>2 DEF CarriedTells, Keeping, Judging, Early, First
  <2>. QED
    BY <1>2, <2>1, <2>2, <2>3, ReadStep
<1>. QED
  BY <1>3, <1>4

\* The receipt is settled on what was read; a run with nothing to show is called
\* failed only when there is nothing to fetch.
LEMMA ReconcileMoves == ASSUME ComInv, NEW q \in Requests, Reconcile(q) PROVE ComMoves
<1> DEFINE row == comAct[q].row
           st == comAct[q].st
           s == Fallback(st, comAct[q].any, row)
<1>1. /\ comAct[q].pc = "settle" /\ settle(s)
      /\ UNCHANGED <<comPlan, comRemote, comGen, comMade, comRow, comJob, comMem, comFaults>>
  BY DEF Reconcile, At, comWorld
<1>2. /\ q \in Actors /\ q \notin Workers /\ comRun.state # "none" /\ comAct[q] \in Acts
      /\ RowTells(row, comPlan, Truths) /\ CarriedTells(comAct[q], Truths, Ready)
      /\ comAct[q].op = "none"
  BY <1>1, RequestHolds DEF Judging
<1>3. /\ s \in RunStates \ {"none"}
      /\ s \in Settled => "settled" \in Truths
      /\ s = "saved" => "whole" \in Truths
      /\ s = "failed" => Truths \cap {"done", "any"} # {}
  <2>1. /\ st \in RunStates \ {"none"}
        /\ st \in Settled => "settled" \in Truths
        /\ st = "saved" => "whole" \in Truths
        /\ st = "failed" => Truths \cap {"done", "any"} # {}
    BY <1>1, <1>2 DEF CarriedTells, Judging, Acts
  <2>2. row.term = "failure" \/ row.phase = "not_submitted" => "done" \in Truths
    BY <1>1, <1>2, DoneFor DEF CarriedTells, RowTells
  <2>3. s = st \/ s \in {"needs_collect", "unknown"} \/ (s = "failed" /\ "done" \in Truths)
    BY <2>2 DEF Fallback
  <2> HIDE DEF s, st, row
  <2>. QED
    BY <2>1, <2>3 DEF RunStates, Settled
<1> HIDE DEF s
<1> PICK drop \in BOOLEAN :
      /\ drop = RowIsDone(comRun')
      /\ \/ comAct' = [comAct EXCEPT ![q] = [NoAct EXCEPT !.pc = "tell", !.op = comAct[q].op,
                                                          !.drop = drop]]
         \/ Turns(q, "op")
  <2>1. RowIsDone(comRun') \in BOOLEAN
    BY DEF RowIsDone, isRunFullySaved
  <2>. QED
    BY <2>1 DEF Reconcile
<1> DEFINE tells == [NoAct EXCEPT !.pc = "tell", !.op = comAct[q].op, !.drop = drop]
           turns == Turned("op", "none")
<1> PICK act \in {tells, turns} : comAct' = [comAct EXCEPT ![q] = act]
  <2>1. comAct' = [comAct EXCEPT ![q] = tells] \/ comAct' = [comAct EXCEPT ![q] = turns]
    BY <1>2 DEF Turns, Turned
  <2>. QED
    BY <2>1
<1>4. /\ act \in Acts /\ act.pc \in {"tell", "op"} /\ act.op = "none" /\ act.row = NoRow
      /\ act.st = "none"
      /\ act.drop => drop
  <2>1. NoAct \in Acts /\ NoAct.row = NoRow /\ NoAct.st = "none" /\ ~NoAct.drop
        /\ "tell" \in Steps /\ "op" \in Steps
    BY NoActTells DEF NoAct, Steps
  <2>2. CASE act = tells
    BY <1>2, <2>1, <2>2 DEF Acts
  <2>3. CASE act = turns
    BY <2>1, <2>3 DEF Acts, Turned
  <2>. QED
    BY <2>2, <2>3
<1> HIDE DEF tells, turns
<1>5. act.pc \notin Early
  BY <1>4 DEF Early, First
<1>6. NeverNumbered => NeverNumbered'
  <2>1. comRun'.state # "none"
    <3>1. s \in Settled => comRun.state \in Settled
      BY <1>3 DEF Truths, IsSettled
    <3>. QED
      BY <3>1, <1>1, <1>2, <1>3, SettleWrites DEF ComInv, Written, RunGrows
  <2>. QED
    BY <2>1, <1>1, <1>2, <1>5, ActBegins
<1>7. /\ Written /\ StateTells' /\ Truths \subseteq Truths'
      /\ (RowIsDone(comRun') => "done" \in Truths')
  BY <1>1, <1>2, <1>3, <1>6, SettledIsTrue DEF ComInv
<1>8. RowTells(act.row, comPlan, Truths') /\ CarriedTells(act, Truths', Ready')
  <2>1. act.drop => "done" \in Truths'
    BY <1>4, <1>7
  <2>2. CarriedTells(act, Truths', Ready')
    BY <2>1, <1>4 DEF CarriedTells, Keeping, Judging, Settled
  <2>. QED
    BY <2>2, <1>4, NoRowTells
<1>9. CardsAreCounted'
  BY <1>1 DEF ComInv, CardsAreCounted
<1>. QED
  BY <1>1, <1>2, <1>4, <1>5, <1>7, <1>8, <1>9, WriteStep DEF ComInv, ComTypes, ComTypeOK, JobStates

LEMMA TellMoves == ASSUME ComInv, NEW q \in Requests, Tell(q) PROVE ComMoves
<1> DEFINE act == Turned("op", "none")
<1>1. /\ comAct[q].pc = "tell" /\ DropRow(q) /\ Turns(q, "op")
      /\ UNCHANGED <<comPlan, comRemote, comRun, comGen, comMade, comTold, comJob, comMem, comFaults>>
  BY DEF Tell, At, comWorld
<1>2. /\ q \in Actors /\ q \notin Workers /\ comRun.state # "none" /\ comAct[q].op = "none"
  BY <1>1, RequestHolds
<1>3. comAct' = [comAct EXCEPT ![q] = act]
  BY <1>1, <1>2 DEF Turns, Turned
<1>4. /\ "op" \in Steps
      /\ "op" \notin {"saveMark", "save", "failSettle", "collectJobs", "collect"} \cup Judging
  BY DEF Steps, Judging
<1>5. act \in Acts /\ act.pc = "op"
  BY <1>4, TurnsTo
<1>6. CarriedTells(act, Truths, Ready)
  BY <1>4, TurnsTo
<1>7. RowTells(act.row, comPlan, Truths)
  BY <1>4, TurnsTo
<1> HIDE DEF act
<1>8. act.pc \notin Early /\ comFaults' \in 0..MaxComFaults
  BY <1>1, <1>5, FaultCounts DEF Early, First
<1>. QED
  BY <1>1, <1>2, <1>3, <1>5, <1>6, <1>7, <1>8, QuietDropStep

-----------------------------------------------------------------------------
(*****************************************************************************)
(* What a request asks for.                                                  *)
(*****************************************************************************)

LEMMA ResolveMoves == ASSUME ComInv, NEW q \in Requests, Resolve(q) PROVE ComMoves
<1>1. /\ comAct[q].pc = "op" /\ comAct' = [comAct EXCEPT ![q] = NoAct]
      /\ comTold' = [told |-> TRUE, bumped |-> FALSE, changed |-> FALSE]
      /\ UNCHANGED <<comPlan, comRemote, comRun, comGen, comMade, comRow, comJob, comMem, comFaults>>
  BY DEF Resolve, At, Ends, comWorld
<1>2. /\ q \in Actors /\ q \notin Workers /\ comRun.state # "none"
  BY <1>1, RequestHolds
<1>3. Written
  <2>1. RunGrows
    BY <1>1 DEF RunGrows, ComInv, ComTypes, ComTypeOK, Ready, Receipts, OutStates
  <2>2. OutsTell'
    BY <1>1 DEF ComInv, OutsTell, Outputs, TextIsKept, Ready, Linked
  <2>. QED
    BY <2>1, <2>2, <1>1 DEF Written, ChangeIsTold, PutAwayStands, Tellings
<1>4. NoAct \in Acts /\ NoAct.pc \notin Early
  BY NoActTells DEF NoAct, Early, First
<1>5. NeverNumbered => NeverNumbered'
  BY <1>1, <1>2, <1>4, ActBegins
<1>6. Truths \subseteq Truths' /\ Later(comPlan, comPlan')
  BY <1>1, <1>3, <1>5, TruthsGrow DEF Later, Written, ComInv
<1>7. StateTells'
  BY <1>1, <1>3, <1>6, StateStaysTrue DEF ComInv
<1>8. RowTells(NoAct.row, comPlan, Truths') /\ CarriedTells(NoAct, Truths', Ready')
  BY NoActTells, NoRowTells
<1>9. CardsAreCounted'
  BY <1>1 DEF ComInv, CardsAreCounted
<1>. QED
  BY <1>1, <1>2, <1>3, <1>4, <1>6, <1>7, <1>8, <1>9, WriteStep DEF ComInv, ComTypes, ComTypeOK, JobStates

\* ack_canvas_run: a run whose receipt is what the page was told is put away.
LEMMA AcknowledgeMoves == ASSUME ComInv, NEW q \in Requests, acknowledge(q) PROVE ComMoves
<1>1. /\ comAct[q].pc = "op"
      /\ UNCHANGED <<comPlan, comRemote, comGen, comMade, comRow, comJob, comMem, comFaults>>
  BY DEF acknowledge, At, comWorld
<1>2. /\ q \in Actors /\ q \notin Workers /\ comRun.state # "none" /\ comAct[q] \in Acts
      /\ CarriedTells(comAct[q], Truths, Ready)
  BY <1>1, RequestHolds
<1>3. CASE MayAcknowledge
  <2> PICK drop \in BOOLEAN :
        /\ drop = RowIsDone(comRun')
        /\ comAct' = [comAct EXCEPT ![q].pc = "saveAck", ![q].drop = drop]
    <3>1. RowIsDone(comRun') \in BOOLEAN
      BY DEF RowIsDone, isRunFullySaved
    <3>. QED
      BY <1>3, <3>1 DEF acknowledge
  <2> DEFINE act == [comAct[q] EXCEPT !.pc = "saveAck", !.drop = drop]
  <2>1. /\ comAct' = [comAct EXCEPT ![q] = act]
        /\ Write([comRun EXCEPT !.state = "linked"], FALSE)
    BY <1>3 DEF acknowledge
  <2>2. /\ act \in Acts /\ act.pc = "saveAck" /\ act.op = comAct[q].op
        /\ act.st = comAct[q].st /\ act.row = comAct[q].row /\ act.full = comAct[q].full
        /\ act.pc \in Keeping /\ act.pc \notin Early
    <3>1. "saveAck" \in Steps /\ "saveAck" \in Keeping /\ "saveAck" \notin Early
      BY DEF Steps, Keeping, Early, First
    <3>. QED
      BY <3>1, <1>2 DEF Acts
  <2> HIDE DEF act
  <2>3. Written /\ comRun'.state = "linked"
    BY <1>1, <1>3, <2>1, AcknowledgeWrites DEF ComInv
  <2>4. NeverNumbered => NeverNumbered'
    BY <1>1, <1>2, <2>1, <2>2, <2>3, ActBegins
  <2>5. Truths \subseteq Truths' /\ Later(comPlan, comPlan') /\ "done" \in Truths'
    <3>1. "done" \in Truths'
      BY <2>3 DEF Truths, NothingRemains, IsSettled, Settled
    <3>. QED
      BY <3>1, <1>1, <2>3, <2>4, TruthsGrow DEF Later, Written, ComInv
  <2>6. StateTells'
    BY <2>3 DEF StateTells
  <2>7. RowTells(act.row, comPlan, Truths') /\ CarriedTells(act, Truths', Ready')
    BY <1>1, <2>2, <2>5, SavingAct, <1>2
  <2>8. CardsAreCounted'
    BY <1>1 DEF ComInv, CardsAreCounted
  <2>. QED
    BY <1>1, <1>2, <2>1, <2>2, <2>3, <2>5, <2>6, <2>7, <2>8, WriteStep
       DEF ComInv, ComTypes, ComTypeOK, JobStates
<1>4. CASE ~MayAcknowledge
  <2>1. /\ comAct' = [comAct EXCEPT ![q] = NoAct]
        /\ UNCHANGED <<comWorld, comDisk, comJob, comMem, comFaults>>
    BY <1>4 DEF acknowledge, Ends, comWorld, comDisk
  <2>. QED
    BY <1>2, <2>1, TurnStep
<1>. QED
  BY <1>3, <1>4

\* What a second fetch claims tells only which row it saw.
LEMMA TokenTells ==
  ASSUME NEW row \in Rows, NEW plan, NEW truths
  PROVE  /\ claim_token(row) \in Rows /\ RowTells(claim_token(row), plan, truths)
         /\ claim_token(row).seq = row.seq /\ claim_token(row).phase = row.phase
<1> DEFINE token == [NoRow EXCEPT !.seq = row.seq, !.phase = row.phase]
<1>1. NoRow \in Rows /\ RowTells(NoRow, plan, truths)
  BY NoRowTells
<1>2. /\ token \in Rows /\ token.seq = row.seq /\ token.phase = row.phase /\ ~token.prompt
      /\ token.enum = NoRow.enum /\ token.known = NoRow.known /\ token.down = NoRow.down
      /\ token.gone = NoRow.gone /\ token.unread = NoRow.unread /\ token.term = NoRow.term
      /\ token.textOnly = NoRow.textOnly
  BY <1>1 DEF Rows, NoRow
<1> HIDE DEF token
<1>3. RowTells(token, plan, truths)
  BY <1>1, <1>2 DEF RowTells
<1>. QED
  BY <1>2, <1>3 DEF token, claim_token

\* A request carries the token on.
LEMMA TokenAct ==
  ASSUME ComInv, NEW q \in Requests, comAct[q].pc \in {"op", "collectJobs", "dismissJobs"},
         NEW pc \in {"collectJobs", "collect", "dismissJobs", "dismiss"}, NEW row \in Rows,
         NEW jobs \in [Workers -> JobStates],
         RowTells(row, comPlan, Truths),
         pc \in {"collectJobs", "collect"} => row.seq < MaxCollects,
         comAct' = [comAct EXCEPT ![q] = [comAct[q] EXCEPT !.pc = pc, !.row = row, !.jobs = jobs]],
         UNCHANGED <<comWorld, comDisk, comJob, comMem, comFaults>>
  PROVE  ComMoves
<1> DEFINE act == [comAct[q] EXCEPT !.pc = pc, !.row = row, !.jobs = jobs]
<1>1. /\ comRun.state # "none" /\ comAct[q] \in Acts /\ CarriedTells(comAct[q], Truths, Ready)
  BY RequestHolds
<1>2. /\ act \in Acts /\ act.pc = pc /\ act.row = row /\ act.st = comAct[q].st
      /\ act.drop = comAct[q].drop /\ act.op = comAct[q].op
  <2>1. pc \in Steps
    BY DEF Steps
  <2>. QED
    BY <1>1, <2>1 DEF Acts
<1>3. comAct' = [comAct EXCEPT ![q] = act]
  OBVIOUS
<1> HIDE DEF act
<1>4. act.pc \notin Early /\ CarriedTells(act, Truths, Ready)
  BY <1>1, <1>2 DEF CarriedTells, Keeping, Judging, Early, First
<1>. QED
  BY <1>1, <1>2, <1>3, <1>4, ReadStep

LEMMA CollectReadMoves == ASSUME ComInv, NEW q \in Requests, CollectRead(q) PROVE ComMoves
<1>1. /\ comAct[q].pc = "op"
      /\ UNCHANGED <<comWorld, comDisk, comJob, comMem, comFaults>>
  BY DEF CollectRead, At
<1>2. comRun.state # "none" /\ comAct[q] \in Acts
  BY <1>1, RequestHolds
<1>3. CASE comAct' = [comAct EXCEPT ![q] = NoAct]
  BY <1>1, <1>2, <1>3, TurnStep
<1>4. CASE /\ comRow.seq < MaxCollects
           /\ comAct' = [comAct EXCEPT ![q].pc = "collectJobs", ![q].row = claim_token(comRow)]
  <2> DEFINE row == claim_token(comRow)
             jobs == comAct[q].jobs
  <2>1. /\ row \in Rows /\ RowTells(row, comPlan, Truths) /\ row.seq < MaxCollects
    BY <1>4, TokenTells DEF ComInv, ComTypes, ComTypeOK
  <2>2. jobs \in [Workers -> JobStates]
    BY <1>2 DEF Acts
  <2>3. comAct' = [comAct EXCEPT ![q] = [comAct[q] EXCEPT !.pc = "collectJobs", !.row = row, !.jobs = jobs]]
    BY <1>2, <1>4 DEF Acts
  <2> HIDE DEF row, jobs
  <2>. QED
    BY <1>1, <2>1, <2>2, <2>3, TokenAct
<1>. QED
  BY <1>3, <1>4 DEF CollectRead, Ends

LEMMA CollectJobsMoves == ASSUME ComInv, NEW q \in Requests, CollectJobs(q) PROVE ComMoves
<1>1. /\ comAct[q].pc = "collectJobs"
      /\ comAct' = [comAct EXCEPT ![q].pc = "collect", ![q].jobs = comJob]
      /\ UNCHANGED <<comWorld, comDisk, comJob, comMem, comFaults>>
  BY DEF CollectJobs, At
<1>2. /\ comAct[q] \in Acts /\ RowTells(comAct[q].row, comPlan, Truths)
      /\ comAct[q].row.seq < MaxCollects
  BY <1>1, RequestHolds DEF CarriedTells
<1> DEFINE row == comAct[q].row
<1>3. row \in Rows /\ comJob \in [Workers -> JobStates]
  BY <1>2 DEF Acts, ComInv, ComTypes, ComTypeOK, JobStates
<1>4. comAct' = [comAct EXCEPT ![q] = [comAct[q] EXCEPT !.pc = "collect", !.row = row, !.jobs = comJob]]
  BY <1>1, <1>2 DEF Acts
<1> HIDE DEF row
<1>. QED
  BY <1>1, <1>2, <1>3, <1>4, TokenAct DEF row

\* The run is fetched again: a worker of the next number takes the row over.
LEMMA CollectMoves == ASSUME ComInv, NEW q \in Requests, Collect(q) PROVE ComMoves
<1> DEFINE row == comRow
           n == row.seq + 1
           prev == IF row.phase # "collecting" THEN row.phase
                   ELSE IF row.term = "success" THEN "result_pending" ELSE "orphaned"
           next == [row EXCEPT !.phase = "collecting", !.seq = n, !.prev = prev]
           claimed == /\ claim_token(row) = comAct[q].row
                      /\ row # NoRow
                      /\ collect_available(row, comAct[q].jobs)
<1>1. /\ comAct[q].pc = "collect"
      /\ UNCHANGED <<comPlan, comRemote, comRun, comGen, comMade, comTold>>
  BY DEF Collect, At, comWorld
<1>2. /\ q \in Actors /\ q \notin Workers /\ comRun.state # "none" /\ comAct[q] \in Acts
      /\ comAct[q].row.seq < MaxCollects
  BY <1>1, RequestHolds DEF CarriedTells
<1>3. CASE ~claimed
  <2>1. /\ comAct' = [comAct EXCEPT ![q] = NoAct]
        /\ UNCHANGED <<comWorld, comDisk, comJob, comMem, comFaults>>
    BY <1>1, <1>3 DEF Collect, Ends, comWorld, comDisk
  <2>. QED
    BY <1>2, <2>1, TurnStep
<1>4. CASE claimed
  <2> PICK pc \in {"look", "fail"} :
        /\ comRow' = next
        /\ comJob' = [comJob EXCEPT ![next.seq] = "active"]
        /\ comMem' = [comMem EXCEPT ![next.seq] = [row |-> next, kept |-> "collecting"]]
        /\ comAct' = [comAct EXCEPT ![q] = NoAct, ![next.seq].pc = pc]
        /\ IF pc = "fail" THEN ComFault ELSE UNCHANGED comFaults
    BY <1>4 DEF Collect
  <2>1. /\ comRow \in Rows /\ RowTells(comRow, comPlan, Truths) /\ RowIsNumbered(comRow, Truths)
        /\ comMem \in [Workers -> [row : Rows, kept : Phases]]
        /\ comAct \in [Actors -> Acts] /\ comJob \in [Workers -> JobStates]
    BY DEF ComInv, RowsTell, ComTypes, ComTypeOK, JobStates
  <2>2. row.seq < MaxCollects /\ row.seq \in Workers
    BY <1>2, <1>4, <2>1, TokenTells DEF Rows
  <2>3. n \in Workers /\ n \in Actors /\ n # 0 /\ n # q /\ n > row.seq /\ n \in Int /\ row.seq \in Int
    BY <1>2, <2>2, ComfyAssumption DEF Workers, Actors
  <2>4. row.phase \in {"collecting", "result_pending", "orphaned"} /\ row.prompt
    BY <1>4, <2>1 DEF collect_available, RowIsNumbered
  <2>5. prev \in {"result_pending", "orphaned"}
    BY <2>4
  <2> HIDE DEF prev, n
  <2>6. /\ next \in Rows /\ next.seq = n /\ next.phase = "collecting" /\ next.prompt
        /\ next.enum = row.enum /\ next.known = row.known /\ next.down = row.down
        /\ next.gone = row.gone /\ next.unread = row.unread /\ next.term = row.term
        /\ next.textOnly = row.textOnly /\ next # NoRow
    <3>1. prev \in Phases /\ "collecting" \in Phases
      BY <2>5 DEF Phases
    <3>2. /\ next \in Rows /\ next.seq = n /\ next.phase = "collecting" /\ next.prompt
          /\ next.enum = row.enum /\ next.known = row.known /\ next.down = row.down
          /\ next.gone = row.gone /\ next.unread = row.unread /\ next.term = row.term
          /\ next.textOnly = row.textOnly
      BY <2>1, <2>3, <2>4, <3>1 DEF Rows
    <3>3. next.phase # NoRow.phase
      BY <3>2 DEF NoRow
    <3>. QED
      BY <3>2, <3>3
  <2>7. comAct[n] = NoAct
    BY <1>4, <2>3 DEF ComInv, WorkBegins
  <2> DEFINE act == [NoAct EXCEPT !.pc = pc]
  <2>8. /\ act \in Acts /\ act.pc = pc /\ act.row = NoRow /\ act.full /\ act.op = "none"
        /\ act.st = "none" /\ ~act.drop
    <3>1. NoAct \in Acts /\ NoAct.row = NoRow /\ NoAct.full /\ NoAct.op = "none"
          /\ NoAct.st = "none" /\ ~NoAct.drop /\ pc \in Steps
      BY NoActTells DEF NoAct, Steps, Working
    <3>. QED
      BY <3>1 DEF Acts
  <2>9. /\ comAct' \in [Actors -> Acts] /\ comAct'[q] = NoAct /\ comAct'[n] = act
        /\ \A b \in Actors \ {q, n} : comAct'[b] = comAct[b]
    <3>1. comAct' = [comAct EXCEPT ![q] = NoAct, ![n] = act]
      BY <1>2, <2>1, <2>3, <2>6, <2>7
    <3> HIDE DEF act
    <3>. QED
      BY <3>1, <1>2, <2>1, <2>3, <2>8, NoActTells
  <2> HIDE DEF act, next
  <2>10. /\ comMem' \in [Workers -> [row : Rows, kept : Phases]] /\ comMem'[n].row = next
         /\ \A w \in Workers \ {n} : comMem'[w] = comMem[w]
    <3>1. "collecting" \in Phases
      BY DEF Phases
    <3>. QED
      BY <3>1, <2>1, <2>3, <2>6
  <2>11. comJob' \in [Workers -> JobStates] /\ comFaults' \in 0..MaxComFaults
    <3>1. "active" \in JobStates
      BY DEF JobStates
    <3>2. comFaults' \in 0..MaxComFaults
      BY FaultCounts
    <3>. QED
      BY <3>1, <3>2, <2>1, <2>3, <2>6
  <2>12. Numbered /\ ~NeverNumbered /\ comAct[0].pc \notin Early
    <3>1. Numbered
      BY <2>4 DEF Numbered
    <3>. QED
      BY <3>1 DEF NeverNumbered, ComInv, WorkBegins
  <2>13. Written /\ Later(comPlan, comPlan') /\ Ready' = Ready
    BY <1>1, QuietWritten DEF Later, Ready
  <2>14. Truths \subseteq Truths'
    BY <1>1, <2>12, <2>13, TruthsGrow DEF ComInv, Written
  <2>15. StateTells'
    BY <1>1, <2>13, <2>14, StateStaysTrue DEF ComInv
  <2>16. RowTells(next, comPlan', Truths') /\ RowIsNumbered(next, Truths')
    <3>1. RowTells(next, comPlan, Truths) /\ RowIsNumbered(next, Truths)
      BY <2>1, <2>4, <2>6 DEF RowTells, RowIsNumbered
    <3>. QED
      BY <3>1, <2>13, <2>14, RowStays, RowStaysNumbered
  <2>17. RowsTell'
    <3> SUFFICES ASSUME NEW w \in Workers
                 PROVE  /\ RowTells(comMem'[w].row, comPlan', Truths')
                        /\ RowIsNumbered(comMem'[w].row, Truths')
      BY <2>16 DEF RowsTell
    <3>1. CASE w = n
      BY <3>1, <2>10, <2>16
    <3>2. CASE w # n
      BY <3>2, <2>10, <2>13, <2>14, RowStays, RowStaysNumbered DEF ComInv, RowsTell
    <3>. QED
      BY <3>1, <3>2
  <2>18. ActsTell'
    <3>1. /\ CarriedTells(act, Truths', Ready') /\ RowTells(act.row, comPlan', Truths')
          /\ ListTells(act, next, comPlan', Truths') /\ WorkTells(act, next, Truths')
      <4>1. CarriedTells(act, Truths', Ready')
        BY <2>8 DEF CarriedTells, Settled, Keeping, Judging
      <4>2. ListTells(act, next, comPlan', Truths') /\ WorkTells(act, next, Truths')
        BY <2>6, <2>8 DEF ListTells, WorkTells, Listing, Loading, Working, Keeping
      <4>. QED
        BY <4>1, <4>2, <2>8, NoRowTells
    <3>2. ASSUME NEW b \in Actors
          PROVE  RowTells(comAct'[b].row, comPlan', Truths') /\ CarriedTells(comAct'[b], Truths', Ready')
      <4>1. CASE b = q
        BY <4>1, <2>9, NoActTells, NoRowTells
      <4>2. CASE b = n
        BY <4>2, <2>9, <3>1
      <4>3. CASE b \notin {q, n}
        <5>1. comAct'[b] = comAct[b] /\ RowTells(comAct[b].row, comPlan, Truths)
              /\ CarriedTells(comAct[b], Truths, Ready)
          BY <4>3, <2>9 DEF ComInv, ActsTell
        <5>. QED
          BY <5>1, <2>13, <2>14, RowStays, CarriedStays
      <4>. QED
        BY <4>1, <4>2, <4>3
    <3>3. ASSUME NEW w \in Workers
          PROVE  /\ ListTells(comAct'[w], comMem'[w].row, comPlan', Truths')
                 /\ WorkTells(comAct'[w], comMem'[w].row, Truths')
      <4>1. CASE w = n
        BY <4>1, <2>9, <2>10, <3>1
      <4>2. CASE w # n
        <5>1. /\ comAct'[w] = comAct[w] /\ comMem'[w] = comMem[w]
              /\ ListTells(comAct[w], comMem[w].row, comPlan, Truths)
              /\ WorkTells(comAct[w], comMem[w].row, Truths)
          BY <4>2, <1>2, <2>9, <2>10 DEF ComInv, ActsTell, Actors
        <5>. QED
          BY <5>1, <2>13, <2>14, ListStays, WorkStays
      <4>. QED
        BY <4>1, <4>2
    <3>. QED
      BY <3>2, <3>3 DEF ActsTell
  <2>19. WorkBegins'
    <3>1. comAct'[0] = comAct[0]
      BY <1>2, <2>3, <2>9, ComfyAssumption DEF Actors, Workers
    <3>2. \A w \in Workers : w > n => comAct'[w] = NoAct
      <4> SUFFICES ASSUME NEW w \in Workers, w > n PROVE comAct'[w] = NoAct
        OBVIOUS
      <4>1. w > row.seq /\ w # n
        BY <2>3, ComfyAssumption DEF Workers
      <4>2. comAct[w] = NoAct
        BY <4>1, <1>4 DEF ComInv, WorkBegins
      <4>. QED
        BY <4>1, <4>2, <1>2, <2>9 DEF Actors
    <3>. QED
      BY <3>1, <3>2, <1>1, <1>2, <2>6, <2>12 DEF WorkBegins, Early
  <2>20. CardsAreCounted' /\ EvidenceStands
    BY <1>1, <2>6 DEF ComInv, CardsAreCounted, EvidenceStands
  <2>21. ComTypes'
    <3>1. comRow' \in Rows /\ comRow'.down \cup comRow'.gone \subseteq comRow'.known
          /\ comRow'.down \cap comRow'.gone = {}
      BY <2>6, <2>16 DEF RowTells
    <3>2. \A b \in Actors : comAct'[b].row \in Rows /\ comAct'[b].todo \subseteq Media
      BY <2>9 DEF Acts
    <3>. QED
      BY <3>1, <3>2, <1>1, <2>9, <2>10, <2>11 DEF ComInv, ComTypes, ComTypeOK, JobStates
  <2>. QED
    BY <2>13, <2>15, <2>17, <2>18, <2>19, <2>20, <2>21 DEF ComMoves, ComInv, Written
<1>. QED
  BY <1>3, <1>4

LEMMA DismissReadMoves == ASSUME ComInv, NEW q \in Requests, DismissRead(q) PROVE ComMoves
<1> DEFINE row == claim_token(comRow)
           jobs == comAct[q].jobs
<1>1. /\ comAct[q].pc = "op"
      /\ comAct' = [comAct EXCEPT ![q].pc = "dismissJobs", ![q].row = row]
      /\ UNCHANGED <<comWorld, comDisk, comJob, comMem, comFaults>>
  BY DEF DismissRead, At
<1>2. comRun.state # "none" /\ comAct[q] \in Acts
  BY <1>1, RequestHolds
<1>3. row \in Rows /\ RowTells(row, comPlan, Truths) /\ jobs \in [Workers -> JobStates]
  BY <1>2, TokenTells DEF ComInv, ComTypes, ComTypeOK, Acts
<1>4. comAct' = [comAct EXCEPT ![q] = [comAct[q] EXCEPT !.pc = "dismissJobs", !.row = row, !.jobs = jobs]]
  BY <1>1, <1>2 DEF Acts
<1> HIDE DEF row, jobs
<1>. QED
  BY <1>1, <1>3, <1>4, TokenAct

LEMMA DismissJobsMoves == ASSUME ComInv, NEW q \in Requests, DismissJobs(q) PROVE ComMoves
<1> DEFINE row == comAct[q].row
<1>1. /\ comAct[q].pc = "dismissJobs"
      /\ comAct' = [comAct EXCEPT ![q].pc = "dismiss", ![q].jobs = comJob]
      /\ UNCHANGED <<comWorld, comDisk, comJob, comMem, comFaults>>
  BY DEF DismissJobs, At
<1>2. comAct[q] \in Acts /\ RowTells(row, comPlan, Truths)
  BY <1>1, RequestHolds
<1>3. row \in Rows /\ comJob \in [Workers -> JobStates]
  BY <1>2 DEF Acts, ComInv, ComTypes, ComTypeOK, JobStates
<1>4. comAct' = [comAct EXCEPT ![q] = [comAct[q] EXCEPT !.pc = "dismiss", !.row = row, !.jobs = comJob]]
  BY <1>1, <1>2 DEF Acts
<1> HIDE DEF row
<1>. QED
  BY <1>1, <1>2, <1>3, <1>4, TokenAct

\* The user puts the run away: the receipt first, and then the row goes.
LEMMA DismissMoves == ASSUME ComInv, NEW q \in Requests, Dismiss(q) PROVE ComMoves
<1>1. /\ comAct[q].pc = "dismiss" /\ comAct' = [comAct EXCEPT ![q] = NoAct]
      /\ UNCHANGED <<comPlan, comRemote, comGen, comMade, comJob, comMem>>
  BY DEF Dismiss, At, Ends, comWorld
<1>2. q \in Actors /\ q \notin Workers /\ comRun.state # "none"
  BY <1>1, RequestHolds
<1>3. CASE UNCHANGED <<comRun, comTold, comRow, comFaults>>
  BY <1>1, <1>2, <1>3, TurnStep DEF comWorld, comDisk
<1>4. CASE /\ set_state("dismissed")
           /\ \/ comRow' = NoRow /\ UNCHANGED comFaults
              \/ ComFault /\ UNCHANGED comRow
  <2>1. Written /\ comRun'.state \in {comRun.state, "dismissed"} /\ comRun'.state \in Settled
    <3>1. "dismissed" \in RunStates \ {"none", "linked"}
      BY DEF RunStates
    <3>2. /\ Written /\ comRun'.state \in {comRun.state, "dismissed"}
          /\ comRun.state \notin Settled \cup {"none"} => comRun'.state = "dismissed"
      BY <3>1, <1>1, <1>4, SetStateWrites DEF ComInv
    <3>. QED
      BY <3>2, <1>2 DEF Settled
  <2>2. NoAct \in Acts /\ NoAct.pc \notin Early
    BY NoActTells DEF NoAct, Early, First
  <2>3. NeverNumbered => NeverNumbered'
    <3>1. Numbered' => Numbered
      BY <1>1, <1>4 DEF Numbered, NoRow
    <3>2. comAct'[0].pc \in Early => comAct[0].pc \in Early
      BY <1>1, <1>2, ComfyAssumption DEF ComInv, ComTypes, Actors, Workers
    <3>. QED
      BY <3>1, <3>2, <2>1 DEF NeverNumbered, Settled
  <2>4. Truths \subseteq Truths' /\ Later(comPlan, comPlan') /\ "settled" \in Truths'
    <3>1. "settled" \in Truths'
      BY <2>1 DEF Truths, IsSettled
    <3>. QED
      BY <3>1, <1>1, <2>1, <2>3, TruthsGrow DEF Later, Written, ComInv
  <2>5. StateTells'
    BY <2>1 DEF StateTells, Settled
  <2>6. RowTells(NoAct.row, comPlan, Truths') /\ CarriedTells(NoAct, Truths', Ready')
    BY NoActTells, NoRowTells
  <2>7. comFaults' \in 0..MaxComFaults
    BY <1>4, FaultCounts
  <2>. QED
    BY <1>1, <1>2, <1>4, <2>1, <2>2, <2>4, <2>5, <2>6, <2>7, DropStep
<1>. QED
  BY <1>3, <1>4 DEF Dismiss

-----------------------------------------------------------------------------
(*****************************************************************************)
(* The world: ComfyUI, the library, and a restart.                           *)
(*****************************************************************************)

\* A step of the world leaves every actor and every row as it is.
LEMMA WorldStep ==
  ASSUME ComInv, Written, Later(comPlan, comPlan'), UNCHANGED <<comRow, comMem, comAct, comMade>>,
         comRun'.state = comRun.state,
         comRemote = "failure" => comRemote' = "failure", comRemote = "none" => comRemote' = "none",
         comPlan' \in [media : SUBSET Media, text : {"none", "history", "file", "lost"}],
         comRemote' \in {"none", "running", "success", "failure"},
         comGen' \in [Media -> {"none", "live", "trashed"}],
         \A m \in Media : comGen'[m] = "none" <=> comGen[m] = "none",
         comJob' \in [Workers -> JobStates], comFaults' \in 0..MaxComFaults
  PROVE  ComMoves
<1>1. NeverNumbered => NeverNumbered'
  BY DEF NeverNumbered, Numbered
<1>2. Truths \subseteq Truths' /\ Ready \subseteq Ready'
  BY <1>1, TruthsGrow DEF ComInv, Written, RunGrows
<1>3. StateTells'
  BY <1>2, StateStaysTrue DEF ComInv
<1>4. RowsTell'
  <2>1. RowTells(comRow', comPlan', Truths') /\ RowIsNumbered(comRow', Truths')
    BY <1>2, RowStays, RowStaysNumbered DEF ComInv, RowsTell
  <2>2. \A w \in Workers : /\ RowTells(comMem'[w].row, comPlan', Truths')
                           /\ RowIsNumbered(comMem'[w].row, Truths')
    BY <1>2, RowStays, RowStaysNumbered DEF ComInv, RowsTell
  <2>. QED
    BY <2>1, <2>2 DEF RowsTell
<1>5. ActsTell'
  <2>1. \A a \in Actors : RowTells(comAct'[a].row, comPlan', Truths')
    BY <1>2, RowStays DEF ComInv, ActsTell
  <2>2. \A a \in Actors : CarriedTells(comAct'[a], Truths', Ready')
    BY <1>2, CarriedStays DEF ComInv, ActsTell
  <2>3. \A w \in Workers : ListTells(comAct'[w], comMem'[w].row, comPlan', Truths')
    BY <1>2, ListStays DEF ComInv, ActsTell
  <2>4. \A w \in Workers : WorkTells(comAct'[w], comMem'[w].row, Truths')
    BY <1>2, WorkStays DEF ComInv, ActsTell
  <2>. QED
    BY <2>1, <2>2, <2>3, <2>4 DEF ActsTell
<1>6. WorkBegins'
  BY DEF ComInv, WorkBegins, Numbered
<1>7. CardsAreCounted' /\ EvidenceStands
  BY DEF ComInv, CardsAreCounted, EvidenceStands
<1>8. ComTypes'
  BY DEF ComInv, ComTypes, ComTypeOK, Written, RunGrows, Receipts, OutStates, Tellings, JobStates
<1>. QED
  BY <1>3, <1>4, <1>5, <1>6, <1>7, <1>8 DEF ComMoves, ComInv, Written

\* What holds when nothing but the world and the cards move.
LEMMA WorldTypes ==
  ASSUME ComInv
  PROVE  /\ comPlan \in [media : SUBSET Media, text : {"none", "history", "file", "lost"}]
         /\ comRemote \in {"none", "running", "success", "failure"}
         /\ comGen \in [Media -> {"none", "live", "trashed"}]
         /\ comJob \in [Workers -> JobStates] /\ comFaults \in 0..MaxComFaults
         /\ comRun \in Receipts /\ comTold \in Tellings
BY DEF ComInv, ComTypes, ComTypeOK, JobStates, Receipts, OutStates, Tellings

LEMMA RemoteEndsMoves == ASSUME ComInv, RemoteEnds PROVE ComMoves
<1>1. /\ comRemote = "running" /\ comRemote' \in {"success", "failure"}
      /\ UNCHANGED <<comPlan, comRun, comGen, comMade, comRow, comTold, comJob, comMem, comAct,
                     comFaults>>
  BY DEF RemoteEnds, comDisk
<1>2. Written /\ Later(comPlan, comPlan')
  BY <1>1, QuietWritten DEF Later
<1>. QED
  BY <1>1, <1>2, WorldTypes, WorldStep

LEMMA TextIsOverwrittenMoves == ASSUME ComInv, TextIsOverwritten PROVE ComMoves
<1>1. /\ comPlan.text = "file" /\ comPlan' = [comPlan EXCEPT !.text = "lost"]
      /\ UNCHANGED <<comRemote, comRun, comGen, comMade, comRow, comTold, comJob, comMem, comAct,
                     comFaults>>
  BY DEF TextIsOverwritten, comDisk
<1>2. /\ comPlan' \in [media : SUBSET Media, text : {"none", "history", "file", "lost"}]
      /\ Later(comPlan, comPlan')
  BY <1>1, WorldTypes DEF Later
<1>3. Written
  BY <1>1, <1>2, QuietRun DEF ComInv
<1>. QED
  BY <1>1, <1>2, <1>3, WorldTypes, WorldStep

\* A card goes to the trash or comes back: it stays a card.
LEMMA CardStep ==
  ASSUME ComInv, NEW m \in Media, NEW s \in {"live", "trashed"}, comGen[m] # "none",
         comGen' = [comGen EXCEPT ![m] = s],
         UNCHANGED <<comWorld, comRun, comMade, comRow, comTold, comJob, comMem, comAct, comFaults>>
  PROVE  ComMoves
<1>1. /\ comGen' \in [Media -> {"none", "live", "trashed"}]
      /\ \A n \in Media : comGen'[n] = "none" <=> comGen[n] = "none"
  BY WorldTypes
<1>2. UNCHANGED <<comPlan, comRemote>> /\ Later(comPlan, comPlan')
  BY DEF comWorld, Later
<1>3. Written
  <2>1. RunGrows
    BY <1>1, WorldTypes DEF RunGrows, Ready
  <2>2. \A n \in Media : Linked(n)' <=> Linked(n)
    BY <1>1 DEF Linked
  <2>3. OutsTell'
    BY <1>2, <2>2 DEF ComInv, OutsTell, Outputs, TextIsKept, Ready
  <2>. QED
    BY <2>1, <2>3, WorldTypes DEF Written, ComInv, ChangeIsTold, PutAwayStands
<1>. QED
  BY <1>1, <1>2, <1>3, WorldTypes, WorldStep

LEMMA SweepMoves == ASSUME ComInv, NEW w \in Workers, Sweep(w) PROVE ComMoves
<1>1. /\ comJob' = [comJob EXCEPT ![w] = "none"]
      /\ UNCHANGED <<comPlan, comRemote, comRun, comGen, comMade, comRow, comTold, comMem, comAct,
                     comFaults>>
  BY DEF Sweep, comWorld, comDisk
<1>2. comJob' \in [Workers -> JobStates]
  BY <1>1, WorldTypes DEF JobStates
<1>3. Written /\ Later(comPlan, comPlan')
  BY <1>1, QuietWritten DEF Later
<1>. QED
  BY <1>1, <1>2, <1>3, WorldTypes, WorldStep

\* A run of text alone that is on the receipt has nothing left to fetch.
LEMMA TextOnlyIsDone ==
  ASSUME ComTypes, OutsTell, NEW row, RowTells(row, comPlan, Truths), row.textOnly
  PROVE  "done" \in Truths
<1>1. /\ comPlan.media = {}
      /\ IsSettled \/ (comRun.enum /\ TextIsKept)
  BY DEF RowTells, Truths
<1>2. ASSUME comRun.enum, TextIsKept PROVE FullySaved
  <2>1. Outputs(comRun) = {"text"}
    BY <1>1, <1>2, OutsAreTwo DEF OutsTell, Outputs, TextIsKept
  <2>. QED
    BY <1>2, <2>1 DEF FullySaved, isRunFullySaved, TextIsKept
<1>. QED
  BY <1>1, <1>2 DEF Truths, NothingRemains, NothingToFetch, FullySaved

\* The row that the program finds again says no more than the one it left.
LEMMA RestoredTells ==
  ASSUME NEW row \in Rows, NEW plan, NEW truths,
         RowTells(row, plan, truths), RowIsNumbered(row, truths)
  PROVE  /\ Restored(row) \in Rows
         /\ RowTells(Restored(row), plan, truths) /\ RowIsNumbered(Restored(row), truths)
         /\ Restored(row).prompt => row.prompt
         /\ row.prompt /\ ~Restored(row).prompt => row.textOnly
<1>1. CASE row.term = "success" /\ row.enum /\ row.textOnly /\ ~row.unread /\ row.known = {}
  <2>1. Restored(row) = NoRow
    BY <1>1 DEF Restored
  <2>. QED
    BY <1>1, <2>1, NoRowTells DEF NoRow
<1>2. CASE ~(row.term = "success" /\ row.enum /\ row.textOnly /\ ~row.unread /\ row.known = {})
  <2> DEFINE phase == IF row.phase = "submitting" THEN "unknown"
                      ELSE IF row.phase = "collecting" /\ ~row.enum
                        THEN IF row.prev \in {"orphaned", "result_pending"} THEN row.prev
                             ELSE "orphaned"
                      ELSE IF row.phase \in {"running", "collecting"}
                        THEN IF row.term # "success" THEN "orphaned"
                             ELSE IF all_downloaded(row) THEN "collected" ELSE "result_pending"
                      ELSE row.phase
             to == [row EXCEPT !.phase = phase]
  <2>1. Restored(row) = to
    BY <1>2 DEF Restored
  <2>2. /\ phase \in Phases
        /\ \/ phase = "unknown" /\ row.phase = "submitting"
           \/ /\ phase \in {"orphaned", "result_pending", "collected"}
              /\ row.phase \in {"running", "collecting"}
           \/ phase = row.phase
    BY DEF Rows, Phases
  <2> HIDE DEF phase
  <2>3. /\ to \in Rows /\ to.phase = phase /\ to.prompt = row.prompt
        /\ to.enum = row.enum /\ to.known = row.known /\ to.down = row.down
        /\ to.gone = row.gone /\ to.unread = row.unread /\ to.term = row.term
        /\ to.textOnly = row.textOnly
    BY <2>2 DEF Rows
  <2> HIDE DEF to
  <2>4. RowTells(to, plan, truths)
    BY <2>2, <2>3 DEF RowTells
  <2>5. RowIsNumbered(to, truths)
    BY <2>2, <2>3 DEF RowIsNumbered
  <2>. QED
    BY <2>1, <2>3, <2>4, <2>5
<1>. QED
  BY <1>1, <1>2

\* A restart: nobody is at work, and the row is what the file has of it.
LEMMA RestartHubMoves == ASSUME ComInv, RestartHub PROVE ComMoves
<1>1. /\ comRun.state # "none"
      /\ comJob' = [w \in Workers |-> "none"] /\ comMem' = [w \in Workers |-> NoMem]
      /\ comAct' = [a \in Actors |-> NoAct] /\ comRow' = Restored(comRow)
      /\ UNCHANGED <<comPlan, comRemote, comRun, comGen, comMade, comTold>>
  BY DEF RestartHub, comWorld
<1>2. /\ comRow \in Rows /\ RowTells(comRow, comPlan, Truths) /\ RowIsNumbered(comRow, Truths)
  BY DEF ComInv, RowsTell, ComTypes, ComTypeOK
<1>3. 0 \in Workers /\ 0 \in Actors /\ \A w \in Workers : w \in Actors
  BY ComfyAssumption DEF Workers, Actors
<1>4. /\ comRow' \in Rows
      /\ RowTells(comRow', comPlan, Truths) /\ RowIsNumbered(comRow', Truths)
      /\ comRow'.prompt => comRow.prompt
      /\ comRow.prompt /\ ~comRow'.prompt => comRow.textOnly
  BY <1>1, <1>2, RestoredTells
<1>5. \A a \in Actors : comAct'[a] = NoAct
  BY <1>1
<1>6. \A w \in Workers : comMem'[w] = NoMem
  BY <1>1
<1>7. NoMem.row = NoRow /\ NoMem \in [row : Rows, kept : Phases] /\ ~NoRow.prompt
  BY NoRowTells DEF NoMem, Phases, NoRow
<1>8. Written /\ Later(comPlan, comPlan') /\ Ready' = Ready
  BY <1>1, QuietWritten DEF Later, Ready
<1>9. NeverNumbered => NeverNumbered'
  <2>1. Numbered' => Numbered
    BY <1>4, <1>6, <1>7 DEF Numbered
  <2>2. comAct'[0].pc \notin Early
    BY <1>3, <1>5 DEF NoAct, Early, First
  <2>. QED
    BY <2>1, <2>2, <1>1 DEF NeverNumbered
<1>10. Truths \subseteq Truths'
  BY <1>1, <1>8, <1>9, TruthsGrow DEF ComInv, Written
<1>11. StateTells'
  BY <1>1, <1>8, <1>10, StateStaysTrue DEF ComInv
<1>12. RowsTell'
  <2>1. RowTells(comRow', comPlan', Truths') /\ RowIsNumbered(comRow', Truths')
    BY <1>4, <1>8, <1>10, RowStays, RowStaysNumbered
  <2>2. \A w \in Workers : /\ RowTells(comMem'[w].row, comPlan', Truths')
                           /\ RowIsNumbered(comMem'[w].row, Truths')
    BY <1>6, <1>7, NoRowTells
  <2>. QED
    BY <2>1, <2>2 DEF RowsTell
<1>13. ActsTell'
  <2>1. \A a \in Actors : /\ RowTells(comAct'[a].row, comPlan', Truths')
                          /\ CarriedTells(comAct'[a], Truths', Ready')
    BY <1>5, NoActTells, NoRowTells
  <2>2. \A w \in Workers : /\ ListTells(comAct'[w], comMem'[w].row, comPlan', Truths')
                           /\ WorkTells(comAct'[w], comMem'[w].row, Truths')
    BY <1>3, <1>5, NoActTells
  <2>. QED
    BY <2>1, <2>2 DEF ActsTell
<1>14. WorkBegins'
  <2>1. comAct'[0].pc = "off"
    BY <1>3, <1>5 DEF NoAct
  <2>. QED
    BY <2>1, <1>1, <1>3, <1>5 DEF WorkBegins, Early, First
<1>15. EvidenceStands
  <2> SUFFICES ASSUME comRow.prompt, ~comRow'.prompt
               PROVE  NothingToFetch \/ comRun'.state \in Settled
    BY DEF EvidenceStands
  <2>1. "done" \in Truths
    BY <1>2, <1>4, TextOnlyIsDone DEF ComInv
  <2>2. ~NeverNumbered
    BY DEF NeverNumbered, Numbered
  <2>. QED
    BY <2>1, <2>2, <1>1 DEF Truths, NothingRemains, IsSettled
<1>16. ComTypes'
  <2>1. /\ comRow'.down \cup comRow'.gone \subseteq comRow'.known
        /\ comRow'.down \cap comRow'.gone = {}
    BY <1>4 DEF RowTells
  <2>2. comAct' \in [Actors -> Acts] /\ \A a \in Actors : comAct'[a].row \in Rows /\ comAct'[a].todo \subseteq Media
    <3>1. NoAct \in Acts
      BY NoActTells
    <3>2. comAct' \in [Actors -> Acts]
      BY <1>1, <3>1
    <3>. QED
      BY <3>2 DEF Acts
  <2>3. comMem' \in [Workers -> [row : Rows, kept : Phases]] /\ comJob' \in [Workers -> JobStates]
    BY <1>1, <1>7 DEF JobStates
  <2>4. comFaults' \in 0..MaxComFaults
    BY FaultCounts DEF RestartHub
  <2>. QED
    BY <1>1, <1>4, <2>1, <2>2, <2>3, <2>4 DEF ComInv, ComTypes, ComTypeOK, JobStates
<1>17. CardsAreCounted'
  BY <1>1 DEF ComInv, CardsAreCounted
<1>. QED
  BY <1>8, <1>11, <1>12, <1>13, <1>14, <1>15, <1>16, <1>17 DEF ComMoves, ComInv, Written

-----------------------------------------------------------------------------
(*****************************************************************************)
(* The theorems.                                                             *)
(*****************************************************************************)

\* At the start there is a plan and nothing else.
LEMMA ComBegins == ASSUME ComInit PROVE ComInv
<1>1. /\ comRun = [state |-> "none", enum |-> FALSE, out |-> [o \in Outs |-> "none"]]
      /\ comRemote = "none" /\ comRow = NoRow
      /\ \A a \in Actors : comAct[a] = NoAct
      /\ \A w \in Workers : comMem[w] = NoMem
      /\ \A m \in Media : comGen[m] = "none" /\ comMade[m] = 0
      /\ ~comTold.changed
  BY DEF ComInit
<1>2. comRun.state = "none" /\ ~comRun.enum /\ \A o \in Outs : comRun.out[o] = "none"
  BY <1>1
<1>3. Outputs(comRun) = {} /\ Ready = {} /\ comRun.out["text"] = "none"
  BY <1>2, OutsAreTwo DEF Outputs, Ready, Fetched
<1>4. NoMem.row = NoRow /\ NoMem \in [row : Rows, kept : Phases] /\ NoRow \in Rows
      /\ NoRow.down \cup NoRow.gone \subseteq NoRow.known /\ NoRow.down \cap NoRow.gone = {}
      /\ ~NoRow.prompt
  BY NoRowTells DEF NoMem, Phases, NoRow
<1>5. ComTypes
  <2>1. comPlan \in [media : SUBSET Media, text : {"none", "history", "file", "lost"}]
    BY DEF ComInit
  <2>2. comRun \in [state : RunStates, enum : BOOLEAN,
                    out : [Outs -> {"none", "pending", "unavailable", "ready", "saved",
                                    "deleted", "text"}]]
    BY <1>1 DEF RunStates
  <2>3. comAct \in [Actors -> Acts] /\ \A a \in Actors : comAct[a].row \in Rows /\ comAct[a].todo \subseteq Media
    <3>1. NoAct \in Acts
      BY NoActTells
    <3>2. comAct \in [Actors -> Acts]
      BY <3>1 DEF ComInit
    <3>. QED
      BY <3>2 DEF Acts
  <2>4. /\ comMem \in [Workers -> [row : Rows, kept : Phases]]
        /\ comJob \in [Workers -> {"none", "active", "ended"}]
        /\ comGen \in [Media -> {"none", "live", "trashed"}]
        /\ comMade \in [Media -> Nat]
    BY <1>4 DEF ComInit
  <2>5. comTold \in [told : BOOLEAN, bumped : BOOLEAN, changed : BOOLEAN] /\ comFaults \in 0..MaxComFaults
    BY ComfyAssumption DEF ComInit
  <2>. QED
    BY <1>1, <1>4, <2>1, <2>2, <2>3, <2>4, <2>5 DEF ComTypes, ComTypeOK
<1>6. OutsTell
  BY <1>1, <1>2, <1>3, OutsAreTwo DEF OutsTell, Linked
<1>7. RowsTell /\ ActsTell
  <2>1. RowsTell
    BY <1>1, <1>4, NoRowTells DEF RowsTell
  <2>2. \A w \in Workers : w \in Actors
    BY DEF Actors
  <2>. QED
    BY <1>1, <2>1, <2>2, NoActTells, NoRowTells DEF ActsTell
<1>8. WorkBegins
  <2>1. 0 \in Actors /\ NoAct.pc = "off"
    BY ComfyAssumption DEF Actors, Workers, NoAct
  <2>2. ~Numbered
    BY <1>1, <1>4 DEF Numbered
  <2>. QED
    BY <1>1, <1>2, <2>1, <2>2 DEF WorkBegins, Early, First
<1>9. StateTells /\ CardsAreCounted /\ ChangeIsTold
  BY <1>1, <1>2 DEF StateTells, CardsAreCounted, ChangeIsTold
<1>. QED
  BY <1>5, <1>6, <1>7, <1>8, <1>9 DEF ComInv

\* Every step keeps the invariant, and does what the properties ask of a step.
LEMMA ComSteps == ASSUME ComInv, [ComNext]_comVars PROVE ComMoves
<1>1. CASE Start
  BY <1>1, StartMoves
<1>2. CASE FirstRun
  BY <1>2, ThreadStartsMoves, BeginRunMoves, AdmitMoves, SubmitMoves, TrackMoves, SubmitFailsMoves
     DEF FirstRun
<1>3. CASE World
  <2>1. ASSUME NEW m \in Media, CardIsTrashed(m) \/ CardIsRestored(m) PROVE ComMoves
    <3>1. CASE CardIsTrashed(m)
      BY <3>1, CardStep DEF CardIsTrashed
    <3>2. CASE CardIsRestored(m)
      BY <3>2, CardStep DEF CardIsRestored
    <3>. QED
      BY <2>1, <3>1, <3>2
  <2>. QED
    BY <1>3, <2>1, RemoteEndsMoves, TextIsOverwrittenMoves, RestartHubMoves, SweepMoves DEF World
<1>4. ASSUME NEW w \in Workers, WorkStep(w) PROVE ComMoves
  <2>1. CASE SeeSuccess(w) \/ SeeFailure(w) \/ NotReady(w) \/ Detail(w)
    BY <2>1, SeeSuccessMoves, SeeFailureMoves, NotReadyMoves, DetailMoves
  <2>2. CASE List(w) \/ Note(w) \/ ReadTexts(w) \/ ClearUnread(w) \/ Load(w) \/ NoteLoaded(w)
    BY <2>2, ListMoves, NoteMoves, ReadTextsMoves, ClearUnreadMoves, LoadMoves, NoteLoadedMoves
  <2>3. CASE CloseRun(w) \/ WorkFails(w)
    BY <2>3, CloseRunMoves, WorkFailsMoves
  <2>4. CASE Fail(w) \/ FailRead(w) \/ FailSettle(w) \/ FailAck(w) \/ WorkEnds(w)
    BY <2>4, FailMoves, FailReadMoves, FailSettleMoves, FailAckMoves, WorkEndsMoves
  <2>. QED
    BY <1>4, <2>1, <2>2, <2>3, <2>4 DEF WorkStep
<1>5. ASSUME NEW a \in Actors, Saving(a) PROVE ComMoves
  BY <1>5, SaveReadMoves, SaveMarkMoves, SaveItemMoves, SaveSettleMoves, SaveAckMoves DEF Saving
<1>6. ASSUME NEW q \in Requests, Arrive(q) \/ Serve(q) PROVE ComMoves
  <2>1. CASE Arrive(q) \/ ReadJobs(q) \/ ReadJournal(q) \/ Move(q) \/ Reconcile(q) \/ Tell(q)
    BY <2>1, ArriveMoves, ReadJobsMoves, ReadJournalMoves, MoveMoves, ReconcileMoves, TellMoves
  <2>2. CASE Resolve(q) \/ acknowledge(q)
    BY <2>2, ResolveMoves, AcknowledgeMoves
  <2>3. CASE CollectRead(q) \/ CollectJobs(q) \/ Collect(q)
    BY <2>3, CollectReadMoves, CollectJobsMoves, CollectMoves
  <2>4. CASE DismissRead(q) \/ DismissJobs(q) \/ Dismiss(q)
    BY <2>4, DismissReadMoves, DismissJobsMoves, DismissMoves
  <2>. QED
    BY <1>6, <2>1, <2>2, <2>3, <2>4 DEF Serve
<1>7. CASE UNCHANGED comVars
  <2>1. UNCHANGED <<comPlan, comRemote, comRun, comGen, comMade, comRow, comTold, comJob, comMem,
                    comAct, comFaults>>
    BY <1>7 DEF comVars, comWorld, comDisk
  <2>2. Written /\ Later(comPlan, comPlan')
    BY <2>1, QuietWritten DEF Later
  <2>. QED
    BY <2>1, <2>2, WorldTypes, WorldStep
<1>. QED
  BY <1>1, <1>2, <1>3, <1>4, <1>5, <1>6, <1>7 DEF ComNext

\* What every copy tells of the run, it tells in every reachable state.
THEOREM ComInvariant == ComSpec => []ComInv
<1>1. ComInit => ComInv
  BY ComBegins
<1>2. ComInv /\ [ComNext]_comVars => ComInv'
  BY ComSteps DEF ComMoves
<1>. QED
  BY <1>1, <1>2, PTL DEF ComSpec

\* The receipt, the journal, the jobs and what every actor carries are of their types.
THEOREM ComTypeCorrect == ComSpec => []ComTypeOK
<1>1. ComInv => ComTypeOK
  BY DEF ComInv, ComTypes
<1>. QED
  BY <1>1, ComInvariant, PTL

\* A run that is called saved has a card of its own for every image and video it
\* made, and the text it wrote (isRunFullySaved, _reconcile_canvas_runs).
THEOREM SavedIsWholeTheorem == ComSpec => []SavedIsWhole
<1>1. ComInv => SavedIsWhole
  <2> SUFFICES ASSUME ComInv, comRun.state = "saved"
               PROVE  /\ \A m \in comPlan.media : Linked(m)
                      /\ comPlan.text \in {"history", "file"} => comRun.out["text"] = "text"
    BY DEF SavedIsWhole
  <2>1. OutsTell /\ FullySaved /\ comPlan.media \subseteq Media
    BY DEF ComInv, StateTells, ComTypes, ComTypeOK
  <2>2. ASSUME NEW m \in comPlan.media PROVE Linked(m)
    <3>1. m \in Outputs(comRun) /\ m \in Media
      BY <2>1, <2>2 DEF OutsTell, FullySaved, isRunFullySaved
    <3>. QED
      BY <3>1, <2>1 DEF OutsTell, FullySaved, isRunFullySaved
  <2>3. comPlan.text \in {"history", "file"} => comRun.out["text"] = "text"
    <3>1. comRun.enum
      BY <2>1 DEF FullySaved, isRunFullySaved
    <3>2. comPlan.media # {} => Ready # {}
      BY <2>1, <2>2 DEF OutsTell, Ready, Fetched
    <3>. QED
      BY <3>1, <3>2, <2>1 DEF OutsTell, TextIsKept
  <2>. QED
    BY <2>2, <2>3
<1>. QED
  BY <1>1, ComInvariant, PTL

\* An output makes one card, whoever saves it and however often (linked_output).
THEOREM OneCardEachTheorem == ComSpec => []OneCardEach
<1>1. ComInv => OneCardEach
  BY DEF ComInv, CardsAreCounted, OneCardEach
<1>. QED
  BY <1>1, ComInvariant, PTL

\* What the page acknowledged or the user dismissed stays as it is, and no card is
\* made for it by whoever was still at work.
THEOREM SettledStandsTheorem == ComSpec => SettledStands
<1>1. ComInv /\ [ComNext]_comVars =>
        [/\ comRun.state # "linked" /\ comRun'.state = "linked" => ~comTold.changed
         /\ comRun.state \in Settled =>
              /\ comRun'.state \in {comRun.state, "linked"}
              /\ comRun'.out = comRun.out
              /\ comMade' = comMade]_comVars
  BY ComSteps DEF ComMoves, PutAwayStands
<1>. QED
  BY <1>1, ComInvariant, PTL DEF ComSpec, SettledStands

\* The journal row with ComfyUI's number for the run goes only when nothing is left
\* to fetch with it, or when the user puts the run away.
THEOREM EvidenceIsKeptTheorem == ComSpec => EvidenceIsKept
<1>1. ComInv /\ [ComNext]_comVars =>
        [comRow.prompt /\ ~comRow'.prompt =>
           NothingToFetch \/ comRun'.state \in Settled]_comVars
  BY ComSteps DEF ComMoves, EvidenceStands
<1>. QED
  BY <1>1, ComInvariant, PTL DEF ComSpec, EvidenceIsKept
=============================================================================
