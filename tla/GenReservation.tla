--------------------------- MODULE GenReservation ---------------------------
(***************************************************************************)
(* How a submission becomes one request in the queue.  A client may send   *)
(* the same submission again, at the same time or after a crash; each      *)
(* sending is handled by submit_gen_request                                *)
(* (src/backend/app/usecases/gen_requests.py), which awaits between the    *)
(* transactions of src/backend/app/repo/gen_requests.py:  reserve a row    *)
(* under the client's key, make its card (the "placeholder"), read the     *)
(* recipe back from the card, activate the row.                            *)
(*                                                                         *)
(* A key is an idempotency key or, for the canvas, an attempt id.  The     *)
(* server picks the card id of the former, the client that of the latter.  *)
(* A contract is what was asked for; "queued" stands for pending and every *)
(* later phase that has not failed.                                        *)
(***************************************************************************)
EXTENDS FiniteSets, Naturals

CONSTANTS
  Keys,         \* intents to generate of one account
  Canvas,       \* those that come from the canvas
  CanvasGen,    \* the card id their client chose
  Contracts,    \* what may be asked for
  Adjusts,      \* regenerations: copy a source card, then change prompt or model
  Finishes,     \* regenerations that finish one provider draft, as it is
  Offers,       \* what clients may send under each key
  Gens,         \* bound: card ids
  Handlers,     \* bound: submissions handled at a time
  NoKey, NoGen, NoContract,
  Source        \* the recipe of an unadjusted copy

ASSUME ReservationAssumption ==
  /\ Canvas \subseteq Keys
  /\ CanvasGen \in [Canvas -> Gens]
  /\ \A k, l \in Canvas : CanvasGen[k] = CanvasGen[l] => k = l
  /\ Adjusts \subseteq Contracts /\ Finishes \subseteq Contracts
  /\ Adjusts \cap Finishes = {}
  /\ Offers \subseteq [Keys -> SUBSET Contracts]
  /\ NoKey \notin Keys /\ NoGen \notin Gens
  /\ NoContract \notin Contracts /\ Source \notin Contracts
  /\ Source # NoContract

(* The browser draws an attempt id for one intent to generate, and sends   *)
(* nothing else under it (createCanvasGenerationLinks).                    *)
ASSUME AttemptAssumption ==
  \A o \in Offers, k \in Canvas : \A c, d \in o[k] : c = d

VARIABLES
  row,         \* the gen_request of a key
  card,        \* the generation of a card id
  pc,          \* where a handler is
  work,        \* what it works on
  offers,      \* what the clients of this behaviour send under each key
  activations, \* history: how often the row of a key was put into the queue
  answered     \* history: submissions that were answered with a card

vars == <<row, card, pc, work, offers, activations, answered>>

Recipes == Contracts \cup {Source}
Regenerates == Adjusts \cup Finishes   \* kind "regenerate"; the others, "create"

(* draft: the row holds _draft_finish_job_id or params.draft_job_id.       *)
RowType == [status : {"none", "preparing", "queued", "failed"},
            gen : Gens \cup {NoGen},
            contract : Contracts \cup {NoContract},
            payload : Recipes \cup {NoContract},
            draft : BOOLEAN]
CardType == [state : {"none", "pending", "failed"},
             recipe : Recipes \cup {NoContract},
             copy : BOOLEAN,            \* derived from the source card (history)
             draft : BOOLEAN]
WorkType == [key : Keys \cup {NoKey}, contract : Contracts \cup {NoContract},
             gen : Gens \cup {NoGen},
             made : BOOLEAN,            \* reservation["created"]
             seen : BOOLEAN,            \* existing_placeholder
             recipe : Recipes \cup {NoContract}]

NoRow == [status |-> "none", gen |-> NoGen, contract |-> NoContract,
          payload |-> NoContract, draft |-> FALSE]
NoCard == [state |-> "none", recipe |-> NoContract,
           copy |-> FALSE, draft |-> FALSE]
NoWork == [key |-> NoKey, contract |-> NoContract, gen |-> NoGen,
           made |-> FALSE, seen |-> FALSE, recipe |-> NoContract]

ReservationTypeOK ==
  /\ row \in [Keys -> RowType]
  /\ card \in [Gens -> CardType]
  /\ pc \in [Handlers -> {"idle", "look", "classify", "build", "adjust", "read",
                          "activate", "undo"}]
  /\ work \in [Handlers -> WorkType]
  /\ \A h \in Handlers : pc[h] # "idle" =>
       work[h].key \in Keys /\ work[h].contract \in Contracts /\ work[h].gen \in Gens
  /\ \A h \in Handlers : pc[h] = "activate" => work[h].recipe \in Recipes
  /\ \A k \in Keys : row[k].status # "none" => row[k].gen \in Gens
  /\ \A k \in Keys : row[k].status \in {"queued", "failed"} => row[k].payload \in Recipes
  /\ \A g \in Gens : card[g].state # "none" => card[g].recipe \in Recipes
  /\ offers \in Offers
  /\ activations \in [Keys -> Nat]
  /\ answered \subseteq Keys \X Contracts

Init ==
  /\ row = [k \in Keys |-> NoRow]
  /\ card = [g \in Gens |-> NoCard]
  /\ pc = [h \in Handlers |-> "idle"]
  /\ work = [h \in Handlers |-> NoWork]
  /\ offers \in Offers
  /\ activations = [k \in Keys |-> 0]
  /\ answered = {}

-----------------------------------------------------------------------------
Goto(h, where) == pc' = [pc EXCEPT ![h] = where]
Leave(h) == Goto(h, "idle") /\ work' = [work EXCEPT ![h] = NoWork]

Answer(h) ==
  /\ answered' = answered \cup {<<work[h].key, work[h].contract>>}
  /\ Leave(h)

(* A conflict answers 409.  Only the canvas takes its own reservation back.*)
Conflict(h) ==
  /\ IF work[h].key \in Canvas /\ work[h].made
       THEN Goto(h, "undo") /\ UNCHANGED work
       ELSE Leave(h)
  /\ UNCHANGED answered

(* A row without a contract was made for a card of the canvas that had     *)
(* none; it is of kind "create" and fits what is.                          *)
Fits(r, c) == r.contract = c \/ (r.contract = NoContract /\ c \notin Regenerates)

(* Card ids that a new reservation of this key may get.                    *)
MayName(k) ==
  IF k \in Canvas THEN {CanvasGen[k]}
  ELSE {g \in Gens : /\ card[g] = NoCard
                     /\ \A l \in Canvas : CanvasGen[l] # g
                     /\ \A l \in Keys : row[l].gen # g
                     /\ \A h \in Handlers : work[h].gen # g}

(* reserve_idempotent_gen_request, reserve_canvas_gen_request: insert, or  *)
(* read what is there.                                                     *)
Reserve(h, k, c) ==
  /\ pc[h] = "idle"
  /\ c \in offers[k]
  /\ \/ /\ row[k].status = "none"
        /\ \E g \in MayName(k) :
             /\ row' = [row EXCEPT ![k] = [NoRow EXCEPT !.status = "preparing",
                                             !.gen = g, !.contract = c]]
             /\ work' = [work EXCEPT ![h] = [NoWork EXCEPT !.key = k,
                                               !.contract = c, !.gen = g, !.made = TRUE]]
        /\ Goto(h, "look")
        /\ UNCHANGED answered
     \/ /\ row[k].status = "preparing" /\ Fits(row[k], c)
        /\ work' = [work EXCEPT ![h] = [NoWork EXCEPT !.key = k,
                                          !.contract = c, !.gen = row[k].gen]]
        /\ Goto(h, "look")
        /\ UNCHANGED <<row, answered>>
     \/ /\ row[k].status \in {"queued", "failed"} /\ Fits(row[k], c)
        /\ answered' = answered \cup {<<k, c>>}
        /\ UNCHANGED <<row, pc, work>>
  /\ UNCHANGED <<card, activations, offers>>

(* Is the card there already?                                              *)
Look(h) ==
  /\ pc[h] = "look"
  /\ LET seen == card[work[h].gen] # NoCard
     IN /\ work' = [work EXCEPT ![h].seen = seen]
        /\ Goto(h, IF seen THEN "classify" ELSE "build")
  /\ UNCHANGED <<row, card, activations, answered, offers>>

(* classify_placeholder_collision: the row and its card, read under one    *)
(* write lock.  It looks at the card the row names.                        *)
Resumable(k, c) ==
  /\ row[k].status = "preparing" /\ card[row[k].gen].state = "pending"
  /\ c \in Regenerates => card[row[k].gen].copy

Classify(h) ==
  LET k == work[h].key
  IN /\ pc[h] = "classify"
     /\ IF row[k].status = "none" \/ ~Fits(row[k], work[h].contract)
          THEN Conflict(h)
        ELSE IF row[k].status \in {"queued", "failed"}
          THEN Answer(h)
        ELSE IF Resumable(k, work[h].contract)
          THEN Goto(h, "adjust") /\ UNCHANGED <<work, answered>>
        ELSE Conflict(h)
     /\ UNCHANGED <<row, card, activations, offers>>

(* _reserve_draft_finish: nobody else finishes the draft.  A request that  *)
(* failed for certain does not count, nor does its card.                   *)
DraftIsFree(g) ==
  /\ \A k \in Keys : row[k].gen \notin {g, NoGen} /\ row[k].draft => row[k].status = "failed"
  /\ \A f \in Gens \ {g} : card[f].draft =>
       /\ card[f].state = "failed"
       /\ \E k \in Keys : row[k].gen = f /\ row[k].draft /\ row[k].status = "failed"

(* create_local_generation, import_generation: one transaction.  A card    *)
(* that is there by now is looked at again; a draft that somebody else     *)
(* finishes ends the submission and leaves its reservation.                *)
(* Mutant: the draft is not reserved.                                      *)
Build_UnreservedDraft(h) ==
  LET c == work[h].contract
      g == work[h].gen
  IN /\ pc[h] = "build"
     /\ IF card[g] # NoCard
          THEN Goto(h, "classify") /\ UNCHANGED <<row, card, work>>
        ELSE /\ card' = [card EXCEPT ![g] =
                  [state |-> "pending", recipe |-> IF c \in Adjusts THEN Source ELSE c,
                   copy |-> c \in Regenerates, draft |-> c \in Finishes]]
             /\ Goto(h, "adjust")
             /\ UNCHANGED <<row, work>>
     /\ UNCHANGED <<activations, answered, offers>>

Build(h) ==
  LET c == work[h].contract
      g == work[h].gen
  IN /\ pc[h] = "build"
     /\ IF c \in Finishes /\ ~DraftIsFree(g)
          THEN Leave(h) /\ UNCHANGED <<row, card>>
        ELSE IF card[g] # NoCard
          THEN Goto(h, "classify") /\ UNCHANGED <<row, card, work>>
        ELSE /\ card' = [card EXCEPT ![g] =
                  [state |-> "pending", recipe |-> IF c \in Adjusts THEN Source ELSE c,
                   copy |-> c \in Regenerates, draft |-> c \in Finishes]]
             /\ row' = [k \in Keys |->
                  IF c \in Finishes /\ row[k].gen = g /\ row[k].status = "preparing"
                    THEN [row[k] EXCEPT !.draft = TRUE] ELSE row[k]]
             /\ Goto(h, "adjust")
             /\ UNCHANGED work
     /\ UNCHANGED <<activations, answered, offers>>

(* Mutant: only the handler that made the card adjusts it.                 *)
Adjust_FreshOnly(h) ==
  LET c == work[h].contract
      g == work[h].gen
  IN /\ pc[h] = "adjust"
     /\ card' = IF c \in Adjusts /\ card[g] # NoCard /\ ~work[h].seen
                  THEN [card EXCEPT ![g].recipe = c] ELSE card
     /\ Goto(h, "read")
     /\ UNCHANGED <<row, work, activations, answered, offers>>

(* A copy gets the prompt or model that was asked for, again on each retry.*)
Adjust(h) ==
  LET c == work[h].contract
      g == work[h].gen
  IN /\ pc[h] = "adjust"
     /\ card' = IF c \in Adjusts /\ card[g] # NoCard
                  THEN [card EXCEPT ![g].recipe = c] ELSE card
     /\ Goto(h, "read")
     /\ UNCHANGED <<row, work, activations, answered, offers>>

(* gen_recipe.  No card: an error.  A card that a retry found must hold    *)
(* what the retry asks for.                                                *)
ReadRecipe(h) ==
  LET w == work[h]
      recipe == card[w.gen].recipe
  IN /\ pc[h] = "read"
     /\ IF card[w.gen] = NoCard
          THEN Leave(h) /\ UNCHANGED answered
        ELSE IF w.contract \notin Regenerates /\ w.seen /\ recipe # w.contract
          THEN Conflict(h)
        ELSE /\ work' = [work EXCEPT ![h].recipe = recipe]
             /\ Goto(h, "activate")
             /\ UNCHANGED answered
     /\ UNCHANGED <<row, card, activations, offers>>

(* Into the queue.                                                         *)
Queued(k, c, payload) ==
  /\ row' = [row EXCEPT ![k] = [status |-> "queued", gen |-> @.gen, contract |-> c,
                                payload |-> payload, draft |-> card[@.gen].draft]]
  /\ activations' = [activations EXCEPT ![k] = @ + 1]

(* Mutant: the update does not ask for status = 'preparing'.               *)
Activate_Always(h) ==
  LET w == work[h]
  IN /\ pc[h] = "activate"
     /\ row[w.key].status # "none" /\ row[w.key].gen = w.gen
     /\ Answer(h)
     /\ Queued(w.key, w.contract, w.recipe)
     /\ UNCHANGED <<card, offers>>

(* activate_idempotent_gen_request, activate_canvas_gen_request.           *)
Activate(h) ==
  LET w == work[h]
  IN /\ pc[h] = "activate"
     /\ \/ /\ row[w.key].status = "none" \/ row[w.key].gen # w.gen
           /\ Conflict(h)
           /\ UNCHANGED <<row, activations>>
        \/ /\ row[w.key].status = "preparing" /\ row[w.key].gen = w.gen
           /\ Answer(h)
           /\ Queued(w.key, w.contract, w.recipe)
        \/ /\ row[w.key].status \in {"queued", "failed"} /\ row[w.key].gen = w.gen
           /\ Answer(h)
           /\ UNCHANGED <<row, activations>>
     /\ UNCHANGED <<card, offers>>

(* delete_canvas_gen_request_reservation, by whoever made it.              *)
Undo(h) ==
  /\ pc[h] = "undo"
  /\ row' = [row EXCEPT ![work[h].key] =
               IF @.status = "preparing" /\ @.gen = work[h].gen THEN NoRow ELSE @]
  /\ Leave(h)
  /\ UNCHANGED <<card, activations, answered, offers>>

(* The handler is cancelled or fails in some other way between two steps.  *)
Abandon(h) ==
  /\ pc[h] # "idle"
  /\ Leave(h)
  /\ UNCHANGED <<row, card, activations, answered, offers>>

-----------------------------------------------------------------------------
(* resolve_canvas_generation_links: ten minutes after it was made, by a    *)
(* handler that has ended, a reservation without a card is deleted.        *)
CleanUp(k) ==
  /\ row[k].status = "preparing"
  /\ card[row[k].gen] = NoCard
  /\ \A h \in Handlers : ~(work[h].key = k /\ work[h].made /\ work[h].gen = row[k].gen)
  /\ row' = [row EXCEPT ![k] = NoRow]
  /\ UNCHANGED <<card, pc, work, activations, answered, offers>>

(* Mutant: only a card without any row is repaired.                        *)
Repair_OrphansOnly(k) ==
  LET g == CanvasGen[k]
  IN /\ card[g].state = "pending"
     /\ row[k].status = "none"
     /\ row' = [row EXCEPT ![k] = [status |-> "queued", gen |-> g, contract |-> NoContract,
                                   payload |-> card[g].recipe, draft |-> card[g].draft]]
     /\ activations' = [activations EXCEPT ![k] = @ + 1]
     /\ UNCHANGED <<card, pc, work, answered, offers>>

(* repair_orphaned_canvas_generation: a reopened canvas puts a card that   *)
(* was left behind into the queue, a reserved regeneration adjusted first, *)
(* a card without a row as it is.                                          *)
Repair(k) ==
  LET g == CanvasGen[k]
      c == row[k].contract
      recipe == IF c \in Adjusts THEN c ELSE card[g].recipe
  IN /\ card[g].state = "pending"
     /\ row[k].status \in {"none", "preparing"}
     /\ c \in Regenerates => card[g].copy
     /\ card' = [card EXCEPT ![g].recipe = recipe]
     /\ row' = [row EXCEPT ![k] = [status |-> "queued", gen |-> g, contract |-> c,
                                   payload |-> recipe, draft |-> card[g].draft]]
     /\ activations' = [activations EXCEPT ![k] = @ + 1]
     /\ UNCHANGED <<pc, work, answered, offers>>

(* The request fails for certain (apply_local_failure).                    *)
RequestFails(k) ==
  /\ row[k].status = "queued"
  /\ row' = [row EXCEPT ![k].status = "failed"]
  /\ card' = [card EXCEPT ![row[k].gen].state = "failed"]
  /\ UNCHANGED <<pc, work, activations, answered, offers>>

(* The server restarts: fail_orphaned_jobs.                                *)
Restart ==
  /\ pc' = [h \in Handlers |-> "idle"]
  /\ work' = [h \in Handlers |-> NoWork]
  /\ card' = [g \in Gens |->
       IF card[g].state = "pending"
            /\ \A k \in Keys : row[k].gen # g \/ row[k].status \notin {"preparing", "queued"}
         THEN [card[g] EXCEPT !.state = "failed"] ELSE card[g]]
  /\ UNCHANGED <<row, activations, answered, offers>>

-----------------------------------------------------------------------------
Submit(h) ==
  \/ \E k \in Keys, c \in Contracts : Reserve(h, k, c)
  \/ Look(h)
  \/ Classify(h)
  \/ Build(h)
  \/ Adjust(h)
  \/ ReadRecipe(h)
  \/ Activate(h)
  \/ Undo(h)
  \/ Abandon(h)

Next ==
  \/ \E h \in Handlers : Submit(h)
  \/ \E k \in Keys : CleanUp(k) \/ RequestFails(k)
  \/ \E k \in Canvas : Repair(k)
  \/ Restart

Spec == Init /\ [][Next]_vars

(* A canvas that is open asks for repairs again and again.                 *)
FairSpec == Spec /\ \A k \in Canvas : WF_vars(Repair(k))

-----------------------------------------------------------------------------
(* Properties.                                                             *)

(* However often it is sent, repaired, cancelled or overtaken by a clean-  *)
(* up, a submission enters the queue at most once: it is paid for as one   *)
(* (activate_*, repair_orphaned_canvas_generation, and what deletes a row).*)
QueuedOnce == \A k \in Keys : activations[k] <= 1

(* What is queued is what was asked for: a copy is never queued before it  *)
(* was adjusted, a card made for something else is never picked up, and a  *)
(* submission that was answered with a card is in the queue as the command *)
(* it asked for.  The row of a canvas card that was repaired after its     *)
(* reservation had been deleted does not say what that was.                *)
QueuedAsAsked ==
  /\ \A k \in Keys :
       row[k].status = "queued" /\ row[k].contract # NoContract =>
         row[k].payload = row[k].contract /\ card[row[k].gen].state = "pending"
  /\ \A a \in answered :
       /\ row[a[1]].status \in {"queued", "failed"}
       /\ row[a[1]].contract \in {a[2], NoContract}

(* One draft is finished once, whatever keys it is asked for under, unless *)
(* an earlier attempt failed for certain (_reserve_draft_finish).          *)
DraftFinishedOnce ==
  \A k, l \in Keys :
    row[k].status = "queued" /\ row[l].status = "queued"
      /\ card[row[k].gen].draft /\ card[row[l].gen].draft => k = l

(* A card of the canvas does not wait for ever for its request: it is      *)
(* queued, or has failed (repair_canvas_generation_links).                 *)
CardIsNotStranded ==
  \A k \in Canvas :
    card[CanvasGen[k]].state = "pending" ~>
      row[k].status = "queued" \/ card[CanvasGen[k]].state = "failed"
=============================================================================
