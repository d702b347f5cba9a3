----------------------- MODULE GenReservation_proofs -----------------------
(***************************************************************************)
(* Proofs about GenReservation for any number of keys, cards and handlers: *)
(* a row and its count of activations are only ever written together; a    *)
(* card id belongs to one key and to one contract.                         *)
(***************************************************************************)
EXTENDS GenReservation, TLAPS

Places == {"idle", "look", "classify", "build", "adjust", "read", "activate", "undo"}

(* The parts of the type invariant.                                        *)
GoodRow(r) ==
  /\ r \in RowType
  /\ r.status # "none" => r.gen \in Gens
  /\ r.status \in {"queued", "failed"} => r.payload \in Recipes

GoodCard(d) ==
  d = NoCard \/ (d \in CardType /\ d.state # "none" /\ d.recipe \in Recipes)

GoodWork(p, w) ==
  /\ p \in Places /\ w \in WorkType
  /\ p # "idle" => w.key \in Keys /\ w.contract \in Contracts /\ w.gen \in Gens
  /\ p = "activate" => w.recipe \in Recipes

RowsOK == row = [k \in Keys |-> row[k]] /\ \A k \in Keys : GoodRow(row[k])
CardsOK == card = [g \in Gens |-> card[g]] /\ \A g \in Gens : GoodCard(card[g])
WorkOK ==
  /\ pc = [h \in Handlers |-> pc[h]] /\ work = [h \in Handlers |-> work[h]]
  /\ \A h \in Handlers : GoodWork(pc[h], work[h])
AnsweredOK == answered \subseteq Keys \X Contracts

(* A row that was put into the queue stays there, and was put there once.  *)
CountsAgree ==
  /\ activations = [k \in Keys |-> activations[k]]
  /\ \A k \in Keys :
       activations[k] = IF row[k].status \in {"queued", "failed"} THEN 1 ELSE 0

(* What is queued, or about to be, has its card: no step removes one.      *)
RowsHeld ==
  \A k \in Keys : row[k].status \in {"queued", "failed"} => card[row[k].gen] # NoCard
WorkHeld == \A h \in Handlers : pc[h] = "activate" => card[work[h].gen] # NoCard
CardsGrow == \A g \in Gens : card[g] # NoCard => card'[g] # NoCard

ReservationInv ==
  /\ RowsOK /\ CardsOK /\ WorkOK /\ AnsweredOK
  /\ CountsAgree
  /\ RowsHeld /\ WorkHeld

LEMMA InvIsTyped == ReservationInv /\ offers \in Offers => ReservationTypeOK
<1> SUFFICES ASSUME ReservationInv, offers \in Offers PROVE ReservationTypeOK
  OBVIOUS
<1>1. row \in [Keys -> RowType]
  BY DEF ReservationInv, RowsOK, GoodRow
<1>2. card \in [Gens -> CardType]
  <2>1. NoCard \in CardType
    BY DEF NoCard, CardType
  <2> QED
    BY <2>1 DEF ReservationInv, CardsOK, GoodCard
<1>3. /\ pc \in [Handlers -> Places] /\ work \in [Handlers -> WorkType]
      /\ \A h \in Handlers : pc[h] # "idle" =>
           work[h].key \in Keys /\ work[h].contract \in Contracts /\ work[h].gen \in Gens
      /\ \A h \in Handlers : pc[h] = "activate" => work[h].recipe \in Recipes
  BY DEF ReservationInv, WorkOK, GoodWork
<1>4. activations \in [Keys -> Nat]
  BY DEF ReservationInv, CountsAgree
<1>5. /\ \A k \in Keys : row[k].status # "none" => row[k].gen \in Gens
      /\ \A k \in Keys : row[k].status \in {"queued", "failed"} => row[k].payload \in Recipes
  BY DEF ReservationInv, RowsOK, GoodRow
<1>6. \A g \in Gens : card[g].state # "none" => card[g].recipe \in Recipes
  BY DEF ReservationInv, CardsOK, GoodCard, NoCard
<1> QED
  BY <1>1, <1>2, <1>3, <1>4, <1>5, <1>6 DEF ReservationInv, AnsweredOK, ReservationTypeOK, Places

LEMMA InvMeansOnce == ReservationInv => QueuedOnce
  BY DEF ReservationInv, CountsAgree, QueuedOnce

-----------------------------------------------------------------------------
(* One row, card or handler is written.                                    *)
LEMMA PutRow ==
  ASSUME RowsOK, NEW k \in Keys, NEW r, GoodRow(r), row' = [row EXCEPT ![k] = r]
  PROVE  RowsOK'
  BY DEF RowsOK

LEMMA PutCard ==
  ASSUME CardsOK, NEW g \in Gens, NEW d, GoodCard(d), card' = [card EXCEPT ![g] = d]
  PROVE  CardsOK'
  BY DEF CardsOK

LEMMA PutWork ==
  ASSUME WorkOK, NEW h \in Handlers, NEW p, NEW w, GoodWork(p, w),
         pc' = [pc EXCEPT ![h] = p], work' = [work EXCEPT ![h] = w]
  PROVE  WorkOK'
  BY DEF WorkOK

LEMMA Moved ==
  ASSUME WorkOK, NEW h \in Handlers, NEW p \in Places \ {"activate"},
         pc[h] # "idle", Goto(h, p), UNCHANGED work
  PROVE  WorkOK'
<1>1. GoodWork(p, work[h])
  BY DEF WorkOK, GoodWork
<1>2. work' = [work EXCEPT ![h] = work[h]]
  BY DEF WorkOK
<1> QED
  BY <1>1, <1>2, PutWork DEF Goto

LEMMA Left ==
  ASSUME WorkOK, NEW h \in Handlers, Leave(h)
  PROVE  WorkOK'
<1>1. GoodWork("idle", NoWork)
  BY DEF GoodWork, Places, NoWork, WorkType
<1> QED
  BY <1>1, PutWork DEF Leave, Goto

LEMMA AnswerTyped ==
  ASSUME WorkOK, AnsweredOK, NEW h \in Handlers, pc[h] # "idle", Answer(h)
  PROVE  WorkOK' /\ AnsweredOK'
<1>1. work[h].key \in Keys /\ work[h].contract \in Contracts
  BY DEF WorkOK, GoodWork
<1> QED
  BY <1>1, Left DEF Answer, AnsweredOK

LEMMA ConflictTyped ==
  ASSUME WorkOK, AnsweredOK, NEW h \in Handlers, pc[h] # "idle", Conflict(h)
  PROVE  WorkOK' /\ AnsweredOK'
<1>1. CASE work[h].key \in Canvas /\ work[h].made
  BY <1>1, Moved DEF Conflict, AnsweredOK, Places
<1>2. CASE ~(work[h].key \in Canvas /\ work[h].made)
  BY <1>2, Left DEF Conflict, AnsweredOK
<1> QED
  BY <1>1, <1>2

-----------------------------------------------------------------------------
(* The counts follow the rows.                                             *)
LEMMA CountsKept ==
  ASSUME CountsAgree, UNCHANGED <<row, activations>>
  PROVE  CountsAgree'
  BY DEF CountsAgree

LEMMA RowRewritten ==
  ASSUME CountsAgree, RowsOK, NEW k \in Keys, NEW r, UNCHANGED activations,
         row' = [row EXCEPT ![k] = r],
         r.status \in {"queued", "failed"} <=> row[k].status \in {"queued", "failed"}
  PROVE  CountsAgree'
  BY DEF CountsAgree, RowsOK

-----------------------------------------------------------------------------
(* The cards stay.                                                         *)
LEMMA RowsHeldKept ==
  ASSUME RowsHeld, RowsOK, CardsGrow,
         \A k \in Keys : row'[k].status \in {"queued", "failed"} =>
           \/ row[k].status \in {"queued", "failed"} /\ row'[k].gen = row[k].gen
           \/ card'[row'[k].gen] # NoCard
  PROVE  RowsHeld'
  BY DEF RowsHeld, RowsOK, GoodRow, CardsGrow

LEMMA WorkHeldKept ==
  ASSUME WorkHeld, WorkOK, CardsGrow,
         \A h \in Handlers : pc'[h] = "activate" =>
           \/ pc[h] = "activate" /\ work'[h].gen = work[h].gen
           \/ card'[work'[h].gen] # NoCard
  PROVE  WorkHeld'
  BY DEF WorkHeld, WorkOK, GoodWork, CardsGrow

(* One handler has moved, but not to the activation.                       *)
LEMMA HandlerMoved ==
  ASSUME WorkHeld, WorkOK, CardsGrow, NEW h \in Handlers, NEW p, NEW w,
         p # "activate", pc' = [pc EXCEPT ![h] = p], work' = [work EXCEPT ![h] = w]
  PROVE  WorkHeld'
  BY WorkHeldKept DEF WorkOK

LEMMA HandlerLeft ==
  ASSUME WorkHeld, WorkOK, CardsGrow, NEW h \in Handlers,
         \/ Leave(h)
         \/ Answer(h)
         \/ Conflict(h)
         \/ \E p \in Places \ {"activate"} : Goto(h, p) /\ UNCHANGED work
  PROVE  WorkHeld'
<1>1. CASE Leave(h) \/ Answer(h)
  BY <1>1, HandlerMoved DEF Leave, Answer, Goto
<1>2. ASSUME NEW p \in Places \ {"activate"}, Goto(h, p), UNCHANGED work
      PROVE  WorkHeld'
  <2>1. work' = [work EXCEPT ![h] = work[h]]
    BY <1>2 DEF WorkOK
  <2> QED
    BY <1>2, <2>1, HandlerMoved DEF Goto
<1>3. CASE Conflict(h)
  BY <1>1, <1>2, <1>3 DEF Conflict, Places
<1> QED
  BY <1>1, <1>2, <1>3

-----------------------------------------------------------------------------
(* Every action keeps the invariant.                                       *)
LEMMA ReserveKeeps ==
  ASSUME ReservationInv, NEW h \in Handlers, NEW k \in Keys, NEW c \in Contracts,
         Reserve(h, k, c)
  PROVE  ReservationInv'
<1>1. CardsOK' /\ CardsGrow /\ (UNCHANGED row => RowsOK' /\ CountsAgree' /\ RowsHeld')
  BY CountsKept DEF Reserve, ReservationInv, CardsOK, RowsOK, CardsGrow, RowsHeld
<1>2. ASSUME row[k].status = "none", NEW g \in MayName(k),
             row' = [row EXCEPT ![k] = [NoRow EXCEPT !.status = "preparing",
                                          !.gen = g, !.contract = c]],
             work' = [work EXCEPT ![h] = [NoWork EXCEPT !.key = k,
                                            !.contract = c, !.gen = g, !.made = TRUE]],
             Goto(h, "look"), UNCHANGED answered
      PROVE  ReservationInv'
  <2> DEFINE r == [NoRow EXCEPT !.status = "preparing", !.gen = g, !.contract = c]
             w == [NoWork EXCEPT !.key = k, !.contract = c, !.gen = g, !.made = TRUE]
  <2>1. g \in Gens
    BY ReservationAssumption DEF MayName
  <2>2. GoodRow(r) /\ r.status = "preparing"
    BY <2>1 DEF GoodRow, RowType, NoRow
  <2>3. GoodWork("look", w)
    BY <2>1 DEF GoodWork, WorkType, NoWork, Places
  <2>4. row' = [row EXCEPT ![k] = r] /\ work' = [work EXCEPT ![h] = w]
    BY <1>2
  <2> HIDE DEF r, w
  <2>5. RowsOK'
    BY <2>2, <2>4, PutRow DEF ReservationInv
  <2>6. WorkOK'
    BY <1>2, <2>3, <2>4, PutWork DEF ReservationInv, Goto
  <2>7. CountsAgree'
    BY <1>2, <2>2, <2>4, RowRewritten DEF ReservationInv, Reserve
  <2>8. RowsHeld'
    BY <1>1, <2>2, <2>4, RowsHeldKept DEF ReservationInv, RowsOK
  <2>9. WorkHeld'
    BY <1>1, <1>2, <2>4, HandlerMoved DEF ReservationInv, Goto
  <2> QED
    BY <1>1, <1>2, <2>5, <2>6, <2>7, <2>8, <2>9 DEF ReservationInv, AnsweredOK
<1>3. ASSUME row[k].status = "preparing",
             work' = [work EXCEPT ![h] = [NoWork EXCEPT !.key = k,
                                            !.contract = c, !.gen = row[k].gen]],
             Goto(h, "look"), UNCHANGED <<row, answered>>
      PROVE  ReservationInv'
  <2>1. row[k].gen \in Gens
    BY <1>3 DEF ReservationInv, RowsOK, GoodRow
  <2>2. GoodWork("look", [NoWork EXCEPT !.key = k, !.contract = c, !.gen = row[k].gen])
    BY <2>1 DEF GoodWork, WorkType, NoWork, Places
  <2>3. WorkOK'
    BY <1>3, <2>2, PutWork DEF ReservationInv, Goto
  <2>4. WorkHeld'
    BY <1>1, <1>3, HandlerMoved DEF ReservationInv, Goto
  <2> QED
    BY <1>1, <1>3, <2>3, <2>4 DEF ReservationInv, AnsweredOK
<1>4. ASSUME answered' = answered \cup {<<k, c>>}, UNCHANGED <<row, pc, work>>
      PROVE  ReservationInv'
  <2>1. WorkOK' /\ AnsweredOK'
    BY <1>4 DEF ReservationInv, WorkOK, AnsweredOK
  <2>2. WorkHeld'
    BY <1>1, <1>4, WorkHeldKept DEF ReservationInv
  <2> QED
    BY <1>1, <1>4, <2>1, <2>2 DEF ReservationInv
<1> QED
  BY <1>2, <1>3, <1>4 DEF Reserve

(* A step that moves a handler and perhaps answers, and nothing else.      *)
LEMMA OnlyMoved ==
  ASSUME ReservationInv, UNCHANGED <<row, card, activations>>, WorkOK', AnsweredOK', WorkHeld'
  PROVE  ReservationInv'
  BY CountsKept DEF ReservationInv, RowsOK, CardsOK, RowsHeld

LEMMA LookKeeps ==
  ASSUME ReservationInv, NEW h \in Handlers, Look(h)
  PROVE  ReservationInv'
<1> DEFINE seen == card[work[h].gen] # NoCard
           p == IF seen THEN "classify" ELSE "build"
<1>1. GoodWork(p, [work[h] EXCEPT !.seen = seen])
  BY DEF ReservationInv, WorkOK, GoodWork, WorkType, Places, Look
<1>2. /\ pc' = [pc EXCEPT ![h] = p]
      /\ work' = [work EXCEPT ![h] = [work[h] EXCEPT !.seen = seen]]
  BY DEF Look, Goto, ReservationInv, WorkOK
<1> HIDE DEF seen, p
<1>3. WorkOK'
  BY <1>1, <1>2, PutWork DEF ReservationInv
<1>4. WorkHeld'
  BY <1>2, HandlerMoved DEF Look, ReservationInv, CardsGrow, p
<1> QED
  BY <1>3, <1>4, OnlyMoved DEF Look, ReservationInv, AnsweredOK

LEMMA ClassifyKeeps ==
  ASSUME ReservationInv, NEW h \in Handlers, Classify(h)
  PROVE  ReservationInv'
<1>1. WorkOK' /\ AnsweredOK'
  <2>1. CASE Conflict(h)
    BY <2>1, ConflictTyped DEF Classify, ReservationInv
  <2>2. CASE Answer(h)
    BY <2>2, AnswerTyped DEF Classify, ReservationInv
  <2>3. CASE Goto(h, "adjust") /\ UNCHANGED <<work, answered>>
    BY <2>3, Moved DEF Classify, ReservationInv, AnsweredOK, Places
  <2> QED
    BY <2>1, <2>2, <2>3 DEF Classify
<1>2. WorkHeld'
  BY HandlerLeft DEF Classify, ReservationInv, CardsGrow, Places
<1> QED
  BY <1>1, <1>2, OnlyMoved DEF Classify

LEMMA BuildKeeps ==
  ASSUME ReservationInv, NEW h \in Handlers, Build(h)
  PROVE  ReservationInv'
<1> DEFINE c == work[h].contract
           g == work[h].gen
           d == [state |-> "pending", recipe |-> IF c \in Adjusts THEN Source ELSE c,
                 copy |-> c \in Regenerates, draft |-> c \in Finishes]
           marked(k) == c \in Finishes /\ row[k].gen = g /\ row[k].status = "preparing"
           r(k) == IF marked(k) THEN [row[k] EXCEPT !.draft = TRUE] ELSE row[k]
<1>1. pc[h] = "build" /\ g \in Gens /\ c \in Contracts
  BY DEF Build, ReservationInv, WorkOK, GoodWork
<1>2. CASE Leave(h) /\ UNCHANGED <<row, card>>
  <2>1. WorkOK' /\ WorkHeld'
    BY <1>2, Left, HandlerLeft DEF ReservationInv, CardsGrow
  <2> QED
    BY <1>2, <2>1, OnlyMoved DEF Build, ReservationInv, AnsweredOK
<1>3. CASE Goto(h, "classify") /\ UNCHANGED <<row, card, work>>
  <2>1. WorkOK' /\ WorkHeld'
    BY <1>1, <1>3, Moved, HandlerLeft DEF ReservationInv, CardsGrow, Places
  <2> QED
    BY <1>3, <2>1, OnlyMoved DEF Build, ReservationInv, AnsweredOK
<1>4. ASSUME card' = [card EXCEPT ![g] = d], row' = [k \in Keys |-> r(k)],
             Goto(h, "adjust"), UNCHANGED <<work, activations, offers, answered>>
      PROVE  ReservationInv'
  <2>1. GoodCard(d)
    BY <1>1 DEF GoodCard, CardType, Recipes, NoCard
  <2>2. CardsOK'
    BY <1>1, <1>4, <2>1, PutCard DEF ReservationInv
  <2>3. ASSUME NEW k \in Keys PROVE /\ GoodRow(r(k)) /\ r(k).status = row[k].status
                                   /\ r(k).gen = row[k].gen
    BY DEF ReservationInv, RowsOK, GoodRow, RowType
  <2>4. RowsOK'
    BY <1>4, <2>3 DEF RowsOK
  <2>5. CountsAgree'
    BY <1>4, <2>3 DEF ReservationInv, CountsAgree
  <2>6. WorkOK'
    BY <1>1, <1>4, Moved DEF ReservationInv, Places
  <2>7. d # NoCard
    BY DEF NoCard
  <2> HIDE DEF d, r
  <2>8. CardsGrow
    BY <1>4, <2>7 DEF ReservationInv, CardsOK, CardsGrow
  <2>9. WorkHeld'
    BY <1>4, <2>8, HandlerLeft DEF ReservationInv, Places
  <2>10. RowsHeld'
    BY <1>4, <2>3, <2>8, RowsHeldKept DEF ReservationInv
  <2> QED
    BY <1>4, <2>2, <2>4, <2>5, <2>6, <2>9, <2>10 DEF ReservationInv, AnsweredOK
<1> QED
  BY <1>2, <1>3, <1>4 DEF Build

LEMMA AdjustKeeps ==
  ASSUME ReservationInv, NEW h \in Handlers, Adjust(h)
  PROVE  ReservationInv'
<1> DEFINE c == work[h].contract
           g == work[h].gen
           d == [card[g] EXCEPT !.recipe = c]
<1>1. pc[h] = "adjust" /\ g \in Gens /\ c \in Contracts
  BY DEF Adjust, ReservationInv, WorkOK, GoodWork
<1>2. WorkOK'
  BY <1>1, Moved DEF Adjust, ReservationInv, Places
<1>3. CASE UNCHANGED card
  <2>1. WorkHeld'
    BY <1>3, HandlerLeft DEF Adjust, ReservationInv, CardsGrow, Places
  <2> QED
    BY <1>2, <1>3, <2>1, OnlyMoved DEF Adjust, ReservationInv, AnsweredOK
<1>4. CASE card[g] # NoCard /\ card' = [card EXCEPT ![g] = d]
  <2>1. GoodCard(d)
    BY <1>1, <1>4 DEF ReservationInv, CardsOK, GoodCard, CardType, Recipes
  <2>2. d # NoCard
    BY <1>1, <1>4 DEF ReservationInv, CardsOK, GoodCard, CardType, NoCard
  <2> HIDE DEF d
  <2>3. CardsOK'
    BY <1>1, <1>4, <2>1, PutCard DEF ReservationInv
  <2>4. CardsGrow
    BY <1>4, <2>2 DEF ReservationInv, CardsOK, CardsGrow
  <2>5. WorkHeld'
    BY <2>4, HandlerLeft DEF Adjust, ReservationInv, Places
  <2>6. RowsHeld'
    BY <2>4, RowsHeldKept DEF Adjust, ReservationInv
  <2> QED
    BY <1>2, <2>3, <2>5, <2>6, CountsKept DEF Adjust, ReservationInv, RowsOK, AnsweredOK
<1>5. card' = card \/ (card[g] # NoCard /\ card' = [card EXCEPT ![g] = d])
  BY <1>1 DEF Adjust, ReservationInv, CardsOK
<1> QED
  BY <1>3, <1>4, <1>5

LEMMA ReadRecipeKeeps ==
  ASSUME ReservationInv, NEW h \in Handlers, ReadRecipe(h)
  PROVE  ReservationInv'
<1> DEFINE recipe == card[work[h].gen].recipe
           w == [work[h] EXCEPT !.recipe = recipe]
<1>0. CardsGrow
  BY DEF ReadRecipe, CardsGrow
<1>1. CASE Leave(h) /\ UNCHANGED answered
  BY <1>0, <1>1, Left, HandlerLeft, OnlyMoved DEF ReadRecipe, ReservationInv, AnsweredOK
<1>2. CASE Conflict(h)
  BY <1>0, <1>2, ConflictTyped, HandlerLeft, OnlyMoved DEF ReadRecipe, ReservationInv
<1>3. ASSUME card[work[h].gen] # NoCard, work' = [work EXCEPT ![h].recipe = recipe],
             Goto(h, "activate"), UNCHANGED answered
      PROVE  ReservationInv'
  <2>1. work[h].gen \in Gens /\ work[h] \in WorkType
        /\ work[h].key \in Keys /\ work[h].contract \in Contracts
    BY DEF ReadRecipe, ReservationInv, WorkOK, GoodWork
  <2>2. recipe \in Recipes
    BY <1>3, <2>1 DEF ReservationInv, CardsOK, GoodCard
  <2>3. GoodWork("activate", w) /\ w.gen = work[h].gen
    BY <2>1, <2>2 DEF GoodWork, WorkType, Places
  <2>4. work' = [work EXCEPT ![h] = w]
    BY <1>3 DEF ReservationInv, WorkOK
  <2> HIDE DEF w, recipe
  <2>5. WorkOK'
    BY <1>3, <2>3, <2>4, PutWork DEF ReservationInv, Goto
  <2>6. WorkHeld'
    BY <1>0, <1>3, <2>3, <2>4, WorkHeldKept DEF ReadRecipe, ReservationInv, Goto, WorkOK
  <2> QED
    BY <1>3, <2>5, <2>6, OnlyMoved DEF ReadRecipe, ReservationInv, AnsweredOK
<1> QED
  BY <1>1, <1>2, <1>3 DEF ReadRecipe

(* Into the queue: the row was not there before, and is counted.           *)
LEMMA QueuedKeeps ==
  ASSUME ReservationInv, NEW k \in Keys, NEW c \in Contracts \cup {NoContract},
         NEW payload \in Recipes,
         row[k].status = "preparing", card[row[k].gen] # NoCard, UNCHANGED card,
         Queued(k, c, payload)
  PROVE  RowsOK' /\ CountsAgree' /\ RowsHeld'
<1> DEFINE r == [status |-> "queued", gen |-> row[k].gen, contract |-> c,
                 payload |-> payload, draft |-> card[row[k].gen].draft]
<1>1. row[k].gen \in Gens
  BY DEF ReservationInv, RowsOK, GoodRow
<1>2. card[row[k].gen] \in CardType
  BY <1>1 DEF ReservationInv, CardsOK, GoodCard
<1>3. GoodRow(r) /\ r.status = "queued" /\ r.gen = row[k].gen
  BY <1>1, <1>2 DEF GoodRow, RowType, CardType
<1>4. row' = [row EXCEPT ![k] = r]
  BY DEF Queued, ReservationInv, RowsOK
<1> HIDE DEF r
<1>5. RowsOK'
  BY <1>3, <1>4, PutRow DEF ReservationInv
<1>6. CountsAgree'
  BY <1>3, <1>4 DEF ReservationInv, CountsAgree, RowsOK, Queued
<1>7. RowsHeld'
  BY <1>3, <1>4, RowsHeldKept DEF ReservationInv, RowsOK, CardsGrow
<1> QED
  BY <1>5, <1>6, <1>7

LEMMA ActivateKeeps ==
  ASSUME ReservationInv, NEW h \in Handlers, Activate(h)
  PROVE  ReservationInv'
<1> DEFINE w == work[h]
<1>0. pc[h] = "activate" /\ CardsGrow /\ w.key \in Keys /\ w.contract \in Contracts
      /\ w.gen \in Gens /\ w.recipe \in Recipes
  BY DEF Activate, ReservationInv, WorkOK, GoodWork, CardsGrow
<1>1. CASE Conflict(h) /\ UNCHANGED <<row, activations>>
  BY <1>0, <1>1, ConflictTyped, HandlerLeft, OnlyMoved DEF Activate, ReservationInv
<1>2. CASE Answer(h) /\ UNCHANGED <<row, activations>>
  BY <1>0, <1>2, AnswerTyped, HandlerLeft, OnlyMoved DEF Activate, ReservationInv
<1>3. CASE /\ row[w.key].status = "preparing" /\ row[w.key].gen = w.gen
           /\ Answer(h)
           /\ Queued(w.key, w.contract, w.recipe)
  <2>1. WorkOK' /\ AnsweredOK' /\ WorkHeld'
    BY <1>0, <1>3, AnswerTyped, HandlerLeft DEF ReservationInv
  <2>2. card[w.gen] # NoCard
    BY <1>0 DEF ReservationInv, WorkHeld
  <2>3. RowsOK' /\ CountsAgree' /\ RowsHeld'
    BY <1>0, <1>3, <2>2, QueuedKeeps DEF Activate
  <2> QED
    BY <2>1, <2>3 DEF Activate, ReservationInv, CardsOK
<1> QED
  BY <1>1, <1>2, <1>3 DEF Activate

(* A preparing row may be deleted; one that was queued never is.           *)
LEMMA DeletedKeeps ==
  ASSUME ReservationInv, NEW k \in Keys, row[k].status = "preparing",
         row' = [row EXCEPT ![k] = NoRow], UNCHANGED <<card, activations>>
  PROVE  RowsOK' /\ CountsAgree' /\ RowsHeld'
<1>1. GoodRow(NoRow) /\ NoRow.status = "none"
  BY DEF GoodRow, NoRow, RowType
<1> QED
  BY <1>1, PutRow, RowRewritten, RowsHeldKept DEF ReservationInv, RowsOK, CardsGrow

LEMMA UndoKeeps ==
  ASSUME ReservationInv, NEW h \in Handlers, Undo(h)
  PROVE  ReservationInv'
<1> DEFINE k == work[h].key
<1>0. k \in Keys /\ CardsGrow
  BY DEF Undo, ReservationInv, WorkOK, GoodWork, CardsGrow
<1>1. WorkOK' /\ WorkHeld' /\ CardsOK' /\ AnsweredOK'
  BY <1>0, Left, HandlerLeft DEF Undo, ReservationInv, CardsOK, AnsweredOK
<1>2. CASE row[k].status = "preparing" /\ row' = [row EXCEPT ![k] = NoRow]
  BY <1>0, <1>1, <1>2, DeletedKeeps DEF Undo, ReservationInv
<1>3. CASE UNCHANGED row
  BY <1>1, <1>3, CountsKept DEF Undo, ReservationInv, RowsOK, RowsHeld
<1>4. (row[k].status = "preparing" /\ row' = [row EXCEPT ![k] = NoRow]) \/ row' = row
  BY <1>0 DEF Undo, ReservationInv, RowsOK
<1> QED
  BY <1>2, <1>3, <1>4

LEMMA AbandonKeeps ==
  ASSUME ReservationInv, NEW h \in Handlers, Abandon(h)
  PROVE  ReservationInv'
<1>1. WorkOK' /\ WorkHeld'
  BY Left, HandlerLeft DEF Abandon, ReservationInv, CardsGrow
<1> QED
  BY <1>1, OnlyMoved DEF Abandon, ReservationInv, AnsweredOK

LEMMA CleanUpKeeps ==
  ASSUME ReservationInv, NEW k \in Keys, CleanUp(k)
  PROVE  ReservationInv'
<1>1. RowsOK' /\ CountsAgree' /\ RowsHeld'
  BY DeletedKeeps DEF CleanUp
<1> QED
  BY <1>1 DEF CleanUp, ReservationInv, CardsOK, WorkOK, AnsweredOK, WorkHeld

(* The card changes and stays.                                             *)
LEMMA CardRewritten ==
  ASSUME ReservationInv, NEW g \in Gens, NEW d, GoodCard(d), d # NoCard,
         card' = [card EXCEPT ![g] = d]
  PROVE  CardsOK' /\ CardsGrow
  BY PutCard DEF ReservationInv, CardsOK, CardsGrow

LEMMA RepairKeeps ==
  ASSUME ReservationInv, NEW k \in Canvas, Repair(k)
  PROVE  ReservationInv'
<1> DEFINE g == CanvasGen[k]
           c == row[k].contract
           recipe == IF c \in Adjusts THEN c ELSE card[g].recipe
           d == [card[g] EXCEPT !.recipe = recipe]
           r == [status |-> "queued", gen |-> g, contract |-> c, payload |-> recipe,
                 draft |-> card[g].draft]
<1>1. k \in Keys /\ g \in Gens
  BY ReservationAssumption
<1>2. c \in Contracts \cup {NoContract} /\ row[k].status \in {"none", "preparing"}
  BY <1>1 DEF ReservationInv, RowsOK, GoodRow, RowType, Repair
<1>3. card[g] # NoCard
  BY DEF Repair, NoCard
<1>4. card[g] \in CardType /\ card[g].state # "none" /\ card[g].recipe \in Recipes
  BY <1>1, <1>3 DEF ReservationInv, CardsOK, GoodCard
<1>5. recipe \in Recipes
  BY <1>4, ReservationAssumption DEF Recipes
<1>6. GoodCard(d) /\ d # NoCard
  BY <1>4, <1>5 DEF GoodCard, CardType, NoCard
<1>7. GoodRow(r) /\ r.status = "queued" /\ r.gen = g
  BY <1>1, <1>2, <1>4, <1>5 DEF GoodRow, RowType, CardType
<1>8. /\ row' = [row EXCEPT ![k] = r]
      /\ card' = [card EXCEPT ![g] = d]
      /\ activations' = [activations EXCEPT ![k] = @ + 1]
      /\ UNCHANGED <<pc, work, offers, answered>>
  BY <1>1 DEF Repair, ReservationInv, CardsOK
<1> HIDE DEF g, c, recipe, d, r
<1>9. CardsOK' /\ CardsGrow
  BY <1>1, <1>6, <1>8, CardRewritten
<1>10. RowsOK'
  BY <1>1, <1>7, <1>8, PutRow DEF ReservationInv
<1>11. CountsAgree'
  BY <1>1, <1>2, <1>7, <1>8 DEF ReservationInv, CountsAgree, RowsOK
<1>12. RowsHeld'
  BY <1>1, <1>3, <1>7, <1>8, <1>9, RowsHeldKept DEF ReservationInv, RowsOK, CardsGrow, g
<1>13. WorkOK' /\ AnsweredOK'
  BY <1>8 DEF ReservationInv, WorkOK, AnsweredOK
<1>14. WorkHeld'
  BY <1>8, <1>9, WorkHeldKept DEF ReservationInv
<1> QED
  BY <1>9, <1>10, <1>11, <1>12, <1>13, <1>14 DEF ReservationInv

LEMMA RequestFailsKeeps ==
  ASSUME ReservationInv, NEW k \in Keys, RequestFails(k)
  PROVE  ReservationInv'
<1> DEFINE g == row[k].gen
           d == [card[g] EXCEPT !.state = "failed"]
           r == [row[k] EXCEPT !.status = "failed"]
<1>1. row[k].status = "queued"
  BY DEF RequestFails
<1>2. row[k] \in RowType /\ g \in Gens /\ row[k].payload \in Recipes
  BY <1>1 DEF ReservationInv, RowsOK, GoodRow
<1>3. card[g] # NoCard
  BY <1>1 DEF ReservationInv, RowsHeld
<1>4. card[g] \in CardType /\ card[g].recipe \in Recipes
  BY <1>2, <1>3 DEF ReservationInv, CardsOK, GoodCard
<1>5. GoodCard(d) /\ d # NoCard
  BY <1>4 DEF GoodCard, CardType, NoCard
<1>6. GoodRow(r) /\ r.status = "failed" /\ r.gen = g
  BY <1>2 DEF GoodRow, RowType
<1>7. /\ row' = [row EXCEPT ![k] = r]
      /\ card' = [card EXCEPT ![g] = d]
      /\ UNCHANGED <<pc, work, activations, offers, answered>>
  BY DEF RequestFails, ReservationInv, RowsOK, CardsOK
<1> HIDE DEF d, r
<1>8. CardsOK' /\ CardsGrow
  BY <1>2, <1>5, <1>7, CardRewritten
<1>9. RowsOK'
  BY <1>6, <1>7, PutRow DEF ReservationInv
<1>10. CountsAgree'
  BY <1>1, <1>6, <1>7, RowRewritten DEF ReservationInv
<1>11. RowsHeld'
  BY <1>1, <1>6, <1>7, <1>8, RowsHeldKept DEF ReservationInv, RowsOK
<1>12. WorkOK' /\ AnsweredOK'
  BY <1>7 DEF ReservationInv, WorkOK, AnsweredOK
<1>13. WorkHeld'
  BY <1>7, <1>8, WorkHeldKept DEF ReservationInv
<1> QED
  BY <1>8, <1>9, <1>10, <1>11, <1>12, <1>13 DEF ReservationInv

LEMMA RestartKeeps ==
  ASSUME ReservationInv, Restart
  PROVE  ReservationInv'
<1> DEFINE lost(g) == /\ card[g].state = "pending"
                      /\ \A k \in Keys : row[k].gen # g
                                      \/ row[k].status \notin {"preparing", "queued"}
           d(g) == IF lost(g) THEN [card[g] EXCEPT !.state = "failed"] ELSE card[g]
<1>1. card' = [g \in Gens |-> d(g)]
  BY DEF Restart
<1>2. ASSUME NEW g \in Gens PROVE GoodCard(d(g)) /\ (card[g] # NoCard => d(g) # NoCard)
  <2>1. CASE lost(g)
    <3>1. card[g] # NoCard
      BY <2>1 DEF NoCard
    <3>2. card[g] \in CardType /\ card[g].recipe \in Recipes
      BY <3>1 DEF ReservationInv, CardsOK, GoodCard
    <3>3. d(g) = [card[g] EXCEPT !.state = "failed"]
      BY <2>1
    <3> QED
      BY <3>2, <3>3 DEF GoodCard, CardType, NoCard
  <2>2. CASE ~lost(g)
    BY <2>2 DEF ReservationInv, CardsOK
  <2> QED
    BY <2>1, <2>2
<1> HIDE DEF d
<1>3. CardsOK' /\ CardsGrow
  BY <1>1, <1>2 DEF CardsOK, CardsGrow
<1>4. WorkOK' /\ WorkHeld'
  BY DEF Restart, WorkOK, WorkHeld, GoodWork, Places, NoWork, WorkType
<1>5. RowsHeld'
  BY <1>3, RowsHeldKept DEF Restart, ReservationInv
<1> QED
  BY <1>3, <1>4, <1>5, CountsKept DEF Restart, ReservationInv, RowsOK, AnsweredOK

-----------------------------------------------------------------------------
(* The invariant holds at first, and every step keeps it.                  *)
LEMMA InvHoldsAtFirst == Init => ReservationInv
  BY DEF Init, ReservationInv, RowsOK, GoodRow, RowType, NoRow, CardsOK, GoodCard,
         WorkOK, GoodWork, Places, NoWork, WorkType, AnsweredOK, CountsAgree,
         RowsHeld, WorkHeld

LEMMA StepKeepsInv == ReservationInv /\ [Next]_vars => ReservationInv'
<1> SUFFICES ASSUME ReservationInv, [Next]_vars PROVE ReservationInv'
  OBVIOUS
<1>1. CASE UNCHANGED vars
  BY <1>1 DEF vars, ReservationInv, RowsOK, CardsOK, WorkOK, AnsweredOK, CountsAgree,
              RowsHeld, WorkHeld
<1>2. ASSUME NEW h \in Handlers, Submit(h) PROVE ReservationInv'
  BY <1>2, ReserveKeeps, LookKeeps, ClassifyKeeps, BuildKeeps, AdjustKeeps,
     ReadRecipeKeeps, ActivateKeeps, UndoKeeps, AbandonKeeps DEF Submit
<1>3. ASSUME NEW k \in Keys, CleanUp(k) \/ RequestFails(k) PROVE ReservationInv'
  BY <1>3, CleanUpKeeps, RequestFailsKeeps
<1>4. ASSUME NEW k \in Canvas, Repair(k) PROVE ReservationInv'
  BY <1>4, RepairKeeps
<1> QED
  BY <1>1, <1>2, <1>3, <1>4, RestartKeeps DEF Next

LEMMA InvAlways == Spec => []ReservationInv
  BY InvHoldsAtFirst, StepKeepsInv, PTL DEF Spec

LEMMA OffersStay == Spec => [](offers \in Offers)
<1>1. Init => offers \in Offers
  BY DEF Init
<1>2. offers \in Offers /\ [Next]_vars => (offers \in Offers)'
  BY DEF Next, vars, Submit, Reserve, Look, Classify, Build, Adjust, ReadRecipe, Activate,
         Undo, Abandon, CleanUp, Repair, RequestFails, Restart
<1> QED
  BY <1>1, <1>2, PTL DEF Spec

(* Every reachable state is well typed; a row past its activation carries  *)
(* a recipe, and a row that is there names its card.                       *)
THEOREM TypeCorrect == Spec => []ReservationTypeOK
  BY InvAlways, OffersStay, InvIsTyped, PTL

(* However many handlers work on the same key at once, and whatever is     *)
(* cancelled, cleaned up, repaired or restarted in between, the key's row  *)
(* is put into the queue at most once (the two activate_ functions and     *)
(* repair_orphaned_canvas_generation).                                     *)
THEOREM QueuedOnceTheorem == Spec => []QueuedOnce
  BY InvAlways, InvMeansOnce, PTL

-----------------------------------------------------------------------------
(* What is queued is what was asked for.  A card id belongs to one key and *)
(* to one contract for as long as anything names it, so what the steps of  *)
(* different handlers do to a card agrees.                                 *)
Active(h) == pc[h] # "idle"

(* Whose card id this is, and what is wanted of it.                        *)
Holds(g, k) ==
  \/ row[k].gen = g
  \/ \E h \in Handlers : Active(h) /\ work[h].gen = g /\ work[h].key = k
  \/ k \in Canvas /\ CanvasGen[k] = g
Wants(g, c) ==
  \/ \E k \in Keys : row[k].gen = g /\ row[k].contract = c
  \/ \E h \in Handlers : Active(h) /\ work[h].gen = g /\ work[h].contract = c
  \/ \E k \in Canvas : CanvasGen[k] = g /\ c \in offers[k]

OneKey == \A g \in Gens, k, l \in Keys : Holds(g, k) /\ Holds(g, l) => k = l
CanvasIds == \A g \in Gens, k \in Canvas : Holds(g, k) => g = CanvasGen[k]
OneContract ==
  \A g \in Gens, c, d \in Contracts : Wants(g, c) /\ Wants(g, d) => c = d

(* A card is what was wanted of it; a copy is perhaps not adjusted yet.    *)
Fitting(d, c) ==
  d # NoCard => /\ d.recipe = c \/ (c \in Adjusts /\ d.recipe = Source)
                /\ d.draft <=> c \in Finishes
CardsFit == \A g \in Gens, c \in Contracts : Wants(g, c) => Fitting(card[g], c)

RowAsAsked(k) ==
  /\ row[k].contract \in offers[k] \cup {NoContract}
  /\ row[k].status = "none" => row[k] = NoRow
  /\ row[k].status # "none" /\ row[k].contract = NoContract =>
       k \in Canvas /\ row[k].status # "preparing"
  /\ row[k].status = "queued" => row[k].payload = row[k].contract \/ row[k].contract = NoContract
RowsAsAsked == \A k \in Keys : RowAsAsked(k)

HandlerAsAsked(h) ==
  /\ work[h].contract \in offers[work[h].key]
  /\ pc[h] \in {"classify", "adjust", "read", "activate"} => card[work[h].gen] # NoCard
  /\ pc[h] \in {"read", "activate"} => card[work[h].gen].recipe = work[h].contract
  /\ pc[h] = "activate" => work[h].recipe = work[h].contract
WorkAsAsked == \A h \in Handlers : Active(h) => HandlerAsAsked(h)

(* No card fails before its request does, except what a restart finds to   *)
(* be nobody's.                                                            *)
Waiting(g) == card[g].state \in {"none", "pending"}
RowsWait ==
  \A k \in Keys :
    row[k].status = "queued" \/ (row[k].status = "preparing" /\ k \notin Canvas) =>
      Waiting(row[k].gen)
Proceeds(h) == Active(h) /\ (work[h].key \notin Canvas \/ pc[h] \in {"adjust", "read", "activate"})
WorkWaits ==
  \A h \in Handlers : Proceeds(h) =>
    Waiting(work[h].gen) \/ row[work[h].key].status = "failed"

AnsweredStand ==
  \A x \in answered : /\ row[x[1]].status \in {"queued", "failed"}
                      /\ row[x[1]].contract \in {x[2], NoContract}

(* Two cards that finish the draft: the request of one has failed.         *)
Spent(g) ==
  card[g].state = "failed" /\ \E k \in Keys : row[k].gen = g /\ row[k].status = "failed"
OneDraft ==
  \A g, i \in Gens : card[g].draft /\ card[i].draft => g = i \/ Spent(g) \/ Spent(i)

AskedInv ==
  /\ offers \in Offers
  /\ OneKey /\ CanvasIds /\ OneContract /\ CardsFit
  /\ RowsAsAsked /\ WorkAsAsked
  /\ RowsWait /\ WorkWaits
  /\ AnsweredStand /\ OneDraft

LEMMA AskedMeans == ReservationInv /\ AskedInv => QueuedAsAsked /\ DraftFinishedOnce
<1> SUFFICES ASSUME ReservationInv, AskedInv PROVE QueuedAsAsked /\ DraftFinishedOnce
  OBVIOUS
<1>1. ASSUME NEW k \in Keys, row[k].status = "queued"
      PROVE  /\ row[k].gen \in Gens /\ Holds(row[k].gen, k) /\ ~Spent(row[k].gen)
             /\ card[row[k].gen].state = "pending"
  <2>1. row[k].gen \in Gens /\ card[row[k].gen] # NoCard
    BY <1>1 DEF ReservationInv, RowsOK, GoodRow, RowsHeld
  <2>2. card[row[k].gen].state # "none"
    BY <2>1 DEF ReservationInv, CardsOK, GoodCard
  <2>3. card[row[k].gen].state = "pending"
    BY <1>1, <2>2 DEF AskedInv, RowsWait, Waiting
  <2> QED
    BY <2>1, <2>3 DEF Holds, Spent
<1>2. QueuedAsAsked
  BY <1>1 DEF QueuedAsAsked, AskedInv, RowsAsAsked, RowAsAsked, AnsweredStand
<1>3. DraftFinishedOnce
  BY <1>1 DEF DraftFinishedOnce, AskedInv, OneDraft, OneKey
<1> QED
  BY <1>2, <1>3

-----------------------------------------------------------------------------
(* Steps that give nobody a new card id.                                   *)
Stays(h) ==
  Active(h)' => /\ Active(h)
                /\ work'[h].key = work[h].key /\ work'[h].gen = work[h].gen
                /\ work'[h].contract = work[h].contract
RowStays(k) ==
  \/ row'[k] = NoRow
  \/ /\ row'[k].contract = row[k].contract
     /\ \/ row'[k].gen = row[k].gen
        \/ k \in Canvas /\ row'[k].gen = CanvasGen[k] /\ row[k].contract = NoContract
NamesStay ==
  (\A h \in Handlers : Stays(h)) /\ (\A k \in Keys : RowStays(k)) /\ UNCHANGED offers

LEMMA NamesKept ==
  ASSUME OneKey, CanvasIds, OneContract, NamesStay
  PROVE  /\ OneKey' /\ CanvasIds' /\ OneContract'
         /\ \A g \in Gens, c \in Contracts : Wants(g, c)' => Wants(g, c)
<1>1. NoGen \notin Gens /\ NoContract \notin Contracts /\ Canvas \subseteq Keys
  BY ReservationAssumption
<1>2. ASSUME NEW g \in Gens, NEW k \in Keys, Holds(g, k)' PROVE Holds(g, k)
  BY <1>1, <1>2 DEF Holds, NamesStay, Stays, RowStays, NoRow
<1>3. ASSUME NEW g \in Gens, NEW c \in Contracts, Wants(g, c)' PROVE Wants(g, c)
  <2>1. CASE \E k \in Keys : row'[k].gen = g /\ row'[k].contract = c
    BY <1>1, <2>1 DEF Wants, NamesStay, RowStays, NoRow
  <2>2. CASE \E h \in Handlers : Active(h)' /\ work'[h].gen = g /\ work'[h].contract = c
    BY <2>2 DEF Wants, NamesStay, Stays
  <2>3. CASE \E k \in Canvas : CanvasGen[k] = g /\ c \in offers'[k]
    BY <2>3 DEF Wants, NamesStay
  <2> QED
    BY <1>3, <2>1, <2>2, <2>3 DEF Wants
<1>4. OneKey'
  BY <1>2 DEF OneKey
<1>5. CanvasIds'
  BY <1>1, <1>2 DEF CanvasIds
<1>6. OneContract'
  BY <1>3 DEF OneContract
<1> QED
  BY <1>3, <1>4, <1>5, <1>6

(* The cards keep what they were made as; one may be failed.               *)
CardStays(g) == /\ card'[g].recipe = card[g].recipe /\ card'[g].draft = card[g].draft
                /\ card'[g] = NoCard <=> card[g] = NoCard
Fails(g) == card[g].state # "failed" /\ card'[g].state = "failed"

LEMMA FitKept ==
  ASSUME CardsFit, \A g \in Gens : CardStays(g),
         \A g \in Gens, c \in Contracts : Wants(g, c)' => Wants(g, c)
  PROVE  CardsFit'
  BY DEF CardsFit, CardStays, Fitting

(* A request that has failed stays so, and its card with it.               *)
FailedStay ==
  /\ \A k \in Keys : row[k].status = "failed" => row'[k].status = "failed" /\ row'[k].gen = row[k].gen
  /\ \A g \in Gens : card[g].state = "failed" => card'[g].state = "failed"

LEMMA OneDraftKept ==
  ASSUME OneDraft, FailedStay, \A g \in Gens : card'[g].draft = card[g].draft
  PROVE  OneDraft'
<1>1. ASSUME NEW g \in Gens, Spent(g) PROVE Spent(g)'
  BY <1>1 DEF Spent, FailedStay
<1> QED
  BY <1>1 DEF OneDraft

(* Only a handler moves; perhaps it answers.                               *)
Others(h) == \A i \in Handlers \ {h} : pc'[i] = pc[i] /\ work'[i] = work[i]

LEMMA OnlyHandlerAsks ==
  ASSUME ReservationInv, AskedInv, NEW h \in Handlers, Others(h), Stays(h),
         UNCHANGED <<row, card, offers>>,
         pc'[h] \in {"classify", "adjust", "read", "activate"} => card[work[h].gen] # NoCard,
         pc'[h] \in {"read", "activate"} => card[work[h].gen].recipe = work[h].contract,
         pc'[h] = "activate" => work'[h].recipe = work[h].contract,
         Proceeds(h)' => Waiting(work[h].gen) \/ row[work[h].key].status = "failed",
         \A x \in answered' : x \in answered \/
           (row[x[1]].status \in {"queued", "failed"} /\ row[x[1]].contract \in {x[2], NoContract})
  PROVE  AskedInv'
<1>1. NamesStay
  <2>1. ASSUME NEW i \in Handlers \ {h} PROVE Stays(i)
    BY DEF Stays, Others, Active
  <2> QED
    BY <2>1 DEF NamesStay, RowStays
<1>2. OneKey' /\ CanvasIds' /\ OneContract' /\ CardsFit'
  BY <1>1, NamesKept, FitKept DEF AskedInv, CardStays
<1>3. RowsAsAsked'
  BY DEF AskedInv, RowsAsAsked, RowAsAsked
<1>4. WorkAsAsked'
  <2> SUFFICES ASSUME NEW i \in Handlers, Active(i)'
               PROVE  HandlerAsAsked(i)'
    BY DEF WorkAsAsked
  <2>1. CASE i = h
    BY <2>1 DEF AskedInv, WorkAsAsked, HandlerAsAsked, Stays
  <2>2. CASE i # h
    BY <2>2 DEF AskedInv, WorkAsAsked, HandlerAsAsked, Others, Active
  <2> QED
    BY <2>1, <2>2
<1>5. RowsWait'
  BY DEF AskedInv, RowsWait, Waiting
<1>6. WorkWaits'
  <2> SUFFICES ASSUME NEW i \in Handlers, Proceeds(i)'
               PROVE  (Waiting(work[i].gen) \/ row[work[i].key].status = "failed")'
    BY DEF WorkWaits
  <2>1. CASE i = h
    BY <2>1 DEF Stays, Proceeds, Waiting
  <2>2. CASE i # h
    BY <2>2 DEF AskedInv, WorkWaits, Others, Active, Proceeds, Waiting
  <2> QED
    BY <2>1, <2>2
<1>7. AnsweredStand'
  BY DEF AskedInv, AnsweredStand
<1>8. OneDraft'
  BY OneDraftKept DEF AskedInv, FailedStay
<1> QED
  BY <1>2, <1>3, <1>4, <1>5, <1>6, <1>7, <1>8 DEF AskedInv

LEMMA LeaveAsks ==
  ASSUME ReservationInv, AskedInv, NEW h \in Handlers, Leave(h),
         UNCHANGED <<row, card, offers, answered>>
  PROVE  AskedInv'
<1>1. Others(h) /\ pc'[h] = "idle"
  BY DEF Leave, Goto, Others, ReservationInv, WorkOK
<1>2. Stays(h) /\ ~Proceeds(h)'
  BY <1>1 DEF Stays, Active, Proceeds
<1> QED
  BY <1>1, <1>2, OnlyHandlerAsks

LEMMA ConflictAsks ==
  ASSUME ReservationInv, AskedInv, NEW h \in Handlers, Active(h), Conflict(h),
         UNCHANGED <<row, card, offers>>
  PROVE  AskedInv'
<1>1. CASE work[h].key \in Canvas /\ work[h].made
  <2>1. Others(h) /\ pc'[h] = "undo" /\ UNCHANGED <<work, answered>>
    BY <1>1 DEF Conflict, Goto, Others, ReservationInv, WorkOK
  <2>2. Stays(h) /\ ~Proceeds(h)'
    BY <1>1, <2>1 DEF Stays, Active, Proceeds
  <2> QED
    BY <2>1, <2>2, OnlyHandlerAsks
<1>2. CASE ~(work[h].key \in Canvas /\ work[h].made)
  BY <1>2, LeaveAsks DEF Conflict
<1> QED
  BY <1>1, <1>2

LEMMA AnswerAsks ==
  ASSUME ReservationInv, AskedInv, NEW h \in Handlers, Answer(h),
         UNCHANGED <<row, card, offers>>,
         row[work[h].key].status \in {"queued", "failed"},
         row[work[h].key].contract \in {work[h].contract, NoContract}
  PROVE  AskedInv'
<1>1. Others(h) /\ pc'[h] = "idle"
  BY DEF Answer, Leave, Goto, Others, ReservationInv, WorkOK
<1>2. Stays(h) /\ ~Proceeds(h)'
  BY <1>1 DEF Stays, Active, Proceeds
<1>3. \A x \in answered' : x \in answered \/
        (row[x[1]].status \in {"queued", "failed"} /\ row[x[1]].contract \in {x[2], NoContract})
  BY DEF Answer
<1> QED
  BY <1>1, <1>2, <1>3, OnlyHandlerAsks

LEMMA LookAsks ==
  ASSUME ReservationInv, AskedInv, NEW h \in Handlers, Look(h)
  PROVE  AskedInv'
<1>1. /\ Others(h) /\ Active(h)
      /\ pc'[h] = IF card[work[h].gen] # NoCard THEN "classify" ELSE "build"
      /\ work'[h] = [work[h] EXCEPT !.seen = (card[work[h].gen] # NoCard)]
  BY DEF Look, Goto, Others, ReservationInv, WorkOK, Active
<1>2. Stays(h)
  <2>1. work[h] \in WorkType
    BY DEF ReservationInv, WorkOK, GoodWork
  <2> QED
    BY <1>1, <2>1 DEF Stays, WorkType
<1>3. Proceeds(h)' => Waiting(work[h].gen) \/ row[work[h].key].status = "failed"
  BY <1>1, <1>2 DEF Stays, Proceeds, AskedInv, WorkWaits
<1> QED
  BY <1>1, <1>2, <1>3, OnlyHandlerAsks DEF Look

(* Whoever reads a row that its card id belongs to wants the same.         *)
LEMMA RowAgrees ==
  ASSUME ReservationInv, AskedInv, NEW h \in Handlers, Active(h),
         row[work[h].key].gen = work[h].gen, row[work[h].key].status # "none"
  PROVE  /\ row[work[h].key].contract \in {work[h].contract, NoContract}
         /\ row[work[h].key].status = "preparing" => row[work[h].key].contract = work[h].contract
<1> DEFINE k == work[h].key
<1>1. k \in Keys /\ work[h].gen \in Gens /\ work[h].contract \in Contracts
  BY DEF ReservationInv, WorkOK, GoodWork, Active
<1>2. row[k].contract \in Contracts \cup {NoContract}
  BY <1>1 DEF ReservationInv, RowsOK, GoodRow, RowType
<1>3. Wants(work[h].gen, work[h].contract)
  BY DEF Wants
<1>4. row[k].contract \in Contracts => Wants(work[h].gen, row[k].contract)
  BY <1>1 DEF Wants
<1>5. row[k].contract \in {work[h].contract, NoContract}
  BY <1>1, <1>2, <1>3, <1>4 DEF AskedInv, OneContract
<1> QED
  BY <1>1, <1>5 DEF AskedInv, RowsAsAsked, RowAsAsked

LEMMA ClassifyAsks ==
  ASSUME ReservationInv, AskedInv, NEW h \in Handlers, Classify(h)
  PROVE  AskedInv'
<1> DEFINE k == work[h].key
<1>1. Active(h) /\ k \in Keys /\ work[h].gen \in Gens
  BY DEF Classify, Active, ReservationInv, WorkOK, GoodWork
<1>2. CASE Conflict(h)
  BY <1>1, <1>2, ConflictAsks DEF Classify
<1>3. CASE Answer(h) /\ row[k].status \in {"queued", "failed"} /\ Fits(row[k], work[h].contract)
  BY <1>3, AnswerAsks DEF Classify, Fits
<1>4. CASE Goto(h, "adjust") /\ UNCHANGED <<work, answered>> /\ Resumable(k, work[h].contract)
  <2>1. Others(h) /\ pc'[h] = "adjust" /\ Stays(h)
    BY <1>1, <1>4 DEF Goto, Others, ReservationInv, WorkOK, Stays
  <2>2. card[work[h].gen] # NoCard
    BY DEF Classify, AskedInv, WorkAsAsked, HandlerAsAsked, Active
  <2>3. Waiting(work[h].gen) \/ row[k].status = "failed"
    <3>1. CASE k \notin Canvas
      BY <1>1, <3>1 DEF AskedInv, WorkWaits, Proceeds
    <3>2. CASE k \in Canvas
      <4>1. row[k].gen \in Gens /\ Holds(row[k].gen, k) /\ Holds(work[h].gen, k)
        BY <1>1, <1>4 DEF Resumable, ReservationInv, RowsOK, GoodRow, Holds
      <4>2. row[k].gen = work[h].gen
        BY <1>1, <3>2, <4>1 DEF AskedInv, CanvasIds
      <4> QED
        BY <1>4, <4>2 DEF Resumable, Waiting
    <3> QED
      BY <3>1, <3>2
  <2> QED
    BY <1>4, <2>1, <2>2, <2>3, OnlyHandlerAsks DEF Classify
<1> QED
  BY <1>2, <1>3, <1>4 DEF Classify

LEMMA ReadRecipeAsks ==
  ASSUME ReservationInv, AskedInv, NEW h \in Handlers, ReadRecipe(h)
  PROVE  AskedInv'
<1> DEFINE w == work[h]
<1>1. Active(h) /\ card[w.gen] # NoCard /\ card[w.gen].recipe = w.contract
  BY DEF ReadRecipe, Active, AskedInv, WorkAsAsked, HandlerAsAsked
<1>2. CASE Conflict(h)
  BY <1>1, <1>2, ConflictAsks DEF ReadRecipe
<1>3. CASE work' = [work EXCEPT ![h].recipe = card[w.gen].recipe] /\ Goto(h, "activate")
           /\ UNCHANGED answered
  <2>1. work[h] \in WorkType
    BY DEF ReservationInv, WorkOK, GoodWork
  <2>2. /\ Others(h) /\ pc'[h] = "activate"
        /\ work'[h] = [w EXCEPT !.recipe = card[w.gen].recipe]
    BY <1>3 DEF Goto, Others, ReservationInv, WorkOK
  <2>3. Stays(h) /\ work'[h].recipe = w.contract
    BY <1>1, <2>1, <2>2 DEF Stays, WorkType
  <2>4. Waiting(w.gen) \/ row[w.key].status = "failed"
    BY <1>1 DEF ReadRecipe, AskedInv, WorkWaits, Proceeds
  <2> QED
    BY <1>1, <1>3, <2>2, <2>3, <2>4, OnlyHandlerAsks DEF ReadRecipe
<1> QED
  BY <1>1, <1>2, <1>3 DEF ReadRecipe

LEMMA AbandonAsks ==
  ASSUME ReservationInv, AskedInv, NEW h \in Handlers, Abandon(h)
  PROVE  AskedInv'
  BY LeaveAsks DEF Abandon

(* Handlers leave or stay where they are.                                  *)
Quiet == \A i \in Handlers : pc'[i] = "idle" \/ (pc'[i] = pc[i] /\ work'[i] = work[i])

LEMMA QuietWork ==
  ASSUME WorkAsAsked, Quiet, UNCHANGED offers,
         \A g \in Gens : card[g] # NoCard => card'[g] # NoCard /\ card'[g].recipe = card[g].recipe,
         ReservationInv
  PROVE  WorkAsAsked'
<1> SUFFICES ASSUME NEW i \in Handlers, Active(i)'
             PROVE  HandlerAsAsked(i)'
  BY DEF WorkAsAsked
<1>1. pc'[i] = pc[i] /\ work'[i] = work[i] /\ Active(i)
  BY DEF Quiet, Active
<1>2. work[i].gen \in Gens
  BY <1>1 DEF ReservationInv, WorkOK, GoodWork, Active
<1> QED
  BY <1>1, <1>2 DEF WorkAsAsked, HandlerAsAsked

LEMMA RowRewrittenAsks ==
  ASSUME ReservationInv, AskedInv, NEW k \in Keys, NEW r,
         row[k].status = "preparing", row' = [row EXCEPT ![k] = r],
         UNCHANGED <<card, offers>>, Quiet,
         \/ r = NoRow
         \/ /\ r.status = "queued" /\ r.gen = row[k].gen /\ r.contract = row[k].contract
            /\ r.payload = r.contract /\ Waiting(r.gen),
         \A x \in answered' : x \in answered \/ (x[1] = k /\ r.status = "queued" /\ r.contract = x[2])
  PROVE  AskedInv'
<1>0. row'[k] = r /\ \A l \in Keys \ {k} : row'[l] = row[l]
  BY DEF ReservationInv, RowsOK
<1>1. NamesStay
  <2>1. ASSUME NEW i \in Handlers PROVE Stays(i)
    BY DEF Quiet, Stays, Active
  <2>2. ASSUME NEW l \in Keys PROVE RowStays(l)
    BY <1>0 DEF RowStays
  <2> QED
    BY <2>1, <2>2 DEF NamesStay
<1>2. OneKey' /\ CanvasIds' /\ OneContract' /\ CardsFit'
  BY <1>1, NamesKept, FitKept DEF AskedInv, CardStays
<1>3. RowsAsAsked'
  <2> SUFFICES ASSUME NEW l \in Keys
               PROVE  RowAsAsked(l)'
    BY DEF RowsAsAsked
  <2>1. CASE l = k /\ r = NoRow
    BY <1>0, <2>1 DEF NoRow, RowAsAsked
  <2>2. CASE l = k /\ r # NoRow
    <3>1. row[k].contract \in offers[k] /\ row[k].contract # NoContract
      BY DEF AskedInv, RowsAsAsked, RowAsAsked
    <3> QED
      BY <1>0, <2>2, <3>1 DEF RowAsAsked
  <2>3. CASE l # k
    BY <1>0, <2>3 DEF AskedInv, RowsAsAsked, RowAsAsked
  <2> QED
    BY <2>1, <2>2, <2>3
<1>4. WorkAsAsked'
  BY QuietWork DEF AskedInv
<1>5. RowsWait'
  BY <1>0 DEF AskedInv, RowsWait, Waiting, NoRow
<1>6. WorkWaits'
  <2> SUFFICES ASSUME NEW i \in Handlers, Proceeds(i)'
               PROVE  (Waiting(work[i].gen) \/ row[work[i].key].status = "failed")'
    BY DEF WorkWaits
  <2>1. pc'[i] = pc[i] /\ work'[i] = work[i] /\ Proceeds(i)
    BY DEF Quiet, Proceeds, Active
  <2>2. work[i].key \in Keys
    BY <2>1 DEF ReservationInv, WorkOK, GoodWork, Active, Proceeds
  <2>3. row[work[i].key].status = "failed" => row'[work[i].key] = row[work[i].key]
    BY <1>0, <2>2
  <2> QED
    BY <2>1, <2>3 DEF AskedInv, WorkWaits, Waiting
<1>7. AnsweredStand'
  <2> SUFFICES ASSUME NEW x \in answered'
               PROVE  /\ row'[x[1]].status \in {"queued", "failed"}
                      /\ row'[x[1]].contract \in {x[2], NoContract}
    BY DEF AnsweredStand
  <2>1. CASE x \in answered
    <3>1. x[1] \in Keys /\ x[1] # k
      BY <2>1 DEF AskedInv, AnsweredStand, ReservationInv, AnsweredOK
    <3> QED
      BY <1>0, <2>1, <3>1 DEF AskedInv, AnsweredStand
  <2>2. CASE x \notin answered
    BY <1>0, <2>2
  <2> QED
    BY <2>1, <2>2
<1>8. OneDraft'
  <2>1. FailedStay
    BY <1>0 DEF FailedStay
  <2> QED
    BY <2>1, OneDraftKept DEF AskedInv
<1> QED
  BY <1>2, <1>3, <1>4, <1>5, <1>6, <1>7, <1>8 DEF AskedInv

LEMMA ActivateAsks ==
  ASSUME ReservationInv, AskedInv, NEW h \in Handlers, Activate(h)
  PROVE  AskedInv'
<1> DEFINE w == work[h]
           k == work[h].key
           r == [status |-> "queued", gen |-> row[k].gen, contract |-> w.contract,
                 payload |-> w.recipe, draft |-> card[row[k].gen].draft]
<1>1. Active(h) /\ k \in Keys /\ w.gen \in Gens
  BY DEF Activate, Active, ReservationInv, WorkOK, GoodWork
<1>2. CASE Conflict(h) /\ UNCHANGED row
  BY <1>1, <1>2, ConflictAsks DEF Activate
<1>3. CASE /\ row[k].status \in {"queued", "failed"} /\ row[k].gen = w.gen
           /\ Answer(h) /\ UNCHANGED row
  BY <1>1, <1>3, RowAgrees, AnswerAsks DEF Activate
<1>4. CASE /\ row[k].status = "preparing" /\ row[k].gen = w.gen
           /\ Answer(h) /\ Queued(k, w.contract, w.recipe)
  <2>1. row[k].contract = w.contract /\ w.recipe = w.contract
    BY <1>1, <1>4, RowAgrees DEF Activate, AskedInv, WorkAsAsked, HandlerAsAsked
  <2>2. Waiting(w.gen)
    BY <1>1, <1>4 DEF Activate, AskedInv, WorkWaits, Proceeds
  <2>3. row' = [row EXCEPT ![k] = r]
    BY <1>1, <1>4 DEF Queued, ReservationInv, RowsOK
  <2>4. Quiet
    BY <1>4 DEF Answer, Leave, Goto, ReservationInv, WorkOK, Quiet
  <2>5. \A x \in answered' : x \in answered \/ (x[1] = k /\ r.contract = x[2])
    BY <1>4 DEF Answer
  <2>6. r.status = "queued" /\ r.gen = row[k].gen /\ r.contract = row[k].contract
        /\ r.payload = r.contract /\ Waiting(r.gen)
    BY <1>4, <2>1, <2>2
  <2> HIDE DEF r
  <2> QED
    BY <1>1, <1>4, <2>3, <2>4, <2>5, <2>6, RowRewrittenAsks DEF Activate
<1> QED
  BY <1>2, <1>3, <1>4 DEF Activate

LEMMA UndoAsks ==
  ASSUME ReservationInv, AskedInv, NEW h \in Handlers, Undo(h)
  PROVE  AskedInv'
<1>1. work[h].key \in Keys
  BY DEF Undo, ReservationInv, WorkOK, GoodWork
<1>2. CASE row[work[h].key].status = "preparing" /\ row' = [row EXCEPT ![work[h].key] = NoRow]
  <2>1. Quiet
    BY DEF Undo, Leave, Goto, ReservationInv, WorkOK, Quiet
  <2> QED
    BY <1>1, <1>2, <2>1, RowRewrittenAsks DEF Undo
<1>3. CASE UNCHANGED row
  BY <1>3, LeaveAsks DEF Undo
<1> QED
  BY <1>1, <1>2, <1>3 DEF Undo, ReservationInv, RowsOK

LEMMA CleanUpAsks ==
  ASSUME ReservationInv, AskedInv, NEW k \in Keys, CleanUp(k)
  PROVE  AskedInv'
<1>1. Quiet
  BY DEF CleanUp, Quiet
<1> QED
  BY <1>1, RowRewrittenAsks DEF CleanUp

-----------------------------------------------------------------------------
(* A new card id is nobody's; the canvas comes with the id of its card.    *)
LEMMA MayNameIs ==
  ASSUME ReservationInv, AskedInv, NEW k \in Keys, NEW c \in offers[k], NEW g \in MayName(k),
         c \in Contracts
  PROVE  /\ g \in Gens
         /\ k \in Canvas => g = CanvasGen[k]
         /\ k \notin Canvas => card[g] = NoCard /\ \A l \in Keys : ~Holds(g, l)
         /\ \A l \in Keys : Holds(g, l) => l = k
         /\ \A d \in Contracts : Wants(g, d) => d = c
<1>1. CASE k \in Canvas
  <2>1. g = CanvasGen[k] /\ g \in Gens
    BY <1>1, ReservationAssumption DEF MayName
  <2>2. Holds(g, k) /\ Wants(g, c)
    BY <1>1, <2>1 DEF Holds, Wants
  <2> QED
    BY <1>1, <2>1, <2>2 DEF AskedInv, OneKey, OneContract
<1>2. CASE k \notin Canvas
  <2>1. /\ g \in Gens /\ card[g] = NoCard
        /\ \A l \in Canvas : CanvasGen[l] # g
        /\ \A l \in Keys : row[l].gen # g
        /\ \A h \in Handlers : work[h].gen # g
    BY <1>2 DEF MayName
  <2> QED
    BY <1>2, <2>1 DEF Holds, Wants
<1> QED
  BY <1>1, <1>2

LEMMA ReserveFreshAsks ==
  ASSUME ReservationInv, AskedInv, NEW h \in Handlers, NEW k \in Keys, NEW c \in Contracts,
         NEW g \in MayName(k), NEW r, NEW w,
         pc[h] = "idle", c \in offers[k], row[k].status = "none",
         r.status = "preparing", r.gen = g, r.contract = c,
         w.key = k, w.contract = c, w.gen = g,
         row' = [row EXCEPT ![k] = r], work' = [work EXCEPT ![h] = w],
         Goto(h, "look"), UNCHANGED <<card, offers, answered>>
  PROVE  AskedInv'
<1>1. /\ g \in Gens
      /\ k \in Canvas => g = CanvasGen[k]
      /\ k \notin Canvas => card[g] = NoCard
      /\ \A l \in Keys : Holds(g, l) => l = k
      /\ \A d \in Contracts : Wants(g, d) => d = c
  BY MayNameIs
<1>2. /\ r.status = "preparing" /\ r.gen = g /\ r.contract = c
      /\ w.key = k /\ w.gen = g /\ w.contract = c
      /\ row'[k] = r /\ \A l \in Keys \ {k} : row'[l] = row[l]
      /\ pc'[h] = "look" /\ work'[h] = w /\ Others(h)
  BY DEF Goto, Others, ReservationInv, WorkOK, RowsOK, NoRow, NoWork
<1>3. ASSUME NEW i \in Gens, NEW l \in Keys, Holds(i, l)' PROVE Holds(i, l) \/ (i = g /\ l = k)
  BY <1>2, <1>3 DEF Holds, Others, Active
<1>4. ASSUME NEW i \in Gens, NEW d \in Contracts, Wants(i, d)'
      PROVE  Wants(i, d) \/ (i = g /\ d = c)
  <2>1. CASE \E l \in Keys : row'[l].gen = i /\ row'[l].contract = d
    BY <1>2, <2>1 DEF Wants
  <2>2. CASE \E j \in Handlers : Active(j)' /\ work'[j].gen = i /\ work'[j].contract = d
    BY <1>2, <2>2 DEF Wants, Others, Active
  <2>3. CASE \E l \in Canvas : CanvasGen[l] = i /\ d \in offers'[l]
    BY <2>3 DEF Wants
  <2> QED
    BY <1>4, <2>1, <2>2, <2>3 DEF Wants
<1>5. OneKey'
  BY <1>1, <1>3 DEF AskedInv, OneKey
<1>6. CanvasIds'
  BY <1>1, <1>3, ReservationAssumption DEF AskedInv, CanvasIds
<1>7. OneContract'
  BY <1>1, <1>4 DEF AskedInv, OneContract
<1>8. CardsFit'
  <2>1. Fitting(card[g], c)
    <3>1. CASE k \in Canvas
      BY <1>1, <3>1 DEF AskedInv, CardsFit, Wants
    <3>2. CASE k \notin Canvas
      BY <1>1, <3>2 DEF Fitting
    <3> QED
      BY <3>1, <3>2
  <2> QED
    BY <1>4, <2>1 DEF AskedInv, CardsFit, Fitting
<1>9. RowsAsAsked'
  BY <1>2, ReservationAssumption DEF AskedInv, RowsAsAsked, RowAsAsked
<1>10. WorkAsAsked'
  <2> SUFFICES ASSUME NEW i \in Handlers, Active(i)'
               PROVE  HandlerAsAsked(i)'
    BY DEF WorkAsAsked
  <2>1. CASE i = h
    BY <1>2, <2>1 DEF HandlerAsAsked
  <2>2. CASE i # h
    BY <1>2, <2>2 DEF AskedInv, WorkAsAsked, HandlerAsAsked, Others, Active
  <2> QED
    BY <2>1, <2>2
<1>11. RowsWait'
  BY <1>1, <1>2 DEF AskedInv, RowsWait, Waiting, NoCard
<1>12. WorkWaits'
  <2> SUFFICES ASSUME NEW i \in Handlers, Proceeds(i)'
               PROVE  (Waiting(work[i].gen) \/ row[work[i].key].status = "failed")'
    BY DEF WorkWaits
  <2>1. CASE i = h
    BY <1>1, <1>2, <2>1 DEF Proceeds, Waiting, NoCard
  <2>2. CASE i # h
    <3>1. pc'[i] = pc[i] /\ work'[i] = work[i] /\ Proceeds(i)
      BY <1>2, <2>2 DEF Others, Proceeds, Active
    <3>2. work[i].key \in Keys
      BY <3>1 DEF ReservationInv, WorkOK, GoodWork, Active, Proceeds
    <3>3. row[work[i].key].status = "failed" => row'[work[i].key] = row[work[i].key]
      BY <1>2, <3>2
    <3> QED
      BY <3>1, <3>3 DEF AskedInv, WorkWaits, Waiting
  <2> QED
    BY <2>1, <2>2
<1>13. AnsweredStand'
  <2> SUFFICES ASSUME NEW x \in answered
               PROVE  /\ row'[x[1]].status \in {"queued", "failed"}
                      /\ row'[x[1]].contract \in {x[2], NoContract}
    BY DEF AnsweredStand
  <2>1. x[1] \in Keys /\ x[1] # k
    BY DEF AskedInv, AnsweredStand, ReservationInv, AnsweredOK
  <2> QED
    BY <1>2, <2>1 DEF AskedInv, AnsweredStand
<1>14. OneDraft'
  <2>1. FailedStay
    BY <1>2 DEF FailedStay
  <2> QED
    BY <2>1, OneDraftKept DEF AskedInv
<1> QED
  BY <1>5, <1>6, <1>7, <1>8, <1>9, <1>10, <1>11, <1>12, <1>13, <1>14 DEF AskedInv

(* Joining a reservation: its card id, for the same contract.              *)
LEMMA ReserveJoinAsks ==
  ASSUME ReservationInv, AskedInv, NEW h \in Handlers, NEW k \in Keys, NEW c \in Contracts,
         NEW w, pc[h] = "idle", c \in offers[k],
         row[k].status = "preparing", Fits(row[k], c),
         w.key = k, w.contract = c, w.gen = row[k].gen,
         work' = [work EXCEPT ![h] = w],
         Goto(h, "look"), UNCHANGED <<row, card, offers, answered>>
  PROVE  AskedInv'
<1>1. row[k].gen \in Gens /\ row[k].contract = c
  BY DEF ReservationInv, RowsOK, GoodRow, AskedInv, RowsAsAsked, RowAsAsked, Fits
<1>2. /\ w.key = k /\ w.gen = row[k].gen /\ w.contract = c
      /\ pc'[h] = "look" /\ work'[h] = w /\ Others(h)
  BY DEF Goto, Others, ReservationInv, WorkOK, NoWork
<1>3. ASSUME NEW i \in Gens, NEW l \in Keys, Holds(i, l)' PROVE Holds(i, l)
  BY <1>1, <1>2, <1>3 DEF Holds, Others, Active
<1>4. ASSUME NEW i \in Gens, NEW d \in Contracts, Wants(i, d)' PROVE Wants(i, d)
  <2>1. CASE \E j \in Handlers : Active(j)' /\ work'[j].gen = i /\ work'[j].contract = d
    BY <1>1, <1>2, <2>1 DEF Wants, Others, Active
  <2> QED
    BY <1>4, <2>1 DEF Wants
<1>5. OneKey' /\ CanvasIds' /\ OneContract' /\ CardsFit'
  <2>1. OneKey'
    BY <1>3 DEF AskedInv, OneKey
  <2>2. CanvasIds'
    BY <1>3, ReservationAssumption DEF AskedInv, CanvasIds
  <2>3. OneContract' /\ CardsFit'
    BY <1>4 DEF AskedInv, OneContract, CardsFit, Fitting
  <2> QED
    BY <2>1, <2>2, <2>3
<1>6. RowsAsAsked' /\ RowsWait' /\ AnsweredStand'
  BY DEF AskedInv, RowsAsAsked, RowAsAsked, RowsWait, AnsweredStand, Waiting
<1>7. WorkAsAsked'
  <2> SUFFICES ASSUME NEW i \in Handlers, Active(i)'
               PROVE  HandlerAsAsked(i)'
    BY DEF WorkAsAsked
  <2>1. CASE i = h
    BY <1>2, <2>1 DEF HandlerAsAsked
  <2>2. CASE i # h
    BY <1>2, <2>2 DEF AskedInv, WorkAsAsked, HandlerAsAsked, Others, Active
  <2> QED
    BY <2>1, <2>2
<1>8. WorkWaits'
  <2> SUFFICES ASSUME NEW i \in Handlers, Proceeds(i)'
               PROVE  (Waiting(work[i].gen) \/ row[work[i].key].status = "failed")'
    BY DEF WorkWaits
  <2>1. CASE i = h
    BY <1>2, <2>1 DEF Proceeds, Waiting, AskedInv, RowsWait
  <2>2. CASE i # h
    BY <1>2, <2>2 DEF AskedInv, WorkWaits, Others, Active, Proceeds, Waiting
  <2> QED
    BY <2>1, <2>2
<1>9. OneDraft'
  BY OneDraftKept DEF AskedInv, FailedStay
<1> QED
  BY <1>5, <1>6, <1>7, <1>8, <1>9 DEF AskedInv

LEMMA ReserveAsks ==
  ASSUME ReservationInv, AskedInv, NEW h \in Handlers, NEW k \in Keys, NEW c \in Contracts,
         Reserve(h, k, c)
  PROVE  AskedInv'
<1>1. CASE row[k].status = "none"
  <2>1. PICK g \in MayName(k) :
          /\ row' = [row EXCEPT ![k] = [NoRow EXCEPT !.status = "preparing",
                                          !.gen = g, !.contract = c]]
          /\ work' = [work EXCEPT ![h] = [NoWork EXCEPT !.key = k,
                                            !.contract = c, !.gen = g, !.made = TRUE]]
    BY <1>1 DEF Reserve
  <2> DEFINE r == [NoRow EXCEPT !.status = "preparing", !.gen = g, !.contract = c]
             w == [NoWork EXCEPT !.key = k, !.contract = c, !.gen = g, !.made = TRUE]
  <2>2. r.status = "preparing" /\ r.gen = g /\ r.contract = c
    BY DEF NoRow
  <2>3. w.key = k /\ w.contract = c /\ w.gen = g
    BY DEF NoWork
  <2>4. /\ pc[h] = "idle" /\ c \in offers[k] /\ Goto(h, "look")
        /\ UNCHANGED <<card, offers, answered>>
    BY <1>1 DEF Reserve
  <2>5. row' = [row EXCEPT ![k] = r] /\ work' = [work EXCEPT ![h] = w]
    BY <2>1
  <2> HIDE DEF r, w
  <2> QED
    BY <1>1, <2>2, <2>3, <2>4, <2>5, ReserveFreshAsks
<1>2. CASE row[k].status = "preparing"
  <2> DEFINE w == [NoWork EXCEPT !.key = k, !.contract = c, !.gen = row[k].gen]
  <2>1. w.key = k /\ w.contract = c /\ w.gen = row[k].gen
    BY DEF NoWork
  <2>2. /\ pc[h] = "idle" /\ c \in offers[k] /\ Goto(h, "look") /\ Fits(row[k], c)
        /\ work' = [work EXCEPT ![h] = w]
        /\ UNCHANGED <<row, card, offers, answered>>
    BY <1>2 DEF Reserve
  <2> HIDE DEF w
  <2> QED
    BY <1>2, <2>1, <2>2, ReserveJoinAsks
<1>3. CASE row[k].status \in {"queued", "failed"}
  <2>1. Others(h) /\ Stays(h) /\ ~Proceeds(h)' /\ pc'[h] = "idle"
    BY <1>3 DEF Reserve, Others, Stays, Active, Proceeds
  <2>2. \A x \in answered' : x \in answered \/
          (row[x[1]].status \in {"queued", "failed"} /\ row[x[1]].contract \in {x[2], NoContract})
    <3>1. answered' = answered \cup {<<k, c>>} /\ row[k].contract \in {c, NoContract}
      BY <1>3 DEF Reserve, Fits
    <3> QED
      BY <1>3, <3>1
  <2> QED
    BY <1>3, <2>1, <2>2, OnlyHandlerAsks DEF Reserve
<1> QED
  BY <1>1, <1>2, <1>3 DEF Reserve

LEMMA BuildAsks ==
  ASSUME ReservationInv, AskedInv, NEW h \in Handlers, Build(h)
  PROVE  AskedInv'
<1> DEFINE c == work[h].contract
           g == work[h].gen
           d == [state |-> "pending", recipe |-> IF c \in Adjusts THEN Source ELSE c,
                 copy |-> c \in Regenerates, draft |-> c \in Finishes]
           r(k) == IF c \in Finishes /\ row[k].gen = g /\ row[k].status = "preparing"
                     THEN [row[k] EXCEPT !.draft = TRUE] ELSE row[k]
<1>1. Active(h) /\ g \in Gens /\ c \in Contracts /\ work[h].key \in Keys
  BY DEF Build, Active, ReservationInv, WorkOK, GoodWork
<1>2. CASE Leave(h) /\ UNCHANGED <<row, card>>
  BY <1>2, LeaveAsks DEF Build
<1>3. CASE card[g] # NoCard /\ Goto(h, "classify") /\ UNCHANGED <<row, card, work>>
  <2>1. Others(h) /\ pc'[h] = "classify" /\ Stays(h)
    BY <1>1, <1>3 DEF Goto, Others, ReservationInv, WorkOK, Stays
  <2>2. Proceeds(h)' => Waiting(g) \/ row[work[h].key].status = "failed"
    BY <1>1, <1>3, <2>1 DEF Proceeds, AskedInv, WorkWaits
  <2> QED
    BY <1>3, <2>1, <2>2, OnlyHandlerAsks DEF Build
<1>4. ASSUME card[g] = NoCard, c \in Finishes => DraftIsFree(g),
             card' = [card EXCEPT ![g] = d], row' = [k \in Keys |-> r(k)],
             Goto(h, "adjust"), UNCHANGED <<work, offers, answered>>
      PROVE  AskedInv'
  <2>0. /\ card'[g] = d /\ \A i \in Gens \ {g} : card'[i] = card[i]
        /\ Others(h) /\ pc'[h] = "adjust" /\ work' = work
    BY <1>1, <1>4 DEF Goto, Others, ReservationInv, WorkOK, CardsOK
  <2>1. ASSUME NEW k \in Keys
        PROVE  /\ row'[k].status = row[k].status /\ row'[k].gen = row[k].gen
               /\ row'[k].contract = row[k].contract /\ row'[k].payload = row[k].payload
               /\ row[k].status = "none" => row'[k] = row[k]
    <3>1. row[k] \in RowType
      BY DEF ReservationInv, RowsOK, GoodRow
    <3> QED
      BY <1>4, <3>1 DEF RowType
  <2>2. /\ d.state = "pending" /\ d # NoCard
        /\ d.recipe = IF c \in Adjusts THEN Source ELSE c
        /\ d.draft = (c \in Finishes)
    BY DEF NoCard
  <2> HIDE DEF d, r
  <2>3. NamesStay
    <3>1. ASSUME NEW i \in Handlers PROVE Stays(i)
      BY <1>1, <2>0 DEF Stays, Others, Active
    <3> QED
      BY <1>4, <2>1, <3>1 DEF NamesStay, RowStays
  <2>4. OneKey' /\ CanvasIds' /\ OneContract'
        /\ \A i \in Gens, e \in Contracts : Wants(i, e)' => Wants(i, e)
    BY <2>3, NamesKept DEF AskedInv
  <2>5. CardsFit'
    <3> SUFFICES ASSUME NEW i \in Gens, NEW e \in Contracts, Wants(i, e)
                 PROVE  Fitting(card'[i], e)
      BY <2>4 DEF CardsFit, Fitting
    <3>1. CASE i = g
      <4>1. Wants(g, c)
        BY <1>1 DEF Wants
      <4>2. e = c
        BY <1>1, <3>1, <4>1 DEF AskedInv, OneContract
      <4> QED
        BY <2>0, <2>2, <3>1, <4>2 DEF Fitting
    <3>2. CASE i # g
      BY <2>0, <3>2 DEF AskedInv, CardsFit
    <3> QED
      BY <3>1, <3>2
  <2>6. RowsAsAsked'
    BY <1>4, <2>1 DEF AskedInv, RowsAsAsked, RowAsAsked
  <2>7. WorkAsAsked'
    <3> SUFFICES ASSUME NEW i \in Handlers, Active(i)'
                 PROVE  HandlerAsAsked(i)'
      BY DEF WorkAsAsked
    <3>1. CASE i = h
      BY <1>1, <1>4, <2>0, <2>2, <3>1 DEF AskedInv, WorkAsAsked, HandlerAsAsked
    <3>2. CASE i # h
      <4>1. Active(i) /\ work[i].gen \in Gens /\ pc'[i] = pc[i]
        BY <2>0, <3>2 DEF Others, Active, ReservationInv, WorkOK, GoodWork
      <4>2. work[i].gen # g => card'[work[i].gen] = card[work[i].gen]
        BY <2>0, <4>1
      <4> QED
        BY <1>4, <2>0, <2>2, <4>1, <4>2 DEF AskedInv, WorkAsAsked, HandlerAsAsked
    <3> QED
      BY <3>1, <3>2
  <2>8. ASSUME NEW i \in Gens, Waiting(i) PROVE Waiting(i)'
    BY <2>0, <2>2, <2>8 DEF Waiting
  <2>9. RowsWait'
    <3> SUFFICES ASSUME NEW k \in Keys,
                        row[k].status = "queued" \/ (row[k].status = "preparing" /\ k \notin Canvas)
                 PROVE  card'[row'[k].gen].state \in {"none", "pending"}
      BY <2>1 DEF RowsWait, Waiting
    <3>1. row[k].gen \in Gens /\ Waiting(row[k].gen)
      BY DEF AskedInv, RowsWait, ReservationInv, RowsOK, GoodRow
    <3>2. card'[row[k].gen].state \in {"none", "pending"}
      BY <2>8, <3>1 DEF Waiting
    <3> QED
      BY <2>1, <3>2
  <2>10. WorkWaits'
    <3> SUFFICES ASSUME NEW i \in Handlers, Proceeds(i)'
                 PROVE  (Waiting(work[i].gen) \/ row[work[i].key].status = "failed")'
      BY DEF WorkWaits
    <3>1. CASE i = h
      BY <2>0, <2>2, <3>1 DEF Waiting
    <3>2. CASE i # h
      <4>1. Proceeds(i) /\ work[i].gen \in Gens /\ work[i].key \in Keys
        BY <2>0, <3>2 DEF Others, Proceeds, Active, ReservationInv, WorkOK, GoodWork
      <4> QED
        BY <2>0, <2>1, <2>8, <4>1 DEF AskedInv, WorkWaits, Waiting
    <3> QED
      BY <3>1, <3>2
  <2>11. AnsweredStand'
    <3>1. ASSUME NEW x \in answered PROVE x[1] \in Keys
      BY DEF ReservationInv, AnsweredOK
    <3> QED
      BY <1>4, <2>1, <3>1 DEF AskedInv, AnsweredStand
  <2>12. OneDraft'
    <3>1. ASSUME NEW i \in Gens, Spent(i), i # g PROVE Spent(i)'
      BY <2>0, <2>1, <3>1 DEF Spent
    <3>2. ASSUME NEW i \in Gens, i # g, card[i].draft, d.draft PROVE Spent(i)'
      <4>1. DraftIsFree(g)
        BY <1>4, <2>2, <3>2
      <4> QED
        BY <3>1, <3>2, <4>1 DEF DraftIsFree, Spent
    <3>3. Spent(g) => FALSE
      BY <1>4 DEF Spent, NoCard
    <3> SUFFICES ASSUME NEW i \in Gens, NEW j \in Gens, card'[i].draft, card'[j].draft, i # j
                 PROVE  Spent(i)' \/ Spent(j)'
      BY DEF OneDraft
    <3>4. CASE i = g
      BY <2>0, <3>2, <3>4
    <3>5. CASE j = g
      BY <2>0, <3>2, <3>5
    <3>6. CASE i # g /\ j # g
      BY <2>0, <3>1, <3>6 DEF AskedInv, OneDraft
    <3> QED
      BY <3>4, <3>5, <3>6
  <2> QED
    BY <1>4, <2>4, <2>5, <2>6, <2>7, <2>9, <2>10, <2>11, <2>12 DEF AskedInv
<1> QED
  BY <1>2, <1>3, <1>4 DEF Build

(* Handlers of one card id ask for the same, so an adjustment is theirs.   *)
LEMMA SameContract ==
  ASSUME ReservationInv, AskedInv, NEW g \in Gens, NEW c \in Contracts, Wants(g, c),
         NEW i \in Handlers, Active(i), work[i].gen = g
  PROVE  work[i].contract = c
<1>1. work[i].contract \in Contracts /\ Wants(g, work[i].contract)
  BY DEF ReservationInv, WorkOK, GoodWork, Active, Wants
<1> QED
  BY <1>1 DEF AskedInv, OneContract

LEMMA AdjustAsks ==
  ASSUME ReservationInv, AskedInv, NEW h \in Handlers, Adjust(h)
  PROVE  AskedInv'
<1> DEFINE c == work[h].contract
           g == work[h].gen
           d == [card[g] EXCEPT !.recipe = c]
<1>1. /\ Active(h) /\ pc[h] = "adjust" /\ g \in Gens /\ c \in Contracts
      /\ work[h].key \in Keys /\ Wants(g, c)
  BY DEF Adjust, Active, ReservationInv, WorkOK, GoodWork, Wants
<1>2. Others(h) /\ pc'[h] = "read" /\ work' = work
  BY DEF Adjust, Goto, Others, ReservationInv, WorkOK
<1>3. card[g] # NoCard /\ Fitting(card[g], c)
  BY <1>1 DEF AskedInv, WorkAsAsked, HandlerAsAsked, CardsFit
<1>4. Stays(h) /\ (Waiting(g) \/ row[work[h].key].status = "failed")
  BY <1>1, <1>2 DEF Stays, AskedInv, WorkWaits, Proceeds
<1>5. CASE UNCHANGED card /\ c \notin Adjusts
  BY <1>2, <1>3, <1>4, <1>5, OnlyHandlerAsks DEF Adjust, Fitting
<1>6. CASE card' = [card EXCEPT ![g] = d]
  <2>0. card[g] \in CardType
    BY <1>1, <1>3 DEF ReservationInv, CardsOK, GoodCard
  <2>1. /\ card'[g].state = card[g].state /\ card'[g].draft = card[g].draft
        /\ card'[g].recipe = c /\ card'[g] # NoCard
    <3>1. card'[g] = d
      BY <1>1, <1>6 DEF ReservationInv, CardsOK
    <3>2. d.recipe # NoContract
      BY <1>1, <2>0, ReservationAssumption DEF CardType
    <3> QED
      BY <2>0, <3>1, <3>2 DEF CardType, NoCard
  <2>2. \A i \in Gens \ {g} : card'[i] = card[i]
    BY <1>6 DEF ReservationInv, CardsOK
  <2>3. NamesStay
    <3>1. ASSUME NEW i \in Handlers PROVE Stays(i)
      BY <1>1, <1>2 DEF Stays, Others, Active
    <3> QED
      BY <3>1 DEF NamesStay, RowStays, Adjust
  <2>4. OneKey' /\ CanvasIds' /\ OneContract'
        /\ \A i \in Gens, e \in Contracts : Wants(i, e)' => Wants(i, e)
    BY <2>3, NamesKept DEF AskedInv
  <2>5. CardsFit'
    <3> SUFFICES ASSUME NEW i \in Gens, NEW e \in Contracts, Wants(i, e)
                 PROVE  Fitting(card'[i], e)
      BY <2>4 DEF CardsFit, Fitting
    <3>1. CASE i = g
      <4>1. e = c
        BY <1>1, <3>1 DEF AskedInv, OneContract
      <4> QED
        BY <1>3, <2>1, <3>1, <4>1 DEF Fitting
    <3>2. CASE i # g
      BY <2>2, <3>2 DEF AskedInv, CardsFit
    <3> QED
      BY <3>1, <3>2
  <2>6. RowsAsAsked' /\ AnsweredStand'
    BY DEF Adjust, AskedInv, RowsAsAsked, RowAsAsked, AnsweredStand
  <2>7. WorkAsAsked'
    <3> SUFFICES ASSUME NEW i \in Handlers, Active(i)'
                 PROVE  HandlerAsAsked(i)'
      BY DEF WorkAsAsked
    <3>1. CASE i = h
      BY <1>1, <1>2, <2>1, <3>1 DEF AskedInv, WorkAsAsked, HandlerAsAsked, Adjust
    <3>2. CASE i # h
      <4>1. Active(i) /\ work[i].gen \in Gens /\ pc'[i] = pc[i]
        BY <1>2, <3>2 DEF Others, Active, ReservationInv, WorkOK, GoodWork
      <4>2. work[i].gen # g => card'[work[i].gen] = card[work[i].gen]
        BY <2>2, <4>1
      <4>3. work[i].gen = g => work[i].contract = c
        BY <1>1, <4>1, SameContract
      <4> QED
        BY <1>2, <2>1, <4>1, <4>2, <4>3 DEF AskedInv, WorkAsAsked, HandlerAsAsked, Adjust
    <3> QED
      BY <3>1, <3>2
  <2>8. \A i \in Gens : card'[i].state = card[i].state /\ card'[i].draft = card[i].draft
    BY <2>1, <2>2
  <2>9. RowsWait'
    BY <2>8 DEF AskedInv, RowsWait, Waiting, Adjust, ReservationInv, RowsOK, GoodRow
  <2>10. WorkWaits'
    <3> SUFFICES ASSUME NEW i \in Handlers, Proceeds(i)'
                 PROVE  (Waiting(work[i].gen) \/ row[work[i].key].status = "failed")'
      BY DEF WorkWaits
    <3>1. CASE i = h
      BY <1>1, <1>2, <1>4, <2>8, <3>1 DEF Waiting, Adjust
    <3>2. CASE i # h
      <4>1. Proceeds(i) /\ work[i].gen \in Gens
        BY <1>2, <3>2 DEF Others, Proceeds, Active, ReservationInv, WorkOK, GoodWork
      <4> QED
        BY <1>2, <2>8, <4>1 DEF AskedInv, WorkWaits, Waiting, Adjust
    <3> QED
      BY <3>1, <3>2
  <2>11. OneDraft'
    <3>1. FailedStay
      BY <2>8 DEF FailedStay, Adjust
    <3> QED
      BY <2>8, <3>1, OneDraftKept DEF AskedInv
  <2> QED
    BY <2>4, <2>5, <2>6, <2>7, <2>9, <2>10, <2>11 DEF AskedInv, Adjust
<1>7. (UNCHANGED card /\ c \notin Adjusts) \/ card' = [card EXCEPT ![g] = d]
  BY <1>1, <1>3 DEF Adjust, ReservationInv, CardsOK
<1> QED
  BY <1>5, <1>6, <1>7

LEMMA RepairAsks ==
  ASSUME ReservationInv, AskedInv, NEW k \in Canvas, Repair(k)
  PROVE  AskedInv'
<1> DEFINE g == CanvasGen[k]
           c == row[k].contract
           recipe == IF c \in Adjusts THEN c ELSE card[g].recipe
           d == [card[g] EXCEPT !.recipe = recipe]
           r == [status |-> "queued", gen |-> g, contract |-> c, payload |-> recipe,
                 draft |-> card[g].draft]
<1>1. /\ k \in Keys /\ g \in Gens /\ NoContract \notin Contracts /\ NoContract \notin Adjusts
      /\ Adjusts \subseteq Contracts
  BY ReservationAssumption
<1>2. row[k].status \in {"none", "preparing"} /\ card[g].state = "pending" /\ card[g] # NoCard
  BY DEF Repair, NoCard
<1>3. card[g] \in CardType /\ card[g].recipe \in Recipes
  BY <1>1, <1>2 DEF ReservationInv, CardsOK, GoodCard
<1>4. /\ row[k].status = "none" => c = NoContract
      /\ row[k].status = "preparing" => c \in Contracts /\ row[k].gen = g /\ Wants(g, c)
  <2>1. CASE row[k].status = "none"
    BY <1>1, <2>1 DEF AskedInv, RowsAsAsked, RowAsAsked, NoRow
  <2>2. CASE row[k].status = "preparing"
    <3>1. c \in Contracts
      BY <1>1, <2>2 DEF ReservationInv, RowsOK, GoodRow, RowType, AskedInv, RowsAsAsked, RowAsAsked
    <3>2. row[k].gen \in Gens /\ Holds(row[k].gen, k)
      BY <1>1, <2>2 DEF ReservationInv, RowsOK, GoodRow, Holds
    <3>3. row[k].gen = g
      BY <3>2 DEF AskedInv, CanvasIds
    <3> QED
      BY <1>1, <2>2, <3>1, <3>3 DEF Wants
  <2> QED
    BY <1>2, <2>1, <2>2
<1>5. c # NoContract => c \in Contracts /\ Wants(g, c) /\ recipe = c
  <2> SUFFICES ASSUME c # NoContract PROVE c \in Contracts /\ Wants(g, c) /\ recipe = c
    OBVIOUS
  <2>1. c \in Contracts /\ Wants(g, c)
    BY <1>2, <1>4
  <2>2. Fitting(card[g], c)
    BY <1>1, <2>1 DEF AskedInv, CardsFit
  <2> QED
    BY <1>2, <2>1, <2>2 DEF Fitting
<1>6. c = NoContract => recipe = card[g].recipe
  BY <1>1
<1>7. /\ row'[k] = r /\ \A l \in Keys \ {k} : row'[l] = row[l]
      /\ card'[g] = d /\ \A i \in Gens \ {g} : card'[i] = card[i]
      /\ UNCHANGED <<pc, work, offers, answered>>
  BY <1>1 DEF Repair, ReservationInv, CardsOK, RowsOK
<1>8. r.status = "queued" /\ r.gen = g /\ r.contract = c /\ r.payload = recipe
  OBVIOUS
<1>9. d.state = "pending" /\ d.recipe = recipe /\ d.draft = card[g].draft /\ d # NoCard
  BY <1>2, <1>3 DEF CardType, NoCard
<1> HIDE DEF d, r, recipe
<1>10. NamesStay
  <2>1. ASSUME NEW i \in Handlers PROVE Stays(i)
    BY <1>7 DEF Stays, Active
  <2>2. ASSUME NEW l \in Keys PROVE RowStays(l)
    BY <1>2, <1>4, <1>7, <1>8 DEF RowStays
  <2> QED
    BY <1>7, <2>1, <2>2 DEF NamesStay
<1>11. OneKey' /\ CanvasIds' /\ OneContract'
       /\ \A i \in Gens, e \in Contracts : Wants(i, e)' => Wants(i, e)
  BY <1>10, NamesKept DEF AskedInv
<1>12. CardsFit'
  <2> SUFFICES ASSUME NEW i \in Gens, NEW e \in Contracts, Wants(i, e)
               PROVE  Fitting(card'[i], e)
    BY <1>11 DEF CardsFit, Fitting
  <2>1. Fitting(card[i], e)
    BY DEF AskedInv, CardsFit
  <2>2. CASE i = g /\ c # NoContract
    <3>1. e = c
      BY <1>1, <1>5, <2>2 DEF AskedInv, OneContract
    <3> QED
      BY <1>2, <1>5, <1>7, <1>9, <2>1, <2>2, <3>1 DEF Fitting
  <2>3. CASE i = g /\ c = NoContract
    BY <1>2, <1>6, <1>7, <1>9, <2>1, <2>3 DEF Fitting
  <2>4. CASE i # g
    BY <1>7, <2>1, <2>4
  <2> QED
    BY <2>2, <2>3, <2>4
<1>13. RowsAsAsked'
  <2> SUFFICES ASSUME NEW l \in Keys
               PROVE  RowAsAsked(l)'
    BY DEF RowsAsAsked
  <2>1. CASE l = k
    <3>1. c \in offers[k] \cup {NoContract}
      BY <1>1 DEF AskedInv, RowsAsAsked, RowAsAsked
    <3> QED
      BY <1>5, <1>7, <1>8, <2>1, <3>1 DEF RowAsAsked
  <2>2. CASE l # k
    BY <1>7, <2>2 DEF AskedInv, RowsAsAsked, RowAsAsked
  <2> QED
    BY <2>1, <2>2
<1>14. WorkAsAsked'
  <2> SUFFICES ASSUME NEW i \in Handlers, Active(i)
               PROVE  HandlerAsAsked(i)'
    BY <1>7 DEF WorkAsAsked, Active
  <2>1. work[i].gen \in Gens
    BY DEF Active, ReservationInv, WorkOK, GoodWork
  <2>2. CASE work[i].gen # g
    BY <1>7, <2>1, <2>2 DEF AskedInv, WorkAsAsked, HandlerAsAsked
  <2>3. CASE work[i].gen = g /\ c # NoContract
    <3>1. work[i].contract = c
      BY <1>1, <1>5, <2>3, SameContract
    <3> QED
      BY <1>5, <1>7, <1>9, <2>3, <3>1 DEF AskedInv, WorkAsAsked, HandlerAsAsked
  <2>4. CASE work[i].gen = g /\ c = NoContract
    BY <1>6, <1>7, <1>9, <2>4 DEF AskedInv, WorkAsAsked, HandlerAsAsked
  <2> QED
    BY <2>2, <2>3, <2>4
<1>15. \A i \in Gens : card'[i].state = card[i].state /\ card'[i].draft = card[i].draft
  BY <1>2, <1>7, <1>9
<1>16. RowsWait'
  <2> SUFFICES ASSUME NEW l \in Keys,
                      (row[l].status = "queued" \/ (row[l].status = "preparing" /\ l \notin Canvas))'
               PROVE  card'[row'[l].gen].state \in {"none", "pending"}
    BY DEF RowsWait, Waiting
  <2>1. CASE l = k
    BY <1>7, <1>8, <1>9, <2>1
  <2>2. CASE l # k
    <3>1. row[l].gen \in Gens /\ Waiting(row[l].gen)
      BY <1>7, <2>2 DEF AskedInv, RowsWait, ReservationInv, RowsOK, GoodRow
    <3> QED
      BY <1>7, <1>15, <2>2, <3>1 DEF Waiting
  <2> QED
    BY <2>1, <2>2
<1>17. WorkWaits'
  <2> SUFFICES ASSUME NEW i \in Handlers, Proceeds(i)
               PROVE  (Waiting(work[i].gen) \/ row[work[i].key].status = "failed")'
    BY <1>7 DEF WorkWaits, Proceeds, Active
  <2>1. work[i].gen \in Gens /\ work[i].key \in Keys
    BY DEF Proceeds, Active, ReservationInv, WorkOK, GoodWork
  <2>2. row[work[i].key].status = "failed" => row'[work[i].key].status = "failed"
    BY <1>2, <1>7, <2>1
  <2> QED
    BY <1>7, <1>15, <2>1, <2>2 DEF AskedInv, WorkWaits, Waiting
<1>18. AnsweredStand'
  <2> SUFFICES ASSUME NEW x \in answered
               PROVE  /\ row'[x[1]].status \in {"queued", "failed"}
                      /\ row'[x[1]].contract \in {x[2], NoContract}
    BY <1>7 DEF AnsweredStand
  <2>1. x[1] \in Keys /\ x[1] # k
    BY <1>2 DEF AskedInv, AnsweredStand, ReservationInv, AnsweredOK
  <2> QED
    BY <1>7, <2>1 DEF AskedInv, AnsweredStand
<1>19. OneDraft'
  <2>1. FailedStay
    BY <1>2, <1>7, <1>15 DEF FailedStay
  <2> QED
    BY <1>15, <2>1, OneDraftKept DEF AskedInv
<1> QED
  BY <1>7, <1>11, <1>12, <1>13, <1>14, <1>16, <1>17, <1>18, <1>19 DEF AskedInv

LEMMA RequestFailsAsks ==
  ASSUME ReservationInv, AskedInv, NEW k \in Keys, RequestFails(k)
  PROVE  AskedInv'
<1> DEFINE g == row[k].gen
<1>1. row[k].status = "queued" /\ g \in Gens /\ card[g] # NoCard /\ Holds(g, k)
  BY DEF RequestFails, ReservationInv, RowsOK, GoodRow, RowsHeld, Holds
<1>2. card[g] \in CardType /\ row[k] \in RowType
  BY <1>1 DEF ReservationInv, CardsOK, GoodCard, RowsOK, GoodRow
<1>3. /\ row'[k].status = "failed" /\ row'[k].gen = g /\ row'[k].contract = row[k].contract
      /\ \A l \in Keys \ {k} : row'[l] = row[l]
      /\ UNCHANGED <<pc, work, offers, answered>>
  BY <1>2 DEF RequestFails, ReservationInv, RowsOK, RowType
<1>4. /\ card'[g].state = "failed" /\ card'[g].recipe = card[g].recipe
      /\ card'[g].draft = card[g].draft /\ card'[g] # NoCard
      /\ \A i \in Gens \ {g} : card'[i] = card[i]
  BY <1>1, <1>2 DEF RequestFails, ReservationInv, CardsOK, CardType, NoCard
<1>5. NamesStay
  <2>1. ASSUME NEW l \in Keys PROVE RowStays(l)
    BY <1>3 DEF RowStays
  <2>2. ASSUME NEW i \in Handlers PROVE Stays(i)
    BY <1>3 DEF Stays, Active
  <2> QED
    BY <1>3, <2>1, <2>2 DEF NamesStay
<1>6. \A i \in Gens : CardStays(i)
  BY <1>1, <1>4 DEF CardStays
<1>7. OneKey' /\ CanvasIds' /\ OneContract' /\ CardsFit'
  BY <1>5, <1>6, NamesKept, FitKept DEF AskedInv
<1>8. RowsAsAsked'
  BY <1>1, <1>3 DEF AskedInv, RowsAsAsked, RowAsAsked
<1>9. WorkAsAsked'
  <2>1. Quiet
    BY <1>3 DEF Quiet
  <2> QED
    BY <1>3, <1>6, <2>1, QuietWork DEF AskedInv, CardStays
<1>10. RowsWait'
  <2> SUFFICES ASSUME NEW l \in Keys,
                      (row[l].status = "queued" \/ (row[l].status = "preparing" /\ l \notin Canvas))'
               PROVE  card'[row'[l].gen].state \in {"none", "pending"}
    BY DEF RowsWait, Waiting
  <2>1. l # k
    BY <1>3
  <2>2. row[l].gen \in Gens /\ Waiting(row[l].gen) /\ Holds(row[l].gen, l)
    BY <1>3, <2>1 DEF AskedInv, RowsWait, ReservationInv, RowsOK, GoodRow, Holds
  <2>3. row[l].gen # g
    BY <1>1, <2>1, <2>2 DEF AskedInv, OneKey
  <2> QED
    BY <1>3, <1>4, <2>1, <2>2, <2>3 DEF Waiting
<1>11. WorkWaits'
  <2> SUFFICES ASSUME NEW i \in Handlers, Proceeds(i)
               PROVE  (Waiting(work[i].gen) \/ row[work[i].key].status = "failed")'
    BY <1>3 DEF WorkWaits, Proceeds, Active
  <2>1. work[i].gen \in Gens /\ work[i].key \in Keys /\ Holds(work[i].gen, work[i].key)
    BY DEF Proceeds, Active, ReservationInv, WorkOK, GoodWork, Holds
  <2>2. CASE work[i].gen = g
    <3>1. work[i].key = k
      BY <1>1, <2>1, <2>2 DEF AskedInv, OneKey
    <3> QED
      BY <1>3, <3>1
  <2>3. CASE work[i].gen # g
    <3>1. row[work[i].key].status = "failed" => row'[work[i].key].status = "failed"
      BY <1>3, <2>1
    <3> QED
      BY <1>3, <1>4, <2>1, <2>3, <3>1 DEF AskedInv, WorkWaits, Waiting
  <2> QED
    BY <2>2, <2>3
<1>12. AnsweredStand'
  <2>1. \A x \in answered : x[1] \in Keys
    BY DEF ReservationInv, AnsweredOK
  <2> QED
    BY <1>3, <2>1 DEF AskedInv, AnsweredStand
<1>13. OneDraft'
  <2>1. FailedStay
    BY <1>1, <1>3, <1>4 DEF FailedStay
  <2> QED
    BY <1>4, <2>1, OneDraftKept DEF AskedInv
<1> QED
  BY <1>3, <1>7, <1>8, <1>9, <1>10, <1>11, <1>12, <1>13 DEF AskedInv

LEMMA RestartAsks ==
  ASSUME ReservationInv, AskedInv, Restart
  PROVE  AskedInv'
<1>1. \A h \in Handlers : pc'[h] = "idle"
  BY DEF Restart
<1>2. ASSUME NEW g \in Gens
      PROVE  /\ CardStays(g)
             /\ \/ card'[g] = card[g]
                \/ /\ card'[g].state = "failed"
                   /\ \A k \in Keys : row[k].gen # g \/ row[k].status \notin {"preparing", "queued"}
  <2>1. CASE card'[g] = card[g]
    BY <2>1 DEF CardStays
  <2>2. CASE card'[g] # card[g]
    <3>1. /\ card[g].state = "pending" /\ card'[g] = [card[g] EXCEPT !.state = "failed"]
          /\ \A k \in Keys : row[k].gen # g \/ row[k].status \notin {"preparing", "queued"}
      BY <2>2 DEF Restart
    <3>2. card[g] \in CardType
      BY <3>1 DEF ReservationInv, CardsOK, GoodCard, NoCard
    <3> QED
      BY <3>1, <3>2 DEF CardStays, CardType, NoCard
  <2> QED
    BY <2>1, <2>2
<1>3. NamesStay
  BY <1>1 DEF Restart, NamesStay, Stays, RowStays, Active
<1>4. OneKey' /\ CanvasIds' /\ OneContract' /\ CardsFit'
  BY <1>2, <1>3, NamesKept, FitKept DEF AskedInv
<1>5. RowsAsAsked' /\ AnsweredStand'
  BY DEF Restart, AskedInv, RowsAsAsked, RowAsAsked, AnsweredStand
<1>6. WorkAsAsked' /\ WorkWaits'
  BY <1>1 DEF WorkAsAsked, HandlerAsAsked, WorkWaits, Proceeds, Active
<1>7. RowsWait'
  <2> SUFFICES ASSUME NEW l \in Keys,
                      row[l].status = "queued" \/ (row[l].status = "preparing" /\ l \notin Canvas)
               PROVE  card'[row[l].gen].state \in {"none", "pending"}
    BY DEF RowsWait, Waiting, Restart
  <2>1. row[l].gen \in Gens /\ Waiting(row[l].gen)
    BY DEF AskedInv, RowsWait, ReservationInv, RowsOK, GoodRow
  <2>2. card'[row[l].gen] = card[row[l].gen]
    BY <1>2, <2>1
  <2> QED
    BY <2>1, <2>2 DEF Waiting
<1>8. OneDraft'
  <2>1. FailedStay
    BY <1>2 DEF FailedStay, Restart
  <2> QED
    BY <1>2, <2>1, OneDraftKept DEF AskedInv, CardStays
<1> QED
  BY <1>4, <1>5, <1>6, <1>7, <1>8 DEF AskedInv, Restart

-----------------------------------------------------------------------------
LEMMA AskedAtFirst == Init => AskedInv
<1> SUFFICES ASSUME Init PROVE AskedInv
  OBVIOUS
<1>1. /\ \A k \in Keys : row[k] = NoRow
      /\ \A g \in Gens : card[g] = NoCard
      /\ \A h \in Handlers : ~Active(h)
      /\ offers \in Offers /\ answered = {}
  BY DEF Init, Active
<1>2. NoGen \notin Gens /\ NoContract \notin Contracts /\ Canvas \subseteq Keys
  BY ReservationAssumption
<1>3. ASSUME NEW g \in Gens, NEW k \in Keys, Holds(g, k)
      PROVE  k \in Canvas /\ CanvasGen[k] = g
  BY <1>1, <1>2, <1>3 DEF Holds, NoRow
<1>4. OneKey /\ CanvasIds
  BY <1>2, <1>3, ReservationAssumption DEF OneKey, CanvasIds
<1>5. OneContract
  <2> SUFFICES ASSUME NEW g \in Gens, NEW c \in Contracts, NEW d \in Contracts,
                      Wants(g, c), Wants(g, d)
               PROVE  c = d
    BY DEF OneContract
  <2>1. PICK k \in Canvas : CanvasGen[k] = g /\ c \in offers[k]
    BY <1>1, <1>2 DEF Wants, NoRow
  <2>2. PICK l \in Canvas : CanvasGen[l] = g /\ d \in offers[l]
    BY <1>1, <1>2 DEF Wants, NoRow
  <2>3. k = l
    BY <2>1, <2>2, ReservationAssumption
  <2> QED
    BY <1>1, <2>1, <2>2, <2>3, AttemptAssumption
<1>6. CardsFit /\ OneDraft
  <2>1. NoCard.draft = FALSE
    BY DEF NoCard
  <2> QED
    BY <1>1, <2>1 DEF CardsFit, Fitting, OneDraft
<1>7. RowsAsAsked /\ RowsWait
  <2>1. NoRow.status = "none" /\ NoRow.contract = NoContract
    BY DEF NoRow
  <2> QED
    BY <1>1, <2>1 DEF RowsAsAsked, RowAsAsked, RowsWait
<1>8. WorkAsAsked /\ WorkWaits /\ AnsweredStand
  BY <1>1 DEF WorkAsAsked, HandlerAsAsked, WorkWaits, Proceeds, AnsweredStand
<1> QED
  BY <1>1, <1>4, <1>5, <1>6, <1>7, <1>8 DEF AskedInv

LEMMA StepKeepsAsked == ReservationInv /\ AskedInv /\ [Next]_vars => AskedInv'
<1> SUFFICES ASSUME ReservationInv, AskedInv, [Next]_vars PROVE AskedInv'
  OBVIOUS
<1>1. CASE UNCHANGED vars
  <2> USE <1>1 DEF vars
  <2>1. (\A g, k : Holds(g, k)' <=> Holds(g, k)) /\ (\A g, c : Wants(g, c)' <=> Wants(g, c))
    BY DEF Holds, Wants, Active
  <2>2. OneKey' /\ CanvasIds' /\ OneContract' /\ CardsFit'
    BY <2>1 DEF AskedInv, OneKey, CanvasIds, OneContract, CardsFit, Fitting
  <2> QED
    BY <2>2 DEF AskedInv, RowsAsAsked, RowAsAsked, WorkAsAsked, HandlerAsAsked, RowsWait, WorkWaits, Waiting, Proceeds,
                Active, AnsweredStand, OneDraft, Spent
<1>2. ASSUME NEW h \in Handlers, Submit(h) PROVE AskedInv'
  BY <1>2, ReserveAsks, LookAsks, ClassifyAsks, BuildAsks, AdjustAsks, ReadRecipeAsks,
     ActivateAsks, UndoAsks, AbandonAsks DEF Submit
<1>3. ASSUME NEW k \in Keys, CleanUp(k) \/ RequestFails(k) PROVE AskedInv'
  BY <1>3, CleanUpAsks, RequestFailsAsks
<1>4. ASSUME NEW k \in Canvas, Repair(k) PROVE AskedInv'
  BY <1>4, RepairAsks
<1> QED
  BY <1>1, <1>2, <1>3, <1>4, RestartAsks DEF Next

LEMMA AskedAlways == Spec => []AskedInv
  BY AskedAtFirst, StepKeepsAsked, InvAlways, PTL DEF Spec

(* What is queued is what was asked for, and a submission that was         *)
(* answered with a card is in the queue as the command it asked for        *)
(* (submit_gen_request, activate_*, repair_orphaned_canvas_generation).    *)
THEOREM QueuedAsAskedTheorem == Spec => []QueuedAsAsked
  BY AskedAlways, InvAlways, AskedMeans, PTL

(* One draft is in the queue to be finished once, whatever keys it is      *)
(* asked for under (_reserve_draft_finish).                                *)
THEOREM DraftFinishedOnceTheorem == Spec => []DraftFinishedOnce
  BY AskedAlways, InvAlways, AskedMeans, PTL
=============================================================================
