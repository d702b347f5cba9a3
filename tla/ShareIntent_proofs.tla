-------------------------- MODULE ShareIntent_proofs --------------------------
(***************************************************************************)
(* Proofs about ShareIntent: its type invariant, and that the mirror is    *)
(* fresh, that what is confirmed was seen, that a newer request stands and *)
(* that a request taken back stays failed, for any number of requests,     *)
(* faults and changes by others.                                           *)
(***************************************************************************)
EXTENDS ShareIntent, TLAPS

-----------------------------------------------------------------------------
(***************************************************************************)
(* The inductive invariant.                                                *)
(***************************************************************************)

Acting == {"act", "recheck", "cleanup", "apply"}

\* What is under way belongs to the row as it is: the route and the worker
\* take turns by the lock, and the worker's row stays open while it is its.
TurnsAreTaken ==
    /\ lock = "route" <=> route.pc # "idle"
    /\ lock = "worker" <=> worker.pc \in Acting
    /\ row.status \in Open => row.seq > 0
    /\ route.pc # "idle" =>
         /\ row.seq > 0 /\ row.status \in Open
         /\ route.cmd.seq = row.seq /\ route.cmd.name \in AllKinds
    /\ worker.seq <= row.seq
    /\ worker.pc # "idle" /\ worker.seq = row.seq => row.token = "worker" /\ row.status \in Open
    /\ worker.pc \in Acting => worker.seq = row.seq

\* A command that is stored or under way is one of a request that was made.
CommandsAreMade ==
    /\ row.cmd # NoCmd => modern /\ row.cmd.seq = row.seq /\ row.cmd.name \in Steps
    /\ \A c \in late : c.seq \in 1..row.seq /\ c.name \in Steps
    /\ \A q \in receipts : q.seq <= row.seq
    /\ top <= row.seq
    /\ modern /\ route.pc = "send" => row.cmd = route.cmd

\* Revisions only grow, so a command of a request that was overtaken expects
\* one that is over.
RevisionsGrow ==
    modern =>
      /\ row.cmd.exp <= rev /\ route.cmd.exp <= rev /\ worker.exp <= rev
      /\ \A q \in receipts : q.rev <= rev
      /\ \A c \in late : c.exp <= rev /\ (c.seq < top => c.exp < rev)

\* What an answer or an observation says was so since the request was made.
AnswersAreFresh ==
    /\ srv \in was
    /\ route.pc = "settle" => route.obs \in was \/ (~modern /\ route.cmd.name = "publish")
    /\ worker.pc \in Acting \cup {"lock"} /\ worker.seq = row.seq => worker.obs \in was
    /\ modern /\ row.seen # "none" =>
         row.seen \in was \/ (row.kind = "composite" /\ row.seen = "shared")

\* A card at the revision a command expects is shared.
StillShared(c) == c.exp = rev => srv # "private"

\* A receipt of a publish says the card was shared at its revision.
SharedWhenPublished ==
    modern => \A q \in receipts : q.name = "publish" /\ q.rev = rev => srv # "private"

\* A composite starts from a card that was not shared, and its finalize is
\* pinned to the revision of its publish, at which the card is shared.
FinalsArePinned ==
    modern /\ row.kind = "composite" =>
      /\ row.base = "private"
      /\ route.pc # "idle" =>
           \/ route.cmd.name = "publish" /\ route.pc \in {"freeze", "send"}
           \/ route.cmd.name = "finalize" /\ route.pc \in {"read", "settle"}
           \/ /\ \/ route.cmd.name = "publish" /\ route.pc = "settle"
                 \/ route.cmd.name = "finalize" /\ route.pc \in {"freeze", "send"}
              /\ StillShared(route.cmd)
      /\ row.cmd.name = "finalize" => StillShared(row.cmd)

\* The finalizes of the row's composite that are still under way.
LateFinals == {c \in late : c.name = "finalize" /\ c.seq = row.seq /\ row.kind = "composite"}

\* While the route has the row nothing of its request is under way, and what
\* was refused to the person has left nothing under way; the cleanup comes once,
\* at the revision of the stored finalize.
StepsComeInTurn ==
    modern =>
      /\ route.pc # "idle" => row.cmd.name # "cleanup" /\ \A c \in late : c.seq # row.seq
      /\ row.denied => row.status = "rejected" /\ \A c \in late : c.seq # row.seq
      /\ worker.pc = "recheck" => row.cmd = NoCmd
      /\ worker.pc = "cleanup" =>
           row.cmd.name # "cleanup" /\ (row.cmd.name = "finalize" => worker.exp = row.cmd.exp)

\* While a finalize or a cleanup of the row is under way, the row stores it or
\* the cleanup at the same revision.
LateArePinned ==
    modern =>
      /\ \A c \in LateFinals :
           row.cmd.name \in {"finalize", "cleanup"} /\ row.cmd.exp = c.exp /\ StillShared(c)
      /\ \A c \in late : c.seq = row.seq /\ c.name = "cleanup" =>
           row.cmd.name = "cleanup" /\ row.cmd.exp = c.exp

\* A command that changes nothing any more.
Spent(c) == ReceiptsOf(c) # {} \/ c.exp # rev

\* What is left of a composite when its share was taken back, or when it is
\* given up without.
LateIsSpent ==
    modern =>
      /\ \A q \in receipts : q.seq = row.seq /\ q.name = "cleanup" =>
           row.cmd.name = "cleanup" /\ \A c \in LateFinals : Spent(c)
      /\ worker.pc = "apply" /\ row.cmd.name = "finalize" /\ worker.obs # "final" =>
           \A c \in LateFinals : Spent(c)
      /\ row.status = "rejected" /\ row.cmd.name # "cleanup" /\ row.seen # "final" =>
           \A c \in LateFinals : Spent(c)

ShareInv ==
    /\ ShareTypeOK /\ TurnsAreTaken /\ CommandsAreMade /\ RevisionsGrow /\ AnswersAreFresh
    /\ SharedWhenPublished /\ FinalsArePinned /\ StepsComeInTurn /\ LateArePinned /\ LateIsSpent

-----------------------------------------------------------------------------
(***************************************************************************)
(* The operators: what a call does, and what is answered.                  *)
(***************************************************************************)

\* What a command may do: s is the state it leaves, new whether it was done now.
Done(c, s, new) ==
    /\ s \in State /\ new \in BOOLEAN
    /\ new => ReceiptsOf(c) = {} /\ c.exp = rev /\ s \in Effect(c.name, srv)
    /\ ~new => s = srv

\* The server before and after a call of command c.
Moves(c) ==
    /\ modern' = modern /\ srv' \in State /\ was' = was \cup {srv'}
    /\ srv' = srv => rev' = rev /\ by' = by /\ top' = top
    /\ srv' # srv =>
         /\ ReceiptsOf(c) = {} /\ c.exp = rev /\ srv' \in Effect(c.name, srv)
         /\ rev' = (IF modern THEN rev + 1 ELSE rev) /\ by' = c.seq
         /\ top' = IF c.seq > top THEN c.seq ELSE top
    /\ receipts \subseteq receipts'
    /\ \A q \in receipts' \ receipts :
         /\ modern /\ q = [seq |-> c.seq, name |-> c.name, rev |-> rev']
         /\ ReceiptsOf(c) = {} /\ c.exp = rev /\ srv' \in Effect(c.name, srv)

\* A command leaves the card in one of its states.
LEMMA EffectIsState ==
    ASSUME NEW n \in Steps, NEW s \in State
    PROVE  Effect(n, s) \subseteq State
BY SMT DEF Steps, AllKinds, State, Effect

\* A finalize is the only step of a composite that makes a card final, and
\* publishing leaves it shared.
LEMMA EffectOfSteps ==
    ASSUME NEW s \in State
    PROVE  /\ Effect("finalize", s) = {"final"}
           /\ "private" \notin Effect("publish", s)
           /\ Effect("cleanup", s) \subseteq {"private"}
           /\ \A n \in Steps : s # "final" /\ "final" \in Effect(n, s) => n = "finalize"
BY SMT DEF State, Effect, Steps, AllKinds

\* Executing a command leaves a state of the card.
LEMMA ExecutedIsDone ==
    ASSUME srv \in State, NEW c, c.name \in Steps, NEW x \in Executed(c)
    PROVE  /\ Done(c, x.s, x.new) /\ x.res \in {"ok", "refused"}
           /\ x.res = "ok" => x.new \/ ReceiptsOf(c) # {}
           /\ x.res = "refused" => ~x.new
<1>1. Effect(c.name, srv) \subseteq State  BY EffectIsState
<1>2. CASE ReceiptsOf(c) # {}
  <2>1. x = [res |-> "ok", s |-> srv, new |-> FALSE]  BY <1>2 DEF Executed
  <2> QED  BY <2>1, <1>2 DEF Done
<1>3. CASE ReceiptsOf(c) = {} /\ (c.exp # rev \/ Effect(c.name, srv) = {})
  <2>1. x = [res |-> "refused", s |-> srv, new |-> FALSE]  BY <1>3 DEF Executed
  <2> QED  BY <2>1, <1>3 DEF Done
<1>4. CASE ReceiptsOf(c) = {} /\ c.exp = rev /\ Effect(c.name, srv) # {}
  <2>1. PICK s \in Effect(c.name, srv) : x = [res |-> "ok", s |-> s, new |-> TRUE]
    BY <1>4 DEF Executed
  <2> QED  BY <2>1, <1>4, <1>1 DEF Done
<1> QED  BY <1>2, <1>3, <1>4

\* What the caller gets, and what was done for it.
LEMMA RepliesAreDone ==
    ASSUME srv \in State, faults \in 0..MaxFaults, MaxFaults \in Nat,
           NEW c, c.name \in Steps, NEW a \in Replies(c)
    PROVE  /\ Done(c, a.s, a.new) /\ a.res \in {"ok", "refused", "auth", "unknown"}
           /\ a.later \in BOOLEAN /\ a.cost \in Nat /\ faults + a.cost \in 0..MaxFaults
           /\ a.res = "ok" => a.new \/ ReceiptsOf(c) # {}
           /\ a.res = "refused" => ~a.new
           /\ a.later => a.res = "unknown"
<1>1. ASSUME NEW x \in Executed(c), a = [res |-> x.res, s |-> x.s, new |-> x.new, later |-> FALSE, cost |-> 0]
      PROVE  /\ Done(c, a.s, a.new) /\ a.res \in {"ok", "refused", "auth", "unknown"}
             /\ a.later \in BOOLEAN /\ a.cost \in Nat /\ faults + a.cost \in 0..MaxFaults
             /\ a.res = "ok" => a.new \/ ReceiptsOf(c) # {}
             /\ a.res = "refused" => ~a.new
             /\ a.later => a.res = "unknown"
  <2>1. a.res = x.res /\ a.s = x.s /\ a.new = x.new /\ a.later = FALSE /\ a.cost = 0  BY <1>1
  <2>2. /\ Done(c, x.s, x.new) /\ x.res \in {"ok", "refused"}
        /\ x.res = "ok" => x.new \/ ReceiptsOf(c) # {}
        /\ x.res = "refused" => ~x.new
    BY <1>1, ExecutedIsDone
  <2>3. Done(c, a.s, a.new) /\ a.later \in BOOLEAN /\ ~a.later  BY <2>1, <2>2, Zenon
  <2>4. a.res = "refused" => ~a.new  BY <2>1, <2>2, Zenon
  <2>5. a.res = "ok" => a.new \/ ReceiptsOf(c) # {}  BY <2>1, <2>2, Zenon
  <2> QED  BY <2>1, <2>2, <2>3, <2>4, <2>5
<1>2. CASE faults # MaxFaults
  <2>1. CASE \E x \in Executed(c) : a = [res |-> "unknown", s |-> x.s, new |-> x.new, later |-> FALSE, cost |-> 1]
    <3>1. PICK x \in Executed(c) : a = [res |-> "unknown", s |-> x.s, new |-> x.new, later |-> FALSE, cost |-> 1]
      BY <2>1
    <3>2. a.res = "unknown" /\ a.s = x.s /\ a.new = x.new /\ a.later = FALSE /\ a.cost = 1  BY <3>1
    <3>3. Done(c, x.s, x.new)  BY <3>1, ExecutedIsDone
    <3>4. Done(c, a.s, a.new) /\ a.later \in BOOLEAN /\ ~a.later  BY <3>2, <3>3, Zenon
    <3> QED  BY <3>2, <3>4, <1>2
  <2>2. CASE \E r \in {"refused", "auth", "unknown"}, l \in BOOLEAN :
               /\ a = [res |-> r, s |-> srv, new |-> FALSE, later |-> l, cost |-> 1]
               /\ l => r = "unknown"
    <3>1. PICK r \in {"refused", "auth", "unknown"}, l \in BOOLEAN :
               /\ a = [res |-> r, s |-> srv, new |-> FALSE, later |-> l, cost |-> 1]
               /\ l => r = "unknown"
      BY <2>2
    <3>2. a.res = r /\ a.s = srv /\ a.new = FALSE /\ a.later = l /\ a.cost = 1  BY <3>1
    <3> QED  BY <3>2, <3>1, <1>2 DEF Done
  <2>3. \/ \E x \in Executed(c) : a = [res |-> x.res, s |-> x.s, new |-> x.new, later |-> FALSE, cost |-> 0]
        \/ \E x \in Executed(c) : a = [res |-> "unknown", s |-> x.s, new |-> x.new, later |-> FALSE, cost |-> 1]
        \/ \E r \in {"unknown"}, l \in BOOLEAN : a = [res |-> r, s |-> srv, new |-> FALSE, later |-> l, cost |-> 1]
        \/ \E r \in {"refused", "auth"} : a = [res |-> r, s |-> srv, new |-> FALSE, later |-> FALSE, cost |-> 1]
    BY <1>2 DEF Replies
  <2>4. CASE \E x \in Executed(c) : a = [res |-> x.res, s |-> x.s, new |-> x.new, later |-> FALSE, cost |-> 0]
    BY <2>4, <1>1
  <2>5. CASE \E r \in {"unknown"}, l \in BOOLEAN : a = [res |-> r, s |-> srv, new |-> FALSE, later |-> l, cost |-> 1]
    BY <2>5, <2>2
  <2>6. CASE \E r \in {"refused", "auth"} : a = [res |-> r, s |-> srv, new |-> FALSE, later |-> FALSE, cost |-> 1]
    BY <2>6, <2>2
  <2> QED  BY <2>1, <2>3, <2>4, <2>5, <2>6
<1> QED  BY <1>1, <1>2 DEF Replies

\* What a change of the server amounts to.
LEMMA ChangeMoves ==
    ASSUME ShareTypeOK, NEW c, NEW s, NEW new, Change(c, s, new), Done(c, s, new), modern' = modern
    PROVE  Moves(c) /\ srv' = s
           /\ (modern /\ new => \E q \in receipts' : q.seq = c.seq /\ q.name = c.name /\ q.rev = rev')
<1>1. srv' = s /\ rev' = RevisionAfter(s)  BY DEF Change
<1>2. receipts' = receipts \cup
         {q \in {[seq |-> c.seq, name |-> c.name, rev |-> rev']} : modern /\ new}
  BY DEF Change
<1>3. srv' = srv => rev' = rev /\ by' = by /\ top' = top  BY DEF Change, RevisionAfter
<1>4. srv' # srv => new  BY <1>1 DEF Done
<1>5. srv' # srv => rev' = (IF modern THEN rev + 1 ELSE rev) /\ by' = c.seq
                    /\ top' = (IF c.seq > top THEN c.seq ELSE top)
  BY <1>1 DEF Change, RevisionAfter
<1>6. \A q \in receipts' \ receipts : modern /\ new /\ q = [seq |-> c.seq, name |-> c.name, rev |-> rev']
  BY <1>2
<1>7. modern /\ new => \E q \in receipts' : q.seq = c.seq /\ q.name = c.name /\ q.rev = rev'
  <2>1. modern /\ new => [seq |-> c.seq, name |-> c.name, rev |-> rev'] \in receipts'  BY <1>2
  <2> QED  BY <2>1
<1>8. was' = was \cup {srv'} /\ receipts \subseteq receipts'  BY <1>1, <1>2 DEF Change
<1> QED  BY <1>1, <1>3, <1>4, <1>5, <1>6, <1>7, <1>8 DEF Moves, Done


-----------------------------------------------------------------------------
(***************************************************************************)
(* The type invariant.                                                     *)
(***************************************************************************)

Rows == [seq : 0..MaxSeq, kind : AllKinds \cup {"composite"}, base : State,
         status : Open \cup Closed, token : {"none", "route", "worker", "gone"},
         lease : BOOLEAN, cmd : Cmds, seen : State \cup {"none"}, partial : BOOLEAN,
         unknown : BOOLEAN, aged : BOOLEAN, expired : BOOLEAN, denied : BOOLEAN]

Routes == [pc : {"idle", "freeze", "send", "read", "settle"}, cmd : Cmds, obs : State]

Turns == [pc : {"idle", "observe", "lock", "act", "recheck", "cleanup", "apply"},
          seq : 0..MaxSeq, obs : State, st : Open \cup Closed, exp : Nat]

\* x is the row of the same request as r.
SameRequest(x, r) ==
    x \in Rows /\ x.seq = r.seq /\ x.kind = r.kind /\ x.base = r.base /\ x.cmd = r.cmd

\* The row after one of the updates of the ledger.
LEMMA RowIsReleased ==
    ASSUME NEW r \in Rows
    PROVE  /\ SameRequest(Released(r), r) /\ Released(r).status = r.status
           /\ Released(r).seen = r.seen /\ Released(r).denied = r.denied
<1> DEFINE x == [r EXCEPT !.token = "none", !.lease = FALSE]
<1>1. /\ x \in Rows /\ x.seq = r.seq /\ x.kind = r.kind /\ x.base = r.base /\ x.cmd = r.cmd
      /\ x.status = r.status /\ x.seen = r.seen /\ x.denied = r.denied
  BY DEF Rows
<1>2. Released(r) = x  BY DEF Released
<1> HIDE DEF x
<1> QED  BY <1>1, <1>2 DEF SameRequest

LEMMA RowIsSettled ==
    ASSUME NEW r \in Rows, NEW st \in Open \cup Closed
    PROVE  /\ SameRequest(Settled(r, st), r) /\ Settled(r, st).status = st
           /\ Settled(r, st).seen = r.seen /\ Settled(r, st).denied = r.denied
<1> DEFINE y == Released(r)
           x == [y EXCEPT !.status = st]
<1>1. /\ SameRequest(y, r) /\ y.seen = r.seen /\ y.denied = r.denied  BY RowIsReleased
<1>2. Settled(r, st) = x  BY DEF Settled
<1> HIDE DEF y
<1>3. /\ x \in Rows /\ x.seq = r.seq /\ x.kind = r.kind /\ x.base = r.base /\ x.cmd = r.cmd
      /\ x.status = st /\ x.seen = r.seen /\ x.denied = r.denied
  BY <1>1 DEF Rows, SameRequest
<1> HIDE DEF x
<1> QED  BY <1>2, <1>3 DEF SameRequest

LEMMA RowIsSeen ==
    ASSUME NEW r \in Rows, NEW s \in State
    PROVE  /\ SameRequest(Seen(r, s), r) /\ Seen(r, s).status = r.status
           /\ Seen(r, s).seen = s /\ Seen(r, s).denied = r.denied /\ Seen(r, s).token = r.token
<1> DEFINE x == [r EXCEPT !.seen = s, !.partial = FALSE, !.unknown = FALSE, !.aged = FALSE]
<1>1. /\ x \in Rows /\ x.seq = r.seq /\ x.kind = r.kind /\ x.base = r.base /\ x.cmd = r.cmd
      /\ x.status = r.status /\ x.seen = s /\ x.denied = r.denied /\ x.token = r.token
  BY DEF Rows
<1>2. Seen(r, s) = x  BY DEF Seen
<1> HIDE DEF x
<1> QED  BY <1>1, <1>2 DEF SameRequest

LEMMA RowIsMarked ==
    ASSUME NEW r \in Rows, NEW b \in BOOLEAN
    PROVE  /\ LET x == [r EXCEPT !.partial = b] IN
                SameRequest(x, r) /\ x.status = r.status /\ x.seen = r.seen /\ x.denied = r.denied
                /\ x.token = r.token
           /\ LET x == [r EXCEPT !.unknown = b] IN
                SameRequest(x, r) /\ x.status = r.status /\ x.seen = r.seen /\ x.denied = r.denied
           /\ LET x == [r EXCEPT !.denied = b] IN
                SameRequest(x, r) /\ x.status = r.status /\ x.seen = r.seen /\ x.denied = b
           /\ LET x == [r EXCEPT !.lease = b] IN
                SameRequest(x, r) /\ x.status = r.status /\ x.seen = r.seen /\ x.denied = r.denied
                /\ x.token = r.token
BY DEF SameRequest, Rows

LEMMA RowWaitsForLogin ==
    ASSUME NEW r \in Rows
    PROVE  /\ SameRequest(AuthRequired(r), r) /\ AuthRequired(r).status = "auth_required"
           /\ AuthRequired(r).seen = r.seen /\ AuthRequired(r).denied = r.denied
<1> DEFINE y == Settled(r, "auth_required")
           u == ResultUnknown(r)
<1>1. "auth_required" \in Open \cup Closed  BY DEF Open
<1>2. SameRequest(y, r) /\ y.status = "auth_required" /\ y.seen = r.seen /\ y.denied = r.denied
  BY <1>1, RowIsSettled
<1>3. u \in BOOLEAN  BY DEF ResultUnknown, Rows
<1>4. AuthRequired(r) = [y EXCEPT !.unknown = u]  BY DEF AuthRequired
<1> HIDE DEF y, u
<1>5. y \in Rows  BY <1>2 DEF SameRequest
<1>6. /\ SameRequest([y EXCEPT !.unknown = u], y)
      /\ [y EXCEPT !.unknown = u].status = y.status
      /\ [y EXCEPT !.unknown = u].seen = y.seen /\ [y EXCEPT !.unknown = u].denied = y.denied
  BY <1>3, <1>5 DEF SameRequest, Rows
<1> QED  BY <1>2, <1>4, <1>6 DEF SameRequest

LEMMA ConstantsAreTyped ==
    /\ NoCmd \in Cmds /\ NoRoute \in Routes /\ NoWorker \in Turns /\ NoRow \in Rows
    /\ AllKinds \subseteq Steps /\ Steps \subseteq Steps \cup {"none"}
BY ShareAssumption, SMT
   DEF NoCmd, Cmds, NoRoute, Routes, NoWorker, Turns, NoRow, Rows, Steps, State, Open, Closed, AllKinds

LEMMA ShareTypeInit == Init => ShareTypeOK /\ TurnsAreTaken /\ CommandsAreMade
<1> SUFFICES ASSUME Init PROVE ShareTypeOK /\ TurnsAreTaken /\ CommandsAreMade  OBVIOUS
<1>1. row \in Rows /\ route \in Routes /\ worker \in Turns  BY ConstantsAreTyped DEF Init
<1>2. ShareTypeOK
  BY <1>1, ShareAssumption DEF Init, ShareTypeOK, Rows, Routes, Turns, State
<1>3. TurnsAreTaken
  BY DEF Init, TurnsAreTaken, NoRow, NoRoute, NoWorker, Acting, Open
<1>4. CommandsAreMade
  BY DEF Init, CommandsAreMade, NoRow, NoRoute
<1> QED  BY <1>2, <1>3, <1>4

\* A call of a command of a request that was made keeps the server's types,
\* and adds nothing but that command and its receipt.
LEMMA MovesAreTyped ==
    ASSUME ShareTypeOK, NEW c \in Cmds, Moves(c), c.seq \in 1..MaxSeq, c.name \in Steps
    PROVE  /\ modern' \in BOOLEAN /\ srv' \in State /\ rev' \in Nat
           /\ receipts' \subseteq [seq : 1..MaxSeq, name : Steps, rev : Nat]
           /\ was' \subseteq State /\ by' \in 0..MaxSeq /\ top' \in 0..MaxSeq
           /\ top' = top \/ top' = c.seq
           /\ \A q \in receipts' : q \in receipts \/ (q.seq = c.seq /\ q.name = c.name /\ q.rev = rev')
<1>1. rev' \in Nat  BY DEF Moves, ShareTypeOK
<1>2. \A q \in receipts' : q \in receipts \/ q = [seq |-> c.seq, name |-> c.name, rev |-> rev']
  BY DEF Moves
<1>3. receipts' \subseteq [seq : 1..MaxSeq, name : Steps, rev : Nat]  BY <1>1, <1>2 DEF ShareTypeOK
<1>4. modern' \in BOOLEAN /\ srv' \in State /\ was' \subseteq State  BY DEF Moves, ShareTypeOK
<1>5. by' \in 0..MaxSeq /\ top' \in 0..MaxSeq /\ (top' = top \/ top' = c.seq)
  BY DEF Moves, ShareTypeOK
<1> QED  BY <1>1, <1>2, <1>3, <1>4, <1>5

\* The revision a completed command's receipt carries.
LEMMA ReceiptRevisionIsNat ==
    ASSUME ShareTypeOK, NEW c, NEW a
    PROVE  ReceiptRevision(c, a) \in Nat
<1>1. RevisionAfter(a.s) \in Nat  BY DEF RevisionAfter, ShareTypeOK
<1>2. ASSUME ReceiptsOf(c) # {} PROVE (CHOOSE q \in ReceiptsOf(c) : TRUE).rev \in Nat
  <2>1. (CHOOSE q \in ReceiptsOf(c) : TRUE) \in ReceiptsOf(c)  BY <1>2
  <2> QED  BY <2>1 DEF ReceiptsOf, ShareTypeOK
<1> QED  BY <1>1, <1>2 DEF ReceiptRevision


Shape == ShareTypeOK /\ TurnsAreTaken /\ CommandsAreMade

\* The types of what is not the server.
Typed ==
    /\ row \in Rows /\ route \in Routes /\ worker \in Turns /\ local \in State
    /\ lock \in {"free", "route", "worker"} /\ faults \in 0..MaxFaults /\ others \in 0..MaxOthers

LEMMA ShapeIsTyped == ShareTypeOK => Typed
BY DEF ShareTypeOK, Typed, Rows, Routes, Turns

\* A step that leaves the server alone.
LEMMA TypesAtRest ==
    ASSUME ShareTypeOK, UNCHANGED <<modern, server>>, Typed'
    PROVE  ShareTypeOK'
BY DEF ShareTypeOK, server, Typed, Rows, Routes, Turns

LEMMA PrepareShape == ASSUME Shape, NEW k \in Kinds, Prepare(k) PROVE Shape'
<1> DEFINE composite == k = "finalize" /\ local = "private"
           kind == IF composite THEN "composite" ELSE k
           c == [seq |-> row.seq + 1, exp |-> 0, name |-> IF composite THEN "publish" ELSE k]
<1>1. row \in Rows /\ route \in Routes /\ row.seq < MaxSeq /\ k \in AllKinds /\ local \in State
  BY ShapeIsTyped, ShareAssumption DEF Shape, Prepare, Typed
<1>2. row.seq \in Nat /\ row.seq + 1 \in 1..MaxSeq  BY <1>1, ShareAssumption DEF Rows
<1>3. c \in Cmds /\ kind \in AllKinds \cup {"composite"} /\ c.name \in AllKinds
      /\ c.seq = row.seq + 1
  BY <1>1, <1>2, ConstantsAreTyped DEF Cmds, AllKinds
<1>4. row' = [NoRow EXCEPT !.seq = row.seq + 1, !.base = local, !.status = "prepared",
                           !.kind = kind, !.token = "route", !.lease = TRUE]
      /\ route' = [NoRoute EXCEPT !.pc = "freeze", !.cmd = c]
  BY DEF Prepare
<1> HIDE DEF c, kind
<1>5. row' \in Rows /\ row'.seq = row.seq + 1 /\ row'.status = "prepared" /\ row'.cmd = NoCmd
      /\ row'.token = "route"
  <2>1. NoRow \in Rows /\ NoRow.cmd = NoCmd  BY ConstantsAreTyped DEF NoRow
  <2>2. row.seq + 1 \in 0..MaxSeq  BY <1>2
  <2> QED  BY <1>1, <1>3, <1>4, <2>1, <2>2 DEF Rows, Open
<1>6. route' \in Routes /\ route'.pc = "freeze" /\ route'.cmd = c
  BY <1>3, <1>4, ConstantsAreTyped DEF Routes, NoRoute
<1>7. Typed'  BY <1>5, <1>6, ShapeIsTyped DEF Shape, Typed, Prepare
<1>8. ShareTypeOK'
  BY <1>7 DEF Shape, ShareTypeOK, Prepare, Typed, Rows, Routes, Turns
<1>9. TurnsAreTaken'
  <2>1. lock = "free" /\ lock' = "route" /\ worker' = worker  BY DEF Prepare
  <2>2. worker.seq \in Nat /\ worker.seq <= row.seq /\ worker.pc \notin Acting
    BY <2>1, ShapeIsTyped, ShareAssumption DEF Shape, TurnsAreTaken, Typed, Turns
  <2> QED  BY <1>2, <1>3, <1>5, <1>6, <2>1, <2>2 DEF TurnsAreTaken, Open
<1>10. CommandsAreMade'
  <2>1. UNCHANGED <<receipts, late, top, modern>>  BY DEF Prepare
  <2> QED  BY <1>2, <1>5, <1>6, <2>1 DEF Shape, CommandsAreMade, ShareTypeOK
<1> QED  BY <1>8, <1>9, <1>10 DEF Shape

\* The route's turn ends.
LEMMA RouteEndsItsTurn ==
    ASSUME Shape, route.pc # "idle", NEW r, r.seq = row.seq,
           row' = IF RouteOwns THEN r ELSE row, RouteEnds, worker' = worker
    PROVE  TurnsAreTaken'
<1>1. route'.pc = "idle" /\ lock' = "free"  BY DEF RouteEnds, NoRoute
<1>2. row'.seq = row.seq /\ row.seq > 0 /\ lock = "route" /\ worker.pc \notin Acting
      /\ route.cmd.seq = row.seq
  BY DEF Shape, TurnsAreTaken
<1>3. CASE RouteOwns
  <2>1. row.token # "worker"  BY <1>3 DEF RouteOwns, Owns
  <2> QED  BY <1>1, <1>2, <2>1 DEF Shape, TurnsAreTaken
<1>4. CASE ~RouteOwns
  <2>1. row' = row  BY <1>4
  <2> QED  BY <1>1, <1>2, <2>1 DEF Shape, TurnsAreTaken
<1> QED  BY <1>3, <1>4

\* The route's turn goes on.
LEMMA RouteGoesOn ==
    ASSUME Shape, route.pc # "idle", route'.pc # "idle",
           row'.seq = row.seq, row'.status = row.status, row'.token = row.token,
           route'.cmd.seq = route.cmd.seq, route'.cmd.name \in AllKinds,
           lock' = lock, worker' = worker
    PROVE  TurnsAreTaken'
BY DEF Shape, TurnsAreTaken

\* The worker's turn ends.
LEMMA WorkerEndsItsTurn ==
    ASSUME Shape, worker.pc # "idle", NEW r, r.seq = row.seq,
           r.status \in Open \/ worker.pc \in Acting, WorkerEnds(r), route' = route
    PROVE  TurnsAreTaken'
<1>1. worker'.pc = "idle" /\ worker'.seq = 0  BY DEF WorkerEnds, NoWorker
<1>2. lock' = IF lock = "worker" THEN "free" ELSE lock  BY DEF WorkerEnds
<1>3. row \in Rows  BY ShapeIsTyped DEF Shape, Typed
<1>4. row.seq \in Nat  BY <1>3, ShareAssumption DEF Rows
<1>5. row'.seq = row.seq  BY DEF WorkerEnds
<1>6. row' = row \/ (WorkerOwns /\ row' = r)  BY DEF WorkerEnds
<1>7. CASE row' = row  BY <1>1, <1>2, <1>4, <1>7 DEF Shape, TurnsAreTaken, Acting
<1>8. CASE WorkerOwns /\ row' = r
  <2>1. row.status \in Open /\ row.seq > 0 /\ worker.seq = row.seq
    BY <1>8 DEF WorkerOwns, Owns, Shape, TurnsAreTaken
  <2> QED  BY <1>1, <1>2, <1>4, <1>5, <1>8, <2>1 DEF Shape, TurnsAreTaken, Acting
<1> QED  BY <1>6, <1>7, <1>8

\* The worker's turn goes on, under the lock.
LEMMA WorkerGoesOn ==
    ASSUME Shape, worker.pc \in Acting, worker'.pc \in Acting, worker'.seq = worker.seq,
           row'.seq = row.seq, row'.token = row.token, row'.status \in Open,
           lock' = lock, route' = route
    PROVE  TurnsAreTaken'
<1>1. worker.pc # "idle"  BY DEF Acting
<1> QED  BY <1>1 DEF Shape, TurnsAreTaken

\* A step that leaves the server and the stored command alone.
LEMMA CommandsAtRest ==
    ASSUME Shape, UNCHANGED <<modern, server>>, row'.seq = row.seq, row'.cmd = row.cmd,
           route'.pc = "send" => route' = route
    PROVE  CommandsAreMade'
BY DEF Shape, CommandsAreMade, server

\* A call of the row's command, or of the one about to be stored.
LEMMA CommandsMove ==
    ASSUME Shape, NEW c \in Cmds, Moves(c), c.seq \in 1..row.seq, c.name \in Steps,
           late' \subseteq late \cup {c}, row'.seq = row.seq,
           row'.cmd # NoCmd => modern /\ row'.cmd.seq = row.seq /\ row'.cmd.name \in Steps,
           modern /\ route'.pc = "send" => row'.cmd = route'.cmd
    PROVE  CommandsAreMade' /\ late' \subseteq Cmds
<1>1. row.seq \in 0..MaxSeq /\ MaxSeq \in Nat
  BY ShapeIsTyped, ShareAssumption DEF Shape, Typed, Rows
<1>2. c.seq \in 1..MaxSeq  BY <1>1
<1>3. /\ top' = top \/ top' = c.seq
      /\ \A q \in receipts' : q \in receipts \/ (q.seq = c.seq /\ q.name = c.name /\ q.rev = rev')
  BY <1>2, MovesAreTyped DEF Shape
<1>4. modern' = modern  BY DEF Moves
<1>5. top' <= row'.seq  BY <1>1, <1>3 DEF Shape, CommandsAreMade
<1>6. \A q \in receipts' : q.seq <= row'.seq  BY <1>1, <1>3 DEF Shape, CommandsAreMade
<1>7. \A d \in late' : d.seq \in 1..row'.seq /\ d.name \in Steps
  BY DEF Shape, CommandsAreMade
<1>8. late' \subseteq Cmds  BY DEF Shape, ShareTypeOK
<1> QED  BY <1>4, <1>5, <1>6, <1>7, <1>8 DEF CommandsAreMade

\* The types after a call.
LEMMA TypesMove ==
    ASSUME ShareTypeOK, NEW c \in Cmds, Moves(c), c.seq \in 1..MaxSeq, c.name \in Steps,
           late' \subseteq Cmds, Typed'
    PROVE  ShareTypeOK'
<1>1. /\ modern' \in BOOLEAN /\ srv' \in State /\ rev' \in Nat
      /\ receipts' \subseteq [seq : 1..MaxSeq, name : Steps, rev : Nat]
      /\ was' \subseteq State /\ by' \in 0..MaxSeq /\ top' \in 0..MaxSeq
  BY MovesAreTyped
<1> QED  BY <1>1 DEF ShareTypeOK, Typed, Rows, Routes, Turns

LEMMA RouteFreezesShape == ASSUME Shape, RouteFreezes PROVE Shape'
<1> DEFINE c == [route.cmd EXCEPT !.exp = IF Pinned THEN @ ELSE rev]
<1>1. row \in Rows /\ route \in Routes /\ worker \in Turns /\ rev \in Nat /\ route.pc = "freeze"
  BY ShapeIsTyped DEF Shape, Typed, ShareTypeOK, RouteFreezes
<1>2. c \in Cmds /\ c.seq = route.cmd.seq /\ c.name = route.cmd.name
  BY <1>1, ShareAssumption DEF Routes, Cmds
<1>3. SameRequest(Released(row), row) /\ NoRoute \in Routes  BY <1>1, RowIsReleased, ConstantsAreTyped
<1>4. UNCHANGED <<modern, server, local, worker, others>>  BY DEF RouteFreezes
<1>5. CASE /\ modern => RouteOwns
           /\ row' = IF modern THEN [row EXCEPT !.cmd = c] ELSE row
           /\ route' = [route EXCEPT !.pc = "send", !.cmd = c]
           /\ UNCHANGED <<lock, faults>>
  <2> HIDE DEF c
  <2>1. /\ row' \in Rows /\ row'.seq = row.seq /\ row'.status = row.status /\ row'.token = row.token
        /\ row'.cmd = IF modern THEN c ELSE row.cmd
    BY <1>1, <1>2, <1>5 DEF Rows
  <2>2. route' \in Routes /\ route'.pc = "send" /\ route'.cmd = c  BY <1>1, <1>2, <1>5 DEF Routes
  <2>3. Typed'  BY <2>1, <2>2, <1>4, <1>5, ShapeIsTyped DEF Shape, Typed
  <2>4. route.cmd.name \in AllKinds  BY <1>1 DEF Shape, TurnsAreTaken
  <2>5. TurnsAreTaken'
    BY <1>1, <1>2, <1>4, <1>5, <2>1, <2>2, <2>4, RouteGoesOn
  <2>6. CommandsAreMade'
    BY <1>1, <1>2, <1>4, <1>5, <2>1, <2>2, ConstantsAreTyped
       DEF Shape, TurnsAreTaken, CommandsAreMade, server
  <2> QED  BY <2>3, <2>5, <2>6, <1>4, TypesAtRest DEF Shape
<1>6. CASE row' = (IF RouteOwns THEN Released(row) ELSE row) /\ RouteEnds /\ faults' \in 0..MaxFaults
  <2>1. Released(row) \in Rows /\ Released(row).seq = row.seq /\ Released(row).cmd = row.cmd
    BY <1>3 DEF SameRequest
  <2>2. row' \in Rows /\ row'.seq = row.seq /\ row'.cmd = row.cmd  BY <1>1, <1>3, <1>6, <2>1
  <2>3. route' \in Routes /\ lock' = "free" /\ route'.pc = "idle"
    BY <1>3, <1>6 DEF RouteEnds, NoRoute
  <2>4. Typed'  BY <1>4, <1>6, <2>2, <2>3, ShapeIsTyped DEF Shape, Typed
  <2>5. TurnsAreTaken'  BY <1>1, <1>4, <1>6, <2>1, RouteEndsItsTurn
  <2>6. CommandsAreMade'  BY <1>4, <2>2, <2>3, CommandsAtRest
  <2> QED  BY <2>4, <2>5, <2>6, <1>4, TypesAtRest DEF Shape
<1>7. faults \in 0..MaxFaults /\ MaxFaults \in Nat
  BY ShapeIsTyped, ShareAssumption DEF Shape, Typed
<1>8. CASE modern /\ ~RouteOwns /\ RouteEnds /\ UNCHANGED <<row, faults>>
  BY <1>6, <1>7, <1>8
<1>9. CASE /\ faults < MaxFaults /\ faults' = faults + 1
           /\ row' = IF RouteOwns THEN Released(row) ELSE row
           /\ RouteEnds
  BY <1>6, <1>7, <1>9
<1> QED  BY <1>5, <1>8, <1>9 DEF RouteFreezes


\* The row after an answer that is not a success.
LEMMA RouteFailsShape ==
    ASSUME row \in Rows, NEW res \in {"refused", "auth", "unknown"}
    PROVE  /\ SameRequest(RouteFails(res), row)
           /\ RouteFails(res).status # "rejected" => RouteFails(res).denied = row.denied
           /\ RouteFails(res).status \in Open \cup {"rejected"} \/ RouteFails(res).status = row.status
           /\ RouteFails(res).seen = row.seen \/ (Pinned /\ RouteFails(res).seen = "shared")
           /\ RouteFails(res).status = "rejected" => res = "refused" \/ row.status = "rejected"
<1> DEFINE s == Seen(row, "shared")
           p == Settled(s, "pending")
           q == [p EXCEPT !.partial = TRUE]
           d == Settled(row, "rejected")
           e == [d EXCEPT !.denied = TRUE]
           u == Settled(row, "auth_required")
           v == Released(row)
<1>1. {"pending", "rejected", "auth_required"} \subseteq Open \cup Closed
      /\ "pending" \in Open /\ "auth_required" \in Open /\ "shared" \in State
      /\ "rejected" \notin Open
  BY DEF Open, Closed, State
<1>2. SameRequest(s, row) /\ s.seen = "shared" /\ s.denied = row.denied  BY <1>1, RowIsSeen
<1>3. SameRequest(d, row) /\ d.status = "rejected" /\ d.seen = row.seen  BY <1>1, RowIsSettled
<1>4. SameRequest(u, row) /\ u.status = "auth_required" /\ u.seen = row.seen /\ u.denied = row.denied
  BY <1>1, RowIsSettled
<1>5. SameRequest(v, row) /\ v.status = row.status /\ v.seen = row.seen /\ v.denied = row.denied
  BY RowIsReleased
<1>6. RouteFails(res) = CASE res = "refused" -> (IF Pinned THEN q ELSE e)
                          [] res = "auth" -> u [] res = "unknown" -> v
  BY DEF RouteFails, RouteRefused
<1> HIDE DEF s, d, u, v
<1>7. SameRequest(p, s) /\ p.status = "pending" /\ p.seen = s.seen /\ p.denied = s.denied
  BY <1>1, <1>2, RowIsSettled DEF SameRequest
<1>8. SameRequest(e, d) /\ e.status = d.status /\ e.seen = d.seen
  BY <1>3, RowIsMarked DEF SameRequest
<1> HIDE DEF p, e
<1>9. SameRequest(q, p) /\ q.status = p.status /\ q.seen = p.seen /\ q.denied = p.denied
  BY <1>7, RowIsMarked DEF SameRequest
<1> HIDE DEF q
<1>10. SameRequest(q, row) /\ SameRequest(e, row)
  BY <1>2, <1>3, <1>7, <1>8, <1>9 DEF SameRequest
<1>11. CASE res = "refused" /\ Pinned
  <2>1. RouteFails(res) = q  BY <1>6, <1>11
  <2> QED  BY <2>1, <1>1, <1>2, <1>7, <1>9, <1>10, <1>11
<1>12. CASE res = "refused" /\ ~Pinned
  <2>1. RouteFails(res) = e  BY <1>6, <1>12
  <2> QED  BY <2>1, <1>1, <1>3, <1>8, <1>10, <1>12
<1>13. CASE res = "auth"
  <2>1. RouteFails(res) = u  BY <1>6, <1>13
  <2> QED  BY <2>1, <1>1, <1>4
<1>14. CASE res = "unknown"
  <2>1. RouteFails(res) = v  BY <1>6, <1>14
  <2> QED  BY <2>1, <1>1, <1>5
<1> QED  BY <1>11, <1>12, <1>13, <1>14

\* The command the route is about to send is one of a request that was made.
LEMMA RouteCommand ==
    ASSUME Shape, route.pc # "idle"
    PROVE  /\ route.cmd \in Cmds /\ route.cmd.seq = row.seq /\ row.seq \in 1..MaxSeq
           /\ route.cmd.name \in Steps /\ route.cmd.seq \in 1..row.seq
BY ShapeIsTyped, ShareAssumption, ConstantsAreTyped
   DEF Shape, Typed, Routes, Rows, TurnsAreTaken

\* A call, and its answer.
LEMMA CallMoves ==
    ASSUME Shape, NEW c \in Cmds, c.name \in Steps, NEW a \in Replies(c), Called(c, a),
           modern' = modern
    PROVE  /\ Moves(c) /\ srv' = a.s /\ Done(c, a.s, a.new)
           /\ late' = late \cup {x \in {c} : a.later} /\ late' \subseteq late \cup {c}
           /\ a.res \in {"ok", "refused", "auth", "unknown"} /\ a.s \in State
           /\ a.later => a.res = "unknown"
           /\ a.res = "refused" => srv' = srv /\ receipts' = receipts /\ late' = late
           /\ a.res = "ok" => late' = late
           /\ modern /\ a.res = "ok" => ReceiptsOf(c)' # {}
           /\ faults' \in 0..MaxFaults
<1>1. srv \in State /\ faults \in 0..MaxFaults /\ MaxFaults \in Nat
  BY ShareAssumption DEF Shape, ShareTypeOK
<1>2. /\ Done(c, a.s, a.new) /\ a.res \in {"ok", "refused", "auth", "unknown"}
      /\ a.later \in BOOLEAN /\ a.cost \in Nat /\ faults + a.cost \in 0..MaxFaults
      /\ a.res = "ok" => a.new \/ ReceiptsOf(c) # {}
      /\ a.res = "refused" => ~a.new
      /\ a.later => a.res = "unknown"
  BY <1>1, RepliesAreDone
<1>3. Change(c, a.s, a.new) /\ late' = late \cup {x \in {c} : a.later} /\ faults' = faults + a.cost
  BY DEF Called
<1>4. /\ Moves(c) /\ srv' = a.s
      /\ (modern /\ a.new => \E q \in receipts' : q.seq = c.seq /\ q.name = c.name /\ q.rev = rev')
  BY <1>2, <1>3, ChangeMoves DEF Shape
<1>5. a.res = "refused" => srv' = srv /\ receipts' = receipts
  BY <1>2, <1>3, <1>4 DEF Done, Change
<1>6. a.res \in {"ok", "refused"} => late' = late  BY <1>2, <1>3
<1>7. modern /\ a.res = "ok" => ReceiptsOf(c)' # {}
  <2> SUFFICES ASSUME modern, a.res = "ok" PROVE \E q \in receipts' : q.seq = c.seq /\ q.name = c.name
    BY DEF ReceiptsOf
  <2>1. CASE a.new  BY <2>1, <1>4
  <2>2. CASE ReceiptsOf(c) # {}  BY <2>2, <1>4 DEF ReceiptsOf, Moves
  <2> QED  BY <2>1, <2>2, <1>2
<1> QED  BY <1>2, <1>3, <1>4, <1>5, <1>6, <1>7 DEF Done

LEMMA RouteSendsShape == ASSUME Shape, RouteSends PROVE Shape'
<1> DEFINE c == route.cmd
<1>1. row \in Rows /\ route \in Routes /\ route.pc = "send" /\ modern' = modern
      /\ UNCHANGED <<local, worker, others>>
  BY ShapeIsTyped DEF Shape, Typed, RouteSends
<1>2. /\ c \in Cmds /\ c.seq = row.seq /\ row.seq \in 1..MaxSeq
      /\ c.name \in Steps /\ c.seq \in 1..row.seq
  BY <1>1, RouteCommand
<1> HIDE DEF c
<1>3. PICK a \in Replies(c) :
        /\ Called(c, a)
        /\ IF a.res = "ok"
           THEN /\ route' = [route EXCEPT
                      !.pc = IF modern /\ route.cmd.name # "publish" THEN "read" ELSE "settle",
                      !.cmd.exp = ReceiptRevision(c, a),
                      !.obs = IF ~modern /\ route.cmd.name = "publish" THEN Assumed ELSE a.s]
                /\ UNCHANGED <<row, lock>>
           ELSE /\ row' = IF RouteOwns THEN RouteFails(a.res) ELSE row
                /\ RouteEnds
  BY DEF RouteSends, c
<1>4. /\ Moves(c) /\ Done(c, a.s, a.new) /\ late' \subseteq late \cup {c}
      /\ a.res \in {"ok", "refused", "auth", "unknown"} /\ a.s \in State
      /\ faults' \in 0..MaxFaults
  BY <1>1, <1>2, <1>3, CallMoves
<1>5. /\ row' \in Rows /\ row'.seq = row.seq /\ row'.cmd = row.cmd /\ TurnsAreTaken'
      /\ route' \in Routes /\ route'.pc # "send" /\ lock' \in {"free", "route", "worker"}
  <2>1. CASE a.res = "ok"
    <3>1. ReceiptRevision(c, a) \in Nat  BY <1>4, ReceiptRevisionIsNat DEF Shape
    <3>2. Assumed \in State  BY <1>1 DEF Assumed, Rows, State
    <3>3. /\ route' \in Routes /\ route'.pc \in {"read", "settle"}
          /\ route'.cmd.seq = route.cmd.seq /\ route'.cmd.name = route.cmd.name
      <4> DEFINE n == ReceiptRevision(c, a)
                 pc == IF modern /\ route.cmd.name # "publish" THEN "read" ELSE "settle"
                 obs == IF ~modern /\ route.cmd.name = "publish" THEN Assumed ELSE a.s
      <4>1. route' = [route EXCEPT !.pc = pc, !.cmd.exp = n, !.obs = obs]  BY <1>3, <2>1
      <4>2. n \in Nat /\ pc \in {"read", "settle"} /\ obs \in State  BY <1>4, <3>1, <3>2
      <4> HIDE DEF n, pc, obs
      <4> QED  BY <1>1, <4>1, <4>2 DEF Routes, Cmds
    <3>4. route.cmd.name \in AllKinds  BY <1>1 DEF Shape, TurnsAreTaken
    <3>5. TurnsAreTaken'  BY <1>1, <1>3, <2>1, <3>3, <3>4, RouteGoesOn
    <3> QED  BY <1>1, <1>3, <2>1, <3>3, <3>5, ShapeIsTyped DEF Shape, Typed
  <2>2. CASE a.res # "ok"
    <3>1. /\ RouteFails(a.res) \in Rows /\ RouteFails(a.res).seq = row.seq
          /\ RouteFails(a.res).cmd = row.cmd
      BY <1>1, <1>4, <2>2, RouteFailsShape DEF SameRequest
    <3>2. TurnsAreTaken'  BY <1>1, <1>3, <2>2, <3>1, RouteEndsItsTurn
    <3>3. route' = NoRoute /\ lock' = "free"  BY <1>3, <2>2 DEF RouteEnds
    <3>4. NoRoute \in Routes /\ NoRoute.pc = "idle"  BY ConstantsAreTyped DEF NoRoute
    <3> QED  BY <1>1, <1>3, <2>2, <3>1, <3>2, <3>3, <3>4
  <2> QED  BY <2>1, <2>2
<1>6. row.cmd # NoCmd => modern /\ row.cmd.seq = row.seq /\ row.cmd.name \in Steps
  BY DEF Shape, CommandsAreMade
<1>7. CommandsAreMade' /\ late' \subseteq Cmds  BY <1>2, <1>4, <1>5, <1>6, CommandsMove
<1>8. Typed'  BY <1>1, <1>4, <1>5, ShapeIsTyped DEF Shape, Typed
<1>9. c.seq \in 1..MaxSeq  BY <1>2
<1>10. ShareTypeOK'  BY <1>2, <1>4, <1>7, <1>8, <1>9, TypesMove DEF Shape
<1> QED  BY <1>5, <1>7, <1>10 DEF Shape

\* A step that leaves the server and the stored command alone.
LEMMA ShapeAtRest ==
    ASSUME Shape, UNCHANGED <<modern, server>>, Typed', TurnsAreTaken',
           row'.seq = row.seq, row'.cmd = row.cmd, route'.pc = "send" => route' = route
    PROVE  Shape'
BY TypesAtRest, CommandsAtRest DEF Shape

\* A step that calls the server with command c.
LEMMA ShapeMoves ==
    ASSUME Shape, NEW c \in Cmds, Moves(c), c.seq \in 1..row.seq, c.name \in Steps,
           late' \subseteq late \cup {c}, Typed', TurnsAreTaken', row'.seq = row.seq,
           row'.cmd # NoCmd => modern /\ row'.cmd.seq = row.seq /\ row'.cmd.name \in Steps,
           modern /\ route'.pc = "send" => row'.cmd = route'.cmd
    PROVE  Shape'
<1>1. CommandsAreMade' /\ late' \subseteq Cmds  BY CommandsMove
<1>2. c.seq \in 1..MaxSeq
  BY ShapeIsTyped, ShareAssumption DEF Shape, Typed, Rows
<1>3. ShareTypeOK'  BY <1>1, <1>2, TypesMove DEF Shape
<1> QED  BY <1>1, <1>3 DEF Shape

LEMMA RouteReadsShape == ASSUME Shape, RouteReads PROVE Shape'
<1>1. row \in Rows /\ route \in Routes /\ route.pc = "read" /\ srv \in State
      /\ faults \in 0..MaxFaults /\ MaxFaults \in Nat /\ Typed
  BY ShapeIsTyped, ShareAssumption DEF Shape, Typed, ShareTypeOK, RouteReads
<1>2. UNCHANGED <<modern, server, local, worker, others>>  BY DEF RouteReads
<1>3. CASE route' = [route EXCEPT !.pc = "settle", !.obs = srv] /\ UNCHANGED <<row, lock, faults>>
  <2>1. route' \in Routes /\ route'.pc = "settle" /\ route'.cmd = route.cmd
    BY <1>1, <1>3 DEF Routes
  <2>2. route.cmd.name \in AllKinds  BY <1>1 DEF Shape, TurnsAreTaken
  <2>3. TurnsAreTaken'  BY <1>1, <1>2, <1>3, <2>1, <2>2, RouteGoesOn
  <2>4. Typed'  BY <1>1, <1>2, <1>3, <2>1 DEF Typed
  <2> QED  BY <1>2, <1>3, <2>1, <2>3, <2>4, ShapeAtRest
<1>4. ASSUME NEW res \in {"auth", "unknown"}, faults < MaxFaults, faults' = faults + 1,
             row' = IF RouteOwns THEN RouteFails(res) ELSE row, RouteEnds
      PROVE  Shape'
  <2>1. RouteFails(res) \in Rows /\ RouteFails(res).seq = row.seq /\ RouteFails(res).cmd = row.cmd
    BY <1>1, RouteFailsShape DEF SameRequest
  <2>2. TurnsAreTaken'  BY <1>1, <1>2, <1>4, <2>1, RouteEndsItsTurn
  <2>3. route' \in Routes /\ route'.pc = "idle" /\ lock' = "free"
    BY <1>4, ConstantsAreTyped DEF RouteEnds, NoRoute
  <2>4. Typed'  BY <1>1, <1>2, <1>4, <2>1, <2>3 DEF Typed
  <2> QED  BY <1>2, <1>4, <2>1, <2>2, <2>3, <2>4, ShapeAtRest
<1> QED  BY <1>3, <1>4 DEF RouteReads

LEMMA CompositePublishedShape == ASSUME Shape, CompositePublished PROVE Shape'
<1>1. row \in Rows /\ route \in Routes /\ route.pc = "settle" /\ route.cmd \in Cmds
      /\ route.obs \in State /\ faults \in 0..MaxFaults /\ MaxFaults \in Nat /\ Typed
  BY ShapeIsTyped, ShareAssumption DEF Shape, Typed, Routes, CompositePublished
<1>2. UNCHANGED <<modern, server, worker, others>>  BY DEF CompositePublished
<1> DEFINE s == Seen(row, route.obs)
           x == [s EXCEPT !.partial = TRUE]
<1>3. SameRequest(s, row) /\ s.status = row.status /\ s.token = row.token  BY <1>1, RowIsSeen
<1>4. /\ local' \in State /\ faults' \in 0..MaxFaults
      /\ row' = IF RouteOwns THEN x ELSE row
  <2>1. CASE RouteOwns  BY <1>1, <2>1 DEF CompositePublished, Typed
  <2>2. CASE ~RouteOwns  BY <1>1, <2>2 DEF CompositePublished, Typed
  <2> QED  BY <2>1, <2>2
<1> HIDE DEF s
<1>5. SameRequest(x, s) /\ x.status = s.status /\ x.token = s.token
  BY <1>3, RowIsMarked DEF SameRequest
<1> HIDE DEF x
<1>6. /\ row' \in Rows /\ row'.seq = row.seq /\ row'.cmd = row.cmd /\ row'.status = row.status
      /\ row'.token = row.token /\ x.seq = row.seq
  BY <1>1, <1>3, <1>4, <1>5 DEF SameRequest
<1>7. CASE route' = [route EXCEPT !.pc = "freeze", !.cmd.name = "finalize"] /\ UNCHANGED lock
  <2>1. route' \in Routes /\ route'.pc = "freeze" /\ route'.cmd.seq = route.cmd.seq
        /\ route'.cmd.name = "finalize"
    BY <1>1, <1>7 DEF Routes, Cmds, Steps, AllKinds
  <2>2. TurnsAreTaken'  BY <1>1, <1>2, <1>6, <1>7, <2>1, RouteGoesOn DEF AllKinds
  <2>3. Typed'  BY <1>1, <1>2, <1>4, <1>6, <1>7, <2>1 DEF Typed
  <2> QED  BY <1>2, <1>6, <2>1, <2>2, <2>3, ShapeAtRest
<1>8. CASE RouteEnds
  <2>1. TurnsAreTaken'  BY <1>1, <1>2, <1>4, <1>6, <1>8, RouteEndsItsTurn
  <2>2. route' \in Routes /\ route'.pc = "idle" /\ lock' = "free"
    BY <1>8, ConstantsAreTyped DEF RouteEnds, NoRoute
  <2>3. Typed'  BY <1>1, <1>2, <1>4, <1>6, <2>2 DEF Typed
  <2> QED  BY <1>2, <1>6, <2>1, <2>2, <2>3, ShapeAtRest
<1> QED  BY <1>7, <1>8 DEF CompositePublished

LEMMA RouteSettlesShape == ASSUME Shape, RouteSettles PROVE Shape'
<1>1. row \in Rows /\ route \in Routes /\ route.pc = "settle" /\ route.obs \in State
      /\ faults \in 0..MaxFaults /\ MaxFaults \in Nat /\ Typed
  BY ShapeIsTyped, ShareAssumption DEF Shape, Typed, Routes, RouteSettles
<1>2. UNCHANGED <<modern, server, worker, others>> /\ RouteEnds  BY DEF RouteSettles
<1> DEFINE s == Seen(row, route.obs)
           st == IF Landed THEN "converged" ELSE "superseded"
<1>3. SameRequest(s, row)  BY <1>1, RowIsSeen
<1>4. PICK r : /\ row' = (IF RouteOwns THEN r ELSE row)
               /\ r \in {Settled(s, st), Settled(s, "waiting_local")}
               /\ local' \in State /\ faults' \in 0..MaxFaults
  BY <1>1 DEF RouteSettles, Typed
<1>5. st \in Open \cup Closed /\ "waiting_local" \in Open \cup Closed  BY DEF Open, Closed
<1> HIDE DEF s, st
<1>6. SameRequest(r, s)  BY <1>3, <1>4, <1>5, RowIsSettled DEF SameRequest
<1>7. r \in Rows /\ r.seq = row.seq /\ r.cmd = row.cmd  BY <1>3, <1>6 DEF SameRequest
<1>8. TurnsAreTaken'  BY <1>1, <1>2, <1>4, <1>7, RouteEndsItsTurn
<1>9. route' \in Routes /\ route'.pc = "idle" /\ lock' = "free"
  BY <1>2, ConstantsAreTyped DEF RouteEnds, NoRoute
<1>10. Typed'  BY <1>1, <1>2, <1>4, <1>7, <1>9 DEF Typed
<1> QED  BY <1>1, <1>2, <1>4, <1>7, <1>8, <1>9, <1>10, ShapeAtRest

\* The worker's turn ends, and what was to be written is written.
LEMMA WorkerEndsTyped ==
    ASSUME Shape, worker.pc # "idle", NEW r, SameRequest(r, row),
           r.status \in Open \/ worker.pc \in Acting, WorkerEnds(r),
           local' \in State, faults' \in 0..MaxFaults, UNCHANGED <<others, route>>
    PROVE  /\ Typed' /\ TurnsAreTaken' /\ row'.seq = row.seq
           /\ row' = row \/ row' = r
<1>1. row \in Rows /\ Typed  BY ShapeIsTyped DEF Shape, Typed
<1>2. row' = row \/ row' = r  BY DEF WorkerEnds
<1>3. row' \in Rows /\ row'.seq = row.seq  BY <1>1, <1>2 DEF SameRequest
<1>4. TurnsAreTaken'  BY WorkerEndsItsTurn DEF SameRequest
<1>5. worker' \in Turns /\ lock' \in {"free", "route", "worker"}
  BY <1>1, ConstantsAreTyped DEF WorkerEnds, Typed
<1>6. Typed'  BY <1>1, <1>3, <1>5 DEF Typed
<1> QED  BY <1>2, <1>3, <1>4, <1>6

\* The worker's turn goes on to a step of its own.
LEMMA WorkerGoesTyped ==
    ASSUME Shape, worker.pc \in Acting, NEW pc \in Acting, NEW obs \in State,
           NEW st \in Open \cup Closed, NEW exp \in Nat, WorkerGoes(pc, obs, st, exp),
           row' \in Rows, row'.seq = row.seq, row'.token = row.token, row'.status \in Open,
           faults' \in 0..MaxFaults, UNCHANGED <<local, lock, others, route>>
    PROVE  /\ Typed' /\ TurnsAreTaken'
           /\ worker'.pc = pc /\ worker'.obs = obs /\ worker'.st = st /\ worker'.exp = exp
<1>1. Typed  BY ShapeIsTyped DEF Shape
<1>2. /\ worker' \in Turns /\ worker'.seq = worker.seq
      /\ worker'.pc = pc /\ worker'.obs = obs /\ worker'.st = st /\ worker'.exp = exp
  BY <1>1 DEF WorkerGoes, Typed, Turns, Acting
<1>3. TurnsAreTaken'  BY <1>2, WorkerGoesOn
<1>4. Typed'  BY <1>1, <1>2 DEF Typed
<1> QED  BY <1>2, <1>3, <1>4

\* In an acting turn the row is the worker's and open.
LEMMA ActingOwns ==
    ASSUME Shape, worker.pc \in Acting
    PROVE  /\ WorkerOwns /\ row.status \in Open /\ worker.seq = row.seq /\ row.seq \in 1..MaxSeq
           /\ route.pc = "idle" /\ lock = "worker" /\ worker.pc # "idle" /\ row.token = "worker"
<1>1. worker.pc # "idle" /\ worker.seq = row.seq  BY DEF Shape, TurnsAreTaken, Acting
<1>2. row.seq > 0 /\ row.token = "worker" /\ row.status \in Open /\ lock = "worker"
  BY <1>1 DEF Shape, TurnsAreTaken
<1>3. route.pc = "idle"  BY <1>2 DEF Shape, TurnsAreTaken
<1>4. row.seq \in 0..MaxSeq /\ MaxSeq \in Nat
  BY ShapeIsTyped, ShareAssumption DEF Shape, Typed, Rows
<1> QED  BY <1>1, <1>2, <1>3, <1>4 DEF WorkerOwns, Owns

LEMMA ClaimShape == ASSUME Shape, Claim PROVE Shape'
<1>1. row \in Rows /\ worker.pc = "idle" /\ row.status \in Open /\ Typed
  BY ShapeIsTyped DEF Shape, Typed, Claim
<1>2. UNCHANGED <<modern, server, local, lock, route, faults, others>>  BY DEF Claim
<1>3. /\ row' \in Rows /\ row'.seq = row.seq /\ row'.cmd = row.cmd /\ row'.status = row.status
      /\ row'.token = "worker"
  BY <1>1 DEF Claim, Rows
<1>4. row.seq \in 1..MaxSeq
  BY <1>1, ShareAssumption DEF Shape, TurnsAreTaken, Rows
<1>5. worker' \in Turns /\ worker'.pc = "observe" /\ worker'.seq = row.seq
  BY <1>1, <1>4, ConstantsAreTyped DEF Claim, Turns, Rows
<1>6. lock # "worker" /\ "observe" \notin Acting  BY <1>1 DEF Shape, TurnsAreTaken, Acting
<1>7. TurnsAreTaken'  BY <1>1, <1>2, <1>3, <1>4, <1>5, <1>6 DEF Shape, TurnsAreTaken
<1>8. Typed'  BY <1>1, <1>2, <1>3, <1>5 DEF Typed
<1> QED  BY <1>2, <1>3, <1>7, <1>8, ShapeAtRest

LEMMA ObserveShape == ASSUME Shape, Observe PROVE Shape'
<1>1. row \in Rows /\ worker \in Turns /\ worker.pc = "observe" /\ lock = "free" /\ srv \in State
      /\ local \in State /\ faults \in 0..MaxFaults /\ MaxFaults \in Nat /\ Typed
  BY ShapeIsTyped, ShareAssumption DEF Shape, Typed, ShareTypeOK, Observe
<1>2. UNCHANGED <<modern, server, local, route, others>>  BY DEF Observe
<1>3. CASE WorkerGoes("lock", srv, "pending", 0) /\ UNCHANGED <<row, lock, faults>>
  <2>1. worker' \in Turns /\ worker'.pc = "lock" /\ worker'.seq = worker.seq
    BY <1>1, <1>3 DEF WorkerGoes, Turns, Open
  <2>2. "lock" \notin Acting /\ worker.pc # "idle" /\ worker.pc \notin Acting  BY <1>1 DEF Acting
  <2>3. TurnsAreTaken'  BY <1>1, <1>2, <1>3, <2>1, <2>2 DEF Shape, TurnsAreTaken
  <2>4. Typed'  BY <1>1, <1>2, <1>3, <2>1 DEF Typed
  <2> QED  BY <1>2, <1>3, <2>3, <2>4, ShapeAtRest
<1>4. ASSUME NEW r \in {Released(row), AuthRequired(row)}, WorkerEnds(r),
             faults < MaxFaults, faults' = faults + 1
      PROVE  Shape'
  <2>1. SameRequest(r, row) /\ (r.status = row.status \/ r.status \in Open)
    BY <1>1, <1>4, RowIsReleased, RowWaitsForLogin DEF Open
  <2>2. CASE worker.seq = row.seq
    <3>1. row.status \in Open  BY <1>1, <2>2 DEF Shape, TurnsAreTaken
    <3>2. Typed' /\ TurnsAreTaken' /\ row'.seq = row.seq /\ (row' = row \/ row' = r)
      BY <1>1, <1>2, <1>4, <2>1, <3>1, WorkerEndsTyped
    <3> QED  BY <1>2, <2>1, <3>2, ShapeAtRest DEF SameRequest
  <2>3. CASE worker.seq # row.seq
    <3>1. WorkerEnds(row) /\ row' = row  BY <1>4, <2>3 DEF WorkerEnds, WorkerOwns, Owns
    <3>2. worker' \in Turns /\ worker'.pc = "idle" /\ worker'.seq = 0 /\ lock' = lock
      BY <1>1, <1>4, ConstantsAreTyped DEF WorkerEnds, NoWorker
    <3>3. worker.pc \notin Acting /\ "idle" \notin Acting /\ row.seq \in Nat
      BY <1>1, ShareAssumption DEF Acting, Rows
    <3>4. TurnsAreTaken'  BY <1>1, <1>2, <3>1, <3>2, <3>3 DEF Shape, TurnsAreTaken
    <3>5. Typed'  BY <1>1, <1>2, <1>4, <3>1, <3>2 DEF Typed
    <3> QED  BY <1>2, <3>1, <3>4, <3>5, ShapeAtRest
  <2> QED  BY <2>2, <2>3
<1> QED  BY <1>3, <1>4 DEF Observe

LEMMA EnterShape == ASSUME Shape, Enter PROVE Shape'
<1>1. row \in Rows /\ worker \in Turns /\ worker.pc = "lock" /\ lock = "free" /\ srv \in State
      /\ local \in State /\ faults \in 0..MaxFaults /\ Typed
  BY ShapeIsTyped DEF Shape, Typed, ShareTypeOK, Enter
<1>2. UNCHANGED <<modern, server, local, route, faults, others>>  BY DEF Enter
<1>3. CASE WorkerOwns
  <2>1. worker.seq = row.seq /\ row.token = "worker" /\ row.status \in Open
    BY <1>1, <1>3 DEF WorkerOwns, Owns, Shape, TurnsAreTaken
  <2>2. PICK obs \in {worker.obs, srv} : WorkerGoes("act", obs, "pending", 0)
    BY <1>3 DEF Enter
  <2>3. lock' = "worker" /\ row' = [row EXCEPT !.lease = TRUE]  BY <1>3 DEF Enter
  <2>4. /\ row' \in Rows /\ row'.seq = row.seq /\ row'.cmd = row.cmd /\ row'.status = row.status
        /\ row'.token = row.token
    BY <1>1, <2>3 DEF Rows
  <2>5. worker' \in Turns /\ worker'.pc = "act" /\ worker'.seq = worker.seq
    BY <1>1, <2>2 DEF WorkerGoes, Turns, Open
  <2>6. route.pc = "idle"  BY <1>1 DEF Shape, TurnsAreTaken
  <2>7. TurnsAreTaken'
    BY <1>1, <1>2, <2>1, <2>3, <2>4, <2>5, <2>6 DEF Shape, TurnsAreTaken, Acting
  <2>8. Typed'  BY <1>1, <1>2, <2>3, <2>4, <2>5 DEF Typed
  <2> QED  BY <1>2, <2>4, <2>7, <2>8, ShapeAtRest
<1>4. CASE ~WorkerOwns
  <2>1. row' = row /\ lock' = lock /\ worker' = NoWorker  BY <1>1, <1>4 DEF Enter, WorkerEnds
  <2>2. worker' \in Turns /\ worker'.pc = "idle" /\ worker'.seq = 0
    BY <2>1, ConstantsAreTyped DEF NoWorker
  <2>3. worker.pc \notin Acting /\ "idle" \notin Acting /\ row.seq \in Nat
    BY <1>1, ShareAssumption DEF Acting, Rows
  <2>4. TurnsAreTaken'  BY <1>1, <1>2, <2>1, <2>2, <2>3 DEF Shape, TurnsAreTaken
  <2>5. Typed'  BY <1>1, <1>2, <2>1, <2>2 DEF Typed
  <2> QED  BY <1>2, <2>1, <2>4, <2>5, ShapeAtRest
<1> QED  BY <1>3, <1>4

\* A composite is given up or taken back: the worker goes on to apply or next.
LEMMA CompensateGoes ==
    ASSUME Shape, worker.pc \in Acting, NEW obs \in State, NEW exp \in Nat, NEW next \in Acting \ {"apply"},
           Compensate(obs, exp, next)
    PROVE  \E pc \in {"apply", next}, st \in Open \cup Closed, e \in {0, exp} :
              /\ WorkerGoes(pc, obs, st, e)
              /\ pc = "apply" => obs = "final" \/ row.base # "private" \/ obs = "private"
              /\ pc = next => e = exp /\ obs # "private" /\ obs # "final"
<1>1. {"converged", "rejected", "pending"} \subseteq Open \cup Closed  BY DEF Open, Closed
<1>2. CASE obs = "final"
  <2>1. WorkerGoes("apply", obs, "converged", 0)  BY <1>2 DEF Compensate
  <2> QED  BY <1>1, <1>2, <2>1
<1>3. CASE obs # "final" /\ (row.base # "private" \/ obs = "private")
  <2>1. WorkerGoes("apply", obs, "rejected", 0)  BY <1>3 DEF Compensate
  <2> QED  BY <1>1, <1>3, <2>1
<1>4. CASE obs # "final" /\ row.base = "private" /\ obs # "private"
  <2>1. WorkerGoes(next, obs, "pending", exp)  BY <1>4 DEF Compensate
  <2> QED  BY <1>1, <1>4, <2>1
<1> QED  BY <1>2, <1>3, <1>4

\* Going on after compensating keeps the shape of what is not the server.
LEMMA CompensateTyped ==
    ASSUME Shape, worker.pc \in Acting, NEW obs \in State, NEW exp \in Nat, NEW next \in Acting \ {"apply"},
           Compensate(obs, exp, next), faults' \in 0..MaxFaults,
           UNCHANGED <<row, local, lock, others, route>>
    PROVE  Typed' /\ TurnsAreTaken'
<1>1. PICK pc \in {"apply", next}, st \in Open \cup Closed, e \in {0, exp} : WorkerGoes(pc, obs, st, e)
  BY CompensateGoes
<1>2. pc \in Acting /\ e \in Nat  BY DEF Acting
<1>3. row \in Rows /\ row.status \in Open  BY ShapeIsTyped, ActingOwns DEF Shape, Typed
<1> QED  BY <1>1, <1>2, <1>3, WorkerGoesTyped

\* A stored command is one of the request that stored it.
LEMMA StoredCommand ==
    ASSUME Shape, row.cmd # NoCmd
    PROVE  /\ row.cmd \in Cmds /\ row.cmd.seq = row.seq /\ row.cmd.name \in Steps /\ modern
           /\ row.cmd.exp \in Nat
BY ShapeIsTyped DEF Shape, CommandsAreMade, Typed, Rows, Cmds

\* How an observation closes the row is a way to close it.
LEMMA TerminalCloses == \A r, obs, watched : Terminal(r, obs, watched) \in Open \cup Closed
BY DEF Terminal, Closed

\* What is done with the answer to a command that was sent again.
ReplayAnswered(a) ==
    \/ /\ a.res = "ok" /\ row.kind = "composite" /\ row.cmd.name = "publish"
       /\ Compensate(a.s, ReceiptRevision(row.cmd, a), "cleanup") /\ UNCHANGED <<row, lock>>
    \/ /\ a.res = "ok" /\ ~(row.kind = "composite" /\ row.cmd.name = "publish")
       /\ WorkerGoes("apply", a.s, Terminal(row, a.s, FALSE), 0) /\ UNCHANGED <<row, lock>>
    \/ /\ a.res = "refused" /\ row.kind = "composite" /\ row.cmd.name = "finalize"
       /\ Compensate(srv, row.cmd.exp, "cleanup") /\ UNCHANGED <<row, lock>>
    \/ /\ a.res = "refused" /\ ~(row.kind = "composite" /\ row.cmd.name = "finalize")
       /\ WorkerEnds(Settled(row, "rejected"))
    \/ a.res = "auth" /\ WorkerEnds(AuthRequired(row))
    \/ a.res = "unknown" /\ WorkerEnds(Released(row))

LEMMA ReplayCases ==
    ASSUME Shape, Replay
    PROVE  \E a \in Replies(row.cmd) : Called(row.cmd, a) /\ ReplayAnswered(a)
<1>1. PICK a \in Replies(row.cmd) :
        /\ Called(row.cmd, a)
        /\ LET composite == row.kind = "composite" IN
           CASE a.res = "ok" ->
                  /\ IF composite /\ row.cmd.name = "publish"
                     THEN Compensate(a.s, ReceiptRevision(row.cmd, a), "cleanup")
                     ELSE WorkerGoes("apply", a.s, Terminal(row, a.s, FALSE), 0)
                  /\ UNCHANGED <<row, lock>>
             [] a.res = "refused" /\ composite /\ row.cmd.name = "finalize" ->
                  Compensate(srv, row.cmd.exp, "cleanup") /\ UNCHANGED <<row, lock>>
             [] a.res = "refused" /\ ~(composite /\ row.cmd.name = "finalize") ->
                  WorkerEnds(Settled(row, "rejected"))
             [] a.res = "auth" -> WorkerEnds(AuthRequired(row))
             [] a.res = "unknown" -> WorkerEnds(Released(row))
  BY DEF Replay
<1>2. row.cmd # NoCmd /\ modern' = modern  BY DEF Replay
<1>3. a.res \in {"ok", "refused", "auth", "unknown"}  BY <1>1, <1>2, StoredCommand, CallMoves
<1>4. ReplayAnswered(a)  BY <1>1, <1>3 DEF ReplayAnswered
<1> QED  BY <1>1, <1>4

LEMMA ReplayShape == ASSUME Shape, Replay PROVE Shape'
<1>1. worker.pc = "act" /\ row.cmd # NoCmd /\ UNCHANGED <<modern, local, route, others>>
  BY DEF Replay
<1>2. worker.pc \in Acting /\ "cleanup" \in Acting \ {"apply"} /\ "apply" \in Acting
  BY <1>1 DEF Acting
<1>3. /\ row.seq \in 1..MaxSeq /\ route.pc = "idle" /\ worker.pc # "idle" /\ row.status \in Open
      /\ row \in Rows /\ local \in State /\ srv \in State
  BY <1>2, ActingOwns, ShapeIsTyped DEF Shape, Typed, ShareTypeOK
<1>4. /\ row.cmd \in Cmds /\ row.cmd.seq = row.seq /\ row.cmd.name \in Steps /\ modern
      /\ row.cmd.exp \in Nat
  BY <1>1, StoredCommand
<1>5. PICK a \in Replies(row.cmd) : Called(row.cmd, a) /\ ReplayAnswered(a)  BY ReplayCases
<1>6. /\ Moves(row.cmd) /\ late' \subseteq late \cup {row.cmd} /\ a.s \in State
      /\ faults' \in 0..MaxFaults
  BY <1>1, <1>4, <1>5, CallMoves
<1>7. Typed' /\ TurnsAreTaken' /\ row'.seq = row.seq /\ row'.cmd = row.cmd
  <2>1. CASE Compensate(a.s, ReceiptRevision(row.cmd, a), "cleanup") /\ UNCHANGED <<row, lock>>
    <3>1. ReceiptRevision(row.cmd, a) \in Nat  BY ReceiptRevisionIsNat DEF Shape
    <3> QED  BY <1>1, <1>2, <1>6, <2>1, <3>1, CompensateTyped
  <2>2. CASE WorkerGoes("apply", a.s, Terminal(row, a.s, FALSE), 0) /\ UNCHANGED <<row, lock>>
    <3> DEFINE st == Terminal(row, a.s, FALSE)
    <3>1. st \in Open \cup Closed  BY TerminalCloses
    <3> HIDE DEF st
    <3>2. WorkerGoes("apply", a.s, st, 0)  BY <2>2 DEF st
    <3> QED  BY <1>1, <1>2, <1>3, <1>6, <2>2, <3>1, <3>2, WorkerGoesTyped
  <2>3. CASE Compensate(srv, row.cmd.exp, "cleanup") /\ UNCHANGED <<row, lock>>
    BY <1>1, <1>2, <1>3, <1>4, <1>6, <2>3, CompensateTyped
  <2>4. ASSUME NEW r \in {Settled(row, "rejected"), AuthRequired(row), Released(row)}, WorkerEnds(r)
        PROVE  Typed' /\ TurnsAreTaken' /\ row'.seq = row.seq /\ row'.cmd = row.cmd
    <3>1. SameRequest(r, row)
      BY <1>3, <2>4, RowIsReleased, RowIsSettled, RowWaitsForLogin DEF Closed
    <3>2. Typed' /\ TurnsAreTaken' /\ row'.seq = row.seq /\ (row' = row \/ row' = r)
      BY <1>1, <1>2, <1>3, <1>6, <2>4, <3>1, WorkerEndsTyped
    <3> QED  BY <3>1, <3>2 DEF SameRequest
  <2> QED  BY <1>5, <2>1, <2>2, <2>3, <2>4 DEF ReplayAnswered
<1>8. row.cmd.seq \in 1..row.seq  BY <1>3, <1>4
<1>9. route'.pc # "send"  BY <1>1, <1>3
<1> QED  BY <1>1, <1>4, <1>6, <1>7, <1>8, <1>9, ShapeMoves

\* The rows a judged observation leaves when the result was unknown.
LEMMA RowIsWatched ==
    ASSUME row \in Rows, NEW obs \in State,
           NEW x, x = [Settled(row, "prepared") EXCEPT !.unknown = TRUE, !.seen = obs]
    PROVE  SameRequest(x, row) /\ x.status = "prepared" /\ x.seen = obs /\ x.denied = row.denied
<1> DEFINE d == Settled(row, "prepared")
<1>1. SameRequest(d, row) /\ d.denied = row.denied /\ d.status = "prepared"
  BY RowIsSettled DEF Open
<1>2. x = [d EXCEPT !.unknown = TRUE, !.seen = obs]  OBVIOUS
<1> HIDE DEF d
<1> QED  BY <1>1, <1>2 DEF SameRequest, Rows

LEMMA RowIsJudged ==
    ASSUME row \in Rows, NEW obs \in State, NEW e \in BOOLEAN,
           NEW x, x = [Seen(row, obs) EXCEPT !.status = "pending", !.expired = e]
    PROVE  /\ SameRequest(x, row) /\ x.status = "pending" /\ x.seen = obs
           /\ x.denied = row.denied /\ x.token = row.token
<1> DEFINE s == Seen(row, obs)
<1>1. /\ SameRequest(s, row) /\ s.denied = row.denied /\ s.token = row.token /\ s.seen = obs
  BY RowIsSeen
<1>2. s \in Rows  BY <1>1 DEF SameRequest
<1>3. x = [s EXCEPT !.status = "pending", !.expired = e]  OBVIOUS
<1> HIDE DEF s
<1> QED  BY <1>1, <1>2, <1>3 DEF SameRequest, Rows, Open

\* What comes of a turn that can only judge what it observed.
Judged(st) ==
    \/ /\ row.kind = "composite" /\ row.partial
       /\ Compensate(worker.obs, 0, "recheck")
       /\ UNCHANGED <<row, lock>>
    \/ WorkerEnds([Settled(row, "prepared") EXCEPT !.unknown = TRUE, !.seen = worker.obs])
    \/ /\ row' = row \/ \E e \in BOOLEAN :
            row' = [Seen(row, worker.obs) EXCEPT !.status = "pending", !.expired = e]
       /\ WorkerGoes("apply", worker.obs, st, 0)
       /\ UNCHANGED lock

LEMMA JudgeCases == ASSUME Shape, Judge PROVE \E st \in Open \cup Closed : Judged(st)
<1> DEFINE unknown == ResultUnknown(row)
           st == Terminal(row, worker.obs, unknown \/ row.expired)
<1>1. st \in Open \cup Closed  BY TerminalCloses
<1> SUFFICES Judged(st)  BY <1>1
<1> HIDE DEF unknown
<1>2. \/ /\ row.kind = "composite" /\ row.partial
         /\ Compensate(worker.obs, 0, "recheck")
         /\ UNCHANGED <<row, lock>>
      \/ WorkerEnds([Settled(row, "prepared") EXCEPT !.unknown = TRUE, !.seen = worker.obs])
      \/ /\ row' = IF unknown
                   THEN [Seen(row, worker.obs) EXCEPT !.status = "pending",
                            !.expired = @ \/ st # "converged"]
                   ELSE row
         /\ WorkerGoes("apply", worker.obs, st, 0)
         /\ UNCHANGED lock
  BY DEF Judge, unknown
<1> DEFINE s == Seen(row, worker.obs)
           e == s.expired \/ st # "converged"
<1>3. s \in Rows
  BY ShapeIsTyped, RowIsSeen DEF Shape, Typed, Turns, SameRequest
<1>4. e \in BOOLEAN  BY <1>3, Zenon DEF Rows
<1>5. [s EXCEPT !.status = "pending", !.expired = @ \/ st # "converged"]
      = [s EXCEPT !.status = "pending", !.expired = e]
  BY <1>3 DEF Rows
<1> HIDE DEF st, e
<1> QED  BY <1>2, <1>4, <1>5 DEF Judged

LEMMA JudgeShape == ASSUME Shape, Judge PROVE Shape'
<1>1. worker.pc = "act" /\ row.cmd = NoCmd /\ UNCHANGED <<modern, server, local, route, faults, others>>
  BY DEF Judge
<1>2. worker.pc \in Acting /\ "recheck" \in Acting \ {"apply"} /\ "apply" \in Acting
  BY <1>1 DEF Acting
<1>3. /\ worker.pc # "idle" /\ row.status \in Open /\ row \in Rows /\ local \in State
      /\ worker.obs \in State /\ faults \in 0..MaxFaults
  BY <1>2, ActingOwns, ShapeIsTyped DEF Shape, Typed, Turns
<1>4. PICK st \in Open \cup Closed : Judged(st)  BY JudgeCases
<1>5. Typed' /\ TurnsAreTaken' /\ row'.seq = row.seq /\ row'.cmd = row.cmd
  <2>1. CASE Compensate(worker.obs, 0, "recheck") /\ UNCHANGED <<row, lock>>
    BY <1>1, <1>2, <1>3, <2>1, CompensateTyped
  <2>2. CASE WorkerEnds([Settled(row, "prepared") EXCEPT !.unknown = TRUE, !.seen = worker.obs])
    <3> DEFINE r == [Settled(row, "prepared") EXCEPT !.unknown = TRUE, !.seen = worker.obs]
    <3>1. SameRequest(r, row)  BY <1>3, RowIsWatched
    <3>2. WorkerEnds(r)  BY <2>2
    <3> HIDE DEF r
    <3>3. Typed' /\ TurnsAreTaken' /\ row'.seq = row.seq /\ (row' = row \/ row' = r)
      BY <1>1, <1>2, <1>3, <3>1, <3>2, WorkerEndsTyped
    <3> QED  BY <3>1, <3>3 DEF SameRequest
  <2>3. CASE /\ row' = row \/ \E e \in BOOLEAN :
                   row' = [Seen(row, worker.obs) EXCEPT !.status = "pending", !.expired = e]
             /\ WorkerGoes("apply", worker.obs, st, 0) /\ UNCHANGED lock
    <3>1. /\ row' \in Rows /\ row'.seq = row.seq /\ row'.cmd = row.cmd /\ row'.token = row.token
          /\ row'.status \in Open
      <4>1. CASE row' = row  BY <1>3, <4>1
      <4>2. ASSUME NEW e \in BOOLEAN,
                   row' = [Seen(row, worker.obs) EXCEPT !.status = "pending", !.expired = e]
            PROVE  /\ row' \in Rows /\ row'.seq = row.seq /\ row'.cmd = row.cmd
                   /\ row'.token = row.token /\ row'.status \in Open
        <5>1. row \in Rows /\ worker.obs \in State  BY <1>3
        <5>2. SameRequest(row', row) /\ row'.status = "pending" /\ row'.token = row.token
          BY <4>2, <5>1, RowIsJudged
        <5> QED  BY <5>2 DEF SameRequest, Open
      <4> QED  BY <2>3, <4>1, <4>2
    <3> QED  BY <1>1, <1>2, <1>3, <2>3, <3>1, WorkerGoesTyped
  <2> QED  BY <1>4, <2>1, <2>2, <2>3 DEF Judged
<1>6. route'.pc = "send" => route' = route  BY <1>1
<1> QED  BY <1>1, <1>5, <1>6, ShapeAtRest

LEMMA RecheckShape == ASSUME Shape, Recheck PROVE Shape'
<1>1. worker.pc = "recheck" /\ UNCHANGED <<modern, server, local, route, others>>
  BY DEF Recheck
<1>2. worker.pc \in Acting /\ "cleanup" \in Acting \ {"apply"}  BY <1>1 DEF Acting
<1>3. /\ worker.pc # "idle" /\ row.status \in Open /\ row \in Rows /\ local \in State
      /\ srv \in State /\ faults \in 0..MaxFaults /\ MaxFaults \in Nat
  BY <1>2, ActingOwns, ShapeIsTyped, ShareAssumption DEF Shape, Typed, ShareTypeOK
<1>4. Typed' /\ TurnsAreTaken' /\ row'.seq = row.seq /\ row'.cmd = row.cmd
  <2>1. CASE Compensate(srv, 0, "cleanup") /\ UNCHANGED <<row, lock, faults>>
    BY <1>1, <1>2, <1>3, <2>1, CompensateTyped
  <2>2. ASSUME NEW r \in {Released(row), AuthRequired(row)}, WorkerEnds(r),
               faults < MaxFaults, faults' = faults + 1
        PROVE  Typed' /\ TurnsAreTaken' /\ row'.seq = row.seq /\ row'.cmd = row.cmd
    <3>1. SameRequest(r, row)  BY <1>3, <2>2, RowIsReleased, RowWaitsForLogin
    <3>2. Typed' /\ TurnsAreTaken' /\ row'.seq = row.seq /\ (row' = row \/ row' = r)
      BY <1>1, <1>2, <1>3, <2>2, <3>1, WorkerEndsTyped
    <3> QED  BY <3>1, <3>2 DEF SameRequest
  <2> QED  BY <2>1, <2>2 DEF Recheck
<1> QED  BY <1>1, <1>4, ShapeAtRest

\* The command of the cleanup, and the row that stores it.
CleanUpCommand == [seq |-> row.seq, name |-> "cleanup", exp |-> worker.exp]
CleanUpRow == IF modern THEN [row EXCEPT !.cmd = CleanUpCommand] ELSE row

\* What is done with the answer to the cleanup.
CleanUpAnswered(a) ==
    \/ a.res = "ok" /\ WorkerGoes("apply", a.s, "rejected", 0) /\ row' = CleanUpRow /\ UNCHANGED lock
    \/ /\ a.res = "refused" /\ modern
       /\ WorkerGoes("apply", srv, "superseded", 0) /\ row' = CleanUpRow /\ UNCHANGED lock
    \/ a.res = "auth" /\ WorkerEnds(AuthRequired(CleanUpRow))
    \/ a.res \in {"unknown", "refused"} /\ WorkerEnds(Released(CleanUpRow))

LEMMA CleanUpCases ==
    ASSUME Shape, CleanUp
    PROVE  /\ CleanUpCommand \in Cmds /\ CleanUpCommand.seq = row.seq
           /\ CleanUpCommand.name = "cleanup" /\ CleanUpCommand.exp = worker.exp
           /\ CleanUpRow \in Rows
           /\ CleanUpRow.cmd = IF modern THEN CleanUpCommand ELSE row.cmd
           /\ CleanUpRow.seq = row.seq /\ CleanUpRow.status = row.status
           /\ CleanUpRow.token = row.token /\ CleanUpRow.seen = row.seen
           /\ CleanUpRow.denied = row.denied /\ CleanUpRow.kind = row.kind
           /\ CleanUpRow.base = row.base
           /\ \E a \in Replies(CleanUpCommand) : Called(CleanUpCommand, a) /\ CleanUpAnswered(a)
<1>1. row \in Rows /\ worker \in Turns /\ row.seq \in 0..MaxSeq /\ worker.exp \in Nat
  BY ShapeIsTyped DEF Shape, Typed, Rows, Turns
<1>2. /\ CleanUpCommand \in Cmds /\ CleanUpCommand.seq = row.seq
      /\ CleanUpCommand.name = "cleanup" /\ CleanUpCommand.exp = worker.exp
      /\ "cleanup" \in Steps
  BY <1>1 DEF CleanUpCommand, Cmds, Steps
<1>3. PICK a \in Replies(CleanUpCommand) :
        /\ Called(CleanUpCommand, a)
        /\ CASE a.res = "ok" ->
                  WorkerGoes("apply", a.s, "rejected", 0) /\ row' = CleanUpRow /\ UNCHANGED lock
             [] a.res = "refused" /\ modern ->
                  WorkerGoes("apply", srv, "superseded", 0) /\ row' = CleanUpRow /\ UNCHANGED lock
             [] a.res = "auth" -> WorkerEnds(AuthRequired(CleanUpRow))
             [] a.res = "unknown" \/ (a.res = "refused" /\ ~modern) -> WorkerEnds(Released(CleanUpRow))
  BY DEF CleanUp, CleanUpRow, CleanUpCommand
<1>4. modern' = modern  BY DEF CleanUp
<1>5. a.res \in {"ok", "refused", "auth", "unknown"}  BY <1>2, <1>3, <1>4, CallMoves
<1>6. CleanUpAnswered(a)  BY <1>3, <1>5 DEF CleanUpAnswered
<1> HIDE DEF CleanUpCommand
<1>7. /\ CleanUpRow \in Rows /\ CleanUpRow.cmd = IF modern THEN CleanUpCommand ELSE row.cmd
      /\ CleanUpRow.seq = row.seq /\ CleanUpRow.status = row.status
      /\ CleanUpRow.token = row.token /\ CleanUpRow.seen = row.seen
      /\ CleanUpRow.denied = row.denied /\ CleanUpRow.kind = row.kind
      /\ CleanUpRow.base = row.base
  BY <1>1, <1>2 DEF CleanUpRow, Rows
<1> QED  BY <1>2, <1>3, <1>6, <1>7

LEMMA CleanUpShape == ASSUME Shape, CleanUp PROVE Shape'
<1>1. worker.pc = "cleanup" /\ UNCHANGED <<modern, local, route, others>>  BY DEF CleanUp
<1>2. worker.pc \in Acting /\ "apply" \in Acting  BY <1>1 DEF Acting
<1>3. /\ row.seq \in 1..MaxSeq /\ route.pc = "idle" /\ worker.pc # "idle" /\ row.status \in Open
      /\ row \in Rows /\ local \in State /\ srv \in State
  BY <1>2, ActingOwns, ShapeIsTyped DEF Shape, Typed, ShareTypeOK
<1> DEFINE c == CleanUpCommand
           w == CleanUpRow
<1>4. /\ c \in Cmds /\ c.seq = row.seq /\ c.name = "cleanup" /\ w \in Rows
      /\ w.cmd = (IF modern THEN c ELSE row.cmd) /\ w.seq = row.seq /\ w.status = row.status
      /\ w.token = row.token
      /\ \E a \in Replies(c) : Called(c, a) /\ CleanUpAnswered(a)
  BY CleanUpCases
<1> HIDE DEF c, w
<1>5. PICK a \in Replies(c) : Called(c, a) /\ CleanUpAnswered(a)  BY <1>4
<1>6. c.name \in Steps /\ c.seq \in 1..row.seq  BY <1>3, <1>4 DEF Steps
<1>7. /\ Moves(c) /\ late' \subseteq late \cup {c} /\ a.s \in State /\ faults' \in 0..MaxFaults
  BY <1>1, <1>4, <1>5, <1>6, CallMoves
<1>8. Typed' /\ TurnsAreTaken' /\ row'.seq = row.seq /\ row'.cmd = w.cmd
  <2>1. ASSUME NEW s \in State, NEW st \in {"rejected", "superseded"},
               WorkerGoes("apply", s, st, 0), row' = w, UNCHANGED lock
        PROVE  Typed' /\ TurnsAreTaken' /\ row'.seq = row.seq /\ row'.cmd = w.cmd
    <3>1. st \in Open \cup Closed /\ 0 \in Nat  BY DEF Closed
    <3> QED  BY <1>1, <1>2, <1>3, <1>4, <1>7, <2>1, <3>1, WorkerGoesTyped
  <2>2. ASSUME NEW r \in {AuthRequired(w), Released(w)}, WorkerEnds(r)
        PROVE  Typed' /\ TurnsAreTaken' /\ row'.seq = row.seq /\ row'.cmd = w.cmd
    <3>1. SameRequest(r, w)  BY <1>4, <2>2, RowIsReleased, RowWaitsForLogin
    <3>2. r \in Rows /\ r.seq = row.seq  BY <1>4, <3>1 DEF SameRequest
    <3>3. row' = r  BY <1>2, <2>2, ActingOwns DEF WorkerEnds
    <3>4. TurnsAreTaken'  BY <1>1, <1>2, <1>3, <2>2, <3>2, WorkerEndsItsTurn
    <3>5. worker' \in Turns /\ lock' \in {"free", "route", "worker"}
      BY <2>2, ConstantsAreTyped, ShapeIsTyped DEF Shape, WorkerEnds, Typed
    <3>6. Typed'
      BY <1>1, <1>7, <3>2, <3>3, <3>5, ShapeIsTyped DEF Shape, Typed
    <3> QED  BY <3>1, <3>2, <3>3, <3>4, <3>6 DEF SameRequest
  <2>3. \/ \E s \in State, st \in {"rejected", "superseded"} :
              WorkerGoes("apply", s, st, 0) /\ row' = w /\ UNCHANGED lock
        \/ \E r \in {AuthRequired(w), Released(w)} : WorkerEnds(r)
    BY <1>3, <1>5, <1>7 DEF CleanUpAnswered, w
  <2> QED  BY <2>1, <2>2, <2>3
<1>9. row'.cmd # NoCmd => modern /\ row'.cmd.seq = row'.seq /\ row'.cmd.name \in Steps
  BY <1>4, <1>6, <1>8 DEF Shape, CommandsAreMade
<1>10. route'.pc # "send"  BY <1>1, <1>3
<1> QED  BY <1>4, <1>6, <1>7, <1>8, <1>9, <1>10, ShapeMoves

\* The rows that applying an observation may leave.
LEMMA RowIsApplied ==
    ASSUME row \in Rows, NEW obs \in State, NEW st \in Open \cup Closed
    PROVE  /\ LET x == [Settled(Seen(row, obs), st) EXCEPT !.denied = FALSE] IN
                SameRequest(x, row) /\ x.status = st /\ x.seen = obs /\ x.denied = FALSE
           /\ LET x == Settled(Seen(row, obs), st) IN
                SameRequest(x, row) /\ x.status = st /\ x.seen = obs /\ x.denied = row.denied
<1> DEFINE s == Seen(row, obs)
           p == Settled(s, st)
<1>1. SameRequest(s, row) /\ s.seen = obs /\ s.denied = row.denied  BY RowIsSeen
<1> HIDE DEF s
<1>2. SameRequest(p, s) /\ p.status = st /\ p.seen = s.seen /\ p.denied = s.denied
  BY <1>1, RowIsSettled DEF SameRequest
<1> HIDE DEF p
<1>3. SameRequest(p, row) /\ p.seen = obs /\ p.denied = row.denied  BY <1>1, <1>2 DEF SameRequest
<1>4. LET x == [p EXCEPT !.denied = FALSE] IN
        SameRequest(x, row) /\ x.status = st /\ x.seen = obs /\ x.denied = FALSE
  BY <1>2, <1>3 DEF SameRequest, Rows
<1> QED  BY <1>2, <1>3, <1>4 DEF p, s

LEMMA ApplyShape == ASSUME Shape, Apply PROVE Shape'
<1>1. worker.pc = "apply" /\ UNCHANGED <<modern, server, route, others>>  BY DEF Apply
<1>2. worker.pc \in Acting  BY <1>1 DEF Acting
<1>3. /\ worker.pc # "idle" /\ row \in Rows /\ local \in State /\ worker.obs \in State
      /\ worker.st \in Open \cup Closed /\ faults \in 0..MaxFaults /\ MaxFaults \in Nat
  BY <1>2, ActingOwns, ShapeIsTyped, ShareAssumption DEF Shape, Typed, Turns
<1>4. PICK r : /\ WorkerEnds(r) /\ local' \in State /\ faults' \in 0..MaxFaults
               /\ r \in {[Settled(Seen(row, worker.obs), worker.st) EXCEPT !.denied = FALSE],
                         Settled(row, "waiting_local"),
                         Settled(Seen(row, worker.obs), "waiting_local"),
                         Settled(Seen(row, worker.obs), "rejected")}
  BY <1>3 DEF Apply
<1>5. {"waiting_local", "rejected"} \subseteq Open \cup Closed  BY DEF Open, Closed
<1>6. SameRequest(r, row)
  <2> DEFINE x == [Settled(Seen(row, worker.obs), worker.st) EXCEPT !.denied = FALSE]
  <2>1. SameRequest(x, row)  BY <1>3, RowIsApplied
  <2>2. SameRequest(Settled(row, "waiting_local"), row)  BY <1>3, <1>5, RowIsSettled
  <2>3. SameRequest(Settled(Seen(row, worker.obs), "waiting_local"), row)
    BY <1>3, <1>5, RowIsApplied
  <2>4. SameRequest(Settled(Seen(row, worker.obs), "rejected"), row)
    BY <1>3, <1>5, RowIsApplied
  <2> HIDE DEF x
  <2> QED  BY <1>4, <2>1, <2>2, <2>3, <2>4 DEF x
<1>7. Typed' /\ TurnsAreTaken' /\ row'.seq = row.seq /\ (row' = row \/ row' = r)
  BY <1>1, <1>2, <1>3, <1>4, <1>6, WorkerEndsTyped
<1>8. row'.cmd = row.cmd  BY <1>6, <1>7 DEF SameRequest
<1> QED  BY <1>1, <1>7, <1>8, ShapeAtRest

\* A late command's arrival is a call of it.
LEMMA LateMoves ==
    ASSUME Shape, LateArrives
    PROVE  \E c \in late :
             /\ c \in Cmds /\ c.seq \in 1..row.seq /\ c.name \in Steps
             /\ Moves(c) /\ late' = late \ {c}
<1>1. PICK c \in late : \E x \in Executed(c) :
        /\ Change(c, x.s, x.new)
        /\ late' = late \ {c}
        /\ UNCHANGED <<modern, local, row, lock, route, worker, faults, others>>
  BY DEF LateArrives
<1>2. PICK x \in Executed(c) : Change(c, x.s, x.new) /\ modern' = modern  BY <1>1
<1>3. c \in Cmds /\ c.seq \in 1..row.seq /\ c.name \in Steps /\ srv \in State
  BY DEF Shape, CommandsAreMade, ShareTypeOK
<1>4. Done(c, x.s, x.new)  BY <1>3, ExecutedIsDone
<1>5. Moves(c)  BY <1>2, <1>4, ChangeMoves DEF Shape
<1> QED  BY <1>1, <1>3, <1>5

LEMMA LateArrivesShape == ASSUME Shape, LateArrives PROVE Shape'
<1>1. UNCHANGED <<modern, local, row, lock, route, worker, faults, others>>  BY DEF LateArrives
<1>2. PICK c \in late :
             /\ c \in Cmds /\ c.seq \in 1..row.seq /\ c.name \in Steps
             /\ Moves(c) /\ late' = late \ {c}
  BY LateMoves
<1>3. Typed'  BY <1>1, ShapeIsTyped DEF Shape, Typed
<1>4. TurnsAreTaken'  BY <1>1 DEF Shape, TurnsAreTaken
<1>5. row.cmd # NoCmd => modern /\ row.cmd.seq = row.seq /\ row.cmd.name \in Steps
      /\ (modern /\ route.pc = "send" => row.cmd = route.cmd)
  BY DEF Shape, CommandsAreMade
<1>6. modern /\ route.pc = "send" => row.cmd = route.cmd  BY DEF Shape, CommandsAreMade
<1> QED  BY <1>1, <1>2, <1>3, <1>4, <1>5, <1>6, ShapeMoves

\* What a change by other people amounts to.
LEMMA OthersMove ==
    ASSUME Shape, OtherChanges
    PROVE  /\ srv' \in State /\ srv' # srv /\ rev' = (IF modern THEN rev + 1 ELSE rev)
           /\ was' = was \cup {srv'} /\ by' = 0 /\ top' = top /\ receipts' = receipts
           /\ UNCHANGED <<modern, late, local, row, lock, route, worker, faults>>
           /\ others' \in 0..MaxOthers
<1>1. PICK name \in AllKinds : \E s \in Effect(name, srv) \ {srv} :
        /\ Change(NoCmd, s, FALSE)
        /\ others' = others + 1
        /\ UNCHANGED <<modern, late, local, row, lock, route, worker, faults>>
  BY DEF OtherChanges
<1>2. PICK s \in Effect(name, srv) \ {srv} :
        /\ Change(NoCmd, s, FALSE)
        /\ others' = others + 1
        /\ UNCHANGED <<modern, late, local, row, lock, route, worker, faults>>
  BY <1>1
<1>3. s \in State /\ s # srv
  BY EffectIsState, ConstantsAreTyped DEF Shape, ShareTypeOK
<1>4. others' \in 0..MaxOthers
  BY <1>2, ShareAssumption DEF OtherChanges, Shape, ShareTypeOK
<1>5. /\ srv' = s /\ rev' = (IF modern THEN rev + 1 ELSE rev) /\ was' = was \cup {s}
      /\ receipts' = receipts
  BY <1>2, <1>3 DEF Change, RevisionAfter
<1>6. NoCmd.seq = 0  BY DEF NoCmd
<1>7. top \in Nat  BY ShareAssumption DEF Shape, ShareTypeOK
<1>8. by' = 0 /\ top' = top  BY <1>2, <1>3, <1>6, <1>7 DEF Change
<1> QED  BY <1>2, <1>3, <1>4, <1>5, <1>8

LEMMA OtherChangesShape == ASSUME Shape, OtherChanges PROVE Shape'
<1>1. /\ srv' \in State /\ rev' = (IF modern THEN rev + 1 ELSE rev) /\ was' = was \cup {srv'}
      /\ by' = 0 /\ top' = top /\ receipts' = receipts
      /\ UNCHANGED <<modern, late, local, row, lock, route, worker, faults>>
      /\ others' \in 0..MaxOthers
  BY OthersMove
<1>2. ShareTypeOK'  BY <1>1, ShareAssumption DEF Shape, ShareTypeOK
<1>3. TurnsAreTaken'  BY <1>1 DEF Shape, TurnsAreTaken
<1>4. CommandsAreMade'  BY <1>1 DEF Shape, CommandsAreMade
<1> QED  BY <1>2, <1>3, <1>4 DEF Shape

\* What time and a restart do to the row.
LEMMA TimeMarksRow ==
    ASSUME row \in Rows, LeaseExpires \/ WatchEnds \/ Restart
    PROVE  /\ SameRequest(row', row) /\ row'.status = row.status /\ row'.seen = row.seen
           /\ row'.denied = row.denied
           /\ row'.token = row.token \/ Restart
<1>1. CASE LeaseExpires  BY <1>1 DEF LeaseExpires, SameRequest, Rows
<1>2. CASE WatchEnds  BY <1>2 DEF WatchEnds, SameRequest, Rows
<1>3. CASE Restart  BY <1>3 DEF Restart, SameRequest, Rows
<1> QED  BY <1>1, <1>2, <1>3

LEMMA TimeShape == ASSUME Shape, LeaseExpires \/ WatchEnds PROVE Shape'
<1>1. UNCHANGED <<modern, server, local, lock, route, worker, faults, others>>
  BY DEF LeaseExpires, WatchEnds
<1>2. row \in Rows /\ Typed  BY ShapeIsTyped DEF Shape, Typed
<1>3. /\ row' \in Rows /\ row'.seq = row.seq /\ row'.status = row.status /\ row'.token = row.token
      /\ row'.cmd = row.cmd
  BY <1>2 DEF LeaseExpires, WatchEnds, Rows
<1>4. Typed'  BY <1>1, <1>2, <1>3 DEF Typed
<1>5. TurnsAreTaken'  BY <1>1, <1>3 DEF Shape, TurnsAreTaken
<1> QED  BY <1>1, <1>3, <1>4, <1>5, ShapeAtRest

LEMMA RestartShape == ASSUME Shape, Restart PROVE Shape'
<1>1. /\ UNCHANGED <<modern, server, local, others>>
      /\ lock' = "free" /\ route' = NoRoute /\ worker' = NoWorker
  BY DEF Restart
<1>2. row \in Rows /\ Typed  BY ShapeIsTyped DEF Shape, Typed
<1>3. row' \in Rows /\ row'.seq = row.seq /\ row'.status = row.status /\ row'.cmd = row.cmd
  BY <1>2, TimeMarksRow DEF SameRequest
<1>4. faults' \in 0..MaxFaults  BY <1>2, ShareAssumption DEF Restart, Typed
<1>5. /\ route' \in Routes /\ worker' \in Turns /\ route'.pc = "idle" /\ worker'.pc = "idle"
      /\ worker'.seq = 0
  BY <1>1, ConstantsAreTyped DEF NoRoute, NoWorker
<1>6. Typed'  BY <1>1, <1>2, <1>3, <1>4, <1>5 DEF Typed
<1>7. TurnsAreTaken'
  BY <1>1, <1>2, <1>3, <1>5, ShareAssumption DEF Shape, TurnsAreTaken, Acting, Rows
<1>8. route'.pc # "send"  BY <1>5
<1> QED  BY <1>1, <1>3, <1>6, <1>7, <1>8, ShapeAtRest

LEMMA ShapeStep == Shape /\ [Next]_vars => Shape'
<1> SUFFICES ASSUME Shape, [Next]_vars PROVE Shape'  OBVIOUS
<1>1. CASE UNCHANGED vars
  <2>1. ShareTypeOK'  BY <1>1 DEF vars, server, Shape, ShareTypeOK
  <2>2. TurnsAreTaken'  BY <1>1 DEF vars, Shape, TurnsAreTaken
  <2>3. CommandsAreMade'  BY <1>1 DEF vars, server, Shape, CommandsAreMade
  <2> QED  BY <2>1, <2>2, <2>3 DEF Shape
<1>2. CASE Next
  BY <1>2, PrepareShape, RouteFreezesShape, RouteSendsShape, RouteReadsShape,
     CompositePublishedShape, RouteSettlesShape, ClaimShape, ObserveShape, EnterShape,
     ReplayShape, JudgeShape, RecheckShape, CleanUpShape, ApplyShape, LateArrivesShape,
     OtherChangesShape, TimeShape, RestartShape
     DEF Next, RouteNext, WorkerNext
<1> QED  BY <1>1, <1>2

\* The type invariant of the card, its ledger row and the turns (part of
\* ShareAndSwapTypeOK): for every number of requests, faults and changes.
THEOREM ShareTypeCorrect == ShareSpec => []ShareTypeOK
<1>1. Init => Shape  BY ShareTypeInit DEF Shape
<1>2. Shape /\ [Next]_vars => Shape'  BY ShapeStep
<1>3. Shape => ShareTypeOK  BY DEF Shape
<1> QED  BY <1>1, <1>2, <1>3, PTL DEF ShareSpec


-----------------------------------------------------------------------------
(***************************************************************************)
(* What each action does to the row and to the turns.                      *)
(***************************************************************************)

\* Nothing happens at the server.
Rests == UNCHANGED <<modern, srv, rev, receipts, late, was, by, top>>

\* The row keeps what its readers are told.
Tells(x, r) == SameRequest(x, r) /\ x.seen = r.seen /\ x.denied = r.denied

LEMMA PrepareFacts ==
    ASSUME Shape, NEW k \in Kinds, Prepare(k)
    PROVE  /\ UNCHANGED <<modern, srv, rev, receipts, late, by, top, local, worker>> /\ was' = {srv}
           /\ row'.seq = row.seq + 1 /\ row'.cmd = NoCmd /\ row'.status = "prepared"
           /\ row'.denied = FALSE /\ row'.seen = "none" /\ row'.base = local
           /\ row'.kind = "composite" => local = "private" /\ route'.cmd.name = "publish"
           /\ route'.pc = "freeze" /\ route'.cmd.exp = 0 /\ route'.cmd.seq = row.seq + 1
           /\ route.pc = "idle" /\ worker.pc \notin Acting
<1> DEFINE composite == k = "finalize" /\ local = "private"
           kind == IF composite THEN "composite" ELSE k
           name == IF composite THEN "publish" ELSE k
           c == [seq |-> row.seq + 1, exp |-> 0, name |-> name]
<1>1. k \in AllKinds  BY ShareAssumption
<1>2. kind = "composite" => local = "private" /\ name = "publish"  BY <1>1 DEF AllKinds
<1>3. row' = [NoRow EXCEPT !.seq = row.seq + 1, !.base = local, !.status = "prepared",
                           !.kind = kind, !.token = "route", !.lease = TRUE]
      /\ route' = [NoRoute EXCEPT !.pc = "freeze", !.cmd = c]
  BY DEF Prepare
<1>4. c.seq = row.seq + 1 /\ c.exp = 0 /\ c.name = name  OBVIOUS
<1> HIDE DEF c, kind, name
<1>5. /\ row'.seq = row.seq + 1 /\ row'.cmd = NoCmd /\ row'.status = "prepared"
      /\ row'.denied = FALSE /\ row'.seen = "none" /\ row'.base = local /\ row'.kind = kind
  BY <1>3 DEF NoRow
<1>6. route'.pc = "freeze" /\ route'.cmd = c  BY <1>3 DEF NoRoute
<1>7. lock = "free" /\ route.pc = "idle"  BY DEF Prepare
<1>8. worker.pc \notin Acting  BY <1>7 DEF Shape, TurnsAreTaken
<1>9. UNCHANGED <<modern, srv, rev, receipts, late, by, top, local, worker>> /\ was' = {srv}
  BY DEF Prepare
<1> QED  BY <1>2, <1>4, <1>5, <1>6, <1>7, <1>8, <1>9

LEMMA RouteFreezesFacts ==
    ASSUME Shape, RouteFreezes
    PROVE  /\ Rests /\ UNCHANGED <<local, worker>> /\ route.pc = "freeze"
           /\ row'.seq = row.seq /\ row'.kind = row.kind /\ row'.base = row.base
           /\ row'.status = row.status /\ row'.seen = row.seen /\ row'.denied = row.denied
           /\ \/ /\ route'.pc = "send" /\ route'.cmd.name = route.cmd.name
                 /\ route'.cmd.seq = route.cmd.seq
                 /\ route'.cmd.exp = (IF Pinned THEN route.cmd.exp ELSE rev)
                 /\ row'.cmd = IF modern THEN route'.cmd ELSE row.cmd
              \/ route' = NoRoute /\ row'.cmd = row.cmd
<1> DEFINE c == [route.cmd EXCEPT !.exp = IF Pinned THEN @ ELSE rev]
<1>1. row \in Rows /\ route \in Routes /\ route.pc = "freeze"
  BY ShapeIsTyped DEF Shape, Typed, RouteFreezes
<1>2. c.seq = route.cmd.seq /\ c.name = route.cmd.name
      /\ c.exp = (IF Pinned THEN route.cmd.exp ELSE rev)
  BY <1>1 DEF Routes, Cmds
<1>3. Rests /\ UNCHANGED <<local, worker>>  BY DEF RouteFreezes, Rests, server
<1>4. CASE /\ row' = IF modern THEN [row EXCEPT !.cmd = c] ELSE row
           /\ route' = [route EXCEPT !.pc = "send", !.cmd = c]
  <2> HIDE DEF c
  <2>1. route'.pc = "send" /\ route'.cmd = c  BY <1>1, <1>4 DEF Routes
  <2>2. /\ row'.seq = row.seq /\ row'.kind = row.kind /\ row'.base = row.base
        /\ row'.status = row.status /\ row'.seen = row.seen /\ row'.denied = row.denied
        /\ row'.cmd = IF modern THEN c ELSE row.cmd
    BY <1>1, <1>4 DEF Rows
  <2> QED  BY <1>1, <1>2, <1>3, <2>1, <2>2
<1>5. CASE RouteEnds /\ row' \in {row, Released(row)}
  <2>1. /\ SameRequest(Released(row), row) /\ Released(row).status = row.status
        /\ Released(row).seen = row.seen /\ Released(row).denied = row.denied
    BY <1>1, RowIsReleased
  <2>2. route' = NoRoute  BY <1>5 DEF RouteEnds
  <2> QED  BY <1>1, <1>3, <1>5, <2>1, <2>2 DEF SameRequest
<1> QED  BY <1>4, <1>5 DEF RouteFreezes

\* The revision that a successful answer of a modern server carries is that of
\* a receipt of the command.
LEMMA ReceiptRevisionIsReceipts ==
    ASSUME Shape, modern, NEW c \in Cmds, c.name \in Steps, NEW a \in Replies(c), Called(c, a),
           modern' = modern, a.res = "ok"
    PROVE  \E q \in receipts' : q.seq = c.seq /\ q.name = c.name /\ q.rev = ReceiptRevision(c, a)
<1>1. Moves(c) /\ Done(c, a.s, a.new)  BY CallMoves
<1>2. srv \in State /\ faults \in 0..MaxFaults /\ MaxFaults \in Nat
  BY ShareAssumption DEF Shape, ShareTypeOK
<1>3. a.new \/ ReceiptsOf(c) # {}  BY <1>2, RepliesAreDone
<1>4. CASE a.new
  <2>1. [seq |-> c.seq, name |-> c.name, rev |-> RevisionAfter(a.s)] \in receipts'
    BY <1>4 DEF Called, Change
  <2>2. ReceiptRevision(c, a) = RevisionAfter(a.s)  BY <1>4 DEF ReceiptRevision
  <2> QED  BY <2>1, <2>2
<1>5. CASE ~a.new
  <2> DEFINE q == CHOOSE q \in ReceiptsOf(c) : TRUE
  <2>1. q \in ReceiptsOf(c)  BY <1>3, <1>5
  <2>2. ReceiptRevision(c, a) = q.rev  BY <1>3, <1>5 DEF ReceiptRevision
  <2> HIDE DEF q
  <2>3. q \in receipts' /\ q.seq = c.seq /\ q.name = c.name
    BY <1>1, <2>1 DEF ReceiptsOf, Moves
  <2> QED  BY <2>2, <2>3
<1> QED  BY <1>4, <1>5

LEMMA RouteSendsFacts ==
    ASSUME Shape, RouteSends
    PROVE  /\ route.pc = "send" /\ UNCHANGED <<modern, local, worker>> /\ Moves(route.cmd)
           /\ \/ /\ row' = row /\ late' = late /\ route'.pc \in {"read", "settle"}
                 /\ route'.cmd.name = route.cmd.name /\ route'.cmd.seq = route.cmd.seq
                 /\ modern \/ route.cmd.name # "publish" => route'.obs = srv'
                 /\ modern /\ route'.pc = "read" => route.cmd.name # "publish"
                 /\ modern /\ route'.pc = "settle" => route.cmd.name = "publish"
                 /\ modern => \E q \in receipts' : /\ q.seq = route.cmd.seq /\ q.name = route.cmd.name
                                                   /\ q.rev = route'.cmd.exp
              \/ /\ route' = NoRoute /\ late' \subseteq late \cup {route.cmd}
                 /\ SameRequest(row', row)
                 /\ row'.seen = row.seen \/ (row.kind = "composite" /\ row'.seen = "shared")
                 /\ row'.status # "rejected" => row'.denied = row.denied
                 /\ row'.status = "rejected" => late' = late
<1> DEFINE c == route.cmd
<1>1. row \in Rows /\ route \in Routes /\ route.pc = "send" /\ modern' = modern
      /\ UNCHANGED <<local, worker>> /\ row.status \in Open
  BY ShapeIsTyped DEF Shape, Typed, RouteSends, TurnsAreTaken
<1>2. /\ c \in Cmds /\ c.seq = row.seq /\ c.name \in Steps  BY <1>1, RouteCommand
<1> HIDE DEF c
<1>3. PICK a \in Replies(c) :
        /\ Called(c, a)
        /\ IF a.res = "ok"
           THEN /\ route' = [route EXCEPT
                      !.pc = IF modern /\ route.cmd.name # "publish" THEN "read" ELSE "settle",
                      !.cmd.exp = ReceiptRevision(c, a),
                      !.obs = IF ~modern /\ route.cmd.name = "publish" THEN Assumed ELSE a.s]
                /\ UNCHANGED <<row, lock>>
           ELSE /\ row' = IF RouteOwns THEN RouteFails(a.res) ELSE row
                /\ RouteEnds
  BY DEF RouteSends, c
<1>4. /\ Moves(c) /\ late' \subseteq late \cup {c} /\ srv' = a.s
      /\ a.res \in {"ok", "refused", "auth", "unknown"}
      /\ a.res = "ok" => late' = late
      /\ a.res = "refused" => late' = late
  BY <1>1, <1>2, <1>3, CallMoves
<1>5. CASE a.res = "ok"
  <2> DEFINE n == ReceiptRevision(c, a)
             pc == IF modern /\ route.cmd.name # "publish" THEN "read" ELSE "settle"
             obs == IF ~modern /\ route.cmd.name = "publish" THEN Assumed ELSE a.s
  <2>1. route' = [route EXCEPT !.pc = pc, !.cmd.exp = n, !.obs = obs] /\ row' = row
    BY <1>3, <1>5
  <2>2. modern => \E q \in receipts' : q.seq = c.seq /\ q.name = c.name /\ q.rev = n
    BY <1>1, <1>2, <1>3, <1>5, ReceiptRevisionIsReceipts
  <2>3. /\ pc \in {"read", "settle"}
        /\ modern /\ pc = "read" => route.cmd.name # "publish"
        /\ modern /\ pc = "settle" => route.cmd.name = "publish"
        /\ modern \/ route.cmd.name # "publish" => obs = srv'
    BY <1>4
  <2> HIDE DEF n, pc, obs
  <2>4. /\ route'.pc = pc /\ route'.obs = obs /\ route'.cmd.exp = n
        /\ route'.cmd.name = route.cmd.name /\ route'.cmd.seq = route.cmd.seq
    BY <1>1, <2>1 DEF Routes, Cmds
  <2> QED  BY <1>1, <1>4, <1>5, <2>1, <2>2, <2>3, <2>4 DEF c
<1>6. CASE a.res # "ok"
  <2>1. route' = NoRoute /\ row' = IF RouteOwns THEN RouteFails(a.res) ELSE row
    BY <1>3, <1>6 DEF RouteEnds
  <2>2. /\ SameRequest(RouteFails(a.res), row)
        /\ RouteFails(a.res).status # "rejected" => RouteFails(a.res).denied = row.denied
        /\ RouteFails(a.res).seen = row.seen \/ (Pinned /\ RouteFails(a.res).seen = "shared")
        /\ RouteFails(a.res).status = "rejected" => a.res = "refused" \/ row.status = "rejected"
    BY <1>1, <1>4, <1>6, RouteFailsShape
  <2>3. row.status # "rejected"  BY <1>1 DEF Open
  <2>4. SameRequest(row, row)  BY <1>1 DEF SameRequest
  <2> QED  BY <1>1, <1>4, <2>1, <2>2, <2>3, <2>4 DEF c, Pinned
<1> QED  BY <1>5, <1>6

LEMMA RouteReadsFacts ==
    ASSUME Shape, RouteReads
    PROVE  /\ Rests /\ UNCHANGED <<local, worker>> /\ route.pc = "read"
           /\ \/ /\ row' = row /\ route'.pc = "settle" /\ route'.obs = srv /\ route'.cmd = route.cmd
              \/ /\ route' = NoRoute /\ Tells(row', row) /\ row'.status # "rejected"
<1>1. row \in Rows /\ route \in Routes /\ route.pc = "read" /\ row.status \in Open
  BY ShapeIsTyped DEF Shape, Typed, RouteReads, TurnsAreTaken
<1>2. Rests /\ UNCHANGED <<local, worker>>  BY DEF RouteReads, Rests, server
<1>3. CASE route' = [route EXCEPT !.pc = "settle", !.obs = srv] /\ UNCHANGED <<row, lock, faults>>
  BY <1>1, <1>2, <1>3 DEF Routes
<1>4. ASSUME NEW res \in {"auth", "unknown"},
             row' = IF RouteOwns THEN RouteFails(res) ELSE row, RouteEnds
      PROVE  route' = NoRoute /\ Tells(row', row) /\ row'.status # "rejected"
  <2>1. RouteFails(res) = IF res = "auth" THEN Settled(row, "auth_required") ELSE Released(row)
    BY <1>4 DEF RouteFails
  <2>2. /\ Tells(Settled(row, "auth_required"), row)
        /\ Settled(row, "auth_required").status = "auth_required"
    BY <1>1, RowIsSettled DEF Tells, Open
  <2>3. Tells(Released(row), row) /\ Released(row).status = row.status
    BY <1>1, RowIsReleased DEF Tells
  <2>4. row.status # "rejected"  BY <1>1 DEF Open
  <2>5. Tells(row, row)  BY <1>1 DEF Tells, SameRequest
  <2>6. row' \in {row, Settled(row, "auth_required"), Released(row)}  BY <1>4, <2>1
  <2> QED  BY <1>4, <2>2, <2>3, <2>4, <2>5, <2>6 DEF RouteEnds
<1> QED  BY <1>1, <1>2, <1>3, <1>4 DEF RouteReads

LEMMA CompositePublishedFacts ==
    ASSUME Shape, CompositePublished
    PROVE  /\ Rests /\ UNCHANGED worker
           /\ route.pc = "settle" /\ row.kind = "composite" /\ route.cmd.name = "publish"
           /\ SameRequest(row', row) /\ row'.status = row.status /\ row'.denied = row.denied
           /\ row'.seen \in {row.seen, route.obs} /\ local' \in {local, route.obs}
           /\ \/ route' = NoRoute
              \/ /\ route'.pc = "freeze" /\ route'.cmd.name = "finalize"
                 /\ route'.cmd.exp = route.cmd.exp /\ route'.cmd.seq = route.cmd.seq
<1>1. row \in Rows /\ route \in Routes /\ route.obs \in State
  BY ShapeIsTyped DEF Shape, Typed, Routes
<1>2. Rests /\ UNCHANGED worker  BY DEF CompositePublished, Rests, server
<1> DEFINE s == Seen(row, route.obs)
           x == [s EXCEPT !.partial = TRUE]
<1>3. SameRequest(s, row) /\ s.status = row.status /\ s.seen = route.obs /\ s.denied = row.denied
  BY <1>1, RowIsSeen
<1>4. local' \in {local, route.obs} /\ row' \in {row, x}  BY DEF CompositePublished
<1> HIDE DEF s
<1>5. SameRequest(x, row) /\ x.status = row.status /\ x.seen = route.obs /\ x.denied = row.denied
  BY <1>3 DEF SameRequest, Rows
<1> HIDE DEF x
<1>6. \/ route' = NoRoute
      \/ /\ route'.pc = "freeze" /\ route'.cmd.name = "finalize"
         /\ route'.cmd.exp = route.cmd.exp /\ route'.cmd.seq = route.cmd.seq
  <2>1. CASE route' = [route EXCEPT !.pc = "freeze", !.cmd.name = "finalize"]
    BY <1>1, <2>1 DEF Routes, Cmds
  <2> QED  BY <2>1 DEF CompositePublished, RouteEnds
<1>7. SameRequest(row, row)  BY <1>1 DEF SameRequest
<1> QED  BY <1>2, <1>4, <1>5, <1>6, <1>7 DEF CompositePublished

LEMMA RouteSettlesFacts ==
    ASSUME Shape, RouteSettles
    PROVE  /\ Rests /\ UNCHANGED worker /\ route.pc = "settle" /\ route' = NoRoute
           /\ SameRequest(row', row) /\ row'.status # "rejected" /\ row'.denied = row.denied
           /\ row'.seen \in {row.seen, route.obs} /\ local' \in {local, route.obs}
           /\ ~(row.kind = "composite" /\ route.cmd.name = "publish")
<1>1. row \in Rows /\ route.obs \in State /\ route.pc = "settle" /\ row.status \in Open
  BY ShapeIsTyped DEF Shape, Typed, Routes, RouteSettles, TurnsAreTaken
<1> DEFINE s == Seen(row, route.obs)
           st == IF Landed THEN "converged" ELSE "superseded"
<1>2. SameRequest(s, row) /\ s.seen = route.obs /\ s.denied = row.denied  BY <1>1, RowIsSeen
<1>3. row' \in {row, Settled(s, st), Settled(s, "waiting_local")} /\ local' \in {local, route.obs}
  BY DEF RouteSettles
<1>4. {st, "waiting_local"} \subseteq Open \cup Closed /\ "rejected" \notin {st, "waiting_local"}
  BY DEF Open, Closed
<1> HIDE DEF s, st
<1>5. \A t \in {st, "waiting_local"} :
        /\ SameRequest(Settled(s, t), s) /\ Settled(s, t).status = t
        /\ Settled(s, t).seen = s.seen /\ Settled(s, t).denied = s.denied
  BY <1>2, <1>4, RowIsSettled DEF SameRequest
<1>6. SameRequest(row, row) /\ row.status # "rejected"  BY <1>1 DEF SameRequest, Open
<1>7. Rests /\ UNCHANGED worker /\ route' = NoRoute
      /\ ~(row.kind = "composite" /\ route.cmd.name = "publish")
  BY DEF RouteSettles, Rests, server, RouteEnds
<1> QED  BY <1>1, <1>2, <1>3, <1>4, <1>5, <1>6, <1>7 DEF SameRequest

\* The fields of a turn that goes on.
LEMMA WorkerGoesFacts ==
    ASSUME Shape, NEW pc, NEW obs, NEW st, NEW exp, WorkerGoes(pc, obs, st, exp)
    PROVE  /\ worker'.pc = pc /\ worker'.obs = obs /\ worker'.exp = exp
           /\ worker'.seq = worker.seq
BY ShapeIsTyped DEF Shape, Typed, Turns, WorkerGoes

LEMMA ClaimFacts ==
    ASSUME Shape, Claim
    PROVE  /\ Rests /\ UNCHANGED <<local, route>> /\ Tells(row', row) /\ row'.status = row.status
           /\ worker'.pc = "observe" /\ worker'.exp = 0
BY ShapeIsTyped DEF Shape, Typed, Claim, Rests, server, Rows, Tells, SameRequest, NoWorker

\* The turn ends with one of these rows.
LEMMA WorkerEndsFacts ==
    ASSUME Shape, NEW r, WorkerEnds(r), Tells(r, row)
    PROVE  /\ worker' = NoWorker /\ Tells(row', row)
           /\ row'.status = row.status \/ row'.status = r.status
<1>1. row \in Rows  BY ShapeIsTyped DEF Shape, Typed
<1>2. Tells(row, row)  BY <1>1 DEF Tells, SameRequest
<1> QED  BY <1>2 DEF WorkerEnds

\* Giving the row back, or waiting for a login, tells its readers nothing new.
LEMMA GivingBackTells ==
    ASSUME NEW w \in Rows
    PROVE  \A r \in {Released(w), AuthRequired(w)} :
              Tells(r, w) /\ (r.status = w.status \/ r.status \in Open)
<1>1. Tells(Released(w), w) /\ Released(w).status = w.status  BY RowIsReleased DEF Tells
<1>2. Tells(AuthRequired(w), w) /\ AuthRequired(w).status \in Open
  BY RowWaitsForLogin DEF Tells, Open
<1> QED  BY <1>1, <1>2

LEMMA ObserveFacts ==
    ASSUME Shape, Observe
    PROVE  /\ Rests /\ UNCHANGED <<local, route>> /\ Tells(row', row)
           /\ row'.status = row.status \/ row'.status \in Open
           /\ \/ worker'.pc = "lock" /\ worker'.obs = srv /\ worker'.exp = 0
              \/ worker' = NoWorker
<1>1. row \in Rows  BY ShapeIsTyped DEF Shape, Typed
<1>2. Rests /\ UNCHANGED <<local, route>>  BY DEF Observe, Rests, server
<1>3. CASE WorkerGoes("lock", srv, "pending", 0) /\ row' = row
  BY <1>1, <1>2, <1>3, WorkerGoesFacts DEF Tells, SameRequest
<1>4. ASSUME NEW r \in {Released(row), AuthRequired(row)}, WorkerEnds(r)
      PROVE  Tells(row', row) /\ (row'.status = row.status \/ row'.status \in Open) /\ worker' = NoWorker
  BY <1>1, <1>4, GivingBackTells, WorkerEndsFacts
<1> QED  BY <1>2, <1>3, <1>4 DEF Observe

LEMMA EnterFacts ==
    ASSUME Shape, Enter
    PROVE  /\ Rests /\ UNCHANGED <<local, route>> /\ Tells(row', row) /\ row'.status = row.status
           /\ worker.pc = "lock"
           /\ \/ /\ worker'.pc = "act" /\ worker'.obs \in {worker.obs, srv} /\ worker'.exp = 0
                 /\ worker.seq = row.seq
              \/ worker' = NoWorker
<1>1. row \in Rows  BY ShapeIsTyped DEF Shape, Typed
<1>2. Rests /\ UNCHANGED <<local, route>> /\ worker.pc = "lock"  BY DEF Enter, Rests, server
<1>3. CASE WorkerOwns
  <2>1. PICK obs \in {worker.obs, srv} : WorkerGoes("act", obs, "pending", 0)  BY <1>3 DEF Enter
  <2>2. worker'.pc = "act" /\ worker'.obs = obs /\ worker'.exp = 0  BY <2>1, WorkerGoesFacts
  <2>3. Tells(row', row) /\ row'.status = row.status
    BY <1>1, <1>3 DEF Enter, Tells, SameRequest, Rows
  <2> QED  BY <1>2, <1>3, <2>2, <2>3 DEF WorkerOwns, Owns
<1>4. CASE ~WorkerOwns
  BY <1>1, <1>2, <1>4 DEF Enter, WorkerEnds, Tells, SameRequest
<1> QED  BY <1>3, <1>4

\* What compensating does to the turn.
Compensated(obs, exp, next) ==
    \/ /\ worker'.pc = "apply" /\ worker'.obs = obs /\ worker'.exp = 0
       /\ obs \in {"final", "private"} \/ row.base # "private"
    \/ worker'.pc = next /\ worker'.obs = obs /\ worker'.exp = exp

LEMMA CompensateFacts ==
    ASSUME Shape, NEW obs, NEW exp, NEW next, Compensate(obs, exp, next)
    PROVE  Compensated(obs, exp, next)
<1>1. CASE WorkerGoes(next, obs, "pending", exp)
  BY <1>1, WorkerGoesFacts DEF Compensated
<1>2. CASE (WorkerGoes("apply", obs, "converged", 0) \/ WorkerGoes("apply", obs, "rejected", 0))
           /\ (obs \in {"final", "private"} \/ row.base # "private")
  BY <1>2, WorkerGoesFacts DEF Compensated
<1> QED  BY <1>1, <1>2 DEF Compensate

LEMMA ReplayFacts ==
    ASSUME Shape, Replay
    PROVE  /\ worker.pc = "act" /\ modern /\ row.cmd.seq = row.seq /\ row.cmd.name \in Steps
           /\ row.cmd # NoCmd /\ UNCHANGED <<modern, local, route>>
           /\ Moves(row.cmd) /\ late' \subseteq late \cup {row.cmd} /\ Tells(row', row)
           /\ \/ /\ row' = row /\ row.kind = "composite" /\ row.cmd.name = "publish"
                 /\ \E q \in receipts' : Compensated(srv', q.rev, "cleanup")
              \/ /\ row' = row /\ worker'.pc = "apply" /\ worker'.obs = srv' /\ worker'.exp = 0
                 /\ \E q \in receipts' : q.seq = row.cmd.seq /\ q.name = row.cmd.name
              \/ /\ row' = row /\ row.kind = "composite" /\ row.cmd.name = "finalize"
                 /\ UNCHANGED <<srv, rev, receipts, late>>
                 /\ Compensated(srv, row.cmd.exp, "cleanup")
              \/ /\ worker' = NoWorker /\ row'.status = "rejected"
                 /\ ~(row.kind = "composite" /\ row.cmd.name = "finalize")
              \/ worker' = NoWorker /\ row'.status \in Open
<1>1. worker.pc = "act" /\ row.cmd # NoCmd /\ UNCHANGED <<modern, local, route>>  BY DEF Replay
<1>2. row \in Rows /\ row.status \in Open
  BY <1>1, ActingOwns, ShapeIsTyped DEF Shape, Typed, Acting
<1>3. /\ row.cmd \in Cmds /\ row.cmd.seq = row.seq /\ row.cmd.name \in Steps /\ modern
  BY <1>1, StoredCommand
<1>4. PICK a \in Replies(row.cmd) : Called(row.cmd, a) /\ ReplayAnswered(a)  BY ReplayCases
<1>5. /\ Moves(row.cmd) /\ late' \subseteq late \cup {row.cmd} /\ srv' = a.s
      /\ a.res = "refused" => srv' = srv /\ receipts' = receipts /\ late' = late
  BY <1>1, <1>3, <1>4, CallMoves
<1>6. Tells(row, row)  BY <1>2 DEF Tells, SameRequest
<1>7. a.res = "ok" => \E q \in receipts' : /\ q.seq = row.cmd.seq /\ q.name = row.cmd.name
                                           /\ q.rev = ReceiptRevision(row.cmd, a)
  BY <1>1, <1>3, <1>4, ReceiptRevisionIsReceipts
<1>8. CASE /\ a.res = "ok" /\ row.kind = "composite" /\ row.cmd.name = "publish"
           /\ Compensate(a.s, ReceiptRevision(row.cmd, a), "cleanup") /\ UNCHANGED <<row, lock>>
  <2> DEFINE n == ReceiptRevision(row.cmd, a)
  <2>1. PICK q \in receipts' : q.rev = n  BY <1>7, <1>8
  <2>2. Compensate(srv', n, "cleanup")  BY <1>5, <1>8
  <2> HIDE DEF n
  <2>3. Compensated(srv', n, "cleanup")  BY <2>2, CompensateFacts
  <2> QED  BY <1>1, <1>3, <1>5, <1>6, <1>8, <2>1, <2>3
<1>9. CASE a.res = "ok" /\ WorkerGoes("apply", a.s, Terminal(row, a.s, FALSE), 0) /\ UNCHANGED <<row, lock>>
  BY <1>1, <1>3, <1>5, <1>6, <1>7, <1>9, WorkerGoesFacts
<1>10. CASE /\ a.res = "refused" /\ row.kind = "composite" /\ row.cmd.name = "finalize"
            /\ Compensate(srv, row.cmd.exp, "cleanup") /\ UNCHANGED <<row, lock>>
  <2>1. Compensated(srv, row.cmd.exp, "cleanup")  BY <1>10, CompensateFacts
  <2>2. UNCHANGED <<srv, rev, receipts, late>>  BY <1>5, <1>10 DEF Moves
  <2> QED  BY <1>1, <1>3, <1>5, <1>6, <1>10, <2>1, <2>2
<1>11. CASE /\ ~(row.kind = "composite" /\ row.cmd.name = "finalize")
            /\ WorkerEnds(Settled(row, "rejected"))
  <2>1. Tells(Settled(row, "rejected"), row) /\ Settled(row, "rejected").status = "rejected"
    BY <1>2, RowIsSettled DEF Tells, Closed
  <2>2. row' = Settled(row, "rejected") /\ worker' = NoWorker
    BY <1>1, <1>11, ActingOwns DEF WorkerEnds, Acting
  <2> QED  BY <1>1, <1>3, <1>5, <1>11, <2>1, <2>2
<1>12. CASE WorkerEnds(AuthRequired(row)) \/ WorkerEnds(Released(row))
  <2>1. PICK r \in {Released(row), AuthRequired(row)} : WorkerEnds(r)  BY <1>12
  <2>2. Tells(r, row) /\ (r.status = row.status \/ r.status \in Open)  BY <1>2, GivingBackTells
  <2>3. worker' = NoWorker /\ Tells(row', row) /\ row'.status \in Open
    BY <1>2, <2>1, <2>2, WorkerEndsFacts
  <2> QED  BY <1>1, <1>3, <1>5, <2>3
<1> QED  BY <1>4, <1>8, <1>9, <1>10, <1>11, <1>12 DEF ReplayAnswered

LEMMA JudgeFacts ==
    ASSUME Shape, Judge
    PROVE  /\ worker.pc = "act" /\ row.cmd = NoCmd /\ Rests /\ UNCHANGED <<local, route>>
           /\ SameRequest(row', row) /\ row'.denied = row.denied /\ row'.status \in Open
           /\ row'.seen \in {row.seen, worker.obs}
           /\ \/ worker' = NoWorker
              \/ worker'.pc \in {"apply", "recheck"} /\ worker'.obs = worker.obs /\ worker'.exp = 0
<1>1. worker.pc = "act" /\ row.cmd = NoCmd /\ Rests /\ UNCHANGED <<local, route>>
  BY DEF Judge, Rests, server
<1>2. row \in Rows /\ row.status \in Open /\ worker.obs \in State
  BY <1>1, ActingOwns, ShapeIsTyped DEF Shape, Typed, Acting, Turns
<1>3. PICK st \in Open \cup Closed : Judged(st)  BY JudgeCases
<1>4. SameRequest(row, row)  BY <1>2 DEF SameRequest
<1>5. CASE Compensate(worker.obs, 0, "recheck") /\ UNCHANGED <<row, lock>>
  <2>1. Compensated(worker.obs, 0, "recheck")  BY <1>5, CompensateFacts
  <2> QED  BY <1>1, <1>2, <1>4, <1>5, <2>1 DEF Compensated
<1>6. CASE WorkerEnds([Settled(row, "prepared") EXCEPT !.unknown = TRUE, !.seen = worker.obs])
  <2> DEFINE r == [Settled(row, "prepared") EXCEPT !.unknown = TRUE, !.seen = worker.obs]
  <2>1. SameRequest(r, row) /\ r.status = "prepared" /\ r.seen = worker.obs /\ r.denied = row.denied
    BY <1>2, RowIsWatched
  <2>2. WorkerEnds(r)  BY <1>6
  <2> HIDE DEF r
  <2>3. worker' = NoWorker /\ row' \in {row, r}  BY <2>2 DEF WorkerEnds
  <2> QED  BY <1>1, <1>2, <1>4, <2>1, <2>3 DEF Open
<1>7. CASE /\ row' = row \/ \E e \in BOOLEAN :
                   row' = [Seen(row, worker.obs) EXCEPT !.status = "pending", !.expired = e]
           /\ WorkerGoes("apply", worker.obs, st, 0) /\ UNCHANGED lock
  <2>1. worker'.pc = "apply" /\ worker'.obs = worker.obs /\ worker'.exp = 0
    BY <1>7, WorkerGoesFacts
  <2>2. CASE row' = row  BY <1>1, <1>2, <1>4, <2>1, <2>2
  <2>3. ASSUME NEW e \in BOOLEAN,
               row' = [Seen(row, worker.obs) EXCEPT !.status = "pending", !.expired = e]
        PROVE  SameRequest(row', row) /\ row'.denied = row.denied /\ row'.status \in Open
               /\ row'.seen = worker.obs
    <3>1. /\ SameRequest(row', row) /\ row'.status = "pending" /\ row'.seen = worker.obs
          /\ row'.denied = row.denied
      BY <1>2, <2>3, RowIsJudged
    <3> QED  BY <3>1 DEF Open
  <2> QED  BY <1>1, <1>7, <2>1, <2>2, <2>3
<1> QED  BY <1>3, <1>5, <1>6, <1>7 DEF Judged

LEMMA RecheckFacts ==
    ASSUME Shape, Recheck
    PROVE  /\ worker.pc = "recheck" /\ Rests /\ UNCHANGED <<local, route>>
           /\ Tells(row', row) /\ row'.status \in Open
           /\ \/ worker' = NoWorker
              \/ worker'.pc \in {"apply", "cleanup"} /\ worker'.obs = srv /\ worker'.exp = 0
<1>1. worker.pc = "recheck" /\ Rests /\ UNCHANGED <<local, route>>
  BY DEF Recheck, Rests, server
<1>2. row \in Rows /\ row.status \in Open
  BY <1>1, ActingOwns, ShapeIsTyped DEF Shape, Typed, Acting
<1>3. CASE Compensate(srv, 0, "cleanup") /\ UNCHANGED <<row, lock, faults>>
  <2>1. Compensated(srv, 0, "cleanup")  BY <1>3, CompensateFacts
  <2> QED  BY <1>1, <1>2, <1>3, <2>1 DEF Compensated, Tells, SameRequest
<1>4. ASSUME NEW r \in {Released(row), AuthRequired(row)}, WorkerEnds(r)
      PROVE  Tells(row', row) /\ row'.status \in Open /\ worker' = NoWorker
  <2>1. Tells(r, row) /\ (r.status = row.status \/ r.status \in Open)
    BY <1>2, <1>4, GivingBackTells
  <2> QED  BY <1>2, <1>4, <2>1, WorkerEndsFacts
<1> QED  BY <1>1, <1>3, <1>4 DEF Recheck

LEMMA CleanUpFacts ==
    ASSUME Shape, CleanUp
    PROVE  /\ worker.pc = "cleanup" /\ UNCHANGED <<modern, local, route>>
           /\ Moves(CleanUpCommand) /\ late' \subseteq late \cup {CleanUpCommand}
           /\ row'.seq = row.seq /\ row'.kind = row.kind /\ row'.base = row.base
           /\ row'.seen = row.seen /\ row'.denied = row.denied /\ row'.status \in Open
           /\ row'.cmd = (IF modern THEN CleanUpCommand ELSE row.cmd)
           /\ \/ worker' = NoWorker
              \/ worker'.pc = "apply" /\ worker'.obs = srv' /\ worker'.exp = 0
<1>1. worker.pc = "cleanup" /\ UNCHANGED <<modern, local, route>>  BY DEF CleanUp
<1>2. row \in Rows /\ row.status \in Open
  BY <1>1, ActingOwns, ShapeIsTyped DEF Shape, Typed, Acting
<1> DEFINE c == CleanUpCommand
           w == CleanUpRow
<1>3. /\ c \in Cmds /\ c.name = "cleanup" /\ w \in Rows
      /\ w.cmd = (IF modern THEN c ELSE row.cmd) /\ w.seq = row.seq /\ w.status = row.status
      /\ w.seen = row.seen /\ w.denied = row.denied /\ w.kind = row.kind /\ w.base = row.base
      /\ \E a \in Replies(c) : Called(c, a) /\ CleanUpAnswered(a)
  BY CleanUpCases
<1> HIDE DEF c, w
<1>4. PICK a \in Replies(c) : Called(c, a) /\ CleanUpAnswered(a)  BY <1>3
<1>5. c.name \in Steps  BY <1>3 DEF Steps
<1>6. /\ Moves(c) /\ late' \subseteq late \cup {c} /\ srv' = a.s
      /\ a.res = "refused" => srv' = srv
  BY <1>1, <1>3, <1>4, <1>5, CallMoves
<1>7. \/ \E st : WorkerGoes("apply", srv', st, 0) /\ row' = w
      \/ \E r \in {Released(w), AuthRequired(w)} : WorkerEnds(r)
  BY <1>4, <1>6 DEF CleanUpAnswered, w
<1>8. CASE \E st : WorkerGoes("apply", srv', st, 0) /\ row' = w
  <2>1. worker'.pc = "apply" /\ worker'.obs = srv' /\ worker'.exp = 0  BY <1>8, WorkerGoesFacts
  <2> QED  BY <1>1, <1>2, <1>3, <1>6, <1>8, <2>1 DEF c
<1>9. ASSUME NEW r \in {Released(w), AuthRequired(w)}, WorkerEnds(r)
      PROVE  /\ worker' = NoWorker /\ row'.seq = row.seq /\ row'.kind = row.kind
             /\ row'.base = row.base /\ row'.seen = row.seen /\ row'.denied = row.denied
             /\ row'.status \in Open /\ row'.cmd = w.cmd
  <2>1. Tells(r, w) /\ (r.status = w.status \/ r.status \in Open)  BY <1>3, <1>9, GivingBackTells
  <2>2. row' = r /\ worker' = NoWorker  BY <1>1, <1>9, ActingOwns DEF WorkerEnds, Acting
  <2> QED  BY <1>2, <1>3, <2>1, <2>2 DEF Tells, SameRequest
<1> QED  BY <1>1, <1>3, <1>6, <1>7, <1>8, <1>9 DEF c

LEMMA ApplyFacts ==
    ASSUME Shape, Apply
    PROVE  /\ worker.pc = "apply" /\ Rests /\ UNCHANGED route /\ worker' = NoWorker
           /\ SameRequest(row', row) /\ local' \in {local, worker.obs}
           /\ row'.seen \in {row.seen, worker.obs} /\ row'.denied \in {row.denied, FALSE}
           /\ row'.status = "rejected" => row'.seen = worker.obs
<1>1. worker.pc = "apply" /\ Rests /\ UNCHANGED route /\ worker' = NoWorker
      /\ local' \in {local, worker.obs}
  BY DEF Apply, Rests, server, WorkerEnds
<1>2. row \in Rows /\ worker.obs \in State /\ worker.st \in Open \cup Closed
  BY ShapeIsTyped DEF Shape, Typed, Turns
<1> DEFINE x == [Settled(Seen(row, worker.obs), worker.st) EXCEPT !.denied = FALSE]
           y == Settled(row, "waiting_local")
           z == Settled(Seen(row, worker.obs), "waiting_local")
           v == Settled(Seen(row, worker.obs), "rejected")
<1>3. SameRequest(x, row) /\ x.seen = worker.obs /\ x.denied = FALSE  BY <1>2, RowIsApplied
<1>4. {"waiting_local", "rejected"} \subseteq Open \cup Closed  BY DEF Open, Closed
<1>5. /\ SameRequest(y, row) /\ y.seen = row.seen /\ y.denied = row.denied
      /\ y.status = "waiting_local"
  BY <1>2, <1>4, RowIsSettled
<1>6. SameRequest(z, row) /\ z.seen = worker.obs /\ z.denied = row.denied
  <2>1. row \in Rows /\ worker.obs \in State /\ "waiting_local" \in Open \cup Closed
    BY <1>2, <1>4
  <2>. QED  BY <2>1, RowIsApplied
<1>7. SameRequest(v, row) /\ v.seen = worker.obs /\ v.denied = row.denied
  <2>1. row \in Rows /\ worker.obs \in State /\ "rejected" \in Open \cup Closed
    BY <1>2, <1>4
  <2>. QED  BY <2>1, RowIsApplied
<1>8. WorkerEnds(x) \/ WorkerEnds(y) \/ WorkerEnds(z) \/ WorkerEnds(v)  BY DEF Apply
<1> HIDE DEF x, y, z, v
<1>9. row' \in {x, y, z, v}
  BY <1>1, <1>8, ActingOwns DEF WorkerEnds, Acting
<1> QED  BY <1>1, <1>3, <1>5, <1>6, <1>7, <1>9

LEMMA TimeFacts ==
    ASSUME Shape, LeaseExpires \/ WatchEnds \/ Restart
    PROVE  /\ Rests /\ UNCHANGED local /\ Tells(row', row) /\ row'.status = row.status
           /\ UNCHANGED <<route, worker>> \/ (route' = NoRoute /\ worker' = NoWorker)
<1>1. row \in Rows  BY ShapeIsTyped DEF Shape, Typed
<1>2. Tells(row', row) /\ row'.status = row.status  BY <1>1, TimeMarksRow DEF Tells
<1> QED  BY <1>2 DEF LeaseExpires, WatchEnds, Restart, Rests, server


-----------------------------------------------------------------------------
(***************************************************************************)
(* Revisions, and what was seen of the card.                               *)
(***************************************************************************)

\* The numbers the revisions are compared as.
LEMMA RevisionsAreNats ==
    ASSUME Shape
    PROVE  /\ rev \in Nat /\ top \in Nat /\ row.seq \in Nat /\ top <= row.seq
           /\ row.cmd.exp \in Nat /\ route.cmd.exp \in Nat /\ worker.exp \in Nat
           /\ \A c \in late : c.exp \in Nat /\ c.seq \in Nat
           /\ \A q \in receipts : q.rev \in Nat /\ q.seq \in Nat
<1>1. row.cmd \in Cmds /\ route.cmd \in Cmds /\ worker.exp \in Nat /\ row.seq \in Nat
  BY ShapeIsTyped, ShareAssumption DEF Shape, Typed, Rows, Routes, Turns
<1>2. /\ \A c \in late : c.exp \in Nat /\ c.seq \in Nat
      /\ \A q \in receipts : q.rev \in Nat /\ q.seq \in Nat
      /\ rev \in Nat /\ top \in Nat
  BY ShareAssumption DEF Shape, ShareTypeOK, Cmds
<1> QED  BY <1>1, <1>2 DEF Shape, CommandsAreMade, Cmds

\* A call of a command that expects no more than the card's revision.
LEMMA RevisionsMove ==
    ASSUME Shape, RevisionsGrow, modern, NEW c, Moves(c), c.exp \in Nat, c.seq \in Nat,
           c.exp <= rev, c.seq < top => c.exp < rev, late' \subseteq late \cup {c}
    PROVE  /\ rev' \in Nat /\ rev <= rev'
           /\ \A q \in receipts' : q.rev <= rev'
           /\ \A d \in late' : d.exp <= rev' /\ (d.seq < top' => d.exp < rev')
<1>1. rev \in Nat /\ (\A d \in late : d.exp \in Nat) /\ (\A q \in receipts : q.rev \in Nat)
  BY RevisionsAreNats
<1>2. \/ srv' = srv /\ rev' = rev /\ top' = top
      \/ srv' # srv /\ rev' = rev + 1
  BY DEF Moves
<1>3. \A q \in receipts' : q \in receipts \/ q.rev = rev'  BY DEF Moves
<1>4. \A d \in late \cup {c} : d.exp \in Nat /\ d.exp <= rev /\ (d.seq < top => d.exp < rev)
  BY <1>1 DEF RevisionsGrow
<1>5. \A q \in receipts : q.rev <= rev  BY DEF RevisionsGrow
<1> QED  BY <1>1, <1>2, <1>3, <1>4, <1>5

\* The server stays what it is.
LEMMA ModernStays == ASSUME [Next]_vars PROVE modern' = modern
<1>1. ASSUME NEW k \in Kinds, Prepare(k) PROVE modern' = modern  BY <1>1 DEF Prepare
<1>2. RouteFreezes \/ RouteSends \/ RouteReads => modern' = modern
  BY DEF RouteFreezes, RouteSends, RouteReads
<1>3. CompositePublished \/ RouteSettles => modern' = modern  BY DEF CompositePublished, RouteSettles
<1>4. Claim \/ Observe \/ Enter \/ Replay => modern' = modern  BY DEF Claim, Observe, Enter, Replay
<1>5. Judge \/ Recheck \/ CleanUp \/ Apply => modern' = modern  BY DEF Judge, Recheck, CleanUp, Apply
<1>6. LateArrives \/ OtherChanges => modern' = modern  BY DEF LateArrives, OtherChanges
<1>7. LeaseExpires \/ WatchEnds \/ Restart \/ UNCHANGED vars => modern' = modern
  BY DEF LeaseExpires, WatchEnds, Restart, vars
<1> QED  BY <1>1, <1>2, <1>3, <1>4, <1>5, <1>6, <1>7 DEF Next, RouteNext, WorkerNext

LEMMA RevisionsStep == Shape /\ RevisionsGrow /\ [Next]_vars => RevisionsGrow'
<1> SUFFICES ASSUME Shape, RevisionsGrow, [Next]_vars, modern
             PROVE  /\ row'.cmd.exp <= rev' /\ route'.cmd.exp <= rev' /\ worker'.exp <= rev'
                    /\ \A q \in receipts' : q.rev <= rev'
                    /\ \A c \in late' : c.exp <= rev' /\ (c.seq < top' => c.exp < rev')
  BY ModernStays DEF RevisionsGrow
<1> DEFINE Goal ==
      /\ row'.cmd.exp <= rev' /\ route'.cmd.exp <= rev' /\ worker'.exp <= rev'
      /\ \A q \in receipts' : q.rev <= rev'
      /\ \A c \in late' : c.exp <= rev' /\ (c.seq < top' => c.exp < rev')
<1>1. /\ rev \in Nat /\ top \in Nat /\ row.seq \in Nat /\ top <= row.seq
      /\ row.cmd.exp \in Nat /\ route.cmd.exp \in Nat /\ worker.exp \in Nat
      /\ \A c \in late : c.exp \in Nat /\ c.seq \in Nat
      /\ \A q \in receipts : q.rev \in Nat /\ q.seq \in Nat
  BY RevisionsAreNats
<1>2. /\ row.cmd.exp <= rev /\ route.cmd.exp <= rev /\ worker.exp <= rev
      /\ \A q \in receipts : q.rev <= rev
      /\ \A c \in late : c.exp <= rev /\ (c.seq < top => c.exp < rev)
  BY DEF RevisionsGrow
<1>3. NoCmd.exp = 0 /\ NoRoute.cmd.exp = 0 /\ NoWorker.exp = 0 /\ 0 <= rev
  BY <1>1 DEF NoCmd, NoRoute, NoWorker
\* A step that leaves the server alone.
<1>4. ASSUME Rests,
             row'.cmd.exp \in {row.cmd.exp, 0, rev},
             route'.cmd.exp \in {route.cmd.exp, 0, rev},
             worker'.exp \in {worker.exp, 0}
      PROVE  Goal
  <2>1. UNCHANGED <<rev, receipts, late, top>>  BY <1>4 DEF Rests
  <2>2. rev <= rev  BY <1>1
  <2>3. row'.cmd.exp <= rev /\ route'.cmd.exp <= rev /\ worker'.exp <= rev
    BY <1>2, <1>3, <1>4, <2>2
  <2> QED  BY <1>2, <2>1, <2>3
\* A step that calls command c.
<1>5. ASSUME NEW c, Moves(c), c.exp \in Nat, c.seq = row.seq, c.exp <= rev,
             late' \subseteq late \cup {c},
             row'.cmd.exp \in {row.cmd.exp, c.exp, 0},
             route'.cmd.exp \in {route.cmd.exp, 0} \/ \E q \in receipts' : q.rev = route'.cmd.exp,
             worker'.exp \in {worker.exp, row.cmd.exp, 0} \/ \E q \in receipts' : q.rev = worker'.exp
      PROVE  Goal
  <2>1. c.seq \in Nat /\ (c.seq < top => c.exp < rev)  BY <1>1, <1>5
  <2>2. /\ rev' \in Nat /\ rev <= rev'
        /\ \A q \in receipts' : q.rev <= rev'
        /\ \A d \in late' : d.exp <= rev' /\ (d.seq < top' => d.exp < rev')
    BY <1>5, <2>1, RevisionsMove
  <2>3. row'.cmd.exp <= rev'  BY <1>1, <1>2, <1>3, <1>5, <2>2
  <2>4. route'.cmd.exp <= rev'
    <3>1. CASE route'.cmd.exp \in {route.cmd.exp, 0}  BY <1>1, <1>2, <1>3, <2>2, <3>1
    <3>2. CASE \E q \in receipts' : q.rev = route'.cmd.exp  BY <2>2, <3>2
    <3> QED  BY <1>5, <3>1, <3>2
  <2>5. worker'.exp <= rev'
    <3>1. CASE worker'.exp \in {worker.exp, row.cmd.exp, 0}  BY <1>1, <1>2, <1>3, <2>2, <3>1
    <3>2. CASE \E q \in receipts' : q.rev = worker'.exp  BY <2>2, <3>2
    <3> QED  BY <1>5, <3>1, <3>2
  <2> QED  BY <2>2, <2>3, <2>4, <2>5
<1> SUFFICES Goal  BY DEF Goal
<1> HIDE DEF Goal
<1>6. ASSUME NEW k \in Kinds, Prepare(k) PROVE Goal
  <2>1. /\ UNCHANGED <<modern, srv, rev, receipts, late, by, top, worker>>
        /\ row'.cmd = NoCmd /\ route'.cmd.exp = 0
    BY <1>6, PrepareFacts
  <2> QED  BY <1>2, <1>3, <2>1 DEF Goal
<1>7. CASE RouteFreezes
  <2>1. /\ Rests /\ worker' = worker
        /\ \/ /\ route'.cmd.exp = (IF Pinned THEN route.cmd.exp ELSE rev)
              /\ row'.cmd = IF modern THEN route'.cmd ELSE row.cmd
           \/ route' = NoRoute /\ row'.cmd = row.cmd
    BY <1>7, RouteFreezesFacts
  <2>2. CASE route' = NoRoute /\ row'.cmd = row.cmd  BY <1>3, <1>4, <2>1, <2>2
  <2>3. CASE route'.cmd.exp \in {route.cmd.exp, rev} /\ row'.cmd = route'.cmd
    <3>1. UNCHANGED <<rev, receipts, late, top>>  BY <2>1 DEF Rests
    <3>2. rev <= rev  BY <1>1
    <3>3. route'.cmd.exp <= rev /\ row'.cmd.exp <= rev  BY <1>2, <2>3, <3>2
    <3> QED  BY <1>2, <2>1, <3>1, <3>3 DEF Goal
  <2> QED  BY <2>1, <2>2, <2>3
<1>8. CASE RouteSends
  <2>1. Moves(route.cmd) /\ route.pc # "idle" /\ UNCHANGED worker
    BY <1>8, RouteSendsFacts
  <2>2. route.cmd.seq = row.seq  BY <2>1, RouteCommand
  <2>3. /\ late' \subseteq late \cup {route.cmd} /\ row'.cmd = row.cmd
        /\ route'.cmd.exp = 0 \/ \E q \in receipts' : q.rev = route'.cmd.exp
    BY <1>3, <1>8, RouteSendsFacts DEF SameRequest
  <2> QED  BY <1>1, <1>2, <1>5, <2>1, <2>2, <2>3
<1>9. CASE RouteReads
  <2>1. Rests /\ worker' = worker /\ row'.cmd = row.cmd /\ (route'.cmd = route.cmd \/ route' = NoRoute)
    BY <1>9, RouteReadsFacts DEF Tells, SameRequest
  <2> QED  BY <1>3, <1>4, <2>1
<1>10. CASE CompositePublished
  <2>1. /\ Rests /\ worker' = worker /\ row'.cmd = row.cmd
        /\ route'.cmd.exp = route.cmd.exp \/ route' = NoRoute
    BY <1>10, CompositePublishedFacts DEF SameRequest
  <2> QED  BY <1>3, <1>4, <2>1
<1>11. CASE RouteSettles
  <2>1. Rests /\ worker' = worker /\ row'.cmd = row.cmd /\ route' = NoRoute
    BY <1>11, RouteSettlesFacts DEF SameRequest
  <2> QED  BY <1>3, <1>4, <2>1
<1>12. CASE Claim
  <2>1. Rests /\ worker'.exp = 0 /\ row'.cmd = row.cmd /\ route' = route
    BY <1>12, ClaimFacts DEF Tells, SameRequest
  <2> QED  BY <1>4, <2>1
<1>13. CASE Observe
  <2>1. Rests /\ (worker'.exp = 0 \/ worker' = NoWorker) /\ row'.cmd = row.cmd /\ route' = route
    BY <1>13, ObserveFacts DEF Tells, SameRequest
  <2> QED  BY <1>3, <1>4, <2>1
<1>14. CASE Enter
  <2>1. Rests /\ (worker'.exp = 0 \/ worker' = NoWorker) /\ row'.cmd = row.cmd /\ route' = route
    BY <1>14, EnterFacts DEF Tells, SameRequest
  <2> QED  BY <1>3, <1>4, <2>1
<1>15. CASE Replay
  <2>1. /\ Moves(row.cmd) /\ row.cmd.seq = row.seq /\ route' = route
        /\ late' \subseteq late \cup {row.cmd} /\ row'.cmd = row.cmd
    BY <1>15, ReplayFacts DEF Tells, SameRequest
  <2>2. worker'.exp = 0 \/ worker'.exp = row.cmd.exp \/ \E q \in receipts' : q.rev = worker'.exp
    <3>1. \/ \E q \in receipts' : Compensated(srv', q.rev, "cleanup")
          \/ worker'.exp = 0 \/ worker' = NoWorker
          \/ Compensated(srv, row.cmd.exp, "cleanup")
      BY <1>15, ReplayFacts
    <3> QED  BY <1>3, <3>1 DEF Compensated
  <2> QED  BY <1>1, <1>2, <1>5, <2>1, <2>2
<1>16. CASE Judge
  <2>1. Rests /\ (worker'.exp = 0 \/ worker' = NoWorker) /\ row'.cmd = row.cmd /\ route' = route
    BY <1>16, JudgeFacts DEF SameRequest
  <2> QED  BY <1>3, <1>4, <2>1
<1>17. CASE Recheck
  <2>1. Rests /\ (worker'.exp = 0 \/ worker' = NoWorker) /\ row'.cmd = row.cmd /\ route' = route
    BY <1>17, RecheckFacts DEF Tells, SameRequest
  <2> QED  BY <1>3, <1>4, <2>1
<1>18. CASE CleanUp
  <2>1. /\ Moves(CleanUpCommand) /\ late' \subseteq late \cup {CleanUpCommand}
        /\ row'.cmd = (IF modern THEN CleanUpCommand ELSE row.cmd) /\ route' = route
        /\ worker' = NoWorker \/ worker'.exp = 0
    BY <1>18, CleanUpFacts
  <2>2. CleanUpCommand.exp = worker.exp /\ CleanUpCommand.seq = row.seq
    BY <1>18, CleanUpCases
  <2>3. row'.cmd.exp \in {row.cmd.exp, CleanUpCommand.exp} /\ worker'.exp = 0
    BY <1>3, <2>1
  <2> QED  BY <1>1, <1>2, <1>5, <2>1, <2>2, <2>3
<1>19. CASE Apply
  <2>1. Rests /\ worker' = NoWorker /\ row'.cmd = row.cmd /\ route' = route
    BY <1>19, ApplyFacts DEF SameRequest
  <2> QED  BY <1>3, <1>4, <2>1
<1>20. CASE LateArrives
  <2>1. PICK c \in late : Moves(c) /\ late' = late \ {c}  BY <1>20, LateMoves
  <2>2. UNCHANGED <<row, route, worker>>  BY <1>20 DEF LateArrives
  <2>3. /\ rev' \in Nat /\ rev <= rev'
        /\ \A q \in receipts' : q.rev <= rev'
        /\ \A d \in late' : d.exp <= rev' /\ (d.seq < top' => d.exp < rev')
    BY <1>1, <1>2, <2>1, <2>2, RevisionsMove
  <2> QED  BY <1>1, <1>2, <2>2, <2>3 DEF Goal
<1>21. CASE OtherChanges
  <2>1. /\ UNCHANGED <<late, row, route, worker, receipts, top>> /\ rev' = rev + 1
    BY <1>21, OthersMove
  <2> QED  BY <1>1, <1>2, <2>1 DEF Goal
<1>22. CASE LeaseExpires \/ WatchEnds \/ Restart
  <2>1. /\ Rests /\ row'.cmd = row.cmd
        /\ UNCHANGED <<route, worker>> \/ (route' = NoRoute /\ worker' = NoWorker)
    BY <1>22, TimeFacts DEF Tells, SameRequest
  <2> QED  BY <1>3, <1>4, <2>1
<1>23. CASE UNCHANGED vars
  BY <1>1, <1>2, <1>23 DEF vars, server, Goal
<1> QED
  BY <1>6, <1>7, <1>8, <1>9, <1>10, <1>11, <1>12, <1>13, <1>14, <1>15, <1>16, <1>17, <1>18,
     <1>19, <1>20, <1>21, <1>22, <1>23 DEF Next, RouteNext, WorkerNext


\* What a step must do to what was answered and observed.
LEMMA FreshStays ==
    ASSUME AnswersAreFresh, modern' = modern, was \subseteq was', srv' \in was',
           row'.kind = row.kind, row'.seq = row.seq,
           \/ row'.seen = row.seen \/ row'.seen \in was'
           \/ ~modern \/ (row.kind = "composite" /\ row'.seen = "shared"),
           \/ route' = route \/ route'.pc # "settle" \/ route'.obs \in was'
           \/ ~modern /\ route'.cmd.name = "publish",
           worker' = worker \/ worker'.pc \in {"idle", "observe"} \/ worker'.obs \in was'
    PROVE  AnswersAreFresh'
<1>1. /\ route.pc = "settle" => route.obs \in was' \/ (~modern /\ route.cmd.name = "publish")
      /\ worker.pc \in Acting \cup {"lock"} /\ worker.seq = row.seq => worker.obs \in was'
      /\ modern /\ row.seen # "none" =>
           row.seen \in was' \/ (row.kind = "composite" /\ row.seen = "shared")
  BY DEF AnswersAreFresh
<1>2. route'.pc = "settle" => route'.obs \in was' \/ (~modern /\ route'.cmd.name = "publish")
  BY <1>1
<1>3. worker'.pc \in Acting \cup {"lock"} /\ worker'.seq = row'.seq => worker'.obs \in was'
  BY <1>1 DEF Acting
<1>4. modern /\ row'.seen # "none" =>
        row'.seen \in was' \/ (row'.kind = "composite" /\ row'.seen = "shared")
  BY <1>1
<1> QED  BY <1>2, <1>3, <1>4 DEF AnswersAreFresh

\* What the worker holds while it acts is fresh, and so is an answer.
LEMMA ActingIsFresh ==
    ASSUME Shape, AnswersAreFresh
    PROVE  /\ worker.pc \in Acting => worker.obs \in was
           /\ route.pc = "settle" => route.obs \in was \/ (~modern /\ route.cmd.name = "publish")
           /\ srv \in was
BY DEF AnswersAreFresh, Shape, TurnsAreTaken

LEMMA AnswersAreFreshStep == Shape /\ AnswersAreFresh /\ [Next]_vars => AnswersAreFresh'
<1> SUFFICES ASSUME Shape, AnswersAreFresh, [Next]_vars PROVE AnswersAreFresh'  OBVIOUS
<1>1. modern' = modern  BY ModernStays
<1>2. /\ worker.pc \in Acting => worker.obs \in was
      /\ route.pc = "settle" => route.obs \in was \/ (~modern /\ route.cmd.name = "publish")
      /\ srv \in was
  BY ActingIsFresh
<1>3. Rests => was \subseteq was' /\ srv' \in was' /\ was' = was  BY <1>2 DEF Rests
<1>4. \A c : Moves(c) => was \subseteq was' /\ srv' \in was'  BY DEF Moves
<1>5. NoRoute.pc = "idle" /\ NoWorker.pc = "idle"  BY DEF NoRoute, NoWorker
<1>6. ASSUME NEW k \in Kinds, Prepare(k) PROVE AnswersAreFresh'
  <2>1. /\ UNCHANGED <<srv, worker>> /\ was' = {srv} /\ row'.seq = row.seq + 1
        /\ row'.seen = "none" /\ route'.pc = "freeze" /\ worker.pc \notin Acting
    BY <1>6, PrepareFacts
  <2>2. worker.seq <= row.seq /\ row.seq \in Nat /\ worker.seq \in Nat
    BY ShapeIsTyped, ShareAssumption DEF Shape, Typed, TurnsAreTaken, Rows, Turns
  <2>3. worker'.seq # row'.seq  BY <2>1, <2>2
  <2> QED  BY <2>1, <2>3 DEF AnswersAreFresh
<1>7. CASE RouteFreezes
  <2>1. /\ Rests /\ worker' = worker /\ row'.kind = row.kind /\ row'.seq = row.seq
        /\ row'.seen = row.seen /\ route'.pc # "settle"
    BY <1>5, <1>7, RouteFreezesFacts
  <2> QED  BY <1>1, <1>3, <2>1, FreshStays
<1>8. CASE RouteSends
  <2>1. /\ Moves(route.cmd) /\ worker' = worker
        /\ \/ row' = row /\ route'.pc \in {"read", "settle"} /\ route'.cmd.name = route.cmd.name
              /\ (modern \/ route.cmd.name # "publish" => route'.obs = srv')
           \/ /\ route' = NoRoute /\ SameRequest(row', row)
              /\ row'.seen = row.seen \/ (row.kind = "composite" /\ row'.seen = "shared")
    BY <1>8, RouteSendsFacts
  <2>2. row'.kind = row.kind /\ row'.seq = row.seq
        /\ (row'.seen = row.seen \/ (row.kind = "composite" /\ row'.seen = "shared"))
    BY <2>1 DEF SameRequest
  <2>3. route'.pc # "settle" \/ route'.obs \in was' \/ (~modern /\ route'.cmd.name = "publish")
    BY <1>4, <1>5, <2>1
  <2> QED  BY <1>1, <1>4, <2>1, <2>2, <2>3, FreshStays
<1>9. CASE RouteReads
  <2>1. /\ Rests /\ worker' = worker /\ (route'.obs = srv \/ route' = NoRoute)
        /\ row' = row \/ Tells(row', row)
    BY <1>9, RouteReadsFacts
  <2>2. row'.kind = row.kind /\ row'.seq = row.seq /\ row'.seen = row.seen
    BY <2>1 DEF Tells, SameRequest
  <2>3. route'.pc # "settle" \/ route'.obs \in was'  BY <1>2, <1>3, <1>5, <2>1
  <2> QED  BY <1>1, <1>3, <2>1, <2>2, <2>3, FreshStays
<1>10. CASE CompositePublished
  <2>1. /\ Rests /\ worker' = worker /\ route.pc = "settle"
        /\ row'.kind = row.kind /\ row'.seq = row.seq
        /\ row'.seen \in {row.seen, route.obs} /\ route'.pc # "settle"
    BY <1>5, <1>10, CompositePublishedFacts DEF SameRequest
  <2> QED  BY <1>1, <1>2, <1>3, <2>1, FreshStays
<1>11. CASE RouteSettles
  <2>1. /\ Rests /\ worker' = worker /\ route.pc = "settle"
        /\ row'.kind = row.kind /\ row'.seq = row.seq
        /\ row'.seen \in {row.seen, route.obs} /\ route'.pc # "settle"
    BY <1>5, <1>11, RouteSettlesFacts DEF SameRequest
  <2> QED  BY <1>1, <1>2, <1>3, <2>1, FreshStays
<1>12. CASE Claim
  <2>1. /\ Rests /\ route' = route /\ worker'.pc = "observe"
        /\ row'.kind = row.kind /\ row'.seq = row.seq /\ row'.seen = row.seen
    BY <1>12, ClaimFacts DEF Tells, SameRequest
  <2> QED  BY <1>1, <1>3, <2>1, FreshStays
<1>13. CASE Observe
  <2>1. /\ Rests /\ route' = route /\ (worker'.obs = srv \/ worker' = NoWorker)
        /\ row'.kind = row.kind /\ row'.seq = row.seq /\ row'.seen = row.seen
    BY <1>13, ObserveFacts DEF Tells, SameRequest
  <2> QED  BY <1>1, <1>2, <1>3, <1>5, <2>1, FreshStays
<1>14. CASE Enter
  <2>1. /\ Rests /\ route' = route /\ worker.pc = "lock"
        /\ \/ worker'.obs \in {worker.obs, srv} /\ worker.seq = row.seq
           \/ worker' = NoWorker
        /\ row'.kind = row.kind /\ row'.seq = row.seq /\ row'.seen = row.seen
    BY <1>14, EnterFacts DEF Tells, SameRequest
  <2>2. worker.seq = row.seq => worker.obs \in was  BY <2>1 DEF AnswersAreFresh
  <2> QED  BY <1>1, <1>2, <1>3, <1>5, <2>1, <2>2, FreshStays
<1>15. CASE Replay
  <2>1. Moves(row.cmd) /\ route' = route /\ Tells(row', row)  BY <1>15, ReplayFacts
  <2>2. row'.kind = row.kind /\ row'.seq = row.seq /\ row'.seen = row.seen
    BY <2>1 DEF Tells, SameRequest
  <2>3. worker'.obs = srv' \/ worker' = NoWorker
    <3>1. \/ \E q \in receipts' : Compensated(srv', q.rev, "cleanup")
          \/ worker'.obs = srv' \/ worker' = NoWorker
          \/ srv' = srv /\ Compensated(srv, row.cmd.exp, "cleanup")
      BY <1>15, ReplayFacts
    <3> QED  BY <3>1 DEF Compensated
  <2> QED  BY <1>1, <1>4, <1>5, <2>1, <2>2, <2>3, FreshStays
<1>16. CASE Judge
  <2>1. /\ worker.pc = "act" /\ Rests /\ route' = route
        /\ (worker'.obs = worker.obs \/ worker' = NoWorker)
        /\ row'.kind = row.kind /\ row'.seq = row.seq /\ row'.seen \in {row.seen, worker.obs}
    BY <1>16, JudgeFacts DEF SameRequest
  <2>2. worker.obs \in was  BY <1>2, <2>1 DEF Acting
  <2> QED  BY <1>1, <1>3, <1>5, <2>1, <2>2, FreshStays
<1>17. CASE Recheck
  <2>1. /\ Rests /\ route' = route /\ (worker'.obs = srv \/ worker' = NoWorker)
        /\ row'.kind = row.kind /\ row'.seq = row.seq /\ row'.seen = row.seen
    BY <1>17, RecheckFacts DEF Tells, SameRequest
  <2> QED  BY <1>1, <1>2, <1>3, <1>5, <2>1, FreshStays
<1>18. CASE CleanUp
  <2>1. /\ Moves(CleanUpCommand) /\ route' = route /\ (worker'.obs = srv' \/ worker' = NoWorker)
        /\ row'.kind = row.kind /\ row'.seq = row.seq /\ row'.seen = row.seen
    BY <1>18, CleanUpFacts
  <2> QED  BY <1>1, <1>4, <1>5, <2>1, FreshStays
<1>19. CASE Apply
  <2>1. /\ worker.pc = "apply" /\ Rests /\ route' = route /\ worker' = NoWorker
        /\ row'.kind = row.kind /\ row'.seq = row.seq /\ row'.seen \in {row.seen, worker.obs}
    BY <1>19, ApplyFacts DEF SameRequest
  <2>2. worker.obs \in was  BY <1>2, <2>1 DEF Acting
  <2> QED  BY <1>1, <1>3, <1>5, <2>1, <2>2, FreshStays
<1>20. CASE LateArrives
  <2>1. PICK c \in late : Moves(c)  BY <1>20, LateMoves
  <2>2. UNCHANGED <<row, route, worker>>  BY <1>20 DEF LateArrives
  <2> QED  BY <1>1, <1>4, <2>1, <2>2, FreshStays
<1>21. CASE OtherChanges
  <2>1. UNCHANGED <<row, route, worker>> /\ was' = was \cup {srv'}  BY <1>21, OthersMove
  <2> QED  BY <1>1, <2>1, FreshStays
<1>22. CASE LeaseExpires \/ WatchEnds \/ Restart
  <2>1. /\ Rests /\ row'.kind = row.kind /\ row'.seq = row.seq /\ row'.seen = row.seen
        /\ UNCHANGED <<route, worker>> \/ (route' = NoRoute /\ worker' = NoWorker)
    BY <1>22, TimeFacts DEF Tells, SameRequest
  <2> QED  BY <1>1, <1>3, <1>5, <2>1, FreshStays
<1>23. CASE UNCHANGED vars
  BY <1>23 DEF vars, server, AnswersAreFresh
<1> QED
  BY <1>6, <1>7, <1>8, <1>9, <1>10, <1>11, <1>12, <1>13, <1>14, <1>15, <1>16, <1>17, <1>18,
     <1>19, <1>20, <1>21, <1>22, <1>23 DEF Next, RouteNext, WorkerNext

-----------------------------------------------------------------------------
(***************************************************************************)
(* What is mirrored and confirmed, and what stands.                        *)
(***************************************************************************)

FreshInv == Shape /\ RevisionsGrow /\ AnswersAreFresh

LEMMA FreshInit == Init => FreshInv
<1> SUFFICES ASSUME Init PROVE FreshInv  OBVIOUS
<1>1. Shape  BY ShareTypeInit DEF Shape
<1>2. /\ row.cmd.exp = 0 /\ route.cmd.exp = 0 /\ worker.exp = 0 /\ rev = 0
      /\ receipts = {} /\ late = {} /\ row.seen = "none"
      /\ route.pc = "idle" /\ worker.pc = "idle" /\ srv \in was
  BY DEF Init, NoRow, NoRoute, NoWorker, NoCmd
<1>3. RevisionsGrow  BY <1>2 DEF RevisionsGrow
<1>4. AnswersAreFresh  BY <1>2 DEF AnswersAreFresh, Acting
<1> QED  BY <1>1, <1>3, <1>4 DEF FreshInv

LEMMA FreshStep == FreshInv /\ [Next]_vars => FreshInv'
BY ShapeStep, RevisionsStep, AnswersAreFreshStep DEF FreshInv

LEMMA FreshAlways == ShareSpec => []FreshInv
BY FreshInit, FreshStep, PTL DEF ShareSpec

\* The mirror is only ever given what an answer or an observation says.
LEMMA MirrorMoves ==
    ASSUME Shape, [Next]_vars, local' # local
    PROVE  /\ was' = was
           /\ \/ route.pc = "settle" /\ local' = route.obs
              \/ worker.pc = "apply" /\ local' = worker.obs
<1>1. ASSUME NEW k \in Kinds, Prepare(k) PROVE FALSE  BY <1>1, PrepareFacts
<1>2. ~RouteFreezes /\ ~RouteSends /\ ~RouteReads
  BY RouteFreezesFacts, RouteSendsFacts, RouteReadsFacts
<1>3. CASE CompositePublished \/ RouteSettles
  BY <1>3, CompositePublishedFacts, RouteSettlesFacts DEF Rests
<1>4. ~Claim /\ ~Observe /\ ~Enter  BY ClaimFacts, ObserveFacts, EnterFacts
<1>5. ~Replay /\ ~Judge /\ ~Recheck /\ ~CleanUp
  BY ReplayFacts, JudgeFacts, RecheckFacts, CleanUpFacts
<1>6. CASE Apply  BY <1>6, ApplyFacts DEF Rests
<1>7. ~LateArrives /\ ~OtherChanges  BY OthersMove DEF LateArrives
<1>8. ~(LeaseExpires \/ WatchEnds \/ Restart) /\ ~UNCHANGED vars  BY TimeFacts DEF vars
<1> QED
  BY <1>1, <1>2, <1>3, <1>4, <1>5, <1>6, <1>7, <1>8 DEF Next, RouteNext, WorkerNext

\* An answer or an observation that a newer request has overtaken is not
\* written to the mirror (apply_share_state_intent_local).
THEOREM MirrorIsFreshTheorem == ShareSpec => MirrorIsFresh
<1>1. ASSUME FreshInv, [Next]_vars
      PROVE  [local' # local => \/ local' \in was
                                \/ ~modern /\ route.pc = "settle" /\ route.cmd.name = "publish"]_vars
  <2>1. SUFFICES ASSUME local' # local
                 PROVE  \/ local' \in was
                        \/ ~modern /\ route.pc = "settle" /\ route.cmd.name = "publish"
    OBVIOUS
  <2>2. \/ route.pc = "settle" /\ local' = route.obs
        \/ worker.pc = "apply" /\ local' = worker.obs
    BY <1>1, <2>1, MirrorMoves DEF FreshInv
  <2>3. /\ worker.pc = "apply" => worker.obs \in was
        /\ route.pc = "settle" => route.obs \in was \/ (~modern /\ route.cmd.name = "publish")
    BY <1>1, ActingIsFresh DEF FreshInv, Acting
  <2> QED  BY <2>2, <2>3
<1> QED  BY <1>1, FreshAlways, PTL DEF ShareSpec, MirrorIsFresh

\* What is reported as confirmed was the state of the server at some moment
\* since the request was made (share_intent_outcome), with a modern server.
THEOREM ConfirmedWasSeenTheorem == ShareSpec => []ConfirmedWasSeen
<1>1. ASSUME FreshInv PROVE ConfirmedWasSeen
  <2> SUFFICES ASSUME modern, row.seq > 0, Outcome(row) = "confirmed"
               PROVE  was \cap Wanted(row) # {}
    BY DEF ConfirmedWasSeen
  <2>1. row.seen \in Wanted(row)  BY DEF Outcome
  <2>2. row \in Rows  BY <1>1, ShapeIsTyped DEF FreshInv, Shape, Typed
  <2>3. row.seen # "none" /\ (row.kind = "composite" => row.seen # "shared")
    <3>1. row.kind \in AllKinds \cup {"composite"}  BY <2>2 DEF Rows
    <3> QED  BY <2>1, <3>1 DEF Wanted, AllKinds
  <2>4. row.seen \in was  BY <1>1, <2>3 DEF FreshInv, AnswersAreFresh
  <2> QED  BY <2>1, <2>4
<1> QED  BY <1>1, FreshAlways, PTL

\* A call changes the card only for a request that is not older than the
\* newest that changed it.
LEMMA CallStands ==
    ASSUME FreshInv, modern, NEW c, Moves(c), srv' # srv, c.seq = row.seq \/ c \in late
    PROVE  by' >= top
<1>1. /\ rev \in Nat /\ top \in Nat /\ row.seq \in Nat /\ top <= row.seq
      /\ c \in late => c.exp \in Nat /\ c.seq \in Nat
  BY RevisionsAreNats DEF FreshInv
<1>2. c.exp = rev /\ by' = c.seq  BY DEF Moves
<1>3. c \in late /\ c.seq < top => c.exp < rev  BY DEF FreshInv, RevisionsGrow
<1> QED  BY <1>1, <1>2, <1>3

\* What changes the card: the command of the newest request, one that was
\* delayed, or someone else.
LEMMA ServerMoves ==
    ASSUME Shape, [Next]_vars, srv' # srv
    PROVE  \/ RouteSends /\ Moves(route.cmd) /\ route.cmd.seq = row.seq
           \/ Replay /\ Moves(row.cmd) /\ row.cmd.seq = row.seq
           \/ CleanUp /\ Moves(CleanUpCommand) /\ CleanUpCommand.seq = row.seq
           \/ LateArrives /\ \E c \in late : Moves(c)
           \/ OtherChanges /\ by' = 0
<1>1. ASSUME NEW k \in Kinds, Prepare(k) PROVE FALSE  BY <1>1, PrepareFacts
<1>2. ~RouteFreezes /\ ~RouteReads /\ ~CompositePublished /\ ~RouteSettles
  BY RouteFreezesFacts, RouteReadsFacts, CompositePublishedFacts, RouteSettlesFacts DEF Rests
<1>3. ~Claim /\ ~Observe /\ ~Enter /\ ~Judge /\ ~Recheck /\ ~Apply
  BY ClaimFacts, ObserveFacts, EnterFacts, JudgeFacts, RecheckFacts, ApplyFacts DEF Rests
<1>4. CASE RouteSends
  <2>1. Moves(route.cmd) /\ route.pc # "idle"  BY <1>4, RouteSendsFacts
  <2> QED  BY <1>4, <2>1, RouteCommand
<1>5. CASE Replay  BY <1>5, ReplayFacts
<1>6. CASE CleanUp  BY <1>6, CleanUpFacts, CleanUpCases
<1>7. CASE LateArrives  BY <1>7, LateMoves
<1>8. CASE OtherChanges  BY <1>8, OthersMove
<1>9. ~(LeaseExpires \/ WatchEnds \/ Restart) /\ ~UNCHANGED vars
  BY TimeFacts DEF Rests, vars, server
<1> QED
  BY <1>1, <1>2, <1>3, <1>4, <1>5, <1>6, <1>7, <1>8, <1>9 DEF Next, RouteNext, WorkerNext

\* With a modern server a command that was delayed, or sent again by the
\* worker, never changes the card once a newer request's command has changed
\* it (the expected revision in usecases/share.execute).
THEOREM NewerRequestStandsTheorem == ShareSpec => NewerRequestStands
<1>1. ASSUME FreshInv, [Next]_vars
      PROVE  [modern /\ srv' # srv /\ by' # 0 => by' >= top]_vars
  <2> SUFFICES ASSUME modern, srv' # srv, by' # 0 PROVE by' >= top  OBVIOUS
  <2>1. \/ Moves(route.cmd) /\ route.cmd.seq = row.seq
        \/ Moves(row.cmd) /\ row.cmd.seq = row.seq
        \/ Moves(CleanUpCommand) /\ CleanUpCommand.seq = row.seq
        \/ \E c \in late : Moves(c)
        \/ by' = 0
    BY <1>1, ServerMoves DEF FreshInv
  <2> QED  BY <1>1, <2>1, CallStands
<1> QED  BY <1>1, FreshAlways, PTL DEF ShareSpec, NewerRequestStands


-----------------------------------------------------------------------------
(***************************************************************************)
(* What is left under way of a request that failed.                        *)
(***************************************************************************)

\* What a step does to the server.
ServerGoesOn ==
    /\ receipts \subseteq receipts'
    /\ \/ rev' = rev /\ srv' = srv
       \/ rev' \in Nat /\ rev' > rev
    /\ \A q \in receipts' \ receipts :
         q.rev = rev' /\ (q.name = "publish" => srv' # "private")

LEMMA CallGoesOn ==
    ASSUME Shape, modern, NEW c, Moves(c) PROVE ServerGoesOn
<1>1. rev \in Nat /\ srv \in State  BY RevisionsAreNats DEF Shape, ShareTypeOK
<1>2. receipts \subseteq receipts'  BY DEF Moves
<1>3. (rev' = rev /\ srv' = srv) \/ (rev' \in Nat /\ rev' > rev)
  <2>1. srv' = srv => rev' = rev  BY DEF Moves
  <2>2. srv' # srv => rev' = rev + 1  BY DEF Moves
  <2> QED  BY <1>1, <2>1, <2>2
<1>4. ASSUME NEW q \in receipts' \ receipts
      PROVE  q.rev = rev' /\ (q.name = "publish" => srv' # "private")
  <2>1. q = [seq |-> c.seq, name |-> c.name, rev |-> rev'] /\ srv' \in Effect(c.name, srv)
    BY <1>4 DEF Moves
  <2>2. "private" \notin Effect("publish", srv)  BY <1>1, EffectOfSteps
  <2> QED  BY <2>1, <2>2
<1> QED  BY <1>2, <1>3, <1>4 DEF ServerGoesOn

LEMMA ServerSteps == ASSUME Shape, modern, [Next]_vars PROVE ServerGoesOn
<1>1. rev \in Nat  BY RevisionsAreNats
<1>2. ASSUME receipts' = receipts, rev' = rev, srv' = srv PROVE ServerGoesOn
  BY <1>2 DEF ServerGoesOn
<1>3. ASSUME NEW k \in Kinds, Prepare(k) PROVE ServerGoesOn  BY <1>2, <1>3, PrepareFacts
<1>4. CASE RouteFreezes \/ RouteReads \/ CompositePublished \/ RouteSettles
  <2>1. Rests
    BY <1>4, RouteFreezesFacts, RouteReadsFacts, CompositePublishedFacts, RouteSettlesFacts
  <2> QED  BY <1>2, <2>1 DEF Rests
<1>5. CASE Claim \/ Observe \/ Enter \/ Judge \/ Recheck \/ Apply
  <2>1. Rests  BY <1>5, ClaimFacts, ObserveFacts, EnterFacts, JudgeFacts, RecheckFacts, ApplyFacts
  <2> QED  BY <1>2, <2>1 DEF Rests
<1>6. CASE LeaseExpires \/ WatchEnds \/ Restart
  <2>1. Rests  BY <1>6, TimeFacts
  <2> QED  BY <1>2, <2>1 DEF Rests
<1>7. CASE UNCHANGED vars  BY <1>2, <1>7 DEF vars, server
<1>8. CASE RouteSends \/ Replay \/ CleanUp \/ LateArrives
  <2>1. \E c : Moves(c)  BY <1>8, RouteSendsFacts, ReplayFacts, CleanUpFacts, LateMoves
  <2> QED  BY <2>1, CallGoesOn
<1>9. CASE OtherChanges
  <2>1. receipts' = receipts /\ rev' = rev + 1  BY <1>9, OthersMove
  <2> QED  BY <1>1, <2>1 DEF ServerGoesOn
<1> QED  BY <1>3, <1>4, <1>5, <1>6, <1>7, <1>8, <1>9 DEF Next, RouteNext, WorkerNext

\* Whatever the server does, a command that expects no more than the revision
\* of a shared card goes on doing so, and a command that is spent stays spent.
LEMMA PinsStay ==
    ASSUME Shape, ServerGoesOn, NEW c, c.exp \in Nat, c.exp <= rev
    PROVE  /\ StillShared(c) => StillShared(c)'
           /\ Spent(c) => Spent(c)'
<1>1. rev \in Nat  BY RevisionsAreNats
<1>2. (rev' = rev /\ srv' = srv) \/ (rev' \in Nat /\ rev' > rev)  BY DEF ServerGoesOn
<1>3. StillShared(c) => StillShared(c)'  BY <1>1, <1>2 DEF StillShared
<1>4. ReceiptsOf(c) \subseteq ReceiptsOf(c)'  BY DEF ReceiptsOf, ServerGoesOn
<1>5. c.exp # rev => c.exp # rev'  BY <1>1, <1>2
<1> QED  BY <1>3, <1>4, <1>5 DEF Spent

LEMMA SharedWhenPublishedStep ==
    Shape /\ RevisionsGrow /\ SharedWhenPublished /\ [Next]_vars => SharedWhenPublished'
<1> SUFFICES ASSUME Shape, RevisionsGrow, SharedWhenPublished, [Next]_vars, modern,
                    NEW q \in receipts', q.name = "publish", q.rev = rev'
             PROVE  srv' # "private"
  BY ModernStays DEF SharedWhenPublished
<1>1. ServerGoesOn  BY ServerSteps
<1>2. CASE q \in receipts
  <2>1. q.rev \in Nat /\ q.rev <= rev /\ rev \in Nat
    BY <1>2, RevisionsAreNats DEF RevisionsGrow
  <2>2. rev' = rev /\ srv' = srv  BY <1>1, <2>1 DEF ServerGoesOn
  <2> QED  BY <1>2, <2>2 DEF SharedWhenPublished
<1>3. CASE q \notin receipts  BY <1>1, <1>3 DEF ServerGoesOn
<1> QED  BY <1>2, <1>3

\* A step that leaves the request of the row, and the turn of the route, alone.
LEMMA PinsRest ==
    ASSUME Shape, RevisionsGrow, FinalsArePinned, modern, modern' = modern, ServerGoesOn,
           row'.kind = row.kind, row'.base = row.base,
           row'.cmd = row.cmd \/ row'.cmd.name # "finalize",
           route' = route \/ route' = NoRoute
    PROVE  FinalsArePinned'
<1>1. /\ row.cmd.exp \in Nat /\ route.cmd.exp \in Nat /\ row.cmd.exp <= rev /\ route.cmd.exp <= rev
  BY RevisionsAreNats DEF RevisionsGrow
<1>2. /\ StillShared(row.cmd) => (row.cmd.exp = rev' => srv' # "private")
      /\ StillShared(route.cmd) => (route.cmd.exp = rev' => srv' # "private")
  BY <1>1, PinsStay DEF StillShared
<1>3. NoRoute.pc = "idle"  BY DEF NoRoute
<1> SUFFICES ASSUME row.kind = "composite" PROVE FinalsArePinned'
  BY DEF FinalsArePinned
<1>4. row.base = "private" /\ (row.cmd.name = "finalize" => StillShared(row.cmd))
  BY DEF FinalsArePinned
<1>5. row'.cmd.name = "finalize" => (row'.cmd.exp = rev' => srv' # "private")
  BY <1>2, <1>4
<1>6. route'.pc # "idle" =>
           \/ route'.cmd.name = "publish" /\ route'.pc \in {"freeze", "send"}
           \/ route'.cmd.name = "finalize" /\ route'.pc \in {"read", "settle"}
           \/ /\ \/ route'.cmd.name = "publish" /\ route'.pc = "settle"
                 \/ route'.cmd.name = "finalize" /\ route'.pc \in {"freeze", "send"}
              /\ route'.cmd.exp = rev' => srv' # "private"
  <2> SUFFICES ASSUME route' = route, route.pc # "idle"
               PROVE
           \/ route.cmd.name = "publish" /\ route.pc \in {"freeze", "send"}
           \/ route.cmd.name = "finalize" /\ route.pc \in {"read", "settle"}
           \/ /\ \/ route.cmd.name = "publish" /\ route.pc = "settle"
                 \/ route.cmd.name = "finalize" /\ route.pc \in {"freeze", "send"}
              /\ route.cmd.exp = rev' => srv' # "private"
    BY <1>3
  <2> QED  BY <1>2 DEF FinalsArePinned
<1> QED  BY <1>4, <1>5, <1>6 DEF FinalsArePinned, StillShared

\* The fields that the actions which are no call and no freezing leave alone.
QuietStep ==
    /\ row'.seq = row.seq /\ row'.kind = row.kind /\ row'.base = row.base /\ row'.cmd = row.cmd
    /\ late' = late /\ receipts' = receipts

LEMMA QuietSteps ==
    ASSUME Shape, [Next]_vars
    PROVE  \/ \E k \in Kinds : Prepare(k)
           \/ RouteFreezes \/ RouteSends \/ Replay \/ CleanUp \/ LateArrives
           \/ QuietStep
<1>1. CASE RouteReads
  <2>1. Rests /\ (row' = row \/ Tells(row', row))  BY <1>1, RouteReadsFacts
  <2> QED  BY <2>1 DEF Rests, Tells, SameRequest, QuietStep
<1>2. CASE CompositePublished \/ RouteSettles
  <2>1. Rests /\ SameRequest(row', row)  BY <1>2, CompositePublishedFacts, RouteSettlesFacts
  <2> QED  BY <2>1 DEF Rests, SameRequest, QuietStep
<1>3. CASE Claim \/ Observe \/ Enter \/ Recheck \/ LeaseExpires \/ WatchEnds \/ Restart
  <2>1. Rests /\ Tells(row', row)
    BY <1>3, ClaimFacts, ObserveFacts, EnterFacts, RecheckFacts, TimeFacts
  <2> QED  BY <2>1 DEF Rests, Tells, SameRequest, QuietStep
<1>4. CASE Judge \/ Apply
  <2>1. Rests /\ SameRequest(row', row)  BY <1>4, JudgeFacts, ApplyFacts
  <2> QED  BY <2>1 DEF Rests, SameRequest, QuietStep
<1>5. CASE OtherChanges  BY <1>5, OthersMove DEF QuietStep
<1>6. CASE UNCHANGED vars  BY <1>6 DEF vars, server, QuietStep
<1> QED  BY <1>1, <1>2, <1>3, <1>4, <1>5, <1>6 DEF Next, RouteNext, WorkerNext

LEMMA FinalsArePinnedStep ==
    /\ Shape /\ RevisionsGrow /\ SharedWhenPublished /\ SharedWhenPublished' /\ FinalsArePinned
    /\ [Next]_vars
    => FinalsArePinned'
<1> SUFFICES ASSUME Shape, RevisionsGrow, SharedWhenPublished, SharedWhenPublished',
                    FinalsArePinned, [Next]_vars, modern
             PROVE  FinalsArePinned'
  BY ModernStays DEF FinalsArePinned
<1>1. modern' = modern /\ ServerGoesOn  BY ModernStays, ServerSteps
<1>2. NoRoute.pc = "idle" /\ NoCmd.name = "none"  BY DEF NoRoute, NoCmd
<1>3. /\ row.cmd.exp \in Nat /\ route.cmd.exp \in Nat /\ row.cmd.exp <= rev /\ route.cmd.exp <= rev
  BY RevisionsAreNats DEF RevisionsGrow
<1>4. /\ StillShared(row.cmd) => (row.cmd.exp = rev' => srv' # "private")
      /\ StillShared(route.cmd) => (route.cmd.exp = rev' => srv' # "private")
  BY <1>1, <1>3, PinsStay DEF StillShared
<1>5. ASSUME NEW k \in Kinds, Prepare(k) PROVE FinalsArePinned'
  <2>1. /\ row'.cmd = NoCmd /\ row'.base = local /\ route'.pc = "freeze"
        /\ row'.kind = "composite" => local = "private" /\ route'.cmd.name = "publish"
    BY <1>5, PrepareFacts
  <2> QED  BY <1>2, <2>1 DEF FinalsArePinned
\* The route's steps, for a composite.
<1>6. ASSUME row.kind = "composite", route.pc # "idle"
      PROVE  /\ row.base = "private"
             /\ \/ route.cmd.name = "publish" /\ route.pc \in {"freeze", "send"}
                \/ route.cmd.name = "finalize" /\ route.pc \in {"read", "settle"}
                \/ /\ \/ route.cmd.name = "publish" /\ route.pc = "settle"
                      \/ route.cmd.name = "finalize" /\ route.pc \in {"freeze", "send"}
                   /\ StillShared(route.cmd)
             /\ row.cmd.name = "finalize" => StillShared(row.cmd)
  BY <1>6 DEF FinalsArePinned
<1>7. CASE RouteFreezes
  <2>1. /\ Rests /\ route.pc = "freeze" /\ row'.kind = row.kind /\ row'.base = row.base
        /\ \/ /\ route'.pc = "send" /\ route'.cmd.name = route.cmd.name
              /\ route'.cmd.exp = (IF Pinned THEN route.cmd.exp ELSE rev)
              /\ row'.cmd = route'.cmd
           \/ route' = NoRoute /\ row'.cmd = row.cmd
    BY <1>7, RouteFreezesFacts
  <2>2. CASE route' = NoRoute /\ row'.cmd = row.cmd  BY <1>1, <2>1, <2>2, PinsRest
  <2>3. CASE /\ route'.pc = "send" /\ route'.cmd.name = route.cmd.name
             /\ route'.cmd.exp = (IF Pinned THEN route.cmd.exp ELSE rev)
             /\ row'.cmd = route'.cmd
    <3> SUFFICES ASSUME row.kind = "composite" PROVE FinalsArePinned'
      BY <2>1 DEF FinalsArePinned
    <3>1. CASE route.cmd.name = "publish"
      BY <1>6, <2>1, <2>3, <3>1 DEF FinalsArePinned
    <3>2. CASE route.cmd.name = "finalize"
      <4>1. StillShared(route.cmd) /\ route'.cmd.exp = route.cmd.exp
        BY <1>6, <2>1, <2>3, <3>2 DEF Pinned
      <4>2. route'.cmd.exp = rev' => srv' # "private"  BY <1>4, <4>1
      <4> QED  BY <1>6, <2>1, <2>3, <3>2, <4>2 DEF FinalsArePinned, StillShared
    <3> QED  BY <1>6, <2>1, <3>1, <3>2
  <2> QED  BY <2>1, <2>2, <2>3
<1>8. CASE RouteSends
  <2>1. /\ route.pc = "send"
        /\ \/ /\ row' = row /\ route'.pc \in {"read", "settle"} /\ route'.cmd.name = route.cmd.name
              /\ route'.pc = "read" => route.cmd.name # "publish"
              /\ \E q \in receipts' : q.name = route.cmd.name /\ q.rev = route'.cmd.exp
           \/ route' = NoRoute /\ SameRequest(row', row)
    BY <1>8, RouteSendsFacts
  <2>2. CASE route' = NoRoute /\ SameRequest(row', row)
    BY <1>1, <2>2, PinsRest DEF SameRequest
  <2>3. CASE /\ row' = row /\ route'.pc \in {"read", "settle"} /\ route'.cmd.name = route.cmd.name
             /\ route'.pc = "read" => route.cmd.name # "publish"
             /\ \E q \in receipts' : q.name = route.cmd.name /\ q.rev = route'.cmd.exp
    <3> SUFFICES ASSUME row.kind = "composite" PROVE FinalsArePinned'
      BY <2>3 DEF FinalsArePinned
    <3>1. row'.cmd.name = "finalize" => (row'.cmd.exp = rev' => srv' # "private")
      BY <1>4, <1>6, <2>1, <2>3
    <3>2. CASE route.cmd.name = "publish"
      <4>1. route'.cmd.exp = rev' => srv' # "private"
        BY <1>1, <2>3, <3>2 DEF SharedWhenPublished
      <4> QED  BY <1>6, <2>1, <2>3, <3>1, <3>2, <4>1 DEF FinalsArePinned, StillShared
    <3>3. CASE route.cmd.name = "finalize"
      BY <1>6, <2>1, <2>3, <3>1, <3>3 DEF FinalsArePinned, StillShared
    <3> QED  BY <1>6, <2>1, <3>2, <3>3
  <2> QED  BY <2>1, <2>2, <2>3
<1>9. CASE RouteReads
  <2>1. /\ route.pc = "read"
        /\ \/ row' = row /\ route'.pc = "settle" /\ route'.cmd = route.cmd
           \/ route' = NoRoute /\ Tells(row', row)
    BY <1>9, RouteReadsFacts
  <2>2. CASE route' = NoRoute /\ Tells(row', row)
    BY <1>1, <2>2, PinsRest DEF Tells, SameRequest
  <2>3. CASE row' = row /\ route'.pc = "settle" /\ route'.cmd = route.cmd
    <3> SUFFICES ASSUME row.kind = "composite" PROVE FinalsArePinned'
      BY <2>3 DEF FinalsArePinned
    <3>1. row'.cmd.name = "finalize" => (row'.cmd.exp = rev' => srv' # "private")
      BY <1>4, <1>6, <2>1, <2>3
    <3>2. route.cmd.name = "finalize" /\ row.base = "private"  BY <1>6, <2>1
    <3> QED  BY <2>3, <3>1, <3>2 DEF FinalsArePinned, StillShared
  <2> QED  BY <2>1, <2>2, <2>3
<1>10. CASE CompositePublished
  <2>1. /\ route.pc = "settle" /\ row.kind = "composite" /\ route.cmd.name = "publish"
        /\ SameRequest(row', row)
        /\ \/ route' = NoRoute
           \/ /\ route'.pc = "freeze" /\ route'.cmd.name = "finalize"
              /\ route'.cmd.exp = route.cmd.exp
    BY <1>10, CompositePublishedFacts
  <2>2. CASE route' = NoRoute  BY <1>1, <2>1, <2>2, PinsRest DEF SameRequest
  <2>3. CASE /\ route'.pc = "freeze" /\ route'.cmd.name = "finalize"
             /\ route'.cmd.exp = route.cmd.exp
    <3>1. row'.cmd.name = "finalize" => (row'.cmd.exp = rev' => srv' # "private")
      BY <1>4, <1>6, <2>1 DEF SameRequest
    <3>2. row'.base = "private" /\ (route'.cmd.exp = rev' => srv' # "private")
      BY <1>4, <1>6, <2>1, <2>3 DEF SameRequest
    <3> QED  BY <2>3, <3>1, <3>2 DEF FinalsArePinned, StillShared
  <2> QED  BY <2>1, <2>2, <2>3
<1>11. CASE RouteSettles
  <2>1. route' = NoRoute /\ SameRequest(row', row)  BY <1>11, RouteSettlesFacts
  <2> QED  BY <1>1, <2>1, PinsRest DEF SameRequest
<1>12. CASE Claim \/ Observe \/ Enter \/ Judge \/ Recheck \/ Apply
  <2>1. route' = route /\ SameRequest(row', row)
    BY <1>12, ClaimFacts, ObserveFacts, EnterFacts, JudgeFacts, RecheckFacts, ApplyFacts DEF Tells
  <2> QED  BY <1>1, <2>1, PinsRest DEF SameRequest
<1>13. CASE Replay
  <2>1. route' = route /\ SameRequest(row', row)  BY <1>13, ReplayFacts DEF Tells
  <2> QED  BY <1>1, <2>1, PinsRest DEF SameRequest
<1>14. CASE CleanUp
  <2>1. /\ route' = route /\ row'.kind = row.kind /\ row'.base = row.base
        /\ row'.cmd = CleanUpCommand
    BY <1>14, CleanUpFacts
  <2>2. CleanUpCommand.name # "finalize"  BY <1>14, CleanUpCases
  <2> QED  BY <1>1, <2>1, <2>2, PinsRest
<1>15. CASE LateArrives \/ OtherChanges
  <2>1. route' = route /\ row' = row  BY <1>15 DEF LateArrives, OtherChanges
  <2> QED  BY <1>1, <2>1, PinsRest
<1>16. CASE LeaseExpires \/ WatchEnds \/ Restart
  <2>1. (route' = route \/ route' = NoRoute) /\ SameRequest(row', row)
    BY <1>16, TimeFacts DEF Tells
  <2> QED  BY <1>1, <2>1, PinsRest DEF SameRequest
<1>17. CASE UNCHANGED vars
  <2>1. route' = route /\ row' = row  BY <1>17 DEF vars
  <2> QED  BY <1>1, <2>1, PinsRest
<1> QED
  BY <1>5, <1>7, <1>8, <1>9, <1>10, <1>11, <1>12, <1>13, <1>14, <1>15, <1>16, <1>17
     DEF Next, RouteNext, WorkerNext

\* Only a call lets a command be under way, and only a new request, the route's
\* freezing and the cleanup change the stored command.
LEMMA QuietFinals ==
    ASSUME QuietStep
    PROVE  LateFinals' = LateFinals
BY DEF QuietStep, LateFinals

\* A closed row is left alone by the worker that has lost it.
LEMMA ObserveKeepsClosed ==
    ASSUME Shape, Observe, row.status \notin Open
    PROVE  row' = row
<1>1. worker.pc = "observe"  BY DEF Observe
<1>2. ~WorkerOwns  BY <1>1 DEF Shape, TurnsAreTaken, WorkerOwns, Owns
<1> QED  BY <1>2 DEF Observe, WorkerEnds

\* No command of a request is there before the request is.
LEMMA NothingIsEarly ==
    ASSUME Shape, NEW k \in Kinds, Prepare(k)
    PROVE  /\ \A c \in late' : c.seq # row'.seq
           /\ \A q \in receipts' : q.seq # row'.seq
           /\ LateFinals' = {}
<1>1. late' = late /\ receipts' = receipts /\ row'.seq = row.seq + 1  BY PrepareFacts
<1>2. /\ row.seq \in Nat /\ \A c \in late : c.seq \in Nat /\ c.seq <= row.seq
      /\ \A q \in receipts : q.seq \in Nat /\ q.seq <= row.seq
  BY RevisionsAreNats DEF Shape, CommandsAreMade
<1>3. \A c \in late' : c.seq # row'.seq  BY <1>1, <1>2
<1>4. \A q \in receipts' : q.seq # row'.seq  BY <1>1, <1>2
<1> QED  BY <1>3, <1>4 DEF LateFinals

\* The route sends what was asked for, and while it does the row stays open.
LEMMA RouteHasRow ==
    ASSUME Shape, route.pc # "idle"
    PROVE  /\ row.status \in Open /\ route.cmd.name \in AllKinds /\ route.cmd.name # "cleanup"
           /\ route.cmd.seq = row.seq /\ worker.pc \notin Acting
           /\ modern /\ route.pc = "send" => row.cmd = route.cmd
BY DEF Shape, TurnsAreTaken, CommandsAreMade, AllKinds

LEMMA StepsComeInTurnStep == Shape /\ StepsComeInTurn /\ [Next]_vars => StepsComeInTurn'
<1> SUFFICES ASSUME Shape, StepsComeInTurn, [Next]_vars, modern PROVE StepsComeInTurn'
  BY ModernStays DEF StepsComeInTurn
<1>1. /\ route.pc # "idle" => row.cmd.name # "cleanup" /\ \A c \in late : c.seq # row.seq
      /\ row.denied => row.status = "rejected" /\ \A c \in late : c.seq # row.seq
      /\ worker.pc = "recheck" => row.cmd = NoCmd
      /\ worker.pc = "cleanup" =>
           row.cmd.name # "cleanup" /\ (row.cmd.name = "finalize" => worker.exp = row.cmd.exp)
  BY DEF StepsComeInTurn
<1>2. NoRoute.pc = "idle" /\ NoWorker.pc = "idle" /\ NoCmd.name = "none"
  BY DEF NoRoute, NoWorker, NoCmd
<1>3. row.denied => row.status \notin Open  BY <1>1 DEF Open
\* A step of the worker, or of time, that calls nothing.
<1>4. ASSUME row'.seq = row.seq, row'.cmd = row.cmd, late' \subseteq late,
             route' = route \/ route'.pc = "idle",
             row'.denied => row.denied /\ row'.status = row.status,
             \/ worker' = worker \/ worker'.pc \notin {"recheck", "cleanup"}
             \/ worker'.pc = "recheck" /\ row.cmd = NoCmd
             \/ /\ worker'.pc = "cleanup" /\ row.cmd.name # "cleanup"
                /\ row.cmd.name = "finalize" => worker'.exp = row.cmd.exp
      PROVE  StepsComeInTurn'
  <2>1. route'.pc # "idle" => row'.cmd.name # "cleanup" /\ \A c \in late' : c.seq # row'.seq
    BY <1>1, <1>4
  <2>2. row'.denied => row'.status = "rejected" /\ \A c \in late' : c.seq # row'.seq
    BY <1>1, <1>4
  <2>3. worker'.pc = "recheck" => row'.cmd = NoCmd  BY <1>1, <1>4
  <2>4. worker'.pc = "cleanup" =>
          row'.cmd.name # "cleanup" /\ (row'.cmd.name = "finalize" => worker'.exp = row'.cmd.exp)
    BY <1>1, <1>4
  <2> QED  BY <2>1, <2>2, <2>3, <2>4 DEF StepsComeInTurn
<1>5. ASSUME NEW k \in Kinds, Prepare(k) PROVE StepsComeInTurn'
  <2>1. /\ row'.cmd = NoCmd /\ row'.denied = FALSE /\ worker' = worker /\ worker.pc \notin Acting
        /\ \A c \in late' : c.seq # row'.seq
    BY <1>5, PrepareFacts, NothingIsEarly
  <2> QED  BY <1>2, <2>1 DEF StepsComeInTurn, Acting
\* A step of the route: the worker is not acting and nothing was refused.
<1>6. ASSUME route.pc # "idle"
      PROVE  /\ row.status \in Open /\ ~row.denied /\ worker.pc \notin {"recheck", "cleanup"}
             /\ row.cmd.name # "cleanup" /\ route.cmd.name # "cleanup" /\ route.cmd.seq = row.seq
             /\ \A c \in late : c.seq # row.seq
  BY <1>1, <1>3, <1>6, RouteHasRow DEF Acting
<1>7. CASE RouteFreezes
  <2>1. /\ late' = late /\ worker' = worker /\ route.pc # "idle" /\ row'.seq = row.seq
        /\ row'.denied = row.denied
        /\ \/ route'.cmd.name = route.cmd.name /\ row'.cmd = route'.cmd
           \/ route' = NoRoute /\ row'.cmd = row.cmd
    BY <1>7, RouteFreezesFacts DEF Rests
  <2> QED  BY <1>6, <2>1 DEF StepsComeInTurn
<1>8. CASE RouteSends
  <2>1. /\ route.pc # "idle" /\ worker' = worker
        /\ \/ row' = row /\ late' = late
           \/ /\ route' = NoRoute /\ SameRequest(row', row)
              /\ row'.status # "rejected" => row'.denied = row.denied
              /\ row'.status = "rejected" => late' = late
    BY <1>8, RouteSendsFacts
  <2>2. CASE row' = row /\ late' = late  BY <1>6, <2>1, <2>2 DEF StepsComeInTurn
  <2>3. CASE /\ route' = NoRoute /\ SameRequest(row', row)
             /\ row'.status # "rejected" => row'.denied = row.denied
             /\ row'.status = "rejected" => late' = late
    <3>1. row'.denied => row'.status = "rejected" /\ late' = late  BY <1>6, <2>1, <2>3
    <3>2. row'.seq = row.seq  BY <2>3 DEF SameRequest
    <3> QED  BY <1>2, <1>6, <2>1, <2>3, <3>1, <3>2 DEF StepsComeInTurn
  <2> QED  BY <2>1, <2>2, <2>3
<1>9. CASE RouteReads \/ CompositePublished \/ RouteSettles
  <2>1. /\ route.pc # "idle" /\ Rests /\ worker' = worker
        /\ row' = row \/ (SameRequest(row', row) /\ row'.denied = row.denied)
    BY <1>9, RouteReadsFacts, CompositePublishedFacts, RouteSettlesFacts DEF Tells
  <2>2. row'.seq = row.seq /\ row'.cmd = row.cmd /\ row'.denied = row.denied /\ late' = late
    BY <2>1 DEF SameRequest, Rests
  <2> QED  BY <1>6, <2>1, <2>2 DEF StepsComeInTurn
<1>10. CASE Claim \/ Enter
  <2>1. /\ Rests /\ route' = route /\ Tells(row', row) /\ row'.status = row.status
        /\ worker'.pc \notin {"recheck", "cleanup"}
    BY <1>2, <1>10, ClaimFacts, EnterFacts
  <2> QED  BY <1>4, <2>1 DEF Rests, Tells, SameRequest
<1>11. CASE Observe
  <2>1. /\ Rests /\ route' = route /\ Tells(row', row) /\ worker'.pc \notin {"recheck", "cleanup"}
        /\ row.status \in Open \/ row' = row
    BY <1>2, <1>11, ObserveFacts, ObserveKeepsClosed
  <2> QED  BY <1>3, <1>4, <2>1 DEF Rests, Tells, SameRequest
\* A step of the worker that is acting: nothing was refused.
<1>12. ASSUME worker.pc \in Acting PROVE ~row.denied /\ route.pc = "idle" /\ row.status \in Open
  BY <1>3, <1>12, ActingOwns
<1>13. CASE Replay
  <2>1. /\ worker.pc \in Acting /\ route' = route /\ Tells(row', row)
    BY <1>13, ReplayFacts DEF Acting
  <2>2. \/ worker'.pc \notin {"recheck", "cleanup"}
        \/ /\ worker'.pc = "cleanup" /\ row.cmd.name # "cleanup"
           /\ row.cmd.name = "finalize" => worker'.exp = row.cmd.exp
    <3>1. \/ row.cmd.name = "publish" /\ \E q \in receipts' : Compensated(srv', q.rev, "cleanup")
          \/ worker'.pc = "apply" \/ worker' = NoWorker
          \/ row.cmd.name = "finalize" /\ Compensated(srv, row.cmd.exp, "cleanup")
      BY <1>13, ReplayFacts
    <3> QED  BY <1>2, <3>1 DEF Compensated
  <2>3. row'.denied = row.denied /\ row'.cmd = row.cmd  BY <2>1 DEF Tells, SameRequest
  <2>4. ~row'.denied /\ route'.pc = "idle" /\ worker'.pc # "recheck"
    BY <1>12, <2>1, <2>2, <2>3
  <2> QED  BY <2>2, <2>3, <2>4 DEF StepsComeInTurn
<1>14. CASE Judge
  <2>1. /\ worker.pc \in Acting /\ row.cmd = NoCmd /\ Rests /\ route' = route
        /\ SameRequest(row', row) /\ row'.denied = row.denied
        /\ worker'.pc \in {"apply", "recheck"} \/ worker' = NoWorker
    BY <1>14, JudgeFacts DEF Acting
  <2>2. ~row'.denied  BY <1>12, <2>1
  <2> QED  BY <1>2, <1>4, <2>1, <2>2 DEF Rests, SameRequest
<1>15. CASE Recheck
  <2>1. /\ worker.pc \in Acting /\ worker.pc = "recheck" /\ Rests /\ route' = route
        /\ Tells(row', row)
        /\ worker'.pc \in {"apply", "cleanup"} \/ worker' = NoWorker
    BY <1>15, RecheckFacts DEF Acting
  <2>2. ~row'.denied /\ row.cmd.name = "none"  BY <1>1, <1>2, <1>12, <2>1 DEF Tells
  <2> QED  BY <1>2, <1>4, <2>1, <2>2 DEF Rests, Tells, SameRequest
<1>16. CASE CleanUp
  <2>1. /\ worker.pc \in Acting /\ route' = route /\ row'.denied = row.denied
        /\ worker'.pc = "apply" \/ worker' = NoWorker
    BY <1>16, CleanUpFacts DEF Acting
  <2>2. ~row'.denied /\ route'.pc = "idle" /\ worker'.pc \notin {"recheck", "cleanup"}
    BY <1>2, <1>12, <2>1
  <2> QED  BY <2>2 DEF StepsComeInTurn
<1>17. CASE Apply
  <2>1. /\ worker.pc \in Acting /\ Rests /\ route' = route /\ worker' = NoWorker
        /\ SameRequest(row', row) /\ row'.denied \in {row.denied, FALSE}
    BY <1>17, ApplyFacts DEF Acting
  <2>2. ~row'.denied  BY <1>12, <2>1
  <2> QED  BY <1>2, <1>4, <2>1, <2>2 DEF Rests, SameRequest
<1>18. CASE LateArrives
  <2>1. late' \subseteq late  BY <1>18, LateMoves
  <2> QED  BY <1>4, <1>18, <2>1 DEF LateArrives
<1>19. CASE OtherChanges  BY <1>4, <1>19 DEF OtherChanges
<1>20. CASE LeaseExpires \/ WatchEnds \/ Restart
  <2>1. /\ Rests /\ Tells(row', row) /\ row'.status = row.status
        /\ UNCHANGED <<route, worker>> \/ (route' = NoRoute /\ worker' = NoWorker)
    BY <1>20, TimeFacts
  <2> QED  BY <1>2, <1>4, <2>1 DEF Rests, Tells, SameRequest
<1>21. CASE UNCHANGED vars  BY <1>21 DEF vars, server, StepsComeInTurn
<1> QED
  BY <1>5, <1>7, <1>8, <1>9, <1>10, <1>11, <1>13, <1>14, <1>15, <1>16, <1>17, <1>18, <1>19,
     <1>20, <1>21 DEF Next, RouteNext, WorkerNext


\* What is known of the commands under way of a row.
LEMMA LateIsKnown ==
    ASSUME Shape, RevisionsGrow, modern
    PROVE  /\ \A c \in late : c.exp \in Nat /\ c.exp <= rev
           /\ row.cmd.exp \in Nat /\ row.cmd.exp <= rev
BY RevisionsAreNats DEF RevisionsGrow

LEMMA LateArePinnedStep ==
    /\ Shape /\ RevisionsGrow /\ FinalsArePinned /\ StepsComeInTurn /\ LateArePinned /\ [Next]_vars
    => LateArePinned'
<1> SUFFICES ASSUME Shape, RevisionsGrow, FinalsArePinned, StepsComeInTurn, LateArePinned,
                    [Next]_vars, modern
             PROVE  LateArePinned'
  BY ModernStays DEF LateArePinned
<1>1. /\ \A c \in LateFinals :
           row.cmd.name \in {"finalize", "cleanup"} /\ row.cmd.exp = c.exp /\ StillShared(c)
      /\ \A c \in late : c.seq = row.seq /\ c.name = "cleanup" =>
           row.cmd.name = "cleanup" /\ row.cmd.exp = c.exp
  BY DEF LateArePinned
<1>2. \A c \in late : c.exp \in Nat /\ c.exp <= rev  BY LateIsKnown
<1>3. ServerGoesOn  BY ServerSteps
<1>4. \A c \in LateFinals : c \in late /\ (c.exp = rev' => srv' # "private")
  <2> TAKE c \in LateFinals
  <2>1. c \in late /\ StillShared(c)  BY <1>1 DEF LateFinals
  <2>2. c.exp \in Nat /\ c.exp <= rev  BY <1>2, <2>1
  <2>3. StillShared(c)'  BY <1>3, <2>1, <2>2, PinsStay
  <2> QED  BY <2>1, <2>3 DEF StillShared
\* A step that sends at most the command the row stores.
<1>5. ASSUME row'.seq = row.seq, row'.kind = row.kind, row'.cmd = row.cmd,
             late' \subseteq late \cup {row.cmd}
      PROVE  LateArePinned'
  <2>1. row.cmd.name = "finalize" /\ row.kind = "composite" => (row.cmd.exp = rev' => srv' # "private")
    <3> SUFFICES ASSUME row.cmd.name = "finalize", row.kind = "composite"
                 PROVE  row.cmd.exp = rev' => srv' # "private"
      OBVIOUS
    <3>1. StillShared(row.cmd)  BY DEF FinalsArePinned
    <3> QED  BY <1>3, <3>1, LateIsKnown, PinsStay DEF StillShared
  <2>2. ASSUME NEW c \in LateFinals'
        PROVE  /\ row'.cmd.name \in {"finalize", "cleanup"} /\ row'.cmd.exp = c.exp
               /\ c.exp = rev' => srv' # "private"
    <3>1. c \in late' /\ c.name = "finalize" /\ c.seq = row.seq /\ row.kind = "composite"
      BY <1>5, <2>2 DEF LateFinals
    <3>2. CASE c \in late
      <4>1. c \in LateFinals  BY <3>1, <3>2 DEF LateFinals
      <4> QED  BY <1>1, <1>4, <1>5, <4>1
    <3>3. CASE c = row.cmd  BY <1>5, <2>1, <3>1, <3>3
    <3> QED  BY <1>5, <3>1, <3>2, <3>3
  <2>3. \A c \in late' : c.seq = row'.seq /\ c.name = "cleanup" =>
           row'.cmd.name = "cleanup" /\ row'.cmd.exp = c.exp
    BY <1>1, <1>5
  <2> QED  BY <2>2, <2>3 DEF LateArePinned, StillShared
<1>6. ASSUME NEW k \in Kinds, Prepare(k) PROVE LateArePinned'
  BY <1>6, NothingIsEarly DEF LateArePinned
<1>7. CASE RouteFreezes
  <2>1. /\ late' = late /\ route.pc # "idle" /\ row'.seq = row.seq  BY <1>7, RouteFreezesFacts DEF Rests
  <2>2. \A c \in late' : c.seq # row'.seq  BY <2>1 DEF StepsComeInTurn
  <2> QED  BY <2>2 DEF LateArePinned, LateFinals
<1>8. CASE RouteSends
  <2>1. /\ route.pc = "send" /\ late' \subseteq late \cup {route.cmd}
        /\ row'.seq = row.seq /\ row'.kind = row.kind /\ row'.cmd = row.cmd
    BY <1>8, RouteSendsFacts DEF SameRequest
  <2>2. row.cmd = route.cmd  BY <2>1, RouteHasRow
  <2> QED  BY <1>5, <2>1, <2>2
<1>9. CASE Replay
  <2>1. late' \subseteq late \cup {row.cmd} /\ Tells(row', row)  BY <1>9, ReplayFacts
  <2> QED  BY <1>5, <2>1 DEF Tells, SameRequest
<1>10. CASE CleanUp
  <2> DEFINE d == CleanUpCommand
  <2>1. /\ worker.pc = "cleanup" /\ late' \subseteq late \cup {d} /\ row'.cmd = d
        /\ row'.seq = row.seq /\ row'.kind = row.kind
        /\ d.name = "cleanup" /\ d.exp = worker.exp
    BY <1>10, CleanUpFacts, CleanUpCases
  <2> HIDE DEF d
  <2>2. row.cmd.name # "cleanup" /\ (row.cmd.name = "finalize" => worker.exp = row.cmd.exp)
    BY <2>1 DEF StepsComeInTurn
  <2>3. ASSUME NEW c \in LateFinals'
        PROVE  row'.cmd.name = "cleanup" /\ row'.cmd.exp = c.exp /\ (c.exp = rev' => srv' # "private")
    <3>1. c \in late /\ c \in LateFinals  BY <2>1, <2>3 DEF LateFinals
    <3> QED  BY <1>1, <1>4, <2>1, <2>2, <3>1
  <2>4. \A c \in late' : c.seq = row'.seq /\ c.name = "cleanup" =>
           row'.cmd.name = "cleanup" /\ row'.cmd.exp = c.exp
    BY <1>1, <2>1, <2>2
  <2> QED  BY <2>3, <2>4 DEF LateArePinned, StillShared
<1>11. CASE LateArrives
  <2>1. row' = row /\ late' \subseteq late  BY <1>11, LateMoves DEF LateArrives
  <2> QED  BY <1>5, <2>1
<1>12. CASE QuietStep
  BY <1>5, <1>12 DEF QuietStep
<1> QED  BY <1>6, <1>7, <1>8, <1>9, <1>10, <1>11, <1>12, QuietSteps

\* A command of the row's composite is spent once a cleanup at its revision is done.
LEMMA CleanedIsSpent ==
    ASSUME Shape, RevisionsGrow, LateArePinned, modern, ServerGoesOn,
           NEW d, Moves(d), d.name = "cleanup",
           NEW c \in LateFinals, c.exp = d.exp, receipts' # receipts
    PROVE  c.exp # rev'
<1>1. c \in late /\ StillShared(c)  BY DEF LateArePinned, LateFinals
<1>2. c.exp \in Nat /\ c.exp <= rev /\ rev \in Nat /\ srv \in State
  BY <1>1, LateIsKnown, RevisionsAreNats DEF Shape, ShareTypeOK
<1>3. \E q \in receipts' : q \notin receipts  BY DEF Moves
<1>4. d.exp = rev /\ srv' \in Effect("cleanup", srv)  BY <1>3 DEF Moves
<1>5. srv' = "private"  BY <1>2, <1>4, EffectOfSteps
<1>6. srv' # srv  BY <1>1, <1>4, <1>5 DEF StillShared
<1>7. rev' = rev + 1  BY <1>6 DEF Moves
<1> QED  BY <1>2, <1>7

LEMMA LateIsSpentStep ==
    /\ Shape /\ RevisionsGrow /\ FinalsArePinned /\ StepsComeInTurn /\ LateArePinned /\ LateIsSpent
    /\ [Next]_vars
    => LateIsSpent'
<1> SUFFICES ASSUME Shape, RevisionsGrow, FinalsArePinned, StepsComeInTurn, LateArePinned,
                    LateIsSpent, [Next]_vars, modern
             PROVE  LateIsSpent'
  BY ModernStays DEF LateIsSpent
<1> DEFINE CleanedUp == \A q \in receipts' : q.seq = row'.seq /\ q.name = "cleanup" =>
                          row'.cmd.name = "cleanup" /\ \A c \in LateFinals' : Spent(c)'
           GivenUp == worker'.pc = "apply" /\ row'.cmd.name = "finalize" /\ worker'.obs # "final" =>
                          \A c \in LateFinals' : Spent(c)'
           Rejected == row'.status = "rejected" /\ row'.cmd.name # "cleanup" /\ row'.seen # "final" =>
                          \A c \in LateFinals' : Spent(c)'
<1>0. SUFFICES CleanedUp /\ GivenUp /\ Rejected  BY DEF LateIsSpent
<1>1. /\ \A q \in receipts : q.seq = row.seq /\ q.name = "cleanup" =>
           row.cmd.name = "cleanup" /\ \A c \in LateFinals : Spent(c)
      /\ worker.pc = "apply" /\ row.cmd.name = "finalize" /\ worker.obs # "final" =>
           \A c \in LateFinals : Spent(c)
      /\ row.status = "rejected" /\ row.cmd.name # "cleanup" /\ row.seen # "final" =>
           \A c \in LateFinals : Spent(c)
  BY DEF LateIsSpent
<1>2. \A c \in LateFinals :
        /\ row.cmd.name \in {"finalize", "cleanup"} /\ row.cmd.exp = c.exp /\ StillShared(c)
        /\ c \in late /\ c.name = "finalize" /\ c.seq = row.seq /\ row.kind = "composite"
  BY DEF LateArePinned, LateFinals
<1>3. ServerGoesOn  BY ServerSteps
<1>4. \A c \in LateFinals : Spent(c) => Spent(c)'
  BY <1>2, <1>3, LateIsKnown, PinsStay
<1>5. NoRoute.pc = "idle" /\ NoWorker.pc = "idle" /\ NoCmd.name = "none"
  BY DEF NoRoute, NoWorker, NoCmd
<1>6. row.cmd.name \notin {"finalize", "cleanup"} => LateFinals = {}  BY <1>2
\* A step that calls nothing.
<1>7. ASSUME QuietStep,
             \/ worker' = worker \/ worker'.pc # "apply"
             \/ row.cmd.name # "finalize",
             \/ row'.status # "rejected" \/ (row'.status = row.status /\ row'.seen = row.seen)
             \/ worker.pc = "apply" /\ row'.seen = worker.obs
      PROVE  CleanedUp /\ GivenUp /\ Rejected
  <2>1. LateFinals' = LateFinals  BY <1>7, QuietFinals
  <2>2. row'.seq = row.seq /\ row'.cmd = row.cmd /\ receipts' = receipts  BY <1>7 DEF QuietStep
  <2>3. CleanedUp  BY <1>1, <1>4, <2>1, <2>2
  <2>4. GivenUp  BY <1>1, <1>4, <1>7, <2>1, <2>2
  <2>5. Rejected
    <3>1. CASE row.cmd.name \notin {"finalize", "cleanup"}  BY <1>6, <2>1, <3>1
    <3>2. CASE row.cmd.name \in {"finalize", "cleanup"}
      BY <1>1, <1>4, <1>7, <2>1, <2>2, <3>2
    <3> QED  BY <3>1, <3>2
  <2> QED  BY <2>3, <2>4, <2>5
<1>8. ASSUME NEW k \in Kinds, Prepare(k) PROVE CleanedUp /\ GivenUp /\ Rejected
  BY <1>8, NothingIsEarly
<1> HIDE DEF CleanedUp, GivenUp, Rejected
\* The route: nothing of its request is under way before it sends.
<1>9. ASSUME route.pc # "idle"
      PROVE  /\ row.status \in Open /\ worker.pc \notin Acting /\ LateFinals = {}
             /\ route.cmd.name # "cleanup" /\ row.cmd.name # "cleanup"
             /\ \A q \in receipts : ~(q.seq = row.seq /\ q.name = "cleanup")
  <2>1. row.cmd.name # "cleanup" /\ \A c \in late : c.seq # row.seq
    BY <1>9 DEF StepsComeInTurn
  <2> QED  BY <1>1, <1>9, <2>1, RouteHasRow DEF LateFinals
<1>10. CASE RouteFreezes
  <2>1. /\ route.pc # "idle" /\ row'.seq = row.seq /\ row'.kind = row.kind
        /\ row'.status = row.status /\ Rests /\ worker' = worker
    BY <1>10, RouteFreezesFacts
  <2>2. LateFinals' = {} /\ receipts' = receipts  BY <1>9, <2>1 DEF LateFinals, Rests
  <2> QED  BY <1>9, <2>1, <2>2 DEF CleanedUp, GivenUp, Rejected
<1>11. CASE RouteSends
  <2>1. /\ route.pc # "idle" /\ worker' = worker /\ Moves(route.cmd)
        /\ row'.seq = row.seq /\ row'.kind = row.kind
        /\ row' = row \/ (row'.status = "rejected" => late' = late)
    BY <1>11, RouteSendsFacts DEF SameRequest
  <2>2. CleanedUp
    <3>1. \A q \in receipts' : q \in receipts \/ q.name = route.cmd.name  BY <2>1 DEF Moves
    <3> QED  BY <1>9, <2>1, <3>1 DEF CleanedUp
  <2>3. GivenUp  BY <1>9, <2>1 DEF GivenUp, Acting
  <2>4. Rejected
    <3>1. row.status # "rejected"  BY <1>9, <2>1 DEF Open
    <3>2. late' = late => LateFinals' = {}  BY <1>9, <2>1 DEF LateFinals
    <3> QED  BY <2>1, <3>1, <3>2 DEF Rejected
  <2> QED  BY <2>2, <2>3, <2>4
<1>12. CASE RouteReads \/ CompositePublished \/ RouteSettles
  <2>1. /\ QuietStep /\ worker' = worker /\ route.pc # "idle"
        /\ row' = row \/ row'.status = row.status \/ row'.status # "rejected"
    <3>1. CASE RouteReads
      <4>1. /\ Rests /\ worker' = worker /\ route.pc # "idle"
            /\ row' = row \/ (Tells(row', row) /\ row'.status # "rejected")
        BY <3>1, RouteReadsFacts
      <4> QED  BY <4>1 DEF Rests, Tells, SameRequest, QuietStep
    <3>2. CASE CompositePublished \/ RouteSettles
      <4>1. /\ Rests /\ worker' = worker /\ route.pc # "idle" /\ SameRequest(row', row)
            /\ row'.status = row.status \/ row'.status # "rejected"
        BY <3>2, CompositePublishedFacts, RouteSettlesFacts
      <4> QED  BY <4>1 DEF Rests, SameRequest, QuietStep
    <3> QED  BY <1>12, <3>1, <3>2
  <2>2. row'.status # "rejected"  BY <1>9, <2>1 DEF Open
  <2> QED  BY <1>7, <2>1, <2>2
<1>13. CASE Claim \/ Enter
  <2>1. /\ Rests /\ Tells(row', row) /\ row'.status = row.status /\ worker'.pc # "apply"
    BY <1>5, <1>13, ClaimFacts, EnterFacts
  <2> QED  BY <1>7, <2>1 DEF Rests, Tells, SameRequest, QuietStep
<1>14. CASE Observe
  <2>1. /\ Rests /\ Tells(row', row) /\ worker'.pc # "apply"
        /\ row'.status = row.status \/ row'.status \in Open
    BY <1>5, <1>14, ObserveFacts
  <2>2. row'.status = row.status \/ row'.status # "rejected"  BY <2>1 DEF Open
  <2> QED  BY <1>7, <2>1, <2>2 DEF Rests, Tells, SameRequest, QuietStep
<1>15. CASE Replay
  <2>1. /\ worker.pc = "act" /\ Moves(row.cmd) /\ late' \subseteq late \cup {row.cmd}
        /\ row'.seq = row.seq /\ row'.kind = row.kind /\ row'.cmd = row.cmd
        /\ row.cmd.seq = row.seq
    BY <1>15, ReplayFacts DEF Tells, SameRequest
  <2>2. row.status \in Open  BY <2>1, ActingOwns DEF Acting
  <2>3. \A c \in LateFinals' : c \in LateFinals \/ (c = row.cmd /\ row.cmd.name = "finalize")
    BY <2>1 DEF LateFinals
  <2>4. CleanedUp
    <3> SUFFICES ASSUME NEW q \in receipts', q.seq = row.seq, q.name = "cleanup"
                 PROVE  row.cmd.name = "cleanup" /\ \A c \in LateFinals' : Spent(c)'
      BY <2>1 DEF CleanedUp
    <3>1. CASE q \in receipts
      <4>1. row.cmd.name = "cleanup" /\ \A c \in LateFinals : Spent(c)  BY <1>1, <3>1
      <4> QED  BY <1>4, <2>3, <4>1
    <3>2. CASE q \notin receipts
      <4>1. q.name = row.cmd.name  BY <2>1, <3>2 DEF Moves
      <4>2. \A c \in LateFinals : c.exp # rev'
        BY <1>2, <1>3, <2>1, <3>2, <4>1, CleanedIsSpent
      <4> QED  BY <2>3, <4>1, <4>2 DEF Spent
    <3> QED  BY <3>1, <3>2
  <2>5. GivenUp
    <3> SUFFICES ASSUME worker'.pc = "apply", row.cmd.name = "finalize", worker'.obs # "final"
                 PROVE  \A c \in LateFinals' : Spent(c)'
      BY <2>1 DEF GivenUp
    <3>1. \/ \E q \in receipts' : q.seq = row.cmd.seq /\ q.name = row.cmd.name
          \/ /\ row.kind = "composite" /\ UNCHANGED <<srv, rev, receipts, late>>
             /\ Compensated(srv, row.cmd.exp, "cleanup")
      BY <1>5, <1>15, ReplayFacts
    <3>2. CASE \E q \in receipts' : q.seq = row.cmd.seq /\ q.name = row.cmd.name
      <4>1. \A c \in LateFinals' : c.seq = row.seq /\ c.name = "finalize"
        BY <1>2, <2>1, <2>3
      <4> QED  BY <2>1, <3>2, <4>1 DEF Spent, ReceiptsOf
    <3>3. CASE /\ row.kind = "composite" /\ UNCHANGED <<srv, rev, receipts, late>>
               /\ Compensated(srv, row.cmd.exp, "cleanup")
      <4>1. row.base = "private"  BY <3>3 DEF FinalsArePinned
      <4>2. worker'.obs = srv /\ srv = "private"  BY <3>3, <4>1 DEF Compensated
      <4>3. LateFinals' = LateFinals  BY <2>1, <3>3 DEF LateFinals
      <4>4. \A c \in LateFinals : c.exp # rev  BY <1>2, <4>2 DEF StillShared
      <4> QED  BY <3>3, <4>3, <4>4 DEF Spent
    <3> QED  BY <3>1, <3>2, <3>3
  <2>6. Rejected
    <3> SUFFICES ASSUME row'.status = "rejected", row.cmd.name # "cleanup"
                 PROVE  \A c \in LateFinals' : Spent(c)'
      BY <2>1 DEF Rejected
    <3>1. ~(row.kind = "composite" /\ row.cmd.name = "finalize")
      BY <1>15, <2>2, ReplayFacts DEF Open
    <3>2. \A c \in LateFinals' : FALSE  BY <1>2, <2>1, <2>3, <3>1 DEF LateFinals
    <3> QED  BY <3>2
  <2> QED  BY <2>4, <2>5, <2>6
<1>16. CASE Judge \/ Recheck
  <2>1. QuietStep /\ row'.status \in Open
    BY <1>16, JudgeFacts, RecheckFacts DEF Rests, Tells, SameRequest, QuietStep
  <2>2. row.cmd = NoCmd
    BY <1>16, JudgeFacts, RecheckFacts DEF StepsComeInTurn
  <2>3. row'.status # "rejected" /\ row.cmd.name # "finalize"  BY <1>5, <2>1, <2>2 DEF Open
  <2> QED  BY <1>7, <2>1, <2>3
<1>17. CASE CleanUp
  <2> DEFINE d == CleanUpCommand
  <2>1. /\ worker.pc = "cleanup" /\ Moves(d) /\ late' \subseteq late \cup {d} /\ row'.cmd = d
        /\ row'.seq = row.seq /\ row'.kind = row.kind
        /\ d.name = "cleanup" /\ d.exp = worker.exp
    BY <1>17, CleanUpFacts, CleanUpCases
  <2> HIDE DEF d
  <2>2. row.cmd.name # "cleanup" /\ (row.cmd.name = "finalize" => worker.exp = row.cmd.exp)
    BY <2>1 DEF StepsComeInTurn
  <2>3. \A c \in LateFinals' : c \in LateFinals  BY <2>1 DEF LateFinals
  <2>4. CleanedUp
    <3> SUFFICES ASSUME NEW q \in receipts', q.seq = row.seq, q.name = "cleanup"
                 PROVE  \A c \in LateFinals' : Spent(c)'
      BY <2>1 DEF CleanedUp
    <3>1. q \notin receipts  BY <1>1, <2>2
    <3>2. \A c \in LateFinals : c.exp = d.exp  BY <1>2, <2>1, <2>2
    <3>3. \A c \in LateFinals : c.exp # rev'
      BY <1>3, <2>1, <3>1, <3>2, CleanedIsSpent
    <3> QED  BY <2>3, <3>3 DEF Spent
  <2>5. GivenUp /\ Rejected  BY <2>1 DEF GivenUp, Rejected
  <2> QED  BY <2>4, <2>5
<1>18. CASE Apply
  <2>1. /\ QuietStep /\ worker' = NoWorker /\ worker.pc = "apply"
        /\ row'.status = "rejected" => row'.seen = worker.obs
    BY <1>18, ApplyFacts DEF Rests, SameRequest, QuietStep
  <2> QED  BY <1>5, <1>7, <2>1
<1>19. CASE LateArrives
  <2>1. UNCHANGED <<row, worker>>  BY <1>19 DEF LateArrives
  <2>2. PICK d \in late : Moves(d) /\ late' = late \ {d}  BY <1>19, LateMoves
  <2>3. \A c \in LateFinals' : c \in LateFinals  BY <2>1, <2>2 DEF LateFinals
  <2>4. CleanedUp
    <3> SUFFICES ASSUME NEW q \in receipts', q.seq = row.seq, q.name = "cleanup"
                 PROVE  row.cmd.name = "cleanup" /\ \A c \in LateFinals' : Spent(c)'
      BY <2>1 DEF CleanedUp
    <3>1. CASE q \in receipts  BY <1>1, <1>4, <2>3, <3>1
    <3>2. CASE q \notin receipts
      <4>1. q.seq = d.seq /\ q.name = d.name  BY <2>2, <3>2 DEF Moves
      <4>2. row.cmd.name = "cleanup" /\ row.cmd.exp = d.exp  BY <2>2, <4>1 DEF LateArePinned
      <4>3. \A c \in LateFinals : c.exp # rev'
        BY <1>2, <1>3, <2>2, <3>2, <4>1, <4>2, CleanedIsSpent
      <4> QED  BY <2>3, <4>2, <4>3 DEF Spent
    <3> QED  BY <3>1, <3>2
  <2>5. GivenUp /\ Rejected  BY <1>1, <1>4, <2>1, <2>3 DEF GivenUp, Rejected
  <2> QED  BY <2>4, <2>5
<1>20. CASE OtherChanges
  <2>1. QuietStep /\ row' = row /\ worker' = worker  BY <1>20, OthersMove DEF QuietStep
  <2> QED  BY <1>7, <2>1
<1>21. CASE LeaseExpires \/ WatchEnds \/ Restart
  <2>1. /\ Rests /\ Tells(row', row) /\ row'.status = row.status
        /\ worker' = worker \/ worker' = NoWorker
    BY <1>21, TimeFacts
  <2> QED  BY <1>5, <1>7, <2>1 DEF Rests, Tells, SameRequest, QuietStep
<1>22. CASE UNCHANGED vars
  <2>1. QuietStep /\ row' = row /\ worker' = worker  BY <1>22 DEF vars, server, QuietStep
  <2> QED  BY <1>7, <2>1
<1> QED
  BY <1>8, <1>10, <1>11, <1>12, <1>13, <1>14, <1>15, <1>16, <1>17, <1>18, <1>19, <1>20, <1>21,
     <1>22 DEF Next, RouteNext, WorkerNext

LEMMA ShareInvInit == Init => ShareInv
<1> SUFFICES ASSUME Init PROVE ShareInv  OBVIOUS
<1>1. FreshInv  BY FreshInit
<1>2. /\ row.cmd.name = "none" /\ row.kind = "publish" /\ row.status = "converged"
      /\ row.denied = FALSE /\ receipts = {} /\ late = {}
      /\ route.pc = "idle" /\ worker.pc = "idle"
  BY DEF Init, NoRow, NoRoute, NoWorker, NoCmd
<1>3. LateFinals = {}  BY <1>2 DEF LateFinals
<1> QED
  BY <1>1, <1>2, <1>3 DEF ShareInv, FreshInv, Shape, SharedWhenPublished, FinalsArePinned,
     StepsComeInTurn, LateArePinned, LateIsSpent

LEMMA ShareInvStep == ShareInv /\ [Next]_vars => ShareInv'
BY ShapeStep, RevisionsStep, AnswersAreFreshStep, SharedWhenPublishedStep, FinalsArePinnedStep,
   StepsComeInTurnStep, LateArePinnedStep, LateIsSpentStep DEF ShareInv, Shape

\* A request its user was told had failed is not done later by a command of its
\* own that was still under way, unless it is a composite whose share was to be
\* taken back and whose taking back was not done (share_intent_outcome,
\* _process_modern_composite_partial); with a modern server.
THEOREM TakenBackStaysFailedTheorem == ShareSpec => TakenBackStaysFailed
<1>1. ASSUME ShareInv, [Next]_vars
      PROVE  [modern /\ row.seq > 0 /\ Outcome(row) = "failed" /\ TakeBackDone
                /\ srv' # srv /\ by' = row.seq => srv' \notin Wanted(row)]_vars
  <2> SUFFICES ASSUME modern, row.seq > 0, Outcome(row) = "failed", TakeBackDone,
                      srv' # srv, by' = row.seq, srv' \in Wanted(row)
               PROVE  FALSE
    OBVIOUS
  <2>1. /\ Shape /\ row \in Rows /\ srv \in State /\ row.seq \in Nat
        /\ StepsComeInTurn /\ LateArePinned /\ LateIsSpent
    BY <1>1, ShapeIsTyped, RevisionsAreNats DEF ShareInv, Shape, Typed, ShareTypeOK
  <2>2. /\ row.seen \notin Wanted(row) /\ row.status = "rejected"
        /\ row.denied \/ row.kind = "composite"
    BY DEF Outcome, Open
  <2>3. row.status \notin Open  BY <2>2 DEF Open
  <2>4. ~RouteSends /\ ~Replay /\ ~CleanUp
    <3>1. route.pc = "idle" /\ worker.pc \notin Acting  BY <2>1, <2>3, RouteHasRow, ActingOwns
    <3> QED  BY <3>1 DEF RouteSends, Replay, CleanUp, Acting
  <2>5. PICK c \in late : Moves(c)  BY <1>1, <2>1, <2>4, ServerMoves
  <2>6. /\ c.seq = row.seq /\ c.name \in Steps /\ ReceiptsOf(c) = {} /\ c.exp = rev
        /\ srv' \in Effect(c.name, srv)
    BY <2>1, <2>5 DEF Moves, Shape, CommandsAreMade
  <2>7. ~row.denied  BY <2>1, <2>5, <2>6 DEF StepsComeInTurn
  <2>8. row.kind = "composite" /\ Wanted(row) = {"final"}
    <3>1. row.kind = "composite"  BY <2>2, <2>7
    <3> QED  BY <3>1 DEF Wanted
  <2>9. c.name = "finalize"  BY <2>1, <2>6, <2>8, EffectOfSteps
  <2>10. c \in LateFinals /\ ~Spent(c)  BY <2>5, <2>6, <2>8, <2>9 DEF LateFinals, Spent
  <2>11. row.cmd.name = "cleanup"  BY <2>1, <2>2, <2>8, <2>10 DEF LateIsSpent
  <2>12. row.cmd.exp = c.exp  BY <2>1, <2>10 DEF LateArePinned
  <2>13. ReceiptsOf(row.cmd) # {}  BY <2>6, <2>11, <2>12 DEF TakeBackDone
  <2>14. PICK q \in receipts : q.seq = row.cmd.seq /\ q.name = "cleanup"
    BY <2>11, <2>13 DEF ReceiptsOf
  <2>15. row.cmd.seq = row.seq
    <3>1. row.cmd # NoCmd  BY <2>11 DEF NoCmd
    <3> QED  BY <2>1, <3>1, StoredCommand
  <2> QED  BY <2>1, <2>10, <2>14, <2>15 DEF LateIsSpent
<1> QED  BY <1>1, ShareInvInit, ShareInvStep, PTL DEF ShareSpec, TakenBackStaysFailed

=============================================================================
