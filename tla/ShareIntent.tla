----------------------------- MODULE ShareIntent -----------------------------
(***************************************************************************)
(* One shared card as three parties see it: the share server, the mirror   *)
(* in the user's own database, and the write-ahead ledger row              *)
(* share_state_intent that ties the two together.  A request of the user   *)
(* (the route) writes the row, calls the server and mirrors the answer;    *)
(* whatever it leaves open is finished by the reconciler (the worker).     *)
(*                                                                         *)
(* A server is modern when it keeps command receipts and refuses a command *)
(* whose expected revision is not the card's; an older server executes     *)
(* whatever arrives.  Which of the two it is, is chosen once.              *)
(*                                                                         *)
(* One card under one name: the several names of a card, and the locks     *)
(* taken under each, are one lock here.                                    *)
(***************************************************************************)
EXTENDS Naturals, FiniteSets

CONSTANTS
    Kinds,      \* the requests the user may make (a subset of AllKinds)
    Modes,      \* which servers are tried: a set of BOOLEAN, TRUE = modern
    MaxSeq,     \* requests made on the card
    MaxFaults,  \* lost answers, refusals out of turn, local failures, restarts
    MaxOthers   \* changes other people make on the server

AllKinds == {"publish", "unpublish", "finalize", "unfinalize", "hold", "unhold",
             "to_unshared", "to_shared", "to_held"}

ASSUME ShareAssumption ==
    /\ Kinds \subseteq AllKinds
    /\ Modes \subseteq BOOLEAN /\ Modes # {}
    /\ MaxSeq \in Nat /\ MaxFaults \in Nat /\ MaxOthers \in Nat

VARIABLES
    modern,     \* the server keeps receipts and compares revisions
    srv, rev,   \* the card on the server and its share_revision
    receipts,   \* share_command_receipt: commands completed, with their revision
    late,       \* commands that timed out and may still reach the server
    local,      \* the mirror in the user's database
    row,        \* the ledger row
    lock,       \* who holds the card's action lock: "free", "route", "worker"
    route,      \* the request in progress
    worker,     \* the reconciler's turn in progress
    faults, others,
    was,        \* history: server states since the newest request was prepared
    by,         \* history: the request that last changed the card, 0 for others
    top         \* history: the newest request that changed the card

server == <<srv, rev, receipts, late, was, by, top>>
vars == <<modern, server, local, row, lock, route, worker, faults, others>>

State == {"private", "shared", "held", "final"}
Open == {"prepared", "pending", "waiting_local", "auth_required"}
Closed == {"converged", "superseded", "rejected"}
Steps == AllKinds \cup {"cleanup"}

NoCmd == [seq |-> 0, name |-> "none", exp |-> 0]
NoRoute == [pc |-> "idle", cmd |-> NoCmd, obs |-> "private"]
NoWorker == [pc |-> "idle", seq |-> 0, obs |-> "private", st |-> "pending", exp |-> 0]
NoRow == [seq |-> 0, kind |-> "publish", base |-> "private", status |-> "converged",
          token |-> "none", lease |-> FALSE, cmd |-> NoCmd, seen |-> "none",
          partial |-> FALSE, unknown |-> FALSE, aged |-> FALSE, expired |-> FALSE,
          denied |-> FALSE]

Init ==
    /\ modern \in Modes
    /\ srv \in {"private", "shared"} /\ local = srv
    /\ rev = 0 /\ receipts = {} /\ late = {}
    /\ row = NoRow /\ lock = "free" /\ route = NoRoute /\ worker = NoWorker
    /\ faults = 0 /\ others = 0
    /\ was = {srv} /\ by = 0 /\ top = 0

-----------------------------------------------------------------------------
(***************************************************************************)
(* The server.                                                             *)
(***************************************************************************)

\* The states a command may leave the card in; none when it is refused.
Effect(name, s) ==
    CASE name = "publish" -> {IF s = "private" THEN "shared" ELSE s}
      [] name \in {"unpublish", "cleanup"} -> {t \in {"private"} : s # "final"}
      [] name = "finalize" -> {"final"}
      [] name = "unfinalize" -> IF s = "final" THEN {"shared", "held"} ELSE {s}
      [] name = "hold" -> {t \in {"held"} : s \in {"shared", "held"}}
      [] name = "unhold" -> {t \in {"shared"} : s \in {"shared", "held"}}
      [] name = "to_unshared" -> {t \in {"private"} : s = "final"}
      [] name = "to_shared" -> {t \in {"shared"} : s = "final"}
      [] name = "to_held" -> {t \in {"held"} : s = "final"}

ReceiptsOf(c) == {q \in receipts : q.seq = c.seq /\ q.name = c.name}

\* The revision moves only when something about the card really changed.
RevisionAfter(s) == IF modern /\ s # srv THEN rev + 1 ELSE rev

\* (mutant: the expected revision is not compared)
Executed_AnyRevision(c) ==
    IF ReceiptsOf(c) # {}
    THEN {[res |-> "ok", s |-> srv, new |-> FALSE]}
    ELSE IF Effect(c.name, srv) = {}
    THEN {[res |-> "refused", s |-> srv, new |-> FALSE]}
    ELSE {[res |-> "ok", s |-> s, new |-> TRUE] : s \in Effect(c.name, srv)}

\* What comes of a command that reaches the server: a receipt is replayed as it
\* is, a command with another expected revision is refused, any other is done.
Executed(c) ==
    IF ReceiptsOf(c) # {}
    THEN {[res |-> "ok", s |-> srv, new |-> FALSE]}
    ELSE IF c.exp # rev \/ Effect(c.name, srv) = {}
    THEN {[res |-> "refused", s |-> srv, new |-> FALSE]}
    ELSE {[res |-> "ok", s |-> s, new |-> TRUE] : s \in Effect(c.name, srv)}

\* What the caller may get: the answer itself, or, at the cost of a fault, a
\* refusal of the person (403), an expired login (401), or no answer at all
\* with the command done, still under way ("later") or lost.
Replies(c) ==
    {[res |-> x.res, s |-> x.s, new |-> x.new, later |-> FALSE, cost |-> 0] : x \in Executed(c)}
    \cup (IF faults = MaxFaults THEN {} ELSE
         {[res |-> "unknown", s |-> x.s, new |-> x.new, later |-> FALSE, cost |-> 1] : x \in Executed(c)}
    \cup {[res |-> r, s |-> srv, new |-> FALSE, later |-> l, cost |-> 1] :
             r \in {"unknown"}, l \in BOOLEAN}
    \cup {[res |-> r, s |-> srv, new |-> FALSE, later |-> FALSE, cost |-> 1] :
             r \in {"refused", "auth"}})

\* The card after command c was done (or not) and left it in state s.
Change(c, s, new) ==
    /\ srv' = s
    /\ rev' = RevisionAfter(s)
    /\ receipts' = receipts \cup
         {q \in {[seq |-> c.seq, name |-> c.name, rev |-> RevisionAfter(s)]} : modern /\ new}
    /\ was' = was \cup {s}
    /\ by' = IF s # srv THEN c.seq ELSE by
    /\ top' = IF s # srv /\ c.seq > top THEN c.seq ELSE top

Called(c, a) ==
    /\ Change(c, a.s, a.new)
    /\ late' = late \cup {x \in {c} : a.later}
    /\ faults' = faults + a.cost

\* The revision a completed command's receipt carries (after Called).
ReceiptRevision(c, a) ==
    IF a.new THEN RevisionAfter(a.s)
    ELSE IF ReceiptsOf(c) = {} THEN 0 ELSE (CHOOSE q \in ReceiptsOf(c) : TRUE).rev

\* A command that timed out reaches the server after all.
LateArrives ==
    \E c \in late : \E x \in Executed(c) :
        /\ Change(c, x.s, x.new)
        /\ late' = late \ {c}
        /\ UNCHANGED <<modern, local, row, lock, route, worker, faults, others>>

\* Someone else changes the card on the server.
OtherChanges ==
    /\ others < MaxOthers
    /\ \E name \in AllKinds : \E s \in Effect(name, srv) \ {srv} :
        /\ Change(NoCmd, s, FALSE)
        /\ others' = others + 1
        /\ UNCHANGED <<modern, late, local, row, lock, route, worker, faults>>

-----------------------------------------------------------------------------
(***************************************************************************)
(* The ledger row.                                                         *)
(***************************************************************************)

\* The states the request asked for.
Wanted(r) ==
    CASE r.kind = "publish" -> IF r.base = "final" THEN {"final"} ELSE {"shared", "held"}
      [] r.kind \in {"finalize", "composite"} -> {"final"}
      [] r.kind \in {"unpublish", "to_unshared"} -> {"private"}
      [] r.kind = "unfinalize" -> {"shared", "held"}
      [] r.kind \in {"unhold", "to_shared"} -> {"shared"}
      [] r.kind \in {"hold", "to_held"} -> {"held"}

\* Is s the state the card had when the request was made?  Whether it was on
\* hold is compared only for the requests that recorded it.
IsBase(r, s) ==
    IF r.kind \in {"hold", "unhold", "to_unshared", "to_shared", "to_held"}
    THEN s = r.base
    ELSE /\ s = "private" <=> r.base = "private"
         /\ s = "final" <=> r.base = "final"

\* (mutant: the update does not name the request and its claim)
Owns_Unchecked(who, seq) == TRUE

\* Only the holder of the row's claim, for the request it claimed, writes it.
Owns(who, seq) == row.token = who /\ row.seq = seq

Released(r) == [r EXCEPT !.token = "none", !.lease = FALSE]
Settled(r, st) == [Released(r) EXCEPT !.status = st]

\* The observation stored with the row is replaced as a whole, marks included.
Seen(r, s) == [r EXCEPT !.seen = s, !.partial = FALSE, !.unknown = FALSE, !.aged = FALSE]

ResultUnknown(r) == r.status = "prepared" \/ r.unknown

\* Waiting for a new login keeps the mark of a result nobody knows.
AuthRequired(r) == [Settled(r, "auth_required") EXCEPT !.unknown = ResultUnknown(r)]

\* What the person who asked is told (share_intent_outcome).
Outcome(r) ==
    IF r.seen \in Wanted(r) THEN "confirmed"
    ELSE IF r.status \in Open THEN "pending"
    ELSE IF r.status = "rejected" /\ (r.denied \/ (r.kind = "composite" /\ ~r.expired))
    THEN "failed" ELSE "unknown"

-----------------------------------------------------------------------------
(***************************************************************************)
(* The route: one request of the user, under the card's lock.              *)
(***************************************************************************)

\* (mutant: a new request leaves the old observation in the row)
Prepare_KeepsSeen(k) ==
    /\ route.pc = "idle" /\ lock = "free" /\ row.seq < MaxSeq
    /\ k = "unpublish" => local # "final"
    /\ LET composite == k = "finalize" /\ local = "private" IN
       /\ row' = [NoRow EXCEPT !.seq = row.seq + 1, !.base = local, !.status = "prepared",
                               !.kind = IF composite THEN "composite" ELSE k,
                               !.token = "route", !.lease = TRUE, !.seen = row.seen]
       /\ route' = [NoRoute EXCEPT !.pc = "freeze",
              !.cmd = [seq |-> row.seq + 1, exp |-> 0,
                       name |-> IF composite THEN "publish" ELSE k]]
    /\ lock' = "route"
    /\ was' = {srv}
    /\ UNCHANGED <<modern, srv, rev, receipts, late, by, top, local, worker, faults, others>>

\* The request is written down before anything is sent.  A finalize of a card
\* that is not shared is a composite: publish, then finalize.
Prepare(k) ==
    /\ route.pc = "idle" /\ lock = "free" /\ row.seq < MaxSeq
    /\ k = "unpublish" => local # "final"
    /\ LET composite == k = "finalize" /\ local = "private" IN
       /\ row' = [NoRow EXCEPT !.seq = row.seq + 1, !.base = local, !.status = "prepared",
                               !.kind = IF composite THEN "composite" ELSE k,
                               !.token = "route", !.lease = TRUE]
       /\ route' = [NoRoute EXCEPT !.pc = "freeze",
              !.cmd = [seq |-> row.seq + 1, exp |-> 0,
                       name |-> IF composite THEN "publish" ELSE k]]
    /\ lock' = "route"
    /\ was' = {srv}
    /\ UNCHANGED <<modern, srv, rev, receipts, late, by, top, local, worker, faults, others>>

RouteOwns == Owns("route", route.cmd.seq)
RouteEnds == route' = NoRoute /\ lock' = "free"

\* The second step of a composite is pinned to the revision its publish made.
Pinned == route.cmd.name = "finalize" /\ row.kind = "composite"

\* A modern server is asked for the card's revision, and the exact command is
\* stored in the row before it is sent; a claim lost meanwhile ends the route.
RouteFreezes ==
    /\ route.pc = "freeze"
    /\ LET c == [route.cmd EXCEPT !.exp = IF Pinned THEN @ ELSE rev] IN
       \/ /\ modern => RouteOwns
          /\ row' = IF modern THEN [row EXCEPT !.cmd = c] ELSE row
          /\ route' = [route EXCEPT !.pc = "send", !.cmd = c]
          /\ UNCHANGED <<lock, faults>>
       \/ /\ modern /\ ~RouteOwns
          /\ RouteEnds /\ UNCHANGED <<row, faults>>
       \/ /\ faults < MaxFaults /\ faults' = faults + 1
          /\ row' = IF RouteOwns THEN Released(row) ELSE row
          /\ RouteEnds
    /\ UNCHANGED <<modern, server, local, worker, others>>

\* What an old server's bundle answer is taken to mean: it names no state.
Assumed == CASE row.base = "private" -> "shared" [] OTHER -> row.base

\* The row after an answer that is not a success.
RouteRefused ==
    IF Pinned
    THEN [Settled(Seen(row, "shared"), "pending") EXCEPT !.partial = TRUE]
    ELSE [Settled(row, "rejected") EXCEPT !.denied = TRUE]

RouteFails(res) ==
    CASE res = "refused" -> RouteRefused
      [] res = "auth" -> Settled(row, "auth_required")
      [] res = "unknown" -> Released(row)

RouteSends ==
    /\ route.pc = "send"
    /\ \E a \in Replies(route.cmd) :
        /\ Called(route.cmd, a)
        /\ IF a.res = "ok"
           THEN /\ route' = [route EXCEPT
                      !.pc = IF modern /\ route.cmd.name # "publish" THEN "read" ELSE "settle",
                      !.cmd.exp = ReceiptRevision(route.cmd, a),
                      !.obs = IF ~modern /\ route.cmd.name = "publish" THEN Assumed ELSE a.s]
                /\ UNCHANGED <<row, lock>>
           ELSE /\ row' = IF RouteOwns THEN RouteFails(a.res) ELSE row
                /\ RouteEnds
    /\ UNCHANGED <<modern, local, worker, others>>

\* A receipt says what was done; the card is read again for what it is now.
RouteReads ==
    /\ route.pc = "read"
    /\ \/ /\ route' = [route EXCEPT !.pc = "settle", !.obs = srv]
          /\ UNCHANGED <<row, lock, faults>>
       \/ /\ faults < MaxFaults /\ faults' = faults + 1
          /\ \E res \in {"auth", "unknown"} :
                row' = IF RouteOwns THEN RouteFails(res) ELSE row
          /\ RouteEnds
    /\ UNCHANGED <<modern, server, local, worker, others>>

\* A card stays on hold in the mirror when the answer does not say otherwise.
Landed == IF row.kind = "publish" THEN route.obs # "private" ELSE route.obs \in Wanted(row)

\* The publish of a composite is mirrored and marked; the row stays open and
\* the finalize follows, whether or not the mirror could be written.
CompositePublished ==
    /\ route.pc = "settle" /\ row.kind = "composite" /\ route.cmd.name = "publish"
    /\ \/ /\ RouteOwns
          /\ row' = [Seen(row, route.obs) EXCEPT !.partial = TRUE]
          /\ \/ local' = route.obs /\ UNCHANGED faults
             \/ faults < MaxFaults /\ faults' = faults + 1 /\ UNCHANGED local
       \/ ~RouteOwns /\ UNCHANGED <<row, local, faults>>
    /\ IF RouteOwns \/ ~modern
       THEN route' = [route EXCEPT !.pc = "freeze", !.cmd.name = "finalize"] /\ UNCHANGED lock
       ELSE RouteEnds
    /\ UNCHANGED <<modern, server, worker, others>>

\* The answer is mirrored and the row closed in one transaction, or, when the
\* local database fails, the row waits for it.
RouteSettles ==
    /\ route.pc = "settle" /\ ~(row.kind = "composite" /\ route.cmd.name = "publish")
    /\ \/ /\ RouteOwns
          /\ local' = route.obs
          /\ row' = Settled(Seen(row, route.obs), IF Landed THEN "converged" ELSE "superseded")
          /\ UNCHANGED faults
       \/ /\ RouteOwns /\ faults < MaxFaults /\ faults' = faults + 1
          /\ row' = Settled(Seen(row, route.obs), "waiting_local")
          /\ UNCHANGED local
       \/ ~RouteOwns /\ UNCHANGED <<row, local, faults>>
    /\ RouteEnds
    /\ UNCHANGED <<modern, server, worker, others>>

-----------------------------------------------------------------------------
(***************************************************************************)
(* The worker: the reconciler's turn with the row.                         *)
(***************************************************************************)

WorkerOwns == Owns("worker", worker.seq)

\* The turn ends, and the row becomes r if it is still the worker's.
WorkerEnds(r) ==
    /\ worker' = NoWorker
    /\ lock' = IF lock = "worker" THEN "free" ELSE lock
    /\ row' = IF WorkerOwns THEN r ELSE row

WorkerGoes(pc, obs, st, exp) ==
    worker' = [worker EXCEPT !.pc = pc, !.obs = obs, !.st = st, !.exp = exp]

\* (mutant: a row that waits for a login is never claimed again)
Claim_NotAfterLogin ==
    /\ worker.pc = "idle" /\ row.status \in Open \ {"auth_required"}
    /\ row.token \in {"none", "worker"} \/ ~row.lease
    /\ row' = [row EXCEPT !.token = "worker", !.lease = TRUE]
    /\ worker' = [NoWorker EXCEPT !.pc = "observe", !.seq = row.seq]
    /\ UNCHANGED <<modern, server, local, lock, route, faults, others>>

\* An open row nobody holds, or whose holder's lease is over, is claimed; so is
\* one the worker itself still holds.
Claim ==
    /\ worker.pc = "idle" /\ row.status \in Open
    /\ row.token \in {"none", "worker"} \/ ~row.lease
    /\ row' = [row EXCEPT !.token = "worker", !.lease = TRUE]
    /\ worker' = [NoWorker EXCEPT !.pc = "observe", !.seq = row.seq]
    /\ UNCHANGED <<modern, server, local, lock, route, faults, others>>

\* The card is read under the lock; the lock is not kept.
Observe ==
    /\ worker.pc = "observe" /\ lock = "free"
    /\ \/ /\ WorkerGoes("lock", srv, "pending", 0)
          /\ UNCHANGED <<row, lock, faults>>
       \/ /\ faults < MaxFaults /\ faults' = faults + 1
          /\ \E r \in {Released(row), AuthRequired(row)} : WorkerEnds(r)
    /\ UNCHANGED <<modern, server, local, route, others>>

\* The lock is taken again and the claim renewed under it: a request made in
\* between ends the turn.  A card with several names is read once more.
Enter ==
    /\ worker.pc = "lock" /\ lock = "free"
    /\ IF WorkerOwns
       THEN /\ row' = [row EXCEPT !.lease = TRUE]
            /\ lock' = "worker"
            /\ \E obs \in {worker.obs, srv} : WorkerGoes("act", obs, "pending", 0)
       ELSE WorkerEnds(row)
    /\ UNCHANGED <<modern, server, local, route, faults, others>>

\* How an observation closes the row.
Terminal(r, obs, watched) ==
    IF obs \in Wanted(r) THEN "converged"
    ELSE IF watched /\ IsBase(r, obs) THEN "rejected" ELSE "superseded"

\* (mutant: the share a composite made is left in place)
Compensate_KeepsShare(obs, exp, next) ==
    IF obs = "final" THEN WorkerGoes("apply", obs, "converged", 0)
    ELSE WorkerGoes("apply", obs, "rejected", 0)

\* A composite whose publish was done and whose finalize was not: keep a final
\* card, give up on one that was shared before or no longer is, and take back
\* the share it made.
Compensate(obs, exp, next) ==
    IF obs = "final" THEN WorkerGoes("apply", obs, "converged", 0)
    ELSE IF row.base # "private" \/ obs = "private" THEN WorkerGoes("apply", obs, "rejected", 0)
    ELSE WorkerGoes(next, obs, "pending", exp)

\* A stored command is sent again exactly as it was.
Replay ==
    /\ worker.pc = "act" /\ row.cmd # NoCmd
    /\ \E a \in Replies(row.cmd) :
        /\ Called(row.cmd, a)
        /\ LET composite == row.kind = "composite" IN
           CASE a.res = "ok" ->
                  /\ IF composite /\ row.cmd.name = "publish"
                     THEN Compensate(a.s, ReceiptRevision(row.cmd, a), "cleanup")
                     ELSE WorkerGoes("apply", a.s, Terminal(row, a.s, FALSE), 0)
                  /\ UNCHANGED <<row, lock>>
             [] a.res = "refused" /\ composite /\ row.cmd.name = "finalize" ->
                  Compensate(srv, row.cmd.exp, "cleanup") /\ UNCHANGED <<row, lock>>
             [] a.res = "refused" /\ ~(composite /\ row.cmd.name = "finalize") ->
                  WorkerEnds(Settled(row, "rejected"))
             [] a.res = "auth" -> WorkerEnds(AuthRequired(row))
             [] a.res = "unknown" -> WorkerEnds(Released(row))
    /\ UNCHANGED <<modern, local, route, others>>

\* No command is stored: only the observation can tell.  An unknown result is
\* watched for a day before an observation other than the wanted one counts.
Judge ==
    /\ worker.pc = "act" /\ row.cmd = NoCmd
    /\ LET unknown == ResultUnknown(row)
           st == Terminal(row, worker.obs, unknown \/ row.expired) IN
       \/ /\ row.kind = "composite" /\ row.partial
          /\ Compensate(worker.obs, 0, "recheck")
          /\ UNCHANGED <<row, lock>>
       \/ /\ ~(row.kind = "composite" /\ row.partial)
          /\ unknown /\ st # "converged" /\ ~row.aged
          /\ WorkerEnds([Settled(row, "prepared") EXCEPT !.unknown = TRUE, !.seen = worker.obs])
       \/ /\ ~(row.kind = "composite" /\ row.partial)
          /\ ~unknown \/ st = "converged" \/ row.aged
          /\ row' = IF unknown
                    THEN [Seen(row, worker.obs) EXCEPT !.status = "pending",
                             !.expired = @ \/ st # "converged"]
                    ELSE row
          /\ WorkerGoes("apply", worker.obs, st, 0)
          /\ UNCHANGED lock
    /\ UNCHANGED <<modern, server, local, route, faults, others>>

\* With an old server the card is read once more right before the share is
\* taken back.
Recheck ==
    /\ worker.pc = "recheck"
    /\ \/ Compensate(srv, 0, "cleanup") /\ UNCHANGED <<row, lock, faults>>
       \/ /\ faults < MaxFaults /\ faults' = faults + 1
          /\ \E r \in {Released(row), AuthRequired(row)} : WorkerEnds(r)
    /\ UNCHANGED <<modern, server, local, route, others>>

\* The share the composite made is taken back: a modern server does it only at
\* the revision the publish made, an old one whenever the card is not final.
CleanUp ==
    /\ worker.pc = "cleanup"
    /\ LET c == [seq |-> row.seq, name |-> "cleanup", exp |-> worker.exp]
           r == IF modern THEN [row EXCEPT !.cmd = c] ELSE row IN
       \E a \in Replies(c) :
        /\ Called(c, a)
        /\ CASE a.res = "ok" ->
                  WorkerGoes("apply", a.s, "rejected", 0) /\ row' = r /\ UNCHANGED lock
             [] a.res = "refused" /\ modern ->
                  WorkerGoes("apply", srv, "superseded", 0) /\ row' = r /\ UNCHANGED lock
             [] a.res = "auth" -> WorkerEnds(AuthRequired(r))
             [] a.res = "unknown" \/ (a.res = "refused" /\ ~modern) -> WorkerEnds(Released(r))
    /\ UNCHANGED <<modern, local, route, others>>

\* The observation is mirrored and the row closed in one transaction; a local
\* failure makes the row wait, and a local card that is gone is waited for a
\* few times and then given up.
Apply ==
    /\ worker.pc = "apply"
    /\ \/ /\ local' = IF WorkerOwns THEN worker.obs ELSE local
          /\ WorkerEnds([Settled(Seen(row, worker.obs), worker.st) EXCEPT !.denied = FALSE])
          /\ UNCHANGED faults
       \/ /\ faults < MaxFaults /\ faults' = faults + 1
          /\ \E r \in {Settled(row, "waiting_local"),
                       Settled(Seen(row, worker.obs), "waiting_local"),
                       Settled(Seen(row, worker.obs), "rejected")} : WorkerEnds(r)
          /\ UNCHANGED local
    /\ UNCHANGED <<modern, server, route, others>>

-----------------------------------------------------------------------------
(***************************************************************************)
(* Time and restarts.                                                      *)
(***************************************************************************)

LeaseExpires ==
    /\ row.token # "none" /\ row.lease
    /\ row' = [row EXCEPT !.lease = FALSE]
    /\ UNCHANGED <<modern, server, local, lock, route, worker, faults, others>>

\* A day has passed since the result was first marked unknown.
WatchEnds ==
    /\ row.unknown /\ ~row.aged
    /\ row' = [row EXCEPT !.aged = TRUE]
    /\ UNCHANGED <<modern, server, local, lock, route, worker, faults, others>>

\* The application restarts: locks and turns are gone, and so is whoever held
\* the row; the next process has another claim token.
Restart ==
    /\ faults < MaxFaults /\ faults' = faults + 1
    /\ row' = [row EXCEPT !.token = IF @ = "none" THEN @ ELSE "gone"]
    /\ lock' = "free" /\ route' = NoRoute /\ worker' = NoWorker
    /\ UNCHANGED <<modern, server, local, others>>

RouteNext == RouteFreezes \/ RouteSends \/ RouteReads \/ CompositePublished \/ RouteSettles
WorkerNext == Claim \/ Observe \/ Enter \/ Replay \/ Judge \/ Recheck \/ CleanUp \/ Apply

Next ==
    \/ \E k \in Kinds : Prepare(k)
    \/ RouteNext \/ WorkerNext
    \/ LateArrives \/ OtherChanges
    \/ LeaseExpires \/ WatchEnds \/ Restart

\* A request in progress goes on, the reconciler polls, and time passes.
ShareFairness ==
    /\ WF_vars(RouteNext) /\ WF_vars(WorkerNext)
    /\ WF_vars(LeaseExpires) /\ WF_vars(WatchEnds)

ShareSpec == Init /\ [][Next]_vars /\ ShareFairness

-----------------------------------------------------------------------------
(***************************************************************************)
(* Properties.                                                             *)
(***************************************************************************)

Cmds == [seq : 0..MaxSeq, name : Steps \cup {"none"}, exp : Nat]

\* The shape of the state.
ShareTypeOK ==
    /\ modern \in BOOLEAN /\ srv \in State /\ rev \in Nat /\ local \in State
    /\ receipts \subseteq [seq : 1..MaxSeq, name : Steps, rev : Nat]
    /\ late \subseteq Cmds
    /\ row \in [seq : 0..MaxSeq, kind : AllKinds \cup {"composite"}, base : State,
                status : Open \cup Closed, token : {"none", "route", "worker", "gone"},
                lease : BOOLEAN, cmd : Cmds, seen : State \cup {"none"}, partial : BOOLEAN,
                unknown : BOOLEAN, aged : BOOLEAN, expired : BOOLEAN, denied : BOOLEAN]
    /\ lock \in {"free", "route", "worker"}
    /\ route \in [pc : {"idle", "freeze", "send", "read", "settle"}, cmd : Cmds, obs : State]
    /\ worker \in [pc : {"idle", "observe", "lock", "act", "recheck", "cleanup", "apply"},
                   seq : 0..MaxSeq, obs : State, st : Open \cup Closed, exp : Nat]
    /\ faults \in 0..MaxFaults /\ others \in 0..MaxOthers
    /\ was \subseteq State /\ by \in 0..MaxSeq /\ top \in 0..MaxSeq

\* The mirror is only ever given a state the server was in since the newest
\* request was made: an answer or an observation that an even newer request
\* has overtaken is not written (the claim, sequence and lock of
\* apply_share_state_intent_local).  The one exception is the answer of an old
\* server to a bundle, whose state is assumed.
MirrorIsFresh ==
    [][local' # local => \/ local' \in was
                         \/ ~modern /\ route.pc = "settle" /\ route.cmd.name = "publish"]_vars

\* With a modern server a command that was delayed, or sent again by the
\* worker, never changes the card once a newer request's command has changed
\* it (the expected revision in usecases/share.execute).
NewerRequestStands ==
    [][modern /\ srv' # srv /\ by' # 0 => by' >= top]_vars

\* A request its user was told had failed ("failed" of share_intent_outcome: the
\* composite's finalize "did not go in") is not done later by a command of its
\* own that was still under way, with a modern server.
FailedStaysFailed ==
    [][modern /\ row.seq > 0 /\ Outcome(row) = "failed" /\ srv' # srv /\ by' = row.seq
            => srv' \notin Wanted(row)]_vars

\* Taking back the share of a composite was not needed, or it was done, or the
\* card had moved on from the revision it was to be done at.
TakeBackDone == row.cmd.name = "cleanup" => ReceiptsOf(row.cmd) # {} \/ row.cmd.exp # rev

\* The same as FailedStaysFailed for every request but a composite whose share
\* was to be taken back and whose taking back the server did not do: the
\* revisions that the cleanup spends are what makes a late finalize fail
\* (_process_modern_composite_partial).
TakenBackStaysFailed ==
    [][modern /\ row.seq > 0 /\ Outcome(row) = "failed" /\ TakeBackDone
            /\ srv' # srv /\ by' = row.seq => srv' \notin Wanted(row)]_vars

\* What is reported as confirmed was the state of the server at some moment
\* since the request was made (share_intent_outcome), with a modern server.
ConfirmedWasSeen ==
    modern /\ row.seq > 0 /\ Outcome(row) = "confirmed" => was \cap Wanted(row) # {}

\* Whatever is lost, refused or restarted, every request is closed in the end.
EveryIntentCloses == <>[](row.status \in Closed)

=============================================================================
