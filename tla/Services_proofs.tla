-------------------------- MODULE Services_proofs ---------------------------
(*****************************************************************************)
(* What is proved of the services that share no state: the release update    *)
(* gate, the telemetry drain, the signals to the agents and the work items   *)
(* of MCP, for any number of their clients, changes and faults; and that     *)
(* they keep their types together with the trash, as MCServices has them.    *)
(*****************************************************************************)
EXTENDS MCServices, Trash_proofs, WellFoundedInduction, TLAPS

-----------------------------------------------------------------------------
(*****************************************************************************)
(* The update gate: an update cuts no create and no write off, for any       *)
(* number of requests, slots, tries and updates, when calls are prompt.      *)
(*****************************************************************************)

\* Claiming (claim_gen_requests).
LEMMA PollPassesStep ==
  ASSUME GateInv, CallsArePrompt, NEW s \in Slots, PollPasses(s)
  PROVE  GateInv'
<1> USE SentinelAssumption, GateAssumption
    DEF SentinelAssumption, GateAssumption, GateInv, GateTypeOK, CallType, Ops, RowsTypeOK,
        Statuses, Probes, Terminal, Alive, rows, slotVars, updateVars, PollPasses, Call,
        UpdateInProgress
<1>1. GateTypeOK'
  BY DEF CallsFit, SlotsFit
<1>2. FileTells'
  BY DEF FileTells
<1>3. JobsAreAnchored'
  BY DEF JobsAreAnchored, RowsFit, SlotsFit, CallsFit
<1>4. SlotsFit'
  BY DEF SlotsFit, CallsFit
<1>5. CallsFit'
  BY DEF CallsFit, SlotsFit
<1>6. HeldOnce'
  BY DEF HeldOnce, CallsFit, RowsFit, SlotsFit
<1>7. RowsFit'
  BY DEF RowsFit, CallsFit, HeldOnce, SlotsFit, JobsAreAnchored
<1>8. CountHolds'
  BY DEF CountHolds, FileTells, RowsFit, CallsFit
<1>. QED
  BY <1>1, <1>2, <1>3, <1>4, <1>5, <1>6, <1>7, <1>8

LEMMA PollClaimsStep ==
  ASSUME GateInv, CallsArePrompt, NEW c \in calls, NEW r \in Requests, PollClaims(c, r)
  PROVE  GateInv'
<1> USE SentinelAssumption, GateAssumption
    DEF SentinelAssumption, GateAssumption, GateInv, GateTypeOK, CallType, Ops, RowsTypeOK,
        Statuses, Probes, Terminal, Alive, rows, slotVars, updateVars, PollClaims, ClaimRow
<1>1. GateTypeOK'
  BY DEF CallsFit, SlotsFit
<1>2. FileTells'
  BY DEF FileTells
<1>3. JobsAreAnchored'
  BY DEF JobsAreAnchored, RowsFit, SlotsFit, CallsFit
<1>4. SlotsFit'
  BY DEF SlotsFit, CallsFit
<1>5. CallsFit'
  BY DEF CallsFit, SlotsFit
<1>6. HeldOnce'
  BY DEF HeldOnce, CallsFit, RowsFit, SlotsFit
<1>7. RowsFit'
  BY DEF RowsFit, CallsFit, HeldOnce, SlotsFit, JobsAreAnchored
<1>8. CountHolds'
  BY DEF CountHolds, FileTells, RowsFit, CallsFit
<1>. QED
  BY <1>1, <1>2, <1>3, <1>4, <1>5, <1>6, <1>7, <1>8

LEMMA PollSweepsStep ==
  ASSUME GateInv, CallsArePrompt, NEW c \in calls, PollSweeps(c)
  PROVE  GateInv'
<1> USE SentinelAssumption, GateAssumption
    DEF SentinelAssumption, GateAssumption, GateInv, GateTypeOK, CallType, Ops, RowsTypeOK,
        Statuses, Probes, Terminal, Alive, rows, slotVars, updateVars, PollSweeps, Sweep, Swept,
        Leased
<1>1. GateTypeOK'
  BY DEF CallsFit, SlotsFit
<1>2. FileTells'
  BY DEF FileTells
<1>3. JobsAreAnchored'
  BY DEF JobsAreAnchored, RowsFit, SlotsFit, CallsFit
<1>4. SlotsFit'
  BY DEF SlotsFit, CallsFit
<1>5. CallsFit'
  BY DEF CallsFit, SlotsFit
<1>6. HeldOnce'
  BY DEF HeldOnce, CallsFit, RowsFit, SlotsFit
<1>7. RowsFit'
  BY DEF RowsFit, CallsFit, HeldOnce, SlotsFit, JobsAreAnchored
<1>8. CountHolds'
  BY DEF CountHolds, FileTells, RowsFit, CallsFit
<1>. QED
  BY <1>1, <1>2, <1>3, <1>4, <1>5, <1>6, <1>7, <1>8

LEMMA LeaseEndsStep ==
  ASSUME GateInv, CallsArePrompt, NEW r \in Requests, LeaseEnds(r)
  PROVE  GateInv'
<1> USE SentinelAssumption, GateAssumption
    DEF SentinelAssumption, GateAssumption, GateInv, GateTypeOK, CallType, Ops, RowsTypeOK,
        Statuses, Probes, Terminal, Alive, rows, slotVars, updateVars, LeaseEnds, LeaseExpires,
        Leased
<1>1. GateTypeOK'
  BY DEF CallsFit, SlotsFit
<1>2. FileTells'
  BY DEF FileTells
<1>3. JobsAreAnchored'
  BY DEF JobsAreAnchored, RowsFit, SlotsFit, CallsFit
<1>4. SlotsFit'
  BY DEF SlotsFit, CallsFit
<1>5. CallsFit'
  BY DEF CallsFit, SlotsFit
<1>6. HeldOnce'
  BY DEF HeldOnce, CallsFit, RowsFit, SlotsFit
<1>7. RowsFit'
  BY DEF RowsFit, CallsFit, HeldOnce, SlotsFit, JobsAreAnchored
<1>8. CountHolds'
  BY DEF CountHolds, FileTells, RowsFit, CallsFit
<1>. QED
  BY <1>1, <1>2, <1>3, <1>4, <1>5, <1>6, <1>7, <1>8

\* begin-submission, its gate and the worker's retries.
LEMMA AskToBeginStep ==
  ASSUME GateInv, CallsArePrompt, NEW s \in Slots, AskToBegin(s)
  PROVE  GateInv'
<1> USE SentinelAssumption, GateAssumption
    DEF SentinelAssumption, GateAssumption, GateInv, GateTypeOK, CallType, Ops, RowsTypeOK,
        Statuses, Probes, Terminal, Alive, rows, slotVars, updateVars, AskToBegin, Call
<1>1. GateTypeOK'
  BY DEF CallsFit, SlotsFit
<1>2. FileTells'
  BY DEF FileTells
<1>3. JobsAreAnchored'
  BY DEF JobsAreAnchored, RowsFit, SlotsFit, CallsFit
<1>4. SlotsFit'
  BY DEF SlotsFit, CallsFit
<1>5. CallsFit'
  BY DEF CallsFit, SlotsFit
<1>6. HeldOnce'
  BY DEF HeldOnce, CallsFit, RowsFit, SlotsFit
<1>7. RowsFit'
  BY DEF RowsFit, CallsFit, HeldOnce, SlotsFit, JobsAreAnchored
<1>8. CountHolds'
  BY DEF CountHolds, FileTells, RowsFit, CallsFit
<1>. QED
  BY <1>1, <1>2, <1>3, <1>4, <1>5, <1>6, <1>7, <1>8

LEMMA BeginRowType == ASSUME RowsTypeOK, NEW r, NEW a, BeginRow(r, a) PROVE RowsTypeOK'
BY SentinelAssumption DEF BeginRow, MayBegin, RowsTypeOK, Statuses, Probes

LEMMA BeginCommitsStep ==
  ASSUME GateInv, CallsArePrompt, NEW c \in calls, BeginCommits(c)
  PROVE  GateInv'
<1> USE SentinelAssumption, GateAssumption
    DEF SentinelAssumption, GateAssumption, GateInv, GateTypeOK, CallType, Ops, RowsTypeOK,
        Statuses, Probes, Terminal, Alive, rows, slotVars, updateVars, BeginCommits, BeginRow,
        MayBegin
<1>1. GateTypeOK'
  <2>1. RowsTypeOK'
    BY BeginRowType
  <2>2. calls' \subseteq CallType
    BY DEF CallsFit, SlotsFit
  <2>3. /\ pc' \in [Slots -> {"idle", "prep", "begin", "release", "create"}]
        /\ req' \in [Slots -> Requests \cup {NoRequest}]
        /\ tries' \in [Slots -> 1..MaxTries]
    BY DEF CallsFit, SlotsFit
  <2>. QED
    BY <2>1, <2>2, <2>3
<1>2. FileTells'
  BY DEF FileTells
<1>3. JobsAreAnchored'
  BY DEF JobsAreAnchored, RowsFit, SlotsFit, CallsFit
<1>4. SlotsFit'
  BY DEF SlotsFit, CallsFit
<1>5. CallsFit'
  BY DEF CallsFit, SlotsFit
<1>6. HeldOnce'
  BY DEF HeldOnce, CallsFit, RowsFit, SlotsFit
<1>7. RowsFit'
  BY DEF RowsFit, CallsFit, HeldOnce, SlotsFit, JobsAreAnchored
<1>8. CountHolds'
  BY DEF CountHolds, FileTells, RowsFit, CallsFit
<1>. QED
  BY <1>1, <1>2, <1>3, <1>4, <1>5, <1>6, <1>7, <1>8

LEMMA BeginReadsStep ==
  ASSUME GateInv, CallsArePrompt, NEW c \in calls, NEW aborted \in BOOLEAN, BeginReadsGate(c, aborted)
  PROVE  GateInv'
<1> USE SentinelAssumption, GateAssumption
    DEF SentinelAssumption, GateAssumption, GateInv, GateTypeOK, CallType, Ops, RowsTypeOK,
        Statuses, Probes, Terminal, Alive, rows, slotVars, updateVars, BeginReadsGate,
        UpdateInProgress
<1>1. GateTypeOK'
  BY DEF CallsFit, SlotsFit
<1>2. FileTells'
  BY DEF FileTells
<1>3. JobsAreAnchored'
  BY DEF JobsAreAnchored, RowsFit, SlotsFit, CallsFit
<1>4. SlotsFit'
  BY DEF SlotsFit, CallsFit
<1>5. CallsFit'
  BY DEF CallsFit, SlotsFit
<1>6. HeldOnce'
  BY DEF HeldOnce, CallsFit, RowsFit, SlotsFit
<1>7. RowsFit'
  BY DEF RowsFit, CallsFit, HeldOnce, SlotsFit, JobsAreAnchored
<1>8. CountHolds'
  BY DEF CountHolds, FileTells, RowsFit, CallsFit
<1>. QED
  BY <1>1, <1>2, <1>3, <1>4, <1>5, <1>6, <1>7, <1>8

LEMMA BeginRefusedStep ==
  ASSUME GateInv, CallsArePrompt, NEW c \in calls, BeginRefused(c)
  PROVE  GateInv'
<1> USE SentinelAssumption, GateAssumption
    DEF SentinelAssumption, GateAssumption, GateInv, GateTypeOK, CallType, Ops, RowsTypeOK,
        Statuses, Probes, Terminal, Alive, rows, slotVars, updateVars, BeginRefused, MayBegin,
        MayRelease, ReleaseRow, Awaited, GiveUp, Call
<1>1. GateTypeOK'
  <2>1. RowsTypeOK'
    BY DEF RowsTypeOK
  <2>2. calls' \subseteq CallType
    BY DEF CallsFit, SlotsFit
  <2>3. /\ pc' \in [Slots -> {"idle", "prep", "begin", "release", "create"}]
        /\ req' \in [Slots -> Requests \cup {NoRequest}]
        /\ tries' \in [Slots -> 1..MaxTries]
    BY DEF CallsFit, SlotsFit
  <2>. QED
    BY <2>1, <2>2, <2>3
<1>2. FileTells'
  BY DEF FileTells
<1>3. JobsAreAnchored'
  BY DEF JobsAreAnchored, RowsFit, SlotsFit, CallsFit
<1>4. SlotsFit'
  BY DEF SlotsFit, CallsFit
<1>5. CallsFit'
  BY DEF CallsFit, SlotsFit
<1>6. HeldOnce'
  BY DEF HeldOnce, CallsFit, RowsFit, SlotsFit
<1>7. RowsFit'
  BY DEF RowsFit, CallsFit, HeldOnce, SlotsFit, JobsAreAnchored
<1>8. CountHolds'
  BY DEF CountHolds, FileTells, RowsFit, CallsFit
<1>. QED
  BY <1>1, <1>2, <1>3, <1>4, <1>5, <1>6, <1>7, <1>8

LEMMA CreateCalledStep ==
  ASSUME GateInv, CallsArePrompt, NEW c \in calls, CreateCalled(c)
  PROVE  GateInv'
<1> USE SentinelAssumption, GateAssumption
    DEF SentinelAssumption, GateAssumption, GateInv, GateTypeOK, CallType, Ops, RowsTypeOK,
        Statuses, Probes, Terminal, Alive, rows, slotVars, updateVars, CreateCalled, Awaited
<1>1. GateTypeOK'
  BY DEF CallsFit, SlotsFit
<1>2. FileTells'
  BY DEF FileTells
<1>3. JobsAreAnchored'
  BY DEF JobsAreAnchored, RowsFit, SlotsFit, CallsFit
<1>4. SlotsFit'
  BY DEF SlotsFit, CallsFit
<1>5. CallsFit'
  BY DEF CallsFit, SlotsFit
<1>6. HeldOnce'
  BY DEF HeldOnce, CallsFit, RowsFit, SlotsFit
<1>7. RowsFit'
  BY DEF RowsFit, CallsFit, HeldOnce, SlotsFit, JobsAreAnchored
<1>8. CountHolds'
  BY DEF CountHolds, FileTells, RowsFit, CallsFit
<1>. QED
  BY <1>1, <1>2, <1>3, <1>4, <1>5, <1>6, <1>7, <1>8

LEMMA BeginTimesOutStep ==
  ASSUME GateInv, CallsArePrompt, NEW s \in Slots, BeginTimesOut(s)
  PROVE  GateInv'
<1> USE SentinelAssumption, GateAssumption
    DEF SentinelAssumption, GateAssumption, GateInv, GateTypeOK, CallType, Ops, RowsTypeOK,
        Statuses, Probes, Terminal, Alive, rows, slotVars, updateVars, BeginTimesOut, Overdue,
        GiveUp, Call
<1>1. GateTypeOK'
  BY DEF CallsFit, SlotsFit
<1>2. FileTells'
  BY DEF FileTells
<1>3. JobsAreAnchored'
  BY DEF JobsAreAnchored, RowsFit, SlotsFit, CallsFit
<1>4. SlotsFit'
  BY DEF SlotsFit, CallsFit
<1>5. CallsFit'
  BY DEF CallsFit, SlotsFit
<1>6. HeldOnce'
  BY DEF HeldOnce, CallsFit, RowsFit, SlotsFit
<1>7. RowsFit'
  BY DEF RowsFit, CallsFit, HeldOnce, SlotsFit, JobsAreAnchored
<1>8. CountHolds'
  BY DEF CountHolds, FileTells, RowsFit, CallsFit
<1>. QED
  BY <1>1, <1>2, <1>3, <1>4, <1>5, <1>6, <1>7, <1>8

LEMMA ReleaseHandledStep ==
  ASSUME GateInv, CallsArePrompt, NEW c \in calls, ReleaseHandled(c)
  PROVE  GateInv'
<1> USE SentinelAssumption, GateAssumption
    DEF SentinelAssumption, GateAssumption, GateInv, GateTypeOK, CallType, Ops, RowsTypeOK,
        Statuses, Probes, Terminal, Alive, rows, slotVars, updateVars, ReleaseHandled,
        MayRelease, ReleaseRow, Awaited, Idle
<1>1. GateTypeOK'
  <2>1. RowsTypeOK'
    BY DEF RowsTypeOK
  <2>2. calls' \subseteq CallType
    BY DEF CallsFit, SlotsFit
  <2>3. /\ pc' \in [Slots -> {"idle", "prep", "begin", "release", "create"}]
        /\ req' \in [Slots -> Requests \cup {NoRequest}]
        /\ tries' \in [Slots -> 1..MaxTries]
    BY DEF CallsFit, SlotsFit
  <2>. QED
    BY <2>1, <2>2, <2>3
<1>2. FileTells'
  BY DEF FileTells
<1>3. JobsAreAnchored'
  BY DEF JobsAreAnchored, RowsFit, SlotsFit, CallsFit
<1>4. SlotsFit'
  BY DEF SlotsFit, CallsFit
<1>5. CallsFit'
  BY DEF CallsFit, SlotsFit
<1>6. HeldOnce'
  BY DEF HeldOnce, CallsFit, RowsFit, SlotsFit
<1>7. RowsFit'
  BY DEF RowsFit, CallsFit, HeldOnce, SlotsFit, JobsAreAnchored
<1>8. CountHolds'
  BY DEF CountHolds, FileTells, RowsFit, CallsFit
<1>. QED
  BY <1>1, <1>2, <1>3, <1>4, <1>5, <1>6, <1>7, <1>8

LEMMA ReleaseTimesOutStep ==
  ASSUME GateInv, CallsArePrompt, NEW s \in Slots, ReleaseTimesOut(s)
  PROVE  GateInv'
<1> USE SentinelAssumption, GateAssumption
    DEF SentinelAssumption, GateAssumption, GateInv, GateTypeOK, CallType, Ops, RowsTypeOK,
        Statuses, Probes, Terminal, Alive, rows, slotVars, updateVars, ReleaseTimesOut, Overdue,
        Idle
<1>1. GateTypeOK'
  BY DEF CallsFit, SlotsFit
<1>2. FileTells'
  BY DEF FileTells
<1>3. JobsAreAnchored'
  BY DEF JobsAreAnchored, RowsFit, SlotsFit, CallsFit
<1>4. SlotsFit'
  BY DEF SlotsFit, CallsFit
<1>5. CallsFit'
  BY DEF CallsFit, SlotsFit
<1>6. HeldOnce'
  BY DEF HeldOnce, CallsFit, RowsFit, SlotsFit
<1>7. RowsFit'
  BY DEF RowsFit, CallsFit, HeldOnce, SlotsFit, JobsAreAnchored
<1>8. CountHolds'
  BY DEF CountHolds, FileTells, RowsFit, CallsFit
<1>. QED
  BY <1>1, <1>2, <1>3, <1>4, <1>5, <1>6, <1>7, <1>8

LEMMA LoseCallStep ==
  ASSUME GateInv, CallsArePrompt, NEW c \in calls, LoseCall(c)
  PROVE  GateInv'
<1> USE SentinelAssumption, GateAssumption
    DEF SentinelAssumption, GateAssumption, GateInv, GateTypeOK, CallType, Ops, RowsTypeOK,
        Statuses, Probes, Terminal, Alive, rows, slotVars, updateVars, LoseCall
<1>1. GateTypeOK'
  BY DEF CallsFit, SlotsFit
<1>2. FileTells'
  BY DEF FileTells
<1>3. JobsAreAnchored'
  BY DEF JobsAreAnchored, RowsFit, SlotsFit, CallsFit
<1>4. SlotsFit'
  BY DEF SlotsFit, CallsFit
<1>5. CallsFit'
  BY DEF CallsFit, SlotsFit
<1>6. HeldOnce'
  BY DEF HeldOnce, CallsFit, RowsFit, SlotsFit
<1>7. RowsFit'
  BY DEF RowsFit, CallsFit, HeldOnce, SlotsFit, JobsAreAnchored
<1>8. CountHolds'
  BY DEF CountHolds, FileTells, RowsFit, CallsFit
<1>. QED
  BY <1>1, <1>2, <1>3, <1>4, <1>5, <1>6, <1>7, <1>8

\* The create.
LEMMA CreateReturnsStep ==
  ASSUME GateInv, CallsArePrompt, NEW s \in Slots, NEW j \in Jobs, CreateReturns(s, j)
  PROVE  GateInv'
<1> USE SentinelAssumption, GateAssumption
    DEF SentinelAssumption, GateAssumption, GateInv, GateTypeOK, CallType, Ops, RowsTypeOK,
        Statuses, Probes, Terminal, Alive, rows, slotVars, updateVars, CreateReturns, AnchorRow,
        Idle
<1>1. GateTypeOK'
  BY DEF CallsFit, SlotsFit
<1>2. FileTells'
  BY DEF FileTells
<1>3. JobsAreAnchored'
  BY DEF JobsAreAnchored, RowsFit, SlotsFit, CallsFit
<1>4. SlotsFit'
  BY DEF SlotsFit, CallsFit
<1>5. CallsFit'
  BY DEF CallsFit, SlotsFit
<1>6. HeldOnce'
  BY DEF HeldOnce, CallsFit, RowsFit, SlotsFit
<1>7. RowsFit'
  BY DEF RowsFit, CallsFit, HeldOnce, SlotsFit, JobsAreAnchored
<1>8. CountHolds'
  BY DEF CountHolds, FileTells, RowsFit, CallsFit
<1>. QED
  BY <1>1, <1>2, <1>3, <1>4, <1>5, <1>6, <1>7, <1>8

\* A quarantine keeps the rows typed (mark_request_recovery_required).
LEMMA QuarantineTypes ==
  ASSUME RowsTypeOK, NEW r \in Requests, QuarantineRow(r)
  PROVE  RowsTypeOK'
<1>1. CASE status[r] = "recovery_required"
  BY <1>1 DEF QuarantineRow, RowsTypeOK
<1>2. CASE status[r] # "recovery_required"
  <2>1. status' \in [Requests -> Statuses] /\ probe' \in [Requests -> Probes]
    BY <1>2 DEF QuarantineRow, RowsTypeOK, Statuses, Probes
  <2>2. owner' \in [Requests -> Agents \cup {NoAgent}] /\ candidate' \in [Requests -> Jobs \cup {NoJob}]
    BY <1>2 DEF QuarantineRow, RowsTypeOK
  <2>3. fresh' \in [Requests -> BOOLEAN] /\ ledger' = ledger /\ job' = job
    BY <1>2 DEF QuarantineRow, RowsTypeOK
  <2>. QED
    BY <2>1, <2>2, <2>3 DEF RowsTypeOK
<1>. QED
  BY <1>1, <1>2

LEMMA CreateUnclearStep ==
  ASSUME GateInv, CallsArePrompt, NEW s \in Slots, CreateUnclear(s)
  PROVE  GateInv'
<1> USE SentinelAssumption, GateAssumption
    DEF SentinelAssumption, GateAssumption, GateInv, GateTypeOK, CallType, Ops, RowsTypeOK,
        Statuses, Probes, Terminal, Alive, rows, slotVars, updateVars, CreateUnclear,
        MayQuarantine, QuarantineRow, Idle
<1>1. GateTypeOK'
  <2>1. RowsTypeOK'
    BY QuarantineTypes DEF SlotsFit
  <2>2. calls' \subseteq CallType
    BY DEF CallsFit, SlotsFit
  <2>3. /\ pc' \in [Slots -> {"idle", "prep", "begin", "release", "create"}]
        /\ req' \in [Slots -> Requests \cup {NoRequest}]
        /\ tries' \in [Slots -> 1..MaxTries]
    BY DEF CallsFit, SlotsFit
  <2>. QED
    BY <2>1, <2>2, <2>3
<1>2. FileTells'
  BY DEF FileTells
<1>3. JobsAreAnchored'
  BY DEF JobsAreAnchored, RowsFit, SlotsFit, CallsFit
<1>4. SlotsFit'
  BY DEF SlotsFit, CallsFit
<1>5. CallsFit'
  BY DEF CallsFit, SlotsFit
<1>6. HeldOnce'
  BY DEF HeldOnce, CallsFit, RowsFit, SlotsFit
<1>7. RowsFit'
  BY DEF RowsFit, CallsFit, HeldOnce, SlotsFit, JobsAreAnchored
<1>8. CountHolds'
  BY DEF CountHolds, FileTells, RowsFit, CallsFit
<1>. QED
  BY <1>1, <1>2, <1>3, <1>4, <1>5, <1>6, <1>7, <1>8

\* Storing a result (local_write).
LEMMA StoreStep ==
  ASSUME GateInv, CallsArePrompt, NEW r \in Requests, Store(r)
  PROVE  GateInv'
<1> USE SentinelAssumption, GateAssumption
    DEF SentinelAssumption, GateAssumption, GateInv, GateTypeOK, CallType, Ops, RowsTypeOK,
        Statuses, Probes, Terminal, Alive, rows, slotVars, updateVars, Store, WriteCounted,
        WriteGated, WriteDone, SettleRow, UpdateInProgress
<1>1. GateTypeOK'
  <2>1. RowsTypeOK'
    <3>1. CASE UNCHANGED rows
      BY <3>1
    <3>2. CASE \E verdict \in Terminal : SettleRow(r, verdict)
      BY <3>2
    <3>. QED
      BY <3>1, <3>2
  <2>2. writer' \in [Requests -> {"none", "counted", "writing"}]
    OBVIOUS
  <2>. QED
    BY <2>1, <2>2
<1>2. FileTells'
  BY DEF FileTells
<1>3. JobsAreAnchored'
  BY DEF JobsAreAnchored, RowsFit, SlotsFit, CallsFit
<1>4. SlotsFit'
  BY DEF SlotsFit, CallsFit
<1>5. CallsFit'
  BY DEF CallsFit, SlotsFit
<1>6. HeldOnce'
  BY DEF HeldOnce, CallsFit, RowsFit, SlotsFit
<1>7. RowsFit'
  BY DEF RowsFit, CallsFit, HeldOnce, SlotsFit, JobsAreAnchored
<1>8. CountHolds'
  BY DEF CountHolds, FileTells, RowsFit, CallsFit
<1>. QED
  BY <1>1, <1>2, <1>3, <1>4, <1>5, <1>6, <1>7, <1>8

\* start_update and the installer.
LEMMA UpdateStep ==
  ASSUME GateInv, CallsArePrompt, Update /\ ~InstallerRestarts
  PROVE  GateInv'
<1> USE SentinelAssumption, GateAssumption
    DEF SentinelAssumption, GateAssumption, GateInv, GateTypeOK, CallType, Ops, RowsTypeOK,
        Statuses, Probes, Terminal, Alive, rows, slotVars, updateVars, Update, UpdateAsked,
        UpdateAnnounced, UpdateGivesUp, UpdateOff, UpdateRecounts, UpdateRecountsWrites,
        UpdateLaunches, UpdateInProgress, Generating, Blocking, Writing
<1>1. GateTypeOK'
  BY DEF CallsFit, SlotsFit
<1>2. FileTells'
  BY DEF FileTells
<1>3. JobsAreAnchored'
  BY DEF JobsAreAnchored, RowsFit, SlotsFit, CallsFit
<1>4. SlotsFit'
  BY DEF SlotsFit, CallsFit
<1>5. CallsFit'
  BY DEF CallsFit, SlotsFit
<1>6. HeldOnce'
  BY DEF HeldOnce, CallsFit, RowsFit, SlotsFit
<1>7. RowsFit'
  BY DEF RowsFit, CallsFit, HeldOnce, SlotsFit, JobsAreAnchored
<1>8. CountHolds'
  <2>1. CASE UpdateRecounts
    <3>1. CASE Generating
      BY <2>1, <3>1 DEF CountHolds
    <3>2. CASE ~Generating
      <4>1. \A r \in Requests : status[r] # "submitting"
        BY <3>2
      <4>2. \A s \in Slots : pc[s] # "create"
        BY <4>1 DEF RowsFit, SlotsFit
      <4>3. \A c \in calls : c.at # "reply"
        BY <4>1 DEF RowsFit, CallsFit, SlotsFit
      <4>. QED
        BY <2>1, <3>2, <4>2, <4>3 DEF CountHolds
    <3>. QED
      BY <3>1, <3>2
  <2>2. CASE UpdateRecountsWrites
    BY <2>2 DEF CountHolds
  <2>3. CASE ~UpdateRecounts /\ ~UpdateRecountsWrites
    BY <2>3 DEF CountHolds
  <2>. QED
    BY <2>1, <2>2, <2>3
<1>. QED
  BY <1>1, <1>2, <1>3, <1>4, <1>5, <1>6, <1>7, <1>8

LEMMA RestartStep ==
  ASSUME GateInv, CallsArePrompt, InstallerRestarts
  PROVE  GateInv'
<1> USE SentinelAssumption, GateAssumption
    DEF SentinelAssumption, GateAssumption, GateInv, GateTypeOK, CallType, Ops, RowsTypeOK,
        Statuses, Probes, Terminal, Alive, rows, slotVars, updateVars, InstallerRestarts
<1>1. GateTypeOK'
  BY DEF CallsFit, SlotsFit
<1>2. FileTells'
  BY DEF FileTells
<1>3. JobsAreAnchored'
  BY DEF JobsAreAnchored, RowsFit, SlotsFit, CallsFit
<1>4. SlotsFit'
  BY DEF SlotsFit, CallsFit
<1>5. CallsFit'
  BY DEF CallsFit, SlotsFit
<1>6. HeldOnce'
  BY DEF HeldOnce, CallsFit, RowsFit, SlotsFit
<1>7. RowsFit'
  BY DEF RowsFit, CallsFit, HeldOnce, SlotsFit, JobsAreAnchored
<1>8. CountHolds'
  BY DEF CountHolds, FileTells, RowsFit, CallsFit
<1>. QED
  BY <1>1, <1>2, <1>3, <1>4, <1>5, <1>6, <1>7, <1>8

-----------------------------------------------------------------------------
\* The invariant holds at the start, and every step keeps it.
LEMMA GateInvInit == Init => GateInv
<1> SUFFICES ASSUME Init PROVE GateInv
  OBVIOUS
<1> USE SentinelAssumption, GateAssumption DEF SentinelAssumption, GateAssumption
<1>1. RowsTypeOK
  BY DEF Init, RowsInit, RowsTypeOK, Statuses, Probes
<1>2. GateTypeOK
  BY <1>1 DEF Init, GateTypeOK
<1>3. FileTells /\ JobsAreAnchored
  BY DEF Init, RowsInit, FileTells, JobsAreAnchored, Terminal
<1>4. SlotsFit /\ CallsFit /\ HeldOnce /\ RowsFit /\ CountHolds
  BY DEF Init, SlotsFit, CallsFit, HeldOnce, RowsFit, CountHolds, Alive
<1>. QED
  BY <1>2, <1>3, <1>4 DEF GateInv

LEMMA GateInvStep == CallsArePrompt /\ GateInv /\ [Next]_vars => GateInv'
<1> SUFFICES ASSUME CallsArePrompt, GateInv, [Next]_vars PROVE GateInv'
  OBVIOUS
<1>1. ASSUME NEW s \in Slots, Work(s) PROVE GateInv'
  BY <1>1, PollPassesStep, AskToBeginStep, BeginTimesOutStep, ReleaseTimesOutStep,
     CreateReturnsStep, CreateUnclearStep DEF Work
<1>2. ASSUME NEW c \in calls, Handle(c) PROVE GateInv'
  BY <1>2, PollClaimsStep, PollSweepsStep, BeginCommitsStep, BeginReadsStep, BeginRefusedStep,
     CreateCalledStep, ReleaseHandledStep, LoseCallStep DEF Handle
<1>3. ASSUME NEW r \in Requests, LeaseEnds(r) \/ Store(r) PROVE GateInv'
  BY <1>3, LeaseEndsStep, StoreStep
<1>4. CASE Update
  BY <1>4, UpdateStep, RestartStep
<1>5. CASE UNCHANGED vars
  BY <1>5 DEF vars, rows, updateVars, slotVars, GateInv, GateTypeOK, RowsTypeOK, FileTells,
     JobsAreAnchored, SlotsFit, CallsFit, HeldOnce, RowsFit, CountHolds, Alive
<1>. QED
  BY <1>1, <1>2, <1>3, <1>4, <1>5 DEF Next

\* The count, the gate of begin-submission and the gate of a write see one
\* another (start_update, begin_gen_request_submission, local_write).
THEOREM GateInvariant == ASSUME CallsArePrompt PROVE Spec => []GateInv
BY GateInvInit, GateInvStep, PTL DEF Spec

\* The rows, the slots, the calls, the writers and the updater keep their types.
THEOREM GateTypeCorrect == ASSUME CallsArePrompt PROVE Spec => []GateTypeOK
<1>1. GateInv => GateTypeOK
  BY DEF GateInv
<1>. QED
  BY <1>1, GateInvariant, PTL

\* When the installer is launched no create runs or can start and no result
\* is being stored, and the gate takes no row from a create that runs.
THEOREM CutsNothingOffTheorem == ASSUME CallsArePrompt PROVE Spec => []UpdateCutsNothingOff
<1>1. GateInv => UpdateCutsNothingOff
  BY DEF GateInv, CountHolds, RowsFit, Alive, UpdateCutsNothingOff
<1>. QED
  BY <1>1, GateInvariant, PTL

-----------------------------------------------------------------------------
(*****************************************************************************)
(* The telemetry drain: no placement is taken back, for any number of        *)
(* changes and faults.                                                       *)
(*****************************************************************************)

\* A row is marked at most once for each change of its card: its revision stays
\* behind, and one that is owed is not counted yet.
MarksAreCounted ==
  /\ ~telOwed => telRow.rev <= telCard.ver + 1
  /\ telOwed => telRow.rev <= telCard.ver

\* A card was placed where it is in the version its stamp tells, wherever the
\* fact has come to.
Stamped(f) == f.place = f.stamp
FactsAreStamped ==
  /\ Stamped(telCard) /\ Stamped(telRow.snapshot) /\ Stamped(telDrain.fact) /\ Stamped(telTeam)
  /\ \A c \in telCalls : Stamped(c.fact)
  /\ telTaken < 0 => telTeam.stamp = 0

TelInv == TelTypeOK /\ MarksAreCounted /\ FactsAreStamped

TelRow == [rev : 1..MaxChanges + 1, pushed : BOOLEAN, tomb : BOOLEAN, snapshot : Fact, held : BOOLEAN,
           ver : Versions]
TelDrain == [at : {"none", "list", "build", "push", "wait", "taken", "failed", "end"},
             rev : 0..MaxChanges + 1, fact : Fact]

LEMMA TelInitInv == TelInit => TelInv
<1> SUFFICES ASSUME TelInit PROVE TelInv
  OBVIOUS
<1>1. 0 \in Versions /\ 1 \in 1..MaxChanges + 1 /\ 0 \in 0..MaxChanges + 1 /\ 0 \in 0..MaxTelFaults
      /\ 0 \in -1..MaxChanges /\ -1 \in -1..MaxChanges
  BY TelemetryAssumption DEF Versions
<1>2. NoFact \in Fact /\ telCard \in Fact /\ telTeam \in Fact
  BY <1>1 DEF TelInit, NoFact, Fact
<1>3. telRow \in TelRow /\ telDrain \in TelDrain
  BY <1>1, <1>2 DEF TelInit, NoDrain, TelRow, TelDrain
<1>4. TelTypeOK
  BY <1>1, <1>2, <1>3 DEF TelInit, TelTypeOK, TelRow, TelDrain
<1>. QED
  BY <1>4 DEF TelInit, TelInv, MarksAreCounted, FactsAreStamped, Stamped, NoFact, NoDrain

\* What a mark makes of the row.
LEMMA MarkType ==
  ASSUME TelTypeOK, telRow.rev <= MaxChanges
  PROVE  /\ \A v \in Versions : MarkDirty(v) =>
              telRow' \in TelRow /\ telRow'.rev = telRow.rev + 1 /\ telRow'.snapshot = telRow.snapshot
         /\ \A f \in Fact : MarkTombstone(f) =>
              telRow' \in TelRow /\ telRow'.rev = telRow.rev + 1 /\ telRow'.snapshot = f
<1>1. telRow \in TelRow /\ telRow.rev + 1 \in 1..MaxChanges + 1
  BY TelemetryAssumption DEF TelTypeOK, TelRow
<1>. QED
  BY <1>1 DEF MarkDirty, MarkTombstone, TelRow, Fact

\* A card that has changed.
LEMMA ChangeType ==
  ASSUME TelTypeOK, telCard.ver < MaxChanges
  PROVE  /\ NextVersion \in Versions /\ NextVersion = telCard.ver + 1
         /\ [telCard EXCEPT !.ver = NextVersion] \in Fact
         /\ [telCard EXCEPT !.ver = NextVersion, !.place = NextVersion, !.stamp = NextVersion] \in Fact
         /\ \A gone \in BOOLEAN : [telCard EXCEPT !.ver = NextVersion, !.gone = gone] \in Fact
<1>1. telCard \in Fact /\ telCard.ver \in Versions
  BY DEF TelTypeOK, Fact
<1>2. NextVersion \in Versions /\ NextVersion = telCard.ver + 1
  BY <1>1, TelemetryAssumption DEF NextVersion, Versions
<1>. QED
  BY <1>1, <1>2 DEF Fact

\* What the server makes of a fact is a fact, placed as its stamp tells, and no
\* placement it has replaces a later one.
LEMMA UpsertedFact ==
  ASSUME NEW old \in Fact, NEW new \in Fact, Stamped(old), Stamped(new)
  PROVE  /\ Upserted(old, new) \in Fact /\ Stamped(Upserted(old, new))
         /\ (telTaken < 0 => old.stamp = 0) =>
              (old.stamp > 0 /\ Upserted(old, new).stamp > 0 => Upserted(old, new).place >= old.place)
<1>1. Placed(old, new) \in Fact /\ Stamped(Placed(old, new))
  BY TelemetryAssumption DEF Placed, Older, Fact, Versions, Stamped
<1>2. old.stamp > 0 /\ Placed(old, new).stamp > 0 => Placed(old, new).place >= old.place
  BY TelemetryAssumption DEF Placed, Older, Fact, Versions, Stamped
<1>3. [old EXCEPT !.gone = TRUE, !.ver = new.ver] \in Fact
      /\ Stamped([old EXCEPT !.gone = TRUE, !.ver = new.ver])
      /\ [old EXCEPT !.gone = TRUE, !.ver = new.ver].place = old.place
  BY DEF Fact, Stamped
<1>. HIDE DEF Stamped
<1>4. old.place \in Int
  BY TelemetryAssumption DEF Fact, Versions
<1>. QED
  BY <1>1, <1>2, <1>3, <1>4 DEF Upserted

\* A call that nobody waits for any more carries the fact it carried.
LEMMA ForsakenFacts ==
  ASSUME telCalls \subseteq [fact : Fact, awaited : BOOLEAN],
         \A c \in telCalls : Stamped(c.fact)
  PROVE  Forsaken \subseteq [fact : Fact, awaited : BOOLEAN] /\ \A c \in Forsaken : Stamped(c.fact)
<1> SUFFICES ASSUME NEW x \in Forsaken
             PROVE  x \in [fact : Fact, awaited : BOOLEAN] /\ Stamped(x.fact)
  OBVIOUS
<1>1. PICK c \in telCalls : x = [c EXCEPT !.awaited = FALSE]
  BY DEF Forsaken
<1>2. c \in [fact : Fact, awaited : BOOLEAN] /\ Stamped(c.fact)
  OBVIOUS
<1>3. x \in [fact : Fact, awaited : BOOLEAN] /\ x.fact = c.fact
  BY <1>1, <1>2
<1>. QED
  BY <1>2, <1>3

LEMMA TelStep == TelInv /\ [TelNext]_telVars => TelInv'
<1> SUFFICES ASSUME TelInv, [TelNext]_telVars PROVE TelInv'
  OBVIOUS
<1> USE TelemetryAssumption
<1>0. /\ telCard \in Fact /\ telRow.snapshot \in Fact /\ telRow.rev \in 1..MaxChanges + 1
      /\ telRow.ver \in Versions /\ telCard.ver \in Versions
      /\ TelTypeOK /\ telRow \in TelRow /\ telDrain \in TelDrain
      /\ Stamped(telCard) /\ telCard.place = telCard.stamp /\ telRow.snapshot.place = telRow.snapshot.stamp
      /\ Stamped(telRow.snapshot) /\ Stamped(telDrain.fact)
  BY DEF TelInv, TelTypeOK, Fact, TelRow, TelDrain, FactsAreStamped, Stamped
<1>1. CASE CardMoves
  <2>1. telCard' \in Fact /\ telCard'.ver = telCard.ver + 1 /\ telCard'.place = telCard'.stamp
    BY <1>1, <1>0, ChangeType DEF CardMoves, Fact
  <2>2. telRow.rev <= MaxChanges /\ telRow.rev + 1 <= telCard'.ver + 1 /\ (telOwed => telRow.rev + 1 <= telCard'.ver)
    BY <1>1, <1>0, <2>1, TelemetryAssumption DEF CardMoves, TelInv, MarksAreCounted, Versions
  <2>3. telRow' \in TelRow /\ telRow'.rev = telRow.rev + 1 /\ telRow'.snapshot.place = telRow'.snapshot.stamp
    BY <1>1, <1>0, <2>1, <2>2, MarkType, ChangeType DEF CardMoves
  <2>4. TelTypeOK'
    BY <1>1, <2>1, <2>3 DEF CardMoves, TelInv, TelTypeOK, telTaskVars, telServerVars, TelRow
  <2>. QED
    BY <1>1, <2>1, <2>2, <2>3, <2>4 DEF CardMoves, TelInv, MarksAreCounted, FactsAreStamped, Stamped, telTaskVars,
       telServerVars
<1>2. CASE CardChanges
  <2>1. telCard' \in Fact /\ telCard'.ver = telCard.ver + 1 /\ telCard'.place = telCard'.stamp
    BY <1>2, <1>0, ChangeType DEF CardChanges, Fact
  <2>2. telRow.rev <= telCard'.ver
    BY <1>2, <1>0, <2>1, TelemetryAssumption DEF CardChanges, TelInv, MarksAreCounted, Versions
  <2>4. TelTypeOK'
    BY <1>2, <2>1 DEF CardChanges, TelInv, TelTypeOK, telTaskVars, telServerVars
  <2>. QED
    BY <1>2, <2>1, <2>2, <2>4 DEF CardChanges, TelInv, MarksAreCounted, FactsAreStamped, Stamped, telTaskVars,
       telServerVars
<1>3. CASE CardTouched
  <2>2. telRow.rev <= MaxChanges /\ telRow.rev + 1 <= telCard.ver + 1
    BY <1>3, <1>0, TelemetryAssumption DEF CardTouched, TelInv, MarksAreCounted, Versions
  <2>3. telRow' \in TelRow /\ telRow'.rev = telRow.rev + 1 /\ telRow'.snapshot = telRow.snapshot
    BY <1>3, <1>0, <2>2, MarkType DEF CardTouched
  <2>4. TelTypeOK'
    BY <1>3, <2>3 DEF CardTouched, TelInv, TelTypeOK, telTaskVars, telServerVars, TelRow
  <2>. QED
    BY <1>3, <2>2, <2>3, <2>4 DEF CardTouched, TelInv, MarksAreCounted, FactsAreStamped, Stamped, telTaskVars,
       telServerVars
<1>4. CASE CardTrashed
  <2>1. telCard' \in Fact /\ telCard'.ver = telCard.ver + 1 /\ telCard'.place = telCard'.stamp
    BY <1>4, <1>0, ChangeType DEF CardTrashed, Fact
  <2>2. telRow.rev <= MaxChanges /\ telRow.rev + 1 <= telCard'.ver + 1 /\ (telOwed => telRow.rev + 1 <= telCard'.ver)
    BY <1>4, <1>0, <2>1, TelemetryAssumption DEF CardTrashed, TelInv, MarksAreCounted, Versions
  <2>3. telRow' \in TelRow /\ telRow'.rev = telRow.rev + 1 /\ telRow'.snapshot.place = telRow'.snapshot.stamp
    BY <1>4, <1>0, <2>1, <2>2, MarkType, ChangeType DEF CardTrashed
  <2>4. TelTypeOK'
    BY <1>4, <2>1, <2>3 DEF CardTrashed, TelInv, TelTypeOK, telTaskVars, telServerVars, TelRow
  <2>. QED
    BY <1>4, <2>1, <2>2, <2>3, <2>4 DEF CardTrashed, TelInv, MarksAreCounted, FactsAreStamped, Stamped, telTaskVars,
       telServerVars
<1>5. CASE CardRestored
  <2>1. telCard' \in Fact /\ telCard'.ver = telCard.ver + 1 /\ telCard'.place = telCard'.stamp
    BY <1>5, <1>0, ChangeType DEF CardRestored, Fact
  <2>2. telRow.rev <= MaxChanges /\ telRow.rev + 1 <= telCard'.ver + 1 /\ (telOwed => telRow.rev + 1 <= telCard'.ver)
    BY <1>5, <1>0, <2>1, TelemetryAssumption DEF CardRestored, TelInv, MarksAreCounted, Versions
  <2>3. telRow' \in TelRow /\ telRow'.rev = telRow.rev + 1 /\ telRow'.snapshot.place = telRow'.snapshot.stamp
    BY <1>5, <1>0, <2>1, <2>2, MarkType, ChangeType DEF CardRestored
  <2>4. TelTypeOK'
    BY <1>5, <2>1, <2>3 DEF CardRestored, TelInv, TelTypeOK, telTaskVars, telServerVars, TelRow
  <2>. QED
    BY <1>5, <2>1, <2>2, <2>3, <2>4 DEF CardRestored, TelInv, MarksAreCounted, FactsAreStamped, Stamped, telTaskVars,
       telServerVars
<1>6. CASE BackoffEnds \/ Schedule \/ DrainStarts \/ DrainEnds \/ ListDirty \/ BuildFacts \/ Settle \/ Push
  <2>1. telRow' \in TelRow /\ telRow'.rev = telRow.rev /\ telRow'.snapshot = telRow.snapshot
    BY <1>6, <1>0 DEF BackoffEnds, Schedule, DrainStarts, DrainEnds, ListDirty, BuildFacts, Settle, Push,
       MarkPushed, MarkFailed, telCardVars, TelRow
  <2>2. NoDrain \in TelDrain /\ NoFact \in Fact /\ NoDrain.fact = NoFact /\ Stamped(NoFact)
    BY TelemetryAssumption DEF NoDrain, NoFact, TelDrain, Fact, Versions, Stamped
  <2>3. telDrain' \in TelDrain /\ Stamped(telDrain'.fact)
    <3>1. telRow.rev \in 0..MaxChanges + 1
      BY <1>0
    <3>2. CASE BackoffEnds \/ Schedule
      BY <3>2, <1>0 DEF BackoffEnds, Schedule
    <3>3. CASE DrainStarts \/ DrainEnds
      BY <3>3, <1>0, <2>2 DEF DrainStarts, DrainEnds, TelDrain, Stamped
    <3>4. CASE ListDirty
      BY <3>4, <1>0, <2>2, <3>1 DEF ListDirty, TelDrain
    <3>5. CASE BuildFacts \/ Settle \/ Push
      BY <3>5, <1>0 DEF BuildFacts, Settle, Push, TelDrain, Stamped
    <3>. QED
      BY <1>6, <3>2, <3>3, <3>4, <3>5
  <2>4. telCalls' \subseteq [fact : Fact, awaited : BOOLEAN] /\ \A c \in telCalls' : Stamped(c.fact)
    <3>1. CASE Push
      <4>1. telDrain.fact \in Fact
        BY <1>0 DEF TelDrain
      <4>2. [fact |-> telDrain.fact, awaited |-> TRUE] \in [fact : Fact, awaited : BOOLEAN]
        BY <4>1
      <4>3. Stamped([fact |-> telDrain.fact, awaited |-> TRUE].fact)
        BY <1>0
      <4>4. telCalls \subseteq [fact : Fact, awaited : BOOLEAN] /\ \A c \in telCalls : Stamped(c.fact)
        BY DEF TelInv, TelTypeOK, FactsAreStamped
      <4>5. telCalls' = telCalls \cup {[fact |-> telDrain.fact, awaited |-> TRUE]}
        BY <3>1 DEF Push
      <4> HIDE DEF Stamped
      <4>. QED
        BY <4>2, <4>3, <4>4, <4>5
    <3>2. CASE telCalls' = telCalls
      BY <3>2 DEF TelInv, TelTypeOK, FactsAreStamped
    <3>. QED
      BY <1>6, <3>1, <3>2 DEF BackoffEnds, Schedule, DrainStarts, DrainEnds, ListDirty, BuildFacts, Settle,
         telServerVars
  <2>5. /\ telCard' = telCard /\ telOwed' = telOwed /\ telTeam' = telTeam /\ telTaken' = telTaken
        /\ telFaults' = telFaults /\ telTask' \in {"none", "soon", "draining"} /\ telNewer' \in BOOLEAN
    BY <1>6 DEF BackoffEnds, Schedule, DrainStarts, DrainEnds, ListDirty, BuildFacts, Settle, Push, TelInv,
       TelTypeOK, telServerVars, telCardVars, telTaskVars
  <2>. QED
    BY <2>1, <2>3, <2>4, <2>5 DEF TelInv, TelTypeOK, MarksAreCounted, FactsAreStamped, Stamped, TelRow, TelDrain
<1>9. Forsaken \subseteq [fact : Fact, awaited : BOOLEAN] /\ \A c \in Forsaken : Stamped(c.fact)
  BY ForsakenFacts DEF TelInv, TelTypeOK, FactsAreStamped
<1>10. ASSUME NEW lost \in BOOLEAN, PushTimesOut(lost) PROVE TelInv'
  BY <1>10, <1>9, <1>0 DEF PushTimesOut, TelFault, TelInv, TelTypeOK, MarksAreCounted, FactsAreStamped, Stamped,
     telTaskVars, telCardVars
<1>11. ASSUME NEW c \in telCalls, ServerTakes(c) PROVE TelInv'
  <2>1. c.fact \in Fact /\ Stamped(c.fact) /\ telTeam \in Fact /\ Stamped(telTeam)
    BY DEF TelInv, TelTypeOK, FactsAreStamped
  <2>2. Upserted(telTeam, c.fact) \in Fact /\ Stamped(Upserted(telTeam, c.fact))
    BY <2>1, UpsertedFact
  <2>3. telTaken' \in 0..MaxChanges
    BY <1>11, <2>1 DEF ServerTakes, TelInv, TelTypeOK, Fact, Versions
  <2>4. telDrain' \in [at : {"none", "list", "build", "push", "wait", "taken", "failed", "end"},
                       rev : 0..MaxChanges + 1, fact : Fact]
        /\ telDrain'.fact = telDrain.fact
    BY <1>11 DEF ServerTakes, Answered, TelInv, TelTypeOK
  <2>. QED
    BY <1>11, <1>0, <2>2, <2>3, <2>4 DEF ServerTakes, TelInv, TelTypeOK, MarksAreCounted, FactsAreStamped, Stamped,
       telTaskVars, telCardVars
<1>12. ASSUME NEW c \in telCalls, ServerSkips(c) PROVE TelInv'
  BY <1>12, <1>0 DEF ServerSkips, Answered, TelFault, TelInv, TelTypeOK, MarksAreCounted, FactsAreStamped, Stamped,
     telTaskVars, telCardVars
<1>13. CASE TelRestart
  <2>1. telDrain' \in TelDrain /\ Stamped(telDrain'.fact)
    BY <1>13, TelemetryAssumption DEF TelRestart, NoDrain, NoFact, TelDrain, Fact, Versions, Stamped
  <2>2. telFaults' \in 0..MaxTelFaults /\ (~telOwed => telRow.rev <= telCard.ver + 1)
        /\ (telOwed => telRow.rev <= telCard.ver + 1)
    BY <1>13, <1>0 DEF TelRestart, TelFault, TelInv, TelTypeOK, MarksAreCounted, Versions
  <2>. QED
    BY <1>13, <1>9, <1>0, <2>1, <2>2 DEF TelRestart, TelInv, TelTypeOK, MarksAreCounted, FactsAreStamped, TelDrain
<1>14. CASE UNCHANGED telVars
  BY <1>14 DEF telVars, telTaskVars, telServerVars, telCardVars, TelInv, TelTypeOK, MarksAreCounted,
     FactsAreStamped, Stamped
<1>. QED
  BY <1>1, <1>2, <1>3, <1>4, <1>5, <1>6, <1>10, <1>11, <1>12, <1>13, <1>14
     DEF TelNext, DrainStep

\* The card, its row, the drain and what the team server holds keep their types,
\* however often the card changes.
THEOREM TelTypeCorrect == TelSpec => []TelTypeOK
<1>1. TelInv => TelTypeOK BY DEF TelInv
<1>. QED BY <1>1, TelInitInv, TelStep, PTL DEF TelSpec

\* A delayed call does not put a card back where it was (upsert_facts,
\* merge_task_activity_location).
THEOREM PlacementIsKeptTheorem == TelSpec => PlacementIsKept
<1> DEFINE Placement == telTeam.stamp > 0 /\ telTeam'.stamp > 0 => telTeam'.place >= telTeam.place
<1>1. TelInv /\ [TelNext]_telVars => [Placement]_telVars
  <2> SUFFICES ASSUME TelInv, [TelNext]_telVars PROVE Placement
    OBVIOUS
  <2>1. ASSUME NEW c \in telCalls, ServerTakes(c) PROVE Placement
    <3>1. c.fact \in Fact /\ Stamped(c.fact) /\ telTeam \in Fact /\ Stamped(telTeam)
          /\ (telTaken < 0 => telTeam.stamp = 0)
      BY DEF TelInv, TelTypeOK, FactsAreStamped
    <3>. QED
      BY <2>1, <3>1, UpsertedFact DEF ServerTakes
  <2>2. CASE telTeam' = telTeam
    BY <2>2, TelemetryAssumption DEF TelInv, TelTypeOK, Fact, Versions
  <2>. QED
    BY <2>1, <2>2 DEF TelNext, DrainStep, CardMoves, CardChanges, CardTouched, CardTrashed, CardRestored,
       BackoffEnds, Schedule, DrainStarts, DrainEnds, ListDirty, BuildFacts, Push, Settle, PushTimesOut,
       ServerSkips, TelRestart, telServerVars, telVars
<1>. QED BY <1>1, TelInitInv, TelStep, PTL DEF TelSpec, PlacementIsKept

-----------------------------------------------------------------------------
(*****************************************************************************)
(* Agent signals: no reason that was posted to an account is lost, and no    *)
(* long poll sleeps on one, for any number of reasons, polls and signals.    *)
(*****************************************************************************)

\* A hub's loop is bound before it serves and stays bound, so that no thread
\* of a hub keeps its reason aside.
HubInv == sigHub => sigLoop /\ sigBare = {}

SigInv == SigTypeOK /\ ReasonIsKept /\ HubInv /\ NobodySleepsOnReasons

-----------------------------------------------------------------------------
\* The signals and the polls start with their types.
LEMMA SigTypeInit == SigInit => SigTypeOK
<1> SUFFICES ASSUME SigInit
             PROVE  SigTypeOK
  OBVIOUS
<1>1. sigHub \in BOOLEAN /\ sigLoop \in BOOLEAN
  BY Zenon DEF SigInit
<1>2. sigCount \in 0..MaxSignals
  BY SignalAssumption DEF SigInit, SignalAssumption
<1>3. sigWaiter \in [Waiters -> {"away", "waiting", "woken"}]
  BY DEF SigInit
<1> QED
  BY <1>1, <1>2, <1>3 DEF SigInit, SigTypeOK

\* Every step of the signals and the polls keeps the types (signal, wait).
LEMMA SigTypeStep == SigTypeOK /\ [SigNext]_sigVars => SigTypeOK'
<1> SUFFICES ASSUME SigTypeOK, [SigNext]_sigVars
             PROVE  SigTypeOK'
  OBVIOUS
<1> USE DEF SigTypeOK
<1>1. ASSUME NEW r \in Reasons, SignalOnLoop(r)
      PROVE  SigTypeOK'
  BY <1>1, SignalAssumption DEF SignalAssumption, SignalOnLoop, Count, EventSet
<1>2. ASSUME NEW r \in Reasons, SignalFromThread(r)
      PROVE  SigTypeOK'
  BY <1>2, SignalAssumption DEF SignalAssumption, SignalFromThread, Count
<1>3. ASSUME NEW r \in Reasons, PostedRuns(r)
      PROVE  SigTypeOK'
  BY <1>3 DEF PostedRuns, EventSet
<1>4. ASSUME NEW r \in Reasons, ReasonKept(r)
      PROVE  SigTypeOK'
  BY <1>4 DEF ReasonKept
<1>5. ASSUME NEW w \in Waiters, WaitFindsReasons(w)
      PROVE  SigTypeOK'
  <2>1. sigWaiter' \in [Waiters -> {"away", "waiting", "woken"}]
    BY <1>5 DEF WaitFindsReasons
  <2>2. sigReasons' \subseteq Reasons /\ sigMissing' \subseteq Reasons /\ sigSet' \in BOOLEAN
    BY <1>5 DEF WaitFindsReasons, TakeReasons
  <2> QED
    BY <1>5, <2>1, <2>2 DEF WaitFindsReasons
<1>6. ASSUME NEW w \in Waiters, WaitBegins(w)
      PROVE  SigTypeOK'
  BY <1>6 DEF WaitBegins
<1>7. ASSUME NEW w \in Waiters, WaitResumes(w)
      PROVE  SigTypeOK'
  BY <1>7 DEF WaitResumes, TakeReasons
<1>8. ASSUME NEW w \in Waiters, WaitTimesOut(w)
      PROVE  SigTypeOK'
  BY <1>8 DEF WaitTimesOut
<1>9. CASE UNCHANGED sigVars
  BY <1>9 DEF sigVars
<1> QED
  BY <1>1, <1>2, <1>3, <1>4, <1>5, <1>6, <1>7, <1>8, <1>9 DEF SigNext, PollStep

\* The types of the signals and the polls, in every reachable state.
THEOREM SigTypeCorrect == SigSpec => []SigTypeOK
BY SigTypeInit, SigTypeStep, PTL DEF SigSpec

-----------------------------------------------------------------------------
\* A poll that comes back takes only what it brings back.
LEMMA TakingKeeps ==
  ASSUME ReasonIsKept, TakeReasons, UNCHANGED <<sigPosted, sigBare>>
  PROVE  ReasonIsKept' /\ sigReasons' = {}
BY DEF ReasonIsKept, TakeReasons

\* Setting the event leaves nobody asleep.
LEMMA EventWakes ==
  ASSUME EventSet
  PROVE  \A w \in Waiters : sigWaiter'[w] # "waiting"
BY DEF EventSet

\* Nothing has been posted and no poll is open at the start.
LEMMA SigInvInit == SigInit => SigInv
BY SigTypeInit DEF SigInit, SigInv, HubInv, ReasonIsKept, NobodySleepsOnReasons

\* The inductive invariant is kept by every step (signal, wait).
LEMMA SigInvStep == SigInv /\ [SigNext]_sigVars => SigInv'
<1> SUFFICES ASSUME SigInv, [SigNext]_sigVars
             PROVE  ReasonIsKept' /\ HubInv' /\ NobodySleepsOnReasons'
  BY SigTypeStep DEF SigInv
<1> USE DEF SigInv, HubInv
<1>1. ASSUME NEW r \in Reasons, SignalOnLoop(r)
      PROVE  ReasonIsKept' /\ HubInv' /\ NobodySleepsOnReasons'
  <2>1. \A w \in Waiters : sigWaiter'[w] # "waiting"
    BY <1>1, EventWakes DEF SignalOnLoop
  <2> QED
    BY <1>1, <2>1 DEF SignalOnLoop, Count, ReasonIsKept, NobodySleepsOnReasons
<1>2. ASSUME NEW r \in Reasons, SignalFromThread(r)
      PROVE  ReasonIsKept' /\ HubInv' /\ NobodySleepsOnReasons'
  BY <1>2 DEF SignalFromThread, Count, ReasonIsKept, NobodySleepsOnReasons
<1>3. ASSUME NEW r \in Reasons, PostedRuns(r)
      PROVE  ReasonIsKept' /\ HubInv' /\ NobodySleepsOnReasons'
  <2>1. \A w \in Waiters : sigWaiter'[w] # "waiting"
    BY <1>3, EventWakes DEF PostedRuns
  <2> QED
    BY <1>3, <2>1 DEF PostedRuns, ReasonIsKept, NobodySleepsOnReasons
<1>4. ASSUME NEW r \in Reasons, ReasonKept(r)
      PROVE  ReasonIsKept' /\ HubInv' /\ NobodySleepsOnReasons'
  BY <1>4 DEF ReasonKept, ReasonIsKept, NobodySleepsOnReasons
<1>5. ASSUME NEW w \in Waiters, WaitFindsReasons(w)
      PROVE  ReasonIsKept' /\ HubInv' /\ NobodySleepsOnReasons'
  <2>1. \A v \in Waiters : sigWaiter'[v] # "waiting"
    BY <1>5 DEF WaitFindsReasons
  <2>2. UNCHANGED <<sigHub, sigPosted, sigBare>> /\ sigLoop'
    BY <1>5 DEF WaitFindsReasons
  <2>3. ReasonIsKept'
    <3>1. CASE TakeReasons
      BY <2>2, <3>1, TakingKeeps
    <3>2. CASE UNCHANGED <<sigReasons, sigMissing>>
      BY <2>2, <3>2 DEF ReasonIsKept
    <3> QED
      BY <1>5, <3>1, <3>2 DEF WaitFindsReasons
  <2> QED
    BY <2>1, <2>2, <2>3 DEF NobodySleepsOnReasons
<1>6. ASSUME NEW w \in Waiters, WaitBegins(w)
      PROVE  ReasonIsKept' /\ HubInv' /\ NobodySleepsOnReasons'
  BY <1>6 DEF WaitBegins, ReasonIsKept, NobodySleepsOnReasons
<1>7. ASSUME NEW w \in Waiters, WaitResumes(w)
      PROVE  ReasonIsKept' /\ HubInv' /\ NobodySleepsOnReasons'
  <2>1. ReasonIsKept' /\ sigReasons' = {}
    BY <1>7, TakingKeeps DEF WaitResumes
  <2> QED
    BY <1>7, <2>1 DEF WaitResumes, NobodySleepsOnReasons
<1>8. ASSUME NEW w \in Waiters, WaitTimesOut(w)
      PROVE  ReasonIsKept' /\ HubInv' /\ NobodySleepsOnReasons'
  BY <1>8 DEF WaitTimesOut, ReasonIsKept, NobodySleepsOnReasons, SigTypeOK
<1>9. CASE UNCHANGED sigVars
  BY <1>9 DEF sigVars, ReasonIsKept, NobodySleepsOnReasons
<1> QED
  BY <1>1, <1>2, <1>3, <1>4, <1>5, <1>6, <1>7, <1>8, <1>9 DEF SigNext, PollStep

\* A reason that was posted is on its way, waits, or was brought back by a
\* poll, and on a hub no open poll sleeps while one waits (signal, wait).
THEOREM NoReasonIsLostTheorem == SigSpec => []NoReasonIsLost
<1>1. SigInv => NoReasonIsLost
  BY DEF SigInv, NoReasonIsLost
<1> QED
  BY <1>1, SigInvInit, SigInvStep, PTL DEF SigSpec

-----------------------------------------------------------------------------
(*****************************************************************************)
(* The MCP broker: nobody sleeps through what it waits for, for any number   *)
(* of clients, tabs, polls and requests.                                     *)
(*****************************************************************************)

\* A set of requests that is not empty has a first one.
LEMMA FirstOne == ASSUME NEW S \in SUBSET Nat, S # {} PROVE Min(S) \in S
<1> DEFINE R == OpToRel(<, Nat)
<1>1. PICK x \in S : \A y \in S : ~ (<<y, x>> \in R)
  <2>1. IsWellFoundedOn(R, Nat)
    BY NatLessThanWellFounded
  <2>. HIDE DEF R
  <2>. QED
    BY <2>1, WFMin
<1>2. ASSUME NEW y \in S PROVE x <= y
  <2>1. CASE y < x
    <3>1. <<y, x>> \in Nat \X Nat /\ <<y, x>>[1] < <<y, x>>[2]
      BY <2>1
    <3>2. <<y, x>> \in R
      BY <3>1 DEF OpToRel
    <3>. QED
      BY <1>1, <3>2
  <2>. QED
    BY <2>1
<1>. QED
  BY <1>2 DEF Min

\* The mailbox starts with its types.
LEMMA McpTypeInit == McpInit => McpTypeOK
BY DEF McpInit, McpTypeOK, NoClient, NoPoll, NoAsk

\* The first request of the queue is one of the queue.
LEMMA FirstQueued ==
  ASSUME McpTypeOK, Dispatchable
  PROVE  Min(Queued) \in Queued /\ Min(Queued) \in Ids
<1>1. Ids \subseteq Nat
  BY McpAssumption DEF McpAssumption, Ids
<1>2. Queued \subseteq Ids
  BY DEF McpTypeOK, Queued
<1>3. Queued # {}
  BY DEF Dispatchable
<1>. QED
  BY <1>1, <1>2, <1>3, FirstOne

\* Who was woken is not asleep.
LEMMA Awakened ==
  ASSUME McpTypeOK, Wake
  PROVE  /\ mcpPoll' \in [Polls -> [at : {"off", "asleep", "awake"}, tab : Tabs \cup {NoTab},
                                    missed : BOOLEAN]]
         /\ mcpAsk' \in [at : {"off", "asleep", "awake"}, id : Ids \cup {0}]
         /\ \A p \in Polls : mcpPoll'[p].at # "asleep"
         /\ mcpAsk'.at # "asleep"
BY DEF McpTypeOK, Wake, Woken

\* The invariant: who waits for a result waits for a request.
McpInv == McpTypeOK /\ NobodySleepsOnWork /\ (mcpAsk.at = "asleep" => mcpAsk.id \in Ids)

\* A step that wakes everybody.
LEMMA WakeStep ==
  ASSUME McpTypeOK, Wake,
         mcpClient' \in [secret : Secrets \cup {"none"}, tab : Tabs \cup {NoTab}, live : BOOLEAN],
         mcpState' \in [Ids -> {"new", "queued", "running", "done", "gone"}],
         mcpFresh' \subseteq Ids
  PROVE  McpInv'
BY Awakened DEF McpInv, McpTypeOK, NobodySleepsOnWork

\* A poll that looks takes a request, so that none can be handed out, or it
\* sleeps because none can (next).
LEMMA LookStep ==
  ASSUME McpInv, NEW p \in Polls, NEW t \in Tabs \cup {NoTab}, Look(p, t),
         UNCHANGED <<mcpClient, mcpFresh, mcpAsk>>
  PROVE  McpInv'
<1>1. CASE Dispatchable
  <2>1. PICK i \in Ids : i \in Queued /\ mcpState' = [mcpState EXCEPT ![i] = "running"]
                          /\ mcpPoll' = [mcpPoll EXCEPT ![p] = NoPoll]
    BY <1>1, FirstQueued DEF Look, McpInv
  <2>2. McpTypeOK'
    BY <2>1 DEF McpInv, McpTypeOK, NoPoll
  <2>3. ~Dispatchable'
    <3>1. i \in mcpFresh /\ mcpState'[i] = "running"
      BY <2>1 DEF McpInv, McpTypeOK, Queued
    <3>. QED
      BY <3>1 DEF Dispatchable, Running
  <2>4. mcpAsk'.at = "asleep" => mcpState'[mcpAsk'.id] # "done" /\ mcpAsk'.id \in Ids
    BY <2>1 DEF McpInv, McpTypeOK, NobodySleepsOnWork
  <2>. QED
    BY <2>2, <2>3, <2>4 DEF McpInv, NobodySleepsOnWork
<1>2. CASE ~Dispatchable
  <2>1. /\ mcpPoll' = [mcpPoll EXCEPT ![p] = [at |-> "asleep", tab |-> t, missed |-> FALSE]]
        /\ UNCHANGED mcpState
    BY <1>2 DEF Look
  <2>2. McpTypeOK'
    BY <2>1 DEF McpInv, McpTypeOK
  <2>3. ~Dispatchable'
    BY <1>2, <2>1 DEF Dispatchable, Running, Queued
  <2>. QED
    BY <2>1, <2>2, <2>3 DEF McpInv, NobodySleepsOnWork
<1>. QED
  BY <1>1, <1>2

\* A poll that ends, for whatever reason.
LEMMA PollEnds ==
  ASSUME McpInv, NEW p \in Polls, mcpPoll' = [mcpPoll EXCEPT ![p] = NoPoll],
         UNCHANGED <<mcpClient, mcpState, mcpFresh, mcpAsk>>
  PROVE  McpInv'
<1>1. McpTypeOK'
  BY DEF McpInv, McpTypeOK, NoPoll
<1>2. \A q \in Polls : mcpPoll'[q].at = "asleep" => mcpPoll'[q] = mcpPoll[q]
  BY DEF McpInv, McpTypeOK, NoPoll
<1>3. (Dispatchable' <=> Dispatchable) /\ \A t : MayAct(t)' <=> MayAct(t)
  BY DEF Dispatchable, Running, Queued, MayAct
<1>4. NobodySleepsOnWork'
  BY <1>2, <1>3 DEF McpInv, NobodySleepsOnWork
<1>. QED
  BY <1>1, <1>4 DEF McpInv

\* The client sleeps only while its request is open (result).
LEMMA AskStep ==
  ASSUME McpInv, NEW i \in Ids \cup {0}, AskLooks(i) \/ mcpAsk' = NoAsk,
         UNCHANGED <<mcpClient, mcpState, mcpFresh, mcpPoll>>
  PROVE  McpInv'
<1>1. mcpAsk' \in [at : {"off", "asleep", "awake"}, id : Ids \cup {0}]
  BY DEF AskLooks, NoAsk
<1>2. mcpAsk'.at = "asleep" => mcpState[mcpAsk'.id] # "done" /\ mcpAsk'.id \in Ids
  BY DEF AskLooks, NoAsk, Kept
<1>3. (Dispatchable' <=> Dispatchable) /\ \A t : MayAct(t)' <=> MayAct(t)
  BY DEF Dispatchable, Running, Queued, MayAct
<1>4. NobodySleepsOnWork'
  BY <1>2, <1>3 DEF McpInv, NobodySleepsOnWork
<1>. QED
  BY <1>1, <1>2, <1>4 DEF McpInv, McpTypeOK

\* A request that ages unanswered is missed by the polls that sleep behind it.
LEMMA AgeStep == ASSUME McpInv, NEW i \in Ids, RequestAges(i) PROVE McpInv'
<1>1. McpTypeOK'
  <2>1. mcpPoll' \in [Polls -> [at : {"off", "asleep", "awake"}, tab : Tabs \cup {NoTab},
                                missed : BOOLEAN]]
    BY DEF McpInv, McpTypeOK, RequestAges
  <2>. QED
    BY <2>1 DEF McpInv, McpTypeOK, RequestAges
<1>2. ASSUME NEW p \in Polls, mcpPoll'[p].at = "asleep", MayAct(mcpPoll[p].tab)',
             ~mcpPoll'[p].missed
      PROVE  ~Dispatchable'
  <2>1. mcpState[i] # "running" /\ mcpPoll'[p] = mcpPoll[p]
    <3>1. CASE mcpState[i] = "running" /\ mcpPoll[p].at = "asleep"
      BY <1>2, <3>1 DEF McpInv, McpTypeOK, RequestAges
    <3>2. CASE ~(mcpState[i] = "running" /\ mcpPoll[p].at = "asleep")
      BY <1>2, <3>2 DEF McpInv, McpTypeOK, RequestAges
    <3>. QED
      BY <3>1, <3>2
  <2>2. ~Dispatchable
    BY <1>2, <2>1 DEF McpInv, NobodySleepsOnWork, RequestAges, MayAct
  <2>3. mcpFresh' = mcpFresh \ {i} /\ mcpState' = mcpState
    BY DEF RequestAges
  <2>. QED
    BY <2>1, <2>2, <2>3 DEF Dispatchable, Running, Queued
<1>3. mcpAsk' = mcpAsk /\ mcpState' = mcpState
  BY DEF RequestAges
<1>. QED
  BY <1>1, <1>2, <1>3 DEF McpInv, NobodySleepsOnWork

\* The mailbox starts empty.
LEMMA McpInvInit == McpInit => McpInv
BY McpTypeInit DEF McpInit, McpInv, NobodySleepsOnWork, NoPoll, NoAsk

\* Every step keeps the invariant (connect, pair, close, enqueue, next,
\* reply, result).
LEMMA McpInvStep == McpInv /\ [McpNext]_mcpVars => McpInv'
<1> SUFFICES ASSUME McpInv, [McpNext]_mcpVars PROVE McpInv'
  OBVIOUS
<1>0. McpTypeOK
  BY DEF McpInv
<1>1. ASSUME NEW s \in Secrets, Connect(s) PROVE McpInv'
  BY <1>0, <1>1, WakeStep DEF Connect, Forget, Kept, McpTypeOK
<1>2. ASSUME NEW s \in Secrets, Enqueue(s) PROVE McpInv'
  <2>1. mcpState' \in [Ids -> {"new", "queued", "running", "done", "gone"}]
    BY <1>0, <1>2 DEF Enqueue, McpTypeOK
  <2>. QED
    BY <1>0, <1>2, <2>1, WakeStep DEF Enqueue, McpTypeOK
<1>3. ASSUME NEW s \in Secrets, NEW i \in Ids, AskBegins(s, i) PROVE McpInv'
  BY <1>3, AskStep DEF AskBegins
<1>4. ASSUME NEW t \in Tabs, Pair(t) PROVE McpInv'
  BY <1>0, <1>4, WakeStep DEF Pair, McpTypeOK
<1>5. ASSUME NEW t \in Tabs, Close(t) PROVE McpInv'
  BY <1>0, <1>5, WakeStep DEF Close, Forget, Kept, NoClient, McpTypeOK
<1>6. ASSUME NEW t \in Tabs, NEW i \in Ids, Reply(t, i) PROVE McpInv'
  BY <1>0, <1>6, WakeStep DEF Reply, Replied, McpTypeOK
<1>7. ASSUME NEW p \in Polls, PollLooksAgain(p) PROVE McpInv'
  <2>1. mcpPoll[p].tab \in Tabs \cup {NoTab}
    BY <1>0 DEF McpTypeOK
  <2>2. PICK t \in Tabs \cup {NoTab} : t = mcpPoll[p].tab
    BY <2>1
  <2>. QED
    BY <1>7, <2>2, LookStep, PollEnds DEF PollLooksAgain
<1>8. ASSUME NEW p \in Polls, PollTimesOut(p) PROVE McpInv'
  BY <1>8, PollEnds DEF PollTimesOut
<1>9. ASSUME NEW p \in Polls, NEW t \in Tabs, PollBegins(p, t) PROVE McpInv'
  BY <1>9, LookStep DEF PollBegins
<1>10. ASSUME NEW i \in Ids, RequestAges(i) PROVE McpInv'
  BY <1>10, AgeStep
<1>11. ASSUME AskLooksAgain \/ AskTimesOut PROVE McpInv'
  <2>1. PICK i \in Ids \cup {0} : i = mcpAsk.id
    BY <1>0 DEF McpTypeOK
  <2>. QED
    BY <1>11, <2>1, AskStep DEF AskLooksAgain, AskTimesOut
<1>12. ASSUME ClientUnseen PROVE McpInv'
  <2>1. McpTypeOK' /\ \A t : ~MayAct(t)'
    BY <1>0, <1>12 DEF ClientUnseen, McpTypeOK, MayAct
  <2>. QED
    BY <1>12, <2>1 DEF ClientUnseen, McpInv, NobodySleepsOnWork
<1>13. CASE UNCHANGED mcpVars
  BY <1>13 DEF mcpVars, McpInv, McpTypeOK, NobodySleepsOnWork, Dispatchable, Running, Queued, MayAct
<1>. QED
  BY <1>1, <1>2, <1>3, <1>4, <1>5, <1>6, <1>7, <1>8, <1>9, <1>10, <1>11, <1>12, <1>13 DEF McpNext

\* The mailbox keeps its types, and nobody sleeps through what it waits for.
THEOREM BrokerInvariant == McpSpec => []McpInv
BY McpInvInit, McpInvStep, PTL DEF McpSpec

\* The types of the client, the requests, the polls and the wait.
THEOREM McpTypeCorrect == McpSpec => []McpTypeOK
<1>1. McpInv => McpTypeOK
  BY DEF McpInv
<1>. QED
  BY <1>1, BrokerInvariant, PTL

\* No poll sleeps while a request could be handed out, and no client while
\* its answer is there (_wake, next, result).
THEOREM NobodySleepsTheorem == McpSpec => []NobodySleepsOnWork
<1>1. McpInv => NobodySleepsOnWork
  BY DEF McpInv
<1>. QED
  BY <1>1, BrokerInvariant, PTL

-----------------------------------------------------------------------------
(*****************************************************************************)
(* The services together.  They share no state, so that a step of one leaves *)
(* what is said of the others as it is.                                      *)
(*****************************************************************************)

ServicesInv == GateInv /\ TelInv /\ SigInv /\ McpInv /\ TtInv /\ CardInv

\* A step of the services is a step of one of them.
LEMMA ServicesSteps ==
  ASSUME [ServicesNext]_servicesVars
  PROVE  /\ [Next]_vars /\ [TelNext]_telVars /\ [SigNext]_sigVars
         /\ [McpNext]_mcpVars /\ [TtNext]_ttVars /\ [CtNext]_ctVars
BY DEF ServicesNext, servicesVars, Gate, Telemetry, Signals, Broker, Transfers, Cards

\* What is said of each service holds while a behaviour follows one of them.
THEOREM ServicesInvariant == ASSUME CallsArePrompt PROVE ServicesSpec => []ServicesInv
<1>1. ServicesInit => ServicesInv
  BY GateInvInit, TelInitInv, SigInvInit, McpInvInit, TransferInvInit, CardInvInit
     DEF ServicesInit, ServicesInv
<1>2. ServicesInv /\ [ServicesNext]_servicesVars => ServicesInv'
  BY ServicesSteps, GateInvStep, TelStep, SigInvStep, McpInvStep, TransferInvStep, CardStep
     DEF ServicesInv
<1>. QED BY <1>1, <1>2, PTL DEF ServicesSpec

\* The state of every service keeps its type (ServicesTypeOK), when calls are
\* prompt.
THEOREM ServicesTypeCorrect == ASSUME CallsArePrompt PROVE ServicesSpec => []ServicesTypeOK
<1>1. ServicesInv => ServicesTypeOK
  BY DEF ServicesInv, GateInv, TelInv, SigInv, McpInv, TtInv, CardInv, ServicesTypeOK
<1>. QED BY <1>1, ServicesInvariant, PTL

=============================================================================
