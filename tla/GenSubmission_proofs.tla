------------------------ MODULE GenSubmission_proofs ------------------------
(***************************************************************************)
(* Proofs about GenSubmission for every number of requests, agents, slots, *)
(* jobs and tries.                                                         *)
(***************************************************************************)
EXTENDS GenSubmission, TLAPS

(* The transactions of the ledger keep the types of its columns.           *)
LEMMA RowsTypes ==
  ASSUME RowsTypeOK
  PROVE  /\ Sweep => RowsTypeOK'
         /\ UNCHANGED rows => RowsTypeOK'
         /\ \A r \in Requests :
              /\ LeaseExpires(r) \/ ProbeAges(r) => RowsTypeOK'
              /\ QuarantineRow(r) \/ ConfirmRow(r) \/ FailRow(r) => RowsTypeOK'
         /\ \A r \in Requests, a \in Agents :
              ClaimRow(r, a) \/ BeginRow(r, a) \/ ReleaseRow(r, a) => RowsTypeOK'
         /\ \A r \in Requests, j \in Jobs :
              AnchorRow(r, j) \/ CheckRow(r, j) \/ Anchor(r, j) => RowsTypeOK'
         /\ \A r \in Requests, v \in Terminal : SettleRow(r, v) => RowsTypeOK'
         /\ \A k \in LookType : RecordProbe(k.req, k.outcome, k.job) => RowsTypeOK'
<1> USE DEF RowsTypeOK, Statuses, Probes, rows
<1>1. Sweep => RowsTypeOK'
  BY DEF Sweep
<1>2. UNCHANGED rows => RowsTypeOK'
  OBVIOUS
<1>3. ASSUME NEW r \in Requests
      PROVE  /\ LeaseExpires(r) \/ ProbeAges(r) => RowsTypeOK'
             /\ QuarantineRow(r) \/ ConfirmRow(r) \/ FailRow(r) => RowsTypeOK'
  <2>1. LeaseExpires(r) \/ ProbeAges(r) => RowsTypeOK'
    BY DEF LeaseExpires, ProbeAges
  <2>2. QuarantineRow(r) => RowsTypeOK'
    BY DEF QuarantineRow
  <2>3. ConfirmRow(r) \/ FailRow(r) => RowsTypeOK'
    BY DEF ConfirmRow, FailRow
  <2> QED
    BY <2>1, <2>2, <2>3
<1>4. ASSUME NEW r \in Requests, NEW a \in Agents
      PROVE  ClaimRow(r, a) \/ BeginRow(r, a) \/ ReleaseRow(r, a) => RowsTypeOK'
  <2>1. ClaimRow(r, a) => RowsTypeOK'
    BY DEF ClaimRow
  <2>2. BeginRow(r, a) => RowsTypeOK'
    BY DEF BeginRow
  <2>3. ReleaseRow(r, a) => RowsTypeOK'
    BY DEF ReleaseRow
  <2> QED
    BY <2>1, <2>2, <2>3
<1>5. ASSUME NEW r \in Requests, NEW j \in Jobs
      PROVE  AnchorRow(r, j) \/ CheckRow(r, j) \/ Anchor(r, j) => RowsTypeOK'
  BY DEF AnchorRow, CheckRow, Anchor
<1>6. ASSUME NEW r \in Requests, NEW v \in Terminal
      PROVE  SettleRow(r, v) => RowsTypeOK'
  BY DEF SettleRow, Terminal
<1>7. ASSUME NEW k \in LookType, RecordProbe(k.req, k.outcome, k.job)
      PROVE  RowsTypeOK'
  <2>1. k.outcome \in Probes /\ k.job \in Jobs \cup {NoJob}
    BY DEF LookType
  <2>2. probe' \in [Requests -> Probes]
    BY <1>7, <2>1 DEF RecordProbe
  <2>3. candidate' \in [Requests -> Jobs \cup {NoJob}]
    BY <1>7, <2>1 DEF RecordProbe
  <2> QED
    BY <1>7, <2>2, <2>3 DEF RecordProbe
<1> QED
  BY <1>1, <1>2, <1>3, <1>4, <1>5, <1>6, <1>7

(* A worker that returns, starts a stage or retries keeps the slots typed. *)
LEMMA IdleTypes ==
  ASSUME SlotsTypeOK, NEW s \in Slots, Idle(s)
  PROVE  SlotsTypeOK'
<1>1. lock' \in [Agents -> Slots \cup {NoSlot}]
  BY ConstantsAssumption DEF SlotsTypeOK, Idle, Unlock
<1>2. /\ pc' \in [Slots -> PCs]
      /\ req' \in [Slots -> Requests \cup {NoRequest}]
      /\ made' \in [Slots -> Jobs \cup {NoJob}]
  BY DEF SlotsTypeOK, Idle, PCs
<1>3. tries' \in [Slots -> 1..MaxTries]
  BY ConstantsAssumption DEF SlotsTypeOK, Idle
<1>4. \A t \in Slots : pc'[t] # "idle" => req'[t] \in Requests
  BY DEF SlotsTypeOK, Idle
<1> QED
  BY <1>1, <1>2, <1>3, <1>4 DEF SlotsTypeOK

LEMMA CallTypes ==
  ASSUME SlotsTypeOK, calls \subseteq CallType, NEW s \in Slots, pc[s] # "idle"
  PROVE  \A op \in Ops, n \in 1..MaxTries :
           /\ Call(op, s, n) \in CallType
           /\ calls' = calls \cup {Call(op, s, n)} => calls' \subseteq CallType
BY ConstantsAssumption DEF SlotsTypeOK, CallType, Call

LEMMA EnterTypes ==
  ASSUME SlotsTypeOK, calls \subseteq CallType,
         NEW s \in Slots, pc[s] # "idle",
         NEW stage \in PCs, NEW op \in Ops, Enter(s, stage, op)
  PROVE  /\ calls' \subseteq CallType
         /\ pc' \in [Slots -> PCs]
         /\ tries' \in [Slots -> 1..MaxTries]
         /\ req' = req
         /\ \A t \in Slots : pc'[t] # "idle" => pc[t] # "idle"
<1>1. calls' \subseteq CallType
  BY CallTypes, ConstantsAssumption DEF Enter
<1> QED
  BY <1>1, ConstantsAssumption DEF Enter, SlotsTypeOK

(* Every step keeps the types of all variables.                            *)
THEOREM TypeCorrect == Spec => []TypeOK
<1> USE SentinelAssumption, ConstantsAssumption
<1>1. Init => TypeOK
  BY DEF Init, TypeOK, SlotsTypeOK, AgentsTypeOK, PayTypeOK, RowsInit, RowsTypeOK,
         Statuses, Probes, NoLook, LookType, NotPaid, PCs
<1>2. TypeOK /\ [Next]_vars => TypeOK'
  <2> SUFFICES ASSUME TypeOK, [Next]_vars PROVE TypeOK'
    OBVIOUS
  <2> USE DEF TypeOK
  <2>1. CASE UNCHANGED vars
    BY <2>1, RowsTypes
    DEF vars, workerVars, agentVars, payVars, SlotsTypeOK, AgentsTypeOK, PayTypeOK
  <2>2. ASSUME NEW r \in Requests, LeaseEnds(r) \/ ProbeEnds(r) PROVE TypeOK'
    BY <2>2, RowsTypes
    DEF LeaseEnds, ProbeEnds, workerVars, agentVars, payVars, SlotsTypeOK, AgentsTypeOK, PayTypeOK
  <2>3. ASSUME NEW s \in Slots, Work(s) PROVE TypeOK'
    <3> USE DEF workerVars, agentVars, payVars, AgentsTypeOK, PayTypeOK
    <3>1. ASSUME NEW r \in Requests, Claim(s, r) PROVE TypeOK'
      BY <3>1, RowsTypes DEF Claim, SlotsTypeOK, PCs
    <3>2. CASE PrepareFails(s)
      BY <3>2, RowsTypes, IdleTypes, CallTypes DEF PrepareFails, Ops
    <3>3. CASE PrepareRaises(s)
      BY <3>3, RowsTypes, EnterTypes DEF PrepareRaises, Ops, PCs, SlotsTypeOK
    <3>4. CASE AskToBegin(s)
      BY <3>4, RowsTypes, EnterTypes DEF AskToBegin, Ops, PCs, SlotsTypeOK
    <3>5. CASE BeginTimesOut(s)
      <4>1. CASE tries[s] < MaxTries
        <5>1. tries[s] + 1 \in 1..MaxTries
          BY <4>1 DEF SlotsTypeOK
        <5>2. calls' \subseteq CallType
          BY <3>5, <4>1, <5>1, CallTypes DEF BeginTimesOut, Ops
        <5>3. tries' \in [Slots -> 1..MaxTries]
          BY <3>5, <4>1, <5>1 DEF BeginTimesOut, SlotsTypeOK
        <5>4. SlotsTypeOK'
          BY <3>5, <4>1, <5>3 DEF BeginTimesOut, SlotsTypeOK
        <5> QED
          BY <3>5, <5>2, <5>4, RowsTypes DEF BeginTimesOut
      <4>2. CASE ~(tries[s] < MaxTries)
        BY <3>5, <4>2, RowsTypes, EnterTypes DEF BeginTimesOut, Ops, PCs, SlotsTypeOK
      <4> QED
        BY <4>1, <4>2
    <3>6. CASE ReleaseTimesOut(s)
      BY <3>6, RowsTypes, IdleTypes DEF ReleaseTimesOut
    <3>7. ASSUME NEW j \in Jobs, ProviderAccepts(s, j) PROVE TypeOK'
      BY <3>7, RowsTypes DEF ProviderAccepts, SlotsTypeOK
    <3>8. CASE CreateReturns(s)
      <4>1. req[s] \in Requests /\ made[s] \in Jobs
        BY <3>8 DEF CreateReturns, SlotsTypeOK
      <4>2. owed' \in [Agents -> SUBSET (Requests \X Jobs)]
        BY <3>8, <4>1 DEF CreateReturns
      <4>3. outbox' \in [Devices -> [Requests -> Jobs \cup {NoJob}]]
        <5>1. CASE UNCHANGED outbox
          BY <5>1
        <5>2. CASE outbox' = [outbox EXCEPT ![DeviceOf[AgentOf[s]]][req[s]] = made[s]]
          BY <5>2, <4>1
        <5> QED
          BY <3>8, <5>1, <5>2 DEF CreateReturns
      <4> QED
        BY <3>8, <4>2, <4>3, RowsTypes, IdleTypes DEF CreateReturns
    <3>9. CASE CreateUnclear(s)
      BY <3>9, RowsTypes, EnterTypes DEF CreateUnclear, Ops, PCs, SlotsTypeOK, Unlock
    <3>10. CASE ReportTimesOut(s)
      <4>1. CASE tries[s] < MaxTries
        <5>1. tries[s] + 1 \in 1..MaxTries
          BY <4>1 DEF SlotsTypeOK
        <5>2. calls' \subseteq CallType
          BY <3>10, <4>1, <5>1, CallTypes DEF ReportTimesOut, Ops
        <5>3. tries' \in [Slots -> 1..MaxTries]
          BY <3>10, <4>1, <5>1 DEF ReportTimesOut, SlotsTypeOK
        <5>4. SlotsTypeOK'
          BY <3>10, <4>1, <5>3 DEF ReportTimesOut, SlotsTypeOK
        <5> QED
          BY <3>10, <5>2, <5>4, RowsTypes DEF ReportTimesOut
      <4>2. CASE ~(tries[s] < MaxTries)
        BY <3>10, <4>2, RowsTypes, IdleTypes DEF ReportTimesOut
      <4> QED
        BY <4>1, <4>2
    <3> QED
      BY <2>3, <3>1, <3>2, <3>3, <3>4, <3>5, <3>6, <3>7, <3>8, <3>9, <3>10 DEF Work
  <2>4. ASSUME NEW c \in calls, Handle(c) PROVE TypeOK'
    <3> USE DEF workerVars, agentVars, payVars, AgentsTypeOK, PayTypeOK
    <3>0. /\ c.slot \in Slots /\ c.req \in Requests /\ AgentOf[c.slot] \in Agents
          /\ c \in CallType
      BY DEF CallType
    <3>1. CASE BeginAccepted(c)
      <4>1. [c EXCEPT !.at = "reply"] \in CallType
        BY <3>0 DEF CallType
      <4> QED
        BY <3>0, <3>1, <4>1, RowsTypes DEF BeginAccepted, SlotsTypeOK
    <3>2. CASE BeginRefused(c)
      <4>1. CASE Awaited(c)
        <5>1. pc[c.slot] # "idle"
          BY <3>2, <4>1 DEF BeginRefused, Awaited
        <5>2. Call("release", c.slot, 1) \in CallType
          BY <3>0, <5>1, CallTypes DEF Ops
        <5>3. calls' \subseteq CallType
          BY <3>2, <4>1, <5>2 DEF BeginRefused
        <5>4. tries' \in [Slots -> 1..MaxTries]
          <6>1. tries' = [tries EXCEPT ![c.slot] = 1] /\ 1 \in 1..MaxTries
            BY <3>2, <4>1 DEF BeginRefused
          <6> QED
            BY <6>1 DEF SlotsTypeOK
        <5>5. pc' \in [Slots -> PCs] /\ \A t \in Slots : pc'[t] # "idle" => req'[t] \in Requests
          BY <3>0, <3>2, <4>1, <5>1 DEF BeginRefused, SlotsTypeOK, PCs
        <5> QED
          BY <3>2, <4>1, <5>3, <5>4, <5>5, RowsTypes DEF BeginRefused, SlotsTypeOK
      <4>2. CASE ~Awaited(c)
        BY <3>2, <4>2, RowsTypes DEF BeginRefused, SlotsTypeOK
      <4> QED
        BY <4>1, <4>2
    <3>3. CASE CreateCalled(c)
      BY <3>0, <3>3, RowsTypes DEF CreateCalled, Awaited, SlotsTypeOK, PCs
    <3>4. CASE ReleaseHandled(c)
      <4>1. SlotsTypeOK'
        BY <3>0, <3>4, IdleTypes DEF ReleaseHandled, SlotsTypeOK
      <4> QED
        BY <3>0, <3>4, <4>1, RowsTypes DEF ReleaseHandled
    <3>5. CASE RecoverHandled(c)
      <4>1. SlotsTypeOK'
        BY <3>0, <3>5, IdleTypes DEF RecoverHandled, SlotsTypeOK
      <4> QED
        BY <3>0, <3>5, <4>1, RowsTypes DEF RecoverHandled
    <3>6. CASE FailHandled(c)
      BY <3>0, <3>6, RowsTypes DEF FailHandled, SlotsTypeOK
    <3>7. CASE LoseCall(c)
      BY <3>7, RowsTypes DEF LoseCall, SlotsTypeOK
    <3> QED
      BY <2>4, <3>1, <3>2, <3>3, <3>4, <3>5, <3>6, <3>7 DEF Handle
  <2>5. ASSUME NEW a \in Agents, Manage(a) PROVE TypeOK'
    <3> USE DEF workerVars, agentVars, payVars, PayTypeOK
    <3>1. CASE Start(a)
      BY <3>1, RowsTypes DEF Start, AgentsTypeOK, SlotsTypeOK
    <3>2. CASE Crash(a)
      <4>1. SlotsTypeOK'
        BY <3>2 DEF Crash, SlotsTypeOK, PCs
      <4>2. AgentsTypeOK'
        BY <3>2 DEF Crash, AgentsTypeOK, NoLook, LookType, Probes
      <4> QED
        BY <3>2, <4>1, <4>2, RowsTypes DEF Crash
    <3>3. CASE SweepOnPoll(a)
      BY <3>3, RowsTypes DEF SweepOnPoll, AgentsTypeOK, SlotsTypeOK
    <3>4. CASE ReportLook(a)
      <4>1. look[a] \in LookType
        BY DEF AgentsTypeOK
      <4>2. RowsTypeOK'
        BY <3>4, <4>1, RowsTypes DEF ReportLook
      <4>3. AgentsTypeOK'
        BY <3>4 DEF ReportLook, AgentsTypeOK, NoLook, LookType, Probes
      <4> QED
        BY <3>4, <4>2, <4>3 DEF ReportLook, SlotsTypeOK
    <3>5. ASSUME NEW r \in Requests, ClaimLost(a, r) PROVE TypeOK'
      BY <3>5, RowsTypes DEF ClaimLost, AgentsTypeOK, SlotsTypeOK
    <3>6. ASSUME NEW r \in Requests, LookForJob(a, r) PROVE TypeOK'
      <4>1. PICK k \in LookType : look' = [look EXCEPT ![a] = k]
        BY <3>6 DEF LookForJob, LookType, Probes
      <4> QED
        BY <3>6, <4>1, RowsTypes DEF LookForJob, AgentsTypeOK, SlotsTypeOK
    <3>7. ASSUME NEW r \in Requests, AnchorCandidate(a, r) PROVE TypeOK'
      BY <3>7, RowsTypes DEF AnchorCandidate, AnchorRow, AgentsTypeOK, SlotsTypeOK, RowsTypeOK,
           Statuses
    <3>8. ASSUME NEW r \in Requests, NEW answered \in BOOLEAN, ReplayOutbox(a, r, answered)
          PROVE TypeOK'
      <4>1. outbox[DeviceOf[a]][r] \in Jobs
        BY <3>8 DEF ReplayOutbox, AgentsTypeOK
      <4>2. RowsTypeOK'
        BY <3>8, <4>1, RowsTypes DEF ReplayOutbox
      <4>3. outbox' \in [Devices -> [Requests -> Jobs \cup {NoJob}]]
        BY <3>8 DEF ReplayOutbox, AgentsTypeOK
      <4> QED
        BY <3>8, <4>2, <4>3 DEF ReplayOutbox, AgentsTypeOK, SlotsTypeOK
    <3>9. ASSUME NEW r \in Requests, NEW j \in Jobs, ReportProcessing(a, r, j) PROVE TypeOK'
      BY <3>9, RowsTypes DEF ReportProcessing, AgentsTypeOK, SlotsTypeOK
    <3>10. ASSUME NEW r \in Requests, NEW j \in Jobs, NEW answered \in BOOLEAN,
                  AnchorOwed(a, r, j, answered)
           PROVE TypeOK'
      <4>1. RowsTypeOK'
        BY <3>10, RowsTypes DEF AnchorOwed
      <4>2. owed' \in [Agents -> SUBSET (Requests \X Jobs)]
        <5>1. CASE UNCHANGED owed
          BY <5>1 DEF AgentsTypeOK
        <5>2. CASE owed' = [owed EXCEPT ![a] = @ \ {<<r, j>>}]
          BY <5>2 DEF AgentsTypeOK
        <5> QED
          BY <3>10, <5>1, <5>2 DEF AnchorOwed
      <4>3. outbox' \in [Devices -> [Requests -> Jobs \cup {NoJob}]]
        <5>1. CASE UNCHANGED outbox
          BY <5>1 DEF AgentsTypeOK
        <5>2. CASE outbox' = [outbox EXCEPT ![DeviceOf[a]][r] = NoJob]
          BY <5>2 DEF AgentsTypeOK
        <5> QED
          BY <3>10, <5>1, <5>2 DEF AnchorOwed
      <4> QED
        BY <3>10, <4>1, <4>2, <4>3 DEF AnchorOwed, AgentsTypeOK, SlotsTypeOK
    <3>11. ASSUME NEW r \in Requests, NEW verdict \in Terminal, Settle(a, r, verdict)
           PROVE TypeOK'
      BY <3>11, RowsTypes DEF Settle, AgentsTypeOK, SlotsTypeOK
    <3> QED
      BY <2>5, <3>1, <3>2, <3>3, <3>4, <3>5, <3>6, <3>7, <3>8, <3>9, <3>10, <3>11 DEF Manage
  <2>6. ASSUME NEW r \in Requests, Confirm(r) PROVE TypeOK'
    BY <2>6, RowsTypes DEF Confirm, workerVars, agentVars, AgentsTypeOK, SlotsTypeOK, PayTypeOK
  <2> QED
    BY <2>1, <2>2, <2>3, <2>4, <2>5, <2>6 DEF Next, Time
<1> QED
  BY <1>1, <1>2, PTL DEF Spec

-----------------------------------------------------------------------------
(* What a step may do to the ledger.                                       *)
RowsStep ==
  \/ UNCHANGED rows
  \/ Sweep
  \/ \E r \in Requests : \/ LeaseExpires(r) \/ ProbeAges(r)
                         \/ QuarantineRow(r) \/ ConfirmRow(r) \/ FailRow(r)
  \/ \E r \in Requests, a \in Agents : ClaimRow(r, a) \/ BeginRow(r, a) \/ ReleaseRow(r, a)
  \/ \E r \in Requests, j \in Jobs : AnchorRow(r, j) \/ CheckRow(r, j)
  \/ \E r \in Requests, v \in Terminal : SettleRow(r, v)
  \/ \E a \in Agents : RecordProbe(look[a].req, look[a].outcome, look[a].job)

(* Every step of the system is one transaction of the ledger, or none.     *)
LEMMA StepsAreTransactions ==
  ASSUME TypeOK, RowsAreCoherent, [Next]_vars
  PROVE  RowsStep
<1> USE SentinelAssumption, ConstantsAssumption
<1>1. CASE UNCHANGED vars
  BY <1>1 DEF vars, RowsStep
<1>2. ASSUME NEW r \in Requests, LeaseEnds(r) \/ ProbeEnds(r) PROVE RowsStep
  BY <1>2 DEF LeaseEnds, ProbeEnds, RowsStep
<1>3. ASSUME NEW s \in Slots, Work(s) PROVE RowsStep
  <2>1. AgentOf[s] \in Agents
    OBVIOUS
  <2> QED
    BY <1>3, <2>1
    DEF Work, Claim, PrepareFails, PrepareRaises, AskToBegin, BeginTimesOut, ReleaseTimesOut,
        ProviderAccepts, CreateReturns, CreateUnclear, ReportTimesOut, RowsStep
<1>4. ASSUME NEW c \in calls, Handle(c) PROVE RowsStep
  <2>1. c.req \in Requests /\ AgentOf[c.slot] \in Agents
    BY DEF TypeOK, CallType
  <2> QED
    BY <1>4, <2>1
    DEF Handle, BeginAccepted, BeginRefused, CreateCalled, ReleaseHandled, RecoverHandled,
        FailHandled, LoseCall, RowsStep
<1>5. ASSUME NEW a \in Agents, Manage(a) PROVE RowsStep
  <2>1. ASSUME NEW r \in Requests, AnchorCandidate(a, r) PROVE RowsStep
    <3>1. candidate[r] \in Jobs
      BY <2>1 DEF AnchorCandidate, RowsAreCoherent, TypeOK, RowsTypeOK
    <3> QED
      BY <2>1, <3>1 DEF AnchorCandidate, RowsStep
  <2>2. ASSUME NEW r \in Requests, NEW answered \in BOOLEAN, ReplayOutbox(a, r, answered)
        PROVE  RowsStep
    <3>1. outbox[DeviceOf[a]][r] \in Jobs
      BY <2>2 DEF ReplayOutbox, TypeOK, AgentsTypeOK
    <3> QED
      BY <2>2, <3>1 DEF ReplayOutbox, Anchor, RowsStep
  <2>3. ASSUME NEW r \in Requests, NEW j \in Jobs,
               ReportProcessing(a, r, j) \/ (\E answered \in BOOLEAN : AnchorOwed(a, r, j, answered))
        PROVE  RowsStep
    BY <2>3 DEF ReportProcessing, AnchorOwed, Anchor, RowsStep
  <2>4. ASSUME NEW r \in Requests, NEW v \in Terminal, Settle(a, r, v) PROVE RowsStep
    BY <2>4 DEF Settle, RowsStep
  <2>5. ASSUME NEW r \in Requests, ClaimLost(a, r) \/ LookForJob(a, r) PROVE RowsStep
    BY <2>5 DEF ClaimLost, LookForJob, RowsStep
  <2>6. CASE Start(a) \/ Crash(a) \/ SweepOnPoll(a) \/ ReportLook(a)
    BY <2>6 DEF Start, Crash, SweepOnPoll, ReportLook, RowsStep
  <2> QED
    BY <1>5, <2>1, <2>2, <2>3, <2>4, <2>5, <2>6 DEF Manage
<1>6. ASSUME NEW r \in Requests, Confirm(r) PROVE RowsStep
  BY <1>6 DEF Confirm, RowsStep
<1> QED
  BY <1>1, <1>2, <1>3, <1>4, <1>5, <1>6 DEF Next, Time

(* What an agent is about to report changes by looking, or is dropped.     *)
LEMMA LookStep ==
  ASSUME TypeOK, [Next]_vars, NEW a \in Agents, look[a].outcome = "unique" => look[a].job # NoJob
  PROVE  look'[a].outcome = "unique" => look'[a].job # NoJob
<1> USE SentinelAssumption, ConstantsAssumption
<1>1. CASE UNCHANGED look
  BY <1>1
<1>2. ASSUME NEW b \in Agents, NEW r \in Requests, LookForJob(b, r)
      PROVE  look'[a].outcome = "unique" => look'[a].job # NoJob
  BY <1>2 DEF LookForJob, TypeOK, AgentsTypeOK
<1>3. ASSUME NEW b \in Agents, Crash(b) \/ ReportLook(b)
      PROVE  look'[a].outcome = "unique" => look'[a].job # NoJob
  BY <1>3 DEF Crash, ReportLook, NoLook, TypeOK, AgentsTypeOK
<1>4. \/ UNCHANGED look
      \/ \E b \in Agents, r \in Requests : LookForJob(b, r)
      \/ \E b \in Agents : Crash(b) \/ ReportLook(b)
  <2>1. ASSUME NEW s \in Slots, Work(s) PROVE UNCHANGED look
    BY <2>1 DEF agentVars, Work, Claim, PrepareFails, PrepareRaises, AskToBegin, BeginTimesOut,
                ReleaseTimesOut, ProviderAccepts, CreateReturns, CreateUnclear, ReportTimesOut
  <2>2. ASSUME NEW c \in calls, Handle(c) PROVE UNCHANGED look
    BY <2>2 DEF agentVars, Handle, BeginAccepted, BeginRefused, CreateCalled, ReleaseHandled,
                RecoverHandled, FailHandled, LoseCall
  <2>3. ASSUME NEW b \in Agents, Manage(b)
        PROVE  UNCHANGED look \/ (\E r \in Requests : LookForJob(b, r)) \/ Crash(b) \/ ReportLook(b)
    BY <2>3 DEF agentVars, Manage, Start, SweepOnPoll, ClaimLost, AnchorCandidate, ReplayOutbox,
                ReportProcessing, AnchorOwed, Settle
  <2> QED
    BY <2>1, <2>2, <2>3 DEF Next, Time, LeaseEnds, ProbeEnds, Confirm, vars, agentVars
<1> QED
  BY <1>1, <1>2, <1>3, <1>4

(* One row, under one transaction: it stays coherent, keeps an attached    *)
(* job out of submission, and keeps the candidate that was found for it.   *)
RowIsCoherent(r) ==
  /\ job[r] # NoJob => status[r] \in {"tracking", "done", "failed"}
  /\ status[r] = "done" => job[r] # NoJob
  /\ status[r] \in {"pending", "claimed", "submitting"} => probe[r] \in {"none", "no_match"}
  /\ probe[r] = "unique" => candidate[r] # NoJob

RowKeeps(r) ==
  /\ RowIsCoherent(r)'
  /\ job[r] # NoJob => job'[r] # NoJob /\ status'[r] \in {"tracking", "done", "failed"}
  /\ probe[r] \in {"unique", "multiple"} /\ job'[r] = NoJob =>
       probe'[r] = probe[r] /\ candidate'[r] = candidate[r]

LEMMA TransactionsKeepRows ==
  ASSUME TypeOK, RowsAreCoherent, RowsStep, NEW q \in Requests
  PROVE  RowKeeps(q)
<1> USE SentinelAssumption DEF RowKeeps, RowIsCoherent
<1>0. RowsTypeOK /\ RowIsCoherent(q)
  BY DEF TypeOK, RowsAreCoherent
<1>1. CASE UNCHANGED rows
  BY <1>0, <1>1 DEF rows
<1>2. CASE Sweep
  BY <1>0, <1>2 DEF Sweep, Swept, Leased, RowsTypeOK
<1>3. ASSUME NEW r \in Requests,
             \/ LeaseExpires(r) \/ ProbeAges(r)
             \/ QuarantineRow(r) \/ ConfirmRow(r) \/ FailRow(r)
      PROVE  RowKeeps(q)
  <2>1. CASE LeaseExpires(r) \/ ProbeAges(r)
    BY <1>0, <2>1 DEF LeaseExpires, ProbeAges, RowsTypeOK
  <2>2. CASE QuarantineRow(r)
    BY <1>0, <2>2 DEF QuarantineRow, MayQuarantine, RowsTypeOK
  <2>3. CASE ConfirmRow(r)
    BY <1>0, <2>3 DEF ConfirmRow, MayConfirm, RowsTypeOK
  <2>4. CASE FailRow(r)
    BY <1>0, <2>4 DEF FailRow, MayFail, Terminal, RowsTypeOK
  <2> QED
    BY <1>3, <2>1, <2>2, <2>3, <2>4
<1>4. ASSUME NEW r \in Requests, NEW a \in Agents,
             ClaimRow(r, a) \/ BeginRow(r, a) \/ ReleaseRow(r, a)
      PROVE  RowKeeps(q)
  <2>1. CASE ClaimRow(r, a)
    BY <1>0, <2>1 DEF ClaimRow, RowsTypeOK
  <2>2. CASE BeginRow(r, a)
    BY <1>0, <2>2 DEF BeginRow, MayBegin, RowsTypeOK
  <2>3. CASE ReleaseRow(r, a)
    BY <1>0, <2>3 DEF ReleaseRow, MayRelease, RowsTypeOK
  <2> QED
    BY <1>4, <2>1, <2>2, <2>3
<1>5. ASSUME NEW r \in Requests, NEW j \in Jobs, AnchorRow(r, j) \/ CheckRow(r, j)
      PROVE  RowKeeps(q)
  BY <1>0, <1>5 DEF AnchorRow, MayAnchor, CheckRow, MayCheck, Terminal, RowsTypeOK
<1>6. ASSUME NEW r \in Requests, NEW v \in Terminal, SettleRow(r, v)
      PROVE  RowKeeps(q)
  BY <1>0, <1>6 DEF SettleRow, Terminal, RowsTypeOK
<1>7. ASSUME NEW a \in Agents, RecordProbe(look[a].req, look[a].outcome, look[a].job)
      PROVE  RowKeeps(q)
  BY <1>0, <1>7 DEF RecordProbe, RowsTypeOK, RowsAreCoherent
<1> QED
  BY <1>1, <1>2, <1>3, <1>4, <1>5, <1>6, <1>7 DEF RowsStep

(* A row's job, candidate and status always fit together; no timing is     *)
(* assumed for it.                                                         *)
THEOREM RowsStayCoherent == Spec => []RowsAreCoherent
<1>1. Init => RowsAreCoherent
  BY DEF Init, RowsInit, NoLook, RowsAreCoherent
<1>2. TypeOK /\ RowsAreCoherent /\ [Next]_vars => RowsAreCoherent'
  <2> SUFFICES ASSUME TypeOK, RowsAreCoherent, [Next]_vars PROVE RowsAreCoherent'
    OBVIOUS
  <2>1. \A r \in Requests : RowIsCoherent(r)'
    BY StepsAreTransactions, TransactionsKeepRows DEF RowKeeps
  <2>2. \A a \in Agents : look'[a].outcome = "unique" => look'[a].job # NoJob
    BY LookStep DEF RowsAreCoherent
  <2> QED
    BY <2>1, <2>2 DEF RowsAreCoherent, RowIsCoherent
<1> QED
  BY <1>1, <1>2, TypeCorrect, PTL DEF Spec

(* A request with a job is never again claimable or confirmable: late      *)
(* calls, sweeps and restarts of any number of agents included.            *)
THEOREM AttachedForGood == Spec => AttachedIsNotReissued
<1>1. ASSUME TypeOK, RowsAreCoherent, [Next]_vars
      PROVE  \A r \in Requests :
               job[r] # NoJob => job'[r] # NoJob /\ status'[r] \in {"tracking", "done", "failed"}
  BY <1>1, StepsAreTransactions, TransactionsKeepRows DEF RowKeeps
<1> QED
  BY <1>1, TypeCorrect, RowsStayCoherent, PTL DEF Spec, AttachedIsNotReissued

(* A candidate found by a probe outlives everything but its attachment.    *)
THEOREM CandidateForGood == Spec => CandidateIsKept
<1>1. ASSUME TypeOK, RowsAreCoherent, [Next]_vars
      PROVE  \A r \in Requests :
               probe[r] \in {"unique", "multiple"} /\ job'[r] = NoJob =>
                 probe'[r] = probe[r] /\ candidate'[r] = candidate[r]
  BY <1>1, StepsAreTransactions, TransactionsKeepRows DEF RowKeeps
<1> QED
  BY <1>1, TypeCorrect, RowsStayCoherent, PTL DEF Spec, CandidateIsKept

-----------------------------------------------------------------------------
(* Calls and slots.                                                        *)

(* The calls in flight of a slot stay calls about its request.             *)
LEMMA CallsKeepFitting ==
  ASSUME TypeOK, CallsFitSlots, [Next]_vars
  PROVE  CallsFitSlots'
<1> USE ConstantsAssumption DEF CallsFitSlots
<1>0. /\ \A c \in calls : c.slot \in Slots
      /\ pc \in [Slots -> PCs] /\ req \in [Slots -> Requests \cup {NoRequest}]
  BY DEF TypeOK, SlotsTypeOK, CallType
<1>1. CASE UNCHANGED <<pc, req>> /\ calls' \subseteq calls
  BY <1>1
<1>2. ASSUME NEW s \in Slots, Work(s) PROVE CallsFitSlots'
  <2>1. ASSUME NEW r \in Requests, Claim(s, r) PROVE CallsFitSlots'
    BY <1>0, <2>1 DEF Claim, Free, agentVars
  <2>2. CASE PrepareFails(s) \/ ReleaseTimesOut(s) \/ CreateReturns(s)
    BY <1>0, <2>2 DEF PrepareFails, ReleaseTimesOut, CreateReturns, Idle, Call, agentVars
  <2>3. CASE PrepareRaises(s) \/ AskToBegin(s) \/ CreateUnclear(s)
    BY <1>0, <2>3 DEF PrepareRaises, AskToBegin, CreateUnclear, Enter, Call
  <2>4. CASE BeginTimesOut(s) \/ ReportTimesOut(s)
    BY <1>0, <2>4 DEF BeginTimesOut, ReportTimesOut, Enter, Idle, Call
  <2>5. ASSUME NEW j \in Jobs, ProviderAccepts(s, j) PROVE CallsFitSlots'
    BY <1>1, <2>5 DEF ProviderAccepts
  <2> QED
    BY <1>2, <2>1, <2>2, <2>3, <2>4, <2>5 DEF Work
<1>3. ASSUME NEW c \in calls, Handle(c) PROVE CallsFitSlots'
  <2>1. CASE BeginAccepted(c)
    <3>1. /\ [c EXCEPT !.at = "reply"].slot = c.slot
          /\ [c EXCEPT !.at = "reply"].req = c.req
      BY DEF TypeOK, CallType
    <3> QED
      BY <1>0, <2>1, <3>1 DEF BeginAccepted, workerVars
  <2>2. CASE BeginRefused(c)
    BY <1>0, <2>2 DEF BeginRefused, Awaited, Call
  <2>3. CASE CreateCalled(c)
    BY <1>0, <2>3 DEF CreateCalled, Awaited
  <2>4. CASE ReleaseHandled(c) \/ RecoverHandled(c)
    BY <1>0, <2>4 DEF ReleaseHandled, RecoverHandled, Idle, workerVars
  <2>5. CASE FailHandled(c) \/ LoseCall(c)
    BY <1>1, <2>5 DEF FailHandled, LoseCall, workerVars
  <2> QED
    BY <1>3, <2>1, <2>2, <2>3, <2>4, <2>5 DEF Handle
<1>4. ASSUME NEW a \in Agents, Manage(a) PROVE CallsFitSlots'
  <2>1. CASE Crash(a)
    BY <1>0, <2>1 DEF Crash
  <2>2. CASE ~Crash(a)
    BY <1>1, <1>4, <2>2
    DEF Manage, Start, SweepOnPoll, ReportLook, ClaimLost, LookForJob, AnchorCandidate,
        ReplayOutbox, ReportProcessing, AnchorOwed, Settle, workerVars
  <2> QED
    BY <2>1, <2>2
<1>5. ASSUME NEW r \in Requests, LeaseEnds(r) \/ ProbeEnds(r) \/ Confirm(r) PROVE CallsFitSlots'
  BY <1>1, <1>5 DEF LeaseEnds, ProbeEnds, Confirm, workerVars
<1>6. CASE UNCHANGED vars
  BY <1>1, <1>6 DEF vars, workerVars
<1> QED
  BY <1>2, <1>3, <1>4, <1>5, <1>6 DEF Next, Time

-----------------------------------------------------------------------------
(* The claim as a token.                                                   *)

(* The ledger transaction reopens no row except a claim left behind, lets  *)
(* no held claim run out and closes no row without a job.                  *)
RowsQuiet ==
  \A r \in Requests :
    /\ status'[r] = "pending" => status[r] = "pending" \/ (status[r] = "claimed" /\ ~fresh[r])
    /\ status'[r] = "claimed" => status[r] \in {"pending", "claimed"}
    /\ status'[r] = "claimed" /\ ~fresh'[r] =>
         (status[r] = "claimed" /\ ~fresh[r]) \/ ~InSubmission(r)
    /\ status'[r] = "failed" /\ job'[r] = NoJob => status[r] = "failed" /\ job[r] = NoJob

LEMMA QuietTransactions ==
  ASSUME TypeOK
  PROVE  /\ UNCHANGED rows => RowsQuiet
         /\ Sweep => RowsQuiet
         /\ \A r \in Requests : ProbeAges(r) \/ QuarantineRow(r) => RowsQuiet
         /\ \A r \in Requests : LeaseExpires(r) /\ ~InSubmission(r) => RowsQuiet
         /\ \A r \in Requests, a \in Agents : ClaimRow(r, a) \/ BeginRow(r, a) => RowsQuiet
         /\ \A r \in Requests, j \in Jobs \cup {NoJob} :
              AnchorRow(r, j) \/ CheckRow(r, j) \/ Anchor(r, j) => RowsQuiet
         /\ \A r \in Requests, v \in Terminal : SettleRow(r, v) => RowsQuiet
         /\ \A a \in Agents : RecordProbe(look[a].req, look[a].outcome, look[a].job) => RowsQuiet
<1> USE DEF RowsQuiet
<1>0. RowsTypeOK
  BY DEF TypeOK
<1>1. UNCHANGED rows => RowsQuiet
  BY DEF rows
<1>2. Sweep => RowsQuiet
  BY DEF Sweep, Swept, Leased
<1>3. ASSUME NEW r \in Requests
      PROVE  /\ ProbeAges(r) \/ QuarantineRow(r) => RowsQuiet
             /\ LeaseExpires(r) /\ ~InSubmission(r) => RowsQuiet
  BY <1>0 DEF ProbeAges, QuarantineRow, LeaseExpires, RowsTypeOK
<1>4. ASSUME NEW r \in Requests, NEW a \in Agents
      PROVE  ClaimRow(r, a) \/ BeginRow(r, a) => RowsQuiet
  BY <1>0 DEF ClaimRow, BeginRow, RowsTypeOK
<1>5. ASSUME NEW r \in Requests, NEW j \in Jobs \cup {NoJob}
      PROVE  AnchorRow(r, j) \/ CheckRow(r, j) \/ Anchor(r, j) => RowsQuiet
  BY <1>0, <1>1 DEF AnchorRow, CheckRow, Anchor, RowsTypeOK
<1>6. ASSUME NEW r \in Requests, NEW v \in Terminal
      PROVE  SettleRow(r, v) => RowsQuiet
  BY <1>0 DEF SettleRow, RowsTypeOK, Terminal
<1>7. ASSUME NEW a \in Agents
      PROVE  RecordProbe(look[a].req, look[a].outcome, look[a].job) => RowsQuiet
  BY DEF RecordProbe
<1> QED
  BY <1>1, <1>2, <1>3, <1>4, <1>5, <1>6, <1>7

(* A step that only gives up attempts and withdrawals keeps the invariant. *)
HoldersShrink ==
  /\ \A s \in Slots, r \in Requests : Attempting(s, r)' => Attempting(s, r)
  /\ \A c \in calls', r \in Requests : Withdrawing(c, r) => c \in calls

RepliesFit ==
  \A c \in calls' :
    c.op = "begin" /\ c.at = "reply" /\ pc'[c.slot] = "begin" =>
      \/ c \in calls /\ pc[c.slot] = "begin"
      \/ status'[c.req] \notin {"pending", "claimed"}

LEMMA ShrinkingIsSafe ==
  ASSUME TypeOK', SubmissionInv, CallsFitSlots', RowsQuiet, HoldersShrink, RepliesFit,
         creates' = creates
  PROVE  SubmissionInv'
<1>1. \A r \in Requests : InSubmission(r)' => InSubmission(r)
  BY DEF HoldersShrink, InSubmission
<1>2. ClaimIsHeldOnce'
  BY <1>1 DEF SubmissionInv, ClaimIsHeldOnce, RowsQuiet, HoldersShrink
<1>3. \A r \in Requests :
        /\ creates'[r] <= 1
        /\ status'[r] \in {"pending", "claimed"} \/ InSubmission(r)' => creates'[r] = 0
        /\ status'[r] = "failed" /\ job'[r] = NoJob => creates'[r] = 0 /\ ~InSubmission(r)'
  BY <1>1 DEF SubmissionInv, CreateComesLast, RowsQuiet
<1>4. \A c \in calls' :
        c.op = "begin" /\ c.at = "reply" /\ pc'[c.slot] = "begin" =>
          status'[c.req] \notin {"pending", "claimed"}
  <2>1. \A c \in calls' : c.req \in Requests
    BY DEF TypeOK, CallType
  <2> QED
    BY <2>1 DEF RepliesFit, SubmissionInv, CreateComesLast, RowsQuiet
<1> QED
  BY <1>2, <1>3, <1>4 DEF SubmissionInv, CreateComesLast

(* An attempt that turns into a withdrawal passes the token on.            *)
LEMMA HandingOverIsSafe ==
  ASSUME SubmissionInv, CallsFitSlots', UNCHANGED rows, creates' = creates,
         NEW s \in Slots, NEW r \in Requests, NEW w,
         Attempting(s, r), Withdrawing(w, r), w.op # "begin", pc'[s] # "begin", pc'[s] # "prep",
         \A t \in Slots \ {s} : pc'[t] = pc[t] /\ req'[t] = req[t],
         \A c \in calls : c.slot \in Slots,
         w \in calls', calls' \subseteq calls \cup {w}
  PROVE  SubmissionInv'
<1>1. \A t \in Slots, q \in Requests : Attempting(t, q)' => t # s /\ q # r /\ Attempting(t, q)
  BY DEF Attempting, SubmissionInv, ClaimIsHeldOnce
<1>2. \A c \in calls', q \in Requests :
        Withdrawing(c, q) => (c = w /\ q = r) \/ (c \in calls /\ q # r)
  BY DEF Withdrawing, SubmissionInv, ClaimIsHeldOnce
<1>3. \A q \in Requests : InSubmission(q)' => InSubmission(q)
  BY <1>1, <1>2 DEF InSubmission
<1>4. ClaimIsHeldOnce'
  BY <1>1, <1>2, <1>3 DEF SubmissionInv, ClaimIsHeldOnce, rows
<1>5. CreateComesLast'
  BY <1>3 DEF SubmissionInv, CreateComesLast, rows
<1> QED
  BY <1>4, <1>5 DEF SubmissionInv

-----------------------------------------------------------------------------
(* The invariant, step by step.  Hyp gathers what every case below uses.   *)
Hyp == /\ TypeOK /\ TypeOK'
       /\ RowsAreCoherent
       /\ SubmissionInv /\ CallsFitSlots'

(* Steps of the clock, of a person, and of agents outside their workers.   *)
LEMMA TimeKeepsInv ==
  ASSUME AttemptsArePrompt, Hyp, NEW r \in Requests, LeaseEnds(r) \/ ProbeEnds(r)
  PROVE  SubmissionInv'
<1>1. RowsQuiet
  BY QuietTransactions DEF LeaseEnds, ProbeEnds, Hyp
<1>2. HoldersShrink /\ RepliesFit /\ creates' = creates
  BY DEF LeaseEnds, ProbeEnds, HoldersShrink, RepliesFit, Attempting, Withdrawing, workerVars, payVars
<1> QED
  BY <1>1, <1>2, ShrinkingIsSafe DEF Hyp

LEMMA ConfirmKeepsInv ==
  ASSUME AttemptsArePrompt, Hyp, NEW r \in Requests, Confirm(r)
  PROVE  SubmissionInv'
<1>0. RowsTypeOK /\ creates \in [Requests -> Nat] /\ UNCHANGED <<pc, req, calls>>
  BY DEF Hyp, TypeOK, PayTypeOK, Confirm, workerVars
<1>1. \A q \in Requests : InSubmission(q)' <=> InSubmission(q)
  BY <1>0 DEF InSubmission, Attempting
<1>2. /\ ~InSubmission(r) /\ status[r] = "recovery_required"
      /\ status' = [status EXCEPT ![r] = "pending"] /\ fresh' = [fresh EXCEPT ![r] = FALSE]
      /\ creates' = [creates EXCEPT ![r] = 0] /\ job' = job
  BY DEF Confirm, ConfirmRow, MayConfirm
<1>3. ClaimIsHeldOnce'
  BY <1>0, <1>1, <1>2 DEF Hyp, SubmissionInv, ClaimIsHeldOnce, Attempting, RowsTypeOK
<1>4. \A q \in Requests :
        /\ creates'[q] <= 1
        /\ status'[q] \in {"pending", "claimed"} \/ InSubmission(q)' => creates'[q] = 0
        /\ status'[q] = "failed" /\ job'[q] = NoJob => creates'[q] = 0 /\ ~InSubmission(q)'
  BY <1>0, <1>1, <1>2 DEF Hyp, SubmissionInv, CreateComesLast, RowsTypeOK
<1>5. \A c \in calls' :
        c.op = "begin" /\ c.at = "reply" /\ pc'[c.slot] = "begin" =>
          status'[c.req] \notin {"pending", "claimed"}
  <2> SUFFICES ASSUME NEW c \in calls, c.op = "begin", c.at = "reply", pc[c.slot] = "begin"
               PROVE  status'[c.req] \notin {"pending", "claimed"}
    BY <1>0
  <2>1. c.slot \in Slots /\ c.req \in Requests /\ req[c.slot] = c.req
    BY DEF Hyp, TypeOK, CallType, SubmissionInv, CallsFitSlots
  <2>2. Attempting(c.slot, c.req)
    BY <2>1 DEF Attempting
  <2>3. c.req # r
    BY <1>2, <2>1, <2>2 DEF InSubmission
  <2> QED
    BY <1>0, <1>2, <2>1, <2>3 DEF Hyp, SubmissionInv, CreateComesLast, RowsTypeOK
<1> QED
  BY <1>3, <1>4, <1>5 DEF Hyp, SubmissionInv, CreateComesLast

LEMMA ManageKeepsInv ==
  ASSUME Hyp, NEW a \in Agents, Manage(a)
  PROVE  SubmissionInv'
<1> USE ConstantsAssumption
<1>1. CASE Crash(a)
  <2>1. RowsQuiet
    BY <1>1, QuietTransactions DEF Crash, Hyp
  <2>2. \A s \in Slots : pc'[s] # "idle" => pc'[s] = pc[s] /\ req'[s] = req[s]
    BY <1>1 DEF Crash, Hyp, TypeOK, SlotsTypeOK
  <2>3. calls' = calls /\ creates' = creates /\ \A c \in calls : c.slot \in Slots
    BY <1>1 DEF Crash, payVars, Hyp, TypeOK, CallType
  <2>4. HoldersShrink /\ RepliesFit
    BY <2>2, <2>3 DEF HoldersShrink, RepliesFit, Attempting, Withdrawing
  <2> QED
    BY <2>1, <2>3, <2>4, ShrinkingIsSafe DEF Hyp
<1>2. CASE ~Crash(a)
  <2>1. UNCHANGED <<pc, req, calls, creates>>
    BY <1>2
    DEF Manage, Start, SweepOnPoll, ReportLook, ClaimLost, LookForJob, AnchorCandidate,
        ReplayOutbox, ReportProcessing, AnchorOwed, Settle, workerVars, payVars
  <2>2. RowsQuiet
    <3>1. ASSUME NEW r \in Requests, AnchorCandidate(a, r) PROVE RowsQuiet
      BY <3>1, QuietTransactions DEF AnchorCandidate, Hyp, TypeOK, RowsTypeOK
    <3>2. ASSUME NEW r \in Requests, NEW answered \in BOOLEAN, ReplayOutbox(a, r, answered)
          PROVE  RowsQuiet
      BY <3>2, QuietTransactions DEF ReplayOutbox, Hyp, TypeOK, AgentsTypeOK
    <3>3. ASSUME NEW r \in Requests, NEW j \in Jobs,
                 \/ ReportProcessing(a, r, j)
                 \/ \E answered \in BOOLEAN : AnchorOwed(a, r, j, answered)
          PROVE  RowsQuiet
      BY <3>3, QuietTransactions DEF ReportProcessing, AnchorOwed, Hyp
    <3>4. ASSUME NEW r \in Requests, NEW v \in Terminal, Settle(a, r, v) PROVE RowsQuiet
      BY <3>4, QuietTransactions DEF Settle, Hyp
    <3>5. ASSUME NEW r \in Requests, ClaimLost(a, r) \/ LookForJob(a, r) PROVE RowsQuiet
      BY <3>5, QuietTransactions DEF ClaimLost, LookForJob, Hyp
    <3>6. CASE Start(a) \/ SweepOnPoll(a) \/ ReportLook(a)
      BY <3>6, QuietTransactions DEF Start, SweepOnPoll, ReportLook, Hyp
    <3> QED
      BY <1>2, <3>1, <3>2, <3>3, <3>4, <3>5, <3>6 DEF Manage
  <2>3. HoldersShrink /\ RepliesFit
    BY <2>1 DEF HoldersShrink, RepliesFit, Attempting, Withdrawing
  <2> QED
    BY <2>1, <2>2, <2>3, ShrinkingIsSafe DEF Hyp
<1> QED
  BY <1>1, <1>2

(* Steps of a worker.                                                      *)
LEMMA ClaimKeepsInv ==
  ASSUME Hyp, NEW s \in Slots, NEW r \in Requests, Claim(s, r)
  PROVE  SubmissionInv'
<1> USE ConstantsAssumption
<1>0. /\ RowsTypeOK /\ creates' = creates /\ calls' = calls
      /\ pc \in [Slots -> PCs] /\ req \in [Slots -> Requests \cup {NoRequest}]
      /\ \A c \in calls : c.req \in Requests /\ c.slot \in Slots /\ c.slot # s
  BY DEF Hyp, TypeOK, SlotsTypeOK, CallType, Claim, payVars, Free
<1>1. /\ status[r] = "pending" /\ status' = [status EXCEPT ![r] = "claimed"]
      /\ fresh' = [fresh EXCEPT ![r] = TRUE] /\ job' = job
      /\ pc' = [pc EXCEPT ![s] = "prep"] /\ req' = [req EXCEPT ![s] = r] /\ pc[s] = "idle"
  BY DEF Claim, ClaimRow, Free
<1>2. ~InSubmission(r)
  BY <1>1 DEF Hyp, SubmissionInv, ClaimIsHeldOnce
<1>3. \A t \in Slots, q \in Requests :
        Attempting(t, q)' <=> IF t = s THEN q = r ELSE Attempting(t, q)
  BY <1>0, <1>1 DEF Attempting
<1>4. \A q \in Requests : InSubmission(q)' => q = r \/ InSubmission(q)
  BY <1>0, <1>3 DEF InSubmission
<1>5. ClaimIsHeldOnce'
  <2> SUFFICES ASSUME NEW q \in Requests PROVE
        /\ status'[q] = "pending" => ~InSubmission(q)'
        /\ status'[q] = "claimed" /\ ~fresh'[q] => ~InSubmission(q)'
        /\ \A t, u \in Slots : Attempting(t, q)' /\ Attempting(u, q)' => t = u
        /\ \A c, d \in calls : Withdrawing(c, q) /\ Withdrawing(d, q) => c = d
        /\ \A t \in Slots, c \in calls : ~(Attempting(t, q)' /\ Withdrawing(c, q))
    BY <1>0 DEF ClaimIsHeldOnce, Withdrawing
  <2>1. CASE q = r
    BY <1>0, <1>1, <1>2, <1>3, <2>1 DEF InSubmission, RowsTypeOK
  <2>2. CASE q # r
    BY <1>0, <1>1, <1>3, <1>4, <2>2 DEF Hyp, SubmissionInv, ClaimIsHeldOnce, RowsTypeOK
  <2> QED
    BY <2>1, <2>2
<1>6. CreateComesLast'
  <2>1. creates[r] = 0
    BY <1>1 DEF Hyp, SubmissionInv, CreateComesLast
  <2>2. \A q \in Requests :
          /\ creates'[q] <= 1
          /\ status'[q] \in {"pending", "claimed"} \/ InSubmission(q)' => creates'[q] = 0
          /\ status'[q] = "failed" /\ job'[q] = NoJob => creates'[q] = 0 /\ ~InSubmission(q)'
    BY <1>0, <1>1, <1>4, <2>1 DEF Hyp, SubmissionInv, CreateComesLast, RowsTypeOK
  <2>3. \A c \in calls' :
          c.op = "begin" /\ c.at = "reply" /\ pc'[c.slot] = "begin" =>
            status'[c.req] \notin {"pending", "claimed"}
    BY <1>0, <1>1 DEF Hyp, SubmissionInv, CreateComesLast, RowsTypeOK
  <2> QED
    BY <2>2, <2>3 DEF CreateComesLast
<1> QED
  BY <1>5, <1>6 DEF Hyp, SubmissionInv

LEMMA WorkKeepsInv ==
  ASSUME Hyp, NEW s \in Slots, Work(s)
  PROVE  SubmissionInv'
<1> USE ConstantsAssumption
<1>0. /\ pc \in [Slots -> PCs] /\ req \in [Slots -> Requests \cup {NoRequest}]
      /\ \A t \in Slots : pc[t] # "idle" => req[t] \in Requests
      /\ \A c \in calls : c.slot \in Slots
  BY DEF Hyp, TypeOK, SlotsTypeOK, CallType
<1>1. ASSUME NEW r \in Requests, Claim(s, r) PROVE SubmissionInv'
  BY <1>1, ClaimKeepsInv
<1>2. CASE PrepareFails(s)
  <2>1. /\ Attempting(s, req[s]) /\ req[s] \in Requests
        /\ Withdrawing(Call("fail", s, 1), req[s])
    BY <1>0, <1>2 DEF PrepareFails, Attempting, Withdrawing, Call
  <2>2. /\ pc'[s] = "idle" /\ calls' = calls \cup {Call("fail", s, 1)}
        /\ \A t \in Slots \ {s} : pc'[t] = pc[t] /\ req'[t] = req[t]
        /\ UNCHANGED rows /\ creates' = creates /\ Call("fail", s, 1).op # "begin"
    BY <1>0, <1>2 DEF PrepareFails, Idle, payVars, Call
  <2> QED
    BY <1>0, <2>1, <2>2, HandingOverIsSafe DEF Hyp
<1>3. CASE BeginTimesOut(s) /\ ~(tries[s] < MaxTries)
  <2>1. /\ Attempting(s, req[s]) /\ req[s] \in Requests
        /\ Withdrawing(Call("release", s, 1), req[s])
    BY <1>0, <1>3 DEF BeginTimesOut, Attempting, Withdrawing, Call
  <2>2. /\ pc'[s] = "release" /\ calls' = calls \cup {Call("release", s, 1)}
        /\ \A t \in Slots \ {s} : pc'[t] = pc[t] /\ req'[t] = req[t]
        /\ UNCHANGED rows /\ creates' = creates /\ Call("release", s, 1).op # "begin"
    BY <1>0, <1>3 DEF BeginTimesOut, Enter, payVars, Call
  <2> QED
    BY <1>0, <2>1, <2>2, HandingOverIsSafe DEF Hyp
<1>4. ASSUME ~PrepareFails(s), ~(BeginTimesOut(s) /\ ~(tries[s] < MaxTries)),
             ~\E r \in Requests : Claim(s, r)
      PROVE  SubmissionInv'
  <2>1. UNCHANGED rows /\ creates' = creates
    BY <1>4
    DEF Work, PrepareRaises, AskToBegin, BeginTimesOut, ReleaseTimesOut, ProviderAccepts,
        CreateReturns, CreateUnclear, ReportTimesOut, payVars
  <2>2. /\ \A t \in Slots : pc'[t] \in {"prep", "begin"} =>
             /\ pc[t] \in {"prep", "begin"} /\ req'[t] = req[t]
             /\ pc'[t] = "begin" /\ pc[t] # "begin" => pc[t] = "prep"
        /\ \A c \in calls' : c \notin calls => c.op \in {"begin", "recover"} /\ c.at = "sent"
    <3>1. CASE PrepareRaises(s) \/ AskToBegin(s) \/ CreateUnclear(s)
      BY <1>0, <3>1 DEF PrepareRaises, AskToBegin, CreateUnclear, Enter, Call
    <3>2. CASE BeginTimesOut(s) \/ ReportTimesOut(s)
      BY <1>0, <1>4, <3>2 DEF BeginTimesOut, ReportTimesOut, Idle, Call
    <3>3. CASE ReleaseTimesOut(s) \/ CreateReturns(s)
      BY <1>0, <3>3 DEF ReleaseTimesOut, CreateReturns, Idle
    <3>4. ASSUME NEW j \in Jobs, ProviderAccepts(s, j)
          PROVE  UNCHANGED <<pc, req, calls>>
      BY <3>4 DEF ProviderAccepts
    <3> QED
      BY <1>4, <3>1, <3>2, <3>3, <3>4 DEF Work
  <2>3. HoldersShrink
    BY <2>2 DEF HoldersShrink, Attempting, Withdrawing
  <2>4. RepliesFit
    BY <1>0, <2>2 DEF RepliesFit, Hyp, SubmissionInv, CallsFitSlots
  <2> QED
    BY <2>1, <2>3, <2>4, QuietTransactions, ShrinkingIsSafe DEF Hyp
<1> QED
  BY <1>1, <1>2, <1>3, <1>4

(* Steps of a handler, or of the agent that hears its answer.              *)
LEMMA ReleaseKeepsInv ==
  ASSUME Hyp, NEW c \in calls, ReleaseHandled(c)
  PROVE  SubmissionInv'
<1> USE ConstantsAssumption
<1>0. /\ RowsTypeOK /\ creates' = creates /\ calls' = calls \ {c}
      /\ c.slot \in Slots /\ c.req \in Requests /\ Withdrawing(c, c.req)
      /\ \A d \in calls : d.slot \in Slots /\ d.req \in Requests
  BY DEF Hyp, TypeOK, CallType, ReleaseHandled, payVars, Withdrawing
<1>1. \A t \in Slots : pc'[t] # "idle" => pc'[t] = pc[t] /\ req'[t] = req[t]
  BY DEF ReleaseHandled, Idle, workerVars, Hyp, TypeOK, SlotsTypeOK
<1>2. CASE UNCHANGED rows
  <2>1. HoldersShrink /\ RepliesFit
    BY <1>0, <1>1 DEF HoldersShrink, RepliesFit, Attempting
  <2> QED
    BY <1>0, <1>2, <2>1, QuietTransactions, ShrinkingIsSafe DEF Hyp
<1>3. CASE ReleaseRow(c.req, AgentOf[c.slot])
  <2>1. /\ status' = [status EXCEPT ![c.req] = "pending"] /\ job' = job
        /\ fresh' = [fresh EXCEPT ![c.req] = FALSE]
    BY <1>3 DEF ReleaseRow
  <2>2. /\ \A t \in Slots, q \in Requests : Attempting(t, q)' => Attempting(t, q)
        /\ \A q \in Requests : InSubmission(q)' => InSubmission(q)
        /\ ~InSubmission(c.req)' /\ creates[c.req] = 0
    <3>1. \A t \in Slots, q \in Requests : Attempting(t, q)' => Attempting(t, q)
      BY <1>1 DEF Attempting
    <3>2. \A q \in Requests : InSubmission(q)' => InSubmission(q)
      BY <1>0, <3>1 DEF InSubmission
    <3>3. ~InSubmission(c.req)'
      BY <1>0, <3>1 DEF Hyp, SubmissionInv, ClaimIsHeldOnce, InSubmission
    <3>4. creates[c.req] = 0
      BY <1>0 DEF Hyp, SubmissionInv, CreateComesLast, InSubmission
    <3> QED
      BY <3>1, <3>2, <3>3, <3>4
  <2>3. ClaimIsHeldOnce'
    BY <1>0, <2>1, <2>2 DEF Hyp, SubmissionInv, ClaimIsHeldOnce, RowsTypeOK
  <2>4. \A q \in Requests :
          /\ creates'[q] <= 1
          /\ status'[q] \in {"pending", "claimed"} \/ InSubmission(q)' => creates'[q] = 0
          /\ status'[q] = "failed" /\ job'[q] = NoJob => creates'[q] = 0 /\ ~InSubmission(q)'
    BY <1>0, <2>1, <2>2 DEF Hyp, SubmissionInv, CreateComesLast, RowsTypeOK
  <2>5. \A d \in calls' :
          d.op = "begin" /\ d.at = "reply" /\ pc'[d.slot] = "begin" =>
            status'[d.req] \notin {"pending", "claimed"}
    <3> SUFFICES ASSUME NEW d \in calls, d.op = "begin", d.at = "reply", pc'[d.slot] = "begin"
                 PROVE  status'[d.req] \notin {"pending", "claimed"}
      BY <1>0
    <3>1. pc[d.slot] = "begin" /\ Attempting(d.slot, d.req)
      BY <1>0, <1>1 DEF Attempting, Hyp, SubmissionInv, CallsFitSlots
    <3>2. d.req # c.req
      BY <1>0, <3>1 DEF Hyp, SubmissionInv, ClaimIsHeldOnce
    <3> QED
      BY <1>0, <2>1, <3>1, <3>2 DEF Hyp, SubmissionInv, CreateComesLast, RowsTypeOK
  <2> QED
    BY <2>3, <2>4, <2>5 DEF Hyp, SubmissionInv, CreateComesLast
<1> QED
  BY <1>2, <1>3 DEF ReleaseHandled

LEMMA FailKeepsInv ==
  ASSUME Hyp, NEW c \in calls, FailHandled(c)
  PROVE  SubmissionInv'
<1>0. /\ RowsTypeOK /\ UNCHANGED <<pc, req, creates>> /\ calls' = calls \ {c}
      /\ c.req \in Requests /\ Withdrawing(c, c.req)
      /\ \A d \in calls : d.req \in Requests
  BY DEF Hyp, TypeOK, CallType, FailHandled, workerVars, payVars, Withdrawing
<1>1. HoldersShrink /\ RepliesFit
  BY <1>0 DEF HoldersShrink, RepliesFit, Attempting
<1>2. CASE UNCHANGED rows
  BY <1>0, <1>1, <1>2, QuietTransactions, ShrinkingIsSafe DEF Hyp
<1>3. CASE FailRow(c.req)
  <2>1. /\ status' = [status EXCEPT ![c.req] = "failed"] /\ job' = job
        /\ fresh' = [fresh EXCEPT ![c.req] = FALSE]
    BY <1>3 DEF FailRow
  <2>2. /\ \A q \in Requests : InSubmission(q)' => InSubmission(q)
        /\ ~InSubmission(c.req)' /\ creates[c.req] = 0
    BY <1>0, <1>1 DEF Hyp, SubmissionInv, ClaimIsHeldOnce, CreateComesLast, InSubmission, HoldersShrink
  <2>3. ClaimIsHeldOnce'
    BY <1>0, <1>1, <2>1, <2>2
    DEF Hyp, SubmissionInv, ClaimIsHeldOnce, RowsTypeOK, HoldersShrink
  <2>4. CreateComesLast'
    BY <1>0, <2>1, <2>2 DEF Hyp, SubmissionInv, CreateComesLast, RowsTypeOK
  <2> QED
    BY <2>3, <2>4 DEF Hyp, SubmissionInv
<1> QED
  BY <1>2, <1>3 DEF FailHandled

(* The worker that is told "accepted" holds the claim, alone, and the row  *)
(* has left "claimed": after create nobody holds it and nobody can.        *)
LEMMA CreateKeepsInv ==
  ASSUME Hyp, NEW c \in calls, CreateCalled(c)
  PROVE  SubmissionInv' /\ creates[c.req] = 0
<1> USE ConstantsAssumption
<1>0. /\ RowsTypeOK /\ UNCHANGED <<rows, req>> /\ calls' = calls \ {c}
      /\ c.slot \in Slots /\ c.req \in Requests
      /\ pc \in [Slots -> PCs] /\ pc' = [pc EXCEPT ![c.slot] = "create"]
      /\ creates \in [Requests -> Nat] /\ creates' = [creates EXCEPT ![c.req] = @ + 1]
      /\ \A d \in calls : d.req \in Requests /\ d.slot \in Slots
  BY DEF Hyp, TypeOK, SlotsTypeOK, PayTypeOK, CallType, CreateCalled
<1>1. /\ pc[c.slot] = "begin" /\ req[c.slot] = c.req
      /\ Attempting(c.slot, c.req) /\ status[c.req] \notin {"pending", "claimed"}
  BY DEF CreateCalled, Awaited, Attempting, Hyp, SubmissionInv, CallsFitSlots, CreateComesLast
<1>2. creates[c.req] = 0 /\ ~(status[c.req] = "failed" /\ job[c.req] = NoJob)
  BY <1>0, <1>1 DEF Hyp, SubmissionInv, CreateComesLast, InSubmission
<1>3. /\ \A t \in Slots, q \in Requests : Attempting(t, q)' => t # c.slot /\ Attempting(t, q)
      /\ \A q \in Requests : InSubmission(q)' => InSubmission(q)
  BY <1>0 DEF Attempting, InSubmission
<1>4. ~InSubmission(c.req)'
  BY <1>0, <1>1, <1>3 DEF Hyp, SubmissionInv, ClaimIsHeldOnce, InSubmission
<1>5. ClaimIsHeldOnce'
  BY <1>0, <1>3 DEF Hyp, SubmissionInv, ClaimIsHeldOnce, rows
<1>6. \A q \in Requests :
        /\ creates'[q] <= 1
        /\ status'[q] \in {"pending", "claimed"} \/ InSubmission(q)' => creates'[q] = 0
        /\ status'[q] = "failed" /\ job'[q] = NoJob => creates'[q] = 0 /\ ~InSubmission(q)'
  <2> TAKE q \in Requests
  <2>1. CASE q = c.req
    BY <1>0, <1>1, <1>2, <1>4, <2>1 DEF rows
  <2>2. CASE q # c.req
    BY <1>0, <1>3, <2>2 DEF Hyp, SubmissionInv, CreateComesLast, rows
  <2> QED
    BY <2>1, <2>2
<1>7. \A d \in calls' :
        d.op = "begin" /\ d.at = "reply" /\ pc'[d.slot] = "begin" =>
          status'[d.req] \notin {"pending", "claimed"}
  BY <1>0 DEF Hyp, SubmissionInv, CreateComesLast, rows
<1> QED
  BY <1>2, <1>5, <1>6, <1>7 DEF Hyp, SubmissionInv, CreateComesLast

LEMMA HandleKeepsInv ==
  ASSUME Hyp, NEW c \in calls, Handle(c)
  PROVE  SubmissionInv'
<1> USE ConstantsAssumption
<1>0. /\ c.slot \in Slots /\ c.req \in Requests /\ AgentOf[c.slot] \in Agents
      /\ \A d \in calls : d.slot \in Slots
      /\ pc \in [Slots -> PCs] /\ req \in [Slots -> Requests \cup {NoRequest}]
      /\ \A t \in Slots : pc[t] # "idle" => req[t] \in Requests
  BY DEF Hyp, TypeOK, SlotsTypeOK, CallType
<1>1. CASE BeginAccepted(c)
  <2>1. /\ [c EXCEPT !.at = "reply"].slot = c.slot /\ [c EXCEPT !.at = "reply"].req = c.req
        /\ [c EXCEPT !.at = "reply"].op = c.op
    BY DEF Hyp, TypeOK, CallType
  <2>2. RowsQuiet /\ UNCHANGED <<pc, req, creates>>
    BY <1>0, <1>1, QuietTransactions DEF BeginAccepted, workerVars, payVars, Hyp
  <2>3. status'[c.req] = "submitting"
    BY <1>0, <1>1 DEF BeginAccepted, BeginRow, MayBegin, Hyp, TypeOK, RowsTypeOK
  <2>4. HoldersShrink
    BY <1>1, <2>1, <2>2 DEF BeginAccepted, HoldersShrink, Attempting, Withdrawing
  <2>5. RepliesFit
    BY <1>1, <2>1, <2>2, <2>3 DEF BeginAccepted, RepliesFit
  <2> QED
    BY <2>2, <2>4, <2>5, ShrinkingIsSafe DEF Hyp
<1>2. CASE BeginRefused(c) /\ Awaited(c)
  <2>1. /\ pc[c.slot] = "begin" /\ req[c.slot] = c.req /\ Attempting(c.slot, c.req)
        /\ Withdrawing(Call("release", c.slot, 1), c.req)
        /\ Call("release", c.slot, 1).op # "begin"
    BY <1>0, <1>2
    DEF BeginRefused, Awaited, Hyp, SubmissionInv, CallsFitSlots, Attempting, Withdrawing, Call
  <2>2. /\ UNCHANGED <<rows, req, creates>> /\ pc' = [pc EXCEPT ![c.slot] = "release"]
        /\ calls' = (calls \ {c}) \cup {Call("release", c.slot, 1)}
    BY <1>2 DEF BeginRefused, payVars
  <2>3. /\ pc'[c.slot] = "release"
        /\ \A t \in Slots \ {c.slot} : pc'[t] = pc[t] /\ req'[t] = req[t]
    BY <1>0, <2>2
  <2> QED
    BY <1>0, <2>1, <2>2, <2>3, HandingOverIsSafe DEF Hyp
<1>3. CASE (BeginRefused(c) /\ ~Awaited(c)) \/ LoseCall(c)
  <2>1. UNCHANGED <<rows, pc, req, creates>> /\ calls' \subseteq calls
    BY <1>3 DEF BeginRefused, LoseCall, workerVars, payVars
  <2>2. HoldersShrink /\ RepliesFit
    BY <2>1 DEF HoldersShrink, RepliesFit, Attempting
  <2> QED
    BY <2>1, <2>2, QuietTransactions, ShrinkingIsSafe DEF Hyp
<1>4. CASE RecoverHandled(c)
  <2>1. RowsQuiet
    BY <1>0, <1>4, QuietTransactions DEF RecoverHandled, Hyp
  <2>2. /\ \A t \in Slots : pc'[t] # "idle" => pc'[t] = pc[t] /\ req'[t] = req[t]
        /\ creates' = creates /\ calls' \subseteq calls
    BY <1>0, <1>4 DEF RecoverHandled, Idle, workerVars, payVars
  <2>3. HoldersShrink /\ RepliesFit
    BY <1>0, <2>2 DEF HoldersShrink, RepliesFit, Attempting
  <2> QED
    BY <2>1, <2>2, <2>3, ShrinkingIsSafe DEF Hyp
<1> QED
  BY <1>1, <1>2, <1>3, <1>4, CreateKeepsInv, ReleaseKeepsInv, FailKeepsInv DEF Handle

-----------------------------------------------------------------------------
(* What follows, for every run in which attempts are prompt.               *)

LEMMA InvStep ==
  ASSUME AttemptsArePrompt, TypeOK, TypeOK', RowsAreCoherent, SubmissionInv, [Next]_vars
  PROVE  SubmissionInv'
<1>1. Hyp
  BY CallsKeepFitting DEF Hyp, SubmissionInv
<1>2. CASE UNCHANGED vars
  <2>1. UNCHANGED <<rows, pc, req, calls, creates>>
    BY <1>2 DEF vars, workerVars, payVars
  <2>2. HoldersShrink /\ RepliesFit
    BY <2>1 DEF HoldersShrink, RepliesFit, Attempting
  <2> QED
    BY <1>1, <2>1, <2>2, QuietTransactions, ShrinkingIsSafe DEF Hyp
<1> QED
  BY <1>1, <1>2, TimeKeepsInv, ConfirmKeepsInv, ManageKeepsInv, WorkKeepsInv, HandleKeepsInv
  DEF Next, Time

(* A claim is held once and create comes last, in every reachable state.   *)
THEOREM SubmissionInvariant == ASSUME AttemptsArePrompt PROVE Spec => []SubmissionInv
<1>1. Init => SubmissionInv
  BY DEF Init, RowsInit, SubmissionInv, CallsFitSlots, ClaimIsHeldOnce, CreateComesLast,
         InSubmission, Attempting
<1>2. TypeOK /\ TypeOK' /\ RowsAreCoherent /\ SubmissionInv /\ [Next]_vars => SubmissionInv'
  BY InvStep
<1> QED
  BY <1>1, <1>2, TypeCorrect, RowsStayCoherent, PTL DEF Spec

(* Between two confirmations a request is paid for at most once.           *)
THEOREM PaidOnceTheorem == ASSUME AttemptsArePrompt PROVE Spec => []PaidOncePerConfirmation
<1>1. SubmissionInv => PaidOncePerConfirmation
  BY DEF SubmissionInv, CreateComesLast, PaidOncePerConfirmation
<1> QED
  BY <1>1, SubmissionInvariant, PTL

(* A request that may have been paid for is neither reissued nor closed.   *)
THEOREM NotGivenUpTheorem == ASSUME AttemptsArePrompt PROVE Spec => []PaidIsNotGivenUp
<1>1. TypeOK /\ RowsAreCoherent /\ SubmissionInv => PaidIsNotGivenUp
  BY DEF TypeOK, RowsTypeOK, Statuses, PayTypeOK, RowsAreCoherent, SubmissionInv,
         CreateComesLast, PaidIsNotGivenUp
<1> QED
  BY <1>1, TypeCorrect, RowsStayCoherent, SubmissionInvariant, PTL

(* Two-stage submission implements the promise of PaidOnce: the call of    *)
(* create is its payment, the person's statement its confirmation, and     *)
(* everything else is invisible.                                           *)
THEOREM Refinement == ASSUME AttemptsArePrompt PROVE Spec => ImplementsPaidOnce
<1>1. Init => Promise!Init
  BY DEF Init, Promise!Init
<1>2. ASSUME TypeOK, TypeOK', RowsAreCoherent, SubmissionInv, [Next]_vars
      PROVE  [Promise!Next]_(Promise!vars)
  <2>1. ASSUME NEW c \in calls, CreateCalled(c) PROVE Promise!Pay(c.req) /\ c.req \in Requests
    <3>1. Hyp
      BY <1>2, CallsKeepFitting DEF Hyp, SubmissionInv
    <3>2. c.req \in Requests /\ creates[c.req] = 0 /\ creates \in [Requests -> Nat]
      BY <2>1, <3>1, CreateKeepsInv DEF Hyp, TypeOK, CallType, PayTypeOK
    <3> QED
      BY <2>1, <3>2 DEF CreateCalled, Promise!Pay
  <2>2. ASSUME NEW r \in Requests, Confirm(r) PROVE Promise!Confirm(r)
    BY <2>2 DEF Confirm, Promise!Confirm
  <2>3. ASSUME NEW s \in Slots, Work(s) PROVE UNCHANGED <<creates, confirms>>
    BY <2>3
    DEF Work, Claim, PrepareFails, PrepareRaises, AskToBegin, BeginTimesOut, ReleaseTimesOut,
        ProviderAccepts, CreateReturns, CreateUnclear, ReportTimesOut, payVars
  <2>4. ASSUME NEW c \in calls, Handle(c), ~CreateCalled(c) PROVE UNCHANGED <<creates, confirms>>
    BY <2>4
    DEF Handle, BeginAccepted, BeginRefused, ReleaseHandled, RecoverHandled, FailHandled,
        LoseCall, payVars
  <2>5. ASSUME NEW a \in Agents, Manage(a) PROVE UNCHANGED <<creates, confirms>>
    BY <2>5
    DEF Manage, Start, Crash, SweepOnPoll, ReportLook, ClaimLost, LookForJob, AnchorCandidate,
        ReplayOutbox, ReportProcessing, AnchorOwed, Settle, payVars
  <2>6. CASE Time \/ UNCHANGED vars
    BY <2>6 DEF Time, LeaseEnds, ProbeEnds, vars, payVars, Promise!vars
  <2> QED
    BY <1>2, <2>1, <2>2, <2>3, <2>4, <2>5, <2>6 DEF Next, Promise!Next, Promise!vars
<1> QED
  BY <1>1, <1>2, TypeCorrect, RowsStayCoherent, SubmissionInvariant, PTL
  DEF Spec, ImplementsPaidOnce, Promise!Spec
=============================================================================
