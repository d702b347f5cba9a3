-------------------------- MODULE GenResult_proofs --------------------------
(***************************************************************************)
(* Proofs about GenResult for any number of calls in flight and of list    *)
(* pushes.                                                                 *)
(***************************************************************************)
EXTENDS GenResult, TLAPS

(* The call slots stay records of calls.                                   *)
CallType == [op : {"none", "anchor", "report", "force", "diff", "ingest"},
             saw : {"processing", "completed", "result", "rejected"}]

LEMMA CallTypes ==
  ASSUME call \in [Handlers -> CallType], NEW i \in Handlers
  PROVE  /\ call[i].saw \in {"processing", "completed", "result", "rejected"}
         /\ Answered(i) => call' \in [Handlers -> CallType]
         /\ \A op \in {"anchor", "report", "force", "diff", "ingest"},
               saw \in {"processing", "completed", "result", "rejected"} :
              Send(i, op, saw) => call' \in [Handlers -> CallType]
         /\ Diff(i) => call' \in [Handlers -> CallType]
  BY DEF CallType, Answered, None, Send, Diff

(* Every reachable state is well typed, and only a failed card that holds  *)
(* its job is barred.                                                      *)
THEOREM TypeCorrect == Spec => []ResultTypeOK
<1>1. Init => ResultTypeOK
  <2> SUFFICES ASSUME Init PROVE ResultTypeOK
    OBVIOUS
  <2>1. noInput \in BOOLEAN
    BY ResultAssumption, Zenon DEF Init
  <2>2. pushes \in 0..MaxPushes
    BY ResultAssumption DEF Init
  <2> QED
    BY <2>1, <2>2 DEF Init, ResultTypeOK, Shown, None
<1>2. ResultTypeOK /\ [Next]_vars => ResultTypeOK'
  <2> SUFFICES ASSUME ResultTypeOK, [Next]_vars PROVE ResultTypeOK'
    OBVIOUS
  <2>t. call \in [Handlers -> CallType]
    BY DEF ResultTypeOK, CallType
  <2>1. CASE UNCHANGED vars
    BY <2>1 DEF ResultTypeOK, vars, cardVars, agentVars, providerVars
  <2>2. CASE Provider
    BY <2>2 DEF ResultTypeOK, Provider, ProviderMoves, cardVars, agentVars
  <2>3. ASSUME NEW i \in Handlers,
               SendAnchor(i) \/ Poll(i) \/ Reconcile(i) \/ \E full \in BOOLEAN : Push(i, full)
        PROVE  ResultTypeOK'
    <3>1. hf \in {"processing", "completed", "result", "rejected"}
      BY DEF ResultTypeOK
    <3>2. call' \in [Handlers -> CallType]
      BY <2>3, <2>t, <3>1, CallTypes DEF SendAnchor, Poll, Reconcile, Push
    <3>3. UNCHANGED <<cardVars, agentVars, providerVars>> /\ pushes' \in 0..MaxPushes
      BY <2>3, ResultAssumption
      DEF SendAnchor, Poll, Reconcile, Push, Send, ResultTypeOK
    <3> QED
      BY <3>2, <3>3 DEF ResultTypeOK, CallType, cardVars, agentVars, providerVars
  <2>4. ASSUME NEW i \in Handlers, Handle(i)
        PROVE  ResultTypeOK'
    <3>1. call' \in [Handlers -> CallType]
      BY <2>4, <2>t, CallTypes
      DEF Handle, AnchorHandled, Report, Settle, ForceFail, StillWorking, Ingest
    <3>2. call[i].saw \in {"processing", "completed", "result", "rejected"}
      BY <2>t, CallTypes
    <3>3. CASE \E heard \in BOOLEAN : AnchorHandled(i, heard)
      <4>1. PICK heard \in BOOLEAN : AnchorHandled(i, heard)
        BY <3>3
      <4>2. outbox' \in BOOLEAN
        BY <4>1, Zenon DEF AnchorHandled
      <4>3. Anchor /\ UNCHANGED <<tracked, providerVars, pushes>>
        BY <4>1 DEF AnchorHandled
      <4>4. /\ hf' = hf /\ noInput' = noInput /\ tracked' = tracked /\ pushes' = pushes
            /\ asset' = asset /\ refused' = refused
        BY <4>3 DEF Anchor, cardVars, providerVars
      <4>5. /\ card' \in Shown /\ req' \in {"open", "done", "failed"}
            /\ copy' \in Shown \cup {"none"}
        BY <4>3 DEF Anchor, cardVars, ResultTypeOK, Shown
      <4>6. /\ barred' \in BOOLEAN /\ anchored' \in BOOLEAN
            /\ barred' => card' = "failed" /\ anchored'
        BY <4>3, Zenon DEF Anchor, cardVars, ResultTypeOK
      <4> QED
        BY <3>1, <4>2, <4>4, <4>5, <4>6 DEF ResultTypeOK, CallType
    <3>4. CASE \E heard \in BOOLEAN : Settle(i, heard)
      <4>1. PICK heard \in BOOLEAN : Settle(i, heard)
        BY <3>4
      <4>2. Verdict(i) \in {"done", "failed"}
        BY DEF Verdict
      <4>3. Apply(Verdict(i)) /\ tracked' \in BOOLEAN
        BY <4>1 DEF Settle, ResultTypeOK
      <4>4. UNCHANGED <<outbox, providerVars, pushes>>
        BY <4>1 DEF Settle
      <4>5. asset' \in BOOLEAN
        BY <4>3, Zenon DEF Apply, ResultTypeOK, cardVars
      <4>6. /\ card' \in Shown /\ req' \in {"open", "done", "failed"}
            /\ copy' = copy
        BY <4>2, <4>3 DEF Apply, cardVars, ResultTypeOK, Shown
      <4>7. /\ barred' = barred /\ anchored' = anchored /\ refused' = refused
            /\ hf' = hf /\ noInput' = noInput /\ outbox' = outbox /\ pushes' = pushes
        BY <4>3, <4>4 DEF Apply, cardVars, providerVars
      <4>8. barred => card' = card
        BY <4>2, <4>3 DEF Apply, cardVars, ResultTypeOK
      <4> QED
        BY <3>1, <4>3, <4>5, <4>6, <4>7, <4>8 DEF ResultTypeOK, CallType
    <3>5. CASE \E heard \in BOOLEAN : ForceFail(i, heard)
      <4>1. PICK heard \in BOOLEAN : ForceFail(i, heard)
        BY <3>5
      <4>2. req' \in {"open", "done", "failed"} /\ card' \in Shown
        BY <4>1 DEF ForceFail, ResultTypeOK, Shown
      <4>3. barred' \in BOOLEAN /\ refused' \in BOOLEAN /\ (barred' => card' = "failed" /\ anchored)
        BY <4>1, Zenon DEF ForceFail, ResultTypeOK
      <4>4. tracked' \in BOOLEAN
        BY <4>1, Zenon DEF ForceFail
      <4>5. /\ asset' = asset /\ anchored' = anchored /\ copy' = copy /\ outbox' = outbox
            /\ hf' = hf /\ noInput' = noInput /\ pushes' = pushes
        BY <4>1 DEF ForceFail, providerVars
      <4> QED
        BY <3>1, <4>2, <4>3, <4>4, <4>5 DEF ResultTypeOK, CallType
    <3>6. CASE StillWorking(i)
      <4>1. /\ asset' = asset /\ anchored' = anchored /\ req' = req /\ copy' = copy
            /\ refused' = refused /\ outbox' = outbox /\ tracked' = tracked
            /\ hf' = hf /\ noInput' = noInput /\ pushes' = pushes
        BY <3>6 DEF StillWorking, agentVars, providerVars
      <4>2. card' \in Shown
        BY <3>6 DEF StillWorking, Resumed, Shown
      <4>3. barred' \in BOOLEAN /\ (barred' => card' = "failed" /\ anchored)
        <5>1. barred' = (barred /\ card = "done")
          BY <3>6 DEF StillWorking, Resumed
        <5>2. barred => card = "failed"
          BY DEF ResultTypeOK
        <5>3. barred' \in BOOLEAN
          BY <5>1, Zenon
        <5>4. ~barred'
          BY <5>1, <5>2
        <5> QED
          BY <5>3, <5>4
      <4> QED
        BY <3>1, <4>1, <4>2, <4>3 DEF ResultTypeOK, CallType
    <3>7. CASE Diff(i)
      BY <3>1, <3>7 DEF ResultTypeOK, CallType, Diff, cardVars, agentVars, providerVars
    <3>8. CASE Ingest(i)
      <4>1. Synced(call[i].saw) \in Shown
        BY <3>2 DEF Synced, Shown
      <4>2. asset' \in BOOLEAN
        BY <3>8, Zenon DEF Ingest, Upsert, ResultTypeOK
      <4>3. card' \in Shown /\ copy' \in Shown \cup {"none"}
        BY <3>8, <4>1 DEF Ingest, Upsert, ResultTypeOK, Shown
      <4>4. /\ barred' = barred /\ anchored' = anchored /\ refused' = refused /\ req' = req
            /\ outbox' = outbox /\ tracked' = tracked
            /\ hf' = hf /\ noInput' = noInput /\ pushes' = pushes
        BY <3>8 DEF Ingest, Upsert, agentVars, providerVars
      <4>5. barred => card' = card
        BY <3>8 DEF Ingest, Upsert
      <4> QED
        BY <3>1, <4>2, <4>3, <4>4, <4>5 DEF ResultTypeOK, CallType
    <3> QED
      BY <2>4, <3>3, <3>4, <3>5, <3>6, <3>7, <3>8 DEF Handle, Report
  <2> QED
    BY <2>1, <2>2, <2>3, <2>4 DEF Next
<1> QED
  BY <1>1, <1>2, PTL DEF Spec

-----------------------------------------------------------------------------
(* A step either leaves the cards alone or handles one call.               *)
LEMMA CardSteps ==
  ASSUME [Next]_vars
  PROVE  \/ UNCHANGED cardVars
         \/ \E i \in Handlers, heard \in BOOLEAN :
              AnchorHandled(i, heard) \/ Settle(i, heard) \/ ForceFail(i, heard)
         \/ \E i \in Handlers : StillWorking(i) \/ Ingest(i)
<1>1. CASE UNCHANGED vars
  BY <1>1 DEF vars
<1>2. CASE Provider
  BY <1>2 DEF Provider, ProviderMoves
<1>3. ASSUME NEW i \in Handlers,
             \/ SendAnchor(i) \/ Poll(i) \/ Reconcile(i)
             \/ \E full \in BOOLEAN : Push(i, full)
      PROVE  UNCHANGED cardVars
  BY <1>3 DEF SendAnchor, Poll, Reconcile, Push, Send
<1>4. ASSUME NEW i \in Handlers, Diff(i)
      PROVE  UNCHANGED cardVars
  BY <1>4 DEF Diff
<1> QED
  BY <1>1, <1>2, <1>3, <1>4 DEF Next, Handle, Report

LEMMA BarredStep ==
  ASSUME BarredIsRefused, [Next]_vars
  PROVE  BarredIsRefused'
<1>1. CASE UNCHANGED cardVars
  BY <1>1 DEF cardVars, BarredIsRefused
<1>2. ASSUME NEW i \in Handlers, NEW heard \in BOOLEAN, AnchorHandled(i, heard)
      PROVE  BarredIsRefused'
  BY <1>2 DEF AnchorHandled, Anchor, cardVars, BarredIsRefused
<1>3. ASSUME NEW i \in Handlers, NEW heard \in BOOLEAN, Settle(i, heard)
      PROVE  BarredIsRefused'
  <2>1. Apply(Verdict(i))
    BY <1>3 DEF Settle
  <2> QED
    BY <2>1, Zenon DEF Apply, cardVars, BarredIsRefused
<1>4. ASSUME NEW i \in Handlers, NEW heard \in BOOLEAN, ForceFail(i, heard)
      PROVE  BarredIsRefused'
  BY <1>4, Zenon DEF ForceFail, BarredIsRefused
<1>5. ASSUME NEW i \in Handlers, StillWorking(i)
      PROVE  BarredIsRefused'
  BY <1>5, Zenon DEF StillWorking, Resumed, BarredIsRefused
<1>6. ASSUME NEW i \in Handlers, Ingest(i)
      PROVE  BarredIsRefused'
  BY <1>6 DEF Ingest, Upsert, BarredIsRefused
<1> QED
  BY <1>1, <1>2, <1>3, <1>4, <1>5, <1>6, CardSteps

LEMMA OneRowStep ==
  ASSUME BarredIsRefused, OneRowPerJob, [Next]_vars
  PROVE  OneRowPerJob'
<1>1. CASE UNCHANGED cardVars
  BY <1>1 DEF cardVars, OneRowPerJob
<1>2. ASSUME NEW i \in Handlers, NEW heard \in BOOLEAN, AnchorHandled(i, heard)
      PROVE  OneRowPerJob'
  BY <1>2 DEF AnchorHandled, Anchor, cardVars, OneRowPerJob
<1>3. ASSUME NEW i \in Handlers, NEW heard \in BOOLEAN, Settle(i, heard)
      PROVE  OneRowPerJob'
  <2>1. Apply(Verdict(i))
    BY <1>3 DEF Settle
  <2> QED
    BY <2>1, Zenon DEF Apply, cardVars, OneRowPerJob
<1>4. ASSUME NEW i \in Handlers, NEW heard \in BOOLEAN, ForceFail(i, heard)
      PROVE  OneRowPerJob'
  BY <1>4, Zenon DEF ForceFail, OneRowPerJob
<1>5. ASSUME NEW i \in Handlers, StillWorking(i)
      PROVE  OneRowPerJob'
  BY <1>5 DEF StillWorking, OneRowPerJob
<1>6. ASSUME NEW i \in Handlers, Ingest(i)
      PROVE  OneRowPerJob'
  BY <1>6 DEF Ingest, Upsert, BarredIsRefused, OneRowPerJob
<1> QED
  BY <1>1, <1>2, <1>3, <1>4, <1>5, <1>6, CardSteps

(* A card that holds its job is the job's only row, however the anchor and *)
(* the list pushes interleave, unless it was refused (OneRowPerJob).       *)
THEOREM OneRowTheorem == Spec => []OneRowPerJob
<1>1. Init => BarredIsRefused /\ OneRowPerJob
  BY DEF Init, BarredIsRefused, OneRowPerJob
<1>2. BarredIsRefused /\ OneRowPerJob /\ [Next]_vars => (BarredIsRefused /\ OneRowPerJob)'
  BY BarredStep, OneRowStep
<1> QED
  BY <1>1, <1>2, PTL DEF Spec

-----------------------------------------------------------------------------
(* What sending and answering a call change.                               *)
LEMMA CallOps ==
  ASSUME call \in [Handlers -> CallType], NEW i \in Handlers
  PROVE  /\ Answered(i) => \A k \in Handlers :
                             call'[k] = IF k = i THEN None ELSE call[k]
         /\ \A op, saw : Send(i, op, saw) => \A k \in Handlers :
                             call'[k] = IF k = i THEN [op |-> op, saw |-> saw] ELSE call[k]
         /\ Diff(i) => \A k \in Handlers :
                         \/ call'[k] = call[k]
                         \/ call'[k] = None
                         \/ call'[k].op = "ingest" /\ call'[k].saw = call[k].saw
<1>1. Answered(i) => \A k \in Handlers : call'[k] = IF k = i THEN None ELSE call[k]
  BY DEF Answered
<1>2. ASSUME NEW op, NEW saw, Send(i, op, saw)
      PROVE  \A k \in Handlers :
               call'[k] = IF k = i THEN [op |-> op, saw |-> saw] ELSE call[k]
  BY <1>2 DEF Send
<1>3. ASSUME call' = [call EXCEPT ![i].op = "ingest"]
      PROVE  \A k \in Handlers :
               \/ call'[k] = call[k]
               \/ call'[k].op = "ingest" /\ call'[k].saw = call[k].saw
  BY <1>3 DEF CallType
<1>4. Diff(i) => Answered(i) \/ call' = [call EXCEPT ![i].op = "ingest"]
  BY DEF Diff
<1> QED
  BY <1>1, <1>2, <1>3, <1>4

(* What the provider has decided stays decided.                            *)
LEMMA ProviderSteps ==
  ASSUME [Next]_vars
  PROVE  /\ noInput' = noInput
         /\ Succeeded => Succeeded'
         /\ hf = "rejected" => hf' = "rejected"
         /\ \/ UNCHANGED providerVars
            \/ UNCHANGED <<cardVars, agentVars, call>>
<1>1. CASE Provider
  BY <1>1 DEF Provider, ProviderMoves, Succeeded
<1>2. CASE UNCHANGED providerVars
  BY <1>2 DEF providerVars, Succeeded
<1>3. ASSUME NEW i \in Handlers,
             \/ SendAnchor(i) \/ Poll(i) \/ Reconcile(i)
             \/ \E full \in BOOLEAN : Push(i, full)
      PROVE  UNCHANGED providerVars
  BY <1>3 DEF SendAnchor, Poll, Reconcile, Push, Send
<1>4. ASSUME NEW i \in Handlers, Handle(i)
      PROVE  UNCHANGED providerVars
  BY <1>4 DEF Handle, AnchorHandled, Report, Settle, ForceFail, StillWorking, Diff, Ingest
<1>5. UNCHANGED vars => UNCHANGED providerVars
  BY DEF vars
<1> QED
  BY <1>1, <1>2, <1>3, <1>4, <1>5 DEF Next

(* A step leaves the calls alone, sends one, takes one on or answers one.  *)
LEMMA CallSteps ==
  ASSUME [Next]_vars
  PROVE  \/ UNCHANGED call
         \/ \E i \in Handlers : \/ SendAnchor(i) \/ Poll(i) \/ Reconcile(i)
                                \/ \E full \in BOOLEAN : Push(i, full)
                                \/ Diff(i)
                                \/ Answered(i)
<1>1. CASE UNCHANGED vars \/ Provider
  BY <1>1 DEF vars, Provider, ProviderMoves
<1>2. ASSUME NEW i \in Handlers, Handle(i)
      PROVE  Diff(i) \/ Answered(i)
  BY <1>2 DEF Handle, AnchorHandled, Report, Settle, ForceFail, StillWorking, Ingest
<1> QED
  BY <1>1, <1>2 DEF Next

(* Calls carry what the provider has said, and it does not take it back.   *)
LEMMA TrueCallsStep ==
  ASSUME ResultTypeOK, CallsAreTrue, [Next]_vars
  PROVE  CallsAreTrue'
<1>t. call \in [Handlers -> CallType]
  BY DEF ResultTypeOK, CallType
<1>p. /\ noInput' = noInput
      /\ Succeeded => Succeeded'
      /\ hf = "rejected" => hf' = "rejected"
  BY ProviderSteps
<1>k. ASSUME \A k \in Handlers :
               \/ call'[k] = call[k]
               \/ call'[k] = None
               \/ call'[k].op # "force" /\ call'[k].saw = call[k].saw
      PROVE  CallsAreTrue'
  BY <1>k, <1>p DEF CallsAreTrue, None
<1>1. CASE UNCHANGED call
  BY <1>1, <1>k
<1>2. ASSUME NEW i \in Handlers, Answered(i)
      PROVE  CallsAreTrue'
  BY <1>2, <1>t, <1>k, CallOps
<1>3. ASSUME NEW i \in Handlers, Diff(i)
      PROVE  CallsAreTrue'
  BY <1>3, <1>t, <1>k, CallOps
<1>4. ASSUME NEW i \in Handlers, NEW op, NEW saw, Send(i, op, saw),
             saw \in {"processing", hf},
             op = "force" => noInput /\ Succeeded
      PROVE  CallsAreTrue'
  <2>1. \A k \in Handlers : call'[k] = IF k = i THEN [op |-> op, saw |-> saw] ELSE call[k]
    BY <1>4, <1>t, CallOps
  <2>2. saw \in {"completed", "result"} => Succeeded
    BY <1>4 DEF Succeeded
  <2>3. saw = "rejected" => hf = "rejected"
    BY <1>4
  <2>4. ASSUME NEW k \in Handlers, k # i
        PROVE  /\ call'[k].saw \in {"completed", "result"} => Succeeded'
               /\ call'[k].saw = "rejected" => hf' = "rejected"
               /\ call'[k].op = "force" => noInput' /\ Succeeded'
    BY <2>1, <2>4, <1>p DEF CallsAreTrue
  <2>5. call'[i].op = op /\ call'[i].saw = saw
    BY <2>1
  <2>6. noInput \in BOOLEAN
    BY DEF ResultTypeOK
  <2>7. /\ call'[i].saw \in {"completed", "result"} => Succeeded'
        /\ call'[i].saw = "rejected" => hf' = "rejected"
        /\ call'[i].op = "force" => noInput' /\ Succeeded'
    BY <2>2, <2>3, <2>5, <1>4, <1>p
  <2> QED
    BY <2>4, <2>7 DEF CallsAreTrue
<1>5. ASSUME NEW i \in Handlers, SendAnchor(i) \/ Poll(i) \/ Reconcile(i)
      PROVE  CallsAreTrue'
  BY <1>4, <1>5 DEF SendAnchor, Poll, Reconcile
<1>6. ASSUME NEW i \in Handlers, NEW full \in BOOLEAN, Push(i, full)
      PROVE  CallsAreTrue'
  BY <1>4, <1>6 DEF Push
<1> QED
  BY <1>1, <1>2, <1>3, <1>5, <1>6, CallSteps

(* A card is done, or barred, for a cause only.                            *)
LEMMA EarnedStep ==
  ASSUME ResultTypeOK, CallsAreTrue, DoneIsEarned, BarIsEarned, [Next]_vars
  PROVE  DoneIsEarned' /\ BarIsEarned'
<1>p. noInput' = noInput /\ (Succeeded => Succeeded')
  BY ProviderSteps
<1>k. /\ card' = "done" => card = "done" \/ Succeeded
      /\ barred' => barred \/ (noInput /\ Succeeded)
  <2>1. CASE UNCHANGED cardVars
    BY <2>1 DEF cardVars
  <2>2. ASSUME NEW i \in Handlers, NEW heard \in BOOLEAN, AnchorHandled(i, heard)
        PROVE  (card' = "done" => card = "done") /\ (barred' => barred)
    BY <2>2 DEF AnchorHandled, Anchor, cardVars
  <2>3. ASSUME NEW i \in Handlers, NEW heard \in BOOLEAN, Settle(i, heard)
        PROVE  (card' = "done" => card = "done" \/ Succeeded) /\ barred' = barred
    <3>1. Apply(Verdict(i)) /\ (Verdict(i) = "done" => Succeeded)
      BY <2>3 DEF Settle, Verdict, CallsAreTrue
    <3> QED
      BY <3>1 DEF Apply, cardVars
  <2>4. ASSUME NEW i \in Handlers, NEW heard \in BOOLEAN, ForceFail(i, heard)
        PROVE  (card' = "done" => card = "done") /\ noInput /\ Succeeded
    BY <2>4 DEF ForceFail, CallsAreTrue
  <2>5. ASSUME NEW i \in Handlers, StillWorking(i)
        PROVE  (card' = "done" => card = "done") /\ (barred' => barred)
    BY <2>5 DEF StillWorking, Resumed
  <2>6. ASSUME NEW i \in Handlers, Ingest(i)
        PROVE  (card' = "done" => card = "done" \/ Succeeded) /\ barred' = barred
    <3>1. call[i].saw \in {"processing", "completed", "result", "rejected"}
      BY CallTypes DEF ResultTypeOK, CallType
    <3>2. Synced(call[i].saw) = "done" => Succeeded
      BY <3>1 DEF Synced, CallsAreTrue
    <3> QED
      BY <2>6, <3>2 DEF Ingest, Upsert
  <2> QED
    BY <2>1, <2>2, <2>3, <2>4, <2>5, <2>6, CardSteps
<1> QED
  BY <1>k, <1>p DEF DoneIsEarned, BarIsEarned

(* An agent stops tracking a job only when its card has the result, when   *)
(* the provider rejected it, or when the agent itself refused it.          *)
LEMMA StopStep ==
  ASSUME ResultTypeOK, CallsAreTrue, StopIsEarned, [Next]_vars
  PROVE  StopIsEarned'
<1>p. noInput' = noInput /\ (hf = "rejected" => hf' = "rejected")
  BY ProviderSteps
<1>a. asset => asset'
  <2>1. ASSUME NEW i \in Handlers, NEW heard \in BOOLEAN, AnchorHandled(i, heard)
        PROVE  asset' = asset
    BY <2>1 DEF AnchorHandled, Anchor, cardVars
  <2>2. ASSUME NEW i \in Handlers, NEW heard \in BOOLEAN, Settle(i, heard)
        PROVE  asset => asset'
    <3>1. Apply(Verdict(i))
      BY <2>2 DEF Settle
    <3> QED
      BY <3>1, Zenon DEF Apply, cardVars
  <2>3. ASSUME NEW i \in Handlers, NEW heard \in BOOLEAN, ForceFail(i, heard)
        PROVE  asset' = asset
    BY <2>3 DEF ForceFail
  <2>4. ASSUME NEW i \in Handlers, StillWorking(i)
        PROVE  asset' = asset
    BY <2>4 DEF StillWorking
  <2>5. ASSUME NEW i \in Handlers, Ingest(i)
        PROVE  asset => asset'
    BY <2>5, Zenon DEF Ingest, Upsert
  <2> QED
    BY <2>1, <2>2, <2>3, <2>4, <2>5, CardSteps DEF cardVars
<1>k. tracked /\ ~tracked' => asset' \/ noInput \/ hf = "rejected"
  <2>1. CASE UNCHANGED agentVars
    BY <2>1 DEF agentVars
  <2>2. ASSUME NEW i \in Handlers, NEW heard \in BOOLEAN, AnchorHandled(i, heard)
        PROVE  tracked' = tracked
    BY <2>2 DEF AnchorHandled
  <2>3. ASSUME NEW i \in Handlers, NEW heard \in BOOLEAN, Settle(i, heard)
        PROVE  tracked /\ ~tracked' => asset' \/ hf = "rejected"
    <3>1. CASE call[i].saw = "result"
      <4>1. tracked /\ ~tracked' => Settled(Verdict(i))
        BY <2>3, Zenon DEF Settle
      <4>2. Verdict(i) = "done"
        BY <3>1 DEF Verdict
      <4> QED
        BY <4>1, <4>2 DEF Settled
    <3>2. CASE call[i].saw = "rejected"
      BY <3>2 DEF CallsAreTrue
    <3> QED
      BY <2>3, <3>1, <3>2 DEF Settle
  <2>4. ASSUME NEW i \in Handlers, NEW heard \in BOOLEAN, ForceFail(i, heard)
        PROVE  noInput
    BY <2>4 DEF ForceFail, CallsAreTrue
  <2>5. ASSUME NEW i \in Handlers,
               \/ SendAnchor(i) \/ Poll(i) \/ Reconcile(i)
               \/ \E full \in BOOLEAN : Push(i, full)
               \/ StillWorking(i) \/ Diff(i) \/ Ingest(i)
        PROVE  UNCHANGED agentVars
    BY <2>5 DEF SendAnchor, Poll, Reconcile, Push, Send, StillWorking, Diff, Ingest
  <2>6. UNCHANGED vars \/ Provider => UNCHANGED agentVars
    BY DEF vars, Provider, ProviderMoves
  <2> QED
    BY <2>1, <2>2, <2>3, <2>4, <2>5, <2>6 DEF Next, Handle, Report
<1> QED
  BY <1>p, <1>a, <1>k DEF StopIsEarned

(* The invariants hold in every reachable state.                           *)
LEMMA ResultInvariant == Spec => [](ResultTypeOK /\ ResultInv)
<1>1. Init => ResultInv
  BY DEF Init, None, ResultInv, CallsAreTrue, DoneIsEarned, BarIsEarned, StopIsEarned
<1>2. ResultTypeOK /\ ResultInv /\ [Next]_vars => ResultInv'
  BY TrueCallsStep, EarnedStep, StopStep DEF ResultInv
<1> QED
  BY <1>1, <1>2, TypeCorrect, PTL DEF Spec

(* A card closed without its result is not given up: its agent goes on     *)
(* tracking the job, whatever list closed it and whichever PC reported     *)
(* since (EmptyStaysTracked).                                              *)
THEOREM EmptyStaysTrackedTheorem == Spec => []EmptyStaysTracked
<1>1. ResultInv => EmptyStaysTracked
  BY DEF ResultInv, DoneIsEarned, StopIsEarned, Succeeded, EmptyStaysTracked
<1> QED
  BY <1>1, ResultInvariant, PTL

-----------------------------------------------------------------------------
(* No step but the arrival of a list closes a card on an empty success     *)
(* (OnlyListsCloseEmpty).                                                  *)
THEOREM OnlyListsCloseEmptyTheorem == Spec => OnlyListsCloseEmpty
<1> DEFINE Closes == card' = "done" /\ ~asset'
           Excused == /\ ~asset
                      /\ \/ card = "done"
                         \/ \E i \in Handlers : /\ call[i].op = "ingest"
                                                /\ call[i].saw = "completed"
                                                /\ Answered(i)
<1>1. ASSUME ResultTypeOK, [Next]_vars, Closes
      PROVE  Excused
  <2>1. CASE UNCHANGED cardVars
    BY <1>1, <2>1 DEF cardVars
  <2>2. ASSUME NEW i \in Handlers, NEW heard \in BOOLEAN, AnchorHandled(i, heard)
        PROVE  card = "done" /\ ~asset
    BY <1>1, <2>2 DEF AnchorHandled, Anchor, cardVars
  <2>3. ASSUME NEW i \in Handlers, NEW heard \in BOOLEAN, Settle(i, heard)
        PROVE  card = "done" /\ ~asset
    <3>1. Apply(Verdict(i))
      BY <2>3 DEF Settle
    <3>2. \/ card' = card /\ asset' = asset
          \/ card' = Verdict(i) /\ asset' = (asset \/ Verdict(i) = "done")
      BY <3>1, Zenon DEF Apply, cardVars
    <3>3. CASE card' = card /\ asset' = asset
      BY <1>1, <3>3
    <3>4. CASE card' = Verdict(i) /\ asset' = (asset \/ Verdict(i) = "done")
      BY <1>1, <3>4, Zenon
    <3> QED
      BY <3>2, <3>3, <3>4
  <2>4. ASSUME NEW i \in Handlers, NEW heard \in BOOLEAN, ForceFail(i, heard)
        PROVE  card = "done" /\ ~asset
    BY <1>1, <2>4 DEF ForceFail
  <2>5. ASSUME NEW i \in Handlers, StillWorking(i)
        PROVE  card = "done" /\ ~asset
    BY <1>1, <2>5 DEF StillWorking, Resumed
  <2>6. ASSUME NEW i \in Handlers, Ingest(i)
        PROVE  Excused
    <3>1. call[i].saw \in {"processing", "completed", "result", "rejected"}
      BY <1>1, CallTypes DEF ResultTypeOK, CallType
    <3>2. /\ Answered(i) /\ call[i].op = "ingest" /\ Upsert(call[i].saw)
      BY <2>6 DEF Ingest
    <3>3. CASE copy # "none" \/ ~anchored \/ barred
      BY <1>1, <3>2, <3>3 DEF Upsert
    <3>4. CASE ~(copy # "none" \/ ~anchored \/ barred)
      <4>1. Synced(call[i].saw) = "done" /\ call[i].saw # "result"
        BY <1>1, <3>2, <3>4, Zenon DEF Upsert
      <4>2. call[i].saw = "completed"
        BY <3>1, <4>1 DEF Synced
      <4>3. ~asset
        BY <1>1, <3>2, <3>4, Zenon DEF Upsert
      <4> QED
        BY <3>2, <4>2, <4>3
    <3> QED
      BY <3>3, <3>4
  <2> QED
    BY <1>1, <2>1, <2>2, <2>3, <2>4, <2>5, <2>6, CardSteps
<1>2. ResultTypeOK /\ [Next]_vars =>
        [card' = "done" /\ ~asset' =>
           /\ ~asset
           /\ \/ card = "done"
              \/ \E i \in Handlers : /\ call[i].op = "ingest" /\ call[i].saw = "completed"
                                     /\ Answered(i)]_vars
  BY <1>1
<1> QED
  BY <1>2, TypeCorrect, PTL DEF Spec, OnlyListsCloseEmpty

-----------------------------------------------------------------------------
(* Once nothing older than the refusal is on its way, no step but another  *)
(* refusal speaks of the card, and no new anchor or report is sent.        *)
LEMMA NothingLateStep ==
  ASSUME ResultTypeOK, BarIsEarned, barred, NothingLate, [Next]_vars
  PROVE  NothingLate'
<1>t. call \in [Handlers -> CallType]
  BY DEF ResultTypeOK, CallType
<1>b. card = "failed" /\ noInput /\ Succeeded
  BY DEF ResultTypeOK, BarIsEarned
<1>k. ASSUME ~outbox',
             \A k \in Handlers : \/ call'[k].op = call[k].op
                                 \/ call'[k].op \notin {"anchor", "report"}
      PROVE  NothingLate'
  BY <1>k DEF NothingLate
<1>o. ~outbox'
  <2>1. ASSUME NEW i \in Handlers, NEW heard \in BOOLEAN, AnchorHandled(i, heard)
        PROVE  FALSE
    BY <2>1 DEF AnchorHandled, NothingLate
  <2>2. ASSUME NEW i \in Handlers, NEW heard \in BOOLEAN,
               Settle(i, heard) \/ ForceFail(i, heard)
        PROVE  outbox' = outbox
    BY <2>2 DEF Settle, ForceFail
  <2>3. ASSUME NEW i \in Handlers,
               \/ SendAnchor(i) \/ Poll(i) \/ Reconcile(i)
               \/ \E full \in BOOLEAN : Push(i, full)
               \/ StillWorking(i) \/ Diff(i) \/ Ingest(i)
        PROVE  outbox' = outbox
    BY <2>3 DEF SendAnchor, Poll, Reconcile, Push, Send, StillWorking, Diff, Ingest, agentVars
  <2>4. UNCHANGED vars \/ Provider => outbox' = outbox
    BY DEF vars, Provider, ProviderMoves, agentVars
  <2> QED
    BY <2>1, <2>2, <2>3, <2>4 DEF NothingLate, Next, Handle, Report
<1>1. CASE UNCHANGED call
  BY <1>1, <1>o, <1>k
<1>2. ASSUME NEW i \in Handlers, Answered(i)
      PROVE  NothingLate'
  BY <1>2, <1>t, <1>o, <1>k, CallOps DEF None
<1>3. ASSUME NEW i \in Handlers, Diff(i)
      PROVE  NothingLate'
  BY <1>3, <1>t, <1>o, <1>k, CallOps DEF None
<1>4. ASSUME NEW i \in Handlers, NEW op, NEW saw, Send(i, op, saw),
             op \notin {"anchor", "report"}
      PROVE  NothingLate'
  <2>1. \A k \in Handlers : call'[k] = IF k = i THEN [op |-> op, saw |-> saw] ELSE call[k]
    BY <1>4, <1>t, CallOps
  <2> QED
    BY <2>1, <1>4, <1>o, <1>k
<1>5. ASSUME NEW i \in Handlers, SendAnchor(i) \/ Poll(i) \/ Reconcile(i)
      PROVE  NothingLate'
  <2>1. ~SendAnchor(i)
    BY DEF SendAnchor, NothingLate
  <2>2. ~Reconcile(i)
    BY <1>b DEF Reconcile, MayReconcile
  <2>3. Poll(i) => Send(i, "force", hf)
    BY <1>b DEF Poll
  <2> QED
    BY <1>4, <1>5, <2>1, <2>2, <2>3
<1>6. ASSUME NEW i \in Handlers, NEW full \in BOOLEAN, Push(i, full)
      PROVE  NothingLate'
  BY <1>4, <1>6 DEF Push
<1> QED
  BY <1>1, <1>2, <1>3, <1>5, <1>6, CallSteps

LEMMA BarStaysStep ==
  ASSUME ResultTypeOK, barred, NothingLate, [Next]_vars
  PROVE  barred' /\ card' = "failed"
<1>b. card = "failed"
  BY DEF ResultTypeOK
<1>1. CASE UNCHANGED cardVars
  BY <1>1, <1>b DEF cardVars
<1>2. ASSUME NEW i \in Handlers, NEW heard \in BOOLEAN,
             AnchorHandled(i, heard) \/ Settle(i, heard) \/ StillWorking(i)
      PROVE  FALSE
  BY <1>2 DEF AnchorHandled, Settle, StillWorking, NothingLate
<1>3. ASSUME NEW i \in Handlers, NEW heard \in BOOLEAN, ForceFail(i, heard)
      PROVE  barred' /\ card' = "failed"
  BY <1>3, <1>b DEF ForceFail
<1>4. ASSUME NEW i \in Handlers, Ingest(i)
      PROVE  barred' /\ card' = "failed"
  BY <1>4, <1>b DEF Ingest, Upsert
<1> QED
  BY <1>1, <1>2, <1>3, <1>4, CardSteps

(* A refused card on which nothing older than the refusal is still to      *)
(* arrive stays failed and marked for good, whatever lists are pushed and  *)
(* however often any PC's passes come round (RefusalIsFinal).              *)
THEOREM RefusalIsFinalTheorem == Spec => RefusalIsFinal
<1>1. ResultTypeOK /\ ResultInv /\ [Next]_vars =>
        [barred /\ NothingLate => (barred /\ card = "failed" /\ NothingLate)']_vars
  BY NothingLateStep, BarStaysStep DEF ResultInv
<1> QED
  BY <1>1, ResultInvariant, PTL DEF Spec, RefusalIsFinal
=============================================================================
