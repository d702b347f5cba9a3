----------------------------- MODULE McpBroker -----------------------------
(***************************************************************************)
(* The mailbox between an MCP client and the one browser tab that acts for *)
(* it (services/mcp_broker.py): the client posts requests and asks for     *)
(* results, the tab polls for the next request and replies.  The waiting   *)
(* coroutines share one event, which is replaced at every wake-up; a       *)
(* request lives for two minutes, whoever works on it, and the pairing     *)
(* ends when the tab was not heard of for 45 seconds.                      *)
(***************************************************************************)
EXTENDS Integers, FiniteSets, FiniteSetsExt

CONSTANTS
  Secrets,      \* MCP clients
  Tabs,         \* browser tabs
  NoTab,        \* a client that is not paired
  Polls,        \* polls of a tab the hub may be serving at once
  MaxRequests,  \* bound: requests posted
  MaxActive,    \* requests that may be open at once (8 in the code)
  MaxKept       \* requests kept (32 in the code)

ASSUME McpAssumption ==
  /\ NoTab \notin Tabs
  /\ MaxRequests \in Nat
  /\ MaxActive \in Nat \ {0}
  /\ MaxKept \in Nat /\ MaxActive <= MaxKept

VARIABLES
  mcpClient,  \* client: its secret, its tab, and whether it was seen lately
  mcpState,   \* state of each request; "gone" when it is dropped
  mcpFresh,   \* requests younger than their time to live
  mcpPoll,    \* polls of the tab
  mcpAsk      \* the client's wait for a result

mcpVars == <<mcpClient, mcpState, mcpFresh, mcpPoll, mcpAsk>>

Ids == 1..MaxRequests
NoClient == [secret |-> "none", tab |-> NoTab, live |-> FALSE]
NoPoll == [at |-> "off", tab |-> NoTab, missed |-> FALSE]
NoAsk == [at |-> "off", id |-> 0]

McpTypeOK ==
  /\ mcpClient \in [secret : Secrets \cup {"none"}, tab : Tabs \cup {NoTab}, live : BOOLEAN]
  /\ mcpState \in [Ids -> {"new", "queued", "running", "done", "gone"}]
  /\ mcpFresh \subseteq Ids
  /\ mcpPoll \in [Polls -> [at : {"off", "asleep", "awake"}, tab : Tabs \cup {NoTab},
                            missed : BOOLEAN]]
  /\ mcpAsk \in [at : {"off", "asleep", "awake"}, id : Ids \cup {0}]

McpInit ==
  /\ mcpClient = NoClient
  /\ mcpState = [i \in Ids |-> "new"]
  /\ mcpFresh = {}
  /\ mcpPoll = [p \in Polls |-> NoPoll]
  /\ mcpAsk = NoAsk

-----------------------------------------------------------------------------
Kept == {i \in Ids : mcpState[i] \in {"queued", "running", "done"}}
Open == {i \in Kept \cap mcpFresh : mcpState[i] # "done"}
Running == {i \in mcpFresh : mcpState[i] = "running"}
Queued == {i \in mcpFresh : mcpState[i] = "queued"}
Dispatchable == Running = {} /\ Queued # {}

MayAct(t) == mcpClient.live /\ mcpClient.tab = t       \* app_guard
MayAsk(s) == mcpClient.secret = s /\ mcpClient.live /\ mcpClient.tab # NoTab

Forget == mcpState' = [i \in Ids |-> IF i \in Kept THEN "gone" ELSE mcpState[i]]

(* _wake: everybody who waits on the event looks again.                    *)
Woken(x) == IF x.at = "asleep" THEN [x EXCEPT !.at = "awake"] ELSE x
Wake == /\ mcpPoll' = [p \in Polls |-> Woken(mcpPoll[p])]
        /\ mcpAsk' = Woken(mcpAsk)

-----------------------------------------------------------------------------
(* connect, by a client that finds no live one; pair; close.               *)
Connect(s) ==
  /\ ~mcpClient.live
  /\ mcpClient' = [secret |-> s, tab |-> NoTab, live |-> TRUE]
  /\ Forget
  /\ Wake
  /\ UNCHANGED mcpFresh

Pair(t) ==
  /\ mcpClient.live
  /\ mcpClient.tab \in {NoTab, t}
  /\ mcpClient' = [mcpClient EXCEPT !.tab = t]
  /\ Wake
  /\ UNCHANGED <<mcpState, mcpFresh>>

Close(t) ==
  /\ MayAct(t)
  /\ mcpClient' = NoClient
  /\ Forget
  /\ Wake
  /\ UNCHANGED mcpFresh

(* Nothing was heard of the tab for its time to live.  A poll is shorter   *)
(* than that.                                                              *)
ClientUnseen ==
  /\ mcpClient.live
  /\ \A p \in Polls : mcpPoll[p].at # "off" => mcpPoll[p].tab # mcpClient.tab
  /\ mcpClient' = [mcpClient EXCEPT !.live = FALSE]
  /\ UNCHANGED <<mcpState, mcpFresh, mcpPoll, mcpAsk>>

-----------------------------------------------------------------------------
(* enqueue: what is too old goes, there is room for an open request, and   *)
(* the oldest answers make room for it among those that are kept.          *)
Enqueue(s) ==
  /\ MayAsk(s)
  /\ Cardinality(Open) < MaxActive
  /\ \E i \in Ids :
       /\ mcpState[i] = "new" /\ \A j \in Ids : j < i => mcpState[j] # "new"
       /\ LET young == Kept \cap mcpFresh
              full == Cardinality(young) >= MaxKept
              oldest == Min({j \in young : mcpState[j] = "done"})
          IN mcpState' = [j \in Ids |->
                            IF j = i THEN "queued"
                            ELSE IF j \in Kept \ young THEN "gone"
                            ELSE IF full /\ j = oldest THEN "gone"
                            ELSE mcpState[j]]
       /\ mcpFresh' = mcpFresh \cup {i}
  /\ Wake
  /\ UNCHANGED mcpClient

(* Two minutes have gone by; nobody is woken for it.                       *)
RequestAges(i) ==
  /\ i \in mcpFresh
  /\ \A j \in mcpFresh : i <= j
  /\ mcpFresh' = mcpFresh \ {i}
  /\ mcpPoll' = [p \in Polls |->
                   IF mcpState[i] = "running" /\ mcpPoll[p].at = "asleep"
                     THEN [mcpPoll[p] EXCEPT !.missed = TRUE] ELSE mcpPoll[p]]
  /\ UNCHANGED <<mcpClient, mcpState, mcpAsk>>

-----------------------------------------------------------------------------
(* next: a poll takes the first request when none is being worked on, or   *)
(* sleeps.                                                                 *)
Look(p, t) ==
  IF Dispatchable
    THEN /\ mcpState' = [mcpState EXCEPT ![Min(Queued)] = "running"]
         /\ mcpPoll' = [mcpPoll EXCEPT ![p] = NoPoll]
    ELSE /\ mcpPoll' = [mcpPoll EXCEPT ![p] = [at |-> "asleep", tab |-> t, missed |-> FALSE]]
         /\ UNCHANGED mcpState

PollBegins(p, t) ==
  /\ mcpPoll[p].at = "off"
  /\ MayAct(t)
  /\ Look(p, t)
  /\ UNCHANGED <<mcpClient, mcpFresh, mcpAsk>>

PollLooksAgain(p) ==
  /\ mcpPoll[p].at = "awake"
  /\ IF MayAct(mcpPoll[p].tab)
       THEN Look(p, mcpPoll[p].tab)
       ELSE mcpPoll' = [mcpPoll EXCEPT ![p] = NoPoll] /\ UNCHANGED mcpState
  /\ UNCHANGED <<mcpClient, mcpFresh, mcpAsk>>

PollTimesOut(p) ==
  /\ mcpPoll[p].at # "off"
  /\ mcpPoll' = [mcpPoll EXCEPT ![p] = NoPoll]
  /\ UNCHANGED <<mcpClient, mcpState, mcpFresh, mcpAsk>>

Replied(i) == mcpState' = [mcpState EXCEPT ![i] = "done"]

(* Mutant: nobody is told of the reply.                                    *)
Reply_Silent(t, i) ==
  /\ MayAct(t)
  /\ i \in Running
  /\ Replied(i)
  /\ UNCHANGED <<mcpClient, mcpFresh, mcpPoll, mcpAsk>>

Reply(t, i) ==
  /\ MayAct(t)
  /\ i \in Running
  /\ Replied(i)
  /\ Wake
  /\ UNCHANGED <<mcpClient, mcpFresh>>

-----------------------------------------------------------------------------
(* result: the client waits until its request is answered.                 *)
AskLooks(i) ==
  mcpAsk' = IF i \in Kept \cap mcpFresh /\ mcpState[i] # "done"
              THEN [at |-> "asleep", id |-> i] ELSE NoAsk

AskBegins(s, i) ==
  /\ mcpAsk.at = "off"
  /\ MayAsk(s)
  /\ mcpState[i] # "new"
  /\ AskLooks(i)
  /\ UNCHANGED <<mcpClient, mcpState, mcpFresh, mcpPoll>>

AskLooksAgain ==
  /\ mcpAsk.at = "awake"
  /\ IF \E s \in Secrets : MayAsk(s) THEN AskLooks(mcpAsk.id) ELSE mcpAsk' = NoAsk
  /\ UNCHANGED <<mcpClient, mcpState, mcpFresh, mcpPoll>>

AskTimesOut ==
  /\ mcpAsk.at # "off"
  /\ mcpAsk' = NoAsk
  /\ UNCHANGED <<mcpClient, mcpState, mcpFresh, mcpPoll>>

-----------------------------------------------------------------------------
McpNext ==
  \/ \E s \in Secrets : Connect(s) \/ Enqueue(s) \/ \E i \in Ids : AskBegins(s, i)
  \/ \E t \in Tabs : Pair(t) \/ Close(t) \/ \E i \in Ids : Reply(t, i)
  \/ \E p \in Polls :
       PollLooksAgain(p) \/ PollTimesOut(p) \/ \E t \in Tabs : PollBegins(p, t)
  \/ \E i \in Ids : RequestAges(i)
  \/ AskLooksAgain \/ AskTimesOut \/ ClientUnseen

McpSpec == McpInit /\ [][McpNext]_mcpVars

-----------------------------------------------------------------------------
(* Properties.                                                             *)

(* Nobody sleeps through what it waits for, although the event is replaced *)
(* at every wake-up: no poll while a request could be handed out, no       *)
(* client while its answer is there (_wake, next, result).  Only the end   *)
(* of a request that nobody answered goes unannounced; the poll notices    *)
(* when its time is up.                                                    *)
NobodySleepsOnWork ==
  /\ \A p \in Polls :
       mcpPoll[p].at = "asleep" /\ MayAct(mcpPoll[p].tab) /\ ~mcpPoll[p].missed =>
         ~Dispatchable
  /\ mcpAsk.at = "asleep" => mcpState[mcpAsk.id] # "done"
=============================================================================
