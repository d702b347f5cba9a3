---------------------------- MODULE AgentSignals ----------------------------
(***************************************************************************)
(* The long poll that wakes an agent (services/agent_signals.py).  Routes  *)
(* post a reason for an account; a waiter of that account takes every      *)
(* reason posted so far.  One asyncio event per account carries the        *)
(* wake-up and a set carries the reasons, and they are read and written    *)
(* apart: a waiter resumes some time after the event was set, another      *)
(* waiter of the account may come in between, its wait may time out at     *)
(* that very moment, and a route that runs in a thread posts through the   *)
(* loop.  One account is modelled; accounts share nothing.                 *)
(***************************************************************************)
EXTENDS FiniteSets, Integers

CONSTANTS
  Reasons,    \* reasons a signal can have
  Waiters,    \* long polls of the account that may be open at once
  MaxSignals  \* bound: signals posted

ASSUME SignalAssumption == IsFiniteSet(Waiters) /\ MaxSignals \in Nat

VARIABLES
  sigHub,     \* the hub, whose lifespan binds its loop before it serves
  sigLoop,    \* a loop is bound
  sigPosted,  \* reasons on their way from a thread to the loop
  sigBare,    \* reasons about to be kept by a thread that found no loop
  sigReasons, \* _reasons of the account
  sigSet,     \* the event is set
  sigWaiter,  \* where a long poll is: "away", "waiting", "woken"
  sigMissing, \* history: reasons posted that no poll came back with since
  sigCount

sigVars == <<sigHub, sigLoop, sigPosted, sigBare, sigReasons, sigSet, sigWaiter,
             sigMissing, sigCount>>

SigTypeOK ==
  /\ sigHub \in BOOLEAN /\ sigLoop \in BOOLEAN
  /\ sigPosted \subseteq Reasons /\ sigBare \subseteq Reasons
  /\ sigReasons \subseteq Reasons
  /\ sigSet \in BOOLEAN
  /\ sigWaiter \in [Waiters -> {"away", "waiting", "woken"}]
  /\ sigMissing \subseteq Reasons
  /\ sigCount \in 0..MaxSignals

(* The lifespan binds its loop first; embedded, the first wait binds it.   *)
SigInit ==
  /\ sigHub \in BOOLEAN
  /\ sigLoop = sigHub
  /\ sigPosted = {} /\ sigBare = {}
  /\ sigReasons = {}
  /\ sigSet = FALSE
  /\ sigWaiter = [w \in Waiters |-> "away"]
  /\ sigMissing = {}
  /\ sigCount = 0

-----------------------------------------------------------------------------
(* Event.set resolves the future of everybody who waits.                   *)
EventSet ==
  /\ sigSet' = TRUE
  /\ sigWaiter' = [w \in Waiters |-> IF sigWaiter[w] = "waiting" THEN "woken"
                                                                 ELSE sigWaiter[w]]

Count(r) ==
  /\ sigCount < MaxSignals
  /\ sigCount' = sigCount + 1
  /\ sigMissing' = sigMissing \cup {r}

(* signal on the loop: the reason, then the event, with no await between.  *)
SignalOnLoop(r) ==
  /\ sigLoop
  /\ Count(r)
  /\ sigReasons' = sigReasons \cup {r}
  /\ EventSet
  /\ UNCHANGED <<sigHub, sigLoop, sigPosted, sigBare>>

(* signal from a thread: posted to the loop, or, when it saw no loop, kept *)
(* as a reason without the event.                                          *)
SignalFromThread(r) ==
  /\ Count(r)
  /\ IF sigLoop THEN sigPosted' = sigPosted \cup {r} /\ UNCHANGED sigBare
                ELSE sigBare' = sigBare \cup {r} /\ UNCHANGED sigPosted
  /\ UNCHANGED <<sigHub, sigLoop, sigReasons, sigSet, sigWaiter>>

ReasonKept(r) ==
  /\ r \in sigBare
  /\ sigBare' = sigBare \ {r}
  /\ sigReasons' = sigReasons \cup {r}
  /\ UNCHANGED <<sigHub, sigLoop, sigPosted, sigSet, sigWaiter, sigMissing,
                 sigCount>>

(* Mutant: a reason that arrives replaces the ones that wait.              *)
PostedRuns_OnlyReason(r) ==
  /\ r \in sigPosted
  /\ sigPosted' = sigPosted \ {r}
  /\ sigReasons' = {r}
  /\ EventSet
  /\ UNCHANGED <<sigHub, sigLoop, sigBare, sigMissing, sigCount>>

PostedRuns(r) ==
  /\ r \in sigPosted
  /\ sigPosted' = sigPosted \ {r}
  /\ sigReasons' = sigReasons \cup {r}
  /\ EventSet
  /\ UNCHANGED <<sigHub, sigLoop, sigBare, sigMissing, sigCount>>

-----------------------------------------------------------------------------
(* What a poll comes back with: the event is cleared and the reasons are   *)
(* taken.  Nothing left: it comes back as if its time were up.             *)
TakeReasons ==
  /\ sigSet' = FALSE
  /\ sigReasons' = {}
  /\ sigMissing' = (sigMissing \ sigReasons) \cup (sigMissing \cap (sigPosted \cup sigBare))

(* wait: reasons that are there set the event, and on an event that is set *)
(* the poll does not sleep (whether asyncio still suspends it for a moment *)
(* depends on the Python version).                                         *)
WaitFindsReasons(w) ==
  /\ sigWaiter[w] = "away"
  /\ sigSet \/ sigReasons # {}
  /\ sigLoop' = TRUE
  /\ \E at \in {"away", "woken"} :
       sigWaiter' = [v \in Waiters |-> IF v = w THEN at
                                      ELSE IF sigWaiter[v] = "waiting" THEN "woken"
                                      ELSE sigWaiter[v]]
  /\ IF sigWaiter'[w] = "away"
       THEN TakeReasons
       ELSE sigSet' = TRUE /\ UNCHANGED <<sigReasons, sigMissing>>
  /\ UNCHANGED <<sigHub, sigPosted, sigBare, sigCount>>

WaitBegins(w) ==
  /\ sigWaiter[w] = "away"
  /\ ~sigSet /\ sigReasons = {}
  /\ sigLoop' = TRUE
  /\ sigWaiter' = [sigWaiter EXCEPT ![w] = "waiting"]
  /\ UNCHANGED <<sigHub, sigPosted, sigBare, sigReasons, sigSet, sigMissing,
                 sigCount>>

WaitResumes(w) ==
  /\ sigWaiter[w] = "woken"
  /\ sigWaiter' = [sigWaiter EXCEPT ![w] = "away"]
  /\ TakeReasons
  /\ UNCHANGED <<sigHub, sigLoop, sigPosted, sigBare, sigCount>>

(* The wait is over, even one that was woken a moment ago: it takes        *)
(* nothing and clears nothing.                                             *)
WaitTimesOut(w) ==
  /\ sigWaiter[w] # "away"
  /\ sigWaiter' = [sigWaiter EXCEPT ![w] = "away"]
  /\ UNCHANGED <<sigHub, sigLoop, sigPosted, sigBare, sigReasons, sigSet,
                 sigMissing, sigCount>>

-----------------------------------------------------------------------------
PollStep(w) == WaitFindsReasons(w) \/ WaitBegins(w) \/ WaitResumes(w)

SigNext ==
  \/ \E r \in Reasons :
       SignalOnLoop(r) \/ SignalFromThread(r) \/ PostedRuns(r) \/ ReasonKept(r)
  \/ \E w \in Waiters : PollStep(w) \/ WaitTimesOut(w)

SigSpec == SigInit /\ [][SigNext]_sigVars

-----------------------------------------------------------------------------
(* Properties.                                                             *)

(* A reason is never dropped: one that was posted and that no poll came    *)
(* back with is still on its way or pending (_reasons "유실되던 문제       *)
(* 방지").                                                                 *)
ReasonIsKept == sigMissing \subseteq sigPosted \cup sigBare \cup sigReasons

(* On the hub, reasons do not lie about while polls sleep: with reasons    *)
(* pending, every poll that is open has been woken, however polls of the   *)
(* account come, go and time out (signal, wait).                           *)
NobodySleepsOnReasons ==
  sigHub /\ sigReasons # {} => \A w \in Waiters : sigWaiter[w] # "waiting"

(* Together: what was posted and heard by nobody will be heard by the next *)
(* poll that looks, and nobody sleeps past it (signal, wait).              *)
NoReasonIsLost == ReasonIsKept /\ NobodySleepsOnReasons
=============================================================================
