---------------------------- MODULE MCShareIntent ----------------------------
(***************************************************************************)
(* Small instances of ShareIntent, and of DatabaseSwap, whose database the *)
(* intents are kept in.  A behaviour follows one of the two, chosen at the *)
(* start; the other stays as it started, at one value.                     *)
(***************************************************************************)
EXTENDS ShareIntent, DatabaseSwap

VARIABLE part     \* the module that is followed

shareVars == <<part, vars, dbVars>>

Both == {TRUE, FALSE}

\* A finalize of a private card is the composite: publish, then finalize.
ShareKinds == {"publish", "unpublish", "finalize"}

ShareAndSwapTypeOK == ShareTypeOK /\ SwapTypeOK

ShareAndSwapInit ==
    /\ Init /\ SwapInit
    /\ part \in {"share", "swap"}
    /\ part = "share" => dbPointer = NoAccount
    /\ part = "swap" => modern /\ srv = "private"

Share == part = "share" /\ Next /\ UNCHANGED <<part, dbVars>>
Swap == part = "swap" /\ SwapNext /\ UNCHANGED <<part, vars>>

\* ShareFairness and SwapFairness.
ShareAndSwapFairness ==
    /\ WF_vars(part = "share" /\ RouteNext) /\ WF_vars(part = "share" /\ WorkerNext)
    /\ WF_vars(part = "share" /\ LeaseExpires) /\ WF_vars(part = "share" /\ WatchEnds)
    /\ WF_dbVars(part = "swap" /\ \E r \in Restores : RestoreStep(r))
    /\ \A x \in Workers : WF_dbVars(part = "swap" /\ EnterInner(x))

ShareAndSwapSpec ==
    ShareAndSwapInit /\ [][Share \/ Swap]_shareVars /\ ShareAndSwapFairness

=============================================================================
