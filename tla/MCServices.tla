----------------------------- MODULE MCServices -----------------------------
(***************************************************************************)
(* Small instances of services that share no state and do not call each    *)
(* other.  A behaviour follows one of them, chosen at the start; what      *)
(* another one could start with is then left at one value.                 *)
(***************************************************************************)
EXTENDS UpdateGate, TelemetryDrain, AgentSignals, McpBroker, TrashTransfer, CardTrash

VARIABLE part     \* the service that is followed

servicesVars == <<part, vars, telVars, sigVars, mcpVars, ttVars, ctVars>>

ServicesTypeOK ==
  GateTypeOK /\ TelTypeOK /\ SigTypeOK /\ McpTypeOK /\ TtTypeOK /\ CardTypeOK

ServicesInit ==
  /\ Init /\ TelInit /\ SigInit /\ McpInit /\ TtInit /\ CtInit
  /\ part \in {"gate", "telemetry", "signals", "broker", "transfer", "trash"}
  /\ part # "telemetry" => telRow.pushed
  /\ part # "signals" => sigHub
  /\ part # "transfer" => \A c \in TtCards : ttMain[c] = 0

Gate ==
  part = "gate" /\ Next /\ UNCHANGED <<part, telVars, sigVars, mcpVars, ttVars, ctVars>>
Telemetry ==
  part = "telemetry" /\ TelNext /\ UNCHANGED <<part, vars, sigVars, mcpVars, ttVars, ctVars>>
Signals ==
  part = "signals" /\ SigNext /\ UNCHANGED <<part, vars, telVars, mcpVars, ttVars, ctVars>>
Broker ==
  part = "broker" /\ McpNext /\ UNCHANGED <<part, vars, telVars, sigVars, ttVars, ctVars>>
Transfers ==
  part = "transfer" /\ TtNext /\ UNCHANGED <<part, vars, telVars, sigVars, mcpVars, ctVars>>
Cards ==
  part = "trash" /\ CtNext /\ UNCHANGED <<part, vars, telVars, sigVars, mcpVars, ttVars>>

ServicesNext == Gate \/ Telemetry \/ Signals \/ Broker \/ Transfers \/ Cards

(* TelFairness, where telemetry is followed, and ReportFairness, where the *)
(* trash is.                                                               *)
ServicesFairness ==
  /\ WF_telVars(part = "telemetry" /\ DrainStep)
  /\ WF_telVars(part = "telemetry" /\ BackoffEnds)
  /\ WF_telVars(part = "telemetry" /\ Schedule)
  /\ WF_telVars(part = "telemetry" /\ \E c \in telCalls : c.awaited /\ ServerTakes(c))
  /\ WF_ctVars(part = "trash" /\ \E heard \in BOOLEAN : ReportEnded(heard))

ServicesSpec == ServicesInit /\ [][ServicesNext]_servicesVars /\ ServicesFairness
=============================================================================
