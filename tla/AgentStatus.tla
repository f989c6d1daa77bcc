---------------------------- MODULE AgentStatus ----------------------------
(***************************************************************************)
(* The state machine of the watchdog's registry entry for the primary      *)
(* agent: each operator is the effect on status.state of one method that   *)
(* AgentWatchdog runs under lock_.  "none" means that the registry has no  *)
(* entry.  Error texts, failure counts, device descriptions and init       *)
(* parameters are display data and are abstracted away.                    *)
(***************************************************************************)

AgentStates == {"none", "healthy", "disconnected", "initializing"}

Registered(s) == s # "none"

\* registerPrimaryAgent: a new entry starts disconnected, an existing entry
\* keeps its state.
RegisterPrimaryAgent(s) == IF Registered(s) THEN s ELSE "disconnected"

UnregisterPrimaryAgent(s) == "none"

\* The mark methods look the entry up again and ignore an unknown agent.
MarkAgent(s, state) == IF Registered(s) THEN state ELSE s
MarkAgentInitializing(s) == MarkAgent(s, "initializing")
MarkAgentHealthy(s) == MarkAgent(s, "healthy")

\* Faulty variant: a failed command is not marked.
DisconnectionNotMarked(s) == s
MarkAgentDisconnected(s) == MarkAgent(s, "disconnected")

\* checkAgent polls an agent unless it is being initialized.
NeedsCheck(s) == Registered(s) /\ s # "initializing"

\* Faulty variant: a successful check never starts the init procedure.
NeverStartsRecovery(s) == FALSE

\* handleCheckSuccess: a check that succeeds on a disconnected agent starts
\* the watchdog's own init procedure.
StartsRecovery(s) == s = "disconnected"
AfterCheckSuccess(s) == IF StartsRecovery(s) THEN "initializing" ELSE s

\* handleCheckFailure: only a healthy agent is degraded; an agent that is
\* being initialized is left to its initializer.
IsLoss(s) == s = "healthy"

\* Faulty variant: a failed check leaves the state alone.
FailureIgnored(s) == s

AfterCheckFailure(s) == IF IsLoss(s) THEN "disconnected" ELSE s

\* initDevice, last part: the outcome of the init procedure is written to
\* whatever entry is registered by then.
AfterInitDevice(s, success) ==
  MarkAgent(s, IF success THEN "healthy" ELSE "disconnected")
=============================================================================
