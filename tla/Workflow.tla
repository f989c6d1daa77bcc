------------------------------ MODULE Workflow ------------------------------
(***************************************************************************)
(* WorkflowController, the state machine behind the page, with what it     *)
(* talks to: the normal queue of AgentManagerProcess, and the one queue of *)
(* events of the user interface thread, through which the results of all   *)
(* commands (also of those the watchdog has sent) and the states of the    *)
(* watchdog come back.  Nothing tells the controller whose result it gets. *)
(*                                                                         *)
(* Worker and watchdog are reduced to what they tell the controller and in *)
(* which order; AgentSupervision has their interleavings.                  *)
(***************************************************************************)
EXTENDS AgentStatus, Integers, Sequences

CONSTANTS
  Commands,      \* the agent commands that the user gives
  MaxRequests,   \* bound: requests of the user
  MaxRefreshes,  \* bound: refreshes of the page
  MaxFlowFaults  \* bound: failed commands and losses of the glasses

ASSUME WorkflowAssumption ==
  /\ Commands \subseteq {"check", "init_device", "start_device", "stop_device",
                         "start_record", "stop_record"}
  /\ MaxRequests \in Nat /\ MaxRefreshes \in Nat /\ MaxFlowFaults \in Nat

VARIABLES
  flow,         \* the controller
  pagePending,  \* runtimeRequestPending_ of the page
  commands,     \* the normal queue of the worker
  events,       \* signals queued for the user interface thread
  system,       \* agent, device and watchdog
  starts,       \* start_device commands the present one-click flow has sent
  flowUsed      \* events used up

workflowVars == <<flow, pagePending, commands, events, system, starts, flowUsed>>

State == {"Idle", "AgentConnecting", "WaitingWatchdog", "DeviceInitializing",
          "WaitingStartDeviceResponse", "DeviceReady", "RecordingRequested",
          "Failed", "EmergencyStop"}
Manager == {"INIT_AGENT", "STOP_ALL_AGENTS", "EMERGENCY_STOP"}
Refresh == "get_bsp_runtime_state"
Sent == Commands \cup Manager \cup {Refresh, "start_device", "init_device"}

\* The flag isStarted_ of the device, with what has become of the glasses: it is
\* set for a device that is "lost", and a start is then only "claimed".
Device == {"stopped", "started", "lost", "claimed"}

Messages == {"none", "already_started", "reentry_detected"}

Event ==
  [kind : {"status"}, state : AgentStates] \cup
  [kind : {"result"}, cmd : Sent, ok : BOOLEAN, background : BOOLEAN,
   message : Messages]

WorkflowTypeOK ==
  /\ flow \in [state : State, active : BOOLEAN, dispatched : BOOLEAN,
               succeeded : BOOLEAN, seen : AgentStates, timer : BOOLEAN]
  /\ pagePending \in BOOLEAN
  /\ commands \in Seq(Sent)
  /\ events \in Seq(Event)
  /\ system \in [connected : BOOLEAN, device : Device, watchdog : AgentStates,
                 restore : BOOLEAN, job : {"none", "init_device", "start_device"}]
  /\ starts \in Nat
  /\ flowUsed \in [requests : 0..MaxRequests, refreshes : 0..MaxRefreshes,
               faults : 0..MaxFlowFaults]

WorkflowInit ==
  /\ flow = [state |-> "Idle", active |-> FALSE, dispatched |-> FALSE,
             succeeded |-> FALSE, seen |-> "none", timer |-> FALSE]
  /\ pagePending = FALSE
  /\ commands = <<>> /\ events = <<>>
  /\ system = [connected |-> FALSE, device |-> "stopped", watchdog |-> "none",
               restore |-> FALSE, job |-> "none"]
  /\ starts = 0
  /\ flowUsed = [requests |-> 0, refreshes |-> 0, faults |-> 0]

Started == system.device # "stopped"

---------------------------------------------------------------------------
(* Requests of the user                                                     *)

Arm(f) == [f EXCEPT !.timer = TRUE]
CancelTimer(f) == [f EXCEPT !.timer = FALSE]
To(f, state) == [f EXCEPT !.state = state]
\* What nearly every entry of the controller does to the one-click flow.
AbandonFlow(f) == [CancelTimer(f) EXCEPT !.active = FALSE, !.dispatched = FALSE]
NotSucceeded(f) == [f EXCEPT !.succeeded = FALSE]

CountRequest ==
  /\ flowUsed.requests < MaxRequests
  /\ flowUsed' = [flowUsed EXCEPT !.requests = @ + 1]

Busy == flow.active /\ flow.state \notin {"Failed", "EmergencyStop", "DeviceReady"}

\* CheckingConnection is passed through at once.
StartOneClick ==
  /\ ~Busy /\ ~flow.succeeded
  /\ CountRequest
  /\ flow' = [CancelTimer(flow) EXCEPT !.active = TRUE, !.dispatched = FALSE,
                                       !.state = "AgentConnecting"]
  /\ commands' = Append(commands, "INIT_AGENT")
  /\ starts' = 0
  /\ UNCHANGED <<pagePending, events, system>>

RequestConnect ==
  /\ CountRequest
  /\ flow' = To(AbandonFlow(flow), "AgentConnecting")
  /\ commands' = Append(commands, "INIT_AGENT")
  /\ UNCHANGED <<pagePending, events, system, starts>>

\* Where a command takes the controller before its result is there.
StateAfterRequest(cmd) ==
  CASE cmd = "init_device" -> "DeviceInitializing"
    [] cmd = "start_device" -> "WaitingStartDeviceResponse"
    [] cmd = "start_record" -> "RecordingRequested"
    [] cmd = "stop_record" -> "DeviceReady"
    [] OTHER -> flow.state

ExecuteCommand(cmd) ==
  /\ flow' = To(AbandonFlow(flow), StateAfterRequest(cmd))
  /\ commands' = Append(commands, cmd)

RequestExecuteCommand ==
  /\ CountRequest
  /\ \E cmd \in Commands : ExecuteCommand(cmd)
  /\ UNCHANGED <<pagePending, events, system, starts>>

RequestResetWorkflow ==
  /\ CountRequest
  /\ flow' = To(NotSucceeded(AbandonFlow(flow)), "Idle")
  /\ UNCHANGED <<pagePending, commands, events, system, starts>>

RequestStopAllAgents ==
  /\ CountRequest
  /\ flow' = NotSucceeded(AbandonFlow(flow))
  /\ commands' = Append(commands, "STOP_ALL_AGENTS")
  /\ UNCHANGED <<pagePending, events, system, starts>>

RequestEmergencyStop ==
  /\ CountRequest
  /\ flow' = To(NotSucceeded(AbandonFlow(flow)), "EmergencyStop")
  /\ commands' = Append(commands, "EMERGENCY_STOP")
  /\ UNCHANGED <<pagePending, events, system, starts>>

\* requestRuntimeState, by the timer of the page: an agent command like any
\* other, by which a flow that is under way is abandoned.
RequestRuntimeState ==
  /\ ~pagePending /\ flow.seen # "none"
  /\ flowUsed.refreshes < MaxRefreshes
  /\ flowUsed' = [flowUsed EXCEPT !.refreshes = @ + 1]
  /\ pagePending' = TRUE
  /\ ExecuteCommand(Refresh)
  /\ UNCHANGED <<events, system, starts>>

User ==
  \/ StartOneClick \/ RequestConnect \/ RequestExecuteCommand
  \/ RequestResetWorkflow \/ RequestStopAllAgents \/ RequestEmergencyStop
  \/ RequestRuntimeState

---------------------------------------------------------------------------
(* Answers                                                                  *)

Waits(f) == f.state \in {"WaitingWatchdog", "DeviceInitializing"}

\* Faulty variant: the flag that start_device has been sent is not looked at.
DispatchAgain(f) ==
  [f EXCEPT !.dispatched = TRUE, !.state = "WaitingStartDeviceResponse"]

\* dispatchOneClickStartDevice sends the command unless it has been sent.
Dispatch(f) ==
  IF f.dispatched THEN f
  ELSE [f EXCEPT !.dispatched = TRUE, !.state = "WaitingStartDeviceResponse"]

\* Faulty variant: the flow waits without a timer.
AfterConnectUntimed(f, ok) ==
  IF ~ok THEN To(AbandonFlow(f), "Failed")
  ELSE IF f.active
    THEN IF f.seen = "healthy" THEN Dispatch(f) ELSE To(f, "WaitingWatchdog")
  ELSE f

AfterConnect(f, ok) ==
  IF ~ok THEN To(AbandonFlow(f), "Failed")
  ELSE IF f.active
    THEN CASE f.seen = "healthy" -> Dispatch(f)
           [] f.seen = "initializing" -> To(Arm(f), "DeviceInitializing")
           [] OTHER -> To(Arm(f), "WaitingWatchdog")
  ELSE IF f.seen = "healthy" THEN To(CancelTimer(f), "DeviceReady") ELSE f

\* A start counts as the success of a flow that is under way, whoever sent it.
AfterStart(f) ==
  To(AbandonFlow([f EXCEPT !.succeeded = @ \/ f.active]), "DeviceReady")

\* A failed init of the watchdog is waited out: it will try again.
AfterFailure(f, r) ==
  IF r.background /\ r.cmd = "init_device" /\ f.active /\ Waits(f)
    THEN To(Arm(f), "WaitingWatchdog")
  ELSE IF r.cmd = "init_device" /\ r.message = "reentry_detected"
    THEN To(CancelTimer(f), "DeviceInitializing")
  ELSE To(AbandonFlow(f), "Failed")

AfterSuccess(f, cmd) ==
  CASE cmd = "init_device" -> IF f.active THEN To(Arm(f), "DeviceInitializing") ELSE f
    [] cmd = "start_device" -> AfterStart(f)
    [] cmd = "stop_device" -> NotSucceeded(f)
    [] cmd = "start_record" -> To(f, "RecordingRequested")
    [] cmd = "stop_record" -> To(f, "DeviceReady")
    [] OTHER -> f

\* The results of the checks of the watchdog are passed over here and left out.
AfterResult(f, r) ==
  CASE r.cmd = "INIT_AGENT" -> AfterConnect(f, r.ok)
    [] r.cmd = "STOP_ALL_AGENTS" -> To(f, IF r.ok THEN "EmergencyStop" ELSE "Failed")
    [] r.cmd = "EMERGENCY_STOP" -> To(AbandonFlow(f), "EmergencyStop")
    [] OTHER -> IF r.message = "already_started" THEN AfterStart(f)
                ELSE IF r.ok THEN AfterSuccess(f, r.cmd) ELSE AfterFailure(f, r)

AfterHealthy(f) ==
  IF f.active /\ Waits(f) THEN Dispatch(CancelTimer(f))
  ELSE IF f.state = "WaitingWatchdog" THEN To(CancelTimer(f), "DeviceReady")
  ELSE CancelTimer(f)

AfterInitializing(f) ==
  LET armed == IF f.active THEN Arm(NotSucceeded(f)) ELSE NotSucceeded(f)
  IN IF f.state \in {"WaitingWatchdog", "AgentConnecting"}
       THEN To(armed, "DeviceInitializing") ELSE armed

\* Faulty variant: the loss does not take the success back.
AfterLossForgotten(f) ==
  IF f.active /\ (Waits(f) \/ f.state = "AgentConnecting")
    THEN To(Arm(f), IF f.state = "DeviceInitializing" THEN "WaitingWatchdog" ELSE f.state)
  ELSE IF f.state \in {"Idle", "EmergencyStop"} THEN f
  ELSE To(f, "Failed")

\* A flow goes on waiting while the watchdog tries; a start that has been sent
\* is given up, though the flow stays active until its result is there.
AfterDisconnected(f) ==
  LET g == NotSucceeded(f) IN
  IF f.active /\ (Waits(f) \/ f.state = "AgentConnecting")
    THEN To(Arm(g), IF f.state = "DeviceInitializing" THEN "WaitingWatchdog" ELSE f.state)
  ELSE IF f.state \in {"Idle", "EmergencyStop"} THEN g
  ELSE To(g, "Failed")

AfterStatus(f, state) ==
  LET g == [f EXCEPT !.seen = state] IN
  CASE state = "healthy" -> AfterHealthy(g)
    [] state = "initializing" -> AfterInitializing(g)
    [] state = "disconnected" -> AfterDisconnected(g)
    [] OTHER -> g

\* The page refreshes after a result that has changed the device or its recording.
Refreshes(e) ==
  e.kind = "result" /\ e.cmd \in {"start_record", "stop_record", "start_device", "stop_device"}

\* Has the event taken the flow to its start?
Dispatches(g) ==
  g.state = "WaitingStartDeviceResponse" /\ flow.state # g.state

\* One event: first the controller, which may send the start of its flow, then
\* the page, which sends its refresh through the controller.
HandleEvent ==
  /\ events # <<>>
  /\ events' = Tail(events)
  /\ LET e == Head(events)
         g == IF e.kind = "status" THEN AfterStatus(flow, e.state) ELSE AfterResult(flow, e)
         sends == Dispatches(g)
         refreshes == Refreshes(e) /\ g.seen # "none"
     IN /\ flow' = IF refreshes THEN AbandonFlow(g) ELSE g
        /\ commands' = commands \o (IF sends THEN <<"start_device">> ELSE <<>>)
                                \o (IF refreshes THEN <<Refresh>> ELSE <<>>)
        /\ starts' = IF sends THEN starts + 1 ELSE starts
        /\ pagePending' = (refreshes \/
              (pagePending /\ ~(e.kind = "result" /\ e.cmd = Refresh)))
  /\ UNCHANGED <<system, flowUsed>>

\* 300 s without a word from the watchdog.
WatchdogWaitTimeout ==
  /\ flow.timer
  /\ flow' = IF flow.active /\ Waits(flow) THEN To(AbandonFlow(flow), "Failed")
             ELSE CancelTimer(flow)
  /\ UNCHANGED <<pagePending, commands, events, system, starts, flowUsed>>

---------------------------------------------------------------------------
(* Worker and watchdog                                                      *)

Status(s) == IF Registered(s) THEN <<[kind |-> "status", state |-> s]>> ELSE <<>>
Result(cmd, ok, background, message) ==
  <<[kind |-> "result", cmd |-> cmd, ok |-> ok, background |-> background,
     message |-> message]>>

CountFault(failed) ==
  /\ failed => flowUsed.faults < MaxFlowFaults
  /\ flowUsed' = IF failed THEN [flowUsed EXCEPT !.faults = @ + 1] ELSE flowUsed

\* A command with outcome ok: the system after it and what is told of it.
Connect(ok) ==
  LET s == IF ok THEN RegisterPrimaryAgent(system.watchdog) ELSE system.watchdog
  IN [system |-> [system EXCEPT !.connected = @ \/ ok, !.watchdog = s,
                                !.restore = @ \/ ok],
      events |-> IF ok THEN Status(s) ELSE <<>>]

InitDevice(ok) ==
  LET s == AfterInitDevice(system.watchdog, ok)
  IN [system |-> [system EXCEPT !.device = "stopped", !.watchdog = s],
      events |-> Status(MarkAgentInitializing(system.watchdog)) \o Status(s)]

\* A device whose flag is set is not started again.
StartDevice(ok) ==
  LET s == IF ok THEN MarkAgentHealthy(system.watchdog) ELSE system.watchdog
      device == CASE system.device = "lost" /\ ok -> "claimed"
                  [] system.device = "stopped" /\ ok -> "started"
                  [] OTHER -> system.device
  IN [system |-> [system EXCEPT !.device = device, !.watchdog = s,
                                !.restore = @ \/ ok],
      events |-> IF ok THEN Status(s) ELSE <<>>]

StopDevice(ok) ==
  LET s == IF ok THEN MarkAgentDisconnected(system.watchdog) ELSE system.watchdog
  IN [system |-> [system EXCEPT !.device = IF ok THEN "stopped" ELSE @, !.watchdog = s,
                                !.restore = @ /\ ~ok],
      events |-> IF ok THEN Status(s) ELSE <<>>]

\* The agents stay connected; what they stop is a recording.
StopAgents ==
  [system |-> [system EXCEPT !.watchdog = "none", !.restore = FALSE],
   events |-> IF Registered(system.watchdog) THEN <<[kind |-> "status", state |-> "none"]>>
              ELSE <<>>]

Unchanged == [system |-> system, events |-> <<>>]

Effect(cmd, ok) ==
  IF cmd \notin Manager /\ ~system.connected THEN Unchanged
  ELSE CASE cmd = "INIT_AGENT" -> Connect(ok)
         [] cmd \in {"STOP_ALL_AGENTS", "EMERGENCY_STOP"} -> StopAgents
         [] cmd = "init_device" -> InitDevice(ok)
         [] cmd = "start_device" -> StartDevice(ok)
         [] cmd = "stop_device" -> StopDevice(ok)
         [] OTHER -> Unchanged

\* What a command may answer: one to an agent that is not there fails, a start of a
\* device that is started is answered from its flag, by the query before it or, when
\* that fails, by the start itself.
Answers(cmd, ok, message) ==
  LET here == cmd \in Manager \/ system.connected
  IN /\ ok => here
     /\ cmd = "EMERGENCY_STOP" => ok
     /\ message = "already_started" <=> cmd = "start_device" /\ Started /\ ok
     /\ message = "reentry_detected" => cmd = "init_device" /\ here /\ ~ok
     /\ CountFault(here /\ ~ok)

\* processCommand
Process(cmd, background) ==
  \E ok \in BOOLEAN, message \in Messages :
    LET effect == Effect(cmd, ok)
    IN /\ Answers(cmd, ok, message)
       /\ system' = [effect.system EXCEPT !.job = "none"]
       /\ events' = events \o effect.events \o Result(cmd, ok, background, message)

\* The commands of the watchdog are urgent.
WorkerTakeNormal ==
  /\ system.job = "none" /\ commands # <<>>
  /\ commands' = Tail(commands)
  /\ Process(Head(commands), FALSE)
  /\ UNCHANGED <<flow, pagePending, starts>>

\* After an init that has succeeded the watchdog sends the start, if there is
\* one to restore; a start that fails counts as a failed recovery.
\* Its emergency stop is never sent with suppress_disconnect_dialog, which is set for
\* the primary agent (config/agents_config.json); AgentSupervision has it without.
WorkerTakeUrgent ==
  /\ system.job # "none"
  /\ \E ok \in BOOLEAN, message \in Messages :
       LET effect == Effect(system.job, ok)
           s == effect.system
           goesOn == system.job = "init_device" /\ ok /\ s.restore
           done == AfterInitDevice(s.watchdog, ok)
       IN /\ Answers(system.job, ok, message)
          /\ system' = IF goesOn THEN [s EXCEPT !.job = "start_device"]
                       ELSE [s EXCEPT !.job = "none", !.watchdog = done]
          /\ events' = events \o effect.events \o Result(system.job, ok, TRUE, message)
               \o (IF goesOn THEN <<>> ELSE Status(done))
  /\ UNCHANGED <<flow, pagePending, commands, starts>>

\* A check finds the glasses of a disconnected agent.
WatchdogRecovers ==
  /\ system.job = "none" /\ StartsRecovery(system.watchdog)
  /\ system' = [system EXCEPT !.watchdog = AfterCheckSuccess(@), !.job = "init_device"]
  /\ events' = events \o Status(system'.watchdog)
  /\ UNCHANGED <<flow, pagePending, commands, starts, flowUsed>>

\* The glasses are unplugged and a check notices it.
WatchdogLoses ==
  /\ system.job = "none" /\ IsLoss(system.watchdog)
  /\ CountFault(TRUE)
  /\ system' = [system EXCEPT !.watchdog = AfterCheckFailure(@),
                                 !.device = IF Started THEN "lost" ELSE @]
  /\ events' = events \o Status(system'.watchdog)
  /\ UNCHANGED <<flow, pagePending, commands, starts>>

Worker == WorkerTakeNormal \/ WorkerTakeUrgent

WorkflowNext == User \/ HandleEvent \/ WatchdogWaitTimeout \/ Worker
        \/ WatchdogRecovers \/ WatchdogLoses

WorkflowSpec == WorkflowInit /\ [][WorkflowNext]_workflowVars

\* The worker and the event loop run, and the timer of the flow fires.
FairWorkflow == WorkflowSpec /\ WF_workflowVars(Worker) /\ WF_workflowVars(HandleEvent)
                 /\ WF_workflowVars(WatchdogWaitTimeout)

---------------------------------------------------------------------------
(* Properties                                                               *)

\* A one-click flow sends start_device at most once, however often the watchdog
\* reports healthy and late answers take the state back to waiting.
StartIsSentOnce == starts <= 1

\* Once everything has been handled, a one-click start that is shown as done
\* means, for an agent under watch, that the device has been started and not
\* been lost since; or it was lost, and a start since then has been answered from
\* the flag that a loss does not clear.
SuccessIsTrue ==
  commands = <<>> /\ events = <<>> /\ system.job = "none"
    /\ flow.succeeded /\ Registered(system.watchdog)
  => system.device \in {"started", "claimed"}

\* Every one-click flow ends, by the start, a failure, another request or the
\* timer: none is left waiting without a timer.
OneClickEnds == flow.active ~> ~flow.active
=============================================================================
