------------------------- MODULE AgentSupervision -------------------------
(***************************************************************************)
(* Supervision of the primary agent: the AgentManagerProcess worker thread *)
(* with its urgent and normal command queues, the AgentWatchdog thread     *)
(* that polls the agent through synchronous urgent commands and recovers   *)
(* it, the user who queues commands, and the glasses that are unplugged    *)
(* and plugged back.                                                       *)
(*                                                                         *)
(* Only the primary agent is modelled.  Every step is what one thread does *)
(* between two points where another one can interfere.                     *)
(***************************************************************************)
EXTENDS Naturals, Sequences, FiniteSets, AgentStatus

CONSTANTS
  RequestIds,          \* request ids of sendCommandSync
  NoReq,               \* a command sent without request id
  UserOps,             \* the operations the user may queue
  SuppressDisconnect,  \* suppress_disconnect_dialog of the agent's config
  AutoStart,           \* shouldAutoStartAfterInit(primary agent)
  MaxUserCommands,     \* bound: commands the user queues
  MaxFaults,           \* bound: timeouts and spontaneous command failures
  MaxPlugs             \* bound: unplug and plug events

\* No subnode registers restart_device, which processLoop treats like start_device:
\* it always fails and marks nothing, and is left out.
AgentCommands == {"check", "init_device", "start_device", "stop_device",
                  "release_device", "stop_record"}
ManagerOps == {"INIT_AGENT", "RELEASE_AGENT", "STOP_ALL_AGENTS",
               "EMERGENCY_STOP"}
Ops == AgentCommands \cup ManagerOps

ASSUME SupervisionAssumption ==
  /\ NoReq \notin RequestIds
  /\ UserOps \subseteq Ops
  /\ SuppressDisconnect \in BOOLEAN
  /\ AutoStart \in BOOLEAN
  /\ MaxUserCommands \in Nat
  /\ MaxFaults \in Nat
  /\ MaxPlugs \in Nat

VARIABLES
  reg,           \* state of the registry entry (registeredAgents_)
  restore,       \* restoreStartDeviceAfterInit_[primary agent]
  agentUp,       \* the agent is in connectedAgents_
  device,        \* the subnode's device object and the glasses behind it
  urgentQueue,   \* urgentCommandQueue_
  commandQueue,  \* commandQueue_
  syncResults,   \* syncResults_: request id -> success flag
  worker,        \* the worker thread in processLoop
  wd,            \* the watchdog thread
  used           \* how much of each bound has been used

vars == <<reg, restore, agentUp, device, urgentQueue, commandQueue,
          syncResults, worker, wd, used>>

Commands == [op : Ops, req : RequestIds \cup {NoReq}]
AsyncCommands == [op : Ops, req : {NoReq}]
NoCmd == [op |-> "none", req |-> NoReq]
Cmd(op, req) == [op |-> op, req |-> req]

\* Device flags as isInitialized_ and isStarted_ record them; they are not
\* touched by an unplug.  "live" says that the SDK handle opened by the last
\* initialize still stands for the glasses that are plugged in.
DeviceStates == [present : BOOLEAN, live : BOOLEAN,
                 flags : {"released", "initialized", "started"}]

WorkerPcs == {"idle", "begin", "register", "release", "run", "post", "reply"}
WatchdogPcs == {"idle", "send_check", "wait_check", "check_ok", "check_fail",
                "estop", "send_init", "wait_init", "read_restore",
                "send_start", "wait_start", "init_ok", "init_fail"}

WorkerStates == [pc : WorkerPcs, cmd : Commands \cup {NoCmd}, ok : BOOLEAN]
WatchdogStates == [pc : WatchdogPcs, req : RequestIds \cup {NoReq}]
Usage == [user : Nat, faults : Nat, plugs : Nat]

TypeOK ==
  /\ reg \in AgentStates
  /\ restore \in BOOLEAN
  /\ agentUp \in BOOLEAN
  /\ device \in DeviceStates
  /\ urgentQueue \in Seq(Commands)
  /\ commandQueue \in Seq(AsyncCommands)
  /\ DOMAIN syncResults \subseteq RequestIds
  /\ syncResults \in [DOMAIN syncResults -> BOOLEAN]
  /\ worker \in WorkerStates
  /\ wd \in WatchdogStates
  /\ used \in Usage

\* A session begins when the application has queued INIT_AGENT for the primary
\* agent, with or without glasses plugged in.
Init ==
  /\ reg = "none"
  /\ restore = FALSE
  /\ agentUp = FALSE
  /\ device \in [present : BOOLEAN, live : {FALSE}, flags : {"released"}]
  /\ urgentQueue = <<>>
  /\ commandQueue = <<Cmd("INIT_AGENT", NoReq)>>
  /\ syncResults = [id \in {} |-> FALSE]
  /\ worker = [pc |-> "idle", cmd |-> NoCmd, ok |-> FALSE]
  /\ wd = [pc |-> "idle", req |-> NoReq]
  /\ used = [user |-> 0, faults |-> 0, plugs |-> 0]

---------------------------------------------------------------------------
(* Environment *)

UserCommand ==
  /\ used.user < MaxUserCommands
  /\ \E op \in UserOps : commandQueue' = Append(commandQueue, Cmd(op, NoReq))
  /\ used' = [used EXCEPT !.user = @ + 1]
  /\ UNCHANGED <<reg, restore, agentUp, device, urgentQueue, syncResults,
                 worker, wd>>

PlugEvent ==
  /\ used.plugs < MaxPlugs
  /\ device' = [device EXCEPT !.present = ~@, !.live = FALSE]
  /\ used' = [used EXCEPT !.plugs = @ + 1]
  /\ UNCHANGED <<reg, restore, agentUp, urgentQueue, commandQueue,
                 syncResults, worker, wd>>

Fault == used.faults < MaxFaults /\ used' = [used EXCEPT !.faults = @ + 1]

---------------------------------------------------------------------------
(* Worker thread: processLoop and processCommand *)

WorkerTakes(cmd) ==
  worker' = [worker EXCEPT !.pc = "begin", !.cmd = cmd]

\* Faulty variant: the newest urgent command is served first.
WorkerTakeUrgentNewestFirst ==
  /\ worker.pc = "idle"
  /\ urgentQueue # <<>>
  /\ WorkerTakes(urgentQueue[Len(urgentQueue)])
  /\ urgentQueue' = SubSeq(urgentQueue, 1, Len(urgentQueue) - 1)
  /\ UNCHANGED <<reg, restore, agentUp, device, commandQueue, syncResults,
                 wd, used>>

\* Urgent commands are dequeued before normal ones.
WorkerTakeUrgent ==
  /\ worker.pc = "idle"
  /\ urgentQueue # <<>>
  /\ WorkerTakes(Head(urgentQueue))
  /\ urgentQueue' = Tail(urgentQueue)
  /\ UNCHANGED <<reg, restore, agentUp, device, commandQueue, syncResults,
                 wd, used>>

WorkerTakeNormal ==
  /\ worker.pc = "idle"
  /\ urgentQueue = <<>>
  /\ commandQueue # <<>>
  /\ WorkerTakes(Head(commandQueue))
  /\ commandQueue' = Tail(commandQueue)
  /\ UNCHANGED <<reg, restore, agentUp, device, urgentQueue, syncResults,
                 wd, used>>

WorkerGoto(pc, ok) == worker' = [worker EXCEPT !.pc = pc, !.ok = ok]

\* Faulty variant: the early return for an agent that is not connected skips
\* the reply.
BeginAgentCommandNoReply ==
  /\ worker.pc = "begin"
  /\ worker.cmd.op \in AgentCommands
  /\ worker' = IF agentUp THEN [worker EXCEPT !.pc = "run", !.ok = FALSE]
               ELSE [pc |-> "idle", cmd |-> NoCmd, ok |-> FALSE]
  /\ reg' = IF agentUp /\ worker.cmd.op = "init_device"
            THEN MarkAgentInitializing(reg) ELSE reg
  /\ UNCHANGED <<restore, agentUp, device, urgentQueue, commandQueue,
                 syncResults, wd, used>>

\* SEND_AGENT_COMMAND up to the call of agent->cmd: an agent that is not
\* connected answers with an error, init_device is marked before it runs.
BeginAgentCommand ==
  /\ worker.pc = "begin"
  /\ worker.cmd.op \in AgentCommands
  /\ WorkerGoto(IF agentUp THEN "run" ELSE "reply", FALSE)
  /\ reg' = IF agentUp /\ worker.cmd.op = "init_device"
            THEN MarkAgentInitializing(reg) ELSE reg
  /\ UNCHANGED <<restore, agentUp, device, urgentQueue, commandQueue,
                 syncResults, wd, used>>

\* INIT_AGENT connects first; a connection failure registers nothing.
ConnectAgent ==
  /\ worker.pc = "begin"
  /\ worker.cmd.op = "INIT_AGENT"
  /\ \/ /\ agentUp' = TRUE
        /\ WorkerGoto("register", TRUE)
        /\ UNCHANGED used
     \/ /\ ~agentUp
        /\ Fault
        /\ WorkerGoto("reply", FALSE)
        /\ UNCHANGED agentUp
  /\ UNCHANGED <<reg, restore, device, urgentQueue, commandQueue,
                 syncResults, wd>>

RegisterAgent ==
  /\ worker.pc = "register"
  /\ reg' = RegisterPrimaryAgent(reg)
  /\ restore' = (AutoStart \/ restore)
  /\ WorkerGoto("reply", TRUE)
  /\ UNCHANGED <<agentUp, device, urgentQueue, commandQueue, syncResults,
                 wd, used>>

\* RELEASE_AGENT, STOP_ALL_AGENTS and EMERGENCY_STOP withdraw the agent from
\* the watchdog and forget that its start is to be restored.  The estop that
\* the last two send to the subnode ends a recording only: no part of this
\* state changes.
WithdrawAgent ==
  /\ worker.pc = "begin"
  /\ worker.cmd.op \in ManagerOps \ {"INIT_AGENT"}
  /\ reg' = UnregisterPrimaryAgent(reg)
  /\ restore' = FALSE
  /\ WorkerGoto(IF worker.cmd.op = "RELEASE_AGENT" THEN "release" ELSE "reply",
                TRUE)
  /\ UNCHANGED <<agentUp, device, urgentQueue, commandQueue, syncResults,
                 wd, used>>

\* releaseAgent: a graceful release_device, then the subnode is terminated.
ReleaseAgent ==
  /\ worker.pc = "release"
  /\ agentUp' = FALSE
  /\ device' = IF agentUp
               THEN [device EXCEPT !.flags = "released", !.live = FALSE]
               ELSE device
  /\ WorkerGoto("reply", TRUE)
  /\ UNCHANGED <<reg, restore, urgentQueue, commandQueue, syncResults, wd, used>>

\* The device that BspDevice leaves behind, without and with success.
DeviceAfter(op, success) ==
  CASE op = "init_device" ->
         [device EXCEPT !.flags = IF success THEN "initialized" ELSE "released",
                        !.live = success /\ device.present]
    [] op = "start_device" /\ success -> [device EXCEPT !.flags = "started"]
    [] op = "stop_device" /\ success -> [device EXCEPT !.flags = "initialized"]
    [] op = "release_device" /\ success ->
         [device EXCEPT !.flags = "released", !.live = FALSE]
    [] OTHER -> device

\* What the command answers when nothing goes wrong.  A started device is
\* reported as "Already started" from its flag alone (runtimeStateStarted);
\* check enumerates the USB devices and does not look at the handle.
Succeeds(op) ==
  /\ op \in {"check", "init_device"} => device.present
  /\ op = "start_device" => \/ device.flags = "started"
                            \/ device.flags = "initialized" /\ device.live
  /\ op = "stop_device" => device.flags # "released" /\ device.live

\* The commands whose outcome is marked in the registry.
MarkedCommands ==
  {"init_device", "start_device", "stop_device", "release_device"}

\* agent->cmd for one command of the subnode.
RunDevice ==
  /\ worker.pc = "run"
  /\ LET op == worker.cmd.op
         next == IF op \in MarkedCommands THEN "post" ELSE "reply"
     IN \/ /\ WorkerGoto(next, Succeeds(op))
           /\ device' = DeviceAfter(op, Succeeds(op))
           /\ UNCHANGED used
        \/ \* the command fails, or the caller gives up waiting while the
           \* subnode still completes it
           /\ Succeeds(op)
           /\ Fault
           /\ WorkerGoto(next, FALSE)
           /\ \E done \in BOOLEAN : device' = DeviceAfter(op, done)
  /\ UNCHANGED <<reg, restore, agentUp, urgentQueue, commandQueue,
                 syncResults, wd>>

\* SEND_AGENT_COMMAND after agent->cmd has returned.
MarkAfterCommand ==
  /\ worker.pc = "post"
  /\ LET op == worker.cmd.op
     IN \/ /\ op = "init_device"
           /\ reg' = IF worker.ok THEN MarkAgentHealthy(reg)
                     ELSE MarkAgentDisconnected(reg)
           /\ UNCHANGED restore
        \/ /\ op = "start_device" /\ worker.ok
           /\ reg' = MarkAgentHealthy(reg)
           /\ restore' = TRUE
        \/ /\ op \in {"stop_device", "release_device"} /\ worker.ok
           /\ reg' = MarkAgentDisconnected(reg)
           /\ restore' = FALSE
        \/ /\ op # "init_device" /\ ~worker.ok
           /\ UNCHANGED <<reg, restore>>
  /\ WorkerGoto("reply", worker.ok)
  /\ UNCHANGED <<agentUp, device, urgentQueue, commandQueue, syncResults,
                 wd, used>>

\* A result is published under its request id even when its caller has given
\* up; nothing removes it then.
Reply ==
  /\ worker.pc = "reply"
  /\ LET req == worker.cmd.req
         known == (DOMAIN syncResults) \cup {req}
     IN syncResults' = IF req = NoReq THEN syncResults
                       ELSE [r \in known |-> IF r = req THEN worker.ok
                                             ELSE syncResults[r]]
  /\ worker' = [pc |-> "idle", cmd |-> NoCmd, ok |-> FALSE]
  /\ UNCHANGED <<reg, restore, agentUp, device, urgentQueue, commandQueue,
                 wd, used>>

WorkerStep ==
  \/ WorkerTakeUrgent \/ BeginAgentCommand \/ ConnectAgent \/ RegisterAgent
  \/ WithdrawAgent \/ ReleaseAgent \/ RunDevice \/ MarkAfterCommand \/ Reply

---------------------------------------------------------------------------
(* Watchdog thread: checkAgent and the callbacks it was given *)

WatchdogGoto(pc) == wd' = [wd EXCEPT !.pc = pc]

\* nextRequestId never repeats an id; with finitely many ids, one that no
\* queue, thread or result holds any more stands for the next one.
IdsInUse ==
  {urgentQueue[i].req : i \in 1..Len(urgentQueue)}
    \cup {worker.cmd.req, wd.req} \cup DOMAIN syncResults
FreshIds == RequestIds \ IdsInUse

\* sendCommandSync(command, timeout, urgent = true), sending part.
SendUrgentSync(op, pc) ==
  /\ FreshIds # {}
  /\ LET req == CHOOSE id \in FreshIds : TRUE
     IN /\ urgentQueue' = Append(urgentQueue, Cmd(op, req))
        /\ wd' = [pc |-> pc, req |-> req]
  /\ UNCHANGED <<reg, restore, agentUp, device, commandQueue, syncResults,
                 worker, used>>

\* sendCommandSync, receiving part: the result is there, and removed.
SyncResult(onSuccess, onFailure) ==
  /\ wd.req \in DOMAIN syncResults
  /\ wd' = [pc |-> IF syncResults[wd.req] THEN onSuccess ELSE onFailure,
            req |-> NoReq]
  /\ syncResults' =
       [r \in (DOMAIN syncResults) \ {wd.req} |-> syncResults[r]]
  /\ UNCHANGED <<reg, restore, agentUp, device, urgentQueue, commandQueue,
                 worker, used>>

\* sendCommandSync, timeout: the wait fails, whether or not the result has
\* just been published, and the command stays where it is.
SyncTimeout(onTimeout) ==
  /\ Fault
  /\ wd' = [pc |-> onTimeout, req |-> NoReq]
  /\ UNCHANGED <<reg, restore, agentUp, device, urgentQueue, commandQueue,
                 syncResults, worker>>

BeginCheck ==
  /\ wd.pc = "idle"
  /\ NeedsCheck(reg)
  /\ WatchdogGoto("send_check")
  /\ UNCHANGED <<reg, restore, agentUp, device, urgentQueue, commandQueue,
                 syncResults, worker, used>>

SendCheck == wd.pc = "send_check" /\ SendUrgentSync("check", "wait_check")
CheckResult == wd.pc = "wait_check" /\ SyncResult("check_ok", "check_fail")
CheckTimeout == wd.pc = "wait_check" /\ SyncTimeout("check_fail")

HandleCheckSuccess ==
  /\ wd.pc = "check_ok"
  /\ reg' = AfterCheckSuccess(reg)
  /\ WatchdogGoto(IF StartsRecovery(reg) THEN "send_init" ELSE "idle")
  /\ UNCHANGED <<restore, agentUp, device, urgentQueue, commandQueue,
                 syncResults, worker, used>>

HandleCheckFailure ==
  /\ wd.pc = "check_fail"
  /\ reg' = AfterCheckFailure(reg)
  /\ WatchdogGoto(IF IsLoss(reg) /\ ~SuppressDisconnect THEN "estop" ELSE "idle")
  /\ UNCHANGED <<restore, agentUp, device, urgentQueue, commandQueue,
                 syncResults, worker, used>>

\* Faulty variant: the emergency stop is never queued.
ExecuteEstopNotSent ==
  /\ wd.pc = "estop"
  /\ WatchdogGoto("idle")
  /\ UNCHANGED <<reg, restore, agentUp, device, urgentQueue, commandQueue,
                 syncResults, worker, used>>

\* executeEstop: an urgent EMERGENCY_STOP that nobody waits for.
ExecuteEstop ==
  /\ wd.pc = "estop"
  /\ urgentQueue' = Append(urgentQueue, Cmd("EMERGENCY_STOP", NoReq))
  /\ WatchdogGoto("idle")
  /\ UNCHANGED <<reg, restore, agentUp, device, commandQueue, syncResults,
                 worker, used>>

\* initDevice and the init callback: init_device, then start_device when the
\* restore flag, read without a lock, asks for it.
SendInit == wd.pc = "send_init" /\ SendUrgentSync("init_device", "wait_init")
\* Faulty variant: the init callback goes on after a failed init_device.
InitResultIgnored ==
  wd.pc = "wait_init" /\ SyncResult("read_restore", "read_restore")

InitResult == wd.pc = "wait_init" /\ SyncResult("read_restore", "init_fail")
InitTimeout == wd.pc = "wait_init" /\ SyncTimeout("init_fail")

ReadRestore ==
  /\ wd.pc = "read_restore"
  /\ WatchdogGoto(IF restore THEN "send_start" ELSE "init_ok")
  /\ UNCHANGED <<reg, restore, agentUp, device, urgentQueue, commandQueue,
                 syncResults, worker, used>>

SendStart == wd.pc = "send_start" /\ SendUrgentSync("start_device", "wait_start")
StartResult == wd.pc = "wait_start" /\ SyncResult("init_ok", "init_fail")
StartTimeout == wd.pc = "wait_start" /\ SyncTimeout("init_fail")

FinishInit ==
  /\ wd.pc \in {"init_ok", "init_fail"}
  /\ reg' = AfterInitDevice(reg, wd.pc = "init_ok")
  /\ WatchdogGoto("idle")
  /\ UNCHANGED <<restore, agentUp, device, urgentQueue, commandQueue,
                 syncResults, worker, used>>

WatchdogProgress ==
  \/ BeginCheck \/ SendCheck \/ CheckResult
  \/ HandleCheckSuccess \/ HandleCheckFailure \/ ExecuteEstop
  \/ SendInit \/ InitResult \/ ReadRestore \/ SendStart \/ StartResult
  \/ FinishInit

WatchdogTimeout == CheckTimeout \/ InitTimeout \/ StartTimeout

Next ==
  \/ UserCommand \/ PlugEvent
  \/ WorkerStep \/ WorkerTakeNormal
  \/ WatchdogProgress \/ WatchdogTimeout

Spec == Init /\ [][Next]_vars

\* Both threads keep running.  The watchdog sleeps check_interval between two
\* checks while the worker looks at its queues every 100 ms, so a worker whose
\* urgent queue keeps becoming empty serves the normal queue in the end.
Fairness ==
  /\ WF_vars(WorkerStep)
  /\ SF_vars(WorkerTakeNormal)
  /\ WF_vars(WatchdogProgress)

FairSpec == Spec /\ Fairness
---------------------------------------------------------------------------
(* Safety *)

\* The watchdog is inside its init procedure, from the step that marks the
\* agent initializing to the one that writes the outcome.
InInitProcedure ==
  wd.pc \in {"send_init", "wait_init", "read_restore", "send_start",
            "wait_start", "init_ok", "init_fail"}

WorkerRunsInit ==
  worker.cmd.op = "init_device" /\ worker.pc \in {"run", "post"}

\* An agent that is shown as initializing has somebody who will end that
\* state: checkAgent skips such an agent, so nobody else ever would
\* (agent_watchdog.cpp:269, 381, 422).
InitializingIsOwned ==
  reg = "initializing" => InInitProcedure \/ WorkerRunsInit

\* The commands that the watchdog's init callback sends.
IsRecovery(cmd) ==
  cmd.op \in {"init_device", "start_device"} /\ cmd.req # NoReq

\* However often the watchdog gives up waiting, two recovery commands of its
\* own never wait or run at the same time: it starts a recovery only after a
\* check has been answered, and the urgent queue is served in order.
RecoveryIsSerial ==
  LET recoveries == {i \in 1..Len(urgentQueue) : IsRecovery(urgentQueue[i])}
  IN /\ \A i, j \in recoveries : i = j
     /\ recoveries # {} => ~IsRecovery(worker.cmd)

\* While the emergency stop of the watchdog waits to be executed, no recovery
\* command is queued behind it: the stop is never undone by a recovery that
\* was decided before it ran.
NoRecoveryBehindEstop ==
  \A i, j \in 1..Len(urgentQueue) :
    i < j /\ urgentQueue[i].op = "EMERGENCY_STOP" => ~IsRecovery(urgentQueue[j])

\* Whatever request the watchdog waits for is still in the urgent queue, in
\* the hands of the worker, or answered: no path of processCommand loses the
\* reply of a synchronous command.
AwaitedReplyIsDue ==
  wd.req # NoReq =>
    \/ wd.req \in DOMAIN syncResults
    \/ worker.cmd.req = wd.req
    \/ \E i \in 1..Len(urgentQueue) : urgentQueue[i].req = wd.req

\* The watchdog supervises connected agents only (INIT_AGENT connects before
\* it registers, RELEASE_AGENT unregisters before it disconnects).
RegisteredAgentIsConnected == Registered(reg) => agentUp

\* An agent that only the watchdog initializes is never shown as healthy
\* while the device is not initialized.
HealthyIsInitialized == reg = "healthy" => device.flags # "released"

---------------------------------------------------------------------------
(* Liveness *)

\* Initialization always ends, in success or failure.
InitializingEnds == reg = "initializing" ~> reg # "initializing"

\* Glasses that stay unplugged are not shown as healthy forever.
LossIsReported == <>[](~device.present) => <>[](reg # "healthy")

\* Glasses that stay plugged in while their agent stays registered are
\* recovered: the agent becomes and stays healthy (header agent_watchdog.h:8).
PresenceIsRecovered ==
  <>[](device.present /\ Registered(reg)) => <>[](reg = "healthy")

\* Without hot-plug support a loss ends in the emergency stop, which
\* withdraws the agent from the watchdog.
LossEndsInEstop == wd.pc = "estop" ~> ~Registered(reg)
=============================================================================
