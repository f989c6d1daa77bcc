------------------------------ MODULE AgentLink ------------------------------
(***************************************************************************)
(* The life of one agent connection, from the worker thread of the UI      *)
(* process: AgentManager and BaseAgent sweep stale subnodes away, launch   *)
(* the subnode, wait for its services at the Echo master, send commands,   *)
(* and release, terminate and at last kill it.  The subnode registers its  *)
(* services and publishers one by one.  The master lives in the UI         *)
(* process; a name keeps its last registration, also after the death of    *)
(* the process behind it.  Everything may die at any time.                 *)
(*                                                                         *)
(* A remote agent has no process to launch; its channel is RemoteLink.     *)
(* Commands are only sent and answered here: ActionCommands follows them.  *)
(***************************************************************************)
EXTENDS RemoteLink

CONSTANTS
  MaxLaunches,   \* bound: subnode processes
  MaxFaults,     \* bound: crashes, lost registrations, failed scans and timeouts
  MaxRestarts    \* bound: crashes of the UI process

ASSUME LinkAssumption ==
  MaxLaunches \in Nat /\ MaxFaults \in Nat /\ MaxRestarts \in Nat

VARIABLES
  remote,    \* isRemoteMode: no subnode_path is configured
  agent,     \* the agent object and where its thread stands
  subnode,   \* the processes launched so far
  master,    \* what the services' names and the result topic are registered for
  goal,      \* the command of a local agent that is under way
  ui,        \* subnodes of earlier UI processes, and whether a scan has missed one
  used       \* events used up

linkVars == <<remote, agent, subnode, master, goal, ui, used>>
vars == <<remoteVars, linkVars>>

Processes == 1..MaxLaunches
Starting == {"starting", "half", "named"}   \* of send_goal and cancel none, one, both
Living == Starting \cup {"serving", "leaving"}
Alive == {p \in Processes : subnode[p] \in Living}

Graceful == {"stop_device", "release_device"}
Steps == Graceful \cup {"scan", "sweep", "launch", "confirm", "await", "ping",
                        "close", "terminate", "ending"}

TypeOK ==
  /\ RemoteTypeOK
  /\ remote \in BOOLEAN
  /\ agent \in [pc : Steps \cup {"idle"}, held : BOOLEAN, reached : BOOLEAN,
                process : 0..MaxLaunches, endpoint : 0..MaxLaunches,
                heard : SUBSET Processes]
  /\ subnode \in [Processes -> Living \cup {"none", "dead"}]
  /\ master \in [goal : 0..MaxLaunches, cancel : 0..MaxLaunches,
                 results : SUBSET Processes]
  /\ goal \in [phase : {"none", "running", "done", "lost"}, at : 0..MaxLaunches]
  /\ ui \in [orphans : SUBSET Processes, missed : BOOLEAN]
  /\ used \in [faults : 0..MaxFaults, restarts : 0..MaxRestarts]

NoAgent == [pc |-> "idle", held |-> FALSE, reached |-> FALSE, process |-> 0,
            endpoint |-> 0, heard |-> {}]
NoNames == [goal |-> 0, cancel |-> 0, results |-> {}]
NoGoal == [phase |-> "none", at |-> 0]

Init ==
  /\ RemoteInit
  /\ remote \in BOOLEAN
  /\ agent = NoAgent
  /\ subnode = [p \in Processes |-> "none"]
  /\ master = NoNames
  /\ goal = NoGoal
  /\ ui = [orphans |-> {}, missed |-> FALSE]
  /\ used = [faults |-> 0, restarts |-> 0]

FaultLeft == used.faults < MaxFaults
CountFault == used' = [used EXCEPT !.faults = @ + 1]
GoTo(step) == agent' = [agent EXCEPT !.pc = step]

---------------------------------------------------------------------------
(* Connecting                                                               *)

\* initializeAgent for an agent that is not connected: createAgent and connect().
InitializeAgent ==
  /\ agent.pc = "idle" /\ ~agent.held
  /\ agent' = [NoAgent EXCEPT !.pc = IF remote THEN "ping" ELSE "scan"]
  /\ client' = IF remote THEN OpenedClient ELSE client
  /\ UNCHANGED <<wire, remote, subnode, master, goal, ui, used>>

\* What SIGTERM can do: a subnode that starts dies of it, or it is forgotten since
\* quit() does nothing before the event loop runs.
Signalled(phase) ==
  CASE phase \in Starting -> {phase, "dead"}
    [] phase = "serving" -> {"leaving"}
    [] OTHER -> {phase}

\* Faulty variant: processes that SIGTERM has not ended are left.
SweptGently == subnode

\* After two seconds what is left of the stale processes gets SIGKILL.
Swept == [p \in Processes |-> IF p \in Alive THEN "dead" ELSE subnode[p]]

\* cleanupStaleSubnodes: every process with this path and port gets SIGTERM ...
ScanStale ==
  /\ agent.pc = "scan"
  /\ subnode' \in [Processes -> Living \cup {"none", "dead"}]
  /\ \A p \in Processes : subnode'[p] \in Signalled(subnode[p])
  /\ GoTo(IF Alive = {} THEN "launch" ELSE "sweep")
  /\ UNCHANGED <<remoteVars, remote, master, goal, ui, used>>

\* ... but when ps fails nobody is looked for.
ScanFails ==
  /\ agent.pc = "scan" /\ FaultLeft /\ CountFault
  /\ GoTo("launch")
  /\ ui' = [ui EXCEPT !.missed = @ \/ Alive # {}]
  /\ UNCHANGED <<remoteVars, remote, subnode, master, goal>>

SweepStale ==
  /\ agent.pc = "sweep"
  /\ subnode' = Swept
  /\ GoTo("launch")
  /\ ui' = [ui EXCEPT !.missed = FALSE]
  /\ UNCHANGED <<remoteVars, remote, master, goal, used>>

\* launchSubnode starts the process; entry missing or not started: disconnect().
LaunchSubnode ==
  /\ agent.pc = "launch"
  /\ \/ \E p \in Processes :
          /\ subnode[p] = "none" /\ \A q \in 1..(p - 1) : subnode[q] # "none"
          /\ subnode' = [subnode EXCEPT ![p] = "starting"]
          /\ agent' = [agent EXCEPT !.pc = "confirm", !.process = p]
     \/ GoTo("close") /\ UNCHANGED subnode
  /\ UNCHANGED <<remoteVars, remote, master, goal, ui, used>>

\* A second later the process should still run; QProcess may not know yet.
ConfirmLaunch ==
  /\ agent.pc = "confirm"
  /\ \/ GoTo("await")
     \/ agent.process \notin Alive /\ GoTo("close")
  /\ UNCHANGED <<remoteVars, remote, subnode, master, goal, ui, used>>

Registered == master.goal # 0 /\ master.cancel # 0

\* createActionClient: both names known to the master, whoever registered them.
CreateActionClient ==
  /\ agent.pc = "await" /\ Registered
  /\ agent' = [agent EXCEPT !.pc = "idle", !.held = TRUE, !.endpoint = master.goal,
                            !.heard = master.results]
  /\ UNCHANGED <<remoteVars, remote, subnode, master, goal, ui, used>>

\* The subnode has exited, or five seconds have passed.
AwaitFails ==
  /\ agent.pc = "await" /\ ~Registered
  /\ GoTo("close")
  /\ UNCHANGED <<remoteVars, remote, subnode, master, goal, ui, used>>

\* waitForServer: pings until one is answered or the time is over.
PingServer ==
  /\ agent.pc = "ping"
  /\ SendRemoteGoal
  /\ UNCHANGED linkVars

PingEnds ==
  /\ agent.pc = "ping"
  /\ \/ /\ client.phase = "answered"
        /\ agent' = [agent EXCEPT !.pc = "idle", !.held = TRUE]
     \/ /\ client.phase = "failed"
        /\ \E step \in {"ping", "close"} : GoTo(step)
  /\ client' = Concluded(TRUE)
  /\ UNCHANGED <<wire, remote, subnode, master, goal, ui, used>>

Connecting ==
  \/ ScanStale \/ ScanFails \/ SweepStale \/ LaunchSubnode \/ ConfirmLaunch
  \/ CreateActionClient \/ AwaitFails \/ PingServer \/ PingEnds

---------------------------------------------------------------------------
(* Commands                                                                 *)

\* A command of the worker thread, or one of gracefulReleaseBeforeDisconnect.
MaySend == (agent.pc = "idle" /\ agent.held) \/ agent.pc \in Graceful

\* The next step after a command, whatever came of it.
NextStep == CASE agent.pc = "stop_device" -> "release_device"
              [] agent.pc = "release_device" -> "close"
              [] OTHER -> agent.pc

\* Faulty variant: the socket stays with the endpoint it has.
EndpointKept == agent.endpoint

\* A failed call connects again, to where the name leads now.
EndpointAgain == master.goal

\* send_goal is bound before it is registered.
Accepting == {"half", "named", "serving"}

\* sendGoal of a local agent: the process behind the endpoint accepts the goal ...
SendCommand ==
  /\ ~remote /\ MaySend /\ goal.phase = "none"
  /\ subnode[agent.endpoint] \in Accepting
  /\ goal' = [phase |-> "running", at |-> agent.endpoint]
  /\ UNCHANGED <<remoteVars, remote, agent, subnode, master, ui, used>>

\* ... or the call times out.
CallFails ==
  /\ ~remote /\ MaySend /\ goal.phase = "none"
  /\ subnode[agent.endpoint] \notin Accepting
  /\ agent' = [agent EXCEPT !.endpoint = EndpointAgain, !.pc = NextStep]
  /\ UNCHANGED <<remoteVars, remote, subnode, master, goal, ui, used>>

\* The subnode sends the result: it needs its publisher, and a caller that listens.
ExecuteGoal ==
  /\ goal.phase = "running" /\ subnode[goal.at] \in Accepting
  /\ goal' = [goal EXCEPT !.phase =
       IF subnode[goal.at] = "serving" /\ goal.at \in agent.heard
         THEN "done" ELSE "lost"]
  /\ UNCHANGED <<remoteVars, remote, agent, subnode, master, ui, used>>

CommandAnswered ==
  /\ goal.phase = "done"
  /\ goal' = NoGoal
  /\ agent' = [agent EXCEPT !.reached = TRUE, !.pc = NextStep]
  /\ UNCHANGED <<remoteVars, remote, subnode, master, ui, used>>

CommandTimesOut ==
  /\ \/ goal.phase = "lost" /\ UNCHANGED used
     \/ goal.phase = "running" /\ subnode[goal.at] \notin Accepting /\ UNCHANGED used
     \/ goal.phase = "running" /\ FaultLeft /\ CountFault
  /\ goal' = NoGoal
  /\ GoTo(NextStep)
  /\ UNCHANGED <<remoteVars, remote, subnode, master, ui>>

\* receiveLoop asks the master for new publishers twice a second.
ConnectToPublishers ==
  /\ agent.endpoint # 0
  /\ ~ master.results \subseteq agent.heard
  /\ agent' = [agent EXCEPT !.heard = @ \cup master.results]
  /\ UNCHANGED <<remoteVars, remote, subnode, master, goal, ui, used>>

SendRemoteCommand ==
  /\ remote /\ MaySend
  /\ SendRemoteGoal
  /\ UNCHANGED linkVars

RemoteCommandEnds ==
  /\ remote /\ MaySend /\ client.phase \in {"answered", "failed"}
  /\ client' = Concluded(FALSE)
  /\ agent' = [agent EXCEPT !.reached = @ \/ client.phase = "answered"]
  /\ UNCHANGED <<wire, remote, subnode, master, goal, ui, used>>

Commands ==
  \/ SendCommand \/ CallFails \/ CommandAnswered \/ CommandTimesOut
  \/ SendRemoteCommand \/ RemoteCommandEnds

---------------------------------------------------------------------------
(* Disconnecting                                                            *)

\* releaseAgent, by the user, the end of the UI process or releaseAll: a local
\* subnode is first told to stop and to release its device.
ReleaseAgent ==
  /\ agent.pc = "idle" /\ agent.held
  /\ goal.phase = "none" /\ client.phase \in {"closed", "idle"}
  /\ GoTo(IF remote THEN "close" ELSE "stop_device")
  /\ UNCHANGED <<remoteVars, remote, subnode, master, goal, ui, used>>

\* closeActionClient and closeAllSubscribers, then on to the process.
CloseClients ==
  /\ agent.pc = "close"
  /\ client' = IF remote THEN ClosedClient ELSE client
  /\ agent' = IF agent.process = 0 THEN NoAgent
              ELSE [agent EXCEPT !.pc = "terminate", !.endpoint = 0, !.heard = {}]
  /\ UNCHANGED <<wire, remote, subnode, master, goal, ui, used>>

TerminateSubnode ==
  /\ agent.pc = "terminate"
  /\ \E phase \in Signalled(subnode[agent.process]) :
       subnode' = [subnode EXCEPT ![agent.process] = phase]
  /\ GoTo("ending")
  /\ UNCHANGED <<remoteVars, remote, master, goal, ui, used>>

\* Faulty variant: ten seconds are thought to be enough.
Unkilled == subnode

\* A process that has not ended in ten seconds is killed.
Killed == [subnode EXCEPT ![agent.process] = "dead"]

SubnodeEnded ==
  /\ agent.pc = "ending"
  /\ subnode' = IF agent.process \in Alive THEN Killed ELSE subnode
  /\ agent' = NoAgent
  /\ UNCHANGED <<remoteVars, remote, master, goal, ui, used>>

Disconnecting == CloseClients \/ TerminateSubnode \/ SubnodeEnded

---------------------------------------------------------------------------
(* The subnode                                                              *)

\* createActionServer registers the two services and the publisher in this order;
\* a registration that the master does not answer is only logged.
RegisteredAs(p, phase) ==
  CASE phase = "half" -> [master EXCEPT !.goal = p]
    [] phase = "named" -> [master EXCEPT !.cancel = p]
    [] phase = "serving" -> [master EXCEPT !.results = @ \cup {p}]

After(phase) == CASE phase = "starting" -> "half" [] phase = "half" -> "named"
                  [] phase = "named" -> "serving"

CreateActionServer(p) ==
  /\ subnode[p] \in Starting
  /\ subnode' = [subnode EXCEPT ![p] = After(subnode[p])]
  /\ \/ master' = RegisteredAs(p, After(subnode[p])) /\ UNCHANGED used
     \/ UNCHANGED master /\ FaultLeft /\ CountFault
  /\ UNCHANGED <<remoteVars, remote, agent, goal, ui>>

\* After the event loop: disconnect(), release() and the end of main.
LeaveMain(p) ==
  /\ subnode[p] = "leaving"
  /\ subnode' = [subnode EXCEPT ![p] = "dead"]
  /\ UNCHANGED <<remoteVars, remote, agent, master, goal, ui, used>>

MainThread(p) == CreateActionServer(p) \/ LeaveMain(p)

SubnodeCrashes(p) ==
  /\ p \in Alive /\ FaultLeft /\ CountFault
  /\ subnode' = [subnode EXCEPT ![p] = "dead"]
  /\ UNCHANGED <<remoteVars, remote, agent, master, goal, ui>>

\* The UI process dies with the master and is started again; its subnode lives on.
UiCrashes ==
  /\ used.restarts < MaxRestarts
  /\ used' = [used EXCEPT !.restarts = @ + 1]
  /\ agent' = NoAgent /\ master' = NoNames /\ goal' = NoGoal
  /\ client' = ClosedClient
  /\ ui' = [ui EXCEPT !.orphans = @ \cup Alive]
  /\ UNCHANGED <<wire, remote, subnode>>

Network == (RemoteClient \/ ServeRequest) /\ UNCHANGED linkVars

Next ==
  \/ InitializeAgent \/ Connecting \/ Commands \/ ConnectToPublishers
  \/ ReleaseAgent \/ Disconnecting \/ ExecuteGoal \/ Network \/ UiCrashes
  \/ \E p \in Processes : MainThread(p) \/ SubnodeCrashes(p)

Spec == Init /\ [][Next]_vars

\* The threads of both processes run, and the watchdog goes on sending checks.
FairSpec ==
  /\ Spec
  /\ WF_vars(Connecting \/ Commands \/ Disconnecting)
  /\ WF_vars(ConnectToPublishers) /\ WF_vars(ExecuteGoal)
  /\ \A p \in Processes : WF_vars(MainThread(p))

---------------------------------------------------------------------------
(* Properties                                                               *)

\* A goal is only ever accepted by the process the agent has launched, unless a scan
\* has failed: names outlive their processes, and processes outlive the UI.
CommandsReachOwnSubnode ==
  goal.phase # "none" /\ ~ui.missed => goal.at = agent.process

\* Every living subnode that this UI process has launched is the one it can still
\* terminate: a failed connection leaves none behind.
OwnChildIsKnown == Alive \ ui.orphans \subseteq {agent.process}

\* A subnode that stays alive and whose registrations arrive is reached: though the
\* client may have begun with the endpoint and the topic of a dead process, some
\* command is answered, or the agent is released.  (With a process that a failed
\* scan has left alive, all commands may go to that one for good.)
WellNamed(p) ==
  /\ ~ui.missed
  /\ subnode[p] \in Starting \cup {"serving"}
  /\ subnode[p] = "serving" => master.goal = p /\ p \in master.results
ConnectedIsServed ==
  \A p \in Processes :
    agent.held /\ agent.process = p
      ~> agent.reached \/ agent.process # p \/ ~WellNamed(p)
=============================================================================
