-------------------------- MODULE AgentLinkProofs --------------------------
(***************************************************************************)
(* Machine-checked proofs about AgentLink and RemoteLink, for any number   *)
(* of subnode processes, goals, faults and crashes of the UI process.      *)
(***************************************************************************)
EXTENDS AgentLink, TLAPS

---------------------------------------------------------------------------
(* The remote channel *)

\* Everything that LegacyRemoteActionClient and its server do keeps the types.
LEMMA RemoteStepType ==
  ASSUME RemoteTypeOK,
         SendRemoteGoal \/ RemoteClient \/ ServeRequest
  PROVE  RemoteTypeOK'
<1>1. CASE SendRemoteGoal
  <2>1. client.id + 1 \in Goals /\ client.id + 1 \in 0..MaxGoals
    BY <1>1, RemoteAssumption DEF SendRemoteGoal, RemoteTypeOK, Goals
  <2>2. wire' \subseteq Message
    BY <1>1, <2>1 DEF SendRemoteGoal, RemoteTypeOK, Message
  <2>3. client.pending \cup {client.id + 1} \in SUBSET Goals
    BY <2>1 DEF RemoteTypeOK
  <2> QED
    BY <1>1, <2>1, <2>2, <2>3 DEF SendRemoteGoal, RemoteTypeOK
<1>2. CASE TakeReply
  <2>1. PICK m \in wire :
          /\ wire' = wire \ {m}
          /\ client' = IF m.what = "accepted"
               THEN [client EXCEPT !.phase = "result", !.taken = m.id]
               ELSE [client EXCEPT !.phase = "failed", !.pending = @ \ {client.id}]
    BY <1>2 DEF TakeReply
  <2>2. m.id \in 0..MaxGoals
    BY DEF RemoteTypeOK, Message, Goals
  <2>3. client.pending \ {client.id} \in SUBSET Goals
    BY DEF RemoteTypeOK
  <2> QED
    BY <2>1, <2>2, <2>3 DEF RemoteTypeOK
<1>3. CASE RequestFails
  <2>1. client.pending \ {client.id} \in SUBSET Goals /\ client.socket + 1 \in Nat
    BY DEF RemoteTypeOK
  <2> QED
    BY <1>3, <2>1 DEF RequestFails, SocketReset, RemoteTypeOK
<1>4. CASE HandleResult
  BY <1>4 DEF HandleResult, RemoteTypeOK, Message, Goals
<1>5. CASE ResultSeen \/ ResultTimesOut
  BY <1>5 DEF ResultSeen, ResultTimesOut, RemoteTypeOK, Message, Goals
<1>6. CASE ServeRequest
  <2>1. PICK m \in wire : m.what = "request" /\
          \E answer \in {{}, {"accepted", "result"}, {"rejected"}} :
            wire' = (wire \ {m}) \cup {[m EXCEPT !.what = a] : a \in answer}
    BY <1>6 DEF ServeRequest
  <2>2. \A a \in {"accepted", "rejected", "result"} : [m EXCEPT !.what = a] \in Message
    BY <2>1 DEF RemoteTypeOK, Message
  <2>3. wire' \subseteq Message
    BY <2>1, <2>2 DEF RemoteTypeOK
  <2> QED
    BY <1>6, <2>3 DEF ServeRequest, RemoteTypeOK
<1> QED
  BY <1>1, <1>2, <1>3, <1>4, <1>5, <1>6 DEF RemoteClient

\* Opening, closing and going on after a goal keep the client typed.
LEMMA ClientType ==
  ASSUME RemoteTypeOK, NEW b \in BOOLEAN, UNCHANGED wire,
         client' \in {client, OpenedClient, ClosedClient, Concluded(b)}
  PROVE  RemoteTypeOK'
<1>1. /\ client.socket + 1 \in Nat /\ {} \in SUBSET Goals
      /\ client.pending \ {client.id} \in SUBSET Goals
  BY DEF RemoteTypeOK
<1>2. CASE client' = client
  BY <1>2 DEF RemoteTypeOK
<1>3. CASE client' = OpenedClient
  BY <1>1, <1>3 DEF RemoteTypeOK, OpenedClient
<1>4. CASE client' = ClosedClient
  BY <1>1, <1>4 DEF RemoteTypeOK, ClosedClient
<1>5. CASE client' = Concluded(b)
  BY <1>1, <1>5 DEF RemoteTypeOK, Concluded
<1> QED
  BY <1>2, <1>3, <1>4, <1>5

\* A request and its reply have a number of their own: what is on its way for the
\* present socket is one message, and belongs to the goal that is waited for.
Exchange(m) == m.what # "result" /\ m.socket = client.socket

OneExchange ==
  /\ \A m \in wire : m.socket <= client.socket
  /\ \A m \in wire : Exchange(m) =>
       client.phase \in {"reply", "closed"} /\ m.id = client.id
  /\ \A m, n \in wire : Exchange(m) /\ Exchange(n) => m = n

RemoteInv == RemoteTypeOK /\ OneExchange /\ RepliesInStep

LEMMA RemoteStepInv ==
  ASSUME RemoteInv, SendRemoteGoal \/ RemoteClient \/ ServeRequest
  PROVE  OneExchange' /\ RepliesInStep'
<1> USE DEF RemoteInv, Exchange
<1>1. CASE SendRemoteGoal
  BY <1>1, RemoteAssumption
     DEF SendRemoteGoal, RemoteTypeOK, Message, Goals, OneExchange, RepliesInStep
<1>2. CASE TakeReply
  <2>1. PICK m \in wire :
          /\ m.what \in {"accepted", "rejected"} /\ m.socket = client.socket
          /\ wire' = wire \ {m}
          /\ client' = IF m.what = "accepted"
               THEN [client EXCEPT !.phase = "result", !.taken = m.id]
               ELSE [client EXCEPT !.phase = "failed", !.pending = @ \ {client.id}]
    BY <1>2 DEF TakeReply
  <2>2. m.id = client.id /\ \A n \in wire' : ~Exchange(n)
    BY <2>1 DEF OneExchange
  <2>3. client'.socket = client.socket /\ client'.id = client.id
    BY <2>1 DEF RemoteTypeOK
  <2>4. OneExchange'
    BY <2>1, <2>2, <2>3 DEF OneExchange
  <2>5. client'.phase = "result" => client'.taken = m.id
    BY <2>1 DEF RemoteTypeOK
  <2> QED
    BY <2>2, <2>3, <2>4, <2>5 DEF RepliesInStep
<1>3. CASE RequestFails
  BY <1>3 DEF RequestFails, SocketReset, RemoteTypeOK, Message, OneExchange, RepliesInStep
<1>4. CASE HandleResult
  <2>1. /\ wire' \subseteq wire
        /\ client'.socket = client.socket /\ client'.id = client.id
        /\ client'.phase = client.phase /\ client'.taken = client.taken
    BY <1>4 DEF HandleResult, RemoteTypeOK
  <2> QED
    BY <2>1 DEF OneExchange, RepliesInStep
<1>5. CASE ResultSeen \/ ResultTimesOut
  BY <1>5 DEF ResultSeen, ResultTimesOut, RemoteTypeOK, OneExchange, RepliesInStep
<1>6. CASE ServeRequest
  <2>1. PICK m \in wire : m.what = "request" /\
          \E answer \in {{}, {"accepted", "result"}, {"rejected"}} :
            wire' = (wire \ {m}) \cup {[m EXCEPT !.what = a] : a \in answer}
    BY <1>6 DEF ServeRequest
  <2>2. PICK answer \in {{}, {"accepted", "result"}, {"rejected"}} :
          wire' = (wire \ {m}) \cup {[m EXCEPT !.what = a] : a \in answer}
    BY <2>1
  <2>3. m \in Message
    BY DEF RemoteTypeOK
  <2>4. PICK reply \in {"accepted", "rejected"} : answer \subseteq {reply, "result"}
    BY <2>2
  <2>5. \A n \in wire' : n \in wire \/ n = [m EXCEPT !.what = reply]
                                    \/ n = [m EXCEPT !.what = "result"]
    BY <2>2, <2>4
  <2>6. \A a \in {reply, "result"} : LET n == [m EXCEPT !.what = a] IN
          n.what = a /\ n.id = m.id /\ n.socket = m.socket
    BY <2>3 DEF Message
  <2>7. client' = client
    BY <1>6 DEF ServeRequest
  <2>8. \A n \in wire' : n.socket <= client.socket
    BY <2>5, <2>6 DEF OneExchange
  <2>9. \A n \in wire' : Exchange(n) =>
          client.phase \in {"reply", "closed"} /\ n.id = client.id
    <3> SUFFICES ASSUME NEW n \in wire', Exchange(n)
                 PROVE  client.phase \in {"reply", "closed"} /\ n.id = client.id
      OBVIOUS
    <3>1. CASE n \in wire
      BY <3>1 DEF OneExchange
    <3>2. CASE n \notin wire
      <4>1. n.id = m.id /\ m.socket = client.socket
        BY <2>5, <2>6, <3>2
      <4> QED
        BY <2>1, <4>1 DEF OneExchange
    <3> QED
      BY <3>1, <3>2
  <2>10. ASSUME NEW n \in wire', NEW k \in wire', Exchange(n), Exchange(k)
         PROVE  n = k
    <3>1. CASE m.socket = client.socket
      <4>1. \A x \in wire : Exchange(x) => x = m
        BY <2>1, <3>1 DEF OneExchange
      <4>2. m \notin wire'
        BY <2>1, <2>2, <2>4, <2>6
      <4>3. n = [m EXCEPT !.what = reply] /\ k = [m EXCEPT !.what = reply]
        BY <2>5, <2>6, <2>10, <4>1, <4>2
      <4> QED
        BY <4>3
    <3>2. CASE m.socket # client.socket
      <4>1. n \in wire /\ k \in wire
        BY <2>5, <2>6, <2>10, <3>2
      <4> QED
        BY <2>10, <4>1 DEF OneExchange
    <3> QED
      BY <3>1, <3>2
  <2>11. OneExchange'
    BY <2>7, <2>8, <2>9, <2>10 DEF OneExchange
  <2> QED
    BY <2>7, <2>11 DEF RepliesInStep
<1> QED
  BY <1>1, <1>2, <1>3, <1>4, <1>5, <1>6 DEF RemoteClient

LEMMA ClientInv ==
  ASSUME RemoteInv, NEW b \in BOOLEAN, UNCHANGED wire,
         \/ client' = client
         \/ client' = OpenedClient
         \/ client' = ClosedClient
         \/ client' = Concluded(b) /\ client.phase \in {"answered", "failed"}
  PROVE  OneExchange' /\ RepliesInStep'
<1> USE DEF RemoteInv, Exchange
<1>1. client'.id = client.id /\ client'.socket \in {client.socket, client.socket + 1}
  BY DEF RemoteTypeOK, OpenedClient, ClosedClient, Concluded
<1>2. CASE client' = client
  BY <1>2 DEF OneExchange, RepliesInStep
<1>3. CASE client' = OpenedClient
  BY <1>3 DEF OpenedClient, RemoteTypeOK, Message, OneExchange, RepliesInStep
<1>4. CASE client' = ClosedClient
  BY <1>4 DEF ClosedClient, RemoteTypeOK, OneExchange, RepliesInStep
<1>5. CASE client' = Concluded(b) /\ client.phase \in {"answered", "failed"}
  BY <1>5 DEF Concluded, RemoteTypeOK, OneExchange, RepliesInStep
<1> QED
  BY <1>2, <1>3, <1>4, <1>5

---------------------------------------------------------------------------
(* Type correctness *)

Agents == [pc : Steps \cup {"idle"}, held : BOOLEAN, reached : BOOLEAN,
           process : 0..MaxLaunches, endpoint : 0..MaxLaunches,
           heard : SUBSET Processes]
Phases == Living \cup {"none", "dead"}

LEMMA NoAgentType == NoAgent \in Agents
  BY LinkAssumption DEF NoAgent, Agents

LEMMA AgentFieldType ==
  ASSUME NEW a \in Agents, NEW pc \in Steps \cup {"idle"}
  PROVE  [a EXCEPT !.pc = pc] \in Agents
  BY DEF Agents

LEMMA NextStepType ==
  ASSUME agent \in Agents
  PROVE  NextStep \in Steps \cup {"idle"}
  BY DEF NextStep, Agents, Steps, Graceful

Names == [goal : 0..MaxLaunches, cancel : 0..MaxLaunches, results : SUBSET Processes]
Orders == [phase : {"none", "running", "done", "lost"}, at : 0..MaxLaunches]
Hosts == [orphans : SUBSET Processes, missed : BOOLEAN]
Counts == [faults : 0..MaxFaults, restarts : 0..MaxRestarts]

LEMMA CountType ==
  ASSUME used \in Counts,
         FaultLeft, CountFault
  PROVE  used' \in Counts
  BY LinkAssumption DEF Counts, FaultLeft, CountFault

LEMMA SignalledType ==
  ASSUME NEW phase \in Phases
  PROVE  Signalled(phase) \subseteq Phases
  BY DEF Signalled, Phases, Living, Starting

LEMMA PhaseStepType ==
  ASSUME subnode \in [Processes -> Phases], NEW p \in Processes, NEW phase \in Phases
  PROVE  [subnode EXCEPT ![p] = phase] \in [Processes -> Phases]
  OBVIOUS

\* TypeOK with names for its sets.
Typed ==
  /\ RemoteTypeOK /\ remote \in BOOLEAN /\ agent \in Agents
  /\ subnode \in [Processes -> Phases] /\ master \in Names /\ goal \in Orders
  /\ ui \in Hosts /\ used \in Counts

LEMMA AllTyped == Typed <=> TypeOK
  BY DEF Typed, TypeOK, Agents, Phases, Names, Orders, Hosts, Counts

\* A step that leaves the remote channel alone keeps its types.
LEMMA RemoteUnchangedType ==
  ASSUME RemoteTypeOK, UNCHANGED remoteVars
  PROVE  RemoteTypeOK'
  BY DEF RemoteTypeOK, remoteVars

LEMMA InitType == Init => Typed
  BY LinkAssumption, RemoteAssumption, NoAgentType
     DEF Typed, Init, RemoteInit, RemoteTypeOK, NoNames, NoGoal, Phases, Names, Orders,
         Hosts, Counts

LEMMA StepType == Typed /\ [Next]_vars => Typed'
<1> SUFFICES ASSUME Typed, [Next]_vars PROVE Typed'
  OBVIOUS
<1> USE DEF Typed
<1>1. CASE InitializeAgent
  <2>1. agent' \in Agents
    BY <1>1, NoAgentType, AgentFieldType DEF InitializeAgent, Steps
  <2>2. RemoteTypeOK'
    BY <1>1, ClientType, FALSE \in BOOLEAN DEF InitializeAgent
  <2> QED
    BY <1>1, <2>1, <2>2 DEF InitializeAgent
<1>2. CASE ScanStale
  <2>1. agent' \in Agents
    BY <1>2, AgentFieldType DEF ScanStale, GoTo, Steps
  <2>2. RemoteTypeOK'
    BY <1>2, RemoteUnchangedType DEF ScanStale
  <2> QED
    BY <1>2, <2>1, <2>2 DEF ScanStale, Phases
<1>3. CASE ScanFails
  <2>1. agent' \in Agents
    BY <1>3, AgentFieldType DEF ScanFails, GoTo, Steps
  <2>2. RemoteTypeOK' /\ used' \in Counts
    BY <1>3, RemoteUnchangedType, CountType DEF ScanFails
  <2> QED
    BY <1>3, <2>1, <2>2 DEF ScanFails, Hosts
<1>4. CASE SweepStale
  <2>1. agent' \in Agents
    BY <1>4, AgentFieldType DEF SweepStale, GoTo, Steps
  <2>2. RemoteTypeOK'
    BY <1>4, RemoteUnchangedType DEF SweepStale
  <2>3. subnode' \in [Processes -> Phases]
    BY <1>4 DEF SweepStale, Swept, Phases
  <2> QED
    BY <1>4, <2>1, <2>2, <2>3 DEF SweepStale, Hosts
<1>5. CASE LaunchSubnode
  <2>1. RemoteTypeOK'
    BY <1>5, RemoteUnchangedType DEF LaunchSubnode
  <2>2. CASE GoTo("close") /\ UNCHANGED subnode
    <3>1. agent' \in Agents
      BY <2>2, AgentFieldType DEF GoTo, Steps
    <3> QED
      BY <1>5, <2>1, <2>2, <3>1 DEF LaunchSubnode
  <2>3. CASE ~(GoTo("close") /\ UNCHANGED subnode)
    <3>1. PICK p \in Processes :
            /\ subnode' = [subnode EXCEPT ![p] = "starting"]
            /\ agent' = [agent EXCEPT !.pc = "confirm", !.process = p]
      BY <1>5, <2>3 DEF LaunchSubnode
    <3>2. agent' \in Agents
      <4>1. p \in 0..MaxLaunches /\ "confirm" \in Steps \cup {"idle"}
        BY LinkAssumption DEF Processes, Steps
      <4> QED
        BY <3>1, <4>1 DEF Agents
    <3>3. subnode' \in [Processes -> Phases]
      BY <3>1, PhaseStepType DEF Phases, Living, Starting
    <3> QED
      BY <1>5, <2>1, <3>2, <3>3 DEF LaunchSubnode
  <2> QED
    BY <2>2, <2>3
<1>6. CASE ConfirmLaunch
  <2>1. agent' \in Agents
    BY <1>6, AgentFieldType DEF ConfirmLaunch, GoTo, Steps
  <2> QED
    BY <1>6, <2>1, RemoteUnchangedType DEF ConfirmLaunch
<1>7. CASE CreateActionClient
  <2>1. agent' \in Agents
    BY <1>7 DEF CreateActionClient, Agents, Steps, Names
  <2> QED
    BY <1>7, <2>1, RemoteUnchangedType DEF CreateActionClient
<1>8. CASE AwaitFails
  <2>1. agent' \in Agents
    BY <1>8, AgentFieldType DEF AwaitFails, GoTo, Steps
  <2> QED
    BY <1>8, <2>1, RemoteUnchangedType DEF AwaitFails
<1>9. CASE PingServer \/ SendRemoteCommand
  BY <1>9, RemoteStepType DEF PingServer, SendRemoteCommand, linkVars
<1>10. CASE PingEnds
  <2>1. agent' \in Agents
    <3>1. CASE agent' = [agent EXCEPT !.pc = "idle", !.held = TRUE]
      BY <3>1 DEF Agents
    <3>2. CASE \E step \in {"ping", "close"} : GoTo(step)
      BY <3>2, AgentFieldType DEF GoTo, Steps
    <3> QED
      BY <1>10, <3>1, <3>2 DEF PingEnds
  <2>2. RemoteTypeOK'
    BY <1>10, ClientType, TRUE \in BOOLEAN DEF PingEnds
  <2> QED
    BY <1>10, <2>1, <2>2 DEF PingEnds
<1>11. CASE SendCommand
  <2>1. goal' \in Orders
    BY <1>11 DEF SendCommand, Agents, Orders
  <2> QED
    BY <1>11, <2>1, RemoteUnchangedType DEF SendCommand
<1>12. CASE CallFails
  <2>1. agent' \in Agents
    BY <1>12, NextStepType DEF CallFails, EndpointAgain, Agents, Names
  <2> QED
    BY <1>12, <2>1, RemoteUnchangedType DEF CallFails
<1>13. CASE CommandAnswered
  <2>1. agent' \in Agents
    BY <1>13, NextStepType DEF CommandAnswered, Agents
  <2> QED
    BY <1>13, <2>1, RemoteUnchangedType, LinkAssumption DEF CommandAnswered, NoGoal, Orders
<1>14. CASE CommandTimesOut
  <2>1. agent' \in Agents
    BY <1>14, NextStepType, AgentFieldType DEF CommandTimesOut, GoTo
  <2>2. used' \in Counts
    BY <1>14, CountType DEF CommandTimesOut
  <2> QED
    BY <1>14, <2>1, <2>2, RemoteUnchangedType, LinkAssumption
       DEF CommandTimesOut, NoGoal, Orders
<1>15. CASE ConnectToPublishers
  <2>1. agent' \in Agents
    BY <1>15 DEF ConnectToPublishers, Agents, Names
  <2> QED
    BY <1>15, <2>1, RemoteUnchangedType DEF ConnectToPublishers
<1>16. CASE RemoteCommandEnds
  <2>1. agent' \in Agents
    BY <1>16 DEF RemoteCommandEnds, Agents
  <2>2. RemoteTypeOK'
    BY <1>16, ClientType, FALSE \in BOOLEAN DEF RemoteCommandEnds
  <2> QED
    BY <1>16, <2>1, <2>2 DEF RemoteCommandEnds
<1>17. CASE ReleaseAgent
  <2>1. agent' \in Agents
    BY <1>17, AgentFieldType DEF ReleaseAgent, GoTo, Steps, Graceful
  <2> QED
    BY <1>17, <2>1, RemoteUnchangedType DEF ReleaseAgent
<1>18. CASE CloseClients
  <2>1. agent' \in Agents
    <3>1. "terminate" \in Steps \cup {"idle"} /\ 0 \in 0..MaxLaunches
      BY LinkAssumption DEF Steps
    <3>2. CASE agent' = NoAgent
      BY <3>2, NoAgentType
    <3>3. CASE agent' = [agent EXCEPT !.pc = "terminate", !.endpoint = 0, !.heard = {}]
      BY <3>1, <3>3 DEF Agents
    <3> QED
      BY <1>18, <3>2, <3>3 DEF CloseClients
  <2>2. RemoteTypeOK'
    BY <1>18, ClientType, TRUE \in BOOLEAN DEF CloseClients
  <2> QED
    BY <1>18, <2>1, <2>2 DEF CloseClients
<1>19. CASE TerminateSubnode
  <2>1. agent' \in Agents
    BY <1>19, AgentFieldType DEF TerminateSubnode, GoTo, Steps
  <2>2. subnode' \in [Processes -> Phases]
    <3>1. PICK phase \in Signalled(subnode[agent.process]) :
            subnode' = [subnode EXCEPT ![agent.process] = phase]
      BY <1>19 DEF TerminateSubnode
    <3>2. CASE agent.process \in Processes
      BY <3>1, <3>2, SignalledType, PhaseStepType
    <3>3. CASE agent.process \notin Processes
      BY <3>1, <3>3
    <3> QED
      BY <3>2, <3>3
  <2> QED
    BY <1>19, <2>1, <2>2, RemoteUnchangedType DEF TerminateSubnode
<1>20. CASE SubnodeEnded
  <2>1. subnode' \in [Processes -> Phases]
    BY <1>20, PhaseStepType DEF SubnodeEnded, Killed, Alive, Phases
  <2> QED
    BY <1>20, <2>1, NoAgentType, RemoteUnchangedType DEF SubnodeEnded
<1>21. CASE ExecuteGoal
  <2>1. goal' \in Orders
    BY <1>21 DEF ExecuteGoal, Orders
  <2> QED
    BY <1>21, <2>1, RemoteUnchangedType DEF ExecuteGoal
<1>22. CASE Network
  BY <1>22, RemoteStepType DEF Network, linkVars
<1>23. CASE UiCrashes
  <2>1. RemoteTypeOK'
    BY <1>23, ClientType, TRUE \in BOOLEAN DEF UiCrashes
  <2>2. used' \in Counts
    BY <1>23, LinkAssumption DEF UiCrashes, Counts
  <2>3. ui' \in Hosts
    BY <1>23 DEF UiCrashes, Alive, Hosts
  <2> QED
    BY <1>23, <2>1, <2>2, <2>3, NoAgentType, LinkAssumption
       DEF UiCrashes, NoNames, NoGoal, Names, Orders
<1>24. ASSUME NEW p \in Processes, CreateActionServer(p) PROVE Typed'
  <2>1. After(subnode[p]) \in Phases
    BY <1>24 DEF CreateActionServer, After, Starting, Living, Phases
  <2>2. subnode' \in [Processes -> Phases]
    BY <1>24, <2>1, PhaseStepType DEF CreateActionServer
  <2>3. master' \in Names
    <3>1. After(subnode[p]) \in {"half", "named", "serving"} /\ p \in 0..MaxLaunches
      BY <1>24, LinkAssumption DEF CreateActionServer, After, Starting, Processes
    <3>2. RegisteredAs(p, After(subnode[p])) \in
            Names
      BY <3>1 DEF RegisteredAs, Names
    <3> QED
      BY <1>24, <3>2 DEF CreateActionServer
  <2>4. used' \in Counts
    BY <1>24, CountType DEF CreateActionServer
  <2> QED
    BY <1>24, <2>2, <2>3, <2>4, RemoteUnchangedType DEF CreateActionServer
<1>25. ASSUME NEW p \in Processes, LeaveMain(p) \/ SubnodeCrashes(p) PROVE Typed'
  <2>1. subnode' \in [Processes -> Phases]
    BY <1>25, PhaseStepType DEF LeaveMain, SubnodeCrashes, Phases
  <2>2. used' \in Counts
    BY <1>25, CountType DEF LeaveMain, SubnodeCrashes
  <2> QED
    BY <1>25, <2>1, <2>2, RemoteUnchangedType DEF LeaveMain, SubnodeCrashes
<1>26. CASE UNCHANGED vars
  BY <1>26, RemoteUnchangedType DEF vars, linkVars
<1> QED
  BY <1>1, <1>2, <1>3, <1>4, <1>5, <1>6, <1>7,
     <1>8, <1>9, <1>10, <1>11, <1>12, <1>13,
     <1>14, <1>15, <1>16, <1>17, <1>18,
     <1>19, <1>20, <1>21, <1>22, <1>23, <1>24,
     <1>25, <1>26
     DEF Next, Connecting, Commands, Disconnecting, MainThread

\* The agent, its processes, the master's names and the remote channel keep their
\* types, for every number of launches, faults, goals and crashes.
THEOREM TypeCorrect == Spec => []TypeOK
<1>1. Spec => Init /\ [][Next]_vars
  BY DEF Spec
<1> QED
  BY <1>1, InitType, StepType, AllTyped, PTL

---------------------------------------------------------------------------
(* Own subnodes *)

\* No process is known before one is launched, and none at all to a remote agent,
\* which does not go through the steps of a local one.
Childless == agent.pc \in {"scan", "sweep", "launch"} \/ (agent.pc = "idle" /\ ~agent.held)
AgentInv ==
  /\ Childless \/ remote => agent.process = 0
  /\ remote => agent.pc \in {"idle", "ping", "close"}
  /\ ~remote => agent.pc # "ping"
  /\ ~remote /\ MaySend => agent.endpoint # 0
  /\ agent.endpoint # 0 => master.goal # 0

\* A local goal is under way only between a command and its end.
GoalInv ==
  /\ goal.phase # "none" => MaySend /\ ~remote /\ goal.at \in Processes
  /\ CommandsReachOwnSubnode

\* Orphans: processes once launched; after a sweep none of them lives.
Cleaned == ~remote /\ ~ui.missed /\ agent.pc \notin {"scan", "sweep"}
           /\ ~(agent.pc = "idle" /\ ~agent.held)
HostInv ==
  /\ \A p \in ui.orphans : subnode[p] # "none"
  /\ Cleaned => ui.orphans \cap Alive = {}
  /\ OwnChildIsKnown

LinkInv == AgentInv /\ GoalInv /\ HostInv

LEMMA InitInv == Init => LinkInv
  BY DEF Init, LinkInv, AgentInv, GoalInv, HostInv, Childless, Cleaned, Alive, Living,
         Starting, NoAgent, NoNames, NoGoal, MaySend, Graceful, OwnChildIsKnown,
         CommandsReachOwnSubnode

LEMMA StepInv == Typed /\ LinkInv /\ [Next]_vars => LinkInv'
<1> SUFFICES ASSUME Typed, LinkInv, [Next]_vars PROVE LinkInv'
  OBVIOUS
<1> USE DEF Typed, Agents
<1> USE DEF LinkInv, AgentInv, GoalInv, HostInv, Childless, Cleaned, MaySend, Graceful,
            OwnChildIsKnown, CommandsReachOwnSubnode
<1>1. CASE InitializeAgent
  <2>1. AgentInv'
    BY <1>1 DEF InitializeAgent, NoAgent, Alive
  <2>2. GoalInv'
    BY <1>1 DEF InitializeAgent, NoAgent, Alive
  <2>3. HostInv'
    BY <1>1 DEF InitializeAgent, NoAgent, Alive
  <2> QED
    BY <2>1, <2>2, <2>3
<1>2. CASE ScanStale
  <2>1. AgentInv'
    BY <1>2 DEF ScanStale, GoTo, Alive, Signalled, Living, Starting
  <2>2. GoalInv'
    BY <1>2 DEF ScanStale, GoTo, Alive, Signalled, Living, Starting
  <2>3. HostInv'
    <3>1. \A p \in Processes : /\ subnode'[p] \in Living => subnode[p] \in Living
                               /\ subnode[p] # "none" => subnode'[p] # "none"
      BY <1>2 DEF ScanStale, Signalled, Living, Starting
    <3>2. Alive' \subseteq Alive
      BY <3>1 DEF Alive
    <3>3. ui' = ui /\ agent'.process = agent.process
      BY <1>2 DEF ScanStale, GoTo
    <3>4. agent'.pc \in {"launch", "sweep"} /\ (agent'.pc = "launch" => Alive = {})
      BY <1>2 DEF ScanStale, GoTo
    <3> QED
      BY <3>1, <3>2, <3>3, <3>4 DEF Hosts
  <2> QED
    BY <2>1, <2>2, <2>3
<1>3. CASE ScanFails
  <2>1. AgentInv'
    BY <1>3 DEF ScanFails, GoTo, Alive
  <2>2. GoalInv'
    BY <1>3 DEF ScanFails, GoTo, Alive
  <2>3. HostInv'
    <3>1. /\ Alive' = Alive /\ subnode' = subnode /\ agent'.process = agent.process
          /\ ui'.orphans = ui.orphans /\ (~ui'.missed => Alive = {})
      BY <1>3 DEF ScanFails, GoTo, Alive, Hosts
    <3> QED
      BY <3>1
  <2> QED
    BY <2>1, <2>2, <2>3
<1>4. CASE SweepStale
  <2>1. AgentInv'
    BY <1>4 DEF SweepStale, Swept, GoTo, Alive, Living, Starting
  <2>2. GoalInv'
    BY <1>4 DEF SweepStale, Swept, GoTo, Alive, Living, Starting
  <2>3. HostInv'
    <3>1. Alive' = {} /\ \A p \in Processes : subnode[p] # "none" => subnode'[p] # "none"
      BY <1>4 DEF SweepStale, Swept, Alive, Living, Starting
    <3>2. ui'.orphans = ui.orphans /\ ui.orphans \subseteq Processes
      BY <1>4 DEF SweepStale, Hosts
    <3> QED
      BY <3>1, <3>2
  <2> QED
    BY <2>1, <2>2, <2>3
<1>5. CASE LaunchSubnode
  <2>1. AgentInv'
    BY <1>5 DEF LaunchSubnode, GoTo, Alive, Living, Starting
  <2>2. GoalInv'
    BY <1>5 DEF LaunchSubnode, GoTo, Alive, Living, Starting
  <2>3. HostInv'
    <3>1. CASE GoTo("close") /\ UNCHANGED subnode
      BY <1>5, <3>1 DEF LaunchSubnode, GoTo, Alive
    <3>2. CASE ~(GoTo("close") /\ UNCHANGED subnode)
      <4>1. PICK p \in Processes :
              /\ subnode[p] = "none" /\ subnode' = [subnode EXCEPT ![p] = "starting"]
              /\ agent' = [agent EXCEPT !.pc = "confirm", !.process = p]
        BY <1>5, <3>2 DEF LaunchSubnode
      <4>2. /\ Alive' \subseteq Alive \cup {p} /\ p \notin ui.orphans /\ p \notin Alive
            /\ \A q \in Processes : subnode[q] # "none" => subnode'[q] # "none"
        BY <4>1 DEF Alive, Living, Starting
      <4>3. agent.pc = "launch" /\ agent.process = 0 /\ ui' = ui /\ agent'.process = p
        BY <1>5, <4>1 DEF LaunchSubnode
      <4>4. Alive \subseteq ui.orphans
        BY <4>3 DEF Alive, Processes
      <4>5. remote' = remote /\ ui.orphans \subseteq Processes
        BY <1>5 DEF LaunchSubnode, Hosts
      <4> QED
        BY <4>2, <4>3, <4>4, <4>5
    <3> QED
      BY <3>1, <3>2
  <2> QED
    BY <2>1, <2>2, <2>3
<1>6. CASE ConfirmLaunch
  <2>1. AgentInv'
    BY <1>6 DEF ConfirmLaunch, GoTo, Alive
  <2>2. GoalInv'
    BY <1>6 DEF ConfirmLaunch, GoTo, Alive
  <2>3. HostInv'
    BY <1>6 DEF ConfirmLaunch, GoTo, Alive
  <2> QED
    BY <2>1, <2>2, <2>3
<1>7. CASE CreateActionClient
  <2>1. AgentInv'
    BY <1>7 DEF CreateActionClient, Registered, Alive
  <2>2. GoalInv'
    BY <1>7 DEF CreateActionClient, Registered, Alive
  <2>3. HostInv'
    BY <1>7 DEF CreateActionClient, Registered, Alive
  <2> QED
    BY <2>1, <2>2, <2>3
<1>8. CASE AwaitFails
  <2>1. AgentInv'
    BY <1>8 DEF AwaitFails, GoTo, Alive
  <2>2. GoalInv'
    BY <1>8 DEF AwaitFails, GoTo, Alive
  <2>3. HostInv'
    BY <1>8 DEF AwaitFails, GoTo, Alive
  <2> QED
    BY <2>1, <2>2, <2>3
<1>9. CASE PingServer \/ SendRemoteCommand \/ Network
  <2>1. AgentInv'
    BY <1>9 DEF PingServer, SendRemoteCommand, Network, linkVars, Alive
  <2>2. GoalInv'
    BY <1>9 DEF PingServer, SendRemoteCommand, Network, linkVars, Alive
  <2>3. HostInv'
    BY <1>9 DEF PingServer, SendRemoteCommand, Network, linkVars, Alive
  <2> QED
    BY <2>1, <2>2, <2>3
<1>10. CASE PingEnds
  <2>1. AgentInv'
    BY <1>10 DEF PingEnds, GoTo, Alive
  <2>2. GoalInv'
    BY <1>10 DEF PingEnds, GoTo, Alive
  <2>3. HostInv'
    BY <1>10 DEF PingEnds, GoTo, Alive
  <2> QED
    BY <2>1, <2>2, <2>3
<1>11. CASE SendCommand
  <2>1. AgentInv'
    BY <1>11 DEF SendCommand, Alive, Accepting, Living, Starting
  <2>2. GoalInv'
    <3>1. agent.endpoint \in Processes /\ agent.endpoint \in Alive
      BY <1>11 DEF SendCommand, Processes, Alive, Accepting, Living, Starting
    <3>2. ~ui.missed => agent.endpoint = agent.process
      BY <1>11, <3>1 DEF SendCommand
    <3> QED
      BY <1>11, <3>1, <3>2 DEF SendCommand
  <2>3. HostInv'
    BY <1>11 DEF SendCommand, Alive, Accepting, Living, Starting
  <2> QED
    BY <2>1, <2>2, <2>3
<1>12. CASE CallFails
  <2>1. AgentInv'
    BY <1>12 DEF CallFails, EndpointAgain, NextStep, Alive
  <2>2. GoalInv'
    BY <1>12 DEF CallFails, EndpointAgain, NextStep, Alive
  <2>3. HostInv'
    BY <1>12 DEF CallFails, EndpointAgain, NextStep, Alive
  <2> QED
    BY <2>1, <2>2, <2>3
<1>13. CASE CommandAnswered
  <2>1. AgentInv'
    BY <1>13 DEF CommandAnswered, NoGoal, NextStep, Alive
  <2>2. GoalInv'
    BY <1>13 DEF CommandAnswered, NoGoal, NextStep, Alive
  <2>3. HostInv'
    BY <1>13 DEF CommandAnswered, NoGoal, NextStep, Alive
  <2> QED
    BY <2>1, <2>2, <2>3
<1>14. CASE CommandTimesOut
  <2>1. AgentInv'
    BY <1>14 DEF CommandTimesOut, NoGoal, NextStep, GoTo, Alive
  <2>2. GoalInv'
    BY <1>14 DEF CommandTimesOut, NoGoal, NextStep, GoTo, Alive
  <2>3. HostInv'
    BY <1>14 DEF CommandTimesOut, NoGoal, NextStep, GoTo, Alive
  <2> QED
    BY <2>1, <2>2, <2>3
<1>15. CASE ConnectToPublishers
  <2>1. AgentInv'
    BY <1>15 DEF ConnectToPublishers, Alive
  <2>2. GoalInv'
    BY <1>15 DEF ConnectToPublishers, Alive
  <2>3. HostInv'
    BY <1>15 DEF ConnectToPublishers, Alive
  <2> QED
    BY <2>1, <2>2, <2>3
<1>16. CASE RemoteCommandEnds
  <2>1. AgentInv'
    BY <1>16 DEF RemoteCommandEnds, Alive
  <2>2. GoalInv'
    BY <1>16 DEF RemoteCommandEnds, Alive
  <2>3. HostInv'
    BY <1>16 DEF RemoteCommandEnds, Alive
  <2> QED
    BY <2>1, <2>2, <2>3
<1>17. CASE ReleaseAgent
  <2>1. AgentInv'
    BY <1>17 DEF ReleaseAgent, GoTo, Alive
  <2>2. GoalInv'
    BY <1>17 DEF ReleaseAgent, GoTo, Alive
  <2>3. HostInv'
    BY <1>17 DEF ReleaseAgent, GoTo, Alive
  <2> QED
    BY <2>1, <2>2, <2>3
<1>18. CASE CloseClients
  <2>1. AgentInv'
    BY <1>18 DEF CloseClients, NoAgent, Alive
  <2>2. GoalInv'
    BY <1>18 DEF CloseClients, NoAgent, Alive
  <2>3. HostInv'
    BY <1>18 DEF CloseClients, NoAgent, Alive
  <2> QED
    BY <2>1, <2>2, <2>3
<1>19. CASE TerminateSubnode
  <2>1. AgentInv'
    BY <1>19 DEF TerminateSubnode, Signalled, GoTo, Alive, Living, Starting
  <2>2. GoalInv'
    BY <1>19 DEF TerminateSubnode, Signalled, GoTo, Alive, Living, Starting
  <2>3. HostInv'
    BY <1>19 DEF TerminateSubnode, Signalled, GoTo, Alive, Living, Starting
  <2> QED
    BY <2>1, <2>2, <2>3
<1>20. CASE SubnodeEnded
  <2>1. AgentInv'
    BY <1>20 DEF SubnodeEnded, Killed, NoAgent, Alive, Living, Starting
  <2>2. GoalInv'
    BY <1>20 DEF SubnodeEnded, Killed, NoAgent, Alive, Living, Starting
  <2>3. HostInv'
    BY <1>20 DEF SubnodeEnded, Killed, NoAgent, Alive, Living, Starting
  <2> QED
    BY <2>1, <2>2, <2>3
<1>21. CASE ExecuteGoal
  <2>1. AgentInv'
    BY <1>21 DEF ExecuteGoal, Alive
  <2>2. GoalInv'
    BY <1>21 DEF ExecuteGoal, Alive
  <2>3. HostInv'
    BY <1>21 DEF ExecuteGoal, Alive
  <2> QED
    BY <2>1, <2>2, <2>3
<1>22. CASE UiCrashes
  <2>1. AgentInv'
    BY <1>22 DEF UiCrashes, NoAgent, NoNames, NoGoal, Alive, Living, Starting
  <2>2. GoalInv'
    BY <1>22 DEF UiCrashes, NoAgent, NoNames, NoGoal, Alive, Living, Starting
  <2>3. HostInv'
    BY <1>22 DEF UiCrashes, NoAgent, NoNames, NoGoal, Alive, Living, Starting
  <2> QED
    BY <2>1, <2>2, <2>3
<1>23. ASSUME NEW p \in Processes, MainThread(p) \/ SubnodeCrashes(p) PROVE LinkInv'
  <2>1. /\ Alive' \subseteq Alive
        /\ \A q \in Processes : subnode[q] # "none" => subnode'[q] # "none"
    BY <1>23 DEF MainThread, CreateActionServer, LeaveMain, SubnodeCrashes, After, Alive,
          Living, Starting
  <2>2. agent' = agent /\ goal' = goal /\ ui' = ui /\ remote' = remote
    BY <1>23 DEF MainThread, CreateActionServer, LeaveMain, SubnodeCrashes
  <2>3. master.goal # 0 => master'.goal # 0
    <3>1. p # 0
      BY DEF Processes
    <3>2. CASE master' = master
      BY <3>2
    <3>3. CASE master' = RegisteredAs(p, After(subnode[p])) /\ subnode[p] \in Starting
      BY <3>1, <3>3 DEF RegisteredAs, After, Starting, Names
    <3> QED
      BY <1>23, <3>2, <3>3 DEF MainThread, CreateActionServer, LeaveMain, SubnodeCrashes
  <2>4. ui.orphans \subseteq Processes
    BY DEF Hosts
  <2> QED
    BY <2>1, <2>2, <2>3, <2>4
<1>24. CASE UNCHANGED vars
  BY <1>24 DEF vars, linkVars, Alive
<1> QED
  BY <1>1, <1>2, <1>3, <1>4, <1>5, <1>6, <1>7,
     <1>8, <1>9, <1>10, <1>11, <1>12, <1>13,
     <1>14, <1>15, <1>16, <1>17, <1>18,
     <1>19, <1>20, <1>21, <1>22, <1>23, <1>24
     DEF Next, Connecting, Commands, Disconnecting


\* What a step does to the remote channel.
LEMMA ChannelStep ==
  ASSUME [Next]_vars
  PROVE  \/ SendRemoteGoal \/ RemoteClient \/ ServeRequest
         \/ UNCHANGED wire /\ client' \in {client, OpenedClient, ClosedClient}
         \/ /\ UNCHANGED wire /\ client.phase \in {"answered", "failed"}
            /\ \E b \in BOOLEAN : client' = Concluded(b)
<1> USE DEF remoteVars
<1>1. CASE Connecting
  BY <1>1 DEF Connecting, ScanStale, ScanFails, SweepStale, LaunchSubnode, ConfirmLaunch,
        CreateActionClient, AwaitFails, PingServer, PingEnds
<1>2. CASE Commands \/ Network
  BY <1>2 DEF Commands, SendCommand, CallFails, CommandAnswered, CommandTimesOut,
        SendRemoteCommand, RemoteCommandEnds, Network
<1>3. CASE InitializeAgent \/ ReleaseAgent \/ Disconnecting \/ UiCrashes
  BY <1>3 DEF InitializeAgent, ReleaseAgent, Disconnecting, CloseClients, TerminateSubnode,
        SubnodeEnded, UiCrashes
<1>4. CASE ConnectToPublishers \/ ExecuteGoal
           \/ \E p \in Processes : MainThread(p) \/ SubnodeCrashes(p)
  BY <1>4 DEF ConnectToPublishers, ExecuteGoal, MainThread, CreateActionServer, LeaveMain,
        SubnodeCrashes
<1>5. CASE UNCHANGED vars
  BY <1>5 DEF vars
<1> QED
  BY <1>1, <1>2, <1>3, <1>4, <1>5 DEF Next

LEMMA ChannelStepInv ==
  Typed /\ OneExchange /\ RepliesInStep /\ [Next]_vars => OneExchange' /\ RepliesInStep'
<1> SUFFICES ASSUME Typed, OneExchange, RepliesInStep, [Next]_vars
             PROVE  OneExchange' /\ RepliesInStep'
  OBVIOUS
<1>1. RemoteInv
  BY DEF RemoteInv, Typed
<1>2. CASE SendRemoteGoal \/ RemoteClient \/ ServeRequest
  BY <1>1, <1>2, RemoteStepInv
<1>3. CASE UNCHANGED wire /\ client' \in {client, OpenedClient, ClosedClient}
  BY <1>1, <1>3, ClientInv, TRUE \in BOOLEAN
<1>4. CASE /\ UNCHANGED wire /\ client.phase \in {"answered", "failed"}
           /\ \E b \in BOOLEAN : client' = Concluded(b)
  BY <1>1, <1>4, ClientInv
<1> QED
  BY <1>2, <1>3, <1>4, ChannelStep

\* A goal of LegacyRemoteActionClient is only taken for accepted on its own reply: a
\* request socket that has lost its step is replaced, for any number of goals and any
\* delay, loss or refusal.
THEOREM OwnReply == Spec => []RepliesInStep
<1>1. Init => OneExchange /\ RepliesInStep
  BY DEF Init, RemoteInit, OneExchange, RepliesInStep
<1>2. Spec => [](Typed /\ OneExchange /\ RepliesInStep)
  BY <1>1, InitType, StepType, ChannelStepInv, PTL DEF Spec
<1> QED
  BY <1>2, PTL

LEMMA LinkCorrect == Spec => []LinkInv
  BY InitType, StepType, InitInv, StepInv, PTL DEF Spec

\* No failed connection and no release leaves a subnode of this UI process behind: what
\* it has launched and still lives is the process it can terminate.
THEOREM NoChildLeft == Spec => []OwnChildIsKnown
<1>1. LinkInv => OwnChildIsKnown
  BY DEF LinkInv, HostInv
<1> QED
  BY <1>1, LinkCorrect, PTL

\* Unless a scan for stale subnodes has failed, a command goes to the subnode that
\* the agent has launched, although names outlive the processes behind them.
THEOREM OwnSubnodeServes == Spec => []CommandsReachOwnSubnode
<1>1. LinkInv => CommandsReachOwnSubnode
  BY DEF LinkInv, GoalInv
<1> QED
  BY <1>1, LinkCorrect, PTL
=============================================================================
