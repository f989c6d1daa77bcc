----------------------- MODULE AgentSupervisionProofs -----------------------
(***************************************************************************)
(* Machine-checked proofs about AgentSupervision, for every set of request *)
(* ids, every set of user operations and every bound.                      *)
(***************************************************************************)
EXTENDS AgentSupervision, TLAPS

USE DEF AgentStates

---------------------------------------------------------------------------
(* Type correctness *)

\* A device command leaves the device in one of its states, whatever its
\* outcome (BspDevice::initialize, start, stop, release).
LEMMA DeviceAfterType ==
  ASSUME device \in DeviceStates, NEW op, NEW success \in BOOLEAN
  PROVE  DeviceAfter(op, success) \in DeviceStates
  BY DEF DeviceAfter, DeviceStates

LEMMA SucceedsType ==
  ASSUME device \in DeviceStates, NEW op
  PROVE  Succeeds(op) \in BOOLEAN
  BY DEF Succeeds, DeviceStates

LEMMA FreshIdExists ==
  ASSUME FreshIds # {}
  PROVE  (CHOOSE id \in FreshIds : TRUE) \in FreshIds
  OBVIOUS

\* Moving one of the threads on, or using up a bound, keeps its record typed.
LEMMA WorkerGotoType ==
  ASSUME worker \in WorkerStates, NEW pc \in WorkerPcs, NEW ok \in BOOLEAN,
         WorkerGoto(pc, ok)
  PROVE  worker' \in WorkerStates
  BY DEF WorkerStates, WorkerGoto

LEMMA WorkerTakesType ==
  ASSUME worker \in WorkerStates, NEW cmd \in Commands, WorkerTakes(cmd)
  PROVE  worker' \in WorkerStates
  BY DEF WorkerStates, WorkerTakes, WorkerPcs

LEMMA WatchdogGotoType ==
  ASSUME wd \in WatchdogStates, NEW pc \in WatchdogPcs, WatchdogGoto(pc)
  PROVE  wd' \in WatchdogStates
  BY DEF WatchdogStates, WatchdogGoto

LEMMA UsageType ==
  ASSUME used \in Usage
  PROVE  /\ [used EXCEPT !.user = @ + 1] \in Usage
         /\ [used EXCEPT !.faults = @ + 1] \in Usage
         /\ [used EXCEPT !.plugs = @ + 1] \in Usage
  BY DEF Usage

LEMMA MarkAgentType ==
  ASSUME reg \in AgentStates, NEW state \in AgentStates
  PROVE  MarkAgent(reg, state) \in AgentStates
  BY DEF MarkAgent

\* A head can be taken off a nonempty queue.
LEMMA QueueTake ==
  ASSUME NEW C, NEW q \in Seq(C), q # <<>>
  PROVE  /\ Head(q) \in C /\ Tail(q) \in Seq(C)
         /\ Len(q) \in Nat \ {0} /\ Len(Tail(q)) = Len(q) - 1
         /\ Head(q) = q[1]
         /\ \A i \in 1..Len(Tail(q)) : Tail(q)[i] = q[i + 1]
  OBVIOUS

\* The constants satisfy their assumptions, the queues hold commands, the
\* program counters and the device stay in their ranges.
THEOREM TypeCorrect == Spec => []TypeOK
<1>1. Init => TypeOK
  <2> SUFFICES ASSUME Init PROVE TypeOK
    OBVIOUS
  <2>1. reg \in AgentStates /\ restore \in BOOLEAN /\ agentUp \in BOOLEAN
    BY DEF Init
  <2>2. device \in DeviceStates
    BY DEF Init, DeviceStates
  <2>3. urgentQueue \in Seq(Commands) /\ commandQueue \in Seq(AsyncCommands)
    BY DEF Init, Commands, AsyncCommands, Cmd, Ops, ManagerOps
  <2>4. /\ DOMAIN syncResults \subseteq RequestIds
        /\ syncResults \in [DOMAIN syncResults -> BOOLEAN]
    BY DEF Init
  <2>5. worker \in WorkerStates /\ wd \in WatchdogStates /\ used \in Usage
    BY DEF Init, WorkerStates, WorkerPcs, WatchdogStates, WatchdogPcs, Usage
  <2> QED
    BY <2>1, <2>2, <2>3, <2>4, <2>5 DEF TypeOK
<1>2. TypeOK /\ [Next]_vars => TypeOK'
  <2> SUFFICES ASSUME TypeOK, [Next]_vars PROVE TypeOK'
    OBVIOUS
  <2>1. CASE UserCommand
    <3>1. \A op \in UserOps : Cmd(op, NoReq) \in AsyncCommands
      BY SupervisionAssumption DEF AsyncCommands, Cmd
    <3> QED
      BY <2>1, <3>1, UsageType DEF UserCommand, TypeOK
  <2>2. CASE PlugEvent
    <3>1. [device EXCEPT !.present = ~@, !.live = FALSE] \in DeviceStates
      BY DEF DeviceStates, TypeOK
    <3> QED
      BY <2>2, <3>1, UsageType DEF PlugEvent, TypeOK
  <2>3. CASE WorkerTakeUrgent
    BY <2>3, QueueTake, WorkerTakesType DEF WorkerTakeUrgent, TypeOK
  <2>4. CASE WorkerTakeNormal
    <3>1. AsyncCommands \subseteq Commands
      BY DEF AsyncCommands, Commands
    <3> QED
      BY <2>4, <3>1, QueueTake, WorkerTakesType DEF WorkerTakeNormal, TypeOK
  <2>5. CASE BeginAgentCommand
    <3>1. worker' \in WorkerStates
      BY <2>5, WorkerGotoType DEF BeginAgentCommand, WorkerPcs, TypeOK
    <3>2. reg' \in AgentStates
      BY <2>5, MarkAgentType DEF BeginAgentCommand, MarkAgentInitializing, TypeOK
    <3> QED
      BY <2>5, <3>1, <3>2 DEF BeginAgentCommand, TypeOK
  <2>6. CASE ConnectAgent
    <3>1. worker' \in WorkerStates
      BY <2>6, WorkerGotoType DEF ConnectAgent, WorkerPcs, TypeOK
    <3> QED
      BY <2>6, <3>1, UsageType DEF ConnectAgent, Fault, TypeOK
  <2>7. CASE RegisterAgent
    <3>1. worker' \in WorkerStates
      BY <2>7, WorkerGotoType DEF RegisterAgent, WorkerPcs, TypeOK
    <3> QED
      BY <2>7, <3>1 DEF RegisterAgent, RegisterPrimaryAgent, TypeOK
  <2>8. CASE WithdrawAgent
    <3>1. worker' \in WorkerStates
      BY <2>8, WorkerGotoType DEF WithdrawAgent, WorkerPcs, TypeOK
    <3> QED
      BY <2>8, <3>1 DEF WithdrawAgent, UnregisterPrimaryAgent, TypeOK
  <2>9. CASE ReleaseAgent
    <3>1. worker' \in WorkerStates
      BY <2>9, WorkerGotoType DEF ReleaseAgent, WorkerPcs, TypeOK
    <3>2. device' \in DeviceStates
      BY <2>9 DEF ReleaseAgent, DeviceStates, TypeOK
    <3> QED
      BY <2>9, <3>1, <3>2 DEF ReleaseAgent, TypeOK
  <2>10. CASE RunDevice
    <3>1. Succeeds(worker.cmd.op) \in BOOLEAN
      BY SucceedsType DEF TypeOK
    <3>2. worker' \in WorkerStates
      BY <2>10, <3>1, WorkerGotoType DEF RunDevice, WorkerPcs, TypeOK
    <3>3. device' \in DeviceStates
      BY <2>10, <3>1, DeviceAfterType DEF RunDevice, TypeOK
    <3> QED
      BY <2>10, <3>2, <3>3, UsageType DEF RunDevice, Fault, TypeOK
  <2>11. CASE MarkAfterCommand
    <3>1. worker.ok \in BOOLEAN
      BY DEF TypeOK, WorkerStates
    <3>2. worker' \in WorkerStates
      BY <2>11, <3>1, WorkerGotoType DEF MarkAfterCommand, WorkerPcs, TypeOK
    <3>3. reg' \in AgentStates
      BY <2>11, MarkAgentType
      DEF MarkAfterCommand, MarkAgentHealthy, MarkAgentDisconnected, TypeOK
    <3>4. restore' \in BOOLEAN
      BY <2>11, <3>1 DEF MarkAfterCommand, TypeOK
    <3> QED
      BY <2>11, <3>2, <3>3, <3>4 DEF MarkAfterCommand, TypeOK
  <2>12. CASE Reply
    <3>1. worker' \in WorkerStates
      BY <2>12 DEF Reply, WorkerStates, WorkerPcs
    <3>2. worker.ok \in BOOLEAN /\ worker.cmd.req \in RequestIds \cup {NoReq}
      BY DEF TypeOK, WorkerStates, Commands, NoCmd
    <3>3. /\ DOMAIN syncResults' \subseteq RequestIds
          /\ syncResults' \in [DOMAIN syncResults' -> BOOLEAN]
      BY <2>12, <3>2 DEF Reply, TypeOK
    <3> QED
      BY <2>12, <3>1, <3>3 DEF Reply, TypeOK
  <2>13. CASE BeginCheck
    BY <2>13, WatchdogGotoType DEF BeginCheck, WatchdogPcs, TypeOK
  <2>14. CASE SendCheck \/ SendInit \/ SendStart
    <3>1. PICK req \in RequestIds, op \in AgentCommands, pc \in WatchdogPcs :
            /\ urgentQueue' = Append(urgentQueue, Cmd(op, req))
            /\ wd' = [pc |-> pc, req |-> req]
      BY <2>14, FreshIdExists
      DEF SendCheck, SendInit, SendStart, SendUrgentSync, FreshIds,
          AgentCommands, WatchdogPcs
    <3>2. Cmd(op, req) \in Commands
      BY DEF Cmd, Commands, Ops
    <3>3. wd' \in WatchdogStates
      BY <3>1 DEF WatchdogStates
    <3> QED
      BY <2>14, <3>1, <3>2, <3>3
      DEF SendCheck, SendInit, SendStart, SendUrgentSync, TypeOK
  <2>15. CASE CheckResult \/ InitResult \/ StartResult
    <3>1. wd' \in WatchdogStates
      BY <2>15 DEF CheckResult, InitResult, StartResult, SyncResult,
                   WatchdogPcs, WatchdogStates
    <3>2. /\ DOMAIN syncResults' \subseteq RequestIds
          /\ syncResults' \in [DOMAIN syncResults' -> BOOLEAN]
      BY <2>15 DEF CheckResult, InitResult, StartResult, SyncResult, TypeOK
    <3> QED
      BY <2>15, <3>1, <3>2
      DEF CheckResult, InitResult, StartResult, SyncResult, TypeOK
  <2>16. CASE CheckTimeout \/ InitTimeout \/ StartTimeout
    <3>1. wd' \in WatchdogStates
      BY <2>16 DEF CheckTimeout, InitTimeout, StartTimeout, SyncTimeout,
                   WatchdogPcs, WatchdogStates
    <3> QED
      BY <2>16, <3>1, UsageType
      DEF CheckTimeout, InitTimeout, StartTimeout, SyncTimeout, Fault, TypeOK
  <2>17. CASE HandleCheckSuccess
    <3>1. wd' \in WatchdogStates
      BY <2>17, WatchdogGotoType DEF HandleCheckSuccess, WatchdogPcs, TypeOK
    <3> QED
      BY <2>17, <3>1 DEF HandleCheckSuccess, AfterCheckSuccess, TypeOK
  <2>18. CASE HandleCheckFailure
    <3>1. wd' \in WatchdogStates
      BY <2>18, WatchdogGotoType DEF HandleCheckFailure, WatchdogPcs, TypeOK
    <3> QED
      BY <2>18, <3>1
      DEF HandleCheckFailure, AfterCheckFailure, Registered, TypeOK
  <2>19. CASE ExecuteEstop
    <3>1. Cmd("EMERGENCY_STOP", NoReq) \in Commands
      BY DEF Cmd, Commands, Ops, ManagerOps
    <3> QED
      BY <2>19, <3>1, WatchdogGotoType DEF ExecuteEstop, WatchdogPcs, TypeOK
  <2>20. CASE ReadRestore
    <3>1. wd' \in WatchdogStates
      BY <2>20, WatchdogGotoType DEF ReadRestore, WatchdogPcs, TypeOK
    <3> QED
      BY <2>20, <3>1 DEF ReadRestore, TypeOK
  <2>21. CASE FinishInit
    <3>1. reg' \in AgentStates
      BY <2>21, MarkAgentType DEF FinishInit, AfterInitDevice, TypeOK
    <3> QED
      BY <2>21, <3>1, WatchdogGotoType DEF FinishInit, WatchdogPcs, TypeOK
  <2>22. CASE UNCHANGED vars
    BY <2>22 DEF vars, TypeOK
  <2> QED
    BY <2>1, <2>2, <2>3, <2>4, <2>5, <2>6, <2>7, <2>8, <2>9, <2>10, <2>11,
       <2>12, <2>13, <2>14, <2>15, <2>16, <2>17, <2>18, <2>19, <2>20, <2>21,
       <2>22
    DEF Next, WorkerStep, WatchdogProgress, WatchdogTimeout
<1> QED
  BY <1>1, <1>2, PTL DEF Spec

---------------------------------------------------------------------------
(* Nobody is left initializing *)

\* InitializingIsOwned is inductive on its own: the step that ends an init
\* procedure is the one that writes the outcome (agent_watchdog.cpp:451-473,
\* agent_manager_process.cpp:446-454).
THEOREM InitializingOwned == Spec => []InitializingIsOwned
<1>1. Init => InitializingIsOwned
  BY DEF Init, InitializingIsOwned
<1>2. TypeOK /\ InitializingIsOwned /\ [Next]_vars => InitializingIsOwned'
  <2> SUFFICES ASSUME TypeOK, InitializingIsOwned, [Next]_vars
               PROVE  InitializingIsOwned'
    OBVIOUS
  <2> USE DEF InitializingIsOwned, InInitProcedure, WorkerRunsInit
  <2>1. worker \in WorkerStates /\ wd \in WatchdogStates /\ reg \in AgentStates
    BY DEF TypeOK
  <2>2. CASE UserCommand \/ PlugEvent
    BY <2>2 DEF UserCommand, PlugEvent
  <2>3. CASE WorkerTakeUrgent \/ WorkerTakeNormal
    BY <2>3, <2>1
    DEF WorkerTakeUrgent, WorkerTakeNormal, WorkerTakes, WorkerStates
  <2>4. CASE BeginAgentCommand
    BY <2>4, <2>1 DEF BeginAgentCommand, WorkerGoto, WorkerStates
  <2>5. CASE ConnectAgent
    BY <2>5, <2>1 DEF ConnectAgent, WorkerGoto, WorkerStates
  <2>6. CASE RegisterAgent
    BY <2>6, <2>1
    DEF RegisterAgent, RegisterPrimaryAgent, WorkerGoto, WorkerStates
  <2>7. CASE WithdrawAgent \/ ReleaseAgent
    BY <2>7, <2>1
    DEF WithdrawAgent, ReleaseAgent, UnregisterPrimaryAgent, WorkerGoto,
        WorkerStates
  <2>8. CASE RunDevice
    <3>1. worker.cmd' = worker.cmd
      BY <2>8, <2>1 DEF RunDevice, WorkerGoto, WorkerStates
    <3>2. worker.cmd.op = "init_device" => worker'.pc = "post"
      BY <2>8, <2>1 DEF RunDevice, WorkerGoto, WorkerStates, MarkedCommands
    <3> QED
      BY <2>8, <3>1, <3>2 DEF RunDevice
  <2>9. CASE MarkAfterCommand
    BY <2>9, <2>1
    DEF MarkAfterCommand, WorkerGoto, WorkerStates, MarkAgentHealthy,
        MarkAgentDisconnected, MarkAgent, Registered
  <2>10. CASE Reply
    BY <2>10, <2>1 DEF Reply
  <2>11. CASE BeginCheck \/ ExecuteEstop
    BY <2>11, <2>1 DEF BeginCheck, ExecuteEstop, WatchdogGoto, WatchdogStates
  <2>12. CASE SendCheck \/ SendInit \/ SendStart
    BY <2>12, <2>1 DEF SendCheck, SendInit, SendStart, SendUrgentSync
  <2>13. CASE CheckResult \/ InitResult \/ StartResult
    BY <2>13, <2>1 DEF CheckResult, InitResult, StartResult, SyncResult
  <2>14. CASE CheckTimeout \/ InitTimeout \/ StartTimeout
    BY <2>14, <2>1 DEF CheckTimeout, InitTimeout, StartTimeout, SyncTimeout
  <2>15. CASE HandleCheckSuccess
    BY <2>15, <2>1
    DEF HandleCheckSuccess, AfterCheckSuccess, StartsRecovery, WatchdogGoto,
        WatchdogStates
  <2>16. CASE HandleCheckFailure
    BY <2>16, <2>1
    DEF HandleCheckFailure, AfterCheckFailure, IsLoss, WatchdogGoto,
        WatchdogStates
  <2>17. CASE ReadRestore
    BY <2>17, <2>1 DEF ReadRestore, WatchdogGoto, WatchdogStates
  <2>18. CASE FinishInit
    BY <2>18, <2>1
    DEF FinishInit, AfterInitDevice, MarkAgent, Registered
  <2>19. CASE UNCHANGED vars
    BY <2>19 DEF vars
  <2> QED
    BY <2>2, <2>3, <2>4, <2>5, <2>6, <2>7, <2>8, <2>9, <2>10, <2>11, <2>12,
       <2>13, <2>14, <2>15, <2>16, <2>17, <2>18, <2>19
    DEF Next, WorkerStep, WatchdogProgress, WatchdogTimeout
<1> QED
  BY <1>1, <1>2, TypeCorrect, PTL DEF Spec

---------------------------------------------------------------------------
(* Requests of the watchdog *)

WaitPcs == {"wait_check", "wait_init", "wait_start"}

\* Where the watchdog is when the last thing that happened to it is an answer:
\* everything it had queued before has been executed.
AnsweredPcs ==
  {"check_ok", "send_init", "read_restore", "send_start", "init_ok"}

\* No synchronous command waits or runs.
Drained == urgentQueue = <<>> /\ worker.cmd.req = NoReq

\* The three stages of the awaited request; it is always the last urgent one.
AwaitedQueued ==
  /\ Len(urgentQueue) > 0
  /\ urgentQueue[Len(urgentQueue)].req = wd.req
  /\ \A i \in 1..Len(urgentQueue) :
       i # Len(urgentQueue) => urgentQueue[i].req # wd.req
  /\ worker.cmd.req # wd.req
  /\ wd.req \notin DOMAIN syncResults

AwaitedRunning ==
  /\ urgentQueue = <<>>
  /\ worker.cmd.req = wd.req
  /\ wd.req \notin DOMAIN syncResults

AwaitedAnswered == Drained /\ wd.req \in DOMAIN syncResults

\* The inductive invariant behind RecoveryIsSerial, NoRecoveryBehindEstop and
\* AwaitedReplyIsDue.
RequestDiscipline ==
  /\ wd.pc \in WaitPcs <=> wd.req # NoReq
  /\ worker.pc = "idle" => worker.cmd.req = NoReq
  /\ wd.req # NoReq => AwaitedQueued \/ AwaitedRunning \/ AwaitedAnswered
  /\ wd.pc \in AnsweredPcs => Drained
  /\ \A i \in 1..Len(urgentQueue) :
       IsRecovery(urgentQueue[i]) => i = 1 /\ ~IsRecovery(worker.cmd)

LEMMA RequestDisciplineInit == Init => RequestDiscipline
  BY DEF Init, RequestDiscipline, WaitPcs, AnsweredPcs, NoCmd

\* A step of the worker inside one command leaves the requests alone.
LEMMA InsideCommand ==
  ASSUME RequestDiscipline, UNCHANGED <<urgentQueue, syncResults, wd>>,
         worker'.cmd = worker.cmd, worker'.pc # "idle"
  PROVE  RequestDiscipline'
  BY DEF RequestDiscipline, Drained, AwaitedQueued, AwaitedRunning,
         AwaitedAnswered

\* So does a step of the watchdog that neither sends nor receives, as long as
\* it does not claim to have been answered when it was not.
LEMMA BetweenRequests ==
  ASSUME RequestDiscipline, UNCHANGED <<urgentQueue, syncResults, worker>>,
         wd.pc \notin WaitPcs, wd'.pc \notin WaitPcs, wd'.req = wd.req,
         wd'.pc \in AnsweredPcs => wd.pc \in AnsweredPcs
  PROVE  RequestDiscipline'
  BY DEF RequestDiscipline, Drained, AwaitedQueued, AwaitedRunning,
         AwaitedAnswered

LEMMA TakeUrgentKeepsDiscipline ==
  ASSUME TypeOK, RequestDiscipline, WorkerTakeUrgent
  PROVE  RequestDiscipline'
<1> USE DEF RequestDiscipline
<1>1. /\ urgentQueue # <<>> /\ urgentQueue \in Seq(Commands)
      /\ worker \in WorkerStates
      /\ UNCHANGED <<syncResults, wd>>
  BY DEF WorkerTakeUrgent, TypeOK
<1>2. /\ worker'.pc = "begin" /\ worker'.cmd = urgentQueue[1]
      /\ urgentQueue' = Tail(urgentQueue)
  BY <1>1, QueueTake DEF WorkerTakeUrgent, WorkerTakes, WorkerStates
<1>3. /\ Len(urgentQueue) \in Nat \ {0}
      /\ Len(urgentQueue') = Len(urgentQueue) - 1
      /\ \A i \in 1..Len(urgentQueue') : urgentQueue'[i] = urgentQueue[i + 1]
      /\ urgentQueue' \in Seq(Commands)
  BY <1>1, <1>2, QueueTake
<1>4. wd'.req # NoReq => AwaitedQueued' \/ AwaitedRunning'
  <2> SUFFICES ASSUME wd.req # NoReq PROVE AwaitedQueued' \/ AwaitedRunning'
    BY <1>1
  <2>1. AwaitedQueued
    BY <1>1 DEF AwaitedRunning, AwaitedAnswered, Drained
  <2>2. CASE Len(urgentQueue) = 1
    <3>1. urgentQueue' = <<>>
      BY <2>2, <1>3
    <3> QED
      BY <2>1, <2>2, <3>1, <1>1, <1>2 DEF AwaitedQueued, AwaitedRunning
  <2>3. CASE Len(urgentQueue) # 1
    <3>1. Len(urgentQueue') > 0
      BY <2>3, <1>3
    <3>2. urgentQueue'[Len(urgentQueue')].req = wd'.req
      BY <2>1, <3>1, <1>1, <1>3 DEF AwaitedQueued
    <3>3. \A i \in 1..Len(urgentQueue') :
            i # Len(urgentQueue') => urgentQueue'[i].req # wd'.req
      BY <2>1, <1>1, <1>3 DEF AwaitedQueued
    <3>4. worker'.cmd.req # wd'.req
      <4>1. urgentQueue[1].req # wd.req
        BY <2>1, <2>3, <1>3 DEF AwaitedQueued
      <4> QED
        BY <4>1, <1>1, <1>2
    <3> QED
      BY <2>1, <3>1, <3>2, <3>3, <3>4, <1>1 DEF AwaitedQueued
  <2> QED
    BY <2>2, <2>3
<1>5. wd'.pc \notin AnsweredPcs
  BY <1>1 DEF Drained
<1>6. \A i \in 1..Len(urgentQueue') : ~IsRecovery(urgentQueue'[i])
  BY <1>3
<1> QED
  BY <1>1, <1>2, <1>4, <1>5, <1>6

LEMMA TakeNormalKeepsDiscipline ==
  ASSUME TypeOK, RequestDiscipline, WorkerTakeNormal
  PROVE  RequestDiscipline'
<1>1. /\ UNCHANGED <<urgentQueue, syncResults, wd>>
      /\ urgentQueue = <<>> /\ worker.cmd.req = NoReq
  BY DEF WorkerTakeNormal, RequestDiscipline
<1>2. Head(commandQueue) \in AsyncCommands
  BY QueueTake DEF WorkerTakeNormal, TypeOK
<1>3. worker'.cmd.req = NoReq /\ worker'.pc = "begin"
  BY <1>2 DEF WorkerTakeNormal, WorkerTakes, TypeOK, WorkerStates, AsyncCommands
<1> QED
  BY <1>1, <1>3
  DEF RequestDiscipline, Drained, AwaitedQueued, AwaitedRunning,
      AwaitedAnswered, IsRecovery

LEMMA ReplyKeepsDiscipline ==
  ASSUME TypeOK, RequestDiscipline, Reply
  PROVE  RequestDiscipline'
<1>1. /\ UNCHANGED <<urgentQueue, wd>>
      /\ worker'.pc = "idle" /\ worker'.cmd.req = NoReq
  BY DEF Reply, NoCmd
<1>2. /\ worker.cmd.req = NoReq => DOMAIN syncResults' = DOMAIN syncResults
      /\ worker.cmd.req # NoReq =>
           DOMAIN syncResults' = DOMAIN syncResults \cup {worker.cmd.req}
  BY DEF Reply
<1>3. ASSUME wd.req # NoReq
      PROVE  AwaitedQueued' \/ AwaitedAnswered'
  <2>1. CASE AwaitedQueued
    BY <1>1, <1>2, <1>3, <2>1 DEF AwaitedQueued
  <2>2. CASE AwaitedRunning
    BY <1>1, <1>2, <1>3, <2>2 DEF AwaitedRunning, AwaitedAnswered, Drained
  <2>3. CASE AwaitedAnswered
    BY <1>1, <1>2, <2>3 DEF AwaitedAnswered, Drained
  <2> QED
    BY <1>3, <2>1, <2>2, <2>3 DEF RequestDiscipline
<1> QED
  BY <1>1, <1>3 DEF RequestDiscipline, Drained, IsRecovery

\* A request is sent under an id that nothing else holds.
LEMMA SendKeepsDiscipline ==
  ASSUME TypeOK, RequestDiscipline, NEW op, NEW pc \in WaitPcs,
         wd.pc \notin WaitPcs,
         op # "check" => wd.pc \in AnsweredPcs,
         SendUrgentSync(op, pc)
  PROVE  RequestDiscipline'
<1> DEFINE n == Len(urgentQueue)
<1>1. PICK req \in FreshIds : /\ urgentQueue' = Append(urgentQueue, Cmd(op, req))
                              /\ wd' = [pc |-> pc, req |-> req]
  BY FreshIdExists DEF SendUrgentSync
<1>2. UNCHANGED <<syncResults, worker>>
  BY DEF SendUrgentSync
<1>3. urgentQueue \in Seq(Commands) /\ n \in Nat
  BY DEF TypeOK
<1>4. /\ Len(urgentQueue') = n + 1
      /\ urgentQueue'[n + 1] = Cmd(op, req)
      /\ \A i \in 1..n : urgentQueue'[i] = urgentQueue[i]
  BY <1>1, <1>3
<1>5. req # NoReq /\ req \notin DOMAIN syncResults /\ worker.cmd.req # req
  BY <1>1, SupervisionAssumption DEF FreshIds, IdsInUse
<1>6. \A i \in 1..n : urgentQueue[i].req # req
  BY <1>1 DEF FreshIds, IdsInUse
<1>7. AwaitedQueued'
  <2>1. wd'.req = req /\ Cmd(op, req).req = req
    BY <1>1 DEF Cmd
  <2>2. \A i \in 1..Len(urgentQueue') :
          i # Len(urgentQueue') => urgentQueue'[i].req # wd'.req
    BY <2>1, <1>3, <1>4, <1>6
  <2> QED
    BY <2>1, <2>2, <1>2, <1>3, <1>4, <1>5 DEF AwaitedQueued
<1>8. \A i \in 1..Len(urgentQueue') :
        IsRecovery(urgentQueue'[i]) => i = 1 /\ ~IsRecovery(worker'.cmd)
  <2>1. CASE op = "check"
    <3>1. ~IsRecovery(Cmd(op, req))
      BY <2>1 DEF IsRecovery, Cmd
    <3> QED
      BY <3>1, <1>2, <1>3, <1>4 DEF RequestDiscipline
  <2>2. CASE op # "check"
    <3>1. n = 0 /\ ~IsRecovery(worker.cmd)
      BY <2>2 DEF RequestDiscipline, Drained, IsRecovery
    <3> QED
      BY <3>1, <1>2, <1>4
  <2> QED
    BY <2>1, <2>2
<1>9. wd'.pc \in WaitPcs /\ wd'.pc \notin AnsweredPcs /\ wd'.req # NoReq
  BY <1>1, <1>5 DEF WaitPcs, AnsweredPcs
<1> QED
  BY <1>2, <1>7, <1>8, <1>9 DEF RequestDiscipline

LEMMA ResultKeepsDiscipline ==
  ASSUME TypeOK, RequestDiscipline, wd.pc \in WaitPcs,
         NEW onSuccess, NEW onFailure,
         onSuccess \notin WaitPcs, onFailure \notin WaitPcs,
         SyncResult(onSuccess, onFailure)
  PROVE  RequestDiscipline'
<1>1. wd.req # NoReq /\ wd.req \in DOMAIN syncResults
  BY DEF RequestDiscipline, SyncResult
<1>2. AwaitedAnswered
  BY <1>1 DEF RequestDiscipline, AwaitedQueued, AwaitedRunning
<1>3. /\ UNCHANGED <<urgentQueue, worker>> /\ wd'.req = NoReq
      /\ wd'.pc \in {onSuccess, onFailure}
  BY DEF SyncResult
<1> QED
  BY <1>2, <1>3 DEF RequestDiscipline, AwaitedAnswered, Drained

LEMMA TimeoutKeepsDiscipline ==
  ASSUME RequestDiscipline, NEW pc, pc \notin WaitPcs, pc \notin AnsweredPcs,
         SyncTimeout(pc)
  PROVE  RequestDiscipline'
  BY DEF RequestDiscipline, SyncTimeout, Drained

LEMMA EstopKeepsDiscipline ==
  ASSUME TypeOK, RequestDiscipline, ExecuteEstop
  PROVE  RequestDiscipline'
<1>1. /\ urgentQueue \in Seq(Commands) /\ Len(urgentQueue) \in Nat
      /\ urgentQueue' = Append(urgentQueue, Cmd("EMERGENCY_STOP", NoReq))
      /\ UNCHANGED worker
  BY DEF TypeOK, ExecuteEstop
<1>2. wd'.pc = "idle" /\ wd'.req = wd.req /\ wd.pc = "estop"
  BY DEF ExecuteEstop, WatchdogGoto, TypeOK, WatchdogStates
<1>3. ~IsRecovery(Cmd("EMERGENCY_STOP", NoReq))
  BY DEF IsRecovery, Cmd
<1>4. \A i \in 1..Len(urgentQueue') :
        IsRecovery(urgentQueue'[i]) => i = 1 /\ ~IsRecovery(worker'.cmd)
  BY <1>1, <1>3 DEF RequestDiscipline
<1> QED
  BY <1>1, <1>2, <1>4 DEF RequestDiscipline, WaitPcs, AnsweredPcs

LEMMA RequestDisciplineStep ==
  ASSUME TypeOK, RequestDiscipline, [Next]_vars
  PROVE  RequestDiscipline'
<1>1. worker \in WorkerStates /\ wd \in WatchdogStates
  BY DEF TypeOK
<1>2. CASE UserCommand \/ PlugEvent \/ UNCHANGED vars
  BY <1>2
  DEF UserCommand, PlugEvent, vars, RequestDiscipline, Drained, AwaitedQueued,
      AwaitedRunning, AwaitedAnswered
<1>3. CASE WorkerTakeUrgent
  BY <1>3, TakeUrgentKeepsDiscipline
<1>4. CASE WorkerTakeNormal
  BY <1>4, TakeNormalKeepsDiscipline
<1>5. CASE BeginAgentCommand \/ ConnectAgent \/ RegisterAgent \/ WithdrawAgent
           \/ ReleaseAgent \/ RunDevice \/ MarkAfterCommand
  <2>1. PICK pc \in WorkerPcs \ {"idle"} : \E ok : WorkerGoto(pc, ok)
    BY <1>5
    DEF BeginAgentCommand, ConnectAgent, RegisterAgent, WithdrawAgent,
        ReleaseAgent, RunDevice, MarkAfterCommand, WorkerPcs
  <2>2. worker'.cmd = worker.cmd /\ worker'.pc # "idle"
    BY <2>1, <1>1 DEF WorkerGoto, WorkerStates
  <2>3. UNCHANGED <<urgentQueue, syncResults, wd>>
    BY <1>5
    DEF BeginAgentCommand, ConnectAgent, RegisterAgent, WithdrawAgent,
        ReleaseAgent, RunDevice, MarkAfterCommand
  <2> QED
    BY <2>2, <2>3, InsideCommand
<1>6. CASE Reply
  BY <1>6, ReplyKeepsDiscipline
<1>7. CASE BeginCheck \/ HandleCheckSuccess \/ HandleCheckFailure
           \/ ReadRestore \/ FinishInit
  <2>1. /\ UNCHANGED <<urgentQueue, syncResults, worker>>
        /\ wd.pc \notin WaitPcs /\ wd'.pc \notin WaitPcs /\ wd'.req = wd.req
        /\ wd'.pc \in AnsweredPcs => wd.pc \in AnsweredPcs
    BY <1>7, <1>1
    DEF BeginCheck, HandleCheckSuccess, HandleCheckFailure, ReadRestore,
        FinishInit, WatchdogGoto, WatchdogStates, WaitPcs, AnsweredPcs
  <2> QED
    BY <2>1, BetweenRequests
<1>8. CASE SendCheck \/ SendInit \/ SendStart
  BY <1>8, SendKeepsDiscipline
  DEF SendCheck, SendInit, SendStart, WaitPcs, AnsweredPcs
<1>9. CASE CheckResult \/ InitResult \/ StartResult
  BY <1>9, ResultKeepsDiscipline
  DEF CheckResult, InitResult, StartResult, WaitPcs
<1>10. CASE CheckTimeout \/ InitTimeout \/ StartTimeout
  BY <1>10, TimeoutKeepsDiscipline
  DEF CheckTimeout, InitTimeout, StartTimeout, WaitPcs, AnsweredPcs
<1>11. CASE ExecuteEstop
  BY <1>11, EstopKeepsDiscipline
<1> QED
  BY <1>2, <1>3, <1>4, <1>5, <1>6, <1>7, <1>8, <1>9, <1>10, <1>11
  DEF Next, WorkerStep, WatchdogProgress, WatchdogTimeout

\* The request discipline, of which the next three theorems are views: the
\* request that the watchdog waits for is last in the urgent queue, with the
\* worker or answered, and a recovery command is only ever the first in line.
THEOREM RequestDisciplineHolds == Spec => []RequestDiscipline
  BY RequestDisciplineInit, RequestDisciplineStep, TypeCorrect, PTL DEF Spec

\* At most one recovery command of the watchdog is outstanding, however many
\* waits it has given up (agent_manager_process.cpp:147-186, 252-309).
THEOREM RecoverySerial == Spec => []RecoveryIsSerial
<1>1. RequestDiscipline => RecoveryIsSerial
  BY DEF RequestDiscipline, RecoveryIsSerial
<1> QED
  BY <1>1, RequestDisciplineHolds, PTL

\* No recovery command waits behind an emergency stop
\* (agent_manager_process.cpp:140-145, 290-309).
THEOREM EstopNotOvertaken == Spec => []NoRecoveryBehindEstop
<1>1. TypeOK /\ RequestDiscipline => NoRecoveryBehindEstop
  BY DEF TypeOK, RequestDiscipline, NoRecoveryBehindEstop
<1> QED
  BY <1>1, TypeCorrect, RequestDisciplineHolds, PTL

\* A synchronous command that is still waited for is queued, running or
\* answered (agent_manager_process.cpp:252-288, 523-528).
THEOREM AwaitedReplyDue == Spec => []AwaitedReplyIsDue
<1>1. TypeOK /\ RequestDiscipline => AwaitedReplyIsDue
  BY DEF TypeOK, RequestDiscipline, AwaitedReplyIsDue, AwaitedQueued,
         AwaitedRunning, AwaitedAnswered
<1> QED
  BY <1>1, TypeCorrect, RequestDisciplineHolds, PTL

---------------------------------------------------------------------------
(* Registration follows the connection *)

\* Between connecting and registering, and between unregistering and
\* disconnecting, the order of INIT_AGENT and RELEASE_AGENT holds.
ConnectionOrder ==
  /\ RegisteredAgentIsConnected
  /\ worker.pc = "register" => agentUp
  /\ worker.pc = "release" => ~Registered(reg)

\* A late outcome of an init procedure never resurrects the entry of an agent
\* that was released meanwhile (agent_watchdog.cpp:451-456).
THEOREM RegisteredConnected == Spec => []RegisteredAgentIsConnected
<1> USE DEF ConnectionOrder, RegisteredAgentIsConnected, Registered
<1>1. Init => ConnectionOrder
  BY DEF Init
<1>2. TypeOK /\ ConnectionOrder /\ [Next]_vars => ConnectionOrder'
  <2> SUFFICES ASSUME TypeOK, ConnectionOrder, [Next]_vars
               PROVE  ConnectionOrder'
    OBVIOUS
  <2>1. worker \in WorkerStates
    BY DEF TypeOK
  <2>2. CASE UserCommand \/ PlugEvent \/ UNCHANGED vars
    BY <2>2 DEF UserCommand, PlugEvent, vars
  <2>3. CASE WorkerTakeUrgent \/ WorkerTakeNormal
    BY <2>3, <2>1
    DEF WorkerTakeUrgent, WorkerTakeNormal, WorkerTakes, WorkerStates
  <2>4. CASE BeginAgentCommand
    BY <2>4, <2>1
    DEF BeginAgentCommand, MarkAgentInitializing, MarkAgent, WorkerGoto,
        WorkerStates
  <2>5. CASE ConnectAgent
    BY <2>5, <2>1 DEF ConnectAgent, WorkerGoto, WorkerStates
  <2>6. CASE RegisterAgent
    BY <2>6, <2>1
    DEF RegisterAgent, RegisterPrimaryAgent, WorkerGoto, WorkerStates
  <2>7. CASE WithdrawAgent
    BY <2>7, <2>1
    DEF WithdrawAgent, UnregisterPrimaryAgent, WorkerGoto, WorkerStates
  <2>8. CASE ReleaseAgent
    BY <2>8, <2>1 DEF ReleaseAgent, WorkerGoto, WorkerStates
  <2>9. CASE RunDevice
    BY <2>9, <2>1 DEF RunDevice, WorkerGoto, WorkerStates
  <2>10. CASE MarkAfterCommand
    BY <2>10, <2>1
    DEF MarkAfterCommand, MarkAgentHealthy, MarkAgentDisconnected, MarkAgent,
        WorkerGoto, WorkerStates
  <2>11. CASE Reply
    BY <2>11, <2>1 DEF Reply
  <2>12. CASE BeginCheck \/ ExecuteEstop \/ ReadRestore
    BY <2>12 DEF BeginCheck, ExecuteEstop, ReadRestore
  <2>13. CASE SendCheck \/ SendInit \/ SendStart
    BY <2>13 DEF SendCheck, SendInit, SendStart, SendUrgentSync
  <2>14. CASE CheckResult \/ InitResult \/ StartResult
    BY <2>14 DEF CheckResult, InitResult, StartResult, SyncResult
  <2>15. CASE WatchdogTimeout
    BY <2>15
    DEF WatchdogTimeout, CheckTimeout, InitTimeout, StartTimeout, SyncTimeout
  <2>16. CASE HandleCheckSuccess
    BY <2>16 DEF HandleCheckSuccess, AfterCheckSuccess, StartsRecovery
  <2>17. CASE HandleCheckFailure
    BY <2>17 DEF HandleCheckFailure, AfterCheckFailure, IsLoss
  <2>18. CASE FinishInit
    BY <2>18 DEF FinishInit, AfterInitDevice, MarkAgent
  <2> QED
    BY <2>2, <2>3, <2>4, <2>5, <2>6, <2>7, <2>8, <2>9, <2>10, <2>11, <2>12,
       <2>13, <2>14, <2>15, <2>16, <2>17, <2>18
    DEF Next, WorkerStep, WatchdogProgress
<1>3. ConnectionOrder => RegisteredAgentIsConnected
  OBVIOUS
<1> QED
  BY <1>1, <1>2, <1>3, TypeCorrect, PTL DEF Spec

---------------------------------------------------------------------------
(* A healthy agent is initialized *)

\* The user neither initializes nor releases the device, and does not launch the agent a
\* second time: the watchdog alone initializes it.
OperationsOnly ==
  UserOps \cap {"INIT_AGENT", "init_device", "release_device"} = {}

\* INIT_AGENT of the session, from the start until it has registered the agent.
AtLaunch ==
  \/ \E i \in 1..Len(commandQueue) : commandQueue[i].op = "INIT_AGENT"
  \/ worker.cmd.op = "INIT_AGENT" /\ worker.pc \in {"begin", "register"}

\* INIT_AGENT comes first, and nothing else happens before it is through.
LaunchFirst ==
  /\ \A i \in 1..Len(commandQueue) :
       commandQueue[i].op = "INIT_AGENT" => i = 1 /\ worker.pc = "idle"
  /\ AtLaunch => reg = "none" /\ wd.pc = "idle" /\ urgentQueue = <<>>
  /\ worker.pc = "register" => worker.cmd.op = "INIT_AGENT"
  /\ worker.pc = "release" => worker.cmd.op = "RELEASE_AGENT"

UrgentOps == {"check", "init_device", "start_device", "EMERGENCY_STOP"}

\* Who may have sent what.
SentBy(cmd) ==
  /\ cmd.op # "release_device"
  /\ cmd.op = "init_device" => cmd.req # NoReq

CommandOrigins ==
  /\ \A i \in 1..Len(commandQueue) : SentBy(commandQueue[i])
  /\ \A i \in 1..Len(urgentQueue) : urgentQueue[i].op \in UrgentOps /\ SentBy(urgentQueue[i])
  /\ SentBy(worker.cmd)

\* The command that the watchdog waits for is the one its step has sent.
Awaited(cmd) ==
  cmd.req = wd.req /\ wd.req # NoReq =>
    /\ wd.pc = "wait_init" => cmd.op = "init_device"
    /\ wd.pc = "wait_start" => cmd.op = "start_device"

AwaitedCommands ==
  Awaited(worker.cmd) /\ \A i \in 1..Len(urgentQueue) : Awaited(urgentQueue[i])

\* The device is initialized, or the agent has been withdrawn for good.
Ready == device.flags # "released" \/ (reg = "none" /\ ~AtLaunch)

\* What is known of the device on the way to a healthy agent: in the hands of the worker
\* and in those of the watchdog.
Initialization ==
  /\ worker.cmd.op = "init_device" /\ worker.pc = "run" => reg # "healthy"
  /\ worker.cmd.op \in {"init_device", "start_device"} /\ worker.pc \in {"post", "reply"}
       /\ worker.ok => device.flags # "released"
  /\ worker.pc = "release" => reg = "none"
  /\ wd.pc = "wait_init" /\ wd.req \in DOMAIN syncResults /\ syncResults[wd.req] => Ready
  /\ wd.pc \in {"read_restore", "send_start", "wait_start", "init_ok"} => Ready

HealthInv ==
  /\ LaunchFirst /\ CommandOrigins /\ AwaitedCommands /\ Initialization
  /\ HealthyIsInitialized

\* What each group of actions leaves alone.
WorkerInside ==
  BeginAgentCommand \/ ConnectAgent \/ RegisterAgent \/ WithdrawAgent \/ ReleaseAgent
    \/ RunDevice \/ MarkAfterCommand
WatchdogSends == SendCheck \/ SendInit \/ SendStart
WatchdogReceives == CheckResult \/ InitResult \/ StartResult \/ WatchdogTimeout
WatchdogDecides ==
  BeginCheck \/ HandleCheckSuccess \/ HandleCheckFailure \/ ReadRestore \/ FinishInit

LEMMA SupervisionActions ==
  ASSUME Next
  PROVE  \/ UserCommand \/ PlugEvent \/ WorkerTakeUrgent \/ WorkerTakeNormal \/ WorkerInside
         \/ Reply \/ WatchdogSends \/ WatchdogReceives \/ WatchdogDecides \/ ExecuteEstop
  BY DEF Next, WorkerStep, WatchdogProgress, WorkerInside, WatchdogSends, WatchdogReceives,
     WatchdogDecides

LEMMA InsideFrame ==
  ASSUME TypeOK, WorkerInside
  PROVE  /\ UNCHANGED <<urgentQueue, commandQueue, syncResults, wd>>
         /\ worker'.cmd = worker.cmd
         /\ worker.pc \in WorkerPcs \ {"idle", "reply"}
         /\ worker'.pc \in WorkerPcs \ {"idle", "begin"}
<1>1. UNCHANGED <<urgentQueue, commandQueue, syncResults, wd>>
  BY DEF WorkerInside, BeginAgentCommand, ConnectAgent, RegisterAgent, WithdrawAgent,
     ReleaseAgent, RunDevice, MarkAfterCommand
<1>2. /\ worker.pc \in WorkerPcs \ {"idle", "reply"}
      /\ \E pc \in WorkerPcs \ {"idle", "begin"} : \E ok : WorkerGoto(pc, ok)
  BY DEF WorkerInside, BeginAgentCommand, ConnectAgent, RegisterAgent, WithdrawAgent,
     ReleaseAgent, RunDevice, MarkAfterCommand, WorkerPcs
<1> QED
  BY <1>1, <1>2 DEF WorkerGoto, TypeOK, WorkerStates

LEMMA WatchdogFrame ==
  ASSUME TypeOK, WatchdogSends \/ WatchdogReceives \/ WatchdogDecides \/ ExecuteEstop
  PROVE  /\ UNCHANGED <<restore, agentUp, device, commandQueue, worker>>
         /\ ~WatchdogDecides => UNCHANGED reg
         /\ WatchdogReceives \/ WatchdogDecides => UNCHANGED urgentQueue
         /\ ~BeginCheck => wd.pc # "idle"
  BY DEF WatchdogSends, WatchdogReceives, WatchdogDecides, WatchdogTimeout, ExecuteEstop,
     SendCheck, SendInit, SendStart, SendUrgentSync, CheckResult, InitResult, StartResult,
     SyncResult, CheckTimeout, InitTimeout, StartTimeout, SyncTimeout, BeginCheck,
     HandleCheckSuccess, HandleCheckFailure, ReadRestore, FinishInit

\* What a step of the watchdog adds to the urgent queue.
LEMMA UrgentAppended ==
  ASSUME TypeOK, WatchdogSends \/ ExecuteEstop
  PROVE  \E cmd \in Commands :
           /\ urgentQueue' = Append(urgentQueue, cmd)
           /\ Len(urgentQueue') = Len(urgentQueue) + 1 /\ Len(urgentQueue) \in Nat
           /\ urgentQueue'[Len(urgentQueue) + 1] = cmd
           /\ \A i \in 1..Len(urgentQueue) : urgentQueue'[i] = urgentQueue[i]
           /\ \/ /\ cmd = Cmd("EMERGENCY_STOP", NoReq) /\ ExecuteEstop
                 /\ wd'.pc = "idle" /\ wd'.req = wd.req
              \/ /\ cmd.req = wd'.req /\ cmd.req \in FreshIds
                 /\ \/ SendCheck /\ cmd.op = "check" /\ wd'.pc = "wait_check"
                    \/ SendInit /\ cmd.op = "init_device" /\ wd'.pc = "wait_init"
                    \/ SendStart /\ cmd.op = "start_device" /\ wd'.pc = "wait_start"
<1>1. urgentQueue \in Seq(Commands)
  BY DEF TypeOK
<1>2. ASSUME NEW cmd \in Commands
      PROVE  LET q == Append(urgentQueue, cmd) IN
               /\ Len(q) = Len(urgentQueue) + 1 /\ Len(urgentQueue) \in Nat
               /\ q[Len(urgentQueue) + 1] = cmd
               /\ \A i \in 1..Len(urgentQueue) : q[i] = urgentQueue[i]
  BY <1>1
<1>3. CASE ExecuteEstop
  <2>1. Cmd("EMERGENCY_STOP", NoReq) \in Commands
    BY DEF Cmd, Commands, Ops, ManagerOps
  <2>2. wd'.pc = "idle" /\ wd'.req = wd.req
    BY <1>3 DEF ExecuteEstop, WatchdogGoto, TypeOK, WatchdogStates
  <2>3. urgentQueue' = Append(urgentQueue, Cmd("EMERGENCY_STOP", NoReq))
    BY <1>3 DEF ExecuteEstop
  <2> QED
    BY <1>2, <1>3, <2>1, <2>2, <2>3
<1>4. ASSUME NEW op \in AgentCommands, NEW pc, SendUrgentSync(op, pc)
      PROVE  \E cmd \in Commands :
               /\ urgentQueue' = Append(urgentQueue, cmd) /\ cmd.op = op
               /\ cmd.req \in FreshIds /\ cmd.req = wd'.req /\ wd'.pc = pc
  <2>1. PICK req \in FreshIds : /\ urgentQueue' = Append(urgentQueue, Cmd(op, req))
                                /\ wd' = [pc |-> pc, req |-> req]
    BY <1>4, FreshIdExists DEF SendUrgentSync
  <2>2. Cmd(op, req) \in Commands
    BY <2>1 DEF Cmd, Commands, Ops, FreshIds
  <2> QED
    BY <2>1, <2>2 DEF Cmd
<1>5. CASE SendCheck
  <2>1. PICK cmd \in Commands :
           /\ urgentQueue' = Append(urgentQueue, cmd) /\ cmd.op = "check"
           /\ cmd.req \in FreshIds /\ cmd.req = wd'.req /\ wd'.pc = "wait_check"
    BY <1>4, <1>5 DEF SendCheck, AgentCommands
  <2> QED
    BY <1>2, <1>5, <2>1
<1>6. CASE SendInit
  <2>1. PICK cmd \in Commands :
           /\ urgentQueue' = Append(urgentQueue, cmd) /\ cmd.op = "init_device"
           /\ cmd.req \in FreshIds /\ cmd.req = wd'.req /\ wd'.pc = "wait_init"
    BY <1>4, <1>6 DEF SendInit, AgentCommands
  <2> QED
    BY <1>2, <1>6, <2>1
<1>7. CASE SendStart
  <2>1. PICK cmd \in Commands :
           /\ urgentQueue' = Append(urgentQueue, cmd) /\ cmd.op = "start_device"
           /\ cmd.req \in FreshIds /\ cmd.req = wd'.req /\ wd'.pc = "wait_start"
    BY <1>4, <1>7 DEF SendStart, AgentCommands
  <2> QED
    BY <1>2, <1>7, <2>1
<1> QED
  BY <1>3, <1>5, <1>6, <1>7 DEF WatchdogSends

\* What the worker takes from its queues.
LEMMA Taken ==
  ASSUME TypeOK
  PROVE  /\ WorkerTakeUrgent =>
              /\ Len(urgentQueue) \in Nat \ {0} /\ Len(urgentQueue') = Len(urgentQueue) - 1
              /\ worker'.cmd = urgentQueue[1] /\ worker'.pc = "begin"
              /\ \A i \in 1..Len(urgentQueue') : urgentQueue'[i] = urgentQueue[i + 1]
         /\ WorkerTakeNormal =>
              /\ Len(commandQueue) \in Nat \ {0} /\ Len(commandQueue') = Len(commandQueue) - 1
              /\ worker'.cmd = commandQueue[1] /\ worker'.pc = "begin"
              /\ \A i \in 1..Len(commandQueue') : commandQueue'[i] = commandQueue[i + 1]
<1>1. urgentQueue \in Seq(Commands) /\ commandQueue \in Seq(AsyncCommands)
      /\ worker \in WorkerStates
  BY DEF TypeOK
<1>2. ASSUME WorkerTakeUrgent
      PROVE  /\ Len(urgentQueue) \in Nat \ {0} /\ Len(urgentQueue') = Len(urgentQueue) - 1
             /\ worker'.cmd = urgentQueue[1] /\ worker'.pc = "begin"
             /\ \A i \in 1..Len(urgentQueue') : urgentQueue'[i] = urgentQueue[i + 1]
  <2>1. urgentQueue # <<>> /\ urgentQueue' = Tail(urgentQueue)
        /\ worker'.cmd = Head(urgentQueue) /\ worker'.pc = "begin"
    BY <1>1, <1>2 DEF WorkerTakeUrgent, WorkerTakes, WorkerStates
  <2> QED
    BY <1>1, <2>1, QueueTake
<1>3. ASSUME WorkerTakeNormal
      PROVE  /\ Len(commandQueue) \in Nat \ {0} /\ Len(commandQueue') = Len(commandQueue) - 1
             /\ worker'.cmd = commandQueue[1] /\ worker'.pc = "begin"
             /\ \A i \in 1..Len(commandQueue') : commandQueue'[i] = commandQueue[i + 1]
  <2>1. commandQueue # <<>> /\ commandQueue' = Tail(commandQueue)
        /\ worker'.cmd = Head(commandQueue) /\ worker'.pc = "begin"
    BY <1>1, <1>3 DEF WorkerTakeNormal, WorkerTakes, WorkerStates
  <2> QED
    BY <1>1, <2>1, QueueTake
<1> QED
  BY <1>2, <1>3

\* What the user queues.
LEMMA UserQueued ==
  ASSUME TypeOK, OperationsOnly, UserCommand
  PROVE  \E op \in UserOps :
           /\ op \notin {"INIT_AGENT", "init_device", "release_device"}
           /\ Len(commandQueue) \in Nat /\ Len(commandQueue') = Len(commandQueue) + 1
           /\ commandQueue'[Len(commandQueue) + 1] = Cmd(op, NoReq)
           /\ \A i \in 1..Len(commandQueue) : commandQueue'[i] = commandQueue[i]
<1>1. commandQueue \in Seq(AsyncCommands)
  BY DEF TypeOK
<1>2. PICK op \in UserOps : commandQueue' = Append(commandQueue, Cmd(op, NoReq))
  BY DEF UserCommand
<1> QED
  BY <1>1, <1>2 DEF OperationsOnly

\* The session's INIT_AGENT is the only one.
LEMMA LaunchStep ==
  ASSUME TypeOK, OperationsOnly, HealthInv, Next
  PROVE  LaunchFirst' /\ (AtLaunch' => AtLaunch)
<1> USE DEF HealthInv, LaunchFirst, AtLaunch
<1>1. CASE UserCommand
  <2>1. PICK op \in UserOps :
           /\ op \notin {"INIT_AGENT", "init_device", "release_device"}
           /\ Len(commandQueue) \in Nat /\ Len(commandQueue') = Len(commandQueue) + 1
           /\ commandQueue'[Len(commandQueue) + 1] = Cmd(op, NoReq)
           /\ \A i \in 1..Len(commandQueue) : commandQueue'[i] = commandQueue[i]
    BY <1>1, UserQueued
  <2>2. \A i \in 1..Len(commandQueue') : commandQueue'[i].op = "INIT_AGENT" =>
          i \in 1..Len(commandQueue) /\ commandQueue[i].op = "INIT_AGENT"
    BY <2>1 DEF Cmd
  <2>3. UNCHANGED <<worker, reg, wd, urgentQueue>>
    BY <1>1 DEF UserCommand
  <2> QED
    BY <2>2, <2>3
<1>2. CASE PlugEvent
  BY <1>2 DEF PlugEvent
<1>3. CASE WorkerTakeUrgent
  <2>1. ~AtLaunch /\ commandQueue' = commandQueue
    BY <1>3 DEF WorkerTakeUrgent
  <2>2. /\ worker'.cmd = urgentQueue[1] /\ urgentQueue[1].op # "INIT_AGENT"
        /\ worker'.pc = "begin"
    BY <1>3, Taken DEF CommandOrigins, UrgentOps
  <2> QED
    BY <2>1, <2>2
<1>4. CASE WorkerTakeNormal
  <2>1. \A i \in 1..Len(commandQueue') : commandQueue'[i].op # "INIT_AGENT"
    BY <1>4, Taken
  <2>2. AtLaunch' => AtLaunch
    BY <1>4, <2>1, Taken
  <2> QED
    BY <1>4, <2>1, <2>2, Taken DEF WorkerTakeNormal
<1>5. CASE WorkerInside
  <2>1. /\ UNCHANGED <<commandQueue, urgentQueue, wd>> /\ worker'.cmd = worker.cmd
        /\ worker.pc # "idle" /\ worker'.pc # "begin"
    BY <1>5, InsideFrame
  <2>2. AtLaunch' => worker'.pc = "register" /\ worker.cmd.op = "INIT_AGENT"
    BY <2>1
  <2>3. /\ worker'.pc = "register" => ConnectAgent /\ worker.cmd.op = "INIT_AGENT"
        /\ worker'.pc = "release" => worker.cmd.op = "RELEASE_AGENT"
    BY <1>5 DEF WorkerInside, BeginAgentCommand, ConnectAgent, RegisterAgent, WithdrawAgent,
       ReleaseAgent, RunDevice, MarkAfterCommand, WorkerGoto, TypeOK, WorkerStates,
       MarkedCommands
  <2>4. ConnectAgent => reg' = reg /\ worker.pc = "begin"
    BY DEF ConnectAgent
  <2> QED
    BY <2>1, <2>2, <2>3, <2>4
<1>6. CASE Reply
  BY <1>6 DEF Reply, NoCmd
<1>7. CASE WatchdogSends \/ WatchdogReceives \/ WatchdogDecides \/ ExecuteEstop
  <2>1. UNCHANGED <<commandQueue, worker>>
    BY <1>7, WatchdogFrame
  <2>2. reg # "none" \/ wd.pc # "idle"
    BY <1>7, WatchdogFrame DEF BeginCheck, NeedsCheck, Registered
  <2> QED
    BY <2>1, <2>2
<1> QED
  BY SupervisionActions, <1>1, <1>2, <1>3, <1>4, <1>5, <1>6, <1>7

LEMMA OriginsStep ==
  ASSUME TypeOK, OperationsOnly, HealthInv, Next
  PROVE  CommandOrigins'
<1> USE DEF HealthInv, CommandOrigins
<1>1. CASE UserCommand
  <2>1. PICK op \in UserOps :
           /\ op \notin {"INIT_AGENT", "init_device", "release_device"}
           /\ Len(commandQueue) \in Nat /\ Len(commandQueue') = Len(commandQueue) + 1
           /\ commandQueue'[Len(commandQueue) + 1] = Cmd(op, NoReq)
           /\ \A i \in 1..Len(commandQueue) : commandQueue'[i] = commandQueue[i]
    BY <1>1, UserQueued
  <2>2. SentBy(Cmd(op, NoReq))
    BY <2>1 DEF SentBy, Cmd
  <2>3. \A i \in 1..Len(commandQueue') : SentBy(commandQueue'[i])
    BY <2>1, <2>2
  <2>4. UNCHANGED <<worker, urgentQueue>>
    BY <1>1 DEF UserCommand
  <2> QED
    BY <2>3, <2>4 DEF SentBy
<1>2. CASE PlugEvent
  BY <1>2 DEF PlugEvent, SentBy
<1>3. CASE WorkerTakeUrgent
  BY <1>3, Taken DEF WorkerTakeUrgent, SentBy
<1>4. CASE WorkerTakeNormal
  BY <1>4, Taken DEF WorkerTakeNormal, SentBy
<1>5. CASE WorkerInside
  BY <1>5, InsideFrame DEF SentBy
<1>6. CASE Reply
  BY <1>6 DEF Reply, NoCmd, SentBy
<1>7. CASE WatchdogReceives \/ WatchdogDecides
  BY <1>7, WatchdogFrame DEF SentBy
<1>8. CASE WatchdogSends \/ ExecuteEstop
  <2>1. UNCHANGED <<commandQueue, worker>>
    BY <1>8, WatchdogFrame
  <2>2. PICK cmd \in Commands :
           /\ Len(urgentQueue') = Len(urgentQueue) + 1 /\ Len(urgentQueue) \in Nat
           /\ urgentQueue'[Len(urgentQueue) + 1] = cmd
           /\ \A i \in 1..Len(urgentQueue) : urgentQueue'[i] = urgentQueue[i]
           /\ \/ cmd = Cmd("EMERGENCY_STOP", NoReq)
              \/ cmd.req \in FreshIds /\ cmd.op \in {"check", "init_device", "start_device"}
    BY <1>8, UrgentAppended
  <2>3. cmd.op \in UrgentOps /\ SentBy(cmd)
    BY <2>2, SupervisionAssumption DEF UrgentOps, SentBy, Cmd, FreshIds
  <2>4. \A i \in 1..Len(urgentQueue') : urgentQueue'[i].op \in UrgentOps /\ SentBy(urgentQueue'[i])
    BY <2>2, <2>3
  <2> QED
    BY <2>1, <2>4 DEF SentBy
<1> QED
  BY SupervisionActions, <1>1, <1>2, <1>3, <1>4, <1>5, <1>6, <1>7, <1>8

LEMMA AwaitedStep ==
  ASSUME TypeOK, HealthInv, Next
  PROVE  AwaitedCommands'
<1> USE DEF HealthInv, AwaitedCommands, Awaited
<1>1. CASE UserCommand \/ PlugEvent
  BY <1>1 DEF UserCommand, PlugEvent
<1>2. CASE WorkerTakeUrgent
  BY <1>2, Taken DEF WorkerTakeUrgent
<1>3. CASE WorkerTakeNormal
  <2>1. Head(commandQueue) \in AsyncCommands
    BY <1>3, QueueTake DEF WorkerTakeNormal, TypeOK
  <2>2. worker'.cmd.req = NoReq
    BY <1>3, <2>1 DEF WorkerTakeNormal, WorkerTakes, TypeOK, WorkerStates, AsyncCommands
  <2> QED
    BY <1>3, <2>2 DEF WorkerTakeNormal
<1>4. CASE WorkerInside
  BY <1>4, InsideFrame
<1>5. CASE Reply
  BY <1>5 DEF Reply, NoCmd
<1>6. CASE WatchdogReceives
  BY <1>6 DEF WatchdogReceives, CheckResult, InitResult, StartResult, SyncResult,
     WatchdogTimeout, CheckTimeout, InitTimeout, StartTimeout, SyncTimeout
<1>7. CASE WatchdogDecides
  <2>1. wd'.pc \notin {"wait_init", "wait_start"}
    BY <1>7 DEF WatchdogDecides, BeginCheck, HandleCheckSuccess, HandleCheckFailure,
       ReadRestore, FinishInit, WatchdogGoto, TypeOK, WatchdogStates
  <2> QED
    BY <2>1
<1>8. CASE ExecuteEstop
  <2>1. wd'.pc \notin {"wait_init", "wait_start"}
    BY <1>8 DEF ExecuteEstop, WatchdogGoto, TypeOK, WatchdogStates
  <2> QED
    BY <2>1
<1>9. CASE WatchdogSends
  <2>1. worker' = worker /\ ~ExecuteEstop
    BY <1>9, WatchdogFrame
       DEF WatchdogSends, SendCheck, SendInit, SendStart, ExecuteEstop
  <2>2. PICK cmd \in Commands :
           /\ Len(urgentQueue') = Len(urgentQueue) + 1 /\ Len(urgentQueue) \in Nat
           /\ urgentQueue'[Len(urgentQueue) + 1] = cmd
           /\ \A i \in 1..Len(urgentQueue) : urgentQueue'[i] = urgentQueue[i]
           /\ cmd.req = wd'.req /\ cmd.req \in FreshIds
           /\ \/ cmd.op = "check" /\ wd'.pc = "wait_check"
              \/ cmd.op = "init_device" /\ wd'.pc = "wait_init"
              \/ cmd.op = "start_device" /\ wd'.pc = "wait_start"
    BY <1>9, <2>1, UrgentAppended
  <2>3. /\ worker.cmd.req # wd'.req
        /\ \A i \in 1..Len(urgentQueue) : urgentQueue[i].req # wd'.req
    BY <2>2 DEF FreshIds, IdsInUse
  <2>4. ASSUME NEW i \in 1..Len(urgentQueue')
        PROVE  urgentQueue'[i] = cmd \/ urgentQueue'[i].req # wd'.req
    BY <2>2, <2>3
  <2> QED
    BY <2>1, <2>2, <2>3, <2>4
<1> QED
  BY SupervisionActions, <1>1, <1>2, <1>3, <1>4, <1>5, <1>6, <1>7, <1>8, <1>9

\* While the watchdog has an answered init_device in hand or waits for its start_device, the
\* worker does not run another init_device.
LEMMA NoInitMeanwhile ==
  ASSUME TypeOK, RequestDiscipline, HealthInv,
         \/ wd.pc \in {"read_restore", "send_start", "wait_start", "init_ok"}
         \/ wd.pc = "wait_init" /\ wd.req \in DOMAIN syncResults
  PROVE  worker.cmd.op # "init_device"
<1>1. SentBy(worker.cmd)
  BY DEF HealthInv, CommandOrigins
<1>2. CASE Drained
  BY <1>1, <1>2 DEF Drained, SentBy
<1>3. CASE wd.pc = "wait_start" /\ ~Drained
  <2>1. wd.req # NoReq /\ (AwaitedQueued \/ AwaitedRunning)
    BY <1>3 DEF RequestDiscipline, WaitPcs, AwaitedAnswered
  <2>2. CASE AwaitedRunning
    BY <1>3, <2>1, <2>2 DEF AwaitedRunning, HealthInv, AwaitedCommands, Awaited
  <2>3. CASE AwaitedQueued
    <3>1. PICK i \in 1..Len(urgentQueue) : urgentQueue[i].req = wd.req
      BY <2>3 DEF AwaitedQueued, TypeOK
    <3>2. IsRecovery(urgentQueue[i])
      BY <1>3, <2>1, <3>1 DEF HealthInv, AwaitedCommands, Awaited, IsRecovery
    <3>3. ~IsRecovery(worker.cmd)
      BY <3>2 DEF RequestDiscipline
    <3> QED
      BY <1>1, <3>3 DEF IsRecovery, SentBy
  <2> QED
    BY <2>1, <2>2, <2>3
<1>4. CASE wd.pc # "wait_start" /\ ~Drained
  BY <1>4 DEF RequestDiscipline, AnsweredPcs, WaitPcs, AwaitedQueued, AwaitedRunning,
     AwaitedAnswered
<1> QED
  BY <1>2, <1>3, <1>4

\* The registry entry of an agent that was withdrawn comes back with INIT_AGENT only.
LEMMA WithdrawnStays ==
  ASSUME TypeOK, Next, reg = "none", ~RegisterAgent
  PROVE  reg' = "none"
<1>1. CASE WorkerInside
  BY <1>1 DEF WorkerInside, BeginAgentCommand, ConnectAgent, WithdrawAgent, ReleaseAgent,
     RunDevice, MarkAfterCommand, MarkAgentInitializing, MarkAgentHealthy,
     MarkAgentDisconnected, MarkAgent, Registered, UnregisterPrimaryAgent
<1>2. CASE WatchdogDecides
  BY <1>2 DEF WatchdogDecides, BeginCheck, HandleCheckSuccess, HandleCheckFailure,
     ReadRestore, FinishInit, AfterCheckSuccess, StartsRecovery, AfterCheckFailure, IsLoss,
     AfterInitDevice, MarkAgent, Registered
<1>3. CASE ~WorkerInside /\ ~WatchdogDecides
  BY <1>3, SupervisionActions, WatchdogFrame
     DEF UserCommand, PlugEvent, WorkerTakeUrgent, WorkerTakeNormal, Reply
<1> QED
  BY <1>1, <1>2, <1>3

\* What becomes of the device.
LEMMA DeviceKept ==
  ASSUME TypeOK, HealthInv, Next
  PROVE  \/ device'.flags = device.flags
         \/ RunDevice /\ (worker.cmd.op # "init_device" => device'.flags # "released")
         \/ ReleaseAgent
<1>0. device \in DeviceStates /\ worker.cmd.op # "release_device"
  BY DEF TypeOK, HealthInv, CommandOrigins, SentBy
<1>1. CASE PlugEvent
  BY <1>0, <1>1 DEF PlugEvent, DeviceStates
<1>2. CASE RunDevice
  <2>1. PICK success : device' = DeviceAfter(worker.cmd.op, success)
    BY <1>2 DEF RunDevice
  <2>2. CASE worker.cmd.op = "init_device"
    BY <1>2, <2>2
  <2>3. CASE worker.cmd.op # "init_device"
    <3>1. \/ device' = [device EXCEPT !.flags = "started"]
          \/ device' = [device EXCEPT !.flags = "initialized"]
          \/ device' = device
      BY <1>0, <2>1, <2>3 DEF DeviceAfter
    <3> QED
      BY <1>0, <1>2, <3>1 DEF DeviceStates
  <2> QED
    BY <2>2, <2>3
<1>3. CASE ~PlugEvent /\ ~RunDevice /\ ~ReleaseAgent
  <2>1. device' = device
    BY <1>3, SupervisionActions, WatchdogFrame
       DEF UserCommand, WorkerTakeUrgent, WorkerTakeNormal, Reply, WorkerInside,
           BeginAgentCommand, ConnectAgent, RegisterAgent, WithdrawAgent, MarkAfterCommand
  <2> QED
    BY <2>1
<1> QED
  BY <1>1, <1>2, <1>3

LEMMA ReadyKept ==
  ASSUME TypeOK, OperationsOnly, HealthInv, Next, Ready,
         RunDevice => worker.cmd.op # "init_device"
  PROVE  Ready'
<1>1. AtLaunch' => AtLaunch
  BY LaunchStep
<1>2. CASE RegisterAgent
  <2>1. AtLaunch /\ device' = device
    BY <1>2 DEF RegisterAgent, HealthInv, LaunchFirst, AtLaunch
  <2> QED
    BY <2>1 DEF Ready
<1>3. CASE ReleaseAgent
  <2>1. reg = "none" /\ reg' = reg /\ ~AtLaunch
    BY <1>3 DEF ReleaseAgent, HealthInv, Initialization, LaunchFirst, AtLaunch
  <2> QED
    BY <1>1, <2>1 DEF Ready
<1>4. CASE ~RegisterAgent /\ ~ReleaseAgent
  <2>1. device.flags # "released" => device'.flags # "released"
    BY <1>4, DeviceKept
  <2>2. reg = "none" => reg' = "none"
    BY <1>4, WithdrawnStays
  <2> QED
    BY <1>1, <2>1, <2>2 DEF Ready
<1> QED
  BY <1>2, <1>3, <1>4

\* The worker's part of Initialization.
LEMMA WorkerInitStep ==
  ASSUME TypeOK, HealthInv, RequestDiscipline, Next
  PROVE  /\ worker'.cmd.op = "init_device" /\ worker'.pc = "run" => reg' # "healthy"
         /\ worker'.cmd.op \in {"init_device", "start_device"}
              /\ worker'.pc \in {"post", "reply"} /\ worker'.ok
                => device'.flags # "released"
         /\ worker'.pc = "release" => reg' = "none"
<1> USE DEF HealthInv, Initialization
<1>0. /\ worker \in WorkerStates /\ device \in DeviceStates /\ reg \in AgentStates
      /\ wd \in WatchdogStates
  BY DEF TypeOK
<1>1. CASE UserCommand \/ PlugEvent
  <2>1. UNCHANGED <<worker, reg>> /\ device'.flags = device.flags
    BY <1>0, <1>1 DEF UserCommand, PlugEvent, DeviceStates
  <2> QED
    BY <2>1
<1>2. CASE WorkerTakeUrgent \/ WorkerTakeNormal
  <2>1. worker'.pc = "begin"
    BY <1>2, Taken
  <2> QED
    BY <2>1
<1>3. CASE Reply
  BY <1>3 DEF Reply, NoCmd
<1>4. CASE BeginAgentCommand
  <2>1. /\ worker'.cmd = worker.cmd /\ ~worker'.ok /\ worker'.pc \in {"run", "reply"}
        /\ worker'.pc = "run" => agentUp
    BY <1>0, <1>4 DEF BeginAgentCommand, WorkerGoto, WorkerStates
  <2>2. agentUp /\ worker.cmd.op = "init_device" => reg' # "healthy"
    BY <1>4 DEF BeginAgentCommand, MarkAgentInitializing, MarkAgent, Registered
  <2> QED
    BY <2>1, <2>2
<1>5. CASE ConnectAgent \/ RegisterAgent
  <2>1. /\ worker'.cmd = worker.cmd /\ worker.cmd.op = "INIT_AGENT"
        /\ worker'.pc \in {"register", "reply"}
    BY <1>0, <1>5 DEF ConnectAgent, RegisterAgent, WorkerGoto, WorkerStates, LaunchFirst
  <2> QED
    BY <2>1
<1>6. CASE WithdrawAgent
  <2>1. /\ worker'.cmd = worker.cmd /\ worker.cmd.op \in ManagerOps /\ reg' = "none"
        /\ worker'.pc \in {"release", "reply"}
    BY <1>0, <1>6
       DEF WithdrawAgent, UnregisterPrimaryAgent, WorkerGoto, WorkerStates
  <2> QED
    BY <2>1 DEF ManagerOps
<1>7. CASE ReleaseAgent
  <2>1. worker'.cmd = worker.cmd /\ worker'.pc = "reply" /\ worker.pc = "release"
    BY <1>0, <1>7 DEF ReleaseAgent, WorkerGoto, WorkerStates
  <2>2. worker.cmd.op = "RELEASE_AGENT"
    BY <2>1 DEF LaunchFirst
  <2> QED
    BY <2>1, <2>2
<1>8. CASE RunDevice
  <2>1. /\ worker'.cmd = worker.cmd /\ worker'.pc \in {"post", "reply"}
        /\ worker'.ok => device' = DeviceAfter(worker.cmd.op, TRUE)
    BY <1>0, <1>8 DEF RunDevice, WorkerGoto, WorkerStates, DeviceAfter, Succeeds
  <2>2. worker'.ok /\ worker.cmd.op \in {"init_device", "start_device"}
          => device'.flags # "released"
    BY <1>0, <2>1 DEF DeviceAfter, DeviceStates
  <2> QED
    BY <2>1, <2>2
<1>9. CASE MarkAfterCommand
  <2>1. /\ worker'.cmd = worker.cmd /\ worker'.pc = "reply" /\ worker.pc = "post"
        /\ worker'.ok = worker.ok /\ device' = device
    BY <1>0, <1>9 DEF MarkAfterCommand, WorkerGoto, WorkerStates
  <2> QED
    BY <2>1
<1>10. CASE WatchdogSends \/ WatchdogReceives \/ WatchdogDecides \/ ExecuteEstop
  <2>1. UNCHANGED <<worker, device>>
    BY <1>10, WatchdogFrame
  <2>2. reg = "none" => reg' = "none"
    BY <1>0, <2>1, WithdrawnStays DEF RegisterAgent, WorkerGoto, WorkerStates
  <2>3. worker.cmd.op = "init_device" /\ reg # "healthy" => reg' # "healthy"
    <3>1. CASE FinishInit
      <4>1. wd.pc = "init_ok" => worker.cmd.op # "init_device"
        BY NoInitMeanwhile
      <4> QED
        BY <3>1, <4>1 DEF FinishInit, AfterInitDevice, MarkAgent
    <3>2. CASE ~FinishInit
      BY <1>10, <3>2, WatchdogFrame
         DEF WatchdogDecides, BeginCheck, HandleCheckSuccess, HandleCheckFailure, ReadRestore,
             AfterCheckSuccess, StartsRecovery, AfterCheckFailure, IsLoss
    <3> QED
      BY <3>1, <3>2
  <2> QED
    BY <2>1, <2>2, <2>3
<1> QED
  BY SupervisionActions, <1>1, <1>2, <1>3, <1>4, <1>5, <1>6, <1>7, <1>8, <1>9, <1>10
     DEF WorkerInside

\* The watchdog's part.
LEMMA WatchdogInitStep ==
  ASSUME TypeOK, OperationsOnly, HealthInv, RequestDiscipline, Next
  PROVE  /\ wd'.pc = "wait_init" /\ wd'.req \in DOMAIN syncResults' /\ syncResults'[wd'.req]
              => Ready'
         /\ wd'.pc \in {"read_restore", "send_start", "wait_start", "init_ok"} => Ready'
<1> DEFINE Under == wd.pc \in {"read_restore", "send_start", "wait_start", "init_ok"}
           Answer == wd.pc = "wait_init" /\ wd.req \in DOMAIN syncResults /\ syncResults[wd.req]
<1>0. wd \in WatchdogStates /\ ((Under \/ Answer) => Ready)
  BY DEF TypeOK, HealthInv, Initialization
<1>1. Under \/ Answer => Ready'
  BY <1>0, NoInitMeanwhile, ReadyKept
<1>2. CASE UNCHANGED <<wd, syncResults>>
  BY <1>1, <1>2
<1>3. CASE Reply /\ wd'.pc = "wait_init" /\ syncResults' # syncResults
  <2>1. wd' = wd /\ worker.pc = "reply" /\ worker.cmd.req # NoReq
    BY <1>3 DEF Reply
  <2>2. CASE wd.req = worker.cmd.req
    <3>1. worker.cmd.op = "init_device"
      BY <1>3, <2>1, <2>2 DEF HealthInv, AwaitedCommands, Awaited
    <3>2. syncResults'[wd.req] => worker.ok
      BY <1>3, <2>1, <2>2 DEF Reply
    <3>3. device' = device
      BY <1>3 DEF Reply
    <3> QED
      BY <1>3, <2>1, <3>1, <3>2, <3>3 DEF HealthInv, Initialization, Ready
  <2>3. CASE wd.req # worker.cmd.req
    <3>1. wd.req \in DOMAIN syncResults' => wd.req \in DOMAIN syncResults
                                            /\ syncResults'[wd.req] = syncResults[wd.req]
      BY <1>3, <2>1, <2>3 DEF Reply
    <3> QED
      BY <1>1, <1>3, <2>1, <3>1
  <2> QED
    BY <2>2, <2>3
<1>4. CASE Reply /\ wd'.pc # "wait_init"
  BY <1>1, <1>4 DEF Reply
<1>5. CASE SendInit
  <2>1. wd'.req \in FreshIds /\ wd'.pc = "wait_init" /\ syncResults' = syncResults
    BY <1>5, FreshIdExists DEF SendInit, SendUrgentSync
  <2> QED
    BY <2>1 DEF FreshIds, IdsInUse
<1>6. CASE SendStart
  BY <1>1, <1>6 DEF SendStart, SendUrgentSync
<1>7. CASE SendCheck \/ ExecuteEstop
  BY <1>0, <1>7 DEF SendCheck, SendUrgentSync, ExecuteEstop, WatchdogGoto, WatchdogStates
<1>8. CASE InitResult
  BY <1>1, <1>8 DEF InitResult, SyncResult
<1>9. CASE CheckResult \/ WatchdogTimeout
  BY <1>9 DEF CheckResult, SyncResult, WatchdogTimeout, CheckTimeout, InitTimeout,
     StartTimeout, SyncTimeout
<1>10. CASE StartResult
  BY <1>1, <1>10 DEF StartResult, SyncResult
<1>11. CASE ReadRestore
  BY <1>0, <1>1, <1>11 DEF ReadRestore, WatchdogGoto, WatchdogStates
<1>12. CASE BeginCheck \/ HandleCheckSuccess \/ HandleCheckFailure \/ FinishInit
  BY <1>0, <1>12
     DEF BeginCheck, HandleCheckSuccess, HandleCheckFailure, FinishInit, WatchdogGoto,
         WatchdogStates
<1>13. CASE UserCommand \/ PlugEvent \/ WorkerTakeUrgent \/ WorkerTakeNormal \/ WorkerInside
  BY <1>2, <1>13, InsideFrame DEF UserCommand, PlugEvent, WorkerTakeUrgent, WorkerTakeNormal
<1> QED
  BY SupervisionActions, <1>2, <1>3, <1>4, <1>5, <1>6, <1>7, <1>8, <1>9, <1>10, <1>11, <1>12,
     <1>13
     DEF WatchdogSends, WatchdogReceives, WatchdogDecides, Reply

LEMMA HealthyStep ==
  ASSUME TypeOK, HealthInv, RequestDiscipline, Next
  PROVE  HealthyIsInitialized'
<1> USE DEF HealthInv, HealthyIsInitialized
<1>0. worker \in WorkerStates /\ reg \in AgentStates
  BY DEF TypeOK
<1>1. CASE ReleaseAgent
  BY <1>1 DEF ReleaseAgent, Initialization
<1>2. CASE RunDevice
  BY <1>2, DeviceKept DEF RunDevice, Initialization, ReleaseAgent
<1>3. CASE ~ReleaseAgent /\ ~RunDevice
  <2>1. device'.flags = device.flags
    BY <1>3, DeviceKept
  <2>2. reg' = "healthy" => reg = "healthy" \/ device.flags # "released"
    <3>1. CASE MarkAfterCommand
      BY <3>1 DEF MarkAfterCommand, Initialization, MarkAgentHealthy, MarkAgentDisconnected,
         MarkAgent
    <3>2. CASE FinishInit
      BY <3>2 DEF FinishInit, AfterInitDevice, MarkAgent, Registered, Initialization, Ready
    <3>3. CASE WorkerInside /\ ~MarkAfterCommand
      BY <1>3, <3>3 DEF WorkerInside, BeginAgentCommand, MarkAgentInitializing, MarkAgent,
         ConnectAgent, RegisterAgent, RegisterPrimaryAgent, WithdrawAgent,
         UnregisterPrimaryAgent
    <3>4. CASE ~WorkerInside /\ ~FinishInit
      BY <3>4, SupervisionActions, WatchdogFrame
         DEF UserCommand, PlugEvent, WorkerTakeUrgent, WorkerTakeNormal, Reply,
             WatchdogDecides, BeginCheck, HandleCheckSuccess, HandleCheckFailure, ReadRestore,
             AfterCheckSuccess, StartsRecovery, AfterCheckFailure, IsLoss
    <3> QED
      BY <3>1, <3>2, <3>3, <3>4
  <2> QED
    BY <2>1, <2>2
<1> QED
  BY <1>1, <1>2, <1>3

LEMMA HealthInit == Init => HealthInv
  BY DEF Init, HealthInv, LaunchFirst, AtLaunch, CommandOrigins, SentBy, UrgentOps,
     AwaitedCommands, Awaited, Initialization, HealthyIsInitialized, Cmd, NoCmd

\* An agent that only the watchdog initializes is never shown as healthy while the device is
\* not initialized, whatever is timed out, unplugged, stopped or withdrawn in between
\* (agent_watchdog.cpp:404-473, agent_manager_process.cpp:438-478).
THEOREM HealthyInitialized == OperationsOnly => (Spec => []HealthyIsInitialized)
<1> SUFFICES ASSUME OperationsOnly
             PROVE  Spec => []HealthyIsInitialized
  OBVIOUS
<1>1. TypeOK /\ RequestDiscipline /\ HealthInv /\ [Next]_vars => HealthInv'
  <2> SUFFICES ASSUME TypeOK, RequestDiscipline, HealthInv, [Next]_vars
               PROVE  HealthInv'
    OBVIOUS
  <2>1. CASE Next
    <3>1. LaunchFirst' /\ CommandOrigins' /\ AwaitedCommands' /\ HealthyIsInitialized'
      BY <2>1, LaunchStep, OriginsStep, AwaitedStep, HealthyStep
    <3>2. Initialization'
      BY <2>1, WorkerInitStep, WatchdogInitStep DEF Initialization
    <3> QED
      BY <3>1, <3>2 DEF HealthInv
  <2>2. CASE UNCHANGED vars
    BY <2>2 DEF vars, HealthInv, LaunchFirst, AtLaunch, CommandOrigins, SentBy,
       AwaitedCommands, Awaited, Initialization, Ready, HealthyIsInitialized
  <2> QED
    BY <2>1, <2>2
<1>2. HealthInv => HealthyIsInitialized
  BY DEF HealthInv
<1> QED
  BY <1>1, <1>2, HealthInit, TypeCorrect, RequestDisciplineHolds, PTL DEF Spec
=============================================================================
