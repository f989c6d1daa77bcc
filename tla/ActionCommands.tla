--------------------------- MODULE ActionCommands ---------------------------
(***************************************************************************)
(* How a command travels from BaseAgent::cmd to the subnode and back: the  *)
(* action client of the agent, the goal service, one thread per goal and   *)
(* the result topic of the action server, BaseSubnode's dispatch of        *)
(* commands under one lock, its emergency-stop flag, and the end of the    *)
(* subnode.  Requests go over a service (REQ/REP) that can time out,       *)
(* results over a topic (PUB/SUB) that can lose them.                      *)
(*                                                                         *)
(* A step is what one thread does between two points where another thread  *)
(* can interfere: taking a mutex, reading a flag, sending, returning.      *)
(***************************************************************************)
EXTENDS Naturals, Sequences

CONSTANTS
  MaxCommands,   \* bound: commands the agent sends
  Kinds,         \* the kinds of command it may send
  SleepSeconds,  \* duration of a sleep command
  MaxTimeouts,   \* bound: timeouts of the caller while the subnode runs
  MaxLosses,     \* bound: results lost by the topic
  Stops          \* who may tell the subnode to terminate

AllKinds == {"short", "sleep", "estop", "unknown"}

\* "agent": BaseAgent::disconnect, which closes the action client first;
\* "signal": a signal of somebody else, at any time.
StopModes == {"agent", "signal"}

ASSUME ActionAssumption ==
  /\ MaxCommands \in Nat
  /\ Kinds \subseteq AllKinds
  /\ SleepSeconds \in Nat
  /\ MaxTimeouts \in Nat
  /\ MaxLosses \in Nat
  /\ Stops \subseteq StopModes

VARIABLES
  caller,     \* the thread inside BaseAgent::cmd, which holds commandLock_
  kind,       \* command -> its kind, "none" if it has not been sent
  replied,    \* history: command -> what cmd() returned
  storage,    \* CmdStorage::results_
  callbacks,  \* result_callbacks_: the goals that have one
  pending,    \* pending_results_
  subscriber, \* the result whose callback the subscriber thread will call
  topic,      \* results published and not received
  inbox,      \* requests at the goal service: commands
  service,    \* the service thread inside handleGoal
  nextGoal,   \* next_goal_id
  goalCmd,    \* goal -> the command it carries, 0 if there is none
  flags,      \* cancel_flags_: the goals that have one
  entry,      \* goal_threads_: goal -> "absent", "empty" or "thread"
  thread,     \* goal -> where its thread is in executeGoal
  elapsed,    \* seconds slept by the sleep command that runs
  estopFlag,  \* estopFlag_
  main,       \* the main thread of the subnode in spin()
  published,  \* history: goals whose result was published and not lost
  accepted,   \* history: goals answered by a server that was not closed
  used        \* how much of each bound has been used

clientVars == <<caller, kind, replied, storage, callbacks, pending,
                subscriber>>
goalVars == <<nextGoal, goalCmd, flags, entry>>
vars == <<clientVars, topic, inbox, service, goalVars, thread, elapsed,
          estopFlag, main, published, accepted, used>>

Commands == 1..MaxCommands
Goals == Commands  \* a command makes at most one goal

Outcomes == {"completed", "interrupted", "unknown"}

\* A result tells what happened to which command.
Result(c, how) == [cmd |-> c, how |-> how]
Results == [cmd : Commands, how : Outcomes]
Nothing == Result(0, "none")
EmptySlot == Result(0, "empty")
Failure == Result(0, "failed")
Posted == Result(0, "posted")
Message(g, r) == [goal |-> g, result |-> r]
NoMessage == Message(0, Nothing)
Messages == [goal : Goals, result : Results]

CallerPcs == {"idle", "calling", "register", "deliver", "init", "wait",
              "closed"}
ThreadPcs == {"none", "created", "entered", "waiting", "running", "finished",
              "publishing", "cleanup", "done"}
MainPcs == {"up", "closing", "joining", "members", "releasing", "exited",
            "crashed"}

CallerStates == [pc : CallerPcs, cmd : 0..MaxCommands, goal : {0} \cup Goals,
                 taken : Results \cup {Nothing}]
ThreadStates == [pc : ThreadPcs, how : Outcomes \cup {"none"}]
MainStates == [pc : MainPcs, by : StopModes \cup {"none"},
               joins : SUBSET Goals]

TypeOK ==
  /\ caller \in CallerStates
  /\ kind \in [Commands -> AllKinds \cup {"none"}]
  /\ replied \in [Commands -> Results \cup {Nothing, Failure, Posted}]
  /\ storage \in [Goals -> Results \cup {Nothing, EmptySlot}]
  /\ callbacks \subseteq Goals
  /\ pending \in [Goals -> Results \cup {Nothing}]
  /\ subscriber \in Messages \cup {NoMessage}
  /\ topic \in Seq(Messages)
  /\ inbox \in Seq(Commands)
  /\ service \in {0} \cup Goals
  /\ nextGoal \in Nat \ {0}
  /\ goalCmd \in [Goals -> {0} \cup Commands]
  /\ flags \subseteq Goals
  /\ entry \in [Goals -> {"absent", "empty", "thread"}]
  /\ thread \in [Goals -> ThreadStates]
  /\ elapsed \in 0..SleepSeconds
  /\ estopFlag \in BOOLEAN
  /\ main \in MainStates
  /\ published \subseteq Goals
  /\ accepted \subseteq Goals
  /\ used \in [timeouts : Nat, losses : Nat]

\* The agent has connected to a subnode that has just created its server.
Init ==
  /\ caller = [pc |-> "idle", cmd |-> 0, goal |-> 0, taken |-> Nothing]
  /\ kind = [c \in Commands |-> "none"]
  /\ replied = [c \in Commands |-> Nothing]
  /\ storage = [g \in Goals |-> Nothing]
  /\ callbacks = {}
  /\ pending = [g \in Goals |-> Nothing]
  /\ subscriber = NoMessage
  /\ topic = <<>>
  /\ inbox = <<>>
  /\ service = 0
  /\ nextGoal = 1
  /\ goalCmd = [g \in Goals |-> 0]
  /\ flags = {}
  /\ entry = [g \in Goals |-> "absent"]
  /\ thread = [g \in Goals |-> [pc |-> "none", how |-> "none"]]
  /\ elapsed = 0
  /\ estopFlag = FALSE
  /\ main = [pc |-> "up", by |-> "none", joins |-> {}]
  /\ published = {}
  /\ accepted = {}
  /\ used = [timeouts |-> 0, losses |-> 0]

Alive == main.pc \notin {"exited", "crashed"}
ServiceRuns == main.pc \in {"up", "closing", "joining", "members"}
ServerGone == main.pc \notin {"up", "closing"}  \* actionServer_ is null
KindOf(g) == kind[goalCmd[g]]

\* The maps of a destroyed server, its mutex and its callback: who uses them
\* may end the process.
MapsGone == main.pc \in {"members", "releasing"}
UseMaps ==
  \/ UNCHANGED main
  \/ MapsGone /\ main' = [main EXCEPT !.pc = "crashed"]

---------------------------------------------------------------------------
(* The agent: BaseAgent::cmd and ActionClient::sendGoal *)

Return(r) ==
  /\ replied' = [replied EXCEPT ![caller.cmd] = r]
  /\ caller' = [caller EXCEPT !.pc = "idle", !.goal = 0, !.taken = Nothing]

\* cmd() takes commandLock_ and sendGoal calls the goal service.
SendGoal ==
  /\ caller.pc = "idle"
  /\ caller.cmd < MaxCommands
  /\ caller' = [caller EXCEPT !.pc = "calling", !.cmd = @ + 1]
  /\ \E k \in Kinds : kind' = [kind EXCEPT ![caller.cmd + 1] = k]
  /\ inbox' = Append(inbox, caller.cmd + 1)
  /\ UNCHANGED <<replied, storage, callbacks, pending, subscriber, topic,
                 service, goalVars, thread, elapsed, estopFlag, main,
                 published, accepted, used>>

\* The subnode is gone, or the goal has ended and its result is lost.
NoAnswerComes ==
  \/ ~ServiceRuns
  \/ \E g \in Goals : /\ g = caller.goal /\ g \notin published
                      /\ thread[g].pc \in {"cleanup", "done"}

\* A caller gives up for good reason when no answer comes, and otherwise within
\* the bound.
TimesOut ==
  \/ NoAnswerComes /\ UNCHANGED used
  \/ used.timeouts < MaxTimeouts /\ used' = [used EXCEPT !.timeouts = @ + 1]

\* ServiceClient::call throws and cmd() returns a failure.  The socket is
\* closed without lingering: the request may have left or not.
CallTimeout ==
  /\ caller.pc = "calling"
  /\ TimesOut
  /\ Return(Failure)
  /\ \/ UNCHANGED inbox
     \/ /\ inbox # <<>>
        /\ inbox[Len(inbox)] = caller.cmd
        /\ inbox' = SubSeq(inbox, 1, Len(inbox) - 1)
  /\ UNCHANGED <<kind, storage, callbacks, pending, subscriber, topic,
                 service, goalVars, thread, elapsed, estopFlag, main,
                 published, accepted>>

\* sendGoal under callbacks_mutex_: a result that has arrived already is taken
\* over, but the callback stays registered.
RegisterCallbacks ==
  /\ caller.pc = "register"
  /\ LET g == caller.goal IN
     /\ callbacks' = callbacks \cup {g}
     /\ caller' = [caller EXCEPT !.taken = pending[g],
                                 !.pc = IF pending[g] # Nothing THEN "deliver"
                                                                ELSE "init"]
     /\ pending' = [pending EXCEPT ![g] = Nothing]
  /\ UNCHANGED <<kind, replied, storage, subscriber, topic, inbox, service,
                 goalVars, thread, elapsed, estopFlag, main, published,
                 accepted, used>>

\* sendGoal calls the result callback itself, outside the lock.
DeliverPending ==
  /\ caller.pc = "deliver"
  /\ storage' = [storage EXCEPT ![caller.goal] = caller.taken]
  /\ caller' = [caller EXCEPT !.pc = "init"]
  /\ UNCHANGED <<kind, replied, callbacks, pending, subscriber, topic, inbox,
                 service, goalVars, thread, elapsed, estopFlag, main,
                 published, accepted, used>>

\* Faulty variant: the slot is assigned instead of emplaced.
InitSlotAlways(g) == storage' = [storage EXCEPT ![g] = EmptySlot]

\* hasGoal and initGoal: emplace leaves a result alone that came in between.
InitSlot(g) ==
  storage' = [storage EXCEPT ![g] = IF @ = Nothing THEN EmptySlot ELSE @]

\* An estop is sent by AgentManager::stopAllAgents, which does not wait.
InitGoal ==
  /\ caller.pc = "init"
  /\ InitSlot(caller.goal)
  /\ IF kind[caller.cmd] = "estop"
       THEN Return(Posted)
       ELSE caller' = [caller EXCEPT !.pc = "wait"] /\ UNCHANGED replied
  /\ UNCHANGED <<kind, callbacks, pending, subscriber, topic, inbox, service,
                 goalVars, thread, elapsed, estopFlag, main, published,
                 accepted, used>>

\* Faulty variant: a slot that has only been made counts as a result.
IsCmdKnown(g) == storage[g] # Nothing

IsCmdDone(g) == storage[g] \notin {Nothing, EmptySlot}

CmdDone ==
  /\ caller.pc = "wait"
  /\ IsCmdDone(caller.goal)
  /\ Return(storage[caller.goal])
  /\ UNCHANGED <<kind, storage, callbacks, pending, subscriber, topic, inbox,
                 service, goalVars, thread, elapsed, estopFlag, main,
                 published, accepted, used>>

CmdTimeout ==
  /\ caller.pc = "wait"
  /\ ~IsCmdDone(caller.goal)
  /\ TimesOut
  /\ Return(Failure)
  /\ UNCHANGED <<kind, storage, callbacks, pending, subscriber, topic, inbox,
                 service, goalVars, thread, elapsed, estopFlag, main,
                 published, accepted>>

\* BaseAgent::disconnect, in the thread that has sent the commands: the action
\* client and its subscriber thread go, a request that has timed out stays.
CloseClient ==
  /\ "agent" \in Stops
  /\ caller.pc = "idle"
  /\ subscriber = NoMessage
  /\ caller' = [caller EXCEPT !.pc = "closed"]
  /\ UNCHANGED <<kind, replied, storage, callbacks, pending, subscriber, topic,
                 inbox, service, goalVars, thread, elapsed, estopFlag, main,
                 published, accepted, used>>

---------------------------------------------------------------------------
(* The agent's subscriber thread: ActionClient::handleResultRaw *)

\* Faulty variant: a result without callback is dropped.
KeepNothing(g, r) == UNCHANGED pending

KeepPending(g, r) == pending' = [pending EXCEPT ![g] = r]

HandleResult ==
  /\ caller.pc # "closed"
  /\ subscriber = NoMessage
  /\ topic # <<>>
  /\ topic' = Tail(topic)
  /\ LET m == Head(topic) IN
     IF m.goal \in callbacks
       THEN /\ callbacks' = callbacks \ {m.goal}
            /\ subscriber' = m
            /\ UNCHANGED pending
       ELSE /\ KeepPending(m.goal, m.result)
            /\ UNCHANGED <<callbacks, subscriber>>
  /\ UNCHANGED <<caller, kind, replied, storage, inbox, service, goalVars,
                 thread, elapsed, estopFlag, main, published, accepted, used>>

\* The callback of cmd(): CmdStorage::setResult.
RunResultCallback ==
  /\ subscriber # NoMessage
  /\ storage' = [storage EXCEPT ![subscriber.goal] = subscriber.result]
  /\ subscriber' = NoMessage
  /\ UNCHANGED <<caller, kind, replied, callbacks, pending, topic, inbox,
                 service, goalVars, thread, elapsed, estopFlag, main,
                 published, accepted, used>>

\* PUB/SUB gives no guarantee: a slow joiner or a full queue loses messages.
LoseResult ==
  /\ topic # <<>>
  /\ used.losses < MaxLosses
  /\ used' = [used EXCEPT !.losses = @ + 1]
  /\ topic' = Tail(topic)
  /\ published' = published \ {Head(topic).goal}
  /\ UNCHANGED <<clientVars, inbox, service, goalVars, thread, elapsed,
                 estopFlag, main, accepted>>

---------------------------------------------------------------------------
(* The subnode's service thread: ActionServer::handleGoal *)

\* Take a request, enter the goal in both maps and start its thread.
HandleGoal ==
  /\ ServiceRuns
  /\ service = 0
  /\ inbox # <<>>
  /\ nextGoal \in Goals
  /\ inbox' = Tail(inbox)
  /\ service' = nextGoal
  /\ nextGoal' = nextGoal + 1
  /\ goalCmd' = [goalCmd EXCEPT ![nextGoal] = Head(inbox)]
  /\ flags' = flags \cup {nextGoal}
  /\ entry' = [entry EXCEPT ![nextGoal] = "empty"]
  /\ thread' = [thread EXCEPT ![nextGoal].pc = "created"]
  /\ UseMaps
  /\ UNCHANGED <<clientVars, topic, elapsed, estopFlag, published, accepted,
                 used>>

\* Store the thread, or detach it when its entry is gone, and answer the
\* request; a caller that has given up does not get the answer.
StoreThread ==
  /\ ServiceRuns
  /\ service # 0
  /\ entry' = [entry EXCEPT ![service] =
                 IF @ = "absent" THEN "absent" ELSE "thread"]
  /\ caller' = IF caller.pc = "calling" /\ caller.cmd = goalCmd[service]
                 THEN [caller EXCEPT !.pc = "register", !.goal = service]
                 ELSE caller
  /\ service' = 0
  /\ accepted' = IF ServerGone THEN accepted ELSE accepted \cup {service}
  /\ UseMaps
  /\ UNCHANGED <<kind, replied, storage, callbacks, pending, subscriber, topic,
                 inbox, nextGoal, goalCmd, flags, thread, elapsed, estopFlag,
                 published, used>>

---------------------------------------------------------------------------
(* The goal threads: ActionServer::executeGoal, BaseSubnode::actionCallback *)

At(g, pc) == Alive /\ thread[g].pc = pc
MoveTo(g, pc) == thread' = [thread EXCEPT ![g].pc = pc]
FinishAs(g, how) ==
  thread' = [thread EXCEPT ![g] = [pc |-> "finished", how |-> how]]

\* executeGoal leaves at once when its cancel flag is gone; in the map of a
\* destroyed server it may find anything.
LookUpGoal(g) ==
  /\ At(g, "created")
  /\ \E found \in IF MapsGone THEN BOOLEAN ELSE {g \in flags} :
       MoveTo(g, IF found THEN "entered" ELSE "done")
  /\ UseMaps
  /\ UNCHANGED <<clientVars, topic, inbox, service, goalVars, elapsed,
                 estopFlag, published, accepted, used>>

\* Every command clears the stop flag when it arrives; one that is not
\* registered is answered without the command lock.
EnterCommand(g) ==
  /\ At(g, "entered")
  /\ estopFlag' = FALSE
  /\ IF KindOf(g) = "unknown" THEN FinishAs(g, "unknown")
                              ELSE MoveTo(g, "waiting")
  /\ UseMaps
  /\ UNCHANGED <<clientVars, topic, inbox, service, goalVars, elapsed,
                 published, accepted, used>>

\* Faulty variant: nobody holds the lock for long.
NotLocked == TRUE

CommandLockFree == \A h \in Goals : thread[h].pc # "running"

StartCommand(g) ==
  /\ At(g, "waiting")
  /\ CommandLockFree
  /\ MoveTo(g, "running")
  /\ elapsed' = 0
  /\ UNCHANGED <<clientVars, topic, inbox, service, goalVars, estopFlag, main,
                 published, accepted, used>>

RunShort(g) ==
  /\ At(g, "running")
  /\ KindOf(g) = "short"
  /\ FinishAs(g, "completed")
  /\ UNCHANGED <<clientVars, topic, inbox, service, goalVars, elapsed,
                 estopFlag, main, published, accepted, used>>

\* estop(): needs the command lock like every other command.
RunEstop(g) ==
  /\ At(g, "running")
  /\ KindOf(g) = "estop"
  /\ estopFlag' = TRUE
  /\ FinishAs(g, "completed")
  /\ UNCHANGED <<clientVars, topic, inbox, service, goalVars, elapsed, main,
                 published, accepted, used>>

SleepOver == elapsed = SleepSeconds

\* The sleep command looks at the stop flag before each second.
SleepOn(g) ==
  /\ At(g, "running")
  /\ KindOf(g) = "sleep"
  /\ IF SleepOver
       THEN FinishAs(g, "completed") /\ UNCHANGED elapsed
       ELSE IF estopFlag THEN FinishAs(g, "interrupted") /\ UNCHANGED elapsed
                         ELSE elapsed' = elapsed + 1 /\ UNCHANGED thread
  /\ UNCHANGED <<clientVars, topic, inbox, service, goalVars, estopFlag, main,
                 published, accepted, used>>

\* sendResult returns when the subnode shuts down or has no server.
SendResult(g) ==
  /\ At(g, "finished")
  /\ MoveTo(g, IF main.pc = "up" THEN "publishing" ELSE "cleanup")
  /\ UNCHANGED <<clientVars, topic, inbox, service, goalVars, elapsed,
                 estopFlag, main, published, accepted, used>>

ResultMessage(g) == Message(g, Result(goalCmd[g], thread[g].how))

\* publishResult through actionServer_.  When the pointer has been reset since
\* it was checked, the call goes through null, which ends the process unless
\* the pointer had been loaded before.
PublishResult(g) ==
  /\ At(g, "publishing")
  /\ MoveTo(g, "cleanup")
  /\ \/ /\ topic' = Append(topic, ResultMessage(g))
        /\ published' = published \cup {g}
        /\ UNCHANGED main
     \/ /\ ServerGone
        /\ main' = [main EXCEPT !.pc = "crashed"]
        /\ UNCHANGED <<topic, published>>
  /\ UNCHANGED <<clientVars, inbox, service, goalVars, elapsed, estopFlag,
                 accepted, used>>

ForgetGoal(g) ==
  /\ At(g, "cleanup")
  /\ MoveTo(g, "done")
  /\ flags' = flags \ {g}
  /\ entry' = [entry EXCEPT ![g] = "absent"]
  /\ UseMaps
  /\ UNCHANGED <<clientVars, topic, inbox, service, nextGoal, goalCmd, elapsed,
                 estopFlag, published, accepted, used>>

\* Faulty variant: the destructor joins while it holds goals_mutex_.
ForgetGoalUnlessJoining(g) == main.pc # "joining" /\ ForgetGoal(g)

\* executeGoal erases the goal under goals_mutex_.
CleanUpGoal(g) == ForgetGoal(g)

GoalThread(g) ==
  \/ LookUpGoal(g) \/ EnterCommand(g) \/ StartCommand(g)
  \/ RunShort(g) \/ RunEstop(g) \/ SleepOn(g)
  \/ SendResult(g) \/ PublishResult(g) \/ CleanUpGoal(g)

---------------------------------------------------------------------------
(* The subnode's main thread: spin and BaseSubnode::disconnect *)

\* The signal that ends spin; disconnect sets isShuttingDown_.
Terminate ==
  /\ main.pc = "up"
  /\ \E by \in Stops :
       /\ by = "agent" => caller.pc = "closed"
       /\ main' = [main EXCEPT !.pc = "closing", !.by = by]
  /\ UNCHANGED <<clientVars, topic, inbox, service, goalVars, thread, elapsed,
                 estopFlag, published, accepted, used>>

StoredThreads == {g \in Goals : entry[g] = "thread"}

\* closeActionServer resets actionServer_; the destructor takes the threads
\* out of the map and clears both maps.
CloseActionServer ==
  /\ main.pc = "closing"
  /\ main' = [main EXCEPT !.pc = "joining", !.joins = StoredThreads]
  /\ entry' = [g \in Goals |-> "absent"]
  /\ flags' = {}
  /\ UNCHANGED <<clientVars, topic, inbox, service, nextGoal, goalCmd, thread,
                 elapsed, estopFlag, published, accepted, used>>

\* Faulty variant: the threads are detached.
NothingToJoin == TRUE

Joined == \A g \in main.joins : thread[g].pc = "done"

\* The members go when the threads are joined, the last declared first: the
\* maps, which end the process when they have got a thread again ...
DestroyMaps ==
  /\ main.pc = "joining"
  /\ Joined
  /\ main' = [main EXCEPT !.pc = IF StoredThreads # {} THEN "crashed"
                                                      ELSE "members"]
  /\ UNCHANGED <<clientVars, topic, inbox, service, goalVars, thread, elapsed,
                 estopFlag, published, accepted, used>>

\* ... and then the goal service, whose thread has taken requests up to now.
\* spin calls release().
FinishClose ==
  /\ main.pc = "members"
  /\ service = 0
  /\ main' = [main EXCEPT !.pc = "releasing"]
  /\ UNCHANGED <<clientVars, topic, inbox, service, goalVars, thread, elapsed,
                 estopFlag, published, accepted, used>>

Exit ==
  /\ main.pc = "releasing"
  /\ main' = [main EXCEPT !.pc = "exited"]
  /\ UNCHANGED <<clientVars, topic, inbox, service, goalVars, thread, elapsed,
                 estopFlag, published, accepted, used>>

---------------------------------------------------------------------------

Caller ==
  \/ RegisterCallbacks \/ DeliverPending \/ InitGoal \/ CmdDone
Service == HandleGoal \/ StoreThread
Main == CloseActionServer \/ DestroyMaps \/ FinishClose \/ Exit

Next ==
  \/ SendGoal \/ CallTimeout \/ CmdTimeout \/ Caller \/ CloseClient
  \/ HandleResult \/ RunResultCallback \/ LoseResult
  \/ Service
  \/ \E g \in Goals : GoalThread(g)
  \/ Terminate \/ Main

Spec == Init /\ [][Next]_vars

\* Every thread goes on when it can, and a caller that gets no answer gives up
\* in the end; nothing forces a command to be sent, any other timeout, a loss or
\* a termination.
GiveUp == NoAnswerComes /\ (CallTimeout \/ CmdTimeout)

FairSpec ==
  /\ Spec
  /\ WF_vars(Caller)
  /\ WF_vars(GiveUp)
  /\ WF_vars(HandleResult)
  /\ WF_vars(RunResultCallback)
  /\ WF_vars(HandleGoal)
  /\ WF_vars(StoreThread)
  /\ \A g \in Goals : WF_vars(GoalThread(g))
  /\ WF_vars(Main)

---------------------------------------------------------------------------
(* Properties *)

\* A result that was published while its caller is still there, and that the
\* topic did not lose, is on its way to the caller in every state: whether it
\* comes before or after sendGoal has registered the callback, and before or
\* after cmd() has made the slot (action.cpp 192-223, base_agent.cpp 253).
ResultIsUnderWay(g) ==
  \/ \E i \in DOMAIN topic : topic[i].goal = g
  \/ subscriber.goal = g
  \/ caller.pc = "register" /\ pending[g] # Nothing
  \/ caller.pc = "deliver" /\ caller.taken # Nothing
  \/ IsCmdDone(g)

AwaitedResultArrives ==
  /\ caller.pc \in {"register", "deliver", "init", "wait"}
  /\ caller.goal \in published
  => ResultIsUnderWay(caller.goal)

\* Two commands are in the subnode together only when the caller of the first
\* has given up on it or never waited: apart from that cmd() keeps the order
\* of the commands, although their threads compete for the lock.
InProgress(g) == thread[g].pc \in {"created", "entered", "waiting", "running"}

OverlapNeedsGiveUp ==
  \A g, h \in Goals :
    InProgress(g) /\ InProgress(h) /\ goalCmd[g] < goalCmd[h]
      => replied[goalCmd[g]] \in {Failure, Posted}

\* A command that executes, or may still be executed, while spin is in release()
\* was not answered before the server was closed: the destructor joins all that
\* were, whoever ends the subnode and whatever it is taking meanwhile.  After a
\* disconnect of the agent only requests are left that timed out at the goal
\* service; no caller has learnt the goal (action.cpp 34-83, base_agent.cpp
\* 177-206, service.cpp 164-180).
CommandsEndBeforeRelease ==
  main.pc = "releasing" =>
    \A g \in Goals : InProgress(g) =>
      /\ g \notin accepted
      /\ main.by = "agent" => replied[goalCmd[g]] = Failure

\* The commands of the agent are executed at most once and one at a time, and
\* each caller gets the outcome of its own command (RemoteCommand).
Executed(c) == {g \in Goals : goalCmd[g] = c /\ thread[g].how # "none"}

StageOf(c) ==
  IF kind[c] = "none" THEN "unsent"
  ELSE IF \E g \in Goals : goalCmd[g] = c /\ thread[g].pc = "running"
         THEN "running"
         ELSE IF Executed(c) = {}
                THEN "sent"
                ELSE thread[CHOOSE g \in Executed(c) : TRUE].how

ReplyTo(c) ==
  IF replied[c].cmd \in {0, c} THEN replied[c].how ELSE "foreign"

Stages == [c \in Commands |-> StageOf(c)]
Replies == [c \in Commands |-> ReplyTo(c)]

Remote == INSTANCE RemoteCommand WITH stage <- Stages, reply <- Replies

RemoteCommandSpec == Remote!Spec

\* cmd() always returns, whatever times out or is lost and however the subnode
\* ends: a caller only waits for a result that is on its way.
EveryCommandIsAnswered ==
  \A c \in Commands : (kind[c] # "none") ~> (replied[c] # Nothing)

\* A subnode that is told to terminate ends: the destructor of the server does
\* not wait for threads that wait for it.
StopEnds == (main.pc = "closing") ~> (main.pc \in {"exited", "crashed"})

============================================================================
