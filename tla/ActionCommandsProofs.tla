------------------------ MODULE ActionCommandsProofs ------------------------
(***************************************************************************)
(* Machine-checked proofs about ActionCommands, for every number of        *)
(* commands, seconds, timeouts and losses and every way to stop: its       *)
(* types, that no awaited result is lost, that commands of callers who     *)
(* wait for them do not overlap, which commands can outlive the server,    *)
(* and that it implements RemoteCommand, by which commands are executed at *)
(* most once and one at a time and each caller is told the outcome of its  *)
(* own.                                                                    *)
(***************************************************************************)
EXTENDS ActionCommands, TLAPS

---------------------------------------------------------------------------
(* Results, messages and thread states *)

LEMMA ResultTypes ==
  /\ \A c \in Commands, how \in Outcomes : Result(c, how) \in Results
  /\ \A r \in Results : r = Result(r.cmd, r.how)
  /\ Nothing \notin Results /\ EmptySlot \notin Results
  /\ Failure \notin Results /\ Posted \notin Results
  /\ EmptySlot # Nothing /\ Failure # Nothing /\ Posted # Nothing
  BY DEF Result, Results, Nothing, EmptySlot, Failure, Posted, Commands,
         Outcomes

LEMMA MessageTypes ==
  /\ \A g \in Goals, r \in Results :
       /\ Message(g, r) \in Messages
       /\ Message(g, r).goal = g
       /\ Message(g, r).result = r
  /\ \A m \in Messages : m.goal \in Goals /\ m.result \in Results
  /\ NoMessage \notin Messages
  /\ NoMessage.goal = 0
  BY DEF Message, Messages, NoMessage, Goals, Commands

LEMMA GoalRange == 0 \notin Goals /\ 0 \notin Commands /\ Goals = Commands
  BY ActionAssumption DEF Goals, Commands

LEMMA Moved ==
  ASSUME thread \in [Goals -> ThreadStates], NEW g \in Goals,
         NEW pc \in ThreadPcs, MoveTo(g, pc)
  PROVE  \E t \in ThreadStates :
           /\ t.pc = pc /\ t.how = thread[g].how
           /\ thread' = [thread EXCEPT ![g] = t]
<1>1. [thread[g] EXCEPT !.pc = pc] \in ThreadStates
  BY DEF ThreadStates
<1>2. thread' = [thread EXCEPT ![g] = [thread[g] EXCEPT !.pc = pc]]
  BY DEF MoveTo
<1>3. /\ [thread[g] EXCEPT !.pc = pc].pc = pc
      /\ [thread[g] EXCEPT !.pc = pc].how = thread[g].how
  BY DEF ThreadStates
<1> QED
  BY <1>1, <1>2, <1>3

LEMMA Finished ==
  ASSUME thread \in [Goals -> ThreadStates], NEW g \in Goals,
         NEW how \in Outcomes, FinishAs(g, how)
  PROVE  \E t \in ThreadStates :
           /\ t.pc = "finished" /\ t.how = how
           /\ thread' = [thread EXCEPT ![g] = t]
<1>1. [pc |-> "finished", how |-> how] \in ThreadStates
  BY DEF ThreadStates, ThreadPcs, Outcomes
<1> QED
  BY <1>1 DEF FinishAs

---------------------------------------------------------------------------
(* Type correctness *)

\* No command of the agent is under way in the thread of its caller.
Idle == caller.pc \in {"idle", "closed"}

\* A caller that has sent its command works on one of its commands, one that
\* has got an answer on a goal, one that delivers a result has taken it.
CallerInPlace ==
  /\ ~Idle => caller.cmd \in Commands
  /\ caller.pc \in {"register", "deliver", "init", "wait"}
       => caller.goal \in Goals
  /\ caller.pc = "deliver" => caller.taken \in Results

\* A goal thread carries a command, and it has an outcome once it has executed.
Before == {"none", "created", "entered", "waiting", "running"}
After == {"finished", "publishing", "cleanup"}

ThreadInPlace ==
  \A g \in Goals :
    /\ thread[g].pc # "none" => goalCmd[g] \in Commands
    /\ thread[g].pc \in Before => thread[g].how = "none"
    /\ thread[g].pc \in After => thread[g].how \in Outcomes

\* The goals from nextGoal on are unused.
FreshGoals ==
  \A g \in Goals : g >= nextGoal => thread[g].pc = "none" /\ goalCmd[g] = 0

ThreadsTyped ==
  /\ thread \in [Goals -> ThreadStates]
  /\ ThreadInPlace
  /\ FreshGoals

Typed == TypeOK /\ CallerInPlace /\ ThreadInPlace /\ FreshGoals

LEMMA TypedInit == Init => Typed
<1> SUFFICES ASSUME Init PROVE Typed
  OBVIOUS
<1>1. caller \in CallerStates /\ CallerInPlace
  BY ActionAssumption DEF Init, CallerStates, CallerPcs, CallerInPlace, Idle
<1>2. thread \in [Goals -> ThreadStates] /\ ThreadInPlace /\ FreshGoals
  BY DEF Init, ThreadStates, ThreadPcs, ThreadInPlace, FreshGoals, Before,
         After
<1>3. main \in MainStates
  BY DEF Init, MainStates, MainPcs, StopModes
<1>4. elapsed \in 0..SleepSeconds
  BY ActionAssumption DEF Init
<1>5. /\ kind \in [Commands -> AllKinds \cup {"none"}]
      /\ replied \in [Commands -> Results \cup {Nothing, Failure, Posted}]
      /\ storage \in [Goals -> Results \cup {Nothing, EmptySlot}]
      /\ pending \in [Goals -> Results \cup {Nothing}]
      /\ goalCmd \in [Goals -> {0} \cup Commands]
      /\ entry \in [Goals -> {"absent", "empty", "thread"}]
  BY DEF Init
<1>6. topic \in Seq(Messages) /\ inbox \in Seq(Commands)
  BY DEF Init
<1>7. estopFlag \in BOOLEAN
  BY Zenon DEF Init
<1>8. /\ subscriber \in Messages \cup {NoMessage}
      /\ service \in {0} \cup Goals /\ nextGoal \in Nat \ {0}
      /\ used \in [timeouts : Nat, losses : Nat]
  BY DEF Init
<1>9. /\ callbacks \subseteq Goals
      /\ flags \subseteq Goals
      /\ published \subseteq Goals
      /\ accepted \subseteq Goals
  BY DEF Init
<1> QED
  BY <1>1, <1>2, <1>3, <1>4, <1>5, <1>6, <1>7, <1>8, <1>9
     DEF Typed, TypeOK

\* A caller that returns is idle and has told its command's result.
LEMMA Returned ==
  ASSUME Typed, ~Idle,
         NEW r \in Results \cup {Nothing, Failure, Posted}, Return(r)
  PROVE  /\ caller' \in CallerStates /\ CallerInPlace'
         /\ replied' \in [Commands -> Results \cup {Nothing, Failure, Posted}]
<1>1. caller' \in CallerStates /\ caller'.pc = "idle"
  BY DEF Return, Typed, TypeOK, CallerStates, CallerPcs
<1>2. replied' \in [Commands -> Results \cup {Nothing, Failure, Posted}]
  BY DEF Return, Typed, TypeOK
<1> QED
  BY <1>1, <1>2 DEF CallerInPlace, Idle

\* Who uses the maps of a destroyed server may end the process, no more.
LEMMA MapsUsed ==
  ASSUME Typed, UseMaps
  PROVE  /\ main' \in MainStates
         /\ UNCHANGED main \/ (/\ main.pc \in {"members", "releasing"}
                               /\ main'.pc = "crashed" /\ main'.by = main.by)
  BY DEF Typed, TypeOK, UseMaps, MapsGone, MainStates, MainPcs

LEMMA ThreadStep ==
  ASSUME Typed, NEW g \in Goals, NEW t \in ThreadStates,
         thread' = [thread EXCEPT ![g] = t],
         thread[g].pc # "none", goalCmd' = goalCmd, nextGoal' = nextGoal,
         t.pc \in Before => t.how = "none",
         t.pc \in After => t.how \in Outcomes
  PROVE  ThreadsTyped'
<1>1. thread' \in [Goals -> ThreadStates]
  BY DEF Typed, TypeOK
<1>2. thread'[g] = t /\ \A h \in Goals \ {g} : thread'[h] = thread[h]
  BY DEF Typed, TypeOK
<1>3. ThreadInPlace'
  BY <1>2 DEF Typed, ThreadInPlace, Before
<1>4. FreshGoals'
  BY <1>2 DEF Typed, FreshGoals
<1> QED
  BY <1>1, <1>3, <1>4 DEF ThreadsTyped

LEMMA TypedStep == Typed /\ [Next]_vars => Typed'
<1> SUFFICES ASSUME Typed, [Next]_vars PROVE Typed'
  OBVIOUS
<1>1. CASE SendGoal
  <2>1. caller' \in CallerStates /\ CallerInPlace'
    <3>1. caller' = [caller EXCEPT !.pc = "calling", !.cmd = @ + 1]
      BY <1>1 DEF SendGoal
    <3>2. caller \in CallerStates
      BY DEF Typed, TypeOK
    <3>3. caller.cmd \in 0..MaxCommands /\ caller.cmd < MaxCommands
      BY <1>1, <3>2 DEF SendGoal, CallerStates
    <3>4. caller.cmd + 1 \in Commands /\ caller.cmd + 1 \in 0..MaxCommands
      BY <3>3, ActionAssumption DEF Commands
    <3>5. caller'.pc = "calling" /\ caller'.cmd = caller.cmd + 1
      BY <3>1, <3>2 DEF CallerStates
    <3>6. caller' \in CallerStates
      BY <3>1, <3>2, <3>4 DEF CallerStates, CallerPcs
    <3> QED
      BY <3>4, <3>5, <3>6 DEF CallerInPlace
  <2>2. caller.cmd + 1 \in Commands
    BY <1>1, ActionAssumption
      DEF SendGoal, Typed, TypeOK, CallerStates, Commands
  <2>3. kind' \in [Commands -> AllKinds \cup {"none"}]
    BY <1>1, ActionAssumption DEF SendGoal, Typed, TypeOK
  <2>4. inbox' \in Seq(Commands)
    BY <1>1, <2>2 DEF SendGoal, Typed, TypeOK
  <2> QED
    BY <1>1, <2>1, <2>2, <2>3, <2>4
       DEF SendGoal, Typed, TypeOK, CallerInPlace, ThreadInPlace,
           FreshGoals, clientVars, goalVars, Idle
<1>2. CASE CallTimeout
  <2>1. /\ caller' \in CallerStates
        /\ CallerInPlace'
        /\ replied' \in [Commands -> Results \cup {Nothing, Failure, Posted}]
    BY <1>2, Returned DEF CallTimeout, Idle
  <2>2. used' \in [timeouts : Nat, losses : Nat]
    BY <1>2 DEF CallTimeout, TimesOut, Typed, TypeOK
  <2>3. inbox' \in Seq(Commands)
    <3>1. inbox' \in {inbox, SubSeq(inbox, 1, Len(inbox) - 1)}
      BY <1>2 DEF CallTimeout
    <3>2. inbox \in Seq(Commands)
      BY DEF Typed, TypeOK
    <3> QED
      BY <3>1, <3>2
  <2> QED
    BY <1>2, <2>1, <2>2, <2>3
       DEF CallTimeout, Typed, TypeOK, CallerInPlace, ThreadInPlace,
           FreshGoals, clientVars, goalVars, Idle
<1>3. CASE RegisterCallbacks
  <2>1. /\ caller.goal \in Goals
        /\ pending[caller.goal] \in Results \cup {Nothing}
    BY <1>3 DEF RegisterCallbacks, Typed, TypeOK, CallerInPlace
  <2>2. caller' \in CallerStates /\ CallerInPlace'
    BY <1>3, <2>1
      DEF RegisterCallbacks, Typed, TypeOK, CallerInPlace, CallerStates,
          CallerPcs, Idle
  <2>3. /\ callbacks' \subseteq Goals
        /\ pending' \in [Goals -> Results \cup {Nothing}]
    BY <1>3, <2>1 DEF RegisterCallbacks, Typed, TypeOK
  <2> QED
    BY <1>3, <2>1, <2>2, <2>3
       DEF RegisterCallbacks, Typed, TypeOK, CallerInPlace, ThreadInPlace,
           FreshGoals, clientVars, goalVars, Idle
<1>4. CASE DeliverPending
  <2>1. caller' \in CallerStates /\ CallerInPlace'
    BY <1>4
      DEF DeliverPending, Typed, TypeOK, CallerInPlace, CallerStates, CallerPcs,
          Idle
  <2>2. storage' \in [Goals -> Results \cup {Nothing, EmptySlot}]
    BY <1>4 DEF DeliverPending, Typed, TypeOK, CallerInPlace
  <2> QED
    BY <1>4, <2>1, <2>2
       DEF DeliverPending, Typed, TypeOK, CallerInPlace, ThreadInPlace,
           FreshGoals, clientVars, goalVars, Idle
<1>5. CASE InitGoal
  <2>1. storage' \in [Goals -> Results \cup {Nothing, EmptySlot}]
    BY <1>5 DEF InitGoal, InitSlot, Typed, TypeOK, CallerInPlace
  <2>2. /\ caller' \in CallerStates
        /\ CallerInPlace'
        /\ replied' \in [Commands -> Results \cup {Nothing, Failure, Posted}]
    <3>1. CASE kind[caller.cmd] = "estop"
      BY <1>5, <3>1, Returned DEF InitGoal, Idle
    <3>2. CASE kind[caller.cmd] # "estop"
      <4>1. caller' = [caller EXCEPT !.pc = "wait"] /\ replied' = replied
        BY <1>5, <3>2 DEF InitGoal
      <4>2. kind' = kind /\ caller.pc = "init"
        BY <1>5 DEF InitGoal
      <4> QED
        BY <4>1, <4>2
           DEF Typed, TypeOK, CallerInPlace, CallerStates, CallerPcs, Idle
    <3> QED
      BY <3>1, <3>2
  <2> QED
    BY <1>5, <2>1, <2>2
       DEF InitGoal, Typed, TypeOK, CallerInPlace, ThreadInPlace,
           FreshGoals, clientVars, goalVars, Idle
<1>6. CASE CmdDone
  <2>1. storage[caller.goal] \in Results
    BY <1>6 DEF CmdDone, IsCmdDone, Typed, TypeOK, CallerInPlace
  <2>2. /\ caller' \in CallerStates
        /\ CallerInPlace'
        /\ replied' \in [Commands -> Results \cup {Nothing, Failure, Posted}]
    BY <1>6, <2>1, Returned DEF CmdDone, Idle
  <2> QED
    BY <1>6, <2>1, <2>2
       DEF CmdDone, Typed, TypeOK, CallerInPlace, ThreadInPlace,
           FreshGoals, clientVars, goalVars, Idle
<1>7. CASE CmdTimeout
  <2>1. /\ caller' \in CallerStates
        /\ CallerInPlace'
        /\ replied' \in [Commands -> Results \cup {Nothing, Failure, Posted}]
    BY <1>7, Returned DEF CmdTimeout, Idle
  <2>2. used' \in [timeouts : Nat, losses : Nat]
    BY <1>7 DEF CmdTimeout, TimesOut, Typed, TypeOK
  <2> QED
    BY <1>7, <2>1, <2>2
       DEF CmdTimeout, Typed, TypeOK, CallerInPlace, ThreadInPlace,
           FreshGoals, clientVars, goalVars, Idle
<1>8. CASE HandleResult
  <2>1. Head(topic) \in Messages /\ topic' \in Seq(Messages)
    BY <1>8 DEF HandleResult, Typed, TypeOK
  <2>2. callbacks' \subseteq Goals /\ subscriber' \in Messages \cup {NoMessage}
    BY <1>8, <2>1 DEF HandleResult, Typed, TypeOK
  <2>3. pending' \in [Goals -> Results \cup {Nothing}]
    BY <1>8, <2>1, MessageTypes DEF HandleResult, KeepPending, Typed, TypeOK
  <2> QED
    BY <1>8, <2>1, <2>2, <2>3
       DEF HandleResult, Typed, TypeOK, CallerInPlace, ThreadInPlace,
           FreshGoals, clientVars, goalVars, Idle
<1>9. CASE RunResultCallback
  <2>1. subscriber.goal \in Goals /\ subscriber.result \in Results
    BY <1>9, MessageTypes DEF RunResultCallback, Typed, TypeOK
  <2>2. storage' \in [Goals -> Results \cup {Nothing, EmptySlot}]
    BY <1>9, <2>1 DEF RunResultCallback, Typed, TypeOK
  <2> QED
    BY <1>9, <2>1, <2>2
       DEF RunResultCallback, Typed, TypeOK, CallerInPlace, ThreadInPlace,
           FreshGoals, clientVars, goalVars, Idle
<1>10. CASE LoseResult
  <2>1. topic' \in Seq(Messages) /\ published' \subseteq Goals
    BY <1>10 DEF LoseResult, Typed, TypeOK
  <2>2. used' \in [timeouts : Nat, losses : Nat]
    <3>1. used' = [used EXCEPT !.losses = @ + 1]
      BY <1>10 DEF LoseResult
    <3>2. used \in [timeouts : Nat, losses : Nat]
      BY DEF Typed, TypeOK
    <3> QED
      BY <3>1, <3>2
  <2> QED
    BY <1>10, <2>1, <2>2
       DEF LoseResult, Typed, TypeOK, CallerInPlace, ThreadInPlace,
           FreshGoals, clientVars, goalVars, Idle
<1>11. CASE HandleGoal
  <2>1. Head(inbox) \in Commands /\ inbox' \in Seq(Commands)
    BY <1>11 DEF HandleGoal, Typed, TypeOK
  <2>2. goalCmd' \in [Goals -> {0} \cup Commands]
    BY <1>11, <2>1 DEF HandleGoal, Typed, TypeOK
  <2>3. [thread[nextGoal] EXCEPT !.pc = "created"] \in ThreadStates
    <3>1. thread[nextGoal] \in ThreadStates
      BY <1>11 DEF HandleGoal, Typed, TypeOK
    <3> QED
      BY <3>1 DEF ThreadStates, ThreadPcs
  <2>4. thread' \in [Goals -> ThreadStates]
    BY <1>11, <2>3 DEF HandleGoal, Typed, TypeOK
  <2>5. /\ thread'[nextGoal].how = thread[nextGoal].how
        /\ thread'[nextGoal].pc = "created"
    BY <1>11 DEF HandleGoal, Typed, TypeOK, ThreadStates
  <2>6. \A g \in Goals \ {nextGoal} : thread'[g] = thread[g]
          /\ goalCmd'[g] = goalCmd[g]
    BY <1>11 DEF HandleGoal, Typed, TypeOK
  <2>7. goalCmd'[nextGoal] \in Commands
    BY <1>11, <2>1 DEF HandleGoal, Typed, TypeOK
  <2>8. thread[nextGoal].how = "none"
    BY <1>11 DEF HandleGoal, Typed, TypeOK, FreshGoals, ThreadInPlace, Before,
             Goals, Commands
  <2>9. ThreadInPlace'
    BY <2>5, <2>6, <2>7, <2>8 DEF ThreadInPlace, Typed, Before, After
  <2>10. entry' \in [Goals -> {"absent", "empty", "thread"}]
    BY <1>11 DEF HandleGoal, Typed, TypeOK
  <2>11. FreshGoals'
    BY <1>11, <2>4, <2>6
       DEF HandleGoal, Typed, TypeOK, FreshGoals, Goals, Commands
  <2>12. main' \in MainStates
    BY <1>11, MapsUsed DEF HandleGoal
  <2> QED
    BY <1>11, <2>1, <2>2, <2>3, <2>4, <2>5, <2>6, <2>7, <2>8, <2>9, <2>10,
       <2>11, <2>12
       DEF HandleGoal, Typed, TypeOK, CallerInPlace, ThreadInPlace,
           FreshGoals, clientVars, goalVars, Idle
<1>12. CASE StoreThread
  <2>1. service \in Goals
    BY <1>12 DEF StoreThread, Typed, TypeOK
  <2>2. caller' \in CallerStates /\ CallerInPlace'
    BY <1>12, <2>1
      DEF StoreThread, Typed, TypeOK, CallerInPlace, CallerStates, CallerPcs,
          Idle
  <2>3. entry' \in [Goals -> {"absent", "empty", "thread"}]
    BY <1>12, <2>1 DEF StoreThread, Typed, TypeOK
  <2>4. main' \in MainStates /\ accepted' \subseteq Goals
    BY <1>12, <2>1, MapsUsed DEF StoreThread, Typed, TypeOK
  <2> QED
    BY <1>12, <2>1, <2>2, <2>3, <2>4
       DEF StoreThread, Typed, TypeOK, CallerInPlace, ThreadInPlace,
           FreshGoals, clientVars, goalVars, Idle
<1>13. ASSUME NEW g \in Goals, GoalThread(g) PROVE Typed'
  <2>1. \A pc \in ThreadPcs :
         /\ thread[g].pc # "none" /\ goalCmd' = goalCmd /\ nextGoal' = nextGoal
         /\ pc \in Before => thread[g].pc \in Before
         /\ pc \in After => thread[g].pc \in After
         /\ MoveTo(g, pc)
         => ThreadsTyped'
    <3> SUFFICES ASSUME NEW pc \in ThreadPcs,
                        thread[g].pc # "none", goalCmd' = goalCmd,
                        nextGoal' = nextGoal,
                        pc \in Before => thread[g].pc \in Before,
                        pc \in After => thread[g].pc \in After,
                        MoveTo(g, pc)
                 PROVE  ThreadsTyped'
      OBVIOUS
    <3>1. PICK t \in ThreadStates :
            /\ t.pc = pc /\ t.how = thread[g].how
            /\ thread' = [thread EXCEPT ![g] = t]
      BY Moved, <1>13 DEF Typed, TypeOK
    <3> QED
      BY <3>1, <1>13, ThreadStep DEF Typed, ThreadInPlace
  <2>2. \A how \in Outcomes :
         /\ thread[g].pc # "none" /\ goalCmd' = goalCmd /\ nextGoal' = nextGoal
         /\ FinishAs(g, how)
         => ThreadsTyped'
    <3> SUFFICES ASSUME NEW how \in Outcomes,
                        thread[g].pc # "none", goalCmd' = goalCmd,
                        nextGoal' = nextGoal, FinishAs(g, how)
                 PROVE  ThreadsTyped'
      OBVIOUS
    <3>1. PICK t \in ThreadStates :
            /\ t.pc = "finished" /\ t.how = how
            /\ thread' = [thread EXCEPT ![g] = t]
      BY Finished, <1>13 DEF Typed, TypeOK
    <3> QED
      BY <3>1, <1>13, ThreadStep DEF Before, After
  <2>3. CASE LookUpGoal(g)
    <3>1. PICK pc \in {"entered", "done"} : MoveTo(g, pc)
      BY <2>3 DEF LookUpGoal
    <3>2. ThreadsTyped'
      BY <2>1, <2>3, <3>1
         DEF LookUpGoal, At, goalVars, ThreadPcs, Before, After
    <3>3. main' \in MainStates
      BY <2>3, MapsUsed DEF LookUpGoal
    <3> QED
      BY <2>3, <3>2, <3>3
         DEF LookUpGoal, At, Typed, TypeOK, ThreadsTyped, CallerInPlace,
             clientVars, goalVars, Idle
  <2>4. CASE EnterCommand(g)
    <3>1. ThreadsTyped'
      BY <2>1, <2>2, <2>4
         DEF EnterCommand, At, goalVars, ThreadPcs, Before, After, Outcomes
    <3>2. estopFlag' \in BOOLEAN
      BY <2>4, Zenon DEF EnterCommand
    <3>3. main' \in MainStates
      BY <2>4, MapsUsed DEF EnterCommand
    <3> QED
      BY <2>4, <3>1, <3>2, <3>3
         DEF EnterCommand, At, Typed, TypeOK, ThreadsTyped, CallerInPlace,
             clientVars, goalVars, Idle
  <2>5. CASE StartCommand(g)
    <3>1. ThreadsTyped'
      BY <2>1, <2>5 DEF StartCommand, At, goalVars, ThreadPcs, Before, After
    <3>2. elapsed' \in 0..SleepSeconds
      BY <2>5, ActionAssumption DEF StartCommand
    <3> QED
      BY <2>5, <3>1, <3>2
         DEF StartCommand, At, Typed, TypeOK, ThreadsTyped, CallerInPlace,
             clientVars, goalVars, Idle
  <2>6. CASE RunShort(g)
    <3>1. ThreadsTyped'
      BY <2>2, <2>6 DEF RunShort, At, goalVars, Outcomes
    <3> QED
      BY <2>6, <3>1
         DEF RunShort, At, Typed, TypeOK, ThreadsTyped, CallerInPlace,
             clientVars, goalVars, Idle
  <2>7. CASE RunEstop(g)
    <3>1. ThreadsTyped'
      BY <2>2, <2>7 DEF RunEstop, At, goalVars, Outcomes
    <3>2. estopFlag' \in BOOLEAN
      BY <2>7, Zenon DEF RunEstop
    <3> QED
      BY <2>7, <3>1, <3>2
         DEF RunEstop, At, Typed, TypeOK, ThreadsTyped, CallerInPlace,
             clientVars, goalVars, Idle
  <2>8. CASE SleepOn(g)
    <3>1. ThreadsTyped'
      <4>1. CASE SleepOver
        BY <4>1, <2>2, <2>8 DEF SleepOn, At, goalVars, Outcomes
      <4>2. CASE ~SleepOver /\ estopFlag
        BY <4>2, <2>2, <2>8 DEF SleepOn, At, goalVars, Outcomes
      <4>3. CASE ~SleepOver /\ ~estopFlag
        <5>1. thread' = thread /\ goalCmd' = goalCmd /\ nextGoal' = nextGoal
          BY <4>3, <2>8 DEF SleepOn, goalVars
        <5> QED
          BY <5>1 DEF Typed, TypeOK, ThreadsTyped, ThreadInPlace, FreshGoals
      <4> QED
        BY <4>1, <4>2, <4>3
    <3>2. elapsed' \in 0..SleepSeconds
      BY <2>8, ActionAssumption DEF SleepOn, SleepOver, Typed, TypeOK
    <3> QED
      BY <2>8, <3>1, <3>2
         DEF SleepOn, At, Typed, TypeOK, ThreadsTyped, CallerInPlace,
             clientVars, goalVars, Idle
  <2>9. CASE SendResult(g)
    <3>1. ThreadsTyped'
      BY <2>1, <2>9 DEF SendResult, At, goalVars, ThreadPcs, Before, After
    <3> QED
      BY <2>9, <3>1
         DEF SendResult, At, Typed, TypeOK, ThreadsTyped, CallerInPlace,
             clientVars, goalVars, Idle
  <2>10. CASE PublishResult(g)
    <3>1. ThreadsTyped'
      BY <2>1, <2>10 DEF PublishResult, At, goalVars, ThreadPcs, Before, After
    <3>2. ResultMessage(g) \in Messages
      BY <2>10, <1>13, ResultTypes, MessageTypes
         DEF PublishResult, At, ResultMessage, Typed, ThreadInPlace, After
    <3>3. topic' \in Seq(Messages) /\ published' \subseteq Goals
      <4>1. \/ topic' = topic /\ published' = published
            \/ /\ topic' = Append(topic, ResultMessage(g))
               /\ published' = published \cup {g}
        BY <2>10 DEF PublishResult
      <4>2. topic \in Seq(Messages) /\ published \subseteq Goals
        BY DEF Typed, TypeOK
      <4> QED
        BY <4>1, <4>2, <3>2, <1>13
    <3>4. main' \in MainStates
      BY <2>10 DEF PublishResult, Typed, TypeOK, MainStates, MainPcs
    <3> QED
      BY <2>10, <3>1, <3>2, <3>3, <3>4
         DEF PublishResult, At, Typed, TypeOK, ThreadsTyped, CallerInPlace,
             clientVars, goalVars, Idle
  <2>11. CASE CleanUpGoal(g)
    <3>1. ThreadsTyped'
      BY <2>1, <2>11
         DEF CleanUpGoal, At, goalVars, ThreadPcs, Before, After, ForgetGoal
    <3>2. /\ flags' \subseteq Goals
          /\ entry' \in [Goals -> {"absent", "empty", "thread"}]
      BY <2>11 DEF CleanUpGoal, ForgetGoal, Typed, TypeOK
    <3>3. main' \in MainStates
      BY <2>11, MapsUsed DEF CleanUpGoal, ForgetGoal
    <3> QED
      BY <2>11, <3>1, <3>2, <3>3
         DEF CleanUpGoal, At, Typed, TypeOK, ThreadsTyped, CallerInPlace,
             clientVars, goalVars, Idle, ForgetGoal
  <2> QED
    BY <1>13, <2>3, <2>4, <2>5, <2>6, <2>7, <2>8, <2>9, <2>10, <2>11
       DEF GoalThread
<1>14. CASE Terminate
  <2>1. main' \in MainStates
    BY <1>14, ActionAssumption
       DEF Terminate, Typed, TypeOK, MainStates, MainPcs
  <2> QED
    BY <1>14, <2>1
       DEF Terminate, Typed, TypeOK, CallerInPlace, ThreadInPlace,
           FreshGoals, clientVars, goalVars, Idle
<1>15. CASE CloseActionServer
  <2>1. main' \in MainStates
    BY <1>15
       DEF CloseActionServer, StoredThreads, MainStates, MainPcs, Typed, TypeOK
  <2>2. /\ entry' \in [Goals -> {"absent", "empty", "thread"}]
        /\ flags' \subseteq Goals
    BY <1>15 DEF CloseActionServer
  <2> QED
    BY <1>15, <2>1, <2>2
       DEF CloseActionServer, Typed, TypeOK, CallerInPlace, ThreadInPlace,
           FreshGoals, clientVars, goalVars, Idle
<1>16. CASE FinishClose
  <2>1. main' \in MainStates
    BY <1>16 DEF FinishClose, MainStates, MainPcs, Typed, TypeOK
  <2> QED
    BY <1>16, <2>1
       DEF FinishClose, Typed, TypeOK, CallerInPlace, ThreadInPlace,
           FreshGoals, clientVars, goalVars, Idle
<1>17. CASE Exit
  <2>1. main' \in MainStates
    BY <1>17 DEF Exit, Typed, TypeOK, MainStates, MainPcs
  <2> QED
    BY <1>17, <2>1
       DEF Exit, Typed, TypeOK, CallerInPlace, ThreadInPlace,
           FreshGoals, clientVars, goalVars, Idle
<1>18. CASE CloseClient
  <2>1. caller' \in CallerStates /\ CallerInPlace'
    BY <1>18
       DEF CloseClient, Typed, TypeOK, CallerInPlace, CallerStates, CallerPcs,
           Idle
  <2> QED
    BY <1>18, <2>1
       DEF CloseClient, Typed, TypeOK, CallerInPlace, ThreadInPlace,
           FreshGoals, clientVars, goalVars, Idle
<1>19. CASE DestroyMaps
  <2>1. main' \in MainStates
    BY <1>19 DEF DestroyMaps, Typed, TypeOK, MainStates, MainPcs
  <2> QED
    BY <1>19, <2>1
       DEF DestroyMaps, Typed, TypeOK, CallerInPlace, ThreadInPlace,
           FreshGoals, clientVars, goalVars, Idle
<1>20. CASE UNCHANGED vars
  BY <1>20 DEF vars, Typed, TypeOK, CallerInPlace, ThreadInPlace,
     FreshGoals, clientVars, goalVars, Idle
<1> QED
  BY <1>1, <1>2, <1>3, <1>4, <1>5, <1>6, <1>7, <1>8, <1>9, <1>10, <1>11, <1>12,
     <1>13, <1>14, <1>15, <1>16, <1>17, <1>18, <1>19, <1>20
     DEF Next, Caller, Service, Main

\* The client, the topic, the goals, the threads and the subnode's main thread
\* keep their types; every index into a goal stands for a goal.
THEOREM TypeCorrect == Spec => []TypeOK
<1>1. Spec => []Typed
  BY TypedInit, TypedStep, PTL DEF Spec
<1>2. Typed => TypeOK
  BY DEF Typed
<1> QED
  BY <1>1, <1>2, PTL

---------------------------------------------------------------------------
(* No result is lost between topic and caller *)

InTopic(g) == \E i \in DOMAIN topic : topic[i].goal = g

\* A published result is somewhere; before its goal is registered that may be
\* among the pending ones.
OnTheWay(g) ==
  \/ InTopic(g)
  \/ subscriber.goal = g
  \/ pending[g] # Nothing
  \/ caller.pc = "deliver" /\ caller.goal = g
  \/ IsCmdDone(g)

PublishedIsOnTheWay == \A g \in published : OnTheWay(g)

\* Once the callback is registered it stays until the result has been taken
\* out of the topic: only then may it be gone.
CallbackIsReady ==
  caller.pc \in {"deliver", "init", "wait"} =>
    \/ caller.goal \in callbacks
    \/ subscriber.goal = caller.goal
    \/ caller.pc = "deliver"
    \/ IsCmdDone(caller.goal)

ResultInv == PublishedIsOnTheWay /\ CallbackIsReady /\ AwaitedResultArrives

LEMMA ResultInit == Init => ResultInv
  BY DEF Init, ResultInv, PublishedIsOnTheWay, CallbackIsReady,
         AwaitedResultArrives

LEMMA TopicTail ==
  ASSUME topic \in Seq(Messages), topic # <<>>, topic' = Tail(topic),
         NEW g, InTopic(g), Head(topic).goal # g
  PROVE  InTopic(g)'
<1>1. PICK i \in 1..Len(topic) : topic[i].goal = g
  BY DEF InTopic
<1>2. i # 1
  BY <1>1
<1>3. i - 1 \in DOMAIN topic' /\ topic'[i - 1] = topic[i]
  BY <1>1, <1>2
<1> QED
  BY <1>1, <1>3 DEF InTopic

LEMMA TopicAppend ==
  ASSUME topic \in Seq(Messages), NEW m \in Messages,
         topic' = Append(topic, m)
  PROVE  InTopic(m.goal)' /\ \A g : InTopic(g) => InTopic(g)'
<1>1. Len(topic) + 1 \in DOMAIN topic' /\ topic'[Len(topic) + 1] = m
  OBVIOUS
<1>2. \A i \in DOMAIN topic : i \in DOMAIN topic' /\ topic'[i] = topic[i]
  OBVIOUS
<1> QED
  BY <1>1, <1>2 DEF InTopic

\* What the invariant speaks of is left alone by every step of the subnode but
\* the publication.
LEMMA ResultUntouched ==
  ASSUME ResultInv, UNCHANGED <<clientVars, topic, published>>
  PROVE  ResultInv'
  BY DEF ResultInv, PublishedIsOnTheWay, CallbackIsReady, OnTheWay, InTopic,
         AwaitedResultArrives, ResultIsUnderWay, IsCmdDone, clientVars

\* A caller that is not in the middle of a command is owed nothing.
LEMMA ResultCallerAway ==
  ASSUME ResultInv, caller.pc # "deliver",
         caller'.pc \in {"idle", "calling", "closed"},
         UNCHANGED <<storage, pending, subscriber, topic, published>>
  PROVE  ResultInv'
  BY DEF ResultInv, PublishedIsOnTheWay, CallbackIsReady, OnTheWay, InTopic,
         AwaitedResultArrives, IsCmdDone

LEMMA ResultStep == Typed /\ ResultInv /\ [Next]_vars => ResultInv'
<1> SUFFICES ASSUME Typed, ResultInv, [Next]_vars PROVE ResultInv'
  OBVIOUS
<1>1. CASE SendGoal
  <2>1. caller.pc # "deliver" /\ caller'.pc \in {"idle", "calling"}
    BY <1>1 DEF SendGoal, Typed, TypeOK, CallerStates
  <2> QED
    BY <1>1, <2>1, ResultCallerAway DEF SendGoal
<1>2. CASE CallTimeout
  <2>1. caller.pc # "deliver" /\ caller'.pc \in {"idle", "calling"}
    BY <1>2 DEF CallTimeout, Return, Typed, TypeOK, CallerStates
  <2> QED
    BY <1>2, <2>1, ResultCallerAway DEF CallTimeout
<1>3. CASE RegisterCallbacks
  <2> DEFINE g == caller.goal
  <2>1. g \in Goals /\ caller.pc = "register"
    BY <1>3 DEF RegisterCallbacks, Typed, CallerInPlace
  <2>2. /\ caller'.goal = g /\ caller'.taken = pending[g]
        /\ caller'.pc = IF pending[g] # Nothing THEN "deliver" ELSE "init"
        /\ callbacks' = callbacks \cup {g}
        /\ pending' = [pending EXCEPT ![g] = Nothing]
    BY <1>3 DEF RegisterCallbacks, Typed, TypeOK, CallerStates
  <2>3. UNCHANGED <<storage, subscriber, topic, published>>
    BY <1>3 DEF RegisterCallbacks
  <2>4. PublishedIsOnTheWay'
    <3> SUFFICES ASSUME NEW h \in published PROVE OnTheWay(h)'
      BY <2>3 DEF PublishedIsOnTheWay
    <3>1. OnTheWay(h)
      BY DEF ResultInv, PublishedIsOnTheWay
    <3>2. CASE h = g
      BY <3>1, <3>2, <2>1, <2>2, <2>3 DEF OnTheWay, InTopic, IsCmdDone
    <3>3. CASE h # g
      <4>1. pending'[h] = pending[h]
        BY <3>3, <2>2, published \subseteq Goals DEF Typed, TypeOK
      <4> QED
        BY <3>1, <4>1, <2>1, <2>3 DEF OnTheWay, InTopic, IsCmdDone
    <3> QED
      BY <3>2, <3>3
  <2>5. CallbackIsReady'
    BY <2>2 DEF CallbackIsReady
  <2>6. AwaitedResultArrives'
    BY <2>1, <2>2, <2>3
       DEF ResultInv, AwaitedResultArrives, ResultIsUnderWay, IsCmdDone
  <2> QED
    BY <2>4, <2>5, <2>6 DEF ResultInv
<1>4. CASE DeliverPending
  <2> DEFINE g == caller.goal
  <2>1. g \in Goals /\ caller.taken \in Results /\ caller.pc = "deliver"
    BY <1>4 DEF DeliverPending, Typed, CallerInPlace
  <2>2. caller'.goal = g /\ caller'.pc = "init"
    BY <1>4 DEF DeliverPending, Typed, TypeOK, CallerStates
  <2>3. /\ \A h \in Goals : IsCmdDone(h) => IsCmdDone(h)'
        /\ IsCmdDone(g)'
    BY <1>4, <2>1, ResultTypes DEF DeliverPending, IsCmdDone, Typed, TypeOK
  <2>4. UNCHANGED <<callbacks, pending, subscriber, topic, published>>
    BY <1>4 DEF DeliverPending
  <2>5. PublishedIsOnTheWay'
    BY <2>1, <2>2, <2>3, <2>4
       DEF ResultInv, PublishedIsOnTheWay, OnTheWay, InTopic, Typed, TypeOK
  <2>6. CallbackIsReady' /\ AwaitedResultArrives'
    BY <2>2, <2>3 DEF CallbackIsReady, AwaitedResultArrives, ResultIsUnderWay
  <2> QED
    BY <2>5, <2>6 DEF ResultInv
<1>5. CASE InitGoal
  <2> DEFINE g == caller.goal
  <2>1. g \in Goals /\ caller.pc = "init"
    BY <1>5 DEF InitGoal, Typed, CallerInPlace
  <2>2. \/ caller'.pc = "idle"
        \/ caller'.goal = g /\ caller'.pc = "wait"
    BY <1>5 DEF InitGoal, Return, Typed, TypeOK, CallerStates
  <2>3. \A h \in Goals : IsCmdDone(h) => IsCmdDone(h)'
    BY <1>5, <2>1 DEF InitGoal, InitSlot, IsCmdDone, Typed, TypeOK
  <2>4. UNCHANGED <<callbacks, pending, subscriber, topic, published>>
    BY <1>5 DEF InitGoal
  <2>5. PublishedIsOnTheWay'
    BY <2>1, <2>3, <2>4
       DEF ResultInv, PublishedIsOnTheWay, OnTheWay, InTopic, Typed, TypeOK
  <2>6. CallbackIsReady' /\ AwaitedResultArrives'
    BY <2>1, <2>2, <2>3, <2>4
       DEF ResultInv, CallbackIsReady, AwaitedResultArrives, ResultIsUnderWay
  <2> QED
    BY <2>5, <2>6 DEF ResultInv
<1>6. CASE CmdDone
  <2>1. caller.pc # "deliver" /\ caller'.pc \in {"idle", "calling"}
    BY <1>6 DEF CmdDone, Return, Typed, TypeOK, CallerStates
  <2> QED
    BY <1>6, <2>1, ResultCallerAway DEF CmdDone
<1>7. CASE CmdTimeout
  <2>1. caller.pc # "deliver" /\ caller'.pc \in {"idle", "calling"}
    BY <1>7 DEF CmdTimeout, Return, Typed, TypeOK, CallerStates
  <2> QED
    BY <1>7, <2>1, ResultCallerAway DEF CmdTimeout
<1>8. CASE HandleResult
  <2> DEFINE m == Head(topic)
  <2>1. /\ m \in Messages /\ m.goal \in Goals /\ m.result \in Results
        /\ subscriber.goal = 0
    BY <1>8, MessageTypes DEF HandleResult, Typed, TypeOK
  <2>2. \A h : InTopic(h) /\ h # m.goal => InTopic(h)'
    BY <1>8, TopicTail DEF HandleResult, Typed, TypeOK
  <2>3. UNCHANGED <<caller, storage, published>>
    BY <1>8 DEF HandleResult
  <2>4. CASE m.goal \in callbacks
    <3>1. /\ callbacks' = callbacks \ {m.goal} /\ subscriber' = m
          /\ pending' = pending
      BY <1>8, <2>4 DEF HandleResult
    <3> HIDE DEF m
    <3>2. PublishedIsOnTheWay'
      BY <3>1, <2>1, <2>2, <2>3, GoalRange
         DEF ResultInv, PublishedIsOnTheWay, OnTheWay, IsCmdDone, Typed, TypeOK
    <3>3. CallbackIsReady'
      BY <3>1, <2>1, <2>3, GoalRange
         DEF ResultInv, CallbackIsReady, IsCmdDone, Typed, CallerInPlace
    <3>4. AwaitedResultArrives'
      <4>1. caller.goal # m.goal /\ InTopic(caller.goal)
              => InTopic(caller.goal)'
        BY <2>2, <2>3 DEF InTopic
      <4> QED
        BY <4>1, <3>1, <2>1, <2>3, GoalRange
           DEF ResultInv, AwaitedResultArrives, ResultIsUnderWay, InTopic,
               IsCmdDone, Typed, CallerInPlace
    <3> QED
      BY <3>2, <3>3, <3>4 DEF ResultInv
  <2>5. CASE m.goal \notin callbacks
    <3>1. /\ callbacks' = callbacks /\ subscriber' = subscriber
          /\ pending' = [pending EXCEPT ![m.goal] = m.result]
      BY <1>8, <2>5 DEF HandleResult, KeepPending
    <3> HIDE DEF m
    <3>2. /\ pending'[m.goal] # Nothing
          /\ \A h \in Goals : pending[h] # Nothing => pending'[h] # Nothing
      BY <3>1, <2>1, ResultTypes DEF Typed, TypeOK
    <3>3. PublishedIsOnTheWay'
      BY <3>1, <3>2, <2>1, <2>2, <2>3
         DEF ResultInv, PublishedIsOnTheWay, OnTheWay, IsCmdDone, Typed, TypeOK
    <3>4. CallbackIsReady'
      BY <3>1, <2>3 DEF ResultInv, CallbackIsReady, IsCmdDone
    <3>5. AwaitedResultArrives'
      <4> SUFFICES ASSUME caller.pc \in {"register", "deliver", "init", "wait"},
                          caller.goal \in published
                   PROVE  ResultIsUnderWay(caller.goal)'
        BY <2>3 DEF AwaitedResultArrives
      <4>1. ResultIsUnderWay(caller.goal) /\ caller.goal \in Goals
        BY DEF ResultInv, AwaitedResultArrives, Typed, CallerInPlace
      <4>2. CASE caller.goal = m.goal /\ caller.pc = "register"
        BY <4>2, <3>2, <2>3 DEF ResultIsUnderWay
      <4>3. CASE caller.goal = m.goal /\ caller.pc # "register"
        BY <4>3, <2>5, <3>1, <2>1, <2>3, ResultTypes
           DEF ResultInv, CallbackIsReady, ResultIsUnderWay, IsCmdDone, Typed,
               CallerInPlace
      <4>4. CASE caller.goal # m.goal
        <5>1. InTopic(caller.goal) => InTopic(caller.goal)'
          BY <4>4, <2>2, <2>3 DEF InTopic
        <5> QED
          BY <4>1, <5>1, <3>1, <3>2, <2>3
             DEF ResultIsUnderWay, InTopic, IsCmdDone
      <4> QED
        BY <4>2, <4>3, <4>4
    <3> QED
      BY <3>3, <3>4, <3>5 DEF ResultInv
  <2> QED
    BY <2>4, <2>5
<1>9. CASE RunResultCallback
  <2>1. PICK g \in Goals : g = subscriber.goal
    BY <1>9, MessageTypes DEF RunResultCallback, Typed, TypeOK
  <2>2. subscriber.result \in Results
    BY <1>9, MessageTypes DEF RunResultCallback, Typed, TypeOK
  <2>3. /\ \A h \in Goals : IsCmdDone(h) => IsCmdDone(h)'
        /\ IsCmdDone(g)'
    BY <1>9, <2>1, <2>2, ResultTypes
       DEF RunResultCallback, IsCmdDone, Typed, TypeOK
  <2>4. UNCHANGED <<caller, callbacks, pending, topic, published>>
    BY <1>9 DEF RunResultCallback
  <2>5. PublishedIsOnTheWay'
    BY <2>1, <2>3, <2>4
       DEF ResultInv, PublishedIsOnTheWay, OnTheWay, InTopic, Typed, TypeOK
  <2>6. CallbackIsReady'
    BY <2>1, <2>3, <2>4 DEF ResultInv, CallbackIsReady, Typed, CallerInPlace
  <2>7. AwaitedResultArrives'
    BY <2>1, <2>3, <2>4
       DEF ResultInv, AwaitedResultArrives, ResultIsUnderWay, Typed,
           CallerInPlace
  <2> QED
    BY <2>5, <2>6, <2>7 DEF ResultInv
<1>10. CASE LoseResult
  <2>1. \A h : InTopic(h) /\ h # Head(topic).goal => InTopic(h)'
    BY <1>10, TopicTail DEF LoseResult, Typed, TypeOK
  <2>2. UNCHANGED clientVars /\ published' = published \ {Head(topic).goal}
    BY <1>10 DEF LoseResult
  <2>3. PublishedIsOnTheWay'
    BY <2>1, <2>2
       DEF ResultInv, PublishedIsOnTheWay, OnTheWay, IsCmdDone, clientVars
  <2>4. CallbackIsReady'
    BY <2>2 DEF ResultInv, CallbackIsReady, IsCmdDone, clientVars
  <2>5. AwaitedResultArrives'
    <3>1. caller.goal \in published' /\ InTopic(caller.goal)
            => InTopic(caller.goal)'
      BY <2>1, <2>2 DEF clientVars, InTopic
    <3> QED
      BY <3>1, <2>2
         DEF ResultInv, AwaitedResultArrives, ResultIsUnderWay, InTopic,
             IsCmdDone, clientVars
  <2> QED
    BY <2>3, <2>4, <2>5 DEF ResultInv
<1>11. CASE HandleGoal
  BY <1>11, ResultUntouched DEF HandleGoal
<1>12. CASE StoreThread
  <2>1. UNCHANGED <<storage, callbacks, pending, subscriber, topic, published>>
    BY <1>12 DEF StoreThread
  <2>2. \/ caller' = caller
        \/ /\ caller.pc = "calling" /\ caller'.pc = "register"
           /\ caller'.goal = service
    BY <1>12 DEF StoreThread, Typed, TypeOK, CallerStates
  <2>3. PublishedIsOnTheWay'
    BY <2>1, <2>2
       DEF ResultInv, PublishedIsOnTheWay, OnTheWay, InTopic, IsCmdDone
  <2>4. CallbackIsReady'
    BY <2>1, <2>2 DEF ResultInv, CallbackIsReady, IsCmdDone
  <2>5. AwaitedResultArrives'
    BY <2>1, <2>2
       DEF ResultInv, AwaitedResultArrives, ResultIsUnderWay,
           PublishedIsOnTheWay, OnTheWay, InTopic, IsCmdDone
  <2> QED
    BY <2>3, <2>4, <2>5 DEF ResultInv
<1>13. ASSUME NEW g \in Goals, GoalThread(g) PROVE ResultInv'
  <2>1. CASE PublishResult(g)
    <3>1. UNCHANGED clientVars
      BY <2>1 DEF PublishResult
    <3>2. CASE UNCHANGED <<topic, published>>
      BY <3>1, <3>2, ResultUntouched
    <3>3. CASE /\ topic' = Append(topic, ResultMessage(g))
               /\ published' = published \cup {g}
      <4>1. ResultMessage(g) \in Messages /\ ResultMessage(g).goal = g
        BY <1>13, <2>1, ResultTypes, MessageTypes
           DEF PublishResult, At, ResultMessage, Typed, ThreadInPlace, Before,
               After
      <4>2. InTopic(g)' /\ \A h : InTopic(h) => InTopic(h)'
        BY <4>1, <3>3, TopicAppend DEF Typed, TypeOK
      <4>3. PublishedIsOnTheWay'
        BY <4>2, <3>1, <3>3
           DEF ResultInv, PublishedIsOnTheWay, OnTheWay, IsCmdDone, clientVars
      <4>4. CallbackIsReady'
        BY <3>1 DEF ResultInv, CallbackIsReady, IsCmdDone, clientVars
      <4>5. AwaitedResultArrives'
        <5>1. InTopic(caller.goal) \/ caller.goal = g => InTopic(caller.goal)'
          BY <4>2, <3>1 DEF clientVars, InTopic
        <5> QED
          BY <5>1, <3>1, <3>3
             DEF ResultInv, AwaitedResultArrives, ResultIsUnderWay, InTopic,
                 IsCmdDone, clientVars
      <4> QED
        BY <4>3, <4>4, <4>5 DEF ResultInv
    <3> QED
      BY <2>1, <3>2, <3>3 DEF PublishResult
  <2>2. CASE ~PublishResult(g)
    <3>1. UNCHANGED <<clientVars, topic, published>>
      BY <1>13, <2>2
         DEF GoalThread, LookUpGoal, EnterCommand, StartCommand, RunShort,
             RunEstop, SleepOn, SendResult, CleanUpGoal, ForgetGoal
    <3> QED
      BY <3>1, ResultUntouched
  <2> QED
    BY <2>1, <2>2
<1>14. CASE Terminate \/ Main
  BY <1>14, ResultUntouched
     DEF Terminate, Main, CloseActionServer, DestroyMaps, FinishClose, Exit
<1>15. CASE UNCHANGED vars
  BY <1>15, ResultUntouched DEF vars
<1>16. CASE CloseClient
  <2>1. caller.pc # "deliver" /\ caller'.pc \in {"idle", "calling", "closed"}
    BY <1>16 DEF CloseClient, Typed, TypeOK, CallerStates
  <2> QED
    BY <1>16, <2>1, ResultCallerAway DEF CloseClient
<1> QED
  BY <1>1, <1>2, <1>3, <1>4, <1>5, <1>6, <1>7, <1>8, <1>9, <1>10, <1>11, <1>12,
     <1>13, <1>14, <1>15, <1>16 DEF Next, Caller, Service

\* A result that was published for a caller that is still there is on its way
\* to it, whatever the order of publication, registration and slot.
THEOREM ResultArrives == Spec => []AwaitedResultArrives
<1>1. Init => Typed /\ ResultInv
  BY TypedInit, ResultInit
<1>2. Typed /\ ResultInv /\ [Next]_vars => (Typed /\ ResultInv)'
  BY TypedStep, ResultStep
<1>3. Typed /\ ResultInv => AwaitedResultArrives
  BY DEF ResultInv
<1> QED
  BY <1>1, <1>2, <1>3, PTL DEF Spec

---------------------------------------------------------------------------
(* Commands are those of RemoteCommand: the inductive invariant *)

\* Commands are numbered as they are sent.
SentInOrder ==
  \A c \in Commands : kind[c] # "none" <=> c <= caller.cmd

\* A command is in the inbox once or belongs to one goal: the goals carry
\* increasing commands and the inbox holds later ones, in order.
OneGoalEach ==
  /\ \A i \in DOMAIN inbox : inbox[i] <= caller.cmd
  /\ \A i, j \in DOMAIN inbox : i < j => inbox[i] < inbox[j]
  /\ \A i \in DOMAIN inbox, g \in Goals : goalCmd[g] < inbox[i]
  /\ \A g \in Goals : goalCmd[g] <= caller.cmd
  /\ \A g, h \in Goals :
       g < h /\ goalCmd[h] # 0 => goalCmd[g] < goalCmd[h]

OneRuns ==
  \A g, h \in Goals :
    thread[g].pc = "running" /\ thread[h].pc = "running" => g = h

CallerHasItsGoal ==
  caller.pc \in {"register", "deliver", "init", "wait"}
    => goalCmd[caller.goal] = caller.cmd

\* A result is true of a goal when it tells what its thread has done.
True(g, r) == r = Result(goalCmd[g], thread[g].how)

ResultsAreTrue ==
  /\ \A i \in DOMAIN topic : True(topic[i].goal, topic[i].result)
  /\ subscriber # NoMessage => True(subscriber.goal, subscriber.result)
  /\ \A g \in Goals : pending[g] # Nothing => True(g, pending[g])
  /\ \A g \in Goals : IsCmdDone(g) => True(g, storage[g])
  /\ caller.pc = "deliver" => True(caller.goal, caller.taken)

\* Exactly the commands before the present one have been replied to, with a
\* true result if with any.
Past(c) == c < caller.cmd \/ (c = caller.cmd /\ Idle)

RepliesAreTrue ==
  \A c \in Commands :
    /\ Past(c) <=> replied[c] # Nothing
    /\ replied[c] \in Results =>
         \E g \in Goals : goalCmd[g] = c /\ True(g, replied[c])

CommandInv ==
  /\ SentInOrder /\ OneGoalEach /\ OneRuns /\ CallerHasItsGoal
  /\ ResultsAreTrue /\ RepliesAreTrue

LEMMA CommandInit == Init => CommandInv
<1> SUFFICES ASSUME Init PROVE CommandInv
  OBVIOUS
<1>1. SentInOrder
  BY GoalRange DEF Init, SentInOrder, Commands
<1>2. OneGoalEach
  BY GoalRange DEF Init, OneGoalEach
<1>3. OneRuns /\ CallerHasItsGoal
  BY DEF Init, OneRuns, CallerHasItsGoal
<1>4. ResultsAreTrue
  BY DEF Init, ResultsAreTrue, IsCmdDone
<1>5. RepliesAreTrue
  BY ResultTypes DEF Init, RepliesAreTrue, Past, Idle, Commands
<1> QED
  BY <1>1, <1>2, <1>3, <1>4, <1>5 DEF CommandInv

\* Once true a result stays true: a goal keeps its command, and a thread that
\* has an outcome keeps it.
GoalsKept ==
  \A g \in Goals :
    /\ goalCmd[g] # 0 => goalCmd'[g] = goalCmd[g]
    /\ thread[g].how # "none" => thread'[g].how = thread[g].how

LEMMA TrueKept ==
  ASSUME Typed, GoalsKept, NEW g \in Goals, NEW r \in Results, True(g, r)
  PROVE  r = Result(goalCmd'[g], thread'[g].how)
<1>1. r.cmd = goalCmd[g] /\ r.how = thread[g].how
  BY DEF True, Result
<1>2. goalCmd[g] \in Commands /\ thread[g].how \in Outcomes
  BY <1>1 DEF Results
<1>3. goalCmd[g] # 0 /\ thread[g].how # "none"
  BY <1>2, GoalRange DEF Outcomes
<1> QED
  BY <1>3 DEF GoalsKept, True

\* The parts of the invariant that speak of results, for a step that leaves
\* the results and the caller alone.
LEMMA ResultsKept ==
  ASSUME Typed, CommandInv, GoalsKept, UNCHANGED <<clientVars, topic>>
  PROVE  ResultsAreTrue' /\ RepliesAreTrue'
<1>1. \A i \in DOMAIN topic :
        topic[i].goal \in Goals /\ topic[i].result \in Results
  BY MessageTypes DEF Typed, TypeOK
<1>2. subscriber # NoMessage =>
        subscriber.goal \in Goals /\ subscriber.result \in Results
  BY MessageTypes DEF Typed, TypeOK
<1>3. \A g \in Goals : /\ pending[g] # Nothing => pending[g] \in Results
                       /\ IsCmdDone(g) => storage[g] \in Results
  BY DEF Typed, TypeOK, IsCmdDone
<1>4. caller.pc = "deliver" => caller.goal \in Goals /\ caller.taken \in Results
  BY DEF Typed, CallerInPlace
<1>5. ResultsAreTrue'
  BY <1>1, <1>2, <1>3, <1>4, TrueKept
     DEF CommandInv, ResultsAreTrue, True, IsCmdDone, clientVars
<1>6. RepliesAreTrue'
  <2>1. caller' = caller /\ replied' = replied
    BY DEF clientVars
  <2> SUFFICES ASSUME NEW c \in Commands
               PROVE  /\ Past(c) <=> replied[c] # Nothing
                      /\ replied[c] \in Results =>
                           \E g \in Goals : /\ goalCmd'[g] = c
                                            /\ True(g, replied[c])'
    BY <2>1 DEF RepliesAreTrue, Past, Idle, True
  <2>2. Past(c) <=> replied[c] # Nothing
    BY DEF CommandInv, RepliesAreTrue
  <2>3. ASSUME replied[c] \in Results
        PROVE  \E g \in Goals : goalCmd'[g] = c /\ True(g, replied[c])'
    <3>1. PICK g \in Goals : goalCmd[g] = c /\ True(g, replied[c])
      BY <2>3 DEF CommandInv, RepliesAreTrue
    <3>2. goalCmd'[g] = c
      BY <3>1, GoalRange DEF GoalsKept
    <3>3. True(g, replied[c])'
      BY <3>1, <2>1, <2>3, TrueKept DEF True
    <3> QED
      BY <3>2, <3>3
  <2> QED
    BY <2>2, <2>3
<1> QED
  BY <1>5, <1>6

\* The goals and the threads are left alone by the agent, which may take its
\* last request back.
InboxShrinks ==
  /\ DOMAIN inbox' \subseteq DOMAIN inbox
  /\ \A i \in DOMAIN inbox' : inbox'[i] = inbox[i]

LEMMA AgentStep ==
  ASSUME Typed, CommandInv, UNCHANGED <<goalCmd, thread, kind>>, InboxShrinks,
         caller'.cmd = caller.cmd, CallerHasItsGoal',
         ResultsAreTrue', RepliesAreTrue'
  PROVE  CommandInv'
<1>1. SentInOrder' /\ OneRuns'
  BY DEF CommandInv, SentInOrder, OneRuns
<1>2. OneGoalEach'
  BY DEF CommandInv, OneGoalEach, InboxShrinks
<1> QED
  BY <1>1, <1>2 DEF CommandInv

\* A caller that returns leaves the results alone; what it returns is its
\* command's result.
LEMMA ReturnStep ==
  ASSUME Typed, CommandInv, ~Idle, caller.pc # "deliver",
         NEW r \in Results \cup {Failure, Posted}, Return(r),
         r \in Results =>
           \E g \in Goals : goalCmd[g] = caller.cmd /\ True(g, r),
         UNCHANGED <<goalCmd, thread>>
  PROVE  CallerHasItsGoal' /\ RepliesAreTrue' /\ caller'.cmd = caller.cmd
<1>1. /\ caller'.pc = "idle" /\ caller'.cmd = caller.cmd
      /\ caller.cmd \in Commands
  BY DEF Return, Typed, TypeOK, CallerStates, CallerInPlace
<1>2. /\ replied'[caller.cmd] = r
      /\ \A c \in Commands \ {caller.cmd} : replied'[c] = replied[c]
  BY <1>1 DEF Return, Typed, TypeOK
<1>3. r # Nothing
  BY ResultTypes
<1>4. ASSUME NEW c \in Commands
      PROVE  /\ Past(c)' <=> replied'[c] # Nothing
             /\ replied'[c] \in Results =>
                  \E g \in Goals : goalCmd[g] = c /\ True(g, replied'[c])
  <2>1. CASE c = caller.cmd
    BY <2>1, <1>1, <1>2, <1>3, ResultTypes DEF Past, Idle
  <2>2. CASE c # caller.cmd
    <3>1. Past(c)' <=> Past(c)
      BY <2>2, <1>1 DEF Past
    <3> QED
      BY <3>1, <2>2, <1>2 DEF CommandInv, RepliesAreTrue
  <2> QED
    BY <2>1, <2>2
<1>5. RepliesAreTrue'
  BY <1>4 DEF RepliesAreTrue, True
<1> QED
  BY <1>1, <1>5 DEF CallerHasItsGoal

\* A step of the caller in the middle of a command.
LEMMA CallerStep ==
  ASSUME CommandInv, caller'.cmd = caller.cmd, Idle' <=> Idle,
         UNCHANGED <<goalCmd, thread, replied>>
  PROVE  RepliesAreTrue'
<1>1. \A c \in Commands : Past(c)' <=> Past(c)
  BY DEF Past
<1> QED
  BY <1>1 DEF CommandInv, RepliesAreTrue, True

\* What a step of a goal thread does to the threads: only its own changes, an
\* outcome stays, and it runs a command only when no other thread does.
LEMMA GoalThreadMoves ==
  ASSUME Typed, NEW g \in Goals, GoalThread(g)
  PROVE  /\ \A h \in Goals \ {g} : thread'[h] = thread[h]
         /\ thread[g].how # "none" => thread'[g].how = thread[g].how
         /\ thread'[g].pc = "running" /\ thread[g].pc # "running"
              => CommandLockFree
<1>1. ASSUME NEW pc \in ThreadPcs, MoveTo(g, pc)
      PROVE  /\ \A h \in Goals \ {g} : thread'[h] = thread[h]
             /\ thread'[g].how = thread[g].how /\ thread'[g].pc = pc
  BY <1>1, Moved DEF Typed, TypeOK
<1>2. ASSUME NEW how \in Outcomes, FinishAs(g, how), thread[g].pc \in Before
      PROVE  /\ \A h \in Goals \ {g} : thread'[h] = thread[h]
             /\ thread[g].how = "none" /\ thread'[g].pc = "finished"
  BY <1>2, Finished DEF Typed, TypeOK, ThreadInPlace
<1>3. CASE LookUpGoal(g)
  <2>1. PICK pc \in {"entered", "done"} : MoveTo(g, pc)
    BY <1>3 DEF LookUpGoal
  <2> QED
    BY <1>1, <2>1 DEF ThreadPcs
<1>4. CASE EnterCommand(g)
  BY <1>1, <1>2, <1>4 DEF EnterCommand, At, ThreadPcs, Outcomes, Before
<1>5. CASE StartCommand(g)
  BY <1>1, <1>5 DEF StartCommand, At, ThreadPcs
<1>6. CASE RunShort(g) \/ RunEstop(g)
  BY <1>2, <1>6 DEF RunShort, RunEstop, At, Outcomes, Before
<1>7. CASE SleepOn(g)
  <2>1. CASE thread' = thread
    BY <2>1
  <2>2. CASE FinishAs(g, "completed") \/ FinishAs(g, "interrupted")
    BY <1>2, <1>7, <2>2 DEF SleepOn, At, Outcomes, Before
  <2> QED
    BY <1>7, <2>1, <2>2 DEF SleepOn
<1>8. CASE SendResult(g)
  BY <1>1, <1>8 DEF SendResult, At, ThreadPcs
<1>9. CASE PublishResult(g)
  BY <1>1, <1>9 DEF PublishResult, At, ThreadPcs
<1>10. CASE CleanUpGoal(g)
  BY <1>1, <1>10 DEF CleanUpGoal, ForgetGoal, At, ThreadPcs
<1> QED
  BY <1>3, <1>4, <1>5, <1>6, <1>7, <1>8, <1>9, <1>10 DEF GoalThread

\* A thread publishes what it has done.
LEMMA PublishKeeps ==
  ASSUME Typed, CommandInv, NEW g \in Goals, PublishResult(g), topic' # topic
  PROVE  ResultsAreTrue' /\ RepliesAreTrue'
<1>1. /\ UNCHANGED <<clientVars, goalCmd>>
      /\ topic' = Append(topic, ResultMessage(g))
  BY DEF PublishResult, goalVars
<1>2. \A h \in Goals : thread'[h].how = thread[h].how
  <2>1. MoveTo(g, "cleanup")
    BY DEF PublishResult
  <2>2. "cleanup" \in ThreadPcs
    BY DEF ThreadPcs
  <2> QED
    BY <2>1, <2>2, Moved DEF Typed, TypeOK
<1>3. /\ ResultMessage(g) \in Messages
      /\ ResultMessage(g).goal = g
      /\ True(g, ResultMessage(g).result)
  BY ResultTypes, MessageTypes
     DEF PublishResult, At, ResultMessage, Typed, ThreadInPlace, Before, After,
         True
<1>4. \A h \in Goals : \A r : True(h, r) => True(h, r)'
  BY <1>1, <1>2 DEF True
<1>5. (\A i \in DOMAIN topic : True(topic[i].goal, topic[i].result))'
  <2>1. topic \in Seq(Messages)
    BY DEF Typed, TypeOK
  <2>2. ASSUME NEW i \in DOMAIN topic'
        PROVE  \/ i \in DOMAIN topic /\ topic'[i] = topic[i]
               \/ topic'[i] = ResultMessage(g)
    BY <1>1, <1>3, <2>1
  <2>3. \A i \in DOMAIN topic : /\ topic[i].goal \in Goals
                                /\ True(topic[i].goal, topic[i].result)
    BY <2>1, MessageTypes DEF CommandInv, ResultsAreTrue
  <2>4. ASSUME NEW i \in DOMAIN topic'
        PROVE  topic'[i].result =
                 Result(goalCmd'[topic'[i].goal], thread'[topic'[i].goal].how)
    BY <1>1, <1>2, <1>3, <2>2, <2>3 DEF True
  <2> QED
    BY <2>4 DEF True
<1>6. ResultsAreTrue'
  <2>1. /\ subscriber # NoMessage => subscriber.goal \in Goals
        /\ caller.pc = "deliver" => caller.goal \in Goals
    BY MessageTypes DEF Typed, TypeOK, CallerInPlace
  <2> QED
    BY <1>1, <1>2, <1>5, <2>1
       DEF CommandInv, ResultsAreTrue, True, IsCmdDone, clientVars
<1>7. RepliesAreTrue'
  BY <1>1, <1>2 DEF CommandInv, RepliesAreTrue, True, Past, Idle, clientVars
<1> QED
  BY <1>6, <1>7

LEMMA InboxTyped == Typed => \A i \in DOMAIN inbox : inbox[i] \in Nat
<1>1. Typed => inbox \in Seq(Commands)
  BY DEF Typed, TypeOK
<1>2. Typed => \A i \in DOMAIN inbox : inbox[i] \in Commands
  BY <1>1
<1> QED
  BY <1>2 DEF Commands

LEMMA CommandStep == Typed /\ CommandInv /\ [Next]_vars => CommandInv'
<1> SUFFICES ASSUME Typed, CommandInv, [Next]_vars PROVE CommandInv'
  OBVIOUS
<1>1. CASE SendGoal
  <2> DEFINE c == caller.cmd + 1
  <2>1. /\ caller.pc = "idle" /\ caller.cmd \in Nat /\ c \in Commands
        /\ caller'.pc = "calling" /\ caller'.cmd = c
    BY <1>1, ActionAssumption DEF SendGoal, Typed, TypeOK, CallerStates, Commands
  <2>2. PICK k \in Kinds : kind' = [kind EXCEPT ![c] = k]
    BY <1>1 DEF SendGoal
  <2>3. SentInOrder'
    <3>1. k # "none"
      BY <2>2, ActionAssumption DEF AllKinds
    <3>2. kind'[c] = k /\ \A d \in Commands \ {c} : kind'[d] = kind[d]
      BY <2>1, <2>2 DEF Typed, TypeOK
    <3> QED
      BY <2>1, <3>1, <3>2 DEF CommandInv, SentInOrder, Commands
  <2>4. OneGoalEach'
    <3>1. /\ DOMAIN inbox' = 1 .. (Len(inbox) + 1) /\ inbox'[Len(inbox) + 1] = c
          /\ \A i \in DOMAIN inbox : inbox'[i] = inbox[i]
      BY <1>1 DEF SendGoal, Typed, TypeOK
    <3>2. DOMAIN inbox = 1..Len(inbox) /\ Len(inbox) \in Nat
      BY DEF Typed, TypeOK
    <3>3. /\ \A i \in DOMAIN inbox : inbox[i] \in Nat /\ inbox[i] < c
          /\ \A g \in Goals : goalCmd[g] \in Nat /\ goalCmd[g] < c
      BY <2>1, InboxTyped DEF CommandInv, OneGoalEach, Typed, TypeOK, Commands
    <3>4. goalCmd' = goalCmd
      BY <1>1 DEF SendGoal, goalVars
    <3> QED
      BY <2>1, <3>1, <3>2, <3>3, <3>4 DEF CommandInv, OneGoalEach
  <2>5. OneRuns'
    BY <1>1 DEF SendGoal, CommandInv, OneRuns
  <2>6. CallerHasItsGoal'
    BY <2>1 DEF CallerHasItsGoal
  <2>7. ResultsAreTrue'
    BY <1>1, <2>1
       DEF SendGoal, CommandInv, ResultsAreTrue, True, IsCmdDone, goalVars
  <2>8. RepliesAreTrue'
    <3>1. \A d \in Commands : Past(d)' <=> Past(d)
      BY <2>1 DEF Past, Idle, Commands
    <3> QED
      BY <1>1, <3>1 DEF SendGoal, CommandInv, RepliesAreTrue, True, goalVars
  <2> QED
    BY <2>3, <2>4, <2>5, <2>6, <2>7, <2>8 DEF CommandInv
<1>2. CASE CallTimeout
  <2>1. CallerHasItsGoal' /\ RepliesAreTrue' /\ caller'.cmd = caller.cmd
    BY <1>2, ReturnStep, ResultTypes DEF CallTimeout, goalVars, Idle
  <2>2. caller'.pc = "idle"
    BY <1>2 DEF CallTimeout, Return, Typed, TypeOK, CallerStates
  <2>3. ResultsAreTrue'
    BY <1>2, <2>2
       DEF CallTimeout, CommandInv, ResultsAreTrue, True, IsCmdDone, goalVars
  <2>4. InboxShrinks
    <3>1. inbox \in Seq(Commands)
      BY DEF Typed, TypeOK
    <3>2. \/ inbox' = inbox
          \/ inbox # <<>> /\ inbox' = SubSeq(inbox, 1, Len(inbox) - 1)
      BY <1>2 DEF CallTimeout
    <3> QED
      BY <3>1, <3>2 DEF InboxShrinks
  <2> QED
    BY <1>2, <2>1, <2>3, <2>4, AgentStep DEF CallTimeout, goalVars
<1>3. CASE RegisterCallbacks
  <2> DEFINE g == caller.goal
  <2>1. g \in Goals /\ caller.pc = "register" /\ goalCmd[g] = caller.cmd
    BY <1>3
       DEF RegisterCallbacks, Typed, CallerInPlace, CommandInv, CallerHasItsGoal
  <2>2. /\ caller'.goal = g /\ caller'.taken = pending[g]
        /\ caller'.cmd = caller.cmd
        /\ caller'.pc = IF pending[g] # Nothing THEN "deliver" ELSE "init"
        /\ pending' = [pending EXCEPT ![g] = Nothing]
    BY <1>3 DEF RegisterCallbacks, Typed, TypeOK, CallerStates
  <2>3. UNCHANGED <<goalCmd, thread, kind, inbox, replied>>
    BY <1>3 DEF RegisterCallbacks, goalVars
  <2>4. CallerHasItsGoal'
    BY <2>1, <2>2, <2>3 DEF CallerHasItsGoal
  <2>5. ResultsAreTrue'
    <3>1. \A h \in Goals : pending'[h] # Nothing => pending'[h] = pending[h]
      BY <2>1, <2>2 DEF Typed, TypeOK
    <3>2. UNCHANGED <<topic, subscriber, storage>>
      BY <1>3 DEF RegisterCallbacks
    <3> QED
      BY <2>1, <2>2, <2>3, <3>1, <3>2
         DEF CommandInv, ResultsAreTrue, True, IsCmdDone
  <2>6. RepliesAreTrue'
    BY <2>1, <2>2, <2>3, CallerStep DEF Idle
  <2> QED
    BY <2>2, <2>3, <2>4, <2>5, <2>6, AgentStep DEF InboxShrinks
<1>4. CASE DeliverPending
  <2> DEFINE g == caller.goal
  <2>1. g \in Goals /\ caller.pc = "deliver" /\ goalCmd[g] = caller.cmd
    BY <1>4
       DEF DeliverPending, Typed, CallerInPlace, CommandInv, CallerHasItsGoal
  <2>2. /\ caller'.goal = g /\ caller'.pc = "init"
        /\ caller'.cmd = caller.cmd
        /\ storage' = [storage EXCEPT ![g] = caller.taken]
    BY <1>4 DEF DeliverPending, Typed, TypeOK, CallerStates
  <2>3. UNCHANGED <<goalCmd, thread, kind, inbox, replied>>
    BY <1>4 DEF DeliverPending, goalVars
  <2>4. CallerHasItsGoal'
    BY <2>1, <2>2, <2>3 DEF CallerHasItsGoal
  <2>5. ResultsAreTrue'
    <3>1. \A h \in Goals \ {g} : storage'[h] = storage[h]
      BY <2>2 DEF Typed, TypeOK
    <3>2. storage'[g] = caller.taken
      BY <2>1, <2>2 DEF Typed, TypeOK
    <3>3. UNCHANGED <<topic, subscriber, pending>>
      BY <1>4 DEF DeliverPending
    <3> QED
      BY <2>1, <2>2, <2>3, <3>1, <3>2, <3>3
         DEF CommandInv, ResultsAreTrue, True, IsCmdDone
  <2>6. RepliesAreTrue'
    BY <2>1, <2>2, <2>3, CallerStep DEF Idle
  <2> QED
    BY <2>2, <2>3, <2>4, <2>5, <2>6, AgentStep DEF InboxShrinks
<1>5. CASE InitGoal
  <2> DEFINE g == caller.goal
  <2>1. g \in Goals /\ caller.pc = "init" /\ goalCmd[g] = caller.cmd
    BY <1>5 DEF InitGoal, Typed, CallerInPlace, CommandInv, CallerHasItsGoal
  <2>2. UNCHANGED <<goalCmd, thread, kind, inbox, topic, subscriber, pending>>
    BY <1>5 DEF InitGoal, goalVars
  <2>3. /\ CallerHasItsGoal' /\ RepliesAreTrue' /\ caller'.cmd = caller.cmd
        /\ caller'.pc # "deliver"
    <3>1. CASE Return(Posted)
      <4>1. caller'.pc = "idle"
        BY <3>1 DEF Return, Typed, TypeOK, CallerStates
      <4> QED
        BY <2>1, <2>2, <3>1, <4>1, ReturnStep, ResultTypes DEF Idle
    <3>2. CASE caller' = [caller EXCEPT !.pc = "wait"] /\ replied' = replied
      <4>1. caller'.pc = "wait" /\ caller'.goal = g /\ caller'.cmd = caller.cmd
        BY <3>2 DEF Typed, TypeOK, CallerStates
      <4>2. RepliesAreTrue'
        BY <2>1, <2>2, <3>2, <4>1, CallerStep DEF Idle
      <4> QED
        BY <2>1, <2>2, <4>1, <4>2 DEF CallerHasItsGoal
    <3> QED
      BY <1>5, <3>1, <3>2 DEF InitGoal
  <2>4. ResultsAreTrue'
    <3>1. \A h \in Goals : IsCmdDone(h)' => storage'[h] = storage[h]
      BY <1>5, <2>1 DEF InitGoal, InitSlot, IsCmdDone, Typed, TypeOK
    <3>2. \A h \in Goals : IsCmdDone(h)' => IsCmdDone(h)
      BY <3>1 DEF IsCmdDone
    <3> QED
      BY <2>2, <2>3, <3>1, <3>2 DEF CommandInv, ResultsAreTrue, True
  <2> QED
    BY <2>2, <2>3, <2>4, AgentStep DEF InboxShrinks
<1>6. CASE CmdDone
  <2>1. /\ caller.pc = "wait" /\ caller.goal \in Goals
        /\ IsCmdDone(caller.goal) /\ Return(storage[caller.goal])
    BY <1>6 DEF CmdDone, Typed, CallerInPlace
  <2>2. storage[caller.goal] \in Results
    BY <2>1 DEF IsCmdDone, Typed, TypeOK
  <2>3. /\ goalCmd[caller.goal] = caller.cmd
        /\ True(caller.goal, storage[caller.goal])
    BY <2>1 DEF CommandInv, CallerHasItsGoal, ResultsAreTrue
  <2>4. /\ CallerHasItsGoal'
        /\ RepliesAreTrue'
        /\ caller'.cmd = caller.cmd
    BY <1>6, <2>1, <2>2, <2>3, ReturnStep DEF CmdDone, goalVars, Idle
  <2>5. caller'.pc = "idle"
    BY <2>1 DEF Return, Typed, TypeOK, CallerStates
  <2>6. ResultsAreTrue'
    BY <1>6, <2>5
       DEF CmdDone, CommandInv, ResultsAreTrue, True, IsCmdDone, goalVars
  <2> QED
    BY <1>6, <2>4, <2>6, AgentStep DEF CmdDone, InboxShrinks, goalVars
<1>7. CASE CmdTimeout
  <2>1. CallerHasItsGoal' /\ RepliesAreTrue' /\ caller'.cmd = caller.cmd
    BY <1>7, ReturnStep, ResultTypes DEF CmdTimeout, goalVars, Idle
  <2>2. caller'.pc = "idle"
    BY <1>7 DEF CmdTimeout, Return, Typed, TypeOK, CallerStates
  <2>3. ResultsAreTrue'
    BY <1>7, <2>2
       DEF CmdTimeout, CommandInv, ResultsAreTrue, True, IsCmdDone, goalVars
  <2> QED
    BY <1>7, <2>1, <2>3, AgentStep DEF CmdTimeout, InboxShrinks, goalVars
<1>8. CASE HandleResult
  <2> DEFINE m == Head(topic)
  <2>1. /\ m \in Messages /\ m.goal \in Goals /\ m.result \in Results
        /\ True(m.goal, m.result)
    <3>1. topic \in Seq(Messages) /\ topic # <<>>
      BY <1>8 DEF HandleResult, Typed, TypeOK
    <3>2. 1 \in DOMAIN topic /\ m = topic[1] /\ m \in Messages
      BY <3>1
    <3> QED
      BY <3>2, MessageTypes DEF CommandInv, ResultsAreTrue
  <2>2. UNCHANGED <<caller, goalCmd, thread, kind, inbox, replied, storage>>
    BY <1>8 DEF HandleResult, goalVars
  <2>3. \A i \in DOMAIN topic' : True(topic'[i].goal, topic'[i].result)
    <3>1. topic \in Seq(Messages) /\ topic # <<>> /\ topic' = Tail(topic)
      BY <1>8 DEF HandleResult, Typed, TypeOK
    <3>2. \A i \in DOMAIN topic' : i + 1 \in DOMAIN topic
                                   /\ topic'[i] = topic[i + 1]
      BY <3>1
    <3> QED
      BY <3>2 DEF CommandInv, ResultsAreTrue
  <2>4. /\ subscriber' # NoMessage => True(subscriber'.goal, subscriber'.result)
        /\ \A h \in Goals : pending'[h] # Nothing => True(h, pending'[h])
    <3>1. CASE subscriber' = m /\ pending' = pending
      BY <2>1, <3>1 DEF CommandInv, ResultsAreTrue
    <3>2. CASE /\ subscriber' = subscriber
               /\ pending' = [pending EXCEPT ![m.goal] = m.result]
      <4>1. \A h \in Goals : pending'[h] = IF h = m.goal THEN m.result
                                                        ELSE pending[h]
        BY <2>1, <3>2 DEF Typed, TypeOK
      <4> QED
        BY <2>1, <3>2, <4>1 DEF CommandInv, ResultsAreTrue
    <3> QED
      BY <1>8, <3>1, <3>2 DEF HandleResult, KeepPending
  <2>5. ResultsAreTrue'
    BY <2>2, <2>3, <2>4 DEF CommandInv, ResultsAreTrue, True, IsCmdDone
  <2>6. CallerHasItsGoal' /\ RepliesAreTrue'
    BY <2>2 DEF CommandInv, CallerHasItsGoal, RepliesAreTrue, True, Past,
                Idle
  <2> QED
    BY <2>2, <2>5, <2>6, AgentStep DEF InboxShrinks
<1>9. CASE RunResultCallback
  <2>1. /\ subscriber.goal \in Goals /\ subscriber.result \in Results
        /\ True(subscriber.goal, subscriber.result)
    BY <1>9, MessageTypes
       DEF RunResultCallback, Typed, TypeOK, CommandInv, ResultsAreTrue
  <2>2. UNCHANGED <<caller, goalCmd, thread, kind, inbox, replied, topic,
                    pending>>
    BY <1>9 DEF RunResultCallback, goalVars
  <2>3. \A h \in Goals : storage'[h] = IF h = subscriber.goal
                                         THEN subscriber.result ELSE storage[h]
    BY <1>9, <2>1 DEF RunResultCallback, Typed, TypeOK
  <2>4. subscriber' = NoMessage
    BY <1>9 DEF RunResultCallback
  <2>5. ResultsAreTrue'
    BY <2>1, <2>2, <2>3, <2>4
       DEF CommandInv, ResultsAreTrue, True, IsCmdDone
  <2>6. CallerHasItsGoal' /\ RepliesAreTrue'
    BY <2>2 DEF CommandInv, CallerHasItsGoal, RepliesAreTrue, True, Past,
                Idle
  <2> QED
    BY <2>2, <2>5, <2>6, AgentStep DEF InboxShrinks
<1>10. CASE LoseResult
  <2>1. UNCHANGED <<caller, goalCmd, thread, kind, inbox, replied, storage,
                    pending, subscriber>>
    BY <1>10 DEF LoseResult, clientVars, goalVars
  <2>2. \A i \in DOMAIN topic' : True(topic'[i].goal, topic'[i].result)
    <3>1. topic \in Seq(Messages) /\ topic # <<>> /\ topic' = Tail(topic)
      BY <1>10 DEF LoseResult, Typed, TypeOK
    <3>2. \A i \in DOMAIN topic' : i + 1 \in DOMAIN topic
                                   /\ topic'[i] = topic[i + 1]
      BY <3>1
    <3> QED
      BY <3>2 DEF CommandInv, ResultsAreTrue
  <2>3. ResultsAreTrue'
    BY <2>1, <2>2 DEF CommandInv, ResultsAreTrue, True, IsCmdDone
  <2>4. CallerHasItsGoal' /\ RepliesAreTrue'
    BY <2>1 DEF CommandInv, CallerHasItsGoal, RepliesAreTrue, True, Past,
                Idle
  <2> QED
    BY <2>1, <2>3, <2>4, AgentStep DEF InboxShrinks
<1>11. CASE HandleGoal
  <2> DEFINE n == nextGoal
  <2>1. /\ inbox \in Seq(Commands) /\ inbox # <<>> /\ inbox' = Tail(inbox)
        /\ n \in Goals /\ n \in Nat
    BY <1>11 DEF HandleGoal, Typed, TypeOK
  <2>2. /\ \A i \in DOMAIN inbox' : i + 1 \in DOMAIN inbox
                                    /\ inbox'[i] = inbox[i + 1]
        /\ 1 \in DOMAIN inbox /\ Head(inbox) = inbox[1]
        /\ \A i \in DOMAIN inbox' : i \in Nat /\ i > 0
    BY <2>1
  <2>3. \A g \in Goals : goalCmd'[g] = IF g = n THEN inbox[1] ELSE goalCmd[g]
    BY <1>11, <2>1, <2>2 DEF HandleGoal, Typed, TypeOK
  <2>4. /\ thread'[n].pc = "created" /\ thread'[n].how = thread[n].how
        /\ \A g \in Goals \ {n} : thread'[g] = thread[g]
    BY <1>11, <2>1 DEF HandleGoal, Typed, TypeOK, ThreadStates
  <2>5. \A g \in Goals : g >= n => goalCmd[g] = 0
    BY DEF Typed, FreshGoals
  <2>6. UNCHANGED <<clientVars, topic>>
    BY <1>11 DEF HandleGoal
  <2>7. GoalsKept
    BY <2>1, <2>3, <2>4, <2>5 DEF GoalsKept, Goals, Commands
  <2>8. ResultsAreTrue' /\ RepliesAreTrue'
    BY <2>6, <2>7, ResultsKept
  <2>9. OneGoalEach'
    <3>1. caller' = caller
      BY <2>6 DEF clientVars
    <3>2. /\ \A g \in Goals : g \in Nat /\ goalCmd[g] \in Nat
          /\ \A i \in DOMAIN inbox : inbox[i] \in Nat
      BY InboxTyped DEF Typed, TypeOK, Goals, Commands
    <3>3. /\ \A i \in DOMAIN inbox' : inbox'[i] <= caller.cmd
          /\ \A i, j \in DOMAIN inbox' : i < j => inbox'[i] < inbox'[j]
      BY <2>2 DEF CommandInv, OneGoalEach
    <3>4. \A i \in DOMAIN inbox', g \in Goals : goalCmd'[g] < inbox'[i]
      BY <2>2, <2>3 DEF CommandInv, OneGoalEach
    <3>5. \A g \in Goals : goalCmd'[g] <= caller.cmd
      BY <2>2, <2>3 DEF CommandInv, OneGoalEach
    <3>6. \A g, h \in Goals :
            g < h /\ goalCmd'[h] # 0 => goalCmd'[g] < goalCmd'[h]
      BY <2>1, <2>2, <2>3, <2>5, <3>2 DEF CommandInv, OneGoalEach
    <3> QED
      BY <3>1, <3>3, <3>4, <3>5, <3>6 DEF OneGoalEach
  <2>10. OneRuns' /\ SentInOrder'
    BY <2>4, <2>6 DEF CommandInv, OneRuns, SentInOrder, clientVars
  <2>11. CallerHasItsGoal'
    <3>1. caller.pc \in {"register", "deliver", "init", "wait"} =>
            caller.goal \in Goals /\ caller.cmd \in Commands
      BY DEF Typed, CallerInPlace, Idle
    <3>2. goalCmd[n] = 0 /\ 0 \notin Commands
      <4>1. n >= n
        BY <2>1
      <4> QED
        BY <2>1, <2>5, <4>1, GoalRange
    <3>3. caller' = caller
      BY <2>6 DEF clientVars
    <3> QED
      BY <2>3, <3>1, <3>2, <3>3 DEF CommandInv, CallerHasItsGoal
  <2> QED
    BY <2>8, <2>9, <2>10, <2>11 DEF CommandInv
<1>12. CASE StoreThread
  <2>1. UNCHANGED <<goalCmd, thread, kind, inbox, replied, topic, pending,
                    subscriber, storage>>
    BY <1>12 DEF StoreThread, goalVars
  <2>2. \/ caller' = caller
        \/ /\ caller.pc = "calling" /\ caller.cmd = goalCmd[service]
           /\ caller'.pc = "register" /\ caller'.goal = service
           /\ caller'.cmd = caller.cmd
    BY <1>12 DEF StoreThread, Typed, TypeOK, CallerStates
  <2>3. CallerHasItsGoal'
    BY <2>1, <2>2 DEF CommandInv, CallerHasItsGoal
  <2>4. ResultsAreTrue'
    BY <2>1, <2>2 DEF CommandInv, ResultsAreTrue, True, IsCmdDone
  <2>5. RepliesAreTrue'
    <3>1. caller' = caller \/ (~Idle /\ ~Idle' /\ caller'.cmd = caller.cmd)
      BY <2>2 DEF Idle
    <3> QED
      BY <2>1, <3>1, CallerStep DEF Idle
  <2> QED
    BY <2>1, <2>2, <2>3, <2>4, <2>5, AgentStep DEF InboxShrinks
<1>13. ASSUME NEW g \in Goals, GoalThread(g) PROVE CommandInv'
  <2>1. UNCHANGED <<clientVars, inbox, goalCmd>>
    BY <1>13
       DEF GoalThread, LookUpGoal, EnterCommand, StartCommand, RunShort,
           RunEstop, SleepOn, SendResult, PublishResult, CleanUpGoal,
           ForgetGoal, goalVars
  <2>2. /\ \A h \in Goals \ {g} : thread'[h] = thread[h]
        /\ thread[g].how # "none" => thread'[g].how = thread[g].how
        /\ thread'[g].pc = "running" /\ thread[g].pc # "running"
             => CommandLockFree
    BY <1>13, GoalThreadMoves
  <2>3. GoalsKept
    BY <2>1, <2>2 DEF GoalsKept
  <2>4. ResultsAreTrue' /\ RepliesAreTrue'
    <3>1. CASE topic' = topic
      BY <2>1, <2>3, <3>1, ResultsKept
    <3>2. CASE topic' # topic
      BY <1>13, <2>1, <3>2, PublishKeeps
         DEF GoalThread, LookUpGoal, EnterCommand, StartCommand, RunShort,
             RunEstop, SleepOn, SendResult, CleanUpGoal, ForgetGoal
    <3> QED
      BY <3>1, <3>2
  <2>5. SentInOrder' /\ OneGoalEach' /\ CallerHasItsGoal'
    BY <2>1 DEF CommandInv, SentInOrder, OneGoalEach, CallerHasItsGoal,
                clientVars
  <2>6. OneRuns'
    BY <2>2 DEF CommandInv, OneRuns, CommandLockFree
  <2> QED
    BY <2>4, <2>5, <2>6 DEF CommandInv
<1>14. CASE Terminate \/ Main \/ UNCHANGED vars
  <2>1. UNCHANGED <<clientVars, topic, inbox, goalCmd, thread>>
    BY <1>14 DEF Terminate, Main, CloseActionServer, DestroyMaps, FinishClose,
                 Exit, vars, goalVars
  <2>2. ResultsAreTrue' /\ RepliesAreTrue'
    BY <2>1, ResultsKept DEF GoalsKept
  <2> QED
    BY <2>1, <2>2
       DEF CommandInv, SentInOrder, OneGoalEach, OneRuns, CallerHasItsGoal,
           clientVars
<1>15. CASE CloseClient
  <2>1. /\ caller.pc = "idle" /\ caller'.pc = "closed"
        /\ caller'.cmd = caller.cmd
    BY <1>15 DEF CloseClient, Typed, TypeOK, CallerStates
  <2>2. UNCHANGED <<goalCmd, thread, kind, inbox, replied, topic, pending,
                    subscriber, storage>>
    BY <1>15 DEF CloseClient, goalVars
  <2>3. CallerHasItsGoal'
    BY <2>1 DEF CallerHasItsGoal
  <2>4. ResultsAreTrue'
    BY <2>1, <2>2 DEF CommandInv, ResultsAreTrue, True, IsCmdDone
  <2>5. RepliesAreTrue'
    BY <2>1, <2>2, CallerStep DEF Idle
  <2> QED
    BY <2>1, <2>2, <2>3, <2>4, <2>5, AgentStep DEF InboxShrinks
<1> QED
  BY <1>1, <1>2, <1>3, <1>4, <1>5, <1>6, <1>7, <1>8, <1>9, <1>10, <1>11, <1>12,
     <1>13, <1>14, <1>15 DEF Next, Caller, Service

LEMMA CommandsKept == Spec => [](Typed /\ CommandInv)
<1>1. Init => Typed /\ CommandInv
  BY TypedInit, CommandInit
<1>2. Typed /\ CommandInv /\ [Next]_vars => (Typed /\ CommandInv)'
  BY TypedStep, CommandStep
<1> QED
  BY <1>1, <1>2, PTL DEF Spec

---------------------------------------------------------------------------
(* Commands overlap only when the caller has given up *)

\* Two goals carry different commands.
LEMMA OneGoal ==
  ASSUME Typed, CommandInv, NEW g \in Goals, NEW h \in Goals,
         goalCmd[g] = goalCmd[h], goalCmd[g] # 0
  PROVE  g = h
<1>1. g \in Nat /\ h \in Nat /\ goalCmd[g] \in Nat
  BY DEF Goals, Commands, Typed, TypeOK
<1>2. g < h \/ h < g \/ g = h
  BY <1>1
<1>3. ~(goalCmd[g] < goalCmd[h]) /\ ~(goalCmd[h] < goalCmd[g])
  BY <1>1
<1> QED
  BY <1>2, <1>3 DEF CommandInv, OneGoalEach

\* The subnode works on two commands of the agent together only when the
\* caller of the earlier one has given up on it or never waited.
THEOREM CommandsTakeTurns == Spec => []OverlapNeedsGiveUp
<1>1. ASSUME Typed, CommandInv PROVE OverlapNeedsGiveUp
  <2> SUFFICES ASSUME NEW g \in Goals, NEW h \in Goals,
                      InProgress(g), InProgress(h), goalCmd[g] < goalCmd[h]
               PROVE  replied[goalCmd[g]] \in {Failure, Posted}
    BY DEF OverlapNeedsGiveUp
  <2> DEFINE c == goalCmd[g]
  <2>1. /\ c \in Commands /\ c # 0 /\ goalCmd[h] \in Commands
        /\ thread[g].how = "none"
    BY <1>1, GoalRange DEF Typed, ThreadInPlace, InProgress, Before
  <2>2. c < caller.cmd
    <3>1. goalCmd[h] <= caller.cmd
      BY <1>1 DEF CommandInv, OneGoalEach
    <3>2. caller.cmd \in Nat
      BY <1>1 DEF Typed, TypeOK, CallerStates
    <3> QED
      BY <2>1, <3>1, <3>2 DEF Commands
  <2>3. replied[c] # Nothing
    BY <1>1, <2>1, <2>2 DEF CommandInv, RepliesAreTrue, Past
  <2>4. replied[c] \notin Results
    <3> SUFFICES ASSUME replied[c] \in Results PROVE FALSE
      OBVIOUS
    <3>1. PICK k \in Goals : goalCmd[k] = c /\ True(k, replied[c])
      BY <1>1, <2>1 DEF CommandInv, RepliesAreTrue
    <3>2. k = g
      BY <1>1, <2>1, <3>1, OneGoal
    <3>3. replied[c].how = "none"
      BY <2>1, <3>1, <3>2 DEF True, Result
    <3> QED
      BY <3>3 DEF Results, Outcomes
  <2> QED
    BY <1>1, <2>1, <2>3, <2>4 DEF Typed, TypeOK
<1> QED
  BY <1>1, CommandsKept, PTL

---------------------------------------------------------------------------
(* Which commands can outlive the server *)

Live(g) == thread[g].pc \notin {"none", "done"}

\* As long as the server has its maps, every goal that lives is in them, and
\* its thread is stored there unless handleGoal is about to store it.
LiveThreadsStored ==
  main.pc \in {"up", "closing"} =>
    \A g \in Goals : Live(g) => /\ entry[g] # "absent"
                                /\ g # service => entry[g] = "thread"

\* handleGoal answers a request after it has started the goal's thread.
GoalsStarted ==
  /\ service # 0 => thread[service].pc # "none"
  /\ \A g \in accepted : thread[g].pc # "none"
  /\ service \notin accepted

\* The destructor waits for every accepted goal that lives ...
AcceptedJoined ==
  main.pc = "joining" => \A g \in accepted : Live(g) => g \in main.joins

\* ... and no other goal is accepted, so that all have ended afterwards.
AcceptedEnded ==
  main.pc \in {"members", "releasing"} => \A g \in accepted : ~Live(g)

CloseInv == /\ LiveThreadsStored /\ GoalsStarted
            /\ AcceptedJoined /\ AcceptedEnded

LEMMA CloseInit == Init => CloseInv
  BY DEF Init, CloseInv, LiveThreadsStored, GoalsStarted, AcceptedJoined,
         AcceptedEnded, Live

\* What the invariant speaks of is left alone by the agent.
LEMMA CloseUntouched ==
  ASSUME CloseInv, UNCHANGED <<service, entry, thread, main, accepted>>
  PROVE  CloseInv'
  BY DEF CloseInv, LiveThreadsStored, GoalsStarted, AcceptedJoined,
         AcceptedEnded, Live

\* A goal thread that goes on brings no goal to life, and the entry of a goal
\* goes away only when its thread is done.
LEMMA GoalThreadKeeps ==
  ASSUME Typed, NEW g \in Goals, GoalThread(g)
  PROVE  /\ \A h \in Goals : /\ Live(h)' => Live(h) /\ entry'[h] = entry[h]
                             /\ thread[h].pc # "none" => thread'[h].pc # "none"
         /\ UNCHANGED <<service, accepted>>
         /\ UNCHANGED main \/ (/\ main.pc # "up" /\ main'.pc = "crashed"
                               /\ main'.by = main.by)
<1>0. GoalThread(g)
  OBVIOUS
<1>1. UNCHANGED <<service, accepted>>
  BY DEF GoalThread, LookUpGoal, EnterCommand, StartCommand, RunShort, RunEstop,
         SleepOn, SendResult, PublishResult, CleanUpGoal, ForgetGoal
<1>2. UNCHANGED main \/ (/\ main.pc # "up" /\ main'.pc = "crashed"
                         /\ main'.by = main.by)
  <2>1. CASE PublishResult(g)
    <3>1. \/ UNCHANGED main
          \/ ServerGone /\ main' = [main EXCEPT !.pc = "crashed"]
      BY <2>1 DEF PublishResult
    <3>2. main \in MainStates
      BY DEF Typed, TypeOK
    <3> QED
      BY <3>1, <3>2 DEF ServerGone, MainStates
  <2>2. CASE LookUpGoal(g) \/ EnterCommand(g) \/ CleanUpGoal(g)
    <3>1. UseMaps
      BY <2>2 DEF LookUpGoal, EnterCommand, CleanUpGoal, ForgetGoal
    <3> QED
      BY <3>1, MapsUsed
  <2>3. CASE \/ StartCommand(g) \/ RunShort(g) \/ RunEstop(g) \/ SleepOn(g)
             \/ SendResult(g)
    BY <2>3 DEF StartCommand, RunShort, RunEstop, SleepOn, SendResult
  <2> QED
    BY <1>0, <2>1, <2>2, <2>3 DEF GoalThread
<1>3. thread \in [Goals -> ThreadStates] /\ Live(g)
  BY DEF Typed, TypeOK, GoalThread, LookUpGoal, EnterCommand, StartCommand,
         RunShort, RunEstop, SleepOn, SendResult, PublishResult, CleanUpGoal,
         ForgetGoal, At, Live
<1>4. \A h \in Goals \ {g} : thread'[h] = thread[h] /\ entry'[h] = entry[h]
  <2>1. \A h \in Goals \ {g} : thread'[h] = thread[h]
    BY GoalThreadMoves
  <2>2. \A h \in Goals \ {g} : entry'[h] = entry[h]
    BY DEF GoalThread, LookUpGoal, EnterCommand, StartCommand, RunShort,
           RunEstop, SleepOn, SendResult, PublishResult, CleanUpGoal,
           ForgetGoal, goalVars, Typed, TypeOK
  <2> QED
    BY <2>1, <2>2
<1>5. Live(g)' => entry'[g] = entry[g]
  <2>1. CASE CleanUpGoal(g)
    <3>1. thread'[g].pc = "done"
      BY <1>3, <2>1 DEF CleanUpGoal, ForgetGoal, MoveTo, ThreadStates
    <3> QED
      BY <3>1 DEF Live
  <2>2. CASE ~CleanUpGoal(g)
    BY <2>2
       DEF GoalThread, LookUpGoal, EnterCommand, StartCommand, RunShort,
           RunEstop, SleepOn, SendResult, PublishResult, goalVars
  <2> QED
    BY <2>1, <2>2
<1>6. \A h \in Goals : Live(h)' => Live(h)
  BY <1>3, <1>4 DEF Live
<1>7. thread'[g].pc # "none"
  <2>1. \A pc \in ThreadPcs \ {"none"} : MoveTo(g, pc) => thread'[g].pc # "none"
    BY <1>3, Moved
  <2>2. \A how \in Outcomes : FinishAs(g, how) => thread'[g].pc # "none"
    BY <1>3, Finished
  <2>3. thread' = thread => thread'[g].pc # "none"
    BY <1>3 DEF Live
  <2>4. CASE LookUpGoal(g) \/ StartCommand(g) \/ SendResult(g)
             \/ PublishResult(g) \/ CleanUpGoal(g)
    <3>1. \E pc \in {"entered", "done", "running", "publishing", "cleanup"} :
            MoveTo(g, pc)
      BY <2>4 DEF LookUpGoal, StartCommand, SendResult, PublishResult,
                  CleanUpGoal, ForgetGoal
    <3> QED
      BY <3>1, <2>1 DEF ThreadPcs
  <2>5. CASE \/ EnterCommand(g) \/ RunShort(g) \/ RunEstop(g) \/ SleepOn(g)
    <3>1. \/ MoveTo(g, "waiting") \/ thread' = thread
          \/ \E how \in Outcomes : FinishAs(g, how)
      BY <2>5 DEF EnterCommand, RunShort, RunEstop, SleepOn, Outcomes
    <3> QED
      BY <3>1, <2>1, <2>2, <2>3 DEF ThreadPcs
  <2> QED
    BY <1>0, <2>4, <2>5 DEF GoalThread
<1> QED
  BY <1>1, <1>2, <1>4, <1>5, <1>6, <1>7

LEMMA CloseStep == Typed /\ CloseInv /\ [Next]_vars => CloseInv'
<1> SUFFICES ASSUME Typed, CloseInv, [Next]_vars PROVE CloseInv'
  OBVIOUS
<1> USE DEF CloseInv, LiveThreadsStored, GoalsStarted, AcceptedJoined,
            AcceptedEnded
<1>1. CASE \/ SendGoal \/ CallTimeout \/ CmdTimeout \/ Caller \/ CloseClient
           \/ HandleResult \/ RunResultCallback \/ LoseResult \/ UNCHANGED vars
  <2>1. UNCHANGED <<service, entry, thread, main, accepted>>
    BY <1>1
       DEF SendGoal, CallTimeout, CmdTimeout, Caller, RegisterCallbacks,
           DeliverPending, InitGoal, CmdDone, CloseClient, HandleResult,
           RunResultCallback, LoseResult, goalVars, vars
  <2> QED
    BY <2>1, CloseUntouched
<1>2. CASE HandleGoal
  <2>1. /\ service = 0 /\ service' = nextGoal /\ accepted' = accepted
        /\ nextGoal \in Goals
        /\ entry' = [entry EXCEPT ![nextGoal] = "empty"]
        /\ thread' = [thread EXCEPT ![nextGoal].pc = "created"]
    BY <1>2 DEF HandleGoal
  <2>2. /\ entry'[nextGoal] = "empty" /\ thread'[nextGoal].pc = "created"
        /\ \A g \in Goals \ {nextGoal} : /\ entry'[g] = entry[g]
                                         /\ thread'[g] = thread[g]
    BY <2>1 DEF Typed, TypeOK, ThreadStates
  <2>3. nextGoal \notin accepted /\ accepted \subseteq Goals
    <3>1. thread[nextGoal].pc = "none"
      BY <2>1 DEF Typed, FreshGoals, Goals, Commands
    <3> QED
      BY <3>1 DEF Typed, TypeOK
  <2>4. main' = main \/ main'.pc = "crashed"
    BY <1>2, MapsUsed DEF HandleGoal
  <2>5. \A g \in Goals \ {nextGoal} : Live(g)' <=> Live(g)
    BY <2>2 DEF Live
  <2>6. LiveThreadsStored'
    BY <2>1, <2>2, <2>4, <2>5, GoalRange
  <2>7. GoalsStarted'
    BY <2>1, <2>2, <2>3
  <2>8. AcceptedJoined' /\ AcceptedEnded'
    BY <2>1, <2>3, <2>4, <2>5
  <2> QED
    BY <2>6, <2>7, <2>8
<1>3. CASE StoreThread
  <2>1. /\ service \in Goals /\ service' = 0 /\ thread' = thread
        /\ accepted' = IF ServerGone THEN accepted ELSE accepted \cup {service}
        /\ entry' = [entry EXCEPT ![service] =
                       IF @ = "absent" THEN "absent" ELSE "thread"]
    BY <1>3 DEF StoreThread, Typed, TypeOK
  <2>2. main' = main \/ main'.pc = "crashed"
    BY <1>3, MapsUsed DEF StoreThread
  <2>3. LiveThreadsStored'
    BY <2>1, <2>2 DEF Live, Typed, TypeOK
  <2>4. GoalsStarted'
    BY <2>1, GoalRange DEF Typed, TypeOK
  <2>5. AcceptedJoined' /\ AcceptedEnded'
    BY <2>1, <2>2 DEF ServerGone, Live
  <2> QED
    BY <2>3, <2>4, <2>5
<1>4. ASSUME NEW g \in Goals, GoalThread(g) PROVE CloseInv'
  <2>1. /\ \A h \in Goals : /\ Live(h)' => Live(h) /\ entry'[h] = entry[h]
                            /\ thread[h].pc # "none" => thread'[h].pc # "none"
        /\ UNCHANGED <<service, accepted>>
        /\ main' = main \/ main'.pc = "crashed"
    BY <1>4, GoalThreadKeeps
  <2>2. service \in {0} \cup Goals /\ accepted \subseteq Goals
    BY DEF Typed, TypeOK
  <2>3. LiveThreadsStored'
    BY <2>1
  <2>4. GoalsStarted'
    BY <2>1, <2>2
  <2>5. AcceptedJoined' /\ AcceptedEnded'
    BY <2>1, <2>2
  <2> QED
    BY <2>3, <2>4, <2>5
<1>5. CASE Terminate
  <2>1. /\ main.pc = "up" /\ main'.pc = "closing"
        /\ UNCHANGED <<service, entry, thread, accepted>>
    BY <1>5 DEF Terminate, goalVars, Typed, TypeOK, MainStates
  <2> QED
    BY <2>1 DEF Live
<1>6. CASE CloseActionServer
  <2>1. /\ main.pc = "closing" /\ main'.pc = "joining"
        /\ main'.joins = StoredThreads
        /\ UNCHANGED <<service, thread, accepted>>
    BY <1>6 DEF CloseActionServer, Typed, TypeOK, MainStates
  <2>2. \A g \in accepted : Live(g) => g \in StoredThreads
    BY <2>1 DEF StoredThreads, Typed, TypeOK
  <2> QED
    BY <2>1, <2>2 DEF Live
<1>7. CASE DestroyMaps
  <2>1. /\ main.pc = "joining" /\ main'.pc \in {"members", "crashed"}
        /\ Joined
        /\ UNCHANGED <<service, entry, thread, accepted>>
    BY <1>7 DEF DestroyMaps, goalVars, Typed, TypeOK, MainStates
  <2>2. \A g \in accepted : ~Live(g)
    BY <2>1 DEF Joined, Live
  <2> QED
    BY <2>1, <2>2 DEF Live
<1>8. CASE FinishClose
  <2>1. /\ main.pc = "members" /\ main'.pc = "releasing"
        /\ UNCHANGED <<service, entry, thread, accepted>>
    BY <1>8 DEF FinishClose, goalVars, Typed, TypeOK, MainStates
  <2> QED
    BY <2>1 DEF Live
<1>9. CASE Exit
  <2>1. /\ main'.pc = "exited"
        /\ UNCHANGED <<service, entry, thread, accepted>>
    BY <1>9 DEF Exit, goalVars, Typed, TypeOK, MainStates
  <2> QED
    BY <2>1 DEF Live
<1> QED
  BY <1>1, <1>2, <1>3, <1>4, <1>5, <1>6, <1>7, <1>8, <1>9
     DEF Next, Service, Main

\* The agent closes its client before it ends the subnode, and its caller has
\* returned by then.  As long as nobody else ends the subnode, every caller
\* that got an answer got it from the server before that.
WhoStops ==
  /\ main.by = "none" <=> main.pc = "up"
  /\ main.by = "agent" => caller.pc = "closed"

CallerAccepted ==
  main.by # "signal" /\ caller.pc \in {"register", "deliver", "init", "wait"}
    => caller.goal \in accepted

\* A caller that does not wait for a command knows its goal.
PostedAccepted ==
  main.by # "signal" => \A c \in Commands :
    replied[c] = Posted => \E g \in accepted : goalCmd[g] = c

LeaveInv == WhoStops /\ CallerAccepted /\ PostedAccepted

LEMMA LeaveInit == Init => LeaveInv
<1> SUFFICES ASSUME Init PROVE LeaveInv
  OBVIOUS
<1>1. \A c \in Commands : replied[c] # Posted
  BY ResultTypes DEF Init
<1> QED
  BY <1>1 DEF Init, LeaveInv, WhoStops, CallerAccepted, PostedAccepted

LEMMA LeaveStep ==
  Typed /\ CommandInv /\ CloseInv /\ LeaveInv /\ [Next]_vars => LeaveInv'
<1> SUFFICES ASSUME Typed, CommandInv, CloseInv, LeaveInv, [Next]_vars
             PROVE  LeaveInv'
  OBVIOUS
<1> USE DEF LeaveInv, WhoStops, CallerAccepted, PostedAccepted
<1>1. CASE SendGoal \/ CloseClient
  <2>1. /\ caller.pc = "idle" /\ caller'.pc \in {"calling", "closed"}
        /\ UNCHANGED <<main, accepted, replied, goalCmd>>
    BY <1>1 DEF SendGoal, CloseClient, goalVars, Typed, TypeOK, CallerStates
  <2> QED
    BY <2>1
<1>2. CASE \/ CallTimeout \/ CmdTimeout \/ CmdDone
           \/ (InitGoal /\ kind[caller.cmd] = "estop")
  <2>1. PICK r : Return(r)
    BY <1>2 DEF CallTimeout, CmdTimeout, CmdDone, InitGoal
  <2>2. /\ caller.pc \in {"calling", "init", "wait"} /\ caller'.pc = "idle"
        /\ caller.cmd \in Commands
        /\ UNCHANGED <<main, accepted, goalCmd>>
    BY <1>2, <2>1
       DEF CallTimeout, CmdTimeout, CmdDone, InitGoal, Return, goalVars, Idle,
           Typed, TypeOK, CallerStates, CallerInPlace
  <2>3. \A c \in Commands \ {caller.cmd} : replied'[c] = replied[c]
    BY <2>1, <2>2 DEF Return, Typed, TypeOK
  <2>4. replied'[caller.cmd] = Posted => caller.pc = "init"
    <3>1. CASE CallTimeout \/ CmdTimeout
      BY <2>2, <3>1, ResultTypes
         DEF CallTimeout, CmdTimeout, Return, Typed, TypeOK, Failure, Posted,
             Result
    <3>2. CASE CmdDone
      <4>1. storage[caller.goal] \in Results
        BY <3>2 DEF CmdDone, IsCmdDone, Typed, TypeOK, CallerInPlace
      <4> QED
        BY <2>2, <3>2, <4>1, ResultTypes DEF CmdDone, Return, Typed, TypeOK
    <3> QED
      BY <1>2, <3>1, <3>2 DEF InitGoal
  <2>5. caller.pc = "init" => goalCmd[caller.goal] = caller.cmd
    BY DEF CommandInv, CallerHasItsGoal
  <2>6. PostedAccepted'
    BY <2>2, <2>3, <2>4, <2>5
  <2> QED
    BY <2>2, <2>6
<1>3. CASE \/ RegisterCallbacks \/ DeliverPending
           \/ (InitGoal /\ kind[caller.cmd] # "estop")
  <2>1. /\ caller.pc \in {"register", "deliver", "init"}
        /\ caller'.pc \in {"deliver", "init", "wait"}
        /\ caller'.goal = caller.goal
        /\ UNCHANGED <<main, accepted, replied, goalCmd>>
    BY <1>3
       DEF RegisterCallbacks, DeliverPending, InitGoal, goalVars, Typed,
           TypeOK, CallerStates
  <2> QED
    BY <2>1
<1>4. CASE HandleResult \/ RunResultCallback \/ LoseResult \/ UNCHANGED vars
  <2>1. UNCHANGED <<caller, main, accepted, replied, goalCmd>>
    BY <1>4 DEF HandleResult, RunResultCallback, LoseResult, vars, clientVars,
                goalVars
  <2> QED
    BY <2>1
<1>5. CASE HandleGoal
  <2>1. /\ UNCHANGED <<caller, replied, accepted>> /\ nextGoal \in Goals
        /\ goalCmd' = [goalCmd EXCEPT ![nextGoal] = Head(inbox)]
    BY <1>5 DEF HandleGoal, clientVars
  <2>2. nextGoal \notin accepted /\ accepted \subseteq Goals
    <3>1. thread[nextGoal].pc = "none"
      BY <2>1 DEF Typed, FreshGoals, Goals, Commands
    <3> QED
      BY <3>1 DEF CloseInv, GoalsStarted, Typed, TypeOK
  <2>3. \A g \in accepted : goalCmd'[g] = goalCmd[g]
    BY <2>1, <2>2 DEF Typed, TypeOK
  <2>4. main'.by = main.by /\ (main'.pc = "up" <=> main.pc = "up")
    BY <1>5, MapsUsed DEF HandleGoal
  <2> QED
    BY <2>1, <2>3, <2>4
<1>6. CASE StoreThread
  <2>1. /\ UNCHANGED <<replied, goalCmd>>
        /\ accepted' = IF ServerGone THEN accepted ELSE accepted \cup {service}
    BY <1>6 DEF StoreThread
  <2>2. \/ caller' = caller
        \/ /\ caller.pc = "calling" /\ caller'.pc = "register"
           /\ caller'.goal = service
    BY <1>6 DEF StoreThread, Typed, TypeOK, CallerStates
  <2>3. main'.by = main.by /\ (main'.pc = "up" <=> main.pc = "up")
    BY <1>6, MapsUsed DEF StoreThread
  <2>4. main.by \in {"none", "agent", "signal"}
    BY DEF Typed, TypeOK, MainStates, StopModes
  <2>5. WhoStops'
    BY <2>2, <2>3
  <2>6. CallerAccepted'
    BY <2>1, <2>2, <2>3, <2>4 DEF ServerGone
  <2>7. PostedAccepted'
    BY <2>1, <2>3
  <2> QED
    BY <2>5, <2>6, <2>7
<1>7. ASSUME NEW g \in Goals, GoalThread(g) PROVE LeaveInv'
  <2>1. UNCHANGED <<caller, replied, goalCmd>>
    BY <1>7
       DEF GoalThread, LookUpGoal, EnterCommand, StartCommand, RunShort,
           RunEstop, SleepOn, SendResult, PublishResult, CleanUpGoal,
           ForgetGoal, clientVars, goalVars
  <2>2. /\ accepted' = accepted /\ main'.by = main.by
        /\ main'.pc = "up" <=> main.pc = "up"
    BY <1>7, GoalThreadKeeps
  <2> QED
    BY <2>1, <2>2
<1>8. CASE Terminate
  <2>1. /\ UNCHANGED <<caller, replied, goalCmd, accepted>>
        /\ main.pc = "up" /\ main'.pc = "closing"
        /\ main'.by \in StopModes
        /\ main'.by = "agent" => caller.pc = "closed"
    BY <1>8, ActionAssumption
       DEF Terminate, clientVars, goalVars, Typed, TypeOK, MainStates
  <2> QED
    BY <2>1 DEF StopModes
<1>9. CASE Main
  <2>1. UNCHANGED <<caller, replied, goalCmd, accepted>>
    BY <1>9 DEF Main, CloseActionServer, DestroyMaps, FinishClose, Exit,
                clientVars, goalVars
  <2>2. main'.by = main.by /\ main.pc # "up" /\ main'.pc # "up"
    BY <1>9 DEF Main, CloseActionServer, DestroyMaps, FinishClose, Exit,
                Typed, TypeOK, MainStates
  <2> QED
    BY <2>1, <2>2
<1> QED
  BY <1>1, <1>2, <1>3, <1>4, <1>5, <1>6, <1>7, <1>8, <1>9
     DEF Next, Caller, Service

\* Whoever ends the subnode and whatever reaches the goal service meanwhile: a
\* command that executes, or could still be executed, while spin is in
\* release() is none that was answered before the server was closed, and after
\* a disconnect of the agent its request had timed out (action.cpp 34-83,
\* base_agent.cpp 177-206, service.cpp 164-180).
THEOREM ReleaseAfterCommands == Spec => []CommandsEndBeforeRelease
<1>1. ASSUME Typed, CommandInv, CloseInv, LeaveInv
      PROVE  CommandsEndBeforeRelease
  <2> SUFFICES ASSUME main.pc = "releasing", NEW g \in Goals, InProgress(g)
               PROVE  /\ g \notin accepted
                      /\ main.by = "agent" => replied[goalCmd[g]] = Failure
    BY DEF CommandsEndBeforeRelease
  <2>1. Live(g)
    BY DEF InProgress, Live
  <2>2. g \notin accepted
    BY <1>1, <2>1 DEF CloseInv, AcceptedEnded
  <2>3. ASSUME main.by = "agent" PROVE replied[goalCmd[g]] = Failure
    <3> DEFINE c == goalCmd[g]
    <3>1. /\ c \in Commands /\ c # 0 /\ thread[g].how = "none"
          /\ accepted \subseteq Goals
      BY <1>1, GoalRange DEF Typed, TypeOK, ThreadInPlace, InProgress, Before
    <3>2. replied[c] # Nothing
      <4>1. c <= caller.cmd /\ caller.cmd \in Nat
        BY <1>1, <3>1 DEF CommandInv, OneGoalEach, Typed, TypeOK, CallerStates
      <4>2. Past(c)
        BY <1>1, <2>3, <3>1, <4>1
           DEF LeaveInv, WhoStops, Past, Idle, Commands
      <4> QED
        BY <1>1, <3>1, <4>2 DEF CommandInv, RepliesAreTrue
    <3>3. ASSUME NEW k \in Goals, goalCmd[k] = c PROVE k = g
      BY <1>1, <3>1, <3>3, OneGoal
    <3>4. replied[c] \notin Results
      <4> SUFFICES ASSUME replied[c] \in Results PROVE FALSE
        OBVIOUS
      <4>1. PICK k \in Goals : goalCmd[k] = c /\ True(k, replied[c])
        BY <1>1, <3>1 DEF CommandInv, RepliesAreTrue
      <4>2. replied[c].how = "none"
        BY <3>1, <3>3, <4>1 DEF True, Result
      <4> QED
        BY <4>2 DEF Results, Outcomes
    <3>5. replied[c] # Posted
      BY <1>1, <2>2, <2>3, <3>1, <3>3 DEF LeaveInv, PostedAccepted
    <3> QED
      BY <1>1, <3>1, <3>2, <3>4, <3>5 DEF Typed, TypeOK
  <2> QED
    BY <2>2, <2>3
<1>2. Init => CloseInv /\ LeaveInv
  BY CloseInit, LeaveInit
<1>3. /\ Typed /\ CommandInv /\ CloseInv /\ LeaveInv /\ [Next]_vars
      => (CloseInv /\ LeaveInv)'
  BY CloseStep, LeaveStep
<1> QED
  BY <1>1, <1>2, <1>3, CommandsKept, PTL DEF Spec

---------------------------------------------------------------------------
(* The refinement: what the abstract state is *)

GoalStage(g) ==
  IF thread[g].pc = "running" THEN "running"
  ELSE IF thread[g].how = "none" THEN "sent" ELSE thread[g].how

StagesDescribed ==
  /\ \A g \in Goals : goalCmd[g] # 0 => StageOf(goalCmd[g]) = GoalStage(g)
  /\ \A c \in Commands :
       (\A g \in Goals : goalCmd[g] # c)
         => StageOf(c) = IF kind[c] = "none" THEN "unsent" ELSE "sent"
  /\ \A c \in Commands : StageOf(c) = "unsent" <=> kind[c] = "none"

RepliesDescribed ==
  \A c \in Commands : /\ ReplyTo(c) = replied[c].how
                      /\ ReplyTo(c) = "none" <=> replied[c] = Nothing

LEMMA StagesAre == Typed /\ CommandInv => StagesDescribed
<1> SUFFICES ASSUME Typed, CommandInv PROVE StagesDescribed
  OBVIOUS
<1>1. ASSUME NEW g \in Goals, goalCmd[g] # 0
      PROVE  /\ StageOf(goalCmd[g]) = GoalStage(g)
             /\ kind[goalCmd[g]] # "none" /\ GoalStage(g) # "unsent"
  <2> DEFINE c == goalCmd[g]
  <2>1. c \in Commands /\ \A h \in Goals : goalCmd[h] = c => h = g
    BY <1>1, OneGoal DEF Typed, TypeOK
  <2>2. kind[c] # "none"
    BY <2>1 DEF CommandInv, SentInOrder, OneGoalEach
  <2>3. thread[g].how \in Outcomes \cup {"none"}
    BY DEF Typed, TypeOK, ThreadStates
  <2>4. Executed(c) = IF thread[g].how = "none" THEN {} ELSE {g}
    BY <2>1 DEF Executed
  <2>5. (\E h \in Goals : goalCmd[h] = c /\ thread[h].pc = "running")
          <=> thread[g].pc = "running"
    BY <2>1
  <2>6. thread[g].how # "none" => (CHOOSE h \in Executed(c) : TRUE) = g
    BY <2>4
  <2> QED
    BY <2>2, <2>3, <2>4, <2>5, <2>6 DEF StageOf, GoalStage, Outcomes
<1>2. ASSUME NEW c \in Commands, \A g \in Goals : goalCmd[g] # c
      PROVE  StageOf(c) = IF kind[c] = "none" THEN "unsent" ELSE "sent"
  BY <1>2 DEF StageOf, Executed
<1>3. ASSUME NEW c \in Commands
      PROVE  StageOf(c) = "unsent" <=> kind[c] = "none"
  <2>1. CASE \A g \in Goals : goalCmd[g] # c
    BY <1>2, <2>1
  <2>2. CASE \E g \in Goals : goalCmd[g] = c
    BY <1>1, <2>2, GoalRange
  <2> QED
    BY <2>1, <2>2
<1> QED
  BY <1>1, <1>2, <1>3 DEF StagesDescribed

LEMMA RepliesAre == Typed /\ CommandInv => RepliesDescribed
<1> SUFFICES ASSUME Typed, CommandInv, NEW c \in Commands
             PROVE  /\ ReplyTo(c) = replied[c].how
                    /\ ReplyTo(c) = "none" <=> replied[c] = Nothing
  BY DEF RepliesDescribed
<1>1. replied[c] \in Results \cup {Nothing, Failure, Posted}
  BY DEF Typed, TypeOK
<1>2. CASE replied[c] \in Results
  <2>1. PICK g \in Goals : goalCmd[g] = c /\ True(g, replied[c])
    BY <1>2 DEF CommandInv, RepliesAreTrue
  <2>2. replied[c].cmd = c
    BY <2>1 DEF True, Result
  <2>3. replied[c].how # "none" /\ replied[c] # Nothing
    BY <1>2, ResultTypes DEF Results, Outcomes
  <2> QED
    BY <2>2, <2>3 DEF ReplyTo
<1>3. CASE replied[c] \in {Nothing, Failure, Posted}
  BY <1>3 DEF ReplyTo, Nothing, Failure, Posted, Result
<1> QED
  BY <1>1, <1>2, <1>3

\* Both descriptions hold before and after every step.
Described == StagesDescribed /\ RepliesDescribed
InStep == /\ Typed /\ CommandInv /\ Described
          /\ CommandInv' /\ Described'

LEMMA StagesKept ==
  ASSUME InStep, UNCHANGED <<kind, goalCmd, thread>>
  PROVE  Stages' = Stages
  BY DEF Stages, StageOf, Executed

LEMMA RepliesKept ==
  ASSUME replied' = replied
  PROVE  Replies' = Replies
  BY DEF Replies, ReplyTo

\* A step of one goal thread changes the stage of one command.
LEMMA OneStage ==
  ASSUME InStep, NEW g \in Goals, goalCmd[g] \in Commands,
         UNCHANGED <<kind, goalCmd>>,
         \A h \in Goals \ {g} : thread'[h] = thread[h]
  PROVE  /\ Stages' = [Stages EXCEPT ![goalCmd[g]] = GoalStage(g)']
         /\ Stages[goalCmd[g]] = GoalStage(g)
<1> DEFINE c == goalCmd[g]
<1>1. c # 0 /\ StageOf(c) = GoalStage(g)
  BY GoalRange DEF InStep, Described, StagesDescribed
<1>2. StageOf(c)' = GoalStage(g)'
  <2>1. goalCmd'[g] = c
    OBVIOUS
  <2>2. StageOf(goalCmd[g])' = GoalStage(g)'
    BY <1>1, <2>1 DEF InStep, Described, StagesDescribed
  <2> QED
    BY <2>1, <2>2
<1>3. ASSUME NEW d \in Commands, d # c PROVE StageOf(d)' = StageOf(d)
  <2>1. \A h \in Goals : goalCmd[h] = d => h # g
    BY <1>3
  <2>2. Executed(d)' = Executed(d)
    BY <2>1 DEF Executed
  <2>3. (\E h \in Goals : goalCmd[h] = d /\ thread[h].pc = "running")'
          <=> \E h \in Goals : goalCmd[h] = d /\ thread[h].pc = "running"
    BY <2>1
  <2>4. \A h \in Executed(d) : thread'[h] = thread[h]
    BY <2>1 DEF Executed
  <2>5. Executed(d) # {} => (CHOOSE h \in Executed(d) : TRUE) \in Executed(d)
    OBVIOUS
  <2> QED
    BY <2>2, <2>3, <2>4, <2>5 DEF StageOf
<1> QED
  BY <1>1, <1>2, <1>3 DEF Stages

---------------------------------------------------------------------------
(* The refinement: every step maps to a step or to none *)

Simulated == [Remote!Next]_<<Stages, Replies>>

\* The commands and outcomes of both modules are the same.
LEMMA SameData == /\ Remote!Commands = Commands
                  /\ Remote!Outcomes = Outcomes
  BY DEF Remote!Commands, Remote!Outcomes, Commands, Outcomes

LEMMA RemoteStep ==
  ASSUME NEW c \in Commands,
         \/ Remote!Send(c) \/ Remote!Start(c) \/ Remote!Finish(c)
         \/ Remote!Refuse(c) \/ Remote!Answer(c) \/ Remote!DoNotWait(c)
  PROVE  Simulated
  BY SameData DEF Simulated, Remote!Next

LEMMA NoStep ==
  ASSUME UNCHANGED <<Stages, Replies>> PROVE Simulated
  BY DEF Simulated

\* A caller that returns changes the reply to its command.
LEMMA OneReply ==
  ASSUME InStep, ~Idle, NEW r, Return(r),
         UNCHANGED <<kind, goalCmd, thread>>
  PROVE  \E c \in Commands :
           /\ c = caller.cmd
           /\ Stages' = Stages /\ Stages[c] # "unsent"
           /\ Replies[c] = "none"
           /\ Replies' = [Replies EXCEPT ![c] = r.how]
<1>1. PICK c \in Commands : c = caller.cmd
  BY DEF InStep, Typed, CallerInPlace
<1>2. replied'[c] = r /\ \A d \in Commands \ {c} : replied'[d] = replied[d]
  BY <1>1 DEF InStep, Typed, TypeOK, Return
<1>3. ReplyTo(c)' = r.how /\ \A d \in Commands \ {c} : ReplyTo(d)' = ReplyTo(d)
  <2>1. \A d \in Commands : /\ ReplyTo(d) = replied[d].how
                            /\ ReplyTo(d)' = replied'[d].how
    BY DEF InStep, Described, RepliesDescribed
  <2> QED
    BY <1>2, <2>1
<1>4. replied[c] = Nothing
  <2>1. ~Past(c)
    BY <1>1 DEF Past, Commands
  <2> QED
    BY <2>1 DEF InStep, CommandInv, RepliesAreTrue
<1>5. ReplyTo(c) = "none"
  BY <1>4 DEF InStep, Described, RepliesDescribed
<1>6. StageOf(c) # "unsent"
  <2>1. kind[c] # "none"
    BY <1>1 DEF InStep, CommandInv, SentInOrder, Commands
  <2> QED
    BY <2>1 DEF InStep, Described, StagesDescribed
<1>7. Replies' = [Replies EXCEPT ![c] = r.how]
  BY <1>3 DEF Replies
<1>8. Stages' = Stages
  BY StagesKept
<1> QED
  BY <1>1, <1>5, <1>6, <1>7, <1>8 DEF Stages, Replies

\* A caller that gives up does not wait any longer.
LEMMA GivesUp ==
  ASSUME InStep, ~Idle, NEW r \in {Failure, Posted}, Return(r),
         UNCHANGED <<kind, goalCmd, thread>>
  PROVE  Simulated
<1>1. PICK c \in Commands :
        /\ Stages' = Stages /\ Stages[c] # "unsent"
        /\ Replies[c] = "none"
        /\ Replies' = [Replies EXCEPT ![c] = r.how]
  BY OneReply
<1>2. r.how \in {"failed", "posted"}
  BY DEF Failure, Posted, Result
<1>3. Remote!DoNotWait(c)
  BY <1>1, <1>2 DEF Remote!DoNotWait
<1> QED
  BY <1>3, RemoteStep

LEMMA AgentSimulated ==
  ASSUME InStep,
         \/ SendGoal \/ CallTimeout \/ CmdTimeout \/ Caller \/ CloseClient
         \/ HandleResult \/ RunResultCallback \/ LoseResult
  PROVE  Simulated
<1>1. CASE SendGoal
  <2>1. PICK c \in Commands : c = caller.cmd + 1
    BY <1>1, ActionAssumption
       DEF SendGoal, InStep, Typed, TypeOK, CallerStates, Commands
  <2>2. PICK k \in Kinds : kind' = [kind EXCEPT ![c] = k]
    BY <1>1, <2>1 DEF SendGoal
  <2>3. /\ UNCHANGED <<replied, goalCmd, thread>> /\ caller.pc = "idle"
    BY <1>1 DEF SendGoal, goalVars
  <2>4. /\ k # "none" /\ kind'[c] = k
        /\ \A d \in Commands \ {c} : kind'[d] = kind[d]
    BY <2>2, ActionAssumption DEF InStep, Typed, TypeOK, AllKinds
  <2>5. kind[c] = "none"
    BY <2>1 DEF InStep, CommandInv, SentInOrder, Typed, TypeOK, CallerStates
  <2>6. \A g \in Goals : goalCmd[g] # c
    BY <2>1
       DEF InStep, CommandInv, OneGoalEach, Typed, TypeOK, CallerStates,
           Commands
  <2>7. StageOf(c) = "unsent" /\ StageOf(c)' = "sent"
    BY <2>3, <2>4, <2>5, <2>6 DEF InStep, Described, StagesDescribed
  <2>8. \A d \in Commands \ {c} : StageOf(d)' = StageOf(d)
    BY <2>3, <2>4 DEF StageOf, Executed
  <2>9. Stages' = [Stages EXCEPT ![c] = "sent"] /\ Stages[c] = "unsent"
    BY <2>7, <2>8 DEF Stages
  <2>10. ASSUME NEW d \in Commands, Stages[d] # "unsent"
         PROVE  Replies[d] # "none"
    <3>1. kind[d] # "none"
      BY <2>10 DEF Stages, InStep, Described, StagesDescribed
    <3>2. Past(d)
      BY <2>3, <3>1
         DEF InStep, CommandInv, SentInOrder, Past, Idle, Typed, TypeOK,
             CallerStates, Commands
    <3>3. replied[d] # Nothing
      BY <3>2 DEF InStep, CommandInv, RepliesAreTrue
    <3>4. ReplyTo(d) # "none"
      BY <3>3 DEF InStep, Described, RepliesDescribed
    <3> QED
      BY <3>4 DEF Replies
  <2>11. Replies' = Replies
    BY <2>3, RepliesKept
  <2>12. Remote!Send(c)
    BY <2>9, <2>10, <2>11, SameData DEF Remote!Send
  <2> QED
    BY <2>12, RemoteStep
<1>2. CASE CallTimeout \/ CmdTimeout
  BY <1>2, GivesUp DEF CallTimeout, CmdTimeout, goalVars, Idle
<1>3. CASE InitGoal
  <2>1. CASE Return(Posted)
    BY <1>3, <2>1, GivesUp DEF InitGoal, goalVars, Idle
  <2>2. CASE replied' = replied
    BY <1>3, <2>2, StagesKept, RepliesKept, NoStep DEF InitGoal, goalVars
  <2> QED
    BY <1>3, <2>1, <2>2 DEF InitGoal
<1>4. CASE CmdDone
  <2>1. /\ caller.pc = "wait" /\ caller.goal \in Goals
        /\ IsCmdDone(caller.goal) /\ Return(storage[caller.goal])
    BY <1>4 DEF CmdDone, InStep, Typed, CallerInPlace
  <2>2. PICK r \in Results : r = storage[caller.goal]
    BY <2>1 DEF IsCmdDone, InStep, Typed, TypeOK
  <2>3. PICK c \in Commands :
          /\ c = caller.cmd
          /\ Stages' = Stages /\ Stages[c] # "unsent"
          /\ Replies[c] = "none"
          /\ Replies' = [Replies EXCEPT ![c] = r.how]
    BY <1>4, <2>1, <2>2, OneReply DEF CmdDone, goalVars, Idle
  <2>4. PICK g \in Goals : goalCmd[g] = c /\ r.how = thread[g].how
    <3>1. goalCmd[caller.goal] = c
      BY <2>1, <2>3 DEF InStep, CommandInv, CallerHasItsGoal
    <3>2. True(caller.goal, r)
      BY <2>1, <2>2 DEF InStep, CommandInv, ResultsAreTrue
    <3> QED
      BY <2>1, <3>1, <3>2 DEF True, Result
  <2>5. Stages[c] = r.how /\ r.how \in Outcomes
    <3>1. r.how \in Outcomes /\ r.how # "none"
      BY DEF Results, Outcomes
    <3>2. thread[g].pc # "running"
      BY <2>4, <3>1 DEF InStep, Typed, ThreadInPlace, Before
    <3>3. StageOf(c) = GoalStage(g)
      BY <2>4, GoalRange DEF InStep, Described, StagesDescribed
    <3> QED
      BY <2>4, <3>1, <3>2, <3>3 DEF GoalStage, Stages
  <2>6. Remote!Answer(c)
    BY <2>3, <2>5, SameData DEF Remote!Answer
  <2> QED
    BY <2>6, RemoteStep
<1>5. CASE \/ RegisterCallbacks \/ DeliverPending \/ CloseClient
           \/ HandleResult \/ RunResultCallback \/ LoseResult
  <2>1. UNCHANGED <<kind, goalCmd, thread, replied>>
    BY <1>5
       DEF RegisterCallbacks, DeliverPending, CloseClient, HandleResult,
           RunResultCallback, LoseResult, clientVars, goalVars
  <2> QED
    BY <2>1, StagesKept, RepliesKept, NoStep
<1> QED
  BY <1>1, <1>2, <1>3, <1>4, <1>5 DEF Caller

\* A goal that is made of a request leaves the stage of its command alone.
LEMMA HandleGoalSimulated ==
  ASSUME InStep, HandleGoal
  PROVE  Simulated
<1>1. PICK n \in Goals : n = nextGoal
  BY DEF HandleGoal
<1>2. PICK b \in Commands : b = Head(inbox)
  BY DEF HandleGoal, InStep, Typed, TypeOK
<1>3. 1 \in DOMAIN inbox /\ inbox[1] = b
  BY <1>2 DEF HandleGoal, InStep, Typed, TypeOK
<1>4. /\ goalCmd'[n] = b
      /\ \A g \in Goals \ {n} : goalCmd'[g] = goalCmd[g]
  BY <1>1, <1>2 DEF HandleGoal, InStep, Typed, TypeOK
<1>5. /\ thread'[n].pc = "created" /\ thread'[n].how = thread[n].how
      /\ \A g \in Goals \ {n} : thread'[g] = thread[g]
  BY <1>1 DEF HandleGoal, InStep, Typed, TypeOK, ThreadStates
<1>6. thread[n].pc = "none" /\ thread[n].how = "none" /\ goalCmd[n] = 0
  BY <1>1 DEF InStep, Typed, FreshGoals, ThreadInPlace, Before, Goals, Commands
<1>7. kind' = kind /\ replied' = replied
  BY DEF HandleGoal, clientVars
<1>8. \A g \in Goals : goalCmd[g] # b
  BY <1>3 DEF InStep, CommandInv, OneGoalEach, Typed, TypeOK, Commands
<1>9. b # 0
  BY <1>2, GoalRange
<1>10. StageOf(b) = "sent"
  <2>1. kind[b] # "none"
    BY <1>3 DEF InStep, CommandInv, SentInOrder, OneGoalEach
  <2> QED
    BY <1>8, <2>1 DEF InStep, Described, StagesDescribed
<1>11. StageOf(b)' = "sent"
  <2>1. StageOf(goalCmd[n])' = GoalStage(n)'
    BY <1>4, <1>9 DEF InStep, Described, StagesDescribed
  <2>2. GoalStage(n)' = "sent"
    BY <1>5, <1>6 DEF GoalStage
  <2> QED
    BY <1>4, <2>1, <2>2
<1>12. ASSUME NEW d \in Commands, d # b PROVE StageOf(d)' = StageOf(d)
  <2>1. \A g \in Goals : goalCmd'[g] = d => g # n
    BY <1>4, <1>12
  <2>2. \A g \in Goals : goalCmd[g] = d => g # n
    BY <1>6, GoalRange
  <2>3. Executed(d)' = Executed(d)
    BY <1>4, <1>5, <2>1, <2>2 DEF Executed
  <2>4. (\E g \in Goals : goalCmd[g] = d /\ thread[g].pc = "running")'
          <=> \E g \in Goals : goalCmd[g] = d /\ thread[g].pc = "running"
    BY <1>4, <1>5, <2>1, <2>2
  <2>5. \A g \in Executed(d) : thread'[g] = thread[g]
    BY <1>5, <2>2 DEF Executed
  <2>6. Executed(d) # {} => (CHOOSE g \in Executed(d) : TRUE) \in Executed(d)
    OBVIOUS
  <2> QED
    BY <1>7, <2>3, <2>4, <2>5, <2>6 DEF StageOf
<1>13. Stages' = Stages
  BY <1>10, <1>11, <1>12 DEF Stages
<1> QED
  BY <1>7, <1>13, RepliesKept, NoStep

LEMMA ThreadSimulated ==
  ASSUME InStep, NEW g \in Goals, GoalThread(g)
  PROVE  Simulated
<1>1. PICK c \in Commands : c = goalCmd[g] /\ thread[g].pc # "none"
  BY DEF GoalThread, LookUpGoal, EnterCommand, StartCommand, RunShort,
         RunEstop, SleepOn, SendResult, PublishResult, CleanUpGoal,
         ForgetGoal, At, InStep, Typed, ThreadInPlace
<1>2. UNCHANGED <<kind, goalCmd, replied>>
  BY DEF GoalThread, LookUpGoal, EnterCommand, StartCommand, RunShort,
         RunEstop, SleepOn, SendResult, PublishResult, CleanUpGoal,
         ForgetGoal, clientVars, goalVars
<1>3. \A h \in Goals \ {g} : thread'[h] = thread[h]
  BY GoalThreadMoves DEF InStep
<1>4. /\ Stages' = [Stages EXCEPT ![c] = GoalStage(g)']
      /\ Stages[c] = GoalStage(g)
  BY <1>1, <1>2, <1>3, OneStage
<1>5. Replies' = Replies
  BY <1>2, RepliesKept
<1>6. CASE GoalStage(g)' = GoalStage(g)
  BY <1>4, <1>5, <1>6, NoStep DEF Stages
<1>7. /\ \A pc \in ThreadPcs :
           MoveTo(g, pc) => thread'[g].pc = pc /\ thread'[g].how = thread[g].how
      /\ \A how \in Outcomes :
           FinishAs(g, how) => thread'[g].pc = "finished" /\ thread'[g].how = how
  <2>1. thread \in [Goals -> ThreadStates]
    BY DEF InStep, Typed, TypeOK
  <2>2. ASSUME NEW pc \in ThreadPcs, MoveTo(g, pc)
        PROVE  thread'[g].pc = pc /\ thread'[g].how = thread[g].how
    BY <2>1, <2>2, Moved
  <2>3. ASSUME NEW how \in Outcomes, FinishAs(g, how)
        PROVE  thread'[g].pc = "finished" /\ thread'[g].how = how
    BY <2>1, <2>3, Finished
  <2> QED
    BY <2>2, <2>3
<1>8. thread[g].pc \in Before => thread[g].how = "none"
  BY DEF InStep, Typed, ThreadInPlace
<1>9. CASE LookUpGoal(g) \/ SendResult(g) \/ PublishResult(g) \/ CleanUpGoal(g)
  <2>1. \E pc \in ThreadPcs \ {"running"} : MoveTo(g, pc)
    <3>1. PICK pc \in {"entered", "done", "publishing", "cleanup"} :
                 MoveTo(g, pc)
      BY <1>9 DEF LookUpGoal, SendResult, PublishResult, CleanUpGoal, ForgetGoal
    <3>2. pc \in ThreadPcs \ {"running"}
      BY DEF ThreadPcs
    <3> QED
      BY <3>1, <3>2
  <2>2. thread[g].pc # "running"
    BY <1>9 DEF LookUpGoal, SendResult, PublishResult, CleanUpGoal, ForgetGoal,
                At
  <2> QED
    BY <1>6, <1>7, <2>1, <2>2 DEF GoalStage
<1>10. CASE EnterCommand(g)
  <2>1. GoalStage(g) = "sent"
    BY <1>8, <1>10 DEF EnterCommand, At, Before, GoalStage
  <2>2. CASE MoveTo(g, "waiting")
    BY <1>6, <1>7, <2>1, <2>2, <1>8, <1>10
       DEF EnterCommand, At, Before, GoalStage, ThreadPcs
  <2>3. CASE FinishAs(g, "unknown")
    <3>1. GoalStage(g)' = "unknown"
      BY <1>7, <2>3 DEF GoalStage, Outcomes
    <3>2. Remote!Refuse(c)
      BY <1>4, <1>5, <2>1, <3>1 DEF Remote!Refuse
    <3> QED
      BY <3>2, RemoteStep
  <2> QED
    BY <1>10, <2>2, <2>3 DEF EnterCommand
<1>11. CASE StartCommand(g)
  <2>1. GoalStage(g) = "sent"
    BY <1>8, <1>11 DEF StartCommand, At, Before, GoalStage
  <2>2. GoalStage(g)' = "running"
    BY <1>7, <1>11 DEF StartCommand, GoalStage, ThreadPcs
  <2>3. ASSUME NEW d \in Commands PROVE StageOf(d) # "running"
    <3>1. \A h \in Goals : GoalStage(h) # "running"
      BY <1>11
         DEF StartCommand, CommandLockFree, GoalStage, InStep, Typed, TypeOK,
             ThreadStates, Outcomes
    <3>2. CASE \E h \in Goals : goalCmd[h] = d
      BY <3>1, <3>2, GoalRange DEF InStep, Described, StagesDescribed
    <3>3. CASE \A h \in Goals : goalCmd[h] # d
      BY <3>3 DEF InStep, Described, StagesDescribed
    <3> QED
      BY <3>2, <3>3
  <2>4. Remote!Start(c)
    BY <1>4, <1>5, <2>1, <2>2, <2>3, SameData DEF Remote!Start, Stages
  <2> QED
    BY <2>4, RemoteStep
<1>12. CASE RunShort(g) \/ RunEstop(g) \/ SleepOn(g)
  <2>1. GoalStage(g) = "running"
    BY <1>12 DEF RunShort, RunEstop, SleepOn, At, GoalStage
  <2>2. CASE thread' = thread
    BY <1>6, <2>2 DEF GoalStage
  <2>3. ASSUME NEW how \in {"completed", "interrupted"}, FinishAs(g, how)
        PROVE  Simulated
    <3>1. GoalStage(g)' = how
      BY <1>7, <2>3 DEF GoalStage, Outcomes
    <3>2. Remote!Finish(c)
      BY <1>4, <1>5, <2>1, <3>1 DEF Remote!Finish
    <3> QED
      BY <3>2, RemoteStep
  <2> QED
    BY <1>12, <2>2, <2>3 DEF RunShort, RunEstop, SleepOn
<1> QED
  BY <1>9, <1>10, <1>11, <1>12 DEF GoalThread

LEMMA StepSimulated == InStep /\ [Next]_vars => Simulated
<1>1. ASSUME InStep, StoreThread \/ Terminate \/ Main \/ UNCHANGED vars
      PROVE  Simulated
  <2>1. UNCHANGED <<kind, goalCmd, thread, replied>>
    BY <1>1 DEF StoreThread, Terminate, Main, CloseActionServer, DestroyMaps,
                FinishClose, Exit, vars, clientVars, goalVars
  <2> QED
    BY <1>1, <2>1, StagesKept, RepliesKept, NoStep
<1> QED
  BY <1>1, AgentSimulated, HandleGoalSimulated, ThreadSimulated
     DEF Next, Service

LEMMA InitSimulated == Init => Remote!Init
<1> SUFFICES ASSUME Init PROVE Remote!Init
  OBVIOUS
<1>1. \A c \in Commands : StageOf(c) = "unsent"
  BY DEF Init, StageOf
<1>2. \A c \in Commands : ReplyTo(c) = "none"
  BY DEF Init, ReplyTo, Nothing, Result
<1> QED
  BY <1>1, <1>2, SameData DEF Remote!Init, Stages, Replies

\* Every behaviour of the agent, the topic and the subnode is one of
\* RemoteCommand: a command is executed at most once and one at a time, and a
\* caller gets the outcome of its own command, a failure or nothing.
THEOREM CommandsAreRemote == Spec => RemoteCommandSpec
<1>1. Typed /\ CommandInv => Described
  BY StagesAre, RepliesAre DEF Described
<1>2. Spec => [](Typed /\ CommandInv /\ Described)
  BY <1>1, CommandsKept, PTL
<1>3. /\ Typed /\ CommandInv /\ Described
      /\ (Typed /\ CommandInv /\ Described)'
      /\ [Next]_vars
      => [Remote!Next]_<<Stages, Replies>>
  BY StepSimulated DEF InStep, Simulated
<1> QED
  BY <1>2, <1>3, InitSimulated, PTL DEF Spec, RemoteCommandSpec, Remote!Spec
============================================================================
