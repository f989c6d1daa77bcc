--------------------------- MODULE ScriptRunProofs ---------------------------
(***************************************************************************)
(* Machine-checked proofs about what the page starts: ScriptRun, for every *)
(* length of a batch and every number of runs, dialogs, commands and       *)
(* faults, and Workflow, for every set of commands and every number of     *)
(* requests, refreshes and faults.  The two share no variable.             *)
(***************************************************************************)
EXTENDS ScriptRun, Workflow, TLAPS

---------------------------------------------------------------------------
(* The inductive invariant *)

\* The process of the executor is the one that the page waits for, and no script
\* lives without it.
OwnedProcess ==
  /\ Alive => executor.running
  /\ executor.running => page.running /\ ~page.starting

\* Which command processes a script has, by where it stands.  Only a command that
\* was under way when the script was interrupted is so during the clean-up.
ChildrenInPlace ==
  /\ script.phase \in {"run", "dialog", "command"} => children["cleanup"] = NoChild
  /\ script.phase = "stop_record" => children["cleanup"].cmd = "stop_record"
  /\ script.phase = "stop_device" => children["cleanup"].cmd = "stop_device"
  /\ script.phase \in {"stop_record", "stop_device"} /\ ~stray =>
       ~UnderWay("own")
  /\ script.phase = "ended" => \A r \in Roles : ~UnderWay(r)

\* Unless a command has been given up, the subnode has the goals of the command
\* processes that wait for their results, and none has failed.
GoalsOwned ==
  ~stray =>
    /\ \A cmd \in goals : \E r \in Roles :
         children[r].cmd = cmd /\ children[r].stage = "sent"
    /\ \A r \in Roles : children[r].stage # "failed"

\* The clean-up has stopped the recording, and nothing can start it again.
RecordingStopped ==
  /\ script.clean => script.phase \in {"stop_device", "ended"}
  /\ script.phase = "stop_record" /\ children["cleanup"].stage = "done" /\ ~stray
       => ~recording
  /\ script.clean /\ ~stray => ~recording

\* A question is on its way in one place only, and none has the number of one that
\* is still to be asked.
Once(id, s) == \A i, j \in DOMAIN s : s[i] = id /\ s[j] = id => i = j

Below(n, s) == \A i \in DOMAIN s : s[i] \in 1..n

QuestionOnce ==
  /\ \A s \in {out, dialogs, in} : Below(used.dialogs, s)
  /\ script.asks \in 0..used.dialogs
  /\ \A s \in {out, dialogs, in} : Once(script.asks, s)
  /\ Occurs(script.asks, out) =>
       ~Occurs(script.asks, dialogs) /\ ~Occurs(script.asks, in)
  /\ Occurs(script.asks, dialogs) => ~Occurs(script.asks, in)

ScriptInv ==
  /\ TypeOK /\ OwnedProcess /\ QuestionOnce /\ WaitsForItsAnswer
  /\ ChildrenInPlace /\ GoalsOwned /\ RecordingStopped

---------------------------------------------------------------------------
(* Type correctness *)

Pages == [running : BOOLEAN, pending : 0..Batch, starting : BOOLEAN]
Executors == [process : Nat, running : BOOLEAN, stopRequested : BOOLEAN]
Scripts == [phase : Phases, terminated : BOOLEAN, asks : Nat, clean : BOOLEAN]
Goals == {"start_record", "stop_record", "stop_device"}
UsedStates == [runs : 0..MaxRuns, dialogs : 0..MaxDialogs,
               commands : 0..MaxCommands, faults : 0..MaxFaults]

Typed ==
  /\ page \in Pages /\ executor \in Executors /\ timers \subseteq Nat
  /\ dialogs \in Seq(Nat) /\ out \in Seq(Nat) /\ in \in Seq(Nat)
  /\ script \in Scripts /\ children \in [Roles -> {NoChild} \cup Child]
  /\ goals \subseteq Goals /\ recording \in BOOLEAN /\ stray \in BOOLEAN
  /\ used \in UsedStates

LEMMA Types == TypeOK <=> Typed
  BY Zenon DEF TypeOK, Typed, Pages, Executors, Scripts, Goals, UsedStates

LEMMA TypesLater == TypeOK' <=> Typed'
  BY Zenon DEF TypeOK, Typed, Pages, Executors, Scripts, Goals, UsedStates

LEMMA ChildTypes ==
  /\ NoChild.cmd = "none" /\ NoChild.stage = "done"
  /\ \A c \in Child : c.cmd \in Goals /\ c.stage \in {"starting", "sent", "done", "failed"}
  /\ \A cmd \in Goals, stage \in {"starting", "sent", "done", "failed"} :
       [cmd |-> cmd, stage |-> stage] \in Child
  /\ Roles = {"own", "cleanup"} /\ "own" # "cleanup"
  BY DEF NoChild, Child, Goals, Roles

LEMMA CompletedTypes ==
  ASSUME NEW p \in Pages
  PROVE  /\ Completed(p) \in Pages /\ ~Completed(p).running
         /\ Completed(p).starting <=> p.pending > 0
<1>0. Batch \in Nat
  BY ScriptAssumption
<1>1. CASE p.pending > 0
  <2>1. /\ p.pending - 1 \in 0..Batch
        /\ Completed(p) = [p EXCEPT !.running = FALSE, !.pending = p.pending - 1,
                                    !.starting = TRUE]
    BY <1>0, <1>1 DEF Completed, Pages
  <2> QED
    BY <1>1, <2>1 DEF Pages
<1>2. CASE ~(p.pending > 0)
  BY <1>2 DEF Completed, Pages
<1> QED
  BY <1>1, <1>2

\* What is left when the script dies.
LEMMA AbandonTypes ==
  ASSUME Typed, Abandon
  PROVE  /\ children' = [r \in Roles |-> NoChild]
         /\ children' \in [Roles -> {NoChild} \cup Child]
         /\ stray' \in BOOLEAN /\ goals' \subseteq Goals
         /\ stray => stray'
         /\ ~stray' => goals' = goals /\ \A r \in Roles : ~UnderWay(r)
<1> DEFINE left == {r \in Roles : UnderWay(r)}
<1>1. PICK sent \in SUBSET {children[r].cmd : r \in left} :
        /\ goals' = goals \cup sent
        /\ stray' = (stray \/ left # {})
        /\ children' = [r \in Roles |-> NoChild]
  BY Zenon DEF Abandon, UnderWay
<1>2. \A r \in left : children[r].cmd \in Goals
  BY ChildTypes DEF Typed, UnderWay
<1>3. goals' \subseteq Goals
  BY <1>1, <1>2 DEF Typed
<1>4. ~stray' => left = {} /\ goals' = goals
  BY <1>1
<1>5. stray' \in BOOLEAN /\ (stray => stray')
  BY <1>1, Zenon
<1> QED
  BY <1>1, <1>3, <1>4, <1>5

\* A command process takes its place.
LEMMA SpawnTypes ==
  ASSUME Typed, NEW role \in Roles, NEW cmd \in Goals, Spawn(role, cmd)
  PROVE  /\ children' \in [Roles -> {NoChild} \cup Child]
         /\ children'[role].cmd = cmd /\ children'[role].stage = "starting"
         /\ \A r \in Roles : r # role => children'[r] = children[r]
  BY ChildTypes DEF Typed, Spawn

LEMMA StageTypes ==
  ASSUME Typed, NEW role \in Roles, UnderWay(role),
         NEW stage \in {"starting", "sent", "done", "failed"}, SetStage(role, stage)
  PROVE  /\ children' \in [Roles -> {NoChild} \cup Child]
         /\ children[role].cmd \in Goals
         /\ children'[role].cmd = children[role].cmd
         /\ children'[role].stage = stage
         /\ \A r \in Roles : r # role => children'[r] = children[r]
<1>1. children[role] \in Child
  BY ChildTypes DEF Typed, UnderWay
<1>2. [children[role] EXCEPT !.stage = stage] \in Child
  BY <1>1 DEF Child
<1>3. children' = [children EXCEPT ![role] = [children[role] EXCEPT !.stage = stage]]
  BY DEF SetStage
<1> QED
  BY <1>1, <1>2, <1>3, ChildTypes DEF Typed, Child

\* The subnode carries out a goal for the processes that have sent it.
LEMMA ExecuteTypes ==
  ASSUME Typed, ExecuteGoal
  PROVE  /\ children' \in [Roles -> {NoChild} \cup Child]
         /\ goals' \subseteq Goals /\ recording' \in BOOLEAN
         /\ \E cmd \in goals :
              /\ goals' = goals \ {cmd}
              /\ cmd = "stop_record" => ~recording'
              /\ cmd = "stop_device" => recording' = recording
              /\ \A r \in Roles :
                   IF children[r].cmd = cmd /\ children[r].stage = "sent"
                     THEN children'[r].cmd = cmd /\ children'[r].stage = "done"
                     ELSE children'[r] = children[r]
<1>1. PICK cmd \in goals :
        /\ goals' = goals \ {cmd}
        /\ recording' = CASE cmd = "start_record" -> TRUE
                          [] cmd = "stop_record" -> FALSE
                          [] OTHER -> recording
        /\ children' = [r \in Roles |->
             IF children[r].cmd = cmd /\ children[r].stage = "sent"
               THEN [children[r] EXCEPT !.stage = "done"] ELSE children[r]]
  BY DEF ExecuteGoal
<1>2. recording' \in BOOLEAN /\ (cmd = "stop_record" => ~recording')
      /\ (cmd = "stop_device" => recording' = recording)
  BY <1>1 DEF Typed
<1>3. ASSUME NEW r \in Roles, children[r].cmd = cmd, children[r].stage = "sent"
      PROVE  /\ [children[r] EXCEPT !.stage = "done"] \in Child
             /\ [children[r] EXCEPT !.stage = "done"].cmd = cmd
             /\ [children[r] EXCEPT !.stage = "done"].stage = "done"
  <2>1. children[r] \in Child
    BY <1>3, ChildTypes DEF Typed
  <2> QED
    BY <1>3, <2>1 DEF Child
<1>4. ASSUME NEW r \in Roles
      PROVE  /\ children'[r] \in {NoChild} \cup Child
             /\ IF children[r].cmd = cmd /\ children[r].stage = "sent"
                  THEN children'[r].cmd = cmd /\ children'[r].stage = "done"
                  ELSE children'[r] = children[r]
  <2>1. CASE children[r].cmd = cmd /\ children[r].stage = "sent"
    BY <1>1, <1>3, <2>1
  <2>2. CASE ~(children[r].cmd = cmd /\ children[r].stage = "sent")
    BY <1>1, <2>2 DEF Typed
  <2> QED
    BY <2>1, <2>2
<1>5. children' \in [Roles -> {NoChild} \cup Child]
  BY <1>1, <1>4
<1>6. goals' \subseteq Goals
  BY <1>1 DEF Typed
<1> QED
  BY <1>1, <1>2, <1>4, <1>5, <1>6

LEMMA CountTypes ==
  ASSUME Typed
  PROVE  /\ Fault => used' \in UsedStates
         /\ used.runs < MaxRuns /\ used' = [used EXCEPT !.runs = @ + 1]
              => used' \in UsedStates
         /\ used.dialogs < MaxDialogs /\ used' = [used EXCEPT !.dialogs = @ + 1]
              => used' \in UsedStates
         /\ used.commands < MaxCommands /\ used' = [used EXCEPT !.commands = @ + 1]
              => used' \in UsedStates
<1>1. used \in UsedStates /\ MaxRuns \in Nat /\ MaxDialogs \in Nat
      /\ MaxCommands \in Nat /\ MaxFaults \in Nat
  BY ScriptAssumption DEF Typed
<1>2. Fault => used' \in UsedStates
  <2>1. used.faults < MaxFaults => used.faults + 1 \in 0..MaxFaults
    BY <1>1 DEF UsedStates
  <2>2. Fault => used' = [used EXCEPT !.faults = used.faults + 1]
    BY <1>1 DEF Fault, UsedStates
  <2> QED
    BY <1>1, <2>1, <2>2 DEF Fault, UsedStates
<1>3. used.runs < MaxRuns /\ used' = [used EXCEPT !.runs = @ + 1]
        => used' \in UsedStates
  <2>1. used.runs < MaxRuns => used.runs + 1 \in 0..MaxRuns
    BY <1>1 DEF UsedStates
  <2> QED
    BY <1>1, <2>1 DEF UsedStates
<1>4. used.dialogs < MaxDialogs /\ used' = [used EXCEPT !.dialogs = @ + 1]
        => used' \in UsedStates
  <2>1. used.dialogs < MaxDialogs => used.dialogs + 1 \in 0..MaxDialogs
    BY <1>1 DEF UsedStates
  <2> QED
    BY <1>1, <2>1 DEF UsedStates
<1>5. used.commands < MaxCommands /\ used' = [used EXCEPT !.commands = @ + 1]
        => used' \in UsedStates
  <2>1. used.commands < MaxCommands => used.commands + 1 \in 0..MaxCommands
    BY <1>1 DEF UsedStates
  <2> QED
    BY <1>1, <2>1 DEF UsedStates
<1> QED
  BY <1>2, <1>3, <1>4, <1>5

LEMMA PageTypes ==
  ASSUME Typed, UserInterface \/ RunSelectedScript \/ StopScript \/ CloseDialog
  PROVE  Typed'
<1> USE DEF pipes
<1>0. page \in Pages /\ executor \in Executors /\ script \in Scripts
      /\ Batch \in Nat \ {0}
  BY ScriptAssumption DEF Typed
<1>1. CASE RunSelectedScript
  <2>0. Batch - 1 \in 0..Batch
    BY <1>0
  <2>1. page' \in Pages
    BY <1>0, <1>1, <2>0 DEF RunSelectedScript, Pages
  <2>2. used' \in UsedStates
    BY <1>1, CountTypes DEF RunSelectedScript
  <2> QED
    BY <1>1, <2>1, <2>2 DEF RunSelectedScript, Typed
<1>2. CASE StartProcess
  <2>1. page' \in Pages /\ executor' \in Executors
    <3>1. page' = [page EXCEPT !.running = TRUE, !.starting = FALSE]
      BY <1>2 DEF StartProcess
    <3>2. executor' = [process |-> executor.process + 1, running |-> TRUE,
                       stopRequested |-> FALSE]
      BY <1>2 DEF StartProcess
    <3>3. executor.process + 1 \in Nat
      BY <1>0 DEF Executors
    <3> QED
      BY <1>0, <3>1, <3>2, <3>3 DEF Pages, Executors
  <2>2. script' \in Scripts
    BY <1>2 DEF StartProcess, NoScript, Scripts, Phases
  <2>3. /\ children' \in [Roles -> {NoChild} \cup Child]
        /\ goals' \subseteq Goals /\ stray' \in BOOLEAN
    BY <1>2, AbandonTypes DEF StartProcess
  <2>4. out' \in Seq(Nat) /\ in' \in Seq(Nat)
    BY <1>2 DEF StartProcess
  <2> QED
    BY <1>2, <2>1, <2>2, <2>3, <2>4 DEF StartProcess, Typed
<1>3. CASE StartFails
  <2>1. page' \in Pages /\ executor' \in Executors /\ used' \in UsedStates
    BY <1>0, <1>3, CompletedTypes, CountTypes DEF StartFails, Executors
  <2> QED
    BY <1>3, <2>1 DEF StartFails, Typed
<1>4. CASE StopScript
  <2>1. page' \in Pages /\ executor' \in Executors /\ script' \in Scripts
        /\ timers' \subseteq Nat
    <3>1. page' = [page EXCEPT !.pending = 0] /\ 0 \in 0..Batch
      BY <1>0, <1>4 DEF StopScript
    <3>2. page' \in Pages
      BY <1>0, <3>1 DEF Pages
    <3>3. CASE UNCHANGED <<executor, timers, script>>
      BY <3>2, <3>3 DEF Typed
    <3>4. CASE /\ executor' = [executor EXCEPT !.stopRequested = TRUE]
               /\ timers' = timers \cup {executor.process}
               /\ script' = [script EXCEPT !.terminated = TRUE]
      BY <1>0, <3>2, <3>4 DEF Executors, Scripts, Typed
    <3> QED
      BY <1>4, <3>3, <3>4 DEF StopScript
  <2> QED
    BY <1>4, <2>1 DEF StopScript, Typed
<1>5. CASE KillTimer
  <2>1. timers' \subseteq Nat
    BY <1>5 DEF KillTimer, Typed
  <2>2. /\ script' \in Scripts /\ children' \in [Roles -> {NoChild} \cup Child]
        /\ goals' \subseteq Goals /\ stray' \in BOOLEAN
    <3>1. CASE UNCHANGED <<script, children, goals, stray>>
      BY <3>1 DEF Typed
    <3>2. CASE /\ script' = [script EXCEPT !.phase = "ended", !.clean = FALSE]
               /\ Abandon
      <4>1. script' \in Scripts
        BY <1>0, <3>2 DEF Scripts, Phases
      <4> QED
        BY <3>2, <4>1, AbandonTypes
    <3> QED
      BY <1>5, <3>1, <3>2 DEF KillTimer
  <2> QED
    BY <1>5, <2>1, <2>2 DEF KillTimer, Typed
<1>6. CASE OpenDialog
  <2>1. dialogs' \in Seq(Nat) /\ out' \in Seq(Nat)
    BY <1>6 DEF OpenDialog, Typed
  <2> QED
    BY <1>6, <2>1 DEF OpenDialog, Typed
<1>7. CASE CloseDialog
  <2>1. dialogs \in Seq(Nat) /\ in \in Seq(Nat) /\ dialogs # <<>>
    BY <1>7 DEF CloseDialog, Typed
  <2>2. Len(dialogs) \in Nat /\ Len(dialogs) > 0 /\ dialogs[Len(dialogs)] \in Nat
    BY <2>1
  <2>3. dialogs' \in Seq(Nat)
    BY <1>7, <2>1, <2>2 DEF CloseDialog
  <2>4. in' \in Seq(Nat)
    BY <1>7, <2>1, <2>2 DEF CloseDialog
  <2> QED
    BY <1>7, <2>3, <2>4 DEF CloseDialog, Typed
<1>8. CASE ProcessFinished
  <2>1. page' \in Pages /\ executor' \in Executors
    BY <1>0, <1>8, CompletedTypes DEF ProcessFinished, Executors
  <2> QED
    BY <1>8, <2>1 DEF ProcessFinished, Typed
<1> QED
  BY <1>1, <1>2, <1>3, <1>4, <1>5, <1>6, <1>7, <1>8 DEF UserInterface

LEMMA ScriptTypes ==
  ASSUME Typed, Script \/ AskDialog \/ GiveCommand \/ ScriptCrashes
  PROVE  Typed'
<1> USE DEF ui, pipes
<1>0. script \in Scripts
  BY DEF Typed
<1>1. CASE AskDialog
  <2>1. used.dialogs + 1 \in Nat
    BY ScriptAssumption DEF Typed, UsedStates
  <2>2. script' \in Scripts /\ out' \in Seq(Nat)
    <3>1. script' = [script EXCEPT !.phase = "dialog", !.asks = used.dialogs + 1]
      BY <1>1 DEF AskDialog
    <3>2. out' = Append(out, used.dialogs + 1) /\ out \in Seq(Nat)
      BY <1>1 DEF AskDialog, Typed
    <3>3. PICK id \in Nat : id = used.dialogs + 1
      BY <2>1
    <3>4. script' \in Scripts
      BY <1>0, <3>1, <3>3 DEF Scripts, Phases
    <3>5. out' \in Seq(Nat)
      BY <3>2, <3>3
    <3> QED
      BY <3>4, <3>5
  <2>3. used' \in UsedStates
    BY <1>1, CountTypes DEF AskDialog
  <2> QED
    BY <1>1, <2>2, <2>3 DEF AskDialog, Typed
<1>2. CASE ReadAnswer
  <2>1. in' \in Seq(Nat) /\ Head(in) \in Nat
    BY <1>2 DEF ReadAnswer, Typed
  <2>2. script' \in Scripts
    BY <1>0, <1>2, <2>1 DEF ReadAnswer, Scripts, Phases
  <2> QED
    BY <1>2, <2>1, <2>2 DEF ReadAnswer, Typed
<1>3. CASE GiveCommand
  <2>1. used' \in UsedStates
    BY <1>3, CountTypes DEF GiveCommand
  <2>2. children' \in [Roles -> {NoChild} \cup Child]
    BY <1>3, SpawnTypes, ChildTypes DEF GiveCommand, Goals
  <2>3. script' \in Scripts
    BY <1>0, <1>3 DEF GiveCommand, Scripts, Phases
  <2> QED
    BY <1>3, <2>1, <2>2, <2>3 DEF GiveCommand, Typed
<1>4. CASE CommandReturns
  <2>1. script' \in Scripts
    BY <1>0, <1>4 DEF CommandReturns, Scripts, Phases
  <2>2. children' \in [Roles -> {NoChild} \cup Child]
    BY <1>4 DEF CommandReturns, Typed
  <2> QED
    BY <1>4, <2>1, <2>2 DEF CommandReturns, Typed
<1>5. CASE ScriptEnds
  <2>1. script' \in Scripts
    BY <1>0, <1>5 DEF ScriptEnds, Scripts, Phases
  <2> QED
    BY <1>5, <2>1, AbandonTypes DEF ScriptEnds, Typed
<1>6. CASE ScriptCrashes
  <2>1. script' \in Scripts
    BY <1>0, <1>6 DEF ScriptCrashes, Scripts, Phases
  <2>2. used' \in UsedStates
    BY <1>6, CountTypes DEF ScriptCrashes
  <2> QED
    BY <1>6, <2>1, <2>2, AbandonTypes DEF ScriptCrashes, Typed
<1>7. CASE Interrupt
  <2>1. script' \in Scripts
    BY <1>0, <1>7 DEF Interrupt, Scripts, Phases
  <2>2. children' \in [Roles -> {NoChild} \cup Child]
    BY <1>7, SpawnTypes, ChildTypes DEF Interrupt, Goals
  <2>3. stray' \in BOOLEAN
    BY <1>7, Zenon DEF Interrupt, Typed
  <2> QED
    BY <1>7, <2>1, <2>2, <2>3 DEF Interrupt, Typed
<1>8. CASE CleanupGoesOn
  <2>1. script' \in Scripts
    <3>1. PICK c \in BOOLEAN : c = (children["cleanup"].stage = "done")
      OBVIOUS
    <3>2. script' = [script EXCEPT !.phase = "stop_device", !.clean = c]
      BY <1>8, <3>1 DEF CleanupGoesOn
    <3> QED
      BY <1>0, <3>2 DEF Scripts, Phases
  <2>2. children' \in [Roles -> {NoChild} \cup Child]
    BY <1>8, SpawnTypes, ChildTypes DEF CleanupGoesOn, Goals
  <2> QED
    BY <1>8, <2>1, <2>2 DEF CleanupGoesOn, Typed
<1>9. CASE CleanupEnds
  <2>1. script' \in Scripts
    BY <1>0, <1>9 DEF CleanupEnds, Scripts, Phases
  <2> QED
    BY <1>9, <2>1, AbandonTypes DEF CleanupEnds, Typed
<1> QED
  BY <1>1, <1>2, <1>3, <1>4, <1>5, <1>6, <1>7, <1>8, <1>9 DEF Script

LEMMA CommandTypes ==
  ASSUME Typed, Command \/ CommandFails
  PROVE  Typed'
<1> USE DEF ui, pipes
<1>1. CASE SendGoal
  <2>1. PICK role \in Roles :
          /\ children[role].stage = "starting"
          /\ SetStage(role, "sent")
          /\ goals' = goals \cup {children[role].cmd}
          /\ UNCHANGED <<ui, script, pipes, recording, stray, used>>
    BY <1>1 DEF SendGoal
  <2>2. /\ children' \in [Roles -> {NoChild} \cup Child]
        /\ children[role].cmd \in Goals
    BY <2>1, StageTypes DEF UnderWay
  <2> QED
    BY <2>1, <2>2 DEF Typed
<1>2. CASE ExecuteGoal
  <2>1. /\ children' \in [Roles -> {NoChild} \cup Child]
        /\ goals' \subseteq Goals /\ recording' \in BOOLEAN
    BY <1>2, ExecuteTypes
  <2> QED
    BY <1>2, <2>1 DEF ExecuteGoal, Typed
<1>3. CASE CommandFails
  <2>1. PICK role \in Roles :
          /\ UnderWay(role)
          /\ Fault
          /\ SetStage(role, "failed")
          /\ stray' = TRUE
          /\ UNCHANGED <<ui, script, pipes, goals, recording>>
    BY <1>3 DEF CommandFails
  <2>2. children' \in [Roles -> {NoChild} \cup Child]
    BY <2>1, StageTypes DEF UnderWay
  <2>3. used' \in UsedStates
    BY <2>1, CountTypes
  <2> QED
    BY <2>1, <2>2, <2>3 DEF Typed
<1> QED
  BY <1>1, <1>2, <1>3 DEF Command

LEMMA TypeStep == Typed /\ [Next]_vars => Typed'
<1> SUFFICES ASSUME Typed, [Next]_vars PROVE Typed'
  OBVIOUS
<1>1. CASE UNCHANGED vars
  BY <1>1 DEF vars, Typed
<1> QED
  BY <1>1, PageTypes, ScriptTypes, CommandTypes DEF Next

---------------------------------------------------------------------------
(* The processes *)

\* What the page and the executor do while the script does not begin or end.
LEMMA OwnedStep ==
  ASSUME ScriptInv, [Next]_vars
  PROVE  OwnedProcess'
<1> USE DEF ui, pipes
<1>0. /\ Typed /\ OwnedProcess /\ page \in Pages /\ executor \in Executors
      /\ script \in Scripts
  BY Types DEF ScriptInv, Typed
<1>1. CASE RunSelectedScript
  <2>1. page'.running = page.running
    BY <1>0, <1>1 DEF RunSelectedScript, Pages
  <2> QED
    BY <1>0, <1>1, <2>1 DEF RunSelectedScript, OwnedProcess, Alive
<1>2. CASE StartProcess
  <2>1. executor'.running /\ page'.running /\ ~page'.starting
    BY <1>0, <1>2 DEF StartProcess, Pages
  <2> QED
    BY <2>1 DEF OwnedProcess
<1>3. CASE StartFails
  <2>1. ~Alive /\ ~executor'.running /\ script' = script
    BY <1>0, <1>3 DEF StartFails, OwnedProcess
  <2> QED
    BY <2>1 DEF OwnedProcess, Alive
<1>4. CASE StopScript
  <2>1. /\ page'.running = page.running /\ page'.starting = page.starting
        /\ executor'.running = executor.running /\ script'.phase = script.phase
    BY <1>0, <1>4 DEF StopScript, Pages, Executors, Scripts
  <2> QED
    BY <1>0, <2>1 DEF OwnedProcess, Alive
<1>5. CASE KillTimer
  <2>1. UNCHANGED <<page, executor>> /\ (Alive' => Alive)
    BY <1>0, <1>5 DEF KillTimer, Alive, Scripts
  <2> QED
    BY <1>0, <2>1 DEF OwnedProcess
<1>6. CASE ProcessFinished
  <2>1. ~Alive /\ ~executor'.running /\ script' = script
    BY <1>0, <1>6 DEF ProcessFinished, Executors
  <2> QED
    BY <2>1 DEF OwnedProcess, Alive
<1>7. CASE OpenDialog \/ CloseDialog \/ UNCHANGED vars \/ Command \/ CommandFails
  <2>1. UNCHANGED <<page, executor, script>>
    BY <1>7
       DEF OpenDialog, CloseDialog, vars, Command, SendGoal, ExecuteGoal,
           CommandFails
  <2> QED
    BY <1>0, <2>1 DEF OwnedProcess, Alive
<1>8. CASE Script \/ AskDialog \/ GiveCommand \/ ScriptCrashes
  <2>1. UNCHANGED <<page, executor>> /\ Alive
    BY <1>8
       DEF Alive, Script, AskDialog, GiveCommand, ScriptCrashes, ReadAnswer,
           CommandReturns, ScriptEnds, Interrupt, CleanupGoesOn, CleanupEnds
  <2> QED
    BY <1>0, <2>1 DEF OwnedProcess
<1> QED
  BY <1>1, <1>2, <1>3, <1>4, <1>5, <1>6, <1>7, <1>8 DEF Next, UserInterface

---------------------------------------------------------------------------
(* The script and its command processes *)

\* A page that starts a process, answers and stops, leaves the commands alone.
LEMMA PageStep ==
  ASSUME ScriptInv,
         RunSelectedScript \/ StartFails \/ StopScript \/ OpenDialog
           \/ CloseDialog \/ ProcessFinished \/ UNCHANGED vars
  PROVE  ChildrenInPlace' /\ GoalsOwned' /\ RecordingStopped'
<1> USE DEF pipes
<1>0. /\ ChildrenInPlace /\ GoalsOwned /\ RecordingStopped
      /\ script \in Scripts
  BY Types DEF ScriptInv, Typed
<1>1. UNCHANGED <<children, goals, recording, stray>>
  BY DEF RunSelectedScript, StartFails, StopScript, OpenDialog, CloseDialog,
         ProcessFinished, vars
<1>2. /\ script'.phase = script.phase /\ script'.clean = script.clean
  <2>1. CASE StopScript
    BY <1>0, <2>1 DEF StopScript, Scripts
  <2>2. CASE ~StopScript
    BY <2>2 DEF RunSelectedScript, StartFails, OpenDialog, CloseDialog,
                ProcessFinished, vars
  <2> QED
    BY <2>1, <2>2
<1> QED
  BY <1>0, <1>1, <1>2
     DEF ChildrenInPlace, GoalsOwned, RecordingStopped, UnderWay

\* A script that has died leaves nothing to wait for.
LEMMA AfterAbandon ==
  ASSUME ScriptInv, Typed', Abandon, recording' = recording,
         ~script'.clean \/ (script'.clean = script.clean /\ script'.phase = "ended"),
         script'.phase \in {"run", "ended"}
  PROVE  ChildrenInPlace' /\ GoalsOwned' /\ RecordingStopped'
<1>1. /\ Typed /\ GoalsOwned /\ RecordingStopped
  BY Types DEF ScriptInv
<1>2. /\ \A r \in Roles : children'[r] = NoChild
      /\ stray => stray'
      /\ ~stray' => goals' = goals /\ \A r \in Roles : ~UnderWay(r)
  BY <1>1, AbandonTypes
<1>3. ~stray' => goals' = {}
  BY <1>1, <1>2 DEF GoalsOwned, UnderWay
<1>4. ChildrenInPlace'
  BY <1>2, ChildTypes DEF ChildrenInPlace, UnderWay
<1>5. GoalsOwned'
  BY <1>2, <1>3, ChildTypes DEF GoalsOwned
<1>6. RecordingStopped'
  BY <1>1, <1>2 DEF RecordingStopped
<1> QED
  BY <1>4, <1>5, <1>6

LEMMA ScriptStep ==
  ASSUME ScriptInv, [Next]_vars
  PROVE  ChildrenInPlace' /\ GoalsOwned' /\ RecordingStopped'
<1> USE DEF ui, pipes
<1>0. /\ Typed /\ OwnedProcess /\ ChildrenInPlace /\ GoalsOwned
      /\ RecordingStopped /\ script \in Scripts /\ Typed'
  BY Types, TypeStep DEF ScriptInv, Typed
<1>1. CASE StartProcess
  <2>1. Abandon /\ recording' = recording
    BY <1>1 DEF StartProcess
  <2>2. ~script'.clean /\ script'.phase = "run"
    BY <1>1 DEF StartProcess, NoScript
  <2> QED
    BY <1>0, <2>1, <2>2, AfterAbandon
<1>2. CASE KillTimer
  <2>1. CASE UNCHANGED <<script, children, goals, stray>>
    BY <1>0, <1>2, <2>1
       DEF KillTimer, ChildrenInPlace, GoalsOwned, RecordingStopped,
           UnderWay
  <2>2. CASE /\ script' = [script EXCEPT !.phase = "ended", !.clean = FALSE]
             /\ Abandon
    <3>1. /\ ~script'.clean /\ script'.phase = "ended"
          /\ recording' = recording
      BY <1>0, <1>2, <2>2 DEF KillTimer, Scripts
    <3> QED
      BY <1>0, <2>2, <3>1, AfterAbandon
  <2> QED
    BY <1>2, <2>1, <2>2 DEF KillTimer
<1>3. CASE ScriptEnds \/ ScriptCrashes \/ CleanupEnds
  <2>1. /\ Abandon /\ recording' = recording
        /\ script' = [script EXCEPT !.phase = "ended"]
    BY <1>3 DEF ScriptEnds, ScriptCrashes, CleanupEnds
  <2>2. /\ script'.clean = script.clean /\ script'.phase = "ended"
    BY <1>0, <2>1 DEF Scripts
  <2> QED
    BY <1>0, <2>1, <2>2, AfterAbandon
<1>4. CASE AskDialog \/ ReadAnswer
  <2>1. UNCHANGED <<children, goals, recording, stray>>
    BY <1>4 DEF AskDialog, ReadAnswer
  <2>2. /\ script.phase \in {"run", "dialog"}
        /\ script'.phase \in {"run", "dialog"}
        /\ script'.clean = script.clean
    <3>1. CASE AskDialog
      <4>1. PICK id : id = used.dialogs + 1
        OBVIOUS
      <4>2. /\ script.phase = "run"
            /\ script' = [script EXCEPT !.phase = "dialog", !.asks = id]
        BY <3>1, <4>1 DEF AskDialog
      <4> QED
        BY <1>0, <4>2 DEF Scripts
    <3>2. CASE ReadAnswer
      <4>1. /\ script.phase = "dialog"
            /\ \/ script' = script
               \/ script' = [script EXCEPT !.phase = "run"]
        BY <3>2 DEF ReadAnswer
      <4> QED
        BY <1>0, <4>1 DEF Scripts
    <3> QED
      BY <1>4, <3>1, <3>2
  <2> QED
    BY <1>0, <2>1, <2>2, ChildTypes
       DEF ChildrenInPlace, GoalsOwned, RecordingStopped, UnderWay
<1>5. CASE GiveCommand
  <2>1. PICK cmd \in {"start_record", "stop_record"} : Spawn("own", cmd)
    BY <1>5 DEF GiveCommand
  <2>2. cmd \in Goals /\ "own" \in Roles
    BY ChildTypes DEF Goals
  <2>3. /\ children'["own"].stage = "starting"
        /\ \A r \in Roles : r # "own" => children'[r] = children[r]
    BY <1>0, <2>1, <2>2, SpawnTypes
  <2>4. /\ script.phase = "run" /\ script'.phase \in {"run", "command"}
        /\ script'.clean = script.clean
        /\ UNCHANGED <<goals, recording, stray>>
    BY <1>0, <1>5 DEF GiveCommand, Scripts
  <2>5. \A r \in Roles : children[r] = NoChild
    BY <1>0, <1>5, <2>4, ChildTypes DEF GiveCommand, ChildrenInPlace
  <2>6. ~stray => goals = {}
    BY <1>0, <2>5, ChildTypes DEF GoalsOwned
  <2> QED
    BY <1>0, <2>3, <2>4, <2>5, <2>6, ChildTypes
       DEF ChildrenInPlace, GoalsOwned, RecordingStopped
<1>6. CASE CommandReturns
  <2>1. /\ script.phase \in {"run", "command"} /\ script'.phase = "run"
        /\ script'.clean = script.clean
        /\ UNCHANGED <<goals, recording, stray>>
        /\ children["own"].stage \in {"done", "failed"}
    BY <1>0, <1>6 DEF CommandReturns, Scripts, Over
  <2>2. children["cleanup"] = NoChild
    BY <1>0, <2>1 DEF ChildrenInPlace
  <2>3. \A r \in Roles : children'[r] = NoChild
    BY <1>0, <1>6, <2>2, ChildTypes DEF CommandReturns, Typed
  <2>4. ~stray => goals = {}
    BY <1>0, <2>1, <2>2, ChildTypes DEF GoalsOwned
  <2> QED
    BY <1>0, <2>1, <2>3, <2>4, ChildTypes
       DEF ChildrenInPlace, GoalsOwned, RecordingStopped
<1>7. CASE Interrupt
  <2>1. /\ "cleanup" \in Roles /\ "stop_record" \in Goals
        /\ Spawn("cleanup", "stop_record")
    BY <1>7, ChildTypes DEF Interrupt, Goals
  <2>2. /\ children'["cleanup"].cmd = "stop_record"
        /\ children'["cleanup"].stage = "starting"
        /\ \A r \in Roles : r # "cleanup" => children'[r] = children[r]
    BY <1>0, <2>1, SpawnTypes
  <2>3. /\ script.phase \in {"run", "dialog", "command"}
        /\ script'.phase = "stop_record" /\ script'.clean = script.clean
        /\ UNCHANGED <<goals, recording>>
        /\ ~stray' => ~stray /\ ~UnderWay("own")
    BY <1>0, <1>7 DEF Interrupt, Scripts
  <2>4. /\ children["cleanup"] = NoChild
        /\ ~stray' => goals = {} /\ children["own"].stage # "failed"
    BY <1>0, <2>3, ChildTypes DEF ChildrenInPlace, GoalsOwned, UnderWay
  <2> QED
    BY <1>0, <2>2, <2>3, <2>4, ChildTypes
       DEF ChildrenInPlace, GoalsOwned, RecordingStopped, UnderWay
<1>8. CASE CleanupGoesOn
  <2>1. /\ "cleanup" \in Roles /\ "stop_device" \in Goals
        /\ Spawn("cleanup", "stop_device")
    BY <1>8, ChildTypes DEF CleanupGoesOn, Goals
  <2>2. /\ children'["cleanup"].cmd = "stop_device"
        /\ children'["cleanup"].stage = "starting"
        /\ \A r \in Roles : r # "cleanup" => children'[r] = children[r]
    BY <1>0, <2>1, SpawnTypes
  <2>3. /\ script.phase = "stop_record" /\ script'.phase = "stop_device"
        /\ UNCHANGED <<goals, recording, stray>>
        /\ children["cleanup"].stage \in {"done", "failed"}
    BY <1>0, <1>8 DEF CleanupGoesOn, Scripts, Over
  <2>4. ~stray => /\ ~UnderWay("own") /\ goals = {}
                  /\ children["own"].stage # "failed"
                  /\ children["cleanup"].stage = "done" /\ ~recording
    BY <1>0, <2>3, ChildTypes
       DEF ChildrenInPlace, GoalsOwned, RecordingStopped, UnderWay
  <2> QED
    BY <1>0, <2>2, <2>3, <2>4, ChildTypes
       DEF ChildrenInPlace, GoalsOwned, RecordingStopped, UnderWay
<1>9. CASE SendGoal
  <2>1. PICK role \in Roles :
          /\ children[role].stage = "starting"
          /\ SetStage(role, "sent")
          /\ goals' = goals \cup {children[role].cmd}
          /\ UNCHANGED <<script, recording, stray>>
    BY <1>9 DEF SendGoal
  <2>2. /\ children'[role].cmd = children[role].cmd
        /\ children'[role].stage = "sent"
        /\ \A r \in Roles : r # role => children'[r] = children[r]
    BY <1>0, <2>1, StageTypes DEF UnderWay
  <2>3. children[role] # NoChild /\ UnderWay(role)
    BY <2>1, ChildTypes DEF UnderWay
  <2>4. ChildrenInPlace'
    BY <1>0, <2>1, <2>2, <2>3, ChildTypes DEF ChildrenInPlace, UnderWay
  <2>5. GoalsOwned'
    BY <1>0, <2>1, <2>2 DEF GoalsOwned
  <2>6. RecordingStopped'
    BY <1>0, <2>1, <2>2, ChildTypes DEF RecordingStopped
  <2> QED
    BY <2>4, <2>5, <2>6
<1>10. CASE ExecuteGoal
  <2>1. PICK cmd \in goals :
          /\ goals' = goals \ {cmd}
          /\ cmd = "stop_record" => ~recording'
          /\ cmd = "stop_device" => recording' = recording
          /\ \A r \in Roles :
               IF children[r].cmd = cmd /\ children[r].stage = "sent"
                 THEN children'[r].cmd = cmd /\ children'[r].stage = "done"
                 ELSE children'[r] = children[r]
    BY <1>0, <1>10, ExecuteTypes
  <2>2. UNCHANGED <<script, stray>>
    BY <1>10 DEF ExecuteGoal
  <2>3. ~stray => \E r \in Roles : children[r].cmd = cmd /\ children[r].stage = "sent"
    BY <1>0, <2>1 DEF GoalsOwned
  <2>4. ChildrenInPlace'
    BY <1>0, <2>1, <2>2, ChildTypes DEF ChildrenInPlace, UnderWay
  <2>5. GoalsOwned'
    BY <1>0, <2>1, <2>2 DEF GoalsOwned
  <2>6. RecordingStopped'
    <3>1. CASE stray
      BY <1>0, <2>2, <3>1 DEF RecordingStopped
    <3>2. CASE ~stray /\ script.phase \in {"stop_record", "stop_device"}
      <4>1. children["own"].stage # "sent"
        BY <1>0, <3>2, ChildTypes DEF ChildrenInPlace, UnderWay
      <4>2. children["cleanup"].cmd = cmd /\ children["cleanup"].stage = "sent"
        BY <2>3, <3>2, <4>1, ChildTypes
      <4> QED
        BY <1>0, <2>1, <2>2, <3>2, <4>2 DEF RecordingStopped, ChildrenInPlace
    <3>3. CASE ~stray /\ script.phase = "ended"
      BY <1>0, <2>3, <3>3 DEF ChildrenInPlace, UnderWay
    <3>4. CASE ~stray /\ script.phase \notin {"stop_record", "stop_device", "ended"}
      BY <1>0, <2>2, <3>4 DEF RecordingStopped
    <3> QED
      BY <3>1, <3>2, <3>3, <3>4
  <2> QED
    BY <2>4, <2>5, <2>6
<1>11. CASE CommandFails
  <2>1. PICK role \in Roles :
          /\ UnderWay(role) /\ SetStage(role, "failed")
          /\ stray' = TRUE
          /\ UNCHANGED <<script, goals, recording>>
    BY <1>11 DEF CommandFails, UnderWay
  <2>2. /\ children'[role].cmd = children[role].cmd
        /\ children'[role].stage = "failed"
        /\ \A r \in Roles : r # role => children'[r] = children[r]
    BY <1>0, <2>1, StageTypes
  <2>3. children[role] # NoChild
    BY <2>1, ChildTypes DEF UnderWay
  <2> QED
    BY <1>0, <2>1, <2>2, <2>3, ChildTypes
       DEF ChildrenInPlace, GoalsOwned, RecordingStopped, UnderWay
<1> QED
  BY <1>1, <1>2, <1>3, <1>4, <1>5, <1>6, <1>7, <1>8, <1>9, <1>10, <1>11, PageStep
     DEF Next, UserInterface, Script, Command

---------------------------------------------------------------------------
(* Questions and answers *)

\* A question or an answer comes into a sequence, or leaves it at one of its ends.
LEMMA Appended ==
  ASSUME NEW s \in Seq(Nat), NEW x \in Nat, NEW id, NEW n
  PROVE  /\ Append(s, x) \in Seq(Nat)
         /\ Occurs(id, Append(s, x)) <=> Occurs(id, s) \/ x = id
         /\ Once(id, s) /\ (x = id => ~Occurs(id, s)) => Once(id, Append(s, x))
         /\ Below(n, s) /\ x \in 1..n => Below(n, Append(s, x))
<1> DEFINE t == Append(s, x)
<1>1. /\ t \in Seq(Nat) /\ Len(t) = Len(s) + 1 /\ t[Len(t)] = x
      /\ \A i \in DOMAIN s : i \in DOMAIN t /\ t[i] = s[i]
      /\ \A i \in DOMAIN t : i \in DOMAIN s \/ i = Len(t)
      /\ Len(t) \in DOMAIN t
  OBVIOUS
<1> HIDE DEF t
<1>2. Occurs(id, t) <=> Occurs(id, s) \/ x = id
  BY <1>1 DEF Occurs
<1>3. Once(id, s) /\ (x = id => ~Occurs(id, s)) => Once(id, t)
  BY <1>1 DEF Once, Occurs
<1>4. Below(n, s) /\ x \in 1..n => Below(n, t)
  BY <1>1 DEF Below
<1> QED
  BY <1>1, <1>2, <1>3, <1>4 DEF t

LEMMA HeadTaken ==
  ASSUME NEW s \in Seq(Nat), s # <<>>, NEW id, NEW n
  PROVE  /\ Tail(s) \in Seq(Nat) /\ Head(s) \in Nat
         /\ Occurs(id, s) <=> Occurs(id, Tail(s)) \/ Head(s) = id
         /\ Once(id, s) => Once(id, Tail(s)) /\ (Head(s) = id => ~Occurs(id, Tail(s)))
         /\ Below(n, s) => Below(n, Tail(s)) /\ Head(s) \in 1..n
<1> DEFINE t == Tail(s)
<1>1. /\ t \in Seq(Nat) /\ Head(s) = s[1] /\ s[1] \in Nat /\ 1 \in DOMAIN s
      /\ \A i \in DOMAIN t : i \in Nat \ {0} /\ i + 1 \in DOMAIN s /\ t[i] = s[i + 1]
      /\ \A i \in DOMAIN s : i \in Nat /\ (i = 1 \/ i - 1 \in DOMAIN t)
  OBVIOUS
<1> HIDE DEF t
<1>2. Occurs(id, s) <=> Occurs(id, t) \/ s[1] = id
  <2>1. Occurs(id, t) \/ s[1] = id => Occurs(id, s)
    BY <1>1 DEF Occurs
  <2>2. ASSUME NEW i \in DOMAIN s, s[i] = id
        PROVE  Occurs(id, t) \/ s[1] = id
    <3>1. CASE i = 1
      BY <2>2, <3>1
    <3>2. CASE i # 1
      <4>1. i - 1 \in DOMAIN t /\ t[i - 1] = s[i]
        BY <1>1, <3>2
      <4> QED
        BY <2>2, <4>1 DEF Occurs
    <3> QED
      BY <3>1, <3>2
  <2> QED
    BY <2>1, <2>2 DEF Occurs
<1>3. Once(id, s) => Once(id, t) /\ (s[1] = id => ~Occurs(id, t))
  <2> SUFFICES ASSUME Once(id, s) PROVE Once(id, t) /\ (s[1] = id => ~Occurs(id, t))
    OBVIOUS
  <2>1. Once(id, t)
    BY <1>1 DEF Once
  <2>2. ASSUME s[1] = id, NEW i \in DOMAIN t, t[i] = id PROVE FALSE
    BY <1>1, <2>2 DEF Once
  <2> QED
    BY <2>1, <2>2 DEF Occurs
<1>4. Below(n, s) => Below(n, t) /\ s[1] \in 1..n
  BY <1>1 DEF Below
<1> QED
  BY <1>1, <1>2, <1>3, <1>4 DEF t

LEMMA LastTaken ==
  ASSUME NEW s \in Seq(Nat), s # <<>>, NEW id, NEW n
  PROVE  LET t == SubSeq(s, 1, Len(s) - 1)
             x == s[Len(s)]
         IN /\ t \in Seq(Nat) /\ x \in Nat
            /\ Occurs(id, s) <=> Occurs(id, t) \/ x = id
            /\ Once(id, s) => Once(id, t) /\ (x = id => ~Occurs(id, t))
            /\ Below(n, s) => Below(n, t) /\ x \in 1..n
<1> DEFINE t == SubSeq(s, 1, Len(s) - 1)
           x == s[Len(s)]
<1>1. /\ t \in Seq(Nat) /\ x \in Nat /\ Len(s) \in DOMAIN s /\ s[Len(s)] = x
      /\ \A i \in DOMAIN t : i \in DOMAIN s /\ i # Len(s) /\ t[i] = s[i]
      /\ \A i \in DOMAIN s : i = Len(s) \/ (i \in DOMAIN t /\ t[i] = s[i])
  OBVIOUS
<1> HIDE DEF t, x
<1>2. Occurs(id, s) <=> Occurs(id, t) \/ x = id
  BY <1>1 DEF Occurs
<1>3. Once(id, s) => Once(id, t) /\ (x = id => ~Occurs(id, t))
  BY <1>1 DEF Once, Occurs
<1>4. Below(n, s) => Below(n, t) /\ x \in 1..n
  BY <1>1 DEF Below
<1> QED
  BY <1>1, <1>2, <1>3, <1>4 DEF t, x

LEMMA AnswerStep ==
  ASSUME ScriptInv, [Next]_vars
  PROVE  QuestionOnce' /\ WaitsForItsAnswer'
<1> USE DEF ui, pipes
<1>0. /\ Typed /\ OwnedProcess /\ QuestionOnce /\ WaitsForItsAnswer
      /\ script \in Scripts /\ used \in UsedStates
      /\ out \in Seq(Nat) /\ dialogs \in Seq(Nat) /\ in \in Seq(Nat)
  BY Types DEF ScriptInv, Typed
<1> DEFINE n == used.dialogs
           id == script.asks
<1>numbers. n \in Nat /\ id \in Nat
  BY <1>0 DEF UsedStates, Scripts
<1>1. CASE StartProcess
  <2>1. /\ script'.asks = 0 /\ script'.phase = "run"
        /\ out' = <<>> /\ in' = <<>> /\ dialogs' = dialogs /\ used' = used
    BY <1>1 DEF StartProcess, NoScript
  <2>2. Below(n, dialogs) /\ ~Occurs(0, dialogs)
    BY <1>0, <1>numbers DEF QuestionOnce, Below, Occurs
  <2>3. \A k : ~Occurs(k, <<>>) /\ Once(k, <<>>) /\ Below(n, <<>>)
    BY DEF Occurs, Once, Below
  <2>4. Once(0, dialogs)
    BY <2>2 DEF Once, Occurs
  <2> QED
    BY <1>0, <1>numbers, <2>1, <2>2, <2>3, <2>4
       DEF QuestionOnce, WaitsForItsAnswer, OnItsWay
<1>2. CASE OpenDialog
  <2>1. /\ out # <<>> /\ out' = Tail(out) /\ dialogs' = Append(dialogs, Head(out))
        /\ UNCHANGED <<script, in, used>>
    BY <1>2 DEF OpenDialog
  <2>2. /\ Head(out) \in Nat
        /\ Occurs(id, out) <=> Occurs(id, out') \/ Head(out) = id
        /\ Once(id, out) => Once(id, out') /\ (Head(out) = id => ~Occurs(id, out'))
        /\ Below(n, out) => Below(n, out') /\ Head(out) \in 1..n
    BY <1>0, <2>1, HeadTaken
  <2>3. /\ Occurs(id, dialogs') <=> Occurs(id, dialogs) \/ Head(out) = id
        /\ Once(id, dialogs) /\ (Head(out) = id => ~Occurs(id, dialogs))
             => Once(id, dialogs')
        /\ Below(n, dialogs) /\ Head(out) \in 1..n => Below(n, dialogs')
    BY <1>0, <2>1, <2>2, Appended
  <2> QED
    BY <1>0, <2>1, <2>2, <2>3 DEF QuestionOnce, WaitsForItsAnswer, OnItsWay
<1>3. CASE CloseDialog
  <2> DEFINE x == dialogs[Len(dialogs)]
  <2>1. /\ dialogs # <<>> /\ dialogs' = SubSeq(dialogs, 1, Len(dialogs) - 1)
        /\ in' = IF executor.running THEN Append(in, x) ELSE in
        /\ UNCHANGED <<script, out, used>>
    BY <1>3 DEF CloseDialog
  <2>2. /\ x \in Nat
        /\ Occurs(id, dialogs) <=> Occurs(id, dialogs') \/ x = id
        /\ Once(id, dialogs) => Once(id, dialogs') /\ (x = id => ~Occurs(id, dialogs'))
        /\ Below(n, dialogs) => Below(n, dialogs') /\ x \in 1..n
    BY <1>0, <2>1, LastTaken, Zenon
  <2> HIDE DEF x
  <2>3. /\ Occurs(id, Append(in, x)) <=> Occurs(id, in) \/ x = id
        /\ Once(id, in) /\ (x = id => ~Occurs(id, in)) => Once(id, Append(in, x))
        /\ Below(n, in) /\ x \in 1..n => Below(n, Append(in, x))
    BY <1>0, <2>2, Appended
  <2>4. CASE executor.running
    BY <1>0, <2>1, <2>2, <2>3, <2>4 DEF QuestionOnce, WaitsForItsAnswer, OnItsWay
  <2>5. CASE ~executor.running
    <3>1. in' = in /\ script.phase = "ended"
      BY <1>0, <2>1, <2>5 DEF OwnedProcess, Alive
    <3> QED
      BY <1>0, <2>1, <2>2, <3>1 DEF QuestionOnce, WaitsForItsAnswer, OnItsWay
  <2> QED
    BY <2>4, <2>5
<1>4. CASE AskDialog
  <2>1. PICK k \in Nat : k = n + 1
    BY <1>numbers
  <2>2. /\ used' = [used EXCEPT !.dialogs = k]
        /\ script' = [script EXCEPT !.phase = "dialog", !.asks = k]
        /\ out' = Append(out, k) /\ UNCHANGED <<dialogs, in>>
    BY <1>4, <2>1 DEF AskDialog
  <2>3. used'.dialogs = k /\ script'.asks = k /\ script'.phase = "dialog"
    BY <1>0, <2>2 DEF UsedStates, Scripts
  <2>4. \A s \in {out, dialogs, in} : Below(k, s) /\ ~Occurs(k, s) /\ Once(k, s)
    BY <1>0, <1>numbers, <2>1 DEF QuestionOnce, Below, Occurs, Once
  <2>5. /\ Occurs(k, out') /\ Once(k, out') /\ Below(k, out')
    <3>1. k \in 1..k /\ Below(k, out) /\ ~Occurs(k, out) /\ Once(k, out)
      BY <1>numbers, <2>1, <2>4
    <3> QED
      BY <1>0, <2>2, <3>1, Appended
  <2> QED
    BY <2>1, <2>2, <2>3, <2>4, <2>5 DEF QuestionOnce, WaitsForItsAnswer, OnItsWay
<1>5. CASE ReadAnswer
  <2>1. /\ script.phase = "dialog" /\ in # <<>> /\ in' = Tail(in)
        /\ UNCHANGED <<out, dialogs, used>>
        /\ IF Head(in) = id THEN script' = [script EXCEPT !.phase = "run"]
                            ELSE script' = script
    BY <1>5 DEF ReadAnswer
  <2>2. /\ Occurs(id, in) <=> Occurs(id, in') \/ Head(in) = id
        /\ Once(id, in) => Once(id, in') /\ (Head(in) = id => ~Occurs(id, in'))
        /\ Below(n, in) => Below(n, in')
    BY <1>0, <2>1, HeadTaken
  <2>3. script'.asks = id
    BY <1>0, <2>1 DEF Scripts
  <2>4. CASE Head(in) = id
    <3>1. script'.phase = "run"
      BY <1>0, <2>1, <2>4 DEF Scripts
    <3> QED
      BY <1>0, <2>1, <2>2, <2>3, <2>4, <3>1 DEF QuestionOnce, WaitsForItsAnswer, OnItsWay
  <2>5. CASE Head(in) # id
    BY <1>0, <2>1, <2>2, <2>5 DEF QuestionOnce, WaitsForItsAnswer, OnItsWay
  <2> QED
    BY <2>4, <2>5
<1>fault. Fault => used'.dialogs = n
  BY <1>0 DEF Fault, UsedStates
<1>6. ASSUME UNCHANGED <<out, dialogs, in>>, used'.dialogs = n, script'.asks = id,
             script'.phase = "dialog" => script.phase = "dialog",
             script'.phase \in {"run", "command"} => script.phase \in {"run", "command"}
      PROVE  QuestionOnce' /\ WaitsForItsAnswer'
  BY <1>0, <1>6 DEF QuestionOnce, WaitsForItsAnswer, OnItsWay
<1>7. CASE \/ RunSelectedScript \/ StopScript \/ StartFails \/ ProcessFinished
           \/ GiveCommand \/ CommandReturns \/ UNCHANGED vars
  <2>1. UNCHANGED <<out, dialogs, in>>
    BY <1>7 DEF RunSelectedScript, StopScript, StartFails, ProcessFinished,
                GiveCommand, CommandReturns, vars
  <2>2. used'.dialogs = n
    BY <1>0, <1>7, <1>fault DEF RunSelectedScript, StopScript, StartFails, ProcessFinished,
                           GiveCommand, CommandReturns, vars, UsedStates
  <2>3. \/ script' = script
        \/ script' = [script EXCEPT !.terminated = TRUE]
        \/ /\ script.phase = "run"
           /\ script' = [script EXCEPT !.phase = "command"]
        \/ /\ script.phase \in {"run", "command"}
           /\ script' = [script EXCEPT !.phase = "run"]
    BY <1>7, Zenon DEF RunSelectedScript, StopScript, StartFails, ProcessFinished,
                       GiveCommand, CommandReturns, vars
  <2>4. /\ script'.asks = id
        /\ \/ script'.phase = script.phase
           \/ {script.phase, script'.phase} \subseteq {"run", "command"}
    BY <1>0, <2>3 DEF Scripts
  <2> QED
    BY <1>6, <2>1, <2>2, <2>4
<1>8. CASE \/ KillTimer \/ ScriptEnds \/ ScriptCrashes
           \/ Interrupt \/ CleanupGoesOn \/ CleanupEnds
  <2>1. UNCHANGED <<out, dialogs, in>>
    BY <1>8 DEF KillTimer, ScriptEnds, ScriptCrashes, Interrupt, CleanupGoesOn,
                CleanupEnds
  <2>2. used' = used \/ Fault
    BY <1>8, Zenon DEF KillTimer, ScriptEnds, ScriptCrashes, Interrupt, CleanupGoesOn,
                       CleanupEnds
  <2>3. \/ script' = script
        \/ script' = [script EXCEPT !.phase = "ended"]
        \/ script' = [script EXCEPT !.phase = "ended", !.clean = FALSE]
        \/ script' = [script EXCEPT !.phase = "stop_record"]
        \/ script' = [script EXCEPT !.phase = "stop_device",
                                    !.clean = children["cleanup"].stage = "done"]
    BY <1>8, Zenon DEF KillTimer, ScriptEnds, ScriptCrashes, Interrupt, CleanupGoesOn,
                       CleanupEnds
  <2>4. /\ script'.asks = id
        /\ script' = script \/ script'.phase \in {"ended", "stop_record", "stop_device"}
    BY <1>0, <2>3 DEF Scripts
  <2> QED
    BY <1>6, <1>fault, <2>1, <2>2, <2>4
<1>9. CASE SendGoal \/ ExecuteGoal \/ CommandFails
  <2>1. UNCHANGED <<out, dialogs, in, script>>
    BY <1>9 DEF SendGoal, ExecuteGoal, CommandFails
  <2>2. used'.dialogs = n
    BY <1>9, <1>fault DEF SendGoal, ExecuteGoal, CommandFails
  <2> QED
    BY <1>6, <2>1, <2>2
<1> QED
  BY <1>1, <1>2, <1>3, <1>4, <1>5, <1>7, <1>8, <1>9
     DEF Next, UserInterface, Script, Command

---------------------------------------------------------------------------
(* The theorems *)

LEMMA InitInv == Init => ScriptInv
<1> SUFFICES ASSUME Init PROVE ScriptInv
  OBVIOUS
<1> USE ScriptAssumption DEF Init
<1>1. Typed
  <2>1. page \in Pages /\ executor \in Executors /\ used \in UsedStates
    BY DEF Pages, Executors, UsedStates
  <2>2. script \in Scripts
    BY DEF NoScript, Scripts, Phases
  <2>3. recording \in BOOLEAN /\ stray \in BOOLEAN
    BY Zenon
  <2> QED
    BY <2>1, <2>2, <2>3 DEF Typed
<1>2. OwnedProcess /\ GoalsOwned /\ RecordingStopped
  BY ChildTypes
     DEF NoScript, OwnedProcess, Alive, GoalsOwned, RecordingStopped
<1>3. ChildrenInPlace
  BY ChildTypes DEF NoScript, ChildrenInPlace, UnderWay
<1>4. QuestionOnce /\ WaitsForItsAnswer
  BY DEF NoScript, QuestionOnce, WaitsForItsAnswer, OnItsWay, Occurs, Once, Below
<1> QED
  BY <1>1, <1>2, <1>3, <1>4, Types DEF ScriptInv

LEMMA InvHolds == Spec => []ScriptInv
<1>1. ScriptInv /\ [Next]_vars => ScriptInv'
  <2> SUFFICES ASSUME ScriptInv, [Next]_vars PROVE ScriptInv'
    OBVIOUS
  <2>1. TypeOK'
    BY Types, TypeStep, TypesLater DEF ScriptInv
  <2> QED
    BY <2>1, OwnedStep, ScriptStep, AnswerStep DEF ScriptInv
<1> QED
  BY <1>1, InitInv, PTL DEF Spec

\* Page, executor, script and command processes keep their types, whatever is
\* clicked, answered, killed or lost.
THEOREM TypeCorrect == Spec => []TypeOK
<1>1. ScriptInv => TypeOK
  BY DEF ScriptInv
<1> QED
  BY <1>1, InvHolds, PTL

\* handleDialogEvent and EventChannel.request: whatever dialogs are nested and
\* whichever process their answers are written to, a script waits exactly as long
\* as its own question or answer is on its way (script_executor.cpp,
\* run_recordlab_script.py).
THEOREM OwnAnswer == Spec => []WaitsForItsAnswer
<1>1. ScriptInv => WaitsForItsAnswer
  BY DEF ScriptInv
<1> QED
  BY <1>1, InvHolds, PTL

\* startProcess replaces the process of the executor, which would kill a script
\* that still cleans up; the page never starts one before the old one has ended
\* (script_executor.cpp, startProcess and onProcessFinished).
THEOREM OneScript == Spec => []OneScriptAtATime
<1>1. ScriptInv => OneScriptAtATime
  BY DEF ScriptInv, OwnedProcess, OneScriptAtATime
<1> QED
  BY <1>1, InvHolds, PTL

\* A script that has been stopped and has cleaned up leaves no recording behind,
\* wherever the signal met it, unless a command was given up before its result
\* (run_recordlab_script.py, shutdown_handler and stop_for_shutdown).
THEOREM StopLeavesNoRecording == Spec => []StopEndsRecording
<1>1. ScriptInv => StopEndsRecording
  BY DEF ScriptInv, RecordingStopped, StopEndsRecording
<1> QED
  BY <1>1, InvHolds, PTL

---------------------------------------------------------------------------
(* The one-click flow                                                      *)

\* The sets of Workflow's TypeOK, and TypeOK with names for them.
Flows == [state : State, active : BOOLEAN, dispatched : BOOLEAN,
          succeeded : BOOLEAN, seen : AgentStates, timer : BOOLEAN]
Systems == [connected : BOOLEAN, device : Device, watchdog : AgentStates,
            restore : BOOLEAN, job : {"none", "init_device", "start_device"}]
FlowUse == [requests : 0..MaxRequests, refreshes : 0..MaxRefreshes, faults : 0..MaxFlowFaults]

FlowTyped ==
  /\ flow \in Flows /\ pagePending \in BOOLEAN
  /\ commands \in Seq(Sent) /\ events \in Seq(Event)
  /\ system \in Systems /\ starts \in Nat /\ flowUsed \in FlowUse

LEMMA FlowAllTyped == FlowTyped <=> WorkflowTypeOK
  BY DEF FlowTyped, WorkflowTypeOK, Flows, Systems, FlowUse

\* A flow that has not sent its start has sent none.
StartInv ==
  /\ starts <= 1
  /\ flow.active /\ ~flow.dispatched => starts = 0

\* Events that take the success of a flow back, and those that may grant it.
Clears(e) ==
  \/ e.kind = "status" /\ e.state \in {"initializing", "disconnected"}
  \/ e.kind = "result" /\ e.cmd = "stop_device" /\ e.ok
Grants(e) ==
  e.kind = "result" /\ e.cmd = "start_device" /\ (e.ok \/ e.message = "already_started")
ClearedAfter(i, s) == \E j \in DOMAIN s : i < j /\ Clears(s[j])

\* What is shown, or will be, is taken back by the events that are queued.
Settles(succeeded, s) ==
  /\ succeeded => ClearedAfter(0, s)
  /\ \A i \in DOMAIN s : Grants(s[i]) => ClearedAfter(i, s)

\* The glasses of an agent under watch have not been started, or have been lost.
NotStarted(s) == Registered(s.watchdog) /\ s.device \notin {"started", "claimed"}

SuccessInv ==
  /\ \A i \in DOMAIN events :
       events[i].kind = "result" /\ events[i].message = "already_started"
         => events[i].cmd = "start_device"
  /\ NotStarted(system) => Settles(flow.succeeded, events)


\* The inductive invariant.
FlowInv == FlowTyped /\ StartInv /\ SuccessInv

---------------------------------------------------------------------------
LEMMA FlowUpdates ==
  ASSUME NEW f \in Flows, NEW state \in State
  PROVE  /\ Arm(f) \in Flows /\ CancelTimer(f) \in Flows
         /\ AbandonFlow(f) \in Flows /\ NotSucceeded(f) \in Flows
         /\ Dispatch(f) \in Flows /\ To(f, state) \in Flows
<1>1. Arm(f) \in Flows /\ CancelTimer(f) \in Flows
  BY DEF Flows, Arm, CancelTimer
<1>2. AbandonFlow(f) \in Flows /\ NotSucceeded(f) \in Flows
  BY DEF Flows, AbandonFlow, CancelTimer, NotSucceeded
<1>3. Dispatch(f) \in Flows
  BY DEF Flows, Dispatch, State
<1>4. To(f, state) \in Flows
  BY DEF Flows, To
<1> QED BY <1>1, <1>2, <1>3, <1>4

LEMMA AfterStatusType ==
  ASSUME NEW f \in Flows, NEW state \in AgentStates
  PROVE  AfterStatus(f, state) \in Flows
<1> DEFINE g == [f EXCEPT !.seen = state]
<1>1. g \in Flows  BY DEF Flows
<1> HIDE DEF g
<1>2. AfterHealthy(g) \in Flows
  BY <1>1, FlowUpdates DEF AfterHealthy, State
<1>3. AfterInitializing(g) \in Flows
  BY <1>1, FlowUpdates DEF AfterInitializing, State
<1>4. AfterDisconnected(g) \in Flows
  <2>1. NotSucceeded(g) \in Flows  BY <1>1, FlowUpdates DEF State
  <2>2. (IF g.state = "DeviceInitializing" THEN "WaitingWatchdog" ELSE g.state) \in State
    BY <1>1 DEF Flows, State
  <2>3. NotSucceeded(g).state = g.state  BY <1>1 DEF Flows, NotSucceeded
  <2> QED BY <1>1, <2>1, <2>2, <2>3, FlowUpdates DEF AfterDisconnected, State
<1> QED BY <1>1, <1>2, <1>3, <1>4 DEF AfterStatus, g

LEMMA AfterResultType ==
  ASSUME NEW f \in Flows, NEW r \in Event, r.kind = "result"
  PROVE  AfterResult(f, r) \in Flows
<1>1. r.ok \in BOOLEAN /\ r.background \in BOOLEAN /\ r.cmd \in Sent
  BY DEF Event
<1>2. AfterConnect(f, r.ok) \in Flows
  BY FlowUpdates DEF AfterConnect, State
<1>3. AfterStart(f) \in Flows
  <2>1. [f EXCEPT !.succeeded = @ \/ f.active] \in Flows  BY DEF Flows
  <2> QED BY <2>1, FlowUpdates DEF AfterStart, State
<1>4. AfterSuccess(f, r.cmd) \in Flows
  BY <1>3, FlowUpdates DEF AfterSuccess, State
<1>5. AfterFailure(f, r) \in Flows
  BY FlowUpdates DEF AfterFailure, State
<1>6. \A s \in {"EmergencyStop", "Failed"} : To(f, s) \in Flows /\ To(AbandonFlow(f), s) \in Flows
  BY FlowUpdates DEF State
<1> QED
  BY <1>2, <1>3, <1>4, <1>5, <1>6 DEF AfterResult

\* What an event does to the start of a flow.
StartsOnce(f, g) ==
  /\ g.active => f.active
  /\ g.active /\ ~g.dispatched => ~f.dispatched
  /\ g.state = "WaitingStartDeviceResponse" /\ f.state # g.state =>
       f.active /\ ~f.dispatched /\ g.dispatched

LEMMA AfterStatusStarts ==
  ASSUME NEW f \in Flows, NEW state \in AgentStates
  PROVE  /\ StartsOnce(f, AfterStatus(f, state))
         /\ AfterStatus(f, state).succeeded =>
              f.succeeded /\ state \notin {"initializing", "disconnected"}
<1> DEFINE g == [f EXCEPT !.seen = state]
<1>1. /\ g \in Flows /\ g.state = f.state /\ g.active = f.active /\ g.dispatched = f.dispatched
      /\ g.succeeded = f.succeeded
  BY DEF Flows
<1> HIDE DEF g
<1> USE DEF Arm, CancelTimer, AbandonFlow, NotSucceeded, Dispatch,
     To, Waits
<1>2. StartsOnce(g, AfterHealthy(g)) /\ AfterHealthy(g).succeeded = g.succeeded
  BY <1>1 DEF AfterHealthy, Flows, StartsOnce
<1>3. StartsOnce(g, AfterInitializing(g)) /\ ~AfterInitializing(g).succeeded
  BY <1>1 DEF AfterInitializing, Flows, StartsOnce
<1>4. StartsOnce(g, AfterDisconnected(g)) /\ ~AfterDisconnected(g).succeeded
  BY <1>1 DEF AfterDisconnected, Flows, StartsOnce
<1>5. StartsOnce(g, g)
  BY DEF StartsOnce
<1>6. AfterStatus(f, state) =
        CASE state = "healthy" -> AfterHealthy(g)
          [] state = "initializing" -> AfterInitializing(g)
          [] state = "disconnected" -> AfterDisconnected(g)
          [] OTHER -> g
  BY DEF AfterStatus, g
<1> QED BY <1>1, <1>2, <1>3, <1>4, <1>5, <1>6 DEF StartsOnce

LEMMA AfterResultStarts ==
  ASSUME NEW f \in Flows, NEW r \in Event, r.kind = "result",
         r.message = "already_started" => r.cmd = "start_device"
  PROVE  /\ StartsOnce(f, AfterResult(f, r))
         /\ AfterResult(f, r).succeeded => (f.succeeded \/ Grants(r)) /\ ~Clears(r)
<1>0. r.ok \in BOOLEAN /\ r.background \in BOOLEAN /\ r.cmd \in Sent
  BY DEF Event
<1> USE DEF Arm, CancelTimer, AbandonFlow, NotSucceeded, Dispatch,
     To, Waits
<1>1. StartsOnce(f, AfterConnect(f, r.ok)) /\ AfterConnect(f, r.ok).succeeded = f.succeeded
  BY <1>0 DEF AfterConnect, Flows, StartsOnce
<1>2. StartsOnce(f, AfterStart(f))
  BY <1>0 DEF AfterStart, Flows, StartsOnce
<1>3. /\ StartsOnce(f, AfterSuccess(f, r.cmd))
      /\ AfterSuccess(f, r.cmd).succeeded =>
           (f.succeeded \/ r.cmd = "start_device") /\ r.cmd # "stop_device"
  <2>1. CASE r.cmd = "start_device"  BY <1>2, <2>1 DEF AfterSuccess
  <2>2. CASE r.cmd # "start_device"  BY <2>2 DEF AfterSuccess, Flows, StartsOnce
  <2> QED BY <2>1, <2>2
<1>4. StartsOnce(f, AfterFailure(f, r)) /\ AfterFailure(f, r).succeeded = f.succeeded
  BY <1>0 DEF AfterFailure, Flows, StartsOnce
<1>5. CASE r.cmd \in Manager
  BY <1>1, <1>5 DEF AfterResult, Manager, Flows, StartsOnce, Clears
<1>6. CASE r.cmd \notin Manager
  <2>1. AfterResult(f, r) = IF r.message = "already_started" THEN AfterStart(f)
                ELSE IF r.ok THEN AfterSuccess(f, r.cmd) ELSE AfterFailure(f, r)
    BY <1>6 DEF AfterResult, Manager
  <2> QED BY <2>1, <1>0, <1>2, <1>3, <1>4 DEF Grants, Clears
<1> QED BY <1>5, <1>6

---------------------------------------------------------------------------
\* The items of a concatenation.
LEMMA ConcatItems ==
  ASSUME NEW s \in Seq(Event), NEW t \in Seq(Event)
  PROVE  /\ s \o t \in Seq(Event)
         /\ \A i \in DOMAIN (s \o t) :
              \/ i \in DOMAIN s /\ (s \o t)[i] = s[i]
              \/ \E j \in DOMAIN t : (s \o t)[i] = t[j]
         /\ \A i \in DOMAIN s : \E j \in DOMAIN (s \o t) : (s \o t)[j] = s[i]
         /\ \A i \in DOMAIN t : \E j \in DOMAIN (s \o t) : (s \o t)[j] = t[i]
<1>1. /\ DOMAIN s = 1..Len(s) /\ DOMAIN t = 1..Len(t) /\ DOMAIN (s \o t) = 1..(Len(s) + Len(t))
      /\ Len(s) \in Nat /\ Len(t) \in Nat
      /\ \A i \in 1..Len(s) : (s \o t)[i] = s[i]
      /\ \A i \in 1..Len(t) : (s \o t)[Len(s) + i] = t[i]
  OBVIOUS
<1>2. ASSUME NEW i \in 1..(Len(s) + Len(t)), i \notin 1..Len(s)
      PROVE  \E j \in DOMAIN t : (s \o t)[i] = t[j]
  <2>1. i - Len(s) \in 1..Len(t) /\ Len(s) + (i - Len(s)) = i  BY <1>1, <1>2
  <2> QED BY <1>1, <2>1
<1>3. ASSUME NEW i \in DOMAIN s PROVE \E j \in DOMAIN (s \o t) : (s \o t)[j] = s[i]
  <2>1. i \in DOMAIN (s \o t) /\ (s \o t)[i] = s[i]  BY <1>1
  <2> QED BY <2>1
<1>4. ASSUME NEW i \in DOMAIN t PROVE \E j \in DOMAIN (s \o t) : (s \o t)[j] = t[i]
  <2>1. Len(s) + i \in DOMAIN (s \o t) /\ (s \o t)[Len(s) + i] = t[i]  BY <1>1
  <2> QED BY <2>1
<1>5. s \o t \in Seq(Event)
  OBVIOUS
<1> QED BY <1>1, <1>2, <1>3, <1>4, <1>5

\* The queue of events
Ends(t) == \E i \in DOMAIN t : Clears(t[i])

LEMMA AppendSettles ==
  ASSUME NEW succeeded \in BOOLEAN, NEW s \in Seq(Event), NEW t \in Seq(Event),
         \A i \in DOMAIN t : ~Grants(t[i]),
         Settles(succeeded, s) \/ Ends(t)
  PROVE  Settles(succeeded, s \o t)
<1>1. /\ DOMAIN s = 1..Len(s) /\ DOMAIN t = 1..Len(t) /\ DOMAIN (s \o t) = 1..(Len(s) + Len(t))
      /\ Len(s) \in Nat /\ Len(t) \in Nat
      /\ \A i \in 1..Len(s) : (s \o t)[i] = s[i]
      /\ \A i \in 1..Len(t) : (s \o t)[Len(s) + i] = t[i]
  OBVIOUS
<1>2. \A i \in DOMAIN (s \o t) : Grants((s \o t)[i]) => i \in DOMAIN s /\ Grants(s[i])
  <2> SUFFICES ASSUME NEW i \in 1..(Len(s) + Len(t)), Grants((s \o t)[i])
               PROVE  i \in 1..Len(s) /\ Grants(s[i])
    BY <1>1
  <2>1. CASE i \in 1..Len(s)  BY <1>1, <2>1
  <2>2. CASE i \notin 1..Len(s)
    <3>1. i - Len(s) \in 1..Len(t) /\ Len(s) + (i - Len(s)) = i  BY <1>1, <2>2
    <3> QED BY <1>1, <3>1
  <2> QED BY <2>1, <2>2
<1>3. CASE Settles(succeeded, s)
  <2>1. ASSUME NEW i \in 0..Len(s), ClearedAfter(i, s) PROVE ClearedAfter(i, s \o t)
    <3>1. PICK j \in DOMAIN s : i < j /\ Clears(s[j])  BY <2>1 DEF ClearedAfter
    <3>2. j \in DOMAIN (s \o t) /\ (s \o t)[j] = s[j]  BY <1>1
    <3> QED BY <3>1, <3>2 DEF ClearedAfter
  <2> QED BY <1>1, <1>2, <1>3, <2>1 DEF Settles
<1>4. CASE Ends(t)
  <2>1. PICK j \in 1..Len(t) : Clears(t[j])  BY <1>1, <1>4 DEF Ends
  <2>2. Len(s) + j \in DOMAIN (s \o t) /\ Clears((s \o t)[Len(s) + j])  BY <1>1, <2>1
  <2>3. \A i \in 0..Len(s) : ClearedAfter(i, s \o t)
    <3> SUFFICES ASSUME NEW i \in 0..Len(s) PROVE i < Len(s) + j
      BY <2>2 DEF ClearedAfter
    <3> QED BY <1>1
  <2> QED BY <1>1, <1>2, <2>3 DEF Settles
<1> QED BY <1>3, <1>4

LEMMA ConcatAssociates ==
  ASSUME NEW r \in Seq(Event), NEW s \in Seq(Event), NEW t \in Seq(Event)
  PROVE  (r \o s) \o t = r \o (s \o t)
<1> DEFINE left == (r \o s) \o t
           right == r \o (s \o t)
<1>1. /\ Len(r) \in Nat /\ Len(s) \in Nat /\ Len(t) \in Nat
      /\ r \o s \in Seq(Event) /\ s \o t \in Seq(Event)
      /\ Len(r \o s) = Len(r) + Len(s) /\ Len(s \o t) = Len(s) + Len(t)
  OBVIOUS
<1>2. /\ left \in Seq(Event) /\ right \in Seq(Event)
      /\ Len(left) = Len(r) + Len(s) + Len(t) /\ Len(right) = Len(r) + Len(s) + Len(t)
  BY <1>1
<1>3. ASSUME NEW i \in 1..(Len(r) + Len(s) + Len(t)) PROVE left[i] = right[i]
  <2>1. CASE i \in 1..Len(r)  BY <1>1, <2>1
  <2>2. CASE i - Len(r) \in 1..Len(s)  BY <1>1, <2>2
  <2>3. CASE i - Len(r) - Len(s) \in 1..Len(t)  BY <1>1, <2>3
  <2> QED BY <1>1, <2>1, <2>2, <2>3
<1> HIDE DEF left, right
<1>4. left = right
  BY <1>2, <1>3
<1> QED BY <1>4 DEF left, right

LEMMA TailSettles ==
  ASSUME NEW s \in Seq(Event), s # <<>>, NEW before \in BOOLEAN, NEW after \in BOOLEAN,
         Settles(before, s), after => (before \/ Grants(Head(s))) /\ ~Clears(Head(s))
  PROVE  Settles(after, Tail(s))
<1>1. /\ Head(s) = s[1] /\ Len(s) \in Nat \ {0} /\ DOMAIN s = 1..Len(s)
      /\ DOMAIN Tail(s) = 1..(Len(s) - 1)
      /\ \A i \in 1..(Len(s) - 1) : Tail(s)[i] = s[i + 1]
  OBVIOUS
<1>2. ASSUME NEW i \in 1..Len(s), ClearedAfter(i, s) PROVE ClearedAfter(i - 1, Tail(s))
  <2>1. PICK j \in 1..Len(s) : i < j /\ Clears(s[j])  BY <1>1, <1>2 DEF ClearedAfter
  <2>2. j - 1 \in 1..(Len(s) - 1) /\ i - 1 < j - 1 /\ (j - 1) + 1 = j  BY <1>1, <2>1
  <2>3. j - 1 \in DOMAIN Tail(s) /\ Clears(Tail(s)[j - 1])  BY <1>1, <2>1, <2>2
  <2> QED BY <2>2, <2>3 DEF ClearedAfter
<1>3. after => ClearedAfter(0, Tail(s))
  <2> SUFFICES ASSUME after PROVE ClearedAfter(1, s)
    BY <1>1, <1>2
  <2>1. CASE Grants(s[1])  BY <1>1, <2>1 DEF Settles
  <2>2. CASE before
    <3>1. ClearedAfter(0, s)  BY <2>2 DEF Settles
    <3>3. PICK j \in 1..Len(s) : Clears(s[j])  BY <1>1, <3>1 DEF ClearedAfter
    <3>2. j # 1  BY <1>1, <3>3
    <3> QED BY <1>1, <3>3, <3>2 DEF ClearedAfter
  <2> QED BY <1>1, <2>1, <2>2
<1>4. ASSUME NEW i \in DOMAIN Tail(s), Grants(Tail(s)[i]) PROVE ClearedAfter(i, Tail(s))
  <2>1. i + 1 \in 1..Len(s) /\ Grants(s[i + 1]) /\ (i + 1) - 1 = i  BY <1>1, <1>4
  <2>2. ClearedAfter(i + 1, s)  BY <1>1, <2>1 DEF Settles
  <2> QED BY <1>2, <2>1, <2>2
<1> QED BY <1>3, <1>4 DEF Settles

\* The events of one step: typed, "already_started" only of a start.
Telling(t) ==
  /\ t \in Seq(Event)
  /\ \A i \in DOMAIN t : t[i].kind = "result" /\ t[i].message = "already_started"
                           => t[i].cmd = "start_device"

LEMMA TellingConcat ==
  ASSUME NEW s, NEW t, Telling(s), Telling(t)
  PROVE  Telling(s \o t)
<1>1. s \in Seq(Event) /\ t \in Seq(Event)
  BY DEF Telling
<1>2. s \o t \in Seq(Event)
  BY <1>1, ConcatItems
<1>3. ASSUME NEW i \in DOMAIN (s \o t), (s \o t)[i].kind = "result",
             (s \o t)[i].message = "already_started"
      PROVE  (s \o t)[i].cmd = "start_device"
  BY <1>1, <1>3, ConcatItems DEF Telling
<1> QED BY <1>2, <1>3 DEF Telling

\* Events that a start does not precede.
Quiet(t) == Telling(t) /\ \A i \in DOMAIN t : ~Grants(t[i])

LEMMA QuietConcat ==
  ASSUME NEW s, NEW t, Quiet(s), Quiet(t)
  PROVE  Quiet(s \o t) /\ (Ends(s) \/ Ends(t) => Ends(s \o t))
<1>1. s \in Seq(Event) /\ t \in Seq(Event)
  BY DEF Telling, Quiet
<1>2. \A i \in DOMAIN (s \o t) : ~Grants((s \o t)[i])
  BY <1>1, ConcatItems DEF Quiet
<1>3. ASSUME Ends(s) \/ Ends(t) PROVE Ends(s \o t)
  <2>1. CASE Ends(s)
    <3>1. PICK i \in DOMAIN s : Clears(s[i])  BY <2>1 DEF Ends
    <3>2. PICK j \in DOMAIN (s \o t) : (s \o t)[j] = s[i]  BY <1>1, ConcatItems
    <3> QED BY <3>1, <3>2 DEF Ends
  <2>2. CASE Ends(t)
    <3>1. PICK i \in DOMAIN t : Clears(t[i])  BY <2>2 DEF Ends
    <3>2. PICK j \in DOMAIN (s \o t) : (s \o t)[j] = t[i]  BY <1>1, ConcatItems
    <3> QED BY <3>1, <3>2 DEF Ends
  <2> QED BY <1>3, <2>1, <2>2
<1> QED BY <1>2, <1>3, TellingConcat DEF Quiet

LEMMA StatusQuiet ==
  ASSUME NEW s \in AgentStates
  PROVE  /\ Quiet(Status(s))
         /\ s \in {"initializing", "disconnected"} => Ends(Status(s))
<1> DEFINE e == [kind |-> "status", state |-> s]
<1>1. e \in Event /\ e.kind = "status"  BY DEF Event
<1>2. CASE Status(s) = <<>>
  BY <1>2 DEF Status, Registered, Quiet, Telling
<1>3. CASE Status(s) = <<e>>
  <2>1. /\ Status(s) \in Seq(Event) /\ DOMAIN Status(s) = {1} /\ Status(s)[1] = e
    BY <1>1, <1>3
  <2> QED BY <1>1, <2>1 DEF Quiet, Telling, Grants, Clears, Ends
<1> QED BY <1>2, <1>3 DEF Status

LEMMA ResultTells ==
  ASSUME NEW cmd \in Sent, NEW ok \in BOOLEAN, NEW background \in BOOLEAN,
         NEW message \in Messages,
         message = "already_started" => cmd = "start_device"
  PROVE  /\ Telling(Result(cmd, ok, background, message))
         /\ ~(cmd = "start_device" /\ (ok \/ message = "already_started"))
              => Quiet(Result(cmd, ok, background, message))
<1> DEFINE e == [kind |-> "result", cmd |-> cmd, ok |-> ok, background |-> background,
                 message |-> message]
<1>1. e \in Event  BY DEF Event, Messages
<1>2. /\ e.kind = "result" /\ e.cmd = cmd /\ e.ok = ok /\ e.message = message
  OBVIOUS
<1>3. Result(cmd, ok, background, message) = <<e>>
  BY DEF Result
<1> HIDE DEF e
<1>4. <<e>> \in Seq(Event) /\ DOMAIN <<e>> = {1} /\ <<e>>[1] = e
  BY <1>1
<1> QED BY <1>2, <1>3, <1>4 DEF Quiet, Telling, Grants

---------------------------------------------------------------------------
\* What a command does.

LEMMA MarkTypes ==
  ASSUME NEW s \in AgentStates, NEW ok \in BOOLEAN
  PROVE  /\ RegisterPrimaryAgent(s) \in AgentStates
         /\ MarkAgentInitializing(s) \in AgentStates
         /\ MarkAgentHealthy(s) \in AgentStates
         /\ MarkAgentDisconnected(s) \in AgentStates
         /\ AfterInitDevice(s, ok) \in AgentStates
         /\ AfterCheckSuccess(s) \in AgentStates
         /\ AfterCheckFailure(s) \in AgentStates
  BY DEF RegisterPrimaryAgent, MarkAgentInitializing, MarkAgentHealthy,
     MarkAgentDisconnected, MarkAgent, AfterInitDevice, AfterCheckSuccess,
     AfterCheckFailure, AgentStates

LEMMA NothingQuiet == Quiet(<<>>)
  BY DEF Quiet, Telling

\* The effect of a command on the system and on what is told of it.
EffectIsTold(cmd, ok, e) ==
  /\ e.system \in Systems /\ e.system.job = system.job
  /\ Quiet(e.events)
  /\ NotStarted(e.system) => NotStarted(system) \/ Ends(e.events)
  /\ cmd = "start_device" /\ ok /\ system.connected => ~NotStarted(e.system)

LEMMA EffectTold ==
  ASSUME FlowTyped, NEW cmd \in Sent, NEW ok \in BOOLEAN
  PROVE  EffectIsTold(cmd, ok, Effect(cmd, ok))
<1>0. system \in Systems /\ system.watchdog \in AgentStates
  BY DEF FlowTyped, Systems
<1>1. EffectIsTold(cmd, ok, Unchanged) \/ (cmd = "start_device" /\ ok /\ system.connected)
  BY <1>0, NothingQuiet DEF EffectIsTold, Unchanged
<1>2. EffectIsTold("INIT_AGENT", ok, Connect(ok))
  <2> DEFINE s == IF ok THEN RegisterPrimaryAgent(system.watchdog) ELSE system.watchdog
             e == Connect(ok)
  <2>1. s \in AgentStates  BY <1>0, MarkTypes
  <2>2. e.system = [system EXCEPT !.connected = @ \/ ok, !.watchdog = s, !.restore = @ \/ ok]
        /\ e.events = IF ok THEN Status(s) ELSE <<>>
    BY DEF Connect
  <2>3. e.system \in Systems /\ e.system.job = system.job
    BY <1>0, <2>1, <2>2 DEF Systems
  <2>4. Quiet(e.events)  BY <2>1, <2>2, StatusQuiet, NothingQuiet
  <2>5. ASSUME NotStarted(e.system), ~NotStarted(system) PROVE Ends(e.events)
    <3>1. ok /\ s = "disconnected"
      BY <1>0, <2>2, <2>5 DEF NotStarted, Systems, RegisterPrimaryAgent, Registered
    <3> QED BY <2>1, <2>2, <3>1, StatusQuiet
  <2> QED BY <2>3, <2>4, <2>5 DEF EffectIsTold
<1>3. EffectIsTold("stop", ok, StopAgents)
  <2> DEFINE e == StopAgents
             event == [kind |-> "status", state |-> "none"]
  <2>1. e.system = [system EXCEPT !.watchdog = "none", !.restore = FALSE]
        /\ e.events = IF Registered(system.watchdog) THEN <<event>> ELSE <<>>
    BY DEF StopAgents
  <2>2. e.system \in Systems /\ e.system.job = system.job /\ ~NotStarted(e.system)
    BY <1>0, <2>1 DEF Systems, AgentStates, NotStarted, Registered
  <2>3. Quiet(<<event>>)
    <3>1. event \in Event /\ event.kind = "status"  BY DEF Event, AgentStates
    <3> HIDE DEF event
    <3>2. <<event>> \in Seq(Event) /\ DOMAIN <<event>> = {1} /\ <<event>>[1] = event
      BY <3>1
    <3> QED BY <3>1, <3>2 DEF Quiet, Telling, Grants
  <2> QED BY <2>1, <2>2, <2>3, NothingQuiet DEF EffectIsTold
<1>4. EffectIsTold("init_device", ok, InitDevice(ok))
  <2> DEFINE s == AfterInitDevice(system.watchdog, ok)
             i == MarkAgentInitializing(system.watchdog)
             e == InitDevice(ok)
  <2>1. s \in AgentStates /\ i \in AgentStates  BY <1>0, MarkTypes
  <2>2. e.system = [system EXCEPT !.device = "stopped", !.watchdog = s]
        /\ e.events = Status(i) \o Status(s)
    BY DEF InitDevice
  <2>3. e.system \in Systems /\ e.system.job = system.job
    BY <1>0, <2>1, <2>2 DEF Systems, Device
  <2>4. Quiet(e.events) /\ (Ends(Status(i)) => Ends(e.events))
    BY <2>1, <2>2, StatusQuiet, QuietConcat
  <2>5. ASSUME NotStarted(e.system) PROVE Ends(e.events)
    <3>1. i = "initializing"
      BY <1>0, <2>2, <2>5 DEF NotStarted, Systems, AfterInitDevice, MarkAgent,
         MarkAgentInitializing, Registered
    <3> QED BY <2>1, <2>4, <3>1, StatusQuiet
  <2> QED BY <2>3, <2>4, <2>5 DEF EffectIsTold
<1>5. EffectIsTold("start_device", ok, StartDevice(ok))
  <2> DEFINE s == IF ok THEN MarkAgentHealthy(system.watchdog) ELSE system.watchdog
             device == CASE system.device = "lost" /\ ok -> "claimed"
                         [] system.device = "stopped" /\ ok -> "started"
                         [] OTHER -> system.device
             e == StartDevice(ok)
  <2>1. s \in AgentStates  BY <1>0, MarkTypes
  <2>2. e.system = [system EXCEPT !.device = device, !.watchdog = s, !.restore = @ \/ ok]
        /\ e.events = IF ok THEN Status(s) ELSE <<>>
    BY DEF StartDevice
  <2>3. /\ device \in Device /\ (ok => device \in {"started", "claimed"})
        /\ device \in {"stopped", "lost"} => device = system.device
    BY <1>0 DEF Systems, Device
  <2> HIDE DEF device
  <2>4. e.system \in Systems /\ e.system.job = system.job /\ e.system.device = device
        /\ e.system.watchdog = s
    BY <1>0, <2>1, <2>2, <2>3 DEF Systems
  <2>5. Quiet(e.events)  BY <2>1, <2>2, StatusQuiet, NothingQuiet
  <2>6. ASSUME NotStarted(e.system) PROVE NotStarted(system) /\ ~ok
    BY <1>0, <2>3, <2>4, <2>6 DEF NotStarted, Device
  <2> QED BY <2>4, <2>5, <2>6 DEF EffectIsTold
<1>6. EffectIsTold("stop_device", ok, StopDevice(ok))
  <2> DEFINE s == IF ok THEN MarkAgentDisconnected(system.watchdog) ELSE system.watchdog
             e == StopDevice(ok)
  <2>1. s \in AgentStates  BY <1>0, MarkTypes
  <2>2. e.system = [system EXCEPT !.device = IF ok THEN "stopped" ELSE @, !.watchdog = s,
                                  !.restore = @ /\ ~ok]
        /\ e.events = IF ok THEN Status(s) ELSE <<>>
    BY DEF StopDevice
  <2>3. e.system \in Systems /\ e.system.job = system.job
    BY <1>0, <2>1, <2>2 DEF Systems, Device
  <2>4. Quiet(e.events)  BY <2>1, <2>2, StatusQuiet, NothingQuiet
  <2>5. ASSUME NotStarted(e.system), ~NotStarted(system) PROVE Ends(e.events)
    <3>1. ok /\ s = "disconnected"
      BY <1>0, <2>2, <2>5 DEF NotStarted, Systems, MarkAgentDisconnected, MarkAgent,
         Registered
    <3> QED BY <2>1, <2>2, <3>1, StatusQuiet
  <2> QED BY <2>3, <2>4, <2>5 DEF EffectIsTold
<1>7. \/ Effect(cmd, ok) = Unchanged /\ (cmd = "start_device" => ~system.connected)
      \/ cmd = "INIT_AGENT" /\ Effect(cmd, ok) = Connect(ok)
      \/ cmd # "start_device" /\ Effect(cmd, ok) = StopAgents
      \/ cmd = "init_device" /\ Effect(cmd, ok) = InitDevice(ok)
      \/ cmd = "start_device" /\ Effect(cmd, ok) = StartDevice(ok)
      \/ cmd = "stop_device" /\ Effect(cmd, ok) = StopDevice(ok)
  BY DEF Effect, Manager
<1>8. CASE cmd # "start_device" /\ Effect(cmd, ok) = StopAgents
  BY <1>3, <1>8 DEF EffectIsTold
<1> QED BY <1>1, <1>2, <1>4, <1>5, <1>6, <1>7, <1>8

LEMMA FaultCount ==
  ASSUME FlowTyped, NEW failed \in BOOLEAN, CountFault(failed)
  PROVE  flowUsed' \in FlowUse
  BY WorkflowAssumption DEF FlowTyped, FlowUse, CountFault, WorkflowAssumption

\* A start is answered well only by an agent that is there.
LEMMA AnswersTell ==
  ASSUME FlowTyped, NEW cmd, NEW ok \in BOOLEAN, NEW message, Answers(cmd, ok, message)
  PROVE  /\ message = "already_started" => cmd = "start_device" /\ ok
         /\ cmd = "start_device" /\ ok => system.connected
         /\ flowUsed' \in FlowUse
<1> DEFINE here == cmd \in Manager \/ system.connected
<1>1. /\ ok => here
      /\ message = "already_started" => cmd = "start_device" /\ ok
      /\ CountFault(here /\ ~ok)
  BY DEF Answers
<1>2. (here /\ ~ok) \in BOOLEAN
  OBVIOUS
<1>3. flowUsed' \in FlowUse
  <2> HIDE DEF here
  <2> QED BY <1>1, <1>2, FaultCount
<1> QED BY <1>1, <1>3 DEF Manager

---------------------------------------------------------------------------
\* Every step keeps the invariant.

\* Requests of the user: no flow begins with its start sent, none succeeds.
LEMMA UserStep ==
  ASSUME FlowInv, User
  PROVE  FlowInv'
<1>0. FlowTyped /\ StartInv /\ SuccessInv
  BY DEF FlowInv
<1>1. /\ flow' \in Flows /\ (flow'.succeeded => flow.succeeded)
      /\ flow'.active /\ ~flow'.dispatched => starts' = 0
  <2> USE <1>0 DEF FlowTyped
  <2> USE FlowUpdates
  <2> DEFINE Good(f) == f \in Flows /\ (f.succeeded => flow.succeeded)
  <2>1. Good(AbandonFlow(flow)) /\ Good(NotSucceeded(AbandonFlow(flow)))
        /\ ~AbandonFlow(flow).active /\ ~NotSucceeded(AbandonFlow(flow)).active
    BY DEF Flows, AbandonFlow, NotSucceeded, CancelTimer
  <2>2. \A f \in Flows, state \in State :
          /\ Good(f) => Good(To(f, state))
          /\ To(f, state).active = f.active
    BY DEF Flows, To, State
  <2>3. \A cmd \in Sent : StateAfterRequest(cmd) \in State
    BY DEF Flows, StateAfterRequest, State
  <2>4. ASSUME NEW cmd \in Sent, ExecuteCommand(cmd)
        PROVE  Good(flow') /\ ~flow'.active
    BY <2>1, <2>2, <2>3, <2>4 DEF ExecuteCommand
  <2>5. CASE StartOneClick
    BY <2>5 DEF StartOneClick, Flows, CancelTimer, State
  <2>6. CASE RequestConnect
    BY <2>1, <2>2, <2>6 DEF RequestConnect, State
  <2>7. CASE RequestExecuteCommand
    BY <2>4, <2>7 DEF RequestExecuteCommand, Sent
  <2>8. CASE RequestResetWorkflow
    BY <2>1, <2>2, <2>8 DEF RequestResetWorkflow, State
  <2>9. CASE RequestStopAllAgents
    BY <2>1, <2>9 DEF RequestStopAllAgents
  <2>10. CASE RequestEmergencyStop
    BY <2>1, <2>2, <2>10 DEF RequestEmergencyStop, State
  <2>11. CASE RequestRuntimeState
    BY <2>4, <2>11 DEF RequestRuntimeState, Sent
  <2> QED BY <2>5, <2>6, <2>7, <2>8, <2>9, <2>10, <2>11 DEF User
<1>2. UNCHANGED <<events, system>> /\ starts' \in {0, starts} /\ pagePending' \in BOOLEAN
  BY <1>0 DEF User, StartOneClick, RequestConnect, RequestExecuteCommand,
     RequestResetWorkflow, RequestStopAllAgents, RequestEmergencyStop,
     RequestRuntimeState, FlowTyped
<1>3. commands' \in Seq(Sent)
  <2>1. \A cmd \in Sent : Append(commands, cmd) \in Seq(Sent)
    BY <1>0 DEF FlowTyped
  <2>2. Commands \subseteq Sent /\ Refresh \in Sent
        /\ Manager \subseteq Sent
    BY DEF Sent
  <2>3. "INIT_AGENT" \in Sent /\ "STOP_ALL_AGENTS" \in Sent
        /\ "EMERGENCY_STOP" \in Sent
    BY DEF Sent, Manager
  <2> QED BY <1>0, <2>1, <2>2, <2>3 DEF User, StartOneClick, RequestConnect,
     RequestExecuteCommand, RequestResetWorkflow, RequestStopAllAgents,
     RequestEmergencyStop, RequestRuntimeState, ExecuteCommand, FlowTyped
<1>4. flowUsed' \in FlowUse
  <2>1. CASE CountRequest
    BY <1>0, <2>1, WorkflowAssumption DEF CountRequest, FlowTyped, FlowUse, WorkflowAssumption
  <2>2. CASE RequestRuntimeState
    BY <1>0, <2>2, WorkflowAssumption
       DEF RequestRuntimeState, FlowTyped, FlowUse, WorkflowAssumption
  <2> QED BY <2>1, <2>2 DEF User, StartOneClick, RequestConnect, RequestExecuteCommand,
     RequestResetWorkflow, RequestStopAllAgents, RequestEmergencyStop
<1>5. FlowTyped'
  BY <1>0, <1>1, <1>2, <1>3, <1>4 DEF FlowTyped
<1>6. StartInv'
  BY <1>0, <1>1, <1>2 DEF StartInv, FlowTyped
<1>7. SuccessInv'
  BY <1>0, <1>1, <1>2 DEF SuccessInv, NotStarted, Settles, ClearedAfter, FlowTyped, Flows
<1> QED BY <1>5, <1>6, <1>7 DEF FlowInv

LEMMA EventStep ==
  ASSUME FlowInv, HandleEvent
  PROVE  FlowInv'
<1> DEFINE e == Head(events)
           g == IF e.kind = "status" THEN AfterStatus(flow, e.state)
                                     ELSE AfterResult(flow, e)
           sends == Dispatches(g)
           refreshes == Refreshes(e) /\ g.seen # "none"
<1>0. FlowTyped /\ StartInv /\ SuccessInv
  BY DEF FlowInv
<1>1. events # <<>> /\ events' = Tail(events) /\ UNCHANGED <<system, flowUsed>>
  BY DEF HandleEvent
<1>2. events \in Seq(Event) /\ e \in Event /\ events[1] = e /\ 1 \in DOMAIN events
      /\ Tail(events) \in Seq(Event)
  BY <1>0, <1>1 DEF FlowTyped
<1>3. /\ flow' = IF refreshes THEN AbandonFlow(g) ELSE g
      /\ commands' = commands \o (IF sends THEN <<"start_device">> ELSE <<>>)
                              \o (IF refreshes THEN <<Refresh>> ELSE <<>>)
      /\ starts' = IF sends THEN starts + 1 ELSE starts
      /\ pagePending' = (refreshes \/ (pagePending /\ ~(e.kind = "result" /\ e.cmd = Refresh)))
  BY DEF HandleEvent
<1>4. e.kind \in {"status", "result"} /\ (e.kind = "status" => e.state \in AgentStates)
  BY <1>2 DEF Event
<1>5. e.kind = "result" /\ e.message = "already_started" => e.cmd = "start_device"
  BY <1>0, <1>2 DEF SuccessInv
<1> HIDE DEF e
<1>6. g \in Flows /\ StartsOnce(flow, g)
      /\ (g.succeeded => (flow.succeeded \/ Grants(e)) /\ ~Clears(e))
  <2>1. flow \in Flows  BY <1>0 DEF FlowTyped
  <2>2. CASE e.kind = "status"
    BY <1>4, <2>1, <2>2, AfterStatusType, AfterStatusStarts DEF Clears
  <2>3. CASE e.kind = "result"
    BY <1>2, <1>5, <2>1, <2>3, AfterResultType, AfterResultStarts
  <2> QED BY <1>4, <2>2, <2>3
<1> HIDE DEF g
<1>7. flow' \in Flows /\ (flow'.succeeded = g.succeeded)
      /\ (flow'.active => g.active /\ flow'.dispatched = g.dispatched)
  <2>1. AbandonFlow(g) \in Flows /\ AbandonFlow(g).succeeded = g.succeeded
        /\ ~AbandonFlow(g).active
    BY <1>6 DEF Flows, AbandonFlow, CancelTimer
  <2> QED BY <1>3, <1>6, <2>1
<1>8. sends => flow.active /\ ~flow.dispatched /\ g.dispatched
  BY <1>6 DEF StartsOnce, Dispatches
<1>9. sends \in BOOLEAN /\ refreshes \in BOOLEAN
  BY DEF Dispatches, Refreshes
<1>10. FlowTyped'
  <2>1. commands' \in Seq(Sent)
    <3>1. <<"start_device">> \in Seq(Sent) /\ <<Refresh>> \in Seq(Sent)
          /\ <<>> \in Seq(Sent)
      BY DEF Sent
    <3> HIDE DEF sends, refreshes
    <3> QED BY <1>0, <1>3, <3>1 DEF FlowTyped
  <2>2. starts' \in Nat /\ pagePending' \in BOOLEAN
    BY <1>0, <1>3, <1>9 DEF FlowTyped
  <2> QED BY <1>0, <1>1, <1>2, <1>7, <2>1, <2>2 DEF FlowTyped
<1>11. StartInv'
  <2> HIDE DEF sends, refreshes
  <2> QED BY <1>0, <1>3, <1>6, <1>7, <1>8 DEF StartInv, StartsOnce, FlowTyped
<1>12. SuccessInv'
  <2>1. \A i \in DOMAIN Tail(events) : \E j \in DOMAIN events : Tail(events)[i] = events[j]
    <3>1. ASSUME NEW i \in DOMAIN Tail(events)
          PROVE  i + 1 \in DOMAIN events /\ Tail(events)[i] = events[i + 1]
      BY <1>1, <1>2
    <3> QED BY <3>1
  <2>2. ASSUME NotStarted(system) PROVE Settles(flow'.succeeded, Tail(events))
    <3>1. Settles(flow.succeeded, events)  BY <1>0, <2>2 DEF SuccessInv
    <3>2. flow.succeeded \in BOOLEAN /\ flow'.succeeded \in BOOLEAN
      BY <1>0, <1>7 DEF FlowTyped, Flows
    <3>3. flow'.succeeded => (flow.succeeded \/ Grants(Head(events))) /\ ~Clears(Head(events))
      BY <1>6, <1>7 DEF e
    <3> QED BY <1>1, <1>2, <3>1, <3>2, <3>3, TailSettles
  <2>3. ASSUME NEW i \in DOMAIN Tail(events), Tail(events)[i].kind = "result",
               Tail(events)[i].message = "already_started"
        PROVE  Tail(events)[i].cmd = "start_device"
    BY <1>0, <2>1, <2>3 DEF SuccessInv
  <2> QED BY <1>1, <2>2, <2>3 DEF SuccessInv
<1> QED BY <1>10, <1>11, <1>12 DEF FlowInv

LEMMA TimeoutStep ==
  ASSUME FlowInv, WatchdogWaitTimeout
  PROVE  FlowInv'
<1>0. FlowTyped /\ StartInv /\ SuccessInv
  BY DEF FlowInv
<1>1. /\ flow' \in Flows /\ flow'.succeeded = flow.succeeded
      /\ flow'.active => flow.active /\ flow'.dispatched = flow.dispatched
  BY <1>0 DEF WatchdogWaitTimeout, FlowTyped, Flows, To, AbandonFlow,
     CancelTimer, State
<1>2. UNCHANGED <<pagePending, commands, events, system, starts, flowUsed>>
  BY DEF WatchdogWaitTimeout
<1> QED BY <1>0, <1>1, <1>2 DEF FlowInv, FlowTyped, StartInv, SuccessInv, NotStarted, Settles,
     ClearedAfter

\* A step of worker or watchdog that adds events t.
LEMMA SystemStep ==
  ASSUME FlowInv, NEW t, events' = events \o t, Telling(t),
         UNCHANGED <<flow, pagePending, starts>>,
         commands' \in Seq(Sent), system' \in Systems, flowUsed' \in FlowUse,
         NotStarted(system') => Quiet(t) /\ (NotStarted(system) \/ Ends(t))
  PROVE  FlowInv'
<1>0. FlowTyped /\ StartInv /\ SuccessInv
  BY DEF FlowInv
<1>1. events \in Seq(Event) /\ t \in Seq(Event)
  BY <1>0 DEF FlowTyped, Telling
<1>2. FlowTyped'
  BY <1>0, <1>1 DEF FlowTyped
<1>3. StartInv'
  BY <1>0 DEF StartInv
<1>4. Telling(events \o t)
  <2>1. Telling(events)  BY <1>0, <1>1 DEF Telling, SuccessInv
  <2> QED BY <2>1, TellingConcat
<1>5. NotStarted(system') => Settles(flow.succeeded, events \o t)
  <2> SUFFICES ASSUME NotStarted(system') PROVE Settles(flow.succeeded, events \o t)
    OBVIOUS
  <2>1. \A i \in DOMAIN t : ~Grants(t[i])  BY DEF Quiet
  <2>2. flow.succeeded \in BOOLEAN  BY <1>0 DEF FlowTyped, Flows
  <2>3. Settles(flow.succeeded, events) \/ Ends(t)  BY <1>0 DEF SuccessInv
  <2> QED BY <1>1, <2>1, <2>2, <2>3, AppendSettles
<1>6. SuccessInv'
  BY <1>4, <1>5 DEF SuccessInv, Telling
<1> QED BY <1>2, <1>3, <1>6 DEF FlowInv

LEMMA NormalStep ==
  ASSUME FlowInv, WorkerTakeNormal
  PROVE  FlowInv'
<1>0. FlowTyped
  BY DEF FlowInv
<1> DEFINE cmd == Head(commands)
<1>11. /\ commands # <<>> /\ commands' = Tail(commands)
      /\ Process(cmd, FALSE) /\ UNCHANGED <<flow, pagePending, starts>>
  BY DEF WorkerTakeNormal
<1>1. cmd \in Sent /\ commands' \in Seq(Sent)
  BY <1>0, <1>11 DEF FlowTyped
<1> HIDE DEF cmd
<1>2. PICK ok \in BOOLEAN, message \in Messages :
        LET effect == Effect(cmd, ok)
        IN /\ Answers(cmd, ok, message)
           /\ system' = [effect.system EXCEPT !.job = "none"]
           /\ events' = events \o effect.events \o Result(cmd, ok, FALSE, message)
  BY <1>11 DEF Process
<1> DEFINE effect == Effect(cmd, ok)
           result == Result(cmd, ok, FALSE, message)
           t == effect.events \o result
<1>3. EffectIsTold(cmd, ok, effect)
  BY <1>0, <1>1, EffectTold
<1> HIDE DEF effect
<1>4. /\ message = "already_started" => cmd = "start_device" /\ ok
      /\ cmd = "start_device" /\ ok => system.connected
  BY <1>0, <1>2, AnswersTell
<1>5. Telling(result) /\ (~(cmd = "start_device" /\ ok) => Quiet(result))
  BY <1>1, <1>4, ResultTells
<1>6. system' \in Systems /\ NotStarted(system') = NotStarted(effect.system)
  BY <1>2, <1>3 DEF EffectIsTold, Systems, NotStarted, effect
<1>7. flowUsed' \in FlowUse
  BY <1>0, <1>2, AnswersTell
<1>8. events' = events \o t
  <2>1. /\ events \in Seq(Event) /\ effect.events \in Seq(Event)
        /\ result \in Seq(Event)
    BY <1>0, <1>3, <1>5 DEF FlowTyped, EffectIsTold, Quiet, Telling
  <2>2. events' = (events \o effect.events) \o result
    BY <1>2 DEF effect
  <2> HIDE DEF result
  <2> QED BY <2>1, <2>2, ConcatAssociates
<1> HIDE DEF result
<1>9. Telling(t)
  BY <1>3, <1>5, TellingConcat DEF EffectIsTold, Quiet
<1>10. NotStarted(system') => Quiet(t) /\ (NotStarted(system) \/ Ends(t))
  BY <1>3, <1>4, <1>5, <1>6, QuietConcat DEF EffectIsTold
<1> QED BY <1>11, <1>1, <1>6, <1>7, <1>8, <1>9, <1>10, SystemStep

LEMMA UrgentStep ==
  ASSUME FlowInv, WorkerTakeUrgent
  PROVE  FlowInv'
<1>0. FlowTyped
  BY DEF FlowInv
<1> DEFINE cmd == system.job
<1>1. cmd \in {"init_device", "start_device"} /\ cmd \in Sent
  <2>1. system.job # "none"
    BY DEF WorkerTakeUrgent
  <2>2. system.job \in {"none", "init_device", "start_device"}
    BY <1>0 DEF FlowTyped, Systems
  <2> QED BY <2>1, <2>2 DEF Sent
<1>2. PICK ok \in BOOLEAN, message \in Messages :
       LET effect == Effect(system.job, ok)
           s == effect.system
           goesOn == system.job = "init_device" /\ ok /\ s.restore
           done == AfterInitDevice(s.watchdog, ok)
       IN /\ Answers(system.job, ok, message)
          /\ system' = IF goesOn THEN [s EXCEPT !.job = "start_device"]
                       ELSE [s EXCEPT !.job = "none", !.watchdog = done]
          /\ events' = events \o effect.events \o Result(system.job, ok, TRUE, message)
               \o (IF goesOn THEN <<>> ELSE Status(done))
  BY DEF WorkerTakeUrgent
<1> DEFINE effect == Effect(cmd, ok)
           s == effect.system
           goesOn == cmd = "init_device" /\ ok /\ s.restore
           done == AfterInitDevice(s.watchdog, ok)
           result == Result(cmd, ok, TRUE, message)
           last == IF goesOn THEN <<>> ELSE Status(done)
           t == (effect.events \o result) \o last
<1>3. EffectIsTold(cmd, ok, effect)
  BY <1>0, <1>1, EffectTold
<1>4. /\ cmd = "start_device" /\ ok => system.connected
      /\ message = "already_started" => cmd = "start_device" /\ ok
      /\ flowUsed' \in FlowUse
      /\ system' = IF goesOn THEN [s EXCEPT !.job = "start_device"]
                   ELSE [s EXCEPT !.job = "none", !.watchdog = done]
      /\ events' = events \o effect.events \o result \o last
  BY <1>0, <1>2, AnswersTell
<1> HIDE DEF effect
<1>5. Telling(result) /\ (~(cmd = "start_device" /\ ok) => Quiet(result))
  <2> HIDE DEF cmd
  <2> QED BY <1>1, <1>4, ResultTells
<1>6. s \in Systems /\ s.watchdog \in AgentStates /\ done \in AgentStates
  BY <1>3, MarkTypes DEF EffectIsTold, Systems
<1>7. /\ system' \in Systems
      /\ NotStarted(system') = NotStarted(s)
  <2>1. Registered(done) = Registered(s.watchdog)
    BY DEF AfterInitDevice, MarkAgent, Registered
  <2> HIDE DEF s, done, goesOn
  <2> QED BY <1>4, <1>6, <2>1 DEF Systems, NotStarted
<1>8. flowUsed' \in FlowUse
  BY <1>4
<1>9. Quiet(last)
  BY <1>6, StatusQuiet, NothingQuiet
<1>10. events' = events \o t
  <2>1. /\ events \in Seq(Event) /\ effect.events \in Seq(Event)
        /\ result \in Seq(Event) /\ last \in Seq(Event)
    BY <1>0, <1>3, <1>5, <1>9 DEF FlowTyped, EffectIsTold, Quiet, Telling
  <2>2. events' = ((events \o effect.events) \o result) \o last
    BY <1>4
  <2> HIDE DEF result, last
  <2>3. (events \o effect.events) \o result = events \o (effect.events \o result)
    BY <2>1, ConcatAssociates
  <2>4. effect.events \o result \in Seq(Event)
    BY <2>1, ConcatItems
  <2>5. (events \o (effect.events \o result)) \o last = events \o ((effect.events \o result) \o last)
    BY <2>1, <2>4, ConcatAssociates
  <2> QED BY <2>2, <2>3, <2>5
<1> HIDE DEF result, last
<1>11. Telling(t)
  BY <1>3, <1>5, <1>9, TellingConcat DEF EffectIsTold, Quiet
<1>12. NotStarted(system') => Quiet(t) /\ (NotStarted(system) \/ Ends(t))
  <2> SUFFICES ASSUME NotStarted(system') PROVE Quiet(t) /\ (NotStarted(system) \/ Ends(t))
    OBVIOUS
  <2>1. ~(cmd = "start_device" /\ ok)  BY <1>3, <1>4, <1>7 DEF EffectIsTold
  <2>2. Quiet(effect.events) /\ (NotStarted(system) \/ Ends(effect.events))
    BY <1>3, <1>7 DEF EffectIsTold
  <2>3. Quiet(effect.events \o result)
        /\ (Ends(effect.events) => Ends(effect.events \o result))
    BY <1>5, <2>1, <2>2, QuietConcat
  <2> QED BY <1>9, <2>2, <2>3, QuietConcat
<1>13. commands' = commands /\ UNCHANGED <<flow, pagePending, starts>>
  BY DEF WorkerTakeUrgent
<1> HIDE DEF t
<1> QED BY <1>0, <1>7, <1>8, <1>10, <1>11, <1>12, <1>13, SystemStep DEF FlowTyped

LEMMA WatchStep ==
  ASSUME FlowInv, WatchdogRecovers \/ WatchdogLoses
  PROVE  FlowInv'
<1>0. FlowTyped /\ system \in Systems /\ system.watchdog \in AgentStates
  BY DEF FlowInv, FlowTyped, Systems
<1> DEFINE t == Status(system'.watchdog)
<1>1. events' = events \o t /\ UNCHANGED <<flow, pagePending, commands, starts>>
  BY DEF WatchdogRecovers, WatchdogLoses
<1>2. system' \in Systems /\ flowUsed' \in FlowUse
      /\ system'.watchdog \in {"initializing", "disconnected"}
  <2>1. CASE WatchdogRecovers
    <3>1. system' = [system EXCEPT !.watchdog = "initializing", !.job = "init_device"]
      BY <1>0, <2>1 DEF WatchdogRecovers, AfterCheckSuccess
    <3> QED BY <1>0, <2>1, <3>1 DEF WatchdogRecovers, Systems, AgentStates, FlowTyped
  <2>2. CASE WatchdogLoses
    <3>1. system' = [system EXCEPT !.watchdog = "disconnected",
                                   !.device = IF Started THEN "lost" ELSE @]
      BY <1>0, <2>2 DEF WatchdogLoses, AfterCheckFailure
    <3>2. flowUsed' \in FlowUse
      BY <1>0, <2>2, FaultCount DEF WatchdogLoses
    <3> QED BY <1>0, <3>1, <3>2 DEF Systems, AgentStates, Device
  <2> QED BY <2>1, <2>2
<1>3. Quiet(t) /\ Ends(t)
  <2>1. system'.watchdog \in AgentStates  BY <1>2 DEF AgentStates
  <2> QED BY <1>2, <2>1, StatusQuiet
<1> HIDE DEF t
<1> QED BY <1>0, <1>1, <1>2, <1>3, SystemStep DEF Quiet, FlowTyped

LEMMA FlowInit ==
  ASSUME WorkflowInit
  PROVE  FlowInv
<1> USE DEF WorkflowInit
<1>1. FlowTyped
  <2>1. flow \in Flows  BY DEF Flows, State, AgentStates
  <2>2. system \in Systems  BY DEF Systems, AgentStates, Device
  <2>3. flowUsed \in FlowUse  BY WorkflowAssumption DEF FlowUse, WorkflowAssumption
  <2>4. commands \in Seq(Sent) /\ events \in Seq(Event)
    OBVIOUS
  <2> QED BY <2>1, <2>2, <2>3, <2>4 DEF FlowTyped
<1>2. StartInv /\ SuccessInv
  BY DEF StartInv, SuccessInv, NotStarted, Registered
<1> QED BY <1>1, <1>2 DEF FlowInv

LEMMA FlowInvHolds == WorkflowSpec => []FlowInv
<1>1. FlowInv /\ [WorkflowNext]_workflowVars => FlowInv'
  <2> SUFFICES ASSUME FlowInv, [WorkflowNext]_workflowVars PROVE FlowInv'
    OBVIOUS
  <2>1. CASE UNCHANGED workflowVars
    BY <2>1 DEF workflowVars, FlowInv, FlowTyped, StartInv, SuccessInv, NotStarted, Settles,
       ClearedAfter
  <2>2. CASE WorkflowNext
    BY <2>2, UserStep, EventStep, TimeoutStep, NormalStep, UrgentStep, WatchStep
       DEF WorkflowNext, Worker
  <2> QED BY <2>1, <2>2
<1> QED BY <1>1, FlowInit, PTL DEF WorkflowSpec

\* The states of the controller, the commands it has queued and the events on their way to
\* it stay what they are declared to be, whatever the user, the worker and the watchdog do.
THEOREM FlowTypes == WorkflowSpec => []WorkflowTypeOK
<1>1. FlowInv => WorkflowTypeOK
  BY FlowAllTyped DEF FlowInv
<1> QED BY <1>1, FlowInvHolds, PTL

\* dispatchOneClickStartDevice sends the start of a one-click flow at most once, in whatever
\* order states of the watchdog, late results and refreshes reach the controller.
THEOREM OneStartPerFlow == WorkflowSpec => []StartIsSentOnce
<1>1. FlowInv => StartIsSentOnce
  BY DEF FlowInv, StartInv, StartIsSentOnce
<1> QED BY <1>1, FlowInvHolds, PTL

\* When the queues are empty, a one-click start that is shown as done is one: the glasses of
\* the agent under watch have been started, and a loss since has been answered by a start.
THEOREM ShownSuccessIsTrue == WorkflowSpec => []SuccessIsTrue
<1>1. FlowInv => SuccessIsTrue
  <2> SUFFICES ASSUME FlowInv, events = <<>>, flow.succeeded, Registered(system.watchdog)
               PROVE  system.device \in {"started", "claimed"}
    BY DEF SuccessIsTrue
  <2>1. ~ClearedAfter(0, events)
    BY DEF ClearedAfter
  <2> QED BY <2>1 DEF FlowInv, SuccessInv, NotStarted, Settles
<1> QED BY <1>1, FlowInvHolds, PTL

=============================================================================
