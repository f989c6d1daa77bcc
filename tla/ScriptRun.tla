----------------------------- MODULE ScriptRun -----------------------------
(***************************************************************************)
(* A batch of recording scripts: the page and ScriptExecutor in the user   *)
(* interface thread, the script in a Python process of its own, and one    *)
(* short-lived process (recordlabc_agent_cmd) for each command the script  *)
(* gives to the subnode.                                                   *)
(*                                                                         *)
(* A dialog of the script is shown in a nested event loop: while it is     *)
(* open the buttons of the page are dead, but output, the end of the       *)
(* process and the timer are handled inside of it.  Log lines, workflow    *)
(* panels and the contents of dialogs are left out.                        *)
(***************************************************************************)
EXTENDS Integers, Sequences, FiniteSets

CONSTANTS
  Batch,         \* scripts selected for a run
  MaxRuns,       \* bound: clicks on run
  MaxDialogs,    \* bound: dialogs
  MaxCommands,   \* bound: commands of the scripts themselves
  MaxFaults      \* bound: starts that fail, crashes, commands that fail

ASSUME ScriptAssumption ==
  /\ Batch \in Nat \ {0}
  /\ MaxRuns \in Nat /\ MaxDialogs \in Nat /\ MaxCommands \in Nat /\ MaxFaults \in Nat

VARIABLES
  page,      \* scriptRunning_, pendingScripts_, and a start that is under way
  executor,  \* process_ as QProcess knows it, stopRequested_
  timers,    \* processes a kill timer has been started for
  dialogs,   \* the nested event loops, the innermost last
  script,    \* the process itself
  out, in,   \* its standard output and input
  children,  \* command processes
  goals,     \* commands that have reached the subnode
  recording, \* the subnode records
  stray,     \* history: a command has been given up before its result came
  used       \* events used up

ui == <<page, executor, timers, dialogs>>
pipes == <<out, in>>
vars == <<page, executor, timers, dialogs, script, out, in, children, goals,
          recording, stray, used>>

Phases == {"run", "dialog", "command", "stop_record", "stop_device", "ended"}
Child == [cmd : {"start_record", "stop_record", "stop_device"},
          stage : {"starting", "sent", "done", "failed"}]
NoChild == [cmd |-> "none", stage |-> "done"]
Roles == {"own", "cleanup"}     \* a script has one child of each at most

TypeOK ==
  /\ page \in [running : BOOLEAN, pending : 0..Batch, starting : BOOLEAN]
  /\ executor \in [process : Nat, running : BOOLEAN, stopRequested : BOOLEAN]
  /\ timers \subseteq Nat
  /\ dialogs \in Seq(Nat) /\ out \in Seq(Nat) /\ in \in Seq(Nat)
  /\ script \in [phase : Phases, terminated : BOOLEAN, asks : Nat, clean : BOOLEAN]
  /\ children \in [Roles -> {NoChild} \cup Child]
  /\ goals \subseteq {"start_record", "stop_record", "stop_device"}
  /\ recording \in BOOLEAN /\ stray \in BOOLEAN
  /\ used \in [runs : 0..MaxRuns, dialogs : 0..MaxDialogs,
               commands : 0..MaxCommands, faults : 0..MaxFaults]

NoScript == [phase |-> "ended", terminated |-> FALSE, asks |-> 0, clean |-> FALSE]

Init ==
  /\ page = [running |-> FALSE, pending |-> 0, starting |-> FALSE]
  /\ executor = [process |-> 0, running |-> FALSE, stopRequested |-> FALSE]
  /\ timers = {} /\ dialogs = <<>> /\ out = <<>> /\ in = <<>>
  /\ script = NoScript
  /\ children = [r \in Roles |-> NoChild]
  /\ goals = {} /\ recording = FALSE /\ stray = FALSE
  /\ used = [runs |-> 0, dialogs |-> 0, commands |-> 0, faults |-> 0]

Alive == script.phase # "ended"

UnderWay(role) == children[role].stage \in {"starting", "sent"}

\* What a script leaves behind when it dies: a command process lives on, and its
\* goal may still be sent.  Goals are carried out at any later time.
Abandon ==
  LET left == {r \in Roles : UnderWay(r)}
  IN /\ stray' = (stray \/ left # {})
     /\ \E sent \in SUBSET {children[r].cmd : r \in left} : goals' = goals \cup sent
     /\ children' = [r \in Roles |-> NoChild]

Fault == /\ used.faults < MaxFaults
         /\ used' = [used EXCEPT !.faults = @ + 1]

---------------------------------------------------------------------------
(* The user interface thread                                                *)

\* A click reaches the page: no dialog is open and no slot is under way.
Clickable == dialogs = <<>> /\ ~page.starting

RunSelectedScript ==
  /\ Clickable /\ ~page.running
  /\ used.runs < MaxRuns
  /\ used' = [used EXCEPT !.runs = @ + 1]
  /\ page' = [page EXCEPT !.pending = Batch - 1, !.starting = TRUE]
  /\ UNCHANGED <<executor, timers, dialogs, script, pipes, children, goals, recording, stray>>

\* scriptCompleted: the next script of the batch is started from here.
Completed(p) ==
  IF p.pending > 0
    THEN [p EXCEPT !.running = FALSE, !.pending = @ - 1, !.starting = TRUE]
    ELSE [p EXCEPT !.running = FALSE, !.starting = FALSE]

\* executeCommand and startProcess: a new process takes the place of the old one,
\* which is killed if it still runs.
StartProcess ==
  /\ page.starting
  /\ executor' = [process |-> executor.process + 1, running |-> TRUE,
                  stopRequested |-> FALSE]
  /\ page' = [page EXCEPT !.running = TRUE, !.starting = FALSE]
  /\ script' = [NoScript EXCEPT !.phase = "run"]
  /\ Abandon
  /\ out' = <<>> /\ in' = <<>>
  /\ UNCHANGED <<timers, dialogs, recording, used>>

StartFails ==
  /\ page.starting
  /\ Fault
  /\ executor' = [process |-> executor.process + 1, running |-> FALSE,
                  stopRequested |-> FALSE]
  /\ page' = Completed(page)
  /\ UNCHANGED <<timers, dialogs, script, pipes, children, goals, recording, stray>>

\* Faulty variant: for the page the script has ended with the click.
StopScriptAtOnce ==
  /\ Clickable /\ page.running
  /\ page' = [page EXCEPT !.pending = 0, !.running = FALSE]
  /\ executor' = [executor EXCEPT !.stopRequested = @ \/ executor.running]
  /\ timers' = timers \cup {executor.process}
  /\ script' = [script EXCEPT !.terminated = executor.running]
  /\ UNCHANGED <<dialogs, pipes, children, goals, recording, stray, used>>

\* The batch is given up and the script asked to end, once.
StopScript ==
  /\ Clickable /\ page.running
  /\ page' = [page EXCEPT !.pending = 0]
  /\ IF executor.running /\ ~executor.stopRequested
       THEN /\ executor' = [executor EXCEPT !.stopRequested = TRUE]
            /\ timers' = timers \cup {executor.process}
            /\ script' = [script EXCEPT !.terminated = TRUE]
       ELSE UNCHANGED <<executor, timers, script>>
  /\ UNCHANGED <<dialogs, pipes, children, goals, recording, stray, used>>

\* Faulty variant: the timer only counts for a script that has not ended.
MustKill(process) == FALSE

\* 25 s later: is it still the same process, and still running?
KillsProcess(process) ==
  executor.stopRequested /\ executor.process = process /\ executor.running

KillTimer ==
  /\ ~page.starting
  /\ \E process \in timers :
        /\ timers' = timers \ {process}
        /\ IF KillsProcess(process) /\ Alive
             THEN script' = [script EXCEPT !.phase = "ended", !.clean = FALSE] /\ Abandon
             ELSE UNCHANGED <<script, children, goals, stray>>
  /\ UNCHANGED <<page, executor, dialogs, pipes, recording, used>>

\* Faulty variant: a question that comes while another is open is not shown.
OpenDialogAlone ==
  /\ ~page.starting /\ out # <<>>
  /\ dialogs' = IF dialogs = <<>> THEN Append(dialogs, Head(out)) ELSE dialogs
  /\ out' = Tail(out)
  /\ UNCHANGED <<page, executor, timers, script, in, children, goals, recording, stray, used>>

\* handleDialogEvent up to its event loop.
OpenDialog ==
  /\ ~page.starting /\ out # <<>>
  /\ dialogs' = Append(dialogs, Head(out))
  /\ out' = Tail(out)
  /\ UNCHANGED <<page, executor, timers, script, in, children, goals, recording, stray, used>>

\* The user closes the innermost dialog; the answer goes to whatever process
\* there is by now.
CloseDialog ==
  /\ ~page.starting /\ dialogs # <<>>
  /\ dialogs' = SubSeq(dialogs, 1, Len(dialogs) - 1)
  /\ in' = IF executor.running THEN Append(in, dialogs[Len(dialogs)]) ELSE in
  /\ UNCHANGED <<page, executor, timers, script, out, children, goals, recording, stray, used>>

\* onProcessFinished, after the last output.
ProcessFinished ==
  /\ ~page.starting /\ executor.running /\ ~Alive /\ out = <<>>
  /\ executor' = [executor EXCEPT !.running = FALSE, !.stopRequested = FALSE]
  /\ page' = Completed(page)
  /\ UNCHANGED <<timers, dialogs, script, pipes, children, goals, recording, stray, used>>

UserInterface ==
  \/ StartProcess \/ StartFails \/ KillTimer \/ OpenDialog \/ ProcessFinished

---------------------------------------------------------------------------
(* The script                                                               *)

\* EventChannel.request
AskDialog ==
  /\ script.phase = "run" /\ used.dialogs < MaxDialogs
  /\ used' = [used EXCEPT !.dialogs = @ + 1]
  /\ script' = [script EXCEPT !.phase = "dialog", !.asks = used.dialogs + 1]
  /\ out' = Append(out, used.dialogs + 1)
  /\ UNCHANGED <<ui, in, children, goals, recording, stray>>

\* Other lines are passed over.
ReadAnswer ==
  /\ script.phase = "dialog" /\ in # <<>>
  /\ in' = Tail(in)
  /\ script' = IF Head(in) = script.asks THEN [script EXCEPT !.phase = "run"]
                                          ELSE script
  /\ UNCHANGED <<ui, out, children, goals, recording, stray, used>>

\* AgentWrapper.cmd runs a process and waits for it, unless it is told not to.
Spawn(role, cmd) ==
  children' = [children EXCEPT ![role] = [cmd |-> cmd, stage |-> "starting"]]

GiveCommand ==
  /\ script.phase = "run" /\ used.commands < MaxCommands
  /\ children["own"] = NoChild
  /\ used' = [used EXCEPT !.commands = @ + 1]
  /\ script' \in {[script EXCEPT !.phase = "command"], script}
  /\ \E cmd \in {"start_record", "stop_record"} : Spawn("own", cmd)
  /\ UNCHANGED <<ui, pipes, goals, recording, stray>>

Over(role) == children[role].stage \in {"done", "failed"}

\* The end of the process is awaited, or found by check_cmd.
CommandReturns ==
  /\ script.phase \in {"run", "command"} /\ children["own"] # NoChild /\ Over("own")
  /\ script' = [script EXCEPT !.phase = "run"]
  /\ children' = [children EXCEPT !["own"] = NoChild]
  /\ UNCHANGED <<ui, pipes, goals, recording, stray, used>>

ScriptEnds ==
  /\ script.phase = "run"
  /\ script' = [script EXCEPT !.phase = "ended"]
  /\ Abandon
  /\ UNCHANGED <<ui, pipes, recording, used>>

\* In the clean-up also by a command that exceeds its time: it is killed, and what
\* would come after it is skipped.
ScriptCrashes ==
  /\ Alive
  /\ Fault
  /\ script' = [script EXCEPT !.phase = "ended"]
  /\ Abandon
  /\ UNCHANGED <<ui, pipes, recording>>

\* Faulty variant: the cleanup stops the device only.
InterruptDevice ==
  /\ script.terminated /\ script.phase \in {"run", "dialog", "command"}
  /\ script' = [script EXCEPT !.phase = "stop_device", !.clean = TRUE]
  /\ stray' = (stray \/ UnderWay("own"))
  /\ Spawn("cleanup", "stop_device")
  /\ UNCHANGED <<ui, pipes, goals, recording, used>>

\* shutdown_handler interrupts the script wherever it is; a command that is under
\* way goes on.
Interrupt ==
  /\ script.terminated /\ script.phase \in {"run", "dialog", "command"}
  /\ script' = [script EXCEPT !.phase = "stop_record"]
  /\ stray' = (stray \/ UnderWay("own"))
  /\ Spawn("cleanup", "stop_record")
  /\ UNCHANGED <<ui, pipes, goals, recording, used>>

\* stop_for_shutdown ignores the result of stop_record.
CleanupGoesOn ==
  /\ script.phase = "stop_record" /\ Over("cleanup")
  /\ script' = [script EXCEPT !.phase = "stop_device",
                              !.clean = children["cleanup"].stage = "done"]
  /\ Spawn("cleanup", "stop_device")
  /\ UNCHANGED <<ui, pipes, goals, recording, stray, used>>

\* SystemExit leaves subprocess.run, which kills the command that was interrupted.
CleanupEnds ==
  /\ script.phase = "stop_device" /\ Over("cleanup")
  /\ script' = [script EXCEPT !.phase = "ended"]
  /\ Abandon
  /\ UNCHANGED <<ui, pipes, recording, used>>

Script == \/ ReadAnswer \/ CommandReturns \/ ScriptEnds
          \/ Interrupt \/ CleanupGoesOn \/ CleanupEnds

---------------------------------------------------------------------------
(* Command processes and the subnode                                        *)

SetStage(role, stage) == children' = [children EXCEPT ![role].stage = stage]

\* The goal is sent when the action server has been found.
SendGoal ==
  \E role \in Roles :
    /\ children[role].stage = "starting"
    /\ SetStage(role, "sent")
    /\ goals' = goals \cup {children[role].cmd}
    /\ UNCHANGED <<ui, script, pipes, recording, stray, used>>

\* No server, or no result in time; the goal is not taken back.
CommandFails ==
  \E role \in Roles :
    /\ UnderWay(role)
    /\ Fault
    /\ SetStage(role, "failed")
    /\ stray' = TRUE
    /\ UNCHANGED <<ui, script, pipes, goals, recording>>

\* The subnode executes one goal after the other and sends the result.
ExecuteGoal ==
  \E cmd \in goals :
    /\ goals' = goals \ {cmd}
    /\ recording' = CASE cmd = "start_record" -> TRUE
                      [] cmd = "stop_record" -> FALSE
                      [] OTHER -> recording
    /\ children' = [r \in Roles |->
         IF children[r].cmd = cmd /\ children[r].stage = "sent"
           THEN [children[r] EXCEPT !.stage = "done"] ELSE children[r]]
    /\ UNCHANGED <<ui, script, pipes, stray, used>>

Command == SendGoal \/ ExecuteGoal

Next == \/ RunSelectedScript \/ StopScript \/ CloseDialog \/ UserInterface
        \/ AskDialog \/ GiveCommand \/ ScriptCrashes \/ Script
        \/ Command \/ CommandFails

Spec == Init /\ [][Next]_vars

\* The event loop runs and its timer fires.  Of scripts, commands and the user
\* nothing is assumed: they may hang, and dialogs may stay open.
FairSpec == Spec /\ WF_vars(UserInterface) /\ WF_vars(KillTimer)

---------------------------------------------------------------------------
(* Properties                                                               *)

Occurs(id, s) == \E i \in DOMAIN s : s[i] = id

\* Is the question of a script, or the answer to it, still on its way?
OnItsWay(id) == Occurs(id, out) \/ Occurs(id, dialogs) \/ Occurs(id, in)

\* A script waits as long as its question or the answer is on its way, and no
\* longer: none gets lost between dialogs that are nested, though the answers to
\* dialogs of a script that has died are written to the next one, and no answer
\* but its own lets it go on.
WaitsForItsAnswer ==
  /\ script.phase = "dialog" => OnItsWay(script.asks)
  /\ script.phase \in {"run", "command"} => ~OnItsWay(script.asks)

\* No script is started over one that still runs, which would be killed in the
\* middle of its cleanup.
OneScriptAtATime == page.starting => ~Alive

\* A script that has cleaned up by itself after Stop leaves no recording behind:
\* its stop_record is the last command to be carried out, unless a command was
\* given up before its result came, by this script or by one before it.
StopEndsRecording ==
  script.phase = "ended" /\ script.clean /\ ~stray => ~recording

\* After Stop the script is gone in the end, whatever it does, with dialogs of it
\* open or not.
StopEnds == executor.stopRequested ~> ~executor.stopRequested
=============================================================================
