# A verification model of RecordLab, the XREAL BSP RGB tool

RecordLab records and previews the cameras and sensors of AR glasses. A Qt
application talks to *subnode* processes, one per device, through an action
protocol over ZeroMQ; a subnode drives the glasses through a vendor SDK and a
Python bridge, writes recordings, and shares camera frames through memory. The
interesting part is that every layer has threads of its own and gives up
waiting after a while, without undoing what it has asked for.

This directory models the layers that decide whether the tool is right, checks
them with TLC on small instances and proves the main properties with TLAPS for
every value of the constants. Paths below are relative to `src/src/` unless
they begin with `src/`.

1. [Inventory](#inventory) — the components, their state and their hazards
2. [Modules](#modules) — what models what
3. [Runs](#runs) — what each run shows, with which bounds
4. [Fairness and deadlock](#fairness-and-deadlock)
5. [Proofs](#proofs) — what is proved, and along which argument
6. [Where code and comments disagree](#where-code-and-comments-disagree)
7. [What is not modelled](#what-is-not-modelled)
8. [Plan](#plan) — what could be added next

## Inventory

The chain of a command: user interface → `AgentManagerProcess` (worker thread)
→ `AgentManager` → `BaseAgent::cmd` → echo action client → service → echo
action server → goal thread → `BaseSubnode::actionCallback` → `BspDevice` →
SDK or Python bridge; its result comes back over a topic. `AgentWatchdog`
feeds the same chain from a thread of its own. Frames go the other way, past
all of this, through shared memory.

| Component | State | Operations | Correct when |
|---|---|---|---|
| `AgentWatchdog` (`backend/agent_watchdog.cpp`) | registry of agents with a status, failure count, init parameters | register, unregister, mark initializing / healthy / disconnected; check loop, recovery, emergency stop | a status is never stuck; recoveries do not pile up; a loss is noticed, presence is recovered |
| `AgentManagerProcess` (`backend/agent_manager_process.cpp`) | urgent and normal queue, results by request id, restore flag | send, send and wait, worker loop, actions on the manager and the agents | every awaited request is answered; the urgent queue is served in order |
| `AgentManager`, `BaseAgent` (`flowagent/`) | connected agents; per agent a process, an action client, a command lock, results by goal id | initialize (sweep, launch, wait for registration), release, stop all; `cmd` with or without waiting | a caller gets the outcome of its own command; commands go to the process that was launched, and none is left behind |
| Remote action client (`flowagent/agents/legacy_remote_action_client.cpp`) | request socket, pending goals, listener thread | ping, send goal, listen, reset the socket | a reply is taken for the goal it belongs to |
| Echo actions (`src/third_party/echo_message_system/.../action.cpp`) | goals, their threads and cancel flags; callbacks and early results | handle goal, execute, publish; send goal, handle result; destruction | no result is lost between topic and callback; destruction ends and leaves nothing running |
| `BaseSubnode` (`subnodes/base_subnode.cpp`) | handlers, command lock, stop flag, closing flag, publishers | dispatch, sleep, estop, send result, connect, disconnect | one command at a time; a stop interrupts; nothing runs after release |
| `MainSubnode` recording (`subnodes/main_subnode.cpp`) | recording flags under a state lock; writers with buffers, queues and threads; a snapshot worker; last image read; helper processes | start, stop, delete, release; data callbacks; writer threads; snapshots | what was accepted while a recording was on is in its folder and in no other, each image with its own data; no thread or helper is left |
| `BspDevice`, `GlassesFactory` (`subnodes/bsp_main_subnode.cpp`) | initialized / started flags, SDK handle, a slot for the pending operation | initialize, start, stop, release, check; hand-over to the main thread | an answer belongs to its operation; shutdown ends |
| `NativeGlassesAdapter`, `scripts/xreal_bridge_worker.py` | child process, pending requests, partial frames | request and wait in a nested event loop, parse frames | requests and answers match across timeouts and restarts |
| Camera shared memory (`common/camera_shared_memory.cpp`) | slots, their numbers, the writer's counter | create, write frame, read latest frame without a lock | an accepted frame is whole, the newest is found |
| Camera preview (`widgets/camera_display_thread.cpp`, `bsp/bsp_rgb_page.cpp`) | last number seen, back-pressure mark, frames sent to the UI | process camera, show, restart | the mark is released, the UI queue is bounded, the preview catches up |
| `WorkflowController` (`workflow/workflow_controller.cpp`) | state, one-click flags, one timer | requests of the user, results, states of the watchdog, the timer | one start per flow; success means what it says; no flow waits forever |
| Data receiver, registry (`backend/data_receiver.cpp`, `backend/data_registry_server.cpp`) | throttle times, bounded queue, latest values, curve | receive, poll, subscribe, read the curve | the newest sample of a name is shown, a curve goes forward |
| Script executor (`flowagent/core/script_executor.cpp`, `src/scripts/runtime/run_recordlab_script.py`) | script process, stop request, kill timers, open dialogs, command processes | run a batch, stop, answer dialogs, give commands, clean up | scripts do not overlap; answers reach their dialog; a stopped script ends and leaves no recording |
| Raw capture (`subnodes/bsp_main_subnode.cpp`, `src/subnodes/bsp_shell/capture_raw_frame.sh`) | metadata of the last frame, glasses and their files, data set | release, reboot, shoot, fetch, reboot again | what is stored under a name is of one shot, and stays |
| `UIMessageBridge` (`core/ui_message_bridge.cpp`) | questions by id | ask and wait, answer | (nothing calls it) |
| Motion detector, rate limiter, services, widgets, tools, scripts | settings, numbers, display | — | not stateful in a way worth a model |

**Hard behaviours.** Timeouts that abandon work which still happens (the
watchdog's 120 s wait, `cmd`, service calls); results that overtake the
registration of their receiver; flags checked before an unlock and used after
it; destructors that join threads which need their locks; unlocked readers of
shared memory; a writer process that is replaced under an attached reader; a
user who changes the state that a recovery is based on; nested event loops, in
which the next operation begins inside the wait of the last; processes that
outlive their parents, and names that outlive their processes. `PROJECT.json` lists
each hazard at its line with the properties that cover it, or why none does.

## Modules

| Module | What it is |
|---|---|
| `AgentStatus` | the effect of each watchdog method on the status of the primary agent, as operators |
| `AgentSupervision` | watchdog thread, worker thread, both queues, synchronous calls, device flags, user and USB plug |
| `MCAgentSupervision` | its request ids and sets of user operations for TLC |
| `AgentSupervisionProofs` | its theorems |
| `CameraPreview` | ring of slots in shared memory, writer process, preview thread, UI thread |
| `CameraPreviewProofs` | its theorems, and those about `SampleFlow`, the other way to the screen |
| `RemoteCommand` | abstract specification: what a command of an agent promises |
| `ActionCommands` | `BaseAgent::cmd`, action client and server, goal threads, `BaseSubnode` dispatch, disconnection |
| `ActionCommandsProofs` | types, that no awaited result is lost, what the end of a subnode waits for, and that `ActionCommands` implements `RemoteCommand` |
| `AgentLink` | an agent connection from launching its subnode to killing it, the subnode's registrations at the Echo master, crashes of both processes |
| `RemoteLink` | the command channel to a subnode on another machine, extended by `AgentLink` |
| `AgentLinkProofs` | theorems about both: types, own replies, own subnodes |
| `Recording` | recordings of `MainSubnode`: commands, callbacks, writer threads, helpers |
| `RecordingContract` | abstract specification: what a recording promises |
| `RecordingProofs` | types, that samples are saved, that helpers end, and that `Recording` implements `RecordingContract` |
| `ImageRecording` | a camera frame from the adapter through the shared memory to the image writers and the snapshot worker |
| `ImageRecordingProofs` | its theorems, and those about `RawCapture`, the other source of pictures |
| `GlassesBridge` | adapter and bridge worker: requests, responses, restarts; extended by `BspDevice` |
| `BspDevice` | device commands, their hand-over to the main thread, nested slots, shutdown |
| `BspDeviceProofs` | theorems about it and the `GlassesBridge` it uses |
| `RawCapture` | raw captures between frames, commands, reboots and the files on the glasses |
| `Workflow` | the workflow controller with the queues it talks through |
| `ScriptRun` | batches of scripts: executor, script process, dialogs, command processes |
| `ScriptRunProofs` | its theorems, and those about `Workflow`, what else the page starts |
| `SampleFlow` | throttle, bounded queue, poll and curve of the data receiver |

Where a proof module is about two components it extends both; they share no
variable, and the second one has names of its own for its specification
(`CaptureSpec`, `WorkflowSpec`, `DataSpec`).

Definitions named *Faulty variant* are not part of a specification: each is a
plausible mistake in the code, and the property it breaks is named with it in
`PROJECT.json` ("mutants").

### AgentSupervision

A step is what one thread does between two points where the other can
interfere. `worker.pc` follows `processLoop` and `processCommand`: take a
command, `begin`, call the agent (`run`), mark the outcome in the watchdog
(`post`), publish the result (`reply`). `wd.pc` follows `checkAgent`,
`handleCheckSuccess` / `handleCheckFailure`, `initDevice` and the callbacks the
process gave the watchdog. `reg` is the status of the primary agent, under the
watchdog's lock; `syncResults` is the map under the result mutex; `restore` is
the flag that both threads touch without a lock. `device` records the flags of
`BspDevice` and, apart from them, whether the SDK handle still stands for the
glasses that are plugged in; `start_device` is answered from the flag, `check`
from the USB enumeration, as in the code.

Some steps of the code are merged, because nothing can tell them apart: clearing the
restore flag and registering or unregistering the agent are made in one step
(both are written by the worker, the watchdog reads them at different points of
its own program); `stopAllAgents` is merged with the unregistration that
follows it (the estop it sends ends recordings only). `nextRequestId` never
repeats an id. The model takes a fresh one from a finite set: an id stays in use
while a queue, a thread or `syncResults` holds it, only a timeout leaves one
behind for good, and a request needs one more, so `MaxFaults + 1` ids behave
like an unbounded supply.

### CameraPreview

`slot[s]` holds the pieces of one slot, metadata first; each carries the frame
it belongs to. `writeFrame` overwrites piece by piece and then publishes the
number (`WritePiece`, `Publish`); `create` of a new process clears numbers one
by one, then pixels (`ResetSlot`, `ClearBuffers`). `readLatestFrame` reads the
numbers one by one, copies piece by piece and looks at the number again
(`ScanSlot`, `CopyPiece`, `VerifyFrame`). `processCamera` drops the frame
(`SkipFrame`) or marks the UI busy and emits it (`MarkPending`, `EmitFrame`);
the UI slot shows it and clears the mark. Memory is sequentially consistent in
the model: reordering by compiler or processor is left out. The rate limit
is a free choice to drop a frame. An image format that does not exist makes
`processCamera` return without counting the frame as seen; only a torn frame
can name one, so `SkipFrame` allows it for those.

### ActionCommands and RemoteCommand

`caller` is the thread inside `BaseAgent::cmd`, which holds the agent's command
lock, so there is one. Its request goes to `inbox`; the service thread
(`HandleGoal`, `StoreThread`: the two critical sections of `handleGoal`) starts
a thread per goal. `thread[g]` follows `executeGoal` and `actionCallback`: look up
the cancel flag, clear the stop flag, wait for the command lock, run, check the
closing flag (`SendResult`), publish (`PublishResult`), clean up. The subscriber
thread takes a result out of `topic` and either calls the callback of its goal or
keeps the result in `pending`; `sendGoal` registers the callback and takes over
a pending result (`RegisterCallbacks`, `DeliverPending`); `cmd` then makes the
slot in `storage` and polls it. `main` is `spin` after a signal: it sets the
closing flag, destroys the server and calls `release()`. The destructor
takes the threads out of the map (`CloseActionServer`) and joins them; then the
members go, the last declared first: the maps (`DestroyMaps`, where the process ends if
a goal has been stored again) and after them the goal service (`FinishClose`), whose
thread accepts requests up to then. A goal that it accepts meanwhile gets a thread
that nobody joins, or finds the maps destroyed (`UseMaps`).

A service call that times out may or may not have delivered its request; a
topic may lose a result. Commands have four kinds: `short` answers at once,
`sleep` looks at the stop flag every second, `estop` sets it, `unknown` has no
handler. Only `AgentManager::stopAllAgents` sends `estop`, without waiting.
`hasGoal` and `initGoal` are one step, since `emplace` never overwrites what
came in between.

`Stops` says who may tell the subnode to terminate: `BaseAgent::disconnect`, which
closes the action client first, with nobody inside `cmd`, or anyone by a signal at
any time, as when the session is closed. Neither waits for the subnode:
a request whose service call has timed out may still be on its way, or become a goal,
while the server is destroyed. `accepted` collects the goals that were answered before
the maps were gone.

`RemoteCommand` keeps two things per command: its stage in the subnode and what
its caller was told. It states that a command starts at most once, that one
runs at a time, and that a caller is told the outcome of that very command, a
failure, or that it was posted; a command whose caller has given up may still
run later. The refinement mapping is `Stages` and `Replies` in `ActionCommands`.

### AgentLink and RemoteLink

`agent.pc` is where the worker thread of the UI process stands in
`BaseAgent::connect` or `disconnect`, or which command of
`gracefulReleaseBeforeDisconnect` it sends; `agent.endpoint` and `agent.heard`
are what its action client is connected to, `agent.process` the `QProcess` it
can still terminate. `subnode[p]` is one launched process: `starting`, `half`,
`named` follow the constructor of `ActionServer`, which registers two services
and its publishers one by one; a registration that the master does not answer
is logged and forgotten. `master` keeps the last registration of each name, also
of a dead process, and dies with the UI process (`UiCrashes`), whose subnodes
live on. `Signalled` says what SIGTERM does: before the handler is installed it
ends the process, before the event loop it is lost, afterwards it makes the
process leave. Commands are only sent and answered here; `ActionCommands`
follows one.

`RemoteLink` is `LegacyRemoteActionClient`: `client.socket` numbers the sockets,
so that a reply belongs to the socket its request went out on; the server may
answer late, refuse, lose a request, or send its result before its reply.

### Recording and RecordingContract

One goal thread walks through `cmdStartRecord` and `cmdStopRecord`
(`StartSteps`, `StopSteps`), the main thread through the callbacks
(`DataSteps`) and, at the end, through `release()`, which calls `cmdStopRecord`
itself. `stateLock` is `recordStateLock_`: it is held over `cmdStartRecord`, and
only at the begin and the end of `cmdStopRecord`; the writers are outside of it,
so that `CsvDataWriter::close` and `writeData`, `ImageDataWriter::close`
and `writeData` interleave between any two of their critical sections. A sample
carries the recording that was on when its callback looked at the flag.
`Launched` and `Ready` stand for the start of the helper processes and their
ready files. `Detached` lets a goal thread outlive `disconnect()`, which the
destructor of the action server permits (see `ActionCommands`).

`RecordingContract` knows no threads, locks, buffers or writers. A recording is
starting, on, ending or off; what arrives while it is on is owed to its folder and to
no other; samples are written to the folder of the current recording at any time
before it is off; it goes off only when all it owes is there, unless the folder was
deleted, and when no helper runs. `Recording` implements it with `Phase` (from
`recordFlag_`, `recordFinalizing_` and the lock), `Owed` (the settled samples of each
recording) and the helpers of both kinds.

### ImageRecording

The image side of a recording, up to the writers that `Recording` follows. One
main thread does everything that concerns a frame: `CameraEvent` writes it into the
shared memory and sends its data, `ReadBack` looks for an image, `LookForWorker`,
`CallWorker` and `UpdateFrame` feed it to the snapshot worker, `ToSlamWriter` and
`ToRgbWriter` hand it over. Between these steps the goal thread begins and ends
recordings (`goal`), so that each test of `recordFlag_` or of the pointer
(`owned`) may find another value. `worker.thread` follows `mainLoop` of
`CameraSnapshotWorker`, `inRow` says who is between the first and the last value
of a row. `shm` is the slot that was published last; `CameraPreview` has the ring
behind it. An action on a worker that is gone sets `crashed` and ends the
behaviour. Pictures of a minute come at any time instead of every sixtieth second.

### GlassesBridge and BspDevice

A device command is a sequence of operations (`Steps`); each posts a slot to
the main thread (`Post`) and waits on a condition that says only that some result
is there (`TakeResult`, `WaitTimesOut`). The main thread runs one slot, which
sends requests to the worker and waits in a nested event loop; after a timeout
of the caller the next slot can be run inside that wait (`RunSlotNested`),
where the adapter refuses a second request. `createGlasses` closes the old
glasses first, and repeats a failed attempt with a new worker. `bridge` and
`request` are the worker process, its two pipes and the response that
`sendRequest` waits for. After the main loop has ended (`Quit`) the main thread
itself is the caller (`BeginShutdown`).

### RawCapture

The stages of `capture_raw_frame` with an exit at each failure; `reboots` counts
the detached threads that have been told to reboot the glasses and have not done
so. `glasses` are up or not, stream or not, and hold the files of the last shot;
frames arrive independently and leave the metadata that name the next capture.

### Workflow

`HandleEvent` is the UI thread: it takes the oldest queued signal, runs
`handleCommandResult` or `handleStatusUpdate` on it, and the slots that react
to the signals these emit. `commands` is the normal queue of
`AgentManagerProcess`; the worker carries a command out (`Effect`) and
queues its result, the watchdog does the same for its own commands, and a result
does not say whose it is. What a command may answer is one operator for both
(`Answers`). `system` keeps of agent, device and watchdog what
these effects need. The requests of the controller that only abandon a flow and
set a state are one operator, `StateAfterRequest`.

### ScriptRun

`dialogs` is the stack of nested event loops in the UI thread; the buttons of
the page are dead while one is open (`Clickable`). `executor` is what `QProcess`
knows, `script` the process itself, `out` and `in` its pipes. A command is a
process of its own (`children`), whose goal reaches the subnode before its result
comes back. A script waits for the result of its command or goes on and collects it later
(`wait_for_result=False`); it has one at a time. `Interrupt` is
`shutdown_handler`: it leaves the command under way where it is (`stray`, unless that has
been carried out and only not been collected), gives `stop_record` and `stop_device`, and kills that command only when the
script ends (`CleanupEnds`). A script that dies leaves its children running
(`Abandon`).

### SampleFlow

`ImuReceived` and `CameraReceived` are the subscriber threads with the throttle
and the bounded queue; `BeginPoll` and `Poll` the two critical sections of
`pollReceiverData`, with the merge by name and `applyDataUpdate`;
`GetDisplayBuffer` the page that takes the points away.

## Runs

Every run ends without an error. What the models show of comments that are not
true is [below](#where-code-and-comments-disagree).

| Run | Bounds | Shows |
|---|---|---|
| `supervision_hotplug` | a loss is not answered by an emergency stop (the shipped setting); 1 user command of any kind, 2 faults, 2 plug events | `RecoveryIsSerial`, `AwaitedReplyIsDue`; `InitializingEnds`, `LossIsReported`, `PresenceIsRecovered` |
| `supervision_estop` | disconnect handling on; 2 commands that start or stop the device, 2 faults, 2 plugs | `NoRecoveryBehindEstop`, `LossEndsInEstop`; `HealthyIsInitialized` when initialization is left to the watchdog |
| `preview_ring` | 2 slots of 2 pieces, 4 frames, 1 restart of the writer, 1 of the preview | `AcceptedIsWholeUnlessOverwritten`, `ScanMissesNothing`; `PreviewCatchesUp` |
| `commands_orderly` | 2 commands of every kind, 1 timeout, 1 lost result; the agent disconnects at any time between two commands, also with requests still at the goal service | `AwaitedResultArrives`, `OverlapNeedsGiveUp`, `CommandsEndBeforeRelease`, `RemoteCommandSpec`; `StopEnds`, `EveryCommandIsAnswered` |
| `link_restart` | 3 subnode processes, 3 remote goals, 2 faults, 1 crash of the UI process | `CommandsReachOwnSubnode`, `OwnChildIsKnown`, `RepliesInStep`; `ConnectedIsServed` |
| `recording_stop` | 2 recordings, 3 samples, 1 deletion, 1 helper; buffers of 2 rows and 1 image | `SettledIsSaved`; `ContractSpec`, `FinalizingEnds` |
| `recording_images` | 4 frames, published or not, 2 recordings of any kind, with or without snapshots | `ImagesInOrder`, `StoppedIsComplete` |
| `device_commands` | 3 commands of any kind, 1 timeout, 1 death of the worker, 2 attempts | `ResponseIsOwn`, `ResultIsOwn`, `DeviceMatchesBridge`; `CommandEnds` |
| `capture_shots` | 3 captures, 5 other commands, 2 frames, 1 reboot | `OneShotPerName` |
| `workflow_oneclick` | 2 requests of any kind, 1 refresh of the page, 2 faults | `StartIsSentOnce`, `SuccessIsTrue`; `OneClickEnds` |
| `script_batch` | 2 runs of 2 scripts, 2 dialogs, 2 commands, 2 faults | `WaitsForItsAnswer`, `OneScriptAtATime`, `StopEndsRecording`; `StopEnds` |
| `data_queue` | queue of 3, curve of 2, 7 IMU samples, 2 frames, 1 restart, 3 clicks | `NewestIsKept`, `CurveIsOrdered` |

Each module has a type invariant (`TypeOK`; `CaptureTypeOK`, `WorkflowTypeOK`,
`DataTypeOK`), which is proved, and is not listed among the properties of the runs.

Why the bounds are enough for the cases that matter:

- *Supervision.* A stale recovery needs one timeout; a second one leaves two
  abandoned requests in the queue, which is where recoveries could pile up. One
  plug event makes a loss, two a loss and a return. One user command
  besides the `INIT_AGENT` of the start-up is enough to withdraw the agent, to
  register it anew or to release its device under a running recovery; the
  safety properties are also proved for any number of commands.
- *Preview.* A ring wraps with more frames than slots; four frames in two slots
  overwrite each slot twice, so a reader can be overtaken by exactly one round
  and by more. Two pieces are the least that can be torn. One restart puts a
  half-written old ring under a new writer.
- *Commands.* Two commands make an overlap after a timeout, and the late result
  of the first meets the second. One lost result is what keeps a caller waiting.
- *Agent connection.* An orphan of a crashed UI process, the subnode that is
  launched over it, and one more after a failed connection are three processes.
  Two faults are a failed scan or lost registration together with a crash or a
  timeout.
- *Recording.* The second recording is where a sample of the first would turn
  up; three samples fill the row buffer of two and leave one over, and a queue
  of one image is full at once.
- *Images.* An unread image, one that is read, one that is refused and one after
  it; the second recording finds what the first has left.
- *Device.* A timeout leaves one slot behind, in which the next command begins;
  a third command meets its late result. Two attempts to create are one retry.
- *Raw capture.* The second capture meets the names, files and pending reboot of
  the first, the third those of both.
- *Workflow.* A flow and a request in its middle; a failure and a loss, or two
  losses, put a late answer behind a new state.
- *Scripts.* Two scripts are a hand-over, two runs a Stop followed by a new
  batch, two dialogs a stale answer.
- *Samples.* Seven samples overflow a queue of three twice and the curve of two
  as well; one restart takes the time back once.

The safety theorems hold for every value of these bounds (see
[Proofs](#proofs)); the bounds matter for what is only model-checked.

## Fairness and deadlock

- *Supervision.* Weak fairness of the worker and the watchdog thread: both loop
  for as long as the application runs. Strong fairness of taking from the normal
  queue: the watchdog sleeps its check interval between two checks while the
  worker polls every 100 ms, so the urgent queue becomes empty again and again,
  and the worker then looks at the other. Nothing forces a user command, a plug
  event or a timeout.
- *Preview.* Weak fairness of the preview thread and of the UI event loop. The
  writer may stop anywhere, also in the middle of a frame.
- *Agent connection.* Weak fairness of the worker thread of the UI process while
  it connects, sends or disconnects, since every wait in there has a limit and
  the watchdog goes on sending checks; of the subscriber and of the subnodes'
  main threads. Nothing forces a crash, a lost registration or a release.
- *Recording, device, workflow, scripts.* Weak fairness of each thread that loops
  or runs on its own: both users of the recording flags, the writers and the
  callback; the calling thread, the main loop and the worker process (a wait of
  the factory or the adapter has a limit, so it ends even if the worker is
  silent); the worker thread, the UI event loop and the timer of the workflow; the
  UI event loop and the kill timer of a script, but not the script itself.
- *Raw capture, samples, images.* Safety only.
- *Commands.* Weak fairness of every thread: the caller once it has been
  answered or nothing can answer it any more, the subscriber, the service thread, each goal thread (the mutex is
  free after each command, and the number of goals is finite, so weak fairness is
  enough), the main thread once it has been told to terminate. The caller's
  clock runs: once the subnode is gone or the goal's thread has ended without
  publishing, its timeout comes in the end. Nothing forces a command to be sent,
  an early timeout, a loss or a termination.

Deadlock checking is off in every configuration because resting is legal
everywhere: no user command and no check due, a camera that has stopped, all
commands answered. That nobody waits forever is stated by the liveness
properties instead.

## Proofs

All theorems are about the unbounded specifications: any number of commands,
frames, slots, restarts, timeouts and plug events, subject to the named
assumptions on constants (`SupervisionAssumption`, `PreviewAssumption`,
`ActionAssumption`, `LinkAssumption`, `RemoteAssumption`, `RecordingAssumption`,
`ImageAssumption`, `DeviceAssumption`, `ScriptAssumption`, `CaptureAssumption`,
`WorkflowAssumption`, `FlowAssumption`), which only give them their types. `HealthyInitialized` has a hypothesis besides, named in its statement.
They are proved with the SMT back-end, Zenon and the temporal back-end.

**AgentSupervisionProofs.**
`TypeCorrect`. `InitializingOwned` needs a strengthening: whoever is inside
`init_device` has the command that says so in its hands.
`RecoverySerial`, `EstopNotOvertaken` and `AwaitedReplyDue` follow from one
invariant, `RequestDiscipline`: the request that the watchdog waits for is the
last synchronous one in the urgent queue, or it is running and the queue holds
none, or it is answered and the queue holds none; when the watchdog acts on an
answer the queue holds nothing at all. That is why a recovery, which begins
only after an answered check, can neither meet an older recovery nor slip in
behind an emergency stop, however many requests timed out before.
`RegisteredConnected` follows from the order in which the worker connects,
registers, unregisters and releases.
`HealthyInitialized` (`HealthyIsInitialized`) has the hypothesis `OperationsOnly`:
users start and stop the device but leave initialization and release to the
watchdog and the launch. Without it the property is false, since a
`release_device` of the user is not told to the watchdog. Its invariant
`HealthInv` follows where a command may come from (`LaunchFirst`,
`CommandOrigins`), which command answers which step of the watchdog
(`AwaitedCommands`), and what is known of the device on the way from a result to
the mark *healthy* (`Initialization`); the agent may have been withdrawn in
between, for good.

**CameraPreviewProofs.**
`TypeCorrect`, with where the reader stands. `PendingReleased` and
`UiQueueBounded` from `BackPressure`, which counts the frames between mark and
release, one for each preview thread there has been. `RingConsistent` from
`RingInv`, which describes the ring also while a new writer resets it; the
arithmetic of slots (`ModGap`, `ModShift`: two frames share a slot only if they
are a whole ring apart) is proved separately. `AcceptedWhole` and `ScanComplete`
are properties of steps, from `ReadInv`: what the scan has seen so far is at
least what had been published when it began, unless the writer has come round
since, and every piece that was copied belongs to the picked frame or to one that
the writer has begun since.

In the same module, `SampleFlow`: `DataTypes`, `NewestReachesPage`
(`NewestIsKept`) and `CurveKeepsOrder` (`CurveIsOrdered`) from `DataInv`.
`NewestInv` says where the newest item of a name is: in the queue as the last of
its name, with exactly as many items behind it as have been put in since; at the
page, with none of its name left in the queue; or lost, behind a whole queue of
others. `NewestIsKept` itself is not inductive, since it does not say how far the
item is from being dropped. `QueueOrdered` says that the samples in the queue have
rising times, all after the latest one at the page and none after the last one sent.
That is what the throttle gives, which a restart of the glasses does not reset, and
why a new sample is never taken for a restart (`LaterPoint`). `CurveInv` bounds the
curve and what was read of it by the latest sample. What a poll does to the curve is a recursive function over the
items taken; that it exists (`CurveExists`) and keeps the curve going forward
(`CurveGoesForward`) is shown for every number of items by `SetInduction`, which is
induction stated for a set, from the order of the numbers being well-founded.

**ActionCommandsProofs.**
`TypeCorrect`, with what program counters say about data (`CallerInPlace`,
`ThreadInPlace`, `FreshGoals`). `ResultArrives` from three parts: a published
result is somewhere (`PublishedIsOnTheWay`), the callback of a waiting caller is
registered until its result has been taken (`CallbackIsReady`), and the property.
Neither of the first two alone survives the step that moves a result into
`pending`. `ReleaseAfterCommands` (`CommandsEndBeforeRelease`) holds for every `Stops`,
so for signals too. It says what remains, since
goals do execute while `release()` runs ([below](#where-code-and-comments-disagree)):
none of them was answered before the server was closed, and if the agent has
disconnected its request had timed out. `CloseInv` is the side of the subnode:
as long as the server has its maps, each goal that lives is in them, with its thread
unless it is just being taken (`LiveThreadsStored`); so the destructor waits for
every accepted goal (`AcceptedJoined`), and afterwards all of them have ended
(`AcceptedEnded`). `LeaveInv` is the side of the agent: a caller that knows its goal, or
was told that the goal is posted, has got its answer from the service, so its goal is
accepted (`CallerAccepted`, `PostedAccepted`), and a client that is closed has no
caller (`WhoStops`).

In the same module, `CommandsAreRemote`: `Spec => RemoteCommandSpec`, and `CommandsTakeTurns`. The
invariant `CommandInv` says that commands are numbered as they are sent, that
the inbox and the goals carry each of them at most once and in order, that at
most one thread runs, that every result on its way or stored tells what the
thread of its goal has done, and that exactly the past commands have been
replied to. Each step then maps to one step of `RemoteCommand` or to none:
sending to `Send`, taking the lock to `Start`, the end of a command to `Finish`
or `Refuse`, the return of `cmd` to `Answer` or `DoNotWait`.

**AgentLinkProofs.**
`TypeCorrect`. `OwnReply` (`RepliesInStep`) from `OneExchange`: at most one
request or reply is on its way for the present socket, it belongs to the goal
that is waited for, and none is while nothing is waited for. That is what the
replacement of the socket after a timeout restores. `NoChildLeft`
(`OwnChildIsKnown`) and `OwnSubnodeServes` (`CommandsReachOwnSubnode`) from one
invariant, `LinkInv`: no process is known before one is launched, an endpoint
is held while a command may be sent, and once the scan and the sweep are over,
unless the scan has failed, no process of an earlier UI lives. Only the last
part excludes that the names lead to a living stranger.

**RecordingProofs.**
`TypeCorrect`, `HelpersEnd` (`HelpersEndWithRecording`) and
`SettledSamplesSaved` (`SettledIsSaved`) from one invariant, `RecordingInv`.
Its control part says that one thread at a time is inside start, stop or
release (`OneAtATime`), that helpers exist only while a recording or its end is under
way (`HelpersHeld`), and when each writer is open, closing or joined (`CsvUp`,
`ImagesUp`). Its data part follows a sample from its callback to the disk:
`Numbered` says that whatever a buffer, a queue or a thread holds is of this
recording or an older one; `OnItsWay` that a settled sample is in the file, in
the buffer or queue of a writer that still has to be flushed, or in the hands of
the thread that writes it; `UnderWay` says the same of the sample in the hands of
the callback itself. The last is needed since the callback adds to a
buffer without a lock on the recording: the buffer may be flushed, the writer
closed, between its test of the flag and its end.

In the same module, `RecordingKeepsContract`: `Spec => ContractSpec`. The mapping needs
one more invariant, `WritersHeld`: a writer thread that has not been joined
writes into the folder of the recording begun last, which is being started, on or being
finished, so that each row or image written is a `Write` of the contract and
`BeginStart` finds no thread left over; and helpers are launched only where none run.
Then every action is one step of the contract or none: a failed start, also one
that has to close its CSV writer again, is `Start`; `TakeOver` is `Stop`, and a second
thread that is refused changes nothing; a callback is `Arrive` where it settles its
sample (`CallbackKeepsContract`, from `UnderWay`); what a writer holds is owed to no
other recording (`NotOwedToOthers`, from `OnItsWay`), and a recording is at its last
step only when it has all it owes (`FinishedHasAll`).

**ImageRecordingProofs.**
`TypeCorrect`. `SavedInOrder` (`ImagesInOrder`) from `SlotIsNewest` (the
published slot is not older than what was read), `CallbackOwnsSlot` (a callback
that is to save a published image holds that of its own message) and `SavedIsOlder`
(what was saved is older than what is still to come). `StopCompletesPictures`
(`StoppedIsComplete`) from the life of the worker (`WorkerLife`), who may
be inside a row (`RowsInPlace`) and `StopIsComplete`, which follows
`cmdStopRecord` from the flag to the join of the thread.

In the same module, `RawCapture`: `RawTypes` and `RawFilesOfOneShot`
(`OneShotPerName`) from `ShotInv`. A capture that has found no file of its name
finds none until it has fetched one, and has added to each text file at most once
(`CaptureIsWhereItStands`); the rows of the text files belong to files that are
there (`FrameRowsBelong`, `MetadataBelongs`), so that a name without a file has no
row; and a frame file on the glasses is of the same shot as their raw file
(`GlassesAreOfOneShot`), which the clean-up of the script before a shot restores.

**BspDeviceProofs.**
`TypeCorrect`, with where callers, slots and the worker stand (`CallInPlace`,
`ShutdownInPlace`, `SlotInPlace`, `BridgeInPlace`). `OwnResponse`
(`ResponseIsOwn`) from `NumbersUsed` and `NumbersTell`: numbers are never given
out twice, even over restarts of the worker, and what carries the number that is
waited for is of the same action. `OwnResult` (`ResultIsOwn`) from
`OneOperation`: as long as no wait has run out there is exactly one slot, posted or
begun, for an operation that waits, and none otherwise; so the result that wakes a
caller is its own, although nothing in the condition says so. `FlagsMatchGlasses`
(`DeviceMatchesBridge`) from `DeviceInv`, which follows one operation through the
slot, the pipe, the worker, the pipe and the result: the pipes hold one request or
its response (`OneRequest`); before it is carried out the flags and
the glasses are as the command needs them (`ReadyFor`), afterwards they are as its
caller will be told (`DoneWith`), for each outcome the SDK may choose; and the
handle stands for the glasses except while these are made or closed
(`HandleAgrees`). The worker may have more than the flags claim: an SDK call that fails
after it has made the glasses leaves them there.

**ScriptRunProofs.**
`TypeCorrect`, `OwnAnswer` (`WaitsForItsAnswer`), `OneScript` (`OneScriptAtATime`) and
`StopLeavesNoRecording` (`StopEndsRecording`) from one invariant, `ScriptInv`. The
process of the executor is the one the page waits for, and no script lives
without it (`OwnedProcess`). `ChildrenInPlace` says which command processes exist
where the script stands: while it cleans up, its own one is over, unless a
command was given up. `GoalsOwned`: until then the subnode holds only goals of
command processes that still wait, so that no `start_record` can be carried
out after the `stop_record` of the clean-up. `RecordingStopped` follows from both:
the recording is off when that command has its result, and stays off.
`WaitsForItsAnswer` rests on `QuestionOnce`: the question of the script, or its answer,
is in one place only among its output, the open dialogs and its input, and no
number is on its way that has not been given out.

In the same module, `Workflow`: `FlowTypes`, `OneStartPerFlow` (`StartIsSentOnce`) and
`ShownSuccessIsTrue` (`SuccessIsTrue`) from `FlowInv`. For the first, a flow that
has not dispatched its start has sent none (`StartInv`). For the second, the queue
of events has to be read as what it will still do: an event *grants* a success or
*clears* it, and as long as the glasses of an agent under watch are not started, each
success that is shown, and each grant in the queue, is followed by an event that
clears it (`Settles`). The worker and the watchdog keep that because whatever stops or
loses the glasses queues such an event behind all earlier ones.

**Only model-checked.** Liveness (`InitializingEnds`, `LossIsReported`,
`PresenceIsRecovered`, `LossEndsInEstop`, `PreviewCatchesUp`,
`EveryCommandIsAnswered`, `StopEnds` of both modules, `ConnectedIsServed`,
`FinalizingEnds`, `CommandEnds`, `OneClickEnds`): the provers do not handle fairness.
Every safety property of every run is proved.

## Where code and comments disagree

These were met while modelling. The models contain the behaviours, if nothing
else is said, and the properties say what is true in spite of them:

- `subnodes/main_subnode.cpp:1980` — the device is said to be stopped and released
  when the subnode ends; `bspMainSubnodeMain` calls `release()` in the main thread
  after its event loop, where each operation of the factory waits 30 s for a
  slot that only this thread could run. The shutdown ends (`CommandEnds`), and
  the sensors are still on when it returns.
- `main_subnode.cpp:2178` — frames are said to be fed to a snapshot worker that
  exists only while recording; the callback tests and calls it (2213, 2217)
  without the lock under which `cmdStopRecord` takes it away (1884). In
  `ImageRecording` such a call sets `crashed`.
- `main_subnode.cpp:362` — the mean colours are said to be written as one row; `stop()`
  writes one (264) before it has joined the thread that may be writing another
  (`inRow` of `ImageRecording` holds both).
- `main_subnode.cpp:2151` — the image of a message is said to be in the shared memory,
  from where it is read back; a message whose image was refused (`shm_seq` 0) gets an
  earlier image that nobody has read. `ImagesInOrder` speaks of the published ones.
- `main_subnode.cpp:452` — snapshots are said to be taken every minute, and called
  after it; when no frame comes within the first five seconds, an attempt is made
  every second, and each counts as a minute (476). (The times of the pictures are
  not in the model.)
- `backend/agent_watchdog.cpp:135` — automatic state changes are said to pause
  during an explicit `init_device`; the watchdog's own recovery, whose wait
  has timed out, writes its failure over it (line 437).
- `agent_watchdog.h:8` — recovery of a check is said to run `init_device`; after
  unplug and replug a `start_device` that answers "Already started" marks the
  agent healthy first, and no `init_device` follows.
- `common/camera_shared_memory.cpp:269` — the second look at the slot number is
  said to keep half frames out; the writer leaves the old number in place while it
  overwrites. `AcceptedIsWholeUnlessOverwritten` says what remains true.
- `subnodes/base_subnode.cpp:173` — the emergency stop is said to set its flag at
  once; it waits for the lock of the command that it should interrupt, and
  the next command clears the flag (lines 227, 240).
- `subnodes/base_subnode.cpp:425` — closing the action server is said to keep
  new commands out; the goal service runs until its server is destroyed, so that a
  signal, or a disconnect after a service call that has timed out, can meet a goal that
  is being accepted. It gets a detached thread, which may execute while `release()`
  runs. `CommandsEndBeforeRelease` says which goals these can be.
- `subnodes/main_subnode.cpp:983` — `close()` flushes the rows that are left, but
  the callback of a sample that overtakes it leaves a row in the buffer, which
  the next recording writes into its own file.
- `backend/data_receiver.cpp:181` — after a restart of the glasses, whose clock
  starts again, the throttle lets nothing through until the old time is passed.

## What is not modelled

- In the supervision: `SHUTDOWN`, dialog requests, queries, secondary agents,
  `restart_device` (`processLoop` treats it as a start, but no subnode registers such
  a command, so it only fails), start and stop of the two threads, the clock (a timeout may come at any time).
- In the preview: attaching and detaching, the 3 s forced termination of the
  preview thread, weak memory, scaling and statistics. A new writer whose
  numbers have not yet passed those that the preview remembers shows nothing;
  no property claims otherwise.
- In the command path: cancellation and feedback (the agent uses neither).
- In the agent connection: two agents with the same name or port, the file
  copies of `copyFolderFromRemote`, the localhost agent (not in the shipped
  configuration), `autoInitializeRemoteAgentsAsync` (nothing calls it).
- In recordings: contents and formats of files, an error of the disk in the
  middle of a file, `recordPath_` read by the callbacks while it changes (a data
  race on a string).
- In images: an error of the disk while a picture is saved, the names and times of
  the snapshots, and the second camera (the two have slots and numbers of their own).
- In the device: SSH and its configuration files, sensor masks, camera modes,
  the framing of messages on the pipe, samples that share it.
- In raw captures: rows other than the shot in the text files, the size of files,
  and `cleanup_remote_before_capture=false`, which no caller passes; a shot without a
  frame file would then keep the one of the shot before.
- In the workflow: the emergency stop of the watchdog, which the shipped setting
  `suppress_disconnect_dialog` of the primary agent rules out (`AgentSupervision` has
  it); texts and progress; the 1500 ms refresh of the page is an
  event of its own, bounded by `MaxRefreshes`. It abandons a flow that is
  waiting, and takes its timer with it.
- In scripts: the steps of the recording procedure, log lines and panels.
- In the data receiver: measured frequencies, custom data, the registry.
- `UIMessageBridge`: nothing in the sources calls its questions.
- Data races on containers (`restoreStartDeviceAfterInit_`,
  `connectedAgents_`): the models read and write the value, a corrupted container
  is out of their reach.
- Vendored libraries, widgets, configuration, logging, file lookups, the motion
  detector (floating point): no state with an order to get wrong.

## Plan

In order of use:

1. The thread start and stop of the supervision and a timed model of its two
   queues, for the starvation of the normal one.
2. An abstract request and reply with timeouts, implemented by the synchronous
   commands of `AgentSupervision`, by `RemoteLink` and by `GlassesBridge`.
