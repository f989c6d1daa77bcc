------------------------------ MODULE BspDevice ------------------------------
(***************************************************************************)
(* The device of the BSP subnode: BspDevice and its GlassesFactory.  A     *)
(* command of the goal thread calls operations of the factory one after    *)
(* the other; each posts a slot to the main thread and waits for its       *)
(* result at most 30 s, on a condition that says only that some result is  *)
(* there.  The slots use the adapter of GlassesBridge; while one waits in  *)
(* its nested event loop, the next one can be run inside of it.            *)
(*                                                                         *)
(* When the main loop has ended the goal thread is joined and release() is *)
(* called by the main thread itself.  SSH, sensor masks and camera modes   *)
(* are left out: the data sensors are on or off.                           *)
(***************************************************************************)
EXTENDS GlassesBridge

CONSTANTS
  Retries,       \* retryCount of createGlasses
  MaxCommands,   \* bound: device commands
  MaxTimeouts,   \* bound: waits of the factory or the adapter that run out
  MaxCrashes     \* bound: deaths of the worker

ASSUME DeviceAssumption ==
  /\ Retries \in Nat \ {0}
  /\ MaxCommands \in Nat /\ MaxTimeouts \in Nat /\ MaxCrashes \in Nat

VARIABLES
  device,    \* isInitialized_, isStarted_ and glasses_
  call,      \* the thread that calls the factory and where it stands
  pending,   \* pendingResult_ and the operation it is of
  slots,     \* slots posted to the main thread
  slot,      \* the slot the main thread has begun
  quit,      \* the main loop has ended
  used       \* events used up

deviceVars == <<device, call, pending, slots, slot, quit, used>>
vars == <<bridge, request, device, call, pending, slots, slot, quit, used>>

Commands == {"init", "init_unready", "start", "stop", "release", "check", "control", "query"}
\* The operations of the commands, by what they are called for.
ActionOf ==
  [create |-> "create", open |-> "open",
   start |-> "start", configure |-> "configure", undo |-> "stop",
   display |-> "configure",
   stop |-> "stop", stop_all |-> "stop", halt |-> "stop", close |-> "close",
   enumerate |-> "enumerate", state |-> "state", adjust |-> "configure"]
Steps == DOMAIN ActionOf

Slots == [action : Actions, number : Nat]
NoSlot == [action |-> "none", number |-> 0]
NoResult == [number |-> 0, ok |-> FALSE]

TypeOK ==
  /\ BridgeTypeOK
  /\ device \in [initialized : BOOLEAN, started : BOOLEAN, handle : BOOLEAN]
  /\ call \in [thread : {"goal", "main"}, pc : {"idle", "exited"} \cup Steps,
               waiting : BOOLEAN, woken : BOOLEAN, number : Nat]
  /\ pending \in [number : Nat, ok : BOOLEAN]
  /\ slots \in Seq(Slots)
  /\ slot \in [action : Actions \cup {"none"}, number : Nat,
               stage : Actions, attempt : 1..Retries]
  /\ quit \in BOOLEAN
  /\ used \in [commands : 0..MaxCommands, timeouts : 0..MaxTimeouts,
               crashes : 0..MaxCrashes]

NothingBegun == [action |-> "none", number |-> 0, stage |-> "state", attempt |-> 1]

Init ==
  /\ BridgeInit
  /\ device = [initialized |-> FALSE, started |-> FALSE, handle |-> FALSE]
  /\ call = [thread |-> "goal", pc |-> "idle", waiting |-> FALSE,
             woken |-> FALSE, number |-> 0]
  /\ pending = NoResult
  /\ slots = <<>>
  /\ slot = NothingBegun
  /\ quit = FALSE
  /\ used = [commands |-> 0, timeouts |-> 0, crashes |-> 0]

TimeoutLeft == used.timeouts < MaxTimeouts
CountTimeout == used' = [used EXCEPT !.timeouts = @ + 1]

---------------------------------------------------------------------------
(* The commands of BspDevice, from operation to operation                   *)

Flags(initialized, started) ==
  [device EXCEPT !.initialized = initialized, !.started = started]

\* Faulty variant: the flags are left as they are.
NotCleared == device

Cleared == Flags(FALSE, FALSE)

\* release(): without glasses there is nothing to close.
ReleaseFrom(d) ==
  IF ~d.handle THEN "idle" ELSE IF d.started THEN "halt" ELSE "close"

\* runtimeState(): the state of the glasses, if there are any.
QueryFrom(d) == IF d.handle THEN "state" ELSE "idle"

\* Where a command begins and what it does to the flags before.  An init that finds
\* no SSH server ready ends there, and the glasses stay as they are.
Begins(cmd) ==
  CASE cmd = "init" -> [pc |-> "create", device |-> Cleared]
    [] cmd = "init_unready" -> [pc |-> "idle", device |-> Cleared]
    [] cmd = "start" -> [pc |-> IF device.initialized /\ ~device.started
                                  THEN "start" ELSE "idle", device |-> device]
    [] cmd = "stop" -> [pc |-> "stop", device |-> device]
    [] cmd = "release" -> [pc |-> ReleaseFrom(device),
                           device |-> IF device.handle THEN device ELSE Cleared]
    [] cmd = "check" -> [pc |-> "enumerate", device |-> device]
    [] cmd = "control" -> [pc |-> "adjust", device |-> device]
    [] cmd = "query" -> [pc |-> QueryFrom(device), device |-> device]

Ended(d) == [pc |-> "idle", device |-> d]
GoOn(step) == [pc |-> step, device |-> device]

\* release() as the end of an init that failed, or of the shutdown.
Releases == [pc |-> ReleaseFrom(device),
             device |-> IF device.handle THEN device ELSE Cleared]

\* Where an operation of each command can lead, when its result is ok or not.
InitDevice(step, ok) ==
  CASE step = "create" -> IF ok THEN {GoOn("open")} ELSE {Ended(device)}
    [] step = "open" -> IF ok THEN {Ended(Flags(TRUE, FALSE))} ELSE {Releases}

StartDevice(step, ok) ==
  CASE step = "start" -> IF ok THEN {GoOn("configure"), Ended(Flags(TRUE, TRUE))}
                               ELSE {Ended(device)}
    [] step = "configure" -> IF ok THEN {GoOn("display"), Ended(Flags(TRUE, TRUE))}
                                   ELSE {GoOn("undo")}
    [] step = "display" -> {Ended(Flags(TRUE, TRUE))}
    [] step = "undo" -> {Ended(device)}

StopDevice(ok) == Ended(IF ok THEN Flags(device.initialized, FALSE) ELSE device)

ReleaseDevice(step) ==
  IF step = "halt" THEN {GoOn("close")} ELSE {Ended(Cleared)}

CheckDevice(step, ok) ==
  IF step = "enumerate" /\ ok /\ device.handle THEN {GoOn("state")} ELSE {Ended(device)}

ControlDevice == {Ended(device)}

After(step, ok) ==
  CASE step \in {"create", "open"} -> InitDevice(step, ok)
    [] step \in {"start", "configure", "display", "undo"} -> StartDevice(step, ok)
    [] step = "stop" -> {StopDevice(ok)}
    [] step = "stop_all" -> IF ok THEN {Releases} ELSE {Ended(device)}
    [] step \in {"halt", "close"} -> ReleaseDevice(step)
    [] step \in {"enumerate", "state"} -> CheckDevice(step, ok)
    [] step = "adjust" -> ControlDevice

BeginCommand ==
  /\ call.pc = "idle" /\ call.thread = "goal" /\ ~quit
  /\ used.commands < MaxCommands
  /\ \E cmd \in Commands :
        /\ call' = [call EXCEPT !.pc = Begins(cmd).pc]
        /\ device' = Begins(cmd).device
  /\ used' = [used EXCEPT !.commands = @ + 1]
  /\ UNCHANGED <<bridgeVars, pending, slots, slot, quit>>

\* disconnect() has joined the goal thread; onRelease stops the device, and
\* releases it if that has succeeded.
BeginShutdown ==
  /\ quit /\ call.pc = "idle" /\ call.thread = "goal" /\ slot.action = "none"
  /\ call' = [call EXCEPT !.thread = "main", !.pc = "stop_all"]
  /\ UNCHANGED <<bridgeVars, device, pending, slots, slot, quit, used>>

EndShutdown ==
  /\ call.thread = "main" /\ call.pc = "idle"
  /\ call' = [call EXCEPT !.pc = "exited"]
  /\ UNCHANGED <<bridgeVars, device, pending, slots, slot, quit, used>>

---------------------------------------------------------------------------
(* GlassesFactory, in the thread that calls it                              *)

\* Faulty variant: the slot is posted twice.
PostTwice ==
  /\ call.pc \in Steps /\ ~call.waiting
  /\ call' = [call EXCEPT !.waiting = TRUE, !.woken = FALSE, !.number = @ + 1]
  /\ pending' = NoResult
  /\ LET s == [action |-> ActionOf[call.pc], number |-> call.number + 1]
     IN slots' = slots \o <<s, s>>
  /\ UNCHANGED <<bridgeVars, device, slot, quit, used>>

\* The mutex is held from here until the wait has begun.
Post ==
  /\ call.pc \in Steps /\ ~call.waiting
  /\ call' = [call EXCEPT !.waiting = TRUE, !.woken = FALSE, !.number = @ + 1]
  /\ pending' = NoResult
  /\ slots' = Append(slots, [action |-> ActionOf[call.pc], number |-> call.number + 1])
  /\ UNCHANGED <<bridgeVars, device, slot, quit, used>>

Continue(ok) ==
  \E next \in After(call.pc, ok) :
     /\ call' = [call EXCEPT !.pc = next.pc, !.waiting = FALSE, !.woken = FALSE]
     /\ device' = next.device

\* The result that is there is taken, whichever operation it is of.
TakeResult ==
  /\ call.waiting /\ call.woken
  /\ Continue(pending.ok)
  /\ pending' = NoResult
  /\ UNCHANGED <<bridgeVars, slots, slot, quit, used>>

\* The wait runs out; the slot stays posted or goes on.  After the main loop has
\* ended nothing else can happen to it.
WaitTimesOut ==
  /\ call.waiting /\ ~call.woken
  /\ \/ quit /\ slot.action = "none" /\ UNCHANGED used
     \/ ~quit /\ TimeoutLeft /\ CountTimeout
  /\ Continue(FALSE)
  /\ UNCHANGED <<bridgeVars, pending, slots, slot, quit>>

---------------------------------------------------------------------------
(* GlassesFactory, in the main thread                                       *)

\* Faulty variant: the result is stored and nobody is woken.
SetResultQuietly(number, ok) ==
  /\ pending' = [number |-> number, ok |-> ok]
  /\ call' = call

\* setResult stores the result and wakes the thread that waits, if one does.
SetResult(number, ok) ==
  /\ pending' = [number |-> number, ok |-> ok]
  /\ call' = [call EXCEPT !.woken = call.waiting]

\* Actions that the adapter refuses without glasses.
NeedHandle == {"open", "start", "stop", "configure", "state"}

\* A slot whose operation ends without a request to the worker.
EndsAtOnce(s) ==
  \/ s.action \in NeedHandle /\ ~device.handle
  \/ s.action = "close" /\ ~bridge.alive

\* A close without a worker only forgets the handle.
RunSlotAtOnce ==
  /\ ~quit /\ slot.action = "none" /\ request.phase = "idle"
  /\ slots # <<>> /\ EndsAtOnce(Head(slots))
  /\ SetResult(Head(slots).number, Head(slots).action = "close")
  /\ device' = [device EXCEPT !.handle = @ /\ Head(slots).action # "close"]
  /\ slots' = Tail(slots)
  /\ UNCHANGED <<bridgeVars, slot, quit, used>>

\* createGlasses closes the glasses it has; without a worker this only forgets
\* the handle.
RunSlot ==
  /\ ~quit /\ slot.action = "none" /\ request.phase = "idle"
  /\ slots # <<>> /\ ~EndsAtOnce(Head(slots))
  /\ LET s == Head(slots)
         closeFirst == s.action = "create" /\ device.handle
     IN /\ slot' = [action |-> s.action, number |-> s.number, attempt |-> 1,
                    stage |-> IF closeFirst /\ bridge.alive THEN "close" ELSE s.action]
        /\ device' = [device EXCEPT !.handle = @ /\ (closeFirst => bridge.alive)]
  /\ slots' = Tail(slots)
  /\ UNCHANGED <<bridgeVars, call, pending, quit, used>>

SlotSends ==
  /\ slot.action # "none"
  /\ SendRequest(slot.stage)
  /\ UNCHANGED deviceVars

\* A slot that is run inside the event loop of another one is refused
\* ("request reentry"), which for create and close still costs the handle.
RunSlotNested ==
  /\ ~quit /\ slot.action # "none" /\ request.phase = "waiting"
  /\ slots # <<>>
  /\ LET s == Head(slots) IN
       /\ SetResult(s.number, s.action = "close" /\ ~bridge.alive)
       /\ device' = [device EXCEPT !.handle = @ /\ s.action \notin {"create", "close"}]
  /\ slots' = Tail(slots)
  /\ UNCHANGED <<bridgeVars, slot, quit, used>>

Answered == request.answer # NoResponse /\ request.answer.ok

FreeRequest == request' = [request EXCEPT !.phase = "idle"]

\* createGlasses has closed the old glasses, whatever came back.
SlotClosedFirst ==
  /\ slot.action = "create" /\ slot.stage = "close" /\ request.phase = "returned"
  /\ FreeRequest
  /\ slot' = [slot EXCEPT !.stage = "create"]
  /\ device' = [device EXCEPT !.handle = FALSE]
  /\ UNCHANGED <<bridge, call, pending, slots, quit, used>>

AttemptsLeft == slot.attempt < Retries

\* A failed attempt to create is repeated with a new worker; one that is not worth
\* it is the last one, however many are left (SlotEnds).
SlotRetries ==
  /\ slot.stage = "create" /\ request.phase = "returned" /\ ~Answered
  /\ AttemptsLeft
  /\ ShutdownBridge
  /\ FreeRequest
  /\ slot' = [slot EXCEPT !.attempt = @ + 1]
  /\ UNCHANGED <<device, call, pending, slots, quit, used>>

SlotEnds ==
  /\ slot.action # "none" /\ slot.stage = slot.action
  /\ request.phase = "returned"
  /\ FreeRequest
  /\ SetResult(slot.number, Answered)
  /\ slot' = NothingBegun
  /\ device' = [device EXCEPT !.handle = CASE slot.action = "create" -> Answered
                                           [] slot.action = "close" -> FALSE
                                           [] OTHER -> @]
  /\ UNCHANGED <<bridge, slots, quit, used>>

---------------------------------------------------------------------------
MainReads == (~quit \/ slot.action # "none") /\ HandleResponse /\ UNCHANGED deviceVars

RequestTimesOut ==
  /\ GiveUpRequest
  /\ \/ quit /\ UNCHANGED used
     \/ ~quit /\ TimeoutLeft /\ CountTimeout
  /\ UNCHANGED <<device, call, pending, slots, slot, quit>>

Crash ==
  /\ used.crashes < MaxCrashes
  /\ BridgeDies
  /\ used' = [used EXCEPT !.crashes = @ + 1]
  /\ UNCHANGED <<device, call, pending, slots, slot, quit>>

Quit ==
  /\ ~quit
  /\ quit' = TRUE
  /\ UNCHANGED <<bridgeVars, device, call, pending, slots, slot, used>>

Caller == Post \/ TakeResult \/ WaitTimesOut \/ BeginShutdown \/ EndShutdown

MainLoop ==
  \/ RunSlotAtOnce \/ RunSlot \/ SlotSends \/ RunSlotNested
  \/ SlotClosedFirst \/ SlotRetries \/ SlotEnds
  \/ MainReads \/ RequestTimesOut
  \/ BridgeFinished /\ UNCHANGED deviceVars

Worker == HandleCommand /\ UNCHANGED deviceVars

Next == BeginCommand \/ Caller \/ MainLoop \/ Worker \/ Crash \/ Quit

Spec == Init /\ [][Next]_vars

\* The two threads and the worker run.
FairSpec == Spec /\ WF_vars(Caller) /\ WF_vars(MainLoop) /\ WF_vars(Worker)

---------------------------------------------------------------------------
(* Properties                                                               *)

\* As long as no wait of the factory has run out, the result an operation is
\* woken with is its own: mutex, single waiter and one slot per operation see to
\* that, without a word in the condition.
ResultIsOwn ==
  used.timeouts = 0 /\ call.waiting /\ call.woken => pending.number = call.number

\* Between two commands, as long as nothing has run out or died, what the flags of
\* the device claim holds of the glasses in the worker, whatever the SDK has refused.
\* The worker may have more: glasses left by a create or an init that has failed.
DeviceMatchesBridge ==
  used.timeouts + used.crashes = 0 /\ ~quit /\ call.pc = "idle" =>
    /\ device.initialized => bridge.glasses = "open"
    /\ device.started => bridge.sensors
    /\ device.handle => bridge.glasses # "none"

\* Every command ends, though its results may be lost or taken by another; and so does
\* the shutdown, where the main thread waits for slots that only it could run.
CommandEnds == call.pc \in Steps ~> call.pc \notin Steps
=============================================================================
