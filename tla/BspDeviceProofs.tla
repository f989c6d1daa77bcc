--------------------------- MODULE BspDeviceProofs ---------------------------
(***************************************************************************)
(* Machine-checked proofs about BspDevice and the GlassesBridge it uses,   *)
(* for every number of attempts, commands, timeouts and crashes.           *)
(***************************************************************************)
EXTENDS BspDevice, TLAPS

---------------------------------------------------------------------------
(* Type correctness *)

\* A thread that waits is in an operation, and only such a thread is woken.
CallInPlace ==
  /\ call.waiting => call.pc \in Steps
  /\ call.woken => call.waiting

\* The main loop has ended when the main thread releases the device.
ShutdownInPlace ==
  /\ call.thread = "main" => quit
  /\ call.pc \in {"stop_all", "exited"} => quit

\* A slot is at its own action, or a create at closing the old glasses; the
\* adapter is free when no slot has begun.
SlotInPlace ==
  /\ slot.action = "none" => slot.stage = "state" /\ request.phase = "idle"
  /\ slot.action # "none" =>
       \/ slot.stage = slot.action
       \/ slot.action = "create" /\ slot.stage = "close"

\* Without a worker there are no glasses; sensors are those of glasses.
BridgeInPlace ==
  /\ ~bridge.alive => /\ bridge.glasses = "none" /\ ~bridge.sensors
                      /\ bridge.inbox = <<>>
  /\ bridge.sensors => bridge.glasses # "none"

Typed ==
  TypeOK /\ CallInPlace /\ ShutdownInPlace /\ SlotInPlace /\ BridgeInPlace

---------------------------------------------------------------------------
(* Facts about the records of the model *)

Calls == [thread : {"goal", "main"}, pc : {"idle", "exited"} \cup Steps,
          waiting : BOOLEAN, woken : BOOLEAN, number : Nat]
Devices == [initialized : BOOLEAN, started : BOOLEAN, handle : BOOLEAN]
Bridges == [alive : BOOLEAN, glasses : Glasses, sensors : BOOLEAN,
            inbox : Seq(Request), outbox : Seq(Response)]
RequestStates == [phase : {"idle", "waiting", "returned"}, id : Nat,
                  action : Actions, answer : {NoResponse} \cup Response,
                  next : Nat]
SlotStates == [action : Actions \cup {"none"}, number : Nat,
               stage : Actions, attempt : 1..Retries]
UsedStates == [commands : 0..MaxCommands, timeouts : 0..MaxTimeouts,
               crashes : 0..MaxCrashes]

LEMMA Types ==
  TypeOK <=> /\ bridge \in Bridges /\ request \in RequestStates
             /\ device \in Devices /\ call \in Calls
             /\ pending \in [number : Nat, ok : BOOLEAN]
             /\ slots \in Seq(Slots) /\ slot \in SlotStates
             /\ quit \in BOOLEAN /\ used \in UsedStates
  BY Zenon DEF TypeOK, BridgeTypeOK, Calls, Devices, Bridges, RequestStates,
     SlotStates, UsedStates

LEMMA StepActions ==
  /\ Steps = {"create", "open", "start", "configure", "undo", "display",
              "stop", "stop_all", "halt", "close", "enumerate", "state",
              "adjust"}
  /\ \A step \in Steps : ActionOf[step] \in Actions
  /\ ActionOf["create"] = "create" /\ ActionOf["open"] = "open"
  /\ ActionOf["start"] = "start" /\ ActionOf["configure"] = "configure"
  /\ ActionOf["undo"] = "stop" /\ ActionOf["display"] = "configure"
  /\ ActionOf["stop"] = "stop" /\ ActionOf["stop_all"] = "stop"
  /\ ActionOf["halt"] = "stop" /\ ActionOf["close"] = "close"
  /\ ActionOf["enumerate"] = "enumerate" /\ ActionOf["state"] = "state"
  /\ ActionOf["adjust"] = "configure"
  BY DEF Steps, ActionOf, Actions

LEMMA ResponseTypes ==
  /\ NoResponse.id = 0 /\ NoResponse.ok = FALSE
  /\ \A r \in Response : r.id \in Nat /\ r.action \in Actions /\ r.ok \in BOOLEAN
  /\ \A id \in Nat, action \in Actions, ok \in BOOLEAN :
       /\ [id |-> id, action |-> action, ok |-> ok] \in Response
       /\ [id |-> id, action |-> action, ok |-> ok].id = id
       /\ [id |-> id, action |-> action, ok |-> ok].action = action
       /\ [id |-> id, action |-> action, ok |-> ok].ok = ok
  BY DEF NoResponse, Response

\* What the worker does to an action: the outcome, case by case.
LEMMA OutcomeCases ==
  ASSUME bridge \in Bridges, BridgeInPlace, NEW action \in Actions,
         NEW o \in Outcomes(action)
  PROVE  /\ o.ok \in BOOLEAN /\ o.glasses \in Glasses /\ o.sensors \in BOOLEAN
         /\ o.sensors => o.glasses # "none"
         /\ action = "create" /\ o.ok => o.glasses = "created"
         /\ action \notin {"create", "close"} =>
              /\ o.glasses = "none" <=> bridge.glasses = "none"
              /\ action # "open" => o.glasses = bridge.glasses
              /\ action = "open" /\ o.ok => o.glasses = "open"
              /\ action \notin {"start", "stop"} => o.sensors = bridge.sensors
              /\ action \in {"start", "stop"} /\ ~o.ok => o.sensors = bridge.sensors
              /\ action = "start" /\ o.ok => o.sensors
<1>0. /\ bridge.glasses \in Glasses /\ bridge.sensors \in BOOLEAN
      /\ bridge.sensors => bridge.glasses # "none"
      /\ "none" \in Glasses /\ "created" \in Glasses /\ "open" \in Glasses
  BY DEF Bridges, Glasses, BridgeInPlace
<1>1. CASE action = "create"
  <2>1. \/ (o.ok = FALSE /\ o.glasses = "none" /\ o.sensors = FALSE)
        \/ (o.ok = FALSE /\ o.glasses = "created" /\ o.sensors = FALSE)
        \/ (o.ok = TRUE /\ o.glasses = "created" /\ o.sensors = FALSE)
    BY <1>1 DEF Outcomes, Outcome, SensorOutcomes, WithGlasses, CreateOutcomes
  <2> QED
    BY <1>0, <1>1, <2>1
<1>2. CASE action = "close"
  <2>1. (o.ok = TRUE /\ o.glasses = "none" /\ o.sensors = FALSE)
    BY <1>2 DEF Outcomes, Outcome, SensorOutcomes, WithGlasses, CloseOutcomes
  <2> QED
    BY <1>0, <1>2, <2>1
<1>3. CASE action \in {"enumerate", "configure", "state"}
  <2>1. o.glasses = bridge.glasses /\ o.sensors = bridge.sensors
    BY <1>3 DEF Outcomes, Outcome, SensorOutcomes, WithGlasses, Refused, Done
  <2>2. o.ok = TRUE \/ o.ok = FALSE
    BY <1>3 DEF Outcomes, Outcome, SensorOutcomes, WithGlasses, Refused, Done
  <2> QED
    BY <1>0, <1>3, <2>1, <2>2
<1>4. CASE action \in {"open", "start", "stop"} /\ bridge.glasses = "none"
  <2>1. /\ o.ok = FALSE
        /\ o.glasses = bridge.glasses /\ o.sensors = bridge.sensors
    BY <1>4 DEF Outcomes, Outcome, SensorOutcomes, WithGlasses, Refused
  <2> QED
    BY <1>0, <1>4, <2>1
<1>6. CASE action = "open" /\ bridge.glasses # "none"
  <2>1. CASE o.ok = TRUE
    <3>1. o.glasses = "open" /\ o.sensors = bridge.sensors
      BY <1>6, <2>1
         DEF Outcomes, Outcome, SensorOutcomes, WithGlasses, Refused,
             OpenOutcomes
    <3> QED
      BY <1>0, <1>6, <2>1, <3>1
  <2>2. CASE o.ok = FALSE
    <3>1. o.glasses = bridge.glasses /\ o.sensors = bridge.sensors
      BY <1>6, <2>2
         DEF Outcomes, Outcome, SensorOutcomes, WithGlasses, Refused,
             OpenOutcomes
    <3> QED
      BY <1>0, <1>6, <2>2, <3>1
  <2>3. o.ok = TRUE \/ o.ok = FALSE
    BY <1>6
       DEF Outcomes, Outcome, SensorOutcomes, WithGlasses, Refused,
           OpenOutcomes
  <2> QED
    BY <2>1, <2>2, <2>3
<1>5. CASE action \in {"start", "stop"} /\ bridge.glasses # "none"
  <2>1. \/ (o.ok = FALSE /\ o.glasses = bridge.glasses /\ o.sensors = bridge.sensors)
        \/ (o.ok = TRUE /\ o.glasses = bridge.glasses /\ o.sensors = (action = "start"))
    BY <1>5 DEF Outcomes, Outcome, SensorOutcomes, WithGlasses, Refused
  <2> QED
    BY <1>0, <1>5, <2>1
<1> QED
  BY <1>1, <1>2, <1>3, <1>4, <1>5, <1>6 DEF Actions

\* What Flags leaves of the device.
LEMMA FlagsTypes ==
  ASSUME device \in Devices, NEW i \in BOOLEAN, NEW s \in BOOLEAN
  PROVE  /\ Flags(i, s) \in Devices /\ Flags(i, s).initialized = i
         /\ Flags(i, s).started = s /\ Flags(i, s).handle = device.handle
  BY DEF Devices, Flags

\* Where a release leads to.
LEMMA ReleaseCases ==
  ASSUME device \in Devices
  PROVE  /\ device.handle /\ device.started => Releases.pc = "halt"
         /\ device.handle /\ ~device.started => Releases.pc = "close"
         /\ device.handle => Releases.device = device
         /\ ~device.handle =>
              /\ Releases.pc = "idle" /\ Releases.device \in Devices
              /\ ~Releases.device.initialized /\ ~Releases.device.started
              /\ Releases.device.handle = device.handle
  BY DEF Releases, ReleaseFrom, Cleared, Flags, Devices

\* Where an operation leads to, case by case.
LEMMA AfterCases ==
  ASSUME device \in Devices, NEW step \in Steps, NEW ok \in BOOLEAN,
         NEW next \in After(step, ok)
  PROVE  /\ next.pc \in {"idle", "open", "configure", "display", "undo", "halt",
                         "close", "state"}
         /\ next.device \in Devices /\ next.device.handle = device.handle
         /\ step = "create" =>
              next.device = device /\ next.pc = IF ok THEN "open" ELSE "idle"
         /\ step = "open" /\ ok =>
              /\ next.pc = "idle"
              /\ next.device.initialized /\ ~next.device.started
         /\ step = "open" /\ ~ok => next = Releases
         /\ step = "start" =>
              \/ ok /\ next.pc = "configure" /\ next.device = device
              \/ /\ ok /\ next.pc = "idle"
                 /\ next.device.initialized /\ next.device.started
              \/ ~ok /\ next.pc = "idle" /\ next.device = device
         /\ step = "configure" =>
              \/ ok /\ next.pc = "display" /\ next.device = device
              \/ /\ ok /\ next.pc = "idle"
                 /\ next.device.initialized /\ next.device.started
              \/ ~ok /\ next.pc = "undo" /\ next.device = device
         /\ step = "display" =>
              /\ next.pc = "idle"
              /\ next.device.initialized /\ next.device.started
         /\ step = "undo" => next.pc = "idle" /\ next.device = device
         /\ step = "stop" =>
              /\ next.pc = "idle"
              /\ next.device.initialized = device.initialized
              /\ next.device.started <=> device.started /\ ~ok
         /\ step = "halt" => next.pc = "close" /\ next.device = device
         /\ step = "close" =>
              /\ next.pc = "idle"
              /\ ~next.device.initialized /\ ~next.device.started
         /\ step \in {"enumerate", "state", "adjust"} =>
              next.pc \in {"idle", "state"} /\ next.device = device
<1> USE DEF Devices
<1>1. CASE step = "create"
  BY <1>1 DEF After, InitDevice, GoOn, Ended, Flags
<1>2. CASE step = "open"
  <2>1. CASE ok
    <3>1. next.pc = "idle" /\ next.device = Flags(TRUE, FALSE)
      BY <1>2, <2>1 DEF After, InitDevice, Ended, Flags
    <3> QED
      BY <1>2, <2>1, <3>1, FlagsTypes
  <2>2. CASE ~ok
    <3>1. next = Releases
      BY <1>2, <2>2 DEF After, InitDevice, Flags
    <3> QED
      BY <1>2, <2>2, <3>1, ReleaseCases
  <2> QED
    BY <2>1, <2>2
<1>3. CASE step = "start"
  <2>1. \/ ok /\ next.pc = "configure" /\ next.device = device
        \/ ok /\ next.pc = "idle" /\ next.device = Flags(TRUE, TRUE)
        \/ ~ok /\ next.pc = "idle" /\ next.device = device
    BY <1>3 DEF After, StartDevice, GoOn, Ended, Flags
  <2> QED
    BY <1>3, <2>1, FlagsTypes
<1>4. CASE step = "configure"
  <2>1. \/ ok /\ next.pc = "display" /\ next.device = device
        \/ ok /\ next.pc = "idle" /\ next.device = Flags(TRUE, TRUE)
        \/ ~ok /\ next.pc = "undo" /\ next.device = device
    BY <1>4 DEF After, StartDevice, GoOn, Ended, Flags
  <2> QED
    BY <1>4, <2>1, FlagsTypes
<1>5. CASE step = "display"
  <2>1. next.pc = "idle" /\ next.device = Flags(TRUE, TRUE)
    BY <1>5 DEF After, StartDevice, Ended, Flags
  <2> QED
    BY <1>5, <2>1, FlagsTypes
<1>6. CASE step = "undo"
  BY <1>6 DEF After, StartDevice, Ended, Flags
<1>7. CASE step = "stop"
  <2>3. CASE ok
    <3>1. PICK i \in BOOLEAN : i = device.initialized
      OBVIOUS
    <3>2. next.pc = "idle" /\ next.device = Flags(i, FALSE)
      BY <1>7, <2>3, <3>1 DEF After, StopDevice, Ended, Flags
    <3> QED
      BY <1>7, <2>3, <3>1, <3>2, FlagsTypes
  <2>4. CASE ~ok
    <3>1. next.pc = "idle" /\ next.device = device
      BY <1>7, <2>4 DEF After, StopDevice, Ended
    <3> QED
      BY <1>7, <2>4, <3>1
  <2> QED
    BY <2>3, <2>4
<1>8. CASE step = "stop_all"
  BY <1>8, ReleaseCases DEF After, Ended
<1>9. CASE step = "halt"
  BY <1>9 DEF After, ReleaseDevice, GoOn, Flags
<1>10. CASE step = "close"
  <2>1. next.pc = "idle" /\ next.device = Flags(FALSE, FALSE)
    BY <1>10 DEF After, ReleaseDevice, Ended, Cleared, Flags
  <2> QED
    BY <1>10, <2>1, FlagsTypes
<1>11. CASE step = "enumerate"
  BY <1>11 DEF After, CheckDevice, GoOn, Ended
<1>12. CASE step = "state"
  BY <1>12 DEF After, CheckDevice, Ended
<1>13. CASE step = "adjust"
  BY <1>13 DEF After, ControlDevice, Ended
<1> QED
  BY <1>1, <1>2, <1>3, <1>4, <1>5, <1>6, <1>7, <1>8, <1>9, <1>10, <1>11, <1>12,
     <1>13, StepActions

\* Where a command begins, case by case.
LEMMA BeginCases ==
  ASSUME device \in Devices, NEW cmd \in Commands
  PROVE  LET b == Begins(cmd) IN
         /\ b.device \in Devices /\ b.device.handle = device.handle
         /\ \/ /\ b.pc = "create"
               /\ ~b.device.initialized /\ ~b.device.started
            \/ /\ b.pc = "start" /\ b.device = device
               /\ device.initialized /\ ~device.started
            \/ /\ b.pc \in {"idle", "stop", "enumerate", "adjust", "state"}
               /\ b.device = device
            \/ b.pc \in {"halt", "close"} /\ b.device = device /\ device.handle
            \/ /\ b.pc = "idle"
               /\ ~b.device.initialized /\ ~b.device.started
<1>0. /\ Cleared \in Devices /\ ~Cleared.initialized /\ ~Cleared.started
      /\ Cleared.handle = device.handle
  BY DEF Cleared, Flags, Devices
<1>1. CASE cmd \in {"init", "init_unready"}
  BY <1>0, <1>1 DEF Begins
<1>2. CASE cmd = "start"
  BY <1>2 DEF Begins
<1>3. CASE cmd = "release"
  <2>1. CASE device.handle
    BY <1>3, <2>1 DEF Begins, ReleaseFrom
  <2>2. CASE ~device.handle
    BY <1>0, <1>3, <2>2 DEF Begins, ReleaseFrom
  <2> QED
    BY <2>1, <2>2
<1>4. CASE cmd \in {"stop", "check", "control"}
  BY <1>4 DEF Begins
<1>5. CASE cmd = "query"
  BY <1>5 DEF Begins, QueryFrom
<1> QED
  BY <1>1, <1>2, <1>3, <1>4, <1>5 DEF Commands

LEMMA SetResultTypes ==
  ASSUME call \in Calls, NEW number \in Nat, NEW ok \in BOOLEAN,
         SetResult(number, ok)
  PROVE  /\ pending' \in [number : Nat, ok : BOOLEAN]
         /\ pending'.number = number /\ pending'.ok = ok
         /\ call' \in Calls
         /\ call'.thread = call.thread /\ call'.pc = call.pc
         /\ call'.waiting = call.waiting /\ call'.number = call.number
         /\ call'.woken = call.waiting
<1>1. /\ pending' = [number |-> number, ok |-> ok]
      /\ call' = [call EXCEPT !.woken = call.waiting]
  BY DEF SetResult
<1>2. call.waiting \in BOOLEAN
  BY DEF Calls
<1> QED
  BY <1>1, <1>2 DEF Calls

LEMMA ContinueTypes ==
  ASSUME device \in Devices, call \in Calls, call.pc \in Steps,
         NEW ok \in BOOLEAN, Continue(ok)
  PROVE  \E next \in After(call.pc, ok) :
           /\ device' = next.device /\ device' \in Devices
           /\ call' \in Calls /\ call'.pc = next.pc
           /\ call'.thread = call.thread /\ call'.number = call.number
           /\ ~call'.waiting /\ ~call'.woken
<1>1. PICK next \in After(call.pc, ok) :
        /\ call' = [call EXCEPT !.pc = next.pc, !.waiting = FALSE, !.woken = FALSE]
        /\ device' = next.device
  BY DEF Continue
<1>2. next.pc \in {"idle"} \cup Steps /\ next.device \in Devices
  BY AfterCases, StepActions
<1> QED
  BY <1>1, <1>2 DEF Calls

LEMMA PostTypes ==
  ASSUME Typed, Post
  PROVE  LET s == [action |-> ActionOf[call.pc], number |-> call.number + 1] IN
         /\ call' \in Calls /\ call'.pc = call.pc /\ call'.thread = call.thread
         /\ call'.waiting /\ ~call'.woken /\ call'.number = call.number + 1
         /\ s \in Slots /\ slots' = Append(slots, s) /\ slots' \in Seq(Slots)
         /\ pending' \in [number : Nat, ok : BOOLEAN]
<1>1. call \in Calls /\ slots \in Seq(Slots)
  BY Types DEF Typed
<1>2. call.pc \in Steps /\ ActionOf[call.pc] \in Actions /\ call.number \in Nat
  BY <1>1, StepActions DEF Post, Calls
<1>3. [action |-> ActionOf[call.pc], number |-> call.number + 1] \in Slots
  BY <1>2 DEF Slots
<1>4. call' = [call EXCEPT !.waiting = TRUE, !.woken = FALSE, !.number = @ + 1]
  BY DEF Post
<1>5. /\ call' \in Calls /\ call'.pc = call.pc /\ call'.thread = call.thread
      /\ call'.waiting /\ ~call'.woken /\ call'.number = call.number + 1
  <2>1. call' = [call EXCEPT !.waiting = TRUE, !.woken = FALSE,
                             !.number = call.number + 1]
    BY <1>1, <1>4 DEF Calls
  <2>2. call.number + 1 \in Nat
    BY <1>2
  <2> QED
    BY <1>1, <2>1, <2>2 DEF Calls
<1>6. pending' \in [number : Nat, ok : BOOLEAN]
  BY DEF Post, NoResult
<1> QED
  BY <1>1, <1>3, <1>5, <1>6 DEF Post

LEMMA HeadSlot ==
  ASSUME slots \in Seq(Slots), slots # <<>>
  PROVE  /\ Head(slots) \in Slots /\ Tail(slots) \in Seq(Slots)
         /\ Head(slots).action \in Actions /\ Head(slots).number \in Nat
<1>1. Head(slots) \in Slots /\ Tail(slots) \in Seq(Slots)
  OBVIOUS
<1> QED
  BY <1>1 DEF Slots

LEMMA AtOnceTypes ==
  ASSUME Typed, RunSlotAtOnce
  PROVE  LET s == Head(slots) IN
         /\ pending' \in [number : Nat, ok : BOOLEAN]
         /\ pending'.number = s.number
         /\ pending'.ok <=> s.action = "close"
         /\ call' \in Calls
         /\ call'.thread = call.thread /\ call'.pc = call.pc
         /\ call'.waiting = call.waiting /\ call'.number = call.number
         /\ call'.woken = call.waiting
         /\ device' \in Devices
         /\ device'.initialized = device.initialized
         /\ device'.started = device.started
         /\ device'.handle <=> device.handle /\ s.action # "close"
         /\ slots' = Tail(slots) /\ slots' \in Seq(Slots)
<1>1. call \in Calls /\ device \in Devices /\ slots \in Seq(Slots)
  BY Types DEF Typed
<1>2. Head(slots).number \in Nat /\ slots' \in Seq(Slots)
  BY <1>1, HeadSlot DEF RunSlotAtOnce
<1>3. PICK ok \in BOOLEAN : ok <=> Head(slots).action = "close"
  OBVIOUS
<1>4. ok = (Head(slots).action = "close")
  BY <1>3
<1>5. SetResult(Head(slots).number, ok)
  BY <1>4, Zenon DEF RunSlotAtOnce
<1>6. PICK h \in BOOLEAN : h <=> device.handle /\ Head(slots).action # "close"
  OBVIOUS
<1>7. device' = [device EXCEPT !.handle = h]
  BY <1>1, <1>6 DEF RunSlotAtOnce, Devices
<1>8. /\ device' \in Devices /\ device'.initialized = device.initialized
      /\ device'.started = device.started /\ device'.handle = h
  BY <1>1, <1>7 DEF Devices
<1> QED
  BY <1>1, <1>2, <1>3, <1>5, <1>6, <1>8, SetResultTypes DEF RunSlotAtOnce

LEMMA RunSlotTypes ==
  ASSUME Typed, RunSlot
  PROVE  LET s == Head(slots)
             closeFirst == s.action = "create" /\ device.handle
         IN /\ slot' \in SlotStates
            /\ slot'.action = s.action /\ slot'.number = s.number
            /\ slot'.stage = IF closeFirst /\ bridge.alive THEN "close"
                                                           ELSE s.action
            /\ s.action # "none" /\ s.action \in Actions
            /\ device' \in Devices
            /\ device'.initialized = device.initialized
            /\ device'.started = device.started
            /\ device'.handle <=> device.handle /\ (closeFirst => bridge.alive)
            /\ slots' = Tail(slots) /\ slots' \in Seq(Slots)
<1> DEFINE s == Head(slots)
           closeFirst == s.action = "create" /\ device.handle
<1>1. device \in Devices /\ slots \in Seq(Slots) /\ bridge \in Bridges
  BY Types DEF Typed
<1>2. /\ s.number \in Nat /\ s.action \in Actions /\ s.action # "none"
      /\ slots' \in Seq(Slots)
  BY <1>1, HeadSlot DEF RunSlot, Actions
<1>3. PICK stage \in Actions :
        stage = IF closeFirst /\ bridge.alive THEN "close" ELSE s.action
  BY <1>2 DEF Actions
<1>4. slot' = [action |-> s.action, number |-> s.number, attempt |-> 1,
               stage |-> stage]
  BY <1>3 DEF RunSlot
<1>5. slot' \in SlotStates
  BY <1>2, <1>4, DeviceAssumption DEF SlotStates
<1>6. PICK h \in BOOLEAN : h <=> device.handle /\ (closeFirst => bridge.alive)
  OBVIOUS
<1>7. device' = [device EXCEPT !.handle = h]
  BY <1>1, <1>6 DEF RunSlot, Devices
<1>8. /\ device' \in Devices /\ device'.initialized = device.initialized
      /\ device'.started = device.started /\ device'.handle = h
  BY <1>1, <1>7 DEF Devices
<1>9. slot'.action = s.action /\ slot'.number = s.number /\ slot'.stage = stage
  BY <1>4
<1> QED
  BY <1>2, <1>3, <1>5, <1>6, <1>8, <1>9 DEF RunSlot

\* A request is sent to a worker that runs, if need be a new one, or none runs
\* and the request has failed.
LEMMA SendTypes ==
  ASSUME Typed, NEW action \in Actions, SendRequest(action)
  PROVE  LET r == [id |-> request.next, action |-> action] IN
         /\ bridge' \in Bridges /\ request' \in RequestStates
         /\ request'.action = action /\ request'.answer = NoResponse
         /\ bridge'.glasses = bridge.glasses
         /\ bridge'.sensors <=> bridge.sensors
         /\ \/ /\ request'.phase = "waiting" /\ bridge'.alive
               /\ request'.id = request.next /\ request'.next = request.next + 1
               /\ r \in Request
               /\ \/ /\ bridge.alive /\ bridge'.outbox = bridge.outbox
                     /\ bridge'.inbox = Append(bridge.inbox, r)
                  \/ bridge'.outbox = <<>> /\ bridge'.inbox = <<r>>
            \/ /\ request'.phase = "returned" /\ ~bridge.alive /\ ~bridge'.alive
               /\ request'.id = request.id /\ request'.next = request.next
               /\ bridge'.inbox = <<>> /\ bridge'.outbox = <<>>
<1> DEFINE r == [id |-> request.next, action |-> action]
<1>1. bridge \in Bridges /\ request \in RequestStates
  BY Types DEF Typed
<1>2. r \in Request /\ request.next \in Nat /\ request.next + 1 \in Nat
  BY <1>1 DEF Request, RequestStates
<1>3. ~bridge.alive => /\ bridge.glasses = "none" /\ ~bridge.sensors
                       /\ bridge.inbox = <<>>
  BY DEF Typed, BridgeInPlace
<1>4. /\ NoBridge \in Bridges /\ ~NoBridge.alive /\ NoBridge.glasses = "none"
      /\ ~NoBridge.sensors /\ NoBridge.inbox = <<>> /\ NoBridge.outbox = <<>>
  BY DEF NoBridge, Bridges, Glasses
<1>5. CASE /\ bridge' = [Started EXCEPT !.inbox = Append(@, r)]
           /\ request' = [request EXCEPT !.phase = "waiting", !.id = r.id,
                !.action = action, !.answer = NoResponse, !.next = NextId]
  <2>1. /\ request' \in RequestStates /\ request'.phase = "waiting"
        /\ request'.action = action /\ request'.answer = NoResponse
        /\ request'.id = request.next /\ request'.next = request.next + 1
    BY <1>1, <1>2, <1>5 DEF RequestStates, NextId
  <2>2. CASE bridge.alive
    <3>1. bridge' = [bridge EXCEPT !.inbox = Append(@, r)]
      BY <1>5, <2>2 DEF Started
    <3>2. Append(bridge.inbox, r) \in Seq(Request)
      BY <1>1, <1>2 DEF Bridges
    <3>3. /\ bridge' \in Bridges /\ bridge'.alive
          /\ bridge'.glasses = bridge.glasses /\ bridge'.sensors = bridge.sensors
          /\ bridge'.outbox = bridge.outbox
          /\ bridge'.inbox = Append(bridge.inbox, r)
      BY <1>1, <2>2, <3>1, <3>2 DEF Bridges
    <3> QED
      BY <1>2, <2>1, <2>2, <3>3
  <2>3. CASE ~bridge.alive
    <3>1. bridge' = [NoBridge EXCEPT !.alive = TRUE, !.inbox = Append(<<>>, r)]
      BY <1>5, <2>3, <1>4 DEF Started, Bridges
    <3>2. Append(<<>>, r) = <<r>> /\ <<r>> \in Seq(Request)
      BY <1>2
    <3>3. /\ bridge' \in Bridges /\ bridge'.alive
          /\ bridge'.glasses = "none" /\ ~bridge'.sensors
          /\ bridge'.outbox = <<>> /\ bridge'.inbox = <<r>>
      BY <1>4, <3>1, <3>2 DEF Bridges
    <3> QED
      BY <1>2, <1>3, <2>1, <2>3, <3>3
  <2> QED
    BY <2>2, <2>3
<1>6. CASE /\ ~bridge.alive
           /\ bridge' = NoBridge
           /\ request' = [request EXCEPT !.phase = "returned", !.action = action,
                                         !.answer = NoResponse]
  <2>1. /\ request' \in RequestStates /\ request'.phase = "returned"
        /\ request'.action = action /\ request'.answer = NoResponse
        /\ request'.id = request.id /\ request'.next = request.next
    BY <1>1, <1>6 DEF RequestStates
  <2> QED
    BY <1>3, <1>4, <1>6, <2>1
<1> QED
  BY <1>5, <1>6 DEF SendRequest

LEMMA FreeTypes ==
  ASSUME Typed, FreeRequest
  PROVE  /\ request' \in RequestStates /\ request'.phase = "idle"
         /\ request'.id = request.id /\ request'.next = request.next
  BY Types DEF Typed, FreeRequest, RequestStates

LEMMA GiveUpTypes ==
  ASSUME Typed, GiveUpRequest
  PROVE  /\ request' \in RequestStates /\ request'.phase = "returned"
         /\ request'.id = request.id /\ request'.next = request.next
         /\ request'.action = request.action
         /\ request'.answer = request.answer
  BY Types DEF Typed, GiveUpRequest, RequestStates

\* A response leaves the pipe and is taken if it is the awaited one.
LEMMA ResponseStepTypes ==
  ASSUME Typed, HandleResponse
  PROVE  LET m == Head(bridge.outbox) IN
         /\ m \in Response /\ bridge.outbox # <<>>
         /\ bridge' \in Bridges /\ bridge'.outbox = Tail(bridge.outbox)
         /\ bridge'.alive = bridge.alive /\ bridge'.glasses = bridge.glasses
         /\ bridge'.sensors = bridge.sensors /\ bridge'.inbox = bridge.inbox
         /\ request' \in RequestStates
         /\ request'.id = request.id /\ request'.next = request.next
         /\ request'.action = request.action
         /\ \/ /\ request.phase = "waiting" /\ m.id = request.id
               /\ request'.phase = "returned" /\ request'.answer = m
            \/ ~(request.phase = "waiting" /\ m.id = request.id)
               /\ request' = request
<1> DEFINE m == Head(bridge.outbox)
<1>1. bridge \in Bridges /\ request \in RequestStates
  BY Types DEF Typed
<1>2. bridge.outbox # <<>> /\ bridge.outbox \in Seq(Response)
  BY <1>1 DEF HandleResponse, Bridges
<1>3. m \in Response /\ Tail(bridge.outbox) \in Seq(Response)
  BY <1>2
<1>4. bridge' = [bridge EXCEPT !.outbox = Tail(bridge.outbox)]
  BY <1>1 DEF HandleResponse, Bridges
<1>5. /\ bridge' \in Bridges /\ bridge'.outbox = Tail(bridge.outbox)
      /\ bridge'.alive = bridge.alive /\ bridge'.glasses = bridge.glasses
      /\ bridge'.sensors = bridge.sensors /\ bridge'.inbox = bridge.inbox
  BY <1>1, <1>3, <1>4 DEF Bridges
<1>6. CASE Awaited(m)
  <2>1. request' = [request EXCEPT !.phase = "returned", !.answer = m]
    BY <1>6 DEF HandleResponse
  <2>2. /\ request' \in RequestStates /\ request'.phase = "returned"
        /\ request'.answer = m /\ request'.id = request.id
        /\ request'.next = request.next /\ request'.action = request.action
    BY <1>1, <1>3, <2>1 DEF RequestStates
  <2> QED
    BY <1>2, <1>3, <1>5, <1>6, <2>2 DEF Awaited
<1>7. CASE ~Awaited(m)
  <2>1. request' = request
    BY <1>7 DEF HandleResponse
  <2> QED
    BY <1>1, <1>2, <1>3, <1>5, <1>7, <2>1 DEF Awaited
<1> QED
  BY <1>6, <1>7

\* The worker takes a request and answers it.
LEMMA CommandStepTypes ==
  ASSUME Typed, HandleCommand
  PROVE  LET r == Head(bridge.inbox) IN
         /\ r \in Request /\ bridge.inbox # <<>> /\ bridge.alive
         /\ r.id \in Nat /\ r.action \in Actions
         /\ bridge' \in Bridges /\ bridge'.alive
         /\ bridge'.inbox = Tail(bridge.inbox)
         /\ request' = request
         /\ \E o \in Outcomes(r.action) :
              /\ bridge'.glasses = o.glasses
              /\ bridge'.sensors = o.sensors
              /\ \E a \in Response :
                   /\ a.id = r.id /\ a.action = r.action /\ a.ok = o.ok
                   /\ bridge'.outbox = Append(bridge.outbox, a)
<1> DEFINE r == Head(bridge.inbox)
<1>1. bridge \in Bridges /\ bridge.inbox # <<>> /\ bridge.alive
  BY Types DEF Typed, HandleCommand
<1>2. bridge.inbox \in Seq(Request) /\ bridge.outbox \in Seq(Response)
  BY <1>1 DEF Bridges
<1>3. r \in Request /\ Tail(bridge.inbox) \in Seq(Request)
  BY <1>1, <1>2
<1>4. r.id \in Nat /\ r.action \in Actions
  BY <1>3 DEF Request
<1>5. PICK o \in Outcomes(r.action) :
        bridge' = [bridge EXCEPT
          !.glasses = o.glasses, !.sensors = o.sensors, !.inbox = Tail(@),
          !.outbox = Append(@, [id |-> r.id, action |-> r.action, ok |-> o.ok])]
  BY DEF HandleCommand
<1>6. o.ok \in BOOLEAN /\ o.glasses \in Glasses /\ o.sensors \in BOOLEAN
  BY <1>1, <1>4, OutcomeCases DEF Typed
<1>7. PICK a \in Response :
        /\ a = [id |-> r.id, action |-> r.action, ok |-> o.ok]
        /\ a.id = r.id /\ a.action = r.action /\ a.ok = o.ok
  BY <1>4, <1>6, ResponseTypes
<1>8. Append(bridge.outbox, a) \in Seq(Response)
  BY <1>2
<1>9. bridge' = [bridge EXCEPT
          !.glasses = o.glasses, !.sensors = o.sensors,
          !.inbox = Tail(bridge.inbox), !.outbox = Append(bridge.outbox, a)]
  BY <1>1, <1>5, <1>7 DEF Bridges
<1>10. /\ bridge' \in Bridges /\ bridge'.alive
       /\ bridge'.glasses = o.glasses /\ bridge'.sensors = o.sensors
       /\ bridge'.inbox = Tail(bridge.inbox)
       /\ bridge'.outbox = Append(bridge.outbox, a)
  BY <1>1, <1>3, <1>6, <1>8, <1>9 DEF Bridges
<1>11. request' = request
  BY DEF HandleCommand
<1> QED
  BY <1>1, <1>3, <1>4, <1>7, <1>10, <1>11

LEMMA NestedTypes ==
  ASSUME Typed, RunSlotNested
  PROVE  LET s == Head(slots) IN
         /\ pending' \in [number : Nat, ok : BOOLEAN]
         /\ call' \in Calls
         /\ call'.thread = call.thread /\ call'.pc = call.pc
         /\ call'.waiting = call.waiting /\ call'.number = call.number
         /\ call'.woken = call.waiting
         /\ device' \in Devices
         /\ slots' = Tail(slots) /\ slots' \in Seq(Slots)
<1>1. call \in Calls /\ device \in Devices /\ slots \in Seq(Slots)
  BY Types DEF Typed
<1>2. Head(slots).number \in Nat /\ slots' \in Seq(Slots)
  BY <1>1, HeadSlot DEF RunSlotNested
<1>3. PICK ok \in BOOLEAN : ok = (Head(slots).action = "close" /\ ~bridge.alive)
  OBVIOUS
<1>4. SetResult(Head(slots).number, ok)
  BY <1>3, Zenon DEF RunSlotNested
<1>5. PICK h \in BOOLEAN :
        h <=> device.handle /\ Head(slots).action \notin {"create", "close"}
  OBVIOUS
<1>6. device' = [device EXCEPT !.handle = h]
  BY <1>1, <1>5 DEF RunSlotNested, Devices
<1>7. device' \in Devices
  BY <1>1, <1>6 DEF Devices
<1> QED
  BY <1>1, <1>2, <1>4, <1>7, SetResultTypes DEF RunSlotNested

LEMMA SlotEndsTypes ==
  ASSUME Typed, SlotEnds
  PROVE  /\ pending' \in [number : Nat, ok : BOOLEAN]
         /\ pending'.number = slot.number
         /\ pending'.ok <=> Answered
         /\ call' \in Calls
         /\ call'.thread = call.thread /\ call'.pc = call.pc
         /\ call'.waiting = call.waiting /\ call'.number = call.number
         /\ call'.woken = call.waiting
         /\ device' \in Devices
         /\ device'.initialized = device.initialized
         /\ device'.started = device.started
         /\ device'.handle <=> \/ slot.action = "create" /\ Answered
                               \/ /\ slot.action \notin {"create", "close"}
                                  /\ device.handle
         /\ slot' \in SlotStates /\ slot'.action = "none"
         /\ slot'.stage = "state"
<1>1. call \in Calls /\ device \in Devices /\ slot \in SlotStates
  BY Types DEF Typed
<1>2. slot.number \in Nat
  BY <1>1 DEF SlotStates
<1>3. PICK ok \in BOOLEAN : ok = Answered
  BY Zenon DEF Answered
<1>4. SetResult(slot.number, ok)
  BY <1>3, Zenon DEF SlotEnds
<1>5. PICK h \in BOOLEAN :
        h <=> \/ slot.action = "create" /\ Answered
              \/ slot.action \notin {"create", "close"} /\ device.handle
  OBVIOUS
<1>6. device' = [device EXCEPT !.handle = h]
  <2>1. CASE slot.action = "create"
    BY <1>1, <1>3, <1>5, <2>1 DEF SlotEnds, Devices
  <2>2. CASE slot.action = "close"
    BY <1>1, <1>5, <2>2 DEF SlotEnds, Devices
  <2>3. CASE slot.action \notin {"create", "close"}
    BY <1>1, <1>5, <2>3 DEF SlotEnds, Devices
  <2> QED
    BY <2>1, <2>2, <2>3
<1>7. /\ device' \in Devices /\ device'.initialized = device.initialized
      /\ device'.started = device.started /\ device'.handle = h
  BY <1>1, <1>6 DEF Devices
<1>8. /\ slot' \in SlotStates /\ slot'.action = "none" /\ slot'.stage = "state"
  BY DeviceAssumption DEF SlotEnds, NothingBegun, SlotStates, Actions
<1>9. /\ pending' \in [number : Nat, ok : BOOLEAN]
      /\ pending'.number = slot.number /\ pending'.ok = ok
      /\ call' \in Calls
      /\ call'.thread = call.thread /\ call'.pc = call.pc
      /\ call'.waiting = call.waiting /\ call'.number = call.number
      /\ call'.woken = call.waiting
  BY <1>1, <1>2, <1>4, SetResultTypes
<1> QED
  BY <1>3, <1>5, <1>7, <1>8, <1>9

LEMMA ClosedFirstTypes ==
  ASSUME Typed, SlotClosedFirst
  PROVE  /\ slot' \in SlotStates /\ slot'.action = "create"
         /\ slot'.stage = "create" /\ slot'.number = slot.number
         /\ device' \in Devices
         /\ device'.initialized = device.initialized
         /\ device'.started = device.started
<1>1. device \in Devices /\ slot \in SlotStates
  BY Types DEF Typed
<1>2. /\ slot.action = "create"
      /\ slot' = [slot EXCEPT !.stage = "create"]
      /\ device' = [device EXCEPT !.handle = FALSE]
  BY DEF SlotClosedFirst
<1>3. device' \in Devices /\ device'.initialized = device.initialized
      /\ device'.started = device.started
  BY <1>1, <1>2 DEF Devices
<1> QED
  BY <1>1, <1>2, <1>3 DEF SlotStates, Actions

LEMMA RetryTypes ==
  ASSUME Typed, SlotRetries
  PROVE  /\ slot' \in SlotStates /\ slot'.action = slot.action
         /\ slot'.stage = slot.stage /\ slot'.number = slot.number
         /\ slot.stage = "create" /\ slot.action = "create"
         /\ bridge' = NoBridge /\ bridge' \in Bridges
<1>1. slot \in SlotStates
  BY Types DEF Typed
<1>2. /\ slot' = [slot EXCEPT !.attempt = @ + 1] /\ slot.attempt < Retries
      /\ slot.stage = "create"
  BY DEF SlotRetries, AttemptsLeft
<1>3. slot.action = "create"
  BY <1>2 DEF Typed, SlotInPlace
<1>4. bridge' = NoBridge /\ bridge' \in Bridges
  BY DEF SlotRetries, ShutdownBridge, NoBridge, Bridges, Glasses
<1>5. slot.attempt + 1 \in 1..Retries
  BY <1>1, <1>2, DeviceAssumption DEF SlotStates
<1>6. slot' = [slot EXCEPT !.attempt = slot.attempt + 1]
  BY <1>1, <1>2 DEF SlotStates
<1> QED
  BY <1>1, <1>2, <1>3, <1>4, <1>5, <1>6 DEF SlotStates

LEMMA DiesTypes ==
  ASSUME Typed, BridgeDies
  PROVE  /\ bridge' \in Bridges /\ ~bridge'.alive
         /\ bridge'.glasses = "none" /\ ~bridge'.sensors
         /\ bridge'.inbox = <<>> /\ bridge'.outbox = bridge.outbox
         /\ request' = request
<1>1. bridge \in Bridges
  BY Types DEF Typed
<1>2. bridge.outbox \in Seq(Response)
  BY <1>1 DEF Bridges
<1>3. /\ NoBridge \in Bridges /\ ~NoBridge.alive /\ NoBridge.glasses = "none"
      /\ ~NoBridge.sensors /\ NoBridge.inbox = <<>>
  BY DEF NoBridge, Bridges, Glasses
<1>4. bridge' = [NoBridge EXCEPT !.outbox = bridge.outbox] /\ request' = request
  BY DEF BridgeDies
<1> QED
  BY <1>2, <1>3, <1>4 DEF Bridges

LEMMA CountTypes ==
  ASSUME Typed
  PROVE  /\ used.timeouts \in Nat /\ used.crashes \in Nat
         /\ (CountTimeout /\ TimeoutLeft) =>
              /\ used' \in UsedStates /\ used'.timeouts = used.timeouts + 1
              /\ used'.crashes = used.crashes
         /\ (used.crashes < MaxCrashes
               /\ used' = [used EXCEPT !.crashes = @ + 1]) =>
              /\ used' \in UsedStates /\ used'.crashes = used.crashes + 1
              /\ used'.timeouts = used.timeouts
         /\ (used.commands < MaxCommands
               /\ used' = [used EXCEPT !.commands = @ + 1]) =>
              /\ used' \in UsedStates /\ used'.crashes = used.crashes
              /\ used'.timeouts = used.timeouts
<1>1. used \in UsedStates
  BY Types DEF Typed
<1>2. used.timeouts \in Nat /\ used.crashes \in Nat /\ used.commands \in Nat
  BY <1>1 DEF UsedStates
<1>3. ASSUME CountTimeout, TimeoutLeft
      PROVE  /\ used' \in UsedStates /\ used'.timeouts = used.timeouts + 1
             /\ used'.crashes = used.crashes
  <2>1. used.timeouts + 1 \in 0..MaxTimeouts
    BY <1>2, <1>3, DeviceAssumption DEF TimeoutLeft
  <2>2. used' = [used EXCEPT !.timeouts = used.timeouts + 1]
    BY <1>1, <1>3 DEF CountTimeout, UsedStates
  <2> QED
    BY <1>1, <2>1, <2>2 DEF UsedStates
<1>4. ASSUME used.crashes < MaxCrashes, used' = [used EXCEPT !.crashes = @ + 1]
      PROVE  /\ used' \in UsedStates /\ used'.crashes = used.crashes + 1
             /\ used'.timeouts = used.timeouts
  <2>1. used.crashes + 1 \in 0..MaxCrashes
    BY <1>2, <1>4, DeviceAssumption
  <2>2. used' = [used EXCEPT !.crashes = used.crashes + 1]
    BY <1>1, <1>4 DEF UsedStates
  <2> QED
    BY <1>1, <2>1, <2>2 DEF UsedStates
<1>5. ASSUME used.commands < MaxCommands,
             used' = [used EXCEPT !.commands = @ + 1]
      PROVE  /\ used' \in UsedStates /\ used'.crashes = used.crashes
             /\ used'.timeouts = used.timeouts
  <2>1. used.commands + 1 \in 0..MaxCommands
    BY <1>2, <1>5, DeviceAssumption
  <2>2. used' = [used EXCEPT !.commands = used.commands + 1]
    BY <1>1, <1>5 DEF UsedStates
  <2> QED
    BY <1>1, <2>1, <2>2 DEF UsedStates
<1> QED
  BY <1>2, <1>3, <1>4, <1>5

LEMMA TypedInit == Init => Typed
<1> SUFFICES ASSUME Init PROVE Typed
  OBVIOUS
<1>1. bridge \in Bridges /\ request \in RequestStates
  BY DEF Init, BridgeInit, NoBridge, Bridges, Glasses, RequestStates, Actions
<1>2. device \in Devices /\ call \in Calls
  BY DEF Init, Devices, Calls
<1>3. pending \in [number : Nat, ok : BOOLEAN]
  BY DEF Init, NoResult
<1>4. slots \in Seq(Slots) /\ slot \in SlotStates
  BY DeviceAssumption DEF Init, NothingBegun, SlotStates, Actions
<1>5. quit \in BOOLEAN
  BY Zenon DEF Init
<1>6. used \in UsedStates
  BY DeviceAssumption DEF Init, UsedStates
<1>7. CallInPlace /\ ShutdownInPlace
  BY DEF Init, CallInPlace, ShutdownInPlace
<1>8. SlotInPlace /\ BridgeInPlace
  BY DEF Init, BridgeInit, NothingBegun, NoBridge, SlotInPlace, BridgeInPlace
<1> QED
  BY <1>1, <1>2, <1>3, <1>4, <1>5, <1>6, <1>7, <1>8, Types DEF Typed

\* The same facts, one step later.
TypesNow ==
  /\ bridge \in Bridges /\ request \in RequestStates
  /\ device \in Devices /\ call \in Calls
  /\ pending \in [number : Nat, ok : BOOLEAN]
  /\ slots \in Seq(Slots) /\ slot \in SlotStates
  /\ quit \in BOOLEAN /\ used \in UsedStates

LEMMA TypesLater == TypesNow' => TypeOK'
  BY Zenon DEF TypesNow, TypeOK, BridgeTypeOK, Calls, Devices, Bridges,
     RequestStates, SlotStates, UsedStates

LEMMA TypedStep == Typed /\ [Next]_vars => Typed'
<1> SUFFICES ASSUME Typed, [Next]_vars PROVE Typed'
  OBVIOUS
<1>0. /\ TypesNow /\ CallInPlace /\ ShutdownInPlace
      /\ SlotInPlace /\ BridgeInPlace
  BY Types DEF Typed, TypesNow
<1> USE DEF bridgeVars, deviceVars
<1>a. ASSUME TypesNow', CallInPlace', ShutdownInPlace', SlotInPlace',
             BridgeInPlace'
      PROVE  Typed'
  BY <1>a, TypesLater DEF Typed
<1>1. CASE BeginCommand
  <2>1. PICK cmd \in Commands : /\ call' = [call EXCEPT !.pc = Begins(cmd).pc]
                                /\ device' = Begins(cmd).device
    BY <1>1 DEF BeginCommand
  <2>2. /\ device' \in Devices
        /\ Begins(cmd).pc \in ({"idle"} \cup Steps) \ {"stop_all"}
    BY <1>0, <2>1, BeginCases, StepActions DEF TypesNow
  <2>3. /\ call' \in Calls /\ call'.pc = Begins(cmd).pc
        /\ call'.thread = call.thread /\ call'.waiting = call.waiting
        /\ call'.woken = call.woken
    BY <1>0, <2>1, <2>2 DEF TypesNow, Calls
  <2>4. ~call.waiting /\ ~call.woken
    BY <1>0, <1>1, StepActions DEF BeginCommand, CallInPlace
  <2>5. used' \in UsedStates
    BY <1>1, CountTypes DEF BeginCommand
  <2>6. UNCHANGED <<bridge, request, pending, slots, slot, quit>>
    BY <1>1 DEF BeginCommand
  <2>7. TypesNow'
    BY <1>0, <2>2, <2>3, <2>5, <2>6 DEF TypesNow
  <2>8. CallInPlace' /\ ShutdownInPlace'
    BY <1>0, <2>2, <2>3, <2>4, <2>6, StepActions
       DEF CallInPlace, ShutdownInPlace
  <2>9. SlotInPlace' /\ BridgeInPlace'
    BY <1>0, <2>6 DEF SlotInPlace, BridgeInPlace
  <2> QED
    BY <1>a, <2>7, <2>8, <2>9
<1>2. CASE BeginShutdown \/ EndShutdown
  <2>1. /\ UNCHANGED <<bridge, request, device, pending, slots, slot, quit, used>>
        /\ call.pc = "idle"
    BY <1>2 DEF BeginShutdown, EndShutdown
  <2>2. /\ call' \in Calls /\ call'.pc \in {"stop_all", "exited"}
        /\ call'.waiting = call.waiting /\ call'.woken = call.woken
    BY <1>0, <1>2, StepActions
       DEF BeginShutdown, EndShutdown, TypesNow, Calls
  <2>3. quit
    BY <1>0, <1>2 DEF BeginShutdown, EndShutdown, ShutdownInPlace
  <2>4. ~call.waiting /\ ~call.woken
    BY <1>0, <2>1, StepActions DEF CallInPlace
  <2>5. TypesNow'
    BY <1>0, <2>1, <2>2 DEF TypesNow
  <2>6. CallInPlace' /\ ShutdownInPlace'
    BY <2>1, <2>2, <2>3, <2>4 DEF CallInPlace, ShutdownInPlace
  <2>7. SlotInPlace' /\ BridgeInPlace'
    BY <1>0, <2>1 DEF SlotInPlace, BridgeInPlace
  <2> QED
    BY <1>a, <2>5, <2>6, <2>7
<1>3. CASE Post
  <2>1. UNCHANGED <<bridge, request, device, slot, quit, used>>
    BY <1>3 DEF Post
  <2>2. /\ call' \in Calls /\ call'.pc = call.pc /\ call'.thread = call.thread
        /\ call'.waiting /\ ~call'.woken
        /\ slots' \in Seq(Slots) /\ pending' \in [number : Nat, ok : BOOLEAN]
    BY <1>3, PostTypes
  <2>3. call.pc \in Steps
    BY <1>3 DEF Post
  <2>4. TypesNow'
    BY <1>0, <2>1, <2>2 DEF TypesNow
  <2>5. CallInPlace' /\ ShutdownInPlace'
    BY <1>0, <2>1, <2>2, <2>3 DEF CallInPlace, ShutdownInPlace
  <2>6. SlotInPlace' /\ BridgeInPlace'
    BY <1>0, <2>1 DEF SlotInPlace, BridgeInPlace
  <2> QED
    BY <1>a, <2>4, <2>5, <2>6
<1>4. CASE TakeResult \/ WaitTimesOut
  <2>1. UNCHANGED <<bridge, request, slots, slot, quit>>
    BY <1>4 DEF TakeResult, WaitTimesOut
  <2>2. pending' \in [number : Nat, ok : BOOLEAN]
    <3>1. NoResult \in [number : Nat, ok : BOOLEAN]
      BY DEF NoResult
    <3>2. pending' = NoResult \/ pending' = pending
      BY <1>4 DEF TakeResult, WaitTimesOut
    <3> QED
      BY <1>0, <3>1, <3>2 DEF TypesNow
  <2>3. used' \in UsedStates
    BY <1>0, <1>4, CountTypes DEF TakeResult, WaitTimesOut, TypesNow
  <2>4. call.waiting /\ call.pc \in Steps
    BY <1>0, <1>4 DEF TakeResult, WaitTimesOut, CallInPlace
  <2>5. PICK ok \in BOOLEAN : Continue(ok)
    <3>1. CASE TakeResult
      <4>1. pending.ok \in BOOLEAN
        BY <1>0 DEF TypesNow
      <4> QED
        BY <3>1, <4>1 DEF TakeResult
    <3>2. CASE WaitTimesOut
      BY <3>2, Zenon DEF WaitTimesOut
    <3> QED
      BY <1>4, <3>1, <3>2
  <2>6. PICK next \in After(call.pc, ok) :
          /\ device' = next.device /\ device' \in Devices
          /\ call' \in Calls /\ call'.pc = next.pc
          /\ call'.thread = call.thread /\ ~call'.waiting /\ ~call'.woken
    BY <1>0, <2>4, <2>5, ContinueTypes DEF TypesNow
  <2>7. next.pc \notin {"stop_all", "exited"}
    BY <1>0, <2>4, AfterCases DEF TypesNow
  <2>8. TypesNow'
    BY <1>0, <2>1, <2>2, <2>3, <2>6 DEF TypesNow
  <2>9. CallInPlace' /\ ShutdownInPlace'
    BY <1>0, <2>1, <2>6, <2>7 DEF CallInPlace, ShutdownInPlace
  <2>10. SlotInPlace' /\ BridgeInPlace'
    BY <1>0, <2>1 DEF SlotInPlace, BridgeInPlace
  <2> QED
    BY <1>a, <2>8, <2>9, <2>10
<1>5. CASE RunSlotAtOnce \/ RunSlotNested
  <2>1. UNCHANGED <<bridge, request, slot, quit, used>>
    BY <1>5 DEF RunSlotAtOnce, RunSlotNested
  <2>2. /\ pending' \in [number : Nat, ok : BOOLEAN]
        /\ call' \in Calls
        /\ call'.thread = call.thread /\ call'.pc = call.pc
        /\ call'.waiting = call.waiting /\ call'.woken = call.waiting
        /\ device' \in Devices /\ slots' \in Seq(Slots)
    BY <1>5, AtOnceTypes, NestedTypes
  <2>3. TypesNow'
    BY <1>0, <2>1, <2>2 DEF TypesNow
  <2>4. CallInPlace' /\ ShutdownInPlace'
    BY <1>0, <2>1, <2>2 DEF CallInPlace, ShutdownInPlace
  <2>5. SlotInPlace' /\ BridgeInPlace'
    BY <1>0, <2>1 DEF SlotInPlace, BridgeInPlace
  <2> QED
    BY <1>a, <2>3, <2>4, <2>5
<1>6. CASE RunSlot
  <2>1. UNCHANGED <<bridge, request, call, pending, quit, used>>
    BY <1>6 DEF RunSlot
  <2>2. TypesNow'
    BY <1>0, <1>6, <2>1, RunSlotTypes DEF TypesNow
  <2>3. CallInPlace' /\ ShutdownInPlace' /\ BridgeInPlace'
    BY <1>0, <2>1 DEF CallInPlace, ShutdownInPlace, BridgeInPlace
  <2>4. SlotInPlace'
    BY <1>6, RunSlotTypes DEF SlotInPlace
  <2> QED
    BY <1>a, <2>2, <2>3, <2>4
<1>7. CASE SlotSends
  <2>1. UNCHANGED <<device, call, pending, slots, slot, quit, used>>
    BY <1>7 DEF SlotSends
  <2>2. slot.stage \in Actions /\ slot.action # "none"
    BY <1>0, <1>7 DEF SlotSends, TypesNow, SlotStates
  <2>3. /\ bridge' \in Bridges /\ request' \in RequestStates
        /\ bridge'.glasses = bridge.glasses
        /\ bridge'.sensors <=> bridge.sensors
        /\ bridge'.alive \/ /\ ~bridge.alive
                            /\ bridge'.inbox = <<>>
    BY <1>7, <2>2, SendTypes DEF SlotSends
  <2>4. TypesNow'
    BY <1>0, <2>1, <2>3 DEF TypesNow
  <2>5. CallInPlace' /\ ShutdownInPlace' /\ SlotInPlace'
    BY <1>0, <2>1, <2>2 DEF CallInPlace, ShutdownInPlace, SlotInPlace
  <2>6. BridgeInPlace'
    BY <1>0, <2>3 DEF BridgeInPlace
  <2> QED
    BY <1>a, <2>4, <2>5, <2>6
<1>8. CASE SlotClosedFirst
  <2>1. UNCHANGED <<bridge, call, pending, slots, quit, used>>
    BY <1>8 DEF SlotClosedFirst
  <2>2. request' \in RequestStates
    BY <1>8, FreeTypes DEF SlotClosedFirst
  <2>3. TypesNow'
    BY <1>0, <1>8, <2>1, <2>2, ClosedFirstTypes DEF TypesNow
  <2>4. CallInPlace' /\ ShutdownInPlace' /\ BridgeInPlace'
    BY <1>0, <2>1 DEF CallInPlace, ShutdownInPlace, BridgeInPlace
  <2>5. SlotInPlace'
    BY <1>8, ClosedFirstTypes DEF SlotInPlace
  <2> QED
    BY <1>a, <2>3, <2>4, <2>5
<1>9. CASE SlotRetries
  <2>1. UNCHANGED <<device, call, pending, slots, quit, used>>
    BY <1>9 DEF SlotRetries
  <2>2. request' \in RequestStates
    BY <1>9, FreeTypes DEF SlotRetries
  <2>3. TypesNow'
    BY <1>0, <1>9, <2>1, <2>2, RetryTypes DEF TypesNow
  <2>4. CallInPlace' /\ ShutdownInPlace'
    BY <1>0, <2>1 DEF CallInPlace, ShutdownInPlace
  <2>5. SlotInPlace'
    BY <1>9, RetryTypes DEF SlotInPlace
  <2>6. BridgeInPlace'
    BY <1>9, RetryTypes DEF BridgeInPlace, NoBridge
  <2> QED
    BY <1>a, <2>3, <2>4, <2>5, <2>6
<1>10. CASE SlotEnds
  <2>1. UNCHANGED <<bridge, slots, quit, used>>
    BY <1>10 DEF SlotEnds
  <2>2. request' \in RequestStates /\ request'.phase = "idle"
    BY <1>10, FreeTypes DEF SlotEnds
  <2>3. TypesNow'
    BY <1>0, <1>10, <2>1, <2>2, SlotEndsTypes DEF TypesNow
  <2>4. CallInPlace' /\ ShutdownInPlace' /\ SlotInPlace'
    BY <1>0, <1>10, <2>1, <2>2, SlotEndsTypes
       DEF CallInPlace, ShutdownInPlace, SlotInPlace
  <2>5. BridgeInPlace'
    BY <1>0, <2>1 DEF BridgeInPlace
  <2> QED
    BY <1>a, <2>3, <2>4, <2>5
<1>11. CASE MainReads
  <2>1. UNCHANGED <<device, call, pending, slots, slot, quit, used>>
    BY <1>11 DEF MainReads
  <2>2. HandleResponse
    BY <1>11 DEF MainReads
  <2>3. TypesNow'
    BY <1>0, <2>1, <2>2, ResponseStepTypes DEF TypesNow
  <2>4. CallInPlace' /\ ShutdownInPlace'
    BY <1>0, <2>1 DEF CallInPlace, ShutdownInPlace
  <2>5. SlotInPlace' /\ BridgeInPlace'
    BY <1>0, <2>1, <2>2, ResponseStepTypes DEF SlotInPlace, BridgeInPlace
  <2> QED
    BY <1>a, <2>3, <2>4, <2>5
<1>12. CASE RequestTimesOut \/ (BridgeFinished /\ UNCHANGED deviceVars)
  <2>1. /\ GiveUpRequest
        /\ UNCHANGED <<bridge, device, call, pending, slots, slot, quit>>
    BY <1>12 DEF RequestTimesOut, BridgeFinished, GiveUpRequest
  <2>2. used' \in UsedStates
    BY <1>0, <1>12, CountTypes DEF RequestTimesOut, TypesNow
  <2>3. TypesNow'
    BY <1>0, <2>1, <2>2, GiveUpTypes DEF TypesNow
  <2>4. CallInPlace' /\ ShutdownInPlace' /\ BridgeInPlace'
    BY <1>0, <2>1 DEF CallInPlace, ShutdownInPlace, BridgeInPlace
  <2>5. SlotInPlace'
    BY <1>0, <2>1 DEF SlotInPlace, GiveUpRequest
  <2> QED
    BY <1>a, <2>3, <2>4, <2>5
<1>13. CASE Worker
  <2>1. UNCHANGED <<device, call, pending, slots, slot, quit, used>>
    BY <1>13 DEF Worker
  <2>2. HandleCommand
    BY <1>13 DEF Worker
  <2>3. /\ bridge' \in Bridges /\ bridge'.alive /\ request' = request
        /\ bridge'.sensors => bridge'.glasses # "none"
    <3>1. /\ bridge' \in Bridges /\ bridge'.alive /\ request' = request
          /\ Head(bridge.inbox).action \in Actions
          /\ \E o \in Outcomes(Head(bridge.inbox).action) :
               bridge'.glasses = o.glasses /\ bridge'.sensors = o.sensors
      BY <2>2, CommandStepTypes
    <3> QED
      BY <1>0, <3>1, OutcomeCases DEF TypesNow
  <2>4. TypesNow'
    BY <1>0, <2>1, <2>3 DEF TypesNow
  <2>5. CallInPlace' /\ ShutdownInPlace' /\ SlotInPlace' /\ BridgeInPlace'
    BY <1>0, <2>1, <2>3
       DEF CallInPlace, ShutdownInPlace, SlotInPlace, BridgeInPlace
  <2> QED
    BY <1>a, <2>4, <2>5
<1>14. CASE Crash
  <2>1. UNCHANGED <<device, call, pending, slots, slot, quit>>
    BY <1>14 DEF Crash
  <2>2. used' \in UsedStates
    BY <1>14, CountTypes DEF Crash
  <2>3. BridgeDies
    BY <1>14 DEF Crash
  <2>4. TypesNow'
    BY <1>0, <2>1, <2>2, <2>3, DiesTypes DEF TypesNow
  <2>5. CallInPlace' /\ ShutdownInPlace' /\ SlotInPlace' /\ BridgeInPlace'
    BY <1>0, <2>1, <2>3, DiesTypes
       DEF CallInPlace, ShutdownInPlace, SlotInPlace, BridgeInPlace
  <2> QED
    BY <1>a, <2>4, <2>5
<1>15. CASE Quit
  <2>1. /\ quit' = TRUE
        /\ UNCHANGED <<bridge, request, device, call, pending, slots, slot, used>>
    BY <1>15 DEF Quit
  <2>2. quit' \in BOOLEAN /\ quit'
    BY <2>1, Zenon
  <2>3. TypesNow'
    BY <1>0, <2>1, <2>2 DEF TypesNow
  <2>4. CallInPlace' /\ ShutdownInPlace' /\ SlotInPlace' /\ BridgeInPlace'
    BY <1>0, <2>1, <2>2
       DEF CallInPlace, ShutdownInPlace, SlotInPlace, BridgeInPlace
  <2> QED
    BY <1>a, <2>3, <2>4
<1>16. CASE UNCHANGED vars
  <2>1. TypesNow' /\ CallInPlace' /\ ShutdownInPlace' /\ SlotInPlace'
          /\ BridgeInPlace'
    BY <1>0, <1>16
       DEF vars, TypesNow, CallInPlace, ShutdownInPlace, SlotInPlace,
           BridgeInPlace
  <2> QED
    BY <1>a, <2>1
<1> QED
  BY <1>1, <1>2, <1>3, <1>4, <1>5, <1>6, <1>7, <1>8, <1>9, <1>10, <1>11, <1>12,
     <1>13, <1>14, <1>15, <1>16
     DEF Next, Caller, MainLoop

\* The device, the call, the slots, the adapter and the worker with its pipes
\* keep their types.
THEOREM TypeCorrect == Spec => []TypeOK
<1>1. Spec => []Typed
  BY TypedInit, TypedStep, PTL DEF Spec
<1>2. Typed => TypeOK
  BY DEF Typed
<1> QED
  BY <1>1, <1>2, PTL

---------------------------------------------------------------------------
(* A response answers the request that waits for it *)

\* Every number in the pipes has been given out ...
NumbersUsed ==
  /\ request.id < request.next
  /\ \A i \in DOMAIN bridge.inbox : bridge.inbox[i].id < request.next
  /\ \A i \in DOMAIN bridge.outbox : bridge.outbox[i].id < request.next

\* ... and what carries the number that is waited for is of its action.
NumbersTell ==
  request.phase = "waiting" =>
    /\ request.answer = NoResponse
    /\ \A i \in DOMAIN bridge.inbox :
         bridge.inbox[i].id = request.id => bridge.inbox[i].action = request.action
    /\ \A i \in DOMAIN bridge.outbox :
         bridge.outbox[i].id = request.id => bridge.outbox[i].action = request.action

ResponseInv == NumbersUsed /\ NumbersTell /\ ResponseIsOwn

LEMMA ResponseInit == Init => ResponseInv
  BY DEF Init, BridgeInit, NoBridge, ResponseInv, NumbersUsed, NumbersTell,
     ResponseIsOwn

\* What the invariant speaks of is left alone by the device and the factory.
LEMMA ResponseUntouched ==
  ASSUME ResponseInv, UNCHANGED bridgeVars
  PROVE  ResponseInv'
  BY DEF bridgeVars, ResponseInv, NumbersUsed, NumbersTell, ResponseIsOwn

\* An adapter that is freed awaits nothing, whatever is in the pipes.
LEMMA ResponseFreed ==
  ASSUME Typed, ResponseInv, FreeRequest, bridge' \in {bridge, NoBridge}
  PROVE  ResponseInv'
<1>1. /\ request'.phase = "idle" /\ request'.id = request.id
      /\ request'.next = request.next
  BY FreeTypes
<1>2. NoBridge.inbox = <<>> /\ NoBridge.outbox = <<>>
  BY DEF NoBridge
<1> QED
  BY <1>1, <1>2
     DEF ResponseInv, NumbersUsed, NumbersTell, ResponseIsOwn

LEMMA ResponseSend ==
  ASSUME Typed, ResponseInv, NEW action \in Actions, SendRequest(action)
  PROVE  ResponseInv'
<1> DEFINE r == [id |-> request.next, action |-> action]
<1>1. /\ bridge \in Bridges /\ request \in RequestStates
      /\ NumbersUsed
  BY Types DEF Typed, ResponseInv
<1>2. /\ request.next \in Nat /\ request.id \in Nat
      /\ bridge.inbox \in Seq(Request) /\ bridge.outbox \in Seq(Response)
  BY <1>1 DEF Bridges, RequestStates
<1>3. r.id = request.next /\ r.action = action
  OBVIOUS
<1>4. request'.action = action /\ request'.answer = NoResponse
  BY SendTypes
<1>5. CASE /\ request'.phase = "waiting" /\ bridge'.alive
           /\ request'.id = request.next /\ request'.next = request.next + 1
           /\ r \in Request
           /\ \/ /\ bridge.alive /\ bridge'.outbox = bridge.outbox
                 /\ bridge'.inbox = Append(bridge.inbox, r)
              \/ bridge'.outbox = <<>> /\ bridge'.inbox = <<r>>
  <2> HIDE DEF r
  <2>1. \A i \in DOMAIN bridge'.inbox :
          \/ bridge'.inbox[i] = r
          \/ i \in DOMAIN bridge.inbox /\ bridge'.inbox[i] = bridge.inbox[i]
    <3>1. CASE bridge'.inbox = Append(bridge.inbox, r)
      BY <1>2, <3>1
    <3>2. CASE bridge'.inbox = <<r>>
      BY <3>2
    <3> QED
      BY <1>5, <3>1, <3>2
  <2>2. \A i \in DOMAIN bridge'.outbox :
          i \in DOMAIN bridge.outbox /\ bridge'.outbox[i] = bridge.outbox[i]
    BY <1>2, <1>5
  <2>3. /\ \A i \in DOMAIN bridge.inbox : bridge.inbox[i].id \in Nat
        /\ \A i \in DOMAIN bridge.outbox : bridge.outbox[i].id \in Nat
    <3>1. /\ \A i \in DOMAIN bridge.inbox : bridge.inbox[i] \in Request
          /\ \A i \in DOMAIN bridge.outbox : bridge.outbox[i] \in Response
      BY <1>2
    <3>2. \A q \in Request : q.id \in Nat
      BY DEF Request
    <3> QED
      BY <3>1, <3>2, ResponseTypes
  <2>4. /\ \A i \in DOMAIN bridge'.inbox :
             \/ bridge'.inbox[i].id = request.next /\ bridge'.inbox[i].action = action
             \/ bridge'.inbox[i].id \in Nat /\ bridge'.inbox[i].id < request.next
        /\ \A i \in DOMAIN bridge'.outbox :
             bridge'.outbox[i].id \in Nat /\ bridge'.outbox[i].id < request.next
    BY <1>1, <1>3, <2>1, <2>2, <2>3 DEF NumbersUsed
  <2>5. NumbersUsed'
    BY <1>2, <1>5, <2>4 DEF NumbersUsed
  <2>6. NumbersTell'
    BY <1>2, <1>4, <1>5, <2>4 DEF NumbersTell
  <2>7. ResponseIsOwn'
    BY <1>5 DEF ResponseIsOwn
  <2> QED
    BY <2>5, <2>6, <2>7 DEF ResponseInv
<1>6. CASE /\ request'.phase = "returned" /\ ~bridge.alive /\ ~bridge'.alive
           /\ request'.id = request.id /\ request'.next = request.next
           /\ bridge'.inbox = <<>> /\ bridge'.outbox = <<>>
  BY <1>1, <1>4, <1>6 DEF ResponseInv, NumbersUsed, NumbersTell, ResponseIsOwn
<1> QED
  BY <1>5, <1>6, SendTypes

LEMMA ResponseRead ==
  ASSUME Typed, ResponseInv, HandleResponse
  PROVE  ResponseInv'
<1> DEFINE m == Head(bridge.outbox)
<1>1. bridge \in Bridges
  BY Types DEF Typed
<1>2. /\ bridge.outbox \in Seq(Response) /\ bridge.outbox # <<>>
      /\ bridge'.outbox = Tail(bridge.outbox) /\ bridge'.inbox = bridge.inbox
  BY <1>1, ResponseStepTypes DEF Bridges
<1>3. /\ \A i \in DOMAIN bridge'.outbox :
           i + 1 \in DOMAIN bridge.outbox
             /\ bridge'.outbox[i] = bridge.outbox[i + 1]
      /\ 1 \in DOMAIN bridge.outbox /\ m = bridge.outbox[1]
  BY <1>2
<1>4. /\ request'.id = request.id /\ request'.next = request.next
      /\ request'.action = request.action
      /\ \/ /\ request.phase = "waiting" /\ m.id = request.id
            /\ request'.phase = "returned" /\ request'.answer = m
         \/ request' = request
  BY ResponseStepTypes
<1> HIDE DEF m
<1>5. NumbersUsed'
  BY <1>2, <1>3, <1>4 DEF ResponseInv, NumbersUsed
<1>6. NumbersTell'
  BY <1>2, <1>3, <1>4 DEF ResponseInv, NumbersTell
<1>7. ResponseIsOwn'
  BY <1>3, <1>4 DEF ResponseInv, NumbersTell, ResponseIsOwn
<1> QED
  BY <1>5, <1>6, <1>7 DEF ResponseInv

LEMMA ResponseAnswer ==
  ASSUME Typed, ResponseInv, HandleCommand
  PROVE  ResponseInv'
<1>1. PICK a \in Response :
        /\ a.id = Head(bridge.inbox).id /\ a.action = Head(bridge.inbox).action
        /\ bridge'.outbox = Append(bridge.outbox, a)
  BY CommandStepTypes
<1>2. /\ bridge.inbox # <<>> /\ bridge'.inbox = Tail(bridge.inbox)
      /\ request' = request
  BY CommandStepTypes
<1>3. bridge.inbox \in Seq(Request) /\ bridge.outbox \in Seq(Response)
  BY Types DEF Typed, Bridges
<1>4. /\ \A i \in DOMAIN bridge'.inbox :
           i + 1 \in DOMAIN bridge.inbox
             /\ bridge'.inbox[i] = bridge.inbox[i + 1]
      /\ 1 \in DOMAIN bridge.inbox /\ Head(bridge.inbox) = bridge.inbox[1]
  BY <1>2, <1>3
<1>5. \A i \in DOMAIN bridge'.outbox :
        \/ bridge'.outbox[i] = a
        \/ i \in DOMAIN bridge.outbox /\ bridge'.outbox[i] = bridge.outbox[i]
  BY <1>1, <1>3
<1>6. a.id = bridge.inbox[1].id /\ a.action = bridge.inbox[1].action
  BY <1>1, <1>4
<1>7. NumbersUsed'
  BY <1>2, <1>4, <1>5, <1>6 DEF ResponseInv, NumbersUsed
<1>8. NumbersTell'
  BY <1>2, <1>4, <1>5, <1>6 DEF ResponseInv, NumbersTell
<1>9. ResponseIsOwn'
  BY <1>2 DEF ResponseInv, ResponseIsOwn
<1> QED
  BY <1>7, <1>8, <1>9 DEF ResponseInv

LEMMA ResponseStep == Typed /\ ResponseInv /\ [Next]_vars => ResponseInv'
<1> SUFFICES ASSUME Typed, ResponseInv, [Next]_vars PROVE ResponseInv'
  OBVIOUS
<1>1. CASE \/ BeginCommand \/ BeginShutdown \/ EndShutdown \/ Post \/ TakeResult
           \/ WaitTimesOut \/ RunSlotAtOnce \/ RunSlot \/ RunSlotNested \/ Quit
           \/ UNCHANGED vars
  <2>1. UNCHANGED bridgeVars
    BY <1>1
       DEF BeginCommand, BeginShutdown, EndShutdown, Post, TakeResult,
           WaitTimesOut, RunSlotAtOnce, RunSlot, RunSlotNested, Quit, vars,
           bridgeVars
  <2> QED
    BY <2>1, ResponseUntouched
<1>2. CASE SlotSends
  <2>1. slot.stage \in Actions
    BY Types DEF Typed, SlotStates
  <2> QED
    BY <1>2, <2>1, ResponseSend DEF SlotSends
<1>3. CASE SlotClosedFirst \/ SlotRetries \/ SlotEnds
  <2>1. FreeRequest /\ bridge' \in {bridge, NoBridge}
    BY <1>3 DEF SlotClosedFirst, SlotRetries, SlotEnds, ShutdownBridge
  <2> QED
    BY <2>1, ResponseFreed
<1>4. CASE MainReads
  BY <1>4, ResponseRead DEF MainReads
<1>5. CASE RequestTimesOut \/ (BridgeFinished /\ UNCHANGED deviceVars)
  <2>1. GiveUpRequest /\ bridge' = bridge /\ request.phase = "waiting"
    BY <1>5 DEF RequestTimesOut, BridgeFinished, GiveUpRequest
  <2>2. /\ request'.phase = "returned" /\ request'.id = request.id
        /\ request'.next = request.next /\ request'.answer = request.answer
    BY <2>1, GiveUpTypes
  <2> QED
    BY <2>1, <2>2
       DEF ResponseInv, NumbersUsed, NumbersTell, ResponseIsOwn
<1>6. CASE Worker
  BY <1>6, ResponseAnswer DEF Worker
<1>7. CASE Crash
  <2>1. bridge'.inbox = <<>> /\ bridge'.outbox = bridge.outbox /\ request' = request
    BY <1>7, DiesTypes DEF Crash
  <2> QED
    BY <2>1 DEF ResponseInv, NumbersUsed, NumbersTell, ResponseIsOwn
<1> QED
  BY <1>1, <1>2, <1>3, <1>4, <1>5, <1>6, <1>7
     DEF Next, Caller, MainLoop

\* A request is answered by its own response or by none, whatever runs out of
\* time, comes late or dies, and over restarts of the worker
\* (native_glasses_adapter.cpp:599, 731-749).
THEOREM OwnResponse == Spec => []ResponseIsOwn
<1>1. Init => Typed /\ ResponseInv
  BY TypedInit, ResponseInit
<1>2. Typed /\ ResponseInv /\ [Next]_vars => (Typed /\ ResponseInv)'
  BY TypedStep, ResponseStep
<1>3. ResponseInv => ResponseIsOwn
  BY DEF ResponseInv
<1> QED
  BY <1>1, <1>2, <1>3, PTL DEF Spec

---------------------------------------------------------------------------
(* A result is that of the operation that waits for it *)

\* The main loop has ended and runs no slot any more.
Halted == quit /\ slot.action = "none"

\* As long as no wait has run out there is one slot, posted or begun, for an
\* operation that waits, and none otherwise.
OneOperation ==
  used.timeouts = 0 /\ ~Halted =>
    /\ call.waiting /\ ~call.woken =>
         \/ /\ slot.action = "none"
            /\ slots = <<[action |-> ActionOf[call.pc], number |-> call.number]>>
         \/ /\ slots = <<>>
            /\ slot.action = ActionOf[call.pc] /\ slot.number = call.number
    /\ ~call.waiting \/ call.woken => slots = <<>> /\ slot.action = "none"

ResultInv == OneOperation /\ ResultIsOwn

LEMMA ResultInit == Init => ResultInv
  BY DEF Init, NothingBegun, ResultInv, OneOperation, Halted, ResultIsOwn

\* What the invariant speaks of is left alone by the adapter and the worker; a
\* wait of the factory that runs out is counted.
LEMMA ResultUntouched ==
  ASSUME ResultInv, UNCHANGED <<call, pending, slots, quit>>,
         slot'.action = slot.action, slot'.number = slot.number,
         used'.timeouts = 0 => used.timeouts = 0
  PROVE  ResultInv'
  BY DEF ResultInv, OneOperation, Halted, ResultIsOwn

LEMMA ResultStep == Typed /\ ResultInv /\ [Next]_vars => ResultInv'
<1> SUFFICES ASSUME Typed, ResultInv, [Next]_vars PROVE ResultInv'
  OBVIOUS
<1>0. /\ TypesNow /\ CallInPlace /\ ShutdownInPlace /\ SlotInPlace
      /\ OneOperation /\ ResultIsOwn
  BY Types DEF Typed, TypesNow, ResultInv
<1> USE DEF bridgeVars, deviceVars
<1>1. CASE BeginCommand
  <2>1. /\ ~call.waiting /\ ~call.woken
        /\ UNCHANGED <<pending, slots, slot, quit>>
    BY <1>0, <1>1, StepActions DEF BeginCommand, CallInPlace
  <2>2. ~call'.waiting /\ ~call'.woken
    BY <1>0, <1>1, <2>1 DEF BeginCommand, TypesNow, Calls
  <2>3. used'.timeouts = used.timeouts
    BY <1>1, CountTypes DEF BeginCommand
  <2> QED
    BY <1>0, <2>1, <2>2, <2>3
       DEF ResultInv, OneOperation, Halted, ResultIsOwn
<1>2. CASE BeginShutdown \/ EndShutdown
  <2>1. UNCHANGED <<pending, slots, slot, quit, used>> /\ call.pc = "idle"
    BY <1>2 DEF BeginShutdown, EndShutdown
  <2>2. ~call.waiting /\ ~call.woken
    BY <1>0, <2>1, StepActions DEF CallInPlace
  <2>3. ~call'.waiting /\ ~call'.woken
    BY <1>0, <1>2, <2>2 DEF BeginShutdown, EndShutdown, TypesNow, Calls
  <2> QED
    BY <1>0, <2>1, <2>2, <2>3
       DEF ResultInv, OneOperation, Halted, ResultIsOwn
<1>3. CASE Post
  <2> DEFINE s == [action |-> ActionOf[call.pc], number |-> call.number + 1]
  <2>1. /\ call'.pc = call.pc /\ call'.waiting /\ ~call'.woken
        /\ call'.number = call.number + 1
        /\ slots' = Append(slots, s)
    BY <1>3, PostTypes
  <2>2. ~call.waiting /\ UNCHANGED <<slot, quit, used>>
    BY <1>3 DEF Post
  <2>3. slots = <<>> => slots' = <<[action |-> ActionOf[call'.pc],
                                    number |-> call'.number]>>
    BY <2>1
  <2> QED
    BY <1>0, <2>1, <2>2, <2>3
       DEF ResultInv, OneOperation, Halted, ResultIsOwn
<1>4. CASE TakeResult \/ WaitTimesOut
  <2>1. /\ UNCHANGED <<slots, slot, quit>>
        /\ \/ call.woken /\ used' = used
           \/ Halted
           \/ used'.timeouts = used.timeouts + 1
    BY <1>4, CountTypes DEF TakeResult, WaitTimesOut, Halted
  <2>2. ~call'.waiting /\ ~call'.woken
    <3>1. call.pc \in Steps
      BY <1>0, <1>4 DEF TakeResult, WaitTimesOut, CallInPlace
    <3>2. PICK ok \in BOOLEAN : Continue(ok)
      <4>1. CASE TakeResult
        <5>1. pending.ok \in BOOLEAN
          BY <1>0 DEF TypesNow
        <5> QED
          BY <4>1, <5>1 DEF TakeResult
      <4>2. CASE WaitTimesOut
        BY <4>2, Zenon DEF WaitTimesOut
      <4> QED
        BY <1>4, <4>1, <4>2
    <3> QED
      BY <1>0, <3>1, <3>2, ContinueTypes DEF TypesNow
  <2>3. used.timeouts \in Nat
    BY CountTypes
  <2> QED
    BY <1>0, <2>1, <2>2, <2>3
       DEF ResultInv, OneOperation, Halted, ResultIsOwn
<1>5. CASE RunSlotAtOnce
  <2>1. /\ slots # <<>> /\ ~quit /\ slot.action = "none"
        /\ UNCHANGED <<slot, quit, used>>
    BY <1>5 DEF RunSlotAtOnce
  <2>2. /\ pending'.number = Head(slots).number
        /\ call'.pc = call.pc /\ call'.waiting = call.waiting
        /\ call'.number = call.number /\ call'.woken = call.waiting
        /\ slots' = Tail(slots)
    BY <1>5, AtOnceTypes
  <2>3. CASE used.timeouts = 0
    <3>1. /\ call.waiting
          /\ slots = <<[action |-> ActionOf[call.pc], number |-> call.number]>>
      BY <1>0, <2>1, <2>3 DEF OneOperation, Halted
    <3>2. slots' = <<>> /\ Head(slots).number = call.number
      BY <2>2, <3>1
    <3> QED
      BY <2>1, <2>2, <3>1, <3>2
         DEF ResultInv, OneOperation, Halted, ResultIsOwn
  <2>4. CASE used.timeouts # 0
    BY <2>1, <2>4 DEF ResultInv, OneOperation, ResultIsOwn
  <2> QED
    BY <2>3, <2>4
<1>6. CASE RunSlot
  <2>1. /\ slots # <<>> /\ ~quit /\ slot.action = "none"
        /\ UNCHANGED <<call, pending, quit, used>>
    BY <1>6 DEF RunSlot
  <2>2. /\ slot'.action = Head(slots).action /\ slot'.number = Head(slots).number
        /\ slot'.action # "none" /\ slots' = Tail(slots)
    BY <1>6, RunSlotTypes
  <2>3. CASE used.timeouts = 0
    <3>1. /\ call.waiting /\ ~call.woken
          /\ slots = <<[action |-> ActionOf[call.pc], number |-> call.number]>>
      BY <1>0, <2>1, <2>3 DEF OneOperation, Halted
    <3>2. /\ slots' = <<>> /\ Head(slots).number = call.number
          /\ Head(slots).action = ActionOf[call.pc]
      BY <2>2, <3>1
    <3> QED
      BY <2>1, <2>2, <3>1, <3>2
         DEF ResultInv, OneOperation, Halted, ResultIsOwn
  <2>4. CASE used.timeouts # 0
    BY <2>1, <2>4 DEF ResultInv, OneOperation, ResultIsOwn
  <2> QED
    BY <2>3, <2>4
<1>7. CASE RunSlotNested
  <2>1. /\ slots # <<>> /\ ~quit /\ slot.action # "none"
        /\ UNCHANGED <<slot, quit, used>>
    BY <1>7 DEF RunSlotNested
  <2>2. used.timeouts # 0
    BY <1>0, <2>1 DEF OneOperation, Halted
  <2> QED
    BY <2>1, <2>2 DEF ResultInv, OneOperation, ResultIsOwn
<1>8. CASE SlotEnds
  <2>1. slot.action # "none" /\ UNCHANGED <<slots, quit, used>>
    BY <1>8 DEF SlotEnds
  <2>2. /\ pending'.number = slot.number
        /\ call'.pc = call.pc /\ call'.waiting = call.waiting
        /\ call'.number = call.number /\ call'.woken = call.waiting
        /\ slot'.action = "none"
    BY <1>8, SlotEndsTypes
  <2>3. used.timeouts = 0 =>
          call.waiting /\ slots = <<>> /\ slot.number = call.number
    BY <1>0, <2>1 DEF OneOperation, Halted
  <2> QED
    BY <2>1, <2>2, <2>3 DEF ResultInv, OneOperation, Halted, ResultIsOwn
<1>9. CASE \/ SlotSends \/ MainReads \/ RequestTimesOut \/ Worker \/ Crash
           \/ (BridgeFinished /\ UNCHANGED deviceVars) \/ UNCHANGED vars
  <2>1. UNCHANGED <<call, pending, slots, slot, quit>>
    BY <1>9
       DEF SlotSends, MainReads, RequestTimesOut, Worker, Crash, vars
  <2>2. used'.timeouts = 0 => used.timeouts = 0
    <3>1. \/ used' = used
          \/ CountTimeout /\ TimeoutLeft
          \/ used.crashes < MaxCrashes /\ used' = [used EXCEPT !.crashes = @ + 1]
      BY <1>9 DEF SlotSends, MainReads, RequestTimesOut, Worker, Crash, vars
    <3> QED
      BY <3>1, CountTypes
  <2> QED
    BY <2>1, <2>2, ResultUntouched
<1>10. CASE SlotClosedFirst \/ SlotRetries
  <2>1. /\ UNCHANGED <<call, pending, slots, quit, used>>
        /\ slot'.action = slot.action /\ slot'.number = slot.number
    BY <1>10, ClosedFirstTypes, RetryTypes DEF SlotClosedFirst, SlotRetries
  <2> QED
    BY <2>1, ResultUntouched
<1>11. CASE Quit
  <2>1. UNCHANGED <<call, pending, slots, slot, used>> /\ ~quit
    BY <1>11 DEF Quit
  <2> QED
    BY <1>0, <2>1 DEF ResultInv, OneOperation, Halted, ResultIsOwn
<1> QED
  BY <1>1, <1>2, <1>3, <1>4, <1>5, <1>6, <1>7, <1>8, <1>9, <1>10, <1>11
     DEF Next, Caller, MainLoop

\* A thread that is woken before any wait of the factory has run out finds the
\* result of its own operation, although the condition does not tell
\* (bsp_main_subnode.cpp:285-380 and 493-498, GlassesFactory::setResult and the
\* waits of its operations).
THEOREM OwnResult == Spec => []ResultIsOwn
<1>1. Init => Typed /\ ResultInv
  BY TypedInit, ResultInit
<1>2. Typed /\ ResultInv /\ [Next]_vars => (Typed /\ ResultInv)'
  BY TypedStep, ResultStep
<1>3. ResultInv => ResultIsOwn
  BY DEF ResultInv
<1> QED
  BY <1>1, <1>2, <1>3, PTL DEF Spec

---------------------------------------------------------------------------
(* What the flags of the device claim holds of the glasses *)

\* Nothing has run out or died, and the main loop runs.
Calm == used.timeouts + used.crashes = 0 /\ ~quit

\* The pipes hold the request that is waited for or its response, or nothing.
OneRequest ==
  /\ request.phase # "waiting" => bridge.inbox = <<>> /\ bridge.outbox = <<>>
  /\ request.phase = "waiting" =>
       /\ bridge.alive /\ request.action = slot.stage
       /\ \/ /\ bridge.outbox = <<>>
             /\ bridge.inbox = <<[id |-> request.id, action |-> request.action]>>
          \/ /\ bridge.inbox = <<>> /\ bridge.outbox = <<Head(bridge.outbox)>>
             /\ Head(bridge.outbox).id = request.id

\* The operation has been carried out or refused ...
Performed ==
  \/ call.woken
  \/ /\ slot.action # "none" /\ slot.stage = slot.action
     /\ \/ request.phase = "returned"
        \/ request.phase = "waiting" /\ bridge.outbox # <<>>

\* ... and what its caller will be told.
Told == IF call.woken THEN pending.ok
        ELSE IF request.phase = "returned" THEN Answered
        ELSE Head(bridge.outbox).ok

Blank == ~device.initialized /\ ~device.started
OpenAgrees == device.initialized => bridge.glasses = "open"
SensorsAgree == device.started => bridge.sensors
Opened == device.initialized /\ ~device.started /\ bridge.glasses = "open"

\* What holds before each operation, and between two commands.
ReadyFor ==
  /\ call.pc \in {"create", "open"} => Blank
  /\ call.pc \in {"start", "undo"} => Opened
  /\ call.pc \in {"configure", "display"} => Opened /\ bridge.sensors
  /\ call.pc \in {"idle", "stop", "enumerate", "state", "adjust"} =>
       OpenAgrees /\ SensorsAgree

\* What holds after each operation, by what its caller is told.
DoneWith ==
  /\ call.pc = "create" => Blank /\ (Told => bridge.glasses = "created")
  /\ call.pc = "open" => Blank /\ (Told => bridge.glasses = "open")
  /\ call.pc = "start" => Opened /\ (Told => bridge.sensors)
  /\ call.pc = "undo" => Opened
  /\ call.pc \in {"configure", "display"} => Opened /\ bridge.sensors
  /\ call.pc = "stop" => OpenAgrees /\ (~Told => SensorsAgree)
  /\ call.pc \in {"enumerate", "state", "adjust"} => OpenAgrees /\ SensorsAgree

InStep == IF Performed THEN DoneWith ELSE ReadyFor

\* The handle stands for the glasses, except while they are made or closed.
HandleAgrees ==
  /\ slot.action \notin {"create", "close"} =>
       (device.handle => bridge.glasses # "none")
  /\ slot.action \in NeedHandle => device.handle
  /\ slot.action = "close" => bridge.alive

DeviceInv == Calm => OneRequest /\ InStep /\ HandleAgrees

\* Waits that have run out and deaths stay counted; an ended loop stays ended.
LEMMA CalmBefore ==
  ASSUME Typed, [Next]_vars, Calm'
  PROVE  Calm /\ used.timeouts = 0 /\ ~Halted
<1> USE DEF bridgeVars, deviceVars
<1>1. /\ used.timeouts \in Nat /\ used.crashes \in Nat
      /\ \/ used'.timeouts = used.timeouts /\ used'.crashes = used.crashes
         \/ used'.timeouts = used.timeouts + 1 /\ used'.crashes = used.crashes
         \/ used'.timeouts = used.timeouts /\ used'.crashes = used.crashes + 1
  <2>1. \/ used' = used
        \/ CountTimeout /\ TimeoutLeft
        \/ used.crashes < MaxCrashes /\ used' = [used EXCEPT !.crashes = @ + 1]
        \/ used.commands < MaxCommands /\ used' = [used EXCEPT !.commands = @ + 1]
    BY DEF Next, BeginCommand, Caller, Post, TakeResult, WaitTimesOut,
           BeginShutdown, EndShutdown, MainLoop, RunSlotAtOnce, RunSlot,
           SlotSends, RunSlotNested, SlotClosedFirst, SlotRetries, SlotEnds,
           MainReads, RequestTimesOut, Worker, Crash, Quit, vars
  <2> QED
    BY <2>1, CountTypes
<1>2. quit' = quit \/ quit'
  BY DEF Next, BeginCommand, Caller, Post, TakeResult, WaitTimesOut,
         BeginShutdown, EndShutdown, MainLoop, RunSlotAtOnce, RunSlot,
         SlotSends, RunSlotNested, SlotClosedFirst, SlotRetries, SlotEnds,
         MainReads, RequestTimesOut, Worker, Crash, Quit, vars
<1> QED
  BY <1>1, <1>2 DEF Calm, Halted

\* A step that the flags, the glasses and the operation do not notice.
SameView ==
  /\ call'.pc = call.pc
  /\ device'.initialized = device.initialized
  /\ device'.started = device.started
  /\ bridge'.glasses = bridge.glasses
  /\ bridge'.sensors <=> bridge.sensors

LEMMA ReadyKept ==
  ASSUME ReadyFor, SameView
  PROVE  ReadyFor'
  BY DEF ReadyFor, SameView, Blank, Opened, OpenAgrees, SensorsAgree

LEMMA DoneKept ==
  ASSUME DoneWith, SameView, Told' <=> Told
  PROVE  DoneWith'
<1> USE DEF SameView, Blank, Opened, OpenAgrees, SensorsAgree
<1>1. CASE Told
  BY <1>1 DEF DoneWith
<1>2. CASE ~Told
  BY <1>2 DEF DoneWith
<1> QED
  BY <1>1, <1>2

\* Without the handle an operation is refused and leaves all as it was.
LEMMA RefusedWithout ==
  ASSUME ReadyFor, SameView, ~Told' \/ call.pc = "close"
  PROVE  DoneWith'
<1> USE DEF SameView, Blank, Opened, OpenAgrees, SensorsAgree
<1>1. CASE call.pc = "close"
  BY <1>1 DEF DoneWith
<1>2. CASE ~Told'
  BY <1>2 DEF ReadyFor, DoneWith
<1> QED
  BY <1>1, <1>2

\* The operation of a slot tells the step of the command.
LEMMA StepOfSlot ==
  ASSUME call.pc \in Steps, slot.action = ActionOf[call.pc]
  PROVE  /\ slot.action = "create" <=> call.pc = "create"
         /\ slot.action = "open" <=> call.pc = "open"
         /\ slot.action = "start" <=> call.pc = "start"
         /\ slot.action = "close" <=> call.pc = "close"
         /\ slot.action = "configure" <=>
              call.pc \in {"configure", "display", "adjust"}
         /\ slot.action = "stop" <=>
              call.pc \in {"undo", "stop", "stop_all", "halt"}
         /\ slot.action = "state" <=> call.pc = "state"
         /\ slot.action = "enumerate" <=> call.pc = "enumerate"
  BY StepActions

\* What the worker makes of the glasses is what it answers.
LEMMA CarriedOut ==
  ASSUME bridge \in Bridges, BridgeInPlace, ReadyFor, call.pc \in Steps,
         call.pc # "stop_all", slot.action = ActionOf[call.pc],
         NEW o \in Outcomes(slot.action),
         UNCHANGED <<call, device>>,
         bridge'.glasses = o.glasses, bridge'.sensors = o.sensors,
         Told' <=> o.ok,
         slot.action \in Actions
  PROVE  DoneWith'
<1> USE DEF Blank, Opened, OpenAgrees, SensorsAgree
<1>1. /\ o.ok \in BOOLEAN /\ o.glasses \in Glasses /\ o.sensors \in BOOLEAN
      /\ o.sensors => o.glasses # "none"
      /\ slot.action = "create" /\ o.ok => o.glasses = "created"
      /\ slot.action \notin {"create", "close"} =>
           /\ o.glasses = "none" <=> bridge.glasses = "none"
           /\ slot.action # "open" => o.glasses = bridge.glasses
           /\ slot.action = "open" /\ o.ok => o.glasses = "open"
           /\ slot.action \notin {"start", "stop"} => o.sensors = bridge.sensors
           /\ slot.action \in {"start", "stop"} /\ ~o.ok =>
                o.sensors = bridge.sensors
           /\ slot.action = "start" /\ o.ok => o.sensors
  BY OutcomeCases
<1>2. CASE slot.action \in {"create", "close"}
  <2>1. call.pc = slot.action
    BY <1>2, StepOfSlot
  <2>2. CASE o.ok
    BY <1>1, <1>2, <2>1, <2>2 DEF ReadyFor, DoneWith
  <2>3. CASE ~o.ok
    BY <1>1, <1>2, <2>1, <2>3 DEF ReadyFor, DoneWith
  <2> QED
    BY <2>2, <2>3
<1>3. CASE slot.action = "open"
  <2>1. call.pc = "open"
    BY <1>3, StepOfSlot
  <2>2. CASE o.ok
    BY <1>1, <1>3, <2>1, <2>2 DEF ReadyFor, DoneWith
  <2>3. CASE ~o.ok
    BY <1>1, <1>3, <2>1, <2>3 DEF ReadyFor, DoneWith
  <2> QED
    BY <2>2, <2>3
<1>4. CASE slot.action = "start"
  <2>1. call.pc = "start"
    BY <1>4, StepOfSlot
  <2>2. bridge'.glasses = bridge.glasses /\ (o.ok => bridge'.sensors)
    BY <1>1, <1>4
  <2> QED
    BY <2>1, <2>2 DEF ReadyFor, DoneWith
<1>5. CASE slot.action = "stop"
  <2>1. call.pc \in {"undo", "stop", "halt"}
    BY <1>5, StepOfSlot
  <2>2. /\ bridge'.glasses = bridge.glasses
        /\ ~o.ok => bridge'.sensors = bridge.sensors
    BY <1>1, <1>5
  <2> QED
    BY <2>1, <2>2 DEF ReadyFor, DoneWith
<1>6. CASE slot.action \in {"configure", "state", "enumerate"}
  <2>1. call.pc \in {"configure", "display", "adjust", "state", "enumerate"}
    BY <1>6, StepOfSlot
  <2>2. bridge'.glasses = bridge.glasses /\ bridge'.sensors = bridge.sensors
    BY <1>1, <1>6
  <2> QED
    BY <2>1, <2>2 DEF ReadyFor, DoneWith
<1> QED
  BY <1>2, <1>3, <1>4, <1>5, <1>6 DEF Actions

LEMMA DeviceInit == Init => DeviceInv
  BY StepActions
     DEF Init, BridgeInit, NoBridge, NothingBegun, DeviceInv, OneRequest, InStep,
         HandleAgrees, Performed, ReadyFor, Blank, Opened, OpenAgrees,
         SensorsAgree, NeedHandle

\* In quiet times an operation that waits has its one slot, and the step of the
\* command tells its action.
LEMMA QuietTimes ==
  ASSUME Typed, ResultInv, Calm
  PROVE  /\ slot.action # "none" =>
              /\ call.waiting /\ ~call.woken /\ slots = <<>>
              /\ slot.action = ActionOf[call.pc] /\ call.pc \in Steps
              /\ call.pc # "stop_all"
         /\ slots # <<>> =>
              /\ call.waiting /\ ~call.woken /\ slot.action = "none"
              /\ Head(slots).action = ActionOf[call.pc] /\ call.pc \in Steps
              /\ call.pc # "stop_all" /\ Tail(slots) = <<>>
         /\ slot.action = "none" => request.phase = "idle"
         /\ ~call.waiting => ~call.woken /\ slot.action = "none" /\ slots = <<>>
         /\ call.woken => call.waiting /\ slot.action = "none"
         /\ call.pc \notin {"stop_all", "exited"} /\ call.thread # "main"
<1>1. /\ used.timeouts = 0 /\ ~Halted /\ ~quit
      /\ OneOperation /\ CallInPlace /\ ShutdownInPlace /\ SlotInPlace
  BY CountTypes DEF Calm, Halted, Typed, ResultInv
<1>2. call.waiting \in BOOLEAN /\ call.woken \in BOOLEAN
  BY Types DEF Typed, Calls
<1>3. /\ call.pc \notin {"stop_all", "exited"} /\ call.thread # "main"
      /\ slot.action = "none" => request.phase = "idle"
      /\ call.woken => call.waiting
      /\ call.waiting => call.pc \in Steps
  BY <1>1 DEF CallInPlace, ShutdownInPlace, SlotInPlace
<1>4. \/ /\ call.waiting /\ ~call.woken /\ slot.action = "none"
         /\ slots = <<[action |-> ActionOf[call.pc], number |-> call.number]>>
      \/ /\ call.waiting /\ ~call.woken /\ slots = <<>>
         /\ slot.action = ActionOf[call.pc]
      \/ (~call.waiting \/ call.woken) /\ slots = <<>> /\ slot.action = "none"
  BY <1>1, <1>2 DEF OneOperation
<1>5. call.pc \in Steps => ActionOf[call.pc] # "none"
  BY StepActions
<1>6. CASE /\ call.waiting /\ ~call.woken /\ slot.action = "none"
           /\ slots = <<[action |-> ActionOf[call.pc], number |-> call.number]>>
  <2>1. Head(slots).action = ActionOf[call.pc] /\ Tail(slots) = <<>>
    BY <1>6
  <2> QED
    BY <1>3, <1>6, <2>1
<1>7. CASE /\ call.waiting /\ ~call.woken /\ slots = <<>>
           /\ slot.action = ActionOf[call.pc]
  BY <1>3, <1>5, <1>7
<1>8. CASE (~call.waiting \/ call.woken) /\ slots = <<>> /\ slot.action = "none"
  BY <1>2, <1>3, <1>8
<1> QED
  BY <1>4, <1>6, <1>7, <1>8

LEMMA DeviceStep ==
  Typed /\ ResultInv /\ DeviceInv /\ [Next]_vars => DeviceInv'
<1> SUFFICES ASSUME Typed, ResultInv, DeviceInv, [Next]_vars, Calm'
             PROVE  OneRequest' /\ InStep' /\ HandleAgrees'
  BY DEF DeviceInv
<1>0. Calm /\ OneRequest /\ InStep /\ HandleAgrees /\ ~quit
  BY CalmBefore DEF DeviceInv, Calm
<1>q. /\ slot.action # "none" =>
           /\ call.waiting /\ ~call.woken /\ slots = <<>>
           /\ slot.action = ActionOf[call.pc] /\ call.pc \in Steps
           /\ call.pc # "stop_all"
      /\ slots # <<>> =>
           /\ call.waiting /\ ~call.woken /\ slot.action = "none"
           /\ Head(slots).action = ActionOf[call.pc] /\ call.pc \in Steps
           /\ call.pc # "stop_all" /\ Tail(slots) = <<>>
      /\ slot.action = "none" => request.phase = "idle"
      /\ ~call.waiting => ~call.woken /\ slot.action = "none" /\ slots = <<>>
      /\ call.woken => call.waiting /\ slot.action = "none"
      /\ call.pc \notin {"stop_all", "exited"} /\ call.thread # "main"
  BY <1>0, QuietTimes
<1>t. TypesNow /\ BridgeInPlace /\ SlotInPlace
  BY Types DEF Typed, TypesNow
<1> USE DEF bridgeVars, deviceVars
<1>1. CASE BeginCommand
  <2>1. PICK cmd \in Commands :
          /\ call' = [call EXCEPT !.pc = Begins(cmd).pc]
          /\ device' = Begins(cmd).device
    BY <1>1 DEF BeginCommand
  <2>2. UNCHANGED <<bridge, request, slots, slot>> /\ call.pc = "idle"
    BY <1>1 DEF BeginCommand
  <2>3. ~call.waiting /\ ~call.woken /\ slot.action = "none"
    <3>1. ~call.waiting
      BY <1>t, <2>2, StepActions DEF Typed, CallInPlace, TypesNow, Calls
    <3> QED
      BY <1>q, <3>1
  <2>4. call'.pc = Begins(cmd).pc /\ ~call'.woken
    BY <1>t, <2>1, <2>3 DEF TypesNow, Calls
  <2>5. /\ device'.handle = device.handle
        /\ \/ call'.pc = "create" /\ ~device'.initialized /\ ~device'.started
           \/ /\ call'.pc = "start" /\ device' = device
              /\ device.initialized /\ ~device.started
           \/ /\ call'.pc \in {"idle", "stop", "enumerate", "adjust", "state"}
              /\ device' = device
           \/ call'.pc \in {"halt", "close"} /\ device' = device /\ device.handle
           \/ /\ call'.pc = "idle"
              /\ ~device'.initialized /\ ~device'.started
    BY <1>t, <2>1, <2>4, BeginCases DEF TypesNow
  <2>6. OpenAgrees /\ SensorsAgree /\ (device.handle => bridge.glasses # "none")
    BY <1>0, <2>2, <2>3 DEF InStep, Performed, ReadyFor, HandleAgrees
  <2>7. ReadyFor' /\ ~Performed'
    BY <2>2, <2>3, <2>4, <2>5, <2>6
       DEF ReadyFor, Performed, Blank, Opened, OpenAgrees, SensorsAgree
  <2> QED
    BY <1>0, <2>2, <2>5, <2>7 DEF InStep, OneRequest, HandleAgrees
<1>2. CASE BeginShutdown \/ EndShutdown
  BY <1>0, <1>2, <1>q DEF BeginShutdown, EndShutdown
<1>3. CASE Post
  <2>1. UNCHANGED <<bridge, request, device, slot>> /\ ~call.waiting
    BY <1>3 DEF Post
  <2>2. call'.pc = call.pc /\ ~call'.woken
    BY <1>3, PostTypes
  <2>3. ~Performed /\ ~Performed'
    BY <1>q, <2>1, <2>2 DEF Performed
  <2>4. ReadyFor'
    BY <1>0, <2>1, <2>2, <2>3, ReadyKept DEF InStep, SameView
  <2> QED
    BY <1>0, <2>1, <2>3, <2>4 DEF InStep, OneRequest, HandleAgrees
<1>4. CASE TakeResult
  <2>1. /\ UNCHANGED <<bridge, request, slot>> /\ Continue(pending.ok)
        /\ call.waiting /\ call.woken /\ pending.ok \in BOOLEAN
    BY <1>4, <1>t DEF TakeResult, TypesNow
  <2>2. call.pc \in Steps
    BY <2>1 DEF Typed, CallInPlace
  <2>3. PICK next \in After(call.pc, pending.ok) :
          /\ device' = next.device
          /\ call'.pc = next.pc /\ ~call'.waiting /\ ~call'.woken
    BY <1>t, <2>1, <2>2, ContinueTypes DEF TypesNow
  <2>4. Performed /\ DoneWith /\ Told = pending.ok /\ slot.action = "none"
    BY <1>0, <1>q, <2>1 DEF InStep, Performed, Told
  <2>5. ~Performed'
    BY <2>1, <2>3, <2>4 DEF Performed
  <2>6. device.handle => bridge.glasses # "none"
    BY <1>0, <2>4 DEF HandleAgrees
  <2>7. device'.handle = device.handle /\ ReadyFor'
    <3> DEFINE ok == pending.ok
    <3> HIDE DEF ok
    <3>0. /\ next \in After(call.pc, ok) /\ ok \in BOOLEAN /\ Told = ok
          /\ device \in Devices
      BY <1>t, <2>1, <2>3, <2>4 DEF ok, TypesNow
    <3>1. device'.handle = device.handle
      BY <2>2, <2>3, <3>0, AfterCases
    <3> USE DEF Blank, Opened, OpenAgrees, SensorsAgree
    <3>2. CASE call.pc = "create"
      <4>1. device' = device /\ call'.pc = IF ok THEN "open" ELSE "idle"
        BY <2>2, <2>3, <3>0, <3>2, AfterCases
      <4>2. Blank
        BY <2>4, <3>0, <3>2 DEF DoneWith
      <4>3. ReadyFor'
        BY <2>1, <4>1, <4>2 DEF ReadyFor
      <4> QED
        BY <3>1, <4>3
    <3>3. CASE call.pc = "open"
      <4>2. Blank /\ (ok => bridge.glasses = "open")
        BY <2>4, <3>0, <3>3 DEF DoneWith
      <4>3. CASE ok
        <5>1. call'.pc = "idle" /\ device'.initialized /\ ~device'.started
          <6>1. next.pc = "idle" /\ next.device.initialized /\ ~next.device.started
            <7>1. next \in {Ended(Flags(TRUE, FALSE))}
              BY <3>0, <3>3, <4>3 DEF After, InitDevice
            <7> QED
              <8>1. next.pc = "idle" /\ next.device = Flags(TRUE, FALSE)
                BY <7>1 DEF Ended, Flags
              <8> QED
                BY <3>0, <8>1, FlagsTypes
          <6> QED
            BY <2>3, <6>1
        <5>2. ReadyFor'
          BY <2>1, <4>2, <4>3, <5>1 DEF ReadyFor
        <5> QED
          BY <3>1, <5>2
      <4>4. CASE ~ok
        <5>1. next = Releases
          BY <2>2, <3>0, <3>3, <4>4, AfterCases
        <5>3. \/ call'.pc = "close"
              \/ call'.pc = "idle" /\ ~device'.initialized /\ ~device'.started
          BY <2>3, <3>0, <4>2, <5>1, ReleaseCases
        <5>4. ReadyFor'
          BY <5>3 DEF ReadyFor
        <5> QED
          BY <3>1, <5>4
      <4> QED
        BY <3>0, <4>3, <4>4
    <3>4. CASE call.pc \in {"start", "configure", "display"}
      <4>1. /\ Opened
            /\ call.pc = "start" => (ok => bridge.sensors)
            /\ call.pc # "start" => bridge.sensors
        BY <2>4, <3>0, <3>4 DEF DoneWith
      <4>2. \/ /\ call'.pc = "idle" /\ device'.initialized /\ device'.started
               /\ call.pc = "start" => ok
            \/ call'.pc = "idle" /\ device' = device
            \/ call'.pc = "configure" /\ device' = device /\ ok /\ call.pc = "start"
            \/ call'.pc = "display" /\ device' = device /\ call.pc = "configure"
            \/ call'.pc = "undo" /\ device' = device
        <5>1. CASE call.pc = "start"
          BY <2>2, <2>3, <3>0, <5>1, AfterCases
        <5>2. CASE call.pc = "configure"
          BY <2>2, <2>3, <3>0, <5>2, AfterCases
        <5>3. CASE call.pc = "display"
          BY <2>2, <2>3, <3>0, <5>3, AfterCases
        <5> QED
          BY <3>4, <5>1, <5>2, <5>3
      <4>3. ReadyFor'
        BY <2>1, <4>1, <4>2 DEF ReadyFor
      <4> QED
        BY <3>1, <4>3
    <3>5. CASE call.pc = "undo"
      <4>1. call'.pc = "idle" /\ device' = device
        BY <2>2, <2>3, <3>0, <3>5, AfterCases
      <4>2. ReadyFor'
        BY <2>1, <2>4, <3>5, <4>1 DEF DoneWith, ReadyFor
      <4> QED
        BY <3>1, <4>2
    <3>6. CASE call.pc = "stop"
      <4>1. /\ call'.pc = "idle" /\ device'.initialized = device.initialized
            /\ device'.started <=> device.started /\ ~ok
        BY <2>2, <2>3, <3>0, <3>6, AfterCases
      <4>2. OpenAgrees /\ (~ok => SensorsAgree)
        BY <2>4, <3>0, <3>6 DEF DoneWith
      <4>3. ReadyFor'
        BY <2>1, <4>1, <4>2 DEF ReadyFor
      <4> QED
        BY <3>1, <4>3
    <3>7. CASE call.pc = "halt"
      <4>1. call'.pc = "close"
        BY <2>2, <2>3, <3>0, <3>7, AfterCases
      <4>2. ReadyFor'
        BY <4>1 DEF ReadyFor
      <4> QED
        BY <3>1, <4>2
    <3>8. CASE call.pc = "close"
      <4>1. call'.pc = "idle" /\ ~device'.initialized /\ ~device'.started
        BY <2>2, <2>3, <3>0, <3>8, AfterCases
      <4>3. ReadyFor'
        BY <2>1, <4>1 DEF ReadyFor
      <4> QED
        BY <3>1, <4>3
    <3>9. CASE call.pc \in {"enumerate", "state", "adjust"}
      <4>1. call'.pc \in {"idle", "state"} /\ device' = device
        BY <2>2, <2>3, <3>0, <3>9, AfterCases
      <4>2. OpenAgrees /\ SensorsAgree
        BY <2>4, <3>9 DEF DoneWith
      <4>3. ReadyFor'
        BY <2>1, <4>1, <4>2 DEF ReadyFor
      <4> QED
        BY <3>1, <4>3
    <3> QED
      BY <1>q, <2>2, <3>2, <3>3, <3>4, <3>5, <3>6, <3>7, <3>8, <3>9, StepActions
  <2> QED
    BY <1>0, <2>1, <2>5, <2>7 DEF InStep, OneRequest, HandleAgrees
<1>5. CASE WaitTimesOut
  <2>1. CountTimeout /\ TimeoutLeft
    BY <1>0, <1>5, <1>q DEF WaitTimesOut
  <2>2. used'.timeouts = used.timeouts + 1 /\ used'.crashes = used.crashes
    BY <2>1, CountTypes
  <2> QED
    BY <2>2, CountTypes DEF Calm
<1>6. CASE RunSlotAtOnce
  <2> DEFINE s == Head(slots)
  <2>1. /\ slots # <<>> /\ slot.action = "none" /\ request.phase = "idle"
        /\ UNCHANGED <<bridge, request, slot>> /\ EndsAtOnce(s)
    BY <1>6 DEF RunSlotAtOnce
  <2>2. /\ pending'.ok <=> s.action = "close"
        /\ call'.pc = call.pc /\ call'.woken = call.waiting
        /\ device'.initialized = device.initialized
        /\ device'.started = device.started
        /\ device'.handle <=> device.handle /\ s.action # "close"
    BY <1>6, AtOnceTypes
  <2>3. /\ call.waiting /\ ~call.woken /\ call.pc \in Steps
        /\ s.action = ActionOf[call.pc]
    BY <1>q, <2>1
  <2>4. ~Performed /\ ReadyFor
    BY <1>0, <2>1, <2>3 DEF Performed, InStep
  <2>5. device.handle => bridge.glasses # "none"
    BY <1>0, <2>1 DEF HandleAgrees
  <2>6. ~Told' \/ call.pc = "close"
    BY <2>2, <2>3, StepActions DEF Told
  <2>7. DoneWith' /\ Performed'
    BY <2>1, <2>2, <2>3, <2>4, <2>6, RefusedWithout
       DEF SameView, Performed
  <2>8. device'.handle => device.handle
    BY <2>2
  <2> QED
    BY <1>0, <2>1, <2>5, <2>7, <2>8
       DEF InStep, OneRequest, HandleAgrees, NeedHandle
<1>7. CASE RunSlot
  <2> DEFINE s == Head(slots)
             closeFirst == s.action = "create" /\ device.handle
  <2>1. /\ slots # <<>> /\ slot.action = "none" /\ request.phase = "idle"
        /\ UNCHANGED <<bridge, request, call>> /\ ~EndsAtOnce(s)
    BY <1>7 DEF RunSlot
  <2>2. /\ slot'.action = s.action
        /\ device'.initialized = device.initialized
        /\ device'.started = device.started
        /\ device'.handle <=> device.handle /\ (closeFirst => bridge.alive)
    BY <1>7, RunSlotTypes
  <2>3. call.waiting /\ ~call.woken
    BY <1>q, <2>1
  <2>4. ~Performed /\ ~Performed'
    BY <2>1, <2>3 DEF Performed
  <2>5. ReadyFor'
    BY <1>0, <2>1, <2>2, <2>4, ReadyKept DEF SameView, InStep
  <2>6. /\ device.handle => bridge.glasses # "none"
        /\ s.action \in NeedHandle => device.handle
        /\ s.action = "close" => bridge.alive
    BY <1>0, <2>1 DEF HandleAgrees, EndsAtOnce
  <2>7. HandleAgrees'
    BY <2>1, <2>2, <2>6 DEF HandleAgrees, NeedHandle
  <2> QED
    BY <1>0, <2>1, <2>4, <2>5, <2>7 DEF InStep, OneRequest
<1>8. CASE SlotSends
  <2>1. /\ slot.action # "none" /\ SendRequest(slot.stage)
        /\ request.phase = "idle"
        /\ UNCHANGED <<device, call, pending, slots, slot>>
    BY <1>8 DEF SlotSends, SendRequest
  <2>2. slot.stage \in Actions
    BY <1>t DEF TypesNow, SlotStates
  <2> DEFINE r == [id |-> request.next, action |-> slot.stage]
  <2>3. /\ request'.action = slot.stage /\ request'.answer = NoResponse
        /\ bridge'.glasses = bridge.glasses
        /\ bridge'.sensors <=> bridge.sensors
        /\ \/ /\ request'.phase = "waiting" /\ bridge'.alive
              /\ request'.id = request.next
              /\ \/ /\ bridge.alive /\ bridge'.outbox = bridge.outbox
                    /\ bridge'.inbox = Append(bridge.inbox, r)
                 \/ bridge'.outbox = <<>> /\ bridge'.inbox = <<r>>
           \/ /\ request'.phase = "returned" /\ ~bridge.alive
              /\ bridge'.inbox = <<>> /\ bridge'.outbox = <<>>
    BY <2>1, <2>2, SendTypes
  <2>4. /\ bridge.inbox = <<>> /\ bridge.outbox = <<>>
        /\ ~Performed /\ ReadyFor /\ SameView
    BY <1>0, <1>q, <2>1, <2>3 DEF OneRequest, Performed, InStep, SameView
  <2>5. CASE request'.phase = "waiting"
    <3>1. /\ bridge'.alive /\ bridge'.outbox = <<>>
          /\ bridge'.inbox = <<[id |-> request'.id, action |-> request'.action]>>
      BY <2>3, <2>4, <2>5
    <3>2. OneRequest'
      BY <2>1, <2>3, <2>5, <3>1 DEF OneRequest
    <3>3. ~Performed' /\ ReadyFor'
      BY <1>q, <2>1, <2>4, <2>5, <3>1, ReadyKept DEF Performed
    <3> QED
      BY <1>0, <2>1, <2>3, <3>1, <3>2, <3>3 DEF InStep, HandleAgrees
  <2>6. CASE request'.phase = "returned"
    <3>1. /\ ~bridge.alive /\ bridge'.inbox = <<>> /\ bridge'.outbox = <<>>
      BY <2>3, <2>6
    <3>2. ~Told'
      BY <1>q, <2>1, <2>3, <2>6 DEF Told, Answered
    <3>3. ReadyFor' /\ DoneWith'
      BY <2>4, <3>1, <3>2, ReadyKept, RefusedWithout
    <3> QED
      BY <1>0, <2>1, <2>3, <2>6, <3>1, <3>3 DEF InStep, OneRequest, HandleAgrees
  <2> QED
    BY <2>3, <2>5, <2>6
<1>9. CASE RunSlotNested
  BY <1>9, <1>q DEF RunSlotNested
<1>10. CASE SlotClosedFirst
  <2>1. /\ slot.action = "create" /\ slot.stage = "close"
        /\ request.phase = "returned" /\ FreeRequest
        /\ UNCHANGED <<bridge, call>>
    BY <1>10 DEF SlotClosedFirst
  <2>2. /\ slot'.action = "create" /\ slot'.stage = "create"
        /\ device'.initialized = device.initialized
        /\ device'.started = device.started
    BY <1>10, ClosedFirstTypes
  <2>3. request'.phase = "idle"
    BY <2>1, FreeTypes
  <2>4. ~Performed /\ ~Performed'
    BY <1>q, <2>1, <2>3 DEF Performed
  <2>5. ReadyFor'
    BY <1>0, <2>1, <2>2, <2>4, ReadyKept DEF InStep, SameView
  <2> QED
    BY <1>0, <2>1, <2>2, <2>3, <2>4, <2>5
       DEF InStep, OneRequest, HandleAgrees, NeedHandle
<1>11. CASE SlotRetries
  <2>1. /\ request.phase = "returned" /\ FreeRequest
        /\ UNCHANGED <<device, call, slots>>
    BY <1>11 DEF SlotRetries
  <2>2. /\ slot'.action = slot.action /\ slot'.stage = slot.stage
        /\ slot.stage = "create" /\ slot.action = "create"
        /\ bridge' = NoBridge
    BY <1>11, RetryTypes
  <2>3. request'.phase = "idle"
    BY <2>1, FreeTypes
  <2>4. call.pc = "create" /\ ~call.woken
    BY <1>q, <2>2, StepOfSlot
  <2>5. Performed /\ ~Performed'
    BY <2>1, <2>2, <2>3, <2>4 DEF Performed
  <2>6. ReadyFor'
    BY <1>0, <2>1, <2>4, <2>5 DEF InStep, DoneWith, ReadyFor, Blank
  <2> QED
    BY <1>0, <2>2, <2>3, <2>5, <2>6
       DEF InStep, OneRequest, HandleAgrees, NeedHandle, NoBridge
<1>12. CASE SlotEnds
  <2>1. /\ slot.action # "none" /\ slot.stage = slot.action
        /\ request.phase = "returned" /\ FreeRequest /\ bridge' = bridge
    BY <1>12 DEF SlotEnds
  <2>2. /\ pending'.ok <=> Answered
        /\ call'.pc = call.pc /\ call'.woken = call.waiting
        /\ device'.initialized = device.initialized
        /\ device'.started = device.started
        /\ device'.handle <=> \/ slot.action = "create" /\ Answered
                              \/ /\ slot.action \notin {"create", "close"}
                                 /\ device.handle
        /\ slot'.action = "none"
    BY <1>12, SlotEndsTypes
  <2>3. request'.phase = "idle"
    BY <2>1, FreeTypes
  <2>4. call.waiting /\ ~call.woken /\ call'.woken
    BY <1>q, <2>1, <2>2
  <2>5. Performed /\ DoneWith /\ Performed'
    BY <1>0, <2>1, <2>4 DEF Performed, InStep
  <2>6. Told' <=> Answered
    BY <2>2, <2>4 DEF Told
  <2>7. Told <=> Answered
    BY <2>1, <2>4 DEF Told
  <2>8. DoneWith'
    BY <2>1, <2>2, <2>5, <2>6, <2>7, DoneKept DEF SameView
  <2>9. device'.handle => bridge.glasses # "none"
    <3>1. CASE slot.action = "create"
      <4>1. Told => bridge.glasses = "created"
        BY <1>q, <2>5, <3>1, StepOfSlot DEF DoneWith
      <4> QED
        BY <2>2, <2>7, <3>1, <4>1
    <3>2. CASE slot.action = "close"
      BY <2>2, <3>2
    <3>3. CASE slot.action \notin {"create", "close"}
      BY <1>0, <2>2, <3>3 DEF HandleAgrees
    <3> QED
      BY <3>1, <3>2, <3>3
  <2> QED
    BY <1>0, <2>1, <2>2, <2>3, <2>5, <2>8, <2>9
       DEF InStep, OneRequest, HandleAgrees, NeedHandle
<1>13. CASE MainReads
  <2> DEFINE m == Head(bridge.outbox)
  <2>1. HandleResponse /\ UNCHANGED <<device, call, slots, slot>>
    BY <1>13 DEF MainReads
  <2>2. /\ m \in Response /\ bridge.outbox # <<>>
        /\ bridge'.outbox = Tail(bridge.outbox)
        /\ bridge'.alive = bridge.alive /\ bridge'.glasses = bridge.glasses
        /\ bridge'.sensors = bridge.sensors /\ bridge'.inbox = bridge.inbox
        /\ \/ /\ request.phase = "waiting" /\ m.id = request.id
              /\ request'.phase = "returned" /\ request'.answer = m
           \/ ~(request.phase = "waiting" /\ m.id = request.id)
              /\ request' = request
    BY <2>1, ResponseStepTypes
  <2>3. /\ request.phase = "waiting" /\ bridge.inbox = <<>>
        /\ bridge.outbox = <<Head(bridge.outbox)>> /\ m.id = request.id
    BY <1>0, <2>2 DEF OneRequest
  <2>4. /\ request'.phase = "returned" /\ request'.answer = m
        /\ bridge'.inbox = <<>> /\ bridge'.outbox = <<>>
    <3>1. Tail(bridge.outbox) = <<>>
      <4>1. PICK s, h : s = bridge.outbox /\ s = <<h>>
        BY <2>3
      <4>2. Tail(s) = <<>>
        BY <4>1
      <4> QED
        BY <4>1, <4>2
    <3> QED
      BY <2>2, <2>3, <3>1
  <2>5. SameView
    BY <2>1, <2>2 DEF SameView
  <2>6. slot.action # "none" /\ ~call.woken
    BY <1>q, <2>3
  <2>7. CASE slot.stage = slot.action
    <3>1. Performed /\ DoneWith /\ Performed' /\ (Told <=> m.ok)
      BY <1>0, <2>1, <2>2, <2>3, <2>4, <2>6, <2>7 DEF Performed, InStep, Told
    <3>2. Told' <=> m.ok
      <4>1. m.ok \in BOOLEAN
        BY <2>2, ResponseTypes
      <4>2. m.ok => m # NoResponse
        BY ResponseTypes
      <4> QED
        BY <2>1, <2>4, <2>6, <4>1, <4>2 DEF Told, Answered
    <3>3. DoneWith'
      BY <2>5, <3>1, <3>2, DoneKept
    <3> QED
      BY <1>0, <2>1, <2>2, <2>4, <3>1, <3>3 DEF InStep, OneRequest, HandleAgrees
  <2>8. CASE slot.stage # slot.action
    <3>1. ~Performed /\ ~Performed'
      BY <2>1, <2>6, <2>8 DEF Performed
    <3>2. ReadyFor'
      BY <1>0, <2>5, <3>1, ReadyKept DEF InStep
    <3> QED
      BY <1>0, <2>1, <2>2, <2>4, <3>1, <3>2 DEF InStep, OneRequest, HandleAgrees
  <2> QED
    BY <2>7, <2>8
<1>14. CASE RequestTimesOut
  <2>1. CountTimeout /\ TimeoutLeft
    BY <1>0, <1>14 DEF RequestTimesOut
  <2>2. used'.timeouts = used.timeouts + 1 /\ used'.crashes = used.crashes
    BY <2>1, CountTypes
  <2> QED
    BY <2>2, CountTypes DEF Calm
<1>15. CASE BridgeFinished /\ UNCHANGED deviceVars
  BY <1>0, <1>15 DEF BridgeFinished, GiveUpRequest, OneRequest
<1>16. CASE Worker
  <2> DEFINE r == Head(bridge.inbox)
  <2>1. HandleCommand /\ UNCHANGED <<device, call, slots, slot>>
    BY <1>16 DEF Worker
  <2>2. /\ r \in Request /\ bridge.inbox # <<>> /\ bridge'.alive
        /\ bridge'.inbox = Tail(bridge.inbox) /\ request' = request
    BY <2>1, CommandStepTypes
  <2>3. PICK o \in Outcomes(r.action) :
          /\ bridge'.glasses = o.glasses /\ bridge'.sensors = o.sensors
          /\ \E a \in Response :
               /\ a.id = r.id /\ a.action = r.action /\ a.ok = o.ok
               /\ bridge'.outbox = Append(bridge.outbox, a)
    BY <2>1, CommandStepTypes
  <2>4. PICK a \in Response :
               /\ a.id = r.id /\ a.action = r.action /\ a.ok = o.ok
               /\ bridge'.outbox = Append(bridge.outbox, a)
    BY <2>3
  <2>5. /\ request.phase = "waiting" /\ request.action = slot.stage
        /\ bridge.outbox = <<>>
        /\ bridge.inbox = <<[id |-> request.id, action |-> request.action]>>
    BY <1>0, <2>2 DEF OneRequest
  <2>6. /\ r.id = request.id /\ r.action = slot.stage
        /\ bridge'.inbox = <<>> /\ bridge'.outbox = <<Head(bridge'.outbox)>>
        /\ Head(bridge'.outbox) = a
    BY <2>2, <2>4, <2>5
  <2>7. OneRequest'
    BY <2>1, <2>2, <2>4, <2>5, <2>6 DEF OneRequest
  <2>8. slot.action # "none" /\ ~call.woken
    BY <1>q, <2>5
  <2>9. slot.stage \in Actions /\ slot.action \in Actions
    BY <1>t, <2>8 DEF TypesNow, SlotStates
  <2>10. ~Performed /\ ReadyFor
    BY <1>0, <2>5, <2>8 DEF Performed, InStep
  <2>11. CASE slot.stage = slot.action
    <3>1. Performed' /\ (Told' <=> o.ok)
      BY <2>1, <2>2, <2>4, <2>5, <2>6, <2>8, <2>11 DEF Performed, Told
    <3>2. o \in Outcomes(slot.action)
      BY <2>6, <2>11
    <3>3. DoneWith'
      BY <1>q, <1>t, <2>1, <2>3, <2>8, <2>9, <2>10, <3>1, <3>2, CarriedOut
         DEF TypesNow
    <3>4. slot.action \notin {"create", "close"} =>
            (bridge'.glasses = "none" <=> bridge.glasses = "none")
      BY <1>t, <2>3, <2>9, <3>2, OutcomeCases DEF TypesNow
    <3> QED
      BY <1>0, <2>1, <2>2, <2>7, <3>1, <3>3, <3>4 DEF InStep, HandleAgrees
  <2>12. CASE slot.stage # slot.action
    <3>1. slot.action = "create" /\ call.pc = "create"
      BY <1>q, <1>t, <2>8, <2>12, StepOfSlot DEF SlotInPlace
    <3>2. ~Performed'
      BY <2>1, <2>8, <2>12 DEF Performed
    <3>3. ReadyFor'
      BY <2>1, <2>10, <3>1 DEF ReadyFor, Blank
    <3> QED
      BY <2>1, <2>7, <3>1, <3>2, <3>3 DEF InStep, HandleAgrees, NeedHandle
  <2> QED
    BY <2>11, <2>12
<1>17. CASE Crash
  <2>1. used'.crashes = used.crashes + 1 /\ used'.timeouts = used.timeouts
    BY <1>17, CountTypes DEF Crash
  <2> QED
    BY <2>1, CountTypes DEF Calm
<1>18. CASE Quit
  BY <1>18 DEF Quit, Calm
<1>19. CASE UNCHANGED vars
  BY <1>0, <1>19
     DEF vars, OneRequest, InStep, HandleAgrees, Performed, ReadyFor, DoneWith,
         Told, Answered, Blank, Opened, OpenAgrees, SensorsAgree
<1> QED
  BY <1>1, <1>2, <1>3, <1>4, <1>5, <1>6, <1>7, <1>8, <1>9, <1>10, <1>11, <1>12,
     <1>13, <1>14, <1>15, <1>16, <1>17, <1>18, <1>19
     DEF Next, Caller, MainLoop

\* As long as nothing has run out or died, the device is told initialized between
\* two commands only when the worker has its glasses open, and started only when
\* their sensors run, whatever the SDK has refused and wherever an init, a
\* start or a release has failed (bsp_main_subnode.cpp:693-885,
\* BspDevice::initialize, start, stop and release).
THEOREM FlagsMatchGlasses == Spec => []DeviceMatchesBridge
<1>1. Init => Typed /\ ResultInv /\ DeviceInv
  BY TypedInit, ResultInit, DeviceInit
<1>2. Typed /\ ResultInv /\ DeviceInv /\ [Next]_vars
        => (Typed /\ ResultInv /\ DeviceInv)'
  BY TypedStep, ResultStep, DeviceStep
<1>3. Typed /\ ResultInv /\ DeviceInv => DeviceMatchesBridge
  <2> SUFFICES ASSUME Typed, ResultInv, DeviceInv, Calm, call.pc = "idle"
               PROVE  /\ device.initialized => bridge.glasses = "open"
                      /\ device.started => bridge.sensors
                      /\ device.handle => bridge.glasses # "none"
    BY DEF DeviceMatchesBridge, Calm
  <2>1. call.waiting \in BOOLEAN /\ ~call.waiting
    BY Types, StepActions DEF Typed, CallInPlace, Calls
  <2>2. ~call.woken /\ slot.action = "none"
    BY <2>1, QuietTimes
  <2>3. ReadyFor /\ HandleAgrees
    BY <2>2 DEF DeviceInv, InStep, Performed
  <2> QED
    BY <2>2, <2>3 DEF ReadyFor, HandleAgrees, OpenAgrees, SensorsAgree
<1> QED
  BY <1>1, <1>2, <1>3, PTL DEF Spec
=============================================================================
