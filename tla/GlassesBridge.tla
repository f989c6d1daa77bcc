---------------------------- MODULE GlassesBridge ----------------------------
(***************************************************************************)
(* NativeGlassesAdapter and the bridge worker, the Python process that     *)
(* owns the SDK: requests go to it through its standard input, responses   *)
(* come back through its standard output.  The adapter lives in the main   *)
(* thread of the subnode and waits in a nested event loop.                 *)
(*                                                                         *)
(* Events with IMU and camera data share the pipe and are left out here    *)
(* (Recording and CameraPreview follow them), as is the framing.           *)
(***************************************************************************)
EXTENDS Integers, Sequences, FiniteSets

VARIABLES
  bridge,    \* the worker: process, glasses, sensors and its two pipes
  request    \* the adapter: what sendRequest waits for

bridgeVars == <<bridge, request>>

Actions == {"create", "open", "start", "stop", "configure", "state", "close",
            "enumerate"}
Glasses == {"none", "created", "open"}

Request == [id : Nat, action : Actions]
Response == [id : Nat, action : Actions, ok : BOOLEAN]
NoResponse == [id |-> 0, action |-> "state", ok |-> FALSE]

BridgeTypeOK ==
  /\ bridge \in [alive : BOOLEAN, glasses : Glasses, sensors : BOOLEAN,
                 inbox : Seq(Request), outbox : Seq(Response)]
  /\ request \in [phase : {"idle", "waiting", "returned"}, id : Nat,
                  action : Actions, answer : {NoResponse} \cup Response,
                  next : Nat]

NoBridge == [alive |-> FALSE, glasses |-> "none", sensors |-> FALSE,
             inbox |-> <<>>, outbox |-> <<>>]

BridgeInit ==
  /\ bridge = NoBridge
  /\ request = [phase |-> "idle", id |-> 0, action |-> "state",
                answer |-> NoResponse, next |-> 1]

---------------------------------------------------------------------------
(* The worker                                                               *)

\* What _handle_command may answer to an action, and what it leaves behind.
Outcome(ok, glasses, sensors) == [ok |-> ok, glasses |-> glasses, sensors |-> sensors]

Refused == Outcome(FALSE, bridge.glasses, bridge.sensors)
Done == Outcome(TRUE, bridge.glasses, bridge.sensors)

CreateOutcomes ==     \* the old glasses are closed first; a failure may come after the new are there
  {Outcome(FALSE, "none", FALSE), Outcome(FALSE, "created", FALSE),
   Outcome(TRUE, "created", FALSE)}
OpenOutcomes == {Refused, Outcome(TRUE, "open", bridge.sensors)}
SensorOutcomes(on) == {Refused, Outcome(TRUE, bridge.glasses, on)}
CloseOutcomes == {Outcome(TRUE, "none", FALSE)}

\* Without glasses the worker refuses everything that needs them.
WithGlasses(outcomes) == IF bridge.glasses = "none" THEN {Refused} ELSE outcomes

Outcomes(action) ==
  CASE action = "create" -> CreateOutcomes
    [] action = "close" -> CloseOutcomes
    [] action = "enumerate" -> {Refused, Done}
    [] action = "open" -> WithGlasses(OpenOutcomes)
    [] action \in {"start", "stop"} -> WithGlasses(SensorOutcomes(action = "start"))
    [] action \in {"configure", "state"} -> WithGlasses({Refused, Done})

HandleCommand ==
  /\ bridge.alive /\ bridge.inbox # <<>>
  /\ LET r == Head(bridge.inbox) IN
     \E o \in Outcomes(r.action) :
        bridge' = [bridge EXCEPT
          !.glasses = o.glasses, !.sensors = o.sensors, !.inbox = Tail(@),
          !.outbox = Append(@, [id |-> r.id, action |-> r.action, ok |-> o.ok])]
  /\ UNCHANGED request

\* The worker dies; what it has written can still be read.
BridgeDies ==
  /\ bridge.alive
  /\ bridge' = [NoBridge EXCEPT !.outbox = bridge.outbox]
  /\ UNCHANGED request

---------------------------------------------------------------------------
(* The adapter                                                              *)

\* Request numbers go on over restarts of the worker.
NextId == request.next + 1

\* ensureBridgeStarted: a worker that does not run is started, with empty pipes.
Started == IF bridge.alive THEN bridge ELSE [NoBridge EXCEPT !.alive = TRUE]

\* sendRequest up to its event loop; to start the worker may fail.  A write that
\* runs out of time is a request that is given up as soon as it is sent.
SendRequest(action) ==
  /\ request.phase = "idle"
  /\ LET r == [id |-> request.next, action |-> action]
     IN \/ /\ bridge' = [Started EXCEPT !.inbox = Append(@, r)]
           /\ request' = [request EXCEPT !.phase = "waiting", !.id = r.id,
                !.action = action, !.answer = NoResponse, !.next = NextId]
        \/ /\ ~bridge.alive
           /\ bridge' = NoBridge
           /\ request' = [request EXCEPT !.phase = "returned", !.action = action,
                                         !.answer = NoResponse]

\* Faulty variant: the next response is taken for the answer.
AwaitedAny(response) == request.phase = "waiting"

\* Is the response the one that sendRequest waits for?
Awaited(response) == request.phase = "waiting" /\ response.id = request.id

\* handleBridgeMessage: every other response is passed over.
HandleResponse ==
  /\ bridge.outbox # <<>>
  /\ bridge' = [bridge EXCEPT !.outbox = Tail(@)]
  /\ request' = IF Awaited(Head(bridge.outbox))
       THEN [request EXCEPT !.phase = "returned", !.answer = Head(bridge.outbox)]
       ELSE request

\* The loop ends without a response: on its timer or as the main loop ends ...
GiveUpRequest ==
  /\ request.phase = "waiting"
  /\ request' = [request EXCEPT !.phase = "returned"]
  /\ UNCHANGED bridge

\* ... or since the worker has ended (handleBridgeFinished).
BridgeFinished ==
  /\ ~bridge.alive /\ bridge.outbox = <<>>
  /\ GiveUpRequest

\* shutdownBridge: the worker is told to end, and killed if it does not.
ShutdownBridge == bridge' = NoBridge

---------------------------------------------------------------------------
\* sendRequest returns the answer to its own request or none, over timeouts, late
\* responses and restarts of the worker: a late "created" must not answer "close".
ResponseIsOwn ==
  request.phase = "returned" /\ request.answer # NoResponse
    => request.answer.action = request.action
=============================================================================
