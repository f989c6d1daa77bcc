----------------------------- MODULE RemoteLink -----------------------------
(***************************************************************************)
(* LegacyRemoteActionClient: the command channel to a subnode that runs on *)
(* another machine.  A goal is sent on a request socket and accepted by a  *)
(* reply on it; its result arrives on a second socket, read by the         *)
(* listener thread, possibly before the reply.  A request that is not      *)
(* answered in time gets a new socket.  Feedback is left out.  The server  *)
(* is external: it may answer late, refuse, or lose a message.             *)
(***************************************************************************)
EXTENDS Integers, FiniteSets

CONSTANT MaxGoals     \* bound: goals sent

ASSUME RemoteAssumption == MaxGoals \in Nat

VARIABLES
  client,   \* the client: its sockets, pending goals and what its caller waits for
  wire      \* requests, replies and results on their way

remoteVars == <<client, wire>>

Goals == 1..MaxGoals
Message == [what : {"request", "accepted", "rejected", "result"},
            id : Goals, socket : Nat]

RemoteTypeOK ==
  /\ client \in [phase : {"closed", "idle", "reply", "result", "answered", "failed"},
                 id : 0..MaxGoals, taken : 0..MaxGoals, socket : Nat,
                 pending : SUBSET Goals, arrived : SUBSET Goals]
  /\ wire \subseteq Message

RemoteInit ==
  /\ client = [phase |-> "closed", id |-> 0, taken |-> 0, socket |-> 0,
               pending |-> {}, arrived |-> {}]
  /\ wire = {}

\* The constructor opens both sockets; goal numbers are unique over clients, since
\* makeRemoteGoalId adds the process and the clock.
OpenedClient == [client EXCEPT !.phase = "idle", !.socket = @ + 1,
                               !.pending = {}, !.arrived = {}]
ClosedClient == [client EXCEPT !.phase = "closed", !.pending = {}, !.arrived = {}]

\* sendGoal: the goal is pending before its request leaves.
SendRemoteGoal ==
  /\ client.phase = "idle" /\ client.id < MaxGoals
  /\ client' = [client EXCEPT !.phase = "reply", !.id = @ + 1,
                              !.pending = @ \cup {client.id + 1}]
  /\ wire' = wire \cup {[what |-> "request", id |-> client.id + 1,
                         socket |-> client.socket]}

\* Faulty variant: the old socket is used again.
SocketKept == client.socket

\* resetGoalSocket: a late reply to the old socket is not read any more.
SocketReset == client.socket + 1

\* callGoalSocket returns the next reply on its socket, or throws.
TakeReply ==
  /\ client.phase = "reply"
  /\ \E m \in wire :
       /\ m.what \in {"accepted", "rejected"} /\ m.socket = client.socket
       /\ wire' = wire \ {m}
       /\ client' = IF m.what = "accepted"
            THEN [client EXCEPT !.phase = "result", !.taken = m.id]
            ELSE [client EXCEPT !.phase = "failed", !.pending = @ \ {client.id}]

RequestFails ==
  /\ client.phase = "reply"
  /\ client' = [client EXCEPT !.phase = "failed", !.socket = SocketReset,
                              !.pending = @ \ {client.id}]
  /\ UNCHANGED wire

\* listenLoop and handleResult: the result of a goal that is not pending is dropped.
HandleResult ==
  \E m \in wire :
    /\ m.what = "result"
    /\ wire' = wire \ {m}
    /\ client' = [client EXCEPT !.arrived = @ \cup ({m.id} \cap client.pending)]

\* waitForResult, or the loop of cmd(), sees the result or runs out of time.
ResultSeen ==
  /\ client.phase = "result" /\ client.id \in client.arrived
  /\ client' = [client EXCEPT !.phase = "answered"]
  /\ UNCHANGED wire

ResultTimesOut ==
  /\ client.phase = "result" /\ client.id \notin client.arrived
  /\ client' = [client EXCEPT !.phase = "failed"]
  /\ UNCHANGED wire

\* The caller goes on; waitForServer removes its goal, cmd() leaves it.
Concluded(remove) ==
  [client EXCEPT !.phase = "idle",
                 !.pending = IF remove THEN @ \ {client.id} ELSE @]

\* The server, on the other machine.
ServeRequest ==
  \E m \in wire :
    /\ m.what = "request"
    /\ \E answer \in {{}, {"accepted", "result"}, {"rejected"}} :
         wire' = (wire \ {m}) \cup {[m EXCEPT !.what = a] : a \in answer}
    /\ UNCHANGED client

RemoteClient == TakeReply \/ RequestFails \/ HandleResult \/ ResultSeen \/ ResultTimesOut

---------------------------------------------------------------------------
\* A goal is taken for accepted on the word of its own reply: after a timeout the
\* late reply to the goal before must not be read by the next.
RepliesInStep == client.phase = "result" => client.taken = client.id
=============================================================================
