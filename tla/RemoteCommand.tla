--------------------------- MODULE RemoteCommand ---------------------------
(***************************************************************************)
(* What BaseAgent::cmd and the subnode behind it promise together: the     *)
(* commands of one agent are executed at most once and one at a time, and  *)
(* the caller of a command gets the outcome of that command or a failure,  *)
(* never the outcome of another one.  A command whose caller has given up  *)
(* may still be executed, later and in any order.                          *)
(***************************************************************************)
EXTENDS Naturals

CONSTANT MaxCommands  \* bound: commands the agent sends

VARIABLES
  stage,   \* command -> what has become of it on the subnode
  reply    \* command -> what its caller was told

Commands == 1..MaxCommands

\* "unknown" is the outcome of a command that has no handler.
Outcomes == {"completed", "interrupted", "unknown"}
Stages == {"unsent", "sent", "running"} \cup Outcomes

\* "posted" is the answer to a command that was sent without waiting.
Replies == {"none", "failed", "posted"} \cup Outcomes

Init ==
  /\ stage = [c \in Commands |-> "unsent"]
  /\ reply = [c \in Commands |-> "none"]

\* The callers of an agent take turns: a command is sent when every earlier
\* one has been replied to.
Send(c) ==
  /\ stage[c] = "unsent"
  /\ \A d \in Commands : stage[d] # "unsent" => reply[d] # "none"
  /\ stage' = [stage EXCEPT ![c] = "sent"]
  /\ UNCHANGED reply

Start(c) ==
  /\ stage[c] = "sent"
  /\ \A d \in Commands : stage[d] # "running"
  /\ stage' = [stage EXCEPT ![c] = "running"]
  /\ UNCHANGED reply

Finish(c) ==
  /\ stage[c] = "running"
  /\ \E how \in {"completed", "interrupted"} :
       stage' = [stage EXCEPT ![c] = how]
  /\ UNCHANGED reply

Refuse(c) ==
  /\ stage[c] = "sent"
  /\ stage' = [stage EXCEPT ![c] = "unknown"]
  /\ UNCHANGED reply

Answer(c) ==
  /\ reply[c] = "none"
  /\ stage[c] \in Outcomes
  /\ reply' = [reply EXCEPT ![c] = stage[c]]
  /\ UNCHANGED stage

DoNotWait(c) ==
  /\ reply[c] = "none"
  /\ stage[c] # "unsent"
  /\ \E r \in {"failed", "posted"} : reply' = [reply EXCEPT ![c] = r]
  /\ UNCHANGED stage

Next ==
  \E c \in Commands :
    Send(c) \/ Start(c) \/ Finish(c) \/ Refuse(c) \/ Answer(c) \/ DoNotWait(c)

Spec == Init /\ [][Next]_<<stage, reply>>
============================================================================
