-------------------------- MODULE RecordingContract --------------------------
(***************************************************************************)
(* What start_record, stop_record and delete_record promise together: one  *)
(* recording at a time; what arrives while it is on is owed to its folder  *)
(* and to no other; it is over when it has all of that, and its helper     *)
(* processes are gone; after that only a deletion changes the folder.      *)
(* Writers, buffers and locks do not appear, nor does the moment at which  *)
(* something that has arrived is written.                                  *)
(***************************************************************************)
EXTENDS Naturals

CONSTANTS
  Folders,   \* numbers of recordings, from 0, which stands for none yet
  Sample,    \* what the device delivers
  Helper     \* helper processes

VARIABLES
  phase,     \* of the current recording
  current,   \* the recording begun last
  owed,      \* recording -> samples that arrived while it was on
  folder,    \* recording -> samples in its folder
  removed,   \* recordings that have been deleted
  running    \* helper processes

vars == <<phase, current, owed, folder, removed, running>>

Init ==
  /\ phase = "off" /\ current = 0
  /\ owed = [r \in Folders |-> {}]
  /\ folder = [r \in Folders |-> {}]
  /\ removed = {} /\ running = {}

\* A start that is accepted may still fail.
Begin ==
  /\ phase = "off"
  /\ current + 1 \in Folders
  /\ phase' = "starting"
  /\ current' = current + 1
  /\ UNCHANGED <<owed, folder, removed, running>>

Start ==
  /\ phase = "starting"
  /\ phase' \in {"on", "off"}
  /\ UNCHANGED <<current, owed, folder, removed, running>>

\* Helpers follow the recording, not the other way round.
Launch ==
  /\ phase = "on" /\ running = {}
  /\ running' \in SUBSET Helper
  /\ UNCHANGED <<phase, current, owed, folder, removed>>

Arrive ==
  /\ phase = "on"
  /\ \E x \in Sample :
        /\ \A r \in Folders \ {current} : x \notin folder[r] \cup owed[r]
        /\ owed' = [owed EXCEPT ![current] = @ \cup {x}]
  /\ UNCHANGED <<phase, current, folder, removed, running>>

\* More may be written than is owed: samples that arrived at the edges.
Others == UNION {owed[r] : r \in Folders \ {current}}

Write ==
  /\ phase # "off"
  /\ \E some \in SUBSET (Sample \ Others) :
        folder' = [folder EXCEPT ![current] = @ \cup some]
  /\ UNCHANGED <<phase, current, owed, removed, running>>

Stop ==
  /\ phase = "on"
  /\ phase' = "ending"
  /\ UNCHANGED <<current, owed, folder, removed, running>>

StopHelpers ==
  /\ phase = "ending"
  /\ running' = {}
  /\ UNCHANGED <<phase, current, owed, folder, removed>>

Finish ==
  /\ phase = "ending"
  /\ running = {}
  /\ current \in removed \/ owed[current] \subseteq folder[current]
  /\ phase' = "off"
  /\ UNCHANGED <<current, owed, folder, removed, running>>

\* At any time, also of the recording that is on.
Remove ==
  /\ \E r \in Folders :
        /\ r <= current
        /\ removed' = removed \cup {r}
        /\ folder' = [folder EXCEPT ![r] = {}]
  /\ UNCHANGED <<phase, current, owed, running>>

Next == Begin \/ Start \/ Launch \/ Arrive \/ Write \/ Stop \/ StopHelpers
        \/ Finish \/ Remove

Spec == Init /\ [][Next]_vars
==============================================================================
