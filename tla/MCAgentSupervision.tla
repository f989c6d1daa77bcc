------------------------ MODULE MCAgentSupervision ------------------------
(* Instances of AgentSupervision for TLC.  The bounds are named in the      *)
(* .cfg files; the sets of user operations are named here.                  *)
EXTENDS AgentSupervision

\* Every timeout abandons one request id for good; one more is in use.
MCRequestIds == 1..(MaxFaults + 1)

\* Commands on a device that the watchdog keeps initialized.
OperationOps == {"start_device", "stop_device", "stop_record",
                 "STOP_ALL_AGENTS"}
=============================================================================
