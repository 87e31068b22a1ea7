------------------------------ MODULE RunStatus ------------------------------
(***************************************************************************)
(* The life cycle of a run as data: app/core/models.py (RunStatus) and     *)
(* app/orchestrator/state_machine.py (the transition table), with the sets *)
(* of statuses that the control plane and the executor branch on.          *)
(***************************************************************************)

Status == {"CREATED", "QUEUED", "STARTING", "RUNNING", "PAUSED", "STOPPING",
           "COMPLETED", "FAILED", "CANCELED"}

Absent == "ABSENT"      \* no record file yet

Terminal == {"COMPLETED", "FAILED", "CANCELED"}

(* ACTIVE_RUN_CONFLICT_STATUSES of the run manager and                     *)
(* INTERRUPTED_RUN_STATUSES of the executor: the same five statuses.       *)
Active == {"QUEUED", "STARTING", "RUNNING", "PAUSED", "STOPPING"}

AllowedTransitions ==
    [s \in Status |->
        CASE s = "CREATED"  -> {"QUEUED", "CANCELED", "FAILED"}
          [] s = "QUEUED"   -> {"STARTING", "CANCELED", "FAILED"}
          [] s = "STARTING" -> {"RUNNING", "STOPPING", "FAILED"}
          [] s = "RUNNING"  -> {"PAUSED", "STOPPING", "COMPLETED", "FAILED"}
          [] s = "PAUSED"   -> {"RUNNING", "STOPPING", "FAILED"}
          [] s = "STOPPING" -> {"COMPLETED", "FAILED", "CANCELED"}
          [] OTHER          -> {}]

(* validate_transition: staying where it is is always accepted.            *)
ValidTransition(current, target) ==
    current = target \/ target \in AllowedTransitions[current]
=============================================================================
