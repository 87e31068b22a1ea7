----------------------------- MODULE RunLifecycle -----------------------------
(***************************************************************************)
(* What the platform promises about the status of a run, whoever writes    *)
(* it: a run appears as CREATED, moves only along the table of             *)
(* state_machine.py, and a finished run stays finished.  RunControl (API   *)
(* threads, executor and worker processes over the record files)           *)
(* implements it when the calls of RunStore do not overlap.                *)
(***************************************************************************)
EXTENDS RunStatus

CONSTANT Runs

VARIABLE status

Init == status = [r \in Runs |-> Absent]

Create(r) ==
    /\ status[r] = Absent
    /\ status' = [status EXCEPT ![r] = "CREATED"]

Move(r) ==
    /\ status[r] \in Status
    /\ \E s \in AllowedTransitions[status[r]] : status' = [status EXCEPT ![r] = s]

Next == \E r \in Runs : Create(r) \/ Move(r)

Spec == Init /\ [][Next]_status
===============================================================================
