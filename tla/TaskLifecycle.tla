----------------------------- MODULE TaskLifecycle -----------------------------
(***************************************************************************)
(* What the platform promises about a benchmark task, however its runs are *)
(* started, stopped and driven behind its back: its status only moves      *)
(* forward, one task at a time, from CREATED over RUNNING to a verdict     *)
(* that stands; a report gives the verdict of its task or none, and a stop *)
(* that is acknowledged leaves nothing of its task to be begun.            *)
(* BenchmarkTask (requests that read, cancel and create runs one by one)   *)
(* implements it.                                                          *)
(***************************************************************************)
CONSTANTS Tasks, None

VARIABLES
    status,     \* of each task, derived from its runs; ABSENT before it is stored
    report,     \* verdict of the last report on each task
    stopped     \* tasks whose stop was acknowledged

Verdicts == {"COMPLETED", "FAILED", "CANCELED", "PARTIAL_FAILED"}

Init ==
    /\ status = [k \in Tasks |-> "ABSENT"]
    /\ report = [k \in Tasks |-> None]
    /\ stopped = {}

Turns(k, s) == status' = [status EXCEPT ![k] = s] /\ UNCHANGED <<report, stopped>>

(* The runs are there before their task, and clients may have moved them.  *)
Appear(k) ==
    /\ status[k] = "ABSENT"
    /\ \E s \in {"CREATED", "RUNNING"} \union Verdicts : Turns(k, s)

(* The only run of a task may be canceled before it has begun.             *)
Begin(k) ==
    /\ status[k] = "CREATED"
    /\ \E s \in {"RUNNING", "CANCELED"} : Turns(k, s)

Finish(k) ==
    /\ status[k] = "RUNNING"
    /\ \E s \in Verdicts : Turns(k, s)

Report(k) ==
    /\ status[k] # "ABSENT"
    /\ \E v \in {None} \union (Verdicts \intersect {status[k]}) :
          report' = [report EXCEPT ![k] = v]
    /\ UNCHANGED <<status, stopped>>

Stop(k) ==
    /\ status[k] \in {"RUNNING"} \union Verdicts
    /\ stopped' = stopped \union {k}
    /\ UNCHANGED <<status, report>>

Next == \E k \in Tasks : Appear(k) \/ Begin(k) \/ Finish(k) \/ Report(k) \/ Stop(k)

Spec == Init /\ [][Next]_<<status, report, stopped>>
===============================================================================
