---------------------------- MODULE BenchmarkTask ----------------------------
(***************************************************************************)
(* Benchmark tasks (app/platform/service.py).  A task is a list of runs,   *)
(* one per row of its scenario matrix; its status is derived from the      *)
(* statuses of its runs whenever somebody asks.  Requests run on the       *)
(* threads of the API server, one step per call of a store or of the run   *)
(* manager, so that runs move on between two steps of a request.  The      *)
(* calls of the run manager are single steps here (RunControl opens them   *)
(* up), and WORKING stands for the statuses STARTING, RUNNING, PAUSED and  *)
(* STOPPING, which the platform service does not tell apart.               *)
(***************************************************************************)
EXTENDS Naturals, FiniteSets, SequencesExt

CONSTANTS
    Threads,        \* threads of the API server
    MaxRuns,        \* bound: how many runs are created
    MaxTasks,       \* bound: how many tasks are stored
    MaxRestarts,    \* bound: restarts of the API server
    MaxRequests,    \* bound: how many requests about tasks are made
    Catalog,        \* scenario -> its template
    Presets,        \* environment presets
    Profiles,       \* sensor profiles
    Requests,       \* what clients ask for
    None

Runs == 1 .. MaxRuns        \* in the order of their creation
Tasks == 1 .. MaxTasks

ASSUME ConstantsAssumption ==
    /\ MaxRuns \in Nat /\ MaxTasks \in Nat
    /\ MaxRestarts \in Nat /\ MaxRequests \in Nat
    /\ None \notin Presets \union Profiles
    /\ "scenario_default" \notin Presets /\ "disabled" \notin Profiles
    /\ \A q \in Requests : q.auto \in BOOLEAN

VARIABLES
    run,            \* the record of each run: status and cancel flag
    task,           \* the stored tasks
    th,             \* program counter and locals of each thread
    report,         \* the verdict of the last report on each task, None if it gave none
    restarts,       \* how often the API server was restarted
    requests,       \* how many requests were made
    stopped,        \* history: tasks whose stop went through all of their runs
    held            \* history: what was true of the task a thread reads, while it reads

vars == <<run, task, th, report, restarts, requests, stopped, held>>

Terminal == {"COMPLETED", "FAILED", "CANCELED"}
RunStatus == Terminal \union {"ABSENT", "CREATED", "QUEUED", "WORKING"}
Verdicts == Terminal \union {"PARTIAL_FAILED"}
TaskStatus == Verdicts \union {"CREATED", "RUNNING"}

Idle == [pc |-> "idle", then |-> "idle", task |-> None, source |-> None, rows |-> <<>>,
         mode |-> None, auto |-> FALSE, runs |-> <<>>, seen |-> <<>>, index |-> 1,
         handled |-> FALSE]

NoTask == [runs |-> <<>>, matrix |-> <<>>, mode |-> None]
Stored == {k \in Tasks : task[k].runs # <<>>}

Init ==
    /\ run = [r \in Runs |-> [status |-> "ABSENT", cancel |-> FALSE]]
    /\ task = [k \in Tasks |-> NoTask]
    /\ th = [t \in Threads |-> Idle]
    /\ report = [k \in Tasks |-> None]
    /\ restarts = 0 /\ requests = 0
    /\ stopped = {}
    /\ held = [t \in Threads |-> {}]

-------------------------------------------------------------------------------
(* What the task status means, stated apart from the code that derives it: *)
(* the runs of the task by their records in state.                         *)
Truth(runs, state) ==
    LET statuses == {state[runs[i]].status : i \in DOMAIN runs}
    IN  IF statuses = {"CREATED"} THEN "CREATED"
        ELSE IF ~ statuses \subseteq Terminal THEN "RUNNING"
        ELSE IF Cardinality(statuses) = 1 THEN CHOOSE s \in statuses : TRUE
        ELSE "PARTIAL_FAILED"

TrueStatus(k) == Truth(task[k].runs, run)

(* Every step, of whatever actor, notes what was true for those who read.  *)
Observe ==
    held' = [t \in Threads |->
                IF th[t].pc = "sync" THEN held[t] \union {TrueStatus(th[t].task)} ELSE {}]

-------------------------------------------------------------------------------
(* The matrix of a task.  A row is what the client asks for one run, an    *)
(* entry what the task records of it.                                      *)

Distinct(s) ==
    FoldLeft(LAMBDA kept, x : IF x \in ToSet(kept) THEN kept ELSE Append(kept, x), <<>>, s)

Runnable == {s \in DOMAIN Catalog : ~ Catalog[s].hidden}

(* Candidates that cannot be run are dropped; without candidates every     *)
(* runnable scenario is allowed.                                           *)
Allowed(definition) ==
    IF definition.candidates = <<>> THEN SetToSeq(Runnable)
    ELSE SelectSeq(Distinct(definition.candidates), LAMBDA s : s \in Runnable)

Duration(q) == IF q.duration # None THEN q.duration ELSE q.definition.duration

Selected(q) ==
    IF q.definition.mode = "all_runnable" THEN Allowed(q.definition) ELSE Distinct(q.selected)

PlainRow(scenario, timeout) ==
    [scenario |-> scenario, map |-> None, env |-> None, sensor |-> None, timeout |-> timeout]

(* _resolve_task_matrix_from_definition, for a request without a matrix.   *)
Plannable(q) ==
    /\ Selected(q) # <<>>
    /\ q.definition.mode # "all_runnable" => ToSet(Selected(q)) \subseteq ToSet(Allowed(q.definition))
    /\ q.definition.mode \in {"single_scenario", "timed_single_scenario"} => Len(Selected(q)) = 1
    /\ q.definition.mode = "timed_single_scenario" => Duration(q) # None

Matrix(q) ==
    IF q.matrix # <<>> THEN q.matrix
    ELSE [i \in DOMAIN Selected(q) |->
             PlainRow(Selected(q)[i],
                      IF q.definition.mode = "timed_single_scenario" THEN Duration(q) ELSE None)]

(* A planned matrix is a list of rows, and it has one.                     *)
ASSUME MatricesAreLists ==
    \A q \in Requests :
        q.matrix # <<>> \/ Plannable(q) => Matrix(q) \in Seq(ToSet(Matrix(q))) \ {<<>>}

(* The rows that the loop of create_benchmark_task lets through.           *)
Accepted(row) ==
    /\ row.scenario \in DOMAIN Catalog
    /\ row.env \in Presets \union {None}
    /\ \/ row.sensor \in {None, Catalog[row.scenario].sensor}
       \/ Catalog[row.scenario].editable /\ row.sensor \in Profiles

OrElse(value, default) == IF value = None THEN default ELSE value

Entry(row) ==
    LET template == Catalog[row.scenario]
    IN  [scenario  |-> row.scenario,
         map       |-> OrElse(row.map, template.map),
         env       |-> OrElse(row.env, "scenario_default"),
         sensor    |-> OrElse(OrElse(row.sensor, template.sensor), "disabled"),
         requested |-> row.timeout,
         timeout   |-> OrElse(OrElse(row.timeout, template.timeout), 30)]

ReplayNamesDefaults(entry, mode) ==         \* mutant: the stand-ins are replayed as names
    [scenario |-> entry.scenario, map |-> entry.map, env |-> entry.env,
     sensor |-> entry.sensor, timeout |-> entry.requested]

(* The row that rerun_benchmark_task makes of an entry.                    *)
ReplayRow(entry, mode) ==
    [scenario |-> entry.scenario,
     map      |-> entry.map,
     env      |-> IF entry.env = "scenario_default" THEN None ELSE entry.env,
     sensor   |-> IF entry.sensor = "disabled" THEN None ELSE entry.sensor,
     timeout  |-> IF entry.requested = None /\ mode = "timed_single_scenario"
                  THEN entry.timeout ELSE entry.requested]

-------------------------------------------------------------------------------
(* _derive_task_status                                                     *)
DeriveFinishedOnly(statuses) ==             \* mutant: CREATED is not among the active ones
    CASE statuses = {"CREATED"}                         -> "CREATED"
      [] statuses \intersect {"QUEUED", "WORKING"} # {} -> "RUNNING"
      [] statuses = {"COMPLETED"}                       -> "COMPLETED"
      [] statuses \subseteq {"FAILED"}                  -> "FAILED"
      [] statuses \subseteq {"CANCELED"}                -> "CANCELED"
      [] OTHER                                          -> "PARTIAL_FAILED"

Derive(statuses) ==
    IF statuses = {"CREATED"} THEN "CREATED"
    ELSE CASE statuses \intersect {"CREATED", "QUEUED", "WORKING"} # {} -> "RUNNING"
           [] statuses = {"COMPLETED"} -> "COMPLETED"
           [] statuses = {"FAILED"}    -> "FAILED"
           [] statuses = {"CANCELED"}  -> "CANCELED"
           [] OTHER                    -> "PARTIAL_FAILED"

-------------------------------------------------------------------------------
(* Requests.                                                               *)

Become(t, local) == th' = [th EXCEPT ![t] = local]

Reading(k, next) == [Idle EXCEPT !.pc = "sync", !.task = k, !.then = next]

Arrives(t) ==
    /\ th[t].pc = "idle" /\ requests < MaxRequests
    /\ requests' = requests + 1

(* get_benchmark_task and export_report.                                   *)
GetTask(t) ==
    /\ Arrives(t)
    /\ \E k \in Stored, next \in {"idle", "report"} : Become(t, Reading(k, next))
    /\ Observe
    /\ UNCHANGED <<run, task, report, restarts, stopped>>

(* Stops and reruns begin with a sync whose answer they do not use.        *)
StopTask(t) ==
    /\ Arrives(t)
    /\ \E k \in Stored : Become(t, [Idle EXCEPT !.pc = "look", !.task = k])
    /\ Observe
    /\ UNCHANGED <<run, task, report, restarts, stopped>>

Rerun(t) ==
    /\ Arrives(t)
    /\ \E k \in Stored, auto \in BOOLEAN :
          Become(t, [Idle EXCEPT !.pc = "rows", !.source = k, !.mode = task[k].mode, !.auto = auto,
                                 !.rows = [i \in DOMAIN task[k].matrix |->
                                              ReplayRow(task[k].matrix[i], task[k].mode)]])
    /\ Observe
    /\ UNCHANGED <<run, task, report, restarts, stopped>>

CreateTask(t) ==
    /\ Arrives(t)
    /\ \E q \in Requests :
          /\ q.matrix # <<>> \/ Plannable(q)
          /\ Become(t, [Idle EXCEPT !.pc = "rows", !.rows = Matrix(q),
                                    !.mode = q.definition.mode, !.auto = q.auto])
    /\ Observe
    /\ UNCHANGED <<run, task, report, restarts, stopped>>

Used == {r \in Runs : run[r].status # "ABSENT"}

(* One round of the loop over the matrix; a row that is refused ends the   *)
(* request, and the runs of the rows before it stay.                       *)
CreateRow(t) ==
    /\ th[t].pc = "rows" /\ Len(th[t].runs) < Len(th[t].rows)
    /\ LET r == Cardinality(Used) + 1
       IN  \/ /\ Accepted(th[t].rows[Len(th[t].runs) + 1])
              /\ r \in Runs
              /\ run' = [run EXCEPT ![r].status = "CREATED"]
              /\ th' = [th EXCEPT ![t].runs = Append(@, r)]
           \/ /\ ~ Accepted(th[t].rows[Len(th[t].runs) + 1])
              /\ Become(t, Idle)
              /\ UNCHANGED run
    /\ Observe
    /\ UNCHANGED <<task, report, restarts, requests, stopped>>

(* start_run                                                               *)
CanStartAgain(r) ==                         \* mutant: runs that have ended are started again
    /\ run[r].status \in {"CREATED", "FAILED"}
    /\ \A other \in Runs \ {r} : run[other].status \notin {"QUEUED", "WORKING"}

CanStart(r) ==
    /\ run[r].status = "CREATED"
    /\ \A other \in Runs \ {r} : run[other].status \notin {"QUEUED", "WORKING"}

Complete(t) == th[t].pc = "rows" /\ Len(th[t].runs) = Len(th[t].rows)

(* Only the head of the list is started; a conflict ends the request.      *)
AutoStart(t) ==
    /\ Complete(t) /\ th[t].auto
    /\ \/ /\ CanStart(Head(th[t].runs))
          /\ run' = [run EXCEPT ![Head(th[t].runs)].status = "QUEUED"]
          /\ th' = [th EXCEPT ![t].auto = FALSE]
       \/ ~ CanStart(Head(th[t].runs)) /\ Become(t, Idle) /\ UNCHANGED run
    /\ Observe
    /\ UNCHANGED <<task, report, restarts, requests, stopped>>

StoreTask(t) ==
    /\ Complete(t) /\ ~ th[t].auto
    /\ \E k \in Tasks :
          /\ Stored = 1 .. k - 1
          /\ task' = [task EXCEPT ![k] =
                [runs |-> th[t].runs, mode |-> th[t].mode,
                 matrix |-> [i \in DOMAIN th[t].rows |-> Entry(th[t].rows[i])]]]
          /\ Become(t, Reading(k, "idle"))
    /\ Observe
    /\ UNCHANGED <<run, report, restarts, requests, stopped>>

-------------------------------------------------------------------------------
(* _sync_task: the records of the runs are read one after the other, then  *)
(* the status and the summary are computed from what was read.  Their copy *)
(* in the task file is left out: whoever reads the file brings it up to    *)
(* date first.                                                             *)

ReadRun(t) ==
    /\ th[t].pc = "sync"
    /\ LET runs == task[th[t].task].runs
           i == Len(th[t].seen) + 1
       IN  /\ i \in DOMAIN runs
           /\ th' = [th EXCEPT ![t].seen = Append(@, run[runs[i]].status)]
    /\ Observe
    /\ UNCHANGED <<run, task, report, restarts, requests, stopped>>

ReadAll(t) == th[t].pc = "sync" /\ Len(th[t].seen) = Len(task[th[t].task].runs)
Answer(t) == Derive(ToSet(th[t].seen))

FinishSync(t) ==
    /\ ReadAll(t)
    /\ \/ th[t].then = "idle" /\ Become(t, Idle)
       \/ th[t].then = "report" /\ th' = [th EXCEPT ![t].pc = "report"]
    /\ Observe
    /\ UNCHANGED <<run, task, report, restarts, requests, stopped>>

(* The report is written from what was read, whatever happened since.      *)
ExportReport(t) ==
    /\ th[t].pc = "report"
    /\ report' = [report EXCEPT ![th[t].task] = IF Answer(t) \in Verdicts THEN Answer(t) ELSE None]
    /\ Become(t, Idle)
    /\ Observe
    /\ UNCHANGED <<run, task, restarts, requests, stopped>>

-------------------------------------------------------------------------------
(* stop_benchmark_task: each run is looked at and, unless it has ended,    *)
(* canceled; cancel_run reads it again and refuses a run that has ended in *)
(* between, which ends the request.                                        *)

Looking(t) == th[t].index <= Len(task[th[t].task].runs)
This(t) == task[th[t].task].runs[th[t].index]

WorkingOnly(status) == status = "WORKING"           \* mutant: runs not begun are passed over
ToBeCanceled(status) == status \notin Terminal

LookAtRun(t) ==
    /\ th[t].pc = "look" /\ Looking(t)
    /\ IF ToBeCanceled(run[This(t)].status) THEN th' = [th EXCEPT ![t].pc = "cancel"]
       ELSE th' = [th EXCEPT ![t].index = @ + 1]
    /\ Observe
    /\ UNCHANGED <<run, task, report, restarts, requests, stopped>>

(* cancel_run                                                              *)
Canceled(record) ==
    IF record.status = "WORKING" THEN [record EXCEPT !.cancel = TRUE]
    ELSE [record EXCEPT !.status = "CANCELED"]

CancelRun(t) ==
    /\ th[t].pc = "cancel"
    /\ \/ /\ run[This(t)].status \notin Terminal
          /\ run' = [run EXCEPT ![This(t)] = Canceled(@)]
          /\ th' = [th EXCEPT ![t].pc = "look", ![t].index = @ + 1, ![t].handled = TRUE]
       \/ run[This(t)].status \in Terminal /\ Become(t, Idle) /\ UNCHANGED run
    /\ Observe
    /\ UNCHANGED <<task, report, restarts, requests, stopped>>

(* A stop that canceled nothing is refused.                                *)
FinishStop(t) ==
    /\ th[t].pc = "look" /\ ~ Looking(t)
    /\ \/ /\ th[t].handled
          /\ stopped' = stopped \union {th[t].task}
          /\ Become(t, Reading(th[t].task, "idle"))
       \/ ~ th[t].handled /\ Become(t, Idle) /\ UNCHANGED stopped
    /\ Observe
    /\ UNCHANGED <<run, task, report, restarts, requests>>

ThreadStep(t) ==
    \/ CreateRow(t) \/ AutoStart(t) \/ StoreTask(t)
    \/ ReadRun(t) \/ FinishSync(t) \/ ExportReport(t)
    \/ LookAtRun(t) \/ CancelRun(t) \/ FinishStop(t)

-------------------------------------------------------------------------------
(* Single runs, by their own requests and by the executor.                 *)

ClientStarts(r) ==
    /\ CanStart(r)
    /\ run' = [run EXCEPT ![r].status = "QUEUED"]
    /\ Observe
    /\ UNCHANGED <<task, th, report, restarts, requests, stopped>>

ClientCancels(r) ==
    /\ run[r].status \notin Terminal \union {"ABSENT"}
    /\ run' = [run EXCEPT ![r] = Canceled(@)]
    /\ Observe
    /\ UNCHANGED <<task, th, report, restarts, requests, stopped>>

RunBegins(r) ==
    /\ run[r].status = "QUEUED"
    /\ run' = [run EXCEPT ![r].status = "WORKING"]
    /\ Observe
    /\ UNCHANGED <<task, th, report, restarts, requests, stopped>>

(* A queued run may fail as well, when the executor recovers or refuses    *)
(* its backend.                                                            *)
RunEnds(r) ==
    /\ \E s \in Terminal :
          /\ \/ run[r].status = "WORKING" /\ (s = "CANCELED" => run[r].cancel)
             \/ run[r].status = "QUEUED" /\ s = "FAILED"
          /\ run' = [run EXCEPT ![r].status = s]
    /\ Observe
    /\ UNCHANGED <<task, th, report, restarts, requests, stopped>>

ApiRestart ==
    /\ restarts < MaxRestarts
    /\ \E t \in Threads : th[t].pc # "idle"
    /\ th' = [t \in Threads |-> Idle]
    /\ restarts' = restarts + 1
    /\ Observe
    /\ UNCHANGED <<run, task, report, requests, stopped>>

Next ==
    \/ \E t \in Threads : GetTask(t) \/ StopTask(t) \/ Rerun(t) \/ CreateTask(t) \/ ThreadStep(t)
    \/ \E r \in Runs : ClientStarts(r) \/ ClientCancels(r) \/ RunBegins(r) \/ RunEnds(r)
    \/ ApiRestart

Spec == Init /\ [][Next]_vars

-------------------------------------------------------------------------------
(* Properties.                                                             *)

Pc == {"idle", "rows", "sync", "report", "look", "cancel"}

(* Every variable has its type: the runs of a task, of a request and of a  *)
(* report exist, and what was counted are statuses of runs that exist.     *)
TypeOK ==
    /\ run \in [Runs -> [status: RunStatus, cancel: BOOLEAN]]
    /\ \A k \in Tasks :
          /\ ToSet(task[k].runs) \subseteq Used
          /\ Len(task[k].matrix) = Len(task[k].runs)
    /\ \A t \in Threads :
          /\ th[t].pc \in Pc
          /\ th[t].pc \in {"sync", "report", "look", "cancel"} => th[t].task \in Stored
          /\ ToSet(th[t].runs) \subseteq Used
          /\ th[t].index \in 1 .. MaxRuns + 1
    /\ report \in [Tasks -> Verdicts \union {None}]
    /\ restarts \in 0 .. MaxRestarts /\ requests \in 0 .. MaxRequests
    /\ stopped \subseteq Stored

(* The status that a request answers was the status of the task at some    *)
(* moment while the request read the runs one by one (_sync_task), however *)
(* many of them moved on meanwhile and whatever other requests saved.  And *)
(* a report that gives a verdict (export_report) stays right: the runs are *)
(* still what it says.                                                     *)
AnswerWasTrue ==
    /\ \A t \in Threads : ReadAll(t) =>
            Answer(t) \in held[t] \union {TrueStatus(th[t].task)}
    /\ \A k \in Tasks : report[k] # None => report[k] = TrueStatus(k)

(* A stop that is acknowledged has reached every run of the task: none is  *)
(* left that could still be started, or works on without having been told  *)
(* (stop_benchmark_task).                                                  *)
StopReachesAllRuns ==
    \A k \in stopped : \A r \in ToSet(task[k].runs) :
        \/ run[r].status \in Terminal
        \/ run[r].status = "WORKING" /\ run[r].cancel

(* A rerun is never refused for its matrix and resolves to the maps,       *)
(* environments, sensors and time limits of the task it repeats.           *)
Configuration(entry) == [entry EXCEPT !.requested = None]

RerunRepeats ==
    \A t \in Threads : th[t].pc = "rows" /\ th[t].source # None =>
        LET matrix == task[th[t].source].matrix
        IN  /\ Len(th[t].rows) = Len(matrix)
            /\ \A i \in DOMAIN matrix :
                  /\ Accepted(th[t].rows[i])
                  /\ Configuration(Entry(th[t].rows[i])) = Configuration(matrix[i])


(* What _sync_task derives for each task from the records as they are.     *)
Derived ==
    [k \in Tasks |->
        IF k \in Stored THEN Derive({run[task[k].runs[i]].status : i \in DOMAIN task[k].runs})
        ELSE "ABSENT"]

(* Whoever moves the runs, creates, stops or reports: the derived status   *)
(* of a task only moves forward and a verdict stands, no step moves two    *)
(* tasks, reports agree with it, and what a stop has acknowledged has      *)
(* begun or ended.                                                         *)
TaskLifecycle == INSTANCE TaskLifecycle WITH status <- Derived
FollowsTaskLifecycle == TaskLifecycle!Spec
===============================================================================
