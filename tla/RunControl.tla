------------------------------ MODULE RunControl ------------------------------
(***************************************************************************)
(* The control of runs: API threads (RunManager and the /runs routes), the *)
(* executor process (ExecutorService) and the worker processes it launches *)
(* (run_worker, NativeRuntimeController), which share one JSON record per  *)
(* run (RunStore) and a directory of start commands (FileCommandQueue).    *)
(* Nothing in the code locks a record: RunStore.update reads it, changes   *)
(* the copy and writes the whole copy back.  MaxOverlaps bounds how many   *)
(* updates are split in that window by steps of other actors; with         *)
(* MaxOverlaps = 0 the calls of RunStore do not overlap, which is the      *)
(* granularity of everything else: one step per store call.                *)
(***************************************************************************)
EXTENDS Naturals, Sequences, FiniteSets, RunStatus

CONSTANTS
    Runs,               \* run ids
    LegacyRuns,         \* runs recorded with a retired execution backend
    Threads,            \* threads of the API server
    Workers,            \* worker process slots
    None,
    MaxOverlaps,        \* bound: how many record updates are split by other steps
    MaxKills,           \* bound: how often the executor process is killed
    MaxApiRestarts      \* bound: how often the API server is restarted

Executor == "executor"
Actors == Threads \union Workers \union {Executor}

ASSUME ConstantsAssumption ==
    /\ LegacyRuns \subseteq Runs /\ IsFiniteSet(Threads)
    /\ MaxOverlaps \in Nat /\ MaxKills \in Nat /\ MaxApiRestarts \in Nat
    /\ None \notin Runs \union Workers \union Terminal
    /\ Threads \intersect Workers = {} /\ Executor \notin Threads \union Workers

VARIABLES
    rec,        \* the record file of each run
    queue,      \* runs with a pending start command, oldest first
    metrics,    \* final_status in the metrics file of each run
    api,        \* program counter and locals of each API thread
    wk,         \* program counter and locals of each worker process
    exec,       \* program counter and locals of the executor process
    seen,       \* the copy of a record that an actor's update has read
    overlaps, kills, apiRestarts,   \* how much of each bound is used
    executed,   \* history: how many workers took each run for execution
    faulted,    \* history: runs whose execution really went wrong
    asked       \* history: runs for which a stop or cancel was acknowledged

bounds == <<overlaps, kills, apiRestarts>>
aux == <<bounds, executed, faulted, asked>>
vars == <<rec, queue, metrics, api, wk, exec, seen, aux>>

Record == [status: Status \union {Absent}, stop: BOOLEAN, cancel: BOOLEAN]

ApiPc == {"idle", "scan", "toQueued", "enqueue", "toCanceled", "toFlag", "toRewrite"}
ApiUpdate == {"toQueued", "toCanceled", "toFlag", "toRewrite"}

WorkerPc == {"gone", "boot", "cancelEarly", "starting", "setup", "running", "loop",
             "tick", "stopping", "ended", "cleanup", "finish", "final"}
WorkerUpdate == {"cancelEarly", "starting", "running", "stopping", "final"}
Driving == {"setup", "running", "loop", "tick", "stopping"}
UsingCarla == Driving \union {"ended", "cleanup"}

ExecPc == {"down", "recover", "recoverSave", "recoverMetrics", "idle", "launch",
           "legacy", "legacyMetrics", "wait", "markGet", "markSave", "markMetrics"}
ExecUpdate == {"recoverSave", "legacy", "markSave"}
ExecMetrics == {"recoverMetrics", "legacyMetrics", "markMetrics"}

Init ==
    /\ rec = [r \in Runs |-> [status |-> Absent, stop |-> FALSE, cancel |-> FALSE]]
    /\ queue = <<>>
    /\ metrics = [r \in Runs |-> None]
    /\ api = [t \in Threads |-> [pc |-> "idle", run |-> None, cancel |-> FALSE]]
    /\ wk = [w \in Workers |->
                [pc |-> "gone", run |-> None, final |-> "COMPLETED", ok |-> TRUE]]
    /\ exec = [pc |-> "down", run |-> None, worker |-> None, todo |-> {}]
    /\ seen = [a \in Actors |-> None]
    /\ overlaps = 0 /\ kills = 0 /\ apiRestarts = 0
    /\ executed = [r \in Runs |-> 0]
    /\ faulted = {} /\ asked = {}

-------------------------------------------------------------------------------
(* RunStore.  Fetch is the get of an update that another actor's steps     *)
(* follow; an update that was not split reads the record as it saves it.   *)

Fetch(a, r) ==
    /\ overlaps < MaxOverlaps
    /\ overlaps' = overlaps + 1
    /\ seen[a] = None
    /\ seen' = [seen EXCEPT ![a] = rec[r]]
    /\ UNCHANGED <<rec, queue, metrics, api, wk, exec, kills, apiRestarts, executed,
                   faulted, asked>>

Read(a, r) == IF seen[a] = None THEN rec[r] ELSE seen[a]

Save(a, r, new) ==
    /\ rec' = [rec EXCEPT ![r] = new]
    /\ seen' = [seen EXCEPT ![a] = None]

AcceptsAnything(a, r, target) == TRUE        \* mutant: no validation
Accepts(a, r, target) == ValidTransition(Read(a, r).status, target)

Transition(a, r, target) ==
    /\ Accepts(a, r, target)
    /\ Save(a, r, [Read(a, r) EXCEPT !.status = target])

(* InvalidTransitionError: nothing is written.                             *)
Refused(a, r, target) ==
    /\ ~Accepts(a, r, target)
    /\ seen' = [seen EXCEPT ![a] = None]
    /\ UNCHANGED rec

-------------------------------------------------------------------------------
(* API threads.                                                            *)

ApiGoto(t, p) == api' = [api EXCEPT ![t].pc = p]
ApiCall(t, p, r, c) == api' = [api EXCEPT ![t] = [pc |-> p, run |-> r, cancel |-> c]]
ApiReturns(t) == ApiCall(t, "idle", None, FALSE)
ApiIdle(t, r) == api[t].pc = "idle" /\ rec[r].status # Absent

CreateRun(t, r) ==
    /\ api[t].pc = "idle"
    /\ rec[r].status = Absent
    /\ rec' = [rec EXCEPT ![r].status = "CREATED"]
    /\ UNCHANGED <<queue, metrics, api, wk, exec, seen, aux>>

StartRun(t, r) ==
    /\ ApiIdle(t, r)
    /\ rec[r].status = "CREATED"
    /\ ApiCall(t, "scan", r, FALSE)
    /\ UNCHANGED <<rec, queue, metrics, wk, exec, seen, aux>>

NeverConflict(r) == FALSE                    \* mutant: no conflict scan
Conflict(r) == \E other \in Runs \ {r} : rec[other].status \in Active

StartScan(t) ==
    /\ api[t].pc = "scan"
    /\ IF Conflict(api[t].run) THEN ApiReturns(t) ELSE ApiGoto(t, "toQueued")
    /\ UNCHANGED <<rec, queue, metrics, wk, exec, seen, aux>>

StartTransition(t) ==
    /\ api[t].pc = "toQueued"
    /\ \/ Transition(t, api[t].run, "QUEUED") /\ ApiGoto(t, "enqueue")
       \/ Refused(t, api[t].run, "QUEUED") /\ ApiReturns(t)
    /\ UNCHANGED <<queue, metrics, wk, exec, aux>>

EnqueueNothing(r) == UNCHANGED queue         \* mutant: the command is lost
Enqueue(r) == queue' = Append(queue, r)

StartEnqueue(t) ==
    /\ api[t].pc = "enqueue"
    /\ Enqueue(api[t].run)
    /\ ApiReturns(t)
    /\ UNCHANGED <<rec, metrics, wk, exec, seen, aux>>

(* stop_run (cancel = FALSE) and cancel_run (cancel = TRUE).               *)
StopRun(t, r, cancel) ==
    /\ ApiIdle(t, r)
    /\ \/ rec[r].status \in {"CREATED", "QUEUED"} /\ ApiCall(t, "toCanceled", r, cancel)
       \/ /\ rec[r].status \in {"STARTING", "RUNNING", "PAUSED", "STOPPING"}
          /\ ApiCall(t, "toFlag", r, cancel)
    /\ UNCHANGED <<rec, queue, metrics, wk, exec, seen, aux>>

StopBeforeStart(t) ==
    /\ api[t].pc = "toCanceled"
    /\ \/ /\ Transition(t, api[t].run, "CANCELED")
          /\ asked' = asked \union {api[t].run}
       \/ Refused(t, api[t].run, "CANCELED") /\ UNCHANGED asked
    /\ ApiReturns(t)
    /\ UNCHANGED <<queue, metrics, wk, exec, bounds, executed, faulted>>

StopFlag(t) ==
    LET r == api[t].run IN
    /\ api[t].pc = "toFlag"
    /\ Save(t, r, [Read(t, r) EXCEPT !.stop = TRUE, !.cancel = @ \/ api[t].cancel])
    /\ asked' = asked \union {r}
    /\ ApiReturns(t)
    /\ UNCHANGED <<queue, metrics, wk, exec, bounds, executed, faulted>>

(* POST /runs/{id}/environment rewrites the whole record, in any status.   *)
UpdateEnvironment(t, r) ==
    /\ ApiIdle(t, r)
    /\ r \notin LegacyRuns
    /\ ApiCall(t, "toRewrite", r, FALSE)
    /\ UNCHANGED <<rec, queue, metrics, wk, exec, seen, aux>>

RewriteDescriptor(t) ==
    /\ api[t].pc = "toRewrite"
    /\ Save(t, api[t].run, Read(t, api[t].run))
    /\ ApiReturns(t)
    /\ UNCHANGED <<queue, metrics, wk, exec, aux>>

ApiFetch(t) == api[t].pc \in ApiUpdate /\ Fetch(t, api[t].run)

(* start_platform.sh kills the server; requests in flight just stop.       *)
ApiRestart ==
    /\ apiRestarts < MaxApiRestarts
    /\ apiRestarts' = apiRestarts + 1
    /\ api' = [t \in Threads |-> [pc |-> "idle", run |-> None, cancel |-> FALSE]]
    /\ seen' = [a \in Actors |-> IF a \in Threads THEN None ELSE seen[a]]
    /\ UNCHANGED <<rec, queue, metrics, wk, exec, overlaps, kills, executed, faulted,
                   asked>>

ApiStep(t) ==
    \/ StartScan(t) \/ StartTransition(t) \/ StartEnqueue(t)
    \/ StopBeforeStart(t) \/ StopFlag(t) \/ RewriteDescriptor(t)

ApiRequest(t) ==
    \E r \in Runs :
        \/ CreateRun(t, r) \/ StartRun(t, r) \/ UpdateEnvironment(t, r)
        \/ \E cancel \in BOOLEAN : StopRun(t, r, cancel)

-------------------------------------------------------------------------------
(* Worker processes: run_worker.main around execute_run.                   *)

WorkerGoto(w, p) == wk' = [wk EXCEPT ![w].pc = p]
WorkerEnds(w, final) == wk' = [wk EXCEPT ![w].pc = "cleanup", ![w].final = final]
WorkerExits(w, ok) ==
    wk' = [wk EXCEPT ![w] = [pc |-> "gone", run |-> None, final |-> "COMPLETED",
                             ok |-> ok]]

RunnableAlways(r) == TRUE                    \* mutant: status not checked
Runnable(r) == rec[r].status = "QUEUED"

WorkerBoot(w) ==
    LET r == wk[w].run IN
    /\ wk[w].pc = "boot"
    /\ \/ ~Runnable(r) /\ WorkerExits(w, TRUE) /\ UNCHANGED executed
       \/ /\ Runnable(r) /\ rec[r].cancel
          /\ WorkerGoto(w, "cancelEarly") /\ UNCHANGED executed
       \/ /\ Runnable(r) /\ ~rec[r].cancel
          /\ WorkerGoto(w, "starting")
          /\ executed' = [executed EXCEPT ![r] = @ + 1]
    /\ UNCHANGED <<rec, queue, metrics, api, exec, seen, bounds, faulted, asked>>

WorkerCancelEarly(w) ==
    /\ wk[w].pc = "cancelEarly"
    /\ \/ Transition(w, wk[w].run, "CANCELED") /\ WorkerExits(w, TRUE)
       \/ Refused(w, wk[w].run, "CANCELED") /\ WorkerExits(w, FALSE)
    /\ UNCHANGED <<queue, metrics, api, exec, aux>>

(* mutant: a refused transition does not end the execution.                *)
WorkerMovesRegardless(w, from, target, next) ==
    /\ wk[w].pc = from
    /\ Transition(w, wk[w].run, target) \/ Refused(w, wk[w].run, target)
    /\ WorkerGoto(w, next)
    /\ UNCHANGED <<queue, metrics, api, exec, aux>>

(* A transition inside the try block: a refusal is caught and ends in the  *)
(* clean-up with final status FAILED.                                      *)
WorkerMoves(w, from, target, next) ==
    /\ wk[w].pc = from
    /\ \/ Transition(w, wk[w].run, target) /\ WorkerGoto(w, next)
       \/ Refused(w, wk[w].run, target) /\ WorkerEnds(w, "FAILED")
    /\ UNCHANGED <<queue, metrics, api, exec, aux>>

(* A replay run checks its recording before STARTING; every run can fail   *)
(* while it is set up (HIL, CARLA, map, actors) and while it ticks.        *)
WorkerRaises(w) ==
    /\ wk[w].pc \in {"starting", "setup", "tick"}
    /\ seen[w] = None
    /\ WorkerEnds(w, "FAILED")
    /\ faulted' = faulted \union {wk[w].run}
    /\ UNCHANGED <<rec, queue, metrics, api, exec, seen, bounds, executed, asked>>

WorkerSetUp(w) ==
    /\ wk[w].pc = "setup"
    /\ WorkerGoto(w, "running")
    /\ UNCHANGED <<rec, queue, metrics, api, exec, seen, aux>>

OnlyCancelSeen(latest) == latest.cancel      \* mutant: stop flag not read
StopSeen(latest) == latest.stop \/ latest.cancel

WorkerLoop(w) ==
    LET latest == rec[wk[w].run] IN
    /\ wk[w].pc = "loop"
    /\ WorkerGoto(w, IF StopSeen(latest) THEN "stopping" ELSE "tick")
    /\ UNCHANGED <<rec, queue, metrics, api, exec, seen, aux>>

(* One tick; the scenario may satisfy its stop trigger.                    *)
WorkerTick(w) ==
    /\ wk[w].pc = "tick"
    /\ \E p \in {"loop", "ended"} : WorkerGoto(w, p)
    /\ UNCHANGED <<rec, queue, metrics, api, exec, seen, aux>>

WorkerDecides(w) ==
    /\ wk[w].pc = "ended"
    /\ WorkerEnds(w, IF rec[wk[w].run].cancel THEN "CANCELED" ELSE "COMPLETED")
    /\ UNCHANGED <<rec, queue, metrics, api, exec, seen, aux>>

WorkerCleanup(w) ==
    /\ wk[w].pc = "cleanup"
    /\ metrics' = [metrics EXCEPT ![wk[w].run] = wk[w].final]
    /\ WorkerGoto(w, "finish")
    /\ UNCHANGED <<rec, queue, api, exec, seen, aux>>

WorkerFinish(w) ==
    /\ wk[w].pc = "finish"
    /\ \/ rec[wk[w].run].status \in Terminal /\ WorkerExits(w, TRUE)
       \/ rec[wk[w].run].status \notin Terminal /\ WorkerGoto(w, "final")
    /\ UNCHANGED <<rec, queue, metrics, api, exec, seen, aux>>

(* Outside any try block: a refusal escapes and the process exits with 1.  *)
WorkerFinal(w) ==
    /\ wk[w].pc = "final"
    /\ \/ Transition(w, wk[w].run, wk[w].final) /\ WorkerExits(w, TRUE)
       \/ Refused(w, wk[w].run, wk[w].final) /\ WorkerExits(w, FALSE)
    /\ UNCHANGED <<queue, metrics, api, exec, aux>>

WorkerStep(w) ==
    \/ WorkerBoot(w) \/ WorkerCancelEarly(w)
    \/ WorkerMoves(w, "starting", "STARTING", "setup") \/ WorkerSetUp(w)
    \/ WorkerMoves(w, "running", "RUNNING", "loop")
    \/ WorkerLoop(w) \/ WorkerTick(w)
    \/ WorkerMoves(w, "stopping", "STOPPING", "ended") \/ WorkerDecides(w)
    \/ WorkerRaises(w) \/ WorkerCleanup(w) \/ WorkerFinish(w) \/ WorkerFinal(w)

(* The process dies (a crash of the CARLA client library, an exception     *)
(* before the try block): no clean-up runs.                                *)
WorkerDies(w) ==
    /\ wk[w].pc # "gone"
    /\ WorkerExits(w, FALSE)
    /\ seen' = [seen EXCEPT ![w] = None]
    /\ faulted' = faulted \union {wk[w].run}
    /\ UNCHANGED <<rec, queue, metrics, api, exec, bounds, executed, asked>>

WorkerFetch(w) == wk[w].pc \in WorkerUpdate /\ Fetch(w, wk[w].run)

-------------------------------------------------------------------------------
(* The executor process: ExecutorService.run_forever.                      *)

ExecGoto(p) == exec' = [exec EXCEPT !.pc = p]
ExecReady == exec' = [exec EXCEPT !.pc = "idle", !.run = None, !.worker = None]
ExecExits == exec' = [pc |-> "down", run |-> None, worker |-> None, todo |-> {}]

InterruptedIfBegun(r) == rec[r].status \in Active \ {"QUEUED"}     \* mutant
Interrupted(r) == rec[r].status \in Active

ExecStart ==
    /\ exec.pc = "down"
    /\ exec' = [exec EXCEPT !.pc = "recover",
                            !.todo = {r \in Runs : Interrupted(r)}]
    /\ UNCHANGED <<rec, queue, metrics, api, wk, seen, aux>>

RecoverNext ==
    /\ exec.pc = "recover"
    /\ \/ exec.todo = {} /\ ExecReady
       \/ \E r \in exec.todo : exec' = [exec EXCEPT !.pc = "recoverSave", !.run = r,
                                                    !.todo = @ \ {r}]
    /\ UNCHANGED <<rec, queue, metrics, api, wk, seen, aux>>

(* transition(run, FAILED), before the metrics file is written; an         *)
(* InvalidTransitionError escapes run_forever and ends the process.        *)
ExecFails(from, next) ==
    /\ exec.pc = from
    /\ \/ Transition(Executor, exec.run, "FAILED") /\ ExecGoto(next)
       \/ Refused(Executor, exec.run, "FAILED") /\ ExecExits
    /\ UNCHANGED <<queue, metrics, api, wk, aux>>

RecoverSave == ExecFails("recoverSave", "recoverMetrics")

PopNext ==
    /\ exec.pc = "idle"
    /\ queue # <<>>
    /\ exec' = [exec EXCEPT !.pc = "launch", !.run = Head(queue)]
    /\ queue' = Tail(queue)
    /\ UNCHANGED <<rec, metrics, api, wk, seen, aux>>

WaitFor(w) == exec' = [exec EXCEPT !.pc = "wait", !.worker = w]

Launch(w) ==
    /\ exec.pc = "launch"
    /\ exec.run \notin LegacyRuns
    /\ wk[w].pc = "gone"
    /\ wk' = [wk EXCEPT ![w] = [pc |-> "boot", run |-> exec.run,
                                final |-> "COMPLETED", ok |-> TRUE]]
    /\ WaitFor(w)
    /\ UNCHANGED <<rec, queue, metrics, api, seen, aux>>

LaunchLegacy ==
    /\ exec.pc = "launch"
    /\ exec.run \in LegacyRuns
    /\ ExecGoto("legacy")
    /\ UNCHANGED <<rec, queue, metrics, api, wk, seen, aux>>

FailLegacy == ExecFails("legacy", "legacyMetrics")

(* process.poll() returned: a failed exit, or a clean exit that left the   *)
(* run unfinished, is marked FAILED.                                       *)
Exited(w) == wk[w].pc = "gone"

LeftUnfinished(w) == ~wk[w].ok \/ rec[exec.run].status \in Active

Reap ==
    /\ exec.pc = "wait"
    /\ Exited(exec.worker)
    /\ IF LeftUnfinished(exec.worker)
       THEN ExecGoto("markGet")
       ELSE ExecReady
    /\ UNCHANGED <<rec, queue, metrics, api, wk, seen, aux>>

MarkGet ==
    /\ exec.pc = "markGet"
    /\ IF rec[exec.run].status \in Terminal THEN ExecReady ELSE ExecGoto("markSave")
    /\ UNCHANGED <<rec, queue, metrics, api, wk, seen, aux>>

MarkSave == ExecFails("markSave", "markMetrics")

(* Metrics that a worker has written before it exited are kept.            *)
MetricsKept(written) == written              \* mutant: no metrics for a dead worker
MetricsAfterExit(written) == IF written = None THEN "FAILED" ELSE written

WriteMetrics ==
    /\ \/ /\ exec.pc = "recoverMetrics"
          /\ metrics' = [metrics EXCEPT ![exec.run] = "FAILED"]
          /\ exec' = [exec EXCEPT !.pc = "recover", !.run = None]
       \/ /\ exec.pc = "legacyMetrics"
          /\ metrics' = [metrics EXCEPT ![exec.run] = "FAILED"]
          /\ ExecReady
       \/ /\ exec.pc = "markMetrics"
          /\ metrics' = [metrics EXCEPT ![exec.run] = MetricsAfterExit(@)]
          /\ ExecReady
    /\ UNCHANGED <<rec, queue, api, wk, seen, aux>>

ExecFetch == exec.pc \in ExecUpdate /\ Fetch(Executor, exec.run)

(* Killed by start_platform.sh or a crash.  Its worker is another process  *)
(* and goes on.                                                            *)
ExecKilled ==
    /\ kills < MaxKills
    /\ exec.pc # "down"
    /\ kills' = kills + 1
    /\ ExecExits
    /\ seen' = [seen EXCEPT ![Executor] = None]
    /\ UNCHANGED <<rec, queue, metrics, api, wk, overlaps, apiRestarts, executed, faulted,
                   asked>>

ExecStep ==
    \/ RecoverNext \/ RecoverSave \/ PopNext \/ (\E w \in Workers : Launch(w))
    \/ LaunchLegacy \/ FailLegacy \/ Reap \/ MarkGet \/ MarkSave \/ WriteMetrics

-------------------------------------------------------------------------------
Next ==
    \/ \E t \in Threads : ApiRequest(t) \/ ApiStep(t) \/ ApiFetch(t)
    \/ ApiRestart
    \/ \E w \in Workers : WorkerStep(w) \/ WorkerDies(w) \/ WorkerFetch(w)
    \/ ExecStep \/ ExecStart \/ ExecFetch \/ ExecKilled

Spec == Init /\ [][Next]_vars

Fairness ==
    /\ \A t \in Threads : WF_vars(ApiStep(t))
    /\ \A w \in Workers : WF_vars(WorkerStep(w))
    /\ WF_vars(ExecStep)

FairSpec == Spec /\ Fairness
-------------------------------------------------------------------------------
(* Properties.                                                             *)

StoreTypeOK ==
    /\ rec \in [Runs -> Record]
    /\ seen \in [Actors -> Record \union {None}]
    /\ queue \in Seq(Runs)
    /\ metrics \in [Runs -> Terminal \union {None}]

ApiTypeOK ==
    /\ api \in [Threads -> [pc: ApiPc, run: Runs \union {None}, cancel: BOOLEAN]]
    /\ \A t \in Threads : api[t].pc # "idle" => api[t].run \in Runs

WorkerTypeOK ==
    /\ wk \in [Workers -> [pc: WorkerPc, run: Runs \union {None},
                           final: Terminal, ok: BOOLEAN]]
    /\ \A w \in Workers : wk[w].pc # "gone" => wk[w].run \in Runs

ExecTypeOK ==
    /\ exec \in [pc: ExecPc, run: Runs \union {None},
                  worker: Workers \union {None}, todo: SUBSET Runs]
    /\ exec.pc \notin {"down", "recover", "idle"} => exec.run \in Runs
    /\ exec.pc = "wait" => exec.worker \in Workers

AuxTypeOK ==
    /\ overlaps \in Nat /\ kills \in Nat /\ apiRestarts \in Nat
    /\ executed \in [Runs -> Nat]
    /\ faulted \subseteq Runs /\ asked \subseteq Runs

(* Every variable has its type; a busy thread, worker or executor has a    *)
(* run, and an executor that waits has a worker.                           *)
TypeOK == StoreTypeOK /\ ApiTypeOK /\ WorkerTypeOK /\ ExecTypeOK /\ AuxTypeOK

(* As long as no update was split, a run is executed by at most one        *)
(* worker: duplicate start requests, a killed executor and its recovery    *)
(* never make a second worker take it.                                     *)
ExecutedAtMostOnce == overlaps = 0 => \A r \in Runs : executed[r] <= 1

(* Until a worker has left its loop, the record of the run it drives says  *)
(* so: starting, running or stopping, or FAILED by the recovery when the   *)
(* worker outlived the executor that launched it.  In particular no run    *)
(* that was canceled before its start is ever driven.                      *)
DrivenRunIsActive ==
    \A w \in Workers :
        wk[w].pc \in Driving =>
            \/ rec[wk[w].run].status \in {"STARTING", "RUNNING", "STOPPING"}
            \/ rec[wk[w].run].status = "FAILED" /\ exec.worker # w

Enqueuing(r) == \E t \in Threads : api[t].pc = "enqueue" /\ api[t].run = r
Commanded(r) == \E i \in 1 .. Len(queue) : queue[i] = r
Handled(r) == exec.run = r \/ r \in exec.todo

(* A run that holds CARLA (an active status blocks every start) is always  *)
(* somebody's work: a start command is pending or about to be written, or  *)
(* the executor is handling it, or the executor is down and its recovery   *)
(* will find it.                                                           *)
NoStrandedRun ==
    \A r \in Runs :
        rec[r].status \in Active =>
            exec.pc = "down" \/ Enqueuing(r) \/ Commanded(r) \/ Handled(r)

(* The scan of start_run and the transition that it admits are two steps,  *)
(* and every other thread may have had its scan in between.  So much and   *)
(* no more can be active at a time: as long as no update was split, the    *)
(* active runs and those that a scan has admitted are not more than the    *)
(* threads of the API, whatever the executor and the workers do meanwhile. *)
ActiveRuns == {r \in Runs : rec[r].status \in Active}
Admitted(t) == api[t].pc = "toQueued"
AdmittedRuns == {api[t].run : t \in {u \in Threads : Admitted(u)}}
StartsAreBounded ==
    overlaps = 0 => Cardinality(ActiveRuns \union AdmittedRuns) <= Cardinality(Threads)

(* What the refusal of start_run says: no run is started while another one *)
(* is active.                                                              *)
OneActiveRun ==
    \A r1, r2 \in Runs : rec[r1].status \in Active /\ rec[r2].status \in Active => r1 = r2

(* At most one worker process uses CARLA.                                  *)
OneDriver ==
    \A w1, w2 \in Workers :
        wk[w1].pc \in UsingCarla /\ wk[w2].pc \in UsingCarla => w1 = w2

(* A run that ended COMPLETED or FAILED and on which the executor does not *)
(* work any more has a metrics file, which the benchmark report reads; a   *)
(* kill of the executor between record and metrics costs one run its file, *)
(* and nothing else does.                                                  *)
WithoutMetrics ==
    {r \in Runs : /\ rec[r].status \in {"COMPLETED", "FAILED"}
                  /\ exec.run # r
                  /\ metrics[r] = None}
FinishedRunHasMetrics == Cardinality(WithoutMetrics) <= kills

(* A cancel request does not turn a run that works into a failed one.      *)
CancelIsNoFailure ==
    \A r \in Runs :
        rec[r].status = "FAILED" /\ rec[r].cancel /\ kills = 0 => r \in faulted

(* The statuses of the records follow the life cycle of state_machine.py.  *)
Statuses == [r \in Runs |-> rec[r].status]
Lifecycle == INSTANCE RunLifecycle WITH status <- Statuses
FollowsLifecycle == Lifecycle!Spec

(* An acknowledged stop or cancel ends the run, unless the executor is     *)
(* down: the worker polls the flags at every tick.                         *)
StopIsHonoured ==
    \A r \in Runs : r \in asked ~> rec[r].status \in Terminal \/ exec.pc = "down"

(* A queued run does not wait for ever, unless the executor is down.       *)
QueuedRunLeavesQueue ==
    \A r \in Runs : rec[r].status = "QUEUED" ~> rec[r].status # "QUEUED" \/ exec.pc = "down"
===============================================================================
