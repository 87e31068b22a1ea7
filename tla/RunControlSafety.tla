--------------------------- MODULE RunControlSafety ---------------------------
(***************************************************************************)
(* Safety of RunControl for every set of runs, threads and workers.        *)
(*   - OneDriver as long as the executor was not killed;                   *)
(*   - as long as no calls of RunStore overlapped: no run is stranded,     *)
(*     no more runs are active than the API has threads, and no run is     *)
(*     executed twice;                                                     *)
(*   - a finished run keeps its metrics, but for one run per kill.         *)
(***************************************************************************)
EXTENDS RunControlRefinement, FiniteSetTheorems

(* CREATED is not reached by a move, QUEUED from CREATED only, and nothing *)
(* leads out of a terminal status.                                         *)
LEMMA TableFacts ==
    \A s \in Status :
        /\ "CREATED" \notin AllowedTransitions[s]
        /\ "QUEUED" \in AllowedTransitions[s] => s = "CREATED"
        /\ s \in Terminal => AllowedTransitions[s] = {}
BY DEF AllowedTransitions, Status, Terminal

(* A run that has ended keeps its status.                                  *)
LEMMA EndedRunsKept ==
    ASSUME RefinementInv, overlaps' = 0, [Next]_vars, NEW r \in Runs,
           rec[r].status \in Terminal
    PROVE  rec'[r].status = rec[r].status
<1>1. Statuses[r] = rec[r].status /\ Statuses'[r] = rec'[r].status /\ DOMAIN Statuses = Runs
  BY DEF Statuses
<1>2. [Lifecycle!Next]_Statuses
  BY NextMoves
<1>3. CASE \E q \in Runs : Lifecycle!Create(q)
  <2>1. PICK q \in Runs :
          Statuses[q] = Absent /\ Statuses' = [Statuses EXCEPT ![q] = "CREATED"]
    BY <1>3, SameTable DEF Lifecycle!Create
  <2>2. q # r
    BY <1>1, <2>1 DEF Terminal, Absent
  <2>. QED
    BY <1>1, <2>1, <2>2
<1>4. CASE \E q \in Runs : Lifecycle!Move(q)
  <2>1. PICK q \in Runs :
          /\ Statuses[q] \in Status
          /\ \E s \in AllowedTransitions[Statuses[q]] :
                Statuses' = [Statuses EXCEPT ![q] = s]
    BY <1>4, SameTable DEF Lifecycle!Move
  <2>2. q # r
    BY <1>1, <2>1, TableFacts
  <2>. QED
    BY <1>1, <2>1, <2>2
<1>. QED
  BY <1>1, <1>2, <1>3, <1>4 DEF Lifecycle!Next

(* The executor's locals between two commands, and outside recovery; a run *)
(* is FAILED before its metrics are written.                               *)
ExecLocals ==
    /\ exec.pc \in {"idle", "recover", "down"} => exec.run = None
    /\ exec.pc \notin {"recover", "recoverSave", "recoverMetrics"} => exec.todo = {}
    /\ exec.pc \notin {"wait", "markGet", "markSave", "markMetrics"} => exec.worker = None
    /\ exec.pc \in ExecMetrics => rec[exec.run].status = "FAILED"

LEMMA ExecLocalsKept ==
    ASSUME RefinementInv, overlaps' = 0, ExecLocals, [Next]_vars
    PROVE  ExecLocals'
<1>1. /\ exec \in [pc: ExecPc, run: Runs \union {None},
                   worker: Workers \union {None}, todo: SUBSET Runs]
      /\ exec.pc \notin {"down", "recover", "idle"} => exec.run \in Runs
      /\ Executor \in Actors
  BY DEF RefinementInv, TypeOK, ExecTypeOK, Actors
<1>2. CASE UNCHANGED exec
  <2>1. exec.pc \in ExecMetrics => rec'[exec.run].status = "FAILED"
    BY <1>1, EndedRunsKept DEF ExecLocals, ExecMetrics, Terminal
  <2>. QED
    BY <1>2, <2>1 DEF ExecLocals
<1>3. CASE ExecExits
  BY <1>3 DEF ExecExits, ExecLocals, ExecMetrics
<1>4. CASE ExecReady /\ exec.todo = {}
  BY <1>1, <1>4 DEF ExecReady, ExecLocals, ExecMetrics
<1>5. CASE RecoverSave \/ FailLegacy \/ MarkSave
  <2>1. PICK next \in ExecMetrics :
          \/ Transition(Executor, exec.run, "FAILED") /\ ExecGoto(next)
          \/ ExecExits
    BY <1>5 DEF RecoverSave, FailLegacy, MarkSave, ExecFails, ExecMetrics
  <2>2. ASSUME Transition(Executor, exec.run, "FAILED")
        PROVE  rec'[exec.run].status = "FAILED"
    <3>1. exec.run \in Runs
      BY <1>1, <1>5 DEF RecoverSave, FailLegacy, MarkSave, ExecFails
    <3>2. Statuses' = [Statuses EXCEPT ![exec.run] = "FAILED"]
      BY <1>1, <2>2, <3>1, TransitionEffect DEF Status
    <3>. QED
      BY <3>1, <3>2 DEF Statuses
  <2>. QED
    BY <1>1, <1>3, <1>5, <2>1, <2>2
       DEF RecoverSave, FailLegacy, MarkSave, ExecFails, ExecGoto, ExecLocals, ExecMetrics
<1>6. CASE ExecStart \/ RecoverNext
  BY <1>1, <1>4, <1>6 DEF ExecStart, RecoverNext, ExecLocals, ExecMetrics
<1>7. CASE PopNext \/ \E w \in Workers : Launch(w)
  BY <1>1, <1>7 DEF PopNext, Launch, WaitFor, ExecLocals, ExecMetrics
<1>8. CASE LaunchLegacy \/ Reap \/ MarkGet
  BY <1>1, <1>4, <1>8 DEF LaunchLegacy, Reap, MarkGet, ExecGoto, ExecLocals, ExecMetrics
<1>9. CASE WriteMetrics
  BY <1>1, <1>4, <1>9 DEF WriteMetrics, ExecLocals, ExecMetrics
<1>. QED
  BY <1>2, <1>3, <1>5, <1>6, <1>7, <1>8, <1>9, ExecutorAlone DEF ExecStep, ExecKilled

(* A worker's locals are changed by its own steps and by its launch.       *)
LEMMA WorkerAlone ==
    ASSUME TypeOK, [Next]_vars, NEW w \in Workers
    PROVE  wk'[w] = wk[w] \/ WorkerStep(w) \/ WorkerDies(w) \/ Launch(w)
<1>1. wk \in [Workers -> [pc: WorkerPc, run: Runs \union {None},
                          final: Terminal, ok: BOOLEAN]]
  BY DEF TypeOK, WorkerTypeOK
<1>2. ASSUME NEW v \in Workers, WorkerStep(v) \/ WorkerDies(v), v # w
      PROVE  wk'[w] = wk[w]
  <2>1. \/ \E ok : WorkerExits(v, ok)
        \/ \E p : WorkerGoto(v, p)
        \/ \E f : WorkerEnds(v, f)
    BY <1>2
       DEF WorkerStep, WorkerBoot, WorkerCancelEarly, WorkerMoves, WorkerSetUp, WorkerLoop,
           WorkerTick, WorkerDecides, WorkerRaises, WorkerCleanup, WorkerFinish,
           WorkerFinal, WorkerDies
  <2>. QED
    BY <1>1, <1>2, <2>1 DEF WorkerExits, WorkerGoto, WorkerEnds
<1>3. ASSUME NEW v \in Workers, Launch(v), v # w
      PROVE  wk'[w] = wk[w]
  BY <1>1, <1>3 DEF Launch
<1>4. ASSUME NEW t \in Threads, ApiRequest(t) \/ ApiStep(t) \/ ApiFetch(t)
      PROVE  UNCHANGED wk
  BY <1>4
     DEF ApiRequest, ApiStep, ApiFetch, CreateRun, StartRun, UpdateEnvironment, StopRun,
         StartScan, StartTransition, StartEnqueue, StopBeforeStart, StopFlag,
         RewriteDescriptor, Fetch
<1>5. CASE \/ ApiRestart \/ ExecStart \/ ExecFetch \/ ExecKilled
           \/ \E v \in Workers : WorkerFetch(v)
  BY <1>5 DEF ApiRestart, ExecStart, ExecFetch, ExecKilled, WorkerFetch, Fetch
<1>6. CASE ExecStep /\ ~\E v \in Workers : Launch(v)
  BY <1>6
     DEF ExecStep, RecoverNext, RecoverSave, PopNext, LaunchLegacy, FailLegacy, Reap,
         MarkGet, MarkSave, WriteMetrics, ExecFails
<1>. QED
  BY <1>2, <1>3, <1>4, <1>5, <1>6 DEF Next, vars

-------------------------------------------------------------------------------
(* One driver.  While the executor is not killed, every worker process is  *)
(* the one it waits for.                                                   *)
WorkersAwaited ==
    \A w \in Workers : wk[w].pc # "gone" => exec.pc = "wait" /\ exec.worker = w

DriverInv == TypeOK /\ kills = 0 /\ WorkersAwaited

(* Workers start by Launch only.                                           *)
LEMMA WorkersStart ==
    ASSUME TypeOK, [Next]_vars, NEW w \in Workers, wk[w].pc = "gone", wk'[w].pc # "gone"
    PROVE  Launch(w)
BY WorkerAlone
   DEF WorkerStep, WorkerBoot, WorkerCancelEarly, WorkerMoves, WorkerSetUp, WorkerLoop,
       WorkerTick, WorkerDecides, WorkerRaises, WorkerCleanup, WorkerFinish, WorkerFinal,
       WorkerDies

LEMMA DriverInvKept ==
    ASSUME kills' = 0, DriverInv, [Next]_vars
    PROVE  DriverInv'
<1>1. TypeOK' /\ ~ExecKilled
  BY NextType, CountersGrow DEF DriverInv
<1>2. ASSUME NEW w \in Workers, wk'[w].pc # "gone"
      PROVE  exec'.pc = "wait" /\ exec'.worker = w
  <2>1. CASE wk[w].pc = "gone"
    <3>1. Launch(w)
      BY <1>2, <2>1, WorkersStart DEF DriverInv
    <3>. QED
      BY <3>1 DEF Launch, WaitFor, DriverInv, TypeOK, ExecTypeOK
  <2>2. CASE wk[w].pc # "gone"
    <3>1. exec.pc = "wait" /\ exec.worker = w
      BY <2>2 DEF DriverInv, WorkersAwaited
    <3>2. ~ExecStep /\ ~ExecStart
      BY <2>2, <3>1
         DEF ExecStep, ExecStart, RecoverNext, RecoverSave, PopNext, Launch, LaunchLegacy,
             FailLegacy, Reap, Exited, MarkGet, MarkSave, WriteMetrics, ExecFails
    <3>. QED
      BY <1>1, <3>1, <3>2, ExecutorAlone
  <2>. QED
    BY <2>1, <2>2
<1>. QED
  BY <1>1, <1>2 DEF DriverInv, WorkersAwaited

(* As long as the executor process is not killed, at most one worker uses  *)
(* CARLA at a time: overlapping record updates, duplicate commands, worker *)
(* crashes and API restarts included.  run_forever launches a worker only  *)
(* after the exit of the one before.                                       *)
THEOREM OneDriverWithoutKills == Spec => [](kills = 0 => OneDriver)
<1>1. Init => DriverInv
  BY InitType DEF Init, DriverInv, WorkersAwaited
<1>2. TypeOK /\ (kills = 0 => DriverInv) /\ [Next]_vars => (kills = 0 => DriverInv)'
  BY DriverInvKept, CountersGrow
<1>3. DriverInv => OneDriver
  BY DEF DriverInv, WorkersAwaited, OneDriver, UsingCarla, Driving
<1>. QED
  BY <1>1, <1>2, <1>3, TypeCorrect, PTL DEF Spec

-------------------------------------------------------------------------------
(* What a step does to the statuses, without overlapping calls of RunStore *)
(* and beyond following the table: which actor moves which run.            *)

(* Only start_run makes a run QUEUED, and it then has to enqueue it.       *)
Queues(t, r) ==
    /\ t \in Threads /\ api[t].pc = "toQueued" /\ api[t].run = r
    /\ rec[r].status = "CREATED"
    /\ Statuses' = [Statuses EXCEPT ![r] = "QUEUED"]
    /\ ApiGoto(t, "enqueue")
    /\ UNCHANGED <<queue, metrics, wk, exec, aux>>

LEMMA OnlyStartQueues ==
    ASSUME RefinementInv, overlaps' = 0, [Next]_vars, NEW r \in Runs,
           rec'[r].status = "QUEUED", rec[r].status # "QUEUED"
    PROVE  \E t \in Threads : Queues(t, r)
<1>1. Statuses[r] # "QUEUED" /\ Statuses'[r] = "QUEUED"
  BY DEF Statuses
<1>2. ASSUME NEW a \in Actors, NEW q \in Runs, NEW s \in Status \ {"QUEUED"},
             Transition(a, q, s) \/ Refused(a, q, s)
      PROVE  FALSE
  <2>1. Statuses' = Statuses \/ Statuses' = [Statuses EXCEPT ![q] = s]
    BY <1>2, TransitionEffect
  <2>2. DOMAIN Statuses = Runs
    BY DEF Statuses
  <2>3. Statuses' = [Statuses EXCEPT ![q] = s]
    BY <1>1, <2>1
  <2>. QED
    BY <1>1, <2>2, <2>3
<1>3. ~UNCHANGED rec
  BY DEF Statuses
<1>4. ASSUME NEW t \in Threads, ApiRequest(t) \/ ApiStep(t)
      PROVE  Queues(t, r)
  <2>1. t \in Actors /\ (api[t].pc # "idle" => api[t].run \in Runs)
    BY DEF Actors, RefinementInv, TypeOK, ApiTypeOK
  <2>2. CASE ApiRequest(t)
    <3>1. PICK q \in Runs : CreateRun(t, q)
      BY <1>3, <2>2 DEF ApiRequest, StartRun, UpdateEnvironment, StopRun
    <3>. QED
      BY <1>1, <3>1 DEF CreateRun, RefinementInv, TypeOK, StoreTypeOK, Record
  <2>3. CASE StopBeforeStart(t)
    BY <1>2, <2>1, <2>3 DEF StopBeforeStart, Status
  <2>4. CASE StopFlag(t)
    <3>1. Read(t, api[t].run) = rec[api[t].run]
      BY <2>1, <2>4 DEF RefinementInv, NoSplit, Read
    <3>2. PICK b : rec' = [rec EXCEPT ![api[t].run] =
                              [rec[api[t].run] EXCEPT !.stop = TRUE, !.cancel = b]]
      BY <2>4, <3>1 DEF StopFlag, Save
    <3>. QED
      BY <3>2 DEF RefinementInv, TypeOK, StoreTypeOK, Record
  <2>5. CASE RewriteDescriptor(t)
    <3>1. Read(t, api[t].run) = rec[api[t].run]
      BY <2>1, <2>5 DEF RefinementInv, NoSplit, Read
    <3>. QED
      BY <1>3, <2>5, <3>1 DEF RewriteDescriptor, Save, RefinementInv, TypeOK, StoreTypeOK
  <2>6. CASE StartTransition(t)
    <3>1. api[t].pc = "toQueued" /\ api[t].run \in Runs /\ "QUEUED" \in Status
      BY <2>1, <2>6 DEF StartTransition, Status
    <3>2. CASE Refused(t, api[t].run, "QUEUED")
      BY <1>1, <2>1, <3>1, <3>2, TransitionEffect
    <3>3. CASE Transition(t, api[t].run, "QUEUED") /\ ApiGoto(t, "enqueue")
      <4>1. /\ ValidTransition(rec[api[t].run].status, "QUEUED")
            /\ Statuses' = [Statuses EXCEPT ![api[t].run] = "QUEUED"]
        BY <2>1, <3>1, <3>3, TransitionEffect
      <4>2. api[t].run = r
        BY <1>1, <4>1 DEF Statuses
      <4>3. rec[r].status \in Status
        BY <3>1, <4>2 DEF RefinementInv, ApiRunsExist, Exists, TypeOK, StoreTypeOK, Record
      <4>4. rec[r].status = "CREATED"
        BY <4>1, <4>2, <4>3, TableFacts DEF ValidTransition
      <4>. QED
        BY <2>6, <3>1, <3>3, <4>1, <4>2, <4>4 DEF StartTransition, Queues
    <3>. QED
      BY <2>6, <3>2, <3>3 DEF StartTransition
  <2>. QED
    BY <1>3, <1>4, <2>2, <2>3, <2>4, <2>5, <2>6 DEF ApiStep, StartScan, StartEnqueue
<1>5. ASSUME NEW w \in Workers, WorkerStep(w) \/ WorkerDies(w)
      PROVE  FALSE
  <2>1. /\ w \in Actors /\ (wk[w].pc # "gone" => wk[w].run \in Runs)
        /\ wk[w].final \in Status \ {"QUEUED"}
    BY DEF Actors, RefinementInv, TypeOK, WorkerTypeOK, Terminal, Status
  <2>2. CASE \E from, next, s :
               s \in {"STARTING", "RUNNING", "STOPPING"} /\ from # "gone"
               /\ WorkerMoves(w, from, s, next)
    BY <1>2, <2>1, <2>2 DEF WorkerMoves, Status
  <2>3. CASE WorkerCancelEarly(w) \/ WorkerFinal(w)
    BY <1>2, <2>1, <2>3 DEF WorkerCancelEarly, WorkerFinal, Status
  <2>. QED
    BY <1>3, <1>5, <2>2, <2>3
       DEF WorkerStep, WorkerBoot, WorkerSetUp, WorkerLoop, WorkerTick, WorkerDecides,
           WorkerRaises, WorkerCleanup, WorkerFinish, WorkerDies
<1>6. CASE ExecStep \/ ExecStart \/ ExecKilled \/ ApiRestart
  <2>1. CASE RecoverSave \/ FailLegacy \/ MarkSave
    BY <1>2, <2>1 DEF RecoverSave, FailLegacy, MarkSave, ExecFails, Actors,
                      RefinementInv, TypeOK, ExecTypeOK, Status
  <2>. QED
    BY <1>3, <1>6, <2>1
       DEF ExecStep, ExecStart, ExecKilled, ApiRestart, RecoverNext, PopNext, Launch,
           LaunchLegacy, Reap, MarkGet, WriteMetrics
<1>7. ASSUME NEW a, NEW q, Fetch(a, q)
      PROVE  FALSE
  BY <1>7, NoFetch DEF RefinementInv
<1>. QED
  BY <1>3, <1>4, <1>5, <1>6, <1>7 DEF Next, vars, ApiFetch, WorkerFetch, ExecFetch

(* A run becomes active by being queued.                                   *)
LEMMA BecomesActive ==
    ASSUME RefinementInv, overlaps' = 0, [Next]_vars, NEW r \in Runs,
           rec'[r].status \in Active, rec[r].status \notin Active
    PROVE  \E t \in Threads : Queues(t, r)
<1>1. Statuses[r] = rec[r].status /\ Statuses'[r] = rec'[r].status
  BY DEF Statuses
<1>2. [Lifecycle!Next]_Statuses /\ Statuses' # Statuses
  BY <1>1, NextMoves
<1>3. PICK q \in Runs : Lifecycle!Create(q) \/ Lifecycle!Move(q)
  BY <1>2 DEF Lifecycle!Next
<1>4. DOMAIN Statuses = Runs
  BY DEF Statuses
<1>5. ~Lifecycle!Create(q)
  <2>1. CASE Lifecycle!Create(q)
    <3>1. Statuses' = [Statuses EXCEPT ![q] = "CREATED"]
      BY <2>1 DEF Lifecycle!Create
    <3>. QED
      BY <1>1, <1>4, <3>1 DEF Active
  <2>. QED
    BY <2>1
<1>6. PICK s \in AllowedTransitions[Statuses[q]] :
        /\ Statuses[q] \in Status
        /\ Statuses' = [Statuses EXCEPT ![q] = s]
  BY <1>3, <1>5, SameTable DEF Lifecycle!Move
<1>7. q = r /\ s = rec'[r].status
  BY <1>1, <1>4, <1>6
<1>8. rec[r].status \in Status \ Active
  BY <1>1, <1>6, <1>7
<1>9. s = "QUEUED"
  BY <1>1, <1>6, <1>7, <1>8 DEF AllowedTransitions, Status, Active
<1>. QED
  BY <1>7, <1>8, <1>9, OnlyStartQueues DEF Active

(* A start that is about to enqueue its run does so, unless the server is  *)
(* restarted.                                                              *)
LEMMA EnqueueStep ==
    ASSUME TypeOK, [Next]_vars, NEW t \in Threads, api[t].pc = "enqueue"
    PROVE  api'[t] = api[t] \/ StartEnqueue(t) \/ ApiRestart
<1>1. api \in [Threads -> [pc: ApiPc, run: Runs \union {None}, cancel: BOOLEAN]]
  BY DEF TypeOK, ApiTypeOK
<1>2. ASSUME NEW u \in Threads, ApiRequest(u) \/ ApiStep(u)
      PROVE  api'[t] = api[t] \/ StartEnqueue(t)
  <2>1. CASE u = t
    BY <1>2, <2>1
       DEF ApiRequest, ApiStep, CreateRun, StartRun, UpdateEnvironment, StopRun, ApiIdle,
           StartScan, StartTransition, StopBeforeStart, StopFlag, RewriteDescriptor
  <2>2. CASE u # t
    <3>1. \/ UNCHANGED api
          \/ \E p : ApiGoto(u, p)
          \/ \E p, r, c : ApiCall(u, p, r, c)
      BY <1>2
         DEF ApiRequest, ApiStep, CreateRun, StartRun, UpdateEnvironment, StopRun,
             StartScan, StartTransition, StartEnqueue, StopBeforeStart, StopFlag,
             RewriteDescriptor, ApiReturns
    <3>. QED
      BY <1>1, <2>2, <3>1 DEF ApiGoto, ApiCall
  <2>. QED
    BY <2>1, <2>2
<1>3. ASSUME NEW w \in Workers, WorkerStep(w) \/ WorkerDies(w) \/ WorkerFetch(w)
      PROVE  UNCHANGED api
  BY <1>3
     DEF WorkerStep, WorkerBoot, WorkerCancelEarly, WorkerMoves, WorkerSetUp, WorkerLoop,
         WorkerTick, WorkerDecides, WorkerRaises, WorkerCleanup, WorkerFinish, WorkerFinal,
         WorkerDies, WorkerFetch, Fetch
<1>4. CASE ExecStep \/ ExecStart \/ ExecFetch \/ ExecKilled
  BY <1>4
     DEF ExecStep, ExecStart, ExecFetch, ExecKilled, RecoverNext, RecoverSave, PopNext,
         Launch, LaunchLegacy, FailLegacy, Reap, MarkGet, MarkSave, WriteMetrics,
         ExecFails, Fetch
<1>. QED
  BY <1>2, <1>3, <1>4 DEF Next, vars, ApiFetch, Fetch

LEMMA CommandedKept ==
    ASSUME TypeOK, [Next]_vars, NEW r \in Runs, Commanded(r)
    PROVE  Commanded(r)' \/ exec'.run = r
<1>1. queue \in Seq(Runs)
  BY DEF TypeOK, StoreTypeOK
<1>2. PICK i \in 1 .. Len(queue) : queue[i] = r
  BY DEF Commanded
<1>3. CASE UNCHANGED queue
  BY <1>3 DEF Commanded
<1>4. CASE \E t \in Threads : StartEnqueue(t)
  <2>1. PICK t \in Threads : StartEnqueue(t)
    BY <1>4
  <2>2. api[t].run \in Runs /\ queue' = Append(queue, api[t].run)
    BY <2>1 DEF StartEnqueue, Enqueue, TypeOK, ApiTypeOK
  <2>3. i \in 1 .. Len(queue') /\ queue'[i] = r
    BY <1>1, <1>2, <2>2
  <2>. QED
    BY <2>3 DEF Commanded
<1>5. CASE PopNext /\ i = 1
  BY <1>1, <1>2, <1>5 DEF PopNext, TypeOK, ExecTypeOK
<1>6. CASE PopNext /\ i # 1
  <2>1. queue' = Tail(queue)
    BY <1>6 DEF PopNext
  <2>2. i - 1 \in 1 .. Len(queue') /\ queue'[i - 1] = r
    BY <1>1, <1>2, <1>6, <2>1
  <2>. QED
    BY <2>2 DEF Commanded
<1>. QED
  BY <1>3, <1>4, <1>5, <1>6, QueueSteps

(* The executor lets go of a run only when the run is no longer active, or *)
(* when the executor goes down.                                            *)
LEMMA HandledKept ==
    ASSUME RefinementInv, ExecLocals, [Next]_vars, NEW r \in Runs, Handled(r),
           rec[r].status \in Active
    PROVE  exec'.pc = "down" \/ Handled(r)' \/ rec'[r].status \notin Active
<1>1. /\ exec \in [pc: ExecPc, run: Runs \union {None},
                   worker: Workers \union {None}, todo: SUBSET Runs]
      /\ r # None /\ Executor \in Actors
  BY ConstantsAssumption DEF RefinementInv, TypeOK, ExecTypeOK, Actors
<1>2. CASE UNCHANGED exec
  BY <1>2 DEF Handled
<1>3. CASE ExecExits
  BY <1>3 DEF ExecExits
<1>4. CASE ExecStart \/ PopNext
  BY <1>1, <1>4 DEF ExecStart, PopNext, ExecLocals, Handled
<1>5. CASE RecoverNext
  BY <1>1, <1>5 DEF RecoverNext, ExecReady, ExecLocals, Handled
<1>6. CASE (RecoverSave \/ FailLegacy \/ MarkSave) /\ exec.run = r
  <2>1. ASSUME Transition(Executor, r, "FAILED")
        PROVE  rec'[r].status \notin Active
    <3>1. Statuses' = [Statuses EXCEPT ![r] = "FAILED"]
      BY <1>1, <2>1, TransitionEffect DEF Status
    <3>2. Statuses'[r] = rec'[r].status /\ Statuses'[r] = "FAILED"
      BY <3>1 DEF Statuses
    <3>. QED
      BY <3>2 DEF Active
  <2>. QED
    BY <1>3, <1>6, <2>1 DEF RecoverSave, FailLegacy, MarkSave, ExecFails
<1>7. CASE (RecoverSave \/ FailLegacy \/ MarkSave) /\ exec.run # r
  BY <1>1, <1>3, <1>7
     DEF RecoverSave, FailLegacy, MarkSave, ExecFails, ExecGoto, ExecLocals, Handled
<1>8. CASE LaunchLegacy \/ \E w \in Workers : Launch(w)
  BY <1>1, <1>8 DEF LaunchLegacy, ExecGoto, Launch, WaitFor, Handled
<1>9. CASE Reap
  BY <1>1, <1>9 DEF Reap, LeftUnfinished, ExecGoto, ExecLocals, Handled
<1>10. CASE MarkGet
  BY <1>1, <1>10 DEF MarkGet, ExecGoto, ExecLocals, Handled, Terminal, Active
<1>11. CASE WriteMetrics
  <2>1. exec.run # r
    BY <1>11 DEF WriteMetrics, ExecLocals, ExecMetrics, Active
  <2>. QED
    BY <1>1, <1>11, <2>1 DEF WriteMetrics, ExecReady, ExecLocals, Handled
<1>. QED
  BY <1>2, <1>3, <1>4, <1>5, <1>6, <1>7, <1>8, <1>9, <1>10, <1>11, ExecutorAlone
     DEF ExecStep, ExecKilled

NoStrandedInv == RefinementInv /\ ExecLocals /\ NoStrandedRun

LEMMA NoStrandedInvKept ==
    ASSUME overlaps' = 0, apiRestarts' = 0, NoStrandedInv, [Next]_vars
    PROVE  NoStrandedInv'
<1>1. RefinementInv' /\ ExecLocals'
  BY RefinementInvNext, ExecLocalsKept DEF NoStrandedInv
<1>2. ~ApiRestart
  BY CountersGrow DEF NoStrandedInv, RefinementInv
<1>3. ASSUME NEW r \in Runs, rec'[r].status \in Active
      PROVE  exec'.pc = "down" \/ Enqueuing(r)' \/ Commanded(r)' \/ Handled(r)'
  <2>1. CASE rec[r].status \notin Active
    <3>1. PICK t \in Threads : Queues(t, r)
      BY <1>3, <2>1, BecomesActive DEF NoStrandedInv
    <3>2. api'[t].pc = "enqueue" /\ api'[t].run = r
      BY <3>1 DEF Queues, ApiGoto, NoStrandedInv, RefinementInv, TypeOK, ApiTypeOK
    <3>. QED
      BY <3>2 DEF Enqueuing
  <2>2. CASE rec[r].status \in Active
    <3>1. CASE exec.pc = "down"
      <4>1. ~ExecStep /\ ~ExecKilled
        BY <3>1 DEF ExecStep, ExecKilled, RecoverNext, RecoverSave, PopNext, Launch,
                    LaunchLegacy, FailLegacy, Reap, MarkGet, MarkSave, WriteMetrics,
                    ExecFails
      <4>2. CASE ExecStart
        BY <2>2, <4>2 DEF ExecStart, Interrupted, Handled, NoStrandedInv, RefinementInv,
                          TypeOK, ExecTypeOK
      <4>. QED
        BY <3>1, <4>1, <4>2, ExecutorAlone
    <3>2. CASE Enqueuing(r)
      <4>1. PICK t \in Threads : api[t].pc = "enqueue" /\ api[t].run = r
        BY <3>2 DEF Enqueuing
      <4>2. CASE api'[t] = api[t]
        BY <4>1, <4>2 DEF Enqueuing
      <4>3. CASE StartEnqueue(t)
        <5>1. queue' = Append(queue, r) /\ queue \in Seq(Runs)
          BY <4>1, <4>3 DEF StartEnqueue, Enqueue, NoStrandedInv, RefinementInv, TypeOK,
                            StoreTypeOK
        <5>2. Len(queue) + 1 \in 1 .. Len(queue') /\ queue'[Len(queue) + 1] = r
          BY <5>1
        <5>. QED
          BY <5>2 DEF Commanded
      <4>. QED
        BY <1>2, <4>1, <4>2, <4>3, EnqueueStep DEF NoStrandedInv, RefinementInv
    <3>3. CASE Commanded(r)
      BY <3>3, CommandedKept DEF NoStrandedInv, RefinementInv, Handled
    <3>4. CASE Handled(r)
      BY <1>3, <2>2, <3>4, HandledKept DEF NoStrandedInv
    <3>. QED
      BY <2>2, <3>1, <3>2, <3>3, <3>4 DEF NoStrandedInv, NoStrandedRun
  <2>. QED
    BY <2>1, <2>2
<1>. QED
  BY <1>1, <1>3 DEF NoStrandedInv, NoStrandedRun

(* As long as no record update was split and the API server was not        *)
(* restarted in the middle of a start request, a run that holds CARLA is   *)
(* always somebody's work, whenever and however often the executor is      *)
(* killed or ends by an exception, and however its workers die.            *)
THEOREM NoRunIsStranded ==
    Spec => [](overlaps = 0 /\ apiRestarts = 0 => NoStrandedRun)
<1>1. Init => NoStrandedInv
  <2>. SUFFICES ASSUME Init PROVE NoStrandedInv
    OBVIOUS
  <2>1. NoStrandedRun
    BY DEF Init, NoStrandedRun
  <2>. QED
    BY <2>1, RefinementInvInit DEF Init, NoStrandedInv, ExecLocals, ExecMetrics
<1>2. TypeOK /\ (overlaps = 0 /\ apiRestarts = 0 => NoStrandedInv) /\ [Next]_vars
        => (overlaps = 0 /\ apiRestarts = 0 => NoStrandedInv)'
  BY NoStrandedInvKept, CountersGrow
<1>3. NoStrandedInv => NoStrandedRun
  BY DEF NoStrandedInv
<1>. QED
  BY <1>1, <1>2, <1>3, TypeCorrect, PTL DEF Spec

-------------------------------------------------------------------------------
(* The runs that are active or were admitted by a scan.  A scan admits its *)
(* run only when no other one is active: each of the runs can then be      *)
(* charged to a thread of its own, the run of the scan to the thread that  *)
(* has made it.  No other step adds a run to them.                         *)
Started == ActiveRuns \union AdmittedRuns

StartsInv ==
    RefinementInv /\ IsFiniteSet(Started) /\ Cardinality(Started) <= Cardinality(Threads)

(* A set that can be charged to threads is not larger than they are.       *)
LEMMA ChargedToThreads ==
    ASSUME NEW S, NEW f \in [S -> Threads], \A r, q \in S : f[r] = f[q] => r = q
    PROVE  IsFiniteSet(S) /\ Cardinality(S) <= Cardinality(Threads)
<1>1. IsFiniteSet(Threads)
  BY ConstantsAssumption
<1>2. f \in Injection(S, Threads)
  BY DEF Injection, IsInjective
<1>. QED
  BY <1>1, <1>2, FS_Injection

LEMMA ScanStep ==
    ASSUME TypeOK, [Next]_vars, NEW t \in Threads, api'[t].pc = "toQueued"
    PROVE  \/ api'[t] = api[t]
           \/ ~Conflict(api[t].run) /\ api'[t].run = api[t].run /\ UNCHANGED rec
<1>1. api \in [Threads -> [pc: ApiPc, run: Runs \union {None}, cancel: BOOLEAN]]
  BY DEF TypeOK, ApiTypeOK
<1>2. ASSUME NEW u \in Threads, ApiRequest(u) \/ ApiStep(u)
      PROVE  \/ api'[t] = api[t]
             \/ ~Conflict(api[t].run) /\ api'[t].run = api[t].run /\ UNCHANGED rec
  <2>1. CASE StartScan(u)
    BY <1>1, <2>1 DEF StartScan, ApiReturns, ApiCall, ApiGoto
  <2>2. CASE ~StartScan(u)
    <3>1. \/ UNCHANGED api
          \/ \E p : p # "toQueued" /\ ApiGoto(u, p)
          \/ \E p, r, c : p # "toQueued" /\ ApiCall(u, p, r, c)
      BY <1>2, <2>2
         DEF ApiRequest, ApiStep, CreateRun, StartRun, UpdateEnvironment, StopRun,
             StartTransition, StartEnqueue, StopBeforeStart, StopFlag,
             RewriteDescriptor, ApiReturns
    <3>. QED
      BY <1>1, <3>1 DEF ApiGoto, ApiCall
  <2>. QED
    BY <2>1, <2>2
<1>3. ASSUME NEW w \in Workers, WorkerStep(w) \/ WorkerDies(w) \/ WorkerFetch(w)
      PROVE  UNCHANGED api
  BY <1>3
     DEF WorkerStep, WorkerBoot, WorkerCancelEarly, WorkerMoves, WorkerSetUp, WorkerLoop,
         WorkerTick, WorkerDecides, WorkerRaises, WorkerCleanup, WorkerFinish, WorkerFinal,
         WorkerDies, WorkerFetch, Fetch
<1>4. CASE ExecStep \/ ExecStart \/ ExecFetch \/ ExecKilled
  BY <1>4
     DEF ExecStep, ExecStart, ExecFetch, ExecKilled, RecoverNext, RecoverSave, PopNext,
         Launch, LaunchLegacy, FailLegacy, Reap, MarkGet, MarkSave, WriteMetrics,
         ExecFails, Fetch
<1>5. ~ApiRestart
  BY DEF ApiRestart
<1>. QED
  BY <1>2, <1>3, <1>4, <1>5 DEF Next, vars, ApiFetch, Fetch

LEMMA ScanKeepsBound ==
    ASSUME TypeOK', NEW t \in Threads, api'[t].pc = "toQueued", api'[t].run = api[t].run,
           ~Conflict(api[t].run), UNCHANGED rec
    PROVE  IsFiniteSet(Started') /\ Cardinality(Started') <= Cardinality(Threads)
<1>. DEFINE own == api[t].run
<1>. DEFINE Holds(u, r) == u \in Threads /\ api'[u].pc = "toQueued" /\ api'[u].run = r
<1>. DEFINE S == Started'
<1>. DEFINE f == [r \in S |-> CHOOSE u \in Threads : Holds(u, r)]
<1>1. \A r \in S : \E u \in Threads : Holds(u, r)
  <2>. SUFFICES ASSUME NEW r \in S PROVE \E u \in Threads : Holds(u, r)
    OBVIOUS
  <2>1. CASE r = own
    BY <2>1
  <2>2. CASE r # own
    <3>1. r \notin ActiveRuns'
      BY <2>2 DEF Conflict, ActiveRuns
    <3>2. r \in AdmittedRuns'
      BY <3>1 DEF Started
    <3>. QED
      BY <3>2 DEF AdmittedRuns, Admitted
  <2>. QED
    BY <2>1, <2>2
<1>2. \A r \in S : f[r] \in Threads /\ Holds(f[r], r)
  BY <1>1
<1>3. f \in [S -> Threads] /\ \A r, q \in S : f[r] = f[q] => r = q
  BY <1>2
<1>. HIDE DEF f, S
<1>4. IsFiniteSet(S) /\ Cardinality(S) <= Cardinality(Threads)
  BY <1>3, ChargedToThreads
<1>. QED
  BY <1>4 DEF S

LEMMA StartsInvKept ==
    ASSUME overlaps' = 0, StartsInv, [Next]_vars
    PROVE  StartsInv'
<1>1. RefinementInv' /\ TypeOK /\ TypeOK'
  BY RefinementInvNext DEF StartsInv, RefinementInv
<1>2. CASE \A t \in Threads : api'[t].pc = "toQueued" => api'[t] = api[t]
  <2>1. ActiveRuns' \subseteq Started
    <3>. SUFFICES ASSUME NEW r \in Runs, rec'[r].status \in Active,
                         rec[r].status \notin Active
                  PROVE  r \in AdmittedRuns
      BY DEF ActiveRuns, Started
    <3>1. PICK t \in Threads : Queues(t, r)
      BY BecomesActive DEF StartsInv
    <3>. QED
      BY <3>1 DEF Queues, AdmittedRuns, Admitted
  <2>2. AdmittedRuns' \subseteq AdmittedRuns
    BY <1>2 DEF AdmittedRuns, Admitted
  <2>3. Started' \subseteq Started
    BY <2>1, <2>2 DEF Started
  <2>4. IsFiniteSet(Started) /\ Cardinality(Started) <= Cardinality(Threads)
    BY DEF StartsInv
  <2>5. IsFiniteSet(Started') /\ Cardinality(Started') <= Cardinality(Started)
    BY <2>3, <2>4, FS_Subset
  <2>6. /\ Cardinality(Started) \in Nat /\ Cardinality(Started') \in Nat
        /\ Cardinality(Threads) \in Nat
    BY <2>4, <2>5, FS_CardinalityType, ConstantsAssumption
  <2>7. Cardinality(Started') <= Cardinality(Threads)
    BY <2>4, <2>5, <2>6
  <2>. QED
    BY <1>1, <2>5, <2>7 DEF StartsInv
<1>3. ASSUME NEW t \in Threads, api'[t].pc = "toQueued", api'[t] # api[t] PROVE StartsInv'
  <2>1. ~Conflict(api[t].run) /\ api'[t].run = api[t].run /\ UNCHANGED rec
    BY <1>1, <1>3, ScanStep
  <2>2. IsFiniteSet(Started') /\ Cardinality(Started') <= Cardinality(Threads)
    BY <1>1, <1>3, <2>1, ScanKeepsBound
  <2>. QED
    BY <1>1, <2>2 DEF StartsInv
<1>. QED
  BY <1>2, <1>3

(* As long as no record update was split, start requests that race through *)
(* their scans never have more runs active, or about to be, than the API   *)
(* has threads, kills and recoveries of the executor and restarts of the   *)
(* API included.  For clients that wait for each other's answers this is   *)
(* one run.                                                                *)
THEOREM StartsStayBounded == Spec => []StartsAreBounded
<1>1. Init => StartsInv
  <2>. SUFFICES ASSUME Init PROVE StartsInv
    OBVIOUS
  <2>1. Started = {}
    BY DEF Init, Started, ActiveRuns, AdmittedRuns, Admitted, Active, Absent
  <2>2. IsFiniteSet(Started) /\ Cardinality(Started) = 0
    BY <2>1, FS_EmptySet
  <2>3. Cardinality(Threads) \in Nat
    BY FS_CardinalityType, ConstantsAssumption
  <2>. QED
    BY <2>2, <2>3, RefinementInvInit DEF StartsInv
<1>2. TypeOK /\ (overlaps = 0 => StartsInv) /\ [Next]_vars => (overlaps = 0 => StartsInv)'
  BY StartsInvKept, CountersGrow
<1>3. (overlaps = 0 => StartsInv) => StartsAreBounded
  BY DEF StartsInv, StartsAreBounded, Started
<1>. QED
  BY <1>1, <1>2, <1>3, TypeCorrect, PTL DEF Spec

-------------------------------------------------------------------------------
(* Executed at most once.  A worker takes a run that it finds QUEUED, and  *)
(* the run stays QUEUED until its first transition: in between another     *)
(* command for the run must not get a worker.  A run that was given to a   *)
(* worker and is still QUEUED is in the hands of the executor that         *)
(* launched the worker, or, after a kill, of the recovery that fails it    *)
(* before the next command is taken.                                       *)
Occupied(r) ==
    \/ executed[r] > 0
    \/ \E w \in Workers : wk[w].pc = "boot" /\ wk[w].run = r

Busy(r) ==
    /\ exec.pc \in {"recover", "recoverSave", "recoverMetrics",
                    "wait", "markGet", "markSave", "markMetrics"}
    /\ Handled(r)

ExecutedRunsBegun == \A r \in Runs : executed[r] > 0 => Begun(r)

OccupiedRunsHeld ==
    \A r \in Runs :
        rec[r].status = "QUEUED" /\ Occupied(r) => exec.pc = "down" \/ Busy(r)

BootsFirst ==
    \A w \in Workers :
        LET r == wk[w].run IN
        wk[w].pc = "boot" /\ rec[r].status = "QUEUED" =>
            /\ executed[r] = 0
            /\ \A v \in Workers : wk[v].pc = "boot" /\ wk[v].run = r => v = w

ExecutedOnce == \A r \in Runs : executed[r] <= 1

OnceInv ==
    /\ RefinementInv /\ ExecLocals
    /\ ExecutedOnce /\ ExecutedRunsBegun /\ OccupiedRunsHeld /\ BootsFirst

LEMMA ExecutedStep ==
    ASSUME [Next]_vars
    PROVE  \/ UNCHANGED executed
           \/ \E w \in Workers :
                /\ wk[w].pc = "boot" /\ rec[wk[w].run].status = "QUEUED"
                /\ executed' = [executed EXCEPT ![wk[w].run] = @ + 1]
                /\ WorkerGoto(w, "starting")
<1>1. ASSUME NEW w \in Workers, WorkerBoot(w)
      PROVE  \/ UNCHANGED executed
             \/ /\ wk[w].pc = "boot" /\ rec[wk[w].run].status = "QUEUED"
                /\ executed' = [executed EXCEPT ![wk[w].run] = @ + 1]
                /\ WorkerGoto(w, "starting")
  BY <1>1 DEF WorkerBoot, Runnable
<1>2. CASE ~\E w \in Workers : WorkerBoot(w)
  BY <1>2
     DEF Next, vars, ApiRequest, ApiStep, ApiFetch, CreateRun, StartRun,
         UpdateEnvironment, StopRun, StartScan, StartTransition, StartEnqueue,
         StopBeforeStart, StopFlag, RewriteDescriptor, Fetch, ApiRestart, WorkerStep,
         WorkerCancelEarly, WorkerMoves, WorkerSetUp, WorkerLoop, WorkerTick,
         WorkerDecides, WorkerRaises, WorkerCleanup, WorkerFinish, WorkerFinal,
         WorkerDies, WorkerFetch, ExecStep, ExecStart, ExecFetch, ExecKilled, RecoverNext,
         RecoverSave, PopNext, Launch, LaunchLegacy, FailLegacy, Reap, MarkGet, MarkSave,
         WriteMetrics, ExecFails, aux
<1>. QED
  BY <1>1, <1>2

LEMMA BootStep ==
    ASSUME TypeOK, [Next]_vars, NEW w \in Workers, wk'[w].pc = "boot"
    PROVE  \/ wk[w].pc = "boot" /\ wk'[w].run = wk[w].run
           \/ Launch(w) /\ wk'[w].run = exec.run
<1>1. wk \in [Workers -> [pc: WorkerPc, run: Runs \union {None},
                          final: Terminal, ok: BOOLEAN]]
  BY DEF TypeOK, WorkerTypeOK
<1>2. ASSUME WorkerStep(w) \/ WorkerDies(w)
      PROVE  wk'[w].pc # "boot"
  <2>1. \/ \E ok : WorkerExits(w, ok)
        \/ \E p : p # "boot" /\ WorkerGoto(w, p)
        \/ \E f : WorkerEnds(w, f)
    BY <1>2
       DEF WorkerStep, WorkerBoot, WorkerCancelEarly, WorkerMoves, WorkerSetUp,
           WorkerLoop, WorkerTick, WorkerDecides, WorkerRaises, WorkerCleanup,
           WorkerFinish, WorkerFinal, WorkerDies
  <2>. QED
    BY <1>1, <2>1 DEF WorkerExits, WorkerGoto, WorkerEnds
<1>3. ASSUME Launch(w)
      PROVE  wk'[w].run = exec.run
  BY <1>1, <1>3 DEF Launch
<1>. QED
  BY <1>2, <1>3, WorkerAlone

(* A run gets its first worker from the executor.                          *)
LEMMA OccupiedStep ==
    ASSUME TypeOK, [Next]_vars, NEW r \in Runs, Occupied(r)'
    PROVE  Occupied(r) \/ \E w \in Workers : Launch(w) /\ exec.run = r
<1>1. executed \in [Runs -> Nat]
  BY DEF TypeOK, AuxTypeOK
<1>2. CASE executed'[r] > 0 /\ executed[r] = 0
  <2>1. PICK w \in Workers : wk[w].pc = "boot" /\ wk[w].run = r
    BY <1>1, <1>2, ExecutedStep
  <2>. QED
    BY <2>1 DEF Occupied
<1>3. CASE executed[r] # 0
  BY <1>1, <1>3 DEF Occupied
<1>4. CASE \E w \in Workers : wk'[w].pc = "boot" /\ wk'[w].run = r
  BY <1>4, BootStep DEF Occupied
<1>. QED
  BY <1>1, <1>2, <1>3, <1>4 DEF Occupied

(* The executor does not take a command while it holds a run.              *)
LEMMA BusyKept ==
    ASSUME RefinementInv, ExecLocals, ExecLocals', [Next]_vars, NEW r \in Runs, Busy(r),
           rec[r].status \in Active, rec'[r].status \in Active
    PROVE  exec'.pc = "down" \/ Busy(r)'
<1>1. exec'.pc = "down" \/ Handled(r)'
  BY HandledKept DEF Busy
<1>2. r # None
  BY ConstantsAssumption
<1>3. Handled(r)' => exec'.pc # "idle"
  BY <1>2 DEF Handled, ExecLocals
<1>4. exec \in [pc: ExecPc, run: Runs \union {None},
                worker: Workers \union {None}, todo: SUBSET Runs]
  BY DEF RefinementInv, TypeOK, ExecTypeOK
<1>5. exec'.pc \in {"recover", "recoverSave", "recoverMetrics",
                   "wait", "markGet", "markSave", "markMetrics", "idle", "down"}
  <2>1. CASE UNCHANGED exec
    BY <2>1 DEF Busy
  <2>2. CASE ExecExits
    BY <2>2 DEF ExecExits
  <2>3. CASE ExecReady
    BY <1>4, <2>3 DEF ExecReady
  <2>4. CASE ~ExecExits /\ ~ExecReady /\ (RecoverNext \/ RecoverSave)
    BY <1>4, <2>4 DEF RecoverNext, RecoverSave, ExecFails, ExecGoto
  <2>5. CASE ~ExecExits /\ ~ExecReady /\ (Reap \/ MarkGet \/ MarkSave)
    BY <1>4, <2>5 DEF Reap, MarkGet, MarkSave, WriteMetrics, ExecFails, ExecGoto
  <2>6. CASE ~ExecReady /\ WriteMetrics
    BY <1>4, <2>6 DEF WriteMetrics, Busy
  <2>7. ~ExecStart /\ ~PopNext /\ ~LaunchLegacy /\ ~FailLegacy /\ ~\E w \in Workers : Launch(w)
    BY DEF Busy, ExecStart, PopNext, LaunchLegacy, FailLegacy, ExecFails, Launch
  <2>. QED
    BY <2>1, <2>2, <2>3, <2>4, <2>5, <2>6, <2>7, ExecutorAlone DEF ExecStep, ExecKilled
<1>. QED
  BY <1>1, <1>3, <1>5 DEF Busy

(* A run that is not QUEUED is not about to be, once a worker had it.      *)
LEMMA OccupiedNotRequeued ==
    ASSUME OnceInv, overlaps' = 0, [Next]_vars, NEW r \in Runs, Occupied(r)',
           rec'[r].status = "QUEUED"
    PROVE  rec[r].status = "QUEUED"
<1>. SUFFICES ASSUME rec[r].status # "QUEUED" PROVE FALSE
  OBVIOUS
<1>1. PICK t \in Threads : Queues(t, r)
  BY OnlyStartQueues DEF OnceInv
<1>2. rec[r].status = "CREATED" /\ UNCHANGED <<wk, executed>>
  BY <1>1 DEF Queues, aux
<1>3. Occupied(r)
  BY <1>2 DEF Occupied
<1>. QED
  BY <1>2, <1>3 DEF Occupied, OnceInv, ExecutedRunsBegun, RefinementInv, WorkerRunsBegun,
                    Begun

LEMMA OnceInvKept ==
    ASSUME overlaps' = 0, OnceInv, [Next]_vars
    PROVE  OnceInv'
<1>1. RefinementInv' /\ ExecLocals' /\ TypeOK
  BY RefinementInvNext, ExecLocalsKept DEF OnceInv, RefinementInv
<1>2. /\ executed \in [Runs -> Nat]
      /\ \A w \in Workers : wk[w].pc # "gone" => wk[w].run \in Runs
  BY <1>1 DEF TypeOK, AuxTypeOK, WorkerTypeOK
<1>3. ASSUME NEW r \in Runs, ~UNCHANGED executed, executed'[r] # executed[r]
      PROVE  /\ executed[r] = 0 /\ executed'[r] = 1 /\ Begun(r)
             /\ \E w \in Workers : /\ wk[w].pc = "boot" /\ wk[w].run = r
                                   /\ rec[r].status = "QUEUED"
                                   /\ WorkerGoto(w, "starting")
  <2>1. PICK w \in Workers :
                /\ wk[w].pc = "boot" /\ rec[wk[w].run].status = "QUEUED"
                /\ executed' = [executed EXCEPT ![wk[w].run] = @ + 1]
                /\ WorkerGoto(w, "starting")
    BY <1>3, ExecutedStep
  <2>2. wk[w].run = r
    BY <1>2, <1>3, <2>1
  <2>3. executed[r] = 0
    BY <2>1, <2>2 DEF OnceInv, BootsFirst
  <2>. QED
    BY <1>2, <2>1, <2>2, <2>3 DEF Begun, Absent
<1>4. ExecutedOnce'
  BY <1>2, <1>3 DEF OnceInv, ExecutedOnce
<1>5. ExecutedRunsBegun'
  <2>1. \A r \in Runs : Begun(r) => Begun(r)'
    BY <1>1, NextMoves, StatusesKept DEF OnceInv
  <2>. QED
    BY <1>2, <1>3, <2>1 DEF OnceInv, ExecutedRunsBegun
<1>6. OccupiedRunsHeld'
  <2>. SUFFICES ASSUME NEW r \in Runs, rec'[r].status = "QUEUED", Occupied(r)'
                PROVE  exec'.pc = "down" \/ Busy(r)'
    BY DEF OccupiedRunsHeld
  <2>1. rec[r].status = "QUEUED"
    BY OccupiedNotRequeued
  <2>2. CASE \E w \in Workers : Launch(w) /\ exec.run = r
    BY <1>1, <2>2 DEF Launch, WaitFor, Busy, Handled, TypeOK, ExecTypeOK
  <2>3. CASE Occupied(r) /\ exec.pc = "down"
    <3>1. ~ExecStep /\ ~ExecKilled
      BY <2>3 DEF ExecStep, ExecKilled, RecoverNext, RecoverSave, PopNext, Launch,
                  LaunchLegacy, FailLegacy, Reap, MarkGet, MarkSave, WriteMetrics,
                  ExecFails
    <3>2. CASE ExecStart
      BY <1>1, <2>1, <3>2 DEF ExecStart, Interrupted, Active, Busy, Handled, TypeOK,
                              ExecTypeOK
    <3>. QED
      BY <2>3, <3>1, <3>2, ExecutorAlone
  <2>4. CASE Occupied(r) /\ Busy(r)
    BY <1>1, <2>1, <2>4, BusyKept DEF OnceInv, Active
  <2>. QED
    BY <1>1, <2>1, <2>2, <2>3, <2>4, OccupiedStep DEF OnceInv, OccupiedRunsHeld
<1>7. BootsFirst'
  <2>. SUFFICES ASSUME NEW w \in Workers, wk'[w].pc = "boot",
                       rec'[wk'[w].run].status = "QUEUED"
                PROVE  /\ executed'[wk'[w].run] = 0
                       /\ \A v \in Workers :
                             wk'[v].pc = "boot" /\ wk'[v].run = wk'[w].run => v = w
    BY DEF BootsFirst
  <2> DEFINE r == wk'[w].run
  <2>1. r \in Runs
    BY <1>1 DEF RefinementInv, TypeOK, WorkerTypeOK
  <2>2. rec[r].status = "QUEUED"
    BY <2>1, OccupiedNotRequeued DEF Occupied
  <2>3. ASSUME NEW v \in Workers, Launch(v), exec.run = r
        PROVE  ~Occupied(r)
    BY <2>1, <2>2, <2>3 DEF Launch, OnceInv, OccupiedRunsHeld, Busy
  <2>4. ASSUME NEW u \in Workers, Launch(u), NEW v \in Workers, Launch(v)
        PROVE  u = v
    <3>1. wk'[u].pc = "boot" /\ wk[v].pc = "gone"
      BY <1>1, <2>4 DEF Launch, TypeOK, WorkerTypeOK
    <3>. QED
      BY <1>1, <2>4, <3>1 DEF Launch, TypeOK, WorkerTypeOK
  <2>5. executed'[r] = 0
    <3>1. CASE Launch(w)
      <4>1. ~Occupied(r) /\ UNCHANGED executed
        BY <1>1, <2>3, <3>1, BootStep DEF Launch, aux
      <4>. QED
        BY <1>2, <2>1, <4>1 DEF Occupied
    <3>2. CASE wk[w].pc = "boot" /\ r = wk[w].run
      <4>1. executed[r] = 0
        BY <2>2, <3>2 DEF OnceInv, BootsFirst
      <4>2. CASE executed'[r] # executed[r]
        <5>1. PICK v \in Workers : /\ wk[v].pc = "boot" /\ wk[v].run = r
                                   /\ WorkerGoto(v, "starting")
          BY <1>3, <2>1, <4>2
        <5>2. v = w
          BY <2>2, <3>2, <5>1 DEF OnceInv, BootsFirst
        <5>. QED
          BY <1>1, <5>1, <5>2 DEF WorkerGoto, TypeOK, WorkerTypeOK
      <4>. QED
        BY <4>1, <4>2
    <3>. QED
      BY <1>1, <3>1, <3>2, BootStep
  <2>6. ASSUME NEW v \in Workers, wk'[v].pc = "boot", wk'[v].run = r
        PROVE  v = w
    <3>1. CASE Launch(w) /\ Launch(v)
      BY <2>4, <3>1
    <3>2. CASE Launch(w) /\ exec.run = r /\ wk[v].pc = "boot" /\ wk[v].run = r
      BY <2>3, <3>2 DEF Occupied
    <3>3. CASE Launch(v) /\ exec.run = r /\ wk[w].pc = "boot" /\ wk[w].run = r
      BY <2>3, <3>3 DEF Occupied
    <3>4. CASE wk[w].pc = "boot" /\ wk[w].run = r /\ wk[v].pc = "boot" /\ wk[v].run = r
      BY <2>2, <3>4 DEF OnceInv, BootsFirst
    <3>. QED
      BY <1>1, <2>6, <3>1, <3>2, <3>3, <3>4, BootStep
  <2>. QED
    BY <2>5, <2>6
<1>. QED
  BY <1>1, <1>4, <1>5, <1>6, <1>7 DEF OnceInv

(* As long as no record update was split, a run is executed at most once,  *)
(* however many start requests, kills of the executor, restarts of the API *)
(* server and deaths of workers there are.                                 *)
THEOREM RunExecutedAtMostOnce == Spec => []ExecutedAtMostOnce
<1>1. Init => OnceInv
  <2>. SUFFICES ASSUME Init PROVE OnceInv
    OBVIOUS
  <2>1. ExecutedOnce /\ ExecutedRunsBegun /\ OccupiedRunsHeld /\ BootsFirst
    BY DEF Init, ExecutedOnce, ExecutedRunsBegun, OccupiedRunsHeld, BootsFirst
  <2>. QED
    BY <2>1, RefinementInvInit DEF Init, OnceInv, ExecLocals, ExecMetrics
<1>2. TypeOK /\ (overlaps = 0 => OnceInv) /\ [Next]_vars => (overlaps = 0 => OnceInv)'
  BY OnceInvKept, CountersGrow
<1>3. (overlaps = 0 => OnceInv) => ExecutedAtMostOnce
  BY DEF OnceInv, ExecutedOnce, ExecutedAtMostOnce
<1>. QED
  BY <1>1, <1>2, <1>3, TypeCorrect, PTL DEF Spec

-------------------------------------------------------------------------------
(* A driven run is active.  The worker that executes a run is the only one *)
(* that moves it on, except for the executor that gives it up.             *)
Took(w) == wk[w].pc \notin {"gone", "boot", "cancelEarly"}

TakenOnce ==
    \A w \in Workers :
        Took(w) =>
            /\ executed[wk[w].run] > 0
            /\ \A v \in Workers : Took(v) /\ wk[v].run = wk[w].run => v = w

(* The executor lets its worker exit before it marks the run.              *)
AwaitedToExit ==
    \A w \in Workers : wk[w].pc # "gone" /\ exec.worker = w => exec.pc = "wait"

Lost(w) == rec[wk[w].run].status = "FAILED" /\ exec.worker # w

DrivenStatus ==
    \A w \in Workers :
        /\ wk[w].pc \in {"setup", "running"} =>
             rec[wk[w].run].status = "STARTING" \/ Lost(w)
        /\ wk[w].pc \in {"loop", "tick", "stopping"} =>
             rec[wk[w].run].status = "RUNNING" \/ Lost(w)

DrivenInv == OnceInv /\ TakenOnce /\ AwaitedToExit /\ DrivenStatus

(* Who may change the status of a run.                                     *)
LEMMA StatusChangedBy ==
    ASSUME RefinementInv, overlaps' = 0, [Next]_vars, NEW r \in Runs,
           rec'[r].status # rec[r].status
    PROVE  \/ rec[r].status = Absent
           \/ rec'[r].status \in {"QUEUED", "CANCELED"}
           \/ \E w \in Workers : WorkerStep(w) /\ Took(w) /\ wk[w].run = r
           \/ /\ RecoverSave \/ FailLegacy \/ MarkSave
              /\ exec.run = r /\ rec'[r].status = "FAILED"
<1>1. Statuses[r] = rec[r].status /\ Statuses'[r] = rec'[r].status /\ DOMAIN Statuses = Runs
  BY DEF Statuses
<1>2. ASSUME NEW a \in Actors, NEW q \in Runs, NEW s \in Status,
             Transition(a, q, s) \/ Refused(a, q, s)
      PROVE  q = r /\ rec'[r].status = s
  <2>1. Statuses' = [Statuses EXCEPT ![q] = s]
    BY <1>1, <1>2, TransitionEffect
  <2>. QED
    BY <1>1, <2>1
<1>3. ~UNCHANGED rec
  BY <1>1
<1>4. ASSUME NEW t \in Threads, ApiRequest(t) \/ ApiStep(t)
      PROVE  rec[r].status = Absent \/ rec'[r].status \in {"QUEUED", "CANCELED"}
  <2>1. t \in Actors /\ (api[t].pc # "idle" => api[t].run \in Runs)
    BY DEF Actors, RefinementInv, TypeOK, ApiTypeOK
  <2>2. CASE ApiRequest(t)
    <3>1. PICK q \in Runs : CreateRun(t, q)
      BY <1>3, <2>2 DEF ApiRequest, StartRun, UpdateEnvironment, StopRun
    <3>. QED
      BY <1>1, <3>1 DEF CreateRun, RefinementInv, TypeOK, StoreTypeOK, Record
  <2>3. CASE StopBeforeStart(t) \/ StartTransition(t)
    BY <1>2, <2>1, <2>3 DEF StopBeforeStart, StartTransition, Status
  <2>4. CASE StopFlag(t)
    <3>1. Read(t, api[t].run) = rec[api[t].run]
      BY <2>1, <2>4 DEF RefinementInv, NoSplit, Read
    <3>2. PICK b : rec' = [rec EXCEPT ![api[t].run] =
                              [rec[api[t].run] EXCEPT !.stop = TRUE, !.cancel = b]]
      BY <2>4, <3>1 DEF StopFlag, Save
    <3>. QED
      BY <3>2 DEF RefinementInv, TypeOK, StoreTypeOK, Record
  <2>5. CASE RewriteDescriptor(t)
    <3>1. Read(t, api[t].run) = rec[api[t].run]
      BY <2>1, <2>5 DEF RefinementInv, NoSplit, Read
    <3>. QED
      BY <1>3, <2>5, <3>1 DEF RewriteDescriptor, Save, RefinementInv, TypeOK, StoreTypeOK
  <2>. QED
    BY <1>3, <1>4, <2>2, <2>3, <2>4, <2>5 DEF ApiStep, StartScan, StartEnqueue
<1>5. ASSUME NEW w \in Workers, WorkerStep(w) \/ WorkerDies(w)
      PROVE  \/ rec'[r].status = "CANCELED"
             \/ WorkerStep(w) /\ Took(w) /\ wk[w].run = r
  <2>1. /\ w \in Actors /\ (wk[w].pc # "gone" => wk[w].run \in Runs)
        /\ wk[w].final \in Status
    BY DEF Actors, RefinementInv, TypeOK, WorkerTypeOK, Terminal, Status
  <2>2. CASE \E from, next, s :
               /\ s \in {"STARTING", "RUNNING", "STOPPING"}
               /\ from \notin {"gone", "boot", "cancelEarly"}
               /\ WorkerMoves(w, from, s, next) /\ WorkerStep(w)
    BY <1>2, <2>1, <2>2 DEF WorkerMoves, Status, Took
  <2>3. CASE WorkerCancelEarly(w)
    BY <1>2, <2>1, <2>3 DEF WorkerCancelEarly, Status
  <2>4. CASE WorkerFinal(w) /\ WorkerStep(w)
    BY <1>2, <2>1, <2>4 DEF WorkerFinal, Took
  <2>. QED
    BY <1>3, <1>5, <2>2, <2>3, <2>4
       DEF WorkerStep, WorkerBoot, WorkerSetUp, WorkerLoop, WorkerTick, WorkerDecides,
           WorkerRaises, WorkerCleanup, WorkerFinish, WorkerDies
<1>6. CASE ExecStep \/ ExecStart \/ ExecKilled \/ ApiRestart
  <2>1. CASE RecoverSave \/ FailLegacy \/ MarkSave
    BY <1>2, <2>1 DEF RecoverSave, FailLegacy, MarkSave, ExecFails, Actors,
                      RefinementInv, TypeOK, ExecTypeOK, Status
  <2>. QED
    BY <1>3, <1>6, <2>1
       DEF ExecStep, ExecStart, ExecKilled, ApiRestart, RecoverNext, PopNext, Launch,
           LaunchLegacy, Reap, MarkGet, WriteMetrics
<1>7. ASSUME NEW a, NEW q, Fetch(a, q)
      PROVE  FALSE
  BY <1>7, NoFetch DEF RefinementInv
<1>. QED
  BY <1>3, <1>4, <1>5, <1>6, <1>7 DEF Next, vars, ApiFetch, WorkerFetch, ExecFetch

LEMMA TookStep ==
    ASSUME DrivenInv, [Next]_vars, NEW w \in Workers, Took(w)'
    PROVE  /\ wk'[w].run = wk[w].run
           /\ \/ Took(w)
              \/ /\ executed[wk[w].run] = 0
                 /\ executed' = [executed EXCEPT ![wk[w].run] = @ + 1]
                 /\ \A v \in Workers : v # w => wk'[v] = wk[v]
<1>1. wk \in [Workers -> [pc: WorkerPc, run: Runs \union {None},
                          final: Terminal, ok: BOOLEAN]]
  BY DEF DrivenInv, OnceInv, RefinementInv, TypeOK, WorkerTypeOK
<1>2. CASE wk'[w] = wk[w]
  BY <1>2 DEF Took
<1>3. CASE Launch(w)
  BY <1>1, <1>3 DEF Launch, Took
<1>4. CASE \E ok : WorkerExits(w, ok)
  BY <1>1, <1>4 DEF WorkerExits, Took
<1>5. CASE WorkerBoot(w) /\ ~\E ok : WorkerExits(w, ok)
  <2>1. CASE WorkerGoto(w, "cancelEarly")
    BY <1>1, <2>1 DEF WorkerGoto, Took
  <2>2. CASE ~WorkerGoto(w, "cancelEarly")
    <3>1. /\ wk[w].pc = "boot" /\ rec[wk[w].run].status = "QUEUED"
          /\ WorkerGoto(w, "starting")
          /\ executed' = [executed EXCEPT ![wk[w].run] = @ + 1]
      BY <1>5, <2>2 DEF WorkerBoot, Runnable
    <3>2. executed[wk[w].run] = 0
      BY <3>1 DEF DrivenInv, OnceInv, BootsFirst
    <3>. QED
      BY <1>1, <3>1, <3>2 DEF WorkerGoto
  <2>. QED
    BY <2>1, <2>2
<1>6. CASE Took(w) /\ ((\E p : WorkerGoto(w, p)) \/ \E f : WorkerEnds(w, f))
  BY <1>1, <1>6 DEF WorkerGoto, WorkerEnds
<1>7. ASSUME WorkerStep(w) \/ WorkerDies(w), ~WorkerBoot(w), ~\E ok : WorkerExits(w, ok)
      PROVE  Took(w) /\ ((\E p : WorkerGoto(w, p)) \/ \E f : WorkerEnds(w, f))
  BY <1>7
     DEF WorkerStep, WorkerCancelEarly, WorkerMoves, WorkerSetUp, WorkerLoop,
         WorkerTick, WorkerDecides, WorkerRaises, WorkerCleanup, WorkerFinish, WorkerFinal,
         WorkerDies, Took
<1>8. TypeOK
  BY DEF DrivenInv, OnceInv, RefinementInv
<1>. QED
  BY <1>2, <1>3, <1>4, <1>5, <1>6, <1>7, <1>8, WorkerAlone

LEMMA TakenOnceKept ==
    ASSUME DrivenInv, [Next]_vars, TypeOK'
    PROVE  TakenOnce'
<1>1. /\ executed \in [Runs -> Nat] /\ executed' \in [Runs -> Nat]
      /\ \A w \in Workers : wk[w].pc # "gone" => wk[w].run \in Runs
  BY DEF DrivenInv, OnceInv, RefinementInv, TypeOK, AuxTypeOK, WorkerTypeOK
<1>2. \A r \in Runs : executed[r] > 0 => executed'[r] > 0
  BY <1>1, ExecutedStep
<1>. SUFFICES ASSUME NEW w \in Workers, Took(w)'
              PROVE  /\ executed'[wk'[w].run] > 0
                     /\ \A v \in Workers : Took(v)' /\ wk'[v].run = wk'[w].run => v = w
  BY DEF TakenOnce
<1>3. wk'[w].run = wk[w].run /\ wk[w].run \in Runs
  <2>1. wk'[w].run \in Runs
    BY DEF Took, TypeOK, WorkerTypeOK
  <2>. QED
    BY <2>1, TookStep
<1>4. executed'[wk'[w].run] > 0
  <2>1. CASE Took(w)
    BY <1>2, <1>3, <2>1 DEF DrivenInv, TakenOnce
  <2>2. CASE ~Took(w)
    BY <1>1, <1>3, <2>2, TookStep
  <2>. QED
    BY <2>1, <2>2
<1>5. ASSUME NEW v \in Workers, Took(v)', wk'[v].run = wk'[w].run
      PROVE  v = w
  <2>1. wk[v].run = wk[w].run
    BY <1>3, <1>5, TookStep
  <2>2. CASE Took(v) /\ Took(w)
    BY <2>1, <2>2 DEF DrivenInv, TakenOnce
  <2>3. CASE ~Took(w)
    <3>1. executed[wk[w].run] = 0 /\ (v # w => wk'[v] = wk[v])
      BY <2>3, TookStep
    <3>2. CASE v # w
      <4>1. Took(v)
        BY <1>5, <3>1, <3>2 DEF Took
      <4>2. executed[wk[v].run] > 0
        BY <4>1 DEF DrivenInv, TakenOnce
      <4>. QED
        BY <2>1, <3>1, <4>2
    <3>. QED
      BY <3>2
  <2>4. CASE ~Took(v)
    <3>1. executed[wk[v].run] = 0 /\ (w # v => wk'[w] = wk[w])
      BY <1>5, <2>4, TookStep
    <3>2. CASE v # w
      <4>1. Took(w)
        BY <3>1, <3>2 DEF Took
      <4>2. executed[wk[w].run] > 0
        BY <4>1 DEF DrivenInv, TakenOnce
      <4>. QED
        BY <2>1, <3>1, <4>2
    <3>. QED
      BY <3>2
  <2>. QED
    BY <2>2, <2>3, <2>4
<1>. QED
  BY <1>4, <1>5

(* The executor gets a worker by launching it.                             *)
LEMMA ExecWorkerStep ==
    ASSUME TypeOK, [Next]_vars, ~\E v \in Workers : Launch(v)
    PROVE  exec'.worker \in {exec.worker, None}
<1>1. exec \in [pc: ExecPc, run: Runs \union {None},
                worker: Workers \union {None}, todo: SUBSET Runs]
  BY DEF TypeOK, ExecTypeOK
<1>2. CASE ExecExits
  BY <1>2 DEF ExecExits
<1>3. CASE ExecReady
  BY <1>1, <1>3 DEF ExecReady
<1>4. CASE \E p : ExecGoto(p)
  BY <1>1, <1>4 DEF ExecGoto
<1>5. CASE ExecStart \/ PopNext
  BY <1>1, <1>5 DEF ExecStart, PopNext
<1>6. CASE ~ExecReady /\ (RecoverNext \/ WriteMetrics)
  BY <1>1, <1>6 DEF RecoverNext, WriteMetrics
<1>7. CASE RecoverSave \/ LaunchLegacy \/ FailLegacy \/ Reap \/ MarkGet \/ MarkSave
  BY <1>2, <1>3, <1>4, <1>7
     DEF RecoverSave, LaunchLegacy, FailLegacy, Reap, MarkGet, MarkSave, ExecFails
<1>. QED
  BY <1>2, <1>3, <1>5, <1>6, <1>7, ExecutorAlone DEF ExecStep, ExecKilled

LEMMA AwaitedToExitKept ==
    ASSUME DrivenInv, [Next]_vars
    PROVE  AwaitedToExit'
<1>1. /\ TypeOK /\ exec \in [pc: ExecPc, run: Runs \union {None},
                             worker: Workers \union {None}, todo: SUBSET Runs]
      /\ wk \in [Workers -> [pc: WorkerPc, run: Runs \union {None},
                             final: Terminal, ok: BOOLEAN]]
  BY DEF DrivenInv, OnceInv, RefinementInv, TypeOK, ExecTypeOK, WorkerTypeOK
<1>. SUFFICES ASSUME NEW w \in Workers, wk'[w].pc # "gone", exec'.worker = w
              PROVE  exec'.pc = "wait"
  BY DEF AwaitedToExit
<1>2. CASE \E v \in Workers : Launch(v)
  BY <1>1, <1>2 DEF Launch, WaitFor
<1>3. CASE ~\E v \in Workers : Launch(v)
  <2>1. wk[w].pc # "gone"
    BY <1>1, <1>3, WorkersStart
  <2>2. w # None
    BY ConstantsAssumption
  <2>3. exec'.worker \in {exec.worker, None}
    BY <1>1, <1>3, ExecWorkerStep
  <2>4. exec.worker = w /\ exec.pc = "wait"
    BY <2>1, <2>2, <2>3 DEF DrivenInv, AwaitedToExit
  <2>5. CASE UNCHANGED exec
    BY <2>4, <2>5
  <2>6. CASE ExecKilled
    BY <2>2, <2>6 DEF ExecKilled, ExecExits
  <2>7. ~ExecStep /\ ~ExecStart
    BY <1>3, <2>1, <2>4 DEF ExecStep, ExecStart, RecoverNext, RecoverSave, PopNext,
                            LaunchLegacy, FailLegacy, Reap, Exited, MarkGet, MarkSave,
                            WriteMetrics, ExecFails
  <2>. QED
    BY <2>5, <2>6, <2>7, ExecutorAlone
<1>. QED
  BY <1>2, <1>3

(* The statuses from which and to which a driven run is moved.             *)
LEMMA DrivenMoves ==
    ASSUME DrivenInv, overlaps' = 0, [Next]_vars, NEW w \in Workers,
           wk[w].pc \in Driving, ~WorkerStep(w)
    PROVE  \/ rec'[wk[w].run].status = rec[wk[w].run].status
           \/ rec'[wk[w].run].status = "FAILED" /\ exec.worker # w
<1> DEFINE r == wk[w].run
<1>1. RefinementInv /\ Took(w) /\ r \in Runs /\ w # None
  BY ConstantsAssumption
     DEF DrivenInv, OnceInv, RefinementInv, TypeOK, WorkerTypeOK, Took, Driving
<1>2. rec[r].status \in {"STARTING", "RUNNING", "FAILED"}
  BY DEF DrivenInv, DrivenStatus, Lost, Driving
<1>. SUFFICES ASSUME rec'[r].status # rec[r].status
              PROVE  rec'[r].status = "FAILED" /\ exec.worker # w
  OBVIOUS
<1>3. rec'[r].status \in AllowedTransitions[rec[r].status]
  <2>1. [Lifecycle!Next]_Statuses
    BY <1>1, NextMoves
  <2>2. Statuses[r] = rec[r].status /\ Statuses'[r] = rec'[r].status /\ DOMAIN Statuses = Runs
    BY <1>1 DEF Statuses
  <2>3. PICK q \in Runs : Lifecycle!Create(q) \/ Lifecycle!Move(q)
    BY <2>1, <2>2 DEF Lifecycle!Next
  <2>4. CASE Lifecycle!Create(q)
    <3>1. Statuses[q] = Absent /\ Statuses' = [Statuses EXCEPT ![q] = "CREATED"]
      BY <2>4, SameTable DEF Lifecycle!Create
    <3>. QED
      BY <1>2, <2>2, <3>1 DEF Absent
  <2>5. CASE Lifecycle!Move(q)
    <3>1. \E s \in AllowedTransitions[Statuses[q]] : Statuses' = [Statuses EXCEPT ![q] = s]
      BY <2>5, SameTable DEF Lifecycle!Move
    <3>. QED
      BY <2>2, <3>1
  <2>. QED
    BY <2>3, <2>4, <2>5
<1>4. rec[r].status \in {"STARTING", "RUNNING"} /\ rec'[r].status \notin {"QUEUED", "CANCELED"}
  BY <1>2, <1>3 DEF AllowedTransitions, Status
<1>5. ~\E v \in Workers : WorkerStep(v) /\ Took(v) /\ wk[v].run = r
  BY <1>1 DEF DrivenInv, TakenOnce
<1>6. /\ RecoverSave \/ FailLegacy \/ MarkSave
      /\ rec'[r].status = "FAILED"
  BY <1>1, <1>4, <1>5, StatusChangedBy DEF Absent
<1>7. exec.worker # w
  <2>1. CASE RecoverSave \/ FailLegacy
    BY <1>1, <2>1 DEF RecoverSave, FailLegacy, ExecFails, DrivenInv, OnceInv, ExecLocals
  <2>2. CASE MarkSave
    BY <1>1, <2>2 DEF MarkSave, WriteMetrics, ExecFails, DrivenInv, AwaitedToExit, Took
  <2>. QED
    BY <1>6, <2>1, <2>2
<1>. QED
  BY <1>6, <1>7

(* A worker that is not the one the executor waits for never becomes it.   *)
LEMMA NotAwaitedKept ==
    ASSUME TypeOK, [Next]_vars, NEW w \in Workers, wk[w].pc # "gone", exec.worker # w
    PROVE  exec'.worker # w
<1>1. exec \in [pc: ExecPc, run: Runs \union {None},
                worker: Workers \union {None}, todo: SUBSET Runs]
  BY DEF TypeOK, ExecTypeOK
<1>2. w # None
  BY ConstantsAssumption
<1>3. CASE \E v \in Workers : Launch(v)
  BY <1>1, <1>3 DEF Launch, WaitFor
<1>4. CASE ~\E v \in Workers : Launch(v)
  BY <1>2, <1>4, ExecWorkerStep
<1>. QED
  BY <1>3, <1>4

LEMMA DrivenStatusKept ==
    ASSUME DrivenInv, overlaps' = 0, [Next]_vars, TypeOK'
    PROVE  DrivenStatus'
<1>. SUFFICES ASSUME NEW w \in Workers, wk'[w].pc \in Driving
              PROVE  /\ wk'[w].pc \in {"setup", "running"} =>
                          rec'[wk'[w].run].status = "STARTING" \/ Lost(w)'
                     /\ wk'[w].pc \in {"loop", "tick", "stopping"} =>
                          rec'[wk'[w].run].status = "RUNNING" \/ Lost(w)'
  BY DEF DrivenStatus, Driving
<1> DEFINE r == wk[w].run
<1>1. /\ RefinementInv /\ TypeOK
      /\ wk \in [Workers -> [pc: WorkerPc, run: Runs \union {None},
                             final: Terminal, ok: BOOLEAN]]
  BY DEF DrivenInv, OnceInv, RefinementInv, TypeOK, WorkerTypeOK
<1>2. Took(w)' /\ wk'[w].run = r /\ r \in Runs
  <2>1. Took(w)' /\ wk'[w].run \in Runs
    BY DEF Driving, Took, TypeOK, WorkerTypeOK
  <2>. QED
    BY <2>1, TookStep
<1>3. CASE wk'[w] = wk[w] /\ ~WorkerStep(w)
  <2>1. wk[w].pc \in Driving /\ wk[w].pc # "gone"
    BY <1>3 DEF Driving
  <2>2. \/ rec'[r].status = rec[r].status
        \/ rec'[r].status = "FAILED" /\ exec.worker # w
    BY <1>3, <2>1, DrivenMoves
  <2>3. exec.worker # w => exec'.worker # w
    BY <1>1, <2>1, NotAwaitedKept
  <2>. QED
    BY <1>2, <1>3, <2>2, <2>3 DEF DrivenInv, DrivenStatus, Lost
<1>4. CASE WorkerSetUp(w) \/ WorkerLoop(w) \/ WorkerTick(w)
  <2>1. UNCHANGED <<rec, exec>> /\ \E p : WorkerGoto(w, p) /\ wk'[w].pc = p
    BY <1>1, <1>4 DEF WorkerSetUp, WorkerLoop, WorkerTick, WorkerGoto
  <2>. QED
    BY <1>1, <1>2, <1>4, <2>1
       DEF WorkerSetUp, WorkerLoop, WorkerTick, WorkerGoto, DrivenInv, DrivenStatus, Lost,
           Driving
<1>5. ASSUME NEW from \in {"starting", "running", "stopping"},
             NEW s \in {"STARTING", "RUNNING", "STOPPING"},
             NEW next \in {"setup", "loop", "ended"}, WorkerMoves(w, from, s, next)
      PROVE  wk'[w].pc = next /\ rec'[r].status = s
  <2>1. w \in Actors /\ s \in Status /\ wk[w].run \in Runs
    BY <1>2 DEF Actors, Status
  <2>2. ~WorkerEnds(w, "FAILED")
    BY <1>1 DEF WorkerEnds, Driving
  <2>3. Transition(w, wk[w].run, s) /\ WorkerGoto(w, next)
    BY <1>5, <2>2 DEF WorkerMoves
  <2>4. Statuses' = [Statuses EXCEPT ![r] = s]
    BY <1>1, <2>1, <2>3, TransitionEffect
  <2>5. rec'[r].status = s
    BY <1>2, <2>4 DEF Statuses
  <2>. QED
    BY <1>1, <2>3, <2>5 DEF WorkerGoto
<1>6. CASE \/ WorkerMoves(w, "starting", "STARTING", "setup")
           \/ WorkerMoves(w, "running", "RUNNING", "loop")
           \/ WorkerMoves(w, "stopping", "STOPPING", "ended")
  <2>1. \/ wk'[w].pc = "setup" /\ rec'[r].status = "STARTING"
        \/ wk'[w].pc = "loop" /\ rec'[r].status = "RUNNING"
        \/ wk'[w].pc = "ended"
    BY <1>5, <1>6
  <2>. QED
    BY <1>2, <2>1 DEF Driving
<1>7. ASSUME WorkerBoot(w) \/ WorkerCancelEarly(w) \/ WorkerDecides(w) \/ WorkerRaises(w)
             \/ WorkerCleanup(w) \/ WorkerFinish(w) \/ WorkerFinal(w) \/ WorkerDies(w)
             \/ Launch(w)
      PROVE  FALSE
  <2>1. \/ \E ok : WorkerExits(w, ok)
        \/ \E p : p \notin Driving /\ WorkerGoto(w, p)
        \/ \E f : WorkerEnds(w, f)
        \/ Launch(w)
    BY <1>7
       DEF WorkerBoot, WorkerCancelEarly, WorkerDecides, WorkerRaises, WorkerCleanup,
           WorkerFinish, WorkerFinal, WorkerDies, Driving
  <2>2. wk'[w].pc \notin Driving
    BY <1>1, <2>1 DEF WorkerExits, WorkerGoto, WorkerEnds, Launch, Driving
  <2>. QED
    BY <2>2
<1>. QED
  BY <1>1, <1>3, <1>4, <1>6, <1>7, WorkerAlone DEF WorkerStep

(* As long as no record update was split, the record of a driven run says  *)
(* that it is driven, unless the recovery has given it up while its worker *)
(* outlived the executor: a run that was canceled before it started, or    *)
(* that has ended, is never driven.                                        *)
THEOREM DrivenRunIsAlwaysActive == Spec => [](overlaps = 0 => DrivenRunIsActive)
<1>1. Init => DrivenInv
  <2>. SUFFICES ASSUME Init PROVE DrivenInv
    OBVIOUS
  <2>1. ExecutedOnce /\ ExecutedRunsBegun /\ OccupiedRunsHeld /\ BootsFirst
    BY DEF Init, ExecutedOnce, ExecutedRunsBegun, OccupiedRunsHeld, BootsFirst
  <2>2. OnceInv
    BY <2>1, RefinementInvInit DEF Init, OnceInv, ExecLocals, ExecMetrics
  <2>3. TakenOnce /\ AwaitedToExit /\ DrivenStatus
    BY DEF Init, TakenOnce, Took, AwaitedToExit, DrivenStatus
  <2>. QED
    BY <2>2, <2>3 DEF DrivenInv
<1>2. TypeOK /\ (overlaps = 0 => DrivenInv) /\ [Next]_vars => (overlaps = 0 => DrivenInv)'
  <2>. SUFFICES ASSUME DrivenInv, [Next]_vars, overlaps' = 0 PROVE DrivenInv'
    BY CountersGrow
  <2>1. OnceInv' /\ TypeOK'
    BY OnceInvKept DEF DrivenInv, OnceInv, RefinementInv
  <2>. QED
    BY <2>1, TakenOnceKept, AwaitedToExitKept, DrivenStatusKept DEF DrivenInv
<1>3. DrivenInv => DrivenRunIsActive
  BY DEF DrivenInv, DrivenStatus, Lost, DrivenRunIsActive, Driving
<1>. QED
  BY <1>1, <1>2, <1>3, TypeCorrect, PTL DEF Spec

-------------------------------------------------------------------------------
(* Metrics of finished runs, overlapping calls of RunStore included.  A    *)
(* copy that an update has read may be written back long after: a run      *)
(* counts as finished as soon as its record or such a copy says so.        *)
Finished == {"COMPLETED", "FAILED"}

WorksOn(a) ==
    CASE a \in Threads -> api[a].run
      [] a \in Workers -> wk[a].run
      [] OTHER -> exec.run

InUpdate(a) ==
    CASE a \in Threads -> api[a].pc \in ApiUpdate
      [] a \in Workers -> wk[a].pc \in WorkerUpdate
      [] OTHER -> exec.pc \in ExecUpdate

CopyShows(a, r) == seen[a] # None /\ WorksOn(a) = r /\ seen[a].status \in Finished
Shown(r) == rec[r].status \in Finished \/ \E a \in Actors : CopyShows(a, r)
Recorded(r) == metrics[r] # None \/ (exec.pc \in ExecMetrics /\ exec.run = r)
LostRuns == {r \in Runs : Shown(r) /\ ~Recorded(r)}

(* A copy is held by an update in progress; a worker writes its metrics    *)
(* before its final status; each kill loses the metrics of one run.        *)
CopiesHeld == \A a \in Actors : seen[a] # None => InUpdate(a)
MetricsFirst == \A w \in Workers : wk[w].pc \in {"finish", "final"} => metrics[wk[w].run] # None
LostByKills == IsFiniteSet(LostRuns) /\ Cardinality(LostRuns) <= kills

MetricsInv == TypeOK /\ CopiesHeld /\ MetricsFirst /\ LostByKills

LEMMA ActorKinds ==
    /\ \A t \in Threads : /\ t \in Actors /\ WorksOn(t) = api[t].run
                          /\ InUpdate(t) <=> api[t].pc \in ApiUpdate
    /\ \A w \in Workers : /\ w \in Actors /\ w \notin Threads /\ WorksOn(w) = wk[w].run
                          /\ InUpdate(w) <=> wk[w].pc \in WorkerUpdate
    /\ Executor \in Actors \ (Threads \union Workers) /\ WorksOn(Executor) = exec.run
    /\ InUpdate(Executor) <=> exec.pc \in ExecUpdate
BY ConstantsAssumption DEF Actors, WorksOn, InUpdate

(* What one step does to the copies: actor b's copy is dropped, is read by *)
(* b's own update, or is kept by an actor that stands still.               *)
Still(a) ==
    CASE a \in Threads -> api'[a] = api[a]
      [] a \in Workers -> wk'[a] = wk[a]
      [] OTHER -> exec' = exec

CopyMoves(b) ==
    \/ seen'[b] = None
    \/ Still(b) /\ seen'[b] = seen[b]
    \/ Still(b) /\ InUpdate(b) /\ seen'[b] = rec[WorksOn(b)]

LEMMA FetchCopies ==
    ASSUME TypeOK, NEW a \in Actors, InUpdate(a), Fetch(a, WorksOn(a)), NEW b \in Actors
    PROVE  CopyMoves(b)
<1>1. seen \in [Actors -> Record \union {None}]
  BY DEF TypeOK, StoreTypeOK
<1>2. Still(b)
  BY DEF Fetch, Still
<1>3. seen' = [seen EXCEPT ![a] = rec[WorksOn(a)]]
  BY DEF Fetch
<1>. QED
  BY <1>1, <1>2, <1>3 DEF CopyMoves

(* A step of actor a that drops its copy or holds none, and leaves the     *)
(* others alone.                                                           *)
LEMMA OwnStepCopies ==
    ASSUME TypeOK, NEW a \in Actors,
           seen' = [seen EXCEPT ![a] = None] \/ (seen[a] = None /\ UNCHANGED seen),
           \A b \in Actors \ {a} : Still(b), NEW b \in Actors
    PROVE  CopyMoves(b)
BY DEF TypeOK, StoreTypeOK, CopyMoves

LEMMA ApiCopies ==
    ASSUME TypeOK, CopiesHeld, NEW t \in Threads, ApiRequest(t) \/ ApiStep(t) \/ ApiFetch(t),
           NEW b \in Actors
    PROVE  CopyMoves(b)
<1>1. CASE ApiFetch(t)
  BY <1>1, ActorKinds, FetchCopies DEF ApiFetch
<1>2. CASE ApiRequest(t) \/ ApiStep(t)
  <2>1. \/ UNCHANGED api
        \/ \E p : ApiGoto(t, p)
        \/ \E p, r, c : ApiCall(t, p, r, c)
    BY <1>2
       DEF ApiRequest, ApiStep, CreateRun, StartRun, UpdateEnvironment, StopRun, StartScan,
           StartTransition, StartEnqueue, StopBeforeStart, StopFlag, RewriteDescriptor,
           ApiReturns
  <2>2. \A u \in Threads \ {t} : api'[u] = api[u]
    BY <2>1 DEF ApiGoto, ApiCall, TypeOK, ApiTypeOK
  <2>3. UNCHANGED <<wk, exec>>
    BY <1>2
       DEF ApiRequest, ApiStep, CreateRun, StartRun, UpdateEnvironment, StopRun, StartScan,
           StartTransition, StartEnqueue, StopBeforeStart, StopFlag, RewriteDescriptor
  <2>4. \A a \in Actors \ {t} : Still(a)
    BY <2>2, <2>3 DEF Still
  <2>5. seen' = [seen EXCEPT ![t] = None] \/ (api[t].pc \notin ApiUpdate /\ UNCHANGED seen)
    BY <1>2
       DEF ApiRequest, ApiStep, CreateRun, StartRun, UpdateEnvironment, StopRun, ApiIdle,
           StartScan, StartTransition, StartEnqueue, StopBeforeStart, StopFlag,
           RewriteDescriptor, Transition, Refused, Save, ApiUpdate
  <2>6. seen' = [seen EXCEPT ![t] = None] \/ (seen[t] = None /\ UNCHANGED seen)
    BY <2>5, ActorKinds DEF CopiesHeld
  <2>. QED
    BY <2>4, <2>6, ActorKinds, OwnStepCopies
<1>. QED
  BY <1>1, <1>2

LEMMA WorkerCopies ==
    ASSUME TypeOK, CopiesHeld, NEW w \in Workers,
           WorkerStep(w) \/ WorkerDies(w) \/ WorkerFetch(w), NEW b \in Actors
    PROVE  CopyMoves(b)
<1>1. CASE WorkerFetch(w)
  BY <1>1, ActorKinds, FetchCopies DEF WorkerFetch
<1>2. CASE WorkerStep(w) \/ WorkerDies(w)
  <2>1. \/ \E ok : WorkerExits(w, ok)
        \/ \E p : WorkerGoto(w, p)
        \/ \E f : WorkerEnds(w, f)
    BY <1>2
       DEF WorkerStep, WorkerBoot, WorkerCancelEarly, WorkerMoves, WorkerSetUp, WorkerLoop,
           WorkerTick, WorkerDecides, WorkerRaises, WorkerCleanup, WorkerFinish,
           WorkerFinal, WorkerDies
  <2>2. \A v \in Workers \ {w} : wk'[v] = wk[v]
    BY <2>1 DEF WorkerExits, WorkerGoto, WorkerEnds, TypeOK, WorkerTypeOK
  <2>3. UNCHANGED <<api, exec>>
    BY <1>2
       DEF WorkerStep, WorkerBoot, WorkerCancelEarly, WorkerMoves, WorkerSetUp, WorkerLoop,
           WorkerTick, WorkerDecides, WorkerRaises, WorkerCleanup, WorkerFinish,
           WorkerFinal, WorkerDies
  <2>4. \A a \in Actors \ {w} : Still(a)
    BY <2>2, <2>3 DEF Still
  <2>5. \/ seen' = [seen EXCEPT ![w] = None]
        \/ (wk[w].pc \notin WorkerUpdate \/ seen[w] = None) /\ UNCHANGED seen
    BY <1>2
       DEF WorkerStep, WorkerBoot, WorkerCancelEarly, WorkerMoves, WorkerSetUp, WorkerLoop,
           WorkerTick, WorkerDecides, WorkerRaises, WorkerCleanup, WorkerFinish,
           WorkerFinal, WorkerDies, Transition, Refused, Save, WorkerUpdate
  <2>6. seen' = [seen EXCEPT ![w] = None] \/ (seen[w] = None /\ UNCHANGED seen)
    BY <2>5, ActorKinds DEF CopiesHeld
  <2>. QED
    BY <2>4, <2>6, ActorKinds, OwnStepCopies
<1>. QED
  BY <1>1, <1>2

LEMMA ExecCopies ==
    ASSUME TypeOK, CopiesHeld, ExecStep \/ ExecStart \/ ExecFetch \/ ExecKilled,
           NEW b \in Actors
    PROVE  CopyMoves(b)
<1>1. CASE ExecFetch
  BY <1>1, ActorKinds, FetchCopies DEF ExecFetch
<1>2. CASE \E w \in Workers : Launch(w)
  <2>1. PICK w \in Workers : Launch(w)
    BY <1>2
  <2>2. /\ exec.pc \notin ExecUpdate /\ wk[w].pc \notin WorkerUpdate
        /\ UNCHANGED <<api, seen>> /\ \A v \in Workers \ {w} : wk'[v] = wk[v]
    BY <2>1 DEF Launch, ExecUpdate, WorkerUpdate, TypeOK, WorkerTypeOK
  <2>3. seen[Executor] = None /\ seen[w] = None
    BY <2>2, ActorKinds DEF CopiesHeld
  <2>4. CASE b = w \/ b = Executor
    BY <2>2, <2>3, <2>4 DEF CopyMoves
  <2>5. CASE b # w /\ b # Executor
    <3>1. Still(b)
      BY <2>2, <2>5, ActorKinds DEF Still, Actors
    <3>. QED
      BY <2>2, <3>1 DEF CopyMoves
  <2>. QED
    BY <2>4, <2>5
<1>3. CASE (ExecStep \/ ExecStart \/ ExecKilled) /\ ~\E w \in Workers : Launch(w)
  <2>1. UNCHANGED <<api, wk>>
    BY <1>3
       DEF ExecStep, ExecStart, ExecKilled, RecoverNext, RecoverSave, PopNext, LaunchLegacy,
           FailLegacy, Reap, MarkGet, MarkSave, WriteMetrics, ExecFails
  <2>2. \A a \in Actors \ {Executor} : Still(a)
    BY <2>1 DEF Still, Actors
  <2>3. \/ seen' = [seen EXCEPT ![Executor] = None]
        \/ exec.pc \notin ExecUpdate /\ UNCHANGED seen
    BY <1>3
       DEF ExecStep, ExecStart, ExecKilled, RecoverNext, RecoverSave, PopNext, LaunchLegacy,
           FailLegacy, Reap, MarkGet, MarkSave, WriteMetrics, ExecFails, Transition, Refused,
           Save, ExecUpdate
  <2>4. seen' = [seen EXCEPT ![Executor] = None] \/ (seen[Executor] = None /\ UNCHANGED seen)
    BY <2>3, ActorKinds DEF CopiesHeld
  <2>. QED
    BY <2>2, <2>4, ActorKinds, OwnStepCopies
<1>. QED
  BY <1>1, <1>2, <1>3

LEMMA CopiesMove ==
    ASSUME TypeOK, CopiesHeld, [Next]_vars, NEW b \in Actors
    PROVE  CopyMoves(b)
<1>1. CASE UNCHANGED vars
  BY <1>1 DEF vars, CopyMoves, Still
<1>2. CASE ApiRestart
  <2>1. seen' = [a \in Actors |-> IF a \in Threads THEN None ELSE seen[a]]
        /\ UNCHANGED <<wk, exec>>
    BY <1>2 DEF ApiRestart
  <2>. QED
    BY <2>1 DEF CopyMoves, Still
<1>. QED
  BY <1>1, <1>2, ApiCopies, WorkerCopies, ExecCopies DEF Next

LEMMA CopiesHeldKept ==
    ASSUME TypeOK, CopiesHeld, [Next]_vars
    PROVE  CopiesHeld'
<1>. SUFFICES ASSUME NEW b \in Actors, seen'[b] # None PROVE InUpdate(b)'
  BY DEF CopiesHeld
<1>1. Still(b) /\ InUpdate(b)
  BY CopiesMove DEF CopyMoves, CopiesHeld
<1>. QED
  BY <1>1 DEF Still, InUpdate

(* Which update makes a record show a finished run.                        *)
LEMMA TransitionShows ==
    ASSUME TypeOK, NEW a \in Actors, WorksOn(a) \in Runs, NEW s \in Status,
           Transition(a, WorksOn(a), s) \/ Refused(a, WorksOn(a), s),
           NEW r \in Runs, rec'[r].status \in Finished
    PROVE  Shown(r) \/ (s \in Finished /\ r = WorksOn(a) /\ Transition(a, r, s))
<1>1. rec \in [Runs -> Record]
  BY DEF TypeOK, StoreTypeOK
<1>2. CASE Refused(a, WorksOn(a), s)
  BY <1>2 DEF Refused, Shown
<1>3. CASE Transition(a, WorksOn(a), s)
  <2>1. rec' = [rec EXCEPT ![WorksOn(a)] = [Read(a, WorksOn(a)) EXCEPT !.status = s]]
    BY <1>3 DEF Transition, Save
  <2>2. Read(a, WorksOn(a)) \in Record
    BY ReadType DEF TypeOK
  <2>3. CASE r = WorksOn(a)
    BY <1>1, <1>3, <2>1, <2>2, <2>3 DEF Record
  <2>4. CASE r # WorksOn(a)
    BY <1>1, <2>1, <2>4 DEF Shown
  <2>. QED
    BY <2>3, <2>4
<1>. QED
  BY <1>2, <1>3

(* Writing a copy back with its status unchanged.                          *)
LEMMA RewriteShows ==
    ASSUME TypeOK, NEW a \in Actors, WorksOn(a) \in Runs, NEW new,
           new.status = Read(a, WorksOn(a)).status, Save(a, WorksOn(a), new),
           NEW r \in Runs, rec'[r].status \in Finished
    PROVE  Shown(r)
BY DEF TypeOK, StoreTypeOK, Save, Read, Shown, CopyShows

LEMMA ApiShows ==
    ASSUME TypeOK, NEW t \in Threads, ApiRequest(t) \/ ApiStep(t),
           NEW r \in Runs, rec'[r].status \in Finished
    PROVE  Shown(r)
<1>1. /\ t \in Actors /\ WorksOn(t) = api[t].run
      /\ api[t].pc # "idle" => api[t].run \in Runs
      /\ rec \in [Runs -> Record]
  BY ActorKinds DEF TypeOK, ApiTypeOK, StoreTypeOK
<1>2. CASE \E q \in Runs : CreateRun(t, q)
  BY <1>1, <1>2 DEF CreateRun, Shown, Record, Finished
<1>3. CASE StartTransition(t) \/ StopBeforeStart(t)
  <2>1. \E s \in {"QUEUED", "CANCELED"} :
           Transition(t, api[t].run, s) \/ Refused(t, api[t].run, s)
    BY <1>3 DEF StartTransition, StopBeforeStart
  <2>2. api[t].run \in Runs /\ {"QUEUED", "CANCELED"} \subseteq Status \ Finished
    BY <1>1, <1>3 DEF StartTransition, StopBeforeStart, Status, Finished
  <2>. QED
    BY <1>1, <2>1, <2>2, TransitionShows
<1>4. CASE StopFlag(t) \/ RewriteDescriptor(t)
  <2>1. api[t].run \in Runs
    BY <1>1, <1>4 DEF StopFlag, RewriteDescriptor
  <2>2. Read(t, api[t].run) \in Record
    BY <1>1, <2>1, ReadType DEF TypeOK
  <2>3. CASE StopFlag(t)
    <3> DEFINE new == [Read(t, api[t].run) EXCEPT !.stop = TRUE, !.cancel = @ \/ api[t].cancel]
    <3>1. Save(t, api[t].run, new)
      BY <2>3 DEF StopFlag
    <3>2. new.status = Read(t, api[t].run).status
      BY <2>2 DEF Record
    <3>. QED
      BY <1>1, <2>1, <3>1, <3>2, RewriteShows
  <2>4. CASE RewriteDescriptor(t)
    BY <1>1, <2>1, <2>4, RewriteShows DEF RewriteDescriptor
  <2>. QED
    BY <1>4, <2>3, <2>4
<1>5. CASE UNCHANGED rec
  BY <1>5 DEF Shown
<1>. QED
  BY <1>2, <1>3, <1>4, <1>5
     DEF ApiRequest, ApiStep, StartRun, UpdateEnvironment, StopRun, StartScan, StartEnqueue

LEMMA WorkerShows ==
    ASSUME TypeOK, MetricsFirst, NEW w \in Workers, WorkerStep(w) \/ WorkerDies(w),
           NEW r \in Runs, rec'[r].status \in Finished
    PROVE  Shown(r) \/ Recorded(r)'
<1>1. /\ w \in Actors /\ WorksOn(w) = wk[w].run
      /\ wk[w].pc # "gone" => wk[w].run \in Runs
      /\ wk[w].final \in Status
  BY ActorKinds DEF TypeOK, WorkerTypeOK, Terminal, Status
<1>2. CASE \/ WorkerMoves(w, "starting", "STARTING", "setup")
           \/ WorkerMoves(w, "running", "RUNNING", "loop")
           \/ WorkerMoves(w, "stopping", "STOPPING", "ended")
           \/ WorkerCancelEarly(w)
  <2>1. \E s \in {"STARTING", "RUNNING", "STOPPING", "CANCELED"} :
           Transition(w, wk[w].run, s) \/ Refused(w, wk[w].run, s)
    BY <1>2 DEF WorkerMoves, WorkerCancelEarly
  <2>2. /\ wk[w].run \in Runs
        /\ {"STARTING", "RUNNING", "STOPPING", "CANCELED"} \subseteq Status \ Finished
    BY <1>1, <1>2 DEF WorkerMoves, WorkerCancelEarly, Status, Finished
  <2>. QED
    BY <1>1, <2>1, <2>2, TransitionShows
<1>3. CASE WorkerFinal(w)
  <2>1. metrics'[wk[w].run] # None /\ wk[w].run \in Runs
    BY <1>1, <1>3 DEF WorkerFinal, MetricsFirst
  <2>2. Shown(r) \/ r = wk[w].run
    BY <1>1, <1>3, <2>1, TransitionShows DEF WorkerFinal
  <2>. QED
    BY <2>1, <2>2 DEF Recorded
<1>4. CASE UNCHANGED rec
  BY <1>4 DEF Shown
<1>. QED
  BY <1>2, <1>3, <1>4
     DEF WorkerStep, WorkerBoot, WorkerSetUp, WorkerLoop, WorkerTick, WorkerDecides,
         WorkerRaises, WorkerCleanup, WorkerFinish, WorkerDies

LEMMA ExecShows ==
    ASSUME TypeOK, ExecStep, NEW r \in Runs, rec'[r].status \in Finished
    PROVE  Shown(r) \/ Recorded(r)'
<1>1. CASE RecoverSave \/ FailLegacy \/ MarkSave
  <2>1. PICK next \in ExecMetrics :
          \/ Transition(Executor, exec.run, "FAILED") /\ ExecGoto(next)
          \/ Refused(Executor, exec.run, "FAILED")
    BY <1>1 DEF RecoverSave, FailLegacy, MarkSave, ExecFails, ExecMetrics
  <2>2. /\ exec.run \in Runs /\ "FAILED" \in Status /\ WorksOn(Executor) = exec.run
        /\ Executor \in Actors
        /\ exec \in [pc: ExecPc, run: Runs \union {None},
                     worker: Workers \union {None}, todo: SUBSET Runs]
    BY <1>1, ActorKinds
       DEF RecoverSave, FailLegacy, MarkSave, ExecFails, TypeOK, ExecTypeOK, Status
  <2>3. CASE Refused(Executor, exec.run, "FAILED")
    BY <2>3 DEF Refused, Shown
  <2>4. CASE Transition(Executor, exec.run, "FAILED") /\ ExecGoto(next)
    <3>1. exec'.pc \in ExecMetrics /\ exec'.run = exec.run
      BY <2>2, <2>4 DEF ExecGoto
    <3>2. Shown(r) \/ r = exec.run
      BY <2>2, <2>4, TransitionShows
    <3>. QED
      BY <3>1, <3>2 DEF Recorded
  <2>. QED
    BY <2>1, <2>3, <2>4
<1>2. CASE UNCHANGED rec
  BY <1>2 DEF Shown
<1>. QED
  BY <1>1, <1>2
     DEF ExecStep, RecoverNext, PopNext, Launch, LaunchLegacy, Reap, MarkGet, WriteMetrics

LEMMA FinishedShown ==
    ASSUME TypeOK, MetricsFirst, [Next]_vars, NEW r \in Runs, rec'[r].status \in Finished
    PROVE  Shown(r) \/ Recorded(r)'
<1>1. CASE \/ UNCHANGED vars \/ ApiRestart \/ ExecStart \/ ExecKilled \/ ExecFetch
           \/ \E t \in Threads : ApiFetch(t)
           \/ \E w \in Workers : WorkerFetch(w)
  <2>1. UNCHANGED rec
    BY <1>1 DEF vars, ApiRestart, ExecStart, ExecKilled, ExecFetch, ApiFetch, WorkerFetch,
                Fetch
  <2>. QED
    BY <2>1 DEF Shown
<1>. QED
  BY <1>1, ApiShows, WorkerShows, ExecShows DEF Next

(* Metrics are written by the worker's clean-up and by the executor, and   *)
(* never taken back.                                                       *)
LEMMA MetricsGrow ==
    ASSUME TypeOK, [Next]_vars, NEW r \in Runs, metrics[r] # None
    PROVE  metrics'[r] # None
<1>1. CASE \E w \in Workers : WorkerCleanup(w)
  BY <1>1, ConstantsAssumption DEF WorkerCleanup, TypeOK, StoreTypeOK, WorkerTypeOK
<1>2. CASE WriteMetrics
  BY <1>2, ConstantsAssumption
     DEF WriteMetrics, MetricsAfterExit, TypeOK, StoreTypeOK, Terminal
<1>3. ASSUME NEW w \in Workers, WorkerStep(w) \/ WorkerDies(w) \/ WorkerFetch(w)
      PROVE  UNCHANGED metrics \/ WorkerCleanup(w)
  BY <1>3
     DEF WorkerStep, WorkerBoot, WorkerCancelEarly, WorkerMoves, WorkerSetUp, WorkerLoop,
         WorkerTick, WorkerDecides, WorkerRaises, WorkerFinish, WorkerFinal, WorkerDies,
         WorkerFetch, Fetch
<1>4. ASSUME NEW t \in Threads, ApiRequest(t) \/ ApiStep(t) \/ ApiFetch(t)
      PROVE  UNCHANGED metrics
  BY <1>4
     DEF ApiRequest, ApiStep, ApiFetch, CreateRun, StartRun, UpdateEnvironment, StopRun,
         StartScan, StartTransition, StartEnqueue, StopBeforeStart, StopFlag,
         RewriteDescriptor, Fetch
<1>5. CASE ExecStep \/ ExecStart \/ ExecFetch \/ ExecKilled \/ ApiRestart
  BY <1>2, <1>5
     DEF ExecStep, ExecStart, ExecFetch, ExecKilled, ApiRestart, RecoverNext, RecoverSave,
         PopNext, Launch, LaunchLegacy, FailLegacy, Reap, MarkGet, MarkSave, ExecFails, Fetch
<1>. QED
  BY <1>1, <1>3, <1>4, <1>5 DEF Next, vars

LEMMA RecordedKept ==
    ASSUME TypeOK, [Next]_vars, ~ExecKilled, NEW r \in Runs, Recorded(r)
    PROVE  Recorded(r)'
<1>1. CASE metrics[r] # None
  BY <1>1, MetricsGrow DEF Recorded
<1>2. CASE exec.pc \in ExecMetrics /\ exec.run = r
  <2>1. CASE UNCHANGED exec
    BY <1>2, <2>1 DEF Recorded
  <2>2. CASE WriteMetrics
    BY <1>2, <2>2, ConstantsAssumption
       DEF WriteMetrics, MetricsAfterExit, Recorded, TypeOK, StoreTypeOK, Terminal
  <2>3. ~ExecStart /\ (ExecStep => WriteMetrics)
    BY <1>2 DEF ExecMetrics, ExecStep, ExecStart, RecoverNext, RecoverSave, PopNext, Launch,
                LaunchLegacy, FailLegacy, Reap, MarkGet, MarkSave, ExecFails
  <2>. QED
    BY <2>1, <2>2, <2>3, ExecutorAlone
<1>. QED
  BY <1>1, <1>2 DEF Recorded

LEMMA MetricsFirstKept ==
    ASSUME TypeOK, MetricsFirst, [Next]_vars
    PROVE  MetricsFirst'
<1>. SUFFICES ASSUME NEW w \in Workers, wk'[w].pc \in {"finish", "final"}
              PROVE  metrics'[wk'[w].run] # None
  BY DEF MetricsFirst
<1>1. /\ wk \in [Workers -> [pc: WorkerPc, run: Runs \union {None},
                             final: Terminal, ok: BOOLEAN]]
      /\ \A v \in Workers : wk[v].pc # "gone" => wk[v].run \in Runs
  BY DEF TypeOK, WorkerTypeOK
<1>2. CASE wk'[w] = wk[w]
  BY <1>1, <1>2, MetricsGrow DEF MetricsFirst
<1>3. CASE WorkerCleanup(w)
  BY <1>1, <1>3, ConstantsAssumption
     DEF WorkerCleanup, WorkerGoto, TypeOK, StoreTypeOK
<1>4. CASE WorkerFinish(w)
  BY <1>1, <1>4 DEF WorkerFinish, WorkerExits, WorkerGoto, MetricsFirst
<1>5. ASSUME WorkerStep(w) \/ WorkerDies(w) \/ Launch(w),
             ~WorkerCleanup(w), ~WorkerFinish(w)
      PROVE  FALSE
  <2>1. \/ \E ok : WorkerExits(w, ok)
        \/ \E p : p \notin {"finish", "final"} /\ WorkerGoto(w, p)
        \/ \E f : WorkerEnds(w, f)
        \/ Launch(w)
    BY <1>5
       DEF WorkerStep, WorkerBoot, WorkerCancelEarly, WorkerMoves, WorkerSetUp, WorkerLoop,
           WorkerTick, WorkerDecides, WorkerRaises, WorkerFinal, WorkerDies
  <2>. QED
    BY <1>1, <2>1 DEF WorkerExits, WorkerGoto, WorkerEnds, Launch
<1>. QED
  BY <1>2, <1>3, <1>4, <1>5, WorkerAlone

LEMMA ShownBefore ==
    ASSUME TypeOK, CopiesHeld, MetricsFirst, [Next]_vars, NEW r \in Runs, Shown(r)'
    PROVE  Shown(r) \/ Recorded(r)'
<1>1. CASE rec'[r].status \in Finished
  BY <1>1, FinishedShown
<1>2. CASE \E b \in Actors : CopyShows(b, r)'
  <2>1. PICK b \in Actors : CopyShows(b, r)'
    BY <1>2
  <2>2. seen'[b] # None /\ WorksOn(b)' = r /\ seen'[b].status \in Finished
    BY <2>1 DEF CopyShows
  <2>3. Still(b) /\ WorksOn(b)' = WorksOn(b)
    BY <2>2, CopiesMove DEF CopyMoves, Still, WorksOn
  <2>4. CASE seen'[b] = seen[b]
    BY <2>2, <2>3, <2>4 DEF CopyShows, Shown
  <2>5. CASE seen'[b] = rec[WorksOn(b)]
    BY <2>2, <2>3, <2>5 DEF Shown
  <2>. QED
    BY <2>2, <2>4, <2>5, CopiesMove DEF CopyMoves
<1>. QED
  BY <1>1, <1>2 DEF Shown

LEMMA LostByKillsKept ==
    ASSUME MetricsInv, [Next]_vars
    PROVE  LostByKills'
<1>1. /\ TypeOK /\ CopiesHeld /\ MetricsFirst
      /\ IsFiniteSet(LostRuns) /\ Cardinality(LostRuns) <= kills /\ kills \in Nat
  BY DEF MetricsInv, LostByKills, TypeOK, AuxTypeOK
<1>2. Cardinality(LostRuns) \in Nat
  BY <1>1, FS_CardinalityType
<1>3. \A r \in LostRuns' : r \in Runs /\ Shown(r)' /\ ~Recorded(r)'
  BY DEF LostRuns
<1>4. CASE ~ExecKilled
  <2>1. LostRuns' \subseteq LostRuns
    BY <1>1, <1>3, <1>4, ShownBefore, RecordedKept DEF LostRuns
  <2>2. IsFiniteSet(LostRuns') /\ Cardinality(LostRuns') <= Cardinality(LostRuns)
    BY <1>1, <2>1, FS_Subset
  <2>3. Cardinality(LostRuns') \in Nat
    BY <2>2, FS_CardinalityType
  <2>4. UNCHANGED kills
    BY <1>4
       DEF Next, vars, ApiRequest, ApiStep, ApiFetch, CreateRun, StartRun, UpdateEnvironment,
           StopRun, StartScan, StartTransition, StartEnqueue, StopBeforeStart, StopFlag,
           RewriteDescriptor, Fetch, ApiRestart, WorkerStep, WorkerBoot, WorkerCancelEarly,
           WorkerMoves, WorkerSetUp, WorkerLoop, WorkerTick, WorkerDecides, WorkerRaises,
           WorkerCleanup, WorkerFinish, WorkerFinal, WorkerDies, WorkerFetch, ExecStep,
           ExecStart, ExecFetch, RecoverNext, RecoverSave, PopNext, Launch, LaunchLegacy,
           FailLegacy, Reap, MarkGet, MarkSave, WriteMetrics, ExecFails, aux, bounds
  <2>. QED
    BY <1>1, <1>2, <2>2, <2>3, <2>4 DEF LostByKills
<1>5. CASE ExecKilled
  <2> DEFINE More == LostRuns \union {exec.run}
  <2>1. LostRuns' \subseteq More
    <3>. SUFFICES ASSUME NEW r \in LostRuns', r # exec.run PROVE r \in LostRuns
      OBVIOUS
    <3>1. r \in Runs /\ Shown(r) /\ metrics'[r] = None
      BY <1>1, <1>3, ShownBefore DEF Recorded
    <3>2. ~Recorded(r)
      BY <1>5, <3>1 DEF ExecKilled, Recorded
    <3>. QED
      BY <3>1, <3>2 DEF LostRuns
  <2>2. /\ IsFiniteSet(More) /\ Cardinality(More) <= Cardinality(LostRuns) + 1
        /\ Cardinality(More) \in Nat
    <3>1. /\ IsFiniteSet(More)
          /\ Cardinality(More) =
               IF exec.run \in LostRuns THEN Cardinality(LostRuns)
                                        ELSE Cardinality(LostRuns) + 1
      BY <1>1, FS_AddElement
    <3>. QED
      BY <1>2, <3>1
  <2>3. IsFiniteSet(LostRuns') /\ Cardinality(LostRuns') <= Cardinality(More)
    BY <2>1, <2>2, FS_Subset
  <2>4. Cardinality(LostRuns') \in Nat
    BY <2>3, FS_CardinalityType
  <2>5. kills' = kills + 1
    BY <1>5 DEF ExecKilled
  <2>. QED
    BY <1>1, <1>2, <2>2, <2>3, <2>4, <2>5 DEF LostByKills
<1>. QED
  BY <1>4, <1>5

LEMMA MetricsInvKept == MetricsInv /\ [Next]_vars => MetricsInv'
BY NextType, CopiesHeldKept, MetricsFirstKept, LostByKillsKept DEF MetricsInv

(* Whatever overlaps, dies or is restarted, a run that ended COMPLETED or  *)
(* FAILED and on which the executor does not work any more has a metrics   *)
(* file, except for at most one run per kill of the executor.              *)
THEOREM FinishedRunsKeepMetrics == Spec => []FinishedRunHasMetrics
<1>1. Init => MetricsInv
  <2>. SUFFICES ASSUME Init PROVE MetricsInv
    OBVIOUS
  <2>1. TypeOK /\ CopiesHeld /\ MetricsFirst
    BY InitType DEF Init, CopiesHeld, MetricsFirst
  <2>2. LostRuns = {}
    BY DEF Init, LostRuns, Shown, CopyShows, Finished, Absent
  <2>. QED
    BY <2>1, <2>2, FS_EmptySet DEF Init, MetricsInv, LostByKills
<1>2. MetricsInv /\ [Next]_vars => MetricsInv'
  BY MetricsInvKept
<1>3. MetricsInv => FinishedRunHasMetrics
  <2>. SUFFICES ASSUME MetricsInv PROVE FinishedRunHasMetrics
    OBVIOUS
  <2>1. WithoutMetrics \subseteq LostRuns
    BY DEF WithoutMetrics, LostRuns, Shown, Recorded, Finished
  <2>2. IsFiniteSet(LostRuns) /\ Cardinality(LostRuns) <= kills /\ kills \in Nat
    BY DEF MetricsInv, LostByKills, TypeOK, AuxTypeOK
  <2>3. IsFiniteSet(WithoutMetrics) /\ Cardinality(WithoutMetrics) <= Cardinality(LostRuns)
    BY <2>1, <2>2, FS_Subset
  <2>4. Cardinality(LostRuns) \in Nat /\ Cardinality(WithoutMetrics) \in Nat
    BY <2>2, <2>3, FS_CardinalityType
  <2>. QED
    BY <2>2, <2>3, <2>4 DEF FinishedRunHasMetrics
<1>. QED
  BY <1>1, <1>2, <1>3, PTL DEF Spec

===============================================================================
