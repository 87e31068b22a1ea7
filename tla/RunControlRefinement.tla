------------------------- MODULE RunControlRefinement -------------------------
(***************************************************************************)
(* As long as the calls of RunStore have not overlapped, RunControl        *)
(* implements RunLifecycle: whatever the API threads, the executor, its    *)
(* recoveries and its workers do to the record files, and whatever is      *)
(* killed, a run appears as CREATED and moves along the table of           *)
(* state_machine.py, so that a finished run stays finished.                *)
(***************************************************************************)
EXTENDS RunControl, TLAPS

-------------------------------------------------------------------------------
(* Type correctness, for every set of runs, threads and workers and every  *)
(* value of the bounds.                                                    *)

(* The calls of RunStore keep the types of the record files and copies.    *)
LEMMA SaveType ==
    ASSUME StoreTypeOK, NEW a \in Actors, NEW r \in Runs, NEW new \in Record,
           Save(a, r, new), UNCHANGED <<queue, metrics>>
    PROVE  StoreTypeOK'
BY DEF Save, StoreTypeOK

LEMMA ReadType ==
    ASSUME StoreTypeOK, NEW a \in Actors, NEW r \in Runs
    PROVE  Read(a, r) \in Record
BY DEF Read, StoreTypeOK

LEMMA TransitionType ==
    ASSUME StoreTypeOK, NEW a \in Actors, NEW r \in Runs, NEW s \in Status,
           Transition(a, r, s) \/ Refused(a, r, s)
    PROVE  rec' \in [Runs -> Record] /\ seen' \in [Actors -> Record \union {None}]
<1>1. CASE Transition(a, r, s)
  <2>1. [Read(a, r) EXCEPT !.status = s] \in Record
    BY ReadType DEF Record
  <2>. QED
    BY <1>1, <2>1 DEF Transition, Save, StoreTypeOK
<1>2. CASE Refused(a, r, s)
  BY <1>2 DEF Refused, StoreTypeOK
<1>. QED
  BY <1>1, <1>2

LEMMA FetchType ==
    ASSUME StoreTypeOK, AuxTypeOK, NEW a \in Actors, NEW r \in Runs, Fetch(a, r)
    PROVE  StoreTypeOK' /\ AuxTypeOK'
BY DEF Fetch, StoreTypeOK, AuxTypeOK

LEMMA FlaggedType ==
    ASSUME NEW x \in Record, NEW b \in BOOLEAN
    PROVE  [x EXCEPT !.stop = TRUE, !.cancel = b] \in Record
BY DEF Record

(* What an API thread, a worker or the executor does to its own locals.    *)
LEMMA ApiCallType ==
    ASSUME ApiTypeOK, NEW t \in Threads, NEW r \in Runs, NEW c \in BOOLEAN,
           NEW p \in ApiPc, ApiCall(t, p, r, c)
    PROVE  ApiTypeOK'
BY DEF ApiCall, ApiTypeOK

LEMMA ApiReturnsType ==
    ASSUME ApiTypeOK, NEW t \in Threads, ApiReturns(t)
    PROVE  ApiTypeOK'
BY DEF ApiReturns, ApiCall, ApiTypeOK, ApiPc

LEMMA ApiGotoType ==
    ASSUME ApiTypeOK, NEW t \in Threads, NEW p \in ApiPc, ApiGoto(t, p),
           api[t].pc # "idle"
    PROVE  ApiTypeOK'
BY DEF ApiGoto, ApiTypeOK

(* The parts of the type invariant that a step does not touch.             *)
LEMMA Untouched ==
    /\ StoreTypeOK /\ UNCHANGED <<rec, queue, metrics, seen>> => StoreTypeOK'
    /\ ApiTypeOK /\ UNCHANGED api => ApiTypeOK'
    /\ WorkerTypeOK /\ UNCHANGED wk => WorkerTypeOK'
    /\ ExecTypeOK /\ UNCHANGED exec => ExecTypeOK'
    /\ AuxTypeOK /\ UNCHANGED aux => AuxTypeOK'
BY DEF StoreTypeOK, ApiTypeOK, WorkerTypeOK, ExecTypeOK, AuxTypeOK, aux, bounds

LEMMA ApiRequestType ==
    ASSUME TypeOK, NEW t \in Threads, ApiRequest(t)
    PROVE  TypeOK'
<1>1. PICK r \in Runs :
        \/ CreateRun(t, r) \/ StartRun(t, r) \/ UpdateEnvironment(t, r)
        \/ \E cancel \in BOOLEAN : StopRun(t, r, cancel)
  BY DEF ApiRequest
<1>2. UNCHANGED <<queue, metrics, wk, exec, seen, aux>>
  BY <1>1 DEF CreateRun, StartRun, UpdateEnvironment, StopRun
<1>3. WorkerTypeOK' /\ ExecTypeOK' /\ AuxTypeOK'
  BY <1>2, Untouched DEF TypeOK
<1>4. CASE CreateRun(t, r)
  <2>1. [rec[r] EXCEPT !.status = "CREATED"] \in Record
    BY DEF TypeOK, StoreTypeOK, Record, Status
  <2>2. StoreTypeOK' /\ ApiTypeOK'
    BY <1>2, <1>4, <2>1, Untouched DEF CreateRun, TypeOK, StoreTypeOK
  <2>. QED
    BY <1>3, <2>2 DEF TypeOK
<1>5. CASE ~CreateRun(t, r)
  <2>1. UNCHANGED rec
    BY <1>1, <1>5 DEF StartRun, UpdateEnvironment, StopRun
  <2>2. PICK p \in ApiPc, c \in BOOLEAN : ApiCall(t, p, r, c)
    BY <1>1, <1>5 DEF StartRun, UpdateEnvironment, StopRun, ApiPc
  <2>3. ApiTypeOK'
    BY <2>2, ApiCallType DEF TypeOK
  <2>4. StoreTypeOK'
    BY <1>2, <2>1, Untouched DEF TypeOK
  <2>. QED
    BY <1>3, <2>3, <2>4 DEF TypeOK
<1>. QED
  BY <1>4, <1>5

LEMMA ApiStepType ==
    ASSUME TypeOK, NEW t \in Threads, ApiStep(t)
    PROVE  TypeOK'
<1>r. t \in Actors /\ (api[t].pc # "idle" => api[t].run \in Runs)
  BY DEF Actors, TypeOK, ApiTypeOK
<1>u. UNCHANGED <<metrics, wk, exec, overlaps, kills, apiRestarts, executed, faulted>>
  BY DEF ApiStep, StartScan, StartTransition, StartEnqueue, StopBeforeStart,
         StopFlag, RewriteDescriptor, aux, bounds
<1>w. WorkerTypeOK' /\ ExecTypeOK'
  BY <1>u, Untouched DEF TypeOK
<1>1. CASE StartScan(t)
  <2>1. ApiTypeOK'
    BY <1>1, ApiReturnsType, ApiGotoType DEF StartScan, ApiPc, TypeOK
  <2>. QED
    BY <1>1, <1>w, <2>1, Untouched DEF StartScan, TypeOK
<1>2. CASE StartTransition(t)
  <2>1. ApiTypeOK'
    BY <1>2, ApiReturnsType, ApiGotoType DEF StartTransition, ApiPc, TypeOK
  <2>2. rec' \in [Runs -> Record] /\ seen' \in [Actors -> Record \union {None}]
    BY <1>2, <1>r, TransitionType DEF StartTransition, TypeOK, Status
  <2>3. StoreTypeOK' /\ AuxTypeOK'
    BY <1>2, <2>2, Untouched DEF StartTransition, TypeOK, StoreTypeOK
  <2>. QED
    BY <1>w, <2>1, <2>3 DEF TypeOK
<1>3. CASE StartEnqueue(t)
  <2>1. ApiTypeOK' /\ AuxTypeOK'
    BY <1>3, ApiReturnsType, Untouched DEF StartEnqueue, TypeOK
  <2>2. StoreTypeOK'
    BY <1>3, <1>r DEF StartEnqueue, Enqueue, TypeOK, StoreTypeOK
  <2>. QED
    BY <1>w, <2>1, <2>2 DEF TypeOK
<1>4. CASE StopBeforeStart(t)
  <2>1. ApiTypeOK'
    BY <1>4, ApiReturnsType DEF StopBeforeStart, TypeOK
  <2>2. rec' \in [Runs -> Record] /\ seen' \in [Actors -> Record \union {None}]
    BY <1>4, <1>r, TransitionType DEF StopBeforeStart, TypeOK, Status
  <2>3. StoreTypeOK'
    BY <1>4, <2>2 DEF StopBeforeStart, TypeOK, StoreTypeOK
  <2>4. AuxTypeOK'
    BY <1>4, <1>r DEF StopBeforeStart, TypeOK, AuxTypeOK, bounds
  <2>. QED
    BY <1>w, <2>1, <2>3, <2>4 DEF TypeOK
<1>5. CASE StopFlag(t)
  <2> DEFINE r == api[t].run
             new == [Read(t, r) EXCEPT !.stop = TRUE, !.cancel = @ \/ api[t].cancel]
  <2>1. ApiTypeOK' /\ r \in Runs
    BY <1>5, <1>r, ApiReturnsType DEF StopFlag, TypeOK
  <2>2. new \in Record
    <3>1. Read(t, r) \in Record
      BY <1>r, <2>1, ReadType DEF TypeOK
    <3>2. (Read(t, r).cancel \/ api[t].cancel) \in BOOLEAN
      OBVIOUS
    <3>. QED
      BY <3>1, <3>2, FlaggedType
  <2>3. Save(t, r, new) /\ UNCHANGED <<queue, metrics>>
    BY <1>5 DEF StopFlag
  <2>4. StoreTypeOK'
    BY <1>r, <2>1, <2>2, <2>3, SaveType DEF TypeOK
  <2>5. AuxTypeOK'
    BY <1>5, <2>1 DEF StopFlag, TypeOK, AuxTypeOK, bounds
  <2>. QED
    BY <1>w, <2>1, <2>4, <2>5 DEF TypeOK
<1>6. CASE RewriteDescriptor(t)
  <2>1. ApiTypeOK' /\ AuxTypeOK'
    BY <1>6, ApiReturnsType, Untouched DEF RewriteDescriptor, TypeOK
  <2>2. StoreTypeOK'
    BY <1>6, <1>r, ReadType, SaveType DEF RewriteDescriptor, TypeOK
  <2>. QED
    BY <1>w, <2>1, <2>2 DEF TypeOK
<1>. QED
  BY <1>1, <1>2, <1>3, <1>4, <1>5, <1>6 DEF ApiStep

LEMMA WorkerGotoType ==
    ASSUME WorkerTypeOK, NEW w \in Workers, NEW p \in WorkerPc, WorkerGoto(w, p),
           wk[w].pc # "gone"
    PROVE  WorkerTypeOK'
BY DEF WorkerGoto, WorkerTypeOK

LEMMA WorkerEndsType ==
    ASSUME WorkerTypeOK, NEW w \in Workers, NEW f \in Terminal, WorkerEnds(w, f),
           wk[w].pc # "gone"
    PROVE  WorkerTypeOK'
BY DEF WorkerEnds, WorkerTypeOK, WorkerPc

LEMMA WorkerExitsType ==
    ASSUME WorkerTypeOK, NEW w \in Workers, NEW ok \in BOOLEAN, WorkerExits(w, ok)
    PROVE  WorkerTypeOK'
BY DEF WorkerExits, WorkerTypeOK, WorkerPc, Terminal

(* A transition by a worker that leaves the queue and the metrics alone.   *)
LEMMA WorkerTransitionType ==
    ASSUME TypeOK, NEW w \in Workers, wk[w].pc # "gone", NEW s \in Status,
           Transition(w, wk[w].run, s) \/ Refused(w, wk[w].run, s),
           UNCHANGED <<queue, metrics>>
    PROVE  StoreTypeOK'
<1>1. w \in Actors /\ wk[w].run \in Runs
  BY DEF Actors, TypeOK, WorkerTypeOK
<1>2. rec' \in [Runs -> Record] /\ seen' \in [Actors -> Record \union {None}]
  BY <1>1, TransitionType DEF TypeOK
<1>. QED
  BY <1>2 DEF TypeOK, StoreTypeOK

LEMMA WorkerMovesType ==
    ASSUME TypeOK, NEW w \in Workers, NEW from \in WorkerPc \ {"gone"},
           NEW target \in Status, NEW next \in WorkerPc,
           WorkerMoves(w, from, target, next)
    PROVE  TypeOK'
<1>1. wk[w].pc # "gone" /\ "FAILED" \in Terminal
  BY DEF WorkerMoves, Terminal
<1>2. StoreTypeOK'
  BY <1>1, WorkerTransitionType DEF WorkerMoves
<1>3. WorkerTypeOK'
  BY <1>1, WorkerGotoType, WorkerEndsType DEF WorkerMoves, TypeOK
<1>. QED
  BY <1>2, <1>3, Untouched DEF WorkerMoves, TypeOK

(* The worker's steps that leave every record and the metrics alone.       *)
LEMMA WorkerLocalType ==
    ASSUME TypeOK, NEW w \in Workers,
           \/ WorkerBoot(w) \/ WorkerSetUp(w) \/ WorkerLoop(w) \/ WorkerTick(w)
           \/ WorkerDecides(w) \/ WorkerRaises(w) \/ WorkerFinish(w)
    PROVE  TypeOK'
<1>1. /\ UNCHANGED <<rec, queue, metrics, api, exec, seen>>
      /\ wk[w].pc # "gone" /\ wk[w].run \in Runs
  BY DEF WorkerBoot, WorkerSetUp, WorkerLoop, WorkerTick, WorkerDecides,
         WorkerRaises, WorkerFinish, TypeOK, WorkerTypeOK
<1>2. StoreTypeOK' /\ ApiTypeOK' /\ ExecTypeOK'
  BY <1>1, Untouched DEF TypeOK
<1>3. AuxTypeOK'
  <2>1. CASE WorkerBoot(w)
    <3>1. UNCHANGED <<overlaps, kills, apiRestarts, faulted, asked>>
      BY <2>1 DEF WorkerBoot, bounds
    <3>2. executed' \in [Runs -> Nat]
      <4>1. \/ UNCHANGED executed
            \/ executed' = [executed EXCEPT ![wk[w].run] = @ + 1]
        BY <2>1 DEF WorkerBoot
      <4>. QED
        BY <1>1, <4>1 DEF TypeOK, AuxTypeOK
    <3>. QED
      BY <3>1, <3>2 DEF TypeOK, AuxTypeOK
  <2>2. CASE WorkerRaises(w)
    BY <1>1, <2>2 DEF WorkerRaises, TypeOK, AuxTypeOK, bounds
  <2>3. CASE ~WorkerBoot(w) /\ ~WorkerRaises(w)
    BY <2>3, Untouched
       DEF WorkerSetUp, WorkerLoop, WorkerTick, WorkerDecides, WorkerFinish, TypeOK
  <2>. QED
    BY <2>1, <2>2, <2>3
<1>4. \/ \E p \in WorkerPc : WorkerGoto(w, p)
      \/ \E f \in Terminal : WorkerEnds(w, f)
      \/ \E ok \in BOOLEAN : WorkerExits(w, ok)
  BY DEF WorkerBoot, WorkerSetUp, WorkerLoop, WorkerTick, WorkerDecides,
         WorkerRaises, WorkerFinish, WorkerPc, Terminal
<1>5. WorkerTypeOK'
  BY <1>1, <1>4, WorkerGotoType, WorkerEndsType, WorkerExitsType DEF TypeOK
<1>. QED
  BY <1>2, <1>3, <1>5 DEF TypeOK

LEMMA WorkerStepType ==
    ASSUME TypeOK, NEW w \in Workers, WorkerStep(w)
    PROVE  TypeOK'
<1>1. CASE \/ WorkerMoves(w, "starting", "STARTING", "setup")
           \/ WorkerMoves(w, "running", "RUNNING", "loop")
           \/ WorkerMoves(w, "stopping", "STOPPING", "ended")
  BY <1>1, WorkerMovesType DEF WorkerPc, Status
<1>2. CASE WorkerCancelEarly(w) \/ WorkerFinal(w)
  <2>1. /\ wk[w].pc # "gone" /\ wk[w].final \in Status /\ "CANCELED" \in Status
        /\ UNCHANGED <<queue, metrics, api, exec, aux>>
    BY <1>2 DEF WorkerCancelEarly, WorkerFinal, TypeOK, WorkerTypeOK, Terminal, Status
  <2>2. StoreTypeOK'
    BY <1>2, <2>1, WorkerTransitionType DEF WorkerCancelEarly, WorkerFinal
  <2>3. WorkerTypeOK'
    BY <1>2, WorkerExitsType DEF WorkerCancelEarly, WorkerFinal, TypeOK
  <2>. QED
    BY <2>1, <2>2, <2>3, Untouched DEF TypeOK
<1>3. CASE WorkerCleanup(w)
  <2>1. WorkerTypeOK'
    BY <1>3, WorkerGotoType DEF WorkerCleanup, WorkerPc, TypeOK
  <2>2. wk[w].run \in Runs /\ wk[w].final \in Terminal
    BY <1>3 DEF WorkerCleanup, TypeOK, WorkerTypeOK
  <2>3. StoreTypeOK'
    BY <1>3, <2>2 DEF WorkerCleanup, TypeOK, StoreTypeOK
  <2>. QED
    BY <1>3, <2>1, <2>3, Untouched DEF WorkerCleanup, TypeOK
<1>. QED
  BY <1>1, <1>2, <1>3, WorkerLocalType DEF WorkerStep

LEMMA WorkerDiesType ==
    ASSUME TypeOK, NEW w \in Workers, WorkerDies(w)
    PROVE  TypeOK'
<1>1. WorkerTypeOK' /\ wk[w].run \in Runs
  BY WorkerExitsType DEF WorkerDies, TypeOK, WorkerTypeOK
<1>2. StoreTypeOK' /\ AuxTypeOK'
  BY <1>1 DEF WorkerDies, TypeOK, StoreTypeOK, AuxTypeOK, bounds
<1>. QED
  BY <1>1, <1>2, Untouched DEF WorkerDies, TypeOK

(* A transition by the executor.                                           *)
LEMMA ExecTransitionType ==
    ASSUME TypeOK, exec.run \in Runs, NEW s \in Status,
           Transition(Executor, exec.run, s) \/ Refused(Executor, exec.run, s),
           UNCHANGED <<queue, metrics>>
    PROVE  StoreTypeOK'
<1>1. Executor \in Actors
  BY DEF Actors
<1>2. rec' \in [Runs -> Record] /\ seen' \in [Actors -> Record \union {None}]
  BY <1>1, TransitionType DEF TypeOK
<1>. QED
  BY <1>2 DEF TypeOK, StoreTypeOK

LEMMA ExecGotoType ==
    ASSUME ExecTypeOK,
           \/ ExecReady \/ ExecExits
           \/ exec.run \in Runs /\ \E p \in ExecPc \ {"wait"} : ExecGoto(p)
    PROVE  ExecTypeOK'
<1>1. CASE ExecReady
  BY <1>1 DEF ExecReady, ExecTypeOK, ExecPc
<1>2. CASE ExecExits
  BY <1>2 DEF ExecExits, ExecTypeOK, ExecPc
<1>3. CASE exec.run \in Runs /\ \E p \in ExecPc \ {"wait"} : ExecGoto(p)
  BY <1>3 DEF ExecGoto, ExecTypeOK
<1>. QED
  BY <1>1, <1>2, <1>3

(* Marking a run FAILED, and then writing its metrics.                     *)
LEMMA ExecFailsType ==
    ASSUME TypeOK, RecoverSave \/ FailLegacy \/ MarkSave
    PROVE  TypeOK'
<1>1. exec.run \in Runs /\ UNCHANGED <<queue, metrics, api, wk, aux>>
  BY DEF RecoverSave, FailLegacy, MarkSave, ExecFails, TypeOK, ExecTypeOK
<1>2. Transition(Executor, exec.run, "FAILED") \/ Refused(Executor, exec.run, "FAILED")
  BY DEF RecoverSave, FailLegacy, MarkSave, ExecFails
<1>3. StoreTypeOK'
  BY <1>1, <1>2, ExecTransitionType DEF Status
<1>4. ExecExits \/ \E p \in ExecPc \ {"wait"} : ExecGoto(p)
  BY DEF RecoverSave, FailLegacy, MarkSave, ExecFails, ExecPc
<1>5. ExecTypeOK'
  BY <1>1, <1>4, ExecGotoType DEF TypeOK
<1>. QED
  BY <1>1, <1>3, <1>5, Untouched DEF TypeOK

LEMMA WriteMetricsType ==
    ASSUME TypeOK, WriteMetrics
    PROVE  TypeOK'
<1>1. exec.run \in Runs /\ UNCHANGED <<rec, queue, api, wk, seen, aux>>
  BY DEF WriteMetrics, TypeOK, ExecTypeOK
<1>2. metrics \in [Runs -> Terminal \union {None}] /\ "FAILED" \in Terminal
  BY DEF TypeOK, StoreTypeOK, Terminal
<1>3. \E m \in Terminal \union {None} : metrics' = [metrics EXCEPT ![exec.run] = m]
  BY <1>1, <1>2 DEF WriteMetrics, MetricsAfterExit
<1>4. StoreTypeOK'
  BY <1>1, <1>2, <1>3 DEF TypeOK, StoreTypeOK
<1>5. ExecTypeOK'
  <2>1. CASE exec' = [exec EXCEPT !.pc = "recover", !.run = None]
    BY <2>1 DEF TypeOK, ExecTypeOK, ExecPc
  <2>2. CASE ExecReady
    BY <2>2, ExecGotoType DEF TypeOK
  <2>. QED
    BY <2>1, <2>2 DEF WriteMetrics
<1>. QED
  BY <1>1, <1>4, <1>5, Untouched DEF TypeOK

LEMMA ExecLocalType ==
    ASSUME TypeOK, ExecStart \/ RecoverNext \/ LaunchLegacy \/ Reap \/ MarkGet
    PROVE  TypeOK'
<1>1. UNCHANGED <<rec, queue, metrics, api, wk, seen, aux>>
  BY DEF ExecStart, RecoverNext, LaunchLegacy, Reap, MarkGet
<1>2. ExecTypeOK'
  <2>1. CASE ExecStart
    BY <2>1 DEF ExecStart, TypeOK, ExecTypeOK, ExecPc
  <2>2. CASE RecoverNext
    <3>1. CASE ExecReady
      BY <3>1, ExecGotoType DEF TypeOK
    <3>2. CASE ~ExecReady
      BY <2>2, <3>2 DEF RecoverNext, TypeOK, ExecTypeOK, ExecPc
    <3>. QED
      BY <3>1, <3>2
  <2>3. CASE LaunchLegacy \/ Reap \/ MarkGet
    <3>1. exec.run \in Runs
      BY <2>3 DEF LaunchLegacy, Reap, MarkGet, TypeOK, ExecTypeOK
    <3>2. ExecReady \/ \E p \in ExecPc \ {"wait"} : ExecGoto(p)
      BY <2>3 DEF LaunchLegacy, Reap, MarkGet, ExecPc
    <3>. QED
      BY <3>1, <3>2, ExecGotoType DEF TypeOK
  <2>. QED
    BY <2>1, <2>2, <2>3
<1>. QED
  BY <1>1, <1>2, Untouched DEF TypeOK

LEMMA ExecStepType ==
    ASSUME TypeOK, ExecStep \/ ExecStart
    PROVE  TypeOK'
<1>1. CASE PopNext
  <2>1. Head(queue) \in Runs /\ Tail(queue) \in Seq(Runs)
    BY <1>1 DEF PopNext, TypeOK, StoreTypeOK
  <2>2. StoreTypeOK'
    BY <1>1, <2>1 DEF PopNext, TypeOK, StoreTypeOK
  <2>3. ExecTypeOK'
    BY <1>1, <2>1 DEF PopNext, TypeOK, ExecTypeOK, ExecPc
  <2>. QED
    BY <1>1, <2>2, <2>3, Untouched DEF PopNext, TypeOK
<1>2. CASE \E w \in Workers : Launch(w)
  <2>1. PICK w \in Workers : Launch(w)
    BY <1>2
  <2>2. exec.run \in Runs
    BY <2>1 DEF Launch, TypeOK, ExecTypeOK
  <2>3. WorkerTypeOK'
    BY <2>1, <2>2 DEF Launch, TypeOK, WorkerTypeOK, WorkerPc, Terminal
  <2>4. ExecTypeOK'
    BY <2>1, <2>2 DEF Launch, WaitFor, TypeOK, ExecTypeOK, ExecPc
  <2>. QED
    BY <2>1, <2>3, <2>4, Untouched DEF Launch, TypeOK
<1>. QED
  BY <1>1, <1>2, ExecFailsType, WriteMetricsType, ExecLocalType DEF ExecStep

(* The get of a split update, and the processes that are killed.           *)
LEMMA FetchStepType ==
    ASSUME TypeOK,
           \/ \E t \in Threads : ApiFetch(t)
           \/ \E w \in Workers : WorkerFetch(w)
           \/ ExecFetch
    PROVE  TypeOK'
<1>1. PICK a \in Actors, r \in Runs : Fetch(a, r)
  BY DEF ApiFetch, WorkerFetch, ExecFetch, Actors, TypeOK, ApiTypeOK, WorkerTypeOK,
         ExecTypeOK, ApiUpdate, WorkerUpdate, ExecUpdate
<1>2. StoreTypeOK' /\ AuxTypeOK'
  BY <1>1, FetchType DEF TypeOK
<1>. QED
  BY <1>1, <1>2, Untouched DEF Fetch, TypeOK

LEMMA RestartType ==
    ASSUME TypeOK, ApiRestart \/ ExecKilled
    PROVE  TypeOK'
<1>1. CASE ApiRestart
  <2>1. StoreTypeOK' /\ ApiTypeOK' /\ AuxTypeOK'
    BY <1>1 DEF ApiRestart, TypeOK, StoreTypeOK, ApiTypeOK, AuxTypeOK, ApiPc
  <2>. QED
    BY <1>1, <2>1, Untouched DEF ApiRestart, TypeOK
<1>2. CASE ExecKilled
  <2>1. ExecTypeOK'
    BY <1>2, ExecGotoType DEF ExecKilled, TypeOK
  <2>2. StoreTypeOK'
    BY <1>2 DEF ExecKilled, TypeOK, StoreTypeOK, Actors
  <2>3. AuxTypeOK'
    BY <1>2 DEF ExecKilled, TypeOK, AuxTypeOK
  <2>. QED
    BY <1>2, <2>1, <2>2, <2>3, Untouched DEF ExecKilled, TypeOK
<1>. QED
  BY <1>1, <1>2

LEMMA InitType == Init => TypeOK
<1>. SUFFICES ASSUME Init PROVE TypeOK
  OBVIOUS
<1>1. StoreTypeOK
  BY DEF Init, StoreTypeOK, Record
<1>2. ApiTypeOK /\ WorkerTypeOK
  BY DEF Init, ApiTypeOK, WorkerTypeOK, ApiPc, WorkerPc, Terminal
<1>3. ExecTypeOK /\ AuxTypeOK
  BY DEF Init, ExecTypeOK, ExecPc, AuxTypeOK
<1>. QED
  BY <1>1, <1>2, <1>3 DEF TypeOK

LEMMA NextType == TypeOK /\ [Next]_vars => TypeOK'
<1>. SUFFICES ASSUME TypeOK, [Next]_vars PROVE TypeOK'
  OBVIOUS
<1>1. CASE UNCHANGED vars
  BY <1>1, Untouched DEF vars, TypeOK
<1>2. CASE Next
  BY <1>2, ApiRequestType, ApiStepType, WorkerStepType, WorkerDiesType, ExecStepType,
     FetchStepType, RestartType DEF Next
<1>. QED
  BY <1>1, <1>2

(* Every reachable state of RunControl is well typed: whoever is busy has  *)
(* a run, and an executor that waits has a worker (ExecutorService         *)
(* dereferences its process and its run id without a check).               *)
THEOREM TypeCorrect == Spec => []TypeOK
BY InitType, NextType, PTL DEF Spec

-------------------------------------------------------------------------------
(* The refinement.                                                         *)

Exists(r) == rec[r].status # Absent
Begun(r) == rec[r].status \notin {Absent, "CREATED"}

NoSplit == \A a \in Actors : seen[a] = None

(* A request found the record of its run; whoever works on a run works on  *)
(* one that has been queued, whatever became of it since.                  *)
ApiRunsExist == \A t \in Threads : api[t].pc # "idle" => Exists(api[t].run)
EnqueuedRunsBegun == \A t \in Threads : api[t].pc = "enqueue" => Begun(api[t].run)
WorkerRunsBegun == \A w \in Workers : wk[w].pc # "gone" => Begun(wk[w].run)
ExecRunsBegun ==
    /\ exec.pc \notin {"down", "recover", "idle"} => Begun(exec.run)
    /\ \A r \in exec.todo : Begun(r)
QueuedRunsBegun == \A i \in 1 .. Len(queue) : Begun(queue[i])

RefinementInv ==
    /\ TypeOK
    /\ NoSplit
    /\ ApiRunsExist /\ EnqueuedRunsBegun
    /\ WorkerRunsBegun /\ ExecRunsBegun /\ QueuedRunsBegun

-------------------------------------------------------------------------------
(* The abstract module reads the same table.                               *)
LEMMA SameTable ==
    /\ Lifecycle!Status = Status /\ Lifecycle!Absent = Absent
    /\ Lifecycle!AllowedTransitions = AllowedTransitions
BY DEF Lifecycle!Status, Status, Lifecycle!Absent, Absent,
       Lifecycle!AllowedTransitions, AllowedTransitions

LEMMA TransitionTableType == AllowedTransitions \in [Status -> SUBSET Status]
BY DEF AllowedTransitions, Status

(* No status of the table is the absence of a record, and none leads back  *)
(* to CREATED: a record that exists keeps existing, a run that was queued  *)
(* has been queued for good.                                               *)
LEMMA StatusesKept ==
    ASSUME TypeOK, [Lifecycle!Next]_Statuses, NEW r \in Runs
    PROVE  (Exists(r) => Exists(r)') /\ (Begun(r) => Begun(r)')
<1>1. Absent \notin Status
  BY DEF Absent, Status
<1>2. CASE UNCHANGED Statuses
  BY <1>2 DEF Statuses, Exists, Begun
<1>3. CASE Lifecycle!Next
  <2>1. PICK q \in Runs : Lifecycle!Create(q) \/ Lifecycle!Move(q)
    BY <1>3 DEF Lifecycle!Next
  <2>2. CASE Lifecycle!Create(q)
    BY <2>2, SameTable DEF Lifecycle!Create, Statuses, Exists, Begun, Absent
  <2>3. CASE Lifecycle!Move(q)
    <3>1. PICK s \in AllowedTransitions[Statuses[q]] :
            /\ Statuses[q] \in Status
            /\ Statuses' = [Statuses EXCEPT ![q] = s]
      BY <2>3, SameTable DEF Lifecycle!Move
    <3>2. s \in Status \ {"CREATED"}
      BY <3>1 DEF AllowedTransitions, Status
    <3>. QED
      BY <1>1, <3>1, <3>2 DEF Statuses, Exists, Begun
  <2>. QED
    BY <2>1, <2>2, <2>3
<1>. QED
  BY <1>2, <1>3

(* What an update that is not split writes.                                *)
LEMMA TransitionEffect ==
    ASSUME RefinementInv, NEW a \in Actors, NEW r \in Runs, NEW s \in Status
    PROVE  /\ Transition(a, r, s) => /\ ValidTransition(rec[r].status, s)
                                     /\ Statuses' = [Statuses EXCEPT ![r] = s]
           /\ Refused(a, r, s) => /\ ~ValidTransition(rec[r].status, s)
                                  /\ Statuses' = Statuses
<1>1. rec \in [Runs -> Record] /\ Read(a, r) = rec[r]
  BY DEF RefinementInv, TypeOK, StoreTypeOK, NoSplit, Read
<1>2. ASSUME Transition(a, r, s)
      PROVE  /\ ValidTransition(rec[r].status, s)
             /\ Statuses' = [Statuses EXCEPT ![r] = s]
  <2>1. /\ ValidTransition(rec[r].status, s)
        /\ rec' = [rec EXCEPT ![r] = [rec[r] EXCEPT !.status = s]]
    BY <1>1, <1>2 DEF Transition, Accepts, Save
  <2>. QED
    BY <1>1, <2>1 DEF Statuses, Record
<1>3. ASSUME Refused(a, r, s)
      PROVE  ~ValidTransition(rec[r].status, s) /\ Statuses' = Statuses
  BY <1>1, <1>3 DEF Refused, Accepts, Statuses
<1>. QED
  BY <1>2, <1>3

LEMMA TransitionMoves ==
    ASSUME TypeOK, NoSplit, NEW a \in Actors, NEW r \in Runs, NEW s \in Status,
           Exists(r), Transition(a, r, s) \/ Refused(a, r, s)
    PROVE  NoSplit' /\ [Lifecycle!Next]_Statuses
<1>1. /\ rec \in [Runs -> Record] /\ seen \in [Actors -> Record \union {None}]
      /\ Read(a, r) = rec[r]
  BY DEF TypeOK, StoreTypeOK, NoSplit, Read
<1>2. CASE Refused(a, r, s)
  BY <1>1, <1>2 DEF Refused, NoSplit, Statuses
<1>3. CASE Transition(a, r, s)
  <2>1. /\ ValidTransition(rec[r].status, s)
        /\ rec' = [rec EXCEPT ![r] = [rec[r] EXCEPT !.status = s]]
        /\ seen' = [seen EXCEPT ![a] = None]
    BY <1>1, <1>3 DEF Transition, Accepts, Save
  <2>2. NoSplit'
    BY <1>1, <2>1 DEF NoSplit
  <2>3. rec[r].status \in Status
    BY <1>1 DEF Record, Exists
  <2>4. Statuses' = [Statuses EXCEPT ![r] = s]
    BY <1>1, <2>1 DEF Statuses, Record
  <2>5. CASE s = rec[r].status
    BY <2>2, <2>4, <2>5 DEF Statuses
  <2>6. CASE s \in AllowedTransitions[rec[r].status]
    <3>1. Lifecycle!Move(r)
      BY <2>3, <2>4, <2>6, SameTable DEF Lifecycle!Move, Statuses
    <3>. QED
      BY <2>2, <3>1 DEF Lifecycle!Next
  <2>. QED
    BY <2>1, <2>5, <2>6 DEF ValidTransition
<1>. QED
  BY <1>2, <1>3

(* The steps of API threads on the records.                                *)
LEMMA ApiMoves ==
    ASSUME RefinementInv, NEW t \in Threads, ApiRequest(t) \/ ApiStep(t)
    PROVE  NoSplit' /\ [Lifecycle!Next]_Statuses
<1>1. /\ rec \in [Runs -> Record] /\ seen \in [Actors -> Record \union {None}]
      /\ t \in Actors
      /\ api[t].pc # "idle" => api[t].run \in Runs /\ Exists(api[t].run)
  BY DEF RefinementInv, ApiRunsExist, TypeOK, StoreTypeOK, ApiTypeOK, Actors
<1>2. CASE \E r \in Runs : CreateRun(t, r)
  <2>1. PICK r \in Runs : CreateRun(t, r)
    BY <1>2
  <2>2. NoSplit'
    BY <2>1 DEF CreateRun, RefinementInv, NoSplit
  <2>3. Statuses[r] = Absent /\ Statuses' = [Statuses EXCEPT ![r] = "CREATED"]
    BY <1>1, <2>1 DEF CreateRun, Statuses, Record
  <2>4. Lifecycle!Create(r)
    BY <2>3, SameTable DEF Lifecycle!Create
  <2>. QED
    BY <2>2, <2>4 DEF Lifecycle!Next
<1>3. CASE StartTransition(t) \/ StopBeforeStart(t)
  BY <1>1, <1>3, TransitionMoves
     DEF StartTransition, StopBeforeStart, RefinementInv, Status
<1>4. CASE StopFlag(t)
  <2> DEFINE r == api[t].run
  <2>1. r \in Runs /\ Read(t, r) = rec[r]
    BY <1>1, <1>4 DEF StopFlag, RefinementInv, NoSplit, Read
  <2>2. PICK b : Save(t, r, [rec[r] EXCEPT !.stop = TRUE, !.cancel = b])
    BY <1>4, <2>1 DEF StopFlag
  <2>3. Statuses' = Statuses
    BY <1>1, <2>1, <2>2 DEF Save, Statuses, Record
  <2>4. NoSplit'
    BY <1>1, <2>2 DEF Save, RefinementInv, NoSplit
  <2>. QED
    BY <2>3, <2>4
<1>5. CASE RewriteDescriptor(t)
  <2>1. Read(t, api[t].run) = rec[api[t].run]
    BY <1>1, <1>5 DEF RefinementInv, NoSplit, Read
  <2>2. rec' = rec
    BY <1>1, <1>5, <2>1 DEF RewriteDescriptor, Save
  <2>3. NoSplit'
    BY <1>1, <1>5 DEF RewriteDescriptor, Save, RefinementInv, NoSplit
  <2>. QED
    BY <2>2, <2>3 DEF Statuses
<1>6. CASE UNCHANGED <<rec, seen>>
  BY <1>6 DEF RefinementInv, NoSplit, Statuses
<1>7. \/ \E r \in Runs : CreateRun(t, r)
      \/ StartTransition(t) \/ StopBeforeStart(t) \/ StopFlag(t) \/ RewriteDescriptor(t)
      \/ UNCHANGED <<rec, seen>>
  BY DEF ApiRequest, ApiStep, StartRun, UpdateEnvironment, StopRun, StartScan, StartEnqueue
<1>. QED
  BY <1>2, <1>3, <1>4, <1>5, <1>6, <1>7

LEMMA WorkerMovesMoves ==
    ASSUME RefinementInv, NEW w \in Workers, NEW from \in WorkerPc \ {"gone"},
           NEW target \in Status, NEW next \in WorkerPc,
           WorkerMoves(w, from, target, next)
    PROVE  NoSplit' /\ [Lifecycle!Next]_Statuses
<1>1. w \in Actors /\ wk[w].run \in Runs /\ Exists(wk[w].run)
  BY DEF WorkerMoves, RefinementInv, WorkerRunsBegun, Begun, Exists, TypeOK, WorkerTypeOK,
         Actors
<1>. QED
  BY <1>1, TransitionMoves DEF WorkerMoves, RefinementInv

LEMMA WorkersMove ==
    ASSUME RefinementInv, NEW w \in Workers, WorkerStep(w) \/ WorkerDies(w)
    PROVE  NoSplit' /\ [Lifecycle!Next]_Statuses
<1>1. /\ seen \in [Actors -> Record \union {None}] /\ w \in Actors
      /\ wk[w].pc # "gone" => wk[w].run \in Runs /\ Exists(wk[w].run)
      /\ wk[w].final \in Status
  BY DEF RefinementInv, WorkerRunsBegun, Begun, Exists, TypeOK, StoreTypeOK, WorkerTypeOK,
         Actors, Terminal, Status
<1>2. CASE \/ WorkerMoves(w, "starting", "STARTING", "setup")
           \/ WorkerMoves(w, "running", "RUNNING", "loop")
           \/ WorkerMoves(w, "stopping", "STOPPING", "ended")
  BY <1>2, WorkerMovesMoves DEF WorkerPc, Status
<1>3. CASE WorkerCancelEarly(w)
  BY <1>1, <1>3, TransitionMoves DEF WorkerCancelEarly, RefinementInv, Status
<1>4. CASE WorkerFinal(w)
  BY <1>1, <1>4, TransitionMoves DEF WorkerFinal, RefinementInv
<1>5. CASE UNCHANGED rec /\ seen' \in {seen, [seen EXCEPT ![w] = None]}
  BY <1>1, <1>5 DEF RefinementInv, NoSplit, Statuses
<1>. QED
  BY <1>2, <1>3, <1>4, <1>5
     DEF WorkerStep, WorkerBoot, WorkerSetUp, WorkerLoop, WorkerTick, WorkerDecides,
         WorkerRaises, WorkerCleanup, WorkerFinish, WorkerDies

LEMMA ExecutorMoves ==
    ASSUME RefinementInv, ExecStep \/ ExecStart \/ ExecKilled
    PROVE  NoSplit' /\ [Lifecycle!Next]_Statuses
<1>1. seen \in [Actors -> Record \union {None}] /\ Executor \in Actors
  BY DEF RefinementInv, TypeOK, StoreTypeOK, Actors
<1>2. CASE RecoverSave \/ FailLegacy \/ MarkSave
  <2>1. exec.run \in Runs /\ Exists(exec.run)
    BY <1>2 DEF RecoverSave, FailLegacy, MarkSave, ExecFails, RefinementInv,
                TypeOK, ExecTypeOK, ExecRunsBegun, Begun, Exists
  <2>2. \/ Transition(Executor, exec.run, "FAILED")
        \/ Refused(Executor, exec.run, "FAILED")
    BY <1>2 DEF RecoverSave, FailLegacy, MarkSave, ExecFails
  <2>. QED
    BY <1>1, <2>1, <2>2, TransitionMoves DEF RefinementInv, Status
<1>3. CASE UNCHANGED rec /\ seen' \in {seen, [seen EXCEPT ![Executor] = None]}
  BY <1>1, <1>3 DEF RefinementInv, NoSplit, Statuses
<1>. QED
  BY <1>2, <1>3
     DEF ExecStep, ExecStart, ExecKilled, RecoverNext, PopNext, Launch, LaunchLegacy,
         Reap, MarkGet, WriteMetrics

LEMMA NoFetch ==
    ASSUME TypeOK, overlaps' = 0, NEW a, NEW r, Fetch(a, r)
    PROVE  FALSE
BY DEF Fetch, TypeOK, AuxTypeOK

LEMMA NextMoves ==
    ASSUME RefinementInv, overlaps' = 0, [Next]_vars
    PROVE  NoSplit' /\ [Lifecycle!Next]_Statuses
<1>1. CASE UNCHANGED vars
  BY <1>1 DEF vars, RefinementInv, NoSplit, Statuses
<1>2. CASE ApiRestart
  <2>1. UNCHANGED rec /\ NoSplit'
    BY <1>2 DEF ApiRestart, RefinementInv, NoSplit
  <2>. QED
    BY <2>1 DEF Statuses
<1>3. CASE \/ \E t \in Threads : ApiFetch(t)
           \/ \E w \in Workers : WorkerFetch(w)
           \/ ExecFetch
  BY <1>3, NoFetch DEF ApiFetch, WorkerFetch, ExecFetch, RefinementInv
<1>. QED
  BY <1>1, <1>2, <1>3, ApiMoves, WorkersMove, ExecutorMoves DEF Next

(* Who takes up a run: a request that found its record, a worker that was  *)
(* launched for a command, the executor for a command or an active run.    *)
LEMMA ApiRunsExistKept ==
    ASSUME RefinementInv, [Next]_vars,
           \A r \in Runs : (Exists(r) => Exists(r)') /\ (Begun(r) => Begun(r)')
    PROVE  ApiRunsExist'
<1>1. /\ api \in [Threads -> [pc: ApiPc, run: Runs \union {None}, cancel: BOOLEAN]]
      /\ \A t \in Threads : api[t].pc # "idle" => api[t].run \in Runs
  BY DEF RefinementInv, TypeOK, ApiTypeOK
<1>2. CASE UNCHANGED api
  BY <1>1, <1>2 DEF RefinementInv, ApiRunsExist
<1>3. CASE ApiRestart
  BY <1>3 DEF ApiRestart, ApiRunsExist
<1>4. ASSUME NEW t \in Threads,
             \/ ApiReturns(t)
             \/ \E p : ApiGoto(t, p) /\ api[t].pc # "idle"
             \/ \E p, c, r : r \in Runs /\ Exists(r) /\ ApiCall(t, p, r, c)
      PROVE  ApiRunsExist'
  <2>1. CASE ApiReturns(t)
    BY <1>1, <2>1 DEF ApiReturns, ApiCall, RefinementInv, ApiRunsExist
  <2>2. CASE \E p : ApiGoto(t, p) /\ api[t].pc # "idle"
    BY <1>1, <2>2 DEF ApiGoto, RefinementInv, ApiRunsExist
  <2>3. CASE \E p, c, r : r \in Runs /\ Exists(r) /\ ApiCall(t, p, r, c)
    BY <1>1, <2>3 DEF ApiCall, RefinementInv, ApiRunsExist
  <2>. QED
    BY <1>4, <2>1, <2>2, <2>3
<1>5. ASSUME NEW t \in Threads, ApiRequest(t)
      PROVE  UNCHANGED api \/ \E p, c, r : r \in Runs /\ Exists(r) /\ ApiCall(t, p, r, c)
  BY <1>5 DEF ApiRequest, CreateRun, StartRun, UpdateEnvironment, StopRun, ApiIdle, Exists
<1>6. ASSUME NEW t \in Threads, ApiStep(t)
      PROVE  ApiReturns(t) \/ \E p : ApiGoto(t, p) /\ api[t].pc # "idle"
  BY <1>6 DEF ApiStep, StartScan, StartTransition, StartEnqueue, StopBeforeStart,
              StopFlag, RewriteDescriptor
<1>7. CASE \E w \in Workers : WorkerStep(w) \/ WorkerDies(w) \/ WorkerFetch(w)
  BY <1>2, <1>7
     DEF WorkerStep, WorkerBoot, WorkerCancelEarly, WorkerMoves, WorkerSetUp, WorkerLoop,
         WorkerTick, WorkerDecides, WorkerRaises, WorkerCleanup, WorkerFinish, WorkerFinal,
         WorkerDies, WorkerFetch, Fetch
<1>8. CASE ExecStep \/ ExecStart \/ ExecFetch \/ ExecKilled
  BY <1>2, <1>8
     DEF ExecStep, ExecStart, ExecFetch, ExecKilled, RecoverNext, RecoverSave, PopNext,
         Launch, LaunchLegacy, FailLegacy, Reap, MarkGet, MarkSave, WriteMetrics,
         ExecFails, Fetch
<1>9. CASE \E t \in Threads : ApiFetch(t)
  BY <1>2, <1>9 DEF ApiFetch, Fetch
<1>. QED
  BY <1>2, <1>3, <1>4, <1>5, <1>6, <1>7, <1>8, <1>9 DEF Next, vars

(* A start request enqueues the run that it has just moved to QUEUED.      *)
LEMMA EnqueuedRunsBegunKept ==
    ASSUME RefinementInv, [Next]_vars,
           \A r \in Runs : (Exists(r) => Exists(r)') /\ (Begun(r) => Begun(r)')
    PROVE  EnqueuedRunsBegun'
<1>1. /\ api \in [Threads -> [pc: ApiPc, run: Runs \union {None}, cancel: BOOLEAN]]
      /\ \A t \in Threads : api[t].pc # "idle" => api[t].run \in Runs
  BY DEF RefinementInv, TypeOK, ApiTypeOK
<1>2. CASE UNCHANGED api
  BY <1>1, <1>2 DEF RefinementInv, EnqueuedRunsBegun
<1>3. CASE ApiRestart
  BY <1>3 DEF ApiRestart, EnqueuedRunsBegun
<1>4. ASSUME NEW t \in Threads,
             \/ \E p, c, r : p # "enqueue" /\ ApiCall(t, p, r, c)
             \/ \E p : p # "enqueue" /\ ApiGoto(t, p)
      PROVE  EnqueuedRunsBegun'
  BY <1>1, <1>4 DEF ApiCall, ApiGoto, RefinementInv, EnqueuedRunsBegun
<1>5. ASSUME NEW t \in Threads, api[t].pc = "toQueued",
             Transition(t, api[t].run, "QUEUED"), ApiGoto(t, "enqueue")
      PROVE  EnqueuedRunsBegun'
  <2>1. t \in Actors /\ api[t].run \in Runs /\ "QUEUED" \in Status
    BY <1>1, <1>5 DEF Actors, Status
  <2>2. Statuses' = [Statuses EXCEPT ![api[t].run] = "QUEUED"]
    BY <1>5, <2>1, TransitionEffect DEF RefinementInv
  <2>3. Begun(api[t].run)'
    BY <1>1, <1>5, <2>1, <2>2 DEF Statuses, Begun, Absent, ApiGoto
  <2>. QED
    BY <1>1, <1>5, <2>1, <2>3 DEF ApiGoto, RefinementInv, EnqueuedRunsBegun
<1>6. ASSUME NEW t \in Threads, ApiRequest(t)
      PROVE  UNCHANGED api \/ \E p, c, r : p # "enqueue" /\ ApiCall(t, p, r, c)
  BY <1>6 DEF ApiRequest, CreateRun, StartRun, UpdateEnvironment, StopRun
<1>7. ASSUME NEW t \in Threads, ApiStep(t)
      PROVE  \/ \E p, c, r : p # "enqueue" /\ ApiCall(t, p, r, c)
             \/ \E p : p # "enqueue" /\ ApiGoto(t, p)
             \/ /\ api[t].pc = "toQueued" /\ Transition(t, api[t].run, "QUEUED")
                /\ ApiGoto(t, "enqueue")
  BY <1>7 DEF ApiStep, StartScan, StartTransition, StartEnqueue, StopBeforeStart,
              StopFlag, RewriteDescriptor, ApiReturns
<1>8. CASE \E w \in Workers : WorkerStep(w) \/ WorkerDies(w) \/ WorkerFetch(w)
  BY <1>2, <1>8
     DEF WorkerStep, WorkerBoot, WorkerCancelEarly, WorkerMoves, WorkerSetUp, WorkerLoop,
         WorkerTick, WorkerDecides, WorkerRaises, WorkerCleanup, WorkerFinish, WorkerFinal,
         WorkerDies, WorkerFetch, Fetch
<1>9. CASE ExecStep \/ ExecStart \/ ExecFetch \/ ExecKilled
  BY <1>2, <1>9
     DEF ExecStep, ExecStart, ExecFetch, ExecKilled, RecoverNext, RecoverSave, PopNext,
         Launch, LaunchLegacy, FailLegacy, Reap, MarkGet, MarkSave, WriteMetrics,
         ExecFails, Fetch
<1>10. CASE \E t \in Threads : ApiFetch(t)
  BY <1>2, <1>10 DEF ApiFetch, Fetch
<1>. QED
  BY <1>2, <1>3, <1>4, <1>5, <1>6, <1>7, <1>8, <1>9, <1>10 DEF Next, vars

LEMMA WorkerRunsBegunKept ==
    ASSUME RefinementInv, [Next]_vars,
           \A r \in Runs : (Exists(r) => Exists(r)') /\ (Begun(r) => Begun(r)')
    PROVE  WorkerRunsBegun'
<1>1. /\ wk \in [Workers -> [pc: WorkerPc, run: Runs \union {None},
                             final: Terminal, ok: BOOLEAN]]
      /\ \A w \in Workers : wk[w].pc # "gone" => wk[w].run \in Runs
  BY DEF RefinementInv, TypeOK, WorkerTypeOK
<1>2. CASE UNCHANGED wk
  BY <1>1, <1>2 DEF RefinementInv, WorkerRunsBegun
<1>3. ASSUME NEW w \in Workers,
             \/ \E ok : WorkerExits(w, ok)
             \/ wk[w].pc # "gone" /\ \E p : WorkerGoto(w, p)
             \/ wk[w].pc # "gone" /\ \E f : WorkerEnds(w, f)
      PROVE  WorkerRunsBegun'
  <2>1. CASE \E ok : WorkerExits(w, ok)
    BY <1>1, <2>1 DEF WorkerExits, RefinementInv, WorkerRunsBegun
  <2>2. CASE wk[w].pc # "gone" /\ \E p : WorkerGoto(w, p)
    BY <1>1, <2>2 DEF WorkerGoto, RefinementInv, WorkerRunsBegun
  <2>3. CASE wk[w].pc # "gone" /\ \E f : WorkerEnds(w, f)
    BY <1>1, <2>3 DEF WorkerEnds, RefinementInv, WorkerRunsBegun
  <2>. QED
    BY <1>3, <2>1, <2>2, <2>3
<1>4. ASSUME NEW w \in Workers, WorkerStep(w) \/ WorkerDies(w)
      PROVE  \/ \E ok : WorkerExits(w, ok)
             \/ wk[w].pc # "gone" /\ \E p : WorkerGoto(w, p)
             \/ wk[w].pc # "gone" /\ \E f : WorkerEnds(w, f)
  BY <1>4
     DEF WorkerStep, WorkerBoot, WorkerCancelEarly, WorkerMoves, WorkerSetUp, WorkerLoop,
         WorkerTick, WorkerDecides, WorkerRaises, WorkerCleanup, WorkerFinish, WorkerFinal,
         WorkerDies
<1>5. ASSUME NEW w \in Workers, Launch(w)
      PROVE  WorkerRunsBegun'
  <2>1. exec.run \in Runs /\ Begun(exec.run)
    BY <1>5 DEF Launch, RefinementInv, ExecRunsBegun, TypeOK, ExecTypeOK
  <2>. QED
    BY <1>1, <1>5, <2>1 DEF Launch, RefinementInv, WorkerRunsBegun
<1>6. CASE \E t \in Threads : ApiRequest(t) \/ ApiStep(t) \/ ApiFetch(t)
  BY <1>2, <1>6
     DEF ApiRequest, ApiStep, ApiFetch, CreateRun, StartRun, UpdateEnvironment, StopRun,
         StartScan, StartTransition, StartEnqueue, StopBeforeStart, StopFlag,
         RewriteDescriptor, Fetch
<1>7. CASE \/ ApiRestart \/ ExecStart \/ ExecFetch \/ ExecKilled
           \/ \E w \in Workers : WorkerFetch(w)
  BY <1>2, <1>7 DEF ApiRestart, ExecStart, ExecFetch, ExecKilled, WorkerFetch, Fetch
<1>8. CASE ExecStep /\ ~\E w \in Workers : Launch(w)
  BY <1>2, <1>8
     DEF ExecStep, RecoverNext, RecoverSave, PopNext, LaunchLegacy, FailLegacy, Reap,
         MarkGet, MarkSave, WriteMetrics, ExecFails
<1>. QED
  BY <1>2, <1>3, <1>4, <1>5, <1>6, <1>7, <1>8 DEF Next, vars

(* Everything else than the executor leaves its locals alone.              *)
LEMMA ExecutorAlone ==
    ASSUME [Next]_vars
    PROVE  UNCHANGED exec \/ ExecStep \/ ExecStart \/ ExecKilled
<1>1. ASSUME NEW w \in Workers, WorkerStep(w) \/ WorkerDies(w) \/ WorkerFetch(w)
      PROVE  UNCHANGED exec
  BY <1>1
     DEF WorkerStep, WorkerBoot, WorkerCancelEarly, WorkerMoves, WorkerSetUp, WorkerLoop,
         WorkerTick, WorkerDecides, WorkerRaises, WorkerCleanup, WorkerFinish, WorkerFinal,
         WorkerDies, WorkerFetch, Fetch
<1>2. ASSUME NEW t \in Threads, ApiRequest(t) \/ ApiStep(t) \/ ApiFetch(t)
      PROVE  UNCHANGED exec
  BY <1>2
     DEF ApiRequest, ApiStep, ApiFetch, CreateRun, StartRun, UpdateEnvironment, StopRun,
         StartScan, StartTransition, StartEnqueue, StopBeforeStart, StopFlag,
         RewriteDescriptor, Fetch
<1>. QED
  BY <1>1, <1>2 DEF Next, vars, ApiRestart, ExecFetch, Fetch

LEMMA ExecRunsBegunKept ==
    ASSUME RefinementInv, [Next]_vars,
           \A r \in Runs : (Exists(r) => Exists(r)') /\ (Begun(r) => Begun(r)')
    PROVE  ExecRunsBegun'
<1>1. /\ exec \in [pc: ExecPc, run: Runs \union {None},
                   worker: Workers \union {None}, todo: SUBSET Runs]
      /\ exec.pc \notin {"down", "recover", "idle"} => exec.run \in Runs
      /\ queue \in Seq(Runs)
  BY DEF RefinementInv, TypeOK, ExecTypeOK, StoreTypeOK
<1>2. CASE UNCHANGED exec
  BY <1>1, <1>2 DEF RefinementInv, ExecRunsBegun
<1>3. CASE ExecStart
  <2>1. \A r \in Runs : Interrupted(r) => Begun(r)
    BY DEF Interrupted, Active, Begun, Absent
  <2>. QED
    BY <1>1, <1>3, <2>1 DEF ExecStart, RefinementInv, ExecRunsBegun
<1>4. CASE ExecExits
  BY <1>4 DEF ExecExits, ExecRunsBegun
<1>5. CASE ExecReady
  BY <1>1, <1>5 DEF ExecReady, RefinementInv, ExecRunsBegun
<1>6. CASE RecoverNext \/ WriteMetrics
  BY <1>1, <1>5, <1>6 DEF RecoverNext, WriteMetrics, RefinementInv, ExecRunsBegun
<1>7. CASE PopNext
  <2>1. Head(queue) = queue[1] /\ 1 \in 1 .. Len(queue)
    BY <1>1, <1>7 DEF PopNext
  <2>2. Begun(Head(queue)) /\ Head(queue) \in Runs
    BY <1>1, <2>1 DEF RefinementInv, QueuedRunsBegun
  <2>. QED
    BY <1>1, <1>7, <2>2 DEF PopNext, RefinementInv, ExecRunsBegun
<1>8. CASE \/ RecoverSave \/ LaunchLegacy \/ FailLegacy \/ Reap \/ MarkGet \/ MarkSave
           \/ \E w \in Workers : Launch(w)
  BY <1>1, <1>4, <1>5, <1>8
     DEF RecoverSave, LaunchLegacy, FailLegacy, Reap, MarkGet, MarkSave, ExecFails, ExecGoto,
         Launch, WaitFor, RefinementInv, ExecRunsBegun
<1>. QED
  BY <1>2, <1>3, <1>4, <1>6, <1>7, <1>8, ExecutorAlone DEF ExecStep, ExecKilled

(* Commands are added by start_run, at the end, and taken from the front.  *)
LEMMA QueueSteps ==
    ASSUME [Next]_vars
    PROVE  \/ UNCHANGED queue \/ PopNext
           \/ \E t \in Threads : StartEnqueue(t)
<1>1. ASSUME NEW w \in Workers, WorkerStep(w) \/ WorkerDies(w) \/ WorkerFetch(w)
      PROVE  UNCHANGED queue
  BY <1>1
     DEF WorkerStep, WorkerBoot, WorkerCancelEarly, WorkerMoves, WorkerSetUp, WorkerLoop,
         WorkerTick, WorkerDecides, WorkerRaises, WorkerCleanup, WorkerFinish, WorkerFinal,
         WorkerDies, WorkerFetch, Fetch
<1>2. ASSUME NEW t \in Threads, ApiRequest(t) \/ ApiStep(t) \/ ApiFetch(t)
      PROVE  UNCHANGED queue \/ StartEnqueue(t)
  BY <1>2
     DEF ApiRequest, ApiStep, ApiFetch, CreateRun, StartRun, UpdateEnvironment, StopRun,
         StartScan, StartTransition, StopBeforeStart, StopFlag, RewriteDescriptor, Fetch
<1>3. CASE ExecStep \/ ExecStart \/ ExecFetch \/ ExecKilled
  BY <1>3
     DEF ExecStep, ExecStart, ExecFetch, ExecKilled, RecoverNext, RecoverSave, Launch,
         LaunchLegacy, FailLegacy, Reap, MarkGet, MarkSave, WriteMetrics, ExecFails,
         Fetch
<1>. QED
  BY <1>1, <1>2, <1>3 DEF Next, vars, ApiRestart

LEMMA QueuedRunsBegunKept ==
    ASSUME RefinementInv, [Next]_vars,
           \A r \in Runs : (Exists(r) => Exists(r)') /\ (Begun(r) => Begun(r)')
    PROVE  QueuedRunsBegun'
<1>1. queue \in Seq(Runs) /\ \A i \in 1 .. Len(queue) : queue[i] \in Runs
  BY DEF RefinementInv, TypeOK, StoreTypeOK
<1>2. CASE UNCHANGED queue
  BY <1>1, <1>2 DEF RefinementInv, QueuedRunsBegun
<1>3. CASE PopNext
  <2>1. /\ queue' = Tail(queue) /\ Len(queue') = Len(queue) - 1
        /\ \A i \in 1 .. Len(queue') : i + 1 \in 1 .. Len(queue) /\ queue'[i] = queue[i + 1]
    BY <1>1, <1>3 DEF PopNext
  <2>. QED
    BY <1>1, <2>1 DEF RefinementInv, QueuedRunsBegun
<1>4. CASE \E t \in Threads : StartEnqueue(t)
  <2>1. PICK t \in Threads : StartEnqueue(t)
    BY <1>4
  <2>2. api[t].run \in Runs /\ Begun(api[t].run) /\ queue' = Append(queue, api[t].run)
    BY <2>1 DEF StartEnqueue, Enqueue, RefinementInv, EnqueuedRunsBegun, TypeOK, ApiTypeOK
  <2>3. \A i \in 1 .. Len(queue') :
           (i \in 1 .. Len(queue) /\ queue'[i] = queue[i]) \/ queue'[i] = api[t].run
    BY <1>1, <2>2
  <2>. QED
    BY <1>1, <2>2, <2>3 DEF RefinementInv, QueuedRunsBegun
<1>. QED
  BY <1>2, <1>3, <1>4, QueueSteps

LEMMA RefinementInvInit == Init => RefinementInv
<1>. SUFFICES ASSUME Init PROVE RefinementInv
  OBVIOUS
<1>1. NoSplit /\ ApiRunsExist /\ EnqueuedRunsBegun
    /\ WorkerRunsBegun /\ ExecRunsBegun /\ QueuedRunsBegun
  BY DEF Init, NoSplit, ApiRunsExist, EnqueuedRunsBegun, WorkerRunsBegun, ExecRunsBegun,
         QueuedRunsBegun
<1>. QED
  BY <1>1, InitType DEF RefinementInv

LEMMA RefinementInvNext ==
    ASSUME RefinementInv, overlaps' = 0, [Next]_vars
    PROVE  RefinementInv'
<1>1. TypeOK'
  BY NextType DEF RefinementInv
<1>2. NoSplit' /\ \A r \in Runs : (Exists(r) => Exists(r)') /\ (Begun(r) => Begun(r)')
  BY NextMoves, StatusesKept DEF RefinementInv
<1>. QED
  BY <1>1, <1>2, ApiRunsExistKept, EnqueuedRunsBegunKept, WorkerRunsBegunKept,
     ExecRunsBegunKept, QueuedRunsBegunKept DEF RefinementInv

(* What is used of a bound stays used.                                     *)
LEMMA CountersGrow ==
    ASSUME TypeOK, [Next]_vars
    PROVE  /\ overlaps' = 0 => overlaps = 0
           /\ kills' = 0 => kills = 0 /\ ~ExecKilled
           /\ apiRestarts' = 0 => apiRestarts = 0 /\ ~ApiRestart
<1>1. overlaps \in Nat /\ kills \in Nat /\ apiRestarts \in Nat
  BY DEF TypeOK, AuxTypeOK
<1>2. CASE ApiRestart \/ ExecKilled
  BY <1>1, <1>2 DEF ApiRestart, ExecKilled
<1>3. CASE UNCHANGED <<kills, apiRestarts>> /\ (UNCHANGED overlaps \/ overlaps' = overlaps + 1)
  BY <1>1, <1>3 DEF ApiRestart, ExecKilled
<1>. QED
  BY <1>2, <1>3
     DEF Next, vars, ApiRequest, ApiStep, ApiFetch, CreateRun, StartRun, UpdateEnvironment,
         StopRun, StartScan, StartTransition, StartEnqueue, StopBeforeStart, StopFlag,
         RewriteDescriptor, Fetch, WorkerStep, WorkerBoot, WorkerCancelEarly, WorkerMoves,
         WorkerSetUp, WorkerLoop, WorkerTick, WorkerDecides, WorkerRaises, WorkerCleanup,
         WorkerFinish, WorkerFinal, WorkerDies, WorkerFetch, ExecStep, ExecStart, ExecFetch,
         RecoverNext, RecoverSave, PopNext, Launch, LaunchLegacy, FailLegacy, Reap, MarkGet,
         MarkSave, WriteMetrics, ExecFails, aux, bounds

LEMMA OverlapsBounded ==
    ASSUME TypeOK, overlaps <= MaxOverlaps, [Next]_vars
    PROVE  overlaps' <= MaxOverlaps
<1>1. overlaps \in Nat /\ MaxOverlaps \in Nat
  BY ConstantsAssumption DEF TypeOK, AuxTypeOK
<1>2. CASE \E a, r : Fetch(a, r)
  BY <1>1, <1>2 DEF Fetch
<1>3. CASE UNCHANGED overlaps
  BY <1>3
<1>. QED
  BY <1>2, <1>3
     DEF Next, vars, ApiRequest, ApiStep, ApiFetch, CreateRun, StartRun, UpdateEnvironment,
         StopRun, StartScan, StartTransition, StartEnqueue, StopBeforeStart, StopFlag,
         RewriteDescriptor, WorkerStep, WorkerBoot, WorkerCancelEarly, WorkerMoves,
         WorkerSetUp, WorkerLoop, WorkerTick, WorkerDecides, WorkerRaises, WorkerCleanup,
         WorkerFinish, WorkerFinal, WorkerDies, WorkerFetch, ExecStep, ExecStart, ExecFetch,
         ExecKilled, ApiRestart, RecoverNext, RecoverSave, PopNext, Launch, LaunchLegacy,
         FailLegacy, Reap, MarkGet, MarkSave, WriteMetrics, ExecFails, aux, bounds

(* As long as no record update has been split, whoever works on a run      *)
(* works on one that exists, and on one that was queued.                   *)
THEOREM RefinementInvHolds == Spec => [](TypeOK /\ (overlaps = 0 => RefinementInv))
<1>1. TypeOK /\ (overlaps = 0 => RefinementInv) /\ [Next]_vars
        => (TypeOK /\ (overlaps = 0 => RefinementInv))'
  BY RefinementInvNext, CountersGrow, NextType
<1>. QED
  BY <1>1, InitType, RefinementInvInit, PTL DEF Spec

(* As long as no record update has been split, each step of an API thread, *)
(* a worker or the executor moves at most one run, along the table of      *)
(* state_machine.py: terminal statuses are final.                          *)
THEOREM StepsFollowLifecycle == Spec => [][overlaps' = 0 => [Lifecycle!Next]_Statuses]_vars
<1>1. TypeOK /\ (overlaps = 0 => RefinementInv) /\ [Next]_vars
        => [overlaps' = 0 => [Lifecycle!Next]_Statuses]_vars
  BY NextMoves, CountersGrow
<1>. QED
  BY <1>1, RefinementInvHolds, PTL DEF Spec

(* Without overlapping calls of RunStore, the statuses of the records      *)
(* follow the life cycle of state_machine.py: the initial records are the  *)
(* initial abstract state, and each step of an API thread, a worker or the *)
(* executor is a step of the life cycle or leaves the statuses alone.      *)
THEOREM ImplementsLifecycle == MaxOverlaps = 0 => (Spec => FollowsLifecycle)
<1>. SUFFICES ASSUME MaxOverlaps = 0 PROVE Spec => FollowsLifecycle
  OBVIOUS
<1>1. Init => Lifecycle!Init /\ overlaps <= MaxOverlaps
  BY SameTable DEF Init, Lifecycle!Init, Statuses
<1>2. TypeOK /\ overlaps <= MaxOverlaps /\ [Next]_vars => (overlaps <= MaxOverlaps)'
  BY OverlapsBounded, ConstantsAssumption
<1>3. TypeOK /\ (overlaps = 0 => RefinementInv) /\ TypeOK'
        /\ overlaps <= MaxOverlaps /\ (overlaps <= MaxOverlaps)' /\ [Next]_vars
      => [Lifecycle!Next]_Statuses
  <2>. SUFFICES ASSUME TypeOK, overlaps = 0 => RefinementInv, TypeOK',
                       overlaps <= MaxOverlaps, (overlaps <= MaxOverlaps)', [Next]_vars
                PROVE  [Lifecycle!Next]_Statuses
    OBVIOUS
  <2>1. overlaps = 0 /\ overlaps' = 0
    BY DEF TypeOK, AuxTypeOK
  <2>. QED
    BY <2>1, NextMoves
<1>. QED
  BY <1>1, <1>2, <1>3, RefinementInvHolds, PTL DEF Spec, FollowsLifecycle, Lifecycle!Spec

===============================================================================
