# SimChip-Nexus in TLA+

SimChip-Nexus runs driving scenarios in CARLA and measures devices under test
with them.  This directory holds TLA+ modules for its control logic, TLC
configurations that check them on small instances, and TLAPS proofs.

## 1. The system

### Processes

* **API server** (`app/api`, FastAPI under uvicorn).  The handlers are
  synchronous functions, so requests run on a pool of threads.
* **Executor** (`python -m app.executor.service`), one process that polls a
  directory of start commands and runs one command at a time.
* **Workers** (`python -m app.executor.run_worker`), one process per run,
  launched and awaited by the executor.  A worker drives CARLA.
* **CARLA**, one server that outlives them all and that workers, the preflight checks
  of the API server and the camera preview of the HIL host change.
* **Gateway agents** (`app/hil/gateway_agent.py`) on Raspberry Pi gateways, which
  poll the API, keep a capture process and send heartbeats.
* Shell and device programs (`hil_runtime/`), called by workers: among them the metrics
  program on the Jetson, which posts its results to a receiver on the gateway.

The processes share no memory and take no locks.  They share JSON files (one per
run, capture, gateway, benchmark task), a directory of command files, and SQLite
databases for scenario sources and recordings.

### Components, their state, operations and correctness

| Component | State | Operations | What makes it correct |
| --- | --- | --- | --- |
| Run life cycle (`core/models.py`, `orchestrator/state_machine.py`) | status of a run | `validate_transition` | terminal statuses are final; moves follow the table |
| Run control (`orchestrator/run_manager.py`) | none of its own | create, start, stop, cancel | overlapping starts activate a bounded number of runs; a stop is kept; a canceled run is not driven |
| Run store (`storage/run_store.py`) | record file per run | get, save, update, transition, flags, descriptor | updates do not undo each other; a reader sees a whole record |
| Command queue (`orchestrator/queue.py`) | files `*.json`, `*.processing` | `enqueue_start`, `pop_next` | each command is delivered once, none is lost |
| Executor (`executor/service.py`, `run_worker.py`) | pid of the worker, current run | recovery, poll, launch, wait, mark | every active run is somebody's work; each run is executed at most once |
| Native runtime controller (`executor/native_runtime_controller.py`) | worker locals, actors, recorder, HIL steps | set-up, loop, stop polling, events, clean-up | drives only an active run; cleans up on every path; writes metrics |
| CARLA client (`executor/carla_client.py`) and its users | world of the server, what it found, actors it spawned | connect, load, configure, spawn, clean up | a driven world is the run's own; it is given back |
| Scenario events (`scenario/native_xosc.py`, the loop of the controller) | plan, fired events, clock | tick, fire, stop trigger, replay window | what is due fires once; a timed scenario ends |
| Runtime control (`storage/run_control_store.py`) | control file | initialise, update, read, apply | an acknowledged update reaches the world |
| Sensor recorder (`executor/sensor_recorder.py`) | worker process, state file, sensors | start, attach, stop, kill | no sensor and no worker is left |
| HIL orchestrator (`executor/hil_runtime_orchestrator.py`) | started steps | start, stop, preserve | what was started is stopped or preserved on purpose |
| Camera preview (`hil_runtime/host/scripts/carla_front_rgb_preview.py`) | vehicle, cameras | set up, follow, re-acquire, clean up | a run keeps its world |
| Device results (`hil_runtime/jetson/scripts`, `hil/dut_result_receiver.py`) | metrics file, queue of one, result file | poll, submit, post, retry, receive | the final result arrives and stands |
| Captures (`orchestrator/capture_manager.py`, `hil/gateway_agent.py`) | capture record, runtime file, process | create, start, stop, sync, reconcile | only what was started is captured, by one process; the manifest lists what was reported |
| Gateways (`hil/gateway_registry.py`) | gateway record | register, heartbeat, status | a registration does not undo a heartbeat; a gateway comes back |
| Benchmark tasks (`platform/service.py`) | task, links to runs | create, auto-start, rerun, stop, report | the status is the one of its runs; a stop reaches all |
| Recordings (`storage/scenario_recording_store.py`, `scenario_source_store.py`, routes) | three tables | launch, publish, replay, list | one asset per source run; a listing is true |
| Sensor profiles (`storage/sensor_profile_store.py`) | table | list, get, create, update, copy, import | an import does not overwrite what was saved |
| Projects, benchmark definitions | files | seeded, then read | single files |
| Scenario catalogue, descriptors, templates, schemas | none | build, parse, validate | pure functions |
| Viewer, frontend, media programs | none kept by the platform | calls, rendering | outside the control logic |

### Interactions

    client -> API thread -> run record (CREATED, QUEUED), command file
    executor <- command file; executor -> worker process
    worker <-> run record (STARTING, RUNNING, STOPPING, final; polls stop, cancel)
    worker -> metrics, events, artifacts;  executor -> record FAILED, metrics
    benchmark tasks, recordings -> run control;  reports <- records, metrics
    worker, preflight check, camera preview <-> world of CARLA
    API thread <-> control file <-> worker
    gateway agent <-> capture and gateway records over HTTP
    detector -> metrics file -> metrics program -> receiver -> heartbeats of the agent

### What is hard here

Read-modify-write of whole records by several processes; check-then-act on
directory scans; a worker that outlives its executor; exceptions that escape the
executor's loop; stops and cancels at every stage of a run; device pipelines that
start half; status reports of an agent that arrive after a stop; one simulator that
several processes set up at the same time; callbacks and threads that go on while
their owner stops; rows that are read, and written back later as a whole.
`PROJECT.json` lists each hazard at its line, with the properties that watch it, or why
none does.

## 2. Modules

| Module | Models | State and actions |
| --- | --- | --- |
| `RunStatus` | statuses and the transition table | constants only |
| `RunLifecycle` | the abstract promise about the status of a run | `status`; `Create`, `Move` |
| `RunControl` | API threads, record store, queue, executor, workers | see below |
| `RunControlRefinement` | `RunControl` is well typed and implements `RunLifecycle` | proofs |
| `RunControlSafety` | the safety invariants of `RunControl` | proofs |
| `Mailbox` | the abstract promise of the command queue | `pending`, `taken`; `Put`, `Take` |
| `CommandQueue` | the command directory, file operation by file operation | see below |
| `CommandQueueProofs` | its invariants and that it implements `Mailbox` | proofs |
| `Document` | the abstract promise about a JSON document: a register | `content`, `saving`, `begun`; `Begin`, `GiveUp`, `Save` |
| `DocumentFile` | one JSON document written by several writers | see below |
| `HilPipeline` | start and stop of the HIL sidecars of a run | see below |
| `CaptureSync` | captures: API, gateway agent, capture process | see below |
| `TaskLifecycle` | the abstract promise about a benchmark task | `status`, `report`, `stopped`; `Appear`, `Begin`, `Finish`, `Report`, `Stop` |
| `BenchmarkTask` | benchmark tasks: matrix, runs, status, stop, rerun, report | see below |
| `CarlaWorld` | the world of CARLA and the clients that change it | see below |
| `CaptureSyncProofs` | what is captured was started; few orphans; complete frames | proofs |
| `BenchmarkTaskProofs` | answers are true, stops reach all runs, reruns repeat; `BenchmarkTask` implements `TaskLifecycle` | proofs |
| `CarlaWorldProofs` | a world is the run's own and is given back, with previews beside it | proofs |
| `StoresProofs` | recordings, the record of a gateway, sensor profiles, documents | proofs |
| `WorkerProofs` | the parts of a worker, and the results of the device | proofs |
| `RgbPreview` | the camera preview, composed with `CarlaWorld` | see below |
| `RuntimeControl` | the control file of a run, its writers and its reader | see below |
| `ScenarioEvents` | plan, tick, events, stop trigger, replay | see below |
| `SensorRecorder` | the recorder process, its parent, its callbacks | see below |
| `DutResults` | results of the device on their way to the gateway | see below |
| `RecordingAssets` | launch, publication, replay and listing of recordings | see below |
| `GatewayRegistry` | the record of a gateway and the agent that keeps it alive | see below |
| `SensorProfiles` | the table of sensor profiles and its import | see below |
| `MC...` | instances for TLC | symmetry sets, catalogues, scenarios and requests |
| `MCWorker` | the parts of a worker in one run | `part` says which of them moves |
| `MCDeliveries` | start commands, and the reports of an agent, in one run | `part` says which of them moves |
| `MCStores` | four stores of the API server in one run | `part` says which of them moves |

### RunControl

`rec[r]` is the record file of a run with the fields that the control code
branches on (status, stop and cancel flags).  `queue` is the command directory in
the order in which `pop_next` takes it.  `metrics[r]` is `final_status` in the
metrics file, or `None` when there is no file.  `api[t]`, `wk[w]` and `exec` hold
a program counter and the locals of an API thread, of a worker process and of the
executor.  Four history variables (`executed`, `faulted`, `asked`, and the used
bounds) carry what the properties talk about.

A step is one call of a store (or of the operating system) together with the local computation
after it, so a handler that reads and later writes is several actions: `StartRun`,
`StartScan`, `StartTransition`, `StartEnqueue` are `start_run`; `StopRun` followed by
`StopBeforeStart` or `StopFlag` is `stop_run` or `cancel_run`; `WorkerBoot` to `WorkerFinal`
is `execute_run`; `ExecStart`, `RecoverNext`, `RecoverSave` are `_recover_interrupted_runs`;
`PopNext` to `MarkSave` is the body of `run_forever`; `WriteMetrics` is the second store call
of each of the three places where the executor fails a run, so that a kill can come in
between.  `PROJECT.json` ("map") gives the lines of each.

`RunStore.update` (and so `transition` and `mark_stop_requested`) is itself a get
followed by a save of the whole record.  `Fetch` is that get: it leaves a copy in
`seen[a]`, and the save of actor `a` writes the changed copy back over whatever
happened in between.  `MaxOverlaps` bounds how many updates are split like this in
a behaviour; an update that is not split reads and saves in one step.  With
`MaxOverlaps = 0` the model says what the platform does when calls of the store do
not overlap; the runs that set it to 1 or 2 show what changes when they do.

Crashes: `ExecKilled` is the kill of the executor by `start_platform.sh` (the worker
goes on); `ExecExits` on a refused transition is the `InvalidTransitionError` that
escapes `run_forever`; `WorkerDies` is the death of a worker at any point;
`ApiRestart` drops all requests in flight.

`status.json` is written and never read by the control code and is left out, as
are events and logs.  A worker that fails in set-up or in a tick does what the
`except` of `execute_run` does.  A replay of a recording has the same skeleton of
transitions, clean-up and final status and is not a second set of actions.

### CommandQueue and Mailbox

`RunControl` takes `enqueue_start` and `pop_next` as single steps.  `CommandQueue`
opens them up: `entry[c]` is the directory entry of command c (absent, `.json`,
`.processing`, gone), `content[c]` what its file holds.  A producer gives a time
stamp, creates the entry, and writes it when it closes the file; a consumer lists
the directory, tries the names of its listing oldest first, renames, reads and
unlinks, each a step of its own, and may be killed after any of them.  A command is
named by its time stamp.  The rename is the take of the mailbox, the creation of the
entry its put.

### DocumentFile and Document

A file is a sequence of blocks, each carrying the version it belongs to; writers
open (and so empty), dump block by block at their own position, close.  With
`Replaces = TRUE` they do so in a temporary file of their own and replace the
document by it (`atomic_write_json`: gateways, projects, benchmarks, reports); with
`Replaces = FALSE` in the document itself (runs, captures, the executor's
heartbeat).  Writers may be killed at any point.

`Document` is what the stores rely on: a register.  Its content is the version that the
document holds (`Held`), a writer is saving the version that it has begun (`Saving`), and
a save is one step of a whole version, here the replace; a kill gives the save up.

### HilPipeline

`device[s]` is the run, or the operator, whose command last started sidecar s; `wk`
is the worker with the two lists that matter, the local one of `start_pipeline`
(`started`) and the one the controller gets when it returns (`known`).  A start
command may fail, a stop command may fail, the worker may die, the gateway comes and
goes, and the operator starts and stops the Pi pipeline by hand.

### CaptureSync

`rec` and `man` are the capture records and manifests, `th` the API threads.  The agent is the
loop of `reconcile_capture_runtime` with a step per call: it fetches the running capture,
evicts the process of another one, launches and notes the process, reports.  A request of an
API thread is its update of the record and its write of the manifest, with a step before them
for a report without a status (`read`), and one between them for a start or a stop (`list`),
which read the frames that the manifest lists and write them back in a later step.
`overtaken` names the captures whose last report of new frames came between the read and the
write of a start or a stop.  A report occupies
its thread while the agent waits; `GiveUp` is a `RuntimeError` in the agent, with the report
lost or handled all the same, `AgentKilled` a kill or an exception that escapes. `proc` are
the capture processes, which outlive the agent.  A process counts as running until it is
reaped, as `os.kill(pid, 0)` sees it.  `Update` is one step: the splits of a store's update
are the subject of `RunControl`.

### BenchmarkTask and TaskLifecycle

`run[r]` is the record of a run as the platform service sees it (status and cancel
flag; WORKING is one of STARTING, RUNNING, PAUSED, STOPPING), `task[k]` a stored task,
`th` the API threads.  A creation is a row at a time (`CreateRow`), then the start of
the head (`AutoStart`), then the task file (`StoreTask`); a refused row or start ends
it and leaves the runs.  `_sync_task` reads a run at a time (`ReadRun`) and derives
the status (`Derive`); a stop looks at and cancels a run at a time.  Clients and the
executor move runs between any two of these steps.  `Entry` and `ReplayRow` are what a
task records of a row and what a rerun makes of it, over a small catalogue with the
three kinds of templates the code tells apart.  `held` collects what was true of the
task while a thread reads it, in terms of `Truth`, which states the meaning of a
status apart from the code.  The copy of the status in the task file is left out
(whoever reads the file syncs first), and so are the metrics of the summary.

`TaskLifecycle` is the life cycle as a client may rely on it, without runs, threads or
requests: CREATED, RUNNING, a verdict that stands, one task at a time; a report gives the
verdict or none; an acknowledged stop is a stop of a task that nobody can begin any more.
The mapping is `Derived`, the status that a read of all runs at once would give.

### CarlaWorld and RgbPreview

`world` is the map, the synchronous mode, the step and the actors of the server;
`session[p]` is the program counter of a process that uses CARLA with what its
`CarlaClient` remembers: `_original_sync_mode`, `_original_fixed_delta`,
`_spawned_actors`.  The driver goes through connect, `load_map`,
`configure_world_sync`, spawns, loop; a preflight check through the first three.
`CarlaRaises` is an exception in any of them, which leads to the two steps of
`cleanup`; `LeavesCarla` is the end of a process, or of its clean-up, before it is
through.  What the restoration does with a step that was variable is what the code
does with None: it leaves it.

`RgbPreview` EXTENDS `CarlaWorld` and adds a preview, which does not use `CarlaClient`:
it loads the map, makes the world asynchronous, waits for a vehicle with the role or
spawns one, attaches cameras, follows, re-acquires, and cleans up if it has come as far
as its loop.  `DrivePreviewed` is a step of `CarlaWorld` beside it.  Two history variables
name the two ways in which a preview disturbs a run: a set-up while a run uses CARLA
(`disturbed`), and a re-acquired hero that is destroyed as if it were the preview's own
(`poached`); the property excepts both, and TLC finds the run without its world when
either exception is dropped.

### RuntimeControl

`control` is the control file with what a reader gets of it (missing, empty, garbled,
whole) and two of its sections, weather and CARLA recorder; `io[p]` is an update in
progress: loaded and merged, opened (and so emptied), dumped.  A weather says of every
setting which request has named it: a request always names a preset, and of the optional
settings (`Fields`) those that it likes; `Merged` keeps the optional settings of earlier
requests, and the world applies them together with the new preset, although the record of
the run then names the last request's alone.  `granted` is the same of what clients were
told.  The worker's updates are table
driven (`SectionAt`, `NextAt`): they are one loop of code with different patches.
`PollControl` is the read before a tick.  `torn` records that two processes used the file
at the same time; without it the properties fail, and with it they say that merging,
signatures and the order of the worker's own updates lose nothing.  `AcknowledgedIsKept`
is the safety that `UpdateReachesWorld` rests on: every setting that was acknowledged is in
the file, and in the world or still news to the worker.

### ScenarioEvents

`ParsedTrigger`, `PlayableEvents` and `XoscPlan` are `native_xosc` on triggers that are sets
of groups, and groups that are sets of conditions: the code asks for some group all of whose
conditions hold, whatever their order.  The events of a plan keep their place in the file, and
are considered in that order (`Considered`).  The loop is `PollStop`, `TickScene`, `FireEvent`
or `EventsConsidered`, `CheckEnd`.  The clock counts ticks, distances grow by at most one.  A
replay waits for its hero, warms up, resets its clock and runs until its window is over.
`replay_file` plays the warm-up and the window and nothing after it (`WindowEnd`, `Played`);
it goes on while the hero is awaited, and `waited` counts those ticks, which no clock of the
code does.  `opened` is where the window has been entered.  `due` is the reference: the events
whose trigger, as the file states it, has held at some tick, evaluated apart from the parsed
plan.

### SensorRecorder

`parent` is `SensorRecorderProcess`, `recorder` the worker process with its signal flag,
`rig` what is in CARLA and in the lists of the worker.  Callbacks (`PersistMeasurement`)
happen at any time while a sensor listens.  `excuses` collects the three ways in which
sensors stay: listened to but not listed, a dictionary that grows while `stop` goes over
it, a refusal of CARLA.

### DutResults

The detector writes its metrics file in place; `monitor` is the main thread of the
metrics program, `reporter` its posting thread with the queue of one, `unfinished_tasks`
and the posting flag; `receiver` is the result file and the requests that nobody waits
for any more.  The two safeguards at the end (`wait_for_idle` and `join`) are both there.

### RecordingAssets

Three tables of one SQLite database, by run; `request[t]` is a handler between two
statements, with what it has read.  Publication is find, run, hash, select, insert, and
the read and the write of the materialization row; a listing is find, run, read, write,
reread.  Runs and recorder files move by themselves, as `RunControl` and the worker move
them.  `told` is what publications answered, `alone` a listing that nobody interrupted.

### GatewayRegistry

`gateway` is the record, `calls` the requests in progress, each a read and a write of
the whole record, `sender` the loop of `run_agent`.  The agent gives calls up, dies and is
restarted by systemd; the server restarts; the record is lost; time passes in ticks up to
just beyond the stale limit.  A request that was given up is handled all the same.

### SensorProfiles

A row is where its content comes from and who created it.  A reading request imports
first (`ReadKnownIds`, `ImportProfile` per missing file, `ImportEnds`); an upsert reads the
creation and then writes.

### Worker, Stores and Deliveries

`MCWorker`, `MCStores` and `MCDeliveries` put modules that share no variable side by side for
TLC: one part moves, the others stay at their start.  Steps of different parts commute, so an
interleaving of them shows no state of a part that the part alone does not reach.

## 3. Runs

The name of a run is the suffix of its cfg.  For `RunControl` r, t, w, o, k, a are
the numbers of runs, threads, workers, overlaps, executor kills and API restarts.

| Run | Module and bounds | Properties |
| --- | --- | --- |
| restarts | `RunControl` r2 (one legacy) t1 w2 o0 k1 a0 | `NoStrandedRun`, `DrivenRunIsActive`, `FinishedRunHasMetrics`, `FollowsLifecycle`, `StopIsHonoured`, `QueuedRunLeavesQueue` |
| races | `RunControl` r1 t2 w2 o1 k0 a1 | `ExecutedAtMostOnce` |
|  | `RunControl` r3 (two legacy) t2 w2 o0 k0 a0 | `StartsAreBounded` |
| deliveries | `CommandQueue` 2 producers, 2 consumers, 2 commands, 2 kills | `LossIsTornOrOrphaned`, `ImplementsMailbox`, `EnqueuedIsReturned` |
|  | `CaptureSync` 1 capture, 2 threads, 2 processes, 1 frame, 1 fault | `RunningCaptureEnds` |
| tasks | `BenchmarkTask` 2 threads, 2 runs, 2 tasks, 3 requests about tasks, 1 API restart | `AnswerWasTrue`, `StopReachesAllRuns`, `RerunRepeats`, `FollowsTaskLifecycle` |
| captures | `CaptureSync` 2 captures (one of a refused format), 2 threads, 2 processes, 1 frame, 1 fault | `OnlyKillsOrphan`, `CompletedHasAllFrames`, `ManifestIsCurrent` |
| parts | `HilPipeline` a replay, a manual and a plain run | `CompleteStartIsStopped`, `StopsOnlyWhatItStarted` |
|  | `CarlaWorld` 2 maps, 1 preflight check, 2 drives, 1 mishap | `DrivenWorldIsItsOwn`, `WorldIsGivenBack` |
|  | `RgbPreview` 2 maps, 1 preview, 2 drives | `PreviewedRunKeepsItsWorld` |
|  | `RuntimeControl` 2 clients, 1 optional setting | `UpdateReachesWorld`, `RecorderStatusIsTrue`, `AcknowledgedIsKept` |
|  | `ScenarioEvents` 7 scenarios, times up to 6 | `EventsFireWhenDue`, `ReplayShowsItsWindow`, `TimedScenarioEnds` |
|  | `SensorRecorder` 3 sensors | `StoppedRecorderLeavesNothing`, `StopIsHeard` |
|  | `DutResults` 2 metrics, 2 attempts, 2 failures | `FinalResultStands` |
| tables | `RecordingAssets` 2 threads, a source run and a replay | `AnsweredAssetIsStored`, `CompletedAssetIsWhole`, `QuietListingIsTrue` |
|  | `GatewayRegistry` 2 calls, stale after 1 tick, 3 troubles | `HeartbeatStands`, `GatewayComesBack` |
|  | `SensorProfiles` 2 threads, 2 files, 1 more id, 2 saves | `SavedProfileIsKept` |
|  | `DocumentFile` 3 writers, 4 versions of up to 2 blocks, 1 kill, `Replaces` | `FollowsDocument` |

Why the bounds are enough.  `RunControl`: `races` has two threads, hence every race of two
requests for one run (a third would repeat one of their roles), and two workers, an orphan and
its successor; its second part has one run more than threads, so that the bound of
`StartsAreBounded` can be missed.  `restarts` has two runs, one that holds CARLA and one that
wants it.  For the other properties two runs and two threads at once are left to the proofs,
which hold for any number of either (section 4).  `ExecutedAtMostOnce` speaks of behaviours
without a split update: a split lets the status go back to QUEUED.  The state spaces are
finite without further constraints: a run is queued at most once per start request that passed
the scan. `CommandQueue`: two producers whose entries appear out of the order of their stamps,
two consumers that compete for one listing, a kill of each.  `DocumentFile`: two writers that
overlap and a third that comes later; documents that are longer and shorter than what they
replace.  `CaptureSync`: one capture to be evicted and one to be launched, the agent's call
and a client's request or an old call at the same time, an orphan and its successor; for the
liveness one capture, which a late report revives after it was stopped; an agent that has lost
one answer is back in the state that it can lose the next one from.  A start or a stop and a
report are enough to write a manifest back outdated.  `CarlaWorld`: two drives, so that one
finds what the one before has left; a map that is loaded and one that is kept.
`ScenarioEvents`: the scenarios have every kind of condition, both quantifiers over entities,
groups that parse to nothing, an entity that is never spawned, events that are due in one
tick, two events with one name, and a stop trigger that races an event; beyond `Far` no
comparison changes. The replays of `ScenarioEvents` begin at 2 and last 3, with a warm-up of 2
and without one; the wait for the hero may take longer than all of that.  `RuntimeControl`:
two requests that name the optional setting or leave it out, in either order, and a preset in
both. `SensorRecorder`: a first, a middle and a last sensor.  `DutResults`: an older and a
newer result compete for the queue of one.  `RecordingAssets`: two publications, or a
publication and a listing, of one run; a listing does not look at other rows.
`GatewayRegistry`: a call that was given up and the agent's next one; an age is fresh, stale
or never. `SensorProfiles`: two imports, or an import and a save, that compete for a row, and
a row that the import has read as known.  `BenchmarkTask`: three requests are a creation, and
then a rerun and a stop, a stop and a report, or two stops, at the same time as each other and
as the moves of the runs; two runs give a head and a run that waits behind it, and every
mixture of two statuses.

Fairness.  `RunControl`: weak fairness of each thread's steps inside a request, of
each worker's own steps and of the executor's steps: operating system processes
that run are scheduled, and nothing in their loops waits for another actor except
for the exit of the worker and for a command.  There is no fairness for requests,
deaths, kills or for starting the executor again; hence the liveness properties
speak of an executor that is up.  `CommandQueue`: each producer and each consumer
that is up goes on; kills and restarts are not fair, and `EnqueuedIsReturned` excepts
the queue that no consumer is left for.  `CaptureSync`: API threads handle what they
have begun, the agent's loop goes on (its service restarts it), a capture process
saves frames and ends after the last one; clients, faults and failures are not fair.
`RuntimeControl`, `ScenarioEvents`, `SensorRecorder`: weak fairness of the worker's own steps,
a process that runs; requests, exceptions, timeouts and signals are not fair.
`GatewayRegistry`: the agent's steps, systemd's restart of it (`Restart=always`) and the
handling of a request that has arrived; troubles are bounded.  `BenchmarkTask` has no
liveness property: that a canceled run ends is `StopIsHonoured`.

Five runs check what the repository says and TLC refutes; `findings` in
`PROJECT.json` quotes the lines.

| Run | Property | What happens |
| --- | --- | --- |
| second_start | `OneActiveRun` | two starts scan for active runs before either has made its transition: both are granted |
| lost_update | `FollowsLifecycle` | a split update undoes a terminal status |
| late_cancel | `CancelIsNoFailure` | cancel at the end of a scenario: RUNNING to CANCELED is refused, the run becomes FAILED |
| partial_start | `NothingLeftRunning` | a step fails after others were started: the controller does not know them and stops nothing |
| foreign_client | `DriverKeepsItsWorld` | the preflight check of a recording launch uses CARLA while a run is driven |

The same modules refute more when their bounds or constants are changed; these
disagreements are not runs of their own, and the hazards in `PROJECT.json` name them.
With a kill of the executor `OneDriver` fails (its worker is not stopped); with one
overlap `StopIsHonoured` fails (a split transition writes the record back without the
flag); with an API restart `NoStrandedRun` fails (queued, no command).  A stop that
reads QUEUED while the worker moves on is refused and leaves no flag.  With
`Replaces = FALSE` `AlwaysWhole` fails with one writer (`FollowsDocument` implies it: a
register never holds anything but a version).
In `CommandQueue` a command that is claimed before it is written is lost, which is
why `LossIsTornOrOrphaned` names `torn`.  In `CaptureSync` a report that is applied
after a stop turns STOPPED into RUNNING again; without the exception `overtaken`
`ManifestIsCurrent` fails (a stop reads the manifest, a report is applied, the stop writes the
older frames back).  In `RuntimeControl` `AcknowledgedIsKept` fails without `~torn` (the worker
and a client, or two clients, update the file at the same time: what one of them was granted is
overwritten, or the file is no JSON).  In `ScenarioEvents` a replay does not show its window as
a whole: with `waited` left out of its bound `ReplayShowsItsWindow` fails (the recording goes on
while the hero is awaited, and the warm-up is counted from there).

Where the code breaks a promise, the passing run says how far it keeps it: overlapping starts
activate no more runs than there are threads, an acknowledged setting is lost only when two
processes were at the file, a replay misses of its window only what was waited (and a tick)
and never its end, and a manifest is outdated only when a start or stop was overtaken.

## 4. Proofs

All theorems are about the specification of their module, for every value of the constants
that their hypotheses leave open: any number of runs, threads, workers, producers, writers,
drives, calls and kills.  The only assumptions on the constants are the ASSUMEs of the
modules.

| Theorem (module) | Says | Hypotheses |
| --- | --- | --- |
| `TypeCorrect` (`RunControlRefinement`) | `[]TypeOK` | none |
| `StepsFollowLifecycle` (`RunControlRefinement`) | every step moves at most one run, along the life cycle | as long as no update was split |
| `ImplementsLifecycle` (`RunControlRefinement`) | `FollowsLifecycle` | `MaxOverlaps = 0` |
| `OneDriverWithoutKills` (`RunControlSafety`) | `[]OneDriver` | as long as the executor was not killed |
| `NoRunIsStranded` (`RunControlSafety`) | `[]NoStrandedRun` | as long as no update was split and the API server not restarted |
| `StartsStayBounded` (`RunControlSafety`) | `[]StartsAreBounded` | none (the property speaks of behaviours without a split) |
| `RunExecutedAtMostOnce` (`RunControlSafety`) | `[]ExecutedAtMostOnce` | none (the property speaks of behaviours without a split) |
| `DrivenRunIsAlwaysActive` (`RunControlSafety`) | `[]DrivenRunIsActive` | as long as no update was split |
| `FinishedRunsKeepMetrics` (`RunControlSafety`) | `[]FinishedRunHasMetrics` | none |
| `QueueTypeCorrect` (`CommandQueueProofs`) | `[]TypeOK` | none |
| `NoCommandReturnsTwice` (`CommandQueueProofs`) | `[]ReturnedAtMostOnce` | none |
| `LossIsAccountedFor` (`CommandQueueProofs`) | `[]LossIsTornOrOrphaned` | none |
| `QueueIsMailbox` (`CommandQueueProofs`) | `ImplementsMailbox` | none |
| `FileTypeCorrect` (`StoresProofs`) | `[]TypeOK` | none |
| `ReplacedIsAlwaysWhole` (`StoresProofs`) | `[]AlwaysWhole` | `Replaces` |
| `ReplacedFollowsDocument` (`StoresProofs`) | `FollowsDocument` | `Replaces` |
| `CarlaTypeCorrect` (`CarlaWorldProofs`) | `[]CarlaTypeOK` | none |
| `UndisturbedWorldIsItsOwn` (`CarlaWorldProofs`) | `[]DrivenWorldIsItsOwn` | none |
| `UndisturbedWorldIsGivenBack` (`CarlaWorldProofs`) | `[]WorldIsGivenBack` | none |
| `RegistryTypeCorrect` (`StoresProofs`) | `[]RegistryTypeOK` | none |
| `LastHeartbeatStands` (`StoresProofs`) | `[]HeartbeatStands` | none |
| `SilenceIsShown` (`StoresProofs`) | `[]SilentGatewayIsOffline` | none |
| `LibraryTypeCorrect` (`StoresProofs`) | `[]LibraryTypeOK` | none |
| `YamlProfilesAreThere` (`StoresProofs`) | `[]ImportedBeforeAnswer` | none |
| `SavedProfilesAreKept` (`StoresProofs`) | `SavedProfileIsKept` | none |
| `AssetTypeCorrect` (`StoresProofs`) | `[]AssetTypeOK` | none |
| `AnswersAreStored` (`StoresProofs`) | `[]AnsweredAssetIsStored` | none |
| `CompletedAssetsAreWhole` (`StoresProofs`) | `[]CompletedAssetIsWhole` | none |
| `QuietListingsAreTrue` (`StoresProofs`) | `[]QuietListingIsTrue` | none |
| `PreviewTypeCorrect` (`CarlaWorldProofs`) | `[]PreviewTypeOK` | none |
| `PreviewedRunsKeepTheirWorld` (`CarlaWorldProofs`) | `[]PreviewedRunKeepsItsWorld` | none |
| `PipelineTypeCorrect` (`WorkerProofs`) | `[]TypeOK` of `HilPipeline` | none |
| `CompleteStartsAreStopped` (`WorkerProofs`) | `[]CompleteStartIsStopped` | none |
| `CleanupStopsItsOwn` (`WorkerProofs`) | `StopsOnlyWhatItStarted` | none |
| `RecorderTypeCorrect` (`WorkerProofs`) | `[]RecorderTypeOK` | none |
| `StoppedRecorderIsClean` (`WorkerProofs`) | `[]StoppedRecorderLeavesNothing` | none |
| `ControlTypeCorrect` (`WorkerProofs`) | `[](ControlTypeOK /\ LoopTypeOK)` | none |
| `RecorderStatusStaysTrue` (`WorkerProofs`) | `[]RecorderStatusIsTrue` | none |
| `AcknowledgedStaysKept` (`WorkerProofs`) | `[]AcknowledgedIsKept` | none (the property speaks of a file that was not torn) |
| `DutTypeCorrect` (`WorkerProofs`) | `[]DutTypeOK` | none |
| `FinalResultsStand` (`WorkerProofs`) | `[]FinalResultStands` | none |
| `ReplaysShowTheirWindow` (`WorkerProofs`) | `[]ReplayShowsItsWindow` | none |
| `PlayTypeCorrect` (`WorkerProofs`) | `[]PlayTypeOK` | none |
| `PlayedEventsFireWhenDue` (`WorkerProofs`) | `[]EventsFireWhenDue` | none |
| `CaptureTypeCorrect` (`CaptureSyncProofs`) | `[]TypeOK` | none |
| `OnlyKillsLeaveOrphans` (`CaptureSyncProofs`) | `[]OnlyKillsOrphan` | none |
| `CapturesAreStarted` (`CaptureSyncProofs`) | `[]OnlyStartedIsCaptured` | none |
| `CompletedCapturesHaveFrames` (`CaptureSyncProofs`) | `[]CompletedHasAllFrames` | none |
| `OnlyOvertakenManifestsAreStale` (`CaptureSyncProofs`) | `[]ManifestIsCurrent` | none (the property speaks of an agent that gave up no call) |
| `AnswersWereTrue` (`BenchmarkTaskProofs`) | `[]AnswerWasTrue` | none |
| `StopsReachAllRuns` (`BenchmarkTaskProofs`) | `[]StopReachesAllRuns` | none |
| `RerunsRepeat` (`BenchmarkTaskProofs`) | `[]RerunRepeats` | none |
| `TasksFollowLifecycle` (`BenchmarkTaskProofs`) | `FollowsTaskLifecycle` | none |
| `BenchTypeCorrect` (`BenchmarkTaskProofs`) | `[]TypeOK` | none |

The hypotheses are the ones under which TLC finds the property to hold; section 3
says what fails without them.  "As long as" is a condition on the state, not on the
constants: `Spec => [](overlaps = 0 => P)` says that `P` holds in a behaviour with any
bounds up to the first split update, so that only what has happened, and not what may
still happen, takes the guarantee away.  The runs check these properties with the bound at
0, where the condition is always met.

*Types.*  One lemma per local update (`ApiGoto`, `WorkerEnds`, ...) and per store
call, one per process, and the parts of the invariant that a step does not touch
in one lemma (`Untouched`).

*Refinement.*  `RefinementInv` adds to the types that whoever works on a run found its record:
without that a transition could start from a status outside the table.  It is kept by every
step that does not split an update; `CountersGrow` (what is used of a bound stays used) makes
`overlaps = 0 => RefinementInv` an invariant, and the same step serves the theorems of
`RunControlSafety` for `overlaps`, `kills` and `apiRestarts`.  It also says that workers,
commands and the executor deal with runs that have been queued (`Begun`), which the later
proofs need.  Every step then changes the status of at most one run, along the table.

*One driver.*  Every worker process is the one for which the executor waits.

*Starts.*  `StartsInv`: the active runs and those whose start has passed its scan are not
more than the threads.  A scan succeeds only if every active run, but for its own, is none;
at that step the set consists of runs that threads are about to transition, and choosing
for each such run its thread is an injection (`ChargedToThreads`).  Every other step keeps
the set or makes it smaller: a run becomes active only by the transition of a thread whose
scan has counted it.

*No stranded run.*  `NoStrandedRun` is inductive together with `ExecLocals` (between
commands the executor holds no run) and the refinement invariant: a run becomes
active only by `StartTransition`, whose thread has to enqueue it; a command leaves
the queue only into the executor; the executor lets go of a run only when the run
is not active or when it goes down, and its next start finds all active runs.

*Executed at most once.*  A worker increments `executed` when it finds its run
QUEUED, before the transition that makes the run STARTING, so the invariant must
exclude a second worker in that window.  `OccupiedRunsHeld` says that a run that
has or had a worker and is still QUEUED is held by the executor that waits for the
worker, or by the recovery that will fail it before the next command is taken, or
that the executor is down; `BootsFirst` says that a worker that has not looked at a
QUEUED run yet is the only one.

*Driven run.*  By `TakenOnce` the worker of a run is the only one that moves it on;
the executor moves it to FAILED only when it does not wait for that worker
(`AwaitedToExit`).

*Metrics.*  A run that ended COMPLETED or FAILED counts as finished as soon as its
record says so, or a copy of the record that an update still holds.  `MetricsInv` says
who owes it a metrics file: the worker writes the file before it writes the final status
(`MetricsFirst`); the executor does it in the two steps of `WriteMetrics`, and only a kill
in between loses the file (`LostByKills`: no more runs without it than kills).  Since
copies are part of the invariant (`CopiesHeld`), overlaps need no hypothesis.

*Queue.*  `returned` only grows when a consumer returns a command that it holds, so
the invariant of `CommandQueueProofs` says who may hold one: a held command is
`.processing`, no two consumers hold the same, and one that has been returned is gone.
The candidate of a consumer, the smallest name of its listing, exists by the minimum
of a set of naturals.  Each rename is then a `Take`, each creation a `Put`.

*Document.*  `OwnTemp` says that the temporary file of a writer holds as many blocks
of its version as it has written: nobody else opens it.  The replace then puts a
whole version in place, and a version that has been issued keeps its size.  For the
refinement, `HeldVersion`: a document that is the blocks of a version holds that version and
no other, since its first block tells; so opening and dumping a temporary file are stutters
(`HeldStays`) and the replace is the one step of a save.

*World of CARLA.*  `CarlaInv` says what a process owes to the server at its program
counter: a world that was configured has the map and the mode asked for (`WorldObeys`);
what is remembered as the original mode is the one to go back to, and what stands in the
world is spawned by the session or leaked by a run before it (`Accounts`).  All of it is
about a process that is alone (`Alone`); `mixed` and `spoiled` record when that ends, and
the properties stop there.

*Gateway record.*  `CopiesStand`: unless requests have crossed, at most one of them holds
a copy that is still to be saved, and a registration's copy has the last heartbeat.
`NoneIsYounger` needs no such condition: no record and no copy is younger than the last
heartbeat that arrived, and everything ages alike.

*Sensor profiles.*  What an import knows to be there is there, because no step removes a
row (`RowsKept`, which is proved of every step together with the invariant); after an
import all YAML profiles are.  The content of an update is new, so it cannot be Yaml's.

*Recordings.*  `Settled` is what no step takes back: a stored asset, a stored row, a
COMPLETED run with its file.  So what a request has read in one statement still holds in
the next one (`ThreadsInv`), in particular for a publication: it read the status before
the file, hence COMPLETED means the file's final hash (`WholeAsset`).  A row says published
only if the asset is stored, and every answer was the stored asset (`TablesInv`).
`AloneInv` is about a listing that nobody interrupts: it has read what is there.

*Previews.*  `PreviewInv` says who may change the world of a run that is driven: a vehicle
that a preview calls its own is one that it has spawned, unless it has poached one
(`OwnEgoIsOwn`); nobody is setting the world up while a run is in it, unless that has
disturbed the run (`DriverIsApart`); hence without the two the world stays as the run has
set it up (`WorldObeysDriver`).

*Sidecars.*  `PipelineInv` says where a sidecar that the worker has started is to be found:
in the list of a start in progress (`StartedSoFar`), and after a complete start in the list
that the clean-up goes through (`StillToStop`).

*Recorder.*  `RigInv`: what CARLA has of the recorder's sensors is what the recorder lists,
but for the one that it is attaching, until one of the three excuses holds.

*Control file.*  `ControlInv`: as long as no two processes are at the file, an empty file
has the one writer that is to fill it (`OneWriter`), and what the file says of the recorder,
or the worker's copy that is still to be written, fits the worker's program counter
(`StatusInv`, `RecordingInv`).  `WeatherInv` adds what was acknowledged: it is in the file, and
in the copy of whoever has an update in progress, merged with the patch of a client
(`MergedIsGranted`), or as it was for the worker, so that writing the copy back keeps it;
only a poll takes the file for known, in the step that applies it.

*Device results.*  `DutInv`: the signature by which the metrics program recognises a file is
never ahead of the file (`MetricsInv`); the counter of the queue is what is in it and with
the reporter (`CountInv`); the final result is in the queue, with the reporter or with the
receiver, and nothing older comes after it (`FinalInv`).

*Replay.*  `PositionInv` ties the position in the recording to the clocks of the warm-up and
of the loop.  It has come at least as far as the clock says, or to the end of what
`replay_file` was asked for (`HasCome`), which shows that a completed replay has seen the
window to its end; and it is ahead of the clock at most by what was waited (`AheadBy`),
which bounds what is missing at the beginning.

*Events.*  `DueInv` follows an event through the loop: it has fired at most once, and only when
it was due; one that is due and has not fired is still ahead in this tick, and its trigger
holds now, unless the scenario has failed; once a tick has been measured, what holds is due.
The events that are left are naturals, so the next one is a least element.  That the trigger
the plan keeps means what the file states (`PlannedAsStated`) needs that the file has no
group without conditions: the parser drops such a group, while a conjunction of nothing
would hold.  The first attempt at this proof failed there, and `PlayableEvents` names the
condition now.  For the proof, triggers are sets and a plan a function on places of the file,
where they had been sequences made by `SelectSeq`.

*Captures.*  `NamesAreKnown` and `AgentKnowsRuntime` say that what the agent, its requests and
the runtime file name are captures that were started, that the agent's copy of the runtime
file is the file's content wherever it acts on it, and that it gives up the file only when the
process has ended or was told to.  `FramesAreThere` extends the property to the reports that
are being handled; `OneReport` says that, while no call was given up, at most one report is on
its way, and that a manifest that differs from its record is about to be written by that
report, unless it was overtaken: a start or stop writes back what it had read before the
report, which only the next report puts right; `CopiesCurrent` that otherwise what a start or
stop has read is still what the manifest lists; `FewOrphans` that every kill leaves at most one
process that the runtime file does not know.

*Benchmark tasks.*  The runs of a task never go back: `Settled` (ended, or working with the
cancel flag) and `Begun` are kept by every step of every actor (`Moves`).  `Stopper` says
that what a stop has passed is settled.  `Reader` is the argument for `AnswerWasTrue`: what
was seen as ended or begun is so still (`SeenStays`); who has seen only CREATED has either
read while the task was CREATED, or one of the runs it has not read has begun and it will
see that (`CreatedWasTrue`); who has seen a run that had not ended has read while the task
was RUNNING, or nothing has begun, or the task has one run (`RunningWasTrue`).  The two lemmas
`DeriveCases` and `TruthCases` compare the code's derivation with the meaning of a status;
in writing them it turned out that the CASE by which the model stated `_derive_task_status`
had overlapping guards: TLC takes the first, as the code does, but TLA+ leaves the value
open.  It is an IF now, and so is the one in `MeantCondition` of `ScenarioEvents`.  That a
rerun repeats is a lemma about `Entry` and `ReplayRow` (`EntriesRepeat`), which uses that the
stand-ins `scenario_default` and `disabled` are no names of presets and profiles.  What
`SelectSeq` and the folds of `Matrix` compute is induction over data; `MatricesAreLists`
assumes of it that a planned matrix is a list with at least one row, and TLC evaluates that
for the requests of the run.  Its type correctness needs `Tidy` (what a thread does not use
is empty) and `FewRuns`: a list of different runs is no longer than there are runs, which
bounds the index of a stop.

*Task life cycle.*  `Owned`: no two tasks, no two requests, and no task and request have a run
in common, because a row creates the run that it lists and a stored list never changes.  So
a step, which changes one run at most, moves the derived status of one task at most
(`OneTaskMoves`); `VerdictMoves` says where to, from `Moves` and from the cases of `Derive`.
A stored report and an acknowledged stop are `Report` and `Stop` because what the request has
read is still so (`Reader`, `Stopper`).

Stated and proved, but checked by no run: the type invariants, `OneDriver`,
`ReturnedAtMostOnce`, `SilentGatewayIsOffline`, `ImportedBeforeAnswer`, `OnlyStartedIsCaptured`
and `AlwaysWhole`.

Model-checked only:

* the liveness properties (`StopIsHonoured`, `QueuedRunLeavesQueue`, `EnqueuedIsReturned`,
  `RunningCaptureEnds`, `UpdateReachesWorld`, `TimedScenarioEnds`, `StopIsHeard`,
  `GatewayComesBack`): fairness and ENABLED are out of the prover's reach;
* the violations.

## 5. Plan

In order of importance; each module gets an instance for TLC, properties that watch its
hazards, and proofs where the prover can follow.  The runs are few: modules that share no
variable are put side by side in one (`MCWorker`, `MCStores`, `MCDeliveries`).

1. `RunControl`, `RunLifecycle` (done): the run life cycle under concurrency.
2. `CommandQueue`, `Mailbox`, `DocumentFile`, `Document` (done): the files below it.
3. `HilPipeline` (done): what was started is stopped.
4. `CaptureSync` (done): server record, agent, capture process.
5. `BenchmarkTask`, `TaskLifecycle` (done): creation with auto-start, derived status, stop, rerun,
   report.
6. `CarlaWorld`, `RgbPreview` (done): the one server that all of them change.
7. `RecordingAssets`, `GatewayRegistry`, `SensorProfiles` (done): tables and records of
   the API server.
8. `ScenarioEvents`, `RuntimeControl`, `SensorRecorder`, `DutResults` (done): the parts of
   a worker and of the device.
9. Proofs (done): type correctness, every safety and action property that a passing run
   checks, and the four refinements (`RunLifecycle`, `Mailbox`, `Document`, `TaskLifecycle`).
10. Models, left: the copy of the status in the task file and who reads it unsynced; the
    rescan of scenario source files into their table; the seeding of projects and
    benchmark definitions by two first requests.

## 6. Not modelled

* `api/schemas.py`: declarations of fields.  `scenario/launch_builder.py`, `descriptor.py`,
  `template_registry.py`, `platform_catalog.py`, `source_discovery.py`: pure data
  transformation, with nothing that a state machine would show; a model of them would repeat
  their text.
* Projects and benchmark definitions: single files that are written once, when the first
  request finds none, and then only read.
* The workers that read maps, weather and views from CARLA, the viewer and the frontend: they
  change nothing of the platform.  Media, RTP and inference programs and the scripts of the
  devices: I/O; their start and stop is `HilPipeline`.
* Deployment, migration and smoke test scripts.
* Within the parts that are modelled: SQLite that answers "database is locked", files that are
  removed by hand (but for the record of a gateway), a second detector session on one device,
  the device metrics that a heartbeat copies to its run, the Traffic Manager, and all geometry
  (spawn points, lanes, routes), of which the models keep whether it succeeds.

`PROJECT.json` ("components") gives the reason for each part, and the notes of its hazards say
what no property covers.
