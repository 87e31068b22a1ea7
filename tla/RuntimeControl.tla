---------------------------- MODULE RuntimeControl ----------------------------
(***************************************************************************)
(* The control file of a run (RunControlStore): the API writes the weather *)
(* that a client asks for into it (POST /runs/{id}/environment), a preset  *)
(* and, as it likes, single settings, which are merged into those of the   *)
(* earlier requests; the worker reads it before every tick and applies     *)
(* what is new to CARLA; the worker itself keeps the state of the CARLA    *)
(* recorder in another section.  An update reads the file, merges its      *)
(* patch and writes everything back in place; opening the file for writing *)
(* truncates it, and nothing locks it: a reader may find it empty, a       *)
(* writer may put an old copy back.  The life of the run around the loop   *)
(* is RunControl.                                                          *)
(***************************************************************************)
CONSTANTS
    Clients,            \* requests to change the weather, each to values of its own
    Fields              \* the optional settings: cloudiness, fog_density, ...

Worker == "worker"
Writers == Clients \union {Worker}
Settings == Fields \union {"preset"}
NoValue == "none"
FromDescriptor == "descriptor"

ASSUME ControlConstants ==
    /\ Worker \notin Clients /\ NoValue \notin Clients /\ FromDescriptor \notin Clients
    /\ "preset" \notin Fields

VARIABLES
    control,    \* the control file
    io,         \* the update that each process has in progress
    loop,       \* program counter and locals of the worker
    carla,      \* weather of the world; whether CARLA is recording
    granted,    \* history: of each setting, the request that was granted it last
    torn        \* history: the file was used while an update was in progress

controlVars == <<control, io, loop, carla, granted, torn>>

(* news: the file was saved since the worker looked at it; every save has  *)
(* a time stamp of its own, so that a saved file is never equal to the     *)
(* signature that the worker keeps of the last one.                        *)
(* A weather: of each setting, the request that named it.  A setting that  *)
(* nobody has named is the one that the preset has.                        *)
Weathers == [Settings -> Clients \union {NoValue}]
NoWeather == [k \in Settings |-> NoValue]
FirstWeather == [k \in Settings |-> FromDescriptor]

RecorderStatus == {"absent", "DISABLED", "STOPPED", "STARTING", "RUNNING", "ERROR"}
Text(weather, recorder) ==
    [text |-> "whole", weather |-> weather, recorder |-> recorder, news |-> TRUE]
NoText(kind) == [text |-> kind, weather |-> NoWeather, recorder |-> "absent", news |-> TRUE]

NoUpdate == [pc |-> "none", weather |-> NoWeather, recorder |-> "absent"]

ControlInit ==
    /\ control = NoText("missing")
    /\ io = [p \in Writers |-> NoUpdate]
    /\ \E on \in BOOLEAN :
            loop = [pc |-> "boot", recorder |-> on, held |-> FALSE]
    /\ carla = [weather |-> FirstWeather, recording |-> FALSE]
    /\ granted = NoWeather /\ torn = FALSE

-------------------------------------------------------------------------------
(* RunControlStore.update.                                                 *)

Unreadable == control.text \in {"empty", "garbled"}
Between(p) == io[p].pc \in {"open", "write"}
Disturbed(p) == torn \/ \E q \in Writers \ {p} : Between(q)

(* get: JSONDecodeError on a file that is empty or garbled, {} without one *)
(* The weather of the patch is merged in at once.                          *)
Loaded(p, weather) ==
    /\ ~Unreadable
    /\ io' = [io EXCEPT ![p] = [pc |-> "open", weather |-> weather,
                                recorder |-> control.recorder]]
    /\ torn' = Disturbed(p)

OpenForWriting(p) ==
    /\ io[p].pc = "open"
    /\ control' = NoText("empty")
    /\ io' = [io EXCEPT ![p].pc = "write"]
    /\ torn' = Disturbed(p)
    /\ UNCHANGED <<loop, carla, granted>>

(* The dump reaches the file when it is closed.  A writer that opened the  *)
(* file before another one closed it leaves the tail of a longer text.     *)
Dumped(weather, recorder) ==
    control' \in {Text(weather, recorder)} \union
                 (IF control.text = "empty" THEN {} ELSE {NoText("garbled")})

PatchForgetsWeather(p, recorder) ==          \* mutant: sections are not merged
    Dumped(NoWeather, recorder)
PatchRecorder(p, recorder) == Dumped(io[p].weather, recorder)

-------------------------------------------------------------------------------
(* update_run_environment.  The record of the run keeps the patch alone;   *)
(* the descriptor that it belongs to was read when the run was started.    *)

(* The settings that a request names: a preset always.                     *)
Patch(c, named) == [k \in Settings |-> IF k \in named \union {"preset"} THEN c ELSE NoValue]

Replaced(weather, patch) == patch                          \* mutant: not merged
Merged(weather, patch) ==
    [k \in Settings |-> IF patch[k] # NoValue THEN patch[k] ELSE weather[k]]

RequestUpdate(c) ==
    /\ io[c].pc = "none"
    /\ \/ \E named \in SUBSET Fields : Loaded(c, Merged(control.weather, Patch(c, named)))
       \/ Unreadable /\ io' = [io EXCEPT ![c].pc = "refused"] /\ torn' = Disturbed(c)
    /\ UNCHANGED <<control, loop, carla, granted>>

Granted(c) == [k \in Settings |-> IF io[c].weather[k] = c THEN c ELSE granted[k]]

SaveWeather(c) ==
    /\ io[c].pc = "write"
    /\ Dumped(io[c].weather, io[c].recorder)
    /\ granted' = Granted(c)
    /\ io' = [io EXCEPT ![c] = [NoUpdate EXCEPT !.pc = "granted"]]
    /\ torn' = Disturbed(c)
    /\ UNCHANGED <<loop, carla>>

-------------------------------------------------------------------------------
(* The worker: execute_run.                                                *)

LoopGoto(pc) == loop' = [loop EXCEPT !.pc = pc]

(* Where an exception leads: out of the try block; or, from the updates of *)
(* _stop_simulation_recorder, to the ERROR status and out of the clean-up. *)
Escape(pc) == CASE pc = "stopped" -> "stopError" [] pc = "stopError" -> "over"
                [] OTHER -> "stop"

(* The updates of the worker and what comes after each of them.            *)
SectionAt ==
    [boot |-> IF loop.recorder THEN "STOPPED" ELSE "DISABLED",
     starting |-> "STARTING", started |-> "RUNNING", startError |-> "ERROR",
     stopped |-> "STOPPED", stopError |-> "ERROR"]
NextAt ==
    [boot |-> "setup", starting |-> "record", started |-> "loop", startError |-> "loop",
     stopped |-> "over", stopError |-> "over"]

WorkerLoads ==
    /\ loop.pc \in DOMAIN SectionAt
    /\ io[Worker].pc = "none"
    /\ \/ Loaded(Worker, control.weather) /\ UNCHANGED loop
       \/ /\ Unreadable
          /\ LoopGoto(Escape(loop.pc))
          /\ torn' = Disturbed(Worker)
          /\ UNCHANGED io
    /\ UNCHANGED <<control, carla, granted>>

(* mutant: the manager is kept when the recorder has failed to start       *)
HeldIfRunning(pc) == pc = "startError"
Held(pc) == pc = "started"

WorkerDumps ==
    /\ io[Worker].pc = "write"
    /\ PatchRecorder(Worker, SectionAt[loop.pc])
    /\ io' = [io EXCEPT ![Worker] = NoUpdate]
    /\ loop' = [loop EXCEPT !.pc = NextAt[loop.pc], !.held = @ \/ Held(loop.pc)]
    /\ torn' = Disturbed(Worker)
    /\ UNCHANGED <<carla, granted>>

(* Map, weather of the descriptor, actors; anything of it may fail.        *)
WorkerSetsUp ==
    /\ loop.pc = "setup"
    /\ \E pc \in {IF loop.recorder THEN "starting" ELSE "loop", "stop"} : LoopGoto(pc)
    /\ UNCHANGED <<control, io, carla, granted, torn>>

(* recorder.start; a failure does not end the run.                         *)
StartRecorder ==
    /\ loop.pc = "record"
    /\ \/ carla' = [carla EXCEPT !.recording = TRUE] /\ LoopGoto("started")
       \/ LoopGoto("startError") /\ UNCHANGED carla
    /\ UNCHANGED <<control, io, granted, torn>>

HasWeather == control.weather["preset"] # NoValue
Applied(news) == news

(* control_store.get and _apply_environment_update, which sets the preset  *)
(* and then every setting that was named; an unreadable file ends the run  *)
(* as FAILED.                                                              *)
PollControl ==
    /\ loop.pc = "loop"
    /\ \/ /\ Unreadable
          /\ LoopGoto("stop")
          /\ UNCHANGED <<control, carla>>
       \/ /\ ~Unreadable
          /\ LoopGoto("tick")
          /\ control' = [control EXCEPT !.news = FALSE]
          /\ IF Applied(control.news) /\ HasWeather
             THEN carla' = [carla EXCEPT !.weather = control.weather]
             ELSE UNCHANGED carla
    /\ torn' = Disturbed(Worker)
    /\ UNCHANGED <<io, granted>>

(* A tick; the run goes on, or it ends: its stop trigger, a stop request,  *)
(* an exception.                                                           *)
TickWorld ==
    /\ loop.pc = "tick"
    /\ LoopGoto("loop") \/ LoopGoto("stop")
    /\ UNCHANGED <<control, io, carla, granted, torn>>

StopRecorder ==
    /\ loop.pc = "stop"
    /\ \/ ~loop.held /\ LoopGoto("over") /\ UNCHANGED carla
       \/ loop.held /\ carla' = [carla EXCEPT !.recording = FALSE] /\ LoopGoto("stopped")
       \/ loop.held /\ LoopGoto("stopError") /\ UNCHANGED carla
    /\ UNCHANGED <<control, io, granted, torn>>

LoopStep ==
    \/ WorkerLoads \/ OpenForWriting(Worker) \/ WorkerDumps \/ WorkerSetsUp
    \/ StartRecorder \/ PollControl \/ TickWorld \/ StopRecorder

ControlNext ==
    \/ LoopStep
    \/ \E c \in Clients : RequestUpdate(c) \/ OpenForWriting(c) \/ SaveWeather(c)

ControlSpec == ControlInit /\ [][ControlNext]_controlVars
ControlFairness == WF_controlVars(LoopStep)
-------------------------------------------------------------------------------
(* Properties.                                                             *)

ControlTypeOK ==
    /\ control \in [text: {"missing", "empty", "garbled", "whole"}, weather: Weathers,
                    recorder: RecorderStatus, news: BOOLEAN]
    /\ io \in [Writers -> [pc: {"none", "open", "write", "granted", "refused"},
                           weather: Weathers, recorder: RecorderStatus]]
    /\ carla \in [weather: Weathers \union {FirstWeather}, recording: BOOLEAN]
    /\ granted \in Weathers

(* Each setting that was granted to a request becomes that of the world    *)
(* while the run goes on, also when later requests do not name it or the   *)
(* worker wrote its own section in between; unless a later request names   *)
(* it, or the file was used by two processes at a time.                    *)
UpdateReachesWorld ==
    \A c \in Clients, k \in Settings :
        granted[k] = c /\ loop.pc \in {"boot", "setup", "loop"}
            ~> carla.weather[k] = c \/ granted[k] # c \/ torn \/ loop.pc \in {"stop", "over"}

(* When the worker is through, the control file does not claim that the    *)
(* recorder is running, and CARLA records nothing unless the file says     *)
(* that the recorder could not be stopped: unless the file was used by two *)
(* processes at a time.                                                    *)
RecorderStatusIsTrue ==
    loop.pc = "over" /\ ~torn /\ ~Unreadable =>
        /\ control.recorder \in {"absent", "DISABLED", "STOPPED", "ERROR"}
        /\ carla.recording => control.recorder = "ERROR"

(* What a client was told is in effect is never lost behind its back: as   *)
(* long as nobody used the control file while an update was in progress,   *)
(* the file has every setting as it was granted last, and the world either *)
(* has them all or the worker still takes the file for new - also after    *)
(* the worker has written back the copy that it read for its own section.  *)
AcknowledgedIsKept ==
    granted # NoWeather /\ ~torn /\ ~Unreadable =>
        /\ control.weather = granted
        /\ control.news \/ carla.weather = granted
===============================================================================
