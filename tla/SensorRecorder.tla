---------------------------- MODULE SensorRecorder ----------------------------
(***************************************************************************)
(* The sensor recorder: SensorRecorderProcess starts a worker process and  *)
(* waits for its state file to say "ready"; the worker attaches sensors to *)
(* the hero, and CARLA calls it back with measurements on threads of its   *)
(* own until it is told to stop.  A signal only sets a flag that the       *)
(* worker looks at when it has attached everything.  A timeout may expire  *)
(* at any time.  Each run has an output directory, and so a state file, of *)
(* its own.                                                                *)
(***************************************************************************)
EXTENDS Naturals

CONSTANT
    NumSensors          \* sensors of the descriptor, attached in this order

ASSUME RecorderConstants == NumSensors \in Nat \ {0}

Sensors == 1 .. NumSensors

VARIABLES
    parent,     \* SensorRecorderProcess: program counter
    recorder,   \* the worker: program counter; _request_stop was called
    state_path, \* status in the state file of the worker
    rig,        \* sensors in CARLA, in _spawned_sensors, listening; handles
    excuses     \* history: why sensors may be left in CARLA

recorderVars == <<parent, recorder, state_path, rig, excuses>>

(* closing: handles that the loop of stop has still to close; changed: a   *)
(* handle was added to the dictionary while it goes over it.               *)
RecorderInit ==
    /\ parent = "new"
    /\ recorder = [pc |-> "none", stop_requested |-> FALSE]
    /\ state_path = "absent"
    /\ rig = [spawned |-> {}, listed |-> {}, listening |-> {}, handles |-> {},
              closing |-> {}, changed |-> FALSE]
    /\ excuses = {}

RecorderEnded == recorder.pc \in {"exited", "killed"}
RecorderAlive == recorder.pc # "none" /\ ~RecorderEnded
RecorderGoto(pc) == recorder' = [recorder EXCEPT !.pc = pc]

-------------------------------------------------------------------------------
(* SensorRecorderProcess.                                                  *)

StartRecorderProcess ==
    /\ parent = "new"
    /\ parent' = "wait"
    /\ state_path' = "absent"
    /\ RecorderGoto("boot")
    /\ UNCHANGED <<rig, excuses>>

(* One look at the state file and at the process; a start that fails stops *)
(* the worker before it raises.                                            *)
AwaitReady ==
    /\ parent = "wait"
    /\ \/ state_path = "ready" /\ parent' = "ready"
       \/ state_path = "error" /\ parent' = "stop"
       \/ state_path # "ready" /\ RecorderEnded /\ parent' = "stop"
       \/ state_path # "ready" /\ parent' = "stop"     \* startup timeout
    /\ UNCHANGED <<recorder, state_path, rig, excuses>>

RequestRecorderStop ==
    /\ parent = "ready"
    /\ parent' = "stop"
    /\ UNCHANGED <<recorder, state_path, rig, excuses>>

TerminateRecorder ==
    /\ parent = "stop"
    /\ IF RecorderEnded THEN parent' = "over" /\ UNCHANGED recorder
       ELSE parent' = "join" /\ recorder' = [recorder EXCEPT !.stop_requested = TRUE]
    /\ UNCHANGED <<state_path, rig, excuses>>

JoinOrKill ==
    /\ parent = "join"
    /\ parent' = "over"
    /\ IF RecorderEnded THEN UNCHANGED recorder ELSE RecorderGoto("killed")
    /\ UNCHANGED <<state_path, rig, excuses>>

(* The worker of the run is killed, and its recorder lives on; somebody    *)
(* else signals or kills the recorder.                                     *)
ParentDies ==
    /\ parent \in {"wait", "ready", "stop", "join"}
    /\ parent' = "dead"
    /\ UNCHANGED <<recorder, state_path, rig, excuses>>

SignalFromOutside ==
    /\ RecorderAlive
    /\ \/ recorder' = [recorder EXCEPT !.stop_requested = TRUE]
       \/ RecorderGoto("killed")
    /\ UNCHANGED <<parent, state_path, rig, excuses>>

-------------------------------------------------------------------------------
(* run_sensor_recorder_worker and SensorRecorder.start.                    *)

WriteWorkerState(status, pc) ==
    /\ state_path' = status
    /\ RecorderGoto(pc)
    /\ UNCHANGED <<parent, rig, excuses>>

(* The descriptor is read; a recorder is made; the hero is awaited.  A     *)
(* failure before there is a recorder leaves nothing to stop.              *)
BootRecorder ==
    /\ recorder.pc = "boot"
    /\ \/ RecorderGoto("attach") /\ UNCHANGED state_path
       \/ RecorderGoto("report") /\ state_path' = "error"
    /\ UNCHANGED <<parent, rig, excuses>>

AttachSensor(s) ==
    /\ recorder.pc = "attach" /\ rig.listed = 1 .. s - 1
    /\ RecorderGoto("listen")
    /\ rig' = [rig EXCEPT !.spawned = @ \union {s}]
    /\ UNCHANGED <<parent, state_path, excuses>>

(* mkdir and listen come before the sensor is remembered.                  *)
ListenToSensor(s) ==
    /\ recorder.pc = "listen" /\ rig.listed = 1 .. s - 1
    /\ RecorderGoto("list")
    /\ rig' = [rig EXCEPT !.listening = @ \union {s}]
    /\ UNCHANGED <<parent, state_path, excuses>>

(* mutant: the sensor is remembered only when another one follows          *)
ListedBeforeLast(listed, s) == IF s = NumSensors THEN listed ELSE listed \union {s}
Listed(listed, s) == listed \union {s}

ListSensor(s) ==
    /\ recorder.pc = "list" /\ rig.listed = 1 .. s - 1
    /\ RecorderGoto(IF s = NumSensors THEN "announce" ELSE "attach")
    /\ rig' = [rig EXCEPT !.listed = Listed(@, s)]
    /\ UNCHANGED <<parent, state_path, excuses>>

AttachFails ==
    /\ recorder.pc \in {"attach", "listen"}
    /\ RecorderGoto("error")
    /\ excuses' = excuses \union (IF recorder.pc = "listen" THEN {"unlisted"} ELSE {})
    /\ UNCHANGED <<parent, state_path, rig>>

AnnounceReady == recorder.pc = "announce" /\ WriteWorkerState("ready", "serve")
AnnounceError == recorder.pc = "error" /\ WriteWorkerState("error", "stop")

(* mutant: the worker relies on its parent to wait for it                  *)
StopSeenIfParent == recorder.stop_requested /\ parent # "dead"
StopSeenByRecorder == recorder.stop_requested

Serve ==
    /\ recorder.pc = "serve" /\ StopSeenByRecorder
    /\ RecorderGoto("stop")
    /\ UNCHANGED <<parent, state_path, rig, excuses>>

(* A callback that keeps records opens its file with the first of them,    *)
(* under a lock that stop does not take.                                   *)
PersistMeasurement(s) ==
    /\ RecorderAlive /\ s \in rig.listening \ rig.handles
    /\ rig' = [rig EXCEPT !.handles = @ \union {s},
                          !.changed = @ \/ recorder.pc = "close"]
    /\ UNCHANGED <<parent, recorder, state_path, excuses>>

-------------------------------------------------------------------------------
(* SensorRecorder.stop.                                                    *)

BeginClosing ==
    /\ recorder.pc = "stop"
    /\ RecorderGoto("close")
    /\ rig' = [rig EXCEPT !.closing = rig.handles, !.changed = FALSE]
    /\ UNCHANGED <<parent, state_path, excuses>>

(* The loop over the dictionary raises when the dictionary has grown, and  *)
(* nothing is stopped or destroyed then.                                   *)
CloseHandle ==
    /\ recorder.pc = "close"
    /\ IF rig.changed
       THEN RecorderGoto("report") /\ excuses' = excuses \union {"changed"} /\ UNCHANGED rig
       ELSE /\ IF rig.closing = {}
               THEN RecorderGoto("detach") /\ rig' = [rig EXCEPT !.handles = {}]
               ELSE \E s \in rig.closing :
                        rig' = [rig EXCEPT !.closing = @ \ {s}] /\ UNCHANGED recorder
            /\ UNCHANGED excuses
    /\ UNCHANGED <<parent, state_path>>

DetachSensors ==
    /\ recorder.pc = "detach"
    /\ RecorderGoto("destroy")
    /\ rig' = [rig EXCEPT !.listening = @ \ rig.listed]
    /\ UNCHANGED <<parent, state_path, excuses>>

(* CARLA may refuse to destroy one; the others are destroyed all the same. *)
DestroySensors ==
    /\ recorder.pc = "destroy"
    /\ RecorderGoto("report")
    /\ \E kept \in {{}} \union {{s} : s \in rig.listed} :
        /\ rig' = [rig EXCEPT !.spawned = @ \ (rig.listed \ kept), !.listed = {}]
        /\ excuses' = excuses \union (IF kept = {} THEN {} ELSE {"refused"})
    /\ UNCHANGED <<parent, state_path>>

ReportStopped ==
    /\ recorder.pc = "report"
    /\ RecorderGoto("exited")
    /\ state_path' = IF recorder.stop_requested THEN "stopped" ELSE state_path
    /\ UNCHANGED <<parent, rig, excuses>>

RecorderStep ==
    \/ BootRecorder \/ AnnounceReady \/ AnnounceError \/ Serve \/ AttachFails
    \/ \E s \in Sensors : AttachSensor(s) \/ ListenToSensor(s) \/ ListSensor(s)
    \/ BeginClosing \/ CloseHandle \/ DetachSensors \/ DestroySensors \/ ReportStopped

RecorderNext ==
    \/ RecorderStep
    \/ \E s \in Sensors : PersistMeasurement(s)
    \/ StartRecorderProcess \/ AwaitReady \/ RequestRecorderStop \/ TerminateRecorder
    \/ JoinOrKill \/ ParentDies \/ SignalFromOutside

RecorderSpec == RecorderInit /\ [][RecorderNext]_recorderVars
RecorderFairness == WF_recorderVars(RecorderStep)
-------------------------------------------------------------------------------
(* Properties.                                                             *)

RecorderTypeOK ==
    /\ parent \in {"new", "wait", "ready", "stop", "join", "over", "dead"}
    /\ recorder \in [pc: {"none", "boot", "attach", "listen", "list", "announce", "serve",
                          "error", "stop", "close", "detach", "destroy", "report", "exited",
                          "killed"},
                     stop_requested: BOOLEAN]
    /\ state_path \in {"absent", "ready", "error", "stopped"}
    /\ rig \in [spawned: SUBSET Sensors, listed: SUBSET Sensors, listening: SUBSET Sensors,
                handles: SUBSET Sensors, closing: SUBSET Sensors, changed: BOOLEAN]
    /\ excuses \subseteq {"unlisted", "changed", "refused"}

(* When stop has returned, or a start has failed, the worker is gone, and  *)
(* no sensor is left in CARLA, unless the worker had to be killed, a       *)
(* sensor could not be listened to or destroyed, or a first record came in *)
(* while the files were being closed.                                      *)
StoppedRecorderLeavesNothing ==
    parent = "over" =>
        /\ RecorderEnded
        /\ recorder.pc = "exited" /\ excuses = {} => rig.spawned = {}

(* A worker that was told to stop ends, whatever it was doing, also when   *)
(* its parent is gone.                                                     *)
StopIsHeard == recorder.stop_requested ~> RecorderEnded
===============================================================================
