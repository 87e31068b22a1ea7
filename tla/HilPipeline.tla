------------------------------ MODULE HilPipeline ------------------------------
(***************************************************************************)
(* The HIL sidecars of a run (HilRuntimeOrchestrator): Host CARLA, display *)
(* preview, Pi pipeline and Jetson pipeline are started one after the      *)
(* other by shell commands when the worker sets the run up, and stopped in *)
(* reverse order in its clean-up.  One worker at a time executes a run (see *)
(* RunControl); the Pi pipeline can also be started and stopped by hand,   *)
(* POST /system/pi-gateway/start and stop.                                 *)
(***************************************************************************)
EXTENDS Naturals, Sequences

CONSTANTS
    Runs,               \* runs in HIL mode camera_open_loop
    ReplayRuns,         \* runs that replay a recording: they manage CARLA themselves
    ManualRuns,         \* runs that end by manual stop: CARLA is kept for the next one
    GatewayRuns,        \* runs with a gateway that is the configured Pi
    StartConfigured,    \* steps with a start command
    StopConfigured,     \* steps with a stop command
    Nobody,
    Operator            \* who starts the Pi pipeline by hand

Steps == <<"host_carla", "host_display", "pi_pipeline", "jetson_pipeline">>
StepIds == {Steps[i] : i \in 1 .. Len(Steps)}

ASSUME ConstantsAssumption ==
    /\ ReplayRuns \subseteq Runs /\ ManualRuns \subseteq Runs /\ GatewayRuns \subseteq Runs
    /\ StartConfigured \subseteq StepIds /\ StopConfigured \subseteq StepIds
    /\ Nobody \notin Runs /\ Operator \notin Runs /\ Nobody # Operator

VARIABLES
    device,     \* the run, or the operator, whose command last started each sidecar
    ready,      \* whether the gateway is reachable and READY
    wk,         \* program counter and locals of the worker
    done,       \* runs that were executed
    complete,   \* history: runs whose start_pipeline returned
    excused,    \* history: runs whose clean-up did not take place
    stuck       \* history: steps whose stop command failed, with their run

history == <<complete, excused, stuck>>
vars == <<device, ready, wk, done, history>>

(* next: index of the next step to start; started: the local list of       *)
(* start_pipeline; known: hil_started_steps of the controller.             *)
Absent == [pc |-> "none", run |-> Nobody, allowed |-> {}, next |-> 1,
           started |-> <<>>, known |-> <<>>]

Init ==
    /\ device = [s \in StepIds |-> Nobody]
    /\ ready \in BOOLEAN
    /\ wk = Absent
    /\ done = {} /\ complete = {} /\ excused = {} /\ stuck = {}

-------------------------------------------------------------------------------
(* start_pipeline.                                                         *)

Begin(r) ==
    /\ wk.pc = "none"
    /\ r \notin done
    /\ wk' = [Absent EXCEPT !.pc = "prepare", !.run = r]
    /\ UNCHANGED <<device, ready, done, history>>

(* _resolve_start_decision: the gateway is looked at once, before the      *)
(* first step; the Pi and what hangs on it need it, the preview does not.  *)
Allowed(r) ==
    StepIds \ ((IF r \in ReplayRuns THEN {"host_carla"} ELSE {}) \union
               (IF r \in GatewayRuns /\ ready /\ "pi_pipeline" \in StartConfigured
                THEN {} ELSE {"pi_pipeline", "jetson_pipeline"}))

Decide ==
    /\ wk.pc = "prepare"
    /\ wk' = [wk EXCEPT !.pc = "start", !.allowed = Allowed(wk.run)]
    /\ UNCHANGED <<device, ready, done, history>>

Started(s) == s \in wk.allowed /\ s \in StartConfigured

SkipStep ==
    /\ wk.pc = "start" /\ wk.next <= Len(Steps)
    /\ ~Started(Steps[wk.next])
    /\ wk' = [wk EXCEPT !.next = @ + 1]
    /\ UNCHANGED <<device, ready, done, history>>

StartStep ==
    LET s == Steps[wk.next] IN
    /\ wk.pc = "start" /\ wk.next <= Len(Steps)
    /\ Started(s)
    /\ device' = [device EXCEPT ![s] = wk.run]
    /\ wk' = [wk EXCEPT !.next = @ + 1, !.started = Append(@, s)]
    /\ UNCHANGED <<ready, done, history>>

(* The command fails or times out; what it has launched may be running.    *)
(* The RuntimeError leaves start_pipeline: its list is lost.               *)
StartFails ==
    LET s == Steps[wk.next] IN
    /\ wk.pc = "start" /\ wk.next <= Len(Steps)
    /\ Started(s)
    /\ device' \in {device, [device EXCEPT ![s] = wk.run]}
    /\ wk' = [wk EXCEPT !.pc = "finally"]
    /\ UNCHANGED <<ready, done, history>>

LastForgotten(steps) == IF steps = <<>> THEN <<>> ELSE SubSeq(steps, 1, Len(steps) - 1)  \* mutant
AllSteps(steps) == Steps                    \* mutant: every step counts as started
ReturnedSteps(steps) == steps

StartReturns ==
    /\ wk.pc = "start" /\ wk.next > Len(Steps)
    /\ wk' = [wk EXCEPT !.pc = "active", !.known = ReturnedSteps(wk.started)]
    /\ complete' = complete \union {wk.run}
    /\ UNCHANGED <<device, ready, done, excused, stuck>>

-------------------------------------------------------------------------------
(* The run ends, or an exception ends it: before the pipeline is started,  *)
(* or while the run is active.                                             *)
RunEnds ==
    /\ wk.pc \in {"prepare", "active"}
    /\ wk' = [wk EXCEPT !.pc = "finally"]
    /\ UNCHANGED <<device, ready, done, history>>

(* stop_pipeline.                                                          *)

NextStop(steps) == steps[Len(steps)]

StopsLeft(steps) == SubSeq(steps, 1, Len(steps) - 1)

Preserved(s) == s = "host_carla" /\ wk.run \in ManualRuns

StopSkipped ==
    LET s == NextStop(wk.known) IN
    /\ wk.pc = "finally" /\ wk.known # <<>>
    /\ Preserved(s) \/ s \notin StopConfigured
    /\ wk' = [wk EXCEPT !.known = StopsLeft(@)]
    /\ UNCHANGED <<device, ready, done, history>>

StopStep ==
    LET s == NextStop(wk.known) IN
    /\ wk.pc = "finally" /\ wk.known # <<>>
    /\ ~Preserved(s) /\ s \in StopConfigured
    /\ wk' = [wk EXCEPT !.known = StopsLeft(@)]
    /\ \/ device' = [device EXCEPT ![s] = Nobody] /\ UNCHANGED stuck
       \/ /\ device' \in {device, [device EXCEPT ![s] = Nobody]}
          /\ stuck' = stuck \union {<<s, wk.run>>}
    /\ UNCHANGED <<ready, done, complete, excused>>

Leave == wk' = Absent /\ done' = done \union {wk.run}

Finished ==
    /\ wk.pc = "finally" /\ wk.known = <<>>
    /\ Leave
    /\ UNCHANGED <<device, ready, history>>

(* The record cannot be read: the exception is logged and nothing is       *)
(* stopped.  Or the worker process dies.                                   *)
CleanupFails ==
    /\ wk.pc = "finally"
    /\ Leave
    /\ excused' = excused \union {wk.run}
    /\ UNCHANGED <<device, ready, complete, stuck>>

WorkerDies ==
    /\ wk.pc # "none"
    /\ Leave
    /\ excused' = excused \union {wk.run}
    /\ UNCHANGED <<device, ready, complete, stuck>>

-------------------------------------------------------------------------------
(* The Pi pipeline by hand, without a look at the runs.                    *)
PiByHand(on) ==
    /\ "pi_pipeline" \in IF on THEN StartConfigured ELSE StopConfigured
    /\ device' = [device EXCEPT !["pi_pipeline"] = IF on THEN Operator ELSE Nobody]
    /\ UNCHANGED <<ready, wk, done, history>>

GatewayChanges ==
    /\ ready' = ~ready
    /\ UNCHANGED <<device, wk, done, history>>

Next ==
    \/ \E r \in Runs : Begin(r)
    \/ Decide \/ SkipStep \/ StartStep \/ StartFails \/ StartReturns
    \/ RunEnds \/ StopSkipped \/ StopStep \/ Finished \/ CleanupFails \/ WorkerDies
    \/ (\E on \in BOOLEAN : PiByHand(on))
    \/ GatewayChanges

Spec == Init /\ [][Next]_vars
-------------------------------------------------------------------------------
(* Properties.                                                             *)

TypeOK ==
    /\ device \in [StepIds -> Runs \union {Nobody, Operator}]
    /\ ready \in BOOLEAN
    /\ wk \in [pc: {"none", "prepare", "start", "active", "finally"},
               run: Runs \union {Nobody}, allowed: SUBSET StepIds,
               next: 1 .. Len(Steps) + 1, started: Seq(StepIds), known: Seq(StepIds)]
    /\ wk.pc # "none" => wk.run \in Runs \ done
    /\ done \subseteq Runs /\ complete \subseteq Runs /\ excused \subseteq Runs
    /\ stuck \subseteq StepIds \X Runs

(* What a run may leave behind: CARLA of a manual run, a sidecar without a *)
(* stop command, one whose stop has failed.                                *)
MayStay(s, r) ==
    \/ s = "host_carla" /\ r \in ManualRuns
    \/ s \notin StopConfigured
    \/ <<s, r>> \in stuck

(* Once a run is over and its clean-up took place, CLEANUP_FINISHED, none  *)
(* of the sidecars it has started is left running.                         *)
NothingLeftRunning ==
    \A s \in StepIds :
        device[s] \in done \ excused => MayStay(s, device[s])

(* The same of runs whose whole pipeline was started.                      *)
CompleteStartIsStopped ==
    \A s \in StepIds :
        device[s] \in (done \intersect complete) \ excused => MayStay(s, device[s])

(* A clean-up stops no sidecar that its run has not started: a run that    *)
(* was degraded leaves the operator's Pi pipeline alone.                   *)
StopsOnlyWhatItStarted ==
    [][\A s \in StepIds :
        wk.pc = "finally" /\ device[s] # Nobody /\ device'[s] = Nobody /\ wk' # wk =>
            \E i \in 1 .. Len(wk.started) : wk.started[i] = s]_vars

===============================================================================
