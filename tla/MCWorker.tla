-------------------------------- MODULE MCWorker --------------------------------
(***************************************************************************)
(* Instances for TLC of what the worker of a run does besides its status:  *)
(* the sidecars, the world of CARLA, the control file, the scenario, the   *)
(* sensor recorder and the way of the results of the device.  They share   *)
(* no variable (but for the preview, which is in the world of CARLA), so   *)
(* that their steps commute and one part that moves while the others stay  *)
(* at their start shows every state that any property tells apart.  With a *)
(* preview there are no preflight checks and no mishaps of the runs.       *)
(***************************************************************************)
EXTENDS HilPipeline, RgbPreview, RuntimeControl, ScenarioEvents, SensorRecorder, DutResults

VARIABLE part

Parts == {"sidecars", "world", "preview", "control", "scenario", "recorder", "results"}

(* Scenarios: conditions on time and on distances, one the runtime does    *)
(* not know, an entity that is never spawned, events with equal names.     *)
Condition(kind, rule, value, refs, target, all) ==
    [kind |-> kind, rule |-> rule, value |-> value, refs |-> refs, target |-> target,
     all |-> all]
After(t) == Condition("simulation_time", "greaterThan", t, {}, NoEntity, FALSE)
At(t) == Condition("simulation_time", "equalTo", t, {}, NoEntity, FALSE)
Unknown == Condition("unsupported", "greaterThan", 0, {}, NoEntity, FALSE)
Went(d, refs, all) == Condition("traveled_distance", "greaterThan", d, refs, NoEntity, all)
Near(refs, target) == Condition("relative_distance", "lessThan", 2, refs, target, FALSE)

Event(name, start, effect) ==
    [name |-> name, actors |-> {"npc"}, start |-> start, effect |-> effect]

Timed(manual) ==
    [mode |-> "native_descriptor", entities |-> {"ego"}, placed |-> {"ego"}, events |-> <<>>,
     stop |-> {}, manual |-> manual, timeout |-> 1, start |-> 0, warmup |-> 0]
Replay(warmup) ==
    [Timed(FALSE) EXCEPT !.mode = "carla_recorder_replay", !.timeout = 3, !.start = 2,
                         !.warmup = warmup]
Xosc(events, stop) ==
    [mode |-> "openscenario", entities |-> {"ego", "npc", "ghost"}, placed |-> {"npc"},
     events |-> events, stop |-> stop, manual |-> FALSE, timeout |-> 2, start |-> 0,
     warmup |-> 0]

MCScenarios ==
    {Timed(FALSE), Timed(TRUE), Replay(0), Replay(2),
     Xosc(<<Event("a", {{Went(0, {"ego", "npc"}, TRUE)}}, TRUE),
            Event("c", {{Unknown, After(0)}}, TRUE),
            Event("d", {{After(0)}}, FALSE),
            Event("b", {{At(1)}, {Near({"npc"}, "ego"), After(0)}}, TRUE)>>,
          {{Unknown}, {Went(1, {"npc"}, FALSE)}}),
     Xosc(<<Event("a", {{After(1)}}, TRUE),
            Event("b", {{Went(0, {"ghost", "npc"}, TRUE)}}, TRUE),
            Event("b", {{After(0)}}, TRUE)>>,
          {{Unknown}}),
     Xosc(<<Event("a", {{After(1)}}, TRUE)>>,
          {{After(1)}, {Went(2, {"npc"}, FALSE)}})}

WorkerInit ==
    /\ part \in Parts
    /\ Init /\ CarlaInit /\ PreviewInit /\ ControlInit /\ PlayInit /\ RecorderInit /\ DutInit
    /\ part # "sidecars" => ready
    /\ part \notin {"world", "preview"} => world.map = CHOOSE m \in CarlaMaps : TRUE
    /\ part # "control" => loop.recorder
    /\ part # "scenario" => scenario = Timed(TRUE)

inCarla == <<carlaVars, previewVars>>
inLoop == <<controlVars, playVars>>
beside == <<recorderVars, dutVars>>

WorkerNext ==
    \/ /\ part = "sidecars" /\ Next
       /\ UNCHANGED <<part, inCarla, inLoop, beside>>
    \/ /\ part = "world" /\ DrivePreviewed
       /\ UNCHANGED <<part, vars, inLoop, beside>>
    \/ /\ part = "preview" /\ PreviewNext
       /\ mishaps' = 0 /\ \A p \in Checks : ~InCarla(p)'
       /\ UNCHANGED <<part, vars, inLoop, beside>>
    \/ /\ part = "control" /\ ControlNext
       /\ UNCHANGED <<part, vars, inCarla, playVars, beside>>
    \/ /\ part = "scenario" /\ PlayNext
       /\ UNCHANGED <<part, vars, inCarla, controlVars, beside>>
    \/ /\ part = "recorder" /\ RecorderNext
       /\ UNCHANGED <<part, vars, inCarla, inLoop, dutVars>>
    \/ /\ part = "results" /\ DutNext
       /\ UNCHANGED <<part, vars, inCarla, inLoop, recorderVars>>

allVars == <<part, vars, inCarla, inLoop, beside>>

WorkerSpec ==
    /\ WorkerInit /\ [][WorkerNext]_allVars
    /\ WF_controlVars(part = "control" /\ LoopStep)
    /\ WF_playVars(part = "scenario" /\ PlayStep)
    /\ WF_recorderVars(part = "recorder" /\ RecorderStep)
===============================================================================
