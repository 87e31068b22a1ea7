------------------------------ MODULE RgbPreview ------------------------------
(***************************************************************************)
(* The camera preview of the HIL host, carla_front_rgb_preview, as one     *)
(* more user of the world of CARLA.  The sidecar host_display starts it    *)
(* before the run is driven, in the background, so that its set-up races   *)
(* with that of the worker; it then waits for the hero of the run, shows   *)
(* its cameras and is ended by a signal.  By hand it is also started to    *)
(* drive a vehicle of its own.  It does not use CarlaClient.               *)
(***************************************************************************)
EXTENDS CarlaWorld

CONSTANT MaxPreviews        \* bound: how many previews are started

ASSUME PreviewConstants == MaxPreviews \in Nat

VARIABLES
    preview,    \* the preview: there is one at a time
    previews,   \* how many have been started
    disturbed,  \* history: somebody set the world up while a run was in it
    poached     \* history: a preview follows a hero in place of the one it spawned

previewHistory == <<disturbed, poached>>
previewVars == <<preview, previews, previewHistory>>

-------------------------------------------------------------------------------
NoMap == "no map"
NoActor == <<0, "nobody">>

(* follow: --display-mode native_follow, as opposed to sensor_preview;     *)
(* spawns: --spawn-ego-if-missing; mine: spawned_ego.                      *)
NoPreview == [pc |-> "away", map |-> NoMap, follow |-> FALSE, spawns |-> FALSE,
              ego |-> NoActor, mine |-> FALSE, traffic |-> FALSE, sensor |-> FALSE]

PreviewActor(kind) == <<previews, kind>>
PreviewActors == (1 .. MaxPreviews) \X {"preview hero", "preview traffic", "preview sensor"}
WithRole == {a \in world.actors : a[2] \in {"hero", "preview hero"}}

PreviewInit ==
    /\ preview = NoPreview /\ previews = 0
    /\ disturbed = FALSE /\ poached = FALSE

PreviewAt(pc) == preview.pc = pc
PreviewGoto(pc) == preview' = [preview EXCEPT !.pc = pc]
DrivesOn == UNCHANGED <<session, drives, mishaps, carlaHistory>>
SpawnForPreview(kind) == world' = [world EXCEPT !.actors = @ \union {PreviewActor(kind)}]

(* Whoever starts a preview has killed the one before.  The world is not   *)
(* that of the CarlaClients alone from now on (mixed).                     *)
StartPreview(m, follow, spawns) ==
    /\ PreviewAt("away") /\ previews < MaxPreviews
    /\ previews' = previews + 1
    /\ preview' = [NoPreview EXCEPT !.pc = "connect", !.map = m, !.follow = follow,
                                    !.spawns = spawns]
    /\ disturbed' = (disturbed \/ InCarla(Driver))
    /\ mixed' = TRUE
    /\ UNCHANGED <<world, session, drives, mishaps, spoiled, leaked, poached>>

CompareMap ==
    /\ PreviewAt("connect")
    /\ PreviewGoto(IF preview.map \in {NoMap, world.map} THEN "settings" ELSE "load")
    /\ DrivesOn /\ UNCHANGED <<world, previews, previewHistory>>

LoadPreviewMap ==
    /\ PreviewAt("load")
    /\ world' = [map |-> preview.map, sync |-> "off", step |-> VariableStep, actors |-> {}]
    /\ PreviewGoto("settings")
    /\ DrivesOn /\ UNCHANGED <<previews, previewHistory>>

(* What it finds is not remembered.                                        *)
ApplyPreviewSettings ==
    /\ PreviewAt("settings")
    /\ world' = [world EXCEPT !.sync = "off", !.step = FixedStep]
    /\ PreviewGoto("find")
    /\ DrivesOn /\ UNCHANGED <<previews, previewHistory>>

(* The vehicle with the role, for which it waits up to a deadline.         *)
FindEgo ==
    /\ PreviewAt("find")
    /\ \E a \in WithRole :
        preview' = [preview EXCEPT !.ego = a, !.pc = "traffic"]
    /\ DrivesOn /\ UNCHANGED <<world, previews, previewHistory>>

(* Without one, which somebody else may have spawned since.                *)
SpawnPreviewEgo ==
    /\ PreviewAt("find") /\ preview.spawns
    /\ SpawnForPreview("preview hero")
    /\ preview' = [preview EXCEPT !.ego = PreviewActor("preview hero"), !.mine = TRUE,
                                  !.pc = "traffic"]
    /\ DrivesOn /\ UNCHANGED <<previews, previewHistory>>

(* None, or a vehicle; an error after it was spawned forgets it.           *)
SpawnPreviewTraffic ==
    /\ PreviewAt("traffic")
    /\ \/ PreviewGoto("sensors") /\ UNCHANGED world
       \/ /\ SpawnForPreview("preview traffic")
          /\ \E remembered \in BOOLEAN :
                preview' = [preview EXCEPT !.traffic = remembered, !.pc = "sensors"]
    /\ DrivesOn /\ UNCHANGED <<previews, previewHistory>>

(* The cameras, one by one (they are one actor here); none can be attached *)
(* to a vehicle that is gone.                                              *)
SpawnPreviewSensors ==
    /\ PreviewAt("sensors")
    /\ IF preview.follow THEN PreviewGoto("show") /\ UNCHANGED world
       ELSE /\ preview.ego \in world.actors
            /\ SpawnForPreview("preview sensor")
            /\ \E pc \in {"sensors", "show"} :
                preview' = [preview EXCEPT !.sensor = TRUE, !.pc = pc]
    /\ DrivesOn /\ UNCHANGED <<previews, previewHistory>>

(* native_follow looks for the role again when its vehicle is gone;        *)
(* sensor_preview goes on showing the last frames.                         *)
ReacquireEgo ==
    /\ PreviewAt("show") /\ preview.follow /\ preview.ego \notin world.actors
    /\ \E a \in WithRole : preview' = [preview EXCEPT !.ego = a]
    /\ poached' = (poached \/ preview.mine)
    /\ DrivesOn /\ UNCHANGED <<world, previews, disturbed>>

-------------------------------------------------------------------------------
(* A signal, a key, no frames, or nobody to follow: the finally block.     *)

AnyEgo(p) == TRUE                            \* mutant: spawned_ego is not asked for
OwnEgo(p) == p.mine

Removed ==
    (IF OwnEgo(preview) THEN {preview.ego} ELSE {})
    \union (IF preview.traffic THEN {PreviewActor("preview traffic")} ELSE {})
    \union (IF preview.sensor THEN {PreviewActor("preview sensor")} ELSE {})

PreviewEnds ==
    /\ PreviewAt("show")
    /\ world' = [world EXCEPT !.actors = @ \ Removed]
    /\ preview' = NoPreview
    /\ DrivesOn /\ UNCHANGED <<previews, previewHistory>>

(* Before its loop nothing catches a signal or an exception.               *)
PreviewAborts ==
    /\ preview.pc \notin {"away", "show"}
    /\ preview' = NoPreview
    /\ DrivesOn /\ UNCHANGED <<world, previews, previewHistory>>

SettingUp ==
    \/ preview.pc \in {"connect", "load", "settings"}
    \/ \E p \in Checks : session'[p].pc # "away"

(* The other users of CARLA.                                               *)
DrivePreviewed ==
    /\ CarlaNext
    /\ disturbed' = (disturbed \/ (SettingUp /\ session'[Driver].pc # "away"))
    /\ UNCHANGED <<preview, previews, poached>>

PreviewStep ==
    \/ CompareMap \/ LoadPreviewMap \/ ApplyPreviewSettings
    \/ FindEgo \/ SpawnPreviewEgo \/ SpawnPreviewTraffic \/ SpawnPreviewSensors
    \/ ReacquireEgo \/ PreviewEnds \/ PreviewAborts

PreviewNext ==
    \/ \E m \in CarlaMaps \union {NoMap}, follow, spawns \in BOOLEAN :
        StartPreview(m, follow, spawns)
    \/ PreviewStep
    \/ DrivePreviewed

PreviewSpec == CarlaInit /\ PreviewInit /\ [][PreviewNext]_<<carlaVars, previewVars>>
-------------------------------------------------------------------------------
(* Properties.                                                             *)

PreviewTypeOK ==
    /\ preview \in [pc: {"away", "connect", "load", "settings", "find", "traffic", "sensors",
                         "show"},
                    map: CarlaMaps \union {NoMap}, follow: BOOLEAN, spawns: BOOLEAN,
                    ego: Actors \union PreviewActors \union {NoActor},
                    mine: BOOLEAN, traffic: BOOLEAN, sensor: BOOLEAN]
    /\ previews \in 0 .. MaxPreviews
    /\ disturbed \in BOOLEAN /\ poached \in BOOLEAN
    /\ world.actors \subseteq Actors \union PreviewActors

(* A run keeps its map, its synchronous mode and its actors, whatever      *)
(* previews find, spawn, lose and clean up meanwhile, if the preview of    *)
(* the sidecar has set the world up before the worker came, and none takes *)
(* the hero of the run for the one it had spawned itself.                  *)
PreviewedRunKeepsItsWorld == ~disturbed /\ ~poached => DriverKeepsItsWorld
===============================================================================
