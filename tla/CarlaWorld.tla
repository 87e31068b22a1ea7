------------------------------ MODULE CarlaWorld ------------------------------
(***************************************************************************)
(* The world of the CARLA server and the processes that change it through  *)
(* a CarlaClient: the worker that drives a run (NativeRuntimeController)   *)
(* and the preflight checks that POST /scenario-sources/{id}/              *)
(* launch-recording starts (carla_materialization_preflight_worker).  The  *)
(* server outlives them all: what a client does not give back, the next    *)
(* one finds.  A client remembers the settings it found and the actors it  *)
(* has spawned; both are lost with its process.                            *)
(* The actors that the replay of a recording brings along belong to CARLA, *)
(* and a Traffic Manager lives in the process that opened it: both are     *)
(* left out.                                                               *)
(***************************************************************************)
EXTENDS Naturals

CONSTANTS
    CarlaMaps,          \* maps of the server
    Checks,             \* preflight processes
    MaxDrives,          \* bound: how many runs are driven, one after the other
    MaxMishaps          \* bound: exceptions, kills and deaths

Driver == "driver"
CarlaUsers == Checks \union {Driver}

ASSUME CarlaConstants ==
    /\ MaxDrives \in Nat /\ MaxMishaps \in Nat
    /\ CarlaMaps # {} /\ Driver \notin Checks

VARIABLES
    world,      \* map, settings and actors of the server
    session,    \* program counter and CarlaClient of each process
    drives, mishaps,    \* how much of each bound is used
    mixed,      \* history: two processes have used CARLA at the same time
    spoiled,    \* history: a process ended without giving back what it had changed
    leaked      \* history: background vehicles that no client remembers

carlaHistory == <<mixed, spoiled, leaked>>
carlaVars == <<world, session, drives, mishaps, carlaHistory>>

(* fixed_delta_seconds: None, a variable step, or a fixed one.             *)
VariableStep == 0
FixedStep == 1

Actors == (1 .. MaxDrives) \X {"hero", "traffic"}

(* oldSync and oldStep are _original_sync_mode and _original_fixed_delta;  *)
(* the latter is None as well when the step it found was variable.         *)
NoSession == [pc |-> "away", map |-> CHOOSE m \in CarlaMaps : TRUE, sync |-> FALSE,
              replay |-> FALSE, oldSync |-> "unknown", oldStep |-> VariableStep,
              spawned |-> {}]

CarlaInit ==
    /\ \E m \in CarlaMaps : world = [map |-> m, sync |-> "off", step |-> VariableStep,
                                     actors |-> {}]
    /\ session = [p \in CarlaUsers |-> NoSession]
    /\ drives = 0 /\ mishaps = 0
    /\ mixed = FALSE /\ spoiled = FALSE /\ leaked = {}

-------------------------------------------------------------------------------
InCarla(p) == session[p].pc # "away"
CarlaGoto(p, pc) == session' = [session EXCEPT ![p].pc = pc]

EnterCarla(p, m, sync, replay) ==
    /\ ~InCarla(p)
    /\ session' = [session EXCEPT ![p] = [NoSession EXCEPT !.pc = "connect", !.map = m,
                                                           !.sync = sync, !.replay = replay]]
    /\ mixed' = (mixed \/ \E q \in CarlaUsers : InCarla(q))
    /\ UNCHANGED <<world, mishaps, spoiled, leaked>>

(* A run asks for its map and for synchronous mode or not; the replay of a *)
(* recording is always synchronous.                                        *)
DriveRun(m, sync, replay) ==
    /\ drives < MaxDrives
    /\ replay => sync
    /\ EnterCarla(Driver, m, sync, replay)
    /\ drives' = drives + 1

RunPreflight(p, m) ==
    /\ EnterCarla(p, m, TRUE, FALSE)
    /\ UNCHANGED drives

ConnectCarla(p) ==
    /\ session[p].pc = "connect"
    /\ CarlaGoto(p, "map")
    /\ UNCHANGED <<world, drives, mishaps, carlaHistory>>

(* load_world destroys every actor and resets the settings; the world is   *)
(* kept when it already has the map.                                       *)
LoadMap(p) ==
    /\ session[p].pc = "map"
    /\ IF world.map = session[p].map THEN UNCHANGED world
       ELSE world' = [map |-> session[p].map, sync |-> "off", step |-> VariableStep,
                      actors |-> {}]
    /\ CarlaGoto(p, "sync")
    /\ UNCHANGED <<drives, mishaps, carlaHistory>>

AfterSync(p) ==
    IF p # Driver THEN "destroy" ELSE IF session[p].replay THEN "loop" ELSE "hero"

(* mutant: what is remembered are the changed settings                     *)
RememberChanged(s) == [s EXCEPT !.oldSync = IF s.sync THEN "on" ELSE "off",
                                !.oldStep = FixedStep]
Remember(s) == [s EXCEPT !.oldSync = world.sync, !.oldStep = world.step]

ConfigureWorldSync(p) ==
    /\ session[p].pc = "sync"
    /\ session' = [session EXCEPT ![p] = [Remember(@) EXCEPT !.pc = AfterSync(p)]]
    /\ world' = [world EXCEPT !.sync = IF session[p].sync THEN "on" ELSE "off",
                              !.step = FixedStep]
    /\ UNCHANGED <<drives, mishaps, carlaHistory>>

Forgotten(s, actor) == [s EXCEPT !.spawned = {actor}]   \* mutant: only the last is kept
Remembered(s, actor) == [s EXCEPT !.spawned = @ \union {actor}]

SpawnHero ==
    /\ session[Driver].pc = "hero"
    /\ world' = [world EXCEPT !.actors = @ \union {<<drives, "hero">>}]
    /\ session' = [session EXCEPT ![Driver] =
            [Remembered(@, <<drives, "hero">>) EXCEPT !.pc = "traffic"]]
    /\ UNCHANGED <<drives, mishaps, carlaHistory>>

(* Background traffic: none, or a vehicle whose autopilot is set before it *)
(* is remembered.  A Traffic Manager that cannot be bound makes            *)
(* set_vehicle_autopilot return False and the vehicle is destroyed; any    *)
(* other error is raised and the vehicle stays.                            *)
SpawnTraffic ==
    /\ session[Driver].pc = "traffic"
    /\ \/ CarlaGoto(Driver, "loop") /\ UNCHANGED world
       \/ /\ world' = [world EXCEPT !.actors = @ \union {<<drives, "traffic">>}]
          /\ session' = [session EXCEPT ![Driver] =
                [Remembered(@, <<drives, "traffic">>) EXCEPT !.pc = "loop"]]
    /\ UNCHANGED <<drives, mishaps, carlaHistory>>

AutopilotRaises ==
    /\ session[Driver].pc = "traffic"
    /\ mishaps < MaxMishaps
    /\ world' = [world EXCEPT !.actors = @ \union {<<drives, "traffic">>}]
    /\ leaked' = leaked \union {<<drives, "traffic">>}
    /\ CarlaGoto(Driver, "destroy")
    /\ mishaps' = mishaps + 1
    /\ UNCHANGED <<drives, mixed, spoiled>>

(* The scenario is over, or the run was stopped.                           *)
DriveEnds ==
    /\ session[Driver].pc = "loop"
    /\ CarlaGoto(Driver, "destroy")
    /\ UNCHANGED <<world, drives, mishaps, carlaHistory>>

CarlaRaises(p) ==
    /\ session[p].pc \in {"connect", "map", "sync", "hero", "traffic", "loop"}
    /\ mishaps < MaxMishaps
    /\ mishaps' = mishaps + 1
    /\ CarlaGoto(p, "destroy")
    /\ UNCHANGED <<world, drives, carlaHistory>>

-------------------------------------------------------------------------------
(* CarlaClient.cleanup, in the finally block of every user.                *)

DestroySpawned(p) ==
    /\ session[p].pc = "destroy"
    /\ world' = [world EXCEPT !.actors = @ \ session[p].spawned]
    /\ session' = [session EXCEPT ![p] = [@ EXCEPT !.pc = "restore", !.spawned = {}]]
    /\ UNCHANGED <<drives, mishaps, carlaHistory>>

(* A step that was not remembered, or was variable, is left as it is.      *)
Restored(s) ==
    IF s.oldSync = "unknown" THEN world
    ELSE [world EXCEPT !.sync = s.oldSync,
                       !.step = IF s.oldStep = VariableStep THEN @ ELSE s.oldStep]

RestoreWorldSettings(p) ==
    /\ session[p].pc = "restore"
    /\ world' = Restored(session[p])
    /\ session' = [session EXCEPT ![p] = NoSession]
    /\ UNCHANGED <<drives, mishaps, carlaHistory>>

OwesNothing(s) == s.oldSync = "unknown" /\ s.spawned = {}

(* The process dies (a crash of the CARLA library, the kill of a preflight *)
(* that takes too long), or a call of its clean-up fails: the rest of the  *)
(* clean-up is skipped, the exception is only logged.                      *)
LeavesCarla(p) ==
    /\ InCarla(p)
    /\ mishaps < MaxMishaps
    /\ mishaps' = mishaps + 1
    /\ spoiled' = (spoiled \/ ~OwesNothing(session[p]))
    /\ session' = [session EXCEPT ![p] = NoSession]
    /\ UNCHANGED <<world, drives, mixed, leaked>>

CarlaStep(p) ==
    \/ ConnectCarla(p) \/ LoadMap(p) \/ ConfigureWorldSync(p)
    \/ DestroySpawned(p) \/ RestoreWorldSettings(p)
    \/ CarlaRaises(p) \/ LeavesCarla(p)

CarlaNext ==
    \/ \E m \in CarlaMaps :
        \/ \E sync, replay \in BOOLEAN : DriveRun(m, sync, replay)
        \/ \E p \in Checks : RunPreflight(p, m)
    \/ \E p \in CarlaUsers : CarlaStep(p)
    \/ SpawnHero \/ SpawnTraffic \/ AutopilotRaises \/ DriveEnds

CarlaSpec == CarlaInit /\ [][CarlaNext]_carlaVars
-------------------------------------------------------------------------------
(* Properties.                                                             *)

CarlaTypeOK ==
    /\ world \in [map: CarlaMaps, sync: {"on", "off"}, step: {VariableStep, FixedStep},
                  actors: SUBSET Actors]
    /\ session \in [CarlaUsers ->
            [pc: {"away", "connect", "map", "sync", "hero", "traffic", "loop", "destroy",
                  "restore"},
             map: CarlaMaps, sync: BOOLEAN, replay: BOOLEAN,
             oldSync: {"unknown", "on", "off"}, oldStep: {VariableStep, FixedStep},
             spawned: SUBSET Actors]]
    /\ drives \in 0 .. MaxDrives /\ mishaps \in 0 .. MaxMishaps
    /\ mixed \in BOOLEAN /\ spoiled \in BOOLEAN /\ leaked \subseteq Actors

(* While a run is driven the world has its map, its synchronous mode and   *)
(* the actors it has spawned.                                              *)
DriverKeepsItsWorld ==
    LET s == session[Driver] IN
    s.pc = "loop" =>
        /\ world.map = s.map
        /\ world.sync = IF s.sync THEN "on" ELSE "off"
        /\ s.spawned \subseteq world.actors

(* The same while no two processes have used CARLA at a time, and then no  *)
(* actor of an earlier run is in its way either: one hero to attach        *)
(* sensors to.                                                             *)
DrivenWorldIsItsOwn ==
    ~mixed =>
        /\ DriverKeepsItsWorld
        /\ ~spoiled /\ session[Driver].pc = "loop" =>
                world.actors \ leaked = session[Driver].spawned

(* Between runs the world ticks by itself and is empty, whatever the runs  *)
(* before asked for and whichever exception ended them, unless one of them *)
(* never came to the end of its clean-up.                                  *)
WorldIsGivenBack ==
    ~mixed /\ ~spoiled /\ (\A p \in CarlaUsers : ~InCarla(p)) =>
        world.sync = "off" /\ world.actors \subseteq leaked
===============================================================================
