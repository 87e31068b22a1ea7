---------------------------- MODULE ScenarioEvents ----------------------------
(***************************************************************************)
(* How the worker plays a scenario: the plan it makes of the descriptor or *)
(* of the OpenSCENARIO file (native_xosc), the actors it spawns, and the   *)
(* loop that ticks the world, fires the events that are due and looks at   *)
(* the stop trigger; and how it replays a recording of CARLA.  The status  *)
(* of the run around it is RunControl.                                     *)
(* Times and distances are whole numbers, which is enough for the          *)
(* comparisons that conditions make; from Far on none changes any more.    *)
(***************************************************************************)
EXTENDS Sequences, FiniteSets, Integers

CONSTANTS
    Scenarios,          \* what the runs are started from, see ScenarioShape
    Ego,                \* the name that makes an entity the hero
    Far                 \* bound: every time and distance from Far on

Kinds == {"simulation_time", "traveled_distance", "relative_distance", "unsupported"}
Rules == {"greaterThan", "greaterOrEqual", "equalTo", "lessOrEqual", "lessThan"}
NoEntity == "no entity"

(* A trigger is a set of condition groups, a group a set of conditions:    *)
(* nothing depends on their order.  The events and the stop trigger are as *)
(* the file states them; effect: the action of an event is one the runtime *)
(* knows; timeout: of the descriptor, or the duration of a replay.         *)
ConditionShape(c) == c.kind \in Kinds /\ c.rule \in Rules /\ c.value < Far /\ c.all \in BOOLEAN
TriggerShape(t) == \A g \in t : \A c \in g : ConditionShape(c)
ScenarioShape(s) ==
    /\ s.mode \in {"native_descriptor", "openscenario", "carla_recorder_replay"}
    /\ s.placed \subseteq s.entities /\ s.manual \in BOOLEAN
    /\ s.timeout \in 0 .. Far - 1 /\ s.start \in 0 .. Far /\ s.warmup \in Nat
    /\ TriggerShape(s.stop)
    /\ \A i \in DOMAIN s.events :
            i \in Nat \ {0} /\ s.events[i].effect \in BOOLEAN /\ TriggerShape(s.events[i].start)

ASSUME ScenarioConstants ==
    /\ Far \in Nat \ {0}
    /\ \A s \in Scenarios : ScenarioShape(s)

VARIABLES
    scenario,   \* the source of the run
    plan,       \* NativeScenarioPlan
    play,       \* program counter of the worker, event it has come to
    actors,     \* entities that were spawned
    scene,      \* time of its clock, position in the recording, distances
    fired_events,       \* names of the events that have fired
    fired,      \* history: how often each event has fired
    due,        \* history: the events whose trigger in the file has held
    opened,     \* history: where the recording was when the loop began
    waited      \* history: ticks before the ego vehicle was there

playVars == <<scenario, plan, play, actors, scene, fired_events, fired, due, opened, waited>>

-------------------------------------------------------------------------------
(* native_xosc.                                                            *)

TimeIsOver(seconds) ==
    {{[kind |-> "simulation_time", value |-> seconds, rule |-> "greaterThan",
       refs |-> {}, target |-> NoEntity, all |-> FALSE]}}

IsSupported(c) == c.kind # "unsupported"

(* A condition that is not supported is left out of its group, a group     *)
(* without conditions out of the trigger.                                  *)
ParsedTrigger(t) == {{c \in g : IsSupported(c)} : g \in t} \ {{}}

WithoutTimeout(stop, seconds) == stop        \* mutant: no fallback
WithTimeout(stop, seconds) == IF stop = {} THEN TimeIsOver(seconds) ELSE stop

HasEffect(e) == e.effect

DescriptorPlan(s) ==
    [entities |-> {Ego}, events |-> <<>>,
     stop |-> IF s.manual THEN {} ELSE TimeIsOver(s.timeout)]

(* The events of the plan keep their places in the file, which give their  *)
(* order: those the runtime cannot play leave a gap.                       *)
XoscPlan(s) ==
    [entities |-> s.entities,
     events |-> [i \in {n \in DOMAIN s.events : HasEffect(s.events[n])} |->
                    [s.events[i] EXCEPT !.start = ParsedTrigger(@)]],
     stop |-> WithTimeout(ParsedTrigger(s.stop), s.timeout)]

ResolvedPlan(s) ==
    CASE s.mode = "openscenario" -> XoscPlan(s)
      [] s.mode = "native_descriptor" -> DescriptorPlan(s)
      [] OTHER -> [entities |-> {}, events |-> <<>>, stop |-> {}]

-------------------------------------------------------------------------------
(* The conditions, NativeRuntimeController.                                *)

Compare(actual, rule, value) ==
    CASE rule = "lessThan" -> actual < value
      [] rule = "lessOrEqual" -> actual <= value
      [] rule = "equalTo" -> actual = value
      [] rule = "greaterOrEqual" -> actual >= value
      [] OTHER -> actual > value

(* The actors that have an answer: those that were spawned, and for a      *)
(* distance between two both of them.                                      *)
Answering(c, refs) ==
    {a \in refs \intersect actors :
        c.kind = "relative_distance" => c.target \in actors}

Measured(c, a, sc) ==
    IF c.kind = "traveled_distance" THEN sc.traveled[a]
    ELSE IF a = c.target THEN 0 ELSE sc.gap[{a, c.target}]

ConditionSatisfied(c, sc, event_actors) ==
    IF c.kind = "simulation_time" THEN Compare(sc.elapsed, c.rule, c.value)
    ELSE LET refs == Answering(c, IF c.refs = {} THEN event_actors ELSE c.refs)
             yes == {a \in refs : Compare(Measured(c, a, sc), c.rule, c.value)}
         IN yes # {} /\ (c.all => yes = refs)

TriggerSatisfied(t, sc, event_actors) ==
    \E g \in t : \A c \in g : ConditionSatisfied(c, sc, event_actors)

-------------------------------------------------------------------------------
(* execute_run, from the plan to the end of the loop.                      *)

Capped(n) == IF n > Far THEN Far ELSE n
NotStarted == -1

EffectiveWarmup(s) == IF s.start < s.warmup THEN s.start ELSE s.warmup

(* What replay_file is asked for: the warm-up and then the window.  Where  *)
(* it ends the recording does not go on, however often the world ticks.    *)
WarmupStart(s) == s.start - EffectiveWarmup(s)
WindowEnd(s) == WarmupStart(s) + EffectiveWarmup(s) + s.timeout
Played(position) == IF position < WindowEnd(scenario) THEN position + 1 ELSE position

Pairs(entities) == {pair \in SUBSET entities : Cardinality(pair) = 2}

PlayInit ==
    /\ scenario \in Scenarios
    /\ plan = ResolvedPlan(scenario)
    /\ play = [pc |-> IF scenario.mode = "carla_recorder_replay" THEN "ego" ELSE "spawn",
               event |-> 1]
    /\ actors = {}
    /\ scene = [elapsed |-> NotStarted,
                position |-> WarmupStart(scenario),
                traveled |-> [a \in plan.entities |-> 0],
                gap |-> [pair \in Pairs(plan.entities) |-> Far]]
    /\ fired_events = {}
    /\ fired = [i \in DOMAIN plan.events |-> 0] /\ due = {} /\ opened = 0 /\ waited = 0

PlayGoto(pc) == play' = [pc |-> pc, event |-> 1]

(* Entities without a position are skipped; the hero has the position of   *)
(* the descriptor, and without a hero there is no run.                     *)
SpawnPlanEntities ==
    /\ play.pc = "spawn"
    /\ actors' = {a \in plan.entities : a = Ego \/ a \in scenario.placed}
    /\ PlayGoto(IF Ego \in actors' THEN "poll" ELSE "failed")
    /\ UNCHANGED <<scenario, plan, scene, fired_events, fired, due, opened, waited>>

(* The record of the run is read again before every tick.                  *)
PollStop ==
    /\ play.pc = "poll"
    /\ \E pc \in {"tick", "stopped"} : PlayGoto(pc)
    /\ UNCHANGED <<scenario, plan, actors, scene, fired_events, fired, due, opened, waited>>

(* A tick of the world: the first one starts the clock; some actors move,  *)
(* and are near to some others then.                                       *)
NextScenes ==
    {[elapsed |-> Capped(scene.elapsed + 1),
      position |-> Played(scene.position),
      traveled |-> [a \in plan.entities |->
                        Capped(scene.traveled[a] + IF a \in moved THEN 1 ELSE 0)],
      gap |-> [pair \in DOMAIN scene.gap |-> IF pair \subseteq near THEN 1 ELSE Far]] :
        moved \in SUBSET actors, near \in SUBSET actors}

(* What the file says: a trigger holds when all conditions of one of its   *)
(* groups do, an entity condition when all or any of the named entities    *)
(* fulfil it.                                                              *)
MeantCondition(c, sc) ==
    LET ok(a) == Compare(Measured(c, a, sc), c.rule, c.value)
    IN  IF c.kind = "simulation_time" THEN Compare(sc.elapsed, c.rule, c.value)
        ELSE IF c.all THEN \A a \in c.refs : ok(a)
        ELSE \E a \in c.refs : ok(a)
MeantTrigger(t, sc) == \E g \in t : \A c \in g : MeantCondition(c, sc)

(* What the runtime can play as it is meant: supported conditions about    *)
(* entities that are there, an action it knows, a name of its own.         *)
Playable(i) ==
    LET e == scenario.events[i]
    IN  /\ e.effect
        /\ \A j \in DOMAIN scenario.events : scenario.events[j].name = e.name => j = i
        /\ \A g \in e.start : g # {} /\ \A c \in g :
                /\ c.kind # "unsupported"
                /\ c.kind # "simulation_time" => c.refs # {} /\ c.refs \subseteq actors
                /\ c.kind = "relative_distance" => c.target \in actors

PlayableEvents ==
    IF scenario.mode # "openscenario" THEN {} ELSE {i \in DOMAIN scenario.events : Playable(i)}

TickScene ==
    /\ play.pc = "tick"
    /\ scene' \in NextScenes
    /\ due' = due \union {i \in PlayableEvents : MeantTrigger(scenario.events[i].start, scene')}
    /\ PlayGoto("event")
    /\ UNCHANGED <<scenario, plan, actors, fired_events, fired, opened, waited>>

(* _fire_due_events, one event of the plan after the other; what its       *)
(* actions tell the Traffic Manager is left out.                           *)
Remaining == {i \in DOMAIN plan.events : play.event <= i}
Considered(i) == i \in Remaining /\ \A j \in Remaining : i <= j
NeverFired(name) == FALSE                    \* mutant: no memory of what has fired
HasFired(name) == name \in fired_events

FireEvent ==
    /\ play.pc = "event"
    /\ \E i \in DOMAIN plan.events :
          /\ Considered(i)
          /\ LET e == plan.events[i]
             IN  IF ~HasFired(e.name) /\ TriggerSatisfied(e.start, scene, e.actors)
                 THEN /\ fired_events' = fired_events \union {e.name}
                      /\ fired' = [fired EXCEPT ![i] = @ + 1]
                 ELSE UNCHANGED <<fired_events, fired>>
          /\ play' = [play EXCEPT !.event = i + 1]
    /\ UNCHANGED <<scenario, plan, actors, scene, due, opened, waited>>

EventsConsidered ==
    /\ play.pc = "event" /\ Remaining = {}
    /\ PlayGoto("end?")
    /\ UNCHANGED <<scenario, plan, actors, scene, fired_events, fired, due, opened, waited>>

(* An action of an event, a spawn or a tick raises.                        *)
PlayRaises ==
    /\ play.pc \in {"spawn", "tick", "event", "ego", "warm"}
    /\ PlayGoto("failed")
    /\ UNCHANGED <<scenario, plan, actors, scene, fired_events, fired, due, opened, waited>>

Ended ==
    IF scenario.mode = "carla_recorder_replay" THEN scene.elapsed >= scenario.timeout
    ELSE TriggerSatisfied(plan.stop, scene, {})

CheckEnd ==
    /\ play.pc = "end?"
    /\ PlayGoto(IF Ended THEN "completed" ELSE "poll")
    /\ UNCHANGED <<scenario, plan, actors, scene, fired_events, fired, due, opened, waited>>

-------------------------------------------------------------------------------
(* _execute_recorder_replay_run, up to the loop.                           *)

ClockKept(sc) == sc                          \* mutant: warm-up and loop share a clock
ClockReset(sc) == [sc EXCEPT !.elapsed = NotStarted]

(* The world is ticked until the ego vehicle is there, or for too long.    *)
(* The recording goes on meanwhile, and no clock counts these ticks.       *)
WaitForEgo ==
    /\ play.pc = "ego"
    /\ \/ /\ scene' = [scene EXCEPT !.position = Played(@)]
          /\ waited' = Capped(waited + 1)
          /\ UNCHANGED play
       \/ /\ PlayGoto(IF EffectiveWarmup(scenario) > 0 THEN "warm" ELSE "poll")
          /\ UNCHANGED <<scene, waited>>
       \/ PlayGoto("failed") /\ UNCHANGED <<scene, waited>>
    /\ opened' = scene.position
    /\ UNCHANGED <<scenario, plan, actors, fired_events, fired, due>>

(* The first tick starts the clock of the warm-up.                         *)
WarmUp ==
    /\ play.pc = "warm"
    /\ IF scene.elapsed >= EffectiveWarmup(scenario)
       THEN PlayGoto("poll") /\ scene' = ClockReset(scene) /\ opened' = scene.position
       ELSE /\ scene' = [scene EXCEPT !.elapsed = Capped(@ + 1), !.position = Played(@)]
            /\ UNCHANGED <<play, opened>>
    /\ UNCHANGED <<scenario, plan, actors, fired_events, fired, due, waited>>

PlayStep ==
    \/ SpawnPlanEntities \/ PollStop \/ TickScene \/ FireEvent \/ EventsConsidered
    \/ CheckEnd \/ WaitForEgo \/ WarmUp
PlayNext == PlayStep \/ PlayRaises

PlaySpec == PlayInit /\ [][PlayNext]_playVars
-------------------------------------------------------------------------------
(* Properties.                                                             *)

PlayTypeOK ==
    /\ scenario \in Scenarios
    /\ play.pc \in {"spawn", "ego", "warm", "poll", "tick", "event", "end?", "stopped",
                    "completed", "failed"}
    /\ actors \subseteq plan.entities
    /\ scene.elapsed \in NotStarted .. Far /\ scene.position \in 0 .. WindowEnd(scenario)
    /\ opened \in 0 .. WindowEnd(scenario) /\ waited \in 0 .. Far
    /\ fired \in [DOMAIN plan.events -> Nat]
    /\ fired_events = {plan.events[i].name : i \in {j \in DOMAIN plan.events : fired[j] > 0}}

(* Whenever the loop looks for its end, the events that the runtime can    *)
(* play and whose trigger, as the file states it, has held at some tick    *)
(* have fired, each of them once, and none of the others has: also events  *)
(* that become due in the tick that ends the scenario, or together.        *)
EventsFireWhenDue ==
    play.pc = "end?" =>
        \A i \in PlayableEvents : fired[i] = IF i \in due THEN 1 ELSE 0

(* A replay that was not stopped has shown the window that was asked for   *)
(* to its end, and nothing from before it.  What is missing is at its      *)
(* beginning: as much as was replayed while the ego vehicle was awaited,   *)
(* and the tick with which the clock of the warm-up started.               *)
Completed == play.pc = "completed" /\ scenario.mode = "carla_recorder_replay"
ReplayShowsItsWindow ==
    Completed =>
        /\ scene.position = WindowEnd(scenario)
        /\ opened >= scenario.start /\ opened <= scenario.start + waited + 1

(* A scenario with a stop trigger that a clock alone can satisfy ends, and *)
(* so does one whose file has no usable stop trigger; a descriptor ends    *)
(* unless it waits for its user.                                           *)
ByTheClock(g) == \A c \in g :
    c.kind = "simulation_time" /\ c.rule \in {"greaterThan", "greaterOrEqual"}
MustEnd ==
    CASE scenario.mode = "native_descriptor" -> ~scenario.manual
      [] scenario.mode = "openscenario" ->
            \/ \E g \in scenario.stop : g # {} /\ ByTheClock(g)
            \/ \A g \in scenario.stop : \A c \in g : c.kind = "unsupported"
      [] OTHER -> TRUE
TimedScenarioEnds == MustEnd ~> play.pc \in {"stopped", "completed", "failed"}
===============================================================================
