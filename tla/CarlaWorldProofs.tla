---------------------------- MODULE CarlaWorldProofs ----------------------------
(***************************************************************************)
(* What CarlaWorld guarantees for every set of maps and of preflight       *)
(* processes and every bound: as long as no two processes use CARLA at a   *)
(* time, a driven world is its run's own, and it is given back.  And what  *)
(* a run keeps of its world beside previews, RgbPreview.                   *)
(***************************************************************************)
EXTENDS RgbPreview, TLAPS

Entering == {"connect", "map", "sync"}
Driving == {"hero", "traffic", "loop"}
Cleaning == {"destroy", "restore"}

On(s) == IF s.sync THEN "on" ELSE "off"

(* What a session owes at its program counter, whoever else is there.      *)
SessionShape ==
    \A p \in CarlaUsers :
        /\ session[p].pc \in Entering => session[p].oldSync = "unknown"
        /\ session[p].pc \in Entering \union {"hero", "restore"} => session[p].spawned = {}
        /\ p # Driver => session[p].pc \notin Driving

DrivesCounted == InCarla(Driver) => drives > 0

(* A vehicle is leaked once, by the run that has spawned it.               *)
LeakedAreOld ==
    /\ leaked \subseteq (1 .. drives) \X {"traffic"}
    /\ session[Driver].pc \in Entering \union {"hero", "traffic"} =>
            <<drives, "traffic">> \notin leaked

Alone ==
    mixed \/ \A p, q \in CarlaUsers : InCarla(p) /\ InCarla(q) => p = q

(* The world of a process that nobody disturbs.                            *)
WorldObeys ==
    mixed \/ \A p \in CarlaUsers :
        /\ session[p].pc \in {"sync"} \union Driving => world.map = session[p].map
        /\ session[p].pc \in Driving =>
                world.sync = On(session[p]) /\ session[p].spawned \subseteq world.actors

Idle == world.sync = "off" /\ world.actors \subseteq leaked

(* What it has to give back, when everybody before has done so.            *)
Accounts ==
    mixed \/ spoiled \/
        /\ (\A p \in CarlaUsers : ~InCarla(p)) => Idle
        /\ \A p \in CarlaUsers :
            /\ session[p].pc \in Entering => Idle
            /\ session[p].pc \in Driving =>
                    /\ session[p].oldSync = "off"
                    /\ world.actors \ leaked = session[p].spawned
            /\ session[p].pc \in Cleaning =>
                    /\ session[p].oldSync \in {"unknown", "off"}
                    /\ session[p].oldSync = "unknown" => world.sync = "off"
                    /\ world.actors \subseteq leaked \union session[p].spawned

Books == SessionShape /\ LeakedAreOld /\ Alone /\ WorldObeys /\ Accounts

CarlaInv == CarlaTypeOK /\ DrivesCounted /\ Books
-------------------------------------------------------------------------------
(* Typing.                                                                 *)

Worlds == [map: CarlaMaps, sync: {"on", "off"}, step: {VariableStep, FixedStep},
           actors: SUBSET Actors]
Sessions == [pc: {"away", "connect", "map", "sync", "hero", "traffic", "loop", "destroy",
                  "restore"},
             map: CarlaMaps, sync: BOOLEAN, replay: BOOLEAN,
             oldSync: {"unknown", "on", "off"}, oldStep: {VariableStep, FixedStep},
             spawned: SUBSET Actors]

LEMMA TypeParts ==
    CarlaTypeOK <=> /\ world \in Worlds /\ session \in [CarlaUsers -> Sessions]
                    /\ drives \in 0 .. MaxDrives /\ mishaps \in 0 .. MaxMishaps
                    /\ mixed \in BOOLEAN /\ spoiled \in BOOLEAN /\ leaked \subseteq Actors
  BY DEF CarlaTypeOK, Worlds, Sessions

LEMMA TypePartsNext ==
    ASSUME world' \in Worlds, session' \in [CarlaUsers -> Sessions],
           drives' \in 0 .. MaxDrives, mishaps' \in 0 .. MaxMishaps,
           mixed' \in BOOLEAN, spoiled' \in BOOLEAN, leaked' \subseteq Actors
    PROVE  CarlaTypeOK'
  BY DEF CarlaTypeOK, Worlds, Sessions

LEMMA NoSessionType == NoSession \in Sessions
<1>1. (CHOOSE m \in CarlaMaps : TRUE) \in CarlaMaps
  BY CarlaConstants
<1>2. QED  BY <1>1, SMT DEF NoSession, Sessions

LEMMA TypeInit == CarlaInit => CarlaTypeOK
<1>1. SUFFICES ASSUME CarlaInit PROVE CarlaTypeOK
  OBVIOUS
<1>2. world \in Worlds
  BY <1>1 DEF CarlaInit, Worlds
<1>3. session \in [CarlaUsers -> Sessions]
  BY <1>1, NoSessionType DEF CarlaInit
<1>4. drives \in 0 .. MaxDrives /\ mishaps \in 0 .. MaxMishaps
  BY <1>1, CarlaConstants DEF CarlaInit
<1>5. mixed \in BOOLEAN /\ spoiled \in BOOLEAN /\ leaked \subseteq Actors
  BY <1>1 DEF CarlaInit
<1>6. QED  BY <1>2, <1>3, <1>4, <1>5, TypeParts, Zenon

(* A run is counted before it has spawned anything.                        *)
LEMMA ActorsOfThisRun ==
    ASSUME CarlaTypeOK, drives > 0
    PROVE  <<drives, "hero">> \in Actors /\ <<drives, "traffic">> \in Actors
  BY CarlaConstants DEF Actors, CarlaTypeOK

LEMMA EnterSessionType ==
    ASSUME session \in [CarlaUsers -> Sessions], NEW p \in CarlaUsers, NEW m \in CarlaMaps,
           NEW sync \in BOOLEAN, NEW replay \in BOOLEAN, EnterCarla(p, m, sync, replay)
    PROVE  session' \in [CarlaUsers -> Sessions]
<1> DEFINE new == [NoSession EXCEPT !.pc = "connect", !.map = m, !.sync = sync,
                                    !.replay = replay]
<1>1. new \in Sessions
  BY NoSessionType DEF Sessions
<1>2. session' = [session EXCEPT ![p] = new]
  BY DEF EnterCarla
<1> HIDE DEF new
<1>3. QED  BY <1>1, <1>2

LEMMA EnterType ==
    ASSUME CarlaTypeOK, NEW p \in CarlaUsers, NEW m \in CarlaMaps, NEW sync \in BOOLEAN,
           NEW replay \in BOOLEAN, EnterCarla(p, m, sync, replay),
           drives' \in 0 .. MaxDrives
    PROVE  CarlaTypeOK'
<1>1. session' \in [CarlaUsers -> Sessions]
  BY EnterSessionType, TypeParts
<1>2. mixed' \in BOOLEAN
  BY DEF EnterCarla
<1>3. UNCHANGED <<world, mishaps, spoiled, leaked>>
  BY DEF EnterCarla
<1>4. QED
  BY <1>1, <1>2, <1>3, TypeParts, TypePartsNext

(* The actors of the world may be anybody's here.                          *)
LEMMA SessionStepType ==
    ASSUME session \in [CarlaUsers -> Sessions], world.sync \in {"on", "off"},
           world.step \in {VariableStep, FixedStep}, NEW p \in CarlaUsers, CarlaStep(p)
    PROVE  session' \in [CarlaUsers -> Sessions]
<1>1. session[p] \in Sessions
  OBVIOUS
<1>2. \A pc \in {"map", "sync", "destroy"} : [session[p] EXCEPT !.pc = pc] \in Sessions
  BY <1>1 DEF Sessions
<1>3. CASE ConnectCarla(p) \/ LoadMap(p) \/ CarlaRaises(p)
  <2>1. PICK pc \in {"map", "sync", "destroy"} : session' = [session EXCEPT ![p].pc = pc]
    BY <1>3 DEF ConnectCarla, LoadMap, CarlaRaises, CarlaGoto
  <2>2. QED  BY <1>2, <2>1
<1>4. CASE ConfigureWorldSync(p)
  <2>1. [Remember(session[p]) EXCEPT !.pc = AfterSync(p)] \in Sessions
    BY <1>1 DEF Remember, AfterSync, Sessions
  <2>2. QED  BY <1>4, <2>1 DEF ConfigureWorldSync
<1>5. CASE DestroySpawned(p)
  <2>1. [session[p] EXCEPT !.pc = "restore", !.spawned = {}] \in Sessions
    BY <1>1 DEF Sessions
  <2>2. QED  BY <1>5, <2>1 DEF DestroySpawned
<1>6. CASE RestoreWorldSettings(p) \/ LeavesCarla(p)
  BY <1>6, NoSessionType DEF RestoreWorldSettings, LeavesCarla
<1>7. QED  BY <1>3, <1>4, <1>5, <1>6 DEF CarlaStep

LEMMA DriverStepType ==
    ASSUME session \in [CarlaUsers -> Sessions],
           <<drives, "hero">> \in Actors, <<drives, "traffic">> \in Actors,
           SpawnHero \/ SpawnTraffic \/ AutopilotRaises \/ DriveEnds
    PROVE  session' \in [CarlaUsers -> Sessions]
<1>1. Driver \in CarlaUsers /\ session[Driver] \in Sessions
  BY DEF CarlaUsers
<1>2. \A pc \in {"loop", "destroy"} : [session[Driver] EXCEPT !.pc = pc] \in Sessions
  BY <1>1 DEF Sessions
<1>3. \A pc \in {"traffic", "loop"}, k \in {"hero", "traffic"} :
          [Remembered(session[Driver], <<drives, k>>) EXCEPT !.pc = pc] \in Sessions
  BY <1>1 DEF Sessions, Remembered
<1>4. CASE SpawnHero
  BY <1>1, <1>3, <1>4 DEF SpawnHero
<1>5. CASE SpawnTraffic
  BY <1>1, <1>2, <1>3, <1>5 DEF SpawnTraffic, CarlaGoto
<1>6. CASE AutopilotRaises \/ DriveEnds
  BY <1>1, <1>2, <1>6 DEF AutopilotRaises, DriveEnds, CarlaGoto
<1>7. QED  BY <1>4, <1>5, <1>6

LEMMA WorldStepType ==
    ASSUME CarlaTypeOK, NEW p \in CarlaUsers, CarlaStep(p)
    PROVE  world' \in Worlds
<1> USE TypeParts
<1>1. world \in Worlds /\ session[p] \in Sessions
  OBVIOUS
<1>2. CASE UNCHANGED world
  BY <1>1, <1>2
<1>3. CASE LoadMap(p)
  BY <1>1, <1>3 DEF LoadMap, Worlds, Sessions
<1>4. CASE ConfigureWorldSync(p)
  BY <1>1, <1>4 DEF ConfigureWorldSync, Worlds
<1>5. CASE DestroySpawned(p)
  BY <1>1, <1>5 DEF DestroySpawned, Worlds
<1>6. CASE RestoreWorldSettings(p)
  BY <1>1, <1>6 DEF RestoreWorldSettings, Restored, Worlds, Sessions
<1>7. QED
  BY <1>2, <1>3, <1>4, <1>5, <1>6 DEF CarlaStep, ConnectCarla, CarlaRaises, LeavesCarla

LEMMA TypeStep ==
    ASSUME CarlaTypeOK, DrivesCounted, [CarlaNext]_carlaVars
    PROVE  CarlaTypeOK' /\ DrivesCounted'
<1> USE CarlaConstants
<1>1. Driver \in CarlaUsers /\ session[Driver] \in Sessions /\ world \in Worlds
  BY TypeParts DEF CarlaUsers
<1>2. ASSUME NEW m \in CarlaMaps, NEW sync \in BOOLEAN, NEW replay \in BOOLEAN,
             DriveRun(m, sync, replay)
      PROVE  CarlaTypeOK' /\ DrivesCounted'
  <2>1. drives' \in 0 .. MaxDrives /\ drives' > 0
    BY <1>2 DEF DriveRun, CarlaTypeOK
  <2>2. QED  BY <1>1, <1>2, <2>1, EnterType DEF DriveRun, DrivesCounted
<1>3. ASSUME NEW p \in Checks, NEW m \in CarlaMaps, RunPreflight(p, m)
      PROVE  CarlaTypeOK' /\ DrivesCounted'
  <2>1. drives' = drives /\ p \in CarlaUsers /\ p # Driver
    BY <1>3 DEF RunPreflight, CarlaUsers
  <2>2. CarlaTypeOK'
    BY <1>3, <2>1, EnterType, TypeParts DEF RunPreflight
  <2>3. session'[Driver] = session[Driver]
    BY <1>1, <1>3, <2>1, TypeParts DEF RunPreflight, EnterCarla
  <2>4. QED  BY <2>1, <2>2, <2>3 DEF DrivesCounted, InCarla
<1>4. ASSUME NEW p \in CarlaUsers, CarlaStep(p)
      PROVE  CarlaTypeOK' /\ DrivesCounted'
  <2>1. spoiled' \in BOOLEAN
    <3>1. CASE spoiled' = spoiled  BY <3>1, TypeParts
    <3>2. CASE LeavesCarla(p)      BY <3>2, Zenon DEF LeavesCarla
    <3>3. QED
      BY <1>4, <3>1, <3>2 DEF CarlaStep, ConnectCarla, LoadMap, ConfigureWorldSync,
         DestroySpawned, RestoreWorldSettings, CarlaRaises, carlaHistory
  <2>2. drives' = drives /\ mishaps' \in 0 .. MaxMishaps /\ mixed' = mixed
            /\ leaked' = leaked
    BY <1>4, TypeParts DEF CarlaStep, ConnectCarla, LoadMap, ConfigureWorldSync, DestroySpawned,
       RestoreWorldSettings, CarlaRaises, LeavesCarla, carlaHistory
  <2>3. CarlaTypeOK'
    <3>1. /\ session \in [CarlaUsers -> Sessions] /\ world.sync \in {"on", "off"}
          /\ world.step \in {VariableStep, FixedStep}
      BY TypeParts DEF Worlds
    <3>2. QED
      BY <1>4, <2>1, <2>2, <3>1, SessionStepType, WorldStepType, TypeParts, TypePartsNext
  <2>4. InCarla(Driver)' => InCarla(Driver)
    BY <1>1, <1>4, TypeParts DEF CarlaStep, ConnectCarla, LoadMap, ConfigureWorldSync, DestroySpawned,
       RestoreWorldSettings, CarlaRaises, LeavesCarla, InCarla, CarlaGoto, NoSession
  <2>5. QED  BY <2>2, <2>3, <2>4 DEF DrivesCounted
<1>5. CASE SpawnHero \/ SpawnTraffic \/ AutopilotRaises \/ DriveEnds
  <2>1. InCarla(Driver) /\ drives > 0
    BY <1>5 DEF SpawnHero, SpawnTraffic, AutopilotRaises, DriveEnds, InCarla, DrivesCounted
  <2>2. <<drives, "hero">> \in Actors /\ <<drives, "traffic">> \in Actors
    BY <2>1, ActorsOfThisRun
  <2>3. world' \in Worlds
    BY <1>1, <1>5, <2>2 DEF SpawnHero, SpawnTraffic, AutopilotRaises, DriveEnds, Worlds
  <2>6. session' \in [CarlaUsers -> Sessions]
    BY <1>5, <2>2, TypeParts, DriverStepType
  <2>7. drives' = drives /\ mishaps' \in 0 .. MaxMishaps /\ mixed' = mixed
            /\ spoiled' = spoiled /\ leaked' \subseteq Actors
    BY <1>5, <2>2, TypeParts DEF SpawnHero, SpawnTraffic, AutopilotRaises, DriveEnds, carlaHistory
  <2>8. QED  BY <2>1, <2>3, <2>6, <2>7, TypeParts, TypePartsNext DEF DrivesCounted
<1>6. CASE UNCHANGED carlaVars
  BY <1>6 DEF carlaVars, carlaHistory, CarlaTypeOK, DrivesCounted, InCarla
<1>7. QED
  BY <1>2, <1>3, <1>4, <1>5, <1>6 DEF CarlaNext
-------------------------------------------------------------------------------
(* Who owes what to the world.                                             *)

LEMMA BooksInit == CarlaInit => DrivesCounted /\ Books
<1>1. SUFFICES ASSUME CarlaInit PROVE DrivesCounted /\ Books
  OBVIOUS
<1>2. \A p \in CarlaUsers : session[p].pc = "away" /\ session[p].spawned = {}
  BY <1>1 DEF CarlaInit, NoSession
<1>3. Driver \in CarlaUsers /\ world.sync = "off" /\ world.actors = {} /\ leaked = {}
  BY <1>1 DEF CarlaInit, CarlaUsers
<1>4. QED
  BY <1>2, <1>3 DEF DrivesCounted, Books, SessionShape, LeakedAreOld, Alone, WorldObeys, Accounts,
     Idle, InCarla, Entering, Driving, Cleaning

LEMMA EnterBooks ==
    ASSUME CarlaTypeOK, DrivesCounted, Books, NEW p \in CarlaUsers, NEW m \in CarlaMaps,
           NEW sync \in BOOLEAN, NEW replay \in BOOLEAN, EnterCarla(p, m, sync, replay),
           drives' = IF p = Driver THEN drives + 1 ELSE drives
    PROVE  Books'
<1> USE DEF Books, Entering, Driving, Cleaning
<1>1. /\ session'[p].pc = "connect" /\ session'[p].oldSync = "unknown"
      /\ session'[p].spawned = {} /\ session[p].pc = "away"
      /\ \A q \in CarlaUsers \ {p} : session'[q] = session[q]
  BY TypeParts DEF EnterCarla, InCarla, NoSession
<1>2. world' = world /\ leaked' = leaked /\ spoiled' = spoiled
  BY DEF EnterCarla
<1>3. mixed' \/ (~mixed /\ \A q \in CarlaUsers : session[q].pc = "away")
  BY DEF EnterCarla, InCarla
<1>4. SessionShape'
  BY <1>1 DEF SessionShape
<1>5. LeakedAreOld'
  <2>1. drives \in Nat /\ Driver \in CarlaUsers
    BY DEF CarlaTypeOK, CarlaUsers
  <2>2. leaked \subseteq (1 .. drives') \X {"traffic"}
    BY <2>1 DEF LeakedAreOld
  <2>3. CASE p = Driver
    BY <1>2, <2>1, <2>2, <2>3 DEF LeakedAreOld
  <2>4. CASE p # Driver
    BY <1>1, <1>2, <2>1, <2>2, <2>4 DEF LeakedAreOld
  <2>5. QED  BY <2>3, <2>4
<1>6. Alone'
  BY <1>1, <1>3 DEF Alone, InCarla
<1>7. WorldObeys'
  BY <1>1, <1>3 DEF WorldObeys
<1>8. Accounts'
  BY <1>1, <1>2, <1>3 DEF Accounts, Idle, InCarla
<1>9. QED  BY <1>4, <1>5, <1>6, <1>7, <1>8

(* A step of one process, which leaves the sessions of the others alone.   *)
LEMMA StepBooks ==
    ASSUME CarlaTypeOK, DrivesCounted, Books, NEW p \in CarlaUsers, CarlaStep(p)
    PROVE  Books'
<1> USE DEF Books, Entering, Driving, Cleaning
<1>1. world \in Worlds /\ session \in [CarlaUsers -> Sessions] /\ session[p] \in Sessions
        /\ Driver \in CarlaUsers
  BY TypeParts DEF CarlaUsers
<1>2. /\ drives' = drives /\ mixed' = mixed /\ leaked' = leaked
      /\ \A q \in CarlaUsers \ {p} : session'[q] = session[q]
      /\ session[p].pc # "away"
  BY <1>1 DEF CarlaStep, ConnectCarla, LoadMap, ConfigureWorldSync, DestroySpawned,
     RestoreWorldSettings, CarlaRaises, LeavesCarla, InCarla, CarlaGoto, carlaHistory
<1>3. mixed \/ \A q \in CarlaUsers \ {p} : session[q].pc = "away"
  BY <1>2 DEF Alone, InCarla
<1>4. CASE ConnectCarla(p)
  <2>1. /\ session[p].pc = "connect" /\ session'[p] = [session[p] EXCEPT !.pc = "map"]
        /\ world' = world /\ spoiled' = spoiled
    BY <1>1, <1>4 DEF ConnectCarla, CarlaGoto, carlaHistory
  <2>2. QED
    BY <1>1, <1>2, <1>3, <2>1 DEF SessionShape, LeakedAreOld, Alone, WorldObeys, Accounts,
       Idle, InCarla, On, Sessions
<1>5. CASE LoadMap(p)
  <2>1. /\ session[p].pc = "map" /\ session'[p] = [session[p] EXCEPT !.pc = "sync"]
        /\ spoiled' = spoiled /\ world'.map = session[p].map
        /\ world' = world \/ (world'.sync = "off" /\ world'.actors = {})
    BY <1>1, <1>5 DEF LoadMap, CarlaGoto, carlaHistory
  <2>2. QED
    BY <1>1, <1>2, <1>3, <2>1 DEF SessionShape, LeakedAreOld, Alone, WorldObeys, Accounts,
       Idle, InCarla, On, Sessions
<1>6. CASE ConfigureWorldSync(p)
  <2>1. /\ session[p].pc = "sync" /\ spoiled' = spoiled
        /\ session'[p].pc \in {"destroy", "loop", "hero"}
        /\ p # Driver => session'[p].pc = "destroy"
        /\ session'[p].map = session[p].map /\ session'[p].sync = session[p].sync
        /\ session'[p].spawned = session[p].spawned /\ session'[p].oldSync = world.sync
        /\ world'.map = world.map /\ world'.sync = On(session[p])
        /\ world'.actors = world.actors
    BY <1>1, <1>6 DEF ConfigureWorldSync, Remember, AfterSync, On, carlaHistory, Worlds, Sessions
  <2>2. QED
    BY <1>1, <1>2, <1>3, <2>1 DEF SessionShape, LeakedAreOld, Alone, WorldObeys, Accounts,
       Idle, InCarla, On
<1>7. CASE CarlaRaises(p)
  <2>1. /\ session[p].pc \in Entering \union Driving
        /\ session'[p] = [session[p] EXCEPT !.pc = "destroy"]
        /\ world' = world /\ spoiled' = spoiled
    BY <1>1, <1>7 DEF CarlaRaises, CarlaGoto, carlaHistory
  <2>2. QED
    BY <1>1, <1>2, <1>3, <2>1 DEF SessionShape, LeakedAreOld, Alone, WorldObeys, Accounts,
       Idle, InCarla, On, Sessions
<1>8. CASE DestroySpawned(p)
  <2>1. /\ session[p].pc = "destroy" /\ spoiled' = spoiled
        /\ session'[p].pc = "restore" /\ session'[p].spawned = {}
        /\ session'[p].oldSync = session[p].oldSync
        /\ world'.sync = world.sync /\ world'.actors = world.actors \ session[p].spawned
    BY <1>1, <1>8 DEF DestroySpawned, carlaHistory, Worlds, Sessions
  <2>2. QED
    BY <1>1, <1>2, <1>3, <2>1 DEF SessionShape, LeakedAreOld, Alone, WorldObeys, Accounts,
       Idle, InCarla
<1>9. CASE RestoreWorldSettings(p)
  <2>1. /\ session[p].pc = "restore" /\ spoiled' = spoiled /\ session'[p] = NoSession
        /\ world'.actors = world.actors
        /\ world'.sync = IF session[p].oldSync = "unknown" THEN world.sync
                         ELSE session[p].oldSync
    BY <1>1, <1>9 DEF RestoreWorldSettings, Restored, carlaHistory, Worlds
  <2>2. QED
    BY <1>1, <1>2, <1>3, <2>1 DEF SessionShape, LeakedAreOld, Alone, WorldObeys, Accounts,
       Idle, InCarla, NoSession
<1>10. CASE LeavesCarla(p)
  <2>1. /\ session'[p] = NoSession /\ world' = world
        /\ spoiled' \/ (~spoiled /\ session[p].oldSync = "unknown" /\ session[p].spawned = {})
    BY <1>1, <1>10 DEF LeavesCarla, OwesNothing
  <2>2. QED
    BY <1>1, <1>2, <1>3, <2>1 DEF SessionShape, LeakedAreOld, Alone, WorldObeys, Accounts,
       Idle, InCarla, NoSession, Sessions
<1>11. QED
  BY <1>4, <1>5, <1>6, <1>7, <1>8, <1>9, <1>10 DEF CarlaStep
(* What only the worker of a run does.                                     *)
LEMMA DriverBooks ==
    ASSUME CarlaTypeOK, DrivesCounted, Books,
           SpawnHero \/ SpawnTraffic \/ AutopilotRaises \/ DriveEnds
    PROVE  Books'
<1> USE DEF Books, Entering, Driving, Cleaning
<1>1. world \in Worlds /\ session \in [CarlaUsers -> Sessions] /\ session[Driver] \in Sessions
        /\ Driver \in CarlaUsers /\ drives \in Nat /\ drives > 0
  <2>1. session[Driver].pc # "away"
    BY DEF SpawnHero, SpawnTraffic, AutopilotRaises, DriveEnds
  <2>2. QED  BY <2>1, TypeParts DEF CarlaUsers, DrivesCounted, InCarla
<1>2. /\ drives' = drives /\ mixed' = mixed /\ spoiled' = spoiled
      /\ \A q \in CarlaUsers \ {Driver} : session'[q] = session[q]
      /\ session[Driver].pc \in Driving
  BY <1>1 DEF SpawnHero, SpawnTraffic, AutopilotRaises, DriveEnds, CarlaGoto, carlaHistory
<1>3. mixed \/ \A q \in CarlaUsers \ {Driver} : session[q].pc = "away"
  BY <1>1, <1>2 DEF Alone, InCarla
<1> DEFINE hero == <<drives, "hero">>
           traffic == <<drives, "traffic">>
<1>4. hero \notin leaked /\ hero # traffic
  BY DEF LeakedAreOld
<1>5. ASSUME NEW a \in {hero, traffic}, a \notin leaked,
             session[Driver].pc \in {"hero", "traffic"},
             NEW pc \in {"traffic", "loop"}, pc = "traffic" => traffic \notin leaked,
             session'[Driver] = [Remembered(session[Driver], a) EXCEPT !.pc = pc],
             world' = [world EXCEPT !.actors = @ \union {a}], leaked' = leaked
      PROVE  Books'
  <2>1. /\ session'[Driver].pc = pc
        /\ session'[Driver].map = session[Driver].map
        /\ session'[Driver].sync = session[Driver].sync
        /\ session'[Driver].oldSync = session[Driver].oldSync
        /\ session'[Driver].spawned = session[Driver].spawned \union {a}
        /\ world'.map = world.map /\ world'.sync = world.sync
        /\ world'.actors = world.actors \union {a} /\ leaked' = leaked
    BY <1>1, <1>5 DEF Remembered, Worlds, Sessions
  <2>2. SessionShape' /\ LeakedAreOld' /\ Alone'
    <3>1. SessionShape'
      BY <1>1, <1>2, <2>1 DEF SessionShape
    <3>2. LeakedAreOld'
      BY <1>2, <1>5, <2>1 DEF LeakedAreOld
    <3>3. Alone'
      BY <1>1, <1>2, <1>3, <2>1 DEF Alone, InCarla
    <3>4. QED  BY <3>1, <3>2, <3>3
  <2>3. WorldObeys'
    BY <1>1, <1>2, <1>3, <1>5, <2>1 DEF WorldObeys, On
  <2>4. Accounts'
    <3>1. SUFFICES ASSUME ~mixed, ~spoiled PROVE Accounts'
      BY <1>2 DEF Accounts
    <3>2. /\ session'[Driver].oldSync = "off"
          /\ world'.actors \ leaked' = session'[Driver].spawned
      BY <1>1, <1>2, <1>5, <2>1, <3>1 DEF Accounts
    <3>3. QED
      BY <1>1, <1>2, <1>3, <2>1, <3>1, <3>2 DEF Accounts, InCarla
  <2>5. QED  BY <2>2, <2>3, <2>4
<1>6. ASSUME NEW pc \in {"loop", "destroy"}, session[Driver].pc \in {"traffic", "loop"},
             session'[Driver] = [session[Driver] EXCEPT !.pc = pc],
             world' = world, leaked' = leaked
      PROVE  Books'
  BY <1>1, <1>2, <1>3, <1>6 DEF SessionShape, LeakedAreOld, Alone, WorldObeys, Accounts,
     Idle, InCarla, On, Sessions
<1>7. CASE SpawnHero
  <2>1. /\ session[Driver].pc = "hero" /\ leaked' = leaked
        /\ session'[Driver] = [Remembered(session[Driver], hero) EXCEPT !.pc = "traffic"]
        /\ world' = [world EXCEPT !.actors = @ \union {hero}]
    BY <1>1, <1>7 DEF SpawnHero, carlaHistory
  <2>2. traffic \notin leaked
    BY <2>1 DEF LeakedAreOld
  <2>3. QED  BY <1>4, <1>5, <2>1, <2>2
<1>8. CASE SpawnTraffic
  <2>1. session[Driver].pc = "traffic" /\ leaked' = leaked
    BY <1>8 DEF SpawnTraffic, carlaHistory
  <2>2. CASE CarlaGoto(Driver, "loop") /\ UNCHANGED world
    BY <1>1, <1>6, <2>1, <2>2 DEF CarlaGoto
  <2>3. CASE /\ world' = [world EXCEPT !.actors = @ \union {traffic}]
             /\ session' = [session EXCEPT
                    ![Driver] = [Remembered(@, traffic) EXCEPT !.pc = "loop"]]
    <3>1. traffic \notin leaked
      BY <2>1 DEF LeakedAreOld
    <3>2. session'[Driver] = [Remembered(session[Driver], traffic) EXCEPT !.pc = "loop"]
      BY <1>1, <2>3
    <3>3. QED  BY <1>5, <2>1, <2>3, <3>1, <3>2
  <2>4. QED  BY <1>8, <2>2, <2>3 DEF SpawnTraffic
<1>9. CASE DriveEnds
  BY <1>1, <1>6, <1>9 DEF DriveEnds, CarlaGoto, carlaHistory
<1>10. CASE AutopilotRaises
  <2>1. /\ session[Driver].pc = "traffic"
        /\ session'[Driver] = [session[Driver] EXCEPT !.pc = "destroy"]
        /\ world'.sync = world.sync /\ world'.actors = world.actors \union {traffic}
        /\ leaked' = leaked \union {traffic}
    BY <1>1, <1>10 DEF AutopilotRaises, CarlaGoto, Worlds
  <2>2. traffic \in (1 .. drives) \X {"traffic"}
    BY <1>1
  <2>3. QED
    BY <1>1, <1>2, <1>3, <2>1, <2>2 DEF SessionShape, LeakedAreOld, Alone, WorldObeys, Accounts,
       Idle, InCarla, Sessions
<1>11. QED  BY <1>7, <1>8, <1>9, <1>10

LEMMA BooksStep == CarlaInv /\ [CarlaNext]_carlaVars => CarlaInv'
<1>1. SUFFICES ASSUME CarlaInv, [CarlaNext]_carlaVars PROVE CarlaInv'
  OBVIOUS
<1>2. CarlaTypeOK /\ DrivesCounted /\ Books
  BY <1>1 DEF CarlaInv
<1>3. CarlaTypeOK' /\ DrivesCounted'
  BY <1>1, <1>2, TypeStep
<1>4. Books'
  <2>1. ASSUME NEW m \in CarlaMaps, NEW sync \in BOOLEAN, NEW replay \in BOOLEAN,
               DriveRun(m, sync, replay)
        PROVE  Books'
    BY <1>2, <2>1, EnterBooks DEF DriveRun, CarlaUsers
  <2>2. ASSUME NEW p \in Checks, NEW m \in CarlaMaps, RunPreflight(p, m)
        PROVE  Books'
    <3>1. p \in CarlaUsers /\ p # Driver
      BY CarlaConstants DEF CarlaUsers
    <3>2. QED  BY <1>2, <2>2, <3>1, EnterBooks DEF RunPreflight
  <2>3. ASSUME NEW p \in CarlaUsers, CarlaStep(p)
        PROVE  Books'
    BY <1>2, <2>3, StepBooks
  <2>4. CASE SpawnHero \/ SpawnTraffic \/ AutopilotRaises \/ DriveEnds
    BY <1>2, <2>4, DriverBooks
  <2>5. CASE UNCHANGED carlaVars
    BY <1>2, <2>5 DEF carlaVars, carlaHistory, Books, SessionShape, LeakedAreOld, Alone,
       WorldObeys, Accounts, Idle, InCarla
  <2>6. QED  BY <1>1, <2>1, <2>2, <2>3, <2>4, <2>5 DEF CarlaNext
<1>5. QED  BY <1>3, <1>4 DEF CarlaInv

LEMMA Invariant == CarlaSpec => []CarlaInv
<1>1. CarlaInit => CarlaInv
  BY TypeInit, BooksInit DEF CarlaInv
<1>2. QED  BY <1>1, BooksStep, PTL DEF CarlaSpec
-------------------------------------------------------------------------------
(* Every reachable state is well typed, for every set of maps and of       *)
(* preflight processes and every bound.                                    *)
THEOREM CarlaTypeCorrect == CarlaSpec => []CarlaTypeOK
<1>1. CarlaInv => CarlaTypeOK
  BY DEF CarlaInv
<1>2. QED  BY <1>1, Invariant, PTL

(* As long as no two processes use CARLA at a time, the run that is driven *)
(* has its map, its mode and its actors, and, when everybody before has    *)
(* come to the end of its clean-up, nobody else's.                         *)
THEOREM UndisturbedWorldIsItsOwn == CarlaSpec => []DrivenWorldIsItsOwn
<1>1. CarlaInv => DrivenWorldIsItsOwn
  <2>1. Driver \in CarlaUsers
    BY DEF CarlaUsers
  <2>2. QED
    BY <2>1 DEF CarlaInv, Books, WorldObeys, Accounts, DrivenWorldIsItsOwn, DriverKeepsItsWorld,
       Driving, On
<1>2. QED  BY <1>1, Invariant, PTL

(* Then, between two users of CARLA the world is asynchronous and empty,   *)
(* but for vehicles whose autopilot could not be set.                      *)
THEOREM UndisturbedWorldIsGivenBack == CarlaSpec => []WorldIsGivenBack
<1>1. CarlaInv => WorldIsGivenBack
  BY DEF CarlaInv, Books, Accounts, Idle, WorldIsGivenBack
<1>2. QED  BY <1>1, Invariant, PTL
-------------------------------------------------------------------------------
(* RgbPreview: the same world with previews in it, which are no            *)
(* CarlaClients.                                                           *)

AllActors == Actors \union PreviewActors
SharedWorlds == [map: CarlaMaps, sync: {"on", "off"}, step: {VariableStep, FixedStep},
                 actors: SUBSET AllActors]
Previews ==
    [pc: {"away", "connect", "load", "settings", "find", "traffic", "sensors", "show"},
     map: CarlaMaps \union {NoMap}, follow: BOOLEAN, spawns: BOOLEAN,
     ego: AllActors \union {NoActor}, mine: BOOLEAN, traffic: BOOLEAN, sensor: BOOLEAN]

UsersInv ==
    /\ world \in SharedWorlds /\ session \in [CarlaUsers -> Sessions]
    /\ drives \in 0 .. MaxDrives /\ DrivesCounted
    /\ session[Driver].pc \in Entering => session[Driver].spawned = {}

PreviewShape ==
    /\ preview \in Previews /\ previews \in 0 .. MaxPreviews
    /\ disturbed \in BOOLEAN /\ poached \in BOOLEAN
    /\ preview.pc # "away" => previews > 0
    /\ preview.pc = "load" => preview.map \in CarlaMaps

(* A vehicle that a preview calls its own is one that it has spawned.      *)
OwnEgoIsOwn ==
    /\ preview.pc \in {"connect", "load", "settings", "find"} => ~preview.mine
    /\ preview.mine => poached \/ preview.ego \in PreviewActors

(* Nobody sets the world up while a run is in it,                          *)
DriverIsApart ==
    InCarla(Driver) => disturbed \/
        /\ preview.pc \notin {"connect", "load", "settings"}
        /\ \A p \in Checks : session[p].pc = "away"

(* so that it stays as the run has set it up itself.                       *)
WorldObeysDriver ==
    disturbed \/ poached \/
        /\ session[Driver].pc \in {"sync"} \union Driving => world.map = session[Driver].map
        /\ session[Driver].pc \in Driving =>
                /\ world.sync = On(session[Driver])
                /\ session[Driver].spawned \subseteq world.actors

PreviewInv ==
    UsersInv /\ PreviewShape /\ OwnEgoIsOwn /\ DriverIsApart /\ WorldObeysDriver

LEMMA PreviewTypes == PreviewInv => PreviewTypeOK
  BY DEF PreviewInv, UsersInv, PreviewShape, PreviewTypeOK, Previews, SharedWorlds, AllActors

LEMMA NoPreviewType == NoPreview \in Previews
  BY DEF NoPreview, Previews

LEMMA PreviewsStart == CarlaInit /\ PreviewInit => PreviewInv
<1> SUFFICES ASSUME CarlaInit, PreviewInit PROVE PreviewInv
  OBVIOUS
<1>1. Driver \in CarlaUsers /\ session[Driver] = NoSession /\ NoSession.pc = "away"
  BY DEF CarlaInit, CarlaUsers, NoSession
<1>2. UsersInv
  <2>1. world \in SharedWorlds
    BY DEF CarlaInit, SharedWorlds
  <2>2. session \in [CarlaUsers -> Sessions] /\ drives \in 0 .. MaxDrives
    BY CarlaConstants, NoSessionType DEF CarlaInit
  <2>3. QED  BY <1>1, <2>1, <2>2 DEF UsersInv, DrivesCounted, InCarla, Entering
<1>3. PreviewShape
  <2>1. NoPreview.pc = "away" /\ 0 \in 0 .. MaxPreviews
    BY PreviewConstants DEF NoPreview
  <2>2. QED  BY <2>1, NoPreviewType DEF PreviewInit, PreviewShape
<1>4. OwnEgoIsOwn
  BY DEF PreviewInit, OwnEgoIsOwn, NoPreview
<1>5. DriverIsApart /\ WorldObeysDriver
  BY <1>1 DEF DriverIsApart, WorldObeysDriver, InCarla, Driving
<1>6. QED  BY <1>2, <1>3, <1>4, <1>5 DEF PreviewInv

(* The actors of a preview are never those of a run.                       *)
LEMMA ActorsOfPreviews ==
    /\ Actors \intersect PreviewActors = {}
    /\ PreviewShape /\ preview.pc # "away" =>
            \A kind \in {"preview hero", "preview traffic", "preview sensor"} :
                PreviewActor(kind) \in PreviewActors
<1>1. Actors \intersect PreviewActors = {}
  BY DEF Actors, PreviewActors
<1>2. ASSUME PreviewShape, preview.pc # "away" PROVE previews \in 1 .. MaxPreviews
  BY <1>2, PreviewConstants DEF PreviewShape
<1>3. QED  BY <1>1, <1>2 DEF PreviewActors, PreviewActor

LEMMA RemovedAreItsOwn ==
    ASSUME PreviewInv, PreviewEnds, ~poached
    PROVE  Removed \subseteq PreviewActors
  BY ActorsOfPreviews
  DEF PreviewInv, OwnEgoIsOwn, Removed, OwnEgo, PreviewEnds, PreviewAt

(* Steps of the preview: the CarlaClients are not asked.                   *)
LEMMA PreviewStepTypes ==
    ASSUME PreviewInv, PreviewStep
    PROVE  /\ preview' \in Previews /\ world' \in SharedWorlds
           /\ UNCHANGED <<session, drives, previews, disturbed>>
           /\ poached' \in BOOLEAN /\ (poached => poached')
<1> USE DEF PreviewAt, PreviewGoto, SpawnForPreview, DrivesOn, previewHistory
<1>1. /\ preview \in Previews /\ world \in SharedWorlds /\ poached \in BOOLEAN
      /\ WithRole \subseteq AllActors
  BY DEF PreviewInv, UsersInv, PreviewShape, SharedWorlds, WithRole
<1>2. preview.pc # "away" =>
        \A kind \in {"preview hero", "preview traffic", "preview sensor"} :
            PreviewActor(kind) \in AllActors
  BY ActorsOfPreviews DEF PreviewInv, AllActors
<1>3. ASSUME NEW kind \in {"preview hero", "preview traffic", "preview sensor"},
              preview.pc # "away", SpawnForPreview(kind)
       PROVE  world' \in SharedWorlds
  <2>1. PreviewActor(kind) \in AllActors
    BY <1>2, <1>3
  <2>2. QED  BY <1>1, <1>3, <2>1 DEF SharedWorlds
<1>4. CASE CompareMap \/ PreviewAborts
  BY <1>1, <1>4, NoPreviewType DEF CompareMap, PreviewAborts, Previews
<1>5. CASE LoadPreviewMap
  <2>1. preview.map \in CarlaMaps
    BY <1>5 DEF LoadPreviewMap, PreviewInv, PreviewShape
  <2>2. QED  BY <1>1, <1>5, <2>1 DEF LoadPreviewMap, Previews, SharedWorlds
<1>6. CASE ApplyPreviewSettings
  BY <1>1, <1>6 DEF ApplyPreviewSettings, Previews, SharedWorlds
<1>7. CASE FindEgo \/ ReacquireEgo
  BY <1>1, <1>7 DEF FindEgo, ReacquireEgo, Previews
<1>8. CASE SpawnPreviewEgo
  BY <1>1, <1>2, <1>8 DEF SpawnPreviewEgo, Previews, SharedWorlds
<1>9. CASE SpawnPreviewTraffic
  <2>1. world' \in SharedWorlds
    BY <1>1, <1>9, <1>3 DEF SpawnPreviewTraffic
  <2>2. preview' \in Previews
    BY <1>1, <1>9 DEF SpawnPreviewTraffic, Previews
  <2>3. QED  BY <1>1, <1>9, <2>1, <2>2 DEF SpawnPreviewTraffic
<1>10. CASE SpawnPreviewSensors
  <2>1. world' \in SharedWorlds
    BY <1>1, <1>10, <1>3 DEF SpawnPreviewSensors
  <2>2. preview' \in Previews
    BY <1>1, <1>10 DEF SpawnPreviewSensors, Previews
  <2>3. QED  BY <1>1, <1>10, <2>1, <2>2 DEF SpawnPreviewSensors
<1>11. CASE PreviewEnds
  BY <1>1, <1>11, NoPreviewType DEF PreviewEnds, SharedWorlds
<1>12. QED
  BY <1>4, <1>5, <1>6, <1>7, <1>8, <1>9, <1>10, <1>11 DEF PreviewStep

(* A preview that no longer sets up only adds actors, or takes away those  *)
(* of its own.                                                             *)
LEMMA PreviewsStepAside ==
    ASSUME PreviewInv, PreviewStep, preview.pc \notin {"connect", "load", "settings"}
    PROVE  /\ world'.map = world.map /\ world'.sync = world.sync
           /\ ~poached => world.actors \ PreviewActors \subseteq world'.actors
<1> USE DEF PreviewAt, SpawnForPreview, DrivesOn
<1>1. world \in SharedWorlds
  BY DEF PreviewInv, UsersInv
<1>2. CASE PreviewEnds
  BY <1>1, <1>2, RemovedAreItsOwn DEF PreviewEnds, SharedWorlds
<1>3. CASE SpawnPreviewEgo \/ SpawnPreviewTraffic \/ SpawnPreviewSensors
  BY <1>1, <1>3 DEF SpawnPreviewEgo, SpawnPreviewTraffic, SpawnPreviewSensors, SharedWorlds
<1>4. CASE FindEgo \/ ReacquireEgo \/ PreviewAborts
  BY <1>4 DEF FindEgo, ReacquireEgo, PreviewAborts
<1>5. QED
  BY <1>2, <1>3, <1>4 DEF PreviewStep, CompareMap, LoadPreviewMap, ApplyPreviewSettings

LEMMA PreviewStepOwns == PreviewInv /\ PreviewStep => OwnEgoIsOwn'
<1> SUFFICES ASSUME PreviewInv, PreviewStep PROVE OwnEgoIsOwn'
  OBVIOUS
<1> USE DEF PreviewAt, PreviewGoto, previewHistory
<1>1. preview \in Previews /\ OwnEgoIsOwn
  BY DEF PreviewInv, PreviewShape
<1>2. CASE FindEgo
  BY <1>1, <1>2 DEF FindEgo, OwnEgoIsOwn, Previews
<1>3. CASE SpawnPreviewEgo
  BY <1>1, <1>3, ActorsOfPreviews DEF PreviewInv, SpawnPreviewEgo, OwnEgoIsOwn, Previews
<1>4. CASE ReacquireEgo
  BY <1>1, <1>4 DEF ReacquireEgo, OwnEgoIsOwn, Previews
<1>5. CASE PreviewEnds \/ PreviewAborts
  BY <1>5 DEF PreviewEnds, PreviewAborts, OwnEgoIsOwn, NoPreview
<1>6. CASE CompareMap \/ LoadPreviewMap \/ ApplyPreviewSettings
  BY <1>1, <1>6
  DEF CompareMap, LoadPreviewMap, ApplyPreviewSettings, OwnEgoIsOwn, Previews
<1>7. CASE SpawnPreviewTraffic \/ SpawnPreviewSensors
  BY <1>1, <1>7 DEF SpawnPreviewTraffic, SpawnPreviewSensors, OwnEgoIsOwn, Previews
<1>8. QED
  BY <1>2, <1>3, <1>4, <1>5, <1>6, <1>7 DEF PreviewStep

LEMMA PreviewStepKeeps == PreviewInv /\ PreviewStep => PreviewInv'
<1> SUFFICES ASSUME PreviewInv, PreviewStep PROVE PreviewInv'
  OBVIOUS
<1>1. /\ preview' \in Previews /\ world' \in SharedWorlds
      /\ UNCHANGED <<session, drives, previews, disturbed>>
      /\ poached' \in BOOLEAN /\ (poached => poached')
  BY PreviewStepTypes
<1>2. UsersInv'
  BY <1>1 DEF PreviewInv, UsersInv, DrivesCounted, InCarla
<1>3. preview.pc # "away"
  BY DEF PreviewStep, CompareMap, LoadPreviewMap, ApplyPreviewSettings, FindEgo,
     SpawnPreviewEgo, SpawnPreviewTraffic, SpawnPreviewSensors, ReacquireEgo, PreviewEnds,
     PreviewAborts, PreviewAt
<1>4. /\ preview'.pc \in {"connect", "load", "settings"}
            => preview.pc \in {"connect", "load", "settings"}
      /\ preview'.pc = "load" => preview'.map \in CarlaMaps
  <2> USE DEF PreviewAt, PreviewGoto
  <2>1. preview \in Previews /\ world \in SharedWorlds
    BY DEF PreviewInv, PreviewShape, UsersInv
  <2>2. CASE CompareMap
    BY <2>1, <2>2 DEF CompareMap, Previews
  <2>3. CASE LoadPreviewMap \/ ApplyPreviewSettings
    BY <2>1, <2>3 DEF LoadPreviewMap, ApplyPreviewSettings, Previews
  <2>4. CASE FindEgo \/ SpawnPreviewEgo \/ ReacquireEgo
    BY <2>1, <2>4 DEF FindEgo, SpawnPreviewEgo, ReacquireEgo, Previews
  <2>5. CASE SpawnPreviewTraffic \/ SpawnPreviewSensors
    BY <2>1, <2>5 DEF SpawnPreviewTraffic, SpawnPreviewSensors, Previews
  <2>6. CASE PreviewEnds \/ PreviewAborts
    BY <2>6 DEF PreviewEnds, PreviewAborts, NoPreview
  <2>7. QED  BY <2>2, <2>3, <2>4, <2>5, <2>6 DEF PreviewStep
<1>5. PreviewShape'
  BY <1>1, <1>3, <1>4 DEF PreviewInv, PreviewShape
<1>6. DriverIsApart'
  BY <1>1, <1>4 DEF PreviewInv, DriverIsApart, InCarla
<1>7. WorldObeysDriver'
  <2>1. SUFFICES ASSUME ~disturbed, ~poached, InCarla(Driver) PROVE WorldObeysDriver'
    BY <1>1 DEF WorldObeysDriver, InCarla, Driving
  <2>2. preview.pc \notin {"connect", "load", "settings"}
    BY <2>1 DEF PreviewInv, DriverIsApart
  <2>3. session[Driver].spawned \subseteq Actors
    BY DEF PreviewInv, UsersInv, CarlaUsers, Sessions
  <2>4. /\ world'.map = world.map /\ world'.sync = world.sync
        /\ world.actors \ PreviewActors \subseteq world'.actors
    BY <2>1, <2>2, PreviewsStepAside
  <2>5. QED
    BY <1>1, <2>1, <2>3, <2>4, ActorsOfPreviews DEF PreviewInv, WorldObeysDriver, On
<1>8. QED  BY <1>2, <1>5, <1>6, <1>7, PreviewStepOwns DEF PreviewInv

LEMMA StartPreviewKeeps ==
    ASSUME PreviewInv, NEW m \in CarlaMaps \union {NoMap}, NEW follow \in BOOLEAN,
           NEW spawns \in BOOLEAN, StartPreview(m, follow, spawns)
    PROVE  PreviewInv'
<1> USE DEF StartPreview
<1>1. UsersInv'
  BY DEF PreviewInv, UsersInv, DrivesCounted, InCarla
<1>2. preview' \in Previews /\ ~preview'.mine /\ preview'.pc = "connect"
  BY NoPreviewType DEF Previews, NoPreview
<1>3. PreviewShape'
  <2>1. previews' \in 0 .. MaxPreviews /\ previews' > 0
    BY PreviewConstants DEF PreviewInv, PreviewShape
  <2>2. disturbed' \in BOOLEAN /\ poached' \in BOOLEAN
    BY DEF PreviewInv, PreviewShape
  <2>3. QED  BY <1>2, <2>1, <2>2 DEF PreviewShape
<1>4. OwnEgoIsOwn'
  BY <1>2 DEF OwnEgoIsOwn
<1>5. InCarla(Driver)' => disturbed'
  BY DEF InCarla
<1>6. DriverIsApart'
  BY <1>5 DEF DriverIsApart
<1>7. WorldObeysDriver'
  BY <1>5 DEF WorldObeysDriver, InCarla, Driving
<1>8. QED  BY <1>1, <1>3, <1>4, <1>6, <1>7 DEF PreviewInv

(* Steps of the CarlaClients: what they leave of the world.                *)
LEMMA SharedStepTypes ==
    ASSUME PreviewInv, NEW p \in CarlaUsers, CarlaStep(p)
    PROVE  /\ world' \in SharedWorlds /\ session' \in [CarlaUsers -> Sessions]
           /\ drives' = drives
<1>1. world \in SharedWorlds /\ session[p] \in Sessions
  BY DEF PreviewInv, UsersInv
<1>2. world' \in SharedWorlds
  <2>1. CASE UNCHANGED world
    BY <1>1, <2>1
  <2>2. CASE LoadMap(p)
    BY <1>1, <2>2 DEF LoadMap, SharedWorlds, Sessions
  <2>3. CASE ConfigureWorldSync(p)
    BY <1>1, <2>3 DEF ConfigureWorldSync, SharedWorlds
  <2>4. CASE DestroySpawned(p)
    BY <1>1, <2>4 DEF DestroySpawned, SharedWorlds
  <2>5. CASE RestoreWorldSettings(p)
    BY <1>1, <2>5 DEF RestoreWorldSettings, Restored, SharedWorlds, Sessions
  <2>6. QED
    BY <2>1, <2>2, <2>3, <2>4, <2>5 DEF CarlaStep, ConnectCarla, CarlaRaises, LeavesCarla
<1>3. session' \in [CarlaUsers -> Sessions]
  <2>1. world.sync \in {"on", "off"} /\ world.step \in {VariableStep, FixedStep}
    BY <1>1 DEF SharedWorlds
  <2>2. QED  BY <2>1, SessionStepType DEF PreviewInv, UsersInv
<1>4. drives' = drives
  BY DEF CarlaStep, ConnectCarla, LoadMap, ConfigureWorldSync, DestroySpawned,
     RestoreWorldSettings, CarlaRaises, LeavesCarla
<1>5. QED  BY <1>2, <1>3, <1>4

DriverWorld ==
    /\ session[Driver].pc \in Entering => session[Driver].spawned = {}
    /\ session[Driver].pc \in {"sync"} \union Driving => world.map = session[Driver].map
    /\ session[Driver].pc \in Driving =>
            /\ world.sync = On(session[Driver])
            /\ session[Driver].spawned \subseteq world.actors

(* The steps of the driver keep its world as it wants it.                  *)
LEMMA DriverStepsKeepWorld ==
    ASSUME PreviewInv, DriverWorld,
           CarlaStep(Driver) \/ SpawnHero \/ SpawnTraffic \/ AutopilotRaises \/ DriveEnds
    PROVE  DriverWorld'
<1> USE DEF Entering, Driving
<1> DEFINE s == session[Driver]
<1>1. /\ world \in SharedWorlds /\ session \in [CarlaUsers -> Sessions]
      /\ s \in Sessions /\ Driver \in CarlaUsers
  BY DEF PreviewInv, UsersInv, CarlaUsers
<1>2. CASE ConnectCarla(Driver) \/ CarlaRaises(Driver) \/ DriveEnds
  BY <1>1, <1>2
  DEF ConnectCarla, CarlaRaises, DriveEnds, CarlaGoto, DriverWorld, Sessions, On
<1>3. CASE LoadMap(Driver)
  BY <1>1, <1>3 DEF LoadMap, CarlaGoto, DriverWorld, Sessions, SharedWorlds
<1>4. CASE ConfigureWorldSync(Driver)
  <2>1. /\ session'[Driver].pc \in {"destroy", "loop", "hero"}
        /\ session'[Driver].map = s.map /\ session'[Driver].sync = s.sync
        /\ session'[Driver].spawned = s.spawned /\ s.pc = "sync"
        /\ world'.map = world.map /\ world'.sync = On(s) /\ world'.actors = world.actors
    BY <1>1, <1>4 DEF ConfigureWorldSync, Remember, AfterSync, On, SharedWorlds, Sessions
  <2>2. QED  BY <2>1 DEF DriverWorld, On
<1>5. CASE DestroySpawned(Driver)
  BY <1>1, <1>5 DEF DestroySpawned, DriverWorld, Sessions
<1>6. CASE RestoreWorldSettings(Driver) \/ LeavesCarla(Driver)
  BY <1>1, <1>6 DEF RestoreWorldSettings, LeavesCarla, DriverWorld, NoSession
<1>7. ASSUME NEW a, NEW pc \in {"traffic", "loop"}, s.pc \in {"hero", "traffic"},
             session'[Driver] = [Remembered(s, a) EXCEPT !.pc = pc],
             world' = [world EXCEPT !.actors = @ \union {a}]
      PROVE  DriverWorld'
  BY <1>1, <1>7 DEF DriverWorld, Remembered, Sessions, SharedWorlds, On
<1>8. CASE SpawnHero
  BY <1>1, <1>7, <1>8 DEF SpawnHero
<1>9. CASE SpawnTraffic
  <2>1. CASE CarlaGoto(Driver, "loop") /\ UNCHANGED world
    BY <1>1, <1>9, <2>1 DEF SpawnTraffic, CarlaGoto, DriverWorld, Sessions, On
  <2>2. CASE world' # world \/ ~CarlaGoto(Driver, "loop")
    BY <1>1, <1>7, <1>9, <2>2 DEF SpawnTraffic
  <2>3. QED  BY <2>1, <2>2
<1>10. CASE AutopilotRaises
  BY <1>1, <1>10 DEF AutopilotRaises, CarlaGoto, DriverWorld, Sessions
<1>11. QED
  BY <1>2, <1>3, <1>4, <1>5, <1>6, <1>8, <1>9, <1>10 DEF CarlaStep

LEMMA SharedUsersKeep == PreviewInv /\ CarlaNext => UsersInv'
<1> SUFFICES ASSUME PreviewInv, CarlaNext PROVE UsersInv'
  OBVIOUS
<1> USE CarlaConstants DEF PreviewInv, UsersInv
<1>1. Driver \in CarlaUsers /\ session[Driver] \in Sessions
  BY DEF CarlaUsers
<1>2. ASSUME NEW p \in CarlaUsers, NEW m \in CarlaMaps, NEW sync \in BOOLEAN,
             NEW replay \in BOOLEAN, EnterCarla(p, m, sync, replay),
             drives' \in 0 .. MaxDrives, p = Driver => drives' > 0,
             p # Driver => drives' = drives
      PROVE  UsersInv'
  <2>1. session' \in [CarlaUsers -> Sessions] /\ world' = world
    BY <1>2, EnterSessionType DEF EnterCarla
  <2>2. /\ session'[p].spawned = {}
        /\ p # Driver => session'[Driver] = session[Driver]
    BY <1>1, <1>2 DEF EnterCarla, NoSession
  <2>3. DrivesCounted'
    BY <1>2, <2>2 DEF DrivesCounted, InCarla
  <2>4. session'[Driver].pc \in Entering => session'[Driver].spawned = {}
    BY <2>2
  <2>5. QED  BY <1>2, <2>1, <2>3, <2>4
<1>3. ASSUME NEW m \in CarlaMaps, NEW sync \in BOOLEAN, NEW replay \in BOOLEAN,
             DriveRun(m, sync, replay)
      PROVE  UsersInv'
  BY <1>1, <1>2, <1>3 DEF DriveRun
<1>4. ASSUME NEW p \in Checks, NEW m \in CarlaMaps, RunPreflight(p, m) PROVE UsersInv'
  BY <1>2, <1>4 DEF RunPreflight, CarlaUsers
<1>5. ASSUME NEW p \in CarlaUsers, CarlaStep(p) PROVE UsersInv'
  <2>1. /\ world' \in SharedWorlds /\ session' \in [CarlaUsers -> Sessions]
        /\ drives' = drives
    BY <1>5, SharedStepTypes
  <2>2. InCarla(p)
    BY <1>5 DEF CarlaStep, ConnectCarla, LoadMap, ConfigureWorldSync, DestroySpawned,
       RestoreWorldSettings, CarlaRaises, LeavesCarla, InCarla
  <2>3. p # Driver => session'[Driver] = session[Driver]
    BY <1>1, <1>5 DEF CarlaStep, ConnectCarla, LoadMap, ConfigureWorldSync, DestroySpawned,
       RestoreWorldSettings, CarlaRaises, LeavesCarla, CarlaGoto
  <2>4. session'[Driver].pc \in Entering => session'[Driver].spawned = {}
    <3>1. CASE p # Driver
      BY <2>3, <3>1
    <3>2. CASE ConnectCarla(Driver) \/ LoadMap(Driver) \/ CarlaRaises(Driver)
      BY <1>1, <3>2 DEF ConnectCarla, LoadMap, CarlaRaises, CarlaGoto, Entering, Sessions
    <3>3. CASE ConfigureWorldSync(Driver)
      <4>1. session'[Driver].pc \in {"loop", "hero"}
        BY <1>1, <3>3 DEF ConfigureWorldSync, Remember, AfterSync, Sessions
      <4>2. QED  BY <4>1 DEF Entering
    <3>4. CASE DestroySpawned(Driver)
      BY <1>1, <3>4 DEF DestroySpawned, Entering, Sessions
    <3>5. CASE RestoreWorldSettings(Driver) \/ LeavesCarla(Driver)
      BY <1>1, <3>5 DEF RestoreWorldSettings, LeavesCarla, NoSession
    <3>6. QED  BY <1>5, <3>1, <3>2, <3>3, <3>4, <3>5 DEF CarlaStep
  <2>5. DrivesCounted'
    BY <2>1, <2>2, <2>3 DEF DrivesCounted, InCarla
  <2>6. QED  BY <2>1, <2>4, <2>5
<1>6. CASE SpawnHero \/ SpawnTraffic \/ AutopilotRaises \/ DriveEnds
  <2>1. drives' = drives /\ drives \in 1 .. MaxDrives
    BY <1>6 DEF SpawnHero, SpawnTraffic, AutopilotRaises, DriveEnds, DrivesCounted, InCarla
  <2>2. <<drives, "hero">> \in Actors /\ <<drives, "traffic">> \in Actors
    BY <2>1 DEF Actors
  <2>3. session' \in [CarlaUsers -> Sessions]
    BY <1>6, <2>2, DriverStepType
  <2>4. world' \in SharedWorlds
    BY <1>6, <2>2
    DEF SpawnHero, SpawnTraffic, AutopilotRaises, DriveEnds, SharedWorlds, AllActors
  <2>5. session'[Driver].pc \notin Entering
    <3>1. CASE SpawnHero
      BY <1>1, <3>1 DEF SpawnHero, Remembered, Entering, Sessions
    <3>2. CASE SpawnTraffic
      <4>1. session'[Driver].pc = "loop"
        BY <1>1, <3>2 DEF SpawnTraffic, CarlaGoto, Remembered, Sessions
      <4>2. QED  BY <4>1 DEF Entering
    <3>3. CASE AutopilotRaises \/ DriveEnds
      BY <1>1, <3>3 DEF AutopilotRaises, DriveEnds, CarlaGoto, Entering, Sessions
    <3>4. QED  BY <1>6, <3>1, <3>2, <3>3
  <2>6. QED  BY <2>1, <2>3, <2>4, <2>5 DEF DrivesCounted
<1>7. QED  BY <1>3, <1>4, <1>5, <1>6 DEF CarlaNext

LEMMA DrivePreviewedKeeps == PreviewInv /\ DrivePreviewed => PreviewInv'
<1> SUFFICES ASSUME PreviewInv, DrivePreviewed PROVE PreviewInv'
  OBVIOUS
<1>1. CarlaNext /\ UNCHANGED <<preview, previews, poached>>
  BY DEF DrivePreviewed
<1>2. UsersInv'
  BY <1>1, SharedUsersKeep
<1>3. disturbed' \in BOOLEAN /\ (disturbed => disturbed')
  BY DEF DrivePreviewed, PreviewInv, PreviewShape
<1>4. PreviewShape' /\ OwnEgoIsOwn'
  BY <1>1, <1>3 DEF PreviewInv, PreviewShape, OwnEgoIsOwn
<1>5. DriverIsApart'
  BY <1>1, <1>3 DEF DrivePreviewed, SettingUp, DriverIsApart, InCarla
<1>6. WorldObeysDriver'
  <2>1. SUFFICES ASSUME ~disturbed', ~poached, InCarla(Driver)' PROVE DriverWorld'
    BY <1>1 DEF WorldObeysDriver, DriverWorld, InCarla, Driving
  <2>2. ~disturbed /\ \A p \in Checks : session'[p].pc = "away"
    BY <1>3, <2>1 DEF DrivePreviewed, SettingUp, InCarla
  <2>3. Driver \in CarlaUsers /\ session \in [CarlaUsers -> Sessions]
    BY DEF PreviewInv, UsersInv, CarlaUsers
  <2>4. DriverWorld
    BY <2>1, <2>2 DEF PreviewInv, UsersInv, WorldObeysDriver, DriverWorld
  <2>5. ASSUME NEW m \in CarlaMaps, NEW sync \in BOOLEAN, NEW replay \in BOOLEAN,
               DriveRun(m, sync, replay)
        PROVE  DriverWorld'
    <3>1. session'[Driver].pc = "connect" /\ session'[Driver].spawned = {}
      BY <2>3, <2>5 DEF DriveRun, EnterCarla, NoSession
    <3>2. QED  BY <3>1 DEF DriverWorld, Driving
  <2>6. ASSUME NEW p \in Checks, NEW m \in CarlaMaps, RunPreflight(p, m) PROVE FALSE
    BY <2>2, <2>3, <2>6 DEF RunPreflight, EnterCarla, NoSession, CarlaUsers
  <2>7. ASSUME NEW p \in Checks, CarlaStep(p) PROVE FALSE
    <3>1. session[p].pc # "away"
      BY <2>7 DEF CarlaStep, ConnectCarla, LoadMap, ConfigureWorldSync, DestroySpawned,
         RestoreWorldSettings, CarlaRaises, LeavesCarla, InCarla
    <3>2. p # Driver /\ p \in CarlaUsers
      BY CarlaConstants DEF CarlaUsers
    <3>3. session'[Driver] = session[Driver]
      BY <2>3, <2>7, <3>2 DEF CarlaStep, ConnectCarla, LoadMap, ConfigureWorldSync,
         DestroySpawned, RestoreWorldSettings, CarlaRaises, LeavesCarla, CarlaGoto
    <3>4. QED
      BY <2>1, <2>2, <3>1, <3>3 DEF PreviewInv, DriverIsApart, InCarla
  <2>8. QED
    BY <1>1, <2>4, <2>5, <2>6, <2>7, DriverStepsKeepWorld DEF CarlaNext, CarlaUsers
<1>7. QED  BY <1>2, <1>4, <1>5, <1>6 DEF PreviewInv

LEMMA PreviewNextKeeps == PreviewInv /\ [PreviewNext]_<<carlaVars, previewVars>> => PreviewInv'
<1> SUFFICES ASSUME PreviewInv, [PreviewNext]_<<carlaVars, previewVars>> PROVE PreviewInv'
  OBVIOUS
<1>1. CASE UNCHANGED <<carlaVars, previewVars>>
  BY <1>1 DEF carlaVars, carlaHistory, previewVars, previewHistory, PreviewInv, UsersInv,
     PreviewShape, OwnEgoIsOwn, DriverIsApart, WorldObeysDriver, DrivesCounted, InCarla
<1>2. QED
  BY <1>1, StartPreviewKeeps, PreviewStepKeeps, DrivePreviewedKeeps DEF PreviewNext

LEMMA PreviewInvariant == PreviewSpec => []PreviewInv
<1>1. CarlaInit /\ PreviewInit => PreviewInv
  BY PreviewsStart
<1>2. QED  BY <1>1, PreviewNextKeeps, PTL DEF PreviewSpec

(* With previews in the world, it is still well typed.                     *)
THEOREM PreviewTypeCorrect == PreviewSpec => []PreviewTypeOK
<1>1. QED  BY PreviewTypes, PreviewInvariant, PTL

(* A run keeps its map, its mode and its actors beside any number of       *)
(* previews, one after the other, if none of them (and no preflight) sets  *)
(* the world up while the run is in it, and none has taken a hero for the  *)
(* one that it had spawned.                                                *)
THEOREM PreviewedRunsKeepTheirWorld == PreviewSpec => []PreviewedRunKeepsItsWorld
<1>1. PreviewInv => PreviewedRunKeepsItsWorld
  BY DEF PreviewInv, WorldObeysDriver, PreviewedRunKeepsItsWorld, DriverKeepsItsWorld,
     Driving, On
<1>2. QED  BY <1>1, PreviewInvariant, PTL
===============================================================================
