--------------------------- MODULE CaptureSyncProofs ---------------------------
(***************************************************************************)
(* What CaptureSync guarantees for any number of captures, API threads and *)
(* processes, and however many calls are given up and agents killed.       *)
(***************************************************************************)
EXTENDS CaptureSync, FiniteSetTheorems, WellFoundedInduction, TLAPS

Records == [status: Status \union {None}, saved: 0 .. MaxFrames]
Locals == [pc: {"idle", "read", "update", "list", "manifest"},
           op: {"none", "start", "stop", "sync"}, cap: Captures \union {None},
           status: Status \union {None}, count: 0 .. MaxFrames]
RuntimeFiles == [cap: Captures \union {None}, pid: Pids \union {None}]
Agents ==
    [pc: {"fetch", "compare", "clear", "clearDone", "note", "report", "wait"},
     rt: RuntimeFiles, want: Captures \union {None}, via: Threads \union {None},
     then: {"fetch", "clear", "clearDone"}]
Processes ==
    [state: {"none", "run", "told"}, cap: Captures \union {None}, written: 0 .. MaxFrames]

Busy(t) == th[t].pc # "idle"

(* Whatever names a capture names one that exists; and what says that it   *)
(* runs, or lets the agent believe so, names one that was started.         *)
NamesAreKnown ==
    /\ \A c \in started : rec[c].status # None
    /\ \A c \in Captures : rec[c].status = "RUNNING" => c \in started
    /\ \A t \in Threads : Busy(t) =>
            /\ rec[th[t].cap].status # None
            /\ th[t].pc \in {"update", "list", "manifest"} => th[t].status # None
            /\ th[t].status = "RUNNING" => th[t].cap \in started
            /\ th[t].pc = "list" => th[t].op # "sync"
    /\ runtime.cap # None => runtime.cap \in started
    /\ agent.rt.cap # None => agent.rt.cap \in started
    /\ agent.want # None => agent.want \in started

(* The agent is about to give up its runtime.                              *)
LettingGo ==
    agent.pc \in {"clear", "clearDone"} \/ (agent.pc = "wait" /\ agent.then # "fetch")

(* What the agent has in hand is what its runtime file says, and it lets   *)
(* go only of a process that has ended or was told to.                     *)
AgentKnowsRuntime ==
    /\ agent.pc \in {"compare", "report"} \/ LettingGo => agent.rt = runtime
    /\ agent.pc = "note" =>
            runtime = NoRuntime /\ agent.rt.pid \in Pids /\ agent.rt.cap \in Captures
    /\ agent.pc \in {"report", "clearDone"} \/ agent.then = "clearDone" => agent.rt # NoRuntime
    /\ agent.via # None \/ agent.then # "fetch" => agent.pc = "wait"
    /\ agent.rt # NoRuntime => agent.rt.pid # None /\ agent.rt.cap # None
    /\ runtime # NoRuntime => runtime.pid # None /\ runtime.cap # None
    /\ LettingGo /\ runtime.pid # None => proc[runtime.pid].state # "run"

FramesAreThere ==
    /\ \A c \in Captures : rec[c].status = "COMPLETED" => frames[c] = MaxFrames
    /\ \A t \in Threads : Busy(t) /\ th[t].status = "COMPLETED" =>
            frames[th[t].cap] = MaxFrames

AboutToList(t) == th[t].pc = "manifest" /\ th[t].op = "sync"

(* Without faults one report is on its way at most, and a manifest that    *)
(* differs from its record is about to be written, or was overtaken.       *)
OneReport ==
    lost = 0 /\ crashes = 0 =>
        /\ \A t \in Threads : Busy(t) /\ th[t].op = "sync" =>
                agent.pc = "wait" /\ agent.via = t
        /\ \A t \in Threads : AboutToList(t) => rec[th[t].cap].saved = th[t].count
        /\ \A c \in Captures \ overtaken :
                man[c] = rec[c].saved \/ \E t \in Threads : AboutToList(t) /\ th[t].cap = c

(* What a start or stop has read of a manifest is still there, unless a    *)
(* report has overtaken it.                                                *)
CopiesCurrent ==
    \A t \in Threads :
        HasRead(t) => th[t].cap \in overtaken \/ th[t].count = man[th[t].cap]

FewOrphans == IsFiniteSet(Unnoted) /\ Cardinality(Unnoted) <= crashes

CaptureInv ==
    /\ TypeOK /\ NamesAreKnown /\ AgentKnowsRuntime /\ OnlyStartedIsCaptured
    /\ FramesAreThere /\ OneReport /\ CopiesCurrent /\ FewOrphans

-------------------------------------------------------------------------------
(* Typing.                                                                 *)

LEMMA TypeParts ==
    TypeOK <=> /\ rec \in [Captures -> Records] /\ man \in [Captures -> 0 .. MaxFrames]
               /\ th \in [Threads -> Locals]
               /\ \A t \in Threads : Busy(t) => th[t].cap \in Captures
               /\ agent \in Agents /\ (agent.pc = "wait" => agent.via \in Threads)
               /\ runtime \in RuntimeFiles /\ proc \in [Pids -> Processes]
               /\ frames \in [Captures -> 0 .. MaxFrames]
               /\ lost \in Nat /\ crashes \in Nat /\ started \subseteq Captures
               /\ overtaken \subseteq Captures
  BY DEF TypeOK, Records, Locals, Agents, RuntimeFiles, Processes, Busy

LEMMA TypePartsNext ==
    ASSUME rec' \in [Captures -> Records], man' \in [Captures -> 0 .. MaxFrames],
           th' \in [Threads -> Locals],
           \A t \in Threads : th'[t].pc # "idle" => th'[t].cap \in Captures,
           agent' \in Agents, agent'.pc = "wait" => agent'.via \in Threads,
           runtime' \in RuntimeFiles, proc' \in [Pids -> Processes],
           frames' \in [Captures -> 0 .. MaxFrames],
           lost' \in Nat, crashes' \in Nat, started' \subseteq Captures,
           overtaken' \subseteq Captures
    PROVE  TypeOK'
  BY DEF TypeOK, Records, Locals, Agents, RuntimeFiles, Processes

LEMMA Starts ==
    /\ NoRuntime \in RuntimeFiles /\ IdleThread \in Locals /\ FreshAgent \in Agents
    /\ NoProcess \in Processes
<1>1. NoRuntime \in RuntimeFiles
  BY DEF NoRuntime, RuntimeFiles
<1>2. IdleThread \in Locals
  BY ConstantsAssumption DEF IdleThread, Locals
<1>3. FreshAgent \in Agents
  BY <1>1 DEF FreshAgent, Agents
<1>4. NoProcess \in Processes
  BY ConstantsAssumption DEF NoProcess, Processes
<1>5. QED  BY <1>1, <1>2, <1>3, <1>4

(* The oldest of some captures is one of them.                             *)
LEMMA OldestIsOne ==
    ASSUME NEW S \in SUBSET Captures, S # {}
    PROVE  Oldest(S) \in S
<1>1. S \subseteq Nat
  BY DEF Captures
<1>2. PICK c \in S : \A d \in S : <<d, c>> \notin OpToRel(<, Nat)
  BY <1>1, WFMin, NatLessThanWellFounded, Zenon
<1>3. \A d \in S : ~(d < c)
  BY <1>1, <1>2, Zenon DEF OpToRel
<1>4. \A d \in S : c <= d
  BY <1>1, <1>3
<1>5. QED  BY <1>4 DEF Oldest

LEMMA OldestFetched ==
    ASSUME CaptureInv
    PROVE  Oldest(Fetched) = None \/ Oldest(Fetched) \in started \intersect Captures
<1>1. Fetched \in SUBSET Captures /\ Fetched \subseteq started
  BY DEF CaptureInv, NamesAreKnown, Fetched, Running
<1>2. CASE Fetched = {}
  BY <1>2 DEF Oldest
<1>3. CASE Fetched # {}
  BY <1>1, <1>3, OldestIsOne
<1>4. QED  BY <1>2, <1>3

Called(t, c, status, then) ==
    /\ th' \in [Threads -> Locals]
    /\ \A u \in Threads : th'[u].pc # "idle" => th'[u].cap \in Captures
    /\ agent' \in Agents /\ agent'.pc = "wait" /\ agent'.via = t /\ agent'.then = then
    /\ agent'.rt = agent.rt /\ agent'.want = agent.want
    /\ \A u \in Threads \ {t} : th'[u] = th[u]
    /\ th'[t] = [pc |-> "read", op |-> "sync", cap |-> c, status |-> status,
                 count |-> frames[c]]
    /\ ~Busy(t)

LEMMA CallType ==
    ASSUME CaptureInv, NEW t \in Threads, NEW c \in Captures,
           NEW status \in Status \union {None}, NEW then \in {"fetch", "clear", "clearDone"},
           Call(t, c, status, then)
    PROVE  Called(t, c, status, then)
<1> DEFINE new == [pc |-> "read", op |-> "sync", cap |-> c, status |-> status,
                   count |-> frames[c]]
<1>1. /\ th \in [Threads -> Locals] /\ agent \in Agents /\ frames[c] \in 0 .. MaxFrames
      /\ \A u \in Threads : Busy(u) => th[u].cap \in Captures
  BY TypeParts DEF CaptureInv
<1>2. new \in Locals
  BY <1>1 DEF Locals
<1>3. th' = [th EXCEPT ![t] = new] /\ th[t].pc = "idle"
  BY DEF Call
<1>4. agent' \in Agents /\ agent'.pc = "wait" /\ agent'.via = t /\ agent'.then = then
      /\ agent'.rt = agent.rt /\ agent'.want = agent.want
  BY <1>1 DEF Call, Agents
<1>5. new.pc = "read" /\ new.cap = c
  OBVIOUS
<1> HIDE DEF new
<1>6. QED  BY <1>1, <1>2, <1>3, <1>4, <1>5 DEF Called, Busy, new

(* The four calls of the agent.                                            *)
LEMMA CallsOfAgent ==
    ASSUME CaptureInv, NEW t \in Threads,
           Evict(t) \/ Refuse(t) \/ ReportRunning(t) \/ ReportEnd(t)
    PROVE  \E c \in Captures, status \in Status \union {None},
              then \in {"fetch", "clear", "clearDone"} :
                /\ Call(t, c, status, then) /\ c \in started
                /\ agent.pc \in {"compare", "report"}
                /\ status = "COMPLETED" => frames[c] = MaxFrames
                /\ then = "clear" => agent.pc = "compare" /\ agent.rt # NoRuntime
                /\ then = "clearDone" =>
                        agent.pc = "report" /\ agent.rt # NoRuntime /\ ~Alive(agent.rt)
                /\ then # "fetch" => c = agent.rt.cap
                /\ UNCHANGED <<rec, man, runtime, frames, lost, crashes, started, overtaken>>
                /\ then = "clear" /\ Alive(agent.rt) =>
                        proc' = [proc EXCEPT ![agent.rt.pid].state = "told"]
                /\ ~(then = "clear" /\ Alive(agent.rt)) => proc' = proc
<1> USE DEF gateway
<1>1. /\ agent.rt # NoRuntime => agent.rt.cap \in Captures /\ agent.rt.cap \in started
      /\ agent.want # None => agent.want \in Captures /\ agent.want \in started
      /\ agent.rt.pid # None => agent.rt # NoRuntime
      /\ \A c \in Captures : frames[c] \in 0 .. MaxFrames
  BY TypeParts
  DEF CaptureInv, NamesAreKnown, AgentKnowsRuntime, Agents, RuntimeFiles, NoRuntime
<1>2. CASE Evict(t)
  <2>1. /\ Call(t, agent.rt.cap, None, "clear") /\ agent.pc = "compare"
        /\ agent.rt # NoRuntime
        /\ UNCHANGED <<rec, man, runtime, frames, lost, crashes, started, overtaken>>
        /\ proc' = IF Alive(agent.rt) THEN [proc EXCEPT ![agent.rt.pid].state = "told"]
                   ELSE proc
    BY <1>2 DEF Evict
  <2>2. None # "COMPLETED" /\ None \in Status \union {None}
    BY ConstantsAssumption DEF Status, Final
  <2>3. QED  BY <1>1, <1>2, <2>1, <2>2
<1>3. CASE Refuse(t)
  BY <1>1, <1>3, ConstantsAssumption DEF Refuse, Evict, Status, Final
<1>4. CASE ReportRunning(t)
  BY <1>1, <1>4 DEF ReportRunning, Evict, Alive, Status
<1>5. CASE ReportEnd(t)
  BY <1>1, <1>5, ConstantsAssumption
  DEF ReportEnd, Evict, ReportedEnd, Enough, AgentKnowsRuntime, CaptureInv, Status, Final
<1>6. QED  BY <1>2, <1>3, <1>4, <1>5

LEMMA CallerType ==
    ASSUME CaptureInv, NEW t \in Threads,
           Evict(t) \/ Refuse(t) \/ ReportRunning(t) \/ ReportEnd(t)
    PROVE  TypeOK'
<1>1. PICK c \in Captures, status \in Status \union {None},
           then \in {"fetch", "clear", "clearDone"} :
        /\ Call(t, c, status, then)
        /\ UNCHANGED <<rec, man, runtime, frames, lost, crashes, started, overtaken>>
        /\ \/ proc' = proc
           \/ Alive(agent.rt) /\ proc' = [proc EXCEPT ![agent.rt.pid].state = "told"]
  BY CallsOfAgent
<1>2. /\ th' \in [Threads -> Locals] /\ agent' \in Agents /\ agent'.via = t
      /\ \A u \in Threads : th'[u].pc # "idle" => th'[u].cap \in Captures
  <2>1. Called(t, c, status, then)
    BY <1>1, CallType
  <2>2. QED  BY <2>1 DEF Called
<1>3. proc' \in [Pids -> Processes]
  BY <1>1, TypeParts DEF CaptureInv, Processes
<1>4. QED  BY <1>1, <1>2, <1>3, TypeParts, TypePartsNext DEF CaptureInv, Busy

LEMMA RequestType ==
    ASSUME CaptureInv, NEW c \in Captures,
           CreateCapture(c) \/ \E t \in Threads : StartCapture(t, c) \/ StopCapture(t, c)
    PROVE  TypeOK'
<1> USE TypeParts DEF CaptureInv, gateway, api
<1>1. CASE CreateCapture(c)
  <2>1. [status |-> "CREATED", saved |-> 0] \in Records
    BY ConstantsAssumption DEF Records, Status
  <2>2. QED  BY <1>1, <2>1, ConstantsAssumption, TypePartsNext DEF CreateCapture, Busy
<1>2. ASSUME NEW t \in Threads, NEW op \in {"start", "stop"}, NEW status \in Status,
             Decided(t, op, c, status),
             UNCHANGED <<rec, man, agent, gateway, lost, crashes, overtaken>>,
             started' \subseteq Captures
      PROVE  TypeOK'
  <2> DEFINE new == [IdleThread EXCEPT !.pc = "update", !.op = op, !.cap = c,
                                       !.status = status]
  <2>1. new \in Locals /\ new.cap = c
    BY Starts DEF Locals
  <2>2. th' = [th EXCEPT ![t] = new]
    BY <1>2 DEF Decided
  <2> HIDE DEF new
  <2>3. QED  BY <1>2, <2>1, <2>2, TypePartsNext DEF Busy
<1>3. ASSUME NEW t \in Threads, StartCapture(t, c) PROVE TypeOK'
  <2>1. "RUNNING" \in Status
    BY DEF Status
  <2>2. QED  BY <1>2, <1>3, <2>1 DEF StartCapture
<1>4. ASSUME NEW t \in Threads, StopCapture(t, c) PROVE TypeOK'
  <2>1. StopTarget(c) \in Status
    BY DEF StopTarget, Status, Final
  <2>2. QED  BY <1>2, <1>4, <2>1 DEF StopCapture
<1>5. QED  BY <1>1, <1>3, <1>4

LEMMA ThreadType == ASSUME CaptureInv, NEW t \in Threads, ThreadStep(t) PROVE TypeOK'
<1> USE TypeParts DEF CaptureInv, gateway
<1>1. /\ th[t] \in Locals /\ th[t].pc # "idle" /\ th[t].cap \in Captures
      /\ rec[th[t].cap] \in Records /\ man[th[t].cap] \in 0 .. MaxFrames
  BY DEF ThreadStep, SyncRead, Update, ReadManifest, Manifest, Busy
<1>2. CASE SyncRead(t)
  <2> DEFINE new == [th[t] EXCEPT !.pc = "update",
                                  !.status = IF @ = None THEN rec[th[t].cap].status ELSE @]
  <2>1. new \in Locals /\ new.cap = th[t].cap
    BY <1>1 DEF Locals, Records
  <2>2. th' = [th EXCEPT ![t] = new]
    BY <1>1, <1>2 DEF SyncRead
  <2> HIDE DEF new
  <2>3. QED  BY <1>1, <1>2, <2>1, <2>2, TypePartsNext DEF SyncRead, Busy
<1>3. CASE Update(t)
  <2> DEFINE new == [status |-> th[t].status,
                     saved |-> IF th[t].op = "sync" THEN th[t].count
                               ELSE rec[th[t].cap].saved]
             local == [th[t] EXCEPT !.pc = IF th[t].op = "sync" THEN "manifest" ELSE "list"]
  <2>1. new \in Records
    BY <1>1 DEF Locals, Records
  <2>2. local \in Locals /\ local.cap = th[t].cap
    BY <1>1 DEF Locals
  <2>3. rec' = [rec EXCEPT ![th[t].cap] = new] /\ th' = [th EXCEPT ![t] = local]
    BY <1>1, <1>3 DEF Update
  <2> HIDE DEF new, local
  <2>4. QED  BY <1>1, <1>3, <2>1, <2>2, <2>3, TypePartsNext DEF Update, Busy
<1>4. CASE Manifest(t)
  <2>1. th[t].count \in 0 .. MaxFrames /\ overtaken' \subseteq Captures
    BY <1>1, <1>4 DEF Manifest, Overtaken, Locals, Busy
  <2>2. man' \in [Captures -> 0 .. MaxFrames]
    BY <1>1, <1>4, <2>1 DEF Manifest
  <2>3. /\ th' \in [Threads -> Locals]
        /\ \A u \in Threads : th'[u].pc # "idle" => th'[u].cap \in Captures
    BY <1>4, Starts DEF Manifest, IdleThread, Busy
  <2>4. Answered \in Agents /\ Answered.pc # "wait"
    BY Starts DEF Answered, Agents, FreshAgent
  <2>5. agent' \in Agents /\ (agent'.pc = "wait" => agent'.via \in Threads)
    BY <1>4, <2>4 DEF Manifest
  <2>6. QED  BY <1>4, <2>1, <2>2, <2>3, <2>5, TypePartsNext DEF Manifest
<1>5. CASE ReadManifest(t)
  <2> DEFINE new == [th[t] EXCEPT !.pc = "manifest", !.count = man[th[t].cap]]
  <2>1. new \in Locals /\ new.cap = th[t].cap
    BY <1>1 DEF Locals
  <2>2. th' = [th EXCEPT ![t] = new]
    BY <1>1, <1>5 DEF ReadManifest, ListedFrames
  <2> HIDE DEF new
  <2>3. QED  BY <1>1, <1>5, <2>1, <2>2, TypePartsNext DEF ReadManifest, Busy
<1>6. QED  BY <1>2, <1>3, <1>4, <1>5 DEF ThreadStep

LEMMA AgentType ==
    ASSUME CaptureInv,
           \/ Fetch \/ Clear \/ NothingToDo \/ Note \/ KeepRuntime
           \/ GiveUp \/ AgentKilled \/ \E p \in Pids : Launch(p)
    PROVE  TypeOK'
<1> USE TypeParts DEF CaptureInv, api, gateway
<1>1. agent \in Agents /\ runtime \in RuntimeFiles /\ agent.rt \in RuntimeFiles
  BY DEF Agents
<1>2. CASE Fetch
  <2>1. Oldest(Fetched) \in Captures \union {None}
    BY OldestFetched
  <2>2. agent' \in Agents /\ agent'.pc = "compare"
    BY <1>1, <1>2, <2>1 DEF Fetch, Agents
  <2>3. QED  BY <1>2, <2>2, TypePartsNext DEF Fetch, Busy
<1>3. CASE Clear
  <2>1. agent' \in Agents /\ agent'.pc # "wait"
    BY <1>1, <1>3, Starts DEF Clear, Agents, FreshAgent
  <2>2. QED  BY <1>3, <2>1, Starts, TypePartsNext DEF Clear, Busy
<1>4. CASE NothingToDo \/ AgentKilled
  <2>1. agent' \in Agents /\ agent'.pc # "wait"
    BY <1>4, Starts DEF NothingToDo, AgentKilled, FreshAgent
  <2>2. QED  BY <1>4, <2>1, TypePartsNext DEF NothingToDo, AgentKilled, Busy
<1>5. CASE Note \/ KeepRuntime
  <2>1. agent' \in Agents /\ agent'.pc # "wait" /\ runtime' \in RuntimeFiles
    BY <1>1, <1>5 DEF Note, KeepRuntime, Agents
  <2>2. QED  BY <1>5, <2>1, TypePartsNext DEF Note, KeepRuntime, Busy
<1>6. CASE GiveUp
  <2>1. agent' \in Agents /\ agent'.pc # "wait" /\ lost' \in Nat
    BY <1>6, Starts DEF GiveUp, FreshAgent
  <2>2. th' = th \/ th' = [th EXCEPT ![agent.via] = IdleThread]
    BY <1>6 DEF GiveUp
  <2>3. /\ th' \in [Threads -> Locals]
        /\ \A u \in Threads : th'[u].pc # "idle" => th'[u].cap \in Captures
    BY <2>2, Starts DEF IdleThread, Busy
  <2>4. QED  BY <1>6, <2>1, <2>3, TypePartsNext DEF GiveUp
<1>7. ASSUME NEW p \in Pids, Launch(p) PROVE TypeOK'
  <2>1. agent.want \in Captures
    BY <1>1, <1>7 DEF Launch, Launchable, Agents
  <2>2. [state |-> "run", cap |-> agent.want, written |-> 0] \in Processes
    BY <2>1, ConstantsAssumption DEF Processes
  <2> DEFINE new == [state |-> "run", cap |-> agent.want, written |-> 0]
  <2> HIDE DEF new
  <2>5. proc' \in [Pids -> Processes]
    <3>1. proc' = [proc EXCEPT ![p] = new] /\ proc \in [Pids -> Processes]
      BY <1>7 DEF Launch, new
    <3>2. QED  BY <2>2, <3>1 DEF new
  <2>3. agent' \in Agents /\ agent'.pc # "wait"
    BY <1>1, <1>7, <2>1 DEF Launch, Agents, RuntimeFiles
  <2>4. QED  BY <1>7, <2>3, <2>5, TypePartsNext DEF Launch, Busy
<1>8. QED  BY <1>2, <1>3, <1>4, <1>5, <1>6, <1>7

LEMMA ProcessType ==
    ASSUME CaptureInv, NEW p \in Pids, ProcessStep(p) \/ ProcessFails(p)
    PROVE  TypeOK'
<1> USE TypeParts DEF CaptureInv, api
<1>1. proc[p] \in Processes
  OBVIOUS
<1>2. CASE SaveFrame(p)
  <2>1. proc[p].cap \in Captures
    BY <1>2 DEF SaveFrame, OnlyStartedIsCaptured
  <2>2. proc[p].written + 1 \in 0 .. MaxFrames
    BY <1>1, <1>2, ConstantsAssumption DEF SaveFrame, Processes
  <2>3. proc' \in [Pids -> Processes]
    BY <1>1, <1>2, <2>2 DEF SaveFrame, Processes
  <2>4. frames' \in [Captures -> 0 .. MaxFrames]
    BY <1>2, <2>1, <2>2 DEF SaveFrame, Larger
  <2>5. QED  BY <1>2, <2>3, <2>4, TypePartsNext DEF SaveFrame, Busy
<1>3. CASE ProcessEnds(p) \/ ProcessFails(p)
  <2>1. proc' \in [Pids -> Processes]
    BY <1>3, Starts DEF ProcessEnds, ProcessFails
  <2>2. QED  BY <1>3, <2>1, TypePartsNext DEF ProcessEnds, ProcessFails, Busy
<1>4. QED  BY <1>2, <1>3 DEF ProcessStep

(* Every step keeps the types.                                             *)
LEMMA TypeStep == ASSUME CaptureInv, Next PROVE TypeOK'
  BY RequestType, ThreadType, AgentType, CallerType, ProcessType DEF Next, AgentStep

-------------------------------------------------------------------------------
(* Names.                                                                  *)

LEMMA Distinct ==
    /\ None \notin Status /\ "RUNNING" # None /\ "CREATED" # None /\ "COMPLETED" # None
    /\ NoRuntime.cap = None /\ NoRuntime.pid = None
    /\ FreshAgent.rt = NoRuntime /\ FreshAgent.want = None /\ FreshAgent.pc = "fetch"
    /\ FreshAgent.via = None /\ FreshAgent.then = "fetch" /\ FreshAgent \in Agents
    /\ IdleThread.pc = "idle" /\ IdleThread.op = "none"
  BY ConstantsAssumption, Starts DEF Status, Final, NoRuntime, FreshAgent, IdleThread

(* A request that has decided: its thread is the only thing it changes,    *)
(* but for what has been started.                                          *)
LEMMA DecidedThread ==
    ASSUME CaptureInv, NEW t \in Threads, NEW op, NEW c, NEW status, Decided(t, op, c, status)
    PROVE  /\ th'[t].pc = "update" /\ th'[t].op = op /\ th'[t].cap = c
           /\ th'[t].status = status
           /\ \A u \in Threads \ {t} : th'[u] = th[u]
  BY TypeParts DEF CaptureInv, Decided, IdleThread

LEMMA NamesRequest ==
    ASSUME CaptureInv, NEW c \in Captures,
           CreateCapture(c) \/ \E t \in Threads : StartCapture(t, c) \/ StopCapture(t, c)
    PROVE  NamesAreKnown'
<1>1. NamesAreKnown /\ rec \in [Captures -> Records] /\ th \in [Threads -> Locals]
      /\ started \subseteq Captures
  BY TypeParts DEF CaptureInv
<1>2. CASE CreateCapture(c)
  <2>1. /\ rec'[c].status = "CREATED" /\ \A d \in Captures \ {c} : rec'[d] = rec[d]
        /\ UNCHANGED <<th, agent, runtime, started>> /\ rec[c].status = None
    BY <1>1, <1>2 DEF CreateCapture, gateway
  <2>2. \A d \in Captures : rec[d].status # None => rec'[d].status # None
    BY <2>1, Distinct
  <2>3. \A d \in Captures : rec'[d].status = "RUNNING" => rec[d].status = "RUNNING"
    BY <2>1
  <2>4. \A t \in Threads : Busy(t) => th[t].cap \in Captures
    BY TypeParts DEF CaptureInv
  <2>5. QED  BY <1>1, <2>1, <2>2, <2>3, <2>4 DEF NamesAreKnown, Busy
<1>3. ASSUME NEW t \in Threads, StartCapture(t, c) PROVE NamesAreKnown'
  <2>1. /\ UNCHANGED <<rec, agent, runtime>> /\ started' = started \union {c}
        /\ rec[c].status # None /\ Decided(t, "start", c, "RUNNING")
    BY <1>3, Distinct DEF StartCapture, gateway
  <2>2. QED  BY <1>1, <2>1, DecidedThread, Distinct DEF NamesAreKnown, Busy
<1>4. ASSUME NEW t \in Threads, StopCapture(t, c) PROVE NamesAreKnown'
  <2>1. /\ UNCHANGED <<rec, agent, runtime, started>>
        /\ rec[c].status # None /\ Decided(t, "stop", c, StopTarget(c))
    BY <1>4, Distinct DEF StopCapture, gateway
  <2>2. StopTarget(c) # None /\ StopTarget(c) # "RUNNING"
    BY ConstantsAssumption DEF StopTarget, Status, Final
  <2>3. QED  BY <1>1, <2>1, <2>2, DecidedThread DEF NamesAreKnown, Busy
<1>5. QED  BY <1>2, <1>3, <1>4

(* What a thread's step does.                                              *)
LEMMA ThreadMoves ==
    ASSUME CaptureInv, NEW t \in Threads
    PROVE  /\ SyncRead(t) =>
                /\ th[t].pc = "read" /\ th'[t].pc = "update" /\ th'[t].op = th[t].op
                /\ th'[t].cap = th[t].cap /\ th'[t].count = th[t].count
                /\ th[t].status = None => th'[t].status = rec[th[t].cap].status
                /\ th[t].status # None => th'[t].status = th[t].status
                /\ \A u \in Threads \ {t} : th'[u] = th[u]
           /\ Update(t) =>
                /\ th[t].pc = "update" /\ th'[t].op = th[t].op
                /\ th'[t].pc = IF th[t].op = "sync" THEN "manifest" ELSE "list"
                /\ th'[t].cap = th[t].cap /\ th'[t].count = th[t].count
                /\ th'[t].status = th[t].status
                /\ \A u \in Threads \ {t} : th'[u] = th[u]
                /\ rec'[th[t].cap].status = th[t].status
                /\ th[t].op = "sync" => rec'[th[t].cap].saved = th[t].count
                /\ th[t].op # "sync" => rec'[th[t].cap].saved = rec[th[t].cap].saved
                /\ \A c \in Captures \ {th[t].cap} : rec'[c] = rec[c]
           /\ ReadManifest(t) =>
                /\ th[t].pc = "list" /\ th'[t].pc = "manifest" /\ th'[t].op = th[t].op
                /\ th'[t].cap = th[t].cap /\ th'[t].status = th[t].status
                /\ \A u \in Threads \ {t} : th'[u] = th[u]
           /\ Manifest(t) =>
                /\ th[t].pc = "manifest" /\ th'[t] = IdleThread
                /\ \A u \in Threads \ {t} : th'[u] = th[u]
                /\ man'[th[t].cap] = th[t].count
                /\ \A c \in Captures \ {th[t].cap} : man'[c] = man[c]
                /\ agent.via = t => agent' = Answered
                /\ agent.via # t => agent' = agent
<1>1. /\ th \in [Threads -> Locals] /\ rec \in [Captures -> Records]
      /\ man \in [Captures -> 0 .. MaxFrames]
      /\ \A u \in Threads : Busy(u) => th[u].cap \in Captures
  BY TypeParts DEF CaptureInv
<1>2. /\ th[t] \in Locals /\ (Busy(t) => rec[th[t].cap] \in Records)
  BY <1>1
<1>3. ASSUME SyncRead(t)
      PROVE  /\ th[t].pc = "read" /\ th'[t].pc = "update" /\ th'[t].op = th[t].op
             /\ th'[t].cap = th[t].cap /\ th'[t].count = th[t].count
             /\ th[t].status = None => th'[t].status = rec[th[t].cap].status
             /\ th[t].status # None => th'[t].status = th[t].status
             /\ \A u \in Threads \ {t} : th'[u] = th[u]
  BY <1>1, <1>2, <1>3 DEF SyncRead, Locals
<1>4. ASSUME Update(t)
      PROVE  /\ th[t].pc = "update" /\ th'[t].op = th[t].op
             /\ th'[t].pc = IF th[t].op = "sync" THEN "manifest" ELSE "list"
             /\ th'[t].cap = th[t].cap /\ th'[t].count = th[t].count
             /\ th'[t].status = th[t].status
             /\ \A u \in Threads \ {t} : th'[u] = th[u]
             /\ rec'[th[t].cap].status = th[t].status
             /\ th[t].op = "sync" => rec'[th[t].cap].saved = th[t].count
             /\ th[t].op # "sync" => rec'[th[t].cap].saved = rec[th[t].cap].saved
             /\ \A c \in Captures \ {th[t].cap} : rec'[c] = rec[c]
  <2>1. th[t].cap \in Captures
    BY <1>1, <1>4 DEF Update, Busy
  <2>2. QED  BY <1>1, <1>2, <1>4, <2>1 DEF Update, Locals
<1>5. ASSUME Manifest(t)
      PROVE  /\ th[t].pc = "manifest" /\ th'[t] = IdleThread
             /\ \A u \in Threads \ {t} : th'[u] = th[u]
             /\ man'[th[t].cap] = th[t].count
             /\ \A c \in Captures \ {th[t].cap} : man'[c] = man[c]
             /\ agent.via = t => agent' = Answered
             /\ agent.via # t => agent' = agent
  <2>1. th[t].cap \in Captures
    BY <1>1, <1>5 DEF Manifest, Busy
  <2>2. QED  BY <1>1, <1>5, <2>1 DEF Manifest
<1>6. ASSUME ReadManifest(t)
      PROVE  /\ th[t].pc = "list" /\ th'[t].pc = "manifest" /\ th'[t].op = th[t].op
             /\ th'[t].cap = th[t].cap /\ th'[t].status = th[t].status
             /\ \A u \in Threads \ {t} : th'[u] = th[u]
  BY <1>1, <1>2, <1>6 DEF ReadManifest, Locals
<1>7. QED  BY <1>3, <1>4, <1>5, <1>6

(* The answer to the agent's call.                                         *)
LEMMA AnsweredFields ==
    ASSUME CaptureInv
    PROVE  /\ agent.then = "fetch" => Answered = FreshAgent
           /\ agent.then # "fetch" =>
                /\ Answered.pc = agent.then /\ Answered.via = None
                /\ Answered.then = "fetch" /\ Answered.rt = agent.rt
                /\ Answered.want = agent.want
  BY TypeParts DEF CaptureInv, Answered, Agents

LEMMA NamesThread == ASSUME CaptureInv, NEW t \in Threads, ThreadStep(t) PROVE NamesAreKnown'
<1>1. NamesAreKnown /\ Busy(t) /\ th[t].cap \in Captures /\ started \subseteq Captures
      /\ \A u \in Threads : Busy(u) => th[u].cap \in Captures
  BY TypeParts DEF CaptureInv, ThreadStep, SyncRead, Update, ReadManifest, Manifest, Busy
<1>2. CASE SyncRead(t)
  <2>1. UNCHANGED <<rec, agent, runtime, started>>
    BY <1>2 DEF SyncRead, gateway
  <2>2. /\ th'[t].pc = "update" /\ th'[t].cap = th[t].cap
        /\ th'[t].status \in {th[t].status, rec[th[t].cap].status} \ {None}
        /\ \A u \in Threads \ {t} : th'[u] = th[u]
    BY <1>1, <1>2, ThreadMoves DEF NamesAreKnown
  <2>3. QED  BY <1>1, <2>1, <2>2 DEF NamesAreKnown, Busy
<1>3. CASE Update(t)
  <2>1. UNCHANGED <<agent, runtime, started>>
    BY <1>3 DEF Update, gateway
  <2>2. /\ th[t].pc = "update" /\ th'[t].cap = th[t].cap /\ th'[t].op = th[t].op
        /\ th'[t].pc = IF th[t].op = "sync" THEN "manifest" ELSE "list"
        /\ th'[t].status = th[t].status
        /\ \A u \in Threads \ {t} : th'[u] = th[u]
        /\ rec'[th[t].cap].status = th[t].status
        /\ \A c \in Captures \ {th[t].cap} : rec'[c] = rec[c]
    BY <1>3, ThreadMoves
  <2>3. th[t].status # None /\ (th[t].status = "RUNNING" => th[t].cap \in started)
    BY <1>1, <2>2 DEF NamesAreKnown
  <2>4. \A c \in Captures : rec[c].status # None => rec'[c].status # None
    BY <2>2, <2>3
  <2>5. QED  BY <1>1, <2>1, <2>2, <2>3, <2>4 DEF NamesAreKnown, Busy
<1>4. CASE Manifest(t)
  <2>1. UNCHANGED <<rec, runtime, started>>
    BY <1>4 DEF Manifest, gateway
  <2>2. /\ th'[t] = IdleThread /\ \A u \in Threads \ {t} : th'[u] = th[u]
        /\ agent' = Answered \/ agent' = agent
    BY <1>4, ThreadMoves
  <2>3. /\ agent'.rt = agent.rt \/ agent'.rt = NoRuntime
        /\ agent'.want = agent.want \/ agent'.want = None
    BY <2>2, AnsweredFields, Distinct
  <2>4. QED  BY <1>1, <2>1, <2>2, <2>3, Distinct DEF NamesAreKnown, Busy
<1>5. CASE ReadManifest(t)
  <2>1. UNCHANGED <<rec, agent, runtime, started>>
    BY <1>5 DEF ReadManifest, gateway
  <2>2. /\ th[t].pc = "list" /\ th'[t].cap = th[t].cap /\ th'[t].status = th[t].status
        /\ th'[t].pc = "manifest"
        /\ \A u \in Threads \ {t} : th'[u] = th[u]
    BY <1>5, ThreadMoves
  <2>3. QED  BY <1>1, <2>1, <2>2 DEF NamesAreKnown, Busy
<1>6. QED  BY <1>2, <1>3, <1>4, <1>5 DEF ThreadStep

LEMMA NamesCaller ==
    ASSUME CaptureInv, NEW t \in Threads,
           Evict(t) \/ Refuse(t) \/ ReportRunning(t) \/ ReportEnd(t)
    PROVE  NamesAreKnown'
<1>1. PICK c \in Captures, status \in Status \union {None},
           then \in {"fetch", "clear", "clearDone"} :
        Call(t, c, status, then) /\ c \in started /\ UNCHANGED <<rec, runtime, started>>
  BY CallsOfAgent
<1>2. /\ agent'.rt = agent.rt /\ agent'.want = agent.want
      /\ \A u \in Threads \ {t} : th'[u] = th[u]
      /\ th'[t] = [pc |-> "read", op |-> "sync", cap |-> c, status |-> status,
                   count |-> frames[c]]
  <2>1. Called(t, c, status, then)
    BY <1>1, CallType
  <2>2. QED  BY <2>1 DEF Called
<1>3. NamesAreKnown /\ started \subseteq Captures
  BY TypeParts DEF CaptureInv
<1>4. th'[t].pc = "read" /\ th'[t].cap = c
  BY <1>2
<1>5. QED  BY <1>1, <1>2, <1>3, <1>4 DEF NamesAreKnown, Busy

LEMMA NamesAgent ==
    ASSUME CaptureInv,
           \/ Fetch \/ Clear \/ NothingToDo \/ Note \/ KeepRuntime
           \/ GiveUp \/ AgentKilled \/ \E p \in Pids : Launch(p)
    PROVE  NamesAreKnown'
<1> USE DEF api, gateway
<1>1. /\ NamesAreKnown /\ agent \in Agents /\ th \in [Threads -> Locals]
      /\ started \subseteq Captures
  BY TypeParts DEF CaptureInv
<1>2. UNCHANGED <<rec, started>>
  BY DEF Fetch, Clear, NothingToDo, Note, KeepRuntime, GiveUp, AgentKilled, Launch
<1>3. /\ agent'.rt.cap \in {None, runtime.cap, agent.rt.cap, agent.want}
      /\ agent'.want \in {None, agent.want, Oldest(Fetched)}
      /\ runtime' \in {runtime, NoRuntime, agent.rt}
  <2>1. CASE Fetch
    BY <1>1, <2>1 DEF Fetch, Agents
  <2>2. CASE Clear
    BY <1>1, <2>2, Distinct DEF Clear, Agents
  <2>3. CASE NothingToDo \/ GiveUp \/ AgentKilled
    BY <2>3, Distinct DEF NothingToDo, GiveUp, AgentKilled
  <2>4. CASE Note \/ KeepRuntime
    BY <1>1, <2>4 DEF Note, KeepRuntime, Agents
  <2>5. ASSUME NEW p \in Pids, Launch(p)
        PROVE  /\ agent'.rt.cap \in {None, runtime.cap, agent.rt.cap, agent.want}
               /\ agent'.want \in {None, agent.want, Oldest(Fetched)}
               /\ runtime' \in {runtime, NoRuntime, agent.rt}
    BY <1>1, <2>5 DEF Launch, Agents
  <2>6. QED  BY <2>1, <2>2, <2>3, <2>4, <2>5
<1>4. \A u \in Threads : th'[u] = th[u] \/ th'[u] = IdleThread
  <2>1. th' = th \/ th' = [th EXCEPT ![agent.via] = IdleThread]
    BY DEF Fetch, Clear, NothingToDo, Note, KeepRuntime, GiveUp, AgentKilled, Launch
  <2>2. QED  BY <1>1, <2>1
<1>5. Oldest(Fetched) # None => Oldest(Fetched) \in started
  BY OldestFetched
<1>6. QED  BY <1>1, <1>2, <1>3, <1>4, <1>5, Distinct DEF NamesAreKnown, Busy

LEMMA NamesStep == ASSUME CaptureInv, Next PROVE NamesAreKnown'
<1>1. ASSUME NEW p \in Pids, ProcessStep(p) \/ ProcessFails(p) PROVE NamesAreKnown'
  <2>1. UNCHANGED <<rec, th, agent, runtime, started>>
    BY <1>1 DEF ProcessStep, SaveFrame, ProcessEnds, ProcessFails, api
  <2>2. QED  BY <2>1 DEF CaptureInv, NamesAreKnown, Busy
<1>2. QED  BY <1>1, NamesRequest, NamesThread, NamesCaller, NamesAgent DEF Next, AgentStep

-------------------------------------------------------------------------------
(* What the agent has in hand.                                             *)

LEMMA AgentKeeps ==
    ASSUME CaptureInv, UNCHANGED <<agent, runtime, proc>>
    PROVE  AgentKnowsRuntime'
  BY DEF CaptureInv, AgentKnowsRuntime, LettingGo

LEMMA AgentFresh ==
    ASSUME CaptureInv, agent' = FreshAgent, runtime' \in {runtime, NoRuntime}
    PROVE  AgentKnowsRuntime'
  BY Distinct DEF CaptureInv, AgentKnowsRuntime, LettingGo

LEMMA AgentKnowsStep == ASSUME CaptureInv, Next PROVE AgentKnowsRuntime'
<1> USE DEF api, gateway
<1>1. /\ AgentKnowsRuntime /\ agent \in Agents /\ runtime \in RuntimeFiles
      /\ proc \in [Pids -> Processes]
  BY TypeParts DEF CaptureInv
<1>2. ASSUME NEW c \in Captures, NEW t \in Threads,
             CreateCapture(c) \/ StartCapture(t, c) \/ StopCapture(t, c)
      PROVE  AgentKnowsRuntime'
  BY <1>2, AgentKeeps DEF CreateCapture, StartCapture, StopCapture
<1>3. ASSUME NEW c \in Captures, CreateCapture(c) PROVE AgentKnowsRuntime'
  BY <1>3, AgentKeeps DEF CreateCapture
<1>4. ASSUME NEW t \in Threads, ThreadStep(t) PROVE AgentKnowsRuntime'
  <2>1. CASE SyncRead(t) \/ Update(t) \/ ReadManifest(t)
    BY <2>1, AgentKeeps DEF SyncRead, Update, ReadManifest
  <2>2. CASE Manifest(t)
    <3>1. UNCHANGED <<runtime, proc>> /\ (agent' = agent \/ agent' = Answered)
          /\ (agent.via # t => agent' = agent)
      BY <2>2 DEF Manifest
    <3>2. CASE agent' = agent
      BY <3>1, <3>2, AgentKeeps
    <3>3. CASE agent' # agent /\ agent.then = "fetch"
      BY <3>1, <3>3, AnsweredFields, AgentFresh
    <3>4. CASE agent' # agent /\ agent.then # "fetch"
      <4>1. /\ agent'.pc = agent.then /\ agent'.via = None /\ agent'.then = "fetch"
            /\ agent'.rt = agent.rt /\ agent.then \in {"clear", "clearDone"}
        BY <1>1, <3>1, <3>4, AnsweredFields DEF Agents
      <4>2. LettingGo
        BY <1>1, <3>4 DEF AgentKnowsRuntime, LettingGo
      <4>3. QED  BY <1>1, <3>1, <4>1, <4>2 DEF AgentKnowsRuntime, LettingGo
    <3>5. QED  BY <3>2, <3>3, <3>4
  <2>3. QED  BY <1>4, <2>1, <2>2 DEF ThreadStep
<1>5. ASSUME NEW t \in Threads, Evict(t) \/ Refuse(t) \/ ReportRunning(t) \/ ReportEnd(t)
      PROVE  AgentKnowsRuntime'
  <2>1. PICK c \in Captures, status \in Status \union {None},
             then \in {"fetch", "clear", "clearDone"} :
          /\ Call(t, c, status, then) /\ UNCHANGED runtime
          /\ agent.pc \in {"compare", "report"}
          /\ then = "clear" => agent.rt # NoRuntime
          /\ then = "clearDone" => agent.rt # NoRuntime
          /\ then = "clear" /\ Alive(agent.rt) =>
                  proc' = [proc EXCEPT ![agent.rt.pid].state = "told"]
          /\ ~(then = "clear" /\ Alive(agent.rt)) => proc' = proc
          /\ then = "clearDone" => ~Alive(agent.rt)
    BY <1>5, CallsOfAgent
  <2>2. /\ agent'.rt = agent.rt /\ agent'.pc = "wait" /\ agent'.then = then
    <3>1. Called(t, c, status, then)
      BY <2>1, CallType
    <3>2. QED  BY <3>1 DEF Called
  <2>3. agent.rt = runtime
    BY <1>1, <2>1 DEF AgentKnowsRuntime
  <2>4. then # "fetch" /\ runtime.pid # None => proc'[runtime.pid].state # "run"
    <3>1. CASE then = "clear" /\ Alive(agent.rt)
      <4>1. runtime.pid \in Pids \/ runtime.pid = None
        BY <1>1 DEF RuntimeFiles
      <4>2. proc' = [proc EXCEPT ![runtime.pid].state = "told"]
        BY <2>1, <2>3, <3>1
      <4>3. QED  BY <1>1, <4>1, <4>2 DEF Processes
    <3>2. CASE ~(then = "clear" /\ Alive(agent.rt))
      BY <2>1, <2>3, <3>2 DEF Alive
    <3>3. QED  BY <3>1, <3>2
  <2>5. QED  BY <1>1, <2>1, <2>2, <2>3, <2>4 DEF AgentKnowsRuntime, LettingGo
<1>6. CASE Fetch
  <2>1. agent'.pc = "compare" /\ agent'.rt = runtime /\ UNCHANGED <<runtime, proc>>
        /\ agent'.via = agent.via /\ agent'.then = agent.then /\ agent.pc = "fetch"
    BY <1>1, <1>6 DEF Fetch, Agents
  <2>2. QED  BY <1>1, <2>1 DEF AgentKnowsRuntime, LettingGo
<1>7. CASE Clear
  <2>1. CASE agent.pc = "clear"
    <3>1. agent'.pc = "compare" /\ agent'.rt = NoRuntime /\ runtime' = NoRuntime
          /\ agent'.via = agent.via /\ agent'.then = agent.then
      BY <1>1, <1>7, <2>1 DEF Clear, Agents
    <3>2. QED  BY <1>1, <2>1, <3>1 DEF AgentKnowsRuntime, LettingGo
  <2>2. CASE agent.pc # "clear"
    BY <1>7, <2>2, AgentFresh DEF Clear
  <2>3. QED  BY <2>1, <2>2
<1>8. CASE NothingToDo \/ GiveUp \/ AgentKilled
  BY <1>8, AgentFresh DEF NothingToDo, GiveUp, AgentKilled
<1>9. CASE Note \/ KeepRuntime
  <2>1. /\ agent'.pc = "report" /\ agent'.rt = agent.rt /\ agent'.via = agent.via
        /\ agent'.then = agent.then /\ agent.pc \in {"note", "compare"} /\ proc' = proc
        /\ agent.pc = "note" => runtime' = agent.rt
        /\ agent.pc = "compare" => runtime' = runtime /\ agent.rt # NoRuntime
    BY <1>1, <1>9 DEF Note, KeepRuntime, Agents
  <2>2. agent.pc = "note" => agent.rt # NoRuntime
    BY <1>1, Distinct, ConstantsAssumption DEF AgentKnowsRuntime
  <2>3. agent'.rt = runtime' /\ agent'.rt # NoRuntime
    BY <1>1, <2>1, <2>2 DEF AgentKnowsRuntime
  <2>4. QED  BY <1>1, <2>1, <2>3 DEF AgentKnowsRuntime, LettingGo
<1>10. ASSUME NEW p \in Pids, Launch(p) PROVE AgentKnowsRuntime'
  <2>1. /\ agent'.pc = "note" /\ agent'.rt = [cap |-> agent.want, pid |-> p]
        /\ agent'.via = agent.via /\ agent'.then = agent.then /\ agent.pc = "compare"
        /\ agent.want \in Captures /\ agent.rt = NoRuntime /\ runtime' = runtime
    BY <1>1, <1>10 DEF Launch, Launchable, Agents
  <2>2. agent'.rt.pid = p /\ agent'.rt.cap = agent.want /\ p # None /\ agent.want # None
    BY <2>1, ConstantsAssumption
  <2>3. QED  BY <1>1, <2>1, <2>2, Distinct DEF AgentKnowsRuntime, LettingGo
<1>11. ASSUME NEW p \in Pids, ProcessStep(p) \/ ProcessFails(p) PROVE AgentKnowsRuntime'
  <2>1. UNCHANGED <<agent, runtime>>
    BY <1>11 DEF ProcessStep, SaveFrame, ProcessEnds, ProcessFails
  <2>2. \A q \in Pids : proc'[q].state = "run" => proc[q].state = "run"
    BY <1>1, <1>11 DEF ProcessStep, SaveFrame, ProcessEnds, ProcessFails, Processes, NoProcess
  <2>3. runtime.pid # None => runtime.pid \in Pids
    BY <1>1 DEF RuntimeFiles
  <2>4. QED  BY <1>1, <2>1, <2>2, <2>3 DEF AgentKnowsRuntime, LettingGo
<1>12. QED
  BY <1>2, <1>3, <1>4, <1>5, <1>6, <1>7, <1>8, <1>9, <1>10, <1>11 DEF Next, AgentStep

-------------------------------------------------------------------------------
(* What the processes do.                                                  *)

(* No process begins to run but the one that the agent launches.           *)
LEMMA ProcessMoves ==
    ASSUME CaptureInv, Next, ~\E p \in Pids : Launch(p)
    PROVE  \A q \in Pids :
              /\ proc'[q].state # "none" => proc[q].state # "none" /\ proc'[q].cap = proc[q].cap
              /\ proc'[q].state = "run" => proc[q].state = "run"
<1> USE DEF api, gateway
<1>1. proc \in [Pids -> Processes]
  BY TypeParts DEF CaptureInv
<1>2. ASSUME NEW c \in Captures,
             CreateCapture(c) \/ \E t \in Threads : StartCapture(t, c) \/ StopCapture(t, c)
      PROVE  proc' = proc
  BY <1>2 DEF CreateCapture, StartCapture, StopCapture
<1>3. ASSUME NEW t \in Threads, ThreadStep(t) PROVE proc' = proc
  BY <1>3 DEF ThreadStep, SyncRead, Update, ReadManifest, Manifest
<1>4. ASSUME NEW t \in Threads, Evict(t) \/ Refuse(t) \/ ReportRunning(t) \/ ReportEnd(t)
      PROVE  \A q \in Pids :
                /\ proc'[q].state # "none" =>
                        proc[q].state # "none" /\ proc'[q].cap = proc[q].cap
                /\ proc'[q].state = "run" => proc[q].state = "run"
  <2>1. proc' = proc \/
        (Alive(agent.rt) /\ proc' = [proc EXCEPT ![agent.rt.pid].state = "told"])
    BY <1>4 DEF Evict, Refuse, ReportRunning, ReportEnd
  <2>2. CASE proc' = proc
    BY <2>2
  <2>3. CASE Alive(agent.rt) /\ proc' = [proc EXCEPT ![agent.rt.pid].state = "told"]
    <3>1. proc[agent.rt.pid].state # "none"
      BY <2>3 DEF Alive
    <3>2. QED  BY <1>1, <2>3, <3>1 DEF Processes
  <2>4. QED  BY <2>1, <2>2, <2>3
<1>5. ASSUME Fetch \/ Clear \/ NothingToDo \/ Note \/ KeepRuntime \/ GiveUp \/ AgentKilled
      PROVE  proc' = proc
  BY <1>5 DEF Fetch, Clear, NothingToDo, Note, KeepRuntime, GiveUp, AgentKilled
<1>6. ASSUME NEW p \in Pids, ProcessStep(p) \/ ProcessFails(p)
      PROVE  \A q \in Pids :
                /\ proc'[q].state # "none" =>
                        proc[q].state # "none" /\ proc'[q].cap = proc[q].cap
                /\ proc'[q].state = "run" => proc[q].state = "run"
  BY <1>1, <1>6 DEF ProcessStep, SaveFrame, ProcessEnds, ProcessFails, NoProcess, Processes
<1>7. QED  BY <1>2, <1>3, <1>4, <1>5, <1>6 DEF Next, AgentStep

(* A launched process takes the capture that the agent wants, which has    *)
(* been started.                                                           *)
LEMMA Launched ==
    ASSUME CaptureInv, NEW p \in Pids, Launch(p)
    PROVE  /\ proc[p].state = "none" /\ proc'[p].cap = agent.want /\ agent.want \in started
           /\ \A q \in Pids \ {p} : proc'[q] = proc[q]
           /\ agent'.pc = "note" /\ agent'.rt.pid = p /\ agent.pc = "compare"
           /\ UNCHANGED <<api, runtime, frames, lost, crashes, started, overtaken>>
<1>1. proc \in [Pids -> Processes] /\ agent \in Agents /\ NamesAreKnown
  BY TypeParts DEF CaptureInv
<1>2. proc[p].state = "none" /\ proc'[p].cap = agent.want
      /\ \A q \in Pids \ {p} : proc'[q] = proc[q]
  BY <1>1 DEF Launch
<1>3. agent.want # None /\ agent.want \in started
  BY <1>1 DEF Launch, Launchable, NamesAreKnown
<1>4. agent'.pc = "note" /\ agent'.rt.pid = p /\ agent.pc = "compare"
  BY <1>1 DEF Launch, Agents
<1>5. QED  BY <1>2, <1>3, <1>4 DEF Launch

LEMMA StartedStep == ASSUME CaptureInv, Next PROVE OnlyStartedIsCaptured'
<1>1. started \subseteq started'
  BY DEF Next, CreateCapture, StartCapture, StopCapture, ThreadStep, SyncRead, Update,
         ReadManifest, Manifest, AgentStep, Fetch, Clear, NothingToDo, Note, KeepRuntime,
         Evict, Refuse, ReportRunning,
         ReportEnd, Launch, GiveUp, AgentKilled, ProcessStep, SaveFrame, ProcessEnds,
         ProcessFails
<1>2. CASE \E p \in Pids : Launch(p)
  BY <1>1, <1>2, Launched DEF CaptureInv, OnlyStartedIsCaptured
<1>3. CASE ~\E p \in Pids : Launch(p)
  BY <1>1, <1>3, ProcessMoves DEF CaptureInv, OnlyStartedIsCaptured
<1>4. QED  BY <1>2, <1>3

-------------------------------------------------------------------------------
(* Frames.                                                                 *)

(* A save_dir never loses a frame.                                         *)
LEMMA FramesGrow ==
    ASSUME CaptureInv, Next
    PROVE  \A c \in Captures : frames[c] = MaxFrames => frames'[c] = MaxFrames
<1> USE DEF api, gateway
<1>1. TypeOK' /\ frames \in [Captures -> 0 .. MaxFrames] /\ proc \in [Pids -> Processes]
  BY TypeStep, TypeParts DEF CaptureInv
<1>2. ASSUME NEW p \in Pids, SaveFrame(p)
      PROVE  \A c \in Captures : frames[c] = MaxFrames => frames'[c] = MaxFrames
  <2>1. proc[p].written + 1 \in 0 .. MaxFrames
    BY <1>1, <1>2, ConstantsAssumption DEF SaveFrame, Processes
  <2>2. QED  BY <1>1, <1>2, <2>1, ConstantsAssumption DEF SaveFrame, Larger
<1>3. CASE ~\E p \in Pids : SaveFrame(p)
  <2>1. frames' = frames
    BY <1>3
    DEF Next, CreateCapture, StartCapture, StopCapture, ThreadStep, SyncRead, Update,
        ReadManifest, Manifest, AgentStep, Fetch, Clear, NothingToDo, Note, KeepRuntime,
        Evict, Refuse, ReportRunning,
        ReportEnd, Launch, GiveUp, AgentKilled, ProcessStep, ProcessEnds, ProcessFails
  <2>2. QED  BY <2>1
<1>4. QED  BY <1>2, <1>3

(* How a step can change what is said of a capture: only a request's       *)
(* decision, its update of the record, or a report of the agent.           *)
LEMMA FramesStep == ASSUME CaptureInv, Next PROVE FramesAreThere'
<1> USE DEF api, gateway
<1>1. /\ FramesAreThere /\ th \in [Threads -> Locals] /\ rec \in [Captures -> Records]
      /\ \A u \in Threads : Busy(u) => th[u].cap \in Captures
  BY TypeParts DEF CaptureInv
<1>2. SUFFICES
        /\ \A c \in Captures : rec'[c].status = "COMPLETED" => frames[c] = MaxFrames
        /\ \A t \in Threads : th'[t].pc # "idle" /\ th'[t].status = "COMPLETED" =>
                frames[th'[t].cap] = MaxFrames
  <2>1. \A t \in Threads : th'[t].pc # "idle" => th'[t].cap \in Captures
    BY TypeStep DEF TypeOK
  <2>2. QED  BY <2>1, FramesGrow DEF FramesAreThere, Busy
<1>3. ASSUME UNCHANGED <<rec, th>>
      PROVE  /\ \A c \in Captures : rec'[c].status = "COMPLETED" => frames[c] = MaxFrames
             /\ \A t \in Threads : th'[t].pc # "idle" /\ th'[t].status = "COMPLETED" =>
                    frames[th'[t].cap] = MaxFrames
  BY <1>1, <1>3 DEF FramesAreThere, Busy
<1>4. ASSUME NEW c \in Captures, CreateCapture(c)
      PROVE  /\ \A d \in Captures : rec'[d].status = "COMPLETED" => frames[d] = MaxFrames
             /\ \A t \in Threads : th'[t].pc # "idle" /\ th'[t].status = "COMPLETED" =>
                    frames[th'[t].cap] = MaxFrames
  <2>1. /\ rec'[c].status = "CREATED" /\ \A d \in Captures \ {c} : rec'[d] = rec[d]
        /\ th' = th
    BY <1>1, <1>4 DEF CreateCapture
  <2>2. QED  BY <1>1, <2>1 DEF FramesAreThere, Busy
<1>5. ASSUME NEW c \in Captures, NEW t \in Threads, StartCapture(t, c) \/ StopCapture(t, c)
      PROVE  /\ \A d \in Captures : rec'[d].status = "COMPLETED" => frames[d] = MaxFrames
             /\ \A u \in Threads : th'[u].pc # "idle" /\ th'[u].status = "COMPLETED" =>
                    frames[th'[u].cap] = MaxFrames
  <2>1. PICK op, status : Decided(t, op, c, status) /\ status # "COMPLETED" /\ rec' = rec
    BY <1>5 DEF StartCapture, StopCapture, StopTarget
  <2>2. th'[t].status # "COMPLETED" /\ \A u \in Threads \ {t} : th'[u] = th[u]
    BY <2>1, DecidedThread
  <2>3. QED  BY <1>1, <2>1, <2>2 DEF FramesAreThere, Busy
<1>6. ASSUME NEW t \in Threads, ThreadStep(t)
      PROVE  /\ \A d \in Captures : rec'[d].status = "COMPLETED" => frames[d] = MaxFrames
             /\ \A u \in Threads : th'[u].pc # "idle" /\ th'[u].status = "COMPLETED" =>
                    frames[th'[u].cap] = MaxFrames
  <2>1. CASE SyncRead(t)
    <3>1. rec' = rec
      BY <2>1 DEF SyncRead
    <3>2. QED  BY <1>1, <2>1, <3>1, ThreadMoves DEF FramesAreThere, Busy
  <2>2. CASE Update(t)
    <3>1. /\ Busy(t) /\ th'[t].cap = th[t].cap /\ th'[t].status = th[t].status
          /\ \A u \in Threads \ {t} : th'[u] = th[u]
          /\ rec'[th[t].cap].status = th[t].status
          /\ \A c \in Captures \ {th[t].cap} : rec'[c] = rec[c]
      BY <2>2, ThreadMoves DEF Busy
    <3>2. QED  BY <1>1, <3>1 DEF FramesAreThere, Busy
  <2>3. CASE Manifest(t)
    <3>1. rec' = rec
      BY <2>3 DEF Manifest
    <3>2. QED  BY <1>1, <2>3, <3>1, ThreadMoves, Distinct DEF FramesAreThere, Busy
  <2>4. CASE ReadManifest(t)
    <3>1. /\ rec' = rec /\ Busy(t) /\ th'[t].cap = th[t].cap /\ th'[t].status = th[t].status
          /\ \A u \in Threads \ {t} : th'[u] = th[u]
      BY <2>4, ThreadMoves DEF ReadManifest, Busy
    <3>2. QED  BY <1>1, <3>1 DEF FramesAreThere, Busy
  <2>5. QED  BY <1>6, <2>1, <2>2, <2>3, <2>4 DEF ThreadStep
<1>7. ASSUME NEW t \in Threads, Evict(t) \/ Refuse(t) \/ ReportRunning(t) \/ ReportEnd(t)
      PROVE  /\ \A d \in Captures : rec'[d].status = "COMPLETED" => frames[d] = MaxFrames
             /\ \A u \in Threads : th'[u].pc # "idle" /\ th'[u].status = "COMPLETED" =>
                    frames[th'[u].cap] = MaxFrames
  <2>1. PICK c \in Captures, status \in Status \union {None},
             then \in {"fetch", "clear", "clearDone"} :
          /\ Call(t, c, status, then) /\ rec' = rec
          /\ status = "COMPLETED" => frames[c] = MaxFrames
    BY <1>7, CallsOfAgent
  <2>2. Called(t, c, status, then)
    BY <2>1, CallType
  <2>3. th'[t].cap = c /\ th'[t].status = status /\ \A u \in Threads \ {t} : th'[u] = th[u]
    BY <2>2 DEF Called
  <2>4. QED  BY <1>1, <2>1, <2>3 DEF FramesAreThere, Busy
<1>8. CASE GiveUp
  <2>1. \A u \in Threads : th'[u] = th[u] \/ th'[u] = IdleThread
    <3>1. th' = th \/ th' = [th EXCEPT ![agent.via] = IdleThread]
      BY <1>8 DEF GiveUp
    <3>2. QED  BY <1>1, <3>1
  <2>2. rec' = rec
    BY <1>8 DEF GiveUp
  <2>3. QED  BY <1>1, <2>1, <2>2, Distinct DEF FramesAreThere, Busy
<1>9. CASE Fetch \/ Clear \/ NothingToDo \/ Note \/ KeepRuntime \/ AgentKilled
  BY <1>3, <1>9 DEF Fetch, Clear, NothingToDo, Note, KeepRuntime, AgentKilled
<1>10. ASSUME NEW p \in Pids, Launch(p) \/ ProcessStep(p) \/ ProcessFails(p)
       PROVE  UNCHANGED <<rec, th>>
  BY <1>10 DEF Launch, ProcessStep, SaveFrame, ProcessEnds, ProcessFails
<1>11. QED
  BY <1>3, <1>4, <1>5, <1>6, <1>7, <1>8, <1>9, <1>10 DEF Next, AgentStep

-------------------------------------------------------------------------------
(* One report on its way.                                                  *)

Undisturbed == lost = 0 /\ crashes = 0

(* The two parts of OneReport: who reports, and what its report says.      *)
LEMMA OneReportParts ==
    ASSUME CaptureInv, Undisturbed
    PROVE  /\ \A t \in Threads : Busy(t) /\ th[t].op = "sync" =>
                    agent.pc = "wait" /\ agent.via = t
           /\ \A t \in Threads : AboutToList(t) => rec[th[t].cap].saved = th[t].count
           /\ \A c \in Captures \ overtaken :
                man[c] = rec[c].saved \/ \E t \in Threads : AboutToList(t) /\ th[t].cap = c
  BY DEF CaptureInv, OneReport, Undisturbed

LEMMA ReportKept ==
    ASSUME CaptureInv, UNCHANGED <<rec, man, th, lost, crashes, overtaken>>,
           UNCHANGED agent \/ agent.pc # "wait"
    PROVE  OneReport'
  BY DEF CaptureInv, OneReport, AboutToList, Busy

LEMMA ReportRequest ==
    ASSUME CaptureInv, NEW c \in Captures,
           CreateCapture(c) \/ \E t \in Threads : StartCapture(t, c) \/ StopCapture(t, c)
    PROVE  OneReport'
<1>1. /\ rec \in [Captures -> Records] /\ man \in [Captures -> 0 .. MaxFrames]
      /\ NamesAreKnown
      /\ \A u \in Threads : Busy(u) => th[u].cap \in Captures
  BY TypeParts DEF CaptureInv
<1>2. CASE CreateCapture(c)
  <2>1. /\ rec[c].status = None /\ rec'[c].saved = 0 /\ man'[c] = 0
        /\ \A d \in Captures \ {c} : rec'[d] = rec[d] /\ man'[d] = man[d]
        /\ UNCHANGED <<th, agent, lost, crashes, overtaken>>
    BY <1>1, <1>2 DEF CreateCapture
  <2>2. \A u \in Threads : Busy(u) => th[u].cap \in Captures \ {c}
    BY <1>1, <2>1 DEF NamesAreKnown
  <2>3. ASSUME Undisturbed PROVE OneReport'
    <3>1. \A u \in Threads : AboutToList(u) => Busy(u)
      BY DEF AboutToList, Busy
    <3>2. \A u \in Threads : AboutToList(u) => rec'[th[u].cap].saved = th[u].count
      BY <2>1, <2>2, <2>3, <3>1, OneReportParts
    <3>3. \A d \in Captures \ overtaken :
            man'[d] = rec'[d].saved \/ \E u \in Threads : AboutToList(u) /\ th[u].cap = d
      BY <2>1, <2>3, OneReportParts
    <3>4. QED  BY <2>1, <2>3, <3>2, <3>3, OneReportParts DEF OneReport, AboutToList, Busy
  <2>4. QED  BY <2>1, <2>3 DEF Undisturbed, OneReport
<1>3. ASSUME NEW t \in Threads, NEW op \in {"start", "stop"}, NEW status, th[t].pc = "idle",
             Decided(t, op, c, status), UNCHANGED <<rec, man, agent, lost, crashes, overtaken>>
      PROVE  OneReport'
  <2>1. th'[t].pc = "update" /\ th'[t].op # "sync" /\ \A u \in Threads \ {t} : th'[u] = th[u]
    BY <1>3, DecidedThread
  <2>2. ~AboutToList(t)
    BY <1>3 DEF AboutToList
  <2>3. CASE Undisturbed
    BY <1>3, <2>1, <2>2, <2>3, OneReportParts DEF OneReport, AboutToList, Busy
  <2>4. CASE ~Undisturbed
    BY <1>3, <2>4 DEF Undisturbed, OneReport
  <2>5. QED  BY <2>3, <2>4
<1>4. ASSUME NEW t \in Threads, StartCapture(t, c) \/ StopCapture(t, c) PROVE OneReport'
  BY <1>3, <1>4 DEF StartCapture, StopCapture
<1>5. QED  BY <1>2, <1>4

LEMMA ReportThread == ASSUME CaptureInv, NEW t \in Threads, ThreadStep(t) PROVE OneReport'
<1>1. UNCHANGED <<lost, crashes>>
  BY DEF ThreadStep, SyncRead, Update, ReadManifest, Manifest
<1>2. SUFFICES ASSUME Undisturbed PROVE OneReport'
  BY <1>1 DEF Undisturbed, OneReport
<1>3. /\ \A u \in Threads : Busy(u) => th[u].cap \in Captures
      /\ \A u \in Threads : AboutToList(u) => Busy(u)
  BY TypeParts DEF CaptureInv, AboutToList, Busy
<1>4. CASE SyncRead(t)
  <2>1. /\ th[t].pc = "read" /\ th'[t].pc = "update" /\ th'[t].op = th[t].op
        /\ \A u \in Threads \ {t} : th'[u] = th[u]
        /\ UNCHANGED <<rec, man, agent, overtaken>>
    BY <1>4, ThreadMoves DEF SyncRead
  <2>2. QED  BY <1>1, <1>2, <2>1, OneReportParts DEF OneReport, AboutToList, Busy
<1>5. CASE ReadManifest(t)
  <2>1. /\ th[t].pc = "list" /\ th'[t].op = th[t].op
        /\ \A u \in Threads \ {t} : th'[u] = th[u]
        /\ UNCHANGED <<rec, man, agent, overtaken>>
    BY <1>5, ThreadMoves DEF ReadManifest
  <2>2. th[t].op # "sync"
    BY <2>1 DEF CaptureInv, NamesAreKnown, Busy
  <2>3. QED  BY <1>1, <1>2, <2>1, <2>2, OneReportParts DEF OneReport, AboutToList, Busy
<1>6. CASE Update(t)
  <2>1. /\ th[t].pc = "update" /\ th'[t].op = th[t].op
        /\ th'[t].pc = IF th[t].op = "sync" THEN "manifest" ELSE "list"
        /\ th'[t].cap = th[t].cap /\ th'[t].count = th[t].count
        /\ \A u \in Threads \ {t} : th'[u] = th[u]
        /\ th[t].op = "sync" => rec'[th[t].cap].saved = th[t].count
        /\ th[t].op # "sync" => rec'[th[t].cap].saved = rec[th[t].cap].saved
        /\ \A c \in Captures \ {th[t].cap} : rec'[c] = rec[c]
        /\ UNCHANGED <<man, agent, overtaken>>
    BY <1>6, ThreadMoves DEF Update
  <2>2. \A u \in Threads : th'[u].pc # "idle" /\ th'[u].op = "sync" =>
            agent'.pc = "wait" /\ agent'.via = u
    BY <1>2, <2>1, OneReportParts DEF Busy
  <2>3. ~AboutToList(t)
    BY <2>1 DEF AboutToList
  <2>4. CASE th[t].op = "sync"
    <3>1. \A u \in Threads : ~AboutToList(u)
      BY <1>2, <1>3, <2>1, <2>4, OneReportParts DEF AboutToList, Busy
    <3>2. \A u \in Threads : AboutToList(u)' => u = t
      BY <2>1, <3>1 DEF AboutToList
    <3>3. AboutToList(t)'
      BY <2>1, <2>4 DEF AboutToList
    <3>4. \A c \in Captures \ overtaken : man'[c] = rec'[c].saved \/ c = th[t].cap
      BY <1>2, <2>1, <3>1, OneReportParts
    <3>5. QED  BY <2>1, <2>2, <2>4, <3>2, <3>3, <3>4 DEF OneReport, Busy
  <2>5. CASE th[t].op # "sync"
    <3>1. \A u \in Threads : AboutToList(u)' <=> AboutToList(u)
      BY <2>1, <2>5 DEF AboutToList
    <3>2. \A u \in Threads : AboutToList(u) => u # t /\ th'[u] = th[u]
      BY <2>1, <2>3
    <3>3. \A c \in Captures : rec'[c].saved = rec[c].saved
      BY <2>1, <2>5
    <3>4. \A u \in Threads : AboutToList(u) => rec'[th[u].cap].saved = th[u].count
      BY <1>2, <1>3, <3>3, OneReportParts
    <3>5. \A c \in Captures \ overtaken :
            man'[c] = rec'[c].saved \/ \E u \in Threads : AboutToList(u) /\ th[u].cap = c
      BY <1>2, <2>1, <3>3, OneReportParts
    <3>6. QED  BY <2>1, <2>2, <3>1, <3>2, <3>4, <3>5 DEF OneReport, Busy
  <2>6. QED  BY <2>4, <2>5
<1>7. CASE Manifest(t)
  <2>1. /\ th[t].pc = "manifest" /\ th'[t] = IdleThread
        /\ \A u \in Threads \ {t} : th'[u] = th[u]
        /\ man'[th[t].cap] = th[t].count
        /\ overtaken \ {th[t].cap} \subseteq overtaken'
        /\ th[t].op # "sync" => overtaken' = overtaken
        /\ \A c \in Captures \ {th[t].cap} : man'[c] = man[c]
        /\ agent.via # t => agent' = agent
        /\ rec' = rec /\ th'[t].pc = "idle"
    BY <1>7, ThreadMoves, Distinct DEF Manifest, Overtaken, Lists
  <2>2. \A u \in Threads : AboutToList(u)' <=> (u # t /\ AboutToList(u))
    BY <2>1 DEF AboutToList
  <2>3. \A u \in Threads : th'[u].pc # "idle" /\ th'[u].op = "sync" =>
            agent'.pc = "wait" /\ agent'.via = u
    BY <1>2, <2>1, OneReportParts DEF Busy
  <2>4. th[t].cap \in Captures
    BY <1>3, <2>1 DEF Busy
  <2>5. \A u \in Threads : AboutToList(u)' => rec'[th'[u].cap].saved = th'[u].count
    BY <1>2, <2>1, <2>2, OneReportParts
  <2>6. \A c \in Captures \ overtaken' :
            man'[c] = rec'[c].saved \/ \E u \in Threads : AboutToList(u)' /\ th'[u].cap = c
    <3>1. CASE th[t].op = "sync"
      <4>1. AboutToList(t)
        BY <2>1, <3>1 DEF AboutToList
      <4>2. man'[th[t].cap] = rec'[th[t].cap].saved
        BY <1>2, <2>1, <3>1, <4>1, OneReportParts
      <4>3. \A c \in Captures \ (overtaken' \union {th[t].cap}) :
                man'[c] = rec'[c].saved \/ \E u \in Threads : AboutToList(u) /\ th[u].cap = c
        BY <1>2, <2>1, <3>1, OneReportParts
      <4>4. \A u \in Threads : AboutToList(u) /\ th[u].cap # th[t].cap =>
                AboutToList(u)' /\ th'[u].cap = th[u].cap
        BY <2>1, <2>2
      <4>5. QED  BY <4>2, <4>3, <4>4
    <3>2. CASE th[t].op # "sync"
      <4>1. ~AboutToList(t)
        BY <3>2 DEF AboutToList
      <4>2. overtaken' = overtaken
        BY <2>1, <3>2
      <4>3. \A c \in Captures \ overtaken' : man'[c] = man[c]
        BY <2>1, <3>2, <4>2 DEF CaptureInv, CopiesCurrent, HasRead
      <4>4. \A u \in Threads : AboutToList(u) => AboutToList(u)' /\ th'[u] = th[u]
        BY <2>1, <2>2, <4>1
      <4>5. QED  BY <1>2, <2>1, <4>2, <4>3, <4>4, OneReportParts
    <3>3. QED  BY <3>1, <3>2
  <2>7. QED  BY <2>3, <2>5, <2>6 DEF OneReport, Busy
<1>8. QED  BY <1>4, <1>5, <1>6, <1>7 DEF ThreadStep

LEMMA ReportCaller ==
    ASSUME CaptureInv, NEW t \in Threads,
           Evict(t) \/ Refuse(t) \/ ReportRunning(t) \/ ReportEnd(t)
    PROVE  OneReport'
<1>1. PICK c \in Captures, status \in Status \union {None},
           then \in {"fetch", "clear", "clearDone"} :
        /\ Call(t, c, status, then) /\ agent.pc \in {"compare", "report"}
        /\ UNCHANGED <<rec, man, lost, crashes, overtaken>>
  BY CallsOfAgent
<1>2. Called(t, c, status, then)
  BY <1>1, CallType
<1>3. /\ agent'.pc = "wait" /\ agent'.via = t /\ th'[t].pc = "read"
      /\ \A u \in Threads \ {t} : th'[u] = th[u]
  BY <1>2 DEF Called
<1>4. ASSUME Undisturbed PROVE OneReport'
  <2>1. \A u \in Threads : ~(Busy(u) /\ th[u].op = "sync")
    BY <1>1, <1>4, OneReportParts
  <2>2. \A u \in Threads : ~AboutToList(u)
    BY <2>1 DEF AboutToList, Busy
  <2>3. \A u \in Threads : ~AboutToList(u)'
    BY <1>3, <2>2 DEF AboutToList
  <2>4. \A u \in Threads : th'[u].pc # "idle" /\ th'[u].op = "sync" => u = t
    BY <1>3, <2>1 DEF Busy
  <2>5. \A d \in Captures \ overtaken : man'[d] = rec'[d].saved
    BY <1>1, <1>4, <2>2, OneReportParts
  <2>6. QED  BY <1>1, <1>3, <2>3, <2>4, <2>5 DEF OneReport, Busy
<1>5. QED  BY <1>1, <1>4 DEF Undisturbed, OneReport

LEMMA ReportStep == ASSUME CaptureInv, Next PROVE OneReport'
<1> USE DEF api, gateway
<1>1. lost \in Nat /\ crashes \in Nat
  BY TypeParts DEF CaptureInv
<1>2. CASE GiveUp \/ AgentKilled
  BY <1>1, <1>2 DEF GiveUp, AgentKilled, OneReport
<1>3. ASSUME Fetch \/ Clear \/ NothingToDo \/ Note \/ KeepRuntime PROVE OneReport'
  <2>1. agent.pc # "wait" /\ UNCHANGED <<rec, man, th, lost, crashes, overtaken>>
    BY <1>3 DEF Fetch, Clear, NothingToDo, Note, KeepRuntime
  <2>2. QED  BY <2>1, ReportKept
<1>4. ASSUME NEW p \in Pids, Launch(p) \/ ProcessStep(p) \/ ProcessFails(p)
      PROVE  OneReport'
  <2>1. /\ UNCHANGED <<rec, man, th, lost, crashes, overtaken>>
        /\ agent' = agent \/ agent.pc # "wait"
    BY <1>4 DEF Launch, ProcessStep, SaveFrame, ProcessEnds, ProcessFails
  <2>2. QED  BY <2>1, ReportKept
<1>5. QED
  BY <1>2, <1>3, <1>4, ReportRequest, ReportThread, ReportCaller DEF Next, AgentStep

-------------------------------------------------------------------------------
(* Copies of manifests.                                                    *)

LEMMA CopiesKept ==
    ASSUME CaptureInv, UNCHANGED <<man, overtaken>>,
           \A u \in Threads : th'[u] = th[u] \/ ~HasRead(u)'
    PROVE  CopiesCurrent'
  BY DEF CaptureInv, CopiesCurrent, HasRead

LEMMA CopiesRequest ==
    ASSUME CaptureInv, NEW c \in Captures,
           CreateCapture(c) \/ \E t \in Threads : StartCapture(t, c) \/ StopCapture(t, c)
    PROVE  CopiesCurrent'
<1>1. CASE CreateCapture(c)
  <2>1. /\ rec[c].status = None /\ UNCHANGED <<th, overtaken>>
        /\ \A d \in Captures \ {c} : man'[d] = man[d]
    BY <1>1, TypeParts DEF CaptureInv, CreateCapture
  <2>2. \A u \in Threads : Busy(u) => th[u].cap \in Captures \ {c}
    BY <2>1, TypeParts DEF CaptureInv, NamesAreKnown
  <2>3. QED  BY <2>1, <2>2 DEF CaptureInv, CopiesCurrent, HasRead, Busy
<1>2. ASSUME NEW t \in Threads, NEW op \in {"start", "stop"}, NEW status, th[t].pc = "idle",
             Decided(t, op, c, status), UNCHANGED <<man, overtaken>>
      PROVE  CopiesCurrent'
  <2>1. th'[t].pc = "update" /\ \A u \in Threads \ {t} : th'[u] = th[u]
    BY <1>2, DecidedThread
  <2>2. QED  BY <1>2, <2>1, CopiesKept DEF HasRead
<1>3. ASSUME NEW t \in Threads, StartCapture(t, c) \/ StopCapture(t, c)
      PROVE  CopiesCurrent'
  BY <1>2, <1>3 DEF StartCapture, StopCapture
<1>4. QED  BY <1>1, <1>3

LEMMA CopiesThread ==
    ASSUME CaptureInv, NEW t \in Threads, ThreadStep(t) PROVE CopiesCurrent'
<1>1. \A u \in Threads : Busy(u) => th[u].cap \in Captures
  BY TypeParts DEF CaptureInv
<1>2. CASE SyncRead(t) \/ Update(t)
  <2>1. /\ th'[t].pc \in {"update", "list"} \/ th'[t].op = "sync"
        /\ \A u \in Threads \ {t} : th'[u] = th[u]
        /\ UNCHANGED <<man, overtaken>>
    BY <1>2, ThreadMoves DEF SyncRead, Update
  <2>2. QED  BY <2>1, CopiesKept DEF HasRead
<1>3. CASE ReadManifest(t)
  <2>1. /\ th'[t].count = man[th[t].cap] /\ th'[t].cap = th[t].cap
        /\ \A u \in Threads \ {t} : th'[u] = th[u]
        /\ UNCHANGED <<man, overtaken>>
    BY <1>3, TypeParts DEF CaptureInv, ReadManifest, ListedFrames, Locals
  <2>2. QED  BY <2>1 DEF CaptureInv, CopiesCurrent, HasRead
<1>4. CASE Manifest(t)
  <2>1. /\ th[t].pc = "manifest" /\ th'[t].pc = "idle"
        /\ \A u \in Threads \ {t} : th'[u] = th[u]
        /\ man'[th[t].cap] = th[t].count
        /\ \A c \in Captures \ {th[t].cap} : man'[c] = man[c]
        /\ overtaken' = IF Lists(t) THEN Overtaken(th[t].cap) ELSE overtaken
    BY <1>1, <1>4, ThreadMoves, TypeParts, Distinct DEF CaptureInv, Manifest, Busy
  <2>2. SUFFICES ASSUME NEW u \in Threads, HasRead(u)'
                 PROVE  th'[u].cap \in overtaken' \/ th'[u].count = man'[th'[u].cap]
    BY DEF CopiesCurrent
  <2>3. u # t /\ th'[u] = th[u] /\ HasRead(u)
    BY <2>1, <2>2 DEF HasRead
  <2>4. th[u].cap \in Captures
    BY <1>1, <2>3 DEF HasRead, Busy
  <2>5. th[u].cap \in overtaken \/ th[u].count = man[th[u].cap]
    BY <2>3 DEF CaptureInv, CopiesCurrent
  <2>6. CASE Lists(t)
    BY <2>1, <2>3, <2>4, <2>5, <2>6 DEF Overtaken
  <2>7. CASE ~Lists(t)
    <3>1. th[t].cap \in overtaken \/ th[t].count = man[th[t].cap]
      BY <2>1, <2>7 DEF CaptureInv, CopiesCurrent, HasRead, Lists
    <3>2. QED  BY <2>1, <2>3, <2>4, <2>5, <2>7, <3>1
  <2>8. QED  BY <2>6, <2>7
<1>5. QED  BY <1>2, <1>3, <1>4 DEF ThreadStep

LEMMA CopiesStep == ASSUME CaptureInv, Next PROVE CopiesCurrent'
<1> USE DEF api, gateway
<1>1. ASSUME NEW t \in Threads, Evict(t) \/ Refuse(t) \/ ReportRunning(t) \/ ReportEnd(t)
      PROVE  CopiesCurrent'
  <2>1. PICK c \in Captures, status \in Status \union {None},
             then \in {"fetch", "clear", "clearDone"} :
          Call(t, c, status, then) /\ UNCHANGED <<man, overtaken>>
    BY <1>1, CallsOfAgent
  <2>2. Called(t, c, status, then)
    BY <2>1, CallType
  <2>3. th'[t].pc = "read" /\ \A u \in Threads \ {t} : th'[u] = th[u]
    BY <2>2 DEF Called
  <2>4. QED  BY <2>1, <2>3, CopiesKept DEF HasRead
<1>2. CASE GiveUp
  <2>1. /\ UNCHANGED <<man, overtaken>>
        /\ th' = th \/ th' = [th EXCEPT ![agent.via] = IdleThread]
    BY <1>2 DEF GiveUp
  <2>2. \A u \in Threads : th'[u] = th[u] \/ ~HasRead(u)'
    BY <2>1, TypeParts DEF CaptureInv, HasRead, IdleThread
  <2>3. QED  BY <2>1, <2>2, CopiesKept
<1>3. ASSUME \/ Fetch \/ Clear \/ NothingToDo \/ Note \/ KeepRuntime \/ AgentKilled
             \/ \E p \in Pids : Launch(p) \/ ProcessStep(p) \/ ProcessFails(p)
      PROVE  CopiesCurrent'
  <2>1. UNCHANGED <<man, th, overtaken>>
    BY <1>3 DEF Fetch, Clear, NothingToDo, Note, KeepRuntime, AgentKilled, Launch,
                ProcessStep, SaveFrame, ProcessEnds, ProcessFails
  <2>2. QED  BY <2>1, CopiesKept
<1>4. QED
  BY <1>1, <1>2, <1>3, CopiesRequest, CopiesThread DEF Next, AgentStep

-------------------------------------------------------------------------------
(* Orphans.                                                                *)

LEMMA OneMore ==
    ASSUME NEW S, NEW x, IsFiniteSet(S)
    PROVE  /\ IsFiniteSet(S \union {x})
           /\ Cardinality(S \union {x}) <= Cardinality(S) + 1
<1>1. Cardinality(S) \in Nat
  BY FS_CardinalityType
<1>2. /\ IsFiniteSet(S \union {x})
      /\ \/ Cardinality(S \union {x}) = Cardinality(S)
         \/ Cardinality(S \union {x}) = Cardinality(S) + 1
  BY FS_AddElement
<1>3. QED  BY <1>1, <1>2

LEMMA OrphansStep == ASSUME CaptureInv, Next PROVE FewOrphans'
<1> USE DEF api, gateway
<1>1. /\ FewOrphans /\ AgentKnowsRuntime /\ crashes \in Nat /\ agent \in Agents
      /\ runtime \in RuntimeFiles /\ proc \in [Pids -> Processes]
  BY TypeParts DEF CaptureInv
<1>2. ASSUME Unnoted' \subseteq Unnoted, crashes' = crashes PROVE FewOrphans'
  <2>1. IsFiniteSet(Unnoted') /\ Cardinality(Unnoted') <= Cardinality(Unnoted)
    BY <1>1, <1>2, FS_Subset DEF FewOrphans
  <2>2. Cardinality(Unnoted) \in Nat /\ Cardinality(Unnoted') \in Nat
    BY <1>1, <2>1, FS_CardinalityType DEF FewOrphans
  <2>3. QED  BY <1>1, <1>2, <2>1, <2>2 DEF FewOrphans
<1>3. CASE AgentKilled
  <2>1. /\ Unnoted' \subseteq Unnoted \union {agent.rt.pid} /\ crashes' = crashes + 1
        /\ runtime' = runtime /\ proc' = proc
    BY <1>3, Distinct DEF AgentKilled, Unnoted, Noted
  <2>2. IsFiniteSet(Unnoted \union {agent.rt.pid})
        /\ Cardinality(Unnoted \union {agent.rt.pid}) <= Cardinality(Unnoted) + 1
    <3>1. IsFiniteSet(Unnoted)
      BY <1>1 DEF FewOrphans
    <3>2. QED  BY <3>1, OneMore
  <2>3. IsFiniteSet(Unnoted')
        /\ Cardinality(Unnoted') <= Cardinality(Unnoted \union {agent.rt.pid})
    BY <2>1, <2>2, FS_Subset
  <2>4. /\ Cardinality(Unnoted) \in Nat /\ Cardinality(Unnoted') \in Nat
        /\ Cardinality(Unnoted \union {agent.rt.pid}) \in Nat
    BY <1>1, <2>2, <2>3, FS_CardinalityType DEF FewOrphans
  <2>5. QED  BY <1>1, <2>1, <2>2, <2>3, <2>4 DEF FewOrphans
<1>4. ASSUME NEW p \in Pids, Launch(p) PROVE FewOrphans'
  <2>1. Unnoted' \subseteq Unnoted
    BY <1>4, Launched DEF Unnoted, Noted
  <2>2. QED  BY <1>2, <1>4, <2>1, Launched
<1>5. CASE ~AgentKilled /\ ~\E p \in Pids : Launch(p)
  <2>1. crashes' = crashes
    BY <1>5
    DEF Next, CreateCapture, StartCapture, StopCapture, ThreadStep, SyncRead, Update,
        ReadManifest, Manifest, AgentStep, Fetch, Clear, NothingToDo, Note, KeepRuntime,
        Evict, Refuse, ReportRunning,
        ReportEnd, GiveUp, ProcessStep, SaveFrame, ProcessEnds, ProcessFails
  <2>2. \A q \in Pids : proc'[q].state = "run" /\ Noted(q) => Noted(q)'
    <3>1. CASE Clear
      <4>1. LettingGo /\ agent.pc # "note"
        BY <3>1 DEF Clear, LettingGo
      <4>2. \A q \in Pids : Noted(q) => proc[q].state # "run"
        BY <1>1, <4>1, ConstantsAssumption DEF AgentKnowsRuntime, Noted
      <4>3. QED  BY <3>1, <4>2 DEF Clear
    <3>2. CASE Note
      <4>1. agent.pc = "note" /\ runtime' = agent.rt
        BY <3>2 DEF Note
      <4>2. runtime.pid = None
        BY <1>1, <4>1, Distinct DEF AgentKnowsRuntime
      <4>3. QED  BY <4>1, <4>2, ConstantsAssumption DEF Noted
    <3>3. CASE ~Clear /\ ~Note
      <4>1. runtime' = runtime
        BY <1>5, <3>3
        DEF Next, CreateCapture, StartCapture, StopCapture, ThreadStep, SyncRead, Update,
            ReadManifest, Manifest, AgentStep, Fetch, NothingToDo, KeepRuntime, Evict, Refuse,
            ReportRunning, ReportEnd, GiveUp, ProcessStep, SaveFrame, ProcessEnds,
            ProcessFails
      <4>2. agent.pc = "note" => agent' = agent
        <5>1. ASSUME NEW t \in Threads, Manifest(t), agent.pc = "note" PROVE agent' = agent
          <6>1. agent.via = None
            BY <1>1, <5>1 DEF AgentKnowsRuntime
          <6>2. QED  BY <5>1, <6>1, ConstantsAssumption, ThreadMoves
        <5>2. QED
          BY <1>5, <3>3, <5>1
          DEF Next, CreateCapture, StartCapture, StopCapture, ThreadStep, SyncRead, Update,
              ReadManifest, AgentStep, Fetch, NothingToDo, KeepRuntime, Evict, Refuse,
              ReportRunning, ReportEnd, GiveUp, ProcessStep, SaveFrame, ProcessEnds, ProcessFails
      <4>3. QED  BY <4>1, <4>2 DEF Noted
    <3>4. QED  BY <3>1, <3>2, <3>3
  <2>3. Unnoted' \subseteq Unnoted
    BY <1>5, <2>2, ProcessMoves DEF Unnoted
  <2>4. QED  BY <1>2, <2>1, <2>3
<1>6. QED  BY <1>3, <1>4, <1>5

-------------------------------------------------------------------------------
LEMMA CaptureInit == Init => CaptureInv
<1> SUFFICES ASSUME Init PROVE CaptureInv
  OBVIOUS
<1>1. [status |-> None, saved |-> 0] \in Records /\ 0 \in 0 .. MaxFrames
  BY ConstantsAssumption DEF Records
<1>2. TypeOK
  BY <1>1, Starts, Distinct, TypeParts DEF Init, Busy
<1>3. NamesAreKnown /\ AgentKnowsRuntime /\ FramesAreThere /\ OneReport /\ CopiesCurrent
  <2>1. \A c \in Captures : rec[c].status = None /\ rec[c].saved = 0 /\ man[c] = 0
    BY DEF Init
  <2>2. /\ \A t \in Threads : ~Busy(t)
        /\ agent = FreshAgent /\ runtime = NoRuntime /\ started = {}
    BY Distinct DEF Init, Busy
  <2>3. NamesAreKnown /\ FramesAreThere /\ OneReport
    <3>1. runtime.cap = None /\ agent.rt.cap = None /\ agent.want = None
      BY <2>2, Distinct
    <3>2. NamesAreKnown
      BY <2>1, <2>2, <3>1, Distinct DEF NamesAreKnown
    <3>3. FramesAreThere
      BY <2>1, <2>2, Distinct DEF FramesAreThere
    <3>4. OneReport
      BY <2>1, <2>2 DEF OneReport, AboutToList, Busy
    <3>5. QED  BY <3>2, <3>3, <3>4
  <2>4. AgentKnowsRuntime
    <3>1. /\ agent.pc = "fetch" /\ agent.then = "fetch" /\ agent.via = None
          /\ agent.rt = NoRuntime /\ runtime.pid = None /\ runtime = NoRuntime
      BY <2>2, Distinct
    <3>2. QED  BY <3>1 DEF AgentKnowsRuntime, LettingGo
  <2>5. CopiesCurrent
    BY <2>2 DEF CopiesCurrent, HasRead, Busy
  <2>6. QED  BY <2>3, <2>4, <2>5
<1>4. OnlyStartedIsCaptured /\ Unnoted = {}
  BY DEF Init, OnlyStartedIsCaptured, Unnoted, NoProcess
<1>5. FewOrphans
  BY <1>4, FS_EmptySet DEF Init, FewOrphans
<1>6. QED  BY <1>2, <1>3, <1>4, <1>5 DEF CaptureInv

LEMMA CaptureNext == CaptureInv /\ [Next]_vars => CaptureInv'
<1>1. ASSUME CaptureInv, Next PROVE CaptureInv'
  BY <1>1, TypeStep, NamesStep, AgentKnowsStep, StartedStep, FramesStep, ReportStep,
     CopiesStep, OrphansStep DEF CaptureInv
<1>2. ASSUME CaptureInv, UNCHANGED vars PROVE CaptureInv'
  BY <1>2
  DEF vars, api, gateway, CaptureInv, TypeOK, NamesAreKnown, AgentKnowsRuntime, LettingGo,
      OnlyStartedIsCaptured, FramesAreThere, OneReport, AboutToList, CopiesCurrent, HasRead,
      FewOrphans, Unnoted, Noted, Busy
<1>3. QED  BY <1>1, <1>2

LEMMA CaptureInvariant == Spec => []CaptureInv
  BY CaptureInit, CaptureNext, PTL DEF Spec

(* The types of the records, of the agent and of the gateway.              *)
THEOREM CaptureTypeCorrect == Spec => []TypeOK
<1>1. CaptureInv => TypeOK
  BY DEF CaptureInv
<1>2. QED  BY <1>1, CaptureInvariant, PTL

(* However many captures, threads and faults: there are never more capture *)
(* processes that the runtime file does not know than kills of the agent.  *)
THEOREM OnlyKillsLeaveOrphans == Spec => []OnlyKillsOrphan
<1>1. CaptureInv => OnlyKillsOrphan
  BY DEF CaptureInv, FewOrphans, OnlyKillsOrphan
<1>2. QED  BY <1>1, CaptureInvariant, PTL

(* A process captures only what a request has started.                     *)
THEOREM CapturesAreStarted == Spec => []OnlyStartedIsCaptured
<1>1. CaptureInv => OnlyStartedIsCaptured
  BY DEF CaptureInv
<1>2. QED  BY <1>1, CaptureInvariant, PTL

(* A COMPLETED capture has its frames on the gateway, for any number of    *)
(* captures, threads and processes, and after any losses and kills.        *)
THEOREM CompletedCapturesHaveFrames == Spec => []CompletedHasAllFrames
<1>1. CaptureInv => CompletedHasAllFrames
  BY DEF CaptureInv, FramesAreThere, CompletedHasAllFrames
<1>2. QED  BY <1>1, CaptureInvariant, PTL

(* Without losses and kills a manifest lists what its record counts once   *)
(* the API is at rest, unless a start or a stop wrote back an older list.  *)
THEOREM OnlyOvertakenManifestsAreStale == Spec => []ManifestIsCurrent
<1>1. CaptureInv => ManifestIsCurrent
  BY DEF CaptureInv, OneReport, AboutToList, ManifestIsCurrent, AtRest
<1>2. QED  BY <1>1, CaptureInvariant, PTL
===============================================================================
