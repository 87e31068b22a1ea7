----------------------------- MODULE CaptureSync -----------------------------
(***************************************************************************)
(* Captures of HDMI frames on one gateway.  Clients create, start and stop *)
(* captures through the API (CaptureManager).  The gateway agent on the    *)
(* Raspberry Pi polls for the capture that should run, keeps one ffmpeg    *)
(* process for it, notes it in a runtime file and reports progress, POST   *)
(* /captures/{id}/sync.  A call of the agent may be lost, or be given up   *)
(* while the API goes on handling it.  A request's reads of records are    *)
(* one step; CaptureStore.update is one step (RunControl has the splits of *)
(* such an update); reading a manifest and writing it are a step each.     *)
(***************************************************************************)
EXTENDS Naturals, FiniteSets

CONSTANTS
    MaxCaptures,    \* bound: how many captures are created
    Unsupported,    \* captures whose save_format is neither jpg nor png
    Threads,        \* API threads
    Pids,           \* process ids on the gateway
    MaxFrames,      \* max_frames of every capture
    MaxFaults,      \* bound: calls of the agent that are given up, and kills of it
    None

Captures == 1 .. MaxCaptures        \* in the order of created_at

Final == {"STOPPED", "CANCELED", "COMPLETED", "FAILED"}
Status == Final \union {"CREATED", "RUNNING"}

ASSUME ConstantsAssumption ==
    /\ MaxCaptures \in Nat /\ MaxFrames \in Nat \ {0}
    /\ MaxFaults \in Nat
    /\ Unsupported \subseteq Captures
    /\ None \notin Captures \union Threads \union Pids /\ None \notin Status

VARIABLES
    rec,        \* the record of each capture: status and saved_frames
    man,        \* how many frames the manifest lists
    th,         \* program counter and locals of each API thread
    agent,      \* program counter and locals of the agent
    runtime,    \* the runtime file: capture and pid
    proc,       \* the capture processes of the gateway
    frames,     \* how many files each save_dir holds
    lost,       \* how many calls were given up
    crashes,    \* how often the agent was killed
    started,    \* history: captures that some request has started
    overtaken   \* history: captures reported between a request's read and its write of
                \* the manifest

api == <<rec, man, th>>
gateway == <<runtime, proc, frames>>
vars == <<api, agent, gateway, lost, crashes, started, overtaken>>

NoRuntime == [cap |-> None, pid |-> None]
IdleThread == [pc |-> "idle", op |-> "none", cap |-> None, status |-> None, count |-> 0]
FreshAgent == [pc |-> "fetch", rt |-> NoRuntime, want |-> None, via |-> None, then |-> "fetch"]
NoProcess == [state |-> "none", cap |-> None, written |-> 0]

Init ==
    /\ rec = [c \in Captures |-> [status |-> None, saved |-> 0]]
    /\ man = [c \in Captures |-> 0]
    /\ th = [t \in Threads |-> IdleThread]
    /\ agent = FreshAgent
    /\ runtime = NoRuntime
    /\ proc = [p \in Pids |-> NoProcess]
    /\ frames = [c \in Captures |-> 0]
    /\ lost = 0 /\ crashes = 0 /\ started = {} /\ overtaken = {}

Running == {c \in Captures : rec[c].status = "RUNNING"}

-------------------------------------------------------------------------------
(* Requests of clients.                                                    *)

CreateCapture(c) ==
    /\ rec[c].status = None
    /\ \A d \in Captures : d < c => rec[d].status # None
    /\ rec' = [rec EXCEPT ![c] = [status |-> "CREATED", saved |-> 0]]
    /\ man' = [man EXCEPT ![c] = 0]
    /\ UNCHANGED <<th, agent, gateway, lost, crashes, started, overtaken>>

Decided(t, op, c, status) ==
    th' = [th EXCEPT ![t] = [IdleThread EXCEPT !.pc = "update", !.op = op, !.cap = c,
                                               !.status = status]]

StartCapture(t, c) ==
    /\ th[t].pc = "idle"
    /\ rec[c].status = "CREATED"
    /\ Running \ {c} = {}
    /\ Decided(t, "start", c, "RUNNING")
    /\ started' = started \union {c}
    /\ UNCHANGED <<rec, man, agent, gateway, lost, crashes, overtaken>>

StopTarget(c) == IF rec[c].status = "CREATED" THEN "CANCELED" ELSE "STOPPED"

StopCapture(t, c) ==
    /\ th[t].pc = "idle"
    /\ rec[c].status \in {"CREATED", "RUNNING"}
    /\ Decided(t, "stop", c, StopTarget(c))
    /\ UNCHANGED <<rec, man, agent, gateway, lost, crashes, started, overtaken>>

(* sync_capture reads the status first when the agent sent none.           *)
SyncRead(t) ==
    /\ th[t].pc = "read"
    /\ th' = [th EXCEPT ![t].pc = "update",
                        ![t].status = IF @ = None THEN rec[th[t].cap].status ELSE @]
    /\ UNCHANGED <<rec, man, agent, gateway, lost, crashes, started, overtaken>>

(* A sync brings the frames it writes; start and stop read them.           *)
Update(t) ==
    /\ th[t].pc = "update"
    /\ rec' = [rec EXCEPT ![th[t].cap] =
                  [status |-> th[t].status,
                   saved |-> IF th[t].op = "sync" THEN th[t].count ELSE @.saved]]
    /\ th' = [th EXCEPT ![t].pc = IF th[t].op = "sync" THEN "manifest" ELSE "list"]
    /\ UNCHANGED <<man, agent, gateway, lost, crashes, started, overtaken>>

ForgottenFrames(t) == 0                                     \* mutant: a manifest without frames
ListedFrames(t) == man[th[t].cap]

ReadManifest(t) ==
    /\ th[t].pc = "list"
    /\ th' = [th EXCEPT ![t].pc = "manifest", ![t].count = ListedFrames(t)]
    /\ UNCHANGED <<rec, man, agent, gateway, lost, crashes, started, overtaken>>

Answered ==
    IF agent.then = "fetch" THEN FreshAgent
    ELSE [agent EXCEPT !.pc = agent.then, !.via = None, !.then = "fetch"]

(* A start or stop that has read a manifest and will write it back.  A     *)
(* report overtakes it by listing other frames than it has read.           *)
HasRead(t) == th[t].pc = "manifest" /\ th[t].op # "sync"
Lists(t) == th[t].op = "sync" /\ th[t].count # man[th[t].cap]
Overtaken(c) ==
    IF \E t \in Threads : HasRead(t) /\ th[t].cap = c THEN overtaken \union {c}
    ELSE overtaken \ {c}

(* The manifest is written and the request answered.                       *)
Manifest(t) ==
    /\ th[t].pc = "manifest"
    /\ man' = [man EXCEPT ![th[t].cap] = th[t].count]
    /\ overtaken' = IF Lists(t) THEN Overtaken(th[t].cap) ELSE overtaken
    /\ th' = [th EXCEPT ![t] = IdleThread]
    /\ agent' = IF agent.via = t THEN Answered ELSE agent
    /\ UNCHANGED <<rec, gateway, lost, crashes, started>>

-------------------------------------------------------------------------------
(* The agent: reconcile_capture_runtime, again and again.                  *)

Fetched == Running

Oldest(S) == IF S = {} THEN None ELSE CHOOSE c \in S : \A d \in S : c <= d

Fetch ==
    /\ agent.pc = "fetch"
    /\ agent' = [agent EXCEPT !.pc = "compare", !.rt = runtime, !.want = Oldest(Fetched)]
    /\ UNCHANGED <<api, gateway, lost, crashes, started, overtaken>>

Alive(rt) == rt.pid # None /\ proc[rt.pid].state # "none"

(* sync_capture_progress: the frames are counted, the call is sent, and    *)
(* the agent waits for the answer.                                         *)
Call(t, c, status, then) ==
    /\ th[t].pc = "idle"
    /\ th' = [th EXCEPT ![t] = [pc |-> "read", op |-> "sync", cap |-> c,
                                status |-> status, count |-> frames[c]]]
    /\ agent' = [agent EXCEPT !.pc = "wait", !.via = t, !.then = then]

(* The process of a capture that should not run any more is told to stop   *)
(* and not waited for; its progress is reported without a status.          *)
Evict(t) ==
    /\ agent.pc = "compare"
    /\ agent.rt # NoRuntime /\ agent.rt.cap # agent.want
    /\ Call(t, agent.rt.cap, None, "clear")
    /\ proc' = IF Alive(agent.rt) THEN [proc EXCEPT ![agent.rt.pid].state = "told"] ELSE proc
    /\ UNCHANGED <<rec, man, runtime, frames, lost, crashes, started, overtaken>>

Clear ==
    /\ agent.pc \in {"clear", "clearDone"}
    /\ runtime' = NoRuntime
    /\ agent' = IF agent.pc = "clear" THEN [agent EXCEPT !.pc = "compare", !.rt = NoRuntime]
                ELSE FreshAgent
    /\ UNCHANGED <<api, proc, frames, lost, crashes, started, overtaken>>

NothingToDo ==
    /\ agent.pc = "compare"
    /\ agent.rt = NoRuntime /\ agent.want = None
    /\ agent' = FreshAgent
    /\ UNCHANGED <<api, gateway, lost, crashes, started, overtaken>>

Refuse(t) ==
    /\ agent.pc = "compare"
    /\ agent.rt = NoRuntime /\ agent.want \in Unsupported
    /\ Call(t, agent.want, "FAILED", "fetch")
    /\ UNCHANGED <<rec, man, gateway, lost, crashes, started, overtaken>>

LaunchableAgain == agent.want # None                                   \* mutant: runtime ignored
Launchable == agent.rt = NoRuntime /\ agent.want # None

Launch(p) ==
    /\ agent.pc = "compare"
    /\ Launchable
    /\ agent.want \notin Unsupported
    /\ proc[p].state = "none"
    /\ proc' = [proc EXCEPT ![p] = [state |-> "run", cap |-> agent.want, written |-> 0]]
    /\ agent' = [agent EXCEPT !.pc = "note", !.rt = [cap |-> agent.want, pid |-> p]]
    /\ UNCHANGED <<api, runtime, frames, lost, crashes, started, overtaken>>

Note ==
    /\ agent.pc = "note"
    /\ runtime' = agent.rt
    /\ agent' = [agent EXCEPT !.pc = "report", !.want = None]
    /\ UNCHANGED <<api, proc, frames, lost, crashes, started, overtaken>>

KeepRuntime ==
    /\ agent.pc = "compare"
    /\ agent.rt # NoRuntime /\ agent.rt.cap = agent.want
    /\ agent' = [agent EXCEPT !.pc = "report", !.want = None]
    /\ UNCHANGED <<api, gateway, lost, crashes, started, overtaken>>

NearlyEnough(c) == frames[c] + 1 >= MaxFrames                          \* mutant: off by one
Enough(c) == frames[c] >= MaxFrames

ReportRunning(t) ==
    /\ agent.pc = "report"
    /\ Alive(agent.rt)
    /\ Call(t, agent.rt.cap, "RUNNING", "fetch")
    /\ UNCHANGED <<rec, man, gateway, lost, crashes, started, overtaken>>

ReportSilent(c) == None                                                \* mutant: status left out
ReportedEnd(c) == IF Enough(c) THEN "COMPLETED" ELSE "FAILED"

ReportEnd(t) ==
    /\ agent.pc = "report"
    /\ ~Alive(agent.rt)
    /\ Call(t, agent.rt.cap, ReportedEnd(agent.rt.cap), "clearDone")
    /\ UNCHANGED <<rec, man, gateway, lost, crashes, started, overtaken>>

(* A RuntimeError: the fetch fails, or the agent waits no longer for an    *)
(* answer and the thread goes on, or the call never reaches the API.       *)
GiveUp ==
    /\ agent.pc \in {"fetch", "wait"}
    /\ lost + crashes < MaxFaults
    /\ lost' = lost + 1
    /\ agent' = FreshAgent
    /\ th' \in IF agent.pc = "wait" /\ th[agent.via].pc = "read"
               THEN {th, [th EXCEPT ![agent.via] = IdleThread]}
               ELSE {th}
    /\ UNCHANGED <<rec, man, gateway, crashes, started, overtaken>>

(* The agent is killed, or an exception other than RuntimeError ends it,   *)
(* and it is started again; the processes of its sessions go on.           *)
AgentKilled ==
    /\ lost + crashes < MaxFaults
    /\ crashes' = crashes + 1
    /\ agent' = FreshAgent
    /\ UNCHANGED <<api, gateway, lost, started, overtaken>>

-------------------------------------------------------------------------------
(* The capture process: ffmpeg overwrites the frames of an earlier one and *)
(* exits after MaxFrames, or when it is told to, or because of an error.   *)
(* It has ended when it is reaped, which the agent does when it collects   *)
(* the next metrics: until then os.kill(pid, 0) finds it.                  *)

Larger(m, n) == IF m < n THEN n ELSE m

SaveFrame(p) ==
    /\ proc[p].state # "none"
    /\ proc[p].written < MaxFrames
    /\ proc' = [proc EXCEPT ![p].written = @ + 1]
    /\ frames' = [frames EXCEPT ![proc[p].cap] = Larger(@, proc[p].written + 1)]
    /\ UNCHANGED <<api, agent, runtime, lost, crashes, started, overtaken>>

ProcessEnds(p) ==
    /\ proc[p].state = "told" \/ proc[p].written = MaxFrames
    /\ proc' = [proc EXCEPT ![p] = NoProcess]
    /\ UNCHANGED <<api, agent, runtime, frames, lost, crashes, started, overtaken>>

ProcessFails(p) ==
    /\ proc[p].state = "run"
    /\ proc' = [proc EXCEPT ![p] = NoProcess]
    /\ UNCHANGED <<api, agent, runtime, frames, lost, crashes, started, overtaken>>

-------------------------------------------------------------------------------
ThreadStep(t) == SyncRead(t) \/ Update(t) \/ ReadManifest(t) \/ Manifest(t)

AgentStep ==
    \/ Fetch \/ Clear \/ NothingToDo \/ Note \/ KeepRuntime
    \/ \E t \in Threads : Evict(t) \/ Refuse(t) \/ ReportRunning(t) \/ ReportEnd(t)
    \/ \E p \in Pids : Launch(p)

ProcessStep(p) == SaveFrame(p) \/ ProcessEnds(p)

Next ==
    \/ \E c \in Captures :
        \/ CreateCapture(c)
        \/ \E t \in Threads : StartCapture(t, c) \/ StopCapture(t, c)
    \/ \E t \in Threads : ThreadStep(t)
    \/ AgentStep \/ GiveUp \/ AgentKilled
    \/ \E p \in Pids : ProcessStep(p) \/ ProcessFails(p)

Spec == Init /\ [][Next]_vars

Fairness ==
    /\ \A t \in Threads : WF_vars(ThreadStep(t))
    /\ WF_vars(AgentStep)
    /\ \A p \in Pids : WF_vars(ProcessStep(p))

FairSpec == Spec /\ Fairness
-------------------------------------------------------------------------------
(* Properties.                                                             *)

TypeOK ==
    /\ rec \in [Captures -> [status: Status \union {None}, saved: 0 .. MaxFrames]]
    /\ man \in [Captures -> 0 .. MaxFrames]
    /\ th \in [Threads -> [pc: {"idle", "read", "update", "list", "manifest"},
                           op: {"none", "start", "stop", "sync"},
                           cap: Captures \union {None}, status: Status \union {None},
                           count: 0 .. MaxFrames]]
    /\ \A t \in Threads : th[t].pc # "idle" => th[t].cap \in Captures
    /\ agent \in [pc: {"fetch", "compare", "clear", "clearDone", "note", "report", "wait"},
                  rt: [cap: Captures \union {None}, pid: Pids \union {None}],
                  want: Captures \union {None}, via: Threads \union {None},
                  then: {"fetch", "clear", "clearDone"}]
    /\ agent.pc = "wait" => agent.via \in Threads
    /\ runtime \in [cap: Captures \union {None}, pid: Pids \union {None}]
    /\ proc \in [Pids -> [state: {"none", "run", "told"}, cap: Captures \union {None},
                          written: 0 .. MaxFrames]]
    /\ frames \in [Captures -> 0 .. MaxFrames]
    /\ lost \in Nat /\ crashes \in Nat /\ started \subseteq Captures
    /\ overtaken \subseteq Captures

(* Every capture process that nobody has told to stop is in the runtime    *)
(* file, or about to be noted there; only a kill of the agent between the  *)
(* two makes an orphan.  Without kills one process at a time uses the      *)
(* video device as far as the agent decides it.                            *)
Noted(p) == runtime.pid = p \/ (agent.pc = "note" /\ agent.rt.pid = p)
Unnoted == {p \in Pids : proc[p].state = "run" /\ ~Noted(p)}
OnlyKillsOrphan == Cardinality(Unnoted) <= crashes

(* A process captures only what a request has started, whatever the agent  *)
(* fetched and however late its reports arrive.                            *)
OnlyStartedIsCaptured ==
    \A p \in Pids : proc[p].state # "none" => proc[p].cap \in started

(* A capture that is reported COMPLETED has all its frames on the gateway, *)
(* whoever stops it, and whatever reports come late.                       *)
CompletedHasAllFrames ==
    \A c \in Captures : rec[c].status = "COMPLETED" => frames[c] = MaxFrames

(* As long as the agent has not given up a call, the manifest of a capture *)
(* lists the frames that its record counts, once no request is being       *)
(* handled: unless the last report that listed frames did so while a start *)
(* or a stop had read the manifest and was about to write it back.         *)
AtRest == lost = 0 /\ crashes = 0 /\ \A t \in Threads : th[t].pc = "idle"
ManifestIsCurrent ==
    AtRest => \A c \in Captures \ overtaken : man[c] = rec[c].saved

(* A running capture does not run for ever: it completes, fails or is      *)
(* stopped, and the agent says so, lost calls and kills notwithstanding.   *)
RunningCaptureEnds ==
    \A c \in Captures : rec[c].status = "RUNNING" ~> rec[c].status # "RUNNING"
===============================================================================
