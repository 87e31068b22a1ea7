------------------------- MODULE BenchmarkTaskProofs -------------------------
(***************************************************************************)
(* What BenchmarkTask guarantees for any number of tasks, runs, requests   *)
(* and threads, and any catalogue.                                         *)
(***************************************************************************)
EXTENDS BenchmarkTask, FiniteSetTheorems, SequenceTheorems, TLAPS

IsList(s) == s \in Seq(ToSet(s))

Different(s) == \A i, j \in DOMAIN s : s[i] = s[j] => i = j

(* What no step of anybody takes back.                                     *)
Settled(record) ==
    record.status \in Terminal \/ (record.status = "WORKING" /\ record.cancel)

Begun(r) == run[r].status \notin {"ABSENT", "CREATED"}

RunsOf(k) == task[k].runs

Repeats(entry, mode) ==
    /\ Accepted(ReplayRow(entry, mode))
    /\ Configuration(Entry(ReplayRow(entry, mode))) = Configuration(entry)

(* Locals and tasks are records of their fields, whatever those hold.      *)
IsLocal(l) ==
    l \in [pc : Pc, then : {l.then}, task : {l.task}, source : {l.source}, rows : {l.rows},
           mode : {l.mode}, auto : BOOLEAN, runs : Seq(Runs), seen : Seq(RunStatus),
           index : Nat \ {0}, handled : BOOLEAN]

IsTask(k) ==
    k \in [runs : Seq(Runs), matrix : {k.matrix}, mode : {k.mode}]

Shape ==
    /\ run \in [Runs -> [status : RunStatus, cancel : BOOLEAN]]
    /\ th = [t \in Threads |-> th[t]] /\ \A t \in Threads : IsLocal(th[t])
    /\ task = [k \in Tasks |-> task[k]] /\ \A k \in Tasks : IsTask(task[k])
    /\ report \in [Tasks -> Verdicts \union {None}]
    /\ held \in [Threads -> SUBSET TaskStatus]
    /\ Used = 1 .. Cardinality(Used) /\ Cardinality(Used) \in Nat

(* A stored task names runs that exist, each once, and its matrix can be   *)
(* repeated.                                                               *)
TasksOK ==
    \A k \in Stored :
        /\ ToSet(RunsOf(k)) \subseteq Used /\ Different(RunsOf(k))
        /\ IsList(task[k].matrix) /\ Len(task[k].matrix) = Len(RunsOf(k))
        /\ \A i \in DOMAIN task[k].matrix : Repeats(task[k].matrix[i], task[k].mode)

(* What a request that creates has made so far belongs to accepted rows.   *)
Creator(t) ==
    /\ IsList(th[t].rows) /\ th[t].rows # <<>> /\ Len(th[t].runs) <= Len(th[t].rows)
    /\ \A i \in 1 .. Len(th[t].runs) : Accepted(th[t].rows[i])
    /\ ToSet(th[t].runs) \subseteq Used /\ Different(th[t].runs)
    /\ th[t].source # None =>
            LET of == task[th[t].source]
            IN  /\ th[t].source \in Stored
                /\ th[t].rows = [i \in DOMAIN of.matrix |-> ReplayRow(of.matrix[i], of.mode)]

(* What a stop has passed is settled.                                      *)
Stopper(t) ==
    /\ th[t].task \in Stored /\ th[t].index <= Len(RunsOf(th[t].task)) + 1
    /\ th[t].pc = "cancel" => th[t].index <= Len(RunsOf(th[t].task))
    /\ \A i \in 1 .. th[t].index - 1 : Settled(run[RunsOf(th[t].task)[i]])

(* What a reader has seen of a run that has ended is so still, and what it *)
(* has seen begun has.                                                     *)
SeenStays(t) ==
    \A i \in DOMAIN th[t].seen :
        LET r == RunsOf(th[t].task)[i]
        IN  /\ th[t].seen[i] # "ABSENT"
            /\ th[t].seen[i] \in Terminal => run[r].status = th[t].seen[i]
            /\ th[t].seen[i] # "CREATED" => Begun(r)

Unread(t) == Len(th[t].seen) + 1 .. Len(RunsOf(th[t].task))
AllSeenCreated(t) == \A i \in DOMAIN th[t].seen : th[t].seen[i] = "CREATED"
NothingBegun(k) == \A i \in DOMAIN RunsOf(k) : run[RunsOf(k)[i]].status = "CREATED"

(* Who has seen only CREATED: the task was, or an unread run has begun.    *)
CreatedWasTrue(t) ==
    th[t].seen # <<>> /\ AllSeenCreated(t) =>
        \/ "CREATED" \in held[t]
        \/ \E i \in Unread(t) : Begun(RunsOf(th[t].task)[i])

(* Who has seen a run that had not ended: the task was running, or has not *)
(* begun; the only run of a task may go past that.                         *)
RunningWasTrue(t) ==
    (\E i \in DOMAIN th[t].seen : th[t].seen[i] \notin Terminal) =>
        \/ "RUNNING" \in held[t] \union {TrueStatus(th[t].task)}
        \/ NothingBegun(th[t].task)
        \/ Len(RunsOf(th[t].task)) = 1 /\ AllSeenCreated(t)

Reader(t) ==
    /\ th[t].task \in Stored /\ Len(th[t].seen) <= Len(RunsOf(th[t].task))
    /\ th[t].pc = "report" => Len(th[t].seen) = Len(RunsOf(th[t].task))
    /\ SeenStays(t)
    /\ th[t].pc = "sync" => CreatedWasTrue(t) /\ RunningWasTrue(t)

ThreadOK(t) ==
    /\ th[t].pc = "rows" => Creator(t)
    /\ th[t].pc \in {"look", "cancel"} => Stopper(t)
    /\ th[t].pc \in {"sync", "report"} => Reader(t)

StoppedOK == stopped \subseteq Stored /\ \A k \in stopped : \A r \in ToSet(RunsOf(k)) : Settled(run[r])

ReportsOK ==
    \A k \in Tasks : report[k] # None =>
        /\ k \in Stored /\ report[k] = TrueStatus(k)
        /\ \A r \in ToSet(RunsOf(k)) : run[r].status \in Terminal

BenchInv ==
    Shape /\ TasksOK /\ (\A t \in Threads : ThreadOK(t)) /\ StoppedOK /\ ReportsOK

-------------------------------------------------------------------------------
(* The operators.                                                          *)

(* A function on the domain of a list is a list of the same length.        *)
LEMMA SameDomain ==
    ASSUME NEW s, IsList(s), NEW g, g = [i \in DOMAIN s |-> g[i]]
    PROVE  IsList(g) /\ Len(g) = Len(s) /\ DOMAIN g = DOMAIN s /\ DOMAIN s = 1 .. Len(s)
           /\ Len(s) \in Nat
<1>1. DOMAIN s = 1 .. Len(s) /\ Len(s) \in Nat
  BY LenProperties DEF IsList
<1>2. g \in [1 .. Len(s) -> ToSet(g)]
  BY <1>1 DEF ToSet
<1>3. IsList(g)
  BY <1>1, <1>2, SeqDef DEF IsList
<1>4. DOMAIN g = 1 .. Len(g) /\ Len(g) \in Nat
  BY <1>3, LenProperties DEF IsList
<1>5. DOMAIN g = 1 .. Len(s)
  BY <1>2
<1>6. Len(g) = Len(s)
  BY <1>1, <1>4, <1>5
<1>7. QED  BY <1>1, <1>3, <1>5, <1>6

(* An entry that an accepted row has left can be repeated, in every mode.  *)
LEMMA EntriesRepeat ==
    ASSUME NEW row, Accepted(row), NEW mode
    PROVE  Repeats(Entry(row), mode)
<1> DEFINE e == Entry(row)
           r == ReplayRow(e, mode)
           f == Entry(r)
           template == Catalog[row.scenario]
<1>1. /\ e.scenario = row.scenario /\ e.map = OrElse(row.map, template.map)
      /\ e.env = OrElse(row.env, "scenario_default")
      /\ e.sensor = OrElse(OrElse(row.sensor, template.sensor), "disabled")
      /\ e.requested = row.timeout
      /\ e.timeout = OrElse(OrElse(row.timeout, template.timeout), 30)
  BY DEF Entry
<1>2. /\ r.scenario = e.scenario /\ r.map = e.map
      /\ e.env = "scenario_default" => r.env = None
      /\ e.env # "scenario_default" => r.env = e.env
      /\ e.sensor = "disabled" => r.sensor = None
      /\ e.sensor # "disabled" => r.sensor = e.sensor
      /\ e.requested # None => r.timeout = e.requested
      /\ r.timeout = e.timeout \/ r.timeout = e.requested
  BY DEF ReplayRow
<1>3. /\ f.scenario = r.scenario /\ f.map = OrElse(r.map, template.map)
      /\ f.env = OrElse(r.env, "scenario_default")
      /\ f.sensor = OrElse(OrElse(r.sensor, template.sensor), "disabled")
      /\ f.timeout = OrElse(OrElse(r.timeout, template.timeout), 30)
  BY <1>1, <1>2 DEF Entry
<1>4. /\ e = [scenario |-> e.scenario, map |-> e.map, env |-> e.env, sensor |-> e.sensor,
              requested |-> e.requested, timeout |-> e.timeout]
      /\ f = [scenario |-> f.scenario, map |-> f.map, env |-> f.env, sensor |-> f.sensor,
              requested |-> f.requested, timeout |-> f.timeout]
  BY DEF Entry
<1> HIDE DEF e, r, f
<1>5. row.env \in Presets \union {None} /\ row.scenario \in DOMAIN Catalog
      /\ (row.sensor \in {None, template.sensor} \/ (template.editable /\ row.sensor \in Profiles))
  BY DEF Accepted
<1>6. f.scenario = e.scenario /\ f.map = e.map
  BY <1>1, <1>2, <1>3 DEF OrElse
<1>7. f.env = e.env /\ r.env \in Presets \union {None}
  BY <1>1, <1>2, <1>3, <1>5, ConstantsAssumption DEF OrElse
<1>8. f.sensor = e.sensor
      /\ (r.sensor \in {None, template.sensor} \/ (template.editable /\ r.sensor \in Profiles))
  BY <1>1, <1>2, <1>3, <1>5, ConstantsAssumption DEF OrElse
<1>9. f.timeout = e.timeout
  BY <1>1, <1>2, <1>3 DEF OrElse
<1>10. Accepted(r)
  BY <1>1, <1>2, <1>5, <1>7, <1>8 DEF Accepted
<1>11. Configuration(f) = Configuration(e)
  BY <1>4, <1>6, <1>7, <1>8, <1>9 DEF Configuration
<1>12. QED  BY <1>10, <1>11 DEF Repeats, e, r, f

Statuses(runs, state) == {state[runs[i]].status : i \in DOMAIN runs}

(* The derived status and the true one, case by case.                      *)
LEMMA DeriveCases ==
    ASSUME NEW S \in SUBSET (RunStatus \ {"ABSENT"}), S # {}
    PROVE  /\ S = {"CREATED"} => Derive(S) = "CREATED"
           /\ S # {"CREATED"} /\ ~ S \subseteq Terminal => Derive(S) = "RUNNING"
           /\ S \subseteq Terminal => Derive(S) \in Verdicts
           /\ \A s \in Terminal : S = {s} => Derive(S) = s
           /\ S \subseteq Terminal /\ (\A s \in Terminal : S # {s}) =>
                  Derive(S) = "PARTIAL_FAILED"
<1>1. CASE S = {"CREATED"}
  BY <1>1 DEF Derive, Terminal
<1>2. CASE S # {"CREATED"} /\ ~ S \subseteq Terminal
  <2>1. S \intersect {"CREATED", "QUEUED", "WORKING"} # {}
    BY <1>2 DEF RunStatus, Terminal
  <2>2. \A s \in Terminal : S # {s}
    BY <1>2
  <2>3. QED  BY <1>2, <2>1, <2>2 DEF Derive
<1>3. CASE S \subseteq Terminal
  <2>1. S # {"CREATED"} /\ S \intersect {"CREATED", "QUEUED", "WORKING"} = {}
    BY <1>3 DEF Terminal
  <2>2. CASE \E s \in Terminal : S = {s}
    <3>1. PICK s \in Terminal : S = {s}
      BY <2>2
    <3>2. Derive(S) = s
      BY <2>1, <3>1 DEF Derive, Terminal
    <3>3. \A u \in Terminal : S = {u} => u = s
      BY <3>1
    <3>4. QED  BY <1>3, <2>1, <3>1, <3>2, <3>3 DEF Verdicts
  <2>3. CASE ~ \E s \in Terminal : S = {s}
    <3>1. Derive(S) = "PARTIAL_FAILED"
      BY <2>1, <2>3 DEF Derive, Terminal
    <3>2. QED  BY <1>3, <2>1, <2>3, <3>1 DEF Verdicts
  <2>4. QED  BY <2>2, <2>3
<1>4. QED  BY <1>1, <1>2, <1>3

LEMMA TruthCases ==
    ASSUME NEW runs, NEW state, DOMAIN runs # {}
    PROVE  LET S == Statuses(runs, state)
           IN  /\ S = {"CREATED"} => Truth(runs, state) = "CREATED"
               /\ S # {"CREATED"} /\ ~ S \subseteq Terminal => Truth(runs, state) = "RUNNING"
               /\ \A s \in Terminal : S = {s} => Truth(runs, state) = s
               /\ S \subseteq Terminal /\ (\A s \in Terminal : S # {s}) =>
                      Truth(runs, state) = "PARTIAL_FAILED"
               /\ S # {}
<1> DEFINE S == Statuses(runs, state)
<1>1. Truth(runs, state) =
        IF S = {"CREATED"} THEN "CREATED"
        ELSE IF ~ S \subseteq Terminal THEN "RUNNING"
        ELSE IF Cardinality(S) = 1 THEN CHOOSE s \in S : TRUE
        ELSE "PARTIAL_FAILED"
  BY DEF Truth, Statuses
<1>2. S # {}
  BY DEF Statuses
<1> HIDE DEF S
<1>3. ASSUME NEW s \in Terminal, S = {s} PROVE Truth(runs, state) = s
  <2>1. Cardinality(S) = 1
    BY <1>3, FS_Singleton
  <2>2. S # {"CREATED"} /\ S \subseteq Terminal
    BY <1>3 DEF Terminal
  <2>3. (CHOOSE u \in S : TRUE) = s
    BY <1>3
  <2>4. QED  BY <1>1, <2>1, <2>2, <2>3
<1>4. ASSUME S \subseteq Terminal, \A s \in Terminal : S # {s}
      PROVE  Truth(runs, state) = "PARTIAL_FAILED"
  <2>1. IsFiniteSet(Terminal)
    <3>1. Terminal = {"COMPLETED"} \union {"FAILED"} \union {"CANCELED"}
      BY DEF Terminal
    <3>2. QED  BY <3>1, FS_Singleton, FS_AddElement
  <2>2. IsFiniteSet(S)
    BY <1>4, <2>1, FS_Subset
  <2>3. Cardinality(S) # 1
    BY <1>2, <1>4, <2>2, FS_Singleton
  <2>4. S # {"CREATED"}
    BY <1>4 DEF Terminal
  <2>5. QED  BY <1>1, <1>4, <2>3, <2>4
<1>5. QED  BY <1>1, <1>2, <1>3, <1>4 DEF S

(* Nothing else: what is derived from the statuses is what they mean.      *)
LEMMA DeriveIsTruth ==
    ASSUME NEW runs, NEW state, DOMAIN runs # {},
           Statuses(runs, state) \subseteq RunStatus \ {"ABSENT"}
    PROVE  Derive(Statuses(runs, state)) = Truth(runs, state)
<1> DEFINE S == Statuses(runs, state)
<1>1. S # {} /\ S \in SUBSET (RunStatus \ {"ABSENT"})
  BY TruthCases
<1>2. CASE S \subseteq Terminal
  BY <1>1, <1>2, TruthCases, DeriveCases
<1>3. CASE ~ S \subseteq Terminal
  BY <1>1, <1>3, TruthCases, DeriveCases
<1>4. QED  BY <1>2, <1>3

-------------------------------------------------------------------------------
(* How the runs move, whoever moves them.                                  *)

Moves(old, new) ==
    /\ old.status \in Terminal => new.status = old.status
    /\ old.status # "ABSENT" => new.status # "ABSENT"
    /\ old.status \notin {"ABSENT", "CREATED"} => new.status \notin {"ABSENT", "CREATED"}
    /\ old.status = "CREATED" => new.status \in {"CREATED", "QUEUED", "CANCELED"}
    /\ Settled(old) => Settled(new)

RunsMove ==
    /\ \A r \in Runs : Moves(run[r], run'[r])
    /\ run' = run \/ \E r \in Runs : \A o \in Runs \ {r} : run'[o] = run[o]

TasksKept == \A k \in Stored : task'[k] = task[k]

RunRecords == [status : RunStatus, cancel : BOOLEAN]

LEMMA RunChanges ==
    ASSUME run \in [Runs -> RunRecords], NEW r \in Runs, NEW new \in RunRecords,
           run' = [run EXCEPT ![r] = new], Moves(run[r], new)
    PROVE  run' \in [Runs -> RunRecords] /\ RunsMove
<1>1. /\ run' \in [Runs -> RunRecords] /\ run'[r] = new
      /\ \A o \in Runs \ {r} : run'[o] = run[o]
  OBVIOUS
<1>2. \A o \in Runs : Moves(run[o], run'[o])
  BY <1>1 DEF Moves
<1>3. QED  BY <1>1, <1>2 DEF RunsMove

LEMMA RunsStay ==
    ASSUME run \in [Runs -> RunRecords], run' = run
    PROVE  run' \in [Runs -> RunRecords] /\ RunsMove
  BY DEF RunsMove, Moves

(* The next run is one that there is not yet.                              *)
LEMMA NextRun ==
    ASSUME Shape, NEW r, r = Cardinality(Used) + 1, r \in Runs
    PROVE  run[r].status = "ABSENT" /\ Used \union {r} = 1 .. r /\ Cardinality(1 .. r) = r
<1>1. r \notin Used /\ r \in Nat
  BY DEF Shape
<1>2. Used \union {r} = 1 .. r
  BY <1>1 DEF Shape
<1>3. Cardinality(1 .. r) = r
  BY <1>1, FS_Interval
<1>4. QED  BY <1>1, <1>2, <1>3 DEF Used

(* What a run looks like that a step has moved.                            *)
LEMMA CanceledMoves ==
    ASSUME NEW old \in RunRecords, old.status \notin Terminal \union {"ABSENT"}
    PROVE  Canceled(old) \in RunRecords /\ Moves(old, Canceled(old)) /\ Settled(Canceled(old))
<1>1. CASE old.status = "WORKING"
  BY <1>1 DEF Canceled, RunRecords, RunStatus, Moves, Settled, Terminal
<1>2. CASE old.status # "WORKING"
  BY <1>2 DEF Canceled, RunRecords, RunStatus, Moves, Settled, Terminal
<1>3. QED  BY <1>1, <1>2

LEMMA StatusMoves ==
    ASSUME NEW old \in RunRecords, NEW status \in RunStatus,
           \/ old.status = "ABSENT" /\ status = "CREATED"
           \/ old.status = "CREATED" /\ status = "QUEUED"
           \/ old.status = "QUEUED" /\ status \in {"WORKING", "FAILED"}
           \/ old.status = "WORKING" /\ status \in Terminal
    PROVE  LET new == [old EXCEPT !.status = status]
           IN  new \in RunRecords /\ Moves(old, new)
<1> DEFINE new == [old EXCEPT !.status = status]
<1>1. new \in RunRecords /\ new.status = status /\ new.cancel = old.cancel
  BY DEF RunRecords
<1>2. Moves(old, new)
  BY <1>1 DEF Moves, Settled, RunStatus, Terminal
<1>3. QED  BY <1>1, <1>2

LEMMA ThisRun ==
    ASSUME BenchInv, NEW t \in Threads, th[t].pc = "cancel"
    PROVE  /\ This(t) \in Runs /\ run[This(t)].status # "ABSENT"
           /\ th[t].index \in DOMAIN RunsOf(th[t].task)
<1>1. /\ th[t].task \in Stored /\ th[t].index <= Len(RunsOf(th[t].task)) /\ IsLocal(th[t])
      /\ IsTask(task[th[t].task]) /\ ToSet(RunsOf(th[t].task)) \subseteq Used
  BY DEF BenchInv, Shape, TasksOK, ThreadOK, Stopper, Stored
<1>2. th[t].index \in DOMAIN RunsOf(th[t].task)
  BY <1>1 DEF IsLocal, IsTask, RunsOf
<1>3. QED  BY <1>1, <1>2 DEF This, RunsOf, ToSet, Used

LEMMA HeadRun ==
    ASSUME BenchInv, NEW t \in Threads, Complete(t)
    PROVE  Head(th[t].runs) \in Runs /\ th[t].runs # <<>>
<1>1. IsList(th[t].rows) /\ th[t].rows # <<>> /\ th[t].runs \in Seq(Runs)
      /\ Len(th[t].runs) = Len(th[t].rows)
  BY DEF BenchInv, Shape, ThreadOK, Creator, Complete, IsLocal
<1>2. th[t].runs # <<>>
  BY <1>1, EmptySeq DEF IsList
<1>3. QED  BY <1>1, <1>2

LEMMA RunsStep == ASSUME BenchInv, Next PROVE run' \in [Runs -> RunRecords] /\ RunsMove
<1>1. run \in [Runs -> RunRecords]
  BY DEF BenchInv, Shape, RunRecords
<1>2. ASSUME NEW r \in Runs, NEW status \in RunStatus,
             run' = [run EXCEPT ![r].status = status],
             \/ run[r].status = "ABSENT" /\ status = "CREATED"
             \/ run[r].status = "CREATED" /\ status = "QUEUED"
             \/ run[r].status = "QUEUED" /\ status \in {"WORKING", "FAILED"}
             \/ run[r].status = "WORKING" /\ status \in Terminal
      PROVE  run' \in [Runs -> RunRecords] /\ RunsMove
  <2> DEFINE new == [run[r] EXCEPT !.status = status]
  <2>1. new \in RunRecords /\ Moves(run[r], new)
    BY <1>1, <1>2, StatusMoves
  <2>2. run' = [run EXCEPT ![r] = new]
    BY <1>1, <1>2
  <2> HIDE DEF new
  <2>3. QED  BY <1>1, <2>1, <2>2, RunChanges
<1>3. ASSUME NEW r \in Runs, run' = [run EXCEPT ![r] = Canceled(@)],
             run[r].status \notin Terminal \union {"ABSENT"}
      PROVE  run' \in [Runs -> RunRecords] /\ RunsMove
  <2>1. Canceled(run[r]) \in RunRecords /\ Moves(run[r], Canceled(run[r]))
    BY <1>1, <1>3, CanceledMoves
  <2>2. run' = [run EXCEPT ![r] = Canceled(run[r])]
    BY <1>1, <1>3
  <2>3. QED  BY <1>1, <2>1, <2>2, RunChanges
<1>4. ASSUME NEW t \in Threads, CreateRow(t) PROVE run' \in [Runs -> RunRecords] /\ RunsMove
  <2>1. CASE run' = run
    BY <1>1, <2>1, RunsStay
  <2>2. CASE run' # run
    <3>1. PICK r \in Runs : r = Cardinality(Used) + 1
                            /\ run' = [run EXCEPT ![r].status = "CREATED"]
      BY <1>4, <2>2 DEF CreateRow
    <3>2. run[r].status = "ABSENT"
      BY <3>1, NextRun DEF BenchInv
    <3>3. QED  BY <1>2, <3>1, <3>2 DEF RunStatus
  <2>3. QED  BY <2>1, <2>2
<1>5. ASSUME NEW t \in Threads, AutoStart(t) PROVE run' \in [Runs -> RunRecords] /\ RunsMove
  <2>1. CASE run' = run
    BY <1>1, <2>1, RunsStay
  <2>2. CASE run' # run
    <3>1. /\ Head(th[t].runs) \in Runs /\ run[Head(th[t].runs)].status = "CREATED"
          /\ run' = [run EXCEPT ![Head(th[t].runs)].status = "QUEUED"]
      BY <1>5, <2>2, HeadRun DEF AutoStart, CanStart
    <3>2. QED  BY <1>2, <3>1 DEF RunStatus
  <2>3. QED  BY <2>1, <2>2
<1>6. ASSUME NEW t \in Threads, CancelRun(t) PROVE run' \in [Runs -> RunRecords] /\ RunsMove
  <2>1. CASE run' = run
    BY <1>1, <2>1, RunsStay
  <2>2. CASE run' # run
    <3>1. /\ This(t) \in Runs /\ run' = [run EXCEPT ![This(t)] = Canceled(@)]
          /\ run[This(t)].status \notin Terminal \union {"ABSENT"}
      BY <1>6, <2>2, ThisRun DEF CancelRun
    <3>2. QED  BY <1>3, <3>1
  <2>3. QED  BY <2>1, <2>2
<1>7. ASSUME NEW r \in Runs, ClientStarts(r) \/ RunBegins(r)
      PROVE  run' \in [Runs -> RunRecords] /\ RunsMove
  BY <1>2, <1>7 DEF ClientStarts, RunBegins, CanStart, RunStatus
<1>8. ASSUME NEW r \in Runs, ClientCancels(r) PROVE run' \in [Runs -> RunRecords] /\ RunsMove
  BY <1>3, <1>8 DEF ClientCancels
<1>9. ASSUME NEW r \in Runs, RunEnds(r) PROVE run' \in [Runs -> RunRecords] /\ RunsMove
  <2>1. PICK s \in Terminal :
            /\ run[r].status = "WORKING" \/ (run[r].status = "QUEUED" /\ s = "FAILED")
            /\ run' = [run EXCEPT ![r].status = s]
    BY <1>9 DEF RunEnds
  <2>2. QED  BY <1>2, <2>1 DEF RunStatus
<1>10. ASSUME NEW t \in Threads,
              \/ GetTask(t) \/ StopTask(t) \/ Rerun(t) \/ CreateTask(t) \/ StoreTask(t)
              \/ ReadRun(t) \/ FinishSync(t) \/ ExportReport(t) \/ LookAtRun(t) \/ FinishStop(t)
       PROVE  run' = run
  BY <1>10 DEF GetTask, StopTask, Rerun, CreateTask, StoreTask, ReadRun, FinishSync,
               ExportReport, LookAtRun, FinishStop
<1>11. ApiRestart => run' = run
  BY DEF ApiRestart
<1>12. QED
  BY <1>1, <1>4, <1>5, <1>6, <1>7, <1>8, <1>9, <1>10, <1>11, RunsStay DEF Next, ThreadStep

(* Every step observes, and a stored task stays as it is.                  *)
LEMMA ObserveStep == Next => Observe
  BY DEF Next, ThreadStep, GetTask, StopTask, Rerun, CreateTask, CreateRow, AutoStart, StoreTask,
         ReadRun, FinishSync, ExportReport, LookAtRun, CancelRun, FinishStop, ClientStarts,
         ClientCancels, RunBegins, RunEnds, ApiRestart

LEMMA OtherSteps ==
    ASSUME Next, ~ \E t \in Threads : StoreTask(t)
    PROVE  task' = task
  BY DEF Next, ThreadStep, GetTask, StopTask, Rerun, CreateTask, CreateRow, AutoStart,
         ReadRun, FinishSync, ExportReport, LookAtRun, CancelRun, FinishStop, ClientStarts,
         ClientCancels, RunBegins, RunEnds, ApiRestart

LEMMA KeptTasks ==
    ASSUME BenchInv, Next
    PROVE  TasksKept /\ Stored \subseteq Stored'
<1>1. task = [k \in Tasks |-> task[k]]
  BY DEF BenchInv, Shape
<1>2. CASE task' = task
  BY <1>2 DEF TasksKept, Stored
<1>3. ASSUME NEW t \in Threads, StoreTask(t) PROVE TasksKept /\ Stored \subseteq Stored'
  <2>1. PICK k \in Tasks :
            /\ Stored = 1 .. k - 1
            /\ task' = [task EXCEPT ![k] =
                  [runs |-> th[t].runs, mode |-> th[t].mode,
                   matrix |-> [i \in DOMAIN th[t].rows |-> Entry(th[t].rows[i])]]]
    BY <1>3 DEF StoreTask
  <2>2. k \notin Stored
    BY <2>1 DEF Tasks
  <2>3. \A j \in Stored : task'[j] = task[j]
    <3>1. \A j \in Stored : j # k /\ j \in DOMAIN task
      BY <1>1, <2>2 DEF Stored
    <3>2. QED  BY <2>1, <3>1
  <2>4. QED  BY <2>3 DEF TasksKept, Stored
<1>4. QED  BY <1>2, <1>3, OtherSteps

-------------------------------------------------------------------------------
(* Locals.                                                                 *)

LEMMA IdleLocal ==
    /\ IsLocal(Idle) /\ Idle.pc = "idle" /\ Idle.runs = <<>> /\ Idle.seen = <<>>
    /\ Idle.index = 1 /\ Idle.source = None
<1>1. <<>> \in Seq(Runs) /\ <<>> \in Seq(RunStatus)
  OBVIOUS
<1>2. QED  BY <1>1 DEF Idle, IsLocal, Pc

LEMMA LocalChanges ==
    ASSUME Shape, NEW t \in Threads, NEW l, IsLocal(l), th' = [th EXCEPT ![t] = l]
    PROVE  /\ th' = [u \in Threads |-> th'[u]] /\ \A u \in Threads : IsLocal(th'[u])
           /\ th'[t] = l /\ \A u \in Threads \ {t} : th'[u] = th[u]
<1>1. th = [u \in Threads |-> th[u]] /\ \A u \in Threads : IsLocal(th[u])
  BY DEF Shape
<1>2. th'[t] = l /\ \A u \in Threads \ {t} : th'[u] = th[u]
  BY <1>1
<1>3. th' = [u \in Threads |-> th'[u]]
  BY <1>1
<1>4. \A u \in Threads : IsLocal(th'[u])
  BY <1>1, <1>2
<1>5. QED  BY <1>2, <1>3, <1>4

LocalsOf(l, t) ==
    /\ IsLocal(l) /\ th'[t] = l
    /\ th' = [u \in Threads |-> th'[u]] /\ (\A u \in Threads : IsLocal(th'[u]))
    /\ \A u \in Threads \ {t} : th'[u] = th[u]

LEMMA ReadingLocal ==
    ASSUME NEW k, NEW next
    PROVE  /\ IsLocal(Reading(k, next)) /\ Reading(k, next).pc = "sync"
           /\ Reading(k, next).task = k /\ Reading(k, next).seen = <<>>
<1> DEFINE l == [Idle EXCEPT !.pc = "sync", !.task = k, !.then = next]
<1>1. IsLocal(l) /\ l.pc = "sync" /\ l.task = k /\ l.seen = <<>>
  BY IdleLocal DEF IsLocal, Idle, Pc
<1>2. Reading(k, next) = l
  BY DEF Reading
<1> HIDE DEF l
<1>3. QED  BY <1>1, <1>2

LEMMA StartsRequest ==
    ASSUME Shape, NEW t \in Threads
    PROVE  /\ GetTask(t) => \E k \in Stored, next \in {"idle", "report"} :
                                LocalsOf(Reading(k, next), t)
           /\ StopTask(t) => \E k \in Stored :
                                /\ LocalsOf(th'[t], t) /\ th'[t].pc = "look"
                                /\ th'[t].task = k /\ th'[t].index = 1
           /\ Rerun(t) => \E k \in Stored :
                                /\ LocalsOf(th'[t], t) /\ th'[t].pc = "rows"
                                /\ th'[t].source = k /\ th'[t].runs = <<>>
                                /\ th'[t].rows = [i \in DOMAIN task[k].matrix |->
                                        ReplayRow(task[k].matrix[i], task[k].mode)]
           /\ CreateTask(t) => \E q \in Requests :
                                /\ q.matrix # <<>> \/ Plannable(q)
                                /\ LocalsOf(th'[t], t) /\ th'[t].pc = "rows"
                                /\ th'[t].source = None /\ th'[t].runs = <<>>
                                /\ th'[t].rows = Matrix(q)
<1>1. ASSUME GetTask(t)
      PROVE  \E k \in Stored, next \in {"idle", "report"} : LocalsOf(Reading(k, next), t)
  <2>1. PICK k \in Stored, next \in {"idle", "report"} :
            th' = [th EXCEPT ![t] = Reading(k, next)]
    BY <1>1 DEF GetTask, Become
  <2>2. LocalsOf(Reading(k, next), t)
    BY <2>1, ReadingLocal, LocalChanges DEF LocalsOf
  <2>3. QED  BY <2>2
<1>2. ASSUME StopTask(t)
      PROVE  \E k \in Stored : /\ LocalsOf(th'[t], t) /\ th'[t].pc = "look"
                               /\ th'[t].task = k /\ th'[t].index = 1
  <2>1. PICK k \in Stored : th' = [th EXCEPT ![t] = [Idle EXCEPT !.pc = "look", !.task = k]]
    BY <1>2 DEF StopTask, Become
  <2> DEFINE l == [Idle EXCEPT !.pc = "look", !.task = k]
  <2>2. IsLocal(l) /\ l.pc = "look" /\ l.task = k /\ l.index = 1
    BY IdleLocal DEF IsLocal, Idle, Pc
  <2> HIDE DEF l
  <2>3. LocalsOf(l, t)
    BY <2>1, <2>2, LocalChanges DEF LocalsOf, l
  <2>4. QED  BY <2>2, <2>3 DEF LocalsOf
<1>3. ASSUME Rerun(t)
      PROVE  \E k \in Stored :
                /\ LocalsOf(th'[t], t) /\ th'[t].pc = "rows"
                /\ th'[t].source = k /\ th'[t].runs = <<>>
                /\ th'[t].rows = [i \in DOMAIN task[k].matrix |->
                                    ReplayRow(task[k].matrix[i], task[k].mode)]
  <2>1. PICK k \in Stored, auto \in BOOLEAN :
            th' = [th EXCEPT ![t] =
                [Idle EXCEPT !.pc = "rows", !.source = k, !.mode = task[k].mode, !.auto = auto,
                             !.rows = [i \in DOMAIN task[k].matrix |->
                                          ReplayRow(task[k].matrix[i], task[k].mode)]]]
    BY <1>3 DEF Rerun, Become
  <2> DEFINE rows == [i \in DOMAIN task[k].matrix |-> ReplayRow(task[k].matrix[i], task[k].mode)]
             l == [Idle EXCEPT !.pc = "rows", !.source = k, !.mode = task[k].mode, !.auto = auto,
                               !.rows = rows]
  <2>2. th' = [th EXCEPT ![t] = l]
    BY <2>1
  <2> HIDE DEF rows
  <2>3. IsLocal(l) /\ l.pc = "rows" /\ l.source = k /\ l.runs = <<>> /\ l.rows = rows
    BY IdleLocal DEF IsLocal, Idle, Pc
  <2> HIDE DEF l
  <2>4. LocalsOf(l, t)
    BY <2>2, <2>3, LocalChanges DEF LocalsOf
  <2>5. QED  BY <2>3, <2>4 DEF LocalsOf, rows
<1>4. ASSUME CreateTask(t)
      PROVE  \E q \in Requests :
                /\ q.matrix # <<>> \/ Plannable(q)
                /\ LocalsOf(th'[t], t) /\ th'[t].pc = "rows"
                /\ th'[t].source = None /\ th'[t].runs = <<>>
                /\ th'[t].rows = Matrix(q)
  <2>1. PICK q \in Requests :
            /\ q.matrix # <<>> \/ Plannable(q)
            /\ th' = [th EXCEPT ![t] = [Idle EXCEPT !.pc = "rows", !.rows = Matrix(q),
                                                    !.mode = q.definition.mode, !.auto = q.auto]]
    BY <1>4 DEF CreateTask, Become
  <2> DEFINE l == [Idle EXCEPT !.pc = "rows", !.rows = Matrix(q),
                               !.mode = q.definition.mode, !.auto = q.auto]
  <2>2. q.auto \in BOOLEAN
    BY ConstantsAssumption
  <2>3. IsLocal(l) /\ l.pc = "rows" /\ l.source = None /\ l.runs = <<>> /\ l.rows = Matrix(q)
    BY <2>2, IdleLocal DEF IsLocal, Idle, Pc
  <2>4. th' = [th EXCEPT ![t] = l]
    BY <2>1
  <2> HIDE DEF l
  <2>5. LocalsOf(l, t)
    BY <2>3, <2>4, LocalChanges DEF LocalsOf
  <2>6. QED  BY <2>1, <2>3, <2>5 DEF LocalsOf
<1>5. QED  BY <1>1, <1>2, <1>3, <1>4

-------------------------------------------------------------------------------
(* Threads that another actor's step leaves where they are.                *)

LEMMA StoredRuns ==
    ASSUME BenchInv, NEW k \in Stored
    PROVE  /\ k \in Tasks /\ RunsOf(k) \in Seq(Runs) /\ Len(RunsOf(k)) \in Nat \ {0}
           /\ DOMAIN RunsOf(k) = 1 .. Len(RunsOf(k)) /\ DOMAIN RunsOf(k) # {}
           /\ \A i \in DOMAIN RunsOf(k) :
                RunsOf(k)[i] \in Runs /\ run[RunsOf(k)[i]].status \in RunStatus \ {"ABSENT"}
           /\ Statuses(RunsOf(k), run) \subseteq RunStatus \ {"ABSENT"}
           /\ \A i, j \in DOMAIN RunsOf(k) : i # j => RunsOf(k)[i] # RunsOf(k)[j]
<1>1. k \in Tasks /\ RunsOf(k) \in Seq(Runs) /\ RunsOf(k) # <<>>
  BY DEF BenchInv, Shape, IsTask, Stored, RunsOf
<1>2. Len(RunsOf(k)) \in Nat \ {0} /\ DOMAIN RunsOf(k) = 1 .. Len(RunsOf(k))
  BY <1>1, EmptySeq, LenProperties
<1>3. \A i \in DOMAIN RunsOf(k) : RunsOf(k)[i] \in Used
  BY <1>1 DEF BenchInv, TasksOK, ToSet
<1>4. \A i \in DOMAIN RunsOf(k) :
        RunsOf(k)[i] \in Runs /\ run[RunsOf(k)[i]].status \in RunStatus \ {"ABSENT"}
  BY <1>3 DEF BenchInv, Shape, Used
<1>5. \A i, j \in DOMAIN RunsOf(k) : i # j => RunsOf(k)[i] # RunsOf(k)[j]
  BY DEF BenchInv, TasksOK, Different
<1>6. 1 \in DOMAIN RunsOf(k)
  BY <1>2
<1>7. Statuses(RunsOf(k), run) \subseteq RunStatus \ {"ABSENT"}
  BY <1>4 DEF Statuses
<1>8. QED  BY <1>1, <1>2, <1>4, <1>5, <1>6, <1>7

(* What is true of a stored task.                                          *)
LEMMA TrueCases ==
    ASSUME BenchInv, NEW k \in Stored
    PROVE  /\ TrueStatus(k) = Derive(Statuses(RunsOf(k), run)) /\ TrueStatus(k) \in TaskStatus
           /\ NothingBegun(k) => TrueStatus(k) = "CREATED"
           /\ ~ NothingBegun(k)
              /\ (\E i \in DOMAIN RunsOf(k) : run[RunsOf(k)[i]].status \notin Terminal) =>
                    TrueStatus(k) = "RUNNING"
<1> DEFINE S == Statuses(RunsOf(k), run)
<1>1. TrueStatus(k) = Truth(RunsOf(k), run)
  BY DEF TrueStatus, RunsOf
<1>2. S \subseteq RunStatus \ {"ABSENT"} /\ DOMAIN RunsOf(k) # {}
  BY StoredRuns
<1>3. TrueStatus(k) = Derive(S)
  BY <1>1, <1>2, DeriveIsTruth
<1>4. S # {}
  BY <1>2 DEF Statuses
<1>5. NothingBegun(k) => S = {"CREATED"}
  BY <1>2 DEF NothingBegun, Statuses
<1>6. ~ NothingBegun(k) => S # {"CREATED"}
  BY DEF NothingBegun, Statuses
<1>7. (\E i \in DOMAIN RunsOf(k) : run[RunsOf(k)[i]].status \notin Terminal) =>
        ~ S \subseteq Terminal
  BY DEF Statuses
<1> HIDE DEF S
<1>8. Derive(S) \in TaskStatus
  BY <1>2, <1>4, DeriveCases DEF TaskStatus
<1>9. QED  BY <1>2, <1>3, <1>4, <1>5, <1>6, <1>7, <1>8, DeriveCases DEF S

(* A step in which nothing is stored anew moves runs and notes what was    *)
(* true.                                                                   *)
Surroundings ==
    /\ run' \in [Runs -> RunRecords] /\ RunsMove /\ TasksKept
    /\ Stored \subseteq Stored' /\ Observe

LEMMA SurroundingsStep == ASSUME BenchInv, Next PROVE Surroundings
  BY RunsStep, KeptTasks, ObserveStep DEF Surroundings

LEMMA KeptUsed == ASSUME BenchInv, Surroundings PROVE Used \subseteq Used'
  BY DEF Surroundings, RunsMove, Moves, Used

LEMMA KeptRuns ==
    ASSUME BenchInv, Surroundings, NEW k \in Stored
    PROVE  /\ k \in Stored' /\ RunsOf(k)' = RunsOf(k) /\ task'[k] = task[k]
           /\ \A i \in DOMAIN RunsOf(k) : Moves(run[RunsOf(k)[i]], run'[RunsOf(k)[i]])
  BY StoredRuns DEF Surroundings, TasksKept, RunsOf, RunsMove

LEMMA KeptCreator ==
    ASSUME BenchInv, Surroundings, NEW t \in Threads, Creator(t),
           th'[t].rows = th[t].rows, th'[t].runs = th[t].runs, th'[t].source = th[t].source
    PROVE  Creator(t)'
<1>1. th[t].source \in Stored =>
        th[t].source \in Stored' /\ task'[th[t].source] = task[th[t].source]
  BY KeptRuns
<1>2. QED  BY <1>1, KeptUsed DEF Creator

LEMMA KeptStopper ==
    ASSUME BenchInv, Surroundings, NEW t \in Threads, th'[t] = th[t], Stopper(t)
    PROVE  Stopper(t)'
<1>1. /\ th[t].task \in Stored /\ IsLocal(th[t])
      /\ th[t].index <= Len(RunsOf(th[t].task)) + 1
      /\ \A i \in 1 .. th[t].index - 1 : Settled(run[RunsOf(th[t].task)[i]])
  BY DEF Stopper, BenchInv, Shape
<1>2. \A i \in 1 .. th[t].index - 1 : i \in DOMAIN RunsOf(th[t].task)
  BY <1>1, StoredRuns DEF IsLocal
<1>3. /\ th[t].task \in Stored' /\ RunsOf(th[t].task)' = RunsOf(th[t].task)
      /\ \A i \in 1 .. th[t].index - 1 : Settled(run'[RunsOf(th[t].task)[i]])
  BY <1>1, <1>2, KeptRuns DEF Moves
<1>4. \A i \in 1 .. th'[t].index - 1 : Settled(run'[task'[th'[t].task].runs[i]])
  BY <1>3 DEF RunsOf
<1>5. th'[t].index <= Len(task'[th'[t].task].runs) + 1
  BY <1>1, <1>3 DEF RunsOf
<1>6. th'[t].pc = "cancel" => th'[t].index <= Len(task'[th'[t].task].runs)
  BY <1>1, <1>3 DEF Stopper, RunsOf
<1>7. QED  BY <1>1, <1>3, <1>4, <1>5, <1>6 DEF Stopper, RunsOf

LEMMA KeptSeen ==
    ASSUME BenchInv, Surroundings, NEW t \in Threads, Reader(t),
           th'[t].task = th[t].task, th'[t].seen = th[t].seen
    PROVE  SeenStays(t)'
<1> DEFINE k == th[t].task
           R == RunsOf(k)
<1>1. k \in Stored /\ SeenStays(t) /\ R' = R /\ Len(th[t].seen) <= Len(R)
      /\ th[t].seen \in Seq(RunStatus)
  BY KeptRuns DEF Reader, BenchInv, Shape, IsLocal
<1>2. \A i \in DOMAIN th[t].seen : i \in DOMAIN R
  BY <1>1, StoredRuns
<1>3. \A i \in DOMAIN th[t].seen : Moves(run[R[i]], run'[R[i]])
  BY <1>1, <1>2, KeptRuns
<1>4. ASSUME NEW i \in DOMAIN th[t].seen
      PROVE  /\ th[t].seen[i] # "ABSENT"
             /\ th[t].seen[i] \in Terminal => run'[R[i]].status = th[t].seen[i]
             /\ th[t].seen[i] # "CREATED" => run'[R[i]].status \notin {"ABSENT", "CREATED"}
  BY <1>1, <1>3, <1>4 DEF SeenStays, Begun, Moves, Terminal
<1>5. QED  BY <1>1, <1>4 DEF SeenStays, Begun

(* The step that ends the time in which nothing has begun begins one run;  *)
(* if there is another one, the task is running then.                      *)
LEMMA FirstBegins ==
    ASSUME BenchInv, Surroundings, NEW k \in Stored, NothingBegun(k), ~ NothingBegun(k)',
           Len(RunsOf(k)) # 1
    PROVE  TrueStatus(k)' = "RUNNING"
<1> DEFINE R == RunsOf(k)
           S == Statuses(R, run')
<1>1. /\ R' = R /\ Len(R) \in Nat \ {0, 1} /\ DOMAIN R = 1 .. Len(R)
      /\ \A i \in DOMAIN R : R[i] \in Runs /\ run[R[i]].status = "CREATED"
      /\ \A i, j \in DOMAIN R : i # j => R[i] # R[j]
  BY StoredRuns, KeptRuns DEF NothingBegun
<1>2. PICK j \in DOMAIN R : run'[R[j]].status # "CREATED"
  BY <1>1 DEF NothingBegun, RunsOf
<1>3. PICK i \in DOMAIN R : i # j
  <2>1. 1 \in DOMAIN R /\ 2 \in DOMAIN R
    BY <1>1
  <2>2. QED  BY <2>1
<1>4. run'[R[i]] = run[R[i]]
  BY <1>1, <1>2, <1>3 DEF Surroundings, RunsMove
<1>5. run'[R[i]].status = "CREATED"
  BY <1>1, <1>4
<1>6. "CREATED" \in S /\ run'[R[j]].status \in S
  BY <1>5 DEF Statuses
<1>7. S # {"CREATED"} /\ ~ S \subseteq Terminal
  BY <1>2, <1>6 DEF Terminal
<1>8. Truth(R, run') = "RUNNING"
  BY <1>1, <1>2, <1>7, TruthCases
<1>9. TrueStatus(k)' = Truth(R, run')
  BY <1>1 DEF TrueStatus, RunsOf
<1>10. QED  BY <1>8, <1>9

LEMMA KeptReader ==
    ASSUME BenchInv, Surroundings, NEW t \in Threads, th'[t] = th[t], Reader(t)
    PROVE  Reader(t)'
<1> DEFINE k == th[t].task
           R == RunsOf(k)
<1>1. /\ k \in Stored /\ k \in Stored' /\ R' = R /\ IsLocal(th[t])
      /\ Len(th[t].seen) <= Len(R) /\ (th[t].pc = "report" => Len(th[t].seen) = Len(R))
      /\ SeenStays(t)
      /\ th[t].pc = "sync" => CreatedWasTrue(t) /\ RunningWasTrue(t)
  BY KeptRuns DEF Reader, BenchInv, Shape
<1>2. /\ \A i \in DOMAIN R : R[i] \in Runs /\ Moves(run[R[i]], run'[R[i]])
      /\ DOMAIN R = 1 .. Len(R) /\ Len(R) \in Nat
  BY <1>1, StoredRuns, KeptRuns
<1>3. SeenStays(t)'
  BY KeptSeen
<1>4. th[t].pc = "sync" => held'[t] = held[t] \union {TrueStatus(k)}
  BY DEF Surroundings, Observe
<1>5. th[t].seen \in Seq(RunStatus)
  BY <1>1 DEF IsLocal
<1>6. ASSUME th[t].pc = "sync" PROVE CreatedWasTrue(t)'
  <2>1. SUFFICES ASSUME th[t].seen # <<>>, AllSeenCreated(t)
        PROVE  "CREATED" \in held'[t] \/ \E i \in Unread(t) :
                    run'[R[i]].status \notin {"ABSENT", "CREATED"}
    BY <1>1, <1>6 DEF CreatedWasTrue, AllSeenCreated, Unread, Begun, RunsOf
  <2>2. "CREATED" \in held[t] \/ \E i \in Unread(t) : Begun(R[i])
    BY <1>1, <1>6, <2>1 DEF CreatedWasTrue
  <2>3. \A i \in Unread(t) : i \in DOMAIN R
    BY <1>2, <1>5 DEF Unread
  <2>4. QED  BY <1>2, <1>4, <1>6, <2>2, <2>3 DEF Begun, Moves
<1>7. ASSUME th[t].pc = "sync" PROVE RunningWasTrue(t)'
  <2>1. SUFFICES ASSUME \E i \in DOMAIN th[t].seen : th[t].seen[i] \notin Terminal
        PROVE  \/ "RUNNING" \in held'[t] \union {TrueStatus(k)'}
               \/ NothingBegun(k)'
               \/ Len(R) = 1 /\ AllSeenCreated(t)
    <3>1. TrueStatus(th[t].task)' = TrueStatus(k)' /\ NothingBegun(th[t].task)' = NothingBegun(k)'
      OBVIOUS
    <3>2. QED
      BY <1>1, <1>7, <2>1
      DEF RunningWasTrue, AllSeenCreated, NothingBegun, TrueStatus, RunsOf, Truth
  <2>2. \/ "RUNNING" \in held[t] \union {TrueStatus(k)}
        \/ NothingBegun(k)
        \/ Len(R) = 1 /\ AllSeenCreated(t)
    BY <1>1, <1>7, <2>1 DEF RunningWasTrue
  <2>3. CASE NothingBegun(k) /\ ~ NothingBegun(k)' /\ Len(R) = 1
    <3>1. \A i \in DOMAIN th[t].seen : i \in DOMAIN R
      BY <1>1, <1>2, <1>5
    <3>2. AllSeenCreated(t)
      BY <1>1, <2>3, <3>1 DEF AllSeenCreated, SeenStays, NothingBegun, Begun
    <3>3. QED  BY <2>3, <3>2
  <2>4. CASE NothingBegun(k) /\ ~ NothingBegun(k)' /\ Len(R) # 1
    BY <1>1, <2>4, FirstBegins
  <2>5. QED  BY <1>4, <1>7, <2>2, <2>3, <2>4
<1>8. QED  BY <1>1, <1>3, <1>6, <1>7 DEF Reader, RunsOf

LEMMA KeptThread ==
    ASSUME BenchInv, Surroundings, NEW t \in Threads, th'[t] = th[t]
    PROVE  ThreadOK(t)'
<1>1. ThreadOK(t)
  BY DEF BenchInv
<1>2. QED  BY <1>1, KeptCreator, KeptStopper, KeptReader DEF ThreadOK

-------------------------------------------------------------------------------
(* The parts of the invariant that are not about a thread.                 *)

LEMMA HeldStep == ASSUME BenchInv, Surroundings PROVE held' \in [Threads -> SUBSET TaskStatus]
<1>1. \A t \in Threads : th[t].pc = "sync" => TrueStatus(th[t].task) \in TaskStatus
  BY TrueCases DEF BenchInv, ThreadOK, Reader
<1>2. \A t \in Threads :
        (IF th[t].pc = "sync" THEN held[t] \union {TrueStatus(th[t].task)} ELSE {})
            \in SUBSET TaskStatus
  BY <1>1 DEF BenchInv, Shape
<1>3. QED  BY <1>2 DEF Surroundings, Observe

(* Runs are created in their order.                                        *)
LEMMA UsedStep ==
    ASSUME BenchInv, Next
    PROVE  Used' = 1 .. Cardinality(Used') /\ Cardinality(Used') \in Nat
<1>1. Used = 1 .. Cardinality(Used) /\ Cardinality(Used) \in Nat /\ run \in [Runs -> RunRecords]
  BY DEF BenchInv, Shape, RunRecords
<1>2. CASE Used' = Used
  BY <1>1, <1>2
<1>3. CASE Used' # Used
  <2>1. \E r \in Runs : run[r].status = "ABSENT" /\ run'[r].status # "ABSENT"
    BY <1>3, SurroundingsStep DEF Surroundings, RunsMove, Moves, Used
  <2>2. PICK t \in Threads : CreateRow(t)
    <3>1. ASSUME NEW r \in Runs, ClientStarts(r) \/ ClientCancels(r) \/ RunBegins(r) \/ RunEnds(r)
          PROVE  run[r].status # "ABSENT" /\ \A o \in Runs \ {r} : run'[o] = run[o]
      BY <1>1, <3>1 DEF ClientStarts, ClientCancels, RunBegins, RunEnds, CanStart
    <3>2. ASSUME NEW t \in Threads, CancelRun(t), NEW r \in Runs, run[r].status = "ABSENT"
          PROVE  run'[r] = run[r]
      BY <1>1, <3>2, ThisRun DEF CancelRun
    <3>3. ASSUME NEW t \in Threads, AutoStart(t), NEW r \in Runs, run[r].status = "ABSENT"
          PROVE  run'[r] = run[r]
      BY <1>1, <3>3, HeadRun DEF AutoStart, CanStart
    <3>4. ASSUME NEW t \in Threads,
                 \/ GetTask(t) \/ StopTask(t) \/ Rerun(t) \/ CreateTask(t) \/ StoreTask(t)
                 \/ ReadRun(t) \/ FinishSync(t) \/ ExportReport(t) \/ LookAtRun(t)
                 \/ FinishStop(t)
          PROVE  run' = run
      BY <3>4 DEF GetTask, StopTask, Rerun, CreateTask, StoreTask, ReadRun, FinishSync,
                  ExportReport, LookAtRun, FinishStop
    <3>5. ApiRestart => run' = run
      BY DEF ApiRestart
    <3>6. QED  BY <2>1, <3>1, <3>2, <3>3, <3>4, <3>5 DEF Next, ThreadStep
  <2>3. PICK r \in Runs : r = Cardinality(Used) + 1
                          /\ run' = [run EXCEPT ![r].status = "CREATED"]
    BY <1>3, <2>2 DEF CreateRow, Used
  <2>4. Used' = Used \union {r}
    BY <1>1, <2>3 DEF Used, RunRecords
  <2>5. Used' = 1 .. r /\ Cardinality(1 .. r) = r /\ r \in Nat
    BY <1>1, <2>3, <2>4, NextRun DEF BenchInv
  <2>6. QED  BY <2>5
<1>4. QED  BY <1>2, <1>3

LEMMA TasksStep ==
    ASSUME BenchInv, Next
    PROVE  /\ TasksOK' /\ task' = [k \in Tasks |-> task'[k]]
           /\ \A k \in Tasks : IsTask(task'[k])
<1>1. /\ TasksOK /\ task = [k \in Tasks |-> task[k]] /\ \A k \in Tasks : IsTask(task[k])
  BY DEF BenchInv, Shape
<1>2. Surroundings /\ Used \subseteq Used'
  BY SurroundingsStep, KeptUsed
<1>3. CASE task' = task
  BY <1>1, <1>2, <1>3 DEF TasksOK, RunsOf, Stored
<1>4. ASSUME NEW t \in Threads, StoreTask(t)
      PROVE  /\ TasksOK' /\ task' = [k \in Tasks |-> task'[k]]
             /\ \A k \in Tasks : IsTask(task'[k])
  <2> DEFINE matrix == [i \in DOMAIN th[t].rows |-> Entry(th[t].rows[i])]
             new == [runs |-> th[t].runs, mode |-> th[t].mode, matrix |-> matrix]
  <2>1. PICK k \in Tasks : Stored = 1 .. k - 1 /\ task' = [task EXCEPT ![k] = new]
    BY <1>4 DEF StoreTask
  <2>2. k \notin Stored
    BY <2>1 DEF Tasks
  <2>3. /\ th[t].runs \in Seq(Runs) /\ Creator(t) /\ Len(th[t].runs) = Len(th[t].rows)
    BY <1>4 DEF StoreTask, Complete, BenchInv, Shape, ThreadOK, IsLocal
  <2>4. IsList(matrix) /\ Len(matrix) = Len(th[t].runs)
        /\ DOMAIN matrix = 1 .. Len(th[t].runs)
    <3>1. IsList(th[t].rows) /\ matrix = [i \in DOMAIN th[t].rows |-> matrix[i]]
      BY <2>3 DEF Creator
    <3> HIDE DEF matrix
    <3>2. QED  BY <2>3, <3>1, SameDomain
  <2>5. \A i \in DOMAIN matrix : matrix[i] = Entry(th[t].rows[i]) /\ Accepted(th[t].rows[i])
    BY <2>3, <2>4 DEF Creator
  <2>6. \A i \in DOMAIN matrix : Repeats(matrix[i], th[t].mode)
    BY <2>5, EntriesRepeat
  <2>7. new.runs = th[t].runs /\ new.mode = th[t].mode /\ new.matrix = matrix
    OBVIOUS
  <2>8. IsTask(new)
    BY <2>3 DEF IsTask
  <2> HIDE DEF matrix, new
  <2>9. task'[k] = new /\ \A j \in Tasks \ {k} : task'[j] = task[j]
    BY <1>1, <2>1
  <2>10. task' = [j \in Tasks |-> task'[j]] /\ \A j \in Tasks : IsTask(task'[j])
    BY <1>1, <2>1, <2>8, <2>9
  <2>11. Stored' \subseteq Stored \union {k}
    BY <2>9 DEF Stored
  <2>12. \A j \in Stored : j \in Tasks \ {k}
    BY <2>2 DEF Stored
  <2>13. ASSUME NEW j \in Stored'
         PROVE  /\ ToSet(task'[j].runs) \subseteq Used' /\ Different(task'[j].runs)
                /\ IsList(task'[j].matrix) /\ Len(task'[j].matrix) = Len(task'[j].runs)
                /\ \A i \in DOMAIN task'[j].matrix : Repeats(task'[j].matrix[i], task'[j].mode)
    <3>1. CASE j = k
      <4>1. ToSet(new.runs) \subseteq Used' /\ Different(new.runs)
        BY <1>2, <2>3, <2>7 DEF Creator
      <4>2. QED  BY <2>4, <2>6, <2>7, <2>9, <3>1, <4>1
    <3>2. CASE j # k
      <4>1. j \in Stored /\ task'[j] = task[j]
        BY <2>9, <2>11, <2>12, <2>13, <3>2
      <4>2. QED  BY <1>1, <1>2, <4>1 DEF TasksOK, RunsOf
    <3>3. QED  BY <3>1, <3>2
  <2>14. TasksOK'
    BY <2>13 DEF TasksOK, RunsOf
  <2>15. QED  BY <2>10, <2>14
<1>5. QED  BY <1>1, <1>3, <1>4, OtherSteps

LEMMA KeptStopped ==
    ASSUME BenchInv, Surroundings, NEW k \in Stored,
           \A r \in ToSet(RunsOf(k)) : Settled(run[r])
    PROVE  k \in Stored' /\ \A r \in ToSet(RunsOf(k)') : Settled(run'[r])
<1>1. k \in Stored' /\ RunsOf(k)' = RunsOf(k)
      /\ \A i \in DOMAIN RunsOf(k) : Moves(run[RunsOf(k)[i]], run'[RunsOf(k)[i]])
  BY KeptRuns
<1>2. \A i \in DOMAIN RunsOf(k) : Settled(run'[RunsOf(k)[i]])
  BY <1>1 DEF ToSet, Moves
<1>3. QED  BY <1>1, <1>2 DEF ToSet

LEMMA StoppedStep == ASSUME BenchInv, Next PROVE StoppedOK'
<1>1. Surroundings /\ StoppedOK
  BY SurroundingsStep DEF BenchInv
<1>2. CASE stopped' = stopped
  <2>1. \A k \in stopped : k \in Stored /\ \A r \in ToSet(RunsOf(k)) : Settled(run[r])
    BY <1>1 DEF StoppedOK
  <2>2. \A k \in stopped : k \in Stored' /\ \A r \in ToSet(RunsOf(k)') : Settled(run'[r])
    BY <1>1, <2>1, KeptStopped
  <2>3. QED  BY <1>2, <2>2 DEF StoppedOK, RunsOf
<1>3. ASSUME NEW t \in Threads, FinishStop(t) PROVE StoppedOK'
  <2>1. /\ stopped' \subseteq stopped \union {th[t].task} /\ th[t].pc = "look"
        /\ ~ Looking(t)
    BY <1>3 DEF FinishStop
  <2>2. Stopper(t) /\ IsLocal(th[t])
    BY <2>1 DEF BenchInv, Shape, ThreadOK
  <2>3. th[t].task \in Stored /\ \A r \in ToSet(RunsOf(th[t].task)) : Settled(run[r])
    <3>1. \A i \in DOMAIN RunsOf(th[t].task) : i \in 1 .. th[t].index - 1
      BY <2>1, <2>2, StoredRuns DEF Stopper, Looking, RunsOf, IsLocal
    <3>2. QED  BY <2>2, <3>1 DEF Stopper, ToSet
  <2>4. \A k \in stopped' : k \in Stored /\ \A r \in ToSet(RunsOf(k)) : Settled(run[r])
    BY <1>1, <2>1, <2>3 DEF StoppedOK
  <2>5. \A k \in stopped' : k \in Stored' /\ \A r \in ToSet(RunsOf(k)') : Settled(run'[r])
    BY <1>1, <2>4, KeptStopped
  <2>6. QED  BY <2>5 DEF StoppedOK, RunsOf
<1>4. (\E t \in Threads : FinishStop(t)) \/ stopped' = stopped
  BY DEF Next, ThreadStep, GetTask, StopTask, Rerun, CreateTask, CreateRow, AutoStart, StoreTask,
         ReadRun, FinishSync, ExportReport, LookAtRun, CancelRun, ClientStarts,
         ClientCancels, RunBegins, RunEnds, ApiRestart
<1>5. QED  BY <1>2, <1>3, <1>4

(* What has ended keeps its status, and so does its task.                  *)
LEMMA KeptVerdict ==
    ASSUME BenchInv, Surroundings, NEW k \in Stored,
           \A r \in ToSet(RunsOf(k)) : run[r].status \in Terminal
    PROVE  /\ k \in Stored' /\ TrueStatus(k)' = TrueStatus(k)
           /\ \A r \in ToSet(RunsOf(k)') : run'[r].status \in Terminal
<1> DEFINE R == RunsOf(k)
<1>1. k \in Stored' /\ R' = R
      /\ \A i \in DOMAIN R : Moves(run[R[i]], run'[R[i]])
  BY KeptRuns
<1>2. \A i \in DOMAIN R : run'[R[i]].status = run[R[i]].status /\ run[R[i]].status \in Terminal
  BY <1>1 DEF ToSet, Moves
<1>3. Statuses(R, run') = Statuses(R, run)
  BY <1>2 DEF Statuses
<1>4. Truth(R, run') = Truth(R, run)
  BY <1>3, DeriveIsTruth, StoredRuns
<1>5. TrueStatus(k)' = TrueStatus(k)
  BY <1>1, <1>4 DEF TrueStatus, RunsOf
<1>6. QED  BY <1>1, <1>2, <1>5 DEF ToSet

(* A reader that has read all runs of its task.                            *)
LEMMA SeenAll ==
    ASSUME BenchInv, NEW t \in Threads, Reader(t),
           Len(th[t].seen) = Len(RunsOf(th[t].task))
    PROVE  /\ DOMAIN th[t].seen = DOMAIN RunsOf(th[t].task) /\ th[t].seen # <<>>
           /\ ToSet(th[t].seen) \in SUBSET (RunStatus \ {"ABSENT"}) /\ ToSet(th[t].seen) # {}
<1>1. th[t].task \in Stored /\ th[t].seen \in Seq(RunStatus) /\ SeenStays(t)
  BY DEF BenchInv, Shape, IsLocal, Reader
<1>2. DOMAIN th[t].seen = DOMAIN RunsOf(th[t].task) /\ 1 \in DOMAIN th[t].seen
  BY <1>1, StoredRuns, LenProperties
<1>3. \A i \in DOMAIN th[t].seen : th[t].seen[i] \in RunStatus \ {"ABSENT"}
  BY <1>1 DEF SeenStays
<1>4. QED  BY <1>2, <1>3 DEF ToSet

(* A verdict is about runs that have ended, so it is true now.             *)
LEMMA VerdictIsTrue ==
    ASSUME BenchInv, NEW t \in Threads, Reader(t),
           Len(th[t].seen) = Len(RunsOf(th[t].task)), ToSet(th[t].seen) \subseteq Terminal
    PROVE  /\ Answer(t) = TrueStatus(th[t].task)
           /\ \A r \in ToSet(RunsOf(th[t].task)) : run[r].status \in Terminal
<1> DEFINE R == RunsOf(th[t].task)
<1>1. DOMAIN th[t].seen = DOMAIN R /\ th[t].task \in Stored /\ SeenStays(t)
  BY SeenAll DEF Reader
<1>2. \A i \in DOMAIN R : th[t].seen[i] \in Terminal /\ run[R[i]].status = th[t].seen[i]
  BY <1>1 DEF SeenStays, ToSet
<1>3. Statuses(R, run) = ToSet(th[t].seen)
  BY <1>1, <1>2 DEF Statuses, ToSet
<1>4. Answer(t) = TrueStatus(th[t].task)
  BY <1>1, <1>3, TrueCases DEF Answer
<1>5. QED  BY <1>2, <1>4 DEF ToSet

LEMMA VerdictsAreTerminal ==
    ASSUME BenchInv, NEW t \in Threads, Reader(t),
           Len(th[t].seen) = Len(RunsOf(th[t].task)), Answer(t) \in Verdicts
    PROVE  ToSet(th[t].seen) \subseteq Terminal
<1> DEFINE S == ToSet(th[t].seen)
<1>1. S \in SUBSET (RunStatus \ {"ABSENT"}) /\ S # {}
  BY SeenAll
<1>2. Derive(S) \in Verdicts
  BY DEF Answer
<1> HIDE DEF S
<1>3. S # {"CREATED"}
  BY <1>1, <1>2, DeriveCases DEF Verdicts, Terminal
<1>4. "RUNNING" \notin Verdicts
  BY DEF Verdicts, Terminal
<1>5. S \subseteq Terminal
  BY <1>1, <1>2, <1>3, <1>4, DeriveCases
<1>6. QED  BY <1>5 DEF S

LEMMA ReportsStep ==
    ASSUME BenchInv, Next
    PROVE  ReportsOK' /\ report' \in [Tasks -> Verdicts \union {None}]
<1>1. Surroundings /\ ReportsOK /\ report \in [Tasks -> Verdicts \union {None}]
  BY SurroundingsStep DEF BenchInv, Shape
<1>2. \A k \in Tasks : report[k] # None =>
        /\ k \in Stored' /\ report[k] = TrueStatus(k)'
        /\ \A r \in ToSet(RunsOf(k)') : run'[r].status \in Terminal
  BY <1>1, KeptVerdict DEF ReportsOK
<1>3. CASE report' = report
  BY <1>1, <1>2, <1>3 DEF ReportsOK, RunsOf
<1>4. ASSUME NEW t \in Threads, ExportReport(t)
      PROVE  ReportsOK' /\ report' \in [Tasks -> Verdicts \union {None}]
  <2>1. th[t].pc = "report" /\ Reader(t) /\ Len(th[t].seen) = Len(RunsOf(th[t].task))
    BY <1>4 DEF ExportReport, BenchInv, ThreadOK, Reader
  <2>2. PICK k \in Stored : k = th[t].task
    BY <2>1 DEF Reader
  <2> DEFINE verdict == IF Answer(t) \in Verdicts THEN Answer(t) ELSE None
  <2>3. verdict # None =>
            /\ verdict = TrueStatus(k)
            /\ \A r \in ToSet(RunsOf(k)) : run[r].status \in Terminal
    BY <2>1, <2>2, VerdictsAreTerminal, VerdictIsTrue
  <2>4. verdict \in Verdicts \union {None} /\ report' = [report EXCEPT ![k] = verdict]
        /\ k \in Tasks
    BY <1>4, <2>2 DEF ExportReport, Stored
  <2> HIDE DEF verdict
  <2>5. verdict # None =>
            /\ k \in Stored' /\ TrueStatus(k)' = TrueStatus(k)
            /\ \A r \in ToSet(RunsOf(k)') : run'[r].status \in Terminal
    BY <1>1, <2>3, KeptVerdict
  <2>6. report'[k] = verdict /\ \A j \in Tasks \ {k} : report'[j] = report[j]
    BY <1>1, <2>4
  <2>7. report' \in [Tasks -> Verdicts \union {None}]
    BY <1>1, <2>4
  <2>8. ASSUME NEW j \in Tasks, report'[j] # None
        PROVE  /\ j \in Stored' /\ report'[j] = TrueStatus(j)'
               /\ \A r \in ToSet(RunsOf(j)') : run'[r].status \in Terminal
    <3>1. CASE j = k
      BY <2>3, <2>5, <2>6, <2>8, <3>1
    <3>2. CASE j # k
      BY <1>2, <2>6, <2>8, <3>2
    <3>3. QED  BY <3>1, <3>2
  <2>9. QED  BY <2>7, <2>8 DEF ReportsOK, RunsOf
<1>5. (\E t \in Threads : ExportReport(t)) \/ report' = report
  BY DEF Next, ThreadStep, GetTask, StopTask, Rerun, CreateTask, CreateRow, AutoStart, StoreTask,
         ReadRun, FinishSync, LookAtRun, CancelRun, FinishStop, ClientStarts,
         ClientCancels, RunBegins, RunEnds, ApiRestart
<1>6. QED  BY <1>3, <1>4, <1>5

-------------------------------------------------------------------------------
(* The step of a thread.                                                   *)

LEMMA IdleThread ==
    ASSUME BenchInv, NEW t \in Threads, th' = [th EXCEPT ![t] = Idle]
    PROVE  LocalsOf(Idle, t) /\ ThreadOK(t)'
<1>1. LocalsOf(Idle, t)
  BY IdleLocal, LocalChanges DEF LocalsOf, BenchInv
<1>2. th'[t].pc = "idle"
  BY <1>1, IdleLocal DEF LocalsOf
<1>3. QED  BY <1>1, <1>2 DEF ThreadOK

LEMMA ReadsAfresh ==
    ASSUME NEW t \in Threads, NEW k \in Stored', NEW next, th'[t] = Reading(k, next),
           Len(task'[k].runs) \in Nat
    PROVE  ThreadOK(t)'
<1>1. /\ th'[t].pc = "sync" /\ th'[t].task = k /\ th'[t].seen = <<>>
  BY ReadingLocal
<1>2. DOMAIN th'[t].seen = {} /\ Len(th'[t].seen) = 0
  BY <1>1
<1>3. SeenStays(t)' /\ CreatedWasTrue(t)' /\ RunningWasTrue(t)'
  BY <1>1, <1>2 DEF SeenStays, CreatedWasTrue, RunningWasTrue
<1>4. Reader(t)'
  BY <1>1, <1>2, <1>3 DEF Reader, RunsOf
<1>5. QED  BY <1>1, <1>4 DEF ThreadOK

LEMMA GetStep ==
    ASSUME BenchInv, Surroundings, NEW t \in Threads, GetTask(t)
    PROVE  LocalsOf(th'[t], t) /\ ThreadOK(t)'
<1>1. PICK k \in Stored, next \in {"idle", "report"} : LocalsOf(Reading(k, next), t)
  BY StartsRequest DEF BenchInv
<1>2. k \in Stored' /\ Len(task'[k].runs) \in Nat
  BY KeptRuns, StoredRuns DEF RunsOf
<1>3. th'[t] = Reading(k, next)
  BY <1>1 DEF LocalsOf
<1>4. QED  BY <1>1, <1>2, <1>3, ReadsAfresh

LEMMA StopStep ==
    ASSUME BenchInv, Surroundings, NEW t \in Threads, StopTask(t)
    PROVE  LocalsOf(th'[t], t) /\ ThreadOK(t)'
<1>1. PICK k \in Stored :
        LocalsOf(th'[t], t) /\ th'[t].pc = "look" /\ th'[t].task = k /\ th'[t].index = 1
  BY StartsRequest DEF BenchInv
<1>2. k \in Stored' /\ Len(task'[k].runs) \in Nat
  BY KeptRuns, StoredRuns DEF RunsOf
<1>3. Stopper(t)'
  BY <1>1, <1>2 DEF Stopper, RunsOf
<1>4. QED  BY <1>1, <1>3 DEF ThreadOK

LEMMA RerunStep ==
    ASSUME BenchInv, Surroundings, NEW t \in Threads, Rerun(t)
    PROVE  LocalsOf(th'[t], t) /\ ThreadOK(t)'
<1>1. PICK k \in Stored :
        /\ LocalsOf(th'[t], t) /\ th'[t].pc = "rows" /\ th'[t].source = k /\ th'[t].runs = <<>>
        /\ th'[t].rows = [i \in DOMAIN task[k].matrix |->
                              ReplayRow(task[k].matrix[i], task[k].mode)]
  BY StartsRequest DEF BenchInv
<1> DEFINE rows == [i \in DOMAIN task[k].matrix |-> ReplayRow(task[k].matrix[i], task[k].mode)]
<1>2. IsList(task[k].matrix) /\ Len(task[k].matrix) = Len(RunsOf(k))
      /\ Len(RunsOf(k)) \in Nat \ {0} /\ k \in Stored' /\ task'[k] = task[k]
  BY StoredRuns, KeptRuns DEF BenchInv, TasksOK
<1>3. rows = [i \in DOMAIN task[k].matrix |-> rows[i]] /\ th'[t].rows = rows
  BY <1>1
<1> HIDE DEF rows
<1>4. IsList(rows) /\ Len(rows) \in Nat \ {0}
  BY <1>2, <1>3, SameDomain
<1>5. rows # <<>>
  BY <1>4
<1>6. DOMAIN th'[t].runs = {} /\ Len(th'[t].runs) = 0
  BY <1>1
<1>7. Creator(t)'
  BY <1>1, <1>2, <1>3, <1>4, <1>5, <1>6 DEF Creator, Different, ToSet, rows
<1>8. QED  BY <1>1, <1>7 DEF ThreadOK

LEMMA CreateStep ==
    ASSUME BenchInv, Surroundings, NEW t \in Threads, CreateTask(t)
    PROVE  LocalsOf(th'[t], t) /\ ThreadOK(t)'
<1>1. PICK q \in Requests :
        /\ q.matrix # <<>> \/ Plannable(q)
        /\ LocalsOf(th'[t], t) /\ th'[t].pc = "rows" /\ th'[t].source = None
        /\ th'[t].runs = <<>> /\ th'[t].rows = Matrix(q)
  BY StartsRequest DEF BenchInv
<1>2. IsList(th'[t].rows) /\ th'[t].rows # <<>>
  BY <1>1, MatricesAreLists DEF IsList
<1>3. Len(th'[t].rows) \in Nat
  BY <1>2, LenProperties DEF IsList
<1>4. DOMAIN th'[t].runs = {} /\ Len(th'[t].runs) = 0
  BY <1>1
<1>5. Creator(t)'
  BY <1>1, <1>2, <1>3, <1>4 DEF Creator, Different, ToSet
<1>6. QED  BY <1>1, <1>5 DEF ThreadOK

LEMMA RowStep ==
    ASSUME BenchInv, Surroundings, NEW t \in Threads, CreateRow(t)
    PROVE  LocalsOf(th'[t], t) /\ ThreadOK(t)'
<1>1. CASE th' = [th EXCEPT ![t] = Idle]
  BY <1>1, IdleThread DEF LocalsOf
<1>2. CASE th' # [th EXCEPT ![t] = Idle]
  <2>1. PICK r \in Runs :
            /\ r = Cardinality(Used) + 1 /\ th[t].pc = "rows"
            /\ Len(th[t].runs) < Len(th[t].rows)
            /\ Accepted(th[t].rows[Len(th[t].runs) + 1])
            /\ run' = [run EXCEPT ![r].status = "CREATED"]
            /\ th' = [th EXCEPT ![t].runs = Append(@, r)]
    BY <1>2 DEF CreateRow, Become
  <2> DEFINE old == th[t].runs
             l == [th[t] EXCEPT !.runs = Append(old, r)]
  <2>2. IsLocal(th[t]) /\ Creator(t) /\ old \in Seq(Runs)
    BY <2>1 DEF BenchInv, Shape, ThreadOK, IsLocal
  <2>3. /\ Append(old, r) \in Seq(Runs) /\ Len(Append(old, r)) = Len(old) + 1
        /\ \A i \in 1 .. Len(old) : Append(old, r)[i] = old[i]
        /\ Append(old, r)[Len(old) + 1] = r
        /\ DOMAIN Append(old, r) = 1 .. Len(old) + 1 /\ DOMAIN old = 1 .. Len(old)
        /\ Len(old) \in Nat
    BY <2>2, AppendProperties, LenProperties
  <2>4. /\ IsLocal(l) /\ l.pc = "rows" /\ l.runs = Append(old, r)
        /\ l.rows = th[t].rows /\ l.source = th[t].source
    BY <2>1, <2>2, <2>3 DEF IsLocal
  <2>5. th' = [th EXCEPT ![t] = l]
    BY <2>1 DEF BenchInv, Shape
  <2> HIDE DEF l, old
  <2>6. LocalsOf(l, t)
    BY <2>4, <2>5, LocalChanges DEF LocalsOf, BenchInv
  <2>7. r \notin Used /\ r \in Used' /\ Used \subseteq Used'
    <3>1. run[r].status = "ABSENT" /\ run \in [Runs -> RunRecords]
      BY <2>1, NextRun DEF BenchInv, Shape, RunRecords
    <3>2. run'[r].status = "CREATED"
      BY <2>1, <3>1 DEF RunRecords
    <3>3. QED  BY <3>1, <3>2, KeptUsed DEF Used
  <2>8. /\ ToSet(old) \subseteq Used /\ Different(old)
        /\ \A i \in 1 .. Len(old) : Accepted(th[t].rows[i])
        /\ IsList(th[t].rows) /\ th[t].rows # <<>> /\ Len(old) <= Len(th[t].rows)
        /\ Len(th[t].rows) \in Nat
    BY <2>2, LenProperties DEF Creator, old, IsList
  <2>9. \A i \in 1 .. Len(old) : old[i] \in Used /\ old[i] # r
    BY <2>3, <2>7, <2>8 DEF ToSet
  <2>10. ToSet(Append(old, r)) \subseteq Used'
    <3>1. \A i \in 1 .. Len(old) + 1 : Append(old, r)[i] \in Used'
      BY <2>3, <2>7, <2>9
    <3>2. QED  BY <2>3, <3>1 DEF ToSet
  <2>11. Different(Append(old, r))
    <3>1. \A i \in 1 .. Len(old) + 1 : i \in 1 .. Len(old) \/ i = Len(old) + 1
      BY <2>3
    <3>2. \A i, j \in 1 .. Len(old) : old[i] = old[j] => i = j
      BY <2>3, <2>8 DEF Different
    <3>3. QED  BY <2>3, <2>9, <3>1, <3>2 DEF Different
  <2>12. \A i \in 1 .. Len(old) + 1 : Accepted(th[t].rows[i])
    <3>1. \A i \in 1 .. Len(old) + 1 : i \in 1 .. Len(old) \/ i = Len(old) + 1
      BY <2>3
    <3>2. QED  BY <2>1, <2>8, <3>1 DEF old
  <2>13. Len(old) + 1 <= Len(th[t].rows)
    BY <2>1, <2>3, <2>8 DEF old
  <2>14. th[t].source # None =>
            /\ th[t].source \in Stored' /\ task'[th[t].source] = task[th[t].source]
            /\ th[t].rows = [i \in DOMAIN task[th[t].source].matrix |->
                    ReplayRow(task[th[t].source].matrix[i], task[th[t].source].mode)]
    BY <2>2, KeptRuns DEF Creator
  <2>15. /\ th'[t] = l /\ th'[t].runs = Append(old, r) /\ th'[t].rows = th[t].rows
         /\ th'[t].source = th[t].source
    BY <2>4, <2>6 DEF LocalsOf
  <2>16. Creator(t)'
    BY <2>3, <2>8, <2>10, <2>11, <2>12, <2>13, <2>14, <2>15 DEF Creator
  <2>17. th'[t].pc = "rows"
    BY <2>4, <2>15
  <2>18. QED  BY <2>6, <2>15, <2>16, <2>17 DEF ThreadOK
<1>3. QED  BY <1>1, <1>2

LEMMA AutoStep ==
    ASSUME BenchInv, Surroundings, NEW t \in Threads, AutoStart(t)
    PROVE  LocalsOf(th'[t], t) /\ ThreadOK(t)'
<1>1. CASE th' = [th EXCEPT ![t] = Idle]
  BY <1>1, IdleThread DEF LocalsOf
<1>2. CASE th' # [th EXCEPT ![t] = Idle]
  <2>1. th[t].pc = "rows" /\ th' = [th EXCEPT ![t].auto = FALSE]
    BY <1>2 DEF AutoStart, Complete, Become
  <2> DEFINE l == [th[t] EXCEPT !.auto = FALSE]
  <2>2. IsLocal(th[t]) /\ Creator(t)
    BY <2>1 DEF BenchInv, Shape, ThreadOK
  <2>3. /\ IsLocal(l) /\ l.pc = "rows" /\ l.runs = th[t].runs
        /\ l.rows = th[t].rows /\ l.source = th[t].source
    BY <2>1, <2>2 DEF IsLocal
  <2>4. th' = [th EXCEPT ![t] = l]
    BY <2>1 DEF BenchInv, Shape
  <2> HIDE DEF l
  <2>5. LocalsOf(l, t)
    BY <2>3, <2>4, LocalChanges DEF LocalsOf, BenchInv
  <2>6. th'[t] = l
    BY <2>5 DEF LocalsOf
  <2>7. Creator(t)'
    BY <2>2, <2>3, <2>6, KeptCreator
  <2>8. QED  BY <2>3, <2>5, <2>6, <2>7 DEF ThreadOK
<1>3. QED  BY <1>1, <1>2

LEMMA StoreStep ==
    ASSUME BenchInv, Surroundings, NEW t \in Threads, StoreTask(t)
    PROVE  LocalsOf(th'[t], t) /\ ThreadOK(t)'
<1>1. PICK k \in Tasks :
        /\ task' = [task EXCEPT ![k] =
              [runs |-> th[t].runs, mode |-> th[t].mode,
               matrix |-> [i \in DOMAIN th[t].rows |-> Entry(th[t].rows[i])]]]
        /\ th' = [th EXCEPT ![t] = Reading(k, "idle")]
  BY DEF StoreTask, Become
<1>2. th[t].runs # <<>> /\ th[t].runs \in Seq(Runs)
  BY HeadRun DEF StoreTask, BenchInv, Shape, IsLocal
<1>3. task'[k].runs = th[t].runs
  BY <1>1 DEF BenchInv, Shape
<1>4. k \in Stored' /\ Len(task'[k].runs) \in Nat
  BY <1>2, <1>3 DEF Stored
<1>5. LocalsOf(Reading(k, "idle"), t)
  BY <1>1, ReadingLocal, LocalChanges DEF LocalsOf, BenchInv
<1>6. th'[t] = Reading(k, "idle")
  BY <1>5 DEF LocalsOf
<1>7. QED  BY <1>4, <1>5, <1>6, ReadsAfresh

LEMMA ReadStep ==
    ASSUME BenchInv, Surroundings, NEW t \in Threads, ReadRun(t)
    PROVE  LocalsOf(th'[t], t) /\ ThreadOK(t)'
<1>1. th[t].pc = "sync" /\ Reader(t) /\ IsLocal(th[t]) /\ th[t].seen \in Seq(RunStatus)
      /\ th[t].task \in Stored
  BY DEF ReadRun, BenchInv, Shape, ThreadOK, IsLocal, Reader
<1>2. PICK k \in Stored : k = th[t].task
  BY <1>1
<1> DEFINE R == RunsOf(k)
           n == Len(th[t].seen)
           status == run[R[n + 1]].status
           seen == Append(th[t].seen, status)
           l == [th[t] EXCEPT !.seen = seen]
<1>3. n + 1 \in DOMAIN R /\ th' = [th EXCEPT ![t] = l] /\ run' = run /\ n \in Nat
  BY <1>1, <1>2 DEF ReadRun, RunsOf, BenchInv, Shape
<1>4. /\ status \in RunStatus \ {"ABSENT"} /\ DOMAIN R = 1 .. Len(R) /\ Len(R) \in Nat \ {0}
      /\ \A i \in DOMAIN R : run[R[i]].status \in RunStatus \ {"ABSENT"}
  BY <1>3, StoredRuns
<1>5. /\ seen \in Seq(RunStatus) /\ Len(seen) = n + 1 /\ DOMAIN seen = 1 .. n + 1
      /\ DOMAIN th[t].seen = 1 .. n /\ \A i \in 1 .. n : seen[i] = th[t].seen[i]
      /\ seen[n + 1] = status
  BY <1>1, <1>4, AppendProperties, LenProperties
<1> HIDE DEF seen
<1>6. IsLocal(l) /\ l.pc = "sync" /\ l.task = k /\ l.seen = seen
  BY <1>1, <1>2, <1>5 DEF IsLocal
<1> HIDE DEF l
<1>7. LocalsOf(l, t)
  BY <1>3, <1>6, LocalChanges DEF LocalsOf, BenchInv
<1>8. /\ th'[t].pc = "sync" /\ th'[t].task = k /\ th'[t].seen = seen
      /\ k \in Stored' /\ task'[k].runs = R /\ held'[t] = held[t] \union {TrueStatus(k)}
  BY <1>1, <1>2, <1>6, <1>7, KeptRuns DEF LocalsOf, RunsOf, Surroundings, Observe
<1>9. \A i \in 1 .. n + 1 : i \in 1 .. n \/ i = n + 1
  BY <1>3
<1>10. ASSUME NEW i \in DOMAIN seen
       PROVE  /\ seen[i] # "ABSENT"
              /\ seen[i] \in Terminal => run[R[i]].status = seen[i]
              /\ seen[i] # "CREATED" => run[R[i]].status \notin {"ABSENT", "CREATED"}
  <2>1. CASE i = n + 1
    BY <1>4, <1>5, <2>1
  <2>2. CASE i \in 1 .. n
    <3>1. SeenStays(t)
      BY <1>1 DEF Reader
    <3>2. QED  BY <1>2, <1>5, <2>2, <3>1 DEF SeenStays, Begun
  <2>3. QED  BY <1>5, <1>9, <1>10, <2>1, <2>2
<1>11. SeenStays(t)'
  BY <1>3, <1>8, <1>10 DEF SeenStays, Begun, RunsOf
<1>12. ASSUME \A i \in DOMAIN seen : seen[i] = "CREATED"
       PROVE  "CREATED" \in held'[t] \/
              \E i \in n + 2 .. Len(R) : run[R[i]].status \notin {"ABSENT", "CREATED"}
  <2>1. run[R[n + 1]].status = "CREATED"
    BY <1>3, <1>5, <1>12
  <2>2. ASSUME NEW i \in n + 1 .. Len(R), run[R[i]].status \notin {"ABSENT", "CREATED"}
        PROVE  i \in n + 2 .. Len(R)
    BY <1>3, <1>4, <2>1, <2>2
  <2>3. CASE th[t].seen = <<>>
    <3>1. n = 0
      BY <2>3
    <3>2. CASE NothingBegun(k)
      BY <1>8, <3>2, TrueCases
    <3>3. CASE ~ NothingBegun(k)
      <4>1. PICK i \in DOMAIN R : run[R[i]].status # "CREATED"
        BY <3>3 DEF NothingBegun
      <4>2. i \in n + 1 .. Len(R) /\ run[R[i]].status \notin {"ABSENT", "CREATED"}
        BY <1>4, <3>1, <4>1
      <4>3. QED  BY <2>2, <4>2
    <3>4. QED  BY <3>2, <3>3
  <2>4. CASE th[t].seen # <<>>
    <3>1. AllSeenCreated(t)
      <4>1. \A i \in 1 .. n : seen[i] = "CREATED"
        BY <1>3, <1>5, <1>12
      <4>2. QED  BY <1>5, <4>1 DEF AllSeenCreated
    <3>2. "CREATED" \in held[t] \/ \E i \in n + 1 .. Len(R) : Begun(R[i])
      BY <1>1, <1>2, <2>4, <3>1 DEF Reader, CreatedWasTrue, Unread
    <3>3. QED  BY <1>8, <2>2, <3>2 DEF Begun
  <2>5. QED  BY <2>3, <2>4
<1>13. CreatedWasTrue(t)'
  <2>1. n + 2 = n + 1 + 1
    BY <1>3
  <2>2. th'[t].seen = seen /\ Len(th'[t].seen) + 1 = n + 2 /\ RunsOf(th[t].task)' = R
    BY <1>3, <1>5, <1>8, <2>1 DEF RunsOf
  <2>3. Unread(t)' = n + 2 .. Len(R)
    BY <2>2 DEF Unread
  <2>4. CASE \A i \in DOMAIN seen : seen[i] = "CREATED"
    <3>1. CASE "CREATED" \in held'[t]
      BY <3>1 DEF CreatedWasTrue
    <3>2. CASE \E i \in n + 2 .. Len(R) : run[R[i]].status \notin {"ABSENT", "CREATED"}
      <4>1. PICK i \in n + 2 .. Len(R) : run[R[i]].status \notin {"ABSENT", "CREATED"}
        BY <3>2
      <4>2. run'[RunsOf(th[t].task)'[i]].status \notin {"ABSENT", "CREATED"}
        BY <1>3, <2>2, <4>1
      <4>3. QED  BY <2>3, <4>1, <4>2 DEF CreatedWasTrue, Begun
    <3>3. QED  BY <1>12, <2>4, <3>1, <3>2
  <2>5. CASE ~ \A i \in DOMAIN seen : seen[i] = "CREATED"
    BY <2>2, <2>5 DEF CreatedWasTrue, AllSeenCreated
  <2>6. QED  BY <2>4, <2>5
<1>14. ASSUME NEW i \in DOMAIN seen, seen[i] \notin Terminal
       PROVE  "RUNNING" \in held'[t] \/ NothingBegun(k)
  <2>1. CASE i = n + 1
    <3>1. run[R[n + 1]].status \notin Terminal
      BY <1>5, <1>14, <2>1
    <3>2. NothingBegun(k) \/ TrueStatus(k) = "RUNNING"
      BY <1>3, <3>1, TrueCases
    <3>3. QED  BY <1>8, <3>2
  <2>2. CASE i \in 1 .. n
    <3>1. th[t].seen[i] \notin Terminal /\ i \in DOMAIN th[t].seen
      BY <1>5, <1>14, <2>2
    <3>2. \/ "RUNNING" \in held[t] \union {TrueStatus(k)}
          \/ NothingBegun(k)
          \/ Len(R) = 1
      BY <1>1, <1>2, <3>1 DEF Reader, RunningWasTrue
    <3>3. Len(R) # 1
      BY <1>3, <1>4, <2>2
    <3>4. QED  BY <1>8, <3>2, <3>3
  <2>3. QED  BY <1>5, <1>9, <1>14, <2>1, <2>2
<1>15. NothingBegun(k) => NothingBegun(k)'
  BY <1>3, <1>8 DEF NothingBegun, RunsOf
<1>16. RunningWasTrue(t)'
  BY <1>8, <1>14, <1>15 DEF RunningWasTrue, NothingBegun, RunsOf
<1>17. Reader(t)'
  BY <1>3, <1>4, <1>5, <1>8, <1>11, <1>13, <1>16 DEF Reader, RunsOf
<1>18. QED  BY <1>6, <1>7, <1>8, <1>17 DEF ThreadOK, LocalsOf

LEMMA SyncStep ==
    ASSUME BenchInv, Surroundings, NEW t \in Threads, FinishSync(t)
    PROVE  LocalsOf(th'[t], t) /\ ThreadOK(t)'
<1>1. CASE th' = [th EXCEPT ![t] = Idle]
  BY <1>1, IdleThread DEF LocalsOf
<1>2. CASE th' # [th EXCEPT ![t] = Idle]
  <2> DEFINE l == [th[t] EXCEPT !.pc = "report"]
  <2>1. /\ ReadAll(t) /\ th' = [th EXCEPT ![t] = l]
    BY <1>2 DEF FinishSync, Become, BenchInv, Shape
  <2>2. IsLocal(th[t]) /\ Reader(t)
    BY <2>1 DEF ReadAll, BenchInv, Shape, ThreadOK
  <2>3. IsLocal(l) /\ l.pc = "report" /\ l.task = th[t].task /\ l.seen = th[t].seen
    BY <2>2 DEF IsLocal, Pc
  <2> HIDE DEF l
  <2>4. LocalsOf(l, t)
    BY <2>1, <2>3, LocalChanges DEF LocalsOf, BenchInv
  <2>5. th'[t] = l
    BY <2>4 DEF LocalsOf
  <2>6. SeenStays(t)'
    BY <2>2, <2>3, <2>5, KeptSeen
  <2>7. th[t].task \in Stored' /\ task'[th[t].task] = task[th[t].task]
    BY <2>2, KeptRuns DEF Reader
  <2>8. Reader(t)'
    BY <2>1, <2>2, <2>3, <2>5, <2>6, <2>7 DEF Reader, ReadAll, RunsOf
  <2>9. QED  BY <2>3, <2>4, <2>5, <2>8 DEF ThreadOK
<1>3. QED  BY <1>1, <1>2

LEMMA LookStep ==
    ASSUME BenchInv, Surroundings, NEW t \in Threads, LookAtRun(t)
    PROVE  LocalsOf(th'[t], t) /\ ThreadOK(t)'
<1>1. /\ th[t].pc = "look" /\ Looking(t) /\ Stopper(t) /\ IsLocal(th[t]) /\ th[t].task \in Stored
      /\ th[t].index \in Nat \ {0}
  BY DEF LookAtRun, BenchInv, Shape, ThreadOK, Stopper, IsLocal
<1>2. PICK k \in Stored : k = th[t].task
  BY <1>1
<1> DEFINE R == RunsOf(k)
           i == th[t].index
<1>3. /\ i \in DOMAIN R /\ Len(R) \in Nat /\ i <= Len(R) /\ R[i] \in Runs
      /\ This(t) = R[i] /\ task'[k].runs = R /\ k \in Stored'
      /\ \A j \in DOMAIN R : Moves(run[R[j]], run'[R[j]])
  BY <1>1, <1>2, StoredRuns, KeptRuns DEF Looking, This, RunsOf
<1>4. \A j \in 1 .. i - 1 : Settled(run'[R[j]])
  <2>1. \A j \in 1 .. i - 1 : j \in DOMAIN R /\ Settled(run[R[j]])
    BY <1>1, <1>2, <1>3, StoredRuns DEF Stopper
  <2>2. QED  BY <1>3, <2>1 DEF Moves
<1>5. CASE ToBeCanceled(run[This(t)].status)
  <2> DEFINE l == [th[t] EXCEPT !.pc = "cancel"]
  <2>1. th' = [th EXCEPT ![t] = l]
    BY <1>5 DEF LookAtRun, BenchInv, Shape
  <2>2. IsLocal(l) /\ l.pc = "cancel" /\ l.task = k /\ l.index = i
    BY <1>1, <1>2 DEF IsLocal, Pc
  <2> HIDE DEF l
  <2>3. LocalsOf(l, t)
    BY <2>1, <2>2, LocalChanges DEF LocalsOf, BenchInv
  <2>4. th'[t].pc = "cancel" /\ th'[t].task = k /\ th'[t].index = i
    BY <2>2, <2>3 DEF LocalsOf
  <2>5. Stopper(t)'
    BY <1>3, <1>4, <2>4 DEF Stopper, RunsOf
  <2>6. QED  BY <2>3, <2>4, <2>5 DEF ThreadOK, LocalsOf
<1>6. CASE ~ ToBeCanceled(run[This(t)].status)
  <2> DEFINE l == [th[t] EXCEPT !.index = i + 1]
  <2>1. th' = [th EXCEPT ![t] = l]
    BY <1>6 DEF LookAtRun, BenchInv, Shape
  <2>2. IsLocal(l) /\ l.pc = "look" /\ l.task = k /\ l.index = i + 1
    BY <1>1, <1>2 DEF IsLocal
  <2> HIDE DEF l
  <2>3. LocalsOf(l, t)
    BY <2>1, <2>2, LocalChanges DEF LocalsOf, BenchInv
  <2>4. th'[t].pc = "look" /\ th'[t].task = k /\ th'[t].index = i + 1
    BY <2>2, <2>3 DEF LocalsOf
  <2>5. Settled(run'[R[i]])
    BY <1>3, <1>6 DEF ToBeCanceled, Settled, Moves
  <2>6. \A j \in 1 .. th'[t].index - 1 : Settled(run'[R[j]])
    <3>1. \A j \in 1 .. i : j \in 1 .. i - 1 \/ j = i
      BY <1>1
    <3>2. th'[t].index - 1 = i
      BY <1>1, <2>4
    <3>3. QED  BY <1>4, <2>5, <3>1, <3>2
  <2>7. Stopper(t)'
    <3>1. i + 1 <= Len(R) + 1 /\ "look" # "cancel"
      BY <1>1, <1>3
    <3>2. th'[t].index <= Len(task'[k].runs) + 1 /\ th'[t].pc # "cancel"
      BY <1>3, <2>4, <3>1
    <3>3. QED  BY <1>3, <2>4, <2>6, <3>2 DEF Stopper, RunsOf
  <2>8. QED  BY <2>3, <2>4, <2>7 DEF ThreadOK, LocalsOf
<1>7. QED  BY <1>5, <1>6

LEMMA CancelStep ==
    ASSUME BenchInv, Surroundings, NEW t \in Threads, CancelRun(t)
    PROVE  LocalsOf(th'[t], t) /\ ThreadOK(t)'
<1>1. CASE th' = [th EXCEPT ![t] = Idle]
  BY <1>1, IdleThread DEF LocalsOf
<1>2. CASE th' # [th EXCEPT ![t] = Idle]
  <2>1. /\ th[t].pc = "cancel" /\ Stopper(t) /\ IsLocal(th[t]) /\ th[t].task \in Stored
        /\ th[t].index \in Nat \ {0} /\ run \in [Runs -> RunRecords]
    BY DEF CancelRun, BenchInv, Shape, ThreadOK, Stopper, IsLocal, RunRecords
  <2>2. PICK k \in Stored : k = th[t].task
    BY <2>1
  <2> DEFINE R == RunsOf(k)
             i == th[t].index
             l == [th[t] EXCEPT !.pc = "look", !.index = i + 1, !.handled = TRUE]
  <2>3. /\ run[This(t)].status \notin Terminal
        /\ run' = [run EXCEPT ![This(t)] = Canceled(run[This(t)])]
        /\ th' = [th EXCEPT ![t] = l]
    BY <1>2, <2>1 DEF CancelRun, Become, BenchInv, Shape
  <2>4. /\ i \in DOMAIN R /\ Len(R) \in Nat /\ This(t) = R[i] /\ R[i] \in Runs
        /\ task'[k].runs = R /\ k \in Stored' /\ i <= Len(R)
        /\ run[R[i]].status # "ABSENT"
        /\ \A j \in DOMAIN R : Moves(run[R[j]], run'[R[j]])
    BY <2>1, <2>2, ThisRun, StoredRuns, KeptRuns DEF This, RunsOf
  <2>5. \A j \in 1 .. i - 1 : Settled(run'[R[j]])
    <3>1. \A j \in 1 .. i - 1 : j \in DOMAIN R /\ Settled(run[R[j]])
      BY <2>1, <2>2, <2>4, StoredRuns DEF Stopper
    <3>2. QED  BY <2>4, <3>1 DEF Moves
  <2>6. Settled(run'[R[i]])
    <3>1. run'[R[i]] = Canceled(run[R[i]])
      BY <2>1, <2>3, <2>4
    <3>2. QED  BY <2>1, <2>3, <2>4, <3>1, CanceledMoves
  <2>7. IsLocal(l) /\ l.pc = "look" /\ l.task = k /\ l.index = i + 1
    <3> DEFINE o == th[t]
    <3>1. o \in [pc : Pc, then : {o.then}, task : {o.task}, source : {o.source}, rows : {o.rows},
                 mode : {o.mode}, auto : BOOLEAN, runs : Seq(Runs), seen : Seq(RunStatus),
                 index : Nat \ {0}, handled : BOOLEAN]
      BY <2>1 DEF IsLocal
    <3>2. i + 1 \in Nat \ {0} /\ "look" \in Pc
      BY <2>1 DEF Pc
    <3> HIDE DEF i
    <3>3. l.pc = "look" /\ l.index = i + 1 /\ l.handled = TRUE /\ l.then = o.then
          /\ l.task = o.task /\ l.source = o.source /\ l.rows = o.rows /\ l.mode = o.mode
      BY <3>1
    <3>4. l \in [pc : Pc, then : {o.then}, task : {o.task}, source : {o.source}, rows : {o.rows},
                 mode : {o.mode}, auto : BOOLEAN, runs : Seq(Runs), seen : Seq(RunStatus),
                 index : Nat \ {0}, handled : BOOLEAN]
      BY <3>1, <3>2
    <3>5. IsLocal(l)
      BY <3>3, <3>4 DEF IsLocal
    <3>6. QED  BY <2>2, <3>3, <3>5
  <2> HIDE DEF l
  <2>8. LocalsOf(l, t)
    BY <2>3, <2>7, LocalChanges DEF LocalsOf, BenchInv
  <2>9. th'[t].pc = "look" /\ th'[t].task = k /\ th'[t].index = i + 1
    BY <2>7, <2>8 DEF LocalsOf
  <2>10. \A j \in 1 .. th'[t].index - 1 : Settled(run'[R[j]])
    <3>1. \A j \in 1 .. i : j \in 1 .. i - 1 \/ j = i
      BY <2>1
    <3>2. th'[t].index - 1 = i
      BY <2>1, <2>9
    <3>3. QED  BY <2>5, <2>6, <3>1, <3>2
  <2>11. Stopper(t)'
    <3>1. i + 1 <= Len(R) + 1 /\ "look" # "cancel"
      BY <2>1, <2>4
    <3>2. th'[t].index <= Len(task'[k].runs) + 1 /\ th'[t].pc # "cancel"
      BY <2>4, <2>9, <3>1
    <3>3. QED  BY <2>4, <2>9, <2>10, <3>2 DEF Stopper, RunsOf
  <2>12. QED  BY <2>8, <2>9, <2>11 DEF ThreadOK, LocalsOf
<1>3. QED  BY <1>1, <1>2

LEMMA FinishStep ==
    ASSUME BenchInv, Surroundings, NEW t \in Threads, FinishStop(t)
    PROVE  LocalsOf(th'[t], t) /\ ThreadOK(t)'
<1>1. CASE th' = [th EXCEPT ![t] = Idle]
  BY <1>1, IdleThread DEF LocalsOf
<1>2. CASE th' # [th EXCEPT ![t] = Idle]
  <2>1. th[t].task \in Stored /\ th' = [th EXCEPT ![t] = Reading(th[t].task, "idle")]
    BY <1>2 DEF FinishStop, Become, BenchInv, ThreadOK, Stopper
  <2>2. PICK k \in Stored : k = th[t].task
    BY <2>1
  <2>3. LocalsOf(Reading(k, "idle"), t)
    BY <2>1, <2>2, ReadingLocal, LocalChanges DEF LocalsOf, BenchInv
  <2>4. th'[t] = Reading(k, "idle")
    BY <2>3 DEF LocalsOf
  <2>5. k \in Stored' /\ Len(task'[k].runs) \in Nat
    BY KeptRuns, StoredRuns DEF RunsOf
  <2>6. QED  BY <2>3, <2>4, <2>5, ReadsAfresh
<1>3. QED  BY <1>1, <1>2

LEMMA ThreadsStep ==
    ASSUME BenchInv, Next
    PROVE  /\ th' = [t \in Threads |-> th'[t]] /\ \A t \in Threads : IsLocal(th'[t])
           /\ \A t \in Threads : ThreadOK(t)'
<1>1. Surroundings
  BY SurroundingsStep
<1>2. ASSUME NEW t \in Threads,
             GetTask(t) \/ StopTask(t) \/ Rerun(t) \/ CreateTask(t) \/ ThreadStep(t)
      PROVE  LocalsOf(th'[t], t) /\ ThreadOK(t)'
  <2>1. ASSUME ExportReport(t) PROVE LocalsOf(th'[t], t) /\ ThreadOK(t)'
    BY <2>1, IdleThread DEF ExportReport, Become, LocalsOf
  <2>2. QED
    BY <1>1, <1>2, <2>1, GetStep, StopStep, RerunStep, CreateStep, RowStep, AutoStep, StoreStep,
       ReadStep, SyncStep, LookStep, CancelStep, FinishStep DEF ThreadStep
<1>3. ASSUME NEW t \in Threads, LocalsOf(th'[t], t), ThreadOK(t)'
      PROVE  /\ th' = [u \in Threads |-> th'[u]] /\ \A u \in Threads : IsLocal(th'[u])
             /\ \A u \in Threads : ThreadOK(u)'
  BY <1>1, <1>3, KeptThread DEF LocalsOf
<1>4. ASSUME th' = th
      PROVE  /\ th' = [u \in Threads |-> th'[u]] /\ \A u \in Threads : IsLocal(th'[u])
             /\ \A u \in Threads : ThreadOK(u)'
  BY <1>1, <1>4, KeptThread DEF BenchInv, Shape
<1>5. ASSUME NEW r \in Runs, ClientStarts(r) \/ ClientCancels(r) \/ RunBegins(r) \/ RunEnds(r)
      PROVE  th' = th
  BY <1>5 DEF ClientStarts, ClientCancels, RunBegins, RunEnds
<1>6. ASSUME ApiRestart
      PROVE  /\ th' = [u \in Threads |-> th'[u]] /\ \A u \in Threads : IsLocal(th'[u])
             /\ \A u \in Threads : ThreadOK(u)'
  <2>1. th' = [u \in Threads |-> Idle]
    BY <1>6 DEF ApiRestart
  <2>2. \A u \in Threads : th'[u] = Idle
    BY <2>1
  <2>3. \A u \in Threads : th'[u].pc = "idle" /\ IsLocal(th'[u])
    BY <2>2, IdleLocal
  <2>4. QED  BY <2>1, <2>3 DEF ThreadOK
<1>7. QED  BY <1>2, <1>3, <1>4, <1>5, <1>6 DEF Next

-------------------------------------------------------------------------------
LEMMA BenchInit == Init => BenchInv
<1> SUFFICES ASSUME Init PROVE BenchInv
  OBVIOUS
<1>1. run \in [Runs -> RunRecords] /\ Used = {}
  BY DEF Init, RunRecords, RunStatus, Used
<1>2. Cardinality(Used) = 0 /\ Used = 1 .. 0
  BY <1>1, FS_EmptySet
<1>3. \A k \in Tasks : task[k] = NoTask /\ IsTask(task[k]) /\ task[k].runs = <<>>
  <2>1. <<>> \in Seq(Runs)
    OBVIOUS
  <2>2. IsTask(NoTask) /\ NoTask.runs = <<>>
    BY <2>1 DEF NoTask, IsTask
  <2>3. QED  BY <2>2 DEF Init
<1>4. Stored = {}
  BY <1>3 DEF Stored
<1>5. \A t \in Threads : th[t].pc = "idle" /\ IsLocal(th[t])
  BY IdleLocal DEF Init
<1>6. th = [t \in Threads |-> th[t]] /\ task = [k \in Tasks |-> task[k]]
      /\ report \in [Tasks -> Verdicts \union {None}] /\ held \in [Threads -> SUBSET TaskStatus]
      /\ \A k \in Tasks : report[k] = None
  BY DEF Init
<1>7. Shape
  BY <1>1, <1>2, <1>3, <1>5, <1>6 DEF Shape, RunRecords
<1>8. TasksOK /\ StoppedOK /\ ReportsOK
  BY <1>4, <1>6 DEF TasksOK, StoppedOK, ReportsOK, Init
<1>9. \A t \in Threads : ThreadOK(t)
  BY <1>5 DEF ThreadOK
<1>10. QED  BY <1>7, <1>8, <1>9 DEF BenchInv

LEMMA BenchNext == BenchInv /\ [Next]_vars => BenchInv'
<1>1. ASSUME BenchInv, Next PROVE BenchInv'
  <2>1. Surroundings
    BY <1>1, SurroundingsStep
  <2>2. Shape'
    BY <1>1, <2>1, HeldStep, UsedStep, TasksStep, ReportsStep, ThreadsStep
    DEF Shape, Surroundings, RunRecords
  <2>3. QED  BY <1>1, <2>2, TasksStep, ReportsStep, ThreadsStep, StoppedStep DEF BenchInv
<1>2. ASSUME BenchInv, UNCHANGED vars PROVE BenchInv'
  <2>1. Stored' = Stored /\ Used' = Used
    BY <1>2 DEF vars, Stored, Used
  <2>2. Shape'
    BY <1>2, <2>1 DEF vars, BenchInv, Shape, IsLocal, IsTask
  <2>3. TasksOK'
    BY <1>2, <2>1 DEF vars, BenchInv, TasksOK, RunsOf
  <2>4. \A t \in Threads : ThreadOK(t)'
    <3>1. ASSUME NEW t \in Threads, Creator(t) PROVE Creator(t)'
      BY <1>2, <2>1, <3>1 DEF vars, Creator
    <3>2. ASSUME NEW t \in Threads, Stopper(t) PROVE Stopper(t)'
      BY <1>2, <2>1, <3>2 DEF vars, Stopper, RunsOf
    <3>3. ASSUME NEW t \in Threads, Reader(t) PROVE Reader(t)'
      BY <1>2, <2>1, <3>3
      DEF vars, Reader, RunsOf, SeenStays, Begun, CreatedWasTrue, AllSeenCreated, Unread,
          RunningWasTrue, NothingBegun, TrueStatus
    <3>4. QED  BY <1>2, <3>1, <3>2, <3>3 DEF vars, BenchInv, ThreadOK
  <2>5. StoppedOK' /\ ReportsOK'
    BY <1>2, <2>1 DEF vars, BenchInv, StoppedOK, ReportsOK, RunsOf, TrueStatus
  <2>6. QED  BY <2>2, <2>3, <2>4, <2>5 DEF BenchInv
<1>3. QED  BY <1>1, <1>2

LEMMA BenchInvariant == Spec => []BenchInv
  BY BenchInit, BenchNext, PTL DEF Spec

(* However many runs a task has and however they move on while a request   *)
(* reads them (_sync_task): its answer was true while it read, and a       *)
(* verdict that a report gives (export_report) stays right for good.       *)
THEOREM AnswersWereTrue == Spec => []AnswerWasTrue
<1>1. ASSUME BenchInv, NEW t \in Threads, ReadAll(t)
      PROVE  Answer(t) \in held[t] \union {TrueStatus(th[t].task)}
  <2> DEFINE k == th[t].task
             S == ToSet(th[t].seen)
  <2>1. /\ Reader(t) /\ k \in Stored /\ Len(th[t].seen) = Len(RunsOf(k))
        /\ SeenStays(t) /\ CreatedWasTrue(t) /\ RunningWasTrue(t)
    BY <1>1 DEF ReadAll, BenchInv, ThreadOK, Reader, RunsOf
  <2>2. /\ S \in SUBSET (RunStatus \ {"ABSENT"}) /\ S # {} /\ th[t].seen # <<>>
        /\ DOMAIN th[t].seen = DOMAIN RunsOf(k)
    BY <1>1, <2>1, SeenAll
  <2>3. CASE S \subseteq Terminal
    BY <1>1, <2>1, <2>3, VerdictIsTrue
  <2>4. CASE S = {"CREATED"}
    <3>1. AllSeenCreated(t)
      BY <2>4 DEF AllSeenCreated, ToSet
    <3>2. Unread(t) = {}
      BY <1>1, <2>1, StoredRuns DEF Unread
    <3>3. "CREATED" \in held[t]
      BY <2>1, <2>2, <3>1, <3>2 DEF CreatedWasTrue
    <3>4. Derive(S) = "CREATED"
      BY <2>2, <2>4, DeriveCases
    <3>5. QED  BY <3>3, <3>4 DEF Answer
  <2>5. CASE S # {"CREATED"} /\ ~ S \subseteq Terminal
    <3>1. Answer(t) = "RUNNING"
      BY <2>2, <2>5, DeriveCases DEF Answer
    <3>2. \E i \in DOMAIN th[t].seen : th[t].seen[i] \notin Terminal
      BY <2>5 DEF ToSet
    <3>3. ~ AllSeenCreated(t)
      BY <2>2, <2>5 DEF AllSeenCreated, ToSet
    <3>4. ~ NothingBegun(k)
      BY <2>1, <2>2, <3>3 DEF AllSeenCreated, SeenStays, NothingBegun, Begun
    <3>5. QED  BY <2>1, <3>1, <3>2, <3>3, <3>4 DEF RunningWasTrue
  <2>6. QED  BY <2>3, <2>4, <2>5
<1>2. BenchInv => AnswerWasTrue
  BY <1>1 DEF AnswerWasTrue, BenchInv, ReportsOK
<1>3. QED  BY <1>2, BenchInvariant, PTL

(* However many requests and restarts: a stop that is acknowledged has     *)
(* reached every run of its task (stop_benchmark_task).                    *)
THEOREM StopsReachAllRuns == Spec => []StopReachesAllRuns
<1>1. BenchInv => StopReachesAllRuns
  BY DEF BenchInv, StoppedOK, StopReachesAllRuns, Settled, RunsOf
<1>2. QED  BY <1>1, BenchInvariant, PTL

(* Whatever the catalogue, the presets and the profiles: a rerun is        *)
(* accepted and resolves to the configuration of the task it repeats       *)
(* (rerun_benchmark_task).                                                 *)
THEOREM RerunsRepeat == Spec => []RerunRepeats
<1>1. ASSUME BenchInv, NEW t \in Threads, th[t].pc = "rows", th[t].source # None
      PROVE  LET matrix == task[th[t].source].matrix
             IN  /\ Len(th[t].rows) = Len(matrix)
                 /\ \A i \in DOMAIN matrix :
                      /\ Accepted(th[t].rows[i])
                      /\ Configuration(Entry(th[t].rows[i])) = Configuration(matrix[i])
  <2> DEFINE k == th[t].source
             matrix == task[k].matrix
             rows == [i \in DOMAIN matrix |-> ReplayRow(matrix[i], task[k].mode)]
  <2>1. k \in Stored /\ th[t].rows = rows
    BY <1>1 DEF BenchInv, ThreadOK, Creator
  <2>2. IsList(matrix) /\ \A i \in DOMAIN matrix : Repeats(matrix[i], task[k].mode)
    BY <1>1, <2>1 DEF BenchInv, TasksOK
  <2>3. \A i \in DOMAIN matrix : rows[i] = ReplayRow(matrix[i], task[k].mode)
    OBVIOUS
  <2>4. rows = [i \in DOMAIN matrix |-> rows[i]]
    OBVIOUS
  <2> HIDE DEF rows, matrix, k
  <2>5. Len(rows) = Len(matrix)
    BY <2>2, <2>4, SameDomain
  <2>6. QED  BY <2>1, <2>2, <2>3, <2>5 DEF Repeats, matrix, k
<1>2. BenchInv => RerunRepeats
  BY <1>1 DEF RerunRepeats
<1>3. QED  BY <1>2, BenchInvariant, PTL

-------------------------------------------------------------------------------
(* What type correctness takes besides: the parts of a thread and of a     *)
(* task that are not in use are empty.                                     *)
Unused(l) ==
    /\ l.pc # "rows" => l.runs = <<>>
    /\ l.pc \notin {"look", "cancel"} => l.index = 1

Tidy ==
    /\ \A k \in Tasks : task[k].runs = <<>> => task[k].matrix = <<>>
    /\ \A t \in Threads : Unused(th[t])
    /\ restarts \in 0 .. MaxRestarts /\ requests \in 0 .. MaxRequests

LEMMA FreshUnused ==
    /\ Unused(Idle)
    /\ \A k, next : Unused(Reading(k, next))
    /\ \A k : Unused([Idle EXCEPT !.pc = "look", !.task = k])
    /\ \A rows, source, mode, auto :
          /\ Unused([Idle EXCEPT !.pc = "rows", !.source = source, !.mode = mode, !.auto = auto,
                                 !.rows = rows])
          /\ Unused([Idle EXCEPT !.pc = "rows", !.rows = rows, !.mode = mode, !.auto = auto])
BY DEF Unused, Idle, Reading

LEMMA RequestsUnused ==
    ASSUME Shape, Tidy, NEW t \in Threads, GetTask(t) \/ StopTask(t) \/ Rerun(t) \/ CreateTask(t)
    PROVE  Tidy'
<1>1. \E l : Unused(l) /\ th' = [th EXCEPT ![t] = l]
  BY FreshUnused DEF GetTask, StopTask, Rerun, CreateTask, Become
<1>2. \A u \in Threads : Unused(th'[u])
  BY <1>1 DEF Shape, Tidy
<1>3. requests' = requests + 1 /\ requests < MaxRequests /\ UNCHANGED <<task, restarts>>
  BY DEF GetTask, StopTask, Rerun, CreateTask, Arrives
<1>4. requests' \in 0 .. MaxRequests
  BY <1>3, ConstantsAssumption DEF Tidy
<1>5. QED  BY <1>2, <1>3, <1>4 DEF Tidy

LEMMA StepsUnused ==
    ASSUME Shape, Tidy, NEW t \in Threads, ThreadStep(t)
    PROVE  Unused(th'[t]) /\ \A u \in Threads \ {t} : th'[u] = th[u]
<1>1. IsLocal(th[t]) /\ Unused(th[t])
  BY DEF Shape, Tidy
<1>2. CASE th' = [th EXCEPT ![t] = Idle] \/ \E k, next : th' = [th EXCEPT ![t] = Reading(k, next)]
  <2>1. PICK l : Unused(l) /\ th' = [th EXCEPT ![t] = l]
    BY <1>2, FreshUnused
  <2>2. t \in DOMAIN th
    BY DEF Shape
  <2>3. th'[t] = l /\ \A u \in Threads \ {t} : th'[u] = th[u]
    BY <2>1, <2>2 DEF Shape
  <2>4. QED  BY <2>1, <2>3
<1>3. CASE CreateRow(t) /\ th' = [th EXCEPT ![t].runs = Append(@, Cardinality(Used) + 1)]
  BY <1>1, <1>3 DEF Shape, CreateRow, IsLocal, Unused
<1>4. CASE AutoStart(t) /\ th' = [th EXCEPT ![t].auto = FALSE]
  BY <1>1, <1>4 DEF Shape, AutoStart, Complete, IsLocal, Unused
<1>5. CASE ReadRun(t)
  BY <1>1, <1>5 DEF Shape, ReadRun, IsLocal, Unused
<1>6. CASE FinishSync(t) /\ th' = [th EXCEPT ![t].pc = "report"]
  BY <1>1, <1>6 DEF Shape, FinishSync, ReadAll, IsLocal, Unused
<1>7. CASE LookAtRun(t)
  BY <1>1, <1>7 DEF Shape, LookAtRun, IsLocal, Unused
<1>8. CASE CancelRun(t) /\ th' = [th EXCEPT ![t].pc = "look", ![t].index = @ + 1, ![t].handled = TRUE]
  BY <1>1, <1>8 DEF Shape, CancelRun, IsLocal, Unused
<1>9. QED
  BY <1>2, <1>3, <1>4, <1>5, <1>6, <1>7, <1>8
  DEF ThreadStep, CreateRow, AutoStart, StoreTask, FinishSync, ExportReport, CancelRun, FinishStop,
      Become

LEMMA TidyNext ==
    ASSUME BenchInv, Tidy, [Next]_vars
    PROVE  Tidy'
<1>1. Shape
  BY DEF BenchInv
<1>2. ASSUME NEW t \in Threads, ThreadStep(t) PROVE Tidy'
  <2>1. \A u \in Threads : Unused(th'[u])
    BY <1>1, <1>2, StepsUnused DEF Tidy
  <2>2. UNCHANGED <<restarts, requests>>
    BY <1>2 DEF ThreadStep, CreateRow, AutoStart, StoreTask, ReadRun, FinishSync, ExportReport,
                LookAtRun, CancelRun, FinishStop
  <2>3. CASE StoreTask(t)
    <3>1. PICK k \in Tasks : task' = [task EXCEPT ![k] =
                [runs |-> th[t].runs, mode |-> th[t].mode,
                 matrix |-> [i \in DOMAIN th[t].rows |-> Entry(th[t].rows[i])]]]
      BY <2>3 DEF StoreTask
    <3>2. th[t].runs # <<>>
      BY <2>3, HeadRun DEF StoreTask, BenchInv
    <3>3. task'[k].runs # <<>> /\ \A o \in Tasks \ {k} : task'[o] = task[o]
      BY <1>1, <3>1, <3>2 DEF Shape
    <3>4. QED  BY <2>1, <2>2, <3>3 DEF Tidy
  <2>4. CASE ~ StoreTask(t)
    <3>1. task' = task
      BY <1>2, <2>4 DEF ThreadStep, CreateRow, AutoStart, ReadRun, FinishSync, ExportReport,
                        LookAtRun, CancelRun, FinishStop
    <3>2. QED  BY <2>1, <2>2, <3>1 DEF Tidy
  <2>5. QED  BY <2>3, <2>4
<1>3. ASSUME NEW r \in Runs, ClientStarts(r) \/ ClientCancels(r) \/ RunBegins(r) \/ RunEnds(r)
      PROVE  Tidy'
  BY <1>3 DEF ClientStarts, ClientCancels, RunBegins, RunEnds, Tidy
<1>4. CASE ApiRestart
  <2>1. th' = [u \in Threads |-> Idle] /\ restarts' = restarts + 1 /\ restarts < MaxRestarts
        /\ UNCHANGED <<task, requests>>
    BY <1>4 DEF ApiRestart
  <2>2. \A u \in Threads : Unused(th'[u])
    BY <2>1, FreshUnused
  <2>3. restarts' \in 0 .. MaxRestarts
    BY <2>1, ConstantsAssumption DEF Tidy
  <2>4. QED  BY <2>1, <2>2, <2>3 DEF Tidy
<1>5. CASE UNCHANGED vars
  BY <1>5 DEF vars, Tidy
<1>6. QED  BY <1>1, <1>2, <1>3, <1>4, <1>5, RequestsUnused DEF Next

LEMMA TidyInit == Init => Tidy
<1>1. NoTask.matrix = <<>> /\ 0 \in 0 .. MaxRestarts /\ 0 \in 0 .. MaxRequests
  BY ConstantsAssumption DEF NoTask
<1>2. QED  BY <1>1, FreshUnused DEF Init, Tidy

(* A list of different runs has at most as many entries as there are runs. *)
LEMMA FewRuns ==
    ASSUME NEW s \in Seq(Runs), Different(s)
    PROVE  Len(s) <= MaxRuns
<1>1. DOMAIN s = 1 .. Len(s) /\ Len(s) \in Nat /\ s \in [1 .. Len(s) -> Runs]
  BY LenProperties
<1>2. s \in Injection(1 .. Len(s), Runs)
  BY <1>1 DEF Different, Injection, IsInjective
<1>3. /\ IsFiniteSet(Runs) /\ Cardinality(Runs) = MaxRuns /\ Cardinality(1 .. Len(s)) = Len(s)
  <2>1. MaxRuns \in Nat /\ MaxRuns \in Int /\ Len(s) \in Int /\ 1 \in Int
    BY <1>1, ConstantsAssumption
  <2>2. /\ IsFiniteSet(1 .. MaxRuns)
        /\ Cardinality(1 .. MaxRuns) = IF 1 > MaxRuns THEN 0 ELSE MaxRuns - 1 + 1
    BY <2>1, FS_Interval, Zenon
  <2>3. Cardinality(1 .. Len(s)) = IF 1 > Len(s) THEN 0 ELSE Len(s) - 1 + 1
    BY <2>1, FS_Interval, Zenon
  <2>4. Cardinality(1 .. MaxRuns) = MaxRuns
    BY <2>1, <2>2
  <2>5. Cardinality(1 .. Len(s)) = Len(s)
    BY <1>1, <2>1, <2>3
  <2>6. QED  BY <2>2, <2>4, <2>5 DEF Runs
<1>4. Cardinality(1 .. Len(s)) <= Cardinality(Runs)
  BY <1>2, <1>3, FS_Injection
<1>5. QED  BY <1>3, <1>4

LEMMA BenchTypes == ASSUME BenchInv, Tidy PROVE TypeOK
<1>1. run \in [Runs -> [status: RunStatus, cancel: BOOLEAN]]
      /\ report \in [Tasks -> Verdicts \union {None}]
      /\ restarts \in 0 .. MaxRestarts /\ requests \in 0 .. MaxRequests /\ stopped \subseteq Stored
  BY DEF BenchInv, Shape, StoppedOK, Tidy
<1>2. ToSet(<<>>) = {} /\ Len(<<>>) = 0
  BY DEF ToSet
<1>3. ASSUME NEW k \in Tasks
      PROVE  ToSet(task[k].runs) \subseteq Used /\ Len(task[k].matrix) = Len(task[k].runs)
  BY <1>2, <1>3 DEF BenchInv, TasksOK, RunsOf, Stored, Tidy
<1>4. ASSUME NEW t \in Threads
      PROVE  /\ th[t].pc \in Pc
             /\ th[t].pc \in {"sync", "report", "look", "cancel"} => th[t].task \in Stored
             /\ ToSet(th[t].runs) \subseteq Used
             /\ th[t].index \in 1 .. MaxRuns + 1
  <2>1. IsLocal(th[t]) /\ ThreadOK(t) /\ Unused(th[t])
    BY DEF BenchInv, Shape, Tidy
  <2>2. th[t].pc \in Pc /\ th[t].index \in Nat \ {0}
    BY <2>1 DEF IsLocal
  <2>3. th[t].pc \in {"sync", "report", "look", "cancel"} => th[t].task \in Stored
    BY <2>1 DEF ThreadOK, Stopper, Reader
  <2>4. ToSet(th[t].runs) \subseteq Used
    BY <1>2, <2>1 DEF ThreadOK, Creator, Unused
  <2>5. th[t].index \in 1 .. MaxRuns + 1
    <3>1. CASE th[t].pc \in {"look", "cancel"}
      <4>1. PICK k \in Stored : k = th[t].task /\ th[t].index <= Len(RunsOf(k)) + 1
        BY <2>1, <3>1 DEF ThreadOK, Stopper
      <4>2. RunsOf(k) \in Seq(Runs) /\ Different(RunsOf(k)) /\ k \in Tasks
        BY DEF BenchInv, Shape, IsTask, TasksOK, Stored, RunsOf
      <4>3. Len(RunsOf(k)) <= MaxRuns /\ Len(RunsOf(k)) \in Nat
        BY <4>2, FewRuns, LenProperties
      <4>4. QED  BY <2>2, <4>1, <4>3, ConstantsAssumption
    <3>2. CASE th[t].pc \notin {"look", "cancel"}
      BY <2>1, <3>2, ConstantsAssumption DEF Unused
    <3>3. QED  BY <3>1, <3>2
  <2>6. QED  BY <2>2, <2>3, <2>4, <2>5
<1>5. QED  BY <1>1, <1>3, <1>4 DEF TypeOK

(* Every reachable state of the tasks, their runs and the requests about   *)
(* them is well typed: what is counted and reported are runs that exist.   *)
THEOREM BenchTypeCorrect == Spec => []TypeOK
<1>1. BenchInv /\ Tidy => TypeOK
  BY BenchTypes
<1>2. BenchInv /\ Tidy /\ [Next]_vars => Tidy'
  BY TidyNext
<1>3. QED  BY <1>1, <1>2, TidyInit, BenchInvariant, PTL DEF Spec

-------------------------------------------------------------------------------
(* A task moves alone: nobody has a run of another.                        *)

Apart(a, b) == ToSet(a) \intersect ToSet(b) = {}

Owned ==
    /\ \A j, k \in Stored : j # k => Apart(RunsOf(j), RunsOf(k))
    /\ \A t, u \in Threads : t # u => Apart(th[t].runs, th[u].runs)
    /\ \A t \in Threads, k \in Stored : Apart(th[t].runs, RunsOf(k))

(* What a request holds shrinks, but for the one run that a row creates.   *)
Grows(t, r) ==
    /\ r \in Runs \ Used
    /\ ToSet(th'[t].runs) = ToSet(th[t].runs) \union {r}
    /\ \A u \in Threads \ {t} : th'[u] = th[u]

Shrink == \A t \in Threads : ToSet(th'[t].runs) \subseteq ToSet(th[t].runs)

LEMMA Appended ==
    ASSUME NEW S, NEW s \in Seq(S), NEW e \in S
    PROVE  ToSet(Append(s, e)) = ToSet(s) \union {e}
<1>1. /\ DOMAIN Append(s, e) = 1 .. Len(s) + 1 /\ DOMAIN s = 1 .. Len(s) /\ Len(s) \in Nat
      /\ Append(s, e)[Len(s) + 1] = e /\ \A i \in 1 .. Len(s) : Append(s, e)[i] = s[i]
  OBVIOUS
<1>2. 1 .. Len(s) + 1 = (1 .. Len(s)) \union {Len(s) + 1}
  BY <1>1
<1>3. QED  BY <1>1, <1>2 DEF ToSet

LEMMA HeldRuns ==
    ASSUME BenchInv, Tidy, Next
    PROVE  Shrink \/ \E t \in Threads, r \in Runs : Grows(t, r) /\ task' = task
<1>1. Shape /\ ToSet(<<>>) = {}
  BY DEF BenchInv, ToSet
<1>2. ASSUME NEW t \in Threads, GetTask(t) \/ StopTask(t) \/ Rerun(t) \/ CreateTask(t)
      PROVE  Shrink
  <2>1. /\ th'[t].runs = <<>> \/ th'[t].pc # "rows"
        /\ \A u \in Threads \ {t} : th'[u] = th[u]
    <3>1. CASE GetTask(t)
      BY <1>1, <3>1, StartsRequest, ReadingLocal DEF LocalsOf
    <3>2. CASE StopTask(t)
      BY <1>1, <3>2, StartsRequest DEF LocalsOf
    <3>3. CASE Rerun(t)
      BY <1>1, <3>3, StartsRequest DEF LocalsOf
    <3>4. CASE CreateTask(t)
      BY <1>1, <3>4, StartsRequest DEF LocalsOf
    <3>5. QED  BY <1>2, <3>1, <3>2, <3>3, <3>4
  <2>2. Unused(th'[t])
    BY <1>1, <1>2, RequestsUnused DEF Tidy
  <2>3. QED  BY <1>1, <2>1, <2>2 DEF Unused, Shrink
<1>3. ASSUME NEW t \in Threads, ThreadStep(t)
      PROVE  Shrink \/ \E u \in Threads, r \in Runs : Grows(u, r) /\ task' = task
  <2>1. Unused(th'[t]) /\ \A u \in Threads \ {t} : th'[u] = th[u]
    BY <1>1, <1>3, StepsUnused
  <2>2. th[t].runs \in Seq(Runs) /\ IsLocal(th[t]) /\ Unused(th[t]) /\ t \in DOMAIN th
    BY <1>1 DEF Shape, IsLocal, Tidy
  <2>3. CASE th'[t].runs = th[t].runs \/ th'[t].pc # "rows"
    BY <1>1, <2>1, <2>3 DEF Unused, Shrink
  <2>4. CASE CreateRow(t) /\ Cardinality(Used) + 1 \in Runs
             /\ th' = [th EXCEPT ![t].runs = Append(@, Cardinality(Used) + 1)]
    <3>1. PICK r \in Runs : r = Cardinality(Used) + 1
                            /\ th' = [th EXCEPT ![t].runs = Append(@, r)] /\ task' = task
      BY <2>4 DEF CreateRow
    <3>2. r \notin Used
      BY <1>1, <3>1, NextRun DEF Used
    <3>3. th'[t].runs = Append(th[t].runs, r)
      BY <2>2, <3>1 DEF IsLocal
    <3>4. Grows(t, r)
      BY <2>1, <2>2, <3>2, <3>3, Appended DEF Grows
    <3>5. QED  BY <3>1, <3>4
  <2>5. CASE th' = [th EXCEPT ![t] = Idle] \/ \E k, next : th' = [th EXCEPT ![t] = Reading(k, next)]
    <3>1. Idle.pc # "rows" /\ \A k, next : Reading(k, next).pc # "rows"
      BY IdleLocal, ReadingLocal
    <3>2. th'[t].pc # "rows"
      BY <2>2, <2>5, <3>1
    <3>3. QED  BY <2>3, <3>2
  <2>6. CASE AutoStart(t) /\ th' = [th EXCEPT ![t].auto = FALSE]
    <3>1. th'[t].runs = th[t].runs
      BY <2>2, <2>6 DEF IsLocal
    <3>2. QED  BY <2>3, <3>1
  <2>7. CASE \/ ReadRun(t) \/ LookAtRun(t)
             \/ FinishSync(t) /\ th' = [th EXCEPT ![t].pc = "report"]
             \/ /\ CancelRun(t)
                /\ th' = [th EXCEPT ![t].pc = "look", ![t].index = @ + 1, ![t].handled = TRUE]
    <3>1. th'[t].runs = th[t].runs
      BY <2>2, <2>7 DEF IsLocal, ReadRun, LookAtRun
    <3>2. QED  BY <2>3, <3>1
  <2>8. QED
    BY <1>3, <2>4, <2>5, <2>6, <2>7
    DEF ThreadStep, CreateRow, AutoStart, StoreTask, FinishSync, ExportReport, CancelRun, FinishStop,
        Become
<1>4. ASSUME NEW r \in Runs, ClientStarts(r) \/ ClientCancels(r) \/ RunBegins(r) \/ RunEnds(r)
      PROVE  Shrink
  BY <1>4 DEF ClientStarts, ClientCancels, RunBegins, RunEnds, Shrink
<1>5. CASE ApiRestart
  BY <1>1, <1>5, IdleLocal DEF ApiRestart, Shrink
<1>6. QED  BY <1>2, <1>3, <1>4, <1>5 DEF Next

LEMMA OwnedNext ==
    ASSUME BenchInv, Tidy, Owned, [Next]_vars
    PROVE  Owned'
<1>1. /\ \A k \in Stored : ToSet(RunsOf(k)) \subseteq Used
      /\ \A t \in Threads : ToSet(th[t].runs) \subseteq Used
  BY BenchTypes DEF TypeOK, Stored, RunsOf
<1>2. CASE Shrink /\ task' = task
  BY <1>2 DEF Shrink, Owned, Apart, Stored, RunsOf
<1>3. ASSUME NEW t \in Threads, NEW r \in Runs, Grows(t, r), task' = task PROVE Owned'
  <2>1. Stored' = Stored /\ \A k \in Stored : RunsOf(k)' = RunsOf(k)
    BY <1>3 DEF Stored, RunsOf
  <2>2. \A u \in Threads \ {t} : Apart(th'[t].runs, th'[u].runs) /\ Apart(th'[u].runs, th'[t].runs)
    BY <1>1, <1>3 DEF Grows, Owned, Apart
  <2>3. \A k \in Stored : Apart(th'[t].runs, RunsOf(k))
    BY <1>1, <1>3 DEF Grows, Owned, Apart
  <2>4. \A u \in Threads \ {t} : th'[u] = th[u]
    BY <1>3 DEF Grows
  <2>5. QED  BY <2>1, <2>2, <2>3, <2>4 DEF Owned
<1>4. ASSUME NEW t \in Threads, StoreTask(t) PROVE Owned'
  <2>1. PICK k \in Tasks : /\ Stored = 1 .. k - 1 /\ task'[k].runs = th[t].runs
                           /\ \A j \in Tasks \ {k} : task'[j] = task[j]
    <3>1. PICK k \in Tasks :
            /\ Stored = 1 .. k - 1
            /\ task' = [task EXCEPT ![k] =
                  [runs |-> th[t].runs, mode |-> th[t].mode,
                   matrix |-> [i \in DOMAIN th[t].rows |-> Entry(th[t].rows[i])]]]
      BY <1>4 DEF StoreTask
    <3>2. task'[k].runs = th[t].runs /\ \A j \in Tasks \ {k} : task'[j] = task[j]
      BY <3>1 DEF BenchInv, Shape
    <3>3. QED  BY <3>1, <3>2
  <2>2. /\ Stored' \subseteq Stored \union {k} /\ k \notin Stored
        /\ \A j \in Stored : RunsOf(j)' = RunsOf(j)
    BY <2>1 DEF Stored, Tasks, RunsOf
  <2>3. ToSet(th'[t].runs) = {} /\ \A u \in Threads \ {t} : th'[u] = th[u]
    <3>1. t \in DOMAIN th /\ \E j, next : th' = [th EXCEPT ![t] = Reading(j, next)]
      BY <1>4 DEF StoreTask, Become, BenchInv, Shape
    <3>2. th'[t].runs = <<>>
      BY <3>1 DEF Reading, Idle
    <3>3. QED  BY <3>1, <3>2 DEF ToSet, BenchInv, Shape
  <2>4. \A j \in Stored' \ {k} : j \in Stored /\ RunsOf(j)' = RunsOf(j)
    BY <2>2
  <2>5. \A j \in Stored' \ {k} : Apart(RunsOf(j)', RunsOf(k)') /\ Apart(RunsOf(k)', RunsOf(j)')
    BY <2>1, <2>4 DEF Owned, Apart, RunsOf
  <2>6. \A u \in Threads, j \in Stored' : Apart(th'[u].runs, RunsOf(j)')
    <3>1. ASSUME NEW u \in Threads, NEW j \in Stored' PROVE Apart(th'[u].runs, RunsOf(j)')
      <4>1. CASE u = t
        BY <2>3, <4>1 DEF Apart
      <4>2. CASE u # t /\ j = k
        BY <2>1, <2>3, <4>2 DEF Owned, Apart, RunsOf
      <4>3. CASE u # t /\ j # k
        BY <2>3, <2>4, <4>3 DEF Owned, Apart
      <4>4. QED  BY <4>1, <4>2, <4>3
    <3>2. QED  BY <3>1
  <2>7. \A u, v \in Threads : u # v => Apart(th'[u].runs, th'[v].runs)
    BY <2>3 DEF Owned, Apart
  <2>8. \A i, j \in Stored' : i # j => Apart(RunsOf(i)', RunsOf(j)')
    <3>1. ASSUME NEW i \in Stored', NEW j \in Stored', i # j PROVE Apart(RunsOf(i)', RunsOf(j)')
      <4>1. CASE i = k \/ j = k
        BY <2>5, <3>1, <4>1
      <4>2. CASE i # k /\ j # k
        BY <2>4, <3>1, <4>2 DEF Owned
      <4>3. QED  BY <4>1, <4>2
    <3>2. QED  BY <3>1
  <2>9. QED  BY <2>6, <2>7, <2>8 DEF Owned
<1>5. CASE UNCHANGED vars
  BY <1>5 DEF vars, Owned, Apart, Stored, RunsOf
<1>6. QED  BY <1>2, <1>3, <1>4, <1>5, HeldRuns, OtherSteps

LEMMA OwnedInit == Init => Owned
<1>1. Init => Stored = {} /\ \A t \in Threads : ToSet(th[t].runs) = {}
  BY DEF Init, Stored, NoTask, Idle, ToSet
<1>2. QED  BY <1>1 DEF Owned, Apart

(* What the runs of a task make of its status in a step.                   *)
Verdict(k) == Derive(Statuses(RunsOf(k), run))
NextVerdict(k) == Derive(Statuses(RunsOf(k), run'))

LEMMA VerdictMoves ==
    ASSUME BenchInv, Surroundings, NEW k \in Stored
    PROVE  /\ Verdict(k) \in TaskStatus
           /\ \/ NextVerdict(k) = Verdict(k)
              \/ Verdict(k) = "CREATED" /\ NextVerdict(k) \in {"RUNNING", "CANCELED"}
              \/ Verdict(k) = "RUNNING" /\ NextVerdict(k) \in Verdicts
<1> DEFINE R == RunsOf(k)
           S == Statuses(R, run)
           N == Statuses(R, run')
<1>1. /\ DOMAIN R # {}
      /\ \A i \in DOMAIN R : run[R[i]].status \in RunStatus \ {"ABSENT"}
      /\ \A i \in DOMAIN R : run'[R[i]].status \in RunStatus \ {"ABSENT"}
      /\ \A i \in DOMAIN R : Moves(run[R[i]], run'[R[i]])
  <2>1. \A i \in DOMAIN R : R[i] \in Runs /\ Moves(run[R[i]], run'[R[i]])
    BY StoredRuns, KeptRuns
  <2>2. run' \in [Runs -> RunRecords]
    BY DEF Surroundings
  <2>3. \A i \in DOMAIN R : run'[R[i]].status \in RunStatus
    BY <2>1, <2>2 DEF RunRecords
  <2>4. QED  BY <2>1, <2>3, StoredRuns DEF Moves
<1>2. /\ S \in SUBSET (RunStatus \ {"ABSENT"}) /\ S # {}
      /\ N \in SUBSET (RunStatus \ {"ABSENT"}) /\ N # {}
  BY <1>1 DEF Statuses
<1>3. S = {"CREATED"} => N \subseteq {"CREATED", "QUEUED", "CANCELED"}
  BY <1>1 DEF Statuses, Moves
<1>4. S \subseteq Terminal => N = S
  <2>1. S \subseteq Terminal => \A i \in DOMAIN R : run'[R[i]].status = run[R[i]].status
    BY <1>1 DEF Statuses, Moves
  <2>2. QED  BY <2>1 DEF Statuses
<1>5. S # {"CREATED"} => N # {"CREATED"}
  <2>1. ASSUME S # {"CREATED"}
        PROVE  \E i \in DOMAIN R : run[R[i]].status # "CREATED"
    BY <1>1, <2>1 DEF Statuses
  <2>2. ASSUME NEW i \in DOMAIN R, run[R[i]].status # "CREATED"
        PROVE  run'[R[i]].status # "CREATED"
    BY <1>1, <2>2 DEF Moves
  <2>3. QED  BY <2>1, <2>2 DEF Statuses
<1> HIDE DEF S, N, R
<1>6. Derive(S) \in TaskStatus
  BY <1>2, DeriveCases DEF TaskStatus
<1>7. CASE S = {"CREATED"}
  <2>1. Derive(S) = "CREATED"
    BY <1>2, <1>7, DeriveCases
  <2>2. CASE N = {"CREATED"}
    BY <1>6, <1>7, <2>2 DEF S, N, R, Verdict, NextVerdict
  <2>3. CASE N = {"CANCELED"}
    <3>1. Derive(N) = "CANCELED"
      BY <1>2, <2>3, DeriveCases DEF Terminal
    <3>2. QED  BY <1>6, <2>1, <3>1 DEF S, N, R, Verdict, NextVerdict
  <2>4. CASE N # {"CREATED"} /\ N # {"CANCELED"}
    <3>1. ~ N \subseteq Terminal
      BY <1>2, <1>3, <1>7, <2>4 DEF Terminal
    <3>2. Derive(N) = "RUNNING"
      BY <1>2, <2>4, <3>1, DeriveCases
    <3>3. QED  BY <1>6, <2>1, <3>2 DEF S, N, R, Verdict, NextVerdict
  <2>5. QED  BY <1>6, <2>1, <2>2, <2>3, <2>4 DEF S, N, R, Verdict, NextVerdict
<1>8. CASE S \subseteq Terminal
  BY <1>4, <1>6, <1>8 DEF S, N, R, Verdict, NextVerdict
<1>9. CASE S # {"CREATED"} /\ ~ S \subseteq Terminal
  <2>1. Derive(S) = "RUNNING"
    BY <1>2, <1>9, DeriveCases
  <2>2. Derive(N) \in {"RUNNING"} \union Verdicts
    BY <1>2, <1>5, <1>9, DeriveCases
  <2>3. QED  BY <1>6, <2>1, <2>2 DEF S, N, R, Verdict, NextVerdict
<1>10. QED  BY <1>7, <1>8, <1>9

LEMMA DerivedStatus ==
    ASSUME TRUE
    PROVE  /\ Derived = [k \in Tasks |-> IF k \in Stored THEN Verdict(k) ELSE "ABSENT"]
           /\ \A k \in Stored : k \in Tasks
  BY DEF Derived, Verdict, Statuses, RunsOf, Stored

LEMMA DerivedNext ==
    ASSUME BenchInv, Surroundings
    PROVE  /\ Derived' = [k \in Tasks |-> Derived'[k]]
           /\ \A k \in Stored : Derived[k] = Verdict(k) /\ Derived'[k] = NextVerdict(k)
           /\ \A k \in Tasks \ Stored' : Derived'[k] = "ABSENT"
<1>1. \A k \in Stored : k \in Stored' /\ RunsOf(k)' = RunsOf(k)
  BY KeptRuns
<1>2. Derived' = [k \in Tasks |-> IF k \in Stored' THEN Verdict(k)' ELSE "ABSENT"]
  BY DEF Derived, Verdict, Statuses, RunsOf, Stored
<1>3. \A k \in Stored : Verdict(k)' = NextVerdict(k)
  BY <1>1 DEF Verdict, NextVerdict
<1>4. QED  BY <1>1, <1>2, <1>3, DerivedStatus

(* A step that stores no task moves the status of one at most.             *)
LEMMA OneTaskMoves ==
    ASSUME BenchInv, Owned, Surroundings, task' = task
    PROVE  Derived' = Derived \/ \E k \in Stored : \A j \in Tasks \ {k} : Derived'[j] = Derived[j]
<1>1. Stored' = Stored
  BY DEF Stored
<1>2. /\ Derived' = [k \in Tasks |-> Derived'[k]] /\ Derived = [k \in Tasks |-> Derived[k]]
      /\ \A j \in Tasks \ Stored : Derived'[j] = Derived[j]
  BY <1>1, DerivedNext, DerivedStatus
<1>3. ASSUME NEW j \in Stored, \A i \in DOMAIN RunsOf(j) : run'[RunsOf(j)[i]] = run[RunsOf(j)[i]]
      PROVE  Derived'[j] = Derived[j]
  <2>1. Statuses(RunsOf(j), run') = Statuses(RunsOf(j), run)
    BY <1>3 DEF Statuses
  <2>2. QED  BY <2>1, DerivedNext DEF Verdict, NextVerdict
<1>4. CASE run' = run
  BY <1>2, <1>3, <1>4
<1>5. ASSUME NEW r \in Runs, \A o \in Runs \ {r} : run'[o] = run[o]
      PROVE  Derived' = Derived \/ \E k \in Stored : \A j \in Tasks \ {k} : Derived'[j] = Derived[j]
  <2>1. ASSUME NEW j \in Stored, r \notin ToSet(RunsOf(j)) PROVE Derived'[j] = Derived[j]
    <3>1. \A i \in DOMAIN RunsOf(j) : RunsOf(j)[i] \in Runs \ {r}
      BY <2>1, StoredRuns DEF ToSet
    <3>2. QED  BY <1>3, <1>5, <3>1
  <2>2. CASE \E k \in Stored : r \in ToSet(RunsOf(k))
    <3>1. PICK k \in Stored : r \in ToSet(RunsOf(k))
      BY <2>2
    <3>2. \A j \in Stored \ {k} : r \notin ToSet(RunsOf(j))
      BY <3>1 DEF Owned, Apart
    <3>3. QED  BY <1>2, <2>1, <3>1, <3>2
  <2>3. CASE ~ \E k \in Stored : r \in ToSet(RunsOf(k))
    BY <1>2, <2>1, <2>3
  <2>4. QED  BY <2>2, <2>3
<1>6. QED  BY <1>4, <1>5 DEF Surroundings, RunsMove

LEMMA ListsHaveEntries ==
    ASSUME NEW S, NEW s \in Seq(S), s # <<>>
    PROVE  DOMAIN s # {}
<1>1. Len(s) # 0 /\ Len(s) \in Nat /\ DOMAIN s = 1 .. Len(s)
  BY EmptySeq, LenProperties
<1>2. 1 \in 1 .. Len(s)
  BY <1>1
<1>3. QED  BY <1>1, <1>2

(* Each step of a request, a client, the executor or a restart maps to a   *)
(* step of one task of the life cycle, or to none.                         *)
LEMMA TaskSteps ==
    ASSUME BenchInv, Owned, Next
    PROVE  TaskLifecycle!Next \/ (Derived' = Derived /\ UNCHANGED <<report, stopped>>)
<1>1. Surroundings /\ Shape
  BY SurroundingsStep DEF BenchInv
<1>2. /\ Derived = [k \in Tasks |-> Derived[k]] /\ Derived' = [k \in Tasks |-> Derived'[k]]
      /\ \A k \in Stored : k \in Tasks /\ Derived[k] = Verdict(k)
      /\ \A k \in Tasks \ Stored : Derived[k] = "ABSENT"
  BY <1>1, DerivedStatus, DerivedNext
<1>3. CASE /\ UNCHANGED <<report, stopped>>
           /\ \E k \in Stored : \A j \in Tasks \ {k} : Derived'[j] = Derived[j]
  <2>1. PICK k \in Stored : \A j \in Tasks \ {k} : Derived'[j] = Derived[j]
    BY <1>3
  <2>2. Derived' = [Derived EXCEPT ![k] = Derived'[k]] /\ k \in Tasks
    BY <1>2, <2>1
  <2>3. /\ Derived[k] \in TaskStatus
        /\ \/ Derived'[k] = Derived[k]
           \/ Derived[k] = "CREATED" /\ Derived'[k] \in {"RUNNING", "CANCELED"}
           \/ Derived[k] = "RUNNING" /\ Derived'[k] \in Verdicts
    BY <1>1, <1>2, DerivedNext, VerdictMoves
  <2>4. CASE Derived'[k] = Derived[k]
    BY <1>2, <1>3, <2>2, <2>4
  <2>5. CASE Derived[k] = "CREATED" /\ Derived'[k] \in {"RUNNING", "CANCELED"}
    <3>1. TaskLifecycle!Begin(k)
      BY <1>3, <2>2, <2>5 DEF TaskLifecycle!Begin, TaskLifecycle!Turns
    <3>2. QED  BY <2>2, <3>1 DEF TaskLifecycle!Next
  <2>6. CASE Derived[k] = "RUNNING" /\ Derived'[k] \in Verdicts
    <3>1. TaskLifecycle!Finish(k)
      BY <1>3, <2>2, <2>6
      DEF TaskLifecycle!Finish, TaskLifecycle!Turns, TaskLifecycle!Verdicts, Verdicts, Terminal
    <3>2. QED  BY <2>2, <3>1 DEF TaskLifecycle!Next
  <2>7. QED  BY <2>3, <2>4, <2>5, <2>6
<1>4. CASE UNCHANGED <<task, report, stopped>>
  BY <1>1, <1>3, <1>4, OneTaskMoves
<1>5. ASSUME NEW t \in Threads, StoreTask(t) PROVE TaskLifecycle!Next
  <2>1. PICK k \in Tasks : /\ Stored = 1 .. k - 1 /\ task'[k].runs # <<>>
                           /\ \A j \in Tasks \ {k} : task'[j] = task[j]
    <3>1. PICK k \in Tasks :
            /\ Stored = 1 .. k - 1
            /\ task' = [task EXCEPT ![k] =
                  [runs |-> th[t].runs, mode |-> th[t].mode,
                   matrix |-> [i \in DOMAIN th[t].rows |-> Entry(th[t].rows[i])]]]
      BY <1>5 DEF StoreTask
    <3>2. task'[k].runs = th[t].runs /\ \A j \in Tasks \ {k} : task'[j] = task[j]
      BY <1>1, <3>1 DEF Shape
    <3>3. th[t].runs # <<>>
      BY <1>5, HeadRun DEF StoreTask
    <3>4. QED  BY <3>1, <3>2, <3>3
  <2>2. k \notin Stored /\ k \in Stored' /\ Stored' = Stored \union {k}
    BY <2>1 DEF Stored, Tasks
  <2>3. run' = run /\ UNCHANGED <<report, stopped>>
    BY <1>5 DEF StoreTask
  <2>4. \A j \in Tasks \ {k} : Derived'[j] = Derived[j]
    <3>1. \A j \in Stored : Derived'[j] = Derived[j]
      BY <1>1, <1>2, <2>3, DerivedNext DEF Verdict, NextVerdict
    <3>2. ASSUME NEW j \in Tasks \ {k}, j \notin Stored PROVE Derived'[j] = Derived[j]
      <4>1. j \in Tasks \ Stored' /\ j \in Tasks \ Stored
        BY <2>2, <3>2
      <4>2. Derived'[j] = "ABSENT"
        BY <1>1, <4>1, DerivedNext
      <4>3. Derived[j] = "ABSENT"
        BY <1>2, <4>1
      <4>4. QED  BY <4>2, <4>3
    <3>3. QED  BY <3>1, <3>2
  <2>5. Derived'[k] \in {"CREATED", "RUNNING"} \union Verdicts
    <3>1. BenchInv'
      BY BenchNext
    <3>2. /\ DOMAIN RunsOf(k)' # {}
          /\ Statuses(RunsOf(k)', run') \subseteq RunStatus \ {"ABSENT"}
      <4>1. /\ RunsOf(k)' \in Seq(Runs) /\ RunsOf(k)' # <<>>
            /\ ToSet(RunsOf(k)') \subseteq Used'
        BY <2>2, <3>1 DEF BenchInv, Shape, IsTask, TasksOK, Stored, RunsOf
      <4>2. run' \in [Runs -> RunRecords]
        BY <1>1 DEF Surroundings
      <4>3. DOMAIN RunsOf(k)' # {}
        BY <4>1, ListsHaveEntries
      <4>4. \A i \in DOMAIN RunsOf(k)' : run'[RunsOf(k)'[i]].status \in RunStatus \ {"ABSENT"}
        BY <4>1, <4>2 DEF ToSet, Used, RunRecords
      <4>5. QED  BY <4>3, <4>4 DEF Statuses
    <3> DEFINE S == Statuses(RunsOf(k)', run')
    <3>3. S \in SUBSET (RunStatus \ {"ABSENT"}) /\ S # {}
      BY <3>2 DEF Statuses
    <3>4. Derived'[k] = Derive(S)
      BY <2>2 DEF Derived, Statuses, RunsOf
    <3> HIDE DEF S
    <3>5. Derive(S) \in {"CREATED", "RUNNING"} \union Verdicts
      BY <3>3, DeriveCases
    <3>6. QED  BY <3>4, <3>5
  <2>6. Derived' = [Derived EXCEPT ![k] = Derived'[k]] /\ Derived[k] = "ABSENT"
    <3>1. k \in Tasks \ Stored
      BY <2>2
    <3>2. Derived[k] = "ABSENT"
      BY <1>2, <3>1
    <3>3. Derived' = [Derived EXCEPT ![k] = Derived'[k]]
      BY <1>2, <2>4
    <3>4. QED  BY <3>2, <3>3
  <2>7. TaskLifecycle!Appear(k)
    BY <2>3, <2>5, <2>6
    DEF TaskLifecycle!Appear, TaskLifecycle!Turns, TaskLifecycle!Verdicts, Verdicts, Terminal
  <2>8. QED  BY <2>7 DEF TaskLifecycle!Next
<1>6. ASSUME run' = run, task' = task PROVE Derived' = Derived
  BY <1>6 DEF Derived, Stored
<1>7. ASSUME NEW t \in Threads, ExportReport(t) PROVE TaskLifecycle!Next
  <2>1. th[t].pc = "report" /\ Reader(t) /\ Len(th[t].seen) = Len(RunsOf(th[t].task))
    BY <1>7 DEF ExportReport, BenchInv, ThreadOK, Reader
  <2>2. PICK k \in Stored : k = th[t].task
    BY <2>1 DEF Reader
  <2> DEFINE verdict == IF Answer(t) \in Verdicts THEN Answer(t) ELSE None
  <2>3. verdict = None \/ (verdict \in Verdicts /\ verdict = Derived[k])
    <3>1. Answer(t) \in Verdicts => Answer(t) = TrueStatus(k)
      BY <2>1, <2>2, VerdictsAreTerminal, VerdictIsTrue
    <3>2. TrueStatus(k) = Derived[k]
      BY <1>2, TrueCases DEF Verdict
    <3>3. QED  BY <3>1, <3>2
  <2>4. /\ report' = [report EXCEPT ![k] = verdict]
        /\ UNCHANGED <<run, task, stopped>>
    BY <1>7, <2>2 DEF ExportReport
  <2>5. Derived' = Derived /\ Derived[k] \in TaskStatus /\ k \in Tasks
    BY <1>1, <1>2, <1>6, <2>4, VerdictMoves
  <2> HIDE DEF verdict
  <2>6. TaskLifecycle!Report(k)
    BY <2>3, <2>4, <2>5
    DEF TaskLifecycle!Report, TaskLifecycle!Verdicts, TaskStatus, Verdicts, Terminal
  <2>7. QED  BY <2>5, <2>6 DEF TaskLifecycle!Next
<1>8. ASSUME NEW t \in Threads, FinishStop(t), stopped' # stopped PROVE TaskLifecycle!Next
  <2>1. th[t].pc = "look" /\ Stopper(t) /\ th[t].index \in Nat \ {0} /\ ~ Looking(t)
    BY <1>8 DEF FinishStop, BenchInv, Shape, ThreadOK, IsLocal
  <2>2. PICK k \in Stored : k = th[t].task
    BY <2>1 DEF Stopper
  <2>3. \A i \in DOMAIN RunsOf(k) : Settled(run[RunsOf(k)[i]])
    <3>1. Len(RunsOf(k)) \in Nat /\ DOMAIN RunsOf(k) = 1 .. Len(RunsOf(k))
      BY StoredRuns
    <3>2. th[t].index <= Len(RunsOf(k)) + 1 /\ ~ th[t].index <= Len(RunsOf(k))
      BY <2>1, <2>2 DEF Stopper, Looking, RunsOf
    <3>3. 1 .. th[t].index - 1 = DOMAIN RunsOf(k)
      BY <2>1, <3>1, <3>2
    <3>4. QED  BY <2>1, <2>2, <3>3 DEF Stopper
  <2> DEFINE S == Statuses(RunsOf(k), run)
  <2>4. S \in SUBSET (RunStatus \ {"ABSENT"}) /\ S # {} /\ "CREATED" \notin S
    BY <2>3, StoredRuns DEF Statuses, Settled, Terminal
  <2>5. Derived[k] = Derive(S)
    BY <1>2 DEF Verdict
  <2> HIDE DEF S
  <2>6. Derive(S) \in {"RUNNING"} \union Verdicts
    BY <2>4, DeriveCases
  <2>7. stopped' = stopped \union {k} /\ UNCHANGED <<run, task, report>>
    BY <1>8, <2>2 DEF FinishStop
  <2>8. TaskLifecycle!Stop(k)
    BY <1>6, <2>5, <2>6, <2>7
    DEF TaskLifecycle!Stop, TaskLifecycle!Verdicts, Verdicts, Terminal
  <2>9. QED  BY <1>2, <2>8 DEF TaskLifecycle!Next
<1>9. CASE ~ \E t \in Threads :
              StoreTask(t) \/ ExportReport(t) \/ (FinishStop(t) /\ stopped' # stopped)
  <2>1. UNCHANGED <<task, report, stopped>>
    BY <1>9 DEF Next, ThreadStep, GetTask, StopTask, Rerun, CreateTask, CreateRow, AutoStart,
                ReadRun, FinishSync, LookAtRun, CancelRun, FinishStop, ClientStarts,
                ClientCancels, RunBegins, RunEnds, ApiRestart
  <2>2. QED  BY <1>4, <2>1
<1>10. QED  BY <1>5, <1>7, <1>8, <1>9

(* Whoever moves the runs, creates, stops or reports, and however often    *)
(* the server restarts: the tasks follow their life cycle.  The status     *)
(* that _sync_task derives only moves forward and a verdict stands, no     *)
(* step moves two tasks, a report agrees with its task, and a task whose   *)
(* stop was acknowledged has begun or ended.                               *)
THEOREM TasksFollowLifecycle == Spec => FollowsTaskLifecycle
<1>1. Init => TaskLifecycle!Init
  <2>1. Init => Stored = {}
    BY DEF Init, Stored, NoTask
  <2>2. Stored = {} => Derived = [k \in Tasks |-> "ABSENT"]
    BY DerivedStatus
  <2>3. QED  BY <2>1, <2>2 DEF Init, TaskLifecycle!Init
<1>2. BenchInv /\ Owned /\ [Next]_vars => [TaskLifecycle!Next]_<<Derived, report, stopped>>
  <2>1. UNCHANGED vars => UNCHANGED <<Derived, report, stopped>>
    BY DEF vars, Derived, Stored
  <2>2. QED  BY <2>1, TaskSteps
<1>3. BenchInv /\ Tidy /\ [Next]_vars => Tidy'
  BY TidyNext
<1>4. BenchInv /\ Tidy /\ Owned /\ [Next]_vars => Owned'
  BY OwnedNext
<1>5. QED
  BY <1>1, <1>2, <1>3, <1>4, TidyInit, OwnedInit, BenchInvariant, PTL
  DEF Spec, FollowsTaskLifecycle, TaskLifecycle!Spec

===============================================================================
