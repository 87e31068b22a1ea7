---------------------------- MODULE RecordingAssets ----------------------------
(***************************************************************************)
(* Recordings as assets: a scenario source is launched as a run that       *)
(* records (a materialization), the recorder file of the run is published  *)
(* as an asset, and assets are replayed by runs of their own.  API threads *)
(* work on three tables of one SQLite database; a statement is atomic,     *)
(* what a request does is not: a row is read, and all of its columns are   *)
(* written back later.  The runs are those of RunControl, seen from here   *)
(* as a status and a recorder file.                                        *)
(* What a listing does to one row does not depend on the other rows, so    *)
(* that a listing is about one run here.                                   *)
(***************************************************************************)
EXTENDS Naturals

CONSTANTS
    AssetThreads,       \* threads of the API server
    SourceRuns,         \* runs that record a scenario source
    ReplayRunIds        \* runs that replay an asset

AssetRuns == SourceRuns \union ReplayRunIds
NoRun == "no run"
NoThread == "no thread"

ASSUME AssetConstants ==
    /\ SourceRuns \intersect ReplayRunIds = {}
    /\ NoRun \notin AssetRuns /\ NoThread \notin AssetThreads

VARIABLES
    runs,       \* status of each run
    recorder_file,      \* what the CARLA recorder has written for a run
    recordings, \* table scenario_recordings, by source run
    materializations,   \* table scenario_source_materializations, by run
    replay_runs,        \* table recording_replay_runs: the asset of a replay
    request,    \* what each API thread is doing
    told,       \* history: the assets that publications have answered with
    alone       \* history: a listing during which nobody else made a step, its answer

assetVars == <<runs, recorder_file, recordings, materializations, replay_runs, request,
               told, alone>>

-------------------------------------------------------------------------------
RunStates == {"none", "CREATED", "QUEUED", "RUNNING", "STOPPING", "COMPLETED", "FAILED"}
ShownStates == {"never_recorded", "recording_running", "recorded_unpublished",
                "published_asset_available", "failed_last_materialization"}
Contents == {"absent", "partial", "whole"}

(* A row of a table; sum: recorder_file_sha256, as the content it is of.   *)
NoAsset == [stored |-> FALSE, status |-> "none", sum |-> "absent"]
Asset(status, sum) == [stored |-> TRUE, status |-> status, sum |-> sum]
NoRow == [shown |-> "never_recorded", stored |-> FALSE, published |-> FALSE, sum |-> "absent"]
NewRow(auto_start) ==
    [NoRow EXCEPT !.stored = TRUE,
                  !.shown = IF auto_start THEN "recording_running" ELSE "never_recorded"]

(* seen: the status of the run as read; sum: the hash of its file; row:    *)
(* the row as read; next: the status it is to show; asset: what is to be   *)
(* stored or answered.                                                     *)
NoRequest == [pc |-> "idle", op |-> "none", run |-> NoRun, auto |-> FALSE, of |-> NoRun,
              seen |-> "none", sum |-> "absent", row |-> NoRow, next |-> "never_recorded",
              asset |-> NoAsset]

NoListing == [by |-> NoThread, run |-> NoRun, row |-> NoRow]

AssetInit ==
    /\ runs = [r \in AssetRuns |-> "none"]
    /\ recorder_file = [r \in AssetRuns |-> "absent"]
    /\ recordings = [r \in SourceRuns |-> NoAsset]
    /\ materializations = [r \in SourceRuns |-> NoRow]
    /\ replay_runs = [r \in ReplayRunIds |-> NoRun]
    /\ request = [t \in AssetThreads |-> NoRequest]
    /\ told = [r \in SourceRuns |-> {}] /\ alone = NoListing

(* A step of thread t that leaves it with the locals q.                    *)
Continue(t, q) ==
    /\ request' = [request EXCEPT ![t] = q]
    /\ alone' = IF alone.by = t THEN alone ELSE NoListing
    /\ UNCHANGED told
At(t, op, pc) == request[t].op = op /\ request[t].pc = pc
AssetGoto(t, pc) == Continue(t, [request[t] EXCEPT !.pc = pc])
EndRequest(t) == Continue(t, NoRequest)

AnswerAsset(t, asset) ==
    /\ request' = [request EXCEPT ![t] = NoRequest]
    /\ told' = [told EXCEPT ![request[t].run] = @ \union {asset}]
    /\ alone' = NoListing

AnswerRow(t, row) ==
    /\ request' = [request EXCEPT ![t] = NoRequest]
    /\ alone' = IF alone.by = t THEN [by |-> NoThread, run |-> request[t].run, row |-> row]
                ELSE NoListing
    /\ UNCHANGED told

tables == <<recordings, materializations, replay_runs>>
runState == <<runs, recorder_file>>

BeginRequest(t, q) ==
    /\ request[t].pc = "idle"
    /\ request' = [request EXCEPT ![t] = q]
    /\ alone' = [NoListing EXCEPT !.by = IF q.op = "list" THEN t ELSE NoThread]
    /\ UNCHANGED <<runState, tables, told>>

-------------------------------------------------------------------------------
(* launch_source_recording and launch_scenario_recording, after what they  *)
(* validate: source and sensor profile, the preflight, the asset and its   *)
(* file; a request that is refused there has changed nothing.              *)

LaunchSourceRecording(t, r, auto_start) ==
    /\ runs[r] = "none"
    /\ BeginRequest(t, [NoRequest EXCEPT !.op = "launch", !.pc = "create", !.run = r,
                                         !.auto = auto_start])

LaunchScenarioRecording(t, r, of, auto_start) ==
    /\ runs[r] = "none" /\ recordings[of].stored /\ recorder_file[of] # "absent"
    /\ BeginRequest(t, [NoRequest EXCEPT !.op = "launch", !.pc = "create", !.run = r,
                                         !.of = of, !.auto = auto_start])

CreateAssetRun(t) ==
    LET r == request[t].run IN
    /\ At(t, "launch", "create") /\ runs[r] = "none"
    /\ runs' = [runs EXCEPT ![r] = "CREATED"]
    /\ AssetGoto(t, "link")
    /\ UNCHANGED <<recorder_file, tables>>

LinkRun(t) ==
    LET q == request[t] IN
    /\ At(t, "launch", "link")
    /\ IF q.run \in SourceRuns
       THEN /\ materializations' = [materializations EXCEPT ![q.run] = NewRow(q.auto)]
            /\ UNCHANGED replay_runs
       ELSE /\ replay_runs' = [replay_runs EXCEPT ![q.run] = q.of]
            /\ UNCHANGED materializations
    /\ IF q.auto THEN AssetGoto(t, "start") ELSE EndRequest(t)
    /\ UNCHANGED <<runState, recordings>>

(* Another active run is a conflict: the new one stays CREATED, and its    *)
(* row goes on to say that it is recording.                                *)
StartAssetRun(t) ==
    LET r == request[t].run IN
    /\ At(t, "launch", "start")
    /\ \/ runs[r] = "CREATED" /\ runs' = [runs EXCEPT ![r] = "QUEUED"] /\ EndRequest(t)
       \/ UNCHANGED runs /\ EndRequest(t)
    /\ UNCHANGED <<recorder_file, tables>>

-------------------------------------------------------------------------------
(* publish_scenario_recording_from_run.                                    *)

PublishFromRun(t, r) ==
    /\ runs[r] # "none"
    /\ BeginRequest(t, [NoRequest EXCEPT !.op = "publish", !.pc = "find", !.run = r])

FindPublished(t) ==
    LET r == request[t].run IN
    /\ At(t, "publish", "find")
    /\ IF recordings[r].stored THEN AnswerAsset(t, recordings[r]) ELSE AssetGoto(t, "run")
    /\ UNCHANGED <<runState, tables>>

ReadPublishedRun(t) ==
    /\ At(t, "publish", "run")
    /\ Continue(t, [request[t] EXCEPT !.pc = "hash", !.seen = runs[request[t].run]])
    /\ UNCHANGED <<runState, tables>>

HashRecorderFile(t) ==
    LET r == request[t].run IN
    /\ At(t, "publish", "hash")
    /\ IF recorder_file[r] = "absent" THEN EndRequest(t)
       ELSE Continue(t, [request[t] EXCEPT !.pc = "select", !.sum = recorder_file[r]])
    /\ UNCHANGED <<runState, tables>>

(* mutant: the status is read when the row is written                      *)
StatusOnInsert(q) == runs[q.run]
StatusOfAsset(q) == q.seen

(* create: an asset that has appeared in the meantime is the answer, but   *)
(* the row of the materialization gets the hash that was computed here.    *)
SelectAsset(t) ==
    LET r == request[t].run
        found == recordings[r].stored IN
    /\ At(t, "publish", "select")
    /\ Continue(t, [request[t] EXCEPT
            !.pc = IF found THEN "current" ELSE "insert",
            !.seen = "none",
            !.next = "published_asset_available",
            !.asset = IF found THEN recordings[r]
                      ELSE Asset(StatusOfAsset(request[t]), request[t].sum)])
    /\ UNCHANGED <<runState, tables>>

Unconstrained(r) == FALSE                    \* mutant: INSERT OR REPLACE
AlreadyStored(r) == recordings[r].stored

InsertAsset(t) ==
    LET q == request[t] IN
    /\ At(t, "publish", "insert")
    /\ IF AlreadyStored(q.run) THEN EndRequest(t) /\ UNCHANGED recordings
       ELSE /\ recordings' = [recordings EXCEPT ![q.run] = q.asset]
            /\ AssetGoto(t, "current")
    /\ UNCHANGED <<runState, materializations, replay_runs>>

-------------------------------------------------------------------------------
(* update_materialization, for a publication and for a listing: without a  *)
(* row a publication goes on.  Columns without a new value are written     *)
(* back as they were read.                                                 *)

Publishes(q) == q.next = "published_asset_available"

ReadCurrentRow(t) ==
    /\ request[t].pc = "current"
    /\ LET row == materializations[request[t].run] IN
       IF row.stored THEN Continue(t, [request[t] EXCEPT !.pc = "write", !.row = row])
       ELSE AnswerAsset(t, request[t].asset)
    /\ UNCHANGED <<runState, tables>>

FirstHash(q) == IF q.row.published THEN q.row.sum ELSE q.sum  \* mutant: a hash is kept
NewHash(q) == q.sum

UpdatedRow(q) ==
    [q.row EXCEPT !.shown = q.next,
                  !.published = @ \/ Publishes(q),
                  !.sum = IF Publishes(q) THEN NewHash(q) ELSE @]

WriteRow(t) ==
    LET q == request[t] IN
    /\ q.pc = "write"
    /\ materializations' = [materializations EXCEPT ![q.run] = UpdatedRow(q)]
    /\ IF q.op = "list" THEN AssetGoto(t, "reread") ELSE AnswerAsset(t, q.asset)
    /\ UNCHANGED <<runState, recordings, replay_runs>>

RereadRow(t) ==
    /\ request[t].pc = "reread"
    /\ AnswerRow(t, materializations[request[t].run])
    /\ UNCHANGED <<runState, tables>>

-------------------------------------------------------------------------------
(* The listings of scenario sources, _refresh_materialization_statuses.    *)

ListMaterialization(t, r) ==
    /\ materializations[r].stored
    /\ BeginRequest(t, [NoRequest EXCEPT !.op = "list", !.pc = "recording", !.run = r,
                                         !.row = materializations[r]])

FindRecording(t) ==
    LET r == request[t].run IN
    /\ At(t, "list", "recording")
    /\ IF recordings[r].stored
       THEN Continue(t, [request[t] EXCEPT !.pc = "current", !.sum = recorder_file[r],
                                           !.next = "published_asset_available"])
       ELSE AssetGoto(t, "run")
    /\ UNCHANGED <<runState, tables>>

NextShown(status, shown) ==
    CASE status \in {"CREATED", "QUEUED", "RUNNING"} -> "recording_running"
      [] status = "COMPLETED" -> "recorded_unpublished"
      [] status = "FAILED" -> "failed_last_materialization"
      [] OTHER -> shown

(* A row is also written when the reason of a failure is new.              *)
ReadListedRun(t) ==
    LET q == request[t]
        next == NextShown(runs[q.run], q.row.shown) IN
    /\ At(t, "list", "run")
    /\ \/ /\ next # q.row.shown \/ runs[q.run] = "FAILED"
          /\ Continue(t, [q EXCEPT !.pc = "current", !.next = next])
       \/ next = q.row.shown /\ AnswerRow(t, q.row)
    /\ UNCHANGED <<runState, tables>>

-------------------------------------------------------------------------------
(* The rest of the system: the life of a run and of its recorder file.     *)
(* Nothing here depends on what a replay does after it was started.        *)

RunSteps(r, from, to) ==
    /\ runs[r] \in from
    /\ runs' = [runs EXCEPT ![r] = to]
    /\ alone' = NoListing
    /\ UNCHANGED <<tables, request, told>>

(* POST /runs/{id}/start of a run that its launch has left CREATED.        *)
ClientStarts(r) == RunSteps(r, {"CREATED"}, "QUEUED") /\ UNCHANGED recorder_file

(* The recorder may fail to start without an effect on the run.            *)
RunBegins(r) ==
    /\ RunSteps(r, {"QUEUED"}, "RUNNING")
    /\ recorder_file' \in {recorder_file, [recorder_file EXCEPT ![r] = "partial"]}

RunEnters(r, from, to) == RunSteps(r, from, to) /\ UNCHANGED recorder_file
RunIsStopped(r) == RunEnters(r, {"RUNNING"}, "STOPPING")
RunCompletes(r) == RunEnters(r, {"RUNNING", "STOPPING"}, "COMPLETED")
RunFails(r) == RunEnters(r, {"QUEUED", "RUNNING", "STOPPING"}, "FAILED")

(* The file is closed before the run is COMPLETED, unless the recorder     *)
(* could not be stopped; a run that FAILED may have a worker that still    *)
(* drives.                                                                 *)
RecorderCloses(r) ==
    /\ runs[r] \in {"RUNNING", "STOPPING", "FAILED"} /\ recorder_file[r] = "partial"
    /\ recorder_file' = [recorder_file EXCEPT ![r] = "whole"]
    /\ alone' = NoListing
    /\ UNCHANGED <<runs, tables, request, told>>

(* The API server is restarted: its requests are gone.                     *)
AssetApiRestart ==
    /\ request' = [t \in AssetThreads |-> NoRequest]
    /\ alone' = NoListing
    /\ UNCHANGED <<runState, tables, told>>

RequestStep(t) ==
    \/ CreateAssetRun(t) \/ LinkRun(t) \/ StartAssetRun(t)
    \/ FindPublished(t) \/ ReadPublishedRun(t) \/ HashRecorderFile(t)
    \/ SelectAsset(t) \/ InsertAsset(t)
    \/ ReadCurrentRow(t) \/ WriteRow(t) \/ RereadRow(t)
    \/ FindRecording(t) \/ ReadListedRun(t)

AssetNext ==
    \/ \E t \in AssetThreads :
        \/ RequestStep(t)
        \/ \E r \in SourceRuns :
            \/ PublishFromRun(t, r) \/ ListMaterialization(t, r)
            \/ \E auto_start \in BOOLEAN :
                \/ LaunchSourceRecording(t, r, auto_start)
                \/ \E s \in ReplayRunIds : LaunchScenarioRecording(t, s, r, auto_start)
    \/ \E r \in AssetRuns : ClientStarts(r)
    \/ \E r \in SourceRuns :
        RunBegins(r) \/ RunIsStopped(r) \/ RunCompletes(r) \/ RunFails(r) \/ RecorderCloses(r)
    \/ AssetApiRestart

AssetSpec == AssetInit /\ [][AssetNext]_assetVars
-------------------------------------------------------------------------------
(* Properties.                                                             *)

AssetTypeOK ==
    /\ runs \in [AssetRuns -> RunStates]
    /\ recorder_file \in [AssetRuns -> Contents]
    /\ recordings \in [SourceRuns -> [stored: BOOLEAN, status: RunStates, sum: Contents]]
    /\ materializations \in
            [SourceRuns -> [shown: ShownStates, stored: BOOLEAN, published: BOOLEAN,
                            sum: Contents]]
    /\ replay_runs \in [ReplayRunIds -> SourceRuns \union {NoRun}]

(* Whoever was told that a run is published was told of the asset that is  *)
(* stored: of two publications of a run that race one is refused, or both  *)
(* answer with the same asset, and nothing changes it afterwards.          *)
AnsweredAssetIsStored == \A r \in SourceRuns : told[r] \subseteq {recordings[r]}

(* An asset that calls its run COMPLETED has the hash of the finished file *)
(* (if the recorder could be stopped): a publication that has begun while  *)
(* the run was recording does not pass for one of the finished run.        *)
CompletedAssetIsWhole ==
    \A r \in SourceRuns :
        recordings[r].status = "COMPLETED" /\ recorder_file[r] = "whole" =>
            recordings[r].sum = "whole"

(* Whatever requests that have overlapped left in the table, a listing     *)
(* that nobody interrupts tells what has become of a materialization: it   *)
(* is published exactly if its asset is stored, with the hash of the file, *)
(* and otherwise the status of its run is shown.                           *)
QuietListingIsTrue ==
    LET row == alone.row
        r == alone.run
        published == recordings[r].stored IN
    r # NoRun =>
        /\ row.published = published
        /\ published => row.shown = "published_asset_available" /\ row.sum = recorder_file[r]
        /\ ~published => /\ row.shown = NextShown(runs[r], row.shown)
                         /\ row.shown # "published_asset_available"
===============================================================================
