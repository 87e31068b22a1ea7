------------------------------ MODULE DutResults ------------------------------
(***************************************************************************)
(* The results of the device under test on their way to the platform.  The *)
(* detector on the Jetson writes its metrics to a file; the metrics        *)
(* program (jetson_non_ros_metrics) polls the file and hands results to    *)
(* the thread of its AsyncResultReporter, through a queue that holds one;  *)
(* the thread posts them to the receiver on the gateway                    *)
(* (dut_result_receiver), which keeps the last one it was sent for the     *)
(* heartbeats of the gateway's agent.                                      *)
(* Metrics are numbers here: how often the detector has written them.      *)
(* jetson_yolo_metrics is the same program with a ROS topic in place of    *)
(* the file, for which a poll is one atomic step.                          *)
(***************************************************************************)
EXTENDS Naturals

CONSTANTS
    MaxMetrics,         \* bound: how often the detector writes its metrics
    MaxAttempts,        \* result_max_retries + 1
    MaxFailures         \* bound: posts that fail

ASSUME DutConstants == MaxMetrics \in Nat /\ MaxAttempts \in Nat \ {0} /\ MaxFailures \in Nat

VARIABLES
    detector,   \* the detector and its metrics file
    monitor,    \* the main thread of the metrics program
    reporter,   \* queue, flags and thread of the AsyncResultReporter
    receiver,   \* result file of the gateway, requests that nobody waits for
    failures    \* how many posts have failed

dutVars == <<detector, monitor, reporter, receiver, failures>>

-------------------------------------------------------------------------------
NoResult == [metrics |-> 0, status |-> "none"]
Result(metrics, status) == [metrics |-> metrics, status |-> status]
Results == [metrics: 0 .. MaxMetrics, status: {"none", "RUNNING", "FINAL"}]

(* What stat and read can tell apart of the file: which writing it is of,  *)
(* and whether that has come to its end.                                   *)
NoFile == [metrics |-> 0, whole |-> TRUE]

DutInit ==
    /\ detector = [file |-> NoFile, done |-> FALSE]
    /\ monitor = [pc |-> "stat", signature |-> NoFile, last_signature |-> NoFile,
                  latest |-> 0, out |-> NoResult, last |-> FALSE,
                  closing |-> FALSE, quiet |-> FALSE]
    /\ reporter = [queue |-> NoResult, unfinished |-> 0, posting |-> FALSE,
                   stopped |-> FALSE, pc |-> "loop", payload |-> NoResult, attempt |-> 0]
    /\ receiver = [stored |-> NoResult, late |-> {}]
    /\ failures = 0

-------------------------------------------------------------------------------
(* The detector, external: it rewrites its metrics in place.               *)

DetectorOpens ==
    /\ ~detector.done /\ detector.file.whole /\ detector.file.metrics < MaxMetrics
    /\ detector' = [detector EXCEPT !.file = [metrics |-> @.metrics + 1, whole |-> FALSE]]
    /\ UNCHANGED <<monitor, reporter, receiver, failures>>

DetectorWrites ==
    /\ ~detector.file.whole
    /\ detector' = [detector EXCEPT !.file.whole = TRUE]
    /\ UNCHANGED <<monitor, reporter, receiver, failures>>

DetectorEnds ==
    /\ ~detector.done /\ detector.file.whole
    /\ detector' = [detector EXCEPT !.done = TRUE]
    /\ UNCHANGED <<monitor, reporter, receiver, failures>>

-------------------------------------------------------------------------------
(* The main thread: MetricsFileMonitor.poll, in the loop of main and, once *)
(* the program is to end, in poll_final_metrics.                           *)

MonitorGoto(pc) == monitor' = [monitor EXCEPT !.pc = pc]
MonitorAt(pc) == monitor.pc = pc

(* A signal, or duration_seconds are over; the pipeline stops the detector *)
(* first or last.                                                          *)
StopMonitor ==
    /\ MonitorAt("stat") /\ ~monitor.last
    /\ monitor' = [monitor EXCEPT !.last = TRUE]
    /\ UNCHANGED <<detector, reporter, receiver, failures>>

AfterPoll(m) == IF m.closing THEN "final" ELSE "stat"

(* closing: the poll after the deadline of poll_final_metrics, which is    *)
(* the last one; quiet: it begins after the detector has ended.            *)
StatMetrics ==
    /\ MonitorAt("stat")
    /\ \E closing \in {FALSE, monitor.last} :
        monitor' = [monitor EXCEPT !.pc = "read", !.signature = detector.file,
                                   !.closing = closing, !.quiet = closing /\ detector.done]
    /\ UNCHANGED <<detector, reporter, receiver, failures>>

(* Metrics that cannot be parsed are not taken, but not asked for again.   *)
ReadMetrics ==
    LET file == detector.file
        changed == monitor.signature # monitor.last_signature
        taken == changed /\ file.whole /\ file.metrics > 0 IN
    /\ MonitorAt("read")
    /\ monitor' = [monitor EXCEPT
            !.last_signature = IF changed THEN monitor.signature ELSE @,
            !.latest = IF taken THEN file.metrics ELSE @,
            !.out = IF taken /\ ~monitor.last THEN Result(file.metrics, "RUNNING") ELSE @,
            !.pc = IF taken /\ ~monitor.last THEN "put" ELSE AfterPoll(monitor)]
    /\ UNCHANGED <<detector, reporter, receiver, failures>>

BuildFinalResult ==
    /\ MonitorAt("final")
    /\ monitor' = [monitor EXCEPT !.out = Result(monitor.latest, "FINAL"), !.pc = "put"]
    /\ UNCHANGED <<detector, reporter, receiver, failures>>

-------------------------------------------------------------------------------
(* AsyncResultReporter.submit: the queue holds one result.                 *)

AfterSubmit(m) == IF m.out.status = "FINAL" THEN "wait" ELSE "stat"

PutResult ==
    /\ MonitorAt("put")
    /\ IF reporter.queue = NoResult
       THEN /\ reporter' = [reporter EXCEPT !.queue = monitor.out, !.unfinished = @ + 1]
            /\ MonitorGoto(AfterSubmit(monitor))
       ELSE /\ MonitorGoto("evict")
            /\ UNCHANGED reporter
    /\ UNCHANGED <<detector, receiver, failures>>

NewDropped == AfterSubmit(monitor)           \* mutant: a full queue keeps what it has
OldDropped == "put"

EvictResult ==
    /\ MonitorAt("evict")
    /\ MonitorGoto(OldDropped)
    /\ IF reporter.queue # NoResult /\ OldDropped = "put"
       THEN reporter' = [reporter EXCEPT !.queue = NoResult, !.unfinished = @ - 1]
       ELSE UNCHANGED reporter
    /\ UNCHANGED <<detector, receiver, failures>>

NothingUnfinished(r) == r.unfinished = 0 /\ ~r.posting

(* wait_for_idle: its deadline leaves room for every post that is queued,  *)
(* unless some of them fail.                                               *)
WaitForIdle ==
    /\ MonitorAt("wait")
    /\ NothingUnfinished(reporter) \/ failures > 0
    /\ reporter' = [reporter EXCEPT !.stopped = TRUE]
    /\ MonitorGoto("join")
    /\ UNCHANGED <<detector, receiver, failures>>

(* The join gives up after two seconds.  The thread is a daemon: the end   *)
(* of the program is its end, and a request that it has sent goes on.      *)
ExitMonitor ==
    /\ MonitorAt("join")
    /\ reporter.pc = "over" \/ failures > 0
    /\ MonitorGoto("exited")
    /\ reporter' = [reporter EXCEPT !.pc = "over"]
    /\ receiver' = IF reporter.pc = "sent"
                   THEN [receiver EXCEPT !.late = @ \union {reporter.payload}]
                   ELSE receiver
    /\ UNCHANGED <<detector, failures>>

-------------------------------------------------------------------------------
(* The thread of the reporter.                                             *)

ReporterAt(pc) == reporter.pc = pc
ReporterGoto(pc) == reporter' = [reporter EXCEPT !.pc = pc]
ReporterIdle == UNCHANGED <<detector, monitor, receiver, failures>>

RunIsOver(r) == r.stopped /\ r.queue = NoResult

CheckStop ==
    /\ ReporterAt("loop")
    /\ ReporterGoto(IF RunIsOver(reporter) THEN "over" ELSE "get")
    /\ ReporterIdle

GetResult ==
    /\ ReporterAt("get")
    /\ IF reporter.queue = NoResult THEN ReporterGoto("loop")
       ELSE reporter' = [reporter EXCEPT !.queue = NoResult, !.payload = reporter.queue,
                                         !.pc = "flag"]
    /\ ReporterIdle

SetPosting ==
    /\ ReporterAt("flag")
    /\ reporter' = [reporter EXCEPT !.posting = TRUE, !.attempt = 1, !.pc = "post"]
    /\ ReporterIdle

PostResult ==
    /\ ReporterAt("post")
    /\ ReporterGoto("sent")
    /\ ReporterIdle

(* do_POST of the receiver, whose write replaces the file.                 *)
ReceiveResult ==
    /\ ReporterAt("sent")
    /\ receiver' = [receiver EXCEPT !.stored = reporter.payload]
    /\ ReporterGoto("answered")
    /\ UNCHANGED <<detector, monitor, failures>>

PostSucceeds ==
    /\ ReporterAt("answered")
    /\ ReporterGoto("clear")
    /\ ReporterIdle

(* A post that fails is tried again: refused, or given up when its answer  *)
(* is late while the receiver has yet to write, or has written, the file.  *)
PostFails ==
    /\ reporter.pc \in {"post", "sent", "answered"}
    /\ failures < MaxFailures
    /\ failures' = failures + 1
    /\ reporter' = IF reporter.attempt < MaxAttempts
                   THEN [reporter EXCEPT !.attempt = @ + 1, !.pc = "post"]
                   ELSE [reporter EXCEPT !.pc = "clear"]
    /\ receiver' = IF ReporterAt("sent")
                   THEN [receiver EXCEPT !.late = @ \union {reporter.payload}]
                   ELSE receiver
    /\ UNCHANGED <<detector, monitor>>

ClearPosting ==
    /\ ReporterAt("clear")
    /\ reporter' = [reporter EXCEPT !.posting = FALSE, !.attempt = 0, !.pc = "done"]
    /\ ReporterIdle

TaskDone ==
    /\ ReporterAt("done")
    /\ reporter' = [reporter EXCEPT !.unfinished = @ - 1, !.payload = NoResult,
                                    !.pc = "loop"]
    /\ ReporterIdle

(* A request that nobody waits for is served, or dies with the receiver.   *)
LateRequest(result) ==
    /\ result \in receiver.late
    /\ \E stored \in {receiver.stored, result} :
        receiver' = [stored |-> stored, late |-> receiver.late \ {result}]
    /\ UNCHANGED <<detector, monitor, reporter, failures>>

-------------------------------------------------------------------------------
MonitorStep ==
    \/ StatMetrics \/ ReadMetrics \/ BuildFinalResult \/ PutResult
    \/ EvictResult \/ WaitForIdle \/ ExitMonitor

ReporterStep ==
    \/ CheckStop \/ GetResult \/ SetPosting \/ PostResult \/ ReceiveResult
    \/ PostSucceeds \/ PostFails \/ ClearPosting \/ TaskDone

DutNext ==
    \/ DetectorOpens \/ DetectorWrites \/ DetectorEnds
    \/ StopMonitor \/ MonitorStep \/ ReporterStep
    \/ \E result \in receiver.late : LateRequest(result)

DutSpec == DutInit /\ [][DutNext]_dutVars
-------------------------------------------------------------------------------
(* Properties.                                                             *)

Files == [metrics: 0 .. MaxMetrics, whole: BOOLEAN]

DutTypeOK ==
    /\ detector \in [file: Files, done: BOOLEAN]
    /\ monitor \in [pc: {"stat", "read", "final", "put", "evict", "wait", "join", "exited"},
                    signature: Files, last_signature: Files, latest: 0 .. MaxMetrics,
                    out: Results, last: BOOLEAN, closing: BOOLEAN, quiet: BOOLEAN]
    /\ reporter \in [queue: Results, unfinished: Nat, posting: BOOLEAN, stopped: BOOLEAN,
                     pc: {"loop", "get", "flag", "post", "sent", "answered", "clear", "done",
                          "over"},
                     payload: Results, attempt: 0 .. MaxAttempts]
    /\ receiver \in [stored: Results, late: SUBSET Results]
    /\ failures \in 0 .. MaxFailures

(* If the detector has ended before the metrics program asks for the last  *)
(* time and no post fails, the gateway has the final result, with the last *)
(* metrics of the detector, when the program has ended: nothing on the way *)
(* (a file that is read while it is written, a queue that drops what is    *)
(* older, a thread that ends with the program) loses it, and the gateway   *)
(* does not stay BUSY with a detector that is gone.                        *)
FinalResultStands ==
    monitor.pc = "exited" /\ failures = 0 =>
        /\ receiver.stored.status = "FINAL"
        /\ monitor.quiet => receiver.stored.metrics = detector.file.metrics
===============================================================================
