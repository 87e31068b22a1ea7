------------------------------ MODULE WorkerProofs ------------------------------
(***************************************************************************)
(* Proofs about what the worker of a run does besides its status: the      *)
(* sidecars of a run (HilPipeline), the sensor recorder (SensorRecorder),  *)
(* the control file (RuntimeControl), the results of the device            *)
(* (DutResults), and the replay of a recording and the events of a         *)
(* scenario (ScenarioEvents).  Each has its own variables, its inductive   *)
(* invariant and its theorems.                                             *)
(***************************************************************************)
EXTENDS HilPipeline, SensorRecorder, RuntimeControl, DutResults, ScenarioEvents,
        SequenceTheorems, TLAPS

(***************************************************************************)
(* The sidecars.  A sidecar that is of a run is of one that is over, or of *)
(* the one that is being executed; what that one owns is in its list of    *)
(* started steps, and, once the start has returned, in the list of steps   *)
(* that are still to be stopped, which is what the clean-up empties.       *)
(***************************************************************************)

Members(steps) == {steps[i] : i \in 1 .. Len(steps)}

OwnersKnown ==
    \A s \in StepIds :
        device[s] \in Runs => device[s] \in done \/ (wk.pc # "none" /\ device[s] = wk.run)

CompleteKnown ==
    \A r \in complete : r \in done \/ (wk.pc \in {"active", "finally"} /\ r = wk.run)

StartedSoFar ==
    /\ wk.pc = "prepare" => \A s \in StepIds : device[s] # wk.run
    /\ wk.pc = "start" => \A s \in StepIds : device[s] = wk.run => s \in Members(wk.started)
    /\ Members(wk.known) \subseteq Members(wk.started)

StillToStop ==
    wk.pc \in {"active", "finally"} /\ wk.run \in complete =>
        \A s \in StepIds :
            device[s] = wk.run => s \in Members(wk.known) \/ MayStay(s, wk.run)

PipelineInv ==
    /\ TypeOK /\ OwnersKnown /\ CompleteKnown /\ StartedSoFar /\ StillToStop
    /\ CompleteStartIsStopped

-------------------------------------------------------------------------------
(* The four steps, as a sequence and as a set.                             *)
LEMMA StepsFacts ==
    /\ Len(Steps) = 4
    /\ \A i \in 1 .. 4 : Steps[i] \in StepIds
    /\ "pi_pipeline" \in StepIds
<1>1. Len(Steps) = 4
    BY DEF Steps
<1>2. Steps[3] = "pi_pipeline"
    BY DEF Steps
<1> QED
    BY <1>1, <1>2 DEF StepIds

(* A list that is extended has its old members and the new one.            *)
LEMMA AppendMembers ==
    ASSUME NEW steps \in Seq(StepIds), NEW s \in StepIds
    PROVE  /\ Append(steps, s) \in Seq(StepIds)
           /\ Members(Append(steps, s)) = Members(steps) \union {s}
<1>1. /\ Append(steps, s) \in Seq(StepIds)
      /\ Len(Append(steps, s)) = Len(steps) + 1
      /\ \A i \in 1 .. Len(steps) : Append(steps, s)[i] = steps[i]
      /\ Append(steps, s)[Len(steps) + 1] = s
      /\ Len(steps) \in Nat
    OBVIOUS
<1>2. \A i \in 1 .. Len(steps) + 1 : i \in 1 .. Len(steps) \/ i = Len(steps) + 1
    BY <1>1
<1>3. \A i \in 1 .. Len(steps) : i \in 1 .. Len(steps) + 1
    BY <1>1
<1>4. Len(steps) + 1 \in 1 .. Len(steps) + 1
    BY <1>1
<1> QED
    BY <1>1, <1>2, <1>3, <1>4 DEF Members

(* A list from which the last step is taken has its old members but that.  *)
LEMMA StopsLeftMembers ==
    ASSUME NEW steps \in Seq(StepIds), steps # <<>>
    PROVE  /\ NextStop(steps) \in StepIds /\ NextStop(steps) \in Members(steps)
           /\ StopsLeft(steps) \in Seq(StepIds)
           /\ Members(StopsLeft(steps)) \subseteq Members(steps)
           /\ Members(steps) \subseteq Members(StopsLeft(steps)) \union {NextStop(steps)}
<1>1. Len(steps) \in Nat /\ Len(steps) > 0
    OBVIOUS
<1>2. /\ StopsLeft(steps) \in Seq(StepIds)
      /\ Len(StopsLeft(steps)) = Len(steps) - 1
      /\ \A i \in 1 .. Len(steps) - 1 : StopsLeft(steps)[i] = steps[i]
    <2> DEFINE n == Len(steps) - 1
    <2>1. n \in Int /\ \A i \in 1 .. n : steps[i] \in StepIds
        BY <1>1
    <2> HIDE DEF n
    <2>2. /\ SubSeq(steps, 1, n) \in Seq(StepIds)
          /\ Len(SubSeq(steps, 1, n)) = IF 1 <= n THEN n - 1 + 1 ELSE 0
          /\ \A i \in 1 .. n - 1 + 1 : SubSeq(steps, 1, n)[i] = steps[1 + i - 1]
        BY <2>1, SubSeqProperties, 1 \in Int
    <2> USE DEF n
    <2>3. n >= 0 /\ n - 1 + 1 = n /\ \A i \in 1 .. n : 1 + i - 1 = i
        BY <1>1
    <2> QED
        BY <2>2, <2>3 DEF StopsLeft
<1>3. \A i \in 1 .. Len(steps) : i \in 1 .. Len(steps) - 1 \/ i = Len(steps)
    BY <1>1
<1>4. \A i \in 1 .. Len(steps) - 1 : i \in 1 .. Len(steps)
    BY <1>1
<1>5. Len(steps) \in 1 .. Len(steps)
    BY <1>1
<1> QED
    BY <1>1, <1>2, <1>3, <1>4, <1>5 DEF Members, NextStop

LEMMA EmptyMembers ==
    Members(<<>>) = {} /\ <<>> \in Seq(StepIds) /\ 1 \in 1 .. Len(Steps) + 1
BY StepsFacts DEF Members

-------------------------------------------------------------------------------
LEMMA PipelineInvInit == Init => PipelineInv
<1> SUFFICES ASSUME Init PROVE PipelineInv
    OBVIOUS
<1> USE DEF Init, Absent
<1>1. TypeOK
    BY EmptyMembers, StepsFacts DEF TypeOK
<1>2. OwnersKnown /\ CompleteKnown /\ StillToStop /\ CompleteStartIsStopped
    BY ConstantsAssumption
    DEF OwnersKnown, CompleteKnown, StillToStop, CompleteStartIsStopped
<1>3. StartedSoFar
    BY DEF StartedSoFar
<1> QED
    BY <1>1, <1>2, <1>3 DEF PipelineInv

(* Steps of start_pipeline.                                                *)
LEMMA StartKeepsInv ==
    ASSUME PipelineInv,
           (\E r \in Runs : Begin(r)) \/ Decide \/ SkipStep \/ StartStep \/ StartFails
    PROVE  PipelineInv'
<1> USE DEF PipelineInv, history
<1>1. ASSUME NEW r \in Runs, Begin(r) PROVE PipelineInv'
    <2> USE <1>1 DEF Begin, Absent
    <2>1. TypeOK'
        <3>1. 1 \in 1 .. Len(Steps) + 1 /\ <<>> \in Seq(StepIds)
            BY EmptyMembers
        <3>2. wk' \in [pc: {"none", "prepare", "start", "active", "finally"},
                       run: Runs \union {Nobody}, allowed: SUBSET StepIds,
                       next: 1 .. Len(Steps) + 1, started: Seq(StepIds), known: Seq(StepIds)]
            <4>1. wk' = [pc |-> "prepare", run |-> r, allowed |-> {}, next |-> 1,
                         started |-> <<>>, known |-> <<>>]
                OBVIOUS
            <4> QED
                BY <3>1, <4>1
        <3> QED
            BY <3>2 DEF TypeOK
    <2>2. StartedSoFar'
        BY EmptyMembers DEF StartedSoFar, OwnersKnown
    <2>3. OwnersKnown' /\ CompleteKnown' /\ StillToStop' /\ CompleteStartIsStopped'
        BY DEF OwnersKnown, CompleteKnown, StillToStop, CompleteStartIsStopped, MayStay
    <2> QED
        BY <2>1, <2>2, <2>3
<1>2. ASSUME Decide PROVE PipelineInv'
    <2> USE <1>2 DEF Decide
    <2>1. Allowed(wk.run) \subseteq StepIds
        BY DEF Allowed
    <2>2. TypeOK'
        BY <2>1 DEF TypeOK
    <2>3. StartedSoFar'
        BY DEF StartedSoFar, TypeOK
    <2>4. OwnersKnown' /\ CompleteKnown' /\ StillToStop' /\ CompleteStartIsStopped'
        BY DEF OwnersKnown, CompleteKnown, StillToStop, CompleteStartIsStopped, MayStay, TypeOK
    <2> QED
        BY <2>2, <2>3, <2>4
<1>3. ASSUME SkipStep PROVE PipelineInv'
    <2> USE <1>3 DEF SkipStep
    <2>1. TypeOK'
        BY StepsFacts DEF TypeOK
    <2>2. StartedSoFar'
        BY DEF StartedSoFar, TypeOK
    <2>3. OwnersKnown' /\ CompleteKnown' /\ StillToStop' /\ CompleteStartIsStopped'
        BY DEF OwnersKnown, CompleteKnown, StillToStop, CompleteStartIsStopped, MayStay, TypeOK
    <2> QED
        BY <2>1, <2>2, <2>3
<1>4. ASSUME StartStep PROVE PipelineInv'
    <2> USE <1>4 DEF StartStep
    <2>1. Steps[wk.next] \in StepIds /\ wk.next \in Nat
        BY StepsFacts DEF TypeOK
    <2>2. TypeOK'
        <3>1. /\ wk.next + 1 \in 1 .. Len(Steps) + 1
              /\ Append(wk.started, Steps[wk.next]) \in Seq(StepIds)
            BY <2>1, StepsFacts, AppendMembers DEF TypeOK
        <3> QED
            BY <2>1, <3>1 DEF TypeOK
    <2>3. StartedSoFar'
        BY <2>1, AppendMembers DEF StartedSoFar, TypeOK
    <2>4. OwnersKnown' /\ CompleteKnown' /\ StillToStop' /\ CompleteStartIsStopped'
        BY <2>1 DEF OwnersKnown, CompleteKnown, StillToStop, CompleteStartIsStopped, MayStay,
                    TypeOK
    <2> QED
        BY <2>2, <2>3, <2>4
<1>5. ASSUME StartFails PROVE PipelineInv'
    <2> USE <1>5 DEF StartFails
    <2>1. Steps[wk.next] \in StepIds
        BY StepsFacts DEF TypeOK
    <2>2. TypeOK'
        BY <2>1 DEF TypeOK
    <2>3. StartedSoFar'
        BY DEF StartedSoFar, TypeOK
    <2>4. OwnersKnown' /\ CompleteKnown' /\ StillToStop' /\ CompleteStartIsStopped'
        BY <2>1 DEF OwnersKnown, CompleteKnown, StillToStop, CompleteStartIsStopped, MayStay,
                    TypeOK
    <2> QED
        BY <2>2, <2>3, <2>4
<1> QED
    BY <1>1, <1>2, <1>3, <1>4, <1>5

(* The start returns: what the run owns is now what is to be stopped.      *)
LEMMA StartReturnsKeepsInv ==
    ASSUME PipelineInv, StartReturns
    PROVE  PipelineInv'
<1> USE DEF PipelineInv, StartReturns, ReturnedSteps
<1>1. TypeOK'
    BY DEF TypeOK
<1>2. StartedSoFar' /\ StillToStop'
    BY DEF StartedSoFar, StillToStop, TypeOK
<1>3. OwnersKnown' /\ CompleteKnown' /\ CompleteStartIsStopped'
    BY DEF OwnersKnown, CompleteKnown, CompleteStartIsStopped, MayStay, TypeOK
<1> QED
    BY <1>1, <1>2, <1>3

(* Steps of stop_pipeline: a step leaves the list when it is stopped, or   *)
(* when it may stay.                                                       *)
LEMMA StopKeepsInv ==
    ASSUME PipelineInv, RunEnds \/ StopSkipped \/ StopStep
    PROVE  PipelineInv'
<1> USE DEF PipelineInv, history
<1>1. ASSUME RunEnds PROVE PipelineInv'
    BY <1>1 DEF RunEnds, TypeOK, OwnersKnown, CompleteKnown, StartedSoFar, StillToStop,
                CompleteStartIsStopped, MayStay
<1>2. ASSUME StopSkipped PROVE PipelineInv'
    <2> DEFINE s == NextStop(wk.known)
    <2> USE <1>2 DEF StopSkipped
    <2>1. wk.known \in Seq(StepIds) /\ wk.known # <<>>
        BY DEF TypeOK
    <2>2. /\ s \in StepIds /\ StopsLeft(wk.known) \in Seq(StepIds)
          /\ Members(StopsLeft(wk.known)) \subseteq Members(wk.known)
          /\ Members(wk.known) \subseteq Members(StopsLeft(wk.known)) \union {s}
        BY <2>1, StopsLeftMembers
    <2>3. /\ wk' = [wk EXCEPT !.known = StopsLeft(wk.known)]
          /\ UNCHANGED <<device, ready, done, complete, excused, stuck>>
        OBVIOUS
    <2>4. MayStay(s, wk.run)
        BY DEF MayStay, Preserved
    <2> HIDE DEF s
    <2>5. TypeOK'
        BY <2>2, <2>3 DEF TypeOK
    <2>6. StartedSoFar' /\ OwnersKnown' /\ CompleteKnown' /\ CompleteStartIsStopped'
        BY <2>2, <2>3 DEF StartedSoFar, OwnersKnown, CompleteKnown, CompleteStartIsStopped,
                          MayStay, TypeOK
    <2>7. StillToStop'
        <3>1. wk'.pc = wk.pc /\ wk'.run = wk.run /\ wk'.known = StopsLeft(wk.known)
            BY <2>3 DEF TypeOK
        <3>2. \A t, r : MayStay(t, r)' <=> MayStay(t, r)
            BY <2>3 DEF MayStay
        <3> QED
            BY <2>2, <2>3, <2>4, <3>1, <3>2 DEF StillToStop
    <2> QED
        BY <2>5, <2>6, <2>7
<1>3. ASSUME StopStep PROVE PipelineInv'
    <2> DEFINE s == NextStop(wk.known)
    <2> USE <1>3 DEF StopStep
    <2>1. wk.known \in Seq(StepIds) /\ wk.known # <<>> /\ wk.run \in Runs
        BY DEF TypeOK
    <2>2. /\ s \in StepIds /\ StopsLeft(wk.known) \in Seq(StepIds)
          /\ Members(StopsLeft(wk.known)) \subseteq Members(wk.known)
          /\ Members(wk.known) \subseteq Members(StopsLeft(wk.known)) \union {s}
        BY <2>1, StopsLeftMembers
    <2>3. /\ wk.pc = "finally"
          /\ wk' = [wk EXCEPT !.known = StopsLeft(wk.known)]
          /\ UNCHANGED <<ready, done, complete, excused>>
        OBVIOUS
    <2>4. \/ device' = [device EXCEPT ![s] = Nobody] /\ stuck' = stuck
          \/ /\ device' \in {device, [device EXCEPT ![s] = Nobody]}
             /\ stuck' = stuck \union {<<s, wk.run>>}
        OBVIOUS
    <2> HIDE <1>3 DEF s, StopStep
    <2>5. \A t \in StepIds : device'[t] \in {device[t], Nobody}
        BY <2>2, <2>4 DEF TypeOK
    <2>6. stuck \subseteq stuck'
        BY <2>4
    <2>7. wk'.pc = wk.pc /\ wk'.run = wk.run /\ wk'.known = StopsLeft(wk.known)
        BY <2>3 DEF TypeOK
    <2>8. device'[s] = Nobody \/ <<s, wk.run>> \in stuck'
        <3>1. [device EXCEPT ![s] = Nobody][s] = Nobody
            BY <2>2 DEF TypeOK
        <3> QED
            BY <2>4, <3>1
    <2>9. TypeOK'
        <3>1. wk' \in [pc: {"none", "prepare", "start", "active", "finally"},
                       run: Runs \union {Nobody}, allowed: SUBSET StepIds,
                       next: 1 .. Len(Steps) + 1, started: Seq(StepIds), known: Seq(StepIds)]
            BY <2>2, <2>3 DEF TypeOK
        <3>2. device' \in [StepIds -> Runs \union {Nobody, Operator}]
            BY <2>2, <2>4 DEF TypeOK
        <3>3. stuck' \subseteq StepIds \X Runs
            BY <2>1, <2>2, <2>4 DEF TypeOK
        <3> QED
            BY <2>3, <2>7, <3>1, <3>2, <3>3 DEF TypeOK
    <2>10. StartedSoFar' /\ OwnersKnown' /\ CompleteKnown' /\ CompleteStartIsStopped'
        BY <2>2, <2>3, <2>5, <2>6, ConstantsAssumption
        DEF StartedSoFar, OwnersKnown, CompleteKnown, CompleteStartIsStopped, MayStay, TypeOK
    <2>11. StillToStop'
        <3> SUFFICES ASSUME wk.pc \in {"active", "finally"}, wk.run \in complete,
                            NEW t \in StepIds, device'[t] = wk.run
                     PROVE  \/ t \in Members(StopsLeft(wk.known))
                            \/ t = "host_carla" /\ wk.run \in ManualRuns
                            \/ t \notin StopConfigured
                            \/ <<t, wk.run>> \in stuck'
            BY <2>3, <2>7 DEF StillToStop, MayStay
        <3>1. device[t] = wk.run /\ device'[t] # Nobody
            BY <2>1, <2>5, ConstantsAssumption
        <3>2. t \in Members(wk.known) \/ MayStay(t, wk.run)
            BY <3>1 DEF StillToStop
        <3> QED
            BY <2>2, <2>6, <2>8, <3>1, <3>2 DEF MayStay
    <2> QED
        BY <2>9, <2>10, <2>11
<1> QED
    BY <1>1, <1>2, <1>3

(* The run is over: nothing is left to stop, or the clean-up is excused.   *)
LEMMA LeaveKeepsInv ==
    ASSUME PipelineInv, Finished \/ CleanupFails \/ WorkerDies
    PROVE  PipelineInv'
<1> USE DEF PipelineInv, history
<1>1. /\ wk.pc # "none" /\ wk.run \in Runs /\ wk.run \notin done
      /\ wk' = Absent /\ done' = done \union {wk.run}
      /\ UNCHANGED <<device, ready, complete, stuck>>
      /\ \/ excused' = excused /\ wk.pc = "finally" /\ wk.known = <<>>
         \/ excused' = excused \union {wk.run}
    BY DEF Finished, CleanupFails, WorkerDies, Leave, TypeOK
<1>2. TypeOK'
    BY <1>1, EmptyMembers, StepsFacts DEF TypeOK, Absent
<1>3. OwnersKnown' /\ CompleteKnown'
    BY <1>1 DEF OwnersKnown, CompleteKnown, Absent
<1>4. StartedSoFar' /\ StillToStop'
    BY <1>1, EmptyMembers DEF StartedSoFar, StillToStop, Absent
<1>5. CompleteStartIsStopped'
    BY <1>1, EmptyMembers DEF CompleteStartIsStopped, StillToStop, MayStay
<1> QED
    BY <1>2, <1>3, <1>4, <1>5

(* The operator takes or stops the Pi pipeline; the gateway comes or goes. *)
LEMMA OutsideKeepsInv ==
    ASSUME PipelineInv, (\E on \in BOOLEAN : PiByHand(on)) \/ GatewayChanges
    PROVE  PipelineInv'
<1> USE DEF PipelineInv, history
<1>1. /\ UNCHANGED <<wk, done, complete, excused, stuck>>
      /\ ready' \in BOOLEAN
      /\ device' \in [StepIds -> Runs \union {Nobody, Operator}]
      /\ \A s \in StepIds : device'[s] \in {device[s], Nobody, Operator}
    BY StepsFacts DEF PiByHand, GatewayChanges, TypeOK
<1>2. Nobody \notin Runs /\ Operator \notin Runs
    BY ConstantsAssumption
<1>3. TypeOK'
    BY <1>1 DEF TypeOK
<1>4. \A t, r : MayStay(t, r)' <=> MayStay(t, r)
    BY <1>1 DEF MayStay
<1>5. CompleteKnown'
    BY <1>1 DEF CompleteKnown
<1>6. OwnersKnown' /\ CompleteStartIsStopped'
    BY <1>1, <1>2, <1>4 DEF OwnersKnown, CompleteStartIsStopped, TypeOK
<1>7. StartedSoFar' /\ StillToStop'
    BY <1>1, <1>2, <1>4 DEF StartedSoFar, StillToStop, TypeOK
<1> QED
    BY <1>3, <1>5, <1>6, <1>7

LEMMA PipelineInvNext ==
    ASSUME PipelineInv, [Next]_vars
    PROVE  PipelineInv'
<1>1. ASSUME UNCHANGED vars PROVE PipelineInv'
    BY <1>1 DEF vars, history, PipelineInv, TypeOK, OwnersKnown, CompleteKnown, StartedSoFar,
                StillToStop, CompleteStartIsStopped, MayStay
<1> QED
    BY <1>1, StartKeepsInv, StartReturnsKeepsInv, StopKeepsInv, LeaveKeepsInv,
       OutsideKeepsInv DEF Next

LEMMA PipelineInvariant == Spec => []PipelineInv
BY PipelineInvInit, PipelineInvNext, PTL DEF Spec

(* Type correctness of the sidecars and of the worker.                     *)
THEOREM PipelineTypeCorrect == Spec => []TypeOK
BY PipelineInvariant, PTL DEF PipelineInv

(* A run whose whole pipeline was started leaves no sidecar running when   *)
(* it is over, but for those that may stay: start_pipeline returns the     *)
(* steps that it has started, and stop_pipeline goes through all of them.  *)
THEOREM CompleteStartsAreStopped == Spec => []CompleteStartIsStopped
BY PipelineInvariant, PTL DEF PipelineInv

(* The clean-up of a run stops only sidecars that the run has started.     *)
THEOREM CleanupStopsItsOwn == Spec => StopsOnlyWhatItStarted
<1> DEFINE Own ==
        \A s \in StepIds :
            wk.pc = "finally" /\ device[s] # Nobody /\ device'[s] = Nobody /\ wk' # wk =>
                \E i \in 1 .. Len(wk.started) : wk.started[i] = s
<1>1. ASSUME PipelineInv, [Next]_vars PROVE [Own]_vars
    <2> SUFFICES ASSUME Next, NEW s \in StepIds,
                        wk.pc = "finally", device[s] # Nobody, device'[s] = Nobody, wk' # wk
                 PROVE  s \in Members(wk.started)
        BY <1>1 DEF Members
    <2>1. StopStep
        BY DEF Next, Begin, Decide, SkipStep, StartStep, StartFails, StartReturns, RunEnds,
               StopSkipped, Finished, CleanupFails, WorkerDies, Leave, PiByHand,
               GatewayChanges
    <2>2. s = NextStop(wk.known) /\ wk.known # <<>>
        BY <1>1, <2>1 DEF StopStep, PipelineInv, TypeOK
    <2>3. NextStop(wk.known) \in Members(wk.known)
        BY <1>1, <2>2, StopsLeftMembers DEF PipelineInv, TypeOK
    <2> QED
        BY <1>1, <2>2, <2>3 DEF PipelineInv, StartedSoFar
<1> QED
    BY <1>1, PipelineInvariant, PTL DEF Spec, StopsOnlyWhatItStarted

-------------------------------------------------------------------------------
(***************************************************************************)
(* The sensor recorder.  What is in CARLA is what the worker has listed,   *)
(* but for the sensor that it is attaching; a sensor that fell out of the  *)
(* list is excused, and what the list holds is destroyed before the worker *)
(* reports.                                                                *)
(***************************************************************************)

Attaching(s) == rig.listed = 1 .. s - 1 /\ rig.spawned = rig.listed \union {s}

RigInv ==
    /\ recorder.pc \in {"none", "boot"} => rig.spawned = {} /\ rig.listed = {}
    /\ recorder.pc \in {"attach", "announce"} => rig.spawned = rig.listed
    /\ recorder.pc \in {"listen", "list"} => \E s \in Sensors : Attaching(s)
    /\ recorder.pc \in {"serve", "error", "stop", "close", "detach", "destroy"} =>
            rig.spawned = rig.listed \/ excuses # {}
    /\ recorder.pc \in {"report", "exited"} => rig.spawned = {} \/ excuses # {}

ParentInv ==
    /\ parent = "new" => recorder.pc = "none"
    /\ parent = "over" => RecorderEnded

RecorderInv == RecorderTypeOK /\ RigInv /\ ParentInv

-------------------------------------------------------------------------------
LEMMA RecorderInvInit == RecorderInit => RecorderInv
BY DEF RecorderInit, RecorderInv, RecorderTypeOK, RigInv, ParentInv, RecorderEnded

(* Steps of SensorRecorderProcess, and what comes from outside.            *)
LEMMA ParentKeepsInv ==
    ASSUME RecorderInv,
           \/ StartRecorderProcess \/ AwaitReady \/ RequestRecorderStop \/ TerminateRecorder
           \/ JoinOrKill \/ ParentDies \/ SignalFromOutside
    PROVE  RecorderInv'
<1> USE DEF RecorderInv, RecorderGoto, RecorderEnded
<1>1. CASE StartRecorderProcess
    BY <1>1 DEF StartRecorderProcess, RecorderTypeOK, RigInv, ParentInv
<1>2. ASSUME ~StartRecorderProcess PROVE RecorderInv'
    <2>1. UNCHANGED <<rig, excuses>>
        BY <1>2 DEF AwaitReady, RequestRecorderStop, TerminateRecorder, JoinOrKill,
                    ParentDies, SignalFromOutside
    <2>2. \/ recorder' = recorder
          \/ recorder' = [recorder EXCEPT !.stop_requested = TRUE]
          \/ recorder' = [recorder EXCEPT !.pc = "killed"]
        BY <1>2 DEF AwaitReady, RequestRecorderStop, TerminateRecorder, JoinOrKill,
                    ParentDies, SignalFromOutside
    <2>3. RecorderTypeOK' /\ recorder'.pc \in {recorder.pc, "killed"}
        <3>1. parent' \in {"new", "wait", "ready", "stop", "join", "over", "dead"}
              /\ UNCHANGED state_path
            BY <1>2 DEF AwaitReady, RequestRecorderStop, TerminateRecorder, JoinOrKill,
                        ParentDies, SignalFromOutside, RecorderTypeOK
        <3> QED
            BY <2>1, <2>2, <3>1 DEF RecorderTypeOK
    <2>4. RigInv'
        <3>1. CASE recorder'.pc = "killed"
            BY <3>1 DEF RigInv
        <3>2. CASE recorder'.pc = recorder.pc
            BY <2>1, <3>2 DEF RigInv, Attaching
        <3> QED
            BY <2>3, <3>1, <3>2
    <2>5. ParentInv'
        <3>1. (parent # "new" /\ parent' # "new") \/ UNCHANGED parent
            BY <1>2 DEF AwaitReady, RequestRecorderStop, TerminateRecorder, JoinOrKill,
                        ParentDies, SignalFromOutside
        <3>2. parent' = "new" => recorder'.pc = "none"
            BY <1>2, <2>3, <3>1
               DEF AwaitReady, RequestRecorderStop, TerminateRecorder, JoinOrKill,
                   ParentDies, SignalFromOutside, RecorderAlive, ParentInv
        <3>3. parent' = "over" => RecorderEnded'
            BY <1>2, <2>2, <2>3
               DEF AwaitReady, RequestRecorderStop, TerminateRecorder, JoinOrKill,
                   ParentDies, SignalFromOutside, RecorderAlive, ParentInv, RecorderTypeOK
        <3> QED
            BY <3>2, <3>3 DEF ParentInv
    <2> QED
        BY <2>3, <2>4, <2>5
<1> QED
    BY <1>1, <1>2

(* Steps of SensorRecorder.start: one sensor after the other is spawned,   *)
(* listened to and listed.                                                 *)
LEMMA AttachKeepsInv ==
    ASSUME RecorderInv, NEW s \in Sensors,
           AttachSensor(s) \/ ListenToSensor(s) \/ ListSensor(s)
    PROVE  RecorderInv'
<1> USE DEF RecorderInv, RecorderGoto
<1>1. RecorderTypeOK'
    BY DEF RecorderTypeOK, AttachSensor, ListenToSensor, ListSensor, Listed
<1>2. ParentInv'
    BY DEF ParentInv, RecorderEnded, RecorderTypeOK, AttachSensor, ListenToSensor, ListSensor
<1>3. RigInv'
    <2>1. CASE AttachSensor(s)
        BY <2>1 DEF AttachSensor, RigInv, Attaching, RecorderTypeOK
    <2>2. CASE ListenToSensor(s)
        BY <2>2 DEF ListenToSensor, RigInv, Attaching, RecorderTypeOK
    <2>3. CASE ListSensor(s)
        <3>1. PICK t \in Sensors : Attaching(t)
            BY <2>3 DEF ListSensor, RigInv
        <3>2. s = t
            BY <2>3, <3>1, RecorderConstants DEF ListSensor, Attaching, Sensors
        <3>3. rig'.spawned = rig.spawned /\ rig'.listed = rig.listed \union {s}
              /\ recorder'.pc \in {"announce", "attach"}
            BY <2>3 DEF ListSensor, Listed, RecorderTypeOK
        <3> QED
            BY <3>1, <3>2, <3>3 DEF RigInv, Attaching
    <2> QED
        BY <2>1, <2>2, <2>3
<1> QED
    BY <1>1, <1>2, <1>3

(* The other steps of the worker, and the callbacks of CARLA.              *)
LEMMA WorkerKeepsInv ==
    ASSUME RecorderInv,
           \/ BootRecorder \/ AnnounceReady \/ AnnounceError \/ Serve \/ AttachFails
           \/ BeginClosing \/ CloseHandle \/ DetachSensors \/ DestroySensors \/ ReportStopped
           \/ \E s \in Sensors : PersistMeasurement(s)
    PROVE  RecorderInv'
<1> USE DEF RecorderInv, RecorderGoto, RecorderEnded, WriteWorkerState
<1>1. CASE BootRecorder \/ AnnounceReady
    <2>1. RecorderTypeOK'
        BY <1>1 DEF BootRecorder, AnnounceReady, RecorderTypeOK
    <2>2. RigInv'
        BY <1>1 DEF BootRecorder, AnnounceReady, RecorderTypeOK, RigInv
    <2>3. ParentInv'
        BY <1>1 DEF BootRecorder, AnnounceReady, RecorderTypeOK, ParentInv
    <2> QED
        BY <2>1, <2>2, <2>3
<1>2. CASE AnnounceError \/ Serve
    <2>1. RecorderTypeOK'
        BY <1>2 DEF AnnounceError, Serve, StopSeenByRecorder, RecorderTypeOK
    <2>2. RigInv'
        BY <1>2 DEF AnnounceError, Serve, StopSeenByRecorder, RecorderTypeOK, RigInv
    <2>3. ParentInv'
        BY <1>2 DEF AnnounceError, Serve, StopSeenByRecorder, RecorderTypeOK, ParentInv
    <2> QED
        BY <2>1, <2>2, <2>3
<1>3. CASE AttachFails
    <2>1. RecorderTypeOK'
        BY <1>3 DEF AttachFails, RecorderTypeOK
    <2>2. RigInv'
        BY <1>3 DEF AttachFails, RecorderTypeOK, RigInv
    <2>3. ParentInv'
        BY <1>3 DEF AttachFails, RecorderTypeOK, ParentInv
    <2> QED
        BY <2>1, <2>2, <2>3
<1>4. CASE BeginClosing \/ DetachSensors \/ ReportStopped
    <2>1. RecorderTypeOK'
        <3>1. CASE BeginClosing \/ DetachSensors
            <4>1. rig' \in [spawned: SUBSET Sensors, listed: SUBSET Sensors,
                             listening: SUBSET Sensors, handles: SUBSET Sensors,
                             closing: SUBSET Sensors, changed: BOOLEAN]
                <5>1. /\ rig.handles \in SUBSET Sensors
                      /\ rig.listening \ rig.listed \in SUBSET Sensors
                    BY DEF RecorderTypeOK
                <5>2. \/ rig' = [rig EXCEPT !.closing = rig.handles, !.changed = FALSE]
                      \/ rig' = [rig EXCEPT !.listening = rig.listening \ rig.listed]
                    BY <3>1 DEF BeginClosing, DetachSensors
                <5> QED
                    BY <5>1, <5>2 DEF RecorderTypeOK
            <4> QED
                BY <3>1, <4>1 DEF BeginClosing, DetachSensors, RecorderTypeOK
        <3>2. CASE ReportStopped
            BY <3>2 DEF ReportStopped, RecorderTypeOK
        <3> QED
            BY <1>4, <3>1, <3>2
    <2>2. RigInv'
        BY <1>4 DEF BeginClosing, DetachSensors, ReportStopped, RecorderTypeOK, RigInv
    <2>3. ParentInv'
        BY <1>4 DEF BeginClosing, DetachSensors, ReportStopped, RecorderTypeOK, ParentInv
    <2> QED
        BY <2>1, <2>2, <2>3
<1>5. CASE CloseHandle
    <2>1. RecorderTypeOK'
        BY <1>5 DEF CloseHandle, RecorderTypeOK
    <2>2. RigInv'
        BY <1>5 DEF CloseHandle, RecorderTypeOK, RigInv
    <2>3. ParentInv'
        BY <1>5 DEF CloseHandle, RecorderTypeOK, ParentInv
    <2> QED
        BY <2>1, <2>2, <2>3
<1>6. CASE DestroySensors
    <2>1. RecorderTypeOK'
        <3>1. rig' \in [spawned: SUBSET Sensors, listed: SUBSET Sensors,
                         listening: SUBSET Sensors, handles: SUBSET Sensors,
                         closing: SUBSET Sensors, changed: BOOLEAN]
            <4>1. PICK kept \in {{}} \union {{s} : s \in rig.listed} :
                    rig' = [rig EXCEPT !.spawned = @ \ (rig.listed \ kept), !.listed = {}]
                BY <1>6 DEF DestroySensors
            <4>2. rig.spawned \ (rig.listed \ kept) \in SUBSET Sensors
                BY DEF RecorderTypeOK
            <4> QED
                BY <4>1, <4>2 DEF RecorderTypeOK
        <3> QED
            BY <1>6, <3>1 DEF DestroySensors, RecorderTypeOK
    <2>2. RigInv'
        <3>1. PICK kept \in {{}} \union {{s} : s \in rig.listed} :
                /\ rig' = [rig EXCEPT !.spawned = @ \ (rig.listed \ kept), !.listed = {}]
                /\ excuses' = excuses \union (IF kept = {} THEN {} ELSE {"refused"})
            BY <1>6 DEF DestroySensors
        <3>2. rig.spawned = rig.listed \/ excuses # {}
            BY <1>6 DEF DestroySensors, RigInv
        <3>3. rig'.spawned = rig.spawned \ (rig.listed \ kept)
            BY <3>1 DEF RecorderTypeOK
        <3>4. rig'.spawned = {} \/ excuses' # {}
            BY <3>1, <3>2, <3>3
        <3>5. recorder'.pc = "report"
            BY <1>6 DEF DestroySensors, RecorderTypeOK
        <3> QED
            BY <3>4, <3>5 DEF RigInv
    <2>3. ParentInv'
        BY <1>6 DEF DestroySensors, RecorderTypeOK, ParentInv
    <2> QED
        BY <2>1, <2>2, <2>3
<1>7. CASE \E s \in Sensors : PersistMeasurement(s)
    <2>1. PICK s \in Sensors : PersistMeasurement(s)
        BY <1>7
    <2>2. RecorderTypeOK'
        BY <2>1 DEF PersistMeasurement, RecorderTypeOK
    <2>3. rig'.spawned = rig.spawned /\ rig'.listed = rig.listed
        BY <2>1 DEF PersistMeasurement, RecorderTypeOK
    <2>4. UNCHANGED <<parent, recorder, excuses>>
        BY <2>1 DEF PersistMeasurement
    <2>5. RigInv' /\ ParentInv'
        BY <2>3, <2>4 DEF RigInv, ParentInv, Attaching
    <2> QED
        BY <2>2, <2>5
<1> QED
    BY <1>1, <1>2, <1>3, <1>4, <1>5, <1>6, <1>7

LEMMA RecorderInvNext ==
    ASSUME RecorderInv, [RecorderNext]_recorderVars
    PROVE  RecorderInv'
<1>1. ASSUME UNCHANGED recorderVars PROVE RecorderInv'
    BY <1>1 DEF recorderVars, RecorderInv, RecorderTypeOK, RigInv, ParentInv, Attaching,
                RecorderEnded
<1> QED
    BY <1>1, ParentKeepsInv, AttachKeepsInv, WorkerKeepsInv DEF RecorderNext, RecorderStep

LEMMA RecorderInvariant == RecorderSpec => []RecorderInv
BY RecorderInvInit, RecorderInvNext, PTL DEF RecorderSpec

(* Type correctness of the recorder and of the process that starts it.     *)
THEOREM RecorderTypeCorrect == RecorderSpec => []RecorderTypeOK
BY RecorderInvariant, PTL DEF RecorderInv

(* When SensorRecorderProcess.stop has returned, the recorder is gone, and *)
(* with any number of sensors it has left none in CARLA, unless it was     *)
(* killed, or a sensor was lost or refused.                                *)
THEOREM StoppedRecorderIsClean == RecorderSpec => []StoppedRecorderLeavesNothing
<1>1. RecorderInv => StoppedRecorderLeavesNothing
    BY DEF RecorderInv, ParentInv, RigInv, StoppedRecorderLeavesNothing
<1> QED
    BY <1>1, RecorderInvariant, PTL

-------------------------------------------------------------------------------
(***************************************************************************)
(* The control file.  As long as no two processes were at it at a time,    *)
(* the file that an update left empty has a writer, and the status of the  *)
(* recorder, in the file or in the copy of that writer, is one that fits   *)
(* where the worker is.                                                    *)
(***************************************************************************)

Updating == {"boot", "starting", "started", "startError", "stopped", "stopError"}

LoopTypeOK ==
    /\ loop \in [pc: Updating \union {"setup", "record", "loop", "tick", "stop", "over"},
                 recorder: BOOLEAN, held: BOOLEAN]
    /\ torn \in BOOLEAN

OneWriter ==
    /\ \A p, q \in Writers : Between(p) /\ Between(q) => p = q
    /\ \A p \in Writers : io[p].pc = "write" => control.text = "empty"
    /\ Unreadable => \E p \in Writers : io[p].pc = "write"

Idle == {"DISABLED", "STOPPED"}
StatusWithin(S) ==
    /\ ~Unreadable => control.recorder \in S
    /\ \A p \in Writers : Between(p) => io[p].recorder \in S

StatusInv ==
    /\ loop.pc \in {"setup", "starting"} => StatusWithin(Idle)
    /\ loop.pc \in {"loop", "tick", "stop"} /\ ~loop.held =>
            StatusWithin(Idle \union {"ERROR"})
    /\ loop.pc = "over" => StatusWithin(IF carla.recording THEN {"ERROR"}
                                        ELSE Idle \union {"ERROR"})

RecordingInv ==
    carla.recording =>
        loop.pc \in {"started", "stopError", "over"}
            \/ (loop.held /\ loop.pc \in {"loop", "tick", "stop"})

ControlInv ==
    /\ ControlTypeOK /\ LoopTypeOK
    /\ Between(Worker) => loop.pc \in Updating
    /\ torn \/ (OneWriter /\ StatusInv /\ RecordingInv)

-------------------------------------------------------------------------------
(* Patches, and what merging them makes, are weathers.                     *)
LEMMA WeatherTyped ==
    /\ NoWeather \in Weathers
    /\ \A c \in Clients, named \in SUBSET Fields, w \in Weathers :
            Patch(c, named) \in Weathers /\ Merged(w, Patch(c, named)) \in Weathers
    /\ \A c \in Clients : ControlTypeOK /\ c \in Writers => Granted(c) \in Weathers
BY DEF NoWeather, Weathers, Patch, Merged, Granted, ControlTypeOK

LEMMA ControlInvInit == ControlInit => ControlInv
<1> SUFFICES ASSUME ControlInit PROVE ControlInv
    OBVIOUS
<1> USE DEF ControlInit, NoText, NoUpdate
<1>1. ControlTypeOK
    <2>1. control = [text |-> "missing", weather |-> NoWeather, recorder |-> "absent",
                     news |-> TRUE]
        OBVIOUS
    <2>2. io = [p \in Writers |-> [pc |-> "none", weather |-> NoWeather,
                                  recorder |-> "absent"]]
        OBVIOUS
    <2>3. carla = [weather |-> FirstWeather, recording |-> FALSE] /\ granted = NoWeather
        OBVIOUS
    <2> QED
        BY <2>1, <2>2, <2>3, WeatherTyped DEF ControlTypeOK, RecorderStatus
<1>2. LoopTypeOK
    <2>1. PICK on \in BOOLEAN : loop = [pc |-> "boot", recorder |-> on, held |-> FALSE]
        OBVIOUS
    <2>2. loop \in [pc: {"boot"}, recorder: BOOLEAN, held: BOOLEAN]
        BY <2>1
    <2> QED
        BY <2>2 DEF LoopTypeOK, Updating
<1>3. OneWriter /\ StatusInv /\ RecordingInv
    <2>1. \A p \in Writers : io[p].pc = "none"
        OBVIOUS
    <2>2. control.text = "missing" /\ ~carla.recording /\ loop.pc = "boot"
        OBVIOUS
    <2> QED
        BY <2>1, <2>2 DEF OneWriter, StatusInv, RecordingInv, Between, Unreadable
<1> QED
    BY <1>1, <1>2, <1>3 DEF ControlInv, Updating

(* A process that loads the file is the only one at it, or tears it.       *)
LEMMA LoadKeepsInv ==
    ASSUME ControlInv, NEW p \in Writers, io[p].pc = "none",
           NEW weather \in Weathers, Loaded(p, weather), p = Worker => loop.pc \in Updating,
           UNCHANGED <<control, loop, carla, granted>>
    PROVE  ControlInv'
<1> USE DEF ControlInv
<1>1. /\ ~Unreadable
      /\ io' = [io EXCEPT ![p] = [pc |-> "open", weather |-> weather,
                                  recorder |-> control.recorder]]
      /\ torn' = Disturbed(p)
    BY DEF Loaded
<1>2. /\ io'[p] = [pc |-> "open", weather |-> weather, recorder |-> control.recorder]
      /\ \A q \in Writers \ {p} : io'[q] = io[q]
    BY <1>1 DEF ControlTypeOK
<1>3. ControlTypeOK' /\ LoopTypeOK'
    BY <1>1 DEF ControlTypeOK, LoopTypeOK, Disturbed
<1>4. Between(Worker)' => loop.pc \in Updating
    BY <1>2 DEF Between, Writers
<1>5. ASSUME ~torn' PROVE OneWriter' /\ StatusInv' /\ RecordingInv'
    <2>1. ~torn /\ \A q \in Writers \ {p} : ~Between(q)
        BY <1>1, <1>5 DEF Disturbed
    <2>2. OneWriter'
        BY <1>1, <1>2, <2>1 DEF OneWriter, Between, Unreadable
    <2>3. \A S : StatusWithin(S) => StatusWithin(S)'
        BY <1>1, <1>2, <2>1 DEF StatusWithin, Between, Unreadable
    <2>4. StatusInv' /\ RecordingInv'
        BY <2>1, <2>3 DEF StatusInv, RecordingInv
    <2> QED
        BY <2>2, <2>4
<1> QED
    BY <1>3, <1>4, <1>5

(* Opening the file for writing empties it; the writer has the copy.       *)
LEMMA OpenKeepsInv ==
    ASSUME ControlInv, NEW p \in Writers, OpenForWriting(p)
    PROVE  ControlInv'
<1> USE DEF ControlInv
<1>1. /\ io[p].pc = "open" /\ control' = NoText("empty")
      /\ io' = [io EXCEPT ![p].pc = "write"] /\ torn' = Disturbed(p)
      /\ UNCHANGED <<loop, carla, granted>>
    BY DEF OpenForWriting
<1>2. /\ io'[p].pc = "write" /\ io'[p].recorder = io[p].recorder
      /\ \A q \in Writers \ {p} : io'[q] = io[q]
    BY <1>1 DEF ControlTypeOK
<1>3. ControlTypeOK' /\ LoopTypeOK'
    BY <1>1, WeatherTyped DEF ControlTypeOK, LoopTypeOK, Disturbed, NoText, RecorderStatus
<1>4. Between(Worker)' => loop.pc \in Updating
    BY <1>1, <1>2 DEF Between, Writers
<1>5. ASSUME ~torn' PROVE OneWriter' /\ StatusInv' /\ RecordingInv'
    <2>1. ~torn /\ \A q \in Writers \ {p} : ~Between(q)
        BY <1>1, <1>5 DEF Disturbed
    <2>2. OneWriter'
        BY <1>1, <1>2, <2>1 DEF OneWriter, Between, Unreadable, NoText
    <2>3. \A S : StatusWithin(S) => StatusWithin(S)'
        BY <1>1, <1>2, <2>1 DEF StatusWithin, Between, Unreadable, NoText
    <2>4. StatusInv' /\ RecordingInv'
        BY <1>1, <2>1, <2>3 DEF StatusInv, RecordingInv
    <2> QED
        BY <2>2, <2>4
<1> QED
    BY <1>1, <1>3, <1>4, <1>5

(* A dump into a file that nobody else is at leaves a whole text and no    *)
(* writer.                                                                 *)
LEMMA DumpLeavesOneText ==
    ASSUME ControlInv, NEW p \in Writers, io[p].pc = "write",
           NEW weather \in Weathers, NEW status \in RecorderStatus, NEW update,
           Dumped(weather, status), ~Disturbed(p),
           io' = [io EXCEPT ![p] = update], update.pc \notin {"open", "write"}
    PROVE  /\ ~torn /\ OneWriter' /\ control'.recorder = status
           /\ \A q \in Writers : ~Between(q)'
<1>1. ~torn /\ \A q \in Writers \ {p} : ~Between(q)
    BY DEF Disturbed
<1>2. control.text = "empty"
    BY <1>1 DEF ControlInv, OneWriter
<1>3. control' = Text(weather, status)
    BY <1>2 DEF Dumped
<1>4. io'[p].pc \notin {"open", "write"} /\ \A q \in Writers \ {p} : io'[q] = io[q]
    BY DEF ControlInv, ControlTypeOK
<1>5. \A q \in Writers : ~Between(q)'
    BY <1>1, <1>4 DEF Between
<1> QED
    BY <1>1, <1>3, <1>5 DEF OneWriter, Between, Unreadable, Text

LEMMA DumpTyped ==
    ASSUME ControlTypeOK, NEW weather \in Weathers, NEW status \in RecorderStatus,
           Dumped(weather, status)
    PROVE  control' \in [text: {"missing", "empty", "garbled", "whole"}, weather: Weathers,
                         recorder: RecorderStatus, news: BOOLEAN]
<1>1. CASE control' = Text(weather, status)
    BY <1>1 DEF Text
<1>2. CASE control' = NoText("garbled")
    BY <1>2, WeatherTyped DEF NoText, RecorderStatus
<1> QED
    BY <1>1, <1>2 DEF Dumped

LEMMA ClientKeepsInv ==
    ASSUME ControlInv, NEW c \in Clients, RequestUpdate(c) \/ SaveWeather(c)
    PROVE  ControlInv'
<1> USE DEF ControlInv
<1>0. c \in Writers /\ c # Worker /\ Worker \in Writers
    BY ControlConstants DEF Writers
<1>1. ASSUME NEW named \in SUBSET Fields, RequestUpdate(c),
             Loaded(c, Merged(control.weather, Patch(c, named)))
      PROVE  ControlInv'
    <2>1. Merged(control.weather, Patch(c, named)) \in Weathers
        BY WeatherTyped DEF ControlTypeOK
    <2> QED
        BY <1>0, <1>1, <2>1, LoadKeepsInv DEF RequestUpdate
<1>2. ASSUME RequestUpdate(c), Unreadable PROVE ControlInv'
    <2>1. /\ io[c].pc = "none" /\ Unreadable /\ io' = [io EXCEPT ![c].pc = "refused"]
          /\ torn' = Disturbed(c) /\ UNCHANGED <<control, loop, carla, granted>>
        BY <1>2 DEF RequestUpdate, Loaded
    <2>2. /\ io'[c].pc = "refused" /\ \A q \in Writers \ {c} : io'[q] = io[q]
        BY <1>0, <2>1 DEF ControlTypeOK
    <2>3. ControlTypeOK' /\ LoopTypeOK'
        BY <1>0, <2>1 DEF ControlTypeOK, LoopTypeOK, Disturbed
    <2>4. Between(Worker)' => loop.pc \in Updating
        BY <1>0, <2>2 DEF Between
    <2>5. torn'
        BY <1>0, <2>1 DEF OneWriter, Disturbed, Between
    <2> QED
        BY <2>1, <2>3, <2>4, <2>5
<1>3. ASSUME SaveWeather(c) PROVE ControlInv'
    <2>1. /\ io[c].pc = "write" /\ Dumped(io[c].weather, io[c].recorder)
          /\ io' = [io EXCEPT ![c] = [NoUpdate EXCEPT !.pc = "granted"]]
          /\ granted' = Granted(c) /\ torn' = Disturbed(c) /\ UNCHANGED <<loop, carla>>
        BY <1>3 DEF SaveWeather
    <2>2. /\ io[c].weather \in Weathers /\ io[c].recorder \in RecorderStatus
          /\ Granted(c) \in Weathers
        BY <1>0, WeatherTyped DEF ControlTypeOK
    <2> DEFINE update == [NoUpdate EXCEPT !.pc = "granted"]
    <2>3. update.pc = "granted"
          /\ update \in [pc: {"none", "open", "write", "granted", "refused"},
                         weather: Weathers, recorder: RecorderStatus]
        BY WeatherTyped DEF NoUpdate, RecorderStatus
    <2> HIDE DEF update
    <2>4. io' = [io EXCEPT ![c] = update]
        BY <2>1 DEF update
    <2>5. ControlTypeOK'
        <3>1. control' \in [text: {"missing", "empty", "garbled", "whole"}, weather: Weathers,
                            recorder: RecorderStatus, news: BOOLEAN]
            BY <2>1, <2>2, DumpTyped
        <3>2. io' \in [Writers -> [pc: {"none", "open", "write", "granted", "refused"},
                                  weather: Weathers, recorder: RecorderStatus]]
            BY <1>0, <2>3, <2>4 DEF ControlTypeOK
        <3> QED
            BY <2>1, <2>2, <3>1, <3>2 DEF ControlTypeOK
    <2>6. LoopTypeOK'
        BY <2>1 DEF LoopTypeOK, Disturbed
    <2>7. Between(Worker)' => loop.pc \in Updating
        BY <1>0, <2>4 DEF Between, ControlTypeOK
    <2>8. ASSUME ~torn' PROVE OneWriter' /\ StatusInv' /\ RecordingInv'
        <3>1. /\ ~torn /\ OneWriter' /\ control'.recorder = io[c].recorder
              /\ \A q \in Writers : ~Between(q)'
            BY <1>0, <2>1, <2>2, <2>3, <2>4, <2>8, DumpLeavesOneText
        <3>2. \A S : StatusWithin(S) => StatusWithin(S)'
            BY <1>0, <2>1, <3>1 DEF StatusWithin, Between
        <3> QED
            BY <2>1, <3>1, <3>2 DEF StatusInv, RecordingInv
    <2> QED
        BY <2>1, <2>5, <2>6, <2>7, <2>8
<1> QED
    BY <1>1, <1>2, <1>3 DEF RequestUpdate

(* The worker reads the file before an update: an empty file has a writer, *)
(* and the update that raises has torn it.                                 *)
LEMMA WorkerLoadsKeepsInv ==
    ASSUME ControlInv, WorkerLoads
    PROVE  ControlInv'
<1> USE DEF ControlInv
<1>0. Worker \in Writers /\ loop.pc \in Updating
    BY DEF Writers, WorkerLoads, SectionAt, Updating
<1>1. CASE Loaded(Worker, control.weather) /\ UNCHANGED loop
    BY <1>0, <1>1, LoadKeepsInv DEF WorkerLoads, ControlTypeOK
<1>2. CASE /\ Unreadable /\ LoopGoto(Escape(loop.pc)) /\ torn' = Disturbed(Worker)
           /\ UNCHANGED io
    <2>1. io[Worker].pc = "none" /\ UNCHANGED <<control, io, carla, granted>>
        BY <1>2 DEF WorkerLoads
    <2>2. Escape(loop.pc) \in {"stop", "stopError", "over"}
        BY DEF Escape
    <2>3. ControlTypeOK' /\ LoopTypeOK'
        BY <1>2, <2>1, <2>2 DEF ControlTypeOK, LoopTypeOK, LoopGoto, Updating, Disturbed
    <2>4. ~Between(Worker)'
        BY <2>1 DEF Between
    <2>5. torn'
        BY <1>0, <1>2, <2>1 DEF OneWriter, Disturbed, Between
    <2> QED
        BY <2>3, <2>4, <2>5
<1> QED
    BY <1>1, <1>2 DEF WorkerLoads

LEMMA WorkerDumpsKeepsInv ==
    ASSUME ControlInv, WorkerDumps
    PROVE  ControlInv'
<1> USE DEF ControlInv
<1> DEFINE status == SectionAt[loop.pc]
<1> DEFINE next == NextAt[loop.pc]
<1>0. Worker \in Writers /\ loop.pc \in Updating
    BY DEF Writers, WorkerDumps, Between
<1>1. /\ loop.pc = "boot" => status \in Idle /\ next = "setup"
      /\ loop.pc = "starting" => status = "STARTING" /\ next = "record"
      /\ loop.pc = "started" => status = "RUNNING" /\ next = "loop"
      /\ loop.pc = "startError" => status = "ERROR" /\ next = "loop"
      /\ loop.pc = "stopped" => status = "STOPPED" /\ next = "over"
      /\ loop.pc = "stopError" => status = "ERROR" /\ next = "over"
    BY DEF SectionAt, NextAt, Idle
<1>2. status \in RecorderStatus /\ next \in {"setup", "record", "loop", "over"}
    BY <1>0, <1>1 DEF Updating, Idle, RecorderStatus
<1>3. /\ io[Worker].pc = "write" /\ Dumped(io[Worker].weather, status)
      /\ io' = [io EXCEPT ![Worker] = NoUpdate]
      /\ loop' = [loop EXCEPT !.pc = next, !.held = loop.held \/ (loop.pc = "started")]
      /\ torn' = Disturbed(Worker) /\ UNCHANGED <<carla, granted>>
    BY DEF WorkerDumps, PatchRecorder, Held
<1> HIDE DEF status, next
<1>4. NoUpdate \in [pc: {"none", "open", "write", "granted", "refused"},
                    weather: Weathers, recorder: RecorderStatus]
      /\ NoUpdate.pc = "none"
    BY WeatherTyped DEF NoUpdate, RecorderStatus
<1>5. ControlTypeOK'
    BY <1>0, <1>2, <1>3, <1>4, DumpTyped DEF ControlTypeOK
<1>6. LoopTypeOK'
    BY <1>2, <1>3 DEF LoopTypeOK, Disturbed, Updating
<1>7. ~Between(Worker)'
    BY <1>0, <1>3, <1>4 DEF Between, ControlTypeOK
<1>8. ASSUME ~torn' PROVE OneWriter' /\ StatusInv' /\ RecordingInv'
    <2>1. /\ ~torn /\ OneWriter' /\ control'.recorder = status
          /\ \A q \in Writers : ~Between(q)'
        BY <1>0, <1>2, <1>3, <1>4, <1>8, DumpLeavesOneText DEF ControlTypeOK
    <2>2. \A S : status \in S => StatusWithin(S)'
        BY <2>1 DEF StatusWithin
    <2>3. /\ loop'.pc = next /\ carla' = carla
          /\ loop'.held = (loop.held \/ (loop.pc = "started"))
        BY <1>3 DEF LoopTypeOK
    <2>4. StatusInv'
        BY <1>0, <1>1, <2>1, <2>2, <2>3 DEF StatusInv, Updating, RecordingInv, Idle
    <2>5. RecordingInv'
        BY <1>0, <1>1, <2>1, <2>3 DEF RecordingInv, Updating
    <2> QED
        BY <2>1, <2>4, <2>5
<1> QED
    BY <1>5, <1>6, <1>7, <1>8

(* The steps of the worker that leave the file alone, or only read it.     *)
LEMMA WorkerStepsKeepInv ==
    ASSUME ControlInv,
           WorkerSetsUp \/ StartRecorder \/ PollControl \/ TickWorld \/ StopRecorder
    PROVE  ControlInv'
<1> USE DEF ControlInv, LoopGoto
<1>0. Worker \in Writers
    BY DEF Writers
<1>1. CASE WorkerSetsUp
    <2>1. /\ loop.pc = "setup" /\ UNCHANGED <<control, io, carla, granted, torn>>
          /\ loop'.pc \in {"starting", "loop", "stop"} /\ loop'.held = loop.held
          /\ LoopTypeOK'
        BY <1>1 DEF WorkerSetsUp, LoopTypeOK, Updating
    <2>2. ControlTypeOK' /\ ~Between(Worker)' /\ (OneWriter => OneWriter')
        BY <2>1 DEF ControlTypeOK, Between, Updating, OneWriter, Unreadable
    <2>3. StatusInv /\ RecordingInv => StatusInv' /\ RecordingInv'
        BY <2>1 DEF StatusInv, RecordingInv, StatusWithin, Between, Unreadable
    <2> QED
        BY <2>1, <2>2, <2>3
<1>2. CASE StartRecorder
    <2>1. /\ loop.pc = "record" /\ UNCHANGED <<control, io, granted, torn>>
          /\ \/ loop'.pc = "started"
             \/ loop'.pc = "startError" /\ carla' = carla
          /\ loop'.held = loop.held /\ LoopTypeOK'
        BY <1>2 DEF StartRecorder, LoopTypeOK, Updating
    <2>2. ControlTypeOK' /\ ~Between(Worker)' /\ (OneWriter => OneWriter')
        BY <1>2, <2>1 DEF StartRecorder, ControlTypeOK, Between, Updating, OneWriter,
                          Unreadable
    <2>3. StatusInv /\ RecordingInv => StatusInv' /\ RecordingInv'
        BY <2>1 DEF StatusInv, RecordingInv
    <2> QED
        BY <2>1, <2>2, <2>3
<1>3. CASE PollControl
    <2>1. /\ loop.pc = "loop" /\ UNCHANGED <<io, granted>> /\ torn' = Disturbed(Worker)
          /\ loop'.held = loop.held /\ LoopTypeOK'
          /\ loop'.pc \in {"tick", "stop"}
          /\ control'.text = control.text /\ control'.recorder = control.recorder
          /\ carla'.recording = carla.recording
        BY <1>3 DEF PollControl, LoopTypeOK, Updating, Disturbed, ControlTypeOK
    <2>2. ControlTypeOK'
        <3>1. control' \in [text: {"missing", "empty", "garbled", "whole"}, weather: Weathers,
                            recorder: RecorderStatus, news: BOOLEAN]
            BY <1>3 DEF PollControl, ControlTypeOK
        <3>2. control.weather \in Weathers
            BY DEF ControlTypeOK
        <3>3. carla' \in [weather: Weathers \union {FirstWeather}, recording: BOOLEAN]
            BY <1>3, <3>2 DEF PollControl, ControlTypeOK, HasWeather
        <3> QED
            BY <2>1, <3>1, <3>3 DEF ControlTypeOK
    <2>3. ~Between(Worker)'
        BY <2>1 DEF Between, Updating
    <2>4. ASSUME ~torn' PROVE OneWriter' /\ StatusInv' /\ RecordingInv'
        <3>1. ~torn
            BY <2>1, <2>4 DEF Disturbed
        <3>2. OneWriter'
            BY <2>1, <3>1 DEF OneWriter, Between, Unreadable
        <3>3. StatusInv' /\ RecordingInv'
            BY <2>1, <3>1 DEF StatusInv, RecordingInv, StatusWithin, Between, Unreadable
        <3> QED
            BY <3>2, <3>3
    <2> QED
        BY <2>1, <2>2, <2>3, <2>4
<1>4. CASE TickWorld
    <2>1. /\ loop.pc = "tick" /\ UNCHANGED <<control, io, carla, granted, torn>>
          /\ loop'.held = loop.held /\ LoopTypeOK' /\ loop'.pc \in {"loop", "stop"}
        BY <1>4 DEF TickWorld, LoopTypeOK, Updating
    <2>2. ControlTypeOK' /\ ~Between(Worker)' /\ (OneWriter => OneWriter')
        BY <2>1 DEF ControlTypeOK, Between, Updating, OneWriter, Unreadable
    <2>3. StatusInv /\ RecordingInv => StatusInv' /\ RecordingInv'
        BY <2>1 DEF StatusInv, RecordingInv, StatusWithin, Between, Unreadable
    <2> QED
        BY <2>1, <2>2, <2>3
<1>5. CASE StopRecorder
    <2>1. /\ loop.pc = "stop" /\ UNCHANGED <<control, io, granted, torn>>
          /\ loop'.held = loop.held /\ LoopTypeOK'
          /\ loop'.pc \in {"over", "stopped", "stopError"}
          /\ loop'.pc = "over" => carla' = carla /\ ~loop.held
          /\ loop'.pc = "stopped" => ~carla'.recording
          /\ carla' \in [weather: Weathers \union {FirstWeather}, recording: BOOLEAN]
        BY <1>5 DEF StopRecorder, LoopTypeOK, Updating, ControlTypeOK
    <2>2. ControlTypeOK' /\ ~Between(Worker)' /\ (OneWriter => OneWriter')
        BY <2>1 DEF ControlTypeOK, Between, Updating, OneWriter, Unreadable
    <2>3. StatusInv /\ RecordingInv => StatusInv' /\ RecordingInv'
        BY <2>1 DEF StatusInv, RecordingInv, StatusWithin, Between, Unreadable
    <2> QED
        BY <2>1, <2>2, <2>3
<1> QED
    BY <1>1, <1>2, <1>3, <1>4, <1>5

LEMMA ControlInvNext ==
    ASSUME ControlInv, [ControlNext]_controlVars
    PROVE  ControlInv'
<1>1. ASSUME UNCHANGED controlVars PROVE ControlInv'
    BY <1>1 DEF controlVars, ControlInv, ControlTypeOK, LoopTypeOK, OneWriter, StatusInv,
                RecordingInv, StatusWithin, Between, Unreadable
<1>2. ASSUME ControlNext PROVE ControlInv'
    <2>1. Clients \subseteq Writers /\ Worker \in Writers
        BY DEF Writers
    <2> QED
        BY <1>2, <2>1, OpenKeepsInv, ClientKeepsInv, WorkerLoadsKeepsInv, WorkerDumpsKeepsInv,
           WorkerStepsKeepInv DEF ControlNext, LoopStep
<1> QED
    BY <1>1, <1>2

LEMMA ControlInvariant == ControlSpec => []ControlInv
BY ControlInvInit, ControlInvNext, PTL DEF ControlSpec

(* Type correctness of the control file, its updates and the loop.         *)
THEOREM ControlTypeCorrect == ControlSpec => [](ControlTypeOK /\ LoopTypeOK)
BY ControlInvariant, PTL DEF ControlInv

(* Whatever number of clients change the weather: as long as no two        *)
(* processes are at the file at a time, its last word on the recorder is   *)
(* true.                                                                   *)
THEOREM RecorderStatusStaysTrue == ControlSpec => []RecorderStatusIsTrue
<1>1. ControlInv => RecorderStatusIsTrue
    BY DEF ControlInv, StatusInv, StatusWithin, Idle, RecorderStatusIsTrue
<1> QED
    BY <1>1, ControlInvariant, PTL

(* The settings that were granted last.  While the file is used by one     *)
(* process at a time they are in the file, and in the copy of the process  *)
(* that has an update in progress, in which only what a client's own patch *)
(* names differs; and the world has them unless the file is news to the    *)
(* worker.  A request that is still at it has been granted nothing yet.    *)
OwnSettings ==
    /\ \A c \in Clients : io[c].pc # "granted" => \A k \in Settings : granted[k] # c
    /\ \A c \in Clients : Between(c) => io[c].weather["preset"] = c
    /\ granted # NoWeather => granted["preset"] # NoValue

WeatherInv ==
    /\ OwnSettings
    /\ ~Unreadable => control.weather = granted
    /\ ~Unreadable /\ granted # NoWeather => control.news \/ carla.weather = granted
    /\ Between(Worker) => io[Worker].weather = granted
    /\ \A c \in Clients : Between(c) => io[c].weather = Granted(c)

(* What a client writes back is what was granted, with its own settings.   *)
LEMMA MergedIsGranted ==
    ASSUME NEW c \in Clients, NEW named \in SUBSET Fields, granted \in Weathers,
           \A k \in Settings : granted[k] # c,
           io'[c].weather = Merged(granted, Patch(c, named)), granted' = granted
    PROVE  io'[c].weather = Granted(c)' /\ io'[c].weather["preset"] = c
<1>1. c # NoValue
    BY ControlConstants
<1>2. \A k \in Settings : io'[c].weather[k] =
            IF k \in named \union {"preset"} THEN c ELSE granted[k]
    BY <1>1 DEF Merged, Patch
<1>3. Granted(c)' = [k \in Settings |-> IF io'[c].weather[k] = c THEN c ELSE granted[k]]
    BY DEF Granted
<1>4. \A k \in Settings :
            io'[c].weather[k] = IF io'[c].weather[k] = c THEN c ELSE granted[k]
    BY <1>2
<1>5. io'[c].weather = [k \in Settings |-> io'[c].weather[k]]
    BY DEF Merged
<1> QED
    BY <1>2, <1>3, <1>4, <1>5 DEF Settings

LEMMA LoadKeepsWeather ==
    ASSUME ControlInv, ~torn => WeatherInv, NEW p \in Writers, NEW weather,
           Loaded(p, weather), io[p].pc = "none", UNCHANGED <<control, carla, granted>>,
           \/ p = Worker /\ weather = control.weather
           \/ p \in Clients /\ \E named \in SUBSET Fields :
                                    weather = Merged(control.weather, Patch(p, named))
    PROVE  ~torn' => WeatherInv'
<1> SUFFICES ASSUME ~torn' PROVE WeatherInv'
    OBVIOUS
<1>1. ~torn /\ WeatherInv /\ \A q \in Writers \ {p} : ~Between(q)
    BY DEF Loaded, Disturbed
<1>2. /\ ~Unreadable /\ Unreadable' = Unreadable /\ control.weather = granted
      /\ io' = [io EXCEPT ![p] = [pc |-> "open", weather |-> weather,
                                  recorder |-> control.recorder]]
    BY <1>1 DEF Loaded, Unreadable, WeatherInv
<1>3. \A q \in Writers : io'[q] = IF q = p THEN [pc |-> "open", weather |-> weather,
                                                 recorder |-> control.recorder]
                                           ELSE io[q]
    BY <1>2 DEF ControlInv, ControlTypeOK
<1>4. \A q \in Writers : Between(q)' => q = p
    BY <1>1, <1>3 DEF Between
<1>5. Worker \in Writers /\ Clients \subseteq Writers /\ Worker \notin Clients
    BY ControlConstants DEF Writers
<1>6. ASSUME p \in Clients
      PROVE  io'[p].weather = Granted(p)' /\ io'[p].weather["preset"] = p
    <2>1. PICK named \in SUBSET Fields : weather = Merged(granted, Patch(p, named))
        BY <1>2, <1>5, <1>6
    <2>2. granted \in Weathers /\ \A k \in Settings : granted[k] # p
        BY <1>1, <1>6 DEF ControlInv, ControlTypeOK, WeatherInv, OwnSettings
    <2> QED
        BY <1>3, <1>6, <2>1, <2>2, MergedIsGranted
<1>7. OwnSettings'
    BY <1>1, <1>3, <1>4, <1>5, <1>6 DEF WeatherInv, OwnSettings
<1>8. /\ Between(Worker)' => io'[Worker].weather = granted
      /\ \A c \in Clients : Between(c)' => io'[c].weather = Granted(c)'
    BY <1>2, <1>3, <1>4, <1>5, <1>6
<1> QED
    BY <1>1, <1>2, <1>7, <1>8 DEF WeatherInv

(* Steps that leave the copies and the file's settings alone.              *)
LEMMA OwnersKeepWeather ==
    ASSUME \A q \in Writers : /\ io'[q].weather = io[q].weather
                              /\ Between(q)' => Between(q)
                              /\ io'[q].pc = "granted" <=> io[q].pc = "granted",
           granted' = granted
    PROVE  /\ OwnSettings => OwnSettings'
           /\ \A c \in Clients : Granted(c)' = Granted(c)
<1>1. Clients \subseteq Writers
    BY DEF Writers
<1> QED
    BY <1>1 DEF OwnSettings, Granted

LEMMA OpenKeepsWeather ==
    ASSUME ControlInv, ~torn => WeatherInv, NEW p \in Writers, OpenForWriting(p)
    PROVE  ~torn' => WeatherInv'
<1> SUFFICES ASSUME ~torn' PROVE WeatherInv'
    OBVIOUS
<1>1. ~torn
    BY DEF OpenForWriting, Disturbed
<1>2. /\ io[p].pc = "open" /\ control'.text = "empty"
      /\ io' = [io EXCEPT ![p].pc = "write"] /\ UNCHANGED <<carla, granted>>
    BY DEF OpenForWriting, NoText
<1>3. \A q \in Writers : /\ io'[q].weather = io[q].weather
                         /\ Between(q)' => Between(q)
                         /\ io'[q].pc = "granted" <=> io[q].pc = "granted"
    BY <1>2 DEF ControlInv, ControlTypeOK, Between
<1>4. Worker \in Writers /\ Clients \subseteq Writers
    BY DEF Writers
<1> QED
    BY <1>1, <1>2, <1>3, <1>4, OwnersKeepWeather DEF WeatherInv, Unreadable

(* An update that was alone at the file closes it with what it dumped: the *)
(* file is whole, and nobody has an update in progress.                    *)
LEMMA DumpIsAlone ==
    ASSUME ControlInv, NEW p \in Writers, io[p].pc = "write",
           ~torn', torn' = Disturbed(p), NEW w, NEW status, Dumped(w, status)
    PROVE  /\ ~torn /\ control' = Text(w, status)
           /\ \A q \in Writers \ {p} : ~Between(q)
<1>1. ~torn /\ \A q \in Writers \ {p} : ~Between(q)
    BY DEF Disturbed
<1>2. control.text = "empty"
    BY <1>1 DEF ControlInv, OneWriter
<1> QED
    BY <1>1, <1>2 DEF Dumped

LEMMA DumpKeepsWeather ==
    ASSUME ControlInv, ~torn => WeatherInv,
           \/ WorkerDumps
           \/ \E c \in Clients : SaveWeather(c)
    PROVE  ~torn' => WeatherInv'
<1> SUFFICES ASSUME ~torn' PROVE WeatherInv'
    OBVIOUS
<1>0. Worker \in Writers /\ Clients \subseteq Writers /\ Worker \notin Clients
    BY ControlConstants DEF Writers
<1>1. CASE WorkerDumps
    <2>1. /\ io[Worker].pc = "write" /\ torn' = Disturbed(Worker)
          /\ io' = [io EXCEPT ![Worker] = NoUpdate] /\ UNCHANGED <<carla, granted>>
          /\ Dumped(io[Worker].weather, SectionAt[loop.pc])
        BY <1>1 DEF WorkerDumps, PatchRecorder
    <2>2. /\ ~torn /\ control' = Text(io[Worker].weather, SectionAt[loop.pc])
          /\ \A q \in Writers \ {Worker} : ~Between(q)
        BY <1>0, <2>1, DumpIsAlone
    <2>3. \A q \in Writers : ~Between(q)'
        BY <2>1, <2>2 DEF Between, NoUpdate, ControlInv, ControlTypeOK
    <2>4. io[Worker].weather = granted /\ OwnSettings
        BY <1>0, <2>1, <2>2 DEF WeatherInv, Between
    <2>5. \A c \in Clients : io'[c] = io[c]
        BY <1>0, <2>1 DEF ControlInv, ControlTypeOK
    <2>6. OwnSettings'
        BY <1>0, <2>1, <2>3, <2>4, <2>5 DEF OwnSettings
    <2> QED
        BY <1>0, <2>1, <2>2, <2>3, <2>4, <2>6 DEF WeatherInv, Text
<1>2. ASSUME NEW c \in Clients, SaveWeather(c) PROVE WeatherInv'
    <2>1. /\ io[c].pc = "write" /\ torn' = Disturbed(c) /\ granted' = Granted(c)
          /\ io' = [io EXCEPT ![c] = [NoUpdate EXCEPT !.pc = "granted"]]
          /\ Dumped(io[c].weather, io[c].recorder)
        BY <1>2 DEF SaveWeather
    <2>2. /\ ~torn /\ control' = Text(io[c].weather, io[c].recorder)
          /\ \A q \in Writers \ {c} : ~Between(q)
        BY <1>0, <2>1, DumpIsAlone
    <2>3. \A q \in Writers : ~Between(q)'
        BY <2>1, <2>2 DEF Between, NoUpdate, ControlInv, ControlTypeOK
    <2>4. /\ io[c].weather = Granted(c) /\ OwnSettings
          /\ io[c].weather["preset"] = c
        BY <1>0, <2>1, <2>2 DEF WeatherInv, Between, OwnSettings
    <2>5. /\ io'[c].pc = "granted" /\ \A q \in Clients \ {c} : io'[q] = io[q]
        BY <1>0, <2>1 DEF ControlInv, ControlTypeOK, NoUpdate
    <2>6. \A k \in Settings : granted'[k] \in {c, granted[k]}
        BY <2>1 DEF Granted
    <2>7. OwnSettings'
        <3>1. \A q \in Clients : io'[q].pc # "granted" =>
                    \A k \in Settings : granted'[k] # q
            BY <2>4, <2>5, <2>6 DEF OwnSettings
        <3>2. granted'["preset"] # NoValue
            BY <2>1, <2>4, ControlConstants
        <3> QED
            BY <1>0, <2>3, <3>1, <3>2 DEF OwnSettings
    <2> QED
        BY <1>0, <2>1, <2>2, <2>3, <2>4, <2>7 DEF WeatherInv, Text
<1> QED
    BY <1>1, <1>2

(* A poll takes the file for known only after it has given its weather to  *)
(* the world.                                                              *)
LEMMA PollKeepsWeather ==
    ASSUME ControlInv, ~torn => WeatherInv, PollControl
    PROVE  ~torn' => WeatherInv'
<1> SUFFICES ASSUME ~torn' PROVE WeatherInv'
    OBVIOUS
<1>1. ~torn /\ UNCHANGED <<io, granted>>
    BY DEF PollControl, Disturbed
<1>2. OwnSettings' /\ \A c \in Clients : Granted(c)' = Granted(c)
    BY <1>1 DEF WeatherInv, OwnSettings, Granted, Between
<1>3. CASE Unreadable
    <2>1. UNCHANGED <<control, carla>>
        BY <1>3 DEF PollControl
    <2> QED
        BY <1>1, <1>2, <2>1 DEF WeatherInv, Between, Unreadable
<1>4. CASE ~Unreadable
    <2>1. /\ control' = [control EXCEPT !.news = FALSE]
          /\ IF control.news /\ control.weather["preset"] # NoValue
             THEN carla' = [carla EXCEPT !.weather = control.weather]
             ELSE UNCHANGED carla
        BY <1>4 DEF PollControl, Applied, HasWeather
    <2>2. /\ control'.weather = control.weather /\ control'.text = control.text
          /\ control.news /\ control.weather["preset"] # NoValue =>
                carla'.weather = control.weather
          /\ ~control.news => carla'.weather = carla.weather
        BY <2>1 DEF ControlInv, ControlTypeOK
    <2>3. control.weather = granted
          /\ (granted # NoWeather => granted["preset"] # NoValue)
          /\ (granted # NoWeather => control.news \/ carla.weather = granted)
        BY <1>1, <1>4 DEF WeatherInv, OwnSettings
    <2>4. granted # NoWeather => carla'.weather = granted
        BY <2>2, <2>3
    <2> QED
        BY <1>1, <1>2, <2>2, <2>3, <2>4 DEF WeatherInv, Between
<1> QED
    BY <1>3, <1>4

LEMMA RestKeepsWeather ==
    ASSUME ControlInv, ~torn => WeatherInv,
           \/ UNCHANGED <<control, io, granted, torn>> /\ UNCHANGED carla.weather
           \/ \E p \in Writers :
                /\ UNCHANGED <<control, carla, granted>> /\ torn' = Disturbed(p)
                /\ \/ io' = io
                   \/ io[p].pc = "none" /\ io' = [io EXCEPT ![p].pc = "refused"]
    PROVE  ~torn' => WeatherInv'
<1> SUFFICES ASSUME ~torn' PROVE WeatherInv'
    OBVIOUS
<1>1. ~torn
    BY DEF Disturbed
<1>2. UNCHANGED <<control, granted>> /\ carla'.weather = carla.weather
    OBVIOUS
<1>3. \/ io' = io
      \/ \E p \in Writers : io[p].pc = "none" /\ io' = [io EXCEPT ![p].pc = "refused"]
    OBVIOUS
<1>4. \A q \in Writers : /\ io'[q].weather = io[q].weather
                         /\ Between(q)' => Between(q)
                         /\ io'[q].pc = "granted" <=> io[q].pc = "granted"
    BY <1>3 DEF ControlInv, ControlTypeOK, Between
<1>5. Worker \in Writers /\ Clients \subseteq Writers
    BY DEF Writers
<1> QED
    BY <1>1, <1>2, <1>4, <1>5, OwnersKeepWeather DEF WeatherInv, Unreadable

LEMMA WeatherInvNext ==
    ASSUME ControlInv, ~torn => WeatherInv, [ControlNext]_controlVars
    PROVE  ~torn' => WeatherInv'
<1>0. Worker \in Writers /\ Clients \subseteq Writers
    BY DEF Writers
<1>1. CASE UNCHANGED controlVars
    BY <1>1, RestKeepsWeather DEF controlVars
<1>2. CASE WorkerLoads
    <2>1. io[Worker].pc = "none" /\ UNCHANGED <<control, carla, granted>>
        BY <1>2 DEF WorkerLoads
    <2>2. CASE Loaded(Worker, control.weather)
        BY <1>0, <2>1, <2>2, LoadKeepsWeather
    <2>3. CASE ~Loaded(Worker, control.weather)
        <3>1. io' = io /\ torn' = Disturbed(Worker)
            BY <1>2, <2>3 DEF WorkerLoads
        <3> QED
            BY <1>0, <2>1, <3>1, RestKeepsWeather
    <2> QED
        BY <2>2, <2>3
<1>3. CASE \E p \in Writers : OpenForWriting(p)
    BY <1>3, OpenKeepsWeather
<1>4. CASE WorkerDumps \/ \E c \in Clients : SaveWeather(c)
    BY <1>4, DumpKeepsWeather
<1>5. CASE PollControl
    BY <1>5, PollKeepsWeather
<1>6. CASE WorkerSetsUp \/ StartRecorder \/ TickWorld \/ StopRecorder
    <2>1. UNCHANGED <<control, io, granted, torn>>
        BY <1>6 DEF WorkerSetsUp, StartRecorder, TickWorld, StopRecorder
    <2>2. UNCHANGED carla.weather
        BY <1>6 DEF WorkerSetsUp, StartRecorder, TickWorld, StopRecorder, ControlInv,
                    ControlTypeOK
    <2> QED
        BY <2>1, <2>2, RestKeepsWeather
<1>7. ASSUME NEW c \in Clients, RequestUpdate(c) PROVE ~torn' => WeatherInv'
    <2>1. io[c].pc = "none" /\ UNCHANGED <<control, carla, granted>>
        BY <1>7 DEF RequestUpdate
    <2>2. ASSUME NEW named \in SUBSET Fields,
                 Loaded(c, Merged(control.weather, Patch(c, named)))
          PROVE  ~torn' => WeatherInv'
        BY <1>0, <2>1, <2>2, LoadKeepsWeather
    <2>3. CASE io' = [io EXCEPT ![c].pc = "refused"] /\ torn' = Disturbed(c)
        BY <1>0, <2>1, <2>3, RestKeepsWeather
    <2> QED
        BY <1>7, <2>2, <2>3 DEF RequestUpdate
<1> QED
    BY <1>0, <1>1, <1>2, <1>3, <1>4, <1>5, <1>6, <1>7 DEF ControlNext, LoopStep

(* Whatever number of clients change the weather, whichever settings they  *)
(* name, and however the worker's own updates fall between theirs: as long *)
(* as no two processes are at the file at a time, every setting that was   *)
(* granted last is in it, and in the world or still to be applied.         *)
THEOREM AcknowledgedStaysKept == ControlSpec => []AcknowledgedIsKept
<1>1. ControlInit => (~torn => WeatherInv)
    <2> SUFFICES ASSUME ControlInit PROVE WeatherInv
        OBVIOUS
    <2>1. /\ control.weather = NoWeather /\ granted = NoWeather
          /\ \A p \in Writers : io[p].pc = "none"
        BY DEF ControlInit, NoText, NoUpdate
    <2>2. Worker \in Writers /\ Clients \subseteq Writers
        BY DEF Writers
    <2>3. \A c \in Clients, k \in Settings : granted[k] # c
        BY <2>1, ControlConstants DEF NoWeather
    <2> QED
        BY <2>1, <2>2, <2>3 DEF WeatherInv, OwnSettings, Between
<1>2. (~torn => WeatherInv) => AcknowledgedIsKept
    BY DEF WeatherInv, AcknowledgedIsKept
<1> QED
    BY <1>1, <1>2, WeatherInvNext, ControlInvariant, PTL DEF ControlSpec

-------------------------------------------------------------------------------
(***************************************************************************)
(* The results of the device.  What the monitor has seen of the metrics    *)
(* file is never ahead of it; a file that it has seen as it is, and whole, *)
(* is one whose metrics it has taken; and while no post fails the final    *)
(* result is in the queue, with the reporter, or at the receiver.          *)
(***************************************************************************)

Seen(signature) ==
    \/ signature.metrics < detector.file.metrics
    \/ signature.metrics = detector.file.metrics /\ (signature.whole => detector.file.whole)

MetricsInv ==
    /\ detector.done => detector.file.whole
    /\ Seen(monitor.signature) /\ Seen(monitor.last_signature)
    /\ monitor.latest <= detector.file.metrics
    /\ monitor.last_signature = detector.file /\ detector.file.whole =>
            monitor.latest = detector.file.metrics
    /\ monitor.quiet =>
            /\ detector.done
            /\ IF monitor.pc = "read" THEN monitor.signature = detector.file
               ELSE monitor.latest = detector.file.metrics

Busy == {"flag", "post", "sent", "answered", "clear", "done"}

CountInv ==
    /\ monitor.pc # "exited" =>
            reporter.unfinished = (IF reporter.queue = NoResult THEN 0 ELSE 1)
                                  + (IF reporter.pc \in Busy THEN 1 ELSE 0)
    /\ monitor.pc = "exited" => reporter.pc = "over"

Final == Result(monitor.latest, "FINAL")
AtReceiver ==
    /\ receiver.stored = Final /\ reporter.queue = NoResult
    /\ reporter.pc \notin {"flag", "post", "sent"}

FinalInv ==
    /\ monitor.pc \in {"put", "evict"} =>
            monitor.out.status = "RUNNING" \/ monitor.out = Final
    /\ failures = 0 => receiver.late = {}
    /\ monitor.pc = "wait" /\ failures = 0 =>
            \/ reporter.queue = Final
            \/ /\ reporter.payload = Final /\ reporter.queue = NoResult
               /\ reporter.pc \in {"flag", "post", "sent"}
            \/ AtReceiver
    /\ monitor.pc \in {"join", "exited"} /\ failures = 0 => AtReceiver

DutInv == DutTypeOK /\ MetricsInv /\ CountInv /\ FinalInv

-------------------------------------------------------------------------------
LEMMA ResultTyped ==
    ASSUME NEW n \in 0 .. MaxMetrics, NEW status \in {"RUNNING", "FINAL"}
    PROVE  /\ Result(n, status) \in Results /\ Result(n, status) # NoResult
           /\ Result(n, status).status = status /\ Result(n, status).metrics = n
BY DEF Result, Results, NoResult

LEMMA NoResultTyped == NoResult \in Results /\ NoFile \in Files
BY DutConstants DEF NoResult, NoFile, Results, Files

LEMMA DutInvInit == DutInit => DutInv
<1> SUFFICES ASSUME DutInit PROVE DutInv
    OBVIOUS
<1> USE DutConstants DEF DutInit
<1>1. DutTypeOK
    BY NoResultTyped DEF DutTypeOK
<1>2. MetricsInv
    BY DEF MetricsInv, Seen, NoFile
<1>3. CountInv /\ FinalInv
    BY DEF CountInv, FinalInv, Busy
<1> QED
    BY <1>1, <1>2, <1>3 DEF DutInv

(* The detector only goes on with a file that it may write.                *)
LEMMA DetectorKeepsInv ==
    ASSUME DutInv, DetectorOpens \/ DetectorWrites \/ DetectorEnds
    PROVE  DutInv'
<1> USE DutConstants DEF DutInv
<1>1. UNCHANGED <<monitor, reporter, receiver, failures>>
    BY DEF DetectorOpens, DetectorWrites, DetectorEnds
<1>2. CountInv' /\ FinalInv'
    BY <1>1 DEF CountInv, FinalInv, Final, AtReceiver
<1>3. detector.file.metrics \in 0 .. MaxMetrics /\ detector.file.whole \in BOOLEAN
    BY DEF DutTypeOK, Files
<1>4. CASE DetectorOpens
    <2>1. /\ detector' \in [file: Files, done: BOOLEAN]
          /\ detector'.file.metrics = detector.file.metrics + 1 /\ ~detector'.file.whole
          /\ ~detector.done /\ ~detector'.done
        <3> DEFINE file == [metrics |-> detector.file.metrics + 1, whole |-> FALSE]
        <3>1. /\ file \in Files /\ ~file.whole
              /\ file.metrics = detector.file.metrics + 1
            BY <1>3, <1>4 DEF DetectorOpens, Files
        <3>2. ~detector.done /\ detector' = [detector EXCEPT !.file = file]
            BY <1>4 DEF DetectorOpens
        <3> QED
            BY <3>1, <3>2 DEF DutTypeOK
    <2>2. MetricsInv'
        BY <1>1, <1>3, <2>1 DEF MetricsInv, Seen, DutTypeOK, Files
    <2> QED
        BY <1>1, <1>2, <2>1, <2>2 DEF DutTypeOK
<1>5. CASE DetectorWrites
    <2>1. /\ detector' \in [file: Files, done: BOOLEAN]
          /\ detector'.file.metrics = detector.file.metrics
          /\ detector'.file.whole /\ ~detector.file.whole /\ ~detector.done
          /\ detector'.done = detector.done
        BY <1>3, <1>5 DEF DetectorWrites, DutTypeOK, Files, MetricsInv
    <2>2. MetricsInv'
        BY <1>1, <1>3, <2>1 DEF MetricsInv, Seen, DutTypeOK, Files
    <2> QED
        BY <1>1, <1>2, <2>1, <2>2 DEF DutTypeOK
<1>6. CASE DetectorEnds
    <2>1. /\ detector' \in [file: Files, done: BOOLEAN]
          /\ detector'.file = detector.file /\ detector'.done
          /\ detector.file.whole
        BY <1>6 DEF DetectorEnds, DutTypeOK
    <2>2. MetricsInv'
        BY <1>1, <2>1 DEF MetricsInv, Seen
    <2> QED
        BY <1>1, <1>2, <2>1, <2>2 DEF DutTypeOK
<1> QED
    BY <1>4, <1>5, <1>6

(* Polls of the metrics file: the file that is read may be a later one     *)
(* than the one whose signature was taken.                                 *)
LEMMA PollKeepsInv ==
    ASSUME DutInv, StopMonitor \/ StatMetrics \/ ReadMetrics \/ BuildFinalResult
    PROVE  DutInv'
<1> USE DutConstants DEF DutInv
<1>1. CASE StopMonitor
    <2>1. /\ monitor.pc = "stat" /\ UNCHANGED <<detector, reporter, receiver, failures>>
          /\ monitor' = [monitor EXCEPT !.last = TRUE]
        BY <1>1 DEF StopMonitor, MonitorAt
    <2>2. DutTypeOK'
        BY <2>1 DEF DutTypeOK
    <2>3. /\ monitor'.pc = "stat" /\ monitor'.latest = monitor.latest
          /\ monitor'.signature = monitor.signature /\ monitor'.quiet = monitor.quiet
          /\ monitor'.last_signature = monitor.last_signature
        BY <2>1 DEF DutTypeOK
    <2>4. MetricsInv' /\ CountInv' /\ FinalInv'
        BY <2>1, <2>3 DEF MetricsInv, Seen, CountInv, FinalInv
    <2> QED
        BY <2>2, <2>4
<1>2. CASE StatMetrics
    <2>1. PICK closing \in {FALSE, monitor.last} :
            monitor' = [monitor EXCEPT !.pc = "read", !.signature = detector.file,
                            !.closing = closing, !.quiet = closing /\ detector.done]
        BY <1>2 DEF StatMetrics
    <2>2. UNCHANGED <<detector, reporter, receiver, failures>> /\ monitor.pc = "stat"
        BY <1>2 DEF StatMetrics, MonitorAt
    <2>3. DutTypeOK'
        BY <2>1, <2>2 DEF DutTypeOK
    <2>4. /\ monitor'.pc = "read" /\ monitor'.signature = detector.file
          /\ monitor'.last_signature = monitor.last_signature
          /\ monitor'.latest = monitor.latest /\ monitor'.out = monitor.out
          /\ monitor'.quiet => detector.done
        BY <2>1 DEF DutTypeOK
    <2>5. MetricsInv'
        BY <2>2, <2>4 DEF MetricsInv, Seen, DutTypeOK, Files
    <2>6. CountInv' /\ FinalInv'
        BY <2>2, <2>4 DEF CountInv, FinalInv
    <2> QED
        BY <2>3, <2>5, <2>6
<1>3. CASE ReadMetrics
    <2> DEFINE file == detector.file
               changed == monitor.signature # monitor.last_signature
               taken == changed /\ file.whole /\ file.metrics > 0
    <2>1. /\ monitor.pc = "read" /\ UNCHANGED <<detector, reporter, receiver, failures>>
          /\ monitor' = [monitor EXCEPT
                !.last_signature = IF changed THEN monitor.signature ELSE @,
                !.latest = IF taken THEN file.metrics ELSE @,
                !.out = IF taken /\ ~monitor.last THEN Result(file.metrics, "RUNNING") ELSE @,
                !.pc = IF taken /\ ~monitor.last THEN "put" ELSE AfterPoll(monitor)]
        BY <1>3 DEF ReadMetrics, MonitorAt
    <2>2. file.metrics \in 0 .. MaxMetrics /\ file.whole \in BOOLEAN
        BY DEF DutTypeOK, Files
    <2>3. Result(file.metrics, "RUNNING") \in Results
          /\ Result(file.metrics, "RUNNING").status = "RUNNING"
        BY <2>2, ResultTyped
    <2>4. AfterPoll(monitor) \in {"final", "stat"}
        BY DEF AfterPoll
    <2>5. DutTypeOK'
        BY <2>1, <2>2, <2>3, <2>4 DEF DutTypeOK
    <2>6. /\ monitor'.last_signature = monitor.signature
          /\ monitor'.signature = monitor.signature
          /\ monitor'.latest = IF taken THEN file.metrics ELSE monitor.latest
          /\ monitor'.quiet = monitor.quiet
          /\ monitor'.pc \in {"put", "final", "stat"}
          /\ monitor'.pc = "put" => monitor'.out.status = "RUNNING"
        BY <2>1, <2>3, <2>4 DEF DutTypeOK
    <2>7. MetricsInv'
        <3>1. monitor.signature = file /\ file.whole => monitor'.latest = file.metrics
            BY <2>2, <2>6 DEF MetricsInv, DutTypeOK
        <3> QED
            BY <2>1, <2>2, <2>6, <3>1 DEF MetricsInv, Seen, DutTypeOK
    <2>8. CountInv' /\ FinalInv'
        BY <2>1, <2>6 DEF CountInv, FinalInv
    <2> QED
        BY <2>5, <2>7, <2>8
<1>4. CASE BuildFinalResult
    <2>1. /\ monitor.pc = "final" /\ UNCHANGED <<detector, reporter, receiver, failures>>
          /\ monitor' = [monitor EXCEPT !.out = Final, !.pc = "put"]
        BY <1>4 DEF BuildFinalResult, MonitorAt, Final
    <2>2. Final \in Results
        BY ResultTyped DEF Final, DutTypeOK
    <2>3. DutTypeOK'
        BY <2>1, <2>2 DEF DutTypeOK
    <2>4. /\ monitor'.pc = "put" /\ monitor'.out = Final /\ monitor'.latest = monitor.latest
          /\ monitor'.signature = monitor.signature /\ monitor'.quiet = monitor.quiet
          /\ monitor'.last_signature = monitor.last_signature
        BY <2>1 DEF DutTypeOK
    <2>5. MetricsInv' /\ CountInv' /\ FinalInv'
        BY <2>1, <2>4 DEF MetricsInv, Seen, CountInv, FinalInv, Final
    <2> QED
        BY <2>3, <2>5
<1> QED
    BY <1>1, <1>2, <1>3, <1>4

(* The queue and its counter; the end of the program.                      *)
LEMMA SubmitKeepsInv ==
    ASSUME DutInv, PutResult \/ EvictResult \/ WaitForIdle \/ ExitMonitor
    PROVE  DutInv'
<1> USE DutConstants DEF DutInv, MonitorGoto, MonitorAt
<1>0. Final # NoResult /\ Final.status = "FINAL" /\ NoResult \in Results
    BY ResultTyped, NoResultTyped DEF Final, DutTypeOK
<1>1. CASE PutResult
    <2>1. /\ monitor.pc = "put" /\ UNCHANGED <<detector, receiver, failures>>
          /\ \/ /\ reporter.queue = NoResult
                /\ reporter' = [reporter EXCEPT !.queue = monitor.out, !.unfinished = @ + 1]
                /\ monitor' = [monitor EXCEPT !.pc = AfterSubmit(monitor)]
             \/ monitor' = [monitor EXCEPT !.pc = "evict"] /\ reporter' = reporter
        BY <1>1 DEF PutResult
    <2>2. AfterSubmit(monitor) = IF monitor.out = Final THEN "wait" ELSE "stat"
        BY <1>0, <2>1 DEF AfterSubmit, FinalInv
    <2>3. DutTypeOK'
        <3>1. reporter.unfinished + 1 \in Nat /\ monitor.out \in Results
              /\ AfterSubmit(monitor) \in {"wait", "stat"}
            BY <2>2 DEF DutTypeOK
        <3>2. reporter' \in [queue: Results, unfinished: Nat, posting: BOOLEAN,
                             stopped: BOOLEAN, pc: Busy \union {"loop", "get", "over"},
                             payload: Results, attempt: 0 .. MaxAttempts]
            BY <2>1, <3>1 DEF DutTypeOK, Busy
        <3>3. monitor' \in [pc: {"stat", "evict", "wait"}, signature: Files,
                            last_signature: Files, latest: 0 .. MaxMetrics, out: Results,
                            last: BOOLEAN, closing: BOOLEAN, quiet: BOOLEAN]
            BY <2>1, <3>1 DEF DutTypeOK
        <3> QED
            BY <2>1, <3>2, <3>3 DEF DutTypeOK, Busy
    <2>4. MetricsInv'
        BY <2>1, <2>2 DEF MetricsInv, Seen, DutTypeOK
    <2>5. monitor.out # NoResult
        BY <1>0, <2>1 DEF FinalInv, NoResult
    <2>6. CountInv'
        <3>1. /\ monitor'.pc # "exited" /\ reporter'.pc = reporter.pc
              /\ \/ /\ reporter.queue = NoResult /\ reporter'.queue = monitor.out
                    /\ reporter'.unfinished = reporter.unfinished + 1
                 \/ reporter' = reporter
            BY <2>1, <2>2 DEF DutTypeOK
        <3> QED
            BY <2>1, <2>5, <3>1 DEF CountInv, DutTypeOK
    <2>7. FinalInv'
        BY <2>1, <2>2 DEF FinalInv, Final, AtReceiver, DutTypeOK
    <2> QED
        BY <2>3, <2>4, <2>6, <2>7
<1>2. CASE EvictResult
    <2>1. /\ monitor.pc = "evict" /\ UNCHANGED <<detector, receiver, failures>>
          /\ monitor' = [monitor EXCEPT !.pc = "put"]
          /\ \/ /\ reporter.queue # NoResult
                /\ reporter' = [reporter EXCEPT !.queue = NoResult, !.unfinished = @ - 1]
             \/ reporter' = reporter
        BY <1>2 DEF EvictResult, OldDropped
    <2>2. reporter.queue # NoResult => reporter.unfinished - 1 \in Nat
        BY <2>1 DEF CountInv
    <2>3. DutTypeOK'
        BY <1>0, <2>1, <2>2 DEF DutTypeOK
    <2>4. MetricsInv'
        BY <2>1 DEF MetricsInv, Seen, DutTypeOK
    <2>5. CountInv'
        <3>1. /\ monitor'.pc # "exited" /\ reporter'.pc = reporter.pc
              /\ \/ /\ reporter.queue # NoResult /\ reporter'.queue = NoResult
                    /\ reporter'.unfinished = reporter.unfinished - 1
                 \/ reporter' = reporter
            BY <2>1 DEF DutTypeOK
        <3> QED
            BY <2>1, <3>1 DEF CountInv, DutTypeOK
    <2>6. FinalInv'
        BY <2>1 DEF FinalInv, Final, DutTypeOK
    <2> QED
        BY <2>3, <2>4, <2>5, <2>6
<1>3. CASE WaitForIdle
    <2>1. /\ monitor.pc = "wait" /\ UNCHANGED <<detector, receiver, failures>>
          /\ monitor' = [monitor EXCEPT !.pc = "join"]
          /\ reporter' = [reporter EXCEPT !.stopped = TRUE]
          /\ failures = 0 => reporter.unfinished = 0
        BY <1>3 DEF WaitForIdle, NothingUnfinished, DutTypeOK
    <2>2. DutTypeOK'
        BY <2>1 DEF DutTypeOK
    <2>3. MetricsInv' /\ CountInv'
        BY <2>1 DEF MetricsInv, Seen, CountInv, DutTypeOK
    <2>4. failures = 0 => reporter.queue = NoResult /\ reporter.pc \notin Busy
        BY <2>1 DEF CountInv
    <2>5. failures = 0 => AtReceiver
        BY <1>0, <2>1, <2>4 DEF FinalInv, Busy
    <2>6. FinalInv'
        BY <2>1, <2>5 DEF FinalInv, AtReceiver, Final, DutTypeOK
    <2> QED
        BY <2>2, <2>3, <2>6
<1>4. CASE ExitMonitor
    <2>1. /\ monitor.pc = "join" /\ UNCHANGED <<detector, failures>>
          /\ monitor' = [monitor EXCEPT !.pc = "exited"]
          /\ reporter' = [reporter EXCEPT !.pc = "over"]
          /\ reporter.pc = "over" \/ failures > 0
          /\ receiver' \in {receiver, [receiver EXCEPT !.late = @ \union {reporter.payload}]}
          /\ reporter.pc = "over" => receiver' = receiver
        BY <1>4 DEF ExitMonitor
    <2>2. DutTypeOK'
        BY <2>1 DEF DutTypeOK
    <2>3. MetricsInv' /\ CountInv'
        BY <2>1 DEF MetricsInv, Seen, CountInv, DutTypeOK
    <2>4. FinalInv'
        BY <2>1 DEF FinalInv, AtReceiver, Final, DutTypeOK
    <2> QED
        BY <2>2, <2>3, <2>4
<1> QED
    BY <1>1, <1>2, <1>3, <1>4

(* The thread of the reporter.                                             *)
LEMMA ReporterKeepsInv ==
    ASSUME DutInv, ReporterStep
    PROVE  DutInv'
<1> USE DutConstants DEF DutInv, ReporterAt, ReporterGoto, ReporterIdle
<1>0. Final # NoResult /\ NoResult \in Results
    BY ResultTyped, NoResultTyped DEF Final, DutTypeOK
<1>1. reporter.pc # "over" /\ monitor.pc # "exited" /\ UNCHANGED <<detector, monitor>>
    BY DEF ReporterStep, CheckStop, GetResult, SetPosting, PostResult, ReceiveResult,
           PostSucceeds, PostFails, ClearPosting, TaskDone, CountInv
<1>2. MetricsInv'
    BY <1>1 DEF MetricsInv, Seen
<1>3. CASE CheckStop
    BY <1>1, <1>2, <1>3 DEF CheckStop, DutTypeOK, CountInv, Busy, FinalInv, Final, AtReceiver
<1>4. CASE GetResult
    <2>1. /\ reporter.pc = "get" /\ UNCHANGED <<receiver, failures>>
          /\ reporter'.unfinished = reporter.unfinished
          /\ \/ reporter.queue = NoResult /\ reporter'.queue = NoResult
                /\ reporter'.pc = "loop"
             \/ /\ reporter.queue # NoResult /\ reporter'.queue = NoResult
                /\ reporter'.payload = reporter.queue /\ reporter'.pc = "flag"
        BY <1>4 DEF GetResult, DutTypeOK
    <2>2. DutTypeOK'
        BY <1>0, <1>1, <1>4 DEF GetResult, DutTypeOK
    <2>3. CountInv' /\ FinalInv'
        BY <1>0, <1>1, <2>1 DEF CountInv, Busy, FinalInv, Final, AtReceiver, DutTypeOK
    <2> QED
        BY <1>2, <2>2, <2>3
<1>5. CASE SetPosting
    <2>1. /\ reporter.pc = "flag" /\ reporter'.pc = "post"
          /\ UNCHANGED <<receiver, failures>>
          /\ reporter'.unfinished = reporter.unfinished
          /\ reporter'.queue = reporter.queue /\ reporter'.payload = reporter.payload
        BY <1>5 DEF SetPosting, DutTypeOK
    <2>2. DutTypeOK'
        <3>1. 1 \in 0 .. MaxAttempts
            OBVIOUS
        <3> QED
            BY <1>1, <1>5, <3>1 DEF SetPosting, DutTypeOK
    <2>3. CountInv' /\ FinalInv'
        BY <1>0, <1>1, <2>1 DEF CountInv, Busy, FinalInv, Final, AtReceiver, DutTypeOK
    <2> QED
        BY <1>2, <2>2, <2>3
<1>6. CASE PostResult
    BY <1>1, <1>2, <1>6 DEF PostResult, DutTypeOK, CountInv, Busy, FinalInv, Final, AtReceiver
<1>7. CASE ReceiveResult
    BY <1>1, <1>2, <1>7 DEF ReceiveResult, DutTypeOK, CountInv, Busy, FinalInv, Final,
                            AtReceiver
<1>8. CASE PostSucceeds
    BY <1>1, <1>2, <1>8 DEF PostSucceeds, DutTypeOK, CountInv, Busy, FinalInv, Final,
                            AtReceiver
<1>9. CASE PostFails
    <2>1. failures' = failures + 1 /\ failures' \in 0 .. MaxFailures /\ failures' # 0
        BY <1>9 DEF PostFails, DutTypeOK
    <2>2. DutTypeOK'
        <3>1. reporter.attempt < MaxAttempts => reporter.attempt + 1 \in 0 .. MaxAttempts
            BY DEF DutTypeOK
        <3>2. \/ reporter.attempt < MaxAttempts
                 /\ reporter' = [reporter EXCEPT !.attempt = @ + 1, !.pc = "post"]
              \/ reporter' = [reporter EXCEPT !.pc = "clear"]
            BY <1>9 DEF PostFails
        <3>3. receiver' \in [stored: Results, late: SUBSET Results]
            BY <1>9 DEF PostFails, DutTypeOK
        <3>4. reporter' \in [queue: Results, unfinished: Nat, posting: BOOLEAN,
                             stopped: BOOLEAN, pc: Busy, payload: Results,
                             attempt: 0 .. MaxAttempts]
            BY <3>1, <3>2 DEF DutTypeOK, Busy
        <3> QED
            BY <1>1, <2>1, <3>3, <3>4 DEF DutTypeOK, Busy
    <2>3. CountInv' /\ FinalInv'
        BY <1>1, <1>9, <2>1 DEF PostFails, DutTypeOK, CountInv, Busy, FinalInv, Final
    <2> QED
        BY <1>2, <2>2, <2>3
<1>10. CASE ClearPosting
    <2>1. /\ reporter.pc = "clear" /\ reporter'.pc = "done"
          /\ UNCHANGED <<receiver, failures>>
          /\ reporter'.unfinished = reporter.unfinished
          /\ reporter'.queue = reporter.queue
        BY <1>10 DEF ClearPosting, DutTypeOK
    <2>2. DutTypeOK'
        <3>1. 0 \in 0 .. MaxAttempts
            OBVIOUS
        <3> QED
            BY <1>1, <1>10, <3>1 DEF ClearPosting, DutTypeOK
    <2>3. CountInv' /\ FinalInv'
        BY <1>0, <1>1, <2>1 DEF CountInv, Busy, FinalInv, Final, AtReceiver, DutTypeOK
    <2> QED
        BY <1>2, <2>2, <2>3
<1>11. CASE TaskDone
    <2>1. /\ reporter.pc = "done" /\ reporter'.pc = "loop"
          /\ UNCHANGED <<receiver, failures>> /\ reporter.unfinished - 1 \in Nat
          /\ reporter'.unfinished = reporter.unfinished - 1
          /\ reporter'.queue = reporter.queue
        BY <1>1, <1>11 DEF TaskDone, DutTypeOK, CountInv, Busy
    <2>2. DutTypeOK'
        BY <1>0, <1>1, <1>11, <2>1 DEF TaskDone, DutTypeOK
    <2>3. CountInv' /\ FinalInv'
        BY <1>0, <1>1, <2>1 DEF CountInv, Busy, FinalInv, Final, AtReceiver, DutTypeOK
    <2> QED
        BY <1>2, <2>2, <2>3
<1> QED
    BY <1>3, <1>4, <1>5, <1>6, <1>7, <1>8, <1>9, <1>10, <1>11 DEF ReporterStep

(* A request that nobody waits for is there only when a post has failed.   *)
LEMMA LateKeepsInv ==
    ASSUME DutInv, NEW result \in receiver.late, LateRequest(result)
    PROVE  DutInv'
<1> USE DEF DutInv
<1>1. failures # 0 /\ UNCHANGED <<detector, monitor, reporter, failures>>
    BY DEF LateRequest, FinalInv
<1>2. DutTypeOK'
    BY <1>1 DEF LateRequest, DutTypeOK
<1>3. MetricsInv' /\ CountInv' /\ FinalInv'
    BY <1>1 DEF MetricsInv, Seen, CountInv, FinalInv, Final
<1> QED
    BY <1>2, <1>3

LEMMA DutInvNext ==
    ASSUME DutInv, [DutNext]_dutVars
    PROVE  DutInv'
<1>1. ASSUME UNCHANGED dutVars PROVE DutInv'
    BY <1>1 DEF dutVars, DutInv, DutTypeOK, MetricsInv, Seen, CountInv, FinalInv, Final,
                AtReceiver
<1> QED
    BY <1>1, DetectorKeepsInv, PollKeepsInv, SubmitKeepsInv, ReporterKeepsInv, LateKeepsInv
    DEF DutNext, MonitorStep

LEMMA DutInvariant == DutSpec => []DutInv
BY DutInvInit, DutInvNext, PTL DEF DutSpec

(* Type correctness; the counter of the queue is never below zero.         *)
THEOREM DutTypeCorrect == DutSpec => []DutTypeOK
BY DutInvariant, PTL DEF DutInv

(* However often the detector writes and however often a post may be tried *)
(* again: if none fails, the final result is with the gateway when the     *)
(* metrics program ends, and its metrics are the detector's last ones.     *)
THEOREM FinalResultsStand == DutSpec => []FinalResultStands
<1>1. DutInv => FinalResultStands
    BY ResultTyped DEF DutInv, DutTypeOK, MetricsInv, FinalInv, AtReceiver, Final,
                       FinalResultStands
<1> QED
    BY <1>1, DutInvariant, PTL

-------------------------------------------------------------------------------
(***************************************************************************)
(* The replay of a recording.  As long as there is something left of it,   *)
(* the position in the recording keeps up with the clock of the scene:     *)
(* from the start of the warm-up while the world is warmed up, from where  *)
(* the loop was opened afterwards.  It is ahead of the clock by no more    *)
(* than the ticks of the wait, which are counted up to Far.                *)
(***************************************************************************)

SceneTypeOK ==
    /\ scenario \in Scenarios
    /\ scene = [elapsed |-> scene.elapsed, position |-> scene.position,
                traveled |-> scene.traveled, gap |-> scene.gap]
    /\ scene.elapsed \in NotStarted .. Far /\ scene.position \in 0 .. WindowEnd(scenario)
    /\ opened \in 0 .. WindowEnd(scenario) /\ waited \in 0 .. Far
    /\ play = [pc |-> play.pc, event |-> play.event]

InReplay == scenario.mode = "carla_recorder_replay"
InLoop == play.pc \in {"poll", "tick", "event", "end?", "completed"}

(* The recording has come to place n, or to its end.                       *)
HasCome(position, n) == position >= n \/ position = WindowEnd(scenario)
AheadBy(position, n) == waited = Far \/ position <= n + waited

PositionInv ==
    /\ play.pc # "spawn"
    /\ play.pc = "ego" =>
            /\ scene.elapsed = NotStarted /\ HasCome(scene.position, WarmupStart(scenario))
            /\ AheadBy(scene.position, WarmupStart(scenario))
    /\ play.pc = "warm" =>
            /\ scene.elapsed <= EffectiveWarmup(scenario)
            /\ HasCome(scene.position, WarmupStart(scenario) + scene.elapsed + 1)
            /\ AheadBy(scene.position, WarmupStart(scenario) + scene.elapsed + 1)
    /\ InLoop =>
            /\ opened >= scenario.start /\ AheadBy(opened, scenario.start + 1)
            /\ HasCome(scene.position, opened + scene.elapsed + 1)
    /\ play.pc = "completed" => scene.elapsed >= scenario.timeout

ReplayInv == SceneTypeOK /\ (InReplay => PositionInv)

-------------------------------------------------------------------------------
LEMMA ScenarioTyped ==
    ASSUME NEW s \in Scenarios
    PROVE  /\ s.start \in Nat /\ s.start <= Far /\ s.timeout \in Nat /\ s.timeout < Far
           /\ Far \in Nat
           /\ EffectiveWarmup(s) \in Nat /\ EffectiveWarmup(s) <= s.start
           /\ WarmupStart(s) \in Nat /\ WarmupStart(s) + EffectiveWarmup(s) = s.start
           /\ WindowEnd(s) = s.start + s.timeout
<1>1. /\ s.start \in 0 .. Far /\ s.timeout \in 0 .. Far - 1 /\ Far \in Nat
      /\ s.warmup \in Nat
    BY ScenarioConstants DEF ScenarioShape
<1>2. EffectiveWarmup(s) \in 0 .. s.start
    BY <1>1 DEF EffectiveWarmup
<1> QED
    BY <1>1, <1>2 DEF WarmupStart, WindowEnd

LEMMA ReplayInvInit == PlayInit => ReplayInv
<1> SUFFICES ASSUME PlayInit PROVE ReplayInv
    OBVIOUS
<1>1. scenario \in Scenarios
    BY DEF PlayInit
<1>2. SceneTypeOK
    BY <1>1, ScenarioTyped DEF PlayInit, SceneTypeOK, NotStarted
<1>3. InReplay => PositionInv
    BY <1>1, ScenarioTyped DEF PlayInit, InReplay, PositionInv, HasCome, AheadBy, InLoop
<1> QED
    BY <1>2, <1>3 DEF ReplayInv

(* Steps that leave the scene as it is.                                    *)
LEMMA QuietKeepsInv ==
    ASSUME ReplayInv,
           \/ SpawnPlanEntities \/ PollStop \/ FireEvent \/ EventsConsidered
           \/ CheckEnd \/ PlayRaises
    PROVE  ReplayInv'
<1> USE DEF ReplayInv, PlayGoto, InLoop
<1>1. UNCHANGED <<scenario, scene, opened, waited>>
    BY DEF SpawnPlanEntities, PollStop, FireEvent, EventsConsidered, CheckEnd, PlayRaises
<1>2. play' = [pc |-> play'.pc, event |-> play'.event]
    BY DEF SpawnPlanEntities, PollStop, FireEvent, EventsConsidered, CheckEnd, PlayRaises,
           SceneTypeOK
<1>3. SceneTypeOK'
    BY <1>1, <1>2 DEF SceneTypeOK
<1>4. ASSUME InReplay PROVE PositionInv'
    <2>1. CASE SpawnPlanEntities
        BY <1>4, <2>1 DEF SpawnPlanEntities, PositionInv
    <2>2. CASE PollStop \/ EventsConsidered
        <3>1. play.pc \in {"poll", "event"} /\ play'.pc \in {"tick", "stopped", "end?"}
            BY <2>2 DEF PollStop, EventsConsidered
        <3> QED
            BY <1>1, <1>4, <3>1 DEF PositionInv, HasCome, AheadBy
    <2>3. CASE FireEvent
        <3>1. play.pc = "event" /\ play'.pc = "event"
            BY <2>3 DEF FireEvent, SceneTypeOK
        <3> QED
            BY <1>1, <1>4, <3>1 DEF PositionInv, HasCome, AheadBy
    <2>4. CASE CheckEnd
        <3>1. play.pc = "end?" /\ play'.pc \in {"completed", "poll"}
              /\ (play'.pc = "completed" => scene.elapsed >= scenario.timeout)
            BY <1>4, <2>4 DEF CheckEnd, Ended, InReplay
        <3> QED
            BY <1>1, <1>4, <3>1 DEF PositionInv, HasCome, AheadBy
    <2>5. CASE PlayRaises
        BY <2>5 DEF PlayRaises, PositionInv
    <2> QED
        BY <2>1, <2>2, <2>3, <2>4, <2>5
<1> QED
    BY <1>1, <1>3, <1>4 DEF InReplay

LEMMA TimesStay ==
    ASSUME scenario' = scenario
    PROVE  /\ WarmupStart(scenario)' = WarmupStart(scenario)
           /\ WindowEnd(scenario)' = WindowEnd(scenario)
           /\ EffectiveWarmup(scenario)' = EffectiveWarmup(scenario)
BY DEF WarmupStart, WindowEnd, EffectiveWarmup

(* A tick takes the recording on by one, unless it is at its end.          *)
LEMMA TickGoesOn ==
    ASSUME SceneTypeOK, NEW n \in Int, HasCome(scene.position, n),
           scene'.position = Played(scene.position)
    PROVE  /\ HasCome(scene'.position, n + 1) /\ scene'.position \in 0 .. WindowEnd(scenario)
           /\ scene'.position \in {scene.position, scene.position + 1}
<1>1. WindowEnd(scenario) \in Nat /\ scene.position \in 0 .. WindowEnd(scenario)
    BY ScenarioTyped DEF SceneTypeOK
<1> QED
    BY <1>1 DEF HasCome, Played

LEMMA TickKeepsReplay ==
    ASSUME ReplayInv, TickScene
    PROVE  ReplayInv'
<1> USE DEF ReplayInv, PlayGoto
<1>0. scenario \in Scenarios /\ UNCHANGED <<scenario, opened, waited>>
    BY DEF SceneTypeOK, TickScene
<1>1. /\ play.pc = "tick" /\ play' = [pc |-> "event", event |-> 1]
      /\ scene'.elapsed = Capped(scene.elapsed + 1)
      /\ scene'.position = Played(scene.position)
      /\ scene' = [elapsed |-> scene'.elapsed, position |-> scene'.position,
                   traveled |-> scene'.traveled, gap |-> scene'.gap]
    <2>1. PICK moved \in SUBSET actors, near \in SUBSET actors :
            scene' = [elapsed |-> Capped(scene.elapsed + 1),
                      position |-> Played(scene.position),
                      traveled |-> [a \in plan.entities |->
                          Capped(scene.traveled[a] + IF a \in moved THEN 1 ELSE 0)],
                      gap |-> [pair \in DOMAIN scene.gap |->
                          IF pair \subseteq near THEN 1 ELSE Far]]
        BY DEF TickScene, NextScenes
    <2> QED
        BY <2>1 DEF TickScene
<1>2. Far \in Nat /\ scene.elapsed \in NotStarted .. Far /\ opened \in Nat
      /\ scene.position \in 0 .. WindowEnd(scenario) /\ WindowEnd(scenario) \in Nat
    BY <1>0, ScenarioTyped DEF SceneTypeOK
<1>3. scene'.elapsed \in NotStarted .. Far /\ scene'.elapsed <= scene.elapsed + 1
    BY <1>1, <1>2 DEF Capped, NotStarted
<1>4. SceneTypeOK'
    <2>1. scene'.position \in 0 .. WindowEnd(scenario)
        BY <1>1, <1>2 DEF Played
    <2> QED
        BY <1>0, <1>1, <1>3, <2>1 DEF SceneTypeOK
<1>5. ASSUME InReplay PROVE PositionInv'
    <2>1. /\ opened >= scenario.start /\ AheadBy(opened, scenario.start + 1)
          /\ HasCome(scene.position, opened + scene.elapsed + 1)
        BY <1>1, <1>5 DEF PositionInv, InLoop
    <2>2. HasCome(scene'.position, opened + scene.elapsed + 2)
        BY <1>0, <1>1, <1>2, <2>1, TickGoesOn DEF NotStarted
    <2>3. HasCome(scene'.position, opened + scene'.elapsed + 1)
        BY <1>0, <1>2, <1>3, <1>4, <2>2 DEF HasCome, NotStarted, SceneTypeOK
    <2> QED
        BY <1>0, <1>1, <2>1, <2>3, TimesStay DEF PositionInv, HasCome, AheadBy, InLoop
<1> QED
    BY <1>0, <1>4, <1>5 DEF InReplay

LEMMA WaitKeepsReplay ==
    ASSUME ReplayInv, WaitForEgo
    PROVE  ReplayInv'
<1> USE DEF ReplayInv, PlayGoto
<1>0. /\ scenario \in Scenarios /\ scenario' = scenario /\ play.pc = "ego"
      /\ opened' = scene.position
    BY DEF SceneTypeOK, WaitForEgo
<1>1. /\ Far \in Nat /\ waited \in 0 .. Far /\ scene.position \in 0 .. WindowEnd(scenario)
      /\ WindowEnd(scenario) \in Nat /\ WarmupStart(scenario) \in Nat
      /\ EffectiveWarmup(scenario) \in Nat /\ scenario.timeout \in Nat
      /\ WarmupStart(scenario) + EffectiveWarmup(scenario) = scenario.start
      /\ WindowEnd(scenario) = scenario.start + scenario.timeout
    BY <1>0, ScenarioTyped DEF SceneTypeOK
<1>2. CASE scene' = [scene EXCEPT !.position = Played(scene.position)]
           /\ waited' = Capped(waited + 1) /\ play' = play
    <2>1. /\ scene'.elapsed = scene.elapsed /\ scene'.position = Played(scene.position)
          /\ scene' = [elapsed |-> scene'.elapsed, position |-> scene'.position,
                       traveled |-> scene'.traveled, gap |-> scene'.gap]
        BY <1>2 DEF SceneTypeOK
    <2>2. /\ scene'.position \in 0 .. WindowEnd(scenario)
          /\ scene'.position <= scene.position + 1
          /\ scene'.position >= scene.position
        BY <1>1, <2>1 DEF Played
    <2>3. waited' \in 0 .. Far /\ (waited' = Far \/ waited' = waited + 1)
        BY <1>1, <1>2 DEF Capped
    <2>4. SceneTypeOK'
        BY <1>0, <1>2, <2>1, <2>2, <2>3, <1>1 DEF SceneTypeOK
    <2>5. InReplay => PositionInv'
        BY <1>0, <1>1, <1>2, <2>1, <2>2, <2>3 DEF PositionInv, HasCome, AheadBy, InLoop
    <2> QED
        BY <1>0, <2>4, <2>5 DEF InReplay
<1>3. CASE /\ UNCHANGED <<scene, waited>>
           /\ \/ play' = [pc |-> IF EffectiveWarmup(scenario) > 0 THEN "warm" ELSE "poll",
                          event |-> 1]
              \/ play' = [pc |-> "failed", event |-> 1]
    <2>1. SceneTypeOK'
        BY <1>0, <1>1, <1>3 DEF SceneTypeOK
    <2>2. ASSUME InReplay PROVE PositionInv'
        <3>1. /\ scene.elapsed = -1 /\ HasCome(scene.position, WarmupStart(scenario))
              /\ AheadBy(scene.position, WarmupStart(scenario))
            BY <1>0, <2>2 DEF PositionInv, NotStarted
        <3>2. CASE play'.pc = "warm"
            BY <1>0, <1>1, <1>3, <3>1, <3>2 DEF PositionInv, HasCome, AheadBy, InLoop
        <3>3. CASE play'.pc = "poll"
            <4>1. scenario.start = WarmupStart(scenario)
                BY <1>1, <1>3, <3>3
            <4> QED
                BY <1>0, <1>1, <1>3, <3>1, <3>3, <4>1
                DEF PositionInv, HasCome, AheadBy, InLoop
        <3>4. CASE play'.pc = "failed"
            BY <3>4 DEF PositionInv, InLoop
        <3> QED
            BY <1>3, <3>2, <3>3, <3>4
    <2> QED
        BY <1>0, <2>1, <2>2 DEF InReplay
<1> QED
    BY <1>2, <1>3 DEF WaitForEgo

LEMMA WarmUpKeepsReplay ==
    ASSUME ReplayInv, WarmUp
    PROVE  ReplayInv'
<1> USE DEF ReplayInv, PlayGoto
<1>0. scenario \in Scenarios /\ UNCHANGED <<scenario, waited>> /\ play.pc = "warm"
    BY DEF SceneTypeOK, WarmUp
<1>1. /\ Far \in Nat /\ waited \in 0 .. Far /\ scene.position \in 0 .. WindowEnd(scenario)
      /\ WindowEnd(scenario) \in Nat /\ WarmupStart(scenario) \in Nat
      /\ EffectiveWarmup(scenario) \in Nat /\ EffectiveWarmup(scenario) <= Far
      /\ WarmupStart(scenario) + EffectiveWarmup(scenario) = scenario.start
      /\ WindowEnd(scenario) = scenario.start + scenario.timeout /\ scenario.timeout \in Nat
      /\ scene.elapsed \in -1 .. Far
    BY <1>0, ScenarioTyped DEF SceneTypeOK, NotStarted
<1>2. CASE /\ scene.elapsed >= EffectiveWarmup(scenario)
           /\ play' = [pc |-> "poll", event |-> 1] /\ opened' = scene.position
           /\ scene' = [scene EXCEPT !.elapsed = -1]
    <2>1. /\ scene'.elapsed = -1 /\ scene'.position = scene.position
          /\ scene' = [elapsed |-> scene'.elapsed, position |-> scene'.position,
                       traveled |-> scene'.traveled, gap |-> scene'.gap]
        BY <1>2 DEF SceneTypeOK
    <2>2. SceneTypeOK'
        BY <1>0, <1>1, <1>2, <2>1 DEF SceneTypeOK, NotStarted
    <2>3. ASSUME InReplay PROVE PositionInv'
        <3>1. /\ scene.elapsed <= EffectiveWarmup(scenario)
              /\ HasCome(scene.position, WarmupStart(scenario) + scene.elapsed + 1)
              /\ AheadBy(scene.position, WarmupStart(scenario) + scene.elapsed + 1)
            BY <1>0, <2>3 DEF PositionInv
        <3>2. WarmupStart(scenario) + scene.elapsed = scenario.start
            BY <1>1, <1>2, <3>1
        <3>3. scene.position >= scenario.start /\ AheadBy(scene.position, scenario.start + 1)
            BY <1>1, <3>1, <3>2 DEF HasCome
        <3> QED
            BY <1>0, <1>1, <1>2, <2>1, <3>3, TimesStay
            DEF PositionInv, HasCome, AheadBy, InLoop
    <2> QED
        BY <1>0, <2>2, <2>3 DEF InReplay
<1>3. CASE /\ ~(scene.elapsed >= EffectiveWarmup(scenario)) /\ UNCHANGED <<play, opened>>
           /\ scene' = [scene EXCEPT !.elapsed = Capped(scene.elapsed + 1),
                                     !.position = Played(scene.position)]
    <2>1. /\ scene'.elapsed = scene.elapsed + 1 /\ scene'.position = Played(scene.position)
          /\ scene' = [elapsed |-> scene'.elapsed, position |-> scene'.position,
                       traveled |-> scene'.traveled, gap |-> scene'.gap]
        <3>1. Capped(scene.elapsed + 1) = scene.elapsed + 1
            BY <1>1, <1>3 DEF Capped
        <3> HIDE DEF PlayGoto
        <3> QED
            BY <1>3, <3>1 DEF SceneTypeOK
    <2>2. SceneTypeOK'
        <3>1. scene'.position \in 0 .. WindowEnd(scenario)
            BY <1>1, <2>1 DEF Played
        <3>2. scene'.elapsed \in NotStarted .. Far
            BY <1>1, <1>3, <2>1 DEF NotStarted
        <3> QED
            BY <1>0, <1>1, <1>3, <2>1, <3>1, <3>2 DEF SceneTypeOK
    <2>3. ASSUME InReplay PROVE PositionInv'
        <3>1. /\ HasCome(scene.position, WarmupStart(scenario) + scene.elapsed + 1)
              /\ AheadBy(scene.position, WarmupStart(scenario) + scene.elapsed + 1)
            BY <1>0, <2>3 DEF PositionInv
        <3>2. /\ HasCome(scene'.position, (WarmupStart(scenario) + scene.elapsed + 1) + 1)
              /\ scene'.position \in {scene.position, scene.position + 1}
            <4>1. WarmupStart(scenario) + scene.elapsed + 1 \in Int
                BY <1>1
            <4> QED
                BY <1>0, <2>1, <3>1, <4>1, TickGoesOn
        <3>3. HasCome(scene'.position, WarmupStart(scenario) + scene'.elapsed + 1)
            BY <1>0, <1>1, <2>1, <3>2 DEF HasCome
        <3>4. AheadBy(scene'.position, WarmupStart(scenario) + scene'.elapsed + 1)
            BY <1>0, <1>1, <2>1, <3>1, <3>2 DEF AheadBy
        <3> QED
            BY <1>0, <1>1, <1>3, <2>1, <3>3, <3>4, TimesStay
            DEF PositionInv, HasCome, AheadBy, InLoop
    <2> QED
        BY <1>0, <2>2, <2>3 DEF InReplay
<1> QED
    BY <1>2, <1>3 DEF WarmUp, ClockReset, NotStarted

LEMMA ReplayInvNext ==
    ASSUME ReplayInv, [PlayNext]_playVars
    PROVE  ReplayInv'
<1>1. ASSUME UNCHANGED playVars PROVE ReplayInv'
    BY <1>1 DEF playVars, ReplayInv, SceneTypeOK, InReplay, PositionInv, HasCome, AheadBy,
                InLoop
<1> QED
    BY <1>1, QuietKeepsInv, TickKeepsReplay, WaitKeepsReplay, WarmUpKeepsReplay
    DEF PlayNext, PlayStep

(* A replay that was not stopped has shown the window that was asked for   *)
(* to its end, whatever the recording, its start, its warm-up and its      *)
(* duration: the clock of the loop starts anew where the warm-up has left  *)
(* the recording.  It misses of the beginning what was replayed while the  *)
(* ego vehicle was awaited, and one tick, no more.                         *)
THEOREM ReplaysShowTheirWindow == PlaySpec => []ReplayShowsItsWindow
<1>1. ReplayInv => ReplayShowsItsWindow
    <2> SUFFICES ASSUME ReplayInv, Completed PROVE ReplayShowsItsWindow
        BY DEF ReplayShowsItsWindow
    <2>1. /\ opened >= scenario.start /\ AheadBy(opened, scenario.start + 1)
          /\ HasCome(scene.position, opened + scene.elapsed + 1)
          /\ scene.elapsed >= scenario.timeout
        BY DEF ReplayInv, InReplay, Completed, PositionInv, InLoop
    <2>2. /\ scenario.start \in Nat /\ scenario.timeout \in Nat /\ scenario.timeout < Far
          /\ WindowEnd(scenario) = scenario.start + scenario.timeout /\ Far \in Nat
          /\ scene.elapsed \in Int /\ waited \in Nat
          /\ scene.position \in 0 .. WindowEnd(scenario)
          /\ opened \in 0 .. WindowEnd(scenario)
        BY ScenarioTyped DEF ReplayInv, SceneTypeOK, NotStarted
    <2>3. scene.position = WindowEnd(scenario)
        BY <2>1, <2>2 DEF HasCome
    <2>4. opened <= scenario.start + waited + 1
        BY <2>1, <2>2 DEF AheadBy
    <2> QED
        BY <2>1, <2>3, <2>4 DEF ReplayShowsItsWindow
<1> QED
    BY <1>1, ReplayInvInit, ReplayInvNext, PTL DEF PlaySpec

-------------------------------------------------------------------------------
(***************************************************************************)
(* The events of a scenario.  What is due and has not fired is due in this *)
(* tick, and the loop over the events has not come to it yet.              *)
(***************************************************************************)

PlayPc == {"spawn", "ego", "warm", "poll", "tick", "event", "end?", "stopped", "completed",
           "failed"}

FiredNames == {plan.events[i].name : i \in {j \in DOMAIN plan.events : fired[j] > 0}}

PlayShape ==
    /\ scenario \in Scenarios /\ plan = ResolvedPlan(scenario)
    /\ play = [pc |-> play.pc, event |-> play.event] /\ play.event \in Nat /\ play.pc \in PlayPc
    /\ actors \subseteq plan.entities
    /\ fired \in [DOMAIN plan.events -> Nat]
    /\ fired_events = FiredNames

MeantNow(i) == MeantTrigger(scenario.events[i].start, scene)
Ahead(i) == play.pc = "event" /\ play.event <= i

DueInv ==
    /\ play.pc = "spawn" => due = {} /\ \A i \in DOMAIN plan.events : fired[i] = 0
    /\ \A i \in PlayableEvents :
          /\ fired[i] > 0 => fired[i] = 1 /\ i \in due
          /\ i \in due /\ fired[i] = 0 => play.pc = "failed" \/ (Ahead(i) /\ MeantNow(i))
          /\ play.pc = "event" /\ MeantNow(i) => i \in due

EventsInv == PlayShape /\ DueInv

-------------------------------------------------------------------------------
(* The places of the events of a plan are those of the file.               *)
LEMMA PlanIsOrdered ==
    ASSUME PlayShape
    PROVE  \A i \in DOMAIN plan.events : i \in Nat
<1>1. CASE scenario.mode = "openscenario"
    <2>1. DOMAIN plan.events = {n \in DOMAIN scenario.events : HasEffect(scenario.events[n])}
        BY <1>1 DEF PlayShape, ResolvedPlan, XoscPlan
    <2> QED
        BY <2>1, ScenarioConstants DEF PlayShape, ScenarioShape
<1>2. CASE scenario.mode # "openscenario"
    <2>1. plan.events = <<>>
        BY <1>2, ScenarioConstants DEF PlayShape, ScenarioShape, ResolvedPlan, DescriptorPlan
    <2> QED
        BY <2>1
<1> QED
    BY <1>1, <1>2

LEMMA EffectsPlanned ==
    ASSUME PlayShape, scenario.mode = "openscenario"
    PROVE  \A i \in DOMAIN scenario.events : scenario.events[i].effect => i \in DOMAIN plan.events
<1>1. DOMAIN plan.events = {n \in DOMAIN scenario.events : HasEffect(scenario.events[n])}
    BY DEF PlayShape, ResolvedPlan, XoscPlan
<1> QED
    BY <1>1 DEF HasEffect

(* An event that can be played is in the plan as the file states it.       *)
LEMMA PlannedAsStated ==
    ASSUME PlayShape, NEW i \in PlayableEvents
    PROVE  /\ i \in DOMAIN plan.events /\ i \in Nat
           /\ plan.events[i].start = scenario.events[i].start
           /\ \A j \in DOMAIN plan.events : plan.events[j].name = plan.events[i].name => j = i
<1> DEFINE known == {n \in DOMAIN scenario.events : HasEffect(scenario.events[n])}
<1>1. scenario.mode = "openscenario" /\ i \in DOMAIN scenario.events /\ Playable(i)
    BY DEF PlayableEvents
<1>2. plan.events = [n \in known |-> [scenario.events[n] EXCEPT !.start = ParsedTrigger(@)]]
    BY <1>1 DEF PlayShape, ResolvedPlan, XoscPlan
<1>3. i \in known /\ i \in Nat
    BY <1>1, ScenarioConstants DEF Playable, HasEffect, PlayShape, ScenarioShape
<1>4. \A n \in known : plan.events[n].name = scenario.events[n].name
    BY <1>2
<1>5. plan.events[i].start = ParsedTrigger(scenario.events[i].start)
    BY <1>2, <1>3
<1>6. ParsedTrigger(scenario.events[i].start) = scenario.events[i].start
    <2>1. \A g \in scenario.events[i].start : g # {} /\ {c \in g : IsSupported(c)} = g
        BY <1>1 DEF Playable, IsSupported
    <2>2. {{c \in g : IsSupported(c)} : g \in scenario.events[i].start} = scenario.events[i].start
        BY <2>1
    <2> QED
        BY <2>1, <2>2 DEF ParsedTrigger
<1>7. \A j \in known : scenario.events[j].name = scenario.events[i].name => j = i
    BY <1>1 DEF Playable
<1> QED
    BY <1>2, <1>3, <1>4, <1>5, <1>6, <1>7

(* Conditions about actors that are there hold when they are meant to.     *)
LEMMA SatisfiedAsMeant ==
    ASSUME PlayShape, NEW i \in PlayableEvents, NEW names
    PROVE  TriggerSatisfied(plan.events[i].start, scene, names) <=> MeantNow(i)
<1>1. Playable(i)
    BY DEF PlayableEvents
<1>2. ASSUME NEW g \in scenario.events[i].start, NEW c \in g
      PROVE  ConditionSatisfied(c, scene, names) <=> MeantCondition(c, scene)
    <2>1. CASE c.kind = "simulation_time"
        BY <2>1 DEF ConditionSatisfied, MeantCondition
    <2>2. CASE c.kind # "simulation_time"
        <3> DEFINE yes == {a \in c.refs : Compare(Measured(c, a, scene), c.rule, c.value)}
        <3>1. c.refs # {} /\ c.refs \subseteq actors
              /\ (c.kind = "relative_distance" => c.target \in actors)
            BY <1>1, <1>2, <2>2 DEF Playable
        <3>2. Answering(c, c.refs) = c.refs
            BY <3>1 DEF Answering
        <3>3. ConditionSatisfied(c, scene, names) <=> yes # {} /\ (c.all => yes = c.refs)
            BY <2>2, <3>1, <3>2 DEF ConditionSatisfied
        <3>4. MeantCondition(c, scene) <=>
                IF c.all THEN \A a \in c.refs : Compare(Measured(c, a, scene), c.rule, c.value)
                ELSE \E a \in c.refs : Compare(Measured(c, a, scene), c.rule, c.value)
            BY <2>2 DEF MeantCondition
        <3> QED
            BY <3>1, <3>3, <3>4
    <2> QED
        BY <2>1, <2>2
<1>3. plan.events[i].start = scenario.events[i].start
    BY PlannedAsStated
<1> QED
    BY <1>2, <1>3 DEF TriggerSatisfied, MeantTrigger, MeantNow

LEMMA EventsInvInit == PlayInit => EventsInv
<1> SUFFICES ASSUME PlayInit PROVE EventsInv
    OBVIOUS
<1>1. /\ scenario \in Scenarios /\ plan = ResolvedPlan(scenario)
      /\ play = [pc |-> play.pc, event |-> play.event] /\ play.event \in Nat
      /\ play.pc \in {"spawn", "ego"} /\ actors = {} /\ fired_events = {} /\ due = {}
      /\ fired = [i \in DOMAIN plan.events |-> 0]
    BY DEF PlayInit
<1>2. \A i \in DOMAIN plan.events : fired[i] = 0
    BY <1>1
<1>3. fired_events = FiredNames
    BY <1>1, <1>2 DEF FiredNames
<1>4. PlayShape
    BY <1>1, <1>3 DEF PlayShape, PlayPc
<1>5. DueInv
    BY <1>1, <1>2, <1>4, PlannedAsStated DEF DueInv
<1> QED
    BY <1>4, <1>5 DEF EventsInv

(* Steps that let nothing become due and fire nothing.                     *)
LEMMA OtherStepsKeepEvents ==
    ASSUME EventsInv,
           \/ SpawnPlanEntities \/ PollStop \/ EventsConsidered \/ CheckEnd \/ PlayRaises
           \/ WaitForEgo \/ WarmUp \/ UNCHANGED playVars
    PROVE  EventsInv'
<1> USE DEF EventsInv, PlayGoto
<1>1. UNCHANGED <<scenario, plan, fired_events, fired, due>>
    BY DEF SpawnPlanEntities, PollStop, EventsConsidered, CheckEnd, PlayRaises, WaitForEgo,
           WarmUp, playVars
<1>2. play' = play \/ (play' = [pc |-> play'.pc, event |-> 1] /\ play'.pc \in PlayPc \ {"event"})
    BY DEF SpawnPlanEntities, PollStop, EventsConsidered, CheckEnd, PlayRaises, WaitForEgo,
           WarmUp, playVars, PlayPc
<1>3. actors' \subseteq plan.entities
    BY DEF SpawnPlanEntities, PollStop, EventsConsidered, CheckEnd, PlayRaises, WaitForEgo,
           WarmUp, playVars, PlayShape
<1>4. PlayShape'
    <2>1. FiredNames' = FiredNames
        BY <1>1 DEF FiredNames
    <2>2. play' = [pc |-> play'.pc, event |-> play'.event] /\ play'.event \in Nat
          /\ play'.pc \in PlayPc
        BY <1>2 DEF PlayShape
    <2> QED
        BY <1>1, <1>3, <2>1, <2>2 DEF PlayShape
<1>5. CASE SpawnPlanEntities
    <2>1. due' = {} /\ (\A i \in DOMAIN plan'.events : fired'[i] = 0) /\ play'.pc # "event"
        BY <1>1, <1>5 DEF SpawnPlanEntities, DueInv
    <2>2. \A i \in PlayableEvents' : i \in DOMAIN plan'.events
        BY <1>1, EffectsPlanned DEF PlayableEvents, Playable
    <2> QED
        BY <1>4, <2>1, <2>2 DEF DueInv
<1>6. CASE \/ PollStop \/ EventsConsidered \/ CheckEnd \/ PlayRaises \/ WaitForEgo \/ WarmUp
    <2>1. PlayableEvents' = PlayableEvents
        <3>1. actors' = actors /\ scenario' = scenario
            BY <1>6 DEF PollStop, EventsConsidered, CheckEnd, PlayRaises, WaitForEgo, WarmUp
        <3> QED
            BY <3>1 DEF PlayableEvents, Playable
    <2>2. /\ play.pc # "failed" /\ play'.pc \notin {"event", "spawn"}
          /\ play.pc = "event" => Remaining = {} \/ play'.pc = "failed"
        BY <1>6 DEF PollStop, EventsConsidered, CheckEnd, PlayRaises, WaitForEgo, WarmUp,
                    PlayShape
    <2>3. ASSUME NEW i \in PlayableEvents, i \in due, fired[i] = 0
          PROVE  play'.pc = "failed"
        <3>1. play.pc = "event" /\ play.event <= i /\ i \in DOMAIN plan.events
            BY <2>2, <2>3, PlannedAsStated DEF DueInv, Ahead
        <3> QED
            BY <2>2, <3>1 DEF Remaining
    <2> QED
        BY <1>1, <1>4, <2>1, <2>2, <2>3 DEF DueInv
<1>7. CASE UNCHANGED playVars
    <2>1. PlayableEvents' = PlayableEvents /\ UNCHANGED <<play, due, fired, plan>>
          /\ \A i : (MeantNow(i)' <=> MeantNow(i)) /\ (Ahead(i)' <=> Ahead(i))
        BY <1>7 DEF playVars, PlayableEvents, Playable, MeantNow, MeantTrigger, MeantCondition,
                    Measured, Ahead
    <2> QED
        BY <1>4, <2>1 DEF DueInv
<1> QED
    BY <1>5, <1>6, <1>7

(* A tick: what becomes due is ahead of the loop over the events.          *)
LEMMA TickKeepsEvents ==
    ASSUME EventsInv, TickScene
    PROVE  EventsInv'
<1> USE DEF EventsInv
<1>1. /\ UNCHANGED <<scenario, plan, actors, fired_events, fired>>
      /\ play.pc = "tick" /\ play' = [pc |-> "event", event |-> 1]
      /\ due' = due \union {i \in PlayableEvents : MeantTrigger(scenario.events[i].start, scene')}
    BY DEF TickScene, PlayGoto
<1>2. PlayShape'
    <2>1. FiredNames' = FiredNames
        BY <1>1 DEF FiredNames
    <2> QED
        BY <1>1, <2>1 DEF PlayShape, PlayPc
<1>3. PlayableEvents' = PlayableEvents
    BY <1>1 DEF PlayableEvents, Playable
<1>4. ASSUME NEW i \in PlayableEvents
      PROVE  /\ MeantNow(i)' => i \in due'
             /\ i \in due' /\ fired'[i] = 0 => Ahead(i)' /\ MeantNow(i)'
             /\ fired'[i] > 0 => fired'[i] = 1 /\ i \in due'
    <2>1. MeantNow(i)' <=> MeantTrigger(scenario.events[i].start, scene')
        BY <1>1 DEF MeantNow, MeantTrigger, MeantCondition, Measured
    <2>2. i \in due /\ fired[i] = 0 => FALSE
        BY <1>1 DEF DueInv, Ahead
    <2>3. i \in DOMAIN scenario.events /\ 1 <= i
        BY ScenarioConstants DEF PlayableEvents, PlayShape, ScenarioShape
    <2>4. Ahead(i)'
        BY <1>1, <2>3 DEF Ahead
    <2> QED
        BY <1>1, <2>1, <2>2, <2>4 DEF DueInv
<1> QED
    BY <1>1, <1>2, <1>3, <1>4 DEF DueInv

(* The loop comes to an event: it fires when it is due and has not fired.  *)
LEMMA FireKeepsEvents ==
    ASSUME EventsInv, FireEvent
    PROVE  EventsInv'
<1> USE DEF EventsInv
<1>1. /\ UNCHANGED <<scenario, plan, actors, scene, due>> /\ play.pc = "event"
      /\ PlayableEvents' = PlayableEvents
      /\ \A i : MeantNow(i)' <=> MeantNow(i)
    BY DEF FireEvent, PlayableEvents, Playable, MeantNow, MeantTrigger, MeantCondition, Measured
<1>2. PICK n \in DOMAIN plan.events :
        /\ Considered(n) /\ play' = [play EXCEPT !.event = n + 1]
        /\ LET e == plan.events[n]
           IN  IF ~HasFired(e.name) /\ TriggerSatisfied(e.start, scene, e.actors)
               THEN /\ fired_events' = fired_events \union {e.name}
                    /\ fired' = [fired EXCEPT ![n] = @ + 1]
               ELSE UNCHANGED <<fired_events, fired>>
    BY DEF FireEvent
<1>3. n \in Nat /\ play.event <= n /\ \A j \in DOMAIN plan.events : play.event <= j => n <= j
    BY <1>2, PlanIsOrdered DEF Considered, Remaining
<1>4. play' = [pc |-> "event", event |-> n + 1]
    BY <1>1, <1>2 DEF PlayShape
<1>5. PlayShape'
    <2>1. fired' \in [DOMAIN plan.events -> Nat]
        BY <1>2 DEF PlayShape
    <2>2. fired_events' = FiredNames'
        <3>1. CASE UNCHANGED <<fired_events, fired>>
            BY <1>1, <3>1 DEF PlayShape, FiredNames
        <3>2. CASE /\ fired_events' = fired_events \union {plan.events[n].name}
                   /\ fired' = [fired EXCEPT ![n] = @ + 1]
            <4>1. fired'[n] > 0 /\ \A j \in DOMAIN plan.events \ {n} : fired'[j] = fired[j]
                BY <3>2 DEF PlayShape
            <4>2. {j \in DOMAIN plan.events : fired'[j] > 0}
                    = {j \in DOMAIN plan.events : fired[j] > 0} \union {n}
                BY <4>1
            <4> QED
                BY <1>1, <3>2, <4>2 DEF PlayShape, FiredNames
        <3> QED
            BY <1>2, <3>1, <3>2
    <2>3. play'.event \in Nat /\ play'.pc \in PlayPc
        BY <1>3, <1>4 DEF PlayPc
    <2> QED
        BY <1>1, <1>4, <2>1, <2>2, <2>3 DEF PlayShape
<1>6. ASSUME NEW i \in PlayableEvents
      PROVE  /\ MeantNow(i) => i \in due
             /\ i \in due /\ fired'[i] = 0 => n + 1 <= i /\ MeantNow(i)
             /\ fired'[i] > 0 => fired'[i] = 1 /\ i \in due
    <2>1. /\ i \in DOMAIN plan.events /\ i \in Nat
          /\ \A j \in DOMAIN plan.events : plan.events[j].name = plan.events[i].name => j = i
        BY PlannedAsStated
    <2>2. /\ fired[i] > 0 => fired[i] = 1 /\ i \in due
          /\ i \in due /\ fired[i] = 0 => play.event <= i /\ MeantNow(i)
          /\ MeantNow(i) => i \in due
        BY <1>1 DEF DueInv, Ahead
    <2>3. CASE i # n
        <3>1. fired'[i] = fired[i]
            BY <1>2, <2>1, <2>3 DEF PlayShape
        <3>2. play.event <= i => n + 1 <= i
            BY <1>3, <2>1, <2>3
        <3> QED
            BY <2>2, <3>1, <3>2
    <2>4. CASE i = n
        <3>1. HasFired(plan.events[n].name) <=> fired[n] > 0
            BY <2>1, <2>4 DEF HasFired, PlayShape, FiredNames
        <3>2. TriggerSatisfied(plan.events[n].start, scene, plan.events[n].actors) <=> MeantNow(n)
            BY <2>4, SatisfiedAsMeant
        <3>3. fired[n] \in Nat
            BY DEF PlayShape
        <3>4. CASE fired[n] > 0
            <4>1. fired' = fired
                BY <1>2, <3>1, <3>4
            <4> QED
                BY <2>2, <2>4, <3>4, <4>1
        <3>5. CASE fired[n] = 0 /\ ~MeantNow(n)
            <4>1. fired' = fired
                BY <1>2, <3>2, <3>5
            <4> QED
                BY <2>2, <2>4, <3>5, <4>1
        <3>6. CASE fired[n] = 0 /\ MeantNow(n)
            <4>1. fired' = [fired EXCEPT ![n] = @ + 1]
                BY <1>2, <3>1, <3>2, <3>6
            <4>2. fired'[n] = 1
                BY <3>6, <4>1 DEF PlayShape
            <4> QED
                BY <2>2, <2>4, <3>6, <4>2
        <3> QED
            BY <3>3, <3>4, <3>5, <3>6
    <2> QED
        BY <2>3, <2>4
<1> QED
    BY <1>1, <1>4, <1>5, <1>6 DEF DueInv, Ahead

LEMMA EventsInvNext ==
    ASSUME EventsInv, [PlayNext]_playVars
    PROVE  EventsInv'
BY OtherStepsKeepEvents, TickKeepsEvents, FireKeepsEvents DEF PlayNext, PlayStep

LEMMA EventsInvariant == PlaySpec => []EventsInv
BY EventsInvInit, EventsInvNext, PTL DEF PlaySpec

(* Every reachable state of the playing of a scenario is well typed; the   *)
(* names that are remembered are those of the events that have fired.      *)
THEOREM PlayTypeCorrect == PlaySpec => []PlayTypeOK
<1>1. ReplayInv /\ EventsInv => PlayTypeOK
    BY DEF ReplayInv, SceneTypeOK, EventsInv, PlayShape, PlayPc, FiredNames, PlayTypeOK
<1> QED
    BY <1>1, EventsInvariant, ReplayInvInit, ReplayInvNext, PTL DEF PlaySpec

(* For every scenario file and however its actors move: when the loop      *)
(* looks for its end, exactly the events that can be played and whose      *)
(* trigger has held at some tick have fired, each of them once.            *)
THEOREM PlayedEventsFireWhenDue == PlaySpec => []EventsFireWhenDue
<1>1. EventsInv => EventsFireWhenDue
    <2> SUFFICES ASSUME EventsInv, play.pc = "end?", NEW i \in PlayableEvents
                 PROVE  fired[i] = IF i \in due THEN 1 ELSE 0
        BY DEF EventsFireWhenDue
    <2>1. fired[i] \in Nat
        BY PlannedAsStated DEF EventsInv, PlayShape
    <2>2. fired[i] > 0 => fired[i] = 1 /\ i \in due
        BY DEF EventsInv, DueInv
    <2>3. ~(i \in due /\ fired[i] = 0)
        BY DEF EventsInv, DueInv, Ahead
    <2> QED
        BY <2>1, <2>2, <2>3
<1> QED
    BY <1>1, EventsInvariant, PTL
===============================================================================
