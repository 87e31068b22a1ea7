----------------------------- MODULE StoresProofs ------------------------------
(***************************************************************************)
(* What the record of a gateway, the table of sensor profiles, the tables  *)
(* of recordings and a document that is replaced keep, for any number of   *)
(* requests, threads, profiles, runs, writers and failures.                *)
(***************************************************************************)
EXTENDS GatewayRegistry, SensorProfiles, RecordingAssets, DocumentFile, TLAPS

-------------------------------------------------------------------------------
(* GatewayRegistry.                                                        *)

CallShape == [pc: {"none", "read", "save", "done", "failed"},
              kind: {"none", "register", "heartbeat"},
              status: Reported \union {"UNKNOWN"}, copy: GatewayShape]
SenderShape == [pc: {"loop", "await", "beat", "dead"}, registered: BOOLEAN,
                awaits: Calls \union {NotAwaited}]

SameBeat(record, other) == record.status = other.status /\ record.age = other.age

(* A gateway that is not stored has no heartbeat; what is saved is stored. *)
EmptyIsEmpty ==
    /\ ~gateway.stored => SameBeat(gateway, NewGateway)
    /\ \A c \in Calls : calls[c].pc = "save" => calls[c].copy.stored

(* Unless requests have crossed, one of them at most holds a copy, and if  *)
(* it is a registration, then a copy with the last heartbeat.              *)
CopiesStand ==
    ~crossed => \A c \in Calls : calls[c].pc = "save" =>
        /\ \A d \in Calls : calls[d].pc = "save" => d = c
        /\ calls[c].kind # "heartbeat" => SameBeat(calls[c].copy, heard)

(* No record, and no copy that is still to be saved, is younger than the   *)
(* last heartbeat that has reached the server.                             *)
NoneIsYounger ==
    /\ silence <= gateway.age
    /\ \A c \in Calls : calls[c].pc = "save" => silence <= calls[c].copy.age

RegistryInv ==
    RegistryTypeOK /\ EmptyIsEmpty /\ CopiesStand /\ HeartbeatStands /\ NoneIsYounger

LEMMA OlderAge ==
    ASSUME NEW age \in Ages, NEW other \in Ages
    PROVE  /\ Older(age) \in Ages
           /\ age <= other => Older(age) <= Older(other)
           /\ Older(Never) = Never
  BY RegistryConstants DEF Ages, Never, Older

LEMMA Shapes ==
    /\ NoGateway \in GatewayShape /\ NewGateway \in GatewayShape
    /\ NoCall \in CallShape /\ FreshAgent \in SenderShape
<1>1. Never \in Ages
  BY RegistryConstants DEF Ages, Never
<1>2. NoGateway \in GatewayShape
  BY <1>1 DEF NoGateway, GatewayShape
<1>3. NewGateway \in GatewayShape
  BY <1>2 DEF NewGateway, GatewayShape
<1>4. NoCall \in CallShape
  <2> HIDE DEF NoGateway
  <2>1. QED  BY <1>2 DEF NoCall, CallShape
<1>5. FreshAgent \in SenderShape
  BY DEF FreshAgent, SenderShape
<1>6. QED  BY <1>2, <1>3, <1>4, <1>5

LEMMA RegistryTypes ==
    RegistryTypeOK <=> /\ gateway \in GatewayShape /\ heard \in GatewayShape
                       /\ calls \in [Calls -> CallShape] /\ sender \in SenderShape
                       /\ troubles \in 0 .. MaxTroubles
                       /\ silence \in Ages /\ crossed \in BOOLEAN
  BY DEF RegistryTypeOK, CallShape, SenderShape

LEMMA RegistryTypesNext ==
    ASSUME gateway' \in GatewayShape, heard' \in GatewayShape,
           calls' \in [Calls -> CallShape], sender' \in SenderShape,
           troubles' \in 0 .. MaxTroubles, silence' \in Ages, crossed' \in BOOLEAN
    PROVE  RegistryTypeOK'
  BY DEF RegistryTypeOK, CallShape, SenderShape

LEMMA RegistryStart == RegistryInit => RegistryInv
<1> SUFFICES ASSUME RegistryInit PROVE RegistryInv
  OBVIOUS
<1> USE DEF RegistryInit
<1>1. gateway \in GatewayShape
  <2>1. StaleAfter + 1 \in Ages
    BY RegistryConstants DEF Ages, Never
  <2>2. [stored |-> TRUE, status |-> "READY", age |-> StaleAfter + 1] \in GatewayShape
    BY <2>1 DEF GatewayShape, Reported
  <2>3. QED  BY <2>2, Shapes
<1>2. RegistryTypeOK
  <2>1. calls \in [Calls -> CallShape] /\ sender \in SenderShape
    BY Shapes
  <2>2. troubles \in 0 .. MaxTroubles
    BY RegistryConstants
  <2>3. silence \in Ages
    BY <1>1 DEF GatewayShape
  <2>4. QED  BY <1>1, <2>1, <2>2, <2>3, RegistryTypes
<1>3. \A c \in Calls : calls[c].pc # "save"
  BY DEF NoCall
<1>4. gateway.age <= gateway.age
  BY <1>1 DEF GatewayShape, Ages
<1>5. EmptyIsEmpty
  BY <1>3 DEF EmptyIsEmpty, SameBeat, NoGateway, NewGateway
<1>6. QED
  BY <1>2, <1>3, <1>4, <1>5 DEF RegistryInv, CopiesStand, HeartbeatStands, NoneIsYounger

(* The steps of the agent leave the record alone, and the copies.          *)
LEMMA SenderSteps ==
    ASSUME RegistryInv, SenderStep \/ AgentFails \/ AgentDies
    PROVE  /\ UNCHANGED <<gateway, silence, heard, crossed>>
           /\ calls' \in [Calls -> CallShape]
           /\ \A c \in Calls : calls'[c].pc = "save" => calls'[c] = calls[c]
           /\ sender' \in SenderShape
           /\ troubles' \in 0 .. MaxTroubles
<1> USE RegistryTypes DEF RegistryInv
<1>1. ASSUME NEW kind \in {"register", "heartbeat"},
             NEW status \in Reported \union {"UNKNOWN"}, Send(kind, status)
      PROVE  /\ calls' \in [Calls -> CallShape]
             /\ \A c \in Calls : calls'[c].pc = "save" => calls'[c] = calls[c]
             /\ sender' \in SenderShape
  <2> DEFINE new == [NoCall EXCEPT !.pc = "read", !.kind = kind, !.status = status]
  <2>1. PICK c \in Calls : /\ calls' = [calls EXCEPT ![c] = new]
                           /\ sender' = [sender EXCEPT !.pc = "await", !.awaits = c]
    BY <1>1 DEF Send
  <2>2. new \in CallShape /\ new.pc # "save"
    BY Shapes DEF CallShape, NoCall
  <2>3. QED
    <3> HIDE DEF new
    <3>1. QED  BY <2>1, <2>2 DEF SenderShape
<1>2. FailedLoop \in SenderShape
  BY DEF FailedLoop, RegisterAgain, SenderShape
<1>3. CASE SendRegister
  BY <1>1, <1>3 DEF SendRegister, seen
<1>4. CASE ReconcileCapture
  BY <1>4 DEF ReconcileCapture, SenderShape, seen
<1>5. CASE SendHeartbeat
  BY <1>1, <1>5 DEF SendHeartbeat, seen
<1>6. CASE TakeAnswer
  <2>1. calls' \in [Calls -> CallShape]
    BY <1>6, Shapes DEF TakeAnswer
  <2>2. \A c \in Calls : calls'[c].pc = "save" => calls'[c] = calls[c]
    BY <1>6 DEF TakeAnswer, NoCall
  <2>3. sender' \in SenderShape
    BY <1>6, <1>2 DEF TakeAnswer, SenderShape
  <2>4. QED  BY <1>6, <2>1, <2>2, <2>3 DEF TakeAnswer, seen
<1>7. CASE AgentFails
  BY <1>7, <1>2, RegistryConstants DEF AgentFails, Trouble, seen
<1>8. CASE AgentDies
  <2>1. calls' \in [Calls -> CallShape]
    BY <1>8, Shapes DEF AgentDies
  <2>2. \A c \in Calls : calls'[c].pc = "save" => calls'[c] = calls[c]
    BY <1>8 DEF AgentDies, NoCall
  <2>3. QED
    BY <1>8, <2>1, <2>2, Shapes, RegistryConstants DEF AgentDies, Trouble, seen, SenderShape
<1>9. CASE AgentRestarts
  BY <1>9, Shapes DEF AgentRestarts, seen
<1>10. QED
  BY <1>3, <1>4, <1>5, <1>6, <1>7, <1>8, <1>9 DEF SenderStep

LEMMA Answered ==
    ASSUME RegistryInv, NEW c \in Calls, NEW pc \in {"done", "failed"}, Answer(c, pc)
    PROVE  /\ calls' \in [Calls -> CallShape]
           /\ calls'[c].pc # "save"
           /\ \A d \in Calls \ {c} : calls'[d] = calls[d]
<1>1. [NoCall EXCEPT !.pc = pc] \in CallShape
  BY Shapes DEF CallShape, NoCall
<1>2. QED
  BY <1>1, Shapes, RegistryTypes DEF Answer, RegistryInv, NoCall

LEMMA Copied ==
    ASSUME RegistryInv, NEW c \in Calls, NEW copy \in GatewayShape, Handling(c, copy)
    PROVE  /\ calls' \in [Calls -> CallShape]
           /\ calls'[c].pc = "save" /\ calls'[c].copy = copy
           /\ calls'[c].kind = calls[c].kind
           /\ \A d \in Calls \ {c} : calls'[d] = calls[d]
  BY RegistryTypes DEF Handling, RegistryInv, CallShape

LEMMA RegisterKeeps ==
    ASSUME RegistryInv, NEW c \in Calls, RegisterGateway(c)
    PROVE  RegistryInv'
<1> USE RegistryTypes DEF RegistryInv
<1>1. /\ Kept(gateway) \in GatewayShape /\ SameBeat(Kept(gateway), gateway)
      /\ Kept(gateway).stored
  BY Shapes DEF Kept, EmptyIsEmpty, SameBeat, NewGateway, NoGateway
<1>2. Handling(c, Kept(gateway)) /\ UNCHANGED <<gateway, sender, troubles, silence, heard>>
  BY DEF RegisterGateway
<1>3. /\ calls' \in [Calls -> CallShape]
      /\ calls'[c].pc = "save" /\ calls'[c].copy = Kept(gateway)
      /\ calls'[c].kind = calls[c].kind
      /\ \A d \in Calls \ {c} : calls'[d] = calls[d]
  BY <1>1, <1>2, Copied
<1>4. crossed' = (crossed \/ OthersHandled(c))
  BY DEF RegisterGateway
<1>5. RegistryTypeOK'
  BY <1>2, <1>3, <1>4, RegistryTypesNext
<1>6. CopiesStand'
  <2>1. SUFFICES ASSUME ~crossed' PROVE CopiesStand'
    BY DEF CopiesStand
  <2>2. ~crossed /\ \A d \in Calls \ {c} : calls'[d].pc # "save"
    BY <2>1, <1>3, <1>4 DEF OthersHandled
  <2>3. SameBeat(calls'[c].copy, heard')
    BY <2>2, <1>1, <1>2, <1>3 DEF HeartbeatStands, SameBeat
  <2>4. QED  BY <2>2, <2>3 DEF CopiesStand
<1>7. NoneIsYounger'
  BY <1>1, <1>2, <1>3 DEF NoneIsYounger, SameBeat
<1>8. EmptyIsEmpty'
  BY <1>1, <1>2, <1>3 DEF EmptyIsEmpty, SameBeat
<1>9. HeartbeatStands'
  BY <1>2, <1>4 DEF HeartbeatStands
<1>10. QED  BY <1>5, <1>6, <1>7, <1>8, <1>9

LEMMA HeartbeatKeeps ==
    ASSUME RegistryInv, NEW c \in Calls, RecordHeartbeat(c)
    PROVE  RegistryInv'
<1> USE RegistryTypes DEF RegistryInv
<1> DEFINE copy == [stored |-> TRUE, status |-> calls[c].status, age |-> 0]
<1>1. copy \in GatewayShape
  BY RegistryConstants DEF GatewayShape, CallShape, Ages, Never
<1>2. /\ UNCHANGED <<gateway, sender, troubles, heard>> /\ silence' = 0
      /\ crossed' = (crossed \/ OthersHandled(c))
      /\ Handling(c, copy) \/ Answer(c, "failed")
      /\ calls[c].kind = "heartbeat"
  BY DEF RecordHeartbeat
<1>3. /\ calls' \in [Calls -> CallShape]
      /\ calls'[c].pc = "save" => /\ calls'[c].kind = "heartbeat"
                                  /\ calls'[c].copy.age = 0 /\ calls'[c].copy.stored
      /\ \A d \in Calls \ {c} : calls'[d] = calls[d]
  BY <1>1, <1>2, Copied, Answered
<1>4. RegistryTypeOK'
  <2>1. silence' \in Ages
    BY <1>2, RegistryConstants DEF Ages, Never
  <2>2. QED  BY <1>2, <1>3, <2>1, RegistryTypesNext
<1>5. CopiesStand'
  <2>1. SUFFICES ASSUME ~crossed' PROVE CopiesStand'
    BY DEF CopiesStand
  <2>2. \A d \in Calls \ {c} : calls'[d].pc # "save"
    BY <2>1, <1>2, <1>3 DEF OthersHandled
  <2>3. QED  BY <2>2, <1>3 DEF CopiesStand
<1>6. NoneIsYounger'
  <2>1. \A d \in Calls : calls'[d].copy.age \in Nat
    BY <1>3 DEF CallShape, GatewayShape, Ages
  <2>2. QED  BY <1>2, <1>3, <2>1 DEF NoneIsYounger, GatewayShape, Ages
<1>7. EmptyIsEmpty'
  BY <1>2, <1>3 DEF EmptyIsEmpty, SameBeat
<1>8. HeartbeatStands'
  BY <1>2 DEF HeartbeatStands
<1>9. QED  BY <1>4, <1>5, <1>6, <1>7, <1>8

LEMMA SaveKeeps ==
    ASSUME RegistryInv, NEW c \in Calls, SaveGateway(c)
    PROVE  RegistryInv'
<1> USE RegistryTypes DEF RegistryInv
<1> DEFINE beat == calls[c].kind = "heartbeat"
<1>1. /\ UNCHANGED <<sender, troubles, silence>>
      /\ calls[c].pc = "save" /\ gateway' = calls[c].copy
      /\ heard' = IF beat THEN calls[c].copy ELSE heard
      /\ crossed' = (crossed /\ ~(beat /\ ~OthersHandled(c)))
      /\ Answer(c, "done")
  BY DEF SaveGateway
<1>2. /\ calls' \in [Calls -> CallShape]
      /\ calls'[c].pc # "save"
      /\ \A d \in Calls \ {c} : calls'[d] = calls[d]
  BY <1>1, Answered
<1>3. RegistryTypeOK'
  <2>1. calls[c].copy \in GatewayShape
    BY DEF CallShape
  <2>2. QED  BY <1>1, <1>2, <2>1, RegistryTypesNext
<1>4. ASSUME ~crossed' PROVE \A d \in Calls : calls'[d].pc # "save"
  BY <1>1, <1>2, <1>4 DEF OthersHandled, CopiesStand
<1>5. CopiesStand'
  BY <1>4 DEF CopiesStand
<1>6. HeartbeatStands'
  BY <1>1 DEF HeartbeatStands, CopiesStand, SameBeat
<1>7. NoneIsYounger'
  BY <1>1, <1>2 DEF NoneIsYounger
<1>8. EmptyIsEmpty'
  BY <1>1, <1>2 DEF EmptyIsEmpty
<1>9. QED  BY <1>3, <1>5, <1>6, <1>7, <1>8

(* Everything ages alike.                                                  *)
LEMMA AgeingKeeps == RegistryInv /\ TickAge => RegistryInv'
<1> SUFFICES ASSUME RegistryInv, TickAge PROVE RegistryInv'
  OBVIOUS
<1> USE RegistryTypes DEF RegistryInv, TickAge
<1>1. \A g \in GatewayShape : [g EXCEPT !.age = Older(@)] \in GatewayShape
  BY OlderAge DEF GatewayShape
<1>2. gateway' \in GatewayShape /\ heard' \in GatewayShape /\ silence' \in Ages
  BY <1>1, OlderAge
<1>3. /\ calls' \in [Calls -> CallShape]
      /\ \A c \in Calls : /\ calls'[c].pc = calls[c].pc /\ calls'[c].kind = calls[c].kind
                          /\ calls'[c].copy.stored = calls[c].copy.stored
                          /\ calls'[c].copy.status = calls[c].copy.status
                          /\ calls'[c].copy.age = Older(calls[c].copy.age)
  <2> DEFINE aged(c) == [calls[c].copy EXCEPT !.age = Older(@)]
  <2>1. SUFFICES ASSUME NEW c \in Calls
                 PROVE  /\ calls'[c] \in CallShape
                        /\ calls'[c].pc = calls[c].pc /\ calls'[c].kind = calls[c].kind
                        /\ calls'[c].copy.stored = calls[c].copy.stored
                        /\ calls'[c].copy.status = calls[c].copy.status
                        /\ calls'[c].copy.age = Older(calls[c].copy.age)
    OBVIOUS
  <2>2. calls[c] \in CallShape /\ calls[c].copy \in GatewayShape
    BY DEF CallShape
  <2>3. calls'[c] = [calls[c] EXCEPT !.copy = aged(c)]
    BY <2>2 DEF CallShape
  <2>4. aged(c) \in GatewayShape
    BY <1>1, <2>2
  <2>5. calls'[c] \in CallShape /\ calls'[c].copy = aged(c)
    <3> HIDE DEF aged
    <3>1. QED  BY <2>2, <2>3, <2>4 DEF CallShape
  <2>6. QED  BY <2>2, <2>3, <2>5 DEF CallShape, GatewayShape
<1>4. RegistryTypeOK'
  BY <1>2, <1>3, RegistryTypesNext
<1>5. EmptyIsEmpty'
  BY <1>3, OlderAge DEF EmptyIsEmpty, SameBeat, NewGateway, NoGateway, GatewayShape
<1>6. /\ gateway'.status = gateway.status /\ gateway'.age = Older(gateway.age)
      /\ heard'.status = heard.status /\ heard'.age = Older(heard.age)
      /\ UNCHANGED crossed
  BY DEF GatewayShape
<1>7. HeartbeatStands'
  BY <1>6 DEF HeartbeatStands
<1>8. CopiesStand'
  <2>1. crossed' = crossed
    BY Zenon
  <2>2. ASSUME NEW c \in Calls
        PROVE  SameBeat(calls[c].copy, heard) => SameBeat(calls'[c].copy, heard')
    BY <1>3, <1>6 DEF SameBeat
  <2>3. \A c \in Calls : calls'[c].pc = calls[c].pc /\ calls'[c].kind = calls[c].kind
    BY <1>3
  <2> HIDE RegistryTypes DEF TickAge
  <2>4. CASE crossed
    BY <2>1, <2>4 DEF CopiesStand
  <2>5. CASE ~crossed
    <3>1. \A c \in Calls : calls[c].pc = "save" =>
            /\ \A d \in Calls : calls[d].pc = "save" => d = c
            /\ calls[c].kind # "heartbeat" => SameBeat(calls[c].copy, heard)
      BY <2>5 DEF CopiesStand
    <3>2. QED  BY <3>1, <2>2, <2>3 DEF CopiesStand
  <2>6. QED  BY <2>4, <2>5
<1>9. NoneIsYounger'
  BY <1>3, OlderAge DEF NoneIsYounger, GatewayShape, CallShape
<1>10. QED  BY <1>4, <1>5, <1>7, <1>8, <1>9

LEMMA RegistryStepKeeps == RegistryInv /\ [RegistryNext]_registryVars => RegistryInv'
<1> SUFFICES ASSUME RegistryInv, [RegistryNext]_registryVars PROVE RegistryInv'
  OBVIOUS
<1> USE RegistryTypes DEF RegistryInv
<1>1. CASE SenderStep \/ AgentFails \/ AgentDies
  <2>1. /\ UNCHANGED <<gateway, silence, heard, crossed>>
        /\ calls' \in [Calls -> CallShape]
        /\ \A c \in Calls : calls'[c].pc = "save" => calls'[c] = calls[c]
        /\ sender' \in SenderShape
        /\ troubles' \in 0 .. MaxTroubles
    BY <1>1, SenderSteps
  <2>2. RegistryTypeOK'
    BY <2>1, RegistryTypesNext
  <2>3. EmptyIsEmpty' /\ NoneIsYounger'
    BY <2>1 DEF EmptyIsEmpty, NoneIsYounger, SameBeat
  <2>4. CopiesStand' /\ HeartbeatStands'
    BY <2>1 DEF CopiesStand, HeartbeatStands, SameBeat
  <2>5. QED  BY <2>2, <2>3, <2>4
<1>2. ASSUME NEW c \in Calls, CallStep(c) PROVE RegistryInv'
  BY <1>2, RegisterKeeps, HeartbeatKeeps, SaveKeeps DEF CallStep
<1>3. CASE RecordIsLost
  <2>1. /\ gateway' = NoGateway /\ heard' = NoGateway
        /\ crossed' = (crossed \/ \E c \in Calls : calls[c].pc = "save")
        /\ UNCHANGED <<calls, sender, silence>> /\ troubles' \in 0 .. MaxTroubles
    BY <1>3, RegistryConstants DEF RecordIsLost, Trouble
  <2>2. RegistryTypeOK'
    BY <2>1, Shapes, RegistryTypesNext
  <2>3. EmptyIsEmpty'
    BY <2>1 DEF EmptyIsEmpty, SameBeat, NewGateway, NoGateway
  <2>4. CopiesStand' /\ HeartbeatStands'
    BY <2>1 DEF CopiesStand, HeartbeatStands
  <2>5. silence <= NoGateway.age
    BY RegistryConstants DEF NoGateway, Ages, Never
  <2>6. NoneIsYounger'
    BY <2>1, <2>5 DEF NoneIsYounger
  <2>7. QED  BY <2>2, <2>3, <2>4, <2>6
<1>4. CASE RegistryApiRestart
  <2>1. /\ UNCHANGED <<gateway, silence, heard, crossed>>
        /\ calls' = [c \in Calls |-> NoCall] /\ troubles' \in 0 .. MaxTroubles
    BY <1>4, RegistryConstants DEF RegistryApiRestart, Trouble, seen
  <2>2. sender' \in SenderShape
    BY <1>4, Shapes DEF RegistryApiRestart, SenderShape
  <2>3. RegistryTypeOK'
    BY <2>1, <2>2, Shapes, RegistryTypesNext
  <2>4. \A c \in Calls : calls'[c].pc # "save"
    BY <2>1 DEF NoCall
  <2>5. EmptyIsEmpty' /\ NoneIsYounger' /\ CopiesStand' /\ HeartbeatStands'
    BY <2>1, <2>4 DEF EmptyIsEmpty, NoneIsYounger, CopiesStand, HeartbeatStands, SameBeat
  <2>6. QED  BY <2>3, <2>5
<1>5. CASE TickAge
  BY <1>5, AgeingKeeps
<1>6. CASE UNCHANGED registryVars
  BY <1>6, RegistryTypesNext DEF registryVars, EmptyIsEmpty, NoneIsYounger, CopiesStand,
     HeartbeatStands, SameBeat
<1>7. QED
  BY <1>1, <1>2, <1>3, <1>4, <1>5, <1>6 DEF RegistryNext

(* What the requests hold never undoes the last heartbeat.                 *)
THEOREM RegistryInvariant == RegistrySpec => []RegistryInv
  BY RegistryStart, RegistryStepKeeps, PTL DEF RegistrySpec

(* The record of a gateway, the requests and the agent are well typed, for *)
(* any number of concurrent requests and failures.                         *)
THEOREM RegistryTypeCorrect == RegistrySpec => []RegistryTypeOK
<1>1. RegistryInv => RegistryTypeOK
  BY DEF RegistryInv
<1>2. QED  BY <1>1, RegistryInvariant, PTL

(* The last heartbeat stands in the record until requests cross.           *)
THEOREM LastHeartbeatStands == RegistrySpec => []HeartbeatStands
<1>1. RegistryInv => HeartbeatStands
  BY DEF RegistryInv
<1>2. QED  BY <1>1, RegistryInvariant, PTL

(* A gateway that has been silent for too long is shown as such, whatever  *)
(* requests are handled late, cross, or write back an old record.          *)
THEOREM SilenceIsShown == RegistrySpec => []SilentGatewayIsOffline
<1>1. RegistryInv => SilentGatewayIsOffline
  <2> SUFFICES ASSUME RegistryInv, silence > StaleAfter, NEW reachable \in BOOLEAN
               PROVE  ShownStatus(gateway, reachable) \in {"OFFLINE", "DEGRADED"}
    BY DEF SilentGatewayIsOffline
  <2>1. gateway.age > StaleAfter
    BY RegistryTypes, RegistryConstants DEF RegistryInv, NoneIsYounger, GatewayShape, Ages
  <2>2. QED
    BY <2>1, RegistryTypes, RegistryConstants
       DEF ShownStatus, HeartbeatAge, RegistryInv, GatewayShape, Ages
<1>2. QED  BY <1>1, RegistryInvariant, PTL

-------------------------------------------------------------------------------
(* SensorProfiles.                                                         *)

Requests == [pc: {"idle", "import", "create", "read", "insert", "created", "upsert"},
             op: {"none", "list", "get", "create", "update", "copy"},
             id: ProfileIds, source: ProfileIds, number: 0 .. MaxSaves,
             known: SUBSET ProfileIds, row: Rows]

(* A row that is going to be saved is one, and that of an update is new.   *)
SavesSomething(q) ==
    /\ q.op = "copy" => q.number # 0
    /\ q.pc = "insert" => q.row # Missing
    /\ q.pc \in {"created", "upsert"} => q.row.content \in 1 .. MaxSaves

(* What an import knows is there, and after it all YAML profiles are.      *)
KnowsTheTable(q) ==
    /\ q.pc = "create" => q.known \subseteq Table
    /\ q.pc = "read" => LegacyProfiles \subseteq Table

LibraryInv ==
    /\ LibraryTypeOK /\ ImportedBeforeAnswer
    /\ \A t \in LibraryThreads : SavesSomething(library[t]) /\ KnowsTheTable(library[t])

(* No row is removed, replaced by that of a file, or created again.        *)
RowsKept ==
    \A i \in ProfileIds : profiles[i] # Missing =>
        /\ profiles'[i] # Missing
        /\ profiles'[i].created = profiles[i].created
        /\ profiles'[i].content = Yaml => profiles[i].content = Yaml

LEMMA LibraryTypes ==
    LibraryTypeOK <=> /\ profiles \in [ProfileIds -> Rows]
                      /\ library \in [LibraryThreads -> Requests]
                      /\ saves \in 0 .. MaxSaves
                      /\ listed \subseteq ProfileIds /\ unknown \subseteq ProfileIds
  BY DEF LibraryTypeOK, Requests

LEMMA LibraryTypesNext ==
    ASSUME profiles' \in [ProfileIds -> Rows], library' \in [LibraryThreads -> Requests],
           saves' \in 0 .. MaxSaves, listed' \subseteq ProfileIds, unknown' \subseteq ProfileIds
    PROVE  LibraryTypeOK'
  BY DEF LibraryTypeOK, Requests

LEMMA RestingIsWell ==
    Resting \in Requests /\ SavesSomething(Resting) /\ KnowsTheTable(Resting)
<1>1. NoProfile \in ProfileIds
  BY LibraryConstants DEF NoProfile, ProfileIds
<1>2. Missing \in Rows
  BY LibraryConstants DEF Missing, Rows, Yaml
<1>3. Resting \in Requests
  <2> HIDE DEF Missing
  <2>1. QED  BY <1>1, <1>2, LibraryConstants DEF Resting, Requests
<1>4. QED  BY <1>3 DEF Resting, SavesSomething, KnowsTheTable

(* A row that is saved by a request, or imported.                          *)
LEMMA NewRows ==
    /\ \A n, m \in 1 .. Yaml : Profile(n, m) \in Rows /\ Profile(n, m) # Missing
    /\ \A row \in Rows, n \in 1 .. Yaml :
            Profile(row.content, n) \in Rows /\ Profile(row.content, n) # Missing
  BY LibraryConstants DEF Profile, Missing, Rows, Yaml

(* A thread that moves on while the table keeps what it has.               *)
LEMMA ThreadMoves ==
    ASSUME LibraryInv, RowsKept, profiles' \in [ProfileIds -> Rows],
           NEW t \in LibraryThreads, NEW q \in Requests, Does(t, q),
           SavesSomething(q), KnowsTheTable(q)', saves' \in 0 .. MaxSaves,
           UNCHANGED libraryHistory \/ /\ UNCHANGED listed
                                       /\ unknown' \subseteq ProfileIds
                                       /\ LegacyProfiles \intersect unknown' = {}
                                    \/ /\ UNCHANGED unknown
                                       /\ listed' \subseteq ProfileIds
                                       /\ LegacyProfiles \subseteq listed'
    PROVE  LibraryInv'
<1> USE LibraryTypes DEF LibraryInv, libraryHistory
<1>1. library' = [library EXCEPT ![t] = q]
  BY DEF Does
<1>2. LibraryTypeOK'
  BY <1>1, LibraryTypesNext
<1>3. ImportedBeforeAnswer'
  BY DEF ImportedBeforeAnswer
<1>4. Table \subseteq Table'
  BY DEF Table, RowsKept
<1>5. ASSUME NEW u \in LibraryThreads
      PROVE  SavesSomething(library[u])' /\ KnowsTheTable(library[u])'
  <2>1. CASE u = t
    BY <1>1, <2>1 DEF SavesSomething, KnowsTheTable
  <2>2. CASE u # t
    BY <1>1, <1>4, <2>2 DEF SavesSomething, KnowsTheTable
  <2>3. QED  BY <2>1, <2>2
<1>6. QED  BY <1>2, <1>3, <1>5

LEMMA NothingWritten ==
    ASSUME LibraryInv, UNCHANGED profiles
    PROVE  RowsKept /\ profiles' \in [ProfileIds -> Rows] /\ Table' = Table
  BY LibraryTypes DEF LibraryInv, RowsKept, Table

LEMMA ReadingKeeps ==
    ASSUME LibraryInv, NEW t \in LibraryThreads, NEW op \in {"list", "get"},
           NEW id \in ProfileIds, BeginReading(t, op, id)
    PROVE  LibraryInv' /\ RowsKept
<1> DEFINE q == [Resting EXCEPT !.pc = "import", !.op = op, !.id = id]
<1>1. q \in Requests /\ q.pc = "import" /\ q.op # "copy"
  BY RestingIsWell DEF Requests
<1>2. Does(t, q) /\ UNCHANGED <<profiles, saves, libraryHistory>>
  BY DEF BeginReading
<1>3. SavesSomething(q) /\ KnowsTheTable(q)'
  BY <1>1 DEF SavesSomething, KnowsTheTable
<1>4. QED
  <2> HIDE DEF q
  <2>1. QED  BY <1>1, <1>2, <1>3, ThreadMoves, NothingWritten, LibraryTypes DEF LibraryInv

LEMMA SavingKeeps ==
    ASSUME LibraryInv, NEW t \in LibraryThreads, NEW op \in {"create", "update", "copy"},
           NEW pc \in {"insert", "created", "import"},
           NEW id \in ProfileIds, NEW source \in ProfileIds,
           BeginSaving(t, op, pc, id, source)
    PROVE  LibraryInv' /\ RowsKept
<1>1. /\ saves' \in 1 .. MaxSaves /\ saves' \in 0 .. MaxSaves /\ saves' # 0
      /\ UNCHANGED <<profiles, libraryHistory>>
  BY LibraryConstants, LibraryTypes DEF BeginSaving, LibraryInv
<1>2. PICK row \in Rows : /\ row = Profile(saves', saves') /\ row # Missing
                          /\ row.content \in 1 .. MaxSaves
  <2> DEFINE new == Profile(saves', saves')
  <2>1. saves' \in 1 .. Yaml
    BY <1>1, LibraryConstants DEF Yaml
  <2>2. new \in Rows /\ new # Missing
    BY <2>1, NewRows
  <2>3. new.content \in 1 .. MaxSaves
    BY <1>1 DEF Profile
  <2> HIDE DEF new
  <2>4. QED  BY <2>2, <2>3 DEF new
<1> DEFINE first == [Resting EXCEPT !.pc = pc, !.op = op, !.id = id]
<1>3. first \in Requests /\ first.pc = pc
  BY RestingIsWell DEF Requests
<1>4. Does(t, [first EXCEPT !.source = source, !.number = saves', !.row = row])
  BY <1>2 DEF BeginSaving
<1> HIDE DEF first
<1>5. PICK q \in Requests : Does(t, q) /\ q.pc = pc /\ q.number # 0 /\ q.row = row
  <2> DEFINE new == [first EXCEPT !.source = source, !.number = saves', !.row = row]
  <2>1. new \in Requests /\ new.pc = pc /\ new.number # 0 /\ new.row = row
    BY <1>1, <1>3 DEF Requests
  <2> HIDE DEF new
  <2>2. Does(t, new)
    BY <1>4 DEF new
  <2>3. QED  BY <2>1, <2>2
<1>6. SavesSomething(q)
  BY <1>2, <1>5 DEF SavesSomething
<1>7. KnowsTheTable(q)'
  BY <1>5 DEF KnowsTheTable
<1>8. RowsKept /\ profiles' \in [ProfileIds -> Rows]
  BY <1>1, NothingWritten
<1>9. QED
  BY <1>1, <1>5, <1>6, <1>7, <1>8, ThreadMoves

(* A row that is written where there was none, or over one.                *)
LEMMA RowAdded ==
    ASSUME LibraryInv, NEW i \in ProfileIds, NEW row \in Rows, row # Missing,
           profiles[i] = Missing, profiles' = [profiles EXCEPT ![i] = row]
    PROVE  RowsKept /\ profiles' \in [ProfileIds -> Rows] /\ Table' = Table \union {i}
  BY LibraryTypes DEF LibraryInv, RowsKept, Table

LEMMA RowReplaced ==
    ASSUME LibraryInv, NEW i \in ProfileIds, NEW row \in Rows, row # Missing,
           row.content # Yaml, row.created = profiles[i].created,
           profiles' = [profiles EXCEPT ![i] = row]
    PROVE  RowsKept /\ profiles' \in [ProfileIds -> Rows]
  BY LibraryTypes DEF LibraryInv, RowsKept

LEMMA StepKeeps ==
    ASSUME LibraryInv, NEW t \in LibraryThreads, LibraryStep(t)
    PROVE  LibraryInv' /\ RowsKept
<1>0. /\ profiles \in [ProfileIds -> Rows] /\ library[t] \in Requests
      /\ saves \in 0 .. MaxSaves /\ unknown \subseteq ProfileIds /\ ImportedBeforeAnswer
  BY LibraryTypes DEF LibraryInv
<1>1. PICK q \in Requests : q = library[t] /\ SavesSomething(q)
  BY <1>0 DEF LibraryInv
<1>2. KnowsTheTable(q)
  BY <1>1 DEF LibraryInv
<1>3. saves \in 0 .. MaxSaves
  BY <1>0
<1> USE LibraryConstants
<1>4. CASE ReadKnownIds(t)
  <2>1. PICK r \in Requests : /\ r = [q EXCEPT !.pc = "create", !.known = Table]
                              /\ r.pc = "create" /\ r.known = Table /\ r.op = q.op
                              /\ r.number = q.number
    <3> DEFINE new == [q EXCEPT !.pc = "create", !.known = Table]
    <3>1. /\ new \in Requests /\ new.pc = "create" /\ new.known = Table
          /\ new.op = q.op /\ new.number = q.number
      BY DEF Requests, Table
    <3> HIDE DEF new
    <3>2. QED  BY <3>1 DEF new
  <2>2. Does(t, r) /\ UNCHANGED <<profiles, saves, libraryHistory>>
    BY <1>1, <1>4, <2>1 DEF ReadKnownIds
  <2>3. SavesSomething(r)
    BY <1>1, <2>1 DEF SavesSomething
  <2>4. KnowsTheTable(r)'
    BY <2>1, <2>2, NothingWritten DEF KnowsTheTable
  <2>5. QED  BY <1>3, <2>2, <2>3, <2>4, ThreadMoves, NothingWritten
<1>5. ASSUME NEW i \in LegacyProfiles, ImportProfile(t, i) PROVE LibraryInv' /\ RowsKept
  <2>1. /\ q.pc = "create" /\ UNCHANGED <<saves, libraryHistory>>
        /\ profiles' = [profiles EXCEPT ![i] = Inserted(i, Profile(Yaml, Yaml))]
        /\ Does(t, IF profiles[i] = Missing THEN [q EXCEPT !.known = @ \union {i}]
                   ELSE OnConflict(q))
    BY <1>1, <1>5 DEF ImportProfile
  <2>2. i \in ProfileIds
    BY DEF ProfileIds
  <2>3. CASE profiles[i] = Missing
    <3>1. PICK r \in Requests : /\ r = [q EXCEPT !.known = @ \union {i}]
                                /\ r.pc = "create" /\ r.known = q.known \union {i}
                                /\ r.op = q.op /\ r.number = q.number
      <4> DEFINE new == [q EXCEPT !.known = @ \union {i}]
      <4>1. /\ new \in Requests /\ new.pc = "create" /\ new.known = q.known \union {i}
            /\ new.op = q.op /\ new.number = q.number
        BY <2>1, <2>2 DEF Requests
      <4> HIDE DEF new
      <4>2. QED  BY <4>1 DEF new
    <3>2. PICK row \in Rows : row = Profile(Yaml, Yaml) /\ row # Missing
      BY NewRows DEF Yaml
    <3>3. profiles' = [profiles EXCEPT ![i] = row]
      BY <2>1, <2>3, <3>2 DEF Inserted
    <3>4. RowsKept /\ profiles' \in [ProfileIds -> Rows] /\ Table' = Table \union {i}
      BY <2>2, <2>3, <3>2, <3>3, RowAdded
    <3>5. SavesSomething(r)
      BY <1>1, <3>1 DEF SavesSomething
    <3>6. KnowsTheTable(r)'
      BY <1>2, <2>1, <3>1, <3>4 DEF KnowsTheTable
    <3>7. QED  BY <1>3, <2>1, <2>3, <3>1, <3>4, <3>5, <3>6, ThreadMoves
  <2>4. CASE profiles[i] # Missing
    <3>1. UNCHANGED profiles
      BY <1>0, <2>1, <2>2, <2>4 DEF Inserted
    <3>2. Does(t, Resting)
      BY <2>1, <2>4 DEF OnConflict
    <3>3. KnowsTheTable(Resting)'
      BY DEF KnowsTheTable, Resting
    <3>4. QED  BY <1>3, <2>1, <3>1, <3>2, <3>3, RestingIsWell, ThreadMoves, NothingWritten
  <2>5. QED  BY <2>3, <2>4
<1>6. CASE ImportEnds(t)
  <2>1. q.pc = "create" /\ LegacyProfiles \subseteq q.known
    BY <1>1, <1>6 DEF ImportEnds
  <2>2. PICK r \in Requests : /\ r = [q EXCEPT !.pc = "read", !.known = {}]
                              /\ r.pc = "read" /\ r.op = q.op /\ r.number = q.number
    <3> DEFINE new == [q EXCEPT !.pc = "read", !.known = {}]
    <3>1. /\ new \in Requests /\ new.pc = "read" /\ new.op = q.op /\ new.number = q.number
      BY DEF Requests
    <3> HIDE DEF new
    <3>2. QED  BY <3>1 DEF new
  <2>3. Does(t, r) /\ UNCHANGED <<profiles, saves, libraryHistory>>
    BY <1>1, <1>6, <2>2 DEF ImportEnds
  <2>4. SavesSomething(r)
    BY <1>1, <2>2 DEF SavesSomething
  <2>5. KnowsTheTable(r)'
    BY <1>2, <2>1, <2>2, <2>3, NothingWritten DEF KnowsTheTable
  <2>6. QED  BY <1>3, <2>3, <2>4, <2>5, ThreadMoves, NothingWritten
<1>7. KnowsTheTable(Resting)'
  BY DEF KnowsTheTable, Resting
<1>8. CASE AnswerList(t)
  <2>1. q.pc = "read" /\ listed' = Table /\ UNCHANGED <<profiles, saves, unknown>>
        /\ Does(t, Resting)
    BY <1>1, <1>8 DEF AnswerList, DoneWith
  <2>2. LegacyProfiles \subseteq Table /\ Table \subseteq ProfileIds
    BY <1>2, <2>1 DEF KnowsTheTable, Table
  <2>3. QED  BY <1>3, <1>7, <2>1, <2>2, RestingIsWell, ThreadMoves, NothingWritten
<1>9. CASE ReadProfile(t)
  <2> DEFINE i == IF q.op = "copy" THEN q.source ELSE q.id
  <2>1. /\ q.pc = "read" /\ q.op # "list" /\ UNCHANGED <<profiles, saves, listed>>
        /\ IF profiles[i] = Missing
           THEN DoneWith(t) /\ unknown' = unknown \union {i}
           ELSE /\ UNCHANGED unknown
                /\ IF q.op = "copy"
                   THEN Does(t, [q EXCEPT !.pc = "insert",
                                          !.row = Profile(profiles[i].content, q.number)])
                   ELSE DoneWith(t)
    BY <1>1, <1>9 DEF ReadProfile
  <2>2. i \in ProfileIds
    BY DEF Requests
  <2> HIDE DEF i
  <2>3. CASE profiles[i] = Missing
    <3>1. unknown' \subseteq ProfileIds /\ LegacyProfiles \intersect unknown' = {}
      BY <1>0, <1>2, <2>1, <2>2, <2>3 DEF KnowsTheTable, Table, ImportedBeforeAnswer
    <3>2. QED
      BY <1>3, <1>7, <2>1, <2>3, <3>1, RestingIsWell, ThreadMoves, NothingWritten DEF DoneWith
  <2>4. CASE profiles[i] # Missing /\ q.op # "copy"
    BY <1>3, <1>7, <2>1, <2>4, RestingIsWell, ThreadMoves, NothingWritten
       DEF DoneWith, libraryHistory
  <2>5. CASE profiles[i] # Missing /\ q.op = "copy"
    <3>1. profiles[i] \in Rows /\ q.number \in 1 .. Yaml
      BY <1>0, <1>1, <2>2, <2>5 DEF SavesSomething, Requests, Yaml
    <3>2. PICK row \in Rows : row = Profile(profiles[i].content, q.number) /\ row # Missing
      BY <3>1, NewRows
    <3>3. PICK r \in Requests : /\ r = [q EXCEPT !.pc = "insert", !.row = row]
                                /\ r.pc = "insert" /\ r.row = row /\ r.number = q.number
      <4> DEFINE new == [q EXCEPT !.pc = "insert", !.row = row]
      <4>1. /\ new \in Requests /\ new.pc = "insert" /\ new.row = row /\ new.number = q.number
        BY DEF Requests
      <4> HIDE DEF new
      <4>2. QED  BY <4>1 DEF new
    <3>4. Does(t, r) /\ UNCHANGED <<profiles, saves, libraryHistory>>
      BY <2>1, <2>5, <3>2, <3>3 DEF libraryHistory
    <3>5. q.number # 0
      BY <1>1, <2>5 DEF SavesSomething
    <3>6. SavesSomething(r)
      BY <3>2, <3>3, <3>5 DEF SavesSomething
    <3>7. KnowsTheTable(r)'
      BY <3>3 DEF KnowsTheTable
    <3>8. QED  BY <1>3, <3>4, <3>6, <3>7, ThreadMoves, NothingWritten
  <2>6. QED  BY <2>3, <2>4, <2>5
<1>10. CASE InsertProfile(t)
  <2>1. /\ q.pc = "insert" /\ profiles' = [profiles EXCEPT ![q.id] = Inserted(q.id, q.row)]
        /\ Does(t, Resting) /\ UNCHANGED <<saves, libraryHistory>>
    BY <1>1, <1>10 DEF InsertProfile, DoneWith
  <2>2. q.id \in ProfileIds /\ q.row \in Rows /\ q.row # Missing
    BY <1>1, <2>1 DEF Requests, SavesSomething
  <2>3. RowsKept /\ profiles' \in [ProfileIds -> Rows]
    <3>1. CASE profiles[q.id] = Missing
      BY <2>1, <2>2, <3>1, RowAdded DEF Inserted
    <3>2. CASE profiles[q.id] # Missing
      <4>1. UNCHANGED profiles
        BY <1>0, <2>1, <2>2, <3>2 DEF Inserted
      <4>2. QED  BY <4>1, NothingWritten
    <3>3. QED  BY <3>1, <3>2
  <2>4. QED  BY <1>3, <1>7, <2>1, <2>3, RestingIsWell, ThreadMoves
<1>11. CASE ReadCreated(t)
  <2> DEFINE row == [q.row EXCEPT !.created = IF profiles[q.id] = Missing THEN q.row.created
                                              ELSE profiles[q.id].created]
  <2>1. q.id \in ProfileIds /\ q.row \in Rows /\ profiles[q.id] \in Rows
    BY <1>0 DEF Requests
  <2>2. row \in Rows /\ row.content = q.row.content
    BY <2>1 DEF Rows
  <2>3. q.pc = "created" /\ UNCHANGED <<profiles, saves, libraryHistory>>
        /\ Does(t, [q EXCEPT !.pc = "upsert", !.row = row])
    BY <1>1, <1>11 DEF ReadCreated, Requests
  <2> HIDE DEF row
  <2>4. PICK r \in Requests : /\ r = [q EXCEPT !.pc = "upsert", !.row = row]
                              /\ r.pc = "upsert" /\ r.row = row
                              /\ r.op = q.op /\ r.number = q.number
    <3> DEFINE new == [q EXCEPT !.pc = "upsert", !.row = row]
    <3>1. /\ new \in Requests /\ new.pc = "upsert" /\ new.row = row
          /\ new.op = q.op /\ new.number = q.number
      BY <2>2 DEF Requests
    <3> HIDE DEF new
    <3>2. QED  BY <3>1 DEF new
  <2>5. SavesSomething(r)
    BY <1>1, <2>2, <2>3, <2>4 DEF SavesSomething
  <2>6. KnowsTheTable(r)'
    BY <2>4 DEF KnowsTheTable
  <2>7. QED  BY <1>3, <2>3, <2>4, <2>5, <2>6, ThreadMoves, NothingWritten
<1>12. CASE UpsertProfile(t)
  <2>1. /\ q.pc = "upsert" /\ profiles' = [profiles EXCEPT ![q.id] = Upserted(q.id, q.row)]
        /\ Does(t, [q EXCEPT !.pc = "import"]) /\ UNCHANGED <<saves, libraryHistory>>
    BY <1>1, <1>12 DEF UpsertProfile
  <2>2. /\ q.id \in ProfileIds /\ q.row \in Rows /\ profiles[q.id] \in Rows
        /\ q.row.content \in 1 .. MaxSaves
    BY <1>0, <1>1, <2>1 DEF Requests, SavesSomething
  <2>3. PICK row \in Rows : /\ row = Upserted(q.id, q.row) /\ row.content \in 1 .. MaxSaves
                            /\ profiles[q.id] = Missing \/ row.created = profiles[q.id].created
    <3>1. CASE profiles[q.id] = Missing
      BY <2>2, <3>1 DEF Upserted
    <3>2. CASE profiles[q.id] # Missing
      <4> DEFINE new == [q.row EXCEPT !.created = profiles[q.id].created]
      <4>1. /\ new \in Rows /\ new.content = q.row.content
            /\ new.created = profiles[q.id].created
        BY <2>2 DEF Rows
      <4>2. Upserted(q.id, q.row) = new
        BY <3>2 DEF Upserted
      <4> HIDE DEF new
      <4>3. QED  BY <2>2, <4>1, <4>2
    <3>3. QED  BY <3>1, <3>2
  <2>4. row # Missing /\ row.content # Yaml
    BY <2>3 DEF Missing, Yaml
  <2>5. RowsKept /\ profiles' \in [ProfileIds -> Rows]
    BY <2>1, <2>2, <2>3, <2>4, RowAdded, RowReplaced
  <2>6. PICK r \in Requests : /\ r = [q EXCEPT !.pc = "import"] /\ r.pc = "import"
                              /\ r.op = q.op /\ r.number = q.number
    <3> DEFINE new == [q EXCEPT !.pc = "import"]
    <3>1. /\ new \in Requests /\ new.pc = "import" /\ new.op = q.op /\ new.number = q.number
      BY DEF Requests
    <3> HIDE DEF new
    <3>2. QED  BY <3>1 DEF new
  <2>7. SavesSomething(r) /\ KnowsTheTable(r)'
    BY <1>1, <2>6 DEF SavesSomething, KnowsTheTable
  <2>8. QED  BY <1>3, <2>1, <2>5, <2>6, <2>7, ThreadMoves
<1>13. QED
  BY <1>4, <1>5, <1>6, <1>8, <1>9, <1>10, <1>11, <1>12 DEF LibraryStep

LEMMA LibraryStart == LibraryInit => LibraryInv
<1> SUFFICES ASSUME LibraryInit PROVE LibraryInv
  OBVIOUS
<1>1. Missing \in Rows
  BY LibraryConstants DEF Missing, Rows, Yaml
<1>2. LibraryTypeOK
  BY <1>1, RestingIsWell, LibraryTypes, LibraryConstants DEF LibraryInit, ProfileIds
<1>3. QED
  BY <1>2, RestingIsWell DEF LibraryInv, LibraryInit, ImportedBeforeAnswer

LEMMA LibraryNextKeeps == LibraryInv /\ [LibraryNext]_libraryVars => LibraryInv' /\ RowsKept
<1> SUFFICES ASSUME LibraryInv, [LibraryNext]_libraryVars PROVE LibraryInv' /\ RowsKept
  OBVIOUS
<1>1. NoProfile \in ProfileIds
  BY LibraryConstants DEF NoProfile, ProfileIds
<1>2. ASSUME NEW t \in LibraryThreads, LibraryStep(t) PROVE LibraryInv' /\ RowsKept
  BY <1>2, StepKeeps
<1>3. ASSUME NEW t \in LibraryThreads, NEW i \in ProfileIds, ListProfiles(t) \/ GetProfile(t, i)
      PROVE  LibraryInv' /\ RowsKept
  BY <1>1, <1>3, ReadingKeeps DEF ListProfiles, GetProfile
<1>4. ASSUME NEW t \in LibraryThreads, NEW i \in ProfileIds, NEW j \in ProfileIds,
             CreateProfile(t, i) \/ UpdateProfile(t, i) \/ CopyProfile(t, i, j)
      PROVE  LibraryInv' /\ RowsKept
  BY <1>4, SavingKeeps DEF CreateProfile, UpdateProfile, CopyProfile
<1>5. CASE UNCHANGED libraryVars
  <2>1. UNCHANGED <<profiles, library, saves, listed, unknown>>
    BY <1>5 DEF libraryVars, libraryHistory
  <2>2. LibraryTypeOK'
    BY <2>1, LibraryTypes, LibraryTypesNext DEF LibraryInv
  <2>3. QED
    BY <2>1, <2>2, NothingWritten
       DEF LibraryInv, ImportedBeforeAnswer, SavesSomething, KnowsTheTable
<1>6. CASE LibraryNext
  <2>1. PICK t \in LibraryThreads :
          \/ LibraryStep(t) \/ ListProfiles(t)
          \/ \E i \in ProfileIds : GetProfile(t, i) \/ CreateProfile(t, i) \/ UpdateProfile(t, i)
          \/ \E i, j \in ProfileIds : CopyProfile(t, i, j)
    BY <1>6 DEF LibraryNext
  <2>2. QED  BY <1>1, <1>2, <1>3, <1>4, <2>1
<1>7. QED  BY <1>5, <1>6

(* What the requests know of the table stays true of it.                   *)
THEOREM LibraryInvariant == LibrarySpec => []LibraryInv
<1>1. LibraryInv /\ [LibraryNext]_libraryVars => LibraryInv'
  BY LibraryNextKeeps
<1>2. QED  BY <1>1, LibraryStart, PTL DEF LibrarySpec

(* The table and the requests are well typed, for any number of threads,   *)
(* files, further ids and saves.                                           *)
THEOREM LibraryTypeCorrect == LibrarySpec => []LibraryTypeOK
<1>1. LibraryInv => LibraryTypeOK
  BY DEF LibraryInv
<1>2. QED  BY <1>1, LibraryInvariant, PTL

(* Every answer of a listing has all YAML profiles, none is ever unknown.  *)
THEOREM YamlProfilesAreThere == LibrarySpec => []ImportedBeforeAnswer
<1>1. LibraryInv => ImportedBeforeAnswer
  BY DEF LibraryInv
<1>2. QED  BY <1>1, LibraryInvariant, PTL

(* No import and no update replaces what was saved, or its creation.       *)
THEOREM SavedProfilesAreKept == LibrarySpec => SavedProfileIsKept
<1> DEFINE Kept1 == \A i \in ProfileIds : profiles[i] # Missing =>
                        /\ profiles'[i].created = profiles[i].created
                        /\ profiles'[i].content = Yaml => profiles[i].content = Yaml
<1>1. LibraryInv /\ [LibraryNext]_libraryVars => [Kept1]_libraryVars
  BY LibraryNextKeeps DEF RowsKept
<1>2. QED  BY <1>1, LibraryInvariant, PTL DEF LibrarySpec, SavedProfileIsKept

-------------------------------------------------------------------------------
(* RecordingAssets.                                                        *)

Assets == [stored: BOOLEAN, status: RunStates, sum: Contents]
TableRows == [shown: ShownStates, stored: BOOLEAN, published: BOOLEAN, sum: Contents]
AssetRequests ==
    [pc: {"idle", "create", "link", "start", "find", "run", "hash", "select", "insert",
          "current", "write", "recording", "reread"},
     op: {"none", "launch", "publish", "list"}, run: AssetRuns \union {NoRun}, auto: BOOLEAN,
     of: SourceRuns \union {NoRun}, seen: RunStates, sum: Contents, row: TableRows,
     next: ShownStates, asset: Assets]

RequestTypeOK ==
    /\ request \in [AssetThreads -> AssetRequests]
    /\ told \in [SourceRuns -> SUBSET Assets]
    /\ alone \in [by: AssetThreads \union {NoThread}, run: SourceRuns \union {NoRun},
                  row: TableRows]

(* A row says that its run is published only when the asset is there; an   *)
(* asset of a COMPLETED run has the hash that its file will always have.   *)
Honest(row, r) ==
    row.published \/ row.shown = "published_asset_available" => recordings[r].stored
WholeAsset(asset, r) ==
    asset.status = "COMPLETED" => runs[r] = "COMPLETED" /\ asset.sum = recorder_file[r]

TablesInv ==
    \A r \in SourceRuns :
        /\ told[r] \subseteq {recordings[r]} /\ (told[r] # {} => recordings[r].stored)
        /\ WholeAsset(recordings[r], r)
        /\ Honest(materializations[r], r)

(* What a thread has read stays true of what it has read it from.          *)
ThreadInv(q) ==
    LET r == q.run IN
    /\ q.op = "none" => q.pc = "idle"
    /\ q.op = "launch" =>
            /\ r \in AssetRuns /\ q.pc \in {"create", "link", "start"}
            /\ r \in ReplayRunIds => q.of \in SourceRuns
    /\ q.op = "publish" =>
            /\ r \in SourceRuns
            /\ q.pc \in {"find", "run", "hash", "select", "insert", "current", "write"}
            /\ q.seen = "COMPLETED" => runs[r] = "COMPLETED"
            /\ q.pc = "select" /\ q.seen = "COMPLETED" => q.sum = recorder_file[r]
            /\ q.pc = "insert" => q.asset.stored /\ WholeAsset(q.asset, r)
            /\ q.pc \in {"current", "write"} => recordings[r].stored /\ q.asset = recordings[r]
            /\ q.pc = "write" => q.row.stored /\ Honest(q.row, r)
    /\ q.op = "list" =>
            /\ r \in SourceRuns
            /\ q.pc \in {"recording", "run", "current", "write", "reread"}
            /\ materializations[r].stored /\ q.row.stored /\ Honest(q.row, r)
            /\ q.pc \in {"current", "write"} /\ Publishes(q) => recordings[r].stored

(* A listing that was alone so far has read what is there.                 *)
RowIsTrue(row, r) ==
    LET published == recordings[r].stored IN
    /\ row.published = published
    /\ published => row.shown = "published_asset_available" /\ row.sum = recorder_file[r]
    /\ ~published => /\ row.shown = NextShown(runs[r], row.shown)
                     /\ row.shown # "published_asset_available"

ListingInv(q) ==
    LET r == q.run IN
    /\ q.op = "list"
    /\ q.pc # "reread" => q.row = materializations[r]
    /\ q.pc = "run" => ~recordings[r].stored
    /\ q.pc \in {"current", "write"} =>
        IF recordings[r].stored THEN Publishes(q) /\ q.sum = recorder_file[r]
        ELSE q.next = NextShown(runs[r], q.next) /\ ~Publishes(q)
    /\ q.pc = "reread" => RowIsTrue(materializations[r], r)

AloneInv ==
    /\ alone.run # NoRun => alone.by = NoThread /\ RowIsTrue(alone.row, alone.run)
    /\ alone.by # NoThread => ListingInv(request[alone.by])

ThreadsInv == \A t \in AssetThreads : ThreadInv(request[t])

AssetInv == AssetTypeOK /\ RequestTypeOK /\ TablesInv /\ ThreadsInv /\ AloneInv

(* What no step takes back: a stored asset, a stored row, a COMPLETED run  *)
(* and its file.                                                           *)
Settled ==
    \A r \in SourceRuns :
        /\ recordings[r].stored => recordings'[r] = recordings[r]
        /\ materializations[r].stored => materializations'[r].stored
        /\ runs[r] = "COMPLETED" => /\ runs'[r] = "COMPLETED"
                                    /\ recorder_file'[r] = recorder_file[r]

LEMMA AssetShapes ==
    /\ NoAsset \in Assets /\ NoRow \in TableRows /\ NoRequest \in AssetRequests
    /\ \A auto_start \in BOOLEAN : NewRow(auto_start) \in TableRows
<1>1. NoAsset \in Assets
  BY DEF NoAsset, Assets, RunStates, Contents
<1>2. NoRow \in TableRows
  BY DEF NoRow, TableRows, ShownStates, Contents
<1>3. NoRequest \in AssetRequests
  <2> HIDE DEF NoRow, NoAsset
  <2>1. QED
    BY <1>1, <1>2 DEF NoRequest, AssetRequests, RunStates, ShownStates, Contents
<1>4. ASSUME NEW auto_start \in BOOLEAN PROVE NewRow(auto_start) \in TableRows
  BY DEF NewRow, NoRow, TableRows, ShownStates, Contents
<1>5. QED  BY <1>1, <1>2, <1>3, <1>4

LEMMA AssetTypes ==
    AssetTypeOK <=> /\ runs \in [AssetRuns -> RunStates]
                    /\ recorder_file \in [AssetRuns -> Contents]
                    /\ recordings \in [SourceRuns -> Assets]
                    /\ materializations \in [SourceRuns -> TableRows]
                    /\ replay_runs \in [ReplayRunIds -> SourceRuns \union {NoRun}]
  BY DEF AssetTypeOK, Assets, TableRows

LEMMA AssetTypesNext ==
    AssetTypeOK' <=> /\ runs' \in [AssetRuns -> RunStates]
                     /\ recorder_file' \in [AssetRuns -> Contents]
                     /\ recordings' \in [SourceRuns -> Assets]
                     /\ materializations' \in [SourceRuns -> TableRows]
                     /\ replay_runs' \in [ReplayRunIds -> SourceRuns \union {NoRun}]
  BY DEF AssetTypeOK, Assets, TableRows

LEMMA OthersStand ==
    ASSUME AssetInv, Settled, NEW s \in AssetThreads, request'[s] = request[s]
    PROVE  ThreadInv(request[s])'
<1> DEFINE q == request[s]
<1>1. q \in AssetRequests /\ ThreadInv(q)
  BY DEF AssetInv, RequestTypeOK, ThreadsInv
<1>2. CASE q.op = "none"
  BY <1>1, <1>2 DEF ThreadInv
<1>3. CASE q.op = "launch"
  BY <1>1, <1>3 DEF ThreadInv
<1>4. CASE q.op = "publish"
  BY <1>1, <1>4 DEF ThreadInv, Settled, WholeAsset, Honest
<1>5. CASE q.op = "list"
  BY <1>1, <1>5 DEF ThreadInv, Settled, Honest, Publishes
<1>6. QED  BY <1>1, <1>2, <1>3, <1>4, <1>5 DEF AssetRequests

(* What is left to show of a step of thread t.                             *)
LEMMA ThreadSteps ==
    ASSUME AssetInv, Settled, AssetTypeOK', TablesInv', AloneInv',
           NEW t \in AssetThreads, NEW q \in AssetRequests,
           request' = [request EXCEPT ![t] = q], ThreadInv(request[t])',
           told' \in [SourceRuns -> SUBSET Assets],
           alone' \in [by: AssetThreads \union {NoThread}, run: SourceRuns \union {NoRun},
                       row: TableRows]
    PROVE  AssetInv'
<1>1. request \in [AssetThreads -> AssetRequests]
  BY DEF AssetInv, RequestTypeOK
<1>2. RequestTypeOK'
  BY <1>1 DEF RequestTypeOK
<1>3. ASSUME NEW s \in AssetThreads PROVE ThreadInv(request[s])'
  <2>1. CASE s = t
    BY <2>1
  <2>2. CASE s # t
    BY <1>1, <2>2, OthersStand
  <2>3. QED  BY <2>1, <2>2
<1>4. ThreadsInv'
  BY <1>3 DEF ThreadsInv
<1>5. QED  BY <1>2, <1>4 DEF AssetInv

LEMMA AloneGoesOn ==
    ASSUME AssetInv, NEW t \in AssetThreads, NEW q \in AssetRequests, Continue(t, q),
           alone.by = t => ListingInv(request[t])'
    PROVE  /\ AloneInv'
           /\ told' = told
           /\ alone' \in [by: AssetThreads \union {NoThread}, run: SourceRuns \union {NoRun},
                          row: TableRows]
<1> USE DEF AssetInv, RequestTypeOK, Continue
<1>1. t # NoThread
  BY AssetConstants
<1>2. CASE alone.by = t
  BY <1>1, <1>2 DEF AloneInv
<1>3. CASE alone.by # t
  BY <1>3, AssetShapes DEF AloneInv, NoListing
<1>4. QED  BY <1>2, <1>3

LEMMA AnswerSteps ==
    ASSUME AssetInv, NEW t \in AssetThreads, NEW asset \in Assets,
           request[t].run \in SourceRuns, AnswerAsset(t, asset)
    PROVE  /\ AloneInv'
           /\ told' \in [SourceRuns -> SUBSET Assets]
           /\ told' = [told EXCEPT ![request[t].run] = @ \union {asset}]
           /\ alone' \in [by: AssetThreads \union {NoThread}, run: SourceRuns \union {NoRun},
                          row: TableRows]
           /\ ThreadInv(request[t])'
  BY AssetShapes
  DEF AssetInv, RequestTypeOK, AnswerAsset, AloneInv, NoListing, ThreadInv, NoRequest

LEMMA TablesUntouched ==
    ASSUME AssetInv, UNCHANGED <<runState, tables>>
    PROVE  /\ AssetTypeOK' /\ Settled
           /\ UNCHANGED told => TablesInv'
           /\ \A asset : \A r \in SourceRuns :
                 recordings[r].stored /\ asset = recordings[r]
                    /\ told' = [told EXCEPT ![r] = @ \union {asset}] => TablesInv'
<1> USE DEF runState, tables, AssetInv
<1>1. AssetTypeOK' /\ Settled
  BY AssetTypes, AssetTypesNext DEF Settled
<1>2. ASSUME UNCHANGED told PROVE TablesInv'
  BY <1>2 DEF TablesInv, WholeAsset, Honest
<1>3. ASSUME NEW r \in SourceRuns, NEW asset, recordings[r].stored, asset = recordings[r],
             told' = [told EXCEPT ![r] = @ \union {asset}]
      PROVE  TablesInv'
  BY <1>3 DEF TablesInv, WholeAsset, Honest, RequestTypeOK
<1>4. QED  BY <1>1, <1>2, <1>3

LEMMA LocalsChange ==
    ASSUME AssetInv, UNCHANGED <<runState, tables>>, NEW t \in AssetThreads,
           NEW q \in AssetRequests, Continue(t, q), ThreadInv(q),
           alone.by = t => ListingInv(q)
    PROVE  AssetInv'
<1>1. request'[t] = q
  BY DEF AssetInv, RequestTypeOK, Continue
<1>2. ThreadInv(request[t])'
  BY <1>1 DEF ThreadInv, WholeAsset, Honest, Publishes, runState, tables
<1>3. alone.by = t => ListingInv(request[t])'
  BY <1>1 DEF ListingInv, RowIsTrue, Publishes, NextShown, runState, tables
<1>4. /\ AloneInv' /\ told' = told
      /\ alone' \in [by: AssetThreads \union {NoThread}, run: SourceRuns \union {NoRun},
                     row: TableRows]
  BY <1>3, AloneGoesOn
<1>5. told' \in [SourceRuns -> SUBSET Assets]
  BY <1>4 DEF AssetInv, RequestTypeOK
<1>6. QED  BY <1>2, <1>4, <1>5, TablesUntouched, ThreadSteps DEF Continue

LEMMA LocalsOf ==
    ASSUME AssetInv, NEW t \in AssetThreads
    PROVE  /\ request[t] \in AssetRequests /\ ThreadInv(request[t])
           /\ alone.by = t => ListingInv(request[t])
           /\ request[t].op = "publish" => alone.by # t
           /\ request[t].op = "launch" => alone.by # t
  BY AssetConstants DEF AssetInv, RequestTypeOK, ThreadsInv, AloneInv, ListingInv

LEMMA RequestEnds ==
    ASSUME AssetInv, UNCHANGED <<runState, tables>>, NEW t \in AssetThreads,
           EndRequest(t), request[t].op # "list"
    PROVE  AssetInv'
<1>1. NoRequest \in AssetRequests /\ ThreadInv(NoRequest)
  BY AssetShapes DEF ThreadInv, NoRequest
<1>2. alone.by # t
  BY LocalsOf DEF ListingInv
<1>3. QED  BY <1>1, <1>2, LocalsChange DEF EndRequest

LEMMA PublicationAnswers ==
    ASSUME AssetInv, UNCHANGED <<runState, tables>>, NEW t \in AssetThreads,
           request[t].run \in SourceRuns, recordings[request[t].run].stored,
           AnswerAsset(t, recordings[request[t].run])
    PROVE  AssetInv'
<1>1. recordings[request[t].run] \in Assets
  BY AssetTypes DEF AssetInv
<1>2. /\ AloneInv'
      /\ told' \in [SourceRuns -> SUBSET Assets]
      /\ told' = [told EXCEPT ![request[t].run] = @ \union {recordings[request[t].run]}]
      /\ alone' \in [by: AssetThreads \union {NoThread}, run: SourceRuns \union {NoRun},
                     row: TableRows]
      /\ ThreadInv(request[t])'
  BY <1>1, AnswerSteps
<1>3. AssetTypeOK' /\ Settled /\ TablesInv'
  BY <1>2, TablesUntouched
<1>4. QED  BY <1>2, <1>3, AssetShapes, ThreadSteps DEF AnswerAsset

LEMMA FindPublishedKeeps ==
    ASSUME AssetInv, NEW t \in AssetThreads, FindPublished(t)
    PROVE  AssetInv'
<1> USE DEF FindPublished, At
<1>1. /\ request[t] \in AssetRequests /\ ThreadInv(request[t]) /\ alone.by # t
      /\ request[t].run \in SourceRuns
  BY LocalsOf DEF ThreadInv
<1>2. CASE recordings[request[t].run].stored
  BY <1>1, <1>2, PublicationAnswers
<1>3. CASE ~recordings[request[t].run].stored
  <2> DEFINE q == [request[t] EXCEPT !.pc = "run"]
  <2>1. q \in AssetRequests
    BY <1>1 DEF AssetRequests
  <2>2. ThreadInv(q)
    BY <1>1 DEF ThreadInv, AssetRequests
  <2>3. Continue(t, q)
    BY <1>3 DEF AssetGoto
  <2> HIDE DEF q
  <2>4. QED  BY <1>1, <2>1, <2>2, <2>3, LocalsChange
<1>4. QED  BY <1>2, <1>3

LEMMA ReadPublishedRunKeeps ==
    ASSUME AssetInv, NEW t \in AssetThreads, ReadPublishedRun(t)
    PROVE  AssetInv'
<1> USE DEF ReadPublishedRun, At
<1> DEFINE q == [request[t] EXCEPT !.pc = "hash", !.seen = runs[request[t].run]]
<1>1. /\ request[t] \in AssetRequests /\ ThreadInv(request[t]) /\ alone.by # t
      /\ request[t].run \in SourceRuns
  BY LocalsOf DEF ThreadInv
<1>2. runs[request[t].run] \in RunStates
  BY <1>1, AssetTypes DEF AssetInv, AssetRuns
<1>3. q \in AssetRequests
  BY <1>1, <1>2 DEF AssetRequests
<1>4. ThreadInv(q)
  BY <1>1 DEF ThreadInv, AssetRequests
<1>5. Continue(t, q)
  OBVIOUS
<1> HIDE DEF q
<1>6. QED  BY <1>1, <1>3, <1>4, <1>5, LocalsChange

LEMMA HashRecorderFileKeeps ==
    ASSUME AssetInv, NEW t \in AssetThreads, HashRecorderFile(t)
    PROVE  AssetInv'
<1> USE DEF HashRecorderFile, At
<1> DEFINE r == request[t].run
           q == [request[t] EXCEPT !.pc = "select", !.sum = recorder_file[r]]
<1>1. /\ request[t] \in AssetRequests /\ ThreadInv(request[t]) /\ alone.by # t
      /\ r \in SourceRuns
  BY LocalsOf DEF ThreadInv
<1>2. CASE recorder_file[r] = "absent"
  BY <1>1, <1>2, RequestEnds
<1>3. CASE recorder_file[r] # "absent"
  <2>1. recorder_file[r] \in Contents
    BY <1>1, AssetTypes DEF AssetInv, AssetRuns
  <2>2. q \in AssetRequests
    BY <1>1, <2>1 DEF AssetRequests
  <2>3. ThreadInv(q)
    BY <1>1 DEF ThreadInv, AssetRequests
  <2>4. Continue(t, q)
    BY <1>3
  <2> HIDE DEF q
  <2>5. QED  BY <1>1, <2>2, <2>3, <2>4, LocalsChange
<1>4. QED  BY <1>2, <1>3

LEMMA SelectAssetKeeps ==
    ASSUME AssetInv, NEW t \in AssetThreads, SelectAsset(t)
    PROVE  AssetInv'
<1> USE DEF SelectAsset, At
<1> DEFINE r == request[t].run
           found == recordings[r].stored
           asset == IF found THEN recordings[r]
                    ELSE Asset(StatusOfAsset(request[t]), request[t].sum)
           q == [request[t] EXCEPT !.pc = IF found THEN "current" ELSE "insert",
                                   !.seen = "none",
                                   !.next = "published_asset_available",
                                   !.asset = asset]
<1>1. /\ request[t] \in AssetRequests /\ ThreadInv(request[t]) /\ alone.by # t
      /\ r \in SourceRuns
  BY LocalsOf DEF ThreadInv
<1>2. asset \in Assets
  BY <1>1, AssetTypes DEF AssetInv, Asset, StatusOfAsset, Assets, AssetRequests
<1>3. ~found => asset.stored /\ WholeAsset(asset, r)
  BY <1>1 DEF ThreadInv, WholeAsset, Asset, StatusOfAsset
<1>4. found => asset = recordings[r]
  OBVIOUS
<1>5. Continue(t, q)
  OBVIOUS
<1> HIDE DEF asset
<1>6. q \in AssetRequests
  BY <1>1, <1>2 DEF AssetRequests, RunStates, ShownStates
<1>7. ThreadInv(q)
  <2>1. /\ q.op = "publish" /\ q.run = r /\ q.seen = "none" /\ q.asset = asset
        /\ q.pc = IF found THEN "current" ELSE "insert"
    BY <1>1 DEF AssetRequests
  <2> HIDE DEF q
  <2>2. QED  BY <1>1, <1>3, <1>4, <2>1 DEF ThreadInv
<1> HIDE DEF q
<1>8. QED  BY <1>1, <1>5, <1>6, <1>7, LocalsChange

LEMMA ReadCurrentRowKeeps ==
    ASSUME AssetInv, NEW t \in AssetThreads, ReadCurrentRow(t)
    PROVE  AssetInv'
<1> USE DEF ReadCurrentRow
<1> DEFINE r == request[t].run
           row == materializations[r]
           q == [request[t] EXCEPT !.pc = "write", !.row = row]
<1>1. /\ request[t] \in AssetRequests /\ ThreadInv(request[t])
      /\ alone.by = t => ListingInv(request[t])
      /\ request[t].op \in {"publish", "list"} /\ r \in SourceRuns
  BY LocalsOf DEF ThreadInv, AssetRequests
<1>2. row \in TableRows /\ Honest(row, r)
  BY <1>1, AssetTypes DEF AssetInv, TablesInv
<1>3. CASE row.stored
  <2>1. q \in AssetRequests
    BY <1>1, <1>2 DEF AssetRequests
  <2>2. /\ q.op = request[t].op /\ q.run = r /\ q.seen = request[t].seen /\ q.row = row
        /\ q.pc = "write" /\ q.asset = request[t].asset /\ q.next = request[t].next
        /\ q.sum = request[t].sum
    BY <1>1 DEF AssetRequests
  <2>3. Continue(t, q)
    BY <1>3
  <2> HIDE DEF q, row
  <2>4. ThreadInv(q)
    BY <1>1, <1>2, <1>3, <2>2 DEF ThreadInv, Publishes, row
  <2>5. alone.by = t => ListingInv(q)
    BY <1>1, <2>2 DEF ListingInv, Publishes, row
  <2>6. QED  BY <2>1, <2>3, <2>4, <2>5, LocalsChange
<1>4. CASE ~row.stored
  <2>1. /\ request[t].op = "publish" /\ recordings[r].stored
        /\ request[t].asset = recordings[r]
    BY <1>1, <1>4 DEF ThreadInv
  <2>2. QED  BY <1>1, <1>4, <2>1, PublicationAnswers
<1>5. QED  BY <1>3, <1>4

LEMMA FindRecordingKeeps ==
    ASSUME AssetInv, NEW t \in AssetThreads, FindRecording(t)
    PROVE  AssetInv'
<1> USE DEF FindRecording, At
<1> DEFINE r == request[t].run
           p == [request[t] EXCEPT !.pc = "run"]
           q == [request[t] EXCEPT !.pc = "current", !.sum = recorder_file[r],
                                   !.next = "published_asset_available"]
<1>1. /\ request[t] \in AssetRequests /\ ThreadInv(request[t])
      /\ alone.by = t => ListingInv(request[t])
      /\ r \in SourceRuns
  BY LocalsOf DEF ThreadInv
<1>2. recorder_file[r] \in Contents
  BY <1>1, AssetTypes DEF AssetInv, AssetRuns
<1>3. CASE recordings[r].stored
  <2>1. q \in AssetRequests
    BY <1>1, <1>2 DEF AssetRequests, ShownStates
  <2>2. /\ q.op = "list" /\ q.run = r /\ q.row = request[t].row /\ q.pc = "current"
        /\ q.next = "published_asset_available" /\ q.sum = recorder_file[r]
    BY <1>1 DEF AssetRequests
  <2>3. Continue(t, q)
    BY <1>3
  <2> HIDE DEF q
  <2>4. ThreadInv(q)
    BY <1>1, <1>3, <2>2 DEF ThreadInv
  <2>5. alone.by = t => ListingInv(q)
    BY <1>1, <1>3, <2>2 DEF ListingInv, Publishes
  <2>6. QED  BY <2>1, <2>3, <2>4, <2>5, LocalsChange
<1>4. CASE ~recordings[r].stored
  <2>1. p \in AssetRequests
    BY <1>1 DEF AssetRequests
  <2>2. /\ p.op = "list" /\ p.run = r /\ p.row = request[t].row /\ p.pc = "run"
    BY <1>1 DEF AssetRequests
  <2>3. Continue(t, p)
    BY <1>4 DEF AssetGoto
  <2> HIDE DEF p
  <2>4. ThreadInv(p)
    BY <1>1, <2>2 DEF ThreadInv
  <2>5. alone.by = t => ListingInv(p)
    BY <1>1, <1>4, <2>2 DEF ListingInv
  <2>6. QED  BY <2>1, <2>3, <2>4, <2>5, LocalsChange
<1>5. QED  BY <1>3, <1>4

LEMMA ReadListedRunKeeps ==
    ASSUME AssetInv, NEW t \in AssetThreads, ReadListedRun(t)
    PROVE  AssetInv'
<1> USE DEF ReadListedRun, At
<1> DEFINE r == request[t].run
           row == request[t].row
           next == NextShown(runs[r], row.shown)
           q == [request[t] EXCEPT !.pc = "current", !.next = next]
<1>1. /\ request[t] \in AssetRequests /\ ThreadInv(request[t])
      /\ alone.by = t => ListingInv(request[t])
      /\ r \in SourceRuns /\ row \in TableRows /\ runs[r] \in RunStates
  BY LocalsOf, AssetTypes DEF ThreadInv, AssetRequests, AssetInv, AssetRuns
<1>2. /\ next \in ShownStates /\ next = NextShown(runs[r], next)
      /\ next = "published_asset_available" => row.shown = "published_asset_available"
  BY <1>1 DEF NextShown, ShownStates, TableRows, RunStates
<1>3. row.shown = "published_asset_available" => recordings[r].stored
  BY <1>1 DEF ThreadInv, Honest
<1>4. CASE Continue(t, q)
  <2> HIDE DEF next
  <2>1. q \in AssetRequests
    BY <1>1, <1>2 DEF AssetRequests
  <2>2. q.op = "list" /\ q.run = r /\ q.row = row /\ q.pc = "current" /\ q.next = next
    BY <1>1 DEF AssetRequests
  <2>3. ThreadInv(q)
    <3> HIDE DEF q
    <3>1. QED  BY <1>1, <1>2, <1>3, <2>2 DEF ThreadInv, Publishes
  <2>4. alone.by = t => ListingInv(q)
    <3> HIDE DEF q
    <3>1. QED  BY <1>1, <1>2, <1>3, <2>2 DEF ListingInv, Publishes
  <2> HIDE DEF q
  <2>5. QED  BY <1>4, <2>1, <2>3, <2>4, LocalsChange
<1>5. CASE next = row.shown /\ AnswerRow(t, row)
  <2>1. alone.by = t => RowIsTrue(row, r)
    <3>1. SUFFICES ASSUME alone.by = t PROVE RowIsTrue(row, r)
      OBVIOUS
    <3>2. ~recordings[r].stored /\ row = materializations[r]
      BY <1>1, <3>1 DEF ListingInv
    <3>3. Honest(row, r)
      BY <1>1 DEF ThreadInv
    <3>4. recordings[r].stored \in BOOLEAN
      BY <1>1, AssetTypes DEF AssetInv, Assets
    <3>5. QED  BY <1>1, <1>5, <3>2, <3>3, <3>4 DEF RowIsTrue, Honest, TableRows
  <2>2. /\ AloneInv'
        /\ alone' \in [by: AssetThreads \union {NoThread}, run: SourceRuns \union {NoRun},
                       row: TableRows]
    BY <1>1, <1>5, <2>1, AssetShapes
    DEF AnswerRow, AloneInv, NoListing, RowIsTrue, runState, tables, NextShown
  <2>3. AssetTypeOK' /\ Settled /\ TablesInv'
    BY <1>5, TablesUntouched DEF AnswerRow
  <2>4. ThreadInv(request[t])' /\ told' \in [SourceRuns -> SUBSET Assets]
    BY <1>5 DEF AnswerRow, ThreadInv, NoRequest, AssetInv, RequestTypeOK
  <2>5. QED  BY <1>5, <2>2, <2>3, <2>4, ThreadSteps, AssetShapes DEF AnswerRow
<1>6. QED  BY <1>4, <1>5

LEMMA RereadRowKeeps ==
    ASSUME AssetInv, NEW t \in AssetThreads, RereadRow(t)
    PROVE  AssetInv'
<1> USE DEF RereadRow
<1> DEFINE r == request[t].run
           row == materializations[r]
<1>1. /\ request[t] \in AssetRequests /\ ThreadInv(request[t])
      /\ alone.by = t => ListingInv(request[t])
      /\ r \in SourceRuns
  BY LocalsOf DEF ThreadInv, AssetRequests
<1>2. row \in TableRows
  BY <1>1, AssetTypes DEF AssetInv
<1>3. alone.by = t => RowIsTrue(row, r)
  BY <1>1 DEF ListingInv
<1>4. /\ AloneInv'
      /\ alone' \in [by: AssetThreads \union {NoThread}, run: SourceRuns \union {NoRun},
                     row: TableRows]
  BY <1>1, <1>2, <1>3, AssetShapes
  DEF AnswerRow, AloneInv, NoListing, RowIsTrue, runState, tables, NextShown
<1>5. AssetTypeOK' /\ Settled /\ TablesInv'
  BY TablesUntouched DEF AnswerRow
<1>6. ThreadInv(request[t])' /\ told' \in [SourceRuns -> SUBSET Assets]
  BY DEF AnswerRow, ThreadInv, NoRequest, AssetInv, RequestTypeOK
<1>7. QED  BY <1>4, <1>5, <1>6, ThreadSteps, AssetShapes DEF AnswerRow

LEMMA CreateAssetRunKeeps ==
    ASSUME AssetInv, NEW t \in AssetThreads, CreateAssetRun(t)
    PROVE  AssetInv'
<1> USE DEF CreateAssetRun, At, tables
<1> DEFINE q == [request[t] EXCEPT !.pc = "link"]
<1>1. /\ request[t] \in AssetRequests /\ ThreadInv(request[t]) /\ alone.by # t
      /\ request[t].run \in AssetRuns
  BY LocalsOf DEF ThreadInv
<1>2. q \in AssetRequests
  BY <1>1 DEF AssetRequests
<1>3. Continue(t, q)
  BY DEF AssetGoto
<1>4. ThreadInv(request[t])'
  <2>1. request'[t] = q
    BY <1>3 DEF Continue, AssetInv, RequestTypeOK
  <2>2. QED  BY <1>1, <2>1 DEF ThreadInv, AssetRequests
<1> HIDE DEF q
<1>5. /\ AloneInv' /\ told' = told
      /\ alone' \in [by: AssetThreads \union {NoThread}, run: SourceRuns \union {NoRun},
                     row: TableRows]
  BY <1>1, <1>2, <1>3, AloneGoesOn
<1>6. AssetTypeOK'
  BY AssetTypes, AssetTypesNext DEF AssetInv, RunStates
<1>7. Settled
  BY <1>1, AssetTypes DEF Settled, AssetInv, AssetRuns
<1>8. TablesInv'
  BY <1>1, <1>5, AssetTypes DEF TablesInv, WholeAsset, Honest, AssetInv, AssetRuns
<1>9. told' \in [SourceRuns -> SUBSET Assets]
  BY <1>5 DEF AssetInv, RequestTypeOK
<1>10. QED  BY <1>2, <1>3, <1>4, <1>5, <1>6, <1>7, <1>8, <1>9, ThreadSteps DEF Continue

LEMMA LinkRunKeeps ==
    ASSUME AssetInv, NEW t \in AssetThreads, LinkRun(t)
    PROVE  AssetInv'
<1> USE DEF LinkRun, At, runState
<1> DEFINE r == request[t].run
           q == IF request[t].auto THEN [request[t] EXCEPT !.pc = "start"] ELSE NoRequest
<1>1. /\ request[t] \in AssetRequests /\ ThreadInv(request[t]) /\ alone.by # t
      /\ r \in AssetRuns /\ (r \in ReplayRunIds => request[t].of \in SourceRuns)
  BY LocalsOf DEF ThreadInv
<1>2. q \in AssetRequests
  BY <1>1, AssetShapes DEF AssetRequests
<1>3. Continue(t, q)
  BY DEF AssetGoto, EndRequest
<1>4. ThreadInv(request[t])'
  <2>1. request'[t] = q
    BY <1>3 DEF Continue, AssetInv, RequestTypeOK
  <2>2. QED  BY <1>1, <2>1 DEF ThreadInv, AssetRequests, NoRequest
<1> HIDE DEF q
<1>5. /\ AloneInv' /\ told' = told
      /\ alone' \in [by: AssetThreads \union {NoThread}, run: SourceRuns \union {NoRun},
                     row: TableRows]
  BY <1>1, <1>2, <1>3, AloneGoesOn
<1>6. NewRow(request[t].auto) \in TableRows /\ NewRow(request[t].auto).stored
  BY <1>1, AssetShapes DEF AssetRequests, NewRow, NoRow
<1>7. ~NewRow(request[t].auto).published
      /\ NewRow(request[t].auto).shown # "published_asset_available"
  BY DEF NewRow, NoRow
<1>8. AssetTypeOK'
  BY <1>1, <1>6, AssetTypes, AssetTypesNext DEF AssetInv, AssetRuns
<1>9. Settled
  BY <1>6, AssetTypes DEF Settled, AssetInv
<1>10. TablesInv'
  BY <1>5, <1>7, AssetTypes DEF TablesInv, WholeAsset, Honest, AssetInv
<1>11. told' \in [SourceRuns -> SUBSET Assets]
  BY <1>5 DEF AssetInv, RequestTypeOK
<1>12. QED  BY <1>2, <1>3, <1>4, <1>5, <1>8, <1>9, <1>10, <1>11, ThreadSteps DEF Continue

LEMMA StartAssetRunKeeps ==
    ASSUME AssetInv, NEW t \in AssetThreads, StartAssetRun(t)
    PROVE  AssetInv'
<1> USE DEF StartAssetRun, At, tables, EndRequest
<1>1. /\ request[t] \in AssetRequests /\ ThreadInv(request[t]) /\ alone.by # t
      /\ request[t].run \in AssetRuns
  BY LocalsOf DEF ThreadInv
<1>2. Continue(t, NoRequest) /\ NoRequest \in AssetRequests
  BY AssetShapes
<1>3. ThreadInv(request[t])'
  BY <1>2 DEF Continue, AssetInv, RequestTypeOK, ThreadInv, NoRequest
<1>4. /\ AloneInv' /\ told' = told
      /\ alone' \in [by: AssetThreads \union {NoThread}, run: SourceRuns \union {NoRun},
                     row: TableRows]
  BY <1>1, <1>2, AloneGoesOn
<1>5. AssetTypeOK'
  BY AssetTypes, AssetTypesNext DEF AssetInv, RunStates
<1>6. Settled
  BY <1>1, AssetTypes DEF Settled, AssetInv, AssetRuns
<1>7. TablesInv'
  BY <1>1, <1>4, AssetTypes DEF TablesInv, WholeAsset, Honest, AssetInv, AssetRuns
<1>8. told' \in [SourceRuns -> SUBSET Assets]
  BY <1>4 DEF AssetInv, RequestTypeOK
<1>9. QED  BY <1>2, <1>3, <1>4, <1>5, <1>6, <1>7, <1>8, ThreadSteps DEF Continue

LEMMA InsertAssetKeeps ==
    ASSUME AssetInv, NEW t \in AssetThreads, InsertAsset(t)
    PROVE  AssetInv'
<1> USE DEF InsertAsset, At, AlreadyStored
<1> DEFINE r == request[t].run
           asset == request[t].asset
           q == [request[t] EXCEPT !.pc = "current"]
<1>1. /\ request[t] \in AssetRequests /\ ThreadInv(request[t]) /\ alone.by # t
      /\ r \in SourceRuns /\ asset \in Assets /\ asset.stored /\ WholeAsset(asset, r)
  BY LocalsOf DEF ThreadInv, AssetRequests
<1>2. CASE recordings[r].stored
  BY <1>1, <1>2, RequestEnds DEF tables
<1>3. CASE ~recordings[r].stored
  <2> USE DEF runState
  <2>1. q \in AssetRequests
    BY <1>1 DEF AssetRequests
  <2>2. Continue(t, q)
    BY <1>3 DEF AssetGoto
  <2>3. recordings' = [recordings EXCEPT ![r] = asset]
    BY <1>3
  <2>4. request'[t] = q /\ recordings'[r] = asset
    BY <1>1, <2>2, <2>3, AssetTypes DEF Continue, AssetInv, RequestTypeOK
  <2>5. ThreadInv(request[t])'
    BY <1>1, <2>4 DEF ThreadInv, AssetRequests
  <2> HIDE DEF q
  <2>6. /\ AloneInv' /\ told' = told
        /\ alone' \in [by: AssetThreads \union {NoThread}, run: SourceRuns \union {NoRun},
                       row: TableRows]
    BY <1>1, <2>1, <2>2, AloneGoesOn
  <2>7. AssetTypeOK'
    BY <1>1, <2>3, AssetTypes, AssetTypesNext DEF AssetInv
  <2>8. Settled
    BY <1>3, <2>3, AssetTypes DEF Settled, AssetInv
  <2>9. ASSUME NEW s \in SourceRuns
        PROVE  /\ told'[s] \subseteq {recordings'[s]}
               /\ told'[s] # {} => recordings'[s].stored
               /\ WholeAsset(recordings[s], s)'
               /\ Honest(materializations[s], s)'
    <3>1. CASE s = r
      <4>1. told[s] = {}
        BY <1>3, <3>1 DEF AssetInv, TablesInv
      <4>2. QED  BY <1>1, <2>4, <2>6, <3>1, <4>1 DEF WholeAsset, Honest
    <3>2. CASE s # r
      BY <2>3, <2>6, <3>2, AssetTypes DEF AssetInv, TablesInv, WholeAsset, Honest
    <3>3. QED  BY <3>1, <3>2
  <2>10. TablesInv'
    BY <2>9 DEF TablesInv
  <2>11. told' \in [SourceRuns -> SUBSET Assets]
    BY <2>6 DEF AssetInv, RequestTypeOK
  <2>12. QED
    BY <2>1, <2>2, <2>5, <2>6, <2>7, <2>8, <2>10, <2>11, ThreadSteps DEF Continue
<1>4. QED  BY <1>2, <1>3

LEMMA WriteRowKeeps ==
    ASSUME AssetInv, NEW t \in AssetThreads, WriteRow(t)
    PROVE  AssetInv'
<1> USE DEF WriteRow, runState
<1> DEFINE r == request[t].run
           row == UpdatedRow(request[t])
           q == [request[t] EXCEPT !.pc = "reread"]
<1>1. /\ request[t] \in AssetRequests /\ ThreadInv(request[t])
      /\ alone.by = t => ListingInv(request[t])
      /\ request[t].op \in {"publish", "list"} /\ r \in SourceRuns
      /\ request[t].row \in TableRows /\ request[t].row.stored /\ Honest(request[t].row, r)
  BY LocalsOf DEF ThreadInv, AssetRequests
<1>2. /\ row \in TableRows /\ row.stored = request[t].row.stored
      /\ row.shown = request[t].next
      /\ row.published = (request[t].row.published \/ Publishes(request[t]))
      /\ row.sum = IF Publishes(request[t]) THEN request[t].sum ELSE request[t].row.sum
  BY <1>1 DEF UpdatedRow, TableRows, Publishes, NewHash, AssetRequests
<1>3. materializations' = [materializations EXCEPT ![r] = row]
  OBVIOUS
<1>4. request[t].op = "publish" => recordings[r].stored
                                   /\ request[t].asset = recordings[r]
  BY <1>1 DEF ThreadInv
<1>5. Publishes(request[t]) => recordings[r].stored
  BY <1>1, <1>4 DEF ThreadInv
<1>6. row.published \/ row.shown = "published_asset_available" => recordings[r].stored
  BY <1>1, <1>2, <1>5 DEF Honest, Publishes
<1>7. recordings[r] \in Assets /\ recordings[r].stored \in BOOLEAN
  BY <1>1, AssetTypes DEF AssetInv, Assets
<1>8. alone.by = t => RowIsTrue(row, r)
  <2>1. SUFFICES ASSUME alone.by = t PROVE RowIsTrue(row, r)
    OBVIOUS
  <2>2. IF recordings[r].stored
        THEN Publishes(request[t]) /\ request[t].sum = recorder_file[r]
        ELSE request[t].next = NextShown(runs[r], request[t].next)
             /\ ~Publishes(request[t])
    BY <1>1, <2>1 DEF ListingInv
  <2> HIDE DEF row
  <2>3. QED  BY <1>1, <1>2, <1>6, <1>7, <2>2 DEF RowIsTrue, Publishes, TableRows
<1> HIDE DEF row
<1>9. AssetTypeOK' /\ Settled
  BY <1>1, <1>2, <1>3, AssetTypes, AssetTypesNext DEF AssetInv, Settled
<1>10. \A s \in SourceRuns : Honest(materializations[s], s)'
  BY <1>3, <1>6, AssetTypes DEF AssetInv, TablesInv, Honest
<1>11. CASE request[t].op = "list"
  <2>1. Continue(t, q)
    BY <1>11 DEF AssetGoto
  <2>2. q \in AssetRequests
    BY <1>1 DEF AssetRequests
  <2>3. q.op = "list" /\ q.run = r /\ q.pc = "reread" /\ q.row = request[t].row
    BY <1>1, <1>11 DEF AssetRequests
  <2>4. request'[t] = q
    BY <2>1 DEF Continue, AssetInv, RequestTypeOK
  <2> HIDE DEF q
  <2>5. materializations'[r] = row
    BY <1>1, <1>3, AssetTypes DEF AssetInv
  <2>6. ThreadInv(request[t])'
    BY <1>1, <1>2, <2>3, <2>4, <2>5 DEF ThreadInv, Honest
  <2>7. alone.by = t => ListingInv(request[t])'
    BY <1>8, <2>3, <2>4, <2>5 DEF ListingInv, RowIsTrue, NextShown
  <2>8. /\ AloneInv' /\ told' = told
        /\ alone' \in [by: AssetThreads \union {NoThread}, run: SourceRuns \union {NoRun},
                       row: TableRows]
    BY <2>1, <2>2, <2>7, AloneGoesOn
  <2>9. TablesInv'
    BY <1>10, <2>8 DEF AssetInv, TablesInv, WholeAsset
  <2>10. told' \in [SourceRuns -> SUBSET Assets]
    BY <2>8 DEF AssetInv, RequestTypeOK
  <2>11. QED
    BY <1>9, <2>1, <2>2, <2>6, <2>8, <2>9, <2>10, ThreadSteps DEF Continue
<1>12. CASE request[t].op = "publish"
  <2>1. AnswerAsset(t, recordings[r])
    BY <1>4, <1>12
  <2>2. /\ AloneInv'
        /\ told' \in [SourceRuns -> SUBSET Assets]
        /\ told' = [told EXCEPT ![r] = @ \union {recordings[r]}]
        /\ alone' \in [by: AssetThreads \union {NoThread}, run: SourceRuns \union {NoRun},
                       row: TableRows]
        /\ ThreadInv(request[t])'
    BY <1>1, <1>7, <2>1, AnswerSteps
  <2>3. TablesInv'
    BY <1>4, <1>10, <1>12, <2>2 DEF AssetInv, TablesInv, WholeAsset, RequestTypeOK
  <2>4. QED  BY <1>9, <2>1, <2>2, <2>3, AssetShapes, ThreadSteps DEF AnswerAsset
<1>13. QED  BY <1>1, <1>11, <1>12

(* A request begins: a listing is alone until somebody else makes a step.  *)
LEMMA RequestsBegin ==
    ASSUME AssetInv, NEW t \in AssetThreads, NEW q \in AssetRequests, BeginRequest(t, q),
           ThreadInv(q), q.op = "list" => ListingInv(q)
    PROVE  AssetInv'
<1> USE DEF BeginRequest
<1>1. request'[t] = q
  BY DEF AssetInv, RequestTypeOK
<1>2. ThreadInv(request[t])'
  BY <1>1 DEF ThreadInv, WholeAsset, Honest, Publishes, runState, tables
<1>3. alone' = [by |-> IF q.op = "list" THEN t ELSE NoThread, run |-> NoRun, row |-> NoRow]
  BY DEF NoListing
<1>4. AloneInv'
  BY <1>1, <1>3 DEF AloneInv, ListingInv, RowIsTrue, Publishes, NextShown, runState, tables
<1>5. told' \in [SourceRuns -> SUBSET Assets]
  BY DEF AssetInv, RequestTypeOK
<1>6. PICK by \in AssetThreads \union {NoThread} :
          alone' = [by |-> by, run |-> NoRun, row |-> NoRow]
  <2>1. CASE q.op = "list"
    BY <1>3, <2>1
  <2>2. CASE q.op # "list"
    BY <1>3, <2>2
  <2>3. QED  BY <2>1, <2>2
<1>7. alone' \in [by: AssetThreads \union {NoThread}, run: SourceRuns \union {NoRun},
                 row: TableRows]
  <2>1. NoRow \in TableRows
    BY AssetShapes
  <2>2. [by |-> by, run |-> NoRun, row |-> NoRow]
            \in [by: AssetThreads \union {NoThread}, run: SourceRuns \union {NoRun},
                row: TableRows]
    BY <2>1
  <2>3. QED  BY <1>6, <2>2
<1>8. QED  BY <1>2, <1>4, <1>5, <1>7, TablesUntouched, ThreadSteps

LEMMA BeginningsKeep ==
    ASSUME AssetInv, NEW t \in AssetThreads, NEW r \in SourceRuns, NEW auto_start \in BOOLEAN,
           \/ PublishFromRun(t, r) \/ ListMaterialization(t, r)
           \/ LaunchSourceRecording(t, r, auto_start)
           \/ \E s \in ReplayRunIds : LaunchScenarioRecording(t, s, r, auto_start)
    PROVE  AssetInv'
<1>1. r \in AssetRuns
  BY DEF AssetRuns
<1>2. CASE PublishFromRun(t, r)
  <2> DEFINE q == [NoRequest EXCEPT !.op = "publish", !.pc = "find", !.run = r]
  <2>1. q \in AssetRequests
    BY <1>1, AssetShapes DEF AssetRequests
  <2>2. ThreadInv(q) /\ q.op # "list"
    BY DEF ThreadInv, NoRequest
  <2>3. BeginRequest(t, q)
    BY <1>2 DEF PublishFromRun
  <2> HIDE DEF q
  <2>4. QED  BY <2>1, <2>2, <2>3, RequestsBegin
<1>3. CASE ListMaterialization(t, r)
  <2> DEFINE row == materializations[r]
             q == [NoRequest EXCEPT !.op = "list", !.pc = "recording", !.run = r, !.row = row]
  <2>1. row \in TableRows /\ Honest(row, r) /\ row.stored
    BY <1>3, AssetTypes DEF AssetInv, TablesInv, ListMaterialization
  <2>2. q \in AssetRequests
    BY <1>1, <2>1, AssetShapes DEF AssetRequests
  <2>3. ThreadInv(q) /\ ListingInv(q)
    BY <2>1 DEF ThreadInv, ListingInv, NoRequest
  <2>4. BeginRequest(t, q)
    BY <1>3 DEF ListMaterialization
  <2> HIDE DEF q, row
  <2>5. QED  BY <2>2, <2>3, <2>4, RequestsBegin
<1>4. CASE LaunchSourceRecording(t, r, auto_start)
  <2> DEFINE q == [NoRequest EXCEPT !.op = "launch", !.pc = "create", !.run = r,
                                    !.auto = auto_start]
  <2>1. q \in AssetRequests
    BY <1>1, AssetShapes DEF AssetRequests
  <2>2. ThreadInv(q) /\ q.op # "list"
    BY <1>1, AssetConstants DEF ThreadInv, NoRequest
  <2>3. BeginRequest(t, q)
    BY <1>4 DEF LaunchSourceRecording
  <2> HIDE DEF q
  <2>4. QED  BY <2>1, <2>2, <2>3, RequestsBegin
<1>5. ASSUME NEW s \in ReplayRunIds, LaunchScenarioRecording(t, s, r, auto_start)
      PROVE  AssetInv'
  <2> DEFINE q == [NoRequest EXCEPT !.op = "launch", !.pc = "create", !.run = s, !.of = r,
                                    !.auto = auto_start]
  <2>1. q \in AssetRequests
    BY AssetShapes DEF AssetRequests, AssetRuns
  <2>2. ThreadInv(q) /\ q.op # "list"
    BY DEF ThreadInv, NoRequest, AssetRuns
  <2>3. BeginRequest(t, q)
    BY <1>5 DEF LaunchScenarioRecording
  <2> HIDE DEF q
  <2>4. QED  BY <2>1, <2>2, <2>3, RequestsBegin
<1>6. QED  BY <1>2, <1>3, <1>4, <1>5

(* The steps of the runs: they take nothing back, and end every listing    *)
(* that was alone.                                                         *)
LEMMA RunsGoOn ==
    ASSUME AssetInv, Settled, UNCHANGED <<tables, request, told>>, alone' = NoListing,
           runs' \in [AssetRuns -> RunStates], recorder_file' \in [AssetRuns -> Contents]
    PROVE  AssetInv'
<1> USE DEF tables
<1>1. AssetTypeOK' /\ RequestTypeOK'
  BY AssetTypes, AssetTypesNext, AssetShapes DEF AssetInv, RequestTypeOK, NoListing
<1>2. TablesInv'
  BY DEF AssetInv, TablesInv, Settled, WholeAsset, Honest
<1>3. ThreadsInv'
  <2>1. ASSUME NEW s \in AssetThreads PROVE ThreadInv(request[s])'
    BY OthersStand
  <2>2. QED  BY <2>1 DEF ThreadsInv
<1>4. AloneInv'
  BY DEF AloneInv, NoListing
<1>5. QED  BY <1>1, <1>2, <1>3, <1>4 DEF AssetInv

LEMMA RunStepsKeep ==
    ASSUME AssetInv, NEW r \in AssetRuns,
           \/ ClientStarts(r) \/ RunBegins(r) \/ RunIsStopped(r) \/ RunCompletes(r)
           \/ RunFails(r) \/ RecorderCloses(r)
    PROVE  AssetInv'
<1> USE DEF RunEnters, RunSteps
<1>1. runs \in [AssetRuns -> RunStates] /\ recorder_file \in [AssetRuns -> Contents]
  BY AssetTypes DEF AssetInv
<1>2. UNCHANGED <<tables, request, told>> /\ alone' = NoListing
  BY DEF ClientStarts, RunBegins, RunIsStopped, RunCompletes, RunFails, RecorderCloses
<1>3. runs' \in [AssetRuns -> RunStates] /\ recorder_file' \in [AssetRuns -> Contents]
  BY <1>1 DEF ClientStarts, RunBegins, RunIsStopped, RunCompletes, RunFails, RecorderCloses,
              RunStates, Contents
<1>4. \A s \in AssetRuns : runs[s] = "COMPLETED" =>
          runs'[s] = "COMPLETED" /\ recorder_file'[s] = recorder_file[s]
  BY <1>1 DEF ClientStarts, RunBegins, RunIsStopped, RunCompletes, RunFails, RecorderCloses
<1>5. Settled
  BY <1>2, <1>4 DEF Settled, tables, AssetRuns
<1>6. QED  BY <1>2, <1>3, <1>5, RunsGoOn

LEMMA AssetRestartKeeps == AssetInv /\ AssetApiRestart => AssetInv'
<1> SUFFICES ASSUME AssetInv, AssetApiRestart PROVE AssetInv'
  OBVIOUS
<1> USE DEF AssetApiRestart
<1>1. AssetTypeOK' /\ TablesInv'
  BY TablesUntouched
<1>2. RequestTypeOK'
  BY AssetShapes DEF AssetInv, RequestTypeOK, NoListing
<1>3. ThreadsInv'
  BY DEF ThreadsInv, ThreadInv, NoRequest
<1>4. AloneInv'
  BY DEF AloneInv, NoListing
<1>5. QED  BY <1>1, <1>2, <1>3, <1>4 DEF AssetInv

LEMMA AssetsStart == AssetInit => AssetInv
<1> SUFFICES ASSUME AssetInit PROVE AssetInv
  OBVIOUS
<1> USE DEF AssetInit
<1>1. AssetTypeOK
  BY AssetShapes, AssetTypes DEF RunStates, Contents
<1>2. RequestTypeOK
  BY AssetShapes DEF RequestTypeOK, NoListing
<1>3. TablesInv
  BY DEF TablesInv, WholeAsset, Honest, NoAsset, NoRow
<1>4. ThreadsInv
  BY DEF ThreadsInv, ThreadInv, NoRequest
<1>5. AloneInv
  BY DEF AloneInv, NoListing
<1>6. QED  BY <1>1, <1>2, <1>3, <1>4, <1>5 DEF AssetInv

LEMMA AssetStepKeeps == AssetInv /\ [AssetNext]_assetVars => AssetInv'
<1> SUFFICES ASSUME AssetInv, [AssetNext]_assetVars PROVE AssetInv'
  OBVIOUS
<1>1. ASSUME NEW t \in AssetThreads, RequestStep(t) PROVE AssetInv'
  BY <1>1, CreateAssetRunKeeps, LinkRunKeeps, StartAssetRunKeeps, FindPublishedKeeps,
     ReadPublishedRunKeeps, HashRecorderFileKeeps, SelectAssetKeeps, InsertAssetKeeps,
     ReadCurrentRowKeeps, WriteRowKeeps, RereadRowKeeps, FindRecordingKeeps,
     ReadListedRunKeeps
  DEF RequestStep
<1>2. ASSUME NEW t \in AssetThreads, NEW r \in SourceRuns,
             PublishFromRun(t, r) \/ ListMaterialization(t, r)
      PROVE  AssetInv'
  BY <1>2, BeginningsKeep
<1>3. ASSUME NEW t \in AssetThreads, NEW r \in SourceRuns, NEW auto_start \in BOOLEAN,
             \/ LaunchSourceRecording(t, r, auto_start)
             \/ \E s \in ReplayRunIds : LaunchScenarioRecording(t, s, r, auto_start)
      PROVE  AssetInv'
  BY <1>3, BeginningsKeep
<1>4. ASSUME NEW r \in AssetRuns, ClientStarts(r) PROVE AssetInv'
  BY <1>4, RunStepsKeep
<1>5. ASSUME NEW r \in SourceRuns,
             \/ RunBegins(r) \/ RunIsStopped(r) \/ RunCompletes(r) \/ RunFails(r)
             \/ RecorderCloses(r)
      PROVE  AssetInv'
  BY <1>5, RunStepsKeep DEF AssetRuns
<1>6. CASE AssetApiRestart
  BY <1>6, AssetRestartKeeps
<1>7. CASE UNCHANGED assetVars
  <2>1. AssetTypeOK' /\ TablesInv'
    BY <1>7, TablesUntouched DEF assetVars, runState, tables
  <2>2. RequestTypeOK'
    BY <1>7 DEF AssetInv, RequestTypeOK, assetVars
  <2>3. ThreadsInv'
    BY <1>7 DEF AssetInv, ThreadsInv, ThreadInv, WholeAsset, Honest, Publishes, assetVars
  <2>4. AloneInv'
    BY <1>7
    DEF AssetInv, AloneInv, ListingInv, RowIsTrue, Publishes, NextShown, assetVars
  <2>5. QED  BY <2>1, <2>2, <2>3, <2>4 DEF AssetInv
<1>8. QED
  BY <1>1, <1>2, <1>3, <1>4, <1>5, <1>6, <1>7 DEF AssetNext

(* Every state of the three tables satisfies the invariant.                *)
THEOREM AssetInvariant == AssetSpec => []AssetInv
<1>1. AssetInit => AssetInv
  BY AssetsStart
<1>2. AssetInv /\ [AssetNext]_assetVars => AssetInv'
  BY AssetStepKeeps
<1>3. QED  BY <1>1, <1>2, PTL DEF AssetSpec

(* The tables hold what their columns may hold.                            *)
THEOREM AssetTypeCorrect == AssetSpec => []AssetTypeOK
<1>1. AssetInv => AssetTypeOK
  BY DEF AssetInv
<1>2. QED  BY <1>1, AssetInvariant, PTL

(* Whoever was told that a run is published was told of the asset that is  *)
(* stored, and that stays stored: however many publications of the run     *)
(* race, and whatever the restarts of the server interrupt.                *)
THEOREM AnswersAreStored == AssetSpec => []AnsweredAssetIsStored
<1>1. AssetInv => AnsweredAssetIsStored
  BY DEF AssetInv, TablesInv, AnsweredAssetIsStored
<1>2. QED  BY <1>1, AssetInvariant, PTL

(* An asset that calls its run COMPLETED has the hash of the finished      *)
(* file: its publication read the status before it read the file.          *)
THEOREM CompletedAssetsAreWhole == AssetSpec => []CompletedAssetIsWhole
<1>1. AssetInv => CompletedAssetIsWhole
  BY DEF AssetInv, TablesInv, WholeAsset, CompletedAssetIsWhole
<1>2. QED  BY <1>1, AssetInvariant, PTL

(* A listing that nobody interrupts answers what the tables and the run    *)
(* say, whatever overlapping requests have left in its row.                *)
THEOREM QuietListingsAreTrue == AssetSpec => []QuietListingIsTrue
<1>1. AssetInv => QuietListingIsTrue
  BY DEF AssetInv, AloneInv, RowIsTrue, QuietListingIsTrue
<1>2. QED  BY <1>1, AssetInvariant, PTL

-------------------------------------------------------------------------------
(* DocumentFile.  A document that is replaced (atomic_write_json) is whole *)
(* at every moment, for any number of writers, killed at any point.        *)

(* What a writer has written so far is its own: its temporary file holds   *)
(* the first blocks of its version and nothing else.                       *)
OwnTemp ==
    \A w \in Writers :
        /\ wr[w].pc = "open" => wr[w].pos = 0
        /\ wr[w].pc = "write" => disk[w] = Blocks(wr[w].ver, wr[w].pos)

(* The version in the document and those being written have been issued,   *)
(* so that the size of none of them changes any more.                      *)
DocIssued == \E v \in 1 .. issued : disk[Doc] = Blocks(v, size[v])
WrIssued == \A w \in Writers : wr[w].ver <= issued

DocumentInv == TypeOK /\ OwnTemp /\ DocIssued /\ WrIssued

LEMMA BlocksSeq ==
    ASSUME NEW v \in Versions, NEW n \in Nat
    PROVE  /\ Blocks(v, n) \in Seq(Versions \union {Hole})
           /\ Len(Blocks(v, n)) = n
BY DEF Blocks, Versions, Hole

LEMMA PutSeq ==
    ASSUME NEW f \in Seq(Versions \union {Hole}), NEW n \in Nat \ {0}, NEW v \in Versions
    PROVE  Put(f, n, v) \in Seq(Versions \union {Hole})
BY DEF Put

(* The next block put after the first ones makes one more of them.         *)
LEMMA PutNext ==
    ASSUME NEW v \in Versions, NEW n \in Nat
    PROVE  Put(Blocks(v, n), n + 1, v) = Blocks(v, n + 1)
<1>1. Len(Blocks(v, n)) = n
  BY BlocksSeq
<1>. QED
  BY <1>1 DEF Put, Blocks

LEMMA PathType == \A w \in Writers : PathOf(w) \in Paths
BY DEF PathOf, TempOf, Paths

LEMMA InitTypeOK == Init => TypeOK
<1>. SUFFICES ASSUME Init PROVE TypeOK
  OBVIOUS
<1>1. 1 \in Versions /\ 1 \in Nat
  BY ConstantsAssumption DEF Versions
<1>2. Blocks(1, 1) \in Seq(Versions \union {Hole})
  BY <1>1, BlocksSeq
<1>. QED
  BY <1>1, <1>2, ConstantsAssumption DEF Init, TypeOK, Idle, Versions

LEMMA NextTypeOK == TypeOK /\ [Next]_vars => TypeOK'
<1>. SUFFICES ASSUME TypeOK, [Next]_vars PROVE TypeOK'
  OBVIOUS
<1>1. CASE UNCHANGED vars
  BY <1>1 DEF TypeOK, vars
<1>2. ASSUME NEW w \in Writers, NEW n \in 1 .. MaxBlocks, Begin(w, n) PROVE TypeOK'
  <2>1. issued' \in Versions /\ issued' # issued
    BY <1>2, ConstantsAssumption DEF Begin, TypeOK, Versions
  <2>2. size' \in [Versions -> 1 .. MaxBlocks]
    BY <1>2 DEF Begin, TypeOK
  <2>. QED
    BY <1>2, <2>1, <2>2, ConstantsAssumption DEF Begin, TypeOK
<1>3. ASSUME NEW w \in Writers, Open(w) PROVE TypeOK'
  <2>1. disk' \in [Paths -> Seq(Versions \union {Hole})]
    <3>1. disk' = [disk EXCEPT ![PathOf(w)] = <<>>]
      BY <1>3 DEF Open
    <3>2. <<>> \in Seq(Versions \union {Hole})
      OBVIOUS
    <3>. QED
      BY <3>1, <3>2 DEF TypeOK
  <2>2. wr' \in [Writers -> [pc: {"idle", "open", "write"}, ver: Versions, pos: 0 .. MaxBlocks]]
    BY <1>3 DEF Open, TypeOK
  <2>. QED
    BY <1>3, <2>1, <2>2 DEF Open, TypeOK
<1>4. ASSUME NEW w \in Writers, Dump(w) PROVE TypeOK'
  <2>1. Put(disk[PathOf(w)], wr[w].pos + 1, wr[w].ver) \in Seq(Versions \union {Hole})
    <3>1. /\ disk[PathOf(w)] \in Seq(Versions \union {Hole})
          /\ wr[w].pos + 1 \in Nat \ {0} /\ wr[w].ver \in Versions
      BY PathType DEF TypeOK
    <3>. QED
      BY <3>1, PutSeq
  <2>2. disk' \in [Paths -> Seq(Versions \union {Hole})]
    BY <1>4, <2>1 DEF Dump, TypeOK
  <2>3. wr' \in [Writers -> [pc: {"idle", "open", "write"}, ver: Versions, pos: 0 .. MaxBlocks]]
    <3>1. wr[w] \in [pc: {"idle", "open", "write"}, ver: Versions, pos: 0 .. MaxBlocks]
      BY DEF TypeOK
    <3>2. wr[w].pos < size[wr[w].ver] /\ size[wr[w].ver] \in 1 .. MaxBlocks
      BY <1>4 DEF Dump, Unwritten, TypeOK
    <3>3. [wr[w] EXCEPT !.pos = @ + 1]
              \in [pc: {"idle", "open", "write"}, ver: Versions, pos: 0 .. MaxBlocks]
      BY <3>1, <3>2, ConstantsAssumption
    <3>. QED
      BY <1>4, <3>3 DEF Dump, TypeOK
  <2>. QED
    BY <1>4, <2>2, <2>3 DEF Dump, TypeOK
<1>5. ASSUME NEW w \in Writers, Close(w) PROVE TypeOK'
  <2>0. disk[PathOf(w)] \in Seq(Versions \union {Hole}) /\ <<>> \in Seq(Versions \union {Hole})
    BY PathType DEF TypeOK
  <2>1. disk' \in [Paths -> Seq(Versions \union {Hole})]
    BY <1>5, <2>0 DEF Close, TypeOK
  <2>2. wr' \in [Writers -> [pc: {"idle", "open", "write"}, ver: Versions, pos: 0 .. MaxBlocks]]
    BY <1>5, ConstantsAssumption DEF Close, TypeOK, Idle, Versions
  <2>. QED
    BY <1>5, <2>1, <2>2 DEF Close, TypeOK
<1>6. ASSUME NEW w \in Writers, Crash(w) PROVE TypeOK'
  BY <1>6, ConstantsAssumption DEF Crash, TypeOK, Idle, Versions
<1>. QED
  BY <1>1, <1>2, <1>3, <1>4, <1>5, <1>6 DEF Next

(* Every reachable state of a document and its writers is well typed,      *)
(* replaced or written in place.                                           *)
THEOREM FileTypeCorrect == Spec => []TypeOK
BY InitTypeOK, NextTypeOK, PTL DEF Spec

LEMMA DocumentsStart == Init => DocumentInv
<1>. SUFFICES ASSUME Init PROVE DocumentInv
  OBVIOUS
<1>1. 1 \in Versions
  BY ConstantsAssumption DEF Versions
<1>2. DocIssued
  BY <1>1 DEF Init, DocIssued, Paths
<1>. QED
  BY <1>1, <1>2, InitTypeOK DEF Init, DocumentInv, OwnTemp, WrIssued, Idle

LEMMA DocumentStepKeeps == Replaces = TRUE /\ DocumentInv /\ [Next]_vars => DocumentInv'
<1>. SUFFICES ASSUME Replaces = TRUE, DocumentInv, [Next]_vars PROVE DocumentInv'
  OBVIOUS
<1>. USE DEF DocumentInv
<1>0. TypeOK' /\ (\A w \in Writers : PathOf(w) = w /\ w # Doc /\ w \in Paths)
  BY NextTypeOK, ConstantsAssumption DEF PathOf, TempOf, Paths
<1>1. CASE UNCHANGED vars
  BY <1>0, <1>1 DEF vars, OwnTemp, DocIssued, WrIssued
<1>2. ASSUME NEW w \in Writers, NEW n \in 1 .. MaxBlocks, Begin(w, n) PROVE DocumentInv'
  <2>1. /\ issued' = issued + 1 /\ issued \in Nat
        /\ \A v \in 1 .. issued : size'[v] = size[v]
    BY <1>2 DEF Begin, TypeOK, Versions
  <2>2. DocIssued'
    BY <1>2, <2>1 DEF DocIssued, Begin
  <2>3. OwnTemp' /\ WrIssued'
    BY <1>2, <2>1 DEF Begin, TypeOK, OwnTemp, WrIssued, Versions
  <2>. QED
    BY <1>0, <2>2, <2>3
<1>3. ASSUME NEW w \in Writers, Open(w) PROVE DocumentInv'
  <2>1. disk' = [disk EXCEPT ![w] = <<>>] /\ disk'[Doc] = disk[Doc]
    <3>1. disk' = [disk EXCEPT ![w] = <<>>]
      BY <1>0, <1>3 DEF Open
    <3>. QED
      BY <1>0, <3>1 DEF TypeOK
  <2>2. DocIssued' /\ WrIssued'
    BY <1>3, <2>1 DEF Open, DocIssued, WrIssued, TypeOK
  <2>3. OwnTemp'
    <3>. SUFFICES ASSUME NEW u \in Writers
                  PROVE  /\ wr'[u].pc = "open" => wr'[u].pos = 0
                         /\ wr'[u].pc = "write" =>
                                disk'[u] = Blocks(wr'[u].ver, wr'[u].pos)
      BY DEF OwnTemp
    <3>1. CASE u # w
      <4>1. wr'[u] = wr[u] /\ disk'[u] = disk[u]
        BY <1>0, <1>3, <2>1, <3>1 DEF Open, TypeOK, Paths
      <4>. QED
        BY <4>1 DEF OwnTemp
    <3>2. CASE u = w
      <4>1. disk'[w] = <<>>
        BY <1>0, <2>1 DEF TypeOK
      <4>2. wr'[w].pos = wr[w].pos
        BY <1>3 DEF Open, TypeOK
      <4>3. wr[w].pos = 0
        BY <1>3 DEF Open, OwnTemp
      <4>4. wr'[w].pc = "write"
        BY <1>3 DEF Open, TypeOK
      <4>. QED
        BY <3>2, <4>1, <4>2, <4>3, <4>4 DEF Blocks
    <3>. QED
      BY <3>1, <3>2
  <2>. QED
    BY <1>0, <2>2, <2>3
<1>4. ASSUME NEW w \in Writers, Dump(w) PROVE DocumentInv'
  <2>0. wr[w].pos \in Nat /\ wr[w].ver \in Versions
    BY ConstantsAssumption DEF TypeOK
  <2>1. /\ disk' = [disk EXCEPT ![w] = Put(@, wr[w].pos + 1, wr[w].ver)]
        /\ wr' = [wr EXCEPT ![w].pos = @ + 1]
        /\ wr[w].pc = "write" /\ wr[w].pos \in Nat /\ wr[w].ver \in Versions
        /\ UNCHANGED <<size, issued>>
    BY <1>0, <1>4, <2>0 DEF Dump
  <2>2. disk'[Doc] = disk[Doc]
    BY <1>0, <2>1 DEF TypeOK
  <2>3. disk'[w] = Blocks(wr[w].ver, wr[w].pos + 1)
    BY <1>0, <2>1, PutNext DEF TypeOK, OwnTemp
  <2>4. DocIssued' /\ WrIssued'
    BY <2>1, <2>2 DEF DocIssued, WrIssued, TypeOK
  <2>5. OwnTemp'
    BY <1>0, <2>1, <2>3 DEF OwnTemp, TypeOK
  <2>. QED
    BY <1>0, <2>4, <2>5
<1>5. ASSUME NEW w \in Writers, Close(w) PROVE DocumentInv'
  <2>1. /\ disk' = [disk EXCEPT ![Doc] = disk[w], ![w] = <<>>]
        /\ wr' = [wr EXCEPT ![w] = Idle]
        /\ wr[w].pc = "write" /\ wr[w].pos = size[wr[w].ver]
        /\ UNCHANGED <<size, issued>>
    BY <1>0, <1>5 DEF Close
  <2>2. disk'[Doc] = Blocks(wr[w].ver, size[wr[w].ver])
    BY <1>0, <2>1 DEF TypeOK, OwnTemp, Paths
  <2>3. wr[w].ver \in 1 .. issued /\ 1 \in 1 .. issued
    BY DEF TypeOK, WrIssued, Versions
  <2>4. DocIssued' /\ WrIssued'
    BY <2>1, <2>2, <2>3 DEF DocIssued, WrIssued, TypeOK, Idle
  <2>5. OwnTemp'
    BY <1>0, <2>1 DEF OwnTemp, TypeOK, Idle
  <2>. QED
    BY <1>0, <2>4, <2>5
<1>6. ASSUME NEW w \in Writers, Crash(w) PROVE DocumentInv'
  <2>1. 1 <= issued
    BY DEF TypeOK, Versions
  <2>. QED
    BY <1>0, <1>6, <2>1 DEF Crash, OwnTemp, DocIssued, WrIssued, TypeOK, Idle
<1>. QED
  BY <1>1, <1>2, <1>3, <1>4, <1>5, <1>6 DEF Next

(* A reader of a replaced document gets one whole version at every moment, *)
(* however many writers save it and wherever they are killed.              *)
THEOREM ReplacedIsAlwaysWhole == Replaces = TRUE => (Spec => []AlwaysWhole)
<1>. SUFFICES ASSUME Replaces = TRUE PROVE Spec => []AlwaysWhole
  OBVIOUS
<1>1. DocumentInv /\ [Next]_vars => DocumentInv'
  BY DocumentStepKeeps
<1>2. DocumentInv => AlwaysWhole
  <2>1. ASSUME DocumentInv, NEW v \in 1 .. issued PROVE v \in Versions
    BY <2>1, ConstantsAssumption DEF DocumentInv, TypeOK, Versions
  <2>. QED
    BY <2>1 DEF DocumentInv, DocIssued, AlwaysWhole, Whole
<1>. QED
  BY DocumentsStart, <1>1, <1>2, PTL DEF Spec

(* What a reader gets is the version whose blocks the document holds.      *)
LEMMA HeldVersion ==
    ASSUME TypeOK, NEW v \in Versions, disk[Doc] = Blocks(v, size[v])
    PROVE  Held = v
<1>1. size[v] \in Nat \ {0}
  BY ConstantsAssumption DEF TypeOK
<1>2. Blocks(v, size[v])[1] = v
  BY <1>1 DEF Blocks
<1>3. AlwaysWhole
  BY DEF AlwaysWhole, Whole
<1>. QED
  BY <1>2, <1>3 DEF Held

LEMMA HeldVersionNext ==
    ASSUME TypeOK', NEW v \in Versions, disk'[Doc] = Blocks(v, size'[v])
    PROVE  Held' = v
<1>1. size'[v] \in Nat \ {0}
  BY ConstantsAssumption DEF TypeOK
<1>2. Blocks(v, size'[v])[1] = v
  BY <1>1 DEF Blocks
<1>3. AlwaysWhole'
  BY DEF AlwaysWhole, Whole
<1>. QED
  BY <1>2, <1>3 DEF Held

(* Whoever leaves the document and the issued versions alone leaves what a *)
(* reader gets.                                                            *)
LEMMA HeldStays ==
    ASSUME DocumentInv, TypeOK', disk'[Doc] = disk[Doc],
           \A v \in 1 .. issued : size'[v] = size[v]
    PROVE  Held' = Held
<1>1. PICK v \in 1 .. issued : disk[Doc] = Blocks(v, size[v])
  BY DEF DocumentInv, DocIssued
<1>2. v \in Versions
  BY <1>1, ConstantsAssumption DEF DocumentInv, TypeOK, Versions
<1>. QED
  BY <1>1, <1>2, HeldVersion, HeldVersionNext DEF DocumentInv

LEMMA DocumentSteps ==
    ASSUME Replaces = TRUE, DocumentInv, [Next]_vars
    PROVE  [Document!Next]_<<Held, Saving, 1 .. issued>>
<1>1. /\ TypeOK /\ TypeOK' /\ issued \in Nat \ {0} /\ issued \in Versions
      /\ \A w \in Writers : PathOf(w) = w /\ w # Doc /\ w \in Paths
  <2>1. TypeOK /\ TypeOK'
    BY NextTypeOK DEF DocumentInv
  <2>2. issued \in Nat \ {0} /\ issued \in Versions
    BY <2>1 DEF TypeOK, Versions
  <2>3. \A w \in Writers : PathOf(w) = w /\ w # Doc /\ w \in Paths
    BY ConstantsAssumption DEF PathOf, TempOf, Paths
  <2>. QED
    BY <2>1, <2>2, <2>3
<1>2. /\ Saving = [w \in Writers |-> Saving[w]] /\ Saving' = [w \in Writers |-> Saving'[w]]
      /\ \A w \in Writers : Saving[w] = IF wr[w].pc = "idle" THEN {} ELSE {wr[w].ver}
      /\ \A w \in Writers : Saving'[w] = IF wr'[w].pc = "idle" THEN {} ELSE {wr'[w].ver}
  BY DEF Saving
<1>3. CASE UNCHANGED vars
  <2>1. Held' = Held
    BY <1>1, <1>3, HeldStays DEF vars
  <2>. QED
    BY <1>3, <2>1 DEF vars, Saving
<1>4. ASSUME NEW w \in Writers, NEW n \in 1 .. MaxBlocks, Begin(w, n)
      PROVE  Document!Next
  <2>1. /\ issued' = issued + 1 /\ disk' = disk /\ \A v \in 1 .. issued : size'[v] = size[v]
    BY <1>1, <1>4 DEF Begin, TypeOK, Versions
  <2>2. Held' = Held
    BY <1>1, <2>1, HeldStays
  <2>3. /\ 1 .. issued' = (1 .. issued) \union {issued'} /\ issued' \in Versions \ (1 .. issued)
    BY <1>1, <2>1 DEF TypeOK, Versions
  <2>4. /\ wr[w].pc = "idle" /\ wr'[w].pc = "open" /\ wr'[w].ver = issued'
        /\ \A u \in Writers \ {w} : wr'[u] = wr[u]
    BY <1>1, <1>4 DEF Begin, TypeOK
  <2>5. Saving[w] = {} /\ Saving' = [Saving EXCEPT ![w] = {issued'}]
    <3>1. \A u \in Writers \ {w} : Saving'[u] = Saving[u]
      BY <1>2, <2>4
    <3>2. Saving[w] = {} /\ Saving'[w] = {issued'}
      BY <1>2, <2>4
    <3>. QED
      BY <1>2, <3>1, <3>2
  <2>6. Document!Begin(w)
    BY <2>2, <2>3, <2>5 DEF Document!Begin
  <2>. QED
    BY <2>6 DEF Document!Next
<1>5. ASSUME NEW w \in Writers, Open(w) \/ Dump(w)
      PROVE  UNCHANGED <<Held, Saving, 1 .. issued>>
  <2>1. disk'[Doc] = disk[Doc] /\ size' = size /\ issued' = issued
    <3>1. CASE Open(w)
      BY <1>1, <3>1 DEF Open, TypeOK
    <3>2. CASE Dump(w)
      BY <1>1, <3>2 DEF Dump, TypeOK
    <3>. QED
      BY <1>5, <3>1, <3>2
  <2>2. \A u \in Writers : wr'[u].ver = wr[u].ver /\ (wr'[u].pc = "idle" <=> wr[u].pc = "idle")
    <3>1. CASE Open(w)
      BY <1>1, <3>1 DEF Open, TypeOK
    <3>2. CASE Dump(w)
      BY <1>1, <3>2 DEF Dump, TypeOK
    <3>. QED
      BY <1>5, <3>1, <3>2
  <2>3. Saving' = Saving
    <3>1. \A u \in Writers : Saving'[u] = Saving[u]
      BY <1>2, <2>2
    <3>. QED
      BY <1>2, <3>1
  <2>. QED
    BY <1>1, <2>1, <2>3, HeldStays
<1>6. ASSUME NEW w \in Writers, Close(w) PROVE Document!Next
  <2>1. /\ disk' = [disk EXCEPT ![Doc] = disk[w], ![w] = <<>>]
        /\ wr' = [wr EXCEPT ![w] = Idle]
        /\ wr[w].pc = "write" /\ wr[w].pos = size[wr[w].ver]
        /\ UNCHANGED <<size, issued>>
    BY <1>1, <1>6 DEF Close
  <2>2. disk'[Doc] = Blocks(wr[w].ver, size'[wr[w].ver]) /\ wr[w].ver \in Versions
    BY <1>1, <2>1 DEF TypeOK, DocumentInv, OwnTemp, Paths
  <2>3. Held' = wr[w].ver
    BY <1>1, <2>2, HeldVersionNext
  <2>4. wr'[w].pc = "idle" /\ \A u \in Writers \ {w} : wr'[u] = wr[u]
    BY <1>1, <2>1 DEF TypeOK, Idle
  <2>5. Saving[w] = {wr[w].ver} /\ Saving' = [Saving EXCEPT ![w] = {}]
    <3>1. \A u \in Writers \ {w} : Saving'[u] = Saving[u]
      BY <1>2, <2>4
    <3>2. Saving[w] = {wr[w].ver} /\ Saving'[w] = {}
      BY <1>2, <2>1, <2>4
    <3>. QED
      BY <1>2, <3>1, <3>2
  <2>6. Document!Save(w)
    BY <2>1, <2>3, <2>5 DEF Document!Save
  <2>. QED
    BY <2>6 DEF Document!Next
<1>7. ASSUME NEW w \in Writers, Crash(w) PROVE Document!Next
  <2>1. UNCHANGED <<disk, size, issued>> /\ Held' = Held
    BY <1>1, <1>7, HeldStays DEF Crash
  <2>2. /\ wr[w].pc # "idle" /\ wr'[w].pc = "idle"
        /\ \A u \in Writers \ {w} : wr'[u] = wr[u]
    BY <1>1, <1>7 DEF Crash, TypeOK, Idle
  <2>3. Saving[w] # {} /\ Saving' = [Saving EXCEPT ![w] = {}]
    <3>1. \A u \in Writers \ {w} : Saving'[u] = Saving[u]
      BY <1>2, <2>2
    <3>2. Saving[w] # {} /\ Saving'[w] = {}
      BY <1>2, <2>2
    <3>. QED
      BY <1>2, <3>1, <3>2
  <2>4. Document!GiveUp(w)
    BY <2>1, <2>3 DEF Document!GiveUp
  <2>. QED
    BY <2>4 DEF Document!Next
<1>. QED
  BY <1>3, <1>4, <1>5, <1>6, <1>7 DEF Next

(* A document that is replaced (atomic_write_json) is a register: however  *)
(* many writers save it at once and wherever they are killed, each save    *)
(* takes effect as a whole when its writer replaces the file, in the order *)
(* of the replacements, and a save that was not finished never shows.      *)
THEOREM ReplacedFollowsDocument == Replaces = TRUE => (Spec => FollowsDocument)
<1>. SUFFICES ASSUME Replaces = TRUE PROVE Spec => FollowsDocument
  OBVIOUS
<1>1. Init => Document!Init
  <2>. SUFFICES ASSUME Init PROVE Document!Init
    OBVIOUS
  <2>1. TypeOK /\ issued = 1 /\ 1 \in Versions /\ disk[Doc] = Blocks(1, size[1])
    BY InitTypeOK, ConstantsAssumption DEF Init, Versions, Paths
  <2>2. Held = 1
    BY <2>1, HeldVersion
  <2>3. Saving = [w \in Writers |-> {}]
    BY DEF Init, Saving, Idle
  <2>. QED
    BY <2>1, <2>2, <2>3 DEF Document!Init
<1>2. DocumentInv /\ [Next]_vars => DocumentInv'
  BY DocumentStepKeeps
<1>3. DocumentInv /\ [Next]_vars => [Document!Next]_<<Held, Saving, 1 .. issued>>
  BY DocumentSteps
<1>. QED
  BY DocumentsStart, <1>1, <1>2, <1>3, PTL DEF Spec, FollowsDocument, Document!Spec
===============================================================================
