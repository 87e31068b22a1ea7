---------------------------- MODULE GatewayRegistry ----------------------------
(***************************************************************************)
(* The registry of gateways: the agent on the Raspberry Pi registers,      *)
(* reconciles its capture (CaptureSync) and sends a heartbeat, over and    *)
(* over; the API server keeps one record of the gateway, which every       *)
(* request reads, changes and writes back as a whole, and decides from the *)
(* age of the last heartbeat what it shows of the gateway.                 *)
(* A call that the agent has given up may still be handled.  Time passes   *)
(* in ticks; an age is exact as long as it is not stale.  The copy of the  *)
(* metrics that a heartbeat leaves with its run is left out.               *)
(***************************************************************************)
EXTENDS Naturals

CONSTANTS
    Calls,              \* requests that are handled at a time
    StaleAfter,         \* hil_gateway_stale_seconds, in ticks
    MaxTroubles         \* bound: calls and processes that fail, stores that are lost

ASSUME RegistryConstants == StaleAfter \in Nat /\ MaxTroubles \in Nat

VARIABLES
    gateway,    \* the record of the gateway
    calls,      \* the requests that the API server handles
    sender,     \* program counter and locals of run_agent
    troubles,   \* how many failures there were
    silence,    \* history: age of the last heartbeat that has reached the server
    heard,      \* history: the last heartbeat that was saved
    crossed     \* history: a request has read the record before another one saved it

registryVars == <<gateway, calls, sender, troubles, silence, heard, crossed>>

Never == StaleAfter + 2             \* age of a heartbeat that there was not
Reported == {"READY", "BUSY", "ERROR"}
Ages == 0 .. Never

NoGateway == [stored |-> FALSE, status |-> "UNKNOWN", age |-> Never]
NewGateway == [NoGateway EXCEPT !.stored = TRUE]
NoCall == [pc |-> "none", kind |-> "none", status |-> "UNKNOWN", copy |-> NoGateway]
NotAwaited == "nothing"
FreshAgent == [pc |-> "loop", registered |-> FALSE, awaits |-> NotAwaited]

ASSUME CallsAreNumbered == NotAwaited \notin Calls

(* The record of earlier times may be there when the agent is started.     *)
RegistryInit ==
    /\ gateway \in {NoGateway, [stored |-> TRUE, status |-> "READY", age |-> StaleAfter + 1]}
    /\ calls = [c \in Calls |-> NoCall]
    /\ sender = FreshAgent
    /\ troubles = 0
    /\ silence = gateway.age /\ heard = gateway /\ crossed = FALSE

seen == <<silence, heard, crossed>>

-------------------------------------------------------------------------------
(* run_agent.                                                              *)

Send(kind, status) ==
    \E c \in Calls :
        /\ calls[c] = NoCall
        /\ calls' = [calls EXCEPT ![c] = [NoCall EXCEPT !.pc = "read", !.kind = kind,
                                                        !.status = status]]
        /\ sender' = [sender EXCEPT !.pc = "await", !.awaits = c]

SendRegister ==
    /\ sender.pc = "loop" /\ ~sender.registered
    /\ Send("register", "UNKNOWN")
    /\ UNCHANGED <<gateway, troubles, seen>>

ReconcileCapture ==
    /\ sender.pc = "loop" /\ sender.registered
    /\ sender' = [sender EXCEPT !.pc = "beat"]
    /\ UNCHANGED <<gateway, calls, troubles, seen>>

SendHeartbeat ==
    /\ sender.pc = "beat"
    /\ \E status \in Reported : Send("heartbeat", status)
    /\ UNCHANGED <<gateway, troubles, seen>>

(* Any RuntimeError, be it an answer or the network.                       *)
StillRegistered(registered) == registered    \* mutant: a failure is only logged
RegisterAgain(registered) == FALSE

FailedLoop == [sender EXCEPT !.pc = "loop", !.awaits = NotAwaited,
                             !.registered = RegisterAgain(@)]

TakeAnswer ==
    LET c == sender.awaits IN
    /\ sender.pc = "await" /\ calls[c].pc \in {"done", "failed"}
    /\ calls' = [calls EXCEPT ![c] = NoCall]
    /\ sender' = IF calls[c].pc = "failed" THEN FailedLoop
                 ELSE [sender EXCEPT !.pc = "loop", !.awaits = NotAwaited,
                                     !.registered = TRUE]
    /\ UNCHANGED <<gateway, troubles, seen>>

Trouble == troubles < MaxTroubles /\ troubles' = troubles + 1

(* The server is not reached, or the reconciliation fails.                 *)
AgentFails ==
    /\ Trouble
    /\ sender.pc \in {"loop", "beat"}
    /\ sender' = FailedLoop
    /\ UNCHANGED <<gateway, calls, seen>>

(* An answer that takes too long, or that the end of the server cuts off,  *)
(* is no RuntimeError: it ends the agent.  systemd starts it again.        *)
AgentDies ==
    /\ Trouble
    /\ sender.pc # "dead"
    /\ sender' = [FreshAgent EXCEPT !.pc = "dead"]
    /\ calls' = [c \in Calls |-> IF calls[c].pc \in {"done", "failed"} THEN NoCall
                                 ELSE calls[c]]
    /\ UNCHANGED <<gateway, seen>>

AgentRestarts ==
    /\ sender.pc = "dead"
    /\ sender' = FreshAgent
    /\ UNCHANGED <<gateway, calls, troubles, seen>>

-------------------------------------------------------------------------------
(* The API server: GatewayRegistry and GatewayStore.                       *)

Answer(c, pc) ==
    calls' = [calls EXCEPT ![c] = IF sender.awaits = c THEN [NoCall EXCEPT !.pc = pc]
                                  ELSE NoCall]
Handling(c, copy) == calls' = [calls EXCEPT ![c].pc = "save", ![c].copy = copy]
OthersHandled(c) == \E d \in Calls \ {c} : calls[d].pc = "save"

Afresh(record) == NewGateway                 \* mutant: what was known is not kept
Kept(record) == IF record.stored THEN record ELSE NewGateway

RegisterGateway(c) ==
    /\ calls[c].pc = "read" /\ calls[c].kind = "register"
    /\ Handling(c, Kept(gateway))
    /\ crossed' = (crossed \/ OthersHandled(c))
    /\ UNCHANGED <<gateway, sender, troubles, silence, heard>>

(* A gateway that is not known is answered with 404.                       *)
RecordHeartbeat(c) ==
    /\ calls[c].pc = "read" /\ calls[c].kind = "heartbeat"
    /\ IF gateway.stored
       THEN Handling(c, [stored |-> TRUE, status |-> calls[c].status, age |-> 0])
       ELSE Answer(c, "failed")
    /\ silence' = 0
    /\ crossed' = (crossed \/ OthersHandled(c))
    /\ UNCHANGED <<gateway, sender, troubles, heard>>

(* What requests that have crossed have left behind ends with a heartbeat  *)
(* that is saved while no other request has a copy of the record.          *)
SaveGateway(c) ==
    LET beat == calls[c].kind = "heartbeat" IN
    /\ calls[c].pc = "save"
    /\ gateway' = calls[c].copy
    /\ Answer(c, "done")
    /\ heard' = IF beat THEN calls[c].copy ELSE heard
    /\ crossed' = (crossed /\ ~(beat /\ ~OthersHandled(c)))
    /\ UNCHANGED <<sender, troubles, silence>>

(* The directory of the gateways is emptied.                               *)
RecordIsLost ==
    /\ Trouble
    /\ gateway' = NoGateway
    /\ heard' = NoGateway
    /\ crossed' = (crossed \/ \E c \in Calls : calls[c].pc = "save")
    /\ UNCHANGED <<calls, sender, silence>>

RegistryApiRestart ==
    /\ Trouble
    /\ calls' = [c \in Calls |-> NoCall]
    /\ sender' = IF sender.pc = "await" THEN [FreshAgent EXCEPT !.pc = "dead"] ELSE sender
    /\ UNCHANGED <<gateway, seen>>

Older(age) == IF age > StaleAfter THEN age ELSE age + 1

TickAge ==
    /\ silence' = Older(silence)
    /\ gateway' = [gateway EXCEPT !.age = Older(@)]
    /\ heard' = [heard EXCEPT !.age = Older(@)]
    /\ calls' = [c \in Calls |-> [calls[c] EXCEPT !.copy.age = Older(@)]]
    /\ UNCHANGED <<sender, troubles, crossed>>

-------------------------------------------------------------------------------
(* resolve_gateway_status; reachable: this gateway is the configured Pi,   *)
(* and its SSH port answers.                                               *)

HeartbeatAge(record) == record.age

ShownStatus(record, reachable) ==
    LET age == HeartbeatAge(record) IN
    CASE age = Never -> "OFFLINE"
      [] age <= StaleAfter -> record.status
      [] OTHER -> IF reachable THEN "DEGRADED" ELSE "OFFLINE"

SenderStep ==
    SendRegister \/ ReconcileCapture \/ SendHeartbeat \/ TakeAnswer \/ AgentRestarts
CallStep(c) == RegisterGateway(c) \/ RecordHeartbeat(c) \/ SaveGateway(c)

RegistryNext ==
    \/ SenderStep \/ AgentFails \/ AgentDies
    \/ \E c \in Calls : CallStep(c)
    \/ RecordIsLost \/ RegistryApiRestart \/ TickAge

RegistryFairness ==
    /\ WF_registryVars(SenderStep)
    /\ \A c \in Calls : WF_registryVars(CallStep(c))

RegistrySpec == RegistryInit /\ [][RegistryNext]_registryVars
-------------------------------------------------------------------------------
(* Properties.                                                             *)

GatewayShape == [stored: BOOLEAN, status: Reported \union {"UNKNOWN"}, age: Ages]

RegistryTypeOK ==
    /\ gateway \in GatewayShape /\ heard \in GatewayShape
    /\ calls \in [Calls -> [pc: {"none", "read", "save", "done", "failed"},
                            kind: {"none", "register", "heartbeat"},
                            status: Reported \union {"UNKNOWN"}, copy: GatewayShape]]
    /\ sender \in [pc: {"loop", "await", "beat", "dead"}, registered: BOOLEAN,
                   awaits: Calls \union {NotAwaited}]
    /\ troubles \in 0 .. MaxTroubles
    /\ silence \in Ages /\ crossed \in BOOLEAN

(* Registrations, which an agent repeats after every failure and restart,  *)
(* do not undo a heartbeat: the record is that of the last one, unless     *)
(* requests have crossed since.                                            *)
HeartbeatStands ==
    ~crossed => gateway.status = heard.status /\ gateway.age = heard.age

(* A gateway that has not been heard of for too long is not shown as ready *)
(* or busy, whatever requests are handled late or written back.            *)
SilentGatewayIsOffline ==
    silence > StaleAfter => \A reachable \in BOOLEAN :
        ShownStatus(gateway, reachable) \in {"OFFLINE", "DEGRADED"}

(* Whatever has happened to the agent, to the API server and to the        *)
(* record, the heartbeats of the gateway are recorded again.               *)
GatewayComesBack == []<>(gateway.stored /\ gateway.age # Never)
===============================================================================
