------------------------------ MODULE MCDeliveries ------------------------------
(***************************************************************************)
(* An instance for TLC of what must be delivered although its senders and  *)
(* receivers may be killed: start commands through the command directory,  *)
(* and the reports of the gateway agent.  The two share no variable; one   *)
(* of them moves at a time.  For the sake of the liveness properties       *)
(* nothing is reduced by symmetry; instead of it the first thread and the  *)
(* first process id that are free are taken, as well as any other.         *)
(***************************************************************************)
EXTENDS CommandQueue

CONSTANTS MaxCaptures, Unsupported, Threads, Pids, MaxFrames, MaxFaults, None

VARIABLES
    part,
    rec, man, th, agent, runtime, proc, frames, lost, agentKills, started, overtaken

Capture == INSTANCE CaptureSync WITH crashes <- agentKills

captureVars ==
    <<rec, man, th, agent, runtime, proc, frames, lost, agentKills, started, overtaken>>

DeliveriesInit == part \in {"commands", "captures"} /\ Init /\ Capture!Init

FirstFree ==
    /\ \A t \in Threads : \A u \in 1 .. t - 1 :
            th[t].pc = "idle" /\ th'[t].pc # "idle" => th[u].pc # "idle"
    /\ \A p \in Pids : \A q \in 1 .. p - 1 :
            proc[p].state = "none" /\ proc'[p].state # "none" => proc[q].state # "none"

DeliveriesNext ==
    \/ part = "commands" /\ Next /\ UNCHANGED <<part, captureVars>>
    \/ part = "captures" /\ Capture!Next /\ FirstFree /\ UNCHANGED <<part, vars>>

DeliveriesSpec ==
    /\ DeliveriesInit /\ [][DeliveriesNext]_<<part, vars, captureVars>>
    /\ \A p \in Producers : WF_vars(part = "commands" /\ ProducerStep(p))
    /\ \A k \in Consumers : WF_vars(part = "commands" /\ ConsumerStep(k))
    /\ \A t \in Threads : WF_captureVars(part = "captures" /\ Capture!ThreadStep(t))
    /\ WF_captureVars(part = "captures" /\ Capture!AgentStep /\ FirstFree)
    /\ \A p \in Pids : WF_captureVars(part = "captures" /\ Capture!ProcessStep(p))

(* A running capture does not run for ever (RunningCaptureEnds of          *)
(* CaptureSync): it completes, fails or is stopped, and the agent of the   *)
(* gateway says so, lost calls and kills notwithstanding.                  *)
RunningCaptureEnds == Capture!RunningCaptureEnds
===============================================================================
