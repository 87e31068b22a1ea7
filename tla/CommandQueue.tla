----------------------------- MODULE CommandQueue -----------------------------
(***************************************************************************)
(* The directory of start commands (FileCommandQueue), at the level of     *)
(* file operations.  API threads create a file <time stamp>_<id>.json and  *)
(* then write it; executors list the directory, claim the oldest entry by  *)
(* renaming it to .processing, read it and unlink it.  A command is named  *)
(* by its time stamp, so that the order of the numbers is the order of the *)
(* file names.                                                             *)
(***************************************************************************)
EXTENDS Naturals, FiniteSets

CONSTANTS
    Producers,      \* API threads
    Consumers,      \* executor processes
    MaxCommands,    \* bound: how many commands are issued
    MaxCrashes      \* bound: how many processes are killed

ASSUME BoundsAssumption == MaxCommands \in Nat /\ MaxCrashes \in Nat

Commands == 1 .. MaxCommands
NoCommand == 0

VARIABLES
    stamp,      \* how many time stamps have been given
    entry,      \* the directory entry of each command
    content,    \* what its file holds; a writer keeps it open over a rename
    prod,       \* program counter and command of each producer
    cons,       \* program counter and locals of each consumer
    crashes,    \* how much of the bound is used
    acked,      \* history: commands whose enqueue_start returned
    returned,   \* history: how often pop_next returned each command
    torn,       \* history: commands that were read before they were written
    orphaned    \* history: commands whose consumer was killed

history == <<acked, returned, torn, orphaned>>
vars == <<stamp, entry, content, prod, cons, crashes, history>>

Init ==
    /\ stamp = 0
    /\ entry = [c \in Commands |-> "absent"]
    /\ content = [c \in Commands |-> "empty"]
    /\ prod = [p \in Producers |-> [pc |-> "idle", cmd |-> NoCommand]]
    /\ cons = [k \in Consumers |-> [pc |-> "poll", cmd |-> NoCommand,
                                    listed |-> {}, tried |-> {}, ok |-> FALSE]]
    /\ crashes = 0
    /\ acked = {} /\ torn = {} /\ orphaned = {}
    /\ returned = [c \in Commands |-> 0]

-------------------------------------------------------------------------------
(* enqueue_start: the time stamp, the open that creates the entry, and the *)
(* write: a command is shorter than the buffer, so its content reaches the *)
(* file in one piece, when the file is closed.                             *)

ProducerAt(p, pc, c) == prod' = [prod EXCEPT ![p] = [pc |-> pc, cmd |-> c]]

Stamp(p) ==
    /\ prod[p].pc = "idle"
    /\ stamp < MaxCommands
    /\ stamp' = stamp + 1
    /\ ProducerAt(p, "open", stamp')
    /\ UNCHANGED <<entry, content, cons, crashes, history>>

NewEntryHidden(c) == entry' = [entry EXCEPT ![c] = "processing"]   \* mutant: wrong suffix
NewEntry(c) == entry' = [entry EXCEPT ![c] = "json"]

Open(p) ==
    /\ prod[p].pc = "open"
    /\ NewEntry(prod[p].cmd)
    /\ ProducerAt(p, "write", prod[p].cmd)
    /\ UNCHANGED <<stamp, content, cons, crashes, history>>

Write(p) ==
    /\ prod[p].pc = "write"
    /\ content' = [content EXCEPT ![prod[p].cmd] = "whole"]
    /\ acked' = acked \union {prod[p].cmd}
    /\ ProducerAt(p, "idle", NoCommand)
    /\ UNCHANGED <<stamp, entry, cons, crashes, returned, torn, orphaned>>

-------------------------------------------------------------------------------
(* pop_next.                                                               *)

Pending == {c \in Commands : entry[c] = "json"}

NextOf(S) == CHOOSE c \in S : \A d \in S : c <= d

(* pop_next returns None when no entry of its listing could be renamed.    *)
Poll(k) ==
    /\ cons[k].pc = "poll"
    /\ Pending # {}
    /\ cons' = [cons EXCEPT ![k] = [pc |-> "claim", cmd |-> NoCommand,
                                    listed |-> Pending, tried |-> {}, ok |-> FALSE]]
    /\ UNCHANGED <<stamp, entry, content, prod, crashes, history>>

Candidate(k) == NextOf(cons[k].listed \ cons[k].tried)

Renamed(c) == entry[c] = "json" /\ entry' = [entry EXCEPT ![c] = "processing"]

Claim(k) ==
    /\ cons[k].pc = "claim"
    /\ cons[k].listed # cons[k].tried
    /\ Renamed(Candidate(k))
    /\ cons' = [cons EXCEPT ![k].pc = "read", ![k].cmd = Candidate(k)]
    /\ UNCHANGED <<stamp, content, prod, crashes, history>>

(* The OSError of the rename: another executor was faster.                 *)
ClaimLost(k) ==
    /\ cons[k].pc = "claim"
    /\ cons[k].listed # cons[k].tried
    /\ entry[Candidate(k)] # "json"
    /\ cons' = [cons EXCEPT ![k].tried = @ \union {Candidate(k)}]
    /\ UNCHANGED <<stamp, entry, content, prod, crashes, history>>

NothingLeft(k) ==
    /\ cons[k].pc = "claim"
    /\ cons[k].listed = cons[k].tried
    /\ cons' = [cons EXCEPT ![k].pc = "poll"]
    /\ UNCHANGED <<stamp, entry, content, prod, crashes, history>>

(* An empty file raises JSONDecodeError; the file is unlinked all the same.*)
ReadClaimed(k) ==
    LET c == cons[k].cmd IN
    /\ cons[k].pc = "read"
    /\ cons' = [cons EXCEPT ![k].pc = "unlink", ![k].ok = (content[c] = "whole")]
    /\ torn' = IF content[c] = "whole" THEN torn ELSE torn \union {c}
    /\ UNCHANGED <<stamp, entry, content, prod, crashes, acked, returned, orphaned>>

KeptAsPending(c) == entry' = [entry EXCEPT ![c] = "json"]   \* mutant: put back, not unlinked
Unlinked(c) == entry' = [entry EXCEPT ![c] = "gone"]

(* The command is returned, or the exception ends the executor.            *)
Finish(k) ==
    /\ cons[k].pc = "unlink"
    /\ Unlinked(cons[k].cmd)
    /\ cons' = [cons EXCEPT ![k].pc = IF cons[k].ok THEN "poll" ELSE "down",
                            ![k].cmd = NoCommand]
    /\ returned' = [returned EXCEPT ![cons[k].cmd] = IF cons[k].ok THEN @ + 1 ELSE @]
    /\ UNCHANGED <<stamp, content, prod, crashes, acked, torn, orphaned>>

-------------------------------------------------------------------------------
(* start_platform.sh kills API servers and executors and starts new ones.  *)

KillProducer(p) ==
    /\ crashes < MaxCrashes
    /\ prod[p].pc # "idle"
    /\ crashes' = crashes + 1
    /\ ProducerAt(p, "idle", NoCommand)
    /\ UNCHANGED <<stamp, entry, content, cons, history>>

KillConsumer(k) ==
    /\ crashes < MaxCrashes
    /\ cons[k].pc # "down"
    /\ crashes' = crashes + 1
    /\ cons' = [cons EXCEPT ![k].pc = "down", ![k].cmd = NoCommand]
    /\ orphaned' = orphaned \union ({cons[k].cmd} \ {NoCommand})
    /\ UNCHANGED <<stamp, entry, content, prod, acked, returned, torn>>

RestartConsumer(k) ==
    /\ cons[k].pc = "down"
    /\ cons' = [cons EXCEPT ![k].pc = "poll"]
    /\ UNCHANGED <<stamp, entry, content, prod, crashes, history>>

-------------------------------------------------------------------------------
ProducerStep(p) == Open(p) \/ Write(p)

ConsumerStep(k) ==
    Poll(k) \/ Claim(k) \/ ClaimLost(k) \/ NothingLeft(k) \/ ReadClaimed(k) \/ Finish(k)

Next ==
    \/ \E p \in Producers : Stamp(p) \/ ProducerStep(p) \/ KillProducer(p)
    \/ \E k \in Consumers : ConsumerStep(k) \/ KillConsumer(k) \/ RestartConsumer(k)

Spec == Init /\ [][Next]_vars

Fairness ==
    /\ \A p \in Producers : WF_vars(ProducerStep(p))
    /\ \A k \in Consumers : WF_vars(ConsumerStep(k))

FairSpec == Spec /\ Fairness
-------------------------------------------------------------------------------
(* Properties.                                                             *)

Held(c) == \E k \in Consumers : cons[k].pc \in {"read", "unlink"} /\ cons[k].cmd = c

TypeOK ==
    /\ stamp \in Commands \union {0}
    /\ entry \in [Commands -> {"absent", "json", "processing", "gone"}]
    /\ content \in [Commands -> {"empty", "whole"}]
    /\ prod \in [Producers -> [pc: {"idle", "open", "write"},
                               cmd: Commands \union {NoCommand}]]
    /\ \A p \in Producers : prod[p].pc # "idle" => prod[p].cmd \in Commands
    /\ cons \in [Consumers -> [pc: {"poll", "claim", "read", "unlink", "down"},
                               cmd: Commands \union {NoCommand},
                               listed: SUBSET Commands, tried: SUBSET Commands,
                               ok: BOOLEAN]]
    /\ \A k \in Consumers : cons[k].pc \in {"read", "unlink"} => cons[k].cmd \in Commands
    /\ \A k \in Consumers : cons[k].tried \subseteq cons[k].listed
    /\ crashes \in Nat
    /\ acked \subseteq Commands /\ torn \subseteq Commands /\ orphaned \subseteq Commands
    /\ returned \in [Commands -> Nat]

(* Executors that compete for the directory never take one command twice,  *)
(* whatever they had listed, and whoever is killed and restarted.          *)
ReturnedAtMostOnce == \A c \in Commands : returned[c] <= 1

(* An enqueued command is in the directory, in an executor's hands or was  *)
(* returned, with two exceptions: it was claimed before it was written, or *)
(* its executor was killed between the claim and the return.               *)
LossIsTornOrOrphaned ==
    \A c \in acked :
        entry[c] = "json" \/ Held(c) \/ returned[c] = 1 \/ c \in torn \union orphaned

(* The executors see a mailbox: its put is the creation of the entry, its  *)
(* take the rename.                                                        *)
Claimed == {c \in Commands : entry[c] \in {"processing", "gone"}}
Box == INSTANCE Mailbox WITH pending <- Pending, taken <- Claimed
ImplementsMailbox == Box!Spec

(* Every command that was enqueued is returned in the end, unless it was   *)
(* torn, its executor was killed, or no executor is left.                  *)
EnqueuedIsReturned ==
    \A c \in Commands :
        c \in acked ~>
            \/ returned[c] = 1 \/ c \in torn \union orphaned
            \/ \A k \in Consumers : cons[k].pc = "down"
===============================================================================
