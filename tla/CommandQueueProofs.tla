-------------------------- MODULE CommandQueueProofs --------------------------
(***************************************************************************)
(* The queue directory for any number of API threads and executors, killed *)
(* at any point: it is a mailbox, a command is returned at most once, and  *)
(* it is only lost half-written or with the executor that had claimed it.  *)
(***************************************************************************)
EXTENDS CommandQueue, WellFoundedInduction, TLAPS

ProdType == [pc: {"idle", "open", "write"}, cmd: Commands \union {NoCommand}]
ConsType == [pc: {"poll", "claim", "read", "unlink", "down"},
             cmd: Commands \union {NoCommand},
             listed: SUBSET Commands, tried: SUBSET Commands, ok: BOOLEAN]

Holds(k) == cons[k].pc \in {"read", "unlink"}
Busy(p) == prod[p].pc \in {"open", "write"}

(* A command has a directory entry only after its time stamp was given.    *)
Fresh == \A c \in Commands : c > stamp => entry[c] = "absent" /\ c \notin acked

(* A command is written by the one thread that has stamped it.             *)
OwnCommand ==
    /\ \A p \in Producers :
        Busy(p) => /\ prod[p].cmd \in Commands /\ prod[p].cmd <= stamp
                   /\ prod[p].cmd \notin acked
                   /\ prod[p].pc = "open" => entry[prod[p].cmd] = "absent"
                   /\ prod[p].pc = "write" => entry[prod[p].cmd] # "absent"
    /\ \A p, q \in Producers : Busy(p) /\ Busy(q) /\ prod[p].cmd = prod[q].cmd => p = q

(* A renamed entry belongs to the one executor that has renamed it.        *)
OwnClaim ==
    /\ \A k \in Consumers :
        Holds(k) => cons[k].cmd \in Commands /\ entry[cons[k].cmd] = "processing"
    /\ \A k, l \in Consumers : Holds(k) /\ Holds(l) /\ cons[k].cmd = cons[l].cmd => k = l

Returns == \A c \in Commands : returned[c] \in {0, 1} /\ (returned[c] = 1 => entry[c] = "gone")

(* Where a command is that has left the directory.                         *)
Accounted ==
    /\ \A c \in acked : entry[c] # "absent"
    /\ \A c \in Commands : entry[c] = "processing" => Held(c) \/ c \in orphaned
    /\ \A c \in Commands : entry[c] = "gone" => returned[c] = 1 \/ c \in torn
    /\ \A k \in Consumers : cons[k].pc = "unlink" /\ ~cons[k].ok => cons[k].cmd \in torn

IInv == TypeOK /\ Fresh /\ OwnCommand /\ OwnClaim /\ Returns /\ Accounted

-------------------------------------------------------------------------------
(* The listing of an executor that has untried entries has an oldest one.  *)
LEMMA OldestExists ==
    ASSUME NEW S \in SUBSET Commands, S # {}
    PROVE  NextOf(S) \in S /\ \A d \in S : NextOf(S) <= d
<1>1. S \subseteq Nat
  BY BoundsAssumption DEF Commands
<1>2. PICK c \in S : \A d \in S : <<d, c>> \notin OpToRel(<, Nat)
  BY <1>1, WFMin, NatLessThanWellFounded, Zenon
<1>3. \A d \in S : ~(d < c)
  BY <1>1, <1>2, Zenon DEF OpToRel
<1>4. \A d \in S : c <= d
  BY <1>1, <1>3
<1>. QED
  BY <1>4 DEF NextOf

LEMMA CandidateType ==
    ASSUME TypeOK, NEW k \in Consumers, cons[k].listed # cons[k].tried
    PROVE  Candidate(k) \in Commands /\ Candidate(k) \in cons[k].listed
<1>. DEFINE S == cons[k].listed \ cons[k].tried
<1>1. S \in SUBSET Commands /\ S # {}
  BY DEF TypeOK
<1>. HIDE DEF S
<1>2. NextOf(S) \in S
  BY <1>1, OldestExists
<1>. QED
  BY <1>2, <1>1 DEF Candidate, S

LEMMA InitIInv == Init => IInv
BY BoundsAssumption
   DEF Init, IInv, TypeOK, Fresh, OwnCommand, OwnClaim, Returns, Accounted, Busy, Holds,
       Held, NoCommand

ConsTypeOK ==
    /\ cons \in [Consumers -> ConsType]
    /\ \A k \in Consumers : Holds(k) => cons[k].cmd \in Commands
    /\ \A k \in Consumers : cons[k].tried \subseteq cons[k].listed

LEMMA ConsStepType ==
    ASSUME ConsTypeOK, NEW k \in Consumers, NEW x \in ConsType,
           cons' = [cons EXCEPT ![k] = x],
           x.pc \in {"read", "unlink"} => x.cmd \in Commands,
           x.tried \subseteq x.listed
    PROVE  ConsTypeOK'
BY DEF ConsTypeOK, Holds

(* Only the flag that says whether the command was read is Boolean.        *)
LEMMA ReadType ==
    ASSUME NEW x \in ConsType, NEW b \in BOOLEAN
    PROVE  [x EXCEPT !.pc = "unlink", !.ok = b] \in ConsType
BY DEF ConsType

LEMMA NextTypeOK == TypeOK /\ [Next]_vars => TypeOK'
<1>. SUFFICES ASSUME TypeOK, [Next]_vars PROVE TypeOK'
  OBVIOUS
<1>. USE BoundsAssumption
<1>1. CASE UNCHANGED vars
  BY <1>1 DEF TypeOK, vars, history
<1>2. ASSUME NEW p \in Producers, Stamp(p) PROVE TypeOK'
  BY <1>2 DEF Stamp, TypeOK, ProducerAt, Commands, history
<1>3. ASSUME NEW p \in Producers, Open(p) PROVE TypeOK'
  BY <1>3 DEF Open, TypeOK, ProducerAt, NewEntry, history
<1>4. ASSUME NEW p \in Producers, Write(p) PROVE TypeOK'
  BY <1>4 DEF Write, TypeOK, ProducerAt
<1>5. ASSUME NEW p \in Producers, KillProducer(p) PROVE TypeOK'
  BY <1>5 DEF KillProducer, TypeOK, ProducerAt, history
<1>6. ASSUME NEW k \in Consumers, Poll(k) PROVE TypeOK'
  BY <1>6 DEF Poll, TypeOK, Pending, history
<1>c. ConsTypeOK
  BY DEF TypeOK, ConsTypeOK, ConsType, Holds
<1>7. ASSUME NEW k \in Consumers, Claim(k) PROVE TypeOK'
  <2>. DEFINE x == [cons[k] EXCEPT !.pc = "read", !.cmd = Candidate(k)]
  <2>1. Candidate(k) \in Commands
    BY <1>7, CandidateType DEF Claim
  <2>2. x \in ConsType /\ x.cmd \in Commands /\ x.tried \subseteq x.listed
    BY <1>c, <2>1 DEF ConsTypeOK, ConsType
  <2>3. cons' = [cons EXCEPT ![k] = x]
    BY <1>7 DEF Claim, TypeOK
  <2>4. ConsTypeOK'
    BY <1>c, <2>2, <2>3, ConsStepType
  <2>. QED
    BY <1>7, <2>1, <2>4 DEF Claim, TypeOK, Renamed, history, ConsTypeOK, ConsType, Holds
<1>8. ASSUME NEW k \in Consumers, ClaimLost(k) PROVE TypeOK'
  <2>1. Candidate(k) \in Commands /\ Candidate(k) \in cons[k].listed
    BY <1>8, CandidateType DEF ClaimLost
  <2>. QED
    BY <1>8, <2>1 DEF ClaimLost, TypeOK, history
<1>9. ASSUME NEW k \in Consumers, NothingLeft(k) PROVE TypeOK'
  BY <1>9 DEF NothingLeft, TypeOK, history
<1>10. ASSUME NEW k \in Consumers, ReadClaimed(k) PROVE TypeOK'
  <2>. DEFINE b == (content[cons[k].cmd] = "whole")
              x == [cons[k] EXCEPT !.pc = "unlink", !.ok = b]
  <2>1. cons[k] \in ConsType /\ cons[k].cmd \in Commands /\ b \in BOOLEAN
    BY <1>c, <1>10 DEF ReadClaimed, ConsTypeOK, Holds
  <2>2. x \in ConsType
    BY <2>1, ReadType
  <2>3. x.cmd \in Commands /\ x.tried \subseteq x.listed
    BY <1>c, <2>1 DEF ConsTypeOK, ConsType
  <2>4. cons' = [cons EXCEPT ![k] = x]
    BY <1>10 DEF ReadClaimed, TypeOK
  <2>5. ConsTypeOK'
    BY <1>c, <2>2, <2>3, <2>4, ConsStepType
  <2>. QED
    BY <1>10, <2>1, <2>5 DEF ReadClaimed, TypeOK, ConsTypeOK, ConsType, Holds
<1>11. ASSUME NEW k \in Consumers, Finish(k) PROVE TypeOK'
  <2>. DEFINE x == [cons[k] EXCEPT !.pc = IF cons[k].ok THEN "poll" ELSE "down",
                                   !.cmd = NoCommand]
  <2>1. cons[k] \in ConsType /\ cons[k].cmd \in Commands
    BY <1>c, <1>11 DEF Finish, ConsTypeOK, Holds
  <2>2. x \in ConsType /\ x.pc \in {"poll", "down"} /\ x.tried \subseteq x.listed
    BY <1>c, <2>1 DEF ConsTypeOK, ConsType
  <2>3. cons' = [cons EXCEPT ![k] = x]
    BY <1>11 DEF Finish, TypeOK
  <2>4. ConsTypeOK'
    BY <1>c, <2>2, <2>3, ConsStepType
  <2>5. returned' \in [Commands -> Nat]
    BY <1>11, <2>1 DEF Finish, TypeOK
  <2>. QED
    BY <1>11, <2>1, <2>4, <2>5 DEF Finish, TypeOK, Unlinked, ConsTypeOK, ConsType, Holds
<1>12. ASSUME NEW k \in Consumers, KillConsumer(k) PROVE TypeOK'
  <2>. DEFINE x == [cons[k] EXCEPT !.pc = "down", !.cmd = NoCommand]
  <2>1. cons[k] \in ConsType
    BY <1>c DEF ConsTypeOK
  <2>2. x \in ConsType /\ x.pc = "down" /\ x.tried \subseteq x.listed
    BY <1>c, <2>1 DEF ConsTypeOK, ConsType
  <2>3. cons' = [cons EXCEPT ![k] = x]
    BY <1>12 DEF KillConsumer, TypeOK
  <2>4. ConsTypeOK'
    BY <1>c, <2>2, <2>3, ConsStepType
  <2>5. cons[k].cmd \in Commands \union {NoCommand}
    BY <2>1 DEF ConsType
  <2>. QED
    BY <1>12, <2>4, <2>5 DEF KillConsumer, TypeOK, ConsTypeOK, ConsType, Holds
<1>13. ASSUME NEW k \in Consumers, RestartConsumer(k) PROVE TypeOK'
  BY <1>13 DEF RestartConsumer, TypeOK, history
<1>. QED
  BY <1>1, <1>2, <1>3, <1>4, <1>5, <1>6, <1>7, <1>8, <1>9, <1>10, <1>11, <1>12, <1>13
     DEF Next, ProducerStep, ConsumerStep

(* Every reachable state of the directory, its writers and its executors   *)
(* is well typed.                                                          *)
THEOREM QueueTypeCorrect == Spec => []TypeOK
BY InitIInv, NextTypeOK, PTL DEF Spec, IInv
-------------------------------------------------------------------------------
(* What the actions of the two sides leave alone.                          *)
LEMMA ProducersKeepClaims ==
    ASSUME IInv, NEW p \in Producers, Stamp(p) \/ Open(p) \/ Write(p) \/ KillProducer(p)
    PROVE  OwnClaim' /\ Returns' /\ Accounted'
<1>. USE DEF IInv
<1>1. UNCHANGED <<cons, torn, orphaned, returned>>
  BY DEF Stamp, Open, Write, KillProducer, history
<1>2. \/ UNCHANGED entry
      \/ \E c \in Commands : entry[c] = "absent" /\ entry' = [entry EXCEPT ![c] = "json"]
  BY DEF Stamp, Open, Write, KillProducer, NewEntry, OwnCommand, Busy
<1>3. \A c \in acked' : c \in acked \/ entry'[c] # "absent"
  BY DEF Stamp, Open, Write, KillProducer, history, OwnCommand, Busy
<1>4. OwnClaim' /\ Returns'
  BY <1>1, <1>2 DEF OwnClaim, Returns, Holds, TypeOK
<1>5. \A c \in Commands : Held(c)' = Held(c)
  BY <1>1 DEF Held
<1>6. acked \subseteq Commands
  BY DEF TypeOK
<1>. QED
  BY <1>1, <1>2, <1>3, <1>4, <1>5, <1>6 DEF Accounted, TypeOK

LEMMA ConsumersKeepCommands ==
    ASSUME IInv, NEW k \in Consumers, ConsumerStep(k) \/ KillConsumer(k) \/ RestartConsumer(k)
    PROVE  Fresh' /\ OwnCommand'
<1>. USE DEF IInv
<1>1. UNCHANGED <<stamp, prod, acked>>
  BY DEF ConsumerStep, Poll, Claim, ClaimLost, NothingLeft, ReadClaimed, Finish, KillConsumer,
         RestartConsumer, history
<1>2. UNCHANGED entry
      \/ \E c \in Commands, e \in {"processing", "gone"} :
            entry[c] # "absent" /\ entry' = [entry EXCEPT ![c] = e]
  <2>1. CASE Claim(k)
    BY <2>1, CandidateType DEF Claim, Renamed
  <2>2. CASE Finish(k)
    BY <2>2 DEF Finish, Unlinked, OwnClaim, Holds
  <2>. QED
    BY <2>1, <2>2 DEF ConsumerStep, Poll, ClaimLost, NothingLeft, ReadClaimed, KillConsumer,
                      RestartConsumer
<1>. QED
  BY <1>1, <1>2 DEF Fresh, OwnCommand, Busy, TypeOK

LEMMA NextIInv == IInv /\ [Next]_vars => IInv'
<1>. SUFFICES ASSUME IInv, [Next]_vars PROVE IInv'
  OBVIOUS
<1>. USE DEF IInv
<1>0. TypeOK'
  BY NextTypeOK
<1>1. CASE UNCHANGED vars
  BY <1>0, <1>1 DEF vars, history, Fresh, OwnCommand, OwnClaim, Returns, Accounted, Busy, Holds,
                    Held
<1>2. ASSUME NEW p \in Producers, Stamp(p) PROVE IInv'
  <2>1. /\ stamp' = stamp + 1 /\ stamp' \in Commands /\ stamp \in Nat
        /\ prod' = [prod EXCEPT ![p] = [pc |-> "open", cmd |-> stamp']]
        /\ UNCHANGED <<entry, acked>>
    BY <1>2, BoundsAssumption DEF Stamp, ProducerAt, history, TypeOK, Commands
  <2>2. Fresh'
    BY <2>1 DEF Fresh, Commands
  <2>3. OwnCommand'
    BY <2>1 DEF OwnCommand, Fresh, Busy, TypeOK, Commands
  <2>. QED
    BY <1>0, <1>2, <2>2, <2>3, ProducersKeepClaims
<1>3. ASSUME NEW p \in Producers, Open(p) PROVE IInv'
  <2>1. /\ entry' = [entry EXCEPT ![prod[p].cmd] = "json"]
        /\ prod' = [prod EXCEPT ![p] = [pc |-> "write", cmd |-> prod[p].cmd]]
        /\ prod[p].cmd \in Commands /\ prod[p].cmd <= stamp
        /\ UNCHANGED <<stamp, acked>>
    BY <1>3 DEF Open, ProducerAt, NewEntry, history, OwnCommand, Busy
  <2>2. Fresh' /\ OwnCommand'
    BY <1>3, <2>1 DEF Open, Fresh, OwnCommand, Busy, TypeOK, Commands
  <2>. QED
    BY <1>0, <1>3, <2>2, ProducersKeepClaims
<1>4. ASSUME NEW p \in Producers, Write(p) PROVE IInv'
  <2>1. Fresh' /\ OwnCommand'
    BY <1>4 DEF Write, ProducerAt, Fresh, OwnCommand, Busy, TypeOK, Commands
  <2>. QED
    BY <1>0, <1>4, <2>1, ProducersKeepClaims
<1>5. ASSUME NEW p \in Producers, KillProducer(p) PROVE IInv'
  <2>1. Fresh' /\ OwnCommand'
    BY <1>5 DEF KillProducer, ProducerAt, Fresh, OwnCommand, Busy, TypeOK, history
  <2>. QED
    BY <1>0, <1>5, <2>1, ProducersKeepClaims
<1>6. ASSUME NEW k \in Consumers,
             Poll(k) \/ ClaimLost(k) \/ NothingLeft(k) \/ RestartConsumer(k)
      PROVE  IInv'
  <2>1. /\ UNCHANGED <<entry, acked, returned, torn, orphaned>>
        /\ \A l \in Consumers : l # k => cons'[l] = cons[l]
        /\ ~Holds(k) /\ cons'[k].pc \in {"poll", "claim"}
    BY <1>6 DEF Poll, ClaimLost, NothingLeft, RestartConsumer, history, Holds, TypeOK
  <2>2. \A c \in Commands : Held(c) => Held(c)'
    BY <2>1 DEF Held, Holds
  <2>3. OwnClaim' /\ Returns' /\ Accounted'
    BY <2>1, <2>2 DEF OwnClaim, Returns, Accounted, Holds
  <2>. QED
    BY <1>0, <1>6, <2>3, ConsumersKeepCommands DEF ConsumerStep
<1>7. ASSUME NEW k \in Consumers, Claim(k) PROVE IInv'
  <2>0. PICK c \in Commands : c = Candidate(k)
    BY <1>7, CandidateType DEF Claim
  <2>1. /\ c \in Commands /\ entry[c] = "json"
        /\ entry' = [entry EXCEPT ![c] = "processing"]
        /\ ~Holds(k) /\ cons'[k].pc = "read" /\ cons'[k].cmd = c
        /\ \A l \in Consumers : l # k => cons'[l] = cons[l]
        /\ UNCHANGED <<acked, returned, torn, orphaned>>
    BY <1>7, <2>0 DEF Claim, Renamed, history, Holds, TypeOK
  <2>2. OwnClaim' /\ Returns'
    BY <2>1 DEF OwnClaim, Returns, Holds, TypeOK
  <2>3. Accounted'
    <3>1. \A d \in Commands : Held(d) => Held(d)'
      BY <2>1 DEF Held, Holds
    <3>2. Held(c)'
      BY <2>1 DEF Held
    <3>3. acked \subseteq Commands
      BY DEF TypeOK
    <3>. QED
      BY <2>1, <3>1, <3>2, <3>3 DEF Accounted, TypeOK
  <2>. QED
    BY <1>0, <1>7, <2>2, <2>3, ConsumersKeepCommands DEF ConsumerStep
<1>8. ASSUME NEW k \in Consumers, ReadClaimed(k) PROVE IInv'
  <2>1. /\ UNCHANGED <<entry, acked, returned, orphaned>> /\ torn \subseteq torn'
        /\ Holds(k) /\ cons'[k].pc = "unlink" /\ cons'[k].cmd = cons[k].cmd
        /\ \A l \in Consumers : l # k => cons'[l] = cons[l]
    BY <1>8 DEF ReadClaimed, Holds, TypeOK
  <2>2. ~cons'[k].ok => cons'[k].cmd \in torn'
    <3>1. CASE content[cons[k].cmd] = "whole"
      <4>1. cons'[k].ok = TRUE
        BY <1>8, <3>1 DEF ReadClaimed, TypeOK
      <4>. QED
        BY <4>1
    <3>2. CASE content[cons[k].cmd] # "whole"
      BY <1>8, <2>1, <3>2 DEF ReadClaimed
    <3>. QED
      BY <3>1, <3>2
  <2>3. \A c \in Commands : Held(c) => Held(c)'
    BY <2>1 DEF Held, Holds
  <2>4. OwnClaim' /\ Returns'
    BY <2>1 DEF OwnClaim, Returns, Holds
  <2>5. Accounted'
    BY <2>1, <2>2, <2>3 DEF Accounted
  <2>. QED
    BY <1>0, <1>8, <2>4, <2>5, ConsumersKeepCommands DEF ConsumerStep
<1>9. ASSUME NEW k \in Consumers, Finish(k) PROVE IInv'
  <2>0. PICK c \in Commands : c = cons[k].cmd
    BY <1>9 DEF Finish, OwnClaim, Holds
  <2>1. /\ c \in Commands /\ entry[c] = "processing"
        /\ entry' = [entry EXCEPT ![c] = "gone"]
        /\ Holds(k) /\ cons'[k].pc \in {"poll", "down"}
        /\ \A l \in Consumers : l # k => cons'[l] = cons[l]
        /\ UNCHANGED <<acked, torn, orphaned>>
    BY <1>9, <2>0 DEF Finish, Unlinked, Holds, TypeOK, OwnClaim
  <2>2. /\ returned[c] = 0
        /\ returned'[c] = 1 \/ (returned'[c] = 0 /\ c \in torn)
        /\ \A d \in Commands : d # c => returned'[d] = returned[d]
    <3>1. returned[c] = 0
      BY <2>1 DEF Returns
    <3>2. returned'[c] = IF cons[k].ok THEN returned[c] + 1 ELSE returned[c]
      BY <1>9, <2>0, <2>1 DEF Finish, TypeOK
    <3>3. cons[k].ok \/ c \in torn
      BY <1>9, <2>0 DEF Finish, Accounted
    <3>4. \A d \in Commands : d # c => returned'[d] = returned[d]
      BY <1>9, <2>0, <2>1 DEF Finish, TypeOK
    <3>. QED
      BY <3>1, <3>2, <3>3, <3>4
  <2>3. OwnClaim'
    BY <2>0, <2>1 DEF OwnClaim, Holds, TypeOK
  <2>4. Returns'
    BY <2>1, <2>2 DEF Returns, TypeOK
  <2>5. Accounted'
    <3>1. \A d \in Commands : Held(d) /\ d # c => Held(d)'
      BY <2>0, <2>1 DEF Held, Holds
    <3>2. acked \subseteq Commands
      BY DEF TypeOK
    <3>. QED
      BY <2>1, <2>2, <3>1, <3>2 DEF Accounted, TypeOK
  <2>. QED
    BY <1>0, <1>9, <2>3, <2>4, <2>5, ConsumersKeepCommands DEF ConsumerStep
<1>10. ASSUME NEW k \in Consumers, KillConsumer(k) PROVE IInv'
  <2>1. /\ UNCHANGED <<entry, acked, returned, torn>>
        /\ orphaned' = orphaned \union ({cons[k].cmd} \ {NoCommand})
        /\ cons'[k].pc = "down"
        /\ \A l \in Consumers : l # k => cons'[l] = cons[l]
    BY <1>10 DEF KillConsumer, TypeOK
  <2>2. OwnClaim' /\ Returns'
    BY <2>1 DEF OwnClaim, Returns, Holds
  <2>3. Accounted'
    <3>1. NoCommand \notin Commands
      BY DEF NoCommand, Commands
    <3>2. \A c \in Commands : Held(c) => Held(c)' \/ c \in orphaned'
      BY <2>1, <3>1 DEF Held
    <3>. QED
      BY <2>1, <3>2 DEF Accounted
  <2>. QED
    BY <1>0, <1>10, <2>2, <2>3, ConsumersKeepCommands
<1>. QED
  BY <1>1, <1>2, <1>3, <1>4, <1>5, <1>6, <1>7, <1>8, <1>9, <1>10
     DEF Next, ProducerStep, ConsumerStep

(* Executors that compete for the directory, are killed and restarted,     *)
(* never take a command twice.                                             *)
THEOREM NoCommandReturnsTwice == Spec => []ReturnedAtMostOnce
<1>1. IInv => ReturnedAtMostOnce
  BY DEF IInv, Returns, ReturnedAtMostOnce
<1>. QED
  BY InitIInv, NextIInv, <1>1, PTL DEF Spec

(* A command is lost only half-written or with its executor.               *)
THEOREM LossIsAccountedFor == Spec => []LossIsTornOrOrphaned
<1>1. IInv => LossIsTornOrOrphaned
  BY DEF IInv, TypeOK, Accounted, LossIsTornOrOrphaned
<1>. QED
  BY InitIInv, NextIInv, <1>1, PTL DEF Spec

(* Every step on the directory is a put, a take or no step of a mailbox.   *)
THEOREM QueueIsMailbox == Spec => ImplementsMailbox
<1>1. Init => Box!Init
  BY DEF Init, Box!Init, Pending, Claimed
<1>2. IInv /\ [Next]_vars => [Box!Next]_<<Pending, Claimed>>
  <2>. SUFFICES ASSUME IInv, [Next]_vars PROVE [Box!Next]_<<Pending, Claimed>>
    OBVIOUS
  <2>1. CASE UNCHANGED entry
    BY <2>1 DEF Pending, Claimed
  <2>2. ASSUME NEW p \in Producers, Open(p) PROVE Box!Next
    <3>1. /\ prod[p].cmd \in Commands /\ entry[prod[p].cmd] = "absent"
          /\ entry' = [entry EXCEPT ![prod[p].cmd] = "json"]
      BY <2>2 DEF Open, NewEntry, IInv, OwnCommand, Busy
    <3>2. Box!Put(prod[p].cmd)
      BY <3>1 DEF Box!Put, Pending, Claimed, IInv, TypeOK
    <3>. QED
      BY <3>1, <3>2 DEF Box!Next
  <2>3. ASSUME NEW k \in Consumers, Claim(k) PROVE Box!Next
    <3>1. /\ Candidate(k) \in Commands /\ entry[Candidate(k)] = "json"
          /\ entry' = [entry EXCEPT ![Candidate(k)] = "processing"]
      BY <2>3, CandidateType DEF Claim, Renamed, IInv
    <3>2. Box!Take(Candidate(k))
      BY <3>1 DEF Box!Take, Pending, Claimed, IInv, TypeOK
    <3>. QED
      BY <3>1, <3>2 DEF Box!Next
  <2>4. ASSUME NEW k \in Consumers, Finish(k) PROVE UNCHANGED <<Pending, Claimed>>
    BY <2>4 DEF Finish, Unlinked, IInv, OwnClaim, Holds, Pending, Claimed, TypeOK
  <2>. QED
    BY <2>1, <2>2, <2>3, <2>4
       DEF Next, vars, ProducerStep, ConsumerStep, Stamp, Write, KillProducer, Poll, ClaimLost,
           NothingLeft, ReadClaimed, KillConsumer, RestartConsumer
<1>. QED
  BY InitIInv, NextIInv, <1>1, <1>2, PTL DEF Spec, ImplementsMailbox, Box!Spec
===============================================================================
