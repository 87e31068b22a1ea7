----------------------------- MODULE DocumentFile -----------------------------
(***************************************************************************)
(* One JSON document of a store, as other processes see it.  RunStore,     *)
(* ExecutorStore and the capture stores open the file for writing, which   *)
(* empties it, and then dump the document into it (Replaces = FALSE).  The *)
(* stores of gateways, projects, benchmarks and reports dump it into a     *)
(* temporary file that replaces the old one (atomic_write_json, Replaces = *)
(* TRUE).  A file is a sequence of blocks, the pieces in which a buffered  *)
(* document reaches it; a block is named by the version it belongs to.  A  *)
(* reader gets all blocks at once and can parse them when they are those   *)
(* of one version, none missing and none left over.                        *)
(***************************************************************************)
EXTENDS Naturals, Sequences

CONSTANTS
    Writers,        \* processes and threads that save the document
    Doc,            \* the path of the document; a writer names its temporary file
    Replaces,       \* whether the store replaces the file
    MaxVersions,    \* bound: how many versions are written, the first included
    MaxBlocks,      \* bound: the blocks of the longest document
    MaxCrashes      \* bound: how many writers are killed

ASSUME ConstantsAssumption ==
    /\ Doc \notin Writers
    /\ Replaces \in BOOLEAN
    /\ MaxVersions \in Nat \ {0} /\ MaxBlocks \in Nat \ {0} /\ MaxCrashes \in Nat

Versions == 1 .. MaxVersions
Hole == 0           \* a block never written, before one that was
Paths == Writers \union {Doc}

VARIABLES
    disk,       \* the blocks of every file
    size,       \* the number of blocks of each version
    issued,     \* how many versions were begun
    wr,         \* program counter and locals of each writer
    crashes

vars == <<disk, size, issued, wr, crashes>>

Blocks(v, n) == [i \in 1 .. n |-> v]
Idle == [pc |-> "idle", ver |-> 1, pos |-> 0]

Init ==
    /\ size = [v \in Versions |-> 1]
    /\ disk = [p \in Paths |-> IF p = Doc THEN Blocks(1, 1) ELSE <<>>]
    /\ issued = 1
    /\ wr = [w \in Writers |-> Idle]
    /\ crashes = 0

-------------------------------------------------------------------------------
TempShared(w) == CHOOSE u \in Writers : TRUE    \* mutant: a fixed temporary name
TempOf(w) == w
PathOf(w) == IF Replaces THEN TempOf(w) ELSE Doc

Begin(w, n) ==
    /\ wr[w].pc = "idle"
    /\ issued < MaxVersions
    /\ issued' = issued + 1
    /\ size' = [size EXCEPT ![issued'] = n]
    /\ wr' = [wr EXCEPT ![w] = [pc |-> "open", ver |-> issued', pos |-> 0]]
    /\ UNCHANGED <<disk, crashes>>

Open(w) ==
    /\ wr[w].pc = "open"
    /\ disk' = [disk EXCEPT ![PathOf(w)] = <<>>]
    /\ wr' = [wr EXCEPT ![w].pc = "write"]
    /\ UNCHANGED <<size, issued, crashes>>

(* The n-th block of a file is written at its place, whatever others have  *)
(* done to the file in the meantime.                                       *)
Put(f, n, v) ==
    [i \in 1 .. IF n > Len(f) THEN n ELSE Len(f) |->
        IF i = n THEN v ELSE IF i <= Len(f) THEN f[i] ELSE Hole]

Unwritten(w) == wr[w].pos < size[wr[w].ver]

Dump(w) ==
    /\ wr[w].pc = "write"
    /\ Unwritten(w)
    /\ disk' = [disk EXCEPT ![PathOf(w)] = Put(@, wr[w].pos + 1, wr[w].ver)]
    /\ wr' = [wr EXCEPT ![w].pos = @ + 1]
    /\ UNCHANGED <<size, issued, crashes>>

(* The file is closed; atomic_write_json then replaces the document by it. *)
Close(w) ==
    /\ wr[w].pc = "write"
    /\ wr[w].pos = size[wr[w].ver]
    /\ disk' = IF Replaces
               THEN [disk EXCEPT ![Doc] = disk[PathOf(w)], ![PathOf(w)] = <<>>]
               ELSE disk
    /\ wr' = [wr EXCEPT ![w] = Idle]
    /\ UNCHANGED <<size, issued, crashes>>

Crash(w) ==
    /\ crashes < MaxCrashes
    /\ wr[w].pc # "idle"
    /\ crashes' = crashes + 1
    /\ wr' = [wr EXCEPT ![w] = Idle]
    /\ UNCHANGED <<disk, size, issued>>

Next ==
    \E w \in Writers :
        \/ \E n \in 1 .. MaxBlocks : Begin(w, n)
        \/ Open(w) \/ Dump(w) \/ Close(w) \/ Crash(w)

Spec == Init /\ [][Next]_vars
-------------------------------------------------------------------------------
(* Properties.                                                             *)

TypeOK ==
    /\ disk \in [Paths -> Seq(Versions \union {Hole})]
    /\ size \in [Versions -> 1 .. MaxBlocks]
    /\ issued \in Versions
    /\ wr \in [Writers -> [pc: {"idle", "open", "write"}, ver: Versions, pos: 0 .. MaxBlocks]]
    /\ crashes \in Nat

Whole(f) == \E v \in Versions : f = Blocks(v, size[v])

(* At every moment a reader of the document gets one whole version.        *)
AlwaysWhole == Whole(disk[Doc])

(* The version that a reader gets, if it can parse what it reads.          *)
Held == IF AlwaysWhole THEN disk[Doc][1] ELSE Hole
Saving == [w \in Writers |-> IF wr[w].pc = "idle" THEN {} ELSE {wr[w].ver}]

(* However many writers save the document at once and wherever they are    *)
(* killed (atomic_write_json): each save takes effect when its writer      *)
(* replaces the file, as a whole, and what was not replaced never shows.   *)
Document == INSTANCE Document WITH content <- Held, saving <- Saving, begun <- 1 .. issued
FollowsDocument == Document!Spec
===============================================================================
