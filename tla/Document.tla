-------------------------------- MODULE Document --------------------------------
(***************************************************************************)
(* What the stores rely on when they save a JSON document: the saves of    *)
(* several writers take effect one at a time and as a whole, whoever       *)
(* writes at the same time; a reader gets the version of the last one, and *)
(* a version whose writer was killed before its save is never seen.        *)
(***************************************************************************)
CONSTANTS Writers, Versions

VARIABLES
    content,    \* the version that a reader gets
    saving,     \* of each writer: the version it saves, if any
    begun       \* the versions that somebody has begun to save

Init ==
    /\ begun = {content} /\ content \in Versions
    /\ saving = [w \in Writers |-> {}]

Begin(w) ==
    /\ saving[w] = {}
    /\ \E v \in Versions \ begun :
          /\ saving' = [saving EXCEPT ![w] = {v}]
          /\ begun' = begun \union {v}
    /\ UNCHANGED content

GiveUp(w) ==
    /\ saving[w] # {}
    /\ saving' = [saving EXCEPT ![w] = {}]
    /\ UNCHANGED <<content, begun>>

Save(w) ==
    /\ content' \in saving[w]
    /\ saving' = [saving EXCEPT ![w] = {}]
    /\ UNCHANGED begun

Next == \E w \in Writers : Begin(w) \/ GiveUp(w) \/ Save(w)

Spec == Init /\ [][Next]_<<content, saving, begun>>
===============================================================================
