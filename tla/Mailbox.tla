-------------------------------- MODULE Mailbox --------------------------------
(***************************************************************************)
(* What the executors rely on when they take commands from the queue: a    *)
(* command that has been put is taken by one of them at most, and never    *)
(* comes back.                                                             *)
(***************************************************************************)
CONSTANT Commands

VARIABLES
    pending,    \* put and not yet taken
    taken       \* taken by an executor

Init == pending = {} /\ taken = {}

Put(c) ==
    /\ c \notin pending \union taken
    /\ pending' = pending \union {c}
    /\ UNCHANGED taken

Take(c) ==
    /\ c \in pending
    /\ pending' = pending \ {c}
    /\ taken' = taken \union {c}

Next == \E c \in Commands : Put(c) \/ Take(c)

Spec == Init /\ [][Next]_<<pending, taken>>
===============================================================================
