----------------------------- MODULE MCRunControl -----------------------------
(* Instances of RunControl for TLC.                                        *)
EXTENDS RunControl, TLC

Symmetry ==
    Permutations(LegacyRuns) \union Permutations(Runs \ LegacyRuns)
        \union Permutations(Threads) \union Permutations(Workers)

(* Where API threads race: split updates and restarts of the API server    *)
(* are explored for a single run, several runs without them.               *)
RacesBound ==
    \/ overlaps = 0 /\ apiRestarts = 0
    \/ \A r \in LegacyRuns : rec[r].status = Absent
===============================================================================
