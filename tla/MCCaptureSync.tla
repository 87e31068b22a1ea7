---------------------------- MODULE MCCaptureSync ----------------------------
(* Instances of CaptureSync for TLC.                                       *)
EXTENDS CaptureSync, TLC

(* Threads are interchangeable, and so are process ids.                    *)
Symmetry == Permutations(Threads) \union Permutations(Pids)
===============================================================================
