------------------------------ MODULE MCCarlaWorld ------------------------------
(* Instances of CarlaWorld for TLC.                                         *)
EXTENDS CarlaWorld
===============================================================================
