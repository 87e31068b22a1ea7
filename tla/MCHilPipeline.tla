----------------------------- MODULE MCHilPipeline -----------------------------
(* Instances of HilPipeline for TLC.                                       *)
EXTENDS HilPipeline
===============================================================================
