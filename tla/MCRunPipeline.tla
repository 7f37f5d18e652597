---------------------------- MODULE MCRunPipeline -----------------------------
(* Instances of RunPipeline for TLC.                                       *)
EXTENDS RunPipeline
=============================================================================
