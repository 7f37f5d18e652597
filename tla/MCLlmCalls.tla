------------------------------ MODULE MCLlmCalls ------------------------------
EXTENDS LlmCalls, TLC
(* Nothing distinguishes the callers of a run.                             *)
Symmetry == Permutations(Caller)
=============================================================================
