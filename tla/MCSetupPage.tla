----------------------------- MODULE MCSetupPage ------------------------------
EXTENDS SetupPage, TLC

(* Visitors are not told apart.                                            *)
Symmetry == Permutations(Visitor)
=============================================================================
