------------------------------- MODULE MCTaskTdd -------------------------------
(***************************************************************************)
(* Instances of TaskTdd for TLC.  Two files suffice for one to be left     *)
(* behind and two contents for one to be overwritten.                      *)
(***************************************************************************)
EXTENDS TaskTdd

MCContent == 1 .. 2
=============================================================================
