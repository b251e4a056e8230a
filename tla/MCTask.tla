------------------------------- MODULE MCTask -------------------------------
(* The instances of TaskRuntime that TLC checks: the values of all constants  *)
(* are in the configurations.                                                 *)
EXTENDS TaskRuntime
=============================================================================
