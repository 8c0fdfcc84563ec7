---------------------------- MODULE MCRunLifecycle ----------------------------
(***************************************************************************)
(* Instance of RunLifecycle for TLC: the process is small enough to check  *)
(* as it is.                                                               *)
(***************************************************************************)
EXTENDS RunLifecycleProperties
=============================================================================
