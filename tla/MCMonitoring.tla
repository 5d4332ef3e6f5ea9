----------------------------- MODULE MCMonitoring -----------------------------
(***************************************************************************)
(* Two jobs and two workers, one of the jobs watched, and the failures     *)
(* after which the caller knows what happened.                             *)
(***************************************************************************)
EXTENDS Monitoring, TLC

Symmetry == Permutations(Workers)

CleanFaults ==
  {"xadd_refused", "read_lost", "xinfo_failed", "select_failed",
   "write_refused"}
===============================================================================
