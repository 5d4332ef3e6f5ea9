--------------------------- MODULE MCJobPipeline ---------------------------
(***************************************************************************)
(* Instances of JobPipeline for TLC.                                       *)
(***************************************************************************)
EXTENDS JobPipeline, TLC

\* Jobs are interchangeable, and so are consumers: no definition orders them.
Symmetry == Permutations(Jobs) \cup Permutations(Workers)

\* Every kind of failure but the two that hide a row from the worker that looks
\* for it, which then drops the message (see the run unknown_job_dropped).
AnyFault == FaultKinds \ {"select_failed", "connect_failed"}

\* The failures that leave no second copy of a message, and after which a worker
\* knows what it wrote: not a refused XACK, not a lost XADD or status write.
CleanFaults ==
  {"xadd_refused", "xack_lost", "read_lost", "xinfo_failed", "select_failed",
   "write_refused"}

\* Every kind of failure but a refused statement: among them the calls that were
\* executed and reported as failed, a failed SELECT, and a MySQL server that comes
\* and goes between restarts.
NothingRefused == FaultKinds \ {"write_refused"}
=============================================================================
