-------------------------- MODULE MCWorkerLifecycle ---------------------------
(* Up to three workers, and settings on both sides of every bound. *)
EXTENDS WorkerLifecycle

MCRawSettings ==
  {Absent, Garbage}
    \cup {Text("plain", n) : n \in {-1, 0, 1, 3, 4, IntMax + 1, LongMax + 1}}
    \cup {Text(form, 3) : form \in {"blank", "trailing"}}
===============================================================================
