---------------------------- MODULE JobLifecycle ----------------------------
(***************************************************************************)
(* What the platform promises about one job, whatever queue, worker or     *)
(* store carries it: a job is created once, is run, may go back to the     *)
(* queue between attempts, has at most MaxRetries + 1 attempts, and ends   *)
(* COMPLETED or FAILED, once and for all.                                  *)
(***************************************************************************)
EXTENDS Naturals

CONSTANTS Jobs, MaxRetries

VARIABLES state, attempt

life == <<state, attempt>>

Move(j, from, to) ==
  /\ state[j] \in from
  /\ state' = [state EXCEPT ![j] = to]
  /\ UNCHANGED attempt

Create(j)   == Move(j, {"absent"}, "QUEUED")
Start(j)    == Move(j, {"QUEUED"}, "RUNNING")
Requeue(j)  == Move(j, {"RUNNING"}, "QUEUED")
Complete(j) == Move(j, {"RUNNING"}, "COMPLETED")
GiveUp(j)   == Move(j, {"QUEUED", "RUNNING"}, "FAILED")

\* Another attempt is announced.
Redispatch(j) ==
  /\ state[j] \in {"QUEUED", "RUNNING"} /\ attempt[j] < MaxRetries
  /\ attempt' = [attempt EXCEPT ![j] = @ + 1]
  /\ UNCHANGED state

Init ==
  /\ state = [j \in Jobs |-> "absent"]
  /\ attempt = [j \in Jobs |-> 0]

Next == \E j \in Jobs :
  Create(j) \/ Start(j) \/ Requeue(j) \/ Complete(j) \/ GiveUp(j)
  \/ Redispatch(j)

Spec == Init /\ [][Next]_life
=============================================================================
