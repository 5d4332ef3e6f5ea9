------------------------------ MODULE Monitoring ------------------------------
(***************************************************************************)
(* What is shown of the pipeline while it runs: the counters and the gauge *)
(* of PrometheusMetricsService, which workers and requests update between  *)
(* their own calls, and GET /jobs/{id}/details, which reads the row of a   *)
(* job first and its messages after it.                                    *)
(*                                                                         *)
(* The pipeline is JobPipeline, step for step.  The Redis reads of one     *)
(* details request are one step: they hold the command lock that every     *)
(* command of the workers takes.  The counters live in the process, so the *)
(* module is one life of it: a restart begins again with zeroes.           *)
(***************************************************************************)
EXTENDS JobPipeline, Integers

CONSTANT Watched  \* the job whose details a page asks for, again and again

ASSUME MonitoringAssumption == Watched \in Jobs

VARIABLES
  counts,     \* the atomics of PrometheusMetricsService
  gauge,      \* per worker: its place in the update of jobsActive_
  uncounted,  \* submissions published and not yet counted
  row,        \* the status a details request has read, absent before it has
  answer      \* what a request is answered in the step just taken

shown == <<counts, gauge, uncounted, row, answer>>
watch == <<vars, shown>>

NoCounts ==
  [submitted |-> 0, completed |-> 0, failed |-> 0, retried |-> 0, dead |-> 0,
   active |-> 0]

Out == [at |-> "out", seen |-> 0]

\* The calls of processJob: jobsActive_ counts the workers among them.
Processing ==
  {"markRunning", "stampStarted", "analyze", "saveAnalysis", "markCompleted",
   "stampCompleted"}

One(condition) == IF condition THEN 1 ELSE 0

NoDispatch == [known |-> FALSE]
NoAnswer == [status |-> "absent", dispatch |-> NoDispatch]

\* A step that answers no request.
NoReply == UNCHANGED row /\ answer' = NoAnswer

-----------------------------------------------------------------------------
(* The counters *)

Enters(w) == pc[w] \notin Processing /\ pc'[w] \in Processing
Leaves(w) == pc[w] \in Processing /\ pc'[w] \notin Processing

\* XACK was executed and answered.
Acked(w, where) == pc[w] = where /\ NoFault

\* Mutant of Count: a retry is counted when it is published.
CountAtPublish(w) ==
  counts' = [counts EXCEPT
    !.active    = @ + One(Enters(w)),
    !.completed = @ + One(pc[w] = "stampCompleted"),
    !.retried   = @ + One(pc[w] = "republish"),
    !.failed    = @ + One(Acked(w, "ackDead")),
    !.dead      = @ + One(Acked(w, "ackDead"))]

\* What a step of w adds to the counters on its way.
Count(w) ==
  counts' = [counts EXCEPT
    !.active    = @ + One(Enters(w)),
    !.completed = @ + One(pc[w] = "stampCompleted"),
    !.retried   = @ + One(Acked(w, "ackRetried")),
    !.failed    = @ + One(Acked(w, "ackDead")),
    !.dead      = @ + One(Acked(w, "ackDead"))]

\* A step of the pipeline by w; the end of processJob updates the gauge first.
Work(w) ==
  /\ gauge[w].at \in {"out", "in"}
  /\ WorkerStep(w)
  /\ Count(w)
  /\ gauge' = [gauge EXCEPT ![w].at = CASE Enters(w) -> "in"
                                        [] Leaves(w) -> "leaving"
                                        [] OTHER -> @]
  /\ UNCHANGED uncounted /\ NoReply

\* decrementJobsActive: the load,
LoadActive(w) ==
  /\ gauge[w].at = "leaving"
  /\ gauge' = [gauge EXCEPT ![w] = [at |-> "loaded", seen |-> counts.active]]
  /\ UNCHANGED <<vars, counts, uncounted>> /\ NoReply

\* Mutant of DecrementActive: what was loaded is stored, less one.
DecrementActiveByStore(w) ==
  /\ gauge[w].at = "loaded"
  /\ counts' = [counts EXCEPT !.active = gauge[w].seen - 1]
  /\ gauge' = [gauge EXCEPT ![w] = Out]
  /\ UNCHANGED <<vars, uncounted>> /\ NoReply

\* and the decrement, or a store when there seemed to be nothing to take away.
DecrementActive(w) ==
  /\ gauge[w].at = "loaded"
  /\ counts' = [counts EXCEPT !.active = IF gauge[w].seen <= 0 THEN 0 ELSE @ - 1]
  /\ gauge' = [gauge EXCEPT ![w] = Out]
  /\ UNCHANGED <<vars, uncounted>> /\ NoReply

Submit(j) ==
  /\ Request(j)
  /\ uncounted' = IF sub'[j] = "accepted" THEN uncounted \cup {j} ELSE uncounted
  /\ UNCHANGED <<counts, gauge>> /\ NoReply

\* submitRepository counts the job after its message has been published, when a
\* worker may have it already.
CountSubmission(j) ==
  /\ j \in uncounted /\ uncounted' = uncounted \ {j}
  /\ counts' = [counts EXCEPT !.submitted = @ + 1]
  /\ UNCHANGED <<vars, gauge>> /\ NoReply

-----------------------------------------------------------------------------
(* GET /jobs/{id}/details *)

\* Mutant of Newest: the streams are read from their old end.
NewestFromStart(ids) == CHOOSE i \in ids : \A k \in ids : i <= k

Newest(ids) == CHOOSE i \in ids : \A k \in ids : k <= i

\* The consumer that XPENDING lists for entry i.
Owner(i) ==
  IF \E w \in Workers : i \in pel[w]
  THEN {CHOOSE w \in Workers : i \in pel[w]} ELSE {}

\* getJobDispatchSnapshot: the newest dead letter, or else the newest message.
Dispatch(j) ==
  LET letters == {i \in DOMAIN dead : dead[i].job = j} IN
  IF letters # {}
  THEN [known |-> TRUE, dead |-> TRUE, attempt |-> dead[Newest(letters)].attempt,
        reason |-> dead[Newest(letters)].reason, consumer |-> {}]
  ELSE IF Entries(j) # {}
  THEN [known |-> TRUE, dead |-> FALSE,
        attempt |-> stream[Newest(Entries(j))].attempt, reason |-> "none",
        consumer |-> Owner(Newest(Entries(j)))]
  ELSE NoDispatch

\* findById; a missing row, or one that cannot be read, is answered with 404.
ReadRow ==
  /\ row = "absent" /\ status[Watched] # "absent"
  /\ row' = status[Watched] /\ answer' = NoAnswer
  /\ UNCHANGED <<vars, counts, gauge, uncounted>>

\* The answer, without its dispatch part when Redis does not answer.
ReadDispatch ==
  /\ row # "absent" /\ row' = "absent"
  /\ \E d \in {Dispatch(Watched), NoDispatch} :
       answer' = [status |-> row, dispatch |-> d]
  /\ UNCHANGED <<vars, counts, gauge, uncounted>>

-----------------------------------------------------------------------------

WatchInit ==
  /\ Init
  /\ counts = NoCounts /\ gauge = [w \in Workers |-> Out] /\ uncounted = {}
  /\ row = "absent" /\ answer = NoAnswer

WatchNext ==
  \/ \E w \in Workers : Work(w) \/ LoadActive(w) \/ DecrementActive(w)
  \/ \E j \in Jobs : Submit(j) \/ CountSubmission(j)
  \/ ReadRow \/ ReadDispatch

WatchSpec == WatchInit /\ [][WatchNext]_watch
-----------------------------------------------------------------------------
(* Properties *)

\* cortex_jobs_active is the "current number of jobs actively being processed"
\* (its HELP line), also while workers enter and leave at the same time: the
\* decrement is a load and a store or subtraction apart from it.
ActiveIsBusy ==
  counts.active = Cardinality({w \in Workers : gauge[w].at # "out"})

\* When the process rests and no reply was lost, the counters agree with the tables
\* and streams: submissions, completions and retries are each counted once, and so is
\* every dead letter, which is the only thing cortex_jobs_failed_total counts.  Its
\* HELP line says "Total number of jobs that permanently failed"
\* (PrometheusMetricsService.cpp:115): of the FAILED rows it misses, and of the others
\* it counts, no more jobs than calls have failed (a refused dead letter leaves a FAILED
\* job uncounted for ever, a refused FAILED write counts a job that is not), none if no
\* call has.
Resting ==
  /\ \A w \in Workers : pc[w] = "idle" /\ gauge[w].at = "out"
  /\ Unacked = {} /\ uncounted = {}

Miscounted == {j \in Jobs : ~(DeadLettered(j) <=> status[j] = "FAILED")}

TotalsAtRest ==
  Resting =>
    /\ counts.submitted = Cardinality({j \in Jobs : sub[j] = "accepted"})
    /\ counts.completed = Cardinality({j \in Jobs : status[j] = "COMPLETED"})
    /\ counts.dead = Len(dead)
    /\ counts.failed = Cardinality({j \in Jobs : DeadLettered(j)})
    /\ Cardinality(Miscounted) <= faults
    /\ counts.retried =
         Cardinality({i \in DOMAIN stream : stream[i].attempt > 0})
    /\ counts.active = 0

\* The page says "Completed after n retries" and "Dead-lettered" from two reads of
\* two stores at two times.  What it says is so: a completed job shows its last
\* attempt and no dead letter, and a job given up as retried shows all attempts.
DetailsAgree ==
  answer.dispatch.known =>
    /\ answer.status = "COMPLETED" =>
         /\ ~answer.dispatch.dead
         /\ answer.dispatch.attempt = LatestAttempt(Watched)
    /\ answer.dispatch.reason = "max_retry_exceeded" =>
         answer.dispatch.attempt = MaxRetries
    /\ answer.status = "FAILED" /\ ~answer.dispatch.dead =>
         answer.dispatch.attempt = LatestAttempt(Watched)

\* What two requests in a row are told of the messages: the job only moves on.  No
\* earlier attempt is shown after a later one, and a dead letter stays.
AnswersAdvance ==
  [][<<stream, dead>>' # <<stream, dead>> =>
       LET now == Dispatch(Watched)  next == Dispatch(Watched)' IN
       now.known =>
         next.known /\ next.attempt >= now.attempt /\ (now.dead => next.dead)]_watch
===============================================================================
