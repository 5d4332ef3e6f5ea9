---------------------------- MODULE AnalysisTracker ----------------------------
(***************************************************************************)
(* The page that follows one analysis: the hook useAnalysisJob, the route  *)
(* effect and the submit handler of App, the report page, and the backend  *)
(* answering GET /jobs, GET /analysis and POST /repositories.              *)
(*                                                                         *)
(* Requests are answered in any order, and the user goes to another page   *)
(* or submits again at any time in between.  A handler runs to its next    *)
(* await in one step.  The details of a job are told apart by their job    *)
(* only, so a request for the details of one job stands for several.       *)
(***************************************************************************)
EXTENDS Naturals, FiniteSets

CONSTANTS
  Jobs,     \* the jobs there may be
  Linked,   \* of them, those that exist before the page is opened
  NoJob,    \* null
  MaxMoves  \* bound: how often the user goes elsewhere or submits

ASSUME TrackerAssumption ==
  /\ Linked \subseteq Jobs /\ NoJob \notin Jobs
  /\ "home" \notin Jobs /\ MaxMoves \in Nat

VARIABLES
  server,      \* the status of each job, Absent before it is submitted
  route,       \* "home", "elsewhere" or the job of an analysis link
  phase,       \* the phase of the hook
  job,         \* job.jobId
  analysis,    \* the job of the analysis that is shown
  details,     \* the job of the details that are shown
  active,      \* activeJobIdRef
  generation,  \* pollGeneration
  timer,       \* pollTimeout: the poll it will continue
  requests,    \* the requests that are not answered yet
  moves        \* bound

hook == <<phase, job, analysis, details, active, generation, timer>>
vars == <<server, route, hook, requests, moves>>

\* One poll loop: of a job, begun in a generation.
Poll(j, g) == [job |-> j, generation |-> g]
NoPoll == Poll(NoJob, 0)

Request(kind, poll) == [kind |-> kind, poll |-> poll]
Details(j) == Request("details", Poll(j, 0))
Submission == Request("submit", NoPoll)

IsActive(j) == active = j

\* Mutant of IsCurrent: only the job counts, not the generation.
IsCurrentJob(poll) == IsActive(poll.job)

\* isCurrent
IsCurrent(poll) == poll.generation = generation /\ IsActive(poll.job)

-----------------------------------------------------------------------------
(* What the handlers do until their next await *)

\* Mutant of StopPolling: a timer is cleared, but a request goes on.
StopPollingTimerOnly(g) == generation' = generation /\ timer' = NoPoll

\* stopPolling, g times: what it leaves is the last generation and no timer.
StopPolling(g) == generation' = generation + g /\ timer' = NoPoll

\* refreshJobDetails and pollJob: both ask the backend at once.
StartTracking(j, answered) ==
  requests' = (requests \ answered)
                \cup {Details(j), Request("job", Poll(j, generation'))}

\* load: stopPolling here and again in pollJob.
Load(j) ==
  /\ StopPolling(2) /\ active' = j /\ job' = j
  /\ phase' = "polling" /\ analysis' = NoJob /\ details' = NoJob
  /\ StartTracking(j, {})

\* The part of submit before the answer of the backend.
Submit ==
  /\ StopPolling(1) /\ active' = NoJob /\ job' = NoJob
  /\ phase' = "submitting" /\ analysis' = NoJob /\ details' = NoJob
  /\ requests' = requests \cup {Submission}

-----------------------------------------------------------------------------
(* The user and the page *)

\* The user follows a link, opens an analysis or goes back.
Navigate(to) ==
  /\ moves < MaxMoves /\ moves' = moves + 1
  /\ route # to /\ route' = to
  /\ UNCHANGED <<server, hook, requests>>

\* The form of the home page: not while it is busy, and only with a valid URL.
PressSubmit ==
  /\ moves < MaxMoves /\ moves' = moves + 1
  /\ route = "home" /\ phase \notin {"submitting", "polling"}
  /\ Submit
  /\ UNCHANGED <<server, route>>

\* Mutants of RouteEffect: it compares with the report instead of the job; it
\* follows only the first link.
RouteEffectByReport ==
  /\ route \in Jobs /\ route # analysis /\ phase # "submitting"
  /\ Load(route)
  /\ UNCHANGED <<server, route, moves>>

RouteEffectFirstOnly ==
  /\ route \in Jobs /\ route # job /\ phase = "idle"
  /\ Load(route)
  /\ UNCHANGED <<server, route, moves>>

\* App's effect: an analysis link starts tracking its job, unless a submission is
\* on its way.
RouteEffect ==
  /\ route \in Jobs /\ route # job /\ phase # "submitting"
  /\ Load(route)
  /\ UNCHANGED <<server, route, moves>>

\* The timer of the poll loop; a loop that is over does nothing.
TimerFires ==
  /\ timer # NoPoll /\ timer' = NoPoll
  /\ requests' = IF IsCurrent(timer) THEN requests \cup {Request("job", timer)}
                 ELSE requests
  /\ UNCHANGED <<server, route, moves, phase, job, analysis, details, active,
                 generation>>

-----------------------------------------------------------------------------
(* The answers *)

Answered(r) == r \in requests /\ requests' = requests \ {r}

Unmoved == UNCHANGED <<server, route, moves>>

\* A submission is accepted; the home page goes on to the report.
SubmissionAccepted(j) ==
  /\ Submission \in requests /\ server[j] = "Absent"
  /\ server' = [server EXCEPT ![j] = "QUEUED"]
  /\ active' = j /\ job' = j /\ StopPolling(1)
  /\ StartTracking(j, {Submission})
  /\ route' = IF route = "home" THEN j ELSE route
  /\ UNCHANGED <<phase, analysis, details, moves>>

\* 400, 429, 500, or no answer.
SubmissionFails ==
  /\ Answered(Submission) /\ phase' = "error"
  /\ UNCHANGED <<job, analysis, details, active, generation, timer>> /\ Unmoved

\* Mutant of JobState: a running job is not asked for again.
JobStateOnce(r) ==
  /\ r \in requests /\ r.kind = "job" /\ IsCurrent(r.poll)
  /\ LET j == r.poll.job IN
     /\ server[j] # "Absent" /\ job' = j
     /\ requests' = (requests \ {r}) \cup {Details(j)} \cup
          IF server[j] = "COMPLETED" THEN {Request("analysis", r.poll)} ELSE {}
     /\ phase' = CASE server[j] = "FAILED" -> "error"
                   [] server[j] = "COMPLETED" -> phase
                   [] OTHER -> "polling"
     /\ timer' = IF server[j] = "QUEUED" THEN r.poll ELSE timer
  /\ UNCHANGED <<analysis, details, active, generation>> /\ Unmoved

\* The state of the job: when it has ended the analysis is fetched or the poll is
\* over, otherwise the timer is set.
JobState(r) ==
  /\ r \in requests /\ r.kind = "job" /\ IsCurrent(r.poll)
  /\ LET j == r.poll.job IN
     /\ server[j] # "Absent" /\ job' = j
     /\ requests' = (requests \ {r}) \cup {Details(j)} \cup
          IF server[j] = "COMPLETED" THEN {Request("analysis", r.poll)} ELSE {}
     /\ phase' = CASE server[j] = "FAILED" -> "error"
                   [] server[j] = "COMPLETED" -> phase
                   [] OTHER -> "polling"
     /\ timer' = IF server[j] \in {"QUEUED", "RUNNING"} THEN r.poll ELSE timer
  /\ UNCHANGED <<analysis, details, active, generation>> /\ Unmoved

\* 404, 500, or no answer: the loop ends with an error.
JobStateFails(r) ==
  /\ r.kind = "job" /\ IsCurrent(r.poll) /\ Answered(r)
  /\ phase' = "error"
  /\ UNCHANGED <<job, analysis, details, active, generation, timer>> /\ Unmoved

\* The answer to a poll that was stopped.
StaleJobState(r) ==
  /\ r.kind = "job" /\ ~IsCurrent(r.poll) /\ Answered(r)
  /\ UNCHANGED hook /\ Unmoved

\* Mutant of AnalysisArrives: whatever arrives is shown.
AnalysisArrivesUnasked(r) ==
  /\ r \in requests /\ r.kind = "analysis" /\ server[r.poll.job] = "COMPLETED"
  /\ phase' = "done" /\ analysis' = r.poll.job
  /\ requests' = (requests \ {r}) \cup {Details(r.poll.job)}
  /\ UNCHANGED <<job, details, active, generation, timer>> /\ Unmoved

\* finishWithAnalysis: the job counts, not the generation of the poll.
AnalysisArrives(r) ==
  /\ r \in requests /\ r.kind = "analysis" /\ server[r.poll.job] = "COMPLETED"
  /\ IF IsActive(r.poll.job)
     THEN /\ phase' = "done" /\ analysis' = r.poll.job
          /\ requests' = (requests \ {r}) \cup {Details(r.poll.job)}
     ELSE requests' = requests \ {r} /\ UNCHANGED <<phase, analysis>>
  /\ UNCHANGED <<job, details, active, generation, timer>> /\ Unmoved

\* An answer without an analysis is an error of the job, no answer at all one of
\* the poll.
AnalysisFails(r) ==
  /\ r.kind = "analysis" /\ Answered(r)
  /\ \/ phase' = IF IsActive(r.poll.job) THEN "error" ELSE phase
     \/ phase' = IF IsCurrent(r.poll) THEN "error" ELSE phase
  /\ UNCHANGED <<job, analysis, details, active, generation, timer>> /\ Unmoved

\* The details of the active job, or nothing.
DetailsArrive(r) ==
  /\ r.kind = "details" /\ Answered(r)
  /\ details' \in {details, IF IsActive(r.poll.job) THEN r.poll.job ELSE details}
  /\ UNCHANGED <<phase, job, analysis, active, generation, timer>> /\ Unmoved

Answer(r) ==
  \/ JobState(r) \/ JobStateFails(r) \/ StaleJobState(r)
  \/ AnalysisArrives(r) \/ AnalysisFails(r) \/ DetailsArrive(r)

Submitted == SubmissionFails \/ \E j \in Jobs : SubmissionAccepted(j)

\* JobPipeline, as far as the page can see it: a job ends, after retries or not.
JobMoves(j) ==
  /\ \/ /\ server[j] = "QUEUED" /\ server' = [server EXCEPT ![j] = "RUNNING"]
     \/ /\ server[j] = "RUNNING"
        /\ \E s \in {"COMPLETED", "FAILED"} : server' = [server EXCEPT ![j] = s]
  /\ UNCHANGED <<route, hook, requests, moves>>

-----------------------------------------------------------------------------

Init ==
  /\ server \in [Jobs -> {"Absent", "QUEUED", "COMPLETED"}]
  /\ \A j \in Jobs : server[j] = "Absent" <=> j \notin Linked
  /\ route = "home" /\ phase = "idle"
  /\ job = NoJob /\ analysis = NoJob /\ details = NoJob /\ active = NoJob
  /\ generation = 0 /\ timer = NoPoll /\ requests = {} /\ moves = 0

Page == RouteEffect \/ TimerFires

Next ==
  \/ \E to \in {"home", "elsewhere"} \cup Jobs : Navigate(to)
  \/ PressSubmit \/ Page \/ Submitted
  \/ \E r \in requests : Answer(r)
  \/ \E j \in Jobs : JobMoves(j)

Polls == [job : Jobs \cup {NoJob}, generation : 0 .. 2 * MaxMoves]
Requests == [kind : {"submit", "job", "analysis", "details"}, poll : Polls]

\* Effects and timers run, every request is answered or fails, and the backend
\* ends every job (JobPipeline's JobsEnd, where nothing is lost).
Fairness ==
  /\ WF_vars(RouteEffect) /\ WF_vars(TimerFires) /\ WF_vars(Submitted)
  /\ \A r \in Requests : WF_vars(r \in requests /\ Answer(r))
  /\ \A j \in Jobs : WF_vars(JobMoves(j))

Spec == Init /\ [][Next]_vars /\ Fairness
-----------------------------------------------------------------------------
(* Properties *)

TypeOK ==
  /\ server \in [Jobs -> {"Absent", "QUEUED", "RUNNING", "COMPLETED", "FAILED"}]
  /\ route \in {"home", "elsewhere"} \cup Jobs
  /\ phase \in {"idle", "submitting", "polling", "done", "error"}
  /\ {job, analysis, details, active} \subseteq Jobs \cup {NoJob}
  /\ generation \in 0 .. 2 * MaxMoves /\ timer \in Polls
  /\ requests \subseteq Requests /\ moves \in 0 .. MaxMoves

\* "Responses that arrive for any other job are ignored so they cannot overwrite
\* the current state": what is shown is of the one job that is tracked.
OnlyActiveShown ==
  /\ job = active
  /\ analysis \in {NoJob, active} /\ details \in {NoJob, active}
  /\ phase = "done" => analysis = active /\ active # NoJob

\* Restarting the polling leaves no second loop: at most one timer or request can
\* still go on.
Live ==
  {r \in requests : r.kind \in {"job", "analysis"} /\ IsCurrent(r.poll)}
    \cup IF IsCurrent(timer) /\ timer # NoPoll THEN {timer} ELSE {}

OneLoop == Cardinality(Live) <= 1

\* The page never shows progress that nothing is behind.
NeverWaitsForNothing ==
  /\ phase = "polling" => Live # {}
  /\ phase = "submitting" => Submission \in requests \/ Live # {}

\* When the user rests, the page comes to rest too: with a report or an error, and
\* of the job in the address bar, however submit, links and answers raced.
Settles ==
  <>[](/\ phase \in {"idle", "done", "error"}
       /\ route \in Jobs => active = route /\ phase # "idle")
================================================================================
