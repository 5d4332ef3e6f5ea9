# Formal models of Cortex

TLA+ models of the Cortex code intelligence platform (C++20 backend, React
frontend), checked with TLC and, where it matters most, proved with TLAPS.
Paths below are relative to `src/`; `backend/` files are named without their
`backend/src` or `backend/include` prefix when the name is unique.

## The system

A client posts the URL of a GitHub repository. The HTTP thread stores a job row
and publishes the job's id on the Redis stream `cortex:jobs`. Worker threads read
the stream as the consumer group `cortex-workers`, clone the repository, scan it,
store the analysis and write the outcome into the job row. A failed attempt is
published again with a higher attempt number; a job that fails for good, or too
often, gets an entry in `cortex:jobs:dead`. The browser polls the job row and
then fetches the analysis.

### Inventory

| Part | State | Operations | What makes it correct |
|---|---|---|---|
| Submission: `RepositoryService`, `RepositoryController` | none of its own | `submitRepository` | an accepted job is processed; a refused one leaves nothing behind (it does, see *Findings*) |
| Dispatch queue: `RedisStreamJobQueue` | stream, dead-letter stream, group (last delivered id, pending lists), `groupEnsured_`, `commandMutex_` | `ensureConsumerGroup`, `isBackpressured`, `publishJob`, `consumeNext`, `ack`, `publishDeadLetter`, `getJobDispatchSnapshot`, `getQueueGroupSnapshot` | an entry has one owner; nothing unacknowledged is forgotten; the backlog is bounded |
| Worker: `JobWorker` | `running_`, `shutdown_requested_`, the thread, `lastFailureRetryable_`, `lastFailureReason_` | `start`, `stop`, `notifyJobAvailable`, `workerLoop`, `processJob`, `analyzeRepository`, `handleRetryOrDeadLetter` | work precedes acknowledgement; attempts are counted right; one worker per job |
| Pool: `JobWorkerPool`, `WorkerService` | `workers_`, `running_` | `start`, `stop`, `notifyJobAvailable` | every thread is joined before what it uses is closed |
| Job rows: `MySQLJobRepository`, `InMemoryJobRepository` | `jobs` table or map | `save`, `findById`, `dequeueNextJob`, `updateStatus`, `setStartedAt`, `setCompletedAt` | the status follows the life cycle and agrees with the streams |
| Analyses: `MySQLAnalysisRepository`, `InMemoryAnalysisRepository` | `analysis_results` table or map | `save`, `findByJobId` | a COMPLETED job has one |
| Process: `Application`, `Database`, `main` | which repositories are in use, one connection per thread, the event loop | `run`, `buildDependencyGraph`, `initialize`, `getConnection`, `shutdown`, the signal handler | a restart does not lose jobs; a shutdown ends, and cuts no job short |
| Child processes: `ProcessRunner` | child, pipe, deadline | `run` | the child is reaped once; timed out or exited, not both |
| Numeric settings: `EnvLimits`, `resolveWorkerCount`, `resolveMaxBacklog`, `maxRetryAttempts` | none | parsers | always within the documented range |
| URL validation: `UrlValidator` | none | `isValidRepositoryUrl`, `canonicalCloneUrl` | the canonical URL is accepted again and unchanged |
| Technology, health, insight, GitHub metadata services | result maps by job | `detectAndStore`, `evaluateAndStore`, `generateAndStore`, `fetchAndStore` | scores stay in range; what is called absent is absent (not always, see *Findings*) |
| Report: `AnalysisController`, `JobController` | none | `GET /analysis`, `GET /jobs`, `GET /jobs/{id}/details` | parts read one by one tell one story |
| Frontend tracker: `useAnalysisJob.js` | phase, active job, poll generation, timer | `submit`, `load`, `pollJob` | a late answer never touches a newer analysis |
| Metrics: `PrometheusMetricsService` | atomic counters, a gauge | `incrementJobs…`, `decrementJobsActive` | they agree with the outcomes |
| Tracing, logging | spans | | |
| `ServiceContainer`, `Config` | registrations, values | register, resolve, validate | a singleton is made once |

### How the parts interact

**Stores.** The publisher and the workers use two `RedisStreamJobQueue` objects on one stream
and one group; each object serialises its own commands with `commandMutex_` but
nothing spans two commands, and both share Redis with every earlier process. The
rows are shared between the HTTP threads, all workers and every restart. The only
coupling between the two stores is the order of the calls: insert, then publish;
read, work, write, publish, then acknowledge.

**Inside a worker.** A worker runs git through `ProcessRunner`, which sees only a pipe, a
clock and a process number, and then calls the four analysis services; their results
live in maps of the process that the HTTP threads read one after the other.
**Around it.** The main thread connects, wires, starts the pool from a timer of the event
loop, and takes it down after a signal. **In front of it.** The browser knows only answers, in
whatever order they come; metrics and details are read while everything goes on.

What is hard: the order of the calls among several workers; calls that fail, or
that succeed and whose reply is lost (the Redis clients time out after two
seconds); a crash between any two calls; the redelivery and the duplicates that
follow; `updateStatus` answering with *changed* rows; `findById` answering the same
for "no row" and "no answer"; MySQL being away at one start and back at the next.
`PROJECT.json` lists every hazard with its line and the property that covers it.

## Modules

| Module | What it holds |
|---|---|
| `JobPipeline` | submission, queue, workers, repositories, restart: the state machine, its properties and the mutants of its actions |
| `JobLifecycle` | abstract specification of one job, refined by `JobPipeline` |
| `Monitoring` | metrics and the details page, composed with `JobPipeline` |
| `ProcessRunner` | one call of `ProcessRunner::run`: parent, child, helper, pipe, deadline |
| `Settings` | the numbers of the environment as operators |
| `WorkerLifecycle` | startup, worker threads, signal, shutdown; uses `Settings` |
| `Checkout`, `Technology`, `HealthScore`, `Insight` | the detectors, scores and narratives as operators on a cloned repository |
| `Enrichment` | the attempts of one job that fill the result maps, and the report composed from them; uses the four above |
| `AnalysisTracker` | the page that follows a job, and the backend as far as it answers |
| `MCJobPipeline`, `MCMonitoring`, `MCProcessRunner`, `MCWorkerLifecycle`, `MCEnrichment`, `MCAnalysisTracker` | values of the constants for TLC |
| `JobPipelineProofs`, `JobMessageProofs`, `JobLifecycleProofs` | theorems about `JobPipeline` |
| `ProcessRunnerProofs`, `EnrichmentProofs`, `WorkerLifecycleProofs`, `AnalysisTrackerProofs`, `MonitoringProofs` | theorems about the module each is named after |

The modules meet at `JobPipeline`. `Monitoring` extends it and adds variables to its
steps. `ProcessRunner` and `Enrichment` are inside its `Analyze` and `SaveAnalysis`: what
they may answer (done, failed for now, failed for good) is what `Analyze` chooses among,
and `Enrichment` in turn relies on the one carrier that `WorkspaceExclusive` gives it.
`WorkerLifecycle` abstracts a worker's turn to one step and shows that the limits
`JobPipeline` assumes are what the settings yield. `AnalysisTracker` sees of the pipeline
only the statuses in `JobMoves`.

### JobPipeline and the code

One action is one Redis command or one SQL statement, with the code around it up
to the next one.

| State | Code |
|---|---|
| `status`, `stamps`, `analysed` | rows of `jobs` (status, `started_at`, `completed_at`) and `analysis_results` |
| `backend`, `shelved` | which repositories `Application::buildDependencyGraph` made; the MySQL rows a process running on memory does not see |
| `stream`, `delivered`, `pel`, `dead` | `cortex:jobs`, the group's last delivered id and pending lists, `cortex:jobs:dead`. A message id is a position in the stream |
| `pc`, `msg`, `reason` | where a worker thread is, the message it holds, `lastFailureReason_` |
| `sub` | where an HTTP request is, or how it was answered |
| `faults`, `crashes` | counters that bound a run |

| Actions | Code |
|---|---|
| `SaveJob`, `CheckBacklog`, `PublishFirst` | `RepositoryService::submitRepository` and the two commands of `publishJob` |
| `ConsumePending`, `ConsumeFresh`, `ConsumeNothing` | the two reads of `consumeNext`, and the empty turn of the loop |
| `LookUp` | `findById` in `workerLoop` and the branch on the status it returns |
| `MarkRunning`, `StampStarted`, `Analyze`, `SaveAnalysis`, `MarkCompleted`, `StampCompleted` | `processJob` and `analyzeRepository` |
| `Requeue`, `Republish`, `MarkFailed`, `StampFailed`, `PublishDeadLetter` | `handleRetryOrDeadLetter`, its two dead-letter branches joined |
| `Ack` | every `dispatchQueue_->ack` |
| `Crash` with `ReopenMySQL`, `ReopenMemory`, `FallBack`, `ComeBack` | the process dies at any point and starts again with the store it then finds |

Failed calls are inputs: `Faults` names the kinds that may happen. *Refused* means
not executed and reported as an error, *lost* executed and reported as an error,
which is how a timed out reply looks. In-memory repositories do not fail.

Abstractions: job ids are distinct model values; clone and scan are one step that
succeeds, fails for now or fails for good (`isRetryableFailure` and the exit
status decide which); the non-retryable reasons are one value; the enrichments
after the save are part of `SaveAnalysis`, because every one of them is `noexcept`
and its result is ignored; trace contexts, spans, log lines and the
one-second pauses after a failed publication are left out. `setStartedAt` and
`setCompletedAt` record that the column is set, not when.

### Monitoring and the code

| State | Code |
|---|---|
| `counts` | the atomics of `PrometheusMetricsService`: submitted, completed, failed, retried, dead-lettered, `jobsActive_` |
| `gauge` | per worker, how far `decrementJobsActive` is: it loads, then stores or subtracts |
| `uncounted` | submissions between `publishJob` and `incrementJobsSubmitted` |
| `row`, `answer` | a details request between `findById` and the Redis reads; what the step just taken answers |

`Work(w)` is a step of `JobPipeline` with the counters the code touches on its way;
`LoadActive`, `DecrementActive` and `CountSubmission` are the steps in between.
`ReadRow` and `ReadDispatch` are `GET /jobs/{id}/details`: all Redis reads of one request
hold `commandMutex_` of the object the workers use, so they are one step. Counters live
in the process, so the module is one life of it and has no crash.

### ProcessRunner and the code

| State | Code |
|---|---|
| `pc`, `fds`, `result`, `reaped` | the locals of `run`: position, pipe ends, `ProcessResult`, `reaped` |
| `child`, `ending`, `helper`, `writers` | git, how it ended, a process it spawned in its group, who holds the write end |
| `written`, `unread` | the content of the pipe, in chunks |
| `expired`, `sigchld` | the deadline; whether the kernel reaps unasked |
| `trouble`, `stray` | history: a call failed; a signal went to a number that is free for others |

Parent: `Resolve`, `OpenPipe`, `Fork`, `Adopt`, `Poll`, `Read`, `CloseRead`, `Wait`, `Kill`,
`Reap`, with `PollFails` and `AppendThrows` for a system call and an allocation that fail.
Beside it `Exec`, `ChildEnds`, `SpawnHelper`, `Write`, `WriteToClosed`, `CloseOutput`,
`HelperEnds`, and `Expire`. Deadline and slices of `poll` are one flag: an empty slice
leads back to `poll` and is no step. The output is counted in chunks, not bytes.

### Settings and WorkerLifecycle and the code

`Settings` has one operator per reader of an environment variable (`WORKER_COUNT`,
`JOB_MAX_RETRIES`, `JOB_MAX_BACKLOG`, `MYSQL_CONNECT_RETRIES`, the clone timeout). A text
is a form and a number; `std::stoi` accepts blanks before and text after the number, and
`parsePositiveCapped` accepts neither, but takes an overflow for the maximum.

| State | Code |
|---|---|
| `phase` | what the main thread does: `main`, `Application::run`, `shutdown`, the destructors |
| `wanted`, `attempt`, `storage`, `initialized` | the configured storage, the attempts of `Database::initialize`, what was built, `Database::initialized_` |
| `wired`, `timer`, `quit` | whether the graph is complete, the timer that starts the pool, the end of the event loop |
| `pool`, `at` | `JobWorkerPool::running_` and `workers_`, the worker its loops are at |
| `thread`, `flags` | each worker's thread, `running_` and `shutdown_requested_` |
| `late` | history: jobs a worker took after it was told to stop |

Main thread: `Misconfigured`, `Configured`, `Connects`, `ConnectFails`, `Wire`,
`StartServer`, `ServerFails`, `TimerFires`, `StartWorker`, `PoolStarted`, `LoopEnds`,
`StopWorker`, `JoinWorker`, `PoolStopped`, `ShutDown`, `Exit`; `Signal` at any time; each
worker `EnsureGroup`, `Check`, `ConsumeNothing`, `TakeJob`, `FinishJob`. A thread that
cannot be created leaves `running_` set, which `StartWorker` chooses. `Wire` may fail and
leaves a server without workers, as the `catch` in `buildDependencyGraph` does.

### Enrichment and the code

A checkout maps paths to the words that the searches of the detectors find in the file;
a search is a membership test. `Technology` has a table per category, as the detectors
have; `HealthScore` the seven categories, their grades and the claims made from them;
`Insight` the claims made from up to four results.

| State | Code |
|---|---|
| `checkouts` | the clones made so far; results name theirs, which the code cannot |
| `metadata`, `technology`, `health`, `insight` | the result maps of the four services, for one job |
| `analysis`, `status`, `durable` | the rows, and whether they are in MySQL |
| `pc`, `attempts` | the attempt under way |
| `get` | `GET /analysis`: the maps read so far, whether the job was COMPLETED when it began |

Actions: `StartAttempt` to `Complete` and `RetryOrGiveUp` for an attempt, `GetAnalysis` to
`GetInsight` for a reader (with the fetch of missing metadata in it), `Restart`. A step
whose service throws leaves the result of an earlier attempt in its map.
A status write of `StartAttempt` or `RetryOrGiveUp` may fail: the first ends the attempt
before the clone, the second leaves the status as it was.

The helpers that look at files (`fileExists`, `readFileAnywhere`, the list of common
subdirectories) stand in the code twice, alike (TechnologyService.cpp:42-104,
RepositoryHealthService.cpp:56-127), and once in `Checkout`: `DetectorsAgree` would not see
those two copies part. `hasGitHubWorkflow`, whose copies carry tables of their own, is a
definition of each service's module.

### AnalysisTracker and the code

| State | Code |
|---|---|
| `phase`, `job`, `analysis`, `details` | the state of the hook `useAnalysisJob` |
| `active`, `generation`, `timer` | `activeJobIdRef`, `pollGeneration`, `pollTimeout` |
| `route`, `requests`, `server` | the address, requests under way, the job rows |

`Navigate` and `PressSubmit` are the user; `RouteEffect`, `TimerFires` the page;
`SubmissionAccepted`, `SubmissionFails`, `JobState`, `JobStateFails`, `StaleJobState`,
`AnalysisArrives`, `AnalysisFails`, `DetailsArrive` the answers, in any order. A handler
runs to its next `await` in one step, as JavaScript does.

## Runs

| Run | Instance | Shows |
|---|---|---|
| `pipeline_clean` | 2 jobs, 2 workers, backlog 2, 2 clean failures, no crash | `OneCarrier`, `WorkspaceExclusive`, `FalseMeansMissing`, and the refinement `Lifecycle` of `JobLifecycle` |
| `pipeline_restart` | 1 job, 2 workers, 1 retry, 2 failed calls but no refused statement, 2 crashes, MySQL coming and going | `TypeOK`, `MessageOwnership`, `RetriesExhausted`, `CompletedHasAnalysis` |
| `pipeline_live` | 1 job, 2 workers, 1 retry, 2 failed calls that hide no row, 1 crash, either store, fair, no symmetry | `NoJobLost`, `AcceptedJobSettles`, `BacklogDrains` |
| `monitoring` | 2 jobs, 2 workers, 1 retry, backlog 2, 1 clean failure, details of one job | `ActiveIsBusy`, `TotalsAtRest`, `DetailsAgree`, `AnswersAdvance` |
| `worker_lifecycle` | up to 3 workers, every setting on both sides of its bounds | `TypeOK`, `DatabaseOpenWhileWorking`, `NothingRunsAtExit`, `FinishesCurrentJob`, `AllAttemptsMade`, `CloneAlwaysBounded`, `ShutdownCompletes` |
| `process_runner` | an output cap of 2 chunks, 3 written | `TypeOK`, `SuccessIsReal`, `FailureHasReason`, `NothingLeftBehind`, `NoStrayKill`, `DescriptorsClosed`, `OutputCapped`, `Returns` |
| `enrichment` | 14 repositories, 2 attempts, 1 restart, 4 answers of GitHub | `TypeOK`, `HealthInRange`, `DetectorsAgree`, `ClaimsOfAbsence`, `SettledReport` |
| `tracker` | 1 job behind a link and 1 submitted, 4 moves of the user | `TypeOK`, `OnlyActiveShown`, `OneLoop`, `NeverWaitsForNothing`, `Settles` |
| `queued_forever` | no failure, 2 jobs, backlog 1 | violation of `QueuedIsWaiting` |
| `unknown_job_dropped` | 1 failed SELECT | violation of `UnknownHasNoRow` |
| `ended_job_restarts` | 1 crash, no failed call | violation of `TerminalIsFinal` |
| `dead_letter_dropped` | 1 refused XADD, no crash | violation of `SettledRowIsComplete` |

Every passing run explores its instance completely: from 9,600 states (`process_runner`)
to 6.0 million (`pipeline_restart`). Deadlock is checked in the runs of the pipeline and in
`monitoring`: an idle worker polls, so that system never stops. The other four end or rest
by design (`run` returns, the process exits, the attempts are used up, the user has no move
left), and say so with `CHECK_DEADLOCK FALSE`; `Returns`, `ShutdownCompletes` and `Settles`
then tell an end from a standstill.

### The bounds

**Pipeline.** Two workers are the fewest that can hold two copies of a
job's message. One job is enough for the properties about one job's messages,
because workers choose entries by position and never by job; `pipeline_clean` has
two for the ones that compare jobs and for the backlog. One retry gives an attempt
that is retried and one that is the last. A failure plus a crash gives the shortest
duplicate and its recovery; two crashes give a MySQL outage and its end. The bound
on failed calls, crashes and jobs makes the streams finite without a state
constraint.

The fault sets are conditions, not conveniences. `AnyFault` leaves out a failed
SELECT and a failed MySQL connection, which hide a row from the worker and do lose
jobs (`unknown_job_dropped`). `CleanFaults` leaves out the failures that leave a
second copy of a message, and a status write reported as failed although it was done,
after which `OneCarrier`, `WorkspaceExclusive`, `FalseMeansMissing` and the life cycle do
break (`ended_job_restarts`; for `FalseMeansMissing` a crash or a refused XACK is enough).
`NothingRefused` leaves out refused writes: a refused analysis insert goes unnoticed by
design. `SettledRowIsComplete` is checked only where it fails: a refused dead letter breaks
it (`dead_letter_dropped`), and so does a crash between a status and its timestamp, which are
two statements. `EndedRowIsComplete` proves it without either.

What `RetriesExhausted` does not say: that an attempt did any work. A refused write of
RUNNING ends an attempt before its clone, and an XADD whose reply was lost publishes the next
attempt twice. `FalseMeansMissing` says that nothing but a failed call or a missing row ends an
attempt at a status write.

**Monitoring.** Two workers are needed to enter and leave `processJob` together. The
failures are the clean ones, and there is no crash, because a message delivered twice is
counted twice and the counters begin again with the process: totals are the truth only
without them. A dead letter whose XACK fails is never counted at all, although its HELP
line says "Total number of jobs moved to dead-letter stream"
(`PrometheusMetricsService.cpp:123`); `TotalsAtRest` therefore speaks of the state in which
nothing is unacknowledged. The failed counter counts dead letters, not FAILED rows. Its HELP
line says "Total number of jobs that permanently failed" (line 115), but a refused dead letter
leaves a FAILED job that is never counted, and a refused FAILED write counts a job whose row
says RUNNING: `TotalsAtRest` bounds such jobs by the calls that failed, so without a failed
call there is none.

**Process runner.** Three chunks against a cap of two give an output that fits, one that is cut
within a read and one that arrives after the cap. One helper stands for all processes git
leaves: only whether some writer or some member of the group is left matters.

**Settings.** `IntMax`, `LongMax` and the documented limits are shrunk (7, 10, 3, 5) so that
below, at and above each of them, negative numbers and every form of text are tried. The
same text is given to all variables, since no reader looks at two of them.

**Enrichment.** `MCTrees` has every subset of three files that are evidence in different
categories, and repositories at the extremes (exemplary, a monorepo, a scientific one,
security files only in `.github`, dependabot.yml and a linter with nothing else). Two attempts and a restart give a result of an earlier
attempt beside one of a later, and maps that are gone while the row says COMPLETED.

**Tracker.** Four moves leave a job, submit another, return and leave again, so answers of
two abandoned loops can be late at once.

### Fairness

- `JobPipeline` (`FairSpec`): weak fairness on every started HTTP request and on every
  worker's loop. Both are threads of the running process that no action of another
  thread can disable, and after a crash the pool starts them again. No fairness on
  `SaveJob` (clients need not submit) or `Crash`, none between the alternatives of a
  step: a repository may fail in every attempt, and liveness holds all the same
  because attempts are bounded. Failed calls are bounded, which stands for "the
  stores come back eventually".
- `ProcessRunner`: weak fairness of the parent, a thread of the running process, and of
  `Expire`, the clock. None for the child and its helper: `run` must return whatever git does.
- `WorkerLifecycle`: weak fairness of the main thread and of each worker. None for
  `Signal`: `ShutdownCompletes` speaks of what follows one.
- `AnalysisTracker`: weak fairness of the page's effect and timer, of every answer and of the
  jobs. The last is what `AcceptedJobSettles` shows of the pipeline. That every request is
  answered or fails is the browser's and the server's doing: `fetch` is called without a
  timeout, and an answer that never comes leaves the page at "submitting" or "polling".
  None for the user.
- `Enrichment` and `Monitoring` state no liveness and no fairness.

## Findings

- `queued_forever`: the row is inserted before the backlog check, so a submission
  answered with 429 leaves a row that says QUEUED for ever, which `Job.h:28` calls
  "waiting to be processed".
- `unknown_job_dropped`: `findById` maps an SQL error to "not found"
  (`IJobRepository.h:43` promises `nullopt` when there is no such job), and the
  worker then acknowledges the message: the job is lost.
- `ended_job_restarts`: a crash after a retry was published and before the failed
  attempt was acknowledged leaves two messages of the job; both workers pass the
  terminal check before either writes, and a terminal status is overwritten,
  although `docs/API.md:100` lets clients stop at the first one.
- `dead_letter_dropped`: FAILED is written before the dead letter. When Redis refuses the
  dead letter the worker logs "leaving message pending" (`JobWorker.cpp:390`), reads that
  message again, finds a terminal row and acknowledges it: the entry that
  `frontend/src/pages/Architecture.jsx:174` promises is never written, and the counters it
  says increase (line 181) do not.

Seen while modelling, and stated in the properties only at the strength the code has:

- Narratives report as absent what is there. The health warnings are "Notable absences or
  risks" (`RepositoryHealthResult.h:65`), but with dependabot.yml and no security policy the
  score says "Dependabot not configured" (`RepositoryHealthService.cpp:547`) and the insight
  "No automated dependency updates" (`RepositoryInsightService.cpp:492`); with a linter and no
  formatter, .editorconfig or lockfile both say "No code quality tooling" (`:550`, `:503`).
  `ClaimsOfAbsence` holds the other claims to their words, and these four to what is left:
  dependabot.yml beside a policy, or a linter beside a formatter, is not reported absent.
  A risk also claims absence when no health or technology result is stored, and "no automated
  testing" is said of a clone with a tests directory or with Cypress. Claims that something
  is *there* are made from the same sums and may be false too (security 8 without Dependabot
  is "policy + Dependabot"); no property covers them.
- `updateStatus` answers with changed rows. While a job has one message, no attempt fails
  because of it (`FalseMeansMissing`). With two, from a crash between XADD and XACK or a
  refused XACK, both workers may read QUEUED, and the second RUNNING changes no row, is
  answered with "Job not found" and fails its attempt.

## Proofs

The theorems are about the specifications the runs check, for arbitrary sets of jobs and
workers, arbitrary limits, repositories, answers, failures and numbers of crashes. Each rests
only on the assumption about its module's constants, which TLC evaluates in every run:

| Assumption | Says |
|---|---|
| `PipelineAssumption` | the limits are naturals, the backlog limit positive, backends and failures among the ones named |
| `MonitoringAssumption` | the watched job is one of the jobs |
| `RunnerAssumption` | cap and output are naturals |
| `SettingsAssumption`, `LifecycleAssumption` | widths and limits are positive and ordered as in the code; a text has a form and a number |
| `EnrichmentAssumption` | there is a repository to clone and an attempt to make; hosts are the two spellings of GitHub's |
| `TrackerAssumption` | linked jobs are jobs, `NoJob` and the home page are none, the number of moves is a natural |

No finiteness of `Jobs` or `Workers` is used anywhere.

| Module | Theorems (property) |
|---|---|
| `JobPipelineProofs` | `TypeCorrect` (`TypeOK`), `Ownership` (`MessageOwnership`) |
| `JobMessageProofs` | `NoLoss`: `RowsVisible` implies `Spec => []NoJobLost`; `RetriesUsed` (`RetriesExhausted`) |
| `JobLifecycleProofs` | `CompletedIsFetchable` (`CompletedHasAnalysis`), when no statement is refused; `EndedRowIsComplete` (`SettledRowIsComplete`), when no statement and no XADD is refused and nothing crashes; with `NoSecondCopy`: `OneCarrierAlways` (`OneCarrier`), `OneWorkerPerJob` (`WorkspaceExclusive`); with `WritesAreKnown` as well: `PipelineImplementsLifecycle` (`Lifecycle`), `FalseIsFailure` (`FalseMeansMissing`), `EndedForGood` (`TerminalIsFinal`); with no refused write either: `DeadLetterMeansFailed`, and with `RowsVisible` on top `AcceptedWaits`; `UnknownIsUnknown`: `RowsVisible` implies `Spec => []UnknownHasNoRow` |
| `MonitoringProofs` | `WatchedPipeline` (`WatchSpec => Spec`), `GaugeIsExact` (`ActiveIsBusy`); with `NoSecondCopy`: `PageAdvances` (`AnswersAdvance`); with `WritesAreKnown` as well: `PageIsTrue` (`DetailsAgree`); with `AcksAreKnown` on top: `TotalsAreTrue` (`TotalsAtRest`) |
| `ProcessRunnerProofs` | `RunnerTypes` (`TypeOK`), `SuccessMeansExitZero` (`SuccessIsReal`), `NoFalseFailure` (`FailureHasReason`), `CleanReturn` (`NothingLeftBehind`), `SignalsHitTheirTarget` (`NoStrayKill`), `NoDescriptorLeak` (`DescriptorsClosed`), `OutputIsHonest` (`OutputCapped`) |
| `WorkerLifecycleProofs` | `LifecycleTypes` (`TypeOK`), `DatabaseStaysOpen` (`DatabaseOpenWhileWorking`), `AllJoined` (`NothingRunsAtExit`), `StopIsHeeded` (`FinishesCurrentJob`), `FallBackIsLast` (`AllAttemptsMade`), `CloneTimeoutBounded` (`CloneAlwaysBounded`) |
| `EnrichmentProofs` | `EnrichmentTypes` (`TypeOK`), `HealthScoreInRange` (`HealthInRange`), `AbsenceClaims` (`ClaimsOfAbsence`), `OneStory` (`SettledReport`), `SameEvidence` (`DetectorsAgree`) |
| `AnalysisTrackerProofs` | `TrackerTypes` (`TypeOK`), `ShownIsActive` (`OnlyActiveShown`), `OneLoopAtATime` (`OneLoop`), `NoEndlessProgress` (`NeverWaitsForNothing`) |

Few of these properties are inductive. The invariants behind them, and why they are needed:

- **Pipeline: type and ownership.** `TypeOK` alone is not inductive: `PublishDeadLetter` needs
  the reason to be set, and reading a held message needs the message to be pending.
  `TypeInv` adds `MessageOwnership` and `ReasonGiven` (a worker about to write
  FAILED or a dead letter has a reason). One lemma per group of actions
  (`MoveType`: a worker goes on with the same message; `ReleaseType`: it lets go;
  `HoldType`: it takes one; `CrashType`) keeps the case split small.
- **Pipeline: no loss.** `LossInv` adds to `TypeInv` and `NoJobLost` that nothing is shelved
  and that a job with an entry has been saved first (`PublishedAfterSave`). The
  argument follows the entry that carries a job: a step other than `Ack` leaves it
  a carrier (`CarrierStays`), publishing creates one (`NewCarrier`), and `Ack`
  removes it only from a pc at which the job has its outcome, its dead letter or a
  newer entry. `RowsVisible` says that `select_failed` and `connect_failed` are
  not among the failures. It is needed: without it the step lemma for `LookUp` is
  false, as `unknown_job_dropped` shows.
- **Pipeline: retries.** `RetryInv` strengthens `RetriesExhausted` to the stream itself: an
  entry with attempt *a* has entries of the same job with every smaller attempt
  beside it (`Chains`), attempts never exceed `MaxRetries`, and a worker that gives up
  because attempts ran out holds the last one (`Counted`). Entries are never
  removed from the stream, so every call that fails or is repeated only adds to it.
- **Pipeline: what an ended row says.** `AnalysedInv` adds to `CompletedHasAnalysis` the worker
  between the two statements, and the tables a fall back to memory has shelved: they come
  back. It needs only that no write is refused, and holds through crashes. `RowInv`
  names, for each job that has ended without a stamp or a dead letter, a worker that still
  pursues it; its conditions also exclude a crash, which ends the pursuit between status and
  stamp, and a refused XADD, after which the next look-up acknowledges a FAILED job without a
  dead letter. `dead_letter_dropped` shows that the last one is needed.
- **Pipeline: one message, one worker.** `NoSecondCopy` excludes the three ways to a second
  copy of a message: a retry that was published although XADD reported a failure, a
  refused XACK, and a crash between the two. `CleanInv` says that no job has two carriers, that
  the carrier is the newest entry (`MessageInv`), and that nothing is published of a job before
  its submission gets there (`Unpublished`). `Republish` is the step that matters: at the
  moment the retry appears, the worker's own message is about to be acknowledged and
  carries nothing any more.
- **Pipeline: one life.** `WritesAreKnown` excludes a status write that is done and reported as
  failed, after which a COMPLETED job is put back in the queue. `RowsInv` then says that the
  status of a job is the one its worker relies on. It needs `CleanInv`: whoever writes a
  row holds a carrier of the job, so no other worker relies on it. The refinement follows action by
  action: a write is a move of the job, a retry is `Redispatch`, since the attempt in the
  worker's hand is the highest published (`RetryAdvances`), everything else is a stutter.
  `FalseIsFailure` reads the same invariant the other way (`WritesAreNew`): a worker that is
  about to write a status relies on a row with another one, so the write changes it.
- **Pipeline: when row, messages and dead letters agree.** Three theorems bound the findings and
  a hazard from the other side. `UnknownIsUnknown` takes `LossInv` and the worker about to
  drop its message: only `LookUp` sends it there, and the row cannot appear later, since
  the job's entry shows that its submission is past the INSERT. `DeadLetterMeansFailed` needs `ReportInv`:
  from the FAILED write to the dead letter the row says FAILED, because the row was the worker's
  to write (`RowsInv`) and nobody leaves a terminal status (`EndedStays`, from the refinement).
  A refused write is excluded, because the worker does not look at the answer.
  `AcceptedWaits` joins the two invariants: an accepted job has an entry, is not lost, and, while
  it has not FAILED, has no dead letter, so an entry of it carries it.
- **Monitoring.** Every step of `WatchNext` is a step of the pipeline or leaves it alone
  (`WatchStep`), so the theorems above hold of the watched pipeline too. `GaugeInv` says that a
  worker is counted in exactly while it is among the calls of `processJob`, and that what it
  has loaded is at least one: it has not been taken away yet itself. So the store of zero is
  never taken, and the gauge stays exact although load and subtraction are apart.
- **Monitoring: the page.** `LetterInv` says that the entries of a job are in the order of their attempts
  and that a dead letter is the last word: one for the job, and no carrier left beside it. With
  `CleanInv` this makes every step of the two streams a step forward of what
  `getJobDispatchSnapshot` finds (`PageAdvances`). That the two reads of a page agree although the
  pipeline moves in between needs `PageInv`: a row that was terminal when it was read is so
  for good, and no job is both COMPLETED and given up (`NeverBoth`). This is where
  `RowsInv` comes in, and with it `WritesAreKnown`.
- **Monitoring: the totals.** `TotalsInv` gives each counter its set at every moment, at rest or not: what the
  counter says plus what a thread has done and not yet counted is the number of accepted jobs,
  retries, dead letters and COMPLETED jobs. `AcksAreKnown` is needed because a retry or dead letter is
  counted after its XACK, and only if that was answered. The sets are finite because each of their
  elements was added by a step; `Jobs` need not be. The jobs whose row and dead letter disagree
  (`Missed`) are bounded by the failed calls: a worker on its way from the FAILED write to the
  dead letter either gets both done or has been refused one, and `faults` has grown
  (`MissedStep`).
- **Process runner.** `IInv` is `TypeOK` with five parts: which ends of the pipe are open at
  which position (`PipeInv`), that the result names an ending only once the child is reaped
  (`ResultInv`), that a kill follows the deadline or a failed call (`DeadlineInv`), when
  there is a child, and that it is gone unasked only if SIGCHLD is ignored (`ChildInv`), and
  how much of the output has been kept (`OutputInv`).
- **Worker lifecycle.** `IInv` joins the types of the main thread, its switches and the
  workers to four facts: MySQL stays initialised until the destructors run, and memory takes
  its place at the last attempt only (`StorageInv`); only a worker of the running pool has a
  running thread (`PoolInv`); those the stop has passed are joined (`JoinedInv`); a worker
  that was not told to stop, or is still waiting for its message, has taken no job too many
  (`LateInv`). The bounds of the settings are lemmas about the operators
  (`SettingsInBounds`).
- **Enrichment.** That scores stay in range and what a claim of absence excludes are
  facts about the operators: lemmas for each category and claim, for every repository.
  `ContentsInv` carries them to the steps: a result is always what the operator gives
  for the clone it names. That the two services find the same evidence compares their two tables row
  by row: each provider of the one is a system of the other (`SystemsAreProviders`), and the
  score of a category says which documents were seen (`ScoreOfDocumentation`). `SettledInv` says that while the job is COMPLETED, or a report is
  being read that began so, the results agree with each other; it is where a restart matters,
  since it empties the maps at once and leaves none behind.
- **Tracker.** `LoopInv` is the reason the generation counter works: the loops under way have
  different generations, the present one has one request or the timer, and the timer never
  belongs to an earlier one. `WaitInv` and `SubmitInv` tie the phase to what is still to come.
  The second holds because `App.jsx:71` does not load while a submission is out. The bound in
  `TypeOK` says that a move of the user stops the polling at most twice; `BoundInv` counts the
  stops still owed for what was done already, two for a link that is not tracked yet, one
  for a submission without an answer.

Only model-checked:

- liveness (`AcceptedJobSettles`, `BacklogDrains`, `Returns`, `ShutdownCompletes`, `Settles`):
  fairness and `ENABLED` are out of the prover's reach.

Every invariant and every action property of a passing run, and the refinement, is a theorem,
under hypotheses on `Faults` and `MaxCrashes` that the run meets. The run checks the failures it names on a
small instance; the theorem says which failures the property depends on.

## Not modelled, and why

- Redis itself losing data or trimming the stream: nothing in the code trims, and
  durability is the server's configuration. Entries that cannot be parsed
  (`parseStreamMessage` answers `nullopt`): the program publishes none.
- Creation of the consumer group: assumed done. When `ensureConsumerGroup` fails,
  `publishJob` and `consumeNext` answer as after a refused XADD or an empty read.
- A change of `WORKER_COUNT` between restarts. Pending entries are read only by the consumer
  that owns them (there is no XCLAIM), so a smaller pool leaves those of the missing workers
  where they are; this is listed as a hazard.
- The branch of `workerLoop` without a queue and `dequeueNextJob`: the application always gives
  the workers a queue, so neither is reached. `notifyJobAvailable` wakes nobody then.
- Jobs of the in-memory repository after a restart: their rows are gone with the
  process, as `README.md:230` says, and `NoJobLost` speaks of rows that exist.
- The connection each thread keeps (`Database::getConnection`) and its replacement; an
  exception out of the event loop, and running out of memory while the pool starts.
- URL validation, datetime conversion, identifiers: character-level parsing. What follows from
  a refused URL (the job fails for good) is an input of `Analyze`.
- Prose of insights and reports: which claim is made is modelled, its wording is not. Of the
  GitHub metadata, only what other parts read.
- The histograms, the HTTP counters and `GET /system/summary`, whose parts are read one by one
  and promise no common moment.
- Configuration files (only whether reading them fails matters to the start; the validator is
  called by nothing), the service container (the application wires by hand), tracing,
  logging, rendering, packaging: no state that another part acts on.

## Plan

What would come next, in order of importance:

1. Which weaker promises survive crashes and second copies of a message: what the page and the
   totals may then say, as theorems without `NoSecondCopy`.
2. The consumer group: its creation at `$`, the cached flag, a pool that shrinks.
3. Requests between XINFO and XADD: how far the backlog can exceed its limit.
4. `UrlValidator` and the datetime conversions as operators against reference definitions.

## Running

    tlc -workers 2 -config pipeline_restart.cfg MCJobPipeline
    tlc -workers 2 -config monitoring.cfg MCMonitoring
    tlapm JobLifecycleProofs.tla

The module of a run is the `MC` module of its part (`PROJECT.json` lists the pairs). The
longest runs (`pipeline_restart`, `pipeline_live`, `monitoring`) take about two minutes; a proof module takes seconds to a minute.
