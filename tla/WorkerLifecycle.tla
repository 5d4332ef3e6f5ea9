---------------------------- MODULE WorkerLifecycle ---------------------------
(***************************************************************************)
(* The life of the process around its workers: the configuration and the   *)
(* dependency graph, the connects to MySQL, the pool of workers started by *)
(* a timer of the event loop, a signal that ends the loop, the pool        *)
(* stopped worker by worker, the database closed, the destructors.         *)
(*                                                                         *)
(* The main thread does all of that; the worker threads loop next to it    *)
(* over the queue.  What a worker does with a job is JobPipeline's.        *)
(***************************************************************************)
EXTENDS Settings, FiniteSets

CONSTANT RawSettings  \* the texts the environment variables may have

ASSUME LifecycleAssumption ==
  RawSettings \subseteq
    [form : {"absent", "garbage", "plain", "blank", "trailing"}, number : Int]

VARIABLES
  phase,        \* what the main thread does next
  raw,          \* the text of the environment variables; all have the same
  wanted,       \* the configured storage
  attempt,      \* the connect attempt
  storage,      \* the repositories that were built
  initialized,  \* Database::initialized_
  wired,        \* the dependency graph is complete
  timer,        \* the timer that starts the workers
  quit,         \* a signal asked the event loop to end
  pool,         \* JobWorkerPool: running_ and workers_
  at,           \* the worker that start or stop handles next
  thread,       \* the thread of each worker
  flags,        \* JobWorker: running_ and shutdown_requested_
  late          \* history: jobs taken by a worker that was told to stop

setup == <<raw, wanted, attempt, storage, wired>>
workersVars == <<pool, at, thread, flags, late>>
vars == <<phase, setup, initialized, timer, quit, workersVars>>

\* The workers there may be.
Workers == 1 .. MaxWorkerCount

NoFlags == [running |-> FALSE, shutdown |-> FALSE]

-----------------------------------------------------------------------------
(* Startup: the main thread *)

\* ApplicationFactory::create throws: main reports it and returns 1.
Misconfigured ==
  /\ phase = "configuring" /\ phase' = "exited"
  /\ UNCHANGED <<setup, initialized, timer, quit, workersVars>>

Configured ==
  /\ phase = "configuring"
  /\ phase' = IF wanted = "mysql" THEN "connecting" ELSE "wiring"
  /\ storage' = IF wanted = "mysql" THEN storage ELSE "memory"
  /\ UNCHANGED <<raw, wanted, attempt, wired, initialized, timer, quit, workersVars>>

Connects ==
  /\ phase = "connecting" /\ phase' = "wiring"
  /\ initialized' = TRUE /\ storage' = "mysql"
  /\ UNCHANGED <<raw, wanted, attempt, wired, timer, quit, workersVars>>

\* Mutant of ConnectFails: the last attempt is not made.
ConnectFailsEarly ==
  /\ phase = "connecting"
  /\ IF attempt + 1 < ConnectAttempts(raw)
     THEN attempt' = attempt + 1 /\ UNCHANGED <<phase, storage, initialized>>
     ELSE /\ phase' = "wiring" /\ storage' = "memory" /\ initialized' = FALSE
          /\ UNCHANGED attempt
  /\ UNCHANGED <<raw, wanted, wired, timer, quit, workersVars>>

\* An attempt fails; after the last one the repositories are in memory.
ConnectFails ==
  /\ phase = "connecting"
  /\ IF attempt < ConnectAttempts(raw)
     THEN attempt' = attempt + 1 /\ UNCHANGED <<phase, storage, initialized>>
     ELSE /\ phase' = "wiring" /\ storage' = "memory" /\ initialized' = FALSE
          /\ UNCHANGED attempt
  /\ UNCHANGED <<raw, wanted, wired, timer, quit, workersVars>>

\* The rest of the graph.  An exception is logged and leaves it half built, here
\* without workers; the server starts all the same.
Wire ==
  /\ phase = "wiring" /\ phase' = "starting"
  /\ wired' \in BOOLEAN
  /\ UNCHANGED <<raw, wanted, attempt, storage, initialized, timer, quit, workersVars>>

\* Drogon and the routes; the timer for the workers; the event loop.
StartServer ==
  /\ phase = "starting" /\ phase' = "loop"
  /\ timer' = IF wired THEN "armed" ELSE timer
  /\ UNCHANGED <<setup, initialized, quit, workersVars>>

\* Drogon or a route cannot be set up: the database is closed, run returns 1.
ServerFails ==
  /\ phase = "starting" /\ phase' = "destroying" /\ initialized' = FALSE
  /\ UNCHANGED <<setup, timer, quit, workersVars>>

-----------------------------------------------------------------------------
(* The event loop: the timer, and the end *)

\* JobWorkerPool::start, up to the workers: as many as WORKER_COUNT says.
TimerFires ==
  /\ phase = "loop" /\ timer = "armed" /\ timer' = "fired"
  /\ phase' = "startingPool" /\ at' = 1
  /\ pool' = [running |-> TRUE, workers |-> 1 .. WorkerCount(raw)]
  /\ UNCHANGED <<setup, initialized, quit, thread, flags, late>>

\* JobWorker::start: running_ comes first, and stays when there is no thread.
StartWorker ==
  /\ phase = "startingPool" /\ at \in pool.workers /\ at' = at + 1
  /\ flags' = [flags EXCEPT ![at] = [running |-> TRUE, shutdown |-> FALSE]]
  /\ thread' \in {thread, [thread EXCEPT ![at] = "ensuring"]}
  /\ UNCHANGED <<phase, setup, initialized, timer, quit, pool, late>>

PoolStarted ==
  /\ phase = "startingPool" /\ at \notin pool.workers /\ phase' = "loop"
  /\ UNCHANGED <<setup, initialized, timer, quit, workersVars>>

\* signalHandler, at any time after the loop has begun.
Signal ==
  /\ phase \in {"loop", "startingPool"} /\ quit' = TRUE
  /\ UNCHANGED <<phase, setup, initialized, timer, workersVars>>

\* A callback that runs, the start of the pool, is finished first.
LoopEnds ==
  /\ phase = "loop" /\ quit /\ phase' = "stopping" /\ at' = 1
  /\ UNCHANGED <<setup, initialized, timer, quit, pool, thread, flags, late>>

-----------------------------------------------------------------------------
(* Shutdown: the main thread again, for run and for the destructor of the pool *)

Stopping == phase \in {"stopping", "destroying"}

\* Mutant of StopWorker: the thread is joined before it is told to stop.
StopWorkerUnasked ==
  /\ Stopping /\ pool.running /\ at \in pool.workers
  /\ flags[at].running /\ ~flags[at].shutdown
  /\ thread[at] \in {"none", "ended"}
  /\ flags' = [flags EXCEPT ![at].shutdown = TRUE]
  /\ UNCHANGED <<phase, setup, initialized, timer, quit, pool, at, thread, late>>

\* JobWorker::stop, before the join.
StopWorker ==
  /\ Stopping /\ pool.running /\ at \in pool.workers
  /\ flags[at].running /\ ~flags[at].shutdown
  /\ flags' = [flags EXCEPT ![at].shutdown = TRUE]
  /\ UNCHANGED <<phase, setup, initialized, timer, quit, pool, at, thread, late>>

\* Mutant of JoinWorker: only an idle worker is waited for.
JoinWorkerImpatient ==
  /\ Stopping /\ pool.running /\ at \in pool.workers
  /\ flags[at].shutdown /\ thread[at] \in {"none", "ended", "working"}
  /\ at' = at + 1
  /\ flags' = [flags EXCEPT ![at].running = FALSE]
  /\ UNCHANGED <<phase, setup, initialized, timer, quit, pool, thread, late>>

\* The join, if there is a thread to join; then the next worker.
JoinWorker ==
  /\ Stopping /\ pool.running /\ at \in pool.workers
  /\ flags[at].shutdown /\ thread[at] \in {"none", "ended"}
  /\ at' = at + 1
  /\ flags' = [flags EXCEPT ![at].running = FALSE]
  /\ thread' = [thread EXCEPT ![at] = IF @ = "ended" THEN "joined" ELSE @]
  /\ UNCHANGED <<phase, setup, initialized, timer, quit, pool, late>>

PoolStopped ==
  /\ Stopping /\ pool.running /\ at \notin pool.workers
  /\ pool' = [running |-> FALSE, workers |-> {}]
  /\ UNCHANGED <<phase, setup, initialized, timer, quit, at, thread, flags, late>>

\* Mutant of ShutDown: the database goes first.
ShutDownAtOnce ==
  /\ phase = "stopping" /\ initialized' = FALSE
  /\ phase' = IF pool.running THEN phase ELSE "destroying"
  /\ UNCHANGED <<setup, timer, quit, workersVars>>

\* The pool is stopped, or never ran: Database::shutdown, and run returns.
ShutDown ==
  /\ phase = "stopping" /\ ~pool.running
  /\ phase' = "destroying" /\ initialized' = FALSE
  /\ UNCHANGED <<setup, timer, quit, workersVars>>

\* Application's members are destroyed; the pool's destructor stops it again.
Exit ==
  /\ phase = "destroying" /\ ~pool.running /\ phase' = "exited"
  /\ UNCHANGED <<setup, initialized, timer, quit, workersVars>>

Main ==
  \/ Misconfigured \/ Configured \/ Connects \/ ConnectFails \/ Wire
  \/ StartServer \/ ServerFails \/ TimerFires \/ StartWorker \/ PoolStarted
  \/ LoopEnds \/ StopWorker \/ JoinWorker \/ PoolStopped \/ ShutDown \/ Exit

-----------------------------------------------------------------------------
(* The worker threads: JobWorker::workerLoop *)

Moves(w, from, to) ==
  /\ thread[w] = from /\ thread' = [thread EXCEPT ![w] = to]
  /\ UNCHANGED <<phase, setup, initialized, timer, quit, pool, at, flags>>

\* ensureConsumerGroup, whatever it answers.
EnsureGroup(w) == Moves(w, "ensuring", "checking") /\ UNCHANGED late

\* Mutant of Check: a worker looks at the flag only once.
CheckOnce(w) == Moves(w, "checking", "consuming") /\ UNCHANGED late

\* The head of the loop.
Check(w) ==
  Moves(w, "checking", IF flags[w].shutdown THEN "ended" ELSE "consuming")
  /\ UNCHANGED late

\* consumeNext blocks for a second at most, then there is no message, or the
\* message is one whose job is unknown or ended and is acknowledged.
ConsumeNothing(w) == Moves(w, "consuming", "checking") /\ UNCHANGED late

\* Or there is a job, also for a worker that was told to stop while it waited.
TakeJob(w) ==
  /\ Moves(w, "consuming", "working")
  /\ late' = IF flags[w].shutdown THEN [late EXCEPT ![w] = @ + 1] ELSE late

\* The job is processed and its message settled, or an exception is caught.
FinishJob(w) == Moves(w, "working", "checking") /\ UNCHANGED late

Worker(w) ==
  EnsureGroup(w) \/ Check(w) \/ ConsumeNothing(w) \/ TakeJob(w) \/ FinishJob(w)

-----------------------------------------------------------------------------

Init ==
  /\ phase = "configuring" /\ raw \in RawSettings /\ wanted \in {"mysql", "memory"}
  /\ attempt = 1 /\ storage = "none" /\ initialized = FALSE /\ wired = FALSE
  /\ timer = "unset" /\ quit = FALSE /\ at = 1
  /\ pool = [running |-> FALSE, workers |-> {}]
  /\ thread = [w \in Workers |-> "none"] /\ flags = [w \in Workers |-> NoFlags]
  /\ late = [w \in Workers |-> 0]

Next == Main \/ Signal \/ \E w \in Workers : Worker(w)

\* The main thread runs, and so does every worker: each of its waits has a
\* deadline, the one of consumeNext and those of the clone.
Fairness == WF_vars(Main) /\ \A w \in Workers : WF_vars(Worker(w))

Spec == Init /\ [][Next]_vars /\ Fairness
-----------------------------------------------------------------------------
(* Properties *)

Phases ==
  {"configuring", "connecting", "wiring", "starting", "loop", "startingPool",
   "stopping", "destroying", "exited"}

Threads ==
  {"none", "ensuring", "checking", "consuming", "working", "ended", "joined"}

\* The last line: whatever the variables say, JobPipeline's assumptions hold.
TypeOK ==
  /\ phase \in Phases /\ raw \in RawSettings /\ wanted \in {"mysql", "memory"}
  /\ attempt \in 1 .. ConnectAttempts(raw) /\ storage \in {"none", "mysql", "memory"}
  /\ initialized \in BOOLEAN /\ wired \in BOOLEAN /\ quit \in BOOLEAN
  /\ timer \in {"unset", "armed", "fired"}
  /\ pool.running \in BOOLEAN /\ pool.workers \subseteq Workers
  /\ at \in 1 .. MaxWorkerCount + 1
  /\ thread \in [Workers -> Threads]
  /\ flags \in [Workers -> [running : BOOLEAN, shutdown : BOOLEAN]]
  /\ late \in [Workers -> Nat]
  /\ MaxRetryAttempts(raw) \in Nat /\ MaxBacklog(raw) \in Nat \ {0}

\* As long as a worker may touch a job, the database its repositories read and
\* write is open: it is closed only after the last worker has finished.
DatabaseOpenWhileWorking ==
  storage = "mysql" =>
    \A w \in Workers : thread[w] \in {"consuming", "working"} => initialized

\* The process ends without a thread in the middle of a job, however start, the
\* signal and the threads interleave.
NothingRunsAtExit ==
  phase = "exited" => \A w \in Workers : thread[w] \in {"none", "joined"}

\* A worker that was told to stop takes one more job at most, the one its last
\* read brings: it "stops accepting new work, finishes current job".
FinishesCurrentJob == \A w \in Workers : late[w] <= 1

\* Memory stands in for MySQL only after every configured attempt.
AllAttemptsMade ==
  wanted = "mysql" /\ storage = "memory" => attempt = ConnectAttempts(raw)

\* Every clone has a deadline within its bounds, and a number too large to be
\* one means the longest, not the default.
CloneAlwaysBounded ==
  LET timeout == CloneTimeoutSeconds(raw) IN
  /\ timeout \in 1 .. MaxCloneTimeout
  /\ raw.form = "plain" /\ raw.number > MaxCloneTimeout => timeout = MaxCloneTimeout

\* A signal ends the process: no worker, busy or idle, holds up the stop for good.
ShutdownCompletes == quit ~> phase = "exited"
===============================================================================
