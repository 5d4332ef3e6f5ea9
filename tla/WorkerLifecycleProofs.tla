------------------------ MODULE WorkerLifecycleProofs ------------------------
(***************************************************************************)
(* Theorems about WorkerLifecycle, for any number of workers, any bounds   *)
(* of the settings and any texts in the environment.                       *)
(***************************************************************************)
EXTENDS WorkerLifecycle, TLAPS

\* Whatever the environment says, each setting is within its bounds.
LEMMA SettingsInBounds ==
  ASSUME raw \in RawSettings
  PROVE  /\ WorkerCount(raw) \in 1 .. MaxWorkerCount
         /\ ConnectAttempts(raw) \in Nat \ {0}
         /\ MaxRetryAttempts(raw) \in Nat /\ MaxBacklog(raw) \in Nat \ {0}
         /\ CloneTimeoutSeconds(raw) \in 1 .. MaxCloneTimeout
<1>1. raw.number \in Int
  BY LifecycleAssumption
<1> QED
  BY <1>1, SettingsAssumption
  DEF WorkerCount, ConnectAttempts, MaxRetryAttempts, MaxBacklog, Parses,
      DefaultRetries, DefaultMaxBacklog, CloneTimeoutSeconds, ParsePositiveCapped

-----------------------------------------------------------------------------
(* The inductive invariant *)

\* The main thread's own variables, and the workers'.
MainTypes ==
  /\ phase \in Phases /\ raw \in RawSettings /\ wanted \in {"mysql", "memory"}
  /\ attempt \in 1 .. ConnectAttempts(raw) /\ storage \in {"none", "mysql", "memory"}
  /\ timer \in {"unset", "armed", "fired"} /\ at \in 1 .. MaxWorkerCount + 1

Switches ==
  initialized \in BOOLEAN /\ wired \in BOOLEAN /\ quit \in BOOLEAN

WorkerTypes ==
  /\ pool \in [running : BOOLEAN, workers : SUBSET Workers]
  /\ thread \in [Workers -> Threads]
  /\ flags \in [Workers -> [running : BOOLEAN, shutdown : BOOLEAN]]
  /\ late \in [Workers -> Nat]

\* The storage is chosen while connecting, once, and MySQL stays open until the
\* application is torn down.
StorageInv ==
  /\ phase \in {"configuring", "connecting"} => storage = "none"
  /\ storage = "mysql" /\ phase \notin {"destroying", "exited"} => initialized
  /\ wanted = "mysql" /\ storage = "memory" => attempt = ConnectAttempts(raw)

\* A thread runs only for a worker of the running pool, and the pool runs only
\* between the timer and the end of the stop.
PoolInv ==
  /\ pool.running =>
       /\ phase \in {"loop", "startingPool", "stopping"} /\ timer = "fired"
       /\ pool.workers = 1 .. WorkerCount(raw)
  /\ phase = "startingPool" => pool.running
  /\ \A w \in Workers :
       thread[w] \notin {"none", "joined"} => pool.running /\ w \in pool.workers

\* The stop has joined what it has passed.
JoinedInv ==
  phase = "stopping" =>
    \A w \in Workers : w < at => thread[w] \in {"none", "joined"}

\* A worker that was not told to stop, or was told while it waits for a message,
\* has taken no job too many.
LateInv ==
  /\ phase \notin {"stopping", "destroying", "exited"} =>
       \A w \in Workers : ~flags[w].shutdown
  /\ \A w \in Workers :
       /\ late[w] <= 1
       /\ ~flags[w].shutdown \/ thread[w] = "consuming" => late[w] = 0

IInv ==
  /\ MainTypes /\ Switches /\ WorkerTypes
  /\ StorageInv /\ PoolInv /\ JoinedInv /\ LateInv

LEMMA InitIInv == Init => IInv
<1> SUFFICES ASSUME Init PROVE IInv OBVIOUS
<1> USE DEF Init
<1>1. MainTypes BY SettingsInBounds, SettingsAssumption DEF MainTypes, Phases
<1>2. Switches BY Zenon DEF Switches
<1>3. WorkerTypes BY DEF WorkerTypes, Threads, NoFlags
<1>4. StorageInv /\ PoolInv /\ JoinedInv /\ LateInv
  BY DEF StorageInv, PoolInv, JoinedInv, LateInv, NoFlags
<1> QED BY <1>1, <1>2, <1>3, <1>4 DEF IInv

-----------------------------------------------------------------------------
(* The steps of the main thread, and the signal *)

LEMMA MainMainTypes == IInv /\ (Main \/ Signal) => MainTypes'
<1> SUFFICES ASSUME IInv, Main \/ Signal PROVE MainTypes' OBVIOUS
<1> USE DEF IInv, setup, workersVars
<1>1. CASE Misconfigured \/ Configured \/ Connects \/ Wire \/ StartServer \/
         ServerFails \/ PoolStarted \/ StopWorker \/ PoolStopped \/ ShutDown \/
         Exit \/ Signal
  BY <1>1
  DEF Misconfigured, Configured, Connects, Wire, StartServer, ServerFails,
      PoolStarted, StopWorker, PoolStopped, ShutDown, Exit, Signal, MainTypes,
      Phases
<1>2. CASE ConnectFails
  BY <1>2, SettingsInBounds
  DEF ConnectFails, MainTypes, Phases
<1>3. CASE TimerFires \/ LoopEnds
  BY <1>3, SettingsAssumption
  DEF TimerFires, LoopEnds, MainTypes, Phases
<1>4. CASE StartWorker \/ JoinWorker
  BY <1>4, SettingsAssumption
  DEF StartWorker, JoinWorker, MainTypes, WorkerTypes, Phases, Workers
<1> QED BY <1>1, <1>2, <1>3, <1>4 DEF Main

LEMMA MainSwitches == IInv /\ (Main \/ Signal) => Switches'
<1> SUFFICES ASSUME IInv, Main \/ Signal PROVE Switches' OBVIOUS
<1> USE DEF IInv, setup, workersVars
<1>1. CASE Misconfigured \/ Configured \/ Connects \/ ConnectFails \/ Wire \/
         StartServer \/ ServerFails \/ TimerFires \/ StartWorker \/ PoolStarted
         \/ LoopEnds \/ StopWorker \/ JoinWorker \/ PoolStopped \/ ShutDown \/
         Exit \/ Signal
  BY <1>1, Zenon
  DEF Misconfigured, Configured, Connects, ConnectFails, Wire, StartServer,
      ServerFails, TimerFires, StartWorker, PoolStarted, LoopEnds, StopWorker,
      JoinWorker, PoolStopped, ShutDown, Exit, Signal, Switches
<1> QED BY <1>1 DEF Main

LEMMA MainWorkerTypes == IInv /\ (Main \/ Signal) => WorkerTypes'
<1> SUFFICES ASSUME IInv, Main \/ Signal PROVE WorkerTypes' OBVIOUS
<1> USE DEF IInv, setup, workersVars
<1>1. CASE Misconfigured \/ Configured \/ Connects \/ ConnectFails \/ Wire \/
         StartServer \/ ServerFails \/ PoolStarted \/ LoopEnds \/ ShutDown \/
         Exit \/ Signal
  BY <1>1
  DEF Misconfigured, Configured, Connects, ConnectFails, Wire, StartServer,
      ServerFails, PoolStarted, LoopEnds, ShutDown, Exit, Signal, WorkerTypes
<1>2. CASE TimerFires
  BY <1>2, SettingsInBounds, SettingsAssumption
  DEF TimerFires, WorkerTypes, MainTypes, Workers
<1>3. CASE StartWorker
  BY <1>3
  DEF StartWorker, WorkerTypes, Workers, Threads
<1>4. CASE StopWorker
  BY <1>4
  DEF StopWorker, WorkerTypes
<1>5. CASE JoinWorker
  BY <1>5
  DEF JoinWorker, WorkerTypes, Workers, Threads
<1>6. CASE PoolStopped
  BY <1>6
  DEF PoolStopped, WorkerTypes
<1> QED BY <1>1, <1>2, <1>3, <1>4, <1>5, <1>6 DEF Main

LEMMA MainStorageInv == IInv /\ (Main \/ Signal) => StorageInv'
<1> SUFFICES ASSUME IInv, Main \/ Signal PROVE StorageInv' OBVIOUS
<1> USE DEF IInv, setup, workersVars
<1>1. CASE Misconfigured \/ Configured \/ Connects \/ Wire \/ StartServer \/
         ServerFails \/ TimerFires \/ StartWorker \/ PoolStarted \/ LoopEnds \/
         ShutDown \/ Exit \/ Signal
  BY <1>1
  DEF Misconfigured, Configured, Connects, Wire, StartServer, ServerFails,
      TimerFires, StartWorker, PoolStarted, LoopEnds, ShutDown, Exit, Signal,
      StorageInv, MainTypes
<1>2. CASE ConnectFails
  BY <1>2, SettingsInBounds
  DEF ConnectFails, StorageInv, MainTypes
<1>3. CASE StopWorker \/ JoinWorker \/ PoolStopped
  BY <1>3
  DEF StopWorker, JoinWorker, PoolStopped, Stopping, StorageInv
<1> QED BY <1>1, <1>2, <1>3 DEF Main

LEMMA MainPoolInv == IInv /\ (Main \/ Signal) => PoolInv'
<1> SUFFICES ASSUME IInv, Main \/ Signal PROVE PoolInv' OBVIOUS
<1> USE DEF IInv, setup, workersVars
<1>1. CASE Misconfigured \/ Configured \/ Connects \/ ConnectFails \/ Wire \/
         StartServer \/ ServerFails \/ PoolStarted \/ LoopEnds \/ StopWorker \/
         ShutDown \/ Exit \/ Signal
  BY <1>1
  DEF Misconfigured, Configured, Connects, ConnectFails, Wire, StartServer,
      ServerFails, PoolStarted, LoopEnds, StopWorker, ShutDown, Exit, Signal,
      Stopping, PoolInv
<1>2. CASE TimerFires
  BY <1>2
  DEF TimerFires, PoolInv
<1>3. CASE StartWorker
  BY <1>3
  DEF StartWorker, PoolInv, WorkerTypes
<1>4. CASE JoinWorker
  BY <1>4
  DEF JoinWorker, Stopping, PoolInv, WorkerTypes
<1>5. CASE PoolStopped
  <2> USE <1>5 DEF PoolStopped, Stopping
  <2>1. pool.running /\ phase = "stopping" /\ at \notin 1 .. WorkerCount(raw)
    BY DEF PoolInv
  <2>2. at > WorkerCount(raw)
    BY <2>1, SettingsInBounds DEF MainTypes
  <2>3. \A v \in Workers : thread[v] \in {"none", "joined"}
    BY <2>1, <2>2, SettingsInBounds DEF PoolInv, JoinedInv, MainTypes, Workers
  <2> QED BY <2>1, <2>3 DEF PoolInv
<1> QED BY <1>1, <1>2, <1>3, <1>4, <1>5 DEF Main

LEMMA MainJoinedInv == IInv /\ (Main \/ Signal) => JoinedInv'
<1> SUFFICES ASSUME IInv, Main \/ Signal PROVE JoinedInv' OBVIOUS
<1> USE DEF IInv, setup, workersVars
<1>1. CASE Misconfigured \/ Configured \/ Connects \/ ConnectFails \/ Wire \/
         StartServer \/ ServerFails \/ TimerFires \/ PoolStarted \/ StopWorker
         \/ PoolStopped \/ ShutDown \/ Exit \/ Signal
  BY <1>1
  DEF Misconfigured, Configured, Connects, ConnectFails, Wire, StartServer,
      ServerFails, TimerFires, PoolStarted, StopWorker, PoolStopped, ShutDown,
      Exit, Signal, Stopping, JoinedInv, Stopping
<1>2. CASE LoopEnds
  BY <1>2
  DEF LoopEnds, JoinedInv, Workers
<1>3. CASE StartWorker
  BY <1>3
  DEF StartWorker, JoinedInv
<1>4. CASE JoinWorker
  BY <1>4
  DEF JoinWorker, Stopping, JoinedInv, MainTypes, WorkerTypes, Workers
<1> QED BY <1>1, <1>2, <1>3, <1>4 DEF Main

LEMMA MainLateInv == IInv /\ (Main \/ Signal) => LateInv'
<1> SUFFICES ASSUME IInv, Main \/ Signal PROVE LateInv' OBVIOUS
<1> USE DEF IInv, setup, workersVars
<1>1. CASE Misconfigured \/ Configured \/ Connects \/ ConnectFails \/ Wire \/
         StartServer \/ ServerFails \/ TimerFires \/ PoolStarted \/ LoopEnds \/
         PoolStopped \/ ShutDown \/ Exit \/ Signal
  BY <1>1
  DEF Misconfigured, Configured, Connects, ConnectFails, Wire, StartServer,
      ServerFails, TimerFires, PoolStarted, LoopEnds, PoolStopped, ShutDown,
      Exit, Signal, Stopping, LateInv
<1>2. CASE StartWorker
  BY <1>2
  DEF StartWorker, LateInv, WorkerTypes
<1>3. CASE StopWorker \/ JoinWorker
  BY <1>3
  DEF StopWorker, JoinWorker, Stopping, LateInv, WorkerTypes
<1> QED BY <1>1, <1>2, <1>3 DEF Main

-----------------------------------------------------------------------------
(* The steps of a worker *)

LEMMA WorkerMainTypes ==
  ASSUME IInv, NEW w \in Workers, Worker(w)
  PROVE  MainTypes' /\ Switches' /\ StorageInv'
<1>1. UNCHANGED <<phase, setup, initialized, timer, quit, at>>
  BY DEF Worker, EnsureGroup, Check, ConsumeNothing, TakeJob, FinishJob, Moves
<1> USE <1>1 DEF setup, IInv
<1>2. MainTypes' BY DEF MainTypes
<1>3. Switches' BY Zenon DEF Switches
<1>4. StorageInv' BY DEF StorageInv
<1> QED BY <1>2, <1>3, <1>4

LEMMA WorkerWorkerTypes == ASSUME IInv, NEW w \in Workers, Worker(w) PROVE WorkerTypes'
<1> USE DEF IInv, Moves, setup
<1>1. CASE EnsureGroup(w) \/ Check(w) \/ ConsumeNothing(w) \/ FinishJob(w)
  BY <1>1
  DEF EnsureGroup, Check, ConsumeNothing, FinishJob, WorkerTypes, Threads
<1>2. CASE TakeJob(w)
  <2>1. late' \in [Workers -> Nat]
    <3>1. CASE flags[w].shutdown BY <1>2, <3>1 DEF TakeJob, WorkerTypes
    <3>2. CASE ~flags[w].shutdown BY <1>2, <3>2 DEF TakeJob, WorkerTypes
    <3> QED BY <3>1, <3>2
  <2>2. thread' \in [Workers -> Threads]
    BY <1>2 DEF TakeJob, WorkerTypes, Threads
  <2> QED BY <1>2, <2>1, <2>2, Zenon DEF TakeJob, WorkerTypes
<1> QED BY <1>1, <1>2 DEF Worker

LEMMA WorkerPoolInv == ASSUME IInv, NEW w \in Workers, Worker(w) PROVE PoolInv'
<1> USE DEF IInv, Moves, setup
<1>1. CASE EnsureGroup(w) \/ Check(w) \/ ConsumeNothing(w) \/ TakeJob(w) \/
         FinishJob(w)
  BY <1>1
  DEF EnsureGroup, Check, ConsumeNothing, TakeJob, FinishJob, PoolInv, WorkerTypes
<1> QED BY <1>1 DEF Worker

LEMMA WorkerJoinedInv == ASSUME IInv, NEW w \in Workers, Worker(w) PROVE JoinedInv'
<1> USE DEF IInv, Moves, setup
<1>1. CASE EnsureGroup(w) \/ Check(w) \/ ConsumeNothing(w) \/ TakeJob(w) \/
         FinishJob(w)
  BY <1>1
  DEF EnsureGroup, Check, ConsumeNothing, TakeJob, FinishJob, JoinedInv,
      WorkerTypes
<1> QED BY <1>1 DEF Worker

LEMMA WorkerLateInv == ASSUME IInv, NEW w \in Workers, Worker(w) PROVE LateInv'
<1> USE DEF IInv, Moves, setup
<1>1. CASE EnsureGroup(w) \/ Check(w) \/ ConsumeNothing(w) \/ FinishJob(w)
  BY <1>1
  DEF EnsureGroup, Check, ConsumeNothing, FinishJob, LateInv, WorkerTypes
<1>2. CASE TakeJob(w)
  BY <1>2
  DEF TakeJob, LateInv, WorkerTypes
<1> QED BY <1>1, <1>2 DEF Worker

LEMMA StepIInv == IInv /\ [Next]_vars => IInv'
<1> SUFFICES ASSUME IInv, [Next]_vars PROVE IInv' OBVIOUS
<1>1. CASE Main \/ Signal
  BY <1>1, MainMainTypes, MainSwitches, MainWorkerTypes, MainStorageInv, MainPoolInv,
     MainJoinedInv, MainLateInv
  DEF IInv
<1>2. ASSUME NEW w \in Workers, Worker(w) PROVE IInv'
  BY <1>2, WorkerMainTypes, WorkerWorkerTypes, WorkerPoolInv, WorkerJoinedInv,
     WorkerLateInv
  DEF IInv
<1>3. CASE UNCHANGED vars
  <2> USE <1>3 DEF vars, setup, workersVars, IInv
  <2>1. MainTypes' /\ WorkerTypes' BY DEF MainTypes, WorkerTypes
  <2>2. Switches' BY Zenon DEF Switches
  <2>3. StorageInv' /\ PoolInv' /\ JoinedInv' /\ LateInv'
    BY DEF StorageInv, PoolInv, JoinedInv, LateInv
  <2> QED BY <2>1, <2>2, <2>3
<1> QED BY <1>1, <1>2, <1>3 DEF Next

-----------------------------------------------------------------------------

\* The invariant of the main thread, the pool and the workers' threads.
THEOREM LifecycleInvariant == Spec => []IInv
BY InitIInv, StepIInv, PTL DEF Spec

\* The variables keep their types, and whatever the environment says, the retry and
\* backlog limits are numbers JobPipeline can work with.
THEOREM LifecycleTypes == Spec => []TypeOK
<1>1. IInv => TypeOK
  <2> SUFFICES ASSUME IInv PROVE TypeOK OBVIOUS
  <2>1. /\ MaxRetryAttempts(raw) \in Nat /\ MaxBacklog(raw) \in Nat \ {0}
    BY SettingsInBounds DEF IInv, MainTypes
  <2>2. pool.running \in BOOLEAN /\ pool.workers \subseteq Workers
    BY DEF IInv, WorkerTypes
  <2> QED BY <2>1, <2>2, Zenon DEF IInv, MainTypes, Switches, WorkerTypes, TypeOK
<1> QED BY <1>1, LifecycleInvariant, PTL

\* No worker ever has a job or reads one from a database that was closed.
THEOREM DatabaseStaysOpen == Spec => []DatabaseOpenWhileWorking
<1>1. IInv => DatabaseOpenWhileWorking
  BY DEF IInv, StorageInv, PoolInv, DatabaseOpenWhileWorking
<1> QED BY <1>1, LifecycleInvariant, PTL

\* The process exits only when every thread that was made has been joined.
THEOREM AllJoined == Spec => []NothingRunsAtExit
<1>1. IInv => NothingRunsAtExit
  BY DEF IInv, PoolInv, NothingRunsAtExit
<1> QED BY <1>1, LifecycleInvariant, PTL

\* Told to stop, a worker takes at most one more job.
THEOREM StopIsHeeded == Spec => []FinishesCurrentJob
<1>1. IInv => FinishesCurrentJob
  BY DEF IInv, LateInv, FinishesCurrentJob
<1> QED BY <1>1, LifecycleInvariant, PTL

\* Memory is used in place of MySQL only after every configured attempt to connect.
THEOREM FallBackIsLast == Spec => []AllAttemptsMade
<1>1. IInv => AllAttemptsMade
  BY DEF IInv, StorageInv, AllAttemptsMade
<1> QED BY <1>1, LifecycleInvariant, PTL

\* Every text in the environment yields a clone timeout within its bounds.
THEOREM CloneTimeoutBounded == Spec => []CloneAlwaysBounded
<1>1. IInv => CloneAlwaysBounded
  <2> SUFFICES ASSUME IInv PROVE CloneAlwaysBounded OBVIOUS
  <2>1. raw.number \in Int BY LifecycleAssumption DEF IInv, MainTypes
  <2> QED BY <2>1, SettingsInBounds, SettingsAssumption
          DEF IInv, MainTypes, CloneAlwaysBounded, CloneTimeoutSeconds,
              ParsePositiveCapped
<1> QED BY <1>1, LifecycleInvariant, PTL
===============================================================================
