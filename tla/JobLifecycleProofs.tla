-------------------------- MODULE JobLifecycleProofs --------------------------
(***************************************************************************)
(* What the row of a job promises, for any number of jobs and workers: a   *)
(* COMPLETED job has its analysis, an ended one its stamp and dead letter, *)
(* and, when no failure leaves a second copy of a message, a job has one   *)
(* message and one worker at a time and follows JobLifecycle. Last, under  *)
(* which failures the row, the messages and the dead letters agree.        *)
(***************************************************************************)
EXTENDS JobMessageProofs, FiniteSetTheorems

LEMMA StepGrows ==
  ASSUME TypeInv, [Next]_vars
  PROVE  Grows
<1>1. ASSUME NEW j \in Jobs, PublishFirst(j) PROVE Grows
  <2> DEFINE m == [job |-> j, attempt |-> 0]
  <2>1. m \in Message /\ \E ok \in BOOLEAN : Xadd(m, ok)
    BY <1>1 DEF Message, PublishFirst
  <2> HIDE DEF m
  <2> QED BY <2>1, XaddType, XaddGrows
<1>2. ASSUME NEW w \in Workers, Republish(w) PROVE Grows
  <2> DEFINE m == [job |-> JobOf(w), attempt |-> Held(w).attempt + 1]
  <2>1. pc[w] # "idle" BY <1>2 DEF Republish
  <2>2. m \in Message BY <2>1, HeldMessage DEF Message
  <2>3. \E ok \in BOOLEAN : Xadd(m, ok) BY <1>2 DEF Republish
  <2> HIDE DEF m
  <2> QED BY <2>2, <2>3, XaddType, XaddGrows
<1>3. CASE UNCHANGED stream
  BY <1>3 DEF Grows
<1> QED
  BY <1>1, <1>2, <1>3
  DEF Next, Request, SaveJob, CheckBacklog, WorkerStep, Consume, ConsumePending,
      ConsumeFresh, ConsumeNothing, Process, LookUp, MarkRunning, StampStarted,
      Analyze, SaveAnalysis, MarkCompleted, StampCompleted, Settle, Requeue,
      MarkFailed, StampFailed, PublishDeadLetter, Ack, Crash, vars

\* The message in a worker's hand stays what it is.
LEMMA HandStays ==
  ASSUME TypeInv, Grows, NEW w \in Workers, pc[w] # "idle", msg'[w] = msg[w]
  PROVE  Held(w)' = Held(w) /\ JobOf(w)' = JobOf(w)
<1>1. msg[w] \in DOMAIN stream BY HeldMessage DEF TypeInv, TypeOK
<1> QED BY <1>1 DEF Held, JobOf, Grows

\* When no statement is refused, the row holds what was written.
LEMMA WriteIsDone ==
  ASSUME "write_refused" \notin Faults, NEW j, NEW s, NEW ok, UpdateStatus(j, s, ok)
  PROVE  status' = Written(j, s)
BY DEF UpdateStatus, Fault

-----------------------------------------------------------------------------
(* A COMPLETED job has its analysis *)

AnalysedInv ==
  /\ TypeInv /\ CompletedHasAnalysis
  /\ \A w \in Workers : pc[w] = "markCompleted" => JobOf(w) \in analysed
  /\ \A tables \in shelved : \A j \in Jobs :
       tables.status[j] = "COMPLETED" => j \in tables.analysed

\* What a worker's step does to statuses and analyses.
LEMMA AnalysedByWorker ==
  ASSUME TypeInv, "write_refused" \notin Faults, NEW w \in Workers, WorkerStep(w)
  PROVE  /\ analysed \subseteq analysed' /\ shelved' = shelved
         /\ \A j \in Jobs :
              status'[j] = "COMPLETED" =>
                \/ status[j] = "COMPLETED"
                \/ pc[w] = "markCompleted" /\ j = JobOf(w)
         /\ pc'[w] = "markCompleted" =>
              pc[w] = "saveAnalysis" /\ msg'[w] = msg[w] /\ JobOf(w) \in analysed'
<1>0. /\ status \in [Jobs -> Status \cup {"absent"}] /\ pc \in [Workers -> Pcs]
      /\ analysed \subseteq Jobs
  BY DEF TypeInv, TypeOK, Rows
<1> USE <1>0
<1>1. CASE Consume(w)
  BY <1>1 DEF Consume, ConsumePending, ConsumeFresh, ConsumeNothing, Hold, Goto,
              vars, store, uptime, worker
<1>2. ASSUME NEW s \in Status, NEW ok, UpdateStatus(JobOf(w), s, ok)
      PROVE  \A j \in Jobs : status'[j] = "COMPLETED" =>
               status[j] = "COMPLETED" \/ (s = "COMPLETED" /\ j = JobOf(w))
  <2>1. status' = Written(JobOf(w), s) BY <1>2, WriteIsDone
  <2>2. \A j \in Jobs \ {JobOf(w)} : status'[j] = status[j]
    BY <2>1 DEF Written
  <2>3. JobOf(w) \in Jobs => status'[JobOf(w)] \in {s, "absent"}
    BY <2>1 DEF Written
  <2> QED BY <2>2, <2>3
<1>3. CASE LookUp(w) \/ StampStarted(w) \/ Analyze(w) \/ StampCompleted(w)
  <2>1. UNCHANGED <<status, analysed, shelved>>
    BY <1>3 DEF LookUp, StampStarted, Analyze, StampCompleted, store, uptime
  <2>2. pc'[w] # "markCompleted"
    <3>1. CASE LookUp(w)
      <4>1. \E l \in Pcs \ {"markCompleted"} : Goto(w, l)
        BY <3>1 DEF LookUp, Pcs, AckPcs
      <4> QED BY <4>1 DEF Goto
    <3>2. CASE StampStarted(w) \/ Analyze(w) \/ StampCompleted(w)
      BY <3>2 DEF StampStarted, Analyze, StampCompleted, Fail, GiveUp, Goto
    <3> QED BY <1>3, <3>1, <3>2
  <2> QED BY <2>1, <2>2
<1>4. CASE MarkRunning(w) \/ Requeue(w) \/ MarkFailed(w)
  <2>1. \E s \in Status \ {"COMPLETED"}, ok \in BOOLEAN : UpdateStatus(JobOf(w), s, ok)
    BY <1>4 DEF MarkRunning, Requeue, MarkFailed, Status
  <2>2. pc'[w] # "markCompleted" /\ UNCHANGED <<analysed, shelved>>
    BY <1>4 DEF MarkRunning, Requeue, MarkFailed, Fail, GiveUp, Goto, uptime
  <2> QED BY <2>1, <2>2, <1>2
<1>5. CASE SaveAnalysis(w)
  BY <1>5 DEF SaveAnalysis, Goto, Fault, uptime
<1>6. CASE MarkCompleted(w)
  <2>1. \E ok \in BOOLEAN : UpdateStatus(JobOf(w), "COMPLETED", ok)
    BY <1>6 DEF MarkCompleted
  <2>2. /\ pc[w] = "markCompleted" /\ pc'[w] # "markCompleted"
        /\ UNCHANGED <<analysed, shelved>>
    BY <1>6 DEF MarkCompleted, Fail, GiveUp, Goto, uptime
  <2> QED BY <2>1, <2>2, <1>2 DEF Status
<1>7. CASE Republish(w) \/ StampFailed(w) \/ PublishDeadLetter(w) \/ Ack(w)
  BY <1>7 DEF Republish, StampFailed, PublishDeadLetter, Ack, Release, Goto, store,
              uptime
<1> QED
  BY <1>1, <1>3, <1>4, <1>5, <1>6, <1>7 DEF WorkerStep, Process, Settle

LEMMA AnalysedStep ==
  ASSUME "write_refused" \notin Faults, AnalysedInv, [Next]_vars
  PROVE  AnalysedInv'
<1> USE DEF AnalysedInv
<1>1. TypeInv' /\ Grows BY TypeStep, StepGrows
<1>2. ASSUME NEW j \in Jobs, Request(j) PROVE AnalysedInv'
  <2>1. /\ UNCHANGED <<analysed, shelved, pc, msg>>
        /\ \A k \in Jobs : status'[k] = "COMPLETED" => status[k] = "COMPLETED"
    BY <1>2 DEF Request, SaveJob, CheckBacklog, PublishFirst, store, uptime, worker,
                TypeInv, TypeOK, Rows
  <2>2. \A w \in Workers : pc'[w] = "markCompleted" => JobOf(w)' = JobOf(w)
    BY <1>1, <2>1, HandStays
  <2> QED BY <1>1, <2>1, <2>2 DEF CompletedHasAnalysis
<1>3. ASSUME NEW w \in Workers, WorkerStep(w) PROVE AnalysedInv'
  <2>1. CompletedHasAnalysis'
    BY <1>3, AnalysedByWorker DEF CompletedHasAnalysis
  <2>2. ASSUME NEW v \in Workers, pc'[v] = "markCompleted"
        PROVE  JobOf(v)' \in analysed'
    <3>1. CASE v = w
      BY <1>1, <1>3, <2>2, <3>1, AnalysedByWorker, HandStays
    <3>2. CASE v # w
      <4>1. pc[v] = "markCompleted" /\ msg'[v] = msg[v]
        BY <1>3, <2>2, <3>2, OthersStay
      <4> QED BY <1>1, <1>3, <4>1, AnalysedByWorker, HandStays
    <3> QED BY <3>1, <3>2
  <2> QED BY <1>1, <1>3, <2>1, <2>2, AnalysedByWorker
<1>4. CASE Crash
  <2>1. \A w \in Workers : pc'[w] = "idle"
    BY <1>4 DEF Crash
  <2>2. /\ \A j \in Jobs : EmptyTables.status[j] # "COMPLETED"
        /\ \A j \in Jobs : Tables.status[j] = "COMPLETED" => j \in Tables.analysed
    BY DEF EmptyTables, Tables, CompletedHasAnalysis
  <2>3. CASE ReopenMySQL
    BY <1>1, <2>1, <2>3 DEF ReopenMySQL, store, CompletedHasAnalysis
  <2>4. CASE ReopenMemory \/ FallBack
    BY <1>1, <2>1, <2>2, <2>4 DEF ReopenMemory, FallBack, Open, CompletedHasAnalysis
  <2>5. CASE ComeBack
    BY <1>1, <2>1, <2>5 DEF ComeBack, Open, CompletedHasAnalysis
  <2> QED BY <1>4, <2>3, <2>4, <2>5 DEF Crash
<1>5. CASE UNCHANGED vars
  BY <1>1, <1>5 DEF vars, store, uptime, worker, CompletedHasAnalysis, JobOf, Held
<1> QED BY <1>2, <1>3, <1>4, <1>5 DEF Next

\* As long as no statement of MySQL is refused, a job that says COMPLETED has an
\* analysis to fetch, in the store in use and in the one left behind by an outage,
\* through every crash and every answer that is lost (processJob saves first).
THEOREM CompletedIsFetchable ==
  ASSUME "write_refused" \notin Faults
  PROVE  Spec => []CompletedHasAnalysis
<1>1. Init => AnalysedInv
  <2> SUFFICES ASSUME Init PROVE AnalysedInv OBVIOUS
  <2>1. TypeInv BY TypeInit
  <2>2. \A j \in Jobs : EmptyTables.status[j] # "COMPLETED" BY DEF EmptyTables
  <2> QED BY <2>1, <2>2 DEF Init, AnalysedInv, CompletedHasAnalysis
<1>2. AnalysedInv /\ [Next]_vars => AnalysedInv' BY AnalysedStep
<1>3. AnalysedInv => CompletedHasAnalysis BY DEF AnalysedInv
<1> QED BY <1>1, <1>2, <1>3, PTL DEF Spec
-----------------------------------------------------------------------------
(* An ended job has its stamp and its dead letter *)

\* Writes and dead letters are made, whatever the caller is answered.
CallsAreMade == Faults \cap {"write_refused", "xadd_refused"} = {}

Due(j) == status[j] \in Terminal /\ "completedAt" \notin stamps[j]
Unreported(j) == status[j] = "FAILED" /\ ~DeadLettered(j)

\* The calls of a worker that is about to stamp its job, or to take back a status
\* it believes it did not write; and of one about to publish a dead letter.
Stamping == {"stampCompleted", "stampFailed", "requeue", "markFailed"}
Reporting == {"stampFailed", "deadLetter"}

Pursued(j, calls) == \E w \in Workers : pc[w] \in calls /\ JobOf(w) = j

Pursuits ==
  \A j \in Jobs :
    /\ Due(j) => Pursued(j, Stamping)
    /\ Unreported(j) => Pursued(j, Reporting)

RowInv == TypeInv /\ (crashes = 0 => Pursuits)

\* A worker whose step leaves something to do for its job is the one to do it, and
\* one that goes away leaves nothing that was its own to do.
Pursues(w, before, after, calls) ==
  after => \/ before /\ pc[w] \notin calls
           \/ pc'[w] \in calls /\ msg'[w] = msg[w]

LEMMA OwnRow ==
  ASSUME TypeInv, CallsAreMade, NEW w \in Workers, Process(w) \/ Settle(w),
         NEW j \in Jobs, j = JobOf(w)
  PROVE  /\ Pursues(w, Due(j), Due(j)', Stamping)
         /\ Pursues(w, Unreported(j), Unreported(j)', Reporting)
<1> USE DEF Pursues
<1>0. /\ status \in [Jobs -> Status \cup {"absent"}]
      /\ stamps \in [Jobs -> SUBSET {"startedAt", "completedAt"}]
      /\ pc \in [Workers -> Pcs]
  BY DEF TypeInv, TypeOK, Rows, Columns
<1> USE <1>0
<1>1. ASSUME NEW s \in Status, NEW ok, UpdateStatus(j, s, ok)
      PROVE  status'[j] \in {s, "absent"}
  <2>1. status' = Written(j, s) BY <1>1, WriteIsDone DEF CallsAreMade
  <2> QED BY <2>1 DEF Written
<1>2. ASSUME NEW column \in {"startedAt", "completedAt"}, Stamp(j, column)
      PROVE  stamps[j] \subseteq stamps'[j] /\ (status[j] # "absent" => column \in stamps'[j])
  BY <1>2 DEF Stamp, Fault, CallsAreMade
<1>3. ASSUME UNCHANGED <<status, dead>>
      PROVE  Unreported(j)' <=> Unreported(j)
  BY <1>3 DEF Unreported, DeadLettered
<1>4. ASSUME status'[j] = status[j], stamps[j] \subseteq stamps'[j]
      PROVE  Due(j)' => Due(j)
  BY <1>4 DEF Due
<1>5. CASE LookUp(w) \/ Analyze(w) \/ SaveAnalysis(w) \/ Ack(w) \/ Republish(w)
  <2>1. UNCHANGED <<status, stamps, dead>>
    BY <1>5 DEF LookUp, Analyze, SaveAnalysis, Ack, Republish, store
  <2>2. pc[w] \notin Stamping \cup Reporting
    BY <1>5 DEF LookUp, Analyze, SaveAnalysis, Ack, Republish, AckPcs, Stamping, Reporting
  <2> QED BY <2>1, <2>2, <1>3, <1>4
<1>6. CASE StampStarted(w)
  <2>1. Stamp(j, "startedAt") /\ UNCHANGED <<status, dead>> /\ pc[w] = "stampStarted"
    BY <1>6 DEF StampStarted
  <2>2. pc[w] \notin Stamping \cup Reporting BY <2>1 DEF Stamping, Reporting
  <2> QED BY <2>1, <2>2, <1>2, <1>3, <1>4
<1>7. CASE MarkRunning(w)
  <2>1. PICK ok \in BOOLEAN : UpdateStatus(j, "RUNNING", ok)
    BY <1>7 DEF MarkRunning
  <2>2. status'[j] \in {"RUNNING", "absent"} BY <2>1, <1>1 DEF Status
  <2> QED BY <2>2 DEF Due, Unreported, Terminal
<1>8. CASE MarkCompleted(w)
  <2>1. PICK ok \in BOOLEAN :
          /\ UpdateStatus(j, "COMPLETED", ok)
          /\ IF ok THEN Goto(w, "stampCompleted") ELSE Fail(w, TRUE)
    BY <1>8 DEF MarkCompleted
  <2>2. status'[j] # "FAILED" BY <2>1, <1>1 DEF Status
  <2>3. pc'[w] \in Stamping /\ msg'[w] = msg[w]
    BY <1>8, <2>1 DEF MarkCompleted, Fail, GiveUp, Goto, Stamping
  <2> QED BY <2>2, <2>3 DEF Unreported
<1>9. CASE StampCompleted(w)
  <2>1. /\ Stamp(j, "completedAt") /\ UNCHANGED <<status, dead>>
        /\ pc[w] = "stampCompleted"
    BY <1>9 DEF StampCompleted
  <2>2. ~Due(j)' BY <2>1, <1>2 DEF Due, Terminal
  <2>3. pc[w] \notin Reporting BY <2>1 DEF Reporting
  <2> QED BY <2>1, <2>2, <2>3, <1>3
<1>10. CASE Requeue(w)
  <2>1. PICK ok \in BOOLEAN : UpdateStatus(j, "QUEUED", ok)
    BY <1>10 DEF Requeue
  <2>2. status'[j] \in {"QUEUED", "absent"} BY <2>1, <1>1 DEF Status
  <2> QED BY <2>2 DEF Due, Unreported, Terminal
<1>11. CASE MarkFailed(w)
  BY <1>11 DEF MarkFailed, Goto, Stamping, Reporting
<1>12. CASE StampFailed(w)
  <2>1. /\ Stamp(j, "completedAt") /\ UNCHANGED <<status, msg>>
        /\ pc'[w] = "deadLetter"
    BY <1>12 DEF StampFailed, Goto
  <2>2. ~Due(j)' BY <2>1, <1>2 DEF Due, Terminal
  <2> QED BY <2>1, <2>2 DEF Reporting
<1>13. CASE PublishDeadLetter(w)
  <2> DEFINE d == [job |-> JobOf(w), attempt |-> Held(w).attempt, id |-> msg[w],
                   reason |-> reason[w]]
  <2>1. dead' = Append(dead, d) /\ dead \in Seq(DeadLetter) /\ d.job = j
    BY <1>13 DEF PublishDeadLetter, XaddDead, Fault, CallsAreMade, TypeInv, TypeOK
  <2>2. pc[w] \notin Stamping /\ UNCHANGED <<status, stamps>>
    BY <1>13 DEF PublishDeadLetter, Stamping, store
  <2> HIDE DEF d
  <2>3. Len(dead) + 1 \in DOMAIN dead' /\ dead'[Len(dead) + 1] = d BY <2>1
  <2>4. DeadLettered(j)' BY <2>1, <2>3 DEF DeadLettered
  <2> QED BY <2>2, <2>4, <1>4 DEF Unreported
<1> QED
  BY <1>5, <1>6, <1>7, <1>8, <1>9, <1>10, <1>11, <1>12, <1>13 DEF Process, Settle

\* A worker's step leaves the rows of other jobs alone, and no dead letter goes.
LEMMA OtherRows ==
  ASSUME TypeInv, NEW w \in Workers, WorkerStep(w), NEW j \in Jobs,
         Consume(w) \/ j # JobOf(w)
  PROVE  (Due(j)' => Due(j)) /\ (Unreported(j)' => Unreported(j))
<1>0. /\ status \in [Jobs -> Status \cup {"absent"}]
      /\ stamps \in [Jobs -> SUBSET {"startedAt", "completedAt"}]
  BY DEF TypeInv, TypeOK, Rows, Columns
<1>1. /\ status'[j] = status[j] /\ stamps'[j] = stamps[j]
  <2>1. CASE Consume(w)
    BY <2>1 DEF Consume, ConsumePending, ConsumeFresh, ConsumeNothing, store, vars
  <2>2. CASE j # JobOf(w) /\ (Process(w) \/ Settle(w))
    BY <2>2, <1>0 DEF Process, LookUp, MarkRunning, StampStarted, Analyze, SaveAnalysis,
                      MarkCompleted, StampCompleted, Settle, Requeue, Republish,
                      MarkFailed, StampFailed, PublishDeadLetter, Ack, UpdateStatus,
                      Written, Stamp, store
  <2> QED BY <2>1, <2>2 DEF WorkerStep
<1>2. DeadLettered(j) => DeadLettered(j)'
  <2>1. CASE UNCHANGED dead BY <2>1 DEF DeadLettered
  <2>2. CASE PublishDeadLetter(w)
    <3>1. \E d : dead' = dead \/ dead' = Append(dead, d)
      BY <2>2 DEF PublishDeadLetter, XaddDead
    <3>2. dead \in Seq(DeadLetter) BY DEF TypeInv, TypeOK
    <3>3. \A i \in DOMAIN dead : i \in DOMAIN dead' /\ dead'[i] = dead[i]
      BY <3>1, <3>2
    <3> QED BY <3>3 DEF DeadLettered
  <2> QED
    BY <2>1, <2>2
    DEF WorkerStep, Consume, ConsumePending, ConsumeFresh, ConsumeNothing, Process,
        LookUp, MarkRunning, StampStarted, Analyze, SaveAnalysis, MarkCompleted,
        StampCompleted, Settle, Requeue, Republish, MarkFailed, StampFailed, Ack, vars
<1> QED BY <1>1, <1>2 DEF Due, Unreported

\* A pursuit goes on while other workers move.
LEMMA PursuitStays ==
  ASSUME TypeInv, Grows, NEW j, NEW calls, "idle" \notin calls, NEW v \in Workers,
         pc[v] \in calls, JobOf(v) = j, pc'[v] = pc[v], msg'[v] = msg[v]
  PROVE  Pursued(j, calls)'
BY HandStays DEF Pursued

LEMMA WorkerPursues ==
  ASSUME TypeInv, Grows, CallsAreMade, Pursuits, NEW w \in Workers, WorkerStep(w)
  PROVE  Pursuits'
<1>1. SUFFICES ASSUME NEW j \in Jobs
               PROVE  /\ Due(j)' => Pursued(j, Stamping)'
                      /\ Unreported(j)' => Pursued(j, Reporting)'
  BY DEF Pursuits
<1>2. /\ Due(j) => Pursued(j, Stamping)
      /\ Unreported(j) => Pursued(j, Reporting)
  BY DEF Pursuits
<1>3. "idle" \notin Stamping /\ "idle" \notin Reporting
  BY DEF Stamping, Reporting
<1>4. ASSUME NEW calls, "idle" \notin calls, Pursued(j, calls),
             pc[w] \notin calls \/ JobOf(w) # j
      PROVE  Pursued(j, calls)'
  <2>1. PICK v \in Workers : pc[v] \in calls /\ JobOf(v) = j
    BY <1>4 DEF Pursued
  <2> QED BY <2>1, <1>4, OthersStay, PursuitStays
<1>5. ASSUME NEW calls, "idle" \notin calls, pc[w] # "idle", JobOf(w) = j,
             pc'[w] \in calls, msg'[w] = msg[w]
      PROVE  Pursued(j, calls)'
  BY <1>5, HandStays DEF Pursued
<1>6. CASE Consume(w) \/ j # JobOf(w)
  <2>1. Consume(w) => pc[w] = "idle"
    BY DEF Consume, ConsumePending, ConsumeFresh, ConsumeNothing
  <2> QED BY <1>2, <1>3, <1>4, <1>6, <2>1, OtherRows
<1>7. CASE (Process(w) \/ Settle(w)) /\ j = JobOf(w)
  <2>1. pc[w] # "idle"
    BY <1>7 DEF Process, LookUp, MarkRunning, StampStarted, Analyze, SaveAnalysis,
                MarkCompleted, StampCompleted, Settle, Requeue, Republish, MarkFailed,
                StampFailed, PublishDeadLetter, Ack, AckPcs
  <2>2. /\ Pursues(w, Due(j), Due(j)', Stamping)
        /\ Pursues(w, Unreported(j), Unreported(j)', Reporting)
    BY <1>7, OwnRow
  <2>3. Due(j)' => Pursued(j, Stamping)'
    BY <1>2, <1>3, <1>4, <1>5, <1>7, <2>1, <2>2 DEF Pursues
  <2>4. Unreported(j)' => Pursued(j, Reporting)'
    BY <1>2, <1>3, <1>4, <1>5, <1>7, <2>1, <2>2 DEF Pursues
  <2> QED BY <2>3, <2>4
<1> QED BY <1>6, <1>7 DEF WorkerStep

LEMMA RowStep ==
  ASSUME CallsAreMade, RowInv, [Next]_vars
  PROVE  RowInv'
<1>1. TypeInv /\ TypeInv' /\ Grows BY TypeStep, StepGrows DEF RowInv
<1>2. crashes \in Nat BY <1>1 DEF TypeInv, TypeOK
<1>3. ASSUME UNCHANGED <<stamps, dead, pc, msg>>,
             \A j \in Jobs : status'[j] \in Terminal => status'[j] = status[j],
             Pursuits
      PROVE  Pursuits'
  <2>1. \A w \in Workers : pc[w] # "idle" => JobOf(w)' = JobOf(w)
    BY <1>1, <1>3, HandStays
  <2>2. \A j \in Jobs : (Due(j)' => Due(j)) /\ (Unreported(j)' => Unreported(j))
    BY <1>3 DEF Due, Unreported, DeadLettered, Terminal
  <2>3. \A j \in Jobs : /\ Pursued(j, Stamping) => Pursued(j, Stamping)'
                        /\ Pursued(j, Reporting) => Pursued(j, Reporting)'
    BY <1>3, <2>1 DEF Pursued, Stamping, Reporting
  <2> QED BY <1>3, <2>2, <2>3 DEF Pursuits
<1>4. ASSUME NEW j \in Jobs, Request(j) PROVE RowInv'
  <2>1. /\ UNCHANGED <<stamps, dead, pc, msg, crashes>>
        /\ \A k \in Jobs : status'[k] \in Terminal => status'[k] = status[k]
    BY <1>1, <1>4 DEF Request, SaveJob, CheckBacklog, PublishFirst, store, uptime,
                      worker, TypeInv, TypeOK, Rows, Terminal
  <2> QED BY <1>1, <1>3, <2>1 DEF RowInv
<1>5. ASSUME NEW w \in Workers, WorkerStep(w) PROVE RowInv'
  <2>1. crashes' = crashes
    BY <1>5 DEF WorkerStep, Consume, ConsumePending, ConsumeFresh, ConsumeNothing,
                Process, LookUp, MarkRunning, StampStarted, Analyze, SaveAnalysis,
                MarkCompleted, StampCompleted, Settle, Requeue, Republish, MarkFailed,
                StampFailed, PublishDeadLetter, Ack, vars, uptime
  <2> QED BY <1>1, <1>5, <2>1, WorkerPursues DEF RowInv
<1>6. CASE Crash
  BY <1>1, <1>2, <1>6 DEF Crash, RowInv
<1>7. CASE UNCHANGED vars
  <2>1. UNCHANGED <<status, stamps, dead, pc, msg, crashes>>
    BY <1>7 DEF vars, store, worker, uptime
  <2> QED BY <1>1, <1>3, <2>1 DEF RowInv
<1> QED BY <1>4, <1>5, <1>6, <1>7 DEF Next

\* If the process does not crash and no write and no dead letter is refused, an ended
\* job none of whose messages is left has its completion time and, if it
\* failed, its dead letter, for any number of copies of its message.
THEOREM EndedRowIsComplete ==
  ASSUME CallsAreMade, MaxCrashes = 0
  PROVE  Spec => []SettledRowIsComplete
<1>1. Init => RowInv
  <2> SUFFICES ASSUME Init PROVE RowInv OBVIOUS
  <2>1. TypeInv BY TypeInit
  <2>2. \A j \in Jobs : status[j] = "absent" BY DEF Init, EmptyTables
  <2> QED BY <2>1, <2>2 DEF RowInv, Pursuits, Due, Unreported, Terminal
<1>2. RowInv /\ [Next]_vars => RowInv' BY RowStep
<1>3. RowInv => SettledRowIsComplete
  <2>0. RowInv => crashes = 0 BY DEF RowInv, TypeInv, TypeOK
  <2> SUFFICES ASSUME RowInv, crashes = 0, NEW j \in Jobs, status[j] \in Terminal,
                      Entries(j) \cap Unacked = {}
               PROVE  ~Due(j) /\ ~Unreported(j)
    BY <2>0 DEF SettledRowIsComplete, Due, Unreported
  <2>1. ASSUME NEW calls, "idle" \notin calls PROVE ~Pursued(j, calls)
    <3>1. SUFFICES ASSUME NEW w \in Workers, pc[w] \in calls, JobOf(w) = j PROVE FALSE
      BY DEF Pursued
    <3>2. msg[w] \in pel[w] /\ msg[w] \in 1 .. Len(stream) /\ stream \in Seq(Message)
      BY <2>1, <3>1, HeldMessage DEF RowInv, TypeInv, TypeOK
    <3>3. msg[w] \in Entries(j) /\ msg[w] \in Unacked
      BY <3>1, <3>2 DEF Entries, Unacked, JobOf, Held
    <3> QED BY <3>3
  <2> QED BY <2>1 DEF RowInv, Pursuits, Stamping, Reporting
<1> QED BY <1>1, <1>2, <1>3, PTL DEF Spec

-----------------------------------------------------------------------------
(* One message at a time *)

\* No failure leaves a second copy of a message: whoever publishes knows whether it
\* was done, every acknowledgement is executed, and nothing crashes.
NoSecondCopy ==
  Faults \cap {"xadd_lost", "xack_refused"} = {} /\ MaxCrashes = 0

\* Whoever writes a status knows whether it was written.
WritesAreKnown == "write_lost" \notin Faults

OneMessage == \A j \in Jobs : \A i, k \in Carriers(j) : i = k

\* The message that carries a job is its newest.
NewestCarries ==
  \A j \in Jobs : \A i \in Carriers(j), k \in Entries(j) :
    stream[k].attempt <= stream[i].attempt

Unpublished ==
  \A j \in Jobs :
    /\ sub[j] \in {"new", "saved", "checked"} => Entries(j) = {}
    /\ sub[j] = "new" => status[j] = "absent"

\* The calls that rely on the status of the job.
Relying == {"markRunning", "stampStarted", "analyze", "saveAnalysis", "markCompleted",
            "requeue", "republish", "markFailed", "stampFailed", "deadLetter"}

\* The status the job has then.
Expected(call) ==
  CASE call = "markRunning" -> {"QUEUED"}
    [] call \in {"stampStarted", "analyze", "saveAnalysis", "markCompleted"} ->
         {"RUNNING"}
    [] call \in {"requeue", "republish", "markFailed"} -> {"QUEUED", "RUNNING"}
    [] call \in {"stampFailed", "deadLetter"} -> {"QUEUED", "RUNNING", "FAILED"}

RowAsExpected(w) == pc[w] \in Relying => status[JobOf(w)] \in Expected(pc[w])

MessageInv == OneMessage /\ NewestCarries

CleanInv == RetryInv /\ MessageInv /\ Unpublished

RowsInv == \A w \in Workers : RowAsExpected(w)

\* With no new entry and no new carrier, the carriers are as unique as before.
LEMMA FewerCarriers ==
  ASSUME MessageInv, stream' = stream, \A j \in Jobs : Carriers(j)' \subseteq Carriers(j)
  PROVE  MessageInv'
BY DEF MessageInv, OneMessage, NewestCarries, Entries

\* No step of a worker makes a carrier of an old entry: a message is no longer being
\* settled only when it has been acknowledged.
LEMMA NoNewCarrier ==
  ASSUME TypeInv, NoSecondCopy, Grows, NEW w \in Workers, WorkerStep(w),
         NEW j \in Jobs, NEW i \in Carriers(j)', i \in DOMAIN stream
  PROVE  i \in Carriers(j)
<1>1. i \in Entries(j) /\ i \in 1 .. Len(stream)
  BY DEF Carriers, Entries, Grows, TypeInv, TypeOK
<1>2. /\ pel \in [Workers -> SUBSET (1 .. delivered)]
      /\ delivered \in 0 .. Len(stream) /\ Len(stream) \in Nat
  BY DEF TypeInv, TypeOK
<1>3. i \in Unacked' /\ ~BeingSettled(i)' BY DEF Carriers
<1>4. i \in Unacked /\ (pc[w] \in AckPcs => i # msg[w])
  <2>1. CASE ConsumeFresh(w)
    <3>1. /\ delivered' = delivered + 1 /\ pel' = [pel EXCEPT ![w] = {delivered + 1}]
          /\ stream' = stream /\ pc[w] = "idle"
      BY <2>1 DEF ConsumeFresh
    <3> QED BY <1>1, <1>2, <1>3, <3>1 DEF Unacked, AckPcs
  <2>2. CASE Ack(w)
    <3>1. /\ pel' = [pel EXCEPT ![w] = @ \ {msg[w]}] /\ pc[w] # "idle"
          /\ delivered' = delivered /\ stream' = stream
      BY <2>2 DEF Ack, Fault, NoSecondCopy, AckPcs
    <3>2. msg[w] \in pel[w] BY <3>1, HeldMessage
    <3>3. \A v \in Workers : pel'[v] \subseteq pel[v] /\ msg[w] \notin pel'[v]
      BY <1>2, <3>1, <3>2 DEF TypeInv, MessageOwnership
    <3>4. msg[w] \in 1 .. delivered BY <1>2, <3>2
    <3> QED BY <1>2, <1>3, <3>1, <3>3, <3>4 DEF Unacked
  <2>3. CASE UNCHANGED group /\ pc[w] \notin AckPcs
    <3>1. delivered' = delivered /\ pel' = pel BY <2>3 DEF group
    <3> QED BY <1>1, <1>2, <1>3, <2>3, <3>1 DEF Unacked
  <2> QED
    BY <2>1, <2>2, <2>3
    DEF WorkerStep, Consume, ConsumePending, ConsumeNothing, Process, LookUp,
        MarkRunning, StampStarted, Analyze, SaveAnalysis, MarkCompleted, StampCompleted,
        Settle, Requeue, Republish, MarkFailed, StampFailed, PublishDeadLetter, vars,
        AckPcs
<1>5. ~BeingSettled(i)
  <2>1. SUFFICES ASSUME NEW v \in Workers, msg[v] = i, pc[v] \in Settling PROVE FALSE
    BY DEF BeingSettled
  <2>2. CASE v # w
    BY <1>3, <2>1, <2>2, OthersStay DEF BeingSettled
  <2>3. CASE v = w
    <3>1. pc[w] = "stampCompleted" BY <1>4, <2>1, <2>3 DEF Settling
    <3>2. StampCompleted(w)
      BY <3>1 DEF WorkerStep, Consume, ConsumePending, ConsumeFresh, ConsumeNothing,
                  Process, LookUp, MarkRunning, StampStarted, Analyze, SaveAnalysis,
                  MarkCompleted, Settle, Requeue, Republish, MarkFailed, StampFailed,
                  PublishDeadLetter, Ack, AckPcs
    <3>3. pc'[w] = "ackDone" /\ msg'[w] = msg[w]
      BY <3>2 DEF StampCompleted, Goto, TypeInv, TypeOK
    <3> QED BY <1>3, <2>1, <2>3, <3>3 DEF BeingSettled, Settling, AckPcs
  <2> QED BY <2>2, <2>3
<1> QED BY <1>1, <1>4, <1>5 DEF Carriers

LEMMA ConsumeGoes ==
  ASSUME NEW w \in Workers, Consume(w)
  PROVE  pc[w] = "idle" /\ UNCHANGED <<store, stream, sub>>
BY DEF Consume, ConsumePending, ConsumeFresh, ConsumeNothing, vars

\* A retry takes over from the message it replaces.
LEMMA RetryCarries ==
  ASSUME TypeInv, NoSecondCopy, Grows, MessageInv, NEW w \in Workers, Republish(w)
  PROVE  /\ MessageInv'
         /\ \A j \in Jobs : j # JobOf(w) => Entries(j)' = Entries(j)
<1>1. pc[w] = "republish" /\ WorkerStep(w) BY DEF Republish, WorkerStep, Settle
<1>2. JobOf(w) \in Jobs /\ Held(w) \in Message /\ msg[w] \in 1 .. Len(stream)
  BY <1>1, HeldMessage
<1>3. SUFFICES ASSUME NEW J \in Jobs, J = JobOf(w),
                      NEW n \in Nat, n = Len(stream) + 1,
                      NEW m \in Message, m.job = J, m.attempt = Held(w).attempt + 1,
                      m = [job |-> JobOf(w), attempt |-> Held(w).attempt + 1]
               PROVE  /\ MessageInv'
                      /\ \A j \in Jobs : j # J => Entries(j)' = Entries(j)
  <2>1. Len(stream) + 1 \in Nat BY DEF TypeInv, TypeOK
  <2>2. [job |-> JobOf(w), attempt |-> Held(w).attempt + 1] \in Message
    BY <1>2 DEF Message
  <2> QED BY <1>2, <2>1, <2>2
<1>4. /\ msg[w] \in Carriers(J) /\ msg[w] \in DOMAIN stream
      /\ Held(w).attempt \in Nat /\ stream \in Seq(Message)
  <2>1. pc[w] \notin Settling \cup {"idle"} BY <1>1 DEF Settling, AckPcs
  <2>2. msg[w] \in Carriers(J) BY <1>3, <2>1, HolderCarries
  <2>3. stream \in Seq(Message) BY DEF TypeInv, TypeOK
  <2> QED BY <1>2, <2>2, <2>3 DEF Message
<1>5. \/ stream' = stream
      \/ stream' = Append(stream, m) /\ pc'[w] = "ackRetried" /\ msg'[w] = msg[w]
  <2>1. PICK ok \in BOOLEAN :
          /\ Xadd(m, ok)
          /\ IF ok THEN Goto(w, "ackRetried") /\ UNCHANGED <<msg, reason>>
                   ELSE Release(w)
    BY <1>3 DEF Republish
  <2>2. ok \/ stream' = stream BY <2>1 DEF Xadd, Fault, NoSecondCopy
  <2>3. ok => stream' = Append(stream, m) BY <2>1 DEF Xadd
  <2>4. ok => pc'[w] = "ackRetried" /\ msg'[w] = msg[w]
    BY <2>1 DEF Goto, TypeInv, TypeOK
  <2> QED BY <2>2, <2>3, <2>4
<1>6. \A j \in Jobs : \A i \in DOMAIN stream :
        i \in Carriers(j)' => i \in Carriers(j)
  BY <1>1, NoNewCarrier
<1>7. CASE stream' = stream
  <2>1. \A j \in Jobs : Carriers(j)' \subseteq Carriers(j)
    BY <1>6, <1>7 DEF Carriers, Entries
  <2> QED BY <1>7, <2>1, FewerCarriers DEF Entries
<1>8. CASE stream' = Append(stream, m) /\ pc'[w] = "ackRetried" /\ msg'[w] = msg[w]
  <2>1. /\ DOMAIN stream' = DOMAIN stream \cup {n} /\ n \notin DOMAIN stream
        /\ stream'[n] = m /\ \A i \in DOMAIN stream : stream'[i] = stream[i]
    BY <1>3, <1>4, <1>8
  <2>2. \A j \in Jobs : Entries(j)' = IF j = J THEN Entries(j) \cup {n} ELSE Entries(j)
    BY <1>3, <2>1 DEF Entries
  <2>3. \A j \in Jobs : j # J => Carriers(j)' \subseteq Carriers(j)
    BY <1>6, <2>2 DEF Carriers, Entries
  <2>4. msg[w] \notin Carriers(J)'
    BY <1>8 DEF Carriers, BeingSettled, Settling, AckPcs
  <2>5. Carriers(J)' \subseteq {n}
    <3>1. ASSUME NEW i \in Carriers(J)' PROVE i = n
      <4>1. i \in Entries(J)' BY <3>1 DEF Carriers
      <4>2. i \in DOMAIN stream => i \in Carriers(J) BY <1>6, <3>1
      <4>3. \A a, b \in Carriers(J) : a = b BY DEF MessageInv, OneMessage
      <4>4. i \notin DOMAIN stream BY <1>4, <2>4, <3>1, <4>2, <4>3
      <4> QED BY <2>1, <4>1, <4>4 DEF Entries
    <3> QED BY <3>1
  <2>6. \A k \in Entries(J) : stream'[k] = stream[k] /\ stream[k].attempt \in Nat
    <3>1. ASSUME NEW k \in DOMAIN stream
          PROVE  stream'[k] = stream[k] /\ stream[k] \in Message
      BY <1>4, <2>1, <3>1
    <3>2. \A x \in Message : x.attempt \in Nat BY DEF Message
    <3> QED BY <3>1, <3>2 DEF Entries
  <2>7. \A k \in Entries(J) : stream[k].attempt <= Held(w).attempt
    BY <1>4 DEF MessageInv, NewestCarries, Held
  <2>8. \A k \in Entries(J)' : stream'[k].attempt <= stream'[n].attempt
    <3>1. stream'[n].attempt = Held(w).attempt + 1 BY <1>3, <2>1
    <3>2. \A k \in Entries(J) : stream'[k].attempt <= stream'[n].attempt
      BY <1>4, <2>6, <2>7, <3>1
    <3> QED BY <1>4, <2>2, <3>1, <3>2
  <2>9. OneMessage'
    BY <2>3, <2>5 DEF MessageInv, OneMessage
  <2>10. NewestCarries'
    <3>1. ASSUME NEW j \in Jobs, j # J, NEW i \in Carriers(j)', NEW k \in Entries(j)'
          PROVE  stream'[k].attempt <= stream'[i].attempt
      <4>1. i \in Carriers(j) /\ k \in Entries(j) BY <2>2, <2>3, <3>1
      <4>2. stream[k].attempt <= stream[i].attempt BY <4>1 DEF MessageInv, NewestCarries
      <4> QED BY <2>1, <4>1, <4>2 DEF Carriers, Entries
    <3> QED BY <2>5, <2>8, <3>1 DEF NewestCarries
  <2> QED BY <2>2, <2>9, <2>10 DEF MessageInv
<1> QED BY <1>5, <1>7, <1>8

\* Whatever a worker does, a job keeps one message, and no other job gets one.
LEMMA WorkerMessages ==
  ASSUME TypeInv, NoSecondCopy, Grows, MessageInv, NEW w \in Workers, WorkerStep(w)
  PROVE  /\ MessageInv'
         /\ \A j \in Jobs : Entries(j) = {} => Entries(j)' = {}
<1>1. CASE Republish(w)
  <2>1. MessageInv' /\ \A j \in Jobs : j # JobOf(w) => Entries(j)' = Entries(j)
    BY <1>1, RetryCarries
  <2>2. pc[w] \notin Settling \cup {"idle"}
    BY <1>1 DEF Republish, Settling, AckPcs
  <2>3. Entries(JobOf(w)) # {}
    BY <2>2, HolderCarries DEF Carriers
  <2> QED BY <2>1, <2>3
<1>2. CASE stream' = stream
  <2>1. \A j \in Jobs : Carriers(j)' \subseteq Carriers(j)
    BY <1>2, NoNewCarrier DEF Carriers, Entries
  <2> QED BY <1>2, <2>1, FewerCarriers DEF Entries
<1> QED
  BY <1>1, <1>2
  DEF WorkerStep, Consume, ConsumePending, ConsumeFresh, ConsumeNothing, Process,
      LookUp, MarkRunning, StampStarted, Analyze, SaveAnalysis, MarkCompleted,
      StampCompleted, Settle, Requeue, MarkFailed, StampFailed, PublishDeadLetter,
      Ack, vars

\* The first message of a job is its only one.
LEMMA FirstMessage ==
  ASSUME TypeInv, NoSecondCopy, MessageInv, NEW j \in Jobs, PublishFirst(j),
         Entries(j) = {}
  PROVE  /\ MessageInv'
         /\ \A k \in Jobs : k # j => Entries(k)' = Entries(k)
         /\ sub'[j] \in {"accepted", "rejected"}
         /\ \A k \in Jobs : k # j => sub'[k] = sub[k]
<1>1. PICK ok \in BOOLEAN :
        /\ Xadd([job |-> j, attempt |-> 0], ok)
        /\ sub' = [sub EXCEPT ![j] = IF ok THEN "accepted" ELSE "rejected"]
  BY DEF PublishFirst
<1>2. /\ sub'[j] \in {"accepted", "rejected"}
      /\ \A k \in Jobs : k # j => sub'[k] = sub[k]
  BY <1>1 DEF TypeInv, TypeOK
<1>3. SUFFICES ASSUME NEW n \in Nat, n = Len(stream) + 1,
                      NEW m \in Message, m.job = j, Xadd(m, ok)
               PROVE  MessageInv' /\ \A k \in Jobs : k # j => Entries(k)' = Entries(k)
  <2>1. Len(stream) + 1 \in Nat BY DEF TypeInv, TypeOK
  <2>2. [job |-> j, attempt |-> 0] \in Message BY DEF Message
  <2> QED BY <1>1, <1>2, <2>1, <2>2
<1>4. pc' = pc /\ msg' = msg /\ pel' = pel /\ delivered' = delivered
  BY DEF PublishFirst, group, worker
<1>5. stream \in Seq(Message) /\ delivered \in 0 .. Len(stream) BY DEF TypeInv, TypeOK
<1>6. CASE stream' = stream
  <2>1. \A k \in Jobs : Entries(k)' = Entries(k) /\ Carriers(k)' = Carriers(k)
    BY <1>4, <1>6 DEF Carriers, Entries, Unacked, BeingSettled
  <2> QED BY <1>6, <2>1, FewerCarriers
<1>7. CASE stream' = Append(stream, m)
  <2>1. /\ DOMAIN stream' = DOMAIN stream \cup {n} /\ n \notin DOMAIN stream
        /\ stream'[n] = m /\ \A i \in DOMAIN stream : stream'[i] = stream[i]
        /\ Len(stream') = n
    BY <1>3, <1>5, <1>7
  <2>2. \A k \in Jobs : Entries(k)' = IF k = j THEN {n} ELSE Entries(k)
    BY <1>3, <2>1 DEF Entries
  <2>3. \A i \in DOMAIN stream : i \in Unacked' => i \in Unacked
    BY <1>3, <1>4, <1>5, <2>1 DEF Unacked
  <2>4. \A k \in Jobs : k # j => Carriers(k)' \subseteq Carriers(k)
    BY <1>4, <2>2, <2>3 DEF Carriers, Entries, BeingSettled
  <2>5. OneMessage'
    BY <2>2, <2>4 DEF MessageInv, OneMessage, Carriers
  <2>6. NewestCarries'
    <3>1. ASSUME NEW k \in Jobs, k # j, NEW i \in Carriers(k)', NEW e \in Entries(k)'
          PROVE  stream'[e].attempt <= stream'[i].attempt
      <4>1. i \in Carriers(k) /\ e \in Entries(k) BY <2>2, <2>4, <3>1
      <4>2. stream[e].attempt <= stream[i].attempt
        BY <4>1 DEF MessageInv, NewestCarries
      <4> QED BY <2>1, <4>1, <4>2 DEF Carriers, Entries
    <3>2. stream'[n].attempt <= stream'[n].attempt BY <2>1 DEF Message
    <3> QED BY <2>2, <3>1, <3>2 DEF NewestCarries, Carriers
  <2> QED BY <2>2, <2>5, <2>6 DEF MessageInv
<1> QED BY <1>3, <1>6, <1>7 DEF Xadd, Fault, NoSecondCopy

-----------------------------------------------------------------------------
(* One worker at a time *)

\* Two workers with something left to do hold messages of different jobs.
LEMMA SoleHolder ==
  ASSUME TypeInv, OneMessage, NEW v \in Workers, NEW w \in Workers, v # w,
         {pc[v], pc[w]} \cap (Settling \cup {"idle"}) = {}
  PROVE  JobOf(v) # JobOf(w)
<1>1. pc[v] \notin Settling \cup {"idle"} /\ pc[w] \notin Settling \cup {"idle"}
  OBVIOUS
<1>2. msg[v] \in Carriers(JobOf(v)) /\ msg[w] \in Carriers(JobOf(w))
  BY <1>1, HolderCarries
<1>3. msg[v] \in pel[v] /\ msg[w] \in pel[w] /\ pel[v] \cap pel[w] = {}
  BY <1>1, HeldMessage DEF TypeInv, MessageOwnership
<1>4. JobOf(v) \in Jobs BY <1>1, HeldMessage
<1> QED BY <1>2, <1>3, <1>4 DEF OneMessage

Writing == {"markRunning", "markCompleted", "requeue", "markFailed"}

\* A worker writes only the row of the job in its hand.
LEMMA WorkerWrites ==
  ASSUME TypeInv, NEW w \in Workers, WorkerStep(w)
  PROVE  \/ status' = status
         \/ /\ pc[w] \in Writing
            /\ \A k \in Jobs : k # JobOf(w) => status'[k] = status[k]
<1>1. ASSUME pc[w] # "idle", NEW s \in Status, NEW ok \in BOOLEAN,
             UpdateStatus(JobOf(w), s, ok)
      PROVE  \A k \in Jobs : k # JobOf(w) => status'[k] = status[k]
  BY <1>1, HeldMessage, UpdateStatusEffect
<1>2. CASE MarkRunning(w)
  BY <1>1, <1>2 DEF MarkRunning, Writing, Status
<1>3. CASE MarkCompleted(w)
  BY <1>1, <1>3 DEF MarkCompleted, Writing, Status
<1>4. CASE Requeue(w)
  BY <1>1, <1>4 DEF Requeue, Writing, Status
<1>5. CASE MarkFailed(w)
  BY <1>1, <1>5 DEF MarkFailed, Writing, Status
<1> QED
  BY <1>2, <1>3, <1>4, <1>5
  DEF WorkerStep, Consume, ConsumePending, ConsumeFresh, ConsumeNothing, Process,
      LookUp, StampStarted, Analyze, SaveAnalysis, StampCompleted, Settle, Republish,
      StampFailed, PublishDeadLetter, Ack, vars, store

\* Nobody else writes the row a worker relies on.
LEMMA OthersExpect ==
  ASSUME TypeInv, OneMessage, Grows, NEW w \in Workers, WorkerStep(w),
         NEW v \in Workers, v # w, RowAsExpected(v)
  PROVE  RowAsExpected(v)'
<1>1. pc'[v] = pc[v] /\ msg'[v] = msg[v] BY OthersStay
<1>2. SUFFICES ASSUME pc[v] \in Relying PROVE status'[JobOf(v)'] \in Expected(pc[v])
  BY <1>1 DEF RowAsExpected
<1>3. pc[v] \notin Settling \cup {"idle"} BY <1>2 DEF Relying, Settling, AckPcs
<1>4. JobOf(v)' = JobOf(v) /\ JobOf(v) \in Jobs
  BY <1>1, <1>3, HandStays, HeldMessage
<1>5. pc[w] \in Writing => pc[w] \notin Settling \cup {"idle"}
  BY DEF Writing, Settling, AckPcs
<1>6. pc[w] \in Writing => JobOf(v) # JobOf(w)
  BY <1>3, <1>5, SoleHolder
<1>7. status'[JobOf(v)] = status[JobOf(v)]
  BY <1>4, <1>6, WorkerWrites
<1> QED BY <1>2, <1>4, <1>7 DEF RowAsExpected

\* What a write leaves in the row of a worker's job.
LEMMA WriteLeaves ==
  ASSUME TypeInv, WritesAreKnown, NEW j \in Jobs, status[j] # "absent",
         NEW s \in Status, NEW ok \in BOOLEAN, UpdateStatus(j, s, ok)
  PROVE  /\ status' = status \/ status' = [status EXCEPT ![j] = s]
         /\ ok => status'[j] = s
         /\ ~ok /\ status[j] # s => status' = status
<1>1. Written(j, s) = [status EXCEPT ![j] = s] BY DEF Written
<1>2. \/ ok = RowChanged(j, s) /\ status' = Written(j, s)
      \/ ~ok /\ status' = status
  BY DEF UpdateStatus, Fault, WritesAreKnown
<1>3. status[j] # s => RowChanged(j, s) BY DEF RowChanged
<1>4. ok => status'[j] = s BY UpdateStatusEffect
<1> QED BY <1>1, <1>2, <1>3, <1>4

\* A worker relies on what the look-up, or its own last write, has left.
LEMMA OwnExpects ==
  ASSUME TypeInv, WritesAreKnown, Grows, NEW w \in Workers, WorkerStep(w), RowAsExpected(w)
  PROVE  RowAsExpected(w)'
<1>1. TypeInv' /\ status \in [Jobs -> Status \cup {"absent"}]
      /\ status' \in [Jobs -> Status \cup {"absent"}]
  BY TypeStep DEF TypeInv, TypeOK, Rows, Next
<1>2. SUFFICES ASSUME pc'[w] \in Relying PROVE status'[JobOf(w)'] \in Expected(pc'[w])
  BY DEF RowAsExpected
<1>3. pc \in [Workers -> Pcs] BY DEF TypeInv, TypeOK
<1>4. /\ pc[w] # "idle" /\ msg'[w] = msg[w]
      /\ \/ LookUp(w) \/ MarkRunning(w) \/ StampStarted(w) \/ Analyze(w)
         \/ SaveAnalysis(w) \/ MarkCompleted(w) \/ Requeue(w) \/ MarkFailed(w)
         \/ StampFailed(w)
  BY <1>2, <1>3
  DEF WorkerStep, Consume, ConsumePending, ConsumeFresh, ConsumeNothing, Hold, Process,
      LookUp, MarkRunning, StampStarted, Analyze, SaveAnalysis, MarkCompleted,
      StampCompleted, Settle, Requeue, Republish, MarkFailed, StampFailed,
      PublishDeadLetter, Ack, Release, Goto, Relying, vars, worker
<1>5. SUFFICES ASSUME NEW J \in Jobs, J = JobOf(w), JobOf(w)' = J,
                      pc[w] \in Relying => status[J] \in Expected(pc[w])
               PROVE  status'[J] \in Expected(pc'[w])
  BY <1>4, HandStays, HeldMessage DEF RowAsExpected
<1>6. ASSUME NEW retryable \in BOOLEAN, Fail(w, retryable)
      PROVE  Expected(pc'[w]) = {"QUEUED", "RUNNING"}
  BY <1>3, <1>6, FailGoes DEF Expected
<1>7. CASE LookUp(w)
  <2>1. status'[J] = status[J] BY <1>7 DEF LookUp, store
  <2>2. pc'[w] \in {"ackUnknown", "ackTerminal", "analyze", "markRunning"}
        /\ (pc'[w] = "analyze" => status[J] = "RUNNING")
        /\ (pc'[w] = "markRunning" => status[J] \notin Terminal \cup {"absent", "RUNNING"})
    BY <1>3, <1>5, <1>7 DEF LookUp, Goto
  <2> QED BY <1>1, <1>2, <1>5, <2>1, <2>2 DEF Expected, Relying, Status, Terminal
<1>8. CASE MarkRunning(w)
  <2>1. PICK ok \in BOOLEAN :
          /\ UpdateStatus(J, "RUNNING", ok)
          /\ IF ok THEN Goto(w, "stampStarted") /\ UNCHANGED reason
                   ELSE Fail(w, TRUE)
    BY <1>5, <1>8 DEF MarkRunning
  <2>2. status[J] = "QUEUED" BY <1>5, <1>8 DEF MarkRunning, Expected, Relying
  <2>3. IF ok THEN status'[J] = "RUNNING" ELSE status'[J] = "QUEUED"
    BY <2>1, <2>2, WriteLeaves DEF Status
  <2>4. CASE ok
    <3>1. pc'[w] = "stampStarted" BY <1>3, <2>1, <2>4 DEF Goto
    <3> QED BY <2>3, <2>4, <3>1 DEF Expected
  <2>5. CASE ~ok
    BY <1>6, <2>1, <2>3, <2>5
  <2> QED BY <2>4, <2>5
<1>9. CASE StampStarted(w)
  <2>1. pc[w] = "stampStarted" /\ pc'[w] = "analyze" /\ status'[J] = status[J]
    BY <1>3, <1>9 DEF StampStarted, Goto
  <2> QED BY <1>5, <2>1 DEF Expected, Relying
<1>10. CASE Analyze(w)
  <2>1. pc[w] = "analyze" /\ status'[J] = status[J] BY <1>10 DEF Analyze, store
  <2>2. status[J] = "RUNNING" BY <1>5, <2>1 DEF Expected, Relying
  <2>3. pc'[w] = "saveAnalysis" \/ \E retryable \in BOOLEAN : Fail(w, retryable)
    BY <1>3, <1>10 DEF Analyze, Goto
  <2>4. CASE pc'[w] = "saveAnalysis" BY <2>1, <2>2, <2>4 DEF Expected
  <2> QED BY <1>6, <2>1, <2>2, <2>3, <2>4
<1>11. CASE SaveAnalysis(w)
  <2>1. pc[w] = "saveAnalysis" /\ pc'[w] = "markCompleted" /\ status'[J] = status[J]
    BY <1>3, <1>11 DEF SaveAnalysis, Goto
  <2> QED BY <1>5, <2>1 DEF Expected, Relying
<1>12. CASE MarkCompleted(w)
  <2>1. PICK ok \in BOOLEAN :
          /\ UpdateStatus(J, "COMPLETED", ok)
          /\ IF ok THEN Goto(w, "stampCompleted") /\ UNCHANGED reason
                   ELSE Fail(w, TRUE)
    BY <1>5, <1>12 DEF MarkCompleted
  <2>2. status[J] = "RUNNING" BY <1>5, <1>12 DEF MarkCompleted, Expected, Relying
  <2>3. ~ok BY <1>2, <1>3, <2>1 DEF Goto, Relying
  <2>4. status'[J] = "RUNNING"
    BY <2>1, <2>2, <2>3, WriteLeaves DEF Status
  <2> QED BY <1>6, <2>1, <2>3, <2>4
<1>13. CASE Requeue(w)
  <2>1. PICK ok \in BOOLEAN : UpdateStatus(J, "QUEUED", ok)
    BY <1>5, <1>13 DEF Requeue
  <2>2. status[J] \in {"QUEUED", "RUNNING"} BY <1>5, <1>13 DEF Requeue, Expected, Relying
  <2>3. status'[J] \in {"QUEUED", "RUNNING"}
    BY <1>1, <2>1, <2>2, WriteLeaves DEF Status
  <2>4. pc'[w] = "republish" BY <1>3, <1>13 DEF Requeue, Goto
  <2> QED BY <2>3, <2>4 DEF Expected
<1>14. CASE MarkFailed(w)
  <2>1. PICK ok \in BOOLEAN : UpdateStatus(J, "FAILED", ok)
    BY <1>5, <1>14 DEF MarkFailed
  <2>2. status[J] \in {"QUEUED", "RUNNING"}
    BY <1>5, <1>14 DEF MarkFailed, Expected, Relying
  <2>3. status'[J] \in {"QUEUED", "RUNNING", "FAILED"}
    BY <1>1, <2>1, <2>2, WriteLeaves DEF Status
  <2>4. pc'[w] = "stampFailed" BY <1>3, <1>14 DEF MarkFailed, Goto
  <2> QED BY <2>3, <2>4 DEF Expected
<1>15. CASE StampFailed(w)
  <2>1. pc[w] = "stampFailed" /\ pc'[w] = "deadLetter" /\ status'[J] = status[J]
    BY <1>3, <1>15 DEF StampFailed, Goto
  <2> QED BY <1>5, <2>1 DEF Expected, Relying
<1> QED
  BY <1>4, <1>7, <1>8, <1>9, <1>10, <1>11, <1>12, <1>13, <1>14, <1>15

LEMMA CleanInit == Init => CleanInv
<1> SUFFICES ASSUME Init PROVE CleanInv
  OBVIOUS
<1>1. stream = <<>> /\ status = [j \in Jobs |-> "absent"]
      /\ pc = [w \in Workers |-> "idle"] /\ sub = [j \in Jobs |-> "new"]
  BY DEF Init, EmptyTables
<1>2. \A j \in Jobs : Entries(j) = {} /\ Carriers(j) = {}
  BY <1>1 DEF Entries, Carriers
<1> QED BY <1>1, <1>2, RetryInit
  DEF CleanInv, MessageInv, OneMessage, NewestCarries, Unpublished

LEMMA CleanStep == NoSecondCopy /\ CleanInv /\ [Next]_vars => CleanInv'
<1> SUFFICES ASSUME NoSecondCopy, CleanInv, [Next]_vars PROVE CleanInv'
  OBVIOUS
<1>1. RetryInv /\ TypeInv /\ MessageInv /\ OneMessage /\ Unpublished
  BY DEF CleanInv, RetryInv, MessageInv
<1>2. RetryInv' /\ Grows BY <1>1, RetryStep, StepGrows
<1>3. ASSUME NEW w \in Workers, WorkerStep(w) PROVE CleanInv'
  <2>1. MessageInv' /\ \A j \in Jobs : Entries(j) = {} => Entries(j)' = {}
    BY <1>1, <1>2, <1>3, WorkerMessages
  <2>2. sub' = sub
    BY <1>3
    DEF WorkerStep, Consume, ConsumePending, ConsumeFresh, ConsumeNothing, Process,
        LookUp, MarkRunning, StampStarted, Analyze, SaveAnalysis, MarkCompleted,
        StampCompleted, Settle, Requeue, Republish, MarkFailed, StampFailed,
        PublishDeadLetter, Ack, vars
  <2>3. \A j \in Jobs : sub[j] = "new" => status'[j] = status[j]
    <3>1. ASSUME NEW j \in Jobs, sub[j] = "new", pc[w] \in Writing PROVE j # JobOf(w)
      <4>1. pc[w] \notin Settling \cup {"idle"} BY <3>1 DEF Writing, Settling, AckPcs
      <4>2. msg[w] \in Entries(JobOf(w)) BY <1>1, <4>1, HolderCarries DEF Carriers
      <4> QED BY <1>1, <3>1, <4>2 DEF Unpublished
    <3> QED BY <1>1, <1>3, <3>1, WorkerWrites
  <2>4. Unpublished' BY <1>1, <2>1, <2>2, <2>3 DEF Unpublished
  <2> QED BY <1>2, <2>1, <2>4 DEF CleanInv
<1>4. ASSUME NEW j \in Jobs, PublishFirst(j) PROVE CleanInv'
  <2>1. Entries(j) = {} BY <1>1, <1>4 DEF PublishFirst, Unpublished
  <2>2. /\ MessageInv' /\ \A k \in Jobs : k # j => Entries(k)' = Entries(k)
        /\ sub'[j] \in {"accepted", "rejected"} /\ \A k \in Jobs : k # j => sub'[k] = sub[k]
    BY <1>1, <1>4, <2>1, FirstMessage
  <2>3. status' = status BY <1>4 DEF PublishFirst, store
  <2>4. Unpublished' BY <1>1, <2>2, <2>3 DEF Unpublished
  <2> QED BY <1>2, <2>2, <2>4 DEF CleanInv
<1>5. ASSUME NEW j \in Jobs, SaveJob(j) \/ CheckBacklog(j) PROVE CleanInv'
  <2>1. UNCHANGED <<stream, pc, msg, delivered, pel>>
    BY <1>5 DEF SaveJob, CheckBacklog, group, worker
  <2>2. /\ MessageInv' /\ \A k \in Jobs : Entries(k)' = Entries(k)
    BY <1>1, <2>1
    DEF MessageInv, OneMessage, NewestCarries, Carriers, Entries, Unacked, BeingSettled
  <2>3. /\ \A k \in Jobs : k # j => sub'[k] = sub[k] /\ status'[k] = status[k]
        /\ sub[j] \in {"new", "saved"} /\ sub'[j] # "new"
        /\ sub[j] # "new" => status' = status
    BY <1>1, <1>5 DEF SaveJob, CheckBacklog, store, TypeInv, TypeOK, Rows
  <2>4. Unpublished' BY <1>1, <2>2, <2>3 DEF Unpublished
  <2> QED BY <1>2, <2>2, <2>4 DEF CleanInv
<1>6. CASE Crash
  <2>1. crashes \in 0 .. 0 /\ crashes < 0
    BY <1>1, <1>6 DEF Crash, NoSecondCopy, TypeInv, TypeOK
  <2> QED BY <2>1
<1>7. CASE UNCHANGED vars
  BY <1>1, <1>2, <1>7
  DEF vars, store, group, worker, CleanInv, MessageInv, OneMessage, NewestCarries,
      Carriers, Entries, Unacked, BeingSettled, Unpublished
<1> QED
  BY <1>3, <1>4, <1>5, <1>6, <1>7 DEF Next, Request

LEMMA RowsInit == Init => RowsInv
BY DEF Init, RowsInv, RowAsExpected, Relying

\* A request writes the row of a job nobody has a message of.
LEMMA RowsByRequest ==
  ASSUME CleanInv, RowsInv, NEW j \in Jobs, Request(j)
  PROVE  RowsInv'
<1>1. TypeInv /\ Unpublished /\ Grows BY StepGrows DEF CleanInv, RetryInv, Next
<1>2. pc' = pc /\ msg' = msg
  BY DEF Request, SaveJob, CheckBacklog, PublishFirst, worker
<1>3. \/ status' = status
      \/ sub[j] = "new" /\ \A k \in Jobs : k # j => status'[k] = status[k]
  BY <1>1 DEF Request, SaveJob, CheckBacklog, PublishFirst, store, TypeInv, TypeOK, Rows
<1>4. SUFFICES ASSUME NEW w \in Workers, pc[w] \in Relying
               PROVE  status'[JobOf(w)'] \in Expected(pc[w])
  BY <1>2 DEF RowsInv, RowAsExpected
<1>5. pc[w] \notin Settling \cup {"idle"} BY <1>4 DEF Relying, Settling, AckPcs
<1>6. msg[w] \in Entries(JobOf(w)) BY <1>1, <1>5, HolderCarries DEF Carriers
<1>7. JobOf(w)' = JobOf(w) /\ JobOf(w) \in Jobs
  BY <1>1, <1>2, <1>5, HandStays, HeldMessage
<1>8. status'[JobOf(w)] = status[JobOf(w)]
  BY <1>1, <1>3, <1>6, <1>7 DEF Unpublished
<1> QED BY <1>4, <1>7, <1>8 DEF RowsInv, RowAsExpected

LEMMA RowsStep ==
  WritesAreKnown /\ CleanInv /\ RowsInv /\ [Next]_vars => RowsInv'
<1> SUFFICES ASSUME WritesAreKnown, CleanInv, RowsInv, [Next]_vars
             PROVE  RowsInv'
  OBVIOUS
<1>1. TypeInv /\ OneMessage /\ Grows
  BY StepGrows DEF CleanInv, RetryInv, MessageInv
<1>2. ASSUME NEW w \in Workers, WorkerStep(w) PROVE RowsInv'
  BY <1>1, <1>2, OthersExpect, OwnExpects DEF RowsInv
<1>3. CASE Crash
  BY <1>3 DEF Crash, RowsInv, RowAsExpected, Relying
<1>4. CASE UNCHANGED vars
  BY <1>4 DEF vars, store, worker, RowsInv, RowAsExpected, JobOf, Held
<1> QED BY <1>2, <1>3, <1>4, RowsByRequest DEF Next

\* Unless an XADD is executed and reported as failed, an XACK is refused or the backend
\* crashes, a job has at most one message with work left in it: the retry replaces the
\* failed attempt (handleRetryOrDeadLetter publishes, then the loop acknowledges).
THEOREM OneCarrierAlways ==
  ASSUME NoSecondCopy
  PROVE  Spec => []OneCarrier
<1>1. CleanInv => OneCarrier
  <2>1. SUFFICES ASSUME CleanInv, NEW j \in Jobs PROVE Cardinality(Carriers(j)) <= 1
    BY DEF OneCarrier
  <2>2. \A i, k \in Carriers(j) : i = k
    BY <2>1 DEF CleanInv, MessageInv, OneMessage
  <2>3. CASE Carriers(j) = {}
    BY <2>3, FS_EmptySet
  <2>4. CASE Carriers(j) # {}
    <3>1. PICK i : Carriers(j) = {i} BY <2>2, <2>4
    <3> QED BY <3>1, FS_Singleton
  <2> QED BY <2>3, <2>4
<1> QED BY <1>1, CleanInit, CleanStep, PTL DEF Spec

\* Under the same condition two workers never work in the same clone directory, which
\* is named after the job (JobWorker.cpp, /tmp/cortex-workspace/<jobId>).
THEOREM OneWorkerPerJob ==
  ASSUME NoSecondCopy
  PROVE  Spec => []WorkspaceExclusive
<1>1. CleanInv => WorkspaceExclusive
  <2>1. SUFFICES ASSUME CleanInv, NEW v \in Workers, NEW w \in Workers, v # w,
                        {pc[v], pc[w]} \subseteq {"analyze", "saveAnalysis", "markCompleted"}
                 PROVE  JobOf(v) # JobOf(w)
    BY DEF WorkspaceExclusive
  <2>2. {pc[v], pc[w]} \cap (Settling \cup {"idle"}) = {}
    BY <2>1 DEF Settling, AckPcs
  <2>3. TypeInv /\ OneMessage BY <2>1 DEF CleanInv, RetryInv, MessageInv
  <2> QED BY <2>1, <2>2, <2>3, SoleHolder
<1> QED BY <1>1, CleanInit, CleanStep, PTL DEF Spec

-----------------------------------------------------------------------------
(* The life of a job *)

Attempts(j) == {0} \cup {stream[i].attempt : i \in Entries(j)}

Highest(S) == CHOOSE a \in S : \A b \in S : b <= a

LEMMA HighestIs ==
  ASSUME NEW S \in SUBSET Nat, NEW a \in S, \A b \in S : b <= a
  PROVE  Highest(S) = a
<1>1. \E c \in S : \A b \in S : b <= c OBVIOUS
<1>2. Highest(S) \in S /\ \A b \in S : b <= Highest(S) BY <1>1 DEF Highest
<1>3. Highest(S) <= a /\ a <= Highest(S) BY <1>2
<1>4. Highest(S) \in Nat /\ a \in Nat BY <1>2
<1> QED BY <1>3, <1>4

LEMMA LatestIsHighest ==
  ASSUME NEW j
  PROVE  LatestAttempt(j) = Highest(Attempts(j))
BY Zenon DEF LatestAttempt, Highest, Attempts

LEMMA AttemptsAreNumbers ==
  ASSUME TypeInv, NEW j
  PROVE  Attempts(j) \in SUBSET Nat
<1>1. \A i \in DOMAIN stream : stream[i] \in Message BY DEF TypeInv, TypeOK
<1>2. \A i \in Entries(j) : stream[i].attempt \in Nat BY <1>1 DEF Entries, Message
<1> QED BY <1>2 DEF Attempts

LEMMA LatestStays ==
  ASSUME NEW j, Attempts(j)' = Attempts(j)
  PROVE  LatestAttempt(j)' = LatestAttempt(j)
<1>1. Highest(Attempts(j))' = Highest(Attempts(j)) BY DEF Highest
<1>2. LatestAttempt(j)' = Highest(Attempts(j))' BY Zenon DEF LatestAttempt, Highest, Attempts
<1> QED BY <1>1, <1>2, LatestIsHighest

\* The attempt a worker is about to publish again is the latest of its job, and the
\* retry becomes the latest.
LEMMA RetryAdvances ==
  ASSUME CleanInv, NEW w \in Workers, Republish(w), stream' # stream
  PROVE  /\ LatestAttempt(JobOf(w)) = Held(w).attempt
         /\ Held(w).attempt < MaxRetries
         /\ \A j \in Jobs : LatestAttempt(j)' =
              IF j = JobOf(w) THEN LatestAttempt(j) + 1 ELSE LatestAttempt(j)
<1>1. TypeInv /\ MessageInv /\ Counted(w) /\ pc[w] = "republish"
  BY DEF CleanInv, RetryInv, Republish
<1>2. pc[w] \notin Settling \cup {"idle"} BY <1>1 DEF Settling, AckPcs
<1>3. /\ msg[w] \in Carriers(JobOf(w)) /\ msg[w] \in Entries(JobOf(w))
      /\ JobOf(w) \in Jobs /\ Held(w) \in Message
  BY <1>1, <1>2, HolderCarries, HeldMessage DEF Carriers
<1>4. Held(w).attempt < MaxRetries /\ Held(w).attempt \in Nat
  BY <1>1, <1>3 DEF Counted, Message
<1>5. SUFFICES ASSUME NEW J \in Jobs, J = JobOf(w), NEW a \in Nat, a = Held(w).attempt,
                      NEW m \in Message, m.job = J, m.attempt = a + 1,
                      stream' = Append(stream, m)
               PROVE  /\ LatestAttempt(J) = a
                      /\ \A j \in Jobs : LatestAttempt(j)' =
                           IF j = J THEN LatestAttempt(j) + 1 ELSE LatestAttempt(j)
  <2> DEFINE m == [job |-> JobOf(w), attempt |-> Held(w).attempt + 1]
  <2>1. m \in Message /\ m.job = JobOf(w) /\ m.attempt = Held(w).attempt + 1
    BY <1>3 DEF Message
  <2>2. \E ok \in BOOLEAN : Xadd(m, ok) BY DEF Republish
  <2> HIDE DEF m
  <2>3. stream' = Append(stream, m) BY <2>2 DEF Xadd
  <2> QED BY <1>3, <1>4, <2>1, <2>3
<1>6. \A b \in Attempts(J) : b <= a
  BY <1>1, <1>3, <1>5 DEF Attempts, MessageInv, NewestCarries, Held
<1>7. a \in Attempts(J) BY <1>3, <1>5 DEF Attempts, Held
<1>8. LatestAttempt(J) = a
  BY <1>1, <1>6, <1>7, AttemptsAreNumbers, HighestIs, LatestIsHighest
<1>9. stream \in Seq(Message) BY <1>1 DEF TypeInv, TypeOK
<1>10. PICK n \in Nat : /\ DOMAIN stream' = DOMAIN stream \cup {n} /\ n \notin DOMAIN stream
                        /\ stream'[n] = m
                        /\ \A i \in DOMAIN stream : stream'[i] = stream[i]
  BY <1>5, <1>9
<1>11. \A j \in Jobs : Entries(j)' = IF j = J THEN Entries(j) \cup {n} ELSE Entries(j)
  BY <1>5, <1>10 DEF Entries
<1>12. \A j \in Jobs : \A i \in Entries(j) : stream'[i] = stream[i]
  BY <1>10 DEF Entries
<1>13. ASSUME NEW j \in Jobs, j # J PROVE LatestAttempt(j)' = LatestAttempt(j)
  <2>1. Attempts(j)' = Attempts(j) BY <1>11, <1>12, <1>13 DEF Attempts
  <2> QED BY <2>1, LatestStays
<1>14. LatestAttempt(J)' = a + 1
  <2>1. Attempts(J)' = Attempts(J) \cup {a + 1}
    <3>1. Entries(J)' = Entries(J) \cup {n} /\ stream'[n].attempt = a + 1
      BY <1>5, <1>10, <1>11
    <3>2. \A i \in Entries(J) : stream'[i].attempt = stream[i].attempt BY <1>12
    <3>3. Attempts(J)' = {0} \cup {stream'[i].attempt : i \in Entries(J) \cup {n}}
      BY <3>1 DEF Attempts
    <3> QED BY <3>1, <3>2, <3>3 DEF Attempts
  <2>2. Attempts(J)' \in SUBSET Nat /\ \A b \in Attempts(J)' : b <= a + 1
    BY <1>1, <1>6, <2>1, AttemptsAreNumbers
  <2>3. Highest(Attempts(J)') = a + 1 BY <2>1, <2>2, HighestIs
  <2>4. LatestAttempt(J)' = Highest(Attempts(J))' BY Zenon DEF LatestAttempt, Highest, Attempts
  <2> QED BY <2>3, <2>4 DEF Highest
<1> QED BY <1>8, <1>13, <1>14

\* The state function Life is instantiated with.
attempt == [j \in Jobs |-> LatestAttempt(j)]

LEMMA AttemptStays ==
  ASSUME UNCHANGED stream
  PROVE  attempt' = attempt
<1>1. \A j \in Jobs : Attempts(j)' = Attempts(j) BY DEF Attempts, Entries
<1> QED BY <1>1, LatestStays DEF attempt

LEMMA LifeInit == Init => Life!Init
<1> SUFFICES ASSUME Init PROVE Life!Init
  OBVIOUS
<1>1. stream = <<>> /\ status = [j \in Jobs |-> "absent"]
  BY DEF Init, EmptyTables
<1>2. ASSUME NEW j \in Jobs PROVE LatestAttempt(j) = 0
  <2>1. Attempts(j) = {0} BY <1>1 DEF Attempts, Entries
  <2>2. Highest({0}) = 0 BY HighestIs
  <2> QED BY <2>1, <2>2, LatestIsHighest
<1> QED BY <1>1, <1>2 DEF Life!Init

\* What a write of a worker is, in the life of its job.
LEMMA LifeWrite ==
  ASSUME CleanInv, RowsInv, WritesAreKnown, NEW w \in Workers, WorkerStep(w),
         UNCHANGED stream
  PROVE  Life!Next \/ UNCHANGED Life!life
<1>1. TypeInv /\ RowAsExpected(w) BY DEF CleanInv, RetryInv, RowsInv
<1>2. attempt' = attempt BY AttemptStays
<1>3. CASE UNCHANGED status
  BY <1>2, <1>3 DEF Life!life, attempt
<1>4. CASE pc[w] \in Writing /\ pc[w] # "idle"
  <2>1. JobOf(w) \in Jobs BY <1>1, <1>4, HeldMessage
  <2>2. SUFFICES ASSUME NEW J \in Jobs, J = JobOf(w) PROVE Life!Next \/ UNCHANGED Life!life
    BY <2>1
  <2>3. status[J] \in Expected(pc[w]) BY <1>1, <1>4, <2>2 DEF RowAsExpected, Relying, Writing
  <2>4. status[J] \in {"QUEUED", "RUNNING"} BY <1>4, <2>3 DEF Expected, Writing
  <2>5. ASSUME NEW s \in Status, \E ok \in BOOLEAN : UpdateStatus(J, s, ok)
        PROVE  status' = status \/ status' = [status EXCEPT ![J] = s]
    BY <1>1, <2>4, <2>5, WriteLeaves
  <2>6. CASE MarkRunning(w)
    <3>1. status' = status \/ status' = [status EXCEPT ![J] = "RUNNING"]
      BY <2>2, <2>5, <2>6 DEF MarkRunning, Status
    <3>2. status[J] = "QUEUED" BY <2>3, <2>6 DEF MarkRunning, Expected
    <3>3. CASE status' = [status EXCEPT ![J] = "RUNNING"]
      <4>1. Life!Start(J) BY <1>2, <3>2, <3>3 DEF Life!Start, Life!Move, attempt
      <4> QED BY <4>1 DEF Life!Next
    <3> QED BY <1>3, <3>1, <3>3
  <2>7. CASE MarkCompleted(w)
    <3>1. status' = status \/ status' = [status EXCEPT ![J] = "COMPLETED"]
      BY <2>2, <2>5, <2>7 DEF MarkCompleted, Status
    <3>2. status[J] = "RUNNING" BY <2>3, <2>7 DEF MarkCompleted, Expected
    <3>3. CASE status' = [status EXCEPT ![J] = "COMPLETED"]
      <4>1. Life!Complete(J) BY <1>2, <3>2, <3>3 DEF Life!Complete, Life!Move, attempt
      <4> QED BY <4>1 DEF Life!Next
    <3> QED BY <1>3, <3>1, <3>3
  <2>8. CASE Requeue(w)
    <3>1. status' = status \/ status' = [status EXCEPT ![J] = "QUEUED"]
      BY <2>2, <2>5, <2>8 DEF Requeue, Status
    <3>2. CASE status' = [status EXCEPT ![J] = "QUEUED"] /\ status[J] = "RUNNING"
      <4>1. Life!Requeue(J) BY <1>2, <3>2 DEF Life!Requeue, Life!Move, attempt
      <4> QED BY <4>1 DEF Life!Next
    <3>3. CASE status' = [status EXCEPT ![J] = "QUEUED"] /\ status[J] = "QUEUED"
      <4>1. status' = status BY <1>1, <3>3 DEF TypeInv, TypeOK, Rows
      <4> QED BY <1>3, <4>1
    <3> QED BY <1>3, <2>4, <3>1, <3>2, <3>3
  <2>9. CASE MarkFailed(w)
    <3>1. status' = status \/ status' = [status EXCEPT ![J] = "FAILED"]
      BY <2>2, <2>5, <2>9 DEF MarkFailed, Status
    <3>2. CASE status' = [status EXCEPT ![J] = "FAILED"]
      <4>1. Life!GiveUp(J) BY <1>2, <2>4, <3>2 DEF Life!GiveUp, Life!Move, attempt
      <4> QED BY <4>1 DEF Life!Next
    <3> QED BY <1>3, <3>1, <3>2
  <2> QED
    BY <1>4, <2>6, <2>7, <2>8, <2>9
    DEF Writing, WorkerStep, Consume, ConsumePending, ConsumeFresh, ConsumeNothing,
        Process, LookUp, StampStarted, Analyze, SaveAnalysis, StampCompleted, Settle,
        Republish, StampFailed, PublishDeadLetter, Ack, AckPcs
<1> QED BY <1>1, <1>3, <1>4, WorkerWrites DEF Writing

\* A submission creates its job; its first message is attempt 0.
LEMMA LifeRequest ==
  ASSUME CleanInv, NEW j \in Jobs, Request(j)
  PROVE  Life!Next \/ UNCHANGED Life!life
<1>1. TypeInv /\ Unpublished /\ Grows
  BY StepGrows DEF CleanInv, RetryInv, Next
<1>2. CASE SaveJob(j)
  <2>1. attempt' = attempt BY <1>2, AttemptStays DEF SaveJob
  <2>2. status[j] = "absent" BY <1>1, <1>2 DEF SaveJob, Unpublished
  <2>3. CASE status' = [status EXCEPT ![j] = "QUEUED"]
    <3>1. Life!Create(j) BY <2>1, <2>2, <2>3 DEF Life!Create, Life!Move, attempt
    <3> QED BY <3>1 DEF Life!Next
  <2> QED BY <1>2, <2>1, <2>3 DEF SaveJob, Life!life, attempt
<1>3. CASE CheckBacklog(j)
  BY <1>3, AttemptStays DEF CheckBacklog, store, Life!life, attempt
<1>4. CASE PublishFirst(j)
  <2>1. Entries(j) = {} BY <1>1, <1>4 DEF PublishFirst, Unpublished
  <2>2. SUFFICES ASSUME NEW m \in Message, m.job = j, m.attempt = 0,
                        stream' = stream \/ stream' = Append(stream, m)
                 PROVE  attempt' = attempt
    <3> DEFINE m == [job |-> j, attempt |-> 0]
    <3>1. m \in Message /\ m.job = j /\ m.attempt = 0 BY DEF Message
    <3>2. \E ok \in BOOLEAN : Xadd(m, ok) BY <1>4 DEF PublishFirst
    <3>3. status' = status BY <1>4 DEF PublishFirst, store
    <3> HIDE DEF m
    <3>4. stream' = stream \/ stream' = Append(stream, m) BY <3>2 DEF Xadd
    <3> QED BY <3>1, <3>3, <3>4 DEF Life!life, attempt
  <2>3. /\ \A i \in DOMAIN stream : i \in DOMAIN stream' /\ stream'[i] = stream[i]
        /\ \A i \in DOMAIN stream' \ DOMAIN stream : stream'[i] = m
    BY <1>1, <2>2, XaddGrows DEF Grows
  <2>4. ASSUME NEW k \in Jobs PROVE Attempts(k)' = Attempts(k)
    <3>1. CASE k # j
      <4>1. Entries(k)' = Entries(k) BY <2>2, <2>3, <3>1 DEF Entries
      <4>2. \A i \in Entries(k) : stream'[i] = stream[i] BY <2>3 DEF Entries
      <4> QED BY <4>1, <4>2 DEF Attempts
    <3>2. CASE k = j
      <4>1. \A i \in Entries(j)' : stream'[i].attempt = 0
        BY <2>1, <2>2, <2>3 DEF Entries
      <4>2. Attempts(j)' = {0} BY <4>1 DEF Attempts
      <4>3. Attempts(j) = {0} BY <2>1 DEF Attempts
      <4> QED BY <3>2, <4>2, <4>3
    <3> QED BY <3>1, <3>2
  <2> QED BY <2>4, LatestStays DEF attempt
<1> QED BY <1>2, <1>3, <1>4 DEF Request

LEMMA LifeStep ==
  ASSUME NoSecondCopy, WritesAreKnown, CleanInv, RowsInv, [Next]_vars
  PROVE  [Life!Next]_(Life!life)
<1>1. TypeInv BY DEF CleanInv, RetryInv
<1>2. ASSUME NEW w \in Workers, Republish(w), stream' # stream PROVE Life!Next
  <2>1. /\ LatestAttempt(JobOf(w)) < MaxRetries
        /\ \A j \in Jobs : LatestAttempt(j)' =
             IF j = JobOf(w) THEN LatestAttempt(j) + 1 ELSE LatestAttempt(j)
    BY <1>2, RetryAdvances
  <2>2. JobOf(w) \in Jobs BY <1>1, <1>2, HeldMessage DEF Republish
  <2>3. status[JobOf(w)] \in {"QUEUED", "RUNNING"}
    BY <1>2 DEF RowsInv, RowAsExpected, Relying, Expected, Republish
  <2>4. SUFFICES ASSUME NEW J \in Jobs, J = JobOf(w) PROVE Life!Redispatch(J)
    BY <2>2 DEF Life!Next
  <2>5. attempt' = [attempt EXCEPT ![J] = @ + 1] BY <2>1, <2>4 DEF attempt
  <2>6. attempt[J] < MaxRetries BY <2>1, <2>4 DEF attempt
  <2>7. status' = status BY <1>2 DEF Republish, store
  <2> QED BY <2>3, <2>4, <2>5, <2>6, <2>7 DEF Life!Redispatch, attempt
<1>3. ASSUME NEW w \in Workers, WorkerStep(w) PROVE [Life!Next]_(Life!life)
  <2>1. CASE UNCHANGED stream BY <1>3, <2>1, LifeWrite
  <2>2. CASE Republish(w) /\ stream' # stream BY <1>2, <2>2
  <2> QED
    BY <1>3, <2>1, <2>2
    DEF WorkerStep, Consume, ConsumePending, ConsumeFresh, ConsumeNothing, Process,
        LookUp, MarkRunning, StampStarted, Analyze, SaveAnalysis, MarkCompleted,
        StampCompleted, Settle, Requeue, MarkFailed, StampFailed, PublishDeadLetter,
        Ack, vars
<1>4. CASE Crash
  <2>1. crashes \in 0 .. 0 /\ crashes < 0
    BY <1>1, <1>4 DEF Crash, NoSecondCopy, TypeInv, TypeOK
  <2> QED BY <2>1
<1>5. CASE UNCHANGED vars
  BY <1>5, AttemptStays DEF vars, store, Life!life, attempt
<1> QED BY <1>3, <1>4, <1>5, LifeRequest DEF Next

\* The pipeline implements JobLifecycle: under the same condition, and if no status
\* write is done and reported as failed, however workers and submissions interleave, a
\* job is created once, moves between QUEUED and RUNNING with at most MaxRetries further
\* attempts, and ends once and for all (JobWorker.cpp, processJob and
\* handleRetryOrDeadLetter).
THEOREM PipelineImplementsLifecycle ==
  ASSUME NoSecondCopy, WritesAreKnown
  PROVE  Spec => Lifecycle
<1>1. CleanInv /\ RowsInv /\ [Next]_vars => [Life!Next]_(Life!life) BY LifeStep
<1>2. CleanInv /\ RowsInv /\ [Next]_vars => CleanInv' /\ RowsInv'
  BY CleanStep, RowsStep
<1> QED BY <1>1, <1>2, CleanInit, RowsInit, LifeInit, PTL DEF Spec, Lifecycle, Life!Spec

LEMMA EndedStays ==
  ASSUME NoSecondCopy, WritesAreKnown, CleanInv, RowsInv, [Next]_vars,
         NEW j \in Jobs, status[j] \in Terminal
  PROVE  status'[j] = status[j]
<1>1. [Life!Next]_(Life!life) BY LifeStep
<1>2. ASSUME NEW k \in Jobs, NEW from, NEW to, Life!Move(k, from, to),
             from \cap Terminal = {}
      PROVE  status'[j] = status[j]
  <2>1. status \in [Jobs -> Status \cup {"absent"}]
    BY DEF CleanInv, RetryInv, TypeInv, TypeOK, Rows
  <2>2. k # j /\ status' = [status EXCEPT ![k] = to]
    BY <1>2 DEF Life!Move
  <2> QED BY <2>1, <2>2
<1>3. CASE UNCHANGED Life!life
  BY <1>3 DEF Life!life
<1>4. CASE Life!Next
  BY <1>2, <1>4
  DEF Life!Next, Life!Create, Life!Start, Life!Requeue, Life!Complete, Life!GiveUp,
      Life!Redispatch, Terminal
<1> QED BY <1>1, <1>3, <1>4

\* Under the same two conditions a COMPLETED or FAILED job keeps its status, which
\* docs/API.md lets clients rely on: no step of JobLifecycle leaves a terminal state.
THEOREM EndedForGood ==
  ASSUME NoSecondCopy, WritesAreKnown
  PROVE  Spec => TerminalIsFinal
<1>1. CleanInv /\ RowsInv /\ [Next]_vars =>
        [\A j \in Jobs : status[j] \in Terminal => status'[j] = status[j]]_vars
  BY EndedStays
<1>2. CleanInv /\ RowsInv /\ [Next]_vars => CleanInv' /\ RowsInv'
  BY CleanStep, RowsStep
<1> QED BY <1>1, <1>2, CleanInit, RowsInit, PTL DEF Spec, TerminalIsFinal
-----------------------------------------------------------------------------
(* A status write is answered with false only by a failure *)

LEMMA WritesAreNew ==
  ASSUME TypeInv, RowsInv, [Next]_vars, NEW w \in Workers,
         pc[w] \in {"markRunning", "markCompleted"},
         pc'[w] \in {"requeue", "markFailed"}, NoFault
  PROVE  FALSE
<1>1. pc \in [Workers -> Pcs] /\ faults \in Nat
  BY DEF TypeInv, TypeOK
<1>2. pc' # pc BY <1>1
<1>3. MarkRunning(w) \/ MarkCompleted(w)
  <2>1. ~Crash BY <1>1 DEF Crash
  <2>2. ASSUME NEW j \in Jobs, Request(j) PROVE FALSE
    BY <1>2, <2>2 DEF Request, SaveJob, CheckBacklog, PublishFirst, worker
  <2>3. ASSUME NEW v \in Workers, v # w, WorkerStep(v) PROVE FALSE
    BY <1>1, <2>3, OthersStay
  <2>4. vars' # vars BY <1>2 DEF vars, worker
  <2>5. WorkerStep(w) BY <2>1, <2>2, <2>3, <2>4 DEF Next
  <2> QED
    BY <2>5 DEF WorkerStep, Consume, ConsumePending, ConsumeFresh, ConsumeNothing,
                Process, LookUp, StampStarted, Analyze, SaveAnalysis, StampCompleted,
                Settle, Requeue, Republish, MarkFailed, StampFailed,
                PublishDeadLetter, Ack, AckPcs
<1>4. status[JobOf(w)] \in Expected(pc[w])
  BY DEF RowsInv, RowAsExpected, Relying
<1>5. ~Fault("write_refused") /\ ~Fault("write_lost")
  BY <1>1 DEF NoFault, Fault
<1>6. CASE MarkRunning(w)
  <2>1. PICK ok \in BOOLEAN :
          /\ UpdateStatus(JobOf(w), "RUNNING", ok)
          /\ ok => Goto(w, "stampStarted")
    BY <1>6 DEF MarkRunning
  <2>2. ok BY <1>4, <1>5, <1>6, <2>1 DEF MarkRunning, Expected, UpdateStatus, RowChanged
  <2> QED BY <1>1, <2>1, <2>2 DEF Goto
<1>7. CASE MarkCompleted(w)
  <2>1. PICK ok \in BOOLEAN :
          /\ UpdateStatus(JobOf(w), "COMPLETED", ok)
          /\ ok => Goto(w, "stampCompleted")
    BY <1>7 DEF MarkCompleted
  <2>2. ok BY <1>4, <1>5, <1>7, <2>1 DEF MarkCompleted, Expected, UpdateStatus, RowChanged
  <2> QED BY <1>1, <2>1, <2>2 DEF Goto
<1> QED BY <1>3, <1>6, <1>7

\* Under the same two conditions the `false' of updateStatus means what
\* IJobRepository.h:63 says, for any number of workers, redeliveries and retries: no
\* attempt ends at a status write that changed no row because its status was there
\* already (processJob resumes a RUNNING job without writing RUNNING again).
THEOREM FalseIsFailure ==
  ASSUME NoSecondCopy, WritesAreKnown
  PROVE  Spec => FalseMeansMissing
<1>1. CleanInv /\ RowsInv /\ [Next]_vars =>
        [\A w \in Workers :
           /\ pc[w] \in {"markRunning", "markCompleted"}
           /\ pc'[w] \in {"requeue", "markFailed"}
           /\ NoFault
           => status[JobOf(w)] = "absent"]_vars
  BY WritesAreNew DEF CleanInv, RetryInv
<1>2. CleanInv /\ RowsInv /\ [Next]_vars => CleanInv' /\ RowsInv'
  BY CleanStep, RowsStep
<1> QED BY <1>1, <1>2, CleanInit, RowsInit, PTL DEF Spec, FalseMeansMissing
-----------------------------------------------------------------------------
(* An unknown job has no row *)

UnknownIsAbsent == \A w \in Workers : pc[w] = "ackUnknown" => status[JobOf(w)] = "absent"

\* No write makes a row: only the request that submits a job does.
LEMMA NoRowFromWorkers ==
  ASSUME TypeInv, NEW w \in Workers, WorkerStep(w), NEW j \in Jobs, status[j] = "absent"
  PROVE  status'[j] = "absent"
<1>1. \/ status' = status
      \/ \E s \in Status : status' = Written(JobOf(w), s)
  BY DEF WorkerStep, Consume, ConsumePending, ConsumeFresh, ConsumeNothing, Process,
         LookUp, MarkRunning, StampStarted, Analyze, SaveAnalysis, MarkCompleted,
         StampCompleted, Settle, Requeue, Republish, MarkFailed, StampFailed,
         PublishDeadLetter, Ack, UpdateStatus, Status, vars, store
<1>2. ASSUME NEW s, NEW k, status' = Written(k, s) PROVE status'[j] = "absent"
  BY <1>2 DEF Written, TypeInv, TypeOK, Rows
<1> QED BY <1>1, <1>2

LEMMA UnknownStep ==
  ASSUME RowsVisible, LossInv, UnknownIsAbsent, [Next]_vars
  PROVE  UnknownIsAbsent'
<1>1. TypeInv /\ PublishedAfterSave /\ Grows BY StepGrows DEF LossInv
<1>2. ASSUME NEW v \in Workers, pc[v] = "ackUnknown", pc'[v] = pc[v], msg'[v] = msg[v],
             \A j \in Jobs : status[j] = "absent" /\ Entries(j) # {} => status'[j] = "absent"
      PROVE  status'[JobOf(v)'] = "absent"
  <2>1. pc[v] # "idle" BY <1>2
  <2>2. JobOf(v)' = JobOf(v) /\ JobOf(v) \in Jobs
    BY <1>1, <1>2, <2>1, HandStays, HeldMessage
  <2>3. msg[v] \in Entries(JobOf(v))
    BY <1>1, <2>1, HeldMessage DEF Entries, JobOf, Held, TypeInv, TypeOK
  <2> QED BY <1>2, <2>2, <2>3 DEF UnknownIsAbsent
<1>3. ASSUME NEW j \in Jobs, Request(j) PROVE UnknownIsAbsent'
  <2>1. pc' = pc /\ msg' = msg
    BY <1>3 DEF Request, SaveJob, CheckBacklog, PublishFirst, worker
  <2>2. \A k \in Jobs : status[k] = "absent" /\ Entries(k) # {} => status'[k] = "absent"
    BY <1>1, <1>3 DEF Request, SaveJob, CheckBacklog, PublishFirst, store,
                      PublishedAfterSave, TypeInv, TypeOK, Rows
  <2> QED BY <1>2, <2>1, <2>2 DEF UnknownIsAbsent
<1>4. ASSUME NEW w \in Workers, WorkerStep(w) PROVE UnknownIsAbsent'
  <2>1. \A j \in Jobs : status[j] = "absent" => status'[j] = "absent"
    BY <1>1, <1>4, NoRowFromWorkers
  <2>2. ASSUME NEW v \in Workers, v # w, pc'[v] = "ackUnknown"
        PROVE  status'[JobOf(v)'] = "absent"
    BY <1>1, <1>2, <1>4, <2>1, <2>2, OthersStay
  <2>3. ASSUME pc'[w] = "ackUnknown" PROVE status'[JobOf(w)'] = "absent"
    <3>1. pc \in [Workers -> Pcs] BY <1>1 DEF TypeInv, TypeOK
    <3>2. LookUp(w)
      <4>1. ~Consume(w)
        BY <2>3, <3>1 DEF Consume, ConsumePending, ConsumeFresh, ConsumeNothing, Hold,
                          Goto, vars, worker
      <4>2. ~Settle(w)
        BY <2>3, <3>1 DEF Settle, Requeue, Republish, MarkFailed, StampFailed,
                          PublishDeadLetter, Ack, Release, Goto
      <4>3. ASSUME NEW retryable \in BOOLEAN, Fail(w, retryable) PROVE FALSE
        BY <2>3, <3>1, <4>3, FailGoes
      <4>4. Process(w) => LookUp(w)
        BY <2>3, <3>1, <4>3 DEF Process, MarkRunning, StampStarted, Analyze,
                                SaveAnalysis, MarkCompleted, StampCompleted, Goto
      <4> QED BY <1>4, <4>1, <4>2, <4>4 DEF WorkerStep
    <3>3. pc[w] = "lookup" /\ msg'[w] = msg[w] /\ status' = status
      BY <3>2 DEF LookUp, store
    <3>4. status[JobOf(w)] = "absent"
      <4>1. ~Fault("select_failed") BY DEF Fault, RowsVisible
      <4>2. pc' = [pc EXCEPT ![w] =
              CASE status[JobOf(w)] = "absent"    -> "ackUnknown"
                [] status[JobOf(w)] \in Terminal  -> "ackTerminal"
                [] status[JobOf(w)] = "RUNNING"   -> "analyze"
                [] OTHER                          -> "markRunning"]
        BY <3>2, <4>1 DEF LookUp, Goto
      <4> QED BY <2>3, <3>1, <4>2
    <3>5. JobOf(w)' = JobOf(w) BY <1>1, <3>3, HandStays
    <3> QED BY <3>3, <3>4, <3>5
  <2> QED BY <2>2, <2>3 DEF UnknownIsAbsent
<1>5. CASE Crash
  BY <1>5 DEF Crash, UnknownIsAbsent
<1>6. CASE UNCHANGED vars
  BY <1>6 DEF vars, store, worker, UnknownIsAbsent, JobOf, Held
<1> QED BY <1>3, <1>4, <1>5, <1>6 DEF Next

\* What IJobRepository.h says of findById holds as long as no SELECT fails and MySQL
\* answers at every start: a message is dropped as unknown only if its job has no row
\* anywhere. The run unknown_job_dropped shows that it needs the first condition.
THEOREM UnknownIsUnknown ==
  ASSUME RowsVisible
  PROVE  Spec => []UnknownHasNoRow
<1>1. Init => LossInv /\ UnknownIsAbsent
  BY LossInit DEF Init, UnknownIsAbsent
<1>2. LossInv /\ UnknownIsAbsent /\ [Next]_vars => LossInv' /\ UnknownIsAbsent'
  BY LossStep, UnknownStep
<1>3. LossInv /\ UnknownIsAbsent => UnknownHasNoRow
  BY DEF LossInv, UnknownIsAbsent, UnknownHasNoRow
<1> QED BY <1>1, <1>2, <1>3, PTL DEF Spec
-----------------------------------------------------------------------------
(* What a dead letter, or a wait, says of the row *)

DeadLetterIsTrue == \A j \in Jobs : DeadLettered(j) => status[j] = "FAILED"

\* A worker that reports a failure has written it.
ReportsAreTrue ==
  \A w \in Workers : pc[w] \in Reporting => status[JobOf(w)] = "FAILED"

ReportInv == CleanInv /\ RowsInv /\ DeadLetterIsTrue /\ ReportsAreTrue

\* A worker reports a failure only after the calls that write it.
LEMMA ReporterWrites ==
  ASSUME TypeInv, NEW w \in Workers, WorkerStep(w), pc'[w] \in Reporting
  PROVE  MarkFailed(w) \/ StampFailed(w)
<1>0. pc \in [Workers -> Pcs] BY DEF TypeInv, TypeOK
<1>1. ~Consume(w)
  BY <1>0 DEF Consume, ConsumePending, ConsumeFresh, ConsumeNothing, Hold, Goto,
              Reporting, vars, worker
<1>2. ~Requeue(w) /\ ~Republish(w) /\ ~PublishDeadLetter(w) /\ ~Ack(w)
  BY <1>0 DEF Requeue, Republish, PublishDeadLetter, Ack, Release, Goto, Reporting
<1>3. ASSUME NEW retryable \in BOOLEAN, Fail(w, retryable) PROVE FALSE
  BY <1>0, <1>3, FailGoes DEF Reporting
<1>4. ~LookUp(w)
  <2>1. ASSUME NEW l \in {"ackUnknown", "ackTerminal", "analyze", "markRunning"},
               Goto(w, l)
        PROVE  FALSE
    BY <1>0, <2>1 DEF Goto, Reporting
  <2> QED BY <2>1 DEF LookUp
<1>5. ~Process(w)
  BY <1>0, <1>3, <1>4
  DEF Process, MarkRunning, StampStarted, Analyze, SaveAnalysis, MarkCompleted,
      StampCompleted, Goto, Reporting
<1> QED BY <1>1, <1>2, <1>5 DEF WorkerStep, Settle

LEMMA ReportStep ==
  ASSUME NoSecondCopy, WritesAreKnown, "write_refused" \notin Faults, ReportInv,
         [Next]_vars
  PROVE  ReportInv'
<1>1. TypeInv /\ CleanInv /\ RowsInv /\ Grows
  BY StepGrows DEF ReportInv, CleanInv, RetryInv
<1>2. CleanInv' /\ RowsInv' BY <1>1, CleanStep, RowsStep
<1>3. \A j \in Jobs : status[j] = "FAILED" => status'[j] = "FAILED"
  BY <1>1, EndedStays DEF Terminal
<1>4. ASSUME NEW v \in Workers, pc[v] \in Reporting, msg'[v] = msg[v]
      PROVE  status'[JobOf(v)'] = "FAILED"
  <2>1. pc[v] # "idle" BY <1>4 DEF Reporting
  <2>2. JobOf(v)' = JobOf(v) /\ JobOf(v) \in Jobs
    BY <1>1, <1>4, <2>1, HandStays, HeldMessage
  <2> QED BY <1>3, <1>4, <2>2 DEF ReportInv, ReportsAreTrue
<1>5. CASE UNCHANGED <<dead, pc, msg>>
  <2>1. DeadLetterIsTrue'
    BY <1>3, <1>5 DEF ReportInv, DeadLetterIsTrue, DeadLettered
  <2>2. ReportsAreTrue' BY <1>4, <1>5 DEF ReportsAreTrue
  <2> QED BY <1>2, <2>1, <2>2 DEF ReportInv
<1>6. ASSUME NEW w \in Workers, WorkerStep(w) PROVE ReportInv'
  <2>0. pc \in [Workers -> Pcs] BY <1>1 DEF TypeInv, TypeOK
  <2>1. ASSUME NEW v \in Workers, v # w, pc'[v] \in Reporting
        PROVE  status'[JobOf(v)'] = "FAILED"
    BY <1>1, <1>4, <1>6, <2>1, OthersStay
  <2>2. ASSUME pc'[w] \in Reporting PROVE status'[JobOf(w)'] = "FAILED"
    <3>1. MarkFailed(w) \/ StampFailed(w) BY <1>1, <1>6, <2>2, ReporterWrites
    <3>2. CASE StampFailed(w)
      BY <1>4, <3>2 DEF StampFailed, Reporting
    <3>3. CASE MarkFailed(w)
      <4>1. pc[w] = "markFailed" /\ msg'[w] = msg[w] BY <3>3 DEF MarkFailed
      <4>2. JobOf(w)' = JobOf(w) /\ JobOf(w) \in Jobs
        BY <1>1, <4>1, HandStays, HeldMessage
      <4>3. status[JobOf(w)] # "absent"
        BY <1>1, <4>1 DEF RowsInv, RowAsExpected, Relying, Expected
      <4>4. PICK ok \in BOOLEAN : UpdateStatus(JobOf(w), "FAILED", ok)
        BY <3>3 DEF MarkFailed
      <4>5. status' = Written(JobOf(w), "FAILED") BY <4>4, WriteIsDone
      <4>6. status \in [Jobs -> Status \cup {"absent"}]
        BY <1>1 DEF TypeInv, TypeOK, Rows
      <4> QED BY <4>2, <4>3, <4>5, <4>6 DEF Written
    <3> QED BY <3>1, <3>2, <3>3
  <2>3. ASSUME NEW j \in Jobs, DeadLettered(j)' PROVE status'[j] = "FAILED"
    <3>1. CASE DeadLettered(j)
      BY <1>3, <3>1 DEF ReportInv, DeadLetterIsTrue
    <3>2. CASE ~DeadLettered(j)
      <4>1. dead' # dead BY <2>3, <3>2 DEF DeadLettered
      <4>2. PublishDeadLetter(w)
        BY <1>6, <4>1
        DEF WorkerStep, Consume, ConsumePending, ConsumeFresh, ConsumeNothing, Process,
            LookUp, MarkRunning, StampStarted, Analyze, SaveAnalysis, MarkCompleted,
            StampCompleted, Settle, Requeue, Republish, MarkFailed, StampFailed, Ack, vars
      <4>3. \E d : dead' = Append(dead, d) /\ d.job = JobOf(w)
        <5> DEFINE d == [job |-> JobOf(w), attempt |-> Held(w).attempt, id |-> msg[w],
                         reason |-> reason[w]]
        <5>1. d.job = JobOf(w) /\ \E ok \in BOOLEAN : XaddDead(d, ok)
          BY <4>2 DEF PublishDeadLetter
        <5> HIDE DEF d
        <5> QED BY <4>1, <5>1 DEF XaddDead
      <4>4. dead \in Seq(DeadLetter) BY <1>1 DEF TypeInv, TypeOK
      <4>5. j = JobOf(w)
        <5>1. PICK d : dead' = Append(dead, d) /\ d.job = JobOf(w) BY <4>3
        <5>2. /\ DOMAIN dead = 1 .. Len(dead) /\ DOMAIN dead' = 1 .. Len(dead) + 1
              /\ Len(dead) \in Nat
          BY <4>4, <5>1
        <5>3. \A i \in DOMAIN dead' : dead'[i] = d \/ (i \in DOMAIN dead /\ dead'[i] = dead[i])
          BY <4>4, <5>1, <5>2
        <5> QED BY <2>3, <3>2, <5>1, <5>3 DEF DeadLettered
      <4>6. pc[w] \in Reporting BY <4>2 DEF PublishDeadLetter, Reporting
      <4> QED BY <1>3, <4>5, <4>6 DEF ReportInv, ReportsAreTrue
    <3> QED BY <3>1, <3>2
  <2>4. ReportsAreTrue' BY <2>1, <2>2 DEF ReportsAreTrue
  <2>5. DeadLetterIsTrue' BY <2>3 DEF DeadLetterIsTrue
  <2> QED BY <1>2, <2>4, <2>5 DEF ReportInv
<1>7. CASE Crash
  <2>1. crashes \in 0 .. 0 /\ crashes < 0
    BY <1>1, <1>7 DEF Crash, NoSecondCopy, TypeInv, TypeOK
  <2> QED BY <2>1
<1>8. ASSUME NEW j \in Jobs, Request(j) PROVE UNCHANGED <<dead, pc, msg>>
  BY <1>8 DEF Request, SaveJob, CheckBacklog, PublishFirst, worker
<1> QED BY <1>5, <1>6, <1>7, <1>8 DEF Next, vars, worker

LEMMA ReportInit == Init => ReportInv
<1> SUFFICES ASSUME Init PROVE ReportInv
  OBVIOUS
<1>1. dead = <<>> /\ pc = [w \in Workers |-> "idle"] BY DEF Init
<1> QED
  BY <1>1, CleanInit, RowsInit
  DEF ReportInv, DeadLetterIsTrue, DeadLettered, ReportsAreTrue, Reporting

\* handleRetryOrDeadLetter writes FAILED without looking at the answer and publishes the
\* dead letter all the same. A job with a dead letter has FAILED nevertheless, for good,
\* if no second copy of a message exists and no status write is refused or lost: those
\* three are all that can part the dead-letter stream from the job table.
THEOREM DeadLetterMeansFailed ==
  ASSUME NoSecondCopy, WritesAreKnown, "write_refused" \notin Faults
  PROVE  Spec => []DeadLetterIsTrue
<1>1. ReportInv /\ [Next]_vars => ReportInv' BY ReportStep
<1>2. ReportInv => DeadLetterIsTrue BY DEF ReportInv
<1> QED BY <1>1, <1>2, ReportInit, PTL DEF Spec

\* An accepted job that has not ended is waiting: a message of it is on its way.
AcceptedIsWaiting ==
  \A j \in Jobs :
    sub[j] = "accepted" /\ status[j] \in {"QUEUED", "RUNNING"} =>
      Entries(j) \cap Unacked # {}

AcceptedIsPublished == \A j \in Jobs : sub[j] = "accepted" => Entries(j) # {}

LEMMA AcceptedStep ==
  ASSUME TypeInv, AcceptedIsPublished, [Next]_vars
  PROVE  AcceptedIsPublished'
<1>1. Grows BY StepGrows
<1>2. SUFFICES ASSUME NEW j \in Jobs, sub'[j] = "accepted" PROVE Entries(j)' # {}
  BY DEF AcceptedIsPublished
<1>3. CASE sub[j] = "accepted"
  BY <1>1, <1>3 DEF AcceptedIsPublished, Entries, Grows
<1>4. CASE sub[j] # "accepted"
  <2>1. PublishFirst(j)
    BY <1>2, <1>4
    DEF TypeInv, TypeOK, Next, Request, SaveJob, CheckBacklog, PublishFirst, WorkerStep,
        Consume, ConsumePending, ConsumeFresh, ConsumeNothing, Process, LookUp,
        MarkRunning, StampStarted, Analyze, SaveAnalysis, MarkCompleted, StampCompleted,
        Settle, Requeue, Republish, MarkFailed, StampFailed, PublishDeadLetter, Ack,
        Crash, vars
  <2> DEFINE m == [job |-> j, attempt |-> 0]
  <2>2. Xadd(m, TRUE) /\ m \in Message /\ m.job = j
    BY <1>2, <2>1 DEF PublishFirst, Message, TypeInv, TypeOK
  <2>3. stream \in Seq(Message) BY DEF TypeInv, TypeOK
  <2> HIDE DEF m
  <2>4. stream' = Append(stream, m) BY <2>2 DEF Xadd
  <2>5. Len(stream) + 1 \in DOMAIN stream' /\ stream'[Len(stream) + 1] = m
    BY <2>2, <2>3, <2>4
  <2> QED BY <2>2, <2>5 DEF Entries
<1> QED BY <1>3, <1>4

\* Job.h says that a QUEUED job is "waiting to be processed". The run queued_forever
\* shows that a rejected submission is not. An accepted one is, if in addition rows are
\* visible: its row can only stay behind with a message still to be handled.
THEOREM AcceptedWaits ==
  ASSUME RowsVisible, NoSecondCopy, WritesAreKnown, "write_refused" \notin Faults
  PROVE  Spec => []AcceptedIsWaiting
<1> DEFINE Inv == LossInv /\ ReportInv /\ AcceptedIsPublished
<1>1. Init => Inv
  BY LossInit, ReportInit DEF Init, AcceptedIsPublished
<1>2. Inv /\ [Next]_vars => Inv'
  BY LossStep, ReportStep, AcceptedStep DEF LossInv
<1>3. Inv => AcceptedIsWaiting
  BY DEF LossInv, ReportInv, NoJobLost, DeadLetterIsTrue, AcceptedIsPublished,
         AcceptedIsWaiting, Carriers, Terminal
<1> QED BY <1>1, <1>2, <1>3, PTL DEF Spec
===============================================================================
