----------------------------- MODULE JobPipeline -----------------------------
(***************************************************************************)
(* The life of an analysis job: the HTTP submission that stores it and     *)
(* announces it on a Redis stream, the workers that read the stream as one *)
(* consumer group, the retries and dead letters they publish, and the job  *)
(* and analysis tables they write.                                         *)
(*                                                                         *)
(* One action per Redis command or database statement: between two of them *)
(* every other worker, every other HTTP thread and a crash may interleave. *)
(* Both stores are remote, so a call may be refused (not executed, error   *)
(* reported) or lost (executed, the reply lost: the Redis clients time out *)
(* after two seconds); the queue and the repositories turn either into     *)
(* `false'.                                                                *)
(***************************************************************************)
EXTENDS Naturals, Sequences, FiniteSets

CONSTANTS
  Jobs,        \* the UUIDs of the submitted jobs, one HTTP request for each
  Workers,     \* the consumers of the group, cortex-worker-1 .. N
  MaxRetries,  \* JOB_MAX_RETRIES
  MaxBacklog,  \* JOB_MAX_BACKLOG
  Backends,    \* the values of STORAGE_BACKEND looked at: "mysql", "memory"
  Faults,      \* the kinds of failed calls that may happen
  MaxFaults,   \* bound: how many calls may fail
  MaxCrashes   \* bound: how many times the backend may crash

FaultKinds ==
  {"xadd_refused", "xadd_lost", "xack_refused", "xack_lost", "read_lost",
   "xinfo_failed", "select_failed", "write_refused", "write_lost",
   "connect_failed"}

\* The in-memory repositories do not fail.
DatabaseFaults == {"select_failed", "write_refused", "write_lost"}

ASSUME PipelineAssumption ==
  /\ MaxRetries \in Nat /\ MaxBacklog \in Nat \ {0}
  /\ MaxFaults \in Nat /\ MaxCrashes \in Nat
  /\ Backends \subseteq {"mysql", "memory"} /\ Backends # {}
  /\ Faults \subseteq FaultKinds

VARIABLES
  backend,    \* where the repositories of the running process keep their rows
  shelved,    \* at most one: the MySQL tables a fall back to memory left behind
  status,     \* the job row: absent, or its status
  stamps,     \* which of started_at and completed_at are set in the row
  analysed,   \* the jobs that have a row in analysis_results
  stream,     \* the entries of cortex:jobs; a message id is its position
  delivered,  \* last-delivered-id of the group cortex-workers
  pel,        \* the pending entries of each consumer
  dead,       \* the entries of cortex:jobs:dead
  pc,         \* the call each worker makes next
  msg,        \* the id of the message each worker holds, 0 when idle
  reason,     \* lastFailureReason_ of a worker about to give its job up
  sub,        \* the call each submission makes next, or its response
  faults,     \* the calls that have failed so far
  crashes     \* the crashes so far

store  == <<status, stamps, analysed>>
group  == <<delivered, pel>>
worker == <<pc, msg, reason>>
uptime == <<backend, shelved, crashes>>
vars   == <<store, stream, group, dead, worker, sub, faults, uptime>>

Status == {"QUEUED", "RUNNING", "COMPLETED", "FAILED"}
Terminal == {"COMPLETED", "FAILED"}
AckPcs == {"ackUnknown", "ackTerminal", "ackDone", "ackRetried", "ackDead"}
Pcs == AckPcs \cup
  {"idle", "lookup", "markRunning", "stampStarted", "analyze", "saveAnalysis",
   "markCompleted", "stampCompleted", "requeue", "republish",
   "markFailed", "stampFailed", "deadLetter"}
Message == [job : Jobs, attempt : Nat]
Reasons == {"max_retry_exceeded", "non_retryable"}
DeadLetter == [job : Jobs, attempt : Nat, id : Nat, reason : Reasons]

-----------------------------------------------------------------------------
(* The remote calls, with the answer the caller gets. *)

\* A call of kind k fails, while the bound on failures allows it.
Fault(k) ==
  /\ k \in Faults /\ faults < MaxFaults /\ faults' = faults + 1
  /\ k \in DatabaseFaults => backend = "mysql"

NoFault == UNCHANGED faults

\* UPDATE jobs SET status = s WHERE id = j
Written(j, s) ==
  [status EXCEPT ![j] = IF status[j] = "absent" THEN "absent" ELSE s]

\* What updateStatus answers: MySQL reports the rows it changed, so writing the
\* status a row already has answers false; the map answers whether j is there.
RowChanged(j, s) ==
  status[j] # "absent" /\ (backend = "mysql" => status[j] # s)

UpdateStatus(j, s, ok) ==
  \/ ok = RowChanged(j, s) /\ status' = Written(j, s) /\ NoFault
  \/ ~ok /\ Fault("write_refused") /\ UNCHANGED status
  \/ ~ok /\ Fault("write_lost") /\ status' = Written(j, s)

\* setStartedAt and setCompletedAt: every caller ignores the answer.
Stamp(j, column) ==
  \/ /\ stamps' = [stamps EXCEPT ![j] =
                     IF status[j] = "absent" THEN @ ELSE @ \cup {column}]
     /\ NoFault
  \/ Fault("write_refused") /\ UNCHANGED stamps

\* XADD cortex:jobs
Xadd(m, ok) ==
  \/ ok /\ stream' = Append(stream, m) /\ NoFault
  \/ ~ok /\ Fault("xadd_refused") /\ UNCHANGED stream
  \/ ~ok /\ Fault("xadd_lost") /\ stream' = Append(stream, m)

\* XADD cortex:jobs:dead
XaddDead(d, ok) ==
  \/ ok /\ dead' = Append(dead, d) /\ NoFault
  \/ ~ok /\ Fault("xadd_refused") /\ UNCHANGED dead
  \/ ~ok /\ Fault("xadd_lost") /\ dead' = Append(dead, d)

\* The messages the group still has to deal with: not yet delivered (the lag
\* of XINFO GROUPS) or delivered and not acknowledged (its pending count).
Unacked == (delivered + 1 .. Len(stream)) \cup UNION {pel[w] : w \in Workers}
Load == Cardinality(Unacked)

-----------------------------------------------------------------------------
(* POST /repositories *)

\* The job row is inserted; save is void, so a failed INSERT goes unnoticed.
SaveJob(j) ==
  /\ sub[j] = "new"
  /\ \/ status' = [status EXCEPT ![j] = "QUEUED"] /\ NoFault
     \/ Fault("write_refused") /\ UNCHANGED status
  /\ sub' = [sub EXCEPT ![j] = "saved"]
  /\ UNCHANGED <<stamps, analysed, stream, group, dead, worker, uptime>>

\* isBackpressured: the command lock is released before the XADD that follows,
\* and a failed XINFO lets the submission through.
CheckBacklog(j) ==
  /\ sub[j] = "saved"
  /\ \/ /\ sub' = [sub EXCEPT ![j] =
                     IF Load >= MaxBacklog THEN "rejected" ELSE "checked"]
        /\ NoFault
     \/ Fault("xinfo_failed") /\ sub' = [sub EXCEPT ![j] = "checked"]
  /\ UNCHANGED <<store, stream, group, dead, worker, uptime>>

\* Mutant of PublishFirst: 202 whatever publishJob answered.
PublishFirstAnyAnswer(j) ==
  /\ sub[j] = "checked"
  /\ \E ok \in BOOLEAN : Xadd([job |-> j, attempt |-> 0], ok)
  /\ sub' = [sub EXCEPT ![j] = "accepted"]
  /\ UNCHANGED <<store, group, dead, worker, uptime>>

\* publishJob(jobId, 0): 202 when it succeeds, else 429. The row stays.
PublishFirst(j) ==
  /\ sub[j] = "checked"
  /\ \E ok \in BOOLEAN :
       /\ Xadd([job |-> j, attempt |-> 0], ok)
       /\ sub' = [sub EXCEPT ![j] = IF ok THEN "accepted" ELSE "rejected"]
  /\ UNCHANGED <<store, group, dead, worker, uptime>>

-----------------------------------------------------------------------------
(* The worker loop *)

Held(w) == stream[msg[w]]
JobOf(w) == Held(w).job

Goto(w, label) == pc' = [pc EXCEPT ![w] = label]

\* The next turn of the loop.
Release(w) ==
  /\ Goto(w, "idle")
  /\ msg' = [msg EXCEPT ![w] = 0]
  /\ reason' = [reason EXCEPT ![w] = "none"]

Hold(w, i) ==
  /\ Goto(w, "lookup")
  /\ msg' = [msg EXCEPT ![w] = i]
  /\ UNCHANGED reason

\* Mutant of ConsumePending: all workers share one consumer name.
ConsumePendingOfAny(w) ==
  /\ pc[w] = "idle"
  /\ \E v \in Workers : \E i \in pel[v] :
       (\A k \in pel[v] : i <= k) /\ Hold(w, i)
  /\ UNCHANGED <<store, stream, group, dead, sub, faults, uptime>>

\* consumeNext, first read: the oldest entry pending for this very consumer.
ConsumePending(w) ==
  /\ pc[w] = "idle"
  /\ \E i \in pel[w] : (\A k \in pel[w] : i <= k) /\ Hold(w, i)
  /\ UNCHANGED <<store, stream, group, dead, sub, faults, uptime>>

\* Mutant of ConsumeFresh: an empty reply is taken for an entry.
ConsumeFreshOrNothing(w) ==
  /\ pc[w] = "idle" /\ pel[w] = {}
  /\ delivered' = delivered + 1
  /\ pel' = [pel EXCEPT ![w] = {delivered + 1}]
  /\ Hold(w, delivered + 1) /\ NoFault
  /\ UNCHANGED <<store, stream, dead, sub, uptime>>

\* consumeNext, second read: the next entry nobody was given. When the reply is
\* lost the entry is pending for w all the same.
ConsumeFresh(w) ==
  /\ pc[w] = "idle" /\ pel[w] = {} /\ delivered < Len(stream)
  /\ delivered' = delivered + 1
  /\ pel' = [pel EXCEPT ![w] = {delivered + 1}]
  /\ \/ Hold(w, delivered + 1) /\ NoFault
     \/ Fault("read_lost") /\ UNCHANGED worker
  /\ UNCHANGED <<store, stream, dead, sub, uptime>>

\* Neither read returns an entry: the loop sleeps 20 ms and polls again.
ConsumeNothing(w) ==
  /\ pc[w] = "idle" /\ pel[w] = {} /\ delivered = Len(stream)
  /\ UNCHANGED vars

\* Mutant of LookUp: a redelivered message of a job that has ended runs it
\* again.
LookUpIgnoringTerminal(w) ==
  /\ pc[w] = "lookup"
  /\ \/ /\ NoFault
        /\ Goto(w, CASE status[JobOf(w)] = "absent"  -> "ackUnknown"
                     [] status[JobOf(w)] = "RUNNING" -> "analyze"
                     [] OTHER                        -> "markRunning")
     \/ Fault("select_failed") /\ Goto(w, "ackUnknown")
  /\ UNCHANGED <<store, stream, group, dead, msg, reason, sub, uptime>>

\* Mutant of LookUp: a RUNNING job is marked RUNNING again before it is resumed.
LookUpMarkingAgain(w) ==
  /\ pc[w] = "lookup"
  /\ \/ /\ NoFault
        /\ Goto(w, CASE status[JobOf(w)] = "absent"   -> "ackUnknown"
                     [] status[JobOf(w)] \in Terminal -> "ackTerminal"
                     [] OTHER                         -> "markRunning")
     \/ Fault("select_failed") /\ Goto(w, "ackUnknown")
  /\ UNCHANGED <<store, stream, group, dead, msg, reason, sub, uptime>>

\* findById: a failed SELECT is told apart from a missing row by nobody.
\* A RUNNING job is resumed, a terminal one is only acknowledged.
LookUp(w) ==
  /\ pc[w] = "lookup"
  /\ \/ /\ NoFault
        /\ Goto(w, CASE status[JobOf(w)] = "absent"    -> "ackUnknown"
                     [] status[JobOf(w)] \in Terminal  -> "ackTerminal"
                     [] status[JobOf(w)] = "RUNNING"   -> "analyze"
                     [] OTHER                          -> "markRunning")
     \/ Fault("select_failed") /\ Goto(w, "ackUnknown")
  /\ UNCHANGED <<store, stream, group, dead, msg, reason, sub, uptime>>

\* How handleRetryOrDeadLetter starts once a job has failed.
GiveUp(w, why) ==
  /\ Goto(w, "markFailed")
  /\ reason' = [reason EXCEPT ![w] = why]

\* Mutant of Fail: the last retry is never made.
FailOneShort(w, retryable) ==
  IF ~retryable THEN GiveUp(w, "non_retryable")
  ELSE IF Held(w).attempt + 1 < MaxRetries
       THEN Goto(w, "requeue") /\ UNCHANGED reason
       ELSE GiveUp(w, "max_retry_exceeded")

Fail(w, retryable) ==
  IF ~retryable THEN GiveUp(w, "non_retryable")
  ELSE IF Held(w).attempt + 1 <= MaxRetries
       THEN Goto(w, "requeue") /\ UNCHANGED reason
       ELSE GiveUp(w, "max_retry_exceeded")

MarkRunning(w) ==
  /\ pc[w] = "markRunning"
  /\ \E ok \in BOOLEAN :
       /\ UpdateStatus(JobOf(w), "RUNNING", ok)
       /\ IF ok THEN Goto(w, "stampStarted") /\ UNCHANGED reason
                ELSE Fail(w, TRUE)
  /\ UNCHANGED <<stamps, analysed, stream, group, dead, msg, sub, uptime>>

StampStarted(w) ==
  /\ pc[w] = "stampStarted"
  /\ Stamp(JobOf(w), "startedAt")
  /\ Goto(w, "analyze")
  /\ UNCHANGED <<status, analysed, stream, group, dead, msg, reason, sub,
                 uptime>>

\* Mutant of Analyze: the status is written without saving the analysis first.
AnalyzeWithoutSaving(w) ==
  /\ pc[w] = "analyze"
  /\ \/ Goto(w, "markCompleted") /\ UNCHANGED reason
     \/ \E retryable \in BOOLEAN : Fail(w, retryable)
  /\ UNCHANGED <<store, stream, group, dead, msg, sub, faults, uptime>>

\* Clone and scan: succeeds, fails for now, or fails for good.
Analyze(w) ==
  /\ pc[w] = "analyze"
  /\ \/ Goto(w, "saveAnalysis") /\ UNCHANGED reason
     \/ \E retryable \in BOOLEAN : Fail(w, retryable)
  /\ UNCHANGED <<store, stream, group, dead, msg, sub, faults, uptime>>

\* analysisRepository_->save is void, so a failed statement goes unnoticed.
SaveAnalysis(w) ==
  /\ pc[w] = "saveAnalysis"
  /\ \/ analysed' = analysed \cup {JobOf(w)} /\ NoFault
     \/ Fault("write_refused") /\ UNCHANGED analysed
  /\ Goto(w, "markCompleted")
  /\ UNCHANGED <<status, stamps, stream, group, dead, msg, reason, sub,
                 uptime>>

MarkCompleted(w) ==
  /\ pc[w] = "markCompleted"
  /\ \E ok \in BOOLEAN :
       /\ UpdateStatus(JobOf(w), "COMPLETED", ok)
       /\ IF ok THEN Goto(w, "stampCompleted") /\ UNCHANGED reason
                ELSE Fail(w, TRUE)
  /\ UNCHANGED <<stamps, analysed, stream, group, dead, msg, sub, uptime>>

StampCompleted(w) ==
  /\ pc[w] = "stampCompleted"
  /\ Stamp(JobOf(w), "completedAt")
  /\ Goto(w, "ackDone")
  /\ UNCHANGED <<status, analysed, stream, group, dead, msg, reason, sub,
                 uptime>>

\* A retryable failure with attempts left: the answer of updateStatus is only
\* logged.
Requeue(w) ==
  /\ pc[w] = "requeue"
  /\ \E ok \in BOOLEAN : UpdateStatus(JobOf(w), "QUEUED", ok)
  /\ Goto(w, "republish")
  /\ UNCHANGED <<stamps, analysed, stream, group, dead, msg, reason, sub,
                 uptime>>

\* Mutant of Republish: the failed attempt is acknowledged whatever publishJob
\* answered.
RepublishAnyAnswer(w) ==
  /\ pc[w] = "republish"
  /\ \E ok \in BOOLEAN :
       Xadd([job |-> JobOf(w), attempt |-> Held(w).attempt + 1], ok)
  /\ Goto(w, "ackRetried")
  /\ UNCHANGED <<store, group, dead, msg, reason, sub, uptime>>

\* publishJob(jobId, attempt + 1) does not look at the backlog. When it fails
\* the message stays pending and the next turn of the loop reads it again.
Republish(w) ==
  /\ pc[w] = "republish"
  /\ \E ok \in BOOLEAN :
       /\ Xadd([job |-> JobOf(w), attempt |-> Held(w).attempt + 1], ok)
       /\ IF ok THEN Goto(w, "ackRetried") /\ UNCHANGED <<msg, reason>>
                ELSE Release(w)
  /\ UNCHANGED <<store, group, dead, sub, uptime>>

\* A failure for good, or out of attempts: both writes are best effort.
MarkFailed(w) ==
  /\ pc[w] = "markFailed"
  /\ \E ok \in BOOLEAN : UpdateStatus(JobOf(w), "FAILED", ok)
  /\ Goto(w, "stampFailed")
  /\ UNCHANGED <<stamps, analysed, stream, group, dead, msg, reason, sub,
                 uptime>>

StampFailed(w) ==
  /\ pc[w] = "stampFailed"
  /\ Stamp(JobOf(w), "completedAt")
  /\ Goto(w, "deadLetter")
  /\ UNCHANGED <<status, analysed, stream, group, dead, msg, reason, sub,
                 uptime>>

PublishDeadLetter(w) ==
  /\ pc[w] = "deadLetter"
  /\ \E ok \in BOOLEAN :
       /\ XaddDead([job |-> JobOf(w), attempt |-> Held(w).attempt,
                    id |-> msg[w], reason |-> reason[w]], ok)
       /\ IF ok THEN Goto(w, "ackDead") /\ UNCHANGED <<msg, reason>>
                ELSE Release(w)
  /\ UNCHANGED <<store, stream, group, sub, uptime>>

\* Mutants of Ack: no XACK after a retry was published, none for a message of
\* a job that has ended.
AckUnlessRetried(w) ==
  /\ pc[w] \in AckPcs
  /\ pel' = [pel EXCEPT ![w] = IF pc[w] = "ackRetried" THEN @ ELSE @ \ {msg[w]}]
  /\ Release(w)
  /\ UNCHANGED <<store, stream, delivered, dead, sub, faults, uptime>>

AckUnlessTerminal(w) ==
  /\ pc[w] \in AckPcs
  /\ pel' = [pel EXCEPT ![w] = IF pc[w] = "ackTerminal" THEN @ ELSE @ \ {msg[w]}]
  /\ Release(w)
  /\ UNCHANGED <<store, stream, delivered, dead, sub, faults, uptime>>

\* XACK. Whatever it answers, the loop goes on: an entry that was not removed
\* is still pending for w.
Ack(w) ==
  /\ pc[w] \in AckPcs
  /\ \/ pel' = [pel EXCEPT ![w] = @ \ {msg[w]}] /\ NoFault
     \/ Fault("xack_refused") /\ UNCHANGED pel
     \/ Fault("xack_lost") /\ pel' = [pel EXCEPT ![w] = @ \ {msg[w]}]
  /\ Release(w)
  /\ UNCHANGED <<store, stream, delivered, dead, sub, uptime>>

-----------------------------------------------------------------------------
(* The tables behind the repositories *)

EmptyTables ==
  [status   |-> [j \in Jobs |-> "absent"],
   stamps   |-> [j \in Jobs |-> {}],
   analysed |-> {}]

Tables == [status |-> status, stamps |-> stamps, analysed |-> analysed]

Open(b, tables) ==
  /\ backend' = b
  /\ status' = tables.status
  /\ stamps' = tables.stamps
  /\ analysed' = tables.analysed

\* The MySQL tables outlive the process.
ReopenMySQL ==
  /\ backend = "mysql"
  /\ UNCHANGED <<store, backend, shelved>>

\* The maps of the in-memory repositories do not.
ReopenMemory ==
  /\ backend = "memory" /\ shelved = {}
  /\ Open("memory", EmptyTables)
  /\ UNCHANGED shelved

\* MySQL does not answer at startup: the process runs on empty maps.
FallBack ==
  /\ "connect_failed" \in Faults /\ (backend = "mysql" \/ shelved # {})
  /\ Open("memory", EmptyTables)
  /\ shelved' = IF backend = "mysql" THEN {Tables} ELSE shelved

\* MySQL answers again at a later startup.
ComeBack ==
  /\ \E tables \in shelved : Open("mysql", tables)
  /\ shelved' = {}

\* The backend process dies and is started again. Redis keeps the stream and
\* the pending lists, and the consumer names are the same after the restart;
\* open HTTP requests are never answered.
Crash ==
  /\ crashes < MaxCrashes
  /\ crashes' = crashes + 1
  /\ pc' = [w \in Workers |-> "idle"]
  /\ msg' = [w \in Workers |-> 0]
  /\ reason' = [w \in Workers |-> "none"]
  /\ sub' = [j \in Jobs |->
               IF sub[j] \in {"saved", "checked"} THEN "aborted" ELSE sub[j]]
  /\ ReopenMySQL \/ ReopenMemory \/ FallBack \/ ComeBack
  /\ UNCHANGED <<stream, group, dead, faults>>

Init ==
  /\ \/ backend \in Backends /\ shelved = {}
     \/ /\ "mysql" \in Backends /\ "connect_failed" \in Faults
        /\ backend = "memory" /\ shelved = {EmptyTables}
  /\ status = EmptyTables.status
  /\ stamps = EmptyTables.stamps
  /\ analysed = EmptyTables.analysed
  /\ stream = <<>> /\ delivered = 0 /\ dead = <<>>
  /\ pel = [w \in Workers |-> {}]
  /\ pc = [w \in Workers |-> "idle"]
  /\ msg = [w \in Workers |-> 0]
  /\ reason = [w \in Workers |-> "none"]
  /\ sub = [j \in Jobs |-> "new"]
  /\ faults = 0 /\ crashes = 0

Request(j) == SaveJob(j) \/ CheckBacklog(j) \/ PublishFirst(j)

Consume(w) == ConsumePending(w) \/ ConsumeFresh(w) \/ ConsumeNothing(w)

Process(w) ==
  \/ LookUp(w) \/ MarkRunning(w) \/ StampStarted(w) \/ Analyze(w)
  \/ SaveAnalysis(w) \/ MarkCompleted(w) \/ StampCompleted(w)

Settle(w) ==
  \/ Requeue(w) \/ Republish(w) \/ MarkFailed(w) \/ StampFailed(w)
  \/ PublishDeadLetter(w) \/ Ack(w)

WorkerStep(w) == Consume(w) \/ Process(w) \/ Settle(w)

Next ==
  \/ \E j \in Jobs : Request(j)
  \/ \E w \in Workers : WorkerStep(w)
  \/ Crash

Spec == Init /\ [][Next]_vars

\* An HTTP thread finishes the request it started, and a worker thread keeps
\* turning its loop. Nothing obliges a client to submit, or the backend to
\* crash.
FairSpec ==
  /\ Spec
  /\ \A j \in Jobs : WF_vars(CheckBacklog(j) \/ PublishFirst(j))
  /\ \A w \in Workers : WF_vars(WorkerStep(w))

-----------------------------------------------------------------------------
(* Properties *)

Rows    == [Jobs -> Status \cup {"absent"}]
Columns == [Jobs -> SUBSET {"startedAt", "completedAt"}]

\* The variables stay in their ranges: in particular no id is delivered or held
\* before it is in the stream.
TypeOK ==
  /\ backend \in {"mysql", "memory"}
  /\ shelved \subseteq [status : Rows, stamps : Columns, analysed : SUBSET Jobs]
  /\ status \in Rows
  /\ stamps \in Columns
  /\ analysed \subseteq Jobs
  /\ stream \in Seq(Message)
  /\ delivered \in 0 .. Len(stream)
  /\ pel \in [Workers -> SUBSET (1 .. delivered)]
  /\ dead \in Seq(DeadLetter)
  /\ pc \in [Workers -> Pcs]
  /\ msg \in [Workers -> 0 .. delivered]
  /\ reason \in [Workers -> Reasons \cup {"none"}]
  /\ sub \in [Jobs -> {"new", "saved", "checked", "accepted", "rejected",
                       "aborted"}]
  /\ faults \in 0 .. MaxFaults
  /\ crashes \in 0 .. MaxCrashes

\* A consumer works on an entry of its own pending list, and no entry is
\* pending for two consumers: XREADGROUP gives a fresh entry to one consumer,
\* and the recovery read returns only the reader's own entries.
MessageOwnership ==
  /\ \A w \in Workers : pc[w] # "idle" => msg[w] \in pel[w]
  /\ \A v, w \in Workers : v # w => pel[v] \cap pel[w] = {}

Entries(j) == {i \in DOMAIN stream : stream[i].job = j}

\* The worker that holds entry i has nothing left to do about it but XACK.
Settling == AckPcs \cup {"stampCompleted"}
BeingSettled(i) == \E w \in Workers : msg[w] = i /\ pc[w] \in Settling

Carriers(j) == {i \in Entries(j) \cap Unacked : ~BeingSettled(i)}

DeadLettered(j) == \E i \in DOMAIN dead : dead[i].job = j

\* No published job is ever lost: as long as its row exists, it has an outcome,
\* a dead letter, or an entry that some worker still has to deal with. This is
\* the whole point of acknowledging after the work and of publishing the retry
\* before acknowledging the failed attempt (workerLoop,
\* handleRetryOrDeadLetter), and it must survive crashes and failed calls.
NoJobLost ==
  \A j \in Jobs :
    Entries(j) # {} /\ status[j] # "absent" =>
      \/ status[j] \in Terminal
      \/ DeadLettered(j)
      \/ Carriers(j) # {}

\* A job is given up as max_retry_exceeded only with its last attempt, and after
\* messages of all attempts 0 .. MaxRetries were published (the attempt counter
\* lives in the messages, handleRetryOrDeadLetter).  What became of an attempt is
\* not said: one whose status write failed ends before the clone, and an XADD whose
\* reply was lost publishes the next one twice.  See FalseMeansMissing for the
\* first.
RetriesExhausted ==
  \A i \in DOMAIN dead :
    dead[i].reason = "max_retry_exceeded" =>
      /\ dead[i].attempt = MaxRetries
      /\ \A a \in 0 .. MaxRetries :
           \E k \in Entries(dead[i].job) : stream[k].attempt = a

\* The clone directory /tmp/cortex-workspace/<jobId> is named after the job, so
\* two workers must never clone, scan, save or enrich the same job at the same
\* time (the enrichments run between the save and the status write).
WorkspaceExclusive ==
  \A v, w \in Workers :
    /\ v # w
    /\ {pc[v], pc[w]} \subseteq {"analyze", "saveAnalysis", "markCompleted"}
    => JobOf(v) # JobOf(w)

\* A job has one message at a time: the retry replaces the failed attempt
\* (handleRetryOrDeadLetter publishes attempt + 1, then acknowledges).
OneCarrier == \A j \in Jobs : Cardinality(Carriers(j)) <= 1

\* COMPLETED means that the analysis can be fetched (processJob saves it before
\* the status write).
CompletedHasAnalysis ==
  \A j \in Jobs : status[j] = "COMPLETED" => j \in analysed

\* updateStatus is documented to answer "false if job not found"
\* (IJobRepository.h:63), and processJob fails the attempt on it.  So an attempt ends
\* at one of its status writes only if a call has failed or there is no row: never
\* because another message, an earlier attempt or a redelivery left the row with the
\* status to be written, which changes no row and is answered with false as well.
FalseMeansMissing ==
  [][\A w \in Workers :
       /\ pc[w] \in {"markRunning", "markCompleted"}
       /\ pc'[w] \in {"requeue", "markFailed"}
       /\ NoFault
       => status[JobOf(w)] = "absent"]_vars

\* What the architecture page says of a job given up (Architecture.jsx:174-180:
\* "The message is copied to cortex:jobs:dead, the job is marked FAILED, and the
\* original message is acknowledged", "FAILED, with a completion time"), and the log
\* line of a failed copy ("leaving message pending", JobWorker.cpp:390): once a job
\* has ended and none of its messages is left, its row says when it ended and, if it
\* failed, the dead-letter stream has its entry.
SettledRowIsComplete ==
  \A j \in Jobs :
    status[j] \in Terminal /\ Entries(j) \cap Unacked = {} =>
      /\ "completedAt" \in stamps[j]
      /\ status[j] = "FAILED" => DeadLettered(j)

\* A COMPLETED or FAILED job keeps its status.
TerminalIsFinal ==
  [][\A j \in Jobs : status[j] \in Terminal => status'[j] = status[j]]_vars

\* The promise of JobLifecycle: the attempt of a job is the highest one
\* published for it.
LatestAttempt(j) ==
  LET attempts == {0} \cup {stream[i].attempt : i \in Entries(j)}
  IN  CHOOSE a \in attempts : \A b \in attempts : b <= a

Life == INSTANCE JobLifecycle
          WITH state <- status, attempt <- [j \in Jobs |-> LatestAttempt(j)]

Lifecycle == Life!Spec

\* Every submission answered with 202 whose row exists ends with an outcome or
\* a dead letter.
Settled(j) == status[j] \in Terminal \cup {"absent"} \/ DeadLettered(j)
AcceptedJobSettles ==
  \A j \in Jobs : sub[j] = "accepted" ~> Settled(j)

\* The group works its backlog off: since jobs and failures are bounded, there
\* comes a time when nothing is unacknowledged or held any more. No entry is
\* read again and again for ever, or left pending for a consumer that does not
\* come back to it.
BacklogDrains ==
  <>[](Unacked = {} /\ \A w \in Workers : pc[w] = "idle")

\* include/domain/Job.h: QUEUED is "Job created, waiting to be processed", so
\* once the request has been answered some message must be on its way.
QueuedIsWaiting ==
  \A j \in Jobs :
    status[j] = "QUEUED" /\ sub[j] \in {"accepted", "rejected"} =>
      Entries(j) \cap Unacked # {}

\* include/domain/IJobRepository.h says that findById returns "The job if
\* found, std::nullopt otherwise", and the worker's log line for a nullopt is
\* "Redis message references unknown jobId": a message is dropped as unknown
\* only when no row exists, in the tables in use or in those left behind.
UnknownHasNoRow ==
  \A w \in Workers :
    pc[w] = "ackUnknown" =>
      /\ status[JobOf(w)] = "absent"
      /\ \A tables \in shelved : tables.status[JobOf(w)] = "absent"
=============================================================================
