-------------------------- MODULE JobPipelineProofs --------------------------
(***************************************************************************)
(* Theorems about JobPipeline, for any number of jobs and workers, any     *)
(* retry and backlog limits, and any number of failed calls and crashes.   *)
(***************************************************************************)
EXTENDS JobPipeline, TLAPS

\* A worker that gives its job up knows why, so that the dead letter it
\* publishes is well formed (lastFailureReason_).
ReasonGiven ==
  \A w \in Workers :
    pc[w] \in {"markFailed", "stampFailed", "deadLetter"} => reason[w] \in Reasons

\* TypeOK alone is not inductive: the job and the attempt of a message in a
\* worker's hand are those of a stream entry only because the worker owns it.
TypeInv == TypeOK /\ MessageOwnership /\ ReasonGiven

LEMMA TypeInit == Init => TypeInv
<1> SUFFICES ASSUME Init PROVE TypeInv
  OBVIOUS
<1>1. /\ EmptyTables.status = [j \in Jobs |-> "absent"]
      /\ EmptyTables.stamps = [j \in Jobs |-> {}]
      /\ EmptyTables.analysed = {}
  BY DEF EmptyTables
<1>2. status \in Rows /\ stamps \in Columns /\ analysed \subseteq Jobs
  BY <1>1 DEF Init, Rows, Columns
<1>3. EmptyTables \in
        [status : Rows, stamps : Columns, analysed : SUBSET Jobs]
  BY DEF EmptyTables, Rows, Columns
<1>4. /\ backend \in {"mysql", "memory"}
      /\ shelved \subseteq
           [status : Rows, stamps : Columns, analysed : SUBSET Jobs]
  BY <1>3, PipelineAssumption DEF Init
<1>5. stream \in Seq(Message) /\ dead \in Seq(DeadLetter) /\ Len(stream) = 0
  BY DEF Init
<1>6. /\ delivered \in 0 .. Len(stream)
      /\ pel \in [Workers -> SUBSET (1 .. delivered)]
      /\ msg \in [Workers -> 0 .. delivered]
      /\ pc \in [Workers -> Pcs]
      /\ reason \in [Workers -> Reasons \cup {"none"}]
  BY <1>5 DEF Init, Pcs
<1>7. /\ sub \in [Jobs -> {"new", "saved", "checked", "accepted", "rejected",
                           "aborted"}]
      /\ faults \in 0 .. MaxFaults /\ crashes \in 0 .. MaxCrashes
  BY PipelineAssumption DEF Init
<1>8. MessageOwnership /\ ReasonGiven
  BY DEF Init, MessageOwnership, ReasonGiven
<1>9. QED
  BY <1>2, <1>4, <1>5, <1>6, <1>7, <1>8 DEF TypeInv, TypeOK

\* A message in hand is an entry of the stream.
LEMMA HeldMessage ==
  ASSUME TypeInv, NEW w \in Workers, pc[w] # "idle"
  PROVE  /\ msg[w] \in pel[w]
         /\ msg[w] \in 1 .. Len(stream)
         /\ msg[w] \in 1 .. delivered
         /\ Held(w) \in Message
         /\ JobOf(w) \in Jobs
<1>1. msg[w] \in pel[w] /\ pel[w] \subseteq 1 .. delivered
  BY DEF TypeInv, TypeOK, MessageOwnership
<1>2. delivered \in 0 .. Len(stream) /\ Len(stream) \in Nat
  BY DEF TypeInv, TypeOK
<1>3. msg[w] \in 1 .. Len(stream) /\ msg[w] \in 1 .. delivered
  BY <1>1, <1>2
<1>4. stream[msg[w]] \in Message
  BY <1>3 DEF TypeInv, TypeOK
<1>5. QED
  BY <1>1, <1>3, <1>4 DEF Held, JobOf, Message

-----------------------------------------------------------------------------
(* What the remote calls leave behind *)

LEMMA FaultType ==
  ASSUME TypeInv, NEW k, Fault(k) \/ NoFault
  PROVE  faults' \in 0 .. MaxFaults
BY PipelineAssumption DEF TypeInv, TypeOK, Fault, NoFault

LEMMA UpdateStatusType ==
  ASSUME TypeInv, NEW j \in Jobs, NEW s \in Status, NEW ok,
         UpdateStatus(j, s, ok)
  PROVE  status' \in Rows /\ faults' \in 0 .. MaxFaults
<1>1. status \in Rows
  BY DEF TypeInv, TypeOK
<1>2. Written(j, s) \in Rows
  BY <1>1 DEF Written, Rows
<1>3. status' \in Rows
  BY <1>1, <1>2 DEF UpdateStatus
<1>4. faults' \in 0 .. MaxFaults
  BY FaultType DEF UpdateStatus
<1>5. QED
  BY <1>3, <1>4

LEMMA StampType ==
  ASSUME TypeInv, NEW j \in Jobs,
         NEW column \in {"startedAt", "completedAt"}, Stamp(j, column)
  PROVE  stamps' \in Columns /\ faults' \in 0 .. MaxFaults
<1>1. stamps \in Columns
  BY DEF TypeInv, TypeOK
<1>2. stamps' \in Columns
  BY <1>1 DEF Stamp, Columns
<1>3. faults' \in 0 .. MaxFaults
  BY FaultType DEF Stamp
<1>4. QED
  BY <1>2, <1>3

\* An XADD leaves the stream alone or puts one entry at its end.
LEMMA XaddType ==
  ASSUME TypeInv, NEW m \in Message, NEW ok \in BOOLEAN, Xadd(m, ok)
  PROVE  /\ stream' = stream \/ stream' = Append(stream, m)
         /\ ok => stream' = Append(stream, m)
         /\ stream' \in Seq(Message)
         /\ delivered \in 0 .. Len(stream')
         /\ faults' \in 0 .. MaxFaults
<1>1. stream \in Seq(Message) /\ delivered \in 0 .. Len(stream)
  BY DEF TypeInv, TypeOK
<1>2. Append(stream, m) \in Seq(Message) /\ delivered \in 0 .. Len(Append(stream, m))
  BY <1>1
<1>3. /\ stream' = stream \/ stream' = Append(stream, m)
      /\ ok => stream' = Append(stream, m)
  BY DEF Xadd
<1>4. faults' \in 0 .. MaxFaults
  BY FaultType DEF Xadd
<1>5. QED
  BY <1>1, <1>2, <1>3, <1>4

\* The entries that are already in the stream stay as they are.
Grows == \A i \in DOMAIN stream : i \in DOMAIN stream' /\ stream'[i] = stream[i]

LEMMA XaddGrows ==
  ASSUME TypeInv, NEW m \in Message,
         stream' = stream \/ stream' = Append(stream, m)
  PROVE  /\ Grows
         /\ Len(stream) <= Len(stream')
         /\ \A i \in DOMAIN stream' \ DOMAIN stream : stream'[i] = m
<1>1. stream \in Seq(Message)
  BY DEF TypeInv, TypeOK
<1>2. CASE stream' = stream
  BY <1>1, <1>2 DEF Grows
<1>3. CASE stream' = Append(stream, m)
  <2>1. /\ DOMAIN stream = 1 .. Len(stream) /\ Len(stream) \in Nat
        /\ DOMAIN stream' = 1 .. Len(stream) + 1
        /\ Len(stream') = Len(stream) + 1
    BY <1>1, <1>3
  <2>2. \A i \in 1 .. Len(stream) : stream'[i] = stream[i]
    BY <1>1, <1>3
  <2>3. stream'[Len(stream) + 1] = m
    BY <1>1, <1>3
  <2>4. QED
    BY <2>1, <2>2, <2>3 DEF Grows
<1>4. QED
  BY <1>2, <1>3

LEMMA XaddDeadType ==
  ASSUME TypeInv, NEW d \in DeadLetter, NEW ok \in BOOLEAN, XaddDead(d, ok)
  PROVE  /\ dead' = dead \/ dead' = Append(dead, d)
         /\ ok => dead' = Append(dead, d)
         /\ dead' \in Seq(DeadLetter)
         /\ faults' \in 0 .. MaxFaults
<1>1. dead \in Seq(DeadLetter) /\ Append(dead, d) \in Seq(DeadLetter)
  BY DEF TypeInv, TypeOK
<1>2. /\ dead' = dead \/ dead' = Append(dead, d)
      /\ ok => dead' = Append(dead, d)
  BY DEF XaddDead
<1>3. faults' \in 0 .. MaxFaults
  BY FaultType DEF XaddDead
<1>4. QED
  BY <1>1, <1>2, <1>3

-----------------------------------------------------------------------------
(* What a worker's step does to the message in its hand *)

Failing == {"markFailed", "stampFailed", "deadLetter"}

\* The part of TypeInv about the workers.
HandsOK ==
  /\ pc \in [Workers -> Pcs]
  /\ msg \in [Workers -> 0 .. delivered]
  /\ reason \in [Workers -> Reasons \cup {"none"}]
  /\ MessageOwnership
  /\ ReasonGiven

\* The worker keeps its message and goes on to another call.
Moves(w) ==
  /\ \E l \in Pcs \ {"idle"}, r \in Reasons \cup {"none"} :
       /\ pc' = [pc EXCEPT ![w] = l]
       /\ reason' = [reason EXCEPT ![w] = r]
       /\ l \in Failing => r \in Reasons
  /\ UNCHANGED msg

LEMMA MovesHands ==
  ASSUME TypeInv, NEW w \in Workers, pc[w] # "idle", Moves(w), UNCHANGED group
  PROVE  HandsOK'
<1>1. PICK l \in Pcs \ {"idle"}, r \in Reasons \cup {"none"} :
         /\ pc' = [pc EXCEPT ![w] = l]
         /\ reason' = [reason EXCEPT ![w] = r]
         /\ l \in Failing => r \in Reasons
  BY DEF Moves
<1>2. msg' = msg /\ pel' = pel /\ delivered' = delivered
  BY DEF Moves, group
<1>3. /\ pc' \in [Workers -> Pcs]
      /\ msg' \in [Workers -> 0 .. delivered']
      /\ reason' \in [Workers -> Reasons \cup {"none"}]
  BY <1>1, <1>2 DEF TypeInv, TypeOK
<1>4. MessageOwnership'
  BY <1>1, <1>2 DEF TypeInv, TypeOK, MessageOwnership
<1>5. ReasonGiven'
  BY <1>1 DEF TypeInv, TypeOK, ReasonGiven, Failing
<1>6. QED
  BY <1>3, <1>4, <1>5 DEF HandsOK

LEMMA ReleaseHands ==
  ASSUME TypeInv, NEW w \in Workers, Release(w),
         delivered' = delivered,
         \/ pel' = pel
         \/ pel' = [pel EXCEPT ![w] = @ \ {msg[w]}]
  PROVE  HandsOK' /\ pel' \in [Workers -> SUBSET (1 .. delivered')]
<1>1. /\ pc' = [pc EXCEPT ![w] = "idle"]
      /\ msg' = [msg EXCEPT ![w] = 0]
      /\ reason' = [reason EXCEPT ![w] = "none"]
  BY DEF Release, Goto
<1>2. delivered \in Nat /\ pel \in [Workers -> SUBSET (1 .. delivered)]
  BY DEF TypeInv, TypeOK
<1>3. pel' \in [Workers -> SUBSET (1 .. delivered')]
  BY <1>2
<1>4. /\ pc' \in [Workers -> Pcs]
      /\ msg' \in [Workers -> 0 .. delivered']
      /\ reason' \in [Workers -> Reasons \cup {"none"}]
  BY <1>1, <1>2 DEF TypeInv, TypeOK, Pcs
<1>5. \A v \in Workers : pel'[v] \subseteq pel[v] /\ (v # w => pel'[v] = pel[v])
  BY <1>2
<1>6. MessageOwnership'
  BY <1>1, <1>5 DEF TypeInv, TypeOK, MessageOwnership
<1>7. ReasonGiven'
  BY <1>1 DEF TypeInv, TypeOK, ReasonGiven
<1>8. QED
  BY <1>3, <1>4, <1>6, <1>7 DEF HandsOK

LEMMA FailMoves ==
  ASSUME TypeInv, NEW w \in Workers, NEW retryable \in BOOLEAN,
         Fail(w, retryable), UNCHANGED msg
  PROVE  Moves(w)
<1>1. reason = [reason EXCEPT ![w] = reason[w]] /\ reason[w] \in Reasons \cup {"none"}
  BY DEF TypeInv, TypeOK
<1>2. CASE Goto(w, "requeue") /\ UNCHANGED reason
  <2>1. "requeue" \in Pcs \ {"idle"} /\ "requeue" \notin Failing
    BY DEF Pcs, Failing
  <2>2. QED
    BY <1>1, <1>2, <2>1 DEF Moves, Goto
<1>3. ASSUME NEW why \in Reasons, GiveUp(w, why) PROVE Moves(w)
  <2>1. "markFailed" \in Pcs \ {"idle"}
    BY DEF Pcs
  <2>2. QED
    BY <1>3, <2>1 DEF GiveUp, Moves, Goto
<1>4. QED
  BY <1>2, <1>3 DEF Fail, Reasons

\* Going on to a call that publishes no dead letter, or with the reason given.
LEMMA GotoMoves ==
  ASSUME TypeInv, NEW w \in Workers, NEW l \in Pcs \ {"idle"}, Goto(w, l),
         l \in Failing => reason[w] \in Reasons,
         UNCHANGED <<msg, reason>>
  PROVE  Moves(w)
<1>1. reason = [reason EXCEPT ![w] = reason[w]] /\ reason[w] \in Reasons \cup {"none"}
  BY DEF TypeInv, TypeOK
<1>2. QED
  BY <1>1 DEF Moves, Goto

\* The part of TypeInv about everything else.
StoreOK ==
  /\ backend \in {"mysql", "memory"}
  /\ shelved \subseteq [status : Rows, stamps : Columns, analysed : SUBSET Jobs]
  /\ status \in Rows
  /\ stamps \in Columns
  /\ analysed \subseteq Jobs

QueueOK ==
  /\ stream \in Seq(Message)
  /\ delivered \in 0 .. Len(stream)
  /\ pel \in [Workers -> SUBSET (1 .. delivered)]
  /\ dead \in Seq(DeadLetter)

BoundsOK ==
  /\ sub \in [Jobs -> {"new", "saved", "checked", "accepted", "rejected",
                       "aborted"}]
  /\ faults \in 0 .. MaxFaults
  /\ crashes \in 0 .. MaxCrashes

LEMMA TypeParts == TypeInv <=> StoreOK /\ QueueOK /\ BoundsOK /\ HandsOK
BY DEF TypeInv, TypeOK, StoreOK, QueueOK, BoundsOK, HandsOK

-----------------------------------------------------------------------------
(* TypeInv is inductive *)

LEMMA RequestType ==
  ASSUME TypeInv, NEW j \in Jobs, Request(j)
  PROVE  TypeInv'
<1> USE TypeParts
<1>1. CASE SaveJob(j)
  <2>1. status' \in Rows
    BY <1>1 DEF SaveJob, TypeInv, TypeOK, Rows, Status
  <2>2. faults' \in 0 .. MaxFaults
    BY <1>1, FaultType DEF SaveJob
  <2>3. sub' \in [Jobs -> {"new", "saved", "checked", "accepted", "rejected",
                           "aborted"}]
    BY <1>1 DEF SaveJob, TypeInv, TypeOK
  <2>4. UNCHANGED <<stamps, analysed, stream, group, dead, worker, uptime>>
    BY <1>1 DEF SaveJob
  <2>5. StoreOK' /\ QueueOK' /\ BoundsOK'
    BY <2>1, <2>2, <2>3, <2>4
    DEF StoreOK, QueueOK, BoundsOK, group, uptime
  <2>6. HandsOK'
    BY <2>4 DEF HandsOK, MessageOwnership, ReasonGiven, worker, group
  <2>7. QED
    BY <2>5, <2>6 DEF StoreOK, QueueOK, BoundsOK, HandsOK, TypeInv, TypeOK
<1>2. CASE CheckBacklog(j)
  <2>1. faults' \in 0 .. MaxFaults
    BY <1>2, FaultType DEF CheckBacklog
  <2>2. sub' \in [Jobs -> {"new", "saved", "checked", "accepted", "rejected",
                           "aborted"}]
    BY <1>2 DEF CheckBacklog, TypeInv, TypeOK
  <2>3. UNCHANGED <<store, stream, group, dead, worker, uptime>>
    BY <1>2 DEF CheckBacklog
  <2>4. StoreOK' /\ QueueOK' /\ BoundsOK'
    BY <2>1, <2>2, <2>3 DEF StoreOK, QueueOK, BoundsOK, store, group, uptime
  <2>5. HandsOK'
    BY <2>3 DEF HandsOK, MessageOwnership, ReasonGiven, worker, group
  <2>6. QED
    BY <2>4, <2>5 DEF StoreOK, QueueOK, BoundsOK, HandsOK, TypeInv, TypeOK
<1>3. CASE PublishFirst(j)
  <2>1. PICK ok \in BOOLEAN :
          /\ Xadd([job |-> j, attempt |-> 0], ok)
          /\ sub' = [sub EXCEPT ![j] = IF ok THEN "accepted" ELSE "rejected"]
    BY <1>3 DEF PublishFirst
  <2>2. [job |-> j, attempt |-> 0] \in Message
    BY DEF Message
  <2>3. /\ stream' \in Seq(Message) /\ delivered \in 0 .. Len(stream')
        /\ faults' \in 0 .. MaxFaults
    BY <2>1, <2>2, XaddType
  <2>4. sub' \in [Jobs -> {"new", "saved", "checked", "accepted", "rejected",
                           "aborted"}]
    BY <2>1 DEF TypeInv, TypeOK
  <2>5. UNCHANGED <<store, group, dead, worker, uptime>>
    BY <1>3 DEF PublishFirst
  <2>6. StoreOK' /\ QueueOK' /\ BoundsOK'
    BY <2>3, <2>4, <2>5 DEF StoreOK, QueueOK, BoundsOK, store, group, uptime
  <2>7. HandsOK'
    BY <2>5 DEF HandsOK, MessageOwnership, ReasonGiven, worker, group
  <2>8. QED
    BY <2>6, <2>7 DEF StoreOK, QueueOK, BoundsOK, HandsOK, TypeInv, TypeOK
<1>4. QED
  BY <1>1, <1>2, <1>3 DEF Request

\* A step of a worker that keeps its message: what is left to show is about the
\* tables and the streams it writes.
LEMMA MoveType ==
  ASSUME TypeInv, NEW w \in Workers, pc[w] # "idle", Moves(w),
         UNCHANGED <<group, sub, uptime>>,
         status' \in Rows, stamps' \in Columns, analysed' \subseteq Jobs,
         stream' \in Seq(Message), delivered \in 0 .. Len(stream'),
         dead' \in Seq(DeadLetter), faults' \in 0 .. MaxFaults
  PROVE  TypeInv'
<1>1. UNCHANGED <<delivered, pel, backend, shelved, crashes, sub>>
  BY DEF group, uptime
<1>2. HandsOK'
  BY MovesHands
<1>3. StoreOK' /\ QueueOK' /\ BoundsOK'
  BY <1>1 DEF TypeInv, TypeOK, StoreOK, QueueOK, BoundsOK
<1>4. QED
  BY <1>2, <1>3 DEF TypeInv, TypeOK, StoreOK, QueueOK, BoundsOK, HandsOK

\* A step of a worker that lets its message go.
LEMMA ReleaseType ==
  ASSUME TypeInv, NEW w \in Workers, Release(w),
         UNCHANGED <<delivered, sub, uptime, store>>,
         \/ pel' = pel
         \/ pel' = [pel EXCEPT ![w] = @ \ {msg[w]}],
         stream' \in Seq(Message), delivered \in 0 .. Len(stream'),
         dead' \in Seq(DeadLetter), faults' \in 0 .. MaxFaults
  PROVE  TypeInv'
<1>1. UNCHANGED <<delivered, backend, shelved, crashes, sub, status, stamps,
                  analysed>>
  BY DEF store, uptime
<1>2. HandsOK' /\ pel' \in [Workers -> SUBSET (1 .. delivered')]
  BY <1>1, ReleaseHands
<1>3. StoreOK' /\ QueueOK' /\ BoundsOK'
  BY <1>1, <1>2 DEF TypeInv, TypeOK, StoreOK, QueueOK, BoundsOK
<1>4. QED
  BY <1>2, <1>3 DEF TypeInv, TypeOK, StoreOK, QueueOK, BoundsOK, HandsOK

\* A step of a worker that takes entry i, which is pending for it alone.
LEMMA HoldType ==
  ASSUME TypeInv, NEW w \in Workers, NEW i \in Nat,
         \/ UNCHANGED worker
         \/ Hold(w, i) /\ i \in pel'[w],
         pc[w] = "idle",
         UNCHANGED <<store, stream, dead, sub, uptime>>,
         delivered' \in delivered .. Len(stream),
         pel' \in [Workers -> SUBSET (1 .. delivered')],
         \A v \in Workers : pel[v] \subseteq pel'[v],
         \A u, v \in Workers : u # v => pel'[u] \cap pel'[v] = {},
         faults' \in 0 .. MaxFaults
  PROVE  TypeInv'
<1>1. UNCHANGED <<backend, shelved, crashes, sub, status, stamps, analysed,
                  stream, dead>>
  BY DEF store, uptime
<1>2. delivered \in Nat /\ delivered' \in Nat /\ delivered <= delivered'
  BY DEF TypeInv, TypeOK
<1>3. msg \in [Workers -> 0 .. delivered'] /\ "lookup" \in Pcs
  BY <1>2 DEF TypeInv, TypeOK, Pcs
<1>4. HandsOK'
  <2>1. CASE UNCHANGED worker
    BY <2>1, <1>3 DEF worker, HandsOK, TypeInv, TypeOK, MessageOwnership, ReasonGiven
  <2>2. CASE Hold(w, i) /\ i \in pel'[w]
    <3>1. /\ pc' = [pc EXCEPT ![w] = "lookup"]
          /\ msg' = [msg EXCEPT ![w] = i]
          /\ reason' = reason
      BY <2>2 DEF Hold, Goto
    <3>2. i \in 0 .. delivered'
      BY <2>2, <1>2
    <3>3. /\ pc' \in [Workers -> Pcs]
          /\ msg' \in [Workers -> 0 .. delivered']
          /\ reason' \in [Workers -> Reasons \cup {"none"}]
      BY <3>1, <3>2, <1>3 DEF TypeInv, TypeOK
    <3>4. MessageOwnership'
      BY <2>2, <3>1 DEF TypeInv, TypeOK, MessageOwnership
    <3>5. ReasonGiven'
      BY <3>1 DEF TypeInv, TypeOK, ReasonGiven
    <3>6. QED
      BY <3>3, <3>4, <3>5 DEF HandsOK
  <2>3. QED
    BY <2>1, <2>2
<1>5. StoreOK' /\ QueueOK' /\ BoundsOK'
  BY <1>1, <1>2 DEF TypeInv, TypeOK, StoreOK, QueueOK, BoundsOK
<1>6. QED
  BY <1>4, <1>5 DEF TypeInv, TypeOK, StoreOK, QueueOK, BoundsOK, HandsOK

LEMMA ConsumeType ==
  ASSUME TypeInv, NEW w \in Workers, Consume(w)
  PROVE  TypeInv'
<1> USE DEF TypeInv, TypeOK
<1>1. CASE ConsumePending(w)
  <2>1. PICK i \in pel[w] : Hold(w, i)
    BY <1>1 DEF ConsumePending
  <2>2. pc[w] = "idle"
    BY <1>1 DEF ConsumePending
  <2>3. UNCHANGED <<store, stream, dead, sub, uptime, faults, delivered, pel>>
    BY <1>1 DEF ConsumePending, group
  <2>4. i \in Nat /\ i \in pel'[w]
    BY <2>1, <2>3
  <2>5. delivered' \in delivered .. Len(stream)
    BY <2>3
  <2>6. /\ pel' \in [Workers -> SUBSET (1 .. delivered')]
        /\ \A v \in Workers : pel[v] \subseteq pel'[v]
        /\ \A u, v \in Workers : u # v => pel'[u] \cap pel'[v] = {}
    BY <2>3 DEF MessageOwnership
  <2>7. faults' \in 0 .. MaxFaults
    BY <2>3
  <2> HIDE DEF TypeInv, TypeOK
  <2>8. QED
    BY <2>1, <2>2, <2>3, <2>4, <2>5, <2>6, <2>7, HoldType
<1>2. CASE ConsumeFresh(w)
  <2>1. /\ pc[w] = "idle" /\ pel[w] = {} /\ delivered < Len(stream)
        /\ delivered' = delivered + 1
        /\ pel' = [pel EXCEPT ![w] = {delivered + 1}]
        /\ UNCHANGED <<store, stream, dead, sub, uptime>>
    BY <1>2 DEF ConsumeFresh
  <2>2. Hold(w, delivered + 1) \/ UNCHANGED worker
    BY <1>2 DEF ConsumeFresh
  <2>3. faults' \in 0 .. MaxFaults
    BY <1>2, FaultType DEF ConsumeFresh
  <2>4. delivered + 1 \in Nat /\ delivered + 1 \in pel'[w]
    BY <2>1
  <2>5. delivered' \in delivered .. Len(stream)
    BY <2>1
  <2>6. pel' \in [Workers -> SUBSET (1 .. delivered')]
    BY <2>1
  <2>7. \A v \in Workers : pel[v] \subseteq pel'[v]
    BY <2>1
  <2>8. \A v \in Workers : delivered + 1 \notin pel[v]
    OBVIOUS
  <2>9. \A u, v \in Workers : u # v => pel'[u] \cap pel'[v] = {}
    BY <2>1, <2>8 DEF MessageOwnership
  <2> HIDE DEF TypeInv, TypeOK
  <2>10. QED
    BY <2>1, <2>2, <2>3, <2>4, <2>5, <2>6, <2>7, <2>9, HoldType
<1>3. CASE ConsumeNothing(w)
  BY <1>3 DEF ConsumeNothing, vars, store, group, worker, uptime,
              MessageOwnership, ReasonGiven
<1>4. QED
  BY <1>1, <1>2, <1>3 DEF Consume

LEMMA ProcessType ==
  ASSUME TypeInv, NEW w \in Workers, Process(w)
  PROVE  TypeInv'
<1>1. pc[w] # "idle"
  BY DEF Process, LookUp, MarkRunning, StampStarted, Analyze, SaveAnalysis,
         MarkCompleted, StampCompleted
<1>2. JobOf(w) \in Jobs
  BY <1>1, HeldMessage
<1>3. /\ status \in Rows /\ stamps \in Columns /\ analysed \subseteq Jobs
      /\ stream \in Seq(Message) /\ delivered \in 0 .. Len(stream)
      /\ dead \in Seq(DeadLetter) /\ faults \in 0 .. MaxFaults
  BY DEF TypeInv, TypeOK
<1>4. {"ackUnknown", "ackTerminal", "analyze", "markRunning", "stampStarted",
       "saveAnalysis", "markCompleted", "stampCompleted", "ackDone"}
        \subseteq (Pcs \ {"idle"}) \ Failing
  BY DEF Pcs, AckPcs, Failing
<1>5. CASE LookUp(w)
  <2>1. UNCHANGED <<store, stream, group, dead, msg, reason, sub, uptime>>
    BY <1>5 DEF LookUp
  <2>2. \E l \in {"ackUnknown", "ackTerminal", "analyze", "markRunning"} :
          Goto(w, l)
    BY <1>5 DEF LookUp
  <2>3. Moves(w)
    BY <2>1, <2>2, <1>4, GotoMoves
  <2>4. faults' \in 0 .. MaxFaults
    BY <1>5, FaultType DEF LookUp
  <2>5. QED
    BY <1>1, <1>3, <2>1, <2>3, <2>4, MoveType DEF store
<1>6. CASE MarkRunning(w)
  <2>1. PICK ok \in BOOLEAN :
          /\ UpdateStatus(JobOf(w), "RUNNING", ok)
          /\ IF ok THEN Goto(w, "stampStarted") /\ UNCHANGED reason
                   ELSE Fail(w, TRUE)
    BY <1>6 DEF MarkRunning
  <2>2. UNCHANGED <<stamps, analysed, stream, group, dead, msg, sub, uptime>>
    BY <1>6 DEF MarkRunning
  <2>3. Moves(w)
    BY <2>1, <2>2, <1>4, GotoMoves, FailMoves
  <2>4. status' \in Rows /\ faults' \in 0 .. MaxFaults
    BY <2>1, <1>2, UpdateStatusType DEF Status
  <2>5. QED
    BY <1>1, <1>3, <2>2, <2>3, <2>4, MoveType
<1>7. CASE StampStarted(w)
  <2>1. /\ Stamp(JobOf(w), "startedAt") /\ Goto(w, "analyze")
        /\ UNCHANGED <<status, analysed, stream, group, dead, msg, reason, sub,
                       uptime>>
    BY <1>7 DEF StampStarted
  <2>2. Moves(w)
    BY <2>1, <1>4, GotoMoves
  <2>3. stamps' \in Columns /\ faults' \in 0 .. MaxFaults
    BY <2>1, <1>2, StampType
  <2>4. QED
    BY <1>1, <1>3, <2>1, <2>2, <2>3, MoveType
<1>8. CASE Analyze(w)
  <2>1. \/ Goto(w, "saveAnalysis") /\ UNCHANGED reason
        \/ \E retryable \in BOOLEAN : Fail(w, retryable)
    BY <1>8 DEF Analyze
  <2>2. UNCHANGED <<store, stream, group, dead, msg, sub, faults, uptime>>
    BY <1>8 DEF Analyze
  <2>3. Moves(w)
    BY <2>1, <2>2, <1>4, GotoMoves, FailMoves
  <2>4. QED
    BY <1>1, <1>3, <2>2, <2>3, MoveType DEF store
<1>9. CASE SaveAnalysis(w)
  <2>1. /\ Goto(w, "markCompleted")
        /\ UNCHANGED <<status, stamps, stream, group, dead, msg, reason, sub,
                       uptime>>
    BY <1>9 DEF SaveAnalysis
  <2>2. analysed' \subseteq Jobs
    BY <1>9, <1>2, <1>3 DEF SaveAnalysis
  <2>3. faults' \in 0 .. MaxFaults
    BY <1>9, FaultType DEF SaveAnalysis
  <2>4. Moves(w)
    BY <2>1, <1>4, GotoMoves
  <2>5. QED
    BY <1>1, <1>3, <2>1, <2>2, <2>3, <2>4, MoveType
<1>10. CASE MarkCompleted(w)
  <2>1. PICK ok \in BOOLEAN :
          /\ UpdateStatus(JobOf(w), "COMPLETED", ok)
          /\ IF ok THEN Goto(w, "stampCompleted") /\ UNCHANGED reason
                   ELSE Fail(w, TRUE)
    BY <1>10 DEF MarkCompleted
  <2>2. UNCHANGED <<stamps, analysed, stream, group, dead, msg, sub, uptime>>
    BY <1>10 DEF MarkCompleted
  <2>3. Moves(w)
    BY <2>1, <2>2, <1>4, GotoMoves, FailMoves
  <2>4. status' \in Rows /\ faults' \in 0 .. MaxFaults
    BY <2>1, <1>2, UpdateStatusType DEF Status
  <2>5. QED
    BY <1>1, <1>3, <2>2, <2>3, <2>4, MoveType
<1>11. CASE StampCompleted(w)
  <2>1. /\ Stamp(JobOf(w), "completedAt") /\ Goto(w, "ackDone")
        /\ UNCHANGED <<status, analysed, stream, group, dead, msg, reason, sub,
                       uptime>>
    BY <1>11 DEF StampCompleted
  <2>2. Moves(w)
    BY <2>1, <1>4, GotoMoves
  <2>3. stamps' \in Columns /\ faults' \in 0 .. MaxFaults
    BY <2>1, <1>2, StampType
  <2>4. QED
    BY <1>1, <1>3, <2>1, <2>2, <2>3, MoveType
<1>12. QED
  BY <1>5, <1>6, <1>7, <1>8, <1>9, <1>10, <1>11 DEF Process

LEMMA SettleType ==
  ASSUME TypeInv, NEW w \in Workers, Settle(w)
  PROVE  TypeInv'
<1>1. pc[w] # "idle"
  BY DEF Settle, Requeue, Republish, MarkFailed, StampFailed,
         PublishDeadLetter, Ack, AckPcs
<1>2. JobOf(w) \in Jobs /\ Held(w) \in Message /\ msg[w] \in Nat
  BY <1>1, HeldMessage
<1>3. /\ status \in Rows /\ stamps \in Columns /\ analysed \subseteq Jobs
      /\ stream \in Seq(Message) /\ delivered \in 0 .. Len(stream)
      /\ dead \in Seq(DeadLetter) /\ faults \in 0 .. MaxFaults
  BY DEF TypeInv, TypeOK
<1>4. /\ {"republish", "ackRetried", "stampFailed", "deadLetter", "ackDead"}
           \subseteq Pcs \ {"idle"}
      /\ {"republish", "ackRetried", "ackDead"} \cap Failing = {}
  BY DEF Pcs, AckPcs, Failing
<1>5. pc[w] \in Failing => reason[w] \in Reasons
  BY DEF TypeInv, ReasonGiven, Failing
<1>6. CASE Requeue(w)
  <2>1. /\ \E ok \in BOOLEAN : UpdateStatus(JobOf(w), "QUEUED", ok)
        /\ Goto(w, "republish")
        /\ UNCHANGED <<stamps, analysed, stream, group, dead, msg, reason, sub,
                       uptime>>
    BY <1>6 DEF Requeue
  <2>2. Moves(w)
    BY <2>1, <1>4, GotoMoves
  <2>3. status' \in Rows /\ faults' \in 0 .. MaxFaults
    BY <2>1, <1>2, UpdateStatusType DEF Status
  <2>4. QED
    BY <1>1, <1>3, <2>1, <2>2, <2>3, MoveType
<1>7. CASE Republish(w)
  <2> DEFINE m == [job |-> JobOf(w), attempt |-> Held(w).attempt + 1]
  <2>1. PICK ok \in BOOLEAN :
          /\ Xadd(m, ok)
          /\ IF ok THEN Goto(w, "ackRetried") /\ UNCHANGED <<msg, reason>>
                   ELSE Release(w)
    BY <1>7 DEF Republish
  <2>2. UNCHANGED <<store, group, dead, sub, uptime>>
    BY <1>7 DEF Republish
  <2>3. m \in Message
    BY <1>2 DEF Message
  <2>4. /\ stream' \in Seq(Message) /\ delivered \in 0 .. Len(stream')
        /\ faults' \in 0 .. MaxFaults
    BY <2>1, <2>3, XaddType
  <2>5. CASE ok
    <3>1. Moves(w)
      BY <2>1, <2>5, <1>4, GotoMoves
    <3>2. QED
      BY <1>1, <1>3, <2>2, <2>4, <3>1, MoveType DEF store
  <2>6. CASE ~ok
    BY <1>3, <2>1, <2>2, <2>4, <2>6, ReleaseType DEF group
  <2>7. QED
    BY <2>5, <2>6
<1>8. CASE MarkFailed(w)
  <2>1. /\ \E ok \in BOOLEAN : UpdateStatus(JobOf(w), "FAILED", ok)
        /\ Goto(w, "stampFailed")
        /\ UNCHANGED <<stamps, analysed, stream, group, dead, msg, reason, sub,
                       uptime>>
        /\ pc[w] \in Failing
    BY <1>8 DEF MarkFailed, Failing
  <2>2. Moves(w)
    BY <2>1, <1>4, <1>5, GotoMoves
  <2>3. status' \in Rows /\ faults' \in 0 .. MaxFaults
    BY <2>1, <1>2, UpdateStatusType DEF Status
  <2>4. QED
    BY <1>1, <1>3, <2>1, <2>2, <2>3, MoveType
<1>9. CASE StampFailed(w)
  <2>1. /\ Stamp(JobOf(w), "completedAt") /\ Goto(w, "deadLetter")
        /\ UNCHANGED <<status, analysed, stream, group, dead, msg, reason, sub,
                       uptime>>
        /\ pc[w] \in Failing
    BY <1>9 DEF StampFailed, Failing
  <2>2. Moves(w)
    BY <2>1, <1>4, <1>5, GotoMoves
  <2>3. stamps' \in Columns /\ faults' \in 0 .. MaxFaults
    BY <2>1, <1>2, StampType
  <2>4. QED
    BY <1>1, <1>3, <2>1, <2>2, <2>3, MoveType
<1>10. CASE PublishDeadLetter(w)
  <2> DEFINE d == [job |-> JobOf(w), attempt |-> Held(w).attempt,
                   id |-> msg[w], reason |-> reason[w]]
  <2>1. PICK ok \in BOOLEAN :
          /\ XaddDead(d, ok)
          /\ IF ok THEN Goto(w, "ackDead") /\ UNCHANGED <<msg, reason>>
                   ELSE Release(w)
    BY <1>10 DEF PublishDeadLetter
  <2>2. UNCHANGED <<store, stream, group, sub, uptime>> /\ pc[w] \in Failing
    BY <1>10 DEF PublishDeadLetter, Failing
  <2>3. d \in DeadLetter
    BY <1>2, <1>5, <2>2 DEF Message, DeadLetter
  <2>4. dead' \in Seq(DeadLetter) /\ faults' \in 0 .. MaxFaults
    BY <2>1, <2>3, XaddDeadType
  <2>5. CASE ok
    <3>1. Moves(w)
      BY <2>1, <2>5, <1>4, GotoMoves
    <3>2. QED
      BY <1>1, <1>3, <2>2, <2>4, <3>1, MoveType DEF store
  <2>6. CASE ~ok
    BY <1>3, <2>1, <2>2, <2>4, <2>6, ReleaseType DEF group
  <2>7. QED
    BY <2>5, <2>6
<1>11. CASE Ack(w)
  <2>1. /\ Release(w)
        /\ UNCHANGED <<store, stream, delivered, dead, sub, uptime>>
    BY <1>11 DEF Ack
  <2>2. pel' = pel \/ pel' = [pel EXCEPT ![w] = @ \ {msg[w]}]
    BY <1>11 DEF Ack
  <2>3. faults' \in 0 .. MaxFaults
    BY <1>11, FaultType DEF Ack
  <2>4. QED
    BY <1>3, <2>1, <2>2, <2>3, ReleaseType
<1>12. QED
  BY <1>6, <1>7, <1>8, <1>9, <1>10, <1>11 DEF Settle

LEMMA CrashType ==
  ASSUME TypeInv, Crash
  PROVE  TypeInv'
<1> DEFINE AllTables == [status : Rows, stamps : Columns, analysed : SUBSET Jobs]
<1>1. EmptyTables \in AllTables /\ Tables \in AllTables
  BY DEF TypeInv, TypeOK, EmptyTables, Tables, Rows, Columns
<1>2. ASSUME NEW b \in {"mysql", "memory"}, NEW tables \in AllTables,
             Open(b, tables)
      PROVE  /\ backend' \in {"mysql", "memory"}
             /\ status' \in Rows /\ stamps' \in Columns /\ analysed' \subseteq Jobs
  BY <1>2 DEF Open
<1>3. StoreOK'
  <2>1. CASE ReopenMySQL
    BY <2>1 DEF ReopenMySQL, store, StoreOK, TypeInv, TypeOK
  <2>2. CASE ReopenMemory
    BY <2>2, <1>1, <1>2 DEF ReopenMemory, StoreOK, TypeInv, TypeOK
  <2>3. CASE FallBack
    <3>1. shelved' \subseteq AllTables
      BY <2>3, <1>1 DEF FallBack, TypeInv, TypeOK
    <3>2. Open("memory", EmptyTables)
      BY <2>3 DEF FallBack
    <3>3. QED
      BY <3>1, <3>2, <1>1, <1>2 DEF StoreOK
  <2>4. CASE ComeBack
    <3>1. PICK tables \in shelved : Open("mysql", tables)
      BY <2>4 DEF ComeBack
    <3>2. tables \in AllTables
      BY DEF TypeInv, TypeOK
    <3>3. shelved' \subseteq AllTables
      BY <2>4 DEF ComeBack
    <3>4. QED
      BY <3>1, <3>2, <3>3, <1>2 DEF StoreOK
  <2>5. QED
    BY <2>1, <2>2, <2>3, <2>4 DEF Crash
<1>4. UNCHANGED <<stream, delivered, pel, dead, faults>>
  BY DEF Crash, group
<1>5. QueueOK'
  BY <1>4 DEF QueueOK, TypeInv, TypeOK
<1>6. BoundsOK'
  <2>1. crashes' \in 0 .. MaxCrashes
    BY PipelineAssumption DEF Crash, TypeInv, TypeOK
  <2>2. sub' \in [Jobs -> {"new", "saved", "checked", "accepted", "rejected",
                           "aborted"}]
    BY DEF Crash, TypeInv, TypeOK
  <2>3. QED
    BY <2>1, <2>2, <1>4 DEF BoundsOK, TypeInv, TypeOK
<1>7. HandsOK'
  <2>1. /\ pc' = [w \in Workers |-> "idle"]
        /\ msg' = [w \in Workers |-> 0]
        /\ reason' = [w \in Workers |-> "none"]
    BY DEF Crash
  <2>2. /\ pc' \in [Workers -> Pcs]
        /\ msg' \in [Workers -> 0 .. delivered']
        /\ reason' \in [Workers -> Reasons \cup {"none"}]
    BY <2>1, <1>4 DEF Pcs, TypeInv, TypeOK
  <2>3. MessageOwnership' /\ ReasonGiven'
    BY <2>1, <1>4 DEF MessageOwnership, ReasonGiven, TypeInv
  <2>4. QED
    BY <2>2, <2>3 DEF HandsOK
<1>8. QED
  BY <1>3, <1>5, <1>6, <1>7
  DEF StoreOK, QueueOK, BoundsOK, HandsOK, TypeInv, TypeOK

LEMMA TypeStep == TypeInv /\ [Next]_vars => TypeInv'
<1> SUFFICES ASSUME TypeInv, [Next]_vars PROVE TypeInv'
  OBVIOUS
<1>1. ASSUME NEW j \in Jobs, Request(j) PROVE TypeInv'
  BY <1>1, RequestType
<1>2. ASSUME NEW w \in Workers, WorkerStep(w) PROVE TypeInv'
  BY <1>2, ConsumeType, ProcessType, SettleType DEF WorkerStep
<1>3. CASE Crash
  BY <1>3, CrashType
<1>4. CASE UNCHANGED vars
  BY <1>4 DEF vars, store, group, worker, uptime, TypeInv, TypeOK,
              MessageOwnership, ReasonGiven
<1>5. QED
  BY <1>1, <1>2, <1>3, <1>4 DEF Next

LEMMA TypeAlways == Spec => []TypeInv
BY TypeInit, TypeStep, PTL DEF Spec

\* Every variable keeps its range; no id is delivered or held that is not in
\* the stream.
THEOREM TypeCorrect == Spec => []TypeOK
<1>1. TypeInv => TypeOK
  BY DEF TypeInv
<1>2. QED
  BY <1>1, TypeAlways, PTL

\* A worker works on an entry of its own pending list, and no entry is pending
\* for two workers, whatever fails and whenever the backend restarts
\* (consumeNext, ack).
THEOREM Ownership == Spec => []MessageOwnership
<1>1. TypeInv => MessageOwnership
  BY DEF TypeInv
<1>2. QED
  BY <1>1, TypeAlways, PTL
=============================================================================
