--------------------------- MODULE MonitoringProofs ---------------------------
(***************************************************************************)
(* Theorems about Monitoring, for any number of jobs and workers, and      *)
(* whatever calls fail.                                                    *)
(***************************************************************************)
EXTENDS Monitoring, JobLifecycleProofs

-----------------------------------------------------------------------------
(* The pipeline underneath *)

LEMMA WatchStep == [WatchNext]_watch => [Next]_vars
<1> SUFFICES ASSUME [WatchNext]_watch PROVE [Next]_vars OBVIOUS
<1>1. ASSUME NEW w \in Workers, Work(w) \/ LoadActive(w) \/ DecrementActive(w)
      PROVE  [Next]_vars
  BY <1>1 DEF Work, LoadActive, DecrementActive, Next
<1>2. ASSUME NEW j \in Jobs, Submit(j) \/ CountSubmission(j) PROVE [Next]_vars
  BY <1>2 DEF Submit, CountSubmission, Next
<1>3. CASE ReadRow \/ ReadDispatch
  BY <1>3 DEF ReadRow, ReadDispatch
<1>4. CASE UNCHANGED watch
  BY <1>4 DEF watch
<1> QED BY <1>1, <1>2, <1>3, <1>4 DEF WatchNext

\* Counting and looking change nothing: the pipeline under observation is the
\* pipeline, and what is proved of it holds.
THEOREM WatchedPipeline == WatchSpec => Spec
<1>1. WatchInit => Init BY DEF WatchInit
<1> QED BY <1>1, WatchStep, PTL DEF WatchSpec, Spec

-----------------------------------------------------------------------------
(* The gauge of active jobs *)

Busy == {w \in Workers : gauge[w].at # "out"}

Positions == {"out", "in", "leaving", "loaded"}

GaugeTypes ==
  /\ gauge \in [Workers -> [at : Positions, seen : Nat]]
  /\ counts \in [submitted : Nat, completed : Nat, failed : Nat, retried : Nat,
                 dead : Nat, active : Nat]

\* A worker is counted in exactly while it is among the calls of processJob, and
\* what it has loaded is not zero, because it is still counted itself.
GaugeInv ==
  /\ \A w \in Workers : gauge[w].at = "in" <=> pc[w] \in Processing
  /\ \A w \in Workers : gauge[w].at = "loaded" => gauge[w].seen >= 1
  /\ IsFiniteSet(Busy) /\ counts.active = Cardinality(Busy)

IInv == TypeInv /\ GaugeTypes /\ GaugeInv

\* A worker's step moves that worker and no other.
LEMMA WorkerStepMoves ==
  ASSUME TypeInv, NEW w \in Workers, WorkerStep(w)
  PROVE  \E l : pc' = [pc EXCEPT ![w] = l]
<1>1. pc \in [Workers -> Pcs] BY DEF TypeInv, TypeOK
<1>2. CASE Consume(w)
  BY <1>1, <1>2 DEF Consume, ConsumePending, ConsumeFresh, ConsumeNothing, Hold, Goto,
                    worker, vars
<1>3. CASE Process(w)
  BY <1>1, <1>3 DEF Process, LookUp, MarkRunning, StampStarted, Analyze, SaveAnalysis,
                    MarkCompleted, StampCompleted, Fail, GiveUp, Goto
<1>4. CASE Settle(w)
  BY <1>1, <1>4 DEF Settle, Requeue, Republish, MarkFailed, StampFailed,
                    PublishDeadLetter, Ack, Release, Goto
<1> QED BY <1>2, <1>3, <1>4 DEF WorkerStep

LEMMA CountTypes ==
  ASSUME GaugeTypes, NEW w \in Workers, Count(w)
  PROVE  /\ counts' \in [submitted : Nat, completed : Nat, failed : Nat,
                         retried : Nat, dead : Nat, active : Nat]
         /\ counts'.active = counts.active + One(Enters(w))
         /\ counts'.submitted = counts.submitted
         /\ counts'.completed = counts.completed + One(pc[w] = "stampCompleted")
         /\ counts'.retried = counts.retried + One(Acked(w, "ackRetried"))
         /\ counts'.failed = counts.failed + One(Acked(w, "ackDead"))
         /\ counts'.dead = counts.dead + One(Acked(w, "ackDead"))
<1> DEFINE a == One(Enters(w))
<1> DEFINE c == One(pc[w] = "stampCompleted")
<1> DEFINE r == One(Acked(w, "ackRetried"))
<1> DEFINE d == One(Acked(w, "ackDead"))
<1>1. a \in Nat /\ c \in Nat /\ r \in Nat /\ d \in Nat BY DEF One
<1>2. counts' = [counts EXCEPT !.active = @ + a, !.completed = @ + c,
                               !.retried = @ + r, !.failed = @ + d, !.dead = @ + d]
  BY DEF Count
<1> HIDE DEF a, c, r, d
<1>3. counts' = [submitted |-> counts.submitted, completed |-> counts.completed + c,
                 failed |-> counts.failed + d, retried |-> counts.retried + r,
                 dead |-> counts.dead + d, active |-> counts.active + a]
  BY <1>2 DEF GaugeTypes
<1>4. /\ counts.submitted \in Nat /\ counts.completed + c \in Nat
      /\ counts.failed + d \in Nat /\ counts.retried + r \in Nat
      /\ counts.dead + d \in Nat /\ counts.active + a \in Nat
  BY <1>1 DEF GaugeTypes
<1>5. counts' \in [submitted : Nat, completed : Nat, failed : Nat, retried : Nat,
                  dead : Nat, active : Nat]
  BY <1>3, <1>4
<1>6. /\ counts'.active = counts.active + a /\ counts'.submitted = counts.submitted
      /\ counts'.completed = counts.completed + c
      /\ counts'.retried = counts.retried + r
      /\ counts'.failed = counts.failed + d /\ counts'.dead = counts.dead + d
  BY <1>3
<1> QED BY <1>5, <1>6 DEF a, c, r, d

LEMMA WorkStep ==
  ASSUME IInv, NEW w \in Workers, Work(w), TypeInv'
  PROVE  GaugeTypes' /\ GaugeInv'
<1> USE DEF IInv
<1>1. PICK l : pc' = [pc EXCEPT ![w] = l]
  BY WorkerStepMoves DEF Work
<1>2. pc \in [Workers -> Pcs] /\ pc'[w] = l /\ \A v \in Workers \ {w} : pc'[v] = pc[v]
  BY <1>1 DEF TypeInv, TypeOK
<1> DEFINE place == CASE Enters(w) -> "in" [] Leaves(w) -> "leaving"
                      [] OTHER -> gauge[w].at
<1>3. gauge' = [gauge EXCEPT ![w] = [at |-> place, seen |-> gauge[w].seen]]
  <2>1. gauge' = [gauge EXCEPT ![w].at = place] BY DEF Work
  <2> HIDE DEF place
  <2>2. [gauge[w] EXCEPT !.at = place] = [at |-> place, seen |-> gauge[w].seen]
    BY DEF GaugeTypes
  <2> QED BY <2>1, <2>2
<1>4. place \in Positions
  BY DEF GaugeTypes, Positions
<1>5. gauge' \in [Workers -> [at : Positions, seen : Nat]]
  BY <1>3, <1>4 DEF GaugeTypes
<1>6. GaugeTypes'
  BY <1>5, CountTypes DEF Work, GaugeTypes
<1>7. /\ gauge'[w].at = place /\ gauge'[w].seen = gauge[w].seen
      /\ \A v \in Workers \ {w} : gauge'[v] = gauge[v]
  BY <1>3 DEF GaugeTypes
<1>8. gauge[w].at \in {"out", "in"} /\ (gauge[w].at = "in" <=> pc[w] \in Processing)
  BY DEF Work, GaugeInv
<1>9. place = IF l \in Processing THEN "in"
              ELSE IF pc[w] \in Processing THEN "leaving" ELSE "out"
  BY <1>2, <1>8 DEF Enters, Leaves
<1> HIDE DEF place
<1>10. \A v \in Workers : gauge'[v].at = "in" <=> pc'[v] \in Processing
  BY <1>2, <1>7, <1>9 DEF GaugeInv
<1>11. \A v \in Workers : gauge'[v].at = "loaded" => gauge'[v].seen >= 1
  BY <1>7, <1>9 DEF GaugeInv
<1>12. counts'.active = counts.active + One(Enters(w))
  BY CountTypes DEF Work
<1>13. IsFiniteSet(Busy') /\ counts'.active = Cardinality(Busy')
  <2>1. counts.active \in Nat BY DEF GaugeTypes
  <2>2. CASE Enters(w)
    <3>1. w \notin Busy /\ Busy' = Busy \cup {w}
      BY <2>2, <1>2, <1>7, <1>8, <1>9 DEF Busy, Enters
    <3>2. counts'.active = counts.active + 1 BY <2>2, <1>12 DEF One
    <3> QED BY <3>1, <3>2, FS_AddElement DEF GaugeInv
  <2>3. CASE ~Enters(w)
    <3>1. Busy' = Busy
      BY <2>3, <1>2, <1>7, <1>8, <1>9 DEF Busy, Enters
    <3>2. counts'.active = counts.active BY <2>1, <2>3, <1>12 DEF One
    <3> QED BY <3>1, <3>2 DEF GaugeInv
  <2> QED BY <2>2, <2>3
<1> QED BY <1>6, <1>10, <1>11, <1>13 DEF GaugeInv

LEMMA LoadStep ==
  ASSUME IInv, NEW w \in Workers, LoadActive(w)
  PROVE  GaugeTypes' /\ GaugeInv'
<1> USE DEF IInv, LoadActive
<1>1. GaugeTypes' BY DEF GaugeTypes, Positions
<1>2. /\ gauge'[w] = [at |-> "loaded", seen |-> counts.active]
      /\ \A v \in Workers \ {w} : gauge'[v] = gauge[v]
      /\ pc' = pc /\ counts' = counts
  BY DEF GaugeTypes, vars, worker
<1>3. Busy' = Busy BY <1>2 DEF Busy
<1>4. counts.active >= 1
  <2>1. Busy # {} BY DEF Busy
  <2>2. Cardinality(Busy) # 0 BY <2>1, FS_EmptySet DEF GaugeInv
  <2> QED BY <2>2 DEF GaugeInv, GaugeTypes
<1> QED BY <1>1, <1>2, <1>3, <1>4 DEF GaugeInv

LEMMA DecrementStep ==
  ASSUME IInv, NEW w \in Workers, DecrementActive(w)
  PROVE  GaugeTypes' /\ GaugeInv'
<1> USE DEF IInv
<1>1. w \in Busy /\ gauge[w].seen >= 1 /\ gauge[w].seen \in Nat
  BY DEF DecrementActive, GaugeInv, GaugeTypes, Busy
<1>2. counts' = [counts EXCEPT !.active = @ - 1]
  BY <1>1 DEF DecrementActive
<1>3. counts.active \in Nat /\ counts.active >= 1
  BY <1>1, FS_EmptySet DEF GaugeInv, GaugeTypes
<1>4. counts.active - 1 \in Nat /\ counts'.active = counts.active - 1
  BY <1>2, <1>3 DEF GaugeTypes
<1>5. /\ gauge' = [gauge EXCEPT ![w] = Out]
      /\ pc' = pc
  BY DEF DecrementActive, vars, worker
<1>6. GaugeTypes' BY <1>2, <1>4, <1>5 DEF GaugeTypes, Out, Positions
<1>7. /\ gauge'[w] = Out /\ \A v \in Workers \ {w} : gauge'[v] = gauge[v]
  BY <1>5 DEF GaugeTypes
<1>8. Busy' = Busy \ {w} BY <1>7 DEF Busy, Out
<1>9. IsFiniteSet(Busy') /\ counts'.active = Cardinality(Busy')
  BY <1>1, <1>4, <1>8, FS_RemoveElement DEF GaugeInv
<1>10. gauge[w].at # "in" BY DEF DecrementActive
<1> QED BY <1>5, <1>6, <1>7, <1>9, <1>10 DEF GaugeInv, Out

LEMMA QuietStep ==
  ASSUME IInv, UNCHANGED <<pc, gauge>>, counts'.active = counts.active,
         counts' \in [submitted : Nat, completed : Nat, failed : Nat, retried : Nat,
                      dead : Nat, active : Nat]
  PROVE  GaugeTypes' /\ GaugeInv'
BY DEF IInv, GaugeTypes, GaugeInv, Busy

LEMMA StepIInv == IInv /\ [WatchNext]_watch => IInv'
<1> SUFFICES ASSUME IInv, [WatchNext]_watch PROVE IInv' OBVIOUS
<1>1. TypeInv' BY WatchStep, TypeStep DEF IInv
<1>2. ASSUME NEW w \in Workers, Work(w) \/ LoadActive(w) \/ DecrementActive(w)
      PROVE  GaugeTypes' /\ GaugeInv'
  BY <1>1, <1>2, WorkStep, LoadStep, DecrementStep
<1>3. ASSUME NEW j \in Jobs, Submit(j) PROVE GaugeTypes' /\ GaugeInv'
  BY <1>3, QuietStep
  DEF Submit, Request, SaveJob, CheckBacklog, PublishFirst, worker, IInv, GaugeTypes
<1>4. ASSUME NEW j \in Jobs, CountSubmission(j) PROVE GaugeTypes' /\ GaugeInv'
  BY <1>4, QuietStep DEF CountSubmission, vars, worker, IInv, GaugeTypes
<1>5. ASSUME ReadRow \/ ReadDispatch \/ UNCHANGED watch
      PROVE  GaugeTypes' /\ GaugeInv'
  BY <1>5, QuietStep
  DEF ReadRow, ReadDispatch, watch, shown, vars, worker, IInv, GaugeTypes
<1>6. GaugeTypes' /\ GaugeInv'
  <2>1. CASE WatchNext
    BY <2>1, <1>2, <1>3, <1>4, <1>5, Zenon DEF WatchNext
  <2>2. CASE UNCHANGED watch
    BY <2>2, <1>5, Zenon
  <2> QED BY <2>1, <2>2, Zenon
<1>7. TypeInv' /\ GaugeTypes' /\ GaugeInv'
  BY <1>1, <1>6, Zenon
<1> QED BY <1>7, Zenon DEF IInv

LEMMA GaugeInit == WatchInit => IInv
<1> SUFFICES ASSUME WatchInit PROVE IInv
  OBVIOUS
<1>1. TypeInv BY TypeInit DEF WatchInit
<1>2. GaugeTypes BY DEF WatchInit, GaugeTypes, NoCounts, Out, Positions
<1>3. Busy = {} BY DEF WatchInit, Busy, Out
<1> QED BY <1>1, <1>2, <1>3, FS_EmptySet
        DEF WatchInit, Init, IInv, GaugeInv, NoCounts, Out, Processing

\* However workers enter and leave processJob together, the gauge is the number of
\* those inside, and never below zero.
THEOREM GaugeIsExact == WatchSpec => []ActiveIsBusy
<1>1. IInv => ActiveIsBusy
  BY DEF IInv, GaugeInv, Busy, ActiveIsBusy
<1> QED BY <1>1, GaugeInit, StepIInv, PTL DEF WatchSpec

-----------------------------------------------------------------------------
(* The messages and the dead letter of a job, in their order *)

Letters(j) == {i \in DOMAIN dead : dead[i].job = j}

HasLast(S) == S # {} => \E i \in S : \A k \in S : k <= i

\* The entries of a job are in the order of their attempts.
InOrder ==
  \A j \in Jobs : \A i, k \in Entries(j) :
    i <= k => stream[i].attempt <= stream[k].attempt

\* A dead letter is the last that is heard of the messages of its job.
LastWord(j) ==
  Letters(j) # {} =>
    /\ \A i, k \in Letters(j) : i = k
    /\ Carriers(j) = {} /\ Entries(j) # {}

LetterInv ==
  /\ InOrder
  /\ \A j \in Jobs : HasLast(Entries(j)) /\ LastWord(j)

\* What one more entry does to the entries of each job.
LEMMA EntryAdded ==
  ASSUME TypeInv, NEW m \in Message, stream' = Append(stream, m)
  PROVE  \E n \in Nat :
           /\ \A j : Entries(j)' = IF j = m.job THEN Entries(j) \cup {n} ELSE Entries(j)
           /\ \A j : \A i \in Entries(j) : i < n /\ stream'[i] = stream[i]
           /\ stream'[n] = m /\ n \notin DOMAIN stream
           /\ DOMAIN stream' = DOMAIN stream \cup {n}
           /\ \A i \in DOMAIN stream : i \in Nat /\ stream'[i] = stream[i]
<1>1. stream \in Seq(Message) BY DEF TypeInv, TypeOK
<1>2. PICK n \in Nat : n = Len(stream) + 1 BY <1>1
<1>3. /\ DOMAIN stream' = DOMAIN stream \cup {n} /\ n \notin DOMAIN stream
      /\ stream'[n] = m
      /\ \A i \in DOMAIN stream : i \in Nat /\ i < n /\ stream'[i] = stream[i]
  BY <1>1, <1>2
<1>4. \A j : Entries(j)' = IF j = m.job THEN Entries(j) \cup {n} ELSE Entries(j)
  BY <1>3 DEF Entries
<1>5. \A j : \A i \in Entries(j) : i < n /\ stream'[i] = stream[i]
  BY <1>3 DEF Entries
<1> QED BY <1>3, <1>4, <1>5

LEMMA LetterAdded ==
  ASSUME TypeInv, NEW d \in DeadLetter, dead' = Append(dead, d)
  PROVE  \E n \in Nat :
           /\ \A j : Letters(j)' = IF j = d.job THEN Letters(j) \cup {n} ELSE Letters(j)
           /\ \A i \in DOMAIN dead : dead'[i] = dead[i]
           /\ dead'[n] = d
<1>1. dead \in Seq(DeadLetter) BY DEF TypeInv, TypeOK
<1>2. PICK n \in Nat : n = Len(dead) + 1 BY <1>1
<1>3. /\ DOMAIN dead' = DOMAIN dead \cup {n} /\ dead'[n] = d
      /\ \A i \in DOMAIN dead : dead'[i] = dead[i]
  BY <1>1, <1>2
<1>4. \A j : Letters(j)' = IF j = d.job THEN Letters(j) \cup {n} ELSE Letters(j)
  BY <1>3 DEF Letters
<1> QED BY <1>3, <1>4

\* The messages of m's job lead up to m, and it has no dead letter yet.
Follows(m) ==
  /\ stream' = Append(stream, m) /\ dead' = dead
  /\ \A k \in Entries(m.job) : stream[k].attempt <= m.attempt
  /\ Entries(m.job) = {} \/ Carriers(m.job) # {}

\* A retry comes after its failed attempt, and after all others.
LEMMA RetryFollows ==
  ASSUME NoSecondCopy, CleanInv, NEW w \in Workers, Republish(w), stream' # stream
  PROVE  \E m \in Message :
           Follows(m) /\ m.job = JobOf(w) /\ m.attempt = Held(w).attempt + 1
<1>1. TypeInv /\ NewestCarries BY DEF CleanInv, RetryInv, MessageInv
<1>2. pc[w] \notin Settling \cup {"idle"} BY DEF Republish, Settling, AckPcs
<1>3. /\ msg[w] \in Carriers(JobOf(w)) /\ JobOf(w) \in Jobs /\ Held(w) \in Message
  BY <1>1, <1>2, HolderCarries, HeldMessage
<1>4. SUFFICES ASSUME NEW m \in Message, m.job = JobOf(w),
                      m.attempt = Held(w).attempt + 1,
                      m = [job |-> JobOf(w), attempt |-> Held(w).attempt + 1]
               PROVE  Follows(m)
  <2> DEFINE m == [job |-> JobOf(w), attempt |-> Held(w).attempt + 1]
  <2>1. m \in Message /\ m.job = JobOf(w) /\ m.attempt = Held(w).attempt + 1
    BY <1>3 DEF Message
  <2> QED BY <2>1
<1>5. dead' = dead /\ \E ok \in BOOLEAN : Xadd(m, ok) BY <1>4 DEF Republish
<1>6. stream' = Append(stream, m) BY <1>5 DEF Xadd
<1>7. ASSUME NEW k \in Entries(m.job) PROVE stream[k].attempt <= m.attempt
  <2>1. stream[k].attempt <= Held(w).attempt
    BY <1>1, <1>3, <1>4 DEF NewestCarries, Held
  <2>2. stream[k] \in Message BY <1>1 DEF Entries, TypeInv, TypeOK
  <2> QED BY <1>3, <1>4, <2>1, <2>2 DEF Message
<1> QED BY <1>3, <1>4, <1>5, <1>6, <1>7 DEF Follows

\* Every other entry is the first of its job.
LEMMA StreamStep ==
  ASSUME NoSecondCopy, CleanInv, [Next]_vars, stream' # stream
  PROVE  \E m \in Message : m.job \in Jobs /\ Follows(m)
<1>1. TypeInv /\ Unpublished BY DEF CleanInv, RetryInv
<1>2. ASSUME NEW j \in Jobs, PublishFirst(j)
      PROVE  \E m \in Message : m.job \in Jobs /\ Follows(m)
  <2>1. SUFFICES ASSUME NEW m \in Message, m.job = j, m = [job |-> j, attempt |-> 0]
                 PROVE  Follows(m)
    <3> DEFINE m == [job |-> j, attempt |-> 0]
    <3>1. m \in Message /\ m.job = j BY DEF Message
    <3> QED BY <3>1
  <2>2. dead' = dead /\ \E ok \in BOOLEAN : Xadd(m, ok) BY <1>2, <2>1 DEF PublishFirst
  <2>3. stream' = Append(stream, m) BY <2>2 DEF Xadd
  <2>4. Entries(j) = {} BY <1>1, <1>2 DEF PublishFirst, Unpublished
  <2> QED BY <2>1, <2>2, <2>3, <2>4 DEF Follows
<1>3. ASSUME NEW w \in Workers, Republish(w)
      PROVE  \E m \in Message : m.job \in Jobs /\ Follows(m)
  BY <1>3, RetryFollows DEF Message
<1> QED
  BY <1>2, <1>3
  DEF Next, Request, SaveJob, CheckBacklog, WorkerStep, Consume, ConsumePending,
      ConsumeFresh, ConsumeNothing, Process, LookUp, MarkRunning, StampStarted,
      Analyze, SaveAnalysis, MarkCompleted, StampCompleted, Settle, Requeue,
      MarkFailed, StampFailed, PublishDeadLetter, Ack, Crash, vars

\* A worker's dead letter repeats the attempt in its hand, and then only the XACK is
\* left.
Buries(w, d) ==
  /\ PublishDeadLetter(w) /\ dead' = Append(dead, d)
  /\ d.job = JobOf(w) /\ d.attempt = Held(w).attempt
  /\ pc'[w] = "ackDead" /\ UNCHANGED <<msg, stream, status>>

LEMMA DeadStep ==
  ASSUME NoSecondCopy, TypeInv, [Next]_vars, dead' # dead
  PROVE  \E w \in Workers, d \in DeadLetter : Buries(w, d)
<1>1. PICK w \in Workers : PublishDeadLetter(w)
  BY DEF Next, Request, SaveJob, CheckBacklog, PublishFirst, WorkerStep, Consume,
         ConsumePending, ConsumeFresh, ConsumeNothing, Process, LookUp, MarkRunning,
         StampStarted, Analyze, SaveAnalysis, MarkCompleted, StampCompleted, Settle,
         Requeue, Republish, MarkFailed, StampFailed, Ack, Crash, vars
<1>2. pc[w] = "deadLetter" /\ Held(w) \in Message /\ msg[w] \in Nat /\ reason[w] \in Reasons
  BY <1>1, HeldMessage DEF PublishDeadLetter, TypeInv, ReasonGiven, TypeOK
<1>3. SUFFICES ASSUME NEW d \in DeadLetter, d.job = JobOf(w), d.attempt = Held(w).attempt,
                      d = [job |-> JobOf(w), attempt |-> Held(w).attempt,
                           id |-> msg[w], reason |-> reason[w]]
               PROVE  Buries(w, d)
  <2> DEFINE d == [job |-> JobOf(w), attempt |-> Held(w).attempt, id |-> msg[w],
                   reason |-> reason[w]]
  <2>1. JobOf(w) \in Jobs /\ Held(w).attempt \in Nat BY <1>2 DEF Message, JobOf
  <2>2. d \in DeadLetter /\ d.job = JobOf(w) /\ d.attempt = Held(w).attempt
    BY <1>2, <2>1 DEF DeadLetter
  <2> QED BY <2>2
<1>4. PICK ok \in BOOLEAN :
        /\ XaddDead(d, ok)
        /\ IF ok THEN Goto(w, "ackDead") /\ UNCHANGED <<msg, reason>> ELSE Release(w)
  BY <1>1, <1>3 DEF PublishDeadLetter
<1>5. ok /\ dead' = Append(dead, d) BY <1>4 DEF XaddDead, Fault, NoSecondCopy
<1>6. pc'[w] = "ackDead" /\ msg' = msg BY <1>4, <1>5 DEF Goto, TypeInv, TypeOK
<1>7. UNCHANGED <<stream, status>> BY <1>1 DEF PublishDeadLetter, store
<1> QED BY <1>1, <1>3, <1>5, <1>6, <1>7 DEF Buries

\* No step makes a carrier of an old entry.
LEMMA CarriersShrink ==
  ASSUME NoSecondCopy, TypeInv, [Next]_vars, NEW j \in Jobs, NEW i \in Carriers(j)',
         i \in DOMAIN stream
  PROVE  i \in Carriers(j)
<1>1. Grows BY StepGrows
<1>2. CASE UNCHANGED <<pc, msg, pel, delivered>>
  <2>1. i \in Entries(j) /\ i \in 1 .. Len(stream)
    BY <1>1 DEF Carriers, Entries, Grows, TypeInv, TypeOK
  <2>2. i \in Unacked
    BY <1>2, <2>1 DEF Carriers, Unacked, TypeInv, TypeOK
  <2> QED BY <1>2, <2>1, <2>2 DEF Carriers, BeingSettled
<1>3. CASE Crash
  BY <1>3 DEF Crash, NoSecondCopy, TypeInv, TypeOK
<1> QED
  BY <1>1, <1>2, <1>3, NoNewCarrier
  DEF Next, Request, SaveJob, CheckBacklog, PublishFirst, group, worker, vars

LEMMA LetterInit == Init => LetterInv
BY DEF Init, LetterInv, InOrder, HasLast, LastWord, Letters, Entries

\* A message that follows keeps its job in order, and leaves the others alone.
LEMMA FollowsStep ==
  ASSUME NoSecondCopy, CleanInv, LetterInv, [Next]_vars,
         NEW m \in Message, Follows(m)
  PROVE  LetterInv'
<1>1. TypeInv /\ m.job \in Jobs BY DEF CleanInv, RetryInv, Message
<1>2. PICK n \in Nat :
        /\ \A j : Entries(j)' = IF j = m.job THEN Entries(j) \cup {n} ELSE Entries(j)
        /\ \A j : \A i \in Entries(j) : i < n /\ stream'[i] = stream[i]
        /\ stream'[n] = m /\ n \notin DOMAIN stream
        /\ \A i \in DOMAIN stream : i \in Nat
  BY <1>1, EntryAdded, Zenon DEF Follows
<1>3. \A j : \A i \in Entries(j) : i \in Nat BY <1>2 DEF Entries
<1>4. InOrder'
  <2>1. SUFFICES ASSUME NEW j \in Jobs, NEW i \in Entries(j)', NEW k \in Entries(j)',
                        i <= k
                 PROVE  stream'[i].attempt <= stream'[k].attempt
    BY DEF InOrder
  <2>2. CASE i \in Entries(j) /\ k \in Entries(j)
    BY <1>2, <2>1, <2>2 DEF LetterInv, InOrder
  <2>3. CASE i \in Entries(j) /\ k = n
    <3>1. \/ j = m.job
          \/ k \in Entries(j)
      BY <1>2, <2>1
    <3> QED BY <1>2, <2>1, <2>2, <2>3, <3>1 DEF Follows
  <2>4. CASE i = n /\ k = n
    BY <1>2, <2>4 DEF Message
  <2>5. CASE i = n /\ k \in Entries(j)
    BY <1>2, <1>3, <2>1, <2>5
  <2>6. i \in Entries(j) \cup {n} /\ k \in Entries(j) \cup {n} BY <1>2, <2>1
  <2> QED BY <2>2, <2>3, <2>4, <2>5, <2>6
<1>5. ASSUME NEW j \in Jobs PROVE HasLast(Entries(j))'
  <2>1. CASE j = m.job
    <3>1. n \in Entries(j)' /\ \A k \in Entries(j)' : k <= n
      BY <1>2, <1>3, <2>1
    <3> QED BY <3>1 DEF HasLast
  <2>2. CASE j # m.job
    BY <1>2, <2>2 DEF LetterInv, HasLast
  <2> QED BY <2>1, <2>2
<1>6. ASSUME NEW j \in Jobs PROVE LastWord(j)'
  <2>1. Letters(j)' = Letters(j) BY DEF Follows, Letters
  <2>2. CASE Letters(j) # {}
    <3>1. Carriers(j) = {} /\ Entries(j) # {} /\ \A i, k \in Letters(j) : i = k
      BY <2>2 DEF LetterInv, LastWord
    <3>2. j # m.job BY <3>1 DEF Follows
    <3>3. Entries(j)' = Entries(j) BY <1>2, <3>2
    <3>4. Carriers(j)' = {}
      BY <1>1, <3>1, <3>3, CarriersShrink DEF Carriers, Entries
    <3> QED BY <2>1, <3>1, <3>3, <3>4 DEF LastWord
  <2> QED BY <2>1, <2>2 DEF LastWord
<1> QED BY <1>4, <1>5, <1>6 DEF LetterInv

\* A job that is buried had its message in the hand of the worker, and no letter.
LEMMA BuriesFirst ==
  ASSUME NoSecondCopy, CleanInv, LetterInv, NEW w \in Workers, NEW d \in DeadLetter,
         Buries(w, d)
  PROVE  /\ d.job \in Jobs /\ msg[w] \in Carriers(d.job) /\ Letters(d.job) = {}
         /\ \A k \in Entries(d.job) : stream[k].attempt <= d.attempt
<1>1. TypeInv /\ NewestCarries BY DEF CleanInv, RetryInv, MessageInv
<1>2. pc[w] \notin Settling \cup {"idle"}
  BY DEF Buries, PublishDeadLetter, Settling, AckPcs
<1>3. msg[w] \in Carriers(d.job) /\ d.job \in Jobs
  BY <1>1, <1>2, HolderCarries, HeldMessage DEF Buries
<1> QED BY <1>1, <1>3 DEF Buries, LetterInv, LastWord, NewestCarries, Held

LEMMA LetterStep ==
  NoSecondCopy /\ CleanInv /\ LetterInv /\ [Next]_vars => LetterInv'
<1> SUFFICES ASSUME NoSecondCopy, CleanInv, LetterInv, [Next]_vars PROVE LetterInv'
  OBVIOUS
<1>1. TypeInv BY DEF CleanInv, RetryInv
<1>2. CASE stream' # stream
  BY <1>2, StreamStep, FollowsStep
<1>3. CASE stream' = stream
  <2>1. \A j : Entries(j)' = Entries(j) BY <1>3 DEF Entries
  <2>2. ASSUME NEW j \in Jobs PROVE Carriers(j)' \subseteq Carriers(j)
    <3>1. ASSUME NEW i \in Carriers(j)' PROVE i \in DOMAIN stream
      BY <2>1, <3>1 DEF Carriers, Entries
    <3> QED BY <1>1, <3>1, CarriersShrink
  <2>3. InOrder' /\ \A j \in Jobs : HasLast(Entries(j))'
    BY <1>3, <2>1 DEF LetterInv, InOrder, HasLast
  <2>4. CASE dead' = dead
    <3>1. \A j : Letters(j)' = Letters(j) BY <2>4 DEF Letters
    <3>2. \A j \in Jobs : LastWord(j)' BY <2>1, <2>2, <3>1 DEF LetterInv, LastWord
    <3> QED BY <2>3, <3>2 DEF LetterInv
  <2>5. CASE dead' # dead
    <3>1. PICK w \in Workers, d \in DeadLetter : Buries(w, d) BY <1>1, <2>5, DeadStep
    <3>2. PICK n : \A j : Letters(j)' = IF j = d.job THEN Letters(j) \cup {n} ELSE Letters(j)
      BY <1>1, <3>1, LetterAdded DEF Buries
    <3>3. /\ d.job \in Jobs /\ msg[w] \in Carriers(d.job) /\ Letters(d.job) = {}
      BY <3>1, BuriesFirst
    <3>4. msg[w] \notin Carriers(d.job)'
      BY <3>1 DEF Buries, Carriers, BeingSettled, Settling, AckPcs
    <3>5. \A i, k \in Carriers(d.job) : i = k
      BY <3>3 DEF CleanInv, MessageInv, OneMessage
    <3>6. Carriers(d.job)' = {} BY <2>2, <3>3, <3>4, <3>5
    <3>7. Entries(d.job)' # {} BY <2>1, <3>3 DEF Carriers
    <3>8. ASSUME NEW j \in Jobs PROVE LastWord(j)'
      <4>1. CASE j = d.job BY <3>2, <3>3, <3>6, <3>7, <4>1 DEF LastWord
      <4>2. CASE j # d.job BY <2>1, <2>2, <3>2, <4>2 DEF LetterInv, LastWord
      <4> QED BY <4>1, <4>2
    <3> QED BY <2>3, <3>8 DEF LetterInv
  <2> QED BY <2>4, <2>5
<1> QED BY <1>2, <1>3

-----------------------------------------------------------------------------
(* What a request is told of the messages *)

LEMMA NewestIs ==
  ASSUME NEW S \in SUBSET Nat, NEW a \in S, \A b \in S : b <= a
  PROVE  Newest(S) = a
<1>1. \E c \in S : \A b \in S : b <= c OBVIOUS
<1>2. Newest(S) \in S /\ \A b \in S : b <= Newest(S) BY <1>1 DEF Newest
<1>3. Newest(S) <= a /\ a <= Newest(S) BY <1>2
<1>4. Newest(S) \in Nat /\ a \in Nat BY <1>2
<1> QED BY <1>3, <1>4

\* The snapshot as a function of what is read.
Snapshot(letters, entries, letter, message, owner) ==
  IF letters # {}
  THEN [known |-> TRUE, dead |-> TRUE, attempt |-> letter.attempt,
        reason |-> letter.reason, consumer |-> {}]
  ELSE IF entries # {}
  THEN [known |-> TRUE, dead |-> FALSE, attempt |-> message.attempt,
        reason |-> "none", consumer |-> owner]
  ELSE NoDispatch

LEMMA SnapshotIs ==
  ASSUME NEW letters, NEW entries, NEW letter, NEW message, NEW owner
  PROVE  LET told == Snapshot(letters, entries, letter, message, owner) IN
         /\ told.known <=> letters # {} \/ entries # {}
         /\ letters # {} => /\ told.dead /\ told.attempt = letter.attempt
                            /\ told.reason = letter.reason
         /\ letters = {} /\ entries # {} =>
              ~told.dead /\ told.reason = "none" /\ told.attempt = message.attempt
BY DEF Snapshot, NoDispatch

LEMMA DispatchIs ==
  ASSUME NEW j
  PROVE  /\ Dispatch(j) =
              Snapshot(Letters(j), Entries(j), dead[Newest(Letters(j))],
                       stream[Newest(Entries(j))], Owner(Newest(Entries(j))))
         /\ Dispatch(j)' =
              Snapshot(Letters(j)', Entries(j)', dead'[Newest(Letters(j)')],
                       stream'[Newest(Entries(j)')], Owner(Newest(Entries(j)))')
BY Zenon DEF Dispatch, Letters, Snapshot, Newest

\* The newest entry of a job has its latest attempt.
LEMMA NewestIsLatest ==
  ASSUME TypeInv, LetterInv, NEW j \in Jobs, Entries(j) # {}
  PROVE  /\ Newest(Entries(j)) \in Entries(j)
         /\ stream[Newest(Entries(j))].attempt \in Nat
         /\ stream[Newest(Entries(j))].attempt = LatestAttempt(j)
         /\ \A k \in Entries(j) :
              stream[k].attempt <= stream[Newest(Entries(j))].attempt
<1>1. PICK i \in Entries(j) : \A k \in Entries(j) : k <= i
  BY DEF LetterInv, HasLast
<1>2. \A k \in Entries(j) : k \in Nat /\ stream[k] \in Message
  BY DEF Entries, TypeInv, TypeOK
<1>3. Newest(Entries(j)) = i BY <1>1, <1>2, NewestIs
<1>4. \A k \in Entries(j) : stream[k].attempt <= stream[i].attempt
  BY <1>1 DEF LetterInv, InOrder
<1>5. \A k \in Entries(j) : stream[k].attempt \in Nat BY <1>2 DEF Message
<1>6. stream[i].attempt \in Attempts(j) /\ \A b \in Attempts(j) : b <= stream[i].attempt
  BY <1>4, <1>5 DEF Attempts
<1>7. stream[i].attempt = LatestAttempt(j)
  BY <1>6, AttemptsAreNumbers, HighestIs, LatestIsHighest
<1> QED BY <1>3, <1>4, <1>5, <1>7

LEMMA NewestLetter ==
  ASSUME TypeInv, LetterInv, NEW j \in Jobs, Letters(j) # {}
  PROVE  /\ Newest(Letters(j)) \in Letters(j)
         /\ Newest(Letters(j)) \in DOMAIN dead
         /\ dead[Newest(Letters(j))].attempt \in Nat
<1>1. PICK i \in Letters(j) : Letters(j) = {i} BY DEF LetterInv, LastWord
<1>2. i \in Nat /\ i \in DOMAIN dead /\ dead[i] \in DeadLetter
  BY DEF Letters, TypeInv, TypeOK
<1>3. Newest(Letters(j)) = i BY <1>1, <1>2, NewestIs
<1> QED BY <1>2, <1>3 DEF DeadLetter

\* What a request is told next, given what the one before it was told.
Later(now, next) ==
  now.known =>
    next.known /\ next.attempt >= now.attempt /\ (now.dead => next.dead)

\* The message that follows is told instead of those before it.
LEMMA FollowsLater ==
  ASSUME TypeInv, LetterInv, NEW m \in Message, Follows(m), NEW j \in Jobs
  PROVE  Later(Dispatch(j), Dispatch(j)')
<1>1. PICK n \in Nat :
        /\ \A k : Entries(k)' = IF k = m.job THEN Entries(k) \cup {n} ELSE Entries(k)
        /\ \A k : \A i \in Entries(k) : i < n /\ stream'[i] = stream[i]
        /\ stream'[n] = m
        /\ \A i \in DOMAIN stream : i \in Nat
  BY EntryAdded, Zenon DEF Follows
<1>2. Entries(j) \subseteq Nat BY <1>1 DEF Entries
<1>3. Letters(j)' = Letters(j) /\ dead' = dead BY DEF Follows, Letters
<1>4. CASE Letters(j) # {}
  BY <1>3, <1>4, DispatchIs, SnapshotIs, NewestLetter DEF Later
<1>5. CASE Letters(j) = {} /\ Entries(j) = {}
  <2>1. ~Dispatch(j).known BY <1>5, DispatchIs, SnapshotIs
  <2> QED BY <2>1 DEF Later
<1>6. CASE Letters(j) = {} /\ Entries(j) # {} /\ j # m.job
  <2>1. Entries(j)' = Entries(j) /\ stream'[Newest(Entries(j))] = stream[Newest(Entries(j))]
    BY <1>1, <1>6, NewestIsLatest
  <2> QED BY <1>3, <1>6, <2>1, DispatchIs, SnapshotIs, NewestIsLatest DEF Later
<1>7. CASE Letters(j) = {} /\ Entries(j) # {} /\ j = m.job
  <2>1. Entries(j)' = Entries(j) \cup {n} /\ \A i \in Entries(j)' : i <= n
    BY <1>1, <1>2, <1>7
  <2>2. Newest(Entries(j)') = n BY <1>2, <2>1, NewestIs
  <2>3. stream[Newest(Entries(j))].attempt <= m.attempt
    BY <1>7, NewestIsLatest DEF Follows
  <2>4. Dispatch(j)'.known /\ Dispatch(j)'.attempt = m.attempt
    <3>1. Letters(j)' = {} /\ Entries(j)' # {} BY <1>3, <1>7, <2>1
    <3>2. stream'[Newest(Entries(j)')] = m BY <1>1, <2>2
    <3>3. PICK letter, owner :
            Dispatch(j)' = Snapshot(Letters(j)', Entries(j)', letter, m, owner)
      BY <3>2, DispatchIs, Zenon
    <3> QED BY <3>1, <3>3, SnapshotIs
  <2>5. ~Dispatch(j).dead /\ Dispatch(j).attempt = stream[Newest(Entries(j))].attempt
    BY <1>7, DispatchIs, SnapshotIs
  <2>6. m.attempt \in Nat /\ stream[Newest(Entries(j))].attempt \in Nat
    BY <1>7, NewestIsLatest DEF Message
  <2> QED BY <2>3, <2>4, <2>5, <2>6 DEF Later
<1> QED BY <1>4, <1>5, <1>6, <1>7

\* The dead letter is told instead of the messages.
LEMMA BuriesLater ==
  ASSUME NoSecondCopy, CleanInv, LetterInv, NEW w \in Workers, NEW d \in DeadLetter,
         Buries(w, d), NEW j \in Jobs
  PROVE  Later(Dispatch(j), Dispatch(j)')
<1>1. TypeInv BY DEF CleanInv, RetryInv
<1>2. PICK n \in Nat :
        /\ \A k : Letters(k)' = IF k = d.job THEN Letters(k) \cup {n} ELSE Letters(k)
        /\ \A i \in DOMAIN dead : dead'[i] = dead[i]
        /\ dead'[n] = d
  BY <1>1, LetterAdded DEF Buries
<1>3. Entries(j)' = Entries(j) /\ stream' = stream BY DEF Buries, Entries
<1>4. CASE j # d.job /\ Letters(j) # {}
  <2>1. Letters(j)' = Letters(j) /\ dead'[Newest(Letters(j))] = dead[Newest(Letters(j))]
    BY <1>1, <1>2, <1>4, NewestLetter
  <2> QED BY <1>1, <1>4, <2>1, DispatchIs, SnapshotIs, NewestLetter DEF Later
<1>5. CASE j # d.job /\ Letters(j) = {}
  <2>1. Letters(j)' = {} BY <1>2, <1>5
  <2> QED BY <1>1, <1>3, <1>5, <2>1, DispatchIs, SnapshotIs, NewestIsLatest DEF Later
<1>6. CASE j = d.job
  <2>1. /\ Letters(j) = {} /\ Entries(j) # {}
        /\ \A k \in Entries(j) : stream[k].attempt <= d.attempt
    BY <1>6, BuriesFirst DEF Carriers
  <2>2. Letters(j)' = {n} /\ Newest({n}) = n BY <1>2, <1>6, <2>1, NewestIs
  <2>3. Dispatch(j)'.known /\ Dispatch(j)'.dead /\ Dispatch(j)'.attempt = d.attempt
    <3>1. Letters(j)' # {} BY <2>2
    <3>2. dead'[Newest(Letters(j)')] = d BY <1>2, <2>2
    <3>3. PICK message, owner :
            Dispatch(j)' = Snapshot(Letters(j)', Entries(j)', d, message, owner)
      BY <3>2, DispatchIs, Zenon
    <3> QED BY <3>1, <3>3, SnapshotIs
  <2>4. /\ Dispatch(j).attempt = stream[Newest(Entries(j))].attempt
        /\ Dispatch(j).attempt <= d.attempt /\ Dispatch(j).attempt \in Nat
    BY <1>1, <2>1, DispatchIs, SnapshotIs, NewestIsLatest
  <2>5. d.attempt \in Nat BY DEF DeadLetter
  <2> QED BY <2>3, <2>4, <2>5 DEF Later
<1> QED BY <1>4, <1>5, <1>6

LEMMA AdvanceStep ==
  ASSUME NoSecondCopy, CleanInv, LetterInv, [Next]_vars,
         <<stream, dead>>' # <<stream, dead>>, NEW j \in Jobs
  PROVE  Later(Dispatch(j), Dispatch(j)')
<1>1. TypeInv BY DEF CleanInv, RetryInv
<1>2. CASE stream' # stream
  BY <1>1, <1>2, StreamStep, FollowsLater
<1>3. CASE dead' # dead
  BY <1>1, <1>3, DeadStep, BuriesLater
<1> QED BY <1>2, <1>3

LEMMA LettersAlways ==
  ASSUME NoSecondCopy
  PROVE  Spec => [](CleanInv /\ LetterInv)
BY CleanInit, CleanStep, LetterInit, LetterStep, PTL DEF Spec

\* While no failure leaves a second copy of a message, the page of a job only moves on:
\* no request is told an earlier attempt than the one before it, no dead letter goes
\* away, for any number of jobs, workers and retries (getJobDispatchSnapshot).
THEOREM PageAdvances ==
  ASSUME NoSecondCopy
  PROVE  WatchSpec => AnswersAdvance
<1>1. CleanInv /\ LetterInv /\ [WatchNext]_watch =>
        [<<stream, dead>>' # <<stream, dead>> =>
           LET now == Dispatch(Watched)  next == Dispatch(Watched)' IN
           now.known =>
             next.known /\ next.attempt >= now.attempt /\ (now.dead => next.dead)]_watch
  BY WatchStep, AdvanceStep, MonitoringAssumption DEF Later
<1> QED BY <1>1, LettersAlways, WatchedPipeline, PTL DEF WatchSpec, AnswersAdvance

-----------------------------------------------------------------------------
(* What the page says of the row and the messages together *)

\* Where the pipeline is when nobody is misled about its calls.
ClearInv == CleanInv /\ RowsInv /\ LetterInv

LEMMA ClearStep ==
  NoSecondCopy /\ WritesAreKnown /\ ClearInv /\ [Next]_vars => ClearInv'
BY CleanStep, RowsStep, LetterStep DEF ClearInv

\* A job becomes COMPLETED in the hand of the worker that goes on to stamp it.
LEMMA CompletedBy ==
  ASSUME WritesAreKnown, NoSecondCopy, CleanInv, RowsInv, [Next]_vars, NEW j \in Jobs,
         status'[j] = "COMPLETED", status[j] # "COMPLETED"
  PROVE  \E w \in Workers :
           /\ MarkCompleted(w) /\ JobOf(w) = j /\ status[j] = "RUNNING"
           /\ status' = [status EXCEPT ![j] = "COMPLETED"]
           /\ pc' = [pc EXCEPT ![w] = "stampCompleted"]
<1>1. TypeInv /\ status \in [Jobs -> Status \cup {"absent"}]
  BY DEF CleanInv, RetryInv, TypeInv, TypeOK, Rows
<1>2. ASSUME NEW i, NEW s \in Status \ {"COMPLETED"}, NEW ok, UpdateStatus(i, s, ok)
      PROVE  FALSE
  <2>1. status' = status \/ status' = Written(i, s) BY <1>2 DEF UpdateStatus
  <2>2. Written(i, s)[j] \in {status[j], s, "absent"} BY <1>1 DEF Written
  <2> QED BY <1>2, <2>1, <2>2
<1>3. status' # status OBVIOUS
<1>4. PICK w \in Workers : MarkCompleted(w)
  <2>1. ASSUME NEW i \in Jobs, SaveJob(i) PROVE FALSE
    BY <1>1, <2>1 DEF SaveJob
  <2>2. ASSUME NEW w \in Workers, MarkRunning(w) \/ Requeue(w) \/ MarkFailed(w)
        PROVE  FALSE
    <3>1. \E s \in Status \ {"COMPLETED"}, ok \in BOOLEAN : UpdateStatus(JobOf(w), s, ok)
      BY <2>2 DEF MarkRunning, Requeue, MarkFailed, Status
    <3> QED BY <1>2, <3>1
  <2>3. CASE Crash
    BY <1>1, <2>3 DEF Crash, NoSecondCopy, TypeInv, TypeOK
  <2> QED
    BY <1>3, <2>1, <2>2, <2>3
    DEF Next, Request, CheckBacklog, PublishFirst, WorkerStep, Consume, ConsumePending,
        ConsumeFresh, ConsumeNothing, Process, LookUp, StampStarted, Analyze,
        SaveAnalysis, StampCompleted, Settle, Republish, StampFailed,
        PublishDeadLetter, Ack, vars, store
<1>5. pc[w] = "markCompleted" /\ JobOf(w) \in Jobs
  BY <1>1, <1>4, HeldMessage DEF MarkCompleted
<1>6. SUFFICES ASSUME NEW J \in Jobs, J = JobOf(w)
               PROVE  /\ J = j /\ status[j] = "RUNNING"
                      /\ status' = [status EXCEPT ![j] = "COMPLETED"]
                      /\ pc' = [pc EXCEPT ![w] = "stampCompleted"]
  BY <1>4, <1>5
<1>7. status[J] = "RUNNING"
  BY <1>5, <1>6 DEF RowsInv, RowAsExpected, Relying, Expected
<1>8. PICK ok \in BOOLEAN :
        /\ UpdateStatus(J, "COMPLETED", ok)
        /\ IF ok THEN Goto(w, "stampCompleted") /\ UNCHANGED reason ELSE Fail(w, TRUE)
  BY <1>4, <1>6 DEF MarkCompleted
<1>9. /\ status' = status \/ status' = [status EXCEPT ![J] = "COMPLETED"]
      /\ ~ok => status' = status
  BY <1>1, <1>7, <1>8, WriteLeaves DEF Status
<1>10. ok /\ status' = [status EXCEPT ![J] = "COMPLETED"] BY <1>3, <1>9
<1>11. J = j BY <1>1, <1>10
<1> QED BY <1>7, <1>8, <1>10, <1>11 DEF Goto

\* No job is both COMPLETED and given up.
NeverBoth == \A j \in Jobs : status[j] = "COMPLETED" => Letters(j) = {}

LEMMA NeverBothStep ==
  ASSUME NoSecondCopy, WritesAreKnown, ClearInv, NeverBoth, [Next]_vars
  PROVE  NeverBoth'
<1>1. TypeInv /\ CleanInv /\ RowsInv /\ LetterInv BY DEF ClearInv, CleanInv, RetryInv
<1>2. SUFFICES ASSUME NEW j \in Jobs, status'[j] = "COMPLETED" PROVE Letters(j)' = {}
  BY DEF NeverBoth
<1>3. CASE status[j] # "COMPLETED"
  <2>1. PICK w \in Workers : MarkCompleted(w) /\ JobOf(w) = j
    BY <1>1, <1>2, <1>3, CompletedBy
  <2>2. pc[w] \notin Settling \cup {"idle"}
    BY <2>1 DEF MarkCompleted, Settling, AckPcs
  <2>3. Carriers(j) # {} BY <1>1, <2>1, <2>2, HolderCarries
  <2>4. Letters(j) = {} BY <1>1, <2>3 DEF LetterInv, LastWord
  <2>5. dead' = dead BY <2>1 DEF MarkCompleted
  <2> QED BY <2>4, <2>5 DEF Letters
<1>4. CASE status[j] = "COMPLETED" /\ dead' = dead
  BY <1>4 DEF NeverBoth, Letters
<1>5. CASE status[j] = "COMPLETED" /\ dead' # dead
  <2>1. PICK w \in Workers, d \in DeadLetter : Buries(w, d) BY <1>1, <1>5, DeadStep
  <2>2. pc[w] = "deadLetter" /\ d.job = JobOf(w) BY <2>1 DEF Buries, PublishDeadLetter
  <2>3. status[d.job] \in {"QUEUED", "RUNNING", "FAILED"}
    BY <1>1, <2>2 DEF RowsInv, RowAsExpected, Relying, Expected
  <2>4. d.job # j BY <1>5, <2>3
  <2>5. Letters(j)' = Letters(j) BY <1>1, <2>1, <2>4, LetterAdded DEF Buries
  <2> QED BY <1>5, <2>5 DEF NeverBoth
<1> QED BY <1>3, <1>4, <1>5

\* The row a page has read may be old, but not once it has ended.
PageInv ==
  /\ NeverBoth
  /\ row \in Terminal => status[Watched] = row
  /\ DetailsAgree

LEMMA PageStep ==
  ASSUME NoSecondCopy, WritesAreKnown, ClearInv, PageInv, [WatchNext]_watch
  PROVE  PageInv'
<1>1. [Next]_vars /\ Watched \in Jobs /\ TypeInv
  BY WatchStep, MonitoringAssumption DEF ClearInv, CleanInv, RetryInv
<1>2. NeverBoth' BY <1>1, NeverBothStep DEF PageInv
<1>3. status[Watched] \in Terminal => status'[Watched] = status[Watched]
  BY <1>1, EndedStays DEF ClearInv
<1>4. CASE ReadDispatch
  <2>1. row' = "absent" /\ UNCHANGED <<status, stream>>
    BY <1>4 DEF ReadDispatch, vars, store
  <2>2. LatestAttempt(Watched)' = LatestAttempt(Watched)
    <3>1. Attempts(Watched)' = Attempts(Watched) BY <2>1 DEF Attempts, Entries
    <3> QED BY <3>1, LatestStays
  <2>3. PICK d \in {Dispatch(Watched), NoDispatch} :
          answer' = [status |-> row, dispatch |-> d]
    BY <1>4 DEF ReadDispatch
  <2>4. SUFFICES ASSUME d.known, d = Dispatch(Watched)
                 PROVE  /\ row = "COMPLETED" =>
                             ~d.dead /\ d.attempt = LatestAttempt(Watched)
                        /\ d.reason = "max_retry_exceeded" => d.attempt = MaxRetries
                        /\ row = "FAILED" /\ ~d.dead =>
                             d.attempt = LatestAttempt(Watched)
    <3>1. d.known => d = Dispatch(Watched) BY <2>3 DEF NoDispatch
    <3>2. answer'.status = row /\ answer'.dispatch = d BY <2>3
    <3>3. DetailsAgree'
      BY <2>2, <2>4, <3>1, <3>2 DEF DetailsAgree
    <3>4. row' \notin Terminal BY <2>1 DEF Terminal
    <3> QED BY <1>2, <3>3, <3>4 DEF PageInv
  <2>5. CASE Letters(Watched) # {}
    <3>1. row # "COMPLETED" BY <1>1, <2>5 DEF PageInv, NeverBoth, Terminal
    <3>2. /\ d.dead /\ d.attempt = dead[Newest(Letters(Watched))].attempt
          /\ d.reason = dead[Newest(Letters(Watched))].reason
      BY <2>4, <2>5, DispatchIs, SnapshotIs
    <3>3. Newest(Letters(Watched)) \in DOMAIN dead
      BY <1>1, <2>5, NewestLetter DEF ClearInv
    <3>4. RetriesExhausted BY DEF ClearInv, CleanInv, RetryInv
    <3> QED BY <3>1, <3>2, <3>3, <3>4 DEF RetriesExhausted
  <2>6. CASE Letters(Watched) = {}
    <3>1. Entries(Watched) # {} BY <2>4, <2>6, DispatchIs, SnapshotIs
    <3>2. /\ ~d.dead /\ d.reason = "none"
          /\ d.attempt = stream[Newest(Entries(Watched))].attempt
      BY <2>4, <2>6, <3>1, DispatchIs, SnapshotIs
    <3>3. d.attempt = LatestAttempt(Watched)
      BY <1>1, <3>1, <3>2, NewestIsLatest DEF ClearInv
    <3> QED BY <3>2, <3>3
  <2> QED BY <2>5, <2>6
<1>5. CASE UNCHANGED watch
  <2>1. UNCHANGED <<row, answer, stream, status>> BY <1>5 DEF watch, shown, vars, store
  <2>2. Attempts(Watched)' = Attempts(Watched) BY <2>1 DEF Attempts, Entries
  <2>3. LatestAttempt(Watched)' = LatestAttempt(Watched) BY <2>2, LatestStays
  <2> QED BY <1>2, <2>1, <2>3 DEF PageInv, DetailsAgree
<1>6. CASE answer' = NoAnswer /\ row' \in {row, status[Watched]}
  <2>1. ~answer'.dispatch.known BY <1>6 DEF NoAnswer, NoDispatch
  <2>2. row' \in Terminal => status'[Watched] = row' BY <1>3, <1>6 DEF PageInv
  <2> QED BY <1>2, <2>1, <2>2 DEF PageInv, DetailsAgree
<1> QED
  BY <1>4, <1>5, <1>6
  DEF WatchNext, Work, LoadActive, DecrementActive, Submit, CountSubmission, ReadRow,
      NoReply

LEMMA ClearInit == Init => ClearInv
BY CleanInit, RowsInit, LetterInit DEF ClearInv

\* What the page of a job says was true together, although it is read from two stores at
\* two times: a COMPLETED job shows its last attempt and no dead letter, one given up
\* for its retries shows the last of them (handleGetJobDetails); as long as no failure
\* leaves a second copy of a message or a status written and reported as not.
THEOREM PageIsTrue ==
  ASSUME NoSecondCopy, WritesAreKnown
  PROVE  WatchSpec => []DetailsAgree
<1>1. WatchInit => ClearInv /\ PageInv
  <2> SUFFICES ASSUME WatchInit PROVE ClearInv /\ PageInv OBVIOUS
  <2>1. dead = <<>> /\ row = "absent" /\ answer = NoAnswer /\ ClearInv
    BY ClearInit DEF WatchInit, Init
  <2>2. NeverBoth BY <2>1 DEF NeverBoth, Letters
  <2>3. ~answer.dispatch.known BY <2>1 DEF NoAnswer, NoDispatch
  <2> QED BY <2>1, <2>2, <2>3 DEF PageInv, DetailsAgree, Terminal
<1>2. ClearInv /\ PageInv /\ [WatchNext]_watch => ClearInv' /\ PageInv'
  BY WatchStep, ClearStep, PageStep
<1>3. PageInv => DetailsAgree BY DEF PageInv
<1> QED BY <1>1, <1>2, <1>3, PTL DEF WatchSpec

-----------------------------------------------------------------------------
(* The totals *)

\* Whoever acknowledges learns that it was done.
AcksAreKnown == "xack_lost" \notin Faults

At(call) == {w \in Workers : pc[w] = call}

Accepted == {j \in Jobs : sub[j] = "accepted"}
Buried == {j \in Jobs : DeadLettered(j)}
Retries == {i \in DOMAIN stream : stream[i].attempt > 0}

\* The jobs whose completion has been counted: a worker counts after its last stamp.
Finished ==
  {j \in Jobs : status[j] = "COMPLETED" /\ \A w \in At("stampCompleted") : JobOf(w) # j}

\* At most one worker is about to count a job, and the job is COMPLETED.
StampInv ==
  \A w \in At("stampCompleted") :
    /\ status[JobOf(w)] = "COMPLETED"
    /\ \A v \in At("stampCompleted") : JobOf(v) = JobOf(w) => v = w

\* Each total is what has happened, less what is still to be counted.
SubmittedInv ==
  /\ uncounted \subseteq Accepted /\ IsFiniteSet(Accepted \ uncounted)
  /\ counts.submitted = Cardinality(Accepted \ uncounted)

CompletedInv ==
  StampInv /\ IsFiniteSet(Finished) /\ counts.completed = Cardinality(Finished)

BuriedInv ==
  /\ IsFiniteSet(At("ackDead")) /\ counts.failed = counts.dead
  /\ Len(dead) = counts.dead + Cardinality(At("ackDead"))

OneLetterEach == IsFiniteSet(Buried) /\ Cardinality(Buried) = Len(dead)

\* The jobs whose row and dead letter differ while no worker is about to send one.
Missed ==
  {j \in Jobs : ~(status[j] = "FAILED" <=> DeadLettered(j) \/ Pursued(j, Reporting))}

MissedInv == IsFiniteSet(Missed) /\ Cardinality(Missed) <= faults

RetriedInv ==
  /\ IsFiniteSet(At("ackRetried")) /\ IsFiniteSet(Retries)
  /\ Cardinality(Retries) = counts.retried + Cardinality(At("ackRetried"))

SameTotals ==
  /\ counts'.submitted = counts.submitted /\ counts'.completed = counts.completed
  /\ counts'.failed = counts.failed /\ counts'.retried = counts.retried
  /\ counts'.dead = counts.dead

LEMMA WatchCases ==
  ASSUME GaugeTypes, [WatchNext]_watch
  PROVE  \/ \E w \in Workers : Work(w)
         \/ \E j \in Jobs : Submit(j) \/ CountSubmission(j)
         \/ UNCHANGED <<vars, uncounted>> /\ SameTotals
<1>1. ASSUME NEW w \in Workers, DecrementActive(w)
      PROVE  UNCHANGED <<vars, uncounted>> /\ SameTotals
  BY <1>1 DEF DecrementActive, SameTotals, GaugeTypes
<1> QED
  BY <1>1 DEF WatchNext, LoadActive, ReadRow, ReadDispatch, watch, shown, SameTotals

\* Where a worker's step begins and ends tells which step it is.
LEMMA WorkIs ==
  ASSUME TypeInv, NEW w \in Workers, WorkerStep(w)
  PROVE  /\ pc[w] \in AckPcs => Ack(w)
         /\ pc[w] = "stampCompleted" => StampCompleted(w)
         /\ pc'[w] = "ackDead" => PublishDeadLetter(w)
         /\ pc'[w] = "ackRetried" => Republish(w)
         /\ pc'[w] = "stampCompleted" => MarkCompleted(w)
         /\ stream' # stream => Republish(w)
         /\ dead' # dead => PublishDeadLetter(w)
<1>1. pc \in [Workers -> Pcs] BY DEF TypeInv, TypeOK
<1>2. /\ pc[w] \in AckPcs => Ack(w)
      /\ pc[w] = "stampCompleted" => StampCompleted(w)
  BY DEF WorkerStep, Consume, ConsumePending, ConsumeFresh, ConsumeNothing, Process,
         LookUp, MarkRunning, StampStarted, Analyze, SaveAnalysis, MarkCompleted,
         StampCompleted, Settle, Requeue, Republish, MarkFailed, StampFailed,
         PublishDeadLetter, Ack, AckPcs
<1>3. /\ stream' # stream => Republish(w)
      /\ dead' # dead => PublishDeadLetter(w)
  <2>1. ASSUME Consume(w) \/ Process(w) PROVE UNCHANGED <<stream, dead>>
    BY <2>1 DEF Consume, ConsumePending, ConsumeFresh, ConsumeNothing, Process, LookUp,
                MarkRunning, StampStarted, Analyze, SaveAnalysis, MarkCompleted,
                StampCompleted, vars
  <2>2. ASSUME Settle(w), ~Republish(w) PROVE stream' = stream
    BY <2>2 DEF Settle, Requeue, MarkFailed, StampFailed, PublishDeadLetter, Ack
  <2>3. ASSUME Settle(w), ~PublishDeadLetter(w) PROVE dead' = dead
    BY <2>3 DEF Settle, Requeue, Republish, MarkFailed, StampFailed, Ack
  <2> QED BY <2>1, <2>2, <2>3 DEF WorkerStep
<1>4. /\ pc'[w] = "ackDead" => PublishDeadLetter(w)
      /\ pc'[w] = "ackRetried" => Republish(w)
      /\ pc'[w] = "stampCompleted" => MarkCompleted(w)
  <2>1. CASE Consume(w)
    BY <1>1, <2>1 DEF Consume, ConsumePending, ConsumeFresh, ConsumeNothing, Hold, Goto,
                      worker, vars
  <2>2. CASE LookUp(w)
    <3>1. pc'[w] \in {"ackUnknown", "ackTerminal", "analyze", "markRunning"}
      BY <1>1, <2>2 DEF LookUp, Goto
    <3> QED BY <3>1
  <2>3. CASE MarkRunning(w) \/ StampStarted(w) \/ Analyze(w) \/ SaveAnalysis(w)
             \/ StampCompleted(w) \/ Requeue(w) \/ MarkFailed(w) \/ StampFailed(w)
    <3>1. ASSUME NEW retryable \in BOOLEAN, Fail(w, retryable)
          PROVE  pc'[w] \in {"requeue", "markFailed"}
      BY <1>1, <3>1, FailGoes
    <3> QED
      BY <1>1, <2>3, <3>1
      DEF MarkRunning, StampStarted, Analyze, SaveAnalysis, StampCompleted, Requeue,
          MarkFailed, StampFailed, Goto
  <2>4. CASE MarkCompleted(w)
    <3>1. pc'[w] \in {"stampCompleted", "requeue", "markFailed"}
      BY <1>1, <2>4, FailGoes DEF MarkCompleted, Goto
    <3> QED BY <2>4, <3>1
  <2>5. CASE Republish(w) \/ PublishDeadLetter(w)
    <3>1. Republish(w) => pc'[w] \in {"ackRetried", "idle"}
      BY <1>1 DEF Republish, Release, Goto
    <3>2. PublishDeadLetter(w) => pc'[w] \in {"ackDead", "idle"}
      BY <1>1 DEF PublishDeadLetter, Release, Goto
    <3> QED BY <2>5, <3>1, <3>2
  <2>6. CASE Ack(w)
    BY <1>1, <2>6 DEF Ack, Release, Goto
  <2> QED
    BY <2>1, <2>2, <2>3, <2>4, <2>5, <2>6 DEF WorkerStep, Process, Settle
<1> QED BY <1>2, <1>3, <1>4

LEMMA AtMoves ==
  ASSUME TypeInv, NEW w \in Workers, Work(w), NEW call
  PROVE  At(call)' = IF pc'[w] = call THEN At(call) \cup {w} ELSE At(call) \ {w}
<1>1. PICK l : pc' = [pc EXCEPT ![w] = l] BY WorkerStepMoves DEF Work
<1> QED BY <1>1 DEF At, TypeInv, TypeOK

LEMMA AckIsDone ==
  ASSUME NoSecondCopy, AcksAreKnown, TypeInv, NEW w \in Workers, WorkerStep(w),
         pc[w] \in AckPcs
  PROVE  NoFault /\ pc'[w] = "idle"
<1>1. Ack(w) BY WorkIs
<1> QED
  BY <1>1 DEF Ack, Fault, NoSecondCopy, AcksAreKnown, Release, Goto, TypeInv, TypeOK

LEMMA SubmittedStep ==
  ASSUME TypeInv, GaugeTypes, SubmittedInv, [WatchNext]_watch
  PROVE  SubmittedInv'
<1>1. CASE UNCHANGED <<vars, uncounted>> /\ SameTotals
  BY <1>1 DEF vars, SameTotals, SubmittedInv, Accepted
<1>2. ASSUME NEW w \in Workers, Work(w) PROVE SubmittedInv'
  <2>1. UNCHANGED <<sub, uncounted>>
    BY <1>2
    DEF Work, WorkerStep, Consume, ConsumePending, ConsumeFresh, ConsumeNothing, Process,
        LookUp, MarkRunning, StampStarted, Analyze, SaveAnalysis, MarkCompleted,
        StampCompleted, Settle, Requeue, Republish, MarkFailed, StampFailed,
        PublishDeadLetter, Ack, vars
  <2>2. counts'.submitted = counts.submitted BY <1>2, CountTypes DEF Work
  <2> QED BY <2>1, <2>2 DEF SubmittedInv, Accepted
<1>3. ASSUME NEW j \in Jobs, Submit(j) PROVE SubmittedInv'
  <2>1. /\ \A k \in Jobs : k # j => sub'[k] = sub[k]
        /\ sub[j] # "accepted" /\ counts' = counts
    BY <1>3 DEF Submit, Request, SaveJob, CheckBacklog, PublishFirst, TypeInv, TypeOK
  <2>2. /\ Accepted' = IF sub'[j] = "accepted" THEN Accepted \cup {j} ELSE Accepted
        /\ uncounted' = IF sub'[j] = "accepted" THEN uncounted \cup {j} ELSE uncounted
        /\ j \notin Accepted
    BY <1>3, <2>1 DEF Submit, Accepted
  <2>3. Accepted' \ uncounted' = Accepted \ uncounted BY <2>2 DEF SubmittedInv
  <2> QED BY <2>1, <2>2, <2>3 DEF SubmittedInv
<1>4. ASSUME NEW j \in Jobs, CountSubmission(j) PROVE SubmittedInv'
  <2>1. /\ j \in uncounted /\ uncounted' = uncounted \ {j} /\ Accepted' = Accepted
        /\ counts' = [counts EXCEPT !.submitted = @ + 1]
    BY <1>4 DEF CountSubmission, Accepted, vars
  <2>2. counts'.submitted = counts.submitted + 1 BY <2>1 DEF GaugeTypes
  <2>3. /\ Accepted' \ uncounted' = (Accepted \ uncounted) \cup {j}
        /\ j \notin Accepted \ uncounted
    BY <2>1 DEF SubmittedInv
  <2>4. /\ IsFiniteSet(Accepted' \ uncounted')
        /\ Cardinality(Accepted' \ uncounted') = Cardinality(Accepted \ uncounted) + 1
    BY <2>3, FS_AddElement DEF SubmittedInv
  <2> QED BY <2>1, <2>2, <2>4 DEF SubmittedInv
<1> QED BY <1>1, <1>2, <1>3, <1>4, WatchCases

\* The requests: no letter, no row that ends, no worker, no message but a first one.
LEMMA SubmitQuiet ==
  ASSUME TypeInv, GaugeTypes, NEW j \in Jobs, Submit(j) \/ CountSubmission(j)
  PROVE  /\ UNCHANGED <<dead, pc, msg>>
         /\ counts'.completed = counts.completed /\ counts'.failed = counts.failed
         /\ counts'.retried = counts.retried /\ counts'.dead = counts.dead
         /\ stream' = stream \/ \E m \in Message : stream' = Append(stream, m) /\ m.attempt = 0
         /\ \A k \in Jobs :
              status'[k] = status[k] \/ (sub[k] = "new" /\ status'[k] = "QUEUED")
<1>1. CASE CountSubmission(j)
  <2>1. UNCHANGED <<dead, pc, msg, stream, status>>
    BY <1>1 DEF CountSubmission, vars, worker, store
  <2>2. counts' = [counts EXCEPT !.submitted = @ + 1] BY <1>1 DEF CountSubmission
  <2> QED BY <2>1, <2>2 DEF GaugeTypes
<1>2. CASE Submit(j)
  <2>1. UNCHANGED <<dead, pc, msg, counts>>
    BY <1>2 DEF Submit, Request, SaveJob, CheckBacklog, PublishFirst, worker
  <2>2. stream' = stream \/ \E m \in Message : stream' = Append(stream, m) /\ m.attempt = 0
    <3> DEFINE m == [job |-> j, attempt |-> 0]
    <3>1. m \in Message /\ m.attempt = 0 BY DEF Message
    <3>2. stream' = stream \/ \E ok \in BOOLEAN : Xadd(m, ok)
      BY <1>2 DEF Submit, Request, SaveJob, CheckBacklog, PublishFirst
    <3> HIDE DEF m
    <3> QED BY <3>1, <3>2 DEF Xadd
  <2>3. \A k \in Jobs :
          status'[k] = status[k] \/ (sub[k] = "new" /\ status'[k] = "QUEUED")
    <3>1. status \in [Jobs -> Status \cup {"absent"}] BY DEF TypeInv, TypeOK, Rows
    <3>2. CASE SaveJob(j) BY <3>1, <3>2 DEF SaveJob
    <3>3. CASE CheckBacklog(j) \/ PublishFirst(j)
      BY <3>3 DEF CheckBacklog, PublishFirst, store
    <3> QED BY <1>2, <3>2, <3>3 DEF Submit, Request
  <2> QED BY <2>1, <2>2, <2>3
<1> QED BY <1>1, <1>2

LEMMA BuriedStep ==
  ASSUME NoSecondCopy, AcksAreKnown, TypeInv, GaugeTypes, BuriedInv, [WatchNext]_watch
  PROVE  BuriedInv'
<1>0. dead \in Seq(DeadLetter) /\ counts.dead \in Nat BY DEF TypeInv, TypeOK, GaugeTypes
<1>1. CASE UNCHANGED <<vars, uncounted>> /\ SameTotals
  BY <1>1 DEF vars, worker, SameTotals, BuriedInv, At
<1>2. ASSUME NEW j \in Jobs, Submit(j) \/ CountSubmission(j) PROVE BuriedInv'
  BY <1>2, SubmitQuiet DEF BuriedInv, At
<1>3. ASSUME NEW w \in Workers, Work(w) PROVE BuriedInv'
  <2>1. WorkerStep(w) BY <1>3 DEF Work
  <2>2. /\ counts'.failed = counts.failed + One(Acked(w, "ackDead"))
        /\ counts'.dead = counts.dead + One(Acked(w, "ackDead"))
    BY <1>3, CountTypes DEF Work
  <2>3. At("ackDead")' =
          IF pc'[w] = "ackDead" THEN At("ackDead") \cup {w} ELSE At("ackDead") \ {w}
    BY <1>3, AtMoves
  <2>4. CASE pc[w] = "ackDead"
    <3>1. NoFault /\ pc'[w] = "idle" BY <2>1, <2>4, AckIsDone DEF AckPcs
    <3>2. dead' = dead BY <2>1, <2>4, WorkIs DEF PublishDeadLetter
    <3>3. counts'.dead = counts.dead + 1 /\ counts'.failed = counts.failed + 1
      BY <2>2, <2>4, <3>1 DEF Acked, One
    <3>4. w \in At("ackDead") /\ At("ackDead")' = At("ackDead") \ {w}
      BY <2>3, <2>4, <3>1 DEF At
    <3>5. /\ IsFiniteSet(At("ackDead")')
          /\ Cardinality(At("ackDead")') = Cardinality(At("ackDead")) - 1
      BY <3>4, FS_RemoveElement DEF BuriedInv
    <3>6. Cardinality(At("ackDead")) \in Nat BY FS_CardinalityType DEF BuriedInv
    <3> QED BY <1>0, <3>2, <3>3, <3>5, <3>6 DEF BuriedInv
  <2>5. CASE pc[w] # "ackDead" /\ dead' = dead
    <3>1. pc'[w] # "ackDead"
      <4>1. ASSUME PublishDeadLetter(w), pc'[w] = "ackDead" PROVE FALSE
        <5> DEFINE d == [job |-> JobOf(w), attempt |-> Held(w).attempt,
                         id |-> msg[w], reason |-> reason[w]]
        <5>1. PICK ok \in BOOLEAN : XaddDead(d, ok) /\ (~ok => Release(w))
          BY <4>1 DEF PublishDeadLetter
        <5>2. ok BY <4>1, <5>1 DEF Release, Goto, TypeInv, TypeOK
        <5> HIDE DEF d
        <5>3. dead' = Append(dead, d) BY <5>1, <5>2 DEF XaddDead
        <5>4. Len(dead') = Len(dead) + 1 BY <1>0, <5>3
        <5> QED BY <1>0, <2>5, <5>4
      <4> QED BY <2>1, <4>1, WorkIs
    <3>2. At("ackDead")' = At("ackDead") BY <2>3, <2>5, <3>1 DEF At
    <3>3. ~Acked(w, "ackDead") BY <2>5 DEF Acked
    <3>4. counts'.dead = counts.dead /\ counts'.failed = counts.failed
      BY <1>0, <2>2, <3>3 DEF One, BuriedInv
    <3> QED BY <2>5, <3>2, <3>4 DEF BuriedInv
  <2>6. CASE pc[w] # "ackDead" /\ dead' # dead
    <3>1. PublishDeadLetter(w) BY <2>1, <2>6, WorkIs
    <3>2. PICK d : dead' = Append(dead, d) /\ pc'[w] = "ackDead"
      <4>1. [Next]_vars BY <2>1 DEF Next
      <4>2. PICK v \in Workers, d \in DeadLetter : Buries(v, d) BY <2>6, <4>1, DeadStep
      <4>3. v = w
        BY <2>1, <3>1, <4>2, OthersStay DEF Buries, PublishDeadLetter
      <4> QED BY <4>2, <4>3 DEF Buries
    <3>3. Len(dead') = Len(dead) + 1 BY <1>0, <3>2
    <3>4. ~Acked(w, "ackDead") BY <2>6 DEF Acked
    <3>5. counts'.dead = counts.dead /\ counts'.failed = counts.failed
      BY <1>0, <2>2, <3>4 DEF One, BuriedInv
    <3>6. w \notin At("ackDead") /\ At("ackDead")' = At("ackDead") \cup {w}
      BY <2>3, <2>6, <3>2 DEF At
    <3>7. /\ IsFiniteSet(At("ackDead")')
          /\ Cardinality(At("ackDead")') = Cardinality(At("ackDead")) + 1
      BY <3>6, FS_AddElement DEF BuriedInv
    <3>8. Cardinality(At("ackDead")) \in Nat BY FS_CardinalityType DEF BuriedInv
    <3> QED BY <1>0, <3>3, <3>5, <3>7, <3>8 DEF BuriedInv
  <2> QED BY <2>4, <2>5, <2>6
<1> QED BY <1>1, <1>2, <1>3, WatchCases

LEMMA OneLetterStep ==
  ASSUME NoSecondCopy, CleanInv, LetterInv, OneLetterEach, [Next]_vars
  PROVE  OneLetterEach'
<1>0. TypeInv BY DEF CleanInv, RetryInv
<1>1. CASE dead' = dead
  BY <1>1 DEF OneLetterEach, Buried, DeadLettered
<1>2. CASE dead' # dead
  <2>1. PICK w \in Workers, d \in DeadLetter : Buries(w, d) BY <1>0, <1>2, DeadStep
  <2>2. d.job \in Jobs /\ Letters(d.job) = {} BY <2>1, BuriesFirst
  <2>3. PICK n : \A j : Letters(j)' = IF j = d.job THEN Letters(j) \cup {n} ELSE Letters(j)
    BY <1>0, <2>1, LetterAdded DEF Buries
  <2>4. \A j : (DeadLettered(j) <=> Letters(j) # {}) /\ (DeadLettered(j)' <=> Letters(j)' # {})
    BY DEF DeadLettered, Letters
  <2>5. d.job \notin Buried BY <2>2, <2>4 DEF Buried
  <2>6. Buried' = Buried \cup {d.job} BY <2>2, <2>3, <2>4 DEF Buried
  <2>7. IsFiniteSet(Buried') /\ Cardinality(Buried') = Cardinality(Buried) + 1
    BY <2>5, <2>6, FS_AddElement DEF OneLetterEach
  <2>8. Len(dead') = Len(dead) + 1
    BY <1>0, <2>1 DEF Buries, TypeInv, TypeOK
  <2> QED BY <2>7, <2>8 DEF OneLetterEach
<1> QED BY <1>1, <1>2

\* A worker that keeps its job and neither sets out to report it nor stops.
LEMMA SamePursuits ==
  ASSUME TypeInv, Grows, NEW w \in Workers, WorkerStep(w), NEW j \in Jobs,
         pc[w] \in Reporting /\ JobOf(w) = j <=> pc'[w] \in Reporting /\ JobOf(w)' = j
  PROVE  Pursued(j, Reporting)' <=> Pursued(j, Reporting)
<1>1. ASSUME NEW v \in Workers, v # w
      PROVE  pc[v] \in Reporting /\ JobOf(v) = j <=> pc'[v] \in Reporting /\ JobOf(v)' = j
  <2>1. pc'[v] = pc[v] /\ msg'[v] = msg[v] BY <1>1, OthersStay
  <2>2. pc[v] \in Reporting => JobOf(v)' = JobOf(v)
    BY <2>1, HandStays DEF Reporting
  <2> QED BY <2>1, <2>2
<1> QED BY <1>1 DEF Pursued

\* What a worker's step does to the reports: only three of its calls touch them.
LEMMA Reports ==
  ASSUME TypeInv, Grows, NEW w \in Workers, WorkerStep(w),
         ~MarkFailed(w), ~PublishDeadLetter(w), NEW j \in Jobs
  PROVE  /\ DeadLettered(j)' <=> DeadLettered(j)
         /\ Pursued(j, Reporting)' <=> Pursued(j, Reporting)
<1>1. DeadLettered(j)' <=> DeadLettered(j)
  BY WorkIs DEF DeadLettered
<1>2. pc \in [Workers -> Pcs] BY DEF TypeInv, TypeOK
<1>3. CASE StampFailed(w)
  <2>1. /\ pc[w] = "stampFailed" /\ pc'[w] = "deadLetter" /\ msg' = msg
    BY <1>2, <1>3 DEF StampFailed, Goto
  <2>2. JobOf(w)' = JobOf(w) BY <2>1, HandStays
  <2>3. pc[w] \in Reporting /\ pc'[w] \in Reporting BY <2>1 DEF Reporting
  <2> QED BY <1>1, <2>2, <2>3, SamePursuits
<1>4. CASE ~StampFailed(w)
  <2>1. pc[w] \notin Reporting
    BY <1>4 DEF Reporting, WorkerStep, Consume, ConsumePending, ConsumeFresh,
                ConsumeNothing, Process, LookUp, MarkRunning, StampStarted, Analyze,
                SaveAnalysis, MarkCompleted, StampCompleted, Settle, Requeue, Republish,
                MarkFailed, StampFailed, PublishDeadLetter, Ack, AckPcs
  <2>2. pc'[w] \notin Reporting BY <1>4, ReporterWrites DEF Reporting
  <2> QED BY <1>1, <2>1, <2>2, SamePursuits
<1> QED BY <1>3, <1>4

\* What gives a row the status FAILED.
LEMMA FailedBy ==
  ASSUME NoSecondCopy, WritesAreKnown, CleanInv, RowsInv, NEW w \in Workers, WorkerStep(w),
         ~MarkFailed(w), NEW j \in Jobs
  PROVE  status'[j] = "FAILED" <=> status[j] = "FAILED"
<1>1. TypeInv /\ status \in [Jobs -> Status \cup {"absent"}]
  BY DEF CleanInv, RetryInv, TypeInv, TypeOK, Rows
<1>2. status[j] = "FAILED" => status'[j] = "FAILED"
  <2>1. [Next]_vars BY DEF Next
  <2> QED BY <2>1, EndedStays DEF Terminal
<1>3. ASSUME NEW i, NEW s \in Status \ {"FAILED"}, NEW ok, UpdateStatus(i, s, ok),
             status'[j] = "FAILED"
      PROVE  status[j] = "FAILED"
  <2>1. status' = status \/ status' = Written(i, s) BY <1>3 DEF UpdateStatus
  <2>2. Written(i, s)[j] \in {status[j], s, "absent"} BY <1>1 DEF Written
  <2> QED BY <1>3, <2>1, <2>2
<1>4. CASE MarkRunning(w)
  BY <1>2, <1>3, <1>4 DEF MarkRunning, Status
<1>5. CASE MarkCompleted(w)
  BY <1>2, <1>3, <1>5 DEF MarkCompleted, Status
<1>6. CASE Requeue(w)
  BY <1>2, <1>3, <1>6 DEF Requeue, Status
<1> QED
  BY <1>4, <1>5, <1>6
  DEF WorkerStep, Consume, ConsumePending, ConsumeFresh, ConsumeNothing, Process,
      LookUp, StampStarted, Analyze, SaveAnalysis, StampCompleted, Settle, Republish,
      StampFailed, PublishDeadLetter, Ack, vars, store

LEMMA FaultsGrow ==
  ASSUME TypeInv, [Next]_vars
  PROVE  faults' \in {faults, faults + 1}
<1>1. ASSUME NEW j, NEW s, NEW ok, UpdateStatus(j, s, ok)
      PROVE  faults' \in {faults, faults + 1}
  BY <1>1 DEF UpdateStatus, Fault, NoFault
<1>2. ASSUME NEW m, NEW ok, Xadd(m, ok) \/ XaddDead(m, ok)
      PROVE  faults' \in {faults, faults + 1}
  BY <1>2 DEF Xadd, XaddDead, Fault, NoFault
<1>3. ASSUME NEW j \in Jobs, Request(j) PROVE faults' \in {faults, faults + 1}
  BY <1>2, <1>3 DEF Request, SaveJob, CheckBacklog, PublishFirst, Fault, NoFault
<1>4. ASSUME NEW w \in Workers, WorkerStep(w) PROVE faults' \in {faults, faults + 1}
  <2>1. CASE Consume(w)
    BY <2>1 DEF Consume, ConsumePending, ConsumeFresh, ConsumeNothing, Fault, NoFault,
                vars
  <2>2. CASE Process(w)
    BY <1>1, <2>2 DEF Process, LookUp, MarkRunning, StampStarted, Analyze, SaveAnalysis,
                      MarkCompleted, StampCompleted, Stamp, Fault, NoFault
  <2>3. CASE Settle(w)
    BY <1>1, <1>2, <2>3 DEF Settle, Requeue, Republish, MarkFailed, StampFailed,
                            PublishDeadLetter, Ack, Stamp, Fault, NoFault
  <2> QED BY <1>4, <2>1, <2>2, <2>3 DEF WorkerStep
<1> QED BY <1>3, <1>4 DEF Next, Crash, vars

\* One failed call parts the row and the dead letter of one job at most.
LEMMA MissedByWorker ==
  ASSUME NoSecondCopy, WritesAreKnown, CleanInv, RowsInv, NEW w \in Workers, WorkerStep(w)
  PROVE  \/ Missed' \subseteq Missed
         \/ faults' = faults + 1 /\ \E J \in Jobs : Missed' \subseteq Missed \cup {J}
<1>0. /\ TypeInv /\ Grows /\ pc \in [Workers -> Pcs] /\ faults \in Nat
      /\ status \in [Jobs -> Status \cup {"absent"}]
  <2>1. [Next]_vars BY DEF Next
  <2> QED BY <2>1, StepGrows DEF CleanInv, RetryInv, TypeInv, TypeOK, Rows
<1>1. CASE ~MarkFailed(w) /\ ~PublishDeadLetter(w)
  BY <1>0, <1>1, Reports, FailedBy DEF Missed
<1>2. CASE MarkFailed(w) \/ PublishDeadLetter(w)
  <2>1. pc[w] \in {"markFailed", "deadLetter"}
    BY <1>2 DEF MarkFailed, PublishDeadLetter
  <2>2. JobOf(w) \in Jobs BY <1>0, <2>1, HeldMessage
  <2>3. PICK J \in Jobs : J = JobOf(w) BY <2>2
  <2>4. status[J] \in Expected(pc[w])
    BY <2>1, <2>3 DEF RowsInv, RowAsExpected, Relying
  <2>5. ASSUME NEW j \in Jobs, j # J PROVE j \in Missed' <=> j \in Missed
    <3>1. status'[j] = status[j]
      BY <1>0, <2>3, <2>5, WorkerWrites
    <3>2. pc'[w] \in Reporting => JobOf(w)' = J
      <4>1. pc'[w] \in Reporting => MarkFailed(w)
        BY <1>0, <1>2, <2>1, ReporterWrites DEF StampFailed
      <4> QED BY <1>0, <2>1, <2>3, <4>1, HandStays DEF MarkFailed
    <3>3. Pursued(j, Reporting)' <=> Pursued(j, Reporting)
      BY <1>0, <2>3, <2>5, <3>2, SamePursuits
    <3>4. DeadLettered(j)' <=> DeadLettered(j)
      <4>1. CASE dead' = dead BY <4>1 DEF DeadLettered
      <4>2. CASE dead' # dead
        <5>1. [Next]_vars BY DEF Next
        <5>2. PICK v \in Workers, d \in DeadLetter : Buries(v, d)
          BY <1>0, <4>2, <5>1, DeadStep
        <5>3. v = w
          BY <1>0, <5>2, OthersStay DEF Buries, PublishDeadLetter
        <5>4. PICK n : \A k : Letters(k)' =
                 IF k = d.job THEN Letters(k) \cup {n} ELSE Letters(k)
          BY <1>0, <5>2, LetterAdded DEF Buries
        <5>5. d.job = J BY <2>3, <5>2, <5>3 DEF Buries
        <5> QED BY <2>5, <5>4, <5>5 DEF DeadLettered, Letters
      <4> QED BY <4>1, <4>2
    <3> QED BY <3>1, <3>3, <3>4 DEF Missed
  <2>6. Missed' \subseteq Missed \cup {J}
    <3>1. Missed' \subseteq Jobs BY DEF Missed
    <3> QED BY <2>5, <3>1
  <2>7. ASSUME faults' = faults PROVE J \in Missed' => J \in Missed
    <3>1. CASE MarkFailed(w)
      <4>1. status[J] \in {"QUEUED", "RUNNING"}
        BY <2>4, <3>1 DEF MarkFailed, Expected
      <4>2. \A k \in FaultKinds : ~Fault(k)
        BY <1>0, <2>7 DEF Fault
      <4>3. PICK ok \in BOOLEAN : UpdateStatus(J, "FAILED", ok)
        BY <2>3, <3>1 DEF MarkFailed
      <4>4. status' = Written(J, "FAILED")
        BY <4>2, <4>3 DEF UpdateStatus, FaultKinds
      <4>5. status'[J] = "FAILED" BY <1>0, <4>1, <4>4 DEF Written
      <4>6. pc'[w] \in Reporting /\ JobOf(w)' = J
        BY <1>0, <2>1, <2>3, <3>1, HandStays DEF MarkFailed, Goto, Reporting
      <4>7. Pursued(J, Reporting)' BY <4>6 DEF Pursued
      <4> QED BY <4>5, <4>7 DEF Missed
    <3>2. CASE PublishDeadLetter(w)
      <4>1. pc[w] \in Reporting BY <3>2 DEF PublishDeadLetter, Reporting
      <4>2. Pursued(J, Reporting) BY <2>3, <4>1 DEF Pursued
      <4>3. status'[J] = status[J] BY <3>2 DEF PublishDeadLetter, store
      <4>4. DeadLettered(J)'
        <5> DEFINE d == [job |-> JobOf(w), attempt |-> Held(w).attempt, id |-> msg[w],
                         reason |-> reason[w]]
        <5>1. PICK ok \in BOOLEAN : XaddDead(d, ok) BY <3>2 DEF PublishDeadLetter
        <5>2. d.job = J BY <2>3
        <5> HIDE DEF d
        <5>3. dead' = Append(dead, d)
          BY <1>0, <2>7, <5>1 DEF XaddDead, Fault
        <5>4. dead \in Seq(DeadLetter) BY <1>0 DEF TypeInv, TypeOK
        <5>5. Len(dead) + 1 \in DOMAIN dead' /\ dead'[Len(dead) + 1] = d BY <5>3, <5>4
        <5> QED BY <5>2, <5>5 DEF DeadLettered
      <4> QED BY <4>2, <4>3, <4>4 DEF Missed
    <3> QED BY <1>2, <3>1, <3>2
  <2>8. faults' \in {faults, faults + 1}
    <3>1. [Next]_vars BY DEF Next
    <3> QED BY <1>0, <3>1, FaultsGrow
  <2> QED BY <2>6, <2>7, <2>8
<1> QED BY <1>1, <1>2

LEMMA MissedStep ==
  ASSUME NoSecondCopy, WritesAreKnown, CleanInv, RowsInv, MissedInv, [Next]_vars
  PROVE  MissedInv'
<1>0. /\ TypeInv /\ faults \in Nat /\ faults' \in {faults, faults + 1}
      /\ status \in [Jobs -> Status \cup {"absent"}]
  BY FaultsGrow DEF CleanInv, RetryInv, TypeInv, TypeOK, Rows
<1>1. \/ Missed' \subseteq Missed
      \/ faults' = faults + 1 /\ \E J \in Jobs : Missed' \subseteq Missed \cup {J}
  <2>1. ASSUME UNCHANGED <<dead, pc, msg>>,
               \A j \in Jobs : status'[j] = "FAILED" <=> status[j] = "FAILED"
        PROVE  Missed' \subseteq Missed
    <3>1. Grows BY StepGrows, <1>0
    <3>2. \A v \in Workers : pc[v] \in Reporting => JobOf(v)' = JobOf(v)
      BY <1>0, <2>1, <3>1, HandStays DEF Reporting
    <3>3. \A j \in Jobs : Pursued(j, Reporting)' <=> Pursued(j, Reporting)
      BY <2>1, <3>2 DEF Pursued
    <3>4. \A j \in Jobs : DeadLettered(j)' <=> DeadLettered(j)
      BY <2>1 DEF DeadLettered
    <3> QED BY <2>1, <3>3, <3>4 DEF Missed
  <2>2. ASSUME NEW j \in Jobs, Request(j) PROVE Missed' \subseteq Missed
    <3>1. UNCHANGED <<dead, pc, msg>>
      BY <2>2 DEF Request, SaveJob, CheckBacklog, PublishFirst, worker
    <3>2. \A k \in Jobs : status'[k] = "FAILED" <=> status[k] = "FAILED"
      <4>1. CASE SaveJob(j)
        <5>1. status[j] = "absent" BY <4>1 DEF SaveJob, CleanInv, Unpublished
        <5>2. status' = status \/ status' = [status EXCEPT ![j] = "QUEUED"]
          BY <4>1 DEF SaveJob
        <5> QED BY <1>0, <5>1, <5>2
      <4>2. CASE CheckBacklog(j) \/ PublishFirst(j)
        BY <4>2 DEF CheckBacklog, PublishFirst, store
      <4> QED BY <2>2, <4>1, <4>2 DEF Request
    <3> QED BY <2>1, <3>1, <3>2
  <2>3. ~Crash
    BY <1>0 DEF Crash, NoSecondCopy, TypeInv, TypeOK
  <2>4. CASE UNCHANGED vars
    BY <2>1, <2>4 DEF vars, store, worker
  <2> QED BY <2>2, <2>3, <2>4, MissedByWorker DEF Next
<1>2. Cardinality(Missed) \in Nat BY FS_CardinalityType DEF MissedInv
<1>3. CASE Missed' \subseteq Missed
  <2>1. IsFiniteSet(Missed') /\ Cardinality(Missed') <= Cardinality(Missed)
    BY <1>3, FS_Subset DEF MissedInv
  <2>2. Cardinality(Missed') \in Nat BY <2>1, FS_CardinalityType
  <2> QED BY <1>0, <1>2, <2>1, <2>2 DEF MissedInv
<1>4. ASSUME NEW J \in Jobs, faults' = faults + 1, Missed' \subseteq Missed \cup {J}
      PROVE  MissedInv'
  <2>1. SUFFICES ASSUME NEW T, T = Missed \cup {J} PROVE MissedInv' OBVIOUS
  <2>2. IsFiniteSet(T) /\ Cardinality(T) <= Cardinality(Missed) + 1
    BY <1>2, <2>1, FS_AddElement DEF MissedInv
  <2>3. Missed' \in SUBSET T BY <1>4, <2>1
  <2>4. IsFiniteSet(Missed') /\ Cardinality(Missed') <= Cardinality(T)
    BY <2>2, <2>3, FS_Subset
  <2>5. Cardinality(Missed') \in Nat /\ Cardinality(T) \in Nat
    BY <2>2, <2>4, FS_CardinalityType
  <2> QED BY <1>0, <1>2, <1>4, <2>2, <2>4, <2>5 DEF MissedInv
<1> QED BY <1>1, <1>3, <1>4

LEMMA RetriedStep ==
  ASSUME NoSecondCopy, AcksAreKnown, CleanInv, GaugeTypes, RetriedInv, [WatchNext]_watch
  PROVE  RetriedInv'
<1>0. /\ TypeInv /\ stream \in Seq(Message) /\ counts.retried \in Nat
      /\ Cardinality(At("ackRetried")) \in Nat /\ Cardinality(Retries) \in Nat
  BY FS_CardinalityType DEF CleanInv, RetryInv, TypeInv, TypeOK, GaugeTypes, RetriedInv
<1>1. CASE UNCHANGED <<vars, uncounted>> /\ SameTotals
  BY <1>1 DEF vars, worker, SameTotals, RetriedInv, At, Retries
<1>2. ASSUME NEW j \in Jobs, Submit(j) \/ CountSubmission(j) PROVE RetriedInv'
  <2>1. Retries' = Retries
    <3>1. ASSUME NEW m \in Message, stream' = Append(stream, m), m.attempt = 0
          PROVE  Retries' = Retries
      <4>1. PICK n \in Nat :
              /\ DOMAIN stream' = DOMAIN stream \cup {n} /\ stream'[n] = m
              /\ \A i \in DOMAIN stream : stream'[i] = stream[i]
        BY <1>0, <3>1, EntryAdded
      <4>2. ~(m.attempt > 0) BY <3>1
      <4>3. Retries' \subseteq Retries BY <4>1, <4>2 DEF Retries
      <4>4. Retries \subseteq Retries' BY <4>1 DEF Retries
      <4> QED BY <4>3, <4>4
    <3>2. CASE stream' = stream BY <3>2 DEF Retries
    <3> QED BY <1>0, <1>2, <3>1, <3>2, SubmitQuiet
  <2>2. At("ackRetried")' = At("ackRetried") /\ counts'.retried = counts.retried
    BY <1>0, <1>2, SubmitQuiet DEF At
  <2> QED BY <2>1, <2>2 DEF RetriedInv
<1>3. ASSUME NEW w \in Workers, Work(w) PROVE RetriedInv'
  <2>1. WorkerStep(w) /\ [Next]_vars BY <1>3 DEF Work, Next
  <2>2. counts'.retried = counts.retried + One(Acked(w, "ackRetried"))
    BY <1>3, CountTypes DEF Work
  <2>3. At("ackRetried")' =
          IF pc'[w] = "ackRetried" THEN At("ackRetried") \cup {w}
          ELSE At("ackRetried") \ {w}
    BY <1>0, <1>3, AtMoves
  <2>4. CASE pc[w] = "ackRetried"
    <3>1. NoFault /\ pc'[w] = "idle" BY <1>0, <2>1, <2>4, AckIsDone DEF AckPcs
    <3>2. stream' = stream BY <1>0, <2>1, <2>4, WorkIs DEF Republish
    <3>3. counts'.retried = counts.retried + 1
      BY <2>2, <2>4, <3>1 DEF Acked, One
    <3>4. w \in At("ackRetried") /\ At("ackRetried")' = At("ackRetried") \ {w}
      BY <2>3, <2>4, <3>1 DEF At
    <3>5. /\ IsFiniteSet(At("ackRetried")')
          /\ Cardinality(At("ackRetried")') = Cardinality(At("ackRetried")) - 1
      BY <3>4, FS_RemoveElement DEF RetriedInv
    <3>6. Retries' = Retries BY <3>2 DEF Retries
    <3> QED BY <1>0, <3>3, <3>5, <3>6 DEF RetriedInv
  <2>5. CASE pc[w] # "ackRetried" /\ stream' = stream
    <3>1. pc'[w] # "ackRetried"
      <4>1. ASSUME Republish(w), pc'[w] = "ackRetried" PROVE FALSE
        <5> DEFINE m == [job |-> JobOf(w), attempt |-> Held(w).attempt + 1]
        <5>1. PICK ok \in BOOLEAN : Xadd(m, ok) /\ (~ok => Release(w))
          BY <4>1 DEF Republish
        <5>2. ok BY <1>0, <4>1, <5>1 DEF Release, Goto, TypeInv, TypeOK
        <5> HIDE DEF m
        <5>3. stream' = Append(stream, m) BY <5>1, <5>2 DEF Xadd
        <5>4. Len(stream') = Len(stream) + 1 BY <1>0, <5>3
        <5> QED BY <1>0, <2>5, <5>4
      <4> QED BY <1>0, <2>1, <4>1, WorkIs
    <3>2. At("ackRetried")' = At("ackRetried") BY <2>3, <2>5, <3>1 DEF At
    <3>3. ~Acked(w, "ackRetried") BY <2>5 DEF Acked
    <3>4. counts'.retried = counts.retried BY <1>0, <2>2, <3>3 DEF One
    <3>5. Retries' = Retries BY <2>5 DEF Retries
    <3> QED BY <3>2, <3>4, <3>5 DEF RetriedInv
  <2>6. CASE pc[w] # "ackRetried" /\ stream' # stream
    <3>1. Republish(w) BY <1>0, <2>1, <2>6, WorkIs
    <3>2. PICK m \in Message : Follows(m) /\ m.attempt = Held(w).attempt + 1
      BY <2>6, <3>1, RetryFollows
    <3>3. m.attempt > 0
      <4>1. Held(w).attempt \in Nat
        BY <1>0, <3>1, HeldMessage DEF Republish, Message
      <4> QED BY <3>2, <4>1
    <3>4. pc'[w] = "ackRetried"
      <4> DEFINE e == [job |-> JobOf(w), attempt |-> Held(w).attempt + 1]
      <4>1. PICK ok \in BOOLEAN : Xadd(e, ok) /\ (ok => Goto(w, "ackRetried"))
        BY <3>1 DEF Republish
      <4>2. ok BY <2>6, <4>1 DEF Xadd, Fault, NoSecondCopy
      <4> QED BY <1>0, <4>1, <4>2 DEF Goto, TypeInv, TypeOK
    <3>5. PICK n \in Nat :
            /\ DOMAIN stream' = DOMAIN stream \cup {n} /\ n \notin DOMAIN stream
            /\ stream'[n] = m
            /\ \A i \in DOMAIN stream : stream'[i] = stream[i]
      BY <1>0, <3>2, EntryAdded DEF Follows
    <3>6. Retries' = Retries \cup {n} /\ n \notin Retries
      BY <3>3, <3>5 DEF Retries
    <3>7. /\ IsFiniteSet(Retries') /\ Cardinality(Retries') = Cardinality(Retries) + 1
      BY <3>6, FS_AddElement DEF RetriedInv
    <3>8. w \notin At("ackRetried") /\ At("ackRetried")' = At("ackRetried") \cup {w}
      BY <2>3, <2>6, <3>4 DEF At
    <3>9. /\ IsFiniteSet(At("ackRetried")')
          /\ Cardinality(At("ackRetried")') = Cardinality(At("ackRetried")) + 1
      BY <3>8, FS_AddElement DEF RetriedInv
    <3>10. ~Acked(w, "ackRetried") BY <2>6 DEF Acked
    <3>11. counts'.retried = counts.retried BY <1>0, <2>2, <3>10 DEF One
    <3> QED BY <1>0, <3>7, <3>9, <3>11 DEF RetriedInv
  <2> QED BY <2>4, <2>5, <2>6
<1> QED BY <1>1, <1>2, <1>3, WatchCases

\* With the same workers about to count the same jobs, the same jobs are counted.
LEMMA FinishedStays ==
  ASSUME TypeInv, CompletedInv, At("stampCompleted")' = At("stampCompleted"),
         \A v \in At("stampCompleted") : JobOf(v)' = JobOf(v),
         \A j \in Jobs : status'[j] = "COMPLETED" <=> status[j] = "COMPLETED",
         counts'.completed = counts.completed
  PROVE  CompletedInv'
<1>1. Finished' = Finished BY DEF Finished
<1>2. \A v \in At("stampCompleted") : JobOf(v) \in Jobs
  BY HeldMessage DEF At
<1>3. StampInv' BY <1>2 DEF StampInv, CompletedInv
<1> QED BY <1>1, <1>3 DEF CompletedInv

LEMMA CompletedStep ==
  ASSUME NoSecondCopy, WritesAreKnown, ClearInv, GaugeTypes, CompletedInv,
         [WatchNext]_watch
  PROVE  CompletedInv'
<1>0. /\ TypeInv /\ CleanInv /\ RowsInv /\ counts.completed \in Nat
      /\ [Next]_vars /\ Grows
  BY WatchStep, StepGrows DEF ClearInv, CleanInv, RetryInv, GaugeTypes
<1>1. CASE UNCHANGED <<vars, uncounted>> /\ SameTotals
  BY <1>0, <1>1, FinishedStays DEF vars, store, worker, SameTotals, At, JobOf, Held
<1>2. ASSUME NEW j \in Jobs, Submit(j) \/ CountSubmission(j) PROVE CompletedInv'
  <2>1. /\ UNCHANGED <<pc, msg>> /\ counts'.completed = counts.completed
        /\ \A k \in Jobs :
             status'[k] = status[k] \/ (sub[k] = "new" /\ status'[k] = "QUEUED")
    BY <1>0, <1>2, SubmitQuiet
  <2>2. \A k \in Jobs : status'[k] = "COMPLETED" <=> status[k] = "COMPLETED"
    BY <1>0, <2>1 DEF CleanInv, Unpublished
  <2>3. \A v \in At("stampCompleted") : JobOf(v)' = JobOf(v)
    BY <1>0, <2>1, HandStays DEF At
  <2>4. At("stampCompleted")' = At("stampCompleted") BY <2>1 DEF At
  <2> QED BY <1>0, <2>1, <2>2, <2>3, <2>4, FinishedStays
<1>3. ASSUME NEW w \in Workers, Work(w) PROVE CompletedInv'
  <2>1. WorkerStep(w) BY <1>3 DEF Work
  <2>2. counts'.completed = counts.completed + One(pc[w] = "stampCompleted")
    BY <1>3, CountTypes DEF Work
  <2>3. At("stampCompleted")' =
          IF pc'[w] = "stampCompleted" THEN At("stampCompleted") \cup {w}
          ELSE At("stampCompleted") \ {w}
    BY <1>0, <1>3, AtMoves
  <2>4. \A v \in At("stampCompleted") : v # w => JobOf(v)' = JobOf(v)
    BY <1>0, <2>1, OthersStay, HandStays DEF At
  <2>5. CASE pc[w] = "stampCompleted"
    <3>1. StampCompleted(w) BY <1>0, <2>1, <2>5, WorkIs
    <3>2. UNCHANGED <<status, stream, msg>> /\ pc'[w] = "ackDone"
      BY <1>0, <3>1 DEF StampCompleted, Goto, TypeInv, TypeOK
    <3>3. /\ w \in At("stampCompleted")
          /\ At("stampCompleted")' = At("stampCompleted") \ {w}
      BY <2>3, <2>5, <3>2 DEF At
    <3>4. \A v \in Workers : JobOf(v)' = JobOf(v) BY <3>2 DEF JobOf, Held
    <3>5. JobOf(w) \in Jobs BY <1>0, <2>5, HeldMessage
    <3>6. SUFFICES ASSUME NEW J \in Jobs, J = JobOf(w) PROVE CompletedInv'
      BY <3>5
    <3>7. J \notin Finished BY <3>3, <3>6 DEF Finished
    <3>8. Finished' = Finished \cup {J}
      <4>1. status[J] = "COMPLETED"
            /\ \A v \in At("stampCompleted") \ {w} : JobOf(v) # J
        BY <3>3, <3>6 DEF CompletedInv, StampInv
      <4>2. \A j \in Jobs : j \in Finished' <=>
              status[j] = "COMPLETED" /\ \A v \in At("stampCompleted") \ {w} : JobOf(v) # j
        BY <3>2, <3>3, <3>4 DEF Finished, At
      <4>3. \A j \in Jobs : j \in Finished <=>
              status[j] = "COMPLETED" /\ \A v \in At("stampCompleted") : JobOf(v) # j
        BY DEF Finished
      <4>4. Finished \subseteq Jobs /\ Finished' \subseteq Jobs BY DEF Finished
      <4> QED BY <3>3, <3>6, <4>1, <4>2, <4>3, <4>4
    <3>9. StampInv'
      BY <3>2, <3>3, <3>4 DEF CompletedInv, StampInv, At
    <3>10. counts'.completed = counts.completed + 1 BY <2>2, <2>5 DEF One
    <3>11. /\ IsFiniteSet(Finished')
           /\ Cardinality(Finished') = Cardinality(Finished) + 1
      BY <3>7, <3>8, FS_AddElement DEF CompletedInv
    <3> QED BY <3>9, <3>10, <3>11 DEF CompletedInv
  <2>6. CASE pc[w] # "stampCompleted" /\ pc'[w] = "stampCompleted"
    <3>1. MarkCompleted(w) /\ pc[w] = "markCompleted" /\ msg' = msg
      BY <1>0, <2>1, <2>6, WorkIs DEF MarkCompleted
    <3>2. JobOf(w) \in Jobs /\ JobOf(w)' = JobOf(w)
      BY <1>0, <3>1, HeldMessage, HandStays
    <3>3. SUFFICES ASSUME NEW J \in Jobs, J = JobOf(w), JobOf(w)' = J PROVE CompletedInv'
      BY <3>2
    <3>4. status[J] = "RUNNING"
      BY <1>0, <3>1, <3>3 DEF RowsInv, RowAsExpected, Relying, Expected
    <3>5. status'[J] = "COMPLETED"
      <4>1. PICK ok \in BOOLEAN :
              /\ UpdateStatus(J, "COMPLETED", ok)
              /\ IF ok THEN Goto(w, "stampCompleted") ELSE Fail(w, TRUE)
        BY <3>1, <3>3 DEF MarkCompleted
      <4>2. ok
        <5>1. ASSUME Fail(w, TRUE) PROVE FALSE
          BY <1>0, <2>6, <5>1, FailGoes DEF TypeInv, TypeOK
        <5> QED BY <4>1, <5>1
      <4> QED BY <1>0, <4>1, <4>2, UpdateStatusEffect DEF Status
    <3>6. status' = [status EXCEPT ![J] = "COMPLETED"]
      BY <1>0, <3>4, <3>5, CompletedBy
    <3>7. \A j \in Jobs : j # J => status'[j] = status[j] BY <3>6
    <3>8. /\ At("stampCompleted")' = At("stampCompleted") \cup {w}
          /\ w \notin At("stampCompleted")
      BY <2>3, <2>6 DEF At
    <3>9. \A v \in At("stampCompleted") : /\ JobOf(v)' = JobOf(v) /\ JobOf(v) \in Jobs
                                          /\ JobOf(v) # J
                                          /\ status'[JobOf(v)] = "COMPLETED"
      <4>1. ASSUME NEW v \in At("stampCompleted") PROVE JobOf(v) \in Jobs
        BY <1>0, <4>1, HeldMessage DEF At
      <4>2. \A v \in At("stampCompleted") : status[JobOf(v)] = "COMPLETED"
        BY DEF CompletedInv, StampInv
      <4> QED BY <2>4, <3>4, <3>7, <3>8, <4>1, <4>2
    <3>10. StampInv'
      <4>1. ASSUME NEW u \in At("stampCompleted") \cup {w}
            PROVE  /\ status'[JobOf(u)'] = "COMPLETED"
                   /\ \A v \in At("stampCompleted") \cup {w} :
                        JobOf(v)' = JobOf(u)' => v = u
        BY <3>3, <3>5, <3>9 DEF CompletedInv, StampInv
      <4> QED BY <3>8, <4>1 DEF StampInv
    <3>11. Finished' = Finished
      BY <3>3, <3>4, <3>7, <3>8, <3>9 DEF Finished
    <3>12. counts'.completed = counts.completed BY <1>0, <2>2, <2>6 DEF One
    <3> QED BY <3>10, <3>11, <3>12 DEF CompletedInv
  <2>7. CASE pc[w] # "stampCompleted" /\ pc'[w] # "stampCompleted"
    <3>1. At("stampCompleted")' = At("stampCompleted") BY <2>3, <2>7 DEF At
    <3>2. ASSUME NEW j \in Jobs, status'[j] = "COMPLETED" PROVE status[j] = "COMPLETED"
      <4>1. SUFFICES ASSUME status[j] # "COMPLETED" PROVE FALSE OBVIOUS
      <4>2. PICK v \in Workers : MarkCompleted(v) /\ pc' = [pc EXCEPT ![v] = "stampCompleted"]
        BY <1>0, <3>2, <4>1, CompletedBy
      <4>3. pc[v] = "markCompleted" /\ pc'[v] = "stampCompleted"
        BY <1>0, <4>2 DEF MarkCompleted, TypeInv, TypeOK
      <4>4. v = w BY <1>0, <2>1, <4>3, OthersStay
      <4> QED BY <2>7, <4>3, <4>4
    <3>3. \A j \in Jobs : status[j] = "COMPLETED" => status'[j] = "COMPLETED"
      BY <1>0, EndedStays DEF Terminal
    <3>4. \A v \in At("stampCompleted") : JobOf(v)' = JobOf(v) BY <2>4, <2>7 DEF At
    <3>5. counts'.completed = counts.completed BY <1>0, <2>2, <2>7 DEF One
    <3> QED BY <1>0, <3>1, <3>2, <3>3, <3>4, <3>5, FinishedStays
  <2> QED BY <2>5, <2>6, <2>7
<1> QED BY <1>1, <1>2, <1>3, WatchCases

TotalsInv ==
  /\ SubmittedInv /\ CompletedInv /\ BuriedInv /\ RetriedInv
  /\ OneLetterEach /\ MissedInv

LEMMA TotalsInit == WatchInit => TotalsInv
<1> SUFFICES ASSUME WatchInit PROVE TotalsInv
  OBVIOUS
<1>1. /\ Accepted = {} /\ uncounted = {} /\ Finished = {} /\ Retries = {}
      /\ At("ackDead") = {} /\ At("ackRetried") = {} /\ At("stampCompleted") = {}
      /\ Len(dead) = 0 /\ Buried = {} /\ Missed = {} /\ faults = 0
  <2>1. \A j \in Jobs : ~DeadLettered(j) /\ ~Pursued(j, Reporting) /\ status[j] # "FAILED"
    BY DEF WatchInit, Init, EmptyTables, DeadLettered, Pursued, Reporting
  <2> QED
    BY <2>1 DEF WatchInit, Init, EmptyTables, Accepted, Finished, Retries, At, Buried,
                Missed
<1>2. /\ counts.submitted = 0 /\ counts.completed = 0 /\ counts.failed = 0
      /\ counts.retried = 0 /\ counts.dead = 0
  BY DEF WatchInit, NoCounts
<1>3. Accepted \ uncounted = {} BY <1>1
<1>4. IsFiniteSet({}) /\ Cardinality({}) = 0 BY FS_EmptySet
<1>5. SubmittedInv BY <1>1, <1>2, <1>3, <1>4 DEF SubmittedInv
<1>6. CompletedInv BY <1>1, <1>2, <1>4 DEF CompletedInv, StampInv
<1>7. BuriedInv
  <2>1. IsFiniteSet(At("ackDead")) /\ Cardinality(At("ackDead")) = 0
    BY <1>1, <1>4, Zenon
  <2> QED BY <1>1, <1>2, <2>1 DEF BuriedInv
<1>8. RetriedInv
  <2>1. /\ IsFiniteSet(At("ackRetried")) /\ Cardinality(At("ackRetried")) = 0
        /\ IsFiniteSet(Retries) /\ Cardinality(Retries) = 0
    BY <1>1, <1>4, Zenon
  <2> QED BY <1>2, <2>1 DEF RetriedInv
<1>9. OneLetterEach /\ MissedInv
  <2>1. /\ IsFiniteSet(Buried) /\ Cardinality(Buried) = 0
        /\ IsFiniteSet(Missed) /\ Cardinality(Missed) = 0
    BY <1>1, <1>4, Zenon
  <2> QED BY <1>1, <2>1 DEF OneLetterEach, MissedInv
<1> QED BY <1>5, <1>6, <1>7, <1>8, <1>9 DEF TotalsInv

\* When nothing is on its way, every submission, completion, retry and dead letter has
\* been counted once, by whichever worker, in whatever order, as long as nobody is misled
\* about a call it made (PrometheusMetricsService, counted by submitRepository, processJob
\* and the worker loop).  The failed counter counts dead letters: with the FAILED rows of
\* the job table it agrees but for one job at most for each call that was refused.
THEOREM TotalsAreTrue ==
  ASSUME NoSecondCopy, WritesAreKnown, AcksAreKnown
  PROVE  WatchSpec => []TotalsAtRest
<1>1. ClearInv /\ IInv /\ TotalsInv /\ [WatchNext]_watch => TotalsInv'
  <2> SUFFICES ASSUME ClearInv, IInv, TotalsInv, [WatchNext]_watch PROVE TotalsInv'
    OBVIOUS
  <2>1. TypeInv /\ GaugeTypes /\ CleanInv BY DEF IInv, ClearInv
  <2> QED
    BY <2>1, WatchStep, SubmittedStep, CompletedStep, BuriedStep, RetriedStep,
       OneLetterStep, MissedStep
    DEF TotalsInv, ClearInv
<1>2. ClearInv /\ IInv /\ [WatchNext]_watch => ClearInv' /\ IInv'
  BY WatchStep, ClearStep, StepIInv
<1>3. WatchInit => ClearInv /\ IInv /\ TotalsInv
  BY ClearInit, GaugeInit, TotalsInit DEF WatchInit
<1>4. IInv /\ TotalsInv => TotalsAtRest
  <2> SUFFICES ASSUME IInv, TotalsInv, Resting PROVE TotalsAtRest
    BY DEF TotalsAtRest
  <2>1. /\ At("ackDead") = {} /\ At("ackRetried") = {} /\ At("stampCompleted") = {}
        /\ Busy = {} /\ uncounted = {}
    BY DEF Resting, At, Busy
  <2>2. counts.submitted = Cardinality({j \in Jobs : sub[j] = "accepted"})
    <3>1. Accepted \ uncounted = {j \in Jobs : sub[j] = "accepted"}
      BY <2>1 DEF Accepted
    <3> QED BY <3>1 DEF TotalsInv, SubmittedInv
  <2>3. counts.completed = Cardinality({j \in Jobs : status[j] = "COMPLETED"})
    <3>1. Finished = {j \in Jobs : status[j] = "COMPLETED"} BY <2>1 DEF Finished
    <3> QED BY <3>1 DEF TotalsInv, CompletedInv
  <2>4. Cardinality({}) = 0 /\ counts.dead \in Nat /\ counts.retried \in Nat
    BY FS_EmptySet DEF IInv, GaugeTypes
  <2>5. /\ counts.dead = Len(dead)
        /\ counts.failed = Cardinality({j \in Jobs : DeadLettered(j)})
    <3>1. Cardinality(At("ackDead")) = 0 BY <2>1, <2>4, Zenon
    <3> QED BY <2>4, <3>1 DEF TotalsInv, BuriedInv, OneLetterEach, Buried
  <2>6. counts.retried = Cardinality({i \in DOMAIN stream : stream[i].attempt > 0})
    BY <2>1, <2>4 DEF TotalsInv, RetriedInv, Retries
  <2>7. counts.active = 0 BY <2>1, <2>4 DEF IInv, GaugeInv
  <2>8. Cardinality(Miscounted) <= faults
    <3>1. \A j \in Jobs : ~Pursued(j, Reporting)
      BY DEF Resting, Pursued, Reporting
    <3>2. \A j \in Jobs : j \in Missed <=> j \in Miscounted
      BY <3>1 DEF Missed, Miscounted
    <3>3. Missed = Miscounted BY <3>2 DEF Missed, Miscounted
    <3> QED BY <3>3 DEF TotalsInv, MissedInv
  <2> QED BY <2>2, <2>3, <2>5, <2>6, <2>7, <2>8 DEF TotalsAtRest
<1> QED BY <1>1, <1>2, <1>3, <1>4, PTL DEF WatchSpec

===============================================================================
