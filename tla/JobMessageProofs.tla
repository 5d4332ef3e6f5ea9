---------------------------- MODULE JobMessageProofs ----------------------------
(***************************************************************************)
(* What the messages of a job promise, for any number of jobs, workers,    *)
(* failed calls and crashes: no published job is lost, as long as a row    *)
(* that exists is seen by the worker that looks for it (NoLoss), and       *)
(* retries are neither lost nor invented (RetriesUsed).                    *)
(***************************************************************************)
EXTENDS JobPipelineProofs

-----------------------------------------------------------------------------
(* No job is lost *)

\* The two failures that hide a row from findById: a SELECT that fails, and a
\* restart on empty in-memory repositories.
RowsVisible == Faults \cap {"select_failed", "connect_failed"} = {}

\* A job is published by the request that created it, and only after that.
PublishedAfterSave == \A j \in Jobs : sub[j] = "new" => Entries(j) = {}

LossInv == TypeInv /\ NoJobLost /\ shelved = {} /\ PublishedAfterSave

\* What NoJobLost says of one job.
Kept(j) ==
  Entries(j) # {} /\ status[j] # "absent" =>
    status[j] \in Terminal \/ DeadLettered(j) \/ Carriers(j) # {}

LEMMA KeptAll == NoJobLost <=> \A j \in Jobs : Kept(j)
BY DEF NoJobLost, Kept

-----------------------------------------------------------------------------
(* Carriers *)

\* A worker that has not yet settled its message carries the job: nobody else
\* holds the same entry.
LEMMA HolderCarries ==
  ASSUME TypeInv, NEW w \in Workers, pc[w] \notin Settling \cup {"idle"}
  PROVE  msg[w] \in Carriers(JobOf(w))
<1>1. msg[w] \in pel[w] /\ msg[w] \in 1 .. Len(stream)
  BY HeldMessage
<1>2. msg[w] \in Entries(JobOf(w))
  BY <1>1 DEF Entries, JobOf, Held, TypeInv, TypeOK
<1>3. msg[w] \in Unacked
  BY <1>1 DEF Unacked
<1>4. ~BeingSettled(msg[w])
  <2>1. SUFFICES ASSUME NEW v \in Workers, msg[v] = msg[w], pc[v] \in Settling
                 PROVE  FALSE
    BY DEF BeingSettled
  <2>2. pc[v] # "idle" /\ v # w
    BY <2>1 DEF Settling, AckPcs
  <2>3. msg[v] \in pel[v]
    BY <2>2 DEF TypeInv, MessageOwnership
  <2>4. QED
    BY <1>1, <2>1, <2>2, <2>3 DEF TypeInv, MessageOwnership
<1>5. QED
  BY <1>2, <1>3, <1>4 DEF Carriers

\* A carrier remains one unless it is acknowledged, or the one worker that
\* moves begins to settle it.
LEMMA CarrierStays ==
  ASSUME TypeInv, NEW w \in Workers, NEW j \in Jobs, NEW i \in Carriers(j),
         Grows,
         \A v \in Workers : v # w => pc'[v] = pc[v] /\ msg'[v] = msg[v],
         i \in Unacked',
         msg'[w] = i => pc'[w] \notin Settling
  PROVE  i \in Carriers(j)'
<1>1. i \in Entries(j)'
  BY DEF Carriers, Entries, Grows
<1>2. ~BeingSettled(i)'
  <2>1. SUFFICES ASSUME NEW v \in Workers, msg'[v] = i, pc'[v] \in Settling
                 PROVE  FALSE
    BY DEF BeingSettled
  <2>2. v # w
    BY <2>1
  <2>3. msg[v] = i /\ pc[v] \in Settling
    BY <2>1, <2>2
  <2>4. QED
    BY <2>3 DEF Carriers, BeingSettled
<1>3. QED
  BY <1>1, <1>2 DEF Carriers

LEMMA UnackedStays ==
  ASSUME TypeInv, UNCHANGED group, stream' \in Seq(Message),
         Len(stream) <= Len(stream')
  PROVE  Unacked \subseteq Unacked'
<1>1. delivered' = delivered /\ pel' = pel
  BY DEF group
<1>2. delivered \in Nat /\ Len(stream) \in Nat /\ Len(stream') \in Nat
  BY DEF TypeInv, TypeOK
<1>3. QED
  BY <1>1, <1>2 DEF Unacked

\* A message that has just been published carries its job.
LEMMA NewCarrier ==
  ASSUME TypeInv, NEW m \in Message, stream' = Append(stream, m),
         UNCHANGED <<group, msg>>
  PROVE  Len(stream) + 1 \in Carriers(m.job)'
<1> DEFINE n == Len(stream) + 1
<1>1. delivered' = delivered /\ msg' = msg
  BY DEF group
<1>2. stream \in Seq(Message) /\ delivered \in 0 .. Len(stream)
  BY DEF TypeInv, TypeOK
<1>3. n \in DOMAIN stream' /\ stream'[n] = m /\ Len(stream') = n
  BY <1>2
<1>4. n \in Entries(m.job)'
  BY <1>3 DEF Entries
<1>5. n \in Unacked'
  BY <1>1, <1>2, <1>3 DEF Unacked
<1>6. \A v \in Workers : msg'[v] # n
  BY <1>1, <1>2 DEF TypeInv, TypeOK
<1>7. QED
  BY <1>4, <1>5, <1>6 DEF Carriers, BeingSettled

-----------------------------------------------------------------------------
(* A worker's step *)

\* The step of a worker that holds a message cannot lose any other job.
LEMMA OthersKept ==
  ASSUME TypeInv, NoJobLost, NEW w \in Workers, pc[w] # "idle",
         \A v \in Workers : v # w => pc'[v] = pc[v] /\ msg'[v] = msg[v],
         msg'[w] \in {0, msg[w]},
         Grows,
         \A i \in DOMAIN stream' \ DOMAIN stream : stream'[i].job = JobOf(w),
         \A i \in Unacked \ {msg[w]} : i \in Unacked',
         \A i \in DOMAIN dead : i \in DOMAIN dead' /\ dead'[i] = dead[i],
         NEW j \in Jobs \ {JobOf(w)}, status'[j] = status[j]
  PROVE  Kept(j)'
<1>1. Kept(j)
  BY KeptAll
<1>2. Entries(j)' \subseteq Entries(j)
  BY DEF Entries, Grows
<1>3. DeadLettered(j) => DeadLettered(j)'
  BY DEF DeadLettered
<1>4. ASSUME NEW i \in Carriers(j) PROVE Carriers(j)' # {}
  <2>1. i \in Unacked /\ i \in 1 .. Len(stream) /\ stream[i].job = j
    BY DEF Carriers, Entries, TypeInv, TypeOK
  <2>2. i # msg[w]
    BY <2>1 DEF JobOf, Held
  <2>3. msg'[w] # i
    BY <2>1, <2>2
  <2>4. i \in Carriers(j)'
    BY <2>1, <2>2, <2>3, CarrierStays
  <2>5. QED
    BY <2>4
<1>5. QED
  BY <1>1, <1>2, <1>3, <1>4 DEF Kept

\* The steps of a worker after which its own job is still in its hand, or back
\* in its pending list.
LEMMA UnsettledKept ==
  ASSUME TypeInv, NEW w \in Workers, pc[w] \notin Settling \cup {"idle"},
         \A v \in Workers : v # w => pc'[v] = pc[v] /\ msg'[v] = msg[v],
         Grows, Unacked \subseteq Unacked',
         msg'[w] = msg[w] => pc'[w] \notin Settling,
         msg'[w] \in {0, msg[w]},
         NEW j \in Jobs, j = JobOf(w)
  PROVE  Kept(j)'
<1>1. msg[w] \in Carriers(j) /\ msg[w] \in 1 .. Len(stream)
  BY HolderCarries, HeldMessage
<1>2. msg[w] \in Unacked'
  BY <1>1 DEF Carriers
<1>3. \E i \in Carriers(j) : i = msg[w]
  BY <1>1
<1>4. Carriers(j)' # {}
  BY <1>1, <1>2, <1>3, CarrierStays
<1>5. QED
  BY <1>4 DEF Kept

\* The steps of a worker that settles its message: the job does not count on
\* this entry any more.
LEMMA SettlingKept ==
  ASSUME TypeInv, NoJobLost, NEW w \in Workers, pc[w] \in Settling,
         \A v \in Workers : v # w => pc'[v] = pc[v] /\ msg'[v] = msg[v],
         msg'[w] \in {0, msg[w]},
         UNCHANGED <<status, stream, dead>>,
         \A i \in Unacked \ {msg[w]} : i \in Unacked'
  PROVE  NoJobLost'
<1>1. SUFFICES ASSUME NEW j \in Jobs PROVE Kept(j)'
  BY DEF NoJobLost, Kept
<1>2. Kept(j)
  BY KeptAll
<1>3. Grows
  BY DEF Grows
<1>4. ASSUME NEW i \in Carriers(j) PROVE Carriers(j)' # {}
  <2>1. i \in Unacked /\ i \in 1 .. Len(stream) /\ i # msg[w]
    BY DEF Carriers, Entries, BeingSettled, TypeInv, TypeOK
  <2>2. msg'[w] # i
    BY <2>1
  <2>3. i \in Carriers(j)'
    BY <1>3, <2>1, <2>2, CarrierStays
  <2>4. QED
    BY <2>3
<1>5. QED
  BY <1>2, <1>4 DEF Kept, Entries, DeadLettered

\* The step of a worker that keeps its message and goes on to call l: its job
\* is kept if the message is not settled yet, or if the row says how it ended,
\* or that it does not exist.
LEMMA GotoKept ==
  ASSUME TypeInv, NoJobLost, NEW w \in Workers,
         pc[w] \notin Settling \cup {"idle"},
         NEW l, pc' = [pc EXCEPT ![w] = l], msg' = msg,
         UNCHANGED <<stream, group, dead>>,
         \A j \in Jobs : j # JobOf(w) => status'[j] = status[j],
         \/ l \notin Settling
         \/ status'[JobOf(w)] \in Terminal \cup {"absent"}
  PROVE  NoJobLost'
<1>1. Grows /\ DOMAIN stream' \ DOMAIN stream = {}
  BY DEF Grows
<1>2. Unacked \subseteq Unacked'
  BY DEF Unacked, group
<1>3. /\ \A v \in Workers : v # w => pc'[v] = pc[v] /\ msg'[v] = msg[v]
      /\ msg'[w] = msg[w] /\ pc'[w] = l
  BY DEF TypeInv, TypeOK
<1>4. SUFFICES ASSUME NEW j \in Jobs PROVE Kept(j)'
  BY DEF NoJobLost, Kept
<1>5. CASE j # JobOf(w)
  <2>1. status'[j] = status[j] /\ j \in Jobs \ {JobOf(w)}
    BY <1>5
  <2>2. \A i \in DOMAIN dead : i \in DOMAIN dead' /\ dead'[i] = dead[i]
    OBVIOUS
  <2>3. QED
    BY <1>1, <1>2, <1>3, <2>1, <2>2, OthersKept
<1>6. CASE j = JobOf(w) /\ l \notin Settling
  BY <1>1, <1>2, <1>3, <1>6, UnsettledKept
<1>7. CASE j = JobOf(w) /\ status'[JobOf(w)] \in Terminal \cup {"absent"}
  BY <1>7 DEF Kept
<1>8. QED
  BY <1>5, <1>6, <1>7

LEMMA UpdateStatusEffect ==
  ASSUME TypeInv, NEW j \in Jobs, NEW s \in Status, NEW ok \in BOOLEAN,
         UpdateStatus(j, s, ok)
  PROVE  /\ \A k \in Jobs : k # j => status'[k] = status[k]
         /\ ok => status'[j] = s
<1>1. status \in [Jobs -> Status \cup {"absent"}]
  BY DEF TypeInv, TypeOK, Rows
<1>2. CASE ok = RowChanged(j, s) /\ status' = Written(j, s)
  BY <1>1, <1>2 DEF Written, RowChanged
<1>3. CASE ~ok /\ (status' = status \/ status' = Written(j, s))
  BY <1>1, <1>3 DEF Written
<1>4. QED
  BY <1>2, <1>3 DEF UpdateStatus

\* A failed attempt goes on to a retry or to the dead letter.
LEMMA FailGoes ==
  ASSUME NEW w \in Workers, NEW retryable \in BOOLEAN, Fail(w, retryable)
  PROVE  \E l \in {"requeue", "markFailed"} : pc' = [pc EXCEPT ![w] = l]
BY DEF Fail, GiveUp, Goto

LEMMA ProcessKept ==
  ASSUME TypeInv, NoJobLost, RowsVisible, NEW w \in Workers, Process(w)
  PROVE  NoJobLost'
<1>1. {"lookup", "markRunning", "stampStarted", "analyze", "saveAnalysis",
       "markCompleted", "requeue", "markFailed"}
         \cap (Settling \cup {"idle"}) = {}
  BY DEF Settling, AckPcs
<1>2. pc[w] # "idle"
  BY DEF Process, LookUp, MarkRunning, StampStarted, Analyze, SaveAnalysis,
         MarkCompleted, StampCompleted
<1>3. JobOf(w) \in Jobs
  BY <1>2, HeldMessage
<1>4. CASE LookUp(w)
  <2>1. /\ pc[w] = "lookup"
        /\ UNCHANGED <<store, stream, group, dead, msg, reason, sub, uptime>>
    BY <1>4 DEF LookUp
  <2>2. ~Fault("select_failed")
    BY DEF Fault, RowsVisible
  <2>3. Goto(w, CASE status[JobOf(w)] = "absent"    -> "ackUnknown"
                  [] status[JobOf(w)] \in Terminal  -> "ackTerminal"
                  [] status[JobOf(w)] = "RUNNING"   -> "analyze"
                  [] OTHER                          -> "markRunning")
    BY <1>4, <2>2 DEF LookUp
  <2>4. PICK l \in {"ackUnknown", "ackTerminal", "analyze", "markRunning"} :
          /\ pc' = [pc EXCEPT ![w] = l]
          /\ \/ l \in {"analyze", "markRunning"}
             \/ status[JobOf(w)] \in Terminal \cup {"absent"}
    BY <2>3 DEF Goto, Terminal
  <2>5. status' = status
    BY <2>1 DEF store
  <2>6. QED
    BY <1>1, <2>1, <2>4, <2>5, GotoKept
<1>5. CASE MarkRunning(w)
  <2>1. PICK ok \in BOOLEAN :
          /\ UpdateStatus(JobOf(w), "RUNNING", ok)
          /\ IF ok THEN Goto(w, "stampStarted") /\ UNCHANGED reason
                   ELSE Fail(w, TRUE)
    BY <1>5 DEF MarkRunning
  <2>2. /\ pc[w] = "markRunning" /\ msg' = msg
        /\ UNCHANGED <<stream, group, dead>>
    BY <1>5 DEF MarkRunning
  <2>3. PICK l \in {"stampStarted", "requeue", "markFailed"} :
          pc' = [pc EXCEPT ![w] = l]
    BY <2>1, FailGoes DEF Goto
  <2>4. \A j \in Jobs : j # JobOf(w) => status'[j] = status[j]
    BY <2>1, <1>3, UpdateStatusEffect DEF Status
  <2>5. QED
    BY <1>1, <2>2, <2>3, <2>4, GotoKept
<1>6. CASE StampStarted(w)
  <2>1. /\ pc[w] = "stampStarted" /\ pc' = [pc EXCEPT ![w] = "analyze"]
        /\ UNCHANGED <<status, stream, group, dead, msg>>
    BY <1>6 DEF StampStarted, Goto
  <2>2. QED
    BY <1>1, <2>1, GotoKept
<1>7. CASE Analyze(w)
  <2>1. /\ pc[w] = "analyze"
        /\ UNCHANGED <<status, stream, group, dead, msg>>
    BY <1>7 DEF Analyze, store
  <2>2. \/ Goto(w, "saveAnalysis")
        \/ \E retryable \in BOOLEAN : Fail(w, retryable)
    BY <1>7 DEF Analyze
  <2>3. PICK l \in {"saveAnalysis", "requeue", "markFailed"} :
          pc' = [pc EXCEPT ![w] = l]
    BY <2>2, FailGoes DEF Goto
  <2>4. QED
    BY <1>1, <2>1, <2>3, GotoKept
<1>8. CASE SaveAnalysis(w)
  <2>1. /\ pc[w] = "saveAnalysis" /\ pc' = [pc EXCEPT ![w] = "markCompleted"]
        /\ UNCHANGED <<status, stream, group, dead, msg>>
    BY <1>8 DEF SaveAnalysis, Goto
  <2>2. QED
    BY <1>1, <2>1, GotoKept
<1>9. CASE MarkCompleted(w)
  <2>1. PICK ok \in BOOLEAN :
          /\ UpdateStatus(JobOf(w), "COMPLETED", ok)
          /\ IF ok THEN Goto(w, "stampCompleted") /\ UNCHANGED reason
                   ELSE Fail(w, TRUE)
    BY <1>9 DEF MarkCompleted
  <2>2. /\ pc[w] = "markCompleted" /\ msg' = msg
        /\ UNCHANGED <<stream, group, dead>>
    BY <1>9 DEF MarkCompleted
  <2>3. /\ \A j \in Jobs : j # JobOf(w) => status'[j] = status[j]
        /\ ok => status'[JobOf(w)] = "COMPLETED"
    BY <2>1, <1>3, UpdateStatusEffect DEF Status
  <2>4. PICK l \in {"stampCompleted", "requeue", "markFailed"} :
          /\ pc' = [pc EXCEPT ![w] = l]
          /\ l = "stampCompleted" => ok
    BY <2>1, FailGoes DEF Goto
  <2>5. QED
    BY <1>1, <2>2, <2>3, <2>4, GotoKept DEF Terminal
<1>10. CASE StampCompleted(w)
  <2>1. /\ pc[w] = "stampCompleted" /\ pc' = [pc EXCEPT ![w] = "ackDone"]
        /\ msg' = msg /\ UNCHANGED <<status, stream, dead, group>>
    BY <1>10 DEF StampCompleted, Goto
  <2>2. \A v \in Workers : v # w => pc'[v] = pc[v] /\ msg'[v] = msg[v]
    BY <2>1 DEF TypeInv, TypeOK
  <2>3. \A i \in Unacked \ {msg[w]} : i \in Unacked'
    BY <2>1 DEF Unacked, group
  <2>4. pc[w] \in Settling /\ msg'[w] \in {0, msg[w]}
    BY <2>1 DEF Settling
  <2>5. QED
    BY <2>1, <2>2, <2>3, <2>4, SettlingKept
<1>11. QED
  BY <1>4, <1>5, <1>6, <1>7, <1>8, <1>9, <1>10 DEF Process

\* The step of a worker that lets go of a message it has not settled: the
\* message stays pending, and the worker reads it again.
LEMMA ReleaseKept ==
  ASSUME TypeInv, NoJobLost, NEW w \in Workers,
         pc[w] \notin Settling \cup {"idle"}, Release(w),
         UNCHANGED <<status, group>>, stream' \in Seq(Message),
         Grows, Len(stream) <= Len(stream'),
         \A i \in DOMAIN stream' \ DOMAIN stream : stream'[i].job = JobOf(w),
         \A i \in DOMAIN dead : i \in DOMAIN dead' /\ dead'[i] = dead[i]
  PROVE  NoJobLost'
<1>1. Unacked \subseteq Unacked'
  BY UnackedStays
<1>2. /\ \A v \in Workers : v # w => pc'[v] = pc[v] /\ msg'[v] = msg[v]
      /\ msg'[w] = 0 /\ pc'[w] = "idle" /\ "idle" \notin Settling
  BY DEF Release, Goto, TypeInv, TypeOK, Settling, AckPcs
<1>3. SUFFICES ASSUME NEW j \in Jobs PROVE Kept(j)'
  BY DEF NoJobLost, Kept
<1>4. CASE j # JobOf(w)
  BY <1>1, <1>2, <1>4, OthersKept
<1>5. CASE j = JobOf(w)
  BY <1>1, <1>2, <1>5, UnsettledKept
<1>6. QED
  BY <1>4, <1>5

LEMMA SettleKept ==
  ASSUME TypeInv, NoJobLost, NEW w \in Workers, Settle(w)
  PROVE  NoJobLost'
<1>1. {"requeue", "republish", "markFailed", "stampFailed", "deadLetter"}
         \cap (Settling \cup {"idle"}) = {}
  BY DEF Settling, AckPcs
<1>2. pc[w] # "idle"
  BY DEF Settle, Requeue, Republish, MarkFailed, StampFailed,
         PublishDeadLetter, Ack, AckPcs
<1>3. JobOf(w) \in Jobs /\ Held(w) \in Message /\ msg[w] \in Nat
  BY <1>2, HeldMessage
<1>4. CASE Requeue(w)
  <2>1. /\ pc[w] = "requeue" /\ pc' = [pc EXCEPT ![w] = "republish"]
        /\ UNCHANGED <<stream, group, dead, msg>>
    BY <1>4 DEF Requeue, Goto
  <2>2. \A j \in Jobs : j # JobOf(w) => status'[j] = status[j]
    BY <1>3, <1>4, UpdateStatusEffect DEF Requeue, Status
  <2>3. QED
    BY <1>1, <2>1, <2>2, GotoKept
<1>5. CASE Republish(w)
  <2> DEFINE m == [job |-> JobOf(w), attempt |-> Held(w).attempt + 1]
  <2>1. PICK ok \in BOOLEAN :
          /\ Xadd(m, ok)
          /\ IF ok THEN Goto(w, "ackRetried") /\ UNCHANGED <<msg, reason>>
                   ELSE Release(w)
    BY <1>5 DEF Republish
  <2>2. pc[w] = "republish" /\ UNCHANGED <<status, group, dead>>
    BY <1>5 DEF Republish, store
  <2>3. m \in Message /\ m.job = JobOf(w)
    BY <1>3 DEF Message
  <2>4. /\ ok => stream' = Append(stream, m)
        /\ stream' = stream \/ stream' = Append(stream, m)
        /\ stream' \in Seq(Message)
    BY <2>1, <2>3, XaddType
  <2>5. /\ Grows /\ Len(stream) <= Len(stream')
        /\ \A i \in DOMAIN stream' \ DOMAIN stream : stream'[i].job = JobOf(w)
    <3> HIDE DEF m
    <3>1. QED
      BY <2>3, <2>4, XaddGrows
  <2> HIDE DEF m
  <2>6. CASE ~ok
    BY <1>1, <2>1, <2>2, <2>4, <2>5, <2>6, ReleaseKept
  <2>7. CASE ok
    <3>1. /\ \A v \in Workers : v # w => pc'[v] = pc[v] /\ msg'[v] = msg[v]
          /\ msg'[w] \in {0, msg[w]} /\ msg' = msg
      BY <2>1, <2>7 DEF Goto, TypeInv, TypeOK
    <3>2. Unacked \subseteq Unacked'
      BY <2>2, <2>4, <2>5, UnackedStays
    <3>3. SUFFICES ASSUME NEW j \in Jobs PROVE Kept(j)'
      BY DEF NoJobLost, Kept
    <3>4. CASE j # JobOf(w)
      BY <1>2, <2>2, <2>5, <3>1, <3>2, <3>4, OthersKept
    <3>5. CASE j = JobOf(w)
      <4>1. PICK n \in Message : n = m
        BY <2>3
      <4>2. Carriers(n.job)' # {}
        BY <2>2, <2>4, <2>7, <3>1, <4>1, NewCarrier
      <4>3. QED
        BY <2>3, <3>5, <4>1, <4>2 DEF Kept
    <3>6. QED
      BY <3>4, <3>5
  <2>8. QED
    BY <2>6, <2>7
<1>6. CASE MarkFailed(w)
  <2>1. /\ pc[w] = "markFailed" /\ pc' = [pc EXCEPT ![w] = "stampFailed"]
        /\ UNCHANGED <<stream, group, dead, msg>>
    BY <1>6 DEF MarkFailed, Goto
  <2>2. \A j \in Jobs : j # JobOf(w) => status'[j] = status[j]
    BY <1>3, <1>6, UpdateStatusEffect DEF MarkFailed, Status
  <2>3. QED
    BY <1>1, <2>1, <2>2, GotoKept
<1>7. CASE StampFailed(w)
  <2>1. /\ pc[w] = "stampFailed" /\ pc' = [pc EXCEPT ![w] = "deadLetter"]
        /\ UNCHANGED <<status, stream, group, dead, msg>>
    BY <1>7 DEF StampFailed, Goto
  <2>2. QED
    BY <1>1, <2>1, GotoKept
<1>8. CASE PublishDeadLetter(w)
  <2> DEFINE d == [job |-> JobOf(w), attempt |-> Held(w).attempt,
                   id |-> msg[w], reason |-> reason[w]]
  <2>1. PICK ok \in BOOLEAN :
          /\ XaddDead(d, ok)
          /\ IF ok THEN Goto(w, "ackDead") /\ UNCHANGED <<msg, reason>>
                   ELSE Release(w)
    BY <1>8 DEF PublishDeadLetter
  <2>2. pc[w] = "deadLetter" /\ UNCHANGED <<status, stream, group>>
    BY <1>8 DEF PublishDeadLetter, store
  <2>3. d \in DeadLetter /\ d.job = JobOf(w)
    BY <1>3, <2>2 DEF Message, DeadLetter, TypeInv, ReasonGiven
  <2>4. /\ dead' = dead \/ dead' = Append(dead, d)
        /\ ok => dead' = Append(dead, d)
        /\ dead \in Seq(DeadLetter)
    BY <2>1, <2>3, XaddDeadType DEF TypeInv, TypeOK
  <2> HIDE DEF d
  <2>5. \A i \in DOMAIN dead : i \in DOMAIN dead' /\ dead'[i] = dead[i]
    <3>1. CASE dead' = dead
      BY <3>1
    <3>2. CASE dead' = Append(dead, d)
      <4>1. /\ DOMAIN dead = 1 .. Len(dead) /\ Len(dead) \in Nat
            /\ DOMAIN dead' = 1 .. Len(dead) + 1
        BY <2>4, <3>2
      <4>2. \A i \in 1 .. Len(dead) : dead'[i] = dead[i]
        BY <2>4, <3>2
      <4>3. QED
        BY <4>1, <4>2
    <3>3. QED
      BY <2>4, <3>1, <3>2
  <2>6. Grows /\ DOMAIN stream' \ DOMAIN stream = {} /\ stream' \in Seq(Message)
        /\ Len(stream) <= Len(stream')
    BY <2>2 DEF Grows, TypeInv, TypeOK
  <2>7. CASE ~ok
    BY <1>1, <2>1, <2>2, <2>5, <2>6, <2>7, ReleaseKept
  <2>8. CASE ok
    <3>1. /\ \A v \in Workers : v # w => pc'[v] = pc[v] /\ msg'[v] = msg[v]
          /\ msg'[w] \in {0, msg[w]}
      BY <2>1, <2>8 DEF Goto, TypeInv, TypeOK
    <3>2. Unacked \subseteq Unacked'
      BY <2>2, <2>6, UnackedStays
    <3>3. \E i \in DOMAIN dead' : dead'[i].job = JobOf(w)
      <4>1. Len(dead) + 1 \in DOMAIN dead' /\ dead'[Len(dead) + 1] = d
        BY <2>4, <2>8
      <4>2. QED
        BY <2>3, <4>1
    <3>4. SUFFICES ASSUME NEW j \in Jobs PROVE Kept(j)'
      BY DEF NoJobLost, Kept
    <3>5. CASE j # JobOf(w)
      BY <1>2, <2>2, <2>5, <2>6, <3>1, <3>2, <3>5, OthersKept
    <3>6. CASE j = JobOf(w)
      BY <3>3, <3>6 DEF Kept, DeadLettered
    <3>7. QED
      BY <3>5, <3>6
  <2>9. QED
    BY <2>7, <2>8
<1>9. CASE Ack(w)
  <2>1. /\ pc[w] \in AckPcs /\ Release(w)
        /\ UNCHANGED <<status, stream, dead, delivered>>
        /\ pel' = pel \/ pel' = [pel EXCEPT ![w] = @ \ {msg[w]}]
    BY <1>9 DEF Ack, store
  <2>2. /\ \A v \in Workers : v # w => pc'[v] = pc[v] /\ msg'[v] = msg[v]
        /\ msg'[w] \in {0, msg[w]}
    BY <2>1 DEF Release, Goto, TypeInv, TypeOK
  <2>3. \A v \in Workers : pel[v] \ {msg[w]} \subseteq pel'[v]
    BY <2>1 DEF TypeInv, TypeOK
  <2>4. \A i \in Unacked \ {msg[w]} : i \in Unacked'
    BY <2>1, <2>3 DEF Unacked
  <2>5. QED
    BY <2>1, <2>2, <2>4, SettlingKept DEF Settling
<1>10. QED
  BY <1>4, <1>5, <1>6, <1>7, <1>8, <1>9 DEF Settle

LEMMA ConsumeKept ==
  ASSUME TypeInv, NoJobLost, NEW w \in Workers, Consume(w)
  PROVE  NoJobLost'
<1>1. UNCHANGED <<status, stream, dead>>
  BY DEF Consume, ConsumePending, ConsumeFresh, ConsumeNothing, vars, store
<1>2. /\ \A v \in Workers : v # w => pc'[v] = pc[v] /\ msg'[v] = msg[v]
      /\ pc'[w] \notin Settling
  <2>1. pc[w] = "idle"
    BY DEF Consume, ConsumePending, ConsumeFresh, ConsumeNothing
  <2>2. \/ \E i : pc' = [pc EXCEPT ![w] = "lookup"] /\ msg' = [msg EXCEPT ![w] = i]
        \/ pc' = pc /\ msg' = msg
    BY DEF Consume, ConsumePending, ConsumeFresh, ConsumeNothing, Hold, Goto,
           vars, worker
  <2>3. QED
    BY <2>1, <2>2 DEF Settling, AckPcs, TypeInv, TypeOK
<1>3. Unacked \subseteq Unacked'
  <2>1. CASE UNCHANGED group
    BY <1>1, <2>1 DEF Unacked, group
  <2>2. CASE ConsumeFresh(w)
    <3>1. /\ pel[w] = {} /\ delivered' = delivered + 1
          /\ pel' = [pel EXCEPT ![w] = {delivered + 1}]
      BY <2>2 DEF ConsumeFresh
    <3>2. delivered \in Nat /\ Len(stream) \in Nat
      BY DEF TypeInv, TypeOK
    <3>3. \A v \in Workers : pel[v] \subseteq pel'[v]
      BY <3>1 DEF TypeInv, TypeOK
    <3>4. delivered + 1 \in pel'[w]
      BY <3>1 DEF TypeInv, TypeOK
    <3>5. \A i \in delivered + 1 .. Len(stream) :
            i = delivered + 1 \/ i \in delivered' + 1 .. Len(stream)
      BY <3>1, <3>2
    <3>6. QED
      BY <1>1, <3>3, <3>4, <3>5 DEF Unacked
  <2>3. QED
    BY <2>1, <2>2 DEF Consume, ConsumePending, ConsumeNothing, vars
<1>4. SUFFICES ASSUME NEW j \in Jobs PROVE Kept(j)'
  BY DEF NoJobLost, Kept
<1>5. Kept(j) /\ Grows
  BY <1>1, KeptAll DEF Grows
<1>6. \A i \in Carriers(j) : i \in Carriers(j)'
  BY <1>2, <1>3, <1>5, CarrierStays DEF Carriers
<1>7. QED
  BY <1>1, <1>5, <1>6 DEF Kept, Entries, DeadLettered

\* A request leaves the workers alone, and stores its job before it publishes
\* it.
LEMMA RequestKept ==
  ASSUME TypeInv, NoJobLost, PublishedAfterSave, NEW j \in Jobs, Request(j)
  PROVE  NoJobLost' /\ PublishedAfterSave'
<1>1. UNCHANGED <<pc, msg, dead, group>>
  BY DEF Request, SaveJob, CheckBacklog, PublishFirst, worker
<1>2. CASE UNCHANGED stream
  <2>1. /\ \A k \in Jobs : Entries(k)' = Entries(k) /\ Carriers(k)' = Carriers(k)
        /\ \A k \in Jobs : DeadLettered(k)' = DeadLettered(k)
    BY <1>1, <1>2
    DEF Entries, Carriers, Unacked, BeingSettled, DeadLettered, group
  <2>2. \A k \in Jobs : status'[k] = status[k] \/ Entries(k) = {}
    BY DEF Request, SaveJob, CheckBacklog, PublishFirst, store,
           PublishedAfterSave, TypeInv, TypeOK, Rows
  <2>3. \A k \in Jobs : sub'[k] = "new" => sub[k] = "new"
    BY DEF Request, SaveJob, CheckBacklog, PublishFirst, TypeInv, TypeOK
  <2>4. QED
    BY <2>1, <2>2, <2>3 DEF NoJobLost, PublishedAfterSave
<1>3. CASE PublishFirst(j)
  <2> DEFINE m == [job |-> j, attempt |-> 0]
  <2>1. PICK ok \in BOOLEAN :
          /\ Xadd(m, ok)
          /\ sub' = [sub EXCEPT ![j] = IF ok THEN "accepted" ELSE "rejected"]
    BY <1>3 DEF PublishFirst
  <2>2. m \in Message /\ m.job = j
    BY DEF Message
  <2>3. status' = status
    BY <1>3 DEF PublishFirst, store
  <2> HIDE DEF m
  <2>4. CASE stream' = stream
    BY <1>2, <2>4
  <2>5. CASE stream' = Append(stream, m)
    <3>1. /\ Grows /\ Len(stream) <= Len(stream') /\ stream' \in Seq(Message)
          /\ \A i \in DOMAIN stream' \ DOMAIN stream : stream'[i] = m
      BY <2>2, <2>5, XaddGrows DEF TypeInv, TypeOK
    <3>2. Unacked \subseteq Unacked'
      BY <1>1, <3>1, UnackedStays
    <3>3. ASSUME NEW k \in Jobs PROVE Kept(k)'
      <4>1. CASE k = j
        BY <1>1, <2>2, <2>5, <4>1, NewCarrier DEF Kept
      <4>2. CASE k # j
        <5>1. Kept(k) /\ Entries(k)' \subseteq Entries(k)
          BY <2>2, <3>1, <4>2, KeptAll DEF Entries, Grows
        <5>2. \A i \in Carriers(k) : i \in Carriers(k)'
          <6>1. SUFFICES ASSUME NEW i \in Carriers(k) PROVE i \in Carriers(k)'
            OBVIOUS
          <6>2. i \in Unacked' /\ i \in Entries(k)'
            BY <3>1, <3>2 DEF Carriers, Entries, Grows
          <6>3. ~BeingSettled(i)'
            BY <1>1 DEF Carriers, BeingSettled
          <6>4. QED
            BY <6>2, <6>3 DEF Carriers
        <5>3. QED
          BY <1>1, <2>3, <5>1, <5>2 DEF Kept, DeadLettered
      <4>3. QED
        BY <4>1, <4>2
    <3>4. NoJobLost'
      BY <3>3 DEF NoJobLost, Kept
    <3>5. PublishedAfterSave'
      <4>1. \A k \in Jobs : k # j => Entries(k)' \subseteq Entries(k)
        BY <2>2, <3>1 DEF Entries, Grows
      <4>2. sub'[j] # "new" /\ \A k \in Jobs : k # j => sub'[k] = sub[k]
        BY <2>1 DEF TypeInv, TypeOK
      <4>3. QED
        BY <4>1, <4>2 DEF PublishedAfterSave
    <3>6. QED
      BY <3>4, <3>5
  <2>6. QED
    BY <2>1, <2>4, <2>5 DEF Xadd
<1>4. QED
  BY <1>2, <1>3 DEF Request, SaveJob, CheckBacklog

\* A restart brings every pending message back to a worker that has nothing in
\* hand; the in-memory rows are gone.
LEMMA CrashKept ==
  ASSUME TypeInv, NoJobLost, shelved = {}, PublishedAfterSave, RowsVisible,
         Crash
  PROVE  NoJobLost' /\ shelved' = {} /\ PublishedAfterSave'
<1>1. UNCHANGED <<stream, delivered, pel, dead>>
  BY DEF Crash, group
<1>2. \A i : ~BeingSettled(i)'
  BY DEF Crash, BeingSettled, Settling, AckPcs
<1>3. \A k \in Jobs : /\ Entries(k)' = Entries(k)
                      /\ Carriers(k) \subseteq Carriers(k)'
                      /\ DeadLettered(k)' = DeadLettered(k)
  BY <1>1, <1>2 DEF Entries, Carriers, Unacked, DeadLettered
<1>4. ReopenMySQL \/ ReopenMemory
  BY DEF Crash, FallBack, ComeBack, RowsVisible
<1>5. status' = status \/ \A k \in Jobs : status'[k] = "absent"
  BY <1>4 DEF ReopenMySQL, ReopenMemory, store, Open, EmptyTables
<1>6. shelved' = {}
  BY <1>4 DEF ReopenMySQL, ReopenMemory
<1>7. NoJobLost'
  BY <1>3, <1>5 DEF NoJobLost
<1>8. PublishedAfterSave'
  BY <1>3 DEF Crash, PublishedAfterSave
<1>9. QED
  BY <1>6, <1>7, <1>8

\* A worker publishes only jobs that are in the stream already.
LEMMA WorkerPublishes ==
  ASSUME TypeInv, shelved = {}, PublishedAfterSave, NEW w \in Workers,
         WorkerStep(w)
  PROVE  shelved' = {} /\ PublishedAfterSave'
<1>1. UNCHANGED <<sub, shelved>>
  BY DEF WorkerStep, Consume, ConsumePending, ConsumeFresh, ConsumeNothing,
         Process, LookUp, MarkRunning, StampStarted, Analyze, SaveAnalysis,
         MarkCompleted, StampCompleted, Settle, Requeue, Republish, MarkFailed,
         StampFailed, PublishDeadLetter, Ack, vars, uptime
<1>2. CASE UNCHANGED stream
  BY <1>1, <1>2 DEF PublishedAfterSave, Entries
<1>3. CASE Republish(w)
  <2> DEFINE m == [job |-> JobOf(w), attempt |-> Held(w).attempt + 1]
  <2>1. pc[w] # "idle"
    BY <1>3 DEF Republish
  <2>2. /\ JobOf(w) \in Jobs /\ Held(w) \in Message
        /\ msg[w] \in Entries(JobOf(w))
    BY <2>1, HeldMessage DEF Entries, Held, JobOf, TypeInv, TypeOK
  <2>3. m \in Message /\ m.job = JobOf(w)
    BY <2>2 DEF Message
  <2>4. stream' = stream \/ stream' = Append(stream, m)
    BY <1>3, <2>3, XaddType DEF Republish
  <2> HIDE DEF m
  <2>5. /\ Grows
        /\ \A i \in DOMAIN stream' \ DOMAIN stream : stream'[i] = m
    BY <2>3, <2>4, XaddGrows
  <2>6. \A k \in Jobs : k # JobOf(w) => Entries(k)' \subseteq Entries(k)
    BY <2>3, <2>5 DEF Entries, Grows
  <2>7. sub[JobOf(w)] # "new"
    BY <2>2 DEF PublishedAfterSave
  <2>8. QED
    BY <1>1, <2>6, <2>7 DEF PublishedAfterSave
<1>4. QED
  BY <1>1, <1>2, <1>3
  DEF WorkerStep, Consume, ConsumePending, ConsumeFresh, ConsumeNothing,
      Process, LookUp, MarkRunning, StampStarted, Analyze, SaveAnalysis,
      MarkCompleted, StampCompleted, Settle, Requeue, MarkFailed, StampFailed,
      PublishDeadLetter, Ack, vars

-----------------------------------------------------------------------------
LEMMA LossInit == RowsVisible /\ Init => LossInv
<1> SUFFICES ASSUME RowsVisible, Init PROVE LossInv
  OBVIOUS
<1>1. TypeInv
  BY TypeInit
<1>2. \A j \in Jobs : Entries(j) = {}
  BY DEF Init, Entries
<1>3. shelved = {}
  BY DEF Init, RowsVisible
<1>4. QED
  BY <1>1, <1>2, <1>3 DEF LossInv, NoJobLost, PublishedAfterSave

LEMMA LossStep == RowsVisible /\ LossInv /\ [Next]_vars => LossInv'
<1> SUFFICES ASSUME RowsVisible, LossInv, [Next]_vars PROVE LossInv'
  OBVIOUS
<1>1. TypeInv /\ NoJobLost /\ shelved = {} /\ PublishedAfterSave
  BY DEF LossInv
<1>2. TypeInv'
  BY <1>1, TypeStep
<1>3. ASSUME NEW j \in Jobs, Request(j) PROVE LossInv'
  <2>1. shelved' = {}
    BY <1>1, <1>3
    DEF Request, SaveJob, CheckBacklog, PublishFirst, uptime
  <2>2. QED
    BY <1>1, <1>2, <1>3, <2>1, RequestKept DEF LossInv
<1>4. ASSUME NEW w \in Workers, WorkerStep(w) PROVE LossInv'
  <2>1. NoJobLost'
    BY <1>1, <1>4, ConsumeKept, ProcessKept, SettleKept DEF WorkerStep
  <2>2. QED
    BY <1>1, <1>2, <1>4, <2>1, WorkerPublishes DEF LossInv
<1>5. CASE Crash
  BY <1>1, <1>2, <1>5, CrashKept DEF LossInv
<1>6. CASE UNCHANGED vars
  <2>1. UNCHANGED <<status, stream, delivered, pel, dead, pc, msg, sub, shelved>>
    BY <1>6 DEF vars, store, group, worker, uptime
  <2>2. NoJobLost' /\ PublishedAfterSave' /\ shelved' = {}
    BY <1>1, <2>1 DEF NoJobLost, PublishedAfterSave, Entries, Carriers, Unacked,
                      BeingSettled, DeadLettered
  <2>3. QED
    BY <1>2, <2>2 DEF LossInv
<1>7. QED
  BY <1>3, <1>4, <1>5, <1>6 DEF Next

\* No published job is lost while its row can be read: it has ended, or it has
\* a dead letter, or an entry that some worker still has to deal with. Redis
\* and MySQL may refuse any other call or lose any other answer, and the
\* backend may crash at any step (publishJob, workerLoop,
\* handleRetryOrDeadLetter).
THEOREM NoLoss ==
  ASSUME RowsVisible
  PROVE  Spec => []NoJobLost
<1>1. Init => LossInv
  BY LossInit
<1>2. LossInv /\ [Next]_vars => LossInv'
  BY LossStep
<1>3. LossInv => NoJobLost
  BY DEF LossInv
<1>4. QED
  BY <1>1, <1>2, <1>3, PTL DEF Spec

-----------------------------------------------------------------------------
(* Retries *)


\* The attempts 0 .. a of job j have been published.
Chained(j, a) == \A b \in 0 .. a : \E k \in Entries(j) : stream[k].attempt = b

\* Attempts are published in order, up to MaxRetries.
Chains ==
  \A i \in DOMAIN stream :
    stream[i].attempt <= MaxRetries /\ Chained(stream[i].job, stream[i].attempt)

\* What a worker knows about the attempt in its hand: a retry is left, or the
\* reason it gives is true.
Counted(w) ==
  /\ pc[w] \in {"requeue", "republish"} => Held(w).attempt < MaxRetries
  /\ pc[w] \in Failing /\ reason[w] = "max_retry_exceeded" =>
       Held(w).attempt = MaxRetries

RetryInv ==
  TypeInv /\ RetriesExhausted /\ Chains /\ \A w \in Workers : Counted(w)

LEMMA ExhaustedChains ==
  RetriesExhausted <=>
    \A i \in DOMAIN dead :
      dead[i].reason = "max_retry_exceeded" =>
        dead[i].attempt = MaxRetries /\ Chained(dead[i].job, MaxRetries)
BY DEF RetriesExhausted, Chained

LEMMA ChainedStays ==
  ASSUME Grows, NEW j, NEW a, Chained(j, a)
  PROVE  Chained(j, a)'
<1>1. Entries(j) \subseteq Entries(j)'
  BY DEF Entries, Grows
<1>2. \A k \in Entries(j) : stream'[k] = stream[k]
  BY DEF Entries, Grows
<1>3. QED
  BY <1>1, <1>2 DEF Chained

\* A message is published with attempt 0, or with the attempt that follows one
\* already published.
LEMMA XaddChains ==
  ASSUME TypeInv, Chains, NEW m \in Message,
         stream' = stream \/ stream' = Append(stream, m),
         m.attempt <= MaxRetries,
         \/ m.attempt = 0
         \/ Chained(m.job, m.attempt - 1)
  PROVE  Chains'
<1>1. CASE stream' = stream
  BY <1>1 DEF Chains, Chained, Entries
<1>2. CASE stream' = Append(stream, m)
  <2>1. Grows /\ \A i \in DOMAIN stream' \ DOMAIN stream : stream'[i] = m
    BY XaddGrows
  <2>2. Len(stream) + 1 \in DOMAIN stream' /\ stream'[Len(stream) + 1] = m
    BY <1>2 DEF TypeInv, TypeOK
  <2>3. Len(stream) + 1 \in Entries(m.job)'
    BY <2>2 DEF Entries
  <2>4. ASSUME NEW b \in 0 .. m.attempt
        PROVE  \E k \in Entries(m.job)' : stream'[k].attempt = b
    <3>1. m.attempt \in Nat
      BY DEF Message
    <3>2. CASE b = m.attempt
      BY <2>2, <2>3, <3>2
    <3>3. CASE b # m.attempt
      <4>1. b \in 0 .. (m.attempt - 1) /\ m.attempt # 0
        BY <3>1, <3>3
      <4>2. Chained(m.job, m.attempt - 1)'
        BY <2>1, <4>1, ChainedStays
      <4>3. QED
        BY <4>1, <4>2 DEF Chained
    <3>4. QED
      BY <3>2, <3>3
  <2>5. Chained(m.job, m.attempt)'
    BY <2>4 DEF Chained
  <2>6. ASSUME NEW i \in DOMAIN stream
        PROVE  /\ stream'[i].attempt <= MaxRetries
               /\ Chained(stream[i].job, stream[i].attempt)'
    <3>1. /\ stream[i].attempt <= MaxRetries
          /\ Chained(stream[i].job, stream[i].attempt)
      BY DEF Chains
    <3>2. stream'[i] = stream[i]
      BY <2>1 DEF Grows
    <3>3. \A j, a : Chained(j, a) => Chained(j, a)'
      BY <2>1, ChainedStays
    <3>4. QED
      BY <3>1, <3>2, <3>3
  <2>7. QED
    BY <2>1, <2>5, <2>6 DEF Chains, Grows
<1>3. QED
  BY <1>1, <1>2

-----------------------------------------------------------------------------
(* What each worker knows *)

LEMMA CountedStays ==
  ASSUME TypeInv, Grows, NEW w \in Workers, Counted(w),
         msg'[w] = msg[w],
         \/ pc'[w] = pc[w] /\ reason'[w] = reason[w]
         \/ pc[w] = "requeue" /\ pc'[w] = "republish"
         \/ pc[w] \in Failing /\ pc'[w] \in Failing /\ reason'[w] = reason[w]
  PROVE  Counted(w)'
<1>1. CASE pc[w] = "idle"
  BY <1>1 DEF Counted, Failing
<1>2. CASE pc[w] # "idle"
  <2>1. msg[w] \in DOMAIN stream
    BY <1>2, HeldMessage DEF TypeInv, TypeOK
  <2>2. Held(w)' = Held(w)
    BY <2>1 DEF Held, Grows
  <2>3. QED
    BY <2>2 DEF Counted, Failing
<1>3. QED
  BY <1>1, <1>2

LEMMA CountedElsewhere ==
  ASSUME NEW w \in Workers,
         pc'[w] \notin Failing \cup {"requeue", "republish"}
  PROVE  Counted(w)'
BY DEF Counted

LEMMA FailCounts ==
  ASSUME TypeInv, Chains, PipelineAssumption, NEW w \in Workers,
         pc[w] # "idle",
         NEW retryable \in BOOLEAN, Fail(w, retryable), UNCHANGED <<stream, msg>>
  PROVE  Counted(w)'
<1>1. msg[w] \in DOMAIN stream /\ Held(w) \in Message
  BY HeldMessage DEF TypeInv, TypeOK
<1>2. Held(w).attempt \in Nat /\ Held(w).attempt <= MaxRetries
  BY <1>1 DEF Chains, Held, Message
<1>3. Held(w)' = Held(w)
  BY DEF Held
<1>4. CASE ~retryable
  <2>1. reason'[w] = "non_retryable" /\ pc'[w] = "markFailed"
    BY <1>4 DEF Fail, GiveUp, Goto, TypeInv, TypeOK
  <2>2. QED
    BY <2>1 DEF Counted
<1>5. CASE retryable /\ Held(w).attempt + 1 <= MaxRetries
  <2>1. pc'[w] = "requeue"
    BY <1>5 DEF Fail, Goto, TypeInv, TypeOK
  <2>2. Held(w).attempt < MaxRetries
    BY <1>2, <1>5, PipelineAssumption
  <2>3. QED
    BY <1>3, <2>1, <2>2 DEF Counted, Failing
<1>6. CASE retryable /\ ~(Held(w).attempt + 1 <= MaxRetries)
  <2>1. pc'[w] = "markFailed"
    BY <1>6 DEF Fail, GiveUp, Goto, TypeInv, TypeOK
  <2>2. Held(w).attempt = MaxRetries
    BY <1>2, <1>6, PipelineAssumption
  <2>3. QED
    BY <1>3, <2>1, <2>2 DEF Counted
<1>7. QED
  BY <1>4, <1>5, <1>6

\* A worker's step does not touch what the others hold.
LEMMA OthersStay ==
  ASSUME TypeInv, NEW w \in Workers, WorkerStep(w)
  PROVE  \A v \in Workers \ {w} :
           pc'[v] = pc[v] /\ msg'[v] = msg[v] /\ reason'[v] = reason[v]
<1>1. CASE Consume(w)
  BY <1>1 DEF Consume, ConsumePending, ConsumeFresh, ConsumeNothing, Hold,
              Goto, vars, worker, TypeInv, TypeOK
<1>2. CASE Process(w)
  BY <1>2 DEF Process, LookUp, MarkRunning, StampStarted, Analyze,
              SaveAnalysis, MarkCompleted, StampCompleted, Fail, GiveUp, Goto,
              TypeInv, TypeOK
<1>3. CASE Settle(w)
  BY <1>3 DEF Settle, Requeue, Republish, MarkFailed, StampFailed,
              PublishDeadLetter, Ack, Release, Goto, TypeInv, TypeOK
<1>4. QED
  BY <1>1, <1>2, <1>3 DEF WorkerStep

LEMMA OthersCounted ==
  ASSUME TypeInv, Grows, NEW w \in Workers, WorkerStep(w),
         NEW v \in Workers \ {w}, Counted(v)
  PROVE  Counted(v)'
BY OthersStay, CountedStays

LEMMA ConsumeCounted ==
  ASSUME TypeInv, NEW w \in Workers, Consume(w)
  PROVE  Counted(w)' /\ UNCHANGED <<stream, dead>>
<1>1. pc'[w] \in {"idle", "lookup"}
  BY DEF Consume, ConsumePending, ConsumeFresh, ConsumeNothing, Hold, Goto,
         vars, worker, TypeInv, TypeOK
<1>2. UNCHANGED <<stream, dead>>
  BY DEF Consume, ConsumePending, ConsumeFresh, ConsumeNothing, vars
<1>3. QED
  BY <1>1, <1>2, CountedElsewhere DEF Failing

LEMMA ProcessCounted ==
  ASSUME TypeInv, Chains, NEW w \in Workers, Process(w)
  PROVE  Counted(w)' /\ UNCHANGED <<stream, dead>>
<1>1. UNCHANGED <<stream, dead, msg>> /\ pc[w] # "idle"
  BY DEF Process, LookUp, MarkRunning, StampStarted, Analyze, SaveAnalysis,
         MarkCompleted, StampCompleted
<1>2. \/ \E l \in {"ackUnknown", "ackTerminal", "analyze", "markRunning",
                   "stampStarted", "saveAnalysis", "markCompleted",
                   "stampCompleted", "ackDone"} : Goto(w, l)
      \/ \E retryable \in BOOLEAN : Fail(w, retryable)
  BY DEF Process, LookUp, MarkRunning, StampStarted, Analyze, SaveAnalysis,
         MarkCompleted, StampCompleted
<1>3. ASSUME NEW l \in {"ackUnknown", "ackTerminal", "analyze", "markRunning",
                        "stampStarted", "saveAnalysis", "markCompleted",
                        "stampCompleted", "ackDone"}, Goto(w, l)
      PROVE  Counted(w)'
  <2>1. pc'[w] = l
    BY <1>3 DEF Goto, TypeInv, TypeOK
  <2>2. QED
    BY <2>1, CountedElsewhere DEF Failing
<1>4. QED
  BY <1>1, <1>2, <1>3, FailCounts, PipelineAssumption

LEMMA SettleCounted ==
  ASSUME TypeInv, Chains, RetriesExhausted, NEW w \in Workers, Counted(w),
         Settle(w)
  PROVE  Grows /\ Chains' /\ RetriesExhausted' /\ Counted(w)'
<1>1. pc[w] # "idle"
  BY DEF Settle, Requeue, Republish, MarkFailed, StampFailed,
         PublishDeadLetter, Ack, AckPcs
<1>2. /\ JobOf(w) \in Jobs /\ Held(w) \in Message /\ msg[w] \in Nat
      /\ msg[w] \in DOMAIN stream
  BY <1>1, HeldMessage DEF TypeInv, TypeOK
<1>3. /\ Held(w).attempt \in Nat /\ Held(w).attempt <= MaxRetries
      /\ Chained(JobOf(w), Held(w).attempt)
  BY <1>2 DEF Chains, Held, JobOf, Message
<1>4. ASSUME UNCHANGED <<stream, dead>>
      PROVE  Grows /\ Chains' /\ RetriesExhausted'
  BY <1>4 DEF Grows, Chains, Chained, RetriesExhausted, Entries
<1>5. CASE Requeue(w)
  <2>1. /\ pc[w] = "requeue" /\ pc'[w] = "republish"
        /\ UNCHANGED <<stream, dead, msg>>
    BY <1>5 DEF Requeue, Goto, TypeInv, TypeOK
  <2>2. QED
    BY <1>4, <2>1, CountedStays
<1>6. CASE MarkFailed(w) \/ StampFailed(w)
  <2>1. /\ pc[w] \in Failing /\ pc'[w] \in Failing
        /\ UNCHANGED <<stream, dead, msg, reason>>
    BY <1>6 DEF MarkFailed, StampFailed, Goto, Failing, TypeInv, TypeOK
  <2>2. QED
    BY <1>4, <2>1, CountedStays
<1>7. CASE Republish(w)
  <2> DEFINE m == [job |-> JobOf(w), attempt |-> Held(w).attempt + 1]
  <2>1. PICK ok \in BOOLEAN :
          /\ Xadd(m, ok)
          /\ IF ok THEN Goto(w, "ackRetried") /\ UNCHANGED <<msg, reason>>
                   ELSE Release(w)
    BY <1>7 DEF Republish
  <2>2. /\ m \in Message /\ m.job = JobOf(w)
        /\ m.attempt = Held(w).attempt + 1
    BY <1>2, <1>3 DEF Message
  <2>3. m.attempt <= MaxRetries /\ Chained(m.job, m.attempt - 1)
    <3>1. Held(w).attempt < MaxRetries
      BY <1>7 DEF Counted, Republish
    <3>2. m.attempt - 1 = Held(w).attempt
      BY <1>3, <2>2
    <3>3. m.attempt <= MaxRetries
      BY <1>3, <2>2, <3>1, PipelineAssumption
    <3>4. QED
      BY <1>3, <2>2, <3>2, <3>3
  <2>4. dead' = dead
    BY <1>7 DEF Republish
  <2>5. pc'[w] \in {"ackRetried", "idle"}
    BY <2>1 DEF Goto, Release, TypeInv, TypeOK
  <2> HIDE DEF m
  <2>6. stream' = stream \/ stream' = Append(stream, m)
    BY <2>1, <2>2, XaddType
  <2>7. Grows /\ Chains'
    BY <2>2, <2>3, <2>6, XaddGrows, XaddChains
  <2>8. RetriesExhausted'
    <3>1. \A j, a : Chained(j, a) => Chained(j, a)'
      BY <2>7, ChainedStays
    <3>2. QED
      BY <2>4, <3>1, ExhaustedChains DEF RetriesExhausted, Chained
  <2>9. Counted(w)'
    BY <2>5, CountedElsewhere DEF Failing
  <2>10. QED
    BY <2>7, <2>8, <2>9
<1>8. CASE PublishDeadLetter(w)
  <2> DEFINE d == [job |-> JobOf(w), attempt |-> Held(w).attempt,
                   id |-> msg[w], reason |-> reason[w]]
  <2>1. PICK ok \in BOOLEAN :
          /\ XaddDead(d, ok)
          /\ IF ok THEN Goto(w, "ackDead") /\ UNCHANGED <<msg, reason>>
                   ELSE Release(w)
    BY <1>8 DEF PublishDeadLetter
  <2>2. pc[w] \in Failing /\ stream' = stream
    BY <1>8 DEF PublishDeadLetter, Failing
  <2>3. pc'[w] \in {"ackDead", "idle"}
    BY <2>1 DEF Goto, Release, TypeInv, TypeOK
  <2>4. d \in DeadLetter
    BY <1>2, <2>2 DEF Message, DeadLetter, TypeInv, ReasonGiven, Failing
  <2>5. d.reason = "max_retry_exceeded" =>
          d.attempt = MaxRetries /\ Chained(d.job, MaxRetries)
    BY <1>3, <2>2 DEF Counted
  <2> HIDE DEF d
  <2>6. dead' = dead \/ dead' = Append(dead, d)
    BY <2>1, <2>4, XaddDeadType
  <2>7. \A i \in DOMAIN dead' :
          dead'[i] = d \/ (i \in DOMAIN dead /\ dead'[i] = dead[i])
    <3>1. dead \in Seq(DeadLetter)
      BY DEF TypeInv, TypeOK
    <3>2. CASE dead' = dead
      BY <3>2
    <3>3. CASE dead' = Append(dead, d)
      <4>1. /\ DOMAIN dead = 1 .. Len(dead) /\ Len(dead) \in Nat
            /\ DOMAIN dead' = 1 .. Len(dead) + 1
        BY <2>4, <3>1, <3>3
      <4>2. \A i \in 1 .. Len(dead) : dead'[i] = dead[i]
        BY <2>4, <3>1, <3>3
      <4>3. dead'[Len(dead) + 1] = d
        BY <2>4, <3>1, <3>3
      <4>4. TAKE i \in DOMAIN dead'
      <4>5. CASE i \in 1 .. Len(dead)
        BY <4>1, <4>2, <4>5
      <4>6. CASE i = Len(dead) + 1
        BY <4>3, <4>6
      <4>7. QED
        BY <4>1, <4>5, <4>6
    <3>4. QED
      BY <2>6, <3>2, <3>3
  <2>8. RetriesExhausted'
    <3>1. \A i \in DOMAIN dead' :
            dead'[i].reason = "max_retry_exceeded" =>
              dead'[i].attempt = MaxRetries /\ Chained(dead'[i].job, MaxRetries)
      BY <2>5, <2>7, ExhaustedChains
    <3>2. QED
      BY <2>2, <3>1 DEF RetriesExhausted, Chained, Entries
  <2>9. Grows /\ Chains'
    BY <2>2 DEF Grows, Chains, Chained, Entries
  <2>10. QED
    BY <2>3, <2>8, <2>9, CountedElsewhere DEF Failing
<1>9. CASE Ack(w)
  <2>1. pc'[w] = "idle" /\ UNCHANGED <<stream, dead>>
    BY <1>9 DEF Ack, Release, Goto, TypeInv, TypeOK
  <2>2. QED
    BY <1>4, <2>1, CountedElsewhere DEF Failing
<1>10. QED
  BY <1>5, <1>6, <1>7, <1>8, <1>9 DEF Settle

-----------------------------------------------------------------------------
LEMMA RetryInit == Init => RetryInv
<1> SUFFICES ASSUME Init PROVE RetryInv
  OBVIOUS
<1>1. TypeInv
  BY TypeInit
<1>2. RetriesExhausted /\ Chains
  BY DEF Init, RetriesExhausted, Chains
<1>3. \A w \in Workers : Counted(w)
  BY DEF Init, Counted, Failing
<1>4. QED
  BY <1>1, <1>2, <1>3 DEF RetryInv

LEMMA RetryStep == RetryInv /\ [Next]_vars => RetryInv'
<1> SUFFICES ASSUME RetryInv, [Next]_vars PROVE RetryInv'
  OBVIOUS
<1>1. TypeInv /\ RetriesExhausted /\ Chains /\ \A w \in Workers : Counted(w)
  BY DEF RetryInv
<1>2. TypeInv'
  BY <1>1, TypeStep
<1>3. ASSUME UNCHANGED <<stream, dead>>
      PROVE  Grows /\ Chains' /\ RetriesExhausted'
  BY <1>1, <1>3 DEF Grows, Chains, Chained, RetriesExhausted, Entries
<1>4. ASSUME NEW j \in Jobs, Request(j) PROVE RetryInv'
  <2> DEFINE m == [job |-> j, attempt |-> 0]
  <2>1. UNCHANGED <<dead, worker>>
    BY <1>4 DEF Request, SaveJob, CheckBacklog, PublishFirst
  <2>2. m \in Message /\ m.attempt = 0 /\ m.attempt <= MaxRetries
    BY PipelineAssumption DEF Message
  <2>3. stream' = stream \/ stream' = Append(stream, m)
    BY <1>4, <2>2, <1>1, XaddType
    DEF Request, SaveJob, CheckBacklog, PublishFirst
  <2> HIDE DEF m
  <2>4. Grows /\ Chains'
    BY <1>1, <2>2, <2>3, XaddGrows, XaddChains
  <2>5. \A j1, a : Chained(j1, a) => Chained(j1, a)'
    BY <2>4, ChainedStays
  <2>6. RetriesExhausted'
    BY <1>1, <2>1, <2>5, ExhaustedChains DEF RetriesExhausted, Chained
  <2>7. \A w \in Workers : Counted(w)'
    BY <1>1, <2>1, <2>4, CountedStays DEF worker
  <2>8. QED
    BY <1>2, <2>4, <2>6, <2>7 DEF RetryInv
<1>5. ASSUME NEW w \in Workers, WorkerStep(w) PROVE RetryInv'
  <2>1. Grows /\ Chains' /\ RetriesExhausted' /\ Counted(w)'
    BY <1>1, <1>3, <1>5, ConsumeCounted, ProcessCounted, SettleCounted
    DEF WorkerStep
  <2>2. \A v \in Workers \ {w} : Counted(v)'
    BY <1>1, <1>5, <2>1, OthersCounted
  <2>3. QED
    BY <1>2, <2>1, <2>2 DEF RetryInv
<1>6. CASE Crash
  <2>1. UNCHANGED <<stream, dead>> /\ \A w \in Workers : pc'[w] = "idle"
    BY <1>6 DEF Crash
  <2>2. QED
    BY <1>2, <1>3, <2>1, CountedElsewhere DEF RetryInv, Failing
<1>7. CASE UNCHANGED vars
  <2>1. UNCHANGED <<stream, dead, pc, msg, reason>>
    BY <1>7 DEF vars, worker
  <2>2. \A w \in Workers : Counted(w)'
    BY <1>1, <2>1 DEF Counted, Held
  <2>3. QED
    BY <1>2, <1>3, <2>1, <2>2 DEF RetryInv
<1>8. QED
  BY <1>4, <1>5, <1>6, <1>7 DEF Next

\* A job given up for max_retry_exceeded has had all its attempts, 0 to
\* MaxRetries, each of them published, whatever call failed and however often
\* the backend restarted in between (handleRetryOrDeadLetter).
THEOREM RetriesUsed == Spec => []RetriesExhausted
<1>1. Init => RetryInv
  BY RetryInit
<1>2. RetryInv /\ [Next]_vars => RetryInv'
  BY RetryStep
<1>3. RetryInv => RetriesExhausted
  BY DEF RetryInv
<1>4. QED
  BY <1>1, <1>2, <1>3, PTL DEF Spec
=============================================================================
