------------------------- MODULE AnalysisTrackerProofs -------------------------
(***************************************************************************)
(* Theorems about AnalysisTracker, for any number of jobs and moves of the *)
(* user, and answers in any order.                                         *)
(***************************************************************************)
EXTENDS AnalysisTracker, FiniteSetTheorems, TLAPS

-----------------------------------------------------------------------------
(* The inductive invariant *)

\* A request that belongs to a poll loop.
Polling(r) == r.kind \in {"job", "analysis"}

HookTypes ==
  /\ server \in [Jobs -> {"Absent", "QUEUED", "RUNNING", "COMPLETED", "FAILED"}]
  /\ {job, analysis, details, active} \subseteq Jobs \cup {NoJob}
  /\ generation \in Nat
  /\ timer \in [job : Jobs \cup {NoJob}, generation : Nat]
  /\ timer # NoPoll => timer.job \in Jobs

RequestTypes ==
  /\ requests \subseteq [kind : {"submit", "job", "analysis", "details"},
                         poll : [job : Jobs \cup {NoJob}, generation : Nat]]
  /\ \A r \in requests :
       IF r.kind = "submit" THEN r = Submission ELSE r.poll.job \in Jobs

\* Loops are told apart by their generation, and the present one has one request
\* or the timer.  The timer is never one of an earlier loop.
LoopInv ==
  /\ \A r \in requests : Polling(r) => r.poll.generation <= generation
  /\ \A r, s \in requests :
       /\ Polling(r) /\ r.poll.generation = generation
       /\ Polling(s) /\ s.poll.generation = generation
       => r = s
  /\ timer # NoPoll =>
       /\ IsCurrent(timer)
       /\ \A r \in requests : Polling(r) => r.poll.generation # generation

\* Something of the present loop is still to come.
Awaited ==
  \/ timer # NoPoll
  \/ \E r \in requests : Polling(r) /\ IsCurrent(r.poll)

WaitInv ==
  /\ phase = "polling" => Awaited
  /\ phase = "submitting" => Submission \in requests \/ Awaited

\* While a submission is out, nothing is tracked.
SubmitInv == Submission \in requests => phase = "submitting" /\ active = NoJob

IInv ==
  /\ HookTypes /\ RequestTypes /\ LoopInv /\ WaitInv /\ SubmitInv
  /\ OnlyActiveShown

-----------------------------------------------------------------------------
(* The steps *)

LEMMA NavigateStep ==
  ASSUME IInv, NEW to, Navigate(to)
  PROVE  IInv'
<1> USE TrackerAssumption DEF IInv, Navigate, hook
<1>1. HookTypes'
  BY DEF HookTypes
<1>2. RequestTypes'
  BY DEF RequestTypes
<1>3. LoopInv'
  BY DEF LoopInv, IsCurrent, IsActive
<1>4. WaitInv'
  BY DEF WaitInv, Awaited, IsCurrent, IsActive
<1>5. SubmitInv'
  BY DEF SubmitInv
<1>6. OnlyActiveShown'
  BY DEF OnlyActiveShown
<1> QED BY <1>1, <1>2, <1>3, <1>4, <1>5, <1>6

LEMMA PressSubmitStep ==
  ASSUME IInv, PressSubmit
  PROVE  IInv'
<1> USE TrackerAssumption DEF IInv, PressSubmit, Submit, StopPolling
<1>1. HookTypes'
  BY DEF HookTypes, NoPoll, Poll
<1>2. RequestTypes'
  BY DEF RequestTypes, Submission, Request, NoPoll, Poll
<1>3. LoopInv'
  BY DEF LoopInv, RequestTypes, HookTypes, NoPoll, Poll, Submission, Request
<1>4. WaitInv'
  BY DEF WaitInv
<1>5. SubmitInv'
  BY DEF SubmitInv
<1>6. OnlyActiveShown'
  BY DEF OnlyActiveShown
<1> QED BY <1>1, <1>2, <1>3, <1>4, <1>5, <1>6

\* What load, and submit when its answer comes, leave: one request of a new loop.
LEMMA FreshLoop ==
  ASSUME IInv, NEW j \in Jobs, NEW answered,
         generation' \in Nat, generation' > generation, timer' = NoPoll, active' = j,
         StartTracking(j, answered)
  PROVE  LoopInv' /\ Awaited'
<1> DEFINE first == Request("job", Poll(j, generation'))
<1>1. /\ first \in requests' /\ Polling(first)
      /\ first.poll.generation = generation' /\ first.poll.job = j
  BY DEF StartTracking, Polling, Request, Poll
<1>2. ASSUME NEW r \in requests', Polling(r), r # first
      PROVE  r.poll.generation \in Nat /\ r.poll.generation < generation'
  <2>1. r \in requests
    BY <1>2 DEF StartTracking, Details, Polling, Request
  <2> QED BY <1>2, <2>1 DEF IInv, LoopInv, RequestTypes, HookTypes
<1> HIDE DEF first
<1>3. Awaited' BY <1>1 DEF Awaited, IsCurrent, IsActive
<1>4. LoopInv' BY <1>1, <1>2 DEF LoopInv
<1> QED BY <1>3, <1>4

LEMMA RouteEffectStep ==
  ASSUME IInv, RouteEffect
  PROVE  IInv'
<1> USE TrackerAssumption DEF IInv, RouteEffect, Load, StopPolling, StartTracking,
                               Details, Request, Poll
<1>1. HookTypes'
  BY DEF HookTypes, NoPoll
<1>2. RequestTypes'
  BY DEF RequestTypes, HookTypes
<1>3. LoopInv' /\ Awaited'
  <2>1. /\ generation' \in Nat /\ generation' > generation /\ timer' = NoPoll
        /\ active' = route /\ route \in Jobs /\ StartTracking(route, {})
    BY DEF HookTypes
  <2> QED BY <2>1, FreshLoop
<1>4. WaitInv' BY <1>3 DEF WaitInv
<1>5. SubmitInv'
  BY DEF SubmitInv, Submission
<1>6. OnlyActiveShown'
  BY DEF OnlyActiveShown
<1> QED BY <1>1, <1>2, <1>3, <1>4, <1>5, <1>6

LEMMA TimerFiresStep ==
  ASSUME IInv, TimerFires
  PROVE  IInv'
<1> USE TrackerAssumption DEF IInv, TimerFires, Request
<1>1. HookTypes'
  BY DEF HookTypes, NoPoll, Poll
<1>2. RequestTypes'
  BY DEF RequestTypes, HookTypes
<1>3. LoopInv'
  BY DEF LoopInv, HookTypes, IsCurrent
<1>4. WaitInv'
  BY DEF WaitInv, Awaited, LoopInv, HookTypes, Polling, IsCurrent, IsActive,
         Submission
<1>5. SubmitInv'
  BY DEF SubmitInv, Submission
<1>6. OnlyActiveShown'
  BY DEF OnlyActiveShown
<1> QED BY <1>1, <1>2, <1>3, <1>4, <1>5, <1>6

LEMMA SubmissionAcceptedStep ==
  ASSUME IInv, NEW j \in Jobs, SubmissionAccepted(j)
  PROVE  IInv'
<1> USE TrackerAssumption DEF IInv, SubmissionAccepted, StopPolling, StartTracking,
                               Details, Request, Poll
<1>1. HookTypes'
  BY DEF HookTypes, NoPoll
<1>2. RequestTypes'
  BY DEF RequestTypes, HookTypes
<1>3. LoopInv' /\ Awaited'
  <2>1. /\ generation' \in Nat /\ generation' > generation /\ timer' = NoPoll
        /\ active' = j /\ j \in Jobs /\ StartTracking(j, {Submission})
    BY DEF HookTypes
  <2> QED BY <2>1, FreshLoop
<1>4. WaitInv' BY <1>3 DEF WaitInv
<1>5. SubmitInv'
  BY DEF SubmitInv, Submission
<1>6. OnlyActiveShown'
  BY DEF OnlyActiveShown, SubmitInv
<1> QED BY <1>1, <1>2, <1>3, <1>4, <1>5, <1>6

LEMMA SubmissionFailsStep ==
  ASSUME IInv, SubmissionFails
  PROVE  IInv'
<1> USE TrackerAssumption DEF IInv, SubmissionFails, Answered, Unmoved
<1>1. HookTypes'
  BY DEF HookTypes
<1>2. RequestTypes'
  BY DEF RequestTypes
<1>3. LoopInv'
  BY DEF LoopInv, IsCurrent, IsActive
<1>4. WaitInv'
  BY DEF WaitInv
<1>5. SubmitInv'
  BY DEF SubmitInv
<1>6. OnlyActiveShown'
  BY DEF OnlyActiveShown
<1> QED BY <1>1, <1>2, <1>3, <1>4, <1>5, <1>6

LEMMA JobStateStep ==
  ASSUME IInv, NEW r \in requests, JobState(r)
  PROVE  IInv'
<1> USE TrackerAssumption DEF IInv, JobState, Details, Request, Poll, Unmoved
<1>1. HookTypes'
  BY DEF HookTypes, RequestTypes
<1>2. RequestTypes'
  BY DEF RequestTypes
<1>3. LoopInv'
  <2>1. \A s \in requests \ {r} : Polling(s) =>
          s.poll.generation \in Nat /\ s.poll.generation < generation
    BY DEF LoopInv, RequestTypes, HookTypes, Polling, IsCurrent
  <2>2. timer = NoPoll BY DEF LoopInv, Polling, IsCurrent
  <2> DEFINE next == Request("analysis", r.poll)
  <2>3. next.poll = r.poll BY DEF Request
  <2>4. \A s \in requests' : Polling(s) => s \in requests \ {r} \/ s = next
    BY DEF JobState, Details, Polling, Request
  <2>5. next \in requests' => timer' = NoPoll \/ next \in requests \ {r}
    BY <2>2 DEF JobState, Details, Request
  <2>6. timer' \in {NoPoll, r.poll} BY <2>2 DEF JobState
  <2>7. generation' = generation /\ active' = active BY DEF JobState
  <2>8. r.poll.generation = generation /\ IsActive(r.poll.job)
    BY DEF JobState, IsCurrent
  <2>9. Polling(next) BY DEF Polling, Request
  <2>10. generation \in Nat BY DEF HookTypes
  <2> HIDE DEF next, JobState, IInv
  <2>11. /\ \A s \in requests' : Polling(s) => s.poll.generation <= generation
         /\ \A s, t \in requests' :
              /\ Polling(s) /\ s.poll.generation = generation
              /\ Polling(t) /\ t.poll.generation = generation
              => s = t
    BY <2>1, <2>3, <2>4, <2>8, <2>10
  <2>12. ASSUME timer' # NoPoll, NEW s \in requests', Polling(s)
         PROVE  s.poll.generation # generation
    BY <2>12, <2>1, <2>3, <2>4, <2>5, <2>8, <2>9, <2>10
  <2> QED BY <2>6, <2>7, <2>8, <2>11, <2>12 DEF LoopInv, IsCurrent, IsActive
<1>4. WaitInv'
  <2>1. phase' = "error" \/ Awaited'
    <3>1. r.poll.job \in Jobs /\ Polling(r) BY DEF RequestTypes, Polling
    <3>2. CASE server[r.poll.job] = "FAILED" BY <3>2
    <3>3. CASE server[r.poll.job] = "COMPLETED"
      <4> DEFINE next == Request("analysis", r.poll)
      <4>1. next \in requests' /\ Polling(next) /\ next.poll = r.poll
        BY <3>3 DEF Polling
      <4>2. IsCurrent(r.poll)' BY DEF IsCurrent, IsActive
      <4> HIDE DEF next
      <4>3. IsCurrent(next.poll)' BY <4>1, <4>2 DEF IsCurrent, IsActive
      <4> QED BY <4>1, <4>3 DEF Awaited
    <3>4. CASE server[r.poll.job] \in {"QUEUED", "RUNNING"}
      BY <3>1, <3>4 DEF Awaited, NoPoll
    <3>5. server[r.poll.job] \in {"QUEUED", "RUNNING", "COMPLETED", "FAILED"}
      BY <3>1 DEF HookTypes
    <3> QED BY <3>2, <3>3, <3>4, <3>5
  <2> QED BY <2>1 DEF WaitInv
<1>5. SubmitInv'
  BY DEF SubmitInv, RequestTypes, IsCurrent, IsActive, Submission
<1>6. OnlyActiveShown'
  BY DEF OnlyActiveShown, IsCurrent, IsActive
<1> QED BY <1>1, <1>2, <1>3, <1>4, <1>5, <1>6

LEMMA JobStateFailsStep ==
  ASSUME IInv, NEW r \in requests, JobStateFails(r)
  PROVE  IInv'
<1> USE TrackerAssumption DEF IInv, JobStateFails, Answered, Unmoved
<1>1. HookTypes'
  BY DEF HookTypes
<1>2. RequestTypes'
  BY DEF RequestTypes
<1>3. LoopInv'
  BY DEF LoopInv, IsCurrent, IsActive
<1>4. WaitInv'
  BY DEF WaitInv
<1>5. SubmitInv'
  BY DEF SubmitInv, RequestTypes, IsCurrent, IsActive
<1>6. OnlyActiveShown'
  BY DEF OnlyActiveShown
<1> QED BY <1>1, <1>2, <1>3, <1>4, <1>5, <1>6

LEMMA StaleJobStateStep ==
  ASSUME IInv, NEW r \in requests, StaleJobState(r)
  PROVE  IInv'
<1> USE TrackerAssumption DEF IInv, StaleJobState, Answered, Unmoved, hook
<1>1. HookTypes'
  BY DEF HookTypes
<1>2. RequestTypes'
  BY DEF RequestTypes
<1>3. LoopInv'
  BY DEF LoopInv, IsCurrent, IsActive
<1>4. WaitInv'
  BY DEF WaitInv, Awaited, IsCurrent, IsActive, Submission, Request
<1>5. SubmitInv'
  BY DEF SubmitInv
<1>6. OnlyActiveShown'
  BY DEF OnlyActiveShown
<1> QED BY <1>1, <1>2, <1>3, <1>4, <1>5, <1>6

LEMMA AnalysisArrivesStep ==
  ASSUME IInv, NEW r \in requests, AnalysisArrives(r)
  PROVE  IInv'
<1> USE TrackerAssumption DEF IInv, AnalysisArrives, Details, Request, Poll, Unmoved
<1>1. HookTypes'
  BY DEF HookTypes, RequestTypes
<1>2. RequestTypes'
  BY DEF RequestTypes
<1>3. LoopInv'
  BY DEF LoopInv, Polling, IsCurrent, IsActive
<1>4. WaitInv'
  BY DEF WaitInv, Awaited, IsCurrent, IsActive, Submission
<1>5. SubmitInv'
  BY DEF SubmitInv, RequestTypes, IsActive, Submission
<1>6. OnlyActiveShown'
  BY DEF OnlyActiveShown, RequestTypes, IsActive
<1> QED BY <1>1, <1>2, <1>3, <1>4, <1>5, <1>6

LEMMA AnalysisFailsStep ==
  ASSUME IInv, NEW r \in requests, AnalysisFails(r)
  PROVE  IInv'
<1> USE TrackerAssumption DEF IInv, AnalysisFails, Answered, Unmoved
<1>1. HookTypes'
  BY DEF HookTypes
<1>2. RequestTypes'
  BY DEF RequestTypes
<1>3. LoopInv'
  BY DEF LoopInv, IsCurrent, IsActive
<1>4. WaitInv'
  BY DEF WaitInv, Awaited, IsCurrent, IsActive, Submission, Request
<1>5. SubmitInv'
  BY DEF SubmitInv, RequestTypes, IsCurrent, IsActive
<1>6. OnlyActiveShown'
  BY DEF OnlyActiveShown
<1> QED BY <1>1, <1>2, <1>3, <1>4, <1>5, <1>6

LEMMA DetailsArriveStep ==
  ASSUME IInv, NEW r \in requests, DetailsArrive(r)
  PROVE  IInv'
<1> USE TrackerAssumption DEF IInv, DetailsArrive, Answered, Unmoved
<1>1. HookTypes'
  BY DEF HookTypes, RequestTypes
<1>2. RequestTypes'
  BY DEF RequestTypes
<1>3. LoopInv'
  BY DEF LoopInv, IsCurrent, IsActive
<1>4. WaitInv'
  BY DEF WaitInv, Awaited, Polling, IsCurrent, IsActive, Submission, Request
<1>5. SubmitInv'
  BY DEF SubmitInv
<1>6. OnlyActiveShown'
  BY DEF OnlyActiveShown, IsActive
<1> QED BY <1>1, <1>2, <1>3, <1>4, <1>5, <1>6

LEMMA JobMovesStep ==
  ASSUME IInv, NEW j \in Jobs, JobMoves(j)
  PROVE  IInv'
<1> USE TrackerAssumption DEF IInv, JobMoves, hook
<1>1. HookTypes'
  BY DEF HookTypes
<1>2. RequestTypes'
  BY DEF RequestTypes
<1>3. LoopInv'
  BY DEF LoopInv, IsCurrent, IsActive
<1>4. WaitInv'
  BY DEF WaitInv, Awaited, IsCurrent, IsActive
<1>5. SubmitInv'
  BY DEF SubmitInv
<1>6. OnlyActiveShown'
  BY DEF OnlyActiveShown
<1> QED BY <1>1, <1>2, <1>3, <1>4, <1>5, <1>6

-----------------------------------------------------------------------------

LEMMA InitIInv == Init => IInv
<1> SUFFICES ASSUME Init PROVE IInv OBVIOUS
<1>1. HookTypes /\ RequestTypes
  BY DEF Init, HookTypes, RequestTypes, NoPoll, Poll
<1>2. LoopInv /\ WaitInv /\ SubmitInv /\ OnlyActiveShown
  BY DEF Init, LoopInv, WaitInv, SubmitInv, OnlyActiveShown
<1> QED BY <1>1, <1>2 DEF IInv

LEMMA StepIInv == IInv /\ [Next]_vars => IInv'
<1> SUFFICES ASSUME IInv, [Next]_vars PROVE IInv' OBVIOUS
<1>1. ASSUME NEW r \in requests, Answer(r) PROVE IInv'
  BY <1>1, JobStateStep, JobStateFailsStep, StaleJobStateStep, AnalysisArrivesStep,
     AnalysisFailsStep, DetailsArriveStep
  DEF Answer
<1>2. CASE UNCHANGED vars
  BY <1>2 DEF vars, hook, IInv, HookTypes, RequestTypes, LoopInv, WaitInv, Awaited,
     SubmitInv, OnlyActiveShown, IsCurrent, IsActive
<1> QED
  BY <1>1, <1>2, NavigateStep, PressSubmitStep, RouteEffectStep, TimerFiresStep,
     SubmissionAcceptedStep, SubmissionFailsStep, JobMovesStep
  DEF Next, Page, Submitted

\* The invariant of the hook's variables and of the requests under way.
THEOREM TrackerInvariant == Spec => []IInv
BY InitIInv, StepIInv, PTL DEF Spec

-----------------------------------------------------------------------------

\* Whatever order the answers come in, what is shown is of the tracked job.
THEOREM ShownIsActive == Spec => []OnlyActiveShown
<1>1. IInv => OnlyActiveShown BY DEF IInv
<1> QED BY <1>1, TrackerInvariant, PTL

\* The requests and the timer that can still go on, in the words of the invariant.
LEMMA LiveIsAwaited ==
  ASSUME IInv
  PROVE  /\ Awaited => Live # {}
         /\ \A x, y \in Live : x = y
<1> DEFINE asked == {r \in requests : Polling(r) /\ IsCurrent(r.poll)}
<1>1. Live = asked \cup (IF timer # NoPoll THEN {timer} ELSE {})
  BY DEF IInv, LoopInv, Live, Polling
<1>2. Awaited => Live # {}
  BY <1>1 DEF Awaited
<1>3. \A x, y \in asked : x = y
  BY DEF IInv, LoopInv, IsCurrent
<1>4. timer # NoPoll => asked = {}
  BY DEF IInv, LoopInv, IsCurrent
<1> HIDE DEF asked
<1>5. \A x, y \in Live : x = y
  BY <1>1, <1>3, <1>4
<1> QED BY <1>2, <1>5

\* However often tracking begins again, at most one poll loop goes on.
THEOREM OneLoopAtATime == Spec => []OneLoop
<1>1. IInv => OneLoop
  <2> SUFFICES ASSUME IInv PROVE OneLoop OBVIOUS
  <2>1. CASE Live = {}
    BY <2>1, FS_EmptySet DEF OneLoop
  <2>2. CASE Live # {}
    <3>1. PICK x \in Live : TRUE BY <2>2
    <3>2. Live = {x} BY <3>1, LiveIsAwaited
    <3> QED BY <3>2, FS_Singleton DEF OneLoop
  <2> QED BY <2>1, <2>2
<1> QED BY <1>1, TrackerInvariant, PTL

\* Progress is shown only while a request or the timer of the tracked job is out.
THEOREM NoEndlessProgress == Spec => []NeverWaitsForNothing
<1>1. IInv => NeverWaitsForNothing
  BY LiveIsAwaited DEF IInv, WaitInv, NeverWaitsForNothing
<1> QED BY <1>1, TrackerInvariant, PTL

-----------------------------------------------------------------------------
(* The types, with the bound of the generation *)

\* How often stopPolling is still to run for what the user has done already: twice
\* for a link that is not tracked yet, once for the answer to a submission.
Owed ==
  (IF route \in Jobs /\ route # job THEN 2 ELSE 0)
    + (IF Submission \in requests THEN 1 ELSE 0)

\* A move of the user stops the polling at most twice, at once or later.
BoundInv ==
  /\ route \in {"home", "elsewhere"} \cup Jobs
  /\ phase \in {"idle", "submitting", "polling", "done", "error"}
  /\ moves \in 0 .. MaxMoves
  /\ generation + Owed <= 2 * moves
  /\ timer.generation <= generation
  /\ \A r \in requests : r.poll.generation <= generation

LEMMA OwedBounds == Owed \in 0 .. 3
BY DEF Owed

LEMMA BudgetArithmetic ==
  ASSUME NEW g \in Nat, NEW o \in Nat, NEW m \in Nat, g + o <= 2 * m, NEW p \in Nat
  PROVE  /\ p <= o + 2 => g + p <= 2 * (m + 1)
         /\ p + 2 = o => (g + 2) + p <= 2 * m
         /\ p + 1 <= o => (g + 1) + p <= 2 * m
OBVIOUS

LEMMA BudgetKept ==
  ASSUME HookTypes, BoundInv
  PROVE  /\ generation \in Nat /\ moves \in Nat /\ Owed \in Nat
         /\ generation + Owed <= 2 * moves
<1>1. generation \in Nat BY DEF HookTypes
<1>2. moves \in Nat BY TrackerAssumption DEF BoundInv
<1>3. Owed \in Nat BY OwedBounds
<1>4. generation + Owed <= 2 * moves BY DEF BoundInv
<1> QED BY <1>1, <1>2, <1>3, <1>4

\* A step that neither moves nor stops the polling, and asks nothing newer.
LEMMA QuietStep ==
  ASSUME HookTypes, BoundInv, UNCHANGED <<route, job, generation, moves>>,
         phase' \in {"idle", "submitting", "polling", "done", "error"},
         timer'.generation <= generation,
         \A r \in requests' : r.poll.generation <= generation,
         Submission \in requests' => Submission \in requests
  PROVE  BoundInv'
<1>1. Owed' \in 0 .. 3 /\ Owed' <= Owed
  BY DEF Owed
<1>2. generation + Owed' <= 2 * moves
  BY <1>1, BudgetKept
<1> QED BY <1>2 DEF BoundInv

LEMMA AnswerBound ==
  ASSUME IInv, BoundInv, NEW r \in requests, Answer(r)
  PROVE  BoundInv'
<1>1. HookTypes BY DEF IInv
<1>2. UNCHANGED <<route, job, generation, moves>>
  <2>1. CASE JobState(r)
    BY <2>1 DEF JobState, IsCurrent, IsActive, Unmoved, IInv, OnlyActiveShown
  <2> QED
    BY <2>1 DEF Answer, JobStateFails, StaleJobState, AnalysisArrives, AnalysisFails,
       DetailsArrive, Unmoved, hook
<1>3. phase' \in {"idle", "submitting", "polling", "done", "error"}
  BY DEF BoundInv, Answer, JobState, JobStateFails, StaleJobState, AnalysisArrives,
     AnalysisFails, DetailsArrive, hook
<1>4. timer'.generation <= generation
  <2>1. timer' \in {timer, r.poll}
    BY DEF Answer, JobState, JobStateFails, StaleJobState, AnalysisArrives,
       AnalysisFails, DetailsArrive, hook
  <2> QED BY <2>1 DEF BoundInv
<1>5. \A s \in requests' : \/ s \in requests
                           \/ s.poll = r.poll /\ s.kind = "analysis"
                           \/ s.poll.generation = 0 /\ s.kind = "details"
  BY DEF Answer, JobState, JobStateFails, StaleJobState, AnalysisArrives,
     AnalysisFails, DetailsArrive, Answered, Details, Request, Poll
<1>6. \A s \in requests' : s.poll.generation <= generation
  BY <1>5 DEF BoundInv, IInv, HookTypes
<1>7. Submission \in requests' => Submission \in requests
  BY <1>5 DEF Submission, Request
<1> QED BY <1>1, <1>2, <1>3, <1>4, <1>6, <1>7, QuietStep

LEMMA InitBoundInv == Init => BoundInv
<1> SUFFICES ASSUME Init PROVE BoundInv OBVIOUS
<1>1. Owed = 0
  BY TrackerAssumption DEF Init, Owed
<1> QED BY <1>1, TrackerAssumption DEF Init, BoundInv, NoPoll, Poll

LEMMA StepBoundInv == IInv /\ BoundInv /\ [Next]_vars => BoundInv'
<1> SUFFICES ASSUME IInv, BoundInv, [Next]_vars PROVE BoundInv' OBVIOUS
<1>1. HookTypes
  BY DEF IInv
<1>2. /\ generation \in Nat /\ moves \in Nat /\ Owed \in Nat
      /\ generation + Owed <= 2 * moves
  BY <1>1, BudgetKept
<1>3. ASSUME NEW to \in {"home", "elsewhere"} \cup Jobs, Navigate(to) PROVE BoundInv'
  <2>1. Owed' \in Nat /\ Owed' <= Owed + 2
    BY <1>3 DEF Owed, Navigate, hook
  <2>2. generation + Owed' <= 2 * (moves + 1)
    BY <2>1, <1>2, BudgetArithmetic
  <2> QED BY <1>3, <2>2, TrackerAssumption DEF Navigate, hook, BoundInv
<1>4. CASE PressSubmit
  <2>1. Owed' = 1 /\ generation' = generation + 1 /\ moves' = moves + 1
    BY <1>4, TrackerAssumption DEF Owed, PressSubmit, Submit, StopPolling
  <2>2. generation' + Owed' <= 2 * moves'
    BY <2>1, <1>2, BudgetArithmetic
  <2>3. \A r \in requests' : r.poll.generation <= generation'
    BY <1>4, <1>2, <2>1
    DEF PressSubmit, Submit, BoundInv, IInv, RequestTypes, Submission, Request,
        NoPoll, Poll
  <2> QED
    BY <1>1, <1>2, <1>4, <2>1, <2>2, <2>3, TrackerAssumption
    DEF PressSubmit, Submit, StopPolling, BoundInv, NoPoll, Poll
<1>5. CASE RouteEffect
  <2>1. /\ Owed' \in Nat /\ Owed' + 2 = Owed
        /\ generation' = generation + 2 /\ moves' = moves
    BY <1>5
    DEF Owed, RouteEffect, Load, StopPolling, StartTracking, Submission, Details,
        Request, Poll, NoPoll
  <2>2. generation' + Owed' <= 2 * moves'
    BY <2>1, <1>2, BudgetArithmetic
  <2>3. \A r \in requests' : r.poll.generation <= generation'
    BY <1>5, <1>2, <2>1
    DEF RouteEffect, Load, StartTracking, BoundInv, IInv, RequestTypes, Details,
        Request, Poll
  <2>4. timer'.generation <= generation'
    BY <1>2, <1>5, <2>1 DEF RouteEffect, Load, StopPolling, NoPoll, Poll
  <2> QED
    BY <1>5, <2>2, <2>3, <2>4 DEF RouteEffect, Load, BoundInv
<1>6. CASE TimerFires
  <2>1. \A r \in requests' : r.poll.generation <= generation
    BY <1>6 DEF TimerFires, BoundInv, Request
  <2>2. Submission \in requests' => Submission \in requests
    BY <1>6 DEF TimerFires, Submission, Request
  <2>3. timer'.generation <= generation
    BY <1>1, <1>2, <1>6 DEF TimerFires, NoPoll, Poll
  <2> QED BY <1>1, <1>6, <2>1, <2>2, <2>3, QuietStep DEF TimerFires, BoundInv
<1>7. CASE SubmissionFails
  BY <1>1, <1>7, QuietStep DEF SubmissionFails, Answered, Unmoved, BoundInv
<1>8. ASSUME NEW j \in Jobs, SubmissionAccepted(j) PROVE BoundInv'
  <2>1. generation' = generation + 1 /\ moves' = moves
    BY <1>8 DEF SubmissionAccepted, StopPolling
  <2>2. Owed' \in Nat /\ Owed' + 1 <= Owed
    <3>1. Submission \in requests /\ Submission \notin requests'
      BY <1>8
      DEF SubmissionAccepted, StartTracking, Submission, Details, Request, Poll, NoPoll
    <3>2. job = NoJob
      BY <3>1 DEF IInv, SubmitInv, OnlyActiveShown
    <3>3. route' \in Jobs /\ route' # job' => route \in Jobs /\ route # job
      BY <1>8, <3>2, TrackerAssumption DEF SubmissionAccepted
    <3> QED BY <3>1, <3>3 DEF Owed
  <2>3. generation' + Owed' <= 2 * moves'
    BY <2>1, <2>2, <1>2, BudgetArithmetic
  <2>4. \A r \in requests' : r.poll.generation <= generation'
    BY <1>8, <1>2, <2>1
    DEF SubmissionAccepted, StartTracking, BoundInv, IInv, RequestTypes, Details,
        Request, Poll
  <2> QED
    BY <1>1, <1>2, <1>8, <2>1, <2>3, <2>4
    DEF SubmissionAccepted, StopPolling, BoundInv, NoPoll, Poll
<1>9. ASSUME NEW j \in Jobs, JobMoves(j) PROVE BoundInv'
  BY <1>1, <1>9, QuietStep DEF JobMoves, hook, BoundInv
<1>10. CASE UNCHANGED vars
  BY <1>1, <1>10, QuietStep DEF vars, hook, BoundInv
<1> QED
  BY <1>3, <1>4, <1>5, <1>6, <1>7, <1>8, <1>9, <1>10, AnswerBound
  DEF Next, Page, Submitted

\* Every variable keeps its type, and the generation its bound: a move of the user
\* stops the polling twice at most, whatever the effects and answers race with.
THEOREM TrackerTypes == Spec => []TypeOK
<1>1. IInv /\ BoundInv => TypeOK
  <2> SUFFICES ASSUME IInv, BoundInv PROVE TypeOK OBVIOUS
  <2>1. /\ generation \in Nat /\ moves \in 0 .. MaxMoves /\ Owed \in 0 .. 3
        /\ generation + Owed <= 2 * moves
    BY OwedBounds DEF IInv, HookTypes, BoundInv
  <2>2. generation \in 0 .. 2 * MaxMoves
    BY <2>1, TrackerAssumption
  <2>3. timer \in Polls
    BY <2>1, <2>2, TrackerAssumption DEF Polls, IInv, HookTypes, BoundInv
  <2>4. requests \subseteq Requests
    <3>1. \A r \in requests : r.poll.generation \in 0 .. 2 * MaxMoves
      BY <2>1, <2>2, TrackerAssumption DEF IInv, RequestTypes, BoundInv
    <3> QED BY <3>1 DEF Requests, Polls, IInv, RequestTypes
  <2> QED BY <2>1, <2>2, <2>3, <2>4 DEF TypeOK, IInv, HookTypes, BoundInv
<1> QED
  BY <1>1, InitIInv, StepIInv, InitBoundInv, StepBoundInv, PTL DEF Spec
===============================================================================
