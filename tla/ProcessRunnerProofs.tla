-------------------------- MODULE ProcessRunnerProofs -------------------------
(***************************************************************************)
(* Safety of ProcessRunner for every output cap and every amount of        *)
(* output.  The inductive invariant says, for each step of the parent, how *)
(* far the pipe and the result have come, and relates both to the child.   *)
(***************************************************************************)
EXTENDS ProcessRunner, TLAPS

\* The ends of the pipe, by the step the parent is about to take.
PipeInv ==
  /\ pc \in {"resolve", "pipe"} => fds = [read |-> "none", write |-> "none"]
  /\ pc \in {"fork", "adopt"} => fds = [read |-> "open", write |-> "open"]
  /\ pc \in {"poll", "read", "closeRead"} =>
       fds = [read |-> "open", write |-> "closed"]
  /\ pc = "wait" => fds = [read |-> "closed", write |-> "closed"]
  /\ pc \in {"kill", "reap"} => fds.read # "none" /\ fds.write = "closed"
  /\ pc = "done" => /\ fds.read # "open" /\ fds.write # "open"
                    /\ result.started => fds.read = "closed"

\* What the parent knows of the child.
ResultInv ==
  /\ pc \in {"resolve", "pipe", "fork", "adopt"} => ~result.started
  /\ pc \in {"poll", "read", "closeRead", "wait", "kill", "reap"} => result.started
  /\ ~result.started => result.ending = None
  /\ result.ending # None => child = "reaped" /\ result.ending = ending
  /\ child = "reaped" => pc = "done" /\ result.ending = ending
  /\ pc = "done" /\ result.started => reaped /\ child \in {"reaped", "gone"}

\* The deadline, and why the parent kills.
DeadlineInv ==
  /\ result.timedOut => /\ expired /\ result.started
                        /\ pc \in {"closeRead", "kill", "reap", "done"}
  /\ pc \in {"kill", "reap"} => result.timedOut \/ trouble
  /\ pc = "reap" => child \notin {"none", "forked", "running"} /\ helper # "running"
  /\ pc = "done" /\ result.timedOut => helper # "running"
  /\ stray => sigchld = "ignored"

\* The child itself.
ChildInv ==
  /\ pc \in {"resolve", "pipe", "fork"} => child = "none"
  /\ pc \notin {"resolve", "pipe", "fork", "done"} => child # "none"
  /\ child \in {"none", "forked"} => helper = "none"
  /\ ending = None <=> child \in {"none", "forked", "running"}
  /\ child = "gone" => sigchld = "ignored"

\* What was kept of what was read.
OutputInv ==
  ~result.error =>
    LET read == written - unread IN
    /\ result.kept = IF read < MaxOutput THEN read ELSE MaxOutput
    /\ result.truncated <=> read > MaxOutput

IInv == TypeOK /\ PipeInv /\ ResultInv /\ DeadlineInv /\ ChildInv /\ OutputInv

-----------------------------------------------------------------------------

\* The endings are what they look like, and a result starts without one.
LEMMA EndingFacts ==
  /\ None \in Endings /\ Killed("KILL") \in Endings
  /\ \A c \in {"0", "1", "126", "127"} : Exit(c) \in Endings /\ Exit(c) # None
  /\ \A s \in {"KILL", "XFSZ", "SEGV", "PIPE"} :
       Killed(s) \in Endings /\ Killed(s) # None
BY DEF Endings, None, Exit, Killed

LEMMA NoResultFacts ==
  /\ NoResult \in Results
  /\ NoResult = [started |-> FALSE, timedOut |-> FALSE, truncated |-> FALSE,
                 error |-> FALSE, kept |-> 0, ending |-> None]
<1>1. 0 \in 0 .. MaxOutput BY RunnerAssumption
<1> QED BY <1>1, EndingFacts DEF NoResult, Results

LEMMA InitIInv == Init => IInv
<1> SUFFICES ASSUME Init PROVE IInv OBVIOUS
<1> USE DEF Init
<1>1. TypeOK
  <2>1. pc \in Steps /\ fds \in Pipes /\ child \in Children
    BY DEF Steps, Pipes, Children
  <2>2. written \in Nat /\ unread \in Nat /\ unread <= written OBVIOUS
  <2>3. FlagTypes BY Zenon DEF FlagTypes
  <2>4. reaped \in BOOLEAN BY Zenon
  <2>5. result \in Results /\ ending \in Endings BY EndingFacts, NoResultFacts
  <2>6. writers \subseteq {"child", "helper"} /\ helper \in {"none", "running", "dead"}
    OBVIOUS
  <2> QED
    BY <2>1, <2>2, <2>3, <2>4, <2>5, <2>6 DEF TypeOK, ParentTypes, ProcessTypes
<1>2. PipeInv /\ ResultInv /\ DeadlineInv /\ ChildInv
  BY NoResultFacts, EndingFacts DEF PipeInv, ResultInv, DeadlineInv, ChildInv
<1>3. OutputInv BY RunnerAssumption, NoResultFacts DEF OutputInv
<1> QED BY <1>1, <1>2, <1>3 DEF IInv

-----------------------------------------------------------------------------
(* The results of the steps *)

\* Two results that agree on all but some fields.
Same(r, q) ==
  /\ r.started = q.started /\ r.timedOut = q.timedOut /\ r.ending = q.ending
  /\ r.kept = q.kept /\ r.truncated = q.truncated

LEMMA FailsFacts ==
  ASSUME NEW r \in Results
  PROVE  Fails(r) \in Results /\ Fails(r).error /\ Same(Fails(r), r)
BY DEF Fails, Results, Same

LEMMA StartedFacts ==
  ASSUME NEW r \in Results, NEW q, q = [r EXCEPT !.started = TRUE]
  PROVE  /\ q \in Results /\ q.started /\ q.timedOut = r.timedOut
         /\ q.ending = r.ending /\ q.kept = r.kept /\ q.truncated = r.truncated
         /\ q.error = r.error
BY DEF Results

LEMMA TimedOutFacts ==
  ASSUME NEW r \in Results, NEW q, q = [r EXCEPT !.timedOut = TRUE]
  PROVE  /\ q \in Results /\ q.timedOut /\ q.started = r.started
         /\ q.ending = r.ending /\ q.kept = r.kept /\ q.truncated = r.truncated
         /\ q.error = r.error
BY DEF Results

LEMMA StatusFacts ==
  ASSUME NEW r \in Results, ending \in Endings, NEW q, q = ApplyExitStatus(r)
  PROVE  /\ q \in Results /\ q.ending = ending /\ q.started = r.started
         /\ q.timedOut = r.timedOut /\ q.kept = r.kept /\ q.truncated = r.truncated
         /\ q.error = r.error
BY DEF Results, ApplyExitStatus

LEMMA KeepFacts ==
  ASSUME NEW r \in Results, NEW n \in Nat, NEW q, q = Keep(r, n)
  PROVE  /\ q \in Results /\ q.started = r.started /\ q.timedOut = r.timedOut
         /\ q.ending = r.ending /\ q.error = r.error
         /\ q.kept = IF r.kept + n < MaxOutput THEN r.kept + n ELSE MaxOutput
         /\ q.truncated <=> r.truncated \/ r.kept + n > MaxOutput
<1> DEFINE room == MaxOutput - r.kept
           keep == IF n < room THEN n ELSE room
<1>1. r.kept \in 0 .. MaxOutput /\ r.truncated \in BOOLEAN BY DEF Results
<1>2. /\ r.kept + keep \in 0 .. MaxOutput
      /\ r.kept + keep = IF r.kept + n < MaxOutput THEN r.kept + n ELSE MaxOutput
  BY <1>1, RunnerAssumption
<1>3. keep < n <=> r.kept + n > MaxOutput BY <1>1, RunnerAssumption
<1>4. q = [r EXCEPT !.kept = r.kept + keep, !.truncated = r.truncated \/ keep < n]
  BY DEF Keep
<1> HIDE DEF keep
<1>5. /\ q.started = r.started /\ q.timedOut = r.timedOut /\ q.ending = r.ending
      /\ q.error = r.error /\ q.kept = r.kept + keep
  BY <1>4 DEF Results
<1>6. q.truncated <=> r.truncated \/ keep < n BY <1>4, Zenon DEF Results
<1>7. q \in Results BY <1>4, <1>2, Zenon DEF Results
<1> QED BY <1>2, <1>3, <1>5, <1>6, <1>7

-----------------------------------------------------------------------------
(* The steps of the parent *)

LEMMA ResolveStep == IInv /\ Resolve => IInv'
<1> SUFFICES ASSUME IInv, Resolve PROVE IInv' OBVIOUS
<1>1. /\ result' \in Results /\ Same(result', result)
      /\ result' = result \/ result'.error
  BY FailsFacts DEF IInv, TypeOK, ParentTypes, Resolve, Same
<1>2. TypeOK'
  <2>1. ParentTypes'
    BY <1>1 DEF Resolve, Goto, IInv, TypeOK, ParentTypes, Steps
  <2>2. ProcessTypes' BY DEF Resolve, IInv, TypeOK, ProcessTypes, processes
  <2>3. FlagTypes' BY Zenon DEF Resolve, IInv, TypeOK, FlagTypes
  <2> QED BY <2>1, <2>2, <2>3 DEF TypeOK
<1>3. PipeInv'
  BY <1>1
     DEF Resolve, Goto, IInv, processes, PipeInv, ResultInv, DeadlineInv, Same,
         Closed
<1>4. ResultInv'
  BY <1>1
     DEF Resolve, Goto, IInv, processes, ResultInv, DeadlineInv, ChildInv, Same
<1>5. DeadlineInv'
  BY <1>1
     DEF ResultInv, Resolve, Goto, IInv, processes, DeadlineInv, ChildInv, Same
<1>6. ChildInv' BY <1>1 DEF Resolve, Goto, IInv, processes, ChildInv, DeadlineInv
<1>7. OutputInv'
  BY <1>1
     DEF Resolve, Goto, IInv, processes, OutputInv, Same, TypeOK, ProcessTypes
<1> QED BY <1>2, <1>3, <1>4, <1>5, <1>6, <1>7 DEF IInv

LEMMA OpenPipeStep == IInv /\ OpenPipe => IInv'
<1> SUFFICES ASSUME IInv, OpenPipe PROVE IInv' OBVIOUS
<1>1. /\ result' \in Results /\ Same(result', result)
      /\ result' = result \/ result'.error
  BY FailsFacts DEF IInv, TypeOK, ParentTypes, OpenPipe, Same
<1>2. TypeOK'
  <2>1. ParentTypes'
    BY <1>1 DEF OpenPipe, Goto, IInv, TypeOK, ParentTypes, Steps, Pipes
  <2>2. ProcessTypes' BY DEF OpenPipe, IInv, TypeOK, ProcessTypes, processes
  <2>3. FlagTypes' BY Zenon DEF OpenPipe, IInv, TypeOK, FlagTypes
  <2> QED BY <2>1, <2>2, <2>3 DEF TypeOK
<1>3. PipeInv'
  BY <1>1
     DEF OpenPipe, Goto, IInv, processes, PipeInv, ResultInv, DeadlineInv, Same,
         Closed
<1>4. ResultInv'
  BY <1>1
     DEF OpenPipe, Goto, IInv, processes, ResultInv, DeadlineInv, ChildInv, Same
<1>5. DeadlineInv'
  BY <1>1
     DEF ResultInv, OpenPipe, Goto, IInv, processes, DeadlineInv, ChildInv, Same
<1>6. ChildInv' BY <1>1 DEF OpenPipe, Goto, IInv, processes, ChildInv, DeadlineInv
<1>7. OutputInv'
  BY <1>1
     DEF OpenPipe, Goto, IInv, processes, OutputInv, Same, TypeOK, ProcessTypes
<1> QED BY <1>2, <1>3, <1>4, <1>5, <1>6, <1>7 DEF IInv

LEMMA ForkStep == IInv /\ Fork => IInv'
<1> SUFFICES ASSUME IInv, Fork PROVE IInv' OBVIOUS
<1>1. /\ result' \in Results /\ Same(result', result)
      /\ result' = result \/ result'.error
  BY FailsFacts DEF IInv, TypeOK, ParentTypes, Fork, Same
<1>2. TypeOK'
  <2>1. ParentTypes'
    BY <1>1 DEF Fork, Goto, IInv, TypeOK, ParentTypes, Steps, Pipes, Closed
  <2>2. ProcessTypes' BY DEF Fork, IInv, TypeOK, ProcessTypes, processes, Children
  <2>3. FlagTypes' BY Zenon DEF Fork, IInv, TypeOK, FlagTypes
  <2> QED BY <2>1, <2>2, <2>3 DEF TypeOK
<1>3. PipeInv'
  BY <1>1
     DEF Fork, Goto, IInv, processes, PipeInv, ResultInv, DeadlineInv, Same,
         Closed
<1>4. ResultInv'
  BY <1>1 DEF Fork, Goto, IInv, processes, ResultInv, DeadlineInv, ChildInv, Same
<1>5. DeadlineInv'
  BY <1>1 DEF ResultInv, Fork, Goto, IInv, processes, DeadlineInv, ChildInv, Same
<1>6. ChildInv' BY <1>1 DEF Fork, Goto, IInv, processes, ChildInv, DeadlineInv
<1>7. OutputInv'
  BY <1>1 DEF Fork, Goto, IInv, processes, OutputInv, Same, TypeOK, ProcessTypes
<1> QED BY <1>2, <1>3, <1>4, <1>5, <1>6, <1>7 DEF IInv

LEMMA AdoptStep == IInv /\ Adopt => IInv'
<1> SUFFICES ASSUME IInv, Adopt PROVE IInv' OBVIOUS
<1>1. /\ result' \in Results /\ result'.started
      /\ result'.timedOut = result.timedOut /\ result'.ending = result.ending
      /\ result'.kept = result.kept /\ result'.truncated = result.truncated
      /\ result'.error = result.error
  BY StartedFacts DEF IInv, TypeOK, ParentTypes, Adopt
<1>2. TypeOK'
  <2>1. ParentTypes'
    BY <1>1 DEF Adopt, Goto, IInv, TypeOK, ParentTypes, Steps, Pipes, Closed
  <2>2. ProcessTypes' BY DEF Adopt, IInv, TypeOK, ProcessTypes, processes
  <2>3. FlagTypes' BY Zenon DEF Adopt, IInv, TypeOK, FlagTypes
  <2> QED BY <2>1, <2>2, <2>3 DEF TypeOK
<1>3. PipeInv'
  BY <1>1
     DEF Adopt, Goto, IInv, processes, PipeInv, ResultInv, DeadlineInv, Same,
         Closed
<1>4. ResultInv'
  BY <1>1 DEF Adopt, Goto, IInv, processes, ResultInv, DeadlineInv, ChildInv, Same
<1>5. DeadlineInv'
  BY <1>1 DEF ResultInv, Adopt, Goto, IInv, processes, DeadlineInv, ChildInv, Same
<1>6. ChildInv' BY <1>1 DEF Adopt, Goto, IInv, processes, ChildInv, DeadlineInv
<1>7. OutputInv'
  BY <1>1 DEF Adopt, Goto, IInv, processes, OutputInv, Same, TypeOK, ProcessTypes
<1> QED BY <1>2, <1>3, <1>4, <1>5, <1>6, <1>7 DEF IInv

LEMMA PollStep == IInv /\ Poll => IInv'
<1> SUFFICES ASSUME IInv, Poll PROVE IInv' OBVIOUS
<1>1. /\ result' \in Results /\ result'.started = result.started
      /\ result'.timedOut <=> (result.timedOut \/ expired)
      /\ result'.ending = result.ending
      /\ result'.kept = result.kept /\ result'.truncated = result.truncated
      /\ result'.error = result.error
  BY TimedOutFacts DEF IInv, TypeOK, ParentTypes, Poll, DeadlineInv
<1>2. TypeOK'
  <2>1. ParentTypes'
    BY <1>1 DEF Poll, Goto, IInv, TypeOK, ParentTypes, Steps
  <2>2. ProcessTypes' BY DEF Poll, IInv, TypeOK, ProcessTypes, processes
  <2>3. FlagTypes' BY Zenon DEF Poll, IInv, TypeOK, FlagTypes
  <2> QED BY <2>1, <2>2, <2>3 DEF TypeOK
<1>3. PipeInv'
  BY <1>1
     DEF Poll, Goto, IInv, processes, PipeInv, ResultInv, DeadlineInv, Same,
         Closed
<1>4. ResultInv'
  BY <1>1 DEF Poll, Goto, IInv, processes, ResultInv, DeadlineInv, ChildInv, Same
<1>5. DeadlineInv'
  BY <1>1 DEF ResultInv, Poll, Goto, IInv, processes, DeadlineInv, ChildInv, Same
<1>6. ChildInv' BY <1>1 DEF Poll, Goto, IInv, processes, ChildInv, DeadlineInv
<1>7. OutputInv'
  BY <1>1 DEF Poll, Goto, IInv, processes, OutputInv, Same, TypeOK, ProcessTypes
<1> QED BY <1>2, <1>3, <1>4, <1>5, <1>6, <1>7 DEF IInv

LEMMA PollFailsStep == IInv /\ PollFails => IInv'
<1> SUFFICES ASSUME IInv, PollFails PROVE IInv' OBVIOUS
<1>1. /\ result' \in Results /\ Same(result', result)
      /\ result' = result \/ result'.error
  BY FailsFacts DEF IInv, TypeOK, ParentTypes, PollFails, Same
<1>2. TypeOK'
  <2>1. ParentTypes'
    BY <1>1 DEF PollFails, Goto, IInv, TypeOK, ParentTypes, Steps
  <2>2. ProcessTypes' BY DEF PollFails, IInv, TypeOK, ProcessTypes, processes
  <2>3. FlagTypes' BY Zenon DEF PollFails, IInv, TypeOK, FlagTypes
  <2> QED BY <2>1, <2>2, <2>3 DEF TypeOK
<1>3. PipeInv'
  BY <1>1
     DEF PollFails, Goto, IInv, processes, PipeInv, ResultInv, DeadlineInv, Same,
         Closed
<1>4. ResultInv'
  BY <1>1
     DEF PollFails, Goto, IInv, processes, ResultInv, DeadlineInv, ChildInv, Same
<1>5. DeadlineInv'
  BY <1>1
     DEF ResultInv, PollFails, Goto, IInv, processes, DeadlineInv, ChildInv, Same
<1>6. ChildInv'
  BY <1>1 DEF PollFails, Goto, IInv, processes, ChildInv, DeadlineInv
<1>7. OutputInv'
  BY <1>1
     DEF PollFails, Goto, IInv, processes, OutputInv, Same, TypeOK, ProcessTypes
<1> QED BY <1>2, <1>3, <1>4, <1>5, <1>6, <1>7 DEF IInv

LEMMA ReadStep == IInv /\ Read => IInv'
<1> SUFFICES ASSUME IInv, Read PROVE IInv' OBVIOUS
<1>1. /\ result' \in Results /\ result'.started = result.started
      /\ result'.timedOut = result.timedOut /\ result'.ending = result.ending
      /\ result'.error = result.error
      /\ \/ /\ unread' = unread /\ result' = result
         \/ \E n \in 1 .. unread :
              /\ unread' = unread - n
              /\ result'.kept = IF result.kept + n < MaxOutput
                                THEN result.kept + n ELSE MaxOutput
              /\ result'.truncated <=> result.truncated \/ result.kept + n > MaxOutput
  <2>1. CASE unread > 0
    <3>1. PICK n \in 1 .. unread : unread' = unread - n /\ result' = Keep(result, n)
      BY <2>1 DEF Read
    <3>2. n \in Nat /\ result \in Results
      BY <3>1 DEF IInv, TypeOK, ParentTypes, ProcessTypes
    <3> QED BY <3>1, <3>2, KeepFacts
  <2>2. CASE ~(unread > 0) BY <2>2 DEF Read, IInv, TypeOK, ParentTypes
  <2> QED BY <2>1, <2>2
<1>2. TypeOK'
  <2>1. ParentTypes'
    BY <1>1 DEF Read, Goto, IInv, TypeOK, ParentTypes, Steps
  <2>2. ProcessTypes' BY <1>1 DEF Read, IInv, TypeOK, ProcessTypes
  <2>3. FlagTypes' BY Zenon DEF Read, IInv, TypeOK, FlagTypes
  <2> QED BY <2>1, <2>2, <2>3 DEF TypeOK
<1>3. PipeInv'
  BY <1>1
     DEF Read, Goto, IInv, processes, PipeInv, ResultInv, DeadlineInv, Same,
         Closed
<1>4. ResultInv'
  BY <1>1 DEF Read, Goto, IInv, processes, ResultInv, DeadlineInv, ChildInv, Same
<1>5. DeadlineInv'
  BY <1>1 DEF ResultInv, Read, Goto, IInv, processes, DeadlineInv, ChildInv, Same
<1>6. ChildInv' BY <1>1 DEF Read, Goto, IInv, processes, ChildInv, DeadlineInv
<1>7. OutputInv'
  <2> SUFFICES ASSUME ~result'.error
               PROVE  LET read == written' - unread' IN
                      /\ result'.kept = IF read < MaxOutput THEN read ELSE MaxOutput
                      /\ result'.truncated <=> read > MaxOutput
    BY DEF OutputInv
  <2> DEFINE read == written - unread
  <2>1. /\ result.kept = IF read < MaxOutput THEN read ELSE MaxOutput
        /\ result.truncated <=> read > MaxOutput
    BY <1>1 DEF IInv, OutputInv
  <2>2. written \in Nat /\ unread \in Nat /\ unread <= written /\ written' = written
    BY DEF IInv, TypeOK, ProcessTypes, Read
  <2>3. CASE unread' = unread /\ result' = result BY <2>1, <2>2, <2>3
  <2>4. ASSUME NEW n \in 1 .. unread, unread' = unread - n,
               result'.kept = IF result.kept + n < MaxOutput
                              THEN result.kept + n ELSE MaxOutput,
               result'.truncated <=> result.truncated \/ result.kept + n > MaxOutput
        PROVE  LET r == written' - unread' IN
               /\ result'.kept = IF r < MaxOutput THEN r ELSE MaxOutput
               /\ result'.truncated <=> r > MaxOutput
    <3>1. written' - unread' = read + n /\ read \in Nat /\ n \in Nat
      BY <2>2, <2>4
    <3> HIDE DEF read
    <3>2. result.kept + n > MaxOutput <=> read > MaxOutput \/ read + n > MaxOutput
      BY <2>1, <3>1, RunnerAssumption
    <3>3. result'.kept = IF read + n < MaxOutput THEN read + n ELSE MaxOutput
      BY <2>1, <2>4, <3>1, RunnerAssumption
    <3>4. read > MaxOutput => read + n > MaxOutput BY <3>1, RunnerAssumption
    <3>5. result'.truncated <=> read + n > MaxOutput
      BY <2>1, <2>4, <3>2, <3>4, Zenon
    <3> QED BY <3>1, <3>3, <3>5
  <2> QED BY <1>1, <2>3, <2>4
<1> QED BY <1>2, <1>3, <1>4, <1>5, <1>6, <1>7 DEF IInv

LEMMA AppendThrowsStep == IInv /\ AppendThrows => IInv'
<1> SUFFICES ASSUME IInv, AppendThrows PROVE IInv' OBVIOUS
<1>1. /\ result' \in Results /\ Same(result', result)
      /\ result'.error
  BY FailsFacts DEF IInv, TypeOK, ParentTypes, AppendThrows, Same
<1>2. TypeOK'
  <2>1. ParentTypes'
    BY <1>1 DEF AppendThrows, Goto, IInv, TypeOK, ParentTypes, Steps
  <2>2. ProcessTypes' BY DEF AppendThrows, IInv, TypeOK, ProcessTypes
  <2>3. FlagTypes' BY Zenon DEF AppendThrows, IInv, TypeOK, FlagTypes
  <2> QED BY <2>1, <2>2, <2>3 DEF TypeOK
<1>3. PipeInv'
  BY <1>1
     DEF AppendThrows, Goto, IInv, processes, PipeInv, ResultInv, DeadlineInv,
         Same, Closed
<1>4. ResultInv'
  BY <1>1
     DEF AppendThrows, Goto, IInv, processes, ResultInv, DeadlineInv, ChildInv,
         Same
<1>5. DeadlineInv'
  BY <1>1
     DEF ResultInv, AppendThrows, Goto, IInv, processes, DeadlineInv, ChildInv,
         Same
<1>6. ChildInv'
  BY <1>1 DEF AppendThrows, Goto, IInv, processes, ChildInv, DeadlineInv
<1>7. OutputInv'
  BY <1>1
     DEF AppendThrows, Goto, IInv, processes, OutputInv, Same, TypeOK,
         ProcessTypes
<1> QED BY <1>2, <1>3, <1>4, <1>5, <1>6, <1>7 DEF IInv

LEMMA CloseReadStep == IInv /\ CloseRead => IInv'
<1> SUFFICES ASSUME IInv, CloseRead PROVE IInv' OBVIOUS
<1>1. /\ result' \in Results /\ Same(result', result)
      /\ result' = result \/ result'.error
  BY FailsFacts DEF IInv, TypeOK, ParentTypes, CloseRead, Same
<1>2. TypeOK'
  <2>1. ParentTypes'
    BY <1>1 DEF CloseRead, Goto, IInv, TypeOK, ParentTypes, Steps, Pipes, Closed
  <2>2. ProcessTypes' BY DEF CloseRead, IInv, TypeOK, ProcessTypes, processes
  <2>3. FlagTypes' BY Zenon DEF CloseRead, IInv, TypeOK, FlagTypes
  <2> QED BY <2>1, <2>2, <2>3 DEF TypeOK
<1>3. PipeInv'
  BY <1>1
     DEF CloseRead, Goto, IInv, processes, PipeInv, ResultInv, DeadlineInv, Same,
         Closed
<1>4. ResultInv'
  BY <1>1
     DEF CloseRead, Goto, IInv, processes, ResultInv, DeadlineInv, ChildInv, Same
<1>5. DeadlineInv'
  BY <1>1
     DEF ResultInv, CloseRead, Goto, IInv, processes, DeadlineInv, ChildInv, Same
<1>6. ChildInv'
  BY <1>1 DEF CloseRead, Goto, IInv, processes, ChildInv, DeadlineInv
<1>7. OutputInv'
  BY <1>1
     DEF CloseRead, Goto, IInv, processes, OutputInv, Same, TypeOK, ProcessTypes
<1> QED BY <1>2, <1>3, <1>4, <1>5, <1>6, <1>7 DEF IInv

LEMMA WaitStep == IInv /\ Wait => IInv'
<1> SUFFICES ASSUME IInv, Wait PROVE IInv' OBVIOUS
<1>1. /\ result' \in Results /\ result'.started = result.started
      /\ result'.kept = result.kept /\ result'.truncated = result.truncated
      /\ result' # result => result'.error = result.error \/ result'.error
      /\ \/ /\ child = "zombie" /\ child' = "reaped" /\ pc' = "done" /\ reaped' = TRUE
            /\ result'.ending = ending /\ result'.timedOut = result.timedOut
         \/ /\ child = "gone" /\ child' = "gone" /\ pc' = "done" /\ reaped' = TRUE
            /\ result'.ending = result.ending /\ result'.timedOut = result.timedOut
         \/ /\ child \notin {"zombie", "gone"} /\ child' = child /\ expired
            /\ pc' = "kill" /\ reaped' = reaped
            /\ result'.ending = result.ending /\ result'.timedOut
  BY FailsFacts, StatusFacts, TimedOutFacts
     DEF IInv, TypeOK, ParentTypes, ProcessTypes, Wait, Goto, Same
<1>2. TypeOK'
  <2>1. ParentTypes'
    BY <1>1 DEF Wait, Goto, IInv, TypeOK, ParentTypes, Steps
  <2>2. ProcessTypes' BY <1>1 DEF Wait, IInv, TypeOK, ProcessTypes, Children
  <2>3. FlagTypes' BY Zenon DEF Wait, IInv, TypeOK, FlagTypes
  <2> QED BY <2>1, <2>2, <2>3 DEF TypeOK
<1>3. PipeInv'
  BY <1>1
     DEF Wait, Goto, IInv, processes, PipeInv, ResultInv, DeadlineInv, Same,
         Closed
<1>4. ResultInv'
  BY <1>1 DEF Wait, Goto, IInv, processes, ResultInv, DeadlineInv, ChildInv, Same
<1>5. DeadlineInv'
  BY <1>1 DEF ResultInv, Wait, Goto, IInv, processes, DeadlineInv, ChildInv, Same
<1>6. ChildInv' BY <1>1 DEF Wait, Goto, IInv, processes, ChildInv, DeadlineInv
<1>7. OutputInv'
  BY <1>1 DEF Wait, Goto, IInv, processes, OutputInv, Same, TypeOK, ProcessTypes
<1> QED BY <1>2, <1>3, <1>4, <1>5, <1>6, <1>7 DEF IInv

LEMMA KillStep == IInv /\ Kill => IInv'
<1> SUFFICES ASSUME IInv, Kill PROVE IInv' OBVIOUS
<1>0. stray' => stray \/ child \in {"reaped", "gone"} BY Zenon DEF Kill
<1>1. /\ result' \in Results /\ Same(result', result)
      /\ result' = result \/ result'.error
  BY FailsFacts DEF IInv, TypeOK, ParentTypes, Kill, Same
<1>2. TypeOK'
  <2>1. ParentTypes'
    BY <1>1 DEF Kill, Goto, IInv, TypeOK, ParentTypes, Steps
  <2>2. ProcessTypes'
    BY DEF Kill, IInv, TypeOK, ProcessTypes, Children, Ended, Alive, Endings,
           Killed
  <2>3. FlagTypes' BY Zenon DEF Kill, IInv, TypeOK, FlagTypes
  <2> QED BY <2>1, <2>2, <2>3 DEF TypeOK
<1>3. PipeInv'
  BY <1>1
     DEF Kill, Goto, IInv, processes, Ended, Alive, Killed, None, PipeInv,
         ResultInv, DeadlineInv, Same, Closed
<1>4. ResultInv'
  BY <1>1
     DEF Kill, Goto, IInv, processes, Ended, Alive, Killed, None, ResultInv,
         DeadlineInv, ChildInv, Same
<1>5. DeadlineInv'
  BY <1>0, <1>1
     DEF ResultInv, TypeOK, ProcessTypes, Children, Kill, Goto, IInv, processes,
         Ended, Alive, Killed, None, DeadlineInv, ChildInv, Same
<1>6. ChildInv'
  BY <1>1
     DEF Kill, Goto, IInv, processes, Ended, Alive, Killed, None, ChildInv,
         DeadlineInv
<1>7. OutputInv'
  BY <1>1
     DEF Kill, Goto, IInv, processes, Ended, Alive, Killed, None, OutputInv, Same,
         TypeOK, ProcessTypes
<1> QED BY <1>2, <1>3, <1>4, <1>5, <1>6, <1>7 DEF IInv

LEMMA ReapStep == IInv /\ Reap => IInv'
<1> SUFFICES ASSUME IInv, Reap PROVE IInv' OBVIOUS
<1>1. /\ result' \in Results /\ result'.started = result.started
      /\ result'.kept = result.kept /\ result'.truncated = result.truncated
      /\ result' # result => result'.error = result.error \/ result'.error
      /\ \/ /\ child = "zombie" /\ child' = "reaped" /\ pc' = "done" /\ reaped' = TRUE
            /\ result'.ending = ending /\ result'.timedOut = result.timedOut
         \/ /\ child = "gone" /\ child' = "gone" /\ pc' = "done" /\ reaped' = TRUE
            /\ result'.ending = result.ending /\ result'.timedOut = result.timedOut
         \/ /\ child = "reaped" /\ child' = "reaped" /\ pc' = "done" /\ reaped' = TRUE
            /\ result' = result
  BY StatusFacts DEF IInv, TypeOK, ParentTypes, ProcessTypes, Reap, Goto
<1>2. TypeOK'
  <2>1. ParentTypes'
    BY <1>1 DEF Reap, Goto, IInv, TypeOK, ParentTypes, Steps, Pipes, Closed
  <2>2. ProcessTypes' BY <1>1 DEF Reap, IInv, TypeOK, ProcessTypes, Children
  <2>3. FlagTypes' BY Zenon DEF Reap, IInv, TypeOK, FlagTypes
  <2> QED BY <2>1, <2>2, <2>3 DEF TypeOK
<1>3. PipeInv'
  BY <1>1
     DEF TypeOK, ParentTypes, Pipes, Reap, Goto, IInv, processes, PipeInv,
         ResultInv, DeadlineInv, Same, Closed
<1>4. ResultInv'
  BY <1>1 DEF Reap, Goto, IInv, processes, ResultInv, DeadlineInv, ChildInv, Same
<1>5. DeadlineInv'
  BY <1>1 DEF ResultInv, Reap, Goto, IInv, processes, DeadlineInv, ChildInv, Same
<1>6. ChildInv' BY <1>1 DEF Reap, Goto, IInv, processes, ChildInv, DeadlineInv
<1>7. OutputInv'
  BY <1>1 DEF Reap, Goto, IInv, processes, OutputInv, Same, TypeOK, ProcessTypes
<1> QED BY <1>2, <1>3, <1>4, <1>5, <1>6, <1>7 DEF IInv
-----------------------------------------------------------------------------
(* The steps of the child, of its helper and of the clock *)

LEMMA ExecStep == IInv /\ Exec => IInv'
<1> SUFFICES ASSUME IInv, Exec PROVE IInv' OBVIOUS
<1>0. UNCHANGED <<parent, trouble, stray, sigchld>>
  BY DEF Exec, processes, Ends, Ended
<1>1. expired' = expired
  BY DEF Exec, IInv, TypeOK, FlagTypes, processes, Ends, Ended
<1>2. TypeOK'
  <2>1. ParentTypes' BY <1>0 DEF IInv, TypeOK, ParentTypes, parent
  <2>2. ProcessTypes'
    BY EndingFacts
       DEF Exec, IInv, TypeOK, ProcessTypes, processes, Children, Ends, Ended
  <2>3. FlagTypes' BY <1>0, <1>1, Zenon DEF IInv, TypeOK, FlagTypes
  <2> QED BY <2>1, <2>2, <2>3 DEF TypeOK
<1>3. PipeInv' BY <1>0 DEF IInv, PipeInv, parent
<1>4. ResultInv'
  BY <1>0, EndingFacts
     DEF Exec, IInv, processes, parent, Ends, Ended, ResultInv, ChildInv
<1>5. DeadlineInv'
  BY <1>0, <1>1
     DEF Exec, IInv, processes, parent, Ends, Ended, DeadlineInv, ResultInv
<1>6. ChildInv'
  BY <1>0, EndingFacts
     DEF Exec, IInv, processes, parent, Ends, Ended, ChildInv, TypeOK, FlagTypes
<1>7. OutputInv'
  BY <1>0
     DEF Exec, IInv, processes, parent, Ends, Ended, OutputInv, TypeOK,
         ProcessTypes
<1> QED BY <1>2, <1>3, <1>4, <1>5, <1>6, <1>7 DEF IInv

LEMMA ChildEndsStep == IInv /\ ChildEnds => IInv'
<1> SUFFICES ASSUME IInv, ChildEnds PROVE IInv' OBVIOUS
<1>0. UNCHANGED <<parent, trouble, stray, sigchld>>
  BY DEF ChildEnds, processes, Ends, Ended
<1>1. expired' = expired
  BY DEF ChildEnds, IInv, TypeOK, FlagTypes, processes, Ends, Ended
<1>2. TypeOK'
  <2>1. ParentTypes' BY <1>0 DEF IInv, TypeOK, ParentTypes, parent
  <2>2. ProcessTypes'
    BY EndingFacts
       DEF ChildEnds, IInv, TypeOK, ProcessTypes, processes, Children, Ends, Ended
  <2>3. FlagTypes' BY <1>0, <1>1, Zenon DEF IInv, TypeOK, FlagTypes
  <2> QED BY <2>1, <2>2, <2>3 DEF TypeOK
<1>3. PipeInv' BY <1>0 DEF IInv, PipeInv, parent
<1>4. ResultInv'
  BY <1>0, EndingFacts
     DEF ChildEnds, IInv, processes, parent, Ends, Ended, ResultInv, ChildInv
<1>5. DeadlineInv'
  BY <1>0, <1>1
     DEF ChildEnds, IInv, processes, parent, Ends, Ended, DeadlineInv, ResultInv
<1>6. ChildInv'
  BY <1>0, EndingFacts
     DEF ChildEnds, IInv, processes, parent, Ends, Ended, ChildInv, TypeOK,
         FlagTypes
<1>7. OutputInv'
  BY <1>0
     DEF ChildEnds, IInv, processes, parent, Ends, Ended, OutputInv, TypeOK,
         ProcessTypes
<1> QED BY <1>2, <1>3, <1>4, <1>5, <1>6, <1>7 DEF IInv

LEMMA SpawnHelperStep == IInv /\ SpawnHelper => IInv'
<1> SUFFICES ASSUME IInv, SpawnHelper PROVE IInv' OBVIOUS
<1>0. UNCHANGED <<parent, trouble, stray, sigchld>> BY DEF SpawnHelper, processes
<1>1. expired' = expired
  BY DEF SpawnHelper, IInv, TypeOK, FlagTypes, processes
<1>2. TypeOK'
  <2>1. ParentTypes' BY <1>0 DEF IInv, TypeOK, ParentTypes, parent
  <2>2. ProcessTypes'
    BY EndingFacts
       DEF SpawnHelper, IInv, TypeOK, ProcessTypes, processes, Children
  <2>3. FlagTypes' BY <1>0, <1>1, Zenon DEF IInv, TypeOK, FlagTypes
  <2> QED BY <2>1, <2>2, <2>3 DEF TypeOK
<1>3. PipeInv' BY <1>0 DEF IInv, PipeInv, parent
<1>4. ResultInv'
  BY <1>0, EndingFacts
     DEF SpawnHelper, IInv, processes, parent, ResultInv, ChildInv
<1>5. DeadlineInv'
  BY <1>0, <1>1 DEF SpawnHelper, IInv, processes, parent, DeadlineInv, ResultInv
<1>6. ChildInv'
  BY <1>0, EndingFacts
     DEF SpawnHelper, IInv, processes, parent, ChildInv, TypeOK, FlagTypes
<1>7. OutputInv'
  BY <1>0
     DEF SpawnHelper, IInv, processes, parent, OutputInv, TypeOK, ProcessTypes
<1> QED BY <1>2, <1>3, <1>4, <1>5, <1>6, <1>7 DEF IInv

LEMMA WriteStep == IInv /\ Write => IInv'
<1> SUFFICES ASSUME IInv, Write PROVE IInv' OBVIOUS
<1>0. UNCHANGED <<parent, trouble, stray, sigchld>> BY DEF Write, processes
<1>1. expired' = expired
  BY DEF Write, IInv, TypeOK, FlagTypes, processes
<1>2. TypeOK'
  <2>1. ParentTypes' BY <1>0 DEF IInv, TypeOK, ParentTypes, parent
  <2>2. ProcessTypes'
    BY EndingFacts DEF Write, IInv, TypeOK, ProcessTypes, processes, Children
  <2>3. FlagTypes' BY <1>0, <1>1, Zenon DEF IInv, TypeOK, FlagTypes
  <2> QED BY <2>1, <2>2, <2>3 DEF TypeOK
<1>3. PipeInv' BY <1>0 DEF IInv, PipeInv, parent
<1>4. ResultInv'
  BY <1>0, EndingFacts DEF Write, IInv, processes, parent, ResultInv, ChildInv
<1>5. DeadlineInv'
  BY <1>0, <1>1 DEF Write, IInv, processes, parent, DeadlineInv, ResultInv
<1>6. ChildInv'
  BY <1>0, EndingFacts
     DEF Write, IInv, processes, parent, ChildInv, TypeOK, FlagTypes
<1>7. OutputInv'
  BY <1>0 DEF Write, IInv, processes, parent, OutputInv, TypeOK, ProcessTypes
<1> QED BY <1>2, <1>3, <1>4, <1>5, <1>6, <1>7 DEF IInv

LEMMA WriteToClosedStep == IInv /\ WriteToClosed => IInv'
<1> SUFFICES ASSUME IInv, WriteToClosed PROVE IInv' OBVIOUS
<1>0. UNCHANGED <<parent, trouble, stray, sigchld>>
  BY DEF WriteToClosed, processes, Ends, Ended
<1>1. expired' = expired
  BY DEF WriteToClosed, IInv, TypeOK, FlagTypes, processes, Ends, Ended
<1>2. TypeOK'
  <2>1. ParentTypes' BY <1>0 DEF IInv, TypeOK, ParentTypes, parent
  <2>2. ProcessTypes'
    BY EndingFacts
       DEF WriteToClosed, IInv, TypeOK, ProcessTypes, processes, Children, Ends,
           Ended
  <2>3. FlagTypes' BY <1>0, <1>1, Zenon DEF IInv, TypeOK, FlagTypes
  <2> QED BY <2>1, <2>2, <2>3 DEF TypeOK
<1>3. PipeInv' BY <1>0 DEF IInv, PipeInv, parent
<1>4. ResultInv'
  BY <1>0, EndingFacts
     DEF WriteToClosed, IInv, processes, parent, Ends, Ended, ResultInv, ChildInv
<1>5. DeadlineInv'
  BY <1>0, <1>1
     DEF WriteToClosed, IInv, processes, parent, Ends, Ended, DeadlineInv,
         ResultInv
<1>6. ChildInv'
  BY <1>0, EndingFacts
     DEF WriteToClosed, IInv, processes, parent, Ends, Ended, ChildInv, TypeOK,
         FlagTypes
<1>7. OutputInv'
  BY <1>0
     DEF WriteToClosed, IInv, processes, parent, Ends, Ended, OutputInv, TypeOK,
         ProcessTypes
<1> QED BY <1>2, <1>3, <1>4, <1>5, <1>6, <1>7 DEF IInv

LEMMA CloseOutputStep == IInv /\ CloseOutput => IInv'
<1> SUFFICES ASSUME IInv, CloseOutput PROVE IInv' OBVIOUS
<1>0. UNCHANGED <<parent, trouble, stray, sigchld>> BY DEF CloseOutput, processes
<1>1. expired' = expired
  BY DEF CloseOutput, IInv, TypeOK, FlagTypes, processes
<1>2. TypeOK'
  <2>1. ParentTypes' BY <1>0 DEF IInv, TypeOK, ParentTypes, parent
  <2>2. ProcessTypes'
    BY EndingFacts
       DEF CloseOutput, IInv, TypeOK, ProcessTypes, processes, Children
  <2>3. FlagTypes' BY <1>0, <1>1, Zenon DEF IInv, TypeOK, FlagTypes
  <2> QED BY <2>1, <2>2, <2>3 DEF TypeOK
<1>3. PipeInv' BY <1>0 DEF IInv, PipeInv, parent
<1>4. ResultInv'
  BY <1>0, EndingFacts
     DEF CloseOutput, IInv, processes, parent, ResultInv, ChildInv
<1>5. DeadlineInv'
  BY <1>0, <1>1 DEF CloseOutput, IInv, processes, parent, DeadlineInv, ResultInv
<1>6. ChildInv'
  BY <1>0, EndingFacts
     DEF CloseOutput, IInv, processes, parent, ChildInv, TypeOK, FlagTypes
<1>7. OutputInv'
  BY <1>0
     DEF CloseOutput, IInv, processes, parent, OutputInv, TypeOK, ProcessTypes
<1> QED BY <1>2, <1>3, <1>4, <1>5, <1>6, <1>7 DEF IInv

LEMMA HelperEndsStep == IInv /\ HelperEnds => IInv'
<1> SUFFICES ASSUME IInv, HelperEnds PROVE IInv' OBVIOUS
<1>0. UNCHANGED <<parent, trouble, stray, sigchld>> BY DEF HelperEnds, processes
<1>1. expired' = expired
  BY DEF HelperEnds, IInv, TypeOK, FlagTypes, processes
<1>2. TypeOK'
  <2>1. ParentTypes' BY <1>0 DEF IInv, TypeOK, ParentTypes, parent
  <2>2. ProcessTypes'
    BY EndingFacts DEF HelperEnds, IInv, TypeOK, ProcessTypes, processes, Children
  <2>3. FlagTypes' BY <1>0, <1>1, Zenon DEF IInv, TypeOK, FlagTypes
  <2> QED BY <2>1, <2>2, <2>3 DEF TypeOK
<1>3. PipeInv' BY <1>0 DEF IInv, PipeInv, parent
<1>4. ResultInv'
  BY <1>0, EndingFacts
     DEF HelperEnds, IInv, processes, parent, ResultInv, ChildInv
<1>5. DeadlineInv'
  BY <1>0, <1>1 DEF HelperEnds, IInv, processes, parent, DeadlineInv, ResultInv
<1>6. ChildInv'
  BY <1>0, EndingFacts
     DEF HelperEnds, IInv, processes, parent, ChildInv, TypeOK, FlagTypes
<1>7. OutputInv'
  BY <1>0 DEF HelperEnds, IInv, processes, parent, OutputInv, TypeOK, ProcessTypes
<1> QED BY <1>2, <1>3, <1>4, <1>5, <1>6, <1>7 DEF IInv

LEMMA ExpireStep == IInv /\ Expire => IInv'
<1> SUFFICES ASSUME IInv, Expire PROVE IInv' OBVIOUS
<1>0. UNCHANGED <<parent, trouble, stray, sigchld>> BY DEF Expire, processes
<1>1. expired' \in BOOLEAN /\ (expired => expired')
  BY Zenon DEF Expire, IInv, TypeOK, FlagTypes, processes
<1>2. TypeOK'
  <2>1. ParentTypes' BY <1>0 DEF IInv, TypeOK, ParentTypes, parent
  <2>2. ProcessTypes'
    BY EndingFacts DEF Expire, IInv, TypeOK, ProcessTypes, processes, Children
  <2>3. FlagTypes' BY <1>0, <1>1, Zenon DEF IInv, TypeOK, FlagTypes
  <2> QED BY <2>1, <2>2, <2>3 DEF TypeOK
<1>3. PipeInv' BY <1>0 DEF IInv, PipeInv, parent
<1>4. ResultInv'
  BY <1>0, EndingFacts DEF Expire, IInv, processes, parent, ResultInv, ChildInv
<1>5. DeadlineInv'
  BY <1>0, <1>1 DEF Expire, IInv, processes, parent, DeadlineInv, ResultInv
<1>6. ChildInv'
  BY <1>0, EndingFacts
     DEF Expire, IInv, processes, parent, ChildInv, TypeOK, FlagTypes
<1>7. OutputInv'
  BY <1>0 DEF Expire, IInv, processes, parent, OutputInv, TypeOK, ProcessTypes
<1> QED BY <1>2, <1>3, <1>4, <1>5, <1>6, <1>7 DEF IInv
-----------------------------------------------------------------------------
(* The theorems *)

LEMMA StepIInv == IInv /\ [Next]_vars => IInv'
<1> SUFFICES ASSUME IInv, [Next]_vars PROVE IInv' OBVIOUS
<1>1. CASE Parent
  BY <1>1, ResolveStep, OpenPipeStep, ForkStep, AdoptStep, PollStep, ReadStep,
     CloseReadStep, WaitStep, KillStep, ReapStep DEF Parent
<1>2. CASE PollFails \/ AppendThrows BY <1>2, PollFailsStep, AppendThrowsStep
<1>3. CASE Processes
  BY <1>3, ExecStep, ChildEndsStep, SpawnHelperStep, WriteStep, WriteToClosedStep,
     CloseOutputStep, HelperEndsStep DEF Processes
<1>4. CASE Expire BY <1>4, ExpireStep
<1>5. CASE UNCHANGED vars
  <2> USE <1>5 DEF vars, parent, processes
  <2>1. TypeOK' BY DEF IInv, TypeOK, ParentTypes, ProcessTypes, FlagTypes
  <2>2. PipeInv' BY DEF IInv, PipeInv
  <2>3. ResultInv' BY DEF IInv, ResultInv
  <2>4. DeadlineInv' BY DEF IInv, DeadlineInv
  <2>5. ChildInv' BY DEF IInv, ChildInv
  <2>6. OutputInv' BY DEF IInv, OutputInv
  <2> QED BY <2>1, <2>2, <2>3, <2>4, <2>5, <2>6 DEF IInv
<1> QED BY <1>1, <1>2, <1>3, <1>4, <1>5 DEF Next

\* The parts of the invariant hold together, of the pipe, the result and the child.
THEOREM RunnerInvariant == Spec => []IInv
BY InitIInv, StepIInv, PTL DEF Spec

\* The variables keep their types, and the kept output stays under its cap.
THEOREM RunnerTypes == Spec => []TypeOK
<1>1. IInv => TypeOK BY DEF IInv
<1> QED BY <1>1, RunnerInvariant, PTL

\* run reports success only for a git that exited with 0 before the deadline.
THEOREM SuccessMeansExitZero == Spec => []SuccessIsReal
<1>1. IInv => SuccessIsReal
  BY DEF IInv, PipeInv, ResultInv, SuccessIsReal, Succeeded, Exit, None
<1> QED BY <1>1, RunnerInvariant, PTL

\* run reports failure only for a failure, a deadline or a lost status.
THEOREM NoFalseFailure == Spec => []FailureHasReason
<1>1. IInv => FailureHasReason
  BY DEF IInv, TypeOK, ParentTypes, FlagTypes, ResultInv, DeadlineInv, ChildInv,
         FailureHasReason, Succeeded, Exit, None
<1> QED BY <1>1, RunnerInvariant, PTL

\* run returns only after the child is reaped, and after a timeout without helper.
THEOREM CleanReturn == Spec => []NothingLeftBehind
<1>1. IInv => NothingLeftBehind
  BY DEF IInv, ResultInv, DeadlineInv, NothingLeftBehind
<1> QED BY <1>1, RunnerInvariant, PTL

\* run signals the number of a reaped process only where SIGCHLD is ignored.
THEOREM SignalsHitTheirTarget == Spec => []NoStrayKill
<1>1. IInv => NoStrayKill BY DEF IInv, DeadlineInv, NoStrayKill
<1> QED BY <1>1, RunnerInvariant, PTL

\* run closes both ends of its pipe on every path.
THEOREM NoDescriptorLeak == Spec => []DescriptorsClosed
<1>1. IInv => DescriptorsClosed BY DEF IInv, PipeInv, DescriptorsClosed
<1> QED BY <1>1, RunnerInvariant, PTL

\* run keeps all of the output or a full buffer of it, and says which.
THEOREM OutputIsHonest == Spec => []OutputCapped
<1>1. IInv => OutputCapped BY DEF IInv, OutputInv, OutputCapped
<1> QED BY <1>1, RunnerInvariant, PTL
===============================================================================
