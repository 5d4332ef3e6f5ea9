---------------------------- MODULE ProcessRunner -----------------------------
(***************************************************************************)
(* One call of ProcessRunner::run, which a worker makes to clone a         *)
(* repository: the parent forks a child into a process group of its own,   *)
(* drains its output through a pipe up to a deadline, and reaps it.        *)
(*                                                                         *)
(* The child (git) and a helper it spawns (git-remote-https) run at the    *)
(* same time.  Both may hold the write end of the pipe, so end of file and *)
(* the exit of the child come in either order or not at all, and the       *)
(* deadline may pass between any two steps.                                *)
(***************************************************************************)
EXTENDS Naturals, FiniteSets

CONSTANTS
  MaxOutput,   \* ProcessOptions::maxOutputBytes, in chunks
  MaxWritten   \* bound: how many chunks the child and its helper write

ASSUME RunnerAssumption == MaxOutput \in Nat /\ MaxWritten \in Nat

VARIABLES
  pc,        \* the next step of the parent
  fds,       \* the two ends of the pipe in the parent
  result,    \* the ProcessResult so far
  reaped,    \* the local variable: the parent has nothing left to wait for
  child,     \* the child process
  ending,    \* how the child ended, None before
  helper,    \* a process the child spawned, in the same group
  writers,   \* who holds the write end of the pipe
  written,   \* chunks written so far
  unread,    \* of them, those still in the pipe
  expired,   \* whether the deadline has passed
  sigchld,   \* the disposition of SIGCHLD: "ignored" reaps children unasked
  trouble,   \* history: a call of the parent failed after the fork
  stray      \* history: a signal was sent to the number of a reaped process

parent    == <<pc, fds, result, reaped>>
processes == <<child, ending, helper, writers, written, unread>>
vars == <<parent, processes, expired, sigchld, trouble, stray>>

None     == [exit |-> "none", signal |-> "none"]
Exit(c)  == [exit |-> c, signal |-> "none"]
Killed(s) == [exit |-> "none", signal |-> s]

\* ProcessResult, before anything is known: exitCode -1 and termSignal 0.
NoResult ==
  [started |-> FALSE, timedOut |-> FALSE, truncated |-> FALSE, error |-> FALSE,
   kept |-> 0, ending |-> None]

\* Mutant of Succeeded: a child killed at the deadline may have exited before.
SucceededIgnoringDeadline(r) == r.started /\ r.ending = Exit("0")

\* ProcessResult::succeeded
Succeeded(r) == r.started /\ ~r.timedOut /\ r.ending = Exit("0")

\* closeQuietly
Closed(fd) == IF fd = "open" THEN "closed" ELSE fd

\* applyExitStatus
ApplyExitStatus(r) == [r EXCEPT !.ending = ending]

Fails(r) == [r EXCEPT !.error = TRUE]

Goto(step) == pc' = step

-----------------------------------------------------------------------------
(* The parent *)

\* An empty argv or an executable that is not found.
Resolve ==
  /\ pc = "resolve"
  /\ \/ Goto("pipe") /\ UNCHANGED result
     \/ Goto("done") /\ result' = Fails(result)
  /\ UNCHANGED <<fds, reaped, processes, expired, sigchld, trouble, stray>>

OpenPipe ==
  /\ pc = "pipe"
  /\ \/ Goto("fork") /\ fds' = [read |-> "open", write |-> "open"]
        /\ UNCHANGED result
     \/ Goto("done") /\ result' = Fails(result) /\ UNCHANGED fds
  /\ UNCHANGED <<reaped, processes, expired, sigchld, trouble, stray>>

\* Mutant of Fork: when it fails, the pipe is left open.
ForkLeakingPipe ==
  /\ pc = "fork"
  /\ \/ /\ Goto("adopt") /\ child' = "forked" /\ writers' = {"child"}
        /\ UNCHANGED <<fds, result>>
     \/ /\ Goto("done") /\ result' = Fails(result)
        /\ UNCHANGED <<fds, child, writers>>
  /\ UNCHANGED <<reaped, ending, helper, written, unread, expired, sigchld,
                 trouble, stray>>

Fork ==
  /\ pc = "fork"
  /\ \/ /\ Goto("adopt") /\ child' = "forked" /\ writers' = {"child"}
        /\ UNCHANGED <<fds, result>>
     \/ /\ Goto("done") /\ result' = Fails(result)
        /\ fds' = [read |-> Closed(fds.read), write |-> Closed(fds.write)]
        /\ UNCHANGED <<child, writers>>
  /\ UNCHANGED <<reaped, ending, helper, written, unread, expired, sigchld,
                 trouble, stray>>

\* setpgid, as the child does itself; from here on the deadline runs.
Adopt ==
  /\ pc = "adopt" /\ Goto("poll")
  /\ fds' = [fds EXCEPT !.write = Closed(@)]
  /\ result' = [result EXCEPT !.started = TRUE]
  /\ UNCHANGED <<reaped, processes, expired, sigchld, trouble, stray>>

\* Mutant of Poll: a poll that comes back empty is taken for the deadline.
PollSliceIsDeadline ==
  /\ pc = "poll"
  /\ \/ /\ expired \/ unread = 0
        /\ Goto("closeRead") /\ result' = [result EXCEPT !.timedOut = TRUE]
     \/ /\ ~expired /\ (unread > 0 \/ writers = {}) /\ Goto("read")
        /\ UNCHANGED result
  /\ UNCHANGED <<fds, reaped, processes, expired, sigchld, trouble, stray>>

\* A poll that times out or is interrupted comes back here: no step.
Poll ==
  /\ pc = "poll"
  /\ \/ /\ expired /\ Goto("closeRead")
        /\ result' = [result EXCEPT !.timedOut = TRUE]
     \/ /\ ~expired /\ (unread > 0 \/ writers = {}) /\ Goto("read")
        /\ UNCHANGED result
  /\ UNCHANGED <<fds, reaped, processes, expired, sigchld, trouble, stray>>

\* poll or read fails: the output ends here.
PollFails ==
  /\ pc \in {"poll", "read"} /\ Goto("closeRead") /\ trouble' = TRUE
  /\ UNCHANGED <<fds, result, reaped, processes, expired, sigchld, stray>>

\* Mutants of Keep: the buffer is not capped; output that just fits counts as
\* truncated.
KeepUncapped(r, n) ==
  [r EXCEPT !.kept = @ + n, !.truncated = r.kept + n > MaxOutput]

KeepOffByOne(r, n) ==
  LET room == MaxOutput - r.kept
      keep == IF n < room THEN n ELSE room
  IN  [r EXCEPT !.kept = @ + keep, !.truncated = @ \/ keep <= n]

\* What of n chunks is appended to the output.
Keep(r, n) ==
  LET room == MaxOutput - r.kept
      keep == IF n < room THEN n ELSE room
  IN  [r EXCEPT !.kept = @ + keep, !.truncated = @ \/ keep < n]

Read ==
  /\ pc = "read"
  /\ IF unread > 0
     THEN \E n \in 1 .. unread :
            Goto("poll") /\ unread' = unread - n /\ result' = Keep(result, n)
     ELSE Goto("closeRead") /\ UNCHANGED <<unread, result>>
  /\ UNCHANGED <<fds, reaped, child, ending, helper, writers, written, expired,
                 sigchld, trouble, stray>>

\* Out of memory while the output is appended: the catch block kills the child.
AppendThrows ==
  /\ pc = "read" /\ unread > 0
  /\ Goto("kill") /\ result' = Fails(result) /\ trouble' = TRUE
  /\ unread' = unread - 1
  /\ UNCHANGED <<fds, reaped, child, ending, helper, writers, written, expired,
                 sigchld, stray>>

CloseRead ==
  /\ pc = "closeRead"
  /\ fds' = [fds EXCEPT !.read = Closed(@)]
  /\ Goto(IF result.timedOut THEN "kill" ELSE "wait")
  /\ UNCHANGED <<result, reaped, processes, expired, sigchld, trouble, stray>>

\* Mutants of Wait: a reaped child is taken for one still to be killed; nothing
\* stops the wait for a child that closed its output and goes on.
WaitForgetting ==
  /\ pc = "wait"
  /\ \/ /\ child = "zombie" /\ Goto("kill") /\ child' = "reaped"
        /\ result' = ApplyExitStatus(result) /\ UNCHANGED reaped
     \/ /\ child = "gone" /\ Goto("done") /\ reaped' = TRUE
        /\ result' = Fails(result) /\ UNCHANGED child
     \/ /\ child \notin {"zombie", "gone"} /\ expired /\ Goto("kill")
        /\ result' = [result EXCEPT !.timedOut = TRUE]
        /\ UNCHANGED <<child, reaped>>
  /\ UNCHANGED <<fds, ending, helper, writers, written, unread, expired, sigchld,
                 trouble, stray>>

WaitWithoutDeadline ==
  /\ pc = "wait"
  /\ \/ /\ child = "zombie" /\ Goto("done") /\ child' = "reaped"
        /\ result' = ApplyExitStatus(result) /\ reaped' = TRUE
     \/ /\ child = "gone" /\ Goto("done") /\ reaped' = TRUE
        /\ result' = Fails(result) /\ UNCHANGED child
  /\ UNCHANGED <<fds, ending, helper, writers, written, unread, expired, sigchld,
                 trouble, stray>>

\* waitpid(WNOHANG) first, the deadline after it.  A child that was reaped
\* unasked makes waitpid fail: its status stays unknown.
Wait ==
  /\ pc = "wait"
  /\ \/ /\ child = "zombie" /\ Goto("done") /\ child' = "reaped"
        /\ result' = ApplyExitStatus(result) /\ reaped' = TRUE
     \/ /\ child = "gone" /\ Goto("done") /\ reaped' = TRUE
        /\ result' = Fails(result) /\ UNCHANGED child
     \/ /\ child \notin {"zombie", "gone"} /\ expired /\ Goto("kill")
        /\ result' = [result EXCEPT !.timedOut = TRUE]
        /\ UNCHANGED <<child, reaped>>
  /\ UNCHANGED <<fds, ending, helper, writers, written, unread, expired, sigchld,
                 trouble, stray>>

Alive == child \in {"forked", "running"}

\* Where a process that ends goes: to its parent, or nowhere.
Ended == IF sigchld = "ignored" THEN "gone" ELSE "zombie"

\* Mutant of Kill: only the child, not its group.
KillOnlyChild ==
  /\ pc = "kill" /\ Goto("reap")
  /\ IF Alive
     THEN /\ child' = Ended /\ ending' = Killed("KILL")
          /\ writers' = writers \ {"child"}
     ELSE UNCHANGED <<child, ending, writers>>
  /\ stray' = (stray \/ (child \in {"reaped", "gone"} /\ helper # "running"))
  /\ UNCHANGED <<fds, result, reaped, helper, written, unread, expired, sigchld,
                 trouble>>

\* killAndReap: SIGKILL to the group, then to the child.  The number of a dead
\* process is free for others when neither it nor its group is left.
Kill ==
  /\ pc = "kill" /\ Goto("reap")
  /\ IF Alive
     THEN child' = Ended /\ ending' = Killed("KILL")
     ELSE UNCHANGED <<child, ending>>
  /\ helper' = IF helper = "running" THEN "dead" ELSE helper
  /\ writers' = {}
  /\ stray' = (stray \/ (child \in {"reaped", "gone"} /\ helper # "running"))
  /\ UNCHANGED <<fds, result, reaped, written, unread, expired, sigchld, trouble>>

\* The blocking waitpid of killAndReap.  After an exception the pipe is closed
\* here; otherwise it is closed already.
Reap ==
  /\ pc = "reap" /\ Goto("done") /\ reaped' = TRUE
  /\ \/ /\ child = "zombie" /\ child' = "reaped"
        /\ result' = ApplyExitStatus(result)
     \/ child \in {"gone", "reaped"} /\ UNCHANGED <<child, result>>
  /\ fds' = [read |-> Closed(fds.read), write |-> Closed(fds.write)]
  /\ UNCHANGED <<ending, helper, writers, written, unread, expired, sigchld,
                 trouble, stray>>

Parent ==
  \/ Resolve \/ OpenPipe \/ Fork \/ Adopt \/ Poll \/ Read \/ CloseRead \/ Wait
  \/ Kill \/ Reap

-----------------------------------------------------------------------------
(* The child and its helper *)

\* The child exits, is killed by a signal, or dies of writing to a closed pipe.
Ends(how) ==
  /\ child' = Ended /\ ending' = how /\ writers' = writers \ {"child"}
  /\ UNCHANGED <<parent, helper, written, unread, expired, sigchld, trouble, stray>>

\* Up to execve: 126 when the descriptors or limits cannot be set, 127 when the
\* program cannot be run.
Exec ==
  /\ child = "forked"
  /\ \/ /\ child' = "running"
        /\ UNCHANGED <<parent, ending, helper, writers, written, unread, expired,
                       sigchld, trouble, stray>>
     \/ \E c \in {"126", "127"} : Ends(Exit(c))

\* git: any exit code, a crash, or SIGXFSZ at the file size limit.
ChildEnds ==
  /\ child = "running"
  /\ \E how \in {Exit("0"), Exit("1"), Killed("XFSZ"), Killed("SEGV")} : Ends(how)

SpawnHelper ==
  /\ child = "running" /\ helper = "none"
  /\ helper' = "running"
  /\ writers' = writers \cup IF "child" \in writers THEN {"helper"} ELSE {}
  /\ UNCHANGED <<parent, child, ending, written, unread, expired, sigchld, trouble,
                 stray>>

\* A closed read end makes the writer die of SIGPIPE.
Write ==
  /\ \E p \in writers :
       /\ p = "child" => child = "running"
       /\ p = "helper" => helper = "running"
  /\ written < MaxWritten /\ fds.read = "open"
  /\ written' = written + 1 /\ unread' = unread + 1
  /\ UNCHANGED <<parent, child, ending, helper, writers, expired, sigchld, trouble,
                 stray>>

WriteToClosed ==
  /\ child = "running" /\ "child" \in writers /\ fds.read = "closed"
  /\ Ends(Killed("PIPE"))

\* The write end is closed, by hand or by the end of the helper.
CloseOutput ==
  /\ \E p \in writers :
       /\ p = "child" => child = "running"
       /\ writers' = writers \ {p}
  /\ UNCHANGED <<parent, child, ending, helper, written, unread, expired, sigchld,
                 trouble, stray>>

HelperEnds ==
  /\ helper = "running" /\ helper' = "dead" /\ writers' = writers \ {"helper"}
  /\ UNCHANGED <<parent, child, ending, written, unread, expired, sigchld, trouble,
                 stray>>

Processes ==
  \/ Exec \/ ChildEnds \/ SpawnHelper \/ Write \/ WriteToClosed \/ CloseOutput
  \/ HelperEnds

\* The clock passes the deadline, 120 seconds after the fork for a clone.
Expire ==
  /\ pc \in {"poll", "read", "closeRead", "wait"} /\ ~expired /\ expired' = TRUE
  /\ UNCHANGED <<parent, processes, sigchld, trouble, stray>>

-----------------------------------------------------------------------------

Init ==
  /\ pc = "resolve" /\ fds = [read |-> "none", write |-> "none"]
  /\ result = NoResult /\ reaped = FALSE
  /\ child = "none" /\ ending = None /\ helper = "none" /\ writers = {}
  /\ written = 0 /\ unread = 0
  /\ expired = FALSE /\ sigchld \in {"default", "ignored"}
  /\ trouble = FALSE /\ stray = FALSE

Next == Parent \/ PollFails \/ AppendThrows \/ Processes \/ Expire

\* The parent runs and time passes; the child and its helper need not do anything.
Fairness == WF_vars(Parent) /\ WF_vars(Expire)

Spec == Init /\ [][Next]_vars /\ Fairness
-----------------------------------------------------------------------------
(* Properties *)

Endings ==
  {None} \cup {Exit(c) : c \in {"0", "1", "126", "127"}}
         \cup {Killed(s) : s \in {"KILL", "XFSZ", "SEGV", "PIPE"}}

Results ==
  [started : BOOLEAN, timedOut : BOOLEAN, truncated : BOOLEAN, error : BOOLEAN,
   kept : 0 .. MaxOutput, ending : Endings]

Steps ==
  {"resolve", "pipe", "fork", "adopt", "poll", "read", "closeRead", "wait", "kill",
   "reap", "done"}

Pipes == [read : {"none", "open", "closed"}, write : {"none", "open", "closed"}]

Children == {"none", "forked", "running", "zombie", "reaped", "gone"}

ParentTypes ==
  pc \in Steps /\ fds \in Pipes /\ result \in Results /\ reaped \in BOOLEAN

ProcessTypes ==
  /\ child \in Children /\ ending \in Endings
  /\ helper \in {"none", "running", "dead"} /\ writers \subseteq {"child", "helper"}
  /\ written \in Nat /\ unread \in Nat /\ unread <= written

FlagTypes ==
  /\ expired \in BOOLEAN /\ trouble \in BOOLEAN /\ stray \in BOOLEAN
  /\ sigchld \in {"default", "ignored"}

TypeOK == ParentTypes /\ ProcessTypes /\ FlagTypes

\* A clone counts as done only when git itself exited with 0 and was seen to
\* before the deadline, however its exit, the end of its output, a kill and the
\* deadline are ordered.
SuccessIsReal ==
  pc = "done" /\ Succeeded(result) =>
    /\ child = "reaped" /\ ending = Exit("0") /\ ~result.timedOut
    /\ fds.read = "closed"

\* And it counts as failed only for a reason: git failed, the deadline passed, a
\* call of the parent failed, or the status was lost to an ignored SIGCHLD.
FailureHasReason ==
  pc = "done" /\ ~Succeeded(result) =>
    \/ ~result.started \/ expired \/ trouble \/ sigchld = "ignored"
    \/ ending # Exit("0")

\* run returns with the child reaped, and after a timeout with its whole group
\* dead: no zombie, no git still writing into a workspace that is cleaned up.
NothingLeftBehind ==
  pc = "done" /\ result.started =>
    /\ reaped /\ child \in {"reaped", "gone"}
    /\ result.timedOut => helper # "running"

\* No signal goes to the number of a process that run has reaped and that may
\* be another by now; with SIGCHLD ignored the kernel reaps, and it may.
NoStrayKill == stray => sigchld = "ignored"

\* On every path both ends of the pipe are closed.
DescriptorsClosed ==
  pc = "done" => fds.read # "open" /\ fds.write # "open"

\* The kept output is all of what was read or a full buffer, and it says so when
\* something was dropped.
OutputCapped ==
  pc = "done" /\ ~result.error =>
    LET read == written - unread IN
    /\ result.kept = IF read < MaxOutput THEN read ELSE MaxOutput
    /\ result.truncated <=> read > MaxOutput

\* Whatever the child and its helper do or leave undone, run returns.
Returns == <>(pc = "done")
===============================================================================
