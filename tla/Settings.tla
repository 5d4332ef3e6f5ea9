------------------------------- MODULE Settings -------------------------------
(***************************************************************************)
(* The numbers the program reads from its environment.  A variable is      *)
(* absent, or a text in one of the forms the two parsers tell apart: a     *)
(* number as it is, a number after blanks or a plus sign, a number with    *)
(* more text behind it, or no number at all.                               *)
(***************************************************************************)
EXTENDS Integers

CONSTANTS
  IntMax,              \* the largest int
  LongMax,             \* the largest long long
  DefaultWorkerCount,  \* 4
  MaxWorkerCount,      \* 16
  DefaultAttempts,     \* connects to MySQL when nothing is set: 5
  DefaultCloneTimeout, \* 120 seconds
  MaxCloneTimeout      \* 3600 seconds

ASSUME SettingsAssumption ==
  /\ {IntMax, LongMax, DefaultWorkerCount, MaxWorkerCount, DefaultAttempts,
      DefaultCloneTimeout, MaxCloneTimeout} \subseteq Nat \ {0}
  /\ DefaultWorkerCount <= MaxWorkerCount /\ IntMax <= LongMax
  /\ DefaultCloneTimeout <= MaxCloneTimeout /\ MaxCloneTimeout <= LongMax

Absent == [form |-> "absent", number |-> 0]
Garbage == [form |-> "garbage", number |-> 0]
Text(form, n) == [form |-> form, number |-> n]

\* std::stoi and std::stoll: blanks before and text after the number are fine, a
\* number out of range is not.
Parses(raw, max) ==
  /\ raw.form \in {"plain", "blank", "trailing"}
  /\ raw.number \in -max - 1 .. max

\* Mutant of WorkerCount: no cap.
WorkerCountUncapped(raw) ==
  IF ~Parses(raw, IntMax) \/ raw.number <= 0 THEN DefaultWorkerCount ELSE raw.number

\* resolveWorkerCount
WorkerCount(raw) ==
  IF ~Parses(raw, IntMax) \/ raw.number <= 0 THEN DefaultWorkerCount
  ELSE IF raw.number > MaxWorkerCount THEN MaxWorkerCount ELSE raw.number

\* Database::initialize, MYSQL_CONNECT_RETRIES
ConnectAttempts(raw) ==
  IF Parses(raw, IntMax) /\ raw.number > 0 THEN raw.number ELSE DefaultAttempts

\* maxRetryAttempts, JOB_MAX_RETRIES
DefaultRetries == 3

MaxRetryAttempts(raw) ==
  IF ~Parses(raw, IntMax) \/ raw.number < 0 THEN DefaultRetries ELSE raw.number

\* resolveMaxBacklog, JOB_MAX_BACKLOG
DefaultMaxBacklog == 64

MaxBacklog(raw) ==
  IF Parses(raw, LongMax) /\ raw.number > 0 THEN raw.number ELSE DefaultMaxBacklog

\* Mutant of ParsePositiveCapped: an overflow is no number.
ParsePositiveCappedNoOverflow(raw, fallback, maximum) ==
  IF raw.form # "plain" \/ raw.number > LongMax \/ raw.number <= 0 THEN fallback
  ELSE IF raw.number > maximum THEN maximum ELSE raw.number

\* parsePositiveCapped: nothing but the number, and an overflow is the maximum.
ParsePositiveCapped(raw, fallback, maximum) ==
  IF raw.form # "plain" \/ raw.number <= 0 THEN fallback
  ELSE IF raw.number > maximum THEN maximum ELSE raw.number

CloneTimeoutSeconds(raw) ==
  ParsePositiveCapped(raw, DefaultCloneTimeout, MaxCloneTimeout)
===============================================================================
