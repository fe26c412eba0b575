----------------------------- MODULE RunsCursor -----------------------------
(***************************************************************************)
(* The runs of the test daemon: MetricsCollector fetches those that were   *)
(* filed since its cursor lastRuns and stores them in test_runs.  The      *)
(* cursor lives in memory; after a restart the last days are fetched anew  *)
(* and InsertTestRun tells the known runs by their start.                  *)
(*                                                                         *)
(* Times are kept as ages, in units of which Period make six hours.  The   *)
(* daemon is external: it files a run under one time, from which on the    *)
(* run is in its answers, and gives the runs of a half-open interval.      *)
(***************************************************************************)
EXTENDS Integers

CONSTANTS Runs,
          Period,    \* units between two collections
          Backfill,  \* backfillRunsSince
          MaxOutage, \* bound: age of the cursor at which the daemon answers again
          MaxCollect,\* bound: units a collection takes
          MaxFaults, \* bound: inserts that fail
          None       \* no time: the run is not filed, the collector is off

ASSUME RunsAssumption ==
    /\ Period \in Nat \ {0, 1} /\ Backfill \in Nat /\ MaxOutage \in Nat
    /\ MaxCollect \in Nat /\ MaxFaults \in Nat /\ None \notin Nat

VARIABLES filed,    \* the daemon: run -> age of the time it is filed under
          rows,     \* test_runs: run -> its rows, at most two counted
          lastRuns, \* the cursor, as an age
          loop,     \* runsLoop: "off", "timer", "list", "insert"
          now,      \* the argument of collectRuns, as an age
          hour,     \* the clock, modulo Period
          due,      \* units until the timer fires
          fetched,  \* runs of the answer that are still to be inserted
          dropped,  \* history: runs whose insert failed in this life of the process
          late,     \* history: runs that were too old at a start of the process
          runFaults

runsLocal == <<lastRuns, loop, now, due, fetched>>
runsHistory == <<dropped, late, runFaults>>
runsVars == <<filed, rows, runsLocal, hour, runsHistory>>

\* No cursor gets older: an age beyond it need not be told from others.
OldestRun == Backfill + MaxOutage + Period + MaxCollect + 1

Aged(age) == IF age \in 0..(OldestRun - 1) THEN age + 1 ELSE age

Filed == {r \in Runs : filed[r] # None}
Collecting == loop \in {"list", "insert"}

-----------------------------------------------------------------------------
\* Mutant of NextRunsTick: a collection that took no time is repeated at once.
NextRunsTickOrNow(h) ==
    LET cand == (h \div Period) * Period + 1 IN IF cand >= h THEN cand ELSE cand + Period

\* Mutant of NextRunsTick: this period's moment is passed over before it came.
NextRunsTickLate(h) == (h \div Period) * Period + 1 + Period

\* nextRunsTick: the first moment after h that is one unit, a quarter of an
\* hour, into a period.
NextRunsTick(h) ==
    LET cand == (h \div Period) * Period + 1 IN IF cand > h THEN cand ELSE cand + Period

RunsInit ==
    /\ filed = [r \in Runs |-> None] /\ rows = [r \in Runs |-> 0]
    /\ lastRuns = None /\ loop = "off" /\ now = None /\ due = 0 /\ fetched = {}
    /\ hour \in 0..(Period - 1)
    /\ dropped = {} /\ late = {} /\ runFaults = 0

FileRun ==
    /\ \E r \in Runs \ Filed : filed' = [filed EXCEPT ![r] = 0]
    /\ UNCHANGED <<rows, runsLocal, hour, runsHistory>>

RunsTime ==
    /\ loop = "timer" => due > 0
    /\ Collecting => now < MaxCollect
    /\ hour' = (hour + 1) % Period
    /\ due' = IF loop = "timer" THEN due - 1 ELSE 0
    /\ filed' = [r \in Runs |-> Aged(filed[r])]
    /\ lastRuns' = Aged(lastRuns) /\ now' = Aged(now)
    /\ UNCHANGED <<rows, loop, fetched, runsHistory>>

\* NewMetricsCollector, and the collection with which runsLoop begins.
StartRuns ==
    /\ loop = "off" /\ loop' = "list"
    /\ lastRuns' = Backfill /\ now' = 0
    /\ dropped' = {} /\ late' = late \cup {r \in Filed : filed[r] > Backfill}
    /\ UNCHANGED <<filed, rows, hour, due, fetched, runFaults>>

StopRuns ==
    /\ loop # "off" /\ loop' = "off"
    /\ lastRuns' = None /\ now' = None /\ due' = 0 /\ fetched' = {}
    /\ UNCHANGED <<filed, rows, hour, runsHistory>>

TimerFires ==
    /\ loop = "timer" /\ due = 0 /\ loop' = "list" /\ now' = 0
    /\ UNCHANGED <<filed, rows, lastRuns, hour, due, fetched, runsHistory>>

\* Back to runsLoop, which sets its timer.
Sleep ==
    /\ loop' = "timer" /\ now' = None /\ fetched' = {}
    /\ due' = NextRunsTick(hour) - hour

\* ListRuns: the half-open interval [from, to), in ages.
ListRuns(from, to) == {r \in Filed : filed[r] <= from /\ filed[r] > to}

DaemonAnswers ==
    /\ loop = "list" /\ loop' = "insert"
    /\ fetched' = ListRuns(lastRuns, now)
    /\ UNCHANGED <<filed, rows, lastRuns, now, hour, due, runsHistory>>

\* Without an answer the cursor stays where it is.
DaemonDown ==
    /\ loop = "list" /\ lastRuns < MaxOutage
    /\ Sleep
    /\ UNCHANGED <<filed, rows, lastRuns, hour, runsHistory>>

\* Mutant of InsertTestRun: known runs are not looked for.
InsertTestRunAgain(r) == [rows EXCEPT ![r] = IF @ = 2 THEN 2 ELSE @ + 1]

\* InsertTestRun: a run and its results in one transaction, if it is not there.
InsertTestRun(r) == [rows EXCEPT ![r] = IF @ = 0 THEN 1 ELSE @]

InsertRun ==
    /\ loop = "insert"
    /\ \E r \in fetched :
         /\ fetched' = fetched \ {r}
         /\ \/ rows' = InsertTestRun(r) /\ UNCHANGED <<dropped, runFaults>>
            \/ /\ runFaults < MaxFaults /\ runFaults' = runFaults + 1
               /\ dropped' = dropped \cup {r} /\ UNCHANGED rows
    /\ UNCHANGED <<filed, lastRuns, loop, now, hour, due, late>>

\* Mutant of NewCursor: the moment the collection ended.
NewCursorAtEnd == 0

\* The moment the collection began.
NewCursor == now

RunsStored ==
    /\ loop = "insert" /\ fetched = {}
    /\ Sleep /\ lastRuns' = NewCursor
    /\ UNCHANGED <<filed, rows, hour, runsHistory>>

CollectRuns == TimerFires \/ DaemonAnswers \/ DaemonDown \/ InsertRun \/ RunsStored

RunsNext == FileRun \/ RunsTime \/ StartRuns \/ StopRuns \/ CollectRuns

RunsSpec == RunsInit /\ [][RunsNext]_runsVars

RunsFairness == WF_runsVars(RunsTime) /\ WF_runsVars(CollectRuns)

-----------------------------------------------------------------------------
(* Properties. *)

RunAge == 0..OldestRun

RunsTypeOK ==
    /\ filed \in [Runs -> RunAge \cup {None}] /\ rows \in [Runs -> 0..2]
    /\ lastRuns \in RunAge \cup {None} /\ now \in RunAge \cup {None}
    /\ (loop = "off") = (lastRuns = None) /\ Collecting = (now # None)
    /\ loop \in {"off", "timer", "list", "insert"}
    /\ hour \in 0..(Period - 1) /\ due \in 0..Period
    /\ fetched \cup dropped \cup late \subseteq Filed /\ runFaults \in 0..MaxFaults

\* The cursor never passes a run that is not stored, whether the daemon was
\* silent ("if the daemon was down, the window is not lost", collector.go:661), the
\* process was restarted or the run was filed while another collection was
\* under way; only a run whose own insert failed, or one that was older than
\* the backfill when the process started, may be left behind.
CursorPassesStoredRuns ==
    loop # "off" =>
        \A r \in Filed : filed[r] > lastRuns => rows[r] # 0 \/ r \in dropped \cup late

\* "A repeated fetch after a restart is idempotent", db.go:703.
RunsStoredOnce == \A r \in Runs : rows[r] <= 1

\* The strengthening: what is older than the collection was fetched, if it was
\* not stored before.
FetchCovers ==
    loop = "insert" =>
        \A r \in Filed : filed[r] > now => r \in fetched \/ rows[r] # 0 \/ r \in dropped \cup late

RunsInv == RunsTypeOK /\ CursorPassesStoredRuns /\ RunsStoredOnce /\ FetchCovers

\* Every run arrives if the process stays up in the end.
RunsArrive ==
    <>[](loop # "off") => \A r \in Runs :
        filed[r] # None ~> rows[r] # 0 \/ r \in dropped \cup late
=============================================================================
