------------------------------ MODULE Collector ------------------------------
(***************************************************************************)
(* The telemetry goroutine of MetricsCollector, for one panel: how the     *)
(* minutes of history the panel keeps end up in rows of panel_snapshots,   *)
(* one row per window of WindowLen minutes.                                *)
(*                                                                         *)
(* A cycle asks for the status, for the history of every metric in         *)
(* parallel, and inserts one row per window that has points newer than     *)
(* lastSeen.  Time passes and the panel records further minutes between    *)
(* any two of these requests.  The process may stop between them: lastTS   *)
(* is memory, the rows are not.                                            *)
(***************************************************************************)
EXTENDS Integers

CONSTANTS Metrics,   \* historyMetrics
          WindowLen, \* telemetryWindow and collectInterval, in minutes
          MaxMinute, \* bound: the panel records no minute after this one
          MaxFaults, \* bound on the faults: failing requests, failing inserts, stops
          Unknown    \* no entry of lastTS; a metric that has not answered

ASSUME WindowAssumption == WindowLen \in Nat \ {0} /\ MaxMinute \in Nat /\ MaxFaults \in Nat
ASSUME UnknownAssumption == Unknown \notin Int

VARIABLES now,       \* the last minute that ended
          published, \* the minutes the panel recorded in its history
          untilTick, \* minutes until the ticker fires; 0 before there is a ticker
          tick,      \* a cycle is due: the first, or a tick waits in the channel
          pc,        \* where the goroutine is
          asOf,      \* metric -> when the panel answered its history request
          batch,     \* the points newer than lastSeen, of all metrics
          left,      \* the windows of batch that are still to be inserted
          lastTS,    \* lastTS[p.ID]: the newest point that is stored
          rows,      \* panel_snapshots: window -> the points its row aggregates
          used,      \* history: the points that were ever part of a row
          faults     \* faults so far

vars == <<now, published, untilTick, tick, pc, asOf, batch, left, lastTS, rows, used, faults>>
clockVars == <<now, published, untilTick>>
cycleVars == <<pc, asOf, batch, left>>
dbVars    == <<rows, used>>

-----------------------------------------------------------------------------
(* Minutes, points and windows. *)

\* The clock starts at the beginning of a window: no row has the ts 0, which
\* MaxSnapshotTS takes for "no row".
Minutes == WindowLen .. MaxMinute

\* xui.HistoryPoint together with its metric.
Point == [metric : Metrics, t : Minutes]

\* bts: the start of the window a minute falls into.
Window(t) == (t \div WindowLen) * WindowLen

Windows == {Window(t) : t \in Minutes}
WindowsOf(points) == {Window(p.t) : p \in points}

\* A row is inserted for windows with points only: no points, no row.
Stored == {w \in Windows : rows[w] # {}}

\* lastSeen: the cached value, or the newest ts in the table, or six hours
\* ago, which here is before the first minute.
IsLastSeen(t) ==
    IF lastTS # Unknown THEN t = lastTS
    ELSE IF Stored = {} THEN t = 0
    ELSE t \in Stored /\ \A w \in Stored : w <= t

-----------------------------------------------------------------------------
(* The panel, the clock and the process. *)

NoAnswers == [m \in Metrics |-> Unknown]

Init ==
    /\ now = WindowLen - 1 /\ published = {}
    /\ untilTick = 0 /\ tick = TRUE
    /\ pc = "idle" /\ asOf = NoAnswers /\ batch = {} /\ left = {}
    /\ lastTS = Unknown /\ rows = [w \in Windows |-> {}] /\ used = {}
    /\ faults = 0

Earlier(n) == IF n = 0 THEN 0 ELSE n - 1

\* A minute ends.  The panel records it for all its metrics, or was not
\* running.  The ticker drops a tick when the channel still holds one.
Minute ==
    /\ now' = IF now < MaxMinute THEN now + 1 ELSE now
    /\ \/ now < MaxMinute /\ published' = published \cup {now'}
       \/ published' = published
    /\ untilTick' = IF untilTick = 1 THEN WindowLen ELSE Earlier(untilTick)
    /\ tick' = (tick \/ untilTick = 1)
    /\ UNCHANGED <<cycleVars, lastTS, dbVars, faults>>

Fault == faults < MaxFaults /\ faults' = faults + 1

\* What the goroutine forgets when a cycle is over, and when the process stops.
Forget == asOf' = NoAnswers /\ batch' = {} /\ left' = {}

\* telemetryLoop creates its ticker when the first cycle is over.
EndCycle ==
    /\ pc' = "idle" /\ Forget
    /\ untilTick' = IF untilTick = 0 THEN WindowLen ELSE untilTick

Stop ==
    /\ pc # "off" /\ Fault
    /\ pc' = "off" /\ Forget
    /\ lastTS' = Unknown /\ tick' = FALSE /\ untilTick' = 0
    /\ UNCHANGED <<now, published, dbVars>>

\* telemetryLoop collects at once.
Start ==
    /\ pc = "off"
    /\ pc' = "idle" /\ tick' = TRUE
    /\ UNCHANGED <<clockVars, asOf, batch, left, lastTS, dbVars, faults>>

-----------------------------------------------------------------------------
(* One cycle: collectTelemetry and collectPanel. *)

BeginCycle ==
    /\ pc = "idle" /\ tick
    /\ tick' = FALSE /\ pc' = "status"
    /\ UNCHANGED <<clockVars, asOf, batch, left, lastTS, dbVars, faults>>

ServerStatus ==
    /\ pc = "status"
    /\ pc' = "history"
    /\ UNCHANGED <<clockVars, tick, asOf, batch, left, lastTS, dbVars, faults>>

\* The answer holds every minute recorded when it is given.
ServerHistory(m) ==
    /\ pc = "history" /\ asOf[m] = Unknown
    /\ asOf' = [asOf EXCEPT ![m] = now]
    /\ UNCHANGED <<clockVars, tick, pc, batch, left, lastTS, dbVars, faults>>

\* One failing request ends the cycle: the panel counts as down, nothing is
\* stored and nothing is asked again before the next tick.
RequestFails ==
    /\ pc \in {"status", "history"} /\ Fault
    /\ EndCycle
    /\ UNCHANGED <<now, published, tick, lastTS, dbVars>>

\* What the answers hold beyond the minute from.
NewPoints(from) ==
    {p \in Point : p.t \in published /\ p.t <= asOf[p.metric] /\ p.t > from}

\* writeSnapshots up to the loop over the windows: without new points the
\* cycle is over.
Aggregate ==
    /\ pc = "history" /\ \A m \in Metrics : asOf[m] # Unknown
    /\ \E from \in 0..MaxMinute :
          /\ IsLastSeen(from) /\ lastTS' = from
          /\ IF NewPoints(from) = {}
             THEN EndCycle
             ELSE /\ batch' = NewPoints(from) /\ left' = WindowsOf(NewPoints(from))
                  /\ pc' = "write" /\ UNCHANGED <<asOf, untilTick>>
    /\ UNCHANGED <<now, published, tick, dbVars, faults>>

\* Mutant of IsOldest: the newest window first.
IsNewest(w) == w \in left /\ \A v \in left : v <= w

IsOldest(w) == w \in left /\ \A v \in left : w <= v

\* Mutant of Bucket: one aggregate for the whole catch-up.
BucketOfAll(w) == batch

Bucket(w) == {p \in batch : Window(p.t) = w}

\* InsertSnapshot for the oldest window that is left: INSERT OR REPLACE.
InsertRow(w) ==
    /\ rows' = [rows EXCEPT ![w] = Bucket(w)]
    /\ used' = used \cup Bucket(w)

\* lastTS moves to the newest point once every row is stored.
InsertSnapshot ==
    /\ pc = "write"
    /\ \E w \in left :
          /\ IsOldest(w) /\ InsertRow(w)
          /\ IF left = {w}
             THEN /\ \E top \in batch : (\A p \in batch : p.t <= top.t) /\ lastTS' = top.t
                  /\ EndCycle
             ELSE /\ left' = left \ {w}
                  /\ UNCHANGED <<pc, asOf, batch, lastTS, untilTick>>
    /\ UNCHANGED <<now, published, tick, faults>>

\* Mutant of InsertFails: lastTS moves although a row is missing.
InsertFailsButAdvances ==
    /\ pc = "write" /\ Fault
    /\ \E top \in batch : (\A p \in batch : p.t <= top.t) /\ lastTS' = top.t
    /\ EndCycle
    /\ UNCHANGED <<now, published, tick, dbVars>>

\* The rows inserted so far stay, lastTS does too.
InsertFails ==
    /\ pc = "write" /\ Fault
    /\ EndCycle /\ lastTS' = lastTS
    /\ UNCHANGED <<now, published, tick, dbVars>>

Next ==
    \/ Minute \/ Stop \/ Start
    \/ BeginCycle \/ ServerStatus \/ RequestFails
    \/ \E m \in Metrics : ServerHistory(m)
    \/ Aggregate \/ InsertSnapshot \/ InsertFails

Spec == Init /\ [][Next]_vars

\* The clock goes on, a goroutine whose request is answered goes on, and the
\* container is started again (restart: unless-stopped).
Fairness ==
    /\ WF_vars(Minute) /\ WF_vars(Start)
    /\ WF_vars(BeginCycle) /\ WF_vars(ServerStatus)
    /\ \A m \in Metrics : WF_vars(ServerHistory(m))
    /\ WF_vars(Aggregate) /\ WF_vars(InsertSnapshot)

FairSpec == Spec /\ Fairness

-----------------------------------------------------------------------------
(* Properties. *)

\* A row aggregates points of its own window.
TypeOK ==
    /\ now \in Int /\ now >= WindowLen - 1
    /\ published \subseteq Minutes
    /\ untilTick \in 0..WindowLen /\ tick \in BOOLEAN
    /\ pc \in {"off", "idle", "status", "history", "write"}
    /\ asOf \in [Metrics -> Int \cup {Unknown}]
    /\ batch \subseteq Point
    /\ left \subseteq Windows
    /\ lastTS \in 0..MaxMinute \cup {Unknown}
    /\ rows \in [Windows -> SUBSET used]
    /\ \A w \in Windows : WindowsOf(rows[w]) \subseteq {w}
    /\ used \subseteq Point
    /\ faults \in 0..MaxFaults

\* Some metric's value of minute t went into a row.
Used(t) == \E p \in used : p.t = t

\* A minute the collector will not ask about again is one it has stored: where
\* the next cycle begins, in memory or after a restart, never leaps over a
\* recorded minute, although inserts fail and the process stops between rows.
NothingSkipped ==
    \A from \in 0..MaxMinute :
        IsLastSeen(from) => \A t \in published : t <= from => Used(t)

\* Whatever fails for a while, every recorded minute gets a row for its window.
EveryMinuteGetsARow ==
    \A t \in Minutes : t \in published ~> Window(t) \in Stored

\* "a new point came into a window already written - the row is overwritten by
\* a more complete aggregation", collector.go:386 (in Russian there): a row
\* never loses a point it had.
RowsOnlyGrow == [][\A w \in Windows : rows[w] \subseteq rows'[w]]_rows
=============================================================================
