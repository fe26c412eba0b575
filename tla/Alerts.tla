------------------------------- MODULE Alerts -------------------------------
(***************************************************************************)
(* AlertManager and the telemetry loop that calls it: one row of the table *)
(* alert_states, its alarms and its OK messages.  Rows do not depend on    *)
(* each other, so one row of each kind is followed at a time.              *)
(*                                                                         *)
(* Time is counted in collection intervals (five minutes) and stored as    *)
(* ages: a time in the database, in the ticker's channel or in a variable  *)
(* of the loop grows by one with every interval that begins.  An age of n  *)
(* stands for anything around n intervals, so a comparison of two clock    *)
(* readings at exactly its limit may come out either way.                  *)
(***************************************************************************)
EXTENDS Integers

CONSTANTS Cooldown,   \* between two messages of one kind, in intervals
          StaleAfter, \* StaleTesterAfter, in intervals
          MaxCycle,   \* bound: intervals that begin while one cycle is running
          MaxFaults,  \* bound: database calls that fail
          Never,      \* NULL: no row, no heartbeat, no tick
          NoTicker    \* the ticker before it is made

ASSUME AlertsAssumption ==
    /\ Cooldown \in Nat \ {0} /\ StaleAfter \in Nat \ {0}
    /\ MaxCycle \in Nat /\ MaxFaults \in Nat
    /\ Never \notin Nat /\ NoTicker \notin Nat /\ Never # NoTicker

VARIABLES kind,      \* whose row: "panel_down", "threshold" (RAM, load, traffic), "tester_stale"
          row,       \* alert_states: [state, fired, ok], or Never
          heartbeat, \* testers.last_heartbeat_at, as an age
          seen,      \* panel_snapshots has a row of the panel
          pc,        \* the loop: "off", "idle", "panels", "testers", "check", "store"
          start,     \* the argument now of collectTelemetry, as an age
          tick,      \* what the ticker's channel holds: NoTicker, Never when it is empty, or an age
          spent,     \* intervals that began during this cycle
          todo,      \* the row to store, the message sent for it, whether its answer came
          world,     \* [condition, sender]: what checks find; whether Telegram takes messages
          last,      \* history: ages of the last messages delivered
          unsaved,   \* history: messages delivered whose time was not stored
          contact,   \* history: age of the last contact that was stored
          faults

loopVars == <<pc, start, tick, spent, todo>>
history == <<last, unsaved, contact>>
vars == <<kind, row, heartbeat, seen, loopVars, world, history, faults>>

\* The world's condition: "bad", "good", or "none" when a check cannot tell:
\* a panel without a new snapshot, a value it does not give, too little history.
Conditions == IF kind = "tester_stale" THEN {"bad", "good"} ELSE {"bad", "good", "none"}

Oldest == IF Cooldown > StaleAfter THEN Cooldown + 1 ELSE StaleAfter + 1

Age == 0..Oldest
RowType == [state : 0..1, fired : Age, ok : Age]

ASSUME NeverAssumption == Never \notin RowType

Older(age) == IF age \in 0..(Oldest - 1) THEN age + 1 ELSE age

\* Whether an age reaches a limit; at the limit both answers are possible.
Reaches(age, limit) == {b \in BOOLEAN : /\ age > limit => b
                                        /\ age < limit => ~b}

-----------------------------------------------------------------------------
Init ==
    /\ kind \in {"panel_down", "threshold", "tester_stale"}
    /\ row = Never /\ heartbeat = Never /\ contact = Never
    /\ seen = (kind # "panel_down")
    /\ pc = "off" /\ start = Never /\ tick = NoTicker /\ spent = 0 /\ todo = Never
    /\ world \in [condition : Conditions, sender : BOOLEAN]
    /\ last = [alarm |-> Oldest, ok |-> Oldest] /\ unsaved = {}
    /\ faults = 0

\* Panels, testers, daemons and Telegram change at any time.
WorldChanges ==
    /\ \E c \in Conditions : world' = [world EXCEPT !.condition = c]
       \/ world' = [world EXCEPT !.sender = ~@]
    /\ UNCHANGED <<kind, row, heartbeat, seen, loopVars, history, faults>>

\* An interval begins.  The channel of the ticker holds one tick: while it is
\* full, later ticks are dropped.  An idle loop takes a tick at once.
Time ==
    /\ pc = "idle" => tick = Never
    /\ pc # "store"
    /\ pc \in {"panels", "testers", "check"} => spent < MaxCycle
    /\ spent' = IF pc \in {"panels", "testers", "check"} THEN spent + 1 ELSE 0
    /\ tick' = IF tick = NoTicker THEN NoTicker ELSE IF tick = Never THEN 0 ELSE Older(tick)
    /\ start' = Older(start) /\ heartbeat' = Older(heartbeat) /\ contact' = Older(contact)
    /\ row' = IF row = Never THEN Never
              ELSE [row EXCEPT !.fired = Older(@), !.ok = Older(@)]
    /\ last' = [alarm |-> Older(last.alarm), ok |-> Older(last.ok)]
    /\ UNCHANGED <<kind, seen, pc, todo, world, unsaved, faults>>

\* The first cycle runs before the ticker is made.
Start ==
    /\ pc = "off" /\ pc' = "panels" /\ start' = 0 /\ spent' = 0
    /\ UNCHANGED <<kind, row, heartbeat, seen, tick, todo, world, history, faults>>

Stop ==
    /\ pc # "off" /\ pc' = "off"
    /\ start' = Never /\ tick' = NoTicker /\ spent' = 0 /\ todo' = Never
    /\ UNCHANGED <<kind, row, heartbeat, seen, world, history, faults>>

BeginCycle ==
    /\ pc = "idle" /\ tick # Never
    /\ pc' = "panels" /\ start' = tick /\ tick' = Never /\ spent' = 0
    /\ UNCHANGED <<kind, row, heartbeat, seen, todo, world, history, faults>>

EndCycle ==
    /\ pc' = "idle" /\ start' = Never /\ spent' = 0 /\ todo' = Never
    /\ tick' = IF tick = NoTicker THEN Never ELSE tick

Skip == EndCycle /\ UNCHANGED <<kind, row, heartbeat, seen, world, history, faults>>

Fault == faults < MaxFaults /\ faults' = faults + 1

-----------------------------------------------------------------------------
(* fire and recover: the row as it is read, the message that may go out,   *)
(* and the row that will be stored.                                        *)

Row == IF row = Never THEN [state |-> 0, fired |-> Oldest, ok |-> Oldest] ELSE row

\* send: nothing goes out when it is not due or Telegram takes nothing; of a
\* message that arrived the answer may still be an error, as after a timeout.
Outcomes(due) == IF due /\ world.sender THEN {"answered", "unanswered"} ELSE {"nothing"}

ThenStore(newRow, message, answered) ==
    /\ pc' = "store"
    /\ todo' = [row |-> newRow, message |-> message, answered |-> answered]
    /\ last' = IF message = "none" THEN last ELSE [last EXCEPT ![message] = 0]
    /\ unsaved' = unsaved \cup ({message} \ {"none"})
    /\ UNCHANGED <<kind, row, heartbeat, seen, start, tick, spent, world, contact, faults>>

\* Mutant of FiredRow: the state counts the bad checks.
FiredRowCounting(sent) == [Row EXCEPT !.state = @ + 1, !.fired = IF sent THEN 0 ELSE @]

FiredRow(sent) == [Row EXCEPT !.state = 1, !.fired = IF sent THEN 0 ELSE @]

\* Mutant of RecoveredRow: the row starts anew.
RecoveredRowAfresh(sent) == [state |-> 0, fired |-> Oldest, ok |-> IF sent THEN 0 ELSE Row.ok]

\* Mutant of RecoveredRow: without an OK message the alert stays up.
RecoveredRowIfSent(sent) ==
    [Row EXCEPT !.state = IF sent THEN 0 ELSE @, !.ok = IF sent THEN 0 ELSE @]

RecoveredRow(sent) == [Row EXCEPT !.state = 0, !.ok = IF sent THEN 0 ELSE @]

Sent(newRow, message, sent) ==
    ThenStore(newRow, IF sent = "nothing" THEN "none" ELSE message, sent = "answered")

\* Mutant of Fire: an alarm only when the condition turns bad.
FireOnce == \E due \in Reaches(Row.fired, Cooldown) :
               \E sent \in Outcomes(due /\ Row.state = 0) :
                  Sent(FiredRow(sent = "answered"), "alarm", sent)

Fire == \E due \in Reaches(Row.fired, Cooldown) : \E sent \in Outcomes(due) :
           Sent(FiredRow(sent = "answered"), "alarm", sent)

Recover ==
    IF Row.state = 0 THEN Skip
    ELSE \E due \in Reaches(Row.ok, Cooldown) : \E sent \in Outcomes(due) :
            Sent(RecoveredRow(sent = "answered"), "ok", sent)

Store ==
    /\ pc = "store" /\ EndCycle
    /\ \/ /\ row' = todo.row
          /\ unsaved' = IF todo.answered THEN unsaved \ {todo.message} ELSE unsaved
          /\ UNCHANGED faults
       \/ Fault /\ UNCHANGED <<row, unsaved>>
    /\ UNCHANGED <<kind, heartbeat, seen, world, last, contact>>

-----------------------------------------------------------------------------
(* A cycle: the panels, then a short contact with the testers' daemons,    *)
(* then the check of the heartbeats.                                       *)

ReadFails == Fault /\ EndCycle /\ UNCHANGED <<kind, row, heartbeat, seen, world, history>>

\* Mutant of CheckPanelDown: a panel that never answered is down as well.
CheckPanelDownAlways == Fire

\* A panel that was never seen is not reported.
CheckPanelDown == IF row = Never /\ ~seen THEN Skip ELSE Fire

\* collectPanel: the row of a panel is checked where the panel is collected.
\* With its first snapshot there is no row yet and nothing to recover.
CheckPanel ==
    /\ pc = "panels" /\ kind # "tester_stale"
    /\ \/ ReadFails
       \/ world.condition = "none" /\ Skip
       \/ /\ world.condition = "bad"
          /\ IF kind = "panel_down" THEN CheckPanelDown ELSE Fire
       \/ world.condition = "good" /\ seen /\ Recover
       \/ /\ world.condition = "good" /\ ~seen /\ seen' = TRUE
          /\ EndCycle /\ UNCHANGED <<kind, row, heartbeat, world, history, faults>>

PanelsDone ==
    /\ pc = "panels" /\ kind = "tester_stale" /\ pc' = "testers"
    /\ UNCHANGED <<kind, row, heartbeat, seen, start, tick, spent, todo, world, history, faults>>

\* Mutant of Touched: only the first contact is written.
TouchedOnce(due) == IF heartbeat = Never THEN due ELSE heartbeat

\* TouchTesterHeartbeat.
Touched(due) == due

\* touchTesterHeartbeats: the heartbeat is the time the cycle was due.
TouchTesterHeartbeats ==
    /\ pc = "testers" /\ pc' = "check"
    /\ \/ world.condition = "good" /\ heartbeat' = Touched(start) /\ contact' = 0 /\ UNCHANGED faults
       \/ world.condition = "good" /\ Fault /\ UNCHANGED <<heartbeat, contact>>
       \/ world.condition = "bad" /\ UNCHANGED <<heartbeat, contact, faults>>
    /\ UNCHANGED <<kind, row, seen, start, tick, spent, todo, world, last, unsaved>>

\* collectRuns, in a goroutine of its own, touches the heartbeat as well.
RunsContact ==
    /\ pc # "off" /\ kind = "tester_stale" /\ world.condition = "good"
    /\ heartbeat' = Touched(0) /\ contact' = 0
    /\ UNCHANGED <<kind, row, seen, loopVars, world, last, unsaved, faults>>

\* A tester that never was in contact is unknown, not overdue.
CheckTesters ==
    /\ pc = "check"
    /\ \/ ReadFails
       \/ heartbeat = Never /\ Skip
       \/ /\ heartbeat # Never
          /\ \E overdue \in Reaches(heartbeat, StaleAfter) : IF overdue THEN Fire ELSE Recover

Loop == BeginCycle \/ CheckPanel \/ PanelsDone \/ TouchTesterHeartbeats \/ CheckTesters \/ Store

Next == WorldChanges \/ Time \/ Start \/ Stop \/ RunsContact \/ Loop

Spec == Init /\ [][Next]_vars /\ WF_vars(Time) /\ WF_vars(Loop)

-----------------------------------------------------------------------------
(* Properties. *)

Todo == [row : RowType, message : {"alarm", "ok", "none"}, answered : BOOLEAN]

TypeOK ==
    /\ kind \in {"panel_down", "threshold", "tester_stale"}
    /\ row \in RowType \cup {Never}
    /\ heartbeat \in Age \cup {Never} /\ contact \in Age \cup {Never} /\ seen \in BOOLEAN
    /\ pc \in {"off", "idle", "panels", "testers", "check", "store"}
    /\ start \in Age \cup {Never} /\ tick \in Age \cup {Never, NoTicker}
    /\ spent \in 0..MaxCycle /\ faults \in 0..MaxFaults
    /\ todo \in Todo \cup {Never}
    /\ world \in [condition : Conditions, sender : BOOLEAN]
    /\ last \in [alarm : Age, ok : Age] /\ unsaved \subseteq {"alarm", "ok"}

Delivers(message) == pc # "store" /\ pc' = "store" /\ todo'.message = message

\* "A repeated alert not more often than once in a cooldown; on the return to
\* normal an OK message, not more often either", alerts.go:28: however the
\* condition flaps and the process restarts, two messages of one kind are a
\* cooldown apart, unless the time of the first was not recorded: it was
\* delivered and answered by an error, or the row could not be stored.
MessagesAreSpaced ==
    [][\A m \in {"alarm", "ok"} :
         Delivers(m) => last[m] >= Cooldown \/ m \in unsaved]_vars

\* How long a tick waits in the channel for the cycle before, and how old the
\* heartbeat of a cycle that waited is at the contact.
Waited == IF MaxCycle = 0 THEN 0 ELSE MaxCycle - 1
Lateness == MaxCycle + Waited

\* A tester is reported as silent only when it was: its last contact is as old
\* as the limit, less what the cycle of that contact was late.  Neither a
\* restart after a long time nor the contact of the other goroutine matters.
TesterAlarmIsHonest ==
    [][kind = "tester_stale" /\ Delivers("alarm") => contact + Lateness >= StaleAfter]_vars

\* "so as not to alert on a freshly added panel that never gave data", alerts.go:209.
NewPanelIsQuiet == ~seen => row = Never /\ pc # "store"

(* The strengthening of the three: where the loop is and how old its tick can *)
(* be, what a heartbeat says of the contact, and what the row, or the one that *)
(* is about to be stored, says of the messages.                                *)

LoopInv ==
    /\ pc = "off" => tick = NoTicker
    /\ pc = "idle" => tick # NoTicker
    /\ pc \in {"panels", "testers"} => start \in Age
    /\ pc \in {"off", "idle"} => start = Never
    /\ start \in Age => start <= spent + Waited
    /\ tick \in Age => IF pc = "idle" THEN tick = 0 \/ tick < MaxCycle ELSE tick < spent
    /\ pc = "store" => todo \in Todo

HeartbeatFollows ==
    heartbeat # Never => contact # Never /\ heartbeat <= contact + Lateness

QuietInv ==
    /\ NewPanelIsQuiet
    /\ kind # "panel_down" => seen
    /\ pc \in {"testers", "check"} => kind = "tester_stale"

TimeOf(r, m) == IF m = "alarm" THEN r.fired ELSE r.ok
Covers(r, m) == TimeOf(r, m) <= last[m]

RowCovers ==
    \A m \in {"alarm", "ok"} :
        /\ m \notin unsaved => Covers(Row, m)
        /\ pc = "store" /\ (m \notin unsaved \/ (m = todo.message /\ todo.answered)) =>
              Covers(todo.row, m)

AlertsInv == TypeOK /\ LoopInv /\ HeartbeatFollows /\ QuietInv /\ RowCovers

Up == pc # "off"

\* Something to report: a check that can be made and finds the condition.
Reportable == /\ world.condition = "bad" /\ seen
              /\ kind = "tester_stale" => heartbeat # Never

\* "A repeated alert not more often than once in a cooldown", alerts.go:28: a
\* condition that lasts is reported again and again while messages get through,
\* whatever happened before: an alarm lost, a cooldown begun, a restart.  Of a
\* panel that is down alerts.go:25 says "once, on the transition"; the code
\* repeats that alarm as well, and the property says nothing of it.
AlarmRepeats ==
    kind # "panel_down" => (<>[](Up /\ Reportable /\ world.sender) => []<>(last.alarm = 0))

\* A condition that is over for good is over in the table as well, whether or
\* not its OK message was delivered: "a silent recovery", alerts.go:288.
AlarmEnds ==
    <>[](Up /\ world.condition = "good") => <>[](row = Never \/ row.state = 0)
=============================================================================
