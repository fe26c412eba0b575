---------------------------- MODULE Alerts_proofs ----------------------------
(***************************************************************************)
(* Messages keep their distance, an overdue tester was silent and a new    *)
(* panel is not reported, for any cooldown, limit, length of the cycles    *)
(* and number of faults.                                                   *)
(***************************************************************************)
EXTENDS Alerts, TLAPS

Message == {"alarm", "ok", "none"}
Kinds == {"panel_down", "threshold", "tester_stale"}

LEMMA BoundsAreNat ==
    /\ Oldest \in Nat /\ Oldest > Cooldown /\ Oldest > StaleAfter
    /\ Cooldown \in Nat /\ StaleAfter \in Nat /\ MaxCycle \in Nat
    /\ Waited \in Nat /\ Lateness = MaxCycle + Waited /\ Never \notin Age /\ NoTicker \notin Age
BY AlertsAssumption DEF Oldest, Waited, Lateness, Age

(* Ages grow by one at most and keep their order.                            *)

LEMMA OlderIsAge ==
    ASSUME NEW age \in Age
    PROVE  Older(age) \in Age /\ Older(age) <= age + 1
BY BoundsAreNat DEF Older, Age

LEMMA OlderKeepsNever == Older(Never) = Never /\ Older(NoTicker) = NoTicker
BY BoundsAreNat, AlertsAssumption DEF Older, Age

LEMMA OlderKeepsOrder ==
    ASSUME NEW age \in Age, NEW other \in Age, NEW n \in Nat, age <= other + n
    PROVE  Older(age) <= Older(other) + n
BY BoundsAreNat DEF Older, Age

LEMMA RowIsTyped == TypeOK => Row \in RowType
BY BoundsAreNat DEF TypeOK, Row, RowType, Age

LEMMA AlertsInitHolds == Init => AlertsInv
<1> SUFFICES ASSUME Init PROVE AlertsInv
  OBVIOUS
<1>1. TypeOK
  BY BoundsAreNat, AlertsAssumption DEF Init, TypeOK, Age
<1>2. LoopInv /\ HeartbeatFollows /\ QuietInv
  BY BoundsAreNat DEF Init, LoopInv, HeartbeatFollows, QuietInv, NewPanelIsQuiet
<1>3. RowCovers
  BY BoundsAreNat DEF Init, RowCovers, Covers, TimeOf, Row
<1> QED BY <1>1, <1>2, <1>3 DEF AlertsInv

LEMMA WorldChangesPreserves == AlertsInv /\ WorldChanges => AlertsInv'
<1> SUFFICES ASSUME AlertsInv, WorldChanges PROVE AlertsInv'
  OBVIOUS
<1>1. UNCHANGED <<kind, row, heartbeat, seen, pc, start, tick, spent, todo, last, unsaved, contact, faults>>
  BY DEF WorldChanges, loopVars, history
<1>2. world' \in [condition : Conditions, sender : BOOLEAN]
  BY DEF WorldChanges, AlertsInv, TypeOK
<1>3. TypeOK'
  BY <1>1, <1>2 DEF AlertsInv, TypeOK, Conditions, Age
<1> QED BY <1>1, <1>3 DEF AlertsInv, LoopInv, HeartbeatFollows, QuietInv, NewPanelIsQuiet, RowCovers,
                          Covers, TimeOf, Row, Age

\* An interval: every time gets older, and none overtakes another.
LEMMA TimePreserves == AlertsInv /\ Time => AlertsInv'
<1> SUFFICES ASSUME AlertsInv, Time PROVE AlertsInv'
  OBVIOUS
<1> DEFINE busy == pc \in {"panels", "testers", "check"}
<1>1. /\ pc = "idle" => tick = Never
      /\ pc # "store"
      /\ busy => spent < MaxCycle
      /\ spent' = IF busy THEN spent + 1 ELSE 0
      /\ tick' = IF tick = NoTicker THEN NoTicker ELSE IF tick = Never THEN 0 ELSE Older(tick)
      /\ start' = Older(start) /\ heartbeat' = Older(heartbeat) /\ contact' = Older(contact)
      /\ row' = IF row = Never THEN Never
                ELSE [row EXCEPT !.fired = Older(row.fired), !.ok = Older(row.ok)]
      /\ last' = [alarm |-> Older(last.alarm), ok |-> Older(last.ok)]
      /\ UNCHANGED <<kind, seen, pc, todo, world, unsaved, faults>>
  BY DEF Time
<1>2. TypeOK
  BY DEF AlertsInv
<1>3. row # Never => row \in RowType /\ row' \in RowType
  BY <1>1, <1>2, OlderIsAge DEF TypeOK, RowType
<1>4. spent' \in 0..MaxCycle /\ spent \in Nat
  BY <1>1, <1>2, BoundsAreNat DEF TypeOK
<1>5. /\ heartbeat' \in Age \cup {Never} /\ contact' \in Age \cup {Never} /\ start' \in Age \cup {Never}
      /\ last' \in [alarm : Age, ok : Age]
  BY <1>1, <1>2, OlderIsAge, OlderKeepsNever DEF TypeOK
<1>6. tick' \in Age \cup {Never, NoTicker}
  BY <1>1, <1>2, OlderIsAge, BoundsAreNat DEF TypeOK, Age
<1>7. TypeOK'
  BY <1>1, <1>2, <1>3, <1>4, <1>5, <1>6 DEF TypeOK, Conditions, RowType, Age
<1>8. LoopInv'
  <2>1. (pc = "off" => tick = NoTicker)'
    BY <1>1 DEF AlertsInv, LoopInv
  <2>2. (pc = "idle" => tick # NoTicker)'
    BY <1>1, BoundsAreNat, AlertsAssumption DEF AlertsInv, LoopInv, Age
  <2>3. (pc \in {"panels", "testers"} => start \in Age)'
    BY <1>1, OlderIsAge DEF AlertsInv, LoopInv, Age
  <2>4. (start \in Age => start <= spent + Waited)'
    <3> SUFFICES ASSUME start' \in Age PROVE start' <= spent' + Waited
      BY DEF Age, Waited
    <3>1. start \in Age
      BY <1>1, <1>2, OlderKeepsNever, BoundsAreNat DEF TypeOK
    <3>2. start <= spent + Waited /\ start' <= start + 1
      BY <1>1, <3>1, OlderIsAge DEF AlertsInv, LoopInv
    <3>3. busy
      BY <1>1, <1>2, <3>1, BoundsAreNat DEF AlertsInv, LoopInv, TypeOK
    <3> QED BY <1>1, <1>4, <3>1, <3>2, <3>3, BoundsAreNat DEF Age
  <2>5. (tick \in Age => IF pc = "idle" THEN tick = 0 \/ tick < MaxCycle ELSE tick < spent)'
    <3> SUFFICES ASSUME tick' \in Age
                 PROVE  IF pc = "idle" THEN tick' = 0 \/ tick' < MaxCycle ELSE tick' < spent'
      BY <1>1 DEF Age
    <3> QED BY <1>1, <1>2, <1>4, OlderIsAge, BoundsAreNat DEF AlertsInv, LoopInv, TypeOK, Age
  <2>6. (pc \in {"off", "idle"} => start = Never)'
    BY <1>1, OlderKeepsNever DEF AlertsInv, LoopInv
  <2> QED BY <1>1, <2>1, <2>2, <2>3, <2>4, <2>5, <2>6 DEF LoopInv
<1>9. HeartbeatFollows'
  <2>1. CASE heartbeat = Never
    BY <1>1, <2>1, OlderKeepsNever DEF HeartbeatFollows
  <2>2. CASE heartbeat # Never
    <3>1. heartbeat \in Age /\ contact \in Age /\ heartbeat <= contact + Lateness
      BY <1>2, <2>2 DEF AlertsInv, HeartbeatFollows, TypeOK
    <3>2. Older(heartbeat) <= Older(contact) + Lateness /\ Older(contact) \in Age
      BY <3>1, BoundsAreNat, OlderKeepsOrder, OlderIsAge
    <3> QED BY <1>1, <3>2, BoundsAreNat DEF HeartbeatFollows, Lateness, Waited
  <2> QED BY <2>1, <2>2
<1>10. QuietInv'
  BY <1>1 DEF AlertsInv, QuietInv, NewPanelIsQuiet
<1>11. RowCovers'
  <2> SUFFICES ASSUME NEW m \in {"alarm", "ok"}, m \notin unsaved
               PROVE  Covers(Row, m)'
    BY <1>1 DEF RowCovers
  <2>1. Row \in RowType /\ last \in [alarm : Age, ok : Age] /\ Covers(Row, m)
    BY <1>2, RowIsTyped DEF AlertsInv, RowCovers, TypeOK
  <2>2. TimeOf(Row, m) \in Age /\ last[m] \in Age
    BY <2>1 DEF TimeOf, RowType
  <2>3. TimeOf(Row, m)' <= Older(TimeOf(Row, m))
    <3>1. CASE row = Never
      BY <1>1, <3>1, BoundsAreNat DEF Row, TimeOf, Older, Age
    <3>2. CASE row # Never
      <4>1. row' # Never
        BY <1>3, <3>2, NeverAssumption
      <4> QED BY <1>1, <1>3, <3>2, <4>1, OlderIsAge DEF Row, TimeOf, RowType, Age
    <3> QED BY <3>1, <3>2
  <2>4. last'[m] = Older(last[m])
    BY <1>1
  <2>5. Older(TimeOf(Row, m)) <= Older(last[m])
    <3>1. TimeOf(Row, m) <= last[m] + 0
      BY <2>1, <2>2 DEF Covers, Age
    <3>2. Older(TimeOf(Row, m)) <= Older(last[m]) + 0
      BY <2>2, <3>1, OlderKeepsOrder
    <3> QED BY <2>2, <3>2, OlderIsAge DEF Age
  <2>6. TimeOf(Row, m)' \in Age
    BY <1>7, BoundsAreNat DEF TypeOK, Row, RowType, Age, TimeOf
  <2> QED BY <2>2, <2>3, <2>4, <2>5, <2>6, OlderIsAge, BoundsAreNat DEF Covers, Age
<1> QED BY <1>7, <1>8, <1>9, <1>10, <1>11 DEF AlertsInv

-----------------------------------------------------------------------------
(* Where the loop goes: a start, a stop, a tick taken, a cycle that ends.    *)

LEMMA StartPreserves == AlertsInv /\ Start => AlertsInv'
<1> SUFFICES ASSUME AlertsInv, Start PROVE AlertsInv'
  OBVIOUS
<1>1. /\ pc = "off" /\ pc' = "panels" /\ start' = 0 /\ spent' = 0
      /\ UNCHANGED <<kind, row, heartbeat, seen, tick, todo, world, last, unsaved, contact, faults>>
  BY DEF Start, history
<1>2. TypeOK'
  BY <1>1, BoundsAreNat DEF AlertsInv, TypeOK, Conditions, Age
<1>3. LoopInv'
  BY <1>1, BoundsAreNat DEF AlertsInv, LoopInv, Age
<1> QED BY <1>1, <1>2, <1>3 DEF AlertsInv, HeartbeatFollows, QuietInv, NewPanelIsQuiet, RowCovers, Covers, Row

LEMMA StopPreserves == AlertsInv /\ Stop => AlertsInv'
<1> SUFFICES ASSUME AlertsInv, Stop PROVE AlertsInv'
  OBVIOUS
<1>1. /\ pc' = "off" /\ start' = Never /\ tick' = NoTicker /\ spent' = 0 /\ todo' = Never
      /\ UNCHANGED <<kind, row, heartbeat, seen, world, last, unsaved, contact, faults>>
  BY DEF Stop, history
<1>2. TypeOK'
  BY <1>1, BoundsAreNat DEF AlertsInv, TypeOK, Conditions, Age
<1>3. LoopInv'
  BY <1>1, BoundsAreNat DEF LoopInv, Age
<1> QED BY <1>1, <1>2, <1>3 DEF AlertsInv, HeartbeatFollows, QuietInv, NewPanelIsQuiet, RowCovers, Covers, Row

LEMMA BeginCyclePreserves == AlertsInv /\ BeginCycle => AlertsInv'
<1> SUFFICES ASSUME AlertsInv, BeginCycle PROVE AlertsInv'
  OBVIOUS
<1>1. /\ pc = "idle" /\ tick # Never
      /\ pc' = "panels" /\ start' = tick /\ tick' = Never /\ spent' = 0
      /\ UNCHANGED <<kind, row, heartbeat, seen, todo, world, last, unsaved, contact, faults>>
  BY DEF BeginCycle, history
<1>2. tick \in Age /\ tick <= Waited
  BY <1>1, BoundsAreNat DEF AlertsInv, LoopInv, TypeOK, Waited, Age
<1>3. TypeOK'
  BY <1>1, <1>2, BoundsAreNat DEF AlertsInv, TypeOK, Conditions, Age
<1>4. LoopInv'
  BY <1>1, <1>2, BoundsAreNat, AlertsAssumption DEF LoopInv, Age
<1> QED BY <1>1, <1>3, <1>4 DEF AlertsInv, HeartbeatFollows, QuietInv, NewPanelIsQuiet, RowCovers, Covers, Row

LEMMA PanelsDonePreserves == AlertsInv /\ PanelsDone => AlertsInv'
<1> SUFFICES ASSUME AlertsInv, PanelsDone PROVE AlertsInv'
  OBVIOUS
<1>1. /\ pc = "panels" /\ kind = "tester_stale" /\ pc' = "testers"
      /\ UNCHANGED <<kind, row, heartbeat, seen, start, tick, spent, todo, world, last, unsaved, contact, faults>>
  BY DEF PanelsDone, history
<1>2. TypeOK'
  BY <1>1 DEF AlertsInv, TypeOK, Conditions, Age
<1>3. LoopInv'
  BY <1>1 DEF AlertsInv, LoopInv, Age
<1> QED BY <1>1, <1>2, <1>3 DEF AlertsInv, HeartbeatFollows, QuietInv, NewPanelIsQuiet, RowCovers, Covers, Row

LEMMA EndCyclePreserves ==
    ASSUME AlertsInv, pc \in {"panels", "check", "store"}, EndCycle,
           UNCHANGED <<kind, heartbeat, world, last, contact>>,
           row' \in RowType \cup {Never}, seen' \in BOOLEAN,
           seen => seen', ~seen' => row' = Never,
           unsaved' \subseteq {"alarm", "ok"}, faults' \in 0..MaxFaults,
           \A m \in {"alarm", "ok"} : m \notin unsaved' => Covers(Row, m)'
    PROVE  AlertsInv'
<1>1. /\ pc' = "idle" /\ start' = Never /\ spent' = 0 /\ todo' = Never
      /\ tick' = IF tick = NoTicker THEN Never ELSE tick
  BY DEF EndCycle
<1>2. TypeOK'
  BY <1>1, BoundsAreNat DEF AlertsInv, TypeOK, Conditions, Age, RowType
<1>3. LoopInv'
  <2>1. tick' # NoTicker
    BY <1>1, AlertsAssumption
  <2>2. tick' \in Age => tick' < MaxCycle
    <3> SUFFICES ASSUME tick' \in Age PROVE tick' < MaxCycle
      OBVIOUS
    <3>1. tick \in Age /\ tick' = tick
      BY <1>1, BoundsAreNat
    <3>2. tick < spent /\ spent \in 0..MaxCycle
      BY <3>1 DEF AlertsInv, LoopInv, TypeOK
    <3> QED BY <3>1, <3>2, BoundsAreNat DEF Age
  <2> QED BY <1>1, <2>1, <2>2, BoundsAreNat DEF LoopInv, Age
<1>4. HeartbeatFollows' /\ QuietInv'
  BY <1>1 DEF AlertsInv, HeartbeatFollows, QuietInv, NewPanelIsQuiet, Lateness, Waited
<1>5. RowCovers'
  BY <1>1 DEF RowCovers
<1> QED BY <1>2, <1>3, <1>4, <1>5 DEF AlertsInv

LEMMA SkipPreserves ==
    ASSUME AlertsInv, pc \in {"panels", "check"}, Skip \/ ReadFails
    PROVE  AlertsInv'
<1>1. EndCycle /\ UNCHANGED <<kind, row, heartbeat, seen, world, last, unsaved, contact>>
  BY DEF Skip, ReadFails, history
<1>2. faults' \in 0..MaxFaults
  BY BoundsAreNat, AlertsAssumption DEF Skip, ReadFails, Fault, AlertsInv, TypeOK
<1>3. \A m \in {"alarm", "ok"} : m \notin unsaved' => Covers(Row, m)'
  BY <1>1 DEF AlertsInv, RowCovers, Covers, Row
<1> QED BY <1>1, <1>2, <1>3, EndCyclePreserves DEF AlertsInv, TypeOK, QuietInv, NewPanelIsQuiet, RowType, Age

LEMMA StorePreserves == AlertsInv /\ Store => AlertsInv'
<1> SUFFICES ASSUME AlertsInv, Store PROVE AlertsInv'
  OBVIOUS
<1>1. pc = "store" /\ EndCycle /\ UNCHANGED <<kind, heartbeat, seen, world, last, contact>>
  BY DEF Store
<1>2. todo.row \in RowType /\ todo.message \in Message /\ seen
  BY <1>1 DEF AlertsInv, LoopInv, QuietInv, NewPanelIsQuiet, Todo, Message
<1>3. CASE /\ row' = todo.row
           /\ unsaved' = IF todo.answered THEN unsaved \ {todo.message} ELSE unsaved
           /\ UNCHANGED faults
  <2>1. \A m \in {"alarm", "ok"} : m \notin unsaved' => Covers(todo.row, m)
    BY <1>1, <1>3 DEF AlertsInv, RowCovers
  <2>2. row' # Never
    BY <1>2, <1>3, NeverAssumption
  <2>3. \A m \in {"alarm", "ok"} : m \notin unsaved' => Covers(Row, m)'
    BY <1>1, <1>3, <2>1, <2>2 DEF Covers, Row
  <2> QED BY <1>1, <1>2, <1>3, <2>3, EndCyclePreserves DEF AlertsInv, TypeOK, RowType, Age
<1>4. CASE Fault /\ UNCHANGED <<row, unsaved>>
  <2>1. faults' \in 0..MaxFaults
    BY <1>4, BoundsAreNat, AlertsAssumption DEF Fault, AlertsInv, TypeOK
  <2>2. \A m \in {"alarm", "ok"} : m \notin unsaved' => Covers(Row, m)'
    BY <1>1, <1>4 DEF AlertsInv, RowCovers, Covers, Row
  <2> QED BY <1>1, <1>2, <1>4, <2>1, <2>2, EndCyclePreserves DEF AlertsInv, TypeOK, RowType, Age
<1> QED BY <1>3, <1>4 DEF Store

-----------------------------------------------------------------------------
(* The row that will be stored.                                              *)

LEMMA ThenStorePreserves ==
    ASSUME AlertsInv, pc \in {"panels", "check"}, seen,
           NEW newRow \in RowType, NEW message \in Message, NEW answered \in BOOLEAN,
           ThenStore(newRow, message, answered),
           \A m \in {"alarm", "ok"} :
              IF m = message /\ answered THEN TimeOf(newRow, m) = 0
              ELSE TimeOf(newRow, m) = TimeOf(Row, m)
    PROVE  AlertsInv'
<1>1. /\ pc' = "store" /\ todo' = [row |-> newRow, message |-> message, answered |-> answered]
      /\ last' = IF message = "none" THEN last ELSE [last EXCEPT ![message] = 0]
      /\ unsaved' = unsaved \cup ({message} \ {"none"})
      /\ UNCHANGED <<kind, row, heartbeat, seen, start, tick, spent, world, contact, faults>>
  BY DEF ThenStore
<1>2. last \in [alarm : Age, ok : Age] /\ 0 \in Age
  BY BoundsAreNat DEF AlertsInv, TypeOK, Age
<1>3. /\ last' \in [alarm : Age, ok : Age]
      /\ message # "none" => last'[message] = 0
      /\ \A m \in {"alarm", "ok"} : m # message => last'[m] = last[m]
  BY <1>1, <1>2 DEF Message
<1>4. unsaved' \subseteq {"alarm", "ok"}
  BY <1>1 DEF AlertsInv, TypeOK, Message
<1>5. todo' \in Todo
  BY <1>1 DEF Todo, Message
<1>6. TypeOK'
  BY <1>1, <1>3, <1>4, <1>5 DEF AlertsInv, TypeOK, Conditions, Age, RowType, Message
<1>7. LoopInv'
  BY <1>1, <1>5 DEF AlertsInv, LoopInv, Age, Message, RowType
<1>8. HeartbeatFollows' /\ QuietInv'
  BY <1>1 DEF AlertsInv, HeartbeatFollows, QuietInv, NewPanelIsQuiet, Lateness, Waited
<1>9. RowCovers'
  <2> SUFFICES ASSUME NEW m \in {"alarm", "ok"}
               PROVE  /\ m \notin unsaved' => Covers(Row, m)'
                      /\ m \notin unsaved' \/ (m = message /\ answered) => Covers(newRow, m)'
    BY <1>1 DEF RowCovers, Covers, TimeOf
  <2>1. CASE m = message
    BY <1>1, <1>3, <2>1 DEF Covers, TimeOf
  <2>2. CASE m # message
    <3>1. m \notin unsaved' => Covers(Row, m)
      BY <1>1 DEF AlertsInv, RowCovers
    <3>2. last'[m] = last[m] /\ Row' = Row /\ TimeOf(newRow, m) = TimeOf(Row, m)
      BY <1>1, <1>3, <2>2 DEF Row
    <3> QED BY <2>2, <3>1, <3>2 DEF Covers, TimeOf
  <2> QED BY <2>1, <2>2
<1> QED BY <1>6, <1>7, <1>8, <1>9 DEF AlertsInv

\* fire and recover change one time of the row, and that only if they sent.
LEMMA NewRows ==
    ASSUME Row \in RowType, NEW sent \in BOOLEAN
    PROVE  /\ FiredRow(sent) \in RowType /\ FiredRow(sent).ok = Row.ok
           /\ FiredRow(sent).fired = IF sent THEN 0 ELSE Row.fired
           /\ RecoveredRow(sent) \in RowType /\ RecoveredRow(sent).fired = Row.fired
           /\ RecoveredRow(sent).ok = IF sent THEN 0 ELSE Row.ok
<1>1. PICK st \in 0..1, fi \in Age, ok \in Age : Row = [state |-> st, fired |-> fi, ok |-> ok]
  BY DEF RowType
<1>2. 0 \in Age /\ 0 \in 0..1 /\ 1 \in 0..1
  BY BoundsAreNat DEF Age
<1> DEFINE f == IF sent THEN 0 ELSE fi
           g == IF sent THEN 0 ELSE ok
<1>3. f \in Age /\ g \in Age
  BY <1>2
<1>4. FiredRow(sent) = [state |-> 1, fired |-> f, ok |-> ok]
  <2>1. FiredRow(sent) = [Row EXCEPT !.state = 1, !.fired = f]
    BY <1>1 DEF FiredRow
  <2> HIDE DEF f
  <2> QED BY <1>1, <2>1
<1>5. RecoveredRow(sent) = [state |-> 0, fired |-> fi, ok |-> g]
  <2>1. RecoveredRow(sent) = [Row EXCEPT !.state = 0, !.ok = g]
    BY <1>1 DEF RecoveredRow
  <2> HIDE DEF g
  <2> QED BY <1>1, <2>1
<1>6. f = (IF sent THEN 0 ELSE Row.fired) /\ g = (IF sent THEN 0 ELSE Row.ok)
      /\ Row.fired = fi /\ Row.ok = ok
  BY <1>1
<1> HIDE DEF f, g
<1>7. [state |-> 1, fired |-> f, ok |-> ok] \in RowType
      /\ [state |-> 0, fired |-> fi, ok |-> g] \in RowType
  BY <1>2, <1>3 DEF RowType
<1> QED BY <1>4, <1>5, <1>6, <1>7

LEMMA SentPreserves ==
    ASSUME AlertsInv, pc \in {"panels", "check"}, seen,
           NEW due \in BOOLEAN, NEW sent \in Outcomes(due),
           NEW newRow \in RowType, NEW message \in {"alarm", "ok"},
           Sent(newRow, message, sent),
           \A m \in {"alarm", "ok"} :
              IF m = message /\ sent = "answered" THEN TimeOf(newRow, m) = 0
              ELSE TimeOf(newRow, m) = TimeOf(Row, m)
    PROVE  AlertsInv'
<1> DEFINE out == IF sent = "nothing" THEN "none" ELSE message
<1>1. out \in Message /\ (sent = "answered") \in BOOLEAN
  BY DEF Message
<1>2. ThenStore(newRow, out, sent = "answered")
  BY DEF Sent
<1>3. \A m \in {"alarm", "ok"} :
         IF m = out /\ (sent = "answered") THEN TimeOf(newRow, m) = 0
         ELSE TimeOf(newRow, m) = TimeOf(Row, m)
  OBVIOUS
<1> HIDE DEF out
<1> QED BY <1>1, <1>2, <1>3, ThenStorePreserves

LEMMA FirePreserves ==
    ASSUME AlertsInv, pc \in {"panels", "check"}, seen, Fire
    PROVE  AlertsInv'
<1>0. PICK due \in Reaches(Row.fired, Cooldown) :
        \E sent \in Outcomes(due) : Sent(FiredRow(sent = "answered"), "alarm", sent)
  BY DEF Fire
<1>1. PICK sent \in Outcomes(due) :
        Sent(FiredRow(sent = "answered"), "alarm", sent)
  BY <1>0
<1>2. Row \in RowType /\ due \in BOOLEAN /\ (sent = "answered") \in BOOLEAN
  BY RowIsTyped DEF AlertsInv, Reaches
<1>3. /\ FiredRow(sent = "answered") \in RowType
      /\ FiredRow(sent = "answered").ok = Row.ok
      /\ FiredRow(sent = "answered").fired = IF sent = "answered" THEN 0 ELSE Row.fired
  BY <1>2, NewRows
<1>4. \A m \in {"alarm", "ok"} :
         IF m = "alarm" /\ sent = "answered" THEN TimeOf(FiredRow(sent = "answered"), m) = 0
         ELSE TimeOf(FiredRow(sent = "answered"), m) = TimeOf(Row, m)
  BY <1>3 DEF TimeOf
<1> QED BY <1>1, <1>2, <1>3, <1>4, SentPreserves

LEMMA RecoverPreserves ==
    ASSUME AlertsInv, pc \in {"panels", "check"}, seen, Recover
    PROVE  AlertsInv'
<1>1. CASE Row.state = 0
  BY <1>1, SkipPreserves DEF Recover
<1>2. CASE Row.state # 0
  <2>0. PICK due \in Reaches(Row.ok, Cooldown) :
          \E sent \in Outcomes(due) : Sent(RecoveredRow(sent = "answered"), "ok", sent)
    BY <1>2 DEF Recover
  <2>1. PICK sent \in Outcomes(due) : Sent(RecoveredRow(sent = "answered"), "ok", sent)
    BY <2>0
  <2>2. Row \in RowType /\ due \in BOOLEAN /\ (sent = "answered") \in BOOLEAN
    BY RowIsTyped DEF AlertsInv, Reaches
  <2>3. /\ RecoveredRow(sent = "answered") \in RowType
        /\ RecoveredRow(sent = "answered").fired = Row.fired
        /\ RecoveredRow(sent = "answered").ok = IF sent = "answered" THEN 0 ELSE Row.ok
    BY <2>2, NewRows
  <2>4. \A m \in {"alarm", "ok"} :
           IF m = "ok" /\ sent = "answered" THEN TimeOf(RecoveredRow(sent = "answered"), m) = 0
           ELSE TimeOf(RecoveredRow(sent = "answered"), m) = TimeOf(Row, m)
    BY <2>3 DEF TimeOf
  <2> QED BY <2>1, <2>2, <2>3, <2>4, SentPreserves
<1> QED BY <1>1, <1>2

-----------------------------------------------------------------------------
(* The steps of a cycle.                                                     *)

LEMMA CheckPanelPreserves == AlertsInv /\ CheckPanel => AlertsInv'
<1> SUFFICES ASSUME AlertsInv, CheckPanel PROVE AlertsInv'
  OBVIOUS
<1>1. pc = "panels" /\ kind # "tester_stale" /\ TypeOK /\ QuietInv
  BY DEF CheckPanel, AlertsInv
<1>2. CASE ReadFails \/ Skip
  BY <1>1, <1>2, SkipPreserves
<1>3. CASE IF kind = "panel_down" THEN CheckPanelDown ELSE Fire
  <2>1. CASE ~seen
    BY <1>1, <1>3, <2>1, SkipPreserves DEF CheckPanelDown, QuietInv, NewPanelIsQuiet
  <2>2. CASE seen
    BY <1>1, <1>3, <2>2, SkipPreserves, FirePreserves DEF CheckPanelDown
  <2> QED BY <1>1, <2>1, <2>2 DEF TypeOK
<1>4. CASE seen /\ Recover
  BY <1>1, <1>4, RecoverPreserves
<1>5. CASE ~seen /\ seen' = TRUE /\ EndCycle /\ UNCHANGED <<kind, row, heartbeat, world, history, faults>>
  <2>1. UNCHANGED <<last, unsaved, contact>>
    BY <1>5 DEF history
  <2>2. \A m \in {"alarm", "ok"} : m \notin unsaved' => Covers(Row, m)'
    BY <1>5, <2>1 DEF AlertsInv, RowCovers, Covers, Row
  <2> QED BY <1>1, <1>5, <2>1, <2>2, EndCyclePreserves DEF TypeOK, RowType, Age
<1> QED BY <1>2, <1>3, <1>4, <1>5 DEF CheckPanel

\* A contact: the heartbeat is the time the cycle was due, which is as old as
\* the cycle is late.
LEMMA TouchPreserves == AlertsInv /\ TouchTesterHeartbeats => AlertsInv'
<1> SUFFICES ASSUME AlertsInv, TouchTesterHeartbeats PROVE AlertsInv'
  OBVIOUS
<1>1. /\ pc = "testers" /\ pc' = "check"
      /\ UNCHANGED <<kind, row, seen, start, tick, spent, todo, world, last, unsaved>>
      /\ \/ heartbeat' = start /\ contact' = 0 /\ UNCHANGED faults
         \/ UNCHANGED <<heartbeat, contact>> /\ (Fault \/ UNCHANGED faults)
  BY DEF TouchTesterHeartbeats, Touched
<1>2. start \in Age /\ start <= spent + Waited /\ spent \in 0..MaxCycle
  BY <1>1 DEF AlertsInv, LoopInv, TypeOK
<1>3. faults' \in 0..MaxFaults
  BY <1>1, AlertsAssumption DEF Fault, AlertsInv, TypeOK
<1>4. TypeOK'
  BY <1>1, <1>2, <1>3, BoundsAreNat DEF AlertsInv, TypeOK, Conditions, Age
<1>5. LoopInv'
  BY <1>1 DEF AlertsInv, LoopInv, Age
<1>6. HeartbeatFollows'
  BY <1>1, <1>2, BoundsAreNat DEF AlertsInv, HeartbeatFollows, Lateness, Waited, Age
<1>7. QuietInv' /\ RowCovers'
  BY <1>1 DEF AlertsInv, QuietInv, NewPanelIsQuiet, RowCovers, Covers, Row
<1> QED BY <1>4, <1>5, <1>6, <1>7 DEF AlertsInv

LEMMA RunsContactPreserves == AlertsInv /\ RunsContact => AlertsInv'
<1> SUFFICES ASSUME AlertsInv, RunsContact PROVE AlertsInv'
  OBVIOUS
<1>1. /\ heartbeat' = 0 /\ contact' = 0
      /\ UNCHANGED <<kind, row, seen, pc, start, tick, spent, todo, world, last, unsaved, faults>>
  BY DEF RunsContact, Touched, loopVars
<1>2. TypeOK' /\ HeartbeatFollows'
  BY <1>1, BoundsAreNat DEF AlertsInv, TypeOK, Conditions, HeartbeatFollows, Lateness, Waited, Age
<1> QED BY <1>1, <1>2 DEF AlertsInv, LoopInv, QuietInv, NewPanelIsQuiet, RowCovers, Covers, Row, Age

LEMMA CheckTestersPreserves == AlertsInv /\ CheckTesters => AlertsInv'
<1> SUFFICES ASSUME AlertsInv, CheckTesters PROVE AlertsInv'
  OBVIOUS
<1>1. pc = "check" /\ seen
  BY DEF CheckTesters, AlertsInv, QuietInv
<1>2. ReadFails \/ Skip \/ Fire \/ Recover
  BY DEF CheckTesters
<1> QED BY <1>1, <1>2, SkipPreserves, FirePreserves, RecoverPreserves

\* The inductive invariant: types, the ages of ticks and heartbeats, and the
\* distance of what is stored from what was sent.
THEOREM AlertsInvariant == Spec => []AlertsInv
<1>1. Init => AlertsInv
  BY AlertsInitHolds
<1>2. AlertsInv /\ [Next]_vars => AlertsInv'
  <2> SUFFICES ASSUME AlertsInv, [Next]_vars PROVE AlertsInv'
    OBVIOUS
  <2>1. CASE UNCHANGED vars
    BY <2>1 DEF vars, loopVars, history, AlertsInv, TypeOK, Conditions, LoopInv, HeartbeatFollows,
                QuietInv, NewPanelIsQuiet, RowCovers, Covers, Row, Age, RowType
  <2> QED BY <2>1, WorldChangesPreserves, TimePreserves, StartPreserves, StopPreserves,
             RunsContactPreserves, BeginCyclePreserves, CheckPanelPreserves, PanelsDonePreserves,
             TouchPreserves, CheckTestersPreserves, StorePreserves DEF Next, Loop
<1> QED BY <1>1, <1>2, PTL DEF Spec

\* The row of the alert, the loop and the ticker are well typed.
THEOREM AlertsTypes == Spec => []TypeOK
<1>1. AlertsInv => TypeOK
  BY DEF AlertsInv
<1> QED BY <1>1, AlertsInvariant, PTL

\* checkPanelDown (alerts.go) never makes a row for a panel without a snapshot.
THEOREM NewPanelsAreQuiet == Spec => []NewPanelIsQuiet
<1>1. AlertsInv => NewPanelIsQuiet
  BY DEF AlertsInv, QuietInv
<1> QED BY <1>1, AlertsInvariant, PTL

-----------------------------------------------------------------------------
(* What a message that is delivered was decided upon.                        *)

LEMMA OnlyChecksDeliver ==
    ASSUME AlertsInv, [Next]_vars, NEW m \in {"alarm", "ok"}, Delivers(m)
    PROVE  \/ m = "alarm" /\ pc = "panels" /\ kind # "tester_stale" /\ Fire
           \/ m = "ok" /\ Recover
           \/ /\ m = "alarm" /\ Fire /\ pc = "check" /\ heartbeat # Never
              /\ \E overdue \in Reaches(heartbeat, StaleAfter) : overdue
<1>1. pc # "store" /\ pc' = "store" /\ todo'.message = m
  BY DEF Delivers
<1>2. CheckPanel \/ CheckTesters
  BY <1>1 DEF Next, Loop, WorldChanges, Time, Start, Stop, RunsContact, BeginCycle, PanelsDone,
              TouchTesterHeartbeats, Store, EndCycle, vars, loopVars
<1>3. Fire => m # "ok"
  BY <1>1 DEF Fire, Sent, ThenStore
<1>4. Recover => m # "alarm"
  BY <1>1 DEF Recover, Skip, EndCycle, Sent, ThenStore
<1>5. ~Skip /\ ~ReadFails /\ ~EndCycle
  BY <1>1 DEF Skip, ReadFails, EndCycle
<1>6. CASE CheckPanel
  BY <1>3, <1>4, <1>5, <1>6 DEF CheckPanel, CheckPanelDown
<1>7. CASE CheckTesters
  BY <1>3, <1>4, <1>5, <1>7 DEF CheckTesters
<1> QED BY <1>2, <1>6, <1>7

\* Two messages of one kind are a cooldown apart, whatever flaps, fails or is
\* restarted, unless the time of the first was not recorded.
THEOREM MessagesKeepDistance == Spec => MessagesAreSpaced
<1>1. AlertsInv /\ [Next]_vars
        => [\A m \in {"alarm", "ok"} : Delivers(m) => last[m] >= Cooldown \/ m \in unsaved]_vars
  <2> SUFFICES ASSUME AlertsInv, [Next]_vars, NEW m \in {"alarm", "ok"}, Delivers(m), m \notin unsaved
               PROVE  last[m] >= Cooldown
    OBVIOUS
  <2>1. (Fire /\ m = "alarm") \/ (Recover /\ m = "ok")
    BY OnlyChecksDeliver
  <2>2. Row \in RowType /\ last \in [alarm : Age, ok : Age] /\ TimeOf(Row, m) <= last[m]
    BY RowIsTyped DEF AlertsInv, RowCovers, Covers, TypeOK
  <2>3. TimeOf(Row, m) >= Cooldown
    <3>1. PICK due \in Reaches(TimeOf(Row, m), Cooldown) : due
      BY <2>1 DEF Fire, Recover, Skip, EndCycle, Sent, Outcomes, ThenStore, Delivers, TimeOf
    <3> QED BY <2>2, <3>1, BoundsAreNat DEF Reaches, TimeOf, RowType, Age
  <2> QED BY <2>2, <2>3, BoundsAreNat DEF TimeOf, RowType, Age
<1> QED BY <1>1, AlertsInvariant, PTL DEF Spec, MessagesAreSpaced

\* A tester is reported only if its last contact is as old as the limit, less
\* what a cycle may be late.
THEOREM TesterAlarmsAreHonest == Spec => TesterAlarmIsHonest
<1>1. AlertsInv /\ [Next]_vars
        => [kind = "tester_stale" /\ Delivers("alarm") => contact + Lateness >= StaleAfter]_vars
  <2> SUFFICES ASSUME AlertsInv, [Next]_vars, kind = "tester_stale", Delivers("alarm")
               PROVE  contact + Lateness >= StaleAfter
    OBVIOUS
  <2>1. heartbeat # Never /\ \E overdue \in Reaches(heartbeat, StaleAfter) : overdue
    BY OnlyChecksDeliver
  <2>2. heartbeat \in Age /\ contact \in Age /\ heartbeat <= contact + Lateness
    BY <2>1 DEF AlertsInv, HeartbeatFollows, TypeOK
  <2>3. heartbeat >= StaleAfter
    BY <2>1, <2>2, BoundsAreNat DEF Reaches, Age
  <2> QED BY <2>2, <2>3, BoundsAreNat DEF Age
<1> QED BY <1>1, AlertsInvariant, PTL DEF Spec, TesterAlarmIsHonest
=============================================================================
