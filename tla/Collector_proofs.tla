-------------------------- MODULE Collector_proofs --------------------------
(***************************************************************************)
(* NothingSkipped for any set of metrics, any length of the windows and any *)
(* number of minutes and faults.                                           *)
(***************************************************************************)
EXTENDS Collector, TLAPS

\* Nothing is known of minutes that have not ended.
PastOnly ==
    /\ \A t \in published : t <= now
    /\ \A p \in batch : p.t \in published
    /\ lastTS # Unknown => lastTS <= now
    /\ \A w \in Stored : w <= now

\* Both places lastSeen can come from, the memory and the newest row, have
\* everything before them in rows.
MemoryCovers == lastTS # Unknown => \A t \in published : t <= lastTS => Used(t)
RowsCover    == \A w \in Stored : \A t \in published : t <= w => Used(t)

\* While rows are inserted: the batch begins right after lastTS and has no gap,
\* and what is not in a window that is left is in a row.
BatchCovers ==
    pc = "write" =>
        /\ lastTS # Unknown
        /\ left \subseteq WindowsOf(batch)
        /\ \A p \in batch : \A t \in published :
              t <= p.t => t <= lastTS \/ \E q \in batch : q.t = t
        /\ \A p \in batch : Window(p.t) \in left \/ p \in used

CollectorInv == TypeOK /\ PastOnly /\ MemoryCovers /\ RowsCover /\ BatchCovers

-----------------------------------------------------------------------------
(* Windows. *)

\* A window begins no later than the minutes in it.
LEMMA WindowBegins ==
    ASSUME NEW t \in Minutes
    PROVE  Window(t) \in Windows /\ Window(t) \in Int /\ Window(t) <= t
<1>1. t \in Nat /\ WindowLen \in Nat /\ WindowLen > 0
  BY WindowAssumption DEF Minutes
<1>2. (t \div WindowLen) * WindowLen <= t /\ (t \div WindowLen) * WindowLen \in Int
  BY <1>1
<1> QED BY <1>2 DEF Window, Windows

\* Wherever the next cycle begins, the minutes before it are in rows.
LEMMA CoveredBefore ==
    ASSUME CollectorInv, NEW from \in 0..MaxMinute, IsLastSeen(from)
    PROVE  /\ from <= now
           /\ \A t \in published : t <= from => Used(t)
<1>1. CASE lastTS # Unknown
  BY <1>1 DEF IsLastSeen, CollectorInv, PastOnly, MemoryCovers
<1>2. CASE lastTS = Unknown /\ Stored = {}
  <2>1. from = 0
    BY <1>2 DEF IsLastSeen
  <2>2. 0 <= now /\ \A t \in published : ~ (t <= 0)
    BY WindowAssumption DEF CollectorInv, TypeOK, Minutes
  <2> QED BY <2>1, <2>2
<1>3. CASE lastTS = Unknown /\ Stored # {}
  <2>1. from \in Stored
    BY <1>3 DEF IsLastSeen
  <2> QED BY <2>1 DEF CollectorInv, PastOnly, RowsCover
<1> QED BY <1>1, <1>2, <1>3

-----------------------------------------------------------------------------
(* The invariant is inductive. *)

LEMMA InitInv == Init => CollectorInv
<1> SUFFICES ASSUME Init PROVE CollectorInv
  OBVIOUS
<1> USE WindowAssumption
<1>1. TypeOK
  BY DEF Init, TypeOK, NoAnswers, WindowsOf
<1>2. Stored = {}
  BY DEF Init, Stored
<1>3. PastOnly /\ MemoryCovers /\ RowsCover /\ BatchCovers
  BY <1>2 DEF Init, PastOnly, MemoryCovers, RowsCover, BatchCovers
<1> QED BY <1>1, <1>3 DEF CollectorInv

\* A minute that ends now lies behind every point and row there is.
LEMMA MinuteKeeps == CollectorInv /\ Minute => CollectorInv'
<1> SUFFICES ASSUME CollectorInv, Minute PROVE CollectorInv'
  OBVIOUS
<1> USE WindowAssumption
<1>1. TypeOK'
  <2>1. now' \in Int /\ now' >= WindowLen - 1
    BY DEF CollectorInv, TypeOK, Minute
  <2>2. now < MaxMinute => now' \in Minutes
    BY DEF CollectorInv, TypeOK, Minute, Minutes
  <2>3. published' \subseteq Minutes
    BY <2>2 DEF CollectorInv, TypeOK, Minute
  <2>4. untilTick' \in 0..WindowLen
    BY DEF CollectorInv, TypeOK, Minute, Earlier
  <2>5. tick' \in BOOLEAN
    BY DEF CollectorInv, TypeOK, Minute
  <2> QED BY <2>1, <2>3, <2>4, <2>5 DEF CollectorInv, TypeOK, Minute, cycleVars, dbVars
<1>2. /\ now <= now'
      /\ \A t \in published' \ published : t = now' /\ now < t
      /\ published \subseteq published'
  BY DEF CollectorInv, TypeOK, Minute
<1>3. UNCHANGED <<cycleVars, lastTS, dbVars>> /\ Stored' = Stored
  BY DEF Minute, dbVars, Stored
<1>4. /\ lastTS # Unknown => lastTS \in Int
      /\ \A w \in Stored : w \in Int
      /\ \A p \in batch : p.t \in Int /\ p.t <= now
      /\ \A t \in published' : t \in Int
      /\ now \in Int /\ now' \in Int
  BY <1>1 DEF CollectorInv, TypeOK, PastOnly, Point, Minutes, Stored, Windows, Window
<1>5. PastOnly'
  BY <1>2, <1>3, <1>4 DEF CollectorInv, PastOnly, cycleVars
<1>6. MemoryCovers' /\ RowsCover'
  BY <1>2, <1>3, <1>4 DEF CollectorInv, PastOnly, MemoryCovers, RowsCover, Used, dbVars
<1>7. BatchCovers'
  BY <1>2, <1>3, <1>4 DEF CollectorInv, PastOnly, BatchCovers, WindowsOf, cycleVars, dbVars
<1> QED BY <1>1, <1>5, <1>6, <1>7 DEF CollectorInv

\* Steps that neither store nor record anything, keep or forget lastTS, and
\* keep or forget the batch.
LEMMA QuietKeeps ==
    ASSUME CollectorInv, TypeOK',
           UNCHANGED <<now, published, dbVars>>,
           lastTS' = lastTS \/ lastTS' = Unknown,
           batch' = batch \/ batch' = {},
           pc' # "write"
    PROVE  CollectorInv'
<1>1. Stored' = Stored
  BY DEF dbVars, Stored
<1>2. PastOnly' /\ MemoryCovers' /\ RowsCover'
  BY <1>1 DEF CollectorInv, PastOnly, MemoryCovers, RowsCover, Used, dbVars
<1>3. BatchCovers'
  BY DEF BatchCovers
<1> QED BY <1>2, <1>3 DEF CollectorInv

LEMMA ForgetTypes ==
    ASSUME Forget
    PROVE  asOf' \in [Metrics -> Int \cup {Unknown}] /\ batch' \subseteq Point /\ left' \subseteq Windows
BY DEF Forget, NoAnswers

LEMMA QuietActions ==
    ASSUME CollectorInv,
           \/ Stop \/ Start \/ BeginCycle \/ ServerStatus \/ RequestFails \/ InsertFails
           \/ \E m \in Metrics : ServerHistory(m)
    PROVE  CollectorInv'
<1> USE WindowAssumption DEF CollectorInv
<1>1. CASE Stop
  <2>1. TypeOK'
    <3>1. faults' \in 0..MaxFaults /\ untilTick' \in 0..WindowLen
      BY <1>1 DEF Stop, Fault, TypeOK
    <3> QED BY <1>1, <3>1, ForgetTypes DEF Stop, TypeOK, dbVars
  <2> QED BY <1>1, <2>1, QuietKeeps DEF Stop, Forget
<1>2. CASE Start
  <2>1. TypeOK'
    BY <1>2 DEF Start, TypeOK, clockVars, dbVars
  <2> QED BY <1>2, <2>1, QuietKeeps DEF Start, clockVars
<1>3. CASE BeginCycle
  <2>1. TypeOK'
    BY <1>3 DEF BeginCycle, TypeOK, clockVars, dbVars
  <2> QED BY <1>3, <2>1, QuietKeeps DEF BeginCycle, clockVars
<1>4. CASE ServerStatus
  <2>1. TypeOK'
    BY <1>4 DEF ServerStatus, TypeOK, clockVars, dbVars
  <2> QED BY <1>4, <2>1, QuietKeeps DEF ServerStatus, clockVars
<1>5. CASE RequestFails
  <2>1. TypeOK'
    <3>1. faults' \in 0..MaxFaults /\ untilTick' \in 0..WindowLen
      BY <1>5 DEF RequestFails, EndCycle, Fault, TypeOK
    <3> QED BY <1>5, <3>1, ForgetTypes DEF RequestFails, EndCycle, TypeOK, dbVars
  <2> QED BY <1>5, <2>1, QuietKeeps DEF RequestFails, EndCycle, Forget
<1>6. CASE InsertFails
  <2>1. TypeOK'
    <3>1. faults' \in 0..MaxFaults /\ untilTick' \in 0..WindowLen
      BY <1>6 DEF InsertFails, EndCycle, Fault, TypeOK
    <3> QED BY <1>6, <3>1, ForgetTypes DEF InsertFails, EndCycle, TypeOK, dbVars
  <2> QED BY <1>6, <2>1, QuietKeeps DEF InsertFails, EndCycle, Forget
<1>7. CASE \E m \in Metrics : ServerHistory(m)
  <2>1. TypeOK'
    BY <1>7 DEF ServerHistory, TypeOK, clockVars, dbVars
  <2> QED BY <1>7, <2>1, QuietKeeps DEF ServerHistory, clockVars
<1> QED BY <1>1, <1>2, <1>3, <1>4, <1>5, <1>6, <1>7

\* The batch begins where lastSeen says and holds the newest answer's minutes
\* up to its last one.
LEMMA AggregateKeeps == CollectorInv /\ Aggregate => CollectorInv'
<1> SUFFICES ASSUME CollectorInv, Aggregate PROVE CollectorInv'
  OBVIOUS
<1> USE WindowAssumption
<1>1. PICK from \in 0..MaxMinute :
         /\ IsLastSeen(from) /\ lastTS' = from
         /\ IF NewPoints(from) = {}
            THEN EndCycle
            ELSE /\ batch' = NewPoints(from) /\ left' = WindowsOf(NewPoints(from))
                 /\ pc' = "write" /\ UNCHANGED <<asOf, untilTick>>
  BY DEF Aggregate
<1>2. /\ UNCHANGED <<now, published, tick, dbVars, faults>>
      /\ \A m \in Metrics : asOf[m] \in Int
  BY DEF Aggregate, CollectorInv, TypeOK
<1>3. from # Unknown
  BY UnknownAssumption
<1>4. batch' \subseteq NewPoints(from) /\ NewPoints(from) \subseteq Point
  BY <1>1 DEF EndCycle, Forget, NewPoints
<1>5. left' \subseteq Windows
  <2>1. \A p \in Point : Window(p.t) \in Windows
    BY WindowBegins DEF Point
  <2> QED BY <1>1, <1>4, <2>1 DEF EndCycle, Forget, WindowsOf
<1>6. TypeOK'
  <2>1. CASE NewPoints(from) = {}
    <3>1. untilTick' \in 0..WindowLen
      BY <1>1, <2>1 DEF EndCycle, CollectorInv, TypeOK
    <3> QED BY <1>1, <1>2, <2>1, <3>1, ForgetTypes DEF EndCycle, CollectorInv, TypeOK, dbVars
  <2>2. CASE NewPoints(from) # {}
    BY <1>1, <1>2, <1>4, <1>5, <2>2 DEF CollectorInv, TypeOK, dbVars
  <2> QED BY <2>1, <2>2
<1>7. Stored' = Stored
  BY <1>2 DEF dbVars, Stored
<1>8. PastOnly'
  BY <1>1, <1>2, <1>4, <1>7, CoveredBefore DEF CollectorInv, PastOnly, NewPoints
<1>9. MemoryCovers' /\ RowsCover'
  BY <1>1, <1>2, <1>7, CoveredBefore DEF CollectorInv, MemoryCovers, RowsCover, Used, dbVars
<1>10. BatchCovers'
  <2> SUFFICES ASSUME pc' = "write" PROVE BatchCovers'
    BY DEF BatchCovers
  <2>1. batch' = NewPoints(from) /\ left' = WindowsOf(NewPoints(from))
    BY <1>1 DEF EndCycle
  <2>2. ASSUME NEW p \in batch', NEW t \in published, t <= p.t, ~ (t <= from)
        PROVE  \E q \in batch' : q.t = t
    <3> DEFINE q == [metric |-> p.metric, t |-> t]
    <3>1. p \in Point /\ p.t <= asOf[p.metric] /\ p.metric \in Metrics /\ p.t \in Int
      BY <2>1 DEF NewPoints, Point, Minutes
    <3>2. t \in Minutes /\ t \in Int
      BY DEF CollectorInv, TypeOK, Minutes
    <3>3. q \in Point /\ q.t = t /\ q.metric = p.metric
      BY <3>1, <3>2 DEF Point
    <3>4. t <= asOf[p.metric] /\ t > from
      BY <1>2, <2>2, <3>1, <3>2
    <3>5. q \in batch'
      BY <2>1, <3>3, <3>4 DEF NewPoints
    <3> QED BY <3>3, <3>5
  <2>3. \A p \in batch' : Window(p.t) \in left'
    BY <2>1 DEF WindowsOf
  <2> QED BY <1>1, <1>2, <1>3, <2>1, <2>2, <2>3 DEF BatchCovers, WindowsOf
<1> QED BY <1>6, <1>8, <1>9, <1>10 DEF CollectorInv

\* The oldest window that is left: every recorded minute up to its beginning,
\* and with the last window every minute of the batch, is in a row.
LEMMA InsertKeeps == CollectorInv /\ InsertSnapshot => CollectorInv'
<1> SUFFICES ASSUME CollectorInv, InsertSnapshot PROVE CollectorInv'
  OBVIOUS
<1> USE WindowAssumption
<1>1. PICK w \in left :
         /\ IsOldest(w) /\ InsertRow(w)
         /\ IF left = {w}
            THEN /\ \E top \in batch : (\A p \in batch : p.t <= top.t) /\ lastTS' = top.t
                 /\ EndCycle
            ELSE /\ left' = left \ {w}
                 /\ UNCHANGED <<pc, asOf, batch, lastTS, untilTick>>
  BY DEF InsertSnapshot
<1>2. pc = "write" /\ UNCHANGED <<now, published, tick, faults>>
  BY DEF InsertSnapshot
<1>3. /\ lastTS # Unknown /\ lastTS \in Int
      /\ left \subseteq WindowsOf(batch)
      /\ \A p \in batch : \A t \in published :
            t <= p.t => t <= lastTS \/ \E q \in batch : q.t = t
      /\ \A p \in batch : Window(p.t) \in left \/ p \in used
  BY <1>2 DEF CollectorInv, BatchCovers, TypeOK
<1>4. \A p \in batch : p \in Point /\ p.t \in Minutes /\ p.t \in Int /\ p.t \in published /\ p.t <= now
  BY DEF CollectorInv, TypeOK, PastOnly, Point, Minutes
<1>5. w \in Windows /\ w \in Int /\ now \in Int
  BY WindowBegins DEF CollectorInv, TypeOK, Windows
<1>6. PICK first \in batch : Window(first.t) = w /\ w <= first.t
  BY <1>1, <1>3, <1>4, WindowBegins DEF WindowsOf
<1>7. used \subseteq used' /\ \A p \in batch : Window(p.t) = w => p \in used'
  BY <1>1 DEF InsertRow, Bucket
<1>8. \A t : Used(t) => Used(t)'
  BY <1>7 DEF Used
<1>9. ASSUME NEW t \in published, t <= w PROVE Used(t)'
  <2>1. t \in Int /\ t <= first.t
    BY <1>4, <1>5, <1>6, <1>9 DEF CollectorInv, TypeOK, Minutes
  <2>2. CASE t <= lastTS
    BY <1>3, <1>8, <2>2 DEF CollectorInv, MemoryCovers
  <2>3. CASE \E q \in batch : q.t = t
    <3>1. PICK q \in batch : q.t = t
      BY <2>3
    <3>2. Window(q.t) \in Int /\ Window(q.t) <= w
      BY <1>4, <1>5, <1>9, <2>1, <3>1, WindowBegins
    <3>3. Window(q.t) \in left => Window(q.t) = w
      BY <1>1, <1>5, <3>2 DEF IsOldest
    <3> QED BY <1>3, <1>7, <3>1, <3>3 DEF Used
  <2> QED BY <1>3, <2>1, <2>2, <2>3
<1>10. /\ rows' \in [Windows -> SUBSET used'] /\ used' \subseteq Point
       /\ \A v \in Windows : WindowsOf(rows'[v]) \subseteq {v}
  <2>1. Bucket(w) \subseteq Point /\ WindowsOf(Bucket(w)) \subseteq {w}
    BY <1>4 DEF Bucket, WindowsOf
  <2>2. rows' = [rows EXCEPT ![w] = Bucket(w)] /\ used' = used \cup Bucket(w)
    BY <1>1 DEF InsertRow
  <2>3. rows \in [Windows -> SUBSET used] /\ used \subseteq Point
    BY DEF CollectorInv, TypeOK
  <2>4. rows' \in [Windows -> SUBSET used'] /\ used' \subseteq Point
    BY <1>5, <2>1, <2>2, <2>3
  <2>5. ASSUME NEW v \in Windows PROVE WindowsOf(rows'[v]) \subseteq {v}
    BY <2>1, <2>2, <2>3 DEF CollectorInv, TypeOK
  <2> QED BY <2>4, <2>5
<1>11. \A v \in Stored' : v \in Stored \/ v = w
  BY <1>1, <1>10 DEF InsertRow, Stored, CollectorInv, TypeOK
<1>12. RowsCover'
  BY <1>2, <1>8, <1>9, <1>11 DEF CollectorInv, RowsCover
<1>13. \A v \in Stored' : v <= now'
  BY <1>2, <1>4, <1>5, <1>6, <1>11 DEF CollectorInv, PastOnly
<1>14. CASE left = {w}
  <2>1. PICK top \in batch : (\A p \in batch : p.t <= top.t) /\ lastTS' = top.t
    BY <1>1, <1>14
  <2>2. pc' = "idle" /\ Forget /\ EndCycle
    BY <1>1, <1>14 DEF EndCycle
  <2>3. TypeOK'
    <3>1. untilTick' \in 0..WindowLen
      BY <2>2 DEF EndCycle, CollectorInv, TypeOK
    <3>2. lastTS' \in 0..MaxMinute
      BY <1>4, <2>1 DEF Minutes
    <3> QED BY <1>2, <1>10, <2>2, <3>1, <3>2, ForgetTypes DEF CollectorInv, TypeOK
  <2>4. PastOnly'
    BY <1>2, <1>4, <1>13, <2>1, <2>2 DEF CollectorInv, PastOnly, Forget
  <2>5. ASSUME NEW t \in published, t <= top.t PROVE Used(t)'
    <3>1. CASE t <= lastTS
      BY <1>3, <1>8, <3>1 DEF CollectorInv, MemoryCovers
    <3>2. CASE \E q \in batch : q.t = t
      <4>1. \A q \in batch : q \in used'
        BY <1>3, <1>7, <1>14
      <4> QED BY <3>2, <4>1 DEF Used
    <3> QED BY <1>3, <2>5, <3>1, <3>2
  <2>6. MemoryCovers'
    BY <1>2, <2>1, <2>5 DEF MemoryCovers
  <2>7. BatchCovers'
    BY <2>2 DEF BatchCovers
  <2> QED BY <1>12, <2>3, <2>4, <2>6, <2>7 DEF CollectorInv
<1>15. CASE left # {w}
  <2>1. left' = left \ {w} /\ UNCHANGED <<pc, asOf, batch, lastTS, untilTick>>
    BY <1>1, <1>15
  <2>2. TypeOK'
    BY <1>2, <1>10, <2>1 DEF CollectorInv, TypeOK
  <2>3. PastOnly'
    BY <1>2, <1>13, <2>1 DEF CollectorInv, PastOnly
  <2>4. MemoryCovers'
    BY <1>2, <1>8, <2>1 DEF CollectorInv, MemoryCovers
  <2>5. \A p \in batch' : Window(p.t) \in left' \/ p \in used'
    BY <1>3, <1>7, <2>1
  <2>6. BatchCovers'
    BY <1>2, <1>3, <2>1, <2>5 DEF BatchCovers, WindowsOf
  <2> QED BY <1>12, <2>2, <2>3, <2>4, <2>6 DEF CollectorInv
<1> QED BY <1>14, <1>15

-----------------------------------------------------------------------------
(* The theorems. *)

\* Every reachable state satisfies the inductive invariant.
THEOREM CollectorInvariant == Spec => []CollectorInv
<1>1. CollectorInv /\ [Next]_vars => CollectorInv'
  <2> SUFFICES ASSUME CollectorInv, [Next]_vars PROVE CollectorInv'
    OBVIOUS
  <2>1. CASE Minute
    BY <2>1, MinuteKeeps
  <2>2. CASE \/ Stop \/ Start \/ BeginCycle \/ ServerStatus \/ RequestFails \/ InsertFails
             \/ \E m \in Metrics : ServerHistory(m)
    BY <2>2, QuietActions
  <2>3. CASE Aggregate
    BY <2>3, AggregateKeeps
  <2>4. CASE InsertSnapshot
    BY <2>4, InsertKeeps
  <2>5. CASE UNCHANGED vars
    <3>1. Stored' = Stored
      BY <2>5 DEF vars, Stored
    <3>2. TypeOK' /\ PastOnly' /\ MemoryCovers' /\ RowsCover'
      BY <2>5, <3>1 DEF vars, CollectorInv, TypeOK, PastOnly, MemoryCovers, RowsCover, Used
    <3>3. BatchCovers'
      BY <2>5 DEF vars, CollectorInv, BatchCovers, WindowsOf
    <3> QED BY <3>2, <3>3 DEF CollectorInv
  <2> QED BY <2>1, <2>2, <2>3, <2>4, <2>5 DEF Next
<1> QED BY <1>1, InitInv, PTL DEF Spec

\* Types hold for any metrics and any bounds.
THEOREM CollectorTypes == Spec => []TypeOK
<1>1. CollectorInv => TypeOK
  BY DEF CollectorInv
<1> QED BY <1>1, CollectorInvariant, PTL

\* Neither failing inserts nor stops between them make the collector leap over
\* a recorded minute, for any metrics, windows and number of faults.
THEOREM NothingIsSkipped == Spec => []NothingSkipped
<1>1. CollectorInv => NothingSkipped
  BY CoveredBefore DEF NothingSkipped
<1> QED BY <1>1, CollectorInvariant, PTL
=============================================================================
