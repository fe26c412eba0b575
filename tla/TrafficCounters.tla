--------------------------- MODULE TrafficCounters ---------------------------
(***************************************************************************)
(* Traffic: MetricsCollector.writeTraffic stores the counters of a panel's *)
(* inbounds as they are and the traffic of its clients as differences to   *)
(* the counters of the cycle before, which live in memory; the metrics API *)
(* computes the differences of the inbounds when it is read.               *)
(*                                                                         *)
(* Of up and down, which are treated alike, one is modelled; of the        *)
(* clients, one per inbound.  The counters are the panel's: they grow,     *)
(* start again from zero and go with a deleted client.                     *)
(***************************************************************************)
EXTENDS Integers, FiniteSetsExt, Functions

CONSTANTS NInbounds,  \* inbounds of the panel
          MaxSlot,    \* bound: collection intervals, the time of the rows
          MaxTraffic, \* bound: units of traffic
          MaxResets,  \* bound: counters that start again
          MaxFailures,\* bound: inserts that fail
          Buckets,    \* lengths of the readers' buckets, in intervals
          Absent      \* no client, no row, no baseline

ASSUME TrafficAssumption ==
    /\ NInbounds \in Nat /\ MaxSlot \in Nat /\ MaxTraffic \in Nat /\ MaxResets \in Nat /\ MaxFailures \in Nat
    /\ Buckets \subseteq Nat \ {0} /\ Absent \notin Int

VARIABLES total,     \* the panel: inbound -> its counter
          used,      \* the panel: inbound -> the counter of its client, or Absent
          slot,      \* the interval it is
          ticked,       \* the interval of the tick that no cycle has taken, or Absent
          inboundRows, \* inbound_traffic: inbound -> slot -> counter, or Absent
          clientRows,  \* client_traffic: inbound -> slot -> difference, or Absent
          baselines,   \* in memory: Absent before the first cycle, else inbound -> counter
          cycle,     \* what writeTraffic works on, or Absent
          up,        \* the process runs
          moved,     \* history: [total, used], the traffic there was
          torn,      \* history: inbounds whose client's row of a failed cycle is stored
          resets, failures

panelCounters == <<total, used, moved, resets>>
tables == <<inboundRows, clientRows>>
trafficVars == <<panelCounters, tables, slot, ticked, baselines, cycle, up, torn, failures>>

Slots == 0..MaxSlot

\* In the order of the panel's list.
Inbounds == 1..NInbounds

-----------------------------------------------------------------------------
TrafficInit ==
    /\ total = [i \in Inbounds |-> 0] /\ used = [i \in Inbounds |-> 0]
    /\ moved = [total |-> total, used |-> used]
    /\ slot = 0 /\ ticked = Absent /\ up = FALSE
    /\ inboundRows = [i \in Inbounds |-> [t \in Slots |-> Absent]]
    /\ clientRows = [i \in Inbounds |-> [t \in Slots |-> Absent]]
    /\ baselines = Absent /\ cycle = Absent
    /\ torn = {} /\ resets = 0 /\ failures = 0

\* The panel: a client's traffic is its inbound's as well.
PanelCounts ==
    /\ \E i \in Inbounds :
         \/ /\ used[i] # Absent /\ MapThenSumSet(LAMBDA j : moved.total[j], Inbounds) < MaxTraffic
            /\ used' = [used EXCEPT ![i] = @ + 1] /\ total' = [total EXCEPT ![i] = @ + 1]
            /\ moved' = [total |-> [moved.total EXCEPT ![i] = @ + 1],
                         used |-> [moved.used EXCEPT ![i] = @ + 1]]
            /\ UNCHANGED resets
         \/ /\ resets < MaxResets /\ resets' = resets + 1
            /\ \/ total' = [total EXCEPT ![i] = 0] /\ UNCHANGED used
               \/ /\ \E c \in {0, Absent} : used' = [used EXCEPT ![i] = c]
                  /\ UNCHANGED total
            /\ UNCHANGED moved
    /\ UNCHANGED <<tables, slot, ticked, baselines, cycle, up, torn, failures>>

\* The ticker's channel holds one tick; while it does, later ones are dropped.
NextSlot ==
    /\ slot < MaxSlot /\ slot' = slot + 1
    /\ ticked' = IF up /\ ticked = Absent THEN slot' ELSE ticked
    /\ UNCHANGED <<panelCounters, tables, baselines, cycle, up, torn, failures>>

\* The first cycle of a process follows at once, in whatever slot it is.
StartTraffic ==
    /\ ~up /\ up' = TRUE /\ ticked' = slot
    /\ UNCHANGED <<panelCounters, tables, slot, baselines, cycle, torn, failures>>

\* A cycle that is cut off leaves what it has stored.
Cut == torn' = IF cycle = Absent THEN torn ELSE torn \cup cycle.stored

StopTraffic ==
    /\ up /\ up' = FALSE /\ ticked' = Absent
    /\ baselines' = Absent /\ cycle' = Absent /\ Cut
    /\ UNCHANGED <<panelCounters, tables, slot, failures>>

\* collectPanel has the panel's list of inbounds; the row's time is the tick's,
\* truncated to its interval.
BeginWrite ==
    /\ up /\ cycle = Absent /\ ticked # Absent /\ ticked' = Absent
    /\ cycle' = [ts |-> ticked, total |-> total, used |-> used, next |-> 1,
                 client |-> FALSE, stored |-> {}]
    /\ UNCHANGED <<panelCounters, tables, slot, baselines, up, torn, failures>>

\* No answer from the panel: nothing is written and the baselines stay.
NoList ==
    /\ up /\ cycle = Absent /\ ticked # Absent /\ ticked' = Absent
    /\ UNCHANGED <<panelCounters, tables, slot, baselines, cycle, up, torn, failures>>

InsertInboundTraffic ==
    /\ cycle # Absent /\ ~cycle.client /\ cycle.next \in Inbounds
    /\ inboundRows' = [inboundRows EXCEPT ![cycle.next][cycle.ts] = cycle.total[cycle.next]]
    /\ cycle' = [cycle EXCEPT !.client = TRUE]
    /\ UNCHANGED <<panelCounters, clientRows, slot, ticked, baselines, up, torn, failures>>

\* Mutant of Delta: a counter that started again.
DeltaSigned(base, current) == current - base

Delta(base, current) == IF current < base THEN 0 ELSE current - base

\* The difference to store for a client: none in the first cycle, for a client
\* that was not in the one before, or without traffic.
ClientDelta(i) ==
    IF baselines = Absent \/ cycle.used[i] = Absent THEN 0
    ELSE IF baselines[i] = Absent THEN 0
    ELSE Delta(baselines[i], cycle.used[i])

InsertClientTraffic ==
    /\ cycle # Absent /\ cycle.client
    /\ LET i == cycle.next
           d == ClientDelta(i)
       IN /\ clientRows' = IF d = 0 THEN clientRows
                           ELSE [clientRows EXCEPT ![i][cycle.ts] = d]
          /\ cycle' = [cycle EXCEPT !.next = i + 1, !.client = FALSE,
                                    !.stored = IF d = 0 THEN @ ELSE @ \cup {i}]
    /\ UNCHANGED <<panelCounters, inboundRows, slot, ticked, baselines, up, torn, failures>>

\* An insert fails: the cycle ends and its clients keep the baselines of the
\* one before.
InsertTrafficFails ==
    /\ cycle # Absent /\ cycle.next \in Inbounds
    /\ failures < MaxFailures /\ failures' = failures + 1
    /\ cycle' = Absent /\ Cut
    /\ UNCHANGED <<panelCounters, tables, slot, ticked, baselines, up>>

\* Mutant of NewBaselines: a client keeps the baseline it has.
NewBaselinesKept == IF baselines = Absent THEN cycle.used ELSE baselines

\* The counters that were seen; a client that has gone has none.
NewBaselines == cycle.used

TrafficWritten ==
    /\ cycle # Absent /\ cycle.next \notin Inbounds
    /\ baselines' = NewBaselines /\ cycle' = Absent
    /\ UNCHANGED <<panelCounters, tables, slot, ticked, up, torn, failures>>

TrafficNext == \/ PanelCounts \/ NextSlot \/ StartTraffic \/ StopTraffic
               \/ BeginWrite \/ NoList \/ InsertInboundTraffic \/ InsertClientTraffic
               \/ InsertTrafficFails \/ TrafficWritten

TrafficSpec == TrafficInit /\ [][TrafficNext]_trafficVars

-----------------------------------------------------------------------------
(* Readers.                                                                *)

RowsOf(table, i, from) == {t \in from..MaxSlot : table[i][t] # Absent}

\* Mutant of Base: the first row of the range.
BaseFirst(i, t, from) == Min(RowsOf(inboundRows, i, from))

\* The row before the one at t.
Base(i, t, from) == Max({b \in RowsOf(inboundRows, i, from) : b < t})

BucketOf(t, bucket) == (t \div bucket) * bucket

\* Points, by the beginning of their bucket: the sum of the values in it.
Points(values, bucket) ==
    [b \in {BucketOf(t, bucket) : t \in DOMAIN values} |->
        MapThenSumSet(LAMBDA t : values[t], {t \in DOMAIN values : BucketOf(t, bucket) = b})]

\* aggregateInboundTraffic: the first row of the range is the base, rows
\* without traffic make no point.
InboundDelta(i, t, from) ==
    Delta(inboundRows[i][Base(i, t, from)], inboundRows[i][t])

AggregateInboundTraffic(i, from, bucket) ==
    LET rows == RowsOf(inboundRows, i, from)
        moving == {t \in rows : t # Min(rows) /\ InboundDelta(i, t, from) # 0}
    IN Points([t \in moving |-> InboundDelta(i, t, from)], bucket)

AggregateClientTraffic(i, from, bucket) ==
    Points([t \in RowsOf(clientRows, i, from) |-> clientRows[i][t]], bucket)

SumOf(points) == MapThenSumSet(LAMBDA b : points[b], DOMAIN points)

-----------------------------------------------------------------------------
(* Properties. *)

TrafficTypeOK ==
    /\ total \in [Inbounds -> Nat] /\ used \in [Inbounds -> Nat \cup {Absent}]
    /\ inboundRows \in [Inbounds -> [Slots -> Nat \cup {Absent}]]
    /\ clientRows \in [Inbounds -> [Slots -> Nat \cup {Absent}]]
    /\ baselines \in [Inbounds -> Nat \cup {Absent}] \cup {Absent}
    /\ slot \in Slots /\ ticked \in Slots \cup {Absent} /\ up \in BOOLEAN /\ torn \subseteq Inbounds

\* The strengthening of TrafficTypeOK: the cycle that is in memory.
CycleType == [ts : Slots, total : [Inbounds -> Nat], used : [Inbounds -> Nat \cup {Absent}],
              next : Nat, client : BOOLEAN, stored : SUBSET Inbounds]

ASSUME AbsentIsNoCycle == Absent \notin CycleType

TrafficInv ==
    /\ TrafficTypeOK
    /\ cycle = Absent \/ (cycle \in CycleType /\ (cycle.client => cycle.next \in Inbounds))

\* Whatever range and buckets the statistics are read with, an inbound never
\* shows more traffic than there was, and all of it between the first and the
\* last row if no counter started again: restarts, cycles without an answer or
\* with a failing insert and a slot written twice lose and invent nothing.
InboundTrafficIsReal ==
    \A i \in Inbounds, from \in Slots, bucket \in Buckets :
        LET rows == RowsOf(inboundRows, i, from)
            shown == SumOf(AggregateInboundTraffic(i, from, bucket))
        IN /\ shown <= moved.total[i]
           /\ rows # {} /\ resets = 0 =>
                shown = inboundRows[i][Max(rows)] - inboundRows[i][Min(rows)]

\* "Client traffic: only the differences since the last cycle", collector.go:74:
\* a client never shows more traffic than it had, unless a cycle failed after
\* it had stored the client's row and the next one counted it again.
ClientTrafficIsReal ==
    \A i \in Inbounds, from \in Slots, bucket \in Buckets :
        SumOf(AggregateClientTraffic(i, from, bucket)) <= moved.used[i] \/ i \in torn

-----------------------------------------------------------------------------
(* The strengthening of the two: every reading of a counter, in a row, in    *)
(* the baselines or in the cycle, has a place in the traffic there was.      *)

\* Rows, the cycle and the tick that waits follow each other in time.
SlotsInOrder ==
    /\ \A i \in Inbounds : \A t \in RowsOf(inboundRows, i, 0) :
          t <= slot /\ (ticked # Absent => t <= ticked)
    /\ cycle # Absent => cycle.ts <= slot /\ (ticked # Absent => cycle.ts <= ticked)
    /\ ticked # Absent => ticked <= slot

\* The counter showed c when there had been m units of traffic, and d when
\* there had been n: it shows no more between them than there was, and all of
\* it if no counter started again.
Follows(c, m, d, n) ==
    /\ m <= n
    /\ c # Absent /\ d # Absent => d - c <= n - m /\ (resets = 0 => d - c = n - m)

\* The rows' places in the traffic there was.
RowsDated(i, at) ==
    \A s, t \in RowsOf(inboundRows, i, 0) :
        s < t => Follows(inboundRows[i][s], at[s], inboundRows[i][t], at[t])

\* An inbound's rows have the places at, the counter that the cycle has seen.
InboundDatedBy(i, at, seen) ==
    /\ RowsDated(i, at)
    /\ \A t \in RowsOf(inboundRows, i, 0) :
          t <= slot /\ Follows(inboundRows[i][t], at[t], total[i], moved.total[i])
    /\ cycle # Absent =>
         /\ cycle.ts <= slot /\ Follows(cycle.total[i], seen, total[i], moved.total[i])
         /\ \A t \in RowsOf(inboundRows, i, 0) :
               t <= cycle.ts /\ Follows(inboundRows[i][t], at[t], cycle.total[i], seen)

ClientDeltas(i) == [t \in RowsOf(clientRows, i, 0) |-> clientRows[i][t]]

\* A client's rows add up to no more than there was at its baseline, or when
\* the cycle saw it if the cycle has stored a row of it.
ClientDatedBy(i, base, seen) ==
    /\ SumOf(ClientDeltas(i)) <= IF cycle # Absent /\ i \in cycle.stored THEN seen ELSE base
    /\ baselines # Absent => Follows(baselines[i], base, used[i], moved.used[i])
    /\ cycle # Absent =>
         /\ base <= seen /\ Follows(cycle.used[i], seen, used[i], moved.used[i])
         /\ baselines # Absent => Follows(baselines[i], base, cycle.used[i], seen)

TrafficDated ==
    /\ moved.total \in [Inbounds -> Nat] /\ moved.used \in [Inbounds -> Nat] /\ resets \in Nat
    /\ cycle # Absent => \A i \in cycle.stored : i < cycle.next
    /\ \A i \in Inbounds :
         /\ \E at \in [Slots -> 0..moved.total[i]], seen \in 0..moved.total[i] :
               InboundDatedBy(i, at, seen)
         /\ i \in torn \/ \E base, seen \in 0..moved.used[i] : ClientDatedBy(i, base, seen)
=============================================================================
