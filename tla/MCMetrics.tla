----------------------------- MODULE MCMetrics -----------------------------
(* The two parts of the metrics tables, each followed by itself: they have *)
(* no state in common.                                                     *)
EXTENDS TrafficCounters, RunsCursor

CONSTANTS r1, r2

VARIABLE part

MCInit == part \in {"traffic", "runs"} /\ TrafficInit /\ RunsInit

MCNext ==
    /\ UNCHANGED part
    /\ \/ part = "traffic" /\ TrafficNext /\ UNCHANGED runsVars
       \/ part = "runs" /\ RunsNext /\ UNCHANGED trafficVars

MCSpec == MCInit /\ [][MCNext]_<<part, trafficVars, runsVars>> /\ (part = "runs" => RunsFairness)
=============================================================================
