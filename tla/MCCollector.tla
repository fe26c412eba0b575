----------------------------- MODULE MCCollector -----------------------------
(* Two metrics over two windows and a half; two faults: an insert that fails *)
(* and a stop, two stops, or a panel that fails twice.                       *)
EXTENDS Collector

MCMetrics == {"cpu", "mem"}
=============================================================================
