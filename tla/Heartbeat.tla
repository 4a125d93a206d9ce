------------------------------ MODULE Heartbeat ------------------------------
(***************************************************************************)
(* What a heartbeat says of a cycle: the registry's Collect appends the     *)
(* collectors' metrics and the count of failures (registry.go), and the      *)
(* sender's Build takes the metrics with valid names up to the payload's     *)
(* cap (sender.go, payload.go).  The cycle itself is module Registry's.      *)
(***************************************************************************)
EXTENDS Registry, SequencesExt

CONSTANTS
  Gives,      \* Gives[c]: collector c's metrics, whether the name of each is valid
  MaxMetrics  \* the payload's cap, 100 in the code

\* What the registry's own metric is named after; no collector is registered as this.
Agent == "agent"

ASSUME HeartbeatAssumption ==
  /\ Gives \in [Factories -> Seq(BOOLEAN)] /\ MaxMetrics \in Nat \ {0}
  /\ Agent \notin Factories

\* The metrics of one collector, numbered, and agent.collector_errors_count
MetricsOf(c) ==
  [i \in DOMAIN Gives[c] |-> [from |-> c, number |-> i, valid |-> Gives[c][i]]]
ErrorsCount(n) == [from |-> Agent, number |-> n, valid |-> TRUE]

\* Mutant: a single failure is not counted.
CycleMetricsManyErrors ==
  FlattenSeq([i \in DOMAIN all |-> MetricsOf(all[i][1])])
    \o IF Cardinality(failed) > 1 THEN <<ErrorsCount(Cardinality(failed))>> ELSE << >>

\* Collect's result
CycleMetrics ==
  FlattenSeq([i \in DOMAIN all |-> MetricsOf(all[i][1])])
    \o IF failed # {} THEN <<ErrorsCount(Cardinality(failed))>> ELSE << >>

\* Mutant: the cap is looked at after one metric too many.
TakeLate(taken, metric) ==
  IF metric.valid /\ Len(taken) <= MaxMetrics THEN Append(taken, metric) ELSE taken

\* One iteration of buildHeartbeat's loop: an invalid name is passed over, and
\* the loop ends when the cap is reached.
Take(taken, metric) ==
  IF metric.valid /\ Len(taken) < MaxMetrics THEN Append(taken, metric) ELSE taken

\* The heartbeat's metrics, once a cycle is finished
Built == FoldLeft(Take, << >>, CycleMetrics)
Finished == pc = "idle" /\ cycle > 0
=============================================================================
