--------------------------- MODULE HeartbeatProps ---------------------------
(***************************************************************************)
(* What a heartbeat must say of the cycle it was built from.               *)
(***************************************************************************)
EXTENDS Heartbeat

\* Where the metrics of the cycle are that may be sent, and how many of them there
\* are up to a place
Valid == {i \in DOMAIN CycleMetrics : CycleMetrics[i].valid}
Rank(i) == Cardinality({j \in Valid : j <= i})

\* payload.go:31-32 and sender.go:101-112: a heartbeat has the valid metrics in
\* their order, all of them unless there are more than the cap.
FilledToTheCap ==
  Finished =>
    /\ Len(Built) = Min({Cardinality(Valid), MaxMetrics})
    /\ \A i \in Valid : Rank(i) <= MaxMetrics => Built[Rank(i)] = CycleMetrics[i]

\* registry.go:79-81 (a failing collector's metrics are omitted, and it never
\* aborts the cycle): below the cap, a heartbeat has the valid metrics of just
\* the enabled collectors that did not fail and had data, and, if any failed, their number.
TellsTheCycle ==
  Finished /\ Len(Built) < MaxMetrics =>
    /\ \A c \in enabled : \A i \in DOMAIN Gives[c] :
         Gives[c][i] =>
           (MetricsOf(c)[i] \in ToSet(Built) <=> chan[<<c, cycle>>] = None
              /\ result[<<c, cycle>>] = "metrics" /\ goroutine[<<c, cycle>>] = "ended")
    /\ failed = {} <=> ~\E n \in 0 .. Cardinality(enabled) : ErrorsCount(n) \in ToSet(Built)
    /\ failed # {} => ErrorsCount(Cardinality(failed)) \in ToSet(Built)
=============================================================================
