---------------------------- MODULE NetworkProps ----------------------------
(***************************************************************************)
(* What the network collector's metrics say of the network.                *)
(***************************************************************************)
EXTENDS Network, Functions

\* The runs whose metrics the registry has gathered, in this or an earlier
\* cycle: only TakeResult empties a channel.
Gathered ==
  {r \in Runs : goroutine[r] = "ended" /\ result[r] = "metrics" /\ chan[r] = None}

\* The runs that the registry gave up
Abandoned == {r \in Runs : r[2] <= cycle /\ goroutine[r] # None /\ r # current} \ Gathered

\* The bytes that the rates account for
BytesReported == SumFunction([r \in Runs |-> rate[r].bytes])

\* network.go:26-27 (a rate needs a delta since the last tick) and 74-76 (a
\* counter reset is ignored): over any number of cycles the rates account for
\* no more bytes than were carried, whenever interfaces restart and results
\* are given up, as long as no two Collect calls overlap.
NoByteCountedTwice == overlapped \/ BytesReported <= traffic

\* network.go:18-19 (public_ip_changed, "which matters for TURN servers whose
\* IP may rotate"): if the registry has gathered two different addresses, then a
\* change was gathered with the later one or between them, unless a run
\* that was told an address was given up: the change is then reported to no one.
ChangeReported ==
  \A r, s \in Gathered :
    /\ r[2] < s[2] /\ NoIP \notin {seen[r], seen[s]} /\ seen[r] # seen[s]
    => \/ \E t \in Gathered : r[2] < t[2] /\ t[2] <= s[2] /\ changed[t] = 1
       \/ \E t \in Abandoned : seen[t] # NoIP

\* network.go:60-61 (the address check is best-effort: "a slow response simply
\* omits the metric rather than failing the collector"): a run is never
\* counted as failed because it waits for the address.
SlowCheckOmitted ==
  \A c \in failed : at[<<c, cycle>>] # "ask"
=============================================================================
