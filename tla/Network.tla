------------------------------- MODULE Network -------------------------------
(***************************************************************************)
(* The network collector, internal/collector/network.go, as the registry   *)
(* runs it: its Collect method step by step (see StatefulCollector).  No    *)
(* lock protects its fields.  One counter stands for the two that are      *)
(* treated alike.                                                          *)
(***************************************************************************)
EXTENDS StatefulCollector

CONSTANTS
  Word,        \* the number of values of a counter (2^64 in the code)
  IPs,         \* public addresses
  MaxTraffic   \* bound: bytes carried

ASSUME NetworkAssumption ==
  /\ MaxTraffic \in Nat
  /\ Word \in Nat /\ Word > MaxTraffic

NoIP   == "none"
NoRate == [bytes |-> 0, time |-> 0]  \* the constant 0 that rate returns

VARIABLES
  traffic,     \* the bytes carried so far, whatever the counter says
  counter,     \* the interface's counter, which a restart sets to zero
  publicIP,    \* the machine's address, NoIP when the check cannot be reached
  prevBytes, lastPublicIP,  \* the collector's fields, with prevTime
  reading,     \* reading[r]: the counter as the call read it, 0 when it is done with
  rate,        \* rate[r]: the rate it has computed, as bytes and time
  seen,        \* seen[r]: the public address it has been told
  changed      \* changed[r]: public_ip_changed, -1 if it is omitted

env     == <<traffic, counter, publicIP>>
fields  == <<prevBytes, lastPublicIP>>
locals  == <<reading, rate, seen, changed>>
netVars == <<callVars, env, fields, locals>>

NetworkTypeOK ==
  /\ CallTypeOK
  /\ traffic \in 0 .. MaxTraffic /\ counter \in 0 .. traffic
  /\ publicIP \in IPs \cup {NoIP}
  /\ prevBytes \in 0 .. MaxTraffic /\ lastPublicIP \in IPs \cup {NoIP}
  /\ reading \in [Runs -> 0 .. MaxTraffic]
  /\ rate \in [Runs -> {NoRate} \cup [bytes : 0 .. Word - 1, time : 1 .. MaxClock]]
  /\ seen \in [Runs -> IPs \cup {NoIP}] /\ changed \in [Runs -> {-1, 0, 1}]

FieldsInit ==
  /\ traffic = 0 /\ counter = 0 /\ publicIP = NoIP
  /\ prevBytes = 0 /\ lastPublicIP = NoIP
  /\ reading = [r \in Runs |-> 0]
  /\ rate = [r \in Runs |-> NoRate]
  /\ seen = [r \in Runs |-> NoIP] /\ changed = [r \in Runs |-> -1]

NetworkInit == CallInit /\ FieldsInit

----------------------------------------------------------------------------
\* Collect, in the goroutine of run r

ReadCounters(r) ==
  /\ GoesOn(r, "read", "now")
  /\ reading' = [reading EXCEPT ![r] = counter]
  /\ UNCHANGED <<env, fields, rate, seen, changed>>

TakeTime(r) == TakesTime(r, "now", "rate") /\ UNCHANGED <<env, fields, locals>>

\* Mutant: a counter that has gone back is not noticed, and wraps around.
RateOfNoReset(time, prev, cur) ==
  IF prevTime = 0 \/ time <= prevTime THEN NoRate
  ELSE [bytes |-> (cur - prev) % Word, time |-> time - prevTime]

\* Mutant: the elapsed time may be zero.
RateOfNoElapsed(time, prev, cur) ==
  IF prevTime = 0 \/ cur < prev THEN NoRate
  ELSE [bytes |-> (cur - prev) % Word, time |-> time - prevTime]

RateOf(time, prev, cur) ==
  IF prevTime = 0 \/ cur < prev \/ time <= prevTime THEN NoRate
  ELSE [bytes |-> (cur - prev) % Word, time |-> time - prevTime]

Rate(r) ==
  /\ GoesOn(r, "rate", "store")
  /\ rate' = [rate EXCEPT ![r] = RateOf(now[r], prevBytes, reading[r])]
  /\ UNCHANGED <<env, fields, reading, seen, changed>>

\* The two locals are not used again and are cleared.
Store(r) ==
  /\ Goes(r, "store", "ask")
  /\ prevBytes' = reading[r] /\ prevTime' = now[r]
  /\ reading' = [reading EXCEPT ![r] = 0] /\ now' = [now EXCEPT ![r] = 0]
  /\ UNCHANGED <<env, lastPublicIP, rate, seen, changed>>

\* The answer comes while the run's context is live.
IPAnswer(r) ==
  /\ GoesOn(r, "ask", "compare") /\ cctx[r] = "live" /\ publicIP # NoIP
  /\ seen' = [seen EXCEPT ![r] = publicIP]
  /\ UNCHANGED <<env, fields, reading, rate, changed>>

\* The request is refused, fails or is answered with another status; or it
\* ends with its context.  The client's own timeout is as long as the
\* collector's and begins later, so it never ends the request first.
IPFails(r) ==
  /\ GoesOn(r, "ask", "return")
  /\ UNCHANGED <<env, fields, locals>>

\* Mutant: the first address is kept.
CompareKeepsFirst(r) ==
  /\ GoesOn(r, "compare", "return")
  /\ changed' = [changed EXCEPT ![r] =
                   IF lastPublicIP \notin {NoIP, seen[r]} THEN 1 ELSE 0]
  /\ lastPublicIP' = IF lastPublicIP = NoIP THEN seen[r] ELSE lastPublicIP
  /\ UNCHANGED <<env, prevBytes, reading, rate, seen>>

Compare(r) ==
  /\ GoesOn(r, "compare", "return")
  /\ changed' = [changed EXCEPT ![r] =
                   IF lastPublicIP \notin {NoIP, seen[r]} THEN 1 ELSE 0]
  /\ lastPublicIP' = seen[r]
  /\ UNCHANGED <<env, prevBytes, reading, rate, seen>>

\* Collect returns: an error if the counters cannot be read, else its metrics.
ReadFails(r) ==
  /\ at[r] = "read" /\ CollectorReturns(r, "error")
  /\ UNCHANGED <<clock, prevTime, at, now, overlapped, env, fields, locals>>

Returns(r) == CallReturns(r, "metrics") /\ UNCHANGED <<env, fields, locals>>

----------------------------------------------------------------------------
\* The machine's network

Carry ==
  /\ traffic < MaxTraffic
  /\ traffic' = traffic + 1 /\ counter' = counter + 1
  /\ UNCHANGED publicIP

InterfaceRestarts ==
  /\ counter' = 0
  /\ UNCHANGED <<traffic, publicIP>>

IPChanges ==
  /\ publicIP' \in IPs \cup {NoIP}
  /\ UNCHANGED <<traffic, counter>>

Environment ==
  /\ Carry \/ InterfaceRestarts \/ IPChanges
  /\ UNCHANGED <<callVars, fields, locals>>

CollectStep(r) ==
  \/ ReadCounters(r) \/ ReadFails(r) \/ TakeTime(r) \/ Rate(r) \/ Store(r)
  \/ IPAnswer(r) \/ IPFails(r) \/ Compare(r) \/ Returns(r)

NetworkNext ==
  \/ (RegistryStep \/ ClockTicks) /\ UNCHANGED <<env, fields, locals>>
  \/ Environment
  \/ \E r \in Runs : CollectStep(r)

NetworkSpec == NetworkInit /\ [][NetworkNext]_netVars
=============================================================================
