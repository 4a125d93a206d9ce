----------------------------- MODULE MeterProofs -----------------------------
(***************************************************************************)
(* Proofs about the two collectors that compare a counter with their last  *)
(* reading of it, network and energy: for any traffic, any consumption,    *)
(* restarts and wrap-arounds of the counters, and any number of cycles     *)
(* whose results are taken or given up.                                    *)
(***************************************************************************)
EXTENDS MCNetwork, RegistryProofs, Induction

----------------------------------------------------------------------------
\* Remainders

LEMMA RemainderIsLess ==
  ASSUME NEW k \in Nat \ {0}, NEW p \in Nat
  PROVE  /\ p % k \in 0 .. k - 1
         /\ \E a \in Nat : p = k * a + (p % k)
<1>1. p \div k \in Nat /\ p % k \in 0 .. k - 1 /\ p = k * (p \div k) + (p % k)
  OBVIOUS
<1>2. QED
  BY <1>1

\* The remainder grows by no more than the number, however often it wraps around.
LEMMA RemaindersApart ==
  ASSUME NEW k \in Nat \ {0}, NEW p \in Nat, NEW q \in Nat, p <= q, p % k <= q % k
  PROVE  (q % k) - (p % k) <= q - p
<1>1. PICK a \in Nat, x \in 0 .. k - 1 : p = k * a + x /\ x = p % k
  BY RemainderIsLess
<1>2. PICK b \in Nat, y \in 0 .. k - 1 : q = k * b + y /\ y = q % k
  BY RemainderIsLess
<1>3. x <= y
  BY <1>1, <1>2
<1>4. CASE a <= b
  <2>1. k * a <= k * b
    BY <1>4
  <2>2. QED
    BY <1>1, <1>2, <1>3, <2>1
<1>5. CASE a > b
  <2>1. k * a >= k * (b + 1)
    BY <1>5
  <2>2. QED
    BY <1>1, <1>2, <1>5, <2>1
<1>6. QED
  BY <1>4, <1>5

----------------------------------------------------------------------------
\* What the two have in common: the calls of Collect

\* A call is at its first point until it begins, and has returned from the first
\* or the last.
Placed ==
  \A r \in Runs :
    /\ goroutine[r] = None => at[r] = "read"
    /\ goroutine[r] # "collect" => at[r] \in {"read", "return"}

OneCollects ==
  ~overlapped =>
    \A r, s \in Runs : goroutine[r] = "collect" /\ goroutine[s] = "collect" => r = s

CallInv ==
  /\ RegistryInv /\ Placed /\ OneCollects
  /\ clock \in 1 .. MaxClock /\ overlapped \in BOOLEAN /\ at \in [Runs -> Points]

LEMMA CallStarts == CallInit => CallInv
<1>1. CallInit => RegistryInv
  BY RegistryStarts DEF CallInit
<1>2. CallInit => 1 \in 1 .. MaxClock /\ clock = 1 /\ overlapped = FALSE
  BY ClockAssumption DEF CallInit
<1>3. CallInit => /\ at = [r \in Runs |-> "read"] /\ goroutine = [r \in Runs |-> None]
  BY DEF CallInit, Init
<1>4. CallInit => Placed /\ OneCollects /\ at \in [Runs -> Points]
  BY <1>3 DEF Placed, OneCollects, Points, None
<1>5. QED
  BY <1>1, <1>2, <1>4 DEF CallInv

\* The registry begins a call, or none.
LEMMA RegistryBegins ==
  ASSUME CallInv, RegistryStep
  PROVE  /\ [Next]_vars
         /\ \A s \in Runs : goroutine'[s] # goroutine[s] =>
              \/ goroutine[s] = None /\ goroutine'[s] = "collect" /\ s = current'
              \/ goroutine[s] = "send" /\ goroutine'[s] = "ended"
<1> USE DEF CallInv, RegistryInv, TypeOK
<1>1. CASE NewRegistry \/ StartCycle \/ FinishCycle \/ DeadlinePasses \/ Cancel
  BY <1>1 DEF NewRegistry, StartCycle, FinishCycle, DeadlinePasses, Cancel, runVars, Next, Loop
<1>2. CASE TakeResult \/ GiveUp
  BY <1>2 DEF TakeResult, GiveUp, Return, runVars, Next, Loop
<1>3. ASSUME NEW c \in Factories, RunCollector(c)
      PROVE  /\ [Next]_vars
             /\ \A s \in Runs : goroutine'[s] # goroutine[s] =>
                  goroutine[s] = None /\ goroutine'[s] = "collect" /\ s = current'
  <2>1. goroutine[<<c, cycle>>] = None /\ <<c, cycle>> \in Runs /\ current' = <<c, cycle>>
    BY <1>3, RunsArePairs DEF RunCollector, Stage, Unbegun
  <2>2. QED
    BY <1>3, <2>1 DEF RunCollector, Next, Loop
<1>4. ASSUME NEW r \in Runs, GoroutineSends(r)
      PROVE  /\ [Next]_vars
             /\ \A s \in Runs : goroutine'[s] # goroutine[s] =>
                  goroutine[s] = "send" /\ goroutine'[s] = "ended"
  BY <1>4 DEF GoroutineSends, Next, Goroutines
<1>5. QED
  BY <1>1, <1>2, <1>3, <1>4 DEF RegistryStep

LEMMA CallRegistryStep ==
  ASSUME CallInv, RegistryStep
  PROVE  CallInv'
<1>1. RegistryInv'
  BY RegistryBegins, RegistryInductive DEF CallInv
<1>2. /\ UNCHANGED <<clock, prevTime, at, now>>
      /\ overlapped' = (overlapped \/ \E r, s \in Runs :
                          r # s /\ goroutine[r] = "collect" /\ goroutine'[s] = "collect")
  BY DEF RegistryStep
<1>3. Placed'
  BY <1>2, RegistryBegins DEF CallInv, Placed, None
<1>4. OneCollects'
  BY <1>2, RegistryBegins DEF CallInv, OneCollects, None
<1>5. QED
  BY <1>1, <1>2, <1>3, <1>4 DEF CallInv

LEMMA CallClockTicks ==
  ASSUME CallInv, ClockTicks
  PROVE  CallInv'
<1>1. RegistryInv'
  BY RegistryInductive DEF CallInv, ClockTicks
<1>2. QED
  BY <1>1, ClockAssumption DEF CallInv, ClockTicks, Placed, OneCollects, vars, runVars

LEMMA CallGoes ==
  ASSUME CallInv, NEW r \in Runs, NEW here, NEW there \in Points, here # "return",
         Goes(r, here, there)
  PROVE  CallInv'
<1>1. RegistryInv'
  BY RegistryInductive DEF CallInv, Goes
<1>2. QED
  BY <1>1 DEF CallInv, Goes, Placed, OneCollects, vars, runVars, None

LEMMA CallEnds ==
  ASSUME CallInv, NEW r \in Runs, NEW outcome \in Outcomes, at[r] \in {"read", "return"},
         CollectorReturns(r, outcome), UNCHANGED <<clock, at, overlapped>>
  PROVE  CallInv'
<1>1. RegistryInv'
  BY RegistryInductive DEF CallInv, Next, Goroutines
<1>2. goroutine' = [goroutine EXCEPT ![r] = "send"]
  BY DEF CollectorReturns
<1>3. QED
  BY <1>1, <1>2 DEF CallInv, Placed, OneCollects, RegistryInv, TypeOK, None

LEMMA CallStutters ==
  ASSUME CallInv, UNCHANGED callVars
  PROVE  CallInv'
<1>1. RegistryInv'
  BY RegistryInductive DEF CallInv, callVars
<1>2. QED
  BY <1>1 DEF CallInv, Placed, OneCollects, callVars, vars, runVars

(***************************************************************************)
(* The network collector                                                   *)
(***************************************************************************)

LEMMA NetworkCallStep ==
  ASSUME CallInv, [NetworkNext]_netVars
  PROVE  CallInv'
<1>1. CASE RegistryStep \/ ClockTicks
  BY <1>1, CallRegistryStep, CallClockTicks
<1>2. CASE Environment \/ UNCHANGED netVars
  BY <1>2, CallStutters DEF Environment, netVars
<1>3. ASSUME NEW r \in Runs, CollectStep(r)
      PROVE  CallInv'
  <2>1. CASE ReadFails(r)
    BY <2>1, CallEnds DEF ReadFails, Outcomes
  <2>2. CASE Returns(r)
    BY <2>2, CallEnds DEF Returns, CallReturns, Outcomes
  <2>3. CASE ReadCounters(r)
    BY <2>3, CallGoes DEF ReadCounters, GoesOn, Points
  <2>4. CASE TakeTime(r)
    BY <2>4, CallGoes DEF TakeTime, TakesTime, Points
  <2>5. CASE Rate(r)
    BY <2>5, CallGoes DEF Rate, GoesOn, Points
  <2>6. CASE Store(r)
    BY <2>6, CallGoes DEF Store, Points
  <2>7. CASE IPAnswer(r)
    BY <2>7, CallGoes DEF IPAnswer, GoesOn, Points
  <2>8. CASE IPFails(r)
    BY <2>8, CallGoes DEF IPFails, GoesOn, Points
  <2>9. CASE Compare(r)
    BY <2>9, CallGoes DEF Compare, GoesOn, Points
  <2>10. QED
    BY <1>3, <2>1, <2>2, <2>3, <2>4, <2>5, <2>6, <2>7, <2>8, <2>9 DEF CollectStep
<1>4. QED
  BY <1>1, <1>2, <1>3 DEF NetworkNext

\* network.go:72-80: the difference is taken only where it is not negative, and
\* the time only where it is positive.
LEMMA RateIsTyped ==
  ASSUME NEW time \in 0 .. MaxClock, NEW prev \in 0 .. MaxTraffic, NEW cur \in 0 .. MaxTraffic,
         prevTime \in 0 .. MaxClock
  PROVE  /\ RateOf(time, prev, cur) \in {NoRate} \cup [bytes : 0 .. Word - 1, time : 1 .. MaxClock]
         /\ RateOf(time, prev, cur).bytes \in Nat
         /\ RateOf(time, prev, cur).bytes = 0
              \/ (prev <= cur /\ RateOf(time, prev, cur).bytes = cur - prev)
<1>1. MaxTraffic \in Nat /\ Word \in Nat /\ Word > MaxTraffic /\ MaxClock \in Nat
  BY NetworkAssumption, ClockAssumption
<1>2. CASE prevTime = 0 \/ cur < prev \/ time <= prevTime
  BY <1>2 DEF RateOf, NoRate
<1>3. CASE ~(prevTime = 0 \/ cur < prev \/ time <= prevTime)
  <2>1. cur - prev \in 0 .. Word - 1 /\ Word \in Nat \ {0} /\ time - prevTime \in 1 .. MaxClock
    BY <1>1, <1>3
  <2>2. \A k \in Nat \ {0} : \A m \in 0 .. k - 1 : m % k = m
    OBVIOUS
  <2>3. (cur - prev) % Word = cur - prev
    BY <2>1, <2>2
  <2>4. RateOf(time, prev, cur) = [bytes |-> cur - prev, time |-> time - prevTime]
    BY <1>3, <2>3 DEF RateOf
  <2>5. QED
    BY <1>1, <1>3, <2>1, <2>4
<1>4. QED
  BY <1>2, <1>3

LEMMA NetworkTypeStep ==
  ASSUME CallInv, CallInv', NetworkTypeOK, [NetworkNext]_netVars
  PROVE  NetworkTypeOK'
<1> DEFINE Typed == /\ traffic' \in 0 .. MaxTraffic /\ counter' \in 0 .. traffic'
                    /\ publicIP' \in IPs \cup {NoIP}
                    /\ prevBytes' \in 0 .. MaxTraffic /\ lastPublicIP' \in IPs \cup {NoIP}
                    /\ reading' \in [Runs -> 0 .. MaxTraffic]
                    /\ rate' \in [Runs -> {NoRate} \cup [bytes : 0 .. Word - 1, time : 1 .. MaxClock]]
                    /\ seen' \in [Runs -> IPs \cup {NoIP}] /\ changed' \in [Runs -> {-1, 0, 1}]
                    /\ prevTime' \in 0 .. MaxClock /\ now' \in [Runs -> 0 .. MaxClock]
<1> SUFFICES Typed
  BY DEF NetworkTypeOK, CallTypeOK, CallInv, RegistryInv
<1>a. MaxTraffic \in Nat /\ MaxClock \in Nat /\ \A k \in 0 .. traffic : k \in 0 .. MaxTraffic
  BY NetworkAssumption, ClockAssumption DEF NetworkTypeOK
<1> USE DEF NetworkTypeOK, CallTypeOK, env, fields, locals, Goes, GoesOn
<1>1. CASE RegistryStep /\ UNCHANGED <<env, fields, locals>>
  BY <1>1 DEF RegistryStep
<1>2. CASE ClockTicks /\ UNCHANGED <<env, fields, locals>>
  BY <1>2 DEF ClockTicks
<1>3. CASE Environment
  BY <1>3, <1>a DEF Environment, Carry, InterfaceRestarts, IPChanges, callVars
<1>4. CASE UNCHANGED netVars
  BY <1>4 DEF netVars, callVars
<1>5. ASSUME NEW r \in Runs, CollectStep(r)
      PROVE  Typed
  <2>1. CASE ReadFails(r) \/ Returns(r) \/ IPFails(r)
    BY <2>1 DEF ReadFails, Returns, CallReturns, IPFails
  <2>2. CASE ReadCounters(r)
    BY <2>2, <1>a DEF ReadCounters
  <2>3. CASE TakeTime(r)
    <3>1. clock \in 0 .. MaxClock
      BY <1>a
    <3>2. QED
      BY <2>3, <3>1 DEF TakeTime, TakesTime
  <2>4. CASE Rate(r)
    <3>1. RateOf(now[r], prevBytes, reading[r]) \in
            {NoRate} \cup [bytes : 0 .. Word - 1, time : 1 .. MaxClock]
      BY <2>4, RateIsTyped
    <3>2. QED
      BY <2>4, <3>1 DEF Rate
  <2>5. CASE Store(r)
    BY <2>5, <1>a DEF Store
  <2>6. CASE IPAnswer(r)
    BY <2>6 DEF IPAnswer
  <2>7. CASE Compare(r)
    BY <2>7 DEF Compare
  <2>8. QED
    BY <1>5, <2>1, <2>2, <2>3, <2>4, <2>5, <2>6, <2>7 DEF CollectStep
<1>6. QED
  BY <1>1, <1>2, <1>3, <1>4, <1>5 DEF NetworkNext

LEMMA NetworkStarts ==
  ASSUME NetworkInit
  PROVE  CallInv /\ NetworkTypeOK
<1>1. CallInv
  BY CallStarts DEF NetworkInit
<1>2. 0 \in 0 .. MaxTraffic /\ 0 \in 0 .. 0 /\ 0 \in 0 .. MaxClock
  BY NetworkAssumption, ClockAssumption
<1>3. CallTypeOK
  BY <1>1, <1>2 DEF NetworkInit, CallInit, CallTypeOK, CallInv, RegistryInv
<1>4. QED
  BY <1>1, <1>2, <1>3 DEF NetworkInit, FieldsInit, NetworkTypeOK

LEMMA NetworkTypedAlways == NetworkSpec => [](CallInv /\ NetworkTypeOK)
BY NetworkStarts, NetworkCallStep, NetworkTypeStep, PTL DEF NetworkSpec

\* network.go:63-80: in particular a rate is of a number of bytes that is not
\* negative, over a time that is not zero.
THEOREM NetworkTypeCorrect == NetworkSpec => []NetworkTypeOK
BY NetworkTypedAlways, PTL

----------------------------------------------------------------------------
\* The bytes that the rates account for

\* How far a counter is ahead of an earlier reading of it: the most that a rate
\* can come to report of the bytes between them.
Ahead(x, y) == IF x > y THEN x - y ELSE 0

\* A call that has not computed its rate has none.
NoRateYet == \A r \in Runs : at[r] \in {"read", "now", "rate"} => rate[r] = NoRate

Metering(r) == at[r] \in {"now", "rate", "store"}

\* What has been reported and what can still be, of the bytes carried so far: by
\* the call that is under way from its reading, and then by the next one from
\* the reading that it stores.
Budget ==
  ~overlapped =>
    /\ (\A r \in Runs : ~Metering(r)) => BytesReported + Ahead(counter, prevBytes) <= traffic
    /\ \A r \in Runs : at[r] \in {"now", "rate"} =>
         BytesReported + Ahead(reading[r], prevBytes) + Ahead(counter, reading[r]) <= traffic
    /\ \A r \in Runs : at[r] = "store" => BytesReported + Ahead(counter, reading[r]) <= traffic

ByteInv == CallInv /\ NetworkTypeOK /\ NoRateYet /\ Budget

LEMMA AheadIsNat ==
  ASSUME NEW x \in Nat, NEW y \in Nat
  PROVE  /\ Ahead(x, y) \in Nat
         /\ Ahead(x + 1, y) <= Ahead(x, y) + 1
         /\ Ahead(0, y) = 0 /\ Ahead(x, x) = 0
BY DEF Ahead

LEMMA RunsAreFinite == IsFiniteSet(Runs)
<1>1. IsFiniteSet(Factories) /\ IsFiniteSet(Cycles)
  BY RegistryAssumption, FS_Interval DEF Cycles
<1>2. QED
  BY <1>1, FS_Product DEF Runs

LEMMA BytesAreInt ==
  ASSUME NetworkTypeOK
  PROVE  BytesReported \in Int
<1>1. CASE Runs = {}
  <2>1. [r \in Runs |-> rate[r].bytes] = [r \in Runs |-> 0]
    BY <1>1
  <2>2. QED
    BY <2>1, RunsAreFinite, SumOfZeros DEF BytesReported
<1>2. ASSUME NEW r \in Runs
      PROVE  BytesReported \in Int
  <2> DEFINE g == [s \in Runs |-> rate[s].bytes]
  <2>1. g \in [Runs -> Int]
    BY NetworkAssumption DEF NetworkTypeOK, NoRate
  <2> HIDE DEF g
  <2>2. SumFunction(g) \in Int
    BY <2>1, RunsAreFinite, SumOfExcept
  <2>3. QED
    BY <2>2 DEF g, BytesReported
<1>3. QED
  BY <1>1, <1>2

LEMMA BytesAreAdded ==
  ASSUME NetworkTypeOK, NEW r \in Runs, NEW f, f.bytes \in Int,
         rate[r] = NoRate, rate' = [rate EXCEPT ![r] = f]
  PROVE  BytesReported' = BytesReported + f.bytes
<1> DEFINE g == [s \in Runs |-> rate[s].bytes]
           h == [s \in Runs |-> rate'[s].bytes]
<1>1. g \in [Runs -> Int]
  BY NetworkAssumption DEF NetworkTypeOK, NoRate
<1>2. g[r] = 0 /\ h = [g EXCEPT ![r] = f.bytes]
  <2>1. DOMAIN rate = Runs
    BY DEF NetworkTypeOK
  <2>2. \A s \in Runs : h[s] = IF s = r THEN f.bytes ELSE g[s]
    BY <2>1
  <2>3. h = [g EXCEPT ![r] = f.bytes]
    BY <2>2
  <2>4. QED
    BY <2>3 DEF NoRate
<1>3. BytesReported = SumFunction(g) /\ BytesReported' = SumFunction(h)
  BY DEF BytesReported
<1> HIDE DEF g, h
<1>4. SumFunction(h) = SumFunction(g) + f.bytes - g[r] /\ SumFunction(g) \in Int
  BY <1>1, <1>2, RunsAreFinite, SumOfExcept
<1>5. QED
  BY <1>2, <1>3, <1>4

\* Beside the call under way, no other has read and not stored, if no two overlap.
LEMMA OnlyOneMeters ==
  ASSUME CallInv, ~overlapped, NEW r \in Runs, goroutine[r] = "collect",
         NEW s \in Runs, s # r
  PROVE  at[s] \in {"read", "return"} /\ ~Metering(s)
BY DEF CallInv, OneCollects, Placed, Metering

LEMMA BudgetStarts ==
  ASSUME NetworkInit, NetworkTypeOK
  PROVE  NoRateYet /\ Budget
<1>1. NoRateYet
  BY DEF NetworkInit, FieldsInit, NoRateYet
<1>2. BytesReported = 0
  <2>1. [r \in Runs |-> rate[r].bytes] = [r \in Runs |-> 0]
    BY DEF NetworkInit, FieldsInit, NoRate
  <2>2. QED
    BY <2>1, RunsAreFinite, SumOfZeros DEF BytesReported
<1>3. traffic = 0 /\ Ahead(counter, prevBytes) = 0
  BY AheadIsNat DEF NetworkInit, FieldsInit
<1>4. \A r \in Runs : at[r] = "read"
  BY DEF NetworkInit, CallInit
<1>5. QED
  BY <1>1, <1>2, <1>3, <1>4 DEF Budget

\* Steps that only go from one point to another, and those of the registry
LEMMA BudgetStays ==
  ASSUME NoRateYet, Budget, UNCHANGED <<traffic, counter, prevBytes, reading, rate>>,
         overlapped => overlapped',
         \A r \in Runs :
           \/ at'[r] = at[r]
           \/ at[r] = "now" /\ at'[r] = "rate"
           \/ ~Metering(r) /\ at'[r] \in {"ask", "compare", "return"}
  PROVE  (NoRateYet /\ Budget)'
<1>1. BytesReported' = BytesReported
  BY DEF BytesReported
<1>2. NoRateYet'
  BY DEF NoRateYet
<1>3. ASSUME ~overlapped', \A r \in Runs : ~Metering(r)'
      PROVE  BytesReported' + Ahead(counter', prevBytes') <= traffic'
  <2>1. \A r \in Runs : ~Metering(r)
    BY <1>3 DEF Metering
  <2>2. QED
    BY <1>1, <1>3, <2>1 DEF Budget
<1>4. ASSUME ~overlapped', NEW r \in Runs, at'[r] \in {"now", "rate"}
      PROVE  BytesReported' + Ahead(reading'[r], prevBytes') + Ahead(counter', reading'[r])
               <= traffic'
  <2>1. at[r] \in {"now", "rate"}
    BY <1>4
  <2>2. QED
    BY <1>1, <1>4, <2>1 DEF Budget
<1>5. ASSUME ~overlapped', NEW r \in Runs, at'[r] = "store"
      PROVE  BytesReported' + Ahead(counter', reading'[r]) <= traffic'
  <2>1. at[r] = "store"
    BY <1>5
  <2>2. QED
    BY <1>1, <1>5, <2>1 DEF Budget
<1>6. QED
  BY <1>2, <1>3, <1>4, <1>5 DEF Budget

\* Bytes are carried, or an interface's counter restarts from zero.
LEMMA BudgetOfCounter ==
  ASSUME ByteInv, UNCHANGED <<overlapped, at, prevBytes, reading, rate>>,
         \/ traffic' = traffic + 1 /\ counter' = counter + 1
         \/ traffic' = traffic /\ counter' = 0
  PROVE  (NoRateYet /\ Budget)'
<1>1. BytesReported' = BytesReported /\ BytesReported \in Int
  BY BytesAreInt DEF BytesReported, ByteInv
<1>2. /\ traffic \in Nat /\ counter \in Nat /\ prevBytes \in Nat
      /\ \A r \in Runs : reading[r] \in Nat
  BY NetworkAssumption DEF ByteInv, NetworkTypeOK
<1>3. ASSUME NEW y \in Nat
      PROVE  /\ Ahead(counter, y) \in Nat /\ Ahead(counter', y) \in Nat
             /\ Ahead(counter', y) + traffic <= Ahead(counter, y) + traffic'
  <2>1. PICK c \in Nat, t \in Nat : c = counter /\ t = traffic
    BY <1>2
  <2>2. Ahead(c, y) \in Nat /\ Ahead(c + 1, y) \in Nat /\ Ahead(c + 1, y) <= Ahead(c, y) + 1
        /\ Ahead(0, y) = 0
    BY DEF Ahead
  <2>3. CASE traffic' = t + 1 /\ counter' = c + 1
    BY <2>1, <2>2, <2>3
  <2>4. CASE traffic' = t /\ counter' = 0
    <3>1. Ahead(counter, y) \in Nat /\ Ahead(counter', y) = 0
      BY <2>1, <2>2, <2>4
    <3>2. QED
      BY <2>1, <2>4, <3>1
  <2>5. QED
    BY <2>1, <2>3, <2>4
<1>4. NoRateYet'
  BY DEF NoRateYet, ByteInv
<1>5. traffic' \in Nat
  BY <1>2
<1>6. ASSUME NEW n \in Int, NEW y \in Nat, n + Ahead(counter, y) <= traffic
      PROVE  n + Ahead(counter', y) <= traffic'
  BY <1>2, <1>3, <1>5, <1>6
<1>7. ASSUME ~overlapped', \A r \in Runs : ~Metering(r)'
      PROVE  BytesReported' + Ahead(counter', prevBytes') <= traffic'
  BY <1>1, <1>2, <1>6, <1>7 DEF ByteInv, Budget, Metering
<1>8. ASSUME ~overlapped', NEW r \in Runs, at'[r] = "store"
      PROVE  BytesReported' + Ahead(counter', reading'[r]) <= traffic'
  BY <1>1, <1>2, <1>6, <1>8 DEF ByteInv, Budget
<1>9. ASSUME ~overlapped', NEW r \in Runs, at'[r] \in {"now", "rate"}
      PROVE  BytesReported' + Ahead(reading'[r], prevBytes') + Ahead(counter', reading'[r])
               <= traffic'
  <2>1. BytesReported + Ahead(reading[r], prevBytes) + Ahead(counter, reading[r]) <= traffic
    BY <1>9 DEF ByteInv, Budget
  <2>2. BytesReported + Ahead(reading[r], prevBytes) \in Int
    <3>1. reading[r] \in Nat /\ prevBytes \in Nat
      BY <1>2
    <3>2. Ahead(reading[r], prevBytes) \in Nat
      BY <3>1, AheadIsNat
    <3>3. QED
      BY <1>1, <3>2
  <2>3. QED
    BY <1>1, <1>2, <1>6, <2>1, <2>2
<1>10. QED
  BY <1>4, <1>7, <1>8, <1>9 DEF Budget

LEMMA BudgetOfRead ==
  ASSUME ByteInv, CallInv', NEW r \in Runs, ReadCounters(r)
  PROVE  (NoRateYet /\ Budget)'
<1>1. /\ BytesReported' = BytesReported /\ at' = [at EXCEPT ![r] = "now"] /\ at[r] = "read"
      /\ goroutine[r] = "collect" /\ reading' = [reading EXCEPT ![r] = counter]
      /\ UNCHANGED <<traffic, counter, prevBytes, rate, overlapped>>
  BY DEF ReadCounters, GoesOn, Goes, env, fields, BytesReported
<1>2. NoRateYet'
  BY <1>1 DEF NoRateYet, ByteInv
<1>3. SUFFICES ASSUME ~overlapped'
               PROVE  Budget'
  BY <1>2 DEF Budget
<1>4. \A s \in Runs : s # r => at[s] \in {"read", "return"} /\ ~Metering(s)
  BY <1>1, <1>3, OnlyOneMeters DEF ByteInv
<1>5. BytesReported + Ahead(counter, prevBytes) <= traffic
  BY <1>1, <1>3, <1>4 DEF ByteInv, Budget, Metering
<1>6. counter \in Nat /\ prevBytes \in Nat /\ BytesReported \in Int
  BY BytesAreInt, NetworkAssumption DEF ByteInv, NetworkTypeOK
<1>7. reading'[r] = counter /\ at'[r] = "now" /\ \A s \in Runs : s # r => at'[s] = at[s]
  BY <1>1 DEF ByteInv, CallInv, NetworkTypeOK
<1>8. BytesReported' + Ahead(reading'[r], prevBytes') + Ahead(counter', reading'[r]) <= traffic'
  <2>1. Ahead(counter, prevBytes) \in Nat /\ Ahead(counter, counter) = 0
    BY <1>6, AheadIsNat
  <2>2. BytesReported + Ahead(counter, prevBytes) + Ahead(counter, counter) <= traffic
    BY <1>5, <1>6, <2>1
  <2>3. QED
    BY <1>1, <1>7, <2>2
<1>9. QED
  BY <1>4, <1>7, <1>8 DEF Budget, Metering

\* What the rate reports is no more than the reading is ahead of the last one.
LEMMA BudgetOfRate ==
  ASSUME ByteInv, CallInv', NEW r \in Runs, Rate(r)
  PROVE  (NoRateYet /\ Budget)'
<1> DEFINE f == RateOf(now[r], prevBytes, reading[r])
<1>1. /\ at' = [at EXCEPT ![r] = "store"] /\ at[r] = "rate"
      /\ goroutine[r] = "collect" /\ rate' = [rate EXCEPT ![r] = f]
      /\ UNCHANGED <<traffic, counter, prevBytes, reading, overlapped>>
  BY DEF Rate, GoesOn, Goes, env, fields
<1>2. f.bytes \in Nat /\ (f.bytes = 0 \/ (prevBytes <= reading[r] /\ f.bytes = reading[r] - prevBytes))
  BY RateIsTyped DEF ByteInv, NetworkTypeOK, CallTypeOK
<1> HIDE DEF f
<1>3. at'[r] = "store" /\ \A s \in Runs : s # r => at'[s] = at[s] /\ rate'[s] = rate[s]
  BY <1>1 DEF ByteInv, CallInv, NetworkTypeOK
<1>4. NoRateYet'
  BY <1>3 DEF NoRateYet, ByteInv
<1>5. SUFFICES ASSUME ~overlapped'
               PROVE  Budget'
  BY <1>4 DEF Budget
<1>6. \A s \in Runs : s # r => at[s] \in {"read", "return"} /\ ~Metering(s)
  BY <1>1, <1>5, OnlyOneMeters DEF ByteInv
<1>7. BytesReported + Ahead(reading[r], prevBytes) + Ahead(counter, reading[r]) <= traffic
  BY <1>1, <1>5 DEF ByteInv, Budget
<1>8. BytesReported' = BytesReported + f.bytes
  <2>1. rate[r] = NoRate
    BY <1>1 DEF ByteInv, NoRateYet
  <2>2. NetworkTypeOK /\ f.bytes \in Int /\ rate' = [rate EXCEPT ![r] = f]
    BY <1>1, <1>2 DEF ByteInv
  <2>3. QED
    BY <2>1, <2>2, BytesAreAdded
<1>9. /\ counter \in Nat /\ prevBytes \in Nat /\ reading[r] \in Nat /\ BytesReported \in Int
      /\ traffic \in Nat
  BY BytesAreInt, NetworkAssumption DEF ByteInv, NetworkTypeOK
<1>10. f.bytes <= Ahead(reading[r], prevBytes)
  BY <1>2, <1>9 DEF Ahead
<1>11. BytesReported' + Ahead(counter', reading'[r]) <= traffic'
  <2>1. Ahead(reading[r], prevBytes) \in Nat /\ Ahead(counter, reading[r]) \in Nat
    BY <1>9, AheadIsNat
  <2>2. QED
    BY <1>1, <1>2, <1>7, <1>8, <1>9, <1>10, <2>1
<1>12. QED
  BY <1>3, <1>6, <1>11 DEF Budget, Metering

LEMMA BudgetOfStore ==
  ASSUME ByteInv, CallInv', NEW r \in Runs, Store(r)
  PROVE  (NoRateYet /\ Budget)'
<1>1. /\ at' = [at EXCEPT ![r] = "ask"] /\ at[r] = "store" /\ BytesReported' = BytesReported
      /\ goroutine[r] = "collect" /\ prevBytes' = reading[r]
      /\ UNCHANGED <<traffic, counter, rate, overlapped>>
  BY DEF Store, Goes, env, BytesReported
<1>2. at'[r] = "ask" /\ \A s \in Runs : s # r => at'[s] = at[s]
  BY <1>1 DEF ByteInv, CallInv
<1>3. NoRateYet'
  BY <1>1, <1>2 DEF NoRateYet, ByteInv
<1>4. SUFFICES ASSUME ~overlapped'
               PROVE  Budget'
  BY <1>3 DEF Budget
<1>5. \A s \in Runs : s # r => at[s] \in {"read", "return"} /\ ~Metering(s)
  BY <1>1, <1>4, OnlyOneMeters DEF ByteInv
<1>6. BytesReported + Ahead(counter, reading[r]) <= traffic
  BY <1>1, <1>4 DEF ByteInv, Budget
<1>7. QED
  BY <1>1, <1>2, <1>5, <1>6 DEF Budget, Metering

LEMMA BudgetStep ==
  ASSUME ByteInv, CallInv', [NetworkNext]_netVars
  PROVE  (NoRateYet /\ Budget)'
<1>a. NoRateYet /\ Budget /\ at \in [Runs -> Points]
  BY DEF ByteInv, CallInv
<1>1. CASE (RegistryStep \/ ClockTicks) /\ UNCHANGED <<env, fields, locals>>
  <2>1. UNCHANGED <<traffic, counter, prevBytes, reading, rate, at>>
    BY <1>1 DEF env, fields, locals, RegistryStep, ClockTicks
  <2>2. overlapped => overlapped'
    BY <1>1, Zenon DEF RegistryStep, ClockTicks
  <2>3. QED
    BY <1>a, <2>1, <2>2, BudgetStays
<1>2. CASE UNCHANGED netVars
  BY <1>2, <1>a, BudgetStays DEF netVars, callVars, env, fields, locals
<1>3. CASE Environment
  <2>1. UNCHANGED <<at, prevBytes, reading, rate, overlapped>>
    BY <1>3 DEF Environment, fields, locals, callVars
  <2>2. CASE IPChanges
    BY <1>a, <2>1, <2>2, BudgetStays DEF IPChanges
  <2>3. CASE Carry \/ InterfaceRestarts
    BY <2>1, <2>3, BudgetOfCounter DEF Carry, InterfaceRestarts
  <2>4. QED
    BY <1>3, <2>2, <2>3 DEF Environment
<1>4. ASSUME NEW r \in Runs, CollectStep(r)
      PROVE  (NoRateYet /\ Budget)'
  <2>1. CASE ReadFails(r) \/ Returns(r)
    <3>1. UNCHANGED <<traffic, counter, prevBytes, reading, rate, at, overlapped>>
      BY <2>1 DEF ReadFails, Returns, CallReturns, env, fields, locals
    <3>2. QED
      BY <1>a, <3>1, BudgetStays
  <2>2. CASE TakeTime(r) \/ IPAnswer(r) \/ IPFails(r) \/ Compare(r)
    <3>1. UNCHANGED <<traffic, counter, prevBytes, reading, rate, overlapped>>
      BY <2>2 DEF TakeTime, TakesTime, IPAnswer, IPFails, Compare, Goes, GoesOn, env, fields, locals
    <3>2. \A s \in Runs :
            \/ at'[s] = at[s]
            \/ at[s] = "now" /\ at'[s] = "rate"
            \/ ~Metering(s) /\ at'[s] \in {"ask", "compare", "return"}
      BY <1>a, <2>2 DEF TakeTime, TakesTime, IPAnswer, IPFails, Compare, Goes, GoesOn, Metering
    <3>3. QED
      BY <1>a, <3>1, <3>2, BudgetStays
  <2>3. CASE ReadCounters(r) \/ Rate(r) \/ Store(r)
    BY <2>3, BudgetOfRead, BudgetOfRate, BudgetOfStore
  <2>4. QED
    BY <1>4, <2>1, <2>2, <2>3 DEF CollectStep
<1>5. QED
  BY <1>1, <1>2, <1>3, <1>4 DEF NetworkNext

LEMMA ByteInvAlways == NetworkSpec => []ByteInv
<1>1. NetworkInit => ByteInv
  <2>1. SUFFICES ASSUME NetworkInit
                 PROVE  ByteInv
    OBVIOUS
  <2>2. CallInv /\ NetworkTypeOK
    BY <2>1, NetworkStarts
  <2>3. QED
    BY <2>1, <2>2, BudgetStarts DEF ByteInv
<1>2. ByteInv /\ [NetworkNext]_netVars => ByteInv'
  <2>1. SUFFICES ASSUME ByteInv, [NetworkNext]_netVars
                 PROVE  ByteInv'
    OBVIOUS
  <2>2. CallInv'
    BY <2>1, NetworkCallStep DEF ByteInv
  <2>3. NetworkTypeOK'
    BY <2>1, <2>2, NetworkTypeStep DEF ByteInv
  <2>4. QED
    BY <2>1, <2>2, <2>3, BudgetStep DEF ByteInv
<1>3. QED
  BY <1>1, <1>2, PTL DEF NetworkSpec

\* network.go:26-27, 74-76: the rates account for no byte that was not carried, and
\* for none twice, as long as no two Collect calls overlap.
THEOREM BytesCountedOnce == NetworkSpec => []NoByteCountedTwice
<1>1. ByteInv => NoByteCountedTwice
  <2>1. SUFFICES ASSUME ByteInv, ~overlapped
                 PROVE  BytesReported <= traffic
    BY DEF NoByteCountedTwice
  <2>2. /\ counter \in Nat /\ prevBytes \in Nat /\ BytesReported \in Int /\ traffic \in Nat
        /\ \A r \in Runs : reading[r] \in Nat
    BY <2>1, BytesAreInt, NetworkAssumption DEF ByteInv, NetworkTypeOK
  <2>3. CASE \A r \in Runs : ~Metering(r)
    <3>1. BytesReported + Ahead(counter, prevBytes) <= traffic
      BY <2>1, <2>3 DEF ByteInv, Budget
    <3>2. Ahead(counter, prevBytes) \in Nat
      BY <2>2, AheadIsNat
    <3>3. QED
      BY <2>2, <3>1, <3>2
  <2>4. ASSUME NEW r \in Runs, Metering(r)
        PROVE  BytesReported <= traffic
    <3>1. Ahead(reading[r], prevBytes) \in Nat /\ Ahead(counter, reading[r]) \in Nat
      BY <2>2, AheadIsNat
    <3>2. \/ BytesReported + Ahead(reading[r], prevBytes) + Ahead(counter, reading[r]) <= traffic
          \/ BytesReported + Ahead(counter, reading[r]) <= traffic
      BY <2>1, <2>4 DEF ByteInv, Budget, Metering
    <3>3. QED
      BY <2>2, <3>1, <3>2
  <2>5. QED
    BY <2>3, <2>4
<1>2. QED
  BY <1>1, ByteInvAlways, PTL

----------------------------------------------------------------------------
\* The changes of address, for the one network collector that a registry has

SoleCollector == \A r, s \in Runs : r[2] = s[2] => r = s

\* A call has been told an address from the answer on; only a call that came to its
\* end has metrics.
Answered ==
  \A r \in Runs :
    /\ at[r] \in {"read", "now", "rate", "store", "ask"} => seen[r] = NoIP
    /\ at[r] = "compare" => seen[r] # NoIP
    /\ result[r] = "metrics" => at[r] = "return"

\* The runs that have compared an address with the last
Told == {r \in Runs : at[r] = "return" /\ seen[r] # NoIP}

NoneGivenUp == \A t \in Abandoned : seen[t] = NoIP

\* The address compared with is the one that every earlier run saw, unless a later
\* one has reported a change; and two that saw different ones are told apart.
Compared ==
  NoneGivenUp =>
    /\ \A r \in Told :
         /\ lastPublicIP # NoIP
         /\ seen[r] = lastPublicIP \/ \E t \in Told : r[2] < t[2] /\ changed[t] = 1
    /\ \A r, s \in Told : r[2] < s[2] /\ seen[r] # seen[s] =>
         \E t \in Told : r[2] < t[2] /\ t[2] <= s[2] /\ changed[t] = 1

AddressInv == SoleCollector /\ CallInv /\ NetworkTypeOK /\ Answered /\ Compared

\* A run that is given up is never gathered after all.
LEMMA AbandonedStays ==
  ASSUME RegistryInv, [Next]_vars, NEW r \in Abandoned
  PROVE  r \in Abandoned'
<1> USE DEF RegistryInv, TypeOK
<1>1. /\ r \in Runs /\ r[2] <= cycle /\ goroutine[r] # None /\ r # current
      /\ ~(goroutine[r] = "ended" /\ result[r] = "metrics" /\ chan[r] = None)
  BY DEF Abandoned, Gathered
<1>2. r[2] \in Nat /\ cycle \in Nat
  BY <1>1, RunsArePairs, RegistryAssumption
<1> SUFFICES /\ r[2] <= cycle' /\ goroutine'[r] # None /\ r # current'
             /\ ~(goroutine'[r] = "ended" /\ result'[r] = "metrics" /\ chan'[r] = None)
  BY <1>1 DEF Abandoned, Gathered
<1>3. CASE NewRegistry \/ StartCycle \/ FinishCycle \/ DeadlinePasses \/ Cancel
  BY <1>1, <1>2, <1>3 DEF NewRegistry, StartCycle, FinishCycle, DeadlinePasses, Cancel, runVars
<1>4. CASE TakeResult \/ GiveUp
  <2>1. current \in Runs /\ r # NoRun
    BY <1>1, <1>4, RunsArePairs DEF TakeResult, GiveUp, Stage
  <2>2. /\ UNCHANGED <<cycle, goroutine, result>> /\ current' = NoRun
        /\ chan' = chan \/ chan' = [chan EXCEPT ![current] = None]
    BY <1>4 DEF TakeResult, GiveUp, Return, ReadFrom
  <2>3. QED
    BY <1>1, <2>1, <2>2
<1>5. ASSUME NEW c \in Factories, RunCollector(c)
      PROVE  /\ r[2] <= cycle' /\ goroutine'[r] # None /\ r # current'
             /\ ~(goroutine'[r] = "ended" /\ result'[r] = "metrics" /\ chan'[r] = None)
  <2>1. goroutine[<<c, cycle>>] = None
    BY <1>5, RunsArePairs DEF RunCollector, Stage, Unbegun
  <2>2. /\ UNCHANGED <<cycle, result, chan>> /\ current' = <<c, cycle>>
        /\ goroutine' = [goroutine EXCEPT ![<<c, cycle>>] = "collect"]
    BY <1>5 DEF RunCollector
  <2>3. QED
    BY <1>1, <2>1, <2>2
<1>6. ASSUME NEW s \in Runs, GoroutineSends(s)
      PROVE  /\ r[2] <= cycle' /\ goroutine'[r] # None /\ r # current'
             /\ ~(goroutine'[r] = "ended" /\ result'[r] = "metrics" /\ chan'[r] = None)
  BY <1>1, <1>6 DEF GoroutineSends, None
<1>7. ASSUME NEW s \in Runs, NEW outcome \in Outcomes, CollectorReturns(s, outcome)
      PROVE  /\ r[2] <= cycle' /\ goroutine'[r] # None /\ r # current'
             /\ ~(goroutine'[r] = "ended" /\ result'[r] = "metrics" /\ chan'[r] = None)
  BY <1>1, <1>7 DEF CollectorReturns, None
<1>8. CASE UNCHANGED vars
  BY <1>1, <1>8 DEF vars, runVars
<1>9. QED
  BY <1>3, <1>4, <1>5, <1>6, <1>7, <1>8 DEF Next, Loop, Goroutines

\* Every step of the network's model is one of the registry's, or stutters in it.
LEMMA NetworkIsRegistry ==
  ASSUME CallInv, [NetworkNext]_netVars
  PROVE  [Next]_vars
<1>1. CASE RegistryStep
  BY <1>1, RegistryBegins
<1>2. CASE ClockTicks \/ Environment \/ UNCHANGED netVars
  BY <1>2 DEF ClockTicks, Environment, netVars, callVars
<1>3. ASSUME NEW r \in Runs, CollectStep(r)
      PROVE  [Next]_vars
  <2>1. CASE ReadFails(r) \/ Returns(r)
    BY <2>1 DEF ReadFails, Returns, CallReturns, Outcomes, Next, Goroutines
  <2>2. CASE ~(ReadFails(r) \/ Returns(r))
    BY <1>3, <2>2 DEF CollectStep, ReadCounters, TakeTime, TakesTime, Rate, Store, IPAnswer,
      IPFails, Compare, Goes, GoesOn
  <2>3. QED
    BY <2>1, <2>2
<1>4. QED
  BY <1>1, <1>2, <1>3 DEF NetworkNext

LEMMA AnsweredStep ==
  ASSUME AddressInv, [NetworkNext]_netVars
  PROVE  Answered'
<1>a. /\ at \in [Runs -> Points] /\ seen \in [Runs -> IPs \cup {NoIP}]
      /\ result \in [Runs -> Outcomes \cup {None}]
      /\ \A r \in Runs : goroutine[r] = "collect" => result[r] = None
  BY DEF AddressInv, CallInv, RegistryInv, TypeOK, Unbegun, NetworkTypeOK
<1>b. Answered
  BY DEF AddressInv
<1>1. CASE RegistryStep /\ UNCHANGED <<env, fields, locals>>
  <2>1. UNCHANGED <<at, seen, result>>
    BY <1>1 DEF RegistryStep, locals, NewRegistry, StartCycle, FinishCycle, DeadlinePasses, Cancel,
      TakeResult, GiveUp, Return, RunCollector, GoroutineSends, runVars
  <2>2. QED
    BY <1>b, <2>1 DEF Answered
<1>2. CASE ClockTicks /\ UNCHANGED <<env, fields, locals>>
  BY <1>b, <1>2 DEF ClockTicks, locals, vars, runVars, Answered
<1>3. CASE Environment \/ UNCHANGED netVars
  BY <1>b, <1>3 DEF Environment, netVars, callVars, locals, vars, runVars, Answered
<1>4. ASSUME NEW r \in Runs, CollectStep(r)
      PROVE  Answered'
  <2>1. CASE ReadFails(r) \/ Returns(r)
    <3>1. /\ UNCHANGED <<at, seen>>
          /\ \A s \in Runs : result'[s] = result[s] \/ result'[s] = "error"
                               \/ (at[s] = "return" /\ result'[s] = "metrics")
      BY <1>a, <2>1 DEF ReadFails, Returns, CallReturns, CollectorReturns, locals
    <3>2. QED
      BY <1>b, <3>1 DEF Answered
  <2>2. CASE IPAnswer(r)
    BY <1>a, <1>b, <2>2 DEF IPAnswer, Goes, GoesOn, Answered, vars, runVars, None
  <2>3. CASE ReadCounters(r) \/ TakeTime(r) \/ Rate(r) \/ Store(r) \/ IPFails(r) \/ Compare(r)
    <3>1. /\ UNCHANGED <<seen, result>> /\ goroutine[r] = "collect"
          /\ \A s \in Runs : s # r => at'[s] = at[s]
          /\ at'[r] = "return" \/ (at'[r] \in {"now", "rate", "store", "ask"}
                                     /\ at[r] \in {"read", "now", "rate", "store"})
      BY <1>a, <2>3 DEF ReadCounters, TakeTime, TakesTime, Rate, Store, IPFails, Compare,
        Goes, GoesOn, locals, vars, runVars
    <3>2. QED
      BY <1>a, <1>b, <3>1 DEF Answered, None
  <2>4. QED
    BY <1>4, <2>1, <2>2, <2>3 DEF CollectStep
<1>5. QED
  BY <1>1, <1>2, <1>3, <1>4 DEF NetworkNext

\* Whatever is given up stays so.
LEMMA GivenUpStays ==
  ASSUME AddressInv, [NetworkNext]_netVars, NoneGivenUp'
  PROVE  NoneGivenUp
<1>1. SUFFICES ASSUME NEW t \in Abandoned, seen[t] # NoIP
               PROVE  seen'[t] # NoIP
  BY AbandonedStays, NetworkIsRegistry DEF NoneGivenUp, AddressInv, CallInv
<1>2. t \in Runs /\ seen \in [Runs -> IPs \cup {NoIP}]
  BY DEF Abandoned, AddressInv, NetworkTypeOK
<1>3. CASE (RegistryStep \/ ClockTicks) /\ UNCHANGED <<env, fields, locals>>
  BY <1>1, <1>3 DEF locals
<1>4. CASE Environment \/ UNCHANGED netVars
  BY <1>1, <1>4 DEF Environment, netVars, locals
<1>5. ASSUME NEW r \in Runs, CollectStep(r)
      PROVE  seen'[t] # NoIP
  <2>1. CASE IPAnswer(r)
    BY <1>1, <1>2, <2>1 DEF IPAnswer
  <2>2. CASE ~IPAnswer(r)
    BY <1>1, <1>5, <2>2 DEF CollectStep, ReadFails, Returns, ReadCounters, TakeTime, Rate, Store,
      IPFails, Compare, locals
  <2>3. QED
    BY <2>1, <2>2
<1>6. QED
  BY <1>3, <1>4, <1>5 DEF NetworkNext

\* The steps that compare no address
LEMMA ComparedStays ==
  ASSUME AddressInv, NoneGivenUp' => NoneGivenUp,
         UNCHANGED <<lastPublicIP, changed>>,
         \A r \in Runs : (at'[r] = "return" /\ seen'[r] # NoIP) <=> r \in Told,
         \A r \in Told : seen'[r] = seen[r]
  PROVE  Compared'
<1>1. Told' = Told
  BY DEF Told
<1>2. QED
  BY <1>1 DEF AddressInv, Compared, Told

LEMMA ComparedOfCompare ==
  ASSUME AddressInv, NoneGivenUp' => NoneGivenUp, NEW r \in Runs, Compare(r)
  PROVE  Compared'
<1>1. SUFFICES ASSUME NoneGivenUp'
               PROVE  Compared'
  BY DEF Compared
<1>2. NoneGivenUp
  BY <1>1
<1>3. /\ goroutine[r] = "collect" /\ at[r] = "compare" /\ lastPublicIP' = seen[r]
      /\ UNCHANGED <<seen, cycle, current>>
  BY DEF Compare, GoesOn, Goes, vars
<1>4. /\ at'[r] = "return" /\ \A s \in Runs : s # r => at'[s] = at[s] /\ changed'[s] = changed[s]
      /\ changed'[r] = IF lastPublicIP \notin {NoIP, seen[r]} THEN 1 ELSE 0
  BY DEF Compare, GoesOn, Goes, AddressInv, CallInv, NetworkTypeOK
<1>5. seen[r] # NoIP
  BY <1>3 DEF AddressInv, Answered
<1>6. \A s \in Runs : s[2] \in Nat /\ (goroutine[s] # None => s[2] <= cycle)
  <2>1. cycle \in Nat
    BY RegistryAssumption DEF AddressInv, CallInv, RegistryInv, TypeOK
  <2>2. QED
    BY <2>1, RunsArePairs DEF AddressInv, CallInv, RegistryInv, Unbegun
<1>7. r = current /\ r[2] = cycle
  <2>1. r[2] <= cycle /\ goroutine[r] # None /\ r \notin Gathered
    BY <1>3, <1>6 DEF Gathered, None
  <2>2. r = current
    BY <1>2, <1>5, <2>1 DEF NoneGivenUp, Abandoned
  <2>3. QED
    BY <2>2, RunsArePairs DEF AddressInv, CallInv, RegistryInv, Stage
<1>8. \A t \in Told : t \in Runs /\ t # r /\ t[2] < r[2] /\ seen[t] # NoIP
  <2>1. SUFFICES ASSUME NEW t \in Told
                 PROVE  t \in Runs /\ t # r /\ t[2] < r[2] /\ seen[t] # NoIP
    OBVIOUS
  <2>2. t \in Runs /\ at[t] = "return" /\ seen[t] # NoIP
    BY <2>1 DEF Told
  <2>3. goroutine[t] # None
    BY <2>2 DEF AddressInv, CallInv, Placed
  <2>4. t # r /\ t[2] # r[2]
    BY <1>3, <2>2 DEF AddressInv, SoleCollector
  <2>5. QED
    BY <1>6, <1>7, <2>2, <2>3, <2>4
<1>9. Told' = Told \cup {r}
  BY <1>3, <1>4, <1>5 DEF Told
<1>10. ASSUME NEW t \in Told
       PROVE  /\ seen[t] = lastPublicIP' \/ \E u \in Told' : t[2] < u[2] /\ changed'[u] = 1
              /\ seen[t] # seen[r] => \E u \in Told' : t[2] < u[2] /\ u[2] <= r[2] /\ changed'[u] = 1
  <2>1. lastPublicIP # NoIP /\ (seen[t] = lastPublicIP \/ \E u \in Told : t[2] < u[2] /\ changed[u] = 1)
    BY <1>2, <1>10 DEF AddressInv, Compared
  <2>2. CASE seen[t] = lastPublicIP
    <3>1. CASE seen[t] = seen[r]
      BY <1>3, <3>1
    <3>2. CASE seen[t] # seen[r]
      <4>1. changed'[r] = 1 /\ t[2] < r[2] /\ r[2] <= r[2] /\ r \in Told'
        BY <1>4, <1>6, <1>8, <1>9, <1>10, <2>1, <2>2, <3>2
      <4>2. QED
        BY <4>1
    <3>3. QED
      BY <3>1, <3>2
  <2>3. ASSUME NEW u \in Told, t[2] < u[2], changed[u] = 1
        PROVE  u \in Told' /\ t[2] < u[2] /\ u[2] <= r[2] /\ changed'[u] = 1
    BY <1>4, <1>6, <1>8, <1>9, <2>3
  <2>4. QED
    BY <2>1, <2>2, <2>3
<1>11. \A t \in Told' : /\ lastPublicIP' # NoIP
                        /\ seen'[t] = lastPublicIP' \/ \E u \in Told' : t[2] < u[2] /\ changed'[u] = 1
  BY <1>3, <1>5, <1>9, <1>10
<1>12. ASSUME NEW t \in Told', NEW s \in Told', t[2] < s[2], seen'[t] # seen'[s]
       PROVE  \E u \in Told' : t[2] < u[2] /\ u[2] <= s[2] /\ changed'[u] = 1
  <2>1. t \in Told
    BY <1>6, <1>8, <1>9, <1>12
  <2>2. CASE s = r
    BY <1>3, <1>10, <1>12, <2>1, <2>2
  <2>3. CASE s \in Told
    <3>1. PICK u \in Told : t[2] < u[2] /\ u[2] <= s[2] /\ changed[u] = 1
      BY <1>2, <1>3, <1>12, <2>1, <2>3 DEF AddressInv, Compared
    <3>2. u \in Told' /\ changed'[u] = 1
      BY <1>4, <1>8, <1>9, <3>1
    <3>3. QED
      BY <3>1, <3>2
  <2>4. QED
    BY <1>9, <2>2, <2>3
<1>13. QED
  BY <1>11, <1>12 DEF Compared

LEMMA ComparedStep ==
  ASSUME AddressInv, [NetworkNext]_netVars
  PROVE  Compared'
<1>a. NoneGivenUp' => NoneGivenUp
  BY GivenUpStays
<1>b. at \in [Runs -> Points] /\ seen \in [Runs -> IPs \cup {NoIP}] /\ Answered
  BY DEF AddressInv, CallInv, NetworkTypeOK
<1>1. CASE (RegistryStep \/ ClockTicks) /\ UNCHANGED <<env, fields, locals>>
  <2>1. UNCHANGED <<at, seen, lastPublicIP, changed>>
    BY <1>1 DEF RegistryStep, ClockTicks, fields, locals
  <2>2. QED
    BY <1>a, <2>1, ComparedStays DEF Told
<1>2. CASE Environment \/ UNCHANGED netVars
  <2>1. UNCHANGED <<at, seen, lastPublicIP, changed>>
    BY <1>2 DEF Environment, netVars, callVars, fields, locals
  <2>2. QED
    BY <1>a, <2>1, ComparedStays DEF Told
<1>3. ASSUME NEW r \in Runs, CollectStep(r)
      PROVE  Compared'
  <2>1. CASE ReadFails(r) \/ Returns(r)
    <3>1. UNCHANGED <<at, seen, lastPublicIP, changed>>
      BY <2>1 DEF ReadFails, Returns, CallReturns, fields, locals
    <3>2. QED
      BY <1>a, <3>1, ComparedStays DEF Told
  <2>2. CASE Compare(r)
    BY <1>a, <2>2, ComparedOfCompare
  <2>3. CASE ReadCounters(r) \/ TakeTime(r) \/ Rate(r) \/ Store(r) \/ IPFails(r) \/ IPAnswer(r)
    <3>1. /\ UNCHANGED <<lastPublicIP, changed>>
          /\ at[r] \in {"read", "now", "rate", "store", "ask"}
          /\ at'[r] = "compare" \/ (at'[r] # "return" \/ seen'[r] = seen[r])
          /\ at'[r] \in {"now", "rate", "store", "ask", "compare"} \/ seen'[r] = seen[r]
          /\ \A s \in Runs : s # r => at'[s] = at[s] /\ seen'[s] = seen[s]
      BY <1>b, <2>3 DEF ReadCounters, TakeTime, TakesTime, Rate, Store, IPFails, IPAnswer,
        Goes, GoesOn, fields, locals
    <3>2. r \notin Told /\ ~(at'[r] = "return" /\ seen'[r] # NoIP)
      BY <1>b, <3>1 DEF Told, Answered
    <3>3. QED
      BY <1>a, <3>1, <3>2, ComparedStays DEF Told
  <2>4. QED
    BY <1>3, <2>1, <2>2, <2>3 DEF CollectStep
<1>4. QED
  BY <1>1, <1>2, <1>3 DEF NetworkNext

LEMMA AddressInvAlways == SoleCollector /\ NetworkSpec => []AddressInv
<1>1. SoleCollector /\ NetworkInit => AddressInv
  <2>1. SUFFICES ASSUME SoleCollector, NetworkInit
                 PROVE  AddressInv
    OBVIOUS
  <2>2. CallInv /\ NetworkTypeOK
    BY <2>1, NetworkStarts
  <2>3. \A r \in Runs : at[r] = "read" /\ seen[r] = NoIP /\ result[r] = None
    BY <2>1 DEF NetworkInit, CallInit, FieldsInit, Init
  <2>4. QED
    BY <2>1, <2>2, <2>3 DEF AddressInv, Answered, Compared, Told, None
<1>2. AddressInv /\ [NetworkNext]_netVars => AddressInv'
  <2>1. SUFFICES ASSUME AddressInv, [NetworkNext]_netVars
                 PROVE  AddressInv'
    OBVIOUS
  <2>2. CallInv'
    BY <2>1, NetworkCallStep DEF AddressInv
  <2>3. NetworkTypeOK'
    BY <2>1, <2>2, NetworkTypeStep DEF AddressInv
  <2>4. Answered' /\ Compared'
    BY <2>1, AnsweredStep, ComparedStep
  <2>5. QED
    BY <2>1, <2>2, <2>3, <2>4 DEF AddressInv, SoleCollector
<1>3. QED
  BY <1>1, <1>2, PTL DEF NetworkSpec

\* network.go:18-19: of two different addresses that the registry has gathered, the later
\* comes with a change, or one between them does, unless an address was given up;
\* for a registry in which one collector is the network's, as NewRegistry makes it.
THEOREM ChangesAreReported ==
  ASSUME NEW CONSTANT network, Factories = {network}
  PROVE  NetworkSpec => []ChangeReported
<1>1. SoleCollector
  BY RunsArePairs DEF SoleCollector
<1>2. AddressInv => ChangeReported
  <2>1. SUFFICES ASSUME AddressInv, NEW r \in Gathered, NEW s \in Gathered, r[2] < s[2],
                        NoIP \notin {seen[r], seen[s]}, seen[r] # seen[s], NoneGivenUp
                 PROVE  \E t \in Gathered : r[2] < t[2] /\ t[2] <= s[2] /\ changed[t] = 1
    BY DEF ChangeReported, NoneGivenUp
  <2>2. r \in Told /\ s \in Told
    BY <2>1 DEF Gathered, Told, AddressInv, Answered
  <2>3. PICK t \in Told : r[2] < t[2] /\ t[2] <= s[2] /\ changed[t] = 1
    BY <2>1, <2>2 DEF AddressInv, Compared
  <2>4. t \in Gathered
    <3>1. t \in Runs /\ goroutine[t] # None /\ seen[t] # NoIP
      BY <2>1, <2>3 DEF Told, AddressInv, CallInv, Placed
    <3>2. cycle \in Nat /\ t[2] \in Nat /\ s[2] \in Nat
      BY <2>1, <2>2, <3>1, RunsArePairs, RegistryAssumption
        DEF Told, AddressInv, CallInv, RegistryInv, TypeOK
    <3>3. t[2] <= cycle /\ s[2] <= cycle
      BY <2>1, <3>1, <3>2 DEF AddressInv, CallInv, RegistryInv, Unbegun, Gathered, None
    <3>4. t = current => t = s
      <4>1. t = current => t[2] = cycle
        BY <2>1, <3>1, RunsArePairs DEF AddressInv, CallInv, RegistryInv, Stage
      <4>2. t = current => t[2] = s[2]
        BY <2>3, <3>2, <3>3, <4>1
      <4>3. QED
        BY <1>1, <2>2, <3>1, <4>2 DEF SoleCollector, Told
    <3>5. QED
      BY <2>1, <3>1, <3>3, <3>4 DEF NoneGivenUp, Abandoned
  <2>5. QED
    BY <2>3, <2>4
<1>3. QED
  BY <1>1, <1>2, AddressInvAlways, PTL

(***************************************************************************)
(* The energy collector                                                    *)
(***************************************************************************)

LEMMA EnergyCallStep ==
  ASSUME CallInv, [EnergyNext]_energyVars
  PROVE  CallInv'
<1>1. CASE RegistryStep \/ ClockTicks
  BY <1>1, CallRegistryStep, CallClockTicks
<1>2. CASE Consume \/ UNCHANGED energyVars
  BY <1>2, CallStutters DEF Consume, energyVars
<1>3. ASSUME NEW r \in Runs, DrawStep(r)
      PROVE  CallInv'
  <2>1. CASE DrawReturns(r)
    BY <2>1, CallEnds DEF DrawReturns, CallReturns, Outcomes
  <2>2. CASE ReadCounter(r)
    BY <2>2, CallGoes DEF ReadCounter, GoesOn, Points
  <2>3. CASE NoCounter(r)
    BY <2>3, CallGoes DEF NoCounter, GoesOn, Points
  <2>4. CASE NoteTime(r)
    BY <2>4, CallGoes DEF NoteTime, TakesTime, Points
  <2>5. CASE UnderLock(r)
    BY <2>5, CallGoes DEF UnderLock, Points
  <2>6. QED
    BY <1>3, <2>1, <2>2, <2>3, <2>4, <2>5 DEF DrawStep
<1>4. QED
  BY <1>1, <1>2, <1>3 DEF EnergyNext

LEMMA EnergyTypeStep ==
  ASSUME CallInv, CallInv', EnergyTypeOK, [EnergyNext]_energyVars
  PROVE  EnergyTypeOK'
<1> DEFINE Typed == /\ consumed' \in 0 .. MaxEnergy /\ prevEnergy' \in 0 .. CounterRange - 1
                    /\ energy' \in [Runs -> 0 .. CounterRange - 1]
                    /\ reported' \in [Runs -> -1 .. CounterRange - 1]
                    /\ prevTime' \in 0 .. MaxClock /\ now' \in [Runs -> 0 .. MaxClock]
<1> SUFFICES Typed
  BY DEF EnergyTypeOK, CallTypeOK, CallInv, RegistryInv
<1>a. MaxEnergy \in Nat /\ CounterRange \in Nat \ {0} /\ MaxClock \in Nat
  BY EnergyAssumption, ClockAssumption
<1> USE DEF EnergyTypeOK, CallTypeOK, rapl, Goes, GoesOn
<1>1. CASE RegistryStep /\ UNCHANGED rapl
  BY <1>1 DEF RegistryStep
<1>2. CASE ClockTicks /\ UNCHANGED rapl
  BY <1>2 DEF ClockTicks
<1>3. CASE Consume
  BY <1>3, <1>a DEF Consume, callVars
<1>4. CASE UNCHANGED energyVars
  BY <1>4 DEF energyVars, callVars
<1>5. ASSUME NEW r \in Runs, DrawStep(r)
      PROVE  Typed
  <2>1. CASE NoCounter(r) \/ DrawReturns(r)
    BY <2>1 DEF NoCounter, DrawReturns, CallReturns
  <2>2. CASE ReadCounter(r)
    <3>1. consumed % CounterRange \in 0 .. CounterRange - 1
      BY <1>a, RemainderIsLess
    <3>2. QED
      BY <2>2, <3>1 DEF ReadCounter
  <2>3. CASE NoteTime(r)
    <3>1. clock \in 0 .. MaxClock
      BY <1>a
    <3>2. QED
      BY <2>3, <3>1 DEF NoteTime, TakesTime
  <2>4. CASE UnderLock(r)
    <3> DEFINE draw == IF prevTime = 0 \/ now[r] <= prevTime THEN -1
                       ELSE IF energy[r] < prevEnergy THEN 0 ELSE energy[r] - prevEnergy
    <3>1. energy[r] \in 0 .. CounterRange - 1 /\ prevEnergy \in 0 .. CounterRange - 1
      OBVIOUS
    <3>2. draw \in -1 .. CounterRange - 1
      BY <1>a, <3>1
    <3>3. reported' = [reported EXCEPT ![r] = draw]
      BY <2>4 DEF UnderLock
    <3> HIDE DEF draw
    <3>4. reported' \in [Runs -> -1 .. CounterRange - 1]
      BY <3>2, <3>3
    <3>5. 0 \in 0 .. CounterRange - 1 /\ 0 \in 0 .. MaxClock
      BY <1>a
    <3>6. /\ energy' \in [Runs -> 0 .. CounterRange - 1] /\ now' \in [Runs -> 0 .. MaxClock]
          /\ consumed' = consumed
      BY <2>4, <3>5 DEF UnderLock
    <3>7. prevEnergy' \in 0 .. CounterRange - 1 /\ prevTime' \in 0 .. MaxClock
      BY <2>4, <3>1 DEF UnderLock
    <3>8. QED
      BY <3>4, <3>6, <3>7
  <2>5. QED
    BY <1>5, <2>1, <2>2, <2>3, <2>4 DEF DrawStep
<1>6. QED
  BY <1>1, <1>2, <1>3, <1>4, <1>5 DEF EnergyNext

LEMMA EnergyStarts ==
  ASSUME EnergyInit
  PROVE  CallInv /\ EnergyTypeOK
<1>1. CallInv
  BY CallStarts DEF EnergyInit
<1>2. /\ 0 \in 0 .. MaxEnergy /\ 0 \in 0 .. CounterRange - 1 /\ 0 \in 0 .. MaxClock
      /\ -1 \in -1 .. CounterRange - 1
  BY EnergyAssumption, ClockAssumption
<1>3. CallTypeOK
  BY <1>1, <1>2 DEF EnergyInit, CallInit, CallTypeOK, CallInv, RegistryInv
<1>4. QED
  BY <1>1, <1>2, <1>3 DEF EnergyInit, RaplInit, EnergyTypeOK

LEMMA EnergyTypedAlways == EnergySpec => [](CallInv /\ EnergyTypeOK)
BY EnergyStarts, EnergyCallStep, EnergyTypeStep, PTL DEF EnergySpec

\* energy_linux.go:46: in particular no draw that is reported is negative.
THEOREM EnergyTypeCorrect == EnergySpec => []EnergyTypeOK
BY EnergyTypedAlways, PTL

----------------------------------------------------------------------------
\* The energy that the draws reported account for

\* A call that has not taken the lock has reported nothing.
NoDrawYet == \A r \in Runs : at[r] \in {"read", "now", "lock"} => reported[r] = -1

\* What has been reported is within the energy p that had been consumed when the
\* baseline was read, and the call under way has read its own after that.
Drawn ==
  ~overlapped =>
    \E p \in 0 .. consumed :
      /\ p % CounterRange = prevEnergy /\ EnergyReported <= p
      /\ \A r \in Runs : at[r] \in {"now", "lock"} =>
           \E q \in p .. consumed : q % CounterRange = energy[r]

DrawInv == CallInv /\ EnergyTypeOK /\ NoDrawYet /\ Drawn

\* The part of the sum that is run r's
Share(n) == IF n = -1 THEN 0 ELSE n

LEMMA EnergyIsInt ==
  ASSUME EnergyTypeOK
  PROVE  EnergyReported \in Int
<1>1. CASE Runs = {}
  <2>1. [r \in Runs |-> IF reported[r] = -1 THEN 0 ELSE reported[r]] = [r \in Runs |-> 0]
    BY <1>1
  <2>2. QED
    BY <2>1, RunsAreFinite, SumOfZeros DEF EnergyReported
<1>2. ASSUME NEW r \in Runs
      PROVE  EnergyReported \in Int
  <2> DEFINE g == [s \in Runs |-> IF reported[s] = -1 THEN 0 ELSE reported[s]]
  <2>1. g \in [Runs -> Int]
    BY EnergyAssumption DEF EnergyTypeOK
  <2> HIDE DEF g
  <2>2. SumFunction(g) \in Int
    BY <2>1, RunsAreFinite, SumOfExcept
  <2>3. QED
    BY <2>2 DEF g, EnergyReported
<1>3. QED
  BY <1>1, <1>2

LEMMA EnergyIsAdded ==
  ASSUME EnergyTypeOK, NEW r \in Runs, NEW n \in Int,
         reported[r] = -1, reported' = [reported EXCEPT ![r] = n]
  PROVE  EnergyReported' = EnergyReported + Share(n)
<1> DEFINE g == [s \in Runs |-> IF reported[s] = -1 THEN 0 ELSE reported[s]]
           h == [s \in Runs |-> IF reported'[s] = -1 THEN 0 ELSE reported'[s]]
<1>1. g \in [Runs -> Int] /\ Share(n) \in Int
  BY EnergyAssumption DEF EnergyTypeOK, Share
<1>2. g[r] = 0 /\ h = [g EXCEPT ![r] = Share(n)]
  <2>1. DOMAIN reported = Runs
    BY DEF EnergyTypeOK
  <2>2. \A s \in Runs : h[s] = IF s = r THEN Share(n) ELSE g[s]
    BY <2>1 DEF Share
  <2>3. h = [g EXCEPT ![r] = Share(n)]
    BY <2>2
  <2>4. QED
    BY <2>3
<1>3. EnergyReported = SumFunction(g) /\ EnergyReported' = SumFunction(h)
  BY DEF EnergyReported
<1> HIDE DEF g, h
<1>4. SumFunction(h) = SumFunction(g) + Share(n) - g[r] /\ SumFunction(g) \in Int
  BY <1>1, <1>2, RunsAreFinite, SumOfExcept
<1>5. QED
  BY <1>1, <1>2, <1>3, <1>4

LEMMA DrawnStarts ==
  ASSUME EnergyInit
  PROVE  NoDrawYet /\ Drawn
<1>1. NoDrawYet
  BY DEF EnergyInit, RaplInit, NoDrawYet
<1>2. EnergyReported = 0
  <2>1. [r \in Runs |-> IF reported[r] = -1 THEN 0 ELSE reported[r]] = [r \in Runs |-> 0]
    BY DEF EnergyInit, RaplInit
  <2>2. QED
    BY <2>1, RunsAreFinite, SumOfZeros DEF EnergyReported
<1>3. consumed = 0 /\ prevEnergy = 0 /\ \A r \in Runs : at[r] = "read"
  BY DEF EnergyInit, RaplInit, CallInit
<1>4. 0 % CounterRange = 0
  <2>1. \A k \in Nat \ {0} : 0 % k = 0
    OBVIOUS
  <2>2. QED
    BY <2>1, EnergyAssumption
<1>5. QED
  BY <1>1, <1>2, <1>3, <1>4 DEF Drawn

\* Steps that only go from one point to another or consume, and those of the
\* registry
LEMMA DrawnStays ==
  ASSUME NoDrawYet, Drawn, UNCHANGED <<prevEnergy, energy, reported>>,
         consumed \in Nat, consumed' \in Nat, consumed <= consumed', overlapped => overlapped',
         \A r \in Runs :
           \/ at'[r] = at[r]
           \/ at[r] = "now" /\ at'[r] = "lock"
           \/ at'[r] = "return"
  PROVE  (NoDrawYet /\ Drawn)'
<1>1. EnergyReported' = EnergyReported
  BY DEF EnergyReported
<1>2. NoDrawYet'
  BY DEF NoDrawYet
<1>3. SUFFICES ASSUME ~overlapped'
               PROVE  Drawn'
  BY <1>2 DEF Drawn
<1>4. PICK p \in 0 .. consumed :
        /\ p % CounterRange = prevEnergy /\ EnergyReported <= p
        /\ \A r \in Runs : at[r] \in {"now", "lock"} =>
             \E q \in p .. consumed : q % CounterRange = energy[r]
  BY <1>3 DEF Drawn
<1>5. p \in 0 .. consumed' /\ \A q \in p .. consumed : q \in p .. consumed'
  OBVIOUS
<1>6. ASSUME NEW r \in Runs, at'[r] \in {"now", "lock"}
      PROVE  \E q \in p .. consumed' : q % CounterRange = energy'[r]
  <2>1. at[r] \in {"now", "lock"}
    BY <1>6
  <2>2. PICK q \in p .. consumed : q % CounterRange = energy[r]
    BY <1>4, <2>1
  <2>3. QED
    BY <1>5, <2>2
<1>7. p % CounterRange = prevEnergy' /\ EnergyReported' <= p
  BY <1>1, <1>4
<1>8. QED
  BY <1>5, <1>6, <1>7 DEF Drawn

LEMMA DrawnOfRead ==
  ASSUME DrawInv, NEW r \in Runs, ReadCounter(r)
  PROVE  (NoDrawYet /\ Drawn)'
<1>1. /\ EnergyReported' = EnergyReported /\ goroutine[r] = "collect" /\ at[r] = "read"
      /\ UNCHANGED <<consumed, prevEnergy, reported, overlapped>>
  BY DEF ReadCounter, GoesOn, Goes, EnergyReported
<1>2. /\ at'[r] = "now" /\ energy'[r] = consumed % CounterRange
      /\ \A s \in Runs : s # r => at'[s] = at[s] /\ energy'[s] = energy[s]
  BY DEF ReadCounter, GoesOn, Goes, DrawInv, CallInv, EnergyTypeOK
<1>3. NoDrawYet'
  BY <1>1, <1>2 DEF NoDrawYet, DrawInv
<1>4. SUFFICES ASSUME ~overlapped'
               PROVE  Drawn'
  BY <1>3 DEF Drawn
<1>5. \A s \in Runs : s # r => at[s] \in {"read", "return"}
  BY <1>1, <1>4, OnlyOneMeters DEF DrawInv
<1>6. PICK p \in 0 .. consumed : p % CounterRange = prevEnergy /\ EnergyReported <= p
  BY <1>1, <1>4 DEF DrawInv, Drawn
<1>7. consumed \in p .. consumed
  BY EnergyAssumption DEF DrawInv, EnergyTypeOK
<1>8. \A s \in Runs : at'[s] \in {"now", "lock"} =>
        \E q \in p .. consumed' : q % CounterRange = energy'[s]
  BY <1>1, <1>2, <1>5, <1>7
<1>9. QED
  BY <1>1, <1>6, <1>8 DEF Drawn

\* The draw since the baseline is no more than the energy between the two readings.
LEMMA DrawnOfLock ==
  ASSUME DrawInv, NEW r \in Runs, UnderLock(r)
  PROVE  (NoDrawYet /\ Drawn)'
<1> DEFINE draw == IF prevTime = 0 \/ now[r] <= prevTime THEN -1
                   ELSE IF energy[r] < prevEnergy THEN 0 ELSE energy[r] - prevEnergy
<1>1. /\ goroutine[r] = "collect" /\ at[r] = "lock" /\ UNCHANGED <<consumed, overlapped>>
      /\ reported' = [reported EXCEPT ![r] = draw]
      /\ \/ prevEnergy' = energy[r]
         \/ ~(prevTime = 0 \/ now[r] > prevTime) /\ prevEnergy' = prevEnergy
  BY DEF UnderLock, Goes
<1>2. /\ at'[r] = "return" /\ \A s \in Runs : s # r => at'[s] = at[s]
      /\ \A s \in Runs : s # r => reported'[s] = reported[s]
  BY DEF UnderLock, Goes, DrawInv, CallInv, EnergyTypeOK
<1>3. NoDrawYet'
  BY <1>2 DEF NoDrawYet, DrawInv
<1>4. SUFFICES ASSUME ~overlapped'
               PROVE  Drawn'
  BY <1>3 DEF Drawn
<1>5. \A s \in Runs : s # r => at[s] \in {"read", "return"}
  BY <1>1, <1>4, OnlyOneMeters DEF DrawInv
<1>6. \A s \in Runs : at'[s] \notin {"now", "lock"}
  BY <1>2, <1>5
<1>7. PICK p \in 0 .. consumed :
        /\ p % CounterRange = prevEnergy /\ EnergyReported <= p
        /\ \E q \in p .. consumed : q % CounterRange = energy[r]
  BY <1>1, <1>4 DEF DrawInv, Drawn
<1>8. PICK q \in p .. consumed : q % CounterRange = energy[r]
  BY <1>7
<1>9. /\ consumed \in Nat /\ CounterRange \in Nat \ {0} /\ p \in Nat /\ q \in Nat /\ p <= q
      /\ energy[r] \in Nat /\ prevEnergy \in Nat /\ q \in 0 .. consumed
      /\ prevTime \in Nat /\ now[r] \in Nat
  BY EnergyAssumption, ClockAssumption DEF DrawInv, EnergyTypeOK, CallTypeOK
<1>10. draw \in Int /\ Share(draw) \in Nat /\ Share(draw) <= q - p
  <2>1. energy[r] >= prevEnergy => energy[r] - prevEnergy <= q - p
    <3>1. p % CounterRange <= q % CounterRange =>
            (q % CounterRange) - (p % CounterRange) <= q - p
      BY <1>9, RemaindersApart
    <3>2. QED
      BY <1>7, <1>8, <1>9, <3>1
  <2>2. QED
    BY <1>9, <2>1 DEF Share
<1>11. EnergyReported' = EnergyReported + Share(draw) /\ EnergyReported \in Int
  <2>1. reported[r] = -1 /\ EnergyTypeOK
    BY <1>1 DEF DrawInv, NoDrawYet
  <2> HIDE DEF draw
  <2>2. QED
    BY <1>1, <1>10, <2>1, EnergyIsAdded, EnergyIsInt
<1>12. CASE prevEnergy' = energy[r]
  <2>1. q % CounterRange = prevEnergy' /\ q \in 0 .. consumed'
    BY <1>1, <1>8, <1>9, <1>12
  <2> HIDE DEF draw
  <2>2. EnergyReported' <= q
    BY <1>7, <1>9, <1>10, <1>11
  <2>3. QED
    BY <1>6, <2>1, <2>2 DEF Drawn
<1>13. CASE ~(prevTime = 0 \/ now[r] > prevTime) /\ prevEnergy' = prevEnergy
  <2>1. Share(draw) = 0
    BY <1>9, <1>13 DEF Share
  <2>2. p % CounterRange = prevEnergy' /\ p \in 0 .. consumed'
    BY <1>1, <1>7, <1>13
  <2> HIDE DEF draw
  <2>3. EnergyReported' <= p
    BY <1>7, <1>9, <1>11, <2>1
  <2>4. QED
    BY <1>6, <2>2, <2>3 DEF Drawn
<1>14. QED
  BY <1>1, <1>12, <1>13

LEMMA DrawnStep ==
  ASSUME DrawInv, EnergyTypeOK', [EnergyNext]_energyVars
  PROVE  (NoDrawYet /\ Drawn)'
<1>a. NoDrawYet /\ Drawn /\ at \in [Runs -> Points]
  BY DEF DrawInv, CallInv
<1>b. consumed \in Nat /\ consumed' \in Nat
  BY EnergyAssumption DEF DrawInv, EnergyTypeOK
<1>1. CASE (RegistryStep \/ ClockTicks) /\ UNCHANGED rapl
  <2>1. UNCHANGED <<consumed, prevEnergy, energy, reported, at>>
    BY <1>1 DEF rapl, RegistryStep, ClockTicks
  <2>2. overlapped => overlapped'
    BY <1>1, Zenon DEF RegistryStep, ClockTicks
  <2>3. QED
    BY <1>a, <1>b, <2>1, <2>2, DrawnStays
<1>2. CASE Consume \/ UNCHANGED energyVars
  <2>1. UNCHANGED <<prevEnergy, energy, reported, at, overlapped>> /\ consumed <= consumed'
    BY <1>2, <1>b DEF Consume, energyVars, callVars, rapl
  <2>2. QED
    BY <1>a, <1>b, <2>1, DrawnStays
<1>3. ASSUME NEW r \in Runs, DrawStep(r)
      PROVE  (NoDrawYet /\ Drawn)'
  <2>1. CASE NoCounter(r) \/ NoteTime(r) \/ DrawReturns(r)
    <3>1. UNCHANGED <<consumed, prevEnergy, energy, reported, overlapped>>
      BY <2>1 DEF NoCounter, NoteTime, DrawReturns, TakesTime, CallReturns, Goes, GoesOn, rapl
    <3>2. \A s \in Runs :
            at'[s] = at[s] \/ (at[s] = "now" /\ at'[s] = "lock") \/ at'[s] = "return"
      BY <1>a, <2>1 DEF NoCounter, NoteTime, DrawReturns, TakesTime, CallReturns, Goes, GoesOn
    <3>3. QED
      BY <1>a, <1>b, <3>1, <3>2, DrawnStays
  <2>2. CASE ReadCounter(r) \/ UnderLock(r)
    BY <2>2, DrawnOfRead, DrawnOfLock
  <2>3. QED
    BY <1>3, <2>1, <2>2 DEF DrawStep
<1>4. QED
  BY <1>1, <1>2, <1>3 DEF EnergyNext

LEMMA DrawInvAlways == EnergySpec => []DrawInv
<1>1. EnergyInit => DrawInv
  BY EnergyStarts, DrawnStarts DEF DrawInv
<1>2. DrawInv /\ [EnergyNext]_energyVars => DrawInv'
  <2>1. SUFFICES ASSUME DrawInv, [EnergyNext]_energyVars
                 PROVE  DrawInv'
    OBVIOUS
  <2>2. CallInv'
    BY <2>1, EnergyCallStep DEF DrawInv
  <2>3. EnergyTypeOK'
    BY <2>1, <2>2, EnergyTypeStep DEF DrawInv
  <2>4. QED
    BY <2>1, <2>2, <2>3, DrawnStep DEF DrawInv
<1>3. QED
  BY <1>1, <1>2, PTL DEF EnergySpec

\* energy.go:17-18: the draws reported account for no more energy than was consumed,
\* however often the counter wraps around, as long as no two Collect calls overlap.
THEOREM DrawsCountedOnce == EnergySpec => []EnergyCountedOnce
<1>1. DrawInv => EnergyCountedOnce
  <2>1. SUFFICES ASSUME DrawInv, ~overlapped
                 PROVE  EnergyReported <= consumed
    BY DEF EnergyCountedOnce
  <2>2. PICK p \in 0 .. consumed : EnergyReported <= p
    BY <2>1 DEF DrawInv, Drawn
  <2>3. EnergyReported \in Int /\ consumed \in Nat
    BY <2>1, EnergyIsInt, EnergyAssumption DEF DrawInv, EnergyTypeOK
  <2>4. QED
    BY <2>2, <2>3
<1>2. QED
  BY <1>1, DrawInvAlways, PTL

(***************************************************************************)
(* A registry with either collector, as the runs check it.                 *)
(***************************************************************************)

\* network.go:63-80, energy_linux.go:46: whichever of the two collectors it is, no
\* rate is over a time of zero and no draw is negative, for any values of their parameters;
\* the runs' bounds are guards, which only leave out steps.
THEOREM MetersTypeCorrect == MCSpec => []MetersTypeOK
<1> DEFINE Inv == CallInv /\ NetworkTypeOK /\ EnergyTypeOK
<1>1. MCInit => Inv
  BY NetworkStarts, EnergyStarts DEF MCInit
<1>2. Inv /\ [MCNext]_<<netVars, rapl, isNetwork>> => Inv'
  <2>1. SUFFICES ASSUME Inv, [MCNext]_<<netVars, rapl, isNetwork>>
                 PROVE  Inv'
    OBVIOUS
  <2>2. CASE MCNetworkNext
    <3>1. NetworkNext /\ UNCHANGED rapl
      BY <2>2 DEF MCNetworkNext
    <3>2. CallInv'
      BY <2>1, <3>1, NetworkCallStep
    <3>3. NetworkTypeOK'
      BY <2>1, <3>1, <3>2, NetworkTypeStep
    <3>4. EnergyTypeOK'
      BY <2>1, <3>1, <3>3 DEF EnergyTypeOK, NetworkTypeOK, rapl
    <3>5. QED
      BY <3>2, <3>3, <3>4
  <2>3. CASE MCEnergyNext
    <3>1. EnergyNext /\ UNCHANGED <<env, fields, locals>>
      BY <2>3 DEF MCEnergyNext
    <3>2. CallInv'
      BY <2>1, <3>1, EnergyCallStep
    <3>3. EnergyTypeOK'
      BY <2>1, <3>1, <3>2, EnergyTypeStep
    <3>4. NetworkTypeOK'
      BY <2>1, <3>1, <3>3 DEF EnergyTypeOK, NetworkTypeOK, env, fields, locals
    <3>5. QED
      BY <3>2, <3>3, <3>4
  <2>4. CASE UNCHANGED <<netVars, rapl, isNetwork>>
    <3>1. CallInv'
      BY <2>1, <2>4, NetworkCallStep
    <3>2. NetworkTypeOK'
      BY <2>1, <2>4, <3>1, NetworkTypeStep
    <3>3. EnergyTypeOK'
      BY <2>1, <2>4, <3>2 DEF EnergyTypeOK, NetworkTypeOK, rapl
    <3>4. QED
      BY <3>1, <3>2, <3>3
  <2>5. QED
    BY <2>1, <2>2, <2>3, <2>4 DEF MCNext
<1>3. Inv => MetersTypeOK
  BY DEF MetersTypeOK
<1>4. QED
  BY <1>1, <1>2, <1>3, PTL DEF MCSpec
=============================================================================
