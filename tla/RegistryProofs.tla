--------------------------- MODULE RegistryProofs ---------------------------
(***************************************************************************)
(* Proofs about the registry and the heartbeats, for any collectors,       *)
(* metrics, cap, configurations and number of cycles, whatever the         *)
(* collectors return and when.                                             *)
(***************************************************************************)
EXTENDS RegistryProps, HeartbeatProps, Induction, SequenceTheorems, TLAPS

----------------------------------------------------------------------------
\* Runs as pairs

LEMMA RunsArePairs ==
  /\ \A r \in Runs : r = <<r[1], r[2]>> /\ r[1] \in Factories /\ r[2] \in Nat
  /\ \A r, s \in Runs : r[1] = s[1] /\ r[2] = s[2] => r = s
  /\ \A c \in Factories : cycle \in Cycles => <<c, cycle>> \in Runs
  /\ NoRun \notin Runs
BY RegistryAssumption DEF Runs, Cycles, NoRun

----------------------------------------------------------------------------
\* The inductive invariant

\* Where the loop is: the run that is waited for is of this cycle, and its turn
\* has come; the registry has what the configuration enables.
Stage ==
  /\ pc = "wait" =>
       /\ current \in Runs /\ current[1] \in collectors /\ current[2] = cycle
       /\ current[1] \notin todo /\ goroutine[current] # None
  /\ pc # "wait" => current = NoRun
  /\ pc \in {"loop", "wait"} => cycle \in Cycles
  /\ pc \in {"new", "refused"} => cycle = 0 /\ todo = {} /\ failed = {}
  /\ pc \in {"idle", "loop", "wait"} => collectors = enabled

\* A run whose turn has not come has no goroutine; one whose method has not
\* returned has no result.
Unbegun ==
  \A r \in Runs :
    /\ r[2] > cycle \/ (r[2] = cycle /\ r[1] \in todo) => goroutine[r] = None
    /\ goroutine[r] \in {None, "collect"} => result[r] = None

\* A channel holds what its run's Collect method returned.
Channels ==
  \A r \in Runs : chan[r] # None => goroutine[r] = "ended" /\ chan[r] = result[r]

\* The metrics gathered are of runs that are over, and each at most once.
Collected ==
  /\ \A i \in DOMAIN all :
       all[i] \in Done /\ goroutine[all[i]] = "ended" /\ result[all[i]] = "metrics"
  /\ \A i, j \in DOMAIN all : all[i] = all[j] => i = j

\* The context of the run that is waited for
WaitedFor ==
  current # NoRun =>
    /\ cctx[current] \in {"live", "canceled", "deadline"}
    /\ cctx[current] = "canceled" => ctxDone

\* How a run that is over was accounted for; what that rests on stays as it is.
Counted ==
  /\ \A c \in failed : <<c, cycle>> \in Done
  /\ \A r \in Done :
       \/ r \in Range(all) /\ r[1] \notin failed
       \/ /\ r \notin Range(all) /\ r[1] \in failed
          /\ (result[r] = "error" /\ goroutine[r] = "ended") \/ cctx[r] = "deadline"
       \/ /\ r \notin Range(all) /\ r[1] \notin failed
          /\ \/ result[r] \in {"nodata", "canceled"} /\ goroutine[r] = "ended"
             \/ ctxDone

RegistryInv == TypeOK /\ Stage /\ Unbegun /\ Channels /\ Collected /\ WaitedFor /\ Counted

\* Until NewRegistry has succeeded no cycle has begun; after that, what is enabled
\* has a factory.
LEMMA DoneAreRuns == TypeOK /\ Stage => Done \subseteq Runs
<1> SUFFICES ASSUME TypeOK, Stage PROVE Done \subseteq Runs
  OBVIOUS
<1>1. CASE pc \in {"new", "refused"}
  BY <1>1, RegistryAssumption DEF Stage, Done, Cycles
<1>2. CASE pc \in {"idle", "loop", "wait"}
  BY <1>2 DEF TypeOK, Stage, Done, Runs
<1>3. QED
  BY <1>1, <1>2 DEF TypeOK

LEMMA RegistryStarts == Init => RegistryInv
<1> SUFFICES ASSUME Init PROVE RegistryInv
  OBVIOUS
<1>1. TypeOK
  <2>1. all \in Seq(Runs)
    BY DEF Init
  <2>2. enabled \subseteq Names /\ cycle \in 0 .. MaxCycles
    BY RegistryAssumption DEF Init
  <2>3. QED
    BY <2>1, <2>2 DEF Init, TypeOK
<1>2. Done = {}
  BY RegistryAssumption DEF Init, Done, Cycles
<1>3. Stage /\ Unbegun /\ Channels /\ Collected /\ WaitedFor
  BY DEF Init, Stage, Unbegun, Channels, Collected, WaitedFor
<1>4. Counted
  BY <1>2 DEF Init, Counted
<1>5. QED
  BY <1>1, <1>3, <1>4 DEF RegistryInv

----------------------------------------------------------------------------
\* NewRegistry, and the beginning and the end of a cycle

\* registry.go:43-67
LEMMA NewRegistryStep ==
  ASSUME RegistryInv, NewRegistry
  PROVE  RegistryInv'
<1>1. TypeOK'
  BY DEF RegistryInv, TypeOK, Stage, NewRegistry, runVars
<1>2. cycle = 0 /\ cycle' = 0 /\ Done = {} /\ Done' = {}
  BY RegistryAssumption DEF RegistryInv, Stage, NewRegistry, Done, Cycles
<1>3. Stage'
  BY DEF RegistryInv, Stage, NewRegistry
<1>4. Unbegun' /\ Channels' /\ WaitedFor'
  BY DEF RegistryInv, Unbegun, Channels, WaitedFor, NewRegistry, runVars
<1>5. Collected' /\ Counted'
  BY <1>2 DEF RegistryInv, Collected, Counted, NewRegistry, runVars
<1>6. QED
  BY <1>1, <1>3, <1>4, <1>5 DEF RegistryInv

\* registry.go:87-90
LEMMA StartCycleStep ==
  ASSUME RegistryInv, StartCycle
  PROVE  RegistryInv'
<1>1. TypeOK'
  BY RegistryAssumption DEF RegistryInv, TypeOK, StartCycle, setup, runVars
<1>2. Stage'
  BY RegistryAssumption DEF RegistryInv, TypeOK, Stage, StartCycle, setup, runVars, Cycles
<1>3. Done' = {}
  BY DEF RegistryInv, Stage, StartCycle, Done, setup
<1>4. Unbegun'
  BY RunsArePairs DEF RegistryInv, TypeOK, Cycles, Unbegun, StartCycle, runVars
<1>5. Channels' /\ WaitedFor'
  BY DEF RegistryInv, Channels, WaitedFor, StartCycle, runVars
<1>6. Collected' /\ Counted'
  BY <1>3 DEF RegistryInv, Collected, Counted, StartCycle
<1>7. QED
  BY <1>1, <1>2, <1>4, <1>5, <1>6 DEF RegistryInv

\* registry.go:113
LEMMA FinishCycleStep ==
  ASSUME RegistryInv, FinishCycle
  PROVE  RegistryInv'
<1>1. TypeOK' /\ Stage'
  BY DEF RegistryInv, TypeOK, Stage, FinishCycle, setup, runVars
<1>2. Done' = Done
  BY DEF FinishCycle, Done, setup
<1>3. QED
  BY <1>1, <1>2 DEF RegistryInv, Unbegun, Channels, Collected, WaitedFor, Counted,
                    FinishCycle, setup, runVars

----------------------------------------------------------------------------
\* runCollector

\* registry.go:90-104, 120-132
LEMMA RunCollectorStep ==
  ASSUME RegistryInv, NEW c \in Factories, RunCollector(c)
  PROVE  RegistryInv'
<1>1. /\ <<c, cycle>> \in Runs /\ current' = <<c, cycle>> /\ current = NoRun
      /\ c \in todo /\ c \in collectors /\ collectors = enabled /\ todo' = todo \ {c}
      /\ goroutine[<<c, cycle>>] = None /\ result[<<c, cycle>>] = None
  BY RunsArePairs DEF RegistryInv, TypeOK, Stage, Unbegun, RunCollector
<1>2. TypeOK'
  BY <1>1 DEF RegistryInv, TypeOK, RunCollector, setup
<1>3. Stage'
  BY <1>1 DEF RegistryInv, TypeOK, Stage, RunCollector, setup, None, NoRun
<1>4. Done' = Done /\ <<c, cycle>> \notin Done
  <2>1. /\ enabled' = enabled /\ cycle' = cycle /\ NoRun \notin enabled \X Cycles
        /\ Done = {r \in enabled \X Cycles : r[2] = cycle /\ r[1] \notin todo}
    BY <1>1 DEF RunCollector, setup, Done, NoRun
  <2>2. Done' = {r \in enabled \X Cycles : r[2] = cycle /\ r[1] \notin todo \ {c}}
                  \ {<<c, cycle>>}
    BY <1>1, <2>1 DEF Done
  <2>3. ASSUME NEW r \in enabled \X Cycles, r[2] = cycle
        PROVE  r[1] = c <=> r = <<c, cycle>>
    BY <2>3
  <2>4. QED
    BY <1>1, <2>1, <2>2, <2>3
<1>5. Unbegun'
  BY <1>1, RunsArePairs
     DEF RegistryInv, TypeOK, Stage, Unbegun, RunCollector
<1>6. Channels'
  BY <1>1 DEF RegistryInv, TypeOK, Channels, RunCollector, None
<1>7. \A r \in Done : goroutine'[r] = goroutine[r] /\ cctx'[r] = cctx[r]
  BY <1>1, <1>4, DoneAreRuns DEF RegistryInv, TypeOK, RunCollector
<1>8. Collected' /\ WaitedFor'
  BY <1>1, <1>4, <1>7 DEF RegistryInv, TypeOK, Collected, WaitedFor, RunCollector, None
<1>9. Counted'
  BY <1>4, <1>7 DEF RegistryInv, Counted, RunCollector
<1>10. QED
  BY <1>2, <1>3, <1>5, <1>6, <1>8, <1>9 DEF RegistryInv

\* registry.go:91-107, 134-139: what Collect makes of what runCollector returns
LEMMA ReturnStep ==
  ASSUME RegistryInv, pc = "wait", NEW outcome, Account(outcome), Return,
         chan' = chan \/ chan' = [chan EXCEPT ![current] = None],
         \/ outcome \in Outcomes /\ result[current] = outcome /\ goroutine[current] = "ended"
         \/ outcome = "deadline" /\ cctx[current] = "deadline"
         \/ outcome = "canceled" /\ ctxDone
  PROVE  RegistryInv'
<1>1. /\ current \in Runs /\ current[1] \in collectors /\ current[2] = cycle
      /\ current[1] \notin todo /\ collectors = enabled /\ cycle \in Cycles
      /\ current' = NoRun /\ current = <<current[1], cycle>>
  BY RunsArePairs DEF RegistryInv, Stage, Return
<1>2. /\ cctx' \in [Runs -> {None, "live", "canceled", "deadline"}]
      /\ \A r \in Runs : cctx[r] = "deadline" => cctx'[r] = "deadline"
  BY <1>1 DEF RegistryInv, TypeOK, Return
<1>3. TypeOK'
  <2>1. all' \in Seq(Runs) /\ failed' \subseteq collectors
    BY <1>1 DEF RegistryInv, TypeOK, Account
  <2>2. chan' \in [Runs -> Outcomes \cup {None}]
    BY DEF RegistryInv, TypeOK
  <2>3. QED
    BY <1>2, <2>1, <2>2 DEF RegistryInv, TypeOK, Return, setup
<1>4. Stage'
  BY <1>1 DEF RegistryInv, Stage, Return, setup
<1>5. Done' = Done \cup {current} /\ current \notin Done /\ Done \subseteq Runs
  <2>1. current \in enabled \X Cycles
    BY <1>1
  <2>2. NoRun \notin enabled \X Cycles
    BY DEF NoRun
  <2>3. Done \subseteq Runs
    BY DoneAreRuns DEF RegistryInv
  <2>4. QED
    BY <1>1, <2>1, <2>2, <2>3 DEF Done, Return, setup
<1>6. current \notin Range(all) /\ current[1] \notin failed
  BY <1>1, <1>5 DEF RegistryInv, Collected, Counted, Range
<1>7. Unbegun' /\ WaitedFor'
  BY <1>1 DEF RegistryInv, Unbegun, WaitedFor, Return, setup
<1>8. Channels'
  BY <1>1 DEF RegistryInv, TypeOK, Channels, Return
<1>9. Collected' /\ Range(all') = IF outcome = "metrics" THEN Range(all) \cup {current}
                                 ELSE Range(all)
  <2>1. CASE outcome = "metrics"
    <3>1. all' = Append(all, current) /\ all \in Seq(Runs) /\ Len(all) \in Nat
      BY <2>1 DEF Account, RegistryInv, TypeOK
    <3>2. /\ DOMAIN all = 1 .. Len(all) /\ DOMAIN all' = 1 .. Len(all) + 1
          /\ \A i \in 1 .. Len(all) : all'[i] = all[i]
          /\ all'[Len(all) + 1] = current
      BY <1>1, <3>1
    <3>3. Range(all') = Range(all) \cup {current}
      BY <3>1, <3>2 DEF Range
    <3>4. \A i \in DOMAIN all : all[i] \in Range(all)
      BY DEF Range
    <3>5. ASSUME NEW i \in DOMAIN all'
          PROVE  all'[i] \in Done' /\ goroutine'[all'[i]] = "ended" /\ result'[all'[i]] = "metrics"
      <4>1. CASE i \in DOMAIN all
        BY <1>5, <3>2, <4>1 DEF RegistryInv, Collected, Return
      <4>2. CASE i = Len(all) + 1
        BY <1>5, <2>1, <3>2, <4>2 DEF Return
      <4>3. QED
        BY <3>1, <3>2, <4>1, <4>2
    <3>6. ASSUME NEW i \in DOMAIN all', NEW j \in DOMAIN all', all'[i] = all'[j]
          PROVE  i = j
      <4>1. CASE i \in DOMAIN all /\ j \in DOMAIN all
        BY <3>2, <3>6, <4>1 DEF RegistryInv, Collected
      <4>2. CASE i = Len(all) + 1 \/ j = Len(all) + 1
        BY <1>6, <3>1, <3>2, <3>4, <3>6, <4>2
      <4>3. QED
        BY <3>1, <3>2, <4>1, <4>2
    <3>7. QED
      BY <2>1, <3>3, <3>5, <3>6 DEF Collected
  <2>2. CASE outcome # "metrics"
    BY <1>5, <2>2 DEF Account, RegistryInv, Collected, Return
  <2>3. QED
    BY <2>1, <2>2
<1>10. Counted'
  <2>1. failed' = IF outcome \in {"error", "deadline"} THEN failed \cup {current[1]} ELSE failed
    BY DEF Account
  <2>2. \A c \in failed' : <<c, cycle'>> \in Done'
    BY <1>1, <1>5, <2>1 DEF RegistryInv, Counted, Return
  <2>3. ASSUME NEW r \in Done
        PROVE  /\ r[1] # current[1] /\ r # current
               /\ goroutine'[r] = goroutine[r] /\ result'[r] = result[r]
               /\ cctx[r] = "deadline" => cctx'[r] = "deadline"
    <3>1. r \in Runs /\ r[2] = cycle /\ r # current
      BY <1>5 DEF Done
    <3>2. QED
      BY <1>1, <1>2, <3>1, RunsArePairs DEF Return
  <2>4. ASSUME NEW r \in Done'
        PROVE  \/ r \in Range(all') /\ r[1] \notin failed'
               \/ /\ r \notin Range(all') /\ r[1] \in failed'
                  /\ (result'[r] = "error" /\ goroutine'[r] = "ended") \/ cctx'[r] = "deadline"
               \/ /\ r \notin Range(all') /\ r[1] \notin failed'
                  /\ \/ result'[r] \in {"nodata", "canceled"} /\ goroutine'[r] = "ended"
                     \/ ctxDone'
    <3>1. CASE r \in Done
      BY <1>9, <2>1, <2>3, <3>1 DEF RegistryInv, Counted, Return
    <3>2. CASE r = current
      BY <1>1, <1>2, <1>6, <1>9, <2>1, <3>2 DEF Return, Outcomes
    <3>3. QED
      BY <1>5, <3>1, <3>2
  <2>5. QED
    BY <2>2, <2>4 DEF Counted
<1>11. QED
  BY <1>3, <1>4, <1>7, <1>8, <1>9, <1>10 DEF RegistryInv

\* registry.go:134-136
LEMMA TakeResultStep ==
  ASSUME RegistryInv, TakeResult
  PROVE  RegistryInv'
<1>1. /\ pc = "wait" /\ current \in Runs /\ current # NoRun /\ chan[current] # None
      /\ Account(chan[current]) /\ Return
      /\ chan' = [chan EXCEPT ![current] = None]
  BY RunsArePairs DEF RegistryInv, Stage, TakeResult, ReadFrom
<1>2. /\ chan[current] \in Outcomes
      /\ goroutine[current] = "ended" /\ chan[current] = result[current]
  BY <1>1 DEF RegistryInv, TypeOK, Channels
<1>3. QED
  BY <1>1, <1>2, ReturnStep

\* registry.go:137-138
LEMMA GiveUpStep ==
  ASSUME RegistryInv, GiveUp
  PROVE  RegistryInv'
<1>1. /\ pc = "wait" /\ current # NoRun
      /\ cctx[current] \in {"canceled", "deadline"}
      /\ Account(cctx[current]) /\ Return /\ chan' = chan
  BY RunsArePairs DEF RegistryInv, Stage, WaitedFor, GiveUp
<1>2. QED
  BY <1>1, ReturnStep DEF RegistryInv, WaitedFor, Outcomes

----------------------------------------------------------------------------
\* The goroutines, the clock and the signal

\* What leaves the loop alone leaves the cycle's runs as they are.
LEMMA SameDone ==
  ASSUME UNCHANGED <<setup, cycle, todo, current>>
  PROVE  Done' = Done
BY DEF Done, setup

\* A collector's method returns, in time or late.
LEMMA CollectorReturnsStep ==
  ASSUME RegistryInv, NEW r \in Runs, NEW outcome \in Outcomes, CollectorReturns(r, outcome)
  PROVE  RegistryInv'
<1>1. Done' = Done
  BY SameDone DEF CollectorReturns
<1>2. TypeOK' /\ Stage'
  BY DEF RegistryInv, TypeOK, Stage, CollectorReturns, setup, None
<1>3. Unbegun' /\ Channels'
  BY DEF RegistryInv, TypeOK, Unbegun, Channels, CollectorReturns, None
<1>4. \A s \in Runs : goroutine[s] = "ended" => goroutine'[s] = "ended" /\ result'[s] = result[s]
  BY DEF RegistryInv, TypeOK, CollectorReturns
<1>5. Done \subseteq Runs
  BY DoneAreRuns DEF RegistryInv
<1>6. Collected'
  BY <1>1, <1>4, <1>5 DEF RegistryInv, Collected, CollectorReturns
<1>7. WaitedFor'
  BY DEF RegistryInv, TypeOK, Stage, WaitedFor, CollectorReturns
<1>8. Counted'
  BY <1>1, <1>4, <1>5 DEF RegistryInv, Counted, CollectorReturns
<1>9. QED
  BY <1>2, <1>3, <1>6, <1>7, <1>8 DEF RegistryInv

\* registry.go:130: the send into the channel
LEMMA GoroutineSendsStep ==
  ASSUME RegistryInv, NEW r \in Runs, GoroutineSends(r)
  PROVE  RegistryInv'
<1>1. Done' = Done
  BY SameDone DEF GoroutineSends
<1>2. TypeOK' /\ Stage'
  BY DEF RegistryInv, TypeOK, Stage, GoroutineSends, setup, None
<1>3. Unbegun' /\ Channels'
  BY DEF RegistryInv, TypeOK, Unbegun, Channels, GoroutineSends, None
<1>4. \A s \in Runs : goroutine[s] = "ended" => goroutine'[s] = "ended"
  BY DEF RegistryInv, TypeOK, GoroutineSends
<1>5. Done \subseteq Runs
  BY DoneAreRuns DEF RegistryInv
<1>6. Collected' /\ WaitedFor'
  BY <1>1, <1>4, <1>5 DEF RegistryInv, Collected, WaitedFor, GoroutineSends
<1>7. Counted'
  BY <1>1, <1>4, <1>5 DEF RegistryInv, Counted, GoroutineSends
<1>8. QED
  BY <1>2, <1>3, <1>6, <1>7 DEF RegistryInv

\* registry.go:121: a context ends, by its deadline or with the cycle's
LEMMA ContextStep ==
  ASSUME RegistryInv, DeadlinePasses \/ Cancel
  PROVE  RegistryInv'
<1>1. /\ UNCHANGED <<setup, pc, cycle, todo, current, goroutine, result, chan, all, failed>>
      /\ ctxDone => ctxDone'
  BY DEF DeadlinePasses, Cancel
<1>2. Done' = Done
  BY <1>1, SameDone
<1>3. /\ TypeOK'
      /\ \A r \in Runs : cctx[r] = "deadline" => cctx'[r] = "deadline"
  BY DEF RegistryInv, TypeOK, DeadlinePasses, Cancel, setup
<1>4. Stage' /\ Unbegun' /\ Channels' /\ Collected'
  BY <1>1, <1>2 DEF RegistryInv, Stage, Unbegun, Channels, Collected, setup
<1>5. WaitedFor'
  BY DEF RegistryInv, TypeOK, Stage, WaitedFor, DeadlinePasses, Cancel
<1>6. Done \subseteq Runs
  BY DoneAreRuns DEF RegistryInv
<1>7. Counted'
  BY <1>1, <1>2, <1>3, <1>6 DEF RegistryInv, Counted
<1>8. QED
  BY <1>3, <1>4, <1>5, <1>7 DEF RegistryInv

----------------------------------------------------------------------------
\* The theorems

LEMMA RegistryInductive == RegistryInv /\ [Next]_vars => RegistryInv'
<1> SUFFICES ASSUME RegistryInv, [Next]_vars
             PROVE  RegistryInv'
  OBVIOUS
<1>1. CASE StartCycle
  BY <1>1, StartCycleStep
<1>2. CASE Loop
  BY <1>2, NewRegistryStep, RunCollectorStep, TakeResultStep, GiveUpStep, FinishCycleStep
     DEF Loop
<1>3. CASE Goroutines
  BY <1>3, GoroutineSendsStep, CollectorReturnsStep DEF Goroutines
<1>4. CASE DeadlinePasses \/ Cancel
  BY <1>4, ContextStep
<1>5. CASE UNCHANGED vars
  <2>1. Done' = Done
    BY <1>5, SameDone DEF vars
  <2>2. QED
    BY <1>5, <2>1 DEF vars, setup, runVars, RegistryInv, TypeOK, Stage, Unbegun,
                      Channels, Collected, WaitedFor, Counted
<1>6. QED
  BY <1>1, <1>2, <1>3, <1>4, <1>5 DEF Next

\* The invariant holds throughout.
LEMMA RegistryAlways == Spec => []RegistryInv
BY RegistryStarts, RegistryInductive, PTL DEF Spec

\* The registry's state has its types: in particular, each of its collectors has
\* a factory (registry.go:43-67).
THEOREM RegistryTypeCorrect == Spec => []TypeOK
<1>1. RegistryInv => TypeOK
  BY DEF RegistryInv
<1>2. QED
  BY <1>1, RegistryAlways, PTL

\* Only results of this cycle's own runs are gathered, each once, however late
\* the goroutines of given-up runs may be (registry.go:116-119).
THEOREM OnlyFreshMetrics == Spec => []FreshMetrics
<1>1. RegistryInv => FreshMetrics
  BY DEF RegistryInv, Collected, FreshMetrics, Range
<1>2. QED
  BY <1>1, RegistryAlways, PTL

\* Each enabled collector whose turn is over is accounted for, in one way only
\* (registry.go:79-81).
THEOREM FailuresAreCounted == Spec => []FailuresCounted
<1>1. RegistryInv => FailuresCounted
  BY DEF RegistryInv, Counted, FailuresCounted
<1>2. QED
  BY <1>1, RegistryAlways, PTL

----------------------------------------------------------------------------
\* What the sender keeps of a sequence of metrics

\* The fold over a sequence of metrics, as FoldLeft computes it: from the last on
AreTaken(v, seq) ==
  v = [S \in SUBSET DOMAIN seq |->
         IF S = {} THEN << >> ELSE LET x == Max(S) IN Take(v[S \ {x}], seq[x])]

LEMMA TakenByFold ==
  ASSUME NEW seq
  PROVE  FoldLeft(Take, << >>, seq) = (CHOOSE v : AreTaken(v, seq))[DOMAIN seq]
BY DEF FoldLeft, MapThenFoldSet, AreTaken, Take

LEMMA TakenUnfold ==
  ASSUME NEW v, NEW seq
  PROVE  AreTaken(v, seq) <=>
           v = [S \in SUBSET DOMAIN seq |->
                  IF S = {} THEN << >> ELSE Take(v[S \ {Max(S)}], seq[Max(S)])]
BY DEF AreTaken

IsTaken(f, seq) ==
  /\ f[0] = << >> /\ FoldLeft(Take, << >>, seq) = f[Len(seq)]
  /\ \A n \in 1 .. Len(seq) : f[n] = Take(f[n - 1], seq[n])

LEMMA TakenTable ==
  ASSUME NEW T, NEW seq \in Seq(T)
  PROVE  \E f \in [0 .. Len(seq) -> Seq(T)] : IsTaken(f, seq)
<1> DEFINE last == Len(seq)
           R == 1 .. last
           step == [p \in R \X Seq(T) |-> Take(p[2], seq[p[1]])]
           pick == [S \in SUBSET R |-> Max(S)]
<1>1. /\ last \in Nat /\ R = DOMAIN seq /\ R \subseteq 0 .. last
      /\ \A i \in R : seq[i] \in T
  OBVIOUS
<1>2. IsFiniteSet(R)
  BY <1>1, FS_Interval
<1>3. \A S \in SUBSET R : S # {} => Max(S) \in S /\ \A m \in S : m <= Max(S)
  <2> HIDE DEF last, R
  <2>1. QED
    BY <1>1, GreatestNumber
<1>4. /\ \A i \in R, x \in Seq(T) : Take(x, seq[i]) \in Seq(T)
  BY <1>1 DEF Take
<1>5. /\ step \in [R \X Seq(T) -> Seq(T)]
      /\ \A i \in R, x \in Seq(T) : step[<<i, x>>] = Take(x, seq[i])
  <2> HIDE DEF last, R
  <2>1. QED
    BY <1>4
<1> HIDE DEF last, R, step
<1>6. PICK v \in [SUBSET R -> Seq(T)] : AreFolds(v, R, << >>, step, pick)
  <2>1. << >> \in Seq(T) /\ \A S \in SUBSET R : S # {} => pick[S] \in S
    BY <1>3
  <2> HIDE DEF pick
  <2>2. QED
    BY <1>2, <1>5, <2>1, FoldsExist
<1>7. AreTaken(v, seq)
  <2>1. \A S \in SUBSET R :
          v[S] = IF S = {} THEN << >> ELSE Take(v[S \ {Max(S)}], seq[Max(S)])
    <3>1. SUFFICES ASSUME NEW S \in SUBSET R, S # {}
                   PROVE  v[S] = Take(v[S \ {Max(S)}], seq[Max(S)])
      BY <1>6 DEF AreFolds
    <3>2. pick[S] = Max(S) /\ Max(S) \in R /\ S \ {Max(S)} \in SUBSET R
      BY <1>3, <3>1
    <3>3. v[S \ {Max(S)}] \in Seq(T)
      BY <1>6, <3>2
    <3>4. v[S] = step[<<Max(S), v[S \ {Max(S)}]>>]
      <4> HIDE DEF pick
      <4>1. QED
        BY <1>6, <3>1, <3>2 DEF AreFolds
    <3>5. QED
      BY <1>5, <3>2, <3>3, <3>4
  <2>2. v = [S \in SUBSET R |-> v[S]]
    BY <1>6
  <2>3. QED
    BY <1>1, <2>1, <2>2, TakenUnfold
<1> DEFINE w == CHOOSE w : AreTaken(w, seq)
<1>8. AreTaken(w, seq) /\ FoldLeft(Take, << >>, seq) = w[R]
  BY <1>1, <1>7, TakenByFold
<1> HIDE DEF w
<1>9. \A S \in SUBSET R :
        w[S] = IF S = {} THEN << >> ELSE Take(w[S \ {Max(S)}], seq[Max(S)])
  BY <1>1, <1>8, TakenUnfold
<1>10. w[1 .. 0] = << >>
  <2>1. 1 .. 0 = {}
    OBVIOUS
  <2>2. QED
    BY <1>9, <2>1
<1>11. ASSUME NEW n \in 1 .. last
       PROVE  w[1 .. n] = Take(w[1 .. (n - 1)], seq[n])
  <2>1. /\ 1 .. n \in SUBSET R /\ n \in 1 .. n /\ (1 .. n) \ {n} = 1 .. (n - 1)
        /\ \A m \in 1 .. n : m \in Nat /\ (n <= m => m = n)
    BY <1>1 DEF R
  <2>2. Max(1 .. n) = n
    BY <1>3, <2>1
  <2>3. QED
    BY <1>9, <2>1, <2>2
<1> DEFINE f == [n \in 0 .. last |-> w[1 .. n]]
           P == {n \in 0 .. last : w[1 .. n] \in Seq(T)}
<1>12. \A n \in 0 .. last : n \in P
  <2>1. 0 \in P
    <3>1. << >> \in Seq(T) /\ 0 \in 0 .. last
      BY <1>1
    <3>2. w[1 .. 0] \in Seq(T)
      BY <1>10, <3>1, Zenon
    <3>3. QED
      BY <3>1, <3>2, Zenon
  <2>2. ASSUME NEW n \in 1 .. last, n - 1 \in P
        PROVE  n \in P
    <3>1. w[1 .. (n - 1)] \in Seq(T) /\ n \in R /\ n \in 0 .. last
      BY <1>1, <2>2 DEF R
    <3>2. QED
      BY <1>4, <1>11, <3>1
  <2> HIDE DEF P
  <2>3. QED
    BY <1>1, <2>1, <2>2, UpTo
<1>13. f \in [0 .. last -> Seq(T)]
  BY <1>12
<1>14. \A n \in 1 .. last : n \in 0 .. last /\ n - 1 \in 0 .. last
  BY <1>1
<1>15. f[0] = << >> /\ FoldLeft(Take, << >>, seq) = f[last]
  BY <1>1, <1>8, <1>10 DEF R
<1>16. \A n \in 1 .. last : f[n] = Take(f[n - 1], seq[n])
  BY <1>11, <1>14
<1>17. QED
  BY <1>13, <1>15, <1>16 DEF IsTaken, last
----------------------------------------------------------------------------
\* The heartbeat of any sequence of metrics

ValidIn(seq) == {i \in DOMAIN seq : seq[i].valid}
RankIn(seq, i) == Cardinality({j \in ValidIn(seq) : j <= i})

LEMMA Ranks ==
  ASSUME NEW T, NEW seq \in Seq(T)
  PROVE  /\ \A n \in 0 .. Len(seq) : RankIn(seq, n) \in Nat
         /\ RankIn(seq, 0) = 0 /\ RankIn(seq, Len(seq)) = Cardinality(ValidIn(seq))
         /\ \A n \in 1 .. Len(seq) :
              RankIn(seq, n) = IF n \in ValidIn(seq) THEN RankIn(seq, n - 1) + 1
                               ELSE RankIn(seq, n - 1)
         /\ \A m, n \in 0 .. Len(seq) : m <= n => RankIn(seq, m) <= RankIn(seq, n)
<1> DEFINE last == Len(seq)
           V == ValidIn(seq)
<1>1. last \in Nat /\ V \subseteq 1 .. last
  BY DEF ValidIn
<1> HIDE DEF last, V
<1> DEFINE Upto(n) == {j \in V : j <= n}
<1>2. \A j \in V : j \in Nat /\ 1 <= j /\ j <= last
  BY <1>1
<1>3. \A n, j : j \in Upto(n) <=> j \in V /\ j <= n
  OBVIOUS
<1>f. IsFiniteSet(V) /\ \A n : IsFiniteSet(Upto(n)) /\ Cardinality(Upto(n)) \in Nat
  <2>1. IsFiniteSet(V)
    <3>1. IsFiniteSet(1 .. last)
      BY <1>1, FS_Interval
    <3>2. QED
      BY <1>1, <3>1, FS_Subset
  <2>2. \A n : Upto(n) \subseteq V
    OBVIOUS
  <2> HIDE DEF Upto
  <2>3. QED
    BY <2>1, <2>2, FS_Subset, FS_CardinalityType
<1>g. Cardinality(Upto(0)) = 0
  <2>1. ASSUME NEW j \in Upto(0)
        PROVE  FALSE
    <3>1. j \in V /\ j <= 0
      OBVIOUS
    <3>2. QED
      BY <1>2, <3>1
  <2> HIDE DEF Upto
  <2>2. Upto(0) = {}
    BY <2>1
  <2>3. QED
    BY <2>2, FS_EmptySet
<1>4. Upto(last) = V
  <2>1. \A j : j \in Upto(last) <=> j \in V
    BY <1>2, <1>3
  <2> HIDE DEF Upto
  <2>2. QED
    BY <2>1
<1>5. ASSUME NEW n \in 1 .. last
      PROVE  Cardinality(Upto(n)) = IF n \in V THEN Cardinality(Upto(n - 1)) + 1
                                    ELSE Cardinality(Upto(n - 1))
  <2>0. n \in Nat
    BY <1>1
  <2>1. n \notin Upto(n - 1)
    BY <2>0
  <2>2. ASSUME NEW j \in V
        PROVE  j <= n <=> (j <= n - 1 \/ j = n)
    BY <1>2, <2>0
  <2>3. CASE n \in V
    <3>1. /\ \A j : j \in Upto(n) <=> j \in V /\ j <= n
          /\ \A j : j \in Upto(n - 1) <=> j \in V /\ j <= n - 1
      BY <1>3
    <3> HIDE DEF Upto
    <3>2. \A j : j \in Upto(n) <=> (j \in Upto(n - 1) \/ j = n)
      BY <2>0, <2>2, <2>3, <3>1
    <3>3. Upto(n) = Upto(n - 1) \cup {n}
      BY <3>2
    <3>4. QED
      BY <1>f, <2>1, <2>3, <3>3, FS_AddElement
  <2>4. CASE n \notin V
    <3>1. \A j : j \in Upto(n) <=> j \in Upto(n - 1)
      BY <1>3, <2>2, <2>4
    <3> HIDE DEF Upto
    <3>2. Upto(n) = Upto(n - 1)
      BY <3>1
    <3>3. QED
      BY <2>4, <3>2
  <2>5. QED
    BY <2>3, <2>4
<1>6. ASSUME NEW m \in 0 .. last, NEW n \in 0 .. last, m <= n
      PROVE  Cardinality(Upto(m)) <= Cardinality(Upto(n))
  <2>1. ASSUME NEW j \in Upto(m)
        PROVE  j \in Upto(n)
    <3>1. j \in V /\ j <= m
      OBVIOUS
    <3>2. j \in Nat /\ m \in Nat /\ n \in Nat
      BY <1>1, <1>2, <3>1
    <3>3. QED
      BY <1>6, <3>1, <3>2
  <2> HIDE DEF Upto
  <2>2. QED
    BY <1>f, <2>1, FS_Subset
<1>7. \A n : RankIn(seq, n) = Cardinality(Upto(n))
  BY DEF RankIn, V
<1>8. QED
  <2> HIDE DEF Upto
  <2>1. QED
    BY <1>f, <1>g, <1>4, <1>5, <1>6, <1>7 DEF last, V

\* What Take keeps of the first n metrics
Kept(taken, seq, n) ==
  /\ Len(taken) = Min({RankIn(seq, n), MaxMetrics})
  /\ \A i \in ValidIn(seq) :
       i <= n /\ RankIn(seq, i) <= MaxMetrics => taken[RankIn(seq, i)] = seq[i]
  /\ \A k \in DOMAIN taken : \E i \in ValidIn(seq) : taken[k] = seq[i]

LEMMA TakeKeeps ==
  ASSUME NEW T, NEW seq \in Seq(T), NEW n \in 1 .. Len(seq), NEW taken \in Seq(T),
         Kept(taken, seq, n - 1)
  PROVE  Kept(Take(taken, seq[n]), seq, n)
<1> DEFINE V == ValidIn(seq)
           last == Len(seq)
           R(i) == RankIn(seq, i)
           next == Take(taken, seq[n])
           len == Len(taken)
<1>1. /\ last \in Nat /\ V \subseteq 1 .. last /\ n - 1 \in 0 .. last /\ n \in 0 .. last
      /\ n \in 1 .. last /\ len \in Nat /\ seq[n] \in T
      /\ \A i \in V : i \in 0 .. last
      /\ n \in V <=> seq[n].valid
  BY DEF ValidIn
<1>2. /\ \A i \in 0 .. last : R(i) \in Nat
      /\ R(n) = IF n \in V THEN R(n - 1) + 1 ELSE R(n - 1)
      /\ \A i, j \in 0 .. last : i <= j => R(i) <= R(j)
  BY Ranks
<1>3. MaxMetrics \in Nat \ {0}
  BY HeartbeatAssumption
<1>4. /\ len = Min({R(n - 1), MaxMetrics})
      /\ \A i \in V : i <= n - 1 /\ R(i) <= MaxMetrics => taken[R(i)] = seq[i]
      /\ \A k \in DOMAIN taken : \E i \in V : taken[k] = seq[i]
  BY DEF Kept
<1> HIDE DEF V, last, R, len
<1>5. len = IF R(n - 1) <= MaxMetrics THEN R(n - 1) ELSE MaxMetrics
  BY <1>1, <1>2, <1>3, <1>4, LesserOfTwo
<1>6. Min({R(n), MaxMetrics}) = IF R(n) <= MaxMetrics THEN R(n) ELSE MaxMetrics
  BY <1>1, <1>2, <1>3, LesserOfTwo
<1>7. ASSUME NEW i \in V, i <= n, i # n
      PROVE  i <= n - 1
  BY <1>1, <1>7
<1>8. CASE n \in V /\ len < MaxMetrics
  <2>1. next = Append(taken, seq[n])
    BY <1>1, <1>8 DEF Take, len
  <2>2. /\ Len(next) = len + 1 /\ next[len + 1] = seq[n]
        /\ \A k \in 1 .. len : next[k] = taken[k]
        /\ DOMAIN next = 1 .. len + 1 /\ DOMAIN taken = 1 .. len
    BY <1>1, <2>1 DEF len
  <2> HIDE DEF next
  <2>3. len = R(n - 1) /\ R(n) = len + 1 /\ R(n) <= MaxMetrics
    BY <1>1, <1>2, <1>3, <1>5, <1>8
  <2>4. ASSUME NEW i \in V, i <= n, R(i) <= MaxMetrics
        PROVE  next[R(i)] = seq[i]
    <3>1. CASE i = n
      BY <2>2, <2>3, <3>1
    <3>2. CASE i # n
      <4>1. i <= n - 1 /\ i \in 1 .. last /\ i \in 0 .. last
        BY <1>1, <1>7, <2>4, <3>2
      <4>2. R(i) <= len /\ R(i) \in Nat
        BY <1>1, <1>2, <2>3, <4>1
      <4>3. R(i) >= 1
        BY <1>1, <4>1, Ranks DEF R, last, V
      <4>4. R(i) \in 1 .. len
        BY <1>1, <4>2, <4>3
      <4>5. QED
        BY <1>4, <2>2, <2>4, <4>1, <4>4
    <3>3. QED
      BY <3>1, <3>2
  <2>5. \A k \in DOMAIN next : \E i \in V : next[k] = seq[i]
    <3>1. SUFFICES ASSUME NEW k \in 1 .. len + 1
                   PROVE  \E i \in V : next[k] = seq[i]
      BY <2>2
    <3>2. CASE k = len + 1
      BY <1>8, <2>2, <3>2
    <3>3. CASE k # len + 1
      <4>1. k \in 1 .. len
        BY <1>1, <3>1, <3>3
      <4>2. QED
        BY <1>4, <2>2, <4>1
    <3>4. QED
      BY <3>2, <3>3
  <2>6. QED
    BY <1>6, <2>2, <2>3, <2>4, <2>5 DEF Kept, next, R, V
<1>9. CASE ~(n \in V /\ len < MaxMetrics)
  <2>1. next = taken
    BY <1>1, <1>9 DEF Take, len
  <2> HIDE DEF next
  <2>2. len = Min({R(n), MaxMetrics})
    BY <1>1, <1>2, <1>3, <1>5, <1>6, <1>9
  <2>3. ASSUME NEW i \in V, i <= n, R(i) <= MaxMetrics
        PROVE  i <= n - 1
    <3>1. CASE i = n
      <4>1. n \in V /\ len = MaxMetrics
        BY <1>1, <1>2, <1>3, <1>5, <1>9, <2>3, <3>1
      <4>2. R(n) = R(n - 1) + 1 /\ R(n - 1) >= MaxMetrics
        BY <1>1, <1>2, <1>3, <1>5, <4>1
      <4>3. QED
        BY <1>1, <1>2, <1>3, <2>3, <3>1, <4>2
    <3>2. QED
      BY <1>7, <2>3, <3>1
  <2>4. QED
    BY <1>4, <2>1, <2>2, <2>3 DEF Kept, next, R, V, len
<1>10. QED
  BY <1>8, <1>9 DEF next

\* The fold as a whole
LEMMA FoldKeeps ==
  ASSUME NEW T, NEW seq \in Seq(T)
  PROVE  /\ FoldLeft(Take, << >>, seq) \in Seq(T)
         /\ Kept(FoldLeft(Take, << >>, seq), seq, Len(seq))
<1>1. PICK f \in [0 .. Len(seq) -> Seq(T)] : IsTaken(f, seq)
  BY TakenTable
<1> DEFINE last == Len(seq)
           P == {n \in 0 .. last : Kept(f[n], seq, n)}
<1>2. last \in Nat /\ ValidIn(seq) \subseteq 1 .. last
  BY DEF ValidIn
<1>3. 0 \in P
  <2>1. f[0] = << >> /\ Len(<< >>) = 0 /\ DOMAIN << >> = {}
    BY <1>1 DEF IsTaken
  <2>2. Min({RankIn(seq, 0), MaxMetrics}) = 0
    <3>1. RankIn(seq, 0) = 0 /\ MaxMetrics \in Nat
      BY Ranks, HeartbeatAssumption
    <3>2. Min({0, MaxMetrics}) = 0
      BY <3>1, LesserOfTwo
    <3>3. QED
      BY <3>1, <3>2
  <2>3. \A i \in ValidIn(seq) : ~(i <= 0)
    BY <1>2
  <2>4. Kept(f[0], seq, 0)
    BY <2>1, <2>2, <2>3 DEF Kept
  <2>5. QED
    BY <1>2, <2>4
<1>4. ASSUME NEW n \in 1 .. last, n - 1 \in P
      PROVE  n \in P
  <2>1. /\ f[n - 1] \in Seq(T) /\ n \in 0 .. last /\ Kept(f[n - 1], seq, n - 1)
        /\ f[n] = Take(f[n - 1], seq[n])
    BY <1>1, <1>2, <1>4 DEF IsTaken
  <2>2. Kept(f[n], seq, n)
    BY <2>1, TakeKeeps
  <2>3. QED
    BY <2>1, <2>2
<1>5. \A n \in 0 .. last : n \in P
  <2> HIDE DEF P, last
  <2>1. QED
    BY <1>2, <1>3, <1>4, UpTo
<1>6. last \in 0 .. last
  BY <1>2
<1>7. FoldLeft(Take, << >>, seq) = f[last]
  BY <1>1 DEF IsTaken
<1>8. QED
  BY <1>1, <1>5, <1>6, <1>7

----------------------------------------------------------------------------
\* What the metrics of a cycle are

Metrics == [from : Factories \cup {Agent}, number : Nat, valid : BOOLEAN]

LEMMA MetricsHaveTypes ==
  /\ \A c \in Factories : MetricsOf(c) \in Seq(Metrics) /\ DOMAIN MetricsOf(c) = DOMAIN Gives[c]
  /\ \A n \in Nat : ErrorsCount(n) \in Metrics
<1>1. ASSUME NEW c \in Factories
      PROVE  MetricsOf(c) \in Seq(Metrics) /\ DOMAIN MetricsOf(c) = DOMAIN Gives[c]
  <2>1. Gives[c] \in Seq(BOOLEAN)
    BY HeartbeatAssumption
  <2> DEFINE n == Len(Gives[c])
  <2>2. n \in Nat /\ DOMAIN Gives[c] = 1 .. n /\ \A i \in 1 .. n : Gives[c][i] \in BOOLEAN
    BY <2>1
  <2> HIDE DEF n
  <2>3. MetricsOf(c) = [i \in 1 .. n |-> [from |-> c, number |-> i, valid |-> Gives[c][i]]]
    BY <2>2 DEF MetricsOf
  <2>4. MetricsOf(c) \in [1 .. n -> Metrics]
    BY <2>2, <2>3 DEF Metrics
  <2>5. QED
    BY <2>2, <2>3, <2>4, SeqDef
<1>2. QED
  BY <1>1 DEF ErrorsCount, Metrics

LEMMA CycleContents ==
  ASSUME all \in Seq(Runs), IsFiniteSet(failed)
  PROVE  /\ CycleMetrics \in Seq(Metrics)
         /\ \A x : x \in ToSet(CycleMetrics) <=>
              \/ \E r \in Range(all) : x \in ToSet(MetricsOf(r[1]))
              \/ failed # {} /\ x = ErrorsCount(Cardinality(failed))
<1> DEFINE seqs == [i \in DOMAIN all |-> MetricsOf(all[i][1])]
           errors == IF failed # {} THEN <<ErrorsCount(Cardinality(failed))>> ELSE << >>
<1>1. seqs \in Seq(Seq(Metrics))
  <2> DEFINE n == Len(all)
  <2>1. n \in Nat /\ DOMAIN all = 1 .. n /\ \A i \in 1 .. n : all[i] \in Runs
    OBVIOUS
  <2>2. \A i \in 1 .. n : MetricsOf(all[i][1]) \in Seq(Metrics)
    BY <2>1, MetricsHaveTypes DEF Runs
  <2> HIDE DEF n
  <2>3. seqs \in [1 .. n -> Seq(Metrics)]
    BY <2>1, <2>2
  <2>4. QED
    BY <2>1, <2>3, SeqDef
<1>2. errors \in Seq(Metrics) /\ \A x : x \in ToSet(errors) <=>
                                      failed # {} /\ x = ErrorsCount(Cardinality(failed))
  <2>1. Cardinality(failed) \in Nat
    BY FS_CardinalityType
  <2>2. ErrorsCount(Cardinality(failed)) \in Metrics
    BY <2>1, MetricsHaveTypes
  <2> DEFINE e == ErrorsCount(Cardinality(failed))
  <2> HIDE DEF e
  <2>3. /\ <<e>> \in Seq({e}) /\ DOMAIN <<e>> = {1} /\ <<e>>[1] = e
        /\ DOMAIN << >> = {}
    OBVIOUS
  <2>4. QED
    BY <2>2, <2>3 DEF ToSet, e
<1>3. /\ FlattenSeq(seqs) \in Seq(Metrics)
      /\ \A x : x \in ToSet(FlattenSeq(seqs)) <=> \E i \in DOMAIN seqs : x \in ToSet(seqs[i])
  <2> HIDE DEF seqs
  <2>1. QED
    BY <1>1, MembersOfFlattened
<1>4. \A x : (\E i \in DOMAIN seqs : x \in ToSet(seqs[i]))
              <=> \E r \in Range(all) : x \in ToSet(MetricsOf(r[1]))
  BY DEF Range
<1>5. CycleMetrics = FlattenSeq(seqs) \o errors
  BY DEF CycleMetrics
<1> HIDE DEF seqs, errors
<1>6. CycleMetrics \in Seq(Metrics)
  BY <1>2, <1>3, <1>5, ConcatProperties
<1>7. \A x : x \in ToSet(CycleMetrics) <=> x \in ToSet(FlattenSeq(seqs)) \/ x \in ToSet(errors)
  BY <1>2, <1>3, <1>5, MembersOfConcat
<1>8. QED
  BY <1>2, <1>3, <1>4, <1>6, <1>7

----------------------------------------------------------------------------
\* The heartbeat

\* Under the registry's invariant, a heartbeat is what Take keeps of the cycle's
\* metrics.
LEMMA BuiltKeeps ==
  ASSUME RegistryInv
  PROVE  /\ IsFiniteSet(failed) /\ all \in Seq(Runs)
         /\ CycleMetrics \in Seq(Metrics) /\ Built \in Seq(Metrics)
         /\ Kept(Built, CycleMetrics, Len(CycleMetrics))
         /\ ValidIn(CycleMetrics) = Valid /\ \A i : RankIn(CycleMetrics, i) = Rank(i)
<1>1. IsFiniteSet(failed) /\ all \in Seq(Runs)
  <2>1. failed \subseteq Factories
    BY DEF RegistryInv, TypeOK
  <2>2. QED
    BY <2>1, RegistryAssumption, FS_Subset DEF RegistryInv, TypeOK
<1>2. CycleMetrics \in Seq(Metrics)
  BY <1>1, CycleContents
<1>3. Built \in Seq(Metrics) /\ Kept(Built, CycleMetrics, Len(CycleMetrics))
  BY <1>2, FoldKeeps DEF Built
<1>4. ValidIn(CycleMetrics) = Valid
  BY DEF ValidIn, Valid
<1>5. \A i : RankIn(CycleMetrics, i) = Rank(i)
  BY <1>4 DEF RankIn, Rank
<1>6. QED
  BY <1>1, <1>2, <1>3, <1>4, <1>5

\* payload.go:31-32 and sender.go:101-112, for any collectors, metrics and cap: a
\* heartbeat has the first valid metrics of its cycle, in their order, up to the cap.
THEOREM HeartbeatsAreFilled == Spec => []FilledToTheCap
<1>1. RegistryInv => FilledToTheCap
  <2>1. SUFFICES ASSUME RegistryInv
                 PROVE  /\ Len(Built) = Min({Cardinality(Valid), MaxMetrics})
                        /\ \A i \in Valid :
                             Rank(i) <= MaxMetrics => Built[Rank(i)] = CycleMetrics[i]
    BY DEF FilledToTheCap
  <2> DEFINE last == Len(CycleMetrics)
  <2>2. /\ CycleMetrics \in Seq(Metrics) /\ Kept(Built, CycleMetrics, last)
        /\ ValidIn(CycleMetrics) = Valid /\ \A i : RankIn(CycleMetrics, i) = Rank(i)
    BY <2>1, BuiltKeeps
  <2>3. Rank(last) = Cardinality(Valid)
    BY <2>2, Ranks
  <2>4. \A i \in Valid : i <= last
    BY <2>2 DEF Valid
  <2> HIDE DEF last
  <2>5. QED
    BY <2>2, <2>3, <2>4 DEF Kept
<1>2. QED
  BY <1>1, RegistryAlways, PTL

\* Below the cap, nothing valid is cut off.
LEMMA BuiltContents ==
  ASSUME RegistryInv, Len(Built) < MaxMetrics
  PROVE  \A x : x \in ToSet(Built) <=> x \in ToSet(CycleMetrics) /\ x.valid
<1> DEFINE seq == CycleMetrics
           last == Len(seq)
           total == RankIn(seq, last)
<1>1. /\ seq \in Seq(Metrics) /\ Built \in Seq(Metrics) /\ Kept(Built, seq, last)
  BY BuiltKeeps
<1>2. /\ last \in Nat /\ DOMAIN seq = 1 .. last /\ ValidIn(seq) \subseteq 1 .. last
      /\ DOMAIN Built = 1 .. Len(Built) /\ Len(Built) \in Nat
  BY <1>1 DEF ValidIn
<1>r. /\ \A i \in 0 .. last : RankIn(seq, i) \in Nat
      /\ \A i, j \in 0 .. last : i <= j => RankIn(seq, i) <= RankIn(seq, j)
      /\ \A i \in 1 .. last :
           RankIn(seq, i) = IF i \in ValidIn(seq) THEN RankIn(seq, i - 1) + 1
                            ELSE RankIn(seq, i - 1)
  BY <1>1, Ranks
<1> HIDE DEF seq, last
<1>3. total \in Nat /\ Len(Built) = total /\ total < MaxMetrics /\ MaxMetrics \in Nat
  <2>1. total \in Nat /\ MaxMetrics \in Nat /\ Len(Built) = Min({total, MaxMetrics})
    BY <1>1, <1>2, <1>r, HeartbeatAssumption DEF Kept
  <2> HIDE DEF total
  <2>2. Len(Built) = IF total <= MaxMetrics THEN total ELSE MaxMetrics
    BY <2>1, LesserOfTwo
  <2>3. QED
    BY <2>1, <2>2
<1>4. ASSUME NEW i \in ValidIn(seq)
      PROVE  RankIn(seq, i) \in 1 .. total /\ i <= last
  <2>1. i \in 1 .. last /\ i \in 0 .. last /\ i - 1 \in 0 .. last /\ last \in 0 .. last /\ i <= last
    BY <1>2
  <2>2. RankIn(seq, i) <= total /\ RankIn(seq, i) = RankIn(seq, i - 1) + 1
    BY <1>r, <2>1
  <2>3. RankIn(seq, i - 1) \in Nat
    BY <1>r, <2>1
  <2> HIDE DEF total
  <2>4. QED
    BY <1>3, <2>1, <2>2, <2>3
<1>5. ASSUME NEW x, x \in ToSet(Built)
      PROVE  x \in ToSet(seq) /\ x.valid
  <2>1. PICK k \in DOMAIN Built : x = Built[k]
    BY <1>5 DEF ToSet
  <2>2. PICK i \in ValidIn(seq) : x = seq[i]
    BY <1>1, <2>1 DEF Kept
  <2>3. QED
    BY <2>2 DEF ValidIn, ToSet
<1>6. ASSUME NEW x, x \in ToSet(seq), x.valid
      PROVE  x \in ToSet(Built)
  <2>1. PICK i \in DOMAIN seq : x = seq[i]
    BY <1>6 DEF ToSet
  <2>2. i \in ValidIn(seq)
    BY <1>6, <2>1 DEF ValidIn
  <2>3. RankIn(seq, i) \in 1 .. total /\ i <= last
    BY <1>4, <2>2
  <2>4. RankIn(seq, i) <= MaxMetrics /\ RankIn(seq, i) \in DOMAIN Built
    <3> HIDE DEF total
    <3>1. QED
      BY <1>2, <1>3, <2>3
  <2>5. Built[RankIn(seq, i)] = seq[i]
    BY <1>1, <2>2, <2>3, <2>4 DEF Kept
  <2>6. QED
    BY <2>1, <2>4, <2>5 DEF ToSet
<1>7. QED
  BY <1>5, <1>6 DEF seq

\* The channel of a run whose metrics were gathered has been read, and conversely.
Received ==
  /\ \A i \in DOMAIN all : chan[all[i]] = None
  /\ \A r \in Runs :
       r[2] = cycle /\ goroutine[r] = "ended" /\ chan[r] = None /\ result[r] = "metrics"
         => r \in Range(all)

LEMMA ReceivedStarts == Init => Received
BY DEF Init, Received, None

LEMMA ReceivedKept == RegistryInv /\ Received /\ [Next]_vars => Received'
<1> SUFFICES ASSUME RegistryInv, Received, [Next]_vars
             PROVE  Received'
  OBVIOUS
<1>0. /\ TypeOK /\ Done \subseteq Runs
      /\ \A i \in DOMAIN all : all[i] \in Done /\ goroutine[all[i]] = "ended"
  BY DoneAreRuns DEF RegistryInv, Collected
<1>1. CASE StartCycle
  <2>1. ASSUME NEW r \in Runs, r[2] = cycle'
        PROVE  goroutine'[r] = None
    <3>1. r[2] > cycle
      BY <1>0, <1>1, <2>1 DEF TypeOK, StartCycle
    <3>2. QED
      BY <1>1, <3>1 DEF RegistryInv, Unbegun, StartCycle, runVars
  <2>2. QED
    BY <1>1, <2>1 DEF Received, StartCycle, None
<1>2. CASE NewRegistry \/ FinishCycle \/ DeadlinePasses \/ Cancel \/ UNCHANGED vars
  <2>1. UNCHANGED <<cycle, goroutine, result, chan, all>>
    BY <1>2 DEF NewRegistry, FinishCycle, DeadlinePasses, Cancel, vars, runVars
  <2>2. QED
    BY <2>1 DEF Received, Range
<1>3. ASSUME NEW c \in Factories, RunCollector(c)
      PROVE  Received'
  <2>1. UNCHANGED <<cycle, result, chan, all>> /\ <<c, cycle>> \in Runs
        /\ goroutine' = [goroutine EXCEPT ![<<c, cycle>>] = "collect"]
    BY <1>3, RunsArePairs DEF RunCollector, RegistryInv, Stage
  <2>2. QED
    BY <1>0, <2>1 DEF Received, Range, TypeOK
<1>4. CASE GiveUp
  <2>1. /\ UNCHANGED <<cycle, goroutine, result, chan>> /\ all' = all
    <3>1. current # NoRun /\ cctx[current] # "metrics"
      BY <1>4, RunsArePairs DEF GiveUp, RegistryInv, Stage, WaitedFor
    <3>2. QED
      BY <1>4, <3>1 DEF GiveUp, Return, Account
  <2>2. QED
    BY <2>1 DEF Received, Range
<1>5. CASE TakeResult
  <2>1. /\ pc = "wait" /\ current \in Runs /\ chan[current] # None
        /\ goroutine[current] = "ended" /\ result[current] = chan[current]
        /\ UNCHANGED <<cycle, goroutine, result>>
        /\ chan' = [chan EXCEPT ![current] = None]
        /\ all' = IF chan[current] = "metrics" THEN Append(all, current) ELSE all
    BY <1>5, RunsArePairs DEF TakeResult, ReadFrom, Account, Return, RegistryInv, Stage, Channels
  <2>2. ASSUME NEW r \in Range(all)
        PROVE  r \in Range(all')
    <3>1. PICK i \in DOMAIN all : r = all[i]
      BY DEF Range
    <3>2. i \in DOMAIN all' /\ all'[i] = all[i]
      BY <1>0, <2>1 DEF TypeOK
    <3>3. QED
      BY <3>1, <3>2 DEF Range
  <2>3. result[current] = "metrics" => current \in Range(all')
    <3>1. SUFFICES ASSUME result[current] = "metrics"
                   PROVE  current \in Range(all')
      OBVIOUS
    <3>2. all' = Append(all, current) /\ all \in Seq(Runs)
      BY <1>0, <2>1, <3>1 DEF TypeOK
    <3>3. Len(all) + 1 \in DOMAIN all' /\ all'[Len(all) + 1] = current
      BY <2>1, <3>2
    <3>4. QED
      BY <3>3 DEF Range
  <2>4. \A r \in Runs : chan'[r] = IF r = current THEN None ELSE chan[r]
    BY <1>0, <2>1 DEF TypeOK
  <2>5. ASSUME NEW i \in DOMAIN all'
        PROVE  chan'[all'[i]] = None
    <3>1. all'[i] = current \/ (i \in DOMAIN all /\ all'[i] = all[i])
      BY <1>0, <2>1 DEF TypeOK
    <3>2. i \in DOMAIN all => all[i] \in Runs /\ chan[all[i]] = None
      BY <1>0 DEF Received
    <3>3. QED
      BY <2>1, <2>4, <3>1, <3>2
  <2>6. QED
    BY <2>1, <2>2, <2>3, <2>4, <2>5 DEF Received
<1>6. ASSUME NEW r \in Runs, GoroutineSends(r)
      PROVE  Received'
  <2>1. /\ goroutine[r] = "send" /\ UNCHANGED <<cycle, result, all>>
        /\ chan' = [chan EXCEPT ![r] = result[r]]
        /\ goroutine' = [goroutine EXCEPT ![r] = "ended"]
    BY <1>6 DEF GoroutineSends
  <2>2. \A i \in DOMAIN all : all[i] # r /\ all[i] \in Runs
    BY <1>0, <2>1
  <2>3. QED
    BY <1>0, <2>1, <2>2 DEF Received, Range, TypeOK, None
<1>7. ASSUME NEW r \in Runs, NEW outcome \in Outcomes, CollectorReturns(r, outcome)
      PROVE  Received'
  <2>1. /\ goroutine[r] = "collect" /\ UNCHANGED <<cycle, chan, all>>
        /\ goroutine' = [goroutine EXCEPT ![r] = "send"]
        /\ result' = [result EXCEPT ![r] = outcome]
    BY <1>7 DEF CollectorReturns
  <2>2. QED
    BY <1>0, <2>1 DEF Received, Range, TypeOK
<1>8. QED
  BY <1>1, <1>2, <1>3, <1>4, <1>5, <1>6, <1>7 DEF Next, Loop, Goroutines

LEMMA ReceivedAlways == Spec => []Received
BY ReceivedStarts, ReceivedKept, RegistryAlways, PTL DEF Spec

\* registry.go:79-81 and sender.go:101-112, for any collectors and metrics: below the
\* cap a heartbeat has the valid metrics of exactly the enabled collectors whose
\* results were received, and the number of failures if and only if there were any.
THEOREM HeartbeatsTellTheCycle == Spec => []TellsTheCycle
<1>1. RegistryInv /\ Received => TellsTheCycle
  <2>1. SUFFICES ASSUME RegistryInv, Received, Finished, Len(Built) < MaxMetrics
                 PROVE  TellsTheCycle
    BY DEF TellsTheCycle
  <2>2. /\ pc = "idle" /\ cycle \in Cycles /\ TypeOK /\ enabled \subseteq Factories
        /\ IsFiniteSet(failed) /\ all \in Seq(Runs) /\ failed \subseteq enabled
    BY <2>1, BuiltKeeps DEF RegistryInv, TypeOK, Stage, Finished, Cycles
  <2>3. \A x : x \in ToSet(Built) <=>
                 /\ x.valid
                 /\ \/ \E r \in Range(all) : x \in ToSet(MetricsOf(r[1]))
                    \/ failed # {} /\ x = ErrorsCount(Cardinality(failed))
    BY <2>1, <2>2, BuiltContents, CycleContents
  <2>4. \A r \in Range(all) : r \in Runs /\ r[1] \in Factories /\ r = <<r[1], cycle>>
    <3>1. ASSUME NEW i \in DOMAIN all
          PROVE  all[i] \in Runs /\ all[i][2] = cycle
      BY <2>1, DoneAreRuns DEF RegistryInv, Collected, Done
    <3>2. QED
      BY <3>1, RunsArePairs DEF Range
  <2>5. \A c \in Factories : \A x \in ToSet(MetricsOf(c)) :
          x.from = c /\ x.from # Agent
    <3>1. SUFFICES ASSUME NEW c \in Factories, NEW i \in DOMAIN MetricsOf(c)
                   PROVE  MetricsOf(c)[i].from = c /\ c # Agent
      BY DEF ToSet
    <3>2. QED
      BY HeartbeatAssumption DEF MetricsOf
  <2>6. \A n : ErrorsCount(n).from = Agent /\ ErrorsCount(n).valid
    BY DEF ErrorsCount
  <2>7. ASSUME NEW c \in enabled, NEW i \in DOMAIN Gives[c], Gives[c][i]
        PROVE  MetricsOf(c)[i] \in ToSet(Built) <=>
                 /\ chan[<<c, cycle>>] = None
                 /\ result[<<c, cycle>>] = "metrics" /\ goroutine[<<c, cycle>>] = "ended"
    <3> DEFINE x == MetricsOf(c)[i]
               r == <<c, cycle>>
    <3>1. c \in Factories /\ r \in Runs /\ r[1] = c /\ r[2] = cycle
      BY <2>2, RunsArePairs DEF Runs
    <3>2. x.from = c /\ x.valid /\ x \in ToSet(MetricsOf(c)) /\ c # Agent
      BY <2>7, <3>1, HeartbeatAssumption DEF MetricsOf, ToSet
    <3> HIDE DEF x, r
    <3>3. x \in ToSet(Built) <=> r \in Range(all)
      <4>1. x # ErrorsCount(Cardinality(failed))
        BY <2>6, <3>2
      <4>2. x \in ToSet(Built) <=> \E s \in Range(all) : x \in ToSet(MetricsOf(s[1]))
        BY <2>3, <3>2, <4>1
      <4>3. ASSUME NEW s \in Range(all), x \in ToSet(MetricsOf(s[1]))
            PROVE  s = r
        <5>1. s[1] = c /\ s = <<s[1], cycle>>
          BY <2>4, <2>5, <3>2, <4>3
        <5>2. QED
          BY <5>1 DEF r
      <4>4. QED
        BY <3>1, <3>2, <4>2, <4>3
    <3>4. ASSUME r \in Range(all)
          PROVE  chan[r] = None /\ result[r] = "metrics" /\ goroutine[r] = "ended"
      BY <2>1, <3>4 DEF Range, Received, RegistryInv, Collected
    <3>5. ASSUME chan[r] = None, result[r] = "metrics", goroutine[r] = "ended"
          PROVE  r \in Range(all)
      BY <2>1, <3>1, <3>5 DEF Received
    <3>6. QED
      BY <3>3, <3>4, <3>5 DEF x, r
  <2>8. \A n : ErrorsCount(n) \in ToSet(Built) <=>
                 failed # {} /\ ErrorsCount(n) = ErrorsCount(Cardinality(failed))
    BY <2>3, <2>4, <2>5, <2>6
  <2>9. Cardinality(failed) \in 0 .. Cardinality(enabled)
    <3>1. IsFiniteSet(enabled)
      BY <2>2, RegistryAssumption, FS_Subset
    <3>2. Cardinality(failed) <= Cardinality(enabled)
      BY <2>2, <3>1, FS_Subset
    <3>3. QED
      BY <2>2, <3>1, <3>2, FS_CardinalityType
  <2>10. QED
    BY <2>7, <2>8, <2>9 DEF TellsTheCycle
<1>2. QED
  BY <1>1, RegistryAlways, ReceivedAlways, PTL

----------------------------------------------------------------------------
(***************************************************************************)
(* The registry keeps the promise of module Collection.                    *)
(***************************************************************************)

\* A run whose turn has not come has no context either, and the runs begun are
\* of collectors that the configuration enables.
Contexts ==
  \A r \in Runs :
    /\ goroutine[r] = None => cctx[r] = None
    /\ goroutine[r] # None => r[1] \in collectors

LEMMA ContextsStart == Init => Contexts
BY DEF Init, Contexts

LEMMA ContextsKept == RegistryInv /\ Contexts /\ [Next]_vars => Contexts'
<1> SUFFICES ASSUME RegistryInv, Contexts, [Next]_vars
             PROVE  Contexts'
  OBVIOUS
<1>0. /\ TypeOK /\ DOMAIN cctx = Runs /\ DOMAIN goroutine = Runs
      /\ pc = "wait" => current \in Runs /\ goroutine[current] # None
      /\ \A r \in Runs : pc = "new" => goroutine[r] = None
  <2>1. ASSUME NEW r \in Runs, pc = "new"
        PROVE  goroutine[r] = None
    BY <2>1, RunsArePairs DEF RegistryInv, Stage, Unbegun, Runs, Cycles
  <2>2. QED
    BY <2>1 DEF RegistryInv, TypeOK, Stage
<1>1. CASE NewRegistry
  BY <1>0, <1>1 DEF NewRegistry, Contexts, runVars
<1>2. CASE StartCycle \/ FinishCycle \/ UNCHANGED vars
  BY <1>2 DEF StartCycle, FinishCycle, vars, setup, runVars, Contexts
<1>3. ASSUME NEW c \in Factories, RunCollector(c)
      PROVE  Contexts'
  <2> DEFINE run == <<c, cycle>>
  <2>1. /\ run \in Runs /\ c \in collectors /\ current' = run /\ run[1] = c
        /\ collectors' = collectors
    BY <1>3, RunsArePairs DEF RunCollector, RegistryInv, TypeOK, Stage, setup
  <2>2. /\ goroutine' = [goroutine EXCEPT ![run] = "collect"]
        /\ cctx' = [cctx EXCEPT ![run] = IF ctxDone THEN "canceled" ELSE "live"]
    BY <1>3, <2>1 DEF RunCollector
  <2> HIDE DEF run
  <2>3. QED
    BY <1>0, <2>1, <2>2 DEF Contexts, None
<1>4. CASE TakeResult \/ GiveUp
  <2>1. pc = "wait" /\ Return
    BY <1>4 DEF TakeResult, GiveUp
  <2>2. /\ collectors' = collectors /\ goroutine' = goroutine
        /\ cctx' = cctx \/ cctx' = [cctx EXCEPT ![current] = "canceled"]
    BY <2>1 DEF Return, setup
  <2>3. current \in Runs /\ goroutine[current] # None
    BY <1>0, <2>1
  <2>4. QED
    BY <1>0, <2>2, <2>3 DEF Contexts
<1>5. CASE DeadlinePasses \/ Cancel
  <2>1. CASE DeadlinePasses
    <3>1. /\ collectors' = collectors /\ goroutine' = goroutine /\ goroutine[current] # None
          /\ cctx' = [cctx EXCEPT ![current] = "deadline"]
      BY <1>0, <2>1 DEF DeadlinePasses, setup
    <3>2. QED
      BY <1>0, <3>1 DEF Contexts
  <2>2. CASE Cancel
    <3>1. /\ collectors' = collectors /\ goroutine' = goroutine
          /\ cctx' = [r \in Runs |-> IF cctx[r] = "live" THEN "canceled" ELSE cctx[r]]
      BY <2>2 DEF Cancel, setup
    <3>2. QED
      BY <3>1 DEF Contexts, None
  <2>3. QED
    BY <1>5, <2>1, <2>2
<1>6. ASSUME NEW r \in Runs, GoroutineSends(r)
      PROVE  Contexts'
  BY <1>0, <1>6 DEF GoroutineSends, Contexts, TypeOK, setup, None
<1>7. ASSUME NEW r \in Runs, NEW outcome \in Outcomes, CollectorReturns(r, outcome)
      PROVE  Contexts'
  BY <1>0, <1>7 DEF CollectorReturns, Contexts, TypeOK, setup, None
<1>8. QED
  BY <1>1, <1>2, <1>3, <1>4, <1>5, <1>6, <1>7 DEF Next, Loop, Goroutines

\* The state that the registry promises something of, and what it promises of a step
CollectionState ==
  <<enabled, IF pc = "wait" THEN "loop" ELSE pc, cycle, Asked, AnswersNow, TimeUp, ctxDone,
    Decision>>
CollectionStep == [Collecting!CollectionNext]_CollectionState

\* What a decision rests on
LEMMA SameDecision ==
  ASSUME UNCHANGED <<setup, cycle, todo, current, all, failed>>
  PROVE  Decision' = Decision
<1>1. Done' = Done
  BY SameDone
<1>2. QED
  BY <1>1 DEF Decision, ThisCycle

\* In a cycle there is a run of it for each collector, and what has been asked is
\* decided, except for the run that is waited for.
LEMMA RunsOfCycle ==
  ASSUME RegistryInv, Contexts, cycle > 0
  PROVE  /\ cycle \in Cycles /\ \A c \in Factories : ThisCycle(c) \in Runs
         /\ Asked = {c \in Factories : goroutine[ThisCycle(c)] # None}
         /\ \A c \in Asked : c \in enabled /\ c \notin todo
                /\ (ThisCycle(c) # current => Decision[c] # "open")
         /\ \A c \in todo : c \notin Asked
<1>1. cycle \in Cycles
  BY DEF RegistryInv, TypeOK, Cycles
<1>2. \A c \in Factories : ThisCycle(c) \in Runs
  BY <1>1, RunsArePairs DEF ThisCycle
<1>3. Asked = {c \in Factories : goroutine[ThisCycle(c)] # None}
  BY DEF Asked
<1>4. ASSUME NEW c \in Asked
      PROVE  c \in collectors /\ c \in enabled /\ c \notin todo
  <2>1. pc \notin {"new", "refused"} => collectors = enabled
    BY DEF RegistryInv, TypeOK, Stage
  <2>2. pc \notin {"new", "refused"}
    BY DEF RegistryInv, Stage
  <2>3. QED
    BY <1>2, <1>3, <2>1, <2>2 DEF ThisCycle, Contexts, RegistryInv, Unbegun
<1>5. ASSUME NEW c \in Asked, ThisCycle(c) # current
      PROVE  Decision[c] # "open"
  <2>1. ThisCycle(c) \in Done /\ c \in Factories
    BY <1>1, <1>3, <1>4, <1>5 DEF Done, ThisCycle
  <2>2. QED
    BY <2>1 DEF Decision
<1>6. \A c \in todo : c \notin Asked
  BY <1>4
<1>7. QED
  BY <1>1, <1>2, <1>3, <1>4, <1>5, <1>6

LEMMA MakeDecides ==
  ASSUME RegistryInv, Contexts, NewRegistry
  PROVE  CollectionStep
<1>1. Asked' = Asked /\ AnswersNow' = AnswersNow /\ TimeUp' = TimeUp
  BY DEF NewRegistry, runVars, Asked, AnswersNow, TimeUp, ThisCycle
<1>2. Done = {} /\ Done' = {}
  BY RegistryAssumption DEF RegistryInv, Stage, NewRegistry, Done, Cycles
<1>3. Decision' = Decision
  BY <1>2 DEF Decision
<1>4. Collecting!Make
  BY <1>1, <1>3 DEF NewRegistry, Collecting!Make
<1>5. QED
  BY <1>4 DEF CollectionStep, Collecting!CollectionNext

LEMMA BeginDecides ==
  ASSUME RegistryInv, Contexts, StartCycle
  PROVE  CollectionStep
<1>1. /\ cycle' = cycle + 1 /\ cycle' \in Cycles /\ cycle \in Nat /\ cycle' > 0
      /\ UNCHANGED <<goroutine, result, cctx, enabled, ctxDone>> /\ pc = "idle" /\ pc' = "loop"
      /\ current' = current /\ todo' = enabled
  BY RegistryAssumption DEF RegistryInv, TypeOK, Stage, StartCycle, setup, runVars, Cycles
<1>2. ASSUME NEW c \in Factories
      PROVE  LET r == <<c, cycle'>> IN goroutine[r] = None /\ result[r] = None /\ cctx[r] = None
  <2>1. <<c, cycle'>> \in Runs /\ cycle' > cycle
    BY <1>1 DEF Runs
  <2>2. QED
    BY <2>1 DEF RegistryInv, Unbegun, Contexts
<1>3. Asked' = {} /\ TimeUp' = {} /\ AnswersNow' = [c \in Factories |-> None]
  BY <1>1, <1>2 DEF Asked, TimeUp, AnswersNow, ThisCycle, None
<1>4. Done' = {}
  BY <1>1 DEF Done, StartCycle, setup
<1>5. Decision' = [c \in Factories |-> "open"]
  BY <1>4 DEF Decision
<1>6. Collecting!Begin
  BY <1>1, <1>3, <1>5 DEF Collecting!Begin, Collecting!NotAsked, None
<1>7. QED
  BY <1>6 DEF CollectionStep, Collecting!CollectionNext

LEMMA AskDecides ==
  ASSUME RegistryInv, Contexts, NEW c \in Factories, RunCollector(c)
  PROVE  CollectionStep
<1>1. /\ pc = "loop" /\ pc' = "wait" /\ c \in todo /\ c \in enabled /\ current = NoRun
      /\ cycle > 0 /\ TypeOK /\ current' = <<c, cycle>> /\ todo' = todo \ {c}
      /\ UNCHANGED <<enabled, cycle, ctxDone, result, all, failed>>
  BY DEF RegistryInv, TypeOK, Stage, RunCollector, setup, Cycles
<1>2. /\ goroutine' = [goroutine EXCEPT ![<<c, cycle>>] = "collect"]
      /\ cctx' = [cctx EXCEPT ![<<c, cycle>>] = IF ctxDone THEN "canceled" ELSE "live"]
      /\ cctx[<<c, cycle>>] = None /\ goroutine[<<c, cycle>>] = None
  BY <1>1, RunsOfCycle DEF RunCollector, RegistryInv, Unbegun, Contexts, ThisCycle
<1>3. Asked' = Asked \cup {c} /\ TimeUp' = TimeUp /\ AnswersNow' = AnswersNow
  <2>1. \A k \in Factories : ThisCycle(k) \in Runs
                            /\ (k # c => ThisCycle(k) # <<c, cycle>>)
    BY <1>1, RunsOfCycle DEF ThisCycle
  <2>2. ThisCycle(c) = <<c, cycle>> /\ \A k : ThisCycle(k)' = ThisCycle(k)
    BY <1>1 DEF ThisCycle
  <2>3. ASSUME NEW k \in Factories
        PROVE  /\ goroutine'[ThisCycle(k)] # None <=> goroutine[ThisCycle(k)] # None \/ k = c
               /\ cctx'[ThisCycle(k)] = "deadline" <=> cctx[ThisCycle(k)] = "deadline"
    BY <1>1, <1>2, <2>1, <2>2 DEF TypeOK, None
  <2>4. QED
    BY <1>1, <2>2, <2>3 DEF Asked, TimeUp, AnswersNow
<1>4. Done' = Done
  <2>1. /\ NoRun \notin enabled \X Cycles
        /\ \A r \in enabled \X Cycles : r[2] = cycle => (r[1] = c <=> r = <<c, cycle>>)
    BY DEF NoRun
  <2>2. QED
    BY <1>1, <2>1 DEF Done
<1>5. Decision' = Decision
  BY <1>1, <1>4 DEF Decision, ThisCycle
<1>6. \A k \in Asked : Decision[k] # "open"
  BY <1>1, RunsOfCycle DEF ThisCycle, NoRun
<1>7. c \notin Asked
  BY <1>1, RunsOfCycle
<1>8. Collecting!Ask(c)
  BY <1>1, <1>3, <1>5, <1>6, <1>7 DEF Collecting!Ask
<1>9. QED
  BY <1>8 DEF CollectionStep, Collecting!CollectionNext

LEMMA EndDecides ==
  ASSUME RegistryInv, Contexts, FinishCycle
  PROVE  CollectionStep
<1>1. /\ pc = "loop" /\ pc' = "idle" /\ todo = {} /\ current = NoRun /\ cycle \in Cycles
      /\ enabled \subseteq Factories
      /\ UNCHANGED <<setup, cycle, todo, current, ctxDone, runVars, all, failed>>
  BY DEF RegistryInv, TypeOK, Stage, FinishCycle
<1>2. Asked' = Asked /\ AnswersNow' = AnswersNow /\ TimeUp' = TimeUp
  BY <1>1 DEF runVars, Asked, AnswersNow, TimeUp, ThisCycle
<1>3. Decision' = Decision
  BY <1>1, SameDecision
<1>4. \A c \in enabled : Decision[c] # "open"
  BY <1>1 DEF Decision, Done, ThisCycle, NoRun
<1>5. Collecting!End
  BY <1>1, <1>2, <1>3, <1>4 DEF Collecting!End, setup
<1>6. QED
  BY <1>5 DEF CollectionStep, Collecting!CollectionNext

\* Whatever runCollector returns, it is decided of the run that was waited for, and
\* of no other, in a way that its answer, its deadline or the shutdown justifies.
LEMMA ReturnDecides ==
  ASSUME RegistryInv, Contexts, pc = "wait", NEW outcome, Account(outcome), Return,
         \/ outcome \in Outcomes /\ result[current] = outcome
         \/ outcome = "deadline" /\ cctx[current] = "deadline"
         \/ outcome = "canceled" /\ ctxDone
  PROVE  CollectionStep
<1> DEFINE c == current[1]
           d == IF outcome = "metrics" THEN "gathered"
                ELSE IF outcome \in {"error", "deadline"} THEN "failed" ELSE "passed over"
<1>1. /\ current \in Runs /\ c \in Factories /\ c \notin todo /\ current = <<c, cycle>>
      /\ current \in enabled \X Cycles /\ cycle \in Cycles /\ cycle > 0
      /\ goroutine[current] # None /\ current' = NoRun /\ pc' = "loop" /\ TypeOK
      /\ UNCHANGED <<enabled, cycle, todo, ctxDone, goroutine, result>>
  BY RunsArePairs DEF RegistryInv, TypeOK, Stage, Return, setup, Cycles
<1>2. Done' = Done \cup {current} /\ current \notin Done
  <2>1. NoRun \notin enabled \X Cycles
    BY DEF NoRun
  <2>2. QED
    BY <1>1, <2>1 DEF Done
<1>3. current \notin Range(all) /\ c \notin failed
  BY <1>1, <1>2 DEF RegistryInv, Collected, Counted, Range
<1>4. /\ failed' = IF d = "failed" THEN failed \cup {c} ELSE failed
      /\ Range(all') = IF d = "gathered" THEN Range(all) \cup {current} ELSE Range(all)
  <2>1. CASE outcome = "metrics"
    <3>1. all' = Append(all, current) /\ all \in Seq(Runs) /\ failed' = failed
      BY <1>1, <2>1 DEF Account, TypeOK
    <3>2. /\ DOMAIN all = 1 .. Len(all) /\ DOMAIN all' = 1 .. Len(all) + 1
          /\ \A i \in 1 .. Len(all) : all'[i] = all[i]
          /\ all'[Len(all) + 1] = current /\ Len(all) \in Nat
      BY <1>1, <3>1
    <3>3. Range(all') = Range(all) \cup {current}
      BY <3>2 DEF Range
    <3>4. QED
      BY <2>1, <3>1, <3>3
  <2>2. CASE outcome # "metrics"
    BY <2>2 DEF Account
  <2>3. QED
    BY <2>1, <2>2
<1>5. Asked' = Asked /\ AnswersNow' = AnswersNow /\ TimeUp' = TimeUp
  <2>1. \A r \in Runs : cctx'[r] = "deadline" <=> cctx[r] = "deadline"
    BY <1>1 DEF Return, TypeOK
  <2>2. \A k \in Factories : ThisCycle(k) \in Runs /\ ThisCycle(k)' = ThisCycle(k)
    BY <1>1, RunsOfCycle DEF ThisCycle
  <2>3. QED
    BY <1>1, <2>1, <2>2 DEF Asked, AnswersNow, TimeUp
<1>6. Decision' = [Decision EXCEPT ![c] = d]
  <2>1. ASSUME NEW k \in Factories
        PROVE  Decision'[k] = IF k = c THEN d ELSE Decision[k]
    <3>1. ThisCycle(k)' = ThisCycle(k) /\ (ThisCycle(k) = current <=> k = c)
      BY <1>1 DEF ThisCycle
    <3>2. CASE k = c
      BY <1>2, <1>3, <1>4, <3>1, <3>2 DEF Decision
    <3>3. CASE k # c
      BY <1>2, <1>4, <3>1, <3>3 DEF Decision
    <3>4. QED
      BY <3>2, <3>3
  <2>2. QED
    BY <2>1 DEF Decision
<1>7. c \in Asked /\ Decision[c] = "open" /\ ThisCycle(c) = current
  BY <1>1, <1>2 DEF Asked, Decision, ThisCycle
<1>8. Collecting!Justified(c, d)
  <2>1. /\ cctx[current] = "deadline" => c \in TimeUp
        /\ AnswersNow[c] = result[current]
    BY <1>1, <1>7 DEF TimeUp, AnswersNow
  <2>2. QED
    BY <2>1 DEF Collecting!Justified, Outcomes
<1>9. d \in {"gathered", "failed", "passed over"}
  OBVIOUS
<1> HIDE DEF c, d
<1>10. Collecting!Decide(c, d)
  BY <1>1, <1>5, <1>6, <1>7, <1>8 DEF Collecting!Decide
<1>11. QED
  BY <1>1, <1>9, <1>10 DEF CollectionStep, Collecting!CollectionNext

\* A goroutine returns: if it is one of this cycle, that is an answer, in time or late;
\* if it is one of an earlier cycle, nothing.
LEMMA AnswerDecides ==
  ASSUME RegistryInv, Contexts, NEW r \in Runs, NEW outcome \in Outcomes,
         CollectorReturns(r, outcome)
  PROVE  CollectionStep
<1>1. /\ goroutine[r] = "collect" /\ result[r] = None /\ TypeOK
      /\ UNCHANGED <<setup, pc, cycle, todo, current, ctxDone, cctx, chan, all, failed>>
      /\ goroutine' = [goroutine EXCEPT ![r] = "send"]
      /\ result' = [result EXCEPT ![r] = outcome]
  BY DEF RegistryInv, Unbegun, CollectorReturns
<1>2. Decision' = Decision /\ TimeUp' = TimeUp /\ enabled' = enabled
  BY <1>1, SameDecision DEF TimeUp, ThisCycle, setup
<1>3. \A k \in Factories : cycle > 0 => ThisCycle(k) \in Runs
  BY RunsOfCycle
<1>4. Asked' = Asked
  BY <1>1, <1>3 DEF Asked, TypeOK, ThisCycle, None
<1>5. CASE r[2] = cycle /\ cycle > 0
  <2> DEFINE c == r[1]
  <2>1. c \in Factories /\ ThisCycle(c) = r /\ \A k : ThisCycle(k) = r <=> k = c
    BY <1>5, RunsArePairs DEF ThisCycle
  <2>2. c \in Asked /\ AnswersNow[c] = "none"
    BY <1>1, <1>5, <2>1 DEF Asked, AnswersNow, None
  <2>3. \A k : ThisCycle(k)' = ThisCycle(k)
    BY <1>1 DEF ThisCycle
  <2> HIDE DEF c
  <2>4. AnswersNow' = [AnswersNow EXCEPT ![c] = outcome]
    BY <1>1, <1>3, <1>5, <2>1, <2>3 DEF AnswersNow, TypeOK
  <2>5. Collecting!Answers(c, outcome)
    BY <1>1, <1>2, <1>4, <2>2, <2>4 DEF Collecting!Answers
  <2>6. QED
    BY <2>1, <2>5 DEF CollectionStep, Collecting!CollectionNext
<1>6. CASE ~(r[2] = cycle /\ cycle > 0)
  <2>1. \A k : ThisCycle(k)' = ThisCycle(k) /\ ThisCycle(k)[2] = cycle
    BY <1>1 DEF ThisCycle
  <2>2. \A k \in Factories : cycle > 0 => result'[ThisCycle(k)] = result[ThisCycle(k)]
    BY <1>1, <1>3, <1>6, <2>1 DEF TypeOK
  <2>3. AnswersNow' = AnswersNow
    BY <1>1, <2>1, <2>2 DEF AnswersNow
  <2>4. QED
    BY <1>1, <1>2, <1>4, <2>3 DEF CollectionStep, CollectionState
<1>7. QED
  BY <1>5, <1>6

\* The channel of a run is none of the promise's concern.
LEMMA SendDecides ==
  ASSUME RegistryInv, Contexts, NEW r \in Runs, GoroutineSends(r)
  PROVE  CollectionStep
<1>1. /\ goroutine[r] = "send" /\ TypeOK
      /\ UNCHANGED <<setup, pc, cycle, todo, current, ctxDone, cctx, result, all, failed>>
      /\ goroutine' = [goroutine EXCEPT ![r] = "ended"]
  BY DEF RegistryInv, GoroutineSends
<1>2. Decision' = Decision /\ TimeUp' = TimeUp /\ AnswersNow' = AnswersNow /\ enabled' = enabled
  BY <1>1, SameDecision DEF TimeUp, AnswersNow, ThisCycle, setup
<1>3. \A k \in Factories : cycle > 0 => ThisCycle(k) \in Runs
  BY RunsOfCycle
<1>4. Asked' = Asked
  BY <1>1, <1>3 DEF Asked, TypeOK, ThisCycle, None
<1>5. QED
  BY <1>1, <1>2, <1>4 DEF CollectionStep, CollectionState

LEMMA DeadlineDecides ==
  ASSUME RegistryInv, Contexts, DeadlinePasses
  PROVE  CollectionStep
<1> DEFINE c == current[1]
<1>1. /\ current \in Runs /\ c \in Factories /\ current = <<c, cycle>> /\ cycle > 0
      /\ cctx' = [cctx EXCEPT ![current] = "deadline"] /\ TypeOK /\ pc = "wait"
      /\ goroutine[current] # None
      /\ UNCHANGED <<setup, pc, cycle, todo, current, ctxDone, goroutine, result, chan, all, failed>>
  BY RunsArePairs DEF RegistryInv, TypeOK, Stage, DeadlinePasses, Cycles
<1>2. Decision' = Decision /\ enabled' = enabled
  BY <1>1, SameDecision DEF setup
<1>3. Asked' = Asked /\ AnswersNow' = AnswersNow
  BY <1>1 DEF Asked, AnswersNow, ThisCycle
<1>4. /\ \A k \in Factories : ThisCycle(k) \in Runs
      /\ \A k : ThisCycle(k)' = ThisCycle(k) /\ (ThisCycle(k) = current <=> k = c)
  BY <1>1, RunsOfCycle DEF ThisCycle
<1>5. c \in Asked /\ Decision[c] = "open"
  BY <1>1, <1>4 DEF Asked, Decision, Done
<1> HIDE DEF c
<1>6. TimeUp' = TimeUp \cup {c}
  BY <1>1, <1>4 DEF TimeUp, TypeOK
<1>7. Collecting!TimeIsUp(c)
  BY <1>1, <1>2, <1>3, <1>5, <1>6 DEF Collecting!TimeIsUp
<1>8. QED
  BY <1>1, <1>7 DEF CollectionStep, Collecting!CollectionNext

LEMMA CancelDecides ==
  ASSUME RegistryInv, Contexts, Cancel
  PROVE  CollectionStep
<1>1. /\ TypeOK /\ ~ctxDone /\ ctxDone' = TRUE
      /\ cctx' = [r \in Runs |-> IF cctx[r] = "live" THEN "canceled" ELSE cctx[r]]
      /\ UNCHANGED <<setup, pc, cycle, todo, current, goroutine, result, chan, all, failed>>
  BY DEF RegistryInv, Cancel
<1>2. Decision' = Decision /\ enabled' = enabled
  BY <1>1, SameDecision DEF setup
<1>3. Asked' = Asked /\ AnswersNow' = AnswersNow
  BY <1>1 DEF Asked, AnswersNow, ThisCycle
<1>4. \A k \in Factories : cycle > 0 => ThisCycle(k) \in Runs /\ ThisCycle(k)' = ThisCycle(k)
  BY <1>1, RunsOfCycle DEF ThisCycle
<1>5. TimeUp' = TimeUp
  BY <1>1, <1>4 DEF TimeUp
<1>6. Collecting!ShutDown
  BY <1>1, <1>2, <1>3, <1>5 DEF Collecting!ShutDown
<1>7. QED
  BY <1>6 DEF CollectionStep, Collecting!CollectionNext

\* Each step of the registry is one of its promise, or none of its concern.
LEMMA StepIsCollection == RegistryInv /\ Contexts /\ [Next]_vars => CollectionStep
<1> SUFFICES ASSUME RegistryInv, Contexts, [Next]_vars
             PROVE  CollectionStep
  OBVIOUS
<1>1. CASE TakeResult
  <2>1. /\ pc = "wait" /\ current \in Runs /\ current # NoRun /\ chan[current] # None
        /\ Account(chan[current]) /\ Return
    BY <1>1, RunsArePairs DEF RegistryInv, Stage, TakeResult, ReadFrom
  <2>2. chan[current] \in Outcomes /\ chan[current] = result[current]
    BY <2>1 DEF RegistryInv, TypeOK, Channels
  <2>3. QED
    BY <2>1, <2>2, ReturnDecides
<1>2. CASE GiveUp
  <2>1. /\ pc = "wait" /\ current # NoRun
        /\ cctx[current] \in {"canceled", "deadline"}
        /\ Account(cctx[current]) /\ Return
    BY <1>2, RunsArePairs DEF RegistryInv, Stage, WaitedFor, GiveUp
  <2>2. QED
    BY <2>1, ReturnDecides DEF RegistryInv, WaitedFor, Outcomes
<1>3. CASE UNCHANGED vars
  <2>1. UNCHANGED <<enabled, pc, ctxDone, Asked, AnswersNow, TimeUp>>
    BY <1>3 DEF vars, setup, runVars, Asked, AnswersNow, TimeUp, ThisCycle
  <2>2. cycle' = cycle /\ Decision' = Decision
    BY <1>3, SameDecision DEF vars
  <2>3. QED
    BY <2>1, <2>2 DEF CollectionStep, CollectionState
<1>4. QED
  BY <1>1, <1>2, <1>3, MakeDecides, BeginDecides, AskDecides, EndDecides, AnswerDecides,
    SendDecides, DeadlineDecides, CancelDecides DEF Next, Loop, Goroutines

\* registry.go:76-87 and 116-119, for any collectors, configurations and numbers of
\* cycles: the registry asks one collector at a time, and decides of each exactly
\* once in a cycle, on grounds of that cycle; goroutines that were left to themselves
\* change none of it, in this cycle or a later one.
THEOREM RegistryImplementsCollection == Spec => ImplementsCollection
<1>1. Init => Collecting!CollectionInit
  <2>1. SUFFICES ASSUME Init PROVE Collecting!CollectionInit
    OBVIOUS
  <2>2. Done = {} /\ cycle = 0 /\ enabled \subseteq Names /\ pc = "new" /\ ~ctxDone
    BY <2>1, RegistryAssumption DEF Init, Done, Cycles
  <2>3. /\ Asked = {} /\ TimeUp = {} /\ AnswersNow = [c \in Factories |-> "none"]
        /\ Decision = [c \in Factories |-> "open"]
    BY <2>2 DEF Asked, TimeUp, AnswersNow, Decision, None
  <2>4. ctxDone = FALSE
    BY <2>1 DEF Init
  <2>5. QED
    BY <2>2, <2>3, <2>4 DEF Collecting!CollectionInit, Collecting!NotAsked
<1>2. RegistryInv /\ Contexts /\ [Next]_vars
        => [Collecting!CollectionNext]_(Collecting!collectionVars)
  BY StepIsCollection DEF CollectionStep, CollectionState, Collecting!collectionVars
<1>3. Spec => []Contexts
  BY ContextsStart, ContextsKept, RegistryAlways, PTL DEF Spec
<1>4. QED
  BY <1>1, <1>2, <1>3, RegistryAlways, PTL
  DEF Spec, ImplementsCollection, Collecting!CollectionSpec
=============================================================================
