---------------------------- MODULE RegistryProps ----------------------------
(***************************************************************************)
(* What a cycle of collection promises the agent.                          *)
(***************************************************************************)
EXTENDS Registry, Functions

\* The runs of this cycle that runCollector has returned from, for whatever the
\* configuration enables
Done == {r \in enabled \X Cycles : r[2] = cycle /\ r[1] \notin todo} \ {current}

\* registry.go:116-119 (an abandoned goroutine finishes "without leaking back
\* into us"): the metrics gathered are those of this cycle's own runs, each at
\* most once, and only of runs that did return metrics.
FreshMetrics ==
  /\ Range(all) \subseteq Done
  /\ \A i, j \in DOMAIN all : all[i] = all[j] => i = j
  /\ \A r \in Range(all) : result[r] = "metrics"

\* registry.go:79-81 (the count of real failures) and 41-42 (no enabled name is
\* silently left out): each enabled collector whose turn is over has given its
\* metrics, or is counted, or is passed over, and never two of these.  It is counted
\* only for an error or for the end of the time it has.  It is passed over only for
\* having no data, for returning context.Canceled, which is no failure whatever
\* context it is from (registry.go:97, registry_test.go:84-95), or because of the
\* shutdown.
FailuresCounted ==
  \A r \in Done :
    LET c == r[1] IN
      \/ r \in Range(all) /\ c \notin failed
      \/ /\ r \notin Range(all) /\ c \in failed
         /\ result[r] = "error" \/ cctx[r] = "deadline"
      \/ /\ r \notin Range(all) /\ c \notin failed
         /\ result[r] \in {"nodata", "canceled"} \/ ctxDone

\* This cycle as module Collection sees it: whom the registry has asked, whose
\* deadline has passed, what was answered, and what was made of it
ThisCycle(c) == <<c, cycle>>
Asked  == {c \in Factories : cycle > 0 /\ goroutine[ThisCycle(c)] # None}
TimeUp == {c \in Factories : cycle > 0 /\ cctx[ThisCycle(c)] = "deadline"}
AnswersNow == [c \in Factories |-> IF cycle > 0 THEN result[ThisCycle(c)] ELSE None]
Decision ==
  [c \in Factories |->
    IF ThisCycle(c) \notin Done THEN "open"
    ELSE IF ThisCycle(c) \in Range(all) THEN "gathered"
    ELSE IF c \in failed THEN "failed" ELSE "passed over"]

Collecting == INSTANCE Collection WITH
  Name      <- Names,
  Collector <- Factories,
  Answer    <- Outcomes,
  phase     <- IF pc = "wait" THEN "loop" ELSE pc,
  number    <- cycle,
  asked     <- Asked,
  answer    <- AnswersNow,
  timeUp    <- TimeUp,
  shutdown  <- ctxDone,
  decision  <- Decision

\* registry.go:76-87, 116-119: the registry, whose goroutines, contexts and channels
\* outlive the cycle that made them, asks one collector at a time and decides of
\* each exactly once in a cycle, for good, and on this cycle's grounds alone: what a
\* goroutine that was left to itself returns afterwards changes no decision, and
\* no later cycle.
ImplementsCollection == Collecting!CollectionSpec

\* registry.go:16-18 (one hung sensor must never stall the whole cycle): if the
\* registry can be made, every cycle ends although no collector need ever return.
CycleCompletes == []<>(pc \in {"idle", "refused"})

\* registry.go:119 (the buffered channel lets it finish): no goroutine is stuck
\* with the result of its collector for ever, even if nobody waits for it.
NoGoroutineLeak == []<>(\A r \in Runs : goroutine[r] # "send")
=============================================================================
