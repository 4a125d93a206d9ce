------------------------------ MODULE Registry ------------------------------
(***************************************************************************)
(* The registry of collectors, internal/collector/registry.go: NewRegistry *)
(* makes the collectors that the configuration enables; in each cycle      *)
(* Collect runs them one after the other, each in a goroutine of its own   *)
(* that is abandoned when the collector's deadline passes or the cycle is  *)
(* cancelled.                                                              *)
(*                                                                         *)
(* A run <<c, k>> is collector c's Collect call of cycle k: it has its own *)
(* context, its own goroutine and its own channel.  What is told apart of  *)
(* a result is its kind; a metric is identified with the run it is from.   *)
(***************************************************************************)
EXTENDS Integers, Sequences, FiniteSets

CONSTANTS
  Names,      \* the names that a configuration may enable
  Factories,  \* those of them under which a factory is registered
  Configs,    \* the sets of names that it may enable together
  MaxCycles   \* bound: cycles

ASSUME RegistryAssumption ==
  /\ Factories \subseteq Names /\ IsFiniteSet(Factories)
  /\ Configs \subseteq SUBSET Names
  /\ MaxCycles \in Nat

Cycles == 1 .. MaxCycles
Runs   == Factories \X Cycles

\* What a Collect method may return: metrics, an error that IsNoDataError, one that
\* is context.Canceled, of whatever context that may be, or any other error,
\* context.DeadlineExceeded among them.
Outcomes == {"metrics", "nodata", "canceled", "error"}

None  == "none"
NoRun == << >>

VARIABLES
  enabled,    \* the names enabled in the configuration
  collectors, \* the names of the registry's collectors
  pc,         \* "new": before NewRegistry; "refused": it has returned an error;
              \* "idle": between cycles; "loop", "wait": in Collect, runCollector
  cycle,      \* the current or last cycle's number
  todo,       \* the collectors the loop has not come to
  current,    \* the run that runCollector waits for, NoRun if it does not
  ctxDone,    \* the cycle's context is cancelled: graceful shutdown
  cctx,       \* cctx[r]: the run's context, None until it is made
  goroutine,  \* goroutine[r]: where the run's goroutine is
  result,     \* result[r]: what its Collect method returned
  chan,       \* chan[r]: the content of the run's channel
  all,        \* the metrics gathered in this cycle
  failed      \* the collectors counted in errorsCount in this cycle

runVars == <<cctx, goroutine, result, chan>>
setup   == <<enabled, collectors>>
vars == <<setup, pc, cycle, todo, current, ctxDone, runVars, all, failed>>

TypeOK ==
  /\ enabled \subseteq Names /\ collectors \subseteq Factories
  /\ pc \in {"new", "refused", "idle", "loop", "wait"}
  /\ cycle \in 0 .. MaxCycles
  /\ todo \subseteq collectors
  /\ current \in Runs \cup {NoRun}
  /\ ctxDone \in BOOLEAN
  /\ cctx \in [Runs -> {None, "live", "canceled", "deadline"}]
  /\ goroutine \in [Runs -> {None, "collect", "send", "ended"}]
  /\ result \in [Runs -> Outcomes \cup {None}]
  /\ chan \in [Runs -> Outcomes \cup {None}]
  /\ all \in Seq(Runs)
  /\ failed \subseteq collectors

Init ==
  /\ enabled \in Configs /\ collectors = {} /\ pc = "new"
  /\ cycle = 0 /\ todo = {} /\ current = NoRun
  /\ ctxDone = FALSE
  /\ cctx = [r \in Runs |-> None] /\ goroutine = [r \in Runs |-> None]
  /\ result = [r \in Runs |-> None] /\ chan = [r \in Runs |-> None]
  /\ all = << >> /\ failed = {}

----------------------------------------------------------------------------
\* NewRegistry

\* An enabled name without a factory is an error that ends the process; else
\* there is a collector for each enabled name.
NewRegistry ==
  /\ pc = "new"
  /\ IF enabled \subseteq Factories
     THEN collectors' = enabled /\ pc' = "idle"
     ELSE pc' = "refused" /\ UNCHANGED collectors
  /\ UNCHANGED <<enabled, cycle, todo, current, ctxDone, runVars, all, failed>>

----------------------------------------------------------------------------
\* Collect and runCollector

\* The agent calls Collect.
StartCycle ==
  /\ pc = "idle" /\ cycle < MaxCycles
  /\ pc' = "loop" /\ cycle' = cycle + 1 /\ todo' = collectors
  /\ all' = << >> /\ failed' = {}
  /\ UNCHANGED <<setup, current, ctxDone, runVars>>

\* Mutant: the run is numbered one too high.
RunCollectorNextCycle(c) ==
  /\ pc = "loop" /\ c \in todo
  /\ todo' = todo \ {c}
  /\ current' = <<c, cycle + 1>>
  /\ cctx' = [cctx EXCEPT ![current'] = IF ctxDone THEN "canceled" ELSE "live"]
  /\ goroutine' = [goroutine EXCEPT ![current'] = "collect"]
  /\ pc' = "wait"
  /\ UNCHANGED <<setup, cycle, ctxDone, result, chan, all, failed>>

\* The next collector, in whatever order the map yields: a context with a
\* deadline, derived from the cycle's; a channel; a goroutine.
RunCollector(c) ==
  /\ pc = "loop" /\ c \in todo
  /\ todo' = todo \ {c}
  /\ current' = <<c, cycle>>
  /\ cctx' = [cctx EXCEPT ![current'] = IF ctxDone THEN "canceled" ELSE "live"]
  /\ goroutine' = [goroutine EXCEPT ![current'] = "collect"]
  /\ pc' = "wait"
  /\ UNCHANGED <<setup, cycle, ctxDone, result, chan, all, failed>>

\* Mutant: having no data counts as a failure.
AccountNoData(outcome) ==
  /\ all' = IF outcome = "metrics" THEN Append(all, current) ELSE all
  /\ failed' = IF outcome \in {"error", "deadline", "nodata"}
               THEN failed \cup {current[1]} ELSE failed

\* How Collect accounts for what runCollector returns.
Account(outcome) ==
  /\ all' = IF outcome = "metrics" THEN Append(all, current) ELSE all
  /\ failed' = IF outcome \in {"error", "deadline"} THEN failed \cup {current[1]} ELSE failed

\* runCollector's return: the deferred cancel ends the run's context.
Return ==
  /\ cctx' = IF cctx[current] = "live" THEN [cctx EXCEPT ![current] = "canceled"] ELSE cctx
  /\ current' = NoRun /\ pc' = "loop"
  /\ UNCHANGED <<setup, cycle, todo, ctxDone, goroutine, result>>

\* Mutant: one channel per collector, kept from cycle to cycle.
ReadFromShared ==
  LET filled == {r \in Runs : r[1] = current[1] /\ chan[r] # None} IN
    IF filled = {} THEN current ELSE CHOOSE r \in filled : TRUE

\* The run whose channel runCollector reads
ReadFrom == current

\* case res := <-done
TakeResult ==
  /\ pc = "wait" /\ chan[ReadFrom] # None
  /\ Account(chan[ReadFrom])
  /\ chan' = [chan EXCEPT ![ReadFrom] = None]
  /\ Return

\* Mutant: only a cancelled cycle is given up.
GiveUpOnCancel ==
  /\ pc = "wait" /\ cctx[current] = "canceled"
  /\ Account(cctx[current])
  /\ Return
  /\ UNCHANGED chan

\* case <-cctx.Done(): the goroutine is left to itself.
GiveUp ==
  /\ pc = "wait" /\ cctx[current] # "live"
  /\ Account(cctx[current])
  /\ Return
  /\ UNCHANGED chan

FinishCycle ==
  /\ pc = "loop" /\ todo = {}
  /\ pc' = "idle"
  /\ UNCHANGED <<setup, cycle, todo, current, ctxDone, runVars, all, failed>>

----------------------------------------------------------------------------
\* The goroutines

\* The collector's method returns, now or never, and what it likes: no one sees
\* to it that a context's error is that of the run's own context.
CollectorReturns(r, outcome) ==
  /\ goroutine[r] = "collect"
  /\ goroutine' = [goroutine EXCEPT ![r] = "send"]
  /\ result' = [result EXCEPT ![r] = outcome]
  /\ UNCHANGED <<setup, pc, cycle, todo, current, ctxDone, cctx, chan, all, failed>>

\* Mutant: an unbuffered channel needs a reader.
HasRoomUnbuffered(r) == pc = "wait" /\ current = r

\* The channel has room for one result whether or not anyone reads it.
HasRoom(r) == chan[r] = None

GoroutineSends(r) ==
  /\ goroutine[r] = "send" /\ HasRoom(r)
  /\ chan' = [chan EXCEPT ![r] = result[r]]
  /\ goroutine' = [goroutine EXCEPT ![r] = "ended"]
  /\ UNCHANGED <<setup, pc, cycle, todo, current, ctxDone, cctx, result, all, failed>>

----------------------------------------------------------------------------
\* The clock and the signal

\* collectorTimeout has passed since the run's context was made.
DeadlinePasses ==
  /\ pc = "wait" /\ cctx[current] = "live"
  /\ cctx' = [cctx EXCEPT ![current] = "deadline"]
  /\ UNCHANGED <<setup, pc, cycle, todo, current, ctxDone, goroutine, result, chan, all, failed>>

Cancel ==
  /\ ~ctxDone /\ ctxDone' = TRUE
  /\ cctx' = [r \in Runs |-> IF cctx[r] = "live" THEN "canceled" ELSE cctx[r]]
  /\ UNCHANGED <<setup, pc, cycle, todo, current, goroutine, result, chan, all, failed>>

----------------------------------------------------------------------------

Loop == \/ NewRegistry
        \/ \E c \in Factories : RunCollector(c)
        \/ TakeResult \/ GiveUp \/ FinishCycle

Goroutines == \E r \in Runs :
                \/ GoroutineSends(r)
                \/ \E outcome \in Outcomes : CollectorReturns(r, outcome)

Next == StartCycle \/ Loop \/ Goroutines \/ DeadlinePasses \/ Cancel

Spec == Init /\ [][Next]_vars

\* The loop runs, the clock advances, and a goroutine that can send does; no
\* collector need ever return, and the context need not be cancelled.
FairSpec ==
  /\ Spec
  /\ WF_vars(Loop) /\ WF_vars(DeadlinePasses)
  /\ \A r \in Runs : WF_vars(GoroutineSends(r))
=============================================================================
