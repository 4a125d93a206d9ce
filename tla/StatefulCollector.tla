-------------------------- MODULE StatefulCollector --------------------------
(***************************************************************************)
(* What the network and the energy collector have in common as the         *)
(* registry runs them (registry.go): Collect calls that go on after they   *)
(* were abandoned at their deadline, and fields that outlive a call, among *)
(* them the time of the last reading.  A call takes a step of its own at   *)
(* each read of a device or of the clock, at each lock and at each wait.   *)
(* The fields that no lock protects are read or written in one step where  *)
(* the code does it in a row (network.go:53-54, 57-58 and 110-113): what   *)
(* two calls that overlap within such a row make of the fields is left     *)
(* out.                                                                    *)
(***************************************************************************)
EXTENDS Registry

CONSTANT MaxClock  \* bound: time units

ASSUME ClockAssumption == MaxClock \in Nat \ {0}

VARIABLES
  clock,
  prevTime,    \* the collector's field, 0 before the first reading
  at,          \* at[r]: the point that run r's Collect call has reached
  now,         \* now[r]: the time it took, 0 when it is done with
  overlapped   \* history: a Collect call was begun before an earlier one's return

callVars == <<vars, clock, prevTime, at, now, overlapped>>

\* The points of both collectors' methods
Points == {"read", "now", "rate", "store", "ask", "compare", "lock", "return"}

CallTypeOK ==
  /\ TypeOK
  /\ clock \in 1 .. MaxClock /\ prevTime \in 0 .. MaxClock
  /\ at \in [Runs -> Points] /\ now \in [Runs -> 0 .. MaxClock]
  /\ overlapped \in BOOLEAN

CallInit ==
  /\ Init
  /\ clock = 1 /\ prevTime = 0
  /\ at = [r \in Runs |-> "read"] /\ now = [r \in Runs |-> 0]
  /\ overlapped = FALSE

\* Run r's call goes from point here to point there.
Goes(r, here, there) ==
  /\ goroutine[r] = "collect" /\ at[r] = here
  /\ at' = [at EXCEPT ![r] = there]
  /\ UNCHANGED <<vars, clock, overlapped>>

GoesOn(r, here, there) == Goes(r, here, there) /\ UNCHANGED <<prevTime, now>>

\* now := time.Now()
TakesTime(r, here, there) ==
  /\ Goes(r, here, there)
  /\ now' = [now EXCEPT ![r] = clock]
  /\ UNCHANGED prevTime

\* Its Collect method returns.
CallReturns(r, outcome) ==
  /\ at[r] = "return" /\ CollectorReturns(r, outcome)
  /\ UNCHANGED <<clock, prevTime, at, now, overlapped>>

\* The registry's own steps leave the collector alone.
RegistryStep ==
  /\ \/ NewRegistry \/ StartCycle \/ TakeResult \/ GiveUp \/ FinishCycle
     \/ \E c \in Factories : RunCollector(c)
     \/ \E r \in Runs : GoroutineSends(r)
     \/ DeadlinePasses \/ Cancel
  /\ overlapped' = (overlapped \/ \E r, s \in Runs :
                      r # s /\ goroutine[r] = "collect" /\ goroutine'[s] = "collect")
  /\ UNCHANGED <<clock, prevTime, at, now>>

ClockTicks ==
  /\ clock < MaxClock /\ clock' = clock + 1
  /\ UNCHANGED <<vars, prevTime, at, now, overlapped>>
=============================================================================
