------------------------------- MODULE Energy -------------------------------
(***************************************************************************)
(* The energy collector on Linux, internal/collector/energy.go and         *)
(* energy_linux.go, as the registry runs it: its Collect method step by     *)
(* step (see StatefulCollector).  A lock protects its baseline, but is     *)
(* taken only after the counter and the clock are read.                    *)
(***************************************************************************)
EXTENDS StatefulCollector

CONSTANTS
  CounterRange,  \* the counter wraps around to zero at this energy
  MaxEnergy      \* bound: energy consumed

ASSUME EnergyAssumption == CounterRange \in Nat \ {0} /\ MaxEnergy \in Nat

VARIABLES
  consumed,    \* the energy the package has consumed
  prevEnergy,  \* the collector's baseline, with prevTime
  energy,      \* energy[r]: the counter as the call read it, 0 when done with
  reported     \* reported[r]: its watts times the elapsed time, -1 if no data

rapl       == <<consumed, prevEnergy, energy, reported>>
energyVars == <<callVars, rapl>>

EnergyTypeOK ==
  /\ CallTypeOK
  /\ consumed \in 0 .. MaxEnergy /\ prevEnergy \in 0 .. CounterRange - 1
  /\ energy \in [Runs -> 0 .. CounterRange - 1]
  /\ reported \in [Runs -> -1 .. CounterRange - 1]

RaplInit ==
  /\ consumed = 0 /\ prevEnergy = 0
  /\ energy = [r \in Runs |-> 0] /\ reported = [r \in Runs |-> -1]

EnergyInit == CallInit /\ RaplInit

----------------------------------------------------------------------------
\* energyMetrics, in the goroutine of run r

ReadCounter(r) ==
  /\ GoesOn(r, "read", "now")
  /\ energy' = [energy EXCEPT ![r] = consumed % CounterRange]
  /\ UNCHANGED <<consumed, prevEnergy, reported>>

\* The counter cannot be read or parsed.
NoCounter(r) == GoesOn(r, "read", "return") /\ UNCHANGED rapl

NoteTime(r) == TakesTime(r, "now", "lock") /\ UNCHANGED rapl

\* Mutant: the baseline's energy is not moved on.
UnderLockOldEnergy(r) ==
  /\ Goes(r, "lock", "return")
  /\ IF prevTime = 0 \/ now[r] > prevTime
     THEN prevEnergy' = (IF prevTime = 0 THEN energy[r] ELSE prevEnergy) /\ prevTime' = now[r]
     ELSE UNCHANGED <<prevEnergy, prevTime>>
  /\ reported' = [reported EXCEPT ![r] =
       IF prevTime = 0 \/ now[r] <= prevTime THEN -1
       ELSE IF energy[r] < prevEnergy THEN 0 ELSE energy[r] - prevEnergy]
  /\ energy' = [energy EXCEPT ![r] = 0] /\ now' = [now EXCEPT ![r] = 0]
  /\ UNCHANGED consumed

\* From Lock to the deferred Unlock: the first baseline, or no time elapsed, or
\* the draw since the baseline, which moves on.
UnderLock(r) ==
  /\ Goes(r, "lock", "return")
  /\ IF prevTime = 0 \/ now[r] > prevTime
     THEN prevEnergy' = energy[r] /\ prevTime' = now[r]
     ELSE UNCHANGED <<prevEnergy, prevTime>>
  /\ reported' = [reported EXCEPT ![r] =
       IF prevTime = 0 \/ now[r] <= prevTime THEN -1
       ELSE IF energy[r] < prevEnergy THEN 0 ELSE energy[r] - prevEnergy]
  /\ energy' = [energy EXCEPT ![r] = 0] /\ now' = [now EXCEPT ![r] = 0]
  /\ UNCHANGED consumed

\* Collect turns every error into ErrNoData.
DrawReturns(r) ==
  /\ CallReturns(r, IF reported[r] = -1 THEN "nodata" ELSE "metrics")
  /\ UNCHANGED rapl

----------------------------------------------------------------------------

Consume ==
  /\ consumed < MaxEnergy /\ consumed' = consumed + 1
  /\ UNCHANGED <<callVars, prevEnergy, energy, reported>>

DrawStep(r) ==
  \/ ReadCounter(r) \/ NoCounter(r) \/ NoteTime(r) \/ UnderLock(r) \/ DrawReturns(r)

EnergyNext ==
  \/ (RegistryStep \/ ClockTicks) /\ UNCHANGED rapl
  \/ Consume
  \/ \E r \in Runs : DrawStep(r)

EnergySpec == EnergyInit /\ [][EnergyNext]_energyVars
=============================================================================
