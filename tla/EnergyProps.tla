---------------------------- MODULE EnergyProps ----------------------------
(***************************************************************************)
(* What the energy collector's metric says of the energy.                  *)
(***************************************************************************)
EXTENDS Energy, Functions

\* The energy that the power draws reported account for
EnergyReported ==
  SumFunction([r \in Runs |-> IF reported[r] = -1 THEN 0 ELSE reported[r]])

\* energy.go:17-18 (the baseline is kept "so the delta between reads is the
\* power draw"): over any number of cycles the draws reported account for no
\* more energy than the package has consumed, whatever wraps around and
\* whichever results are given up, as long as no two Collect calls overlap:
\* the reading that is compared with the baseline is taken outside its lock.
EnergyCountedOnce == overlapped \/ EnergyReported <= consumed
=============================================================================
