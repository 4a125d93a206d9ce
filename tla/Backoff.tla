------------------------------ MODULE Backoff ------------------------------
(***************************************************************************)
(* The delay generator of internal/backoff: each Next() returns the        *)
(* current delay and doubles it for the next call, capped at max; Reset()  *)
(* restores min.  A Backoff value is a record, as in the Go struct.        *)
(*                                                                         *)
(* Durations are integers of an int64-like type whose largest value is     *)
(* MaxDuration; doubling wraps around as Go's multiplication does.         *)
(***************************************************************************)
EXTENDS Integers

CONSTANT MaxDuration   \* the largest duration (2^63 - 1 nanoseconds in Go)

ASSUME MaxDurationAssumption == MaxDuration \in Nat

\* d * 2 in two's complement, for d within the type's range
Doubled(d) == IF 2 * d > MaxDuration THEN 2 * d - 2 * (MaxDuration + 1) ELSE 2 * d

\* Mutant: a max below min stays.
NewBackoffUnclamped(min, max) == [min |-> min, max |-> max, current |-> min]

\* New: a max below min is raised to min
NewBackoff(min, max) ==
  [min |-> min, max |-> IF max < min THEN min ELSE max, current |-> min]

\* Next: the value returned, and the Backoff it leaves behind
NextDelay(b) == b.current

\* Mutant: no cap.
AfterNextUncapped(b) == [b EXCEPT !.current = 2 * b.current]

\* Mutant: the last doubling before the cap is left out.
AfterNextShort(b) ==
  [b EXCEPT !.current = IF 2 * b.current >= b.max THEN b.current ELSE 2 * b.current]

AfterNext(b) ==
  [b EXCEPT !.current = IF Doubled(b.current) > b.max THEN b.max
                                                      ELSE Doubled(b.current)]

AfterReset(b) == [b EXCEPT !.current = b.min]

\* What every caller relies on: the next delay lies between the two limits.
InRange(b) == b.min <= b.current /\ b.current <= b.max
=============================================================================
