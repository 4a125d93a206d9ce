----------------------------- MODULE BackoffUse -----------------------------
(***************************************************************************)
(* A Backoff in use: any sequence of Next() and Reset() calls on one       *)
(* generator, whatever its limits.                                         *)
(***************************************************************************)
EXTENDS Backoff

CONSTANTS
  Limits,   \* the pairs <<min, max>> it may be made with
  MaxCalls  \* bound: how many calls are counted

ASSUME LimitsAssumption ==
  /\ MaxCalls \in Nat
  /\ Limits \subseteq {l \in Nat \X Nat : l[1] > 0 /\ 2 * l[1] <= MaxDuration /\ 2 * l[2] <= MaxDuration}

VARIABLES
  b,      \* the generator
  given,  \* what the last Next returned; the min before the first
  calls   \* history: Next calls since the last Reset (or New)

vars == <<b, given, calls>>

TypeOK ==
  /\ b \in [min : 1 .. MaxDuration, max : 1 .. MaxDuration, current : 1 .. MaxDuration]
  /\ given \in 1 .. MaxDuration
  /\ calls \in 0 .. MaxCalls

Init ==
  /\ \E l \in Limits : b = NewBackoff(l[1], l[2]) /\ given = l[1]
  /\ calls = 0

Next ==
  /\ calls < MaxCalls
  /\ given' = NextDelay(b) /\ b' = AfterNext(b)
  /\ calls' = calls + 1

Reset ==
  /\ b' = AfterReset(b) /\ calls' = 0
  /\ UNCHANGED given

Spec == Init /\ [][Next \/ Reset]_vars

----------------------------------------------------------------------------
\* backoff.go:8-10 (each Next doubles, capped at max): the delay returned and
\* the one to come lie between the limits after every sequence of calls; in
\* particular the doubling never wraps around to a negative duration, which
\* would make the retry timer fire at once, for ever.
DelaysInRange == InRange(b) /\ b.min <= given /\ given <= b.max

\* The reference definition: after n calls the next delay is min times 2^n, or
\* max if that is less.
ClosedForm ==
  LET power[n \in 0 .. MaxCalls] == IF n = 0 THEN 1 ELSE 2 * power[n - 1]
      unbounded == b.min * power[calls]
  IN
    b.current = IF unbounded > b.max THEN b.max ELSE unbounded
=============================================================================
