------------------------------ MODULE TurnProps ------------------------------
(***************************************************************************)
(* What the TURN collector promises.                                       *)
(***************************************************************************)
EXTENDS Turn

\* turn_stats.go:18-22 (it returns "as soon as both values are seen"): stopping
\* early gives what the whole reply says.  A reply that is not whole may give
\* other numbers: if coturn died in the middle of it; and at the read deadline,
\* but then the registry has given the run up, unless there was no CPU window
\* to keep its deadline ahead.
NumbersOfWholeReply ==
  outcome = "metrics" /\ stats # NoStats =>
    \/ stats = Parse(reply)
    \/ arrived < Len(reply) /\ (closed \/ "cpu" \notin metrics)

\* turn_stats.go:46-47 (a final parse of what arrived): however the reply ends, a
\* number differs from the whole reply's only if it is on the line that
\* was being written.
OnlyLastLineCut ==
  outcome = "metrics" /\ stats # NoStats =>
    LET whole(word) == NumberWith(SubSeq(reply, 1, scanned), word) IN
      /\ whole("session") # NoNumber => stats.sessions = NumberWith(reply, "session")
      /\ whole("byte") # NoNumber => stats.bytes = NumberWith(reply, "byte")

\* turn_stats.go:31 (the deadline of the connection): the goroutine ends although
\* coturn may accept the connection and say nothing; an abandoned one too.
ReaderEnds == <>(at \in {"done", "failed"})

\* turn.go:58-59 ("Best-effort: if the CLI is unreachable or the output is
\* unrecognized, omit"): what coturn answers, or that it does not, never makes
\* the registry give the run up, so that the process's own metrics are lost.
SilentCLIOmitted == ~(outcome = "deadline" /\ at = "read")
=============================================================================
