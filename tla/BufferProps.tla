----------------------------- MODULE BufferProps -----------------------------
(***************************************************************************)
(* What the disk-backed buffer promises its caller.                        *)
(***************************************************************************)
EXTENDS Buffer

\* The sum of a queue's weights, by recursion on the place in it
TotalWeight(q) ==
  LET from[i \in 1 .. Len(q) + 1] ==
        IF i = Len(q) + 1 THEN 0 ELSE Weight(q[i]) + from[i + 1]
  IN  from[1]

\* buffer.go:21 ("sum of len(entry)+1"): adjusted by every load, Append, drop
\* and Pop, size is at every step the sum of the weights of the entries.
SizeAccurate == size = TotalWeight(entries)

\* Between two calls, and from the moment dropOldestToFit has returned, the
\* entries in memory are within the cap (buffer.go:141-151: oldest entries go
\* until the size fits).  It rests on size being kept right through load,
\* Append, Pop and every drop.
CapRespected ==
  bpc \in {"idle", "append", "close", "rewrite"} => size <= MaxBytes

\* h has a line of its own: a load would read it back.
OnDisk(h) == Payload(h) \in Range(FileLines)

\* buffer.go:13-15: until a write stops in the middle of a line, a load of the
\* file would give back, at every moment of every call, with the process up or
\* down, each heartbeat that was appended and neither popped nor dropped to fit.
Durable == torn \/ \A h \in owed : OnDisk(h)

\* buffer.go:13-15 as a caller sees it: whenever the buffer is ready for a
\* call, after any number of restarts, it holds each heartbeat that was
\* appended and neither popped nor dropped to fit; until a write stops in the
\* middle of a line.
Recovered ==
  bpc = "idle" /\ ~torn => \A h \in owed : Payload(h) \in Range(entries)

\* buffer.go:13-15 as written, without that condition.
SurvivesRestart ==
  bpc = "idle" => \A h \in owed : Payload(h) \in Range(entries)

\* Even when a write stops in the middle of a line, which the next one then
\* continues (buffer.go:78), the complete bytes of each heartbeat owed are
\* somewhere in the file.
BytesKept == \A h \in owed : \E t \in Range(FileLines) : h \in HeartbeatsIn(t)

\* The heartbeat with the first bytes of a line.
FirstIn(t) == t.frags[1].hb
InOrder(s) == \A i, j \in DOMAIN s : i < j => FirstIn(s[i]) <= FirstIn(s[j])

\* buffer.go:20 (oldest first): the queue and the file are in the order in
\* which the heartbeats were built, whatever fails and across restarts.
OldestFirst == InOrder(entries) /\ InOrder(FileLines)
=============================================================================
