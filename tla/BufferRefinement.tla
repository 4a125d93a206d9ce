-------------------------- MODULE BufferRefinement --------------------------
(***************************************************************************)
(* The disk-backed buffer implements the durable queue.                    *)
(***************************************************************************)
EXTENDS BufferProps

Sequence == INSTANCE SequencesExt

SuffixesWithinCap(q) == {s \in Sequence!Suffixes(q) : TotalWeight(s) <= MaxBytes}

\* The longest suffix of a queue that is within the cap
NewestWithinCap(q) ==
  CHOOSE s \in SuffixesWithinCap(q) : \A t \in SuffixesWithinCap(q) : Len(t) <= Len(s)

\* The mapping.  Loading happens before the process starts, as far as its caller
\* can tell; dropping the oldest is part of the step that made the queue too
\* long, so a queue that is being trimmed stands for what will be left of it.
Running == bpc \notin {"down", "load"}

Queue == INSTANCE DurableQueue WITH
  Item    <- {Payload(h) : h \in Heartbeats},
  Kept    <- NewestWithinCap,
  phase   <- IF ~Running THEN "down" ELSE IF bpc = "idle" THEN "ready" ELSE "busy",
  queue   <- IF ~Running THEN << >>
             ELSE IF bpc = "trim" THEN NewestWithinCap(entries) ELSE entries,
  stored  <- FileLines,
  written <- IF bpc = "close" THEN <<Payload(arg)>> ELSE << >>,
  broken  <- torn

\* buffer.go:13-20: through every failure of a call and every end of the process
\* the buffer is a bounded queue that stores an item before it queues it, drops
\* the oldest and only as many as it must, and starts again with what is stored;
\* until a write stops in the middle of a line.
ImplementsQueue == Queue!QueueSpec
=============================================================================
