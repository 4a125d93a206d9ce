----------------------------- MODULE AgentProps -----------------------------
(***************************************************************************)
(* What the agent's loop, the buffer, the backoff and the server do        *)
(* together.                                                               *)
(***************************************************************************)
EXTENDS Agent, BufferProps, FiniteSets

\* agent.go:20-21 ("a downed server costs no data"): every heartbeat built is
\* recorded by the server, owed by the buffer, dropped to fit the cap, or the
\* one being worked on.  The exceptions are counted: a heartbeat that can
\* never fit, at most one per crash (in flight), and at most one per failing
\* call of Append (logged, agent.go:56).  Once a write has stopped in the middle
\* of a line nothing is said: of the two payloads on the line that the next
\* Append makes, a server that accepts it may record only the first.
NoLoss ==
  \/ torn
  \/ /\ \A h \in Tracked : h <= cur =>
          \/ received[h] > 0
          \/ h \in owed \cup evicted \cup casualties
          \/ h = cur /\ InFlight
     /\ Cardinality({h \in casualties : Fits(h)}) <= crashes + faults

\* From its build to the end of its Append's first half, nothing but the loop
\* knows of the current heartbeat.
Working ==
  /\ branch = "tick"
  /\ \/ pc \in {"flush", "pop", "flushed", "persist", "send", "append"}
     \/ pc = "arm" /\ bpc \in {"append", "close"}

\* The fitting ones of heartbeats h to n are within the cap together; of those not
\* told apart nothing is known.
Together(h, n) ==
  LET from[k \in h .. n + 1] ==
        IF k = n + 1 THEN 0 ELSE (IF Fits(k) THEN Weight(Payload(k)) ELSE 0) + from[k + 1]
  IN  n < Later /\ from[h] <= MaxBytes

\* What the buffer owes, and what is in the loop's hands
ToDeliver == (owed \cup IF Working THEN {cur} ELSE {}) \cap Tracked

\* A graceful shutdown is a mishap only after a fault, which can have left the file
\* with more than the queue.
MishapCount == lost + crashes + faults + IF faults > 0 THEN stops ELSE 0

Delivery == INSTANCE AtLeastOnce WITH
  Heartbeat <- Tracked,
  Unfit     <- {h \in Heartbeats : ~Fits(h)},
  RoomFor   <- Together,
  newest    <- cur,
  waiting   <- ToDeliver,
  delivered <- received,
  mishaps   <- MishapCount,
  broken    <- torn

\* agent.go:20-21 and buffer.go:13-15, 20: the agent, whose loop, retries, crashes and
\* restarts all work on two copies of a queue, delivers each heartbeat that it builds at
\* least once and the buffered ones oldest first, except for those that had to
\* make room, or that were the newest when a mishap took them.
ImplementsDelivery == Delivery!DeliverySpec

\* buffer.go:14-15 (at-least-once): a heartbeat reaches the server a second
\* time only after a lost reply, a crash, or a restart with a file that could
\* not be compacted.  A graceful shutdown in itself re-sends nothing.
DuplicatesExplained ==
  \A h \in Tracked :
    received[h] <= 1 + lost + crashes + (IF faults > 0 THEN stops ELSE 0)

\* As long as no operation has failed, the loop is back in its select with the
\* file holding exactly the queue: no sent entry lingers in it to be sent again
\* after a restart, and no unsent one is missing.
Settled == pc = "select" /\ faults = 0 => FileLines = entries

\* The loop keeps to the contract of the buffer's client (buffer.go:105-106,
\* one goroutine, a method at a time): one call ends before the next begins, and
\* a heartbeat is appended only if it is newer than all of which something is in
\* the queue or the file, through retries, crashes and restarts; in particular
\* none is appended again while it, or a part of it, is there.  So everything said
\* of BufferSpec holds here.  When an entry may be popped is no part of the contract:
\* that it has been sent is in NoLoss and ImplementsDelivery.
BufferContract == BufferSpec

\* agent.go:25-27: the tick timer is not delayed by retries; the collectors
\* run again and again whatever the server does.
CollectionNotStarved == []<>(pc = "collect")

\* agent.go:20-21: once the server stays up, every heartbeat it buffered leaves
\* the queue.
Drains == <>[]up => <>[](owed = {})

\* agent.go:21 (blocks until ctx is cancelled): a cancelled context ends Run,
\* from wherever the loop is.
ShutdownCompletes == ctxDone ~> pc = "off"

\* agent.go:20 as written: while something is buffered, a retry is scheduled.
RetryTimerCoversBacklog == pc = "select" /\ entries # << >> => retry # Off
=============================================================================
