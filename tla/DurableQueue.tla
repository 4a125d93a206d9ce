---------------------------- MODULE DurableQueue ----------------------------
(***************************************************************************)
(* What the disk-backed buffer (internal/buffer) promises: a bounded queue, *)
(* oldest first, whose items survive the end of the process because each is *)
(* stored before it is queued.  The process may end between any two steps  *)
(* of a call; nothing is promised once the storage is broken.              *)
(***************************************************************************)
EXTENDS Sequences

CONSTANTS
  Item,
  Kept(_)    \* Kept(q): what is left of a queue when its oldest are dropped to fit

VARIABLES
  phase,     \* "down": no process; "busy": in a call, or starting; "ready"
  queue,     \* its queue, oldest first
  stored,    \* what a process that starts now would find
  written,   \* <<i>> once item i is stored and before it is queued, else << >>
  broken     \* the storage is broken

queueVars == <<phase, queue, stored, written, broken>>

Nothing == << >>

QueueInit ==
  /\ phase = "down" /\ queue = << >> /\ stored = << >>
  /\ written = Nothing /\ broken = FALSE

\* The process starts with what was stored, as far as it fits.
Start ==
  /\ phase = "down" /\ phase' = "busy"
  /\ queue' = Kept(stored)
  /\ UNCHANGED <<stored, written, broken>>

\* It ends, on purpose or not.
Stop ==
  /\ phase # "down" /\ phase' = "down"
  /\ queue' = << >> /\ written' = Nothing
  /\ UNCHANGED <<stored, broken>>

Call ==
  /\ phase = "ready" /\ phase' = "busy"
  /\ UNCHANGED <<queue, stored, written, broken>>

\* An item that was stored and is not queued is refused: the caller is told so.
Return ==
  /\ phase = "busy" /\ phase' = "ready" /\ written' = Nothing
  /\ UNCHANGED <<queue, stored, broken>>

\* An item is stored first, ...
Write(i) ==
  /\ phase = "busy" /\ written = Nothing
  /\ stored' = Append(stored, i) /\ written' = <<i>>
  /\ UNCHANGED <<phase, queue, broken>>

\* ... and then queued, for which the oldest items may have to go.
Accept ==
  /\ written # Nothing /\ written' = Nothing
  /\ queue' = Kept(queue \o written)
  /\ UNCHANGED <<phase, stored, broken>>

\* The caller takes the oldest item; it stays stored until the next Compact.
Take ==
  /\ phase = "ready" /\ queue # << >>
  /\ queue' = Tail(queue)
  /\ UNCHANGED <<phase, stored, written, broken>>

\* Just what is queued is stored, and the call is over.
Compact ==
  /\ phase = "busy" /\ written = Nothing /\ phase' = "ready"
  /\ stored' = queue
  /\ UNCHANGED <<queue, written, broken>>

QueueNext ==
  \/ Start \/ Stop \/ Call \/ Return
  \/ \E i \in Item : Write(i)
  \/ Accept \/ Take \/ Compact

QueueSpec == QueueInit /\ [][QueueNext \/ broken']_queueVars
=============================================================================
