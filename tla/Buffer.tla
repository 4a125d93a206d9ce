------------------------------- MODULE Buffer -------------------------------
(***************************************************************************)
(* The disk-backed queue of internal/buffer.  The entries slice is the     *)
(* queue the agent works on; the file holds one payload per line so that   *)
(* unsent heartbeats survive a restart.                                    *)
(*                                                                         *)
(* One action per system call, so that the process can die, or the call    *)
(* can fail, between any two of them.  The agent calls the methods from    *)
(* one goroutine, so at most one of them is in progress (bpc says how far  *)
(* it has come); the mutex is never contended.                             *)
(*                                                                         *)
(* Text.  What matters of a line is which heartbeats' bytes it holds and   *)
(* how long it is: a text is a sequence of fragments, a fragment being the *)
(* first n bytes of heartbeat hb's payload.  A write that stops early      *)
(* leaves a shorter fragment, and no newline after it.                     *)
(***************************************************************************)
EXTENDS Integers, Sequences, Functions

CONSTANTS
  MaxHeartbeat,  \* heartbeats are numbered 1 .. MaxHeartbeat as they are built,
                 \* all from the MaxHeartbeat-th on with that number
  PayloadLen,    \* PayloadLen[h]: the length of heartbeat h's JSON payload
  MaxBytes,      \* the cap on the buffered bytes (buffer_max_size_mb)
  Faults         \* which calls can fail, see FaultKinds

Heartbeats == 1 .. MaxHeartbeat

FaultKinds == {"load",    \* opening or reading the file at start
               "open",    \* opening the file for append
               "short",   \* a write that stores only part of the line
               "close",   \* closing the file after a complete write
               "rewrite", \* any call of writeAll before the rename
               "crash"}   \* the process dies

ASSUME BufferAssumption ==
  /\ MaxHeartbeat \in Nat
  /\ PayloadLen \in [Heartbeats -> Nat \ {0}]
  /\ MaxBytes \in Nat
  /\ Faults \subseteq FaultKinds

Fragments == [hb : Heartbeats, n : Nat \ {0}]
Texts     == [frags : Seq(Fragments), len : Nat]
Empty     == [frags |-> << >>, len |-> 0]

\* the first n bytes of h's payload, and the whole of it
Prefix(h, n) == [frags |-> <<[hb |-> h, n |-> n]>>, len |-> n]
Payload(h)   == Prefix(h, PayloadLen[h])
Glue(s, t)   == [frags |-> s.frags \o t.frags, len |-> s.len + t.len]

\* An entry's contribution to size: its bytes and the newline.
Weight(t) == t.len + 1

VARIABLES
  entries,   \* the queue in memory, oldest first
  size,      \* the running sum of the entries' weights
  lines,     \* the file's complete lines
  tail,      \* what follows the last newline of the file
  bpc,       \* the call in progress and how far it is; "down": no process
  caller,    \* the method that runs dropOldestToFit and writeAll
  arg,       \* the heartbeat being appended, 0 when none is
  dropped,   \* dropOldestToFit has dropped an entry
  cursor,    \* the lines load has read
  owed,      \* history: appended, and neither popped nor dropped to fit
  evicted,   \* history: dropped to fit
  torn       \* history: a write has stopped in the middle of a line

memVars  == <<entries, size>>
fileVars == <<lines, tail>>
callVars == <<bpc, caller, arg, dropped, cursor>>
histVars == <<owed, evicted, torn>>
bufVars  == <<memVars, fileVars, callVars, histVars>>

BufferPCs == {"down", "load", "trim", "rewrite", "idle", "append", "close"}

BufferTypeOK ==
  /\ entries \in Seq(Texts)
  /\ size \in Nat
  /\ lines \in Seq(Texts)
  /\ tail \in Texts
  /\ bpc \in BufferPCs
  /\ caller \in {"none", "load", "append", "persist"}
  /\ arg \in Heartbeats \cup {0}
  /\ dropped \in BOOLEAN
  /\ cursor \in Nat
  /\ owed \subseteq Heartbeats
  /\ evicted \subseteq Heartbeats
  /\ torn \in BOOLEAN

BufferInit ==
  /\ entries = << >> /\ size = 0
  /\ lines = << >> /\ tail = Empty      \* no file is the same as an empty one
  /\ bpc = "down" /\ caller = "none" /\ arg = 0 /\ dropped = FALSE /\ cursor = 0
  /\ owed = {} /\ evicted = {} /\ torn = FALSE

----------------------------------------------------------------------------
\* Queries

\* The heartbeats whose complete bytes are in a text
HeartbeatsIn(t) == {h \in Heartbeats : [hb |-> h, n |-> PayloadLen[h]] \in Range(t.frags)}

\* The lines a scanner yields: an unterminated last line counts.  Empty lines
\* are skipped, but no line is ever empty.
FileLines == IF tail = Empty THEN lines ELSE Append(lines, tail)

\* Append's test that the payload alone fits.
Fits(h) == Weight(Payload(h)) <= MaxBytes

\* The call in progress returns (or the method is done).
Return == /\ bpc' = "idle" /\ caller' = "none" /\ arg' = 0
          /\ dropped' = FALSE /\ cursor' = 0

\* The process is gone, and with it everything but the file.
Die == /\ bpc' = "down" /\ caller' = "none" /\ arg' = 0
       /\ dropped' = FALSE /\ cursor' = 0
       /\ entries' = << >> /\ size' = 0
       /\ UNCHANGED <<fileVars, histVars>>

----------------------------------------------------------------------------
\* New and load

Open ==
  /\ bpc = "down"
  /\ bpc' = "load" /\ caller' = "load" /\ cursor' = 0
  /\ UNCHANGED <<memVars, fileVars, arg, dropped, histVars>>

\* Mutant: load does not add the line to size.
LoadLineUncounted ==
  /\ bpc = "load" /\ cursor < Len(FileLines)
  /\ entries' = Append(entries, FileLines[cursor + 1]) /\ UNCHANGED size
  /\ cursor' = cursor + 1
  /\ UNCHANGED <<fileVars, bpc, caller, arg, dropped, histVars>>

\* Mutant: load skips a line that starts with an incomplete payload.
LoadLineSkipsTorn ==
  /\ bpc = "load" /\ cursor < Len(FileLines)
  /\ LET line == FileLines[cursor + 1] IN
       IF line.frags[1].n < PayloadLen[line.frags[1].hb]
       THEN UNCHANGED memVars
       ELSE entries' = Append(entries, line) /\ size' = size + Weight(line)
  /\ cursor' = cursor + 1
  /\ UNCHANGED <<fileVars, bpc, caller, arg, dropped, histVars>>

LoadLine ==
  /\ bpc = "load" /\ cursor < Len(FileLines)
  /\ LET line == FileLines[cursor + 1] IN
       /\ entries' = Append(entries, line)
       /\ size' = size + Weight(line)
  /\ cursor' = cursor + 1
  /\ UNCHANGED <<fileVars, bpc, caller, arg, dropped, histVars>>

\* Mutant: load stops one line early.
LoadEndEarly ==
  /\ bpc = "load" /\ cursor >= Len(FileLines) - 1
  /\ bpc' = "trim" /\ cursor' = 0
  /\ UNCHANGED <<memVars, fileVars, caller, arg, dropped, histVars>>

LoadEnd ==
  /\ bpc = "load" /\ cursor = Len(FileLines)
  /\ bpc' = "trim" /\ cursor' = 0
  /\ UNCHANGED <<memVars, fileVars, caller, arg, dropped, histVars>>

\* New returns the error and the process exits.
LoadFails == bpc = "load" /\ "load" \in Faults /\ Die

----------------------------------------------------------------------------
\* dropOldestToFit and writeAll, called by load, Append and Persist

\* Mutant: a byte more than the cap is let pass.
OverCapByTwo == size > MaxBytes + 1 /\ entries # << >>

\* Mutant: a queue that just fills the cap loses its oldest entry.
OverCapFull == size >= MaxBytes /\ entries # << >>

OverCap == size > MaxBytes /\ entries # << >>

DropOldest ==
  /\ bpc = "trim" /\ OverCap
  /\ LET gone == HeartbeatsIn(Head(entries)) IN
       /\ owed' = owed \ gone
       /\ evicted' = evicted \cup (owed \cap gone)
  /\ size' = size - Weight(Head(entries))
  /\ entries' = Tail(entries)
  /\ dropped' = TRUE
  /\ UNCHANGED <<fileVars, bpc, caller, arg, cursor, torn>>

TrimEnd ==
  /\ bpc = "trim" /\ ~OverCap
  /\ IF dropped THEN bpc' = "rewrite" /\ UNCHANGED <<caller, arg, dropped, cursor>>
                ELSE Return
  /\ UNCHANGED <<memVars, fileVars, histVars>>

\* The temp file is complete and renamed over the buffer file.
Rewrite ==
  /\ bpc = "rewrite"
  /\ lines' = entries /\ tail' = Empty
  /\ Return
  /\ UNCHANGED <<memVars, histVars>>

\* The file stays as it was.  The error ends New, and with it the process;
\* Append and Persist return it to an agent that only logs it.
RewriteFails ==
  /\ bpc = "rewrite" /\ "rewrite" \in Faults
  /\ IF caller = "load" THEN Die
                        ELSE Return /\ UNCHANGED <<memVars, fileVars, histVars>>

----------------------------------------------------------------------------
\* Append

\* A payload that can never fit is dropped without an error.
AppendOversized(h) ==
  /\ bpc = "idle" /\ ~Fits(h)
  /\ UNCHANGED bufVars

AppendCall(h) ==
  /\ bpc = "idle" /\ Fits(h)
  /\ bpc' = "append" /\ arg' = h /\ caller' = "append"
  /\ UNCHANGED <<memVars, fileVars, dropped, cursor, histVars>>

AppendOpenFails ==
  /\ bpc = "append" /\ "open" \in Faults
  /\ Return
  /\ UNCHANGED <<memVars, fileVars, histVars>>

\* The line is written behind whatever the file ends with.
AppendWrite ==
  /\ bpc = "append"
  /\ lines' = Append(lines, Glue(tail, Payload(arg)))
  /\ tail' = Empty
  /\ bpc' = "close"
  /\ UNCHANGED <<memVars, caller, arg, dropped, cursor, histVars>>

\* The write stores n bytes and fails (or the process dies during it); all of
\* the payload may be there, but not the newline.
AppendShort(n) ==
  /\ bpc = "append" /\ "short" \in Faults /\ n \in 1 .. PayloadLen[arg]
  /\ tail' = Glue(tail, Prefix(arg, n))
  /\ torn' = TRUE
  /\ Return
  /\ UNCHANGED <<memVars, lines, owed, evicted>>

AppendCloseFails ==
  /\ bpc = "close" /\ "close" \in Faults
  /\ Return
  /\ UNCHANGED <<memVars, fileVars, histVars>>

\* Mutant: the newest entry is put first.
AppendCloseFirst ==
  /\ bpc = "close"
  /\ entries' = <<Payload(arg)>> \o entries
  /\ size' = size + Weight(Payload(arg))
  /\ owed' = owed \cup {arg}
  /\ bpc' = "trim"
  /\ UNCHANGED <<fileVars, caller, arg, dropped, cursor, evicted, torn>>

AppendClose ==
  /\ bpc = "close"
  /\ entries' = Append(entries, Payload(arg))
  /\ size' = size + Weight(Payload(arg))
  /\ owed' = owed \cup {arg}
  /\ bpc' = "trim"
  /\ UNCHANGED <<fileVars, caller, arg, dropped, cursor, evicted, torn>>

----------------------------------------------------------------------------
\* Pop and Persist

\* Mutant: Pop forgets the newline in the size.
PopNoNewline ==
  /\ bpc = "idle" /\ entries # << >>
  /\ size' = size - Head(entries).len
  /\ entries' = Tail(entries)
  /\ owed' = owed \ HeartbeatsIn(Head(entries))
  /\ UNCHANGED <<fileVars, callVars, evicted, torn>>

Pop ==
  /\ bpc = "idle" /\ entries # << >>
  /\ size' = size - Weight(Head(entries))
  /\ entries' = Tail(entries)
  /\ owed' = owed \ HeartbeatsIn(Head(entries))
  /\ UNCHANGED <<fileVars, callVars, evicted, torn>>

\* Mutant: the file is truncated and rewritten in place.
PersistCallInPlace ==
  /\ bpc = "idle"
  /\ bpc' = "rewrite" /\ caller' = "persist"
  /\ lines' = << >> /\ tail' = Empty
  /\ UNCHANGED <<memVars, arg, dropped, cursor, histVars>>

PersistCall ==
  /\ bpc = "idle"
  /\ bpc' = "rewrite" /\ caller' = "persist"
  /\ UNCHANGED <<memVars, fileVars, arg, dropped, cursor, histVars>>

----------------------------------------------------------------------------
\* The end of the process: on purpose, between two calls, or at any point.

Exit  == bpc = "idle" /\ Die
Crash == bpc # "down" /\ "crash" \in Faults /\ Die

----------------------------------------------------------------------------
\* The steps of a call once it has been made, and their failures.

BufferStep ==
  \/ LoadLine \/ LoadEnd
  \/ DropOldest \/ TrimEnd \/ Rewrite
  \/ AppendWrite \/ AppendClose

BufferFault ==
  \/ LoadFails \/ RewriteFails
  \/ AppendOpenFails \/ AppendCloseFails
  \/ \E n \in 1 .. (IF arg = 0 THEN 0 ELSE PayloadLen[arg]) : AppendShort(n)

\* On its own the buffer serves a client that appends heartbeats in the order
\* in which they were built, none again that is in the queue or the file, and
\* pops and persists at will.  The last number stands for all later heartbeats.
Newest(h) ==
  \A t \in Range(entries) \cup Range(FileLines) :
    \A i \in DOMAIN t.frags :
      t.frags[i].hb < h \/ (h = MaxHeartbeat /\ t.frags[i].hb = h)

ClientAppends == \E h \in Heartbeats : Newest(h) /\ AppendCall(h)

AllButAppends ==
  \/ Open \/ BufferStep \/ BufferFault
  \/ Pop \/ PersistCall
  \/ Exit \/ Crash

BufferNext == ClientAppends \/ AllButAppends

BufferSpec == BufferInit /\ [][BufferNext]_bufVars
=============================================================================
