--------------------------- MODULE DeliveryProofs ---------------------------
(***************************************************************************)
(* Proofs that the agent delivers each heartbeat once, except for what a   *)
(* mishap can explain, and that its file settles; for any values of the    *)
(* constants, torn writes included; and that, until a write is torn, it    *)
(* implements the delivery at least once.                                  *)
(***************************************************************************)
EXTENDS AgentProofs

(***************************************************************************)
(* The file and the queue, as long as nothing has failed.                  *)
(***************************************************************************)

\* The file is what the queue is, except while an entry that was dropped or
\* popped has yet to be followed by a rewrite, and while an Append has written
\* what it has not queued.
FileIsQueue ==
  /\ tail = Empty
  /\ bpc = "trim" /\ ~dropped => lines = entries
  /\ bpc = "append" => lines = entries
  /\ bpc = "close" => lines = Append(entries, Payload(arg))
  /\ bpc = "idle" /\ (~flushed \/ pc = "persist") => lines = entries

Flushing == flushed => pc \in {"flush", "pop", "flushed", "persist"}

SettledInv == Flushing /\ (faults = 0 => FileIsQueue)

LEMMA FlushingStep ==
  ASSUME Flushing, CallMatches, [Next]_vars
  PROVE  Flushing'
<1> USE DEF Flushing, NoBranch, loopVars
<1>1. CASE Boot \/ BootFailed \/ Started \/ Shutdown \/ Tick \/ Retry \/ Elapse
  BY <1>1 DEF Boot, BootFailed, Started, Shutdown, Tick, Retry, Elapse
<1>2. ASSUME NEW d, CollectAndBuild(d) \/ FlushSendOk(d) \/ FlushSendFails(d)
      PROVE  Flushing'
  BY <1>2 DEF CollectAndBuild, FlushSendOk, FlushSendFails
<1>3. ASSUME NEW d, CurSendOk(d) \/ CurSendFails(d)
      PROVE  Flushing'
  BY <1>3 DEF CurSendOk, CurSendFails
<1>4. CASE FlushPop \/ FlushEmpty \/ FlushPersist \/ FlushReturn
  BY <1>4 DEF FlushPop, FlushEmpty, FlushPersist, FlushReturn
<1>5. CASE BufferCur \/ ArmAfterAppend \/ Drain \/ BufferProgress \/ BufferFails
  BY <1>5 DEF BufferCur, ArmAfterAppend, Drain, BufferProgress, BufferFails
<1>6. CASE (\E d : BuildFails(d)) \/ Cancel \/ ServerFlips \/ ProcessDies
  BY <1>6 DEF BuildFails, Cancel, ServerFlips, ProcessDies
<1>7. CASE UNCHANGED vars
  BY <1>7 DEF vars
<1>8. QED
  BY <1>1, <1>2, <1>3, <1>4, <1>5, <1>6, <1>7 DEF Next, Process, Mishap

\* The steps of a call that does not fail
LEMMA FileIsQueueCall ==
  ASSUME BytesInv, CallMatches, FileIsQueue, BufferProgress
  PROVE  FileIsQueue'
<1>a. /\ entries \in Seq(Texts) /\ lines \in Seq(Texts) /\ FileLines = lines
      /\ bpc \in BufferPCs
  BY DEF BytesInv, SizeInv, BufferTypeOK, FileIsQueue, FileLines
<1>b. BufferStep /\ pc' = pc /\ flushed' = flushed
  BY DEF BufferProgress, loopVars
<1> USE DEF FileIsQueue, memVars, fileVars, callVars, histVars, Return
<1>1. CASE LoadLine
  BY <1>1 DEF LoadLine
<1>2. CASE LoadEnd
  <2>1. ReadSoFar /\ cursor = Len(lines)
    BY <1>a, <1>2 DEF LoadEnd, BytesInv
  <2>2. entries = lines
    BY <1>a, <2>1, SeqEqual DEF ReadSoFar
  <2>3. QED
    BY <1>2, <2>2 DEF LoadEnd
<1>3. CASE DropOldest
  BY <1>3 DEF DropOldest
<1>4. CASE TrimEnd
  BY <1>4 DEF TrimEnd
<1>5. CASE Rewrite
  BY <1>5 DEF Rewrite
<1>6. CASE AppendWrite
  <2>1. arg \in Heartbeats /\ Glue(tail, Payload(arg)) = Payload(arg)
    BY <1>6, GlueToEmpty DEF AppendWrite, BytesInv, SizeInv, CallInv
  <2>2. QED
    BY <1>6, <2>1 DEF AppendWrite
<1>7. CASE AppendClose
  BY <1>7 DEF AppendClose
<1>8. QED
  BY <1>b, <1>1, <1>2, <1>3, <1>4, <1>5, <1>6, <1>7 DEF BufferStep

LEMMA SettledStep ==
  ASSUME BytesInv, CountTypes, CallMatches, SettledInv, [Next]_vars
  PROVE  SettledInv'
<1>a. bpc \in BufferPCs /\ faults \in Nat
  BY AgentAssumption DEF BytesInv, SizeInv, BufferTypeOK, CountTypes
<1> DEFINE Goal == faults' = 0 => FileIsQueue'
<1> SUFFICES Goal
  BY FlushingStep DEF SettledInv
<1>1. CASE UNCHANGED <<bufVars, pc, flushed, faults>>
  BY <1>1 DEF SettledInv, FileIsQueue, bufVars, memVars, fileVars, callVars
<1>2. CASE faults' = faults + 1
  BY <1>a, <1>2
<1> USE DEF SettledInv, Flushing, FileIsQueue, bufVars, memVars, fileVars, callVars, loopVars,
            countVars, CallMatches
<1>3. CASE BootFailed \/ Started \/ Tick \/ Retry \/ Elapse \/ Cancel \/ ServerFlips
  BY <1>3 DEF BootFailed, Started, Tick, Retry, Elapse, Cancel, ServerFlips
<1>4. CASE Boot
  BY <1>4 DEF Boot, Open
<1>5. CASE Shutdown \/ ProcessDies
  BY <1>5 DEF Shutdown, Exit, ProcessDies, Crash, Die
<1>6. ASSUME NEW d, CollectAndBuild(d) \/ FlushSendOk(d) \/ FlushSendFails(d) \/ CurSendFails(d)
      PROVE  Goal
  BY <1>6 DEF CollectAndBuild, FlushSendOk, FlushSendFails, CurSendFails
<1>7. ASSUME NEW d, CurSendOk(d) PROVE Goal
  BY <1>7 DEF CurSendOk, NoBranch
<1>8. CASE FlushPop \/ FlushEmpty \/ FlushReturn
  BY <1>8 DEF FlushPop, Pop, FlushEmpty, FlushReturn, AfterFlush
<1>9. CASE FlushPersist
  BY <1>9 DEF FlushPersist, PersistCall
<1>10. CASE BufferCur
  BY <1>10 DEF BufferCur, AppendCall, AppendOversized
<1>11. CASE ArmAfterAppend \/ Drain
  BY <1>11 DEF ArmAfterAppend, Drain, NoBranch
<1>12. CASE BufferProgress
  <2>1. faults' = faults
    BY <1>12 DEF BufferProgress
  <2>2. faults = 0 => FileIsQueue
    OBVIOUS
  <2>3. QED
    BY <1>12, <2>1, <2>2, FileIsQueueCall
<1>13. CASE BufferFails \/ (\E d : BuildFails(d))
  BY <1>2, <1>13 DEF BufferFails, BuildFails
<1>14. CASE UNCHANGED vars
  BY <1>1, <1>14 DEF vars
<1>15. QED
  BY <1>3, <1>4, <1>5, <1>6, <1>7, <1>8, <1>9, <1>10, <1>11, <1>12, <1>13, <1>14
  DEF Next, Process, Mishap

\* What is proved of the buffer, and of the loop and the call it makes
LEMMA AuxiliaryAlways ==
  Spec => [](AgentInv /\ Types /\ CallMatches /\ BytesInv /\ OrderInv)
<1>1. AllInv => AgentInv /\ Types /\ CallMatches
  BY DEF AllInv
<1>2. BufferSpec => []BytesInv /\ []OrderInv
  BY BytesInvAlways, OrderStarts, OrderInductive, PTL DEF BufferSpec
<1>3. Spec => BufferSpec
  BY AgentKeepsBufferContract DEF BufferContract
<1>4. QED
  BY <1>1, <1>2, <1>3, AllInvInit, AllInvStep, PTL DEF Spec

LEMMA SettledAlways == Spec => []SettledInv
<1>1. Init => SettledInv
  BY DEF Init, BufferInit, SettledInv, Flushing, FileIsQueue
<1>2. /\ AgentInv /\ Types /\ CallMatches /\ BytesInv /\ OrderInv
      /\ SettledInv /\ [Next]_vars
      => SettledInv'
  BY SettledStep DEF Types
<1>3. QED
  BY <1>1, <1>2, AuxiliaryAlways, PTL DEF Spec

\* agent.go:73-101 with buffer.go:64-91: until an operation has failed, the loop
\* is back in its select with the file holding exactly the queue, after any
\* number of crashes and restarts.
THEOREM AgentSettled == Spec => []Settled
<1>1. CallMatches /\ SettledInv => Settled
  BY DEF CallMatches, SettledInv, Flushing, FileIsQueue, Settled, FileLines
<1>2. QED
  BY <1>1, SettledAlways, AuxiliaryAlways, PTL

(***************************************************************************)
(* Each heartbeat once.                                                    *)
(***************************************************************************)

\* A line of s would be sent as h.
Names(s, h) == \E t \in Range(s) : FirstIn(t) = h

\* No two lines of s would be sent as the same heartbeat.
Distinct(s) ==
  \A i, j \in DOMAIN s : i # j => FirstIn(s[i]) # FirstIn(s[j]) \/ FirstIn(s[i]) = Later

\* The process is down or its buffer is being opened.
Starting == bpc = "down" \/ caller = "load"

\* Each line of the queue and the file is of a heartbeat of its own; a queue that
\* is being loaded is in the file; and the current heartbeat is in neither until
\* its Append puts it there.
LinesInv ==
  /\ bpc = "load" => caller = "load"
  /\ Distinct(entries) /\ Distinct(FileLines)
  /\ Starting => \A h \in Tracked : Names(entries, h) => Names(FileLines, h)
  /\ cur \in Tracked /\ Working =>
       /\ ~Names(entries, cur)
       /\ bpc # "close" => ~Names(FileLines, cur)

LEMMA NamesAppend ==
  ASSUME NEW s \in Seq(NonEmpty), NEW t \in NonEmpty, NEW h
  PROVE  Names(Append(s, t), h) <=> Names(s, h) \/ FirstIn(t) = h
BY RangeAppend DEF Names

LEMMA NamesTail ==
  ASSUME NEW s \in Seq(NonEmpty), s # << >>, NEW h
  PROVE  Names(s, h) <=> FirstIn(Head(s)) = h \/ Names(Tail(s), h)
BY RangeTail DEF Names

LEMMA NamesIndex ==
  ASSUME NEW s \in Seq(NonEmpty), NEW h
  PROVE  Names(s, h) <=> \E i \in 1 .. Len(s) : FirstIn(s[i]) = h
BY RangeEquality DEF Names

LEMMA DistinctAppend ==
  ASSUME NEW s \in Seq(NonEmpty), NEW t \in NonEmpty
  PROVE  Distinct(Append(s, t)) <=>
           Distinct(s) /\ (FirstIn(t) = Later \/ ~Names(s, FirstIn(t)))
<1>1. /\ DOMAIN Append(s, t) = 1 .. Len(s) + 1 /\ Len(s) \in Nat /\ DOMAIN s = 1 .. Len(s)
      /\ \A i \in 1 .. Len(s) : Append(s, t)[i] = s[i]
      /\ Append(s, t)[Len(s) + 1] = t
  BY AppendProperties, LenProperties
<1>2. Names(s, FirstIn(t)) <=> \E i \in 1 .. Len(s) : FirstIn(s[i]) = FirstIn(t)
  BY NamesIndex
<1>3. ASSUME Distinct(Append(s, t))
      PROVE  Distinct(s) /\ (FirstIn(t) = Later \/ ~Names(s, FirstIn(t)))
  <2>1. Distinct(s)
    BY <1>1, <1>3 DEF Distinct
  <2>2. ASSUME NEW i \in 1 .. Len(s), FirstIn(s[i]) = FirstIn(t)
        PROVE  FirstIn(t) = Later
    <3>1. i \in 1 .. Len(s) + 1 /\ Len(s) + 1 \in 1 .. Len(s) + 1 /\ i # Len(s) + 1
      BY <1>1
    <3>2. QED
      BY <1>1, <1>3, <2>2, <3>1 DEF Distinct
  <2>3. QED
    BY <1>2, <2>1, <2>2
<1>4. ASSUME Distinct(s), FirstIn(t) = Later \/ ~Names(s, FirstIn(t)),
             NEW i \in 1 .. Len(s) + 1, NEW j \in 1 .. Len(s) + 1, i # j
      PROVE  \/ FirstIn(Append(s, t)[i]) # FirstIn(Append(s, t)[j])
             \/ FirstIn(Append(s, t)[i]) = Later
  <2>1. CASE i \in 1 .. Len(s) /\ j \in 1 .. Len(s)
    BY <1>1, <1>4, <2>1 DEF Distinct
  <2>2. CASE i = Len(s) + 1 /\ j \in 1 .. Len(s)
    BY <1>1, <1>2, <1>4, <2>2
  <2>3. CASE i \in 1 .. Len(s) /\ j = Len(s) + 1
    BY <1>1, <1>2, <1>4, <2>3
  <2>4. QED
    BY <1>1, <1>4, <2>1, <2>2, <2>3
<1>5. QED
  BY <1>1, <1>3, <1>4 DEF Distinct

LEMMA DistinctTail ==
  ASSUME NEW s \in Seq(NonEmpty), s # << >>, Distinct(s)
  PROVE  /\ Distinct(Tail(s))
         /\ FirstIn(Head(s)) # Later => ~Names(Tail(s), FirstIn(Head(s)))
<1>1. /\ Tail(s) \in Seq(NonEmpty) /\ Len(Tail(s)) = Len(s) - 1 /\ Len(s) \in Nat /\ Len(s) >= 1
      /\ \A i \in 1 .. Len(Tail(s)) : Tail(s)[i] = s[i + 1]
      /\ DOMAIN Tail(s) = 1 .. Len(Tail(s)) /\ DOMAIN s = 1 .. Len(s) /\ Head(s) = s[1]
  BY HeadTailProperties, LenProperties, EmptySeq
<1>2. Distinct(Tail(s))
  BY <1>1 DEF Distinct
<1>3. ASSUME NEW i \in 1 .. Len(Tail(s)), FirstIn(Tail(s)[i]) = FirstIn(Head(s))
      PROVE  FirstIn(Head(s)) = Later
  <2>1. i + 1 \in DOMAIN s /\ 1 \in DOMAIN s /\ i + 1 # 1
    BY <1>1
  <2>2. QED
    BY <1>1, <1>3, <2>1 DEF Distinct
<1>4. QED
  BY <1>1, <1>2, <1>3, NamesIndex

\* A write continues the last line, or begins one of the heartbeat appended.
LEMMA NamesWritten ==
  ASSUME OrderInv, bpc = "append", NEW n \in Nat \ {0}
  PROVE  /\ \A h : Names(Append(lines, Glue(tail, Prefix(arg, n))), h) <=>
                     Names(FileLines, h) \/ (tail = Empty /\ h = arg)
         /\ Distinct(FileLines) /\ (arg = Later \/ ~Names(FileLines, arg))
              => Distinct(Append(lines, Glue(tail, Prefix(arg, n))))
<1> DEFINE g == Glue(tail, Prefix(arg, n))
<1>1. /\ g \in NonEmpty /\ lines \in Seq(NonEmpty)
      /\ FirstIn(g) = IF tail = Empty THEN arg ELSE FirstIn(tail)
  BY FirstWritten DEF OrderInv, SizeInv, CallInv
<1> HIDE DEF g
<1>2. CASE tail = Empty
  <2>1. FirstIn(g) = arg /\ FileLines = lines
    BY <1>1, <1>2 DEF FileLines
  <2>2. \A h : Names(Append(lines, g), h) <=> Names(FileLines, h) \/ h = arg
    BY <1>1, <2>1, NamesAppend
  <2>3. Distinct(FileLines) /\ (arg = Later \/ ~Names(FileLines, arg)) => Distinct(Append(lines, g))
    BY <1>1, <2>1, DistinctAppend
  <2>4. QED
    BY <1>2, <2>2, <2>3 DEF g
<1>3. CASE tail # Empty
  <2>1. tail \in NonEmpty /\ FileLines = Append(lines, tail) /\ FirstIn(g) = FirstIn(tail)
    BY <1>1, <1>3 DEF OrderInv, FileLines
  <2>2. \A h : Names(Append(lines, g), h) <=> Names(FileLines, h)
    BY <1>1, <2>1, NamesAppend
  <2>3. Distinct(FileLines) => Distinct(Append(lines, g))
    BY <1>1, <2>1, DistinctAppend
  <2>4. QED
    BY <1>3, <2>2, <2>3 DEF g
<1>4. QED
  BY <1>2, <1>3 DEF g

\* What flushBuffer has yet to send
Unsent == IF pc = "pop" THEN Tail(entries) ELSE entries

\* h will be sent, though nothing more goes wrong.
Waiting(h) ==
  \/ Starting /\ Names(FileLines, h)
  \/ ~Starting /\ Names(Unsent, h)
  \/ h = cur /\ Working

\* No heartbeat waits that did not before, and none comes into the file that was
\* not waiting.
NoneMoreWait ==
  \A h \in Tracked :
    /\ Waiting(h)' => Waiting(h)
    /\ Names(FileLines, h)' => Names(FileLines, h) \/ Waiting(h)

LEMMA LinesCall ==
  ASSUME AgentInv, CallMatches, OrderInv, OrderInv', LinesInv, UNCHANGED loopVars,
         BufferStep \/ BufferFault
  PROVE  LinesInv' /\ NoneMoreWait
<1> USE DEF LinesInv, NoneMoreWait, Waiting, Unsent, Starting, memVars, fileVars, callVars,
            histVars, loopVars, Return
<1>a. /\ entries \in Seq(NonEmpty) /\ lines \in Seq(NonEmpty) /\ FileLines \in Seq(NonEmpty)
      /\ bpc \in BufferPCs
  BY FileIsNonEmpty DEF OrderInv, SizeInv, BufferTypeOK
<1>b. lines' = lines /\ tail' = tail => FileLines' = FileLines
  BY DEF FileLines
<1>c. /\ bpc # "idle"
      /\ pc' = pc /\ cur' = cur /\ branch' = branch
  BY DEF BufferStep, LoadLine, LoadEnd, DropOldest, TrimEnd, Rewrite, AppendWrite, AppendClose,
         BufferFault, LoadFails, RewriteFails, AppendOpenFails, AppendCloseFails, AppendShort
<1>d. pc \in {"off", "boot", "persist", "arm"} /\ Unsent = entries /\ Unsent' = entries'
  BY <1>c DEF CallMatches
<1>e. Distinct(<< >>) /\ \A h : ~Names(<< >>, h)
  BY DEF Distinct, Names, Range
<1>1. CASE LoadLine
  <2>1. /\ bpc = "load" /\ bpc' = "load" /\ caller = "load" /\ caller' = "load"
        /\ lines' = lines /\ tail' = tail /\ ~Working /\ ~Working'
    BY <1>1, <1>c DEF LoadLine, CallMatches, Working
  <2>2. /\ Len(entries') = cursor' /\ cursor' <= Len(FileLines) /\ cursor' \in Nat
        /\ \A i \in 1 .. cursor' : entries'[i] = FileLines[i]
        /\ entries' \in Seq(NonEmpty)
    BY <1>b, <2>1 DEF OrderInv, ReadSoFar, SizeInv, BufferTypeOK
  <2>3. DOMAIN entries' = 1 .. cursor' /\ DOMAIN FileLines = 1 .. Len(FileLines) /\ Len(FileLines) \in Nat
    BY <1>a, <2>2, LenProperties
  <2>4. Distinct(entries')
    BY <2>2, <2>3 DEF Distinct
  <2>5. \A h : Names(entries', h) => Names(FileLines, h)
    BY <1>a, <2>2, <2>3, NamesIndex
  <2>6. QED
    BY <1>b, <1>d, <2>1, <2>4, <2>5
<1>2. CASE LoadEnd
  BY <1>2, <1>b, <1>c, <1>d DEF LoadEnd, CallMatches, Working
<1>3. CASE DropOldest
  <2>1. entries # << >> /\ entries' = Tail(entries)
    BY <1>3 DEF DropOldest, OverCap
  <2>2. Distinct(entries') /\ \A h : Names(entries', h) => Names(entries, h)
    BY <1>a, <2>1, DistinctTail, NamesTail
  <2>3. QED
    BY <1>3, <1>b, <1>c, <1>d, <2>2 DEF DropOldest, Working
<1>4. CASE TrimEnd
  BY <1>4, <1>b, <1>c, <1>d DEF TrimEnd, Working
<1>5. CASE Rewrite
  <2>1. FileLines' = entries
    BY <1>5 DEF Rewrite, FileLines
  <2>2. QED
    BY <1>5, <1>c, <1>d, <2>1 DEF Rewrite, Working
<1>6. CASE AppendWrite
  <2>1. /\ bpc = "append" /\ pc = "arm" /\ arg = cur /\ caller # "load" /\ branch = "tick"
        /\ arg \in Heartbeats /\ Working
    BY <1>6 DEF AppendWrite, CallMatches, OrderInv, SizeInv, CallInv, Working
  <2>2. FileLines' = Append(lines, Glue(tail, Payload(arg)))
    BY <1>6 DEF AppendWrite, FileLines
  <2>3. /\ \A h : Names(FileLines', h) => Names(FileLines, h) \/ h = cur
        /\ arg = Later \/ ~Names(FileLines, arg) => Distinct(FileLines')
    BY <2>1, <2>2, NamesWritten, BufferAssumption DEF Payload
  <2>4. Distinct(FileLines')
    BY <2>1, <2>3 DEF Tracked
  <2>5. QED
    BY <1>6, <1>c, <1>d, <2>1, <2>3, <2>4 DEF AppendWrite, Working
<1>7. CASE AppendClose
  <2>1. /\ bpc = "close" /\ pc = "arm" /\ arg = cur /\ caller # "load" /\ branch = "tick"
        /\ arg \in Heartbeats /\ Working /\ ~Working'
    BY <1>7, <1>c DEF AppendClose, CallMatches, OrderInv, SizeInv, CallInv, Working
  <2>2. Payload(arg) \in NonEmpty /\ FirstIn(Payload(arg)) = arg
    BY <2>1, PayloadIsText DEF NonEmpty, Payload, Prefix, FirstIn
  <2>3. \A h : Names(entries', h) <=> Names(entries, h) \/ h = cur
    BY <1>7, <1>a, <2>1, <2>2, NamesAppend DEF AppendClose
  <2>4. Distinct(entries')
    BY <1>7, <1>a, <2>1, <2>2, DistinctAppend DEF AppendClose, Tracked
  <2>5. QED
    BY <1>7, <1>b, <1>d, <2>1, <2>3, <2>4 DEF AppendClose
<1>8. CASE LoadFails
  BY <1>8, <1>b, <1>c, <1>d, <1>e DEF LoadFails, Die, CallMatches, Working
<1>9. CASE RewriteFails
  <2>1. CASE caller = "load"
    BY <1>9, <1>b, <1>c, <1>d, <1>e, <2>1 DEF RewriteFails, Die, CallMatches, Working
  <2>2. CASE caller # "load"
    BY <1>9, <1>b, <1>c, <1>d, <2>2 DEF RewriteFails, Working
  <2>3. QED
    BY <2>1, <2>2
<1>10. CASE AppendOpenFails \/ AppendCloseFails
  BY <1>10, <1>b, <1>c, <1>d DEF AppendOpenFails, AppendCloseFails, CallMatches, Working
<1>11. ASSUME NEW n, AppendShort(n)
       PROVE  LinesInv' /\ NoneMoreWait
  <2>1. /\ bpc = "append" /\ pc = "arm" /\ arg = cur /\ caller # "load" /\ branch = "tick"
        /\ arg \in Heartbeats /\ Working /\ ~Working' /\ n \in Nat \ {0}
    BY <1>11, <1>c, BufferAssumption
    DEF AppendShort, CallMatches, OrderInv, SizeInv, CallInv, Working
  <2>2. tail' = Glue(tail, Prefix(arg, n)) /\ lines' = lines /\ tail' # Empty
    BY <1>11, <2>1, FirstWritten DEF AppendShort, OrderInv, NonEmpty, Empty
  <2>3. FileLines' = Append(lines, Glue(tail, Prefix(arg, n)))
    BY <2>2 DEF FileLines
  <2>4. /\ \A h : Names(FileLines', h) => Names(FileLines, h) \/ h = cur
        /\ arg = Later \/ ~Names(FileLines, arg) => Distinct(FileLines')
    BY <2>1, <2>3, NamesWritten
  <2>5. Distinct(FileLines')
    BY <2>1, <2>4 DEF Tracked
  <2>6. QED
    BY <1>11, <1>d, <2>1, <2>4, <2>5 DEF AppendShort
<1>12. QED
  BY <1>1, <1>2, <1>3, <1>4, <1>5, <1>6, <1>7, <1>8, <1>9, <1>10, <1>11
  DEF BufferStep, BufferFault

LEMMA LinesStep ==
  ASSUME AgentInv, AgentInv', Types, CallMatches, OrderInv, OrderInv', LinesInv, [Next]_vars
  PROVE  LinesInv'
<1> USE DEF NoBranch, bufVars, memVars, fileVars, callVars, loopVars
<1>b. lines' = lines /\ tail' = tail => FileLines' = FileLines
  BY DEF FileLines
<1>c. entries \in Seq(NonEmpty) /\ FileLines \in Seq(NonEmpty)
  BY FileIsNonEmpty DEF OrderInv
<1>1. CASE UNCHANGED bufVars /\ cur' = cur /\ (Working' => Working)
  BY <1>1, <1>b DEF LinesInv, Starting
<1>2. CASE BootFailed \/ Started \/ Tick \/ Retry \/ Elapse \/ Drain \/ ArmAfterAppend
  BY <1>1, <1>2 DEF BootFailed, Started, Tick, Retry, Elapse, Drain, ArmAfterAppend, Working
<1>3. CASE Boot
  BY <1>3, <1>b DEF Boot, Open, LinesInv, Starting, Working
<1>4. CASE Shutdown \/ ProcessDies
  <2>1. entries' = << >> /\ bpc' = "down" /\ pc' = "off" /\ lines' = lines /\ tail' = tail
    BY <1>4 DEF Shutdown, Exit, ProcessDies, Crash, Die
  <2>2. Distinct(<< >>) /\ \A h : ~Names(<< >>, h)
    BY DEF Distinct, Names, Range
  <2>3. QED
    BY <1>b, <2>1, <2>2 DEF LinesInv, Starting, Working
<1>5. ASSUME NEW d, CollectAndBuild(d)
      PROVE  LinesInv'
  <2>1. /\ UNCHANGED bufVars /\ pc' = "flush" /\ pc = "collect"
        /\ cur' = IF cur < Later THEN cur + 1 ELSE Later
    BY <1>5 DEF CollectAndBuild
  <2>2. ASSUME cur' \in Tracked, NEW s \in Seq(NonEmpty), Names(s, cur'),
               \A t \in Range(s) : NoneAbove(t)
        PROVE  FALSE
    <3>1. PICK t \in Range(s) : FirstIn(t) = cur'
      BY <2>2 DEF Names
    <3>2. t \in NonEmpty
      BY <2>2, <3>1, RangeOfSeq
    <3>3. FirstIn(t) <= cur
      BY <2>2, <3>2, FirstIsHeartbeat DEF NoneAbove, NoneOver, FirstIn
    <3>4. cur' = cur + 1 /\ cur \in Nat
      BY <2>1, <2>2, BufferAssumption DEF Tracked, Later, AgentInv, CurIsBuilt, Heartbeats
    <3>5. QED
      BY <3>1, <3>3, <3>4
  <2>3. /\ \A t \in Range(entries) : NoneAbove(t)
        /\ \A t \in Range(FileLines) : NoneAbove(t)
    BY RangeFileLines, AgentUpToCur DEF AgentInv, SizeInv, UpToCur, NoneNewer, NoneAbove
  <2>4. QED
    BY <1>b, <1>c, <2>1, <2>2, <2>3 DEF LinesInv, Starting
<1>6. ASSUME NEW d, FlushSendOk(d) \/ FlushSendFails(d) \/ CurSendFails(d) \/ CurSendOk(d)
      PROVE  LinesInv'
  BY <1>1, <1>6 DEF FlushSendOk, FlushSendFails, CurSendFails, CurSendOk, Working
<1>7. CASE FlushPop
  <2>1. entries # << >> /\ entries' = Tail(entries)
    BY <1>7 DEF FlushPop, Pop
  <2>2. Distinct(entries') /\ \A h : Names(entries', h) => Names(entries, h)
    BY <1>c, <2>1, DistinctTail, NamesTail DEF LinesInv
  <2>3. QED
    BY <1>7, <1>b, <2>2 DEF FlushPop, Pop, LinesInv, Starting, Working
<1>8. CASE FlushEmpty \/ FlushReturn
  BY <1>1, <1>8 DEF FlushEmpty, FlushReturn, AfterFlush, Working
<1>9. CASE FlushPersist
  BY <1>9, <1>b DEF FlushPersist, PersistCall, LinesInv, Starting, Working
<1>10. CASE BufferCur
  BY <1>10, <1>b DEF BufferCur, AppendCall, AppendOversized, LinesInv, Starting, Working, CallMatches
<1>11. CASE BufferProgress \/ BufferFails
  BY <1>11, LinesCall DEF BufferProgress, BufferFails
<1>12. CASE (\E d : BuildFails(d)) \/ Cancel \/ ServerFlips
  BY <1>1, <1>12 DEF BuildFails, Cancel, ServerFlips, Working
<1>13. CASE UNCHANGED vars
  BY <1>1, <1>13 DEF vars, Working
<1>14. QED
  BY <1>2, <1>3, <1>4, <1>5, <1>6, <1>7, <1>8, <1>9, <1>10, <1>11, <1>12, <1>13
  DEF Next, Process, Mishap

----------------------------------------------------------------------------
\* The mishaps that explain a second delivery

\* A shutdown that has been asked for counts once it has happened.
MishapsOf(l, c, f, s) == l + c + (IF f > 0 THEN s ELSE 0)
OverOf(l, c, f, s, a) == MishapsOf(l, c, f, s) - (IF f > 0 THEN a ELSE 0)
Asked   == IF ctxDone THEN 1 ELSE 0
Mishaps == MishapsOf(lost, crashes, faults, stops)
Over    == OverOf(lost, crashes, faults, stops, Asked)

StopAsked == ctxDone => stops >= 1

\* What waits to be sent has been recorded only as often as mishaps explain;
\* what merely lingers in the file, once more.
Bounds(h) ==
  /\ h > cur => received[h] = 0
  /\ Waiting(h) => received[h] <= Over
  /\ Names(FileLines, h) => received[h] <= 1 + Over
  /\ received[h] <= 1 + Mishaps

SentInv == \A h \in Tracked : Bounds(h)

LEMMA CountsMove ==
  ASSUME Types, StopAsked, [Next]_vars
  PROVE  /\ lost' \in {lost, lost + 1} /\ crashes' \in {crashes, crashes + 1}
         /\ faults' \in {faults, faults + 1}
         /\ \/ stops' = stops /\ (ctxDone' => ctxDone)
            \/ stops' = stops + 1 /\ ~ctxDone /\ ctxDone'
<1> DEFINE Goal == /\ lost' \in {lost, lost + 1} /\ crashes' \in {crashes, crashes + 1}
                   /\ faults' \in {faults, faults + 1}
                   /\ \/ stops' = stops /\ (ctxDone' => ctxDone)
                      \/ stops' = stops + 1 /\ ~ctxDone /\ ctxDone'
<1> USE DEF countVars, serverVars
<1>1. CASE Boot \/ BootFailed \/ Started \/ Shutdown \/ Tick \/ Retry \/ Elapse
  BY <1>1 DEF Boot, BootFailed, Started, Shutdown, Tick, Retry, Elapse, Types, LoopTypes
<1>2. ASSUME NEW d, CollectAndBuild(d) PROVE Goal
  BY <1>2 DEF CollectAndBuild
<1>3. ASSUME NEW d, FlushSendOk(d) \/ FlushSendFails(d) \/ CurSendOk(d) \/ CurSendFails(d)
      PROVE  Goal
  BY <1>3 DEF FlushSendOk, FlushSendFails, CurSendOk, CurSendFails, SendOk, SendFails
<1>4. CASE FlushPop \/ FlushEmpty \/ FlushPersist \/ FlushReturn
  BY <1>4 DEF FlushPop, FlushEmpty, FlushPersist, FlushReturn
<1>5. CASE BufferCur \/ ArmAfterAppend \/ Drain \/ BufferProgress \/ BufferFails
  BY <1>5 DEF BufferCur, ArmAfterAppend, Drain, BufferProgress, BufferFails
<1>6. CASE (\E d : BuildFails(d)) \/ Cancel \/ ServerFlips \/ ProcessDies
  BY <1>6 DEF BuildFails, Cancel, ServerFlips, ProcessDies
<1>7. CASE UNCHANGED vars
  BY <1>7 DEF vars
<1>8. QED
  BY <1>1, <1>2, <1>3, <1>4, <1>5, <1>6, <1>7 DEF Next, Process, Mishap

LEMMA CountsAreNats ==
  ASSUME Types
  PROVE  /\ lost \in Nat /\ crashes \in Nat /\ faults \in Nat /\ stops \in Nat
         /\ ctxDone \in BOOLEAN
         /\ \A h \in Tracked : received[h] \in Nat
BY AgentAssumption DEF Types, ServerTypes, CountTypes, LoopTypes

LEMMA OverGrows ==
  ASSUME Types, Types', StopAsked, [Next]_vars
  PROVE  /\ StopAsked'
         /\ Over \in Nat /\ Over' \in Nat /\ Mishaps \in Nat /\ Mishaps' \in Nat
         /\ Over <= Mishaps /\ Over' <= Mishaps'
         /\ Over <= Over' /\ Mishaps <= Mishaps'
         /\ crashes' = crashes + 1 => Over + 1 <= Over'
         /\ lost' = lost + 1 => Over + 1 <= Over' /\ Mishaps + 1 <= Mishaps'
         /\ faults > 0 /\ ctxDone /\ ~ctxDone' => Over + 1 <= Over'
<1>1. /\ lost \in Nat /\ crashes \in Nat /\ faults \in Nat /\ stops \in Nat
      /\ ctxDone \in BOOLEAN
  BY CountsAreNats
<1>2. /\ lost' \in Nat /\ crashes' \in Nat /\ faults' \in Nat /\ stops' \in Nat
      /\ ctxDone' \in BOOLEAN
  BY AgentAssumption DEF Types, ServerTypes, CountTypes, LoopTypes
<1>3. /\ lost' \in {lost, lost + 1} /\ crashes' \in {crashes, crashes + 1}
      /\ faults' \in {faults, faults + 1}
      /\ \/ stops' = stops /\ (ctxDone' => ctxDone)
         \/ stops' = stops + 1 /\ ~ctxDone /\ ctxDone'
  BY CountsMove
<1>4. /\ Asked \in {0, 1} /\ Asked' \in {0, 1}
      /\ Asked = 1 <=> ctxDone
      /\ Asked' = 1 <=> ctxDone'
      /\ Asked <= stops
  BY <1>1, <1>2 DEF StopAsked, Asked
<1>5. \/ stops' = stops /\ Asked' <= Asked
      \/ stops' = stops + 1 /\ Asked = 0 /\ Asked' = 1
  BY <1>3, <1>4
<1>6. ctxDone /\ ~ctxDone' => Asked = 1 /\ Asked' = 0
  BY <1>4
<1>7. StopAsked' <=> (ctxDone' => stops' >= 1)
  BY DEF StopAsked
<1>8. /\ Over = OverOf(lost, crashes, faults, stops, Asked)
      /\ Over' = OverOf(lost', crashes', faults', stops', Asked')
      /\ Mishaps = MishapsOf(lost, crashes, faults, stops)
      /\ Mishaps' = MishapsOf(lost', crashes', faults', stops')
  BY DEF Over, Mishaps
<1>9. /\ Asked' <= stops'
      /\ Over \in Nat /\ Over' \in Nat /\ Mishaps \in Nat /\ Mishaps' \in Nat
      /\ Over <= Mishaps /\ Over' <= Mishaps'
      /\ Over <= Over' /\ Mishaps <= Mishaps'
      /\ crashes' = crashes + 1 => Over + 1 <= Over'
      /\ lost' = lost + 1 => Over + 1 <= Over' /\ Mishaps + 1 <= Mishaps'
      /\ faults > 0 /\ Asked = 1 /\ Asked' = 0 => Over + 1 <= Over'
  <2>1. PICK l \in Nat, c \in Nat, f \in Nat, s \in Nat, a \in {0, 1},
             ll \in Nat, cc \in Nat, ff \in Nat, ss \in Nat, aa \in {0, 1} :
          /\ l = lost /\ c = crashes /\ f = faults /\ s = stops /\ a = Asked
          /\ ll = lost' /\ cc = crashes' /\ ff = faults' /\ ss = stops' /\ aa = Asked'
    BY <1>1, <1>2, <1>4
  <2>2. /\ ll = l \/ ll = l + 1
        /\ cc = c \/ cc = c + 1
        /\ ff = f \/ ff = f + 1
        /\ (ss = s /\ aa <= a) \/ (ss = s + 1 /\ a = 0 /\ aa = 1)
        /\ a <= s
    BY <1>3, <1>4, <1>5, <2>1
  <2>3. /\ Over = OverOf(l, c, f, s, a) /\ Over' = OverOf(ll, cc, ff, ss, aa)
        /\ Mishaps = MishapsOf(l, c, f, s) /\ Mishaps' = MishapsOf(ll, cc, ff, ss)
    BY <1>8, <2>1
  <2>4. /\ aa <= ss
        /\ OverOf(l, c, f, s, a) \in Nat /\ OverOf(ll, cc, ff, ss, aa) \in Nat
        /\ MishapsOf(l, c, f, s) \in Nat /\ MishapsOf(ll, cc, ff, ss) \in Nat
        /\ OverOf(l, c, f, s, a) <= MishapsOf(l, c, f, s)
        /\ OverOf(ll, cc, ff, ss, aa) <= MishapsOf(ll, cc, ff, ss)
        /\ OverOf(l, c, f, s, a) <= OverOf(ll, cc, ff, ss, aa)
        /\ MishapsOf(l, c, f, s) <= MishapsOf(ll, cc, ff, ss)
        /\ cc = c + 1 => OverOf(l, c, f, s, a) + 1 <= OverOf(ll, cc, ff, ss, aa)
        /\ ll = l + 1 => /\ OverOf(l, c, f, s, a) + 1 <= OverOf(ll, cc, ff, ss, aa)
                         /\ MishapsOf(l, c, f, s) + 1 <= MishapsOf(ll, cc, ff, ss)
        /\ f > 0 /\ a = 1 /\ aa = 0 => OverOf(l, c, f, s, a) + 1 <= OverOf(ll, cc, ff, ss, aa)
    <3>1. CASE f > 0
      BY <2>2, <3>1 DEF OverOf, MishapsOf
    <3>2. CASE f = 0
      BY <2>2, <3>2 DEF OverOf, MishapsOf
    <3>3. QED
      BY <3>1, <3>2
  <2>5. QED
    BY <2>1, <2>3, <2>4
<1>10. QED
  BY <1>2, <1>4, <1>6, <1>7, <1>9

----------------------------------------------------------------------------
\* A step that records nothing, or records one heartbeat

LEMMA RecordOne ==
  ASSUME ServerTypes, NEW t, Record(t), NEW h \in Tracked
  PROVE  \/ received'[h] = received[h]
         \/ h = FirstIn(t) /\ received'[h] = received[h] + 1
BY DEF ServerTypes, Record, FirstIn

LEMMA QuietStep ==
  ASSUME UNCHANGED bufVars, cur' = cur, Working' => Working,
         pc' = pc \/ (pc # "pop" /\ pc' # "pop")
  PROVE  NoneMoreWait
<1>1. /\ FileLines' = FileLines /\ Starting' = Starting /\ Unsent' = Unsent
  BY DEF bufVars, memVars, fileVars, callVars, FileLines, Starting, Unsent
<1>2. QED
  BY <1>1 DEF NoneMoreWait, Waiting

\* What a step does to the bounds of one heartbeat: nothing new is recorded; one
\* more is, and its reply lost; one more is, and it no longer waits; or a mishap
\* leaves what was in the file to be sent again.
LEMMA BoundsStep ==
  ASSUME Types, Types', StopAsked, [Next]_vars, NEW h \in Tracked, Bounds(h),
         h > cur' => h > cur \/ received'[h] = 0,
         Names(FileLines, h)' => Names(FileLines, h) \/ Waiting(h) \/ received'[h] = 0,
         \/ received'[h] = received[h] /\ (Waiting(h)' => Waiting(h) \/ received'[h] = 0)
         \/ /\ received'[h] = received[h] + 1 /\ ~(h > cur')
            /\ (lost' = lost + 1 /\ (Waiting(h)' => Waiting(h))) \/ (Waiting(h) /\ ~Waiting(h)')
         \/ /\ received'[h] = received[h] /\ (Waiting(h)' => Names(FileLines, h))
            /\ crashes' = crashes + 1 \/ (faults > 0 /\ ctxDone /\ ~ctxDone')
  PROVE  Bounds(h)'
<1>1. /\ Over \in Nat /\ Over' \in Nat /\ Mishaps \in Nat /\ Mishaps' \in Nat
      /\ Over <= Mishaps /\ Over' <= Mishaps'
      /\ Over <= Over' /\ Mishaps <= Mishaps'
      /\ crashes' = crashes + 1 => Over + 1 <= Over'
      /\ lost' = lost + 1 => Over + 1 <= Over' /\ Mishaps + 1 <= Mishaps'
      /\ faults > 0 /\ ctxDone /\ ~ctxDone' => Over + 1 <= Over'
  BY OverGrows
<1>2. received[h] \in Nat /\ received'[h] \in Nat
  BY DEF Types, ServerTypes
<1>3. PICK o \in Nat, oo \in Nat, m \in Nat, mm \in Nat, r \in Nat, rr \in Nat :
        /\ o = Over /\ oo = Over' /\ m = Mishaps /\ mm = Mishaps'
        /\ r = received[h] /\ rr = received'[h]
  BY <1>1, <1>2
<1>4. /\ o <= m /\ oo <= mm /\ o <= oo /\ m <= mm
      /\ crashes' = crashes + 1 => o + 1 <= oo
      /\ lost' = lost + 1 => o + 1 <= oo /\ m + 1 <= mm
      /\ faults > 0 /\ ctxDone /\ ~ctxDone' => o + 1 <= oo
  BY <1>1, <1>3
<1>5. /\ h > cur => r = 0
      /\ Waiting(h) => r <= o
      /\ Names(FileLines, h) => r <= 1 + o
      /\ r <= 1 + m
  BY <1>3 DEF Bounds
<1>6. Bounds(h)' <=> /\ h > cur' => rr = 0
                     /\ Waiting(h)' => rr <= oo
                     /\ Names(FileLines, h)' => rr <= 1 + oo
                     /\ rr <= 1 + mm
  BY <1>3 DEF Bounds
<1>7. CASE rr = r /\ (Waiting(h)' => Waiting(h) \/ rr = 0)
  BY <1>3, <1>4, <1>5, <1>6, <1>7
<1>8. CASE rr = r + 1 /\ ~(h > cur') /\ lost' = lost + 1 /\ (Waiting(h)' => Waiting(h))
  BY <1>3, <1>4, <1>5, <1>6, <1>8
<1>9. CASE rr = r + 1 /\ ~(h > cur') /\ Waiting(h) /\ ~Waiting(h)'
  BY <1>3, <1>4, <1>5, <1>6, <1>9
<1>10. CASE /\ rr = r /\ (Waiting(h)' => Names(FileLines, h))
            /\ crashes' = crashes + 1 \/ (faults > 0 /\ ctxDone /\ ~ctxDone')
  BY <1>3, <1>4, <1>5, <1>6, <1>10
<1>11. QED
  BY <1>3, <1>7, <1>8, <1>9, <1>10

LEMMA SentStep ==
  ASSUME AgentInv, AgentInv', Types, Types', CallMatches, CallMatches', BytesInv,
         OrderInv, OrderInv', SettledInv, LinesInv, LinesInv', StopAsked, SentInv, [Next]_vars
  PROVE  SentInv'
<1> USE DEF NoBranch, bufVars, memVars, fileVars, callVars, loopVars, countVars, serverVars
<1>a. /\ entries \in Seq(NonEmpty) /\ lines \in Seq(NonEmpty) /\ FileLines \in Seq(NonEmpty)
      /\ lines' = lines /\ tail' = tail => FileLines' = FileLines
  BY FileIsNonEmpty DEF OrderInv, FileLines
<1>b. cur \in Nat
  BY DEF AgentInv, CurIsBuilt, Heartbeats
<1>c. ASSUME UNCHANGED received, cur' = cur, NoneMoreWait
      PROVE  SentInv'
  BY <1>c, BoundsStep DEF SentInv, NoneMoreWait
<1>d. ASSUME NEW t, cur' = cur, NoneMoreWait, Record(t), lost' = lost + 1,
             FirstIn(t) <= cur, FirstIn(t) \in Nat
      PROVE  SentInv'
  <2>1. SUFFICES ASSUME NEW h \in Tracked
                 PROVE  Bounds(h)'
    BY DEF SentInv
  <2>2. \/ received'[h] = received[h]
        \/ h = FirstIn(t) /\ received'[h] = received[h] + 1
    BY <1>d, RecordOne DEF Types
  <2>3. Bounds(h) /\ (Waiting(h)' => Waiting(h))
        /\ (Names(FileLines, h)' => Names(FileLines, h) \/ Waiting(h))
    BY <1>d, <2>1 DEF SentInv, NoneMoreWait
  <2>4. h = FirstIn(t) => ~(h > cur')
    BY <1>b, <1>d
  <2>5. QED
    BY <1>d, <2>2, <2>3, <2>4, BoundsStep
<1>e. ASSUME NEW t, cur' = cur, Record(t), FirstIn(t) <= cur, FirstIn(t) \in Nat,
             Waiting(FirstIn(t)), ~Waiting(FirstIn(t))', FileLines' = FileLines,
             \A h \in Tracked : Waiting(h)' => Waiting(h)
      PROVE  SentInv'
  <2>1. SUFFICES ASSUME NEW h \in Tracked
                 PROVE  Bounds(h)'
    BY DEF SentInv
  <2>2. \/ received'[h] = received[h]
        \/ h = FirstIn(t) /\ received'[h] = received[h] + 1
    BY <1>e, RecordOne DEF Types
  <2>3. Bounds(h) /\ (Waiting(h)' => Waiting(h))
        /\ (Names(FileLines, h)' => Names(FileLines, h) \/ Waiting(h))
    BY <1>e, <2>1 DEF SentInv
  <2>4. h = FirstIn(t) => ~(h > cur') /\ Waiting(h) /\ ~Waiting(h)'
    BY <1>b, <1>e
  <2>5. QED
    BY <1>e, <2>2, <2>3, <2>4, BoundsStep
\* The oldest entry is of a heartbeat built, which waits.
<1>f. ASSUME pc = "flush", entries # << >>
      PROVE  /\ FirstIn(Head(entries)) \in Nat /\ FirstIn(Head(entries)) <= cur
             /\ Waiting(FirstIn(Head(entries)))
  <2>1. Head(entries) \in NonEmpty /\ Head(entries) \in Range(entries)
    BY <1>a, <1>f, RangeTail, HeadTailProperties
  <2>2. NoneAbove(Head(entries))
    BY <2>1, AgentUpToCur DEF UpToCur, NoneNewer, NoneAbove
  <2>3. FirstIn(Head(entries)) \in Nat /\ FirstIn(Head(entries)) <= cur
    BY <2>1, <2>2, FirstIsHeartbeat DEF NoneAbove, NoneOver, FirstIn
  <2>4. ~Starting
    BY <1>f DEF CallMatches, Starting
  <2>5. QED
    BY <1>f, <2>1, <2>3, <2>4 DEF Waiting, Unsent, Names
<1>1. CASE Boot
  <2>1. /\ UNCHANGED <<entries, lines, tail, cur, received>>
        /\ Starting /\ Starting' /\ ~Working'
    BY <1>1 DEF Boot, Open, Starting, Working
  <2>2. QED
    BY <1>a, <1>c, <2>1 DEF NoneMoreWait, Waiting
<1>2. CASE BootFailed \/ Started \/ Tick \/ Retry \/ Elapse \/ Drain \/ ArmAfterAppend
  <2>1. /\ UNCHANGED bufVars /\ cur' = cur /\ pc # "pop" /\ pc' # "pop" /\ received' = received
        /\ Working' => Working
    BY <1>2 DEF BootFailed, Started, Tick, Retry, Elapse, Drain, ArmAfterAppend, Working
  <2>2. QED
    BY <1>c, <2>1, QuietStep
<1>3. CASE Shutdown
  <2>1. /\ pc = "select" /\ ctxDone /\ ~ctxDone' /\ bpc = "idle" /\ Starting' /\ ~Working'
        /\ UNCHANGED <<lines, tail, cur, received>>
    BY <1>3 DEF Shutdown, Exit, Die, Starting, Working
  <2>2. \A h : Waiting(h)' => Names(FileLines, h)
    BY <1>a, <2>1 DEF Waiting
  <2>3. CASE faults > 0
    BY <1>a, <2>1, <2>2, <2>3, BoundsStep DEF SentInv
  <2>4. CASE faults = 0
    <3>1. FileLines = entries /\ ~Starting /\ Unsent = entries
      BY <2>1, <2>4 DEF CallMatches, SettledInv, Flushing, FileIsQueue, FileLines, Starting, Unsent
    <3>2. NoneMoreWait
      BY <1>a, <2>1, <2>2, <3>1 DEF NoneMoreWait, Waiting
    <3>3. QED
      BY <1>c, <2>1, <3>2
  <2>5. faults \in Nat
    BY CountsAreNats
  <2>6. QED
    BY <2>3, <2>4, <2>5
<1>4. CASE ProcessDies
  <2>1. /\ crashes' = crashes + 1 /\ Starting' /\ ~Working'
        /\ UNCHANGED <<lines, tail, cur, received>>
    BY <1>4 DEF ProcessDies, Crash, Die, Starting, Working
  <2>2. \A h : Waiting(h)' => Names(FileLines, h)
    BY <1>a, <2>1 DEF Waiting
  <2>3. QED
    BY <1>a, <2>1, <2>2, BoundsStep DEF SentInv
<1>5. ASSUME NEW d, CollectAndBuild(d)
      PROVE  SentInv'
  <2>1. /\ UNCHANGED bufVars /\ received' = received /\ pc # "pop" /\ pc' # "pop"
        /\ cur' = IF cur < Later THEN cur + 1 ELSE Later
    BY <1>5 DEF CollectAndBuild
  <2>2. /\ FileLines' = FileLines /\ Starting' = Starting /\ Unsent' = Unsent
    BY <2>1 DEF FileLines, Starting, Unsent
  <2>3. SUFFICES ASSUME NEW h \in Tracked
                 PROVE  Bounds(h)'
    BY DEF SentInv
  <2>4. h \in Nat /\ Later \in Nat /\ cur <= Later /\ h # Later
    BY BufferAssumption DEF Tracked, Heartbeats, Later, AgentInv, CurIsBuilt
  <2>5. (h > cur' => h > cur) /\ (h = cur' => h > cur)
    BY <1>b, <2>1, <2>4
  <2>6. Bounds(h) /\ (h > cur => received'[h] = 0)
    BY <2>1, <2>3 DEF SentInv, Bounds
  <2>7. Waiting(h)' => Waiting(h) \/ received'[h] = 0
    BY <2>2, <2>5, <2>6 DEF Waiting
  <2>8. QED
    BY <2>1, <2>2, <2>5, <2>6, <2>7, BoundsStep
<1>6. ASSUME NEW d, FlushSendOk(d)
      PROVE  SentInv'
  <2> DEFINE sent == FirstIn(Head(entries))
  <2>1. /\ pc = "flush" /\ pc' = "pop" /\ entries # << >> /\ UNCHANGED bufVars /\ cur' = cur
        /\ branch' = branch /\ Record(Head(entries))
    BY <1>6 DEF FlushSendOk, SendOk
  <2>2. ~Starting /\ ~Starting' /\ Unsent = entries /\ Unsent' = Tail(entries)
        /\ FileLines' = FileLines /\ (Working' => Working) /\ (Working <=> branch = "tick")
    BY <2>1 DEF CallMatches, Starting, Unsent, FileLines, Working
  <2>3. \A h \in Tracked : Waiting(h)' => Waiting(h)
    BY <1>a, <2>1, <2>2, NamesTail DEF Waiting
  <2>4. ASSUME sent \in Tracked
        PROVE  ~Waiting(sent)'
    <3>1. ~Names(Tail(entries), sent)
      BY <1>a, <2>1, <2>4, DistinctTail DEF LinesInv, Tracked
    <3>2. Names(entries, sent)
      BY <1>a, <2>1, NamesTail
    <3>3. sent = cur => ~Working
      BY <2>4, <3>2 DEF LinesInv
    <3>4. QED
      BY <2>1, <2>2, <3>1, <3>3 DEF Waiting
  <2>5. CASE sent \in Tracked
    BY <1>e, <1>f, <2>1, <2>2, <2>3, <2>4, <2>5
  <2>6. CASE sent \notin Tracked
    <3>1. received' = received
      BY <2>1, <2>6 DEF Record, FirstIn
    <3>2. QED
      BY <1>c, <2>1, <2>2, <2>3, <3>1 DEF NoneMoreWait
  <2>7. QED
    BY <2>5, <2>6
<1>7. ASSUME NEW d, FlushSendFails(d)
      PROVE  SentInv'
  <2>1. /\ pc = "flush" /\ pc' = "flushed" /\ entries # << >> /\ UNCHANGED bufVars /\ cur' = cur
        /\ \/ received' = received
           \/ Record(Head(entries)) /\ lost' = lost + 1
        /\ Working' => Working
    BY <1>7 DEF FlushSendFails, SendFails, Working
  <2>2. NoneMoreWait
    BY <2>1, QuietStep
  <2>3. QED
    BY <1>c, <1>d, <1>f, <2>1, <2>2
<1>8. ASSUME NEW d, CurSendOk(d) \/ CurSendFails(d)
      PROVE  SentInv'
  <2>1. /\ pc = "send" /\ pc' # "pop" /\ UNCHANGED bufVars /\ cur' = cur
        /\ branch = "tick" /\ Working
    BY <1>8 DEF CurSendOk, CurSendFails, CallMatches, Working
  <2>2. FirstIn(Payload(cur)) = cur /\ cur \in Heartbeats /\ NoneMoreWait
    BY <2>1, QuietStep DEF FirstIn, Payload, Prefix, AgentInv, CurIsBuilt
  <2>3. CASE CurSendFails(d)
    <3>1. \/ received' = received
          \/ Record(Payload(cur)) /\ lost' = lost + 1
      BY <2>3 DEF CurSendFails, SendFails
    <3>2. QED
      BY <1>b, <1>c, <1>d, <2>1, <2>2, <3>1
  <2>4. CASE CurSendOk(d)
    <3>1. pc' = "select" /\ Record(Payload(cur))
      BY <2>4 DEF CurSendOk, SendOk
    <3>2. CASE cur \in Tracked
      <4>1. /\ FileLines' = FileLines /\ ~Working' /\ ~Starting' /\ Unsent' = entries
            /\ ~Names(entries, cur) /\ Waiting(cur)
        BY <2>1, <3>1, <3>2 DEF CallMatches, FileLines, Starting, Unsent, Working, LinesInv, Waiting
      <4>2. ~Waiting(cur)'
        BY <2>1, <4>1 DEF Waiting
      <4>3. QED
        BY <1>b, <1>e, <2>1, <2>2, <3>1, <4>1, <4>2 DEF NoneMoreWait
    <3>3. CASE cur \notin Tracked
      <4>1. received' = received
        BY <2>2, <3>1, <3>3 DEF Record, FirstIn
      <4>2. QED
        BY <1>c, <2>1, <2>2, <4>1
    <3>4. QED
      BY <3>2, <3>3
  <2>5. QED
    BY <1>8, <2>3, <2>4
<1>9. CASE FlushPop
  <2>1. /\ pc = "pop" /\ pc' = "flush" /\ entries' = Tail(entries) /\ cur' = cur
        /\ UNCHANGED <<lines, tail, bpc, caller, received, branch>>
    BY <1>9 DEF FlushPop, Pop
  <2>2. Unsent' = Unsent /\ Starting' = Starting /\ (Working' => Working)
    BY <2>1 DEF Unsent, Starting, Working
  <2>3. QED
    BY <1>a, <1>c, <2>1, <2>2 DEF NoneMoreWait, Waiting
<1>10. CASE FlushEmpty \/ FlushReturn
  <2>1. /\ UNCHANGED bufVars /\ cur' = cur /\ pc # "pop" /\ pc' # "pop" /\ received' = received
        /\ Working' => Working
    BY <1>10 DEF FlushEmpty, FlushReturn, AfterFlush, Working
  <2>2. QED
    BY <1>c, <2>1, QuietStep
<1>11. CASE FlushPersist \/ BufferCur
  <2>1. /\ UNCHANGED <<entries, lines, tail, cur, received>>
        /\ pc # "pop" /\ pc' # "pop" /\ ~Starting /\ ~Starting' /\ (Working' => Working)
    BY <1>11 DEF FlushPersist, PersistCall, BufferCur, AppendCall, AppendOversized,
                 CallMatches, Starting, Working
  <2>2. QED
    BY <1>a, <1>c, <2>1 DEF NoneMoreWait, Waiting, Unsent
<1>12. CASE BufferProgress \/ BufferFails
  <2>1. NoneMoreWait /\ cur' = cur /\ received' = received
    BY <1>12, LinesCall DEF BufferProgress, BufferFails
  <2>2. QED
    BY <1>c, <2>1
<1>13. CASE (\E d : BuildFails(d)) \/ Cancel \/ ServerFlips \/ UNCHANGED vars
  <2>1. /\ UNCHANGED bufVars /\ cur' = cur /\ received' = received
        /\ pc' = pc \/ (pc # "pop" /\ pc' # "pop")
        /\ Working' => Working
    BY <1>13 DEF BuildFails, Cancel, ServerFlips, vars, Working
  <2>2. QED
    BY <1>c, <2>1, QuietStep
<1>14. QED
  BY <1>1, <1>2, <1>3, <1>4, <1>5, <1>6, <1>7, <1>8, <1>9, <1>10, <1>11, <1>12, <1>13
  DEF Next, Process, Mishap

DeliveryInv == SettledInv /\ LinesInv /\ StopAsked /\ SentInv

LEMMA DeliveryInvAlways == Spec => []DeliveryInv
<1>1. Init => DeliveryInv
  <2>1. SUFFICES ASSUME Init
                 PROVE  DeliveryInv
    OBVIOUS
  <2>2. /\ entries = << >> /\ lines = << >> /\ tail = Empty /\ bpc = "down" /\ cur = 0
        /\ pc = "off" /\ branch = "none" /\ flushed = FALSE /\ ctxDone = FALSE
        /\ received = [h \in Tracked |-> 0] /\ lost = 0 /\ crashes = 0 /\ faults = 0 /\ stops = 0
    BY <2>1 DEF Init, BufferInit
  <2>3. Distinct(<< >>) /\ \A h : ~Names(<< >>, h)
    BY DEF Distinct, Names, Range
  <2>4. FileLines = << >> /\ ~Working
    BY <2>2 DEF FileLines, Working
  <2>5. SettledInv /\ LinesInv /\ StopAsked
    BY <2>2, <2>3, <2>4
    DEF SettledInv, Flushing, FileIsQueue, LinesInv, Starting, StopAsked
  <2>6. Mishaps = 0 /\ Over = 0
    BY <2>2 DEF Mishaps, Over, MishapsOf, OverOf, Asked
  <2>7. SentInv
    BY <2>2, <2>6 DEF SentInv, Bounds
  <2>8. QED
    BY <2>5, <2>7 DEF DeliveryInv
<1>2. /\ AgentInv /\ Types /\ CallMatches /\ BytesInv /\ OrderInv
      /\ (AgentInv /\ Types /\ CallMatches /\ BytesInv /\ OrderInv)'
      /\ DeliveryInv /\ [Next]_vars
      => DeliveryInv'
  <2>1. SUFFICES ASSUME AgentInv, Types, CallMatches, BytesInv, OrderInv,
                        AgentInv', Types', CallMatches', BytesInv', OrderInv',
                        DeliveryInv, [Next]_vars
                 PROVE  DeliveryInv'
    OBVIOUS
  <2>2. SettledInv'
    BY <2>1, SettledStep DEF DeliveryInv, Types
  <2>3. LinesInv'
    BY <2>1, LinesStep DEF DeliveryInv
  <2>4. StopAsked'
    BY <2>1, OverGrows DEF DeliveryInv
  <2>5. SentInv'
    BY <2>1, <2>3, SentStep DEF DeliveryInv
  <2>6. QED
    BY <2>2, <2>3, <2>4, <2>5 DEF DeliveryInv
<1>3. QED
  BY <1>1, <1>2, AuxiliaryAlways, PTL DEF Spec

\* buffer.go:14-15 and agent.go:73-101: what reaches the server again is
\* explained by a lost reply, a crash, or a restart with a file that could not be
\* compacted.  A payload that a torn write put on a line of its own, or behind
\* another, changes nothing in that.
THEOREM AgentDuplicatesExplained == Spec => []DuplicatesExplained
<1>1. DeliveryInv /\ Types => DuplicatesExplained
  <2>1. SUFFICES ASSUME DeliveryInv, Types, NEW h \in Tracked
                 PROVE  received[h] <= 1 + lost + crashes + (IF faults > 0 THEN stops ELSE 0)
    BY DEF DuplicatesExplained
  <2>2. received[h] <= 1 + Mishaps
    BY <2>1 DEF DeliveryInv, SentInv, Bounds
  <2>3. /\ lost \in Nat /\ crashes \in Nat /\ stops \in Nat
        /\ (IF faults > 0 THEN stops ELSE 0) \in Nat /\ received[h] \in Nat
    BY <2>1, CountsAreNats
  <2>4. QED
    BY <2>2, <2>3 DEF Mishaps, MishapsOf
<1>2. QED
  BY <1>1, DeliveryInvAlways, AuxiliaryAlways, PTL

(***************************************************************************)
(* Each heartbeat at least once: the agent implements AtLeastOnce.         *)
(***************************************************************************)

----------------------------------------------------------------------------
\* What heartbeats take of the cap

\* What heartbeat k takes, if it can be stored
Room(k) == IF Fits(k) THEN Weight(Payload(k)) ELSE 0

\* from[k] is what heartbeats k to n take together.
IsRoomFrom(from, h, n) ==
  from = [k \in h .. n + 1 |-> IF k = n + 1 THEN 0 ELSE Room(k) + from[k + 1]]

LEMMA RoomIsNat ==
  ASSUME NEW k \in Heartbeats
  PROVE  Room(k) \in Nat
<1>1. PayloadLen[k] \in Nat
  BY BufferAssumption
<1>2. QED
  BY <1>1 DEF Room, Weight, Payload, Prefix

LEMMA FirstOfPayload == \A k : FirstIn(Payload(k)) = k
BY DEF FirstIn, Payload, Prefix

\* The recursion of Together has a value.
LEMMA RoomFromExists ==
  ASSUME NEW h \in Heartbeats, NEW n \in Heartbeats, h <= n
  PROVE  \E from : IsRoomFrom(from, h, n)
<1>0. h \in Nat /\ n \in Nat /\ h >= 1 /\ MaxHeartbeat \in Nat /\ n <= MaxHeartbeat
  BY BufferAssumption DEF Heartbeats
<1> DEFINE last == n + 1 - h
           step == [p \in Nat \X Nat |->
                      (IF n + 1 - p[1] \in Heartbeats THEN Room(n + 1 - p[1]) ELSE 0) + p[2]]
<1>1. last \in Nat
  BY <1>0
<1>2. step \in [Nat \X Nat -> Nat]
  BY RoomIsNat
<1>3. /\ 0 \in Nat
      /\ \A i \in 1 .. last, x \in Nat :
           n + 1 - i \in Heartbeats /\ step[<<i, x>>] = Room(n + 1 - i) + x
  BY <1>0 DEF Heartbeats
<1> HIDE DEF step
<1>4. PICK f \in [0 .. last -> Nat] : IsTable(f, 0, step, last)
  BY <1>1, <1>2, TableExists
<1>5. f[0] = 0 /\ \A i \in 1 .. last : f[i] = step[<<i, f[i - 1]>>]
  BY <1>4 DEF IsTable
<1> DEFINE from == [k \in h .. n + 1 |-> f[n + 1 - k]]
<1>6. ASSUME NEW k \in h .. n + 1
      PROVE  from[k] = IF k = n + 1 THEN 0 ELSE Room(k) + from[k + 1]
  <2>1. CASE k = n + 1
    BY <1>0, <1>5, <2>1
  <2>2. CASE k # n + 1
    <3>1. /\ n + 1 - k \in 1 .. last /\ k + 1 \in h .. n + 1
          /\ (n + 1 - k) - 1 \in 0 .. last /\ (n + 1 - k) - 1 = n + 1 - (k + 1)
          /\ n + 1 - (n + 1 - k) = k
      BY <1>0, <2>2
    <3>2. f[(n + 1 - k) - 1] \in Nat
      BY <1>4, <3>1
    <3>3. f[n + 1 - k] = step[<<n + 1 - k, f[(n + 1 - k) - 1]>>]
      BY <1>5, <3>1
    <3>4. f[n + 1 - k] = Room(n + 1 - (n + 1 - k)) + f[(n + 1 - k) - 1]
      BY <1>3, <3>1, <3>2, <3>3
    <3>5. QED
      BY <2>2, <3>1, <3>4
  <2>3. QED
    BY <2>1, <2>2
<1>7. IsRoomFrom(from, h, n)
  BY <1>6 DEF IsRoomFrom
<1>8. QED
  BY <1>7

\* More heartbeats take no less.
LEMMA RoomFromFalls ==
  ASSUME NEW h \in Heartbeats, NEW n \in Heartbeats, h <= n, NEW from, IsRoomFrom(from, h, n)
  PROVE  \A k \in h .. n + 1 : /\ from[k] \in Nat
                               /\ \A m \in k .. n + 1 : from[m] \in Nat /\ from[m] <= from[k]
<1>0. h \in Nat /\ n \in Nat /\ h >= 1 /\ MaxHeartbeat \in Nat /\ n <= MaxHeartbeat
  BY BufferAssumption DEF Heartbeats
<1>1. /\ from[n + 1] = 0
      /\ \A k \in h .. n : k \in Heartbeats /\ from[k] = Room(k) + from[k + 1]
  <2>1. \A k \in h .. n + 1 : from[k] = IF k = n + 1 THEN 0 ELSE Room(k) + from[k + 1]
    BY DEF IsRoomFrom
  <2>2. QED
    BY <1>0, <2>1 DEF Heartbeats
<1> DEFINE last == n + 1 - h
           Falls(k) == from[k] \in Nat /\ \A m \in k .. n + 1 : from[m] \in Nat /\ from[m] <= from[k]
           P == {i \in 0 .. last : Falls(n + 1 - i)}
<1>2. 0 \in P
  <2>1. \A m \in n + 1 .. n + 1 : m = n + 1
    BY <1>0
  <2>2. Falls(n + 1)
    BY <1>1, <2>1
  <2>3. n + 1 - 0 = n + 1 /\ 0 \in 0 .. last
    BY <1>0
  <2>4. QED
    BY <2>2, <2>3
<1>3. ASSUME NEW i \in 1 .. last, i - 1 \in P PROVE i \in P
  <2>1. /\ n + 1 - i \in h .. n /\ n + 1 - (i - 1) = (n + 1 - i) + 1 /\ i \in 0 .. last
    BY <1>0
  <2> DEFINE k == n + 1 - i
  <2>2. k \in h .. n /\ Falls(k + 1)
    BY <1>3, <2>1
  <2> HIDE DEF k
  <2>3. /\ from[k + 1] \in Nat
        /\ \A m \in k + 1 .. n + 1 : from[m] \in Nat /\ from[m] <= from[k + 1]
    BY <2>2
  <2>4. Room(k) \in Nat /\ from[k] = Room(k) + from[k + 1]
    BY <1>1, <2>2, RoomIsNat
  <2>5. from[k] \in Nat /\ from[k + 1] <= from[k]
    BY <2>3, <2>4
  <2>6. ASSUME NEW m \in k .. n + 1 PROVE from[m] \in Nat /\ from[m] <= from[k]
    <3>1. m = k \/ m \in k + 1 .. n + 1
      BY <1>0, <2>2
    <3>2. QED
      BY <2>3, <2>5, <3>1
  <2>7. QED
    BY <2>1, <2>5, <2>6 DEF k
<1>4. \A i \in 0 .. last : i \in P
  <2> HIDE DEF P
  <2>1. last \in Nat
    BY <1>0
  <2> HIDE DEF last
  <2>2. QED
    BY <1>2, <1>3, <2>1, UpTo
<1>5. ASSUME NEW k \in h .. n + 1 PROVE Falls(k)
  <2>1. n + 1 - k \in 0 .. last /\ n + 1 - (n + 1 - k) = k
    BY <1>0
  <2>2. QED
    BY <1>4, <2>1
<1>6. QED
  BY <1>5

\* A queue of whole, fitting payloads in strict order takes no more than its first
\* heartbeat and all those up to n, whether they are in it or not.
LEMMA QueueTakes ==
  ASSUME NEW s \in Seq(Texts), s # << >>, NEW u, IsSuffixSum(u, s),
         NEW n \in Heartbeats,
         \A i \in 1 .. Len(s) :
           \E k \in Heartbeats : s[i] = Payload(k) /\ Fits(k) /\ k <= n,
         \A i, j \in 1 .. Len(s) : i < j => FirstIn(s[i]) < FirstIn(s[j]),
         NEW from, IsRoomFrom(from, FirstIn(s[1]), n)
  PROVE  u[1] <= from[FirstIn(s[1])]
<1> DEFINE h == FirstIn(s[1])
           K(i) == FirstIn(s[i])
<1>0. Len(s) \in Nat /\ Len(s) >= 1
  BY EmptySeq, LenProperties
<1>1. \A i \in 1 .. Len(s) : K(i) \in Heartbeats /\ s[i] = Payload(K(i)) /\ Fits(K(i)) /\ K(i) <= n
  BY FirstOfPayload
<1>2. /\ h \in Heartbeats /\ h <= n /\ h \in Nat /\ n \in Nat
      /\ \A i \in 1 .. Len(s) : K(i) \in Nat /\ K(i) \in h .. n
  <2>1. \A i \in 1 .. Len(s) : K(i) \in Nat /\ K(i) <= n
    BY <1>1 DEF Heartbeats
  <2>2. 1 \in 1 .. Len(s)
    BY <1>0
  <2>3. \A i \in 1 .. Len(s) : h <= K(i)
    BY <1>0, <2>1, <2>2
  <2>4. h \in Heartbeats
    BY <1>1, <2>2
  <2>5. QED
    BY <2>1, <2>2, <2>3, <2>4 DEF Heartbeats
<1> HIDE DEF h, K
<1>3. \A k \in h .. n + 1 : /\ from[k] \in Nat
                            /\ \A m \in k .. n + 1 : from[m] \in Nat /\ from[m] <= from[k]
  BY <1>2, RoomFromFalls DEF h
<1>4. \A k \in h .. n : from[k] = Room(k) + from[k + 1]
  BY <1>2 DEF IsRoomFrom, h
<1>5. \A i \in 1 .. Len(s) : /\ Weight(s[i]) = Room(K(i)) /\ u[i] = Weight(s[i]) + u[i + 1]
                             /\ u[i] \in Nat /\ u[i + 1] \in Nat /\ Room(K(i)) \in Nat
  BY <1>0, <1>1, RoomIsNat DEF IsSuffixSum, Room
<1> DEFINE P == {i \in 0 .. Len(s) - 1 : u[Len(s) - i] <= from[K(Len(s) - i)]}
<1>6. 0 \in P
  <2> DEFINE l == Len(s)
  <2>1. l \in 1 .. Len(s) /\ u[l + 1] = 0 /\ Len(s) - 0 = l /\ 0 \in 0 .. Len(s) - 1
    BY <1>0 DEF IsSuffixSum
  <2>2. K(l) \in h .. n /\ K(l) + 1 \in h .. n + 1
    BY <1>2, <2>1
  <2>3. from[K(l)] = Room(K(l)) + from[K(l) + 1] /\ from[K(l) + 1] \in Nat
    BY <1>3, <1>4, <2>2
  <2>4. u[l] = Room(K(l)) + 0 /\ Room(K(l)) \in Nat
    BY <1>5, <2>1
  <2>5. u[l] <= from[K(l)]
    BY <2>3, <2>4
  <2>6. QED
    BY <2>1, <2>5
<1>7. ASSUME NEW i \in 1 .. Len(s) - 1, i - 1 \in P PROVE i \in P
  <2> DEFINE j == Len(s) - i
  <2>1. j \in 1 .. Len(s) /\ j + 1 \in 1 .. Len(s) /\ Len(s) - (i - 1) = j + 1 /\ i \in 0 .. Len(s) - 1
        /\ j < j + 1
    BY <1>0
  <2>2. u[j + 1] <= from[K(j + 1)]
    BY <1>7, <2>1
  <2> HIDE DEF j
  <2>3. K(j) < K(j + 1)
    BY <2>1 DEF K
  <2>4. /\ K(j) \in h .. n /\ K(j) + 1 \in h .. n + 1 /\ K(j + 1) \in K(j) + 1 .. n + 1
    BY <1>2, <2>1, <2>3
  <2>5. from[K(j + 1)] <= from[K(j) + 1] /\ from[K(j) + 1] \in Nat /\ from[K(j + 1)] \in Nat
    BY <1>3, <2>4
  <2>6. from[K(j)] = Room(K(j)) + from[K(j) + 1]
    BY <1>4, <2>4
  <2>7. u[j] = Room(K(j)) + u[j + 1] /\ Room(K(j)) \in Nat /\ u[j + 1] \in Nat
    BY <1>5, <2>1
  <2>8. u[j] <= from[K(j)]
    BY <2>2, <2>5, <2>6, <2>7
  <2>9. QED
    BY <2>1, <2>8 DEF j
<1>8. \A i \in 0 .. Len(s) - 1 : i \in P
  <2> HIDE DEF P
  <2>1. Len(s) - 1 \in Nat
    BY <1>0
  <2>2. QED
    BY <1>6, <1>7, <2>1, UpTo
<1>9. Len(s) - 1 \in P /\ Len(s) - (Len(s) - 1) = 1
  BY <1>0, <1>8
<1>10. QED
  BY <1>9 DEF h, K

----------------------------------------------------------------------------
\* What a step of the agent is to AtLeastOnce

DeliveryStep ==
  Delivery!DeliveryNext \/ UNCHANGED <<cur, ToDeliver, received, MishapCount, torn>>

\* The counts of a step, and what they bound
Counted ==
  /\ MishapCount \in Nat /\ MishapCount' \in Nat /\ MishapCount' >= MishapCount
  /\ faults' = faults + 1 \/ crashes' = crashes + 1 => MishapCount' > MishapCount
  /\ received \in [Tracked -> Nat]
  /\ \A h \in Tracked : received'[h] <= 1 + MishapCount'

LEMMA MishapsCounted ==
  ASSUME Types, Types', StopAsked, SentInv', [Next]_vars
  PROVE  Counted
<1>1. /\ lost \in Nat /\ crashes \in Nat /\ faults \in Nat /\ stops \in Nat
  BY CountsAreNats
<1>2. /\ lost' \in Nat /\ crashes' \in Nat /\ faults' \in Nat /\ stops' \in Nat
      /\ \A h \in Tracked : received'[h] \in Nat
  BY AgentAssumption DEF Types, ServerTypes, CountTypes, LoopTypes
<1>3. /\ lost' \in {lost, lost + 1} /\ crashes' \in {crashes, crashes + 1}
      /\ faults' \in {faults, faults + 1} /\ stops' \in {stops, stops + 1}
  BY CountsMove
<1> DEFINE Sum(l, c, f, s) == l + c + f + (IF f > 0 THEN s ELSE 0)
           M == Sum(lost, crashes, faults, stops)
           N == Sum(lost', crashes', faults', stops')
<1>4. /\ M \in Nat /\ N \in Nat /\ N >= M
      /\ faults' = faults + 1 \/ crashes' = crashes + 1 => N > M
  <2>1. PICK l \in Nat, c \in Nat, f \in Nat, s \in Nat,
             ll \in Nat, cc \in Nat, ff \in Nat, ss \in Nat :
          /\ l = lost /\ c = crashes /\ f = faults /\ s = stops
          /\ ll = lost' /\ cc = crashes' /\ ff = faults' /\ ss = stops'
    BY <1>1, <1>2
  <2>2. /\ ll = l \/ ll = l + 1
        /\ cc = c \/ cc = c + 1
        /\ ff = f \/ ff = f + 1
        /\ ss = s \/ ss = s + 1
    BY <1>3, <2>1
  <2>3. /\ Sum(l, c, f, s) \in Nat /\ Sum(ll, cc, ff, ss) \in Nat
        /\ Sum(ll, cc, ff, ss) >= Sum(l, c, f, s)
        /\ ff = f + 1 \/ cc = c + 1 => Sum(ll, cc, ff, ss) > Sum(l, c, f, s)
    <3>1. CASE f > 0
      BY <2>2, <3>1
    <3>2. CASE f = 0
      BY <2>2, <3>2
    <3>3. QED
      BY <3>1, <3>2
  <2>4. M = Sum(l, c, f, s) /\ N = Sum(ll, cc, ff, ss)
    BY <2>1
  <2> HIDE DEF Sum, M, N
  <2>5. QED
    BY <2>1, <2>3, <2>4
<1>5. ASSUME NEW h \in Tracked PROVE received'[h] <= 1 + N
  <2>1. received'[h] <= 1 + Mishaps'
    BY DEF SentInv, Bounds
  <2>2. Mishaps' = MishapsOf(lost', crashes', faults', stops')
    BY DEF Mishaps
  <2>3. \A l, c, f, s \in Nat : MishapsOf(l, c, f, s) \in Nat /\ MishapsOf(l, c, f, s) <= Sum(l, c, f, s)
    BY DEF MishapsOf
  <2>4. Mishaps' \in Nat /\ Mishaps' <= N
    <3> HIDE DEF Sum
    <3>1. QED
      BY <1>2, <2>2, <2>3
  <2> HIDE DEF N
  <2>5. QED
    BY <1>2, <1>4, <2>1, <2>4
<1>6. MishapCount = M /\ MishapCount' = N
  BY DEF MishapCount
<1>7. received \in [Tracked -> Nat]
  BY DEF Types, ServerTypes
<1>8. QED
  BY <1>4, <1>5, <1>6, <1>7 DEF Counted

\* A step that changes nothing but, perhaps, the count of mishaps
LEMMA StepIsQuiet ==
  ASSUME Counted, torn' = torn, cur' = cur, received' = received, ToDeliver' = ToDeliver
  PROVE  DeliveryStep
<1>1. CASE MishapCount' = MishapCount
  BY <1>1 DEF DeliveryStep
<1>2. CASE MishapCount' > MishapCount
  <2>1. Delivery!Lose
    BY <1>2 DEF Delivery!Lose
  <2>2. QED
    BY <2>1 DEF DeliveryStep, Delivery!DeliveryNext
<1>3. QED
  BY <1>1, <1>2 DEF Counted

\* A step after which the current heartbeat may no longer be in the loop's hands
LEMMA StepLoses ==
  ASSUME Counted, torn' = torn, cur' = cur, received' = received, owed' = owed,
         Working' => Working,
         \/ MishapCount' > MishapCount
         \/ cur \in Heartbeats /\ ~Fits(cur) /\ MishapCount' = MishapCount
  PROVE  DeliveryStep
<1>1. ToDeliver' \in {ToDeliver, ToDeliver \ {cur}}
  BY DEF ToDeliver
<1>2. Delivery!Lose
  BY <1>1 DEF Delivery!Lose
<1>3. QED
  BY <1>2 DEF DeliveryStep, Delivery!DeliveryNext

\* A step that records heartbeat k's payload, after which k may no longer wait
LEMMA StepDelivers ==
  ASSUME Counted, torn' = torn, cur' = cur, NEW k \in Heartbeats, Record(Payload(k)),
         k <= cur, k = cur \/ \A w \in ToDeliver : k <= w,
         ToDeliver' \in {ToDeliver, ToDeliver \ {k}}
  PROVE  DeliveryStep
<1>1. Decodes(Payload(k)) /\ Payload(k).frags[1].hb = k
  BY DEF Payload, Prefix, Decodes
<1>2. CASE k \in Tracked
  <2>1. received' = [received EXCEPT ![k] = @ + 1]
    BY <1>1, <1>2 DEF Record
  <2>2. Delivery!Deliver(k)
    BY <1>2, <2>1 DEF Delivery!Deliver, Delivery!Oldest, Counted
  <2>3. QED
    BY <1>2, <2>2 DEF DeliveryStep, Delivery!DeliveryNext
<1>3. CASE k \notin Tracked
  <2>1. received' = received
    BY <1>1, <1>3 DEF Record
  <2>2. ToDeliver' = ToDeliver
    BY <1>3 DEF ToDeliver
  <2>3. QED
    BY <2>1, <2>2, StepIsQuiet
<1>4. QED
  BY <1>2, <1>3

----------------------------------------------------------------------------
\* The head of the queue

\* As long as no write is torn, the head is the payload of a heartbeat that
\* none that waits was built before; and not the one in the loop's hands.
HeadIs(k) ==
  /\ Head(entries) = Payload(k) /\ Fits(k) /\ HeartbeatsIn(Head(entries)) = {k}
  /\ k <= cur /\ \A w \in ToDeliver : k <= w
  /\ k \in Tracked /\ Working => k # cur

LEMMA HeadIsOldest ==
  ASSUME AgentInv, OrderInv, LinesInv, WholeLines, InQueue, entries # << >>
  PROVE  \E k \in Heartbeats : HeadIs(k)
<1>1. entries \in Seq(NonEmpty) /\ 1 \in DOMAIN entries /\ Head(entries) = entries[1]
  BY EmptySeq, LenProperties, HeadTailProperties DEF OrderInv
<1>2. Head(entries) \in Range(entries)
  BY <1>1 DEF Range
<1>3. PICK k \in Heartbeats : Head(entries) = Payload(k) /\ Fits(k)
  BY <1>2 DEF WholeLines
<1>4. FirstIn(Head(entries)) = k /\ HeartbeatsIn(Head(entries)) = {k}
  BY <1>3, FirstOfPayload, InPayload
<1>5. k <= cur
  <2>1. NoneAbove(Head(entries))
    BY <1>2, AgentUpToCur DEF UpToCur, NoneNewer, NoneAbove
  <2>2. Payload(k).frags[1].hb = k /\ 1 \in DOMAIN Payload(k).frags
    BY DEF Payload, Prefix
  <2>3. QED
    BY <1>3, <2>1, <2>2 DEF NoneAbove, NoneOver
<1>6. ASSUME NEW w \in owed PROVE k <= w
  <2>1. Payload(w) \in Range(entries)
    BY DEF InQueue
  <2>2. PICK j \in DOMAIN entries : entries[j] = Payload(w)
    BY <2>1 DEF Range
  <2>3. FirstIn(entries[j]) = w
    BY <2>2, FirstOfPayload
  <2>4. CASE j = 1
    BY <1>1, <1>4, <2>3, <2>4 DEF Heartbeats
  <2>5. CASE j # 1
    <3>1. 1 < j
      BY <1>1, <2>5, LenProperties
    <3>2. QED
      BY <1>1, <1>4, <2>3, <3>1 DEF OrderInv, InOrder
  <2>6. QED
    BY <2>4, <2>5
<1>7. \A w \in ToDeliver : k <= w
  BY <1>5, <1>6 DEF ToDeliver
<1>8. k \in Tracked /\ Working => k # cur
  BY <1>2, <1>4 DEF LinesInv, Names
<1>9. QED
  BY <1>3, <1>4, <1>5, <1>7, <1>8 DEF HeadIs

\* What dropOldestToFit drops does not fit with all that was built after it.
LEMMA NoRoomForHead ==
  ASSUME AgentInv, OrderInv, LinesInv, WholeLines, OverCap, NEW k \in Heartbeats, HeadIs(k)
  PROVE  ~Together(k, cur)
<1> SUFFICES ASSUME cur < Later, Together(k, cur)
             PROVE  FALSE
  BY DEF Together
<1>0. /\ entries \in Seq(Texts) /\ entries \in Seq(NonEmpty) /\ entries # << >> /\ size > MaxBytes
      /\ size \in Nat /\ MaxBytes \in Nat
      /\ Len(entries) \in Nat /\ DOMAIN entries = 1 .. Len(entries)
  BY BufferAssumption, LenProperties DEF AgentInv, SizeInv, BufferTypeOK, OrderInv, OverCap
<1>1. PICK u : IsSuffixSum(u, entries) /\ u[1] = size
  BY DEF AgentInv, SizeInv, SizeIs
<1>2. k = FirstIn(entries[1])
  BY <1>0, HeadTailProperties, FirstOfPayload DEF HeadIs
<1>3. cur \in Heartbeats /\ k <= cur
  BY <1>0 DEF HeadIs, AgentInv, CurIsBuilt, Heartbeats
<1>4. \A i \in 1 .. Len(entries) :
        \E m \in Heartbeats : entries[i] = Payload(m) /\ Fits(m) /\ m <= cur
  <2>1. SUFFICES ASSUME NEW i \in 1 .. Len(entries)
                 PROVE  \E m \in Heartbeats : entries[i] = Payload(m) /\ Fits(m) /\ m <= cur
    OBVIOUS
  <2>2. entries[i] \in Range(entries)
    BY <1>0 DEF Range
  <2>3. PICK m \in Heartbeats : entries[i] = Payload(m) /\ Fits(m)
    BY <2>2 DEF WholeLines
  <2>4. Payload(m).frags[1].hb = m /\ 1 \in DOMAIN Payload(m).frags
    BY DEF Payload, Prefix
  <2>5. m <= cur
    BY <2>2, <2>3, <2>4, AgentUpToCur DEF UpToCur, NoneNewer, NoneOver
  <2>6. QED
    BY <2>3, <2>5
<1>5. \A i, j \in 1 .. Len(entries) : i < j => FirstIn(entries[i]) < FirstIn(entries[j])
  <2>1. SUFFICES ASSUME NEW i \in 1 .. Len(entries), NEW j \in 1 .. Len(entries), i < j
                 PROVE  FirstIn(entries[i]) < FirstIn(entries[j])
    OBVIOUS
  <2>2. PICK m \in Heartbeats : entries[i] = Payload(m) /\ m <= cur
    BY <1>4
  <2>3. PICK n \in Heartbeats : entries[j] = Payload(n) /\ n <= cur
    BY <1>4
  <2>4. FirstIn(entries[i]) = m /\ FirstIn(entries[j]) = n /\ m \in Nat /\ n \in Nat
    BY <2>2, <2>3, FirstOfPayload DEF Heartbeats
  <2>5. m <= n
    BY <1>0, <2>1, <2>4 DEF OrderInv, InOrder
  <2>6. m # Later
    BY <1>3, <2>2, <2>4 DEF Heartbeats, Later
  <2>7. m # n
    BY <1>0, <2>1, <2>4, <2>6 DEF LinesInv, Distinct
  <2>8. QED
    BY <2>4, <2>5, <2>7
<1>6. PICK from : IsRoomFrom(from, k, cur) /\ from[k] <= MaxBytes
  <2> DEFINE R == CHOOSE from : IsRoomFrom(from, k, cur)
  <2>1. IsRoomFrom(R, k, cur)
    BY <1>3, RoomFromExists
  <2>2. R[k] <= MaxBytes
    BY DEF Together, IsRoomFrom, Room
  <2>3. QED
    BY <2>1, <2>2
<1>7. u[1] <= from[k]
  BY <1>0, <1>1, <1>2, <1>3, <1>4, <1>5, <1>6, QueueTakes
<1>8. from[k] \in Nat
  <2>1. k \in k .. cur + 1
    BY <1>3 DEF Heartbeats
  <2>2. QED
    BY <1>3, <1>6, <2>1, RoomFromFalls
<1>9. QED
  BY <1>0, <1>1, <1>6, <1>7, <1>8

----------------------------------------------------------------------------
\* Each step

\* A step of the loop that leaves the buffer, and what is in its hands, alone
LEMMA LoopStepIsQuiet ==
  ASSUME Counted, torn' = torn, UNCHANGED owed, cur' = cur, received' = received,
         Working' <=> Working
  PROVE  DeliveryStep
<1>1. ToDeliver' = ToDeliver
  BY DEF ToDeliver
<1>2. QED
  BY <1>1, StepIsQuiet

\* Between its two calls, flushBuffer's send
LEMMA FlushSendStep ==
  ASSUME AgentInv, OrderInv, LinesInv, WholeLines, CallMatches, Counted, torn' = torn,
         bpc \notin {"down", "load"} => InQueue,
         NEW d, FlushSendOk(d) \/ FlushSendFails(d)
  PROVE  DeliveryStep
<1> USE DEF loopVars, serverVars, bufVars, histVars, callVars
<1>1. /\ pc = "flush" /\ pc' \in {"pop", "flushed"} /\ branch' = branch /\ cur' = cur
      /\ entries # << >> /\ UNCHANGED bufVars
      /\ received' = received \/ Record(Head(entries))
  BY DEF FlushSendOk, FlushSendFails, SendOk, SendFails
<1>2. (Working' <=> Working) /\ owed' = owed
  BY <1>1 DEF Working
<1>3. CASE received' = received
  BY <1>1, <1>2, <1>3, LoopStepIsQuiet
<1>4. CASE Record(Head(entries))
  <2>1. InQueue
    BY <1>1 DEF CallMatches
  <2>2. PICK k \in Heartbeats : HeadIs(k)
    BY <1>1, <2>1, HeadIsOldest
  <2>3. Record(Payload(k)) /\ k <= cur /\ \A w \in ToDeliver : k <= w
    BY <1>4, <2>2 DEF HeadIs
  <2>4. ToDeliver' = ToDeliver
    BY <1>1, <1>2 DEF ToDeliver
  <2>5. QED
    BY <1>1, <2>3, <2>4, StepDelivers
<1>5. QED
  BY <1>1, <1>3, <1>4

\* The current heartbeat's own POST
LEMMA CurSendStep ==
  ASSUME AgentInv, CallMatches, Counted, torn' = torn,
         NEW d, CurSendOk(d) \/ CurSendFails(d)
  PROVE  DeliveryStep
<1> USE DEF loopVars, serverVars, bufVars, histVars, NoBranch
<1>1. /\ pc = "send" /\ cur' = cur /\ owed' = owed /\ branch = "tick"
      /\ cur \in Heartbeats /\ cur <= cur
  <2>1. cur \in Heartbeats
    BY DEF AgentInv, CurIsBuilt, CurSendOk, CurSendFails
  <2>2. cur \in Nat
    BY <2>1 DEF Heartbeats
  <2>3. QED
    BY <2>1, <2>2 DEF CurSendOk, CurSendFails, CallMatches
<1>2. CASE CurSendOk(d)
  <2>1. Record(Payload(cur))
    BY <1>2 DEF CurSendOk, SendOk
  <2>2. ToDeliver' \in {ToDeliver, ToDeliver \ {cur}}
    <3>1. Working /\ ~Working'
      BY <1>1, <1>2 DEF CurSendOk, Working
    <3>2. QED
      BY <1>1, <3>1 DEF ToDeliver
  <2>3. QED
    BY <1>1, <2>1, <2>2, StepDelivers
<1>3. CASE CurSendFails(d)
  <2>1. Working /\ Working' /\ (received' = received \/ Record(Payload(cur)))
    BY <1>1, <1>3 DEF CurSendFails, SendFails, Working
  <2>2. ToDeliver' = ToDeliver
    BY <1>1, <2>1 DEF ToDeliver
  <2>3. QED
    BY <1>1, <2>1, <2>2, StepIsQuiet, StepDelivers
<1>4. QED
  BY <1>2, <1>3

\* The head is popped, or dropped to fit.
LEMMA HeadLeaves ==
  ASSUME NEW k \in Heartbeats, HeadIs(k), owed' = owed \ HeartbeatsIn(Head(entries)),
         cur' = cur, Working' <=> Working
  PROVE  ToDeliver' = ToDeliver \ {k}
<1>1. owed' = owed \ {k}
  BY DEF HeadIs
<1>2. CASE k \in Tracked
  BY <1>1, <1>2 DEF ToDeliver, HeadIs
<1>3. CASE k \notin Tracked
  BY <1>1, <1>3 DEF ToDeliver
<1>4. QED
  BY <1>2, <1>3

LEMMA PopStep ==
  ASSUME AgentInv, OrderInv, LinesInv, WholeLines, CallMatches, PopIsSafe, Counted, torn' = torn,
         bpc \notin {"down", "load"} => InQueue, FlushPop
  PROVE  DeliveryStep
<1>1. /\ pc = "pop" /\ pc' = "flush" /\ branch' = branch /\ cur' = cur /\ received' = received
      /\ entries # << >> /\ owed' = owed \ HeartbeatsIn(Head(entries))
  BY DEF FlushPop, Pop, serverVars
<1>2. UNCHANGED MishapCount
  BY DEF FlushPop, serverVars, countVars, MishapCount
<1>3. PICK k \in Heartbeats : HeadIs(k)
  <2>1. InQueue
    BY <1>1 DEF CallMatches
  <2>2. QED
    BY <1>1, <2>1, HeadIsOldest
<1>4. ToDeliver' = ToDeliver \ {k}
  BY <1>1, <1>3, HeadLeaves DEF Working
<1>5. CASE k \in ToDeliver
  <2>1. k \in Tracked /\ received[k] > 0
    BY <1>1, <1>3, <1>5 DEF PopIsSafe, HeadIs, ToDeliver
  <2>2. Delivery!Settle(k)
    BY <1>1, <1>2, <1>4, <1>5, <2>1 DEF Delivery!Settle
  <2>3. QED
    BY <2>1, <2>2 DEF DeliveryStep, Delivery!DeliveryNext
<1>6. CASE k \notin ToDeliver
  BY <1>1, <1>4, <1>6, StepIsQuiet
<1>7. QED
  BY <1>5, <1>6

LEMMA DropStep ==
  ASSUME AgentInv, OrderInv, LinesInv, WholeLines, CallMatches, Counted, torn' = torn,
         bpc \notin {"down", "load"} => InQueue, BufferProgress, DropOldest
  PROVE  DeliveryStep
<1>1. /\ bpc = "trim" /\ bpc' = "trim" /\ pc' = pc /\ branch' = branch /\ cur' = cur
      /\ received' = received /\ OverCap /\ entries # << >>
      /\ owed' = owed \ HeartbeatsIn(Head(entries))
  BY DEF BufferProgress, DropOldest, OverCap, loopVars, serverVars
<1>2. UNCHANGED MishapCount
  BY DEF BufferProgress, serverVars, countVars, MishapCount
<1>3. PICK k \in Heartbeats : HeadIs(k)
  BY <1>1, HeadIsOldest
<1>4. ToDeliver' = ToDeliver \ {k}
  BY <1>1, <1>3, HeadLeaves DEF Working
<1>5. CASE k \in ToDeliver
  <2>1. k \in Tracked
    BY <1>5 DEF ToDeliver
  <2>2. ~Together(k, cur)
    BY <1>1, <1>3, NoRoomForHead
  <2>3. Delivery!Oldest(k)
    BY <1>3 DEF HeadIs, Delivery!Oldest
  <2>4. Delivery!MakeRoom(k)
    BY <1>1, <1>2, <1>4, <1>5, <2>2, <2>3 DEF Delivery!MakeRoom
  <2>5. QED
    BY <2>1, <2>4 DEF DeliveryStep, Delivery!DeliveryNext
<1>6. CASE k \notin ToDeliver
  BY <1>1, <1>4, <1>6, StepIsQuiet
<1>7. QED
  BY <1>5, <1>6

LEMMA ProgressStep ==
  ASSUME AgentInv, OrderInv, LinesInv, WholeLines, CallMatches, Counted, torn' = torn,
         bpc \notin {"down", "load"} => InQueue, BufferProgress
  PROVE  DeliveryStep
<1>1. /\ pc' = pc /\ branch' = branch /\ cur' = cur /\ received' = received /\ BufferStep
  BY DEF BufferProgress, loopVars, serverVars
<1> USE DEF memVars, callVars, histVars, Return
<1>2. CASE DropOldest
  BY <1>2, DropStep
<1>3. CASE LoadLine \/ LoadEnd \/ TrimEnd \/ Rewrite \/ AppendWrite
  <2>1. owed' = owed /\ (bpc' \in {"append", "close"} <=> bpc \in {"append", "close"})
    BY <1>3 DEF LoadLine, LoadEnd, TrimEnd, Rewrite, AppendWrite
  <2>2. QED
    BY <1>1, <2>1, LoopStepIsQuiet DEF Working
<1>4. CASE AppendClose
  <2>1. /\ pc = "arm" /\ branch = "tick" /\ bpc = "close" /\ bpc' = "trim"
        /\ owed' = owed \cup {cur}
    BY <1>4 DEF AppendClose, CallMatches
  <2>2. Working /\ ~Working'
    BY <1>1, <2>1 DEF Working
  <2>3. ToDeliver' = ToDeliver
    BY <1>1, <2>1, <2>2 DEF ToDeliver
  <2>4. QED
    BY <1>1, <2>3, StepIsQuiet
<1>5. QED
  BY <1>1, <1>2, <1>3, <1>4 DEF BufferStep

LEMMA BufferCurStep ==
  ASSUME AgentInv, CallMatches, Counted, torn' = torn, BufferCur
  PROVE  DeliveryStep
<1>1. /\ pc = "append" /\ pc' = "arm" /\ branch' = branch /\ branch = "tick" /\ cur' = cur
      /\ received' = received /\ cur \in Heartbeats /\ owed' = owed
  <2>1. cur \in Heartbeats
    BY DEF AgentInv, CurIsBuilt, BufferCur
  <2>2. QED
    BY <2>1 DEF BufferCur, CallMatches, AppendCall, AppendOversized, bufVars, histVars, serverVars
<1>2. UNCHANGED MishapCount
  BY DEF BufferCur, serverVars, countVars, MishapCount
<1>3. CASE AppendCall(cur)
  BY <1>1, <1>3, LoopStepIsQuiet DEF AppendCall, Working
<1>4. CASE AppendOversized(cur)
  <2>1. ~Fits(cur) /\ Working
    BY <1>1, <1>4 DEF AppendOversized, Working
  <2>2. QED
    BY <1>1, <1>2, <2>1, StepLoses
<1>5. QED
  BY <1>3, <1>4 DEF BufferCur

LEMMA MishapStep ==
  ASSUME Types, CallMatches, Counted, torn' = torn, Mishap
  PROVE  DeliveryStep
<1> USE DEF loopVars, serverVars, bufVars, histVars, callVars, NoBranch
<1>1. CASE (\E d : BuildFails(d))
  BY <1>1, LoopStepIsQuiet DEF BuildFails, Working
<1>2. CASE Cancel \/ ServerFlips
  BY <1>2, LoopStepIsQuiet DEF Cancel, ServerFlips, Working
<1>3. CASE BufferFails
  <2>1. /\ pc' = pc /\ branch' = branch /\ cur' = cur /\ received' = received
        /\ faults' = faults + 1 /\ BufferFault
    BY <1>3 DEF BufferFails
  <2>2. owed' = owed /\ bpc' \notin {"append", "close"}
    BY <2>1 DEF BufferFault, LoadFails, RewriteFails, AppendOpenFails, AppendCloseFails,
                AppendShort, Die, Return
  <2>3. Working' => Working
    BY <2>1, <2>2 DEF Working
  <2>4. QED
    BY <2>1, <2>2, <2>3, StepLoses DEF Counted
<1>4. CASE ProcessDies
  <2>1. /\ cur' = cur /\ received' = received /\ crashes' = crashes + 1 /\ owed' = owed
        /\ ~Working'
    BY <1>4 DEF ProcessDies, Crash, Die, Working
  <2>2. QED
    BY <2>1, StepLoses DEF Counted
<1>5. QED
  BY <1>1, <1>2, <1>3, <1>4 DEF Mishap

LEMMA BuildStep ==
  ASSUME AgentInv, Counted, torn' = torn, NEW d, CollectAndBuild(d)
  PROVE  DeliveryStep
<1>1. /\ pc = "collect" /\ pc' = "flush" /\ branch' = "tick" /\ received' = received
      /\ owed' = owed /\ cur' = IF cur < Later THEN cur + 1 ELSE Later
  BY DEF CollectAndBuild, bufVars, histVars, serverVars
<1>2. UNCHANGED MishapCount
  BY DEF CollectAndBuild, serverVars, countVars, MishapCount
<1>3. ~Working /\ Working'
  BY <1>1 DEF Working
<1>4. cur \in 0 .. MaxHeartbeat /\ MaxHeartbeat \in Nat
  BY BufferAssumption, AgentAssumption DEF AgentInv, CurIsBuilt, Heartbeats
<1>5. CASE cur < Later
  <2>1. cur' = cur + 1 /\ ToDeliver' = ToDeliver \cup ({cur'} \cap Tracked)
    BY <1>1, <1>3, <1>5 DEF ToDeliver
  <2>2. Delivery!Build
    BY <1>1, <1>2, <2>1 DEF Delivery!Build
  <2>3. QED
    BY <2>2 DEF DeliveryStep, Delivery!DeliveryNext
<1>6. CASE ~(cur < Later)
  <2>1. cur' = cur /\ cur \notin Tracked
    BY <1>1, <1>4, <1>6 DEF Later, Tracked
  <2>2. ToDeliver' = ToDeliver
    BY <1>1, <2>1 DEF ToDeliver
  <2>3. QED
    BY <1>1, <2>1, <2>2, StepIsQuiet
<1>7. QED
  BY <1>5, <1>6

LEMMA StepIsDelivery ==
  ASSUME AgentInv, Types, CallMatches, OrderInv, LinesInv, WholeLines, PopIsSafe, Counted,
         torn' = torn, bpc \notin {"down", "load"} => InQueue, [Next]_vars
  PROVE  DeliveryStep
<1> USE DEF loopVars, serverVars, bufVars, histVars, callVars, NoBranch
<1>1. CASE Boot \/ BootFailed \/ Started \/ Shutdown \/ Tick \/ Retry \/ Elapse
  <2>1. /\ owed' = owed /\ cur' = cur /\ received' = received
    BY <1>1 DEF Boot, BootFailed, Started, Shutdown, Tick, Retry, Elapse, Open, Exit, Die
  <2>2. Working' <=> Working
    BY <1>1 DEF Boot, BootFailed, Started, Shutdown, Tick, Retry, Elapse, Working
  <2>3. QED
    BY <2>1, <2>2, LoopStepIsQuiet
<1>2. ASSUME NEW d, CollectAndBuild(d) PROVE DeliveryStep
  BY <1>2, BuildStep
<1>3. ASSUME NEW d, FlushSendOk(d) \/ FlushSendFails(d) PROVE DeliveryStep
  BY <1>3, FlushSendStep
<1>4. ASSUME NEW d, CurSendOk(d) \/ CurSendFails(d) PROVE DeliveryStep
  BY <1>4, CurSendStep
<1>5. CASE FlushPop
  BY <1>5, PopStep
<1>6. CASE FlushEmpty \/ FlushPersist \/ FlushReturn \/ ArmAfterAppend \/ Drain
  <2>1. /\ owed' = owed /\ cur' = cur /\ received' = received
    BY <1>6 DEF FlushEmpty, FlushPersist, FlushReturn, ArmAfterAppend, Drain, PersistCall
  <2>2. Working' <=> Working
    BY <1>6 DEF FlushEmpty, FlushPersist, FlushReturn, AfterFlush, ArmAfterAppend, Drain, Working
  <2>3. QED
    BY <2>1, <2>2, LoopStepIsQuiet
<1>7. CASE BufferCur
  BY <1>7, BufferCurStep
<1>8. CASE BufferProgress
  BY <1>8, ProgressStep
<1>9. CASE Mishap
  BY <1>9, MishapStep
<1>10. CASE UNCHANGED vars
  BY <1>10, LoopStepIsQuiet DEF vars, Working
<1>11. QED
  BY <1>1, <1>2, <1>3, <1>4, <1>5, <1>6, <1>7, <1>8, <1>9, <1>10 DEF Next, Process

----------------------------------------------------------------------------
\* The theorem

\* agent.go:20-21 with buffer.go:13-15, 20: whatever fails and however often the
\* process is restarted, until a write stops in the middle of a line, the agent
\* delivers each heartbeat that it builds at least once, the buffered ones oldest
\* first, except for those for which there was no room, or that were the newest
\* when a mishap took them; and a mishap explains each delivery too many.
THEOREM AgentImplementsDelivery == Spec => ImplementsDelivery
<1> DEFINE Inv == /\ AllInv /\ AgentInv /\ Types /\ CallMatches /\ BytesInv /\ OrderInv
                  /\ DeliveryInv /\ (torn \/ DurInv)
<1>1. Spec => []Inv
  <2>1. BufferSpec => [](torn \/ DurInv)
    BY DurInvAlways
  <2>2. Spec => BufferSpec
    BY AgentKeepsBufferContract DEF BufferContract
  <2>3. QED
    BY <2>1, <2>2, AllInvInit, AllInvStep, AuxiliaryAlways, DeliveryInvAlways, PTL DEF Spec
<1>2. Init => Delivery!DeliveryInit
  BY DEF Init, BufferInit, Delivery!DeliveryInit, ToDeliver, MishapCount, Working
<1>3. Inv /\ Inv' /\ [Next]_vars
      => [Delivery!DeliveryNext \/ torn']_<<cur, ToDeliver, received, MishapCount, torn>>
  <2>1. SUFFICES ASSUME Inv, Inv', [Next]_vars, ~torn'
                 PROVE  DeliveryStep
    BY DEF DeliveryStep
  <2>2. torn' = torn
    <3>1. [BufferNext]_bufVars
      BY <2>1, StepIsBufferStep
    <3>2. ~torn
      BY <2>1, <3>1, TornStays
    <3>3. torn \in BOOLEAN /\ torn' \in BOOLEAN
      BY <2>1 DEF AgentInv, SizeInv, BufferTypeOK
    <3>4. QED
      BY <2>1, <3>2, <3>3
  <2>3. LossInv /\ DurInv
    BY <2>1, <2>2 DEF AllInv
  <2>4. Counted
    BY <2>1, MishapsCounted DEF DeliveryInv
  <2>5. QED
    BY <2>1, <2>2, <2>3, <2>4, StepIsDelivery DEF LossInv, DurInv, DeliveryInv
<1>4. QED
  BY <1>1, <1>2, <1>3, PTL DEF Spec, ImplementsDelivery, Delivery!DeliverySpec, Delivery!deliveryVars
=============================================================================
