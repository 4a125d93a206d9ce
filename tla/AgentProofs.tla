----------------------------- MODULE AgentProofs -----------------------------
(***************************************************************************)
(* Proofs about the agent's loop, for any interval, jitter, lengths of     *)
(* calls and heartbeats, cap, and numbers and kinds of mishaps: it keeps   *)
(* the contract of the buffer's client, so that what is proved of the      *)
(* buffer holds of the agent; its state has its types; and it loses no     *)
(* heartbeat unaccounted.                                                  *)
(***************************************************************************)
EXTENDS AgentProps, BufferProofs, FiniteSetTheorems

----------------------------------------------------------------------------
\* The inductive invariant

NoneOver(t, m) == \A i \in DOMAIN t.frags : t.frags[i].hb <= m
NoneAbove(t)   == NoneOver(t, cur)

\* Nothing in the queue or the file is of a heartbeat built after m.
NoneNewer(m) ==
  /\ \A t \in Range(entries) \cup Range(lines) \cup {tail} : NoneOver(t, m)
  /\ arg <= m

UpToCur == NoneNewer(cur)

\* The newest heartbeat that can have been appended: not the current one before
\* the tick case comes to it, unless it has the number of all later ones.
Appended == IF branch = "tick" /\ pc # "arm" /\ cur # Later THEN cur - 1 ELSE cur

\* Only the tick case sends or appends the current heartbeat, and there is one.
CurIsBuilt ==
  /\ cur \in Heartbeats \cup {0}
  /\ pc \in {"send", "append"} => branch = "tick"
  /\ branch = "tick" => cur # 0

AgentInv == SizeInv /\ NoneNewer(Appended) /\ CurIsBuilt

LEMMA AgentStarts == Init => AgentInv
<1> SUFFICES ASSUME Init PROVE AgentInv
  OBVIOUS
<1>1. SizeInv
  BY SizeInvInit DEF Init
<1>2. NoneNewer(Appended)
  BY DEF Init, BufferInit, NoneNewer, NoneOver, Appended, Empty, Range
<1>3. CurIsBuilt
  BY DEF Init, CurIsBuilt
<1>4. QED
  BY <1>1, <1>2, <1>3 DEF AgentInv

----------------------------------------------------------------------------
\* What a step of the agent does to the buffer

\* A step of the buffer that its contract allows: none, a step of a call or any
\* call but an Append, or an Append of the current heartbeat.
AppendsCur    == pc = "append" /\ AppendCall(cur) /\ pc' = "arm" /\ cur' = cur
KeepsContract == UNCHANGED bufVars \/ AllButAppends \/ AppendsCur

LEMMA StepKeepsContract ==
  ASSUME [Next]_vars
  PROVE  KeepsContract
<1> USE DEF KeepsContract
<1>1. CASE Boot \/ BootFailed \/ Started \/ Shutdown \/ Tick \/ Retry \/ Elapse
  BY <1>1 DEF Boot, BootFailed, Started, Shutdown, Tick, Retry, Elapse, AllButAppends
<1>2. ASSUME NEW d,
             CollectAndBuild(d) \/ FlushSendOk(d) \/ FlushSendFails(d) \/ CurSendOk(d) \/ CurSendFails(d)
      PROVE  KeepsContract
  BY <1>2 DEF CollectAndBuild, FlushSendOk, FlushSendFails, CurSendOk, CurSendFails
<1>3. CASE FlushPop \/ FlushEmpty \/ FlushPersist \/ FlushReturn
  BY <1>3 DEF FlushPop, FlushEmpty, FlushPersist, FlushReturn, AllButAppends
<1>4. CASE BufferCur
  BY <1>4 DEF BufferCur, AppendOversized, AppendsCur
<1>5. CASE ArmAfterAppend \/ Drain
  BY <1>5 DEF ArmAfterAppend, Drain
<1>6. CASE BufferProgress \/ BufferFails
  BY <1>6 DEF BufferProgress, BufferFails, AllButAppends
<1>7. CASE Cancel \/ ServerFlips \/ ProcessDies \/ (\E d : BuildFails(d))
  BY <1>7 DEF BuildFails, Cancel, ServerFlips, ProcessDies, AllButAppends
<1>8. CASE UNCHANGED vars
  BY <1>8 DEF vars
<1>9. QED
  BY <1>1, <1>2, <1>3, <1>4, <1>5, <1>6, <1>7, <1>8 DEF Next, Process, Mishap

\* What a load would read
LEMMA RangeFileLines ==
  ASSUME BufferTypeOK
  PROVE  Range(FileLines) \subseteq Range(lines) \cup {tail}
BY RangeAppend DEF BufferTypeOK, FileLines

\* Nothing that can have been appended is newer than the current heartbeat.
LEMMA AppendedIsUpToCur ==
  ASSUME CurIsBuilt
  PROVE  /\ Appended \in Nat /\ cur \in Nat /\ Appended <= cur
         /\ pc = "append" /\ cur # Later => Appended < cur
BY BufferAssumption DEF CurIsBuilt, Appended, Heartbeats

LEMMA FragmentsAreNumbered ==
  ASSUME BufferTypeOK, NEW t \in Range(entries) \cup Range(lines) \cup {tail}
  PROVE  \A i \in DOMAIN t.frags : t.frags[i].hb \in Nat
<1>1. t \in Texts
  BY RangeOfSeq DEF BufferTypeOK
<1>2. t.frags \in Seq(Fragments)
  BY <1>1 DEF Texts
<1>3. \A i \in DOMAIN t.frags : t.frags[i] \in Fragments
  BY <1>2
<1>4. QED
  BY <1>3 DEF Fragments, Heartbeats

LEMMA UpToMore ==
  ASSUME BufferTypeOK, NEW m \in Nat, NEW k \in Nat, m <= k, NoneNewer(m)
  PROVE  NoneNewer(k)
<1>1. arg <= k
  BY DEF NoneNewer, BufferTypeOK, Heartbeats
<1>2. ASSUME NEW t \in Range(entries) \cup Range(lines) \cup {tail}
      PROVE  NoneOver(t, k)
  BY <1>2, FragmentsAreNumbered DEF NoneNewer, NoneOver
<1>3. QED
  BY <1>1, <1>2 DEF NoneNewer

LEMMA AgentUpToCur == AgentInv => UpToCur
BY AppendedIsUpToCur, UpToMore DEF AgentInv, SizeInv, UpToCur

\* The current heartbeat is newer than all there is, where it is appended.
LEMMA CurIsNewest ==
  ASSUME AgentInv, pc = "append"
  PROVE  Newest(cur)
<1>1. /\ Appended \in Nat /\ cur \in Nat /\ Appended <= cur
      /\ cur # MaxHeartbeat => Appended < cur
  BY AppendedIsUpToCur DEF AgentInv, Later
<1>2. ASSUME NEW t \in Range(entries) \cup Range(FileLines),
             NEW i \in DOMAIN t.frags
      PROVE  t.frags[i].hb < cur \/ (cur = MaxHeartbeat /\ t.frags[i].hb = cur)
  <2>1. t \in Range(entries) \cup Range(lines) \cup {tail}
    BY RangeFileLines DEF AgentInv, SizeInv
  <2>2. t.frags[i].hb \in Nat /\ t.frags[i].hb <= Appended
    BY <2>1, FragmentsAreNumbered DEF AgentInv, SizeInv, NoneNewer, NoneOver
  <2>3. QED
    BY <1>1, <2>2
<1>3. QED
  BY <1>2 DEF Newest

LEMMA StepIsBufferStep ==
  ASSUME AgentInv, [Next]_vars
  PROVE  [BufferNext]_bufVars
<1>1. CASE AppendsCur
  <2>1. cur \in Heartbeats
    BY <1>1 DEF AppendsCur, AgentInv, CurIsBuilt
  <2>2. QED
    BY <1>1, <2>1, CurIsNewest DEF AppendsCur, BufferNext, ClientAppends
<1>2. CASE UNCHANGED bufVars \/ AllButAppends
  BY <1>2 DEF BufferNext
<1>3. QED
  BY <1>1, <1>2, StepKeepsContract DEF KeepsContract

----------------------------------------------------------------------------
\* The invariant is preserved.

\* Neither cur nor what can have been appended ever shrinks, and a current
\* heartbeat is built before it is sent.
CurKept == CurIsBuilt' /\ cur' \in Nat /\ cur \in Nat /\ cur <= cur' /\ Appended <= Appended'

LEMMA CurIsBuiltStep ==
  ASSUME AgentInv, [Next]_vars
  PROVE  CurKept
<1>0. CurIsBuilt /\ cur \in 0 .. MaxHeartbeat /\ MaxHeartbeat \in Nat /\ MaxHeartbeat >= 1
  BY BufferAssumption, AgentAssumption DEF AgentInv, CurIsBuilt, Heartbeats
<1> USE DEF CurKept, CurIsBuilt, Appended, Heartbeats, NoBranch, loopVars
<1>1. CASE Boot \/ BootFailed \/ Started \/ Shutdown \/ Tick \/ Retry \/ Elapse
  BY <1>0, <1>1 DEF Boot, BootFailed, Started, Shutdown, Tick, Retry, Elapse
<1>2. ASSUME NEW d, CollectAndBuild(d)
      PROVE  CurKept
  BY <1>0, <1>2 DEF CollectAndBuild, Later
<1>3. ASSUME NEW d, FlushSendOk(d) \/ FlushSendFails(d) \/ CurSendOk(d) \/ CurSendFails(d)
      PROVE  CurKept
  BY <1>0, <1>3 DEF FlushSendOk, FlushSendFails, CurSendOk, CurSendFails
<1>4. CASE FlushPop \/ FlushEmpty \/ FlushPersist \/ FlushReturn
  BY <1>0, <1>4 DEF FlushPop, FlushEmpty, FlushPersist, FlushReturn, AfterFlush
<1>5. CASE BufferCur \/ ArmAfterAppend \/ Drain
  BY <1>0, <1>5 DEF BufferCur, ArmAfterAppend, Drain
<1>6. CASE BufferProgress \/ BufferFails
  BY <1>0, <1>6 DEF BufferProgress, BufferFails
<1>7. CASE Cancel \/ ServerFlips \/ ProcessDies \/ (\E d : BuildFails(d))
  BY <1>0, <1>7 DEF BuildFails, Cancel, ServerFlips, ProcessDies
<1>8. CASE UNCHANGED vars
  BY <1>0, <1>8 DEF vars
<1>9. QED
  BY <1>1, <1>2, <1>3, <1>4, <1>5, <1>6, <1>7, <1>8 DEF Next, Process, Mishap

\* What is written behind the last newline is of the heartbeat being appended.
LEMMA NoneAboveGlue ==
  ASSUME NEW m, NEW t \in Texts, NoneOver(t, m), NEW h \in Heartbeats, h <= m,
         NEW n \in Nat \ {0}
  PROVE  NoneOver(Glue(t, Prefix(h, n)), m)
<1> DEFINE f == [hb |-> h, n |-> n]
<1>1. t.frags \in Seq(Fragments) /\ f \in Fragments
  BY DEF Texts, Fragments
<1>2. Glue(t, Prefix(h, n)).frags = t.frags \o << f >>
  BY DEF Glue, Prefix
<1>3. /\ DOMAIN (t.frags \o << f >>) = 1 .. Len(t.frags) + 1 /\ Len(t.frags) \in Nat
      /\ DOMAIN t.frags = 1 .. Len(t.frags)
      /\ \A i \in 1 .. Len(t.frags) : (t.frags \o << f >>)[i] = t.frags[i]
      /\ (t.frags \o << f >>)[Len(t.frags) + 1] = f
  BY <1>1
<1>4. QED
  BY <1>2, <1>3 DEF NoneOver

\* A step of the buffer brings no heartbeat but the one being appended.
UpToNext(m) ==
  /\ \A t \in Range(entries') \cup Range(lines') \cup {tail'} : NoneOver(t, m)
  /\ arg' <= m \/ (AppendsCur /\ arg' = cur)

LEMMA BufferStepUpTo ==
  ASSUME SizeInv, NEW m \in Nat, NoneNewer(m), KeepsContract
  PROVE  UpToNext(m)
<1>a. entries \in Seq(Texts) /\ lines \in Seq(Texts) /\ tail \in Texts /\ arg \in Nat
  BY DEF SizeInv, BufferTypeOK, Heartbeats
<1> USE DEF NoneNewer, UpToNext, memVars, fileVars, callVars, histVars, Return
<1>e. NoneOver(Empty, m) /\ Range(<< >>) = {}
  BY DEF NoneOver, Empty, Range
<1>1. CASE Open \/ LoadEnd \/ TrimEnd \/ PersistCall \/ AppendOpenFails \/ AppendCloseFails
  BY <1>a, <1>1 DEF Open, LoadEnd, TrimEnd, PersistCall, AppendOpenFails, AppendCloseFails
<1>2. CASE LoadLine
  <2>1. FileLines \in Seq(Texts) /\ cursor + 1 \in 1 .. Len(FileLines)
    BY <1>2, FileLinesType, LenProperties DEF LoadLine, SizeInv, BufferTypeOK
  <2>2. FileLines[cursor + 1] \in Range(FileLines) /\ FileLines[cursor + 1] \in Texts
    BY <2>1, ElementOfSeq, LenProperties DEF Range
  <2>3. NoneOver(FileLines[cursor + 1], m)
    BY <2>2, RangeFileLines DEF SizeInv
  <2>4. Range(entries') = Range(entries) \cup {FileLines[cursor + 1]}
    BY <1>a, <1>2, <2>2, RangeAppend DEF LoadLine
  <2>5. QED
    BY <1>a, <1>2, <2>3, <2>4 DEF LoadLine
<1>3. CASE DropOldest \/ Pop
  <2>1. Range(entries') \subseteq Range(entries)
    BY <1>a, <1>3, RangeTail DEF DropOldest, OverCap, Pop
  <2>2. QED
    BY <1>a, <1>3, <2>1 DEF DropOldest, Pop
<1>4. CASE Rewrite
  BY <1>e, <1>4 DEF Rewrite
<1>5. CASE AppendWrite
  <2>1. arg \in Heartbeats /\ PayloadLen[arg] \in Nat \ {0}
    BY <1>5, BufferAssumption DEF AppendWrite, SizeInv, CallInv
  <2>2. NoneOver(Glue(tail, Payload(arg)), m) /\ Glue(tail, Payload(arg)) \in Texts
    BY <1>a, <2>1, NoneAboveGlue, PayloadIsText, GlueIsText DEF Payload
  <2>3. Range(lines') = Range(lines) \cup {Glue(tail, Payload(arg))}
    BY <1>a, <1>5, <2>2, RangeAppend DEF AppendWrite
  <2>4. QED
    BY <1>a, <1>e, <1>5, <2>2, <2>3 DEF AppendWrite
<1>6. ASSUME NEW n, AppendShort(n)
      PROVE  UpToNext(m)
  <2>1. arg \in Heartbeats /\ n \in Nat \ {0}
    BY <1>6, BufferAssumption DEF AppendShort, SizeInv, CallInv
  <2>2. NoneOver(tail', m)
    BY <1>a, <1>6, <2>1, NoneAboveGlue DEF AppendShort
  <2>3. QED
    BY <1>6, <2>2 DEF AppendShort
<1>7. CASE AppendClose
  <2>1. arg \in Heartbeats /\ PayloadLen[arg] \in Nat \ {0}
    BY <1>7, BufferAssumption DEF AppendClose, SizeInv, CallInv
  <2>2. NoneOver(Payload(arg), m) /\ Payload(arg) \in Texts
    BY <2>1, <1>e, EmptyIsText, NoneAboveGlue, GlueToEmpty, PayloadIsText DEF Payload
  <2>3. Range(entries') = Range(entries) \cup {Payload(arg)}
    BY <1>a, <1>7, <2>2, RangeAppend DEF AppendClose
  <2>4. QED
    BY <1>a, <1>7, <2>2, <2>3 DEF AppendClose
<1>8. CASE LoadFails \/ Exit \/ Crash
  BY <1>e, <1>8 DEF LoadFails, Exit, Crash, Die
<1>9. CASE RewriteFails
  BY <1>e, <1>9 DEF RewriteFails, Die
<1>10. CASE AppendsCur
  BY <1>10 DEF AppendsCur, AppendCall
<1>11. CASE UNCHANGED bufVars
  BY <1>a, <1>11 DEF bufVars
<1>12. QED
  BY <1>1, <1>2, <1>3, <1>4, <1>5, <1>6, <1>7, <1>8, <1>9, <1>10, <1>11
  DEF KeepsContract, AllButAppends, BufferStep, BufferFault

LEMMA AgentInductive == AgentInv /\ [Next]_vars => AgentInv'
<1> SUFFICES ASSUME AgentInv, [Next]_vars PROVE AgentInv'
  OBVIOUS
<1>1. SizeInv'
  BY StepIsBufferStep, SizeInvStep DEF AgentInv
<1>2. CurKept
  BY CurIsBuiltStep
<1>3. /\ Appended \in Nat /\ Appended' \in Nat /\ Appended <= Appended'
      /\ AppendsCur => Appended' = cur
  <2>1. Appended \in Nat
    BY AppendedIsUpToCur DEF AgentInv
  <2>2. Appended' \in Nat
    <3>1. cur' \in Nat /\ (branch' = "tick" => cur' # 0)
      BY <1>2 DEF CurKept, CurIsBuilt
    <3>2. ASSUME branch' = "tick" PROVE cur' - 1 \in Nat
      <4>1. cur' \in Nat /\ cur' # 0
        BY <3>1, <3>2
      <4>2. \A k \in Nat : k # 0 => k - 1 \in Nat
        OBVIOUS
      <4>3. QED
        BY <4>1, <4>2
    <3>3. Appended' = cur' \/ (branch' = "tick" /\ Appended' = cur' - 1)
      BY DEF Appended
    <3>4. QED
      BY <3>1, <3>2, <3>3
  <2>3. QED
    BY <1>2, <2>1, <2>2 DEF CurKept, AppendsCur, Appended
<1>4. UpToNext(Appended)
  BY <1>3, StepKeepsContract, BufferStepUpTo DEF AgentInv
<1>5. NoneNewer(Appended)'
  <2>1. arg' \in Nat /\ arg' <= Appended'
    BY <1>1, <1>3, <1>4 DEF UpToNext, SizeInv, BufferTypeOK, Heartbeats
  <2>2. ASSUME NEW t \in Range(entries') \cup Range(lines') \cup {tail'},
               NEW i \in DOMAIN t.frags
        PROVE  t.frags[i].hb <= Appended'
    <3>1. t \in Texts
      BY <1>1, <2>2, RangeOfSeq DEF SizeInv, BufferTypeOK
    <3>2. t.frags[i].hb \in Nat
      <4>1. t.frags \in Seq(Fragments)
        BY <3>1 DEF Texts
      <4>2. t.frags[i] \in Fragments
        BY <2>2, <4>1
      <4>3. QED
        BY <4>2 DEF Fragments, Heartbeats
    <3>3. t.frags[i].hb <= Appended
      BY <1>4, <2>2 DEF UpToNext, NoneOver
    <3>4. QED
      BY <1>3, <3>2, <3>3
  <2>3. QED
    BY <2>1, <2>2 DEF NoneNewer, NoneOver
<1>6. QED
  BY <1>1, <1>2, <1>5 DEF AgentInv, CurKept

----------------------------------------------------------------------------
\* The theorems

\* buffer.go:105-106: the loop, its retries and its restarts use the buffer as its
\* contract says, whatever fails; so whatever is proved of BufferSpec holds here.
THEOREM AgentKeepsBufferContract == Spec => BufferContract
<1>1. Init => BufferInit /\ AgentInv
  BY AgentStarts DEF Init
<1>2. AgentInv /\ [Next]_vars => [BufferNext]_bufVars
  BY StepIsBufferStep
<1>3. QED
  BY <1>1, <1>2, AgentInductive, PTL DEF Spec, BufferContract, BufferSpec

\* agent.go:20-21, with buffer.go:13-15: in the whole agent, until a write stops
\* in the middle of a line, a heartbeat that its buffer has taken over stays in
\* the file until it is sent or dropped to fit, at whatever point the process
\* ends.
THEOREM AgentDurable == Spec => []Durable
BY AgentKeepsBufferContract, BufferDurable DEF BufferContract

\* buffer.go:13-20 with agent.go:68-101: to the loop, through its retries, crashes and
\* restarts, the buffer is a bounded durable queue, until a write stops in the
\* middle of a line.
THEOREM AgentImplementsQueue == Spec => ImplementsQueue
BY AgentKeepsBufferContract, BufferImplementsQueue DEF BufferContract

----------------------------------------------------------------------------
\* The types of what is not the buffer's

TimerTypes ==
  /\ ticker \in (0 .. Interval + Jitter) \cup {Off}
  /\ retry \in (0 .. Interval) \cup {Off}
  /\ backoff \in [min : {MinDelay}, max : {Interval}, current : MinDelay .. Interval]

ServerTypes == up \in BOOLEAN /\ received \in [Tracked -> Nat] /\ lost \in 0 .. MaxLost

LoopTypes ==
  /\ pc \in AgentPCs /\ branch \in {"none", "tick", "retry"}
  /\ flushed \in BOOLEAN /\ ctxDone \in BOOLEAN

CountTypes ==
  /\ faults \in 0 .. MaxFaults /\ crashes \in 0 .. MaxCrashes /\ stops \in 0 .. MaxStops
  /\ casualties \subseteq Heartbeats

\* backoff.go:26-39 with the agent's limits: the doubling does not wrap around.
LEMMA AgentBackoff ==
  ASSUME TimerTypes
  PROVE  /\ AfterNext(backoff) \in [min : {MinDelay}, max : {Interval}, current : MinDelay .. Interval]
         /\ AfterReset(backoff) \in [min : {MinDelay}, max : {Interval}, current : MinDelay .. Interval]
         /\ NextDelay(backoff) \in 0 .. Interval
<1>1. /\ MinDelay \in Nat /\ MinDelay >= 1 /\ Interval \in Nat /\ MaxDuration \in Nat
      /\ 2 * Interval <= MaxDuration /\ MinDelay <= Interval
  BY AgentAssumption, MaxDurationAssumption
<1>2. /\ backoff \in [min : {MinDelay}, max : {Interval}, current : MinDelay .. Interval]
      /\ backoff.current \in MinDelay .. Interval /\ backoff.min = MinDelay /\ backoff.max = Interval
  BY DEF TimerTypes
<1>3. 2 * backoff.current <= MaxDuration /\ Doubled(backoff.current) = 2 * backoff.current
  BY <1>1, <1>2 DEF Doubled
<1>4. QED
  BY <1>1, <1>2, <1>3 DEF AfterNext, AfterReset, NextDelay

LEMMA FreshBackoffType ==
  FreshBackoff \in [min : {MinDelay}, max : {Interval}, current : MinDelay .. Interval]
BY AgentAssumption DEF FreshBackoff, NewBackoff

\* Time passes during a call.
LEMMA PassTypes ==
  ASSUME TimerTypes, NEW d \in Nat, Pass(d)
  PROVE  TimerTypes'
<1>1. ASSUME NEW m \in Nat, NEW timer \in (0 .. m) \cup {Off}
      PROVE  After(timer, d) \in (0 .. m) \cup {Off}
  BY DEF After, Off
<1>2. Interval \in Nat /\ Interval + Jitter \in Nat
  BY AgentAssumption
<1>3. QED
  BY <1>1, <1>2 DEF TimerTypes, Pass

LEMMA ResetTickerTypes ==
  ASSUME ResetTicker
  PROVE  ticker' \in 0 .. Interval + Jitter
BY AgentAssumption DEF ResetTicker, NextIntervals

LEMMA DurationsAreNats == Durations \subseteq Nat
BY AgentAssumption DEF Durations

LEMMA TimerTypesStep ==
  ASSUME TimerTypes, [Next]_vars
  PROVE  TimerTypes'
<1> USE DEF timerVars
<1>1. CASE UNCHANGED timerVars
  BY <1>1 DEF TimerTypes
<1>2. ASSUME NEW d \in Nat, Pass(d)
      PROVE  TimerTypes'
  BY <1>2, PassTypes
<1>3. CASE Boot \/ BootFailed
  BY <1>1, <1>3 DEF Boot, BootFailed
<1>4. CASE Started
  BY <1>4, ResetTickerTypes, FreshBackoffType DEF Started, TimerTypes
<1>5. CASE Shutdown \/ Tick \/ Retry \/ ProcessDies
  BY <1>5 DEF Shutdown, Tick, Retry, ProcessDies, TimerTypes
<1>6. CASE Elapse
  BY <1>2, <1>6 DEF Elapse
<1>7. ASSUME NEW d, CollectAndBuild(d) \/ FlushSendOk(d) \/ FlushSendFails(d) \/ CurSendFails(d)
      PROVE  TimerTypes'
  BY <1>2, <1>7, DurationsAreNats
     DEF CollectAndBuild, FlushSendOk, FlushSendFails, CurSendFails
<1>8. ASSUME NEW d, CurSendOk(d)
      PROVE  TimerTypes'
  BY <1>8, ResetTickerTypes, AgentBackoff DEF CurSendOk, Reset, TimerTypes
<1>9. CASE FlushPop \/ FlushEmpty \/ FlushPersist \/ FlushReturn \/ BufferCur
  BY <1>1, <1>9 DEF FlushPop, FlushEmpty, FlushPersist, FlushReturn, BufferCur
<1>10. ASSUME NEW d, BuildFails(d)
       PROVE  TimerTypes'
  <2>1. d \in Nat
    BY <1>10, DurationsAreNats DEF BuildFails
  <2>2. After(retry, d) \in (0 .. Interval) \cup {Off}
    BY <2>1, AgentAssumption DEF TimerTypes, After, Off
  <2>3. QED
    BY <1>10, <2>2, ResetTickerTypes DEF BuildFails, TimerTypes
<1>11. CASE ArmAfterAppend
  BY <1>11, ResetTickerTypes, AgentBackoff DEF ArmAfterAppend, Arm, TimerTypes
<1>12. CASE Drain
  BY <1>12, AgentBackoff DEF Drain, Arm, Reset, TimerTypes
<1>13. CASE BufferProgress \/ BufferFails \/ Cancel \/ ServerFlips
  BY <1>1, <1>13 DEF BufferProgress, BufferFails, Cancel, ServerFlips
<1>14. CASE UNCHANGED vars
  BY <1>1, <1>14 DEF vars
<1>15. QED
  BY <1>3, <1>4, <1>5, <1>6, <1>7, <1>8, <1>9, <1>10, <1>11, <1>12, <1>13, <1>14
  DEF Next, Process, Mishap

LEMMA RecordTypes ==
  ASSUME ServerTypes, NEW t, Record(t)
  PROVE  received' \in [Tracked -> Nat]
BY DEF ServerTypes, Record

LEMMA ServerTypesStep ==
  ASSUME ServerTypes, [Next]_vars
  PROVE  ServerTypes'
<1> USE DEF serverVars
<1>1. CASE UNCHANGED serverVars
  BY <1>1 DEF ServerTypes
<1>2. ASSUME NEW t, SendOk(t) \/ SendFails(t)
      PROVE  ServerTypes'
  BY <1>1, <1>2, RecordTypes, AgentAssumption DEF SendOk, SendFails, ServerTypes
<1>3. ASSUME NEW d, FlushSendOk(d) \/ FlushSendFails(d) \/ CurSendOk(d) \/ CurSendFails(d)
      PROVE  ServerTypes'
  BY <1>2, <1>3 DEF FlushSendOk, FlushSendFails, CurSendOk, CurSendFails
<1>4. ASSUME NEW d, CollectAndBuild(d)
      PROVE  ServerTypes'
  BY <1>1, <1>4 DEF CollectAndBuild
<1>5. CASE Boot \/ BootFailed \/ Started \/ Shutdown \/ Tick \/ Retry \/ Elapse
  BY <1>1, <1>5 DEF Boot, BootFailed, Started, Shutdown, Tick, Retry, Elapse
<1>6. CASE FlushPop \/ FlushEmpty \/ FlushPersist \/ FlushReturn
  BY <1>1, <1>6 DEF FlushPop, FlushEmpty, FlushPersist, FlushReturn
<1>7. CASE BufferCur \/ ArmAfterAppend \/ Drain \/ BufferProgress \/ BufferFails
  BY <1>1, <1>7 DEF BufferCur, ArmAfterAppend, Drain, BufferProgress, BufferFails
<1>8. CASE (\E d : BuildFails(d)) \/ Cancel \/ ProcessDies
  BY <1>1, <1>8 DEF BuildFails, Cancel, ProcessDies
<1>9. CASE ServerFlips
  BY <1>9 DEF ServerFlips, ServerTypes
<1>10. CASE UNCHANGED vars
  BY <1>1, <1>10 DEF vars
<1>11. QED
  BY <1>3, <1>4, <1>5, <1>6, <1>7, <1>8, <1>9, <1>10 DEF Next, Process, Mishap

LEMMA LoopTypesStep ==
  ASSUME LoopTypes, [Next]_vars
  PROVE  LoopTypes'
<1> USE DEF LoopTypes, AgentPCs, NoBranch, loopVars
<1>1. CASE Boot \/ BootFailed \/ Started \/ Shutdown \/ Tick \/ Retry \/ Elapse
  BY <1>1 DEF Boot, BootFailed, Started, Shutdown, Tick, Retry, Elapse
<1>2. ASSUME NEW d, CollectAndBuild(d) \/ FlushSendOk(d) \/ FlushSendFails(d)
      PROVE  LoopTypes'
  BY <1>2 DEF CollectAndBuild, FlushSendOk, FlushSendFails
<1>3. ASSUME NEW d, CurSendOk(d) \/ CurSendFails(d)
      PROVE  LoopTypes'
  BY <1>3 DEF CurSendOk, CurSendFails
<1>4. CASE FlushPop \/ FlushEmpty \/ FlushPersist \/ FlushReturn
  BY <1>4 DEF FlushPop, FlushEmpty, FlushPersist, FlushReturn, AfterFlush
<1>5. CASE BufferCur \/ ArmAfterAppend \/ Drain \/ BufferProgress \/ BufferFails
  BY <1>5 DEF BufferCur, ArmAfterAppend, Drain, BufferProgress, BufferFails
<1>6. CASE (\E d : BuildFails(d)) \/ Cancel \/ ServerFlips \/ ProcessDies
  BY <1>6 DEF BuildFails, Cancel, ServerFlips, ProcessDies
<1>7. CASE UNCHANGED vars
  BY <1>7 DEF vars
<1>8. QED
  BY <1>1, <1>2, <1>3, <1>4, <1>5, <1>6, <1>7 DEF Next, Process, Mishap

LEMMA CountTypesStep ==
  ASSUME AgentInv, CountTypes, [Next]_vars
  PROVE  CountTypes'
<1> USE DEF countVars
<1>1. CASE UNCHANGED <<countVars, casualties>>
  BY <1>1 DEF CountTypes
<1>2. CASE Boot \/ BootFailed \/ Started \/ Shutdown \/ Tick \/ Retry \/ Elapse
  BY <1>1, <1>2 DEF Boot, BootFailed, Started, Shutdown, Tick, Retry, Elapse
<1>3. ASSUME NEW d, CollectAndBuild(d) \/ FlushSendOk(d) \/ FlushSendFails(d)
                    \/ CurSendOk(d) \/ CurSendFails(d)
      PROVE  CountTypes'
  BY <1>1, <1>3 DEF CollectAndBuild, FlushSendOk, FlushSendFails, CurSendOk, CurSendFails
<1>4. CASE FlushPop \/ FlushEmpty \/ FlushPersist \/ FlushReturn
  BY <1>1, <1>4 DEF FlushPop, FlushEmpty, FlushPersist, FlushReturn
<1>5. CASE BufferCur
  BY <1>5 DEF BufferCur, CountTypes, AgentInv, CurIsBuilt
<1>6. CASE ArmAfterAppend \/ Drain \/ BufferProgress \/ ServerFlips
  BY <1>1, <1>6 DEF ArmAfterAppend, Drain, BufferProgress, ServerFlips
<1>7. CASE BufferFails
  <2>1. bpc \in {"append", "close"} => arg \in Heartbeats
    BY DEF AgentInv, SizeInv, CallInv
  <2>2. faults' \in 0 .. MaxFaults
    BY <1>7, AgentAssumption DEF BufferFails, CountTypes
  <2>3. casualties' \subseteq Heartbeats
    BY <1>7, <2>1 DEF BufferFails, CountTypes
  <2>4. QED
    BY <1>7, <2>2, <2>3 DEF BufferFails, CountTypes
<1>8. CASE (\E d : BuildFails(d)) \/ Cancel
  BY <1>8, AgentAssumption DEF BuildFails, Cancel, CountTypes
<1>9. CASE ProcessDies
  BY <1>9, AgentAssumption DEF ProcessDies, InFlight, CountTypes, AgentInv, CurIsBuilt
<1>10. CASE UNCHANGED vars
  BY <1>1, <1>10 DEF vars
<1>11. QED
  BY <1>2, <1>3, <1>4, <1>5, <1>6, <1>7, <1>8, <1>9, <1>10 DEF Next, Process, Mishap

\* Every variable has its type: in particular every delay of the retrier is
\* within the interval, whatever the sequence of arms and resets (agent.go:120-143).
THEOREM AgentTypeCorrect == Spec => []TypeOK
<1> DEFINE Types == TimerTypes /\ ServerTypes /\ LoopTypes /\ CountTypes
<1>1. Init => AgentInv /\ Types
  <2> SUFFICES ASSUME Init PROVE Types
    BY AgentStarts
  <2>1. TimerTypes
    BY FreshBackoffType DEF Init, TimerTypes
  <2>2. ServerTypes
    BY AgentAssumption DEF Init, ServerTypes
  <2>3. LoopTypes
    BY DEF Init, LoopTypes, AgentPCs
  <2>4. CountTypes
    BY AgentAssumption DEF Init, CountTypes
  <2>5. QED
    BY <2>1, <2>2, <2>3, <2>4
<1>2. AgentInv /\ Types /\ [Next]_vars => AgentInv' /\ Types'
  BY AgentInductive, TimerTypesStep, ServerTypesStep, LoopTypesStep, CountTypesStep
<1>3. AgentInv /\ Types => TypeOK
  BY DEF AgentInv, SizeInv, CurIsBuilt, TimerTypes, ServerTypes, LoopTypes, CountTypes, TypeOK
<1>4. QED
  BY <1>1, <1>2, <1>3, PTL DEF Spec

(***************************************************************************)
(* No heartbeat is lost unaccounted, in any sequence of outages, retries,  *)
(* failing calls, crashes and restarts, until a write stops in the middle  *)
(* of a line.                                                              *)
(***************************************************************************)

----------------------------------------------------------------------------
\* The invariant of the loop, the call and the heartbeats

\* Where the loop is and how far its buffer call has come
CallMatches ==
  /\ pc \notin {"off", "boot"} => bpc \notin {"down", "load"} /\ caller # "load"
  /\ bpc # "idle" => pc \in {"off", "boot", "persist", "arm"}
  /\ bpc = "idle" => caller = "none"
  /\ bpc \in {"append", "close"} => pc = "arm" /\ arg = cur
  /\ pc \in {"send", "append", "arm"} => branch = "tick"

\* Each line, in memory or in the file, is one whole payload that fits.
WholeLines ==
  /\ tail = Empty
  /\ \A t \in Range(entries) \cup Range(lines) : \E h \in Heartbeats : t = Payload(h) /\ Fits(h)
  /\ bpc \in {"append", "close"} => Fits(arg)

Accounted(h) == received[h] > 0 \/ h \in owed \cup evicted \cup casualties

NotLost == \A h \in Tracked : h <= cur => Accounted(h) \/ (h = cur /\ Working)

\* What is about to be popped has been recorded.
PopIsSafe ==
  pc = "pop" => /\ entries # << >>
                /\ \A h \in HeartbeatsIn(Head(entries)) \cap Tracked : received[h] > 0

FewCasualties == Cardinality({h \in casualties : Fits(h)}) <= crashes + faults

Types    == TimerTypes /\ ServerTypes /\ LoopTypes /\ CountTypes
LossInv  == WholeLines /\ NotLost /\ PopIsSafe
AllInv   == AgentInv /\ Types /\ CallMatches /\ FewCasualties /\ (torn \/ LossInv)

----------------------------------------------------------------------------
\* The loop and the buffer call it makes

LEMMA CallMatchesStep ==
  ASSUME AgentInv, LoopTypes, CallMatches, [Next]_vars
  PROVE  CallMatches'
<1>a. bpc \in BufferPCs /\ pc \in AgentPCs
  BY DEF AgentInv, SizeInv, BufferTypeOK, LoopTypes
<1> USE DEF CallMatches, bufVars, callVars, loopVars, NoBranch, Die, Return, AgentPCs, BufferPCs
<1>1. CASE Boot
  BY <1>1 DEF Boot, Open
<1>2. CASE BootFailed \/ Started \/ Tick \/ Retry \/ Elapse
  BY <1>a, <1>2 DEF BootFailed, Started, Tick, Retry, Elapse
<1>3. CASE Shutdown
  BY <1>3 DEF Shutdown, Exit
<1>4. ASSUME NEW d, CollectAndBuild(d) \/ FlushSendOk(d) \/ FlushSendFails(d)
      PROVE  CallMatches'
  BY <1>a, <1>4 DEF CollectAndBuild, FlushSendOk, FlushSendFails
<1>5. ASSUME NEW d, CurSendOk(d) \/ CurSendFails(d)
      PROVE  CallMatches'
  BY <1>a, <1>5 DEF CurSendOk, CurSendFails
<1>6. CASE FlushPop
  BY <1>6 DEF FlushPop, Pop
<1>7. CASE FlushEmpty \/ FlushReturn
  BY <1>a, <1>7 DEF FlushEmpty, FlushReturn, AfterFlush
<1>8. CASE FlushPersist
  BY <1>8 DEF FlushPersist, PersistCall
<1>9. CASE BufferCur
  BY <1>a, <1>9 DEF BufferCur, AppendCall, AppendOversized
<1>10. CASE ArmAfterAppend \/ Drain
  BY <1>a, <1>10 DEF ArmAfterAppend, Drain
<1>11. CASE BufferProgress
  BY <1>a, <1>11 DEF BufferProgress, BufferStep, LoadLine, LoadEnd, DropOldest, TrimEnd,
                     Rewrite, AppendWrite, AppendClose
<1>12. CASE BufferFails
  BY <1>a, <1>12 DEF BufferFails, BufferFault, LoadFails, RewriteFails, AppendOpenFails,
                     AppendCloseFails, AppendShort
<1>13. CASE (\E d : BuildFails(d)) \/ Cancel \/ ServerFlips
  BY <1>a, <1>13 DEF BuildFails, Cancel, ServerFlips
<1>14. CASE ProcessDies
  BY <1>14 DEF ProcessDies, Crash
<1>15. CASE UNCHANGED vars
  BY <1>a, <1>15 DEF vars
<1>16. QED
  BY <1>1, <1>2, <1>3, <1>4, <1>5, <1>6, <1>7, <1>8, <1>9, <1>10, <1>11, <1>12, <1>13,
     <1>14, <1>15 DEF Next, Process, Mishap

----------------------------------------------------------------------------
\* The buffer's lines

LEMMA InPayload ==
  ASSUME NEW h \in Heartbeats
  PROVE  HeartbeatsIn(Payload(h)) = {h}
BY DEF HeartbeatsIn, Payload, Prefix, Range

LEMMA WholeLinesStep ==
  ASSUME SizeInv, WholeLines, [BufferNext]_bufVars
  PROVE  WholeLines' \/ torn'
<1>a. entries \in Seq(Texts) /\ lines \in Seq(Texts) /\ FileLines = lines
  BY DEF SizeInv, BufferTypeOK, WholeLines, FileLines
<1> USE DEF WholeLines, memVars, fileVars, callVars, histVars, Return, Fits, Payload, Prefix, Weight
<1>e. Range(<< >>) = {}
  BY DEF Range
<1>1. CASE Open \/ LoadEnd \/ TrimEnd \/ PersistCall \/ AppendOpenFails \/ AppendCloseFails
  BY <1>1 DEF Open, LoadEnd, TrimEnd, PersistCall, AppendOpenFails, AppendCloseFails
<1>2. CASE LoadLine
  <2>1. cursor + 1 \in 1 .. Len(lines)
    BY <1>a, <1>2, LenProperties DEF LoadLine, SizeInv, BufferTypeOK
  <2>2. lines[cursor + 1] \in Range(lines) /\ lines[cursor + 1] \in Texts
    BY <1>a, <2>1, RangeEquality, ElementOfSeq
  <2>3. Range(entries') = Range(entries) \cup {lines[cursor + 1]}
    BY <1>a, <1>2, <2>2, RangeAppend DEF LoadLine
  <2>4. QED
    BY <1>2, <2>2, <2>3 DEF LoadLine
<1>3. CASE DropOldest \/ Pop
  <2>1. Range(entries') \subseteq Range(entries)
    BY <1>a, <1>3, RangeTail DEF DropOldest, OverCap, Pop
  <2>2. QED
    BY <1>3, <2>1 DEF DropOldest, Pop
<1>4. CASE Rewrite
  BY <1>4 DEF Rewrite
<1>5. CASE AppendWrite
  <2>1. arg \in Heartbeats /\ Payload(arg) \in Texts
    BY <1>5, PayloadIsText DEF AppendWrite, SizeInv, CallInv
  <2>2. Range(lines') = Range(lines) \cup {Payload(arg)}
    BY <1>a, <1>5, <2>1, GlueToEmpty, RangeAppend DEF AppendWrite
  <2>3. QED
    BY <1>5, <2>1, <2>2 DEF AppendWrite
<1>6. ASSUME NEW n, AppendShort(n) PROVE torn'
  BY <1>6 DEF AppendShort
<1>7. CASE AppendClose
  <2>1. arg \in Heartbeats /\ Payload(arg) \in Texts
    BY <1>7, PayloadIsText DEF AppendClose, SizeInv, CallInv
  <2>2. Range(entries') = Range(entries) \cup {Payload(arg)}
    BY <1>a, <1>7, <2>1, RangeAppend DEF AppendClose
  <2>3. QED
    BY <1>7, <2>1, <2>2 DEF AppendClose
<1>8. CASE LoadFails \/ Exit \/ Crash
  BY <1>e, <1>8 DEF LoadFails, Exit, Crash, Die
<1>9. CASE RewriteFails
  BY <1>e, <1>9 DEF RewriteFails, Die
<1>10. ASSUME NEW h, AppendCall(h) PROVE WholeLines'
  BY <1>10 DEF AppendCall
<1>11. CASE UNCHANGED bufVars
  BY <1>11 DEF bufVars
<1>12. QED
  BY <1>1, <1>2, <1>3, <1>4, <1>5, <1>6, <1>7, <1>8, <1>9, <1>10, <1>11
  DEF BufferNext, ClientAppends, AllButAppends, BufferStep, BufferFault

----------------------------------------------------------------------------
\* What is accounted for stays so.

\* No call but Pop forgets what the buffer owes; dropping to fit remembers it.
LEMMA OwedStays ==
  ASSUME \/ UNCHANGED bufVars \/ Open \/ BufferStep \/ BufferFault \/ PersistCall \/ Exit \/ Crash
         \/ \E h \in Heartbeats \cup {0} : AppendCall(h)
  PROVE  owed \cup evicted \subseteq owed' \cup evicted'
<1> USE DEF memVars, fileVars, callVars, histVars, Return, Die
<1>1. CASE Open \/ PersistCall \/ Exit \/ Crash \/ UNCHANGED bufVars
  BY <1>1 DEF Open, PersistCall, Exit, Crash, bufVars
<1>2. CASE BufferStep
  BY <1>2 DEF BufferStep, LoadLine, LoadEnd, DropOldest, TrimEnd, Rewrite, AppendWrite, AppendClose
<1>3. CASE BufferFault
  BY <1>3 DEF BufferFault, LoadFails, RewriteFails, AppendOpenFails, AppendCloseFails, AppendShort
<1>4. ASSUME NEW h, AppendCall(h) PROVE owed \cup evicted \subseteq owed' \cup evicted'
  BY <1>4 DEF AppendCall
<1>5. QED
  BY <1>1, <1>2, <1>3, <1>4

LEMMA RecordGrows ==
  ASSUME ServerTypes, NEW t, Record(t)
  PROVE  \A h \in Tracked : received'[h] \in Nat /\ received[h] \in Nat /\ received'[h] >= received[h]
<1>1. received \in [Tracked -> Nat]
  BY DEF ServerTypes
<1>2. QED
  BY <1>1 DEF Record

LEMMA PayloadRecorded ==
  ASSUME ServerTypes, NEW h \in Tracked, Record(Payload(h))
  PROVE  received'[h] > 0
<1>1. received \in [Tracked -> Nat] /\ received[h] \in Nat
  BY DEF ServerTypes
<1>2. Payload(h).frags[1] = [hb |-> h, n |-> PayloadLen[h]]
  BY DEF Payload, Prefix
<1>3. Decodes(Payload(h)) /\ Payload(h).frags[1].hb = h
  BY <1>2 DEF Decodes
<1>4. received' = [received EXCEPT ![h] = @ + 1]
  BY <1>3 DEF Record
<1>5. QED
  BY <1>1, <1>4

ReceivedGrows ==
  \A h \in Tracked : received'[h] \in Nat /\ received[h] \in Nat /\ received'[h] >= received[h]

LEMMA ReceivedStep ==
  ASSUME ServerTypes, [Next]_vars
  PROVE  ReceivedGrows
<1> USE DEF serverVars
<1>1. CASE UNCHANGED received
  BY <1>1 DEF ServerTypes, ReceivedGrows
<1>2. ASSUME NEW t, SendOk(t) \/ SendFails(t)
      PROVE  ReceivedGrows
  BY <1>1, <1>2, RecordGrows DEF SendOk, SendFails, ReceivedGrows
<1>3. ASSUME NEW d, FlushSendOk(d) \/ FlushSendFails(d) \/ CurSendOk(d) \/ CurSendFails(d)
      PROVE  ReceivedGrows
  BY <1>2, <1>3 DEF FlushSendOk, FlushSendFails, CurSendOk, CurSendFails
<1>4. ASSUME NEW d, CollectAndBuild(d)
      PROVE  ReceivedGrows
  BY <1>1, <1>4 DEF CollectAndBuild
<1>5. CASE Boot \/ BootFailed \/ Started \/ Shutdown \/ Tick \/ Retry \/ Elapse
  BY <1>1, <1>5 DEF Boot, BootFailed, Started, Shutdown, Tick, Retry, Elapse
<1>6. CASE FlushPop \/ FlushEmpty \/ FlushPersist \/ FlushReturn
  BY <1>1, <1>6 DEF FlushPop, FlushEmpty, FlushPersist, FlushReturn
<1>7. CASE BufferCur \/ ArmAfterAppend \/ Drain \/ BufferProgress \/ BufferFails
  BY <1>1, <1>7 DEF BufferCur, ArmAfterAppend, Drain, BufferProgress, BufferFails
<1>8. CASE (\E d : BuildFails(d)) \/ Cancel \/ ServerFlips \/ ProcessDies
  BY <1>1, <1>8 DEF BuildFails, Cancel, ServerFlips, ProcessDies
<1>9. CASE UNCHANGED vars
  BY <1>1, <1>9 DEF vars
<1>10. QED
  BY <1>3, <1>4, <1>5, <1>6, <1>7, <1>8, <1>9 DEF Next, Process, Mishap

\* What the buffer owes or has evicted, except for what is popped; and what was
\* lost to a crash or a failing Append
HistoryStays == owed \cup evicted \subseteq owed' \cup evicted' /\ casualties \subseteq casualties'

LEMMA HistoryStep ==
  ASSUME AgentInv, [Next]_vars
  PROVE  HistoryStays \/ FlushPop
<1> USE DEF HistoryStays
<1>0. cur \in Heartbeats \cup {0}
  BY DEF AgentInv, CurIsBuilt
<1>1. CASE Boot \/ Shutdown \/ FlushPersist
  BY <1>1, OwedStays DEF Boot, Shutdown, FlushPersist
<1>2. CASE BootFailed \/ Started \/ Tick \/ Retry \/ Elapse
  BY <1>2, OwedStays DEF BootFailed, Started, Tick, Retry, Elapse
<1>3. ASSUME NEW d, CollectAndBuild(d) \/ FlushSendOk(d) \/ FlushSendFails(d)
                    \/ CurSendOk(d) \/ CurSendFails(d)
      PROVE  HistoryStays
  BY <1>3, OwedStays DEF CollectAndBuild, FlushSendOk, FlushSendFails, CurSendOk, CurSendFails
<1>4. CASE FlushEmpty \/ FlushReturn \/ ArmAfterAppend \/ Drain
  BY <1>4, OwedStays DEF FlushEmpty, FlushReturn, ArmAfterAppend, Drain
<1>5. CASE BufferCur
  BY <1>0, <1>5, OwedStays DEF BufferCur, AppendOversized
<1>6. CASE BufferProgress \/ BufferFails
  BY <1>6, OwedStays DEF BufferProgress, BufferFails
<1>7. CASE (\E d : BuildFails(d)) \/ Cancel \/ ServerFlips \/ ProcessDies
  BY <1>7, OwedStays DEF BuildFails, Cancel, ServerFlips, ProcessDies
<1>8. CASE UNCHANGED vars
  BY <1>8, OwedStays DEF vars
<1>9. QED
  BY <1>1, <1>2, <1>3, <1>4, <1>5, <1>6, <1>7, <1>8 DEF Next, Process, Mishap

LEMMA AccountedStays ==
  ASSUME AgentInv, ServerTypes, PopIsSafe, [Next]_vars, NEW h \in Tracked, Accounted(h)
  PROVE  Accounted(h)'
<1>1. received'[h] \in Nat /\ received[h] \in Nat /\ received'[h] >= received[h]
  BY ReceivedStep DEF ReceivedGrows
<1>2. CASE HistoryStays
  BY <1>1, <1>2 DEF HistoryStays, Accounted
<1>3. CASE FlushPop
  <2>1. /\ owed' = owed \ HeartbeatsIn(Head(entries)) /\ evicted' = evicted
        /\ casualties' = casualties /\ pc = "pop"
    BY <1>3 DEF FlushPop, Pop
  <2>2. CASE h \in HeartbeatsIn(Head(entries))
    BY <1>1, <2>1, <2>2 DEF PopIsSafe, Accounted
  <2>3. CASE h \notin HeartbeatsIn(Head(entries))
    BY <1>1, <2>1, <2>3 DEF Accounted
  <2>4. QED
    BY <2>2, <2>3
<1>4. QED
  BY <1>2, <1>3, HistoryStep

----------------------------------------------------------------------------
\* The heartbeat being worked on

\* It stays in the loop's hands until it is accounted for.
LEMMA WorkingStep ==
  ASSUME AgentInv, Types, CallMatches, cur \in Tracked, Working, [Next]_vars
  PROVE  cur' = cur /\ (Working' \/ Accounted(cur)')
<1> DEFINE Goal == cur' = cur /\ (Working' \/ Accounted(cur)')
<1>c. cur' = cur => (Accounted(cur)' <=> received'[cur] > 0 \/ cur \in owed' \cup evicted' \cup casualties')
  BY DEF Accounted
<1> USE DEF Working, bufVars, callVars, histVars, loopVars
<1>1. CASE Boot \/ BootFailed \/ Started \/ Shutdown \/ Tick \/ Retry \/ Elapse \/ (\E d : BuildFails(d)) \/ Drain
  BY <1>1 DEF Boot, BootFailed, Started, Shutdown, Tick, Retry, Elapse, BuildFails, Drain
<1>2. ASSUME NEW d, CollectAndBuild(d) \/ FlushSendOk(d) \/ FlushSendFails(d) \/ CurSendFails(d)
      PROVE  Goal
  BY <1>2 DEF CollectAndBuild, FlushSendOk, FlushSendFails, CurSendFails
<1>3. ASSUME NEW d, CurSendOk(d)
      PROVE  Goal
  <2>1. Record(Payload(cur)) /\ cur' = cur
    BY <1>3 DEF CurSendOk, SendOk, NoBranch
  <2>2. received'[cur] > 0
    BY <2>1, PayloadRecorded DEF Types
  <2>3. QED
    BY <1>c, <2>1, <2>2
<1>4. CASE FlushPop \/ FlushEmpty \/ FlushPersist \/ FlushReturn
  BY <1>4 DEF FlushPop, FlushEmpty, FlushPersist, FlushReturn, AfterFlush
<1>5. CASE BufferCur
  <2>1. cur' = cur /\ branch' = branch /\ pc' = "arm"
    BY <1>5 DEF BufferCur
  <2>2. CASE AppendCall(cur)
    BY <2>1, <2>2 DEF AppendCall
  <2>3. CASE casualties' = casualties \cup {cur}
    BY <1>c, <2>1, <2>3
  <2>4. QED
    BY <1>5, <2>2, <2>3 DEF BufferCur
<1>6. CASE ArmAfterAppend
  BY <1>6 DEF ArmAfterAppend
<1>7. CASE BufferProgress
  <2>1. cur' = cur /\ branch' = branch /\ pc' = pc /\ BufferStep
    BY <1>7 DEF BufferProgress
  <2>2. CASE pc # "arm"
    BY <2>1, <2>2
  <2>3. CASE AppendWrite
    BY <2>1, <2>3 DEF AppendWrite
  <2>4. CASE AppendClose
    BY <1>c, <2>1, <2>4 DEF AppendClose, CallMatches
  <2>5. CASE pc = "arm" /\ ~AppendWrite /\ ~AppendClose
    BY <2>1, <2>5 DEF BufferStep, LoadLine, LoadEnd, DropOldest, TrimEnd, Rewrite
  <2>6. QED
    BY <2>2, <2>3, <2>4, <2>5
<1>8. CASE BufferFails
  <2>1. cur' = cur /\ branch' = branch /\ pc' = pc
    BY <1>8 DEF BufferFails
  <2>2. CASE pc # "arm"
    BY <2>1, <2>2
  <2>3. CASE pc = "arm"
    <3>1. casualties' = casualties \cup {cur}
      BY <1>8, <2>3 DEF BufferFails, CallMatches
    <3>2. QED
      BY <1>c, <2>1, <3>1
  <2>4. QED
    BY <2>2, <2>3
<1>9. CASE Cancel \/ ServerFlips
  BY <1>9 DEF Cancel, ServerFlips
<1>10. CASE ProcessDies
  <2>1. cur' = cur
    BY <1>10 DEF ProcessDies, NoBranch
  <2>2. CASE InFlight
    BY <1>c, <1>10, <2>1, <2>2 DEF ProcessDies
  <2>3. CASE ~InFlight
    <3>1. cur \in owed
      BY <2>3 DEF InFlight
    <3>2. owed' = owed
      BY <1>10 DEF ProcessDies, Crash, Die
    <3>3. QED
      BY <1>c, <2>1, <3>1, <3>2
  <2>4. QED
    BY <2>2, <2>3
<1>11. CASE UNCHANGED vars
  BY <1>11 DEF vars
<1>12. QED
  BY <1>1, <1>2, <1>3, <1>4, <1>5, <1>6, <1>7, <1>8, <1>9, <1>10, <1>11
  DEF Next, Process, Mishap

\* A new heartbeat begins in its hands.
LEMMA CurGrows ==
  ASSUME AgentInv, [Next]_vars
  PROVE  cur' = cur \/ (cur' = cur + 1 /\ Working')
<1> USE DEF loopVars, NoBranch
<1>1. CASE Boot \/ BootFailed \/ Started \/ Shutdown \/ Tick \/ Retry \/ Elapse
  BY <1>1 DEF Boot, BootFailed, Started, Shutdown, Tick, Retry, Elapse
<1>2. ASSUME NEW d, FlushSendOk(d) \/ FlushSendFails(d) \/ CurSendOk(d) \/ CurSendFails(d)
      PROVE  cur' = cur
  BY <1>2 DEF FlushSendOk, FlushSendFails, CurSendOk, CurSendFails
<1>3. ASSUME NEW d, CollectAndBuild(d)
      PROVE  cur' = cur \/ (cur' = cur + 1 /\ Working')
  <2>1. cur \in 0 .. MaxHeartbeat /\ MaxHeartbeat \in Nat
    BY BufferAssumption, AgentAssumption DEF AgentInv, CurIsBuilt, Heartbeats
  <2>2. Working'
    BY <1>3 DEF CollectAndBuild, Working
  <2>3. QED
    BY <1>3, <2>1, <2>2 DEF CollectAndBuild, Later
<1>4. CASE FlushPop \/ FlushEmpty \/ FlushPersist \/ FlushReturn
  BY <1>4 DEF FlushPop, FlushEmpty, FlushPersist, FlushReturn
<1>5. CASE BufferCur \/ ArmAfterAppend \/ Drain \/ BufferProgress \/ BufferFails
  BY <1>5 DEF BufferCur, ArmAfterAppend, Drain, BufferProgress, BufferFails
<1>6. CASE (\E d : BuildFails(d)) \/ Cancel \/ ServerFlips \/ ProcessDies
  BY <1>6 DEF BuildFails, Cancel, ServerFlips, ProcessDies
<1>7. CASE UNCHANGED vars
  BY <1>7 DEF vars
<1>8. QED
  BY <1>1, <1>2, <1>3, <1>4, <1>5, <1>6, <1>7 DEF Next, Process, Mishap

LEMMA NotLostStep ==
  ASSUME AgentInv, Types, CallMatches, LossInv, [Next]_vars
  PROVE  NotLost'
<1> SUFFICES ASSUME NEW h \in Tracked, h <= cur'
             PROVE  Accounted(h)' \/ (h = cur' /\ Working')
  BY DEF NotLost, Tracked
<1>1. cur \in Nat /\ h \in Nat
  BY DEF AgentInv, CurIsBuilt, Tracked, Heartbeats
<1>2. CASE h <= cur /\ Accounted(h)
  BY <1>2, AccountedStays DEF Types, LossInv
<1>3. CASE h = cur /\ Working
  BY <1>3, WorkingStep DEF Accounted
<1>4. CASE h > cur
  BY <1>1, <1>4, CurGrows
<1>5. QED
  BY <1>1, <1>2, <1>3, <1>4 DEF LossInv, NotLost

----------------------------------------------------------------------------
\* What is popped has been sent.

LEMMA PopIsSafeStep ==
  ASSUME AgentInv, Types, CallMatches, LossInv, [Next]_vars
  PROVE  PopIsSafe'
<1> USE DEF PopIsSafe, loopVars
<1>1. CASE Boot \/ BootFailed \/ Started \/ Shutdown \/ Tick \/ Retry
  BY <1>1 DEF Boot, BootFailed, Started, Shutdown, Tick, Retry
<1>2. ASSUME NEW d, CollectAndBuild(d) \/ FlushSendFails(d) \/ CurSendOk(d) \/ CurSendFails(d)
      PROVE  PopIsSafe'
  BY <1>2 DEF CollectAndBuild, FlushSendFails, CurSendOk, CurSendFails
<1>3. ASSUME NEW d, FlushSendOk(d)
      PROVE  PopIsSafe'
  <2>1. entries # << >> /\ entries' = entries /\ Record(Head(entries))
    BY <1>3 DEF FlushSendOk, SendOk, bufVars, memVars
  <2>2. Head(entries) \in Range(entries)
    BY <2>1, RangeTail DEF AgentInv, SizeInv, BufferTypeOK
  <2>3. PICK h \in Heartbeats : Head(entries) = Payload(h)
    BY <2>2 DEF LossInv, WholeLines
  <2>4. HeartbeatsIn(Head(entries)) = {h}
    BY <2>3, InPayload
  <2>5. h \in Tracked => received'[h] > 0
    BY <2>1, <2>3, PayloadRecorded DEF Types
  <2>6. HeartbeatsIn(Head(entries))' = {h}
    BY <2>1, <2>4
  <2>7. QED
    BY <2>1, <2>5, <2>6
<1>4. CASE FlushPop \/ FlushEmpty \/ FlushPersist \/ FlushReturn
  BY <1>4 DEF FlushPop, FlushEmpty, FlushPersist, FlushReturn, AfterFlush
<1>5. CASE BufferCur \/ ArmAfterAppend \/ Drain \/ (\E d : BuildFails(d)) \/ ProcessDies
  BY <1>5 DEF BufferCur, ArmAfterAppend, Drain, BuildFails, ProcessDies
<1>6. CASE BufferProgress \/ BufferFails
  <2>1. bpc # "idle"
    BY <1>6, CallMatches DEF BufferProgress, BufferStep, LoadLine, LoadEnd, DropOldest, TrimEnd,
       Rewrite, AppendWrite, AppendClose, BufferFails, BufferFault, LoadFails, RewriteFails,
       AppendOpenFails, AppendCloseFails, AppendShort
  <2>2. pc # "pop" /\ pc' = pc
    BY <1>6, <2>1 DEF CallMatches, BufferProgress, BufferFails
  <2>3. QED
    BY <2>2
<1>7. CASE Elapse \/ Cancel \/ ServerFlips \/ UNCHANGED vars
  <2>1. pc' = pc /\ entries' = entries /\ received' = received
    BY <1>7 DEF Elapse, Cancel, ServerFlips, vars, bufVars, memVars, serverVars
  <2>2. HeartbeatsIn(Head(entries))' = HeartbeatsIn(Head(entries))
    BY <2>1
  <2>3. QED
    BY <2>1, <2>2 DEF LossInv
<1>8. QED
  BY <1>1, <1>2, <1>3, <1>4, <1>5, <1>6, <1>7 DEF Next, Process, Mishap

----------------------------------------------------------------------------
\* The count of what a crash or a failing Append has lost

Lost(S) == {h \in S : Fits(h)}

LEMMA LostIsFinite ==
  ASSUME NEW S \in SUBSET Heartbeats
  PROVE  IsFiniteSet(Lost(S)) /\ Cardinality(Lost(S)) \in Nat
<1>1. IsFiniteSet(Heartbeats)
  BY FS_Interval, BufferAssumption DEF Heartbeats
<1>2. IsFiniteSet(Lost(S))
  BY <1>1, FS_Subset DEF Lost
<1>3. QED
  BY <1>2, FS_CardinalityType

\* One more heartbeat counts for one at most, and for none if it cannot fit.
LEMMA OneMore ==
  ASSUME NEW S \in SUBSET Heartbeats, NEW h
  PROVE  /\ Cardinality(Lost(S \cup {h})) \in Nat
         /\ Cardinality(Lost(S \cup {h})) <= Cardinality(Lost(S)) + 1
         /\ ~Fits(h) => Lost(S \cup {h}) = Lost(S)
<1>1. IsFiniteSet(Lost(S)) /\ Cardinality(Lost(S)) \in Nat
  BY LostIsFinite
<1>2. CASE Fits(h)
  <2>1. Lost(S \cup {h}) = Lost(S) \cup {h}
    BY <1>2 DEF Lost
  <2>2. Cardinality(Lost(S) \cup {h}) = IF h \in Lost(S) THEN Cardinality(Lost(S)) ELSE Cardinality(Lost(S)) + 1
    BY <1>1, FS_AddElement
  <2>3. Cardinality(Lost(S \cup {h})) \in {Cardinality(Lost(S)), Cardinality(Lost(S)) + 1}
    BY <2>1, <2>2
  <2>4. QED
    BY <1>1, <1>2, <2>3
<1>3. CASE ~Fits(h)
  <2>1. Lost(S \cup {h}) = Lost(S)
    BY <1>3 DEF Lost
  <2>2. QED
    BY <1>1, <2>1
<1>4. QED
  BY <1>2, <1>3

LEMMA FewCasualtiesStep ==
  ASSUME AgentInv, Types, CallMatches, FewCasualties, [Next]_vars
  PROVE  FewCasualties'
<1>1. /\ casualties \in SUBSET Heartbeats /\ crashes \in Nat /\ faults \in Nat
      /\ Cardinality(Lost(casualties)) \in Nat
      /\ Cardinality(Lost(casualties)) <= crashes + faults
  BY LostIsFinite, AgentAssumption DEF Types, CountTypes, FewCasualties, Lost
<1> DEFINE Goal == Cardinality(Lost(casualties')) <= crashes' + faults'
<1>2. SUFFICES Goal
  BY DEF FewCasualties, Lost, Fits, Payload, Weight, Prefix
<1> USE DEF countVars
<1>3. CASE /\ casualties' = casualties
           /\ crashes' \in {crashes, crashes + 1} /\ faults' \in {faults, faults + 1}
  BY <1>1, <1>3
<1>4. CASE Boot \/ BootFailed \/ Started \/ Shutdown \/ Tick \/ Retry \/ Elapse
  BY <1>3, <1>4 DEF Boot, BootFailed, Started, Shutdown, Tick, Retry, Elapse
<1>5. ASSUME NEW d, CollectAndBuild(d) \/ FlushSendOk(d) \/ FlushSendFails(d)
                    \/ CurSendOk(d) \/ CurSendFails(d)
      PROVE  Goal
  BY <1>3, <1>5 DEF CollectAndBuild, FlushSendOk, FlushSendFails, CurSendOk, CurSendFails
<1>6. CASE FlushPop \/ FlushEmpty \/ FlushPersist \/ FlushReturn
  BY <1>3, <1>6 DEF FlushPop, FlushEmpty, FlushPersist, FlushReturn
<1>7. CASE BufferCur
  <2>1. CASE UNCHANGED casualties
    BY <1>3, <1>7, <2>1 DEF BufferCur
  <2>2. CASE AppendOversized(cur) /\ casualties' = casualties \cup {cur}
    <3>1. Lost(casualties') = Lost(casualties)
      BY <1>1, <2>2, OneMore DEF AppendOversized
    <3>2. QED
      BY <1>1, <1>7, <3>1 DEF BufferCur
  <2>3. QED
    BY <1>7, <2>1, <2>2 DEF BufferCur
<1>8. CASE BufferFails
  <2>1. crashes' = crashes /\ faults' = faults + 1
    BY <1>8 DEF BufferFails
  <2>2. casualties' = casualties \/ casualties' = casualties \cup {arg}
    BY <1>8 DEF BufferFails
  <2>3. /\ Cardinality(Lost(casualties \cup {arg})) \in Nat
        /\ Cardinality(Lost(casualties \cup {arg})) <= Cardinality(Lost(casualties)) + 1
    BY <1>1, OneMore
  <2>4. CASE casualties' = casualties \cup {arg}
    <3>1. Cardinality(Lost(casualties')) = Cardinality(Lost(casualties \cup {arg}))
      BY <2>4
    <3>2. QED
      BY <1>1, <2>1, <2>3, <3>1
  <2>5. QED
    BY <1>3, <2>1, <2>2, <2>4
<1>9. CASE ProcessDies
  <2>1. crashes' = crashes + 1 /\ faults' = faults
    BY <1>9 DEF ProcessDies
  <2>2. casualties' = casualties \/ casualties' = casualties \cup {cur}
    BY <1>9 DEF ProcessDies
  <2>3. /\ Cardinality(Lost(casualties \cup {cur})) \in Nat
        /\ Cardinality(Lost(casualties \cup {cur})) <= Cardinality(Lost(casualties)) + 1
    BY <1>1, OneMore
  <2>4. CASE casualties' = casualties \cup {cur}
    <3>1. Cardinality(Lost(casualties')) = Cardinality(Lost(casualties \cup {cur}))
      BY <2>4
    <3>2. QED
      BY <1>1, <2>1, <2>3, <3>1
  <2>5. QED
    BY <1>3, <2>1, <2>2, <2>4
<1>10. CASE ArmAfterAppend \/ Drain \/ BufferProgress \/ (\E d : BuildFails(d)) \/ Cancel \/ ServerFlips
  BY <1>3, <1>10 DEF ArmAfterAppend, Drain, BufferProgress, BuildFails, Cancel, ServerFlips
<1>11. CASE UNCHANGED vars
  BY <1>3, <1>11 DEF vars
<1>12. QED
  BY <1>4, <1>5, <1>6, <1>7, <1>8, <1>9, <1>10, <1>11 DEF Next, Process, Mishap

----------------------------------------------------------------------------
\* The theorem

LEMMA AllInvInit == Init => AllInv
<1> SUFFICES ASSUME Init PROVE AllInv
  OBVIOUS
<1>1. AgentInv /\ Types
  <2>1. TimerTypes
    BY FreshBackoffType DEF Init, TimerTypes
  <2>2. ServerTypes
    BY AgentAssumption DEF Init, ServerTypes
  <2>3. LoopTypes
    BY DEF Init, LoopTypes, AgentPCs
  <2>4. CountTypes
    BY AgentAssumption DEF Init, CountTypes
  <2>5. QED
    BY <2>1, <2>2, <2>3, <2>4, AgentStarts DEF Types
<1>2. CallMatches
  BY DEF Init, BufferInit, CallMatches
<1>3. FewCasualties
  <2>1. {h \in casualties : Fits(h)} = {}
    BY DEF Init
  <2>2. QED
    BY <2>1, FS_EmptySet DEF Init, FewCasualties
<1>4. WholeLines /\ PopIsSafe
  BY DEF Init, BufferInit, WholeLines, PopIsSafe, Range
<1>5. NotLost
  BY DEF Init, NotLost, Tracked, Heartbeats
<1>6. QED
  BY <1>1, <1>2, <1>3, <1>4, <1>5 DEF AllInv, LossInv

LEMMA AllInvStep == AllInv /\ [Next]_vars => AllInv'
<1> SUFFICES ASSUME AllInv, [Next]_vars PROVE AllInv'
  OBVIOUS
<1>0. AgentInv /\ Types /\ CallMatches /\ FewCasualties /\ (torn \/ LossInv)
  BY DEF AllInv
<1>1. AgentInv'
  BY <1>0, AgentInductive
<1>2. Types'
  BY <1>0, TimerTypesStep, ServerTypesStep, LoopTypesStep, CountTypesStep DEF Types
<1>3. CallMatches' /\ FewCasualties'
  BY <1>0, CallMatchesStep, FewCasualtiesStep DEF Types
<1>4. [BufferNext]_bufVars
  BY <1>0, StepIsBufferStep
<1>5. CASE torn
  BY <1>1, <1>2, <1>3, <1>4, <1>5, TornStays DEF AllInv
<1>6. CASE LossInv
  <2>1. WholeLines' \/ torn'
    BY <1>0, <1>4, <1>6, WholeLinesStep DEF LossInv, AgentInv
  <2>2. NotLost' /\ PopIsSafe'
    BY <1>0, <1>6, NotLostStep, PopIsSafeStep
  <2>3. QED
    BY <1>1, <1>2, <1>3, <2>1, <2>2 DEF AllInv, LossInv
<1>7. QED
  BY <1>0, <1>5, <1>6

\* agent.go:20-21 ("a downed server costs no data"): at every point of every
\* run, each heartbeat built is recorded by the server, owed by the buffer,
\* dropped to fit the cap, the one in the loop's hands, or one of at most one
\* casualty per crash and per failing operation.
THEOREM AgentLosesNothing == Spec => []NoLoss
<1>1. AllInv => NoLoss
  <2> SUFFICES ASSUME AllInv, ~torn PROVE NoLoss
    BY DEF NoLoss
  <2>1. NotLost /\ FewCasualties
    BY DEF AllInv, LossInv
  <2>2. ASSUME NEW h \in Tracked, h <= cur
        PROVE  received[h] > 0 \/ h \in owed \cup evicted \cup casualties \/ (h = cur /\ InFlight)
    <3>1. Accounted(h) \/ (h = cur /\ Working)
      BY <2>1, <2>2 DEF NotLost
    <3>2. Working => InFlight \/ cur \in owed
      BY DEF Working, InFlight
    <3>3. QED
      BY <3>1, <3>2 DEF Accounted
  <2>3. QED
    BY <2>1, <2>2 DEF NoLoss, FewCasualties
<1>2. QED
  BY <1>1, AllInvInit, AllInvStep, PTL DEF Spec
=============================================================================
