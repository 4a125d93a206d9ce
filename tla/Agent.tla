------------------------------- MODULE Agent -------------------------------
(***************************************************************************)
(* The agent's main loop (internal/agent) with its retrier, on top of the  *)
(* disk-backed buffer (module Buffer) and the backoff (module Backoff),    *)
(* facing a server that may be down, may reject a payload, or may record a *)
(* heartbeat whose reply is lost, and a supervisor that restarts the       *)
(* process.                                                                *)
(*                                                                         *)
(* Time is counted in units; a timer is the number of units until it       *)
(* fires, 0 when its channel is ready, Off when it is not running.         *)
(*                                                                         *)
(* Heartbeats 1 .. MaxHeartbeat - 1 are told apart.  MaxHeartbeat stands   *)
(* for every later one, so that the loop never runs out of heartbeats.     *)
(***************************************************************************)
EXTENDS Buffer, Backoff

CONSTANTS
  Interval,      \* the heartbeat interval, the backoff's max
  Jitter,        \* each cycle waits Interval + 0 .. Jitter - 1
  MinDelay,      \* the backoff's min, one second in the code
  CallTimes,     \* how long a collection or a POST can take
  MaxLost,       \* bound: replies lost after the server recorded the heartbeat
  MaxFaults,     \* bound: failing file operations and failing builds
  MaxCrashes,    \* bound: crashes
  MaxStops       \* bound: graceful shutdowns

Off == -1

ASSUME AgentAssumption ==
  /\ MaxHeartbeat >= 1
  /\ Interval \in Nat \ {0} /\ MinDelay \in Nat \ {0} /\ Jitter \in Nat
  /\ 2 * Interval <= MaxDuration /\ MinDelay <= Interval
  /\ CallTimes \subseteq Nat /\ CallTimes # {}
  /\ MaxLost \in Nat /\ MaxFaults \in Nat /\ MaxCrashes \in Nat /\ MaxStops \in Nat

VARIABLES
  pc,         \* where the loop is
  branch,     \* the select case being executed: "tick", "retry", or "none"
  cur,        \* the newest heartbeat built, 0 before the first
  flushed,    \* flushBuffer has sent something
  ctxDone,    \* SIGTERM or an interrupt has arrived
  ticker,     \* the tick timer
  retry,      \* the retrier's timer, Off when disarmed
  backoff,    \* the retrier's backoff
  up,         \* the server answers
  received,   \* received[h]: how often the server recorded heartbeat h
  lost, faults, crashes, stops,  \* how often each has happened
  casualties  \* history: built, and lost to a crash or a failing Append

loopVars   == <<pc, branch, cur, flushed>>
timerVars  == <<ticker, retry, backoff>>
serverVars == <<up, received, lost>>
countVars  == <<faults, crashes, stops>>
vars == <<bufVars, loopVars, ctxDone, timerVars, serverVars, countVars, casualties>>

Later   == MaxHeartbeat
Tracked == Heartbeats \ {Later}

AgentPCs == {"off", "boot", "select", "collect", "flush", "pop", "flushed",
             "persist", "send", "append", "arm", "drain"}

FreshBackoff == NewBackoff(MinDelay, Interval)

TypeOK ==
  /\ BufferTypeOK
  /\ pc \in AgentPCs
  /\ branch \in {"none", "tick", "retry"}
  /\ cur \in Heartbeats \cup {0}
  /\ flushed \in BOOLEAN /\ ctxDone \in BOOLEAN /\ up \in BOOLEAN
  /\ ticker \in (0 .. Interval + Jitter) \cup {Off}
  /\ retry \in (0 .. Interval) \cup {Off}
  /\ backoff \in [min : {MinDelay}, max : {Interval}, current : MinDelay .. Interval]
  /\ received \in [Tracked -> Nat]
  /\ lost \in 0 .. MaxLost /\ faults \in 0 .. MaxFaults
  /\ crashes \in 0 .. MaxCrashes /\ stops \in 0 .. MaxStops
  /\ casualties \subseteq Heartbeats

Init ==
  /\ BufferInit
  /\ pc = "off" /\ branch = "none" /\ cur = 0 /\ flushed = FALSE
  /\ ctxDone = FALSE
  /\ ticker = Off /\ retry = Off /\ backoff = FreshBackoff
  /\ up \in BOOLEAN /\ received = [h \in Tracked |-> 0] /\ lost = 0
  /\ faults = 0 /\ crashes = 0 /\ stops = 0
  /\ casualties = {}

----------------------------------------------------------------------------
\* Timers and the retrier

\* nextInterval: the interval plus a jitter in [0, Jitter)
NextIntervals == IF Jitter = 0 THEN {Interval} ELSE Interval .. Interval + Jitter - 1
ResetTicker == ticker' \in NextIntervals

After(timer, d) == IF timer = Off THEN Off ELSE IF timer < d THEN 0 ELSE timer - d

\* d units pass during a call that touches no timer.
Pass(d) == ticker' = After(ticker, d) /\ retry' = After(retry, d) /\ UNCHANGED backoff

\* arm: nothing if armed already, else a one-shot timer with the next delay
Arm == IF retry # Off
       THEN UNCHANGED <<retry, backoff>>
       ELSE retry' = NextDelay(backoff) /\ backoff' = AfterNext(backoff)

\* reset: back to the smallest delay, and disarm
Reset == retry' = Off /\ backoff' = AfterReset(backoff)

----------------------------------------------------------------------------
\* The server and SendRaw

\* A POSTed text decodes as a heartbeat iff it starts with a whole one; what
\* follows the first JSON value is not read.
Decodes(t) == t.frags[1].n = PayloadLen[t.frags[1].hb]

Record(t) ==
  received' = IF Decodes(t) /\ t.frags[1].hb \in Tracked
              THEN [received EXCEPT ![t.frags[1].hb] = @ + 1] ELSE received

\* 2xx: the heartbeat is recorded and SendRaw returns nil.  A request made
\* with a cancelled context is never answered.
SendOk(t) == ~ctxDone /\ up /\ Decodes(t) /\ Record(t) /\ UNCHANGED <<up, lost>>

\* An error: the server is down, the payload is rejected, or the context is
\* cancelled; or the heartbeat is recorded and only the reply is lost.
SendFails(t) ==
  /\ ctxDone \/ ~up \/ ~Decodes(t)
  /\ \/ UNCHANGED serverVars
     \/ /\ ctxDone \/ ~up
        /\ Decodes(t) /\ lost < MaxLost
        /\ Record(t) /\ lost' = lost + 1 /\ UNCHANGED up

\* A call made with a cancelled context returns at once.
Durations == IF ctxDone THEN {0} ELSE CallTimes

----------------------------------------------------------------------------
\* main: opening the buffer, and entering Run

NoBranch == branch' = "none" /\ UNCHANGED cur /\ flushed' = FALSE

Boot ==
  /\ pc = "off" /\ Open
  /\ pc' = "boot"
  /\ UNCHANGED <<branch, cur, flushed, ctxDone, timerVars, serverVars, countVars, casualties>>

\* The buffer could not be opened: the process exits.
BootFailed ==
  /\ pc = "boot" /\ bpc = "down"
  /\ pc' = "off" /\ ctxDone' = FALSE
  /\ UNCHANGED <<bufVars, branch, cur, flushed, timerVars, serverVars, countVars, casualties>>

Started ==
  /\ pc = "boot" /\ bpc = "idle"
  /\ pc' = "select"
  /\ ResetTicker /\ retry' = Off /\ backoff' = FreshBackoff
  /\ UNCHANGED <<bufVars, branch, cur, flushed, ctxDone, serverVars, countVars, casualties>>

----------------------------------------------------------------------------
\* The select statement.  A case is taken only when its channel is ready, and
\* any ready case may be taken.

\* <-ctx.Done(): disarm, and the process ends.
Shutdown ==
  /\ pc = "select" /\ ctxDone
  /\ Exit
  /\ pc' = "off" /\ ctxDone' = FALSE
  /\ ticker' = Off /\ retry' = Off /\ UNCHANGED backoff
  /\ UNCHANGED <<branch, cur, flushed, serverVars, countVars, casualties>>

\* <-ticker.C
Tick ==
  /\ pc = "select" /\ ticker = 0
  /\ pc' = "collect" /\ ticker' = Off
  /\ UNCHANGED <<bufVars, branch, cur, flushed, ctxDone, retry, backoff,
                 serverVars, countVars, casualties>>

\* <-r.C(), then fired
Retry ==
  /\ pc = "select" /\ retry = 0
  /\ pc' = "flush" /\ branch' = "retry" /\ retry' = Off
  /\ UNCHANGED <<bufVars, cur, flushed, ctxDone, ticker, backoff,
                 serverVars, countVars, casualties>>

\* Nothing is ready and a unit of time passes.
Elapse ==
  /\ pc = "select" /\ ~ctxDone /\ ticker # 0 /\ retry # 0
  /\ Pass(1)
  /\ UNCHANGED <<bufVars, loopVars, ctxDone, serverVars, countVars, casualties>>

----------------------------------------------------------------------------
\* The tick case: collect and build

\* Mutant: the tick case does not flush; the backlog is left to the retries.
CollectAndBuildNoFlush(d) ==
  /\ pc = "collect" /\ d \in Durations
  /\ cur' = IF cur < Later THEN cur + 1 ELSE Later
  /\ pc' = "send" /\ branch' = "tick"
  /\ Pass(d)
  /\ UNCHANGED <<bufVars, flushed, ctxDone, serverVars, countVars, casualties>>

CollectAndBuild(d) ==
  /\ pc = "collect" /\ d \in Durations
  /\ cur' = IF cur < Later THEN cur + 1 ELSE Later
  /\ pc' = "flush" /\ branch' = "tick"
  /\ Pass(d)
  /\ UNCHANGED <<bufVars, flushed, ctxDone, serverVars, countVars, casualties>>

\* Build returns an error after the collection: no heartbeat, no flush, only the
\* next tick.
BuildFails(d) ==
  /\ pc = "collect" /\ d \in Durations /\ faults < MaxFaults
  /\ faults' = faults + 1
  /\ pc' = "select" /\ ResetTicker
  /\ retry' = After(retry, d) /\ UNCHANGED backoff
  /\ UNCHANGED <<bufVars, branch, cur, flushed, ctxDone,
                 serverVars, crashes, stops, casualties>>

----------------------------------------------------------------------------
\* flushBuffer: send the oldest, pop it, and again; then compact the file.

\* Mutants: a sent entry is not popped; the last entry is sent before the others.
FlushSendOkNoPop(d) ==
  /\ pc = "flush" /\ entries # << >> /\ d \in Durations
  /\ SendOk(Head(entries))
  /\ pc' = "flushed"
  /\ Pass(d)
  /\ UNCHANGED <<bufVars, branch, cur, flushed, ctxDone, countVars, casualties>>

FlushSendOkLast(d) ==
  /\ pc = "flush" /\ entries # << >> /\ d \in Durations
  /\ SendOk(entries[Len(entries)])
  /\ pc' = "pop"
  /\ Pass(d)
  /\ UNCHANGED <<bufVars, branch, cur, flushed, ctxDone, countVars, casualties>>

FlushSendOk(d) ==
  /\ pc = "flush" /\ entries # << >> /\ d \in Durations
  /\ SendOk(Head(entries))
  /\ pc' = "pop"
  /\ Pass(d)
  /\ UNCHANGED <<bufVars, branch, cur, flushed, ctxDone, countVars, casualties>>

FlushPop ==
  /\ pc = "pop" /\ Pop
  /\ pc' = "flush" /\ flushed' = TRUE
  /\ UNCHANGED <<branch, cur, ctxDone, timerVars, serverVars, countVars, casualties>>

\* Mutants: an entry that could not be sent is popped all the same; it is put
\* at the back of the queue; it is sent again until it succeeds.
FlushSendFailsPops(d) ==
  /\ pc = "flush" /\ entries # << >> /\ d \in Durations
  /\ SendFails(Head(entries))
  /\ pc' = "pop"
  /\ Pass(d)
  /\ UNCHANGED <<bufVars, branch, cur, flushed, ctxDone, countVars, casualties>>
FlushSendFailsRequeues(d) ==
  /\ pc = "flush" /\ entries # << >> /\ d \in Durations
  /\ SendFails(Head(entries))
  /\ AppendCall(Head(entries).frags[1].hb)
  /\ pc' = "persist"
  /\ Pass(d)
  /\ UNCHANGED <<branch, cur, flushed, ctxDone, countVars, casualties>>
FlushSendFailsRetries(d) ==
  /\ pc = "flush" /\ entries # << >> /\ d \in Durations
  /\ SendFails(Head(entries))
  /\ Pass(d)
  /\ UNCHANGED <<bufVars, pc, branch, cur, flushed, ctxDone, countVars, casualties>>

FlushSendFails(d) ==
  /\ pc = "flush" /\ entries # << >> /\ d \in Durations
  /\ SendFails(Head(entries))
  /\ pc' = "flushed"
  /\ Pass(d)
  /\ UNCHANGED <<bufVars, branch, cur, flushed, ctxDone, countVars, casualties>>

FlushEmpty ==
  /\ pc = "flush" /\ entries = << >>
  /\ pc' = "flushed"
  /\ UNCHANGED <<bufVars, branch, cur, flushed, ctxDone, timerVars,
                 serverVars, countVars, casualties>>

\* What the case does once flushBuffer has returned
AfterFlush == IF branch = "tick" THEN "send" ELSE "drain"

FlushPersist ==
  /\ pc = "flushed" /\ flushed /\ PersistCall
  /\ pc' = "persist"
  /\ UNCHANGED <<branch, cur, flushed, ctxDone, timerVars, serverVars, countVars, casualties>>

\* Mutant: flushBuffer may return without compacting the file.
FlushReturnUncompacted ==
  /\ \/ pc = "flushed"
     \/ pc = "persist" /\ bpc = "idle"
  /\ pc' = AfterFlush /\ flushed' = FALSE
  /\ UNCHANGED <<bufVars, branch, cur, ctxDone, timerVars, serverVars, countVars, casualties>>

FlushReturn ==
  /\ \/ pc = "flushed" /\ ~flushed
     \/ pc = "persist" /\ bpc = "idle"
  /\ pc' = AfterFlush /\ flushed' = FALSE
  /\ UNCHANGED <<bufVars, branch, cur, ctxDone, timerVars, serverVars, countVars, casualties>>

----------------------------------------------------------------------------
\* The tick case: send the current heartbeat, or buffer it

CurSendOk(d) ==
  /\ pc = "send" /\ d \in Durations
  /\ SendOk(Payload(cur))
  /\ pc' = "select" /\ NoBranch
  /\ Reset /\ ResetTicker
  /\ UNCHANGED <<bufVars, ctxDone, countVars, casualties>>

CurSendFails(d) ==
  /\ pc = "send" /\ d \in Durations
  /\ SendFails(Payload(cur))
  /\ pc' = "append"
  /\ Pass(d)
  /\ UNCHANGED <<bufVars, branch, cur, flushed, ctxDone, countVars, casualties>>

BufferCur ==
  /\ pc = "append"
  /\ pc' = "arm"
  /\ \/ AppendCall(cur) /\ UNCHANGED casualties
     \/ AppendOversized(cur) /\ casualties' = casualties \cup {cur}
  /\ UNCHANGED <<branch, cur, flushed, ctxDone, timerVars, serverVars, countVars>>

\* Append has returned, with or without an error.
ArmAfterAppend ==
  /\ pc = "arm" /\ bpc = "idle"
  /\ pc' = "select" /\ NoBranch
  /\ Arm /\ ResetTicker
  /\ UNCHANGED <<bufVars, ctxDone, serverVars, countVars, casualties>>

----------------------------------------------------------------------------
\* The retry case: drained or not

\* Mutant: the retry case resets the tick timer too.
DrainResetsTicker ==
  /\ pc = "drain"
  /\ pc' = "select" /\ NoBranch
  /\ IF entries = << >> THEN Reset ELSE Arm
  /\ ResetTicker
  /\ UNCHANGED <<bufVars, ctxDone, serverVars, countVars, casualties>>

Drain ==
  /\ pc = "drain"
  /\ pc' = "select" /\ NoBranch
  /\ IF entries = << >> THEN Reset ELSE Arm
  /\ UNCHANGED <<bufVars, ctxDone, ticker, serverVars, countVars, casualties>>

----------------------------------------------------------------------------
\* The steps of a buffer call, and their failures

BufferProgress ==
  /\ BufferStep
  /\ UNCHANGED <<loopVars, ctxDone, timerVars, serverVars, countVars, casualties>>

\* A heartbeat whose Append returns an error is only logged.
BufferFails ==
  /\ faults < MaxFaults /\ BufferFault
  /\ faults' = faults + 1
  /\ casualties' = IF bpc \in {"append", "close"} THEN casualties \cup {arg} ELSE casualties
  /\ UNCHANGED <<loopVars, ctxDone, timerVars, serverVars, crashes, stops>>

----------------------------------------------------------------------------
\* The environment

Cancel ==
  /\ pc # "off" /\ ~ctxDone /\ stops < MaxStops
  /\ ctxDone' = TRUE /\ stops' = stops + 1
  /\ UNCHANGED <<bufVars, loopVars, timerVars, serverVars, faults, crashes, casualties>>

ServerFlips ==
  /\ up' = ~up
  /\ UNCHANGED <<bufVars, loopVars, ctxDone, timerVars, received, lost, countVars, casualties>>

\* cur is built, and neither known to be received nor in the queue yet.
InFlight == branch = "tick" /\ pc # "select" /\ ~(pc = "arm" /\ cur \in owed)

ProcessDies ==
  /\ crashes < MaxCrashes /\ Crash
  /\ crashes' = crashes + 1
  /\ casualties' = IF InFlight THEN casualties \cup {cur} ELSE casualties
  /\ pc' = "off" /\ NoBranch /\ ctxDone' = FALSE
  /\ ticker' = Off /\ retry' = Off /\ UNCHANGED backoff
  /\ UNCHANGED <<serverVars, faults, stops>>

----------------------------------------------------------------------------

Process ==
  \/ Boot \/ BootFailed \/ Started
  \/ Shutdown \/ Tick \/ Retry \/ Elapse
  \/ \E d \in CallTimes \cup {0} :
       \/ CollectAndBuild(d)
       \/ FlushSendOk(d) \/ FlushSendFails(d)
       \/ CurSendOk(d) \/ CurSendFails(d)
  \/ FlushPop \/ FlushEmpty \/ FlushPersist \/ FlushReturn
  \/ BufferCur \/ ArmAfterAppend \/ Drain
  \/ BufferProgress

Mishap ==
  \/ \E d \in CallTimes \cup {0} : BuildFails(d)
  \/ BufferFails \/ Cancel \/ ServerFlips \/ ProcessDies

Next == Process \/ Mishap

Spec == Init /\ [][Next]_vars

\* The process runs as long as it can take a step, and the service manager
\* starts it again whenever it has ended; nothing is assumed of mishaps.
FairSpec == Spec /\ WF_vars(Process)
=============================================================================
