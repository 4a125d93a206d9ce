-------------------------------- MODULE Turn --------------------------------
(***************************************************************************)
(* One run of the TURN collector, internal/collector/turn.go and            *)
(* turn_stats.go, under the registry's deadline: it looks for coturn's      *)
(* process, samples it, and reads the statistics from coturn's command line *)
(* interface while they arrive.  Time is counted in the run's own units;    *)
(* computing takes none, so time passes only while the run waits.            *)
(***************************************************************************)
EXTENDS CoturnParse

CONSTANTS
  CollectorTimeout,  \* 2 s in the code (registry.go:17)
  CPUWindow,         \* 200 ms
  ReadTimeout,       \* 2 s
  Replies            \* what coturn may answer

ASSUME TurnAssumption ==
  /\ CollectorTimeout \in Nat /\ CPUWindow \in Nat /\ ReadTimeout \in Nat
  /\ Replies \subseteq Seq(Tokens)

VARIABLES
  at,         \* the point the Collect call has reached
  deadline,   \* when the wait it is in ends by itself
  elapsed,    \* the time since runCollector was called
  metrics,    \* the names of the metrics so far
  reply,      \* coturn's answer
  arrived,    \* how many of its tokens have arrived
  closed,     \* coturn has closed the connection
  scanned,    \* how many tokens the scanner has yielded, as whole lines
  stats,      \* what the parser found
  outcome     \* what runCollector has returned

coturn   == <<reply, arrived, closed>>
turnVars == <<at, deadline, elapsed, metrics, coturn, scanned, stats, outcome>>

Waiting == "waiting"  \* runCollector has not returned

TurnTypeOK ==
  /\ at \in {"find", "window", "memory", "dial", "read", "done", "failed"}
  /\ elapsed \in Nat /\ deadline \in Nat
  /\ metrics \subseteq {"up", "cpu", "mem"}
  /\ reply \in Replies /\ closed \in BOOLEAN
  /\ arrived \in 0 .. Len(reply) /\ scanned \in 0 .. arrived
  /\ stats \in [sessions : Seq(Tokens), bytes : Seq(Tokens)]
  /\ stats = NoStats \/ NoNumber \notin {stats.sessions, stats.bytes}
  /\ outcome \in {Waiting, "metrics", "error", "deadline"}

TurnInit ==
  /\ at = "find" /\ elapsed = 0 /\ deadline = 0
  /\ metrics = {} /\ stats = NoStats /\ outcome = Waiting
  /\ reply \in Replies /\ arrived = 0 /\ scanned = 0 /\ closed = FALSE

CtxDone == elapsed >= CollectorTimeout

----------------------------------------------------------------------------
\* Collect

\* The processes cannot be listed, none of those whose name can be read is
\* coturn's, or one is.
FindTurnProcess == {"error", "none", "found"}

\* In the last case its CPU time is read for the first time.
FindProcess ==
  /\ at = "find"
  /\ \E told \in FindTurnProcess :
       /\ at' = [error |-> "failed", none |-> "done", found |-> "window"][told]
       /\ metrics' = IF told = "found" THEN {"up"} ELSE {}
  /\ deadline' = elapsed + CPUWindow
  /\ UNCHANGED <<elapsed, coturn, scanned, stats, outcome>>

\* The window is over, or its context, or the process has gone.
SampleCPU ==
  /\ at = "window" /\ at' = "memory"
  /\ \/ elapsed >= deadline /\ metrics' = metrics \cup {"cpu"}
     \/ UNCHANGED metrics
  /\ UNCHANGED <<deadline, elapsed, coturn, scanned, stats, outcome>>

SampleMemory ==
  /\ at = "memory" /\ at' = "dial"
  /\ metrics' \in {metrics, metrics \cup {"mem"}}
  /\ deadline' = elapsed + ReadTimeout
  /\ UNCHANGED <<elapsed, coturn, scanned, stats, outcome>>

\* The connection is made; the read deadline begins and the command is sent.
Dial ==
  /\ at = "dial" /\ ~CtxDone /\ at' = "read"
  /\ deadline' = elapsed + ReadTimeout
  /\ UNCHANGED <<elapsed, metrics, coturn, scanned, stats, outcome>>

\* It is refused, fails, or the dialer's timeout or its context ends it; or the
\* command cannot be sent.
DialFails ==
  /\ at = "dial" /\ at' = "done"
  /\ UNCHANGED <<deadline, elapsed, metrics, coturn, scanned, stats, outcome>>

\* The ends of lines that have arrived and have not been scanned
LineEnds == {i \in scanned + 1 .. arrived : reply[i] = "newline"}

\* The next whole line; the text so far is parsed.
ScanLine ==
  /\ at = "read" /\ LineEnds # {}
  /\ scanned' = Min(LineEnds)
  /\ stats' = Parse(SubSeq(reply, 1, scanned'))
  /\ at' = IF stats' = NoStats THEN "read" ELSE "done"
  /\ UNCHANGED <<deadline, elapsed, metrics, coturn, outcome>>

\* Mutant: no read deadline.
StreamOverNoDeadline == LineEnds = {} /\ closed

\* The scanner gets the end of the stream or the read deadline's error.
StreamOver == LineEnds = {} /\ (closed \/ elapsed >= deadline)

\* Mutant: the final parse takes only what is left.
FinalParseRest ==
  /\ at = "read" /\ StreamOver
  /\ stats' = Parse(SubSeq(reply, scanned + 1, arrived))
  /\ at' = "done"
  /\ UNCHANGED <<deadline, elapsed, metrics, coturn, scanned, outcome>>

\* It yields what is left as a last line, and the final parse takes what there is.
FinalParse ==
  /\ at = "read" /\ StreamOver
  /\ stats' = Parse(SubSeq(reply, 1, arrived))
  /\ at' = "done"
  /\ UNCHANGED <<deadline, elapsed, metrics, coturn, scanned, outcome>>

----------------------------------------------------------------------------
\* runCollector, coturn and the clock

TakeResult ==
  /\ outcome = Waiting /\ at \in {"done", "failed"}
  /\ outcome' = IF at = "done" THEN "metrics" ELSE "error"
  /\ UNCHANGED <<at, deadline, elapsed, metrics, coturn, scanned, stats>>

GiveUp ==
  /\ outcome = Waiting /\ CtxDone
  /\ outcome' = "deadline"
  /\ UNCHANGED <<at, deadline, elapsed, metrics, coturn, scanned, stats>>

CoturnWrites ==
  /\ at = "read" /\ ~closed /\ arrived < Len(reply)
  /\ arrived' = arrived + 1
  /\ UNCHANGED <<at, deadline, elapsed, metrics, reply, closed, scanned, stats, outcome>>

\* coturn ends; it never closes the connection itself.
CoturnDies ==
  /\ at = "read" /\ ~closed /\ closed' = TRUE
  /\ UNCHANGED <<at, deadline, elapsed, metrics, reply, arrived, scanned, stats, outcome>>

\* Time passes while the call waits for its window, the connection or a line, up
\* to the end of that wait and of runCollector's.
Elapse ==
  /\ at \in {"window", "dial", "read"} /\ elapsed < deadline
  /\ at = "read" => LineEnds = {} /\ ~closed
  /\ outcome = Waiting => ~CtxDone
  /\ elapsed' = elapsed + 1
  /\ UNCHANGED <<at, deadline, metrics, coturn, scanned, stats, outcome>>

----------------------------------------------------------------------------

Run == \/ FindProcess \/ SampleCPU \/ SampleMemory \/ Dial \/ DialFails
       \/ ScanLine \/ FinalParse \/ TakeResult \/ GiveUp

TurnNext == Run \/ CoturnWrites \/ CoturnDies \/ Elapse

TurnSpec == TurnInit /\ [][TurnNext]_turnVars

\* The run's own steps and the clock; coturn need never answer.
TurnFairSpec == TurnSpec /\ WF_turnVars(Run) /\ WF_turnVars(Elapse)
=============================================================================
