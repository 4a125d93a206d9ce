----------------------------- MODULE Collection -----------------------------
(***************************************************************************)
(* What the registry promises of its cycles: in each, it asks the enabled   *)
(* collectors one at a time, and decides of each once, and before it asks    *)
(* the next.  It decides by the answer in this cycle, by the time being up  *)
(* or by the shutdown, and an answer that comes after that changes nothing. *)
(***************************************************************************)
EXTENDS Naturals

CONSTANTS
  Name,       \* what may be enabled
  Collector,  \* the names that have a collector
  Answer      \* what a collector may answer

VARIABLES
  enabled,   \* the names enabled
  phase,     \* "new", "refused", "idle", or "loop" in a cycle
  number,    \* the current or last cycle's number
  asked,     \* the collectors asked in it
  answer,    \* answer[c]: what c answered in it, "none" if it has not
  timeUp,    \* the collectors that were given the time they have
  shutdown,  \* the agent is being shut down
  decision   \* decision[c]: what c counts for in this cycle, "open" until that is decided

collectionVars == <<enabled, phase, number, asked, answer, timeUp, shutdown, decision>>

NotAsked ==
  /\ asked = {} /\ timeUp = {}
  /\ answer = [c \in Collector |-> "none"] /\ decision = [c \in Collector |-> "open"]

CollectionInit ==
  /\ enabled \subseteq Name /\ phase = "new" /\ number = 0 /\ shutdown = FALSE
  /\ NotAsked

\* A name without a collector is refused.
Make ==
  /\ phase = "new"
  /\ phase' = IF enabled \subseteq Collector THEN "idle" ELSE "refused"
  /\ UNCHANGED <<enabled, number, asked, answer, timeUp, shutdown, decision>>

Begin ==
  /\ phase = "idle" /\ phase' = "loop" /\ number' = number + 1
  /\ NotAsked'
  /\ UNCHANGED <<enabled, shutdown>>

Ask(c) ==
  /\ phase = "loop" /\ c \in enabled \ asked
  /\ \A k \in asked : decision[k] # "open"
  /\ asked' = asked \cup {c}
  /\ UNCHANGED <<enabled, phase, number, answer, timeUp, shutdown, decision>>

\* In time or late, and whatever it may be
Answers(c, a) ==
  /\ c \in asked /\ answer[c] = "none"
  /\ answer' = [answer EXCEPT ![c] = a]
  /\ UNCHANGED <<enabled, phase, number, asked, timeUp, shutdown, decision>>

TimeIsUp(c) ==
  /\ c \in asked /\ decision[c] = "open"
  /\ timeUp' = timeUp \cup {c}
  /\ UNCHANGED <<enabled, phase, number, asked, answer, shutdown, decision>>

Justified(c, d) ==
  \/ d = "gathered" /\ answer[c] = "metrics"
  \/ d = "failed" /\ (answer[c] = "error" \/ c \in timeUp)
  \/ d = "passed over" /\ (answer[c] \in {"nodata", "canceled"} \/ shutdown)

Decide(c, d) ==
  /\ phase = "loop" /\ c \in asked /\ decision[c] = "open" /\ Justified(c, d)
  /\ decision' = [decision EXCEPT ![c] = d]
  /\ UNCHANGED <<enabled, phase, number, asked, answer, timeUp, shutdown>>

End ==
  /\ phase = "loop" /\ phase' = "idle"
  /\ \A c \in enabled : decision[c] # "open"
  /\ UNCHANGED <<enabled, number, asked, answer, timeUp, shutdown, decision>>

ShutDown ==
  /\ ~shutdown /\ shutdown' = TRUE
  /\ UNCHANGED <<enabled, phase, number, asked, answer, timeUp, decision>>

CollectionNext ==
  \/ Make \/ Begin \/ End \/ ShutDown
  \/ \E c \in Collector :
       \/ Ask(c) \/ TimeIsUp(c)
       \/ \E a \in Answer : Answers(c, a)
       \/ \E d \in {"gathered", "failed", "passed over"} : Decide(c, d)

CollectionSpec == CollectionInit /\ [][CollectionNext]_collectionVars
=============================================================================
