------------------------------ MODULE MCAgent ------------------------------
(***************************************************************************)
(* The agent for TLC: heartbeats of several lengths, a cap that holds two,  *)
(* an outage whenever the server likes, and a few mishaps of each kind.    *)
(***************************************************************************)
EXTENDS AgentProps

\* The second heartbeat can never fit a cap of 7.
OversizedSecond == [h \in Heartbeats |-> IF h = 1 THEN 2 ELSE IF h = 2 THEN 9 ELSE 3]

MCPayloadLen == [h \in Heartbeats |-> IF h = 2 THEN 3 ELSE 2]

CleanFaults == FaultKinds \ {"short"}
ShortWrites == {"short"}
=============================================================================
