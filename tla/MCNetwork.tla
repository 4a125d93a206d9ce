------------------------------ MODULE MCNetwork ------------------------------
(***************************************************************************)
(* The two collectors that compare a counter with their last reading of it, *)
(* for TLC: a registry with one collector, network or energy.              *)
(***************************************************************************)
EXTENDS NetworkProps, EnergyProps

CONSTANTS meter, home, away

TwoIPs       == {home, away}
OneCollector == {meter}
ItsConfig    == {{meter}}

VARIABLE isNetwork  \* whether the collector is the network's

\* Bound: no step but the wait for the answer concerns both the rates and the
\* address, so in one behaviour either bytes and time pass or addresses are seen;
\* and the rates are followed until two calls overlap or the agent shuts down.
MCNetworkNext ==
  /\ isNetwork /\ NetworkNext
  /\ \/ traffic' = 0 /\ clock' = 1
     \/ ~overlapped' /\ ~ctxDone' /\ publicIP' = NoIP /\ \A r \in Runs : seen'[r] = NoIP
  /\ UNCHANGED <<rapl, isNetwork>>

\* Bound: the draws likewise.
MCEnergyNext ==
  /\ ~isNetwork /\ EnergyNext /\ ~overlapped' /\ ~ctxDone'
  /\ UNCHANGED <<env, fields, locals, isNetwork>>

\* The type invariant of whichever collector it is: in particular no rate is
\* over a time of zero (network.go:78) and no draw is negative (energy_linux.go:46).
MetersTypeOK == NetworkTypeOK /\ EnergyTypeOK

MCInit == NetworkInit /\ EnergyInit /\ isNetwork \in BOOLEAN
MCNext == MCNetworkNext \/ MCEnergyNext
MCSpec == MCInit /\ [][MCNext]_<<netVars, rapl, isNetwork>>
=============================================================================
