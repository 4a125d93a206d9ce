---------------------------- MODULE AtLeastOnce ----------------------------
(***************************************************************************)
(* What the agent promises of the heartbeats that it builds: each waits    *)
(* until the server has it, or until it is the oldest and there is no room *)
(* for it and all those after it, or until a mishap takes it as the        *)
(* newest.  The oldest are delivered first, except for the newest, which   *)
(* is tried at once; and no more often too many than there were mishaps.   *)
(* Nothing is promised once the storage is broken.                         *)
(***************************************************************************)
EXTENDS Integers

CONSTANTS
  Heartbeat,     \* numbers of heartbeats
  Unfit,         \* those that can never be stored
  RoomFor(_, _)  \* RoomFor(h, n): h and those after it up to n can be stored together

VARIABLES
  newest,     \* the last one built, 0 before the first
  waiting,    \* those that are to be delivered
  delivered,  \* delivered[h]: how often h has been
  mishaps,    \* how many there were
  broken      \* the storage is broken

deliveryVars == <<newest, waiting, delivered, mishaps, broken>>

DeliveryInit ==
  /\ newest = 0 /\ waiting = {} /\ delivered = [h \in Heartbeat |-> 0]
  /\ mishaps = 0 /\ broken = FALSE

Oldest(h) == \A k \in waiting : h <= k

Build ==
  /\ newest' = newest + 1
  /\ waiting' = waiting \cup ({newest'} \cap Heartbeat)
  /\ UNCHANGED <<delivered, mishaps, broken>>

\* The server has h, once more if it had it before; the agent need not know.
Deliver(h) ==
  /\ h <= newest /\ (h = newest \/ Oldest(h))
  /\ delivered' = [delivered EXCEPT ![h] = @ + 1]
  /\ waiting' \in {waiting, waiting \ {h}}
  /\ mishaps' >= mishaps /\ delivered'[h] <= 1 + mishaps'
  /\ UNCHANGED <<newest, broken>>

\* The agent knows that the server has h.
Settle(h) ==
  /\ h \in waiting /\ delivered[h] > 0
  /\ waiting' = waiting \ {h}
  /\ UNCHANGED <<newest, delivered, mishaps, broken>>

\* h goes, because there is no room for it and all that came after it.
MakeRoom(h) ==
  /\ h \in waiting /\ Oldest(h) /\ ~RoomFor(h, newest)
  /\ waiting' = waiting \ {h}
  /\ UNCHANGED <<newest, delivered, mishaps, broken>>

\* A mishap, which takes no other than the newest; one that can never be stored
\* is given up when it could not be delivered.
Lose ==
  /\ waiting' \in {waiting, waiting \ {newest}}
  /\ \/ mishaps' > mishaps
     \/ newest \in Unfit /\ UNCHANGED mishaps
  /\ UNCHANGED <<newest, delivered, broken>>

DeliveryNext ==
  \/ Build \/ Lose
  \/ \E h \in Heartbeat : Deliver(h) \/ Settle(h) \/ MakeRoom(h)

DeliverySpec == DeliveryInit /\ [][DeliveryNext \/ broken']_deliveryVars
=============================================================================
