------------------------------ MODULE MCBuffer ------------------------------
(***************************************************************************)
(* The buffer on its own, for TLC: three heartbeats and the later ones,    *)
(* which share the last number; the second is longer than the others.      *)
(* Three short ones fill the cap, and with the long one only one other     *)
(* fits.                                                                   *)
(***************************************************************************)
EXTENDS BufferRefinement

LOCAL INSTANCE SequencesExt

MCPayloadLen == [h \in Heartbeats |-> IF h = 2 THEN 4 ELSE 2]

ShortWrites == {"short"}

\* Bounds: while compacting fails the file grows without limit, so the client
\* stops appending when MaxFragments payloads, or parts of one, are in it; and
\* once a write has stopped in the middle of a line, MaxTorn of them.
CONSTANTS MaxFragments, MaxTorn
InFile == FoldSeq(LAMBDA t, n : Len(t.frags) + n, 0, FileLines)
MCNext ==
  /\ \/ InFile < MaxFragments /\ ClientAppends
     \/ AllButAppends
  /\ torn' => InFile' <= MaxTorn
MCSpec == BufferInit /\ [][MCNext]_bufVars
=============================================================================
