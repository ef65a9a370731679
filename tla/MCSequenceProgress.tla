------------------------- MODULE MCSequenceProgress --------------------------
(* Bounded instance of SequenceProgress: three peers of which two endorse,   *)
(* two clients, clocks that are up to three seconds apart.                   *)
EXTENDS SequenceProgress, FiniteSets

CONSTANTS p1, p2, p3

MCPeers == {p1, p2, p3}
MCQuorums == {Q \in SUBSET MCPeers : 2 * Cardinality(Q) > Cardinality(MCPeers)}
==============================================================================
