------------------------- MODULE MCSequenceManager ---------------------------
(* Bounded instance of SequenceManager: three peers, any two of which satisfy *)
(* the endorsement policy, so that the clocks of two peers may drift apart.   *)
(* Peers and clients are interchangeable, in the specification and in its     *)
(* properties, none of which is a liveness property.                          *)
EXTENDS SequenceManager, FiniteSets, TLC

Majorities == {Q \in SUBSET Peers : 2 * Cardinality(Q) > Cardinality(Peers)}

Symmetry == Permutations(Peers) \cup Permutations(Clients)
==============================================================================
