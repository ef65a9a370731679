--------------------------- MODULE MCClientRelay -----------------------------
(* Bounded instance of ClientRelay and Timeouts: one MSP, one key, two       *)
(* versions of the chaincode, a log of at most four sequences, and ten       *)
(* nanoseconds to the second.                                                *)
EXTENDS Timeouts

CONSTANT k1

MCMSPIDs == {1}
MCKeys == {k1}
MCPolicies == {{{1}}, {}}
MCVersions == 1 .. 2
MCTimes == 1 .. 5
MCEndorsers == {<< 1, k1 >>}

\* The client is created from the first sequence of the chain.
MCGenesis ==
  {[cc |-> [sequence |-> [value |-> 1, timestamp |-> 1], proof |-> None],
    info |-> [id |-> 1, endorsement |-> {{1}}, ibc |-> {{1}}],
    msps |-> << [type |-> "Create", MSPID |-> 1, config |-> [name |-> 1, key |-> k1],
                 policy |-> {{1}}, proof |-> {}] >>]}

\* Heights and times before, at and after those that the chain reaches.
MCPacketTimeouts == [height : 0 .. MaxHeight + 2, timestamp : 0 .. 60]
==============================================================================
