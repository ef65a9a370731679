---------------------------- MODULE MCProofRelay -----------------------------
(* Bounded instances of ProofRelay over the chain of MCClientRelay, with one *)
(* version of the chaincode.                                                 *)
EXTENDS ProofRelay

CONSTANT k1

MCMSPIDs == {1}
MCKeys == {k1}
MCPolicies == {{{1}}, {}}
MCVersions == {1}
MCTimes == 1 .. 3
MCEndorsers == {<< 1, k1 >>}

\* An entry whose absence is proved, one that only moves forward, one that is
\* deleted, and one that is written once.
MCStoreKeys ==
  {"packetReceipt", "channel", "packetCommitment", "packetAcknowledgement"} \X {1}

MCGenesis ==
  {[cc |-> [sequence |-> [value |-> 1, timestamp |-> 1], proof |-> None],
    info |-> [id |-> 1, endorsement |-> {{1}}, ibc |-> {{1}}],
    msps |-> << [type |-> "Create", MSPID |-> 1, config |-> [name |-> 1, key |-> k1],
                 policy |-> {{1}}, proof |-> {}] >>]}
==============================================================================
