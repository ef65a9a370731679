-------------------------- MODULE MCFabricClient -----------------------------
(* Bounded instances of FabricClient.  The client starts with the MSPs 1 and *)
(* 3, so that MSP 2 is inserted between them, and MSP 4 behind them; the     *)
(* policies ask for one of two MSPs, for both, or for nothing satisfiable.   *)
EXTENDS FabricClient

CONSTANTS k1, k2, v1, v2

MCMSPIDs == 1 .. 4
MCKeys == {k1, k2}
MCTimes == 1 .. 4
Either == {{1}, {3}}
Both == {{1, 3}}
MCPolicies == {Either, Both, {}}
MCChaincodeIDs == {v1, v2}

\* The signers of a header: everybody, MSP 1 with either key, MSP 3 alone.
Everybody == {1, 2, 3, 4} \X Keys
MCSigners == {Everybody, {1} \X Keys, {<< 3, k1 >>}}

Config(n, k) == [name |-> n, key |-> k]

\* Configs for MSPs that exist already, that are new, or that are to be changed; a
\* config may be of another name than the MSP it is stored for.
NewConfigs == {<< 1, Config(1, k1) >>, << 2, Config(2, k1) >>, << 2, Broken >>, << 4, Config(4, k1) >>}
OtherConfigs == {<< 1, Config(1, k2) >>, << 1, Config(3, k2) >>, << 2, Config(3, k2) >>,
                 << 3, Config(3, k2) >>, << 3, Broken >>}

MSPHeadersBy(p) ==
  UNION {[type : {"Create"}, MSPID : {c[1]}, config : {c[2]}, policy : {Either}, proof : {p}] :
         c \in NewConfigs}
  \cup [type : {"UpdatePolicy"}, MSPID : {1, 2}, config : {None}, policy : {Both}, proof : {p}]
  \cup UNION {[type : {"UpdateConfig"}, MSPID : {c[1]}, config : {c[2]}, policy : {None}, proof : {p}] :
              c \in OtherConfigs}
  \cup [type : {"Freeze"}, MSPID : MSPIDs, config : {None}, policy : {None}, proof : {p}]

ChaincodeInfoParts(p) ==
  {None} \cup [id : {v2}, endorsement : {Both, {}}, ibc : {Both, {}}, proof : {p}]

ChaincodeHeader(p, c, v, tm) ==
  [sequence |-> [value |-> v, timestamp |-> tm],
   proof |-> [signers |-> p, ccid |-> c, key |-> SequenceKey(v),
              value |-> [value |-> v, timestamp |-> tm]]]

\* Headers that change two MSPs at once.
MSPUpdates ==
  LET changes == MSPHeadersBy(Everybody)
  IN  [cc : {ChaincodeHeader(Everybody, v1, v, v) : v \in Heights}, info : {None},
       msps : {<< a, b >> : a, b \in changes}]

\* Chaincode headers of any time, or of the other version of the chaincode.
ChaincodeHeaders(p) ==
  {ChaincodeHeader(p, v1, v, tm) : v \in Heights, tm \in Times}
    \cup {ChaincodeHeader(p, v2, v, v) : v \in Heights}

\* Headers that change the chaincode description or one MSP, or both.
GovernanceUpdates ==
  UNION {[cc : ChaincodeHeaders(p) \cup {None}, info : ChaincodeInfoParts(p),
          msps : {None} \cup {<< a >> : a \in MSPHeadersBy(p)}] : p \in MCSigners}

MCHeaders == MSPUpdates \cup GovernanceUpdates

MCGenesis ==
  {[cc |-> [sequence |-> [value |-> 1, timestamp |-> 1], proof |-> None],
    info |-> [id |-> v1, endorsement |-> Either, ibc |-> i],
    msps |-> << [type |-> "Create", MSPID |-> 1, config |-> Config(1, k1), policy |-> i, proof |-> {}],
                [type |-> "Create", MSPID |-> 3, config |-> Config(3, k1), policy |-> i, proof |-> {}] >>] :
   i \in {Either, Both}}
==============================================================================
