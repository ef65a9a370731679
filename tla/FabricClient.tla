---------------------------- MODULE FabricClient -----------------------------
(***************************************************************************)
(* The Fabric light client: the client state and the consensus states that *)
(* a counterparty chain keeps of a Fabric channel, and the headers that    *)
(* update them.                                                            *)
(*                                                                         *)
(* A header has up to three parts: the next sequence of the chaincode      *)
(* (cc), a new description of the chaincode with its policies (info), and  *)
(* a batch of changes to the MSPs (msps).  All parts are verified against  *)
(* the client state before the header; then all are applied.               *)
(*                                                                         *)
(* An MSP configuration is represented by the name of the MSP that it sets *)
(* up and the signing key it certifies; the client does not compare that   *)
(* name with the identifier it stores the config under.  A policy is       *)
(* represented by the family of the sets of MSP names that satisfy it, and *)
(* the signatures of a proof by the identities (MSP name and key) that     *)
(* signed the bytes at hand.  The empty family is the empty policy, on     *)
(* which getPolicyEvaluator panics: a panic is an error of the transaction.*)
(***************************************************************************)
EXTENDS Integers, Sequences, FiniteSetsExt

CONSTANTS
  MSPIDs,          \* identifiers and names of MSPs, in the order of CompareMSPID
  Keys,            \* signing keys
  Broken,          \* an MSP config that cannot be unmarshalled or set up
  Policies,        \* families of sets of MSPs, the empty family included
  ChaincodeIDs,    \* identifiers (name, path and version) of a chaincode
  Times,           \* timestamps of sequences
  MaxHeight,       \* bound on the height of the client
  Genesis,         \* the headers that a client may be created from
  Headers,         \* the headers that may be submitted to it
  None             \* an absent part of a header, config, policy or proof

ASSUME TimesAssumption == Times \subseteq Int
ASSUME MSPIDsAssumption == MSPIDs \subseteq Int
ASSUME HeightAssumption == MaxHeight \in Nat \ {0}
ASSUME NoneAssumption == None \notin Times

VARIABLES
  sequence,     \* ClientState.LastChaincodeHeader.Sequence
  ccInfo,       \* ClientState.LastChaincodeInfo
  infos,        \* ClientState.LastMspInfos.Infos
  consensus     \* the client store: timestamps of the consensus states, by height

vars == << sequence, ccInfo, infos, consensus >>

Heights == 1 .. MaxHeight
Sequences == [value : Heights, timestamp : Times]
ChaincodeInfos == [id : ChaincodeIDs, endorsement : Policies, ibc : Policies]
Configs == [name : MSPIDs, key : Keys] \cup {Broken}
MSPInfos == [MSPID : MSPIDs, config : Configs, policy : Policies, freezed : BOOLEAN]
MSPHeaders == [type : {"Create", "UpdateConfig", "UpdatePolicy", "Freeze"}, MSPID : MSPIDs,
               config : {None} \cup Configs, policy : {None} \cup Policies,
               proof : {None} \cup SUBSET (MSPIDs \X Keys)]

\* What a header that has been unmarshalled is made of.
ASSUME HeadersAssumption ==
  /\ \A h \in Genesis : h.cc.sequence \in Sequences /\ h.msps \in Seq(MSPHeaders)
  /\ \A h \in Headers : /\ h.cc # None => h.cc.sequence \in Sequences
                        /\ h.msps # None => h.msps \in Seq(MSPHeaders)

ASSUME NoPartAssumption ==
  /\ None \notin Seq(MSPHeaders)
  /\ None \notin [config : Configs, policy : Policies, freezed : BOOLEAN]
------------------------------------------------------------------------------
(* The MSPs in force *)

Active(is) == {i \in DOMAIN is : ~ is[i].freezed}

\* The configs of the frozen MSPs are left out; one config that cannot be set
\* up makes the set-up of the MSP manager fail as a whole.
GetMSPPBConfigs(is) == \A i \in Active(is) : is[i].config # Broken

\* The MSPs that are set up, by name: of two configs with one name the MSP manager
\* keeps the later one.
setupVerifyingMSPManager(is) ==
  {is[i].config : i \in {j \in Active(is) :
      \A k \in Active(is) : k > j => is[k].config.name # is[j].config.name}}

\* The names of the MSPs that have a member among the signers.
SigningMSPs(is, signers) ==
  {c.name : c \in {d \in setupVerifyingMSPManager(is) : << d.name, d.key >> \in signers}}

\* Mutant: a config that cannot be set up is skipped.
EvaluateSignedDataLenient(policy, is, signers) ==
  LET Usable(info) == info.config # Broken
  IN  \E S \in policy : S \subseteq SigningMSPs(SelectSeq(is, Usable), signers)

EvaluateSignedData(policy, is, signers) ==
  /\ GetMSPPBConfigs(is)
  /\ \E S \in policy : S \subseteq SigningMSPs(is, signers)

VerifyEndorsedMessage(policy, proof) ==
  /\ proof # None
  /\ EvaluateSignedData(policy, infos, proof)

\* Mutant: the chaincode that was endorsed is not compared.
VerifyEndorsedCommitmentAnyChaincode(proof, key, value) ==
  /\ EvaluateSignedData(ccInfo.endorsement, infos, proof.signers)
  /\ proof.key = key
  /\ proof.value = value

\* An endorsed commitment is a simulated transaction of the chaincode whose
\* write set has the expected key and value at the place the proof points to.
VerifyEndorsedCommitment(proof, key, value) ==
  /\ EvaluateSignedData(ccInfo.endorsement, infos, proof.signers)
  /\ proof.ccid = ccInfo.id
  /\ proof.key = key
  /\ proof.value = value

SequenceKey(v) == << "seq", v >>

\* The first of the places, 0 if there is none.
First(places) == IF places = {} THEN 0 ELSE Min(places)

indexOfMSPID(is, id) == First({i \in DOMAIN is : is[i].MSPID = id})

HasMSPID(is, id) == indexOfMSPID(is, id) # 0
------------------------------------------------------------------------------
(* Validity of a header *)

CompareMSPID(a, b) == a - b

MSPHeaderValidateBasic(mh) ==
  /\ mh.type \in {"Create", "UpdateConfig"} <=> mh.config # None
  /\ mh.type \in {"Create", "UpdatePolicy"} <=> mh.policy # None
  /\ mh.proof # None

MSPHeadersValidateBasic(mhs) ==
  \A i \in DOMAIN mhs :
    /\ MSPHeaderValidateBasic(mhs[i])
    /\ \A j \in 1 .. i - 1 : CompareMSPID(mhs[j].MSPID, mhs[i].MSPID) < 0

ValidateBasic(h) ==
  /\ h.cc # None \/ h.info # None \/ h.msps # None
  /\ h.msps # None => MSPHeadersValidateBasic(h.msps)

VerifyChaincodeHeader(cc) ==
  VerifyEndorsedCommitment(cc.proof, SequenceKey(cc.sequence.value), cc.sequence)

VerifyChaincodeInfo(info) == VerifyEndorsedMessage(ccInfo.ibc, info.proof)

verifyMSPCreate(mh) ==
  /\ ~ HasMSPID(infos, mh.MSPID)
  /\ VerifyEndorsedMessage(ccInfo.ibc, mh.proof)

\* Mutant: a frozen MSP can still be changed.
ChangeableWhenFrozen(id) == HasMSPID(infos, id)

\* The MSP to change must exist and must not be frozen.
Changeable(id) ==
  /\ HasMSPID(infos, id)
  /\ ~ infos[indexOfMSPID(infos, id)].freezed

\* Mutant: the MSP's own policy decides.
verifyMSPUpdatePolicyOwn(mh) ==
  /\ Changeable(mh.MSPID)
  /\ VerifyEndorsedMessage(infos[indexOfMSPID(infos, mh.MSPID)].policy, mh.proof)

verifyMSPUpdatePolicy(mh) ==
  /\ Changeable(mh.MSPID)
  /\ VerifyEndorsedMessage(ccInfo.ibc, mh.proof)

\* The only change that is decided by the MSP's own policy.
verifyMSPUpdateConfig(mh) ==
  /\ Changeable(mh.MSPID)
  /\ VerifyEndorsedMessage(infos[indexOfMSPID(infos, mh.MSPID)].policy, mh.proof)

verifyMSPFreeze(mh) ==
  /\ Changeable(mh.MSPID)
  /\ VerifyEndorsedMessage(ccInfo.ibc, mh.proof)

VerifyMSPHeader(mh) ==
  CASE mh.type = "Create"       -> verifyMSPCreate(mh)
    [] mh.type = "UpdatePolicy" -> verifyMSPUpdatePolicy(mh)
    [] mh.type = "UpdateConfig" -> verifyMSPUpdateConfig(mh)
    [] mh.type = "Freeze"       -> verifyMSPFreeze(mh)

\* Every MSP header is verified against the state before the batch.
VerifyMSPHeaders(mhs) == \A i \in DOMAIN mhs : VerifyMSPHeader(mhs[i])

\* Mutants: sequences may be skipped, or only the timestamp is checked.
FollowsLatestWithGap(s) ==
  /\ s.timestamp > sequence.timestamp
  /\ s.value > sequence.value
FollowsLatestInTime(s) == s.timestamp > sequence.timestamp
\* Mutant: two seconds are asked for.
FollowsLatestMuchLater(s) ==
  /\ s.timestamp > sequence.timestamp + 1
  /\ s.value = sequence.value + 1

\* The header is the immediate successor of the latest one, strictly later.
FollowsLatest(s) ==
  /\ s.timestamp > sequence.timestamp
  /\ s.value = sequence.value + 1

checkValidity(h) ==
  /\ ValidateBasic(h)
  /\ h.cc # None => FollowsLatest(h.cc.sequence) /\ VerifyChaincodeHeader(h.cc)
  /\ h.info # None => h.info.endorsement # {} /\ VerifyChaincodeInfo(h.info)
  /\ h.msps # None => VerifyMSPHeaders(h.msps)
------------------------------------------------------------------------------
(* Application of a header *)

\* Mutant: a new MSP is put at the end.
createMSPInfoAtEnd(is, mh) ==
  Append(is, [MSPID |-> mh.MSPID, config |-> mh.config, policy |-> mh.policy,
              freezed |-> FALSE])

\* Insertion before the first MSP with a larger identifier, or at the end.
createMSPInfo(is, mh) ==
  LET larger == First({i \in DOMAIN is : CompareMSPID(mh.MSPID, is[i].MSPID) < 0})
      idx == IF larger = 0 THEN Len(is) + 1 ELSE larger
      new == [MSPID |-> mh.MSPID, config |-> mh.config, policy |-> mh.policy,
              freezed |-> FALSE]
  IN  SubSeq(is, 1, idx - 1) \o << new >> \o SubSeq(is, idx, Len(is))

updateMSPInfo(is, mh) ==
  LET idx == indexOfMSPID(is, mh.MSPID)
  IN  CASE mh.type = "Create"       -> createMSPInfo(is, mh)
        [] mh.type = "UpdatePolicy" -> [is EXCEPT ![idx].policy = mh.policy]
        [] mh.type = "UpdateConfig" -> [is EXCEPT ![idx].config = mh.config]
        [] mh.type = "Freeze"       -> [is EXCEPT ![idx].freezed = TRUE]

updateMSPInfos(is, mhs) ==
  LET after[n \in 0 .. Len(mhs)] == IF n = 0 THEN is ELSE updateMSPInfo(after[n - 1], mhs[n])
  IN  after[Len(mhs)]

update(h) ==
  /\ sequence' = IF h.cc # None THEN h.cc.sequence ELSE sequence
  /\ ccInfo' = IF h.info # None
               THEN [id |-> h.info.id, endorsement |-> h.info.endorsement,
                     ibc |-> h.info.ibc]
               ELSE ccInfo
  /\ infos' = IF h.msps # None THEN updateMSPInfos(infos, h.msps) ELSE infos

CheckHeaderAndUpdateState(h) == checkValidity(h) /\ update(h)

\* The IBC client keeper stores the new client state, and the consensus state
\* under the height of the header: GetHeight panics on a header without a
\* sequence, so such a header has no effect.
UpdateClient(h) ==
  /\ sequence.value < MaxHeight
  /\ CheckHeaderAndUpdateState(h)
  /\ h.cc # None
  /\ consensus' = [consensus EXCEPT ![h.cc.sequence.value] = h.cc.sequence.timestamp]
------------------------------------------------------------------------------
(* Creation of a client, and the specification *)

\* The relayer creates the client from the latest header of the chain, all of
\* whose MSP headers are of type Create.
createMSPInitialClientState(mhs) ==
  [i \in DOMAIN mhs |-> [MSPID |-> mhs[i].MSPID, config |-> mhs[i].config,
                         policy |-> mhs[i].policy, freezed |-> FALSE]]

CreateClient(h) ==
  /\ ValidateBasic(h)
  /\ \A i \in DOMAIN h.msps : h.msps[i].type = "Create"
  /\ sequence = h.cc.sequence
  /\ ccInfo = [id |-> h.info.id, endorsement |-> h.info.endorsement, ibc |-> h.info.ibc]
  /\ infos = createMSPInitialClientState(h.msps)
  /\ consensus = [v \in Heights |-> IF v = h.cc.sequence.value
                                    THEN h.cc.sequence.timestamp ELSE None]

Init == \E h \in Genesis : CreateClient(h)

Next == \E h \in Headers : UpdateClient(h)

Spec == Init /\ [][Next]_vars
------------------------------------------------------------------------------
(* Properties *)

\* Types of the state.
TypeOK ==
  /\ sequence \in Sequences
  /\ ccInfo \in ChaincodeInfos
  /\ infos \in Seq(MSPInfos)
  /\ consensus \in [Heights -> Times \cup {None}]

\* The client has a consensus state for every height from the one it was
\* created at to the latest, and for no other; their timestamps strictly
\* increase up to the latest one.  So a proof height up to the latest height
\* always finds its consensus state (produceVerificationArgs), and no sequence
\* of the chain is skipped (checkValidity).
ConsensusContiguous ==
  \E first \in 1 .. sequence.value :
    /\ \A v \in Heights : consensus[v] # None <=> v \in first .. sequence.value
    /\ consensus[sequence.value] = sequence.timestamp
    /\ \A v, w \in first .. sequence.value : v < w => consensus[v] < consensus[w]

\* A consensus state is never overwritten or removed: what was proved at a
\* height keeps the timestamp it was judged by (UpdateClient).
ConsensusImmutable ==
  [][\A v \in Heights : consensus[v] # None => consensus'[v] = consensus[v]]_vars

\* The MSPs are kept in strictly ascending order of their identifiers, over any
\* series of batches; in particular an identifier occurs once (createMSPInfo,
\* which inserts before the first larger identifier).
InfosSorted ==
  \A i, j \in DOMAIN infos : i < j => CompareMSPID(infos[i].MSPID, infos[j].MSPID) < 0

\* One config that cannot be set up stops the client for good: no header is
\* accepted any more, not even one that would repair the config, because every
\* verification sets up all MSPs first (GetMSPPBConfigs).
BrokenConfigStopsClient ==
  [][\A i \in DOMAIN infos : infos[i].freezed \/ infos[i].config # Broken]_vars

ActiveMSPs(is) == {is[i].MSPID : i \in Active(is)}

\* A policy that the MSPs set up by the configs in force could satisfy.
Satisfiable(policy) ==
  \E S \in policy :
    S \subseteq {infos[i].config.name : i \in {j \in Active(infos) : infos[j].config # Broken}}

\* While the MSPs named by the configs in force do not satisfy the IBC policy, as
\* after a series of freezes, the chaincode description, the set of MSPs in force
\* and the policies are fixed (VerifyChaincodeInfo, verifyMSPCreate,
\* verifyMSPUpdatePolicy, verifyMSPFreeze); a config that brings a name back is the
\* only way out.  Where no MSP in force can satisfy its own policy either, the
\* configs are fixed too (verifyMSPUpdateConfig), and so everything is for ever.
UngovernedStaysFixed ==
  [][ ~ Satisfiable(ccInfo.ibc) =>
        /\ ccInfo' = ccInfo
        /\ ActiveMSPs(infos') = ActiveMSPs(infos)
        /\ \A i \in DOMAIN infos : infos'[i].policy = infos[i].policy
        /\ (\A i \in Active(infos) : ~ Satisfiable(infos[i].policy)) => infos' = infos ]_vars

registry ==
  [id \in MSPIDs |->
     IF HasMSPID(infos, id)
     THEN LET info == infos[indexOfMSPID(infos, id)]
          IN  [config |-> info.config, policy |-> info.policy, freezed |-> info.freezed]
     ELSE None]

Registry == INSTANCE MSPRegistry WITH Absent <- None

\* The sorted sequence of MSPs and the batches applied to it implement the
\* table of MSPs: entries are only created where there is none and changed
\* while they are not frozen (VerifyMSPHeaders, updateMSPInfos).
ImplementsRegistry == Registry!Spec
==============================================================================
