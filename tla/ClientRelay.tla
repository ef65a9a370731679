----------------------------- MODULE ClientRelay -----------------------------
(***************************************************************************)
(* A Fabric chain, the light client that a counterparty keeps of it, and   *)
(* the relaying of headers between the two.                                *)
(*                                                                         *)
(* The chain is the abstract log of SequenceLog, which SequenceManager     *)
(* implements, run by one deployed version of the chaincode.  A proof of a *)
(* sequence is an endorsement of EndorseSequenceCommitment, a simulated    *)
(* transaction: it reads the committed state, names the version that ran,  *)
(* and is not bound to the state it was read from.  Endorsed proofs can be *)
(* submitted in any order, more than once, late or never.                  *)
(***************************************************************************)
EXTENDS FabricClient

CONSTANTS
  MinTimeInterval,    \* Config.MinTimeInterval of the chain, in whole seconds
  Endorsers           \* identities of the endorsing peers

ASSUME VersionsAssumption == ChaincodeIDs \subseteq Nat

ASSUME IntervalAssumption == MinTimeInterval \in Nat

\* The client is created from the first sequence of the chain, with a policy that
\* the endorsing peers satisfy.
ASSUME GenesisAssumption ==
  \A h \in Genesis :
    LET genesisInfos == createMSPInitialClientState(h.msps) IN
    /\ h.cc.sequence.value = 1
    /\ [id |-> h.info.id, endorsement |-> h.info.endorsement, ibc |-> h.info.ibc]
         \in ChaincodeInfos
    /\ genesisInfos \in Seq(MSPInfos)
    /\ EvaluateSignedData(h.info.endorsement, genesisInfos, Endorsers)

\* The endorsed sequence commitments.
SequenceProofs ==
  [signers : {Endorsers}, ccid : ChaincodeIDs, key : {SequenceKey(v) : v \in Heights},
   value : Sequences]

ASSUME NoHeaderAssumption == None \notin [sequence : Sequences, proof : SequenceProofs]

VARIABLES
  log,          \* timestamps of the committed sequences
  deployed,     \* the version of the chaincode that runs on the chain
  endorsed      \* the endorsed sequence commitments that relayers hold

chainVars == << log, deployed >>
relayVars == << vars, log, deployed, endorsed >>

Chain == INSTANCE SequenceLog

\* Mutant: the timestamp of the current sequence is endorsed for an older one.
SequenceProofCurrentTime(v, c) ==
  [signers |-> Endorsers, ccid |-> c, key |-> SequenceKey(v),
   value |-> [value |-> v, timestamp |-> log[Len(log)]]]

\* The endorsement of the commitment to sequence v by the version c.
SequenceProof(v, c) ==
  [signers |-> Endorsers, ccid |-> c, key |-> SequenceKey(v),
   value |-> [value |-> v, timestamp |-> log[v]]]

\* The header of an update, possibly with a new chaincode description.
UpdateHeader(proof, info) ==
  [cc |-> [sequence |-> proof.value, proof |-> proof], info |-> info, msps |-> None]

\* The description of the deployed version, endorsed by the members.
DeployedInfo ==
  [id |-> deployed, endorsement |-> ccInfo.endorsement, ibc |-> ccInfo.ibc,
   proof |-> Endorsers]
------------------------------------------------------------------------------
UpdateSequence(tm) ==
  /\ Len(log) < MaxHeight
  /\ Chain!Advance(tm)
  /\ UNCHANGED << vars, deployed, endorsed >>

UpgradeChaincode ==
  /\ deployed + 1 \in ChaincodeIDs
  /\ deployed' = deployed + 1
  /\ UNCHANGED << vars, log, endorsed >>

\* Mutant: the argument is ignored.
EndorseSequenceCommitmentCurrent(v) ==
  /\ v = Len(log)
  /\ SequenceProof(v, deployed) \notin endorsed
  /\ endorsed' = endorsed \cup {SequenceProof(v, deployed)}
  /\ UNCHANGED << vars, chainVars >>

\* Without an argument the current sequence is endorsed, with an argument the
\* one it names; GetSequence fails for a sequence that is not there.
EndorseSequenceCommitment(v) ==
  /\ v \in DOMAIN log
  /\ SequenceProof(v, deployed) \notin endorsed
  /\ endorsed' = endorsed \cup {SequenceProof(v, deployed)}
  /\ UNCHANGED << vars, chainVars >>

\* The consensus state that the chain itself expects a client of it to have at
\* height h, compared during the connection handshake.
GetSelfConsensusState(h) == IF h \in DOMAIN log THEN log[h] ELSE None

Submit(proof, info) ==
  /\ UpdateClient(UpdateHeader(proof, info))
  /\ UNCHANGED << chainVars, endorsed >>

RelayInit ==
  /\ \E h \in Genesis :
       /\ CreateClient(h)
       /\ log = << h.cc.sequence.timestamp >>
       /\ deployed = h.info.id
  /\ endorsed = {}

RelayNext ==
  \/ \E tm \in Times : UpdateSequence(tm)
  \/ UpgradeChaincode
  \/ \E v \in Heights : EndorseSequenceCommitment(v)
  \/ \E proof \in endorsed : Submit(proof, None) \/ Submit(proof, DeployedInfo)

\* The next sequence is endorsed and submitted, if it can be.
EndorseNext == EndorseSequenceCommitment(sequence.value + 1)
SubmitNext == \E proof \in endorsed : Submit(proof, None)

\* A relayer that keeps working through the sequences of the chain.
RelaySpec ==
  /\ RelayInit
  /\ [][RelayNext]_relayVars
  /\ WF_relayVars(EndorseNext)
  /\ WF_relayVars(SubmitNext)
------------------------------------------------------------------------------
(* Properties *)

\* Types of the state.
RelayTypeOK ==
  /\ TypeOK
  /\ log \in Seq(Times)
  /\ deployed \in ChaincodeIDs
  /\ endorsed \subseteq SequenceProofs

\* The client never runs ahead of the chain and never disagrees with it: each
\* of its consensus states is the one that the chain computes for itself at that
\* height, as the connection handshake requires (checkValidity,
\* EndorseSequenceCommitment, GetSelfConsensusState).
ClientFollowsLog ==
  \A v \in Heights : consensus[v] # None => consensus[v] = GetSelfConsensusState(v)

\* A proof of the next sequence, endorsed by the version the client knows, is
\* accepted whenever it arrives.  The client accepts a header only if it is
\* strictly later than the one before: the chain must keep its sequences at
\* least one second apart (checkValidity and Config.MinTimeInterval).
NextHeaderAccepted ==
  \A proof \in endorsed :
    proof.value.value = sequence.value + 1 /\ proof.ccid = ccInfo.id =>
      checkValidity(UpdateHeader(proof, None))

\* The chain runs a version that the client does not know, and nobody holds a
\* proof of the next sequence by the version that it does know.
Stranded ==
  /\ ccInfo.id # deployed
  /\ \A proof \in endorsed :
       ~ (proof.value.value = sequence.value + 1 /\ proof.ccid = ccInfo.id)

\* A client that has missed an upgrade stays behind for ever: the description
\* of the new version has to come with a sequence (GetHeight), and that
\* sequence is still verified by the old description (VerifyChaincodeHeader).
StrandedForever == [][Stranded => Stranded' /\ UNCHANGED vars]_relayVars

\* Every sequence that the chain commits reaches the client, unless an upgrade
\* of the chaincode has stranded it.
CatchesUp ==
  \A v \in Heights : (Len(log) >= v) ~> (sequence.value >= v \/ Stranded)
==============================================================================
