------------------------------ MODULE ProofRelay -----------------------------
(***************************************************************************)
(* Proofs of the IBC state of a Fabric chain: how the chaincode endorses   *)
(* an entry of its store, how the prover of the relayer turns the          *)
(* endorsement into a proof at a height, and how the light client on the   *)
(* counterparty verifies it.                                               *)
(*                                                                         *)
(* The endorsement is of the committed state at the time of the query.     *)
(* The prover asks for the height afterwards, in a second query, and the   *)
(* endorsement does not mention it: other transactions may be committed    *)
(* in between.  A key is a pair of the kind of entry and an identifier.    *)
(* The value of an entry is a number; what the IBC modules of the chain do *)
(* to an entry depends on its kind.                                        *)
(***************************************************************************)
EXTENDS ClientRelay, FiniteSets

CONSTANTS
  StoreKeys,     \* the keys of the IBC store: pairs << kind, identifier >>
  MaxValue,      \* bound on the values of an entry
  MaxMessages,   \* bound on the number of different proofs that are sent
  Deleted        \* a packet commitment that has been deleted

VARIABLES
  store,        \* the committed IBC store
  history,      \* when (at which sequence) each value became the committed one
  query,        \* the endorsed entry whose height the prover has yet to ask for
  messages,     \* proofs with their heights, as sent to the counterparty
  accepted      \* the entries that the counterparty has accepted, with heights

storeVars == << store, history >>
proofVars == << store, history, query, messages, accepted >>
allVars == << relayVars, proofVars >>

Values == 1 .. MaxValue

\* The value that stands for the absence of a packet receipt, and the kinds of
\* entries: those written once, those that only move forward, the others; and the
\* kinds that the prover has a query for.
AbsenceValue == 0
WrittenOnce == {"consensusState", "packetAcknowledgement", "packetReceipt"}
Advancing == {"connection", "channel", "nextSequenceRecv"}
StateKinds == {"clientState", "consensusState", "connection", "channel"}
ProverKinds == StateKinds \cup {"packetCommitment", "packetAcknowledgement"}

ASSUME StoreAssumption ==
  /\ \A k \in StoreKeys :
       k[1] \in WrittenOnce \cup Advancing \cup {"packetCommitment", "clientState"}
  /\ MaxValue \in Nat
  /\ None \notin 0 .. MaxValue /\ Deleted \notin 0 .. MaxValue

height == Len(log)
------------------------------------------------------------------------------
(* The chain *)

\* What a HandleTx of the IBC modules can make of an entry.
Written(k) ==
  CASE k[1] \in WrittenOnce         -> IF store[k] = None THEN Values ELSE {}
    [] k[1] \in Advancing           -> IF store[k] = None THEN {1}
                                       ELSE {store[k] + 1} \cap Values
    [] k[1] = "packetCommitment"    -> IF store[k] = None THEN Values
                                       ELSE {Deleted} \ {store[k]}
    [] k[1] = "clientState"         -> Values \ {store[k]}

HandleTx(k, v) ==
  /\ v \in Written(k)
  /\ store' = [store EXCEPT ![k] = v]
  /\ history' = history \cup {[key |-> k, value |-> v, height |-> height]}
  /\ UNCHANGED << relayVars, query, messages, accepted >>

\* The entry of the write set that commits to value v of key k: the key with
\* the prefix of the IBC store, and the stored bytes.
MakeCommitmentEntry(k, v) == [key |-> << "ibc", k >>, value |-> v]

\* Mutant: the end is endorsed as the transaction at hand would make it.
EndorseStateSimulated(k) == Written(k) \cap Values

\* The values of the client and consensus states and of the connection and
\* channel ends that can be endorsed: what is stored, if it is there.
EndorseState(k) == {store[k]} \cap Values

\* The packet commitment and acknowledgement and the next receive sequence are
\* endorsed if they are there, the absence of a packet receipt if it is not.
EndorsePacket(k) ==
  IF k[1] = "packetReceipt"
  THEN IF store[k] = None THEN {AbsenceValue} ELSE {}
  ELSE {store[k]} \cap Values

Endorse(k) == IF k[1] \in StateKinds THEN EndorseState(k) ELSE EndorsePacket(k)

\* The simulated transaction of one of the Endorse functions, signed by the
\* endorsing peers.
endorseCommitmentRaw(k) ==
  {[signers |-> Endorsers, ccid |-> deployed, key |-> MakeCommitmentEntry(k, v).key,
    value |-> MakeCommitmentEntry(k, v).value] : v \in Endorse(k)}
------------------------------------------------------------------------------
(* The prover *)

EndorseEntry(k) ==
  /\ query = None
  /\ Cardinality(messages) < MaxMessages
  /\ query' \in endorseCommitmentRaw(k)
  /\ UNCHANGED << relayVars, storeVars, messages, accepted >>

\* First half of QueryClientStateWithProof and its siblings.  Of an entry that is
\* not there they give an error, or for a connection or a channel an empty end
\* without a proof: there is nothing to send.
QueryWithProof(k) == k[1] \in ProverKinds /\ EndorseEntry(k)

\* The chaincode endorses the absence of a receipt and the next receive sequence
\* too.  The prover has no query for them; other software that calls these
\* functions is taken to ask for the height in the same way.
EndorseOther(k) == k[1] \notin ProverKinds /\ EndorseEntry(k)

\* Second half: the proof is paired with the sequence that is current by now.
getCurrentHeight ==
  /\ query # None
  /\ messages' = messages \cup {[proof |-> query, height |-> height]}
  /\ query' = None
  /\ UNCHANGED << relayVars, storeVars, accepted >>

\* The header for the update of the client on the counterparty: there is none.
SetupHeader == None
------------------------------------------------------------------------------
(* The counterparty *)

produceVerificationArgs(h) ==
  /\ ~ (sequence.value < h)
  /\ consensus[h] # None

\* Mutant: the key of the endorsed entry is taken for granted.
VerifyEntryAnyKey(m, k, v) ==
  /\ produceVerificationArgs(m.height)
  /\ VerifyEndorsedCommitment(m.proof, m.proof.key, MakeCommitmentEntry(k, v).value)

\* What VerifyClientState, VerifyPacketCommitment and the others have in common:
\* the proof m shows that the chain has value v under key k.
VerifyEntry(m, k, v) ==
  /\ produceVerificationArgs(m.height)
  /\ VerifyEndorsedCommitment(m.proof, MakeCommitmentEntry(k, v).key,
                              MakeCommitmentEntry(k, v).value)

VerifyState(m, k, v) == k[1] \in StateKinds /\ VerifyEntry(m, k, v)

\* The absence of a packet receipt has a value of its own.
VerifyPacket(m, k, v) ==
  /\ k[1] \notin StateKinds
  /\ v = AbsenceValue <=> k[1] = "packetReceipt"
  /\ VerifyEntry(m, k, v)

\* The counterparty checks the claim that the chain has v under k.
Accept(m, k, v) ==
  /\ VerifyState(m, k, v) \/ VerifyPacket(m, k, v)
  /\ accepted' = accepted \cup {[key |-> k, value |-> v, height |-> m.height]}
  /\ UNCHANGED << relayVars, storeVars, query, messages >>
------------------------------------------------------------------------------
ProofInit ==
  /\ RelayInit
  /\ store = [k \in StoreKeys |-> None]
  /\ history = {[key |-> k, value |-> AbsenceValue, height |-> 1] :
                k \in {r \in StoreKeys : r[1] = "packetReceipt"}}
  /\ query = None
  /\ messages = {}
  /\ accepted = {}

ChainAndProver ==
  \/ \E k \in StoreKeys : \E v \in Values \cup {Deleted} : HandleTx(k, v)
  \/ \E k \in StoreKeys : QueryWithProof(k)
  \/ getCurrentHeight
  \/ \E m \in messages, k \in StoreKeys, v \in Values \cup {AbsenceValue} : Accept(m, k, v)

ProofNext ==
  \/ ChainAndProver
  \/ \E k \in StoreKeys : EndorseOther(k)
  \/ RelayNext /\ UNCHANGED proofVars

\* Somebody submits every sequence to the client, one after the other.
ProofSpec ==
  /\ ProofInit
  /\ [][ProofNext]_allVars
  /\ WF_allVars(EndorseNext /\ UNCHANGED proofVars)
  /\ WF_allVars(SubmitNext /\ UNCHANGED proofVars)

\* The relayer with the prover of the repository: a client is updated with the
\* header that SetupHeader returns.
ProverNext ==
  \/ ChainAndProver
  \/ \E tm \in Times : UpdateSequence(tm) /\ UNCHANGED proofVars
  \/ /\ SetupHeader # None
     /\ UpdateClient(SetupHeader)
     /\ UNCHANGED << chainVars, endorsed, proofVars >>

ProverSpec ==
  /\ ProofInit
  /\ [][ProverNext]_allVars
  /\ WF_allVars(ProverNext)
------------------------------------------------------------------------------
(* Properties *)

Proofs == [signers : {Endorsers}, ccid : ChaincodeIDs, key : {"ibc"} \X StoreKeys,
           value : Values \cup {AbsenceValue}]

\* Types of the state.
ProofTypeOK ==
  /\ store \in [StoreKeys -> Values \cup {None, Deleted}]
  /\ history \subseteq [key : StoreKeys, value : Values \cup {AbsenceValue, Deleted},
                        height : Heights]
  /\ query \in Proofs \cup {None}
  /\ messages \subseteq [proof : Proofs, height : Heights]
  /\ accepted \subseteq [key : StoreKeys, value : Values \cup {AbsenceValue},
                         height : Heights]

\* An accepted entry had been committed by the chain no later than at the
\* height of the proof, whatever was committed between the endorsement and the
\* query for the height (QueryPacketCommitmentWithProof and its siblings).
AcceptedWasCommitted ==
  \A a \in accepted :
    \E f \in history : f.key = a.key /\ f.value = a.value /\ f.height <= a.height

\* Entries that never change once they are written, or that only move forward,
\* may be relied on by the counterparty: the chain still has them, or is ahead
\* of them (VerifyPacketAcknowledgement, VerifyClientConsensusState,
\* VerifyConnectionState, VerifyChannelState, VerifyNextSequenceRecv).
AcceptedStillHolds ==
  \A a \in accepted :
    /\ a.key[1] \in WrittenOnce \ {"packetReceipt"} => store[a.key] = a.value
    /\ a.key[1] \in Advancing => store[a.key] \in a.value .. MaxValue

\* Every proof that the prover hands out can be verified in the end: the client
\* reaches its height, unless an upgrade of the chaincode has stranded it.
ProofsBecomeVerifiable ==
  \A h \in Heights :
    (\E m \in messages : m.height = h) ~> (produceVerificationArgs(h) \/ Stranded)
==============================================================================
