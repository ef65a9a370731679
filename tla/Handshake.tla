------------------------------ MODULE Handshake ------------------------------
(***************************************************************************)
(* The connection handshake between two Fabric chains.                     *)
(*                                                                         *)
(* Each chain has a log of sequences, a client of the other chain that     *)
(* follows the log of that chain (ClientRelay), and connection ends, which *)
(* are numbered as they are created.  A relayer queries an end of one      *)
(* chain and the consensus state that the client there has of the other    *)
(* chain, each with a proof, and submits the next message of the handshake *)
(* to the other chain.  Relayers work at the same time, for ends of their  *)
(* choice, and by the time a message is executed both chains may have      *)
(* moved on.  The handlers of the messages are those of the IBC module;    *)
(* the repository supplies the clients that verify the proofs, the heights *)
(* and the consensus states of the chain itself, and the proofs.           *)
(***************************************************************************)
EXTENDS Naturals, Sequences, FiniteSets

CONSTANTS
  Relayers,     \* relayer processes
  MaxInits,     \* bound on the ends of a chain for a new handshake to start there
  MaxTries,     \* bound on the answers of a chain to one end of the other
  MaxHeight,    \* bound on the length of a log
  Times         \* timestamps

ASSUME BoundsAssumption == MaxInits \in Nat /\ MaxTries \in Nat

ASSUME TimesAssumption == Times \subseteq Nat

VARIABLES
  log,        \* log[c]: timestamps of the committed sequences of chain c
  client,     \* client[c]: the consensus states that c has of the other chain
  ends,       \* ends[c]: the connection ends of c
  held        \* held[r]: the query result, if any, that r is to submit

vars == << log, client, ends, held >>

Chains == {"A", "B"}

Other(c) == IF c = "A" THEN "B" ELSE "A"

\* The identifier that stands for a counterparty that is not known yet.
NoConnection == 0

ConnectionEnds == [state : {"INIT", "TRYOPEN", "OPEN"}, counterparty : Nat]

\* End id of a chain, for a message about end own of the other chain; the number
\* of sequences when the end was endorsed; a consensus state with its height.
Queries ==
  [chain : Chains, id : Nat, end : ConnectionEnds, own : Nat, height : Nat,
   consensusHeight : Nat, consensusState : Nat]

End(state, counterparty) == [state |-> state, counterparty |-> counterparty]
------------------------------------------------------------------------------
(* The chains and their clients *)

UpdateSequence(c, tm) ==
  /\ Len(log[c]) < MaxHeight
  /\ tm > log[c][Len(log[c])]
  /\ log' = [log EXCEPT ![c] = Append(@, tm)]
  /\ UNCHANGED << client, ends, held >>

\* The client accepts the sequence that follows its latest one.
UpdateClient(c) ==
  /\ Len(client[c]) < Len(log[Other(c)])
  /\ client' = [client EXCEPT ![c] = Append(@, log[Other(c)][Len(@) + 1])]
  /\ UNCHANGED << log, ends, held >>

\* Mutant: the height of the current sequence.
getBlockHeaderCurrent(c) == Len(log[c])

\* The height at which messages are executed: that of the sequence to come.
getBlockHeader(c) == Len(log[c]) + 1

\* The consensus state that c expects a client of itself to have at height h.
GetSelfConsensusState(c, h) == log[c][h]

\* A proof at height h can be verified by the client on c.
produceVerificationArgs(c, h) == h \in DOMAIN client[c]

\* Mutant: the endorsed end is not compared with the expected one.
VerifyConnectionStateAnyValue(c, h, q, id, end) ==
  /\ produceVerificationArgs(c, h)
  /\ q.id = id

\* The query q proves that the other chain has the given end.
VerifyConnectionState(c, h, q, id, end) ==
  /\ produceVerificationArgs(c, h)
  /\ q.id = id
  /\ q.end = end

\* The query q proves that the client on the other chain has the given state.
VerifyClientConsensusState(c, h, q, state) ==
  /\ produceVerificationArgs(c, h)
  /\ q.consensusState = state

\* The client state of the other chain is one of a Fabric client, which is all
\* that ValidateSelfClient asks for, and a consensus state of it, older than the
\* block at hand, is the one that c itself knows.
ValidateSelf(c, h, q) ==
  /\ q.consensusHeight < getBlockHeader(c)
  /\ q.consensusHeight \in DOMAIN log[c]
  /\ VerifyClientConsensusState(c, h, q, GetSelfConsensusState(c, q.consensusHeight))
------------------------------------------------------------------------------
(* The messages of the handshake *)

ConnOpenInit(c) ==
  /\ Len(ends[c]) < MaxInits
  /\ ends' = [ends EXCEPT ![c] = Append(@, End("INIT", NoConnection))]
  /\ UNCHANGED << log, client, held >>

\* Every answer to an end of the other chain creates an end: a handshake that
\* was started on this chain as well is not continued.
CanTry(c, h, q) ==
  /\ ValidateSelf(c, h, q)
  /\ VerifyConnectionState(c, h, q, q.id, End("INIT", NoConnection))
  /\ Cardinality({i \in DOMAIN ends[c] : ends[c][i].counterparty = q.id}) < MaxTries

CanAck(c, h, q) ==
  /\ ValidateSelf(c, h, q)
  /\ q.own \in DOMAIN ends[c]
  /\ ends[c][q.own].state \in {"INIT", "TRYOPEN"}
  /\ VerifyConnectionState(c, h, q, q.id, End("TRYOPEN", q.own))

CanConfirm(c, h, q) ==
  /\ q.own \in DOMAIN ends[c]
  /\ ends[c][q.own].state = "TRYOPEN"
  /\ VerifyConnectionState(c, h, q, ends[c][q.own].counterparty, End("OPEN", q.own))

ConnOpenTry(c, h, q) ==
  /\ CanTry(c, h, q)
  /\ ends' = [ends EXCEPT ![c] = Append(@, End("TRYOPEN", q.id))]

ConnOpenAck(c, h, q) ==
  /\ CanAck(c, h, q)
  /\ ends' = [ends EXCEPT ![c][q.own] = End("OPEN", q.id)]

ConnOpenConfirm(c, h, q) ==
  /\ CanConfirm(c, h, q)
  /\ ends' = [ends EXCEPT ![c][q.own].state = "OPEN"]

Rejected(c, h, q) ==
  /\ ~ (CanTry(c, h, q) \/ CanAck(c, h, q) \/ CanConfirm(c, h, q))
  /\ UNCHANGED ends
------------------------------------------------------------------------------
(* The relayers *)

\* The end, as it is stored, and a consensus state of the client there.  For an
\* end that is not there the prover answers with one that calls for ConnOpenInit.
QueryConnectionWithProof(r, c, id, own) ==
  /\ held[r] = {}
  /\ id \in DOMAIN ends[c]
  /\ \E h \in DOMAIN client[c] :
       held' = [held EXCEPT ![r] =
         {[chain |-> c, id |-> id, end |-> ends[c][id], own |-> own,
           height |-> Len(log[c]), consensusHeight |-> h,
           consensusState |-> client[c][h]]}]
  /\ UNCHANGED << log, client, ends >>

\* The proof height is that of the sequence that was current at some time after
\* the query.
SendMsgs(r) ==
  /\ \E q \in held[r] : \E h \in q.height .. Len(log[q.chain]) :
       LET c == Other(q.chain) IN
       \/ ConnOpenTry(c, h, q)
       \/ ConnOpenAck(c, h, q)
       \/ ConnOpenConfirm(c, h, q)
       \/ Rejected(c, h, q)
  /\ held' = [held EXCEPT ![r] = {}]
  /\ UNCHANGED << log, client >>
------------------------------------------------------------------------------
\* The clients are created from the first sequences of the chains.
Init ==
  /\ log \in [Chains -> {<< tm >> : tm \in Times}]
  /\ client = [c \in Chains |-> log[Other(c)]]
  /\ ends = [c \in Chains |-> << >>]
  /\ held = [r \in Relayers |-> {}]

Ids == 1 .. MaxInits * (1 + MaxTries)

Next ==
  \/ \E c \in Chains, tm \in Times : UpdateSequence(c, tm)
  \/ \E c \in Chains : UpdateClient(c) \/ ConnOpenInit(c)
  \/ \E r \in Relayers, c \in Chains, id, own \in Ids : QueryConnectionWithProof(r, c, id, own)
  \/ \E r \in Relayers : SendMsgs(r)

Spec == Init /\ [][Next]_vars

\* A round for a pair of ends that call for a message: the relayer looks at both.
QueryNext(r) ==
  /\ \E c \in Chains, id, own \in Ids : QueryConnectionWithProof(r, c, id, own)
  /\ \E q \in held'[r] :
       LET c == Other(q.chain)
           h == Len(log[q.chain]) IN
       CanTry(c, h, q) \/ CanAck(c, h, q) \/ CanConfirm(c, h, q)

\* Relayers that do not stop, that turn again and again to ends that call for a
\* message, and that keep the clients up to date.  The chains need not advance.
FairSpec ==
  /\ Spec
  /\ WF_vars(\E c \in Chains : UpdateClient(c))
  /\ \A r \in Relayers : WF_vars(SendMsgs(r)) /\ SF_vars(QueryNext(r))
------------------------------------------------------------------------------
(* Properties *)

\* Types of the state.
TypeOK ==
  /\ log \in [Chains -> Seq(Times)]
  /\ client \in [Chains -> Seq(Times)]
  /\ ends \in [Chains -> Seq(ConnectionEnds)]
  /\ held \in [Relayers -> SUBSET Queries]

\* However the messages of several relayers interleave, and however old the
\* proofs are, an open end has a counterparty that names it back and that is
\* open or is waiting for the confirmation, so that no two open ends have the
\* same counterparty; and an end never waits for the confirmation of one
\* that is waiting itself (VerifyConnectionState, EndorseConnectionState).
EndsPaired ==
  \A c \in Chains : \A i \in DOMAIN ends[c] :
    LET e == ends[c][i]
        peers == ends[Other(c)] IN
    /\ e.state = "OPEN" => /\ e.counterparty \in DOMAIN peers
                           /\ peers[e.counterparty].counterparty = i
                           /\ peers[e.counterparty].state \in {"TRYOPEN", "OPEN"}
    /\ e.state = "TRYOPEN" => /\ e.counterparty \in DOMAIN peers
                              /\ peers[e.counterparty].state \in {"INIT", "OPEN"}

\* A handshake that was started completes, on both chains, even if neither chain
\* advances any more: the latest consensus state that the other chain has is
\* one that the chain itself can look up and takes for older than the block it
\* executes (GetSelfConsensusState, getBlockHeader).
HandshakesComplete ==
  \A c \in Chains, i \in 1 .. MaxInits :
    (i \in DOMAIN ends[c] /\ ends[c][i].state = "INIT") ~>
      (/\ i \in DOMAIN ends[c]
       /\ ends[c][i].state = "OPEN"
       /\ ends[Other(c)][ends[c][i].counterparty].state = "OPEN")
==============================================================================
