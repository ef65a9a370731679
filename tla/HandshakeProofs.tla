--------------------------- MODULE HandshakeProofs ---------------------------
(***************************************************************************)
(* The ends of connections are paired, for any number of relayers, of ends *)
(* and of sequences.                                                       *)
(***************************************************************************)
EXTENDS Handshake, TLAPS

\* The time in seconds that a backend may take over a step.
USE SMTT(30), ZenonT(30)


\* End i of chain c is paired, which EndsPaired says of every end.
Paired(c, i) ==
  LET e == ends[c][i]
      peers == ends[Other(c)] IN
  /\ e.state = "OPEN" => /\ e.counterparty \in DOMAIN peers
                         /\ peers[e.counterparty].counterparty = i
                         /\ peers[e.counterparty].state \in {"TRYOPEN", "OPEN"}
  /\ e.state = "TRYOPEN" => /\ e.counterparty \in DOMAIN peers
                            /\ peers[e.counterparty].state \in {"INIT", "OPEN"}

\* A query result may be old, but the chain is still where it says, or ahead: an
\* end that was INIT was created by ConnOpenInit, and has not become TRYOPEN;
\* one that was TRYOPEN keeps its counterparty, which was created by
\* ConnOpenInit; one that was OPEN does not change.
StillFits(q) ==
  LET e == ends[q.chain][q.id]
      peers == ends[Other(q.chain)] IN
  /\ q.id \in DOMAIN ends[q.chain]
  /\ q.end.state = "INIT" => e.state \in {"INIT", "OPEN"}
  /\ q.end.state = "TRYOPEN" => /\ e.counterparty = q.end.counterparty
                                /\ e.state \in {"TRYOPEN", "OPEN"}
                                /\ e.counterparty \in DOMAIN peers
                                /\ peers[e.counterparty].state \in {"INIT", "OPEN"}
  /\ q.end.state = "OPEN" => e = q.end

HeldOK == \A r \in Relayers : \A q \in held[r] : StillFits(q)

\* The types that the argument needs.
EndsTypeOK ==
  /\ ends \in [Chains -> Seq(ConnectionEnds)]
  /\ held \in [Relayers -> SUBSET Queries]

\* The inductive invariant.
IInv == EndsTypeOK /\ EndsPaired /\ HeldOK

\* There are two chains, each the counterparty of the other.
LEMMA OtherChain ==
  ASSUME NEW c \in Chains
  PROVE  /\ Other(c) \in Chains
         /\ Other(c) # c
         /\ Other(Other(c)) = c
         /\ Chains = {c, Other(c)}
BY DEF Other, Chains

\* Ends are records of their two fields.
LEMMA EndType ==
  ASSUME NEW s \in {"INIT", "TRYOPEN", "OPEN"}, NEW p \in Nat
  PROVE  /\ End(s, p) \in ConnectionEnds
         /\ End(s, p).state = s
         /\ End(s, p).counterparty = p
BY DEF End, ConnectionEnds

\* Identifiers are numbers.
LEMMA IdsType == Ids \subseteq Nat
<1>1. MaxInits * (1 + MaxTries) \in Nat
  BY BoundsAssumption
<1> QED BY <1>1 DEF Ids

\* It is enough to look at the ends of the two chains in turn, and at the
\* results held about each.
LEMMA BothChains ==
  ASSUME NEW c \in Chains, EndsTypeOK',
         \A i \in DOMAIN ends'[c] : Paired(c, i)',
         \A i \in DOMAIN ends'[Other(c)] : Paired(Other(c), i)',
         \A r \in Relayers : \A q \in held'[r] : StillFits(q)'
  PROVE  IInv'
<1>1. EndsPaired'
  <2>1. Chains = {c, Other(c)}
    BY OtherChain, Zenon
  <2>2. \A b \in Chains : \A i \in DOMAIN ends'[b] : Paired(b, i)'
    BY <2>1, Zenon
  <2> QED BY <2>2, Zenon DEF EndsPaired, Paired
<1>2. HeldOK'
  BY DEF HeldOK
<1> QED BY <1>1, <1>2, ZenonT(30) DEF IInv

\* ConnOpenInit and ConnOpenTry: a new end, INIT or in answer to an end that was
\* created by ConnOpenInit, disturbs no other end.
LEMMA NewEnd ==
  ASSUME IInv, NEW c \in Chains, NEW e \in ConnectionEnds,
         e.state \in {"INIT", "TRYOPEN"},
         e.state = "TRYOPEN" => /\ e.counterparty \in DOMAIN ends[Other(c)]
                                /\ ends[Other(c)][e.counterparty].state \in {"INIT", "OPEN"},
         ends' = [ends EXCEPT ![c] = Append(@, e)],
         held' \in [Relayers -> SUBSET Queries],
         \A r \in Relayers : held'[r] \subseteq held[r]
  PROVE  IInv'
<1> DEFINE d == Other(c)
<1>1. d \in Chains /\ d # c /\ Other(d) = c /\ Chains = {c, d}
  BY OtherChain
<1>2. ends[c] \in Seq(ConnectionEnds) /\ ends[d] \in Seq(ConnectionEnds)
  BY <1>1 DEF IInv, EndsTypeOK
<1>3. ends'[c] = Append(ends[c], e) /\ ends'[d] = ends[d]
  BY <1>1 DEF IInv, EndsTypeOK
<1>4. /\ DOMAIN ends[c] \subseteq DOMAIN ends'[c]
      /\ \A i \in DOMAIN ends[c] : ends'[c][i] = ends[c][i]
      /\ \A i \in DOMAIN ends'[c] : i \in DOMAIN ends[c] \/ ends'[c][i] = e
  BY <1>2, <1>3
<1>5. EndsTypeOK'
  BY <1>1, <1>2 DEF IInv, EndsTypeOK
<1>6. ASSUME NEW i \in DOMAIN ends'[c] PROVE Paired(c, i)'
  <2>1. CASE i \in DOMAIN ends[c]
    <3>1. Paired(c, i)
      BY <2>1, Zenon DEF IInv, EndsPaired, Paired
    <3> QED BY <3>1, <2>1, <1>3, <1>4, Zenon DEF Paired
  <2>2. CASE ends'[c][i] = e
    BY <2>2, <1>3, Zenon DEF Paired
  <2> QED BY <1>4, <2>1, <2>2, Zenon
<1>7. ASSUME NEW i \in DOMAIN ends'[d] PROVE Paired(d, i)'
  <2>1. Paired(d, i)
    BY <1>1, <1>3, Zenon DEF IInv, EndsPaired, Paired
  <2> DEFINE k == ends[d][i].counterparty
  <2>2. /\ ends'[d][i] = ends[d][i] /\ ends'[d][i].counterparty = k
        /\ ends[Other(d)] = ends[c] /\ ends'[Other(d)] = ends'[c]
    BY <1>1, <1>3, Zenon
  <2>3. k \in DOMAIN ends[c] => k \in DOMAIN ends'[c] /\ ends'[c][k] = ends[c][k]
    BY <1>4, Zenon
  <2> HIDE DEF d, k
  <2> QED BY <2>1, <2>2, <2>3, Zenon DEF Paired
<1>8. ASSUME NEW r \in Relayers, NEW q \in held'[r] PROVE StillFits(q)'
  <2>1. StillFits(q) /\ q \in Queries
    BY Zenon DEF IInv, HeldOK, EndsTypeOK
  <2>2. CASE q.chain = c
    <3>1. ends'[Other(q.chain)] = ends[Other(q.chain)]
      BY <2>2, <1>3, Zenon
    <3>2. q.id \in DOMAIN ends[q.chain] =>
            q.id \in DOMAIN ends'[q.chain] /\ ends'[q.chain][q.id] = ends[q.chain][q.id]
      BY <2>2, <1>4, Zenon
    <3> QED BY <2>1, <3>1, <3>2, Zenon DEF StillFits
  <2>3. CASE q.chain = d
    <3>1. ends'[q.chain] = ends[q.chain] /\ Other(q.chain) = c
      BY <2>3, <1>1, <1>3, Zenon
    <3> QED BY <2>1, <3>1, <1>4, Zenon DEF StillFits
  <2> QED BY <2>1, <2>2, <2>3, <1>1 DEF Queries
<1> QED BY <1>5, <1>6, <1>7, <1>8, BothChains

\* ConnOpenAck and ConnOpenConfirm: end i of c opens with end j of the other
\* chain, which names it; it was INIT and j is TRYOPEN, or it was TRYOPEN in
\* answer to j, which is OPEN.
LEMMA OpenedEnd ==
  ASSUME IInv, NEW c \in Chains, NEW i \in DOMAIN ends[c],
         NEW j \in DOMAIN ends[Other(c)],
         ends[Other(c)][j].counterparty = i,
         \/ ends[c][i].state = "INIT" /\ ends[Other(c)][j].state = "TRYOPEN"
         \/ /\ ends[c][i] = End("TRYOPEN", j)
            /\ ends[Other(c)][j].state = "OPEN",
         ends' = [ends EXCEPT ![c][i] = End("OPEN", j)],
         held' \in [Relayers -> SUBSET Queries],
         \A r \in Relayers : held'[r] \subseteq held[r]
  PROVE  IInv'
<1> DEFINE d == Other(c)
           e == End("OPEN", j)
<1>1. d \in Chains /\ d # c /\ Other(d) = c /\ Chains = {c, d}
  BY OtherChain
<1>2. ends[c] \in Seq(ConnectionEnds) /\ ends[d] \in Seq(ConnectionEnds)
  BY <1>1 DEF IInv, EndsTypeOK
<1>3. j \in Nat
  BY <1>2
<1>4. e \in ConnectionEnds /\ e.state = "OPEN" /\ e.counterparty = j
  BY <1>3, EndType
<1> HIDE DEF e
<1>5. ends'[c] = [ends[c] EXCEPT ![i] = e] /\ ends'[d] = ends[d]
  BY <1>1 DEF IInv, EndsTypeOK, e
<1>6. /\ DOMAIN ends'[c] = DOMAIN ends[c]
      /\ \A k \in DOMAIN ends[c] : k # i => ends'[c][k] = ends[c][k]
      /\ ends'[c][i] = e
  BY <1>2, <1>5
<1>7. EndsTypeOK'
  BY <1>1, <1>2, <1>4, <1>5 DEF IInv, EndsTypeOK, e
<1>8. /\ ends[c][i].state \in {"INIT", "TRYOPEN"}
      /\ ends[c][i].state = "TRYOPEN" => ends[c][i].counterparty = j
      /\ ends[c][i].state = "TRYOPEN" => ends[d][j].state = "OPEN"
      /\ ends[d][j].state \in {"TRYOPEN", "OPEN"}
  BY <1>3, EndType
<1>9. ASSUME NEW k \in DOMAIN ends[c]
      PROVE  /\ ends[c][k].state \in {"INIT", "OPEN"} => ends'[c][k].state \in {"INIT", "OPEN"}
             /\ ends[c][k].state \in {"TRYOPEN", "OPEN"}
                  => /\ ends'[c][k].state \in {"TRYOPEN", "OPEN"}
                     /\ ends'[c][k].counterparty = ends[c][k].counterparty
  <2>1. CASE k = i
    <3>1. ends'[c][k] = e /\ ends'[c][k].state = "OPEN" /\ ends'[c][k].counterparty = j
      BY <2>1, <1>4, <1>6, Zenon
    <3>2. ends[c][k].state \in {"TRYOPEN", "OPEN"} => ends[c][k].counterparty = j
      BY <2>1, <1>8, Zenon
    <3> QED BY <3>1, <3>2, Zenon
  <2>2. CASE k # i
    BY <2>2, <1>6, Zenon
  <2> QED BY <2>1, <2>2, Zenon
<1>10. ASSUME NEW k \in DOMAIN ends'[c] PROVE Paired(c, k)'
  <2>1. Paired(c, k)
    BY <1>6, Zenon DEF IInv, EndsPaired, Paired
  <2>2. k \in DOMAIN ends[c] /\ ends'[Other(c)] = ends[Other(c)]
    BY <1>5, <1>6, Zenon
  <2>3. CASE k = i
    BY <2>2, <2>3, <1>4, <1>6, <1>8, ZenonT(30) DEF Paired
  <2>4. CASE k # i
    <3>1. ends'[c][k] = ends[c][k]
      BY <2>2, <2>4, <1>6, Zenon
    <3> QED BY <2>1, <2>2, <3>1, Zenon DEF Paired
  <2> QED BY <2>3, <2>4, ZenonT(30)
<1>11. ASSUME NEW k \in DOMAIN ends'[d] PROVE Paired(d, k)'
  <2>1. Paired(d, k)
    BY <1>1, <1>5, Zenon DEF IInv, EndsPaired, Paired
  <2> DEFINE m == ends[d][k].counterparty
  <2>2. /\ ends'[d][k] = ends[d][k] /\ ends[Other(d)] = ends[c] /\ ends'[Other(d)] = ends'[c]
        /\ DOMAIN ends'[c] = DOMAIN ends[c]
    BY <1>1, <1>5, <1>6, Zenon
  <2>3. m \in DOMAIN ends[c] =>
          /\ ends[c][m].state \in {"INIT", "OPEN"} => ends'[c][m].state \in {"INIT", "OPEN"}
          /\ ends[c][m].state \in {"TRYOPEN", "OPEN"}
               => /\ ends'[c][m].state \in {"TRYOPEN", "OPEN"}
                  /\ ends'[c][m].counterparty = ends[c][m].counterparty
    BY <1>9, Zenon
  <2> HIDE DEF d
  <2> QED BY <2>1, <2>2, <2>3, Zenon DEF Paired
<1>12. ASSUME NEW r \in Relayers, NEW q \in held'[r] PROVE StillFits(q)'
  <2>1. StillFits(q) /\ q \in Queries
    BY DEF IInv, HeldOK, EndsTypeOK
  <2>2. CASE q.chain = c
    <3>1. ends'[q.chain] = ends'[c] /\ ends'[Other(q.chain)] = ends[Other(q.chain)]
      BY <2>2, <1>5, Zenon
    <3>2. q.id \in DOMAIN ends'[q.chain]
      BY <2>1, <2>2, <1>6, ZenonT(30) DEF StillFits
    <3>3. CASE q.id = i
      BY <2>1, <2>2, <3>1, <3>2, <3>3, <1>4, <1>6, <1>8 DEF StillFits
    <3>4. CASE q.id # i
      <4>1. ends'[q.chain][q.id] = ends[q.chain][q.id]
        BY <2>1, <2>2, <3>4, <1>6, ZenonT(30) DEF StillFits
      <4> QED BY <2>1, <3>1, <3>2, <4>1, Zenon DEF StillFits
    <3> QED BY <3>3, <3>4
  <2>3. CASE q.chain = d
    <3>1. /\ ends'[q.chain] = ends[q.chain] /\ Other(q.chain) = c
          /\ DOMAIN ends'[c] = DOMAIN ends[c]
      BY <2>3, <1>1, <1>5, <1>6, Zenon
    <3> QED BY <2>1, <3>1, <1>9, Zenon DEF StillFits
  <2> QED BY <2>1, <2>2, <2>3, <1>1 DEF Queries
<1> QED BY <1>7, <1>10, <1>11, <1>12, BothChains

\* A message that a chain executes or rejects keeps the invariant.
LEMMA SendMsgsKeeps ==
  ASSUME IInv, NEW r \in Relayers, SendMsgs(r)
  PROVE  IInv'
<1>1. PICK q \in held[r] : \E h \in q.height .. Len(log[q.chain]) :
        \/ ConnOpenTry(Other(q.chain), h, q)
        \/ ConnOpenAck(Other(q.chain), h, q)
        \/ ConnOpenConfirm(Other(q.chain), h, q)
        \/ Rejected(Other(q.chain), h, q)
  BY DEF SendMsgs
<1>2. PICK h \in q.height .. Len(log[q.chain]) :
        \/ ConnOpenTry(Other(q.chain), h, q)
        \/ ConnOpenAck(Other(q.chain), h, q)
        \/ ConnOpenConfirm(Other(q.chain), h, q)
        \/ Rejected(Other(q.chain), h, q)
  BY <1>1
<1> DEFINE d == q.chain
           c == Other(d)
<1>3. q \in Queries /\ StillFits(q)
  BY DEF IInv, EndsTypeOK, HeldOK
<1>4. d \in Chains /\ q.id \in Nat /\ q.own \in Nat
  BY <1>3 DEF Queries
<1>5. c \in Chains /\ Other(c) = d
  BY <1>4, OtherChain
<1>6. /\ held' \in [Relayers -> SUBSET Queries]
      /\ \A s \in Relayers : held'[s] \subseteq held[s]
  BY Zenon DEF SendMsgs, IInv, EndsTypeOK
<1>7. /\ \A x \in Chains : ends[x] \in Seq(ConnectionEnds)
      /\ \A x \in Chains : \A i \in DOMAIN ends[x] : Paired(x, i)
  BY Zenon DEF IInv, EndsTypeOK, EndsPaired, Paired
<1>8. CASE ConnOpenTry(c, h, q)
  <2> DEFINE e == End("TRYOPEN", q.id)
  <2>1. q.end = End("INIT", NoConnection)
    BY <1>8 DEF ConnOpenTry, CanTry, VerifyConnectionState
  <2>2. q.end.state = "INIT"
    BY <2>1 DEF End
  <2>3. q.id \in DOMAIN ends[d] /\ ends[d][q.id].state \in {"INIT", "OPEN"}
    BY <2>2, <1>3 DEF StillFits
  <2>4. e \in ConnectionEnds /\ e.state = "TRYOPEN" /\ e.counterparty = q.id
    BY <1>4, EndType
  <2>5. ends' = [ends EXCEPT ![c] = Append(@, e)]
    BY <1>8 DEF ConnOpenTry
  <2> HIDE DEF c, d, e
  <2> QED BY <2>3, <2>4, <2>5, <1>5, <1>6, NewEnd, Zenon
<1>9. CASE ConnOpenAck(c, h, q)
  <2>1. /\ q.end = End("TRYOPEN", q.own)
        /\ q.own \in DOMAIN ends[c]
        /\ ends[c][q.own].state \in {"INIT", "TRYOPEN"}
        /\ ends' = [ends EXCEPT ![c][q.own] = End("OPEN", q.id)]
    BY <1>9 DEF ConnOpenAck, CanAck, VerifyConnectionState
  <2>2. q.end.state = "TRYOPEN" /\ q.end.counterparty = q.own
    BY <2>1 DEF End
  <2>3. /\ q.id \in DOMAIN ends[d]
        /\ ends[d][q.id].counterparty = q.own
        /\ ends[d][q.id].state \in {"TRYOPEN", "OPEN"}
        /\ ends[c][q.own].state = "INIT"
    BY <2>1, <2>2, <1>3, Zenon DEF StillFits
  <2>4. ends[d][q.id].state = "TRYOPEN"
    BY <2>3, <1>4, <1>7, Zenon DEF Paired
  <2> HIDE DEF c, d
  <2> QED BY <2>1, <2>3, <2>4, <1>5, <1>6, OpenedEnd, Zenon
<1>10. CASE ConnOpenConfirm(c, h, q)
  <2>1. /\ q.end = End("OPEN", q.own)
        /\ q.own \in DOMAIN ends[c]
        /\ ends[c][q.own].state = "TRYOPEN"
        /\ ends[c][q.own].counterparty = q.id
        /\ ends' = [ends EXCEPT ![c][q.own].state = "OPEN"]
    BY <1>10 DEF ConnOpenConfirm, CanConfirm, VerifyConnectionState
  <2>2. q.end.state = "OPEN" /\ q.end.counterparty = q.own
    BY <2>1 DEF End
  <2>3. /\ q.id \in DOMAIN ends[d]
        /\ ends[d][q.id].counterparty = q.own
        /\ ends[d][q.id].state = "OPEN"
    BY <2>2, <1>3 DEF StillFits
  <2>4. ends[c][q.own] \in ConnectionEnds
    BY <2>1, <1>5, <1>7
  <2>5. /\ ends[c][q.own] = End("TRYOPEN", q.id)
        /\ [ends[c][q.own] EXCEPT !.state = "OPEN"] = End("OPEN", q.id)
    BY <2>1, <2>4 DEF End, ConnectionEnds
  <2>6. ends' = [ends EXCEPT ![c][q.own] = End("OPEN", q.id)]
    BY <2>1, <2>5, Zenon
  <2> HIDE DEF c, d
  <2> QED BY <2>1, <2>3, <2>5, <2>6, <1>5, <1>6, OpenedEnd, Zenon
<1>11. CASE Rejected(c, h, q)
  <2>1. ends' = ends
    BY <1>11 DEF Rejected
  <2> QED BY <2>1, <1>6, ZenonT(60) DEF IInv, EndsTypeOK, EndsPaired, HeldOK, StillFits
<1> QED BY <1>2, <1>8, <1>9, <1>10, <1>11

\* A query result says what the chain has.
LEMMA QueryKeeps ==
  ASSUME IInv, NEW r \in Relayers, NEW c \in Chains, NEW id \in Nat, NEW own \in Nat,
         EndsTypeOK', QueryConnectionWithProof(r, c, id, own)
  PROVE  IInv'
<1>1. id \in DOMAIN ends[c] /\ ends' = ends
  BY DEF QueryConnectionWithProof
<1>2. EndsPaired'
  BY <1>1, Zenon DEF IInv, EndsPaired
<1>3. ASSUME NEW s \in Relayers, NEW q \in held'[s] PROVE StillFits(q)'
  <2>1. CASE q \in held[s]
    BY <2>1, <1>1, Zenon DEF IInv, HeldOK, StillFits
  <2>2. CASE q \notin held[s]
    <3>1. q.chain = c /\ q.id = id /\ q.end = ends[c][id]
      BY <2>2 DEF QueryConnectionWithProof, IInv, EndsTypeOK
    <3>2. Paired(c, id)
      BY <1>1, Zenon DEF IInv, EndsPaired, Paired
    <3> QED BY <3>1, <3>2, <1>1, Zenon DEF StillFits, Paired
  <2> QED BY <2>1, <2>2, Zenon
<1> QED BY <1>2, <1>3 DEF IInv, HeldOK

\* The steps of the chains and the clients leave ends and query results alone.
LEMMA NothingChanged ==
  ASSUME IInv, ends' = ends, held' = held
  PROVE  IInv'
<1>1. EndsTypeOK' /\ EndsPaired'
  BY ZenonT(30) DEF IInv, EndsTypeOK, EndsPaired
<1>2. HeldOK'
  BY Zenon DEF IInv, HeldOK, StillFits
<1> QED BY <1>1, <1>2, Zenon DEF IInv

\* Initially there are no ends and no query results.
LEMMA InitInv == Init => TypeOK /\ IInv
<1> SUFFICES ASSUME Init PROVE TypeOK /\ IInv
  OBVIOUS
<1>1. log \in [Chains -> Seq(Times)]
  <2>1. \A tm \in Times : << tm >> \in Seq(Times)
    OBVIOUS
  <2>2. \A c \in Chains : log[c] \in Seq(Times)
    BY <2>1, Zenon DEF Init
  <2> QED BY <2>2 DEF Init
<1>2. client \in [Chains -> Seq(Times)]
  BY <1>1, OtherChain DEF Init
<1>3. ends = [c \in Chains |-> << >>] /\ held = [r \in Relayers |-> {}]
  BY DEF Init
<1>4. EndsTypeOK
  BY <1>3 DEF EndsTypeOK
<1>5. EndsPaired /\ HeldOK
  BY <1>3, OtherChain DEF EndsPaired, HeldOK
<1> QED BY <1>1, <1>2, <1>4, <1>5 DEF TypeOK, IInv, EndsTypeOK

\* The logs, the clients and the query results keep their types.
LEMMA NextType ==
  ASSUME TypeOK, IInv, [Next]_vars
  PROVE  /\ log' \in [Chains -> Seq(Times)]
         /\ client' \in [Chains -> Seq(Times)]
         /\ held' \in [Relayers -> SUBSET Queries]
<1>1. CASE \E c \in Chains, tm \in Times : UpdateSequence(c, tm)
  BY <1>1 DEF UpdateSequence, TypeOK
<1>2. ASSUME NEW c \in Chains, UpdateClient(c)
      PROVE  client' \in [Chains -> Seq(Times)]
  <2>1. client[c] \in Seq(Times) /\ log[Other(c)] \in Seq(Times)
    BY OtherChain DEF TypeOK
  <2>2. log[Other(c)][Len(client[c]) + 1] \in Times
    BY <1>2, <2>1 DEF UpdateClient
  <2> QED BY <1>2, <2>1, <2>2 DEF UpdateClient, TypeOK
<1>3. ASSUME NEW r \in Relayers, NEW c \in Chains, NEW id \in Ids, NEW own \in Ids,
             QueryConnectionWithProof(r, c, id, own)
      PROVE  held' \in [Relayers -> SUBSET Queries]
  <2>1. PICK h \in DOMAIN client[c] :
          held' = [held EXCEPT ![r] =
            {[chain |-> c, id |-> id, end |-> ends[c][id], own |-> own,
              height |-> Len(log[c]), consensusHeight |-> h,
              consensusState |-> client[c][h]]}]
    BY <1>3, Zenon DEF QueryConnectionWithProof
  <2>2. client[c] \in Seq(Times) /\ log[c] \in Seq(Times) /\ ends[c] \in Seq(ConnectionEnds)
    BY DEF TypeOK
  <2>3. /\ id \in Nat /\ own \in Nat /\ h \in Nat
        /\ Len(log[c]) \in Nat
        /\ client[c][h] \in Nat
        /\ ends[c][id] \in ConnectionEnds
    <3>1. id \in DOMAIN ends[c]
      BY <1>3 DEF QueryConnectionWithProof
    <3>2. id \in Nat /\ own \in Nat
      BY IdsType
    <3>3. ends[c][id] \in ConnectionEnds
      BY <3>1, <2>2
    <3>4. h \in Nat /\ client[c][h] \in Times
      BY <2>2
    <3>5. Len(log[c]) \in Nat
      BY <2>2
    <3> QED BY <3>2, <3>3, <3>4, <3>5, TimesAssumption, Zenon
  <2>4. [chain |-> c, id |-> id, end |-> ends[c][id], own |-> own,
         height |-> Len(log[c]), consensusHeight |-> h,
         consensusState |-> client[c][h]] \in Queries
    BY <2>3 DEF Queries
  <2> QED BY <2>1, <2>4 DEF TypeOK
<1>4. ASSUME NEW r \in Relayers, SendMsgs(r)
      PROVE  held' \in [Relayers -> SUBSET Queries]
  BY <1>4 DEF SendMsgs, TypeOK
<1>5. CASE UNCHANGED vars
  BY <1>5 DEF vars, TypeOK
<1> QED BY <1>1, <1>2, <1>3, <1>4, <1>5, Zenon
        DEF Next, TypeOK, UpdateClient, ConnOpenInit, QueryConnectionWithProof, SendMsgs

\* Every step keeps the invariant.
LEMMA NextInv == TypeOK /\ IInv /\ [Next]_vars => TypeOK' /\ IInv'
<1> SUFFICES ASSUME TypeOK, IInv, [Next]_vars PROVE TypeOK' /\ IInv'
  OBVIOUS
<1>1. /\ log' \in [Chains -> Seq(Times)]
      /\ client' \in [Chains -> Seq(Times)]
      /\ held' \in [Relayers -> SUBSET Queries]
  BY NextType
<1>2. ASSUME NEW c \in Chains, NEW tm \in Times, UpdateSequence(c, tm) PROVE IInv'
  BY <1>2, NothingChanged DEF UpdateSequence
<1>3. ASSUME NEW c \in Chains, UpdateClient(c) PROVE IInv'
  BY <1>3, NothingChanged DEF UpdateClient
<1>4. ASSUME NEW c \in Chains, ConnOpenInit(c) PROVE IInv'
  <2> DEFINE e == End("INIT", NoConnection)
  <2>1. e \in ConnectionEnds /\ e.state = "INIT"
    BY EndType DEF NoConnection
  <2>2. ends' = [ends EXCEPT ![c] = Append(@, e)] /\ held' = held
    BY <1>4 DEF ConnOpenInit
  <2> HIDE DEF e
  <2> QED BY <1>1, <2>1, <2>2, NewEnd, Zenon
<1>5. ASSUME NEW r \in Relayers, NEW c \in Chains, NEW id \in Ids, NEW own \in Ids,
             QueryConnectionWithProof(r, c, id, own)
      PROVE  IInv'
  <2>1. EndsTypeOK'
    BY <1>1, <1>5 DEF QueryConnectionWithProof, IInv, EndsTypeOK
  <2>2. id \in Nat /\ own \in Nat
    BY IdsType
  <2> QED BY <1>5, <2>1, <2>2, QueryKeeps
<1>6. ASSUME NEW r \in Relayers, SendMsgs(r) PROVE IInv'
  BY <1>6, SendMsgsKeeps
<1>7. ASSUME UNCHANGED vars PROVE IInv'
  BY <1>7, NothingChanged DEF vars
<1>8. IInv'
  BY <1>2, <1>3, <1>4, <1>5, <1>6, <1>7 DEF Next
<1> QED BY <1>1, <1>8 DEF TypeOK, IInv, EndsTypeOK

\* Whatever the relayers do, the state has its types and the inductive invariant
\* holds (ConnOpenInit, ConnOpenTry, ConnOpenAck, ConnOpenConfirm).
THEOREM Invariance == Spec => [](TypeOK /\ IInv)
<1>1. Init => TypeOK /\ IInv
  BY InitInv
<1>2. TypeOK /\ IInv /\ [Next]_vars => (TypeOK /\ IInv)'
  BY NextInv
<1> QED BY <1>1, <1>2, PTL DEF Spec

\* Open ends are paired one to one, for any number of relayers, ends, sequences
\* and repeated answers: the proofs of VerifyConnectionState are enough, although
\* an endorsement of EndorseConnectionState says nothing about its height.
THEOREM EndsArePaired == Spec => []EndsPaired
<1>1. TypeOK /\ IInv => EndsPaired
  BY DEF IInv
<1> QED BY <1>1, Invariance, PTL
==============================================================================
