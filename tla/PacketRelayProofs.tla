-------------------------- MODULE PacketRelayProofs --------------------------
(***************************************************************************)
(* Relaying implements PacketTransfer, SendMsgs always has a contract, and *)
(* the first pages bound what is relayed: for any number of relayers,      *)
(* packets and faults, any page limit and any base of numbers in keys.     *)
(*                                                                         *)
(* The refinement needs what the relayers and the transactions in flight   *)
(* carry: packets only after they were sent, acknowledgements only of      *)
(* packets that were received, whatever has happened since.  The bounds    *)
(* need that what is carried leaves no gap: of the packets sent before one *)
(* that is carried, those with a smaller key are carried along or have     *)
(* been received.                                                          *)
(***************************************************************************)
EXTENDS PacketRelay, FiniteSetTheorems, TLAPS

\* The time in seconds that a backend may take over a step.
USE SMTT(30), ZenonT(30)


\* What can be relayed at a stage.
Known(stage) == IF stage = "packets" THEN 1 .. sent ELSE received

CountsOK ==
  \A n \in Packets :
    /\ delivered[n] \in {0, 1} /\ settled[n] \in {0, 1}
    /\ n \in open <=> n <= sent /\ settled[n] = 0
    /\ settled[n] = 1 => delivered[n] = 1
    /\ delivered[n] = 1 => n <= sent

CarriedOK ==
  /\ \A r \in Relayers :
       relayer[r].todo \cup relayer[r].msgs \subseteq Known(relayer[r].stage)
  /\ \A tx \in inFlight : tx.msgs \subseteq Known(tx.stage)

IInv == TypeOK /\ CountsOK /\ CarriedOK /\ ContractAtHand

States ==
  [stage : {"packets", "acks"}, phase : {"list", "filter", "fetch", "wait"},
   todo : SUBSET Packets, msgs : SUBSET Packets]

USE BoundsAssumption

\* What the types say of a relayer.
LEMMA RelayerType ==
  ASSUME TypeOK, NEW r \in Relayers
  PROVE  relayer[r] \in States
BY DEF TypeOK, States

\* A relayer starts a round, or the second half of one, with nothing collected.
LEMMA StartType ==
  ASSUME NEW stage \in {"packets", "acks"}
  PROVE  /\ Start(stage) \in States /\ AfterStage(stage) \in States
         /\ Start(stage).todo = {} /\ Start(stage).msgs = {} /\ Start(stage).phase = "list"
         /\ AfterStage(stage).todo = {} /\ AfterStage(stage).msgs = {}
         /\ AfterStage(stage).phase = "list"
BY DEF Start, AfterStage, States

\* A step of relayer r that leaves the chains alone keeps the invariant if what
\* r collects is known and its contract is at hand.
LEMMA RelayerStep ==
  ASSUME IInv, NEW r \in Relayers, NEW x \in States,
         relayer' = [relayer EXCEPT ![r] = x],
         NEW S \in SUBSET {"src", "dst"}, connected' = [connected EXCEPT ![r] = S],
         x.phase \in {"fetch", "wait"} => To(x.stage) \in S,
         x.todo \cup x.msgs \subseteq Known(x.stage),
         inFlight' \subseteq Txs, \A tx \in inFlight' : tx.msgs \subseteq Known(tx.stage),
         UNCHANGED chainVars, faults' \in 0 .. MaxFaults
  PROVE  IInv'
<1>1. UNCHANGED << sent, open, delivered, settled >>
  BY DEF chainVars
<1>2. relayer'[r] = x /\ connected'[r] = S
  BY DEF IInv, TypeOK
<1>3. \A q \in Relayers : q # r => relayer'[q] = relayer[q] /\ connected'[q] = connected[q]
  BY DEF IInv, TypeOK
<1>4. TypeOK'
  BY <1>1 DEF IInv, TypeOK, States
<1>5. CountsOK'
  BY <1>1 DEF IInv, CountsOK
<1>6. received' = received /\ \A stage : Known(stage)' = Known(stage)
  BY <1>1 DEF received, Known
<1>7. CarriedOK'
  BY <1>2, <1>3, <1>6 DEF IInv, CarriedOK
<1>8. ContractAtHand'
  BY <1>2, <1>3 DEF IInv, ContractAtHand
<1>. QED  BY <1>4, <1>5, <1>7, <1>8 DEF IInv

\* What a relayer has connected to, before and after a call of Contract.
LEMMA ContractSet ==
  ASSUME IInv, NEW r \in Relayers, NEW stage \in {"packets", "acks"}
  PROVE  /\ connected[r] \in SUBSET {"src", "dst"}
         /\ connected[r] \cup {From(stage)} \in SUBSET {"src", "dst"}
         /\ connected[r] \cup {To(stage)} \in SUBSET {"src", "dst"}
BY DEF IInv, TypeOK, From, To

\* The transactions in flight, and the number of faults, as they are.
LEMMA InFlightKnown ==
  ASSUME IInv
  PROVE  /\ inFlight \subseteq Txs /\ \A tx \in inFlight : tx.msgs \subseteq Known(tx.stage)
         /\ faults \in 0 .. MaxFaults
BY DEF IInv, TypeOK, CarriedOK

\* What List collects is known, and its contract is connected.
LEMMA ListKeeps ==
  ASSUME IInv, NEW r \in Relayers, List(r)
  PROVE  IInv'
<1>. DEFINE x == relayer[r]
            page == IF x.stage = "packets" THEN QueryPacketCommitments
                    ELSE QueryPacketAcknowledgementCommitments
            y == [x EXCEPT !.phase = "filter", !.todo = page]
<1>1. x \in States
  BY RelayerType DEF IInv
<1>2. x.stage \in {"packets", "acks"}
  BY <1>1 DEF States
<1>3. page \subseteq Known(x.stage) /\ page \subseteq Packets
  <2>1. \A n \in open : n \in Packets /\ n \in 1 .. sent
    BY DEF IInv, TypeOK, CountsOK, Packets
  <2>2. received \subseteq Packets
    BY DEF received
  <2>3. QueryPacketCommitments \subseteq open
    BY DEF QueryPacketCommitments, Page
  <2>4. QueryPacketAcknowledgementCommitments \subseteq received
    BY DEF QueryPacketAcknowledgementCommitments, Page
  <2>. QED  BY <1>2, <2>1, <2>2, <2>3, <2>4 DEF Known
<1>4. /\ relayer' = [relayer EXCEPT ![r] = y]
      /\ connected' = [connected EXCEPT ![r] = connected[r] \cup {From(x.stage)}]
      /\ UNCHANGED chainVars /\ inFlight' = inFlight /\ faults' = faults
  BY DEF List, Become, Contract
<1>. HIDE DEF page
<1>5. /\ y \in States /\ y.phase = "filter" /\ y.stage = x.stage
      /\ y.todo = page /\ y.msgs = x.msgs
  BY <1>1, <1>3, Zenon DEF States
<1>6. x.msgs \subseteq Known(x.stage)
  BY DEF IInv, CarriedOK
<1>. HIDE DEF x, y
<1>7. y.todo \cup y.msgs \subseteq Known(y.stage)
  BY <1>3, <1>5, <1>6
<1>8. connected[r] \cup {From(x.stage)} \in SUBSET {"src", "dst"}
  BY <1>2, ContractSet
<1>. QED  BY <1>4, <1>5, <1>7, <1>8, InFlightKnown, RelayerStep, Zenon

\* Filter keeps some of what was listed.
LEMMA FilterKeeps ==
  ASSUME IInv, NEW r \in Relayers, Filter(r)
  PROVE  IInv'
<1>. DEFINE x == relayer[r]
            rest == IF x.stage = "packets" THEN QueryUnrecievedPackets(x.todo)
                    ELSE QueryUnrecievedAcknowledgements(x.todo)
            z == [x EXCEPT !.phase = "fetch", !.todo = rest]
            y == IF rest = {} THEN AfterStage(x.stage) ELSE z
<1>1. x \in States /\ x.stage \in {"packets", "acks"}
  <2>1. x \in States
    BY RelayerType DEF IInv
  <2>. QED  BY <2>1 DEF States
<1>2. x.todo \subseteq Known(x.stage) /\ x.msgs \subseteq Known(x.stage)
  BY DEF IInv, CarriedOK
<1>3. rest \subseteq x.todo
  BY DEF QueryUnrecievedPackets, QueryUnrecievedAcknowledgements
<1>4. /\ relayer' = [relayer EXCEPT ![r] = y]
      /\ connected' = [connected EXCEPT ![r] = connected[r] \cup {To(x.stage)}]
      /\ UNCHANGED chainVars /\ inFlight' = inFlight /\ faults' = faults
  BY DEF Filter, Become, Contract
<1>. HIDE DEF rest
<1>5. z \in States /\ z.todo = rest /\ z.msgs = x.msgs /\ z.stage = x.stage
  BY <1>1, <1>3, Zenon DEF States
<1>. HIDE DEF x, z
<1>6. /\ y \in States
      /\ y.todo \cup y.msgs \subseteq Known(y.stage)
      /\ y.phase \in {"fetch", "wait"} => y.stage = x.stage
  BY <1>1, <1>2, <1>3, <1>5, StartType
<1>. HIDE DEF y
<1>7. connected[r] \cup {To(x.stage)} \in SUBSET {"src", "dst"}
  BY <1>1, ContractSet
<1>8. y.phase \in {"fetch", "wait"} => To(y.stage) \in connected[r] \cup {To(x.stage)}
  BY <1>6
<1>. QED  BY <1>4, <1>6, <1>7, <1>8, InFlightKnown, RelayerStep, Zenon

\* Fetch turns what is to do into messages, or starts again.
LEMMA FetchKeeps ==
  ASSUME IInv, NEW r \in Relayers, Fetch(r)
  PROVE  IInv'
<1>. DEFINE x == relayer[r]
<1>1. x \in States /\ x.stage \in {"packets", "acks"}
  <2>1. x \in States
    BY RelayerType DEF IInv
  <2>. QED  BY <2>1 DEF States
<1>2. PICK n \in x.todo :
        relayer' = [relayer EXCEPT ![r] =
                      IF x.stage = "packets" /\ n \notin open THEN Start("packets")
                      ELSE [x EXCEPT !.todo = @ \ {n}, !.msgs = @ \cup {n}]]
  BY Zenon DEF Fetch, Become
<1>. DEFINE z == [x EXCEPT !.todo = @ \ {n}, !.msgs = @ \cup {n}]
            y == IF x.stage = "packets" /\ n \notin open THEN Start("packets") ELSE z
<1>3. x.todo \subseteq Known(x.stage) /\ x.msgs \subseteq Known(x.stage)
  BY DEF IInv, CarriedOK
<1>4. /\ x.phase = "fetch"
      /\ connected' = [connected EXCEPT ![r] = connected[r] \cup {From(x.stage)}]
      /\ UNCHANGED chainVars /\ inFlight' = inFlight /\ faults' = faults
  BY DEF Fetch, Contract
<1>5. To(x.stage) \in connected[r]
  BY <1>4 DEF IInv, ContractAtHand
<1>6. /\ z \in States /\ z.todo = x.todo \ {n} /\ z.msgs = x.msgs \cup {n}
      /\ z.stage = x.stage
  BY <1>1, <1>2, Zenon DEF States
<1>7. relayer' = [relayer EXCEPT ![r] = y]
  BY <1>2
<1>. HIDE DEF x, z
<1>8. /\ y \in States
      /\ y.todo \cup y.msgs \subseteq Known(y.stage)
      /\ y.phase \in {"fetch", "wait"} => y.stage = x.stage
  BY <1>1, <1>2, <1>3, <1>6, StartType
<1>. HIDE DEF y
<1>9. connected[r] \cup {From(x.stage)} \in SUBSET {"src", "dst"}
  BY <1>1, ContractSet
<1>10. y.phase \in {"fetch", "wait"} => To(y.stage) \in connected[r] \cup {From(x.stage)}
  BY <1>5, <1>8
<1>. QED  BY <1>4, <1>7, <1>8, <1>9, <1>10, InFlightKnown, RelayerStep, Zenon

\* SendMsgs puts the messages into a transaction in flight, or starts again.
LEMMA SendMsgsKeeps ==
  ASSUME IInv, NEW r \in Relayers, SendMsgs(r)
  PROVE  IInv'
<1>. DEFINE x == relayer[r]
            tx == [by |-> r, stage |-> x.stage, msgs |-> x.msgs]
            z == [x EXCEPT !.phase = "wait"]
<1>1. x \in States /\ x.stage \in {"packets", "acks"} /\ x.msgs \in SUBSET Packets
  <2>1. x \in States
    BY RelayerType DEF IInv
  <2>. QED  BY <2>1 DEF States
<1>2. x.todo \cup x.msgs \subseteq Known(x.stage)
  BY DEF IInv, CarriedOK
<1>3. /\ To(x.stage) \in connected[r] /\ connected' = connected
      /\ UNCHANGED chainVars /\ faults' = faults
      /\ \/ inFlight' = inFlight \cup {tx} /\ relayer' = [relayer EXCEPT ![r] = z]
         \/ inFlight' = inFlight /\ relayer' = [relayer EXCEPT ![r] = Start("packets")]
  BY DEF SendMsgs, Become
<1>4. tx \in Txs /\ tx.stage = x.stage /\ tx.msgs = x.msgs
  BY <1>1 DEF Txs
<1>5. z \in States /\ z.todo = x.todo /\ z.msgs = x.msgs /\ z.stage = x.stage
  BY <1>1 DEF States
<1>. HIDE DEF x, tx, z
<1>6. inFlight' \subseteq Txs /\ \A t \in inFlight' : t.msgs \subseteq Known(t.stage)
  BY <1>2, <1>3, <1>4, InFlightKnown
<1>7. connected[r] \in SUBSET {"src", "dst"} /\ connected' = [connected EXCEPT ![r] = connected[r]]
  BY <1>3 DEF IInv, TypeOK
<1>8. CASE relayer' = [relayer EXCEPT ![r] = z]
  <2>1. z.todo \cup z.msgs \subseteq Known(z.stage) /\ To(z.stage) \in connected[r]
    BY <1>2, <1>3, <1>5
  <2>. QED  BY <1>3, <1>5, <1>6, <1>7, <1>8, <2>1, InFlightKnown, RelayerStep, Zenon
<1>9. CASE relayer' = [relayer EXCEPT ![r] = Start("packets")]
  <2>. DEFINE y == Start("packets")
  <2>1. y \in States /\ y.todo = {} /\ y.msgs = {} /\ y.phase = "list"
    BY StartType
  <2>. HIDE DEF y
  <2>2. relayer' = [relayer EXCEPT ![r] = y] /\ y.todo \cup y.msgs \subseteq Known(y.stage)
    BY <1>9, <2>1 DEF y
  <2>. QED  BY <1>3, <1>6, <1>7, <2>1, <2>2, InFlightKnown, RelayerStep, Zenon
<1>. QED  BY <1>3, <1>8, <1>9

\* A relayer that starts again, with its connections or without.
LEMMA StartsAgain ==
  ASSUME IInv, NEW r \in Relayers, Timeout(r) \/ Restart(r)
  PROVE  IInv'
<1>. DEFINE y == Start("packets")
<1>1. y \in States /\ y.todo = {} /\ y.msgs = {} /\ y.phase = "list"
  BY StartType
<1>2. /\ relayer' = [relayer EXCEPT ![r] = y]
      /\ UNCHANGED chainVars /\ inFlight' = inFlight
      /\ faults < MaxFaults /\ faults' = faults + 1
      /\ connected' = connected \/ connected' = [connected EXCEPT ![r] = {}]
  BY DEF Timeout, Restart, Become, Fault
<1>. HIDE DEF y
<1>3. PICK S \in SUBSET {"src", "dst"} : connected' = [connected EXCEPT ![r] = S]
  <2>1. connected[r] \in SUBSET {"src", "dst"} /\ connected = [connected EXCEPT ![r] = connected[r]]
    BY DEF IInv, TypeOK
  <2>. QED  BY <1>2, <2>1
<1>4. faults' \in 0 .. MaxFaults
  BY <1>2, InFlightKnown
<1>5. y.todo \cup y.msgs \subseteq Known(y.stage)
  BY <1>1
<1>. QED  BY <1>1, <1>2, <1>3, <1>4, <1>5, InFlightKnown, RelayerStep, Zenon

\* The relayer that learns of the outcome of its transaction starts a stage.
LEMMA OutcomeKeeps ==
  ASSUME IInv, NEW tx \in Txs, NEW y \in States, y.todo = {}, y.msgs = {},
         y.phase = "list", Outcome(tx, y), connected' = connected
  PROVE  /\ relayer' \in [Relayers -> States]
         /\ ContractAtHand'
         /\ \A r \in Relayers :
              relayer'[r].todo \cup relayer'[r].msgs \subseteq Known(relayer'[r].stage)
<1>1. tx.by \in Relayers
  BY DEF Txs
<1>2. relayer \in [Relayers -> States]
  BY DEF IInv, TypeOK, States
<1>3. relayer' = relayer \/ relayer' = [relayer EXCEPT ![tx.by] = y]
  BY DEF Outcome
<1>4. \A r \in Relayers : relayer'[r] = relayer[r] \/ relayer'[r] = y
  BY <1>1, <1>2, <1>3
<1>5. relayer' \in [Relayers -> States]
  BY <1>1, <1>2, <1>3
<1>6. \A r \in Relayers :
        relayer'[r].todo \cup relayer'[r].msgs \subseteq Known(relayer'[r].stage)
  BY <1>4 DEF IInv, CarriedOK
<1>7. ContractAtHand'
  BY <1>4 DEF IInv, ContractAtHand
<1>. QED  BY <1>5, <1>6, <1>7

\* A transaction without effect.
LEMMA DropKeeps ==
  ASSUME IInv, NEW tx \in inFlight, Invalidate(tx) \/ Lose(tx)
  PROVE  IInv'
<1>1. tx \in Txs /\ tx.stage \in {"packets", "acks"}
  BY DEF IInv, TypeOK, Txs
<1>2. /\ inFlight' = inFlight \ {tx} /\ Outcome(tx, Start("packets"))
      /\ UNCHANGED << sent, open, delivered, settled >> /\ connected' = connected
      /\ faults' \in 0 .. MaxFaults
  BY DEF Invalidate, Lose, Drop, Fault, chainVars, IInv, TypeOK
<1>3. /\ relayer' \in [Relayers -> States] /\ ContractAtHand'
      /\ \A r \in Relayers :
           relayer'[r].todo \cup relayer'[r].msgs \subseteq Known(relayer'[r].stage)
  BY <1>1, <1>2, StartType, OutcomeKeeps, Zenon
<1>4. TypeOK'
  BY <1>2, <1>3 DEF IInv, TypeOK, States
<1>5. CountsOK'
  BY <1>2 DEF IInv, CountsOK
<1>6. \A stage : Known(stage)' = Known(stage)
  BY <1>2 DEF Known, received
<1>7. CarriedOK'
  BY <1>2, <1>3, <1>6 DEF IInv, CarriedOK
<1>. QED  BY <1>3, <1>4, <1>5, <1>7 DEF IInv

\* A packet is sent with the next number.
LEMMA SendPacketKeeps ==
  ASSUME IInv, SendPacket
  PROVE  IInv'
<1>1. /\ sent < MaxPackets /\ sent' = sent + 1 /\ open' = open \cup {sent + 1}
      /\ UNCHANGED << delivered, settled, relayer, connected, inFlight, faults >>
  BY DEF SendPacket
<1>2. sent \in Nat /\ sent + 1 \in Packets
  BY <1>1 DEF IInv, TypeOK, Packets
<1>3. TypeOK'
  BY <1>1, <1>2 DEF IInv, TypeOK
<1>4. settled[sent + 1] = 0
  BY <1>2 DEF IInv, CountsOK
<1>5. CountsOK'
  <2>. SUFFICES ASSUME NEW n \in Packets
                PROVE  /\ delivered[n] \in {0, 1} /\ settled[n] \in {0, 1}
                       /\ n \in open' <=> n <= sent + 1 /\ settled[n] = 0
                       /\ settled[n] = 1 => delivered[n] = 1
                       /\ delivered[n] = 1 => n <= sent + 1
    BY <1>1 DEF CountsOK
  <2>1. n \in Int
    BY DEF Packets
  <2>. QED  BY <1>1, <1>2, <1>4, <2>1 DEF IInv, CountsOK
<1>6. \A stage : Known(stage) \subseteq Known(stage)'
  BY <1>1, <1>2 DEF Known, received
<1>7. CarriedOK'
  BY <1>1, <1>6 DEF IInv, CarriedOK
<1>8. ContractAtHand'
  BY <1>1 DEF IInv, ContractAtHand
<1>. QED  BY <1>3, <1>5, <1>7, <1>8 DEF IInv

\* What a committed transaction does, and to which packets.
LEMMA CommitEffect ==
  ASSUME IInv, NEW tx \in inFlight, Commit(tx)
  PROVE  /\ tx.msgs \subseteq Packets /\ sent' = sent
         /\ \/ /\ \A n \in tx.msgs : n <= sent /\ delivered[n] = 0 /\ settled[n] = 0
               /\ \A n \in Packets : delivered'[n] = IF n \in tx.msgs THEN 1 ELSE delivered[n]
               /\ UNCHANGED << open, settled >>
            \/ /\ \A n \in tx.msgs : n <= sent /\ delivered[n] = 1 /\ settled[n] = 0
               /\ \A n \in Packets : settled'[n] = IF n \in tx.msgs THEN 1 ELSE settled[n]
               /\ open' = open \ tx.msgs
               /\ UNCHANGED delivered
<1>1. tx.stage \in {"packets", "acks"} /\ tx.msgs \subseteq Packets
  BY DEF IInv, TypeOK, Txs
<1>2. tx.msgs \subseteq Known(tx.stage) /\ Deliverable(tx.stage, tx.msgs) /\ sent' = sent
  BY DEF IInv, CarriedOK, Commit
<1>3. CASE tx.stage = "packets"
  <2>1. \A n \in tx.msgs : n \in 1 .. sent /\ n \in Packets /\ n \notin received
    BY <1>1, <1>2, <1>3 DEF Known, Deliverable
  <2>2. \A n \in tx.msgs : n <= sent /\ delivered[n] = 0 /\ settled[n] = 0
    BY <2>1 DEF received, IInv, CountsOK
  <2>3. /\ delivered' = [n \in Packets |-> IF n \in tx.msgs THEN delivered[n] + 1 ELSE delivered[n]]
        /\ UNCHANGED << open, settled >>
    BY <1>3 DEF Commit, Increment
  <2>. QED  BY <1>1, <1>2, <2>2, <2>3
<1>4. CASE tx.stage = "acks"
  <2>1. \A n \in tx.msgs : n \in received /\ n \in open /\ n \in Packets
    BY <1>1, <1>2, <1>4 DEF Known, Deliverable
  <2>2. \A n \in tx.msgs : n <= sent /\ delivered[n] = 1 /\ settled[n] = 0
    BY <2>1 DEF received, IInv, CountsOK
  <2>3. /\ settled' = [n \in Packets |-> IF n \in tx.msgs THEN settled[n] + 1 ELSE settled[n]]
        /\ open' = open \ tx.msgs /\ UNCHANGED delivered
    BY <1>4 DEF Commit, Increment
  <2>. QED  BY <1>1, <1>2, <2>2, <2>3
<1>. QED  BY <1>1, <1>3, <1>4

\* A transaction that is committed makes more known, and forgets nothing.
LEMMA CommitKeeps ==
  ASSUME IInv, NEW tx \in inFlight, Commit(tx)
  PROVE  IInv'
<1>1. tx \in Txs /\ tx.stage \in {"packets", "acks"}
  BY DEF IInv, TypeOK, Txs
<1>2. /\ inFlight' = inFlight \ {tx} /\ Outcome(tx, AfterStage(tx.stage))
      /\ sent' = sent /\ connected' = connected /\ faults' = faults
  BY DEF Commit
<1>3. /\ relayer' \in [Relayers -> States] /\ ContractAtHand'
      /\ \A r \in Relayers :
           relayer'[r].todo \cup relayer'[r].msgs \subseteq Known(relayer'[r].stage)
  BY <1>1, <1>2, StartType, OutcomeKeeps, Zenon
<1>4. delivered' \in [Packets -> Nat] /\ settled' \in [Packets -> Nat] /\ open' \subseteq Packets
  BY <1>1 DEF Commit, Increment, IInv, TypeOK
<1>5. TypeOK'
  BY <1>2, <1>3, <1>4, Zenon DEF IInv, TypeOK, States
<1>6. CountsOK'
  BY <1>2, CommitEffect DEF IInv, CountsOK
<1>7. \A n \in Packets : delivered[n] > 0 => delivered'[n] > 0
  BY CommitEffect DEF IInv, CountsOK
<1>8. \A stage : Known(stage) \subseteq Known(stage)'
  BY <1>2, <1>7, Zenon DEF Known, received
<1>9. CarriedOK'
  BY <1>2, <1>3, <1>8 DEF IInv, CarriedOK
<1>. QED  BY <1>3, <1>5, <1>6, <1>9, Zenon DEF IInv

\* The invariant is inductive.
LEMMA InitIInv == Init => IInv
<1>. SUFFICES ASSUME Init PROVE IInv
  OBVIOUS
<1>1. \A r \in Relayers :
        /\ relayer[r] \in States /\ relayer[r].phase = "list"
        /\ relayer[r].todo = {} /\ relayer[r].msgs = {}
  BY StartType DEF Init
<1>2. TypeOK
  BY <1>1 DEF Init, TypeOK, States
<1>3. CountsOK
  BY DEF Init, CountsOK, Packets
<1>4. CarriedOK /\ ContractAtHand
  BY <1>1 DEF Init, CarriedOK, ContractAtHand
<1>. QED  BY <1>2, <1>3, <1>4 DEF IInv

\* Every step keeps the invariant.
LEMMA NextIInv == IInv /\ [Next]_vars => IInv'
<1>. SUFFICES ASSUME IInv, [Next]_vars PROVE IInv'
  BY Zenon
<1>1. CASE UNCHANGED vars
  BY <1>1 DEF vars, IInv, TypeOK, CountsOK, CarriedOK, Known, received, ContractAtHand
<1>2. CASE SendPacket
  BY <1>2, SendPacketKeeps
<1>3. ASSUME NEW r \in Relayers, Step(r) PROVE IInv'
  BY <1>3, ListKeeps, FilterKeeps, FetchKeeps, SendMsgsKeeps, Zenon DEF Step
<1>4. ASSUME NEW r \in Relayers, Timeout(r) \/ Restart(r) PROVE IInv'
  BY <1>4, StartsAgain
<1>5. ASSUME NEW tx \in inFlight, Commit(tx) PROVE IInv'
  BY <1>5, CommitKeeps
<1>6. ASSUME NEW tx \in inFlight, Invalidate(tx) \/ Lose(tx) PROVE IInv'
  BY <1>6, DropKeeps
<1>. QED  BY <1>1, <1>2, <1>3, <1>4, <1>5, <1>6, Zenon DEF Next, Order

\* Every reachable state satisfies the inductive invariant.
THEOREM Invariance == Spec => []IInv
BY InitIInv, NextIInv, PTL DEF Spec

\* SendMsgs never runs without a contract (Contract, SendMsgs).
THEOREM ContractThere == Spec => []ContractAtHand
<1>1. IInv => ContractAtHand
  BY DEF IInv
<1>. QED  BY <1>1, Invariance, PTL
------------------------------------------------------------------------------
(* The refinement *)

\* How far a packet has come, by its two counts.
LEMMA StatusOf ==
  ASSUME IInv
  PROVE  /\ Status = [n \in Packets |-> Status[n]]
         /\ \A n \in Packets :
              /\ n > sent => Status[n] = "unsent"
              /\ n <= sent /\ delivered[n] = 0 /\ settled[n] = 0 => Status[n] = "sent"
              /\ n <= sent /\ delivered[n] = 1 /\ settled[n] = 0 => Status[n] = "received"
              /\ n <= sent /\ delivered[n] = 1 /\ settled[n] = 1 => Status[n] = "acknowledged"
<1>1. \A n \in Packets : n \in Int /\ sent \in Int
  BY DEF Packets, IInv, TypeOK
<1>. QED  BY <1>1 DEF Status

\* A step that changes no count changes no status.
LEMMA StatusUnchanged ==
  ASSUME UNCHANGED chainVars
  PROVE  UNCHANGED Status
BY DEF chainVars, Status

\* A packet that is sent is a Send of the transfer.
LEMMA SendPacketRefines ==
  ASSUME IInv, IInv', SendPacket
  PROVE  Transfer!Next
<1>. DEFINE n == sent + 1
<1>1. sent \in Nat /\ n \in Packets /\ sent' = n /\ UNCHANGED << delivered, settled >>
  BY DEF SendPacket, IInv, TypeOK, Packets
<1>2. delivered[n] = 0 /\ settled[n] = 0
  BY <1>1 DEF IInv, CountsOK
<1>3. Status[n] = "unsent" /\ Status'[n] = "sent"
  <2>1. Status[n] = "unsent"
    BY <1>1, StatusOf
  <2>2. Status'[n] = "sent"
    BY <1>1, <1>2 DEF Status
  <2>. QED  BY <2>1, <2>2
<1>4. \A m \in Packets : m # n => Status'[m] = Status[m]
  <2>1. \A m \in Packets : m \in Int /\ (m # n => (m > sent <=> m > n) /\ (m <= sent <=> m <= n))
    BY <1>1 DEF Packets
  <2>. QED  BY <1>1, <2>1 DEF Status
<1>5. \A m \in 1 .. n - 1 : m \in Packets /\ Status[m] # "unsent"
  <2>. SUFFICES ASSUME NEW m \in 1 .. n - 1 PROVE m \in Packets /\ Status[m] # "unsent"
    OBVIOUS
  <2>1. m \in Packets /\ m <= sent
    BY <1>1 DEF Packets
  <2>2. \/ delivered[m] = 0 /\ settled[m] = 0
        \/ delivered[m] = 1 /\ settled[m] = 0
        \/ delivered[m] = 1 /\ settled[m] = 1
    BY <2>1 DEF IInv, CountsOK
  <2>. QED  BY <2>1, <2>2, StatusOf
<1>6. Status' = [m \in Packets |-> IF m \in {n} THEN "sent" ELSE Status[m]]
  <2>1. Status' = [m \in Packets |-> Status'[m]]
    BY DEF Status
  <2>. QED  BY <1>1, <1>3, <1>4, <2>1
<1>7. Transfer!Send(n)
  BY <1>3, <1>5, <1>6, Zenon DEF Transfer!Send, Transfer!Move, Transfer!Packets, Packets
<1>. QED  BY <1>1, <1>7, Zenon DEF Transfer!Next, Transfer!Packets, Packets

\* A transaction that is committed delivers, or acknowledges, its packets.
LEMMA CommitRefines ==
  ASSUME IInv, IInv', NEW tx \in inFlight, Commit(tx)
  PROVE  Transfer!Next
<1>. DEFINE S == tx.msgs
<1>1. S \in SUBSET Packets /\ sent' = sent
  BY CommitEffect
<1>2. Status' = [m \in Packets |-> Status'[m]]
  BY DEF Status
<1>3. CASE /\ \A n \in S : n <= sent /\ delivered[n] = 0 /\ settled[n] = 0
           /\ \A n \in Packets : delivered'[n] = IF n \in S THEN 1 ELSE delivered[n]
           /\ UNCHANGED << open, settled >>
  <2>1. \A n \in S : Status[n] = "sent"
    BY <1>1, <1>3, StatusOf
  <2>2. \A n \in S : Status'[n] = "received"
    BY <1>1, <1>3 DEF Status
  <2>3. \A n \in Packets : n \notin S => Status'[n] = Status[n]
    BY <1>1, <1>3 DEF Status
  <2>4. Status' = [m \in Packets |-> IF m \in S THEN "received" ELSE Status[m]]
    BY <1>1, <1>2, <2>2, <2>3
  <2>5. Transfer!Receive(S)
    BY <2>1, <2>4 DEF Transfer!Receive, Transfer!Move, Transfer!Packets, Packets
  <2>. QED  BY <1>1, <2>5 DEF Transfer!Next, Transfer!Packets, Packets
<1>4. CASE /\ \A n \in S : n <= sent /\ delivered[n] = 1 /\ settled[n] = 0
           /\ \A n \in Packets : settled'[n] = IF n \in S THEN 1 ELSE settled[n]
           /\ UNCHANGED delivered
  <2>1. \A n \in S : Status[n] = "received"
    BY <1>1, <1>4, StatusOf
  <2>2. \A n \in S : Status'[n] = "acknowledged"
    BY <1>1, <1>4 DEF Status
  <2>3. \A n \in Packets : n \notin S => Status'[n] = Status[n]
    BY <1>1, <1>4 DEF Status
  <2>4. Status' = [m \in Packets |-> IF m \in S THEN "acknowledged" ELSE Status[m]]
    BY <1>1, <1>2, <2>2, <2>3
  <2>5. Transfer!Acknowledge(S)
    BY <2>1, <2>4 DEF Transfer!Acknowledge, Transfer!Move, Transfer!Packets, Packets
  <2>. QED  BY <1>1, <2>5 DEF Transfer!Next, Transfer!Packets, Packets
<1>. QED  BY <1>3, <1>4, CommitEffect, Zenon

\* Relayers that overlap, restart and submit again implement the transfer of
\* packets: nothing is delivered or acknowledged twice or out of turn (SendMsgs,
\* HandleTx).
THEOREM Refinement == Spec => ImplementsTransfer
<1>1. Init => Transfer!Init
  BY DEF Init, Transfer!Init, Status, Transfer!Packets, Packets
<1>2. ASSUME IInv, IInv', [Next]_vars PROVE [Transfer!Next]_Status
  <2>1. CASE UNCHANGED vars
    BY <2>1, StatusUnchanged DEF vars, chainVars
  <2>2. CASE SendPacket
    BY <1>2, <2>2, SendPacketRefines
  <2>3. ASSUME NEW tx \in inFlight, Commit(tx) PROVE Transfer!Next
    BY <1>2, <2>3, CommitRefines
  <2>4. ASSUME NEW r \in Relayers, Step(r) \/ Timeout(r) \/ Restart(r) PROVE UNCHANGED Status
    BY <2>4, StatusUnchanged, Zenon DEF Step, List, Filter, Fetch, SendMsgs, Timeout, Restart
  <2>5. ASSUME NEW tx \in inFlight, Invalidate(tx) \/ Lose(tx) PROVE UNCHANGED Status
    BY <2>5, StatusUnchanged DEF Invalidate, Lose, Drop
  <2>. QED  BY <1>2, <2>1, <2>2, <2>3, <2>4, <2>5 DEF Next, Order
<1>. QED  BY <1>1, <1>2, Invariance, PTL DEF Spec, ImplementsTransfer, Transfer!Spec
------------------------------------------------------------------------------
(* The pages *)

\* What the page limit allows at a stage: packets that are reached, without a gap in
\* what comes before them that is not received; acknowledgements that are listed.
Bounded(stage, S) ==
  IF stage = "packets"
  THEN \A n \in S : n \in Reached /\ \A m \in Before(n) : m \in S \cup received
  ELSE S \subseteq Listed

PagesInv ==
  /\ Bounded("packets", received)
  /\ Bounded("acks", Acknowledged)
  /\ \A r \in Relayers :
       /\ Bounded(relayer[r].stage, relayer[r].todo \cup relayer[r].msgs)
       /\ relayer[r].phase = "list" => relayer[r].todo = {} /\ relayer[r].msgs = {}
  /\ \A tx \in inFlight : Bounded(tx.stage, tx.msgs)

\* Nothing is bounded, at any stage.
LEMMA BoundedNone == \A stage : Bounded(stage, {})
BY DEF Bounded

\* The order of keys is transitive.
LEMMA KeysTransitive ==
  ASSUME NEW k \in Packets, NEW m \in Packets, NEW n \in Packets,
         KeyBefore(k, m), KeyBefore(m, n)
  PROVE  KeyBefore(k, n)
<1>1. /\ LeftJustified[k] \in Nat /\ LeftJustified[m] \in Nat /\ LeftJustified[n] \in Nat
      /\ k \in Nat /\ m \in Nat /\ n \in Nat
  BY DigitsAssumption DEF Packets
<1>. QED  BY <1>1 DEF KeyBefore

\* An entry of a page has less entries before it than the limit, and these are all on
\* the page too.
LEMMA PageFacts ==
  ASSUME NEW S \in SUBSET Packets, NEW n \in Page(S)
  PROVE  /\ n \in S /\ n \in Packets
         /\ \A T \in SUBSET S : (\A m \in T : KeyBefore(m, n)) => Cardinality(T) < PageLimit
         /\ \A m \in S : KeyBefore(m, n) => m \in Page(S)
<1>. DEFINE B(k) == {m \in S : KeyBefore(m, k)}
<1>1. n \in S /\ n \in Packets /\ Cardinality(B(n)) < PageLimit
  BY DEF Page
<1>2. IsFiniteSet(1 .. MaxPackets)
  BY FS_Interval
<1>3. \A k : B(k) \in SUBSET (1 .. MaxPackets)
  BY Zenon DEF Packets
<1>. HIDE DEF B
<1>4. \A k : IsFiniteSet(B(k)) /\ Cardinality(B(k)) \in Nat
  BY <1>2, <1>3, FS_Subset, FS_CardinalityType
<1>5. ASSUME NEW T \in SUBSET B(n)
      PROVE  Cardinality(T) < PageLimit
  <2>1. IsFiniteSet(T) /\ Cardinality(T) <= Cardinality(B(n))
    BY <1>4, FS_Subset
  <2>2. Cardinality(T) \in Nat
    BY <2>1, FS_CardinalityType
  <2>. QED  BY <1>1, <1>4, <2>1, <2>2
<1>6. ASSUME NEW m \in S, KeyBefore(m, n) PROVE m \in Page(S)
  <2>1. \A k \in B(m) : k \in S /\ KeyBefore(k, n)
    BY <1>1, <1>6, KeysTransitive DEF B
  <2>2. B(m) \in SUBSET B(n)
    BY <2>1 DEF B
  <2>3. Cardinality(B(m)) < PageLimit
    BY <1>5, <2>2
  <2>. QED  BY <2>3 DEF Page, B
<1>7. ASSUME NEW T \in SUBSET S, \A m \in T : KeyBefore(m, n) PROVE T \in SUBSET B(n)
  BY <1>7 DEF B
<1>. QED  BY <1>1, <1>5, <1>6, <1>7, Zenon

\* The first page of commitments: what comes before an entry is on it too or has been
\* received, and what is not listed is never acknowledged and stays on it.
LEMMA CommitmentsPage ==
  ASSUME IInv, PagesInv
  PROVE  Bounded("packets", QueryPacketCommitments)
<1>. SUFFICES ASSUME NEW n \in Page(open)
              PROVE  n \in Reached /\ \A m \in Before(n) : m \in Page(open) \cup received
  BY DEF Bounded, QueryPacketCommitments
<1>1. open \in SUBSET Packets
  BY DEF IInv, TypeOK
<1>2. n \in open /\ n \in Packets
  BY <1>1, PageFacts
<1>3. n <= sent /\ n \in Nat /\ sent \in 0 .. MaxPackets
  BY <1>2 DEF IInv, TypeOK, CountsOK, Packets
<1>4. ASSUME NEW m \in Before(n)
      PROVE  KeyBefore(m, n) /\ (m \in open \/ m \in Acknowledged)
  <2>1. m \in Packets /\ m <= sent /\ KeyBefore(m, n)
    BY <1>3 DEF Packets, Before
  <2>. QED  BY <2>1 DEF IInv, CountsOK, Acknowledged
<1>5. ASSUME NEW m \in Before(n) PROVE m \in Page(open) \cup received
  <2>1. CASE m \in open
    BY <1>1, <1>4, <2>1, PageFacts
  <2>2. CASE m \in Acknowledged
    BY <2>2 DEF Acknowledged, received, IInv, CountsOK
  <2>. QED  BY <1>4, <2>1, <2>2
<1>6. n \in Reached
  <2>. DEFINE T == Before(n) \ Listed
  <2>1. \A m \in T : m \in open /\ KeyBefore(m, n)
    BY <1>4 DEF PagesInv, Bounded
  <2>2. T \in SUBSET open
    BY <2>1
  <2>. HIDE DEF T
  <2>3. Cardinality(T) < PageLimit
    BY <1>1, <2>1, <2>2, PageFacts
  <2>. QED  BY <1>2, <2>3 DEF Reached, T
<1>. QED  BY <1>5, <1>6

\* The first page of acknowledgements: what comes before one that is received has been
\* received too.
LEMMA AcknowledgementsPage ==
  ASSUME IInv, PagesInv
  PROVE  Bounded("acks", QueryPacketAcknowledgementCommitments)
<1>. SUFFICES ASSUME NEW n \in Page(received) PROVE n \in Listed
  BY DEF Bounded, QueryPacketAcknowledgementCommitments
<1>1. received \in SUBSET Packets
  BY DEF received
<1>2. n \in received /\ n \in Packets
  BY <1>1, PageFacts
<1>3. Before(n) \in SUBSET received
  BY <1>2 DEF PagesInv, Bounded
<1>4. \A m \in Before(n) : KeyBefore(m, n)
  BY DEF Before
<1>5. Cardinality(Before(n)) < PageLimit
  BY <1>1, <1>3, <1>4, PageFacts
<1>. QED  BY <1>2, <1>5 DEF Listed

\* A step of relayer r that leaves the chains alone, and after which what r has
\* collected and what is in flight is bounded.
LEMMA RelayerPages ==
  ASSUME IInv, PagesInv, NEW r \in Relayers, NEW x,
         relayer' = [relayer EXCEPT ![r] = x], UNCHANGED chainVars,
         Bounded(x.stage, x.todo \cup x.msgs),
         x.phase = "list" => x.todo = {} /\ x.msgs = {},
         \A tx \in inFlight' : Bounded(tx.stage, tx.msgs)
  PROVE  PagesInv'
<1>1. received' = received /\ Acknowledged' = Acknowledged
  BY DEF chainVars, received, Acknowledged
<1>2. \A stage, S : Bounded(stage, S)' <=> Bounded(stage, S)
  BY <1>1 DEF Bounded
<1>3. \A q \in Relayers : relayer'[q] = IF q = r THEN x ELSE relayer[q]
  BY DEF IInv, TypeOK
<1>4. Bounded("packets", received') /\ Bounded("acks", Acknowledged')
  BY <1>1 DEF PagesInv
<1>5. \A q \in Relayers :
        /\ Bounded(relayer'[q].stage, relayer'[q].todo \cup relayer'[q].msgs)
        /\ relayer'[q].phase = "list" => relayer'[q].todo = {} /\ relayer'[q].msgs = {}
  BY <1>3, Zenon DEF PagesInv
<1>. QED  BY <1>1, <1>2, <1>4, <1>5, Zenon DEF PagesInv, Bounded

\* A relayer that starts again has nothing.
LEMMA StartsPages ==
  ASSUME IInv, PagesInv, NEW r \in Relayers,
         relayer' = [relayer EXCEPT ![r] = Start("packets")], UNCHANGED chainVars,
         \A tx \in inFlight' : Bounded(tx.stage, tx.msgs)
  PROVE  PagesInv'
<1>. DEFINE y == Start("packets")
<1>1. y.todo = {} /\ y.msgs = {} /\ y.todo \cup y.msgs = {}
  BY StartType
<1>2. Bounded(y.stage, y.todo \cup y.msgs) /\ relayer' = [relayer EXCEPT ![r] = y]
  BY <1>1, BoundedNone, Zenon
<1>. HIDE DEF y
<1>. QED  BY <1>1, <1>2, RelayerPages, Zenon

\* List starts from nothing and asks for one page.
LEMMA ListPages ==
  ASSUME IInv, PagesInv, NEW r \in Relayers, List(r)
  PROVE  PagesInv'
<1>. DEFINE x == relayer[r]
            page == IF x.stage = "packets" THEN QueryPacketCommitments
                    ELSE QueryPacketAcknowledgementCommitments
            y == [x EXCEPT !.phase = "filter", !.todo = page]
<1>1. x \in States /\ x.msgs = {}
  <2>1. x \in States /\ x.phase = "list"
    BY RelayerType DEF IInv, List
  <2>. QED  BY <2>1, Zenon DEF PagesInv
<1>2. relayer' = [relayer EXCEPT ![r] = y] /\ UNCHANGED chainVars /\ inFlight' = inFlight
  BY DEF List, Become
<1>3. Bounded(x.stage, page)
  <2>1. x.stage \in {"packets", "acks"}
    BY <1>1 DEF States
  <2>. QED  BY <2>1, CommitmentsPage, AcknowledgementsPage, Zenon
<1>. HIDE DEF page
<1>4. y.phase = "filter" /\ y.stage = x.stage /\ y.todo = page /\ y.msgs = {}
  BY <1>1 DEF States
<1>5. \A tx \in inFlight' : Bounded(tx.stage, tx.msgs)
  BY <1>2 DEF PagesInv
<1>. HIDE DEF x, y
<1>6. Bounded(y.stage, y.todo \cup y.msgs)
  <2>1. y.todo \cup y.msgs = page
    BY <1>4
  <2>. QED  BY <1>3, <1>4, <2>1
<1>. QED  BY <1>2, <1>4, <1>5, <1>6, RelayerPages, Zenon

\* Filter takes out what is received, or what is no longer open.
LEMMA FilterPages ==
  ASSUME IInv, PagesInv, NEW r \in Relayers, Filter(r)
  PROVE  PagesInv'
<1>. DEFINE x == relayer[r]
            rest == IF x.stage = "packets" THEN QueryUnrecievedPackets(x.todo)
                    ELSE QueryUnrecievedAcknowledgements(x.todo)
            z == [x EXCEPT !.phase = "fetch", !.todo = rest]
            y == IF rest = {} THEN AfterStage(x.stage) ELSE z
<1>1. x \in States /\ x.stage \in {"packets", "acks"}
  <2>1. x \in States
    BY RelayerType DEF IInv
  <2>. QED  BY <2>1 DEF States
<1>2. relayer' = [relayer EXCEPT ![r] = y] /\ UNCHANGED chainVars /\ inFlight' = inFlight
  BY Zenon DEF Filter, Become
<1>3. Bounded(x.stage, rest \cup x.msgs)
  <2>1. Bounded(x.stage, x.todo \cup x.msgs)
    BY DEF PagesInv
  <2>2. CASE x.stage = "packets"
    <3>1. rest = x.todo \ received
      BY <2>2 DEF QueryUnrecievedPackets
    <3>. HIDE DEF rest, x
    <3>. QED  BY <2>1, <2>2, <3>1, Zenon DEF Bounded
  <2>3. CASE x.stage = "acks"
    <3>1. rest \subseteq x.todo
      BY <2>3 DEF QueryUnrecievedAcknowledgements
    <3>. HIDE DEF rest, x
    <3>. QED  BY <2>1, <2>3, <3>1 DEF Bounded
  <2>. QED  BY <1>1, <2>2, <2>3, Zenon
<1>4. \A tx \in inFlight' : Bounded(tx.stage, tx.msgs)
  BY <1>2 DEF PagesInv
<1>. HIDE DEF rest
<1>5. z.phase = "fetch" /\ z.stage = x.stage /\ z.todo = rest /\ z.msgs = x.msgs
  BY <1>1, Zenon DEF States
<1>. HIDE DEF x, z
<1>6. /\ Bounded(y.stage, y.todo \cup y.msgs)
      /\ y.phase = "list" => y.todo = {} /\ y.msgs = {}
  <2>1. CASE rest = {}
    <3>1. y.todo = {} /\ y.msgs = {} /\ y.todo \cup y.msgs = {}
      BY <1>1, <2>1, StartType, Zenon
    <3>. QED  BY <3>1, BoundedNone, Zenon
  <2>2. CASE rest # {}
    BY <1>3, <1>5, <2>2
  <2>. QED  BY <2>1, <2>2, Zenon
<1>. HIDE DEF y
<1>. QED  BY <1>2, <1>4, <1>6, RelayerPages, Zenon

\* Fetch moves an entry, or starts again.
LEMMA FetchPages ==
  ASSUME IInv, PagesInv, NEW r \in Relayers, Fetch(r)
  PROVE  PagesInv'
<1>. DEFINE x == relayer[r]
<1>1. x \in States
  BY RelayerType DEF IInv
<1>2. PICK n \in x.todo :
        relayer' = [relayer EXCEPT ![r] =
                      IF x.stage = "packets" /\ n \notin open THEN Start("packets")
                      ELSE [x EXCEPT !.todo = @ \ {n}, !.msgs = @ \cup {n}]]
  BY Zenon DEF Fetch, Become
<1>. DEFINE z == [x EXCEPT !.todo = @ \ {n}, !.msgs = @ \cup {n}]
            y == IF x.stage = "packets" /\ n \notin open THEN Start("packets") ELSE z
<1>3. UNCHANGED chainVars /\ inFlight' = inFlight /\ relayer' = [relayer EXCEPT ![r] = y]
  BY <1>2 DEF Fetch
<1>4. \A tx \in inFlight' : Bounded(tx.stage, tx.msgs)
  BY <1>3 DEF PagesInv
<1>5. Bounded(x.stage, x.todo \cup x.msgs)
  BY Zenon DEF PagesInv
<1>6. /\ z.phase = "fetch" /\ z.stage = x.stage
      /\ z.todo = x.todo \ {n} /\ z.msgs = x.msgs \cup {n}
  BY <1>1 DEF States, Fetch
<1>. HIDE DEF x, z
<1>7. z.todo \cup z.msgs = x.todo \cup x.msgs
  BY <1>2, <1>6, Zenon
<1>8. /\ Bounded(y.stage, y.todo \cup y.msgs)
      /\ y.phase = "list" => y.todo = {} /\ y.msgs = {}
  <2>1. CASE y = Start("packets")
    <3>1. y.todo = {} /\ y.msgs = {} /\ y.todo \cup y.msgs = {}
      BY <2>1, StartType, Zenon
    <3>. QED  BY <3>1, BoundedNone, Zenon
  <2>2. CASE y = z
    <3>. HIDE DEF y
    <3>. QED  BY <1>5, <1>6, <1>7, <2>2, Zenon
  <2>. QED  BY <2>1, <2>2, Zenon
<1>. HIDE DEF y
<1>. QED  BY <1>3, <1>4, <1>8, RelayerPages, Zenon

\* SendMsgs puts what is bounded in flight, or starts again.
LEMMA SendMsgsPages ==
  ASSUME IInv, PagesInv, NEW r \in Relayers, SendMsgs(r)
  PROVE  PagesInv'
<1>. DEFINE x == relayer[r]
            tx == [by |-> r, stage |-> x.stage, msgs |-> x.msgs]
            z == [x EXCEPT !.phase = "wait"]
<1>1. x \in States
  BY RelayerType DEF IInv
<1>2. /\ x.todo = {} /\ UNCHANGED chainVars
      /\ \/ inFlight' = inFlight \cup {tx} /\ relayer' = [relayer EXCEPT ![r] = z]
         \/ inFlight' = inFlight /\ relayer' = [relayer EXCEPT ![r] = Start("packets")]
  BY DEF SendMsgs, Become
<1>3. Bounded(x.stage, x.todo \cup x.msgs)
  BY DEF PagesInv
<1>4. tx.stage = x.stage /\ tx.msgs = x.msgs
  OBVIOUS
<1>5. z.phase = "wait" /\ z.todo = x.todo /\ z.msgs = x.msgs /\ z.stage = x.stage
  BY <1>1 DEF States
<1>. HIDE DEF x, tx, z
<1>6. Bounded(tx.stage, tx.msgs)
  <2>1. x.todo \cup x.msgs = x.msgs
    BY <1>2, Zenon
  <2>. QED  BY <1>3, <1>4, <2>1, Zenon
<1>7. \A t \in inFlight' : Bounded(t.stage, t.msgs)
  BY <1>2, <1>6 DEF PagesInv
<1>8. CASE relayer' = [relayer EXCEPT ![r] = z]
  <2>1. Bounded(z.stage, z.todo \cup z.msgs)
    BY <1>3, <1>5
  <2>. QED  BY <1>2, <1>5, <1>7, <1>8, <2>1, RelayerPages, Zenon
<1>9. CASE relayer' = [relayer EXCEPT ![r] = Start("packets")]
  BY <1>2, <1>7, <1>9, StartsPages, Zenon
<1>. QED  BY <1>2, <1>8, <1>9, Zenon

\* A transaction that is no longer in flight, and whose relayer starts a stage.
LEMMA OutcomePages ==
  ASSUME IInv, PagesInv, NEW tx \in inFlight, NEW y \in States, y.todo = {}, y.msgs = {},
         Outcome(tx, y), inFlight' = inFlight \ {tx}, received \subseteq received',
         Bounded("packets", received)', Bounded("acks", Acknowledged)'
  PROVE  PagesInv'
<1>1. \A r \in Relayers : relayer'[r] = relayer[r] \/ relayer'[r] = y
  <2>1. tx.by \in Relayers
    BY Zenon DEF IInv, TypeOK, Txs
  <2>. QED  BY <2>1, Zenon DEF Outcome, IInv, TypeOK
<1>2. y.todo \cup y.msgs = {}
  OBVIOUS
<1>3. ASSUME NEW r \in Relayers
      PROVE  /\ Bounded(relayer'[r].stage, relayer'[r].todo \cup relayer'[r].msgs)
             /\ relayer'[r].phase = "list" => relayer'[r].todo = {} /\ relayer'[r].msgs = {}
  <2>1. CASE relayer'[r] = relayer[r]
    BY <2>1, Zenon DEF PagesInv
  <2>2. CASE relayer'[r] = y
    BY <1>2, <2>2, BoundedNone, Zenon
  <2>. QED  BY <1>1, <2>1, <2>2, Zenon
<1>4. \A t \in inFlight' : Bounded(t.stage, t.msgs)
  BY Zenon DEF PagesInv
<1>5. ASSUME NEW r \in Relayers
      PROVE  LET q == relayer'[r] IN
             IF q.stage = "packets"
             THEN \A n \in q.todo \cup q.msgs :
                    n \in Reached /\ \A m \in Before(n) : m \in q.todo \cup q.msgs \cup received'
             ELSE q.todo \cup q.msgs \subseteq Listed
  BY <1>3, Zenon DEF Bounded
<1>6. ASSUME NEW t \in inFlight'
      PROVE  IF t.stage = "packets"
             THEN \A n \in t.msgs :
                    n \in Reached /\ \A m \in Before(n) : m \in t.msgs \cup received'
             ELSE t.msgs \subseteq Listed
  BY <1>4, Zenon DEF Bounded
<1>. QED  BY <1>3, <1>5, <1>6, Zenon DEF PagesInv, Bounded

\* A transaction without effect.
LEMMA DropPages ==
  ASSUME IInv, PagesInv, NEW tx \in inFlight, Invalidate(tx) \/ Lose(tx)
  PROVE  PagesInv'
<1>1. /\ inFlight' = inFlight \ {tx} /\ Outcome(tx, Start("packets"))
      /\ UNCHANGED << sent, open, delivered, settled >>
  BY DEF Invalidate, Lose, Drop, chainVars
<1>2. received' = received /\ Acknowledged' = Acknowledged
  BY <1>1, Zenon DEF received, Acknowledged
<1>3. Bounded("packets", received)' /\ Bounded("acks", Acknowledged)'
  BY <1>2, Zenon DEF PagesInv, Bounded
<1>. QED  BY <1>1, <1>2, <1>3, StartType, OutcomePages, Zenon

\* A committed transaction delivers, or acknowledges, what is bounded.
LEMMA CommitPages ==
  ASSUME IInv, PagesInv, NEW tx \in inFlight, Commit(tx)
  PROVE  PagesInv'
<1>1. tx.stage \in {"packets", "acks"} /\ tx.msgs \subseteq Packets
  BY Zenon DEF IInv, TypeOK, Txs
<1>2. inFlight' = inFlight \ {tx} /\ Outcome(tx, AfterStage(tx.stage))
  BY Zenon DEF Commit
<1>3. Bounded(tx.stage, tx.msgs) /\ Bounded("packets", received) /\ Bounded("acks", Acknowledged)
  BY Zenon DEF PagesInv
<1>4. /\ received \subseteq received'
      /\ Bounded("packets", received)' /\ Bounded("acks", Acknowledged)'
  <2>1. CASE tx.stage = "packets"
    <3>1. received' = received \cup tx.msgs
      BY <1>1, <2>1 DEF Commit, Increment, received, IInv, TypeOK
    <3>2. Acknowledged' = Acknowledged
      BY <2>1, Zenon DEF Commit, Acknowledged
    <3>3. \A n \in received' : n \in Reached /\ \A m \in Before(n) : m \in received'
      BY <1>3, <2>1, <3>1, Zenon DEF Bounded
    <3>. QED  BY <1>3, <3>1, <3>2, <3>3, Zenon DEF Bounded
  <2>2. CASE tx.stage = "acks"
    <3>1. received' = received
      BY <2>2, Zenon DEF Commit, received
    <3>2. Acknowledged' = Acknowledged \cup tx.msgs
      BY <1>1, <2>2 DEF Commit, Increment, Acknowledged, IInv, TypeOK
    <3>3. Acknowledged' \subseteq Listed
      BY <1>3, <2>2, <3>2, Zenon DEF Bounded
    <3>. QED  BY <1>3, <3>1, <3>3, Zenon DEF Bounded
  <2>. QED  BY <1>1, <2>1, <2>2, Zenon
<1>. QED  BY <1>1, <1>2, <1>4, StartType, OutcomePages, Zenon

\* Every step keeps the bounds.
LEMMA NextPages == IInv /\ PagesInv /\ [Next]_vars => PagesInv'
<1>. SUFFICES ASSUME IInv, PagesInv, [Next]_vars PROVE PagesInv'
  BY Zenon
<1>1. CASE UNCHANGED vars
  BY <1>1, Zenon DEF vars, PagesInv, Bounded, received, Acknowledged
<1>2. CASE SendPacket
  BY <1>2, Zenon DEF SendPacket, PagesInv, Bounded, received, Acknowledged
<1>3. ASSUME NEW r \in Relayers, Step(r) PROVE PagesInv'
  BY <1>3, ListPages, FilterPages, FetchPages, SendMsgsPages, Zenon DEF Step
<1>4. ASSUME NEW r \in Relayers, Timeout(r) \/ Restart(r) PROVE PagesInv'
  <2>1. /\ relayer' = [relayer EXCEPT ![r] = Start("packets")]
        /\ UNCHANGED chainVars /\ inFlight' = inFlight
    BY <1>4 DEF Timeout, Restart, Become
  <2>. QED  BY <2>1, StartsPages, Zenon DEF PagesInv
<1>5. ASSUME NEW tx \in inFlight, Commit(tx) PROVE PagesInv'
  BY <1>5, CommitPages
<1>6. ASSUME NEW tx \in inFlight, Invalidate(tx) \/ Lose(tx) PROVE PagesInv'
  BY <1>6, DropPages
<1>. QED  BY <1>1, <1>2, <1>3, <1>4, <1>5, <1>6, Zenon DEF Next, Order

\* A packet that a page of earlier ones is before by key is never acknowledged, and
\* one that a page of those is before is never delivered, for any number of packets,
\* relayers and faults, any page limit and any base of the numbers in keys
\* (QueryPacketAcknowledgementCommitments, QueryPacketCommitments).
THEOREM PagesAreBound == Spec => []PagesBound
<1>1. Init => PagesInv
  <2>. SUFFICES ASSUME Init PROVE PagesInv
    OBVIOUS
  <2>1. received = {} /\ Acknowledged = {} /\ inFlight = {}
    BY DEF Init, received, Acknowledged
  <2>2. \A r \in Relayers : relayer[r].todo = {} /\ relayer[r].msgs = {}
    BY StartType DEF Init
  <2>. QED  BY <2>1, <2>2 DEF PagesInv, Bounded
<1>2. PagesInv => PagesBound
  BY DEF PagesInv, PagesBound, Bounded
<1>. QED  BY <1>1, <1>2, NextPages, Invariance, PTL DEF Spec
==============================================================================
