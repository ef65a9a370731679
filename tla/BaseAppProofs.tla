---------------------------- MODULE BaseAppProofs ----------------------------
(***************************************************************************)
(* Concurrent transactions are serializable, and the records that the      *)
(* event handlers keep agree with the IBC store: for any clients, any      *)
(* transactions of any length, and any number of packets.                  *)
(*                                                                         *)
(* The invariant says of a simulation in progress that its cache and its   *)
(* events are those of the messages run so far, not only on the committed  *)
(* state but on every world state that has the values it read.  An         *)
(* endorsed transaction inherits this, as long as its reads are valid:     *)
(* what others commit in between then does not matter to it.               *)
(***************************************************************************)
EXTENDS BaseApp, WellFoundedInduction, TLAPS

\* The time in seconds that a backend may take over a step.
USE SMTT(30), ZenonT(30)

------------------------------------------------------------------------------
(* Least and greatest elements *)

\* The order of the natural numbers as a relation.
LEMMA NatOrder == OpToRel(<, Nat) = {ss \in Nat \X Nat : ss[1] < ss[2]}
  BY DEF OpToRel

\* Every set of natural numbers has a least element: what the induction over the
\* messages of a transaction rests on.
LEMMA NatMin ==
  ASSUME NEW T, T \subseteq Nat, T # {}
  PROVE  \E x \in T : \A y \in T : x <= y
<1>. DEFINE R == {ss \in Nat \X Nat : ss[1] < ss[2]}
<1>1. PICK x \in T : \A y \in T : ~ (<< y, x >> \in OpToRel(<, Nat))
  BY NatLessThanWellFounded, WFMin, Zenon
<1>2. \A y \in T : ~ (<< y, x >> \in R)
  BY <1>1, NatOrder, Zenon
<1>3. ASSUME NEW y \in T PROVE x <= y
  <2>1. x \in Nat /\ y \in Nat /\ << y, x >> \in Nat \X Nat
    OBVIOUS
  <2>2. ~ (y < x)
    BY <1>2, <2>1
  <2>. QED  BY <2>1, <2>2
<1>. QED  BY <1>3

\* Max of a set of integers is its largest element, if it has one.
LEMMA MaxOf ==
  ASSUME NEW S, S \subseteq Int, NEW n \in S, \A m \in S : m <= n
  PROVE  Max(S) = n
<1>. DEFINE P(x) == x \in S /\ \A y \in S : x >= y
<1>1. P(n)
  OBVIOUS
<1>2. Max(S) = CHOOSE x : P(x)
  BY DEF Max
<1>3. \A x : P(x) => x = n
  OBVIOUS
<1>. HIDE DEF P
<1>. QED  BY <1>1, <1>2, <1>3

\* A bounded set of natural numbers has a greatest element, which is its Max.
LEMMA MaxIn ==
  ASSUME NEW n \in Nat, NEW S, S \subseteq 1 .. n, S # {}
  PROVE  Max(S) \in S /\ \A m \in S : m <= Max(S)
<1>. DEFINE T == {k \in Nat : \A m \in S : m <= k}
<1>1. n \in T
  OBVIOUS
<1>2. PICK k \in T : \A l \in T : k <= l
  <2>1. T \subseteq Nat /\ T # {}
    BY <1>1
  <2>. HIDE DEF T
  <2>. QED  BY <2>1, NatMin, Zenon
<1>3. k \in S
  <2>. SUFFICES ASSUME k \notin S PROVE FALSE
    OBVIOUS
  <2>1. PICK m \in S : TRUE
    BY Zenon
  <2>2. k \in Nat /\ m \in Nat /\ m # k /\ 1 <= m /\ m <= k
    BY <1>2, <2>1
  <2>3. k - 1 \in Nat /\ \A x \in S : x <= k - 1
    BY <1>2, <2>2
  <2>4. k - 1 \in T
    BY <2>3
  <2>. HIDE DEF T
  <2>. QED  BY <1>2, <2>2, <2>4
<1>4. Max(S) = k
  <2>1. S \subseteq Int /\ \A m \in S : m <= k
    BY <1>2
  <2>. QED  BY <1>3, <2>1, MaxOf, Zenon
<1>. QED  BY <1>2, <1>3, <1>4
------------------------------------------------------------------------------
(* The ledger of a world state *)

\* What the world state w holds for the packets with sequence s.
PacketIn(w, s) == w[<< "/packets", s >>]
CommitmentIn(w, s) == w[<< "commitment", s >>]
ReceiptIn(w, s) == w[<< "receipt", s >>]
AckIn(w, s) == w[<< "ack", s >>]
AckEventIn(w, s) == w[<< "/acks", s >>]
NextIn(w) == w[NextSend]

\* The ledger that the world state w represents.
LedgerOf(w) ==
  [sent |-> [s \in 1 .. NextIn(w) - 1 |-> PacketIn(w, s)],
   open |-> {s \in Seqs : CommitmentIn(w, s) # Absent},
   received |-> {<< s, AckEventIn(w, s) >> : s \in {r \in Seqs : ReceiptIn(w, r) # Absent}}]

Ledgers == [sent : Seq(Data), open : SUBSET Seqs, received : SUBSET (Seqs \X Data)]

\* The events and the IBC store agree about the packets with sequence s.
Agree(w, s) ==
  /\ PacketIn(w, s) # Absent <=> s < NextIn(w)
  /\ CommitmentIn(w, s) \in {Absent, PacketIn(w, s)}
  /\ AckEventIn(w, s) = AckIn(w, s)
  /\ ReceiptIn(w, s) # Absent <=> AckIn(w, s) # Absent

Typed(w, s) ==
  /\ PacketIn(w, s) \in Data \cup {Absent}
  /\ CommitmentIn(w, s) \in Data \cup {Absent}
  /\ ReceiptIn(w, s) \in Data \cup {Absent}
  /\ AckIn(w, s) \in Data \cup {Absent}

\* The world states in which they do.
Worlds ==
  {w \in [StateKeys -> Data \cup {Absent} \cup 1 .. MaxPackets + 1] :
     /\ NextIn(w) \in 1 .. MaxPackets + 1
     /\ \A s \in Seqs : Agree(w, s) /\ Typed(w, s)}

\* What the rest of the argument uses of them: in particular, their ledgers are
\* ledgers.
LEMMA WorldFacts ==
  ASSUME NEW w \in Worlds
  PROVE  /\ w \in [StateKeys -> Data \cup {Absent} \cup 1 .. MaxPackets + 1]
         /\ NextIn(w) \in Nat /\ NextIn(w) - 1 \in Nat /\ NextIn(w) \in 1 .. MaxPackets + 1
         /\ \A s \in Seqs : s \in Nat /\ Agree(w, s) /\ Typed(w, s)
         /\ LedgerOf(w) # None /\ LedgerOf(w) \in Ledgers
         /\ Len(LedgerOf(w).sent) = NextIn(w) - 1
<1>1. /\ w \in [StateKeys -> Data \cup {Absent} \cup 1 .. MaxPackets + 1]
      /\ NextIn(w) \in Nat /\ NextIn(w) - 1 \in Nat /\ NextIn(w) \in 1 .. MaxPackets + 1
      /\ \A s \in Seqs : s \in Nat /\ Agree(w, s) /\ Typed(w, s)
  BY ConstantsAssumption DEF Worlds, Seqs
<1>2. ASSUME NEW s \in 1 .. NextIn(w) - 1 PROVE PacketIn(w, s) \in Data
  <2>1. s \in Seqs /\ s < NextIn(w)
    BY <1>1, ConstantsAssumption DEF Seqs
  <2>2. Agree(w, s) /\ Typed(w, s)
    BY <1>1, <2>1
  <2>. QED  BY <2>1, <2>2 DEF Agree, Typed
<1>3. LedgerOf(w).sent \in Seq(Data) /\ Len(LedgerOf(w).sent) = NextIn(w) - 1
  BY <1>1, <1>2 DEF LedgerOf
<1>4. ASSUME NEW s \in Seqs, ReceiptIn(w, s) # Absent PROVE AckEventIn(w, s) \in Data
  BY <1>1, <1>4 DEF Agree, Typed
<1>5. {<< s, AckEventIn(w, s) >> : s \in {r \in Seqs : ReceiptIn(w, r) # Absent}}
        \in SUBSET (Seqs \X Data)
  BY <1>4
<1>6. LedgerOf(w) \in Ledgers
  BY <1>3, <1>5 DEF LedgerOf, Ledgers
<1>7. LedgerOf(w) # None
  BY <1>6, ConstantsAssumption, Zenon DEF Ledgers
<1>. QED  BY <1>1, <1>3, <1>6, <1>7

\* The world state after a packet with data d has been sent.
Sent(w, d) ==
  [k \in StateKeys |->
     IF k = NextSend THEN NextIn(w) + 1
     ELSE IF k \in {<< "commitment", NextIn(w) >>, << "/packets", NextIn(w) >>} THEN d
     ELSE w[k]]

\* Sending a packet keeps the agreement, and is what the ledger says.
LEMMA SendPacket ==
  ASSUME NEW w \in Worlds, NEW msg, msg.type = "send", msg.data \in Data,
         NextIn(w) <= MaxPackets
  PROVE  /\ Sent(w, msg.data) \in Worlds
         /\ LedgerOf(Sent(w, msg.data)) = Ledger!Apply(LedgerOf(w), msg)
<1>. DEFINE n == NextIn(w)
            d == msg.data
            v == Sent(w, d)
            l == LedgerOf(w)
<1>1. n \in Nat /\ n \in Seqs /\ n + 1 \in 1 .. MaxPackets + 1 /\ n - 1 \in Nat /\ d \in Data
  BY WorldFacts, ConstantsAssumption DEF Seqs
<1>2. /\ NextIn(v) = n + 1
      /\ PacketIn(v, n) = d /\ CommitmentIn(v, n) = d
  BY <1>1 DEF Sent, NextSend, StateKeys, AppKeys, EventKeys, NextIn, PacketIn, CommitmentIn
<1>3. ASSUME NEW s \in Seqs
      PROVE  /\ ReceiptIn(v, s) = ReceiptIn(w, s)
             /\ AckIn(v, s) = AckIn(w, s)
             /\ AckEventIn(v, s) = AckEventIn(w, s)
             /\ s # n => /\ PacketIn(v, s) = PacketIn(w, s)
                         /\ CommitmentIn(v, s) = CommitmentIn(w, s)
  BY <1>1 DEF Sent, NextSend, StateKeys, AppKeys, EventKeys, PacketIn, CommitmentIn, ReceiptIn,
              AckIn, AckEventIn
<1>4. v \in [StateKeys -> Data \cup {Absent} \cup 1 .. MaxPackets + 1]
  BY <1>1, WorldFacts DEF Sent
<1>5. /\ l # None /\ l \in Ledgers /\ Len(l.sent) = n - 1
      /\ \A s \in Seqs : s \in Nat /\ Agree(w, s) /\ Typed(w, s)
  BY WorldFacts, Zenon
<1>. HIDE DEF n, d, v, l
<1>6. \A s \in Seqs : Agree(v, s) /\ Typed(v, s)
  <2>. SUFFICES ASSUME NEW s \in Seqs PROVE Agree(v, s) /\ Typed(v, s)
    OBVIOUS
  <2>1. CASE s = n
    BY <1>1, <1>2, <1>3, <1>5, <2>1, ConstantsAssumption DEF Agree, Typed, n
  <2>2. CASE s # n
    BY <1>1, <1>2, <1>3, <1>5, <2>2 DEF Agree, Typed, n
  <2>. QED  BY <2>1, <2>2
<1>7. v \in Worlds
  BY <1>1, <1>2, <1>4, <1>6 DEF Worlds
<1>8. LedgerOf(v).sent = Append(l.sent, d)
  <2>1. LedgerOf(v).sent = [s \in 1 .. n |-> PacketIn(v, s)]
    BY <1>1, <1>2 DEF LedgerOf
  <2>2. l.sent = [s \in 1 .. n - 1 |-> PacketIn(w, s)]
    BY DEF LedgerOf, l, n
  <2>3. \A s \in 1 .. n - 1 : PacketIn(v, s) = PacketIn(w, s)
    <3>1. \A s \in 1 .. n - 1 : s \in Seqs /\ s # n
      BY <1>1, ConstantsAssumption DEF Seqs
    <3>. QED  BY <1>3, <3>1
  <2>4. l.sent \in Seq(Data)
    BY <1>5 DEF Ledgers
  <2>. QED  BY <1>1, <1>2, <1>5, <2>1, <2>2, <2>3, <2>4
<1>9. LedgerOf(v).open = l.open \cup {n}
  <2>1. \A s \in Seqs : CommitmentIn(v, s) # Absent <=> CommitmentIn(w, s) # Absent \/ s = n
    BY <1>1, <1>2, <1>3, ConstantsAssumption
  <2>. QED  BY <1>1, <2>1, Zenon DEF LedgerOf, l
<1>10. LedgerOf(v).received = l.received
  BY <1>3 DEF LedgerOf, l
<1>11. Ledger!Apply(l, msg) = [l EXCEPT !.sent = Append(@, d),
                                         !.open = @ \cup {Len(l.sent) + 1}]
  <2>1. Len(l.sent) < MaxPackets
    BY <1>1, <1>5, ConstantsAssumption DEF n
  <2>. QED  BY <2>1, <1>5 DEF Ledger!Apply, d
<1>12. LedgerOf(v) \in Ledgers
  BY <1>7, WorldFacts
<1>13. Len(l.sent) + 1 = n
  BY <1>1, <1>5
<1>14. LedgerOf(v) = Ledger!Apply(l, msg)
  BY <1>5, <1>8, <1>9, <1>10, <1>11, <1>12, <1>13, Zenon DEF Ledgers
<1>. QED  BY <1>7, <1>14 DEF v, d, l

\* The world state after packet s has been received, with the acknowledgement d.
Received(w, s, d) ==
  [k \in StateKeys |-> IF k \in {<< "receipt", s >>, << "ack", s >>, << "/acks", s >>} THEN d
                       ELSE w[k]]

\* Receiving a packet keeps the agreement, and is what the ledger says.
LEMMA ReceivePacket ==
  ASSUME NEW w \in Worlds, NEW msg, msg.type = "recv", msg.data \in Data, msg.seq \in Seqs,
         ReceiptIn(w, msg.seq) = Absent
  PROVE  /\ Received(w, msg.seq, msg.data) \in Worlds
         /\ LedgerOf(Received(w, msg.seq, msg.data)) = Ledger!Apply(LedgerOf(w), msg)
<1>. DEFINE n == msg.seq
            d == msg.data
            v == Received(w, n, d)
            l == LedgerOf(w)
<1>1. n \in Seqs /\ d \in Data /\ d # Absent /\ ReceiptIn(w, n) = Absent
  BY ConstantsAssumption
<1>2. ReceiptIn(v, n) = d /\ AckIn(v, n) = d /\ AckEventIn(v, n) = d /\ NextIn(v) = NextIn(w)
  BY <1>1 DEF Received, NextSend, StateKeys, AppKeys, EventKeys, NextIn, ReceiptIn, AckIn,
              AckEventIn
<1>3. ASSUME NEW s \in Seqs
      PROVE  /\ PacketIn(v, s) = PacketIn(w, s)
             /\ CommitmentIn(v, s) = CommitmentIn(w, s)
             /\ s # n => /\ ReceiptIn(v, s) = ReceiptIn(w, s)
                         /\ AckIn(v, s) = AckIn(w, s)
                         /\ AckEventIn(v, s) = AckEventIn(w, s)
  BY <1>1 DEF Received, NextSend, StateKeys, AppKeys, EventKeys, PacketIn, CommitmentIn,
              ReceiptIn, AckIn, AckEventIn
<1>4. v \in [StateKeys -> Data \cup {Absent} \cup 1 .. MaxPackets + 1]
  BY <1>1, WorldFacts DEF Received
<1>5. /\ l # None /\ l \in Ledgers /\ NextIn(w) \in Nat /\ NextIn(w) \in 1 .. MaxPackets + 1
      /\ \A s \in Seqs : s \in Nat /\ Agree(w, s) /\ Typed(w, s)
  BY WorldFacts, Zenon
<1>. HIDE DEF n, d, v, l
<1>6. \A s \in Seqs : Agree(v, s) /\ Typed(v, s)
  <2>. SUFFICES ASSUME NEW s \in Seqs PROVE Agree(v, s) /\ Typed(v, s)
    OBVIOUS
  <2>1. CASE s = n
    BY <1>1, <1>2, <1>3, <1>5, <2>1 DEF Agree, Typed
  <2>2. CASE s # n
    BY <1>1, <1>2, <1>3, <1>5, <2>2 DEF Agree, Typed
  <2>. QED  BY <2>1, <2>2
<1>7. v \in Worlds
  BY <1>2, <1>4, <1>5, <1>6 DEF Worlds
<1>8. LedgerOf(v).sent = l.sent
  <2>1. \A s \in 1 .. NextIn(w) - 1 : s \in Seqs
    BY <1>5, ConstantsAssumption DEF Seqs
  <2>. QED  BY <1>2, <1>3, <2>1 DEF LedgerOf, l
<1>9. LedgerOf(v).open = l.open
  BY <1>3 DEF LedgerOf, l
<1>10. LedgerOf(v).received = l.received \cup {<< n, d >>}
  <2>1. \A s \in Seqs : ReceiptIn(v, s) # Absent <=> ReceiptIn(w, s) # Absent \/ s = n
    BY <1>1, <1>2, <1>3
  <2>2. \A s \in Seqs : s # n => AckEventIn(v, s) = AckEventIn(w, s)
    BY <1>3
  <2>. QED  BY <1>1, <1>2, <2>1, <2>2 DEF LedgerOf, l
<1>11. n \notin {r[1] : r \in l.received}
  BY <1>1 DEF LedgerOf, l
<1>12. Ledger!Apply(l, msg) = [l EXCEPT !.received = @ \cup {<< n, d >>}]
  BY <1>5, <1>11 DEF Ledger!Apply, d, n
<1>13. LedgerOf(v) \in Ledgers
  BY <1>7, WorldFacts
<1>14. LedgerOf(v) = Ledger!Apply(l, msg)
  BY <1>5, <1>8, <1>9, <1>10, <1>12, <1>13 DEF Ledgers
<1>. QED  BY <1>7, <1>14 DEF v, d, l, n

\* The world state after packet s has been acknowledged.
Acknowledged(w, s) ==
  [k \in StateKeys |-> IF k = << "commitment", s >> THEN Absent ELSE w[k]]

\* Acknowledging a packet keeps the agreement, and is what the ledger says.
LEMMA AcknowledgePacket ==
  ASSUME NEW w \in Worlds, NEW msg, msg.type = "acknowledge", msg.seq \in Seqs,
         CommitmentIn(w, msg.seq) # Absent
  PROVE  /\ Acknowledged(w, msg.seq) \in Worlds
         /\ LedgerOf(Acknowledged(w, msg.seq)) = Ledger!Apply(LedgerOf(w), msg)
<1>. DEFINE n == msg.seq
            v == Acknowledged(w, n)
            l == LedgerOf(w)
<1>1. n \in Seqs /\ CommitmentIn(w, n) # Absent
  OBVIOUS
<1>2. CommitmentIn(v, n) = Absent /\ NextIn(v) = NextIn(w)
  BY <1>1 DEF Acknowledged, NextSend, StateKeys, AppKeys, NextIn, CommitmentIn
<1>3. ASSUME NEW s \in Seqs
      PROVE  /\ PacketIn(v, s) = PacketIn(w, s)
             /\ ReceiptIn(v, s) = ReceiptIn(w, s)
             /\ AckIn(v, s) = AckIn(w, s)
             /\ AckEventIn(v, s) = AckEventIn(w, s)
             /\ s # n => CommitmentIn(v, s) = CommitmentIn(w, s)
  BY <1>1 DEF Acknowledged, NextSend, StateKeys, AppKeys, EventKeys, PacketIn, CommitmentIn,
              ReceiptIn, AckIn, AckEventIn
<1>4. v \in [StateKeys -> Data \cup {Absent} \cup 1 .. MaxPackets + 1]
  BY <1>1, WorldFacts DEF Acknowledged
<1>5. /\ l # None /\ l \in Ledgers /\ NextIn(w) \in Nat /\ NextIn(w) \in 1 .. MaxPackets + 1
      /\ \A s \in Seqs : s \in Nat /\ Agree(w, s) /\ Typed(w, s)
  BY WorldFacts, Zenon
<1>. HIDE DEF n, v, l
<1>6. \A s \in Seqs : Agree(v, s) /\ Typed(v, s)
  <2>. SUFFICES ASSUME NEW s \in Seqs PROVE Agree(v, s) /\ Typed(v, s)
    OBVIOUS
  <2>1. CASE s = n
    BY <1>1, <1>2, <1>3, <1>5, <2>1 DEF Agree, Typed
  <2>2. CASE s # n
    BY <1>1, <1>2, <1>3, <1>5, <2>2 DEF Agree, Typed
  <2>. QED  BY <2>1, <2>2
<1>7. v \in Worlds
  BY <1>2, <1>4, <1>5, <1>6 DEF Worlds
<1>8. LedgerOf(v).sent = l.sent
  <2>1. \A s \in 1 .. NextIn(w) - 1 : s \in Seqs
    BY <1>5, ConstantsAssumption DEF Seqs
  <2>. QED  BY <1>2, <1>3, <2>1 DEF LedgerOf, l
<1>9. LedgerOf(v).received = l.received
  BY <1>3 DEF LedgerOf, l
<1>10. LedgerOf(v).open = l.open \ {n}
  <2>1. \A s \in Seqs : CommitmentIn(v, s) # Absent <=> CommitmentIn(w, s) # Absent /\ s # n
    BY <1>1, <1>2, <1>3
  <2>. QED  BY <1>1, <2>1 DEF LedgerOf, l
<1>11. n \in l.open
  BY <1>1 DEF LedgerOf, l
<1>12. Ledger!Apply(l, msg) = [l EXCEPT !.open = @ \ {n}]
  BY <1>5, <1>11 DEF Ledger!Apply, n
<1>13. LedgerOf(v) \in Ledgers
  BY <1>7, WorldFacts
<1>14. LedgerOf(v) = Ledger!Apply(l, msg)
  BY <1>5, <1>8, <1>9, <1>10, <1>12, <1>13 DEF Ledgers
<1>. QED  BY <1>7, <1>14 DEF v, l, n
------------------------------------------------------------------------------
(* A transaction on the ledger, message by message *)

\* The ledgers after each number of messages.
Executed(l, tx) ==
  CHOOSE f : f = [n \in 0 .. Len(tx) |-> IF n = 0 THEN l ELSE Ledger!Apply(f[n - 1], tx[n])]

\* The ledger after the first n messages.
LedgerAfter(l, tx, n) == Executed(l, tx)[n]

\* The recursion has a solution, whatever the transaction.
LEMMA ExecutedDef ==
  ASSUME NEW l, NEW tx \in Seq(Msgs)
  PROVE  Executed(l, tx) =
           [n \in 0 .. Len(tx) |-> IF n = 0 THEN l
                                   ELSE Ledger!Apply(Executed(l, tx)[n - 1], tx[n])]
<1>. DEFINE Step(f, m) == IF m = 0 THEN l ELSE Ledger!Apply(f[m - 1], tx[m])
            Upto(f, n) == f = [m \in 0 .. n |-> Step(f, m)]
            N == Len(tx)
            Bad == {n \in 0 .. N : ~ \E f : Upto(f, n)}
<1>1. Bad = {}
  <2>. SUFFICES ASSUME Bad # {} PROVE FALSE
    BY Zenon
  <2>1. PICK n \in Bad : \A k \in Bad : n <= k
    <3>1. Bad \subseteq Nat
      OBVIOUS
    <3>. HIDE DEF Bad
    <3>. QED  BY <3>1, NatMin, Zenon
  <2>2. CASE n = 0
    <3>1. 0 .. n = {0}
      BY <2>2
    <3>2. Upto([m \in 0 .. n |-> l], n)
      BY <3>1, Zenon
    <3>. QED  BY <2>1, <3>2, Zenon
  <2>3. CASE n # 0
    <3>1. n - 1 \in 0 .. N /\ n - 1 \notin Bad /\ n \in Nat
      <4>1. n \in 0 .. N
        BY <2>1
      <4>. HIDE DEF Bad
      <4>. QED  BY <2>1, <2>3, <4>1
    <3>2. PICK f : Upto(f, n - 1)
      BY <3>1, Zenon
    <3>. DEFINE g == [m \in 0 .. n |-> IF m = n THEN Ledger!Apply(f[n - 1], tx[n]) ELSE f[m]]
    <3>3. ASSUME NEW m \in 0 .. n PROVE g[m] = Step(g, m)
      <4>1. CASE m = n
        <5>1. n - 1 \in 0 .. n /\ n - 1 # n
          BY <2>3, <3>1
        <5>. QED  BY <2>3, <4>1, <5>1
      <4>2. CASE m # n
        <5>1. m \in 0 .. n - 1
          BY <4>2, <3>1
        <5>2. g[m] = Step(f, m)
          BY <4>2, <5>1, <3>2, Zenon
        <5>3. m # 0 => m - 1 \in 0 .. n /\ m - 1 # n
          BY <3>1, <4>2
        <5>. QED  BY <5>2, <5>3
      <4>. QED  BY <4>1, <4>2
    <3>4. Upto(g, n)
      <4>. HIDE DEF Step
      <4>. QED  BY <3>3, Zenon
    <3>. QED  BY <2>1, <3>4, Zenon
  <2>. QED  BY <2>2, <2>3
<1>2. \E f : Upto(f, N)
  <2>1. N \in 0 .. N
    OBVIOUS
  <2>. HIDE DEF Upto
  <2>. QED  BY <1>1, <2>1
<1>3. Executed(l, tx) = CHOOSE f : Upto(f, N)
  BY DEF Executed
<1>4. Upto(Executed(l, tx), N)
  <2>. HIDE DEF Upto
  <2>. QED  BY <1>2, <1>3
<1>. QED  BY <1>4, Zenon

\* The messages are applied one by one, and after the last one the ledger is what
\* the abstract specification makes of it.
LEMMA LedgerSteps ==
  ASSUME NEW l, NEW tx \in Seq(Msgs)
  PROVE  /\ LedgerAfter(l, tx, 0) = l
         /\ \A n \in 1 .. Len(tx) :
              LedgerAfter(l, tx, n) = Ledger!Apply(LedgerAfter(l, tx, n - 1), tx[n])
         /\ Ledger!Outcome(l, tx) = LedgerAfter(l, tx, Len(tx))
<1>. DEFINE f == Executed(l, tx)
<1>1. f = [n \in 0 .. Len(tx) |-> IF n = 0 THEN l ELSE Ledger!Apply(f[n - 1], tx[n])]
  BY ExecutedDef, Zenon
<1>2. Ledger!Outcome(l, tx) = f[Len(tx)]
  BY DEF Ledger!Outcome, Executed
<1>. HIDE DEF f
<1>3. f[0] = l /\ \A n \in 1 .. Len(tx) : f[n] = Ledger!Apply(f[n - 1], tx[n])
  BY <1>1
<1>. QED  BY <1>2, <1>3 DEF f, LedgerAfter

------------------------------------------------------------------------------
(* The write set *)

EventRecords == [type : {"send_packet", "write_acknowledgement"}, seq : Seqs, data : Data,
                 inOrder : BOOLEAN]

\* What the event handlers put after one more event.
LEMMA EventPut ==
  ASSUME NEW events \in Seq(EventRecords), NEW e \in EventRecords, NEW type, NEW s
  PROVE  LET new == Append(events, e) IN
         PutFor(new, OfType(new, type), s) =
           IF e.type = type /\ e.seq = s THEN e.data ELSE PutFor(events, OfType(events, type), s)
<1>. DEFINE N == Len(events)
            new == Append(events, e)
            I == {i \in OfType(events, type) : events[i].seq = s}
            J == {i \in OfType(new, type) : new[i].seq = s}
<1>1. /\ N \in Nat /\ DOMAIN events = 1 .. N /\ DOMAIN new = 1 .. N + 1
      /\ new[N + 1] = e /\ \A i \in 1 .. N : new[i] = events[i]
  OBVIOUS
<1>2. I \subseteq 1 .. N /\ J \subseteq 1 .. N + 1
  BY <1>1 DEF OfType
<1>3. \A i \in 1 .. N : i \in I <=> i \in J
  BY <1>1 DEF OfType
<1>4. N + 1 \in J <=> e.type = type /\ e.seq = s
  BY <1>1 DEF OfType
<1>5. /\ PutFor(new, OfType(new, type), s) = IF J = {} THEN Unwritten ELSE new[Max(J)].data
      /\ PutFor(events, OfType(events, type), s) = IF I = {} THEN Unwritten
                                                   ELSE events[Max(I)].data
  BY DEF PutFor
<1>. HIDE DEF I, J, new, N
<1>6. CASE e.type = type /\ e.seq = s
  <2>1. N + 1 \in J /\ J \subseteq Int /\ \A m \in J : m <= N + 1
    BY <1>1, <1>2, <1>4, <1>6
  <2>2. Max(J) = N + 1
    BY <2>1, MaxOf, Zenon
  <2>. QED  BY <1>1, <1>5, <1>6, <2>1, <2>2 DEF new
<1>7. CASE ~ (e.type = type /\ e.seq = s)
  <2>1. J = I
    <3>1. \A i \in 1 .. N + 1 : i \in 1 .. N \/ i = N + 1
      BY <1>1
    <3>2. \A i \in J : i \in 1 .. N
      BY <1>2, <1>4, <1>7, <3>1
    <3>. QED  BY <1>2, <1>3, <3>2, Zenon
  <2>2. I # {} => Max(I) \in 1 .. N
    <3>1. I # {} => Max(I) \in I
      BY <1>1, <1>2, MaxIn, Zenon
    <3>. QED  BY <1>2, <3>1, Zenon
  <2>3. PutFor(new, OfType(new, type), s) = PutFor(events, OfType(events, type), s)
    BY <1>1, <1>5, <2>1, <2>2
  <2>. QED  BY <1>7, <2>3 DEF new
<1>. QED  BY <1>6, <1>7

PacketPut(events, s) == PutFor(events, OfType(events, "send_packet"), s)
AckPut(events, s) == PutFor(events, OfType(events, "write_acknowledgement"), s)

\* The keys that are not of the IBC store.
LEMMA EventKeysFacts ==
  ASSUME NEW s \in Seqs
  PROVE  /\ << "/packets", s >> \in StateKeys /\ << "/packets", s >> \notin AppKeys
         /\ << "/acks", s >> \in StateKeys /\ << "/acks", s >> \notin AppKeys
BY DEF StateKeys, EventKeys, AppKeys, NextSend

\* What a write set has for each kind of key.
LEMMA WriteSetFacts ==
  ASSUME NEW cache, NEW events
  PROVE  /\ \A k \in AppKeys : k \in StateKeys /\ WriteSet(cache, events)[k] = cache[k]
         /\ \A s \in Seqs :
              /\ PacketIn(WriteSet(cache, events), s) = PacketPut(events, s)
              /\ AckEventIn(WriteSet(cache, events), s) = AckPut(events, s)
<1>1. ASSUME NEW k \in AppKeys PROVE k \in StateKeys /\ WriteSet(cache, events)[k] = cache[k]
  <2>1. k \in StateKeys
    BY DEF StateKeys
  <2>2. k[1] # "/packets" /\ k[1] # "/acks"
    BY DEF AppKeys, NextSend
  <2>. QED  BY <2>1, <2>2 DEF WriteSet
<1>2. ASSUME NEW s \in Seqs PROVE PacketIn(WriteSet(cache, events), s) = PacketPut(events, s)
  <2>. DEFINE k == << "/packets", s >>
  <2>1. k \in StateKeys /\ k \notin AppKeys /\ k[1] = "/packets" /\ k[2] = s
    BY EventKeysFacts, Zenon
  <2>. HIDE DEF k
  <2>2. WriteSet(cache, events)[k] = HandlePacketEvent(events)[s]
    BY <2>1 DEF WriteSet
  <2>. QED  BY <2>2 DEF HandlePacketEvent, getPacketsFromEvents, PacketPut, PacketIn, k
<1>3. ASSUME NEW s \in Seqs PROVE AckEventIn(WriteSet(cache, events), s) = AckPut(events, s)
  <2>. DEFINE k == << "/acks", s >>
  <2>1. k \in StateKeys /\ k \notin AppKeys /\ k[1] = "/acks" /\ k[2] = s /\ k[1] # "/packets"
    BY EventKeysFacts, Zenon
  <2>. HIDE DEF k
  <2>2. WriteSet(cache, events)[k] = HandlePacketAcknowledgementEvent(events)[s]
    BY <2>1 DEF WriteSet
  <2>. QED  BY <2>2 DEF HandlePacketAcknowledgementEvent, getPacketAcknowledgementsFromEvents,
                       AckPut, AckEventIn, k
<1>. QED  BY <1>1, <1>2, <1>3

\* The world state after the write set has been applied to w.
Written(w, writes) ==
  [k \in StateKeys |-> IF writes[k] = Unwritten THEN w[k] ELSE writes[k]]

\* What it has for each kind of key.
LEMMA WrittenFacts ==
  ASSUME NEW w, NEW writes
  PROVE  /\ \A k \in AppKeys :
              Written(w, writes)[k] = IF writes[k] = Unwritten THEN w[k] ELSE writes[k]
         /\ \A s \in Seqs :
              /\ PacketIn(Written(w, writes), s) =
                   IF PacketIn(writes, s) = Unwritten THEN PacketIn(w, s) ELSE PacketIn(writes, s)
              /\ AckEventIn(Written(w, writes), s) =
                   IF AckEventIn(writes, s) = Unwritten THEN AckEventIn(w, s)
                   ELSE AckEventIn(writes, s)
<1>1. ASSUME NEW k \in AppKeys
      PROVE  Written(w, writes)[k] = IF writes[k] = Unwritten THEN w[k] ELSE writes[k]
  BY DEF Written, StateKeys
<1>2. ASSUME NEW s \in Seqs
      PROVE  PacketIn(Written(w, writes), s) =
               IF PacketIn(writes, s) = Unwritten THEN PacketIn(w, s) ELSE PacketIn(writes, s)
  BY EventKeysFacts, Zenon DEF Written, PacketIn
<1>3. ASSUME NEW s \in Seqs
      PROVE  AckEventIn(Written(w, writes), s) =
               IF AckEventIn(writes, s) = Unwritten THEN AckEventIn(w, s)
               ELSE AckEventIn(writes, s)
  BY EventKeysFacts, Zenon DEF Written, AckEventIn
<1>. QED  BY <1>1, <1>2, <1>3

\* Two world states are equal if they agree on each kind of key.
LEMMA SameWorld ==
  ASSUME NEW w, NEW writes, NEW f, f = [k \in StateKeys |-> f[k]],
         \A k \in AppKeys : Written(w, writes)[k] = f[k],
         \A s \in Seqs : /\ PacketIn(Written(w, writes), s) = PacketIn(f, s)
                         /\ AckEventIn(Written(w, writes), s) = AckEventIn(f, s)
  PROVE  Written(w, writes) = f
<1>1. ASSUME NEW k \in StateKeys PROVE Written(w, writes)[k] = f[k]
  <2>1. CASE k \in AppKeys
    BY <2>1
  <2>2. CASE k \in EventKeys
    <3>1. PICK s \in Seqs : k = << "/packets", s >> \/ k = << "/acks", s >>
      BY <2>2 DEF EventKeys
    <3>. QED  BY <3>1, Zenon DEF PacketIn, AckEventIn
  <2>. QED  BY <2>1, <2>2 DEF StateKeys
<1>. QED  BY <1>1 DEF Written

\* A run that has written nothing.
LEMMA NothingWritten ==
  ASSUME NEW w \in Worlds
  PROVE  Written(w, WriteSet(EmptyCache, << >>)) = w
<1>. DEFINE writes == WriteSet(EmptyCache, << >>)
<1>1. \A k \in AppKeys : writes[k] = Unwritten
  BY WriteSetFacts DEF EmptyCache
<1>2. \A s \in Seqs : PacketPut(<< >>, s) = Unwritten /\ AckPut(<< >>, s) = Unwritten
  BY DEF PacketPut, AckPut, PutFor, OfType
<1>3. w = [k \in StateKeys |-> w[k]]
  BY WorldFacts
<1>4. \A s \in Seqs : PacketIn(writes, s) = Unwritten /\ AckEventIn(writes, s) = Unwritten
  BY <1>2, WriteSetFacts
<1>. HIDE DEF writes
<1>5. /\ \A k \in AppKeys : Written(w, writes)[k] = w[k]
      /\ \A s \in Seqs : /\ PacketIn(Written(w, writes), s) = PacketIn(w, s)
                         /\ AckEventIn(Written(w, writes), s) = AckEventIn(w, s)
  BY <1>1, <1>4, WrittenFacts
<1>6. Written(w, writes) = w
  BY <1>3, <1>5, SameWorld
<1>. QED  BY <1>6 DEF writes
------------------------------------------------------------------------------
(* One message on the cache *)

\* One more message: v is the world state that the run so far would make of w, and
\* new and e are what the message sets and the event it emits, if any.  The run
\* then makes f of w, if f is v with these changes.
LEMMA MoreWritten ==
  ASSUME NEW w, NEW cache, NEW events, NEW more, NEW new, NEW f,
         f = [k \in StateKeys |-> f[k]],
         \A k \in DOMAIN new : new[k] # Unwritten,
         \A k \in AppKeys :
           f[k] = IF k \in DOMAIN new THEN new[k]
                  ELSE Written(w, WriteSet(cache, events))[k],
         \A s \in Seqs :
           /\ PacketIn(f, s) = IF PacketPut(more, s) = Unwritten THEN PacketIn(w, s)
                               ELSE PacketPut(more, s)
           /\ AckEventIn(f, s) = IF AckPut(more, s) = Unwritten THEN AckEventIn(w, s)
                                 ELSE AckPut(more, s)
  PROVE  Written(w, WriteSet(Overlay(cache, new), more)) = f
<1>. DEFINE writes == WriteSet(Overlay(cache, new), more)
            old == WriteSet(cache, events)
<1>1. ASSUME NEW k \in AppKeys PROVE Written(w, writes)[k] = f[k]
  <2>1. writes[k] = Overlay(cache, new)[k] /\ old[k] = cache[k]
    BY WriteSetFacts
  <2>2. Overlay(cache, new)[k] = IF k \in DOMAIN new THEN new[k] ELSE cache[k]
    BY DEF Overlay
  <2>3. /\ Written(w, writes)[k] = IF writes[k] = Unwritten THEN w[k] ELSE writes[k]
        /\ Written(w, old)[k] = IF old[k] = Unwritten THEN w[k] ELSE old[k]
    BY WrittenFacts
  <2>. QED  BY <2>1, <2>2, <2>3
<1>2. ASSUME NEW s \in Seqs
      PROVE  /\ PacketIn(Written(w, writes), s) = PacketIn(f, s)
             /\ AckEventIn(Written(w, writes), s) = AckEventIn(f, s)
  <2>1. PacketIn(writes, s) = PacketPut(more, s) /\ AckEventIn(writes, s) = AckPut(more, s)
    BY WriteSetFacts
  <2>2. /\ PacketIn(Written(w, writes), s) =
             IF PacketIn(writes, s) = Unwritten THEN PacketIn(w, s) ELSE PacketIn(writes, s)
        /\ AckEventIn(Written(w, writes), s) =
             IF AckEventIn(writes, s) = Unwritten THEN AckEventIn(w, s)
             ELSE AckEventIn(writes, s)
    BY WrittenFacts
  <2>. QED  BY <2>1, <2>2
<1>. HIDE DEF writes
<1>3. Written(w, writes) = f
  BY <1>1, <1>2, SameWorld
<1>. QED  BY <1>3 DEF writes

\* What the handlers of the three kinds of messages set.
SendSets(n, d) == [k \in {NextSend, << "commitment", n >>} |-> IF k = NextSend THEN n + 1 ELSE d]
ReceiveSets(n, d) == [k \in {<< "receipt", n >>, << "ack", n >>} |-> d]
AcknowledgeSets(n) == [k \in {<< "commitment", n >>} |-> Absent]

\* A run that sends one more packet.
LEMMA SendWrites ==
  ASSUME NEW w \in Worlds, NEW cache, NEW events \in Seq(EventRecords),
         Written(w, WriteSet(cache, events)) \in Worlds,
         NEW n \in Seqs, n = NextIn(Written(w, WriteSet(cache, events))), NEW d \in Data,
         NEW e \in EventRecords, e.type = "send_packet", e.seq = n, e.data = d
  PROVE  Written(w, WriteSet(Overlay(cache, SendSets(n, d)), Append(events, e))) =
           Sent(Written(w, WriteSet(cache, events)), d)
<1>. DEFINE v == Written(w, WriteSet(cache, events))
            new == SendSets(n, d)
            more == Append(events, e)
            f == Sent(v, d)
<1>1. n \in Nat /\ n + 1 \in 1 .. MaxPackets + 1 /\ n + 1 # Unwritten /\ d # Unwritten
  BY ConstantsAssumption DEF Seqs
<1>2. \A s \in Seqs : /\ PacketPut(more, s) = IF s = n THEN d ELSE PacketPut(events, s)
                      /\ AckPut(more, s) = AckPut(events, s)
  BY EventPut DEF PacketPut, AckPut
<1>3. ASSUME NEW s \in Seqs
      PROVE  /\ PacketIn(f, s) = IF s = n THEN d ELSE PacketIn(v, s)
             /\ AckEventIn(f, s) = AckEventIn(v, s)
  BY EventKeysFacts, Zenon DEF Sent, PacketIn, AckEventIn, NextSend
<1>4. ASSUME NEW s \in Seqs
      PROVE  /\ PacketIn(v, s) = IF PacketPut(events, s) = Unwritten THEN PacketIn(w, s)
                                 ELSE PacketPut(events, s)
             /\ AckEventIn(v, s) = IF AckPut(events, s) = Unwritten THEN AckEventIn(w, s)
                                   ELSE AckPut(events, s)
  BY WrittenFacts, WriteSetFacts
<1>5. ASSUME NEW k \in AppKeys
      PROVE  f[k] = IF k \in DOMAIN new THEN new[k] ELSE v[k]
  <2>1. k \in StateKeys /\ k # << "/packets", n >>
    BY EventKeysFacts, Zenon DEF StateKeys
  <2>. QED  BY <2>1 DEF Sent, SendSets
<1>6. f = [k \in StateKeys |-> f[k]] /\ \A k \in DOMAIN new : new[k] # Unwritten
  BY <1>1 DEF Sent, SendSets
<1>. HIDE DEF v, f, new, more
<1>7. \A s \in Seqs :
        /\ PacketIn(f, s) = IF PacketPut(more, s) = Unwritten THEN PacketIn(w, s)
                            ELSE PacketPut(more, s)
        /\ AckEventIn(f, s) = IF AckPut(more, s) = Unwritten THEN AckEventIn(w, s)
                              ELSE AckPut(more, s)
  BY <1>1, <1>2, <1>3, <1>4, Zenon
<1>8. Written(w, WriteSet(Overlay(cache, new), more)) = f
  <2>1. \A k \in AppKeys : f[k] = IF k \in DOMAIN new THEN new[k]
                                 ELSE Written(w, WriteSet(cache, events))[k]
    BY <1>5 DEF v
  <2>. QED  BY <2>1, <1>6, <1>7, MoreWritten, SMTT(120)
<1>. QED  BY <1>8 DEF v, f, new, more

\* A run that receives one more packet.
LEMMA ReceiveWrites ==
  ASSUME NEW w \in Worlds, NEW cache, NEW events \in Seq(EventRecords),
         Written(w, WriteSet(cache, events)) \in Worlds,
         NEW n \in Seqs, NEW d \in Data, NEW e \in EventRecords,
         e.type = "write_acknowledgement", e.seq = n, e.data = d
  PROVE  Written(w, WriteSet(Overlay(cache, ReceiveSets(n, d)), Append(events, e))) =
           Received(Written(w, WriteSet(cache, events)), n, d)
<1>. DEFINE v == Written(w, WriteSet(cache, events))
            new == ReceiveSets(n, d)
            more == Append(events, e)
            f == Received(v, n, d)
<1>1. d # Unwritten
  BY ConstantsAssumption
<1>2. \A s \in Seqs : /\ AckPut(more, s) = IF s = n THEN d ELSE AckPut(events, s)
                      /\ PacketPut(more, s) = PacketPut(events, s)
  BY EventPut DEF PacketPut, AckPut
<1>3. ASSUME NEW s \in Seqs
      PROVE  /\ AckEventIn(f, s) = IF s = n THEN d ELSE AckEventIn(v, s)
             /\ PacketIn(f, s) = PacketIn(v, s)
  BY EventKeysFacts, Zenon DEF Received, PacketIn, AckEventIn
<1>4. ASSUME NEW s \in Seqs
      PROVE  /\ PacketIn(v, s) = IF PacketPut(events, s) = Unwritten THEN PacketIn(w, s)
                                 ELSE PacketPut(events, s)
             /\ AckEventIn(v, s) = IF AckPut(events, s) = Unwritten THEN AckEventIn(w, s)
                                   ELSE AckPut(events, s)
  BY WrittenFacts, WriteSetFacts
<1>5. ASSUME NEW k \in AppKeys
      PROVE  f[k] = IF k \in DOMAIN new THEN new[k] ELSE v[k]
  <2>1. k \in StateKeys /\ k # << "/acks", n >>
    BY EventKeysFacts, Zenon DEF StateKeys
  <2>. QED  BY <2>1 DEF Received, ReceiveSets
<1>6. f = [k \in StateKeys |-> f[k]] /\ \A k \in DOMAIN new : new[k] # Unwritten
  BY <1>1 DEF Received, ReceiveSets
<1>. HIDE DEF v, f, new, more
<1>7. \A s \in Seqs :
        /\ PacketIn(f, s) = IF PacketPut(more, s) = Unwritten THEN PacketIn(w, s)
                            ELSE PacketPut(more, s)
        /\ AckEventIn(f, s) = IF AckPut(more, s) = Unwritten THEN AckEventIn(w, s)
                              ELSE AckPut(more, s)
  BY <1>1, <1>2, <1>3, <1>4, Zenon
<1>8. Written(w, WriteSet(Overlay(cache, new), more)) = f
  <2>1. \A k \in AppKeys : f[k] = IF k \in DOMAIN new THEN new[k]
                                 ELSE Written(w, WriteSet(cache, events))[k]
    BY <1>5 DEF v
  <2>. QED  BY <2>1, <1>6, <1>7, MoreWritten, SMTT(120)
<1>. QED  BY <1>8 DEF v, f, new, more

\* A run that acknowledges one more packet.
LEMMA AcknowledgeWrites ==
  ASSUME NEW w \in Worlds, NEW cache, NEW events \in Seq(EventRecords),
         Written(w, WriteSet(cache, events)) \in Worlds, NEW n \in Seqs
  PROVE  Written(w, WriteSet(Overlay(cache, AcknowledgeSets(n)), events)) =
           Acknowledged(Written(w, WriteSet(cache, events)), n)
<1>. DEFINE v == Written(w, WriteSet(cache, events))
            new == AcknowledgeSets(n)
            f == Acknowledged(v, n)
<1>1. Absent # Unwritten
  BY ConstantsAssumption
<1>3. ASSUME NEW s \in Seqs
      PROVE  /\ AckEventIn(f, s) = AckEventIn(v, s)
             /\ PacketIn(f, s) = PacketIn(v, s)
  BY EventKeysFacts, Zenon DEF Acknowledged, PacketIn, AckEventIn
<1>4. ASSUME NEW s \in Seqs
      PROVE  /\ PacketIn(v, s) = IF PacketPut(events, s) = Unwritten THEN PacketIn(w, s)
                                 ELSE PacketPut(events, s)
             /\ AckEventIn(v, s) = IF AckPut(events, s) = Unwritten THEN AckEventIn(w, s)
                                   ELSE AckPut(events, s)
  BY WrittenFacts, WriteSetFacts
<1>5. ASSUME NEW k \in AppKeys
      PROVE  f[k] = IF k \in DOMAIN new THEN new[k] ELSE v[k]
  BY DEF Acknowledged, AcknowledgeSets, StateKeys
<1>6. f = [k \in StateKeys |-> f[k]] /\ \A k \in DOMAIN new : new[k] # Unwritten
  BY <1>1 DEF Acknowledged, AcknowledgeSets
<1>. HIDE DEF v, f, new
<1>7. \A s \in Seqs :
        /\ PacketIn(f, s) = IF PacketPut(events, s) = Unwritten THEN PacketIn(w, s)
                            ELSE PacketPut(events, s)
        /\ AckEventIn(f, s) = IF AckPut(events, s) = Unwritten THEN AckEventIn(w, s)
                              ELSE AckPut(events, s)
  BY <1>3, <1>4
<1>8. Written(w, WriteSet(Overlay(cache, new), events)) = f
  <2>1. \A k \in AppKeys : f[k] = IF k \in DOMAIN new THEN new[k]
                                 ELSE Written(w, WriteSet(cache, events))[k]
    BY <1>5 DEF v
  <2>. QED  BY <2>1, <1>6, <1>7, MoreWritten, SMTT(120)
<1>. QED  BY <1>8 DEF v, f, new
------------------------------------------------------------------------------
(* The invariant *)

InOrder(events) == \A i \in DOMAIN events : events[i].inOrder

\* The first n messages of tx turn w into what the write set makes of it.
Executes(tx, n, writes, w) ==
  /\ Written(w, writes) \in Worlds
  /\ LedgerOf(Written(w, writes)) = LedgerAfter(LedgerOf(w), tx, n)

\* w has what was read from the stub.
Alike(w, K) == \A k \in K : w[k] = world[k]

CacheValues == Data \cup {Absent, Unwritten} \cup 1 .. MaxPackets + 1

SimType ==
  /\ sim \in [client : Clients, tx : Txs, left : Seq(Msgs), cache : [AppKeys -> CacheValues],
              reads : SUBSET AppKeys, events : Seq(EventRecords)]
  /\ sim.cache[NextSend] \in {Unwritten} \cup 1 .. MaxPackets + 1

Done == Len(sim.tx) - Len(sim.left)

\* A simulation has executed the messages up to left: not only on the committed
\* state, but on every world state that has what it read.
SimInv ==
  sim # None =>
    /\ SimType
    /\ Done \in 0 .. Len(sim.tx)
    /\ \A i \in 1 .. Len(sim.left) : sim.left[i] = sim.tx[Done + i]
    /\ InOrder(sim.events) =>
         \A w \in Worlds : Alike(w, sim.reads) =>
           Executes(sim.tx, Done, WriteSet(sim.cache, sim.events), w)

\* The same of an endorsed transaction, as long as its reads are valid.
PendingOK(p) ==
  /\ p.tx \in Txs
  /\ DOMAIN p.reads \subseteq AppKeys
  /\ \A k \in DOMAIN p.reads : p.reads[k] \in Nat /\ p.reads[k] <= version[k]
  /\ Valid(p) =>
       \A w \in Worlds : Alike(w, DOMAIN p.reads) => Executes(p.tx, Len(p.tx), p.writes, w)

AppInv ==
  /\ world \in Worlds
  /\ version \in [StateKeys -> Nat]
  /\ SimInv
  /\ DOMAIN pending = Clients /\ pending = [c \in Clients |-> pending[c]]
  /\ \A c \in Clients : pending[c] # None => PendingOK(pending[c])

\* The first state.
LEMMA InitApp == Init => AppInv /\ LedgerOf(world) = [sent |-> << >>, open |-> {}, received |-> {}]
<1>. SUFFICES ASSUME Init
              PROVE  AppInv /\ LedgerOf(world) = [sent |-> << >>, open |-> {}, received |-> {}]
  OBVIOUS
<1>1. /\ world = [k \in StateKeys |-> IF k = NextSend THEN 1 ELSE Absent]
      /\ version = [k \in StateKeys |-> 0] /\ sim = None /\ pending = [c \in Clients |-> None]
  BY DEF Init
<1>2. NextSend \in StateKeys /\ 1 \in 1 .. MaxPackets + 1
  BY ConstantsAssumption DEF StateKeys, AppKeys
<1>3. NextIn(world) = 1
  BY <1>1, <1>2 DEF NextIn
<1>4. ASSUME NEW s \in Seqs
      PROVE  /\ PacketIn(world, s) = Absent /\ CommitmentIn(world, s) = Absent
             /\ ReceiptIn(world, s) = Absent /\ AckIn(world, s) = Absent
             /\ AckEventIn(world, s) = Absent /\ s \in Nat /\ 1 <= s
  BY <1>1 DEF PacketIn, CommitmentIn, ReceiptIn, AckIn, AckEventIn, NextSend, StateKeys, AppKeys,
              EventKeys, Seqs
<1>5. world \in [StateKeys -> Data \cup {Absent} \cup 1 .. MaxPackets + 1]
  BY <1>1, <1>2
<1>6. \A s \in Seqs : Agree(world, s) /\ Typed(world, s)
  BY <1>3, <1>4 DEF Agree, Typed
<1>7. world \in Worlds
  BY <1>2, <1>3, <1>5, <1>6 DEF Worlds
<1>8. LedgerOf(world) = [sent |-> << >>, open |-> {}, received |-> {}]
  <2>1. [s \in 1 .. NextIn(world) - 1 |-> PacketIn(world, s)] = << >>
    BY <1>3
  <2>2. {s \in Seqs : CommitmentIn(world, s) # Absent} = {}
    BY <1>4
  <2>3. {r \in Seqs : ReceiptIn(world, r) # Absent} = {}
    BY <1>4
  <2>. QED  BY <2>1, <2>2, <2>3, Zenon DEF LedgerOf
<1>. QED  BY <1>1, <1>7, <1>8 DEF AppInv, SimInv

\* The fields of the messages.
LEMMA MsgFacts ==
  ASSUME NEW msg \in Msgs
  PROVE  /\ msg.type \in {"send", "odd", "recv", "acknowledge", "fail", "invalid"}
         /\ msg.type \in {"send", "odd", "recv"} => msg.data \in Data
         /\ msg.type \in {"recv", "acknowledge"} => msg.seq \in Seqs
BY DEF Msgs

\* What a message reads is what the run so far has made of every world state that
\* has what the run has read.
LEMMA ReadAlike ==
  ASSUME NEW w, NEW K \in SUBSET AppKeys, Alike(w, sim.reads \cup StubReads(K)), NEW k \in K
  PROVE  Get(k) = Written(w, WriteSet(sim.cache, sim.events))[k]
<1>. DEFINE writes == WriteSet(sim.cache, sim.events)
<1>1. writes[k] = sim.cache[k]
  BY WriteSetFacts
<1>2. Written(w, writes)[k] = IF writes[k] = Unwritten THEN w[k] ELSE writes[k]
  BY WrittenFacts
<1>3. sim.cache[k] = Unwritten => w[k] = world[k]
  BY DEF Alike, StubReads
<1>. QED  BY <1>1, <1>2, <1>3 DEF Get

\* A message that succeeds keeps the types, and what the run makes of w changes as
\* the ledger says, if its events have the expected form.
StepOK(msg) ==
  LET cache == Overlay(sim.cache, Sets(msg))
      events == AppendEvents(sim.events, msg)
  IN  /\ cache \in [AppKeys -> CacheValues]
      /\ cache[NextSend] \in {Unwritten} \cup 1 .. MaxPackets + 1
      /\ Reads(msg) \subseteq AppKeys
      /\ events \in Seq(EventRecords)
      /\ InOrder(events) => InOrder(sim.events)
      /\ \A w \in Worlds :
           LET v == Written(w, WriteSet(sim.cache, sim.events))
               f == Written(w, WriteSet(cache, events))
           IN  /\ InOrder(events)
               /\ Alike(w, sim.reads \cup StubReads(Reads(msg)))
               /\ v \in Worlds
               => f \in Worlds /\ LedgerOf(f) = Ledger!Apply(LedgerOf(v), msg)

\* One more packet sent, in the expected form or not.
LEMMA SendStep ==
  ASSUME world \in Worlds, SimType, NEW msg \in Msgs, msg.type \in {"send", "odd"}, Succeeds(msg)
  PROVE  StepOK(msg)
<1>. DEFINE n == Get(NextSend)
            d == msg.data
            new == SendSets(n, d)
            e == [type |-> "send_packet", seq |-> n, data |-> d, inOrder |-> msg.type = "send"]
<1>1. /\ Reads(msg) = {NextSend} /\ NextSend \in AppKeys /\ d \in Data
      /\ Sets(msg) = new /\ Events(msg) = << e >>
  BY MsgFacts, Zenon DEF Reads, Sets, SendSets, Events, AppKeys
<1>2. n \in Nat /\ n \in Seqs /\ n + 1 \in 1 .. MaxPackets + 1
  <2>1. n <= MaxPackets
    BY DEF Succeeds
  <2>2. world[NextSend] \in 1 .. MaxPackets + 1
    BY WorldFacts DEF NextIn
  <2>3. n \in 1 .. MaxPackets + 1
    BY <2>2 DEF Get, SimType
  <2>. QED  BY <2>1, <2>3, ConstantsAssumption DEF Seqs
<1>3. e \in EventRecords /\ sim.events \in Seq(EventRecords)
  BY <1>1, <1>2 DEF EventRecords, SimType
<1>4. AppendEvents(sim.events, msg) = Append(sim.events, e)
  BY <1>1, <1>3 DEF AppendEvents
<1>5. /\ Overlay(sim.cache, new) \in [AppKeys -> CacheValues]
      /\ Overlay(sim.cache, new)[NextSend] \in {Unwritten} \cup 1 .. MaxPackets + 1
  <2>1. \A k \in DOMAIN new : new[k] \in CacheValues
    BY <1>1, <1>2 DEF CacheValues, SendSets
  <2>2. sim.cache \in [AppKeys -> CacheValues]
    BY DEF SimType
  <2>3. NextSend \in DOMAIN new /\ new[NextSend] = n + 1
    BY DEF SendSets
  <2>. HIDE DEF new
  <2>. QED  BY <1>1, <1>2, <2>1, <2>2, <2>3 DEF Overlay
<1>6. InOrder(Append(sim.events, e)) => InOrder(sim.events) /\ msg.type = "send"
  <2>. SUFFICES ASSUME InOrder(Append(sim.events, e)) PROVE InOrder(sim.events) /\ msg.type = "send"
    OBVIOUS
  <2>1. \A i \in DOMAIN sim.events : i \in DOMAIN Append(sim.events, e)
                                     /\ Append(sim.events, e)[i] = sim.events[i]
    BY <1>3
  <2>2. /\ Len(sim.events) + 1 \in DOMAIN Append(sim.events, e)
        /\ Append(sim.events, e)[Len(sim.events) + 1] = e
    BY <1>3
  <2>3. e.inOrder
    BY <2>2, Zenon DEF InOrder
  <2>. QED  BY <2>1, <2>3, Zenon DEF InOrder
<1>7. ASSUME NEW w \in Worlds, InOrder(Append(sim.events, e)),
             Alike(w, sim.reads \cup StubReads({NextSend})),
             Written(w, WriteSet(sim.cache, sim.events)) \in Worlds
      PROVE  LET v == Written(w, WriteSet(sim.cache, sim.events))
                 f == Written(w, WriteSet(Overlay(sim.cache, new), Append(sim.events, e)))
             IN  f \in Worlds /\ LedgerOf(f) = Ledger!Apply(LedgerOf(v), msg)
  <2>. DEFINE v == Written(w, WriteSet(sim.cache, sim.events))
  <2>1. n = NextIn(v)
    <3>1. {NextSend} \in SUBSET AppKeys /\ NextSend \in {NextSend}
      BY <1>1
    <3>. QED  BY <1>7, <3>1, ReadAlike, Zenon DEF NextIn
  <2>2. e.type = "send_packet" /\ e.seq = n /\ e.data = d
    BY Zenon
  <2>. HIDE DEF n, e, d
  <2>3. Written(w, WriteSet(Overlay(sim.cache, new), Append(sim.events, e))) = Sent(v, d)
    <3>1. n \in Seqs /\ d \in Data /\ e \in EventRecords /\ sim.events \in Seq(EventRecords)
      BY <1>1, <1>2, <1>3
    <3>. QED  BY <1>7, <2>1, <2>2, <3>1, SendWrites DEF new
  <2>4. NextIn(v) <= MaxPackets /\ msg.type = "send"
    BY <1>2, <1>6, <1>7, <2>1, ConstantsAssumption DEF Seqs
  <2>5. Sent(v, d) \in Worlds /\ LedgerOf(Sent(v, d)) = Ledger!Apply(LedgerOf(v), msg)
    BY <1>1, <1>7, <2>4, SendPacket, Zenon DEF d
  <2>. QED  BY <2>3, <2>5
<1>. HIDE DEF n, d, new, e
<1>8. AppendEvents(sim.events, msg) \in Seq(EventRecords)
  BY <1>3, <1>4
<1>. QED  BY <1>1, <1>4, <1>5, <1>6, <1>7, <1>8, Zenon DEF StepOK

\* One more packet received.
LEMMA ReceiveStep ==
  ASSUME world \in Worlds, SimType, NEW msg \in Msgs, msg.type = "recv", Succeeds(msg)
  PROVE  StepOK(msg)
<1>. DEFINE n == msg.seq
            d == msg.data
            key == << "receipt", n >>
            new == ReceiveSets(n, d)
            e == [type |-> "write_acknowledgement", seq |-> n, data |-> d, inOrder |-> TRUE]
<1>1. /\ Reads(msg) = {key} /\ n \in Seqs /\ d \in Data /\ key \in AppKeys
      /\ Sets(msg) = new /\ Events(msg) = << e >>
  BY MsgFacts, Zenon DEF Reads, Sets, ReceiveSets, Events, AppKeys
<1>2. Get(key) = Absent
  BY DEF Succeeds
<1>3. e \in EventRecords /\ sim.events \in Seq(EventRecords)
  BY <1>1 DEF EventRecords, SimType
<1>4. AppendEvents(sim.events, msg) = Append(sim.events, e)
  BY <1>1, <1>3 DEF AppendEvents
<1>5. /\ Overlay(sim.cache, new) \in [AppKeys -> CacheValues]
      /\ Overlay(sim.cache, new)[NextSend] \in {Unwritten} \cup 1 .. MaxPackets + 1
  <2>1. \A k \in DOMAIN new : new[k] \in CacheValues
    BY <1>1 DEF CacheValues, ReceiveSets
  <2>2. /\ sim.cache \in [AppKeys -> CacheValues]
        /\ sim.cache[NextSend] \in {Unwritten} \cup 1 .. MaxPackets + 1
    BY DEF SimType
  <2>3. NextSend \notin DOMAIN new /\ NextSend \in AppKeys
    BY Zenon DEF ReceiveSets, NextSend, AppKeys
  <2>. HIDE DEF new
  <2>. QED  BY <2>1, <2>2, <2>3, Zenon DEF Overlay
<1>6. InOrder(Append(sim.events, e)) => InOrder(sim.events)
  <2>1. \A i \in DOMAIN sim.events : i \in DOMAIN Append(sim.events, e)
                                     /\ Append(sim.events, e)[i] = sim.events[i]
    BY <1>3
  <2>. QED  BY <2>1 DEF InOrder
<1>7. ASSUME NEW w \in Worlds, Alike(w, sim.reads \cup StubReads({key})),
             Written(w, WriteSet(sim.cache, sim.events)) \in Worlds
      PROVE  LET v == Written(w, WriteSet(sim.cache, sim.events))
                 f == Written(w, WriteSet(Overlay(sim.cache, new), Append(sim.events, e)))
             IN  f \in Worlds /\ LedgerOf(f) = Ledger!Apply(LedgerOf(v), msg)
  <2>. DEFINE v == Written(w, WriteSet(sim.cache, sim.events))
  <2>1. ReceiptIn(v, n) = Absent
    <3>1. {key} \in SUBSET AppKeys /\ key \in {key}
      BY <1>1
    <3>2. Get(key) = v[key]
      BY <1>7, <3>1, ReadAlike, Zenon
    <3>. QED  BY <1>2, <3>2, Zenon DEF ReceiptIn
  <2>2. e.type = "write_acknowledgement" /\ e.seq = n /\ e.data = d
    BY Zenon
  <2>. HIDE DEF n, e, d
  <2>3. Written(w, WriteSet(Overlay(sim.cache, new), Append(sim.events, e))) = Received(v, n, d)
    <3>1. n \in Seqs /\ d \in Data /\ e \in EventRecords /\ sim.events \in Seq(EventRecords)
      BY <1>1, <1>3
    <3>. QED  BY <1>7, <2>2, <3>1, ReceiveWrites DEF new
  <2>4. /\ Received(v, n, d) \in Worlds
        /\ LedgerOf(Received(v, n, d)) = Ledger!Apply(LedgerOf(v), msg)
    BY <1>1, <1>7, <2>1, ReceivePacket, Zenon DEF d, n
  <2>. QED  BY <2>3, <2>4, Zenon
<1>. HIDE DEF n, d, key, new, e
<1>8. AppendEvents(sim.events, msg) \in Seq(EventRecords)
  BY <1>3, <1>4
<1>9. Reads(msg) \subseteq AppKeys
  BY <1>1
<1>. QED  BY <1>1, <1>4, <1>5, <1>6, <1>7, <1>8, <1>9, Zenon DEF StepOK

\* One more packet acknowledged.
LEMMA AcknowledgeStep ==
  ASSUME world \in Worlds, SimType, NEW msg \in Msgs, msg.type = "acknowledge", Succeeds(msg)
  PROVE  StepOK(msg)
<1>. DEFINE n == msg.seq
            key == << "commitment", n >>
            new == AcknowledgeSets(n)
<1>1. /\ Reads(msg) = {key} /\ n \in Seqs /\ key \in AppKeys
      /\ Sets(msg) = new /\ Events(msg) = << >>
  BY MsgFacts DEF Reads, Sets, AcknowledgeSets, Events, AppKeys
<1>2. Get(key) # Absent
  BY DEF Succeeds
<1>3. sim.events \in Seq(EventRecords)
  BY DEF SimType
<1>4. AppendEvents(sim.events, msg) = sim.events
  BY <1>1, <1>3 DEF AppendEvents
<1>5. /\ Overlay(sim.cache, new) \in [AppKeys -> CacheValues]
      /\ Overlay(sim.cache, new)[NextSend] \in {Unwritten} \cup 1 .. MaxPackets + 1
  <2>1. \A k \in DOMAIN new : new[k] \in CacheValues
    BY <1>1 DEF CacheValues, AcknowledgeSets
  <2>2. /\ sim.cache \in [AppKeys -> CacheValues]
        /\ sim.cache[NextSend] \in {Unwritten} \cup 1 .. MaxPackets + 1
    BY DEF SimType
  <2>3. NextSend \notin DOMAIN new /\ NextSend \in AppKeys
    BY DEF AcknowledgeSets, NextSend, AppKeys
  <2>. HIDE DEF new
  <2>. QED  BY <2>1, <2>2, <2>3 DEF Overlay
<1>6. ASSUME NEW w \in Worlds, Alike(w, sim.reads \cup StubReads({key})),
             Written(w, WriteSet(sim.cache, sim.events)) \in Worlds
      PROVE  LET v == Written(w, WriteSet(sim.cache, sim.events))
                 f == Written(w, WriteSet(Overlay(sim.cache, new), sim.events))
             IN  f \in Worlds /\ LedgerOf(f) = Ledger!Apply(LedgerOf(v), msg)
  <2>. DEFINE v == Written(w, WriteSet(sim.cache, sim.events))
  <2>1. CommitmentIn(v, n) # Absent
    <3>1. {key} \in SUBSET AppKeys /\ key \in {key}
      BY <1>1
    <3>2. Get(key) = v[key]
      BY <1>6, <3>1, ReadAlike, Zenon
    <3>. QED  BY <1>2, <3>2 DEF CommitmentIn
  <2>. HIDE DEF n
  <2>2. Written(w, WriteSet(Overlay(sim.cache, new), sim.events)) = Acknowledged(v, n)
    BY <1>1, <1>3, <1>6, AcknowledgeWrites DEF new
  <2>3. /\ Acknowledged(v, n) \in Worlds
        /\ LedgerOf(Acknowledged(v, n)) = Ledger!Apply(LedgerOf(v), msg)
    BY <1>1, <1>6, <2>1, AcknowledgePacket, Zenon DEF n
  <2>. QED  BY <2>2, <2>3, Zenon
<1>. HIDE DEF n, key, new
<1>7. Reads(msg) \subseteq AppKeys
  BY <1>1
<1>. QED  BY <1>1, <1>3, <1>4, <1>5, <1>6, <1>7, Zenon DEF StepOK

\* No other message succeeds.
LEMMA MsgStep ==
  ASSUME world \in Worlds, SimType, NEW msg \in Msgs, Succeeds(msg)
  PROVE  StepOK(msg)
<1>1. msg.type \in {"send", "odd"} \/ msg.type = "recv" \/ msg.type = "acknowledge"
  BY MsgFacts, Zenon DEF Succeeds
<1>. QED  BY <1>1, SendStep, ReceiveStep, AcknowledgeStep, Zenon
------------------------------------------------------------------------------
(* The invariant is kept *)

\* A simulation starts with nothing executed and nothing written.
LEMMA RunTxKeeps ==
  ASSUME AppInv, NEW c \in Clients, NEW tx \in Txs, RunTx(c, tx)
  PROVE  AppInv'
<1>1. /\ sim' = [client |-> c, tx |-> tx, left |-> tx, cache |-> EmptyCache,
                 reads |-> {}, events |-> << >>]
      /\ world' = world /\ version' = version /\ pending' = pending
  BY Zenon DEF RunTx
<1>2. tx \in Seq(Msgs) /\ Len(tx) \in Nat
  BY TxsAssumption
<1>3. SimType'
  <2>1. EmptyCache \in [AppKeys -> CacheValues] /\ EmptyCache[NextSend] = Unwritten
    BY DEF EmptyCache, CacheValues, AppKeys
  <2>2. sim' \in [client : Clients, tx : Txs, left : Seq(Msgs), cache : [AppKeys -> CacheValues],
                  reads : SUBSET AppKeys, events : Seq(EventRecords)]
    BY <1>1, <1>2, <2>1
  <2>3. sim'.cache[NextSend] = Unwritten
    BY <1>1, <2>1, Zenon
  <2>. QED  BY <2>2, <2>3, Zenon DEF SimType
<1>4. /\ sim'.tx = tx /\ sim'.left = tx /\ sim'.reads = {} /\ sim'.events = << >>
      /\ sim'.cache = EmptyCache
  BY <1>1
<1>5. Done' = 0
  BY <1>2, <1>4 DEF Done
<1>6. ASSUME NEW w \in Worlds PROVE Executes(tx, 0, WriteSet(EmptyCache, << >>), w)
  BY <1>2, NothingWritten, LedgerSteps DEF Executes
<1>7. \A i \in 1 .. Len(tx) : tx[i] = tx[0 + i]
  BY <1>2
<1>8. SimInv'
  <2>1. Done' \in 0 .. Len(sim'.tx)
    BY <1>2, <1>4, <1>5
  <2>2. \A i \in 1 .. Len(sim'.left) : sim'.left[i] = sim'.tx[Done' + i]
    BY <1>4, <1>5, <1>7, Zenon
  <2>3. \A w \in Worlds : Executes(sim'.tx, Done', WriteSet(sim'.cache, sim'.events), w)
    BY <1>4, <1>5, <1>6, Zenon
  <2>. QED  BY <1>3, <2>1, <2>2, <2>3, Zenon DEF SimInv
<1>9. ASSUME NEW p, PendingOK(p) PROVE PendingOK(p)'
  BY <1>1, <1>9, Zenon DEF PendingOK, Valid, Alike
<1>. QED  BY <1>1, <1>8, <1>9, ZenonT(30) DEF AppInv

\* One more message of the transaction has been executed, or the transaction ends.
LEMMA RunMsgKeeps ==
  ASSUME AppInv, RunMsg
  PROVE  AppInv'
<1>. DEFINE msg == Head(sim.left)
            cache == Overlay(sim.cache, Sets(msg))
            reads == sim.reads \cup StubReads(Reads(msg))
            events == AppendEvents(sim.events, msg)
<1>1. /\ sim # None /\ sim.left # << >> /\ runMsgs(msg)
      /\ world' = world /\ version' = version /\ pending' = pending
  BY Zenon DEF RunMsg
<1>2. ASSUME NEW p, PendingOK(p) PROVE PendingOK(p)'
  BY <1>1, <1>2, Zenon DEF PendingOK, Valid, Alike
<1>3. /\ SimType /\ Done \in 0 .. Len(sim.tx) /\ world \in Worlds
      /\ \A i \in 1 .. Len(sim.left) : sim.left[i] = sim.tx[Done + i]
      /\ sim.tx \in Seq(Msgs) /\ sim.left \in Seq(Msgs) /\ Len(sim.left) \in Nat \ {0}
      /\ sim.tx \in Txs
  <2>1. SimInv /\ world \in Worlds
    BY DEF AppInv
  <2>2. SimType
    BY <1>1, <2>1 DEF SimInv
  <2>3. sim.tx \in Txs /\ sim.left \in Seq(Msgs)
    BY <2>2 DEF SimType
  <2>4. sim.tx \in Seq(Msgs)
    BY <2>3, TxsAssumption
  <2>5. Len(sim.left) \in Nat \ {0}
    BY <1>1, <2>3
  <2>. QED  BY <1>1, <2>1, <2>2, <2>3, <2>4, <2>5, Zenon DEF SimInv
<1>4. CASE ~ Succeeds(msg)
  <2>1. sim' = None
    BY <1>1, <1>4, Zenon DEF runMsgs
  <2>2. SimInv'
    BY <2>1 DEF SimInv
  <2>. QED  BY <1>1, <1>2, <2>2 DEF AppInv
<1>5. CASE Succeeds(msg)
  <2>1. sim' = [sim EXCEPT !.left = Tail(@), !.cache = cache, !.reads = reads, !.events = events]
    BY <1>1, <1>5 DEF runMsgs
  <2>2. /\ sim'.client = sim.client /\ sim'.tx = sim.tx /\ sim'.left = Tail(sim.left)
        /\ sim'.cache = cache /\ sim'.reads = reads /\ sim'.events = events
        /\ sim' = [client |-> sim.client, tx |-> sim.tx, left |-> Tail(sim.left), cache |-> cache,
                   reads |-> reads, events |-> events]
    BY <1>3, <2>1, Zenon DEF SimType
  <2>3. /\ msg \in Msgs /\ msg = sim.left[1] /\ Tail(sim.left) \in Seq(Msgs)
        /\ Len(Tail(sim.left)) = Len(sim.left) - 1
        /\ \A i \in 1 .. Len(sim.left) - 1 : Tail(sim.left)[i] = sim.left[i + 1]
    BY <1>3
  <2>4. Done \in Nat /\ Done + 1 \in 1 .. Len(sim.tx) /\ msg = sim.tx[Done + 1]
    <3>. HIDE DEF msg
    <3>1. Len(sim.tx) \in Nat /\ 1 \in 1 .. Len(sim.left)
      BY <1>3
    <3>2. Done \in Nat /\ Done + 1 \in 1 .. Len(sim.tx)
      <4>1. Done \in 0 .. Len(sim.tx) /\ Len(sim.left) \in Nat \ {0}
        BY <1>3
      <4>2. Done = Len(sim.tx) - Len(sim.left)
        BY DEF Done
      <4>. DEFINE t == Len(sim.tx)
                  u == Len(sim.left)
      <4>. HIDE DEF t, u
      <4>3. Done = t - u /\ t \in Nat /\ u \in Nat \ {0} /\ Done \in 0 .. t
        BY <3>1, <4>1, <4>2, Zenon DEF t, u
      <4>4. Done \in Nat /\ Done + 1 \in 1 .. t
        BY <4>3
      <4>. QED  BY <4>4 DEF t
    <3>. QED  BY <1>3, <2>3, <3>1, <3>2, Zenon
  <2>5. StepOK(msg)
    BY <1>3, <1>5, <2>3, MsgStep, Zenon
  <2>6. /\ cache \in [AppKeys -> CacheValues]
        /\ cache[NextSend] \in {Unwritten} \cup 1 .. MaxPackets + 1
        /\ reads \in SUBSET AppKeys /\ events \in Seq(EventRecords)
        /\ InOrder(events) => InOrder(sim.events)
    <3>1. Reads(msg) \subseteq AppKeys /\ sim.reads \subseteq AppKeys
      BY <1>3, <2>5, Zenon DEF StepOK, SimType
    <3>. QED  BY <2>5, <3>1, ZenonT(30) DEF StepOK, StubReads
  <2>7. ASSUME InOrder(events), NEW w \in Worlds, Alike(w, reads)
        PROVE  Executes(sim.tx, Done + 1, WriteSet(cache, events), w)
    <3>. DEFINE v == Written(w, WriteSet(sim.cache, sim.events))
                f == Written(w, WriteSet(cache, events))
    <3>1. Alike(w, sim.reads)
      BY <2>7, Zenon DEF Alike
    <3>2. Executes(sim.tx, Done, WriteSet(sim.cache, sim.events), w)
      BY <1>1, <2>6, <2>7, <3>1, Zenon DEF AppInv, SimInv
    <3>3. v \in Worlds /\ LedgerOf(v) = LedgerAfter(LedgerOf(w), sim.tx, Done)
      BY <3>2 DEF Executes
    <3>4. f \in Worlds /\ LedgerOf(f) = Ledger!Apply(LedgerOf(v), msg)
      BY <2>5, <2>7, <3>3, Zenon DEF StepOK
    <3>5. LedgerAfter(LedgerOf(w), sim.tx, Done + 1) =
            Ledger!Apply(LedgerAfter(LedgerOf(w), sim.tx, Done), msg)
      <4>1. (Done + 1) - 1 = Done
        BY <2>4
      <4>2. \A n \in 1 .. Len(sim.tx) :
              LedgerAfter(LedgerOf(w), sim.tx, n) =
                Ledger!Apply(LedgerAfter(LedgerOf(w), sim.tx, n - 1), sim.tx[n])
        <5>1. sim.tx \in Seq(Msgs)
          BY <1>3
        <5>. QED  BY <5>1, LedgerSteps, ZenonT(30)
      <4>. QED  BY <2>4, <4>1, <4>2
    <3>. QED  BY <3>3, <3>4, <3>5, Zenon DEF Executes
  <2>. HIDE DEF msg, cache, reads, events
  <2>8. SimType'
    BY <1>3, <2>2, <2>3, <2>6, Zenon DEF SimType
  <2>9. Done' = Done + 1
    <3>1. Len(sim.tx) \in Nat
      BY <1>3
    <3>2. Len(sim'.tx) = Len(sim.tx) /\ Len(sim'.left) = Len(sim.left) - 1
      BY <2>2, <2>3, Zenon
    <3>. QED  BY <1>3, <3>1, <3>2 DEF Done
  <2>10. Done' \in 0 .. Len(sim'.tx)
    BY <2>2, <2>4, <2>9
  <2>11. \A i \in 1 .. Len(sim'.left) : sim'.left[i] = sim'.tx[Done' + i]
    <3>1. ASSUME NEW i \in 1 .. Len(sim.left) - 1
          PROVE  sim.left[i + 1] = sim.tx[(Done + 1) + i]
      <4>1. i + 1 \in 1 .. Len(sim.left) /\ Done + (i + 1) = (Done + 1) + i
        BY <1>3, <2>4
      <4>. QED  BY <1>3, <4>1, Zenon
    <3>. QED  BY <2>2, <2>3, <2>9, <3>1, Zenon
  <2>12. SimInv'
    BY <1>1, <2>2, <2>7, <2>8, <2>9, <2>10, <2>11, Zenon DEF SimInv, Alike
  <2>. QED  BY <1>1, <1>2, <2>12 DEF AppInv
<1>. QED  BY <1>4, <1>5

\* The transaction is endorsed with what the simulation has read and written.
LEMMA HandleKeeps ==
  ASSUME AppInv, Handle
  PROVE  AppInv'
<1>0. PICK p : p = [tx |-> sim.tx, reads |-> [k \in sim.reads |-> version[k]],
                    writes |-> WriteSet(sim.cache, sim.events)]
  BY Zenon
<1>1. /\ sim # None /\ sim.left = << >>
      /\ world' = world /\ version' = version /\ sim' = None
  BY DEF Handle
<1>2. /\ SimType /\ world \in Worlds /\ version \in [StateKeys -> Nat]
      /\ DOMAIN pending = Clients /\ pending = [c \in Clients |-> pending[c]]
  BY <1>1 DEF AppInv, SimInv
<1>3. /\ sim.client \in Clients /\ sim.tx \in Txs /\ sim.events \in Seq(EventRecords)
      /\ sim.reads \subseteq AppKeys
  BY <1>2, Zenon DEF SimType
<1>4. SimInv'
  BY <1>1, Zenon DEF SimInv
<1>5. ASSUME NEW q, PendingOK(q) PROVE PendingOK(q)'
  BY <1>1, <1>5, Zenon DEF PendingOK, Valid, Alike
<1>6. CASE ~ InOrder(sim.events)
  <2>1. PICK i \in DOMAIN sim.events : ~ sim.events[i].inOrder
    BY <1>6 DEF InOrder
  <2>2. sim.events[i].type \in {"send_packet", "write_acknowledgement"}
    <3>1. sim.events[i] \in EventRecords
      BY <1>3
    <3>. QED  BY <3>1 DEF EventRecords
  <2>3. i \in OfType(sim.events, "send_packet") \cup OfType(sim.events, "write_acknowledgement")
    BY <2>2, Zenon DEF OfType
  <2>4. pending' = pending
    BY <2>1, <2>3, Zenon DEF Handle, assertIndex, getPacketsFromEvents,
                      getPacketAcknowledgementsFromEvents
  <2>. QED  BY <1>1, <1>2, <1>4, <1>5, <2>4, Zenon DEF AppInv
<1>7. CASE InOrder(sim.events)
  <2>1. /\ assertIndex(sim.events, getPacketsFromEvents(sim.events))
        /\ assertIndex(sim.events, getPacketAcknowledgementsFromEvents(sim.events))
    BY <1>7, Zenon DEF InOrder, assertIndex, getPacketsFromEvents, getPacketAcknowledgementsFromEvents,
                OfType
  <2>2. pending' = [pending EXCEPT ![sim.client] = p]
    BY <1>0, <2>1 DEF Handle
  <2>3. Done = Len(sim.tx)
    <3>1. Len(sim.tx) \in Nat /\ Len(sim.left) = 0
      BY <1>1, <1>3, TxsAssumption
    <3>. QED  BY <3>1 DEF Done
  <2>4. ASSUME NEW w \in Worlds, Alike(w, sim.reads)
        PROVE  Executes(sim.tx, Len(sim.tx), WriteSet(sim.cache, sim.events), w)
    BY <1>1, <1>7, <2>3, <2>4, Zenon DEF AppInv, SimInv
  <2>5. /\ p.tx \in Txs /\ DOMAIN p.reads \subseteq AppKeys
        /\ \A k \in DOMAIN p.reads : p.reads[k] \in Nat /\ p.reads[k] <= version'[k]
    <3>1. \A k \in sim.reads : version[k] \in Nat
      BY <1>2, <1>3, Zenon DEF StateKeys
    <3>. QED  BY <1>0, <1>1, <1>3, <3>1
  <2>6. ASSUME NEW w \in Worlds, Alike(w, DOMAIN p.reads)'
        PROVE  Executes(p.tx, Len(p.tx), p.writes, w)
    BY <1>0, <1>1, <2>4, <2>6, Zenon DEF Alike
  <2>7. PendingOK(p)'
    BY <2>5, <2>6, Zenon DEF PendingOK
  <2>8. /\ pending'[sim.client] = p /\ DOMAIN pending' = Clients
        /\ pending' = [c \in Clients |-> pending'[c]]
        /\ \A c \in Clients : c # sim.client => pending'[c] = pending[c]
    BY <1>2, <1>3, <2>2, Zenon
  <2>. QED  BY <1>1, <1>2, <1>4, <1>5, <2>7, <2>8, Zenon DEF AppInv
<1>. QED  BY <1>6, <1>7

\* A commit executes the transaction on the committed state.  The other endorsed
\* transactions are either invalid from then on, or have read none of its writes.
LEMMA CommitKeeps ==
  ASSUME AppInv, NEW c \in Clients, Commit(c)
  PROVE  AppInv' /\ Executes(pending[c].tx, Len(pending[c].tx), pending[c].writes, world)
<1>. DEFINE p == pending[c]
<1>1. /\ sim = None /\ p # None /\ Valid(p) /\ sim' = sim
      /\ world' = Written(world, p.writes)
      /\ version' = [k \in StateKeys |-> IF p.writes[k] = Unwritten THEN version[k]
                                         ELSE version[k] + 1]
      /\ pending' = [pending EXCEPT ![c] = None]
  BY DEF Commit, Written
<1>2. /\ world \in Worlds /\ version \in [StateKeys -> Nat]
      /\ DOMAIN pending = Clients /\ pending = [d \in Clients |-> pending[d]]
      /\ \A d \in Clients : pending[d] # None => PendingOK(pending[d])
  BY Zenon DEF AppInv
<1>3. Executes(p.tx, Len(p.tx), p.writes, world)
  <2>1. Alike(world, DOMAIN p.reads)
    BY Zenon DEF Alike
  <2>. QED  BY <1>1, <1>2, <2>1, Zenon DEF PendingOK
<1>4. world' \in Worlds
  BY <1>1, <1>3, Zenon DEF Executes
<1>5. /\ version' \in [StateKeys -> Nat]
      /\ \A k \in StateKeys : version[k] \in Nat /\ version'[k] \in Nat /\ version[k] <= version'[k]
      /\ \A k \in StateKeys : version'[k] = version[k] => world'[k] = world[k]
  BY <1>1, <1>2 DEF Written
<1>6. SimInv'
  BY <1>1, Zenon DEF SimInv
<1>7. ASSUME NEW q, PendingOK(q) PROVE PendingOK(q)'
  <2>1. DOMAIN q.reads \subseteq StateKeys
    BY <1>7, Zenon DEF PendingOK, StateKeys
  <2>2. \A k \in DOMAIN q.reads : q.reads[k] \in Nat /\ q.reads[k] <= version[k]
    BY <1>7, Zenon DEF PendingOK
  <2>3. \A k \in DOMAIN q.reads : q.reads[k] <= version'[k]
    BY <1>5, <2>1, <2>2
  <2>4. ASSUME Valid(q)', NEW w \in Worlds, Alike(w, DOMAIN q.reads)'
        PROVE  Executes(q.tx, Len(q.tx), q.writes, w)
    <3>1. \A k \in DOMAIN q.reads : version'[k] = q.reads[k] /\ w[k] = world'[k]
      BY <2>4, Zenon DEF Valid, Alike
    <3>2. \A k \in DOMAIN q.reads : version[k] = q.reads[k] /\ world'[k] = world[k]
      BY <1>5, <2>1, <2>2, <3>1
    <3>3. Valid(q) /\ Alike(w, DOMAIN q.reads)
      BY <3>1, <3>2, Zenon DEF Valid, Alike
    <3>. QED  BY <1>7, <3>3, Zenon DEF PendingOK
  <2>. QED  BY <1>7, <2>2, <2>3, <2>4, Zenon DEF PendingOK
<1>8. /\ pending'[c] = None /\ DOMAIN pending' = Clients
      /\ pending' = [d \in Clients |-> pending'[d]]
      /\ \A d \in Clients : d # c => pending'[d] = pending[d]
  BY <1>1, <1>2, Zenon
<1>9. AppInv'
  BY <1>2, <1>4, <1>5, <1>6, <1>7, <1>8, Zenon DEF AppInv
<1>. QED  BY <1>3, <1>9, Zenon

\* A transaction that is lost has no effect.
LEMMA DiscardKeeps ==
  ASSUME AppInv, NEW c \in Clients, Discard(c)
  PROVE  AppInv'
<1>1. /\ sim = None /\ sim' = sim /\ world' = world /\ version' = version
      /\ pending' = [pending EXCEPT ![c] = None]
  BY Zenon DEF Discard
<1>2. /\ world \in Worlds /\ version \in [StateKeys -> Nat]
      /\ DOMAIN pending = Clients /\ pending = [d \in Clients |-> pending[d]]
      /\ \A d \in Clients : pending[d] # None => PendingOK(pending[d])
  BY DEF AppInv
<1>3. SimInv'
  BY <1>1, Zenon DEF SimInv
<1>4. ASSUME NEW q, PendingOK(q) PROVE PendingOK(q)'
  BY <1>1, <1>4, Zenon DEF PendingOK, Valid, Alike
<1>5. /\ pending'[c] = None /\ DOMAIN pending' = Clients
      /\ pending' = [d \in Clients |-> pending'[d]]
      /\ \A d \in Clients : d # c => pending'[d] = pending[d]
  BY <1>1, <1>2
<1>. QED  BY <1>1, <1>2, <1>3, <1>4, <1>5, Zenon DEF AppInv

\* Every step keeps the invariant.
LEMMA NextApp ==
  ASSUME AppInv, [Next]_vars
  PROVE  AppInv'
<1>1. CASE UNCHANGED vars
  <2>1. world' = world /\ version' = version /\ sim' = sim /\ pending' = pending
    BY <1>1, Zenon DEF vars
  <2>2. SimInv'
    BY <2>1, Zenon DEF AppInv, SimInv, SimType, Done, Alike
  <2>3. ASSUME NEW q, PendingOK(q) PROVE PendingOK(q)'
    BY <2>1, <2>3, Zenon DEF PendingOK, Valid, Alike
  <2>. QED  BY <2>1, <2>2, <2>3, Zenon DEF AppInv
<1>2. CASE Next
  BY <1>2, RunTxKeeps, CommitKeeps, DiscardKeeps, RunMsgKeeps, HandleKeeps, Zenon DEF Next
<1>. QED  BY <1>1, <1>2, Zenon
------------------------------------------------------------------------------
(* The theorems *)

\* The invariant holds in every reachable state.
LEMMA AppInvariant == Spec => []AppInv
<1>1. Init => AppInv
  BY InitApp
<1>2. AppInv /\ [Next]_vars => AppInv'
  BY NextApp
<1>. QED  BY <1>1, <1>2, PTL DEF Spec

\* The event handlers and the IBC store never disagree: what QueryPacket and
\* QueryPacketAcknowledgement return is what has been sent and received.
THEOREM RecordsAgree == Spec => []RecordsQueryable
<1>1. AppInv => RecordsQueryable
  <2>. SUFFICES ASSUME AppInv, NEW s \in Seqs
                PROVE  /\ QueryPacket(s) # Absent <=> s < world[NextSend]
                       /\ world[<< "commitment", s >>] \in {Absent, QueryPacket(s)}
                       /\ QueryPacketAcknowledgement(s) = world[<< "ack", s >>]
                       /\ world[<< "receipt", s >>] # Absent <=> world[<< "ack", s >>] # Absent
    BY Zenon DEF RecordsQueryable
  <2>1. Agree(world, s)
    BY WorldFacts DEF AppInv
  <2>. QED  BY <2>1 DEF Agree, PacketIn, CommitmentIn, ReceiptIn, AckIn, AckEventIn, NextIn,
                       QueryPacket, QueryPacketAcknowledgement
<1>. QED  BY <1>1, AppInvariant, PTL

\* The committed transactions have the effect of running one after the other on
\* the ledger of packets, each as a whole or not at all, although they were
\* simulated concurrently, each on its cache, and validated by versions only.
THEOREM CommitsSerializable == Spec => Serializable
<1>1. ledger = LedgerOf(world) /\ ledger' = LedgerOf(world')
  BY Zenon DEF ledger, LedgerOf, QueryPacket, QueryPacketAcknowledgement, PacketIn, CommitmentIn,
         ReceiptIn, AckEventIn, NextIn
<1>2. Init => Ledger!Init
  BY <1>1, InitApp, Zenon DEF Ledger!Init
<1>3. ASSUME AppInv, NEW c \in Clients, Commit(c) PROVE Ledger!Next
  <2>. DEFINE tx == pending[c].tx
              l == LedgerOf(world)
  <2>1. world' = Written(world, pending[c].writes)
    BY <1>3, Zenon DEF Commit, Written
  <2>2. LedgerOf(world') = LedgerAfter(l, tx, Len(tx)) /\ world' \in Worlds
    BY <1>3, <2>1, CommitKeeps, Zenon DEF Executes
  <2>3. tx \in Txs /\ tx \in Seq(Msgs)
    BY <1>3, TxsAssumption, Zenon DEF AppInv, PendingOK, Commit
  <2>4. LedgerOf(world') # None
    BY <2>2, WorldFacts, Zenon
  <2>5. Ledger!Outcome(l, tx) = LedgerAfter(l, tx, Len(tx))
    BY <2>3, LedgerSteps, Zenon
  <2>6. Ledger!Run(tx)
    BY <1>1, <2>2, <2>4, <2>5, Zenon DEF Ledger!Run
  <2>. QED  BY <2>3, <2>6, Zenon DEF Ledger!Next
<1>4. AppInv /\ [Next]_vars => [Ledger!Next]_ledger
  <2>. SUFFICES ASSUME AppInv, [Next]_vars PROVE Ledger!Next \/ ledger' = ledger
    OBVIOUS
  <2>1. CASE \E c \in Clients : Commit(c)
    BY <1>3, <2>1
  <2>2. CASE ~ \E c \in Clients : Commit(c)
    <3>1. world' = world
      BY <2>2, Zenon DEF Next, vars, RunTx, RunMsg, Handle, Discard
    <3>. QED  BY <1>1, <3>1, Zenon
  <2>. QED  BY <2>1, <2>2
<1>. QED  BY <1>2, <1>4, AppInvariant, PTL DEF Spec, Serializable, Ledger!Spec
====
