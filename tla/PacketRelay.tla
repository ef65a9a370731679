----------------------------- MODULE PacketRelay -----------------------------
(***************************************************************************)
(* Relayers that carry packets from a chain "src" to a chain "dst" and the *)
(* acknowledgements back, through the chain access of the repository.      *)
(*                                                                         *)
(* One round of a relayer lists a page of what is there on one chain,      *)
(* filters it by what has arrived on the other, fetches every packet or    *)
(* acknowledgement with its proof, and submits one transaction with all    *)
(* the messages; first for packets, then for acknowledgements.  Any error  *)
(* starts the round again.  Each step sees the chains as they are by then. *)
(* The round is that of the relayer the repository plugs into.             *)
(*                                                                         *)
(* A transaction is endorsed when it is submitted and takes effect, as a   *)
(* whole or not at all, when it is ordered.  A relayer that stops waiting  *)
(* or restarts leaves its transaction in flight.  The height at which a    *)
(* proof can be verified is the subject of ProofRelay.                     *)
(***************************************************************************)
EXTENDS Integers, FiniteSets

CONSTANTS
  Relayers,      \* relayer processes
  MaxPackets,    \* bound on the number of packets
  PageLimit,     \* the limit of the queries that list, whose offset is 0
  Radix,         \* the base of the sequence numbers in keys (10 in the code)
  MaxFaults      \* bound on the number of timeouts, restarts and losses

ASSUME BoundsAssumption ==
  MaxPackets \in Nat /\ PageLimit \in Nat \ {0} /\ Radix \in Nat \ {0, 1} /\ MaxFaults \in Nat

VARIABLES
  sent,        \* src: number of packets sent
  open,        \* src: the packets that have a commitment
  delivered,   \* dst: how often the application was given each packet
  settled,     \* src: how often the application was given each acknowledgement
  relayer,     \* relayer[r]: where r is in its round, and what it has collected
  connected,   \* connected[r]: the chains whose gateway contract r has
  inFlight,    \* the transactions that are endorsed and not yet ordered
  faults       \* number of timeouts, restarts and losses so far

chainVars == << sent, open, delivered, settled >>
vars == << sent, open, delivered, settled, relayer, connected, inFlight, faults >>

Packets == 1 .. MaxPackets

Txs == [by : Relayers, stage : {"packets", "acks"}, msgs : SUBSET Packets]

\* The chain that a stage reads from, and the chain that it writes to.
From(stage) == IF stage = "packets" THEN "src" ELSE "dst"
To(stage) == IF stage = "packets" THEN "dst" ELSE "src"

\* What a relayer starts a round, or its second half, with.
Start(stage) == [stage |-> stage, phase |-> "list", todo |-> {}, msgs |-> {}]

\* The second half of the round follows the first, then a new round starts.
AfterStage(stage) == Start(IF stage = "packets" THEN "acks" ELSE "packets")
------------------------------------------------------------------------------
(* The chains *)

\* dst: the packets that have a receipt and an acknowledgement.
received == {n \in Packets : delivered[n] > 0}

Increment(f, S) == [n \in Packets |-> IF n \in S THEN f[n] + 1 ELSE f[n]]

\* Mutant: the receipts are not looked at.
DeliverableAny(stage, S) == stage = "packets" \/ S \subseteq open

\* The messages for S succeed: no packet has been received, or every packet
\* still has its commitment.
Deliverable(stage, S) ==
  IF stage = "packets" THEN S \cap received = {} ELSE S \subseteq open

SendPacket ==
  /\ sent < MaxPackets
  /\ sent' = sent + 1
  /\ open' = open \cup {sent + 1}
  /\ UNCHANGED << delivered, settled, relayer, connected, inFlight, faults >>
------------------------------------------------------------------------------
(* The chain access of a relayer *)

\* Mutant: a query takes the contract for granted.
ContractUnconnected(r, ch) == connected' = connected

\* The contract of a chain, connected to on first use.
Contract(r, ch) == connected' = [connected EXCEPT ![r] = @ \cup {ch}]

\* Keys of packets differ in the number at their end, written without leading zeros:
\* its digits with zeros behind them, and its order as a string of digits.
Digits(n) == Cardinality({k \in 0 .. MaxPackets : Radix ^ k <= n})
LeftJustified == [n \in Packets |-> n * Radix ^ (MaxPackets - Digits(n))]

ASSUME DigitsAssumption == LeftJustified \in [Packets -> Nat]

KeyBefore(m, n) ==
  \/ LeftJustified[m] < LeftJustified[n]
  \/ LeftJustified[m] = LeftJustified[n] /\ m < n

\* Mutants: the page is not limited, or is one entry short.
PageUnlimited(S) == S
PageShort(S) == {n \in S : Cardinality({m \in S : KeyBefore(m, n)}) < PageLimit - 1}

\* The first entries in the order of their keys.
Page(S) == {n \in S : Cardinality({m \in S : KeyBefore(m, n)}) < PageLimit}

QueryPacketCommitments == Page(open)

QueryPacketAcknowledgementCommitments == Page(received)

QueryUnrecievedPackets(seqs) == seqs \ received

QueryUnrecievedAcknowledgements(seqs) == seqs \cap open

Become(r, x) == relayer' = [relayer EXCEPT ![r] = x]

List(r) ==
  LET x == relayer[r] IN
  /\ x.phase = "list"
  /\ Contract(r, From(x.stage))
  /\ Become(r, [x EXCEPT !.phase = "filter",
                         !.todo = IF x.stage = "packets" THEN QueryPacketCommitments
                                  ELSE QueryPacketAcknowledgementCommitments])
  /\ UNCHANGED << chainVars, inFlight, faults >>

\* With nothing left to relay the next stage begins.
Filter(r) ==
  LET x == relayer[r]
      unrelayed == IF x.stage = "packets" THEN QueryUnrecievedPackets(x.todo)
                   ELSE QueryUnrecievedAcknowledgements(x.todo) IN
  /\ x.phase = "filter"
  /\ Contract(r, To(x.stage))
  /\ Become(r, IF unrelayed = {} THEN AfterStage(x.stage)
               ELSE [x EXCEPT !.phase = "fetch", !.todo = unrelayed])
  /\ UNCHANGED << chainVars, inFlight, faults >>

\* A packet with the proof of its commitment, which may have been deleted; or
\* an acknowledgement with its proof, which is never deleted.
Fetch(r) ==
  LET x == relayer[r] IN
  /\ x.phase = "fetch"
  /\ Contract(r, From(x.stage))
  /\ \E n \in x.todo :
       /\ \A m \in x.todo : ~ KeyBefore(m, n)
       /\ Become(r, IF x.stage = "packets" /\ n \notin open THEN Start("packets")
                    ELSE [x EXCEPT !.todo = @ \ {n}, !.msgs = @ \cup {n}])
  /\ UNCHANGED << chainVars, inFlight, faults >>

\* The transaction with all the messages, on the contract at hand; the call
\* panics without one.  When one of its messages fails in simulation nothing is
\* submitted.
SendMsgs(r) ==
  LET x == relayer[r] IN
  /\ x.phase = "fetch"
  /\ x.todo = {}
  /\ To(x.stage) \in connected[r]
  /\ IF Deliverable(x.stage, x.msgs)
     THEN /\ inFlight' = inFlight \cup {[by |-> r, stage |-> x.stage, msgs |-> x.msgs]}
          /\ Become(r, [x EXCEPT !.phase = "wait"])
     ELSE /\ UNCHANGED inFlight
          /\ Become(r, Start("packets"))
  /\ UNCHANGED << chainVars, connected, faults >>

Fault == faults < MaxFaults /\ faults' = faults + 1

\* The relayer stops waiting for the outcome of its transaction.
Timeout(r) ==
  /\ Fault
  /\ relayer[r].phase = "wait"
  /\ Become(r, Start("packets"))
  /\ UNCHANGED << chainVars, connected, inFlight >>

\* The process ends, also when Contract cannot connect, and is started again.
Restart(r) ==
  /\ Fault
  /\ Become(r, Start("packets"))
  /\ connected' = [connected EXCEPT ![r] = {}]
  /\ UNCHANGED << chainVars, inFlight >>
------------------------------------------------------------------------------
(* Ordering and validation *)

\* The relayer that waits for tx, if any, learns of its outcome.
Outcome(tx, x) ==
  LET waiting == [stage |-> tx.stage, phase |-> "wait", todo |-> {}, msgs |-> tx.msgs] IN
  relayer' = IF relayer[tx.by] = waiting THEN [relayer EXCEPT ![tx.by] = x] ELSE relayer

\* The keys that the simulation has read must not have changed since.
Commit(tx) ==
  /\ Deliverable(tx.stage, tx.msgs)
  /\ IF tx.stage = "packets"
     THEN /\ delivered' = Increment(delivered, tx.msgs)
          /\ UNCHANGED << open, settled >>
     ELSE /\ open' = open \ tx.msgs
          /\ settled' = Increment(settled, tx.msgs)
          /\ UNCHANGED delivered
  /\ inFlight' = inFlight \ {tx}
  /\ Outcome(tx, AfterStage(tx.stage))
  /\ UNCHANGED << sent, connected, faults >>

\* A transaction does not take effect.
Drop(tx) ==
  /\ inFlight' = inFlight \ {tx}
  /\ Outcome(tx, Start("packets"))
  /\ UNCHANGED << chainVars, connected >>

Invalidate(tx) == ~ Deliverable(tx.stage, tx.msgs) /\ Drop(tx) /\ UNCHANGED faults

Lose(tx) == Fault /\ Drop(tx)
------------------------------------------------------------------------------
Init ==
  /\ sent = 0
  /\ open = {}
  /\ delivered = [n \in Packets |-> 0]
  /\ settled = [n \in Packets |-> 0]
  /\ relayer = [r \in Relayers |-> Start("packets")]
  /\ connected = [r \in Relayers |-> {}]
  /\ inFlight = {}
  /\ faults = 0

Step(r) == List(r) \/ Filter(r) \/ Fetch(r) \/ SendMsgs(r)

Order == \E tx \in inFlight : Commit(tx) \/ Invalidate(tx)

Next ==
  \/ SendPacket
  \/ \E r \in Relayers : Step(r) \/ Timeout(r) \/ Restart(r)
  \/ Order
  \/ \E tx \in inFlight : Lose(tx)

\* The relayers keep going round and the orderer keeps ordering.
Spec ==
  /\ Init
  /\ [][Next]_vars
  /\ \A r \in Relayers : WF_vars(Step(r))
  /\ WF_vars(Order)
------------------------------------------------------------------------------
(* Properties *)

Acknowledged == {n \in Packets : settled[n] > 0}

\* Types of the state.
TypeOK ==
  /\ sent \in 0 .. MaxPackets
  /\ open \subseteq Packets
  /\ delivered \in [Packets -> Nat]
  /\ settled \in [Packets -> Nat]
  /\ relayer \in [Relayers -> [stage : {"packets", "acks"},
                               phase : {"list", "filter", "fetch", "wait"},
                               todo : SUBSET Packets, msgs : SUBSET Packets]]
  /\ connected \in [Relayers -> SUBSET {"src", "dst"}]
  /\ inFlight \subseteq Txs
  /\ faults \in 0 .. MaxFaults

\* SendMsgs uses the contract of the gateway without connecting first.  It is
\* there whenever messages are ready, also after a restart, because the queries
\* before it have connected to that chain (Contract, SendMsgs).
ContractAtHand ==
  \A r \in Relayers :
    relayer[r].phase \in {"fetch", "wait"} => To(relayer[r].stage) \in connected[r]

\* How far each packet has come.
Status ==
  [n \in Packets |->
     LET counts == << delivered[n], settled[n] >> IN
     CASE n > sent                             -> "unsent"
       [] n <= sent /\ counts = << 0, 0 >>     -> "sent"
       [] n <= sent /\ counts = << 1, 0 >>     -> "received"
       [] n <= sent /\ counts = << 1, 1 >>     -> "acknowledged"
       [] OTHER                                -> "repeated"]

Transfer == INSTANCE PacketTransfer WITH status <- Status

\* Relayers that overlap, repeat each other's work, restart and submit again
\* what is still in flight never deliver a packet or an acknowledgement twice,
\* nor an acknowledgement of what was not received (SendMsgs, HandleTx).
ImplementsTransfer == Transfer!Spec

\* The packets sent before n whose keys come before that of n; the packets that have
\* less than a page of these; and those that have less than a page of the others
\* among them.
Before(n) == {m \in 1 .. n - 1 : KeyBefore(m, n)}
Listed == {n \in Packets : Cardinality(Before(n)) < PageLimit}
Reached == {n \in Packets : Cardinality(Before(n) \ Listed) < PageLimit}

\* Acknowledgements are never deleted, and a relayer asks for the first page of
\* them only: a packet that a page of earlier ones is before is never acknowledged,
\* as they are all received by the time it is.  The commitments of such packets stay
\* in turn, and one that a page of them is before is never delivered
\* (QueryPacketAcknowledgementCommitments, QueryPacketCommitments).
PagesBound == Acknowledged \subseteq Listed /\ received \subseteq Reached

\* The first page, and the first two pages, of the keys of all packets.
FirstPage == {n \in Packets : Cardinality({m \in Packets : KeyBefore(m, n)}) < PageLimit}
FirstTwoPages ==
  {n \in Packets : Cardinality({m \in Packets : KeyBefore(m, n)}) < 2 * PageLimit}

\* What no other packet can push off its page is relayed, though the batches of two
\* relayers fail as a whole when they overlap: what has been sent of the first page
\* of all packets comes to be acknowledged, and what has been sent of the first two
\* pages to be delivered (QueryPacketCommitments, QueryUnrecievedPackets, SendMsgs).
PagesRelayed ==
  []<>(/\ FirstPage \cap (1 .. sent) \subseteq Acknowledged
       /\ FirstTwoPages \cap (1 .. sent) \subseteq received)
==============================================================================
