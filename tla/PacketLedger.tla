----------------------------- MODULE PacketLedger ----------------------------
(***************************************************************************)
(* What the IBC chaincode promises about packets: a ledger on which        *)
(* transactions run one after the other, each as a whole or not at all.    *)
(* The packets sent are numbered without gaps, a packet is received at     *)
(* most once, and it is acknowledged at most once.                         *)
(***************************************************************************)
EXTENDS Integers, Sequences

CONSTANTS
  Txs,         \* the transactions: sequences of messages
  MaxPackets,  \* bound on the sequence numbers of packets
  NoLedger     \* the outcome of a transaction that fails

VARIABLE ledger    \* sent: data by sequence; open: not acknowledged; received

\* What a message does to the ledger; only the first three types can succeed.
Apply(l, msg) ==
  CASE l = NoLedger -> NoLedger
    [] l # NoLedger /\ msg.type = "send" /\ Len(l.sent) < MaxPackets ->
         [l EXCEPT !.sent = Append(@, msg.data), !.open = @ \cup {Len(l.sent) + 1}]
    [] l # NoLedger /\ msg.type = "recv" /\ msg.seq \notin {r[1] : r \in l.received} ->
         [l EXCEPT !.received = @ \cup {<< msg.seq, msg.data >>}]
    [] l # NoLedger /\ msg.type = "acknowledge" /\ msg.seq \in l.open ->
         [l EXCEPT !.open = @ \ {msg.seq}]
    [] OTHER -> NoLedger

\* The messages of tx, one after the other.
Outcome(l, tx) ==
  LET after[n \in 0 .. Len(tx)] == IF n = 0 THEN l ELSE Apply(after[n - 1], tx[n])
  IN  after[Len(tx)]

Init == ledger = [sent |-> << >>, open |-> {}, received |-> {}]

Run(tx) ==
  /\ ledger' = Outcome(ledger, tx)
  /\ ledger' # NoLedger

Next == \E tx \in Txs : Run(tx)

Spec == Init /\ [][Next]_ledger
==============================================================================
