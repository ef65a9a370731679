---------------------------- MODULE PacketTransfer ---------------------------
(***************************************************************************)
(* What relaying promises to the users of a channel: packets are sent in   *)
(* order, each is received at most once and only after it was sent, and    *)
(* its sender learns of the acknowledgement at most once and only after    *)
(* the packet was received.                                                *)
(***************************************************************************)
EXTENDS Integers

CONSTANT MaxPackets    \* bound on the number of packets

VARIABLE status        \* status[n]: how far packet n has come

Packets == 1 .. MaxPackets

Move(S, from, to) ==
  /\ \A n \in S : status[n] = from
  /\ status' = [n \in Packets |-> IF n \in S THEN to ELSE status[n]]

Init == status = [n \in Packets |-> "unsent"]

Send(n) == (\A m \in 1 .. n - 1 : status[m] # "unsent") /\ Move({n}, "unsent", "sent")

Receive(S) == Move(S, "sent", "received")

Acknowledge(S) == Move(S, "received", "acknowledged")

Next ==
  \/ \E n \in Packets : Send(n)
  \/ \E S \in SUBSET Packets : Receive(S) \/ Acknowledge(S)

Spec == Init /\ [][Next]_status
==============================================================================
