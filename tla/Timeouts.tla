------------------------------ MODULE Timeouts -------------------------------
(***************************************************************************)
(* When a packet sent to a Fabric chain has timed out: by the headers of   *)
(* the blocks that the chain runs its transactions in, and by the client   *)
(* that the sending chain keeps of it.                                     *)
(*                                                                         *)
(* The timeout of a packet is a height, a timestamp in nanoseconds, or     *)
(* both, and 0 stands for none.  The receiving chain refuses a packet      *)
(* whose timeout has passed by its block header, and the sending chain     *)
(* takes a packet back whose timeout has passed at the height of a         *)
(* consensus state.  The two must not disagree.                            *)
(***************************************************************************)
EXTENDS ClientRelay

CONSTANTS
  PacketTimeouts,    \* the timeouts of packets
  Nanoseconds        \* nanoseconds per second

\* The clocks are Unix times: a time in nanoseconds is a larger number than any
\* time in seconds that the chain will see.
ASSUME ScaleAssumption ==
  /\ Nanoseconds \in Nat
  /\ \A s, t \in Times : t < s * Nanoseconds

ASSUME TimeoutsAssumption == PacketTimeouts \subseteq [height : Nat, timestamp : Nat]

\* Mutant: the height of the block is one less than the sequence.
getBlockHeaderBehind(v) == [height |-> v - 1, time |-> log[v] * Nanoseconds]

\* The header of the blocks while sequence v is the current one.
getBlockHeader(v) == [height |-> v + 1, time |-> log[v] * Nanoseconds]

\* Mutant: the client converts the time.
GetTimestampNanoseconds(h) == consensus[h] * Nanoseconds

\* The time of the consensus state at height h: seconds.
GetTimestamp(h) == consensus[h]

\* A timeout passes when the height or the time reaches it.
Passed(t, height, time) ==
  \/ t.height # 0 /\ height >= t.height
  \/ t.timestamp # 0 /\ time >= t.timestamp

\* MsgRecvPacket fails while sequence v is the current one.
RefusedByChain(t, v) == Passed(t, getBlockHeader(v).height, getBlockHeader(v).time)

\* MsgTimeout can succeed with a proof at height h.
TimedOutByClient(t, h) == consensus[h] # None /\ Passed(t, h, GetTimestamp(h))
------------------------------------------------------------------------------
(* Properties *)

\* A packet that its sender can take back will not be received: the chain
\* refuses it by then and from then on, however far the client is behind
\* (getBlockHeader, GetTimestamp).
NoEarlyTimeout ==
  \A t \in PacketTimeouts, h \in Heights :
    TimedOutByClient(t, h) => RefusedByChain(t, Len(log))

\* The consensus states are in seconds and timeouts in nanoseconds: a packet
\* whose only timeout is a timestamp, and that the chain did not refuse from its
\* very first sequence, can never be taken back (GetTimestamp).
TimestampsNeverTimeOut ==
  \A t \in PacketTimeouts, h \in Heights :
    t.height = 0 /\ ~ RefusedByChain(t, 1) => ~ TimedOutByClient(t, h)
==============================================================================
