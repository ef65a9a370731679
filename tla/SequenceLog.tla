----------------------------- MODULE SequenceLog -----------------------------
(***************************************************************************)
(* What the sequence manager promises to the rest of the system: a log of  *)
(* timestamps, entry v being the timestamp of sequence value v.  A log is  *)
(* started by InitChaincode and from then on only extended, one entry at a *)
(* time, each at least MinTimeInterval seconds later than the entry before *)
(* it.  A second InitChaincode starts the log again.                       *)
(***************************************************************************)
EXTENDS Integers, Sequences

CONSTANTS
  Times,              \* the timestamps a sequence may carry
  MinTimeInterval     \* seconds between two consecutive sequences

VARIABLE log                \* timestamps, in the order of the sequence values

Init == log = << >>

Start(tm) == log' = << tm >>

Advance(tm) ==
  /\ log # << >>
  /\ tm >= log[Len(log)] + MinTimeInterval
  /\ log' = Append(log, tm)

Next == \E tm \in Times : Start(tm) \/ Advance(tm)

Spec == Init /\ [][Next]_log
==============================================================================
