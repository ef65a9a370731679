--------------------------- MODULE SequenceManager ---------------------------
(***************************************************************************)
(* The IBC chaincode's sequence (the "height" and clock of the chain) on   *)
(* top of Fabric's execute-order-validate pipeline.                        *)
(*                                                                         *)
(* A chaincode function is executed by the endorsing peers against the     *)
(* committed state, each peer with a clock of its own, and produces a      *)
(* read/write set.  The endorsed transaction is ordered later, when other  *)
(* transactions may have been committed, and its writes are applied only   *)
(* if the version of every key it read is still the current one.  What     *)
(* matters of the read set is the version of the current-sequence key:     *)
(* UpdateSequence reads it to compute the next value, HandleTx reads it    *)
(* for the block header, InitChaincode does not read it.                   *)
(***************************************************************************)
EXTENDS Integers

CONSTANTS
  Peers,              \* endorsing peers
  Quorums,            \* the sets of peers that satisfy the endorsement policy
  Clients,            \* submitters, each with at most one transaction in flight
  MinTimeInterval,    \* Config.MinTimeInterval, in whole seconds
  MaxTimestampDiff,   \* Config.MaxTimestampDiff, in whole seconds
  StartTime,          \* reading of every peer clock when the system starts
  MaxTime,            \* bound on the peer clocks
  MaxSequence,        \* bound on the sequence value
  MaxEpoch,           \* bound on the number of committed InitChaincode
  None                \* an absent key, transaction or block header

ASSUME QuorumsAssumption == \A Q \in Quorums : Q \subseteq Peers /\ Q # {}

ASSUME ConfigAssumption ==
  /\ MinTimeInterval \in Nat
  /\ MaxTimestampDiff \in Nat

\* The clocks are Unix times: the epoch lies further back than the tolerated
\* difference, so no accepted timestamp is zero or negative.
ASSUME TimeAssumption ==
  /\ StartTime \in Nat
  /\ MaxTime \in Nat /\ StartTime <= MaxTime
  /\ StartTime > MaxTimestampDiff

ASSUME BoundsAssumption == MaxSequence \in Nat \ {0} /\ MaxEpoch \in Nat

VARIABLES
  clock,     \* clock[p]: what the clock of peer p reads
  current,   \* world state: the current-sequence key
  version,   \* world state: version of the current-sequence key
  seqs,      \* world state: seqs[v] is the key seq/v
  header,    \* block header of the last HandleTx committed in this epoch
  pending,   \* pending[c]: the endorsed, not yet ordered transaction of c
  epoch      \* number of committed InitChaincode

vars == << clock, current, version, seqs, header, pending, epoch >>

Times == 1 .. MaxTime + MaxTimestampDiff

Values == 1 .. MaxSequence

Sequences == [value : Values, timestamp : Times]

Headers == [height : 2 .. MaxSequence + 1, time : Times]

Txs == [fn : {"InitChaincode", "UpdateSequence"}, read : Nat, seq : Sequences]
         \cup [fn : {"HandleTx"}, read : Nat, header : Headers]

ASSUME NoneAssumption == None \notin Sequences \cup Headers \cup Txs
------------------------------------------------------------------------------
(* The sequence manager *)

\* Mutant: the minimum interval is not enforced.
ValidateTimestampNoInterval(now, prev, nxt) ==
  nxt \in now - MaxTimestampDiff .. now + MaxTimestampDiff

\* Acceptance of the transaction timestamp nxt by an endorser whose clock
\* reads now; prev is 0 when there is no sequence yet.
ValidateTimestamp(now, prev, nxt) ==
  /\ ~ (now + MaxTimestampDiff < nxt)
  /\ ~ (now - MaxTimestampDiff > nxt)
  /\ ~ (prev > 0 /\ prev + MinTimeInterval > nxt)

\* Every peer of some quorum accepts the timestamp by its own clock.
Endorsed(prev, tm) ==
  \E Q \in Quorums : \A p \in Q : ValidateTimestamp(clock[p], prev, tm)

InitSequence(tm) == [value |-> 1, timestamp |-> tm]

NextSequence(tm) == [value |-> current.value + 1, timestamp |-> tm]

\* The header of the block a transaction runs in: the height is one more than
\* the sequence value, the time is the time of the sequence.
getBlockHeader == [height |-> current.value + 1, time |-> current.timestamp]
------------------------------------------------------------------------------
(* Endorsement: the functions of the chaincode, executed by a quorum *)

EndorseTx(c, tx) ==
  /\ pending[c] = None
  /\ pending' = [pending EXCEPT ![c] = tx]
  /\ UNCHANGED << clock, current, version, seqs, header, epoch >>

\* InitChaincode reads no sequence and can be submitted at any time.
InitChaincode(c, tm) ==
  /\ epoch < MaxEpoch
  /\ Endorsed(0, tm)
  /\ EndorseTx(c, [fn |-> "InitChaincode", read |-> 0, seq |-> InitSequence(tm)])

UpdateSequence(c, tm) ==
  /\ current # None
  /\ current.value < MaxSequence
  /\ Endorsed(current.timestamp, tm)
  /\ EndorseTx(c, [fn |-> "UpdateSequence", read |-> version, seq |-> NextSequence(tm)])

\* The block provider panics when there is no sequence.
HandleTx(c) ==
  /\ current # None
  /\ EndorseTx(c, [fn |-> "HandleTx", read |-> version, header |-> getBlockHeader])
------------------------------------------------------------------------------
(* Ordering and validation *)

\* Mutant: only updates are checked.
ValidUpdatesOnly(tx) == tx.fn \in {"InitChaincode", "HandleTx"} \/ tx.read = version

\* The version check of the committing peer.  A transaction that did not read
\* the key cannot conflict on it.
Valid(tx) == tx.fn = "InitChaincode" \/ tx.read = version

\* Mutant: the sequence is not stored under its own value.
updateSequenceCurrentOnly(s) ==
  /\ current' = s
  /\ version' = version + 1
  /\ UNCHANGED seqs

\* Mutant: an update also moves the sequence before it to its own time.
updateSequenceAgain(s) ==
  /\ current' = s
  /\ seqs' = [v \in Values |-> IF v \in {s.value - 1, s.value}
                               THEN [value |-> v, timestamp |-> s.timestamp] ELSE seqs[v]]
  /\ version' = version + 1

\* The two keys that updateSequence puts, committed together.
updateSequence(s) ==
  /\ current' = s
  /\ seqs' = [seqs EXCEPT ![s.value] = s]
  /\ version' = version + 1

CommitInit(c) ==
  /\ pending[c] # None
  /\ pending[c].fn = "InitChaincode"
  /\ epoch < MaxEpoch
  /\ Valid(pending[c])
  /\ updateSequence(pending[c].seq)
  /\ epoch' = epoch + 1
  /\ header' = None
  /\ pending' = [pending EXCEPT ![c] = None]
  /\ UNCHANGED clock

CommitUpdate(c) ==
  /\ pending[c] # None
  /\ pending[c].fn = "UpdateSequence"
  /\ Valid(pending[c])
  /\ updateSequence(pending[c].seq)
  /\ pending' = [pending EXCEPT ![c] = None]
  /\ UNCHANGED << clock, header, epoch >>

CommitHandleTx(c) ==
  /\ pending[c] # None
  /\ pending[c].fn = "HandleTx"
  /\ Valid(pending[c])
  /\ header' = pending[c].header
  /\ pending' = [pending EXCEPT ![c] = None]
  /\ UNCHANGED << clock, current, version, seqs, epoch >>

\* The transaction is never ordered, or is marked invalid: no effect.
Discard(c) ==
  /\ pending[c] # None
  /\ pending' = [pending EXCEPT ![c] = None]
  /\ UNCHANGED << clock, current, version, seqs, header, epoch >>

Tick(p) ==
  /\ clock[p] < MaxTime
  /\ clock' = [clock EXCEPT ![p] = @ + 1]
  /\ UNCHANGED << current, version, seqs, header, pending, epoch >>
------------------------------------------------------------------------------
Init ==
  /\ clock = [p \in Peers |-> StartTime]
  /\ current = None
  /\ version = 0
  /\ seqs = [v \in Values |-> None]
  /\ header = None
  /\ pending = [c \in Clients |-> None]
  /\ epoch = 0

Next ==
  \/ \E p \in Peers : Tick(p)
  \/ \E c \in Clients, tm \in Times : InitChaincode(c, tm) \/ UpdateSequence(c, tm)
  \/ \E c \in Clients : \/ HandleTx(c)
                        \/ CommitInit(c)
                        \/ CommitUpdate(c)
                        \/ CommitHandleTx(c)
                        \/ Discard(c)

Spec == Init /\ [][Next]_vars
------------------------------------------------------------------------------
(* Properties *)

\* Types of the state.
TypeOK ==
  /\ clock \in [Peers -> StartTime .. MaxTime]
  /\ current \in Sequences \cup {None}
  /\ version \in Nat
  /\ seqs \in [Values -> Sequences \cup {None}]
  /\ header \in Headers \cup {None}
  /\ pending \in [Clients -> Txs \cup {None}]
  /\ epoch \in 0 .. MaxEpoch

\* The two keys that updateSequence writes agree, and every sequence up to the
\* current one can be read back under its own value: a light client that has
\* fallen behind finds each sequence it still has to process
\* (EndorseSequenceCommitment with a sequence argument, GetSequence).
HistoryComplete ==
  current # None =>
    /\ seqs[current.value] = current
    /\ \A v \in 1 .. current.value : seqs[v] # None /\ seqs[v].value = v

\* Consecutive sequences are MinTimeInterval seconds apart, although each
\* timestamp was only checked when its transaction was endorsed, against the
\* sequence and the peer clocks of that moment (ValidateTimestamp).
TimestampsSpaced ==
  current # None =>
    \A v \in 1 .. current.value - 1 :
      seqs[v + 1].timestamp >= seqs[v].timestamp + MinTimeInterval

\* An endorsed transaction that would still pass validation is up to date: an
\* update proposes the successor of the current sequence, at an acceptable
\* distance from it, and a HandleTx ran under the header of the current
\* sequence.  This is what the version check of the current-sequence key buys.
PendingFresh ==
  \A c \in Clients :
    pending[c] # None =>
      /\ pending[c].fn = "InitChaincode" => pending[c].seq.value = 1
      /\ pending[c].fn = "UpdateSequence" /\ pending[c].read = version =>
           /\ current # None
           /\ pending[c].seq.value = current.value + 1
           /\ pending[c].seq.timestamp >= current.timestamp + MinTimeInterval
      /\ pending[c].fn = "HandleTx" /\ pending[c].read = version =>
           /\ current # None
           /\ pending[c].header = getBlockHeader

\* The block header that the last committed HandleTx ran under is the header
\* of a committed sequence, with the height offset of getBlockHeader.
HeaderIsCommitted ==
  header # None =>
    /\ current # None
    /\ header.height - 1 \in 1 .. current.value
    /\ header.time = seqs[header.height - 1].timestamp

\* Within an epoch the sequence advances by exactly one at a time and no
\* sequence up to the current one is ever rewritten, whatever the order in
\* which concurrently endorsed transactions are committed (UpdateSequence).
AppendOnly ==
  [][ epoch' = epoch /\ current # None =>
        /\ current' = current \/ current'.value = current.value + 1
        /\ \A v \in 1 .. current.value : seqs'[v] = seqs[v] ]_vars

\* Within an epoch the application never sees the block height or the block
\* time go backwards, although HandleTx transactions are executed on one
\* sequence and committed when the sequence may have moved on (RunTx).
BlockNeverGoesBack ==
  [][ epoch' = epoch /\ header # None =>
        /\ header'.height >= header.height
        /\ header'.time >= header.time ]_vars

committedLog ==
  [v \in 1 .. (IF current = None THEN 0 ELSE current.value) |-> seqs[v].timestamp]

Log == INSTANCE SequenceLog WITH log <- committedLog

\* The pipeline implements the abstract log: concurrent, reordered and lost
\* transactions are invisible in it.
ImplementsLog == Log!Spec
==============================================================================
