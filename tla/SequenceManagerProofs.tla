----------------------- MODULE SequenceManagerProofs -------------------------
(***************************************************************************)
(* The safety properties of SequenceManager, for every set of peers, every *)
(* endorsement policy, every number of concurrent submitters and every     *)
(* value of the two configured durations.                                  *)
(***************************************************************************)
EXTENDS SequenceManager, SequenceTheorems, TLAPS

\* The time in seconds that a backend may take over a step.
USE SMTT(30), ZenonT(30)


\* No transaction in flight has read a version that does not exist yet.
ReadsThePast ==
  \A c \in Clients : pending[c] # None => pending[c].read <= version

\* No sequence of the current log is later than the current one.
CurrentIsLatest ==
  current # None =>
    \A v \in 1 .. current.value : seqs[v].timestamp <= current.timestamp

\* The inductive invariant.
IInv ==
  /\ TypeOK
  /\ ReadsThePast
  /\ PendingFresh
  /\ HistoryComplete
  /\ TimestampsSpaced
  /\ CurrentIsLatest
  /\ HeaderIsCommitted
------------------------------------------------------------------------------
USE ConfigAssumption, TimeAssumption, BoundsAssumption, NoneAssumption

\* An endorsed timestamp is one of Times and keeps its distance from the
\* sequence it was checked against.
LEMMA EndorsedTimestamp ==
  ASSUME TypeOK, NEW prev \in Nat, NEW tm \in Times, Endorsed(prev, tm)
  PROVE  prev > 0 => tm >= prev + MinTimeInterval
<1>1. PICK Q \in Quorums : \A p \in Q : ValidateTimestamp(clock[p], prev, tm)
  BY DEF Endorsed
<1>2. PICK p \in Q : p \in Peers
  BY QuorumsAssumption
<1>3. clock[p] \in Int /\ tm \in Int
  BY <1>2 DEF TypeOK, Times
<1>. QED  BY <1>1, <1>2, <1>3 DEF ValidateTimestamp

\* The initial state satisfies the invariant.
LEMMA InitIInv == Init => IInv
<1>. SUFFICES ASSUME Init PROVE IInv
  OBVIOUS
<1>1. TypeOK
  BY DEF Init, TypeOK
<1>. QED
  BY <1>1 DEF Init, IInv, ReadsThePast, PendingFresh, HistoryComplete,
              TimestampsSpaced, CurrentIsLatest, HeaderIsCommitted
------------------------------------------------------------------------------
\* A step that only puts a transaction in flight keeps the invariant, if the
\* transaction is itself fresh.
LEMMA EndorseIInv ==
  ASSUME IInv, NEW c \in Clients, NEW tx \in Txs, EndorseTx(c, tx),
         tx.read <= version,
         tx.fn = "InitChaincode" => tx.seq.value = 1,
         tx.fn = "UpdateSequence" /\ tx.read = version =>
           /\ current # None
           /\ tx.seq.value = current.value + 1
           /\ tx.seq.timestamp >= current.timestamp + MinTimeInterval,
         tx.fn = "HandleTx" /\ tx.read = version =>
           /\ current # None
           /\ tx.header = getBlockHeader
  PROVE  IInv'
<1>1. TypeOK'
  BY DEF EndorseTx, IInv, TypeOK
<1>2. ReadsThePast'
  BY DEF EndorseTx, IInv, TypeOK, ReadsThePast
<1>3. PendingFresh'
  BY DEF EndorseTx, IInv, TypeOK, PendingFresh, getBlockHeader
<1>4. HistoryComplete' /\ TimestampsSpaced' /\ CurrentIsLatest' /\ HeaderIsCommitted'
  BY DEF EndorseTx, IInv, HistoryComplete, TimestampsSpaced, CurrentIsLatest,
         HeaderIsCommitted
<1>. QED  BY <1>1, <1>2, <1>3, <1>4 DEF IInv

\* The endorsement of InitChaincode keeps the invariant.
LEMMA InitChaincodeIInv ==
  ASSUME IInv, NEW c \in Clients, NEW tm \in Times, InitChaincode(c, tm)
  PROVE  IInv'
<1>. DEFINE tx == [fn |-> "InitChaincode", read |-> 0, seq |-> InitSequence(tm)]
<1>1. tx \in Txs
  BY DEF Txs, Sequences, Values, InitSequence
<1>2. EndorseTx(c, tx)
  BY DEF InitChaincode
<1>3. tx.read <= version /\ tx.seq.value = 1
  BY DEF IInv, TypeOK, InitSequence
<1>. QED  BY <1>1, <1>2, <1>3, EndorseIInv

\* The endorsement of UpdateSequence keeps the invariant.
LEMMA UpdateSequenceIInv ==
  ASSUME IInv, NEW c \in Clients, NEW tm \in Times, UpdateSequence(c, tm)
  PROVE  IInv'
<1>. DEFINE tx == [fn |-> "UpdateSequence", read |-> version, seq |-> NextSequence(tm)]
<1>1. current \in Sequences /\ current.value < MaxSequence /\ version \in Nat
  BY DEF UpdateSequence, IInv, TypeOK
<1>2. tx \in Txs
  BY <1>1 DEF Txs, Sequences, Values, NextSequence
<1>3. tm >= current.timestamp + MinTimeInterval
  <2>1. current.timestamp \in Nat /\ current.timestamp > 0
    BY <1>1 DEF Sequences, Times
  <2>. QED  BY <2>1, EndorsedTimestamp DEF UpdateSequence, IInv
<1>4. EndorseTx(c, tx)
  BY DEF UpdateSequence
<1>5. tx.read <= version
  BY <1>1
<1>6. /\ current # None
      /\ tx.seq.value = current.value + 1
      /\ tx.seq.timestamp >= current.timestamp + MinTimeInterval
  BY <1>3 DEF UpdateSequence, NextSequence
<1>. QED  BY <1>2, <1>4, <1>5, <1>6, EndorseIInv

\* The endorsement of HandleTx keeps the invariant.
LEMMA HandleTxIInv ==
  ASSUME IInv, NEW c \in Clients, HandleTx(c)
  PROVE  IInv'
<1>. DEFINE tx == [fn |-> "HandleTx", read |-> version, header |-> getBlockHeader]
<1>1. current \in Sequences /\ current # None /\ version \in Nat
  BY DEF HandleTx, IInv, TypeOK
<1>2. tx \in Txs
  BY <1>1 DEF Txs, Sequences, Values, Headers, getBlockHeader
<1>3. EndorseTx(c, tx)
  BY DEF HandleTx
<1>4. tx.read <= version
  BY <1>1
<1>. QED  BY <1>1, <1>2, <1>3, <1>4, EndorseIInv
------------------------------------------------------------------------------
\* Committing a sequence keeps the invariant, if the sequence starts the log or
\* is the acceptable successor of the current one.
LEMMA UpdateIInv ==
  ASSUME IInv, NEW s \in Sequences, NEW c \in Clients, updateSequence(s),
         pending' = [pending EXCEPT ![c] = None], UNCHANGED clock,
         epoch' \in 0 .. MaxEpoch,
         \/ s.value = 1 /\ header' = None
         \/ /\ current # None /\ header' = header
            /\ s.value = current.value + 1
            /\ s.timestamp >= current.timestamp + MinTimeInterval
  PROVE  IInv'
<1>1. /\ current' = s /\ current' # None
      /\ s.value \in Values /\ s.timestamp \in Times
      /\ seqs' = [seqs EXCEPT ![s.value] = s]
      /\ seqs \in [Values -> Sequences \cup {None}]
      /\ version \in Nat /\ version' = version + 1
  BY DEF updateSequence, IInv, TypeOK, Sequences
<1>2. Values = 1 .. MaxSequence /\ s.timestamp \in Nat
  BY DEF Values, Times, Sequences
<1>3. current # None => current.value \in Values /\ current.timestamp \in Nat
  BY DEF IInv, TypeOK, Sequences, Times
<1>4. seqs'[s.value] = s /\ \A v \in Values : v # s.value => seqs'[v] = seqs[v]
  BY <1>1
<1>5. TypeOK'
  BY <1>1 DEF IInv, TypeOK
<1>6. ReadsThePast' /\ PendingFresh'
  <2>1. \A d \in Clients : pending'[d] # None => pending'[d] = pending[d]
    BY DEF IInv, TypeOK
  <2>2. \A d \in Clients : pending'[d] # None =>
           pending'[d].read \in Nat /\ pending'[d].read <= version
    BY <2>1 DEF IInv, TypeOK, ReadsThePast, Txs
  <2>3. ReadsThePast'
    BY <1>1, <2>2 DEF ReadsThePast
  <2>4. PendingFresh'
    BY <1>1, <2>1, <2>2 DEF IInv, PendingFresh
  <2>. QED  BY <2>3, <2>4
<1>7. HistoryComplete'
  <2>. SUFFICES ASSUME NEW v \in 1 .. s.value PROVE seqs'[v] # None /\ seqs'[v].value = v
    BY <1>1, <1>4 DEF HistoryComplete
  <2>1. CASE v = s.value
    BY <2>1, <1>1, <1>4
  <2>2. CASE v # s.value
    BY <2>2, <1>1, <1>2, <1>3, <1>4 DEF IInv, HistoryComplete
  <2>. QED  BY <2>1, <2>2
<1>8. TimestampsSpaced'
  <2>. SUFFICES ASSUME NEW v \in 1 .. s.value - 1
                PROVE  seqs'[v + 1].timestamp >= seqs'[v].timestamp + MinTimeInterval
    BY <1>1 DEF TimestampsSpaced
  <2>1. /\ s.value # 1 /\ current # None /\ s.value = current.value + 1
        /\ s.timestamp >= current.timestamp + MinTimeInterval
        /\ v \in 1 .. current.value
    BY <1>1, <1>2, <1>3
  <2>2. seqs'[v] = seqs[v]
    BY <1>2, <1>3, <1>4, <2>1
  <2>3. CASE v = current.value
    BY <2>1, <2>2, <2>3, <1>4 DEF IInv, HistoryComplete
  <2>4. CASE v # current.value
    <3>1. v \in 1 .. current.value - 1 /\ v + 1 \in Values /\ v + 1 # s.value
      BY <1>2, <1>3, <2>1, <2>4
    <3>. QED  BY <1>4, <2>1, <2>2, <3>1 DEF IInv, TimestampsSpaced
  <2>. QED  BY <2>3, <2>4
<1>9. CurrentIsLatest'
  <2>. SUFFICES ASSUME NEW v \in 1 .. s.value
                PROVE  seqs'[v].timestamp <= s.timestamp
    BY <1>1 DEF CurrentIsLatest
  <2>1. CASE v = s.value
    BY <2>1, <1>1, <1>2, <1>4
  <2>2. CASE v # s.value
    <3>1. /\ current # None /\ v \in 1 .. current.value
          /\ s.timestamp >= current.timestamp + MinTimeInterval
      BY <1>1, <1>2, <1>3, <2>2
    <3>2. seqs'[v] = seqs[v] /\ v \in Values
      BY <1>2, <1>3, <1>4, <2>2, <3>1
    <3>3. seqs[v].timestamp <= current.timestamp /\ seqs[v].timestamp \in Nat
      BY <1>1, <3>1, <3>2 DEF IInv, CurrentIsLatest, HistoryComplete, Sequences, Times
    <3>. QED  BY <1>1, <1>2, <1>3, <3>1, <3>2, <3>3
  <2>. QED  BY <2>1, <2>2
<1>10. HeaderIsCommitted'
  <2>. SUFFICES ASSUME header' # None
                PROVE  /\ header'.height - 1 \in 1 .. s.value
                       /\ header'.time = seqs'[header'.height - 1].timestamp
    BY <1>1 DEF HeaderIsCommitted
  <2>1. /\ header' = header /\ current # None /\ s.value = current.value + 1
        /\ header.height - 1 \in 1 .. current.value
        /\ header.time = seqs[header.height - 1].timestamp
    BY DEF IInv, HeaderIsCommitted
  <2>2. header.height - 1 \in Values /\ header.height - 1 # s.value
    BY <1>2, <1>3, <2>1
  <2>3. header.height - 1 \in 1 .. s.value
    BY <1>2, <1>3, <2>1
  <2>. QED  BY <1>4, <2>1, <2>2, <2>3
<1>. QED  BY <1>5, <1>6, <1>7, <1>8, <1>9, <1>10 DEF IInv

\* The commit of InitChaincode starts the sequences again.
LEMMA CommitInitIInv ==
  ASSUME IInv, NEW c \in Clients, CommitInit(c)
  PROVE  IInv'
<1>1. pending[c].seq \in Sequences /\ pending[c].seq.value = 1
  BY DEF CommitInit, IInv, TypeOK, PendingFresh, Txs
<1>2. epoch' \in 0 .. MaxEpoch
  BY DEF CommitInit, IInv, TypeOK
<1>. QED  BY <1>1, <1>2, UpdateIInv, Zenon DEF CommitInit

\* The commit of UpdateSequence adds the next sequence.
LEMMA CommitUpdateIInv ==
  ASSUME IInv, NEW c \in Clients, CommitUpdate(c)
  PROVE  IInv'
<1>1. /\ pending[c].seq \in Sequences
      /\ current # None
      /\ pending[c].seq.value = current.value + 1
      /\ pending[c].seq.timestamp >= current.timestamp + MinTimeInterval
  BY DEF CommitUpdate, Valid, IInv, TypeOK, PendingFresh, Txs
<1>2. epoch' \in 0 .. MaxEpoch
  BY DEF CommitUpdate, IInv, TypeOK
<1>. QED  BY <1>1, <1>2, UpdateIInv, Zenon DEF CommitUpdate

\* The commit of HandleTx leaves the sequences alone.
LEMMA CommitHandleTxIInv ==
  ASSUME IInv, NEW c \in Clients, CommitHandleTx(c)
  PROVE  IInv'
<1>1. /\ header' \in Headers /\ current # None
      /\ header'.height = current.value + 1 /\ header'.time = current.timestamp
  BY DEF CommitHandleTx, Valid, IInv, TypeOK, PendingFresh, Txs, getBlockHeader
<1>2. current.value \in Nat \ {0}
  BY <1>1 DEF IInv, TypeOK, Sequences, Values
<1>3. TypeOK'
  BY <1>1, Zenon DEF CommitHandleTx, IInv, TypeOK
<1>4. ReadsThePast' /\ PendingFresh'
  BY DEF CommitHandleTx, IInv, TypeOK, ReadsThePast, PendingFresh, getBlockHeader
<1>5. HistoryComplete' /\ TimestampsSpaced' /\ CurrentIsLatest'
  BY DEF CommitHandleTx, IInv, HistoryComplete, TimestampsSpaced, CurrentIsLatest
<1>6. HeaderIsCommitted'
  <2>1. header'.height - 1 = current.value
    BY <1>1, <1>2
  <2>2. header'.time = seqs[current.value].timestamp
    BY <1>1 DEF IInv, HistoryComplete
  <2>. QED  BY <1>1, <1>2, <2>1, <2>2 DEF CommitHandleTx, HeaderIsCommitted
<1>. QED  BY <1>3, <1>4, <1>5, <1>6 DEF IInv

\* A transaction that is discarded changes nothing.
LEMMA DiscardIInv ==
  ASSUME IInv, NEW c \in Clients, Discard(c)
  PROVE  IInv'
<1>1. TypeOK'
  BY Zenon DEF Discard, IInv, TypeOK
<1>2. ReadsThePast' /\ PendingFresh'
  BY DEF Discard, IInv, TypeOK, ReadsThePast, PendingFresh, getBlockHeader
<1>3. HistoryComplete' /\ TimestampsSpaced' /\ CurrentIsLatest' /\ HeaderIsCommitted'
  BY DEF Discard, IInv, HistoryComplete, TimestampsSpaced, CurrentIsLatest,
         HeaderIsCommitted
<1>. QED  BY <1>1, <1>2, <1>3 DEF IInv

\* Steps that leave the world state and the transactions in flight alone.
LEMMA IdleIInv ==
  ASSUME IInv, (\E p \in Peers : Tick(p)) \/ UNCHANGED vars
  PROVE  IInv'
<1>1. UNCHANGED << current, version, seqs, header, pending, epoch >>
  BY DEF Tick, vars
<1>2. TypeOK'
  <2>1. CASE UNCHANGED vars
    BY <2>1 DEF vars, IInv, TypeOK
  <2>2. ASSUME NEW p \in Peers, Tick(p) PROVE clock' \in [Peers -> StartTime .. MaxTime]
    BY <2>2 DEF Tick, IInv, TypeOK
  <2>. QED  BY <1>1, <2>1, <2>2 DEF IInv, TypeOK
<1>3. ReadsThePast' /\ PendingFresh'
  BY <1>1, Zenon DEF IInv, ReadsThePast, PendingFresh, getBlockHeader
<1>4. HistoryComplete' /\ TimestampsSpaced' /\ CurrentIsLatest' /\ HeaderIsCommitted'
  BY <1>1 DEF IInv, HistoryComplete, TimestampsSpaced, CurrentIsLatest, HeaderIsCommitted
<1>. QED  BY <1>2, <1>3, <1>4 DEF IInv

\* Every step keeps the invariant.
LEMMA NextIInv == IInv /\ [Next]_vars => IInv'
BY InitChaincodeIInv, UpdateSequenceIInv, HandleTxIInv, CommitInitIInv,
   CommitUpdateIInv, CommitHandleTxIInv, DiscardIInv, IdleIInv DEF Next

\* Every reachable state satisfies the inductive invariant.
THEOREM Invariance == Spec => []IInv
BY InitIInv, NextIInv, PTL DEF Spec

\* Type correctness.
THEOREM TypeCorrect == Spec => []TypeOK
<1>1. IInv => TypeOK
  BY DEF IInv
<1>. QED  BY <1>1, Invariance, PTL

\* Every sequence up to the current one can be read back under its own value
\* (updateSequence, GetSequence).
THEOREM HistoryIsComplete == Spec => []HistoryComplete
<1>1. IInv => HistoryComplete
  BY DEF IInv
<1>. QED  BY <1>1, Invariance, PTL

\* Consecutive sequences keep their distance in time, although a timestamp is only
\* checked when its transaction is endorsed (ValidateTimestamp).
THEOREM SequencesSpaced == Spec => []TimestampsSpaced
<1>1. IInv => TimestampsSpaced
  BY DEF IInv
<1>. QED  BY <1>1, Invariance, PTL

\* The application only ever ran under the headers of committed sequences
\* (getBlockHeader).
THEOREM HeadersCommitted == Spec => []HeaderIsCommitted
<1>1. IInv => HeaderIsCommitted
  BY DEF IInv
<1>. QED  BY <1>1, Invariance, PTL

\* The version check admits no transaction that ran on an older sequence.
THEOREM NoStaleCommit == Spec => []PendingFresh
<1>1. IInv => PendingFresh
  BY DEF IInv
<1>. QED  BY <1>1, Invariance, PTL
------------------------------------------------------------------------------
\* Within an epoch the committed sequences form a log that is only appended to.
THEOREM LogAppendOnly == Spec => AppendOnly
<1>. DEFINE A == epoch' = epoch /\ current # None =>
               /\ current' = current \/ current'.value = current.value + 1
               /\ \A v \in 1 .. current.value : seqs'[v] = seqs[v]
<1>1. ASSUME IInv, [Next]_vars PROVE [A]_vars
  <2>. SUFFICES ASSUME Next, epoch' = epoch, current # None PROVE A
    BY <1>1
  <2>1. CASE UNCHANGED << current, seqs >>
    BY <2>1
  <2>2. ASSUME NEW c \in Clients, CommitUpdate(c) PROVE A
    <3>1. /\ pending[c].seq.value = current.value + 1
          /\ current' = pending[c].seq
          /\ seqs' = [seqs EXCEPT ![pending[c].seq.value] = pending[c].seq]
      BY <1>1, <2>2 DEF CommitUpdate, updateSequence, Valid, IInv, PendingFresh
    <3>2. current.value \in Values /\ seqs \in [Values -> Sequences \cup {None}]
      BY <1>1 DEF IInv, TypeOK, Sequences
    <3>. QED  BY <3>1, <3>2 DEF Values
  <2>3. ASSUME NEW c \in Clients, CommitInit(c) PROVE FALSE
    BY <1>1, <2>3 DEF CommitInit, IInv, TypeOK
  <2>. QED
    BY <2>1, <2>2, <2>3, Zenon DEF Next, Tick, InitChaincode, UpdateSequence, HandleTx,
                            EndorseTx, CommitHandleTx, Discard
<1>. QED  BY <1>1, Invariance, PTL DEF Spec, AppendOnly

\* Within an epoch neither the height nor the time of the block that the
\* application runs in goes back.
THEOREM BlocksMonotonic == Spec => BlockNeverGoesBack
<1>. DEFINE A == epoch' = epoch /\ header # None =>
               /\ header'.height >= header.height
               /\ header'.time >= header.time
<1>1. ASSUME IInv, [Next]_vars PROVE [A]_vars
  <2>. SUFFICES ASSUME Next, epoch' = epoch, header # None PROVE A
    BY <1>1
  <2>1. header.height \in Nat /\ header.time \in Nat
    BY <1>1 DEF IInv, TypeOK, Headers, Times
  <2>2. CASE UNCHANGED header
    BY <2>1, <2>2
  <2>3. ASSUME NEW c \in Clients, CommitHandleTx(c) PROVE A
    <3>1. /\ current # None
          /\ header'.height = current.value + 1
          /\ header'.time = current.timestamp
      BY <1>1, <2>3 DEF CommitHandleTx, Valid, IInv, PendingFresh, getBlockHeader
    <3>2. /\ header.height - 1 \in 1 .. current.value
          /\ header.time = seqs[header.height - 1].timestamp
      BY <1>1, Zenon DEF IInv, HeaderIsCommitted
    <3>3. header.time <= current.timestamp
      BY <1>1, <3>1, <3>2 DEF IInv, CurrentIsLatest
    <3>4. current.value \in Nat /\ current.timestamp \in Nat
      BY <1>1, <3>1 DEF IInv, TypeOK, Sequences, Values, Times
    <3>. QED  BY <2>1, <3>1, <3>2, <3>3, <3>4
  <2>4. ASSUME NEW c \in Clients, CommitInit(c) PROVE FALSE
    BY <1>1, <2>4 DEF CommitInit, IInv, TypeOK
  <2>. QED
    BY <2>2, <2>3, <2>4, Zenon DEF Next, Tick, InitChaincode, UpdateSequence, HandleTx,
                                   EndorseTx, CommitUpdate, Discard
<1>. QED  BY <1>1, Invariance, PTL DEF Spec, BlockNeverGoesBack
------------------------------------------------------------------------------
\* The length of the committed log and its entries.
LEMMA LogShape ==
  ASSUME IInv
  PROVE  /\ committedLog \in Seq(Times)
         /\ current = None => committedLog = << >>
         /\ current # None => /\ Len(committedLog) = current.value
                              /\ committedLog # << >>
                              /\ \A v \in 1 .. current.value :
                                   committedLog[v] = seqs[v].timestamp
<1>1. CASE current = None
  BY <1>1 DEF committedLog
<1>2. CASE current # None
  <2>1. current.value \in Nat \ {0} /\ current.value \in Values
    BY <1>2 DEF IInv, TypeOK, Sequences, Values
  <2>2. \A v \in 1 .. current.value : seqs[v].timestamp \in Times
    <3>. SUFFICES ASSUME NEW v \in 1 .. current.value PROVE seqs[v].timestamp \in Times
      OBVIOUS
    <3>1. v \in Values
      BY <2>1 DEF Values
    <3>. QED  BY <1>2, <3>1 DEF IInv, TypeOK, HistoryComplete, Sequences
  <2>3. committedLog = [v \in 1 .. current.value |-> seqs[v].timestamp]
    BY <1>2 DEF committedLog
  <2>. QED  BY <1>2, <2>1, <2>2, <2>3
<1>. QED  BY <1>1, <1>2

\* A committed InitChaincode starts the log.
LEMMA CommitInitStarts ==
  ASSUME IInv, IInv', NEW c \in Clients, CommitInit(c)
  PROVE  \E tm \in Times : Log!Start(tm)
<1>. DEFINE s == pending[c].seq
<1>1. /\ s \in Sequences /\ s.value = 1 /\ current' = s
      /\ seqs' = [seqs EXCEPT ![1] = s] /\ 1 \in Values /\ s # None
  BY ZenonT(30) DEF CommitInit, updateSequence, IInv, TypeOK, PendingFresh, Txs, Sequences
<1>2. s.timestamp \in Times /\ seqs'[1] = s
  BY <1>1 DEF IInv, TypeOK, Sequences
<1>3. committedLog' = [v \in 1 .. 1 |-> s.timestamp]
  BY <1>1, <1>2 DEF committedLog
<1>4. committedLog' = << s.timestamp >>
  BY <1>3
<1>. QED  BY <1>2, <1>4, Zenon DEF Log!Start

\* A committed UpdateSequence extends the log by one entry.
LEMMA CommitUpdateAdvances ==
  ASSUME IInv, IInv', NEW c \in Clients, CommitUpdate(c)
  PROVE  \E tm \in Times : Log!Advance(tm)
<1>. DEFINE s == pending[c].seq
            n == current.value
<1>1. /\ s \in Sequences /\ current # None /\ s.value = n + 1
      /\ s.timestamp >= current.timestamp + MinTimeInterval
      /\ current' = s /\ seqs' = [seqs EXCEPT ![n + 1] = s] /\ s # None
  BY ZenonT(30) DEF CommitUpdate, updateSequence, Valid, IInv, TypeOK, PendingFresh, Txs
<1>2. n \in Nat \ {0} /\ n \in Values /\ n + 1 \in Values /\ s.timestamp \in Times
  BY <1>1 DEF IInv, TypeOK, Sequences, Values
<1>3. seqs'[n + 1] = s /\ \A v \in 1 .. n : seqs'[v] = seqs[v]
  BY <1>1, <1>2 DEF IInv, TypeOK, Values
<1>4. /\ committedLog \in Seq(Times) /\ Len(committedLog) = n /\ committedLog # << >>
      /\ \A v \in 1 .. n : committedLog[v] = seqs[v].timestamp
  BY <1>1, LogShape, Zenon
<1>5. committedLog[Len(committedLog)] = current.timestamp
  BY <1>1, <1>2, <1>4 DEF IInv, HistoryComplete
<1>6. committedLog' = [v \in 1 .. n + 1 |-> seqs'[v].timestamp]
  BY <1>1 DEF committedLog
<1>7. committedLog' = Append(committedLog, s.timestamp)
  <2>1. Append(committedLog, s.timestamp) =
          [v \in 1 .. n + 1 |-> IF v = n + 1 THEN s.timestamp ELSE committedLog[v]]
    BY <1>2, <1>4, AppendProperties
  <2>. QED  BY <1>2, <1>3, <1>4, <1>6, <2>1
<1>. QED  BY <1>1, <1>2, <1>4, <1>5, <1>7 DEF Log!Advance

\* The execute-order-validate pipeline implements the abstract log.
THEOREM Refinement == Spec => ImplementsLog
<1>1. Init => Log!Init
  BY DEF Init, Log!Init, committedLog
<1>2. ASSUME IInv, IInv', [Next]_vars PROVE [Log!Next]_committedLog
  <2>1. CASE UNCHANGED << current, seqs >>
    BY <2>1 DEF committedLog
  <2>2. ASSUME NEW c \in Clients, CommitInit(c) PROVE Log!Next
    BY <1>2, <2>2, CommitInitStarts DEF Log!Next
  <2>3. ASSUME NEW c \in Clients, CommitUpdate(c) PROVE Log!Next
    BY <1>2, <2>3, CommitUpdateAdvances DEF Log!Next
  <2>. QED
    BY <1>2, <2>1, <2>2, <2>3, Zenon DEF vars, Next, Tick, InitChaincode, UpdateSequence,
                                         HandleTx, EndorseTx, CommitHandleTx, Discard
<1>. QED  BY <1>1, <1>2, Invariance, PTL DEF Spec, ImplementsLog, Log!Spec
==============================================================================
