----------------------- MODULE SequenceProgressProofs ------------------------
(***************************************************************************)
(* The bound on the wait of a synchronised client, for any number of peers *)
(* and clients, any clocks, and any configuration.                         *)
(*                                                                         *)
(* WaitBounded is not inductive: it says nothing of the transactions in    *)
(* flight, nor by which quorum the current sequence was accepted.  The     *)
(* strengthening is that every timestamp, committed or in flight, is at    *)
(* most MaxTimestampDiff ahead of the clocks of a whole quorum.  That      *)
(* quorum shares a peer with the one the client is synchronised with.      *)
(***************************************************************************)
EXTENDS SequenceProgress, TLAPS

\* The time in seconds that a backend may take over a step.
USE SMTT(30), ZenonT(30)


\* The timestamp t is not in the future for a quorum.
Tolerated(t) == \E Q \in Quorums : \A p \in Q : t <= skew[p] + MaxTimestampDiff

IInv ==
  /\ TypeOK
  /\ current # None => Tolerated(current)
  /\ \A c \in Clients : pending[c] # None => Tolerated(pending[c].timestamp)

\* A second passing makes no timestamp leave the range of times or the future.
LEMMA OlderTime ==
  ASSUME NEW t \in Times
  PROVE  Older(t) \in Times /\ Older(t) <= t
  BY ConfigAssumption DEF Older, Times

\* No clock is adjusted, and what is not in the future of a quorum stays so.
LEMMA ToleratedStays ==
  ASSUME TypeOK, UNCHANGED skew, NEW t \in Times, NEW u \in Times,
         Tolerated(t), u <= t
  PROVE  Tolerated(u)'
  <1>1. PICK Q \in Quorums : \A p \in Q : t <= skew[p] + MaxTimestampDiff
    BY DEF Tolerated
  <1>2. \A p \in Q : skew[p] \in Int
    BY QuorumsAssumption, ConfigAssumption DEF TypeOK, Skews
  <1>3. t \in Int /\ u \in Int
    BY ConfigAssumption DEF Times
  <1>4. \A p \in Q : u <= skew[p] + MaxTimestampDiff
    BY <1>1, <1>2, <1>3, ConfigAssumption
  <1> QED
    BY <1>4 DEF Tolerated

\* What a quorum endorses is not in its future (ValidateTimestamp).
LEMMA EndorsedTolerated ==
  ASSUME NEW c \in Clients, NEW prev, TypeOK, Endorsed(prev, skew[c])
  PROVE  skew[c] \in Times /\ Tolerated(skew[c])
  <1>1. skew[c] \in Times
    BY ConfigAssumption DEF TypeOK, Skews, Times
  <1>2. PICK Q \in Quorums : \A p \in Q : ~ (skew[p] + MaxTimestampDiff < skew[c])
    BY DEF Endorsed, ValidateTimestamp
  <1>3. \A p \in Q : skew[p] \in Int
    BY QuorumsAssumption, ConfigAssumption DEF TypeOK, Skews
  <1>4. \A p \in Q : skew[c] <= skew[p] + MaxTimestampDiff
    BY <1>1, <1>2, <1>3, ConfigAssumption DEF Times
  <1> QED
    BY <1>1, <1>4 DEF Tolerated

\* Submitting a tolerated timestamp keeps the invariant.
LEMMA SubmitKeeps ==
  ASSUME IInv, NEW c \in Clients, NEW fn \in {"InitChaincode", "UpdateSequence"},
         Submit(c, fn), skew[c] \in Times, Tolerated(skew[c])
  PROVE  IInv'
  <1> DEFINE tx == [fn |-> fn, timestamp |-> skew[c], fresh |-> TRUE]
  <1>1. tx \in Txs /\ tx.timestamp = skew[c]
    BY DEF Txs
  <1>2. pending' = [pending EXCEPT ![c] = tx] /\ UNCHANGED << skew, current >>
    BY DEF Submit
  <1> HIDE DEF tx
  <1>3. TypeOK'
    BY <1>1, <1>2 DEF IInv, TypeOK
  <1>4. Tolerated(current)' <=> Tolerated(current)
    BY <1>2 DEF Tolerated
  <1>5. ASSUME NEW d \in Clients, pending[d]' # None
        PROVE  Tolerated(pending[d].timestamp)'
    <2>1. CASE d = c
      <3>1. pending'[d] = tx
        BY <1>2, <2>1 DEF IInv, TypeOK
      <3> QED
        BY <3>1, <1>1, <1>2 DEF Tolerated
    <2>2. CASE d # c
      <3>1. pending'[d] = pending[d]
        BY <1>2, <2>2 DEF IInv, TypeOK
      <3> QED
        BY <3>1, <1>2, <1>5 DEF IInv, Tolerated
    <2> QED
      BY <2>1, <2>2
  <1> QED
    BY <1>2, <1>3, <1>4, <1>5 DEF IInv

\* A commit makes a tolerated timestamp the current one.
LEMMA CommitKeeps ==
  ASSUME IInv, NEW c \in Clients, NEW fn, Commit(c, fn)
  PROVE  IInv'
  <1>1. pending[c] \in Txs /\ current' = pending[c].timestamp /\ UNCHANGED skew
    BY DEF Commit, IInv, TypeOK
  <1>2. \A d \in Clients :
          \/ pending'[d] = None
          \/ /\ pending[d] # None
             /\ pending'[d] = [pending[d] EXCEPT !.fresh = FALSE]
    BY DEF Commit
  <1>3. \A d \in Clients : pending'[d] # None =>
          /\ pending[d] # None
          /\ pending'[d] \in Txs
          /\ pending'[d].timestamp = pending[d].timestamp
    BY <1>2, ZenonT(30) DEF IInv, TypeOK, Txs
  <1>4. pending' \in [Clients -> Txs \cup {None}]
    <2>1. \A d \in Clients : pending'[d] \in Txs \cup {None}
      BY <1>3
    <2>2. \E F : pending' = [d \in Clients |-> F[d]]
      <3>1. pending' = [d \in Clients |-> pending'[d]]
        BY DEF Commit
      <3> QED
        BY <3>1
    <2> QED
      BY <2>1, <2>2
  <1>5. TypeOK'
    BY <1>1, <1>4 DEF IInv, TypeOK, Txs
  <1>6. Tolerated(current)'
    BY <1>1 DEF IInv, Tolerated, Commit
  <1>7. \A d \in Clients : pending'[d] # None => Tolerated(pending[d].timestamp)'
    BY <1>1, <1>3 DEF IInv, Tolerated
  <1> QED
    BY <1>5, <1>6, <1>7 DEF IInv

\* A second passing keeps the invariant.
LEMMA TickKeeps ==
  ASSUME IInv, Tick
  PROVE  IInv'
  <1>1. UNCHANGED skew /\ TypeOK
    BY DEF Tick, IInv
  <1>2. current' # None => /\ current \in Times
                           /\ Tolerated(current)
                           /\ current' = Older(current)
    BY DEF Tick, IInv, TypeOK
  <1>3. current' # None => current' \in Times /\ Tolerated(current)'
    BY <1>1, <1>2, OlderTime, ToleratedStays
  <1>4. \A c \in Clients : pending'[c] # None =>
          /\ pending[c] \in Txs
          /\ Tolerated(pending[c].timestamp)
          /\ pending'[c] = [pending[c] EXCEPT !.timestamp = Older(@)]
    BY DEF Tick, IInv, TypeOK
  <1>5. \A c \in Clients : pending'[c] # None =>
          /\ pending[c].timestamp \in Times
          /\ pending'[c].timestamp = Older(pending[c].timestamp)
          /\ pending'[c] \in Txs
    <2> SUFFICES ASSUME NEW c \in Clients, pending'[c] # None
                 PROVE  /\ pending[c].timestamp \in Times
                        /\ pending'[c].timestamp = Older(pending[c].timestamp)
                        /\ pending'[c] \in Txs
      OBVIOUS
    <2> DEFINE tx == pending[c]
               old == Older(tx.timestamp)
    <2>1. tx \in Txs /\ pending'[c] = [tx EXCEPT !.timestamp = old]
      BY <1>4
    <2>2. tx.timestamp \in Times
      BY <2>1 DEF Txs
    <2>3. old \in Times
      BY <2>2, OlderTime
    <2> HIDE DEF tx, old
    <2>4. [tx EXCEPT !.timestamp = old] \in Txs /\ [tx EXCEPT !.timestamp = old].timestamp = old
      BY <2>1, <2>3 DEF Txs
    <2> QED
      BY <2>1, <2>2, <2>4 DEF tx, old
  <1>6. \A c \in Clients : pending'[c] # None => Tolerated(pending[c].timestamp)'
    BY <1>1, <1>4, <1>5, OlderTime, ToleratedStays, Zenon
  <1>7. pending' = [c \in Clients |-> pending'[c]]
    BY DEF Tick
  <1>8. TypeOK'
    BY <1>1, <1>3, <1>5, <1>7 DEF TypeOK
  <1> QED
    BY <1>3, <1>6, <1>8 DEF IInv

\* The strengthening is inductive.
LEMMA IInvInductive == IInv /\ [Next]_vars => IInv'
  <1> SUFFICES ASSUME IInv, [Next]_vars PROVE IInv'
    OBVIOUS
  <1>1. CASE UNCHANGED vars
    BY <1>1 DEF vars, IInv, TypeOK, Tolerated
  <1>2. CASE Tick
    BY <1>2, TickKeeps
  <1>3. ASSUME NEW c \in Clients, InitSequence(c) PROVE IInv'
    BY <1>3, EndorsedTolerated, SubmitKeeps DEF InitSequence, IInv
  <1>4. ASSUME NEW c \in Clients, UpdateSequence(c) PROVE IInv'
    BY <1>4, EndorsedTolerated, SubmitKeeps DEF UpdateSequence, IInv
  <1>5. ASSUME NEW c \in Clients, CommitInit(c) \/ CommitUpdate(c) PROVE IInv'
    BY <1>5, CommitKeeps DEF CommitInit, CommitUpdate
  <1>6. ASSUME NEW c \in Clients, Discard(c) PROVE IInv'
    BY <1>6 DEF Discard, IInv, TypeOK, Tolerated
  <1> QED
    BY <1>1, <1>2, <1>3, <1>4, <1>5, <1>6 DEF Next

\* The shared peer of the two quorums bounds the distance.
LEMMA IInvImpliesBound == IInv => WaitBounded
  <1> SUFFICES ASSUME IInv, NEW c \in Clients, current # None, Synchronised(c)
               PROVE  current <= skew[c] + 2 * MaxTimestampDiff
    BY DEF WaitBounded
  <1>1. PICK Q \in Quorums : \A p \in Q : current <= skew[p] + MaxTimestampDiff
    BY DEF IInv, Tolerated
  <1>2. PICK R \in Quorums : \A p \in R : skew[p] <= skew[c] + MaxTimestampDiff
    BY DEF Synchronised
  <1>3. PICK p \in Peers : p \in Q /\ p \in R
    BY <1>1, <1>2, QuorumsAssumption
  <1>4. skew[p] \in Int /\ skew[c] \in Int /\ current \in Int
    BY ConfigAssumption DEF IInv, TypeOK, Skews, Times
  <1> QED
    BY <1>1, <1>2, <1>3, <1>4, ConfigAssumption

\* Whoever is synchronised with a quorum is never kept waiting for longer than
\* twice MaxTimestampDiff and the minimum interval, whatever the other clients
\* with their clocks submit (ValidateTimestamp, majority endorsement).
THEOREM WaitIsBounded == Spec => []WaitBounded
  <1>1. Init => IInv
    BY NoneAssumption DEF Init, IInv, TypeOK
  <1>2. IInv /\ [Next]_vars => IInv'
    BY IInvInductive
  <1>3. IInv => WaitBounded
    BY IInvImpliesBound
  <1> QED
    BY <1>1, <1>2, <1>3, PTL DEF Spec
==============================================================================
