-------------------------- MODULE SequenceProgress ---------------------------
(***************************************************************************)
(* When does the sequence of the IBC chaincode keep advancing?  The        *)
(* timestamp of a transaction is read from the clock of its client, and    *)
(* every endorsing peer compares it with its own clock, which may be off.  *)
(*                                                                         *)
(* Time is relative: a timestamp is kept as its distance from the time on  *)
(* the slowest clock, and one second passing makes every timestamp one     *)
(* second older.  How a timestamp that is MinTimeInterval older than the   *)
(* slowest clock is compared with others no longer depends on its age, and *)
(* it is not made older.  So the states are finite and time is not.        *)
(***************************************************************************)
EXTENDS Integers

CONSTANTS
  Peers,              \* endorsing peers
  Quorums,            \* the sets of peers that satisfy the endorsement policy
  Clients,            \* submitters, each with at most one transaction in flight
  MinTimeInterval,    \* Config.MinTimeInterval, in whole seconds
  MaxTimestampDiff,   \* Config.MaxTimestampDiff, in whole seconds
  MaxSkew,            \* how far two clocks can be apart
  None                \* an absent sequence or transaction

\* A majority of the organisations endorses, so two quorums share a peer.
ASSUME QuorumsAssumption ==
  /\ \A Q \in Quorums : Q \subseteq Peers
  /\ \A Q, R \in Quorums : Q \cap R # {}

ASSUME ConfigAssumption ==
  MinTimeInterval \in Nat /\ MaxTimestampDiff \in Nat /\ MaxSkew \in Nat

VARIABLES
  skew,       \* skew[x]: how far the clock of a peer or client x is ahead
  current,    \* timestamp of the current sequence
  pending     \* pending[c]: the endorsed, not yet ordered transaction of c

vars == << skew, current, pending >>

Skews == 0 .. MaxSkew

Times == (- MinTimeInterval) .. MaxSkew

\* The kind of transaction, its timestamp, and whether the sequence that it
\* read is still the current one.
Txs == [fn : {"InitChaincode", "UpdateSequence"}, timestamp : Times, fresh : BOOLEAN]

ASSUME NoneAssumption == None \notin Times \cup Txs

Older(t) == IF t = - MinTimeInterval THEN t ELSE t - 1
------------------------------------------------------------------------------
\* Mutants: the future is not checked, or the tolerated difference is added
\* where it has to be subtracted.
ValidateTimestampAnyFuture(now, prev, nxt) ==
  /\ ~ (now - MaxTimestampDiff > nxt)
  /\ ~ (prev # None /\ prev + MinTimeInterval > nxt)
ValidateTimestampNoPast(now, prev, nxt) ==
  /\ ~ (now + MaxTimestampDiff < nxt)
  /\ ~ (now + MaxTimestampDiff > nxt)
  /\ ~ (prev # None /\ prev + MinTimeInterval > nxt)

\* Acceptance of the transaction timestamp nxt by an endorser whose clock
\* reads now, after the timestamp prev of the current sequence, if any.
ValidateTimestamp(now, prev, nxt) ==
  /\ ~ (now + MaxTimestampDiff < nxt)
  /\ ~ (now - MaxTimestampDiff > nxt)
  /\ ~ (prev # None /\ prev + MinTimeInterval > nxt)

\* Every peer of some quorum accepts the timestamp by its own clock.
Endorsed(prev, tm) ==
  \E Q \in Quorums : \A p \in Q : ValidateTimestamp(skew[p], prev, tm)

Submit(c, fn) ==
  /\ pending[c] = None
  /\ pending' = [pending EXCEPT ![c] = [fn |-> fn, timestamp |-> skew[c], fresh |-> TRUE]]
  /\ UNCHANGED << skew, current >>

\* InitChaincode may be repeated; it does not look at the sequence that is there.
InitSequence(c) ==
  /\ Endorsed(None, skew[c])
  /\ Submit(c, "InitChaincode")

UpdateSequence(c) ==
  /\ current # None
  /\ Endorsed(current, skew[c])
  /\ Submit(c, "UpdateSequence")

\* The transaction of c is ordered and valid; the updates that the others have
\* in flight read the sequence before it.
Commit(c, fn) ==
  /\ pending[c] # None
  /\ pending[c].fn = fn
  /\ fn = "UpdateSequence" => pending[c].fresh
  /\ current' = pending[c].timestamp
  /\ pending' = [d \in Clients |->
                   CASE d = c               -> None
                     [] pending[d] = None   -> None
                     [] OTHER               -> [pending[d] EXCEPT !.fresh = FALSE]]
  /\ UNCHANGED skew

CommitInit(c) == Commit(c, "InitChaincode")
CommitUpdate(c) == Commit(c, "UpdateSequence")

\* The transaction of c is found invalid, or is lost on its way.
Discard(c) ==
  /\ pending[c] # None
  /\ pending' = [pending EXCEPT ![c] = None]
  /\ UNCHANGED << skew, current >>

\* A second passes on every clock.
Tick ==
  /\ current' = IF current = None THEN None ELSE Older(current)
  /\ pending' = [c \in Clients |->
                   IF pending[c] = None THEN None
                   ELSE [pending[c] EXCEPT !.timestamp = Older(@)]]
  /\ UNCHANGED skew

Init ==
  /\ skew \in [Peers \cup Clients -> Skews]
  /\ current = None
  /\ pending = [c \in Clients |-> None]

Next ==
  \/ Tick
  \/ \E c \in Clients :
       InitSequence(c) \/ UpdateSequence(c) \/ CommitInit(c) \/ CommitUpdate(c) \/ Discard(c)

\* Time passes, every client keeps trying to update the sequence, or to start it
\* while there is none, and not every one of its transactions is lost.
Spec ==
  /\ Init
  /\ [][Next]_vars
  /\ WF_vars(Tick)
  /\ \A c \in Clients :
       /\ WF_vars(current = None /\ InitSequence(c))
       /\ WF_vars(UpdateSequence(c))
       /\ WF_vars(Discard(c))
       /\ SF_vars(CommitInit(c))
       /\ SF_vars(CommitUpdate(c))
------------------------------------------------------------------------------
(* Properties *)

\* The clock of c and those of a quorum are at most MaxTimestampDiff apart.
Synchronised(c) ==
  \E Q \in Quorums : \A p \in Q :
    /\ skew[c] <= skew[p] + MaxTimestampDiff
    /\ skew[p] <= skew[c] + MaxTimestampDiff

\* Types of the state.
TypeOK ==
  /\ skew \in [Peers \cup Clients -> Skews]
  /\ current \in Times \cup {None}
  /\ pending \in [Clients -> Txs \cup {None}]

\* No client can push the sequence far into the future of another: whoever is
\* synchronised with a quorum waits at most twice MaxTimestampDiff, and the
\* minimum interval, until its timestamps are acceptable (ValidateTimestamp).
WaitBounded ==
  \A c \in Clients :
    current # None /\ Synchronised(c) => current <= skew[c] + 2 * MaxTimestampDiff

\* From some time on nobody initialises the chaincode again.
InitialisationsEnd == <>[][\A c \in Clients : ~ CommitInit(c)]_vars

\* As long as the clock of one client is synchronised with those of a quorum,
\* the sequence never stops, however far the other clocks are off, whatever
\* timestamps their clients update it with and however often the chaincode was
\* initialised again, provided that this ends: InitSequence skips the minimum
\* interval, so a client that repeats it for ever can be ahead of every update
\* (InitSequence, UpdateSequence).
KeepsAdvancing ==
  (\E c \in Clients : Synchronised(c)) /\ InitialisationsEnd =>
    []<><< \E c \in Clients : CommitUpdate(c) >>_vars
==============================================================================
