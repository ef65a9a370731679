------------------------------- MODULE BaseApp -------------------------------
(***************************************************************************)
(* Execution of application transactions by the chaincode: HandleTx runs   *)
(* the messages of a transaction on a cache over the world state, writes   *)
(* the cache to the stub when all of them have succeeded, and then stores  *)
(* the packets and acknowledgements that it finds in the events.           *)
(*                                                                         *)
(* A peer simulates HandleTx against its committed state, which does not   *)
(* change during the simulation; GetState never returns what the same      *)
(* transaction has put.  The endorsed transaction is committed later, and  *)
(* only if no key that it read from the stub has a new version by then.    *)
(* The messages are those of IBC packets on one channel.                   *)
(***************************************************************************)
EXTENDS Integers, Sequences, FiniteSetsExt

CONSTANTS
  Clients,       \* submitters, each with at most one transaction in flight
  Txs,           \* transactions: sequences of messages
  MaxPackets,    \* bound on the sequence numbers of packets
  Data,          \* contents of packets and acknowledgements
  Absent,        \* value of a key that is not there, and mark of a deletion
  Unwritten,     \* a key that a cache or a write set does not hold
  None           \* no simulation, no transaction

Seqs == 1 .. MaxPackets

\* The keys of the IBC store, and those that the event handlers use.
NextSend == << "nextSequenceSend", 0 >>
AppKeys == {NextSend} \cup ({"commitment", "receipt", "ack"} \X Seqs)
EventKeys == {"/packets", "/acks"} \X Seqs
StateKeys == AppKeys \cup EventKeys

\* The messages that a transaction can consist of; "odd" is a packet sent whose
\* event has an unexpected form, "fail" and "invalid" stand for the messages that
\* fail in their handler and in ValidateBasic.
Msgs == [type : {"send", "odd"}, data : Data, signer : Clients]
        \cup [type : {"recv"}, seq : Seqs, data : Data, signer : Clients]
        \cup [type : {"acknowledge"}, seq : Seqs, signer : Clients]
        \cup [type : {"fail", "invalid"}, signer : Clients]

ASSUME TxsAssumption == Txs \subseteq Seq(Msgs)
ASSUME ConstantsAssumption ==
  /\ MaxPackets \in Nat
  /\ Absent \notin Data
  /\ Unwritten \notin Data \cup {Absent} \cup 1 .. MaxPackets + 1
  /\ None \notin [sent : Seq(Data), open : SUBSET Seqs, received : SUBSET (Seqs \X Data)]

VARIABLES
  world,      \* the committed value of every key
  version,    \* its version
  sim,        \* the simulation in progress: transaction, cache, reads, events
  pending     \* pending[c]: the endorsed transaction of c, with read and write set

vars == << world, version, sim, pending >>
------------------------------------------------------------------------------
(* The stub and the cache over it *)

\* Mutant: the cache is not consulted.
GetFromStub(k) == world[k]

\* A read goes to the cache first and then to the stub.
Get(k) == IF sim.cache[k] # Unwritten THEN sim.cache[k] ELSE world[k]

\* The keys of K that are read from the stub, and so enter the read set.
StubReads(K) == {k \in K : sim.cache[k] = Unwritten}

\* The cache after the values of new have been set on top of it.
Overlay(cache, new) ==
  [k \in AppKeys |-> IF k \in DOMAIN new THEN new[k] ELSE cache[k]]

EmptyCache == [k \in AppKeys |-> Unwritten]
------------------------------------------------------------------------------
(* The handlers of the messages, in the IBC modules *)

Reads(msg) ==
  CASE msg.type \in {"send", "odd", "fail"} -> {NextSend}
    [] msg.type = "recv"             -> {<< "receipt", msg.seq >>}
    [] msg.type = "acknowledge"      -> {<< "commitment", msg.seq >>}
    [] OTHER                         -> {}

Succeeds(msg) ==
  CASE msg.type \in {"send", "odd"}  -> Get(NextSend) <= MaxPackets
    [] msg.type = "recv"             -> Get(<< "receipt", msg.seq >>) = Absent
    [] msg.type = "acknowledge"      -> Get(<< "commitment", msg.seq >>) # Absent
    [] OTHER                         -> FALSE

\* The keys that the handler sets (or deletes), with their values.  A handler
\* that fails may have set keys before.
Sets(msg) ==
  LET s == IF msg.type \in {"recv", "acknowledge"} THEN msg.seq ELSE Get(NextSend)
  IN  CASE msg.type \in {"send", "odd"} ->
             [k \in {NextSend, << "commitment", s >>} |->
                IF k = NextSend THEN s + 1 ELSE msg.data]
        [] msg.type = "recv" ->
             [k \in {<< "receipt", s >>, << "ack", s >>} |-> msg.data]
        [] msg.type = "acknowledge" -> [k \in {<< "commitment", s >>} |-> Absent]
        [] OTHER -> [k \in {NextSend} |-> s + 1]

\* The events that it emits.  Those of an odd message have their attributes in
\* another order than the IBC module of this version gives them.
Events(msg) ==
  CASE msg.type \in {"send", "odd"} ->
         << [type |-> "send_packet", seq |-> Get(NextSend), data |-> msg.data,
             inOrder |-> msg.type = "send"] >>
    [] msg.type = "recv" ->
         << [type |-> "write_acknowledgement", seq |-> msg.seq, data |-> msg.data,
             inOrder |-> TRUE] >>
    [] OTHER -> << >>
------------------------------------------------------------------------------
(* HandleTx *)

validateBasicTxMsgs(msgs) ==
  /\ msgs # << >>
  /\ \A i \in DOMAIN msgs : msgs[i].type # "invalid"

getSigners(msgs) == {msgs[i].signer : i \in DOMAIN msgs}

\* The only signer is the Fabric identity that has created the transaction.
AnteHandle(c, msgs) == getSigners(msgs) = {c}

\* HandleTx up to the first message.  A transaction that does not pass the
\* checks has no effect.
RunTx(c, tx) ==
  /\ sim = None
  /\ pending[c] = None
  /\ validateBasicTxMsgs(tx)
  /\ AnteHandle(c, tx)
  /\ sim' = [client |-> c, tx |-> tx, left |-> tx, cache |-> EmptyCache,
             reads |-> {}, events |-> << >>]
  /\ UNCHANGED << world, version, pending >>

AppendEvents(events, msg) == events \o Events(msg)

\* One round of the loop: the next message runs on the cache, and an error ends
\* the transaction, with the cache dropped.
runMsgs(msg) ==
  sim' = IF Succeeds(msg)
         THEN [sim EXCEPT !.left = Tail(@), !.cache = Overlay(@, Sets(msg)),
                          !.reads = @ \cup StubReads(Reads(msg)),
                          !.events = AppendEvents(@, msg)]
         ELSE None

RunMsg ==
  /\ sim # None
  /\ sim.left # << >>
  /\ runMsgs(Head(sim.left))
  /\ UNCHANGED << world, version, pending >>

\* The places of the events of a type.
OfType(events, type) == {i \in DOMAIN events : events[i].type = type}

\* Every attribute must be at the place the parser expects it.
assertIndex(events, places) == \A i \in places : events[i].inOrder

getPacketsFromEvents(events) == OfType(events, "send_packet")

getPacketAcknowledgementsFromEvents(events) == OfType(events, "write_acknowledgement")

\* What is put under the key of sequence s: the last item with that sequence.
PutFor(events, places, s) ==
  LET items == {i \in places : events[i].seq = s}
  IN  IF items = {} THEN Unwritten ELSE events[Max(items)].data

\* Mutant: only the first packet of a transaction is stored.
HandlePacketEventFirst(events) ==
  LET packets == getPacketsFromEvents(events)
  IN  [s \in Seqs |-> IF packets # {} THEN PutFor(events, {Min(packets)}, s)
                      ELSE Unwritten]

HandlePacketEvent(events) ==
  [s \in Seqs |-> PutFor(events, getPacketsFromEvents(events), s)]

HandlePacketAcknowledgementEvent(events) ==
  [s \in Seqs |-> PutFor(events, getPacketAcknowledgementsFromEvents(events), s)]

\* The write set: the cache, and what the two event handlers put.
WriteSet(cache, events) ==
  [k \in StateKeys |->
     CASE k \in AppKeys       -> cache[k]
       [] k[1] = "/packets"   -> HandlePacketEvent(events)[k[2]]
       [] k[1] = "/acks"      -> HandlePacketAcknowledgementEvent(events)[k[2]]]

\* All messages have succeeded: the cache is written, and then the events are
\* handled.  An error of an event handler is an error of HandleTx, and the peer
\* drops the write set.
Handle ==
  /\ sim # None
  /\ sim.left = << >>
  /\ IF /\ assertIndex(sim.events, getPacketsFromEvents(sim.events))
        /\ assertIndex(sim.events, getPacketAcknowledgementsFromEvents(sim.events))
     THEN pending' = [pending EXCEPT ![sim.client] =
                        [tx |-> sim.tx,
                         reads |-> [k \in sim.reads |-> version[k]],
                         writes |-> WriteSet(sim.cache, sim.events)]]
     ELSE pending' = pending
  /\ sim' = None
  /\ UNCHANGED << world, version >>
------------------------------------------------------------------------------
(* Ordering and validation by Fabric *)

Valid(p) == \A k \in DOMAIN p.reads : version[k] = p.reads[k]

Commit(c) ==
  /\ sim = None
  /\ pending[c] # None
  /\ Valid(pending[c])
  /\ LET w == pending[c].writes
     IN  /\ world' = [k \in StateKeys |-> IF w[k] = Unwritten THEN world[k] ELSE w[k]]
         /\ version' = [k \in StateKeys |-> IF w[k] = Unwritten THEN version[k]
                                            ELSE version[k] + 1]
  /\ pending' = [pending EXCEPT ![c] = None]
  /\ UNCHANGED sim

\* The transaction is lost or invalidated.
Discard(c) ==
  /\ sim = None
  /\ pending[c] # None
  /\ pending' = [pending EXCEPT ![c] = None]
  /\ UNCHANGED << world, version, sim >>

Init ==
  /\ world = [k \in StateKeys |-> IF k = NextSend THEN 1 ELSE Absent]
  /\ version = [k \in StateKeys |-> 0]
  /\ sim = None
  /\ pending = [c \in Clients |-> None]

Next ==
  \/ \E c \in Clients : \/ \E tx \in Txs : RunTx(c, tx)
                        \/ Commit(c)
                        \/ Discard(c)
  \/ RunMsg
  \/ Handle

Spec == Init /\ [][Next]_vars
------------------------------------------------------------------------------
(* Queries and properties *)

QueryPacket(s) == world[<< "/packets", s >>]

QueryPacketAcknowledgement(s) == world[<< "/acks", s >>]

\* The event handlers and the IBC store never disagree: the packets that can be
\* queried are exactly those that have been sent, a packet that still awaits its
\* acknowledgement with the data it was committed with; and the acknowledgement
\* that can be queried is the one whose commitment is in the IBC store, for
\* exactly the packets that have been received (HandlePacketEvent,
\* HandlePacketAcknowledgementEvent, QueryPacket, QueryPacketAcknowledgement).
RecordsQueryable ==
  \A s \in Seqs :
    /\ QueryPacket(s) # Absent <=> s < world[NextSend]
    /\ world[<< "commitment", s >>] \in {Absent, QueryPacket(s)}
    /\ QueryPacketAcknowledgement(s) = world[<< "ack", s >>]
    /\ world[<< "receipt", s >>] # Absent <=> world[<< "ack", s >>] # Absent

ledger ==
  [sent |-> [s \in 1 .. world[NextSend] - 1 |-> QueryPacket(s)],
   open |-> {s \in Seqs : world[<< "commitment", s >>] # Absent},
   received |-> {<< s, QueryPacketAcknowledgement(s) >> :
                 s \in {r \in Seqs : world[<< "receipt", r >>] # Absent}}]

Ledger == INSTANCE PacketLedger WITH NoLedger <- None

\* Concurrent transactions, each run on a cache and validated by the versions
\* of the keys it read, have the effect of running one after the other, each as
\* a whole or not at all (RunTx, runMsgs, HandleTx).
Serializable == Ledger!Spec
==============================================================================
