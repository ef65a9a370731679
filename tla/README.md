# A TLA+ verification of Fabric-IBC

Fabric-IBC runs the Inter-Blockchain Communication protocol as a chaincode of
Hyperledger Fabric. Fabric has no block height, no block time and no Merkle
proofs that a chaincode could use. The repository replaces them with a
*sequence* that the chaincode keeps in its own state, with *endorsements* of
commitment entries in place of proofs, and with a light client that checks
endorsements against the membership service providers (MSPs) of the channel.
The modules in this directory specify these replacements and what they promise.

## 1. The system

| Part | Code | What it does |
|---|---|---|
| Sequence manager | `chaincode/commitment/sequence.go` | keeps the current sequence (value, timestamp) and every earlier one; checks a proposed timestamp against the clock of the endorsing peer |
| Chaincode | `chaincode/chaincode.go` | `InitChaincode`, `HandleTx`, `UpdateSequence`, `Query` and the `Endorse...` functions |
| Base application | `chaincode/app/`, `chaincode/app.go` | runs the messages of a transaction on nested caches; derives the block header from the sequence |
| Event handlers | `chaincode/packet_event_handler.go`, `event_handler.go` | store the packets and acknowledgements found in the events of a transaction |
| Ante handler | `chaincode/x/auth/` | ties the signer of the messages to the creator of the Fabric transaction |
| Query routing | `chaincode/app/query.go`, `grpcrouter.go`, `grpcserver.go` | finds the handler of a query among gRPC methods, store and custom queries |
| Stores | `chaincode/store/`, `chaincode/x/compat/` | a multistore with prefixes over a key-value database over the chaincode stub |
| Light client | `light-clients/fabric/types/` | client state, headers, MSP governance, verification of proofs |
| Client keeper | `light-clients/fabric/keeper/` | the consensus state that a chain expects others to have of it |
| Prover | `relay/prover.go`, `proof.go`, `client-tx.go`, `commitment.go` | endorses entries and packs them as proofs with a height |
| Chain access of the relayer | `relay/chain.go`, `query.go`, `tx.go`, `fabric.go` | lists and fetches packets and acknowledgements, submits messages through the Fabric gateway |
| Example application | `simapp/app.go` | is built anew on the state of the peer by every invocation |
| Messages | `*.pb.go` | generated code that marshals and unmarshals what is stored, signed and sent |
| Test chain | `simapp/testing/` | drives two chains; its `UpdateClient` is the only complete header relay in the repository |

A transaction is *executed* by the endorsing peers against their committed
state, *ordered* later, and *validated*: its writes are applied only if no key
that it read has changed. The code relies on this throughout and contains no
lock of its own, so the interleavings of executed and committed transactions
are what most of the modules are about. Fabric, ibc-go, the Cosmos SDK and the
relayer into which `relay/` plugs are not part of the repository; they are
modelled from how the code uses them and marked external in `PROJECT.json`.

## 2. The modules

    SequenceLog <--implements-- SequenceManager        (SequenceManagerProofs)
         |                      SequenceProgress       (SequenceProgressProofs)
         | INSTANCE
    ClientRelay --extends--> FabricClient --implements--> MSPRegistry
         ^                                             (ClientProofs)
         | extends
         +-- ProofRelay, Timeouts                      (ClientProofs)

    Handshake: two chains, each with a client of the other (HandshakeProofs)
    PacketRelay --implements--> PacketTransfer         (PacketRelayProofs)
    BaseApp --implements--> PacketLedger               (BaseAppProofs)
    Lifecycle                                          (ApplicationProofs)
    CompatDB                                           (CompatDBProofs)
    Codec --extends--> Messages --extends--> Wire

`MC*.tla` give the constants for TLC; each `.cfg` is one run. `MCClientRelay`
covers `ClientRelay` and `Timeouts`, and `MCApplication` covers `Lifecycle`.

### SequenceManager, SequenceLog

State: the clock of each peer, the current-sequence key with its version, the
key of every past sequence, the block header of the last `HandleTx`, and the
endorsed transaction that each submitter has in flight. `InitChaincode`,
`UpdateSequence` and `HandleTx` are the *execution*: all peers of some quorum
accept the timestamp (`ValidateTimestamp`) or the function fails.
`CommitInit`, `CommitUpdate`, `CommitHandleTx` and `Discard` are the *commit*.
`InitChaincode` does not read the current sequence, so the version check never
rejects it: a second initialization starts a new *epoch*, and the
monotonicity properties are stated within an epoch.

`SequenceLog` is the promise: a log of timestamps that is started and then
appended to, each at least `MinTimeInterval` after the one before.

### SequenceProgress

Whether the sequence can go on at all depends on clocks that nobody
synchronises: a client stamps its transaction and every peer of a quorum
compares the stamp with its own clock. The module keeps only the current
sequence, the transactions in flight and how far the clocks are apart, and
measures time from the slowest clock, so that time goes on for ever in a finite
number of states. A timestamp that is `MinTimeInterval` older than the slowest
clock is not aged any further, since no comparison tells it from an older one.
`InitSequence` compares with no earlier sequence and can be invoked at any time.

### FabricClient, MSPRegistry

State: the four fields of `ClientState` that change, and the consensus states
by height. One action, `UpdateClient(h)`, is the client keeper's call of
`CheckHeaderAndUpdateState`: `ValidateBasic`, `checkValidity`, every
verification function of `fabric.go`, and `update`. An MSP configuration is
the name that it sets up an MSP under, with the signing key that it certifies,
or `Broken`. The code never compares that name with the identifier of the header,
so the two may differ; policies and signatures go by the name. A policy is the
family of the sets of names that satisfy it. Signatures are a set of identities
of a name and a key. The keeper asks a header for its height before anything
else, and `GetHeight` dereferences the chaincode header, so a header without one
has no effect although `ValidateBasic` admits it.

`MSPRegistry` is the promise about the members: a table in which an entry is
created where there is none and changed while it is not frozen.

### ClientRelay

The chain is an instance of `SequenceLog`, run by one deployed version of the
chaincode. `EndorseSequenceCommitment(v)` adds an endorsed sequence to what
relayers hold; `Submit` sends any of these, at any time and any number of
times, with or without a description of the deployed version. This is the
composition of chain and client. `InitChaincode` is not repeated here: the
properties are about one epoch of the chain.

### ProofRelay

Adds the IBC store of the chain (`HandleTx`), the prover and the verification
on the counterparty. A query with proof is two actions, because the code makes
two calls: `QueryWithProof` endorses the entry, and `getCurrentHeight` asks
for the sequence afterwards. The chaincode also endorses the absence of a receipt
and the next receive sequence, for which the prover has no query: `EndorseOther`
stands for other software that calls these functions, and is left out of
`prover`. `Accept` is any of the eight `Verify` functions.
What a transaction of the IBC modules may do to an entry depends on its kind:
acknowledgements, receipts and consensus states are written once; connection
and channel ends and the next receive sequence only advance; packet
commitments are deleted; client states are replaced.

### Timeouts

When a packet has timed out, by the block header of the receiving chain
(`getBlockHeader`, one above the current sequence) and by the consensus states
of the client on the sending chain (`GetTimestamp`, in seconds where ibc-go
expects nanoseconds). No state of its own: every reachable state of
`ClientRelay` is asked about every timeout.

### Handshake

Two chains, each with its log, a client of the other chain, and connection
ends. A relayer queries an end and a consensus state on one chain
(`QueryConnectionWithProof`) and later submits the message that the end calls
for to the other chain (`SendMsgs`), which answers, acknowledges, confirms or
rejects. Any relayer may work on any pair of ends, from either side; one end
may be answered more than once, as `MsgConnectionOpenTry` never continues a
handshake. The repository's part is what makes the messages acceptable: the
endorsed ends, `GetSelfConsensusState`, `ValidateSelfClient` and the height of
the block header.

### PacketRelay, PacketTransfer

A round of a relayer in the steps in which it sees the chains: `List` (a page),
`Filter` (what has not arrived), `Fetch` (each packet with its proof) and
`SendMsgs` (one transaction for all), for packets and then for
acknowledgements. The order of the calls is that of the external relayer; each
call is the repository's. A page is in the order of keys, which end in the number
of the packet written without leading zeros: packet 10 comes before packet 2.
`Radix` is the base of these numbers, so that a small instance has numbers of
several digits. `Timeout`, `Restart`, `Lose` and `Invalidate` are the
faults: a transaction that the relayer has given up may still be ordered, and
the gateway contract is gone after a restart until a query connects again.
`PacketTransfer` is the promise: sent, received once, acknowledged once.

### BaseApp, PacketLedger

`HandleTx` in steps: `RunTx` (validation, ante handler, new caches), one
`RunMsg` per message, `Handle` (the caches are written and both event handlers
run), then `Commit` or `Discard`. The messages are those of packets on one
channel, one that fails, and one whose event has its attributes in another
order than the parser expects. The nested caches of `RunTx` are one cache: the
inner one is written to the outer one without anything in between, and the
ante handlers write nothing. `PacketLedger` is the promise: whole transactions,
one after the other.

### Lifecycle

There is no application between two invocations. `NewIBCApp` builds it on a
committed state and rebuilds the capabilities in memory from the persisted
owners; `InitChaincode` runs the genesis of the modules in their order, or none
for an empty app state; `HandleTx` opens a channel. Invocations of several
clients race on the same state.

### Wire, Messages, Codec

`Wire` is the shape that all generated functions share: varints, tags, nested
messages, the skipping of unknown fields. `Messages` lists for each of the
twenty messages the cases of its `Unmarshal`, the bytes of its `Marshal` and
the count of its `Size`, which are three separate pieces of code. `Codec` sends
a message from one process to another that may know fewer fields, and feeds
bytes that nobody marshalled to `Unmarshal`. A 64-bit word has 15 bits and a 32-bit
one 8: 64 = 9 * 7 + 1 and 15 = 2 * 7 + 1, so the last byte of the longest varint
contributes one bit in both.

### CompatDB

`compat.DB` under the multistore: hexadecimal keys, store prefixes, both
iterators, batches, and the store queries of the application. A byte has two
digits of base `Base`; characters before and after all digits stand for the
keys that the chaincode puts as they are (`h/_/seq/...`, `/packets/...`).
`KeysAssumption` says that none of these begins with the two digits of the first
byte of a prefix; in the code these are `73`, for the `s` of `s/k:`.

## 3. What TLC checks

| Run | Question | Size |
|---|---|---|
| `sequence` | Do racing and stale transactions implement `SequenceLog`, with every past sequence kept and a block header that never goes back? | 3 peers, 2 submitters, 3 sequences, 2 epochs; 120,000 states |
| `sequence_progress` | Does the sequence keep advancing whatever the clocks, as long as one client is synchronised with a quorum, and how far ahead can it be pushed? | 3 peers, 2 clients, clocks up to 3 seconds apart, unbounded time; 174,000 states |
| `client` | Does every series of headers keep the members sorted and implement `MSPRegistry`? Are consensus states contiguous and never overwritten? What do a malformed configuration and an IBC policy that nobody can satisfy do? | 4 MSPs, 2 versions, 3 policies, batches of 2, 4 heights; 5,800 states, thousands of headers tried in each |
| `relay` | Does the client agree with the chain, accept every next header and catch up? What does a missed upgrade do? Do chain and client ever disagree on a timeout? | 4 sequences, 2 versions, 7 heights and 61 timestamps of timeouts; 4,400 states |
| `proofs` | Was what the counterparty accepts committed by the height of the proof, does it still hold, and is every proof verifiable in the end? | 4 entries, 2 heights, 1 proof at a time; 310,000 states |
| `prover` | Is every proof verifiable if the client is updated with what `SetupHeader` returns: **violated** | as `proofs` |
| `handshake` | Are open connection ends paired one to one, and does a handshake that was started complete on both chains, even if the chains stand still? | 2 relayers, handshakes from both sides, 2 sequences; 115,000 states |
| `packet_relay` | Do concurrent relayers with faults implement `PacketTransfer`, and how much is relayed when there are more packets than fit in a page? | 2 relayers, 6 packets numbered in base 2, pages of 2, 1 fault; 410,000 states |
| `base_app` | Are packets and acknowledgements queryable, and the transactions serializable? | 2 submitters, 2 packets each way; 18,000 states |
| `application` | Is the application always either uninitialised or serving, with exactly the capabilities of its port and channels? | 3 clients, 3 channels; 6,400 states |
| `db` | Do iterators and subspace queries return exactly their range, and a successful batch the last command for each key? | every content of 2 stores with 3 keys, 2 foreign keys, 2 commands; 360,000 states |
| `codec` | Does every message survive the way to a process that knows fewer fields? Do signed bytes determine what is signed for? Does `Unmarshal` ever read outside its buffer, and is what it accepts stable? | 20 messages, boundary values of each field; all buffers of up to 5 of 12 bytes as 4 messages; 1.1 million states |

Every property is stated with a comment in its module, and for every property
of a passing run a mutated definition is kept beside the original (its comment
begins with *Mutant*) that makes TLC find the property violated. Types are not
checked by runs of their own: they are proved, or part of what is proved, for
the modules with proofs (section 5).

### Why the bounds are enough

* Two submitters suffice for a stale transaction: one that executes and one
  that commits in between. Three peers with majorities let two clocks drift
  apart and each quorum disagree with the third peer.
* Three sequences give a first, a second with a predecessor, and a third that
  a stale transaction of the second competes with; two epochs give a
  repeated initialization.
* The members 1 and 3 leave a place between and a place behind; batches of two
  let one change affect another. Some configurations are of another name than
  their MSP: names are lost and come back, and are lost for good.
* Two heights separate a proof taken before and after an update; the four
  entries are one that only moves forward, one that is deleted, one that is
  written once, and one whose absence is proved. The chain has one version in
  this run, so that `Stranded` is never true in `ProofsBecomeVerifiable`; the
  upgrade is the subject of `relay`.
* In `CompatDB` one store name is a prefix of the other, one byte cannot be
  incremented, and one key is a prefix of another: the cases in which ranges
  of keys go wrong. Two commands can contradict each other.
* Clocks up to three seconds apart exceed the tolerated second in both
  directions, so some clients are refused by every quorum and some quorums are
  split.
* Two relayers suffice for an overlapping batch and for a proof that has become
  old. In base 2 the keys of six packets are in the order 1, 2, 4, 5, 3, 6: with
  pages of two, only 1 and 2 are ever acknowledged, 6 is never delivered, and 3 may
  or may not be, although 4 and 5, which are sent after it, always are.
* One handshake started on each chain gives crossing handshakes. An end that is
  answered twice is beyond the bound of this run; the proof covers it.
* Three clients that race for three channels let two transactions on the same
  state take the same channel, one of which is discarded.

### Deadlock and fairness

Deadlock is checked in `sequence`, `sequence_progress`, `base_app`, `handshake`,
`packet_relay`, `application` and `db`. The client, relay and proof runs switch it
off: at the bound on the height, or once the client is stuck, nothing is left to
do. So does `codec`, which comes to an end.

Fairness is assumed of the following, and of no chain: a chain need not advance.

* `relay`, `proofs`: somebody keeps endorsing and submitting the sequence that
  follows the client's latest. The chaincode serves every past sequence
  (`EndorseSequenceCommitment` with an argument), and nothing in the chain
  disables either step for good, but no code in the repository does it: the
  prover submits nothing, and `UpdateClient` of the test chain endorses only the
  current sequence, right after it has advanced it, which is the next one as long
  as nobody else advances it. In `prover` the system as a whole keeps moving.
* `sequence_progress`: clients submit again (weak), and their transactions do
  not lose the race at commit for ever (strong). Not more can be said of a
  single client, and the property is about some client. `KeepsAdvancing` assumes
  that initialisations end some time (`InitialisationsEnd`): each of them starts
  again without an earlier sequence to compare with, and TLC finds the property
  violated without this.
* `handshake`: messages are submitted and clients updated (weak), and the
  relayers turn to ends that call for a message again and again (strong). The
  external relayer polls both ends and acts on what it finds.
* `packet_relay`: each relayer goes on with its round, and ordered transactions
  come through (weak). The number of faults is bounded, so they stop some time.

## 4. Disagreements between the code and its texts

* `prover.go:240` says that `SetupHeader` creates a header; it returns none.
  A client that is updated with it stays where it was created (`prover`).

Two smaller ones met while modelling, which have no run of their own:

* `update.go:15` says that a header is rejected if its timestamp is *less than*
  that of the client; `update.go:51` rejects an equal one too. The chain
  compares whole seconds, so with `MinTimeInterval` below one second it can
  commit two sequences with one timestamp, and the client never gets past the
  first. This is why `NextAccepted` (section 5) needs an interval of at least
  one second; with `MinTimeInterval = 0` in `ClientRelay.cfg` TLC finds
  `NextHeaderAccepted` violated.
* `db_test.go:36` reads back a value that it has just set. The stub of a Fabric
  peer returns committed values only; the test passes on the fake stub. The
  application is not affected, as it reads through a cache: `Serializable` in
  `base_app` fails if the cache is bypassed.

## 5. What TLAPS proves

All of it for every value of the constants that satisfies the named assumptions
of the module in question: any number of peers, clients, relayers, members,
packets, channels, heights and timestamps. Each proof gives an inductive
invariant, one lemma per action that shows it is preserved, and the properties
as corollaries. What is said of batches of headers, of the messages of a
transaction and of batched commands holds for any length: it is shown for the
first `n` of them, by taking
the least `n` at which it would fail (`NatMin`, from the well-foundedness of the
natural numbers).

**`SequenceManagerProofs`** (`QuorumsAssumption`, `ConfigAssumption`,
`TimeAssumption`, `BoundsAssumption`, `NoneAssumption`). That the history is
complete after a commit depends on what the transaction read when it was
executed. `IInv` therefore adds that a transaction in flight read a version no
newer than the committed one (`ReadsThePast`), that one which read the present
version proposes a proper successor (`PendingFresh`), and that no past timestamp
exceeds the current one (`CurrentIsLatest`). It gives `TypeCorrect`,
`HistoryIsComplete`, `SequencesSpaced`, `NoStaleCommit`, `HeadersCommitted`, the
action properties `LogAppendOnly` and `BlocksMonotonic`, and `Refinement`:
`Spec => ImplementsLog`, where a committed initialization maps to `Start`, a
committed update to `Advance`, and everything else to a stutter.

**`SequenceProgressProofs`** (`QuorumsAssumption`: any two quorums share a peer;
`ConfigAssumption`, `NoneAssumption`). `WaitIsBounded`: nobody can push the
sequence further ahead than twice the tolerated difference. What is committed is
tolerated by some quorum, and stays so as time passes; that quorum shares a peer
with the one that the synchronised client uses.

**`ClientProofs`**, updates (`TimesAssumption`, `MSPIDsAssumption`,
`HeightAssumption`, `NoneAssumption`, `HeadersAssumption`, `NoPartAssumption`).
A batch of MSP headers is verified against the state before the header and then
applied entry by entry. The identifiers of a batch ascend, so the headers before
one of them have left its entry alone (`NextApplied`, `BatchApplied`); an entry
that is created goes to the place that keeps the order (`CreateEntry`). It gives
`MSPsSorted`, and `RegistryImplemented`: `Spec => ImplementsRegistry`, the sorted
sequence with its batches being the table of `MSPRegistry`.
`UngovernedIsFixed`: while the names in force cannot satisfy the IBC policy, no
header changes the chaincode description, which MSPs are in force or their
policies. A change of a configuration needs the policy of its own MSP only and may
bring back a name; if no MSP in force can satisfy its own policy either, nothing
about the MSPs ever changes again.
`ConsensusCorrect` and `ConsensusNeverOverwritten` rest on `UpdateClientEffect`,
which says what any accepted header does to the sequence and the consensus
states. `BrokenConfigStops`: once a member that is not frozen has a malformed
configuration, no header at all is accepted.

**`ClientProofs`**, headers and timeouts (the above, and `VersionsAssumption`,
`IntervalAssumption`, `GenesisAssumption`, `HeadersAssumption`). That the client
agrees with the chain is not inductive, since relayers hold proofs of any age:
`RelayInv` adds that each of them is one that the log would still give
(`EndorsedFromLog`), that the log is spaced, and that the endorsing peers satisfy
the policy of the client. It gives `RelayTypeCorrect`, `ClientFollows`,
`NextAccepted` (for `MinTimeInterval > 0`) and `StrandedStays`; and, with
`ScaleAssumption` and `TimeoutsAssumption`, `TimeoutsAgree` and
`TimestampTimeoutsIdle` on the timeouts of packets.

**`ClientProofs`**, proofs (the above, and `StoreAssumption`). `ProofInv` adds to
`RelayInv` that every value of the store is recorded with a height
(`StoreRecorded`), and that the endorsed entry in the hands of the prover
(`QueryOK`) and every message (`MessagesOK`) were committed and, for entries that
are not revoked, still hold. The second query can only raise the height, which
is why the two-step query is harmless. It gives `AcceptedCommitted` and
`AcceptedHolds`.

**`HandshakeProofs`** (`BoundsAssumption`, `TimesAssumption`). `EndsArePaired`:
open ends point at each other, for any number of relayers and answers. The
invariant adds that whatever a relayer has read still fits the chain it read it
from (`HeldOK`): an end that was INIT is still INIT or open, one that was
TRYOPEN still has its counterparty, an open one is unchanged.

**`PacketRelayProofs`** (`BoundsAssumption`, `DigitsAssumption`). `ContractThere`:
the gateway contract is connected whenever `SendMsgs` uses it. `Refinement`: `Spec =>
ImplementsTransfer`. The invariant says that every packet is delivered and
settled at most once, in that order, and that relayers and transactions in
flight carry only packets that were sent, and acknowledgements of packets that
were received (`CarriedOK`). `PagesAreBound`: a packet that a page of earlier ones
is before by key is never acknowledged, and one that a page of such packets is
before is never delivered. This needs that nothing is carried over a gap: of the
packets sent before one that a relayer or a transaction carries, those with a
smaller key are carried along or received already (`PagesInv`). By the time a
packet is received they are received too, and fill the page of acknowledgements
before it; those that are never acknowledged keep their commitments, and fill the
page of commitments. `DigitsAssumption` says that a number with zeros behind its
digits is a natural number: the prover knows nothing about powers.

**`BaseAppProofs`** (`TxsAssumption`, `ConstantsAssumption`). `RecordsAgree`: the
packets and acknowledgements kept by the event handlers are those of the IBC
store. `CommitsSerializable`: `Spec => Serializable`, where a commit maps to a
whole transaction of `PacketLedger` and everything else to a stutter. That a
simulation did the right thing on the state it saw is not enough, since others
commit before it does: `AppInv` says of a simulation in progress, and of a
transaction in flight, that its cache and its events are what its messages make of
*every* world state that has the values it read.

**`ApplicationProofs`** (`LifecycleAssumption`, `OutcomesAssumption`).
The committed state, and every state that a transaction in flight was simulated
on, is either fresh or that of a running application with `n` channels, whose
port has capability 1 and whose channel `k` has capability `k + 2`. It gives
`AlwaysServiceable`, `CapabilitiesAreExact` and `ChannelsAreKept`.

**`CompatDBProofs`** (`BytesAssumption`, `KeysAssumption`). `RangesAreExact`: the
iterators and the subspace queries return exactly their range, for any stores,
keys, bounds and contents. There is no invariant to find, since this holds of every
state; the work is in the order of keys. It is total, transitive and asymmetric
(`LessTotal`, `LessTransitive`, `LessAsymmetric`). Hexadecimal digits keep it and
lose nothing (`EncodeOrder`, `DecodeEncode`). The keys before the end of a prefix
are those before the prefix and those that begin with it, whichever bytes can be
incremented (`BeforeEnd`). A key in the range of a store is of this store, because
its name ends at the first slash (`NamesEnd`, `StoreKeyInRange`), and is none of
those that the chaincode puts as they are (`RawKeyNotInRange`). The state database
returns the keys by the number of keys before them, which takes every value once
(`RankTaken`). `BatchesApplyInOrder`: a batch that succeeds has put the last of its
commands for each key, however many there are (`ExecFacts`).

Only model-checked:

* liveness, which is out of the prover's reach: `CatchesUp`,
  `ProofsBecomeVerifiable`, `KeepsAdvancing`, `HandshakesComplete`,
  `PagesRelayed`;
* the properties of `Codec`: `Wire` and `Messages` are written with recursive
  operators, which the prover does not support.

## 6. Abstractions

* Hashes are represented by their arguments, as injective functions; signatures
  by the identities that made them. Encodings are the subject of `Codec` and
  stand for their argument elsewhere.
* A simulation sees one committed state, because a peer holds its commit lock
  during simulation. Endorsing peers execute on the same state: differing
  results are not an endorsed transaction.
* A chaincode error and a panic are the same: the transaction has no effect.
* A client is created from the latest header of the chain, as the prover does.
* Of two configurations in force with one name, the MSP manager of Fabric keeps
  the later one.
* Sequence values do not wrap; timestamps are whole seconds, as the code
  truncates them.
* In `SequenceProgress` clocks run at the same speed: how far they are apart is
  arbitrary and constant.
* In `Handshake` the query of an end and that of the consensus state are one
  step: consensus states do not change once they are there.
* In `PacketRelay` the order of the relayer's calls and the page limit come from
  the external relayer, which asks for one page from offset 0. Proofs are those
  of `ProofRelay` and are taken to be valid here.
* In `ProofRelay` an answer without a proof, for an end that is not there, is no
  step.
* `SignBytesBind` in `Codec` compares messages of one type only.
* In `Wire` words are scaled from 64 and 32 bits to 15 and 8.

## 7. Not modelled

* The routing of queries among gRPC methods and custom queries: a lookup in maps
  that are filled before the first query. A query runs on a cache that is dropped,
  and nothing in the repository calls `RegisterGRPCServer`. The store route is in
  `CompatDB`.
* The channel handshake: it repeats the connection handshake with channel ends
  and without the consensus states, in handlers that are all ibc-go's.
* Packet timeouts as actions: when one is due is the subject of `Timeouts`; the
  relayer here submits none, and the handlers are ibc-go's.
* Tracing and pruning of the multistore: the one only writes a log, the other is
  empty in this code.
* The wallet, the command line, the configuration and the network access of the
  relayer, and the remaining queries that only wrap a request: I/O without state.
* The wiring of SDK modules in `simapp`, and set-up and assertions of the tests.
* Getters, `String` and descriptors of the generated code.
* The position of the commitment in the read-write set (`relay/commitment.go:25`):
  which namespaces an endorsement has is decided by the Fabric peer. It is listed
  as a hazard without a property.

## 8. Plan

Done: every part of section 1 but the routing of queries and what section 7
lists, with proofs where the prover reaches. What would
add most next:

1. A handshake of channels over open connections, and packets over open channels,
   as one composition, if a change to `relay/` or to the client keeper calls for
   it.
2. The properties of `Codec` for all messages, with `Wire` and `Messages` written
   with recursive functions.
