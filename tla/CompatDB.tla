------------------------------- MODULE CompatDB ------------------------------
(***************************************************************************)
(* The key-value database of the application on the state of a Fabric      *)
(* chaincode: compat.DB writes the hexadecimal form of a key to the stub,  *)
(* and every store of the application keeps its keys under a prefix.       *)
(*                                                                         *)
(* The chaincode also puts keys of its own on the same state, as they are. *)
(* A byte is a number below Base^2, a character of a state key one of the  *)
(* digits 1 .. Base, or 0 or Base + 1 for the characters before and after  *)
(* all digits.  GetState and GetStateByRange read the committed state; the *)
(* puts of a transaction are applied when it commits.                      *)
(***************************************************************************)
EXTENDS Integers, Sequences, FiniteSetsExt

CONSTANTS
  Base,         \* the base of the digits (16 in the code)
  StoresByte,   \* the byte that all prefixes of stores begin with
  Slash,        \* the byte that ends a prefix
  StoreNames,   \* names of stores: sequences of bytes other than Slash
  SubKeys,      \* keys within a store: non-empty sequences of bytes
  RawKeys,      \* the state keys that the chaincode puts as they are
  DBValues,     \* values of keys
  Nil,          \* an absent value, bound or key
  Unwritten,    \* a key that the transaction has not put
  MaxCommands   \* bound on the puts and the batched commands of a transaction

Bytes == 0 .. Base * Base - 1

\* The byte of a slash can be incremented.
ASSUME BytesAssumption ==
  /\ Base \in Nat \ {0}
  /\ StoresByte \in Bytes /\ Slash \in Bytes /\ Slash + 1 \in Bytes
  /\ StoreNames \subseteq Seq(Bytes \ {Slash})
  /\ SubKeys \subseteq Seq(Bytes) \ {<< >>}

VARIABLES
  world,     \* the committed state: state key -> value or Nil
  puts,      \* the write set of the transaction: value, Nil (delete) or Unwritten
  batch      \* the commands of a batch, and whether it is closed

vars == << world, puts, batch >>
------------------------------------------------------------------------------
(* Keys *)

\* hex.EncodeToString: two digits for each byte.
EncodeToString(bz) ==
  [i \in 1 .. 2 * Len(bz) |-> IF i % 2 = 1 THEN (bz[(i + 1) \div 2] \div Base) + 1
                              ELSE (bz[i \div 2] % Base) + 1]

\* hex.DecodeString fails on an odd length and on other characters.
DecodeString(s) ==
  IF Len(s) % 2 = 0 /\ \A i \in DOMAIN s : s[i] \in 1 .. Base
  THEN [i \in 1 .. Len(s) \div 2 |-> (s[2 * i - 1] - 1) * Base + s[2 * i] - 1]
  ELSE Nil

\* Lexicographic order, of bytes and of characters: at the first place where they
\* differ a has ended, or has the smaller one.
Less(a, b) ==
  \E i \in DOMAIN b :
    /\ i <= Len(a) + 1
    /\ i \in DOMAIN a => a[i] < b[i]
    /\ \A j \in 1 .. i - 1 : a[j] = b[j]

Begins(k, p) == Len(p) <= Len(k) /\ \A i \in DOMAIN p : k[i] = p[i]

InRange(k, start, end) == ~ Less(k, start) /\ (end = << >> \/ Less(k, end))

\* Mutant: the prefix is not terminated.
PrefixOfUnterminated(n) == << StoresByte >> \o n

\* The prefix "s/k:" + name + "/" of a store.
PrefixOf(n) == << StoresByte >> \o n \o << Slash >>

\* The end of the range of keys with prefix p, computed by the prefix database.
PrefixEnd(p) ==
  LET low == {i \in DOMAIN p : p[i] + 1 \in Bytes}
  IN  IF low = {} THEN << >> ELSE [SubSeq(p, 1, Max(low)) EXCEPT ![Max(low)] = @ + 1]

DBKeys == {PrefixOf(n) \o k : n \in StoreNames, k \in SubKeys}
StateKeys == {EncodeToString(k) : k \in DBKeys} \cup RawKeys

\* The state has finitely many keys.  Those that the chaincode puts as they are
\* begin with "h/" or "/", not with the two digits of the first byte of a prefix.
ASSUME KeysAssumption ==
  /\ IsFiniteSet(StateKeys)
  /\ RawKeys \subseteq Seq(0 .. Base + 1)
  /\ \A s \in RawKeys : ~ Begins(s, EncodeToString(<< StoresByte >>))
------------------------------------------------------------------------------
(* Reads *)

\* The stub, as a peer serves it: committed values, and committed keys of a range
\* in order.
GetState(s) == world[s]

GetStateByRange(start, end) ==
  LET found == {s \in StateKeys : world[s] # Nil /\ InRange(s, start, end)}
  IN  [i \in 1 .. Cardinality(found) |->
         CHOOSE s \in found : Cardinality({r \in found : Less(r, s)}) = i - 1]

Get(key) == GetState(EncodeToString(key))

\* The keys and values that an iterator goes through; Key panics, here with a
\* Nil key, on a state key that is not hexadecimal.
NewIterator(found) ==
  [i \in DOMAIN found |-> << DecodeString(found[i]), GetState(found[i]) >>]

Iterator(start, end) ==
  NewIterator(GetStateByRange(EncodeToString(start), EncodeToString(end)))

Reverse(items) == [i \in DOMAIN items |-> items[Len(items) + 1 - i]]
ReverseIterator(start, end) == Reverse(Iterator(start, end))

\* An iterator over the store n, as the prefix database makes it.
StoreBounds(n, start, end) ==
  << PrefixOf(n) \o start,
     IF end = << >> THEN PrefixEnd(PrefixOf(n)) ELSE PrefixOf(n) \o end >>

\* A query of the store n: one key, or all keys with a prefix; Nil is an error.
AdapterQuery(n, path, data) ==
  CASE data = << >>                          -> Nil
    [] data # << >> /\ path = "/key"         -> Get(PrefixOf(n) \o data)
    [] data # << >> /\ path = "/subspace"    ->
         LET bounds == StoreBounds(n, data, PrefixEnd(data))
         IN  Iterator(bounds[1], bounds[2])
    [] OTHER                                 -> Nil

StoreQuery(name, subpath, data) ==
  IF name \in StoreNames THEN AdapterQuery(name, subpath, data) ELSE Nil

\* Of the queries of the application, those of its stores.
Query(path, data) ==
  IF Len(path) = 3 /\ path[1] = "store" THEN StoreQuery(path[2], path[3], data) ELSE Nil
------------------------------------------------------------------------------
(* Writes *)

Written == {s \in StateKeys : puts[s] # Unwritten}
InTransaction == Cardinality(Written) + Len(batch.commands) < MaxCommands

Set(key, value) ==
  /\ key # << >>
  /\ value # Nil
  /\ InTransaction
  /\ puts' = [puts EXCEPT ![EncodeToString(key)] = value]
  /\ UNCHANGED << world, batch >>

Delete(key) ==
  /\ key # << >>
  /\ InTransaction
  /\ puts' = [puts EXCEPT ![EncodeToString(key)] = Nil]
  /\ UNCHANGED << world, batch >>

\* A put of the chaincode itself: a sequence under its two keys, or the commitment
\* to an entry, a packet or an acknowledgement.
PutRaw(s, value) ==
  /\ InTransaction
  /\ puts' = [puts EXCEPT ![s] = value]
  /\ UNCHANGED << world, batch >>

\* BatchDB.Set and BatchDB.Delete append a command; Nil stands for a deletion.
BatchSet(key, value) ==
  /\ ~ batch.closed
  /\ key # << >>
  /\ value # Nil
  /\ InTransaction
  /\ batch' = [batch EXCEPT !.commands = Append(@, << key, value >>)]
  /\ UNCHANGED << world, puts >>

BatchDelete(key) ==
  /\ ~ batch.closed
  /\ key # << >>
  /\ InTransaction
  /\ batch' = [batch EXCEPT !.commands = Append(@, << key, Nil >>)]
  /\ UNCHANGED << world, puts >>

\* Mutant: the commands are executed from the last to the first.
ExecBackwards(w, commands) ==
  LET done[n \in 0 .. Len(commands)] ==
        IF n = 0 THEN w
        ELSE LET c == commands[Len(commands) + 1 - n]
             IN  [done[n - 1] EXCEPT ![EncodeToString(c[1])] = c[2]]
  IN  done[Len(commands)]

\* The commands are executed in order.
Exec(w, commands) ==
  LET done[n \in 0 .. Len(commands)] ==
        IF n = 0 THEN w
        ELSE LET c == commands[n]
             IN  [done[n - 1] EXCEPT ![EncodeToString(c[1])] = c[2]]
  IN  done[Len(commands)]

BatchWrite ==
  /\ ~ batch.closed
  /\ puts' = Exec(puts, batch.commands)
  /\ batch' = [batch EXCEPT !.closed = TRUE]
  /\ UNCHANGED world

\* The stub fails at one of the commands: those before it have been executed,
\* and the batch stays open.
BatchWriteFails ==
  /\ ~ batch.closed
  /\ \E i \in DOMAIN batch.commands :
       puts' = Exec(puts, SubSeq(batch.commands, 1, i - 1))
  /\ UNCHANGED << world, batch >>

BatchClose ==
  /\ ~ batch.closed
  /\ batch' = [batch EXCEPT !.closed = TRUE]
  /\ UNCHANGED << world, puts >>

NoPuts == [s \in StateKeys |-> Unwritten]
NewBatch == [commands |-> << >>, closed |-> FALSE]

\* The end of the transaction: Fabric applies the write set, or drops it.
Commit ==
  /\ world' = [s \in StateKeys |-> IF puts[s] = Unwritten THEN world[s] ELSE puts[s]]
  /\ puts' = NoPuts
  /\ batch' = NewBatch

Abort ==
  /\ puts' = NoPuts
  /\ batch' = NewBatch
  /\ UNCHANGED world

Init ==
  /\ world = [s \in StateKeys |-> Nil]
  /\ puts = NoPuts
  /\ batch = NewBatch

Next ==
  \/ \E k \in DBKeys \cup {<< >>}, v \in DBValues \cup {Nil} : Set(k, v) \/ BatchSet(k, v)
  \/ \E k \in DBKeys \cup {<< >>} : Delete(k) \/ BatchDelete(k)
  \/ \E s \in RawKeys, v \in DBValues : PutRaw(s, v)
  \/ BatchWrite
  \/ BatchWriteFails
  \/ BatchClose
  \/ Commit
  \/ Abort

Spec == Init /\ [][Next]_vars
------------------------------------------------------------------------------
(* Properties *)

Ascending(items) == \A i, j \in DOMAIN items : i < j => Less(items[i][1], items[j][1])

\* The content of the store n between two keys of it.
Content(n, start, end) ==
  {<< PrefixOf(n) \o k, Get(PrefixOf(n) \o k) >> :
     k \in {x \in SubKeys : Get(PrefixOf(n) \o x) # Nil /\ InRange(x, start, end)}}

\* An iterator over a part of a store goes through exactly the keys of that part
\* in the order of their bytes, forwards or backwards: neither the keys of other
\* stores nor those that the chaincode itself has put on the same state turn up
\* (Iterator, ReverseIterator, loadStoreFromParams).
IteratorsExact ==
  \A n \in StoreNames, start, end \in SubKeys \cup {<< >>} :
    LET bounds == StoreBounds(n, start, end)
        items == Iterator(bounds[1], bounds[2])
    IN  /\ Range(items) = Content(n, start, end)
        /\ Ascending(items)
        /\ Ascending(Reverse(ReverseIterator(bounds[1], bounds[2])))

\* A query for a subspace of a store returns exactly the keys with that prefix,
\* in order, also when the prefix ends in bytes that cannot be incremented
\* (commitDBStoreAdapter.Query).
SubspacesExact ==
  \A n \in StoreNames, k \in SubKeys : \A i \in DOMAIN k :
    LET p == SubSeq(k, 1, i)
        items == Query(<< "store", n, "/subspace" >>, p)
    IN  /\ Range(items) = {item \in Content(n, << >>, << >>) :
                              Begins(item[1], PrefixOf(n) \o p)}
        /\ Ascending(items)

\* Both hold of the committed state, which is all that reads see: it is enough to
\* look between two transactions (Iterator, ReverseIterator, AdapterQuery).
RangesExact ==
  puts = NoPuts /\ batch = NewBatch => IteratorsExact /\ SubspacesExact

\* The commands for state key s.
CommandsFor(s) ==
  {i \in DOMAIN batch.commands : EncodeToString(batch.commands[i][1]) = s}

\* A batch that reports success has put the last of its commands for each key
\* and nothing else, also when an earlier attempt had failed half-way and was
\* repeated (BatchDB.Write).
BatchAppliedInOrder ==
  [][ batch'.closed /\ ~ batch.closed /\ puts' # puts =>
        \A s \in StateKeys :
          puts'[s] = IF CommandsFor(s) = {} THEN puts[s]
                     ELSE batch.commands[Max(CommandsFor(s))][2] ]_vars
==============================================================================
