----------------------------- MODULE Lifecycle -----------------------------
(***************************************************************************)
(* The life of the example application.  There is no application between   *)
(* two invocations of the chaincode: AppRunner builds it anew for each one *)
(* on the state of the peer, mounts and loads its stores and fills the     *)
(* memory store of the capability keeper from the persisted capabilities.  *)
(* Invocations of several clients are simulated on older states than the   *)
(* one they are validated against, InitChaincode among them.               *)
(*                                                                         *)
(* Two app states are passed to InitChaincode: the default genesis of all  *)
(* modules (relay/cmd/chaincode.go) and {}, as in the test of the          *)
(* chaincode.  The message that creates capabilities after genesis is the  *)
(* opening of a channel.                                                   *)
(***************************************************************************)
EXTENDS Naturals

CONSTANTS
    Clients,
    Port,          \* the name of the port of the transfer module
    MaxChannels,   \* bound on the channels opened
    Absent,        \* no entry of a store
    Failed         \* a panic or an error, after which nothing is written

ASSUME LifecycleAssumption ==
    /\ MaxChannels \in Nat
    /\ Port \notin Nat
    /\ Absent \notin Nat
    /\ Absent \notin Clients

Channels == 0 .. MaxChannels - 1
Names == Channels \cup {Port}
Owners == {"ibc", "transfer"} \X Names
Indices == 0 .. MaxChannels + 1

\* The owners of a capability that both modules have.
Both(name) == {<<"ibc", name>>, <<"transfer", name>>}

\* The committed states, and those of an application with its memory store.
Worlds ==
    [index : 0 .. MaxChannels + 2, owners : [Indices -> SUBSET Owners],
     params : BOOLEAN, channels : [Channels -> Clients \cup {Absent}],
     sequence : BOOLEAN]
Apps ==
    [index : Nat, owners : [Indices -> SUBSET Owners], params : BOOLEAN,
     channels : [Channels -> Clients \cup {Absent}], mem : [Owners -> Nat \cup {Absent}]]
Txs == [tx : {"default", "{}", "open"}, on : Worlds]

ASSUME OutcomesAssumption ==
    /\ Failed \notin Apps
    /\ Failed \notin [app : Apps, sequence : BOOLEAN]
    /\ Absent \notin Txs

VARIABLES
    world,    \* the committed state
    pending   \* per client, an endorsed transaction or Absent

vars == <<world, pending>>

---------------------------------------------------------------------------
(* The capability keeper of the Cosmos SDK (external).                     *)

\* The memory store maps an owner to the index of its capability.
InitializeAndSeal(s) ==
    [s EXCEPT !.mem = [o \in Owners |->
        IF \E i \in Indices : o \in s.owners[i]
        THEN CHOOSE i \in Indices : o \in s.owners[i] ELSE Absent]]

\* NewCapability by the ibc module and ClaimCapability by the transfer module,
\* as BindPort and the opening of a channel do.
CreateAndClaim(s, name) ==
    [s EXCEPT !.index = @ + 1,
              !.owners = [s.owners EXCEPT ![s.index] = @ \cup Both(name)],
              !.mem = [o \in Owners |-> IF o \in Both(name) THEN s.index ELSE s.mem[o]]]

GetCapability(s, module, name) == s.mem[<<module, name>>]

---------------------------------------------------------------------------
(* Building the application.                                               *)

\* Stores of type DB are read through the stub; the memory store is new.
LoadStores(w) ==
    [index |-> w.index, owners |-> w.owners, params |-> w.params,
     channels |-> w.channels, mem |-> [o \in Owners |-> Absent]]

\* Mutant: the memory store stays empty.
NewIBCAppUnsealed(w) == LoadStores(w)

NewIBCApp(w) == InitializeAndSeal(LoadStores(w))

\* The modules in the order of SetOrderInitGenesis, those without a part in
\* what follows left out.  capability: InitializeIndex panics if an index has
\* been set.  ibc: the parameters are set.  transfer: the port is bound, unless
\* the memory store knows it.
CapabilityGenesis(s) ==
    IF s = Failed \/ s.index > 0 THEN Failed ELSE [s EXCEPT !.index = 1]

IBCGenesis(s) == IF s = Failed THEN Failed ELSE [s EXCEPT !.params = TRUE]

TransferGenesis(s) ==
    IF s = Failed THEN Failed
    ELSE IF GetCapability(s, "transfer", Port) # Absent THEN s
    ELSE IF GetCapability(s, "ibc", Port) # Absent THEN Failed
    ELSE CreateAndClaim(s, Port)

InitGenesis(s) == TransferGenesis(IBCGenesis(CapabilityGenesis(s)))

\* appState is "default" or "{}": a module without genesis data is skipped.
InitChainer(s, appState) == IF appState = "default" THEN InitGenesis(s) ELSE s

---------------------------------------------------------------------------
(* The handlers, as functions of the state they are simulated on.          *)

\* runner.Init, then InitSequence.
InitChaincode(w, appState) ==
    LET s == InitChainer(NewIBCApp(w), appState)
    IN  IF s = Failed THEN Failed ELSE [app |-> s, sequence |-> TRUE]

\* The channel is the first one not yet opened (external: the channel keeper
\* counts them).  It needs the parameters and the port of the transfer module.
NextChannel(s) == CHOOSE n \in 0 .. MaxChannels :
    /\ n = MaxChannels \/ s.channels[n] = Absent
    /\ \A k \in Channels : k < n => s.channels[k] # Absent

ChanOpen(s, c) ==
    LET n == NextChannel(s)
    IN  IF ~s.params \/ n = MaxChannels THEN Failed
        ELSE IF GetCapability(s, "transfer", Port) = Absent THEN Failed
        ELSE IF GetCapability(s, "ibc", n) # Absent THEN Failed
        ELSE [CreateAndClaim(s, n) EXCEPT !.channels = [@ EXCEPT ![n] = c]]

\* RunTx asks the block provider for the current sequence, which panics if there
\* is none.
HandleTx(w, c) ==
    LET s == ChanOpen(NewIBCApp(w), c)
    IN  IF ~w.sequence \/ s = Failed THEN Failed
        ELSE [app |-> s, sequence |-> w.sequence]

Run(w, c, tx) == IF tx = "open" THEN HandleTx(w, c) ELSE InitChaincode(w, tx)

---------------------------------------------------------------------------
(* Endorsement, ordering and validation by Fabric (external).              *)

\* pending remembers the state of the simulation; what the transaction writes is
\* a function of it.
Invoke(c, tx) ==
    /\ pending[c] = Absent
    /\ Run(world, c, tx) # Failed
    /\ pending' = [pending EXCEPT ![c] = [tx |-> tx, on |-> world]]
    /\ UNCHANGED world

\* Mutant: nothing that was read is compared.
ValidUnchecked(p, out) == p.on.index <= out.app.index

\* Every transaction has read the range of the capabilities, and the ones that
\* create a capability have read the index.
Valid(p, out) ==
    /\ world.owners = p.on.owners
    /\ out.app.index # p.on.index => world.index = p.on.index

\* Only keys that the transaction has written change.
Written(old, read, new) == IF new = read THEN old ELSE new

Commit(c) ==
    /\ pending[c] # Absent
    /\ LET p == pending[c]
           out == Run(p.on, c, p.tx)
       IN  /\ Valid(p, out)
           /\ world' = [index |-> Written(world.index, p.on.index, out.app.index),
                        owners |-> [i \in Indices |->
                            Written(world.owners[i], p.on.owners[i], out.app.owners[i])],
                        params |-> world.params \/ out.app.params,
                        channels |-> [n \in Channels |->
                            Written(world.channels[n], p.on.channels[n],
                                    out.app.channels[n])],
                        sequence |-> world.sequence \/ out.sequence]
    /\ pending' = [pending EXCEPT ![c] = Absent]

\* The transaction is lost or found invalid.
Discard(c) ==
    /\ pending[c] # Absent
    /\ pending' = [pending EXCEPT ![c] = Absent]
    /\ UNCHANGED world

Init ==
    /\ world = [index |-> 0, owners |-> [i \in Indices |-> {}], params |-> FALSE,
                channels |-> [n \in Channels |-> Absent], sequence |-> FALSE]
    /\ pending = [c \in Clients |-> Absent]

Next ==
    \E c \in Clients :
        \/ \E tx \in {"default", "{}", "open"} : Invoke(c, tx)
        \/ Commit(c)
        \/ Discard(c)

Spec == Init /\ [][Next]_vars

---------------------------------------------------------------------------
(* Properties.                                                             *)

\* Types of the state.
TypeOK ==
    /\ world \in Worlds
    /\ pending \in [Clients -> Txs \cup {Absent}]

\* Whatever has been tried, lost or retried before: until the application is
\* initialised, InitChaincode with the default genesis succeeds; from then on it
\* is refused, and transactions run: the rebuilt application finds the sequence
\* and, in its memory store, the port (NewIBCApp, InitGenesis, RunTx).
Serviceable ==
    /\ world.params <=> InitChaincode(world, "default") = Failed
    /\ \A c \in Clients :
         (world.params /\ \E n \in Channels : world.channels[n] = Absent)
             <=> HandleTx(world, c) # Failed

\* A persisted capability is owned by both modules under one name, no two
\* capabilities have the same owner, and every open channel and the port have
\* theirs: InitializeAndSeal gives every invocation the same lookups.
CapabilitiesExact ==
    /\ \A i \in Indices : world.owners[i] # {} =>
         /\ i < world.index
         /\ \E name \in Names : world.owners[i] = Both(name)
    /\ \A i, j \in Indices : world.owners[i] \cap world.owners[j] # {} => i = j
    /\ \A n \in Channels : world.channels[n] # Absent <=>
         GetCapability(NewIBCApp(world), "transfer", n) # Absent

\* A channel, once open, is never opened again by another transaction, and its
\* modules find the same capability in every later invocation.
ChannelsKept ==
    [][\A n \in Channels : world.channels[n] # Absent =>
         /\ world'.channels[n] = world.channels[n]
         /\ \A module \in {"ibc", "transfer"} :
              GetCapability(NewIBCApp(world'), module, n)
                  = GetCapability(NewIBCApp(world), module, n)]_vars
=============================================================================
