--------------------------- MODULE ApplicationProofs -----------------------
(***************************************************************************)
(* Initialisation and capabilities are safe for any number of clients and  *)
(* channels.  The committed state is always one of two: fresh, or running  *)
(* with the port and the first n channels, whose capabilities are then     *)
(* determined.  Every transaction in flight was simulated on such a state, *)
(* and validation compares enough of it to tell which.                     *)
(***************************************************************************)
EXTENDS Lifecycle, TLAPS

\* The time in seconds that a backend may take over a step.
USE SMTT(30), ZenonT(30)


Fresh(w) ==
    /\ ~w.params
    /\ w.index = 0
    /\ \A i \in Indices : w.owners[i] = {}
    /\ \A n \in Channels : w.channels[n] = Absent

\* Index 1 is the port, and index k + 2 is channel k.
Running(w, n) ==
    /\ w.params /\ w.sequence
    /\ w.index = n + 2
    /\ w.owners = [i \in Indices |-> IF i = 1 THEN Both(Port)
                                    ELSE IF i \in 2 .. n + 1 THEN Both(i - 2) ELSE {}]
    /\ \A k \in Channels : w.channels[k] # Absent <=> k < n

Good(w) == w \in Worlds /\ (Fresh(w) \/ \E n \in 0 .. MaxChannels : Running(w, n))

IInv ==
    /\ Good(world)
    /\ pending \in [Clients -> Txs \cup {Absent}]
    /\ \A c \in Clients : pending[c] # Absent =>
         Good(pending[c].on) /\ Run(pending[c].on, c, pending[c].tx) # Failed

USE LifecycleAssumption

\* An owner has at most one name.
LEMMA OwnersOf ==
    ASSUME NEW module \in {"ibc", "transfer"}, NEW a, NEW b
    PROVE  <<module, a>> \in Both(b) <=> a = b
BY DEF Both

\* The application that is built on a state has what is stored there.
LEMMA Rebuilt ==
    ASSUME NEW w \in Worlds
    PROVE  /\ NewIBCApp(w) \in Apps
           /\ NewIBCApp(w).index = w.index
           /\ NewIBCApp(w).owners = w.owners
           /\ NewIBCApp(w).params = w.params
           /\ NewIBCApp(w).channels = w.channels
           /\ NewIBCApp(w).mem = [o \in Owners |->
                IF \E i \in Indices : o \in w.owners[i]
                THEN CHOOSE i \in Indices : o \in w.owners[i] ELSE Absent]
<1>. DEFINE mem == [o \in Owners |->
                IF \E i \in Indices : o \in w.owners[i]
                THEN CHOOSE i \in Indices : o \in w.owners[i] ELSE Absent]
            s == LoadStores(w)
<1>1. s = [index |-> w.index, owners |-> w.owners, params |-> w.params,
           channels |-> w.channels, mem |-> [o \in Owners |-> Absent]]
  BY DEF LoadStores
<1>2. NewIBCApp(w) = [s EXCEPT !.mem = mem]
  BY <1>1 DEF NewIBCApp, InitializeAndSeal
<1>3. mem \in [Owners -> Nat \cup {Absent}]
  BY DEF Indices
<1>. HIDE DEF mem, s
<1>4. NewIBCApp(w) = [index |-> w.index, owners |-> w.owners, params |-> w.params,
                      channels |-> w.channels, mem |-> mem]
  BY <1>1, <1>2
<1>5. w.index \in Nat
  BY DEF Worlds
<1>. QED  BY <1>3, <1>4, <1>5 DEF Worlds, Apps, mem

\* The lookups of an application built on a fresh or on a running state.
LEMMA FreshLookups ==
    ASSUME NEW w \in Worlds, Fresh(w), NEW o \in Owners
    PROVE  NewIBCApp(w).mem[o] = Absent
BY Rebuilt, Zenon DEF Fresh

\* On a running state both modules find the port and the first n channels.
LEMMA RunningLookups ==
    ASSUME NEW w \in Worlds, NEW n \in 0 .. MaxChannels, Running(w, n),
           NEW module \in {"ibc", "transfer"}
    PROVE  /\ GetCapability(NewIBCApp(w), module, Port) = 1
           /\ \A k \in Channels : GetCapability(NewIBCApp(w), module, k)
                                  = IF k < n THEN k + 2 ELSE Absent
<1>1. /\ 1 \in Indices /\ Port \in Names /\ <<module, Port>> \in Owners
      /\ \A i \in Indices : <<module, Port>> \in w.owners[i] <=> i = 1
  <2>1. 1 \in Indices /\ Port \in Names /\ <<module, Port>> \in Owners
    BY DEF Indices, Names, Owners
  <2>2. \A i \in Indices : i \in 2 .. n + 1 => i - 2 # Port /\ i # 1
    BY DEF Indices
  <2>3. \A i \in Indices : w.owners[i] = IF i = 1 THEN Both(Port)
                              ELSE IF i \in 2 .. n + 1 THEN Both(i - 2) ELSE {}
    BY DEF Running
  <2>4. /\ <<module, Port>> \in Both(Port)
        /\ \A i \in Indices : i \in 2 .. n + 1 => <<module, Port>> \notin Both(i - 2)
    BY <2>2, OwnersOf
  <2>5. ASSUME NEW i \in Indices PROVE <<module, Port>> \in w.owners[i] <=> i = 1
    <3>1. CASE i = 1
      BY <2>3, <2>4, <3>1
    <3>2. CASE i \in 2 .. n + 1
      <4>1. w.owners[i] = Both(i - 2) /\ i # 1
        BY <2>2, <2>3, <3>2
      <4>. QED  BY <2>4, <3>2, <4>1
    <3>3. CASE i # 1 /\ i \notin 2 .. n + 1
      <4>1. w.owners[i] = {}
        BY <2>3, <3>3
      <4>. QED  BY <3>3, <4>1
    <3>. QED  BY <3>1, <3>2, <3>3
  <2>. QED  BY <2>1, <2>5
<1>2. GetCapability(NewIBCApp(w), module, Port) = 1
  BY <1>1, Rebuilt, ZenonT(30) DEF GetCapability
<1>3. ASSUME NEW k \in Channels
      PROVE  GetCapability(NewIBCApp(w), module, k) = IF k < n THEN k + 2 ELSE Absent
  <2>1. <<module, k>> \in Owners /\ k \in Nat /\ k # Port
    BY DEF Channels, Names, Owners
  <2>2. \A i \in Indices : <<module, k>> \in w.owners[i] <=> i \in 2 .. n + 1 /\ i - 2 = k
    BY <2>1, OwnersOf DEF Running
  <2>3. \A i \in Indices : <<module, k>> \in w.owners[i] <=> k < n /\ i = k + 2
    BY <2>1, <2>2 DEF Indices
  <2>4. k + 2 \in Indices
    BY DEF Channels, Indices
  <2>5. GetCapability(NewIBCApp(w), module, k) =
          IF \E i \in Indices : <<module, k>> \in w.owners[i]
          THEN CHOOSE i \in Indices : <<module, k>> \in w.owners[i] ELSE Absent
    BY <2>1, Rebuilt, Zenon DEF GetCapability
  <2>6. k < n => (CHOOSE i \in Indices : <<module, k>> \in w.owners[i]) = k + 2
    BY <2>3, <2>4
  <2>. QED  BY <2>3, <2>4, <2>5, <2>6
<1>. QED  BY <1>2, <1>3

\* Creating a capability takes the next index.
LEMMA CreateFields ==
    ASSUME NEW s \in Apps, NEW name
    PROVE  \E mem \in [Owners -> Nat \cup {Absent}] : CreateAndClaim(s, name) =
             [index |-> s.index + 1,
              owners |-> [s.owners EXCEPT ![s.index] = @ \cup Both(name)],
              params |-> s.params, channels |-> s.channels, mem |-> mem]
<1>. DEFINE mem == [o \in Owners |-> IF o \in Both(name) THEN s.index ELSE s.mem[o]]
            own == [s.owners EXCEPT ![s.index] = @ \cup Both(name)]
<1>1. CreateAndClaim(s, name) = [s EXCEPT !.index = s.index + 1, !.owners = own, !.mem = mem]
  BY DEF CreateAndClaim
<1>2. mem \in [Owners -> Nat \cup {Absent}]
  BY DEF Apps
<1>. HIDE DEF mem, own
<1>3. CreateAndClaim(s, name) = [index |-> s.index + 1, owners |-> own, params |-> s.params,
                                 channels |-> s.channels, mem |-> mem]
  BY <1>1, Zenon DEF Apps
<1>. QED  BY <1>2, <1>3, Zenon DEF own

\* InitChaincode with the default genesis.
LEMMA DefaultOnFresh ==
    ASSUME NEW w \in Worlds, Fresh(w)
    PROVE  LET out == InitChaincode(w, "default") IN
           /\ out # Failed /\ out.sequence = TRUE
           /\ out.app.index = 2 /\ out.app.params = TRUE
           /\ out.app.owners = [i \in Indices |-> IF i = 1 THEN Both(Port) ELSE {}]
           /\ out.app.channels = w.channels
<1>. DEFINE s0 == NewIBCApp(w)
            s1 == [s0 EXCEPT !.index = 1]
            s2 == [s1 EXCEPT !.params = TRUE]
            s3 == CreateAndClaim(s2, Port)
<1>1. s0 \in Apps /\ s0.index = 0 /\ s0.owners = w.owners /\ s0.channels = w.channels
  BY Rebuilt, Zenon DEF Fresh
<1>2. CapabilityGenesis(s0) = s1
  BY <1>1, OutcomesAssumption DEF CapabilityGenesis
<1>. HIDE DEF s0
<1>3. s1 \in Apps /\ s1.index = 1 /\ s1.owners = w.owners /\ s1.channels = w.channels
      /\ s1.mem = s0.mem
  BY <1>1 DEF Apps
<1>4. IBCGenesis(s1) = s2
  BY <1>3, OutcomesAssumption DEF IBCGenesis
<1>. HIDE DEF s1
<1>5. s2 \in Apps /\ s2.index = 1 /\ s2.owners = w.owners /\ s2.channels = w.channels
      /\ s2.mem = s0.mem /\ s2.params = TRUE
  BY <1>3, Zenon DEF Apps
<1>. HIDE DEF s2
<1>6. \A module \in {"ibc", "transfer"} : GetCapability(s2, module, Port) = Absent
  BY <1>5, FreshLookups DEF GetCapability, Owners, Names, s0
<1>7. TransferGenesis(s2) = s3
  BY <1>5, <1>6, OutcomesAssumption DEF TransferGenesis
<1>8. PICK mem \in [Owners -> Nat \cup {Absent}] :
        s3 = [index |-> 2, owners |-> [w.owners EXCEPT ![1] = @ \cup Both(Port)],
              params |-> TRUE, channels |-> w.channels, mem |-> mem]
  BY <1>5, CreateFields
<1>. HIDE DEF s3
<1>9. [w.owners EXCEPT ![1] = @ \cup Both(Port)]
        = [i \in Indices |-> IF i = 1 THEN Both(Port) ELSE {}]
  BY Zenon DEF Fresh, Worlds, Indices
<1>10. s3 \in Apps
  <2>1. Both(Port) \subseteq Owners
    BY DEF Both, Owners, Names
  <2>2. [i \in Indices |-> IF i = 1 THEN Both(Port) ELSE {}] \in [Indices -> SUBSET Owners]
    BY <2>1
  <2>. QED  BY <1>8, <1>9, <2>2, Zenon DEF Worlds, Apps
<1>11. InitChaincode(w, "default") = [app |-> s3, sequence |-> TRUE]
  BY <1>2, <1>4, <1>7, <1>10, OutcomesAssumption DEF InitChaincode, InitChainer, InitGenesis, s0
<1>12. [app |-> s3, sequence |-> TRUE] \in [app : Apps, sequence : BOOLEAN]
  BY <1>10
<1>13. InitChaincode(w, "default") # Failed
  BY <1>11, <1>12, OutcomesAssumption, Zenon
<1>14. /\ InitChaincode(w, "default").app = s3
       /\ InitChaincode(w, "default").sequence = TRUE
  BY <1>11
<1>. QED  BY <1>8, <1>9, <1>13, <1>14

\* A second InitChaincode with the default genesis fails on a running state.
LEMMA DefaultOnRunning ==
    ASSUME NEW w \in Worlds, NEW n \in 0 .. MaxChannels, Running(w, n)
    PROVE  InitChaincode(w, "default") = Failed
<1>1. NewIBCApp(w).index > 0
  <2>1. NewIBCApp(w).index = w.index
    BY Rebuilt, Zenon
  <2>2. w.index = n + 2 /\ n \in Nat
    BY DEF Running
  <2>. QED  BY <2>1, <2>2
<1>. QED
  BY <1>1 DEF InitChaincode, InitChainer, InitGenesis, CapabilityGenesis, IBCGenesis,
     TransferGenesis

\* InitChaincode with an empty genesis initialises the sequence only.
LEMMA EmptyInit ==
    ASSUME NEW w \in Worlds
    PROVE  LET out == InitChaincode(w, "{}") IN
           /\ out # Failed /\ out.sequence = TRUE
           /\ out.app.index = w.index /\ out.app.params = w.params
           /\ out.app.owners = w.owners /\ out.app.channels = w.channels
<1>. DEFINE out == InitChaincode(w, "{}")
            s == NewIBCApp(w)
<1>1. s \in Apps /\ s # Failed
  BY Rebuilt, OutcomesAssumption, Zenon
<1>2. out = [app |-> s, sequence |-> TRUE]
  BY <1>1 DEF InitChaincode, InitChainer
<1>3. /\ s.index = w.index /\ s.params = w.params
      /\ s.owners = w.owners /\ s.channels = w.channels
  BY Rebuilt, Zenon
<1>. HIDE DEF out, s
<1>4. out \in [app : Apps, sequence : BOOLEAN] /\ out.app = s /\ out.sequence = TRUE
  BY <1>1, <1>2
<1>5. out # Failed
  BY <1>4, OutcomesAssumption
<1>. QED  BY <1>3, <1>4, <1>5, Zenon DEF out

\* A channel cannot be opened before the default genesis, nor beyond the bound.
LEMMA OpenOnFresh ==
    ASSUME NEW w \in Worlds, Fresh(w), NEW c
    PROVE  HandleTx(w, c) = Failed
BY Rebuilt, Zenon DEF HandleTx, ChanOpen, Fresh

\* The next channel of a running state is the first one that is not open.
LEMMA NextOfRunning ==
    ASSUME NEW w \in Worlds, NEW n \in 0 .. MaxChannels, Running(w, n)
    PROVE  NextChannel(NewIBCApp(w)) = n
<1>. DEFINE s == NewIBCApp(w)
            First(m) == /\ m = MaxChannels \/ s.channels[m] = Absent
                        /\ \A k \in Channels : k < m => s.channels[k] # Absent
<1>1. \A k \in Channels : s.channels[k] # Absent <=> k < n
  BY Rebuilt, ZenonT(30) DEF Running
<1>. HIDE DEF s
<1>2. First(n)
  BY <1>1 DEF Channels
<1>3. ASSUME NEW m \in 0 .. MaxChannels, First(m) PROVE m = n
  BY <1>1, <1>3 DEF Channels
<1>. HIDE DEF First
<1>4. (CHOOSE m \in 0 .. MaxChannels : First(m)) = n
  BY <1>2, <1>3
<1>. QED  BY <1>4 DEF NextChannel, First, s

\* Opening a channel on a running state adds that channel and its capability, and
\* fails if there is none left.
LEMMA OpenOnRunning ==
    ASSUME NEW w \in Worlds, NEW n \in 0 .. MaxChannels, Running(w, n), NEW c \in Clients
    PROVE  LET out == HandleTx(w, c) IN
           /\ n = MaxChannels => out = Failed
           /\ n # MaxChannels =>
                /\ out # Failed /\ out.sequence = TRUE
                /\ out.app.index = n + 3 /\ out.app.params = TRUE
                /\ out.app.owners = [w.owners EXCEPT ![n + 2] = Both(n)]
                /\ out.app.channels = [w.channels EXCEPT ![n] = c]
<1>. DEFINE s == NewIBCApp(w)
            t == CreateAndClaim(s, n)
            opened == [w.channels EXCEPT ![n] = c]
            u == [t EXCEPT !.channels = opened]
<1>1. /\ s \in Apps /\ s.index = n + 2 /\ s.owners = w.owners /\ s.params = TRUE
      /\ s.channels = w.channels
  BY Rebuilt, Zenon DEF Running, Worlds
<1>2. NextChannel(s) = n
  BY NextOfRunning
<1>3. CASE n = MaxChannels
  BY <1>2, <1>3 DEF HandleTx, ChanOpen
<1>4. CASE n # MaxChannels
  <2>1. n \in Channels /\ n + 2 \in Indices /\ n \in Nat
    BY <1>4 DEF Channels, Indices
  <2>2. /\ GetCapability(s, "transfer", Port) # Absent
        /\ GetCapability(s, "ibc", n) = Absent
    BY <2>1, RunningLookups
  <2>. HIDE DEF s
  <2>3. PICK mem \in [Owners -> Nat \cup {Absent}] :
          t = [index |-> n + 3, owners |-> [w.owners EXCEPT ![n + 2] = @ \cup Both(n)],
               params |-> TRUE, channels |-> w.channels, mem |-> mem]
    <3>1. n + 2 + 1 = n + 3
      BY <2>1
    <3>. QED  BY <1>1, <3>1, CreateFields
  <2>4. [w.owners EXCEPT ![n + 2] = @ \cup Both(n)] = [w.owners EXCEPT ![n + 2] = Both(n)]
    <3>1. w.owners[n + 2] = {}
      BY <2>1 DEF Running
    <3>. QED  BY <3>1
  <2>. HIDE DEF t
  <2>5. ChanOpen(s, c) = u
    BY <1>1, <1>2, <1>4, <2>2, <2>3 DEF ChanOpen, t
  <2>. DEFINE owned == [w.owners EXCEPT ![n + 2] = Both(n)]
  <2>6. owned \in [Indices -> SUBSET Owners] /\ opened \in [Channels -> Clients \cup {Absent}]
    BY <2>1 DEF Worlds, Both, Owners, Names
  <2>. HIDE DEF owned, opened
  <2>7. /\ u = [index |-> n + 3, owners |-> owned, params |-> TRUE, channels |-> opened,
                mem |-> mem]
        /\ u \in Apps
    <3>. DEFINE next == n + 3
                old == w.channels
    <3>1. t = [index |-> next, owners |-> owned, params |-> TRUE, channels |-> old, mem |-> mem]
      BY <2>3, <2>4, Zenon DEF owned
    <3>2. u = [t EXCEPT !.channels = opened]
      OBVIOUS
    <3>3. next \in Nat
      BY <2>1
    <3>. HIDE DEF u, next, old
    <3>4. u = [index |-> next, owners |-> owned, params |-> TRUE, channels |-> opened,
               mem |-> mem]
      BY <3>1, <3>2, Zenon
    <3>5. u \in Apps
      BY <2>6, <3>3, <3>4 DEF Apps
    <3>. QED  BY <3>4, <3>5 DEF next
  <2>. HIDE DEF u
  <2>8. HandleTx(w, c) = [app |-> u, sequence |-> TRUE]
    <3>1. w.sequence = TRUE
      BY DEF Running, Worlds
    <3>. QED  BY <2>5, <2>7, <3>1, OutcomesAssumption, Zenon DEF HandleTx, s
  <2>9. [app |-> u, sequence |-> TRUE] \in [app : Apps, sequence : BOOLEAN]
    BY <2>7
  <2>10. HandleTx(w, c) # Failed
    BY <2>8, <2>9, OutcomesAssumption, Zenon
  <2>11. HandleTx(w, c).app = u /\ HandleTx(w, c).sequence = TRUE
    BY <2>8
  <2>. QED  BY <1>4, <2>7, <2>10, <2>11 DEF owned, opened
<1>. QED  BY <1>3, <1>4, Zenon
---------------------------------------------------------------------------
(* The invariant *)

\* A running state has the capability of the port, a fresh one has none.
LEMMA PortOwned ==
    ASSUME NEW w, NEW n \in 0 .. MaxChannels, Running(w, n)
    PROVE  1 \in Indices /\ w.owners[1] # {}
<1>1. 1 \in Indices
  BY DEF Indices
<1>2. w.owners[1] = Both(Port)
  BY <1>1 DEF Running
<1>. QED  BY <1>1, <1>2 DEF Both

\* A transaction that is valid takes a fresh state to the running one without
\* channels, a running one to that with one more, or changes the sequence only.
LEMMA CommitEffect ==
    ASSUME IInv, NEW c \in Clients, Commit(c)
    PROVE  \/ /\ world' \in Worlds
              /\ world'.index = world.index /\ world'.owners = world.owners
              /\ world'.params = world.params /\ world'.channels = world.channels
              /\ world'.sequence = TRUE
           \/ Fresh(world) /\ world' \in Worlds /\ Running(world', 0)
           \/ \E n \in Channels :
                /\ Running(world, n) /\ world' \in Worlds /\ Running(world', n + 1)
                /\ \A k \in Channels : k # n => world'.channels[k] = world.channels[k]
<1>. DEFINE p == pending[c]
            on == p.on
            out == Run(on, c, p.tx)
            wi == Written(world.index, on.index, out.app.index)
            wo == [i \in Indices |-> Written(world.owners[i], on.owners[i], out.app.owners[i])]
            wp == world.params \/ out.app.params
            wc == [n \in Channels |->
                     Written(world.channels[n], on.channels[n], out.app.channels[n])]
            ws == world.sequence \/ out.sequence
<1>1. /\ p # Absent /\ Valid(p, out)
      /\ world' = [index |-> wi, owners |-> wo, params |-> wp, channels |-> wc, sequence |-> ws]
  BY Zenon DEF Commit
<1>2. /\ p \in Txs /\ on \in Worlds /\ world \in Worlds /\ Good(on) /\ out # Failed
      /\ p.tx \in {"default", "{}", "open"}
  BY <1>1, ZenonT(30) DEF IInv, Txs, Good
<1>3. /\ world.owners = on.owners
      /\ out.app.index # on.index => world.index = on.index
  BY <1>1, Zenon DEF Valid
<1>4. /\ world.index \in 0 .. MaxChannels + 2 /\ world.params \in BOOLEAN
      /\ world.owners \in [Indices -> SUBSET Owners]
      /\ world.channels \in [Channels -> Clients \cup {Absent}]
      /\ on.owners \in [Indices -> SUBSET Owners]
      /\ on.channels \in [Channels -> Clients \cup {Absent}]
      /\ on.params \in BOOLEAN
  BY <1>2, Zenon DEF Worlds
<1>. HIDE DEF wi, wo, wp, wc, ws, p, on
<1>5. /\ world'.index = wi /\ world'.owners = wo /\ world'.params = wp
      /\ world'.channels = wc /\ world'.sequence = ws
  BY <1>1
<1>6. \/ Fresh(on) /\ Fresh(world)
      \/ \E n, m \in 0 .. MaxChannels : Running(on, n) /\ Running(world, m)
  <2>1. ASSUME NEW n \in 0 .. MaxChannels, Running(on, n), Fresh(world) PROVE FALSE
    BY <1>3, <2>1, PortOwned DEF Fresh
  <2>2. ASSUME NEW n \in 0 .. MaxChannels, Running(world, n), Fresh(on) PROVE FALSE
    BY <1>3, <2>2, PortOwned DEF Fresh
  <2>. QED  BY <1>2, <2>1, <2>2, Zenon DEF IInv, Good
<1>7. CASE p.tx = "{}"
  <2>1. /\ out.sequence = TRUE
        /\ out.app.index = on.index /\ out.app.params = on.params
        /\ out.app.owners = on.owners /\ out.app.channels = on.channels
    BY <1>2, <1>7, EmptyInit, ZenonT(60) DEF Run
  <2>2. wi = world.index /\ wo = world.owners /\ wc = world.channels
    BY <1>4, <2>1 DEF Written, wi, wo, wc
  <2>3. on.params = world.params
    <3>1. CASE Fresh(on) /\ Fresh(world)
      BY <1>4, <3>1 DEF Fresh
    <3>2. ASSUME NEW n \in 0 .. MaxChannels, NEW m \in 0 .. MaxChannels,
                 Running(on, n), Running(world, m)
          PROVE  on.params = world.params
      BY <1>4, <3>2 DEF Running
    <3>. QED  BY <1>6, <3>1, <3>2
  <2>4. wp = world.params /\ ws = TRUE
    BY <1>4, <2>1, <2>3 DEF wp, ws
  <2>. QED  BY <1>1, <1>4, <1>5, <2>2, <2>4 DEF Worlds
<1>8. CASE p.tx = "default"
  <2>1. Fresh(on) /\ Fresh(world)
    BY <1>2, <1>6, <1>8, DefaultOnRunning DEF Run
  <2>2. /\ out.sequence = TRUE /\ out.app.index = 2 /\ out.app.params = TRUE
        /\ out.app.owners = [i \in Indices |-> IF i = 1 THEN Both(Port) ELSE {}]
        /\ out.app.channels = on.channels
    BY <1>2, <1>8, <2>1, DefaultOnFresh, Zenon DEF Run
  <2>3. wi = 2 /\ wp = TRUE /\ ws = TRUE /\ wc = world.channels
    BY <1>4, <2>1, <2>2 DEF Fresh, Written, wi, wp, ws, wc
  <2>4. wo = [i \in Indices |-> IF i = 1 THEN Both(Port) ELSE {}]
    BY <2>1, <2>2, ZenonT(60) DEF Fresh, Written, wo
  <2>5. wo \in [Indices -> SUBSET Owners]
    <3>1. Both(Port) \subseteq Owners
      BY DEF Both, Owners, Names
    <3>. QED  BY <2>4, <3>1
  <2>6. world' \in Worlds
    BY <1>1, <1>4, <2>3, <2>5 DEF Worlds
  <2>7. Running(world', 0)
    <3>1. [i \in Indices |-> IF i = 1 THEN Both(Port)
                             ELSE IF i \in 2 .. 0 + 1 THEN Both(i - 2) ELSE {}]
            = [i \in Indices |-> IF i = 1 THEN Both(Port) ELSE {}]
      <4>1. \A i \in Indices : i \notin 2 .. 0 + 1
        OBVIOUS
      <4>. QED  BY <4>1
    <3>2. \A k \in Channels : world'.channels[k] = Absent /\ ~ (k < 0)
      BY <1>5, <2>1, <2>3 DEF Fresh, Channels
    <3>. QED  BY <1>5, <2>3, <2>4, <3>1, <3>2 DEF Running
  <2>. QED  BY <2>1, <2>6, <2>7
<1>9. CASE p.tx = "open"
  <2>1. PICK n, m \in 0 .. MaxChannels : Running(on, n) /\ Running(world, m)
    BY <1>2, <1>6, <1>9, OpenOnFresh DEF Run
  <2>2. n # MaxChannels /\ n \in Channels /\ n + 2 \in Indices
    <3>1. n # MaxChannels
      BY <1>2, <1>9, <2>1, OpenOnRunning, Zenon DEF Run
    <3>. QED  BY <3>1 DEF Channels, Indices
  <2>3. /\ out.sequence = TRUE /\ out.app.index = n + 3 /\ out.app.params = TRUE
        /\ out.app.owners = [on.owners EXCEPT ![n + 2] = Both(n)]
        /\ out.app.channels = [on.channels EXCEPT ![n] = c]
    BY <1>2, <1>9, <2>1, <2>2, OpenOnRunning, Zenon DEF Run
  <2>4. m = n
    <3>1. on.index = n + 2 /\ world.index = m + 2 /\ n \in Nat /\ m \in Nat
      BY <2>1 DEF Running
    <3>. QED  BY <1>3, <2>3, <3>1
  <2>5. on.index = n + 2 /\ n \in Nat
    BY <2>1 DEF Running
  <2>6. wi = n + 3 /\ wp = TRUE /\ ws = TRUE
    BY <2>3, <2>5 DEF Written, wi, wp, ws
  <2>7. wo = [world.owners EXCEPT ![n + 2] = Both(n)]
    BY <1>3, <1>4, <2>2, <2>3 DEF Written, wo
  <2>8. wc = [world.channels EXCEPT ![n] = c]
    <3>1. on.channels[n] = Absent
      BY <2>1, <2>2, <2>5 DEF Running
    <3>. QED  BY <1>4, <2>2, <2>3, <3>1, Zenon DEF Written, wc
  <2>9. world' \in Worlds
    <3>1. wo \in [Indices -> SUBSET Owners]
      BY <1>4, <2>2, <2>7 DEF Both, Owners, Names
    <3>2. wc \in [Channels -> Clients \cup {Absent}]
      BY <1>4, <2>2, <2>8
    <3>3. wi \in 0 .. MaxChannels + 2
      BY <2>2, <2>6
    <3>. QED  BY <1>1, <2>6, <3>1, <3>2, <3>3 DEF Worlds
  <2>10. Running(world', n + 1)
    <3>1. wo = [i \in Indices |-> IF i = 1 THEN Both(Port)
                 ELSE IF i \in 2 .. (n + 1) + 1 THEN Both(i - 2) ELSE {}]
      <4>1. world.owners = [i \in Indices |-> IF i = 1 THEN Both(Port)
                 ELSE IF i \in 2 .. n + 1 THEN Both(i - 2) ELSE {}]
        BY <2>1, <2>4 DEF Running
      <4>2. \A i \in Indices :
              wo[i] = IF i = n + 2 THEN Both(n) ELSE IF i = 1 THEN Both(Port)
                      ELSE IF i \in 2 .. n + 1 THEN Both(i - 2) ELSE {}
        BY <2>2, <2>7, <4>1
      <4>3. \A i \in Indices : /\ i = n + 2 => i # 1 /\ i - 2 = n
                               /\ i \in 2 .. (n + 1) + 1 <=> i \in 2 .. n + 1 \/ i = n + 2
        BY <2>5 DEF Indices
      <4>4. \A i \in Indices :
              wo[i] = IF i = 1 THEN Both(Port)
                      ELSE IF i \in 2 .. (n + 1) + 1 THEN Both(i - 2) ELSE {}
        BY <4>2, <4>3
      <4>. QED  BY <1>4, <2>7, <4>4, Zenon
    <3>2. \A k \in Channels : wc[k] # Absent <=> k < n + 1
      <4>1. \A k \in Channels : world.channels[k] # Absent <=> k < n
        BY <2>1, <2>4 DEF Running
      <4>2. c # Absent /\ \A k \in Channels : k < n + 1 <=> k < n \/ k = n
        BY <2>5 DEF Channels
      <4>. QED  BY <1>4, <2>2, <2>8, <4>1, <4>2
    <3>3. wi = (n + 1) + 2
      BY <2>5, <2>6
    <3>. QED  BY <1>5, <2>6, <3>1, <3>2, <3>3 DEF Running
  <2>11. \A k \in Channels : k # n => world'.channels[k] = world.channels[k]
    BY <1>4, <1>5, <2>8
  <2>. QED  BY <2>1, <2>2, <2>4, <2>9, <2>10, <2>11
<1>. QED  BY <1>2, <1>7, <1>8, <1>9, ZenonT(30)

\* The empty ledger is fresh.
LEMMA InitIInv == Init => IInv
<1>. SUFFICES ASSUME Init PROVE IInv
  OBVIOUS
<1>1. world \in Worlds
  BY DEF Init, Worlds
<1>2. Fresh(world)
  BY DEF Init, Fresh
<1>. QED  BY <1>1, <1>2 DEF Init, IInv, Good

\* Every step keeps the invariant.
LEMMA NextIInv == IInv /\ [Next]_vars => IInv'
<1>. SUFFICES ASSUME IInv, [Next]_vars PROVE IInv'
  OBVIOUS
<1>1. CASE UNCHANGED vars
  BY <1>1 DEF vars, IInv
<1>2. ASSUME NEW c \in Clients, NEW tx \in {"default", "{}", "open"}, Invoke(c, tx)
      PROVE  IInv'
  <2>. DEFINE p == [tx |-> tx, on |-> world]
  <2>1. /\ pending' = [pending EXCEPT ![c] = p] /\ world' = world
        /\ Run(world, c, tx) # Failed
    BY <1>2, Zenon DEF Invoke
  <2>2. p \in Txs /\ p.on = world /\ p.tx = tx
    BY Zenon DEF IInv, Good, Txs
  <2>. HIDE DEF p
  <2>3. Good(p.on) /\ Run(p.on, c, p.tx) # Failed
    BY <2>1, <2>2, Zenon DEF IInv
  <2>. QED  BY <2>1, <2>2, <2>3, Zenon DEF IInv
<1>3. ASSUME NEW c \in Clients, Commit(c) PROVE IInv'
  <2>1. Good(world')
    <3>1. CASE /\ world' \in Worlds
               /\ world'.index = world.index /\ world'.owners = world.owners
               /\ world'.params = world.params /\ world'.channels = world.channels
               /\ world'.sequence = TRUE
      <4>1. Good(world)
        BY DEF IInv
      <4>2. Fresh(world) => Fresh(world')
        BY <3>1 DEF Fresh
      <4>3. ASSUME NEW n \in 0 .. MaxChannels, Running(world, n)
            PROVE  Running(world', n)
        BY <3>1, <4>3 DEF Running
      <4>. QED  BY <3>1, <4>1, <4>2, <4>3 DEF Good
    <3>2. CASE world' \in Worlds /\ Running(world', 0)
      BY <3>2 DEF Good
    <3>3. ASSUME NEW n \in Channels, world' \in Worlds, Running(world', n + 1)
          PROVE  Good(world')
      <4>1. n + 1 \in 0 .. MaxChannels
        BY DEF Channels
      <4>. QED  BY <3>3, <4>1 DEF Good
    <3>. QED  BY <1>3, <3>1, <3>2, <3>3, CommitEffect, Zenon
  <2>2. pending' = [pending EXCEPT ![c] = Absent]
    BY <1>3, Zenon DEF Commit
  <2>. QED  BY <2>1, <2>2 DEF IInv
<1>4. ASSUME NEW c \in Clients, Discard(c) PROVE IInv'
  BY <1>4 DEF Discard, IInv
<1>. QED  BY <1>1, <1>2, <1>3, <1>4, Zenon DEF Next

\* The committed state is fresh or running, and so is every state that a
\* transaction in flight was simulated on.
THEOREM Invariance == Spec => []IInv
BY InitIInv, NextIInv, PTL DEF Spec

\* Until the application is initialised it can be, exactly once, and from then on
\* it serves transactions (NewIBCApp, InitGenesis, RunTx).
THEOREM AlwaysServiceable == Spec => []Serviceable
<1>1. ASSUME IInv PROVE Serviceable
  <2>1. world \in Worlds
    BY <1>1 DEF IInv, Good
  <2>2. CASE Fresh(world)
    <3>1. ~ world.params /\ InitChaincode(world, "default") # Failed
      BY <2>1, <2>2, DefaultOnFresh, Zenon DEF Fresh
    <3>2. \A c \in Clients : HandleTx(world, c) = Failed
      BY <2>1, <2>2, OpenOnFresh
    <3>. QED  BY <3>1, <3>2 DEF Serviceable
  <2>3. ASSUME NEW n \in 0 .. MaxChannels, Running(world, n) PROVE Serviceable
    <3>1. world.params /\ InitChaincode(world, "default") = Failed
      BY <2>1, <2>3, DefaultOnRunning DEF Running
    <3>2. (\E k \in Channels : world.channels[k] = Absent) <=> n # MaxChannels
      <4>1. \A k \in Channels : world.channels[k] # Absent <=> k < n
        BY <2>3 DEF Running
      <4>2. n # MaxChannels => n \in Channels /\ ~ (n < n)
        BY DEF Channels
      <4>3. n = MaxChannels => \A k \in Channels : k < n
        BY DEF Channels
      <4>. QED  BY <4>1, <4>2, <4>3
    <3>3. \A c \in Clients : HandleTx(world, c) # Failed <=> n # MaxChannels
      BY <2>1, <2>3, OpenOnRunning, Zenon
    <3>. QED  BY <3>1, <3>2, <3>3 DEF Serviceable
  <2>. QED  BY <1>1, <2>2, <2>3 DEF IInv, Good
<1>. QED  BY <1>1, Invariance, PTL

\* Every persisted capability has its two owners and one name, and the open
\* channels are those with a capability (CreateAndClaim, InitializeAndSeal).
THEOREM CapabilitiesAreExact == Spec => []CapabilitiesExact
<1>1. ASSUME IInv PROVE CapabilitiesExact
  <2>1. world \in Worlds
    BY <1>1 DEF IInv, Good
  <2>2. CASE Fresh(world)
    <3>1. \A n \in Channels : GetCapability(NewIBCApp(world), "transfer", n) = Absent
      BY <2>1, <2>2, FreshLookups DEF GetCapability, Owners, Names
    <3>. QED  BY <2>2, <3>1 DEF CapabilitiesExact, Fresh
  <2>3. ASSUME NEW n \in 0 .. MaxChannels, Running(world, n) PROVE CapabilitiesExact
    <3>. DEFINE NameOf(i) == IF i = 1 THEN Port ELSE i - 2
    <3>1. ASSUME NEW i \in Indices, world.owners[i] # {}
          PROVE  /\ i < world.index /\ i \in 1 .. n + 1
                 /\ NameOf(i) \in Names /\ world.owners[i] = Both(NameOf(i))
      <4>1. /\ world.index = n + 2 /\ n \in Nat /\ i \in Nat
            /\ world.owners[i] = IF i = 1 THEN Both(Port)
                                 ELSE IF i \in 2 .. n + 1 THEN Both(i - 2) ELSE {}
        BY <2>3 DEF Running, Indices
      <4>2. CASE i = 1
        BY <4>1, <4>2 DEF Names
      <4>3. CASE i \in 2 .. n + 1
        <5>1. i # 1 /\ i - 2 \in Channels /\ i < n + 2
          BY <4>1, <4>3 DEF Channels
        <5>. QED  BY <4>1, <4>3, <5>1 DEF Names
      <4>. QED  BY <3>1, <4>1, <4>2, <4>3
    <3>2. ASSUME NEW i \in Indices, NEW j \in Indices, world.owners[i] \cap world.owners[j] # {}
          PROVE  i = j
      <4>1. /\ i \in 1 .. n + 1 /\ j \in 1 .. n + 1
            /\ world.owners[i] = Both(NameOf(i)) /\ world.owners[j] = Both(NameOf(j))
        BY <3>1, <3>2
      <4>2. NameOf(i) = NameOf(j)
        BY <3>2, <4>1 DEF Both
      <4>3. CASE i = 1 \/ j = 1
        <5>1. \A k \in 1 .. n + 1 : k # 1 => k - 2 # Port
          OBVIOUS
        <5>. QED  BY <4>1, <4>2, <4>3, <5>1
      <4>4. CASE i # 1 /\ j # 1
        <5>1. i - 2 = j - 2 /\ i \in Nat /\ j \in Nat
          BY <4>1, <4>2, <4>4
        <5>. QED  BY <5>1, <4>1
      <4>. QED  BY <4>3, <4>4
    <3>3. \A k \in Channels : world.channels[k] # Absent <=>
                               GetCapability(NewIBCApp(world), "transfer", k) # Absent
      <4>1. \A k \in Channels : GetCapability(NewIBCApp(world), "transfer", k)
                                 = IF k < n THEN k + 2 ELSE Absent
        BY <2>1, <2>3, RunningLookups
      <4>2. \A k \in Channels : k + 2 # Absent
        BY DEF Channels
      <4>3. \A k \in Channels : world.channels[k] # Absent <=> k < n
        BY <2>3 DEF Running
      <4>. QED  BY <4>1, <4>2, <4>3
    <3>. HIDE DEF NameOf
    <3>. QED  BY <3>1, <3>2, <3>3 DEF CapabilitiesExact
  <2>. QED  BY <1>1, <2>2, <2>3 DEF IInv, Good
<1>. QED  BY <1>1, Invariance, PTL

\* An open channel keeps its entry and its capability in every later invocation
\* (LoadStores, InitializeAndSeal).
THEOREM ChannelsAreKept == Spec => ChannelsKept
<1>. DEFINE Kept ==
       \A n \in Channels : world.channels[n] # Absent =>
         /\ world'.channels[n] = world.channels[n]
         /\ \A module \in {"ibc", "transfer"} :
              GetCapability(NewIBCApp(world'), module, n)
                  = GetCapability(NewIBCApp(world), module, n)
<1>1. ASSUME IInv, [Next]_vars PROVE Kept
  <2>1. CASE world' = world
    BY <2>1
  <2>2. ASSUME NEW c \in Clients, Commit(c) PROVE Kept
    <3>1. world \in Worlds
      BY <1>1 DEF IInv, Good
    <3>2. CASE /\ world' \in Worlds
               /\ world'.index = world.index /\ world'.owners = world.owners
               /\ world'.params = world.params /\ world'.channels = world.channels
      <4>1. NewIBCApp(world').mem = NewIBCApp(world).mem
        <5>. DEFINE Lookups(own) == [o \in Owners |->
                IF \E i \in Indices : o \in own[i]
                THEN CHOOSE i \in Indices : o \in own[i] ELSE Absent]
        <5>1. NewIBCApp(world).mem = Lookups(world.owners)
          BY <3>1, Rebuilt
        <5>2. NewIBCApp(world').mem = Lookups(world'.owners)
          BY <3>2, Rebuilt
        <5>. HIDE DEF Lookups
        <5>. QED  BY <3>2, <5>1, <5>2
      <4>. QED  BY <3>2, <4>1 DEF GetCapability
    <3>3. CASE Fresh(world)
      BY <3>3 DEF Fresh
    <3>4. ASSUME NEW n \in Channels, Running(world, n), world' \in Worlds, Running(world', n + 1),
                 \A k \in Channels : k # n => world'.channels[k] = world.channels[k]
          PROVE  Kept
      <4>. SUFFICES ASSUME NEW k \in Channels, world.channels[k] # Absent,
                           NEW module \in {"ibc", "transfer"}
                    PROVE  /\ world'.channels[k] = world.channels[k]
                           /\ GetCapability(NewIBCApp(world'), module, k)
                                = GetCapability(NewIBCApp(world), module, k)
        OBVIOUS
      <4>1. k < n /\ k < n + 1 /\ k # n /\ n \in 0 .. MaxChannels /\ n + 1 \in 0 .. MaxChannels
        BY <3>4 DEF Running, Channels
      <4>2. GetCapability(NewIBCApp(world), module, k) = k + 2
        BY <3>1, <3>4, <4>1, RunningLookups
      <4>3. GetCapability(NewIBCApp(world'), module, k) = k + 2
        BY <3>4, <4>1, RunningLookups, Zenon
      <4>. QED  BY <3>4, <4>1, <4>2, <4>3
    <3>. HIDE DEF Kept
    <3>. QED  BY <1>1, <2>2, <3>2, <3>3, <3>4, CommitEffect, Zenon
  <2>. QED  BY <1>1, <2>1, <2>2, Zenon DEF Next, vars, Invoke, Discard
<1>2. ASSUME IInv, [Next]_vars PROVE [Kept]_vars
  BY <1>1, <1>2
<1>. QED  BY <1>2, Invariance, PTL DEF Spec, ChannelsKept
=============================================================================
