----------------------------- MODULE ClientProofs ----------------------------
(***************************************************************************)
(* The Fabric light client and what relayers bring it, for every set of    *)
(* headers that may be submitted, every policy, batches of any length, any *)
(* length of the log, any times, versions, MSPs and stores, and any order  *)
(* in which relayers submit what was endorsed.                             *)
(*                                                                         *)
(* The client.  A batch of MSP headers is verified against the state       *)
(* before the header and then applied one by one.  That the headers still  *)
(* fit when their turn comes is shown by induction along the batch: the    *)
(* identifiers of a batch ascend, so what the headers before it did left   *)
(* the entry of a header's MSP alone.  The induction takes the least n at  *)
(* which a claim about the first n headers would fail; the natural numbers *)
(* being well-founded, there is one.                                       *)
(*                                                                         *)
(* The relay.  That the consensus states are those of the chain is not     *)
(* inductive: it needs that every endorsed commitment that a relayer may   *)
(* still hold is one of the current log, and that the latest header is.    *)
(* That the next header is accepted needs that the log increases, and that *)
(* the endorsing peers keep satisfying the policy of the client.  What is  *)
(* said of proofs has to hold already of the endorsed entry that has no    *)
(* height yet and of the proofs that are on their way, and every value of  *)
(* the store must have been recorded.                                      *)
(***************************************************************************)
EXTENDS Timeouts, ProofRelay, WellFoundedInduction, TLAPS

\* The time in seconds that a backend may take over a step.
USE SMTT(30), ZenonT(30)

------------------------------------------------------------------------------
(* Least elements *)

\* The order of the natural numbers as a relation.
LEMMA NatOrder == OpToRel(<, Nat) = {ss \in Nat \X Nat : ss[1] < ss[2]}
  BY DEF OpToRel

\* Every set of natural numbers has a least element: what the inductions over
\* batches below rest on.
LEMMA NatMin ==
  ASSUME NEW T, T \subseteq Nat, T # {}
  PROVE  \E x \in T : \A y \in T : x <= y
<1>. DEFINE R == {ss \in Nat \X Nat : ss[1] < ss[2]}
<1>1. PICK x \in T : \A y \in T : ~ (<< y, x >> \in OpToRel(<, Nat))
  BY NatLessThanWellFounded, WFMin, Zenon
<1>2. \A y \in T : ~ (<< y, x >> \in R)
  BY <1>1, NatOrder, Zenon
<1>3. ASSUME NEW y \in T PROVE x <= y
  <2>1. x \in Nat /\ y \in Nat /\ << y, x >> \in Nat \X Nat
    OBVIOUS
  <2>2. ~ (y < x)
    BY <1>2, <2>1
  <2>. QED  BY <2>1, <2>2
<1>. QED  BY <1>3

\* Min of a set of natural numbers is its least element.
LEMMA MinOf ==
  ASSUME NEW S, S \subseteq Nat, S # {}
  PROVE  Min(S) \in S /\ \A m \in S : Min(S) <= m
<1>. DEFINE P(x) == x \in S /\ \A y \in S : x =< y
<1>1. \E x : P(x)
  BY NatMin, Zenon
<1>2. Min(S) = CHOOSE x : P(x)
  BY DEF Min
<1>3. P(Min(S))
  <2>. HIDE DEF P
  <2>. QED  BY <1>1, <1>2
<1>. QED  BY <1>3
------------------------------------------------------------------------------
(* The MSPs *)

\* An MSP without its identifier, as the table of MSPs has it.
Fields(info) == [config |-> info.config, policy |-> info.policy, freezed |-> info.freezed]

\* The entry of id in the sequence is.
Entry(is, id) == IF HasMSPID(is, id) THEN Fields(is[indexOfMSPID(is, id)]) ELSE None

\* The identifiers of the MSPs ascend.
Sorted(is) == \A i, j \in DOMAIN is : i < j => is[i].MSPID < is[j].MSPID

\* The elements of a sequence over S are in S.
LEMMA EntryIn ==
  ASSUME NEW S, NEW s \in Seq(S), NEW i \in DOMAIN s
  PROVE  s[i] \in S
OBVIOUS

\* indexOfMSPID finds the MSP with the identifier if there is one.
LEMMA IndexOf ==
  ASSUME NEW is \in Seq(MSPInfos), NEW id
  PROVE  /\ HasMSPID(is, id) <=> \E i \in DOMAIN is : is[i].MSPID = id
         /\ HasMSPID(is, id) => /\ indexOfMSPID(is, id) \in DOMAIN is
                                /\ is[indexOfMSPID(is, id)].MSPID = id
<1>. DEFINE I == {i \in DOMAIN is : is[i].MSPID = id}
<1>1. indexOfMSPID(is, id) = IF I = {} THEN 0 ELSE Min(I)
  BY DEF indexOfMSPID, First
<1>2. I \subseteq Nat /\ 0 \notin I
  OBVIOUS
<1>3. I # {} => Min(I) \in I
  <2>. HIDE DEF I
  <2>. QED  BY <1>2, MinOf, Zenon
<1>. QED  BY <1>1, <1>2, <1>3 DEF HasMSPID

\* In a sorted sequence an MSP is found at its place, and its entry is not None.
LEMMA EntryOf ==
  ASSUME NEW is \in Seq(MSPInfos), Sorted(is)
  PROVE  /\ \A i \in DOMAIN is : /\ indexOfMSPID(is, is[i].MSPID) = i
                                 /\ HasMSPID(is, is[i].MSPID)
                                 /\ Entry(is, is[i].MSPID) = Fields(is[i])
         /\ \A id : Entry(is, id) # None <=> HasMSPID(is, id)
<1>1. ASSUME NEW i \in DOMAIN is
      PROVE  indexOfMSPID(is, is[i].MSPID) = i /\ HasMSPID(is, is[i].MSPID)
  <2>. DEFINE j == indexOfMSPID(is, is[i].MSPID)
  <2>1. HasMSPID(is, is[i].MSPID) /\ j \in DOMAIN is /\ is[j].MSPID = is[i].MSPID
    BY IndexOf
  <2>2. i \in Nat /\ j \in Nat /\ is[i].MSPID \in Int /\ is[j].MSPID \in Int
    <3>1. is[i] \in MSPInfos /\ is[j] \in MSPInfos /\ i \in Nat /\ j \in Nat
      BY <2>1
    <3>. QED  BY <3>1, MSPIDsAssumption, Zenon DEF MSPInfos
  <2>. HIDE DEF j
  <2>3. i = j
    BY <2>1, <2>2 DEF Sorted
  <2>. QED  BY <2>1, <2>3 DEF j
<1>2. \A i \in DOMAIN is : Entry(is, is[i].MSPID) = Fields(is[i])
  BY <1>1 DEF Entry
<1>3. ASSUME NEW id, HasMSPID(is, id) PROVE Entry(is, id) # None
  <2>1. is[indexOfMSPID(is, id)] \in MSPInfos
    BY <1>3, IndexOf
  <2>. QED  BY <1>3, <2>1, NoPartAssumption DEF Entry, Fields, MSPInfos
<1>. QED  BY <1>1, <1>2, <1>3 DEF Entry

\* What a header makes of the entry e of its MSP.
Changed(e, mh) ==
  CASE mh.type = "Create"       -> [config |-> mh.config, policy |-> mh.policy,
                                    freezed |-> FALSE]
    [] mh.type = "UpdatePolicy" -> [e EXCEPT !.policy = mh.policy]
    [] mh.type = "UpdateConfig" -> [e EXCEPT !.config = mh.config]
    [] mh.type = "Freeze"       -> [e EXCEPT !.freezed = TRUE]

\* r is the sequence is, with the entry of id changed to e.
OneEntry(r, is, id, e) ==
  /\ r \in Seq(MSPInfos) /\ Sorted(r)
  /\ Entry(r, id) = e
  /\ \A other \in MSPIDs : other # id => Entry(r, other) = Entry(is, other)

\* Two sorted sequences with the same MSP for id have the same entry for it.
LEMMA EntryKept ==
  ASSUME NEW is \in Seq(MSPInfos), Sorted(is), NEW r \in Seq(MSPInfos), Sorted(r), NEW id,
         \A i \in DOMAIN is : is[i].MSPID = id => \E j \in DOMAIN r : r[j] = is[i],
         \A j \in DOMAIN r : r[j].MSPID = id => \E i \in DOMAIN is : r[j] = is[i]
  PROVE  Entry(r, id) = Entry(is, id)
<1>1. CASE \E i \in DOMAIN is : is[i].MSPID = id
  <2>1. PICK i \in DOMAIN is, j \in DOMAIN r : is[i].MSPID = id /\ r[j] = is[i]
    BY <1>1
  <2>. QED  BY <2>1, EntryOf
<1>2. CASE \A i \in DOMAIN is : is[i].MSPID # id
  BY <1>2, IndexOf DEF Entry
<1>. QED  BY <1>1, <1>2

\* createMSPInfo puts the new MSP where the order wants it, and moves the others.
LEMMA CreateEntry ==
  ASSUME NEW is \in Seq(MSPInfos), Sorted(is), NEW mh \in MSPHeaders,
         mh.type = "Create", MSPHeaderValidateBasic(mh), ~ HasMSPID(is, mh.MSPID)
  PROVE  OneEntry(createMSPInfo(is, mh), is, mh.MSPID, Changed(None, mh))
<1>. DEFINE id == mh.MSPID
            new == [MSPID |-> id, config |-> mh.config, policy |-> mh.policy, freezed |-> FALSE]
            L == {i \in DOMAIN is : CompareMSPID(id, is[i].MSPID) < 0}
            p == IF L = {} THEN Len(is) + 1 ELSE Min(L)
            r == SubSeq(is, 1, p - 1) \o << new >> \o SubSeq(is, p, Len(is))
<1>1. createMSPInfo(is, mh) = r
  <2>1. L # {} => Min(L) \in L
    <3>1. L \subseteq Nat
      OBVIOUS
    <3>. HIDE DEF L
    <3>. QED  BY <3>1, MinOf, Zenon
  <2>2. p = IF First(L) = 0 THEN Len(is) + 1 ELSE First(L)
    BY <2>1 DEF First
  <2>. QED  BY <2>2, Zenon DEF createMSPInfo
<1>2. new \in MSPInfos /\ id \in MSPIDs /\ id \in Int
  BY MSPIDsAssumption, Zenon DEF MSPInfos, MSPHeaders, MSPHeaderValidateBasic
<1>3. ASSUME NEW i \in DOMAIN is
      PROVE  is[i] \in MSPInfos /\ is[i].MSPID \in Int /\ is[i].MSPID # id
  <2>1. is[i] \in MSPInfos
    OBVIOUS
  <2>. QED  BY <2>1, MSPIDsAssumption, IndexOf, Zenon DEF MSPInfos
<1>4. /\ p \in 1 .. Len(is) + 1
      /\ \A i \in DOMAIN is : i < p => is[i].MSPID < id
      /\ \A i \in DOMAIN is : p <= i => id < is[i].MSPID
  <2>1. CASE L = {}
    BY <2>1, <1>2, <1>3 DEF CompareMSPID
  <2>2. CASE L # {}
    <3>1. p \in L /\ \A i \in L : p <= i
      <4>1. L \subseteq Nat
        OBVIOUS
      <4>. HIDE DEF L
      <4>. QED  BY <2>2, <4>1, MinOf, Zenon
    <3>2. p \in DOMAIN is /\ id < is[p].MSPID
      BY <3>1, <1>2, <1>3 DEF CompareMSPID
    <3>3. ASSUME NEW i \in DOMAIN is, i < p PROVE is[i].MSPID < id
      <4>1. i \notin L
        <5>1. i \in Nat /\ p \in Nat
          BY <3>2
        <5>. HIDE DEF p, L
        <5>. QED  BY <3>1, <3>3, <5>1
      <4>. QED  BY <4>1, <1>2, <1>3 DEF CompareMSPID
    <3>4. ASSUME NEW i \in DOMAIN is, p <= i PROVE id < is[i].MSPID
      <4>1. is[p].MSPID \in Int /\ is[i].MSPID \in Int
        BY <3>2, <1>3, Zenon
      <4>2. i = p \/ is[p].MSPID < is[i].MSPID
        BY <3>2, <3>4 DEF Sorted
      <4>3. id \in Int /\ id < is[p].MSPID
        BY <3>2, <1>2
      <4>. HIDE DEF p, id
      <4>. QED  BY <4>1, <4>2, <4>3
    <3>. HIDE DEF p
    <3>. QED  BY <3>2, <3>3, <3>4
  <2>. QED  BY <2>1, <2>2, Zenon
<1>. HIDE DEF p, new
<1>5. /\ r \in Seq(MSPInfos) /\ Len(r) = Len(is) + 1
      /\ r[p] = new
      /\ \A i \in 1 .. Len(is) : i < p => r[i] = is[i]
      /\ \A i \in 1 .. Len(is) : p <= i => r[i + 1] = is[i]
  <2>. DEFINE a == SubSeq(is, 1, p - 1)  b == SubSeq(is, p, Len(is))
  <2>1. a \in Seq(MSPInfos) /\ Len(a) = p - 1 /\ \A i \in 1 .. p - 1 : a[i] = is[i]
    BY <1>4
  <2>2. b \in Seq(MSPInfos) /\ Len(b) = Len(is) - p + 1
        /\ \A i \in 1 .. Len(is) - p + 1 : b[i] = is[p + i - 1]
    BY <1>4
  <2>3. r = (a \o << new >>) \o b
    OBVIOUS
  <2>. HIDE DEF a, b, r
  <2>. DEFINE c == a \o << new >>
  <2>4. c \in Seq(MSPInfos) /\ Len(c) = p /\ c[p] = new /\ \A i \in 1 .. p - 1 : c[i] = is[i]
    BY <2>1, <1>2, <1>4
  <2>. HIDE DEF c
  <2>5. r \in Seq(MSPInfos) /\ Len(r) = Len(is) + 1
    BY <2>2, <2>3, <2>4, <1>4 DEF c
  <2>6. /\ \A i \in 1 .. p : r[i] = c[i]
        /\ \A i \in 1 .. Len(is) - p + 1 : r[p + i] = b[i]
    BY <2>2, <2>3, <2>4, <1>4 DEF c
  <2>7. ASSUME NEW i \in 1 .. Len(is), p <= i PROVE r[i + 1] = is[i]
    <3>1. i - p + 1 \in 1 .. Len(is) - p + 1 /\ p + (i - p + 1) = i + 1 /\ p + (i - p + 1) - 1 = i
      BY <2>7, <1>4
    <3>. QED  BY <2>2, <2>6, <3>1
  <2>8. p \in Nat /\ Len(is) \in Nat /\ p \in 1 .. p
    BY <1>4
  <2>9. r[p] = new /\ \A i \in 1 .. p - 1 : r[i] = is[i]
    <3>1. \A i \in 1 .. p - 1 : i \in 1 .. p
      BY <2>8
    <3>. QED  BY <2>4, <2>6, <2>8, <3>1
  <2>10. \A i \in 1 .. Len(is) : i < p => i \in 1 .. p - 1
    BY <2>8
  <2>. QED  BY <2>5, <2>7, <2>9, <2>10
<1>. HIDE DEF r
<1>6. \A k \in DOMAIN r :
        \/ k < p /\ k \in DOMAIN is /\ r[k] = is[k]
        \/ k = p /\ r[k] = new
        \/ k > p /\ k - 1 \in DOMAIN is /\ p <= k - 1 /\ r[k] = is[k - 1]
  <2>. SUFFICES ASSUME NEW k \in DOMAIN r, k # p
                PROVE  \/ k < p /\ k \in DOMAIN is /\ r[k] = is[k]
                       \/ k > p /\ k - 1 \in DOMAIN is /\ p <= k - 1 /\ r[k] = is[k - 1]
    BY <1>5
  <2>1. k \in 1 .. Len(is) + 1
    BY <1>5
  <2>2. CASE k < p
    BY <2>1, <2>2, <1>4, <1>5
  <2>3. CASE k > p
    <3>1. k - 1 \in 1 .. Len(is) /\ p <= k - 1 /\ (k - 1) + 1 = k
      BY <2>1, <2>3, <1>4
    <3>2. r[(k - 1) + 1] = is[k - 1]
      BY <3>1, <1>5
    <3>. QED  BY <2>3, <3>1, <3>2
  <2>. QED  BY <2>1, <2>2, <2>3, <1>4
<1>7. Sorted(r)
  <2>. SUFFICES ASSUME NEW i \in DOMAIN r, NEW j \in DOMAIN r, i < j
                PROVE  r[i].MSPID < r[j].MSPID
    BY DEF Sorted
  <2>1. i \in Nat /\ j \in Nat /\ p \in Nat /\ new.MSPID = id
    BY <1>4, <1>5 DEF new
  <2>2. CASE j < p
    BY <2>1, <2>2, <1>6 DEF Sorted
  <2>3. CASE j = p
    BY <2>1, <2>3, <1>4, <1>6
  <2>4. CASE j > p
    <3>1. CASE i < p
      <4>1. is[i].MSPID < id /\ id < is[j - 1].MSPID /\ r[i] = is[i] /\ r[j] = is[j - 1]
            /\ i \in DOMAIN is /\ j - 1 \in DOMAIN is
        BY <2>1, <2>4, <3>1, <1>4, <1>6
      <4>. QED  BY <4>1, <1>2, <1>3
    <3>2. CASE i = p
      BY <2>1, <2>4, <3>2, <1>4, <1>6
    <3>3. CASE i > p
      BY <2>1, <2>4, <3>3, <1>6 DEF Sorted
    <3>. QED  BY <2>1, <3>1, <3>2, <3>3
  <2>. QED  BY <2>1, <2>2, <2>3, <2>4
<1>8. Entry(r, id) = Changed(None, mh)
  <2>1. p \in DOMAIN r /\ r[p].MSPID = id
    BY <1>4, <1>5 DEF new
  <2>2. Entry(r, id) = Fields(new)
    BY <2>1, <1>5, <1>7, EntryOf, Zenon
  <2>. QED  BY <2>2 DEF Fields, new, Changed
<1>9. ASSUME NEW other \in MSPIDs, other # id PROVE Entry(r, other) = Entry(is, other)
  <2>1. \A i \in DOMAIN is : \E j \in DOMAIN r : r[j] = is[i]
    <3>. SUFFICES ASSUME NEW i \in DOMAIN is PROVE \E j \in DOMAIN r : r[j] = is[i]
      OBVIOUS
    <3>1. CASE i < p
      BY <3>1, <1>5
    <3>2. CASE p <= i
      <4>1. i + 1 \in DOMAIN r /\ r[i + 1] = is[i]
        BY <3>2, <1>5
      <4>. QED  BY <4>1
    <3>. QED  BY <3>1, <3>2, <1>4
  <2>2. \A j \in DOMAIN r : r[j].MSPID = other => \E i \in DOMAIN is : r[j] = is[i]
    BY <1>6, <1>9 DEF new
  <2>. QED  BY <2>1, <2>2, <1>5, <1>7, EntryKept, Zenon
<1>. QED  BY <1>1, <1>5, <1>7, <1>8, <1>9 DEF OneEntry

\* The other kinds of headers change a field of an entry in place.
LEMMA ChangeEntry ==
  ASSUME NEW is \in Seq(MSPInfos), Sorted(is), NEW mh \in MSPHeaders,
         mh.type # "Create", MSPHeaderValidateBasic(mh), HasMSPID(is, mh.MSPID)
  PROVE  OneEntry(updateMSPInfo(is, mh), is, mh.MSPID, Changed(Entry(is, mh.MSPID), mh))
<1>. DEFINE id == mh.MSPID
            idx == indexOfMSPID(is, id)
            e == is[idx]
            f == CASE mh.type = "UpdatePolicy" -> [e EXCEPT !.policy = mh.policy]
                   [] mh.type = "UpdateConfig" -> [e EXCEPT !.config = mh.config]
                   [] mh.type = "Freeze"       -> [e EXCEPT !.freezed = TRUE]
            r == [is EXCEPT ![idx] = f]
<1>1. idx \in DOMAIN is /\ e \in MSPInfos /\ e.MSPID = id
  BY IndexOf
<1>2. mh.type \in {"UpdatePolicy", "UpdateConfig", "Freeze"}
  BY DEF MSPHeaders
<1>3. updateMSPInfo(is, mh) = r
  BY <1>2, Zenon DEF updateMSPInfo
<1>4. f \in MSPInfos /\ f.MSPID = id /\ Fields(f) = Changed(Fields(e), mh)
  <2>1. CASE mh.type = "UpdatePolicy"
    BY <1>1, <2>1 DEF MSPInfos, MSPHeaders, MSPHeaderValidateBasic, Fields, Changed
  <2>2. CASE mh.type = "UpdateConfig"
    BY <1>1, <2>2 DEF MSPInfos, MSPHeaders, MSPHeaderValidateBasic, Fields, Changed
  <2>3. CASE mh.type = "Freeze"
    BY <1>1, <2>3, Zenon DEF MSPInfos, Fields, Changed
  <2>. QED  BY <1>2, <2>1, <2>2, <2>3, Zenon
<1>. HIDE DEF f, idx
<1>5. /\ r \in Seq(MSPInfos) /\ DOMAIN r = DOMAIN is
      /\ r[idx] = f
      /\ \A i \in DOMAIN is : i # idx => r[i] = is[i]
  BY <1>1, <1>4
<1>. HIDE DEF r
<1>6. \A i \in DOMAIN is : r[i].MSPID = is[i].MSPID
  BY <1>1, <1>4, <1>5, Zenon
<1>7. Sorted(r)
  BY <1>5, <1>6 DEF Sorted
<1>8. Entry(r, id) = Changed(Entry(is, id), mh)
  <2>1. Entry(r, id) = Fields(f)
    BY <1>1, <1>4, <1>5, <1>7, EntryOf, Zenon
  <2>2. Entry(is, id) = Fields(e)
    BY <1>1, EntryOf
  <2>. QED  BY <2>1, <2>2, <1>4, Zenon
<1>9. ASSUME NEW other \in MSPIDs, other # id PROVE Entry(r, other) = Entry(is, other)
  <2>1. \A i \in DOMAIN is : is[i].MSPID = other => \E j \in DOMAIN r : r[j] = is[i]
    BY <1>1, <1>5, <1>9
  <2>2. \A j \in DOMAIN r : r[j].MSPID = other => \E i \in DOMAIN is : r[j] = is[i]
    BY <1>4, <1>5, <1>9
  <2>. QED  BY <2>1, <2>2, <1>5, <1>7, EntryKept, Zenon
<1>. QED  BY <1>3, <1>5, <1>7, <1>8, <1>9, Zenon DEF OneEntry

\* The MSPs after each number of headers of the batch, as the loop of updateMSPInfos
\* makes them.
Applied(is, mhs) ==
  CHOOSE f : f = [n \in 0 .. Len(mhs) |-> IF n = 0 THEN is ELSE updateMSPInfo(f[n - 1], mhs[n])]

\* The MSPs after the first n headers of the batch.
After(is, mhs, n) == Applied(is, mhs)[n]

\* The recursion of the loop has a solution, whatever the batch.
LEMMA AppliedDef ==
  ASSUME NEW is, NEW mhs \in Seq(MSPHeaders)
  PROVE  Applied(is, mhs) =
           [n \in 0 .. Len(mhs) |-> IF n = 0 THEN is
                                   ELSE updateMSPInfo(Applied(is, mhs)[n - 1], mhs[n])]
<1>. DEFINE Step(f, m) == IF m = 0 THEN is ELSE updateMSPInfo(f[m - 1], mhs[m])
            Upto(f, n) == f = [m \in 0 .. n |-> Step(f, m)]
            N == Len(mhs)
            Bad == {n \in 0 .. N : ~ \E f : Upto(f, n)}
<1>1. Bad = {}
  <2>. SUFFICES ASSUME Bad # {} PROVE FALSE
    BY Zenon
  <2>1. PICK n \in Bad : \A k \in Bad : n <= k
    <3>1. Bad \subseteq Nat
      OBVIOUS
    <3>. HIDE DEF Bad
    <3>. QED  BY <3>1, NatMin, Zenon
  <2>2. CASE n = 0
    <3>1. 0 .. n = {0}
      BY <2>2
    <3>2. Upto([m \in 0 .. n |-> is], n)
      BY <3>1, Zenon
    <3>. QED  BY <2>1, <3>2, Zenon
  <2>3. CASE n # 0
    <3>1. n - 1 \in 0 .. N /\ n - 1 \notin Bad /\ n \in Nat
      <4>1. n \in 0 .. N
        BY <2>1
      <4>. HIDE DEF Bad
      <4>. QED  BY <2>1, <2>3, <4>1
    <3>2. PICK f : Upto(f, n - 1)
      BY <3>1, Zenon
    <3>. DEFINE g == [m \in 0 .. n |-> IF m = n THEN updateMSPInfo(f[n - 1], mhs[n]) ELSE f[m]]
    <3>3. ASSUME NEW m \in 0 .. n PROVE g[m] = Step(g, m)
      <4>1. CASE m = n
        <5>1. n - 1 \in 0 .. n /\ n - 1 # n
          BY <2>3, <3>1
        <5>. QED  BY <2>3, <4>1, <5>1
      <4>2. CASE m # n
        <5>1. m \in 0 .. n - 1
          BY <4>2, <3>1
        <5>2. g[m] = Step(f, m)
          BY <4>2, <5>1, <3>2, Zenon
        <5>3. m # 0 => m - 1 \in 0 .. n /\ m - 1 # n
          BY <3>1, <4>2
        <5>. QED  BY <5>2, <5>3
      <4>. QED  BY <4>1, <4>2
    <3>4. Upto(g, n)
      <4>. HIDE DEF Step
      <4>. QED  BY <3>3, Zenon
    <3>. QED  BY <2>1, <3>4, Zenon
  <2>. QED  BY <2>2, <2>3
<1>2. \E f : Upto(f, N)
  <2>1. N \in 0 .. N
    OBVIOUS
  <2>. HIDE DEF Upto
  <2>. QED  BY <1>1, <2>1
<1>3. Applied(is, mhs) = CHOOSE f : Upto(f, N)
  BY DEF Applied
<1>4. Upto(Applied(is, mhs), N)
  <2>. HIDE DEF Upto
  <2>. QED  BY <1>2, <1>3, Zenon
<1>. QED  BY <1>4, Zenon

\* The batch is applied header by header.
LEMMA AfterSteps ==
  ASSUME NEW is, NEW mhs \in Seq(MSPHeaders)
  PROVE  /\ After(is, mhs, 0) = is
         /\ \A n \in 1 .. Len(mhs) :
              After(is, mhs, n) = updateMSPInfo(After(is, mhs, n - 1), mhs[n])
         /\ updateMSPInfos(is, mhs) = After(is, mhs, Len(mhs))
<1>. DEFINE f == Applied(is, mhs)
<1>1. f = [n \in 0 .. Len(mhs) |-> IF n = 0 THEN is ELSE updateMSPInfo(f[n - 1], mhs[n])]
  BY AppliedDef, Zenon
<1>2. updateMSPInfos(is, mhs) = f[Len(mhs)]
  BY DEF updateMSPInfos, Applied
<1>. HIDE DEF f
<1>3. f[0] = is /\ \A n \in 1 .. Len(mhs) : f[n] = updateMSPInfo(f[n - 1], mhs[n])
  BY <1>1
<1>. QED  BY <1>2, <1>3 DEF f, After

\* The first n headers of a batch have changed the entries of their MSPs, each as
\* it was before the batch.
PartlyApplied(mhs, n) ==
  LET is == After(infos, mhs, n) IN
  /\ is \in Seq(MSPInfos) /\ Sorted(is)
  /\ \A k \in 1 .. n :
       Entry(is, mhs[k].MSPID) = Changed(Entry(infos, mhs[k].MSPID), mhs[k])
  /\ \A id \in MSPIDs :
       (\A k \in 1 .. n : mhs[k].MSPID # id) => Entry(is, id) = Entry(infos, id)

\* A header that was verified before the batch can still be applied in it: the
\* identifiers of a batch ascend, so none of the headers before it is about its MSP.
LEMMA NextApplied ==
  ASSUME infos \in Seq(MSPInfos), Sorted(infos), NEW mhs \in Seq(MSPHeaders),
         MSPHeadersValidateBasic(mhs), VerifyMSPHeaders(mhs),
         NEW n \in 1 .. Len(mhs), PartlyApplied(mhs, n - 1)
  PROVE  PartlyApplied(mhs, n)
<1>. DEFINE mh == mhs[n]
            id == mhs[n].MSPID
            is == After(infos, mhs, n - 1)
            r == After(infos, mhs, n)
<1>1. /\ mh \in MSPHeaders /\ id \in MSPIDs /\ MSPHeaderValidateBasic(mh)
      /\ VerifyMSPHeader(mh)
  <2>1. mh \in MSPHeaders /\ n \in DOMAIN mhs
    OBVIOUS
  <2>. QED  BY <2>1 DEF MSPHeaders, MSPHeadersValidateBasic, VerifyMSPHeaders
<1>2. \A k \in 1 .. n - 1 : mhs[k].MSPID # id /\ mhs[k].MSPID \in MSPIDs
  <2>. SUFFICES ASSUME NEW k \in 1 .. n - 1 PROVE mhs[k].MSPID # id /\ mhs[k].MSPID \in MSPIDs
    OBVIOUS
  <2>1. mhs[k] \in MSPHeaders /\ k \in DOMAIN mhs /\ n \in DOMAIN mhs
    OBVIOUS
  <2>2. mhs[k].MSPID \in MSPIDs /\ mhs[k].MSPID \in Int /\ id \in Int
    BY <2>1, <1>1, MSPIDsAssumption, Zenon DEF MSPHeaders
  <2>3. CompareMSPID(mhs[k].MSPID, id) < 0
    BY <2>1, Zenon DEF MSPHeadersValidateBasic
  <2>. QED  BY <2>2, <2>3 DEF CompareMSPID
<1>3. is \in Seq(MSPInfos) /\ Sorted(is) /\ Entry(is, id) = Entry(infos, id)
  BY <1>1, <1>2 DEF PartlyApplied
<1>4. r = updateMSPInfo(is, mh)
  BY AfterSteps, ZenonT(30)
<1>. HIDE DEF is, r, id
<1>5. HasMSPID(is, id) <=> HasMSPID(infos, id)
  BY <1>3, EntryOf
<1>6. OneEntry(r, is, id, Changed(Entry(infos, id), mh))
  <2>1. CASE mh.type = "Create"
    <3>1. ~ HasMSPID(infos, id)
      BY <2>1, <1>1 DEF VerifyMSPHeader, verifyMSPCreate, id
    <3>2. r = createMSPInfo(is, mh)
      BY <2>1, <1>4 DEF updateMSPInfo
    <3>3. Changed(Entry(infos, id), mh) = Changed(None, mh)
      BY <2>1 DEF Changed
    <3>. QED  BY <2>1, <3>1, <3>2, <3>3, <1>1, <1>3, <1>5, CreateEntry, Zenon DEF id
  <2>2. CASE mh.type # "Create"
    <3>1. mh.type \in {"UpdatePolicy", "UpdateConfig", "Freeze"}
      BY <2>2, <1>1, Zenon DEF MSPHeaders
    <3>2. HasMSPID(infos, id)
      BY <3>1, <1>1, Zenon DEF VerifyMSPHeader, verifyMSPUpdatePolicy, verifyMSPUpdateConfig,
                        verifyMSPFreeze, Changeable, id
    <3>. QED  BY <2>2, <3>2, <1>1, <1>3, <1>4, <1>5, ChangeEntry, Zenon DEF id
  <2>. QED  BY <2>1, <2>2, Zenon
<1>7. ASSUME NEW k \in 1 .. n
      PROVE  Entry(r, mhs[k].MSPID) = Changed(Entry(infos, mhs[k].MSPID), mhs[k])
  <2>1. CASE k = n
    BY <2>1, <1>6, Zenon DEF OneEntry, id
  <2>2. CASE k # n
    <3>1. k \in 1 .. n - 1
      BY <2>2
    <3>2. Entry(r, mhs[k].MSPID) = Entry(is, mhs[k].MSPID)
      BY <3>1, <1>2, <1>6, Zenon DEF OneEntry
    <3>3. Entry(is, mhs[k].MSPID) = Changed(Entry(infos, mhs[k].MSPID), mhs[k])
      BY <3>1 DEF PartlyApplied, is
    <3>. QED  BY <3>2, <3>3
  <2>. QED  BY <2>1, <2>2, Zenon
<1>8. ASSUME NEW other \in MSPIDs, \A k \in 1 .. n : mhs[k].MSPID # other
      PROVE  Entry(r, other) = Entry(infos, other)
  <2>1. other # id
    BY <1>8 DEF id
  <2>2. Entry(r, other) = Entry(is, other)
    BY <2>1, <1>6 DEF OneEntry
  <2>3. \A k \in 1 .. n - 1 : mhs[k].MSPID # other
    BY <1>8
  <2>4. Entry(is, other) = Entry(infos, other)
    BY <2>3 DEF PartlyApplied, is
  <2>. QED  BY <2>2, <2>4, Zenon
<1>. QED  BY <1>6, <1>7, <1>8, Zenon DEF PartlyApplied, OneEntry, r

\* Every part of a batch that was accepted is applied in this way.
LEMMA BatchApplied ==
  ASSUME infos \in Seq(MSPInfos), Sorted(infos), NEW mhs \in Seq(MSPHeaders),
         MSPHeadersValidateBasic(mhs), VerifyMSPHeaders(mhs)
  PROVE  \A n \in 0 .. Len(mhs) : PartlyApplied(mhs, n)
<1>. DEFINE Bad == {n \in 0 .. Len(mhs) : ~ PartlyApplied(mhs, n)}
<1>. SUFFICES ASSUME Bad # {} PROVE FALSE
  OBVIOUS
<1>1. PICK n \in Bad : \A k \in Bad : n <= k
  <2>1. Bad \subseteq Nat
    OBVIOUS
  <2>. HIDE DEF Bad
  <2>. QED  BY <2>1, NatMin, Zenon
<1>2. n # 0
  BY <1>1, AfterSteps DEF PartlyApplied
<1>3. n \in 1 .. Len(mhs) /\ n - 1 \in 0 .. Len(mhs)
  BY <1>1, <1>2
<1>4. n - 1 \notin Bad
  <2>. HIDE DEF Bad
  <2>. QED  BY <1>1, <1>3
<1>5. PartlyApplied(mhs, n)
  BY <1>3, <1>4, NextApplied
<1>. QED  BY <1>1, <1>5

\* The types and the order of the MSPs.
MSPInv == infos \in Seq(MSPInfos) /\ Sorted(infos)

\* The batch of an accepted header, if it has one.
LEMMA AcceptedBatch ==
  ASSUME MSPInv, NEW h \in Headers, UpdateClient(h), h.msps # None
  PROVE  /\ h.msps \in Seq(MSPHeaders)
         /\ MSPHeadersValidateBasic(h.msps) /\ VerifyMSPHeaders(h.msps)
         /\ infos' = After(infos, h.msps, Len(h.msps))
         /\ PartlyApplied(h.msps, Len(h.msps))
<1>1. h.msps \in Seq(MSPHeaders)
  BY HeadersAssumption, Zenon
<1>2. MSPHeadersValidateBasic(h.msps) /\ VerifyMSPHeaders(h.msps)
  BY Zenon DEF UpdateClient, CheckHeaderAndUpdateState, checkValidity, ValidateBasic
<1>3. infos' = updateMSPInfos(infos, h.msps)
  BY Zenon DEF UpdateClient, CheckHeaderAndUpdateState, update
<1>4. infos' = After(infos, h.msps, Len(h.msps))
  BY <1>1, <1>3, AfterSteps, Zenon
<1>5. PartlyApplied(h.msps, Len(h.msps))
  <2>1. Len(h.msps) \in 0 .. Len(h.msps)
    BY <1>1
  <2>. QED  BY <1>1, <1>2, <2>1, BatchApplied DEF MSPInv
<1>. QED  BY <1>1, <1>2, <1>4, <1>5, Zenon

\* Sorted is the order of CompareMSPID.
LEMMA SortedDef ==
  ASSUME NEW is \in Seq(MSPInfos)
  PROVE  Sorted(is) <=> \A i, j \in DOMAIN is :
                          i < j => CompareMSPID(is[i].MSPID, is[j].MSPID) < 0
<1>1. \A i \in DOMAIN is : is[i].MSPID \in Int
  <2>1. \A i \in DOMAIN is : is[i] \in MSPInfos
    OBVIOUS
  <2>. QED  BY <2>1, MSPIDsAssumption, Zenon DEF MSPInfos
<1>. QED  BY <1>1 DEF Sorted, CompareMSPID

\* A client is created with sorted MSPs.
LEMMA InitMSP == Init => MSPInv
<1>. SUFFICES ASSUME NEW h \in Genesis, CreateClient(h) PROVE MSPInv
  BY Zenon DEF Init
<1>. DEFINE mhs == h.msps
<1>1. mhs \in Seq(MSPHeaders) /\ infos = createMSPInitialClientState(mhs)
  BY HeadersAssumption, Zenon DEF CreateClient
<1>2. /\ \A i \in DOMAIN mhs : mhs[i].type = "Create"
      /\ MSPHeadersValidateBasic(mhs)
  BY <1>1, NoPartAssumption DEF CreateClient, ValidateBasic
<1>. HIDE DEF mhs
<1>3. ASSUME NEW i \in DOMAIN mhs
      PROVE  /\ mhs[i].MSPID \in MSPIDs /\ mhs[i].MSPID \in Int
             /\ mhs[i].config \in Configs /\ mhs[i].policy \in Policies
  <2>1. mhs[i] \in MSPHeaders /\ MSPHeaderValidateBasic(mhs[i])
    BY <1>1, <1>2 DEF MSPHeadersValidateBasic
  <2>. QED  BY <1>2, <2>1, MSPIDsAssumption, Zenon DEF MSPHeaders, MSPHeaderValidateBasic
<1>4. infos \in Seq(MSPInfos)
  <2>1. DOMAIN mhs = 1 .. Len(mhs) /\ Len(mhs) \in Nat
    BY <1>1
  <2>2. \A i \in 1 .. Len(mhs) :
          [MSPID |-> mhs[i].MSPID, config |-> mhs[i].config, policy |-> mhs[i].policy,
           freezed |-> FALSE] \in MSPInfos
    BY <1>3, <2>1 DEF MSPInfos
  <2>. QED  BY <1>1, <2>1, <2>2 DEF createMSPInitialClientState
<1>5. Sorted(infos)
  <2>. SUFFICES ASSUME NEW i \in DOMAIN mhs, NEW j \in DOMAIN mhs, i < j
                PROVE  mhs[i].MSPID < mhs[j].MSPID
    BY <1>1 DEF Sorted, createMSPInitialClientState
  <2>1. i \in 1 .. j - 1
    BY <1>1
  <2>2. CompareMSPID(mhs[i].MSPID, mhs[j].MSPID) < 0
    BY <1>2, <2>1 DEF MSPHeadersValidateBasic
  <2>. QED  BY <1>3, <2>2 DEF CompareMSPID
<1>. QED  BY <1>4, <1>5 DEF MSPInv

\* An update keeps the MSPs sorted.
LEMMA NextMSP == MSPInv /\ [Next]_vars => MSPInv'
<1>1. CASE UNCHANGED vars
  BY <1>1 DEF vars, MSPInv
<1>2. ASSUME MSPInv, NEW h \in Headers, UpdateClient(h) PROVE MSPInv'
  <2>1. CASE h.msps = None
    <3>1. infos' = infos
      BY <1>2, <2>1, Zenon DEF UpdateClient, CheckHeaderAndUpdateState, update
    <3>. QED  BY <1>2, <3>1 DEF MSPInv
  <2>2. CASE h.msps # None
    BY <1>2, <2>2, AcceptedBatch, Zenon DEF PartlyApplied, MSPInv
  <2>. QED  BY <2>1, <2>2
<1>. QED  BY <1>1, <1>2 DEF Next

\* The MSPs stay in strictly ascending order of their identifiers, for every
\* series of batches.
THEOREM MSPsSorted == Spec => []InfosSorted
<1>1. MSPInv => InfosSorted
  BY SortedDef DEF MSPInv, InfosSorted
<1>. QED  BY <1>1, InitMSP, NextMSP, PTL DEF Spec

\* An entry of the sequence of MSPs is an entry of the table.
LEMMA EntryType ==
  ASSUME NEW is \in Seq(MSPInfos), NEW id
  PROVE  Entry(is, id) \in Registry!Infos \cup {None}
<1>1. CASE HasMSPID(is, id)
  <2>1. is[indexOfMSPID(is, id)] \in MSPInfos
    BY <1>1, IndexOf
  <2>. QED  BY <1>1, <2>1, Zenon DEF Entry, Fields, MSPInfos, Registry!Infos
<1>. QED  BY <1>1 DEF Entry

\* What the header mh makes of an entry is a successor of it.
LEMMA ChangedSucceeds ==
  ASSUME MSPInv, NEW mh \in MSPHeaders, MSPHeaderValidateBasic(mh), VerifyMSPHeader(mh)
  PROVE  Changed(Entry(infos, mh.MSPID), mh) \in Registry!Successors(Entry(infos, mh.MSPID))
<1>. DEFINE id == mh.MSPID
            e == Entry(infos, id)
<1>1. CASE mh.type = "Create"
  <2>1. e = None
    BY <1>1 DEF VerifyMSPHeader, verifyMSPCreate, Entry
  <2>2. Changed(e, mh) = [config |-> mh.config, policy |-> mh.policy, freezed |-> FALSE]
    BY <1>1 DEF Changed
  <2>3. mh.config \in Configs /\ mh.policy \in Policies
    BY <1>1, Zenon DEF MSPHeaders, MSPHeaderValidateBasic
  <2>4. Changed(e, mh) \in Registry!Infos /\ ~ Changed(e, mh).freezed
    BY <2>2, <2>3 DEF Registry!Infos
  <2>. QED  BY <2>1, <2>4 DEF Registry!Successors
<1>2. CASE mh.type \in {"UpdatePolicy", "UpdateConfig", "Freeze"}
  <2>1. Changeable(id)
    BY <1>2, Zenon DEF VerifyMSPHeader, verifyMSPUpdatePolicy, verifyMSPUpdateConfig,
       verifyMSPFreeze
  <2>2. /\ infos[indexOfMSPID(infos, id)] \in MSPInfos
        /\ ~ infos[indexOfMSPID(infos, id)].freezed
        /\ e = Fields(infos[indexOfMSPID(infos, id)])
    <3>1. infos \in Seq(MSPInfos) /\ HasMSPID(infos, id)
      BY <2>1, Zenon DEF MSPInv, Changeable
    <3>2. indexOfMSPID(infos, id) \in DOMAIN infos
      BY <3>1, IndexOf, Zenon
    <3>3. infos[indexOfMSPID(infos, id)] \in MSPInfos
      BY <3>1, <3>2, EntryIn, Zenon
    <3>. QED  BY <2>1, <3>1, <3>3, Zenon DEF Changeable, Entry
  <2>3. e \in Registry!Infos /\ ~ e.freezed
    BY <2>2 DEF Fields, MSPInfos, Registry!Infos
  <2>4. e # None
    BY <2>3, NoPartAssumption DEF Registry!Infos
  <2>5. CASE mh.type = "UpdatePolicy"
    <3>1. mh.policy \in Policies
      BY <2>5 DEF MSPHeaders, MSPHeaderValidateBasic
    <3>2. Changed(e, mh) = [e EXCEPT !.policy = mh.policy]
      BY <2>5 DEF Changed
    <3>3. Changed(e, mh) \in Registry!Infos /\ Changed(e, mh).policy = mh.policy
      BY <2>3, <3>1, <3>2, Zenon DEF Registry!Infos
    <3>. QED  BY <2>3, <2>4, <3>2, <3>3, Zenon DEF Registry!Successors
  <2>6. CASE mh.type = "UpdateConfig"
    <3>1. mh.config \in Configs
      BY <2>6 DEF MSPHeaders, MSPHeaderValidateBasic
    <3>2. Changed(e, mh) = [e EXCEPT !.config = mh.config]
      BY <2>6 DEF Changed
    <3>3. Changed(e, mh) \in Registry!Infos /\ Changed(e, mh).config = mh.config
      BY <2>3, <3>1, <3>2, Zenon DEF Registry!Infos
    <3>. QED  BY <2>3, <2>4, <3>2, <3>3, Zenon DEF Registry!Successors
  <2>7. CASE mh.type = "Freeze"
    <3>1. Changed(e, mh) = [e EXCEPT !.freezed = TRUE]
      BY <2>7 DEF Changed
    <3>2. Changed(e, mh) \in Registry!Infos
      BY <2>3, <3>1, Zenon DEF Registry!Infos
    <3>. QED  BY <2>3, <2>4, <3>1, <3>2 DEF Registry!Successors
  <2>. QED  BY <1>2, <2>5, <2>6, <2>7
<1>. QED  BY <1>1, <1>2 DEF MSPHeaders

\* The sorted sequence of MSPs implements the table of MSPs: a batch of any length
\* changes each entry at most once and as the table allows.
THEOREM RegistryImplemented == Spec => ImplementsRegistry
<1>1. registry = [id \in MSPIDs |-> Entry(infos, id)]
  BY Zenon DEF registry, Entry, Fields
<1>2. registry' = [id \in MSPIDs |-> Entry(infos', id)]
  BY DEF registry, Entry, Fields, HasMSPID, indexOfMSPID, First
<1>3. Init => Registry!Init
  BY <1>1, InitMSP, EntryType DEF MSPInv, Registry!Init, Registry!Registries
<1>4. MSPInv /\ MSPInv' /\ [Next]_vars => [Registry!Next]_registry
  <2>1. ASSUME UNCHANGED vars PROVE registry' = registry
    BY <2>1, <1>1, <1>2 DEF vars
  <2>2. ASSUME MSPInv, MSPInv', NEW h \in Headers, UpdateClient(h)
        PROVE  Registry!Next \/ registry' = registry
    <3>1. CASE h.msps = None
      <4>1. infos' = infos
        BY <2>2, <3>1 DEF UpdateClient, CheckHeaderAndUpdateState, update
      <4>. QED  BY <4>1, <1>1, <1>2, Zenon
    <3>2. CASE h.msps # None
      <4>. DEFINE mhs == h.msps
      <4>1. /\ mhs \in Seq(MSPHeaders) /\ MSPHeadersValidateBasic(mhs)
            /\ VerifyMSPHeaders(mhs) /\ infos' = After(infos, mhs, Len(mhs))
            /\ PartlyApplied(mhs, Len(mhs))
        BY <2>2, <3>2, AcceptedBatch, Zenon
      <4>. HIDE DEF mhs
      <4>2. registry' \in Registry!Registries
        BY <2>2, <1>2, EntryType, Zenon DEF MSPInv, Registry!Registries
      <4>3. ASSUME NEW id \in MSPIDs, registry'[id] # registry[id]
            PROVE  registry'[id] \in Registry!Successors(registry[id])
        <5>1. Entry(infos', id) # Entry(infos, id)
          BY <4>3, <1>1, <1>2, Zenon
        <5>2. PICK k \in 1 .. Len(mhs) : mhs[k].MSPID = id
          BY <4>1, <5>1, Zenon DEF PartlyApplied
        <5>3. Entry(infos', id) = Changed(Entry(infos, id), mhs[k])
          BY <4>1, <5>2, Zenon DEF PartlyApplied
        <5>4. /\ mhs[k] \in MSPHeaders /\ MSPHeaderValidateBasic(mhs[k])
              /\ VerifyMSPHeader(mhs[k])
          BY <4>1 DEF MSPHeadersValidateBasic, VerifyMSPHeaders
        <5>. QED  BY <2>2, <1>1, <1>2, <5>2, <5>3, <5>4, ChangedSucceeds, Zenon
      <4>. QED  BY <4>2, <4>3, Zenon DEF Registry!Next
    <3>. QED  BY <3>1, <3>2
  <2>. QED  BY <2>1, <2>2 DEF Next
<1>5. MSPInv /\ [Next]_vars => MSPInv'
  BY NextMSP, Zenon
<1>. HIDE DEF registry
<1>. QED  BY <1>3, <1>4, <1>5, InitMSP, PTL DEF Spec, ImplementsRegistry, Registry!Spec

\* The MSPs of is and js, their policies and which of them are frozen are the same.
SameMSPs(is, js) ==
  /\ DOMAIN js = DOMAIN is
  /\ \A i \in DOMAIN is :
       /\ js[i].MSPID = is[i].MSPID
       /\ js[i].policy = is[i].policy
       /\ js[i].freezed = is[i].freezed

\* A batch of configuration updates changes nothing else.
LEMMA ConfigBatch ==
  ASSUME MSPInv, NEW mhs \in Seq(MSPHeaders),
         MSPHeadersValidateBasic(mhs), VerifyMSPHeaders(mhs),
         \A i \in DOMAIN mhs : mhs[i].type = "UpdateConfig"
  PROVE  SameMSPs(infos, After(infos, mhs, Len(mhs)))
<1>. DEFINE Bad == {n \in 0 .. Len(mhs) : ~ SameMSPs(infos, After(infos, mhs, n))}
<1>. SUFFICES ASSUME Bad # {} PROVE FALSE
  <2>1. Len(mhs) \in 0 .. Len(mhs)
    OBVIOUS
  <2>. QED  BY <2>1, Zenon
<1>1. PICK n \in Bad : \A k \in Bad : n <= k
  <2>1. Bad \subseteq Nat
    OBVIOUS
  <2>. HIDE DEF Bad
  <2>. QED  BY <2>1, NatMin, Zenon
<1>2. n # 0
  BY <1>1, AfterSteps, ZenonT(30) DEF SameMSPs
<1>3. n \in 1 .. Len(mhs) /\ n - 1 \in 0 .. Len(mhs)
  BY <1>1, <1>2
<1>4. n - 1 \notin Bad
  <2>. HIDE DEF Bad
  <2>. QED  BY <1>1, <1>3
<1>. DEFINE is == After(infos, mhs, n - 1)
            idx == indexOfMSPID(is, mhs[n].MSPID)
<1>5. SameMSPs(infos, is) /\ is \in Seq(MSPInfos)
  BY <1>3, <1>4, BatchApplied, Zenon DEF MSPInv, PartlyApplied
<1>6. After(infos, mhs, n) = [is EXCEPT ![idx].config = mhs[n].config]
  <2>1. After(infos, mhs, n) = updateMSPInfo(is, mhs[n])
    BY <1>3, AfterSteps, ZenonT(60)
  <2>2. mhs[n].type = "UpdateConfig"
    <3>1. n \in DOMAIN mhs
      BY <1>3
    <3>. QED  BY <3>1, Zenon
  <2>. HIDE DEF is
  <2>3. updateMSPInfo(is, mhs[n]) = [is EXCEPT ![idx].config = mhs[n].config]
    BY <2>2 DEF updateMSPInfo
  <2>. QED  BY <2>1, <2>3, Zenon
<1>. HIDE DEF is, idx
<1>7. \A i \in DOMAIN is : is[i] \in MSPInfos
  BY <1>5
<1>8. SameMSPs(is, After(infos, mhs, n))
  BY <1>6, <1>7 DEF SameMSPs, MSPInfos
<1>9. SameMSPs(infos, After(infos, mhs, n))
  BY <1>5, <1>8, Zenon DEF SameMSPs
<1>. QED  BY <1>1, <1>9, Zenon

\* A message is accepted only while the MSPs that are set up satisfy its policy.
LEMMA Governed ==
  ASSUME NEW policy, NEW proof, VerifyEndorsedMessage(policy, proof)
  PROVE  Satisfiable(policy)
<1>1. PICK S \in policy : GetMSPPBConfigs(infos) /\ S \subseteq SigningMSPs(infos, proof)
  BY Zenon DEF VerifyEndorsedMessage, EvaluateSignedData
<1>2. \A c \in setupVerifyingMSPManager(infos) :
         \E i \in Active(infos) : infos[i].config = c /\ infos[i].config # Broken
  BY <1>1, Zenon DEF setupVerifyingMSPManager, GetMSPPBConfigs
<1>3. SigningMSPs(infos, proof)
        \subseteq {infos[i].config.name : i \in {j \in Active(infos) : infos[j].config # Broken}}
  BY <1>2, Zenon DEF SigningMSPs
<1>. QED  BY <1>1, <1>3, Zenon DEF Satisfiable

\* While the MSPs that the configs in force set up cannot satisfy the IBC policy, the
\* chaincode description, the set of MSPs in force and their policies do not change;
\* when they can satisfy no policy of an MSP in force either, nothing but the
\* sequence ever changes again (verifyMSPUpdateConfig and its siblings).
THEOREM UngovernedIsFixed == Spec => UngovernedStaysFixed
<1>. DEFINE Lost == ~ Satisfiable(ccInfo.ibc)
            Stuck == \A i \in Active(infos) : ~ Satisfiable(infos[i].policy)
            Kept == /\ ccInfo' = ccInfo
                    /\ ActiveMSPs(infos') = ActiveMSPs(infos)
                    /\ \A i \in DOMAIN infos : infos'[i].policy = infos[i].policy
                    /\ Stuck => infos' = infos
<1>1. ASSUME MSPInv, NEW h \in Headers, UpdateClient(h), Lost PROVE Kept
  <2>1. ccInfo' = ccInfo
    <3>1. h.info = None
      BY <1>1, Governed, Zenon DEF UpdateClient, CheckHeaderAndUpdateState, checkValidity,
                            VerifyChaincodeInfo
    <3>. QED  BY <1>1, <3>1, Zenon DEF UpdateClient, CheckHeaderAndUpdateState, update
  <2>2. CASE h.msps = None
    BY <1>1, <2>1, <2>2, Zenon DEF UpdateClient, CheckHeaderAndUpdateState, update
  <2>3. CASE h.msps # None
    <3>. DEFINE mhs == h.msps
    <3>1. /\ mhs \in Seq(MSPHeaders) /\ MSPHeadersValidateBasic(mhs)
          /\ VerifyMSPHeaders(mhs) /\ infos' = After(infos, mhs, Len(mhs))
      BY <1>1, <2>3, AcceptedBatch, Zenon
    <3>. HIDE DEF mhs
    <3>2. ASSUME NEW i \in DOMAIN mhs
          PROVE  mhs[i].type = "UpdateConfig" /\ verifyMSPUpdateConfig(mhs[i])
      <4>1. mhs[i] \in MSPHeaders /\ VerifyMSPHeader(mhs[i])
        BY <3>1 DEF VerifyMSPHeaders
      <4>2. mhs[i].type \in {"Create", "UpdateConfig", "UpdatePolicy", "Freeze"}
        BY <4>1 DEF MSPHeaders
      <4>. QED  BY <1>1, <4>1, <4>2, Governed, Zenon
                DEF VerifyMSPHeader, verifyMSPCreate, verifyMSPUpdatePolicy, verifyMSPFreeze
    <3>3. SameMSPs(infos, infos')
      BY <1>1, <3>1, <3>2, ConfigBatch, Zenon
    <3>4. ASSUME Stuck PROVE infos' = infos
      <4>1. DOMAIN mhs = {}
        <5>. SUFFICES ASSUME NEW i \in DOMAIN mhs PROVE FALSE
          OBVIOUS
        <5>. DEFINE idx == indexOfMSPID(infos, mhs[i].MSPID)
        <5>1. /\ HasMSPID(infos, mhs[i].MSPID) /\ ~ infos[idx].freezed
              /\ Satisfiable(infos[idx].policy)
          BY <3>2, Governed, Zenon DEF verifyMSPUpdateConfig, Changeable
        <5>2. idx \in DOMAIN infos
          BY <1>1, <5>1, IndexOf, Zenon DEF MSPInv
        <5>. QED  BY <3>4, <5>1, <5>2, Zenon DEF Active
      <4>2. Len(mhs) = 0
        BY <3>1, <4>1
      <4>. QED  BY <3>1, <4>2, AfterSteps, Zenon
    <3>. QED  BY <2>1, <3>3, <3>4 DEF SameMSPs, ActiveMSPs, Active
  <2>. QED  BY <2>2, <2>3
<1>2. MSPInv /\ [Next]_vars => [Lost => Kept]_vars
  BY <1>1 DEF Next
<1>. QED  BY <1>2, InitMSP, NextMSP, PTL DEF Spec, UngovernedStaysFixed
------------------------------------------------------------------------------
(* The consensus states *)

\* The part of the state that the argument is about, with its types.
ConsensusInv ==
  /\ sequence \in Sequences
  /\ consensus \in [Heights -> Times \cup {None}]
  /\ ConsensusContiguous

USE TimesAssumption, HeightAssumption, NoneAssumption

\* What an accepted header does to the latest sequence and the client store.
LEMMA UpdateClientEffect ==
  ASSUME ConsensusInv, NEW h \in Headers, UpdateClient(h)
  PROVE  /\ sequence' \in Sequences
         /\ sequence'.value = sequence.value + 1
         /\ sequence'.timestamp > sequence.timestamp
         /\ consensus' = [consensus EXCEPT ![sequence.value + 1] = sequence'.timestamp]
<1>1. h.cc # None /\ h.cc.sequence \in Sequences
  BY HeadersAssumption DEF UpdateClient
<1>2. FollowsLatest(h.cc.sequence)
  BY <1>1 DEF UpdateClient, CheckHeaderAndUpdateState, checkValidity
<1>3. sequence' = h.cc.sequence
  BY <1>1, Zenon DEF UpdateClient, CheckHeaderAndUpdateState, update
<1>. QED  BY <1>1, <1>2, <1>3 DEF UpdateClient, FollowsLatest

\* A new client has one consensus state.
LEMMA InitConsensus == Init => ConsensusInv
<1>. SUFFICES ASSUME NEW h \in Genesis, CreateClient(h) PROVE ConsensusInv
  BY DEF Init
<1>1. /\ sequence \in Sequences
      /\ sequence.value \in Heights /\ sequence.timestamp \in Times
      /\ sequence.value \in Nat \ {0}
  BY HeadersAssumption DEF CreateClient, Sequences, Heights
<1>2. consensus = [v \in Heights |-> IF v = sequence.value
                                     THEN sequence.timestamp ELSE None]
  BY Zenon DEF CreateClient
<1>3. ConsensusContiguous
  <2>1. sequence.value \in 1 .. sequence.value
    BY <1>1
  <2>2. \A v \in Heights : consensus[v] # None <=> v \in sequence.value .. sequence.value
    BY <1>1, <1>2 DEF Heights
  <2>3. consensus[sequence.value] = sequence.timestamp
    BY <1>1, <1>2
  <2>4. \A v, w \in sequence.value .. sequence.value : v < w => consensus[v] < consensus[w]
    BY <1>1
  <2>. QED  BY <2>1, <2>2, <2>3, <2>4 DEF ConsensusContiguous
<1>. QED  BY <1>1, <1>2, <1>3 DEF ConsensusInv

\* An accepted header adds one consensus state behind the latest.
LEMMA NextConsensus == ConsensusInv /\ [Next]_vars => ConsensusInv'
<1>1. CASE UNCHANGED vars
  BY <1>1 DEF vars, ConsensusInv, ConsensusContiguous
<1>2. ASSUME ConsensusInv, NEW h \in Headers, UpdateClient(h) PROVE ConsensusInv'
  <2>. DEFINE n == sequence.value
  <2>1. /\ sequence' \in Sequences
        /\ sequence'.value = n + 1
        /\ sequence'.timestamp > sequence.timestamp
        /\ consensus' = [consensus EXCEPT ![n + 1] = sequence'.timestamp]
    BY <1>2, UpdateClientEffect
  <2>2. /\ n \in Heights /\ sequence.timestamp \in Times /\ sequence.timestamp \in Int
        /\ n + 1 \in Heights /\ sequence'.timestamp \in Times /\ sequence'.timestamp \in Int
        /\ n \in Nat
    <3>1. n \in Heights /\ sequence.timestamp \in Times
      BY <1>2 DEF ConsensusInv, Sequences
    <3>2. n + 1 \in Heights /\ sequence'.timestamp \in Times
      BY <2>1 DEF Sequences
    <3>3. sequence.timestamp \in Int /\ sequence'.timestamp \in Int
      BY <3>1, <3>2, Zenon
    <3>4. n \in Nat
      BY <3>1 DEF Heights
    <3>. QED  BY <3>1, <3>2, <3>3, <3>4
  <2>3. /\ consensus' \in [Heights -> Times \cup {None}]
        /\ consensus'[n + 1] = sequence'.timestamp
        /\ \A v \in Heights : v # n + 1 => consensus'[v] = consensus[v]
    BY <1>2, <2>1, <2>2, Zenon DEF ConsensusInv
  <2>4. PICK first \in 1 .. n :
          /\ \A v \in Heights : consensus[v] # None <=> v \in first .. n
          /\ consensus[n] = sequence.timestamp
          /\ \A v, w \in first .. n : v < w => consensus[v] < consensus[w]
    BY <1>2 DEF ConsensusInv, ConsensusContiguous
  <2>5. first \in 1 .. n + 1 /\ \A v \in first .. n + 1 : v \in Heights
    BY <2>2 DEF Heights
  <2>6. \A v \in Heights : consensus'[v] # None <=> v \in first .. n + 1
    <3>. SUFFICES ASSUME NEW v \in Heights
                  PROVE  consensus'[v] # None <=> v \in first .. n + 1
      BY Zenon
    <3>1. CASE v = n + 1
      BY <2>2, <2>3, <2>5, <3>1
    <3>2. CASE v # n + 1
      <4>1. v \in first .. n + 1 <=> v \in first .. n
        BY <2>2, <3>2 DEF Heights
      <4>. QED  BY <2>3, <2>4, <3>2, <4>1, Zenon
    <3>. QED  BY <3>1, <3>2, Zenon
  <2>7. ASSUME NEW v \in first .. n + 1, NEW w \in first .. n + 1, v < w
        PROVE  consensus'[v] < consensus'[w]
    <3>1. v \in first .. n /\ consensus'[v] = consensus[v]
      BY <2>2, <2>3, <2>5, <2>7
    <3>2. CASE w # n + 1
      BY <2>2, <2>3, <2>4, <2>5, <2>7, <3>1, <3>2
    <3>3. CASE w = n + 1
      <4>1. CASE v = n
        BY <2>1, <2>3, <2>4, <3>1, <3>3, <4>1, Zenon
      <4>2. CASE v # n
        <5>1. n \in first .. n /\ v < n
          BY <2>2, <3>1, <4>2
        <5>2. consensus[v] < sequence.timestamp
          BY <2>4, <3>1, <5>1
        <5>3. consensus[v] \in Int
          BY <1>2, <2>4, <2>5, <3>1, Zenon DEF ConsensusInv
        <5>. QED  BY <2>1, <2>2, <2>3, <3>1, <3>3, <5>2, <5>3
      <4>. QED  BY <4>1, <4>2, Zenon
    <3>. QED  BY <3>2, <3>3, Zenon
  <2>. QED  BY <2>1, <2>3, <2>5, <2>6, <2>7 DEF ConsensusInv, ConsensusContiguous
<1>. QED  BY <1>1, <1>2 DEF Next

\* The consensus states cover every height from the first to the latest, with
\* strictly increasing timestamps.
THEOREM ConsensusCorrect == Spec => []ConsensusContiguous
<1>1. ConsensusInv => ConsensusContiguous
  BY DEF ConsensusInv
<1>. QED  BY <1>1, InitConsensus, NextConsensus, PTL DEF Spec

\* No consensus state is ever overwritten.
THEOREM ConsensusNeverOverwritten == Spec => ConsensusImmutable
<1>. DEFINE Kept == \A v \in Heights : consensus[v] # None => consensus'[v] = consensus[v]
<1>1. ASSUME ConsensusInv, [Next]_vars PROVE [Kept]_vars
  <2>. SUFFICES ASSUME NEW h \in Headers, UpdateClient(h), NEW v \in Heights, consensus[v] # None
                PROVE  consensus'[v] = consensus[v]
    BY <1>1, Zenon DEF Next
  <2>1. consensus' = [consensus EXCEPT ![sequence.value + 1] = sequence'.timestamp]
    BY <1>1, UpdateClientEffect, Zenon
  <2>2. v <= sequence.value /\ sequence.value \in Nat
    BY <1>1 DEF ConsensusInv, ConsensusContiguous, Sequences, Heights
  <2>. QED  BY <1>1, <2>1, <2>2 DEF ConsensusInv, Heights
<1>. QED  BY <1>1, InitConsensus, NextConsensus, PTL DEF Spec, ConsensusImmutable

\* A config that cannot be set up stops the client for good, for every set of
\* headers: each update needs a sequence (GetHeight), whose endorsements are only
\* evaluated after all MSPs in force have been set up (GetMSPPBConfigs).
THEOREM BrokenConfigStops == Spec => BrokenConfigStopsClient
<1>. DEFINE Sound == \A i \in DOMAIN infos : infos[i].freezed \/ infos[i].config # Broken
<1>1. ASSUME [Next]_vars PROVE [Sound]_vars
  <2>. SUFFICES ASSUME NEW h \in Headers, UpdateClient(h) PROVE Sound
    BY <1>1 DEF Next
  <2>1. VerifyChaincodeHeader(h.cc)
    BY Zenon DEF UpdateClient, CheckHeaderAndUpdateState, checkValidity
  <2>2. GetMSPPBConfigs(infos)
    BY <2>1, Zenon DEF VerifyChaincodeHeader, VerifyEndorsedCommitment, EvaluateSignedData
  <2>. QED  BY <2>2 DEF GetMSPPBConfigs, Active
<1>. QED  BY <1>1, PTL DEF Spec, BrokenConfigStopsClient
------------------------------------------------------------------------------
(* Headers between the chain and the client *)

\* What relayers hold was endorsed for a sequence of the log.
EndorsedFromLog ==
  \A proof \in endorsed :
    /\ proof.value.value \in DOMAIN log
    /\ proof = SequenceProof(proof.value.value, proof.ccid)

LogSpaced == \A i, j \in DOMAIN log : i < j => log[i] + MinTimeInterval <= log[j]

RelayInv ==
  /\ RelayTypeOK
  /\ Len(log) \in Heights
  /\ LogSpaced
  /\ EndorsedFromLog
  /\ sequence.value \in DOMAIN log /\ sequence.timestamp = log[sequence.value]
  /\ ClientFollowsLog
  /\ ccInfo.id <= deployed
  /\ EvaluateSignedData(ccInfo.endorsement, infos, Endorsers)

USE VersionsAssumption, IntervalAssumption

\* The log of a new chain has the sequence that the client is created from.
LEMMA InitRelayInv == RelayInit => RelayInv
<1>. SUFFICES ASSUME NEW h \in Genesis, CreateClient(h),
                     log = << h.cc.sequence.timestamp >>, deployed = h.info.id,
                     endorsed = {}
              PROVE  RelayInv
  BY DEF RelayInit
<1>1. sequence \in Sequences /\ sequence = h.cc.sequence /\ sequence.value = 1
  BY HeadersAssumption, GenesisAssumption, Zenon DEF CreateClient
<1>2. sequence.timestamp \in Times /\ 1 \in Heights
  BY <1>1, Zenon DEF Sequences, Heights
<1>3. /\ log \in Seq(Times) /\ Len(log) = 1 /\ DOMAIN log = {1}
      /\ log[1] = sequence.timestamp
  BY <1>1, <1>2
<1>4. ccInfo \in ChaincodeInfos /\ deployed = ccInfo.id /\ deployed \in ChaincodeIDs
  BY GenesisAssumption, Zenon DEF CreateClient, ChaincodeInfos
<1>5. infos \in Seq(MSPInfos) /\ EvaluateSignedData(ccInfo.endorsement, infos, Endorsers)
  BY GenesisAssumption, Zenon DEF CreateClient
<1>6. consensus = [v \in Heights |-> IF v = 1 THEN sequence.timestamp ELSE None]
  BY <1>1, Zenon DEF CreateClient
<1>7. RelayTypeOK
  BY <1>1, <1>2, <1>3, <1>4, <1>5, <1>6, Zenon DEF RelayTypeOK, TypeOK
<1>8. ClientFollowsLog
  BY <1>3, <1>6, Zenon DEF ClientFollowsLog, GetSelfConsensusState
<1>9. ccInfo.id <= deployed
  <2>1. deployed \in Nat
    BY <1>4, Zenon
  <2>. QED  BY <1>4, <2>1
<1>. QED
  BY <1>1, <1>2, <1>3, <1>5, <1>7, <1>8, <1>9 DEF RelayInv, LogSpaced, EndorsedFromLog

\* Appending keeps what the log had.
LEMMA UpdateSequenceRelayInv ==
  ASSUME RelayInv, NEW tm \in Times, UpdateSequence(tm)
  PROVE  RelayInv'
<1>. DEFINE n == Len(log)
<1>1. /\ log \in Seq(Times) /\ n \in Nat \ {0} /\ n < MaxHeight
      /\ log' = Append(log, tm) /\ tm >= log[n] + MinTimeInterval
      /\ UNCHANGED << sequence, ccInfo, infos, consensus, deployed, endorsed >>
  BY DEF RelayInv, RelayTypeOK, UpdateSequence, Chain!Advance, vars, Heights
<1>2. /\ log' \in Seq(Times) /\ Len(log') = n + 1
      /\ DOMAIN log = 1 .. n /\ DOMAIN log' = 1 .. n + 1
      /\ log'[n + 1] = tm
      /\ \A i \in 1 .. n : log'[i] = log[i]
  BY <1>1
<1>3. \A i \in 1 .. n : log[i] \in Int
  <2>1. \A i \in 1 .. n : log[i] \in Times
    BY <1>1
  <2>. QED  BY <2>1, Zenon
<1>4. LogSpaced'
  <2>. SUFFICES ASSUME NEW i \in 1 .. n + 1, NEW j \in 1 .. n + 1, i < j
                PROVE  log'[i] + MinTimeInterval <= log'[j]
    BY <1>2, Zenon DEF LogSpaced
  <2>1. CASE j \in 1 .. n
    BY <1>1, <1>2, <2>1 DEF RelayInv, LogSpaced
  <2>2. CASE j = n + 1
    <3>1. i \in 1 .. n /\ log'[i] = log[i] /\ log'[j] = tm
      BY <1>1, <1>2, <2>2
    <3>2. log[i] <= log[n]
      <4>1. CASE i = n
        BY <1>1, <1>3, <3>1, <4>1
      <4>2. CASE i # n
        <5>1. n \in 1 .. n /\ i < n
          BY <1>1, <3>1, <4>2
        <5>2. log[i] + MinTimeInterval <= log[n]
          BY <1>2, <3>1, <5>1, Zenon DEF RelayInv, LogSpaced
        <5>. QED  BY <1>3, <3>1, <5>1, <5>2
      <4>. QED  BY <4>1, <4>2, Zenon
    <3>3. tm \in Int /\ log[n] \in Int /\ log[i] \in Int
      BY <1>1, <1>3, <3>1
    <3>. QED  BY <1>1, <3>1, <3>2, <3>3
  <2>. QED  BY <1>1, <2>1, <2>2
<1>5. EndorsedFromLog'
  <2>. SUFFICES ASSUME NEW proof \in endorsed
                PROVE  /\ proof.value.value \in DOMAIN log'
                       /\ proof = SequenceProof(proof.value.value, proof.ccid)'
    BY <1>1 DEF EndorsedFromLog
  <2>1. proof.value.value \in 1 .. n /\ proof = SequenceProof(proof.value.value, proof.ccid)
    BY <1>2, Zenon DEF RelayInv, EndorsedFromLog
  <2>2. log'[proof.value.value] = log[proof.value.value]
    BY <1>2, <2>1, Zenon
  <2>. QED  BY <1>1, <1>2, <2>1, <2>2 DEF SequenceProof
<1>6. ClientFollowsLog'
  BY <1>1, <1>2 DEF RelayInv, ClientFollowsLog, GetSelfConsensusState
<1>7. RelayTypeOK'
  BY <1>1, <1>2, Zenon DEF RelayInv, RelayTypeOK, TypeOK
<1>8. sequence'.value \in DOMAIN log' /\ sequence'.timestamp = log'[sequence'.value]
  BY <1>1, <1>2 DEF RelayInv
<1>9. Len(log') \in Heights
  BY <1>1, <1>2 DEF Heights
<1>. QED
  BY <1>1, <1>4, <1>5, <1>6, <1>7, <1>8, <1>9, ZenonT(30) DEF RelayInv

\* An upgrade changes nothing else.
LEMMA UpgradeRelayInv ==
  ASSUME RelayInv, UpgradeChaincode
  PROVE  RelayInv'
<1>1. /\ deployed' = deployed + 1 /\ deployed' \in ChaincodeIDs
      /\ UNCHANGED << sequence, ccInfo, infos, consensus, log, endorsed >>
  BY DEF UpgradeChaincode, vars
<1>2. ccInfo.id \in Nat /\ deployed \in Nat /\ ccInfo.id <= deployed
  BY Zenon DEF RelayInv, RelayTypeOK, TypeOK, ChaincodeInfos
<1>3. RelayTypeOK'
  BY <1>1 DEF RelayInv, RelayTypeOK, TypeOK
<1>4. ccInfo'.id <= deployed'
  BY <1>1, <1>2
<1>5. LogSpaced' /\ EndorsedFromLog' /\ ClientFollowsLog'
  BY <1>1, Zenon DEF RelayInv, LogSpaced, EndorsedFromLog, SequenceProof, ClientFollowsLog,
              GetSelfConsensusState
<1>. QED  BY <1>1, <1>3, <1>4, <1>5, Zenon DEF RelayInv

\* The endorsement of a sequence is one of the log.
LEMMA EndorseRelayInv ==
  ASSUME RelayInv, NEW v \in Heights, EndorseSequenceCommitment(v)
  PROVE  RelayInv'
<1>. DEFINE new == SequenceProof(v, deployed)
<1>1. /\ v \in DOMAIN log /\ endorsed' = endorsed \cup {new}
      /\ UNCHANGED << sequence, ccInfo, infos, consensus, log, deployed >>
  BY Zenon DEF EndorseSequenceCommitment, vars, chainVars
<1>2. log[v] \in Times /\ deployed \in ChaincodeIDs
  BY <1>1 DEF RelayInv, RelayTypeOK
<1>3. new \in SequenceProofs /\ new.value.value = v /\ new.ccid = deployed
  BY <1>2, Zenon DEF SequenceProof, SequenceProofs, Sequences
<1>. HIDE DEF new
<1>4. RelayTypeOK'
  BY <1>1, <1>3, Zenon DEF RelayInv, RelayTypeOK, TypeOK
<1>5. EndorsedFromLog'
  <2>. SUFFICES ASSUME NEW proof \in endorsed'
                PROVE  /\ proof.value.value \in DOMAIN log
                       /\ proof = SequenceProof(proof.value.value, proof.ccid)
    BY <1>1, Zenon DEF EndorsedFromLog, SequenceProof
  <2>1. CASE proof \in endorsed
    BY <2>1, Zenon DEF RelayInv, EndorsedFromLog
  <2>2. CASE proof = new
    BY <1>1, <1>3, <2>2, Zenon DEF new
  <2>. QED  BY <1>1, <2>1, <2>2, Zenon
<1>6. LogSpaced' /\ ClientFollowsLog'
  BY <1>1 DEF RelayInv, LogSpaced, ClientFollowsLog, GetSelfConsensusState
<1>. QED  BY <1>1, <1>4, <1>5, <1>6, Zenon DEF RelayInv

\* The part of a header that carries a proof of a sequence.
LEMMA HeaderOfProof ==
  ASSUME NEW proof \in SequenceProofs
  PROVE  [sequence |-> proof.value, proof |-> proof]
           \in [sequence : Sequences, proof : SequenceProofs]
<1>1. proof.value \in Sequences
  BY DEF SequenceProofs
<1>. QED  BY <1>1, Zenon

\* What an accepted submission does to the client.
LEMMA SubmitEffect ==
  ASSUME RelayInv, NEW proof \in endorsed, NEW info, Submit(proof, info)
  PROVE  /\ proof \in SequenceProofs
         /\ proof.ccid = ccInfo.id
         /\ proof.value.value = sequence.value + 1
         /\ proof.value.value \in DOMAIN log
         /\ proof.value.timestamp = log[proof.value.value]
         /\ sequence' = proof.value
         /\ consensus' = [consensus EXCEPT ![proof.value.value] = proof.value.timestamp]
         /\ infos' = infos
         /\ UNCHANGED << log, deployed, endorsed >>
<1>. DEFINE h == UpdateHeader(proof, info)
<1>1. proof \in SequenceProofs
  BY DEF RelayInv, RelayTypeOK
<1>2. /\ proof.value.value \in DOMAIN log
      /\ proof = SequenceProof(proof.value.value, proof.ccid)
  BY Zenon DEF RelayInv, EndorsedFromLog
<1>3. proof.value.timestamp = log[proof.value.value]
  BY <1>2 DEF SequenceProof
<1>4. h.cc = [sequence |-> proof.value, proof |-> proof] /\ h.info = info /\ h.msps = None
  BY Zenon DEF UpdateHeader
<1>5. h.cc \in [sequence : Sequences, proof : SequenceProofs]
  BY <1>1, <1>4, HeaderOfProof, Zenon
<1>6. h.cc # None
  BY <1>5, NoHeaderAssumption, Zenon
<1>7. UpdateClient(h) /\ UNCHANGED << log, deployed, endorsed >>
  BY DEF Submit, chainVars
<1>. HIDE DEF h
<1>8. checkValidity(h) /\ update(h)
  BY <1>7 DEF UpdateClient, CheckHeaderAndUpdateState
<1>9. FollowsLatest(h.cc.sequence) /\ VerifyChaincodeHeader(h.cc)
  BY <1>6, <1>8, ZenonT(30) DEF checkValidity
<1>. h.cc.sequence = proof.value /\ h.cc.proof = proof
  <2>1. [sequence |-> proof.value, proof |-> proof].sequence = proof.value
    BY Zenon
  <2>2. [sequence |-> proof.value, proof |-> proof].proof = proof
    BY Zenon
  <2>. QED  BY <1>4, <2>1, <2>2, Zenon
<1>10. proof.value.value = sequence.value + 1
  BY <1>9, Zenon DEF FollowsLatest
<1>11. proof.ccid = ccInfo.id
  BY <1>9, Zenon DEF VerifyChaincodeHeader, VerifyEndorsedCommitment
<1>12. sequence' = proof.value /\ infos' = infos
  <2>1. /\ sequence' = IF h.cc # None THEN h.cc.sequence ELSE sequence
        /\ infos' = IF h.msps # None THEN updateMSPInfos(infos, h.msps) ELSE infos
    BY <1>8, Zenon DEF update
  <2>. QED  BY <1>4, <1>6, <2>1, Zenon
<1>13. consensus' = [consensus EXCEPT ![proof.value.value] = proof.value.timestamp]
  BY <1>4, <1>7 DEF UpdateClient
<1>. QED  BY <1>1, <1>2, <1>3, <1>7, <1>10, <1>11, <1>12, <1>13, Zenon

\* The description of the chaincode stays, or becomes the deployed one.
LEMMA SubmitInfo ==
  ASSUME RelayInv, NEW proof \in endorsed,
         Submit(proof, None) \/ Submit(proof, DeployedInfo)
  PROVE  /\ ccInfo' \in ChaincodeInfos
         /\ ccInfo'.endorsement = ccInfo.endorsement
         /\ ccInfo'.id \in {ccInfo.id, deployed}
<1>1. ccInfo \in ChaincodeInfos /\ deployed \in ChaincodeIDs
  BY Zenon DEF RelayInv, RelayTypeOK, TypeOK
<1>2. CASE Submit(proof, None)
  <2>1. ccInfo' = ccInfo
    BY <1>2, Zenon DEF Submit, UpdateClient, CheckHeaderAndUpdateState, update, UpdateHeader
  <2>. QED  BY <1>1, <2>1
<1>3. CASE Submit(proof, DeployedInfo)
  <2>1. \/ ccInfo' = ccInfo
        \/ ccInfo' = [id |-> DeployedInfo.id, endorsement |-> DeployedInfo.endorsement,
                      ibc |-> DeployedInfo.ibc]
    BY <1>3, Zenon DEF Submit, UpdateClient, CheckHeaderAndUpdateState, update, UpdateHeader
  <2>2. /\ DeployedInfo.id = deployed /\ DeployedInfo.endorsement = ccInfo.endorsement
        /\ DeployedInfo.ibc = ccInfo.ibc
    BY Zenon DEF DeployedInfo
  <2>3. /\ ccInfo = [id |-> ccInfo.id, endorsement |-> ccInfo.endorsement, ibc |-> ccInfo.ibc]
        /\ [id |-> deployed, endorsement |-> ccInfo.endorsement, ibc |-> ccInfo.ibc] \in ChaincodeInfos
    BY <1>1 DEF ChaincodeInfos
  <2>4. \/ ccInfo' = ccInfo
        \/ ccInfo' = [id |-> deployed, endorsement |-> ccInfo.endorsement, ibc |-> ccInfo.ibc]
    BY <2>1, <2>2, Zenon
  <2>. QED  BY <1>1, <2>3, <2>4
<1>. QED  BY <1>2, <1>3, Zenon

\* An accepted submission adds the consensus state of the next sequence.
LEMMA SubmitRelayInv ==
  ASSUME RelayInv, NEW proof \in endorsed,
         Submit(proof, None) \/ Submit(proof, DeployedInfo)
  PROVE  RelayInv'
<1>. DEFINE v == proof.value.value
<1>1. /\ proof \in SequenceProofs
      /\ v \in DOMAIN log
      /\ proof.value.timestamp = log[v]
      /\ sequence' = proof.value
      /\ consensus' = [consensus EXCEPT ![v] = proof.value.timestamp]
      /\ infos' = infos
      /\ UNCHANGED << log, deployed, endorsed >>
  BY SubmitEffect, Zenon
<1>2. /\ ccInfo' \in ChaincodeInfos /\ ccInfo'.endorsement = ccInfo.endorsement
      /\ ccInfo'.id \in {ccInfo.id, deployed}
  BY SubmitInfo, Zenon
<1>3. proof.value \in Sequences /\ v \in Heights /\ proof.value.timestamp \in Times
  BY <1>1 DEF SequenceProofs, Sequences
<1>4. RelayTypeOK'
  BY <1>1, <1>2, <1>3, Zenon DEF RelayInv, RelayTypeOK, TypeOK
<1>5. ClientFollowsLog'
  BY <1>1, <1>3, Zenon DEF RelayInv, RelayTypeOK, TypeOK, ClientFollowsLog, GetSelfConsensusState
<1>6. ccInfo'.id <= deployed'
  <2>1. ccInfo.id <= deployed /\ deployed \in ChaincodeIDs
    BY Zenon DEF RelayInv, RelayTypeOK
  <2>2. deployed <= deployed
    BY <2>1
  <2>. QED  BY <1>1, <1>2, <2>1, <2>2, Zenon
<1>7. LogSpaced' /\ EndorsedFromLog'
  BY <1>1, Zenon DEF RelayInv, LogSpaced, EndorsedFromLog, SequenceProof
<1>. QED  BY <1>1, <1>2, <1>4, <1>5, <1>6, <1>7, Zenon DEF RelayInv

\* The invariant is inductive.
LEMMA NextRelayInv == RelayInv /\ [RelayNext]_relayVars => RelayInv'
<1>. SUFFICES ASSUME RelayInv, [RelayNext]_relayVars PROVE RelayInv'
  OBVIOUS
<1>1. CASE UNCHANGED relayVars
  <2>1. UNCHANGED << sequence, ccInfo, infos, consensus, log, deployed, endorsed >>
    BY <1>1, Zenon DEF relayVars, vars
  <2>. QED
    BY <2>1, Zenon DEF RelayInv, RelayTypeOK, TypeOK, LogSpaced, EndorsedFromLog, SequenceProof,
                ClientFollowsLog, GetSelfConsensusState
<1>2. CASE RelayNext
  BY <1>2, UpdateSequenceRelayInv, UpgradeRelayInv, EndorseRelayInv, SubmitRelayInv, Zenon
     DEF RelayNext
<1>. QED  BY <1>1, <1>2, Zenon

\* Every reachable state satisfies the inductive invariant.
THEOREM RelayInvariance == RelaySpec => []RelayInv
BY InitRelayInv, NextRelayInv, PTL DEF RelaySpec

\* Type correctness of the chain, the client and the relayed commitments.
THEOREM RelayTypeCorrect == RelaySpec => []RelayTypeOK
<1>1. RelayInv => RelayTypeOK
  BY Zenon DEF RelayInv
<1>. QED  BY <1>1, RelayInvariance, PTL

\* The client never runs ahead of its chain and never disagrees with it
\* (checkValidity, GetSelfConsensusState).
THEOREM ClientFollows == RelaySpec => []ClientFollowsLog
<1>1. RelayInv => ClientFollowsLog
  BY DEF RelayInv
<1>. QED  BY <1>1, RelayInvariance, PTL

\* With a minimum interval of a second or more, a proof of the next sequence by
\* the version that the client knows is accepted whenever it arrives
\* (checkValidity, Config.MinTimeInterval).
THEOREM NextAccepted ==
  ASSUME MinTimeInterval > 0
  PROVE  RelaySpec => []NextHeaderAccepted
<1>1. ASSUME RelayInv PROVE NextHeaderAccepted
  <2>. SUFFICES ASSUME NEW proof \in endorsed, proof.value.value = sequence.value + 1,
                       proof.ccid = ccInfo.id
                PROVE  checkValidity(UpdateHeader(proof, None))
    BY Zenon DEF NextHeaderAccepted
  <2>. DEFINE v == sequence.value
              h == UpdateHeader(proof, None)
  <2>1. /\ h.cc = [sequence |-> proof.value, proof |-> proof]
        /\ h.info = None /\ h.msps = None
    BY Zenon DEF UpdateHeader
  <2>2. proof \in SequenceProofs
    BY <1>1, Zenon DEF RelayInv, RelayTypeOK
  <2>3. h.cc # None
    <3>1. h.cc \in [sequence : Sequences, proof : SequenceProofs]
      BY <2>1, <2>2, HeaderOfProof, Zenon
    <3>. QED  BY <3>1, NoHeaderAssumption, ZenonT(30)
  <2>4. v + 1 \in DOMAIN log /\ proof = SequenceProof(v + 1, proof.ccid)
    BY <1>1, Zenon DEF RelayInv, EndorsedFromLog
  <2>5. /\ proof.signers = Endorsers /\ proof.key = SequenceKey(v + 1)
        /\ proof.value.timestamp = log[v + 1]
    BY <2>4 DEF SequenceProof
  <2>6. v \in DOMAIN log /\ sequence.timestamp = log[v] /\ log \in Seq(Times)
    BY <1>1, Zenon DEF RelayInv, RelayTypeOK
  <2>7. log[v] \in Int /\ log[v + 1] \in Int /\ v \in Nat
    <3>1. log[v] \in Times /\ log[v + 1] \in Times
      BY <2>4, <2>6
    <3>2. \A x \in Times : x \in Int
      BY Zenon
    <3>3. v \in Nat
      BY <2>6
    <3>. QED  BY <3>1, <3>2, <3>3, Zenon
  <2>8. log[v] + MinTimeInterval <= log[v + 1]
    <3>1. LogSpaced
      BY <1>1, Zenon DEF RelayInv
    <3>. QED  BY <2>4, <2>6, <2>7, <3>1 DEF LogSpaced
  <2>9. FollowsLatest(proof.value)
    BY <2>5, <2>6, <2>7, <2>8 DEF FollowsLatest
  <2>10. VerifyChaincodeHeader(h.cc)
    <3>1. EvaluateSignedData(ccInfo.endorsement, infos, proof.signers)
      BY <1>1, <2>5, Zenon DEF RelayInv
    <3>2. VerifyEndorsedCommitment(proof, SequenceKey(proof.value.value), proof.value)
      BY <2>5, <3>1 DEF VerifyEndorsedCommitment
    <3>3. h.cc.sequence = proof.value /\ h.cc.proof = proof
      <4>1. [sequence |-> proof.value, proof |-> proof].sequence = proof.value
        BY Zenon
      <4>2. [sequence |-> proof.value, proof |-> proof].proof = proof
        BY Zenon
      <4>. QED  BY <2>1, <4>1, <4>2, Zenon
    <3>. QED  BY <3>2, <3>3, Zenon DEF VerifyChaincodeHeader
  <2>11. ValidateBasic(h)
    BY <2>1, <2>3, ZenonT(30) DEF ValidateBasic
  <2>. HIDE DEF h
  <2>12. checkValidity(h)
    BY <2>1, <2>9, <2>10, <2>11 DEF checkValidity
  <2>. QED  BY <2>12 DEF h
<1>. QED  BY <1>1, RelayInvariance, PTL

\* A client that has missed an upgrade of the chaincode stays behind for ever
\* (GetHeight, VerifyChaincodeHeader).
THEOREM StrandedStays == RelaySpec => StrandedForever
<1>. DEFINE Stays == Stranded => Stranded' /\ UNCHANGED vars
<1>1. ASSUME RelayInv, [RelayNext]_relayVars PROVE [Stays]_relayVars
  <2>. SUFFICES ASSUME RelayNext, Stranded PROVE Stranded' /\ UNCHANGED vars
    BY <1>1
  <2>1. /\ ccInfo.id \in Nat /\ deployed \in Nat
        /\ ccInfo.id <= deployed /\ ccInfo.id # deployed
    BY <1>1, Zenon DEF RelayInv, RelayTypeOK, TypeOK, ChaincodeInfos, Stranded
  <2>2. ASSUME NEW tm \in Times, UpdateSequence(tm) PROVE Stranded' /\ UNCHANGED vars
    BY <2>2, Zenon DEF UpdateSequence, vars, Stranded
  <2>3. CASE UpgradeChaincode
    BY <2>1, <2>3 DEF UpgradeChaincode, vars, Stranded
  <2>4. ASSUME NEW v \in Heights, EndorseSequenceCommitment(v)
        PROVE  Stranded' /\ UNCHANGED vars
    <3>1. /\ endorsed' = endorsed \cup {SequenceProof(v, deployed)}
          /\ UNCHANGED << vars, deployed >>
      BY <2>4 DEF EndorseSequenceCommitment, chainVars
    <3>2. SequenceProof(v, deployed).ccid # ccInfo.id
      BY <2>1, Zenon DEF SequenceProof
    <3>. QED  BY <3>1, <3>2, Zenon DEF Stranded, vars
  <2>5. ASSUME NEW proof \in endorsed, NEW info, Submit(proof, info) PROVE FALSE
    BY <1>1, <2>5, SubmitEffect, Zenon DEF Stranded
  <2>. QED  BY <2>2, <2>3, <2>4, <2>5, Zenon DEF RelayNext
<1>. QED  BY <1>1, RelayInvariance, PTL DEF RelaySpec, StrandedForever
------------------------------------------------------------------------------
(* Timeouts *)

\* A consensus state has the time of a sequence of the log, no later than the
\* current one.
LEMMA ConsensusInLog ==
  ASSUME RelayInv, NEW h \in Heights, consensus[h] # None
  PROVE  /\ h \in 1 .. Len(log) /\ Len(log) \in Nat /\ h \in Nat
         /\ consensus[h] \in Times /\ log[Len(log)] \in Times /\ log[1] \in Times
<1>1. log \in Seq(Times) /\ Len(log) \in Nat /\ DOMAIN log = 1 .. Len(log)
  BY DEF RelayInv, RelayTypeOK
<1>2. h \in DOMAIN log /\ consensus[h] = log[h]
  BY Zenon DEF RelayInv, ClientFollowsLog, GetSelfConsensusState
<1>. QED  BY <1>1, <1>2 DEF Heights

\* What the sender can take back the chain refuses (getBlockHeader,
\* GetTimestamp).
THEOREM TimeoutsAgree == RelaySpec => []NoEarlyTimeout
<1>1. ASSUME RelayInv PROVE NoEarlyTimeout
  <2>. SUFFICES ASSUME NEW t \in PacketTimeouts, NEW h \in Heights, TimedOutByClient(t, h)
                PROVE  RefusedByChain(t, Len(log))
    BY DEF NoEarlyTimeout
  <2>. DEFINE n == Len(log)
  <2>1. consensus[h] # None /\ Passed(t, h, consensus[h])
    BY Zenon DEF TimedOutByClient, GetTimestamp
  <2>2. /\ h \in 1 .. n /\ n \in Nat /\ h \in Nat
        /\ consensus[h] \in Times /\ log[n] \in Times
    BY <1>1, <2>1, ConsensusInLog, Zenon
  <2>3. t.height \in Nat /\ t.timestamp \in Nat
    BY TimeoutsAssumption
  <2>4. consensus[h] < log[n] * Nanoseconds
    BY <2>2, ScaleAssumption, Zenon
  <2>5. log[n] * Nanoseconds \in Int /\ consensus[h] \in Int
    <3>0. Nanoseconds \in Int
      BY ScaleAssumption
    <3>1. log[n] \in Int /\ consensus[h] \in Int
      BY <2>2, Zenon
    <3>. QED  BY <3>0, <3>1
  <2>6. Passed(t, n + 1, log[n] * Nanoseconds)
    <3>. DEFINE ns == log[n] * Nanoseconds
    <3>. HIDE DEF ns
    <3>1. ns \in Int /\ consensus[h] < ns
      BY <2>4, <2>5, Zenon DEF ns
    <3>2. Passed(t, n + 1, ns)
      BY <2>1, <2>2, <2>3, <2>5, <3>1 DEF Passed
    <3>. QED  BY <3>2 DEF ns
  <2>. QED  BY <2>6 DEF RefusedByChain, getBlockHeader
<1>. QED  BY <1>1, RelayInvariance, PTL

\* A timeout by timestamp alone is never reached by the client (GetTimestamp,
\* in seconds).
THEOREM TimestampTimeoutsIdle == RelaySpec => []TimestampsNeverTimeOut
<1>1. ASSUME RelayInv PROVE TimestampsNeverTimeOut
  <2>. SUFFICES ASSUME NEW t \in PacketTimeouts, NEW h \in Heights, t.height = 0,
                       ~ RefusedByChain(t, 1), TimedOutByClient(t, h)
                PROVE  FALSE
    BY DEF TimestampsNeverTimeOut
  <2>1. consensus[h] # None /\ t.timestamp # 0 /\ consensus[h] >= t.timestamp
    BY Zenon DEF TimedOutByClient, GetTimestamp, Passed
  <2>2. consensus[h] \in Times /\ log[1] \in Times /\ t.timestamp \in Nat
    BY <1>1, <2>1, ConsensusInLog, TimeoutsAssumption, Zenon
  <2>. DEFINE ns == log[1] * Nanoseconds
  <2>3. ns \in Int /\ consensus[h] < ns /\ consensus[h] \in Int
    <3>0. Nanoseconds \in Int
      BY ScaleAssumption
    <3>1. log[1] \in Int /\ consensus[h] \in Int
      BY <2>2, Zenon
    <3>2. consensus[h] < ns
      BY <2>2, ScaleAssumption, Zenon
    <3>. QED  BY <3>0, <3>1, <3>2
  <2>4. ~ (ns >= t.timestamp)
    BY <2>1 DEF RefusedByChain, getBlockHeader, Passed
  <2>. HIDE DEF ns
  <2>. QED  BY <2>1, <2>2, <2>3, <2>4
<1>. QED  BY <1>1, RelayInvariance, PTL
------------------------------------------------------------------------------
(* Proofs and their relay *)

\* The chain had value v under key k at height h or before.
CommittedBy(k, v, h) ==
  \E f \in history : f.key = k /\ f.value = v /\ f.height <= h

\* The chain still has value v under k, or is ahead of it, if k is of a kind
\* that can be relied on.
StillHolds(k, v) ==
  /\ k[1] \in WrittenOnce \ {"packetReceipt"} => store[k] = v
  /\ k[1] \in Advancing => store[k] \in v .. MaxValue

\* What the store has was committed, and so was the absence of every receipt.
StoreRecorded ==
  \A k \in StoreKeys :
    /\ store[k] # None => CommittedBy(k, store[k], height)
    /\ k[1] = "packetReceipt" => CommittedBy(k, AbsenceValue, height)

QueryOK ==
  query # None => /\ CommittedBy(query.key[2], query.value, height)
                  /\ StillHolds(query.key[2], query.value)

MessagesOK ==
  \A m \in messages : /\ CommittedBy(m.proof.key[2], m.proof.value, m.height)
                       /\ StillHolds(m.proof.key[2], m.proof.value)

ProofInv ==
  /\ RelayInv
  /\ ProofTypeOK
  /\ StoreRecorded
  /\ QueryOK
  /\ MessagesOK
  /\ AcceptedWasCommitted
  /\ AcceptedStillHolds

USE StoreAssumption

\* A value above another is in the range that starts at 0.
LEMMA FromZero ==
  ASSUME NEW m, NEW u \in 0 .. m, NEW x \in u .. m
  PROVE  x \in 0 .. m
OBVIOUS

\* A value that moves forward stays in range.
LEMMA NextValue ==
  ASSUME NEW u \in 0 .. MaxValue, NEW w \in u .. MaxValue, NEW v, v = w + 1, v \in Values
  PROVE  v \in u .. MaxValue
BY DEF Values

\* The client of a new chain has accepted nothing, and no receipt is there.
LEMMA InitProofInv == ProofInit => ProofInv
<1>. SUFFICES ASSUME ProofInit PROVE ProofInv
  OBVIOUS
<1>1. RelayInv /\ height \in Nat /\ height >= 1 /\ 1 \in Heights
  <2>1. RelayInv
    BY InitRelayInv, Zenon DEF ProofInit
  <2>2. height \in Heights
    BY <2>1, ZenonT(30) DEF RelayInv, height
  <2>. QED  BY <2>1, <2>2, HeightAssumption DEF Heights
<1>2. ProofTypeOK
  <2>1. \A k \in StoreKeys :
          [key |-> k, value |-> AbsenceValue, height |-> 1]
            \in [key : StoreKeys, value : Values \cup {AbsenceValue, Deleted}, height : Heights]
    BY <1>1, Zenon
  <2>. QED  BY <2>1, Zenon DEF ProofInit, ProofTypeOK
<1>3. StoreRecorded
  <2>. SUFFICES ASSUME NEW k \in StoreKeys, k[1] = "packetReceipt"
                PROVE  CommittedBy(k, AbsenceValue, height)
    BY Zenon DEF StoreRecorded, ProofInit
  <2>. DEFINE f == [key |-> k, value |-> AbsenceValue, height |-> 1]
  <2>1. f \in history
    BY Zenon DEF ProofInit
  <2>2. f.key = k /\ f.value = AbsenceValue /\ f.height <= height
    BY <1>1, Zenon
  <2>. QED  BY <2>1, <2>2 DEF CommittedBy
<1>. QED
  BY <1>1, <1>2, <1>3, Zenon DEF ProofInv, ProofInit, QueryOK, MessagesOK,
     AcceptedWasCommitted, AcceptedStillHolds

\* The chain goes on and the client follows: what was committed by a height was
\* committed by every later one.
LEMMA RelayKeeps ==
  ASSUME ProofInv, [RelayNext]_relayVars, UNCHANGED proofVars
  PROVE  ProofInv'
<1>1. RelayInv'
  BY NextRelayInv, ZenonT(30) DEF ProofInv
<1>2. /\ height \in Nat /\ height' \in Nat
  <2>1. Len(log) \in Heights /\ Len(log') \in Heights
    BY <1>1, Zenon DEF ProofInv, RelayInv
  <2>. QED  BY <2>1 DEF Heights, height
<1>3. height <= height'
  <2>1. CASE UNCHANGED relayVars
    BY <1>2, <2>1 DEF relayVars, height
  <2>2. ASSUME NEW tm \in Times, UpdateSequence(tm) PROVE height <= height'
    <3>1. log \in Seq(Times) /\ log' = Append(log, tm)
      BY <2>2, Zenon DEF ProofInv, RelayInv, RelayTypeOK, UpdateSequence, Chain!Advance
    <3>. QED  BY <1>2, <3>1 DEF height
  <2>3. CASE UpgradeChaincode
    BY <1>2, <2>3 DEF UpgradeChaincode, height
  <2>4. ASSUME NEW v \in Heights, EndorseSequenceCommitment(v) PROVE height <= height'
    BY <1>2, <2>4 DEF EndorseSequenceCommitment, chainVars, height
  <2>5. ASSUME NEW proof \in endorsed, NEW info, Submit(proof, info) PROVE height <= height'
    BY <1>2, <2>5 DEF Submit, chainVars, height
  <2>. QED  BY <2>1, <2>2, <2>3, <2>4, <2>5, Zenon DEF RelayNext
<1>4. UNCHANGED << store, history, query, messages, accepted >>
  BY Zenon DEF proofVars
<1>5. \A k, v : CommittedBy(k, v, height) => CommittedBy(k, v, height)'
  <2>1. \A f \in history : f.height \in Nat
    BY DEF ProofInv, ProofTypeOK, Heights
  <2>. QED  BY <1>2, <1>3, <1>4, <2>1 DEF CommittedBy
<1>6. StoreRecorded' /\ QueryOK'
  BY <1>4, <1>5, Zenon DEF ProofInv, StoreRecorded, QueryOK, StillHolds
<1>7. ProofTypeOK' /\ MessagesOK' /\ AcceptedWasCommitted' /\ AcceptedStillHolds'
  BY <1>4, Zenon DEF ProofInv, ProofTypeOK, MessagesOK, CommittedBy, StillHolds,
     AcceptedWasCommitted, AcceptedStillHolds
<1>. QED  BY <1>1, <1>6, <1>7, Zenon DEF ProofInv

\* Transactions write entries of some kinds once, and others one step further.
LEMMA WrittenValues ==
  ASSUME NEW k \in StoreKeys, NEW v \in Written(k)
  PROVE  /\ k[1] \in WrittenOnce => store[k] = None
         /\ k[1] \in Advancing /\ store[k] # None => v = store[k] + 1 /\ v \in Values
BY Zenon DEF Written, WrittenOnce, Advancing

\* A transaction changes nothing that can be relied on.
LEMMA HandleTxKeeps ==
  ASSUME ProofInv, NEW k \in StoreKeys, NEW v \in Values \cup {Deleted}, HandleTx(k, v)
  PROVE  ProofInv'
<1>. DEFINE f == [key |-> k, value |-> v, height |-> height]
<1>1. /\ v \in Written(k)
      /\ store' = [store EXCEPT ![k] = v] /\ history' = history \cup {f}
      /\ UNCHANGED << relayVars, query, messages, accepted >>
  BY ZenonT(30) DEF HandleTx
<1>2. RelayInv' /\ height' = height /\ height \in Heights /\ height \in Nat
  <2>1. RelayInv'
    BY <1>1, NextRelayInv, Zenon DEF ProofInv
  <2>2. height' = height
    BY <1>1, Zenon DEF relayVars, height
  <2>3. height \in Heights
    BY Zenon DEF ProofInv, RelayInv, height
  <2>. QED  BY <2>1, <2>2, <2>3 DEF Heights
<1>3. f \in [key : StoreKeys, value : Values \cup {AbsenceValue, Deleted}, height : Heights]
  BY <1>2, Zenon
<1>4. ProofTypeOK'
  BY <1>1, <1>3, Zenon DEF ProofInv, ProofTypeOK
<1>5. \A j, u, h : CommittedBy(j, u, h) => CommittedBy(j, u, h)'
  BY <1>1, Zenon DEF CommittedBy
<1>6. StoreRecorded'
  <2>. SUFFICES ASSUME NEW j \in StoreKeys
                PROVE  /\ store'[j] # None => CommittedBy(j, store[j], height)'
                       /\ j[1] = "packetReceipt" => CommittedBy(j, AbsenceValue, height)'
    BY Zenon DEF StoreRecorded
  <2>1. CASE j = k
    <3>1. store'[j] = v
      BY <1>1, <2>1, Zenon DEF ProofInv, ProofTypeOK
    <3>2. f \in history' /\ f.key = k /\ f.value = v /\ f.height <= height'
      <4>1. height <= height'
        BY <1>2
      <4>. QED  BY <1>1, <4>1, Zenon
    <3>3. CommittedBy(j, store[j], height)'
      BY <2>1, <3>1, <3>2, Zenon DEF CommittedBy
    <3>. QED  BY <1>2, <1>5, <3>3, Zenon DEF ProofInv, StoreRecorded
  <2>2. CASE j # k
    BY <1>1, <1>2, <1>5, <2>2, ZenonT(30) DEF ProofInv, ProofTypeOK, StoreRecorded
  <2>. QED  BY <2>1, <2>2, Zenon
<1>7. ASSUME NEW j \in StoreKeys, NEW u \in Values \cup {AbsenceValue}, StillHolds(j, u)
      PROVE  StillHolds(j, u)'
  <2>1. CASE j # k
    BY <1>1, <1>7, <2>1, Zenon DEF ProofInv, ProofTypeOK, StillHolds
  <2>2. CASE j = k
    <3>1. store'[j] = v
      BY <1>1, <2>2, Zenon DEF ProofInv, ProofTypeOK
    <3>2. u \in 0 .. MaxValue
      BY DEF Values, AbsenceValue
    <3>3. j[1] \notin WrittenOnce \ {"packetReceipt"}
      BY <1>1, <1>7, <2>2, <3>2, WrittenValues, ZenonT(30) DEF StillHolds
    <3>4. j[1] \in Advancing => v \in u .. MaxValue
      <4>. SUFFICES ASSUME j[1] \in Advancing PROVE v \in u .. MaxValue
        BY Zenon
      <4>1. store[j] \in u .. MaxValue /\ store[j] \in 0 .. MaxValue
        <5>1. store[j] \in u .. MaxValue
          BY <1>7, Zenon DEF StillHolds
        <5>. QED  BY <3>2, <5>1, FromZero, Zenon
      <4>2. v = store[j] + 1 /\ v \in Values
        BY <1>1, <2>2, <4>1, WrittenValues, Zenon
      <4>. QED  BY <3>2, <4>1, <4>2, NextValue, Zenon
    <3>. QED  BY <3>1, <3>3, <3>4, Zenon DEF StillHolds
  <2>. QED  BY <2>1, <2>2
<1>8. QueryOK'
  <2>1. query # None => query.key[2] \in StoreKeys /\ query.value \in Values \cup {AbsenceValue}
    BY Zenon DEF ProofInv, ProofTypeOK, Proofs
  <2>. QED  BY <1>1, <1>2, <1>5, <1>7, <2>1, Zenon DEF ProofInv, QueryOK
<1>9. MessagesOK'
  <2>1. \A m \in messages : /\ m.proof.key[2] \in StoreKeys
                            /\ m.proof.value \in Values \cup {AbsenceValue}
    BY Zenon DEF ProofInv, ProofTypeOK, Proofs
  <2>. QED  BY <1>1, <1>5, <1>7, <2>1, Zenon DEF ProofInv, MessagesOK
<1>10. AcceptedWasCommitted'
  BY <1>1, Zenon DEF ProofInv, AcceptedWasCommitted
<1>11. AcceptedStillHolds'
  <2>1. \A a \in accepted : a.key \in StoreKeys /\ a.value \in Values \cup {AbsenceValue}
    BY DEF ProofInv, ProofTypeOK
  <2>2. \A a \in accepted : StillHolds(a.key, a.value)
    BY Zenon DEF ProofInv, AcceptedStillHolds, StillHolds
  <2>3. \A a \in accepted : StillHolds(a.key, a.value)'
    BY <1>7, <2>1, <2>2, Zenon
  <2>. QED  BY <1>1, <2>3, Zenon DEF AcceptedStillHolds, StillHolds
<1>. QED  BY <1>2, <1>4, <1>6, <1>8, <1>9, <1>10, <1>11, Zenon DEF ProofInv

\* An endorsement is of what the chain has at that moment.
LEMMA QueryKeeps ==
  ASSUME ProofInv, NEW k \in StoreKeys, EndorseEntry(k)
  PROVE  ProofInv'
<1>1. PICK v \in Endorse(k) :
        query' = [signers |-> Endorsers, ccid |-> deployed, key |-> << "ibc", k >>, value |-> v]
  BY Zenon DEF EndorseEntry, endorseCommitmentRaw, MakeCommitmentEntry
<1>2. UNCHANGED << relayVars, store, history, messages, accepted >>
  BY Zenon DEF EndorseEntry, storeVars
<1>3. RelayInv' /\ height' = height
  BY <1>2, NextRelayInv, Zenon DEF ProofInv, relayVars, height
<1>4. /\ v \in Values \cup {AbsenceValue}
      /\ \/ v = store[k] /\ v \in Values
         \/ v = AbsenceValue /\ k[1] = "packetReceipt"
  BY Zenon DEF Endorse, EndorseState, EndorsePacket
<1>5. query' \in Proofs /\ query'.key[2] = k /\ query'.value = v
  <2>1. deployed \in ChaincodeIDs
    BY Zenon DEF ProofInv, RelayInv, RelayTypeOK
  <2>. QED  BY <1>1, <1>4, <2>1, Zenon DEF Proofs
<1>6. CommittedBy(k, v, height) /\ StillHolds(k, v)
  <2>1. CASE v = store[k] /\ v \in Values
    <3>1. v # None /\ v \in v .. MaxValue
      BY <2>1 DEF Values
    <3>. QED  BY <2>1, <3>1, Zenon DEF ProofInv, StoreRecorded, StillHolds
  <2>2. CASE v = AbsenceValue /\ k[1] = "packetReceipt"
    BY <2>2, Zenon DEF ProofInv, StoreRecorded, StillHolds, Advancing
  <2>. QED  BY <1>4, <2>1, <2>2, Zenon
<1>7. QueryOK'
  BY <1>2, <1>3, <1>5, <1>6, Zenon DEF QueryOK, CommittedBy, StillHolds
<1>8. ProofTypeOK'
  BY <1>2, <1>5, Zenon DEF ProofInv, ProofTypeOK
<1>9. StoreRecorded' /\ MessagesOK' /\ AcceptedWasCommitted' /\ AcceptedStillHolds'
  BY <1>2, <1>3, ZenonT(30) DEF ProofInv, StoreRecorded, MessagesOK, CommittedBy, StillHolds,
     AcceptedWasCommitted, AcceptedStillHolds
<1>. QED  BY <1>3, <1>7, <1>8, <1>9, Zenon DEF ProofInv

\* The height of a proof is read after the entry was endorsed.
LEMMA HeightKeeps ==
  ASSUME ProofInv, getCurrentHeight
  PROVE  ProofInv'
<1>. DEFINE new == [proof |-> query, height |-> height]
<1>1. /\ query # None /\ query' = None /\ messages' = messages \cup {new}
      /\ UNCHANGED << relayVars, store, history, accepted >>
  BY DEF getCurrentHeight, storeVars
<1>2. RelayInv' /\ height' = height /\ height \in Heights
  BY <1>1, NextRelayInv, Zenon DEF ProofInv, RelayInv, relayVars, height
<1>3. query \in Proofs /\ new \in [proof : Proofs, height : Heights]
  BY <1>1, <1>2, Zenon DEF ProofInv, ProofTypeOK
<1>4. ProofTypeOK'
  BY <1>1, <1>3, Zenon DEF ProofInv, ProofTypeOK
<1>5. /\ CommittedBy(new.proof.key[2], new.proof.value, new.height)
      /\ StillHolds(new.proof.key[2], new.proof.value)
  BY <1>1, Zenon DEF ProofInv, QueryOK
<1>6. MessagesOK'
  BY <1>1, <1>5, Zenon DEF ProofInv, MessagesOK, CommittedBy, StillHolds
<1>7. QueryOK' /\ StoreRecorded' /\ AcceptedWasCommitted' /\ AcceptedStillHolds'
  BY <1>1, <1>2, ZenonT(30) DEF ProofInv, QueryOK, StoreRecorded, CommittedBy,
     AcceptedWasCommitted, AcceptedStillHolds
<1>. QED  BY <1>2, <1>4, <1>6, <1>7, Zenon DEF ProofInv

\* The counterparty accepts exactly the entry that was endorsed.
LEMMA AcceptKeeps ==
  ASSUME ProofInv, NEW m \in messages, NEW k \in StoreKeys,
         NEW v \in Values \cup {AbsenceValue}, Accept(m, k, v)
  PROVE  ProofInv'
<1>. DEFINE new == [key |-> k, value |-> v, height |-> m.height]
<1>1. /\ accepted' = accepted \cup {new}
      /\ UNCHANGED << relayVars, store, history, query, messages >>
  BY Zenon DEF Accept, storeVars
<1>2. RelayInv' /\ height' = height
  BY <1>1, NextRelayInv, Zenon DEF ProofInv, relayVars, height
<1>3. m.proof.key[2] = k /\ m.proof.value = v
  <2>1. VerifyEntry(m, k, v)
    BY Zenon DEF Accept, VerifyState, VerifyPacket
  <2>2. /\ m.proof.key = MakeCommitmentEntry(k, v).key
        /\ m.proof.value = MakeCommitmentEntry(k, v).value
    BY <2>1, Zenon DEF VerifyEntry, VerifyEndorsedCommitment
  <2>3. MakeCommitmentEntry(k, v).key[2] = k /\ MakeCommitmentEntry(k, v).value = v
    BY Zenon DEF MakeCommitmentEntry
  <2>. QED  BY <2>2, <2>3, Zenon
<1>4. CommittedBy(k, v, m.height) /\ StillHolds(k, v) /\ m.height \in Heights
  BY <1>3, ZenonT(30) DEF ProofInv, MessagesOK, ProofTypeOK
<1>5. ProofTypeOK'
  <2>1. new \in [key : StoreKeys, value : Values \cup {AbsenceValue}, height : Heights]
    BY <1>4, Zenon
  <2>. HIDE DEF new
  <2>. QED  BY <1>1, <2>1, Zenon DEF ProofInv, ProofTypeOK
<1>6. AcceptedWasCommitted'
  <2>1. CommittedBy(new.key, new.value, new.height)
    BY <1>4, Zenon
  <2>. HIDE DEF new
  <2>. QED  BY <1>1, <2>1, Zenon DEF ProofInv, AcceptedWasCommitted, CommittedBy
<1>7. AcceptedStillHolds'
  <2>1. \A a \in accepted : StillHolds(a.key, a.value)
    BY Zenon DEF ProofInv, AcceptedStillHolds, StillHolds
  <2>2. \A a \in accepted' : StillHolds(a.key, a.value)
    BY <1>1, <1>4, <2>1
  <2>3. store' = store
    BY <1>1, Zenon
  <2>. QED  BY <2>2, <2>3, Zenon DEF AcceptedStillHolds, StillHolds
<1>8. StoreRecorded' /\ QueryOK' /\ MessagesOK'
  BY <1>1, <1>2, ZenonT(30) DEF ProofInv, StoreRecorded, QueryOK, MessagesOK, CommittedBy, StillHolds
<1>. QED  BY <1>2, <1>5, <1>6, <1>7, <1>8, Zenon DEF ProofInv

\* Every step keeps the invariant.
LEMMA NextProofInv == ProofInv /\ [ProofNext]_allVars => ProofInv'
<1>. SUFFICES ASSUME ProofInv, [ProofNext]_allVars PROVE ProofInv'
  OBVIOUS
<1>1. CASE UNCHANGED allVars
  BY <1>1, RelayKeeps, Zenon DEF allVars
<1>2. CASE RelayNext /\ UNCHANGED proofVars
  BY <1>2, RelayKeeps, Zenon
<1>3. CASE ChainAndProver
  BY <1>3, HandleTxKeeps, QueryKeeps, HeightKeeps, AcceptKeeps, Zenon
     DEF ChainAndProver, QueryWithProof
<1>4. ASSUME NEW k \in StoreKeys, EndorseOther(k) PROVE ProofInv'
  BY <1>4, QueryKeeps, Zenon DEF EndorseOther
<1>. QED  BY <1>1, <1>2, <1>3, <1>4 DEF ProofNext

\* The inductive invariant holds whatever is committed, endorsed and relayed.
THEOREM ProofInvariance == ProofSpec => []ProofInv
BY InitProofInv, NextProofInv, PTL DEF ProofSpec

\* Type correctness of the store, the proofs and what was accepted.
THEOREM ProofTypeCorrect == ProofSpec => []ProofTypeOK
<1>1. ProofInv => ProofTypeOK
  BY Zenon DEF ProofInv
<1>. QED  BY <1>1, ProofInvariance, PTL

\* What the counterparty accepts at a height the chain had committed by then
\* (QueryPacketCommitmentWithProof and its siblings, getCurrentHeight).
THEOREM AcceptedCommitted == ProofSpec => []AcceptedWasCommitted
<1>1. ProofInv => AcceptedWasCommitted
  BY Zenon DEF ProofInv
<1>. QED  BY <1>1, ProofInvariance, PTL

\* Entries that are written once, or only move forward, still hold when they are
\* accepted and ever after (VerifyPacketAcknowledgement, VerifyChannelState and
\* the like).
THEOREM AcceptedHolds == ProofSpec => []AcceptedStillHolds
<1>1. ProofInv => AcceptedStillHolds
  BY DEF ProofInv
<1>. QED  BY <1>1, ProofInvariance, PTL
==============================================================================
