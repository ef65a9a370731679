---------------------------- MODULE CompatDBProofs ---------------------------
(***************************************************************************)
(* The iterators and the queries of the stores return exactly their        *)
(* range, for any stores, keys and contents, and a batch that succeeds has *)
(* put the last of its commands for each key, however many there are.      *)
(*                                                                         *)
(* The argument: hexadecimal digits keep the order of bytes; a key between *)
(* two keys with a common prefix has that prefix; the name of a store ends *)
(* at the first slash; and the state database returns what is in a range   *)
(* by the number of keys before it.                                        *)
(***************************************************************************)
EXTENDS CompatDB, FiniteSetTheorems, TLAPS

\* The time in seconds that a backend may take over a step.
USE SMTT(30), ZenonT(30)

------------------------------------------------------------------------------
(* Least and greatest elements *)

\* The order of the natural numbers as a relation.
LEMMA NatOrder == OpToRel(<, Nat) = {ss \in Nat \X Nat : ss[1] < ss[2]}
  BY DEF OpToRel

\* Every set of natural numbers has a least element: what the arguments
\* about the first place where two keys differ rest on.
LEMMA NatMin ==
  ASSUME NEW T, T \subseteq Nat, T # {}
  PROVE  \E x \in T : \A y \in T : x <= y
<1>. DEFINE R == {ss \in Nat \X Nat : ss[1] < ss[2]}
<1>1. PICK x \in T : \A y \in T : ~ (<< y, x >> \in OpToRel(<, Nat))
  BY NatLessThanWellFounded, WFMin, Zenon
<1>2. \A y \in T : ~ (<< y, x >> \in R)
  BY <1>1, NatOrder, Zenon
<1>3. ASSUME NEW y \in T PROVE x <= y
  <2>1. x \in Nat /\ y \in Nat /\ << y, x >> \in Nat \X Nat
    OBVIOUS
  <2>2. ~ (y < x)
    BY <1>2, <2>1
  <2>. QED  BY <2>1, <2>2
<1>. QED  BY <1>3

\* Max of a set of integers is its largest element, if it has one.
LEMMA MaxOf ==
  ASSUME NEW S, S \subseteq Int, NEW n \in S, \A m \in S : m <= n
  PROVE  Max(S) = n
<1>. DEFINE P(x) == x \in S /\ \A y \in S : x >= y
<1>1. P(n)
  OBVIOUS
<1>2. Max(S) = CHOOSE x : P(x)
  BY DEF Max
<1>3. \A x : P(x) => x = n
  OBVIOUS
<1>. HIDE DEF P
<1>. QED  BY <1>1, <1>2, <1>3

\* A bounded set of natural numbers has a greatest element, which is its Max.
LEMMA MaxIn ==
  ASSUME NEW n \in Nat, NEW S, S \subseteq 1 .. n, S # {}
  PROVE  Max(S) \in S /\ \A m \in S : m <= Max(S)
<1>. DEFINE T == {k \in Nat : \A m \in S : m <= k}
<1>1. n \in T
  OBVIOUS
<1>2. PICK k \in T : \A l \in T : k <= l
  <2>1. T \subseteq Nat /\ T # {}
    BY <1>1
  <2>. HIDE DEF T
  <2>. QED  BY <2>1, NatMin, Zenon
<1>3. k \in S
  <2>. SUFFICES ASSUME k \notin S PROVE FALSE
    OBVIOUS
  <2>1. PICK m \in S : TRUE
    BY Zenon
  <2>2. k \in Nat /\ m \in Nat /\ m # k /\ 1 <= m /\ m <= k
    BY <1>2, <2>1
  <2>3. k - 1 \in Nat /\ \A x \in S : x <= k - 1
    BY <1>2, <2>2
  <2>4. k - 1 \in T
    BY <2>3
  <2>. HIDE DEF T
  <2>. QED  BY <1>2, <2>2, <2>4
<1>4. Max(S) = k
  <2>1. S \subseteq Int /\ \A m \in S : m <= k
    BY <1>2
  <2>. QED  BY <1>3, <2>1, MaxOf, Zenon
<1>. QED  BY <1>2, <1>3, <1>4
------------------------------------------------------------------------------
(* Sequences *)

\* A function on the first n numbers is a sequence.
LEMMA MakeSeq ==
  ASSUME NEW S, NEW n \in Nat, NEW e, e = [i \in 1 .. n |-> e[i]], \A i \in 1 .. n : e[i] \in S
  PROVE  e \in Seq(S) /\ Len(e) = n /\ DOMAIN e = 1 .. n
OBVIOUS

\* A sequence of elements of S is one of elements of a larger set.
LEMMA LargerSeq ==
  ASSUME NEW S, NEW T, S \subseteq T, NEW s \in Seq(S)
  PROVE  s \in Seq(T)
<1>1. Len(s) \in Nat /\ s = [i \in 1 .. Len(s) |-> s[i]] /\ \A i \in 1 .. Len(s) : s[i] \in S
  OBVIOUS
<1>. QED  BY <1>1

\* Keys are sequences of integers.
LEMMA BytesAreInts ==
  ASSUME NEW k \in Seq(Bytes)
  PROVE  k \in Seq(Int)
<1>1. Bytes \subseteq Int
  BY DEF Bytes
<1>. HIDE DEF Bytes
<1>. QED  BY <1>1, LargerSeq, Zenon
------------------------------------------------------------------------------
(* The order of keys *)

\* Two different sequences differ at a first place, or one of them ends there.
LEMMA FirstDifference ==
  ASSUME NEW a \in Seq(Int), NEW b \in Seq(Int), a # b
  PROVE  \E i \in Nat \ {0} :
           /\ i <= Len(a) + 1 /\ i <= Len(b) + 1
           /\ i <= Len(a) \/ i <= Len(b)
           /\ i <= Len(a) /\ i <= Len(b) => a[i] # b[i]
           /\ \A j \in 1 .. i - 1 : a[j] = b[j]
<1>. DEFINE T == {i \in Nat \ {0} : \/ i > Len(a) \/ i > Len(b) \/ a[i] # b[i]}
<1>1. Len(a) + 1 \in T
  OBVIOUS
<1>2. PICK i \in T : \A j \in T : i <= j
  <2>1. T \subseteq Nat /\ T # {}
    BY <1>1
  <2>. HIDE DEF T
  <2>. QED  BY <2>1, NatMin, Zenon
<1>3. i \in Nat \ {0} /\ (i > Len(a) \/ i > Len(b) \/ a[i] # b[i])
  BY <1>2
<1>4. ASSUME NEW j \in 1 .. i - 1 PROVE j <= Len(a) /\ j <= Len(b) /\ a[j] = b[j]
  <2>1. j \notin T /\ j \in Nat \ {0}
    <3>. HIDE DEF T
    <3>. QED  BY <1>2, <1>3
  <2>. QED  BY <2>1
<1>. HIDE DEF T
<1>5. i <= Len(a) + 1 /\ i <= Len(b) + 1
  <2>1. i = 1 \/ i - 1 \in 1 .. i - 1
    BY <1>3
  <2>. QED  BY <1>3, <1>4, <2>1
<1>6. i <= Len(a) \/ i <= Len(b)
  <2>. SUFFICES ASSUME i > Len(a), i > Len(b) PROVE FALSE
    BY <1>3
  <2>1. Len(a) = i - 1 /\ Len(b) = i - 1
    BY <1>3, <1>5
  <2>2. a = b
    BY <1>4, <2>1
  <2>. QED  BY <2>2
<1>. QED  BY <1>3, <1>4, <1>5, <1>6

\* The order of sequences is total, and no two of them are before each other.
LEMMA LessTotal ==
  ASSUME NEW a \in Seq(Int), NEW b \in Seq(Int), a # b
  PROVE  Less(a, b) \/ Less(b, a)
<1>1. PICK i \in Nat \ {0} :
        /\ i <= Len(a) + 1 /\ i <= Len(b) + 1
        /\ i <= Len(a) \/ i <= Len(b)
        /\ i <= Len(a) /\ i <= Len(b) => a[i] # b[i]
        /\ \A j \in 1 .. i - 1 : a[j] = b[j]
  BY FirstDifference
<1>2. CASE i <= Len(a) /\ i <= Len(b) /\ a[i] < b[i]
  <2>1. i \in DOMAIN b
    BY <1>2
  <2>. QED  BY <1>1, <1>2, <2>1, Zenon DEF Less
<1>3. CASE i <= Len(a) /\ i <= Len(b) /\ b[i] < a[i]
  <2>1. i \in DOMAIN a /\ \A j \in 1 .. i - 1 : b[j] = a[j]
    BY <1>1, <1>3
  <2>. QED  BY <1>1, <1>3, <2>1 DEF Less
<1>4. CASE i > Len(a)
  <2>1. i \in DOMAIN b /\ i \notin DOMAIN a
    BY <1>1, <1>4
  <2>. QED  BY <1>1, <2>1 DEF Less
<1>5. CASE i > Len(b)
  <2>1. i \in DOMAIN a /\ i \notin DOMAIN b /\ \A j \in 1 .. i - 1 : b[j] = a[j]
    BY <1>1, <1>5
  <2>. QED  BY <1>1, <2>1 DEF Less
<1>6. i <= Len(a) /\ i <= Len(b) => a[i] \in Int /\ b[i] \in Int /\ a[i] # b[i]
  BY <1>1
<1>. QED  BY <1>1, <1>2, <1>3, <1>4, <1>5, <1>6

\* The place at which a is before b.
LEMMA LessAt ==
  ASSUME NEW a \in Seq(Int), NEW b \in Seq(Int), Less(a, b)
  PROVE  \E i \in Nat \ {0} :
           /\ i <= Len(b) /\ i <= Len(a) + 1
           /\ i <= Len(a) => a[i] < b[i]
           /\ \A j \in 1 .. i - 1 : a[j] = b[j]
<1>1. PICK i \in DOMAIN b :
        /\ i <= Len(a) + 1
        /\ i \in DOMAIN a => a[i] < b[i]
        /\ \A j \in 1 .. i - 1 : a[j] = b[j]
  BY DEF Less
<1>2. i \in Nat \ {0} /\ i <= Len(b) /\ (i <= Len(a) => i \in DOMAIN a)
  OBVIOUS
<1>. QED  BY <1>1, <1>2

\* And a place at which it is shows that it is before b.
LEMMA LessFrom ==
  ASSUME NEW a, NEW b, NEW m \in DOMAIN b, m <= Len(a) + 1, m \in DOMAIN a => a[m] < b[m],
         \A j \in 1 .. m - 1 : a[j] = b[j]
  PROVE  Less(a, b)
BY DEF Less

\* No two sequences are before each other.
LEMMA LessAsymmetric ==
  ASSUME NEW a \in Seq(Int), NEW b \in Seq(Int), Less(a, b)
  PROVE  ~ Less(b, a)
<1>. SUFFICES ASSUME Less(b, a) PROVE FALSE
  OBVIOUS
<1>1. PICK i \in Nat \ {0} :
        /\ i <= Len(b) /\ i <= Len(a) + 1
        /\ i <= Len(a) => a[i] < b[i]
        /\ \A j \in 1 .. i - 1 : a[j] = b[j]
  BY LessAt
<1>2. PICK k \in Nat \ {0} :
        /\ k <= Len(a) /\ k <= Len(b) + 1
        /\ k <= Len(b) => b[k] < a[k]
        /\ \A j \in 1 .. k - 1 : b[j] = a[j]
  BY LessAt
<1>3. \A j \in 1 .. Len(a) : a[j] \in Int
  OBVIOUS
<1>4. \A j \in 1 .. Len(b) : b[j] \in Int
  OBVIOUS
<1>5. CASE i < k
  <2>1. i \in 1 .. k - 1 /\ i \in 1 .. Len(a) /\ i \in 1 .. Len(b)
    BY <1>1, <1>2, <1>5
  <2>. QED  BY <1>1, <1>2, <1>3, <1>4, <2>1
<1>6. CASE k < i
  <2>1. k \in 1 .. i - 1 /\ k \in 1 .. Len(a) /\ k \in 1 .. Len(b)
    BY <1>1, <1>2, <1>6
  <2>. QED  BY <1>1, <1>2, <1>3, <1>4, <2>1
<1>7. CASE i = k
  <2>1. i \in 1 .. Len(a) /\ i \in 1 .. Len(b)
    BY <1>1, <1>2, <1>7
  <2>. QED  BY <1>1, <1>2, <1>3, <1>4, <1>7, <2>1
<1>. QED  BY <1>5, <1>6, <1>7

\* The order of sequences is transitive.
LEMMA LessTransitive ==
  ASSUME NEW a \in Seq(Int), NEW b \in Seq(Int), NEW c \in Seq(Int), Less(a, b), Less(b, c)
  PROVE  Less(a, c)
<1>1. PICK i \in Nat \ {0} :
        /\ i <= Len(b) /\ i <= Len(a) + 1
        /\ i <= Len(a) => a[i] < b[i]
        /\ \A j \in 1 .. i - 1 : a[j] = b[j]
  BY LessAt
<1>2. PICK k \in Nat \ {0} :
        /\ k <= Len(c) /\ k <= Len(b) + 1
        /\ k <= Len(b) => b[k] < c[k]
        /\ \A j \in 1 .. k - 1 : b[j] = c[j]
  BY LessAt
<1>3. /\ \A j \in 1 .. Len(a) : a[j] \in Int
      /\ \A j \in 1 .. Len(b) : b[j] \in Int
      /\ \A j \in 1 .. Len(c) : c[j] \in Int
  OBVIOUS
<1>4. CASE i < k
  <2>1. i \in 1 .. k - 1 /\ i \in DOMAIN c /\ b[i] = c[i]
    BY <1>1, <1>2, <1>4
  <2>2. \A j \in 1 .. i - 1 : j \in 1 .. k - 1 /\ a[j] = c[j]
    BY <1>1, <1>2, <1>4
  <2>3. i <= Len(a) + 1 /\ (i \in DOMAIN a => a[i] < c[i]) /\ \A j \in 1 .. i - 1 : a[j] = c[j]
    BY <1>1, <2>1, <2>2
  <2>. QED  BY <2>1, <2>3, LessFrom, Zenon
<1>5. CASE k < i
  <2>1. k \in 1 .. i - 1 /\ k \in DOMAIN c /\ k <= Len(b) /\ k <= Len(a) + 1 /\ a[k] = b[k]
    BY <1>1, <1>2, <1>5
  <2>2. \A j \in 1 .. k - 1 : j \in 1 .. i - 1 /\ a[j] = c[j]
    BY <1>1, <1>2, <1>5
  <2>. QED  BY <1>1, <1>2, <2>1, <2>2, Zenon DEF Less
<1>6. CASE i = k
  <2>1. k \in DOMAIN c /\ k \in 1 .. Len(b) /\ k \in 1 .. Len(c)
    BY <1>1, <1>2, <1>6
  <2>2. k \in DOMAIN a => a[k] < c[k]
    BY <1>1, <1>2, <1>3, <1>6, <2>1
  <2>3. \A j \in 1 .. k - 1 : a[j] = c[j]
    BY <1>1, <1>2, <1>6
  <2>. QED  BY <1>1, <1>6, <2>1, <2>2, <2>3, Zenon DEF Less
<1>. QED  BY <1>4, <1>5, <1>6

\* A key that is not before p, and not after all that begins with p, begins with p.
LEMMA BeforeOrBegins ==
  ASSUME NEW k \in Seq(Int), NEW p \in Seq(Int), NEW h \in Seq(Int), Begins(h, p), Less(k, h)
  PROVE  Less(k, p) \/ Begins(k, p)
<1>1. PICK i \in Nat \ {0} :
        /\ i <= Len(h) /\ i <= Len(k) + 1
        /\ i <= Len(k) => k[i] < h[i]
        /\ \A j \in 1 .. i - 1 : k[j] = h[j]
  BY LessAt
<1>2. Len(p) <= Len(h) /\ \A j \in 1 .. Len(p) : h[j] = p[j]
  BY DEF Begins
<1>3. CASE i <= Len(p)
  <2>1. i \in DOMAIN p /\ (i \in DOMAIN k => k[i] < p[i])
    BY <1>1, <1>2, <1>3
  <2>2. \A j \in 1 .. i - 1 : k[j] = p[j]
    BY <1>1, <1>2, <1>3
  <2>. QED  BY <1>1, <2>1, <2>2, Zenon DEF Less
<1>4. CASE i > Len(p)
  <2>1. Len(p) \in Nat /\ Len(k) \in Nat /\ DOMAIN p = 1 .. Len(p)
    OBVIOUS
  <2>2. Len(p) <= Len(k) /\ \A j \in 1 .. Len(p) : j \in 1 .. i - 1
    BY <1>1, <1>4, <2>1
  <2>. QED  BY <1>1, <1>2, <2>1, <2>2, Zenon DEF Begins
<1>. QED  BY <1>3, <1>4

\* What is before p is before all that begins with p.
LEMMA BeforeAll ==
  ASSUME NEW k \in Seq(Int), NEW p \in Seq(Int), NEW h \in Seq(Int), Begins(h, p), Less(k, p)
  PROVE  Less(k, h)
<1>1. PICK i \in Nat \ {0} :
        /\ i <= Len(p) /\ i <= Len(k) + 1
        /\ i <= Len(k) => k[i] < p[i]
        /\ \A j \in 1 .. i - 1 : k[j] = p[j]
  BY LessAt
<1>2. Len(p) <= Len(h) /\ \A j \in 1 .. Len(p) : h[j] = p[j]
  BY DEF Begins
<1>3. i \in DOMAIN h /\ (i \in DOMAIN k => k[i] < h[i]) /\ \A j \in 1 .. i - 1 : k[j] = h[j]
  BY <1>1, <1>2
<1>. QED  BY <1>1, <1>3, Zenon DEF Less

\* What begins with p is not before p.
LEMMA NotBefore ==
  ASSUME NEW k \in Seq(Int), NEW p \in Seq(Int), Begins(k, p)
  PROVE  ~ Less(k, p)
<1>. SUFFICES ASSUME Less(k, p) PROVE FALSE
  OBVIOUS
<1>1. Less(k, k)
  BY BeforeAll
<1>. QED  BY <1>1, LessAsymmetric

\* A common prefix does not matter.
LEMMA CommonPrefix ==
  ASSUME NEW p \in Seq(Int), NEW a \in Seq(Int), NEW b \in Seq(Int)
  PROVE  /\ Less(p \o a, p \o b) <=> Less(a, b)
         /\ Begins(p \o a, p \o b) <=> Begins(a, b)
         /\ Begins(p \o a, p)
<1>. DEFINE n == Len(p)
            pa == p \o a
            pb == p \o b
<1>1. /\ n \in Nat /\ Len(a) \in Nat /\ Len(b) \in Nat
      /\ Len(pa) = n + Len(a) /\ Len(pb) = n + Len(b)
  OBVIOUS
<1>2. /\ pa \in Seq(Int) /\ pb \in Seq(Int) /\ DOMAIN p = 1 .. n
      /\ DOMAIN a = 1 .. Len(a) /\ DOMAIN b = 1 .. Len(b)
      /\ DOMAIN pa = 1 .. Len(pa) /\ DOMAIN pb = 1 .. Len(pb)
      /\ \A j \in 1 .. n : pa[j] = p[j] /\ pb[j] = p[j]
      /\ \A j \in 1 .. Len(a) : pa[n + j] = a[j]
      /\ \A j \in 1 .. Len(b) : pb[n + j] = b[j]
  OBVIOUS
<1>. HIDE DEF n, pa, pb
<1>3. ASSUME Less(a, b) PROVE Less(pa, pb)
  <2>1. PICK i \in Nat \ {0} :
          /\ i <= Len(b) /\ i <= Len(a) + 1
          /\ i <= Len(a) => a[i] < b[i]
          /\ \A j \in 1 .. i - 1 : a[j] = b[j]
    BY <1>3, LessAt
  <2>2. PICK m \in Nat : /\ m = n + i /\ m \in 1 .. Len(pb) /\ m <= Len(pa) + 1
                         /\ i \in 1 .. Len(b)
                         /\ m \in 1 .. Len(pa) => i \in 1 .. Len(a) /\ i <= Len(a)
    <3>1. i \in Nat \ {0} /\ i <= Len(b) /\ i <= Len(a) + 1
      BY <2>1
    <3>. QED  BY <1>1, <3>1
  <2>3. m \in DOMAIN pb /\ (m \in DOMAIN pa => pa[m] < pb[m])
    BY <1>2, <2>1, <2>2
  <2>4. ASSUME NEW j \in 1 .. m - 1 PROVE pa[j] = pb[j]
    <3>1. CASE j \in 1 .. n
      BY <1>2, <3>1, Zenon
    <3>2. CASE j \notin 1 .. n
      <4>1. PICK l \in Int : j = n + l /\ l \in 1 .. i - 1
        <5>1. j - n \in Int /\ j = n + (j - n) /\ j - n \in 1 .. i - 1
          BY <1>1, <2>2, <3>2
        <5>. QED  BY <5>1
      <4>2. l \in 1 .. Len(a) /\ l \in 1 .. Len(b)
        <5>1. i <= Len(b) /\ i <= Len(a) + 1 /\ Len(a) \in Nat /\ Len(b) \in Nat
          BY <1>1, <2>1
        <5>. QED  BY <4>1, <5>1
      <4>. QED  BY <1>2, <2>1, <4>1, <4>2, Zenon
    <3>. QED  BY <3>1, <3>2
  <2>. QED  BY <2>2, <2>3, <2>4, Zenon DEF Less
<1>4. ASSUME Less(pa, pb) PROVE Less(a, b)
  <2>1. PICK i \in Nat \ {0} :
          /\ i <= Len(pb) /\ i <= Len(pa) + 1
          /\ i <= Len(pa) => pa[i] < pb[i]
          /\ \A j \in 1 .. i - 1 : pa[j] = pb[j]
    BY <1>1, <1>2, <1>4, LessAt, Zenon
  <2>2. i > n
    <3>. SUFFICES ASSUME i <= n PROVE FALSE
      BY <1>1
    <3>1. i \in 1 .. n /\ i <= Len(pa) /\ p[i] \in Int
      BY <1>1, <1>2 DEF n
    <3>. QED  BY <1>1, <1>2, <2>1, <3>1
  <2>3. PICK l \in Nat : i = n + l /\ l \in 1 .. Len(b) /\ l <= Len(a) + 1
    <3>1. i - n \in Nat /\ i = n + (i - n) /\ i - n \in 1 .. Len(b) /\ i - n <= Len(a) + 1
      BY <1>1, <1>2, <2>1, <2>2
    <3>. QED  BY <3>1
  <2>4. l \in DOMAIN a => a[l] < b[l]
    <3>. SUFFICES ASSUME l \in DOMAIN a PROVE a[l] < b[l]
      OBVIOUS
    <3>1. l \in 1 .. Len(a) /\ i <= Len(pa)
      BY <1>1, <1>2, <2>3
    <3>2. pa[i] < pb[i] /\ pa[i] = a[l] /\ pb[i] = b[l]
      BY <1>1, <1>2, <2>1, <2>3, <3>1
    <3>. QED  BY <3>2
  <2>5. ASSUME NEW j \in 1 .. l - 1 PROVE a[j] = b[j]
    <3>. DEFINE x == Len(a)
                y == Len(b)
    <3>1. x \in Nat /\ y \in Nat /\ n \in Nat /\ i = n + l /\ l \in 1 .. y /\ l <= x + 1
      BY <1>1, <2>3
    <3>. HIDE DEF x, y
    <3>2. n + j \in 1 .. i - 1 /\ j \in 1 .. x /\ j \in 1 .. y
      BY <3>1
    <3>3. n + j \in 1 .. i - 1 /\ j \in 1 .. Len(a) /\ j \in 1 .. Len(b)
      BY <3>2 DEF x, y
    <3>4. pa[n + j] = pb[n + j] /\ pa[n + j] = a[j] /\ pb[n + j] = b[j]
      BY <1>1, <1>2, <2>1, <3>3
    <3>. QED  BY <3>4, Zenon
  <2>. QED  BY <1>1, <1>2, <2>3, <2>4, <2>5, Zenon DEF Less
<1>5. ASSUME Begins(a, b) PROVE Begins(pa, pb)
  <2>1. Len(b) <= Len(a) /\ \A j \in 1 .. Len(b) : a[j] = b[j]
    BY <1>5 DEF Begins
  <2>2. ASSUME NEW j \in 1 .. n + Len(b) PROVE pa[j] = pb[j]
    <3>1. CASE j <= n
      BY <1>1, <1>2, <3>1
    <3>2. CASE j > n
      <4>1. PICK l \in Int : j = n + l /\ l \in 1 .. Len(b) /\ l \in 1 .. Len(a)
        <5>1. j - n \in Int /\ j = n + (j - n) /\ j - n \in 1 .. Len(b) /\ j - n \in 1 .. Len(a)
          BY <1>1, <1>2, <2>1, <3>2
        <5>. QED  BY <5>1
      <4>. QED  BY <1>1, <1>2, <2>1, <4>1, Zenon
    <3>. QED  BY <1>1, <1>2, <3>1, <3>2
  <2>. QED  BY <1>1, <1>2, <2>1, <2>2 DEF Begins
<1>6. ASSUME Begins(pa, pb) PROVE Begins(a, b)
  <2>1. Len(pb) <= Len(pa) /\ \A j \in DOMAIN pb : pa[j] = pb[j]
    BY <1>6, Zenon DEF Begins
  <2>2. ASSUME NEW j \in 1 .. Len(b) PROVE a[j] = b[j]
    <3>1. Len(b) <= Len(a)
      BY <1>1, <2>1
    <3>2. n + j \in DOMAIN pb /\ j \in 1 .. Len(a)
      BY <1>1, <3>1
    <3>3. pa[n + j] = pb[n + j]
      BY <2>1, <3>2
    <3>. QED  BY <1>2, <3>2, <3>3, Zenon
  <2>3. Len(b) <= Len(a)
    BY <1>1, <1>2, <2>1
  <2>. QED  BY <1>1, <1>2, <2>2, <2>3, Zenon DEF Begins
<1>7. Begins(pa, p)
  <2>1. n <= Len(pa)
    BY <1>1
  <2>. QED  BY <1>1, <1>2, <2>1 DEF Begins, n
<1>. QED  BY <1>3, <1>4, <1>5, <1>6, <1>7 DEF pa, pb
------------------------------------------------------------------------------
(* Hexadecimal digits *)

\* The two digits of a byte.
High(x) == x \div Base
Low(x) == x % Base

\* A product grows with its first factor.
LEMMA Products ==
  ASSUME NEW x \in Nat, NEW y \in Nat, NEW z \in Nat, x <= y
  PROVE  x * z \in Nat /\ y * z \in Nat /\ x * z <= y * z
<1>1. PICK d \in Nat : y = x + d
  <2>1. y - x \in Nat /\ y = x + (y - x)
    OBVIOUS
  <2>. QED  BY <2>1
<1>2. d * z \in Nat /\ x * z \in Nat /\ y * z = x * z + d * z
  BY <1>1
<1>. QED  BY <1>2

\* A byte is made of its digits.
LEMMA Digits ==
  ASSUME NEW x \in Bytes
  PROVE  /\ High(x) \in 0 .. Base - 1 /\ Low(x) \in 0 .. Base - 1
         /\ x = High(x) * Base + Low(x)
<1>1. Base \in Nat /\ Base > 0 /\ x \in Nat /\ x < Base * Base
  BY BytesAssumption DEF Bytes
<1>2. High(x) \in Nat /\ Low(x) \in 0 .. Base - 1 /\ x = Base * High(x) + Low(x)
  BY <1>1 DEF High, Low
<1>3. Base * High(x) = High(x) * Base
  BY <1>1, <1>2
<1>4. High(x) <= Base - 1
  <2>. SUFFICES ASSUME Base <= High(x) PROVE FALSE
    BY <1>1, <1>2
  <2>1. Base * Base <= High(x) * Base
    BY <1>1, <1>2, Products
  <2>. QED  BY <1>1, <1>2, <1>3, <2>1
<1>. QED  BY <1>1, <1>2, <1>3, <1>4

\* The digits of a smaller byte are before those of a larger one.
LEMMA DigitsOrder ==
  ASSUME NEW x \in Bytes, NEW y \in Bytes, x < y
  PROVE  High(x) < High(y) \/ (High(x) = High(y) /\ Low(x) < Low(y))
<1>1. /\ Base \in Nat /\ Base > 0
      /\ High(x) \in Nat /\ Low(x) \in Nat /\ Low(x) < Base /\ x = High(x) * Base + Low(x)
      /\ High(y) \in Nat /\ Low(y) \in Nat /\ Low(y) < Base /\ y = High(y) * Base + Low(y)
  <2>1. Base \in Nat /\ Base > 0
    BY BytesAssumption
  <2>2. \A z \in Bytes : /\ High(z) \in 0 .. Base - 1 /\ Low(z) \in 0 .. Base - 1
                         /\ z = High(z) * Base + Low(z)
    BY Digits, Zenon
  <2>. QED  BY <2>1, <2>2
<1>2. CASE High(x) = High(y)
  BY <1>1, <1>2
<1>3. CASE High(y) < High(x)
  <2>1. (High(y) + 1) * Base <= High(x) * Base /\ (High(y) + 1) * Base = High(y) * Base + Base
    BY <1>1, <1>3, Products
  <2>2. High(y) * Base \in Nat /\ High(x) * Base \in Nat
    BY <1>1
  <2>. QED  BY <1>1, <2>1, <2>2
<1>. QED  BY <1>1, <1>2, <1>3

\* The hexadecimal form of a key: the digits of byte i are at 2i - 1 and 2i.
LEMMA EncodeFacts ==
  ASSUME NEW k \in Seq(Bytes)
  PROVE  /\ EncodeToString(k) \in Seq(1 .. Base)
         /\ Len(EncodeToString(k)) = 2 * Len(k)
         /\ \A i \in 1 .. Len(k) : /\ EncodeToString(k)[2 * i - 1] = High(k[i]) + 1
                                   /\ EncodeToString(k)[2 * i] = Low(k[i]) + 1
<1>. DEFINE n == Len(k)
            e == EncodeToString(k)
<1>1. n \in Nat /\ Base \in Nat /\ \A i \in 1 .. n : k[i] \in Bytes
  BY BytesAssumption
<1>2. e = [i \in 1 .. 2 * n |-> IF i % 2 = 1 THEN High(k[(i + 1) \div 2]) + 1
                                ELSE Low(k[i \div 2]) + 1]
  BY DEF EncodeToString, High, Low
<1>. HIDE DEF n, e
<1>3. ASSUME NEW i \in 1 .. 2 * n PROVE e[i] \in 1 .. Base
  <2>1. CASE i % 2 = 1
    <3>1. (i + 1) \div 2 \in 1 .. n
      BY <1>1, <2>1
    <3>2. High(k[(i + 1) \div 2]) \in 0 .. Base - 1
      BY <1>1, <3>1, Digits
    <3>. QED  BY <1>1, <1>2, <2>1, <3>2
  <2>2. CASE i % 2 # 1
    <3>1. i \div 2 \in 1 .. n
      BY <1>1, <2>2
    <3>2. Low(k[i \div 2]) \in 0 .. Base - 1
      BY <1>1, <3>1, Digits
    <3>. QED  BY <1>1, <1>2, <2>2, <3>2
  <2>. QED  BY <2>1, <2>2
<1>4. e \in Seq(1 .. Base) /\ Len(e) = 2 * n
  <2>1. 2 * n \in Nat /\ e = [i \in 1 .. 2 * n |-> e[i]]
    BY <1>1, <1>2
  <2>2. \A i \in 1 .. 2 * n : e[i] \in 1 .. Base
    BY <1>3, Zenon
  <2>. DEFINE l == 2 * n
              S == 1 .. Base
  <2>3. l \in Nat /\ e = [i \in 1 .. l |-> e[i]] /\ \A i \in 1 .. l : e[i] \in S
    BY <2>1, <2>2, Zenon
  <2>. HIDE DEF l, S
  <2>4. e \in Seq(S) /\ Len(e) = l
    BY <2>3, MakeSeq
  <2>. QED  BY <2>4, Zenon DEF l, S
<1>5. ASSUME NEW i \in 1 .. n PROVE e[2 * i - 1] = High(k[i]) + 1 /\ e[2 * i] = Low(k[i]) + 1
  <2>1. /\ 2 * i - 1 \in 1 .. 2 * n /\ (2 * i - 1) % 2 = 1 /\ ((2 * i - 1) + 1) \div 2 = i
        /\ 2 * i \in 1 .. 2 * n /\ (2 * i) % 2 # 1 /\ (2 * i) \div 2 = i
    BY <1>1
  <2>. QED  BY <1>2, <2>1
<1>. QED  BY <1>4, <1>5 DEF n, e

\* Decoding undoes it.
LEMMA DecodeEncode ==
  ASSUME NEW k \in Seq(Bytes)
  PROVE  DecodeString(EncodeToString(k)) = k
<1>. DEFINE n == Len(k)
            e == EncodeToString(k)
<1>1. n \in Nat /\ k = [i \in 1 .. n |-> k[i]] /\ \A i \in 1 .. n : k[i] \in Bytes
  OBVIOUS
<1>2. /\ e \in Seq(1 .. Base) /\ Len(e) = 2 * n
      /\ \A i \in 1 .. n : e[2 * i - 1] = High(k[i]) + 1 /\ e[2 * i] = Low(k[i]) + 1
  BY EncodeFacts
<1>. HIDE DEF n, e
<1>3. Len(e) % 2 = 0 /\ Len(e) \div 2 = n /\ \A i \in DOMAIN e : e[i] \in 1 .. Base
  <2>1. (2 * n) % 2 = 0 /\ (2 * n) \div 2 = n
    BY <1>1
  <2>2. \A i \in DOMAIN e : e[i] \in 1 .. Base
    <3>. DEFINE D == 1 .. Base
    <3>1. e \in Seq(D)
      BY <1>2
    <3>. HIDE DEF D
    <3>2. \A i \in DOMAIN e : e[i] \in D
      BY <3>1
    <3>. QED  BY <3>2 DEF D
  <2>. QED  BY <1>2, <2>1, <2>2, Zenon
<1>4. DecodeString(e) = [i \in 1 .. n |-> (e[2 * i - 1] - 1) * Base + e[2 * i] - 1]
  BY <1>3 DEF DecodeString
<1>5. ASSUME NEW i \in 1 .. n PROVE (e[2 * i - 1] - 1) * Base + e[2 * i] - 1 = k[i]
  <2>1. /\ High(k[i]) \in Nat /\ Low(k[i]) \in Nat /\ Base \in Nat
        /\ k[i] = High(k[i]) * Base + Low(k[i])
    BY <1>1, Digits, BytesAssumption
  <2>2. e[2 * i - 1] - 1 = High(k[i]) /\ e[2 * i] = Low(k[i]) + 1
    <3>1. e[2 * i - 1] = High(k[i]) + 1 /\ e[2 * i] = Low(k[i]) + 1
      BY <1>2, Zenon
    <3>. QED  BY <2>1, <3>1
  <2>3. High(k[i]) * Base \in Nat
    BY <2>1
  <2>. QED  BY <2>1, <2>2, <2>3
<1>6. DecodeString(e) = k
  BY <1>1, <1>4, <1>5
<1>. QED  BY <1>6 DEF e

\* Digits keep the order of keys.
LEMMA EncodeKeepsOrder ==
  ASSUME NEW a \in Seq(Bytes), NEW b \in Seq(Bytes), Less(a, b)
  PROVE  Less(EncodeToString(a), EncodeToString(b))
<1>. DEFINE ea == EncodeToString(a)
            eb == EncodeToString(b)
            x == Len(a)
            y == Len(b)
<1>1. /\ x \in Nat /\ y \in Nat /\ a \in Seq(Int) /\ b \in Seq(Int)
      /\ \A i \in 1 .. x : a[i] \in Bytes
      /\ \A i \in 1 .. y : b[i] \in Bytes
  BY BytesAreInts
<1>2. /\ DOMAIN ea = 1 .. 2 * x /\ Len(ea) = 2 * x
      /\ \A i \in 1 .. x : ea[2 * i - 1] = High(a[i]) + 1 /\ ea[2 * i] = Low(a[i]) + 1
  BY EncodeFacts
<1>3. /\ DOMAIN eb = 1 .. 2 * y /\ Len(eb) = 2 * y
      /\ \A i \in 1 .. y : eb[2 * i - 1] = High(b[i]) + 1 /\ eb[2 * i] = Low(b[i]) + 1
  BY EncodeFacts
<1>4. PICK i \in Nat \ {0} :
        /\ i <= y /\ i <= x + 1
        /\ i <= x => a[i] < b[i]
        /\ \A j \in 1 .. i - 1 : a[j] = b[j]
  BY <1>1, LessAt
<1>5. i \in Nat /\ i > 0 /\ i <= y /\ i <= x + 1 /\ i \in 1 .. y
  BY <1>1, <1>4
<1>. HIDE DEF ea, eb, x, y
<1>6. ASSUME NEW j \in 1 .. 2 * i - 2 PROVE ea[j] = eb[j]
  <2>1. PICK l \in Nat : l \in 1 .. i - 1 /\ l \in 1 .. x /\ l \in 1 .. y
                         /\ (j = 2 * l - 1 \/ j = 2 * l)
    <3>1. (j + 1) \div 2 \in Nat
      OBVIOUS
    <3>2. /\ (j + 1) \div 2 \in 1 .. i - 1 /\ (j + 1) \div 2 \in 1 .. x
          /\ (j + 1) \div 2 \in 1 .. y
          /\ j = 2 * ((j + 1) \div 2) - 1 \/ j = 2 * ((j + 1) \div 2)
      BY <1>1, <1>5
    <3>. QED  BY <3>1, <3>2
  <2>2. a[l] = b[l]
    BY <1>4, <2>1
  <2>. QED  BY <1>2, <1>3, <2>1, <2>2, Zenon
<1>7. CASE i > x
  <2>1. PICK m \in Nat : m = 2 * i - 1 /\ m \in 1 .. 2 * y /\ m <= 2 * x + 1 /\ m \notin 1 .. 2 * x
                         /\ m - 1 = 2 * i - 2
    BY <1>1, <1>5, <1>7
  <2>2. m \in DOMAIN eb /\ m \notin DOMAIN ea /\ m <= Len(ea) + 1
    BY <1>2, <1>3, <2>1, Zenon
  <2>3. \A j \in 1 .. m - 1 : ea[j] = eb[j]
    BY <1>6, <2>1, Zenon
  <2>. QED  BY <2>2, <2>3, LessFrom, Zenon DEF ea, eb
<1>8. CASE i <= x /\ High(a[i]) < High(b[i])
  <2>1. PICK m \in Nat : m = 2 * i - 1 /\ m \in 1 .. 2 * y /\ m <= 2 * x + 1 /\ m - 1 = 2 * i - 2
    BY <1>1, <1>5, <1>8
  <2>2. i \in 1 .. x /\ High(a[i]) \in Int /\ High(b[i]) \in Int
    <3>1. i \in 1 .. x
      BY <1>5, <1>8, <1>1
    <3>. QED  BY <1>1, <1>5, <3>1, Digits
  <2>3. ea[m] < eb[m]
    BY <1>2, <1>3, <1>5, <1>8, <2>1, <2>2
  <2>4. m \in DOMAIN eb /\ m <= Len(ea) + 1
    BY <1>2, <1>3, <2>1, Zenon
  <2>5. \A j \in 1 .. m - 1 : ea[j] = eb[j]
    BY <1>6, <2>1, Zenon
  <2>. QED  BY <2>3, <2>4, <2>5, LessFrom, Zenon DEF ea, eb
<1>9. CASE i <= x /\ High(a[i]) = High(b[i]) /\ Low(a[i]) < Low(b[i])
  <2>1. PICK m \in Nat : m = 2 * i /\ m \in 1 .. 2 * y /\ m <= 2 * x + 1
    BY <1>1, <1>5, <1>9
  <2>2. i \in 1 .. x /\ Low(a[i]) \in Int /\ Low(b[i]) \in Int
    <3>1. i \in 1 .. x
      BY <1>5, <1>9, <1>1
    <3>. QED  BY <1>1, <1>5, <3>1, Digits
  <2>3. ea[m] < eb[m]
    BY <1>2, <1>3, <1>5, <1>9, <2>1, <2>2
  <2>4. ASSUME NEW j \in 1 .. m - 1 PROVE ea[j] = eb[j]
    <3>1. j \in 1 .. 2 * i - 2 \/ j = 2 * i - 1
      BY <1>5, <2>1
    <3>2. ea[2 * i - 1] = eb[2 * i - 1]
      BY <1>2, <1>3, <1>5, <1>9, <2>2, Zenon
    <3>. QED  BY <1>6, <3>1, <3>2
  <2>5. m \in DOMAIN eb /\ m <= Len(ea) + 1
    BY <1>2, <1>3, <2>1, Zenon
  <2>. QED  BY <2>3, <2>4, <2>5, LessFrom, Zenon DEF ea, eb
<1>10. Less(ea, eb)
  <2>1. i <= x => i \in 1 .. x /\ a[i] < b[i]
    BY <1>1, <1>4, <1>5
  <2>2. i <= x => High(a[i]) < High(b[i]) \/ (High(a[i]) = High(b[i]) /\ Low(a[i]) < Low(b[i]))
    BY <1>1, <1>5, <2>1, DigitsOrder
  <2>3. i > x \/ i <= x
    BY <1>1, <1>5
  <2>. QED  BY <1>7, <1>8, <1>9, <2>2, <2>3, Zenon DEF ea, eb
<1>. QED  BY <1>10 DEF ea, eb

\* The hexadecimal forms are in the order of the keys, and only in this one.
LEMMA EncodeOrder ==
  ASSUME NEW a \in Seq(Bytes), NEW b \in Seq(Bytes)
  PROVE  Less(EncodeToString(a), EncodeToString(b)) <=> Less(a, b)
<1>1. a \in Seq(Int) /\ b \in Seq(Int)
  BY BytesAreInts
<1>2. EncodeToString(a) \in Seq(Int) /\ EncodeToString(b) \in Seq(Int)
  <2>1. EncodeToString(a) \in Seq(1 .. Base) /\ EncodeToString(b) \in Seq(1 .. Base)
    BY EncodeFacts
  <2>2. 1 .. Base \subseteq Int
    OBVIOUS
  <2>. QED  BY <2>1, <2>2, LargerSeq, Zenon
<1>3. CASE Less(a, b)
  BY <1>3, EncodeKeepsOrder
<1>4. CASE Less(b, a)
  BY <1>1, <1>2, <1>4, EncodeKeepsOrder, LessAsymmetric
<1>5. CASE a = b
  BY <1>1, <1>2, <1>5, LessAsymmetric
<1>. QED  BY <1>1, <1>3, <1>4, <1>5, LessTotal

\* The hexadecimal form of the first byte begins that of the key.
LEMMA EncodeFirst ==
  ASSUME NEW x \in Bytes, NEW k \in Seq(Bytes), Len(k) > 0, k[1] = x
  PROVE  Begins(EncodeToString(k), EncodeToString(<< x >>))
<1>. DEFINE f == EncodeToString(<< x >>)
            e == EncodeToString(k)
            one == << x >>
<1>1. one \in Seq(Bytes) /\ Len(one) = 1 /\ one[1] = x
  OBVIOUS
<1>2. DOMAIN f = 1 .. 2 /\ Len(f) = 2 /\ f[1] = High(x) + 1 /\ f[2] = Low(x) + 1
  <2>. HIDE DEF one
  <2>1. /\ EncodeToString(one) \in Seq(1 .. Base) /\ Len(EncodeToString(one)) = 2 * 1
        /\ \A i \in 1 .. 1 : /\ EncodeToString(one)[2 * i - 1] = High(one[i]) + 1
                             /\ EncodeToString(one)[2 * i] = Low(one[i]) + 1
    BY <1>1, EncodeFacts, Zenon
  <2>2. 1 \in 1 .. 1 /\ 2 * 1 - 1 = 1 /\ 2 * 1 = 2
    OBVIOUS
  <2>3. EncodeToString(one)[1] = High(x) + 1 /\ EncodeToString(one)[2] = Low(x) + 1
    BY <1>1, <2>1, <2>2
  <2>. QED  BY <2>1, <2>3 DEF one
<1>3. Len(e) = 2 * Len(k) /\ e[1] = High(x) + 1 /\ e[2] = Low(x) + 1
  <2>1. 1 \in 1 .. Len(k) /\ 2 * 1 - 1 = 1 /\ 2 * 1 = 2
    OBVIOUS
  <2>2. /\ Len(e) = 2 * Len(k)
        /\ \A i \in 1 .. Len(k) : e[2 * i - 1] = High(k[i]) + 1 /\ e[2 * i] = Low(k[i]) + 1
    BY EncodeFacts
  <2>. HIDE DEF e
  <2>. QED  BY <2>1, <2>2
<1>4. Len(k) \in Nat /\ 2 <= 2 * Len(k)
  OBVIOUS
<1>5. \A i \in 1 .. 2 : i = 1 \/ i = 2
  OBVIOUS
<1>. HIDE DEF e, f
<1>6. Begins(e, f)
  BY <1>2, <1>3, <1>4, <1>5 DEF Begins
<1>. QED  BY <1>6 DEF e, f
------------------------------------------------------------------------------
(* The end of a prefix *)

\* Of two keys that agree up to a place after which p has only the largest byte,
\* k is before p or begins with it.
LEMMA LargestAfter ==
  ASSUME NEW k \in Seq(Bytes), NEW p \in Seq(Bytes), NEW m \in Nat, m <= Len(k),
         \A j \in 1 .. m : k[j] = p[j],
         \A j \in 1 .. Len(p) : j > m => p[j] + 1 \notin Bytes
  PROVE  Less(k, p) \/ Begins(k, p)
<1>1. k \in Seq(Int) /\ p \in Seq(Int)
  BY BytesAreInts
<1>2. CASE k = p
  BY <1>2 DEF Begins
<1>3. CASE Less(p, k)
  <2>1. PICK i \in Nat \ {0} :
          /\ i <= Len(k) /\ i <= Len(p) + 1
          /\ i <= Len(p) => p[i] < k[i]
          /\ \A j \in 1 .. i - 1 : p[j] = k[j]
    BY <1>1, <1>3, LessAt
  <2>2. i > Len(p)
    <3>. SUFFICES ASSUME i <= Len(p) PROVE FALSE
      BY <2>1
    <3>1. i \in 1 .. Len(p) /\ i \in 1 .. Len(k)
      BY <2>1
    <3>2. p[i] \in Bytes /\ k[i] \in Bytes
      BY <3>1
    <3>3. p[i] < k[i]
      BY <2>1
    <3>4. i > m
      BY <2>1, <3>1, <3>2, <3>3 DEF Bytes
    <3>5. p[i] + 1 \notin Bytes
      BY <3>1, <3>4
    <3>. QED  BY <3>2, <3>3, <3>5, BytesAssumption DEF Bytes
  <2>3. Len(p) \in Nat /\ Len(k) \in Nat /\ DOMAIN p = 1 .. Len(p)
    OBVIOUS
  <2>4. Len(p) <= Len(k) /\ \A j \in 1 .. Len(p) : j \in 1 .. i - 1
    BY <2>1, <2>2, <2>3
  <2>. QED  BY <2>1, <2>3, <2>4, Zenon DEF Begins
<1>. QED  BY <1>1, <1>2, <1>3, LessTotal

\* What PrefixEnd computes.
LEMMA PrefixEndFacts ==
  ASSUME NEW p \in Seq(Bytes)
  PROVE  \/ /\ PrefixEnd(p) = << >>
            /\ \A i \in 1 .. Len(p) : p[i] + 1 \notin Bytes
         \/ \E m \in 1 .. Len(p) :
              /\ PrefixEnd(p) \in Seq(Bytes) /\ Len(PrefixEnd(p)) = m
              /\ \A i \in 1 .. m - 1 : PrefixEnd(p)[i] = p[i]
              /\ PrefixEnd(p)[m] = p[m] + 1
              /\ p[m] + 1 \in Bytes
              /\ \A i \in 1 .. Len(p) : i > m => p[i] + 1 \notin Bytes
<1>. DEFINE low == {i \in DOMAIN p : p[i] + 1 \in Bytes}
            m == Max(low)
<1>1. DOMAIN p = 1 .. Len(p) /\ Len(p) \in Nat
  OBVIOUS
<1>2. CASE low = {}
  BY <1>1, <1>2 DEF PrefixEnd
<1>3. CASE low # {}
  <2>1. low \subseteq 1 .. Len(p)
    BY <1>1
  <2>2. m \in low /\ \A i \in low : i <= m
    <3>. HIDE DEF low
    <3>. QED  BY <1>1, <1>3, <2>1, MaxIn, Zenon
  <2>3. PrefixEnd(p) = [SubSeq(p, 1, m) EXCEPT ![m] = @ + 1]
    BY <1>3, Zenon DEF PrefixEnd
  <2>4. m \in 1 .. Len(p) /\ p[m] + 1 \in Bytes
    BY <1>1, <2>2
  <2>5. \A i \in 1 .. Len(p) : i > m => p[i] + 1 \notin Bytes
    <3>. SUFFICES ASSUME NEW i \in 1 .. Len(p), i > m, p[i] + 1 \in Bytes PROVE FALSE
      OBVIOUS
    <3>1. i \in low
      BY <1>1
    <3>. HIDE DEF low
    <3>. QED  BY <2>2, <2>4, <3>1
  <2>. HIDE DEF m
  <2>. DEFINE q == SubSeq(p, 1, m)
  <2>6. q \in Seq(Bytes) /\ Len(q) = m /\ \A i \in 1 .. m : q[i] = p[i]
    BY <1>1, <2>4
  <2>. HIDE DEF q
  <2>7. DOMAIN q = 1 .. m /\ m \in 1 .. m /\ m \in Nat
    BY <2>4, <2>6
  <2>8. PrefixEnd(p) = [i \in 1 .. m |-> IF i = m THEN p[m] + 1 ELSE p[i]]
    BY <2>3, <2>6, <2>7, Zenon DEF q
  <2>9. \A i \in 1 .. m : p[i] \in Bytes
    BY <1>1, <2>4
  <2>10. PrefixEnd(p) \in Seq(Bytes) /\ Len(PrefixEnd(p)) = m
    BY <2>4, <2>7, <2>8, <2>9
  <2>11. /\ \A i \in 1 .. m - 1 : PrefixEnd(p)[i] = p[i]
         /\ PrefixEnd(p)[m] = p[m] + 1
    BY <2>7, <2>8
  <2>. QED  BY <2>4, <2>5, <2>10, <2>11
<1>. QED  BY <1>2, <1>3

\* The keys before the end of a prefix are those before the prefix and those that
\* begin with it.
LEMMA BeforeEnd ==
  ASSUME NEW k \in Seq(Bytes), NEW p \in Seq(Bytes)
  PROVE  /\ PrefixEnd(p) \in Seq(Bytes)
         /\ PrefixEnd(p) = << >> \/ Less(k, PrefixEnd(p)) <=> Less(k, p) \/ Begins(k, p)
<1>. DEFINE e == PrefixEnd(p)
<1>1. /\ k \in Seq(Int) /\ p \in Seq(Int) /\ Len(k) \in Nat /\ Len(p) \in Nat
      /\ DOMAIN p = 1 .. Len(p) /\ DOMAIN k = 1 .. Len(k)
      /\ \A i \in 1 .. Len(p) : p[i] \in Int
      /\ \A i \in 1 .. Len(k) : k[i] \in Int
  <2>1. k \in Seq(Int) /\ p \in Seq(Int)
    BY BytesAreInts
  <2>. QED  BY <2>1
<1>2. CASE e = << >> /\ \A i \in 1 .. Len(p) : p[i] + 1 \notin Bytes
  <2>1. Less(k, p) \/ Begins(k, p)
    <3>1. /\ 0 \in Nat /\ 0 <= Len(k) /\ \A j \in 1 .. 0 : k[j] = p[j]
          /\ \A j \in 1 .. Len(p) : j > 0 => p[j] + 1 \notin Bytes
      BY <1>1, <1>2
    <3>. QED  BY <3>1, LargestAfter
  <2>. QED  BY <1>2, <2>1
<1>3. CASE \E m \in 1 .. Len(p) :
             /\ e \in Seq(Bytes) /\ Len(e) = m
             /\ \A i \in 1 .. m - 1 : e[i] = p[i]
             /\ e[m] = p[m] + 1
             /\ p[m] + 1 \in Bytes
             /\ \A i \in 1 .. Len(p) : i > m => p[i] + 1 \notin Bytes
  <2>1. PICK m \in 1 .. Len(p) :
             /\ e \in Seq(Bytes) /\ Len(e) = m
             /\ \A i \in 1 .. m - 1 : e[i] = p[i]
             /\ e[m] = p[m] + 1
             /\ p[m] + 1 \in Bytes
             /\ \A i \in 1 .. Len(p) : i > m => p[i] + 1 \notin Bytes
    BY <1>3
  <2>. HIDE DEF e
  <2>2. e \in Seq(Int) /\ DOMAIN e = 1 .. m /\ m \in Nat /\ m > 0 /\ e # << >>
    <3>1. e \in Seq(Int)
      BY <2>1, BytesAreInts
    <3>2. m \in Nat /\ m > 0
      BY <1>1
    <3>. QED  BY <2>1, <3>1, <3>2
  <2>3. p[m] \in Int /\ e[m] = p[m] + 1 /\ m <= Len(p)
    BY <1>1, <2>1
  <2>4. ASSUME Begins(k, p) PROVE Less(k, e)
    <3>1. Len(p) <= Len(k) /\ \A j \in 1 .. Len(p) : k[j] = p[j]
      BY <1>1, <2>4 DEF Begins
    <3>2. m \in DOMAIN e /\ m <= Len(k) + 1 /\ k[m] < e[m]
      BY <1>1, <2>2, <2>3, <3>1
    <3>3. \A j \in 1 .. m - 1 : j \in 1 .. Len(p) /\ k[j] = e[j]
      BY <1>1, <2>1, <2>2, <3>1
    <3>. QED  BY <3>2, <3>3 DEF Less
  <2>5. ASSUME Less(k, p) PROVE Less(k, e)
    <3>1. PICK i \in Nat \ {0} :
            /\ i <= Len(p) /\ i <= Len(k) + 1
            /\ i <= Len(k) => k[i] < p[i]
            /\ \A j \in 1 .. i - 1 : k[j] = p[j]
      BY <1>1, <2>5, LessAt, Zenon
    <3>2. CASE i < m
      <4>1. i \in DOMAIN e /\ i \in 1 .. m - 1 /\ (i \in DOMAIN k => k[i] < e[i])
        BY <1>1, <2>1, <2>2, <3>1, <3>2
      <4>2. \A j \in 1 .. i - 1 : j \in 1 .. m - 1 /\ k[j] = e[j]
        BY <2>1, <2>2, <3>1, <3>2
      <4>. QED  BY <3>1, <4>1, <4>2, Zenon DEF Less
    <3>3. CASE i = m
      <4>1. m \in DOMAIN e /\ m <= Len(k) + 1 /\ (m \in DOMAIN k => k[m] < e[m])
        BY <1>1, <2>2, <2>3, <3>1, <3>3
      <4>2. \A j \in 1 .. m - 1 : k[j] = e[j]
        BY <2>1, <3>1, <3>3
      <4>. QED  BY <4>1, <4>2 DEF Less
    <3>4. CASE i > m
      <4>1. m \in 1 .. i - 1 /\ m \in DOMAIN e /\ m <= Len(k) + 1
        BY <1>1, <2>2, <3>1, <3>4
      <4>2. k[m] < e[m]
        BY <2>3, <3>1, <4>1
      <4>3. \A j \in 1 .. m - 1 : j \in 1 .. i - 1 /\ k[j] = e[j]
        BY <2>1, <2>2, <3>1, <3>4
      <4>. QED  BY <4>1, <4>2, <4>3, Zenon DEF Less
    <3>. QED  BY <2>2, <3>1, <3>2, <3>3, <3>4
  <2>6. ASSUME Less(k, e) PROVE Less(k, p) \/ Begins(k, p)
    <3>1. PICK i \in Nat \ {0} :
            /\ i <= Len(e) /\ i <= Len(k) + 1
            /\ i <= Len(k) => k[i] < e[i]
            /\ \A j \in 1 .. i - 1 : k[j] = e[j]
      BY <1>1, <2>2, <2>6, LessAt, Zenon
    <3>2. i \in DOMAIN p /\ \A j \in 1 .. i - 1 : j \in 1 .. m - 1 /\ k[j] = p[j]
      BY <1>1, <2>1, <2>2, <2>3, <3>1
    <3>3. CASE i \in DOMAIN k => k[i] < p[i]
      BY <3>1, <3>2, <3>3 DEF Less
    <3>4. CASE i \in DOMAIN k /\ ~ (k[i] < p[i])
      <4>1. i <= Len(k) /\ k[i] \in Int /\ p[i] \in Int /\ k[i] < e[i]
        BY <1>1, <3>1, <3>2, <3>4
      <4>2. i = m
        <5>. SUFFICES ASSUME i # m PROVE FALSE
          OBVIOUS
        <5>1. i \in 1 .. m - 1
          BY <2>2, <3>1
        <5>2. e[i] = p[i]
          BY <2>1, <5>1
        <5>. QED  BY <3>4, <4>1, <5>2
      <4>3. k[m] = p[m]
        BY <2>3, <3>4, <4>1, <4>2
      <4>4. m <= Len(k) /\ \A j \in 1 .. m : k[j] = p[j]
        <5>1. \A j \in 1 .. m : j = m \/ j \in 1 .. m - 1
          BY <2>2
        <5>. QED  BY <3>2, <4>1, <4>2, <4>3, <5>1, Zenon
      <4>. QED  BY <2>1, <2>2, <4>4, LargestAfter
    <3>. QED  BY <3>3, <3>4
  <2>7. e \in Seq(Bytes) /\ (e = << >> \/ Less(k, e) <=> Less(k, p) \/ Begins(k, p))
    BY <2>1, <2>2, <2>4, <2>5, <2>6, Zenon
  <2>. QED  BY <2>7 DEF e
<1>. QED  BY <1>2, <1>3, PrefixEndFacts
------------------------------------------------------------------------------
(* The keys of a store *)

\* The prefix of a store, byte by byte.
LEMMA PrefixFacts ==
  ASSUME NEW n \in StoreNames
  PROVE  /\ PrefixOf(n) \in Seq(Bytes) /\ Len(n) \in Nat
         /\ Len(PrefixOf(n)) = Len(n) + 2
         /\ PrefixOf(n)[1] = StoresByte
         /\ \A i \in 1 .. Len(n) : PrefixOf(n)[i + 1] = n[i] /\ n[i] # Slash
         /\ PrefixOf(n)[Len(n) + 2] = Slash
         /\ n = [i \in 1 .. Len(n) |-> n[i]]
<1>1. n \in Seq(Bytes) /\ StoresByte \in Bytes /\ Slash \in Bytes
  BY BytesAssumption
<1>2. Len(n) \in Nat /\ n = [i \in 1 .. Len(n) |-> n[i]] /\ \A i \in 1 .. Len(n) : n[i] # Slash
  BY BytesAssumption
<1>. DEFINE q == << StoresByte >> \o n
<1>3. /\ q \in Seq(Bytes) /\ Len(q) = Len(n) + 1 /\ q[1] = StoresByte
      /\ \A i \in 1 .. Len(n) : q[i + 1] = n[i]
  BY <1>1
<1>4. PrefixOf(n) = q \o << Slash >>
  BY DEF PrefixOf
<1>. HIDE DEF q
<1>5. /\ PrefixOf(n) \in Seq(Bytes) /\ Len(PrefixOf(n)) = Len(n) + 2
      /\ \A i \in 1 .. Len(n) + 1 : PrefixOf(n)[i] = q[i]
      /\ PrefixOf(n)[Len(n) + 2] = Slash
  BY <1>1, <1>2, <1>3, <1>4
<1>6. 1 \in 1 .. Len(n) + 1 /\ \A i \in 1 .. Len(n) : i + 1 \in 1 .. Len(n) + 1
  BY <1>2
<1>. QED  BY <1>2, <1>3, <1>5, <1>6

\* A key that begins with the prefix of a store is of this store: its name ends at
\* the first slash.
LEMMA NamesEnd ==
  ASSUME NEW m \in StoreNames, NEW n \in StoreNames, NEW x \in Seq(Bytes),
         Begins(PrefixOf(m) \o x, PrefixOf(n))
  PROVE  m = n
<1>. DEFINE pm == PrefixOf(m)
            pn == PrefixOf(n)
            a == Len(m)
            b == Len(n)
            k == pm \o x
<1>1. /\ pm \in Seq(Bytes) /\ a \in Nat /\ Len(pm) = a + 2
      /\ \A i \in 1 .. a : pm[i + 1] = m[i] /\ m[i] # Slash
      /\ pm[a + 2] = Slash /\ m = [i \in 1 .. a |-> m[i]]
  BY PrefixFacts
<1>2. /\ pn \in Seq(Bytes) /\ b \in Nat /\ Len(pn) = b + 2
      /\ \A i \in 1 .. b : pn[i + 1] = n[i] /\ n[i] # Slash
      /\ pn[b + 2] = Slash /\ n = [i \in 1 .. b |-> n[i]]
  BY PrefixFacts
<1>3. \A i \in 1 .. Len(pm) : k[i] = pm[i]
  <2>. HIDE DEF pm
  <2>. QED  BY <1>1
<1>4. \A i \in 1 .. Len(pn) : k[i] = pn[i]
  <2>1. DOMAIN pn = 1 .. Len(pn)
    BY <1>2
  <2>. QED  BY <2>1 DEF Begins
<1>. HIDE DEF pm, pn, a, b, k
<1>5. \A i \in 1 .. a + 2 : i \in 1 .. b + 2 => pm[i] = pn[i]
  BY <1>1, <1>2, <1>3, <1>4, Zenon
<1>6. ~ (a < b)
  <2>. SUFFICES ASSUME a < b PROVE FALSE
    OBVIOUS
  <2>1. a + 2 \in 1 .. a + 2 /\ a + 2 \in 1 .. b + 2 /\ a + 1 \in 1 .. b /\ (a + 1) + 1 = a + 2
    BY <1>1, <1>2
  <2>. QED  BY <1>1, <1>2, <1>5, <2>1
<1>7. ~ (b < a)
  <2>. SUFFICES ASSUME b < a PROVE FALSE
    OBVIOUS
  <2>1. b + 2 \in 1 .. a + 2 /\ b + 2 \in 1 .. b + 2 /\ b + 1 \in 1 .. a /\ (b + 1) + 1 = b + 2
    BY <1>1, <1>2
  <2>. QED  BY <1>1, <1>2, <1>5, <2>1
<1>8. a = b
  BY <1>1, <1>2, <1>6, <1>7
<1>9. ASSUME NEW i \in 1 .. a PROVE m[i] = n[i]
  <2>1. i + 1 \in 1 .. a + 2 /\ i + 1 \in 1 .. b + 2 /\ i \in 1 .. b
    BY <1>1, <1>8
  <2>. QED  BY <1>1, <1>2, <1>5, <2>1, Zenon
<1>. QED  BY <1>1, <1>2, <1>8, <1>9, Zenon

\* The end of the prefix of a store, which is always there.
LEMMA StoreEnd ==
  ASSUME NEW n \in StoreNames
  PROVE  LET e == PrefixEnd(PrefixOf(n)) IN e \in Seq(Bytes) /\ Len(e) > 0 /\ e[1] = StoresByte
<1>. DEFINE p == PrefixOf(n)
            e == PrefixEnd(p)
            b == Len(n)
<1>1. p \in Seq(Bytes) /\ b \in Nat /\ Len(p) = b + 2 /\ p[1] = StoresByte /\ p[b + 2] = Slash
  BY PrefixFacts
<1>2. \/ /\ e = << >>
         /\ \A i \in 1 .. Len(p) : p[i] + 1 \notin Bytes
      \/ \E m \in 1 .. Len(p) :
           /\ e \in Seq(Bytes) /\ Len(e) = m
           /\ \A i \in 1 .. m - 1 : e[i] = p[i]
           /\ e[m] = p[m] + 1
           /\ p[m] + 1 \in Bytes
           /\ \A i \in 1 .. Len(p) : i > m => p[i] + 1 \notin Bytes
  BY <1>1, PrefixEndFacts
<1>. HIDE DEF p, e, b
<1>3. b + 2 \in 1 .. Len(p) /\ p[b + 2] + 1 \in Bytes
  BY <1>1, BytesAssumption
<1>4. PICK m \in 1 .. Len(p) :
        /\ e \in Seq(Bytes) /\ Len(e) = m
        /\ \A i \in 1 .. m - 1 : e[i] = p[i]
        /\ \A i \in 1 .. Len(p) : i > m => p[i] + 1 \notin Bytes
  BY <1>2, <1>3
<1>5. m = b + 2 /\ 1 \in 1 .. m - 1
  BY <1>1, <1>3, <1>4
<1>6. e \in Seq(Bytes) /\ Len(e) > 0 /\ e[1] = StoresByte
  BY <1>1, <1>4, <1>5
<1>. QED  BY <1>6 DEF e, p

\* Both bounds of a range of a store begin like its prefix.
LEMMA BoundsFacts ==
  ASSUME NEW n \in StoreNames, NEW start \in Seq(Bytes), NEW end \in Seq(Bytes)
  PROVE  LET lo == StoreBounds(n, start, end)[1]
             hi == StoreBounds(n, start, end)[2]
         IN  /\ lo = PrefixOf(n) \o start
             /\ hi = IF end = << >> THEN PrefixEnd(PrefixOf(n)) ELSE PrefixOf(n) \o end
             /\ lo \in Seq(Bytes) /\ Len(lo) > 0 /\ lo[1] = StoresByte
             /\ hi \in Seq(Bytes) /\ Len(hi) > 0 /\ hi[1] = StoresByte
<1>. DEFINE p == PrefixOf(n)
            h == IF end = << >> THEN PrefixEnd(p) ELSE p \o end
<1>1. StoreBounds(n, start, end)[1] = p \o start /\ StoreBounds(n, start, end)[2] = h
  BY DEF StoreBounds
<1>2. p \in Seq(Bytes) /\ Len(p) \in Nat /\ Len(p) > 0 /\ p[1] = StoresByte
  BY PrefixFacts
<1>3. ASSUME NEW x \in Seq(Bytes)
      PROVE  p \o x \in Seq(Bytes) /\ Len(p \o x) > 0 /\ (p \o x)[1] = StoresByte
  <2>. HIDE DEF p
  <2>. QED  BY <1>2
<1>4. h \in Seq(Bytes) /\ Len(h) > 0 /\ h[1] = StoresByte
  BY <1>3, StoreEnd
<1>. HIDE DEF h
<1>5. /\ p \o start \in Seq(Bytes) /\ Len(p \o start) > 0 /\ (p \o start)[1] = StoresByte
  BY <1>3
<1>. QED  BY <1>1, <1>4, <1>5 DEF h

\* Keys and their forms are sequences of numbers.
LEMMA KeysAreSequences ==
  /\ \A k \in Seq(Bytes) : k \in Seq(Int) /\ EncodeToString(k) \in Seq(Int)
  /\ \A s \in RawKeys : s \in Seq(Int)
  /\ \A n \in StoreNames, k \in SubKeys : PrefixOf(n) \o k \in Seq(Bytes)
  /\ SubKeys \subseteq Seq(Bytes)
<1>1. \A k \in Seq(Bytes) : k \in Seq(Int)
  BY BytesAreInts
<1>2. ASSUME NEW k \in Seq(Bytes) PROVE EncodeToString(k) \in Seq(Int)
  <2>1. EncodeToString(k) \in Seq(1 .. Base)
    BY EncodeFacts
  <2>2. 1 .. Base \subseteq Int
    OBVIOUS
  <2>. QED  BY <2>1, <2>2, LargerSeq, Zenon
<1>3. \A s \in RawKeys : s \in Seq(Int)
  <2>1. 0 .. Base + 1 \subseteq Int
    OBVIOUS
  <2>. QED  BY <2>1, KeysAssumption, LargerSeq, Zenon
<1>4. SubKeys \subseteq Seq(Bytes)
  BY BytesAssumption
<1>5. \A n \in StoreNames, k \in SubKeys : PrefixOf(n) \o k \in Seq(Bytes)
  BY <1>4, PrefixFacts
<1>. QED  BY <1>1, <1>2, <1>3, <1>4, <1>5, Zenon

\* A key of a store is in the range of a store if it is of this store and between
\* the bounds.
LEMMA StoreKeyInRange ==
  ASSUME NEW n \in StoreNames, NEW start \in Seq(Bytes), NEW end \in Seq(Bytes),
         NEW m \in StoreNames, NEW x \in Seq(Bytes)
  PROVE  LET bounds == StoreBounds(n, start, end)
         IN  InRange(EncodeToString(PrefixOf(m) \o x),
                     EncodeToString(bounds[1]), EncodeToString(bounds[2]))
               <=> m = n /\ InRange(x, start, end)
<1>. DEFINE lo == StoreBounds(n, start, end)[1]
            hi == StoreBounds(n, start, end)[2]
            p == PrefixOf(n)
            k == PrefixOf(m) \o x
<1>1. /\ lo = p \o start /\ hi = IF end = << >> THEN PrefixEnd(p) ELSE p \o end
      /\ lo \in Seq(Bytes) /\ hi \in Seq(Bytes) /\ Len(hi) > 0
  BY BoundsFacts, Zenon
<1>2. p \in Seq(Bytes) /\ p \in Seq(Int)
  BY PrefixFacts, KeysAreSequences
<1>3. k \in Seq(Bytes)
  BY PrefixFacts
<1>4. k \in Seq(Int) /\ lo \in Seq(Int) /\ hi \in Seq(Int) /\ x \in Seq(Int)
      /\ start \in Seq(Int) /\ end \in Seq(Int)
  BY <1>1, <1>3, KeysAreSequences
<1>5. InRange(EncodeToString(k), EncodeToString(lo), EncodeToString(hi)) <=>
        ~ Less(k, lo) /\ Less(k, hi)
  <2>1. Len(EncodeToString(hi)) > 0
    <3>1. Len(EncodeToString(hi)) = 2 * Len(hi)
      BY <1>1, EncodeFacts, Zenon
    <3>2. Len(hi) \in Nat /\ Len(hi) > 0
      BY <1>1
    <3>. HIDE DEF hi
    <3>. QED  BY <3>1, <3>2
  <2>2. EncodeToString(hi) # << >>
    BY <2>1
  <2>. QED  BY <1>1, <1>3, <2>2, EncodeOrder, Zenon DEF InRange
<1>6. Begins(lo, p) /\ (end # << >> => Begins(hi, p))
  BY <1>1, <1>2, <1>4, CommonPrefix
<1>. HIDE DEF lo, hi
<1>7. ASSUME ~ Less(k, lo), Less(k, hi) PROVE Begins(k, p)
  <2>1. Less(k, p) \/ Begins(k, p)
    <3>1. CASE end = << >>
      BY <1>1, <1>2, <1>3, <1>7, <3>1, BeforeEnd, Zenon
    <3>2. CASE end # << >>
      BY <1>2, <1>4, <1>6, <1>7, <3>2, BeforeOrBegins, Zenon
    <3>. QED  BY <3>1, <3>2
  <2>2. ~ Less(k, p)
    BY <1>2, <1>4, <1>6, <1>7, BeforeAll, Zenon
  <2>. QED  BY <2>1, <2>2
<1>8. ASSUME ~ Less(k, lo), Less(k, hi) PROVE m = n
  BY <1>7, <1>8, NamesEnd DEF p, k
<1>9. ASSUME m = n PROVE ~ Less(k, lo) /\ Less(k, hi) <=> InRange(x, start, end)
  <2>1. k = p \o x
    BY <1>9
  <2>. HIDE DEF k, p
  <2>2. Less(k, lo) <=> Less(x, start)
    BY <1>1, <1>2, <1>4, <2>1, CommonPrefix, Zenon
  <2>3. CASE end = << >>
    <3>1. Begins(k, p)
      BY <1>2, <1>4, <2>1, CommonPrefix
    <3>2. Less(k, hi)
      <4>1. hi # << >>
        BY <1>1
      <4>. QED  BY <1>1, <1>2, <1>3, <2>3, <3>1, <4>1, BeforeEnd, Zenon
    <3>. QED  BY <2>2, <2>3, <3>2 DEF InRange
  <2>4. CASE end # << >>
    <3>1. Less(k, hi) <=> Less(x, end)
      BY <1>1, <1>2, <1>4, <2>1, <2>4, CommonPrefix, Zenon
    <3>. QED  BY <2>2, <2>4, <3>1, Zenon DEF InRange
  <2>. QED  BY <2>3, <2>4
<1>. HIDE DEF k
<1>10. InRange(EncodeToString(k), EncodeToString(lo), EncodeToString(hi))
         <=> m = n /\ InRange(x, start, end)
  BY <1>5, <1>8, <1>9, Zenon
<1>. QED  BY <1>10 DEF lo, hi, k

\* What the chaincode puts as it is is in no range of a store.
LEMMA RawKeyNotInRange ==
  ASSUME NEW n \in StoreNames, NEW start \in Seq(Bytes), NEW end \in Seq(Bytes),
         NEW s \in RawKeys
  PROVE  LET bounds == StoreBounds(n, start, end)
         IN  ~ InRange(s, EncodeToString(bounds[1]), EncodeToString(bounds[2]))
<1>. DEFINE lo == StoreBounds(n, start, end)[1]
            hi == StoreBounds(n, start, end)[2]
            f == EncodeToString(<< StoresByte >>)
            el == EncodeToString(lo)
            eh == EncodeToString(hi)
<1>1. /\ lo \in Seq(Bytes) /\ Len(lo) > 0 /\ lo[1] = StoresByte
      /\ hi \in Seq(Bytes) /\ Len(hi) > 0 /\ hi[1] = StoresByte
  BY BoundsFacts, Zenon
<1>. HIDE DEF lo, hi
<1>2. StoresByte \in Bytes /\ << StoresByte >> \in Seq(Bytes)
  BY BytesAssumption
<1>3. Begins(el, f) /\ Begins(eh, f)
  BY <1>1, <1>2, EncodeFirst
<1>4. s \in Seq(Int) /\ el \in Seq(Int) /\ eh \in Seq(Int) /\ f \in Seq(Int)
  BY <1>1, <1>2, KeysAreSequences, Zenon
<1>5. Len(eh) > 0
  BY <1>1, EncodeFacts
<1>6. ~ Begins(s, f)
  BY KeysAssumption, Zenon
<1>. HIDE DEF f, el, eh
<1>7. eh # << >>
  BY <1>5
<1>8. ~ InRange(s, el, eh)
  <2>. SUFFICES ASSUME ~ Less(s, el), Less(s, eh) PROVE FALSE
    BY <1>7, Zenon DEF InRange
  <2>1. Less(s, f)
    BY <1>3, <1>4, <1>6, BeforeOrBegins, Zenon
  <2>. QED  BY <1>3, <1>4, <2>1, BeforeAll, Zenon
<1>. QED  BY <1>8 DEF el, eh, lo, hi
------------------------------------------------------------------------------
(* What the state database returns *)

\* The number of keys of S before s, and the keys of S by this number.
Rank(S, s) == Cardinality({r \in S : Less(r, s)})
InOrder(S) == [i \in 1 .. Cardinality(S) |-> CHOOSE s \in S : Rank(S, s) = i - 1]

\* A key has fewer keys before it than one that it is before.
LEMMA RankGrows ==
  ASSUME NEW S, S \subseteq Seq(Int), IsFiniteSet(S), NEW r \in S, NEW s \in S, Less(r, s)
  PROVE  Rank(S, r) \in Nat /\ Rank(S, s) \in Nat /\ Rank(S, r) < Rank(S, s)
<1>. DEFINE R == {q \in S : Less(q, r)}
            T == {q \in S : Less(q, s)}
<1>1. R \subseteq S /\ T \subseteq S
  OBVIOUS
<1>2. r \notin R
  BY LessAsymmetric
<1>3. R \cup {r} \subseteq T
  BY LessTransitive
<1>4. Cardinality(R) = Rank(S, r) /\ Cardinality(T) = Rank(S, s)
  BY DEF Rank
<1>. HIDE DEF R, T
<1>5. IsFiniteSet(R) /\ IsFiniteSet(T) /\ Cardinality(R) \in Nat /\ Cardinality(T) \in Nat
  BY <1>1, FS_Subset, FS_CardinalityType
<1>6. Cardinality(R \cup {r}) = Cardinality(R) + 1
  BY <1>2, <1>5, FS_AddElement, Zenon
<1>7. Cardinality(R \cup {r}) <= Cardinality(T)
  BY <1>3, <1>5, FS_Subset, Zenon
<1>. QED  BY <1>4, <1>5, <1>6, <1>7

\* Every number below the number of keys is the one of some key.
LEMMA RankTaken ==
  ASSUME NEW S, S \subseteq Seq(Int), IsFiniteSet(S)
  PROVE  /\ Cardinality(S) \in Nat
         /\ \A s \in S : Rank(S, s) \in 0 .. Cardinality(S) - 1
         /\ \A i \in 0 .. Cardinality(S) - 1 : \E s \in S : Rank(S, s) = i
<1>. DEFINE N == Cardinality(S)
            T == 0 .. N - 1
            f == [s \in S |-> Rank(S, s)]
<1>1. N \in Nat
  BY FS_CardinalityType
<1>2. ASSUME NEW s \in S PROVE Rank(S, s) \in T
  <2>. DEFINE R == {q \in S : Less(q, s)}
  <2>1. R \subseteq S \ {s}
    BY LessAsymmetric
  <2>2. Rank(S, s) = Cardinality(R)
    BY DEF Rank
  <2>. HIDE DEF R
  <2>3. IsFiniteSet(S \ {s}) /\ Cardinality(S \ {s}) = N - 1
    BY FS_RemoveElement
  <2>4. IsFiniteSet(R) /\ Cardinality(R) <= N - 1
    BY <2>1, <2>3, FS_Subset
  <2>5. Cardinality(R) \in Nat
    BY <2>4, FS_CardinalityType
  <2>. QED  BY <1>1, <2>2, <2>4, <2>5
<1>3. ASSUME NEW r \in S, NEW s \in S, Rank(S, r) = Rank(S, s) PROVE r = s
  <2>. SUFFICES ASSUME r # s PROVE FALSE
    OBVIOUS
  <2>1. Less(r, s) \/ Less(s, r)
    BY LessTotal
  <2>2. Rank(S, r) < Rank(S, s) \/ Rank(S, s) < Rank(S, r)
    BY <2>1, RankGrows, Zenon
  <2>3. Rank(S, r) \in Int
    BY <1>1, <1>2
  <2>. QED  BY <1>3, <2>2, <2>3
<1>4. f \in Injection(S, T)
  BY <1>2, <1>3 DEF Injection, IsInjective
<1>5. IsFiniteSet(T) /\ Cardinality(T) = N
  <2>1. 0 \in Int /\ N - 1 \in Int
    BY <1>1
  <2>2. IsFiniteSet(T) /\ Cardinality(T) = IF 0 > N - 1 THEN 0 ELSE N - 1 - 0 + 1
    BY <2>1, FS_Interval, Zenon
  <2>. HIDE DEF T
  <2>. QED  BY <1>1, <2>2
<1>. HIDE DEF T, N, f
<1>6. f \in Surjection(S, T)
  BY <1>4, <1>5, FS_Injection, Zenon DEF N
<1>7. \A i \in T : \E s \in S : f[s] = i
  BY <1>6 DEF Surjection
<1>8. \A i \in T : \E s \in S : Rank(S, s) = i
  BY <1>7 DEF f
<1>. QED  BY <1>1, <1>2, <1>8 DEF N, T

\* The keys by their number are all keys, each once, in order.
LEMMA InOrderFacts ==
  ASSUME NEW S, S \subseteq Seq(Int), IsFiniteSet(S)
  PROVE  /\ \A i \in 1 .. Cardinality(S) : InOrder(S)[i] \in S
         /\ \A s \in S : \E i \in 1 .. Cardinality(S) : InOrder(S)[i] = s
         /\ \A i, j \in 1 .. Cardinality(S) : i < j => Less(InOrder(S)[i], InOrder(S)[j])
<1>. DEFINE N == Cardinality(S)
            g == InOrder(S)
<1>1. /\ N \in Nat
      /\ \A s \in S : Rank(S, s) \in 0 .. N - 1
      /\ \A i \in 0 .. N - 1 : \E s \in S : Rank(S, s) = i
  BY RankTaken
<1>2. ASSUME NEW i \in 1 .. N PROVE g[i] \in S /\ Rank(S, g[i]) = i - 1
  <2>1. i - 1 \in 0 .. N - 1
    BY <1>1
  <2>2. g[i] = CHOOSE s \in S : Rank(S, s) = i - 1
    BY DEF InOrder
  <2>. HIDE DEF g
  <2>. QED  BY <1>1, <2>1, <2>2
<1>. HIDE DEF g, N
<1>3. ASSUME NEW i \in 1 .. N, NEW j \in 1 .. N, i < j PROVE Less(g[i], g[j])
  <2>. SUFFICES ASSUME ~ Less(g[i], g[j]) PROVE FALSE
    OBVIOUS
  <2>1. /\ g[i] \in S /\ g[j] \in S /\ Rank(S, g[i]) = i - 1 /\ Rank(S, g[j]) = j - 1
    BY <1>2
  <2>2. g[i] # g[j]
    BY <1>1, <1>3, <2>1
  <2>3. Less(g[j], g[i])
    BY <2>1, <2>2, LessTotal
  <2>4. Rank(S, g[j]) < Rank(S, g[i])
    BY <2>1, <2>3, RankGrows, Zenon
  <2>. QED  BY <1>1, <1>3, <2>1, <2>4
<1>4. ASSUME NEW s \in S PROVE \E i \in 1 .. N : g[i] = s
  <2>1. PICK i \in 1 .. N : Rank(S, s) = i - 1
    <3>1. Rank(S, s) + 1 \in 1 .. N /\ Rank(S, s) = (Rank(S, s) + 1) - 1
      BY <1>1
    <3>. QED  BY <3>1
  <2>2. g[i] \in S /\ Rank(S, g[i]) = i - 1
    BY <1>2
  <2>3. g[i] = s
    <3>. SUFFICES ASSUME g[i] # s PROVE FALSE
      OBVIOUS
    <3>1. Less(g[i], s) \/ Less(s, g[i])
      BY <2>2, LessTotal
    <3>2. Rank(S, g[i]) < Rank(S, s) \/ Rank(S, s) < Rank(S, g[i])
      BY <2>2, <3>1, RankGrows
    <3>. QED  BY <2>1, <2>2, <3>2
  <2>. QED  BY <2>3
<1>. QED  BY <1>2, <1>3, <1>4 DEF g, N

\* The keys of the database are those of the stores, each with the prefix of its store.
LEMMA DBKeysAre ==
  \A k : k \in DBKeys <=> \E m \in StoreNames, x \in SubKeys : k = PrefixOf(m) \o x
<1>. DEFINE Key(m, x) == PrefixOf(m) \o x
<1>1. DBKeys = {Key(m, x) : m \in StoreNames, x \in SubKeys}
  BY DEF DBKeys
<1>. HIDE DEF Key
<1>2. \A k : k \in DBKeys <=> \E m \in StoreNames, x \in SubKeys : k = Key(m, x)
  BY <1>1
<1>. QED  BY <1>2, Zenon DEF Key

\* The state keys that a range query finds, and the keys that a store holds in a range.
FoundIn(lo, hi) == {s \in StateKeys : world[s] # Nil /\ InRange(s, lo, hi)}
Held(n, start, end) ==
  {x \in SubKeys : Get(PrefixOf(n) \o x) # Nil /\ InRange(x, start, end)}

\* The state keys of a range of a store are those of its content.
LEMMA FoundFacts ==
  ASSUME NEW n \in StoreNames, NEW start \in Seq(Bytes), NEW end \in Seq(Bytes)
  PROVE  LET bounds == StoreBounds(n, start, end)
         IN  FoundIn(EncodeToString(bounds[1]), EncodeToString(bounds[2])) =
               {EncodeToString(PrefixOf(n) \o x) : x \in Held(n, start, end)}
<1>. DEFINE lo == EncodeToString(StoreBounds(n, start, end)[1])
            hi == EncodeToString(StoreBounds(n, start, end)[2])
            Of(x) == EncodeToString(PrefixOf(n) \o x)
<1>1. \A m \in StoreNames, x \in SubKeys :
        InRange(EncodeToString(PrefixOf(m) \o x), lo, hi) <=> m = n /\ InRange(x, start, end)
  <2>. SUFFICES ASSUME NEW m \in StoreNames, NEW x \in SubKeys
                PROVE  InRange(EncodeToString(PrefixOf(m) \o x), lo, hi)
                         <=> m = n /\ InRange(x, start, end)
    OBVIOUS
  <2>1. x \in Seq(Bytes)
    BY KeysAreSequences
  <2>. QED  BY <2>1, StoreKeyInRange, Zenon
<1>2. \A s \in RawKeys : ~ InRange(s, lo, hi)
  BY RawKeyNotInRange, Zenon
<1>. HIDE DEF lo, hi
<1>3. ASSUME NEW s \in FoundIn(lo, hi) PROVE \E x \in Held(n, start, end) : s = Of(x)
  <2>1. s \in StateKeys /\ world[s] # Nil /\ InRange(s, lo, hi)
    BY DEF FoundIn
  <2>2. s \notin RawKeys
    BY <1>2, <2>1
  <2>3. PICK m \in StoreNames, x \in SubKeys : s = EncodeToString(PrefixOf(m) \o x)
    <3>1. PICK k \in DBKeys : s = EncodeToString(k)
      BY <2>1, <2>2 DEF StateKeys
    <3>2. PICK m \in StoreNames, x \in SubKeys : k = PrefixOf(m) \o x
      BY DBKeysAre, Zenon
    <3>. QED  BY <3>1, <3>2, Zenon
  <2>4. m = n /\ InRange(x, start, end)
    BY <1>1, <2>1, <2>3, Zenon
  <2>5. x \in Held(n, start, end)
    BY <2>1, <2>3, <2>4 DEF Held, Get, GetState
  <2>. QED  BY <2>3, <2>4, <2>5, Zenon
<1>4. ASSUME NEW x \in Held(n, start, end) PROVE Of(x) \in FoundIn(lo, hi)
  <2>1. x \in SubKeys /\ world[Of(x)] # Nil /\ InRange(x, start, end)
    BY DEF Held, Get, GetState
  <2>2. Of(x) \in StateKeys
    <3>1. PrefixOf(n) \o x \in DBKeys
      BY <2>1, DBKeysAre, Zenon
    <3>. QED  BY <3>1, Zenon DEF StateKeys
  <2>3. InRange(Of(x), lo, hi)
    BY <1>1, <2>1
  <2>. QED  BY <2>1, <2>2, <2>3, Zenon DEF FoundIn
<1>. HIDE DEF Of
<1>5. FoundIn(lo, hi) = {Of(x) : x \in Held(n, start, end)}
  BY <1>3, <1>4, Zenon
<1>. QED  BY <1>5, Zenon DEF lo, hi, Of

\* An iterator over any range of a store goes through its content, in order.
LEMMA IteratorFacts ==
  ASSUME NEW n \in StoreNames, NEW start \in Seq(Bytes), NEW end \in Seq(Bytes)
  PROVE  LET bounds == StoreBounds(n, start, end)
             items == Iterator(bounds[1], bounds[2])
         IN  /\ \E N \in Nat : DOMAIN items = 1 .. N
             /\ Range(items) = Content(n, start, end)
             /\ Ascending(items)
<1>. DEFINE bounds == StoreBounds(n, start, end)
            lo == EncodeToString(bounds[1])
            hi == EncodeToString(bounds[2])
            S == FoundIn(lo, hi)
            g == InOrder(S)
            N == Cardinality(S)
            items == Iterator(bounds[1], bounds[2])
            P(x) == PrefixOf(n) \o x
            H == Held(n, start, end)
<1>1. S = {EncodeToString(P(x)) : x \in H}
  BY FoundFacts, Zenon
<1>2. IsFiniteSet(S)
  <2>1. S \subseteq StateKeys
    BY DEF FoundIn
  <2>. HIDE DEF S
  <2>. QED  BY <2>1, KeysAssumption, FS_Subset
<1>3. ASSUME NEW x \in H
      PROVE  P(x) \in Seq(Bytes) /\ DecodeString(EncodeToString(P(x))) = P(x)
             /\ EncodeToString(P(x)) \in Seq(Int)
  <2>1. P(x) \in Seq(Bytes)
    BY KeysAreSequences, Zenon DEF Held
  <2>. HIDE DEF P
  <2>. QED  BY <2>1, KeysAreSequences, DecodeEncode, Zenon
<1>4. items = [i \in 1 .. N |-> << DecodeString(g[i]), world[g[i]] >>]
  BY Zenon DEF Iterator, NewIterator, GetStateByRange, GetState, FoundIn, InOrder, Rank
<1>5. Content(n, start, end) = {<< P(x), world[EncodeToString(P(x))] >> : x \in H}
  BY DEF Content, Held, Get, GetState
<1>. HIDE DEF items, P, H, S
<1>6. S \subseteq Seq(Int)
  BY <1>1, <1>3, Zenon
<1>7. /\ \A i \in 1 .. N : g[i] \in S
      /\ \A s \in S : \E i \in 1 .. N : g[i] = s
      /\ \A i, j \in 1 .. N : i < j => Less(g[i], g[j])
  BY <1>2, <1>6, InOrderFacts, Zenon
<1>8. N \in Nat
  BY <1>2, FS_CardinalityType, Zenon
<1>. HIDE DEF g, N
<1>9. ASSUME NEW i \in 1 .. N
      PROVE  \E x \in H : /\ g[i] = EncodeToString(P(x))
                          /\ items[i] = << P(x), world[EncodeToString(P(x))] >>
  <2>1. PICK x \in H : g[i] = EncodeToString(P(x))
    BY <1>1, <1>7, Zenon
  <2>2. items[i] = << DecodeString(g[i]), world[g[i]] >>
    BY <1>4
  <2>3. DecodeString(g[i]) = P(x)
    BY <1>3, <2>1, Zenon
  <2>. QED  BY <2>1, <2>2, <2>3, Zenon
<1>10. DOMAIN items = 1 .. N
  BY <1>4
<1>11. Range(items) = Content(n, start, end)
  <2>1. ASSUME NEW e \in Range(items) PROVE e \in Content(n, start, end)
    <3>1. PICK i \in 1 .. N : e = items[i]
      BY <1>10 DEF Range
    <3>. QED  BY <1>5, <1>9, <3>1, Zenon
  <2>2. ASSUME NEW e \in Content(n, start, end) PROVE e \in Range(items)
    <3>1. PICK x \in H : e = << P(x), world[EncodeToString(P(x))] >>
      BY <1>5
    <3>2. PICK i \in 1 .. N : g[i] = EncodeToString(P(x))
      BY <1>1, <1>7, Zenon
    <3>3. items[i] = << DecodeString(g[i]), world[g[i]] >>
      BY <1>4, Zenon
    <3>4. items[i] = e
      BY <1>3, <3>1, <3>2, <3>3, Zenon
    <3>. QED  BY <1>10, <3>4, Zenon DEF Range
  <2>. QED  BY <2>1, <2>2, Zenon
<1>12. Ascending(items)
  <2>. SUFFICES ASSUME NEW i \in 1 .. N, NEW j \in 1 .. N, i < j
                PROVE  Less(items[i][1], items[j][1])
    BY <1>10 DEF Ascending
  <2>1. PICK x \in H : g[i] = EncodeToString(P(x)) /\ items[i][1] = P(x)
    BY <1>9
  <2>2. PICK y \in H : g[j] = EncodeToString(P(y)) /\ items[j][1] = P(y)
    BY <1>9
  <2>3. Less(g[i], g[j])
    BY <1>7
  <2>4. P(x) \in Seq(Bytes) /\ P(y) \in Seq(Bytes)
    BY <1>3
  <2>. QED  BY <2>1, <2>2, <2>3, <2>4, EncodeOrder, Zenon
<1>. QED  BY <1>8, <1>10, <1>11, <1>12 DEF items

\* Reversing twice changes nothing.
LEMMA ReverseTwice ==
  ASSUME NEW N \in Nat, NEW f, NEW items, items = [i \in 1 .. N |-> f[i]]
  PROVE  Reverse(Reverse(items)) = items
<1>. DEFINE r == Reverse(items)
<1>1. DOMAIN items = 1 .. N /\ Len(items) = N
  OBVIOUS
<1>2. r = [i \in 1 .. N |-> items[N + 1 - i]]
  BY <1>1 DEF Reverse
<1>. HIDE DEF r
<1>3. DOMAIN r = 1 .. N /\ Len(r) = N
  BY <1>2
<1>4. Reverse(r) = [i \in 1 .. N |-> r[N + 1 - i]]
  BY <1>3 DEF Reverse
<1>5. ASSUME NEW i \in 1 .. N PROVE r[N + 1 - i] = items[i]
  <2>1. N + 1 - i \in 1 .. N /\ N + 1 - (N + 1 - i) = i
    OBVIOUS
  <2>2. r[N + 1 - i] = items[N + 1 - (N + 1 - i)]
    BY <1>2, <2>1, Zenon
  <2>. QED  BY <2>1, <2>2
<1>6. Reverse(r) = items
  <2>1. items = [i \in 1 .. N |-> items[i]]
    BY <1>1
  <2>. HIDE DEF r
  <2>. QED  BY <1>4, <1>5, <2>1, Zenon
<1>. QED  BY <1>6 DEF r
------------------------------------------------------------------------------
(* Iterators and queries *)

\* Iterators are exact, whatever the state holds.
LEMMA AllIteratorsExact == IteratorsExact
<1>. SUFFICES ASSUME NEW n \in StoreNames,
                     NEW start \in SubKeys \cup {<< >>}, NEW end \in SubKeys \cup {<< >>}
              PROVE  LET bounds == StoreBounds(n, start, end)
                         items == Iterator(bounds[1], bounds[2])
                     IN  /\ Range(items) = Content(n, start, end)
                         /\ Ascending(items)
                         /\ Ascending(Reverse(ReverseIterator(bounds[1], bounds[2])))
  BY Zenon DEF IteratorsExact
<1>. DEFINE bounds == StoreBounds(n, start, end)
            items == Iterator(bounds[1], bounds[2])
<1>1. start \in Seq(Bytes) /\ end \in Seq(Bytes)
  <2>1. << >> \in Seq(Bytes)
    OBVIOUS
  <2>. QED  BY <2>1, KeysAreSequences, Zenon
<1>2. /\ \E N \in Nat : DOMAIN items = 1 .. N
      /\ Range(items) = Content(n, start, end)
      /\ Ascending(items)
  BY <1>1, IteratorFacts, Zenon
<1>3. Reverse(ReverseIterator(bounds[1], bounds[2])) = items
  <2>1. PICK N \in Nat : DOMAIN items = 1 .. N
    BY <1>2, Zenon
  <2>2. items = [i \in DOMAIN items |-> items[i]]
    <3>1. \E f, S : items = [i \in S |-> f[i]]
      <4>. DEFINE found == GetStateByRange(EncodeToString(bounds[1]), EncodeToString(bounds[2]))
                  f == [i \in DOMAIN found |-> << DecodeString(found[i]), GetState(found[i]) >>]
      <4>1. items = f
        BY Zenon DEF Iterator, NewIterator
      <4>2. f = [i \in DOMAIN found |-> f[i]]
        <5>. HIDE DEF found
        <5>. QED  OBVIOUS
      <4>. HIDE DEF f
      <4>. QED  BY <4>1, <4>2, Zenon
    <3>. HIDE DEF items
    <3>. QED  BY <3>1
  <2>3. items = [i \in 1 .. N |-> items[i]]
    BY <2>1, <2>2, Zenon
  <2>. HIDE DEF items
  <2>4. Reverse(Reverse(items)) = items
    BY <2>3, ReverseTwice, Zenon
  <2>. QED  BY <2>4, Zenon DEF ReverseIterator, items
<1>. QED  BY <1>2, <1>3, Zenon

\* The keys of a store in the range of a prefix are those that begin with it.
LEMMA PrefixRange ==
  ASSUME NEW x \in Seq(Bytes), NEW p \in Seq(Bytes)
  PROVE  /\ InRange(x, p, PrefixEnd(p)) <=> Begins(x, p)
         /\ InRange(x, << >>, << >>)
<1>1. x \in Seq(Int) /\ p \in Seq(Int)
  BY KeysAreSequences
<1>2. PrefixEnd(p) = << >> \/ Less(x, PrefixEnd(p)) <=> Less(x, p) \/ Begins(x, p)
  BY BeforeEnd
<1>3. Begins(x, p) => ~ Less(x, p)
  BY <1>1, NotBefore
<1>4. ~ Less(x, << >>)
  BY DEF Less
<1>. QED  BY <1>2, <1>3, <1>4, Zenon DEF InRange

\* Queries of subspaces are exact, whatever the state holds.
LEMMA AllSubspacesExact == SubspacesExact
<1>. SUFFICES ASSUME NEW n \in StoreNames, NEW k \in SubKeys, NEW i \in DOMAIN k
              PROVE  LET p == SubSeq(k, 1, i)
                         items == Query(<< "store", n, "/subspace" >>, p)
                     IN  /\ Range(items) = {item \in Content(n, << >>, << >>) :
                                              Begins(item[1], PrefixOf(n) \o p)}
                         /\ Ascending(items)
  BY Zenon DEF SubspacesExact
<1>. DEFINE p == SubSeq(k, 1, i)
            e == PrefixEnd(p)
            bounds == StoreBounds(n, p, e)
            items == Query(<< "store", n, "/subspace" >>, p)
            pn == PrefixOf(n)
<1>1. p \in Seq(Bytes) /\ p # << >>
  <2>1. k \in Seq(Bytes) /\ i \in 1 .. Len(k)
    BY KeysAreSequences
  <2>2. p \in Seq(Bytes) /\ Len(p) = i
    BY <2>1
  <2>. QED  BY <2>1, <2>2
<1>. HIDE DEF p
<1>2. items = Iterator(bounds[1], bounds[2])
  <2>1. AdapterQuery(n, "/subspace", p) = Iterator(bounds[1], bounds[2])
    BY <1>1 DEF AdapterQuery
  <2>2. StoreQuery(n, "/subspace", p) = AdapterQuery(n, "/subspace", p)
    BY DEF StoreQuery
  <2>. DEFINE path == << "store", n, "/subspace" >>
  <2>3. Len(path) = 3 /\ path[1] = "store" /\ path[2] = n /\ path[3] = "/subspace"
    OBVIOUS
  <2>. HIDE DEF path
  <2>4. Query(path, p) = StoreQuery(n, "/subspace", p)
    BY <2>3 DEF Query
  <2>. QED  BY <2>1, <2>2, <2>4, Zenon DEF path
<1>3. e \in Seq(Bytes)
  BY <1>1, BeforeEnd
<1>4. Range(items) = Content(n, p, e) /\ Ascending(items)
  <2>. HIDE DEF e
  <2>1. /\ Range(Iterator(bounds[1], bounds[2])) = Content(n, p, e)
        /\ Ascending(Iterator(bounds[1], bounds[2]))
    BY <1>1, <1>3, IteratorFacts, Zenon
  <2>. QED  BY <1>2, <2>1, Zenon
<1>5. pn \in Seq(Int) /\ p \in Seq(Int)
  BY <1>1, PrefixFacts, KeysAreSequences, Zenon
<1>6. ASSUME NEW x \in SubKeys
      PROVE  /\ InRange(x, p, e) <=> Begins(pn \o x, pn \o p)
             /\ InRange(x, << >>, << >>)
  <2>1. x \in Seq(Bytes) /\ x \in Seq(Int)
    BY KeysAreSequences
  <2>2. Begins(pn \o x, pn \o p) <=> Begins(x, p)
    <3>. HIDE DEF pn
    <3>. QED  BY <1>5, <2>1, CommonPrefix
  <2>. QED  BY <1>1, <2>1, <2>2, PrefixRange, Zenon
<1>. DEFINE Item(x) == << pn \o x, Get(pn \o x) >>
            All == Content(n, << >>, << >>)
<1>7. Content(n, p, e) = {Item(x) : x \in {y \in SubKeys : Get(pn \o y) # Nil /\ InRange(y, p, e)}}
  BY Zenon DEF Content
<1>8. All = {Item(x) : x \in {y \in SubKeys : Get(pn \o y) # Nil /\ InRange(y, << >>, << >>)}}
  BY Zenon DEF Content
<1>9. \A x : Item(x)[1] = pn \o x
  OBVIOUS
<1>. HIDE DEF Item, All, e, pn
<1>10. Content(n, p, e) = {item \in All : Begins(item[1], pn \o p)}
  BY <1>6, <1>7, <1>8, <1>9, Zenon
<1>. QED  BY <1>4, <1>10 DEF p, pn, All

\* Iterators and queries of subspaces return exactly the keys of their range, in
\* order, for any base, stores, keys and contents of the state: no key of another
\* store, none of the chaincode itself, and none missing (Iterator,
\* ReverseIterator, commitDBStoreAdapter.Query).
THEOREM RangesAreExact == Spec => []RangesExact
<1>1. RangesExact
  BY AllIteratorsExact, AllSubspacesExact DEF RangesExact
<1>. QED  BY <1>1, PTL
------------------------------------------------------------------------------
(* Batches *)

Commands == DBKeys \X (DBValues \cup {Nil})

\* The write set after each number of commands.
Executed(w, commands) ==
  CHOOSE f : f = [n \in 0 .. Len(commands) |->
                    IF n = 0 THEN w
                    ELSE [f[n - 1] EXCEPT ![EncodeToString(commands[n][1])] = commands[n][2]]]

\* The recursion has a solution, however many commands there are.
LEMMA ExecutedDef ==
  ASSUME NEW w, NEW commands \in Seq(Commands)
  PROVE  Executed(w, commands) =
           [n \in 0 .. Len(commands) |->
              IF n = 0 THEN w
              ELSE [Executed(w, commands)[n - 1] EXCEPT
                      ![EncodeToString(commands[n][1])] = commands[n][2]]]
<1>. DEFINE Put(u, c) == [u EXCEPT ![EncodeToString(c[1])] = c[2]]
            Step(f, m) == IF m = 0 THEN w ELSE Put(f[m - 1], commands[m])
            Upto(f, n) == f = [m \in 0 .. n |-> Step(f, m)]
            N == Len(commands)
            Bad == {n \in 0 .. N : ~ \E f : Upto(f, n)}
<1>1. Executed(w, commands) = CHOOSE f : Upto(f, N)
  BY DEF Executed
<1>. HIDE DEF Put
<1>2. Bad = {}
  <2>. SUFFICES ASSUME Bad # {} PROVE FALSE
    BY Zenon
  <2>1. PICK n \in Bad : \A k \in Bad : n <= k
    <3>1. Bad \subseteq Nat
      OBVIOUS
    <3>. HIDE DEF Bad
    <3>. QED  BY <3>1, NatMin, Zenon
  <2>2. CASE n = 0
    <3>1. 0 .. n = {0}
      BY <2>2
    <3>2. Upto([m \in 0 .. n |-> w], n)
      BY <3>1, Zenon
    <3>. QED  BY <2>1, <3>2, Zenon
  <2>3. CASE n # 0
    <3>1. n - 1 \in 0 .. N /\ n - 1 \notin Bad /\ n \in Nat
      <4>1. n \in 0 .. N
        BY <2>1
      <4>. HIDE DEF Bad
      <4>. QED  BY <2>1, <2>3, <4>1
    <3>2. PICK f : Upto(f, n - 1)
      BY <3>1, Zenon
    <3>. DEFINE g == [m \in 0 .. n |-> IF m = n THEN Put(f[n - 1], commands[n]) ELSE f[m]]
    <3>3. ASSUME NEW m \in 0 .. n PROVE g[m] = Step(g, m)
      <4>1. CASE m = n
        <5>1. n - 1 \in 0 .. n /\ n - 1 # n
          BY <2>3, <3>1
        <5>. QED  BY <2>3, <4>1, <5>1, Zenon
      <4>2. CASE m # n
        <5>1. m \in 0 .. n - 1
          BY <4>2, <3>1
        <5>2. g[m] = Step(f, m)
          BY <4>2, <5>1, <3>2, Zenon
        <5>3. m # 0 => m - 1 \in 0 .. n /\ m - 1 # n
          BY <3>1, <4>2
        <5>. QED  BY <5>2, <5>3, Zenon
      <4>. QED  BY <4>1, <4>2, Zenon
    <3>4. Upto(g, n)
      <4>. HIDE DEF Step
      <4>. QED  BY <3>3, Zenon
    <3>. QED  BY <2>1, <3>4, Zenon
  <2>. QED  BY <2>2, <2>3
<1>3. \E f : Upto(f, N)
  <2>1. N \in 0 .. N
    OBVIOUS
  <2>. HIDE DEF Upto
  <2>. QED  BY <1>2, <2>1
<1>4. Upto(Executed(w, commands), N)
  <2>. HIDE DEF Upto
  <2>. QED  BY <1>1, <1>3, Zenon
<1>. QED  BY <1>4, Zenon DEF Put

\* The commands for s among the first n.
CommandsUpto(commands, n, s) == {i \in 1 .. n : EncodeToString(commands[i][1]) = s}

\* What the first n commands have put.
PutBy(w, commands, n, s) ==
  IF CommandsUpto(commands, n, s) = {} THEN w[s]
  ELSE commands[Max(CommandsUpto(commands, n, s))][2]

\* One more command for s replaces what was there; one for another key does not.
LEMMA OneMoreCommand ==
  ASSUME NEW w, NEW commands \in Seq(Commands), NEW n \in 1 .. Len(commands), NEW s
  PROVE  PutBy(w, commands, n, s) = IF EncodeToString(commands[n][1]) = s THEN commands[n][2]
                                    ELSE PutBy(w, commands, n - 1, s)
<1>. DEFINE I == CommandsUpto(commands, n, s)
            J == CommandsUpto(commands, n - 1, s)
<1>1. \A i \in 1 .. n : i = n \/ i \in 1 .. n - 1
  OBVIOUS
<1>2. n \in 1 .. n /\ \A i \in 1 .. n - 1 : i \in 1 .. n
  OBVIOUS
<1>3. CASE EncodeToString(commands[n][1]) = s
  <2>1. n \in I /\ I \subseteq Int /\ \A i \in I : i <= n
    BY <1>2, <1>3 DEF CommandsUpto
  <2>2. Max(I) = n
    <3>. HIDE DEF I
    <3>. QED  BY <2>1, MaxOf, Zenon
  <2>. QED  BY <1>3, <2>1, <2>2, Zenon DEF PutBy
<1>4. CASE EncodeToString(commands[n][1]) # s
  <2>1. I = J
    BY <1>1, <1>2, <1>4, Zenon DEF CommandsUpto
  <2>. QED  BY <1>4, <2>1, Zenon DEF PutBy
<1>. QED  BY <1>3, <1>4

\* Exec puts the last command for each key.
LEMMA ExecFacts ==
  ASSUME NEW w, w = [s \in StateKeys |-> w[s]], NEW commands \in Seq(Commands)
  PROVE  Exec(w, commands) = [s \in StateKeys |-> PutBy(w, commands, Len(commands), s)]
<1>. DEFINE N == Len(commands)
            f == Executed(w, commands)
            key(n) == EncodeToString(commands[n][1])
            Put(u, n) == [u EXCEPT ![key(n)] = commands[n][2]]
            Good(n) == f[n] = [s \in StateKeys |-> PutBy(w, commands, n, s)]
            Bad == {n \in 0 .. N : ~ Good(n)}
<1>1. Exec(w, commands) = f[N]
  BY DEF Exec, Executed
<1>2. f = [n \in 0 .. N |-> IF n = 0 THEN w ELSE Put(f[n - 1], n)]
  BY ExecutedDef
<1>3. N \in Nat
  OBVIOUS
<1>. HIDE DEF f, N, Put
<1>4. f[0] = w /\ \A n \in 1 .. N : f[n] = Put(f[n - 1], n)
  BY <1>2, <1>3
<1>5. Good(0)
  <2>1. \A s : CommandsUpto(commands, 0, s) = {}
    BY DEF CommandsUpto
  <2>2. \A s : PutBy(w, commands, 0, s) = w[s]
    BY <2>1 DEF PutBy
  <2>. QED  BY <1>4, <2>2
<1>6. ASSUME NEW n \in 1 .. N, Good(n - 1) PROVE Good(n)
  <2>. DEFINE u == f[n - 1]
  <2>1. u = [s \in StateKeys |-> PutBy(w, commands, n - 1, s)]
    BY <1>6
  <2>2. f[n] = [u EXCEPT ![key(n)] = commands[n][2]]
    BY <1>4 DEF Put
  <2>3. \A s : PutBy(w, commands, n, s) = IF key(n) = s THEN commands[n][2]
                                         ELSE PutBy(w, commands, n - 1, s)
    BY OneMoreCommand DEF N
  <2>. HIDE DEF u, key
  <2>. QED  BY <2>1, <2>2, <2>3, Zenon
<1>. HIDE DEF Good
<1>7. Bad = {}
  <2>. SUFFICES ASSUME Bad # {} PROVE FALSE
    BY Zenon
  <2>1. PICK n \in Bad : \A k \in Bad : n <= k
    <3>1. Bad \subseteq Nat
      BY <1>3
    <3>. HIDE DEF Bad
    <3>. QED  BY <3>1, NatMin, Zenon
  <2>2. n \in 0 .. N /\ ~ Good(n)
    BY <2>1
  <2>3. n # 0
    BY <1>5, <2>2, Zenon
  <2>4. n \in 1 .. N /\ n - 1 \in 0 .. N /\ ~ (n <= n - 1)
    BY <1>3, <2>2, <2>3
  <2>5. n - 1 \notin Bad
    BY <2>1, <2>4, Zenon
  <2>6. Good(n - 1)
    BY <2>4, <2>5
  <2>. QED  BY <1>6, <2>2, <2>4, <2>6, Zenon
<1>8. Good(N)
  BY <1>3, <1>7
<1>. QED  BY <1>1, <1>8 DEF Good, N

\* The write set is a function on the state keys, and the batch a list of commands.
DBTypeOK ==
  /\ puts = [s \in StateKeys |-> puts[s]]
  /\ batch \in [commands : Seq(Commands), closed : BOOLEAN]

\* A new database has these types.
LEMMA DBInit == Init => DBTypeOK
  BY DEF Init, NoPuts, NewBatch, DBTypeOK

\* Every step keeps these types.
LEMMA DBStep == DBTypeOK /\ [Next]_vars => DBTypeOK'
<1>. SUFFICES ASSUME DBTypeOK, [Next]_vars PROVE DBTypeOK'
  OBVIOUS
<1>1. puts = [s \in StateKeys |-> puts[s]] /\ batch \in [commands : Seq(Commands), closed : BOOLEAN]
  BY DEF DBTypeOK
<1>2. ASSUME NEW k, NEW v, puts' = [puts EXCEPT ![k] = v], UNCHANGED batch PROVE DBTypeOK'
  <2>1. puts' = [s \in StateKeys |-> puts'[s]]
    BY <1>1, <1>2
  <2>. QED  BY <1>1, <1>2, <2>1 DEF DBTypeOK
<1>3. ASSUME NEW c \in Commands, batch' = [batch EXCEPT !.commands = Append(@, c)], UNCHANGED puts
      PROVE  DBTypeOK'
  BY <1>1, <1>3 DEF DBTypeOK
<1>4. ASSUME NEW commands \in Seq(Commands), puts' = Exec(puts, commands),
             batch' \in [commands : Seq(Commands), closed : BOOLEAN]
      PROVE  DBTypeOK'
  <2>1. Exec(puts, commands) = [s \in StateKeys |-> PutBy(puts, commands, Len(commands), s)]
    BY <1>1, ExecFacts, Zenon
  <2>2. puts' = [s \in StateKeys |-> puts'[s]]
    BY <1>4, <2>1
  <2>. QED  BY <1>4, <2>2 DEF DBTypeOK
<1>5. ASSUME NEW k \in DBKeys \cup {<< >>}, NEW v \in DBValues \cup {Nil}, Set(k, v) PROVE DBTypeOK'
  BY <1>2, <1>5, Zenon DEF Set
<1>6. ASSUME NEW k \in DBKeys \cup {<< >>}, NEW v \in DBValues \cup {Nil}, BatchSet(k, v)
      PROVE  DBTypeOK'
  <2>1. << k, v >> \in Commands
    BY <1>6 DEF BatchSet, Commands
  <2>. QED  BY <1>3, <1>6, <2>1, Zenon DEF BatchSet
<1>7. ASSUME NEW k \in DBKeys \cup {<< >>}, Delete(k) PROVE DBTypeOK'
  BY <1>2, <1>7, Zenon DEF Delete
<1>8. ASSUME NEW k \in DBKeys \cup {<< >>}, BatchDelete(k) PROVE DBTypeOK'
  <2>1. << k, Nil >> \in Commands
    BY <1>8 DEF BatchDelete, Commands
  <2>. QED  BY <1>3, <1>8, <2>1, Zenon DEF BatchDelete
<1>9. ASSUME NEW s \in RawKeys, NEW v \in DBValues, PutRaw(s, v) PROVE DBTypeOK'
  BY <1>2, <1>9, Zenon DEF PutRaw
<1>10. CASE BatchWrite
  BY <1>1, <1>4, <1>10, Zenon DEF BatchWrite
<1>11. CASE BatchWriteFails
  <2>1. PICK i \in DOMAIN batch.commands : puts' = Exec(puts, SubSeq(batch.commands, 1, i - 1))
    BY <1>11 DEF BatchWriteFails
  <2>2. SubSeq(batch.commands, 1, i - 1) \in Seq(Commands)
    BY <1>1
  <2>3. batch' = batch
    BY <1>11 DEF BatchWriteFails
  <2>. QED  BY <1>1, <1>4, <2>1, <2>2, <2>3, Zenon
<1>12. CASE BatchClose
  BY <1>1, <1>12, Zenon DEF BatchClose, DBTypeOK
<1>13. CASE Commit \/ Abort
  <2>1. puts' = NoPuts /\ batch' = NewBatch
    BY <1>13 DEF Commit, Abort
  <2>2. puts' = [s \in StateKeys |-> puts'[s]]
    BY <2>1 DEF NoPuts
  <2>3. NewBatch \in [commands : Seq(Commands), closed : BOOLEAN]
    BY DEF NewBatch
  <2>. QED  BY <2>1, <2>2, <2>3, Zenon DEF DBTypeOK
<1>14. CASE UNCHANGED vars
  BY <1>1, <1>14 DEF vars, DBTypeOK
<1>. QED  BY <1>5, <1>6, <1>7, <1>8, <1>9, <1>10, <1>11, <1>12, <1>13, <1>14, ZenonT(30) DEF Next

\* A batch that succeeds has put the last of its commands for each key and nothing
\* else, for any number of commands, whatever an earlier attempt that failed
\* half-way has left in the write set (BatchDB.Write).
THEOREM BatchesApplyInOrder == Spec => BatchAppliedInOrder
<1>. DEFINE Applied ==
       batch'.closed /\ ~ batch.closed /\ puts' # puts =>
         \A s \in StateKeys :
           puts'[s] = IF CommandsFor(s) = {} THEN puts[s]
                      ELSE batch.commands[Max(CommandsFor(s))][2]
<1>1. DBTypeOK /\ [Next]_vars => [Applied]_vars
  <2>. SUFFICES ASSUME DBTypeOK, Next, batch'.closed, ~ batch.closed, puts' # puts,
                       NEW s \in StateKeys
                PROVE  puts'[s] = IF CommandsFor(s) = {} THEN puts[s]
                                  ELSE batch.commands[Max(CommandsFor(s))][2]
    BY DEF vars
  <2>1. /\ puts = [r \in StateKeys |-> puts[r]]
        /\ batch \in [commands : Seq(Commands), closed : BOOLEAN]
    BY DEF DBTypeOK
  <2>2. BatchWrite
    <3>1. ASSUME NEW k, NEW v,
                 Set(k, v) \/ BatchSet(k, v) \/ Delete(k) \/ BatchDelete(k) \/ PutRaw(k, v)
          PROVE  FALSE
      <4>1. batch' = batch \/ batch'.closed = batch.closed
        BY <2>1, <3>1 DEF Set, BatchSet, Delete, BatchDelete, PutRaw
      <4>. QED  BY <4>1, Zenon
    <3>2. ~ BatchWriteFails /\ ~ BatchClose /\ ~ Commit /\ ~ Abort
      BY DEF BatchWriteFails, BatchClose, Commit, Abort, NewBatch
    <3>. QED  BY <3>1, <3>2, Zenon DEF Next
  <2>3. puts' = [r \in StateKeys |-> PutBy(puts, batch.commands, Len(batch.commands), r)]
    BY <2>1, <2>2, ExecFacts DEF BatchWrite
  <2>4. CommandsFor(s) = CommandsUpto(batch.commands, Len(batch.commands), s)
    <3>1. DOMAIN batch.commands = 1 .. Len(batch.commands)
      BY <2>1
    <3>. QED  BY <3>1, Zenon DEF CommandsFor, CommandsUpto
  <2>. QED  BY <2>3, <2>4, Zenon DEF PutBy
<1>. QED  BY <1>1, DBInit, DBStep, PTL DEF Spec, BatchAppliedInOrder
==============================================================================
