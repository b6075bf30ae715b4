---------------------------- MODULE UploadProofs ----------------------------
(***************************************************************************)
(* Proofs about Upload.  The inductive invariant is UploadInv; it is shown *)
(* to hold for every number and size of callers, contents, parts and       *)
(* buffers.  First what the operators compute: the parts of a reader, the  *)
(* list that completes an upload and what it joins to, and the tail that   *)
(* trailerWriter keeps.  Then one lemma for each action, the invariants    *)
(* that follow, and the refinement of WriteOnce.                           *)
(***************************************************************************)
EXTENDS Upload, SequenceTheorems, FiniteSetTheorems, WellFoundedInduction, TLAPS

(* A non-empty set of numbers has a least one. *)
LEMMA LeastNumber ==
    ASSUME NEW T \in SUBSET Nat, T # {}
    PROVE  \E m \in T : \A n \in T : m <= n
<1>1. PICK m \in T : \A n \in T : ~ (<<n, m>> \in OpToRel(<, Nat))
  BY NatLessThanWellFounded, WFMin, Zenon
<1>2. \A n \in T : ~ (n < m)
  BY <1>1 DEF OpToRel
<1> QED
  BY <1>2

(* FlattenSeq is the recursive function it is defined by. *)
LEMMA FlattenUnfold ==
    ASSUME NEW n \in Nat \ {0}, NEW q, Len(q) = n
    PROVE  FlattenSeq(q) =
            (CHOOSE f : f = [i \in 1..n |-> IF i = 1 THEN q[i] ELSE f[i - 1] \o q[i]])[n]
<1>1. Len(q) # 0
  BY SMT
<1> QED
  BY <1>1, Zenon DEF FlattenSeq

(* The recursion of FlattenSeq. *)
Solves(f, q, n) == f = [i \in 1..n |-> IF i = 1 THEN q[i] ELSE f[i - 1] \o q[i]]

(* A function that satisfies the recursion is chosen; whatever satisfies   *)
(* it agrees with a given solution.                                        *)
LEMMA FlattenIs ==
    ASSUME NEW n \in Nat \ {0}, NEW q, Len(q) = n, NEW G, Solves(G, q, n)
    PROVE  FlattenSeq(q) = G[n]
<1> DEFINE Sol(f) == f = [i \in 1..n |-> IF i = 1 THEN q[i] ELSE f[i - 1] \o q[i]]
           F == CHOOSE f : Sol(f)
<1>1. FlattenSeq(q) = F[n]
  BY FlattenUnfold, ZenonT(60)
<1>2. Sol(G)
  BY Zenon DEF Solves
<1>3. Sol(F)
  BY <1>2, Zenon
<1> HIDE DEF F
<1> DEFINE Bad == {i \in 1..n : F[i] # G[i]}
<1>4. Bad = {}
  <2> SUFFICES ASSUME Bad # {} PROVE FALSE
    OBVIOUS
  <2>1. PICK i \in Bad : \A j \in Bad : i <= j
    <3>1. Bad \in SUBSET Nat
      OBVIOUS
    <3> QED
      BY <3>1, LeastNumber
  <2>2. i \in 1..n /\ F[i] # G[i]
    BY <2>1
  <2>3. i # 1
    BY <2>2, <1>2, <1>3
  <2>4. i - 1 \in 1..n /\ i - 1 < i
    BY <2>2, <2>3
  <2>5. F[i - 1] = G[i - 1]
    BY <2>1, <2>4
  <2>6. F[i] = F[i - 1] \o q[i] /\ G[i] = G[i - 1] \o q[i]
    BY <1>2, <1>3, <2>2, <2>3
  <2> QED
    BY <2>2, <2>5, <2>6
<1>5. n \in 1..n
  BY SMT
<1> QED
  BY <1>1, <1>4, <1>5

-----------------------------------------------------------------------------
(* Parts of a reader. *)

(* Slices of contents are contents. *)
LEMMA Slice ==
    ASSUME NEW d \in Contents, NEW m \in Nat \ {0}, NEW n \in Nat, n <= Len(d)
    PROVE  /\ SubSeq(d, m, n) \in Contents
           /\ Len(SubSeq(d, m, n)) = IF m <= n THEN n - m + 1 ELSE 0
           /\ \A i \in 1..Len(SubSeq(d, m, n)) : SubSeq(d, m, n)[i] = d[m + i - 1]
BY DEF Contents

(* Two contents with the same length and the same units are the same. *)
LEMMA Same ==
    ASSUME NEW d \in Contents, NEW e \in Contents, Len(d) = Len(e),
           \A i \in 1..Len(d) : d[i] = e[i]
    PROVE  d = e
BY SeqEqual, Zenon DEF Contents

(* Appending one slice to the slice before it. *)
LEMMA Adjacent ==
    ASSUME NEW d \in Contents, NEW m \in Nat \ {0}, NEW k \in Nat, NEW n \in Nat,
           m <= k + 1, k <= n, n <= Len(d)
    PROVE  SubSeq(d, m, k) \o SubSeq(d, k + 1, n) = SubSeq(d, m, n)
<1>1. Len(d) \in Nat /\ d \in Seq(Units)
  BY DEF Contents
<1>2. m \in 1..Len(d) + 1 /\ k \in m - 1..Len(d) /\ n \in k..Len(d)
  BY <1>1
<1> QED
  BY <1>1, <1>2, ConcatAdjacentSubSeq

(* A slice of a slice. *)
LEMMA Nested ==
    ASSUME NEW d \in Contents, NEW m \in Nat \ {0}, NEW n \in Nat, n <= Len(d),
           NEW k \in Nat \ {0}, NEW l \in Nat, l <= Len(SubSeq(d, m, n))
    PROVE  SubSeq(SubSeq(d, m, n), k, l) = SubSeq(d, m + k - 1, m + l - 1)
<1> DEFINE e == SubSeq(d, m, n)
<1>1. /\ e \in Contents /\ Len(e) = IF m <= n THEN n - m + 1 ELSE 0
      /\ \A i \in 1..Len(e) : e[i] = d[m + i - 1]
  BY Slice
<1>2. m + l - 1 \in Nat /\ m + k - 1 \in Nat \ {0}
  OBVIOUS
<1>3. CASE l = 0
  <2>1. SubSeq(e, k, l) = <<>>
    BY <1>1, <1>3 DEF Contents
  <2>2. SubSeq(d, m + k - 1, m + l - 1) = <<>>
    BY <1>2, <1>3 DEF Contents
  <2> QED
    BY <2>1, <2>2
<1>4. CASE l # 0
  <2>1. m + l - 1 <= Len(d) /\ l <= Len(e) /\ m <= n
    BY <1>4, <1>1 DEF Contents
  <2> HIDE DEF e
  <2>2. /\ SubSeq(e, k, l) \in Contents
        /\ Len(SubSeq(e, k, l)) = IF k <= l THEN l - k + 1 ELSE 0
        /\ \A i \in 1..Len(SubSeq(e, k, l)) : SubSeq(e, k, l)[i] = e[k + i - 1]
    BY <1>1, <2>1, Slice
  <2>3. /\ SubSeq(d, m + k - 1, m + l - 1) \in Contents
        /\ Len(SubSeq(d, m + k - 1, m + l - 1)) = IF m + k - 1 <= m + l - 1 THEN m + l - 1 - (m + k - 1) + 1 ELSE 0
        /\ \A i \in 1..Len(SubSeq(d, m + k - 1, m + l - 1)) :
              SubSeq(d, m + k - 1, m + l - 1)[i] = d[m + k - 1 + i - 1]
    BY <1>2, <2>1, Slice
  <2> DEFINE x == SubSeq(e, k, l)
             y == SubSeq(d, m + k - 1, m + l - 1)
  <2>4. Len(x) = Len(y) /\ \A i \in 1..Len(x) : k + i - 1 \in 1..Len(e) /\ i \in 1..Len(y)
    BY <2>1, <2>2, <2>3, <1>1
  <2>5. \A i \in 1..Len(x) : x[i] = y[i]
    <3> SUFFICES ASSUME NEW i \in 1..Len(x) PROVE x[i] = y[i]
      OBVIOUS
    <3>1. x[i] = e[k + i - 1]
      BY <2>2
    <3>2. y[i] = d[m + k - 1 + i - 1]
      BY <2>3, <2>4
    <3>3. e[k + i - 1] = d[m + (k + i - 1) - 1]
      BY <2>4, <1>1
    <3>4. m + (k + i - 1) - 1 = m + k - 1 + i - 1
      BY <2>4
    <3> QED
      BY <3>1, <3>2, <3>3, <3>4
  <2>6. x = y
    BY <2>2, <2>3, <2>4, <2>5, Same
  <2> QED
    BY <2>6 DEF e
<1> QED
  BY <1>3, <1>4

(* Multiples of the size of a part. *)
LEMMA Multiples ==
    ASSUME NEW k \in Nat
    PROVE  /\ k * PartSize \in Nat
           /\ (k + 1) * PartSize = k * PartSize + PartSize
           /\ (k + 1 - 1) * PartSize = k * PartSize
           /\ \A j \in 0..k : j * PartSize <= k * PartSize
BY SizeAssumption

(* Where the first k parts end. *)
Upto(s, k) == Smaller(k * PartSize, s.made)

(* The first parts of a reader grow to the whole of it. *)
LEMMA UptoGrows ==
    ASSUME NEW s \in Readers, Source(s), NEW k \in Nat
    PROVE  /\ Upto(s, k) \in Nat /\ Upto(s, k) <= s.made /\ s.made <= Len(s.data)
           /\ s.data \in Contents /\ s.made \in Nat /\ Len(s.data) \in Nat
           /\ Upto(s, k + 1) = Smaller(Upto(s, k) + PartSize, s.made)
           /\ Upto(s, 0) = 0
           /\ \A j \in 0..k : Upto(s, j) <= Upto(s, k)
<1>1. s.made \in Nat /\ s.data \in Contents /\ s.made <= Len(s.data)
  BY DEF Readers, Source
<1>2. Len(s.data) \in Nat
  BY <1>1 DEF Contents
<1> DEFINE p == k * PartSize
<1>3. p \in Nat /\ (k + 1) * PartSize = p + PartSize /\ PartSize \in Nat \ {0}
  BY Multiples, SizeAssumption
<1>4. 0 * PartSize = 0
  BY SizeAssumption
<1>5. ASSUME NEW j \in 0..k PROVE Upto(s, j) <= Upto(s, k)
  <2>1. j * PartSize \in Nat /\ j * PartSize <= p
    BY Multiples
  <2> HIDE DEF p
  <2> QED
    BY <2>1, <1>1, <1>3 DEF Upto, Smaller, p
<1> HIDE DEF p
<1>6. Upto(s, k) = Smaller(p, s.made)
  BY DEF p, Upto
<1>7. Upto(s, k + 1) = Smaller(p + PartSize, s.made)
  BY <1>3 DEF Upto
<1>8. Upto(s, 0) = 0
  BY <1>4, <1>1 DEF Upto, Smaller
<1>9. Upto(s, k) \in Nat /\ Upto(s, k) <= s.made /\ Upto(s, k + 1) = Smaller(Upto(s, k) + PartSize, s.made)
  BY <1>1, <1>3, <1>6, <1>7 DEF Smaller
<1> QED
  BY <1>1, <1>2, <1>5, <1>8, <1>9

(* A part of a reader, by where the parts end. *)
LEMMA ChunkIs ==
    ASSUME NEW s \in Readers, Source(s), NEW k \in Nat
    PROVE  /\ Chunk(s, k + 1) \in Contents
           /\ Len(Chunk(s, k + 1)) = Upto(s, k + 1) - Upto(s, k)
           /\ Chunk(s, k + 1) = SubSeq(s.data, Upto(s, k) + 1, Upto(s, k + 1))
<1> DEFINE p == k * PartSize
           e == Upto(s, k + 1)
<1>1. /\ p \in Nat /\ PartSize \in Nat \ {0} /\ e \in Nat /\ e <= s.made /\ s.made <= Len(s.data)
      /\ s.data \in Contents /\ s.made \in Nat /\ Len(s.data) \in Nat
      /\ (k + 1) * PartSize = p + PartSize /\ (k + 1 - 1) * PartSize = p
  BY Multiples, UptoGrows, SizeAssumption
<1>2. Chunk(s, k + 1) = SubSeq(s.data, p + 1, e)
  BY <1>1 DEF Chunk, Upto
<1>3. Upto(s, k) = Smaller(p, s.made) /\ e = Smaller(p + PartSize, s.made)
  BY <1>1 DEF Upto
<1>6. Upto(s, k + 1) = e
  OBVIOUS
<1> HIDE DEF p, e
<1>4. CASE p <= s.made
  <2>1. Upto(s, k) = p /\ p <= e
    BY <1>1, <1>3, <1>4 DEF Smaller
  <2>2. p + 1 \in Nat \ {0} /\ e <= Len(s.data)
    BY <1>1
  <2>3. SubSeq(s.data, p + 1, e) \in Contents /\ Len(SubSeq(s.data, p + 1, e)) = e - p
    BY <1>1, <2>1, <2>2, Slice
  <2> QED
    BY <1>2, <1>6, <2>1, <2>3
<1>5. CASE p > s.made
  <2>1. Upto(s, k) = s.made /\ e = s.made
    BY <1>1, <1>3, <1>5 DEF Smaller
  <2>2. SubSeq(s.data, p + 1, e) = <<>> /\ SubSeq(s.data, s.made + 1, e) = <<>>
    BY <1>1, <2>1, <1>5, SubSeqEmpty
  <2>3. <<>> \in Contents /\ Len(<<>>) = 0
    BY DEF Contents
  <2> QED
    <3>1. Chunk(s, k + 1) = <<>> /\ Chunk(s, k + 1) = SubSeq(s.data, Upto(s, k) + 1, Upto(s, k + 1))
      BY <1>2, <1>6, <2>1, <2>2
    <3>2. Upto(s, k + 1) - Upto(s, k) = 0
      BY <1>1, <1>6, <2>1
    <3> QED
      BY <3>1, <3>2, <2>3
<1> QED
  BY <1>1, <1>4, <1>5

(* The parts of a reader, joined in order, are its beginning. *)
LEMMA ChunksJoin ==
    ASSUME NEW s \in Readers, Source(s), NEW n \in Nat,
           NEW q, q = [i \in 1..n |-> Chunk(s, i)]
    PROVE  FlattenSeq(q) = SubSeq(s.data, 1, Upto(s, n))
<1>1. Len(q) = n
  <2>1. q \in [1..n -> Contents]
    <3> SUFFICES ASSUME NEW i \in 1..n PROVE Chunk(s, i) \in Contents
      OBVIOUS
    <3>1. i - 1 \in Nat /\ i - 1 + 1 = i
      OBVIOUS
    <3> QED
      BY <3>1, ChunkIs
  <2>2. q \in Seq(Contents)
    BY <2>1
  <2> QED
    BY <2>1, <2>2
<1>2. CASE n = 0
  <2>1. q = <<>>
    BY <1>2
  <2>2. FlattenSeq(q) = q
    BY <1>1, <1>2, Zenon DEF FlattenSeq
  <2>3. Upto(s, n) = 0
    BY <1>2, UptoGrows
  <2>4. SubSeq(s.data, 1, 0) = <<>>
    BY SubSeqEmpty
  <2> QED
    BY <2>1, <2>2, <2>3, <2>4
<1>3. CASE n # 0
  <2> DEFINE G == [i \in 1..n |-> SubSeq(s.data, 1, Upto(s, i))]
  <2>1. ASSUME NEW i \in 1..n PROVE G[i] = IF i = 1 THEN q[i] ELSE G[i - 1] \o q[i]
    <3>1. i - 1 \in Nat /\ i - 1 + 1 = i
      OBVIOUS
    <3>2. q[i] = SubSeq(s.data, Upto(s, i - 1) + 1, Upto(s, i))
      BY <3>1, ChunkIs
    <3>3. CASE i = 1
      <4>1. Upto(s, i - 1) = 0
        BY <3>3, UptoGrows
      <4> QED
        BY <4>1, <3>2, <3>3
    <3>4. CASE i # 1
      <4>1. /\ Upto(s, i - 1) \in Nat /\ Upto(s, i) \in Nat /\ Upto(s, i - 1) <= Upto(s, i)
            /\ Upto(s, i) <= Len(s.data) /\ s.data \in Contents
        <5>1. i \in Nat /\ i - 1 \in 0..i
          OBVIOUS
        <5>2. /\ Upto(s, i) \in Nat /\ Upto(s, i) <= s.made /\ s.made <= Len(s.data)
              /\ s.data \in Contents /\ s.made \in Nat /\ Len(s.data) \in Nat
              /\ Upto(s, i - 1) <= Upto(s, i)
          BY <5>1, UptoGrows
        <5>3. Upto(s, i - 1) \in Nat
          BY <3>1, UptoGrows
        <5> QED
          BY <5>2, <5>3
      <4>2. SubSeq(s.data, 1, Upto(s, i - 1)) \o SubSeq(s.data, Upto(s, i - 1) + 1, Upto(s, i))
              = SubSeq(s.data, 1, Upto(s, i))
        <5> DEFINE a == Upto(s, i - 1)
                   b == Upto(s, i)
                   d == s.data
        <5>1. a \in Nat /\ b \in Nat /\ a <= b /\ b <= Len(d) /\ d \in Contents
          BY <4>1
        <5> HIDE DEF a, b, d
        <5>2. 1 \in Nat \ {0} /\ 1 <= a + 1
          BY <5>1
        <5>3. SubSeq(d, 1, a) \o SubSeq(d, a + 1, b) = SubSeq(d, 1, b)
          BY <5>1, <5>2, Adjacent
        <5> QED
          BY <5>3 DEF a, b, d
      <4>3. i - 1 \in 1..n
        BY <3>4
      <4> QED
        BY <4>2, <4>3, <3>2, <3>4
    <3> QED
      BY <3>3, <3>4
  <2>2. Solves(G, q, n)
    BY <2>1 DEF Solves
  <2> HIDE DEF G
  <2>3. FlattenSeq(q) = G[n]
    <3>1. n \in Nat \ {0}
      BY <1>3
    <3> QED
      BY <1>1, <2>2, <3>1, FlattenIs
  <2>4. G[n] = SubSeq(s.data, 1, Upto(s, n))
    <3>1. n \in 1..n
      BY <1>3
    <3> QED
      BY <3>1 DEF G
  <2> QED
    BY <2>3, <2>4
<1> QED
  BY <1>2, <1>3

-----------------------------------------------------------------------------
(* The list of parts that completes an upload. *)

(* A strictly increasing sequence of n numbers of 1..n counts. *)
LEMMA IncreasingCounts ==
    ASSUME NEW n \in Nat, NEW l \in [1..n -> 1..n],
           \A i, j \in 1..n : i < j => l[i] < l[j]
    PROVE  \A i \in 1..n : l[i] = i
<1> DEFINE Low == {i \in 1..n : l[i] < i}
           High == {k \in 0..n - 1 : l[n - k] > n - k}
<1>1. Low = {}
  <2> SUFFICES ASSUME Low # {} PROVE FALSE
    OBVIOUS
  <2>1. Low \in SUBSET Nat
    OBVIOUS
  <2>2. PICK i \in Low : \A j \in Low : i <= j
    BY <2>1, LeastNumber
  <2>3. l[i] \in 1..n /\ l[i] < i /\ i \in 1..n
    BY <2>2
  <2>4. l[l[i]] < l[i]
    BY <2>3
  <2>5. l[i] \in Low
    BY <2>3, <2>4
  <2> QED
    BY <2>2, <2>3, <2>5
<1>2. High = {}
  <2> SUFFICES ASSUME High # {} PROVE FALSE
    OBVIOUS
  <2>1. High \in SUBSET Nat
    OBVIOUS
  <2>2. PICK k \in High : \A j \in High : k <= j
    BY <2>1, LeastNumber
  <2> DEFINE i == n - k
  <2>3. l[i] \in 1..n /\ l[i] > i /\ i \in 1..n /\ k = n - i
    BY <2>2
  <2> HIDE DEF i
  <2>4. l[l[i]] > l[i]
    BY <2>3
  <2>5. n - l[i] \in 0..n - 1 /\ n - (n - l[i]) = l[i]
    <3>1. ASSUME NEW m \in 1..n PROVE n - m \in 0..n - 1 /\ n - (n - m) = m
      OBVIOUS
    <3> QED
      BY <2>3, <3>1
  <2>6. n - l[i] \in High
    BY <2>4, <2>5
  <2> QED
    BY <2>2, <2>3, <2>6
<1>3. ASSUME NEW i \in 1..n PROVE l[i] = i
  <2>1. ~(l[i] < i) /\ l[i] \in 1..n
    BY <1>1
  <2>2. n - i \in 0..n - 1 /\ n - (n - i) = i
    OBVIOUS
  <2>3. ~(l[i] > i)
    BY <1>2, <2>2
  <2> QED
    BY <2>1, <2>3
<1> QED
  BY <1>3

(* Numbers that are all different and exhaust 1..n are n numbers. *)
LEMMA AllNumbers ==
    ASSUME NEW n \in Nat, NEW p \in Seq(Nat),
           \A i \in 1..Len(p) : p[i] \in 1..n,
           \A i, j \in 1..Len(p) : p[i] = p[j] => i = j,
           \A k \in 1..n : \E i \in 1..Len(p) : p[i] = k
    PROVE  Len(p) = n
<1>1. Len(p) \in Nat /\ DOMAIN p = 1..Len(p) /\ p \in [1..Len(p) -> 1..n]
  OBVIOUS
<1>2. p \in Bijection(1..Len(p), 1..n)
  BY <1>1 DEF Bijection, Injection, Surjection, IsInjective
<1>3. ExistsBijection(1..Len(p), 1..n)
  BY <1>2 DEF ExistsBijection
<1>4. IsFiniteSet(1..Len(p)) /\ Cardinality(1..Len(p)) = Len(p) /\ Cardinality(1..n) = n
  <2>1. ASSUME NEW m \in Nat PROVE IsFiniteSet(1..m) /\ Cardinality(1..m) = m
    <3>1. 1 \in Int /\ m \in Int /\ m - 1 + 1 = m /\ (1 > m => m = 0)
      OBVIOUS
    <3> QED
      BY <3>1, FS_Interval
  <2> QED
    BY <1>1, <2>1
<1>5. Cardinality(1..n) = Cardinality(1..Len(p))
  BY <1>3, <1>4, FS_Bijection
<1> QED
  BY <1>4, <1>5

(* A complete upload lists its parts from the first to the last. *)
LEMMA ListedIs ==
    ASSUME NEW r \in Calls, NumberInv(r), \A k \in 1..r.next - 1 : Accepted(r, k)
    PROVE  /\ Len(r.parts) = r.next - 1
           /\ \A i \in 1..r.next - 1 : Listed(r)[i] = i
<1> DEFINE n == r.next - 1
           p == r.parts
<1>1. p \in Seq(1..MaxParts) /\ r.next \in 1..MaxParts + 1 /\ MaxParts \in Nat
  BY SizeAssumption DEF Calls
<1>2. n \in Nat /\ n <= MaxParts /\ p \in Seq(Nat) /\ DOMAIN p = 1..Len(p)
  BY <1>1
<1>3. /\ \A i \in 1..Len(p) : p[i] \in 1..n
      /\ \A i, j \in 1..Len(p) : p[i] = p[j] => i = j
  <2>1. \A i \in 1..Len(p) : p[i] \in 1..MaxParts
    BY <1>1
  <2>2. \A i \in 1..Len(p) : p[i] < r.next
    BY <1>2 DEF NumberInv
  <2>3. \A i, j \in 1..Len(p) : p[i] = p[j] => i = j
    BY <1>2 DEF NumberInv
  <2> HIDE DEF p
  <2>4. \A i \in 1..Len(p) : p[i] \in 1..n
    BY <1>1, <2>1, <2>2
  <2> QED
    BY <2>3, <2>4
<1>4. \A k \in 1..n : \E i \in 1..Len(p) : p[i] = k
  BY <1>2 DEF Accepted
<1> HIDE DEF n, p
<1>5. Len(p) = n
  BY <1>2, <1>3, <1>4, AllNumbers
<1> DEFINE Good(l) == /\ \A i, j \in 1..Len(p) : i < j => l[i] < l[j]
                      /\ \A i \in 1..Len(p) : \E j \in 1..Len(p) : l[i] = p[j]
           id == [i \in 1..Len(p) |-> i]
<1>6. id \in [1..Len(p) -> 1..MaxParts] /\ Good(id)
  BY <1>1, <1>2, <1>4, <1>5
<1>7. Listed(r) = CHOOSE l \in [1..Len(p) -> 1..MaxParts] : Good(l)
  BY DEF Listed, p
<1> HIDE DEF Good
<1>8. Listed(r) \in [1..Len(p) -> 1..MaxParts] /\ Good(Listed(r))
  BY <1>6, <1>7
<1> DEFINE l == Listed(r)
<1> HIDE DEF l
<1>9. l \in [1..n -> 1..n] /\ \A i, j \in 1..n : i < j => l[i] < l[j]
  BY <1>2, <1>3, <1>5, <1>8 DEF Good, l
<1>10. \A i \in 1..n : l[i] = i
  BY <1>2, <1>9, IncreasingCounts
<1> QED
  BY <1>5, <1>10 DEF n, p, l

(* The object that completing a whole upload creates. *)
LEMMA JoinedIs ==
    ASSUME NEW c, source[c] \in Readers, Source(source[c]), call[c] \in Calls,
           NumberInv(call[c]), PartInv(source[c], uploads[c], call[c]),
           LoopInv(source[c], call[c]), Whole(source[c], call[c])
    PROVE  Joined(c) = Reader(source[c])
<1> DEFINE s == source[c]
           r == call[c]
           n == r.next - 1
           q == [i \in 1..n |-> Chunk(s, i)]
<1>1. n \in Nat /\ r.parts \in Seq(1..MaxParts) /\ DOMAIN r.parts = 1..Len(r.parts)
  BY SizeAssumption DEF Calls
<1>2. Len(r.parts) = n /\ \A i \in 1..n : Listed(r)[i] = i
  BY ListedIs DEF Whole
<1>3. \A i \in 1..n : uploads[c].parts[i] = Chunk(s, i)
  <2> SUFFICES ASSUME NEW i \in 1..n PROVE uploads[c].parts[i] = Chunk(s, i)
    OBVIOUS
  <2>1. PICK k \in DOMAIN r.parts : r.parts[k] = i
    BY DEF Whole, Accepted
  <2> QED
    BY <2>1 DEF PartInv
<1>4. Joined(c) = FlattenSeq(q)
  <2>1. [i \in 1..Len(r.parts) |-> uploads[c].parts[Listed(r)[i]]] = q
    BY <1>2, <1>3
  <2> QED
    BY <2>1 DEF Joined
<1>5. FlattenSeq(q) = SubSeq(s.data, 1, Upto(s, n))
  BY <1>1, ChunksJoin
<1>6. Upto(s, n) = s.made
  BY DEF Upto, LoopInv, Whole
<1> QED
  BY <1>4, <1>5, <1>6 DEF Reader

-----------------------------------------------------------------------------
(* The trailer. *)

(* The last units, at most TrailerSize, of the first a. *)
End(d, a) == SubSeq(d, a - Smaller(TrailerSize, a) + 1, a)

(* trailerWriter.Write keeps the end of everything written so far. *)
LEMMA WriteKeepsEnd ==
    ASSUME NEW d \in Contents, NEW a \in Nat, NEW b \in Nat, a <= b, b <= Len(d)
    PROVE  Write(End(d, a), SubSeq(d, a + 1, b)) = End(d, b)
<1> DEFINE T == TrailerSize
           p == SubSeq(d, a + 1, b)
           x == Smaller(T, a)
           tail == SubSeq(d, a - x + 1, a)
<1>1. T \in Nat /\ Len(d) \in Nat
  BY SizeAssumption DEF Contents
<1>2. x \in Nat /\ x <= a /\ x <= T /\ (x = T \/ x = a)
  BY <1>1 DEF Smaller
<1>3. p \in Contents /\ Len(p) = b - a
  BY Slice
<1>4. tail \in Contents /\ Len(tail) = x
  <2>1. a - x + 1 \in Nat \ {0} /\ a <= Len(d)
    BY <1>1, <1>2
  <2> HIDE DEF x
  <2> QED
    BY <2>1, <1>2, Slice
<1>5. End(d, a) = tail
  BY DEF End
<1>6. Write(tail, p) = IF Len(p) >= T THEN SubSeq(p, Len(p) - T + 1, Len(p))
                       ELSE (IF Len(tail) + Len(p) - T > 0
                             THEN SubSeq(tail, Len(tail) + Len(p) - T + 1, Len(tail)) ELSE tail) \o p
  BY DEF Write
<1> HIDE DEF T, x
<1>7. CASE Len(p) >= T
  <2>1. /\ a + 1 \in Nat \ {0} /\ Len(p) - T + 1 \in Nat \ {0} /\ Len(p) \in Nat
        /\ a + 1 + (Len(p) - T + 1) - 1 = b - T + 1 /\ a + 1 + Len(p) - 1 = b
        /\ b >= T
    BY <1>1, <1>3, <1>7
  <2>2. SubSeq(p, Len(p) - T + 1, Len(p))
          = SubSeq(d, a + 1 + (Len(p) - T + 1) - 1, a + 1 + Len(p) - 1)
    <3>1. Len(p) <= Len(SubSeq(d, a + 1, b))
      BY <2>1
    <3>2. ASSUME NEW k \in Nat \ {0}, NEW l \in Nat, l <= Len(SubSeq(d, a + 1, b))
          PROVE  SubSeq(SubSeq(d, a + 1, b), k, l) = SubSeq(d, a + 1 + k - 1, a + 1 + l - 1)
      BY <3>2, <2>1, Nested
    <3> QED
      BY <2>1, <3>1, <3>2
  <2>3. Smaller(TrailerSize, b) = T
    BY <1>1, <2>1 DEF Smaller, T
  <2> HIDE DEF p, tail
  <2> QED
    BY <1>5, <1>6, <1>7, <2>1, <2>2, <2>3 DEF End, p
<1>8. CASE Len(p) < T /\ Len(tail) + Len(p) - T > 0
  <2> DEFINE k == Len(tail) + Len(p) - T + 1
  <2>1. /\ a - x + 1 \in Nat \ {0} /\ k \in Nat \ {0} /\ Len(tail) \in Nat /\ a <= Len(d)
        /\ a - x + 1 + k - 1 = b - T + 1 /\ a - x + 1 + Len(tail) - 1 = a
        /\ b >= T /\ b - T + 1 \in Nat \ {0} /\ b - T + 1 <= a + 1
    BY <1>1, <1>2, <1>3, <1>4, <1>8
  <2>2. SubSeq(tail, k, Len(tail)) = SubSeq(d, a - x + 1 + k - 1, a - x + 1 + Len(tail) - 1)
    <3> HIDE DEF k
    <3>1. Len(tail) <= Len(SubSeq(d, a - x + 1, a))
      BY <2>1
    <3>2. ASSUME NEW m \in Nat \ {0}, NEW l \in Nat, l <= Len(SubSeq(d, m, a))
          PROVE  SubSeq(SubSeq(d, m, a), k, l) = SubSeq(d, m + k - 1, m + l - 1)
      BY <3>2, <2>1, Nested
    <3> QED
      BY <2>1, <3>1, <3>2
  <2>3. SubSeq(tail, k, Len(tail)) = SubSeq(d, b - T + 1, a)
    BY <2>1, <2>2
  <2>4. SubSeq(d, b - T + 1, a) \o p = SubSeq(d, b - T + 1, b)
    <3>1. ASSUME NEW m \in Nat \ {0}, m <= a + 1
          PROVE  SubSeq(d, m, a) \o SubSeq(d, a + 1, b) = SubSeq(d, m, b)
      BY <3>1, Adjacent
    <3> QED
      BY <2>1, <3>1
  <2>5. Smaller(TrailerSize, b) = T
    BY <1>1, <2>1 DEF Smaller, T
  <2>6. Write(tail, p) = SubSeq(tail, k, Len(tail)) \o p
    <3> HIDE DEF p, tail
    <3>1. ~(Len(p) >= T)
      BY <1>1, <1>3, <1>8
    <3> QED
      BY <1>6, <1>8, <3>1
  <2> HIDE DEF p, tail, k
  <2> QED
    BY <1>5, <2>3, <2>4, <2>5, <2>6 DEF End, p
<1>9. CASE Len(p) < T /\ Len(tail) + Len(p) - T <= 0
  <2>1. /\ a - x + 1 \in Nat \ {0} /\ a - x + 1 <= a + 1
        /\ ~(Len(p) >= T) /\ ~(Len(tail) + Len(p) - T > 0)
    BY <1>1, <1>2, <1>3, <1>4, <1>9
  <2>2. tail \o p = SubSeq(d, a - x + 1, b)
    BY <2>1, Adjacent
  <2>3. b - Smaller(TrailerSize, b) = a - x
    <3> HIDE DEF tail, p
    <3>1. CASE x = T
      BY <1>1, <1>2, <1>3, <1>4, <1>9, <3>1 DEF Smaller, T
    <3>2. CASE x = a
      BY <1>1, <1>2, <1>3, <1>4, <1>9, <3>2 DEF Smaller, T
    <3> QED
      BY <1>2, <3>1, <3>2
  <2>4. Write(tail, p) = tail \o p
    <3> HIDE DEF p, tail
    <3> QED
      BY <1>6, <2>1
  <2> HIDE DEF p, tail
  <2> QED
    BY <1>5, <2>2, <2>3, <2>4 DEF End, p
<1>10. Len(p) >= T \/ (Len(p) < T /\ Len(tail) + Len(p) - T > 0) \/ (Len(p) < T /\ Len(tail) + Len(p) - T <= 0)
  <2> HIDE DEF p, tail
  <2> QED
    BY <1>1, <1>2, <1>3, <1>4
<1> QED
  BY <1>7, <1>8, <1>9, <1>10

(* However a read is cut into writes, the tail is the end of what was      *)
(* read.                                                                   *)
LEMMA WritesKeepEnd ==
    ASSUME NEW d \in Contents, NEW a \in Nat, NEW b \in Nat, a <= b, b <= Len(d),
           NEW tail \in Writes(End(d, a), SubSeq(d, a + 1, b))
    PROVE  tail = End(d, b)
<1> DEFINE p == SubSeq(d, a + 1, b)
<1>1. p \in Contents /\ Len(p) = b - a /\ Len(d) \in Nat
  BY Slice DEF Contents
<1>2. PICK n \in 0..Len(p) :
        tail = Write(Write(End(d, a), SubSeq(p, 1, n)), SubSeq(p, n + 1, Len(p)))
  BY DEF Writes
<1>3. /\ a + 1 \in Nat \ {0} /\ n \in Nat /\ n <= Len(p) /\ a + n \in Nat /\ a <= a + n /\ a + n <= b
      /\ a + n <= Len(d) /\ 1 \in Nat \ {0} /\ n + 1 \in Nat \ {0} /\ Len(p) \in Nat
      /\ a + 1 + 1 - 1 = a + 1 /\ a + 1 + n - 1 = a + n
      /\ a + 1 + (n + 1) - 1 = a + n + 1 /\ a + 1 + Len(p) - 1 = b
  BY <1>1, <1>2
<1>4. SubSeq(p, 1, n) = SubSeq(d, a + 1, a + n)
  <2>1. SubSeq(p, 1, n) = SubSeq(d, a + 1 + 1 - 1, a + 1 + n - 1)
    BY <1>3, Nested
  <2> QED
    BY <2>1, <1>3
<1>5. SubSeq(p, n + 1, Len(p)) = SubSeq(d, a + n + 1, b)
  <2>1. SubSeq(p, n + 1, Len(p)) = SubSeq(d, a + 1 + (n + 1) - 1, a + 1 + Len(p) - 1)
    <3>1. Len(p) <= Len(SubSeq(d, a + 1, b))
      BY <1>3
    <3> QED
      BY <1>3, <3>1, Nested
  <2> QED
    BY <2>1, <1>3
<1>6. Write(End(d, a), SubSeq(d, a + 1, a + n)) = End(d, a + n)
  BY <1>3, WriteKeepsEnd
<1>7. Write(End(d, a + n), SubSeq(d, a + n + 1, b)) = End(d, b)
  BY <1>3, WriteKeepsEnd
<1> QED
  BY <1>2, <1>4, <1>5, <1>6, <1>7

-----------------------------------------------------------------------------
(* Steps that leave the loop's own variables alone. *)

SameLoop(r, q) ==
    /\ q.pos = r.pos /\ q.next = r.next /\ q.last = r.last /\ q.free = r.free
    /\ q.bufs = r.bufs /\ q.tasks = r.tasks /\ q.sent = r.sent /\ q.parts = r.parts

At(r, p) == [r EXCEPT !.phase = p]
Ends(r, p, o) == [r EXCEPT !.phase = p, !.out = o]

(* A record with another phase and another outcome. *)
LEMMA Updated ==
    ASSUME NEW r \in Calls, NEW p \in Phases, NEW o \in Outs
    PROVE  /\ Ends(r, p, o) \in Calls /\ Ends(r, p, o).phase = p /\ Ends(r, p, o).out = o
           /\ Ends(r, p, o).tail = r.tail /\ Ends(r, p, o).ctx = r.ctx /\ SameLoop(r, Ends(r, p, o))
BY DEF Ends, Calls, SameLoop

(* A record with another phase. *)
LEMMA Moved ==
    ASSUME NEW r \in Calls, NEW p \in Phases
    PROVE  /\ At(r, p) \in Calls /\ At(r, p).phase = p /\ At(r, p).out = r.out
           /\ At(r, p).tail = r.tail /\ At(r, p).ctx = r.ctx /\ SameLoop(r, At(r, p))
BY DEF At, Calls, SameLoop

(* The types of the fields. *)
LEMMA CallFields ==
    ASSUME NEW r \in Calls
    PROVE  /\ r.phase \in Phases /\ r.pos \in Nat /\ r.tail \in Contents /\ r.next \in 1..MaxParts + 1
           /\ r.last \in BOOLEAN /\ r.free \in Seq(1..Concurrency) /\ r.bufs \in [1..Concurrency -> Contents]
           /\ r.tasks \in SUBSET Tasks /\ r.sent \in Seq(Outcomes) /\ r.parts \in Seq(1..MaxParts)
           /\ r.stopped \in BOOLEAN /\ r.ctx \in BOOLEAN /\ r.out \in Outs
BY DEF Calls

(* What the loop's variables alone decide. *)
LEMMA Frame ==
    ASSUME NEW s, NEW u, NEW r, NEW q, SameLoop(r, q)
    PROVE  /\ NumberInv(r) => NumberInv(q)
           /\ PartInv(s, u, r) => PartInv(s, u, q)
           /\ Whole(s, r) => Whole(s, q)
           /\ BufferInv(r) /\ (q.phase \in Running \/ (r.tasks = {} /\ r.sent = <<>>)) => BufferInv(q)
<1>1. NumberInv(r) => NumberInv(q)
  BY DEF NumberInv, SameLoop
<1>2. PartInv(s, u, r) => PartInv(s, u, q)
  BY DEF PartInv, SameLoop
<1>3. Whole(s, r) => Whole(s, q)
  BY DEF Whole, Accepted, SameLoop
<1>4. BufferInv(r) /\ (q.phase \in Running \/ (r.tasks = {} /\ r.sent = <<>>)) => BufferInv(q)
  BY DEF BufferInv, SameLoop
<1> QED
  BY <1>1, <1>2, <1>3, <1>4

(* The phases behind the loop. *)
Behind == {"draining", "aborting", "returned", "done", "dead"}

(* Where a call that is over, or about to be, keeps its invariant. *)
LEMMA Settle ==
    ASSUME NEW s, NEW u, NEW r, NEW q, CallInv(s, u, r), SameLoop(r, q),
           q.tail = r.tail, r.phase # "idle", r.phase # "dead", q.phase \in Behind,
           q.phase = "draining" \/ (r.tasks = {} /\ r.sent = <<>>),
           q.out = "failed" \/ r.out # "failed"
    PROVE  /\ CallInv(s, u, q)
           /\ Teed(s, q) = Teed(s, r)
           /\ Whole(s, r) => Whole(s, q)
<1>1. NumberInv(q) /\ PartInv(s, u, q) /\ BufferInv(q) /\ (Whole(s, r) => Whole(s, q))
  BY Frame DEF CallInv, Running
<1>2. Teed(s, q) = Teed(s, r)
  BY DEF Teed, SameLoop, Behind
<1>3. LoopInv(s, q)
  BY DEF CallInv, LoopInv, SameLoop, Behind
<1>4. TailInv(s, q)
  BY <1>2 DEF CallInv, TailInv, Behind
<1> QED
  BY <1>1, <1>2, <1>3, <1>4 DEF CallInv

(* A step of one caller keeps the invariant of all of them. *)
LEMMA CallerStep ==
    ASSUME UploadInv, NEW c \in Callers, NEW s \in Readers, NEW u \in Uploads, NEW q \in Calls, NEW t \in Told,
           Source(s),
           source' \in [Callers -> Readers], source'[c] = s, \A d \in Callers \ {c} : source'[d] = source[d],
           uploads' \in [Callers -> Uploads], uploads'[c] = u, \A d \in Callers \ {c} : uploads'[d] = uploads[d],
           call' = [call EXCEPT ![c] = q],
           result' \in [Callers -> Told], result'[c] = t, \A d \in Callers \ {c} : result'[d] = result[d],
           late' \subseteq Callers, \A d \in Callers \ {c} : d \in late' => d \in late,
           unaborted' \subseteq Callers, unaborted \subseteq unaborted',
           faults' \in 0..MaxFaults,
           object' \in Contents \cup {None}, object # None => object' = object,
           CallInv(s, u, q), OutInv(s, q, object'), ToldInv(s, q, t),
           c \in late' /\ Multipart(s) => Whole(s, q),
           u.open => c \in unaborted' \/ q.phase \in Opened
    PROVE  UploadInv'
<1>1. call' \in [Callers -> Calls] /\ call'[c] = q /\ \A d \in Callers \ {c} : call'[d] = call[d]
  BY DEF UploadInv, TypeOK
<1>2. \A d \in Callers : Source(source'[d])
  BY DEF UploadInv, TypeOK
<1>3. TypeOK'
  BY <1>1, <1>2 DEF TypeOK
<1>4. CallerInv(c)'
  BY <1>1 DEF CallerInv
<1>5. ASSUME NEW d \in Callers \ {c} PROVE CallerInv(d)'
  <2>1. CallerInv(d) /\ source[d] \in Readers /\ Source(source[d]) /\ object \in Contents \cup {None}
    BY DEF UploadInv, TypeOK
  <2>2. OutInv(source[d], call[d], object')
    <3>1. Reader(source[d]) \in Contents
      <4>1. source[d].data \in Contents /\ source[d].made \in Nat /\ source[d].made <= Len(source[d].data)
        BY <2>1 DEF Readers, Source
      <4>2. 1 \in Nat \ {0}
        OBVIOUS
      <4> QED
        BY <4>1, <4>2, Slice DEF Reader
    <3> QED
      BY <2>1, <3>1, NoneAssumption DEF CallerInv, OutInv
  <2> QED
    BY <1>1, <2>1, <2>2 DEF CallerInv
<1>6. \A d \in Callers : CallerInv(d)'
  BY <1>4, <1>5
<1> QED
  BY <1>3, <1>6 DEF UploadInv

-----------------------------------------------------------------------------
(* The initial states. *)

(* The initial states satisfy the invariant. *)
LEMMA InitInv == Init => UploadInv
<1> SUFFICES ASSUME Init PROVE UploadInv
  OBVIOUS
<1>1. /\ source \in [Callers -> Readers] /\ \A c \in Callers : Source(source[c])
      /\ PartSize \in Nat \ {0} /\ MaxParts \in Nat \ {0} /\ Concurrency \in Nat \ {0}
      /\ Threshold \in Nat /\ TrailerSize \in Nat /\ MaxFaults \in Nat
  BY SourceAssumption, SizeAssumption DEF Init
<1>2. <<>> \in Contents
  BY DEF Contents
<1>3. ASSUME NEW c \in Callers
      PROVE  /\ call[c] \in Calls /\ call[c].phase \in {"idle", "done"} /\ call[c].pos = 0 /\ call[c].tail = <<>>
             /\ call[c].next = 1 /\ call[c].last = FALSE /\ call[c].tasks = {} /\ call[c].sent = <<>>
             /\ call[c].parts = <<>> /\ call[c].out = "none" /\ call[c].free = [b \in 1..Concurrency |-> b]
             /\ (call[c].phase = "done" => source[c].kind = "none")
  <2> DEFINE r == NewCall(source[c])
  <2>1. call[c] = r
    BY DEF Init
  <2>2. r.free \in Seq(1..Concurrency) /\ r.bufs \in [1..Concurrency -> Contents]
    BY <1>1, <1>2 DEF NewCall
  <2>3. r.phase \in Phases /\ r.phase \in {"idle", "done"} /\ r.out \in Outs
    BY DEF NewCall, Phases, Outs
  <2>4. r.sent \in Seq(Outcomes) /\ r.parts \in Seq(1..MaxParts) /\ r.next \in 1..MaxParts + 1
    BY <1>1 DEF NewCall
  <2>5. r \in Calls
    BY <1>1, <1>2, <2>2, <2>3, <2>4 DEF Calls, NewCall
  <2> QED
    BY <2>1, <2>3, <2>5 DEF NewCall
<1>4. call \in [Callers -> Calls]
  <2>1. call = [c \in Callers |-> NewCall(source[c])]
    BY DEF Init
  <2>2. \A c \in Callers : call[c] \in Calls
    BY <1>3
  <2> HIDE DEF Init
  <2> QED
    BY <2>1, <2>2
<1>5. uploads \in [Callers -> Uploads] /\ \A c \in Callers : uploads[c].open = FALSE
  BY <1>2 DEF Init, Uploads
<1>6. result \in [Callers -> Told] /\ \A c \in Callers : result[c] = "none"
  BY DEF Init, Told
<1>7. object = None /\ late = {} /\ unaborted = {} /\ faults = 0
  BY DEF Init
<1> HIDE DEF Init
<1>8. TypeOK
  BY <1>1, <1>4, <1>5, <1>6, <1>7 DEF TypeOK
<1>9. ASSUME NEW c \in Callers PROVE CallerInv(c)
  <2> DEFINE r == call[c]
             s == source[c]
  <2>1. /\ s.made \in Nat /\ s.data \in Contents /\ s.made <= Len(s.data)
    BY <1>1 DEF Readers, Source
  <2>0. /\ r.phase \in {"idle", "done"} /\ r.pos = 0 /\ r.next = 1 /\ r.last = FALSE
        /\ r.tasks = {} /\ r.sent = <<>> /\ r.parts = <<>> /\ r.free = [b \in 1..Concurrency |-> b]
    BY <1>3
  <2>9. DOMAIN r.free = 1..Concurrency /\ \A i \in 1..Concurrency : r.free[i] = i
    BY <2>0
  <2>10. DOMAIN r.sent = {} /\ DOMAIN r.parts = {}
    <3>1. DOMAIN <<>> = {}
      OBVIOUS
    <3> QED
      BY <2>0, <3>1
  <2>2. BufferInv(r)
    <3>1. IsFiniteSet({})
      BY FS_EmptySet
    <3> HIDE DEF r
    <3> QED
      BY <2>0, <2>9, <2>10, <3>1 DEF BufferInv
  <2>3. NumberInv(r)
    <3> HIDE DEF r
    <3> QED
      BY <2>0, <2>10 DEF NumberInv
  <2>4. LoopInv(s, r)
    <3> HIDE DEF r, s
    <3>1. r.next - 1 = 0 /\ 0 * PartSize = 0
      BY <1>1, <2>0
    <3>2. Smaller(0, s.made) = 0
      BY <2>1 DEF Smaller
    <3> QED
      BY <2>0, <3>1, <3>2 DEF LoopInv
  <2>5. PartInv(s, uploads[c], r)
    <3> HIDE DEF r, s
    <3> QED
      BY <2>0, <2>10 DEF PartInv
  <2>6. TailInv(s, r)
    <3>1. ASSUME s.kind = "stream"
          PROVE  r.tail = SubSeq(s.data, Teed(s, r) - Smaller(TrailerSize, Teed(s, r)) + 1, Teed(s, r))
      <4>1. Teed(s, r) = 0
        BY <1>3, <3>1 DEF Teed
      <4>2. 0 - Smaller(TrailerSize, 0) + 1 = 1
        BY <1>1 DEF Smaller
      <4>3. SubSeq(s.data, 1, 0) = <<>>
        BY SubSeqEmpty
      <4> QED
        BY <1>3, <4>1, <4>2, <4>3
    <3> QED
      BY <1>3, <3>1 DEF TailInv
  <2>7. OutInv(s, r, object) /\ ToldInv(s, r, result[c])
    BY <1>3, <1>6 DEF OutInv, ToldInv
  <2> QED
    BY <1>5, <1>7, <2>2, <2>3, <2>4, <2>5, <2>6, <2>7 DEF CallerInv, CallInv
<1> QED
  BY <1>8, <1>9 DEF UploadInv

-----------------------------------------------------------------------------
(* The end of a call. *)

(* What the invariant says of one caller. *)
LEMMA Local ==
    ASSUME UploadInv, NEW c \in Callers
    PROVE  /\ source \in [Callers -> Readers] /\ source[c] \in Readers /\ Source(source[c])
           /\ uploads \in [Callers -> Uploads] /\ uploads[c] \in Uploads
           /\ call \in [Callers -> Calls] /\ call[c] \in Calls
           /\ result \in [Callers -> Told] /\ result[c] \in Told
           /\ object \in Contents \cup {None} /\ late \subseteq Callers /\ unaborted \subseteq Callers
           /\ faults \in 0..MaxFaults
           /\ CallInv(source[c], uploads[c], call[c])
           /\ OutInv(source[c], call[c], object) /\ ToldInv(source[c], call[c], result[c])
           /\ (c \in late /\ Multipart(source[c]) => Whole(source[c], call[c]))
           /\ (uploads[c].open => c \in unaborted \/ call[c].phase \in Opened)
BY DEF UploadInv, TypeOK, CallerInv

(* One flag of an upload is set. *)
LEMMA OpenSet ==
    ASSUME UploadInv, NEW c \in Callers, NEW b \in BOOLEAN, uploads' = [uploads EXCEPT ![c].open = b]
    PROVE  /\ uploads' \in [Callers -> Uploads] /\ uploads'[c].open = b
           /\ uploads'[c].parts = uploads[c].parts
           /\ \A d \in Callers \ {c} : uploads'[d] = uploads[d]
<1>1. uploads \in [Callers -> Uploads]
  BY DEF UploadInv, TypeOK
<1> QED
  BY <1>1 DEF Uploads

(* What a reader yields is a content. *)
LEMMA ReaderIs ==
    ASSUME NEW s \in Readers, Source(s)
    PROVE  /\ Reader(s) \in Contents /\ Len(Reader(s)) = s.made /\ Reader(s) # None
           /\ s.data \in Contents /\ s.made \in Nat /\ Len(s.data) \in Nat /\ s.made <= Len(s.data)
           /\ s.kind \in Kinds
<1>1. s.data \in Contents /\ s.made \in Nat /\ s.made <= Len(s.data) /\ s.kind \in Kinds
  BY DEF Readers, Source
<1>2. Len(s.data) \in Nat
  BY <1>1 DEF Contents
<1>3. 1 \in Nat \ {0} /\ s.made - 1 + 1 = s.made
  BY <1>1
<1>4. Reader(s) \in Contents /\ Len(Reader(s)) = s.made
  BY <1>1, <1>2, <1>3, Slice DEF Reader
<1> QED
  BY <1>1, <1>2, <1>4, NoneAssumption

(* A step behind the loop. *)
LEMMA BehindStep ==
    ASSUME UploadInv, NEW c \in Callers, NEW q \in Calls, Becomes(c, q), SameLoop(call[c], q),
           q.tail = call[c].tail, call[c].phase \notin {"idle", "dead", "done"},
           q.phase \in {"draining", "aborting", "returned", "dead"},
           q.phase = "draining" \/ (call[c].tasks = {} /\ call[c].sent = <<>>),
           q.out = "failed" \/ call[c].out # "failed",
           UNCHANGED <<source, result>>, faults' \in 0..MaxFaults,
           object' \in Contents \cup {None}, object # None => object' = object,
           q.out = "stored" =>
               /\ object' = Reader(source[c])
               /\ source[c].kind = "stream" => Teed(source[c], call[c]) = source[c].made,
           uploads' \in [Callers -> Uploads], uploads'[c].parts = uploads[c].parts,
           \A d \in Callers \ {c} : uploads'[d] = uploads[d],
           late' \subseteq Callers, \A d \in Callers \ {c} : d \in late' => d \in late,
           unaborted' \subseteq Callers, unaborted \subseteq unaborted',
           c \in late' /\ Multipart(source[c]) => Whole(source[c], call[c]),
           uploads'[c].open => c \in unaborted' \/ q.phase \in Opened
    PROVE  UploadInv'
<1> DEFINE s == source[c]
           r == call[c]
           u == uploads[c]
           v == uploads'[c]
<1>1. /\ s \in Readers /\ Source(s) /\ v \in Uploads /\ result[c] \in Told
      /\ source \in [Callers -> Readers] /\ result \in [Callers -> Told]
      /\ CallInv(s, u, r) /\ OutInv(s, r, object) /\ ToldInv(s, r, result[c])
  BY Local
<1>2. CallInv(s, u, q) /\ Teed(s, q) = Teed(s, r) /\ (Whole(s, r) => Whole(s, q))
  BY <1>1, Settle DEF Behind
<1>3. CallInv(s, v, q)
  BY <1>2 DEF CallInv, PartInv
<1>4. OutInv(s, q, object')
  BY <1>2 DEF OutInv
<1>5. ToldInv(s, q, result[c])
  BY <1>1 DEF ToldInv
<1>6. c \in late' /\ Multipart(s) => Whole(s, q)
  BY <1>2
<1>7. /\ source' \in [Callers -> Readers] /\ source'[c] = s /\ \A d \in Callers \ {c} : source'[d] = source[d]
      /\ result' \in [Callers -> Told] /\ result'[c] = result[c]
      /\ \A d \in Callers \ {c} : result'[d] = result[d]
  BY <1>1
<1>8. call' = [call EXCEPT ![c] = q]
  BY DEF Becomes
<1>9. v.open => c \in unaborted' \/ q.phase \in Opened
  OBVIOUS
<1> HIDE DEF s, r, u
<1> QED
  BY <1>1, <1>3, <1>4, <1>5, <1>6, <1>7, <1>8, <1>9, CallerStep

(* The conditional creation. *)
LEMMA Stored ==
    ASSUME UploadInv, NEW v \in Contents, Store(v)
    PROVE  /\ object' \in Contents \cup {None} /\ (object # None => object' = object)
           /\ (object = None => object' = v)
BY DEF UploadInv, TypeOK, Store

(* Counting a fault. *)
LEMMA Faulty ==
    ASSUME UploadInv
    PROVE  Fault \/ UNCHANGED faults => faults' \in 0..MaxFaults
BY SizeAssumption DEF UploadInv, TypeOK, Fault

(* A caller outside the loop has nothing in flight. *)
LEMMA Idle ==
    ASSUME UploadInv, NEW c \in Callers, call[c].phase \notin Running
    PROVE  call[c].tasks = {} /\ call[c].sent = <<>>
BY Local DEF CallInv, BufferInv

(* putSingle. *)
LEMMA PutStep ==
    ASSUME UploadInv, NEW c \in Callers, PutServed(c) \/ PutResent(c)
    PROVE  UploadInv'
<1>1. /\ call[c].phase = "single" /\ Store(Reader(source[c]))
      /\ UNCHANGED <<source, uploads, result, late, unaborted>>
      /\ Fault \/ UNCHANGED faults
  BY DEF PutServed, PutResent
<1>2. \E x \in Outs : /\ Returns(c, x) /\ x # "failed" /\ (x = "stored" => object = None)
  BY DEF PutServed, PutResent, Outs
<1>3. PICK x \in Outs : Returns(c, x) /\ x # "failed" /\ (x = "stored" => object = None)
  BY <1>2
<1> DEFINE y == Ends(call[c], "returned", x)
<1>4. call[c] \in Calls /\ source[c] \in Readers /\ Source(source[c]) /\ OutInv(source[c], call[c], object)
      /\ CallInv(source[c], uploads[c], call[c]) /\ uploads \in [Callers -> Uploads]
      /\ (uploads[c].open => c \in unaborted \/ call[c].phase \in Opened)
      /\ late \subseteq Callers /\ unaborted \subseteq Callers
      /\ (c \in late /\ Multipart(source[c]) => Whole(source[c], call[c]))
  BY Local
<1>5. /\ y \in Calls /\ y.phase = "returned" /\ y.out = x /\ y.tail = call[c].tail /\ SameLoop(call[c], y)
  <2>1. "returned" \in Phases
    BY DEF Phases
  <2> QED
    BY <1>4, <2>1, Updated
<1>6. Becomes(c, y)
  BY <1>3 DEF Returns, Ends
<1>7. Reader(source[c]) \in Contents /\ source[c].made \in Nat
  BY <1>4, ReaderIs
<1>8. /\ object' \in Contents \cup {None} /\ (object # None => object' = object)
      /\ (object = None => object' = Reader(source[c]))
  BY <1>1, <1>7, Stored
<1>9. faults' \in 0..MaxFaults
  BY <1>1, Faulty
<1>10. call[c].tasks = {} /\ call[c].sent = <<>> /\ call[c].out = "none"
  BY <1>1, <1>4, Idle DEF Running, CallInv, TailInv
<1>11. source[c].kind = "stream" => Teed(source[c], call[c]) = source[c].made
  <2> SUFFICES ASSUME source[c].kind = "stream" PROVE Teed(source[c], call[c]) = source[c].made
    OBVIOUS
  <2>1. ~(Prefix(source[c]) > Threshold) /\ Threshold \in Nat
    BY <1>1, <1>4, SizeAssumption DEF OutInv, Multipart
  <2>2. Prefix(source[c]) = source[c].made
    BY <2>1, <1>7 DEF Prefix, Smaller
  <2>3. call[c].pos \in Nat /\ call[c].pos <= source[c].made
    <3>1. call[c].pos = Upto(source[c], call[c].next - 1) /\ call[c].next - 1 \in Nat
      BY <1>4, SizeAssumption, CallFields, SMTT(60) DEF CallInv, LoopInv, Upto
    <3> QED
      BY <3>1, <1>4, UptoGrows
  <2> QED
    BY <1>1, <1>7, <2>2, <2>3 DEF Teed
<1>12. /\ uploads' \in [Callers -> Uploads] /\ uploads'[c].parts = uploads[c].parts
       /\ \A d \in Callers \ {c} : uploads'[d] = uploads[d]
       /\ late' \subseteq Callers /\ (\A d \in Callers \ {c} : d \in late' => d \in late)
       /\ unaborted' \subseteq Callers /\ unaborted \subseteq unaborted'
       /\ (c \in late' /\ Multipart(source[c]) => Whole(source[c], call[c]))
       /\ UNCHANGED <<source, result>>
  BY <1>1, <1>4
<1>13. uploads'[c].open => c \in unaborted' \/ y.phase \in Opened
  BY <1>1, <1>4 DEF Opened, Running
<1>14. call[c].phase \notin {"idle", "dead", "done"}
  BY <1>1
<1> HIDE DEF y
<1>15. y.out = "stored" =>
          /\ object' = Reader(source[c])
          /\ source[c].kind = "stream" => Teed(source[c], call[c]) = source[c].made
  BY <1>3, <1>5, <1>8, <1>11
<1>16. y.out = "failed" \/ call[c].out # "failed"
  BY <1>10
<1>17. y.phase \in {"draining", "aborting", "returned", "dead"}
  BY <1>5
<1> QED
  BY <1>5, <1>6, <1>8, <1>9, <1>10, <1>12, <1>13, <1>14, <1>15, <1>16, <1>17, BehindStep

(* What may come of a lost request. *)
LEMMA LostFacts ==
    ASSUME UploadInv, NEW c \in Callers, Lost(c)
    PROVE  /\ uploads' \in [Callers -> Uploads] /\ uploads'[c].parts = uploads[c].parts
           /\ \A d \in Callers \ {c} : uploads'[d] = uploads[d]
           /\ late' \subseteq Callers /\ (\A d \in Callers \ {c} : d \in late' => d \in late)
           /\ unaborted' \subseteq Callers /\ unaborted \subseteq unaborted'
           /\ (c \in late' /\ Multipart(source[c]) => Whole(source[c], call[c]))
           /\ (uploads'[c].open => c \in unaborted' \/ uploads[c].open)
<1>1. /\ uploads \in [Callers -> Uploads] /\ late \subseteq Callers /\ unaborted \subseteq Callers
      /\ (c \in late /\ Multipart(source[c]) => Whole(source[c], call[c]))
      /\ CallInv(source[c], uploads[c], call[c]) /\ OutInv(source[c], call[c], object)
  BY Local
<1>2. CASE UNCHANGED <<uploads, late, unaborted>>
  BY <1>1, <1>2
<1>3. CASE /\ call[c].phase \in {"single", "completing"} /\ late' = late \cup {c}
           /\ UNCHANGED <<uploads, unaborted>>
  <2>1. Multipart(source[c]) => Whole(source[c], call[c])
    BY <1>1, <1>3 DEF OutInv, CallInv, LoopInv, Whole
  <2> QED
    BY <1>1, <1>3, <2>1
<1>4. CASE /\ call[c].phase = "creating" /\ uploads' = [uploads EXCEPT ![c].open = TRUE]
           /\ unaborted' = unaborted \cup {c} /\ UNCHANGED late
  <2>1. /\ uploads' \in [Callers -> Uploads]
        /\ uploads'[c].parts = uploads[c].parts
        /\ \A d \in Callers \ {c} : uploads'[d] = uploads[d]
    BY <1>4, OpenSet
  <2> QED
    BY <1>1, <1>4, <2>1
<1> QED
  BY <1>2, <1>3, <1>4 DEF Lost

(* A request that fails. *)
LEMMA RequestFailsStep ==
    ASSUME UploadInv, NEW c \in Callers, RequestFails(c)
    PROVE  UploadInv'
<1> DEFINE r == call[c]
           p == IF r.phase = "completing" THEN "aborting" ELSE "returned"
           q == Ends(r, p, "failed")
<1>1. /\ r.phase \in {"single", "creating", "completing"}
      /\ (UNCHANGED <<uploads, late, unaborted, faults>>) \/ (Lost(c) /\ Fault)
      /\ Becomes(c, q) /\ UNCHANGED <<source, object, result>>
  BY DEF RequestFails, Ends
<1>2. r \in Calls /\ object \in Contents \cup {None} /\ (uploads[c].open => c \in unaborted \/ r.phase \in Opened)
  BY Local
<1>3. q \in Calls /\ q.phase = p /\ q.out = "failed" /\ q.tail = r.tail /\ SameLoop(r, q)
  <2>1. p \in Phases /\ "failed" \in Outs
    BY DEF Phases, Outs
  <2> HIDE DEF p, r
  <2> QED
    BY <1>2, <2>1, Updated
<1>4. Lost(c) /\ faults' \in 0..MaxFaults
  BY <1>1, Faulty DEF Lost
<1>5. /\ uploads' \in [Callers -> Uploads] /\ uploads'[c].parts = uploads[c].parts
      /\ \A d \in Callers \ {c} : uploads'[d] = uploads[d]
      /\ late' \subseteq Callers /\ (\A d \in Callers \ {c} : d \in late' => d \in late)
      /\ unaborted' \subseteq Callers /\ unaborted \subseteq unaborted'
      /\ (c \in late' /\ Multipart(source[c]) => Whole(source[c], r))
      /\ (uploads'[c].open => c \in unaborted' \/ uploads[c].open)
  BY <1>4, LostFacts
<1>6. r.tasks = {} /\ r.sent = <<>>
  BY <1>1, Idle DEF Running
<1>7. uploads'[c].open => c \in unaborted' \/ p \in Opened
  BY <1>1, <1>2, <1>5 DEF Opened, Running
<1>8. p \in {"draining", "aborting", "returned", "dead"} /\ r.phase \notin {"idle", "dead", "done"}
  BY <1>1
<1> HIDE DEF q, p
<1> QED
  BY <1>1, <1>2, <1>3, <1>4, <1>5, <1>6, <1>7, <1>8, BehindStep

(* The loop has taken back all of its parts. *)
LEMMA Emptied ==
    ASSUME UploadInv, NEW c \in Callers, Inflight(c) = 0
    PROVE  call[c].tasks = {} /\ call[c].sent = <<>>
<1> DEFINE r == call[c]
<1>1. IsFiniteSet(r.tasks) /\ r.sent \in Seq(Outcomes)
  BY Local, CallFields DEF CallInv, BufferInv
<1>2. Cardinality(r.tasks) \in Nat /\ Len(r.sent) \in Nat
  BY <1>1, FS_CardinalityType
<1>3. Cardinality(r.tasks) = 0 /\ Len(r.sent) = 0
  BY <1>2 DEF Inflight
<1> QED
  BY <1>1, <1>3, FS_EmptySet

(* Steps that only move to a later phase, with another outcome or not. *)
LEMMA LeaveStep ==
    ASSUME UploadInv, NEW c \in Callers, NEW p \in {"aborting", "returned"}, NEW o \in {"exists", "failed", call[c].out},
           Becomes(c, Ends(call[c], p, o)),
           call[c].phase \in {"completing", "draining", "aborting"},
           call[c].tasks = {} /\ call[c].sent = <<>>,
           o = call[c].out \/ call[c].phase = "completing",
           UNCHANGED <<source, result, late>>, faults' \in 0..MaxFaults,
           object' \in Contents \cup {None}, object # None => object' = object,
           uploads' \in [Callers -> Uploads], uploads'[c].parts = uploads[c].parts,
           \A d \in Callers \ {c} : uploads'[d] = uploads[d],
           unaborted' \subseteq Callers, unaborted \subseteq unaborted',
           uploads'[c].open => c \in unaborted' \/ p = "aborting"
    PROVE  UploadInv'
<1> DEFINE r == call[c]
           q == Ends(r, p, o)
<1>1. /\ r \in Calls /\ late \subseteq Callers /\ source[c] \in Readers /\ Source(source[c])
      /\ CallInv(source[c], uploads[c], r) /\ OutInv(source[c], r, object)
      /\ (c \in late /\ Multipart(source[c]) => Whole(source[c], r))
  BY Local
<1>2. q \in Calls /\ q.phase = p /\ q.out = o /\ q.tail = r.tail /\ SameLoop(r, q)
  <2>1. p \in Phases /\ o \in Outs
    BY <1>1, CallFields DEF Phases, Outs
  <2> HIDE DEF r
  <2> QED
    BY <1>1, <2>1, Updated
<1>3. r.phase = "completing" => r.out = "none"
  BY <1>1 DEF CallInv, TailInv
<1>4. o = "stored" =>
        /\ object' = Reader(source[c])
        /\ source[c].kind = "stream" => Teed(source[c], r) = source[c].made
  <2> SUFFICES ASSUME o = "stored" PROVE /\ object' = Reader(source[c])
                                         /\ source[c].kind = "stream" => Teed(source[c], r) = source[c].made
    OBVIOUS
  <2>1. r.out = "stored"
    BY <1>3
  <2>2. object = Reader(source[c]) /\ (source[c].kind = "stream" => Teed(source[c], r) = source[c].made)
    BY <1>1, <2>1 DEF OutInv
  <2> QED
    BY <1>1, <2>2, ReaderIs
<1>5. o = "failed" \/ r.out # "failed"
  BY <1>3
<1>6. uploads'[c].open => c \in unaborted' \/ p \in Opened
  BY DEF Opened
<1>7. p \in {"draining", "aborting", "returned", "dead"} /\ r.phase \notin {"idle", "dead", "done"}
  OBVIOUS
<1>8. /\ late' \subseteq Callers /\ (\A d \in Callers \ {c} : d \in late' => d \in late)
      /\ (c \in late' /\ Multipart(source[c]) => Whole(source[c], r))
  BY <1>1
<1>9. Becomes(c, q)
  OBVIOUS
<1> HIDE DEF q
<1> QED
  BY <1>2, <1>4, <1>5, <1>6, <1>7, <1>8, <1>9, BehindStep

(* Moving on keeps the outcome. *)
LEMMA AtIsEnds ==
    ASSUME NEW r \in Calls, NEW p \in Phases
    PROVE  At(r, p) = Ends(r, p, r.out)
BY DEF At, Ends, Calls

(* drain has received every result. *)
LEMMA DrainedStep ==
    ASSUME UploadInv, NEW c \in Callers, Drained(c)
    PROVE  UploadInv'
<1> DEFINE r == call[c]
<1>1. /\ r.phase = "draining" /\ Inflight(c) = 0 /\ Becomes(c, At(r, "aborting"))
      /\ UNCHANGED <<source, object, uploads, result, late, unaborted, faults>>
  BY DEF Drained, Goes, At
<1>2. r.tasks = {} /\ r.sent = <<>>
  BY <1>1, Emptied
<1>3. /\ r \in Calls /\ object \in Contents \cup {None} /\ uploads \in [Callers -> Uploads]
      /\ unaborted \subseteq Callers /\ faults \in 0..MaxFaults
  BY Local
<1>4. Becomes(c, Ends(r, "aborting", r.out))
  <2>1. "aborting" \in Phases
    BY DEF Phases
  <2> QED
    BY <1>1, <1>3, <2>1, AtIsEnds
<1> QED
  BY <1>1, <1>2, <1>3, <1>4, LeaveStep

(* AbortMultipartUpload. *)
LEMMA AbortStep ==
    ASSUME UploadInv, NEW c \in Callers, AbortServed(c) \/ AbortFails(c)
    PROVE  UploadInv'
<1> DEFINE r == call[c]
<1>1. /\ r.phase = "aborting" /\ Becomes(c, At(r, "returned")) /\ UNCHANGED <<source, object, result, late>>
      /\ Fault \/ UNCHANGED faults
  BY DEF AbortServed, AbortFails, Goes, At
<1>2. r.tasks = {} /\ r.sent = <<>>
  BY <1>1, Idle DEF Running
<1>3. /\ r \in Calls /\ object \in Contents \cup {None} /\ uploads \in [Callers -> Uploads]
      /\ unaborted \subseteq Callers
  BY Local
<1>4. Becomes(c, Ends(r, "returned", r.out))
  <2>1. "returned" \in Phases
    BY DEF Phases
  <2> QED
    BY <1>1, <1>3, <2>1, AtIsEnds
<1>5. faults' \in 0..MaxFaults
  BY <1>1, Faulty
<1>6. /\ uploads' \in [Callers -> Uploads] /\ uploads'[c].parts = uploads[c].parts
      /\ \A d \in Callers \ {c} : uploads'[d] = uploads[d]
      /\ unaborted' \subseteq Callers /\ unaborted \subseteq unaborted'
      /\ (uploads'[c].open => c \in unaborted')
  <2>1. CASE AbortServed(c)
    <3>1. uploads' = [uploads EXCEPT ![c].open = FALSE] /\ UNCHANGED unaborted
      BY <2>1 DEF AbortServed
    <3> QED
      BY <3>1, <1>3, OpenSet
  <2>2. CASE AbortFails(c)
    <3>1. UNCHANGED uploads /\ unaborted' = unaborted \cup {c}
      BY <2>2 DEF AbortFails
    <3> QED
      BY <3>1, <1>3
  <2> QED
    BY <2>1, <2>2
<1> QED
  BY <1>1, <1>2, <1>3, <1>4, <1>5, <1>6, LeaveStep

(* A completion, or one that the store makes later, joins the reader's     *)
(* parts in order.                                                         *)
LEMMA JoinsReader ==
    ASSUME UploadInv, NEW c \in Callers, Whole(source[c], call[c])
    PROVE  Joined(c) = Reader(source[c]) /\ Joined(c) \in Contents
<1>1. /\ source[c] \in Readers /\ Source(source[c]) /\ call[c] \in Calls
      /\ CallInv(source[c], uploads[c], call[c])
  BY Local
<1>2. Joined(c) = Reader(source[c])
  BY <1>1, JoinedIs DEF CallInv
<1> QED
  BY <1>1, <1>2, ReaderIs

(* CompleteMultipartUpload. *)
LEMMA CompleteStep ==
    ASSUME UploadInv, NEW c \in Callers, CompleteServed(c) \/ CompleteConflicts(c) \/ CompleteResent(c)
    PROVE  UploadInv'
<1> DEFINE r == call[c]
           s == source[c]
<1>1. /\ r.phase = "completing" /\ UNCHANGED <<source, result, late, unaborted>>
      /\ Fault \/ UNCHANGED faults
  BY DEF CompleteServed, CompleteConflicts, CompleteResent
<1>2. r.tasks = {} /\ r.sent = <<>>
  BY <1>1, Idle DEF Running
<1>3. /\ r \in Calls /\ object \in Contents \cup {None} /\ uploads \in [Callers -> Uploads]
      /\ unaborted \subseteq Callers /\ late \subseteq Callers /\ s \in Readers /\ Source(s)
      /\ CallInv(s, uploads[c], r) /\ (c \in late /\ Multipart(s) => Whole(s, r))
  BY Local
<1>4. Whole(s, r) /\ r.out = "none"
  BY <1>1, <1>3 DEF CallInv, LoopInv, TailInv, Whole
<1>5. Joined(c) = Reader(s) /\ Joined(c) \in Contents
  BY <1>4, JoinsReader
<1>6. faults' \in 0..MaxFaults
  BY <1>1, Faulty
<1>7. CASE CompleteServed(c) /\ object = None
  <2> DEFINE q == Ends(r, "returned", "stored")
  <2>1. /\ uploads' = [uploads EXCEPT ![c].open = FALSE] /\ Becomes(c, q) /\ object' = Reader(s)
    BY <1>5, <1>7 DEF CompleteServed, Returns, Ends, Store
  <2>2. /\ uploads' \in [Callers -> Uploads] /\ uploads'[c].parts = uploads[c].parts
        /\ (\A d \in Callers \ {c} : uploads'[d] = uploads[d]) /\ uploads'[c].open = FALSE
    BY <2>1, OpenSet
  <2>3. q \in Calls /\ q.phase = "returned" /\ q.out = "stored" /\ q.tail = r.tail /\ SameLoop(r, q)
    <3>1. "returned" \in Phases /\ "stored" \in Outs
      BY DEF Phases, Outs
    <3> HIDE DEF r
    <3> QED
      BY <1>3, <3>1, Updated
  <2>4. Teed(s, r) = s.made
    <3>1. s.made \in Nat /\ r.pos = s.made /\ Threshold \in Nat
      BY <1>3, <1>4, ReaderIs, SizeAssumption DEF Whole
    <3> QED
      BY <1>1, <3>1 DEF Teed, Prefix, Smaller
  <2>5. q.phase \in {"draining", "aborting", "returned", "dead"} /\ r.phase \notin {"idle", "dead", "done"}
    BY <1>1, <2>3
  <2>6. object' \in Contents \cup {None} /\ (object # None => object' = object)
    BY <1>5, <1>7, <2>1
  <2>7. /\ late' \subseteq Callers /\ (\A d \in Callers \ {c} : d \in late' => d \in late)
        /\ (c \in late' /\ Multipart(s) => Whole(s, r))
        /\ unaborted' \subseteq Callers /\ unaborted \subseteq unaborted'
    BY <1>1, <1>3
  <2> HIDE DEF q
  <2>8. q.out = "failed" \/ r.out # "failed"
    BY <1>4
  <2> QED
    BY <1>1, <1>2, <1>6, <2>1, <2>2, <2>3, <2>4, <2>5, <2>6, <2>7, <2>8, BehindStep
<1>8. CASE ~(CompleteServed(c) /\ object = None)
  <2>1. \E o \in {"exists", "failed"} : Becomes(c, Ends(r, "aborting", o))
    BY <1>8 DEF CompleteServed, CompleteConflicts, CompleteResent, Ends
  <2>2. PICK o \in {"exists", "failed"} : Becomes(c, Ends(r, "aborting", o))
    BY <2>1
  <2>3. /\ uploads' \in [Callers -> Uploads] /\ uploads'[c].parts = uploads[c].parts
        /\ (\A d \in Callers \ {c} : uploads'[d] = uploads[d])
    <3>1. CASE uploads' = [uploads EXCEPT ![c].open = FALSE]
      BY <3>1, OpenSet
    <3>2. CASE UNCHANGED uploads
      BY <3>2, <1>3
    <3> QED
      BY <1>8, <3>1, <3>2 DEF CompleteServed, CompleteConflicts, CompleteResent
  <2>4. object' \in Contents \cup {None} /\ (object # None => object' = object)
    <3>1. Store(Joined(c)) \/ UNCHANGED object
      BY DEF CompleteServed, CompleteConflicts, CompleteResent
    <3> QED
      BY <1>3, <1>5, <3>1, Stored
  <2> QED
    BY <1>1, <1>2, <1>3, <1>6, <2>2, <2>3, <2>4, LeaveStep
<1> QED
  BY <1>7, <1>8

(* The store serves a request that nobody waits for. *)
LEMMA ServeLateStep ==
    ASSUME UploadInv, NEW c \in Callers, ServeLate(c)
    PROVE  UploadInv'
<1> DEFINE r == call[c]
           s == source[c]
           v == uploads'[c]
<1>1. /\ c \in late /\ late' = late \ {c} /\ UNCHANGED <<source, call, result, unaborted, faults>>
  BY DEF ServeLate
<1>2. /\ source \in [Callers -> Readers] /\ s \in Readers /\ Source(s)
      /\ uploads \in [Callers -> Uploads] /\ uploads[c] \in Uploads
      /\ call \in [Callers -> Calls] /\ r \in Calls
      /\ result \in [Callers -> Told] /\ result[c] \in Told
      /\ object \in Contents \cup {None} /\ late \subseteq Callers /\ unaborted \subseteq Callers
      /\ faults \in 0..MaxFaults
      /\ CallInv(s, uploads[c], r) /\ OutInv(s, r, object) /\ ToldInv(s, r, result[c])
      /\ (c \in late /\ Multipart(s) => Whole(s, r))
      /\ (uploads[c].open => c \in unaborted \/ r.phase \in Opened)
  BY Local
<1>3. /\ object' \in Contents \cup {None} /\ (object # None => object' = object)
  <2>1. CASE Multipart(s) /\ Store(Joined(c))
    BY <1>1, <1>2, <2>1, JoinsReader, Stored
  <2>2. CASE Store(Reader(s))
    BY <1>2, <2>2, ReaderIs, Stored
  <2> QED
    BY <2>1, <2>2 DEF ServeLate
<1>4. /\ uploads' \in [Callers -> Uploads] /\ v.parts = uploads[c].parts
      /\ (\A d \in Callers \ {c} : uploads'[d] = uploads[d]) /\ (v.open => uploads[c].open)
  <2>1. CASE uploads[c].open /\ uploads' = [uploads EXCEPT ![c].open = object # None]
    <3>1. (object # None) \in BOOLEAN
      OBVIOUS
    <3> QED
      BY <2>1, <3>1, OpenSet
  <2>2. CASE UNCHANGED uploads
    BY <2>2, <1>2
  <2> QED
    BY <2>1, <2>2 DEF ServeLate
<1>5. v \in Uploads
  BY <1>4
<1>6. CallInv(s, v, r)
  BY <1>2, <1>4 DEF CallInv, PartInv
<1>7. OutInv(s, r, object')
  BY <1>2, <1>3, ReaderIs DEF OutInv
<1>8. call' = [call EXCEPT ![c] = r]
  BY <1>1, <1>2
<1>9. /\ source' \in [Callers -> Readers] /\ source'[c] = s /\ \A d \in Callers \ {c} : source'[d] = source[d]
      /\ result' \in [Callers -> Told] /\ result'[c] = result[c]
      /\ \A d \in Callers \ {c} : result'[d] = result[d]
      /\ late' \subseteq Callers /\ (\A d \in Callers \ {c} : d \in late' => d \in late)
      /\ unaborted' \subseteq Callers /\ unaborted \subseteq unaborted' /\ faults' \in 0..MaxFaults
      /\ (c \in late' /\ Multipart(s) => Whole(s, r))
      /\ (v.open => c \in unaborted' \/ r.phase \in Opened)
  BY <1>1, <1>2, <1>4
<1> HIDE DEF s, r, v
<1>10. uploads'[c] = v
  BY DEF v
<1> QED
  BY <1>2, <1>3, <1>4, <1>5, <1>6, <1>7, <1>8, <1>9, <1>10, CallerStep

(* The caller makes its result of Put's. *)
LEMMA ReportStep ==
    ASSUME UploadInv, NEW c \in Callers, Report(c) \/ ReportFails(c)
    PROVE  UploadInv'
<1> DEFINE r == call[c]
           s == source[c]
           u == uploads[c]
           q == At(r, "done")
<1>1. \E told \in {"ok", "failed"} :
        /\ Reports(c, told) /\ (told = "ok" /\ s.kind = "stream" => StreamOk(c))
  <2>1. CASE Report(c)
    BY <2>1 DEF Report
  <2>2. CASE ReportFails(c)
    BY <2>2 DEF ReportFails
  <2> QED
    BY <2>1, <2>2
<1>2. PICK told \in {"ok", "failed"} : Reports(c, told) /\ (told = "ok" /\ s.kind = "stream" => StreamOk(c))
  BY <1>1
<1>3. /\ r.phase = "returned" /\ result' = [result EXCEPT ![c] = told] /\ call' = [call EXCEPT ![c] = q]
      /\ UNCHANGED <<source, object, uploads, late, unaborted>>
  BY <1>2 DEF Reports, Goes, Becomes, At
<1>4. faults' \in 0..MaxFaults
  <2>1. Fault \/ UNCHANGED faults
    BY DEF Report, ReportFails
  <2> QED
    BY <2>1, Faulty
<1>5. /\ source \in [Callers -> Readers] /\ s \in Readers /\ Source(s)
      /\ uploads \in [Callers -> Uploads] /\ u \in Uploads /\ r \in Calls
      /\ result \in [Callers -> Told]
      /\ object \in Contents \cup {None} /\ late \subseteq Callers /\ unaborted \subseteq Callers
      /\ CallInv(s, u, r) /\ OutInv(s, r, object)
      /\ (c \in late /\ Multipart(s) => Whole(s, r))
      /\ (u.open => c \in unaborted \/ r.phase \in Opened)
  BY Local
<1>6. q \in Calls /\ q.phase = "done" /\ q.out = r.out /\ q.tail = r.tail /\ SameLoop(r, q)
  <2>1. "done" \in Phases
    BY DEF Phases
  <2> HIDE DEF r
  <2> QED
    BY <1>5, <2>1, Moved
<1>7. r.tasks = {} /\ r.sent = <<>>
  BY <1>3, Idle DEF Running
<1> HIDE DEF q
<1>8. CallInv(s, u, q) /\ Teed(s, q) = Teed(s, r) /\ (Whole(s, r) => Whole(s, q))
  <2>1. r.phase # "idle" /\ r.phase # "dead" /\ q.phase \in Behind /\ (q.out = "failed" \/ r.out # "failed")
    BY <1>3, <1>6 DEF Behind
  <2> HIDE DEF s, u, r
  <2> QED
    BY <1>5, <1>6, <1>7, <2>1, Settle
<1>9. OutInv(s, q, object')
  BY <1>3, <1>5, <1>6, <1>8 DEF OutInv
<1>10. ToldInv(s, q, told)
  <2>1. StreamOk(c) => r.out = "stored" /\ s.made = Len(s.data) /\ Len(r.tail) = TrailerSize
    BY DEF StreamOk
  <2> QED
    BY <1>2, <1>6, <2>1 DEF ToldInv
<1>11. told \in Told /\ result' \in [Callers -> Told] /\ result'[c] = told
       /\ \A d \in Callers \ {c} : result'[d] = result[d]
  <2>1. told \in Told
    BY DEF Told
  <2> QED
    BY <2>1, <1>3, <1>5
<1>12. /\ source' \in [Callers -> Readers] /\ source'[c] = s /\ (\A d \in Callers \ {c} : source'[d] = source[d])
       /\ uploads' \in [Callers -> Uploads] /\ uploads'[c] = u /\ (\A d \in Callers \ {c} : uploads'[d] = uploads[d])
       /\ late' \subseteq Callers /\ (\A d \in Callers \ {c} : d \in late' => d \in late)
       /\ unaborted' \subseteq Callers /\ unaborted \subseteq unaborted'
       /\ object' \in Contents \cup {None} /\ (object # None => object' = object)
       /\ (c \in late' /\ Multipart(s) => Whole(s, q))
       /\ (u.open => c \in unaborted' \/ q.phase \in Opened)
  BY <1>3, <1>5, <1>8 DEF Opened, Running
<1> HIDE DEF s, u, r
<1> QED
  BY <1>3, <1>4, <1>5, <1>6, <1>8, <1>9, <1>10, <1>11, <1>12, CallerStep

-----------------------------------------------------------------------------
(* The loop. *)

(* A step of the loop and of its goroutines. *)
LEMMA OwnStep ==
    ASSUME UploadInv, NEW c \in Callers, NEW q \in Calls, Becomes(c, q),
           UNCHANGED <<source, object, result, late, unaborted>>, faults' \in 0..MaxFaults,
           uploads' \in [Callers -> Uploads],
           \A d \in Callers \ {c} : uploads'[d] = uploads[d],
           CallInv(source[c], uploads'[c], q), OutInv(source[c], q, object), ToldInv(source[c], q, result[c]),
           c \in late /\ Multipart(source[c]) => Whole(source[c], q),
           uploads'[c].open => c \in unaborted \/ q.phase \in Opened
    PROVE  UploadInv'
<1> DEFINE s == source[c]
           v == uploads'[c]
<1>1. /\ source \in [Callers -> Readers] /\ s \in Readers /\ Source(s) /\ v \in Uploads
      /\ result \in [Callers -> Told] /\ result[c] \in Told
      /\ object \in Contents \cup {None} /\ late \subseteq Callers /\ unaborted \subseteq Callers
  BY Local
<1>2. /\ source' \in [Callers -> Readers] /\ source'[c] = s /\ (\A d \in Callers \ {c} : source'[d] = source[d])
      /\ result' \in [Callers -> Told] /\ result'[c] = result[c]
      /\ (\A d \in Callers \ {c} : result'[d] = result[d])
      /\ late' \subseteq Callers /\ (\A d \in Callers \ {c} : d \in late' => d \in late)
      /\ unaborted' \subseteq Callers /\ unaborted \subseteq unaborted'
      /\ object' \in Contents \cup {None} /\ (object # None => object' = object)
      /\ (c \in late' /\ Multipart(s) => Whole(s, q))
      /\ (v.open => c \in unaborted' \/ q.phase \in Opened)
      /\ OutInv(s, q, object') /\ CallInv(s, v, q) /\ ToldInv(s, q, result[c]) /\ uploads'[c] = v
  BY <1>1
<1>3. call' = [call EXCEPT ![c] = q]
  BY DEF Becomes
<1> HIDE DEF s, v
<1> QED
  BY <1>1, <1>2, <1>3, CallerStep

(* The end of what was read is a content. *)
LEMMA EndIs ==
    ASSUME NEW d \in Contents, NEW a \in Nat, a <= Len(d)
    PROVE  End(d, a) \in Contents
<1>1. TrailerSize \in Nat /\ Len(d) \in Nat
  BY SizeAssumption DEF Contents
<1>2. a - Smaller(TrailerSize, a) + 1 \in Nat \ {0}
  BY <1>1 DEF Smaller
<1> QED
  BY <1>2, Slice DEF End

(* How far the loop and the prefix have read. *)
LEMMA TeedIs ==
    ASSUME NEW s \in Readers, Source(s), NEW r \in Calls, LoopInv(s, r)
    PROVE  /\ r.pos \in Nat /\ r.pos <= s.made /\ r.next - 1 \in Nat /\ r.pos = Upto(s, r.next - 1)
           /\ Prefix(s) \in Nat /\ Prefix(s) <= s.made
           /\ Teed(s, r) \in Nat /\ Teed(s, r) <= s.made
           /\ (r.phase # "idle" => r.pos <= Teed(s, r) /\ Prefix(s) <= Teed(s, r))
<1>1. r.next - 1 \in Nat /\ r.pos = Upto(s, r.next - 1)
  BY SizeAssumption, CallFields DEF LoopInv, Upto
<1>2. r.pos \in Nat /\ r.pos <= s.made /\ s.made \in Nat
  BY <1>1, UptoGrows
<1>3. Prefix(s) \in Nat /\ Prefix(s) <= s.made
  BY <1>2, SizeAssumption DEF Prefix, Smaller
<1> QED
  BY <1>1, <1>2, <1>3 DEF Teed

(* Put reads the prefix and chooses. *)
LEMMA BeginStep ==
    ASSUME UploadInv, NEW c \in Callers, Begin(c)
    PROVE  UploadInv'
<1> DEFINE r == call[c]
           s == source[c]
           u == uploads[c]
           p == IF Multipart(s) THEN "creating" ELSE "single"
<1>1. /\ r.phase = "idle"
      /\ UNCHANGED <<source, object, uploads, result, late, unaborted, faults>>
  BY DEF Begin
<1>2. PICK tail \in IF s.kind = "stream" THEN Writes(<<>>, SubSeq(Reader(s), 1, Prefix(s))) ELSE {<<>>} :
        Becomes(c, [r EXCEPT !.phase = p, !.tail = tail])
  BY DEF Begin
<1> DEFINE q == [r EXCEPT !.phase = p, !.tail = tail]
<1>3. /\ s \in Readers /\ Source(s) /\ uploads \in [Callers -> Uploads] /\ r \in Calls
      /\ CallInv(s, u, r) /\ OutInv(s, r, object) /\ ToldInv(s, r, result[c])
      /\ (c \in late /\ Multipart(s) => Whole(s, r)) /\ faults \in 0..MaxFaults
      /\ (u.open => c \in unaborted \/ r.phase \in Opened)
  BY Local
<1>4. /\ r.tasks = {} /\ r.sent = <<>> /\ r.next = 1 /\ r.out = "none"
  BY <1>1, <1>3, Idle DEF Running, CallInv, LoopInv, TailInv
<1>5. /\ s.data \in Contents /\ s.made \in Nat /\ s.made <= Len(s.data) /\ Len(s.data) \in Nat
      /\ Len(Reader(s)) = s.made
  BY <1>3, ReaderIs
<1>6. /\ r.pos = 0 /\ Prefix(s) \in Nat /\ Prefix(s) <= s.made
  <2>1. /\ r.next - 1 \in Nat /\ r.pos = Upto(s, r.next - 1)
        /\ Prefix(s) \in Nat /\ Prefix(s) <= s.made
    BY <1>3, TeedIs DEF CallInv
  <2>2. r.next - 1 = 0
    BY <1>4
  <2> QED
    BY <1>3, <2>1, <2>2, UptoGrows
<1>7. s.kind = "stream" => tail = End(s.data, Prefix(s))
  <2> SUFFICES ASSUME s.kind = "stream" PROVE tail = End(s.data, Prefix(s))
    OBVIOUS
  <2>1. tail \in Writes(<<>>, SubSeq(Reader(s), 1, Prefix(s)))
    BY <1>2
  <2>2. End(s.data, 0) = <<>>
    <3>1. 0 - Smaller(TrailerSize, 0) + 1 = 1
      BY SizeAssumption DEF Smaller
    <3> QED
      BY <3>1, SubSeqEmpty DEF End
  <2>3. SubSeq(Reader(s), 1, Prefix(s)) = SubSeq(s.data, 0 + 1, Prefix(s))
    <3> DEFINE x == Prefix(s)
               d == s.data
               m == s.made
    <3>1. /\ x \in Nat /\ d \in Contents /\ m \in Nat /\ 1 \in Nat \ {0} /\ m <= Len(d) /\ Reader(s) = SubSeq(d, 1, m)
          /\ x <= Len(SubSeq(d, 1, m))
      BY <1>5, <1>6 DEF Reader
    <3> HIDE DEF x, d, m
    <3>2. SubSeq(SubSeq(d, 1, m), 1, x) = SubSeq(d, 1 + 1 - 1, 1 + x - 1)
      BY <3>1, Nested
    <3>3. 1 + 1 - 1 = 0 + 1 /\ 1 + x - 1 = x
      BY <3>1
    <3>4. SubSeq(SubSeq(d, 1, m), 1, x) = SubSeq(d, 0 + 1, x)
      BY <3>2, <3>3
    <3> QED
      BY <3>1, <3>4 DEF x, d, m
  <2>4. 0 \in Nat /\ 0 <= Prefix(s) /\ Prefix(s) <= Len(s.data)
    BY <1>5, <1>6
  <2>5. tail \in Writes(End(s.data, 0), SubSeq(s.data, 0 + 1, Prefix(s)))
    BY <2>1, <2>2, <2>3
  <2> QED
    BY <1>5, <1>6, <2>4, <2>5, WritesKeepEnd
<1>8. tail \in Contents
  <2>1. CASE s.kind = "stream"
    <3>1. Prefix(s) <= Len(s.data)
      BY <1>5, <1>6
    <3> QED
      BY <1>5, <1>6, <1>7, <2>1, <3>1, EndIs
  <2>2. CASE s.kind # "stream"
    <3>1. tail = <<>>
      BY <1>2, <2>2
    <3> QED
      BY <3>1 DEF Contents
  <2> QED
    BY <2>1, <2>2
<1>9. q \in Calls /\ q.phase = p /\ q.out = r.out /\ q.tail = tail /\ SameLoop(r, q)
  <2>1. p \in Phases
    BY DEF Phases
  <2> HIDE DEF p, r
  <2> QED
    BY <1>3, <1>8, <2>1 DEF Calls, SameLoop
<1>10. Becomes(c, q)
  BY <1>2
<1>11. q.phase \in {"creating", "single"} /\ (q.phase = "single" => ~Multipart(s))
  BY <1>9
<1> HIDE DEF q, p
<1>12. NumberInv(q) /\ PartInv(s, u, q) /\ BufferInv(q) /\ (Whole(s, r) => Whole(s, q))
  BY <1>3, <1>4, <1>9, Frame DEF CallInv
<1>13. LoopInv(s, q)
  BY <1>3, <1>4, <1>9, <1>11 DEF CallInv, LoopInv, SameLoop
<1>14. Teed(s, q) = Prefix(s)
  BY <1>6, <1>9, <1>11 DEF Teed, SameLoop
<1>15. TailInv(s, q)
  BY <1>4, <1>7, <1>9, <1>11, <1>14 DEF TailInv, End
<1>16. OutInv(s, q, object) /\ ToldInv(s, q, result[c])
  BY <1>1, <1>3, <1>4, <1>9, <1>11 DEF OutInv, ToldInv
<1>17. u.open => c \in unaborted \/ q.phase \in Opened
  BY <1>1, <1>3 DEF Opened, Running
<1>18. CallInv(s, u, q)
  BY <1>12, <1>13, <1>15 DEF CallInv
<1> QED
  BY <1>1, <1>3, <1>9, <1>10, <1>12, <1>16, <1>17, <1>18, OwnStep

(* Moves inside the loop. *)
LEMMA MoveStep ==
    ASSUME UploadInv, NEW c \in Callers, NEW p \in {"reading", "collecting", "completing"},
           Becomes(c, At(call[c], p)), call[c].phase \in {"creating", "reading", "polling", "collecting"},
           UNCHANGED <<source, object, result, late, unaborted>>, faults' \in 0..MaxFaults,
           uploads' \in [Callers -> Uploads], uploads'[c].parts = uploads[c].parts,
           \A d \in Callers \ {c} : uploads'[d] = uploads[d],
           p # "reading" => call[c].pos = source[c].made,
           p = "completing" => call[c].tasks = {} /\ call[c].sent = <<>>,
           p # "reading" => call[c].phase # "creating"
    PROVE  UploadInv'
<1> DEFINE r == call[c]
           s == source[c]
           u == uploads[c]
           v == uploads'[c]
           q == At(r, p)
<1>1. /\ s \in Readers /\ Source(s) /\ r \in Calls
      /\ CallInv(s, u, r) /\ OutInv(s, r, object) /\ ToldInv(s, r, result[c])
      /\ (c \in late /\ Multipart(s) => Whole(s, r))
  BY Local
<1>2. q \in Calls /\ q.phase = p /\ q.out = r.out /\ q.tail = r.tail /\ SameLoop(r, q)
  <2>1. p \in Phases
    BY DEF Phases
  <2> HIDE DEF r
  <2> QED
    BY <1>1, <2>1, Moved
<1>3. Becomes(c, q)
  OBVIOUS
<1> HIDE DEF q
<1>4. r.out = "none"
  BY <1>1 DEF CallInv, TailInv
<1>5. BufferInv(q) /\ NumberInv(q) /\ (Whole(s, r) => Whole(s, q)) /\ PartInv(s, u, q)
  <2>1. q.phase \in Running \/ (r.tasks = {} /\ r.sent = <<>>)
    BY <1>2 DEF Running
  <2> QED
    BY <1>1, <1>2, <2>1, Frame DEF CallInv
<1>6. PartInv(s, v, q)
  BY <1>5 DEF PartInv
<1>7. \A k \in 1..r.next - 1 : Accepted(r, k) \/ InFlight(r, k)
  <2>1. CASE r.phase = "creating"
    <3>1. r.next = 1
      BY <1>1, <2>1 DEF CallInv, LoopInv
    <3>2. 1..r.next - 1 = {}
      BY <3>1
    <3> QED
      BY <3>2
  <2>2. CASE r.phase # "creating"
    BY <1>1, <2>2 DEF CallInv, LoopInv
  <2> QED
    BY <2>1, <2>2
<1>8. \A k \in 1..q.next - 1 : Accepted(q, k) \/ InFlight(q, k)
  BY <1>2, <1>7 DEF SameLoop, Accepted, InFlight
<1>9. p = "completing" => \A k \in 1..q.next - 1 : Accepted(q, k)
  <2>1. p = "completing" => q.tasks = {} /\ DOMAIN q.sent = {}
    <3>1. DOMAIN <<>> = {}
      OBVIOUS
    <3> QED
      BY <1>2, <3>1 DEF SameLoop
  <2> QED
    BY <1>8, <2>1 DEF InFlight
<1>10. LoopInv(s, q)
  <2>1. q.pos = r.pos /\ q.next = r.next /\ q.last = r.last
    BY <1>2 DEF SameLoop
  <2> QED
    BY <1>1, <1>2, <1>8, <1>9, <2>1 DEF CallInv, LoopInv
<1>11. Teed(s, q) = Teed(s, r)
  BY <1>2 DEF Teed, SameLoop
<1>12. TailInv(s, q)
  BY <1>1, <1>2, <1>4, <1>11 DEF CallInv, TailInv
<1>13. CallInv(s, v, q)
  BY <1>5, <1>6, <1>10, <1>12 DEF CallInv
<1>14. OutInv(s, q, object) /\ ToldInv(s, q, result[c])
  BY <1>1, <1>2, <1>4 DEF OutInv, ToldInv
<1>15. v.open => c \in unaborted \/ q.phase \in Opened
  BY <1>2 DEF Opened, Running
<1> QED
  BY <1>1, <1>2, <1>3, <1>5, <1>13, <1>14, <1>15, OwnStep

(* CreateMultipartUpload, and the loop's moves when there is nothing to    *)
(* receive.                                                                *)
LEMMA SimpleStep ==
    ASSUME UploadInv, NEW c \in Callers, CreateServed(c) \/ Polled(c) \/ Collected(c)
    PROVE  UploadInv'
<1> DEFINE r == call[c]
           s == source[c]
<1>1. /\ uploads \in [Callers -> Uploads] /\ CallInv(s, uploads[c], r) /\ faults \in 0..MaxFaults
  BY Local
<1>2. CASE CreateServed(c)
  <2>1. /\ r.phase = "creating" /\ uploads' = [uploads EXCEPT ![c].open = TRUE] /\ Becomes(c, At(r, "reading"))
        /\ UNCHANGED <<source, object, result, late, unaborted, faults>>
    BY <1>2 DEF CreateServed, Goes, At
  <2>2. /\ uploads' \in [Callers -> Uploads] /\ uploads'[c].parts = uploads[c].parts
        /\ \A d \in Callers \ {c} : uploads'[d] = uploads[d]
    BY <2>1, OpenSet
  <2> QED
    BY <1>1, <2>1, <2>2, MoveStep
<1>3. CASE Polled(c)
  <2> DEFINE p == IF r.last THEN "collecting" ELSE "reading"
  <2>1. /\ r.phase = "polling" /\ Becomes(c, At(r, p))
        /\ UNCHANGED <<source, object, uploads, result, late, unaborted, faults>>
    BY <1>3 DEF Polled, Goes, At
  <2>2. p # "reading" => r.pos = s.made
    BY <1>1 DEF CallInv, LoopInv
  <2>3. p \in {"reading", "collecting", "completing"} /\ p # "completing"
    OBVIOUS
  <2> HIDE DEF p
  <2> QED
    BY <1>1, <2>1, <2>2, <2>3, MoveStep
<1>4. CASE Collected(c)
  <2>1. /\ r.phase = "collecting" /\ Becomes(c, At(r, "completing")) /\ Inflight(c) = 0
        /\ UNCHANGED <<source, object, uploads, result, late, unaborted, faults>>
    BY <1>4 DEF Collected, Goes, At
  <2>2. r.pos = s.made
    BY <1>1, <2>1 DEF CallInv, LoopInv
  <2>3. r.tasks = {} /\ r.sent = <<>>
    BY <2>1, Emptied
  <2> QED
    BY <1>1, <2>1, <2>2, <2>3, MoveStep
<1> QED
  BY <1>2, <1>3, <1>4

-----------------------------------------------------------------------------
(* The stack, the channel and the goroutines. *)

(* Popping. *)
LEMMA FrontIs ==
    ASSUME NEW S, NEW f \in Seq(S), f # <<>>
    PROVE  /\ Front(f) \in Seq(S) /\ DOMAIN Front(f) = 1..Len(f) - 1 /\ DOMAIN f = 1..Len(f)
           /\ \A i \in 1..Len(f) - 1 : Front(f)[i] = f[i] /\ i \in DOMAIN f /\ i # Len(f)
           /\ Last(f) = f[Len(f)] /\ Len(f) \in DOMAIN f /\ Last(f) \in S
<1>1. Len(f) \in Nat \ {0} /\ DOMAIN f = 1..Len(f) /\ \A i \in 1..Len(f) : f[i] \in S
  BY EmptySeq
<1>2. Front(f) = SubSeq(f, 1, Len(f) - 1)
  BY DEF Front
<1>3. /\ SubSeq(f, 1, Len(f) - 1) \in Seq(S) /\ Len(SubSeq(f, 1, Len(f) - 1)) = Len(f) - 1
      /\ \A i \in 1..Len(f) - 1 : SubSeq(f, 1, Len(f) - 1)[i] = f[i]
  BY <1>1
<1>4. DOMAIN Front(f) = 1..Len(f) - 1
  BY <1>2, <1>3
<1>5. \A i \in 1..Len(f) - 1 : i \in DOMAIN f /\ i # Len(f)
  <2>1. ASSUME NEW n \in Nat PROVE \A i \in 1..n - 1 : i \in 1..n /\ i # n
    OBVIOUS
  <2> QED
    BY <1>1, <2>1
<1>6. Last(f) = f[Len(f)] /\ Len(f) \in DOMAIN f
  BY <1>1 DEF Last
<1>7. Last(f) \in S
  BY <1>1, <1>6
<1>8. \A i \in 1..Len(f) - 1 : Front(f)[i] = f[i]
  BY <1>2, <1>3
<1>9. Front(f) \in Seq(S)
  BY <1>2, <1>3
<1> QED
  BY <1>1, <1>4, <1>5, <1>6, <1>7, <1>8, <1>9

(* Receiving. *)
LEMMA TailIs ==
    ASSUME NEW S, NEW f \in Seq(S), f # <<>>
    PROVE  /\ Tail(f) \in Seq(S) /\ DOMAIN f = 1..Len(f) /\ Len(f) \in Nat \ {0}
           /\ DOMAIN Tail(f) = 1..Len(f) - 1 /\ Head(f) = f[1] /\ 1 \in DOMAIN f /\ Head(f) \in S
           /\ \A i \in 1..Len(f) - 1 : Tail(f)[i] = f[i + 1] /\ i + 1 \in DOMAIN f /\ i + 1 # 1
           /\ \A i \in DOMAIN f : i = 1 \/ (i - 1 \in 1..Len(f) - 1 /\ Tail(f)[i - 1] = f[i])
<1>1. Len(f) \in Nat \ {0} /\ DOMAIN f = 1..Len(f) /\ \A i \in 1..Len(f) : f[i] \in S
  BY EmptySeq
<1>2. /\ Tail(f) \in Seq(S) /\ Len(Tail(f)) = Len(f) - 1 /\ Head(f) = f[1]
      /\ \A i \in 1..Len(f) - 1 : Tail(f)[i] = f[i + 1]
  BY <1>1, HeadTailProperties
<1>3. DOMAIN Tail(f) = 1..Len(f) - 1
  BY <1>2
<1>4. \A i \in 1..Len(f) - 1 : i + 1 \in 1..Len(f) /\ i + 1 # 1
  BY <1>1
<1>5. \A i \in 1..Len(f) : i = 1 \/ (i - 1 \in 1..Len(f) - 1 /\ i - 1 + 1 = i)
  BY <1>1
<1>6. \A i \in 1..Len(f) : i = 1 \/ (i - 1 \in 1..Len(f) - 1 /\ Tail(f)[i - 1] = f[i])
  BY <1>2, <1>5
<1> QED
  BY <1>1, <1>2, <1>3, <1>4, <1>6

(* Pushing and sending. *)
LEMMA AppendIs ==
    ASSUME NEW S, NEW f \in Seq(S), NEW x \in S
    PROVE  /\ Append(f, x) \in Seq(S) /\ Len(f) \in Nat /\ DOMAIN f = 1..Len(f)
           /\ DOMAIN Append(f, x) = 1..Len(f) + 1
           /\ \A i \in DOMAIN f : Append(f, x)[i] = f[i] /\ i \in 1..Len(f) + 1
           /\ Append(f, x)[Len(f) + 1] = x /\ Len(f) + 1 \in 1..Len(f) + 1
           /\ \A i \in 1..Len(f) + 1 : i \in DOMAIN f \/ i = Len(f) + 1
OBVIOUS

(* Taking a buffer from the stack. *)
LEMMA PopKeeps ==
    ASSUME NEW r \in Calls, NEW q, BufferInv(r), r.free # <<>>, q.phase \in Running,
           q.free = Front(r.free), q.tasks = r.tasks, q.sent = r.sent
    PROVE  BufferInv(q)
<1>1. r.free \in Seq(1..Concurrency)
  BY CallFields
<1>2. DOMAIN q.free = 1..Len(r.free) - 1 /\ \A i \in DOMAIN q.free : q.free[i] = r.free[i] /\ i \in DOMAIN r.free
  BY <1>1, FrontIs
<1> QED
  BY <1>2 DEF BufferInv

(* An error ends the loop. *)
LEMMA StopStep ==
    ASSUME UploadInv, NEW c \in Callers, NEW q \in Calls, Becomes(c, q),
           call[c].phase \in Running, q.phase = "draining", q.out = "failed",
           q.pos = call[c].pos, q.next = call[c].next, q.last = call[c].last,
           BufferInv(q), NumberInv(q), PartInv(source[c], uploads[c], q),
           Whole(source[c], call[c]) => Whole(source[c], q),
           UNCHANGED <<source, object, uploads, result, late, unaborted>>, faults' \in 0..MaxFaults
    PROVE  UploadInv'
<1> DEFINE r == call[c]
           s == source[c]
           u == uploads[c]
<1>1. /\ uploads \in [Callers -> Uploads]
      /\ CallInv(s, u, r) /\ ToldInv(s, r, result[c])
      /\ (c \in late /\ Multipart(s) => Whole(s, r))
  BY Local
<1>2. LoopInv(s, q)
  BY <1>1 DEF CallInv, LoopInv
<1>3. TailInv(s, q) /\ OutInv(s, q, object)
  BY DEF TailInv, OutInv
<1>4. ToldInv(s, q, result[c])
  BY <1>1 DEF ToldInv, Running, Told
<1>5. CallInv(s, u, q)
  BY <1>2, <1>3 DEF CallInv
<1>6. q.phase \in Opened
  BY DEF Opened, Running
<1> QED
  BY <1>1, <1>3, <1>4, <1>5, <1>6, OwnStep

(* The reader fails. *)
LEMMA ReadFailsStep ==
    ASSUME UploadInv, NEW c \in Callers, ReadFails(c)
    PROVE  UploadInv'
<1> DEFINE r == call[c]
           s == source[c]
           u == uploads[c]
           q == StopReading(r)
<1>1. /\ r.phase = "reading" /\ r.free # <<>> /\ Becomes(c, q) /\ Fault
      /\ UNCHANGED <<source, object, uploads, result, late, unaborted>>
  BY DEF ReadFails
<1>2. r \in Calls /\ CallInv(s, u, r)
  BY Local
<1>3. Front(r.free) \in Seq(1..Concurrency)
  BY <1>1, <1>2, CallFields, FrontIs
<1>4. /\ q \in Calls /\ q.phase = "draining" /\ q.out = "failed" /\ q.free = Front(r.free)
      /\ q.pos = r.pos /\ q.next = r.next /\ q.last = r.last /\ q.bufs = r.bufs
      /\ q.tasks = r.tasks /\ q.sent = r.sent /\ q.parts = r.parts
  <2>1. "draining" \in Phases /\ "failed" \in Outs
    BY DEF Phases, Outs
  <2> HIDE DEF r
  <2> QED
    BY <1>2, <1>3, <2>1 DEF StopReading, Stop, Calls
<1> HIDE DEF q
<1>5. BufferInv(q)
  BY <1>1, <1>2, <1>4, PopKeeps DEF CallInv, Running
<1>6. NumberInv(q)
  BY <1>2, <1>4 DEF CallInv, NumberInv
<1>7. PartInv(s, u, q)
  BY <1>2, <1>4 DEF CallInv, PartInv
<1>8. Whole(s, r) => Whole(s, q)
  BY <1>4 DEF Whole, Accepted
<1>9. faults' \in 0..MaxFaults
  BY <1>1, Faulty
<1>10. r.phase \in Running
  BY <1>1 DEF Running
<1> QED
  BY <1>1, <1>4, <1>5, <1>6, <1>7, <1>8, <1>9, <1>10, StopStep

(* accept keeps the books: the result leaves the channel, its buffer goes  *)
(* back, and its part is listed if it was stored.                          *)
LEMMA AcceptIs ==
    ASSUME NEW s, NEW u, NEW r \in Calls, r.sent # <<>>, r.phase \in Running,
           BufferInv(r), NumberInv(r), PartInv(s, u, r)
    PROVE  LET a == Accept(r, Head(r.sent))
           IN  /\ a \in Calls /\ a.phase = r.phase /\ a.out = r.out /\ a.tail = r.tail
               /\ a.pos = r.pos /\ a.next = r.next /\ a.last = r.last
               /\ BufferInv(a) /\ NumberInv(a) /\ PartInv(s, u, a)
               /\ \A k \in Nat : Accepted(r, k) => Accepted(a, k)
               /\ Head(r.sent).ok => \A k \in Nat : InFlight(r, k) => Accepted(a, k) \/ InFlight(a, k)
<1> DEFINE x == r.sent[1]
           a == Accept(r, Head(r.sent))
<1>1. /\ r.free \in Seq(1..Concurrency) /\ r.sent \in Seq(Outcomes) /\ r.parts \in Seq(1..MaxParts)
  BY CallFields
<1>2. /\ Tail(r.sent) \in Seq(Outcomes) /\ DOMAIN r.sent = 1..Len(r.sent) /\ Len(r.sent) \in Nat \ {0}
      /\ DOMAIN Tail(r.sent) = 1..Len(r.sent) - 1 /\ Head(r.sent) = x /\ 1 \in DOMAIN r.sent /\ x \in Outcomes
      /\ \A i \in 1..Len(r.sent) - 1 : Tail(r.sent)[i] = r.sent[i + 1] /\ i + 1 \in DOMAIN r.sent /\ i + 1 # 1
      /\ \A i \in DOMAIN r.sent : i = 1 \/ (i - 1 \in 1..Len(r.sent) - 1 /\ Tail(r.sent)[i - 1] = r.sent[i])
  BY <1>1, TailIs
<1>3. x.buf \in 1..Concurrency /\ x.part \in 1..MaxParts /\ x.ok \in BOOLEAN
  BY <1>2 DEF Outcomes
<1>4. /\ a.sent = Tail(r.sent) /\ a.free = Append(r.free, x.buf)
      /\ a.parts = IF x.ok THEN Append(r.parts, x.part) ELSE r.parts
      /\ a.tasks = r.tasks /\ a.bufs = r.bufs /\ a.pos = r.pos /\ a.next = r.next /\ a.last = r.last
      /\ a.phase = r.phase /\ a.out = r.out /\ a.tail = r.tail
  <2>1. a = [r EXCEPT !.sent = Tail(r.sent), !.free = Append(r.free, x.buf),
                      !.parts = IF x.ok THEN Append(r.parts, x.part) ELSE r.parts]
    BY <1>2 DEF Accept, Calls
  <2> HIDE DEF a, x
  <2> QED
    BY <2>1 DEF Calls
<1>5. /\ Append(r.free, x.buf) \in Seq(1..Concurrency)
      /\ \A i \in DOMAIN Append(r.free, x.buf) :
            \/ i \in DOMAIN r.free /\ Append(r.free, x.buf)[i] = r.free[i]
            \/ i = Len(r.free) + 1 /\ Append(r.free, x.buf)[i] = x.buf
  BY <1>1, <1>3, AppendIs, SMTT(60)
<1>6. /\ Append(r.parts, x.part) \in Seq(1..MaxParts)
      /\ \A i \in DOMAIN Append(r.parts, x.part) :
            \/ i \in DOMAIN r.parts /\ Append(r.parts, x.part)[i] = r.parts[i]
            \/ i = Len(r.parts) + 1 /\ Append(r.parts, x.part)[i] = x.part
      /\ \A i \in DOMAIN r.parts : i \in DOMAIN Append(r.parts, x.part) /\ Append(r.parts, x.part)[i] = r.parts[i]
      /\ Len(r.parts) + 1 \in DOMAIN Append(r.parts, x.part)
      /\ Append(r.parts, x.part)[Len(r.parts) + 1] = x.part
  <2>1. /\ Append(r.parts, x.part) \in Seq(1..MaxParts) /\ DOMAIN Append(r.parts, x.part) = 1..Len(r.parts) + 1
        /\ \A i \in DOMAIN r.parts : Append(r.parts, x.part)[i] = r.parts[i] /\ i \in 1..Len(r.parts) + 1
        /\ Append(r.parts, x.part)[Len(r.parts) + 1] = x.part /\ Len(r.parts) + 1 \in 1..Len(r.parts) + 1
        /\ \A i \in 1..Len(r.parts) + 1 : i \in DOMAIN r.parts \/ i = Len(r.parts) + 1
    BY <1>1, <1>3, AppendIs, SMTT(60)
  <2> QED
    BY <2>1
<1>7. a \in Calls
  <2>1. a = [r EXCEPT !.sent = Tail(r.sent), !.free = Append(r.free, x.buf),
                      !.parts = IF x.ok THEN Append(r.parts, x.part) ELSE r.parts]
    BY <1>2 DEF Accept, Calls
  <2> HIDE DEF a, x
  <2> QED
    BY <1>2, <1>5, <1>6, <2>1 DEF Calls
<1>8. \A i \in DOMAIN a.sent :
          i \in Nat /\ i + 1 \in DOMAIN r.sent /\ a.sent[i] = r.sent[i + 1] /\ i + 1 # 1
  <2>1. \A i \in 1..Len(r.sent) - 1 : i \in Nat
    OBVIOUS
  <2>2. a.sent = Tail(r.sent)
    BY <1>4
  <2> HIDE DEF a
  <2> QED
    BY <1>2, <2>1, <2>2
<1>9. \A i \in DOMAIN a.free : \/ i \in DOMAIN r.free /\ a.free[i] = r.free[i]
                               \/ i = Len(r.free) + 1 /\ a.free[i] = x.buf
  BY <1>4, <1>5
<1>10. \A i \in DOMAIN a.parts : \/ i \in DOMAIN r.parts /\ a.parts[i] = r.parts[i]
                                 \/ x.ok /\ i = Len(r.parts) + 1 /\ a.parts[i] = x.part
  BY <1>4, <1>6, ZenonT(60)
<1>11. \A i, j \in DOMAIN a.sent : i + 1 = j + 1 => i = j
  BY <1>8
<1> HIDE DEF a
<1>12. BufferInv(a)
  <2>1. IsFiniteSet(a.tasks) /\ a.phase \in Running /\ \A t, y \in a.tasks : t.buf = y.buf => t = y
    BY <1>4 DEF BufferInv
  <2>2. \A i, j \in DOMAIN a.free : a.free[i] = a.free[j] => i = j
    BY <1>2, <1>9 DEF BufferInv
  <2>3. \A i, j \in DOMAIN a.sent : a.sent[i].buf = a.sent[j].buf => i = j
    BY <1>8, <1>11 DEF BufferInv
  <2>4. \A t \in a.tasks : \A i \in DOMAIN a.free : t.buf # a.free[i]
    BY <1>2, <1>4, <1>9 DEF BufferInv
  <2>5. \A t \in a.tasks : \A i \in DOMAIN a.sent : t.buf # a.sent[i].buf
    BY <1>4, <1>8 DEF BufferInv
  <2>6. \A i \in DOMAIN a.sent : \A j \in DOMAIN a.free : a.sent[i].buf # a.free[j]
    <3> SUFFICES ASSUME NEW i \in DOMAIN a.sent, NEW j \in DOMAIN a.free PROVE a.sent[i].buf # a.free[j]
      OBVIOUS
    <3>1. i + 1 \in DOMAIN r.sent /\ a.sent[i] = r.sent[i + 1] /\ i + 1 # 1
      BY <1>8
    <3>2. (j \in DOMAIN r.free /\ a.free[j] = r.free[j]) \/ a.free[j] = r.sent[1].buf
      BY <1>9
    <3>3. j \in DOMAIN r.free => r.sent[i + 1].buf # r.free[j]
      BY <3>1 DEF BufferInv
    <3>4. r.sent[i + 1].buf # r.sent[1].buf
      BY <1>2, <3>1 DEF BufferInv
    <3> QED
      BY <3>1, <3>2, <3>3, <3>4
  <2> QED
    BY <2>1, <2>2, <2>3, <2>4, <2>5, <2>6 DEF BufferInv
<1>13. NumberInv(a)
  <2>1. \A i \in DOMAIN a.parts : a.parts[i] < a.next
    BY <1>2, <1>4, <1>10 DEF NumberInv
  <2>2. /\ (\A t \in a.tasks : t.part < a.next) /\ (\A i \in DOMAIN a.sent : a.sent[i].part < a.next)
        /\ \A t, y \in a.tasks : t.part = y.part => t = y
    BY <1>4, <1>8 DEF NumberInv
  <2>3. \A i, j \in DOMAIN a.parts : a.parts[i] = a.parts[j] => i = j
    BY <1>2, <1>10 DEF NumberInv
  <2>4. \A i, j \in DOMAIN a.sent : a.sent[i].part = a.sent[j].part => i = j
    BY <1>8, <1>11 DEF NumberInv
  <2>5. \A t \in a.tasks : \A i \in DOMAIN a.parts : t.part # a.parts[i]
    BY <1>2, <1>4, <1>10 DEF NumberInv
  <2>6. \A t \in a.tasks : \A i \in DOMAIN a.sent : t.part # a.sent[i].part
    BY <1>4, <1>8 DEF NumberInv
  <2>7. \A i \in DOMAIN a.sent : \A j \in DOMAIN a.parts : a.sent[i].part # a.parts[j]
    <3> SUFFICES ASSUME NEW i \in DOMAIN a.sent, NEW j \in DOMAIN a.parts PROVE a.sent[i].part # a.parts[j]
      OBVIOUS
    <3>1. i + 1 \in DOMAIN r.sent /\ a.sent[i] = r.sent[i + 1] /\ i + 1 # 1
      BY <1>8
    <3>2. (j \in DOMAIN r.parts /\ a.parts[j] = r.parts[j]) \/ a.parts[j] = r.sent[1].part
      BY <1>10
    <3>3. j \in DOMAIN r.parts => r.sent[i + 1].part # r.parts[j]
      BY <3>1 DEF NumberInv
    <3>4. r.sent[i + 1].part # r.sent[1].part
      BY <1>2, <3>1 DEF NumberInv
    <3> QED
      BY <3>1, <3>2, <3>3, <3>4
  <2> QED
    BY <2>1, <2>2, <2>3, <2>4, <2>5, <2>6, <2>7 DEF NumberInv
<1>14. PartInv(s, u, a)
  <2>1. \A t \in a.tasks :
          t.size = Len(Chunk(s, t.part)) /\ SubSeq(a.bufs[t.buf], 1, t.size) = Chunk(s, t.part)
    BY <1>4 DEF PartInv
  <2>2. \A i \in DOMAIN a.sent : a.sent[i].ok => u.parts[a.sent[i].part] = Chunk(s, a.sent[i].part)
    BY <1>8 DEF PartInv
  <2>3. \A i \in DOMAIN a.parts : u.parts[a.parts[i]] = Chunk(s, a.parts[i])
    BY <1>2, <1>10, SMTT(60) DEF PartInv
  <2> QED
    BY <2>1, <2>2, <2>3 DEF PartInv
<1>15. \A k \in Nat : Accepted(r, k) => Accepted(a, k)
  BY <1>4, <1>6 DEF Accepted
<1>16. ASSUME x.ok, NEW k \in Nat, InFlight(r, k) PROVE Accepted(a, k) \/ InFlight(a, k)
  <2>1. CASE \E t \in r.tasks : t.part = k
    BY <1>4, <2>1 DEF InFlight
  <2>2. CASE \E i \in DOMAIN r.sent : r.sent[i].part = k
    <3>1. PICK i \in DOMAIN r.sent : r.sent[i].part = k
      BY <2>2
    <3>2. CASE i = 1
      BY <1>4, <1>6, <1>16, <3>1, <3>2 DEF Accepted
    <3>3. CASE i # 1
      <4>1. i - 1 \in DOMAIN a.sent /\ a.sent[i - 1] = r.sent[i]
        BY <1>2, <1>4, <3>3
      <4> QED
        BY <3>1, <4>1 DEF InFlight
    <3> QED
      BY <3>2, <3>3
  <2> QED
    BY <1>16, <2>1, <2>2 DEF InFlight
<1> QED
  BY <1>2, <1>4, <1>7, <1>12, <1>13, <1>14, <1>15, <1>16 DEF a

(* The record of a loop that stops. *)
LEMMA StopIs ==
    ASSUME NEW r \in Calls
    PROVE  /\ Stop(r) \in Calls /\ Stop(r).phase = "draining" /\ Stop(r).out = "failed" /\ SameLoop(r, Stop(r))
<1>1. "draining" \in Phases /\ "failed" \in Outs
  BY DEF Phases, Outs
<1> QED
  BY <1>1 DEF Stop, Calls, SameLoop

(* The loop, or drain, receives a result. *)
LEMMA ReceiveStep ==
    ASSUME UploadInv, NEW c \in Callers, Receive(c)
    PROVE  UploadInv'
<1> DEFINE r == call[c]
           s == source[c]
           u == uploads[c]
           x == Head(r.sent)
           a == Accept(r, x)
<1>1. /\ Receives(r) /\ r.sent # <<>>
      /\ Becomes(c, IF x.ok \/ r.phase = "draining" THEN a ELSE Stop(a))
      /\ UNCHANGED <<source, object, uploads, result, late, unaborted, faults>>
  BY DEF Receive
<1>2. /\ s \in Readers /\ Source(s) /\ r \in Calls /\ uploads \in [Callers -> Uploads] /\ faults \in 0..MaxFaults
      /\ CallInv(s, u, r) /\ OutInv(s, r, object) /\ ToldInv(s, r, result[c])
      /\ (c \in late /\ Multipart(s) => Whole(s, r))
  BY Local
<1>3. r.phase \in {"reading", "polling", "collecting", "draining"}
  BY <1>1 DEF Receives
<1>4. /\ a \in Calls /\ a.phase = r.phase /\ a.out = r.out /\ a.tail = r.tail
      /\ a.pos = r.pos /\ a.next = r.next /\ a.last = r.last
      /\ BufferInv(a) /\ NumberInv(a) /\ PartInv(s, u, a)
      /\ (\A k \in Nat : Accepted(r, k) => Accepted(a, k))
      /\ (x.ok => \A k \in Nat : InFlight(r, k) => Accepted(a, k) \/ InFlight(a, k))
  <2>1. r.phase \in Running
    BY <1>3 DEF Running
  <2> HIDE DEF r, s, u
  <2> QED
    BY <1>1, <1>2, <2>1, AcceptIs DEF CallInv
<1> HIDE DEF a
<1>5. Whole(s, r) => Whole(s, a)
  BY <1>4 DEF Whole
<1>6. CASE x.ok \/ r.phase = "draining"
  <2>1. Becomes(c, a)
    BY <1>1, <1>6
  <2>2. LoopInv(s, a)
    <3>1. r.phase # "draining" => \A k \in 1..r.next - 1 : Accepted(a, k) \/ InFlight(a, k)
      <4> SUFFICES ASSUME r.phase # "draining", NEW k \in 1..r.next - 1 PROVE Accepted(a, k) \/ InFlight(a, k)
        OBVIOUS
      <4>1. k \in Nat
        OBVIOUS
      <4>2. Accepted(r, k) \/ InFlight(r, k)
        BY <1>2, <1>3 DEF CallInv, LoopInv
      <4> QED
        BY <1>4, <1>6, <4>1, <4>2
    <3> QED
      BY <1>2, <1>3, <1>4, <3>1 DEF CallInv, LoopInv
  <2>3. Teed(s, a) = Teed(s, r)
    BY <1>4 DEF Teed
  <2>4. TailInv(s, a)
    BY <1>2, <1>4, <2>3 DEF CallInv, TailInv
  <2>5. CallInv(s, u, a)
    BY <1>4, <2>2, <2>4 DEF CallInv
  <2>6. OutInv(s, a, object) /\ ToldInv(s, a, result[c])
    BY <1>2, <1>4, <2>3 DEF OutInv, ToldInv
  <2>7. a.phase \in Opened
    BY <1>3, <1>4 DEF Opened, Running
  <2> QED
    BY <1>1, <1>2, <1>4, <1>5, <2>1, <2>5, <2>6, <2>7, OwnStep
<1>7. CASE ~(x.ok \/ r.phase = "draining")
  <2> DEFINE q == Stop(a)
  <2>1. Becomes(c, q)
    BY <1>1, <1>7
  <2>2. q \in Calls /\ q.phase = "draining" /\ q.out = "failed" /\ SameLoop(a, q)
    BY <1>4, StopIs
  <2> HIDE DEF q
  <2>3. q.phase \in Running /\ r.phase \in Running
    BY <1>3, <2>2 DEF Running
  <2>4. BufferInv(q) /\ NumberInv(q) /\ PartInv(s, u, q) /\ (Whole(s, a) => Whole(s, q))
    BY <1>4, <2>2, <2>3, Frame
  <2>5. q.pos = r.pos /\ q.next = r.next /\ q.last = r.last
    BY <1>4, <2>2 DEF SameLoop
  <2> QED
    BY <1>1, <1>2, <1>5, <2>1, <2>2, <2>3, <2>4, <2>5, StopStep
<1> QED
  BY <1>6, <1>7

(* What a sequence is made of. *)
LEMMA Elements ==
    ASSUME NEW S, NEW f \in Seq(S)
    PROVE  \A i \in DOMAIN f : f[i] \in S
OBVIOUS

(* The record after a goroutine's result. *)
Sent(r, t, ok) == [r EXCEPT !.tasks = @ \ {t}, !.sent = Append(@, [part |-> t.part, buf |-> t.buf, ok |-> ok])]

(* The upload before and after: a part that was sent is what its buffer    *)
(* holds.                                                                  *)
Arrives(u, v, r, t, ok) ==
    /\ \A k \in 1..MaxParts : k # t.part => v.parts[k] = u.parts[k]
    /\ ok => v.parts[t.part] = SubSeq(r.bufs[t.buf], 1, t.size)

(* A goroutine sends its part and puts its result into the channel. *)
LEMMA SendIs ==
    ASSUME NEW s, NEW u, NEW v, NEW r \in Calls, NEW t \in r.tasks, NEW ok \in BOOLEAN, r.phase \in Running,
           BufferInv(r), NumberInv(r), PartInv(s, u, r), Arrives(u, v, r, t, ok)
    PROVE  LET q == Sent(r, t, ok)
           IN  /\ q \in Calls /\ q.phase = r.phase /\ q.out = r.out /\ q.tail = r.tail
               /\ q.pos = r.pos /\ q.next = r.next /\ q.last = r.last
               /\ BufferInv(q) /\ NumberInv(q) /\ PartInv(s, v, q)
               /\ \A k \in Nat : Accepted(r, k) <=> Accepted(q, k)
               /\ \A k \in Nat : InFlight(r, k) => InFlight(q, k)
<1> DEFINE q == Sent(r, t, ok)
           x == [part |-> t.part, buf |-> t.buf, ok |-> ok]
           n == Len(r.sent) + 1
<1>1. /\ r.sent \in Seq(Outcomes) /\ r.tasks \in SUBSET Tasks /\ r.parts \in Seq(1..MaxParts)
  BY CallFields
<1>2. x \in Outcomes /\ x.part = t.part /\ x.buf = t.buf /\ x.ok = ok /\ t.part \in 1..MaxParts
  BY <1>1 DEF Tasks, Outcomes
<1> HIDE DEF x
<1>3. /\ Append(r.sent, x) \in Seq(Outcomes) /\ Len(r.sent) \in Nat /\ DOMAIN r.sent = 1..Len(r.sent)
      /\ DOMAIN Append(r.sent, x) = 1..n
      /\ \A i \in DOMAIN r.sent : Append(r.sent, x)[i] = r.sent[i] /\ i \in 1..n
      /\ Append(r.sent, x)[n] = x /\ n \in 1..n
      /\ \A i \in 1..n : i \in DOMAIN r.sent \/ i = n
  BY <1>1, <1>2, AppendIs
<1> HIDE DEF n
<1>4. /\ q.sent = Append(r.sent, x) /\ q.tasks = r.tasks \ {t} /\ q.free = r.free /\ q.parts = r.parts
      /\ q.bufs = r.bufs /\ q.phase = r.phase /\ q.out = r.out /\ q.tail = r.tail
      /\ q.pos = r.pos /\ q.next = r.next /\ q.last = r.last
  BY DEF Sent, Calls, x
<1>5. q \in Calls
  <2>1. r.tasks \ {t} \in SUBSET Tasks
    BY <1>1
  <2>2. q = [r EXCEPT !.tasks = r.tasks \ {t}, !.sent = Append(r.sent, x)]
    BY DEF Sent, x, Calls
  <2> HIDE DEF q
  <2> QED
    BY <1>3, <2>1, <2>2 DEF Calls
<1> HIDE DEF q
<1>0. /\ \A i \in DOMAIN r.sent : r.sent[i].part \in 1..MaxParts
      /\ \A i \in DOMAIN r.parts : r.parts[i] \in 1..MaxParts
  <2>1. /\ \A i \in DOMAIN r.sent : r.sent[i] \in Outcomes
        /\ \A i \in DOMAIN r.parts : r.parts[i] \in 1..MaxParts
    BY <1>1, Elements
  <2>2. \A y \in Outcomes : y.part \in 1..MaxParts
    BY DEF Outcomes
  <2> QED
    BY <2>1, <2>2
<1>6. \A i \in DOMAIN q.sent : \/ i \in DOMAIN r.sent /\ q.sent[i] = r.sent[i]
                               \/ i = n /\ q.sent[i] = x
  BY <1>3, <1>4
<1>7. /\ \A i \in DOMAIN r.sent : i \in DOMAIN q.sent /\ q.sent[i] = r.sent[i]
      /\ n \in DOMAIN q.sent /\ q.sent[n] = x
  BY <1>3, <1>4
<1>8. \A y \in q.tasks : y \in r.tasks /\ y # t
  BY <1>4
<1>9. IsFiniteSet(q.tasks)
  BY <1>4, FS_RemoveElement DEF BufferInv
<1>10. BufferInv(q)
  <2>1. /\ \A i, j \in DOMAIN q.free : q.free[i] = q.free[j] => i = j
        /\ \A y, z \in q.tasks : y.buf = z.buf => y = z
        /\ \A y \in q.tasks : \A i \in DOMAIN q.free : y.buf # q.free[i]
    BY <1>4, <1>8 DEF BufferInv
  <2>2. \A i, j \in DOMAIN q.sent : q.sent[i].buf = q.sent[j].buf => i = j
    BY <1>2, <1>6 DEF BufferInv
  <2>3. \A y \in q.tasks : \A i \in DOMAIN q.sent : y.buf # q.sent[i].buf
    BY <1>2, <1>6, <1>8 DEF BufferInv
  <2>4. \A i \in DOMAIN q.sent : \A j \in DOMAIN q.free : q.sent[i].buf # q.free[j]
    BY <1>2, <1>4, <1>6 DEF BufferInv
  <2> QED
    BY <1>4, <1>9, <2>1, <2>2, <2>3, <2>4 DEF BufferInv
<1>11. NumberInv(q)
  <2>1. /\ \A i \in DOMAIN q.parts : q.parts[i] < q.next
        /\ \A y \in q.tasks : y.part < q.next
        /\ \A y, z \in q.tasks : y.part = z.part => y = z
        /\ \A i, j \in DOMAIN q.parts : q.parts[i] = q.parts[j] => i = j
        /\ \A y \in q.tasks : \A i \in DOMAIN q.parts : y.part # q.parts[i]
    BY <1>4, <1>8 DEF NumberInv
  <2>2. \A i \in DOMAIN q.sent : q.sent[i].part < q.next
    BY <1>2, <1>4, <1>6 DEF NumberInv
  <2>3. \A i, j \in DOMAIN q.sent : q.sent[i].part = q.sent[j].part => i = j
    BY <1>2, <1>6 DEF NumberInv
  <2>4. \A y \in q.tasks : \A i \in DOMAIN q.sent : y.part # q.sent[i].part
    BY <1>2, <1>6, <1>8 DEF NumberInv
  <2>5. \A i \in DOMAIN q.sent : \A j \in DOMAIN q.parts : q.sent[i].part # q.parts[j]
    BY <1>2, <1>4, <1>6 DEF NumberInv
  <2> QED
    BY <2>1, <2>2, <2>3, <2>4, <2>5 DEF NumberInv
<1>12. PartInv(s, v, q)
  <2>1. \A y \in q.tasks :
          y.size = Len(Chunk(s, y.part)) /\ SubSeq(q.bufs[y.buf], 1, y.size) = Chunk(s, y.part)
    BY <1>4, <1>8 DEF PartInv
  <2>2. \A i \in DOMAIN q.sent : q.sent[i].ok => v.parts[q.sent[i].part] = Chunk(s, q.sent[i].part)
    <3> SUFFICES ASSUME NEW i \in DOMAIN q.sent, q.sent[i].ok
                 PROVE  v.parts[q.sent[i].part] = Chunk(s, q.sent[i].part)
      OBVIOUS
    <3>1. CASE i \in DOMAIN r.sent /\ q.sent[i] = r.sent[i]
      <4>1. r.sent[i].part \in 1..MaxParts
        BY <1>0, <3>1
      <4>2. r.sent[i].part # t.part
        BY <3>1 DEF NumberInv
      <4>3. u.parts[r.sent[i].part] = Chunk(s, r.sent[i].part)
        BY <3>1 DEF PartInv
      <4> QED
        BY <3>1, <4>1, <4>2, <4>3 DEF Arrives
    <3>2. CASE q.sent[i] = x
      BY <1>2, <3>2 DEF PartInv, Arrives
    <3> QED
      BY <1>6, <3>1, <3>2
  <2>3. \A i \in DOMAIN q.parts : v.parts[q.parts[i]] = Chunk(s, q.parts[i])
    <3> SUFFICES ASSUME NEW i \in DOMAIN r.parts PROVE v.parts[r.parts[i]] = Chunk(s, r.parts[i])
      BY <1>4
    <3>1. r.parts[i] \in 1..MaxParts
      BY <1>0
    <3>2. r.parts[i] # t.part /\ u.parts[r.parts[i]] = Chunk(s, r.parts[i])
      BY DEF NumberInv, PartInv
    <3> QED
      BY <3>1, <3>2 DEF Arrives
  <2> QED
    BY <2>1, <2>2, <2>3 DEF PartInv
<1>13. \A k \in Nat : Accepted(r, k) <=> Accepted(q, k)
  BY <1>4 DEF Accepted
<1>14. ASSUME NEW k \in Nat, InFlight(r, k) PROVE InFlight(q, k)
  <2>1. CASE \E y \in r.tasks : y.part = k
    <3>1. PICK y \in r.tasks : y.part = k
      BY <2>1
    <3>2. CASE y = t
      BY <1>2, <1>7, <3>1, <3>2 DEF InFlight
    <3>3. CASE y # t
      BY <1>4, <3>1, <3>3 DEF InFlight
    <3> QED
      BY <3>2, <3>3
  <2>2. CASE \E i \in DOMAIN r.sent : r.sent[i].part = k
    BY <1>7, <2>2 DEF InFlight
  <2> QED
    BY <1>14, <2>1, <2>2 DEF InFlight
<1> QED
  BY <1>4, <1>5, <1>10, <1>11, <1>12, <1>13, <1>14 DEF q

(* A part is stored, or its upload fails. *)
LEMMA PartStep ==
    ASSUME UploadInv, NEW c \in Callers, PartServed(c) \/ PartFails(c)
    PROVE  UploadInv'
<1> DEFINE r == call[c]
           s == source[c]
           u == uploads[c]
           v == uploads'[c]
<1>1. /\ s \in Readers /\ Source(s) /\ r \in Calls /\ uploads \in [Callers -> Uploads] /\ faults \in 0..MaxFaults
      /\ CallInv(s, u, r) /\ OutInv(s, r, object) /\ ToldInv(s, r, result[c])
      /\ (c \in late /\ Multipart(s) => Whole(s, r))
  BY Local
<1>2. \E t \in r.tasks, ok \in BOOLEAN :
        /\ Sends(c, t, ok) /\ UNCHANGED <<source, object, result, late, unaborted>>
        /\ Fault \/ UNCHANGED faults
        /\ \/ ok /\ uploads' = [uploads EXCEPT ![c].parts[t.part] = SubSeq(r.bufs[t.buf], 1, t.size)]
           \/ ~ok /\ UNCHANGED uploads
  <2>1. CASE PartServed(c)
    BY <2>1 DEF PartServed
  <2>2. CASE PartFails(c)
    BY <2>2 DEF PartFails
  <2> QED
    BY <2>1, <2>2
<1>3. PICK t \in r.tasks, ok \in BOOLEAN :
        /\ Sends(c, t, ok) /\ UNCHANGED <<source, object, result, late, unaborted>>
        /\ Fault \/ UNCHANGED faults
        /\ \/ ok /\ uploads' = [uploads EXCEPT ![c].parts[t.part] = SubSeq(r.bufs[t.buf], 1, t.size)]
           \/ ~ok /\ UNCHANGED uploads
  BY <1>2
<1> DEFINE q == Sent(r, t, ok)
<1>4. Becomes(c, q)
  BY <1>3 DEF Sends, Sent
<1>5. faults' \in 0..MaxFaults
  BY <1>3, Faulty
<1>6. r.phase \in Running
  BY <1>1 DEF CallInv, BufferInv
<1>7. t \in Tasks /\ r.bufs \in [1..Concurrency -> Contents] /\ t.part \in 1..MaxParts
  BY <1>1, CallFields DEF Tasks
<1>8. SubSeq(r.bufs[t.buf], 1, t.size) \in Contents
  <2>1. s.data \in Contents /\ r.tasks \in SUBSET Tasks
    BY <1>1, ReaderIs, CallFields
  <2>2. SubSeq(r.bufs[t.buf], 1, t.size) = Chunk(s, t.part)
    BY <1>1 DEF CallInv, PartInv
  <2>3. t.part - 1 \in Nat /\ t.part - 1 + 1 = t.part
    BY <1>7
  <2>4. Chunk(s, t.part) \in Contents
    BY <1>1, <2>3, ChunkIs
  <2> QED
    BY <2>2, <2>4
<1>9. /\ uploads' \in [Callers -> Uploads] /\ (\A d \in Callers \ {c} : uploads'[d] = uploads[d])
      /\ (\A k \in 1..MaxParts : k # t.part => v.parts[k] = u.parts[k])
      /\ (ok => v.parts[t.part] = SubSeq(r.bufs[t.buf], 1, t.size))
  <2> DEFINE w == SubSeq(r.bufs[t.buf], 1, t.size)
             m == t.part
  <2>1. CASE ok /\ uploads' = [uploads EXCEPT ![c].parts[m] = w]
    <3>1. w \in Contents /\ m \in 1..MaxParts
      BY <1>7, <1>8
    <3> HIDE DEF w, m
    <3> DEFINE ps == [uploads[c].parts EXCEPT ![m] = w]
               y == [uploads[c] EXCEPT !.parts = ps]
    <3>2. uploads' = [uploads EXCEPT ![c] = y]
      BY <2>1
    <3>3. uploads[c] \in Uploads
      BY <1>1
    <3>4. y \in Uploads /\ y.parts = ps
      BY <3>1, <3>3 DEF Uploads
    <3>5. /\ uploads' \in [Callers -> Uploads] /\ (\A d \in Callers \ {c} : uploads'[d] = uploads[d])
          /\ uploads'[c] = y
      <4> HIDE DEF y
      <4> QED
        BY <1>1, <3>2, <3>4
    <3>6. uploads'[c].parts = [uploads[c].parts EXCEPT ![m] = w] /\ uploads[c].parts \in [1..MaxParts -> Contents]
      BY <3>3, <3>4, <3>5 DEF Uploads
    <3>7. /\ (\A k \in 1..MaxParts : k # m => uploads'[c].parts[k] = uploads[c].parts[k])
          /\ uploads'[c].parts[m] = w
      BY <3>1, <3>6
    <3> QED
      BY <3>5, <3>7 DEF w, m
  <2>2. CASE ~ok /\ UNCHANGED uploads
    BY <1>1, <2>2
  <2> QED
    BY <1>3, <2>1, <2>2
<1>10. /\ q \in Calls /\ q.phase = r.phase /\ q.out = r.out /\ q.tail = r.tail
       /\ q.pos = r.pos /\ q.next = r.next /\ q.last = r.last
       /\ BufferInv(q) /\ NumberInv(q) /\ PartInv(s, v, q)
       /\ (\A k \in Nat : Accepted(r, k) <=> Accepted(q, k))
       /\ (\A k \in Nat : InFlight(r, k) => InFlight(q, k))
  <2>1. BufferInv(r) /\ NumberInv(r) /\ PartInv(s, u, r) /\ t \in r.tasks /\ ok \in BOOLEAN
    BY <1>1 DEF CallInv
  <2>2. Arrives(u, v, r, t, ok)
    BY <1>9 DEF Arrives
  <2>3. r \in Calls
    BY <1>1
  <2> HIDE DEF r, s, u, v
  <2> QED
    BY <1>6, <2>1, <2>2, <2>3, SendIs
<1> HIDE DEF q
<1>11. LoopInv(s, q)
  <2>1. \A k \in 1..q.next - 1 : k \in Nat
    OBVIOUS
  <2> QED
    BY <1>1, <1>6, <1>10, <2>1 DEF CallInv, LoopInv, Running
<1>12. Teed(s, q) = Teed(s, r)
  BY <1>10 DEF Teed
<1>13. TailInv(s, q)
  BY <1>1, <1>10, <1>12 DEF CallInv, TailInv
<1>14. CallInv(s, v, q)
  BY <1>10, <1>11, <1>13 DEF CallInv
<1>15. OutInv(s, q, object) /\ ToldInv(s, q, result[c])
  BY <1>1, <1>10, <1>12 DEF OutInv, ToldInv
<1>16. Whole(s, r) => Whole(s, q)
  <2>1. \A k \in 1..q.next - 1 : k \in Nat
    OBVIOUS
  <2> QED
    BY <1>10, <2>1 DEF Whole
<1>17. q.phase \in Opened
  BY <1>6, <1>10 DEF Opened
<1> QED
  BY <1>1, <1>3, <1>4, <1>5, <1>9, <1>10, <1>14, <1>15, <1>16, <1>17, OwnStep

(* What ReadFull reads next. *)
NextEnd(s, r) == Smaller(r.pos + PartSize, s.made)
NextPart(s, r) == SubSeq(Reader(s), r.pos + 1, NextEnd(s, r))

(* The loop reads the part of the next number. *)
LEMMA NextPartIs ==
    ASSUME NEW s \in Readers, Source(s), NEW r \in Calls, LoopInv(s, r)
    PROVE  /\ NextPart(s, r) = Chunk(s, r.next) /\ NextPart(s, r) \in Contents
           /\ NextEnd(s, r) = Upto(s, r.next) /\ NextEnd(s, r) \in Nat
           /\ r.pos <= NextEnd(s, r) /\ NextEnd(s, r) <= s.made
           /\ Len(NextPart(s, r)) = NextEnd(s, r) - r.pos /\ Len(NextPart(s, r)) \in 0..PartSize
           /\ r.pos + Len(NextPart(s, r)) = NextEnd(s, r)
           /\ (NextPart(s, r) = <<>> <=> r.pos = s.made)
           /\ (Len(NextPart(s, r)) < PartSize => NextEnd(s, r) = s.made)
<1> DEFINE e == NextEnd(s, r)
           k == r.next - 1
           p == r.pos
           d == s.data
           m == s.made
<1>1. /\ p \in Nat /\ p <= m /\ k \in Nat /\ p = Upto(s, k)
  BY TeedIs
<1>2. /\ d \in Contents /\ m \in Nat /\ Len(d) \in Nat /\ m <= Len(d) /\ Reader(s) = SubSeq(d, 1, m)
      /\ Len(SubSeq(d, 1, m)) = m
  BY ReaderIs DEF Reader
<1>3. k + 1 = r.next
  BY CallFields, SizeAssumption
<1>4. e = Upto(s, r.next)
  <2>1. Upto(s, k + 1) = Smaller(Upto(s, k) + PartSize, s.made)
    BY <1>1, UptoGrows
  <2> QED
    BY <1>1, <1>3, <2>1 DEF NextEnd
<1>5. PartSize \in Nat \ {0} /\ e = Smaller(p + PartSize, m)
  BY SizeAssumption DEF NextEnd
<1>6. /\ Chunk(s, r.next) \in Contents /\ Len(Chunk(s, r.next)) = e - p
      /\ Chunk(s, r.next) = SubSeq(d, p + 1, e)
  <2>1. /\ Chunk(s, k + 1) \in Contents
        /\ Len(Chunk(s, k + 1)) = Upto(s, k + 1) - Upto(s, k)
        /\ Chunk(s, k + 1) = SubSeq(s.data, Upto(s, k) + 1, Upto(s, k + 1))
    BY <1>1, ChunkIs
  <2> QED
    BY <1>1, <1>3, <1>4, <2>1
<1>7. NextPart(s, r) = SubSeq(SubSeq(d, 1, m), p + 1, e)
  BY <1>2 DEF NextPart
<1> HIDE DEF e, k, p, d, m
<1>8. e \in Nat /\ p <= e /\ e <= m /\ (e = p <=> p = m) /\ (e - p < PartSize => e = m) /\ e - p \in 0..PartSize
  BY <1>1, <1>2, <1>5 DEF Smaller
<1>9. SubSeq(SubSeq(d, 1, m), p + 1, e) = SubSeq(d, p + 1, e)
  <2>1. 1 \in Nat \ {0} /\ p + 1 \in Nat \ {0} /\ e \in Nat /\ e <= Len(SubSeq(d, 1, m))
    BY <1>1, <1>2, <1>8
  <2>2. ASSUME NEW i \in Nat \ {0}
        PROVE  SubSeq(SubSeq(d, 1, m), i, e) = SubSeq(d, 1 + i - 1, 1 + e - 1)
    BY <1>2, <2>1, Nested
  <2>3. 1 + (p + 1) - 1 = p + 1 /\ 1 + e - 1 = e
    BY <1>1, <1>8
  <2> QED
    BY <2>1, <2>2, <2>3
<1>10. NextPart(s, r) = Chunk(s, r.next) /\ Len(NextPart(s, r)) = e - p /\ NextPart(s, r) \in Contents
  BY <1>6, <1>7, <1>9
<1>11. NextPart(s, r) = <<>> <=> e = p
  <2>1. NextPart(s, r) \in Seq(Units)
    BY <1>10 DEF Contents
  <2>2. NextPart(s, r) = <<>> <=> Len(NextPart(s, r)) = 0
    BY <2>1, EmptySeq
  <2> QED
    BY <1>1, <1>8, <1>10, <2>2
<1>12. p + (e - p) = e
  BY <1>1, <1>8
<1> QED
  BY <1>4, <1>8, <1>10, <1>11, <1>12 DEF e, p, m

(* The stream is teed as far as it was read. *)
LEMMA TeeIs ==
    ASSUME NEW s \in Readers, Source(s), NEW r \in Calls, LoopInv(s, r), TailInv(s, r),
           r.phase = "reading", s.kind = "stream",
           NEW tail \in Writes(r.tail, SubSeq(Reader(s), Teed(s, r) + 1, NextEnd(s, r))),
           NEW q, q.phase # "idle", q.pos = NextEnd(s, r)
    PROVE  tail = End(s.data, Teed(s, q)) /\ tail \in Contents
<1> DEFINE e == NextEnd(s, r)
           t == Teed(s, r)
           p == r.pos
           x == Prefix(s)
           d == s.data
           m == s.made
           n == IF t <= e THEN e ELSE t
<1>1. /\ p \in Nat /\ x \in Nat /\ x <= m /\ t \in Nat /\ t <= m /\ p <= t /\ x <= t
  BY TeedIs
<1>2. /\ d \in Contents /\ m \in Nat /\ Len(d) \in Nat /\ m <= Len(d) /\ Reader(s) = SubSeq(d, 1, m)
      /\ Len(SubSeq(d, 1, m)) = m
  BY ReaderIs DEF Reader
<1>3. e \in Nat /\ p <= e /\ e <= m
  BY NextPartIs
<1>4. r.tail = End(d, t)
  BY DEF TailInv, End
<1>5. t = (IF p > x THEN p ELSE x) /\ Teed(s, q) = IF e > x THEN e ELSE x
  BY DEF Teed
<1>6. tail \in Writes(r.tail, SubSeq(SubSeq(d, 1, m), t + 1, e))
  BY <1>2
<1> HIDE DEF e, t, p, x, d, m
<1>7. Teed(s, q) = n
  BY <1>1, <1>3, <1>5
<1>8. n \in Nat /\ t <= n /\ n <= Len(d) /\ n <= m
  BY <1>1, <1>2, <1>3
<1>9. SubSeq(SubSeq(d, 1, m), t + 1, e) = SubSeq(d, t + 1, n)
  <2>1. 1 \in Nat \ {0} /\ t + 1 \in Nat \ {0} /\ e \in Nat /\ e <= Len(SubSeq(d, 1, m))
    BY <1>1, <1>2, <1>3
  <2>2. ASSUME NEW i \in Nat \ {0}
        PROVE  SubSeq(SubSeq(d, 1, m), i, e) = SubSeq(d, 1 + i - 1, 1 + e - 1)
    BY <1>2, <2>1, Nested
  <2>3. 1 + (t + 1) - 1 = t + 1 /\ 1 + e - 1 = e
    BY <1>1, <1>3
  <2>4. SubSeq(SubSeq(d, 1, m), t + 1, e) = SubSeq(d, t + 1, e)
    BY <2>1, <2>2, <2>3
  <2>5. CASE t <= e
    BY <2>4, <2>5
  <2>6. CASE ~(t <= e)
    <3>1. t + 1 > e /\ t + 1 > t /\ n = t
      BY <1>1, <1>3, <2>6
    <3>2. SubSeq(d, t + 1, e) = <<>> /\ SubSeq(d, t + 1, t) = <<>>
      BY <1>1, <1>3, <3>1, SubSeqEmpty
    <3> QED
      BY <2>4, <3>1, <3>2
  <2> QED
    BY <2>5, <2>6
<1> HIDE DEF n
<1>10. tail \in Writes(End(d, t), SubSeq(d, t + 1, n))
  BY <1>4, <1>6, <1>9
<1>11. tail = End(d, n)
  BY <1>1, <1>2, <1>8, <1>10, WritesKeepEnd
<1>12. End(d, n) \in Contents
  BY <1>2, <1>8, EndIs
<1> QED
  BY <1>7, <1>11, <1>12 DEF d

(* A buffer after a part was read into it: what is behind the part is      *)
(* still there.                                                            *)
LEMMA FilledIs ==
    ASSUME NEW x \in Contents, NEW y \in Contents
    PROVE  LET z == x \o SubSeq(y, Len(x) + 1, Len(y))
           IN  z \in Contents /\ SubSeq(z, 1, Len(x)) = x
<1> DEFINE w == SubSeq(y, Len(x) + 1, Len(y))
           z == x \o w
<1>1. Len(x) \in Nat /\ Len(y) \in Nat
  BY DEF Contents
<1>2. Len(x) + 1 \in Nat \ {0} /\ Len(y) <= Len(y)
  BY <1>1
<1>3. w \in Contents
  BY <1>1, <1>2, Slice
<1> HIDE DEF w
<1>4. z \in Contents /\ Len(z) = Len(x) + Len(w) /\ \A i \in 1..Len(x) : z[i] = x[i]
  BY <1>3 DEF Contents
<1>5. Len(w) \in Nat
  BY <1>3 DEF Contents
<1> HIDE DEF z
<1>6. Len(x) <= Len(z) /\ 1 \in Nat \ {0}
  BY <1>1, <1>4, <1>5
<1>7. /\ SubSeq(z, 1, Len(x)) \in Contents /\ Len(SubSeq(z, 1, Len(x))) = IF 1 <= Len(x) THEN Len(x) - 1 + 1 ELSE 0
      /\ \A i \in 1..Len(SubSeq(z, 1, Len(x))) : SubSeq(z, 1, Len(x))[i] = z[1 + i - 1]
  BY <1>1, <1>4, <1>6, Slice
<1> DEFINE v == SubSeq(z, 1, Len(x))
<1> HIDE DEF v
<1>8. v \in Contents /\ Len(v) = Len(x)
  BY <1>1, <1>7 DEF v
<1>9. \A i \in 1..Len(v) : v[i] = x[i]
  <2> SUFFICES ASSUME NEW i \in 1..Len(v) PROVE v[i] = x[i]
    OBVIOUS
  <2>1. v[i] = z[1 + i - 1] /\ 1 + i - 1 = i
    BY <1>1, <1>7, <1>8 DEF v
  <2> QED
    BY <1>4, <1>8, <2>1
<1>10. v = x
  BY <1>8, <1>9, Same
<1> QED
  BY <1>4, <1>10 DEF v, z, w

(* The record after a part was started. *)
NewTask(s, r) == [part |-> r.next, buf |-> Last(r.free), size |-> Len(NextPart(s, r))]
Filled(s, r) ==
    [r.bufs EXCEPT ![Last(r.free)] =
        NextPart(s, r) \o SubSeq(@, Len(NextPart(s, r)) + 1, Len(@))]
Started(s, r, tail) ==
    [r EXCEPT
        !.phase = "polling", !.pos = NextEnd(s, r), !.tail = tail, !.next = r.next + 1,
        !.last = Len(NextPart(s, r)) < PartSize, !.free = Front(r.free), !.bufs = Filled(s, r),
        !.tasks = r.tasks \cup {NewTask(s, r)}]

(* Starting a part keeps the books. *)
LEMMA StartIs ==
    ASSUME NEW s \in Readers, Source(s), NEW u, NEW r \in Calls, NEW tail \in Contents, r.free # <<>>,
           r.phase = "reading", NextPart(s, r) # <<>>, ~TooManyParts(r),
           BufferInv(r), NumberInv(r), PartInv(s, u, r), LoopInv(s, r)
    PROVE  LET q == Started(s, r, tail)
           IN  /\ q \in Calls /\ q.phase = "polling" /\ q.out = r.out /\ q.tail = tail /\ q.pos = NextEnd(s, r)
               /\ BufferInv(q) /\ NumberInv(q) /\ PartInv(s, u, q) /\ LoopInv(s, q)
<1> DEFINE q == Started(s, r, tail)
           b == Last(r.free)
           t == NewTask(s, r)
           n == Len(r.free)
           x == NextPart(s, r)
           e == NextEnd(s, r)
<1>1. /\ r.next \in 1..MaxParts + 1 /\ r.free \in Seq(1..Concurrency) /\ r.bufs \in [1..Concurrency -> Contents]
      /\ r.tasks \in SUBSET Tasks
  BY CallFields
<1>2. /\ x = Chunk(s, r.next) /\ x \in Contents /\ e = Upto(s, r.next) /\ e \in Nat /\ e <= s.made
      /\ Len(x) \in 0..PartSize /\ (x = <<>> <=> r.pos = s.made) /\ (Len(x) < PartSize => e = s.made)
  BY NextPartIs
<1>3. /\ Front(r.free) \in Seq(1..Concurrency) /\ DOMAIN Front(r.free) = 1..n - 1 /\ DOMAIN r.free = 1..n
      /\ \A i \in 1..n - 1 : Front(r.free)[i] = r.free[i] /\ i \in DOMAIN r.free /\ i # n
      /\ b = r.free[n] /\ n \in DOMAIN r.free /\ b \in 1..Concurrency
  BY <1>1, FrontIs
<1>4. r.next \in 1..MaxParts /\ r.next + 1 \in 1..MaxParts + 1 /\ PartSize \in Nat /\ MaxParts \in Nat
  BY <1>1, SizeAssumption DEF TooManyParts
<1>5. Len(x) \in 1..PartSize
  <2>1. Len(x) # 0
    BY <1>2, EmptySeq DEF Contents
  <2> QED
    BY <1>2, <1>4, <2>1
<1>6. t.part = r.next /\ t.buf = b /\ t.size = Len(x) /\ t \in Tasks
  BY <1>3, <1>4, <1>5 DEF NewTask, Tasks
<1>7. r.bufs[b] \in Contents
  BY <1>1, <1>3
<1> DEFINE z == x \o SubSeq(r.bufs[b], Len(x) + 1, Len(r.bufs[b]))
<1>8. z \in Contents /\ SubSeq(z, 1, Len(x)) = x
  BY <1>2, <1>7, FilledIs
<1>9. Filled(s, r) = [r.bufs EXCEPT ![b] = z]
  BY DEF Filled
<1> HIDE DEF z
<1>10. /\ Filled(s, r) \in [1..Concurrency -> Contents] /\ Filled(s, r)[b] = z
       /\ \A i \in 1..Concurrency \ {b} : Filled(s, r)[i] = r.bufs[i]
  BY <1>1, <1>3, <1>8, <1>9
<1>11. /\ q.phase = "polling" /\ q.pos = e /\ q.tail = tail /\ q.next = r.next + 1
       /\ q.last = (Len(x) < PartSize) /\ q.free = Front(r.free) /\ q.bufs = Filled(s, r)
       /\ q.tasks = r.tasks \cup {t} /\ q.sent = r.sent /\ q.parts = r.parts /\ q.out = r.out
  <2> HIDE DEF b, t, n, x, e
  <2> QED
    BY DEF Started, Calls, t, x, e
<1>12. q \in Calls
  <2>1. "polling" \in Phases /\ (Len(x) < PartSize) \in BOOLEAN
    BY DEF Phases
  <2>2. r.tasks \cup {t} \in SUBSET Tasks
    BY <1>1, <1>6
  <2> DEFINE l == Len(NextPart(s, r)) < PartSize
             f == Front(r.free)
             g == Filled(s, r)
             k == r.tasks \cup {NewTask(s, r)}
             m == r.next + 1
             y == NextEnd(s, r)
  <2>3. l \in BOOLEAN /\ f \in Seq(1..Concurrency) /\ g \in [1..Concurrency -> Contents] /\ k \in SUBSET Tasks
        /\ m \in 1..MaxParts + 1 /\ y \in Nat
    BY <1>2, <1>3, <1>4, <1>10, <2>1, <2>2
  <2>4. q = [r EXCEPT !.phase = "polling", !.pos = y, !.tail = tail, !.next = m,
                      !.last = l, !.free = f, !.bufs = g, !.tasks = k]
    BY DEF Started
  <2> HIDE DEF q, l, f, g, k, m, y
  <2> QED
    BY <2>1, <2>3, <2>4 DEF Calls
<1> HIDE DEF q, b, t, n, x, e
<1>13. \A i \in DOMAIN q.free : i \in DOMAIN r.free /\ i # n /\ q.free[i] = r.free[i]
  BY <1>3, <1>11
<1>14. \A y \in q.tasks : y \in r.tasks \/ y = t
  BY <1>11
<1>15. BufferInv(q)
  <2>1. IsFiniteSet(q.tasks)
    BY <1>11, FS_AddElement DEF BufferInv
  <2>2. q.phase \in Running
    BY <1>11 DEF Running
  <2>3. \A i, j \in DOMAIN q.free : q.free[i] = q.free[j] => i = j
    BY <1>13 DEF BufferInv
  <2>4. \A y \in r.tasks : y.buf # b
    BY <1>3 DEF BufferInv
  <2>5. \A y, w \in q.tasks : y.buf = w.buf => y = w
    BY <1>6, <1>14, <2>4 DEF BufferInv
  <2>6. \A i, j \in DOMAIN q.sent : q.sent[i].buf = q.sent[j].buf => i = j
    BY <1>11 DEF BufferInv
  <2>7. \A i \in DOMAIN q.free : q.free[i] # b
    BY <1>3, <1>13 DEF BufferInv
  <2>8. \A y \in q.tasks : \A i \in DOMAIN q.free : y.buf # q.free[i]
    BY <1>6, <1>13, <1>14, <2>7 DEF BufferInv
  <2>9. \A i \in DOMAIN r.sent : r.sent[i].buf # b
    BY <1>3 DEF BufferInv
  <2>10. \A y \in q.tasks : \A i \in DOMAIN q.sent : y.buf # q.sent[i].buf
    BY <1>6, <1>11, <1>14, <2>9 DEF BufferInv
  <2>11. \A i \in DOMAIN q.sent : \A j \in DOMAIN q.free : q.sent[i].buf # q.free[j]
    BY <1>11, <1>13 DEF BufferInv
  <2> QED
    BY <2>1, <2>2, <2>3, <2>5, <2>6, <2>8, <2>10, <2>11 DEF BufferInv
<1>16. NumberInv(q)
  <2>1. /\ \A i \in DOMAIN r.parts : r.parts[i] \in 1..MaxParts
        /\ \A i \in DOMAIN r.sent : r.sent[i].part \in 1..MaxParts
        /\ \A y \in r.tasks : y.part \in 1..MaxParts
    <3>1. /\ \A i \in DOMAIN r.sent : r.sent[i] \in Outcomes
          /\ \A i \in DOMAIN r.parts : r.parts[i] \in 1..MaxParts
      BY CallFields, Elements
    <3>2. \A y \in Outcomes : y.part \in 1..MaxParts
      BY DEF Outcomes
    <3>3. \A y \in r.tasks : y.part \in 1..MaxParts
      BY <1>1 DEF Tasks
    <3> QED
      BY <3>1, <3>2, <3>3
  <2>2. \A k \in 1..MaxParts : k < r.next => k < r.next + 1 /\ k # r.next
    BY <1>4
  <2>3. /\ \A i \in DOMAIN r.parts : r.parts[i] < q.next /\ r.parts[i] # r.next
        /\ \A i \in DOMAIN r.sent : r.sent[i].part < q.next /\ r.sent[i].part # r.next
        /\ \A y \in r.tasks : y.part < q.next /\ y.part # r.next
    BY <1>11, <2>1, <2>2 DEF NumberInv
  <2>4. t.part < q.next
    BY <1>4, <1>6, <1>11
  <2>5. /\ \A i \in DOMAIN q.parts : q.parts[i] < q.next
        /\ \A y \in q.tasks : y.part < q.next
        /\ \A i \in DOMAIN q.sent : q.sent[i].part < q.next
    BY <1>11, <1>14, <2>3, <2>4
  <2>6. \A y, w \in q.tasks : y.part = w.part => y = w
    BY <1>6, <1>14, <2>3 DEF NumberInv
  <2>7. /\ \A i, j \in DOMAIN q.parts : q.parts[i] = q.parts[j] => i = j
        /\ \A i, j \in DOMAIN q.sent : q.sent[i].part = q.sent[j].part => i = j
        /\ \A i \in DOMAIN q.sent : \A j \in DOMAIN q.parts : q.sent[i].part # q.parts[j]
    BY <1>11 DEF NumberInv
  <2>8. \A y \in q.tasks : \A i \in DOMAIN q.parts : y.part # q.parts[i]
    BY <1>6, <1>11, <1>14, <2>3 DEF NumberInv
  <2>9. \A y \in q.tasks : \A i \in DOMAIN q.sent : y.part # q.sent[i].part
    BY <1>6, <1>11, <1>14, <2>3 DEF NumberInv
  <2> QED
    BY <2>5, <2>6, <2>7, <2>8, <2>9 DEF NumberInv
<1>17. PartInv(s, u, q)
  <2>1. ASSUME NEW y \in q.tasks
        PROVE  y.size = Len(Chunk(s, y.part)) /\ SubSeq(q.bufs[y.buf], 1, y.size) = Chunk(s, y.part)
    <3>1. CASE y \in r.tasks
      <4>1. y.buf # b
        BY <1>3, <3>1 DEF BufferInv
      <4>2. y.buf \in 1..Concurrency
        BY <1>1, <3>1 DEF Tasks
      <4>3. q.bufs[y.buf] = r.bufs[y.buf]
        BY <1>10, <1>11, <4>1, <4>2
      <4> QED
        BY <3>1, <4>3 DEF PartInv
    <3>2. CASE y = t
      BY <1>2, <1>6, <1>8, <1>10, <1>11, <3>2
    <3> QED
      BY <1>14, <3>1, <3>2
  <2>2. /\ \A i \in DOMAIN q.sent : q.sent[i].ok => u.parts[q.sent[i].part] = Chunk(s, q.sent[i].part)
        /\ \A i \in DOMAIN q.parts : u.parts[q.parts[i]] = Chunk(s, q.parts[i])
    BY <1>11 DEF PartInv
  <2> QED
    BY <2>1, <2>2 DEF PartInv
<1>18. LoopInv(s, q)
  <2>1. q.next - 1 = r.next
    BY <1>4, <1>11
  <2>2. q.pos = Smaller((q.next - 1) * PartSize, s.made)
    BY <1>2, <1>11, <2>1 DEF Upto
  <2>3. q.last => q.pos = s.made
    BY <1>2, <1>11
  <2>4. ASSUME NEW k \in 1..q.next - 1 PROVE Accepted(q, k) \/ InFlight(q, k)
    <3>1. CASE k = r.next
      <4>1. t \in q.tasks /\ t.part = k
        BY <1>6, <1>11, <3>1
      <4> QED
        BY <4>1 DEF InFlight
    <3>2. CASE k # r.next
      <4>1. k \in 1..r.next - 1
        BY <1>4, <2>1, <3>2
      <4>2. Accepted(r, k) \/ InFlight(r, k)
        BY <4>1 DEF LoopInv
      <4> QED
        BY <1>11, <4>2 DEF Accepted, InFlight
    <3> QED
      BY <3>1, <3>2
  <2> QED
    BY <1>11, <2>2, <2>3, <2>4 DEF LoopInv
<1> QED
  BY <1>11, <1>12, <1>15, <1>16, <1>17, <1>18 DEF q, e

(* The loop reads a part. *)
LEMMA ReadPartStep ==
    ASSUME UploadInv, NEW c \in Callers, ReadPart(c)
    PROVE  UploadInv'
<1> DEFINE r == call[c]
           s == source[c]
           u == uploads[c]
           x == NextPart(s, r)
           fresh == SubSeq(Reader(s), Teed(s, r) + 1, r.pos + Len(x))
           filled == [r.bufs EXCEPT ![Last(r.free)] = x \o SubSeq(@, Len(x) + 1, Len(@))]
<1>1. /\ s \in Readers /\ Source(s) /\ r \in Calls /\ uploads \in [Callers -> Uploads] /\ faults \in 0..MaxFaults
      /\ CallInv(s, u, r) /\ OutInv(s, r, object) /\ ToldInv(s, r, result[c])
      /\ (c \in late /\ Multipart(s) => Whole(s, r))
  BY Local
<1>2. /\ r.phase = "reading" /\ r.free # <<>>
      /\ UNCHANGED <<source, object, uploads, result, late, unaborted, faults>>
      /\ \E tail \in IF s.kind = "stream" THEN Writes(r.tail, fresh) ELSE {r.tail} :
            \/ /\ x = <<>>
               /\ Becomes(c, At(r, "collecting"))
            \/ /\ x # <<>> /\ TooManyParts(r)
               /\ Becomes(c, StopReading([r EXCEPT !.tail = tail]))
            \/ /\ x # <<>> /\ ~TooManyParts(r)
               /\ Becomes(c, [r EXCEPT
                    !.phase = "polling", !.pos = @ + Len(x), !.tail = tail, !.next = @ + 1,
                    !.last = Len(x) < PartSize, !.free = Front(@), !.bufs = filled,
                    !.tasks = @ \cup {[part |-> r.next, buf |-> Last(r.free), size |-> Len(x)]}])
  BY Zenon DEF ReadPart, NextPart, NextEnd, Goes, At
<1>3. /\ LoopInv(s, r) /\ TailInv(s, r) /\ BufferInv(r) /\ NumberInv(r) /\ PartInv(s, u, r)
  BY <1>1 DEF CallInv
<1>4. /\ r.pos + Len(x) = NextEnd(s, r) /\ (x = <<>> <=> r.pos = s.made)
  BY <1>1, <1>3, NextPartIs
<1>5. PICK tail \in IF s.kind = "stream" THEN Writes(r.tail, fresh) ELSE {r.tail} :
        \/ /\ x = <<>>
           /\ Becomes(c, At(r, "collecting"))
        \/ /\ x # <<>> /\ TooManyParts(r)
           /\ Becomes(c, StopReading([r EXCEPT !.tail = tail]))
        \/ /\ x # <<>> /\ ~TooManyParts(r)
           /\ Becomes(c, [r EXCEPT
                !.phase = "polling", !.pos = @ + Len(x), !.tail = tail, !.next = @ + 1,
                !.last = Len(x) < PartSize, !.free = Front(@), !.bufs = filled,
                !.tasks = @ \cup {[part |-> r.next, buf |-> Last(r.free), size |-> Len(x)]}])
  BY <1>2, Zenon
<1>6. s.kind = "stream" => tail \in Writes(r.tail, SubSeq(Reader(s), Teed(s, r) + 1, NextEnd(s, r)))
  BY <1>4, <1>5
<1>7. s.kind # "stream" => tail = r.tail
  BY <1>5
<1>8. tail \in Contents
  <2>1. CASE s.kind = "stream"
    <3> DEFINE q == [phase |-> "polling", pos |-> NextEnd(s, r)]
    <3>1. q.phase # "idle" /\ q.pos = NextEnd(s, r)
      OBVIOUS
    <3> HIDE DEF q, r, s
    <3> QED
      BY <1>1, <1>2, <1>3, <1>6, <2>1, <3>1, TeeIs
  <2>2. CASE s.kind # "stream"
    BY <1>1, <1>7, <2>2, CallFields
  <2> QED
    BY <2>1, <2>2
<1>9. CASE x = <<>> /\ Becomes(c, At(r, "collecting"))
  <2>1. r.pos = s.made
    BY <1>4, <1>9
  <2> QED
    BY <1>1, <1>2, <1>9, <2>1, MoveStep
<1>10. CASE x # <<>> /\ TooManyParts(r) /\ Becomes(c, StopReading([r EXCEPT !.tail = tail]))
  <2> DEFINE q == StopReading([r EXCEPT !.tail = tail])
  <2>1. Front(r.free) \in Seq(1..Concurrency)
    BY <1>1, <1>2, CallFields, FrontIs
  <2>2. /\ q \in Calls /\ q.phase = "draining" /\ q.out = "failed" /\ q.free = Front(r.free)
        /\ q.pos = r.pos /\ q.next = r.next /\ q.last = r.last /\ q.bufs = r.bufs
        /\ q.tasks = r.tasks /\ q.sent = r.sent /\ q.parts = r.parts
    <3>1. "draining" \in Phases /\ "failed" \in Outs
      BY DEF Phases, Outs
    <3>2. r \in Calls
      BY <1>1
    <3> HIDE DEF r
    <3> QED
      BY <1>8, <2>1, <3>1, <3>2 DEF StopReading, Stop, Calls
  <2>3. Becomes(c, q)
    BY <1>10
  <2> HIDE DEF q
  <2>4. BufferInv(q)
    BY <1>1, <1>2, <1>3, <2>2, PopKeeps DEF Running
  <2>5. NumberInv(q)
    BY <1>3, <2>2 DEF NumberInv
  <2>6. PartInv(s, u, q)
    BY <1>3, <2>2 DEF PartInv
  <2>7. Whole(s, r) => Whole(s, q)
    BY <2>2 DEF Whole, Accepted
  <2>8. r.phase \in Running
    BY <1>2 DEF Running
  <2> QED
    BY <1>1, <1>2, <2>2, <2>3, <2>4, <2>5, <2>6, <2>7, <2>8, StopStep
<1>11. CASE x # <<>> /\ ~TooManyParts(r) /\ Becomes(c, Started(s, r, tail))
  <2> DEFINE q == Started(s, r, tail)
  <2>1. /\ q \in Calls /\ q.phase = "polling" /\ q.out = r.out /\ q.tail = tail /\ q.pos = NextEnd(s, r)
        /\ BufferInv(q) /\ NumberInv(q) /\ PartInv(s, u, q) /\ LoopInv(s, q)
    <3> HIDE DEF r, s, u
    <3>1. NextPart(s, r) # <<>> /\ ~TooManyParts(r)
      BY <1>11
    <3> QED
      BY <1>1, <1>2, <1>3, <1>8, <3>1, StartIs
  <2>2. Becomes(c, q)
    BY <1>11
  <2> HIDE DEF q
  <2>3. r.out = "none"
    BY <1>2, <1>3 DEF TailInv
  <2>4. s.kind = "stream" => tail = End(s.data, Teed(s, q))
    <3>1. q.phase # "idle" /\ q.pos = NextEnd(s, r)
      BY <2>1
    <3> HIDE DEF r, s
    <3> QED
      BY <1>1, <1>2, <1>3, <1>6, <3>1, TeeIs
  <2>5. TailInv(s, q)
    BY <2>1, <2>3, <2>4 DEF TailInv, End
  <2>6. CallInv(s, u, q)
    BY <2>1, <2>5 DEF CallInv
  <2>7. OutInv(s, q, object) /\ ToldInv(s, q, result[c])
    BY <1>1, <1>2, <2>1, <2>3 DEF OutInv, ToldInv
  <2>8. ~(c \in late /\ Multipart(s))
    BY <1>1, <1>4, <1>11 DEF Whole
  <2>9. q.phase \in Opened
    BY <2>1 DEF Opened, Running
  <2> QED
    BY <1>1, <1>2, <2>1, <2>2, <2>6, <2>7, <2>8, <2>9, OwnStep
<1>12. Started(s, r, tail)
         = [r EXCEPT
              !.phase = "polling", !.pos = @ + Len(x), !.tail = tail, !.next = @ + 1,
              !.last = Len(x) < PartSize, !.free = Front(@), !.bufs = filled,
              !.tasks = @ \cup {[part |-> r.next, buf |-> Last(r.free), size |-> Len(x)]}]
  BY <1>4, Zenon DEF Started, NewTask, Filled
<1> QED
  BY <1>5, <1>9, <1>10, <1>11, <1>12, Zenon

-----------------------------------------------------------------------------
(* Cancelled and dead callers. *)

(* pack-objects ends earlier. *)
Cut(s, n) == [s EXCEPT !.made = n]

(* A stream that ends earlier, but not before what was read of it, has     *)
(* the same parts so far.                                                  *)
LEMMA CutIs ==
    ASSUME NEW s \in Readers, Source(s), s.kind = "stream", NEW r \in Calls, NEW u, CallInv(s, u, r),
           NEW n \in Nat, Teed(s, r) <= n, n <= s.made
    PROVE  /\ Cut(s, n) \in Readers /\ Source(Cut(s, n)) /\ CallInv(Cut(s, n), u, r)
           /\ (Multipart(Cut(s, n)) => Multipart(s)) /\ (Whole(s, r) => Whole(Cut(s, n), r))
           /\ \A value : OutInv(s, r, value) => OutInv(Cut(s, n), r, value)
<1> DEFINE z == Cut(s, n)
           P == (r.next - 1) * PartSize
<1>1. /\ r.pos \in Nat /\ r.pos <= s.made /\ r.next - 1 \in Nat /\ Teed(s, r) \in Nat
      /\ (r.phase # "idle" => r.pos <= Teed(s, r) /\ Prefix(s) <= Teed(s, r))
      /\ r.pos = Upto(s, r.next - 1)
  BY TeedIs DEF CallInv
<1>2. s.made \in Nat /\ s.data \in Contents /\ s.made <= Len(s.data) /\ Len(s.data) \in Nat
  BY ReaderIs
<1>3. z.kind = "stream" /\ z.data = s.data /\ z.made = n /\ z \in Readers
  BY DEF Cut, Readers
<1> HIDE DEF z
<1>4. Source(z)
  BY <1>2, <1>3 DEF Source
<1>5. r.pos <= n
  <2>1. CASE r.phase = "idle"
    <3>1. r.next - 1 = 0
      BY <2>1 DEF CallInv, LoopInv
    <3>2. r.pos = 0
      BY <1>1, <3>1, UptoGrows
    <3> QED
      BY <3>2
  <2>2. CASE r.phase # "idle"
    BY <1>1, <2>2
  <2> QED
    BY <2>1, <2>2
<1>6. P \in Nat /\ r.pos = Smaller(P, s.made) /\ \A k \in 0..r.next - 1 : k * PartSize \in Nat /\ k * PartSize <= P
  <2>1. ASSUME NEW k \in Nat PROVE k * PartSize \in Nat
    BY Multiples
  <2>2. \A k \in 0..r.next - 1 : k * PartSize <= P
    BY <1>1, Multiples
  <2> QED
    BY <1>1, <2>1, <2>2 DEF Upto
<1> HIDE DEF P
<1>7. P <= n \/ n = s.made
  BY <1>1, <1>2, <1>5, <1>6 DEF Smaller
<1>8. \A k \in 0..r.next - 1 : Smaller(k * PartSize, n) = Smaller(k * PartSize, s.made)
  <2> SUFFICES ASSUME NEW k \in 0..r.next - 1 PROVE Smaller(k * PartSize, n) = Smaller(k * PartSize, s.made)
    OBVIOUS
  <2> DEFINE m == k * PartSize
  <2>1. m \in Nat /\ m <= P
    BY <1>6
  <2> HIDE DEF m
  <2>2. Smaller(m, n) = Smaller(m, s.made)
    BY <1>2, <1>6, <1>7, <2>1 DEF Smaller
  <2> QED
    BY <2>2 DEF m
<1>9. r.pos = s.made => n = s.made
  BY <1>2, <1>5
<1>10. Threshold \in Nat /\ Prefix(s) = Smaller(s.made, Threshold + 1) /\ Prefix(z) = Smaller(n, Threshold + 1)
  BY <1>3, SizeAssumption DEF Prefix
<1>11. Teed(z, r) = Teed(s, r)
  <2>1. CASE r.phase = "idle"
    BY <2>1 DEF Teed
  <2>2. CASE r.phase # "idle"
    <3>1. Prefix(s) <= n
      <4>1. Prefix(s) \in Nat
        BY <1>2, <1>10 DEF Smaller
      <4> QED
        BY <1>1, <2>2, <4>1
    <3>2. Prefix(z) = Prefix(s)
      BY <1>2, <1>10, <3>1 DEF Smaller
    <3> QED
      BY <3>2 DEF Teed
  <2> QED
    BY <2>1, <2>2
<1>12. Multipart(z) => Multipart(s)
  <2>1. Prefix(z) <= Prefix(s) /\ Prefix(z) \in Nat /\ Prefix(s) \in Nat
    BY <1>2, <1>10 DEF Smaller
  <2> QED
    BY <1>3, <1>10, <2>1 DEF Multipart
<1>13. LoopInv(z, r)
  <2>1. r.next - 1 \in 0..r.next - 1
    BY <1>1
  <2>2. r.pos = Smaller((r.next - 1) * PartSize, n)
    BY <1>6, <1>8, <2>1 DEF P
  <2> QED
    BY <1>3, <1>9, <2>2 DEF CallInv, LoopInv
<1>14. \A k \in 1..r.next - 1 : Chunk(z, k) = Chunk(s, k)
  <2> SUFFICES ASSUME NEW k \in 1..r.next - 1 PROVE Chunk(z, k) = Chunk(s, k)
    OBVIOUS
  <2>1. k \in 0..r.next - 1
    OBVIOUS
  <2> QED
    BY <1>3, <1>8, <2>1 DEF Chunk
<1>15. PartInv(z, u, r)
  <2>1. /\ \A i \in DOMAIN r.parts : r.parts[i] \in 1..MaxParts
        /\ \A i \in DOMAIN r.sent : r.sent[i].part \in 1..MaxParts
        /\ \A y \in r.tasks : y.part \in 1..MaxParts
    <3>1. /\ \A i \in DOMAIN r.sent : r.sent[i] \in Outcomes
          /\ \A i \in DOMAIN r.parts : r.parts[i] \in 1..MaxParts
      BY CallFields, Elements
    <3>2. \A y \in Outcomes : y.part \in 1..MaxParts
      BY DEF Outcomes
    <3>3. \A y \in r.tasks : y.part \in 1..MaxParts
      BY CallFields DEF Tasks
    <3> QED
      BY <3>1, <3>2, <3>3
  <2>2. \A k \in 1..MaxParts : k < r.next => k \in 1..r.next - 1
    BY CallFields, SizeAssumption
  <2>3. NumberInv(r) /\ PartInv(s, u, r)
    BY DEF CallInv
  <2>4. /\ \A i \in DOMAIN r.parts : Chunk(z, r.parts[i]) = Chunk(s, r.parts[i])
        /\ \A i \in DOMAIN r.sent : Chunk(z, r.sent[i].part) = Chunk(s, r.sent[i].part)
        /\ \A y \in r.tasks : Chunk(z, y.part) = Chunk(s, y.part)
    BY <1>14, <2>1, <2>2, <2>3 DEF NumberInv
  <2> QED
    BY <2>3, <2>4 DEF PartInv
<1>16. TailInv(z, r)
  BY <1>3, <1>11 DEF CallInv, TailInv
<1>17. CallInv(z, u, r)
  BY <1>13, <1>15, <1>16 DEF CallInv
<1>18. Whole(s, r) => Whole(z, r)
  BY <1>3, <1>9 DEF Whole
<1>19. ASSUME NEW value, OutInv(s, r, value) PROVE OutInv(z, r, value)
  <2>1. r.phase = "single" => ~Multipart(z)
    BY <1>12, <1>19 DEF OutInv
  <2>2. ASSUME r.out = "stored" PROVE value = Reader(z) /\ Teed(z, r) = z.made
    <3>1. value = Reader(s) /\ Teed(s, r) = s.made
      BY <1>19, <2>2 DEF OutInv
    <3>2. n = s.made
      BY <1>2, <3>1
    <3> QED
      BY <1>3, <1>11, <3>1, <3>2 DEF Reader
  <2> QED
    BY <2>1, <2>2 DEF OutInv
<1> QED
  BY <1>3, <1>4, <1>12, <1>17, <1>18, <1>19 DEF z

(* The caller is cancelled. *)
LEMMA InterruptStep ==
    ASSUME UploadInv, NEW c \in Callers, Interrupt(c)
    PROVE  UploadInv'
<1> DEFINE r == call[c]
           s == source[c]
           u == uploads[c]
           v == uploads'[c]
           z == source'[c]
           q == [r EXCEPT !.ctx = TRUE]
<1>1. /\ r.phase \notin {"done", "dead"} /\ Fault /\ Lost(c) /\ call' = [call EXCEPT ![c] = q]
      /\ UNCHANGED <<object, result>>
  BY DEF Interrupt, Becomes
<1>2. PICK n \in Teed(s, r)..s.made : source' = IF s.kind = "stream" THEN [source EXCEPT ![c].made = n] ELSE source
  BY DEF Interrupt
<1>3. /\ source \in [Callers -> Readers] /\ s \in Readers /\ Source(s) /\ r \in Calls
      /\ result \in [Callers -> Told] /\ result[c] \in Told /\ object \in Contents \cup {None}
      /\ CallInv(s, u, r) /\ OutInv(s, r, object) /\ ToldInv(s, r, result[c])
      /\ (u.open => c \in unaborted \/ r.phase \in Opened) /\ unaborted \subseteq Callers
  BY Local
<1>4. /\ uploads' \in [Callers -> Uploads] /\ v.parts = u.parts
      /\ (\A d \in Callers \ {c} : uploads'[d] = uploads[d])
      /\ late' \subseteq Callers /\ (\A d \in Callers \ {c} : d \in late' => d \in late)
      /\ unaborted' \subseteq Callers /\ unaborted \subseteq unaborted'
      /\ (c \in late' /\ Multipart(s) => Whole(s, r))
      /\ (v.open => c \in unaborted' \/ u.open)
  BY <1>1, LostFacts
<1>5. /\ source' \in [Callers -> Readers] /\ (\A d \in Callers \ {c} : source'[d] = source[d]) /\ z \in Readers
      /\ Source(z) /\ CallInv(z, u, r) /\ OutInv(z, r, object) /\ (Multipart(z) => Multipart(s))
      /\ (Whole(s, r) => Whole(z, r))
  <2>1. CASE s.kind = "stream"
    <3>0. Teed(s, r) \in Nat /\ s.made \in Nat
      BY <1>3, TeedIs, ReaderIs DEF CallInv
    <3>1. n \in Nat /\ Teed(s, r) <= n /\ n <= s.made
      BY <1>2, <3>0
    <3>2. /\ Cut(s, n) \in Readers /\ Source(Cut(s, n)) /\ CallInv(Cut(s, n), u, r)
          /\ (Multipart(Cut(s, n)) => Multipart(s)) /\ (Whole(s, r) => Whole(Cut(s, n), r))
          /\ OutInv(Cut(s, n), r, object)
      BY <1>3, <2>1, <3>1, CutIs
    <3>3. source' = [source EXCEPT ![c] = Cut(s, n)]
      BY <1>2, <2>1 DEF Cut
    <3>4. source' \in [Callers -> Readers] /\ z = Cut(s, n) /\ (\A d \in Callers \ {c} : source'[d] = source[d])
      BY <1>3, <3>2, <3>3
    <3> QED
      BY <3>2, <3>4
  <2>2. CASE s.kind # "stream"
    BY <1>2, <1>3, <2>2
  <2> QED
    BY <2>1, <2>2
<1>6. /\ q \in Calls /\ q.phase = r.phase /\ q.out = r.out /\ q.tail = r.tail /\ SameLoop(r, q)
  <2>1. r \in Calls
    BY <1>3
  <2> HIDE DEF r
  <2> QED
    BY <2>1 DEF Calls, SameLoop
<1> HIDE DEF q
<1>7. NumberInv(q) /\ PartInv(z, u, q) /\ BufferInv(q) /\ (Whole(z, r) => Whole(z, q))
  <2>1. q.phase \in Running \/ (r.tasks = {} /\ r.sent = <<>>)
    BY <1>3, <1>6 DEF CallInv, BufferInv
  <2> QED
    BY <1>5, <1>6, <2>1, Frame DEF CallInv
<1>8. LoopInv(z, q) /\ Teed(z, q) = Teed(z, r)
  BY <1>5, <1>6 DEF CallInv, LoopInv, SameLoop, Accepted, InFlight, Teed
<1>9. TailInv(z, q)
  BY <1>5, <1>6, <1>8 DEF CallInv, TailInv
<1>10. CallInv(z, v, q)
  BY <1>4, <1>7, <1>8, <1>9 DEF CallInv, PartInv
<1>11. OutInv(z, q, object')
  BY <1>1, <1>5, <1>6, <1>8 DEF OutInv
<1>12. ToldInv(z, q, result[c])
  BY <1>1, <1>3, <1>6 DEF ToldInv
<1>13. faults' \in 0..MaxFaults
  BY <1>1, Faulty
<1>14. /\ result' \in [Callers -> Told] /\ result'[c] = result[c] /\ (\A d \in Callers \ {c} : result'[d] = result[d])
       /\ object' \in Contents \cup {None} /\ (object # None => object' = object)
       /\ (c \in late' /\ Multipart(z) => Whole(z, q)) /\ v \in Uploads
       /\ (v.open => c \in unaborted' \/ q.phase \in Opened)
  BY <1>1, <1>3, <1>4, <1>5, <1>6, <1>7
<1>15. source'[c] = z /\ uploads'[c] = v
  OBVIOUS
<1> HIDE DEF s, r, u, v, z
<1> QED
  BY <1>1, <1>3, <1>4, <1>5, <1>6, <1>10, <1>11, <1>12, <1>13, <1>14, <1>15, CallerStep

(* The process dies. *)
LEMMA CrashStep ==
    ASSUME UploadInv, NEW c \in Callers, Crash(c)
    PROVE  UploadInv'
<1> DEFINE r == call[c]
           s == source[c]
           u == uploads[c]
           v == uploads'[c]
           q == [r EXCEPT !.phase = "dead", !.tasks = {}, !.sent = <<>>]
<1>1. /\ r.phase \notin {"done", "dead"} /\ Fault /\ call' = [call EXCEPT ![c] = q]
      /\ UNCHANGED <<source, object, result>>
  BY DEF Crash, Becomes
<1>2. /\ source \in [Callers -> Readers] /\ s \in Readers /\ Source(s) /\ r \in Calls
      /\ uploads \in [Callers -> Uploads] /\ late \subseteq Callers
      /\ result \in [Callers -> Told] /\ result[c] \in Told /\ object \in Contents \cup {None}
      /\ CallInv(s, u, r) /\ OutInv(s, r, object) /\ ToldInv(s, r, result[c])
      /\ (c \in late /\ Multipart(s) => Whole(s, r)) /\ unaborted \subseteq Callers
  BY Local
<1>3. /\ uploads' \in [Callers -> Uploads] /\ v.parts = u.parts
      /\ (\A d \in Callers \ {c} : uploads'[d] = uploads[d])
      /\ late' \subseteq Callers /\ (\A d \in Callers \ {c} : d \in late' => d \in late)
      /\ unaborted' \subseteq Callers /\ unaborted \subseteq unaborted'
      /\ (c \in late' /\ Multipart(s) => Whole(s, r))
      /\ (v.open => c \in unaborted')
  <2>1. CASE Lost(c) /\ ~u.open
    BY <2>1, LostFacts
  <2>2. CASE /\ u.open /\ unaborted' = unaborted \cup {c}
             /\ late' \in {late, IF r.phase = "completing" THEN late \cup {c} ELSE late}
             /\ UNCHANGED uploads
    <3>1. r.phase = "completing" => Whole(s, r)
      BY <1>2 DEF CallInv, LoopInv, Whole
    <3> QED
      BY <1>2, <2>2, <3>1
  <2> QED
    BY <2>1, <2>2 DEF Crash
<1>4. /\ q \in Calls /\ q.phase = "dead" /\ q.out = r.out /\ q.tail = r.tail /\ q.tasks = {} /\ q.sent = <<>>
      /\ q.pos = r.pos /\ q.next = r.next /\ q.last = r.last /\ q.free = r.free /\ q.bufs = r.bufs
      /\ q.parts = r.parts
  <2>1. r \in Calls /\ "dead" \in Phases /\ <<>> \in Seq(Outcomes)
    BY <1>2 DEF Phases
  <2> HIDE DEF r
  <2> QED
    BY <2>1 DEF Calls
<1> HIDE DEF q
<1>5. IsFiniteSet(q.tasks) /\ DOMAIN q.sent = {}
  <2>1. DOMAIN <<>> = {} /\ IsFiniteSet({})
    BY FS_EmptySet
  <2> QED
    BY <1>4, <2>1
<1>6. BufferInv(q)
  BY <1>2, <1>4, <1>5 DEF CallInv, BufferInv
<1>7. NumberInv(q)
  BY <1>2, <1>4, <1>5 DEF CallInv, NumberInv
<1>8. PartInv(s, v, q)
  BY <1>2, <1>3, <1>4, <1>5 DEF CallInv, PartInv
<1>9. LoopInv(s, q) /\ TailInv(s, q)
  BY <1>2, <1>4 DEF CallInv, LoopInv, TailInv
<1>10. CallInv(s, v, q)
  BY <1>6, <1>7, <1>8, <1>9 DEF CallInv
<1>11. OutInv(s, q, object')
  <2>1. r.out = "stored" => Teed(s, q) = Teed(s, r)
    BY <1>2, <1>4 DEF CallInv, TailInv, Teed
  <2> QED
    BY <1>1, <1>2, <1>4, <2>1 DEF OutInv
<1>12. ToldInv(s, q, result[c])
  BY <1>1, <1>2, <1>4 DEF ToldInv
<1>13. faults' \in 0..MaxFaults
  BY <1>1, Faulty
<1>14. Whole(s, r) => Whole(s, q)
  BY <1>4 DEF Whole, Accepted
<1>15. /\ result' \in [Callers -> Told] /\ result'[c] = result[c] /\ (\A d \in Callers \ {c} : result'[d] = result[d])
       /\ source' \in [Callers -> Readers] /\ source'[c] = s /\ (\A d \in Callers \ {c} : source'[d] = source[d])
       /\ object' \in Contents \cup {None} /\ (object # None => object' = object)
       /\ (c \in late' /\ Multipart(s) => Whole(s, q)) /\ v \in Uploads
       /\ (v.open => c \in unaborted' \/ q.phase \in Opened) /\ uploads'[c] = v
  BY <1>1, <1>2, <1>3, <1>14
<1> HIDE DEF s, r, u, v
<1> QED
  BY <1>1, <1>2, <1>3, <1>4, <1>10, <1>11, <1>12, <1>13, <1>15, CallerStep

-----------------------------------------------------------------------------
(* The theorems. *)

(* Every step keeps the invariant. *)
LEMMA NextInv == UploadInv /\ [Next]_vars => UploadInv'
<1> SUFFICES ASSUME UploadInv, [Next]_vars PROVE UploadInv'
  OBVIOUS
<1>1. CASE UNCHANGED vars
  <2>1. TypeOK'
    BY <1>1 DEF UploadInv, TypeOK, vars
  <2>2. ASSUME NEW c \in Callers PROVE CallerInv(c)'
    BY <1>1 DEF UploadInv, CallerInv, vars
  <2> QED
    BY <2>1, <2>2 DEF UploadInv
<1>2. CASE Next
  <2>1. PICK c \in Callers : Proceed(c) \/ ServeLate(c) \/ Interrupt(c) \/ Crash(c)
    BY <1>2 DEF Next
  <2>2. CASE Begin(c)
    BY <2>2, BeginStep
  <2>3. CASE PutServed(c) \/ PutResent(c)
    BY <2>3, PutStep
  <2>4. CASE CreateServed(c) \/ Polled(c) \/ Collected(c)
    BY <2>4, SimpleStep
  <2>5. CASE RequestFails(c)
    BY <2>5, RequestFailsStep
  <2>6. CASE ReadPart(c)
    BY <2>6, ReadPartStep
  <2>7. CASE ReadFails(c)
    BY <2>7, ReadFailsStep
  <2>8. CASE Receive(c)
    BY <2>8, ReceiveStep
  <2>9. CASE Drained(c)
    BY <2>9, DrainedStep
  <2>10. CASE PartServed(c) \/ PartFails(c)
    BY <2>10, PartStep
  <2>11. CASE CompleteServed(c) \/ CompleteConflicts(c) \/ CompleteResent(c)
    BY <2>11, CompleteStep
  <2>12. CASE AbortServed(c) \/ AbortFails(c)
    BY <2>12, AbortStep
  <2>13. CASE Report(c) \/ ReportFails(c)
    BY <2>13, ReportStep
  <2>14. CASE ServeLate(c)
    BY <2>14, ServeLateStep
  <2>15. CASE Interrupt(c)
    BY <2>15, InterruptStep
  <2>16. CASE Crash(c)
    BY <2>16, CrashStep
  <2> QED
    BY <2>1, <2>2, <2>3, <2>4, <2>5, <2>6, <2>7, <2>8, <2>9, <2>10, <2>11, <2>12, <2>13, <2>14,
       <2>15, <2>16 DEF Proceed
<1> QED
  BY <1>1, <1>2

(* The invariant holds: whatever is lost, resent, refused, cancelled or    *)
(* killed, putMultipart's buffers, numbers and results and the store's     *)
(* parts belong together.                                                  *)
THEOREM InvariantHolds == Spec => []UploadInv
BY InitInv, NextInv, PTL DEF Spec

(* Types of putMultipart's variables; in particular no part has a number   *)
(* above the limit.                                                        *)
THEOREM TypeCorrect == Spec => []TypeOK
<1>1. UploadInv => TypeOK
  BY DEF UploadInv
<1> QED
  BY <1>1, InvariantHolds, PTL

(* At most one element: the cardinality is 0 or 1. *)
LEMMA AtMostOne ==
    ASSUME NEW S, \A x, y \in S : x = y
    PROVE  Cardinality(S) \in {0, 1} /\ (S = {} => Cardinality(S) = 0)
<1>1. CASE S = {}
  BY <1>1, FS_EmptySet
<1>2. CASE S # {}
  <2>1. PICK x : S = {x}
    BY <1>2
  <2>2. Cardinality(S) = 1
    BY <2>1, FS_Singleton
  <2> QED
    BY <1>2, <2>2
<1> QED
  BY <1>1, <1>2

(* One owner at most for each buffer. *)
LEMMA OneOwner ==
    ASSUME NEW r \in Calls, BufferInv(r), NEW b \in 1..Concurrency
    PROVE  Owners(r, b) <= 1
<1> DEFINE T == {t \in r.tasks : t.buf = b}
           S == {i \in DOMAIN r.sent : r.sent[i].buf = b}
           F == {i \in DOMAIN r.free : r.free[i] = b}
<1>1. /\ \A x, y \in T : x = y
      /\ \A x, y \in S : x = y
      /\ \A x, y \in F : x = y
      /\ T = {} \/ S = {}
      /\ T = {} \/ F = {}
      /\ S = {} \/ F = {}
  BY DEF BufferInv
<1>2. Owners(r, b) = Cardinality(T) + Cardinality(S) + Cardinality(F)
  BY DEF Owners
<1> HIDE DEF T, S, F
<1>3. /\ Cardinality(T) \in {0, 1} /\ (T = {} => Cardinality(T) = 0)
      /\ Cardinality(S) \in {0, 1} /\ (S = {} => Cardinality(S) = 0)
      /\ Cardinality(F) \in {0, 1} /\ (F = {} => Cardinality(F) = 0)
  BY <1>1, AtMostOne
<1> QED
  BY <1>1, <1>2, <1>3

(* A buffer never has two owners, and Put completes, aborts and returns    *)
(* with every part settled.                                                *)
THEOREM BuffersAreSettled == Spec => []PartsSettled
<1>1. UploadInv => PartsSettled
  <2> SUFFICES ASSUME UploadInv, NEW c \in Callers
               PROVE  /\ \A b \in 1..Concurrency : Owners(call[c], b) <= 1
                      /\ call[c].phase \in {"completing", "aborting", "returned", "done"} => Inflight(c) = 0
    BY DEF PartsSettled
  <2>1. call[c] \in Calls /\ BufferInv(call[c])
    BY Local DEF CallInv
  <2>2. \A b \in 1..Concurrency : Owners(call[c], b) <= 1
    BY <2>1, OneOwner
  <2>3. ASSUME call[c].phase \in {"completing", "aborting", "returned", "done"} PROVE Inflight(c) = 0
    <3>1. call[c].tasks = {} /\ call[c].sent = <<>>
      BY <2>1, <2>3 DEF BufferInv, Running
    <3>2. Cardinality({}) = 0 /\ Len(<<>>) = 0
      BY FS_EmptySet
    <3> QED
      BY <3>1, <3>2 DEF Inflight
  <2> QED
    BY <2>2, <2>3
<1> QED
  BY <1>1, InvariantHolds, PTL

(* A caller with a result leaves no open upload that somebody could still  *)
(* have aborted.                                                           *)
THEOREM UploadsAreClosed == Spec => []UploadsClosed
<1>1. UploadInv => UploadsClosed
  <2> SUFFICES ASSUME UploadInv, NEW c \in Callers, result[c] # "none", uploads[c].open
               PROVE  c \in unaborted
    BY DEF UploadsClosed
  <2>1. call[c].phase = "done"
    BY Local DEF ToldInv
  <2> QED
    BY <2>1, Local DEF Opened, Running
<1> QED
  BY <1>1, InvariantHolds, PTL

(* The trailer of an accepted pack is the end of the object: across every  *)
(* way of cutting the stream into reads and writes.                        *)
THEOREM TrailerIsEnd == Spec => []TrailerIsObjectEnd
<1>1. UploadInv => TrailerIsObjectEnd
  <2> SUFFICES ASSUME UploadInv, NEW c \in Callers, result[c] = "ok", source[c].kind = "stream"
               PROVE  call[c].tail = SubSeq(object, Len(object) - TrailerSize + 1, Len(object))
    BY DEF TrailerIsObjectEnd
  <2> DEFINE r == call[c]
             s == source[c]
             d == s.data
             n == s.made
             T == TrailerSize
  <2>1. /\ s \in Readers /\ Source(s) /\ r \in Calls /\ CallInv(s, uploads[c], r)
        /\ OutInv(s, r, object) /\ ToldInv(s, r, result[c])
    BY Local
  <2>2. r.phase = "done" /\ r.out = "stored" /\ n = Len(d) /\ Len(r.tail) = T
    BY <2>1 DEF ToldInv
  <2>3. object = Reader(s) /\ Teed(s, r) = n
    BY <2>1, <2>2 DEF OutInv
  <2>4. r.tail = SubSeq(d, n - Smaller(T, n) + 1, n)
    BY <2>1, <2>2, <2>3 DEF CallInv, TailInv
  <2>5. d \in Contents /\ n \in Nat /\ T \in Nat
    BY <2>1, ReaderIs, SizeAssumption
  <2>6. Reader(s) = SubSeq(d, 1, n)
    BY DEF Reader
  <2> HIDE DEF d, n, T
  <2>7. SubSeq(d, 1, n) = d
    BY <2>2, <2>5, SubSeqFull DEF Contents
  <2>8. Smaller(T, n) = T
    <3> DEFINE m == n - Smaller(T, n) + 1
    <3>1. m \in Nat \ {0} /\ Smaller(T, n) \in Nat /\ Smaller(T, n) <= n /\ (Smaller(T, n) = T \/ Smaller(T, n) = n)
      BY <2>5 DEF Smaller
    <3>2. m <= n => n - m + 1 = Smaller(T, n)
      BY <2>5, <3>1
    <3>3. ~(m <= n) => Smaller(T, n) = 0
      BY <2>5, <3>1
    <3>4. r.tail = SubSeq(d, m, n) /\ n <= Len(d)
      BY <2>2, <2>4, <2>5
    <3> HIDE DEF m
    <3>5. Len(SubSeq(d, m, n)) = IF m <= n THEN n - m + 1 ELSE 0
      BY <2>5, <3>1, <3>4, Slice
    <3> QED
      BY <2>2, <3>2, <3>3, <3>4, <3>5
  <2>9. object = d /\ Len(object) = n
    BY <2>2, <2>3, <2>6, <2>7
  <2> QED
    BY <2>4, <2>8, <2>9 DEF T
<1> QED
  BY <1>1, InvariantHolds, PTL

-----------------------------------------------------------------------------
(* The refinement of WriteOnce. *)

(* The key appears with the whole of one reader. *)
Appears(c) == object = None /\ object' = Reader(source[c])

(* What the steps of a call do to the key. *)
LEMMA KeyStep ==
    ASSUME UploadInv, NEW c \in Callers,
           \/ Begin(c) \/ PutServed(c) \/ PutResent(c) \/ CreateServed(c) \/ RequestFails(c)
           \/ ReadPart(c) \/ ReadFails(c) \/ Receive(c) \/ Polled(c) \/ Collected(c) \/ Drained(c)
           \/ PartServed(c) \/ PartFails(c)
           \/ CompleteServed(c) \/ CompleteConflicts(c) \/ CompleteResent(c)
           \/ AbortServed(c) \/ AbortFails(c) \/ ServeLate(c) \/ Crash(c)
    PROVE  UNCHANGED <<source, result>> /\ (UNCHANGED object \/ Appears(c))
<1>1. CASE PutServed(c) \/ PutResent(c)
  BY <1>1 DEF PutServed, PutResent, Store, Appears
<1>2. CASE CompleteServed(c) \/ CompleteResent(c)
  <2>1. UNCHANGED <<source, result>> /\ Store(Joined(c)) /\ call[c].phase = "completing"
    BY <1>2 DEF CompleteServed, CompleteResent
  <2>2. Whole(source[c], call[c])
    BY <2>1, Local DEF CallInv, LoopInv, Whole
  <2>3. Joined(c) = Reader(source[c])
    BY <2>2, JoinsReader
  <2> QED
    BY <2>1, <2>3 DEF Store, Appears
<1>3. CASE ServeLate(c)
  <2>1. UNCHANGED <<source, result>> /\ c \in late
    BY <1>3 DEF ServeLate
  <2>2. CASE Multipart(source[c]) /\ Store(Joined(c))
    <3>1. Joined(c) = Reader(source[c])
      BY <2>1, <2>2, Local, JoinsReader
    <3> QED
      BY <2>1, <2>2, <3>1 DEF Store, Appears
  <2>3. CASE Store(Reader(source[c]))
    BY <2>1, <2>3 DEF Store, Appears
  <2> QED
    BY <1>3, <2>2, <2>3 DEF ServeLate
<1>4. CASE Begin(c) \/ CreateServed(c) \/ RequestFails(c) \/ ReadPart(c) \/ ReadFails(c) \/ Receive(c)
  BY <1>4 DEF Begin, CreateServed, RequestFails, ReadPart, ReadFails, Receive
<1>5. CASE Polled(c) \/ Collected(c) \/ Drained(c) \/ PartServed(c) \/ PartFails(c) \/ CompleteConflicts(c)
           \/ AbortServed(c) \/ AbortFails(c) \/ Crash(c)
  BY <1>5 DEF Polled, Collected, Drained, PartServed, PartFails, CompleteConflicts, AbortServed, AbortFails, Crash
<1> QED
  BY <1>1, <1>2, <1>3, <1>4, <1>5

(* A caller is told `ok` only while the key holds what it meant. *)
LEMMA ReportKey ==
    ASSUME UploadInv, NEW c \in Callers, Report(c) \/ ReportFails(c)
    PROVE  /\ UNCHANGED <<source, object>> /\ result[c] = "none"
           /\ \/ object = source[c].data /\ result' = [result EXCEPT ![c] = "ok"]
              \/ result' = [result EXCEPT ![c] = "failed"]
<1> DEFINE s == source[c]
           r == call[c]
<1>1. UNCHANGED <<source, object>> /\ r.phase = "returned"
  BY DEF Report, ReportFails, Reports
<1>2. /\ s \in Readers /\ Source(s) /\ OutInv(s, r, object) /\ ToldInv(s, r, result[c])
  BY Local
<1>3. result[c] = "none"
  BY <1>1, <1>2 DEF ToldInv
<1>4. /\ s.data \in Contents /\ SubSeq(s.data, 1, Len(s.data)) = s.data
  <2>1. s.data \in Contents
    BY <1>2, ReaderIs
  <2> QED
    BY <2>1, SubSeqFull DEF Contents
<1>5. s.kind = "file" /\ FileOk(c) => object = s.data
  <2> SUFFICES ASSUME s.kind = "file", FileOk(c) PROVE object = s.data
    OBVIOUS
  <2>1. object = Reader(s)
    BY <1>2 DEF FileOk, OutInv
  <2>2. s.made = Len(s.data)
    BY <1>2 DEF Source
  <2> QED
    BY <1>4, <2>1, <2>2 DEF Reader
<1>6. StreamOk(c) => object = s.data
  <2> SUFFICES ASSUME StreamOk(c) PROVE object = s.data
    OBVIOUS
  <2>1. object = Reader(s) /\ s.made = Len(s.data)
    BY <1>2 DEF StreamOk, OutInv
  <2> QED
    BY <1>4, <2>1 DEF Reader
<1>7. \/ object = s.data /\ result' = [result EXCEPT ![c] = "ok"]
      \/ result' = [result EXCEPT ![c] = "failed"]
  <2>1. CASE Report(c)
    <3>1. Reports(c, IF IF s.kind = "file" THEN FileOk(c) ELSE StreamOk(c) THEN "ok" ELSE "failed")
      BY <2>1 DEF Report
    <3> QED
      BY <1>5, <1>6, <3>1 DEF Reports
  <2>2. CASE ReportFails(c)
    BY <2>2 DEF ReportFails, Reports
  <2> QED
    BY <2>1, <2>2
<1> QED
  BY <1>1, <1>3, <1>7

(* A cancelled stream ends earlier. *)
LEMMA InterruptKey ==
    ASSUME UploadInv, NEW c \in Callers, Interrupt(c)
    PROVE  /\ UNCHANGED <<object, result>> /\ result[c] = "none"
           /\ \A d \in Callers \ {c} : source'[d] = source[d]
           /\ \A d \in Callers : source'[d].data = source[d].data
<1>1. UNCHANGED <<object, result>> /\ call[c].phase \notin {"done", "dead"}
  BY DEF Interrupt
<1>2. result[c] = "none" /\ source \in [Callers -> Readers]
  BY <1>1, Local DEF ToldInv
<1>3. PICK n \in Teed(source[c], call[c])..source[c].made :
        source' = IF source[c].kind = "stream" THEN [source EXCEPT ![c].made = n] ELSE source
  BY DEF Interrupt
<1>4. CASE source[c].kind = "stream"
  <2>1. source' = [source EXCEPT ![c] = Cut(source[c], n)]
    BY <1>3, <1>4 DEF Cut
  <2>2. Cut(source[c], n).data = source[c].data
    BY <1>2 DEF Cut, Readers
  <2> QED
    BY <1>1, <1>2, <2>1, <2>2
<1>5. CASE source[c].kind # "stream"
  BY <1>1, <1>2, <1>3, <1>5
<1> QED
  BY <1>4, <1>5

(* Put implements the write-once key: it appears once, with the whole of   *)
(* what one reader yields, and `ok` means that it is what the caller       *)
(* wanted.                                                                 *)
THEOREM PutIsWriteOnce == Spec => ImplementsWriteOnce
<1>1. Init => Key!Init
  BY DEF Init, Key!Init
<1>2. UploadInv /\ [Next]_vars => [Key!Next]_(Key!vars)
  <2> SUFFICES ASSUME UploadInv, [Next]_vars PROVE [Key!Next]_(Key!vars)
    OBVIOUS
  <2>1. CASE UNCHANGED vars
    BY <2>1 DEF vars, Key!vars
  <2>2. CASE Next
    <3>1. PICK c \in Callers : Proceed(c) \/ ServeLate(c) \/ Interrupt(c) \/ Crash(c)
      BY <2>2 DEF Next
    <3>2. CASE UNCHANGED <<source, result>> /\ UNCHANGED object
      BY <3>2 DEF Key!vars
    <3>3. CASE UNCHANGED <<source, result>> /\ Appears(c)
      <4>1. Key!Create(c)
        BY <3>3 DEF Key!Create, Appears
      <4> QED
        BY <4>1 DEF Key!Next
    <3>4. CASE Report(c) \/ ReportFails(c)
      <4>1. /\ UNCHANGED <<source, object>> /\ result[c] = "none"
            /\ \/ object = source[c].data /\ result' = [result EXCEPT ![c] = "ok"]
               \/ result' = [result EXCEPT ![c] = "failed"]
        BY <3>4, ReportKey
      <4>2. Key!Report(c)
        BY <4>1 DEF Key!Report
      <4> QED
        BY <4>2 DEF Key!Next
    <3>5. CASE Interrupt(c)
      <4>1. /\ UNCHANGED <<object, result>> /\ result[c] = "none"
            /\ \A d \in Callers \ {c} : source'[d] = source[d]
            /\ \A d \in Callers : source'[d].data = source[d].data
        BY <3>5, InterruptKey
      <4>2. Key!Shorten(c)
        BY <4>1 DEF Key!Shorten
      <4> QED
        BY <4>2 DEF Key!Next
    <3>6. CASE ~(Report(c) \/ ReportFails(c) \/ Interrupt(c))
      <4>1. UNCHANGED <<source, result>> /\ (UNCHANGED object \/ Appears(c))
        BY <3>1, <3>6, KeyStep DEF Proceed
      <4> QED
        BY <4>1, <3>2, <3>3
    <3> QED
      BY <3>4, <3>5, <3>6
  <2> QED
    BY <2>1, <2>2
<1> QED
  BY <1>1, <1>2, InvariantHolds, PTL DEF Spec, ImplementsWriteOnce, Key!Spec

=============================================================================
