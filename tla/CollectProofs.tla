--------------------------- MODULE CollectProofs ---------------------------
(***************************************************************************)
(* Machine-checked proofs about Collect, for any number of processes,      *)
(* commits, levels, fanouts, operations and faults, when no plan is        *)
(* resumed or aborted while somebody works on it.                          *)
(***************************************************************************)
EXTENDS Collect, SequenceTheorems, WellFoundedInduction, TLAPS

-----------------------------------------------------------------------------
(* The merge loop over the levels. *)

(* A non-empty set of numbers has a least one: what an induction over the  *)
(* levels comes down to.                                                   *)
LEMMA LeastNumber ==
    ASSUME NEW T \in SUBSET Nat, T # {}
    PROVE  \E m \in T : \A n \in T : m <= n
<1>1. PICK m \in T : \A n \in T : ~ (<<n, m>> \in OpToRel(<, Nat))
  BY NatLessThanWellFounded, WFMin, Zenon
<1>2. \A n \in T : ~ (n < m)
  BY <1>1 DEF OpToRel
<1> QED
  BY <1>2

(* A non-empty set of levels has a highest one. *)
LEMMA HighestLevel ==
    ASSUME NEW T \in SUBSET Levels, T # {}
    PROVE  \E m \in T : \A n \in T : n <= m
<1>1. MaxLevel \in Nat /\ \A l \in T : l \in Nat /\ l <= MaxLevel
  BY TipAssumption DEF Levels
<1> DEFINE U == {k \in Nat : MaxLevel - k \in T}
<1>2. \A l \in T : MaxLevel - l \in U
  BY <1>1
<1>3. U \in SUBSET Nat /\ U # {}
  BY <1>2
<1>4. PICK k \in U : \A n \in U : k <= n
  BY <1>3, LeastNumber
<1>5. MaxLevel - k \in T /\ \A n \in T : n <= MaxLevel - k
  BY <1>1, <1>2, <1>4
<1> QED
  BY <1>5

(* What level l receives when the levels below have received g. *)
CarryStep(levels, p, fanout, g, l) ==
    IF l = 0 THEN {p}
    ELSE IF Full(levels, l - 1, g[l - 1], fanout)
         THEN {UNION (levels[l - 1] \cup g[l - 1])} ELSE {}

(* Maintenance's merge loop is well defined: it goes from level to level. *)
LEMMA CarriesDef ==
    ASSUME NEW levels, NEW p, NEW fanout
    PROVE  Carries(levels, p, fanout) =
             [l \in Levels |-> CarryStep(levels, p, fanout, Carries(levels, p, fanout), l)]
<1> DEFINE Step(g, l) == CarryStep(levels, p, fanout, g, l)
           T == {n \in Levels : ~ \E g : /\ DOMAIN g = 0..n
                                         /\ \A l \in 0..n : g[l] = Step(g, l)}
<1>1. MaxLevel \in Nat /\ Levels = 0..MaxLevel
  BY TipAssumption DEF Levels
<1>2. Carries(levels, p, fanout) = CHOOSE g : g = [l \in Levels |-> Step(g, l)]
  BY DEF Carries, CarryStep
<1>3. T = {}
  <2> SUFFICES ASSUME T # {} PROVE FALSE
    OBVIOUS
  <2>1. PICK n \in T : \A m \in T : n <= m
    <3>1. T \in SUBSET Nat
      BY <1>1
    <3> HIDE DEF T
    <3> QED
      BY <3>1, LeastNumber
  <2>2. n \in Nat /\ n <= MaxLevel
    BY <1>1
  <2>3. CASE n = 0
    <3> DEFINE g == [l \in 0..0 |-> {p}]
    <3>1. DOMAIN g = 0..n /\ \A l \in 0..n : g[l] = Step(g, l)
      BY <2>3 DEF CarryStep
    <3> QED
      BY <3>1
  <2>4. CASE n # 0
    <3>1. n - 1 \in Levels /\ n - 1 \notin T
      BY <1>1, <2>1, <2>2, <2>4
    <3>2. PICK g : DOMAIN g = 0..(n - 1) /\ \A l \in 0..(n - 1) : g[l] = Step(g, l)
      BY <3>1
    <3> DEFINE h == [l \in 0..n |-> IF l = n THEN Step(g, n) ELSE g[l]]
    <3>3. ASSUME NEW l \in 0..n
          PROVE  h[l] = Step(h, l)
      <4>1. l # 0 => l - 1 \in 0..n /\ l - 1 # n
        BY <2>2
      <4>2. l # 0 => h[l - 1] = g[l - 1]
        BY <4>1
      <4>3. Step(h, l) = Step(g, l)
        BY <4>2 DEF CarryStep
      <4>4. CASE l = n
        BY <4>3, <4>4
      <4>5. CASE l # n
        BY <2>2, <3>2, <4>3, <4>5
      <4> QED
        BY <4>4, <4>5
    <3>4. DOMAIN h = 0..n
      OBVIOUS
    <3> HIDE DEF h
    <3> QED
      BY <3>3, <3>4
  <2> QED
    BY <2>3, <2>4
<1>4. PICK g : DOMAIN g = Levels /\ \A l \in Levels : g[l] = Step(g, l)
  BY <1>1, <1>3
<1> DEFINE f == [l \in Levels |-> g[l]]
<1>5. f = [l \in Levels |-> Step(f, l)]
  <2>1. ASSUME NEW l \in Levels
        PROVE  f[l] = Step(f, l)
    <3>1. l # 0 => l - 1 \in Levels
      BY <1>1
    <3>2. Step(f, l) = Step(g, l)
      BY <3>1 DEF CarryStep
    <3> QED
      BY <1>4, <3>2
  <2> QED
    BY <2>1
<1> HIDE DEF f, Step
<1> QED
  BY <1>2, <1>5 DEF Step

(* Packsets, and the packs of one. *)
Packsets == [Levels -> SUBSET Packs]
PacksIn(levels) == UNION {levels[l] : l \in Levels}

(* What the levels receive are packs. *)
LEMMA CarriesType ==
    ASSUME NEW levels \in [Levels -> SUBSET Packs], NEW p \in Packs, NEW fanout \in Nat
    PROVE  \A l \in Levels : Carries(levels, p, fanout)[l] \in SUBSET Packs
<1> DEFINE carry == Carries(levels, p, fanout)
           T == {l \in Levels : ~ (carry[l] \in SUBSET Packs)}
<1>1. MaxLevel \in Nat /\ Levels = 0..MaxLevel
  BY TipAssumption DEF Levels
<1>2. \A l \in Levels : carry[l] = CarryStep(levels, p, fanout, carry, l)
  BY CarriesDef
<1> HIDE DEF carry
<1>3. T = {}
  <2> SUFFICES ASSUME T # {} PROVE FALSE
    OBVIOUS
  <2>1. PICK n \in T : \A m \in T : n <= m
    <3>1. T \in SUBSET Nat
      BY <1>1
    <3> HIDE DEF T
    <3> QED
      BY <3>1, LeastNumber
  <2>2. CASE n = 0
    BY <1>2, <2>2 DEF CarryStep
  <2>3. CASE n # 0
    <3>1. n - 1 \in Levels /\ n - 1 \notin T
      BY <1>1, <2>1, <2>3
    <3>2. levels[n - 1] \cup carry[n - 1] \in SUBSET Packs
      BY <3>1
    <3>3. UNION (levels[n - 1] \cup carry[n - 1]) \in Packs
      BY <3>2 DEF Packs
    <3> QED
      BY <1>2, <2>3, <3>3 DEF CarryStep
  <2> QED
    BY <2>2, <2>3
<1> QED
  BY <1>3 DEF carry

(* The packset after Maintenance: its packs are old ones or uploaded ones, *)
(* and they hold what the old ones and the new one hold, however far the   *)
(* merges go.                                                              *)
LEMMA CompactedFacts ==
    ASSUME NEW levels \in Packsets, NEW p \in Packs, NEW fanout \in Nat
    PROVE  /\ Compacted(levels, p, fanout) \in Packsets
           /\ Uploads(levels, p, fanout) \subseteq Packs
           /\ PacksIn(Compacted(levels, p, fanout)) \subseteq PacksIn(levels) \cup Uploads(levels, p, fanout)
           /\ p \cup UNION PacksIn(levels) \subseteq UNION PacksIn(Compacted(levels, p, fanout))
<1> DEFINE carry == Carries(levels, p, fanout)
           merged(l) == l < MaxLevel /\ Full(levels, l, carry[l], fanout)
           new == Compacted(levels, p, fanout)
<1>1. MaxLevel \in Nat /\ Levels = 0..MaxLevel
  BY TipAssumption DEF Levels
<1>2. \A l \in Levels : carry[l] = CarryStep(levels, p, fanout, carry, l)
  BY CarriesDef
<1>3. \A l \in Levels : carry[l] \in SUBSET Packs
  BY CarriesType DEF Packsets
<1>4. new = [l \in Levels |-> IF merged(l) THEN {} ELSE levels[l] \cup carry[l]]
  BY DEF Compacted
<1>5. Uploads(levels, p, fanout) = UNION {carry[l] : l \in Levels}
  BY DEF Uploads
<1> HIDE DEF carry, new
<1>6. new \in [Levels -> SUBSET Packs]
  BY <1>3, <1>4 DEF Packsets
<1>7. UNION {carry[l] : l \in Levels} \subseteq Packs
  BY <1>3
<1>8. PacksIn(new) \subseteq PacksIn(levels) \cup UNION {carry[l] : l \in Levels}
  <2> SUFFICES ASSUME NEW q, NEW l \in Levels, q \in new[l]
               PROVE  q \in PacksIn(levels) \cup UNION {carry[k] : k \in Levels}
    BY DEF PacksIn
  <2>1. q \in levels[l] \cup carry[l]
    BY <1>4
  <2> QED
    BY <2>1 DEF PacksIn
<1>9. ASSUME NEW x, NEW l0 \in Levels, x \in UNION (levels[l0] \cup carry[l0])
      PROVE  x \in UNION PacksIn(new)
  <2> DEFINE T == {l \in Levels : x \in UNION (levels[l] \cup carry[l])}
  <2>1. T \in SUBSET Levels /\ T # {}
    BY <1>9
  <2>2. PICK m \in T : \A n \in T : n <= m
    <3> HIDE DEF T
    <3> QED
      BY <2>1, HighestLevel
  <2>3. ~ merged(m)
    <3> SUFFICES ASSUME merged(m) PROVE FALSE
      OBVIOUS
    <3>1. m + 1 \in Levels /\ m + 1 # 0 /\ (m + 1) - 1 = m
      BY <1>1
    <3>2. carry[m + 1] = {UNION (levels[m] \cup carry[m])}
      BY <1>2, <3>1 DEF CarryStep
    <3>3. m + 1 \in T
      BY <3>1, <3>2
    <3> QED
      BY <1>1, <2>2, <3>3
  <2>4. new[m] = levels[m] \cup carry[m]
    BY <1>4, <2>3
  <2> QED
    BY <2>2, <2>4 DEF PacksIn
<1>10. p \cup UNION PacksIn(levels) \subseteq UNION PacksIn(new)
  <2>1. 0 \in Levels /\ carry[0] = {p}
    <3>1. 0 \in Levels
      BY <1>1
    <3> QED
      BY <1>2, <3>1 DEF CarryStep
  <2>2. \A x \in p : x \in UNION (levels[0] \cup carry[0])
    BY <2>1
  <2>3. \A x \in UNION PacksIn(levels) : \E l \in Levels : x \in UNION (levels[l] \cup carry[l])
    BY DEF PacksIn
  <2> QED
    BY <1>9, <2>1, <2>2, <2>3
<1> QED
  BY <1>5, <1>6, <1>7, <1>8, <1>10 DEF new, Packsets

-----------------------------------------------------------------------------
(* The HEADs that commands publish. *)

(* The fields of a HEAD object. *)
LEMMA HeadFacts ==
    ASSUME NEW h \in HeadObject
    PROVE  /\ h.pub \in Id /\ h.state \in Id /\ h.levels \in [Levels -> SUBSET Packs]
           /\ h.floor \in 0..Tip /\ h.log \in Seq(Record) /\ h.barrier \in Id \cup {None}
           /\ Len(h.log) \in Nat
           /\ \A i \in 1..Len(h.log) : /\ h.log[i] \in Record /\ h.log[i].id \in Id
                                       /\ h.log[i].tip \in 0..Tip /\ h.log[i].objs \in Packs
           /\ BranchOf(h) \in 0..Tip /\ BranchOf(h) = TipAt(h, Len(h.log))
           /\ \A i \in 0..Len(h.log) : TipAt(h, i) \in 0..Tip
<1>1. /\ h.pub \in Id /\ h.state \in Id /\ h.levels \in [Levels -> SUBSET Packs]
      /\ h.floor \in 0..Tip /\ h.log \in Seq(Record) /\ h.barrier \in Id \cup {None}
  BY DEF HeadObject
<1>2. Len(h.log) \in Nat /\ \A i \in 1..Len(h.log) : h.log[i] \in Record
  BY <1>1
<1>3. \A i \in 1..Len(h.log) : h.log[i].id \in Id /\ h.log[i].tip \in 0..Tip /\ h.log[i].objs \in Packs
  BY <1>2 DEF Record
<1>4. BranchOf(h) \in 0..Tip /\ BranchOf(h) = TipAt(h, Len(h.log))
  <2>1. h.log = << >> <=> Len(h.log) = 0
    BY <1>1
  <2> QED
    BY <1>1, <1>2, <1>3, <2>1 DEF BranchOf, TipAt
<1>5. \A i \in 0..Len(h.log) : TipAt(h, i) \in 0..Tip
  BY <1>1, <1>2, <1>3 DEF TipAt
<1> QED
  BY <1>1, <1>2, <1>3, <1>4, <1>5

(* What HEAD reaches are keys of immutable objects. *)
LEMMA LiveKeysType ==
    ASSUME NEW h \in HeadObject
    PROVE  /\ LiveKeys(h) \subseteq Key
           /\ h.barrier # None => PlanKey(h.barrier) \in LiveKeys(h)
<1>1. StateKey(h.state) \in Key
  BY HeadFacts DEF StateKey, Key
<1>2. \A p \in LivePacks(h) : PackKey(p) \in Key
  BY HeadFacts DEF LivePacks, PackKey, Key
<1>3. \A t \in Records(h) : LogKey(t.id) \in Key
  BY HeadFacts DEF Records, LogKey, Key
<1>4. h.barrier # None => PlanKey(h.barrier) \in Key
  BY HeadFacts DEF PlanKey, Key
<1> QED
  BY <1>1, <1>2, <1>3, <1>4 DEF LiveKeys

(* The objects that a push transfers are commits. *)
LEMMA CreatePackType ==
    ASSUME NEW v \in 0..Tip, NEW w \in 0..Tip
    PROVE  CreatePack(v, w) \in Packs
  BY TipAssumption DEF CreatePack, Packs, Commits

(* Push's candidate: HEAD with one record more. *)
LEMMA PushHeadFacts ==
    ASSUME NEW h \in HeadObject, NEW id \in Id, NEW v \in 0..Tip
    PROVE  /\ PushHead(h, id, v) \in HeadObject
           /\ PushHead(h, id, v).pub = id /\ PushHead(h, id, v).barrier = h.barrier
           /\ LiveKeys(PushHead(h, id, v)) = LiveKeys(h) \cup {LogKey(id)}
           /\ Covered(h) => Covered(PushHead(h, id, v))
<1> DEFINE t == PushRecord(h, id, v)
           k == PushHead(h, id, v)
           n == Len(h.log)
<1>1. t \in Record /\ t.id = id /\ t.tip = v /\ t.objs = (BranchOf(h) + 1)..v
  <2>1. CreatePack(v, BranchOf(h)) \in Packs
    BY HeadFacts, CreatePackType
  <2> QED
    BY <2>1 DEF PushRecord, Record, CreatePack
<1> HIDE DEF t
<1>2. k = [h EXCEPT !.pub = id, !.log = Append(h.log, t)]
  BY DEF PushHead, t
<1>3. /\ Append(h.log, t) \in Seq(Record) /\ Len(Append(h.log, t)) = n + 1
      /\ \A i \in 1..n : Append(h.log, t)[i] = h.log[i]
      /\ Append(h.log, t)[n + 1] = t
  BY <1>1, HeadFacts, AppendProperties
<1>4. /\ k \in HeadObject /\ k.pub = id /\ k.state = h.state /\ k.levels = h.levels
      /\ k.floor = h.floor /\ k.log = Append(h.log, t) /\ k.barrier = h.barrier
  BY <1>2, <1>3 DEF HeadObject
<1> HIDE DEF k
<1>5. n \in Nat
  BY HeadFacts
<1> HIDE DEF n
<1>6. Records(k) = Records(h) \cup {t}
  <2>1. \A i \in 1..(n + 1) : k.log[i] \in Records(h) \cup {t}
    BY <1>3, <1>4, <1>5 DEF Records, n
  <2>2. \A i \in 1..n : h.log[i] \in Records(k)
    BY <1>3, <1>4, <1>5 DEF Records
  <2>3. t \in Records(k)
    BY <1>3, <1>4, <1>5 DEF Records
  <2> QED
    BY <1>3, <1>4, <2>1, <2>2, <2>3 DEF Records, n
<1>7. LivePacks(k) = LivePacks(h)
  BY <1>4 DEF LivePacks
<1>8. LiveKeys(k) = LiveKeys(h) \cup {LogKey(id)}
  BY <1>1, <1>4, <1>6, <1>7 DEF LiveKeys
<1>9. ASSUME Covered(h)
      PROVE  Covered(k)
  <2>1. 1..k.floor \subseteq UNION LivePacks(k)
    BY <1>4, <1>7, <1>9 DEF Covered
  <2>2. /\ \A i \in 0..n : TipAt(k, i) = TipAt(h, i)
        /\ TipAt(k, n + 1) = v
    BY <1>1, <1>3, <1>4, <1>5 DEF TipAt
  <2>3. \A i \in 0..n : TipAt(h, i) \in Nat
    BY HeadFacts, TipAssumption DEF n
  <2>4. ASSUME NEW i \in 0..(n + 1), NEW j \in 0..(n + 1), i < j,
               NEW x \in (TipAt(k, i) + 1)..TipAt(k, j)
        PROVE  \E l \in (i + 1)..j : x \in k.log[l].objs
    <3>1. CASE j \in 0..n
      <4>1. x \in (TipAt(h, i) + 1)..TipAt(h, j) /\ i \in 0..n
        BY <1>5, <2>2, <2>4, <3>1
      <4>2. PICK l \in (i + 1)..j : x \in h.log[l].objs
        BY <1>9, <2>4, <3>1, <4>1 DEF Covered, n
      <4> QED
        BY <1>3, <1>4, <1>5, <3>1, <4>1, <4>2
    <3>2. CASE j = n + 1
      <4>1. i \in 0..n /\ x \in (TipAt(h, i) + 1)..v
        BY <1>5, <2>2, <2>4, <3>2
      <4>2. BranchOf(h) = TipAt(h, n) /\ TipAt(h, n) \in Nat /\ TipAt(h, i) \in Nat
        BY <1>5, <2>3, <4>1, HeadFacts DEF n
      <4>3. CASE x <= TipAt(h, n)
        <5>1. x \in (TipAt(h, i) + 1)..TipAt(h, n)
          BY <4>1, <4>2, <4>3
        <5>2. i < n
          BY <1>5, <4>1, <4>2, <5>1
        <5>3. PICK l \in (i + 1)..n : x \in h.log[l].objs
          BY <1>5, <1>9, <4>1, <5>1, <5>2, SMTT(60) DEF Covered, n
        <5> QED
          BY <1>3, <1>4, <1>5, <3>2, <4>1, <5>3
      <4>4. CASE ~ (x <= TipAt(h, n))
        <5>1. x \in t.objs
          BY <1>1, <4>1, <4>2, <4>4
        <5> QED
          BY <1>3, <1>4, <1>5, <3>2, <4>1, <5>1
      <4> QED
        BY <4>3, <4>4
    <3> QED
      BY <1>5, <3>1, <3>2
  <2> QED
    BY <1>3, <1>4, <2>1, <2>4, SMTT(60) DEF Covered
<1> QED
  BY <1>4, <1>8, <1>9 DEF k

(* Maintenance's candidate: HEAD whose first i records are in packs. *)
LEMMA MaintenanceHeadFacts ==
    ASSUME NEW h \in HeadObject, NEW id \in Id, NEW i \in 1..Len(h.log), NEW fanout \in Nat
    PROVE  LET p == CreatePack(h.log[i].tip, h.floor)
               k == MaintenanceHead(h, id, i, p, fanout)
               puts == {PackKey(q) : q \in Uploads(h.levels, p, fanout)}
           IN  /\ k \in HeadObject /\ k.pub = id /\ k.barrier = h.barrier
               /\ puts \subseteq {"pack"} \X Packs
               /\ LiveKeys(k) \subseteq LiveKeys(h) \cup puts \cup {StateKey(id)}
               /\ Covered(h) => Covered(k)
<1> DEFINE np == CreatePack(h.log[i].tip, h.floor)
           k == MaintenanceHead(h, id, i, np, fanout)
           puts == {PackKey(q) : q \in Uploads(h.levels, np, fanout)}
           n == Len(h.log)
           rest == SubSeq(h.log, i + 1, n)
           new == Compacted(h.levels, np, fanout)
<1>1. /\ n \in Nat /\ i \in 1..n /\ h.log[i].tip \in 0..Tip /\ h.floor \in 0..Tip
      /\ h.levels \in [Levels -> SUBSET Packs]
  BY HeadFacts
<1>2. np \in Packs /\ np = (h.floor + 1)..h.log[i].tip
  BY <1>1, CreatePackType DEF CreatePack
<1> HIDE DEF np
<1>3. /\ new \in [Levels -> SUBSET Packs]
      /\ Uploads(h.levels, np, fanout) \subseteq Packs
      /\ PacksIn(new) \subseteq PacksIn(h.levels) \cup Uploads(h.levels, np, fanout)
      /\ np \cup UNION PacksIn(h.levels) \subseteq UNION PacksIn(new)
  <2>1. h.levels \in Packsets
    BY <1>1 DEF Packsets
  <2>2. np \in Packs
    BY <1>2
  <2>3. /\ Compacted(h.levels, np, fanout) \in Packsets
        /\ Uploads(h.levels, np, fanout) \subseteq Packs
        /\ PacksIn(Compacted(h.levels, np, fanout))
             \subseteq PacksIn(h.levels) \cup Uploads(h.levels, np, fanout)
        /\ np \cup UNION PacksIn(h.levels) \subseteq UNION PacksIn(Compacted(h.levels, np, fanout))
    BY <2>1, <2>2, CompactedFacts, Zenon
  <2> QED
    BY <2>3 DEF Packsets
<1>4. /\ rest \in Seq(Record) /\ Len(rest) = n - i
      /\ \A j \in 1..(n - i) : rest[j] = h.log[i + j]
  <2>1. \A j \in (i + 1)..n : h.log[j] \in Record
    BY <1>1, HeadFacts
  <2>2. /\ rest \in Seq(Record)
        /\ Len(rest) = IF i + 1 <= n THEN n - (i + 1) + 1 ELSE 0
        /\ \A j \in 1..(n - (i + 1) + 1) : rest[j] = h.log[i + 1 + j - 1]
    <3>1. i + 1 \in Int /\ n \in Int
      BY <1>1
    <3> HIDE DEF n
    <3> QED
      BY <2>1, <3>1, SubSeqProperties
  <2> HIDE DEF rest, n
  <2>3. \A j \in 1..(n - i) : j \in 1..(n - (i + 1) + 1) /\ i + 1 + j - 1 = i + j
    BY <1>1
  <2> QED
    BY <1>1, <2>2, <2>3
<1> HIDE DEF new, rest, n
<1>5. k = [h EXCEPT !.pub = id, !.state = id, !.floor = h.log[i].tip, !.log = rest, !.levels = new]
  BY DEF MaintenanceHead, new, rest, n
<1>6. /\ k \in HeadObject /\ k.pub = id /\ k.state = id /\ k.levels = new
      /\ k.floor = h.log[i].tip /\ k.log = rest /\ k.barrier = h.barrier
  BY <1>1, <1>3, <1>4, <1>5 DEF HeadObject
<1> HIDE DEF k
<1>7. Records(k) \subseteq Records(h)
  <2>1. \A j \in 1..(n - i) : h.log[i + j] \in Records(h)
    <3>1. \A j \in 1..(n - i) : i + j \in 1..n
      BY <1>1
    <3> QED
      BY <3>1 DEF Records, n
  <2>2. Records(k) = {rest[j] : j \in 1..(n - i)}
    BY <1>4, <1>6 DEF Records
  <2> QED
    BY <1>4, <2>1, <2>2
<1>8. LivePacks(k) = PacksIn(new) /\ LivePacks(h) = PacksIn(h.levels)
  BY <1>6 DEF LivePacks, PacksIn
<1>9. puts \subseteq {"pack"} \X Packs
  BY <1>3 DEF PackKey
<1>10. \A q \in LivePacks(k) : PackKey(q) \in {PackKey(l) : l \in LivePacks(h)} \cup puts
  BY <1>3, <1>8
<1>11. LiveKeys(k) \subseteq LiveKeys(h) \cup puts \cup {StateKey(id)}
  BY <1>6, <1>7, <1>10 DEF LiveKeys
<1>12. ASSUME Covered(h)
       PROVE  Covered(k)
  <2>1. \A j \in 0..n : TipAt(h, j) \in Nat
    BY HeadFacts, TipAssumption DEF n
  <2>2. \A j \in 0..(n - i) : TipAt(k, j) = TipAt(h, i + j) /\ i + j \in 0..n
    BY <1>1, <1>4, <1>6, SMTT(60) DEF TipAt
  <2>3. 1..k.floor \subseteq UNION LivePacks(k)
    <3>1. h.floor \in Nat /\ h.log[i].tip \in Nat
      BY <1>1, TipAssumption
    <3>2. 1..h.log[i].tip \subseteq (1..h.floor) \cup np
      BY <1>2, <3>1
    <3> QED
      BY <1>3, <1>6, <1>8, <1>12, <3>2 DEF Covered
  <2>4. ASSUME NEW a \in 0..(n - i), NEW b \in 0..(n - i), a < b,
               NEW x \in (TipAt(k, a) + 1)..TipAt(k, b)
        PROVE  \E l \in (a + 1)..b : x \in k.log[l].objs
    <3>1. /\ i + a \in 0..n /\ i + b \in 0..n /\ i + a < i + b
          /\ x \in (TipAt(h, i + a) + 1)..TipAt(h, i + b)
      BY <1>1, <2>2, <2>4
    <3>2. PICK l \in (i + a + 1)..(i + b) : x \in h.log[l].objs
      BY <1>12, <3>1 DEF Covered, n
    <3>3. l - i \in (a + 1)..b /\ l - i \in 1..(n - i) /\ i + (l - i) = l
      BY <1>1, <2>4, <3>2
    <3>4. k.log[l - i] = h.log[l]
      BY <1>4, <1>6, <3>3
    <3> QED
      BY <3>2, <3>3, <3>4
  <2> QED
    BY <1>4, <1>6, <2>3, <2>4 DEF Covered
<1> QED
  BY <1>6, <1>9, <1>11, <1>12 DEF k, np

(* A candidate that sets or clears the barrier. *)
BarrierHead(h, id, b) == [h EXCEPT !.pub = id, !.barrier = b]

(* It reaches what HEAD reaches, and the plan. *)
LEMMA BarrierHeadFacts ==
    ASSUME NEW h \in HeadObject, NEW id \in Id, NEW b \in Id \cup {None}
    PROVE  LET k == BarrierHead(h, id, b)
           IN  /\ k \in HeadObject /\ k.pub = id /\ k.barrier = b
               /\ LiveKeys(k) \subseteq LiveKeys(h) \cup (IF b = None THEN {} ELSE {PlanKey(b)})
               /\ Covered(h) => Covered(k)
<1> DEFINE k == [h EXCEPT !.pub = id, !.barrier = b]
<1>1. /\ k \in HeadObject /\ k.pub = id /\ k.state = h.state /\ k.levels = h.levels
      /\ k.floor = h.floor /\ k.log = h.log /\ k.barrier = b
  BY DEF HeadObject
<1> HIDE DEF k
<1>2. Records(k) = Records(h) /\ LivePacks(k) = LivePacks(h)
  BY <1>1 DEF Records, LivePacks
<1>3. LiveKeys(k) \subseteq LiveKeys(h) \cup (IF b = None THEN {} ELSE {PlanKey(b)})
  BY <1>1, <1>2 DEF LiveKeys
<1>4. Covered(h) => Covered(k)
  BY <1>1, <1>2 DEF Covered, TipAt
<1> QED
  BY <1>1, <1>3, <1>4 DEF k, BarrierHead

(* The HEAD of initialize. *)
LEMMA InitialHeadFacts ==
    /\ InitialHead \in HeadObject /\ InitialHead.pub = Genesis /\ InitialHead.barrier = None
    /\ LiveKeys(InitialHead) = {StateKey(Genesis), LogKey(Genesis)}
    /\ Covered(InitialHead)
<1> DEFINE t == [id |-> Genesis, tip |-> 1, objs |-> {1}]
           k == InitialHead
<1>1. t \in Record /\ t.id = Genesis /\ t.tip = 1 /\ t.objs = {1}
  BY TipAssumption DEF Record, Id, Packs, Commits
<1> HIDE DEF t
<1>2. /\ k.pub = Genesis /\ k.state = Genesis /\ k.levels = [l \in Levels |-> {}] /\ k.floor = 0
      /\ k.log = <<t>> /\ k.barrier = None
  BY DEF InitialHead, t
<1>3. k \in HeadObject
  <2>1. /\ <<t>> \in Seq(Record) /\ [l \in Levels |-> {}] \in [Levels -> SUBSET Packs]
        /\ 0 \in 0..Tip /\ Genesis \in Id
    BY <1>1, TipAssumption DEF Id
  <2> QED
    BY <2>1 DEF InitialHead, HeadObject, t
<1> HIDE DEF k
<1>4. Len(k.log) = 1 /\ k.log[1] = t
  BY <1>2
<1>5. Records(k) = {t} /\ LivePacks(k) = {}
  BY <1>2, <1>4 DEF Records, LivePacks
<1>6. LiveKeys(k) = {StateKey(Genesis), LogKey(Genesis)}
  BY <1>1, <1>2, <1>5 DEF LiveKeys
<1>7. Covered(k)
  BY <1>1, <1>2, <1>4 DEF Covered, TipAt
<1> QED
  BY <1>2, <1>3, <1>6, <1>7 DEF k

(* A HEAD that is covered from every record on is covered. *)
LEMMA CoveredBranch ==
    ASSUME NEW h \in HeadObject, Covered(h)
    PROVE  1..BranchOf(h) \subseteq (UNION LivePacks(h)) \cup UNION {t.objs : t \in Records(h)}
<1> SUFFICES ASSUME NEW x \in 1..BranchOf(h), x \notin UNION LivePacks(h)
             PROVE  x \in UNION {t.objs : t \in Records(h)}
  OBVIOUS
<1> DEFINE n == Len(h.log)
<1>1. n \in Nat /\ h.floor \in Nat /\ BranchOf(h) = TipAt(h, n) /\ TipAt(h, n) \in Nat
  BY HeadFacts, TipAssumption
<1>2. x > h.floor
  BY <1>1 DEF Covered
<1>3. n # 0
  BY <1>1, <1>2 DEF TipAt
<1>4. x \in (TipAt(h, 0) + 1)..TipAt(h, n)
  BY <1>1, <1>2 DEF TipAt
<1>5. PICK l \in (0 + 1)..n : x \in h.log[l].objs
  BY <1>1, <1>3, <1>4 DEF Covered
<1> QED
  BY <1>5 DEF Records

-----------------------------------------------------------------------------
(* Processes and names. *)

(* The fields of a process. *)
LEMMA WorkerFacts ==
    ASSUME TypeOK, NEW c \in Workers
    PROVE  /\ worker[c] \in WorkerState
           /\ worker[c].phase \in Phases /\ worker[c].n \in Nat
           /\ worker[c].pin \in HeadObject /\ worker[c].cand \in HeadObject
           /\ worker[c].puts \in SUBSET Key /\ worker[c].plan \in Id \cup {None}
           /\ worker[c].todo \in SUBSET Key /\ worker[c].lenient \in BOOLEAN
  BY DEF TypeOK, WorkerState

(* A process that is in no command. *)
LEMMA RestFacts ==
    ASSUME TypeOK, NEW c \in Workers
    PROVE  /\ Rest(c) \in WorkerState
           /\ Rest(c).phase = "idle" /\ Rest(c).n = worker[c].n
           /\ Rest(c).pin = InitialHead /\ Rest(c).cand = InitialHead /\ Rest(c).puts = {}
           /\ Rest(c).plan = None /\ Rest(c).todo = {} /\ Rest(c).lenient = FALSE
<1>1. "idle" \in Phases /\ worker[c].n \in Nat
  BY WorkerFacts DEF Phases
<1> QED
  BY <1>1, InitialHeadFacts DEF Rest, Idle, WorkerState

(* Names drawn stay drawn, and the next one of a process is new. *)
LEMMA NameFacts ==
    ASSUME TypeOK, NEW c \in Workers
    PROVE  /\ Issued \subseteq Id /\ Genesis \in Issued
           /\ Name(c) \in Issued /\ Name(c) \in Id
           /\ NextId(c) \in Id /\ NextId(c) \notin Issued
           /\ \A d \in Workers : Name(c) = Name(d) => c = d
<1>1. worker[c].n \in Nat /\ \A d \in Workers : worker[d].n \in Nat
  BY WorkerFacts
<1>2. NextId(c) \in Workers \X Nat /\ NextId(c)[1] = c /\ NextId(c)[2] = worker[c].n + 1
  BY <1>1 DEF NextId
<1>3. Name(c) \in Workers \X Nat /\ Name(c)[1] = c /\ Name(c)[2] = worker[c].n
  BY <1>1 DEF Name
<1>4. NextId(c) # Genesis
  BY <1>2, NameAssumption
<1>5. NextId(c) \notin Issued
  BY <1>1, <1>2, <1>4 DEF Issued
<1>6. Name(c) \in Issued
  BY <1>1, <1>3 DEF Issued
<1>7. Issued \subseteq Id /\ Genesis \in Issued
  BY DEF Issued, Id
<1>8. \A d \in Workers : Name(c) = Name(d) => c = d
  BY DEF Name
<1>9. NextId(c) \in Id
  BY <1>2 DEF Id
<1> QED
  BY <1>5, <1>6, <1>7, <1>8, <1>9

(* As a process draws names, more names and keys are issued. *)
LEMMA IssuedGrows ==
    ASSUME TypeOK, NEW c \in Workers, NEW x \in WorkerState, x.n >= worker[c].n,
           worker' = [worker EXCEPT ![c] = x]
    PROVE  Issued \subseteq Issued' /\ IssuedKeys \subseteq IssuedKeys'
<1>1. /\ worker'[c].n >= worker[c].n
      /\ \A d \in Workers : d # c => worker'[d] = worker[d]
  BY DEF TypeOK
<1>2. \A d \in Workers : worker[d].n \in Nat /\ worker'[d].n \in Nat /\ worker'[d].n >= worker[d].n
  <2>1. x.n \in Nat
    BY DEF WorkerState
  <2> QED
    BY <1>1, <2>1, WorkerFacts DEF TypeOK
<1>3. \A d \in Workers : \A m \in Nat : m <= worker[d].n => m <= worker'[d].n
  BY <1>2
<1>4. \A id \in Workers \X Nat : id[1] \in Workers /\ id[2] \in Nat
  OBVIOUS
<1>5. Issued \subseteq Issued'
  BY <1>3, <1>4 DEF Issued
<1> QED
  BY <1>5 DEF IssuedKeys

(* The keys of issued names. *)
LEMMA IssuedKeyFacts ==
    ASSUME NEW id
    PROVE  /\ LogKey(id) \in IssuedKeys <=> id \in Issued
           /\ StateKey(id) \in IssuedKeys <=> id \in Issued
           /\ PlanKey(id) \in IssuedKeys <=> id \in Issued
           /\ {"pack"} \X Packs \subseteq IssuedKeys
           /\ \A p : PackKey(p)[1] = "pack" /\ PackKey(p)[1] # "plan"
           /\ LogKey(id)[1] = "log" /\ StateKey(id)[1] = "state"
           /\ PlanKey(id)[1] = "plan" /\ PlanKey(id)[2] = id
           /\ "log" # "plan" /\ "state" # "plan" /\ "pack" # "plan" /\ "pack" # "log"
  BY DEF LogKey, StateKey, PlanKey, PackKey, IssuedKeys

-----------------------------------------------------------------------------
(* Steps of one process that leave HEAD, plans and requests alone. *)

(* When nobody works on HEAD's plan and no request is late, no publisher   *)
(* that can still succeed changes the barrier.                             *)
LEMMA NobodyClears ==
    ASSUME CollectInv, head.barrier # None, \A d \in Workers : worker[d].plan # head.barrier,
           NEW d \in Workers, worker[d].phase \in {"uploading", "publishing"},
           worker[d].pin.pub = head.pub
    PROVE  worker[d].cand.barrier = head.barrier
<1>1. worker[d].pin = head
  BY DEF CollectInv, HeadInv
<1>2. CASE worker[d].phase = "uploading"
  BY <1>1, <1>2 DEF CollectInv, PlanInv
<1>3. CASE worker[d].phase = "publishing"
  BY <1>1, <1>3 DEF CollectInv, PlanInv
<1> QED
  BY <1>2, <1>3

(* What process c may become, for the invariant to stay. *)
Fits(c, x) ==
    /\ x.n >= worker[c].n
    /\ \/ x.phase = "idle" /\ x.pin = InitialHead
       \/ x.pin = head
       \/ worker[c].phase # "idle" /\ x.pin = worker[c].pin
    /\ Announces(x.cand) /\ Covered(x.cand)
    /\ \A k \in x.puts : k[1] # "plan"
    /\ x.phase \in {"uploading", "listing", "publishing"} =>
         <<c, x.n>> \notin Based \cup {r.head.pub : r \in late}
    /\ \/ x.phase \notin {"uploading", "publishing"}
       \/ x.phase = "uploading" /\ x.cand = x.pin
       \/ x.cand.pub = <<c, x.n>>
    /\ x.phase \in {"uploading", "publishing"} /\ x.pin.pub = head.pub =>
         LiveKeys(x.cand) \subseteq stored' \cup x.puts
    /\ x.phase \in {"uploading", "publishing"} /\ x.pin.pub = head.pub /\ head.barrier # None =>
         /\ plans[head.barrier] \cap LiveKeys(x.cand) = {}
         /\ x.cand.barrier # head.barrier => Unworked'
    /\ x.phase # "uploading" => x.puts = {}
    /\ x.plan = None \/ x.plan = worker[c].plan \/
         (x.plan \in DOMAIN plans /\ \A d \in Workers : worker[d].plan # x.plan)
    /\ x.phase = "listing" => <<c, x.n>> \notin DOMAIN plans /\ x.pin.barrier = None
    /\ x.phase = "rereading" => x.plan # None
    /\ x.phase = "deleting" =>
         /\ x.plan # None /\ x.plan = head.barrier
         /\ x.plan = x.pin.barrier /\ x.todo \subseteq plans[head.barrier]
    /\ x.phase = "publishing" => x.pin.barrier \in {None, x.cand.barrier, x.plan}
    /\ x.phase = "uploading" => x.cand.barrier = x.pin.barrier
    /\ strays # {} => x.plan # head.barrier

(* Such a step keeps the invariant, if it does not start a deletion behind *)
(* the back of a publisher that clears the barrier.                        *)
LEMMA LocalStep ==
    ASSUME CollectInv, NEW c \in Workers, NEW x \in WorkerState, Fits(c, x),
           worker' = [worker EXCEPT ![c] = x],
           UNCHANGED <<head, plans, late, strays>>, faults' \in Nat,
           stored \subseteq stored', stored' \subseteq stored \cup worker[c].puts,
           x.puts \subseteq IssuedKeys',
           \/ Unworked => Unworked'
           \/ late = {} /\ \A d \in Workers : worker[d].plan # head.barrier
    PROVE  CollectInv'
<1>1. /\ worker'[c] = x /\ worker' \in [Workers -> WorkerState]
      /\ \A d \in Workers : d # c => worker'[d] = worker[d]
  BY DEF CollectInv, TypeOK
<1>2. Issued \subseteq Issued' /\ IssuedKeys \subseteq IssuedKeys'
  BY IssuedGrows DEF CollectInv, Fits
<1>3. Based' \subseteq Based
  <2>1. x.pin.pub \in Based
    BY InitialHeadFacts DEF Fits, Based
  <2>2. \A d \in Workers : worker'[d].pin.pub \in Based
    BY <1>1, <2>1 DEF Based
  <2> QED
    BY <2>2 DEF Based
<1>4. Name(c)' = <<c, x.n>> /\ \A d \in Workers : d # c => Name(d)' = Name(d)
  BY <1>1 DEF Name
<1>5. TypeOK'
  <2>1. stored' \subseteq Key
    BY WorkerFacts DEF CollectInv, TypeOK
  <2> QED
    BY <1>1, <2>1 DEF CollectInv, TypeOK
<1>6. NameInv'
  <2>1. stored' \subseteq IssuedKeys'
    BY <1>2 DEF CollectInv, NameInv
  <2>2. \A d \in Workers : worker'[d].puts \subseteq IssuedKeys'
    BY <1>1, <1>2 DEF CollectInv, NameInv
  <2>3. Based' \subseteq Issued'
    BY <1>2, <1>3 DEF CollectInv, NameInv
  <2>4. DOMAIN plans' \subseteq Issued' /\ \A i \in DOMAIN plans' : plans'[i] \subseteq IssuedKeys'
    BY <1>2 DEF CollectInv, NameInv
  <2>5. ASSUME NEW d \in Workers, worker'[d].phase \in {"uploading", "listing", "publishing"}
        PROVE  Name(d)' \notin Based' \cup {r.head.pub : r \in late'}
    <3>1. CASE d = c
      BY <1>1, <1>3, <1>4, <2>5, <3>1 DEF Fits
    <3>2. CASE d # c
      BY <1>1, <1>3, <1>4, <2>5, <3>2 DEF CollectInv, NameInv
    <3> QED
      BY <3>1, <3>2
  <2>6. ASSUME NEW d \in Workers
        PROVE  \/ worker'[d].phase \notin {"uploading", "publishing"}
               \/ worker'[d].phase = "uploading" /\ worker'[d].cand = worker'[d].pin
               \/ worker'[d].cand.pub = Name(d)'
    <3>1. CASE d = c
      BY <1>1, <1>4, <3>1 DEF Fits
    <3>2. CASE d # c
      BY <1>1, <1>4, <3>2 DEF CollectInv, NameInv
    <3> QED
      BY <3>1, <3>2
  <2>7. \A r \in late' : r.head.pub \in Issued' \ Based'
    BY <1>2, <1>3 DEF CollectInv, NameInv
  <2>8. \A r, s \in late' : r.head.pub = s.head.pub => r = s
    BY DEF CollectInv, NameInv
  <2> QED
    BY <2>1, <2>2, <2>3, <2>4, <2>5, <2>6, <2>7, <2>8 DEF NameInv
<1>7. HeadInv'
  <2>1. LiveKeys(head') \subseteq stored'
    BY DEF CollectInv, HeadInv
  <2>2. ASSUME NEW h PROVE Announces(h)' <=> Announces(h)
    BY DEF Announces
  <2>3. Announces(x.pin) /\ Announces(x.cand)
    BY InitialHeadFacts DEF Fits, CollectInv, HeadInv, Announces
  <2>4. ASSUME NEW h, NEW puts, Succeeds(h, puts),
               late = {} /\ (\A d \in Workers : worker[d].plan # head.barrier) /\ head.barrier # None
                 => h.barrier = head.barrier
        PROVE  Succeeds(h, puts)'
    BY <2>4 DEF Succeeds
  <2>5. ASSUME NEW d \in Workers
        PROVE  /\ Announces(worker[d].pin)' /\ Announces(worker[d].cand)'
               /\ worker'[d].phase # "idle" /\ worker'[d].pin.pub = head'.pub => worker'[d].pin = head'
               /\ worker'[d].phase \in {"uploading", "publishing"} /\ worker'[d].pin.pub = head'.pub =>
                    Succeeds(worker[d].cand, worker[d].puts)'
               /\ worker'[d].phase # "uploading" => worker'[d].puts = {}
    <3>1. CASE d = c
      <4>1. Announces(worker[d].pin)' /\ Announces(worker[d].cand)'
        BY <1>1, <2>3, <3>1 DEF Announces
      <4>2. x.phase # "idle" /\ x.pin.pub = head.pub => x.pin = head
        BY DEF Fits, CollectInv, HeadInv
      <4>3. x.phase \in {"uploading", "publishing"} /\ x.pin.pub = head.pub =>
              Succeeds(worker[d].cand, worker[d].puts)'
        BY <1>1, <3>1 DEF Fits, Succeeds
      <4>4. x.phase # "uploading" => x.puts = {}
        BY DEF Fits
      <4> QED
        BY <1>1, <3>1, <4>1, <4>2, <4>3, <4>4
    <3>2. CASE d # c
      <4>1. Announces(worker[d].pin)' /\ Announces(worker[d].cand)'
        BY <1>1, <3>2 DEF Announces, CollectInv, HeadInv
      <4>2. /\ worker[d].phase # "idle" /\ worker[d].pin.pub = head.pub => worker[d].pin = head
            /\ worker[d].phase # "uploading" => worker[d].puts = {}
        BY DEF CollectInv, HeadInv
      <4>3. ASSUME worker[d].phase \in {"uploading", "publishing"}, worker[d].pin.pub = head.pub
            PROVE  Succeeds(worker[d].cand, worker[d].puts)'
        <5>1. Succeeds(worker[d].cand, worker[d].puts)
          BY <4>3 DEF CollectInv, HeadInv
        <5>2. (\A e \in Workers : worker[e].plan # head.barrier) /\ head.barrier # None
                => worker[d].cand.barrier = head.barrier
          BY <4>3, NobodyClears
        <5> QED
          BY <1>1, <3>2, <5>1, <5>2 DEF Succeeds
      <4> QED
        BY <1>1, <3>2, <4>1, <4>2, <4>3
    <3> QED
      BY <3>1, <3>2
  <2>6. \A r \in late : Announces(r.head)' /\ (r.match = head.pub => Succeeds(r.head, {})')
    BY <2>2, <2>4 DEF CollectInv, HeadInv
  <2>7. Announces(head)'
    BY DEF Announces, CollectInv, HeadInv
  <2> QED
    BY <2>1, <2>5, <2>6, <2>7 DEF HeadInv
<1>8. PlanInv'
  <2>1. \A k \in stored' : k[1] = "plan" => k[2] \in DOMAIN plans'
    BY DEF CollectInv, PlanInv
  <2>2. ASSUME NEW d \in Workers
        PROVE  /\ \A k \in worker'[d].puts : k[1] # "plan"
               /\ worker'[d].plan # None => worker'[d].plan \in DOMAIN plans'
               /\ worker'[d].phase = "listing" => Name(d)' \notin DOMAIN plans' /\ worker'[d].pin.barrier = None
               /\ worker'[d].phase = "rereading" => worker'[d].plan # None
               /\ worker'[d].phase = "deleting" =>
                    /\ worker'[d].plan # None /\ worker'[d].plan = head'.barrier
                    /\ worker'[d].plan = worker'[d].pin.barrier
                    /\ worker'[d].todo \subseteq plans'[head'.barrier]
               /\ worker'[d].phase = "publishing" =>
                    worker'[d].pin.barrier \in {None, worker'[d].cand.barrier, worker'[d].plan}
               /\ worker'[d].phase = "uploading" => worker'[d].cand.barrier = worker'[d].pin.barrier
    <3>1. CASE d = c
      BY <1>1, <1>4, <3>1 DEF Fits, CollectInv, PlanInv
    <3>2. CASE d # c
      BY <1>1, <1>4, <3>2 DEF CollectInv, PlanInv
    <3> QED
      BY <3>1, <3>2
  <2>3. ASSUME NEW d \in Workers, NEW e \in Workers, worker'[d].plan = worker'[e].plan
        PROVE  d = e \/ worker'[d].plan = None
    BY <1>1, <2>3 DEF Fits, CollectInv, PlanInv
  <2>4. strays' # {} =>
          /\ head'.barrier # None /\ strays' \subseteq plans'[head'.barrier]
          /\ \A d \in Workers : worker'[d].plan # head'.barrier
    BY <1>1 DEF Fits, CollectInv, PlanInv
  <2> QED
    BY <2>1, <2>2, <2>3, <2>4 DEF PlanInv
<1>9. CoverInv'
  <2>1. Covered(x.pin) /\ Covered(x.cand)
    BY InitialHeadFacts DEF Fits, CollectInv, CoverInv
  <2>2. \A d \in Workers : Covered(worker'[d].pin) /\ Covered(worker'[d].cand)
    BY <1>1, <2>1 DEF CollectInv, CoverInv
  <2> QED
    BY <2>2 DEF CollectInv, CoverInv
<1> QED
  BY <1>5, <1>6, <1>7, <1>8, <1>9 DEF CollectInv

(* A process that ends its command frees what it worked on. *)
LEMMA RestStep ==
    ASSUME CollectInv, NEW c \in Workers, Becomes(c, Rest(c)),
           UNCHANGED <<head, plans, late, strays>>, faults' \in Nat,
           stored \subseteq stored', stored' \subseteq stored \cup worker[c].puts
    PROVE  CollectInv'
<1> DEFINE x == Rest(c)
<1>1. /\ x \in WorkerState /\ x.phase = "idle" /\ x.n = worker[c].n
      /\ x.pin = InitialHead /\ x.cand = InitialHead /\ x.puts = {} /\ x.plan = None
  BY RestFacts DEF CollectInv
<1>2. worker' = [worker EXCEPT ![c] = x]
  BY DEF Becomes
<1> HIDE DEF x
<1>3. Fits(c, x)
  <2>1. Announces(x.cand) /\ Covered(x.cand)
    BY <1>1, InitialHeadFacts DEF Announces
  <2>2. worker[c].n \in Nat
    BY WorkerFacts DEF CollectInv
  <2>3. strays # {} => head.barrier # None
    BY DEF CollectInv, PlanInv
  <2> QED
    BY <1>1, <2>1, <2>2, <2>3 DEF Fits
<1>4. Unworked => Unworked'
  BY <1>1, <1>2 DEF Unworked, CollectInv, TypeOK
<1> QED
  BY <1>1, <1>2, <1>3, <1>4, LocalStep

(* The names of a process that draws one are new to everybody. *)
LEMMA DrawFacts ==
    ASSUME CollectInv, NEW c \in Workers
    PROVE  /\ NextId(c) = <<c, worker[c].n + 1>> /\ NextId(c) \in Id
           /\ NextId(c) \notin Based \cup {r.head.pub : r \in late}
           /\ NextId(c) # head.pub /\ NextId(c) \notin DOMAIN plans
           /\ LogKey(NextId(c)) \notin stored
           /\ \A i \in DOMAIN plans : LogKey(NextId(c)) \notin plans[i]
           /\ worker[c].n + 1 \in Nat /\ worker[c].n + 1 >= worker[c].n
<1>1. NextId(c) \in Id /\ NextId(c) \notin Issued
  BY NameFacts DEF CollectInv
<1>2. worker[c].n \in Nat
  BY WorkerFacts DEF CollectInv
<1>3. LogKey(NextId(c)) \notin IssuedKeys
  BY <1>1, IssuedKeyFacts
<1>4. head.pub \in Issued
  BY DEF CollectInv, NameInv, Based
<1> QED
  BY <1>1, <1>2, <1>3, <1>4 DEF CollectInv, NameInv, NextId

(* The record of a process that begins to upload. *)
Beginning(c, puts, cand) ==
    [Rest(c) EXCEPT !.phase = "uploading", !.n = worker[c].n + 1, !.pin = head,
                    !.puts = puts, !.cand = cand]

(* Its fields. *)
LEMMA BeginFacts ==
    ASSUME TypeOK, NEW c \in Workers, NEW puts \in SUBSET Key, NEW cand \in HeadObject
    PROVE  LET x == Beginning(c, puts, cand)
           IN  /\ x \in WorkerState /\ x.phase = "uploading" /\ x.n = worker[c].n + 1
               /\ x.pin = head /\ x.cand = cand /\ x.puts = puts /\ x.plan = None
<1> DEFINE y == Rest(c)
           x == [y EXCEPT !.phase = "uploading", !.n = worker[c].n + 1, !.pin = head,
                          !.puts = puts, !.cand = cand]
<1>1. y \in WorkerState /\ y.plan = None
  BY RestFacts
<1>2. "uploading" \in Phases /\ worker[c].n + 1 \in Nat /\ head \in HeadObject
  BY WorkerFacts DEF Phases, TypeOK
<1> HIDE DEF y
<1>3. /\ x \in WorkerState /\ x.phase = "uploading" /\ x.n = worker[c].n + 1
      /\ x.pin = head /\ x.cand = cand /\ x.puts = puts /\ x.plan = None
  BY <1>1, <1>2 DEF WorkerState
<1> QED
  BY <1>3 DEF y, Beginning

(* The next names of a process are issued when it has drawn them. *)
LEMMA DrawnIssued ==
    ASSUME TypeOK, NEW c \in Workers, NEW x \in WorkerState, x.n = worker[c].n + 1,
           worker' = [worker EXCEPT ![c] = x]
    PROVE  NextId(c) \in Issued'
<1>1. worker[c].n + 1 \in Nat
  BY WorkerFacts
<1>2. worker'[c].n = worker[c].n + 1
  BY DEF TypeOK
<1>3. NextId(c) \in Workers \X Nat /\ NextId(c)[1] = c /\ NextId(c)[2] = worker[c].n + 1
  BY <1>1 DEF NextId
<1> QED
  BY <1>1, <1>2, <1>3 DEF Issued

(* A command that begins on HEAD with new objects and a candidate on top   *)
(* of HEAD with HEAD's barrier.                                            *)
LEMMA BeginInv ==
    ASSUME CollectInv, NEW c \in Workers, NEW puts \in SUBSET Key, NEW cand \in HeadObject,
           Begin(c, puts, cand), UNCHANGED <<head, stored, plans, late, strays, faults>>,
           puts \subseteq {LogKey(NextId(c)), StateKey(NextId(c))} \cup ({"pack"} \X Packs),
           cand = head \/ cand.pub = NextId(c), cand.barrier = head.barrier,
           LiveKeys(cand) \subseteq LiveKeys(head) \cup puts, Covered(cand),
           head.barrier # None => plans[head.barrier] \cap LiveKeys(cand) = {}
    PROVE  CollectInv'
<1> DEFINE x == Beginning(c, puts, cand)
<1>1. /\ x \in WorkerState /\ x.phase = "uploading" /\ x.n = worker[c].n + 1
      /\ x.pin = head /\ x.cand = cand /\ x.puts = puts /\ x.plan = None
  BY BeginFacts DEF CollectInv
<1>2. worker' = [worker EXCEPT ![c] = x]
  BY DEF Begin, Becomes, Beginning
<1> HIDE DEF x
<1>3. Fits(c, x)
  <2>1. Announces(cand)
    BY DEF Announces, CollectInv, HeadInv
  <2>2. \A k \in puts : k[1] # "plan"
    BY IssuedKeyFacts
  <2>3. LiveKeys(cand) \subseteq stored' \cup puts
    BY DEF CollectInv, HeadInv
  <2>4. strays # {} => head.barrier # None
    BY DEF CollectInv, PlanInv
  <2> QED
    BY <1>1, <2>1, <2>2, <2>3, <2>4, DrawFacts DEF Fits
<1>4. x.puts \subseteq IssuedKeys'
  <2>1. NextId(c) \in Issued'
    BY <1>1, <1>2, DrawnIssued DEF CollectInv
  <2>2. LogKey(NextId(c)) \in IssuedKeys' /\ StateKey(NextId(c)) \in IssuedKeys'
    BY <2>1 DEF LogKey, StateKey, IssuedKeys
  <2>3. {"pack"} \X Packs \subseteq IssuedKeys'
    BY DEF IssuedKeys
  <2> QED
    BY <1>1, <2>2, <2>3
<1>5. Unworked => Unworked'
  BY <1>1, <1>2 DEF Unworked, CollectInv, TypeOK
<1>6. faults' \in Nat
  BY DEF CollectInv, TypeOK
<1> QED
  BY <1>1, <1>2, <1>3, <1>4, <1>5, <1>6, LocalStep

(* Push begins. *)
LEMMA PushInv ==
    ASSUME CollectInv, NEW c \in Workers, Push(c)
    PROVE  CollectInv'
<1>1. PICK v \in 0..Tip : Begin(c, {LogKey(NextId(c))}, PushHead(head, NextId(c), v))
  BY DEF Push
<1>2. NextId(c) \in Id /\ head \in HeadObject
  BY DrawFacts DEF CollectInv, TypeOK
<1> DEFINE k == PushHead(head, NextId(c), v)
           puts == {LogKey(NextId(c))}
<1>3. /\ k \in HeadObject /\ k.pub = NextId(c) /\ k.barrier = head.barrier
      /\ LiveKeys(k) = LiveKeys(head) \cup puts /\ Covered(k)
  BY <1>2, PushHeadFacts DEF CollectInv, CoverInv
<1>4. puts \in SUBSET Key
  BY <1>2 DEF LogKey, Key
<1>5. head.barrier # None => plans[head.barrier] \cap LiveKeys(k) = {}
  BY <1>3, DrawFacts DEF CollectInv, HeadInv, Announces
<1>6. UNCHANGED <<head, stored, plans, late, strays, faults>>
  BY DEF Push
<1> HIDE DEF k
<1> QED
  BY <1>1, <1>3, <1>4, <1>5, <1>6, BeginInv DEF k

(* Maintenance begins, with a packset that is accepted or one that is not. *)
LEMMA MaintenanceInv ==
    ASSUME CollectInv, NEW c \in Workers, Maintenance(c)
    PROVE  CollectInv'
<1>1. head.barrier = None /\ UNCHANGED <<head, stored, plans, late, strays, faults>>
  BY DEF Maintenance, NoBarrier
<1> DEFINE p(i) == CreatePack(head.log[i].tip, head.floor)
           packs(i, fanout) == {PackKey(q) : q \in Uploads(head.levels, p(i), fanout)}
           k(i, fanout) == MaintenanceHead(head, NextId(c), i, p(i), fanout)
<1>2. PICK i \in Targets(head), fanout \in Fanouts :
        \/ Begin(c, packs(i, fanout) \cup {StateKey(NextId(c))}, k(i, fanout))
        \/ Begin(c, packs(i, fanout), head)
  BY DEF Maintenance
<1>3. NextId(c) \in Id /\ head \in HeadObject /\ i \in 1..Len(head.log) /\ fanout \in Nat
  BY DrawFacts, FanoutAssumption DEF CollectInv, TypeOK, Targets
<1> DEFINE new == k(i, fanout)
           puts == packs(i, fanout)
<1>4. /\ new \in HeadObject /\ new.pub = NextId(c) /\ new.barrier = head.barrier
      /\ puts \subseteq {"pack"} \X Packs
      /\ LiveKeys(new) \subseteq LiveKeys(head) \cup puts \cup {StateKey(NextId(c))}
      /\ Covered(head) => Covered(new)
  BY <1>3, MaintenanceHeadFacts
<1> HIDE DEF k, packs, p, new, puts
<1>5. Covered(head) /\ Covered(new)
  BY <1>4 DEF CollectInv, CoverInv
<1>6. puts \in SUBSET Key /\ puts \cup {StateKey(NextId(c))} \in SUBSET Key
  <2>1. StateKey(NextId(c)) \in Key
    BY <1>3 DEF StateKey, Key
  <2>2. {"pack"} \X Packs \subseteq Key
    BY DEF Key
  <2> QED
    BY <1>4, <2>1, <2>2
<1>7. CASE Begin(c, puts \cup {StateKey(NextId(c))}, new)
  BY <1>1, <1>4, <1>5, <1>6, <1>7, BeginInv
<1>8. CASE Begin(c, puts, head)
  BY <1>1, <1>3, <1>4, <1>5, <1>6, <1>8, BeginInv
<1> QED
  BY <1>2, <1>7, <1>8 DEF new, puts

(* The uploads are done: the command ends, or goes on to publish. *)
LEMMA UploadInv ==
    ASSUME CollectInv, NEW c \in Workers, Upload(c)
    PROVE  CollectInv'
<1> DEFINE x == [worker[c] EXCEPT !.phase = "publishing", !.puts = {}]
<1>1. /\ worker[c].phase = "uploading" /\ stored' = stored \cup worker[c].puts
      /\ UNCHANGED <<head, plans, late, strays, faults>>
      /\ faults' \in Nat
  BY DEF Upload, CollectInv, TypeOK
<1>2. CASE worker[c].cand = worker[c].pin
  <2>1. Becomes(c, Rest(c))
    BY <1>2 DEF Upload
  <2> QED
    BY <1>1, <2>1, RestStep
<1>3. CASE worker[c].cand # worker[c].pin
  <2>1. worker' = [worker EXCEPT ![c] = x]
    BY <1>3 DEF Upload, Becomes
  <2>2. /\ x \in WorkerState /\ x.phase = "publishing" /\ x.n = worker[c].n
        /\ x.pin = worker[c].pin /\ x.cand = worker[c].cand /\ x.puts = {} /\ x.plan = worker[c].plan
    <3>1. worker[c] \in WorkerState /\ "publishing" \in Phases
      BY WorkerFacts DEF CollectInv, Phases
    <3> QED
      BY <3>1 DEF WorkerState
  <2> HIDE DEF x
  <2>3. Fits(c, x)
    <3>1. x.n >= worker[c].n
      BY <2>2, WorkerFacts DEF CollectInv
    <3>2. worker[c].phase # "idle" /\ x.pin = worker[c].pin
      BY <1>1, <2>2
    <3>3. Announces(x.cand) /\ Covered(x.cand)
      BY <2>2 DEF CollectInv, HeadInv, CoverInv
    <3>4. <<c, x.n>> \notin Based \cup {r.head.pub : r \in late} /\ x.cand.pub = <<c, x.n>>
      BY <1>1, <1>3, <2>2 DEF CollectInv, NameInv, Name
    <3>5. ASSUME x.pin.pub = head.pub
          PROVE  /\ LiveKeys(x.cand) \subseteq stored' \cup x.puts
                 /\ head.barrier # None => plans[head.barrier] \cap LiveKeys(x.cand) = {}
                 /\ x.cand.barrier = head.barrier
      <4>1. Succeeds(worker[c].cand, worker[c].puts) /\ worker[c].pin = head
        BY <1>1, <2>2, <3>5 DEF CollectInv, HeadInv
      <4>2. worker[c].cand.barrier = worker[c].pin.barrier
        BY <1>1 DEF CollectInv, PlanInv
      <4> QED
        BY <1>1, <2>2, <4>1, <4>2 DEF Succeeds
    <3>6. x.pin.barrier = x.cand.barrier
      BY <1>1, <2>2 DEF CollectInv, PlanInv
    <3>7. strays # {} => x.plan # head.barrier
      BY <2>2 DEF CollectInv, PlanInv
    <3> QED
      BY <2>2, <3>1, <3>2, <3>3, <3>4, <3>5, <3>6, <3>7 DEF Fits
  <2>4. Unworked => Unworked'
    BY <1>1, <2>1, <2>2 DEF Unworked, CollectInv, TypeOK
  <2>5. x.puts \subseteq IssuedKeys'
    BY <2>2
  <2> QED
    BY <1>1, <2>1, <2>2, <2>3, <2>4, <2>5, LocalStep
<1> QED
  BY <1>2, <1>3

(* gc --execute pins HEAD. *)
LEMMA GCExecuteInv ==
    ASSUME CollectInv, NEW c \in Workers, GCExecute(c)
    PROVE  CollectInv'
<1> DEFINE y == Rest(c)
           x == [y EXCEPT !.phase = "listing", !.n = worker[c].n + 1, !.pin = head]
<1>1. /\ head.barrier = None /\ UNCHANGED <<head, stored, plans, late, strays, faults>>
      /\ faults' \in Nat /\ worker' = [worker EXCEPT ![c] = x]
  BY DEF GCExecute, NoBarrier, Becomes, CollectInv, TypeOK
<1>2. y \in WorkerState /\ y.plan = None /\ y.puts = {} /\ y.cand = InitialHead
  BY RestFacts DEF CollectInv
<1>3. "listing" \in Phases /\ worker[c].n + 1 \in Nat /\ head \in HeadObject
  BY WorkerFacts DEF CollectInv, Phases, TypeOK
<1> HIDE DEF y
<1>4. /\ x \in WorkerState /\ x.phase = "listing" /\ x.n = worker[c].n + 1
      /\ x.pin = head /\ x.cand = InitialHead /\ x.puts = {} /\ x.plan = None
  BY <1>2, <1>3 DEF WorkerState
<1> HIDE DEF x
<1>5. Fits(c, x)
  <2>1. Announces(x.cand) /\ Covered(x.cand)
    BY <1>4, InitialHeadFacts DEF Announces
  <2>2. strays # {} => head.barrier # None
    BY DEF CollectInv, PlanInv
  <2> QED
    BY <1>1, <1>4, <2>1, <2>2, DrawFacts DEF Fits
<1>6. Unworked => Unworked'
  BY <1>1, <1>4 DEF Unworked, CollectInv, TypeOK
<1> QED
  BY <1>1, <1>4, <1>5, <1>6, LocalStep

(* The record of a process that starts to delete. *)
LEMMA DeletingFacts ==
    ASSUME TypeOK, NEW c \in Workers, NEW plan \in DOMAIN plans, NEW lenient \in BOOLEAN
    PROVE  LET x == Deleting(c, plan, lenient)
           IN  /\ x \in WorkerState /\ x.phase = "deleting" /\ x.n = worker[c].n
               /\ x.pin = head /\ x.cand = InitialHead /\ x.puts = {} /\ x.plan = plan
               /\ x.todo = plans[plan]
<1> DEFINE y == Rest(c)
           x == [y EXCEPT !.phase = "deleting", !.pin = head, !.plan = plan,
                          !.todo = plans[plan], !.lenient = lenient]
<1>1. y \in WorkerState /\ y.n = worker[c].n /\ y.puts = {} /\ y.cand = InitialHead
  BY RestFacts
<1>2. /\ "deleting" \in Phases /\ head \in HeadObject /\ plan \in Id
      /\ plans[plan] \in SUBSET Key
  BY DEF Phases, TypeOK
<1> HIDE DEF y
<1>3. /\ x \in WorkerState /\ x.phase = "deleting" /\ x.n = worker[c].n
      /\ x.pin = head /\ x.cand = InitialHead /\ x.puts = {} /\ x.plan = plan
      /\ x.todo = plans[plan]
  BY <1>1, <1>2 DEF WorkerState
<1> QED
  BY <1>3 DEF y, Deleting

(* Deletion starts, in the process that works on the plan already or in    *)
(* one that takes it up when nobody does.                                  *)
LEMMA StartDeleting ==
    ASSUME CollectInv, NEW c \in Workers, NEW lenient \in BOOLEAN,
           head.barrier # None, Becomes(c, Deleting(c, head.barrier, lenient)),
           UNCHANGED <<head, stored, plans, late, strays, faults>>,
           \/ worker[c].phase = "rereading" /\ worker[c].plan = head.barrier
           \/ late = {} /\ strays = {} /\ \A d \in Workers : worker[d].plan # head.barrier
    PROVE  CollectInv'
<1> DEFINE x == Deleting(c, head.barrier, lenient)
<1>1. head.barrier \in DOMAIN plans /\ faults' \in Nat
  BY DEF CollectInv, HeadInv, Announces, TypeOK
<1>2. /\ x \in WorkerState /\ x.phase = "deleting" /\ x.n = worker[c].n
      /\ x.pin = head /\ x.cand = InitialHead /\ x.puts = {} /\ x.plan = head.barrier
      /\ x.todo = plans[head.barrier]
  BY <1>1, DeletingFacts DEF CollectInv
<1>3. worker' = [worker EXCEPT ![c] = x]
  BY DEF Becomes
<1> HIDE DEF x
<1>4. Fits(c, x)
  <2>1. Announces(x.cand) /\ Covered(x.cand)
    BY <1>2, InitialHeadFacts DEF Announces
  <2>2. x.n >= worker[c].n
    BY <1>2, WorkerFacts DEF CollectInv
  <2>3. strays = {}
    BY DEF CollectInv, PlanInv
  <2> QED
    BY <1>1, <1>2, <2>1, <2>2, <2>3 DEF Fits
<1>5. \/ Unworked => Unworked'
      \/ late = {} /\ \A d \in Workers : worker[d].plan # head.barrier
  BY DEF Unworked
<1> QED
  BY <1>1, <1>2, <1>3, <1>4, <1>5, LocalStep

(* GCExecute validates its own plan on a HEAD read again. *)
LEMMA GCRereadInv ==
    ASSUME CollectInv, NEW c \in Workers, GCReread(c)
    PROVE  CollectInv'
<1>1. /\ worker[c].phase = "rereading" /\ UNCHANGED <<head, stored, plans, late, strays, faults>>
      /\ faults' \in Nat
  BY DEF GCReread, CollectInv, TypeOK
<1>2. CASE Deletable(worker[c].plan, FALSE)
  <2>1. worker[c].plan # None /\ head.barrier = worker[c].plan
    BY <1>1, <1>2 DEF CollectInv, PlanInv, Deletable
  <2>2. Becomes(c, Deleting(c, worker[c].plan, FALSE))
    BY <1>2 DEF GCReread
  <2> QED
    BY <1>1, <2>1, <2>2, StartDeleting
<1>3. CASE ~ Deletable(worker[c].plan, FALSE)
  <2>1. Becomes(c, Rest(c))
    BY <1>3 DEF GCReread
  <2> QED
    BY <1>1, <2>1, RestStep
<1> QED
  BY <1>2, <1>3

(* gc --resume takes up a plan that nobody works on. *)
LEMMA GCResumeInv ==
    ASSUME ~ Overlap, CollectInv, NEW c \in Workers, GCResume(c)
    PROVE  CollectInv'
<1>1. /\ head.barrier # None /\ Abandoned(head.barrier)
      /\ Becomes(c, Deleting(c, head.barrier, TRUE))
      /\ UNCHANGED <<head, stored, plans, late, strays, faults>>
  BY DEF GCResume
<1>2. late = {} /\ strays = {} /\ \A d \in Workers : worker[d].plan # head.barrier
  BY <1>1 DEF Abandoned
<1> QED
  BY <1>1, <1>2, StartDeleting

(* A process starts to clear the barrier it has worked on, or one that     *)
(* nobody works on.                                                        *)
LEMMA ClearInv ==
    ASSUME CollectInv, NEW c \in Workers, NEW pin \in HeadObject, ClearGCBarrier(c, pin),
           UNCHANGED <<head, stored, plans, late, strays, faults>>,
           head.barrier # None, pin.barrier = head.barrier, Covered(pin),
           \/ /\ worker[c].phase = "deleting" /\ pin = worker[c].pin
           \/ /\ pin = head /\ late = {} /\ strays = {}
              /\ \A d \in Workers : worker[d].plan # head.barrier
    PROVE  CollectInv'
<1> DEFINE y == Rest(c)
           k == BarrierHead(pin, NextId(c), None)
           x == [y EXCEPT !.phase = "publishing", !.n = worker[c].n + 1, !.pin = pin,
                          !.plan = pin.barrier, !.cand = k]
<1>1. worker' = [worker EXCEPT ![c] = x] /\ faults' \in Nat
  BY DEF ClearGCBarrier, Becomes, BarrierHead, CollectInv, TypeOK
<1>2. NextId(c) \in Id
  BY DrawFacts
<1>3. /\ k \in HeadObject /\ k.pub = NextId(c) /\ k.barrier = None
      /\ LiveKeys(k) \subseteq LiveKeys(pin) /\ Covered(k)
  BY <1>2, BarrierHeadFacts
<1>4. y \in WorkerState /\ y.puts = {}
  BY RestFacts DEF CollectInv
<1>5. /\ "publishing" \in Phases /\ worker[c].n + 1 \in Nat
      /\ pin.barrier \in Id \cup {None}
  BY WorkerFacts, HeadFacts DEF CollectInv, Phases, TypeOK
<1> HIDE DEF y, k
<1>6. /\ x \in WorkerState /\ x.phase = "publishing" /\ x.n = worker[c].n + 1
      /\ x.pin = pin /\ x.cand = k /\ x.puts = {} /\ x.plan = head.barrier
  BY <1>3, <1>4, <1>5 DEF WorkerState
<1> HIDE DEF x
<1>7. /\ strays = {} /\ \A d \in Workers : d # c => worker[d].plan # head.barrier
      /\ worker[c].phase = "deleting" => worker[c].plan = head.barrier
  BY DEF CollectInv, PlanInv
<1>8. Unworked'
  BY <1>1, <1>6, <1>7 DEF Unworked, CollectInv, TypeOK
<1>9. Fits(c, x)
  <2>1. Announces(x.cand) /\ Covered(x.cand)
    BY <1>3, <1>6 DEF Announces
  <2>2. x.pin = head \/ (worker[c].phase # "idle" /\ x.pin = worker[c].pin)
    BY <1>6
  <2>3. x.pin.pub = head.pub => x.pin = head
    BY <2>2 DEF CollectInv, HeadInv
  <2>4. /\ LiveKeys(head) \subseteq stored
        /\ plans[head.barrier] \cap LiveKeys(head) = {}
        /\ head.barrier \in DOMAIN plans
    BY DEF CollectInv, HeadInv, Announces
  <2>5. x.plan = worker[c].plan \/ (x.plan \in DOMAIN plans /\ \A d \in Workers : worker[d].plan # x.plan)
    BY <1>6, <1>7, <2>4
  <2>6. x.pin.pub = head.pub =>
          /\ LiveKeys(x.cand) \subseteq stored' \cup x.puts
          /\ plans[head.barrier] \cap LiveKeys(x.cand) = {}
    BY <1>3, <1>6, <2>3, <2>4
  <2> QED
    BY <1>3, <1>6, <1>7, <1>8, <2>1, <2>2, <2>5, <2>6, DrawFacts DEF Fits
<1> QED
  BY <1>1, <1>6, <1>8, <1>9, LocalStep

(* Every candidate is deleted: the process clears its barrier. *)
LEMMA GCFinishInv ==
    ASSUME CollectInv, NEW c \in Workers, GCFinish(c)
    PROVE  CollectInv'
<1>1. /\ worker[c].phase = "deleting" /\ ClearGCBarrier(c, worker[c].pin)
      /\ UNCHANGED <<head, stored, plans, late, strays, faults>>
  BY DEF GCFinish
<1>2. worker[c].pin \in HeadObject
  BY WorkerFacts DEF CollectInv
<1>3. head.barrier # None /\ worker[c].pin.barrier = head.barrier /\ Covered(worker[c].pin)
  BY <1>1 DEF CollectInv, PlanInv, CoverInv
<1> QED
  BY <1>1, <1>2, <1>3, ClearInv

(* gc --abort clears the barrier of a plan that nobody works on. *)
LEMMA GCAbortInv ==
    ASSUME ~ Overlap, CollectInv, NEW c \in Workers, GCAbort(c)
    PROVE  CollectInv'
<1>1. /\ head.barrier # None /\ Abandoned(head.barrier) /\ ClearGCBarrier(c, head)
      /\ UNCHANGED <<head, stored, plans, late, strays, faults>>
  BY DEF GCAbort
<1>2. late = {} /\ strays = {} /\ \A d \in Workers : worker[d].plan # head.barrier
  BY <1>1 DEF Abandoned
<1>3. head \in HeadObject /\ Covered(head)
  BY DEF CollectInv, TypeOK, CoverInv
<1> QED
  BY <1>1, <1>2, <1>3, ClearInv

-----------------------------------------------------------------------------
(* Steps that take something away: an object of the announced plan, a      *)
(* request, work to do.                                                    *)

(* Process d keeps its place in its command, with no more to delete. *)
Keeps(d) ==
    /\ worker'[d].phase = worker[d].phase /\ worker'[d].n = worker[d].n
    /\ worker'[d].pin = worker[d].pin /\ worker'[d].cand = worker[d].cand
    /\ worker'[d].puts = worker[d].puts /\ worker'[d].plan = worker[d].plan
    /\ worker'[d].todo \subseteq worker[d].todo

(* Such a step keeps the invariant: what HEAD announces is nothing that    *)
(* HEAD, or a HEAD that may replace it, reaches.                           *)
LEMMA TakeAway ==
    ASSUME CollectInv, UNCHANGED <<head, plans>>, faults' \in Nat,
           late' \subseteq late, strays' \subseteq strays, stored' \subseteq stored,
           stored' = stored \/ (head.barrier # None /\ stored \ plans[head.barrier] \subseteq stored'),
           worker' \in [Workers -> WorkerState],
           \A d \in Workers : Keeps(d) \/ worker'[d] = Rest(d)
    PROVE  CollectInv'
<1>1. \A d \in Workers : \/ Keeps(d)
                         \/ /\ worker'[d].phase = "idle" /\ worker'[d].n = worker[d].n
                            /\ worker'[d].pin = InitialHead /\ worker'[d].cand = InitialHead
                            /\ worker'[d].puts = {} /\ worker'[d].plan = None
  BY RestFacts DEF CollectInv
<1>2. Issued' = Issued /\ IssuedKeys' = IssuedKeys
  <2>1. \A d \in Workers : worker'[d].n = worker[d].n
    BY <1>1 DEF Keeps
  <2>2. \A id \in Workers \X Nat : worker'[id[1]].n = worker[id[1]].n
    BY <2>1
  <2>3. Issued' = Issued
    BY <2>2 DEF Issued
  <2> QED
    BY <2>3 DEF IssuedKeys
<1>3. Based' \subseteq Based
  <2>1. \A d \in Workers : worker'[d].pin.pub \in Based
    BY <1>1, InitialHeadFacts DEF Keeps, Based
  <2> QED
    BY <2>1 DEF Based
<1>4. \A d \in Workers : Name(d)' = Name(d)
  BY <1>1 DEF Name, Keeps
<1>5. TypeOK'
  BY DEF CollectInv, TypeOK
<1>6. NameInv'
  <2>1. \A d \in Workers : worker'[d].puts \subseteq IssuedKeys'
    BY <1>1, <1>2 DEF CollectInv, NameInv, Keeps
  <2>2. \A d \in Workers : worker'[d].phase \in {"uploading", "listing", "publishing"} =>
          Name(d)' \notin Based' \cup {r.head.pub : r \in late'}
    BY <1>1, <1>3, <1>4 DEF CollectInv, NameInv, Keeps
  <2>3. \A d \in Workers :
          \/ worker'[d].phase \notin {"uploading", "publishing"}
          \/ worker'[d].phase = "uploading" /\ worker'[d].cand = worker'[d].pin
          \/ worker'[d].cand.pub = Name(d)'
    BY <1>1, <1>4 DEF CollectInv, NameInv, Keeps
  <2>4. /\ Based' \subseteq Issued' /\ stored' \subseteq IssuedKeys'
        /\ DOMAIN plans' \subseteq Issued' /\ \A i \in DOMAIN plans' : plans'[i] \subseteq IssuedKeys'
        /\ \A r \in late' : r.head.pub \in Issued' \ Based'
        /\ \A r, s \in late' : r.head.pub = s.head.pub => r = s
    BY <1>2, <1>3 DEF CollectInv, NameInv
  <2> QED
    BY <2>1, <2>2, <2>3, <2>4 DEF NameInv
<1>7. HeadInv'
  <2>1. ASSUME NEW h, NEW puts, Succeeds(h, puts)
        PROVE  Succeeds(h, puts)'
    <3>1. LiveKeys(h) \subseteq stored' \cup puts
      BY <2>1 DEF Succeeds
    <3>2. Unworked => Unworked'
      BY <1>1 DEF Unworked, Keeps
    <3> QED
      BY <2>1, <3>1, <3>2 DEF Succeeds
  <2>2. LiveKeys(head') \subseteq stored'
    BY DEF CollectInv, HeadInv, Announces
  <2>3. Announces(head)' /\ \A r \in late' : Announces(r.head)'
    BY DEF Announces, CollectInv, HeadInv
  <2>4. ASSUME NEW d \in Workers
        PROVE  /\ Announces(worker[d].pin)' /\ Announces(worker[d].cand)'
               /\ worker'[d].phase # "idle" /\ worker'[d].pin.pub = head'.pub => worker'[d].pin = head'
               /\ worker'[d].phase \in {"uploading", "publishing"} /\ worker'[d].pin.pub = head'.pub =>
                    Succeeds(worker[d].cand, worker[d].puts)'
               /\ worker'[d].phase # "uploading" => worker'[d].puts = {}
    <3>1. CASE Keeps(d)
      <4>1. Announces(worker[d].pin)' /\ Announces(worker[d].cand)'
        BY <3>1 DEF Keeps, Announces, CollectInv, HeadInv
      <4>2. ASSUME worker[d].phase \in {"uploading", "publishing"}, worker[d].pin.pub = head.pub
            PROVE  Succeeds(worker[d].cand, worker[d].puts)'
        <5>1. Succeeds(worker[d].cand, worker[d].puts)
          BY <4>2 DEF CollectInv, HeadInv
        <5>2. worker'[d].cand = worker[d].cand /\ worker'[d].puts = worker[d].puts
          BY <3>1 DEF Keeps
        <5>3. \A h, puts : Succeeds(h, puts) => /\ LiveKeys(h) \subseteq stored' \cup puts
                                                /\ head.barrier # None =>
                                                     /\ plans[head.barrier] \cap LiveKeys(h) = {}
                                                     /\ h.barrier # head.barrier => Unworked'
          BY <2>1 DEF Succeeds
        <5> QED
          BY <5>1, <5>2, <5>3 DEF Succeeds
      <4> QED
        BY <3>1, <4>1, <4>2 DEF Keeps, CollectInv, HeadInv
    <3>2. CASE ~ Keeps(d)
      BY <1>1, <3>2, InitialHeadFacts DEF Announces
    <3> QED
      BY <3>1, <3>2
  <2>5. \A r \in late' : r.match = head'.pub => Succeeds(r.head, {})'
    BY <2>1 DEF CollectInv, HeadInv
  <2> QED
    BY <2>2, <2>3, <2>4, <2>5 DEF HeadInv
<1>8. PlanInv'
  <2>1. ASSUME NEW d \in Workers
        PROVE  /\ \A k \in worker'[d].puts : k[1] # "plan"
               /\ worker'[d].plan # None => worker'[d].plan \in DOMAIN plans'
               /\ worker'[d].phase = "listing" => Name(d)' \notin DOMAIN plans' /\ worker'[d].pin.barrier = None
               /\ worker'[d].phase = "rereading" => worker'[d].plan # None
               /\ worker'[d].phase = "deleting" =>
                    /\ worker'[d].plan # None /\ worker'[d].plan = head'.barrier
                    /\ worker'[d].plan = worker'[d].pin.barrier
                    /\ worker'[d].todo \subseteq plans'[head'.barrier]
               /\ worker'[d].phase = "publishing" =>
                    worker'[d].pin.barrier \in {None, worker'[d].cand.barrier, worker'[d].plan}
               /\ worker'[d].phase = "uploading" => worker'[d].cand.barrier = worker'[d].pin.barrier
    <3>1. CASE Keeps(d)
      BY <1>4, <3>1 DEF Keeps, CollectInv, PlanInv
    <3>2. CASE ~ Keeps(d)
      BY <1>1, <3>2
    <3> QED
      BY <3>1, <3>2
  <2>2. ASSUME NEW d \in Workers, NEW e \in Workers, worker'[d].plan = worker'[e].plan
        PROVE  d = e \/ worker'[d].plan = None
    BY <1>1, <2>2 DEF Keeps, CollectInv, PlanInv
  <2>3. strays' # {} =>
          /\ head'.barrier # None /\ strays' \subseteq plans'[head'.barrier]
          /\ \A d \in Workers : worker'[d].plan # head'.barrier
    BY <1>1 DEF Keeps, CollectInv, PlanInv
  <2>4. \A k \in stored' : k[1] = "plan" => k[2] \in DOMAIN plans'
    BY DEF CollectInv, PlanInv
  <2> QED
    BY <2>1, <2>2, <2>3, <2>4 DEF PlanInv
<1>9. CoverInv'
  <2>1. \A d \in Workers : Covered(worker'[d].pin) /\ Covered(worker'[d].cand)
    BY <1>1, InitialHeadFacts DEF Keeps, CollectInv, CoverInv
  <2> QED
    BY <2>1 DEF CollectInv, CoverInv
<1> QED
  BY <1>5, <1>6, <1>7, <1>8, <1>9 DEF CollectInv

(* A candidate is deleted, or found missing. *)
LEMMA DeleteCandidateInv ==
    ASSUME CollectInv, NEW c \in Workers, DeleteCandidate(c)
    PROVE  CollectInv'
<1>1. PICK k \in worker[c].todo :
        /\ stored' = stored \ {k}
        /\ \/ worker' = [worker EXCEPT ![c] = [worker[c] EXCEPT !.todo = worker[c].todo \ {k}]]
           \/ worker' = [worker EXCEPT ![c] = Rest(c)]
  BY DEF DeleteCandidate, Becomes
<1>2. /\ worker[c].phase = "deleting" /\ UNCHANGED <<head, plans, late, strays, faults>>
      /\ faults' \in Nat
  BY DEF DeleteCandidate, CollectInv, TypeOK
<1>3. head.barrier # None /\ k \in plans[head.barrier]
  BY <1>2 DEF CollectInv, PlanInv
<1> DEFINE x == [worker[c] EXCEPT !.todo = worker[c].todo \ {k}]
<1>4. /\ x \in WorkerState /\ x.phase = worker[c].phase /\ x.n = worker[c].n
      /\ x.pin = worker[c].pin /\ x.cand = worker[c].cand /\ x.puts = worker[c].puts
      /\ x.plan = worker[c].plan /\ x.todo \subseteq worker[c].todo
  <2>1. worker[c] \in WorkerState /\ worker[c].todo \in SUBSET Key
    BY WorkerFacts DEF CollectInv
  <2> QED
    BY <2>1 DEF WorkerState
<1>5. worker' = [worker EXCEPT ![c] = x] \/ worker' = [worker EXCEPT ![c] = Rest(c)]
  BY <1>1
<1> HIDE DEF x
<1>6. /\ worker' \in [Workers -> WorkerState] /\ (worker'[c] = x \/ worker'[c] = Rest(c))
      /\ \A d \in Workers : d # c => worker'[d] = worker[d]
  BY <1>4, <1>5, RestFacts DEF CollectInv, TypeOK
<1>7. \A d \in Workers : Keeps(d) \/ worker'[d] = Rest(d)
  BY <1>4, <1>6 DEF Keeps
<1>8. stored' \subseteq stored /\ stored \ plans[head.barrier] \subseteq stored'
  BY <1>1, <1>3
<1> QED
  BY <1>2, <1>3, <1>6, <1>7, <1>8, TakeAway

(* A stray DELETE is served or lost. *)
LEMMA ServeStrayInv ==
    ASSUME CollectInv, NEW k \in strays, ServeStray(k)
    PROVE  CollectInv'
<1>1. /\ UNCHANGED <<head, plans, worker, late, faults>> /\ strays' \subseteq strays
      /\ stored' \in {stored, stored \ {k}} /\ faults' \in Nat /\ worker' \in [Workers -> WorkerState]
  BY DEF ServeStray, CollectInv, TypeOK
<1>2. head.barrier # None /\ k \in plans[head.barrier]
  BY DEF CollectInv, PlanInv
<1>3. stored' \subseteq stored /\ stored \ plans[head.barrier] \subseteq stored'
  BY <1>1, <1>2
<1>4. \A d \in Workers : Keeps(d)
  BY <1>1 DEF Keeps
<1> QED
  BY <1>1, <1>2, <1>3, <1>4, TakeAway

-----------------------------------------------------------------------------
(* HEAD is replaced. *)

(* The HEAD PUT of process c, or a late one, is served: new becomes HEAD.  *)
(* Nothing is based on it yet, and whoever deletes finds its plan in it.   *)
LEMMA Install ==
    ASSUME CollectInv, NEW new \in HeadObject, head' = new,
           UNCHANGED <<stored, plans, strays, faults>>, late' \subseteq late,
           worker' \in [Workers -> WorkerState],
           new.pub \in Issued \ Based, Announces(new), Covered(new), Succeeds(new, {}),
           \A r \in late' : r.head.pub # new.pub,
           \A d \in Workers :
             /\ worker'[d].n = worker[d].n
             /\ \/ Keeps(d) /\ (worker[d].phase \in {"uploading", "listing", "publishing"} => Name(d) # new.pub)
                \/ worker'[d] = Rest(d)
                \/ /\ worker'[d].phase = "rereading" /\ worker[d].phase = "publishing"
                   /\ worker'[d].pin = worker[d].pin /\ worker'[d].cand = worker[d].cand
                   /\ worker'[d].puts = {} /\ worker'[d].plan = worker[d].plan
                   /\ worker[d].plan # None
    PROVE  CollectInv'
<1>1. \A d \in Workers :
        \/ Keeps(d)
        \/ /\ worker'[d].phase = "idle" /\ worker'[d].pin = InitialHead
           /\ worker'[d].cand = InitialHead /\ worker'[d].puts = {} /\ worker'[d].plan = None
        \/ /\ worker'[d].phase = "rereading" /\ worker[d].phase = "publishing"
           /\ worker'[d].pin = worker[d].pin /\ worker'[d].cand = worker[d].cand
           /\ worker'[d].puts = {} /\ worker'[d].plan = worker[d].plan
           /\ worker[d].plan # None
  <2>1. TypeOK
    BY DEF CollectInv
  <2>2. \A d \in Workers : worker'[d] = Rest(d) =>
          /\ worker'[d].phase = "idle" /\ worker'[d].pin = InitialHead
          /\ worker'[d].cand = InitialHead /\ worker'[d].puts = {} /\ worker'[d].plan = None
    <3> SUFFICES ASSUME NEW d \in Workers, worker'[d] = Rest(d)
                 PROVE  /\ worker'[d].phase = "idle" /\ worker'[d].pin = InitialHead
                        /\ worker'[d].cand = InitialHead /\ worker'[d].puts = {} /\ worker'[d].plan = None
      OBVIOUS
    <3>1. /\ Rest(d).phase = "idle" /\ Rest(d).pin = InitialHead
          /\ Rest(d).cand = InitialHead /\ Rest(d).puts = {} /\ Rest(d).plan = None
      BY <2>1, RestFacts
    <3> QED
      BY <3>1
  <2> QED
    BY <2>2, Zenon
<1>2. Issued' = Issued /\ IssuedKeys' = IssuedKeys
  <2>1. \A id \in Workers \X Nat : worker'[id[1]].n = worker[id[1]].n
    OBVIOUS
  <2>2. Issued' = Issued
    BY <2>1 DEF Issued
  <2> QED
    BY <2>2 DEF IssuedKeys
<1>3. Based' \subseteq Based \cup {new.pub}
  <2>1. \A d \in Workers : worker'[d].pin.pub \in Based
    BY <1>1, InitialHeadFacts DEF Keeps, Based
  <2> QED
    BY <2>1 DEF Based
<1>4. \A d \in Workers : Name(d)' = Name(d)
  BY DEF Name
<1>5. TypeOK'
  BY DEF CollectInv, TypeOK
<1>6. NameInv'
  <2>1. \A d \in Workers : worker'[d].puts \subseteq IssuedKeys'
    BY <1>1, <1>2 DEF CollectInv, NameInv, Keeps
  <2>2. \A d \in Workers : worker'[d].phase \in {"uploading", "listing", "publishing"} =>
          Name(d)' \notin Based' \cup {r.head.pub : r \in late'}
    <3> SUFFICES ASSUME NEW d \in Workers, worker'[d].phase \in {"uploading", "listing", "publishing"}
                 PROVE  Name(d)' \notin Based' \cup {r.head.pub : r \in late'}
      OBVIOUS
    <3>1. Keeps(d) /\ Name(d) # new.pub
      BY RestFacts DEF Keeps, CollectInv
    <3>2. worker[d].phase \in {"uploading", "listing", "publishing"}
      BY <3>1 DEF Keeps
    <3> QED
      BY <1>3, <1>4, <3>1, <3>2 DEF CollectInv, NameInv
  <2>3. \A d \in Workers :
          \/ worker'[d].phase \notin {"uploading", "publishing"}
          \/ worker'[d].phase = "uploading" /\ worker'[d].cand = worker'[d].pin
          \/ worker'[d].cand.pub = Name(d)'
    BY <1>1, <1>4 DEF CollectInv, NameInv, Keeps
  <2>4. /\ Based' \subseteq Issued' /\ stored' \subseteq IssuedKeys'
        /\ DOMAIN plans' \subseteq Issued' /\ \A i \in DOMAIN plans' : plans'[i] \subseteq IssuedKeys'
        /\ \A r \in late' : r.head.pub \in Issued' \ Based'
        /\ \A r, s \in late' : r.head.pub = s.head.pub => r = s
    BY <1>2, <1>3 DEF CollectInv, NameInv
  <2> QED
    BY <2>1, <2>2, <2>3, <2>4 DEF NameInv
<1>7. HeadInv'
  <2>1. LiveKeys(head') \subseteq stored' /\ Announces(head)'
    BY DEF Succeeds, Announces
  <2>2. \A d \in Workers : worker'[d].phase # "idle" => worker'[d].pin.pub # head'.pub
    BY <1>1 DEF Keeps, Based
  <2>3. \A d \in Workers : Announces(worker[d].pin)' /\ Announces(worker[d].cand)'
    BY <1>1, InitialHeadFacts DEF Keeps, Announces, CollectInv, HeadInv
  <2>4. \A d \in Workers : worker'[d].phase # "uploading" => worker'[d].puts = {}
    BY <1>1 DEF Keeps, CollectInv, HeadInv
  <2>5. \A r \in late' : r.match # head'.pub /\ Announces(r.head)'
    BY DEF Based, Announces, CollectInv, HeadInv
  <2>6. \A d \in Workers : worker'[d].phase \in {"uploading", "publishing"} => worker'[d].phase # "idle"
    OBVIOUS
  <2> QED
    BY <2>1, <2>2, <2>3, <2>4, <2>5, <2>6 DEF HeadInv
<1>8. PlanInv'
  <2>1. head.barrier # None /\ new.barrier # head.barrier =>
          /\ strays = {}
          /\ \A d \in Workers : worker[d].phase \in {"rereading", "deleting"} => worker[d].plan # head.barrier
    BY DEF Succeeds, Unworked
  <2>2. ASSUME NEW d \in Workers
        PROVE  /\ \A k \in worker'[d].puts : k[1] # "plan"
               /\ worker'[d].plan # None => worker'[d].plan \in DOMAIN plans'
               /\ worker'[d].phase = "listing" => Name(d)' \notin DOMAIN plans' /\ worker'[d].pin.barrier = None
               /\ worker'[d].phase = "rereading" => worker'[d].plan # None
               /\ worker'[d].phase = "deleting" =>
                    /\ worker'[d].plan # None /\ worker'[d].plan = head'.barrier
                    /\ worker'[d].plan = worker'[d].pin.barrier
                    /\ worker'[d].todo \subseteq plans'[head'.barrier]
               /\ worker'[d].phase = "publishing" =>
                    worker'[d].pin.barrier \in {None, worker'[d].cand.barrier, worker'[d].plan}
               /\ worker'[d].phase = "uploading" => worker'[d].cand.barrier = worker'[d].pin.barrier
    <3>1. CASE Keeps(d)
      <4>1. worker[d].phase = "deleting" => head.barrier = new.barrier
        BY <2>1 DEF CollectInv, PlanInv
      <4> QED
        BY <1>4, <3>1, <4>1 DEF Keeps, CollectInv, PlanInv
    <3>2. CASE ~ Keeps(d)
      BY <1>1, <3>2 DEF CollectInv, PlanInv
    <3> QED
      BY <3>1, <3>2
  <2>3. ASSUME NEW d \in Workers, NEW e \in Workers, worker'[d].plan = worker'[e].plan
        PROVE  d = e \/ worker'[d].plan = None
    BY <1>1, <2>3 DEF Keeps, CollectInv, PlanInv
  <2>4. strays' # {} =>
          /\ head'.barrier # None /\ strays' \subseteq plans'[head'.barrier]
          /\ \A d \in Workers : worker'[d].plan # head'.barrier
    <3>1. strays # {} => head.barrier # None /\ new.barrier = head.barrier
      BY <2>1 DEF CollectInv, PlanInv
    <3> QED
      BY <1>1, <3>1 DEF Keeps, CollectInv, PlanInv
  <2>5. \A k \in stored' : k[1] = "plan" => k[2] \in DOMAIN plans'
    BY DEF CollectInv, PlanInv
  <2> QED
    BY <2>2, <2>3, <2>4, <2>5 DEF PlanInv
<1>9. CoverInv'
  <2>1. \A d \in Workers : Covered(worker'[d].pin) /\ Covered(worker'[d].cand)
    BY <1>1, InitialHeadFacts DEF Keeps, CollectInv, CoverInv
  <2> QED
    BY <2>1 DEF CollectInv, CoverInv
<1> QED
  BY <1>5, <1>6, <1>7, <1>8, <1>9 DEF CollectInv

(* publishHead: the PUT is served, or refused. *)
LEMMA PublishInv ==
    ASSUME CollectInv, NEW c \in Workers, Publish(c)
    PROVE  CollectInv'
<1>1. /\ worker[c].phase = "publishing" /\ UNCHANGED <<stored, plans, late, strays, faults>>
      /\ faults' \in Nat
  BY DEF Publish, CollectInv, TypeOK
<1>2. CASE Matches(Request(c))
  <2> DEFINE new == worker[c].cand
             x == [worker[c] EXCEPT !.phase = "rereading"]
  <2>1. /\ head' = new
        /\ \/ worker[c].plan # None /\ worker' = [worker EXCEPT ![c] = x]
           \/ worker' = [worker EXCEPT ![c] = Rest(c)]
    BY <1>2 DEF Publish, Becomes
  <2>2. /\ x \in WorkerState /\ x.phase = "rereading" /\ x.n = worker[c].n
        /\ x.pin = worker[c].pin /\ x.cand = worker[c].cand /\ x.puts = worker[c].puts
        /\ x.plan = worker[c].plan
    <3>1. worker[c] \in WorkerState /\ "rereading" \in Phases
      BY WorkerFacts DEF CollectInv, Phases
    <3> QED
      BY <3>1 DEF WorkerState
  <2>3. worker[c].puts = {} /\ new \in HeadObject /\ head.pub = worker[c].pin.pub
    BY <1>1, <1>2, WorkerFacts DEF CollectInv, HeadInv, Matches, Request
  <2>4. new.pub = Name(c) /\ Name(c) \notin Based \cup {r.head.pub : r \in late} /\ Name(c) \in Issued
    BY <1>1, NameFacts DEF CollectInv, NameInv
  <2>5. Announces(new) /\ Covered(new) /\ Succeeds(new, {})
    BY <1>1, <2>3 DEF CollectInv, HeadInv, CoverInv
  <2> HIDE DEF x, new
  <2>6. /\ worker' \in [Workers -> WorkerState]
        /\ \/ worker'[c] = x /\ worker[c].plan # None
           \/ worker'[c] = Rest(c)
        /\ \A d \in Workers : d # c => worker'[d] = worker[d]
    BY <2>1, <2>2, RestFacts DEF CollectInv, TypeOK
  <2>7. \A d \in Workers : d # c => Keeps(d) /\ Name(d) # new.pub /\ worker'[d].n = worker[d].n
    BY <2>4, <2>6, NameFacts DEF Keeps, CollectInv
  <2>8. Rest(c).n = worker[c].n
    BY RestFacts DEF CollectInv
  <2>9. ASSUME NEW d \in Workers
        PROVE  /\ worker'[d].n = worker[d].n
               /\ \/ Keeps(d) /\ (worker[d].phase \in {"uploading", "listing", "publishing"} => Name(d) # new.pub)
                  \/ worker'[d] = Rest(d)
                  \/ /\ worker'[d].phase = "rereading" /\ worker[d].phase = "publishing"
                     /\ worker'[d].pin = worker[d].pin /\ worker'[d].cand = worker[d].cand
                     /\ worker'[d].puts = {} /\ worker'[d].plan = worker[d].plan
                     /\ worker[d].plan # None
    <3>1. CASE d # c
      BY <2>7, <3>1
    <3>2. CASE d = c
      BY <1>1, <2>2, <2>3, <2>6, <2>8, <3>2
    <3> QED
      BY <3>1, <3>2
  <2>10. \A r \in late' : r.head.pub # new.pub
    BY <1>1, <2>4
  <2>11. new.pub \in Issued \ Based /\ late' \subseteq late
    BY <1>1, <2>4
  <2>12. head' = new /\ new \in HeadObject
    BY <2>1, <2>3
  <2> QED
    BY <1>1, <2>5, <2>6, <2>9, <2>10, <2>11, <2>12, Install
<1>3. CASE ~ Matches(Request(c))
  <2>1. head' = head /\ Becomes(c, Rest(c))
    BY <1>3 DEF Publish
  <2> QED
    BY <1>1, <2>1, RestStep
<1> QED
  BY <1>2, <1>3

(* A late HEAD PUT is served, refused or lost. *)
LEMMA ServeLateInv ==
    ASSUME CollectInv, NEW r \in late, ServeLate(r)
    PROVE  CollectInv'
<1>1. /\ late' = late \ {r} /\ UNCHANGED <<stored, plans, worker, strays, faults>>
      /\ faults' \in Nat /\ worker' \in [Workers -> WorkerState]
  BY DEF ServeLate, CollectInv, TypeOK
<1>2. \A d \in Workers : Keeps(d)
  BY <1>1 DEF Keeps
<1>3. CASE head' = head
  BY <1>1, <1>2, <1>3, TakeAway
<1>4. CASE Matches(r) /\ head' = r.head
  <2> DEFINE new == r.head
  <2>1. new \in HeadObject /\ r.match = head.pub
    BY <1>4 DEF CollectInv, TypeOK, Matches
  <2>2. Announces(new) /\ Covered(new) /\ Succeeds(new, {})
    BY <2>1 DEF CollectInv, HeadInv, CoverInv
  <2>3. new.pub \in Issued \ Based
    BY DEF CollectInv, NameInv
  <2>4. \A s \in late' : s.head.pub # new.pub
    BY <1>1 DEF CollectInv, NameInv
  <2>5. \A d \in Workers : /\ worker[d].phase \in {"uploading", "listing", "publishing"} => Name(d) # new.pub
                           /\ worker'[d].n = worker[d].n
    BY <1>1 DEF CollectInv, NameInv
  <2>6. head' = new /\ late' \subseteq late
    BY <1>1, <1>4
  <2> HIDE DEF new
  <2> QED
    BY <1>1, <1>2, <2>1, <2>2, <2>3, <2>4, <2>5, <2>6, Install
<1> QED
  BY <1>3, <1>4 DEF ServeLate

-----------------------------------------------------------------------------
(* The steps that add a plan, and those that leave requests behind. *)

(* gc --execute writes its plan, of what the pinned HEAD does not reach,   *)
(* and goes on to publish the barrier.                                     *)
LEMMA GCPlanInv ==
    ASSUME CollectInv, NEW c \in Workers, GCPlan(c)
    PROVE  CollectInv'
<1> DEFINE id == Name(c)
           pin == worker[c].pin
           cand == BarrierHead(pin, id, id)
           x == [worker[c] EXCEPT !.phase = "publishing", !.plan = id, !.cand = cand]
<1>1. /\ worker[c].phase = "listing" /\ stored' = stored \cup {PlanKey(id)}
      /\ UNCHANGED <<head, late, strays, faults>> /\ worker' = [worker EXCEPT ![c] = x]
  BY DEF GCPlan, Becomes, BarrierHead, Name
<1>2. PICK old \in SUBSET (stored \ LiveKeys(pin)) :
        plans' = [i \in DOMAIN plans \cup {id} |-> IF i = id THEN old ELSE plans[i]]
  BY DEF GCPlan, Name
<1>3. /\ id \in Issued /\ id \in Id /\ id \notin DOMAIN plans
      /\ id \notin Based \cup {r.head.pub : r \in late} /\ pin.barrier = None
  BY <1>1, NameFacts DEF CollectInv, NameInv, PlanInv
<1>4. worker[c] \in WorkerState /\ pin \in HeadObject /\ worker[c].n \in Nat
  BY WorkerFacts DEF CollectInv
<1> HIDE DEF id, pin
<1>5. /\ cand \in HeadObject /\ cand.pub = id /\ cand.barrier = id
      /\ LiveKeys(cand) \subseteq LiveKeys(pin) \cup {PlanKey(id)}
      /\ Covered(pin) => Covered(cand)
  <2>1. id # None /\ id \in Id \cup {None}
    BY <1>3, NameAssumption DEF Id
  <2> QED
    BY <1>3, <1>4, <2>1, BarrierHeadFacts
<1> HIDE DEF cand
<1>6. /\ x \in WorkerState /\ x.phase = "publishing" /\ x.n = worker[c].n /\ x.pin = pin
      /\ x.cand = cand /\ x.puts = worker[c].puts /\ x.plan = id
  <2>1. "publishing" \in Phases
    BY DEF Phases
  <2> QED
    BY <1>3, <1>4, <1>5, <2>1 DEF WorkerState, pin
<1> HIDE DEF x
<1>7. /\ worker'[c] = x /\ worker' \in [Workers -> WorkerState]
      /\ \A d \in Workers : d # c => worker'[d] = worker[d]
  BY <1>1, <1>6 DEF CollectInv, TypeOK
<1>8. /\ DOMAIN plans' = DOMAIN plans \cup {id} /\ plans'[id] = old
      /\ \A i \in DOMAIN plans : plans'[i] = plans[i]
  BY <1>2, <1>3
<1>9. Issued \subseteq Issued' /\ IssuedKeys \subseteq IssuedKeys'
  <2>1. x.n >= worker[c].n
    BY <1>4, <1>6
  <2> QED
    BY <1>1, <1>6, <2>1, IssuedGrows DEF CollectInv
<1>10. Based' = Based /\ \A d \in Workers : Name(d)' = Name(d)
  <2>1. \A d \in Workers : worker'[d].pin = worker[d].pin /\ worker'[d].n = worker[d].n
    BY <1>6, <1>7 DEF pin
  <2> QED
    BY <1>1, <2>1 DEF Based, Name
<1>11. PlanKey(id) \notin stored /\ PlanKey(id) \in IssuedKeys /\ PlanKey(id) \in Key
  <2>1. PlanKey(id) \notin stored
    BY <1>3, IssuedKeyFacts DEF CollectInv, PlanInv
  <2>2. PlanKey(id) \in Key
    BY <1>3 DEF PlanKey, Key
  <2> QED
    BY <1>3, <2>1, <2>2, IssuedKeyFacts
<1>12. TypeOK'
  <2>1. plans' \in [DOMAIN plans' -> SUBSET Key] /\ DOMAIN plans' \subseteq Id
    BY <1>2, <1>3 DEF CollectInv, TypeOK
  <2> QED
    BY <1>1, <1>7, <1>11, <2>1 DEF CollectInv, TypeOK
<1>13. NameInv'
  <2>1. \A d \in Workers : worker'[d].puts \subseteq IssuedKeys'
    BY <1>6, <1>7, <1>9 DEF CollectInv, NameInv
  <2>2. \A d \in Workers : worker'[d].phase \in {"uploading", "listing", "publishing"} =>
          Name(d)' \notin Based' \cup {r.head.pub : r \in late'}
    BY <1>1, <1>3, <1>7, <1>10 DEF CollectInv, NameInv, id
  <2>3. \A d \in Workers :
          \/ worker'[d].phase \notin {"uploading", "publishing"}
          \/ worker'[d].phase = "uploading" /\ worker'[d].cand = worker'[d].pin
          \/ worker'[d].cand.pub = Name(d)'
    BY <1>5, <1>6, <1>7, <1>10 DEF CollectInv, NameInv, id
  <2>4. /\ Based' \subseteq Issued' /\ stored' \subseteq IssuedKeys'
        /\ \A r \in late' : r.head.pub \in Issued' \ Based'
        /\ \A r, s \in late' : r.head.pub = s.head.pub => r = s
    BY <1>1, <1>9, <1>10, <1>11 DEF CollectInv, NameInv
  <2>5. DOMAIN plans' \subseteq Issued' /\ \A i \in DOMAIN plans' : plans'[i] \subseteq IssuedKeys'
    BY <1>3, <1>8, <1>9 DEF CollectInv, NameInv
  <2> QED
    BY <2>1, <2>2, <2>3, <2>4, <2>5 DEF NameInv
<1>14. head.barrier # None => head.barrier \in DOMAIN plans /\ plans'[head.barrier] = plans[head.barrier]
  BY <1>8 DEF CollectInv, HeadInv, Announces
<1>15. HeadInv'
  <2>1. \A h : Announces(h) =>
          (h.barrier # None => h.barrier \in DOMAIN plans' /\ plans'[h.barrier] \cap LiveKeys(h) = {})
    BY <1>8 DEF Announces
  <2>2. cand.barrier \in DOMAIN plans' /\ plans'[cand.barrier] \cap LiveKeys(cand) = {}
    BY <1>5, <1>8, <1>11
  <2>3. Unworked => Unworked'
    BY <1>1, <1>6, <1>7 DEF Unworked
  <2>4. \A h, puts : Succeeds(h, puts) =>
          /\ LiveKeys(h) \subseteq stored' \cup puts
          /\ head'.barrier # None => /\ plans'[head'.barrier] \cap LiveKeys(h) = {}
                                     /\ h.barrier # head'.barrier => Unworked'
    BY <1>1, <1>14, <2>3 DEF Succeeds
  <2>5. ASSUME NEW d \in Workers
        PROVE  /\ Announces(worker[d].pin)' /\ Announces(worker[d].cand)'
               /\ worker'[d].phase # "idle" /\ worker'[d].pin.pub = head'.pub => worker'[d].pin = head'
               /\ worker'[d].phase \in {"uploading", "publishing"} /\ worker'[d].pin.pub = head'.pub =>
                    Succeeds(worker[d].cand, worker[d].puts)'
               /\ worker'[d].phase # "uploading" => worker'[d].puts = {}
    <3>1. CASE d = c
      <4>1. Announces(pin) /\ (pin.pub = head.pub => pin = head)
        BY <1>1 DEF CollectInv, HeadInv, pin
      <4>2. Announces(worker[d].pin)' /\ Announces(worker[d].cand)'
        BY <1>6, <1>7, <2>1, <2>2, <3>1, <4>1 DEF Announces
      <4>3. pin.pub = head.pub => LiveKeys(cand) \subseteq stored' /\ head.barrier = None
        BY <1>1, <1>3, <1>5, <4>1 DEF CollectInv, HeadInv
      <4>4. pin.pub = head.pub => Succeeds(worker[d].cand, worker[d].puts)'
        BY <1>1, <1>6, <1>7, <3>1, <4>3 DEF Succeeds
      <4>5. worker[c].puts = {}
        BY <1>1 DEF CollectInv, HeadInv
      <4> QED
        BY <1>1, <1>6, <1>7, <3>1, <4>1, <4>2, <4>4, <4>5
    <3>2. CASE d # c
      <4>1. Announces(worker[d].pin)' /\ Announces(worker[d].cand)'
        BY <1>7, <2>1, <3>2 DEF Announces, CollectInv, HeadInv
      <4>2. worker[d].phase \in {"uploading", "publishing"} /\ worker[d].pin.pub = head.pub =>
              Succeeds(worker[d].cand, worker[d].puts)
        BY DEF CollectInv, HeadInv
      <4>3. worker'[d] = worker[d]
        BY <1>7, <3>2
      <4>4. worker'[d].phase \in {"uploading", "publishing"} /\ worker'[d].pin.pub = head'.pub =>
              Succeeds(worker[d].cand, worker[d].puts)'
        BY <1>1, <2>4, <4>2, <4>3 DEF Succeeds
      <4> QED
        BY <1>1, <4>1, <4>3, <4>4 DEF CollectInv, HeadInv
    <3> QED
      BY <3>1, <3>2
  <2>6. \A r \in late' : Announces(r.head)' /\ (r.match = head'.pub => Succeeds(r.head, {})')
    BY <1>1, <2>1, <2>4 DEF Announces, Succeeds, CollectInv, HeadInv
  <2>7. LiveKeys(head') \subseteq stored' /\ Announces(head)'
    BY <1>1, <2>1 DEF Announces, CollectInv, HeadInv
  <2> QED
    BY <2>5, <2>6, <2>7 DEF HeadInv
<1>16. PlanInv'
  <2>1. ASSUME NEW d \in Workers
        PROVE  /\ \A k \in worker'[d].puts : k[1] # "plan"
               /\ worker'[d].plan # None => worker'[d].plan \in DOMAIN plans'
               /\ worker'[d].phase = "listing" => Name(d)' \notin DOMAIN plans' /\ worker'[d].pin.barrier = None
               /\ worker'[d].phase = "rereading" => worker'[d].plan # None
               /\ worker'[d].phase = "deleting" =>
                    /\ worker'[d].plan # None /\ worker'[d].plan = head'.barrier
                    /\ worker'[d].plan = worker'[d].pin.barrier
                    /\ worker'[d].todo \subseteq plans'[head'.barrier]
               /\ worker'[d].phase = "publishing" =>
                    worker'[d].pin.barrier \in {None, worker'[d].cand.barrier, worker'[d].plan}
               /\ worker'[d].phase = "uploading" => worker'[d].cand.barrier = worker'[d].pin.barrier
    <3>1. CASE d = c
      BY <1>3, <1>6, <1>7, <1>8, <3>1 DEF CollectInv, PlanInv
    <3>2. CASE d # c
      <4>1. Name(d) # id
        BY <3>2, NameFacts DEF CollectInv, id
      <4>2. worker'[d] = worker[d]
        BY <1>7, <3>2
      <4>3. worker[d].phase = "deleting" => head.barrier # None
        BY DEF CollectInv, PlanInv
      <4> QED
        BY <1>1, <1>8, <1>10, <1>14, <4>1, <4>2, <4>3 DEF CollectInv, PlanInv
    <3> QED
      BY <3>1, <3>2
  <2>2. \A d \in Workers : worker[d].plan # id
    <3>1. id # None
      BY <1>3, NameAssumption DEF Id
    <3> QED
      BY <1>3, <3>1 DEF CollectInv, PlanInv
  <2>3. ASSUME NEW d \in Workers, NEW e \in Workers, worker'[d].plan = worker'[e].plan
        PROVE  d = e \/ worker'[d].plan = None
    BY <1>6, <1>7, <2>2, <2>3 DEF CollectInv, PlanInv
  <2>4. strays' # {} =>
          /\ head'.barrier # None /\ strays' \subseteq plans'[head'.barrier]
          /\ \A d \in Workers : worker'[d].plan # head'.barrier
    <3>1. strays # {} => head.barrier # None /\ head.barrier # id
      BY <1>3, <1>14 DEF CollectInv, PlanInv
    <3> QED
      BY <1>1, <1>6, <1>7, <1>14, <3>1 DEF CollectInv, PlanInv
  <2>5. \A k \in stored' : k[1] = "plan" => k[2] \in DOMAIN plans'
    BY <1>1, <1>8, IssuedKeyFacts DEF CollectInv, PlanInv
  <2> QED
    BY <2>1, <2>3, <2>4, <2>5 DEF PlanInv
<1>17. CoverInv'
  <2>1. Covered(pin) /\ Covered(cand)
    BY <1>5 DEF CollectInv, CoverInv, pin
  <2>2. \A d \in Workers : Covered(worker'[d].pin) /\ Covered(worker'[d].cand)
    BY <1>6, <1>7, <2>1 DEF CollectInv, CoverInv
  <2> QED
    BY <1>1, <2>2 DEF CollectInv, CoverInv
<1> QED
  BY <1>12, <1>13, <1>15, <1>16, <1>17 DEF CollectInv

(* A process ends anywhere: some uploads are done, its HEAD PUT or one of  *)
(* its DELETEs may still be served.                                        *)
LEMMA CrashInv ==
    ASSUME CollectInv, NEW c \in Workers, Crash(c)
    PROVE  CollectInv'
<1> DEFINE x == Rest(c)
           r0 == Request(c)
<1>1. /\ worker[c].phase # "idle" /\ faults' \in Nat /\ UNCHANGED <<head, plans>>
      /\ worker' = [worker EXCEPT ![c] = x]
      /\ IF worker[c].phase = "publishing" THEN late' = late \cup {r0} ELSE late' = late
      /\ \/ strays' = strays
         \/ worker[c].phase = "deleting" /\ \E k \in worker[c].todo : strays' = strays \cup {k}
      /\ stored \subseteq stored' /\ stored' \subseteq stored \cup worker[c].puts
  BY DEF Crash, Becomes, CollectInv, TypeOK
<1>2. CASE worker[c].phase # "publishing" /\ strays' = strays
  BY <1>1, <1>2, RestStep DEF Becomes
<1>3. /\ x \in WorkerState /\ x.phase = "idle" /\ x.n = worker[c].n
      /\ x.pin = InitialHead /\ x.cand = InitialHead /\ x.puts = {} /\ x.plan = None
  BY RestFacts DEF CollectInv
<1> HIDE DEF x
<1>4. /\ worker'[c] = x /\ worker' \in [Workers -> WorkerState]
      /\ \A d \in Workers : d # c => worker'[d] = worker[d]
  BY <1>1, <1>3 DEF CollectInv, TypeOK
<1>5. Issued' = Issued /\ IssuedKeys' = IssuedKeys /\ \A d \in Workers : Name(d)' = Name(d)
  <2>1. \A d \in Workers : worker'[d].n = worker[d].n
    BY <1>3, <1>4
  <2>2. \A id \in Workers \X Nat : worker'[id[1]].n = worker[id[1]].n
    BY <2>1
  <2>3. Issued' = Issued
    BY <2>2 DEF Issued
  <2> QED
    BY <2>1, <2>3 DEF IssuedKeys, Name
<1>6. r0.match = worker[c].pin.pub /\ r0.head = worker[c].cand
  BY DEF Request
<1>7. r0 \in [match : Id, head : HeadObject]
  <2>1. worker[c].pin \in HeadObject /\ worker[c].cand \in HeadObject
    BY WorkerFacts DEF CollectInv
  <2>2. worker[c].pin.pub \in Id
    BY <2>1, HeadFacts
  <2> QED
    BY <2>1, <2>2 DEF Request
<1> HIDE DEF r0
<1>8. Based' \subseteq Based
  <2>1. \A d \in Workers : worker'[d].pin.pub \in Based
    BY <1>3, <1>4, InitialHeadFacts DEF Based
  <2>2. \A r \in late' : r.match \in Based
    BY <1>1, <1>6 DEF Based
  <2> QED
    BY <1>1, <2>1, <2>2 DEF Based
<1>9. CASE worker[c].phase = "publishing"
  <2>1. late' = late \cup {r0} /\ strays' = strays /\ stored' = stored
    BY <1>1, <1>9 DEF CollectInv, HeadInv
  <2>2. r0.head.pub = Name(c) /\ Name(c) \in Issued /\ Name(c) \notin Based \cup {r.head.pub : r \in late}
    BY <1>6, <1>9, NameFacts DEF CollectInv, NameInv
  <2>3. TypeOK'
    BY <1>1, <1>4, <1>7, <2>1 DEF CollectInv, TypeOK
  <2>4. NameInv'
    <3>1. \A d \in Workers : worker'[d].puts \subseteq IssuedKeys'
      BY <1>3, <1>4, <1>5 DEF CollectInv, NameInv
    <3>2. \A d \in Workers : worker'[d].phase \in {"uploading", "listing", "publishing"} =>
            Name(d)' \notin Based' \cup {r.head.pub : r \in late'}
      <4> SUFFICES ASSUME NEW d \in Workers,
                          worker'[d].phase \in {"uploading", "listing", "publishing"}
                   PROVE  Name(d)' \notin Based' \cup {r.head.pub : r \in late'}
        OBVIOUS
      <4>1. d # c /\ worker'[d] = worker[d] /\ Name(d)' = Name(d)
        BY <1>3, <1>4, <1>5
      <4>2. Name(d) # Name(c)
        BY <4>1, NameFacts DEF CollectInv
      <4>3. Name(d) \notin Based \cup {r.head.pub : r \in late}
        BY <4>1 DEF CollectInv, NameInv
      <4> QED
        BY <1>8, <2>1, <2>2, <4>1, <4>2, <4>3
    <3>3. \A d \in Workers :
            \/ worker'[d].phase \notin {"uploading", "publishing"}
            \/ worker'[d].phase = "uploading" /\ worker'[d].cand = worker'[d].pin
            \/ worker'[d].cand.pub = Name(d)'
      BY <1>3, <1>4, <1>5 DEF CollectInv, NameInv
    <3>4. /\ Based' \subseteq Issued' /\ stored' \subseteq IssuedKeys'
          /\ DOMAIN plans' \subseteq Issued' /\ \A i \in DOMAIN plans' : plans'[i] \subseteq IssuedKeys'
      BY <1>1, <1>5, <1>8, <2>1 DEF CollectInv, NameInv
    <3>5. \A r \in late' : r.head.pub \in Issued' \ Based'
      BY <1>5, <1>8, <2>1, <2>2 DEF CollectInv, NameInv
    <3>6. \A r, s \in late' : r.head.pub = s.head.pub => r = s
      BY <2>1, <2>2 DEF CollectInv, NameInv
    <3> QED
      BY <3>1, <3>2, <3>3, <3>4, <3>5, <3>6 DEF NameInv
  <2>5. HeadInv'
    <3>1. Unworked => Unworked'
      BY <1>1, <1>3, <1>4, <2>1 DEF Unworked
    <3>2. \A h, puts : Succeeds(h, puts) =>
            /\ LiveKeys(h) \subseteq stored' \cup puts
            /\ head'.barrier # None => /\ plans'[head'.barrier] \cap LiveKeys(h) = {}
                                       /\ h.barrier # head'.barrier => Unworked'
      BY <1>1, <2>1, <3>1 DEF Succeeds
    <3>3. \A d \in Workers :
            /\ Announces(worker[d].pin)' /\ Announces(worker[d].cand)'
            /\ worker'[d].phase # "idle" /\ worker'[d].pin.pub = head'.pub => worker'[d].pin = head'
            /\ worker'[d].phase # "uploading" => worker'[d].puts = {}
      BY <1>1, <1>3, <1>4, InitialHeadFacts DEF Announces, CollectInv, HeadInv
    <3>4. ASSUME NEW d \in Workers, worker'[d].phase \in {"uploading", "publishing"},
                 worker'[d].pin.pub = head'.pub
          PROVE  Succeeds(worker[d].cand, worker[d].puts)'
      <4>1. worker'[d] = worker[d]
        BY <1>3, <1>4, <3>4
      <4>2. Succeeds(worker[d].cand, worker[d].puts)
        BY <1>1, <3>4, <4>1 DEF CollectInv, HeadInv
      <4> QED
        BY <3>2, <4>1, <4>2 DEF Succeeds
    <3>5. \A r \in late' : Announces(r.head)'
      BY <1>1, <1>6, <2>1 DEF Announces, CollectInv, HeadInv
    <3>6. \A r \in late' : r.match = head'.pub => Succeeds(r.head, {})
      BY <1>1, <1>6, <1>9, <2>1 DEF CollectInv, HeadInv
    <3>7. \A r \in late' : r.match = head'.pub => Succeeds(r.head, {})'
      BY <3>2, <3>6 DEF Succeeds
    <3>8. LiveKeys(head') \subseteq stored' /\ Announces(head)'
      BY <1>1, <2>1 DEF Announces, CollectInv, HeadInv
    <3> QED
      BY <3>3, <3>4, <3>5, <3>7, <3>8 DEF HeadInv
  <2>6. PlanInv'
    BY <1>1, <1>3, <1>4, <1>5, <2>1 DEF CollectInv, PlanInv
  <2>7. CoverInv'
    <3>1. \A d \in Workers : Covered(worker'[d].pin) /\ Covered(worker'[d].cand)
      BY <1>3, <1>4, InitialHeadFacts DEF CollectInv, CoverInv
    <3>2. \A r \in late' : Covered(r.head)
      BY <1>6, <2>1 DEF CollectInv, CoverInv
    <3> QED
      BY <1>1, <3>1, <3>2 DEF CollectInv, CoverInv
  <2> QED
    BY <2>3, <2>4, <2>5, <2>6, <2>7 DEF CollectInv
<1>10. CASE worker[c].phase = "deleting"
  <2>1. /\ late' = late /\ stored' = stored /\ strays \subseteq strays'
        /\ head.barrier # None /\ worker[c].plan = head.barrier
        /\ worker[c].todo \subseteq plans[head.barrier]
    BY <1>1, <1>10 DEF CollectInv, HeadInv, PlanInv
  <2>2. strays = {} /\ strays' \subseteq plans[head.barrier] /\ plans[head.barrier] \subseteq Key
    <3>1. strays = {}
      BY <2>1 DEF CollectInv, PlanInv
    <3>2. head.barrier \in DOMAIN plans
      BY <2>1 DEF CollectInv, HeadInv, Announces
    <3> QED
      BY <1>1, <2>1, <3>1, <3>2 DEF CollectInv, TypeOK
  <2>3. \A d \in Workers : worker'[d].plan # head.barrier
    BY <1>3, <1>4, <2>1 DEF CollectInv, PlanInv
  <2>4. ~ Unworked
    BY <1>10, <2>1 DEF Unworked
  <2>5. TypeOK'
    BY <1>1, <1>4, <2>1, <2>2 DEF CollectInv, TypeOK
  <2>6. NameInv'
    <3>1. \A d \in Workers : worker'[d].puts \subseteq IssuedKeys'
      BY <1>3, <1>4, <1>5 DEF CollectInv, NameInv
    <3>2. \A d \in Workers :
            /\ worker'[d].phase \in {"uploading", "listing", "publishing"} =>
                 Name(d)' \notin Based' \cup {r.head.pub : r \in late'}
            /\ \/ worker'[d].phase \notin {"uploading", "publishing"}
               \/ worker'[d].phase = "uploading" /\ worker'[d].cand = worker'[d].pin
               \/ worker'[d].cand.pub = Name(d)'
      BY <1>3, <1>4, <1>5, <1>8, <2>1 DEF CollectInv, NameInv
    <3>3. /\ Based' \subseteq Issued' /\ stored' \subseteq IssuedKeys'
          /\ DOMAIN plans' \subseteq Issued' /\ \A i \in DOMAIN plans' : plans'[i] \subseteq IssuedKeys'
          /\ \A r \in late' : r.head.pub \in Issued' \ Based'
          /\ \A r, s \in late' : r.head.pub = s.head.pub => r = s
      BY <1>1, <1>5, <1>8, <2>1 DEF CollectInv, NameInv
    <3> QED
      BY <3>1, <3>2, <3>3 DEF NameInv
  <2>7. HeadInv'
    <3>1. \A h, puts : Succeeds(h, puts) =>
            /\ LiveKeys(h) \subseteq stored' \cup puts
            /\ plans'[head'.barrier] \cap LiveKeys(h) = {}
            /\ h.barrier = head'.barrier
      BY <1>1, <2>1, <2>4 DEF Succeeds
    <3>2. \A d \in Workers :
            /\ Announces(worker[d].pin)' /\ Announces(worker[d].cand)'
            /\ worker'[d].phase # "idle" /\ worker'[d].pin.pub = head'.pub => worker'[d].pin = head'
            /\ worker'[d].phase # "uploading" => worker'[d].puts = {}
      BY <1>1, <1>3, <1>4, InitialHeadFacts DEF Announces, CollectInv, HeadInv
    <3>3. ASSUME NEW d \in Workers, worker'[d].phase \in {"uploading", "publishing"},
                 worker'[d].pin.pub = head'.pub
          PROVE  Succeeds(worker[d].cand, worker[d].puts)'
      <4>1. worker'[d] = worker[d]
        BY <1>3, <1>4, <3>3
      <4>2. Succeeds(worker[d].cand, worker[d].puts)
        BY <1>1, <3>3, <4>1 DEF CollectInv, HeadInv
      <4> QED
        BY <3>1, <4>1, <4>2 DEF Succeeds
    <3>4. \A r \in late' : Announces(r.head)' /\ (r.match = head'.pub => Succeeds(r.head, {}))
      BY <1>1, <2>1 DEF Announces, CollectInv, HeadInv
    <3>5. \A r \in late' : r.match = head'.pub => Succeeds(r.head, {})'
      BY <3>1, <3>4 DEF Succeeds
    <3>6. LiveKeys(head') \subseteq stored' /\ Announces(head)'
      BY <1>1, <2>1 DEF Announces, CollectInv, HeadInv
    <3> QED
      BY <3>2, <3>3, <3>4, <3>5, <3>6 DEF HeadInv
  <2>8. PlanInv'
    BY <1>1, <1>3, <1>4, <1>5, <2>1, <2>2, <2>3 DEF CollectInv, PlanInv
  <2>9. CoverInv'
    <3>1. \A d \in Workers : Covered(worker'[d].pin) /\ Covered(worker'[d].cand)
      BY <1>3, <1>4, InitialHeadFacts DEF CollectInv, CoverInv
    <3> QED
      BY <1>1, <2>1, <3>1 DEF CollectInv, CoverInv
  <2> QED
    BY <2>5, <2>6, <2>7, <2>8, <2>9 DEF CollectInv
<1> QED
  BY <1>1, <1>2, <1>9, <1>10

(* What initialize leaves satisfies the invariant. *)
LEMMA InitInv == Init => CollectInv
<1> SUFFICES ASSUME Init
             PROVE  CollectInv
  OBVIOUS
<1> DEFINE y == Idle(InitialHead, 0)
<1>1. /\ y \in WorkerState /\ y.phase = "idle" /\ y.n = 0 /\ y.pin = InitialHead
      /\ y.cand = InitialHead /\ y.puts = {} /\ y.plan = None
  <2>1. "idle" \in Phases
    BY DEF Phases
  <2> QED
    BY <2>1, InitialHeadFacts DEF Idle, WorkerState
<1> HIDE DEF y
<1>2. worker \in [Workers -> WorkerState] /\ \A c \in Workers : worker[c] = y
  BY <1>1 DEF Init, y
<1>3. /\ head = InitialHead /\ stored = LiveKeys(InitialHead) /\ plans = << >> /\ late = {}
      /\ strays = {} /\ faults = 0
  BY DEF Init
<1>4. TypeOK
  BY <1>2, <1>3, InitialHeadFacts, LiveKeysType DEF TypeOK
<1>5. NameInv
  <2>1. Based = {Genesis} /\ Genesis \in Issued
    BY <1>1, <1>2, <1>3, InitialHeadFacts DEF Based, Issued
  <2>2. stored \subseteq IssuedKeys
    BY <1>3, <2>1, InitialHeadFacts, IssuedKeyFacts
  <2> QED
    BY <1>1, <1>2, <1>3, <2>1, <2>2 DEF NameInv
<1>6. HeadInv
  BY <1>1, <1>2, <1>3, InitialHeadFacts DEF HeadInv, Announces
<1>7. PlanInv
  <2>1. \A k \in stored : k[1] # "plan"
    BY <1>3, InitialHeadFacts, IssuedKeyFacts
  <2> QED
    BY <1>1, <1>2, <1>3, <2>1 DEF PlanInv
<1>8. CoverInv
  BY <1>1, <1>2, <1>3, InitialHeadFacts DEF CoverInv
<1> QED
  BY <1>4, <1>5, <1>6, <1>7, <1>8 DEF CollectInv

(* No step of any process or of the store breaks the invariant. *)
LEMMA NextInv == ~ Overlap /\ CollectInv /\ [Next]_vars => CollectInv'
<1> SUFFICES ASSUME ~ Overlap, CollectInv, [Next]_vars
             PROVE  CollectInv'
  OBVIOUS
<1>1. CASE UNCHANGED vars
  <2>1. /\ UNCHANGED <<head, plans>> /\ faults' \in Nat /\ late' \subseteq late
        /\ strays' \subseteq strays /\ stored' = stored /\ worker' \in [Workers -> WorkerState]
    BY <1>1 DEF vars, CollectInv, TypeOK
  <2>2. \A d \in Workers : Keeps(d)
    BY <1>1 DEF vars, Keeps
  <2> QED
    BY <2>1, <2>2, TakeAway
<1>2. CASE Next
  BY <1>2, PushInv, MaintenanceInv, UploadInv, PublishInv, CrashInv, GCExecuteInv, GCPlanInv,
     GCRereadInv, GCResumeInv, DeleteCandidateInv, GCFinishInv, GCAbortInv, ServeLateInv,
     ServeStrayInv DEF Next
<1> QED
  BY <1>1, <1>2

-----------------------------------------------------------------------------
(* The theorems. *)

(* Every reachable state satisfies the inductive invariant, when plans are *)
(* resumed and aborted only after nobody works on them.                    *)
THEOREM InvariantHolds == ~ Overlap => (Spec => []CollectInv)
<1>1. Init => CollectInv
  BY InitInv
<1> SUFFICES ASSUME ~ Overlap
             PROVE  Spec => []CollectInv
  OBVIOUS
<1>2. CollectInv /\ [Next]_vars => CollectInv'
  BY NextInv
<1> QED
  BY <1>1, <1>2, PTL DEF Spec

(* Packs hold commits, plans and deletes name managed keys, and HEAD keeps *)
(* its format.                                                             *)
THEOREM TypeCorrect == ~ Overlap => (Spec => []TypeOK)
<1>1. CollectInv => TypeOK
  BY DEF CollectInv
<1> QED
  BY <1>1, InvariantHolds, PTL

(* git3 gc and Maintenance never lose an object that HEAD reaches.         *)
THEOREM CollectionIsSafe == ~ Overlap => (Spec => []LiveKeysStored)
<1>1. CollectInv => LiveKeysStored
  BY DEF CollectInv, HeadInv, LiveKeysStored
<1> QED
  BY <1>1, InvariantHolds, PTL

(* The barrier keeps publishers off the candidates of its plan. *)
THEOREM BarrierHolds == ~ Overlap => (Spec => []BarrierProtects)
<1>1. CollectInv => BarrierProtects
  BY DEF CollectInv, HeadInv, Announces, BarrierProtects
<1> QED
  BY <1>1, InvariantHolds, PTL

(* Bounded compaction and merges of whatever depth keep every object of    *)
(* the branch in the packs and WAL packs of HEAD.                          *)
THEOREM CompactionKeepsBranch == ~ Overlap => (Spec => []BranchCovered)
<1>1. CollectInv => BranchCovered
  BY CoveredBranch DEF CollectInv, TypeOK, CoverInv, BranchCovered
<1> QED
  BY <1>1, InvariantHolds, PTL

(* Objects disappear only from the plan that HEAD announces. *)
THEOREM OnlyAnnouncedDeletes == ~ Overlap => (Spec => DeletesAnnounced)
<1>1. CollectInv /\ [Next]_vars =>
        [stored \subseteq stored' \/
          (head.barrier # None /\ stored \ stored' \subseteq plans[head.barrier])]_vars
  <2> SUFFICES ASSUME CollectInv, Next
               PROVE  stored \subseteq stored' \/
                       (head.barrier # None /\ stored \ stored' \subseteq plans[head.barrier])
    OBVIOUS
  <2>1. ASSUME NEW c \in Workers, DeleteCandidate(c)
        PROVE  head.barrier # None /\ stored \ stored' \subseteq plans[head.barrier]
    BY <2>1 DEF DeleteCandidate, CollectInv, PlanInv
  <2>2. ASSUME NEW k \in strays, ServeStray(k)
        PROVE  head.barrier # None /\ stored \ stored' \subseteq plans[head.barrier]
    BY <2>2 DEF ServeStray, CollectInv, PlanInv
  <2>3. ASSUME NEW c \in Workers, ~ DeleteCandidate(c),
               \/ Push(c) \/ Maintenance(c) \/ Upload(c) \/ Publish(c) \/ Crash(c)
               \/ GCExecute(c) \/ GCPlan(c) \/ GCReread(c) \/ GCResume(c)
               \/ GCFinish(c) \/ GCAbort(c)
        PROVE  stored \subseteq stored'
    BY <2>3 DEF Push, Maintenance, Upload, Publish, Crash, GCExecute, GCPlan, GCReread,
                GCResume, GCFinish, GCAbort
  <2>4. ASSUME NEW r \in late, ServeLate(r)
        PROVE  stored \subseteq stored'
    BY <2>4 DEF ServeLate
  <2> QED
    BY <2>1, <2>2, <2>3, <2>4 DEF Next
<1> QED
  BY <1>1, InvariantHolds, PTL DEF Spec, DeletesAnnounced

=============================================================================
