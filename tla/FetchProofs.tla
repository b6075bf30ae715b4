---------------------------- MODULE FetchProofs ----------------------------
(***************************************************************************)
(* Machine-checked proofs about Fetch, for any number of fetches at once,  *)
(* any history of the remote and any bounds.                               *)
(***************************************************************************)
EXTENDS Fetch, FiniteSetTheorems, SequenceTheorems, WellFoundedInduction, TLAPS

-----------------------------------------------------------------------------
(* Commits and what they reach. *)

(* A non-empty set of numbers has a least one: what an induction over the  *)
(* commits comes down to.                                                  *)
LEMMA LeastNumber ==
    ASSUME NEW T \in SUBSET Nat, T # {}
    PROVE  \E m \in T : \A n \in T : m <= n
<1>1. PICK m \in T : \A n \in T : ~ (<<n, m>> \in OpToRel(<, Nat))
  BY NatLessThanWellFounded, WFMin, Zenon
<1>2. \A n \in T : ~ (n < m)
  BY <1>1 DEF OpToRel
<1> QED
  BY <1>2

(* A commit graph: parents come before their children. *)
Acyclic(ps) == ps \in Seq(Nat) /\ \A i \in 1..Len(ps) : ps[i] < i

ReachStep(ps, g, i) == IF i = 0 THEN {} ELSE {i} \cup g[ps[i]]
ReachMap(ps) == CHOOSE g : g = [i \in 0..Len(ps) |-> ReachStep(ps, g, i)]
ReachIn(ps, c) == ReachMap(ps)[c]

(* Reach is ReachIn of the commit graph, before and after a step. *)
LEMMA ReachIsReachIn == \A c : Reach(c) = ReachIn(parents, c) /\ Reach(c)' = ReachIn(parents', c)
  BY DEF Reach, ReachIn, ReachMap, ReachStep

(* The history of a commit is well defined: it goes from child to parent. *)
LEMMA ReachMapDef ==
    ASSUME NEW ps, Acyclic(ps)
    PROVE  ReachMap(ps) = [i \in 0..Len(ps) |-> ReachStep(ps, ReachMap(ps), i)]
<1> DEFINE N == Len(ps)
           Step(g, i) == ReachStep(ps, g, i)
           T == {n \in 0..N : ~ \E g : /\ DOMAIN g = 0..n
                                       /\ \A i \in 0..n : g[i] = Step(g, i)}
<1>1. N \in Nat /\ \A i \in 1..N : ps[i] \in 0..(i - 1)
  BY DEF Acyclic
<1>3. T = {}
  <2> SUFFICES ASSUME T # {} PROVE FALSE
    OBVIOUS
  <2>1. PICK n \in T : \A m \in T : n <= m
    <3>1. T \in SUBSET Nat
      BY <1>1
    <3> HIDE DEF T
    <3> QED
      BY <3>1, LeastNumber
  <2>2. n \in Nat /\ n <= N
    BY <1>1
  <2>3. CASE n = 0
    <3> DEFINE g == [i \in 0..0 |-> {}]
    <3>1. DOMAIN g = 0..n /\ \A i \in 0..n : g[i] = Step(g, i)
      BY <2>3 DEF ReachStep
    <3> QED
      BY <3>1
  <2>4. CASE n # 0
    <3>1. n - 1 \in 0..N /\ n - 1 \notin T
      BY <1>1, <2>1, <2>2, <2>4
    <3>2. PICK g : DOMAIN g = 0..(n - 1) /\ \A i \in 0..(n - 1) : g[i] = Step(g, i)
      BY <3>1
    <3> DEFINE h == [i \in 0..n |-> IF i = n THEN Step(g, n) ELSE g[i]]
    <3>3. ASSUME NEW i \in 0..n
          PROVE  h[i] = Step(h, i)
      <4>1. i # 0 => ps[i] \in 0..n /\ ps[i] # n
        BY <1>1, <2>2
      <4>2. i # 0 => h[ps[i]] = g[ps[i]]
        BY <4>1
      <4>3. Step(h, i) = Step(g, i)
        BY <4>2 DEF ReachStep
      <4>4. CASE i = n
        BY <4>3, <4>4
      <4>5. CASE i # n
        BY <2>2, <3>2, <4>3, <4>5
      <4> QED
        BY <4>4, <4>5
    <3>4. DOMAIN h = 0..n
      OBVIOUS
    <3> HIDE DEF h
    <3> QED
      BY <3>3, <3>4
  <2> QED
    BY <2>3, <2>4
<1>4. PICK g : DOMAIN g = 0..N /\ \A i \in 0..N : g[i] = Step(g, i)
  BY <1>1, <1>3
<1> DEFINE f == [i \in 0..N |-> g[i]]
<1>5. f = [i \in 0..N |-> Step(f, i)]
  <2>1. ASSUME NEW i \in 0..N
        PROVE  f[i] = Step(f, i)
    <3>1. i # 0 => ps[i] \in 0..N
      BY <1>1
    <3>2. Step(f, i) = Step(g, i)
      BY <3>1 DEF ReachStep
    <3> QED
      BY <1>4, <3>2
  <2> QED
    BY <2>1
<1> HIDE DEF f, Step
<1> QED
  BY <1>5 DEF Step, ReachMap

(* A commit reaches itself and what its parent reaches. *)
LEMMA ReachInDef ==
    ASSUME NEW ps, Acyclic(ps)
    PROVE  /\ ReachIn(ps, 0) = {}
           /\ \A c \in 1..Len(ps) : /\ ps[c] \in 0..(c - 1)
                                    /\ ReachIn(ps, c) = {c} \cup ReachIn(ps, ps[c])
<1>1. Len(ps) \in Nat /\ \A c \in 1..Len(ps) : ps[c] \in 0..(c - 1) /\ ps[c] \in 0..Len(ps)
  BY DEF Acyclic
<1>2. \A i \in 0..Len(ps) : ReachMap(ps)[i] = ReachStep(ps, ReachMap(ps), i)
  BY ReachMapDef
<1>3. ReachIn(ps, 0) = {}
  <2>1. 0 \in 0..Len(ps)
    BY <1>1
  <2> QED
    BY <1>2, <2>1 DEF ReachIn, ReachStep
<1>4. ASSUME NEW c \in 1..Len(ps)
      PROVE  ReachIn(ps, c) = {c} \cup ReachIn(ps, ps[c])
  <2>1. c \in 0..Len(ps) /\ c # 0
    BY <1>1
  <2> QED
    BY <1>2, <2>1 DEF ReachIn, ReachStep
<1> QED
  BY <1>1, <1>3, <1>4

(* What a commit reaches is not younger than it, and every parent of what  *)
(* it reaches is reached.                                                  *)
LEMMA ReachInClosed ==
    ASSUME NEW ps, Acyclic(ps), NEW c \in 0..Len(ps)
    PROVE  /\ ReachIn(ps, c) \subseteq 1..c
           /\ \A d \in ReachIn(ps, c) : ps[d] \in ReachIn(ps, c) \cup {0}
<1> DEFINE Fine(n) == /\ ReachIn(ps, n) \subseteq 1..n
                      /\ \A d \in ReachIn(ps, n) : ps[d] \in ReachIn(ps, n) \cup {0}
           T == {n \in 0..Len(ps) : ~ Fine(n)}
<1>1. Len(ps) \in Nat
  BY DEF Acyclic
<1>2. T = {}
  <2> SUFFICES ASSUME T # {} PROVE FALSE
    OBVIOUS
  <2>1. PICK n \in T : \A m \in T : n <= m
    <3>1. T \in SUBSET Nat
      BY <1>1
    <3> HIDE DEF T
    <3> QED
      BY <3>1, LeastNumber
  <2>2. n \in Nat /\ n <= Len(ps) /\ ~ Fine(n)
    BY <1>1
  <2>3. n # 0
    BY <2>2, ReachInDef
  <2>4. n \in 1..Len(ps) /\ ps[n] \in 0..(n - 1) /\ ReachIn(ps, n) = {n} \cup ReachIn(ps, ps[n])
    BY <1>1, <2>2, <2>3, ReachInDef
  <2>5. ps[n] \in 0..Len(ps) /\ ~ (n <= ps[n])
    BY <1>1, <2>2, <2>4
  <2>6. Fine(ps[n])
    BY <2>1, <2>5
  <2>7. ps[n] # 0 => ps[n] \in ReachIn(ps, ps[n])
    <3> SUFFICES ASSUME ps[n] # 0 PROVE ps[n] \in ReachIn(ps, ps[n])
      OBVIOUS
    <3>1. ps[n] \in 1..Len(ps)
      BY <2>5
    <3> QED
      BY <3>1, ReachInDef
  <2>8. ReachIn(ps, n) \subseteq 1..n
    <3>1. 1..ps[n] \subseteq 1..n /\ n \in 1..n
      BY <2>2, <2>4
    <3> QED
      BY <2>4, <2>6, <3>1
  <2>9. \A d \in ReachIn(ps, n) : ps[d] \in ReachIn(ps, n) \cup {0}
    BY <2>4, <2>6, <2>7
  <2> QED
    BY <2>2, <2>8, <2>9
<1> QED
  BY <1>1, <1>2

(* A new commit does not change what the others reach. *)
LEMMA ReachInAppend ==
    ASSUME NEW ps, Acyclic(ps), NEW p \in 0..Len(ps)
    PROVE  /\ Acyclic(Append(ps, p)) /\ Len(Append(ps, p)) = Len(ps) + 1
           /\ \A c \in 0..Len(ps) : ReachIn(Append(ps, p), c) = ReachIn(ps, c)
<1> DEFINE qs == Append(ps, p)
           T == {n \in 0..Len(ps) : ReachIn(qs, n) # ReachIn(ps, n)}
<1>1. ps \in Seq(Nat) /\ Len(ps) \in Nat /\ p \in Nat
  BY DEF Acyclic
<1>2. qs \in Seq(Nat) /\ Len(qs) = Len(ps) + 1 /\ qs[Len(ps) + 1] = p
      /\ \A i \in 1..Len(ps) : qs[i] = ps[i]
  BY <1>1
<1>3. Acyclic(qs)
  <2>1. ASSUME NEW i \in 1..Len(qs)
        PROVE  qs[i] < i
    <3>1. CASE i = Len(ps) + 1
      BY <1>1, <1>2, <3>1
    <3>2. CASE i # Len(ps) + 1
      <4>1. i \in 1..Len(ps)
        BY <1>1, <1>2, <3>2
      <4> QED
        BY <1>2, <4>1 DEF Acyclic
    <3> QED
      BY <3>1, <3>2
  <2> QED
    BY <1>2, <2>1 DEF Acyclic
<1> HIDE DEF qs
<1>4. T = {}
  <2> SUFFICES ASSUME T # {} PROVE FALSE
    OBVIOUS
  <2>1. PICK n \in T : \A m \in T : n <= m
    <3>1. T \in SUBSET Nat
      BY <1>1
    <3> HIDE DEF T
    <3> QED
      BY <3>1, LeastNumber
  <2>2. n \in Nat /\ n <= Len(ps) /\ ReachIn(qs, n) # ReachIn(ps, n)
    BY <1>1
  <2>3. n # 0
    BY <2>2, <1>3, ReachInDef
  <2>4. n \in 1..Len(ps) /\ n \in 1..Len(qs)
    BY <1>1, <1>2, <2>2, <2>3
  <2>5. ps[n] \in 0..(n - 1) /\ ReachIn(ps, n) = {n} \cup ReachIn(ps, ps[n])
    BY <2>4, ReachInDef
  <2>6. ReachIn(qs, n) = {n} \cup ReachIn(qs, ps[n])
    <3>1. qs[n] = ps[n]
      BY <1>2, <2>4
    <3>2. ReachIn(qs, n) = {n} \cup ReachIn(qs, qs[n])
      BY <1>3, <2>4, ReachInDef
    <3> QED
      BY <3>1, <3>2
  <2>7. ps[n] \in 0..Len(ps) /\ ~ (n <= ps[n])
    BY <1>1, <2>2, <2>5
  <2>8. ReachIn(qs, ps[n]) = ReachIn(ps, ps[n])
    BY <2>1, <2>7
  <2> QED
    BY <2>2, <2>5, <2>6, <2>8
<1> QED
  BY <1>2, <1>3, <1>4 DEF qs

-----------------------------------------------------------------------------
(* The invariant, cut in two: the shared state, and one part per process.  *)

HasRead == {"reading-head", "reading-refs", "checking", "asking"}
HasState == {"advertised", "locked", "choosing", "packs", "wal", "writing"}
Holding == {"locked", "choosing", "packs", "wal", "writing", "ok"}

(* What a bootstrap knows between two WAL packs. *)
UpTo(p, k) ==
    /\ k \in 1..(Gen(p.state) + 1)
    /\ p.todo = k..Gen(p.state)
    /\ Reach(At(p.state, k - 1)) \subseteq objs

AtPoint(h) == curFile # None /\ curFile.gen = Gen(h) /\ curFile.tx = Tip(h)

(* The part of process f, in state p. *)
Fits(f, p) ==
    /\ p.phase \in HasRead => curFile # None /\ \E h \in past : p.c = CursorOf(h)
    /\ p.phase \in HasRead \ {"reading-head"} => p.hb \in past
    /\ p.phase = "asking" => \E h \in past : p.rb = SnapshotOf(h)
    /\ p.phase \in HasState => p.state \in past
    /\ p.phase \in Holding => lock = f
    /\ p.half # None => p.phase = "packs" /\ p.half \in p.need
    /\ p.phase = "packs" =>
         p.path = "bootstrap" /\ p.need \subseteq p.state.packs
         /\ UNION (p.state.packs \ p.need) \subseteq objs
    /\ p.phase = "wal" =>
         p.todo \subseteq 1..Gen(p.state) /\ (p.path = "incremental" \/ \E k : UpTo(p, k))
    /\ p.phase = "writing" /\ p.file <= 2 => Connected(p.state) \/ AtPoint(p.state)
    /\ p.phase = "advertised" => p.state = p.seen /\ p.want = Tip(p.state)
    /\ p.phase = "failed" => p.lost

RemoteTypes == head \in HeadObject /\ past \subseteq HeadObject /\ parents \in Seq(0..MaxHeads)
LocalTypes ==
    /\ objs \subseteq Commits /\ pairs \subseteq SUBSET Commits /\ halves \subseteq SUBSET Commits
    /\ snapFile \in SnapshotFile \cup {None}
    /\ curFile \in CursorFile \cup {None}
    /\ headFile \in HeadObject \cup {None}
    /\ mapped \in BOOLEAN
    /\ lock \in Fetchers \cup {None}
    /\ ops \in 0..MaxOps
Shared ==
    /\ headFile # None => headFile \in past
    /\ snapFile # None => \E h \in past : snapFile = SnapshotOf(h)
    /\ curFile # None => \E h \in past : curFile = CursorOf(h)
    /\ \A p \in pairs : p \subseteq objs

Parted ==
    /\ RemoteTypes /\ LocalTypes /\ RemoteInv /\ Shared
    /\ proc \in [Fetchers -> Process]
    /\ \A f \in Fetchers : Fits(f, proc[f])

(* The parts, and the whole. *)
LEMMA Parts == FetchInv <=> Parted
<1> USE DEF HasRead, HasState, Holding, Parted
<1>1. ASSUME FetchInv PROVE RemoteTypes /\ LocalTypes /\ RemoteInv /\ Shared
  BY <1>1 DEF FetchInv, TypeOK, FileInv, InstallInv, RemoteTypes, LocalTypes, Shared
<1>2. ASSUME FetchInv, NEW f \in Fetchers PROVE Fits(f, proc[f])
  BY <1>2, SMTT(30) DEF FetchInv, FileInv, InstallInv, AdvertisedWasHead, OnlyRemoteFailures, Fits, UpTo, AtPoint
<1>3. ASSUME FetchInv PROVE proc \in [Fetchers -> Process]
  BY <1>3 DEF FetchInv, TypeOK
<1>4. ASSUME RemoteTypes, LocalTypes, RemoteInv, Shared, proc \in [Fetchers -> Process],
             \A f \in Fetchers : Fits(f, proc[f])
      PROVE  FetchInv
  <2>1. TypeOK
    BY <1>4 DEF TypeOK, RemoteTypes, LocalTypes
  <2>2. FileInv
    BY <1>4 DEF FileInv, Shared, Fits
  <2>3. InstallInv
    <3> SUFFICES ASSUME NEW f \in Fetchers
                 PROVE  InstallInv!2!(f)
      BY <1>4 DEF InstallInv, Shared
    <3>1. Fits(f, proc[f])
      BY <1>4
    <3> QED
      BY <3>1 DEF Fits, UpTo, AtPoint
  <2>4. AdvertisedWasHead /\ OnlyRemoteFailures
    BY <1>4 DEF AdvertisedWasHead, OnlyRemoteFailures, Fits
  <2> QED
    BY <1>4, <2>1, <2>2, <2>3, <2>4 DEF FetchInv
<1> QED
  BY <1>1, <1>2, <1>3, <1>4

(* The same after a step. *)
LEMMA PartsNext == FetchInv' <=> Parted'
  BY Parts, PTL

(* The commit graph of a state with the invariant. *)
LEMMA GraphFacts ==
    ASSUME RemoteTypes, RemoteInv
    PROVE  /\ Acyclic(parents) /\ Len(parents) \in Nat /\ Len(parents) <= MaxHeads
           /\ Cardinality(past) \in Nat /\ Cardinality(past) <= MaxHeads /\ MaxHeads \in Nat
           /\ Reach(0) = {}
           /\ \A c \in 0..Len(parents) :
                /\ Reach(c) \subseteq 1..c /\ Reach(c) \subseteq Commits
                /\ \A d \in Reach(c) : parents[d] \in Reach(c) \cup {0}
<1>1. Len(parents) \in Nat /\ MaxHeads \in Nat /\ parents \in Seq(Nat)
  BY BoundAssumption DEF RemoteTypes
<1>2. Cardinality(past) \in Nat /\ Cardinality(past) <= MaxHeads
  BY FS_CardinalityType DEF RemoteInv
<1>3. Acyclic(parents) /\ Len(parents) <= MaxHeads
  BY <1>1, <1>2 DEF RemoteInv, Acyclic
<1>4. ASSUME NEW c \in 0..Len(parents)
      PROVE  /\ Reach(c) \subseteq 1..c /\ Reach(c) \subseteq Commits
             /\ \A d \in Reach(c) : parents[d] \in Reach(c) \cup {0}
  <2>1. /\ Reach(c) \subseteq 1..c
        /\ \A d \in Reach(c) : parents[d] \in Reach(c) \cup {0}
    BY <1>3, ReachInClosed, ReachIsReachIn
  <2>2. 1..c \subseteq Commits
    BY <1>1, <1>3 DEF Commits
  <2> QED
    BY <2>1, <2>2
<1>5. Reach(0) = {}
  BY <1>3, ReachInDef, ReachIsReachIn
<1> QED
  BY <1>1, <1>2, <1>3, <1>4, <1>5

(* What a published HEAD says. *)
LEMMA HeadFacts ==
    ASSUME RemoteTypes, RemoteInv, NEW h \in past
    PROVE  /\ h \in HeadObject /\ h.log \in Seq(Commits) /\ h.packs \subseteq SUBSET Commits
           /\ h.pub \in 1..MaxHeads
           /\ Gen(h) \in Nat /\ Gen(h) <= MaxHeads /\ h.floor \in 0..Gen(h)
           /\ Tip(h) \in 0..MaxHeads /\ Tip(h) = At(h, Gen(h))
           /\ \A g \in 0..Gen(h) : At(h, g) \in 0..Len(parents)
           /\ Reach(At(h, h.floor)) \subseteq UNION h.packs
           /\ SnapshotOf(h) \in SnapshotFile /\ CursorOf(h) \in CursorFile
<1>1. h \in HeadObject /\ Sound(h)
  BY DEF RemoteTypes, RemoteInv
<1>2. h.log \in Seq(Commits) /\ h.packs \subseteq SUBSET Commits /\ h.pub \in 1..MaxHeads /\ h.floor \in Nat
  BY <1>1 DEF HeadObject
<1>3. Gen(h) \in Nat /\ Gen(h) <= MaxHeads /\ h.floor \in 0..Gen(h)
  BY <1>1, <1>2, GraphFacts DEF Gen, Sound
<1>4. ASSUME NEW g \in 0..Gen(h) PROVE At(h, g) \in 0..Len(parents)
  <2>1. CASE g = 0
    BY <2>1, GraphFacts DEF At
  <2>2. CASE g # 0
    <3>1. g \in 1..Gen(h)
      BY <1>3, <2>2
    <3> QED
      BY <1>1, <2>2, <3>1 DEF At, Sound
  <2> QED
    BY <2>1, <2>2
<1>5. Tip(h) \in 0..MaxHeads /\ Tip(h) = At(h, Gen(h))
  <2>1. Gen(h) \in 0..Gen(h)
    BY <1>3
  <2>2. At(h, Gen(h)) \in 0..Len(parents)
    BY <1>4, <2>1
  <2> QED
    BY <2>2, GraphFacts DEF Tip
<1>6. SnapshotOf(h) \in SnapshotFile
  BY <1>3, <1>5 DEF SnapshotOf, SnapshotFile
<1>7. CursorOf(h) \in CursorFile
  BY <1>2, <1>3, <1>5, <1>6 DEF CursorOf, CursorFile
<1> QED
  BY <1>1, <1>2, <1>3, <1>4, <1>5, <1>6, <1>7 DEF Sound

(* The history of each generation of a published HEAD. *)
LEMMA HistoryFacts ==
    ASSUME RemoteTypes, RemoteInv, NEW h \in past, NEW g \in 0..Gen(h)
    PROVE  /\ Reach(At(h, g)) \subseteq Commits
           /\ \A d \in Reach(At(h, g)) : parents[d] \in Reach(At(h, g)) \cup {0}
<1>1. At(h, g) \in 0..Len(parents)
  BY HeadFacts
<1> QED
  BY <1>1, GraphFacts

-----------------------------------------------------------------------------
(* Steps of the remote. *)

(* The history grows, and nothing else happens. *)
Grows ==
    /\ past \subseteq past'
    /\ \A c \in 0..Len(parents) : Reach(c)' = Reach(c)
    /\ UNCHANGED <<store, files, lock, proc, ops>>

(* What a process has stays true when the remote has more. *)
LEMMA FitsGrows ==
    ASSUME RemoteTypes, RemoteInv, Grows, NEW f, NEW p, Fits(f, p)
    PROVE  Fits(f, p)'
<1>1. \A h \in past : h \in past'
  BY DEF Grows
<1>2. curFile' = curFile /\ lock' = lock /\ objs' = objs
  BY DEF Grows, store, files
<1>3. ASSUME NEW h \in past, NEW g \in 0..Gen(h)
      PROVE  Reach(At(h, g))' = Reach(At(h, g))
  <2>1. At(h, g) \in 0..Len(parents)
    BY HeadFacts
  <2> QED
    BY <2>1 DEF Grows
<1>4. ASSUME NEW h \in past, Connected(h) PROVE Connected(h)'
  <2>1. Tip(h) = At(h, Gen(h)) /\ Gen(h) \in 0..Gen(h)
    BY HeadFacts
  <2> QED
    BY <1>2, <1>3, <1>4, <2>1 DEF Connected
<1>5. ASSUME p.state \in past, NEW k, UpTo(p, k) PROVE UpTo(p, k)'
  <2>1. Gen(p.state) \in Nat
    BY <1>5, HeadFacts
  <2>2. k - 1 \in 0..Gen(p.state)
    BY <1>5, <2>1 DEF UpTo
  <2> QED
    BY <1>2, <1>3, <1>5, <2>2 DEF UpTo
<1>6. ASSUME NEW h, AtPoint(h) PROVE AtPoint(h)'
  BY <1>2, <1>6 DEF AtPoint
<1> QED
  BY <1>1, <1>2, <1>4, <1>5, <1>6, SMTT(30) DEF Fits, HasRead, HasState, Holding

(* The whole invariant does. *)
LEMMA InvGrows ==
    ASSUME FetchInv, Grows, RemoteTypes', RemoteInv'
    PROVE  FetchInv'
<1>1. RemoteTypes /\ RemoteInv /\ LocalTypes /\ Shared /\ \A f \in Fetchers : Fits(f, proc[f])
  BY Parts DEF Parted
<1>2. \A f, p : Fits(f, p) => Fits(f, p)'
  BY <1>1, FitsGrows
<1>3. proc' = proc
  BY DEF Grows
<1>4. \A f \in Fetchers : Fits(f, proc[f])'
  BY <1>1, <1>2, <1>3
<1>5. LocalTypes' /\ Shared'
  BY <1>1 DEF Grows, store, files, LocalTypes, Shared
<1>6. proc' \in [Fetchers -> Process]
  BY <1>3, Parts DEF Parted
<1> QED
  BY <1>4, <1>5, <1>6, PartsNext DEF Parted

(* A new HEAD that is sound, with an id of its own. *)
LEMMA NewHead ==
    ASSUME FetchInv, Cardinality(past) < MaxHeads,
           head' \in HeadObject, head'.pub = Cardinality(past) + 1,
           past' = past \cup {head'}, UNCHANGED <<store, files, lock, proc, ops>>,
           Acyclic(parents'), parents' \in Seq(0..MaxHeads),
           Len(parents) <= Len(parents'), Len(parents') <= Len(parents) + 1,
           \A c \in 0..Len(parents) : Reach(c)' = Reach(c),
           Gen(head') <= Gen(head) + 1, head'.floor <= Gen(head'),
           \A i \in 1..Gen(head') : head'.log[i] \in 1..Len(parents'),
           (Reach(At(head, head.floor)) \subseteq UNION head.packs)'
    PROVE  FetchInv'
<1>1. RemoteTypes /\ RemoteInv
  BY Parts DEF Parted
<1>2. /\ Len(parents) \in Nat /\ Cardinality(past) \in Nat /\ MaxHeads \in Nat /\ Len(parents') \in Nat
      /\ Len(parents) <= Cardinality(past)
  BY <1>1, GraphFacts DEF RemoteInv, Acyclic
<1>3. \A h \in past : h \in HeadObject /\ h.pub \in 1..Cardinality(past) /\ Gen(h) \in Nat /\ Gen(h) <= h.pub
  BY <1>1, HeadFacts DEF RemoteInv, Sound
<1>4. head' \notin past
  BY <1>2, <1>3
<1>5. IsFiniteSet(past') /\ Cardinality(past') = Cardinality(past) + 1
  BY <1>1, <1>4, FS_AddElement DEF RemoteInv
<1>6. ASSUME NEW h \in past PROVE Sound(h)'
  <2>1. Sound(h)
    BY <1>1 DEF RemoteInv
  <2>2. At(h, h.floor) \in 0..Len(parents)
    BY <1>1, HeadFacts
  <2>3. (Reach(At(h, h.floor)) \subseteq UNION h.packs)'
    BY <2>1, <2>2 DEF Sound
  <2>4. h.pub \in 1..Cardinality(past')
    BY <1>2, <1>3, <1>5
  <2>5. \A i \in 1..Gen(h) : h.log[i] \in 1..Len(parents')
    BY <1>2, <2>1 DEF Sound
  <2> QED
    BY <2>1, <2>3, <2>4, <2>5 DEF Sound
<1>7. Sound(head)'
  <2>1. head \in past
    BY <1>1 DEF RemoteInv
  <2>2. Gen(head') \in Nat
    BY DEF HeadObject, Gen
  <2>3. Gen(head) \in Nat /\ Gen(head) <= Cardinality(past)
    BY <1>2, <1>3, <2>1
  <2>4. Gen(head') <= head'.pub
    BY <1>2, <2>2, <2>3
  <2>5. head'.pub \in 1..Cardinality(past')
    BY <1>2, <1>5
  <2> QED
    BY <2>4, <2>5 DEF Sound
<1>8. ASSUME NEW g \in past', NEW h \in past', g.pub = h.pub PROVE g = h
  <2>1. \A k \in past : k.pub # head'.pub
    BY <1>2, <1>3
  <2>2. g \in past /\ h \in past => g = h
    BY <1>1, <1>8 DEF RemoteInv
  <2> QED
    BY <1>8, <2>1, <2>2
<1>9. \A h \in past' : Sound(h)'
  <2>1. \A h \in past : Sound(h)'
    BY <1>6
  <2>2. \A h : h = head' => Sound(h)'
    BY <1>7 DEF Sound
  <2> QED
    BY <2>1, <2>2
<1>10. RemoteInv'
  <2>1. Cardinality(past') <= MaxHeads /\ Len(parents') <= Cardinality(past')
    BY <1>2, <1>5
  <2>2. \A i \in 1..Len(parents') : parents'[i] < i
    BY DEF Acyclic
  <2> QED
    BY <1>5, <1>8, <1>9, <2>1, <2>2 DEF RemoteInv
<1>11. RemoteTypes' /\ Grows
  BY <1>1 DEF RemoteTypes, Grows
<1> QED
  BY <1>10, <1>11, InvGrows

(* Publish with no new commit. *)
LEMMA SameGraph ==
    ASSUME FetchInv, parents' = parents
    PROVE  /\ Acyclic(parents') /\ parents' \in Seq(0..MaxHeads)
           /\ Len(parents) <= Len(parents') /\ Len(parents') <= Len(parents) + 1
           /\ \A c : Reach(c)' = Reach(c)
<1>1. RemoteTypes /\ RemoteInv
  BY Parts DEF Parted
<1>2. \A c : Reach(c)' = Reach(c)
  BY ReachIsReachIn
<1>3. Len(parents) \in Nat /\ Acyclic(parents) /\ parents \in Seq(0..MaxHeads)
  BY <1>1, GraphFacts DEF RemoteTypes
<1> QED
  BY <1>2, <1>3

(* HEAD of a state with the invariant. *)
LEMMA CurrentHead ==
    ASSUME FetchInv
    PROVE  /\ RemoteTypes /\ RemoteInv /\ head \in past /\ Sound(head)
           /\ head = [pub |-> head.pub, log |-> head.log, floor |-> head.floor, packs |-> head.packs]
<1>1. RemoteTypes /\ RemoteInv
  BY Parts DEF Parted
<1>2. head \in past /\ Sound(head)
  BY <1>1 DEF RemoteInv
<1> QED
  BY <1>1, <1>2 DEF RemoteTypes, HeadObject

(* set-head keeps the invariant. *)
LEMMA RemoteSetHeadStep ==
    ASSUME FetchInv, RemoteSetHead
    PROVE  FetchInv'
<1>1. /\ Cardinality(past) < MaxHeads /\ parents' = parents
      /\ head' = [head EXCEPT !.pub = Cardinality(past) + 1]
      /\ past' = past \cup {head'} /\ UNCHANGED <<store, files, lock, proc, ops>>
  BY DEF RemoteSetHead, Publish
<1>2. RemoteTypes /\ RemoteInv /\ head \in past /\ Sound(head)
  BY CurrentHead
<1>3. Cardinality(past) \in Nat /\ MaxHeads \in Nat /\ Gen(head) \in Nat /\ head.floor <= Gen(head)
      /\ head \in HeadObject
  BY <1>2, GraphFacts, HeadFacts
<1>4. /\ head' \in HeadObject /\ head'.pub = Cardinality(past) + 1 /\ head'.log = head.log
      /\ head'.floor = head.floor /\ head'.packs = head.packs
  BY <1>1, <1>3 DEF HeadObject
<1>5. Gen(head') = Gen(head) /\ At(head', head'.floor) = At(head, head.floor)
  BY <1>4 DEF Gen, At
<1>6. (Reach(At(head, head.floor)) \subseteq UNION head.packs)'
  <2>1. Reach(At(head, head.floor))' = Reach(At(head, head.floor))
    BY <1>1, <1>5 DEF Reach
  <2> QED
    BY <1>2, <1>4, <2>1 DEF Sound
<1>7. \A i \in 1..Gen(head') : head'.log[i] \in 1..Len(parents')
  BY <1>1, <1>2, <1>4, <1>5 DEF Sound
<1>8. Gen(head') <= Gen(head) + 1 /\ head'.floor <= Gen(head')
  BY <1>3, <1>4, <1>5
<1>9. /\ Acyclic(parents') /\ parents' \in Seq(0..MaxHeads)
      /\ Len(parents) <= Len(parents') /\ Len(parents') <= Len(parents) + 1
      /\ \A c \in 0..Len(parents) : Reach(c)' = Reach(c)
  BY <1>1, SameGraph
<1> QED
  BY <1>1, <1>4, <1>6, <1>7, <1>8, <1>9, NewHead

(* Maintenance keeps it: the new pack holds what the old floor lacks. *)
LEMMA RemoteMaintenanceStep ==
    ASSUME FetchInv, RemoteMaintenance
    PROVE  FetchInv'
<1>1. PICK g \in (head.floor + 1)..Gen(head) :
        Publish([head EXCEPT !.floor = g, !.packs = @ \cup {NewPack(head, g)}]) /\ UNCHANGED parents
  BY DEF RemoteMaintenance
<1> DEFINE pack == NewPack(head, g)
<1>2. /\ Cardinality(past) < MaxHeads /\ parents' = parents
      /\ head' = [[head EXCEPT !.floor = g, !.packs = @ \cup {pack}] EXCEPT !.pub = Cardinality(past) + 1]
      /\ past' = past \cup {head'} /\ UNCHANGED <<store, files, lock, proc, ops>>
  BY <1>1 DEF Publish
<1>3. RemoteTypes /\ RemoteInv /\ head \in past /\ Sound(head)
  BY CurrentHead
<1>4. Cardinality(past) \in Nat /\ MaxHeads \in Nat /\ Gen(head) \in Nat /\ head.floor \in 0..Gen(head)
      /\ head \in HeadObject
  BY <1>3, GraphFacts, HeadFacts
<1>5. g \in Nat /\ g \in 0..Gen(head) /\ g <= Gen(head)
  BY <1>4
<1>6. pack \subseteq Commits /\ Reach(At(head, g)) \subseteq pack \cup Reach(At(head, head.floor))
  BY <1>3, <1>5, HistoryFacts DEF NewPack
<1> HIDE DEF pack
<1>7. /\ head' \in HeadObject /\ head'.pub = Cardinality(past) + 1 /\ head'.log = head.log
      /\ head'.floor = g /\ head'.packs = head.packs \cup {pack}
  <2>1. head' = [pub |-> Cardinality(past) + 1, log |-> head.log, floor |-> g,
                 packs |-> head.packs \cup {pack}]
    BY <1>2, <1>4 DEF HeadObject
  <2>2. Cardinality(past) + 1 \in 1..MaxHeads /\ head.log \in Seq(Commits)
        /\ head.packs \cup {pack} \subseteq SUBSET Commits
    BY <1>2, <1>4, <1>6 DEF HeadObject
  <2> QED
    BY <1>5, <2>1, <2>2 DEF HeadObject
<1>8. Gen(head') = Gen(head) /\ At(head', head'.floor) = At(head, g)
  BY <1>7 DEF Gen, At
<1>9. (Reach(At(head, head.floor)) \subseteq UNION head.packs)'
  <2>1. Reach(At(head, head.floor))' = Reach(At(head, g))
    BY <1>2, <1>8 DEF Reach
  <2>2. Reach(At(head, head.floor)) \subseteq UNION head.packs
    BY <1>3 DEF Sound
  <2> QED
    BY <1>6, <1>7, <2>1, <2>2
<1>10. \A i \in 1..Gen(head') : head'.log[i] \in 1..Len(parents')
  BY <1>2, <1>3, <1>7, <1>8 DEF Sound
<1>11. Gen(head') <= Gen(head) + 1 /\ head'.floor <= Gen(head')
  BY <1>4, <1>5, <1>7, <1>8
<1>12. /\ Acyclic(parents') /\ parents' \in Seq(0..MaxHeads)
       /\ Len(parents) <= Len(parents') /\ Len(parents') <= Len(parents) + 1
       /\ \A c \in 0..Len(parents) : Reach(c)' = Reach(c)
  BY <1>2, SameGraph
<1> QED
  BY <1>2, <1>7, <1>9, <1>10, <1>11, <1>12, NewHead

(* A push keeps it: the new commit does not change old history. *)
LEMMA RemotePushStep ==
    ASSUME FetchInv, RemotePush
    PROVE  FetchInv'
<1>1. PICK p \in {Tip(head), 0} :
        /\ parents' = Append(parents, p)
        /\ Publish([head EXCEPT !.log = Append(@, Len(parents'))])
  BY DEF RemotePush
<1> DEFINE n == Len(parents')
<1>2. /\ Cardinality(past) < MaxHeads
      /\ head' = [[head EXCEPT !.log = Append(@, n)] EXCEPT !.pub = Cardinality(past) + 1]
      /\ past' = past \cup {head'} /\ UNCHANGED <<store, files, lock, proc, ops>>
  BY <1>1 DEF Publish
<1>3. RemoteTypes /\ RemoteInv /\ head \in past /\ Sound(head)
  BY CurrentHead
<1>4. Cardinality(past) \in Nat /\ MaxHeads \in Nat /\ Gen(head) \in Nat /\ head.floor \in 0..Gen(head)
      /\ head \in HeadObject /\ Len(parents) \in Nat /\ Len(parents) <= Cardinality(past) /\ Acyclic(parents)
      /\ parents \in Seq(0..MaxHeads) /\ head.log \in Seq(Commits)
  BY <1>3, GraphFacts, HeadFacts DEF RemoteInv, RemoteTypes
<1>5. p \in 0..Len(parents) /\ p \in 0..MaxHeads
  <2>1. Gen(head) \in 0..Gen(head)
    BY <1>4
  <2>2. Tip(head) \in 0..Len(parents)
    BY <1>3, <2>1, HeadFacts
  <2>3. p \in 0..Len(parents)
    BY <1>4, <2>2
  <2> QED
    BY <1>2, <1>4, <2>3
<1>6. /\ Acyclic(parents') /\ parents' \in Seq(0..MaxHeads) /\ n = Len(parents) + 1
      /\ \A c \in 0..Len(parents) : ReachIn(parents', c) = ReachIn(parents, c)
  BY <1>1, <1>4, <1>5, ReachInAppend
<1>7. \A c \in 0..Len(parents) : Reach(c)' = Reach(c)
  BY <1>6, ReachIsReachIn
<1>8. n \in Commits
  BY <1>2, <1>4, <1>6 DEF Commits
<1> HIDE DEF n
<1>9. /\ head' \in HeadObject /\ head'.pub = Cardinality(past) + 1 /\ head'.log = Append(head.log, n)
      /\ head'.floor = head.floor /\ head'.packs = head.packs
  <2>1. head' = [pub |-> Cardinality(past) + 1, log |-> Append(head.log, n), floor |-> head.floor,
                 packs |-> head.packs]
    BY <1>2, <1>4 DEF HeadObject
  <2>2. Cardinality(past) + 1 \in 1..MaxHeads /\ Append(head.log, n) \in Seq(Commits)
    BY <1>2, <1>4, <1>8
  <2>3. head.floor \in Nat /\ head.packs \in SUBSET SUBSET Commits
    BY <1>4 DEF HeadObject
  <2> QED
    BY <2>1, <2>2, <2>3 DEF HeadObject
<1>10. /\ Gen(head') = Gen(head) + 1
       /\ head'.log[Gen(head) + 1] = n
       /\ \A i \in 1..Gen(head) : head'.log[i] = head.log[i]
  BY <1>4, <1>8, <1>9 DEF Gen
<1>11. At(head', head'.floor) = At(head, head.floor)
  <2>1. head.floor # 0 => head.floor \in 1..Gen(head)
    BY <1>4
  <2> QED
    BY <1>9, <1>10, <2>1 DEF At
<1>12. (Reach(At(head, head.floor)) \subseteq UNION head.packs)'
  <2>1. At(head, head.floor) \in 0..Len(parents)
    BY <1>3, <1>4, HeadFacts
  <2>2. \A c : c = At(head', head'.floor) => Reach(c)' = Reach(At(head, head.floor))
    BY <1>7, <1>11, <2>1
  <2>3. Reach(At(head, head.floor))' = Reach(At(head, head.floor))
    BY <2>2 DEF Reach
  <2> QED
    BY <1>3, <1>9, <2>3 DEF Sound
<1>13. ASSUME NEW i \in 1..Gen(head')
       PROVE  head'.log[i] \in 1..n
  <2>1. CASE i = Gen(head) + 1
    BY <1>4, <1>6, <1>10, <2>1
  <2>2. CASE i # Gen(head) + 1
    <3>1. i \in 1..Gen(head)
      BY <1>4, <1>10, <2>2
    <3>2. head.log[i] \in 1..Len(parents)
      BY <1>3, <3>1 DEF Sound
    <3>3. head'.log[i] = head.log[i]
      BY <1>10, <3>1
    <3>4. head.log[i] \in 1..n
      BY <1>4, <1>6, <3>2
    <3> QED
      BY <3>3, <3>4
  <2> QED
    BY <2>1, <2>2
<1>14. Gen(head') <= Gen(head) + 1 /\ head'.floor <= Gen(head')
  BY <1>4, <1>9, <1>10
<1>15. Len(parents) <= Len(parents') /\ Len(parents') <= Len(parents) + 1
  BY <1>4, <1>6 DEF n
<1>16. \A i \in 1..Gen(head') : head'.log[i] \in 1..Len(parents')
  BY <1>13 DEF n
<1> QED
  BY <1>2, <1>6, <1>7, <1>9, <1>12, <1>14, <1>15, <1>16, NewHead

(* A restored HEAD is one of the published ones. *)
LEMMA RemoteRestoreStep ==
    ASSUME FetchInv, RemoteRestore
    PROVE  FetchInv'
<1>1. head' \in past /\ past' = past /\ parents' = parents /\ UNCHANGED <<store, files, lock, proc, ops>>
  BY DEF RemoteRestore
<1>2. RemoteTypes /\ RemoteInv
  BY CurrentHead
<1>3. \A c : Reach(c)' = Reach(c)
  BY <1>1, SameGraph
<1>4. \A h : Sound(h)' <=> Sound(h)
  BY <1>1, <1>3 DEF Sound
<1>5. RemoteInv' /\ RemoteTypes'
  BY <1>1, <1>2, <1>4 DEF RemoteInv, RemoteTypes
<1>6. Grows
  BY <1>1, <1>3 DEF Grows
<1> QED
  BY <1>5, <1>6, InvGrows

-----------------------------------------------------------------------------
(* Steps in the local repository. *)

(* What a process has stays true while others work, and what the holder of *)
(* the lock has while nobody else writes the cursor or takes objects away. *)
LEMMA OtherStep ==
    ASSUME NEW g, NEW p, Fits(g, p), UNCHANGED remote,
           curFile # None => curFile' # None,
           lock = g => lock' = g /\ objs \subseteq objs' /\ curFile' = curFile
    PROVE  Fits(g, p)'
<1>1. past' = past /\ parents' = parents
  BY DEF remote
<1>2. \A c : Reach(c)' = Reach(c)
  BY <1>1, ReachIsReachIn
<1>3. ASSUME lock = g, NEW h, Connected(h) PROVE Connected(h)'
  BY <1>2, <1>3 DEF Connected
<1>4. ASSUME lock = g, NEW k, UpTo(p, k) PROVE UpTo(p, k)'
  BY <1>2, <1>4 DEF UpTo
<1>5. ASSUME lock = g, NEW h, AtPoint(h) PROVE AtPoint(h)'
  BY <1>5 DEF AtPoint
<1>6. p.phase \in Holding => lock = g
  BY DEF Fits
<1> QED
  BY <1>1, <1>3, <1>4, <1>5, <1>6, SMTT(30) DEF Fits, HasRead, HasState, Holding

(* A step of process f. *)
LEMMA LocalStep ==
    ASSUME FetchInv, NEW f \in Fetchers, UNCHANGED remote,
           proc' \in [Fetchers -> Process], \A g \in Fetchers \ {f} : proc'[g] = proc[g],
           Fits(f, proc[f])', LocalTypes', Shared',
           curFile # None => curFile' # None,
           \A g \in Fetchers \ {f} : lock = g => lock' = g /\ objs \subseteq objs' /\ curFile' = curFile
    PROVE  FetchInv'
<1>1. RemoteTypes /\ RemoteInv /\ \A g \in Fetchers : Fits(g, proc[g])
  BY Parts DEF Parted
<1>2. \A c : Reach(c)' = Reach(c)
  BY SameGraph DEF remote
<1>3. \A h : Sound(h)' <=> Sound(h)
  BY <1>2 DEF Sound, remote
<1>4. RemoteTypes' /\ RemoteInv'
  BY <1>1, <1>3 DEF RemoteInv, RemoteTypes, remote
<1>5. ASSUME NEW g \in Fetchers \ {f} PROVE Fits(g, proc[g])'
  <2>1. \A p : Fits(g, p) => Fits(g, p)'
    BY OtherStep
  <2> QED
    BY <1>1, <2>1
<1>6. \A g \in Fetchers : Fits(g, proc[g])'
  BY <1>5
<1> QED
  BY <1>4, <1>6, PartsNext DEF Parted

(* What is known of process f. *)
LEMMA ProcFacts ==
    ASSUME FetchInv, NEW f \in Fetchers
    PROVE  /\ proc \in [Fetchers -> Process] /\ proc[f] \in Process /\ Fits(f, proc[f])
           /\ RemoteTypes /\ RemoteInv /\ LocalTypes /\ Shared /\ head \in past
  BY Parts DEF Parted, RemoteInv

(* A step of process f that changes its own state only, apart from halves  *)
(* of packs.                                                               *)
LEMMA ProcStep ==
    ASSUME FetchInv, NEW f \in Fetchers, NEW p \in Process, Becomes(f, p),
           UNCHANGED <<remote, objs, pairs, files, lock>>,
           halves' \subseteq SUBSET Commits, ops' \in 0..MaxOps, Fits(f, p)
    PROVE  FetchInv'
<1>1. /\ proc' \in [Fetchers -> Process] /\ proc'[f] = p
      /\ \A g \in Fetchers \ {f} : proc'[g] = proc[g]
  BY ProcFacts DEF Becomes
<1>2. LocalTypes' /\ Shared'
  BY ProcFacts DEF LocalTypes, Shared, files, remote
<1>3. Fits(f, p)'
  BY OtherStep DEF files
<1>4. Fits(f, proc[f])'
  <2>1. \A q : q = p => Fits(f, q)'
    BY <1>3
  <2>2. \A q : q = proc'[f] => Fits(f, q)'
    BY <1>1, <2>1
  <2> QED
    BY <2>2 DEF Fits, UpTo, Connected, AtPoint, Reach
<1> QED
  BY <1>1, <1>2, <1>4, LocalStep DEF files

(* Nothing is asked of a process that has read nothing. *)
Free == {"idle", "mapping", "getting"}

(* A process without a fetch. *)
LEMMA IdleType == Idle \in Process /\ Idle.half = None
<1>1. 0 \in 0..MaxHeads /\ 0 \in 0..4 /\ "idle" \in Phases /\ {} \in SUBSET Commits
      /\ {} \in SUBSET SUBSET Commits
  BY BoundAssumption DEF Phases
<1> QED
  BY <1>1 DEF Idle, Process

(* A process that starts over. *)
LEMMA IdleFits ==
    ASSUME NEW f, NEW phase \in Free
    PROVE  [Idle EXCEPT !.phase = phase] \in Process /\ Fits(f, [Idle EXCEPT !.phase = phase])
<1> DEFINE p == [Idle EXCEPT !.phase = phase]
<1>1. p.phase = phase /\ p.half = None
  BY DEF Idle
<1>2. Fits(f, p)
  BY <1>1 DEF Fits, Free, HasRead, HasState, Holding
<1>3. p \in Process
  BY IdleType DEF Process, Phases, Free
<1> QED
  BY <1>2, <1>3

(* The beginning of a fetch. *)
LEMMA BeginStep ==
    ASSUME FetchInv, NEW f \in Fetchers, Begin(f)
    PROVE  FetchInv'
<1> DEFINE p == [proc[f] EXCEPT !.phase = "mapping"]
<1>1. proc[f] \in Process /\ Fits(f, proc[f]) /\ LocalTypes
  BY ProcFacts
<1>2. p \in Process /\ p.phase = "mapping" /\ p.half = proc[f].half
  BY <1>1 DEF Process, Phases
<1>3. proc[f].phase = "idle" /\ Becomes(f, p) /\ ops' \in 0..MaxOps
      /\ UNCHANGED <<remote, objs, pairs, files, lock>> /\ halves' = halves
  BY <1>1, BoundAssumption DEF Begin, Goes, store, LocalTypes
<1>4. p.half = None
  BY <1>1, <1>2, <1>3 DEF Fits
<1> HIDE DEF p
<1>5. Fits(f, p)
  BY <1>2, <1>4 DEF Fits, HasRead, HasState, Holding
<1> QED
  BY <1>1, <1>2, <1>3, <1>5, ProcStep DEF LocalTypes

(* A step that only changes the process. *)
OwnStep(f, p) == Becomes(f, p) /\ UNCHANGED <<remote, store, files, lock, ops>>

(* It keeps the invariant if the new state fits. *)
LEMMA OwnStepKeeps ==
    ASSUME FetchInv, NEW f \in Fetchers, NEW p \in Process, OwnStep(f, p), Fits(f, p)
    PROVE  FetchInv'
<1>1. Becomes(f, p) /\ UNCHANGED <<remote, objs, pairs, files, lock>> /\ halves' = halves /\ ops' = ops
  BY DEF OwnStep, store
<1>2. LocalTypes
  BY ProcFacts
<1> QED
  BY <1>1, <1>2, ProcStep DEF LocalTypes

(* A process that reads HEAD without a condition. *)
LEMMA UncachedKeeps ==
    ASSUME FetchInv, NEW f \in Fetchers, Uncached(f), UNCHANGED <<remote, store, files, lock, ops>>
    PROVE  FetchInv'
<1> DEFINE p == [Idle EXCEPT !.phase = "getting"]
<1>1. OwnStep(f, p)
  BY DEF Uncached, OwnStep
<1>2. p \in Process /\ Fits(f, p)
  BY IdleFits DEF Free
<1> HIDE DEF p
<1> QED
  BY <1>1, <1>2, OwnStepKeeps

(* readCached reads the mapping and the cursor. *)
LEMMA ReadCursorStep ==
    ASSUME FetchInv, NEW f \in Fetchers, ReadCursor(f)
    PROVE  FetchInv'
<1> DEFINE p == [proc[f] EXCEPT !.phase = "reading-head", !.c = curFile]
<1>1. proc[f] \in Process /\ Fits(f, proc[f]) /\ LocalTypes /\ Shared /\ proc[f].phase = "mapping"
  BY ProcFacts DEF ReadCursor
<1>2. CASE ~ (mapped /\ curFile # None)
  BY <1>2, UncachedKeeps DEF ReadCursor
<1>3. CASE mapped /\ curFile # None
  <2>1. OwnStep(f, p)
    BY <1>3 DEF ReadCursor, OwnStep
  <2>2. curFile \in CursorFile /\ \E h \in past : curFile = CursorOf(h)
    BY <1>1, <1>3 DEF LocalTypes, Shared
  <2>3. p \in Process /\ p.phase = "reading-head" /\ p.c = curFile /\ p.half = proc[f].half
    BY <1>1, <2>2, ZenonT(60) DEF Process, Phases
  <2>4. p.half = None
    BY <1>1, <2>3 DEF Fits
  <2> HIDE DEF p
  <2>5. Fits(f, p)
    BY <1>3, <2>2, <2>3, <2>4 DEF Fits, HasRead, HasState, Holding
  <2> QED
    BY <2>1, <2>3, <2>5, OwnStepKeeps
<1> QED
  BY <1>2, <1>3

(* It reads remote-head.json. *)
LEMMA ReadHeadStep ==
    ASSUME FetchInv, NEW f \in Fetchers, ReadHead(f)
    PROVE  FetchInv'
<1> DEFINE p == [proc[f] EXCEPT !.phase = "reading-refs", !.hb = headFile]
<1>1. proc[f] \in Process /\ Fits(f, proc[f]) /\ LocalTypes /\ Shared /\ proc[f].phase = "reading-head"
  BY ProcFacts DEF ReadHead
<1>2. CASE headFile = None
  BY <1>2, UncachedKeeps DEF ReadHead
<1>3. CASE headFile # None
  <2>1. OwnStep(f, p)
    BY <1>3 DEF ReadHead, OwnStep
  <2>2. headFile \in HeadObject /\ headFile \in past
    BY <1>1, <1>3 DEF LocalTypes, Shared
  <2>3. /\ p \in Process /\ p.phase = "reading-refs" /\ p.hb = headFile
        /\ p.c = proc[f].c /\ p.half = proc[f].half
    BY <1>1, <2>2 DEF Process, Phases
  <2>4. p.half = None /\ curFile # None /\ \E h \in past : p.c = CursorOf(h)
    BY <1>1, <2>3 DEF Fits, HasRead
  <2> HIDE DEF p
  <2>5. Fits(f, p)
    BY <2>2, <2>3, <2>4 DEF Fits, HasRead, HasState, Holding
  <2> QED
    BY <2>1, <2>3, <2>5, OwnStepKeeps
<1> QED
  BY <1>2, <1>3

(* It reads refs.snapshot. *)
LEMMA ReadRefsStep ==
    ASSUME FetchInv, NEW f \in Fetchers, ReadRefs(f)
    PROVE  FetchInv'
<1> DEFINE p == [proc[f] EXCEPT !.phase = "checking", !.rb = snapFile]
<1>1. proc[f] \in Process /\ Fits(f, proc[f]) /\ LocalTypes /\ proc[f].phase = "reading-refs"
  BY ProcFacts DEF ReadRefs
<1>2. OwnStep(f, p)
  BY DEF ReadRefs, OwnStep
<1>3. /\ p \in Process /\ p.phase = "checking"
      /\ p.c = proc[f].c /\ p.hb = proc[f].hb /\ p.half = proc[f].half
  BY <1>1, ZenonT(60) DEF Process, Phases, LocalTypes
<1>4. p.half = None /\ curFile # None /\ p.hb \in past /\ \E h \in past : p.c = CursorOf(h)
  BY <1>1, <1>3 DEF Fits, HasRead
<1> HIDE DEF p
<1>5. Fits(f, p)
  BY <1>3, <1>4 DEF Fits, HasRead, HasState, Holding
<1> QED
  BY <1>2, <1>3, <1>5, OwnStepKeeps

(* CachedRefs accepts only the refs of the cursor that is there now. *)
LEMMA CheckRefsStep ==
    ASSUME FetchInv, NEW f \in Fetchers, CheckRefs(f)
    PROVE  FetchInv'
<1> DEFINE p == [proc[f] EXCEPT !.phase = "asking"]
<1>1. proc[f] \in Process /\ Fits(f, proc[f]) /\ Shared /\ proc[f].phase = "checking"
  BY ProcFacts DEF CheckRefs
<1>2. CASE proc[f].rb # curFile.sum
  BY <1>2, UncachedKeeps DEF CheckRefs
<1>3. CASE proc[f].rb = curFile.sum
  <2>1. OwnStep(f, p)
    BY <1>3 DEF CheckRefs, Goes, OwnStep
  <2>2. /\ p \in Process /\ p.phase = "asking" /\ p.c = proc[f].c /\ p.hb = proc[f].hb
        /\ p.rb = proc[f].rb /\ p.half = proc[f].half
    BY <1>1 DEF Process, Phases
  <2>3. p.half = None /\ curFile # None /\ p.hb \in past /\ \E h \in past : p.c = CursorOf(h)
    BY <1>1, <2>2 DEF Fits, HasRead
  <2>4. \E h \in past : p.rb = SnapshotOf(h)
    BY <1>1, <1>3, <2>2, <2>3 DEF Shared, CursorOf
  <2> HIDE DEF p
  <2>5. Fits(f, p)
    BY <2>2, <2>3, <2>4 DEF Fits, HasRead, HasState, Holding
  <2> QED
    BY <2>1, <2>2, <2>5, OwnStepKeeps
<1> QED
  BY <1>2, <1>3

(* The refs of the HEAD that the store has. *)
LEMMA AdvertisedFits ==
    ASSUME FetchInv, NEW f \in Fetchers, NEW h, h = head, NEW refs, refs = Tip(head), NEW cached \in BOOLEAN
    PROVE  Advertised(f, h, refs, cached) \in Process /\ Fits(f, Advertised(f, h, refs, cached))
<1> DEFINE p == Advertised(f, h, refs, cached)
<1>1. head \in HeadObject /\ head \in past /\ Tip(head) \in 0..MaxHeads
  BY ProcFacts, HeadFacts
<1>3. p \in Process
  <2> DEFINE p1 == [Idle EXCEPT !.phase = "advertised", !.state = h]
             p2 == [p1 EXCEPT !.want = refs, !.seen = head]
  <2>1. p = [p2 EXCEPT !.cached = cached]
    BY DEF Advertised
  <2>2. p1 \in Process
    <3>1. h \in HeadObject /\ "advertised" \in Phases
      BY <1>1 DEF Phases
    <3> QED
      BY <3>1, IdleType, ZenonT(60) DEF Process
  <2> HIDE DEF p1
  <2>3. p2 \in Process
    BY <1>1, <2>2 DEF Process
  <2> HIDE DEF p2
  <2> QED
    BY <2>1, <2>3 DEF Process
<1>4. p.phase = "advertised" /\ p.state = head /\ p.seen = head /\ p.want = Tip(head) /\ p.half = None
  BY IdleType DEF Advertised, Process
<1> HIDE DEF p
<1>5. Fits(f, p)
  BY <1>1, <1>3, <1>4 DEF Fits, HasRead, HasState, Holding
<1> QED
  BY <1>3, <1>5 DEF p

(* Read without a cache. *)
LEMMA GetStep ==
    ASSUME FetchInv, NEW f \in Fetchers, Get(f)
    PROVE  FetchInv'
<1>1. OwnStep(f, Advertised(f, head, Tip(head), FALSE))
  BY DEF Get, OwnStep
<1>2. Advertised(f, head, Tip(head), FALSE) \in Process /\ Fits(f, Advertised(f, head, Tip(head), FALSE))
  BY AdvertisedFits
<1> QED
  BY <1>1, <1>2, OwnStepKeeps

(* After a 304 the cached HEAD is the one that the store has: it has the   *)
(* id that the store has just confirmed.                                   *)
LEMMA ConditionalGetStep ==
    ASSUME FetchInv, NEW f \in Fetchers, ConditionalGet(f)
    PROVE  FetchInv'
<1>1. /\ proc[f] \in Process /\ Fits(f, proc[f]) /\ RemoteInv /\ head \in past
      /\ proc[f].phase = "asking" /\ UNCHANGED <<remote, store, files, lock, ops>>
  BY ProcFacts DEF ConditionalGet
<1>2. CASE head.pub # proc[f].c.pub
  <2>1. OwnStep(f, Advertised(f, head, Tip(head), FALSE))
    BY <1>2 DEF ConditionalGet, OwnStep
  <2>2. /\ Advertised(f, head, Tip(head), FALSE) \in Process
        /\ Fits(f, Advertised(f, head, Tip(head), FALSE))
    BY AdvertisedFits
  <2> QED
    BY <2>1, <2>2, OwnStepKeeps
<1>3. CASE head.pub = proc[f].c.pub /\ CacheMatches(proc[f])
  <2>1. OwnStep(f, Advertised(f, proc[f].hb, proc[f].rb.tx, TRUE))
    BY <1>3 DEF ConditionalGet, OwnStep
  <2>2. proc[f].hb \in past
    BY <1>1 DEF Fits, HasRead
  <2>3. proc[f].hb.pub = head.pub /\ proc[f].rb.tx = Tip(proc[f].hb)
    BY <1>3 DEF CacheMatches
  <2>4. proc[f].hb = head
    BY <1>1, <2>2, <2>3 DEF RemoteInv
  <2>5. /\ Advertised(f, proc[f].hb, proc[f].rb.tx, TRUE) \in Process
        /\ Fits(f, Advertised(f, proc[f].hb, proc[f].rb.tx, TRUE))
    BY <2>3, <2>4, AdvertisedFits
  <2> QED
    BY <2>1, <2>5, OwnStepKeeps
<1>4. CASE head.pub = proc[f].c.pub /\ ~ CacheMatches(proc[f])
  BY <1>1, <1>4, UncachedKeeps DEF ConditionalGet, Uncached
<1> QED
  BY <1>2, <1>3, <1>4

(* Somebody else has the lock for too long. *)
LEMMA LockTimeoutStep ==
    ASSUME FetchInv, NEW f \in Fetchers, LockTimeout(f)
    PROVE  FetchInv'
<1> DEFINE p == [proc[f] EXCEPT !.phase = "failed", !.lost = TRUE]
<1>1. proc[f] \in Process /\ Fits(f, proc[f]) /\ proc[f].phase = "advertised"
  BY ProcFacts DEF LockTimeout
<1>2. OwnStep(f, p)
  BY DEF LockTimeout, OwnStep
<1>3. p \in Process /\ p.phase = "failed" /\ p.lost /\ p.half = proc[f].half
  BY <1>1, ZenonT(60) DEF Process, Phases
<1>4. p.half = None
  BY <1>1, <1>3 DEF Fits
<1> HIDE DEF p
<1>5. Fits(f, p)
  BY <1>3, <1>4 DEF Fits, HasRead, HasState, Holding
<1> QED
  BY <1>2, <1>3, <1>5, OwnStepKeeps

(* A process takes the lock that nobody has. *)
LEMMA LockStep ==
    ASSUME FetchInv, NEW f \in Fetchers, Lock(f)
    PROVE  FetchInv'
<1> DEFINE p == [proc[f] EXCEPT !.phase = "locked", !.seen = None]
<1>1. /\ proc \in [Fetchers -> Process] /\ proc[f] \in Process /\ Fits(f, proc[f])
      /\ LocalTypes /\ Shared /\ proc[f].phase = "advertised"
  BY ProcFacts DEF Lock
<1>2. lock = None /\ lock' = f /\ Becomes(f, p) /\ UNCHANGED <<remote, store, files, ops>>
  BY DEF Lock
<1>3. p \in Process /\ p.phase = "locked" /\ p.state = proc[f].state /\ p.half = proc[f].half
  BY <1>1, ZenonT(60) DEF Process, Phases
<1>4. p.half = None /\ p.state \in past
  BY <1>1, <1>3 DEF Fits, HasState
<1> HIDE DEF p
<1>5. proc' \in [Fetchers -> Process] /\ proc'[f] = p /\ \A g \in Fetchers \ {f} : proc'[g] = proc[g]
  BY <1>1, <1>2, <1>3 DEF Becomes
<1>6. LocalTypes' /\ Shared'
  BY <1>1, <1>2 DEF LocalTypes, Shared, store, files, remote
<1>7. past' = past
  BY <1>2 DEF remote
<1>8. Fits(f, proc[f])'
  BY <1>2, <1>3, <1>4, <1>5, <1>7 DEF Fits, HasRead, HasState, Holding
<1> QED
  BY <1>2, <1>5, <1>6, <1>8, NoneAssumption, LocalStep DEF files

(* A process that holds the lock and may write the cursor for its state. *)
LEMMA WritingFits ==
    ASSUME FetchInv, NEW f \in Fetchers, proc[f].phase \in HasState, lock = f, proc[f].half = None,
           Connected(proc[f].state) \/ AtPoint(proc[f].state),
           NEW p, p = [proc[f] EXCEPT !.phase = "writing", !.file = 1]
    PROVE  p \in Process /\ Fits(f, p)
<1>1. proc[f] \in Process /\ proc[f].state \in past
  BY ProcFacts DEF Fits
<1>2. p \in Process /\ p.phase = "writing" /\ p.state = proc[f].state /\ p.half = None
  <2>1. "writing" \in Phases /\ 1 \in 0..4
    BY DEF Phases
  <2> QED
    BY <1>1, <2>1 DEF Process
<1>3. Fits(f, p)
  BY <1>1, <1>2 DEF Fits, HasRead, HasState, Holding
<1> QED
  BY <1>2, <1>3

(* After connectivity was verified. *)
LEMMA WriteNextKeeps ==
    ASSUME FetchInv, NEW f \in Fetchers, proc[f].phase \in HasState, lock = f, proc[f].half = None,
           Connected(proc[f].state) \/ AtPoint(proc[f].state), WriteNext(f),
           UNCHANGED <<remote, store, files, lock, ops>>
    PROVE  FetchInv'
<1> DEFINE p == [proc[f] EXCEPT !.phase = "writing", !.file = 1]
<1>1. OwnStep(f, p)
  BY DEF WriteNext, OwnStep
<1>2. p \in Process /\ Fits(f, p)
  BY WritingFits
<1> HIDE DEF p
<1> QED
  BY <1>1, <1>2, OwnStepKeeps

(* What the holder of the lock knows of itself. *)
LEMMA HolderFacts ==
    ASSUME FetchInv, NEW f \in Fetchers, proc[f].phase \in {"locked", "choosing", "packs", "wal", "writing"}
    PROVE  /\ proc[f] \in Process /\ Fits(f, proc[f]) /\ lock = f /\ proc[f].state \in past
           /\ proc[f].phase \in HasState
           /\ proc[f].phase # "packs" => proc[f].half = None
           /\ RemoteTypes /\ RemoteInv /\ LocalTypes /\ Shared
           /\ proc \in [Fetchers -> Process]
  BY ProcFacts DEF Fits, HasState, Holding

(* The fetch has nothing to do, or only the files to write. *)
LEMMA NoOpStep ==
    ASSUME FetchInv, NEW f \in Fetchers, NoOp(f)
    PROVE  FetchInv'
<1>1. /\ proc[f].phase = "locked" /\ AtPoint(proc[f].state)
      /\ UNCHANGED <<remote, store, files, lock, ops>>
  BY DEF NoOp, AtCursor, AtPoint
<1>2. proc[f] \in Process /\ lock = f /\ proc[f].half = None /\ proc[f].phase \in HasState
  BY <1>1, HolderFacts
<1>3. CASE curFile.pub # proc[f].state.pub
  <2>1. WriteNext(f)
    BY <1>3 DEF NoOp, WriteNext
  <2> QED
    BY <1>1, <1>2, <2>1, WriteNextKeeps
<1>4. CASE curFile.pub = proc[f].state.pub
  <2> DEFINE p == [proc[f] EXCEPT !.phase = "ok"]
  <2>1. OwnStep(f, p)
    BY <1>1, <1>4 DEF NoOp, Goes, OwnStep
  <2>2. p \in Process /\ p.phase = "ok" /\ p.half = None
    BY <1>2 DEF Process, Phases
  <2> HIDE DEF p
  <2>3. Fits(f, p)
    BY <1>2, <2>2 DEF Fits, HasRead, HasState, Holding
  <2> QED
    BY <2>1, <2>2, <2>3, OwnStepKeeps
<1> QED
  BY <1>3, <1>4

(* The fetch takes the HEAD that the store has, or the one it has read. *)
LEMMA PinStep ==
    ASSUME FetchInv, NEW f \in Fetchers, Pin(f)
    PROVE  FetchInv'
<1> DEFINE h == IF proc[f].cached THEN head ELSE proc[f].state
           p == [proc[f] EXCEPT !.phase = "choosing", !.cached = FALSE, !.state = h]
<1>1. proc[f].phase = "locked" /\ OwnStep(f, p)
  BY DEF Pin, OwnStep
<1>2. proc[f] \in Process /\ lock = f /\ proc[f].half = None /\ proc[f].state \in past
      /\ RemoteTypes /\ head \in past
  BY <1>1, HolderFacts, ProcFacts
<1>3. h \in past /\ h \in HeadObject
  BY <1>2 DEF RemoteTypes
<1> HIDE DEF h
<1>4. p \in Process /\ p.phase = "choosing" /\ p.state = h /\ p.half = None
  BY <1>2, <1>3, ZenonT(60) DEF Process, Phases
<1> HIDE DEF p
<1>5. Fits(f, p)
  BY <1>2, <1>3, <1>4 DEF Fits, HasRead, HasState, Holding
<1> QED
  BY <1>1, <1>4, <1>5, OwnStepKeeps

(* The packs that are whole need not be downloaded. *)
LEMMA BootstrapFits ==
    ASSUME FetchInv, NEW f \in Fetchers, lock = f, NEW p \in Process, p.phase = "packs",
           p.path = "bootstrap", p.state \in past, p.need = Pending(p.state), p.half = None
    PROVE  Fits(f, p)
<1>1. p.need \subseteq p.state.packs
  BY DEF Pending
<1>2. UNION (p.state.packs \ p.need) \subseteq objs
  <2>1. \A q \in pairs : q \subseteq objs
    BY ProcFacts DEF Shared
  <2> QED
    BY <2>1 DEF Pending
<1> QED
  BY <1>1, <1>2 DEF Fits, HasRead, HasState, Holding

(* A fetch turns to the packset. *)
LEMMA BootstrapKeeps ==
    ASSUME FetchInv, NEW f \in Fetchers, proc[f].phase \in {"choosing", "wal"}, Bootstrap(f),
           UNCHANGED <<remote, objs, pairs, files, lock, ops>>
    PROVE  FetchInv'
<1> DEFINE need == Pending(proc[f].state)
           p == [proc[f] EXCEPT !.phase = "packs", !.path = "bootstrap", !.todo = {}, !.need = need]
<1>1. Becomes(f, p) /\ halves' = halves \ proc[f].state.packs
  BY DEF Bootstrap
<1>2. /\ proc[f] \in Process /\ lock = f /\ proc[f].half = None /\ proc[f].state \in past
      /\ RemoteTypes /\ RemoteInv /\ LocalTypes
  BY HolderFacts
<1>3. need \in SUBSET SUBSET Commits
  <2>1. proc[f].state.packs \subseteq SUBSET Commits
    BY <1>2, HeadFacts
  <2> QED
    BY <2>1 DEF Pending
<1>4. need = Pending(proc[f].state)
  OBVIOUS
<1> HIDE DEF need
<1>5. /\ p \in Process /\ p.phase = "packs" /\ p.path = "bootstrap" /\ p.need = need
      /\ p.state = proc[f].state /\ p.half = None
  <2>1. "packs" \in Phases /\ {} \in SUBSET Commits
    BY DEF Phases
  <2> QED
    BY <1>2, <1>3, <2>1 DEF Process
<1> HIDE DEF p
<1>6. Fits(f, p)
  BY <1>2, <1>4, <1>5, BootstrapFits
<1>7. halves' \subseteq SUBSET Commits /\ ops' \in 0..MaxOps
  BY <1>1, <1>2 DEF LocalTypes
<1> QED
  BY <1>1, <1>5, <1>6, <1>7, ProcStep

(* fetchState chooses its path. *)
LEMMA ChooseStep ==
    ASSUME FetchInv, NEW f \in Fetchers, Choose(f)
    PROVE  FetchInv'
<1>1. proc[f].phase = "choosing" /\ UNCHANGED <<remote, objs, pairs, files, lock, ops>>
  BY DEF Choose
<1>2. /\ proc[f] \in Process /\ lock = f /\ proc[f].half = None /\ proc[f].state \in past
      /\ proc[f].phase \in HasState /\ RemoteTypes /\ RemoteInv /\ LocalTypes
  BY <1>1, HolderFacts
<1>3. CASE Connected(proc[f].state) /\ WriteNext(f) /\ halves' = halves
  <2>1. UNCHANGED <<remote, store, files, lock, ops>>
    BY <1>1, <1>3 DEF store
  <2> QED
    BY <1>2, <1>3, <2>1, WriteNextKeeps
<1>4. CASE ~ Connected(proc[f].state) /\ ~ Incremental(proc[f].state) /\ Bootstrap(f)
  BY <1>1, <1>4, BootstrapKeeps
<1>5. CASE /\ Incremental(proc[f].state)
           /\ Becomes(f, [proc[f] EXCEPT !.phase = "wal", !.path = "incremental",
                                         !.todo = (curFile.gen + 1)..Gen(proc[f].state)])
           /\ halves' = halves
  <2> DEFINE todo == (curFile.gen + 1)..Gen(proc[f].state)
             p == [proc[f] EXCEPT !.phase = "wal", !.path = "incremental", !.todo = todo]
  <2>1. Becomes(f, p)
    BY <1>5
  <2>2. /\ Gen(proc[f].state) \in Nat /\ Gen(proc[f].state) <= MaxHeads /\ MaxHeads \in Nat
        /\ proc[f].state.floor \in Nat
    BY <1>2, HeadFacts, GraphFacts
  <2>3. curFile.gen \in proc[f].state.floor..(Gen(proc[f].state) - 1)
    BY <1>5 DEF Incremental
  <2>4. todo \subseteq 1..Gen(proc[f].state) /\ todo \in SUBSET Commits
    BY <2>2, <2>3 DEF Commits
  <2> HIDE DEF todo
  <2>5. /\ p \in Process /\ p.phase = "wal" /\ p.path = "incremental" /\ p.todo = todo
        /\ p.state = proc[f].state /\ p.half = None
    <3>1. "wal" \in Phases
      BY DEF Phases
    <3> QED
      BY <1>2, <2>4, <3>1 DEF Process
  <2> HIDE DEF p
  <2>6. Fits(f, p)
    BY <1>2, <2>4, <2>5 DEF Fits, HasRead, HasState, Holding
  <2>7. OwnStep(f, p)
    BY <1>1, <1>5, <2>1 DEF OwnStep, store
  <2> QED
    BY <2>5, <2>6, <2>7, OwnStepKeeps
<1> QED
  BY <1>3, <1>4, <1>5 DEF Choose

(* The first rename of installPackPair. *)
LEMMA RenamePackStep ==
    ASSUME FetchInv, NEW f \in Fetchers, RenamePack(f)
    PROVE  FetchInv'
<1>1. PICK pack \in proc[f].need :
        halves' = halves \cup {pack} /\ Becomes(f, [proc[f] EXCEPT !.half = pack])
  BY DEF RenamePack
<1> DEFINE p == [proc[f] EXCEPT !.half = pack]
<1>2. proc[f].phase = "packs" /\ UNCHANGED <<remote, objs, pairs, files, lock, ops>>
  BY DEF RenamePack
<1>3. proc[f] \in Process /\ Fits(f, proc[f]) /\ lock = f /\ proc[f].state \in past /\ LocalTypes
  BY <1>2, HolderFacts
<1>4. pack \in SUBSET Commits
  BY <1>3 DEF Process
<1>5. /\ p \in Process /\ p.phase = "packs" /\ p.path = proc[f].path /\ p.need = proc[f].need
      /\ p.state = proc[f].state /\ p.half = pack
  BY <1>2, <1>3, <1>4 DEF Process
<1>6. Becomes(f, p)
  BY <1>1
<1> HIDE DEF p
<1>7. Fits(f, p)
  BY <1>2, <1>3, <1>5 DEF Fits, HasRead, HasState, Holding
<1>8. halves' \subseteq SUBSET Commits /\ ops' \in 0..MaxOps
  BY <1>1, <1>2, <1>3, <1>4 DEF LocalTypes
<1> QED
  BY <1>2, <1>5, <1>6, <1>7, <1>8, ProcStep

(* A step of the holder of the lock that adds objects. *)
LEMMA InstallStep ==
    ASSUME FetchInv, NEW f \in Fetchers, lock = f, NEW p \in Process, Becomes(f, p),
           UNCHANGED <<remote, files, lock, ops>>,
           objs \subseteq objs', objs' \subseteq Commits,
           pairs' \subseteq SUBSET Commits, \A q \in pairs' : q \subseteq objs',
           halves' \subseteq SUBSET Commits, Fits(f, proc[f])'
    PROVE  FetchInv'
<1>1. proc' \in [Fetchers -> Process] /\ \A g \in Fetchers \ {f} : proc'[g] = proc[g]
  BY ProcFacts DEF Becomes
<1>2. LocalTypes' /\ Shared'
  BY ProcFacts DEF LocalTypes, Shared, files, remote
<1> QED
  BY <1>1, <1>2, LocalStep DEF files

(* The second rename: the pack counts. *)
LEMMA RenameIndexStep ==
    ASSUME FetchInv, NEW f \in Fetchers, RenameIndex(f)
    PROVE  FetchInv'
<1> DEFINE pack == proc[f].half
           p == [proc[f] EXCEPT !.need = @ \ {pack}, !.half = None]
<1>1. /\ proc[f].phase = "packs" /\ pack # None /\ halves' = halves \ {pack}
      /\ pairs' = pairs \cup {pack} /\ objs' = objs \cup pack /\ Becomes(f, p)
      /\ UNCHANGED <<remote, files, lock, ops>>
  BY DEF RenameIndex
<1>2. /\ proc[f] \in Process /\ Fits(f, proc[f]) /\ lock = f /\ proc[f].state \in past /\ LocalTypes
      /\ Shared /\ proc \in [Fetchers -> Process]
  BY <1>1, HolderFacts
<1>3. pack \in proc[f].need /\ pack \in SUBSET Commits
  BY <1>1, <1>2 DEF Fits, Process
<1>4. /\ p \in Process /\ p.phase = "packs" /\ p.path = proc[f].path /\ p.need = proc[f].need \ {pack}
      /\ p.state = proc[f].state /\ p.half = None
  BY <1>1, <1>2, <1>3 DEF Process
<1> HIDE DEF p, pack
<1>5. /\ p.path = "bootstrap" /\ p.need \subseteq p.state.packs
      /\ UNION (p.state.packs \ p.need) \subseteq objs'
  <2>1. /\ proc[f].path = "bootstrap" /\ proc[f].need \subseteq p.state.packs
        /\ UNION (p.state.packs \ proc[f].need) \subseteq objs
    BY <1>1, <1>2, <1>4 DEF Fits
  <2>2. p.state.packs \ p.need \subseteq (p.state.packs \ proc[f].need) \cup {pack}
    BY <1>4
  <2>3. UNION (p.state.packs \ p.need) \subseteq (UNION (p.state.packs \ proc[f].need)) \cup pack
    BY <2>2
  <2> QED
    BY <1>1, <1>4, <2>1, <2>3
<1>6. proc'[f] = p /\ past' = past /\ lock' = f
  BY <1>1, <1>2 DEF Becomes, remote
<1>7. Fits(f, proc[f])'
  BY <1>2, <1>4, <1>5, <1>6 DEF Fits, HasRead, HasState, Holding
<1>8. objs' \subseteq Commits /\ pairs' \subseteq SUBSET Commits /\ halves' \subseteq SUBSET Commits
  BY <1>1, <1>2, <1>3 DEF LocalTypes
<1>9. \A q \in pairs' : q \subseteq objs'
  BY <1>1, <1>2 DEF Shared
<1>10. objs \subseteq objs'
  BY <1>1
<1> QED
  BY <1>1, <1>2, <1>4, <1>7, <1>8, <1>9, <1>10, InstallStep

(* The packset is there: the history of the floor is complete. *)
LEMMA PacksInstalledStep ==
    ASSUME FetchInv, NEW f \in Fetchers, PacksInstalled(f)
    PROVE  FetchInv'
<1> DEFINE h == proc[f].state
           todo == (h.floor + 1)..Gen(h)
           p == [proc[f] EXCEPT !.phase = "wal", !.todo = todo]
<1>1. proc[f].phase = "packs" /\ proc[f].half = None /\ proc[f].need = {} /\ OwnStep(f, p)
  BY DEF PacksInstalled, OwnStep
<1>2. /\ proc[f] \in Process /\ Fits(f, proc[f]) /\ lock = f /\ h \in past /\ RemoteTypes /\ RemoteInv
  BY <1>1, HolderFacts
<1>3. /\ Gen(h) \in Nat /\ Gen(h) <= MaxHeads /\ MaxHeads \in Nat /\ h.floor \in 0..Gen(h)
      /\ Reach(At(h, h.floor)) \subseteq UNION h.packs
  BY <1>2, HeadFacts, GraphFacts
<1>4. UNION h.packs \subseteq objs
  <2>1. UNION (h.packs \ proc[f].need) \subseteq objs
    BY <1>1, <1>2 DEF Fits
  <2>2. h.packs \ proc[f].need = h.packs
    BY <1>1
  <2> QED
    BY <2>1, <2>2
<1>5. /\ todo \subseteq 1..Gen(h) /\ todo \in SUBSET Commits
      /\ h.floor + 1 \in 1..(Gen(h) + 1) /\ todo = (h.floor + 1)..Gen(h) /\ (h.floor + 1) - 1 = h.floor
  BY <1>3 DEF Commits
<1> HIDE DEF todo, h
<1>6. /\ p \in Process /\ p.phase = "wal" /\ p.todo = todo
      /\ p.state = h /\ p.half = None
  <2>1. "wal" \in Phases
    BY DEF Phases
  <2> QED
    BY <1>1, <1>2, <1>5, <2>1, ZenonT(60) DEF Process, h
<1> HIDE DEF p
<1>7. UpTo(p, h.floor + 1)
  BY <1>3, <1>4, <1>5, <1>6 DEF UpTo
<1>8. Fits(f, p)
  BY <1>2, <1>5, <1>6, <1>7 DEF Fits, HasRead, HasState, Holding
<1> QED
  BY <1>1, <1>6, <1>8, OwnStepKeeps

(* In a bootstrap everything that the next WAL pack rests on is there, and *)
(* with it the pack completes the next generation.                         *)
LEMMA NextWal ==
    ASSUME FetchInv, NEW f \in Fetchers, proc[f].phase = "wal", NEW k, UpTo(proc[f], k),
           NEW g \in proc[f].todo, \A i \in proc[f].todo : g <= i
    PROVE  LET h == proc[f].state
               wal == Wal(h, g)
           IN  /\ g = k /\ g \in 1..Gen(h) /\ Gen(h) \in Nat
               /\ \A c \in wal : parents[c] \in objs \cup wal \cup {0}
               /\ Reach(At(h, g - 1)) \subseteq objs
               /\ Reach(At(h, g)) \subseteq objs \cup wal
<1> DEFINE h == proc[f].state
<1>1. h \in past /\ RemoteTypes /\ RemoteInv
  BY HolderFacts
<1>2. Gen(h) \in Nat
  BY <1>1, HeadFacts
<1>3. k \in 1..(Gen(h) + 1) /\ proc[f].todo = k..Gen(h) /\ Reach(At(h, k - 1)) \subseteq objs
  BY DEF UpTo
<1>4. g \in k..Gen(h) /\ k \in k..Gen(h)
  BY <1>2, <1>3
<1>5. g = k /\ g \in 1..Gen(h) /\ g \in 0..Gen(h)
  BY <1>2, <1>3, <1>4
<1>6. \A d \in Reach(At(h, g)) : parents[d] \in Reach(At(h, g)) \cup {0}
  BY <1>1, <1>5, HistoryFacts
<1> HIDE DEF h
<1>7. Reach(At(h, g - 1)) \subseteq objs
  BY <1>3, <1>5
<1>8. Wal(h, g) = Reach(At(h, g)) \ Reach(At(h, g - 1))
  BY DEF Wal
<1>9. /\ \A c \in Wal(h, g) : parents[c] \in objs \cup Wal(h, g) \cup {0}
      /\ Reach(At(h, g)) \subseteq objs \cup Wal(h, g)
  BY <1>6, <1>7, <1>8
<1> QED
  BY <1>2, <1>5, <1>7, <1>9 DEF h

(* installWAL: a pack is added, or the incremental path falls back. *)
LEMMA InstallWALStep ==
    ASSUME FetchInv, NEW f \in Fetchers, InstallWAL(f)
    PROVE  FetchInv'
<1> DEFINE h == proc[f].state
<1>1. PICK g \in proc[f].todo :
        /\ \A i \in proc[f].todo : g <= i
        /\ \/ /\ \A c \in Wal(h, g) : parents[c] \in objs \cup Wal(h, g) \cup {0}
              /\ objs' = objs \cup Wal(h, g) /\ halves' = halves
              /\ Becomes(f, [proc[f] EXCEPT !.todo = @ \ {g}])
           \/ /\ ~ (/\ \A c \in Wal(h, g) : parents[c] \in objs \cup Wal(h, g) \cup {0}
                    /\ Reach(At(h, g - 1)) \subseteq objs)
              /\ FallBack(f) /\ objs' = objs
  BY DEF InstallWAL
<1>2. proc[f].phase = "wal" /\ UNCHANGED <<remote, pairs, files, lock, ops>>
  BY DEF InstallWAL
<1>3. /\ proc[f] \in Process /\ Fits(f, proc[f]) /\ lock = f /\ h \in past /\ RemoteTypes /\ RemoteInv
      /\ LocalTypes /\ Shared /\ proc[f].half = None /\ proc \in [Fetchers -> Process]
  BY <1>2, HolderFacts
<1>4. /\ proc[f].todo \subseteq 1..Gen(h) /\ Gen(h) \in Nat
      /\ proc[f].path = "incremental" \/ \E k : UpTo(proc[f], k)
  BY <1>2, <1>3, HeadFacts DEF Fits
<1>5. CASE /\ objs' = objs \cup Wal(h, g) /\ halves' = halves
           /\ Becomes(f, [proc[f] EXCEPT !.todo = @ \ {g}])
  <2> DEFINE p == [proc[f] EXCEPT !.todo = @ \ {g}]
  <2>1. Becomes(f, p)
    BY <1>5
  <2>2. /\ p \in Process /\ p.phase = "wal" /\ p.todo = proc[f].todo \ {g} /\ p.state = h
        /\ p.path = proc[f].path /\ p.half = None
    BY <1>2, <1>3 DEF Process
  <2>3. g \in 0..Gen(h)
    BY <1>4
  <2>4. Wal(h, g) \subseteq Commits
    BY <1>3, <2>3, HistoryFacts DEF Wal
  <2>5. \A c : Reach(c)' = Reach(c)
    BY <1>2, ReachIsReachIn DEF remote
  <2>6. proc'[f] = p /\ past' = past /\ lock' = f
    BY <1>2, <1>3, <2>1 DEF Becomes, remote
  <2>7. ASSUME NEW k, UpTo(proc[f], k) PROVE UpTo(proc[f], k + 1)'
    <3>1. /\ g = k /\ g \in 1..Gen(h) /\ Gen(h) \in Nat
          /\ Reach(At(h, g)) \subseteq objs \cup Wal(h, g)
      BY <1>1, <1>2, <2>7, NextWal
    <3>2. proc[f].todo = k..Gen(h)
      BY <2>7 DEF UpTo
    <3>3. (k..Gen(h)) \ {k} = (k + 1)..Gen(h) /\ k + 1 \in 1..(Gen(h) + 1) /\ (k + 1) - 1 = k
      BY <3>1
    <3>4. p.todo = (k + 1)..Gen(h)
      BY <2>2, <3>1, <3>2, <3>3
    <3>5. Reach(At(h, k)) \subseteq objs'
      BY <1>5, <3>1
    <3>6. \A c : c = At(h, k) => Reach(c)' \subseteq objs'
      BY <2>5, <3>5
    <3> HIDE DEF p, h
    <3>7. \A q : q = proc'[f] => UpTo(q, k + 1)'
      BY <2>2, <2>6, <3>3, <3>4, <3>6 DEF UpTo
    <3> QED
      BY <3>7 DEF UpTo, Reach
  <2> HIDE DEF p, h
  <2>8. p.todo \subseteq 1..Gen(p.state)
        /\ (p.path = "incremental" \/ \E k : UpTo(proc[f], k)')
    BY <1>4, <2>2, <2>7
  <2>9. Fits(f, proc[f])'
    BY <1>3, <2>2, <2>6, <2>8 DEF Fits, HasRead, HasState, Holding
  <2>10. objs \subseteq objs' /\ objs' \subseteq Commits /\ pairs' \subseteq SUBSET Commits
         /\ halves' \subseteq SUBSET Commits /\ \A q \in pairs' : q \subseteq objs'
    BY <1>2, <1>3, <1>5, <2>4 DEF LocalTypes, Shared
  <2> QED
    BY <1>2, <1>3, <2>1, <2>2, <2>9, <2>10, InstallStep
<1>6. CASE /\ ~ (/\ \A c \in Wal(h, g) : parents[c] \in objs \cup Wal(h, g) \cup {0}
                 /\ Reach(At(h, g - 1)) \subseteq objs)
           /\ FallBack(f) /\ objs' = objs
  <2>1. ~ \E k : UpTo(proc[f], k)
    BY <1>1, <1>2, <1>6, NextWal
  <2>2. Bootstrap(f)
    BY <1>4, <1>6, <2>1 DEF FallBack
  <2> QED
    BY <1>2, <1>6, <2>2, BootstrapKeeps
<1> QED
  BY <1>1, <1>5, <1>6

(* The last check of connectivity: a bootstrap passes it. *)
LEMMA WALInstalledStep ==
    ASSUME FetchInv, NEW f \in Fetchers, WALInstalled(f)
    PROVE  FetchInv'
<1> DEFINE h == proc[f].state
<1>1. /\ proc[f].phase = "wal" /\ proc[f].todo = {} /\ UNCHANGED <<remote, objs, pairs, files, lock, ops>>
      /\ IF Connected(h) THEN WriteNext(f) /\ halves' = halves ELSE FallBack(f)
  BY DEF WALInstalled
<1>2. /\ proc[f] \in Process /\ Fits(f, proc[f]) /\ lock = f /\ h \in past /\ RemoteTypes /\ RemoteInv
      /\ proc[f].half = None /\ proc[f].phase \in HasState
  BY <1>1, HolderFacts
<1>3. CASE Connected(h)
  <2>1. WriteNext(f) /\ UNCHANGED <<remote, store, files, lock, ops>>
    BY <1>1, <1>3 DEF store
  <2> QED
    BY <1>2, <1>3, <2>1, WriteNextKeeps
<1>4. CASE ~ Connected(h)
  <2>1. ASSUME NEW k, UpTo(proc[f], k) PROVE FALSE
    <3>1. Gen(h) \in Nat /\ Tip(h) = At(h, Gen(h))
      BY <1>2, HeadFacts
    <3>2. k \in 1..(Gen(h) + 1) /\ k..Gen(h) = {} /\ Reach(At(h, k - 1)) \subseteq objs
      BY <1>1, <2>1 DEF UpTo
    <3>3. k = Gen(h) + 1
      <4>1. ~ (k <= Gen(h))
        <5>1. k <= Gen(h) => k \in k..Gen(h)
          BY <3>1, <3>2
        <5> QED
          BY <3>2, <5>1
      <4> QED
        BY <3>1, <3>2, <4>1
    <3>4. k - 1 = Gen(h)
      BY <3>1, <3>3
    <3> QED
      BY <1>4, <3>1, <3>2, <3>4 DEF Connected
  <2>2. proc[f].path = "incremental"
    BY <1>1, <1>2, <2>1 DEF Fits
  <2>3. Bootstrap(f)
    BY <1>1, <1>4, <2>2 DEF FallBack
  <2> QED
    BY <1>1, <2>3, BootstrapKeeps
<1> QED
  BY <1>3, <1>4

(* A download fails: the fetch fails too, or turns to the packset. *)
LEMMA DownloadFailsStep ==
    ASSUME FetchInv, NEW f \in Fetchers, DownloadFails(f)
    PROVE  FetchInv'
<1> DEFINE l == [proc[f] EXCEPT !.lost = TRUE, !.half = None]
<1>1. /\ proc[f].phase \in {"locked", "packs", "wal"} /\ UNCHANGED <<remote, objs, pairs, files, lock, ops>>
  BY DEF DownloadFails
<1>2. /\ proc[f] \in Process /\ Fits(f, proc[f]) /\ lock = f /\ proc[f].state \in past
      /\ RemoteTypes /\ RemoteInv /\ LocalTypes
  BY <1>1, HolderFacts
<1>3. l \in Process /\ l.lost /\ l.half = None /\ l.state = proc[f].state
  BY <1>2 DEF Process
<1>4. CASE proc[f].phase = "wal" /\ proc[f].path = "incremental"
  <2> DEFINE need == Pending(proc[f].state)
             p == [l EXCEPT !.phase = "packs", !.path = "bootstrap", !.todo = {}, !.need = need]
  <2>1. Becomes(f, p) /\ halves' = halves \ proc[f].state.packs
    BY <1>4 DEF DownloadFails
  <2>2. need \in SUBSET SUBSET Commits /\ need = Pending(l.state)
    <3>1. proc[f].state.packs \subseteq SUBSET Commits
      BY <1>2, HeadFacts
    <3> QED
      BY <1>3, <3>1 DEF Pending
  <2> HIDE DEF need, l
  <2>3. /\ p \in Process /\ p.phase = "packs" /\ p.path = "bootstrap" /\ p.need = need
        /\ p.state = l.state /\ p.half = None
    <3>1. "packs" \in Phases /\ {} \in SUBSET Commits
      BY DEF Phases
    <3> QED
      BY <1>3, <2>2, <3>1 DEF Process
  <2> HIDE DEF p
  <2>4. Fits(f, p)
    BY <1>2, <1>3, <2>2, <2>3, BootstrapFits
  <2>5. halves' \subseteq SUBSET Commits /\ ops' \in 0..MaxOps
    BY <1>1, <1>2, <2>1 DEF LocalTypes
  <2> QED
    BY <1>1, <2>1, <2>3, <2>4, <2>5, ProcStep
<1>5. CASE ~ (proc[f].phase = "wal" /\ proc[f].path = "incremental")
  <2> DEFINE p == [l EXCEPT !.phase = "failed"]
  <2>1. OwnStep(f, p)
    BY <1>1, <1>5 DEF DownloadFails, OwnStep, store
  <2> HIDE DEF l
  <2>2. p \in Process /\ p.phase = "failed" /\ p.lost /\ p.half = None
    BY <1>3 DEF Process, Phases
  <2> HIDE DEF p
  <2>3. Fits(f, p)
    BY <2>2 DEF Fits, HasRead, HasState, Holding
  <2> QED
    BY <2>1, <2>2, <2>3, OwnStepKeeps
<1> QED
  BY <1>4, <1>5

(* writeCursor goes on to its next file. *)
Continues(f, n) == Becomes(f, [proc[f] EXCEPT !.file = n])

(* One file of writeCursor: the fetch that writes has the lock. *)
LEMMA WriteStep ==
    ASSUME FetchInv, NEW f \in Fetchers, proc[f].phase = "writing", NEW n \in 2..4, Continues(f, n),
           UNCHANGED <<remote, store, lock, ops>>, LocalTypes', Shared',
           n = 2 => proc[f].file = 1 /\ curFile' = curFile,
           curFile # None => curFile' # None
    PROVE  FetchInv'
<1> DEFINE p == [proc[f] EXCEPT !.file = n]
<1>1. /\ proc[f] \in Process /\ Fits(f, proc[f]) /\ lock = f /\ proc[f].state \in past
      /\ proc[f].half = None /\ proc \in [Fetchers -> Process]
  BY HolderFacts
<1>2. p \in Process /\ p.phase = "writing" /\ p.state = proc[f].state /\ p.half = None /\ p.file = n
  BY <1>1 DEF Process
<1>3. Becomes(f, p)
  BY DEF Continues
<1> HIDE DEF p
<1>4. proc' \in [Fetchers -> Process] /\ proc'[f] = p /\ \A g \in Fetchers \ {f} : proc'[g] = proc[g]
  BY <1>1, <1>2, <1>3 DEF Becomes
<1>5. past' = past /\ lock' = f /\ objs' = objs /\ parents' = parents
  BY <1>1 DEF remote, store
<1>6. ASSUME n <= 2 PROVE (Connected(proc[f].state) \/ AtPoint(proc[f].state))'
  <2>1. n = 2 /\ curFile' = curFile /\ proc[f].file <= 2
    BY <1>6
  <2>2. Connected(p.state) \/ AtPoint(p.state)
    BY <1>1, <1>2, <2>1 DEF Fits
  <2>3. \A c : Reach(c)' = Reach(c)
    BY <1>5, ReachIsReachIn
  <2>4. \A h : (Connected(h) => Connected(h)') /\ (AtPoint(h) => AtPoint(h)')
    BY <1>5, <2>1, <2>3 DEF Connected, AtPoint
  <2>5. \A h : h = proc'[f].state => (Connected(h) \/ AtPoint(h))'
    BY <1>4, <2>2, <2>4
  <2> QED
    BY <2>5 DEF Connected, AtPoint, Reach
<1>7. Fits(f, proc[f])'
  BY <1>1, <1>2, <1>4, <1>5, <1>6 DEF Fits, HasRead, HasState, Holding
<1> QED
  BY <1>1, <1>4, <1>7, LocalStep DEF store

(* refs.snapshot *)
LEMMA WriteSnapshotStep ==
    ASSUME FetchInv, NEW f \in Fetchers, WriteSnapshot(f)
    PROVE  FetchInv'
<1>1. /\ proc[f].phase = "writing" /\ proc[f].file = 1 /\ snapFile' = SnapshotOf(proc[f].state)
      /\ Continues(f, 2) /\ UNCHANGED <<remote, store, lock, ops>>
      /\ curFile' = curFile /\ headFile' = headFile /\ mapped' = mapped
  BY DEF WriteSnapshot, Continues
<1>2. proc[f].state \in past /\ RemoteTypes /\ RemoteInv /\ LocalTypes /\ Shared
  BY <1>1, HolderFacts
<1>3. SnapshotOf(proc[f].state) \in SnapshotFile
  BY <1>2, HeadFacts
<1>4. LocalTypes' /\ Shared'
  BY <1>1, <1>2, <1>3 DEF LocalTypes, Shared, store, remote
<1> QED
  BY <1>1, <1>4, WriteStep

(* cursor.json *)
LEMMA WriteCursorStep ==
    ASSUME FetchInv, NEW f \in Fetchers, WriteCursor(f)
    PROVE  FetchInv'
<1>1. /\ proc[f].phase = "writing" /\ proc[f].file = 2 /\ curFile' = CursorOf(proc[f].state)
      /\ Continues(f, 3) /\ UNCHANGED <<remote, store, lock, ops>>
      /\ snapFile' = snapFile /\ headFile' = headFile /\ mapped' = mapped
  BY DEF WriteCursor, Continues
<1>2. proc[f].state \in past /\ RemoteTypes /\ RemoteInv /\ LocalTypes /\ Shared
  BY <1>1, HolderFacts
<1>3. CursorOf(proc[f].state) \in CursorFile /\ curFile' # None
  BY <1>1, <1>2, HeadFacts, NoneAssumption
<1>4. LocalTypes' /\ Shared'
  BY <1>1, <1>2, <1>3 DEF LocalTypes, Shared, store, remote
<1> QED
  BY <1>1, <1>3, <1>4, WriteStep

(* remote-head.json *)
LEMMA WriteHeadStep ==
    ASSUME FetchInv, NEW f \in Fetchers, WriteHead(f)
    PROVE  FetchInv'
<1>1. /\ proc[f].phase = "writing" /\ proc[f].file = 3 /\ headFile' = proc[f].state
      /\ Continues(f, 4) /\ UNCHANGED <<remote, store, lock, ops>>
      /\ snapFile' = snapFile /\ curFile' = curFile /\ mapped' = mapped
  BY DEF WriteHead, Continues
<1>2. proc[f].state \in past /\ RemoteTypes /\ RemoteInv /\ LocalTypes /\ Shared
  BY <1>1, HolderFacts
<1>3. proc[f].state \in HeadObject
  BY <1>2, HeadFacts
<1>4. LocalTypes' /\ Shared'
  BY <1>1, <1>2, <1>3 DEF LocalTypes, Shared, store, remote
<1> QED
  BY <1>1, <1>4, WriteStep

(* remotes/<cache-id> *)
LEMMA WriteRemoteMappingStep ==
    ASSUME FetchInv, NEW f \in Fetchers, WriteRemoteMapping(f)
    PROVE  FetchInv'
<1> DEFINE p == [proc[f] EXCEPT !.phase = "ok"]
<1>1. /\ proc[f].phase = "writing" /\ mapped' = TRUE /\ Becomes(f, p) /\ UNCHANGED <<remote, store, lock, ops>>
      /\ snapFile' = snapFile /\ curFile' = curFile /\ headFile' = headFile
  BY DEF WriteRemoteMapping, Goes
<1>2. /\ proc[f] \in Process /\ lock = f /\ proc[f].half = None /\ LocalTypes /\ Shared
      /\ proc \in [Fetchers -> Process]
  BY <1>1, HolderFacts
<1>3. p \in Process /\ p.phase = "ok" /\ p.half = None
  BY <1>2 DEF Process, Phases
<1> HIDE DEF p
<1>4. proc' \in [Fetchers -> Process] /\ proc'[f] = p /\ \A g \in Fetchers \ {f} : proc'[g] = proc[g]
  BY <1>1, <1>2, <1>3 DEF Becomes
<1>5. LocalTypes' /\ Shared'
  BY <1>1, <1>2 DEF LocalTypes, Shared, store, remote
<1>6. Fits(f, proc[f])'
  BY <1>1, <1>2, <1>3, <1>4 DEF Fits, HasRead, HasState, Holding
<1> QED
  BY <1>1, <1>2, <1>4, <1>5, <1>6, LocalStep DEF store

(* A process is back at the start, without the lock. *)
LEMMA EndStep ==
    ASSUME FetchInv, NEW f \in Fetchers, Unlock(f), Becomes(f, Idle), UNCHANGED <<remote, store, files, ops>>
    PROVE  FetchInv'
<1>1. LocalTypes /\ Shared /\ proc \in [Fetchers -> Process]
  BY ProcFacts
<1>2. proc' \in [Fetchers -> Process] /\ proc'[f] = Idle /\ \A g \in Fetchers \ {f} : proc'[g] = proc[g]
  BY <1>1, IdleType DEF Becomes
<1>3. LocalTypes' /\ Shared'
  BY <1>1 DEF LocalTypes, Shared, store, files, remote, Unlock
<1>4. Idle.phase = "idle" /\ Idle.half = None
  BY DEF Idle
<1>5. Fits(f, proc[f])'
  BY <1>2, <1>4 DEF Fits, HasRead, HasState, Holding
<1>6. \A g \in Fetchers \ {f} : lock = g => lock' = g /\ objs \subseteq objs' /\ curFile' = curFile
  BY DEF Unlock, store, files
<1> QED
  BY <1>2, <1>3, <1>5, <1>6, LocalStep DEF files

(* git takes objects away: nobody relies on them without the lock. *)
LEMMA PruneStep ==
    ASSUME FetchInv, Prune
    PROVE  FetchInv'
<1>1. /\ lock = None /\ objs' \subseteq objs /\ pairs' = {p \in pairs : p \subseteq objs'}
      /\ UNCHANGED <<remote, halves, files, lock, proc, ops>>
  BY DEF Prune
<1>2. /\ RemoteTypes /\ RemoteInv /\ LocalTypes /\ Shared /\ proc \in [Fetchers -> Process]
      /\ \A f \in Fetchers : Fits(f, proc[f])
  BY Parts DEF Parted
<1>3. LocalTypes' /\ Shared' /\ proc' \in [Fetchers -> Process]
  BY <1>1, <1>2 DEF LocalTypes, Shared, files, remote
<1>4. \A c : Reach(c)' = Reach(c)
  BY <1>1, ReachIsReachIn DEF remote
<1>5. \A h : Sound(h)' <=> Sound(h)
  BY <1>1, <1>4 DEF Sound, remote
<1>6. RemoteTypes' /\ RemoteInv'
  BY <1>1, <1>2, <1>5 DEF RemoteInv, RemoteTypes, remote
<1>7. ASSUME NEW f \in Fetchers PROVE Fits(f, proc[f])'
  <2>1. lock # f
    BY <1>1, NoneAssumption
  <2>2. \A p : Fits(f, p) => Fits(f, p)'
    BY <1>1, <2>1, OtherStep DEF files
  <2> QED
    BY <1>1, <1>2, <2>2
<1> QED
  BY <1>3, <1>6, <1>7, PartsNext DEF Parted

-----------------------------------------------------------------------------
(* The theorems. *)

(* The first HEAD is sound, and nothing was fetched. *)
LEMMA InitInv == Init => FetchInv
<1> SUFFICES ASSUME Init PROVE FetchInv
  OBVIOUS
<1>1. /\ head = FirstHead /\ past = {FirstHead} /\ parents = <<0>>
      /\ objs = {} /\ pairs = {} /\ halves = {}
      /\ snapFile = None /\ curFile = None /\ headFile = None /\ mapped = FALSE
      /\ lock = None /\ proc = [f \in Fetchers |-> Idle] /\ ops = 0
  BY DEF Init
<1>2. 1 \in 1..MaxHeads /\ MaxHeads \in Nat /\ 1 <= MaxHeads /\ 0 \in 0..MaxHeads
  BY BoundAssumption
<1>3. /\ FirstHead \in HeadObject /\ FirstHead.pub = 1 /\ FirstHead.log = <<1>> /\ FirstHead.floor = 0
      /\ FirstHead.packs = {}
  BY <1>2 DEF FirstHead, HeadObject, Commits
<1>4. IsFiniteSet(past) /\ Cardinality(past) = 1
  BY <1>1, FS_Singleton
<1>5. /\ parents \in Seq(0..MaxHeads) /\ parents \in Seq(Nat) /\ Len(parents) = 1 /\ parents[1] = 0
  BY <1>1, <1>2
<1>6. Acyclic(parents)
  BY <1>5 DEF Acyclic
<1>7. Reach(0) = {}
  BY <1>6, ReachInDef, ReachIsReachIn
<1>8. Sound(FirstHead)
  <2>1. Gen(FirstHead) = 1 /\ At(FirstHead, 0) = 0 /\ FirstHead.log[1] = 1
    BY <1>3 DEF Gen, At
  <2>2. \A i \in 1..1 : i = 1
    OBVIOUS
  <2>3. \A i \in 1..Gen(FirstHead) : FirstHead.log[i] \in 1..Len(parents)
    BY <1>5, <2>1, <2>2
  <2>4. Reach(At(FirstHead, FirstHead.floor)) \subseteq UNION FirstHead.packs
    BY <1>3, <1>7, <2>1
  <2> QED
    BY <1>3, <1>4, <2>1, <2>3, <2>4 DEF Sound
<1>9. RemoteTypes
  BY <1>1, <1>3, <1>5 DEF RemoteTypes
<1>10. RemoteInv
  BY <1>1, <1>2, <1>4, <1>5, <1>8 DEF RemoteInv
<1>11. LocalTypes /\ Shared
  <2>1. 0 \in 0..MaxOps
    BY BoundAssumption
  <2>2. LocalTypes
    BY <1>1, <2>1 DEF LocalTypes
  <2>3. Shared
    BY <1>1 DEF Shared
  <2> QED
    BY <2>2, <2>3
<1>12. ASSUME NEW f \in Fetchers PROVE Fits(f, proc[f]) /\ proc[f] \in Process
  <2>1. proc[f] = Idle /\ Idle.phase = "idle" /\ Idle.half = None
    BY <1>1 DEF Idle
  <2> QED
    BY <2>1, IdleType DEF Fits, HasRead, HasState, Holding
<1>13. proc \in [Fetchers -> Process]
  BY <1>1, IdleType
<1> QED
  BY <1>9, <1>10, <1>11, <1>12, <1>13, Parts DEF Parted

(* A step that changes nothing. *)
LEMMA StutterKeeps ==
    ASSUME FetchInv, UNCHANGED vars
    PROVE  FetchInv'
<1>1. RemoteTypes /\ RemoteInv
  BY Parts DEF Parted
<1>2. \A c : Reach(c)' = Reach(c)
  BY SameGraph DEF vars, remote
<1>3. \A h : Sound(h)' <=> Sound(h)
  BY <1>2 DEF Sound, vars, remote
<1>4. RemoteTypes' /\ RemoteInv'
  BY <1>1, <1>3 DEF RemoteTypes, RemoteInv, vars, remote
<1>5. Grows
  BY <1>2 DEF Grows, vars, remote
<1> QED
  BY <1>4, <1>5, InvGrows

(* Every step keeps the invariant. *)
LEMMA NextInv == FetchInv /\ [Next]_vars => FetchInv'
<1> SUFFICES ASSUME FetchInv, [Next]_vars PROVE FetchInv'
  OBVIOUS
<1>1. CASE RemotePush
  BY <1>1, RemotePushStep
<1>2. CASE RemoteMaintenance
  BY <1>2, RemoteMaintenanceStep
<1>3. CASE RemoteSetHead
  BY <1>3, RemoteSetHeadStep
<1>4. CASE RemoteRestore
  BY <1>4, RemoteRestoreStep
<1>5. CASE Prune
  BY <1>5, PruneStep
<1>6. ASSUME NEW f \in Fetchers, Begin(f) \/ Proceed(f) \/ Crash(f) PROVE FetchInv'
  <2>1. CASE Begin(f)
    BY <2>1, BeginStep
  <2>2. CASE Crash(f)
    BY <2>2, EndStep DEF Crash
  <2>3. CASE ReadCursor(f) \/ ReadHead(f) \/ ReadRefs(f) \/ CheckRefs(f)
    BY <2>3, ReadCursorStep, ReadHeadStep, ReadRefsStep, CheckRefsStep
  <2>4. CASE ConditionalGet(f) \/ Get(f) \/ Lock(f) \/ LockTimeout(f)
    BY <2>4, ConditionalGetStep, GetStep, LockStep, LockTimeoutStep
  <2>5. CASE NoOp(f) \/ Pin(f) \/ Choose(f)
    BY <2>5, NoOpStep, PinStep, ChooseStep
  <2>6. CASE RenamePack(f) \/ RenameIndex(f) \/ PacksInstalled(f)
    BY <2>6, RenamePackStep, RenameIndexStep, PacksInstalledStep
  <2>7. CASE InstallWAL(f) \/ WALInstalled(f) \/ DownloadFails(f)
    BY <2>7, InstallWALStep, WALInstalledStep, DownloadFailsStep
  <2>8. CASE WriteSnapshot(f) \/ WriteCursor(f) \/ WriteHead(f) \/ WriteRemoteMapping(f)
    BY <2>8, WriteSnapshotStep, WriteCursorStep, WriteHeadStep, WriteRemoteMappingStep
  <2>9. CASE Return(f)
    BY <2>9, EndStep DEF Return
  <2> QED
    BY <1>6, <2>1, <2>2, <2>3, <2>4, <2>5, <2>6, <2>7, <2>8, <2>9 DEF Proceed
<1>7. CASE UNCHANGED vars
  BY <1>7, StutterKeeps
<1> QED
  BY <1>1, <1>2, <1>3, <1>4, <1>5, <1>6, <1>7 DEF Next

(* Publication ids name one HEAD, the files are each of a published HEAD,  *)
(* and what a fetch has verified under the lock stays so.                  *)
THEOREM InvariantHolds == Spec => []FetchInv
  BY InitInv, NextInv, PTL DEF Spec

(* Every variable has its type, in every behaviour of fetches, crashes and *)
(* changes of the remote.                                                  *)
THEOREM TypeCorrect == Spec => []TypeOK
<1>1. FetchInv => TypeOK
  BY DEF FetchInv
<1> QED
  BY <1>1, InvariantHolds, PTL

(* Read and readCached: what Git is shown is the HEAD that the store had   *)
(* when it answered, whatever a crash or other fetches left in the files.  *)
THEOREM AdvertisementIsCurrent == Spec => []AdvertisedWasHead
<1>1. FetchInv => AdvertisedWasHead
  BY DEF FetchInv
<1> QED
  BY <1>1, InvariantHolds, PTL

(* fetchState repairs whatever it finds in the local repository: a fetch   *)
(* fails only when a download or the lock failed it.                       *)
THEOREM LocalDamageIsRepaired == Spec => []OnlyRemoteFailures
<1>1. FetchInv => OnlyRemoteFailures
  BY DEF FetchInv
<1> QED
  BY <1>1, InvariantHolds, PTL

(* Only WriteCursor replaces the cursor, and then by a point that was      *)
(* verified and still is, or by the same one.                              *)
LEMMA CursorStep ==
    ASSUME FetchInv, [Next]_vars, curFile' # curFile
    PROVE  \/ curFile # None /\ curFile'.gen = curFile.gen /\ curFile'.tx = curFile.tx
           \/ Reach(curFile'.tx) \subseteq objs
<1>1. PICK f \in Fetchers : WriteCursor(f)
  <2>1. ~ UNCHANGED files
    BY DEF files
  <2>2. ~ (RemotePush \/ RemoteMaintenance \/ RemoteSetHead \/ RemoteRestore \/ Prune)
    BY <2>1 DEF RemotePush, RemoteMaintenance, RemoteSetHead, RemoteRestore, Prune, Publish
  <2>3. ~ UNCHANGED vars
    BY <2>1 DEF vars
  <2>4. PICK f \in Fetchers : Begin(f) \/ Proceed(f) \/ Crash(f)
    BY <2>2, <2>3 DEF Next
  <2>5. ~ (Begin(f) \/ Crash(f) \/ Return(f))
    BY <2>1 DEF Begin, Crash, Return
  <2>6. ~ (\/ ReadCursor(f) \/ ReadHead(f) \/ ReadRefs(f) \/ CheckRefs(f) \/ ConditionalGet(f) \/ Get(f)
           \/ Lock(f) \/ LockTimeout(f) \/ NoOp(f) \/ Pin(f) \/ Choose(f))
    BY <2>1 DEF ReadCursor, ReadHead, ReadRefs, CheckRefs, ConditionalGet, Get, Lock, LockTimeout, NoOp,
                Pin, Choose
  <2>7. ~ (\/ RenamePack(f) \/ RenameIndex(f) \/ PacksInstalled(f)
           \/ InstallWAL(f) \/ WALInstalled(f) \/ DownloadFails(f))
    BY <2>1 DEF RenamePack, RenameIndex, PacksInstalled, InstallWAL, WALInstalled, DownloadFails
  <2>8. ~ (WriteSnapshot(f) \/ WriteHead(f) \/ WriteRemoteMapping(f))
    BY DEF WriteSnapshot, WriteHead, WriteRemoteMapping
  <2> QED
    BY <2>4, <2>5, <2>6, <2>7, <2>8 DEF Proceed
<1>2. proc[f].phase = "writing" /\ proc[f].file = 2 /\ curFile' = CursorOf(proc[f].state)
  BY <1>1 DEF WriteCursor
<1>3. Connected(proc[f].state) \/ AtPoint(proc[f].state)
  BY <1>2, HolderFacts DEF Fits
<1>4. curFile'.gen = Gen(proc[f].state) /\ curFile'.tx = Tip(proc[f].state)
  BY <1>2 DEF CursorOf
<1> QED
  BY <1>3, <1>4 DEF Connected, AtPoint

(* The cursor moves only to a point all of whose commits are in the local  *)
(* object database, by every path of fetchState.                           *)
THEOREM CursorIsVerified == Spec => CursorVerified
<1>1. FetchInv /\ [Next]_vars =>
        [\/ curFile' = None
         \/ curFile # None /\ curFile'.gen = curFile.gen /\ curFile'.tx = curFile.tx
         \/ Reach(curFile'.tx) \subseteq objs]_curFile
  BY CursorStep
<1> QED
  BY <1>1, InvariantHolds, PTL DEF Spec, CursorVerified

=============================================================================
