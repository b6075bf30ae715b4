------------------------- MODULE PublicationProofs -------------------------
(***************************************************************************)
(* Machine-checked proofs about Publication, for any number of processes,  *)
(* refs, commits, batches and faults.                                      *)
(***************************************************************************)
EXTENDS Publication, FiniteSetTheorems, WellFoundedInduction, TLAPS

-----------------------------------------------------------------------------
(* Facts about the records of the format. *)

(* The fields of a transaction, and that NoTx is none. *)
LEMMA TransactionFacts ==
    ASSUME NEW t \in Transaction
    PROVE  t.id \in Id /\ t.gen \in Nat /\ t.parent \in Id \cup {None} /\ t # NoTx
<1>1. t.id \in Id /\ t.gen \in Nat /\ t.parent \in Id \cup {None}
  BY DEF Transaction
<1>2. t # NoTx
  BY <1>1, NoneAssumption DEF NoTx
<1> QED
  BY <1>1, <1>2

(* The fields of a HEAD object. *)
LEMMA HeadFacts ==
    ASSUME NEW h \in HeadObject
    PROVE  /\ h.pub \in Id \cup {None} /\ h.rev \in Nat /\ h.gen \in Nat
           /\ h.tx \in Id \cup {None} /\ h.sym \in Refs \cup {None}
           /\ h.snap.id \in Id \cup {None} /\ h.snap.gen \in Nat
           /\ h.floor \in Nat /\ h.floorTx \in Id \cup {None}
           /\ h.tip \in PagePointer /\ h.tail \subseteq Transaction
  BY DEF HeadObject

(* The absent HEAD, and a pointer to no page, are values of the format. *)
LEMMA AbsentType == Absent \in HeadObject /\ NoPage \in PagePointer
  BY DEF Absent, HeadObject, NoPage, PagePointer

(* makeTransaction on the pinned state h. *)
LEMMA MakeTransactionType ==
    ASSUME NEW h \in HeadObject, NEW id \in Id, NEW R \in SUBSET Refs, NEW us \in [R -> Update]
    PROVE  MakeTransaction(h, id, us) \in Transaction
<1>1. h.gen + 1 \in Nat /\ h.tx \in Id \cup {None}
  BY HeadFacts
<1>2. us \in UNION {[S -> Update] : S \in SUBSET Refs}
  OBVIOUS
<1> QED
  BY <1>1, <1>2 DEF MakeTransaction, Transaction

(* What validatePush lets through is a set of updates of known refs. *)
LEMMA EffectiveType ==
    ASSUME NEW refs \in RefMaps, NEW b \in Batches
    PROVE  \E R \in SUBSET Refs : Effective(refs, b) \in [R -> Update]
<1>1. PICK D \in SUBSET Refs : b.cmds \in [D -> [new : Oids \cup {None}, force : BOOLEAN]]
  BY BatchAssumption
<1> DEFINE changed == {r \in DOMAIN b.cmds \ Rejected(refs, b) : refs[r] # b.cmds[r].new}
           us == [r \in changed |-> [old |-> refs[r], new |-> b.cmds[r].new]]
<1>2. changed \in SUBSET Refs
  BY <1>1
<1>3. us \in [changed -> Update]
  BY <1>1 DEF Update, RefMaps
<1>4. << >> \in [{} -> Update]
  OBVIOUS
<1>5. Effective(refs, b) = << >> \/ Effective(refs, b) = us
  BY DEF Effective
<1> QED
  BY <1>2, <1>3, <1>4, <1>5

(* The candidate HEADs: their type, and the fields a reader depends on. *)
LEMMA PushHeadFacts ==
    ASSUME NEW h \in HeadObject, NEW t \in Transaction
    PROVE  /\ PushHead(h, t) \in HeadObject
           /\ PushHead(h, t).pub = t.id /\ PushHead(h, t).rev = h.rev + 1
           /\ PushHead(h, t).gen = t.gen /\ PushHead(h, t).tx = t.id
           /\ PushHead(h, t).floor = h.floor /\ PushHead(h, t).snap = h.snap
           /\ Seals(h.tail \cup {t}) =>
                /\ PushHead(h, t).tip = [id |-> t.id, last |-> t.gen]
                /\ PushHead(h, t).tail = {}
           /\ ~ Seals(h.tail \cup {t}) =>
                /\ PushHead(h, t).tip = h.tip
                /\ PushHead(h, t).tail = h.tail \cup {t}
<1>1. t.id \in Id /\ t.gen \in Nat
  BY TransactionFacts
<1> DEFINE k == AppendEnvelope(h, t)
           ptr == [id |-> t.id, last |-> t.gen]
<1>2. /\ k \in HeadObject /\ k.rev = h.rev /\ k.floor = h.floor /\ k.snap = h.snap
      /\ Seals(h.tail \cup {t}) => k.tip = ptr /\ k.tail = {}
      /\ ~ Seals(h.tail \cup {t}) => k.tip = h.tip /\ k.tail = h.tail \cup {t}
  <2>1. h.tail \cup {t} \in SUBSET Transaction
    BY HeadFacts
  <2>2. ptr \in PagePointer
    BY <1>1 DEF PagePointer
  <2>3. CASE Seals(h.tail \cup {t})
    <3>1. k = [h EXCEPT !.tip = ptr, !.tail = {}]
      BY <2>3 DEF AppendEnvelope
    <3> QED
      BY <2>2, <2>3, <3>1 DEF HeadObject
  <2>4. CASE ~ Seals(h.tail \cup {t})
    <3>1. k = [h EXCEPT !.tail = h.tail \cup {t}]
      BY <2>4 DEF AppendEnvelope
    <3> QED
      BY <2>1, <2>4, <3>1 DEF HeadObject
  <2> QED
    BY <2>3, <2>4
<1> DEFINE sym == IF k.sym \in DOMAIN t.updates /\ t.updates[k.sym].new = None
                  THEN None ELSE k.sym
<1>3. sym \in Refs \cup {None} /\ k.rev + 1 \in Nat
  BY <1>2, HeadFacts
<1>4. PushHead(h, t) = [k EXCEPT !.gen = t.gen, !.tx = t.id, !.rev = k.rev + 1,
                                 !.pub = t.id, !.sym = sym]
  BY DEF PushHead
<1> HIDE DEF k, sym
<1> DEFINE j == [k EXCEPT !.gen = t.gen, !.tx = t.id, !.rev = k.rev + 1]
<1>5. /\ j \in HeadObject /\ j.gen = t.gen /\ j.tx = t.id /\ j.rev = k.rev + 1
      /\ j.floor = k.floor /\ j.snap = k.snap /\ j.tip = k.tip /\ j.tail = k.tail
  BY <1>1, <1>2, <1>3 DEF HeadObject
<1>6. PushHead(h, t) = [j EXCEPT !.pub = t.id, !.sym = sym]
  BY <1>4
<1> HIDE DEF j
<1> DEFINE p == [j EXCEPT !.pub = t.id, !.sym = sym]
<1>7. /\ p \in HeadObject /\ p.pub = t.id /\ p.rev = j.rev /\ p.gen = j.gen /\ p.tx = j.tx
      /\ p.floor = j.floor /\ p.snap = j.snap /\ p.tip = j.tip /\ p.tail = j.tail
  BY <1>1, <1>3, <1>5 DEF HeadObject
<1>8. PushHead(h, t) = p
  BY <1>6
<1> HIDE DEF p
<1> QED
  BY <1>2, <1>5, <1>7, <1>8

(* What initialize's candidate HEAD is, as far as the invariant looks at it. *)
LEMMA InitialHeadFacts ==
    ASSUME NEW t \in Transaction, NEW sym \in Refs
    PROVE  /\ InitialHead(t, sym) \in HeadObject
           /\ InitialHead(t, sym).pub = t.id /\ InitialHead(t, sym).rev = 1
           /\ InitialHead(t, sym).gen = 1 /\ InitialHead(t, sym).tx = t.id
           /\ InitialHead(t, sym).floor = 0 /\ InitialHead(t, sym).snap.gen = 0
           /\ InitialHead(t, sym).tip = NoPage /\ InitialHead(t, sym).tail = {t}
<1>1. t.id \in Id
  BY TransactionFacts
<1>2. NoPage \in PagePointer
  BY AbsentType
<1> QED
  BY <1>1, <1>2 DEF InitialHead, Absent, HeadObject

(* Maintenance's candidate: same tip, a floor and a snapshot not behind the *)
(* pinned ones, and no record or page that the pinned HEAD does not have.  *)
LEMMA MaintenanceHeadFacts ==
    ASSUME NEW h \in HeadObject, NEW id \in Id, NEW g \in Targets(h), Collects(h),
           LogOf(h) \subseteq Transaction
    PROVE  /\ MaintenanceHead(h, id, g) \in HeadObject
           /\ MaintenanceHead(h, id, g).pub = id
           /\ MaintenanceHead(h, id, g).rev = h.rev + 1
           /\ MaintenanceHead(h, id, g).gen = h.gen /\ MaintenanceHead(h, id, g).tx = h.tx
           /\ MaintenanceHead(h, id, g).floor >= h.floor
           /\ MaintenanceHead(h, id, g).snap.gen = h.gen
           /\ MaintenanceHead(h, id, g).tip \in {h.tip, NoPage}
           /\ MaintenanceHead(h, id, g).tail \subseteq h.tail
<1> DEFINE t == CHOOSE u \in LogOf(h) : u.gen = g
           tip == IF h.tip.last <= g THEN NoPage ELSE h.tip
           tail == {u \in h.tail : u.gen > g}
           snap == [id |-> id, gen |-> h.gen]
<1>1. g \in (h.floor + 1)..h.gen
  BY DEF Targets
<1>2. \E u \in LogOf(h) : u.gen = g
  BY <1>1 DEF Collects
<1>3. t.id \in Id \cup {None}
  BY <1>2, TransactionFacts
<1>4. g \in Nat /\ g >= h.floor /\ h.rev + 1 \in Nat
  BY <1>1, HeadFacts
<1>5. tip \in PagePointer /\ tail \in SUBSET Transaction /\ snap \in [id : Id \cup {None}, gen : Nat]
  BY HeadFacts, AbsentType
<1>6. MaintenanceHead(h, id, g) =
        [h EXCEPT !.rev = h.rev + 1, !.pub = id, !.packset = id, !.snap = snap,
                  !.floor = g, !.floorTx = t.id, !.tail = tail, !.tip = tip]
  BY DEF MaintenanceHead
<1>7. tip \in {h.tip, NoPage} /\ tail \subseteq h.tail /\ snap.gen = h.gen
  OBVIOUS
<1> HIDE DEF t, tip, tail, snap
<1> DEFINE j == [h EXCEPT !.rev = h.rev + 1, !.pub = id, !.packset = id, !.snap = snap]
<1>8. /\ j \in HeadObject /\ j.pub = id /\ j.rev = h.rev + 1 /\ j.gen = h.gen /\ j.tx = h.tx
      /\ j.snap = snap
  BY <1>4, <1>5 DEF HeadObject
<1>9. MaintenanceHead(h, id, g) =
        [j EXCEPT !.floor = g, !.floorTx = t.id, !.tail = tail, !.tip = tip]
  BY <1>6
<1> HIDE DEF j
<1> QED
  BY <1>3, <1>4, <1>5, <1>7, <1>8, <1>9, ZenonT(60) DEF HeadObject

-----------------------------------------------------------------------------
(* Type correctness. *)

(* A process at rest is a value of ClientState. *)
LEMMA QuietType ==
    ASSUME NEW n \in Nat
    PROVE  Quiet(n) \in ClientState
  BY AbsentType DEF Quiet, ClientState, Phases, Kinds

(* The fields of a process's record. *)
LEMMA ClientFacts ==
    ASSUME TypeOK, NEW c \in Clients
    PROVE  /\ client[c] \in ClientState
           /\ client[c].n \in Nat /\ client[c].n + 1 \in Nat
           /\ client[c].pin \in HeadObject /\ client[c].cand \in HeadObject
           /\ client[c].tx \in Transaction \cup {NoTx}
           /\ client[c].attempt + 1 \in Nat
           /\ <<c, client[c].n>> \in Id /\ <<c, client[c].n + 1>> \in Id
  BY DEF TypeOK, ClientState, Id

(* Giving up keeps the types. *)
LEMMA GiveUpType ==
    ASSUME TypeOK, NEW c \in Clients, GiveUp(c)
    PROVE  client' \in [Clients -> ClientState]
<1>1. Quiet(client[c].n) \in ClientState
  BY ClientFacts, QuietType
<1> QED
  BY <1>1 DEF GiveUp, TypeOK

(* What Push can tell Git about a transaction. *)
Codes == {"ok", "conflict", "error", "ambiguous"}

(* Finishing with one of the codes keeps the types, and reports only on a  *)
(* transaction.                                                            *)
LEMMA FinishType ==
    ASSUME TypeOK, NEW c \in Clients, NEW code \in Codes, Finish(c, code)
    PROVE  client' \in [Clients -> ClientState] /\ reported' \subseteq Report
<1>1. Quiet(client[c].n) \in ClientState /\ client[c].tx \in Transaction \cup {NoTx}
  BY ClientFacts, QuietType
<1>2. client' \in [Clients -> ClientState]
  BY <1>1 DEF Finish, TypeOK
<1>3. reported' \subseteq Report
  BY <1>1 DEF Finish, TypeOK, Report, Codes
<1> QED
  BY <1>2, <1>3

(* Send: the record of the process that sends. *)
LEMMA SendFacts ==
    ASSUME TypeOK, NEW c \in Clients, NEW kind \in Kinds, NEW pin \in HeadObject,
           NEW tx \in Transaction \cup {NoTx}, NEW cand \in HeadObject,
           Send(c, kind, pin, tx, cand)
    PROVE  \E x \in ClientState :
             /\ client' = [client EXCEPT ![c] = x]
             /\ x.phase = "waiting" /\ x.n = client[c].n
             /\ x.kind = kind /\ x.pin = pin /\ x.tx = tx /\ x.cand = cand
<1> DEFINE y == [client[c] EXCEPT !.phase = "waiting", !.kind = kind, !.pin = pin]
           x == [y EXCEPT !.tx = tx, !.cand = cand, !.attempt = 1]
<1>1. client[c] \in ClientState
  BY ClientFacts
<1>2. /\ y \in ClientState /\ y.phase = "waiting" /\ y.kind = kind
      /\ y.n = client[c].n /\ y.pin = pin
  BY <1>1 DEF ClientState, Phases
<1>3. client' = [client EXCEPT ![c] = x]
  BY DEF Send
<1> HIDE DEF y
<1>4. /\ x \in ClientState /\ x.phase = y.phase /\ x.kind = y.kind
      /\ x.n = y.n /\ x.pin = y.pin
      /\ x.tx = tx /\ x.cand = cand
  BY <1>2 DEF ClientState
<1> HIDE DEF x
<1> QED
  BY <1>2, <1>3, <1>4

(* Administer: the record of the administrator that sends. *)
LEMMA AdministerFacts ==
    ASSUME TypeOK, NEW c \in Clients, NEW kind \in Kinds, NEW cand \in HeadObject,
           Administer(c, kind, cand)
    PROVE  \E x \in ClientState :
             /\ client' = [client EXCEPT ![c] = x]
             /\ x.phase = "waiting" /\ x.n = client[c].n + 1
             /\ x.pin = head /\ x.tx = client[c].tx /\ x.cand = cand
<1> DEFINE y == [client[c] EXCEPT !.phase = "waiting", !.kind = kind, !.n = client[c].n + 1]
           x == [y EXCEPT !.pin = head, !.cand = cand, !.attempt = 1]
<1>1. client[c] \in ClientState /\ client[c].n + 1 \in Nat /\ head \in HeadObject
  BY ClientFacts DEF TypeOK
<1>2. /\ y \in ClientState /\ y.phase = "waiting" /\ y.n = client[c].n + 1
      /\ y.tx = client[c].tx
  BY <1>1 DEF ClientState, Phases
<1>3. client' = [client EXCEPT ![c] = x]
  BY DEF Administer
<1> HIDE DEF y
<1>4. /\ x \in ClientState /\ x.phase = y.phase /\ x.n = y.n /\ x.tx = y.tx
      /\ x.pin = head /\ x.cand = cand
  BY <1>1, <1>2 DEF ClientState
<1> HIDE DEF x
<1> QED
  BY <1>2, <1>3, <1>4

(* The HEAD PUT of a process is a value of PutRequest. *)
LEMMA RequestType ==
    ASSUME TypeOK, NEW c \in Clients
    PROVE  Request(c) \in PutRequest
  BY ClientFacts, HeadFacts DEF Request, PutRequest, ETag

(* Installing a typed request keeps HEAD, the chain and the ids typed. *)
LEMMA InstallType ==
    ASSUME TypeOK, NEW r \in PutRequest, r.head.pub \in Id, Install(r)
    PROVE  /\ head' \in HeadObject
           /\ chain' \in Seq(Transaction)
           /\ installed' \subseteq Id
  BY DEF TypeOK, Install, PutRequest

(* What a walk from HEAD collects are transactions. *)
LEMMA LogType ==
    ASSUME TypeOK, NEW h \in HeadObject
    PROVE  LogOf(h) \subseteq Transaction
<1>1. \A q \in DOMAIN pages : pages[q].txs \subseteq Transaction
  BY DEF TypeOK, Page
<1>2. LivePages(h) \subseteq DOMAIN pages
  BY DEF LivePages
<1>3. h.tail \subseteq Transaction
  BY HeadFacts
<1> SUFFICES ASSUME NEW t \in LogOf(h)
             PROVE  t \in Transaction
  OBVIOUS
<1>4. (\E q \in LivePages(h) : t \in pages[q].txs) \/ t \in h.tail
  BY DEF LogOf
<1> QED
  BY <1>1, <1>2, <1>3, <1>4

-----------------------------------------------------------------------------
(* How the parts of the invariant survive the kinds of steps there are:    *)
(* steps that leave HEAD and the objects alone, steps that send a PUT, and *)
(* steps in which the store installs one.                                  *)

(* The PUT of c is awaited, or may have been applied without an answer. *)
Active(c) == client[c].phase \in {"waiting", "rereading"}

(* A request is a late PUT or that of an active process. *)
LEMMA RequestsAre ==
    ASSUME NEW r
    PROVE  r \in Requests <=> r \in late \/ \E c \in Clients : Active(c) /\ r = Request(c)
  BY DEF Requests, Active

(* Every request is a value of PutRequest. *)
LEMMA RequestsType ==
    ASSUME TypeOK
    PROVE  Requests \subseteq PutRequest
<1> SUFFICES ASSUME NEW r \in Requests
             PROVE  r \in PutRequest
  OBVIOUS
<1>1. r \in late \/ \E c \in Clients : r = Request(c)
  BY RequestsAre
<1> QED
  BY <1>1, RequestType DEF TypeOK

(* HEAD, the log and the objects stay, no request is added. *)
LEMMA KeepStep ==
    ASSUME PublicationInv, UNCHANGED <<head, chain, installed, pages>>,
           Requests' \subseteq Requests
    PROVE  HeadInv' /\ PageInv' /\ ChainInv' /\ RequestInv' /\ Used' \subseteq Used
<1>1. HeadInv' /\ PageInv' /\ ChainInv'
  BY DEF PublicationInv, HeadInv, PageInv, ChainInv, ChainGapFree, OnChain, Published
<1>2. RequestInv'
  BY DEF PublicationInv, RequestInv, Succeeds, ETag, OnChain
<1>3. Used' \subseteq Used
  BY DEF Used
<1> QED
  BY <1>1, <1>2, <1>3

(* Objects and requests are added under an id nobody has used. *)
LEMMA SendStep ==
    ASSUME PublicationInv, UNCHANGED <<head, chain, installed>>,
           NEW id \in Id, id \notin Used,
           DOMAIN pages' \subseteq DOMAIN pages \cup {id},
           \A q \in DOMAIN pages : q \in DOMAIN pages' /\ pages'[q] = pages[q],
           NEW t, \A r \in Requests' \ Requests :
             /\ r.head.pub = id /\ r.tx = t
             /\ r.match \in installed \cup {None}
             /\ r.match = ETag(head) => Succeeds(r, head)'
             /\ r.tx # NoTx => r.tx.id = id
    PROVE  HeadInv' /\ PageInv' /\ ChainInv' /\ RequestInv' /\ Used' \subseteq Used \cup {id}
<1>1. id \notin installed /\ \A x \in Requests : x.head.pub # id
  BY DEF Used
<1>2. \A p : Published(p) <=> Published(p)'
  BY <1>1 DEF Published
<1>3. HeadInv'
  BY <1>2 DEF PublicationInv, HeadInv, OnChain
<1>4. PageInv'
  BY <1>1, <1>2 DEF PublicationInv, PageInv, OnChain
<1>5. ChainInv'
  BY DEF PublicationInv, ChainInv, ChainGapFree
<1>6. ASSUME NEW x \in Requests
      PROVE  /\ x.head.pub \in Id
             /\ x.match \in installed \cup {None}
             /\ x.match = ETag(head)' => Succeeds(x, head)' /\ x.head.pub \notin installed'
             /\ x.tx # NoTx => x.tx.id = x.head.pub
             /\ x.tx # NoTx /\ x.head.pub \in installed' => OnChain(x.tx)'
  <2>1. x.match = ETag(head) => Succeeds(x, head)
    BY DEF PublicationInv, RequestInv
  <2>2. x.head.pub # id
    BY <1>1
  <2>3. x.match = ETag(head)' => Succeeds(x, head)'
    BY <2>1, <2>2 DEF Succeeds, ETag
  <2> QED
    BY <2>3 DEF PublicationInv, RequestInv, ETag, OnChain
<1>7. RequestInv'
  <2>1. \A x, y \in Requests : x.head.pub = y.head.pub => x.tx = y.tx
    BY DEF PublicationInv, RequestInv
  <2>2. \A x, y \in Requests' : x.head.pub = y.head.pub => x.tx = y.tx
    BY <1>1, <2>1
  <2>3. ASSUME NEW x \in Requests'
        PROVE  /\ x.head.pub \in Id
               /\ x.match \in (installed \cup {None})'
               /\ x.match = ETag(head)' => Succeeds(x, head)' /\ x.head.pub \notin installed'
               /\ x.tx # NoTx => x.tx.id = x.head.pub
               /\ x.tx # NoTx /\ x.head.pub \in installed' => OnChain(x.tx)'
    <3>1. CASE x \in Requests
      BY <1>6, <3>1
    <3>2. CASE x \notin Requests
      BY <1>1, <3>2 DEF ETag
    <3> QED
      BY <3>1, <3>2
  <2> QED
    BY <2>2, <2>3 DEF RequestInv
<1>8. Used' \subseteq Used \cup {id}
  <2> SUFFICES ASSUME NEW u \in Used'
               PROVE  u \in Used \cup {id}
    OBVIOUS
  <2>1. u \in installed \/ u \in DOMAIN pages' \/ \E x \in Requests' : u = x.head.pub
    BY DEF Used
  <2> QED
    BY <2>1 DEF Used
<1> QED
  BY <1>3, <1>4, <1>5, <1>7, <1>8

(* The store installs the request r. *)
LEMMA InstallStep ==
    ASSUME PublicationInv, NEW r \in Requests, Matches(r), Install(r), pages' = pages,
           Requests' \subseteq Requests
    PROVE  /\ HeadInv' /\ PageInv' /\ ChainInv' /\ RequestInv' /\ Used' \subseteq Used
           /\ r.tx # NoTx => OnChain(r.tx)'
           /\ \A t : OnChain(t) => OnChain(t)'
           /\ head'.pub \notin installed
           /\ Succeeds(r, head)
<1> USE DEF PublicationInv
<1>1. /\ Succeeds(r, head) /\ r.head.pub \notin installed /\ r.head.pub \in Id
      /\ r.match = ETag(head) /\ r.tx # NoTx => r.tx.id = r.head.pub
  BY DEF RequestInv, Matches
<1>2. r \in PutRequest
  BY RequestsType
<1>3. r.tx \in Transaction \cup {NoTx} /\ r.head \in HeadObject /\ head \in HeadObject
  BY <1>2 DEF PutRequest, TypeOK
<1>4. /\ chain \in Seq(Transaction) /\ head.gen = Len(chain)
      /\ chain' = IF r.tx = NoTx THEN chain ELSE Append(chain, r.tx)
      /\ head' = r.head /\ installed' = installed \cup {r.head.pub}
  BY DEF TypeOK, ChainInv, ChainGapFree, Install
<1>5. \A t : OnChain(t) => OnChain(t)'
  BY <1>3, <1>4 DEF OnChain
<1>6. r.tx # NoTx => OnChain(r.tx)'
  <2> SUFFICES ASSUME r.tx # NoTx
               PROVE  OnChain(r.tx)'
    OBVIOUS
  <2>1. r.tx.gen = Len(chain) + 1
    BY <1>1, <1>4 DEF Succeeds
  <2> QED
    BY <1>3, <1>4, <2>1 DEF OnChain
<1>7. ChainInv'
  <2>1. CASE r.tx = NoTx
    <3>1. r.head.gen = head.gen /\ r.head.tx = head.tx /\ chain' = chain
      BY <1>1, <1>3, <1>4, <2>1, TransactionFacts DEF Succeeds
    <3> QED
      BY <1>4, <3>1 DEF ChainInv, ChainGapFree
  <2>2. CASE r.tx # NoTx
    <3> DEFINE n == Len(chain)
    <3>1. /\ chain' = Append(chain, r.tx) /\ r.tx \in Transaction /\ n \in Nat
          /\ r.tx.gen = n + 1 /\ r.tx.parent = head.tx /\ r.tx.id = r.head.pub
          /\ r.head.gen = n + 1 /\ r.head.tx = r.tx.id
      BY <1>1, <1>3, <1>4, <2>2 DEF Succeeds
    <3>2. /\ Len(chain') = n + 1 /\ chain'[n + 1] = r.tx /\ chain' # << >>
          /\ \A i \in 1..n : chain'[i] = chain[i]
      BY <1>4, <3>1
    <3>3. /\ \A i \in 1..n : /\ chain[i].gen = i /\ chain[i].id \in installed
                             /\ chain[i].parent = IF i = 1 THEN None ELSE chain[i - 1].id
                             /\ \A j \in 1..n : chain[i].id = chain[j].id => i = j
          /\ head.tx = IF chain = << >> THEN None ELSE chain[n].id
          /\ chain = << >> <=> n = 0
      BY <1>4 DEF ChainInv, ChainGapFree
    <3> HIDE DEF n
    <3>4. \A i \in 1..(n + 1) : chain'[i].gen = i /\ chain'[i].id \in installed'
      BY <1>4, <3>1, <3>2, <3>3
    <3>5. \A i \in 1..(n + 1) : chain'[i].parent = IF i = 1 THEN None ELSE chain'[i - 1].id
      BY <3>1, <3>2, <3>3
    <3>6. \A i, j \in 1..(n + 1) : chain'[i].id = chain'[j].id => i = j
      BY <1>1, <3>1, <3>2, <3>3
    <3> QED
      BY <1>4, <3>1, <3>2, <3>4, <3>5, <3>6 DEF ChainInv, ChainGapFree
  <2> QED
    BY <2>1, <2>2
<1>8. \A p : Published(p) => Published(p)'
  BY <1>4 DEF Published
<1>9. Published(r.head.tip)' /\ \A t \in r.head.tail : OnChain(t)'
  BY <1>1, <1>4, <1>5, <1>6, <1>8 DEF Succeeds, HeadInv, Published
<1>10. HeadInv'
  <2>1. r.head.pub # None /\ r.head.snap.gen <= r.head.gen
    BY <1>1, NoneAssumption DEF Succeeds
  <2> QED
    BY <1>4, <1>9, <2>1 DEF HeadInv
<1>11. PageInv'
  <2> SUFFICES ASSUME NEW q \in DOMAIN pages, q \in installed \/ q = r.head.pub
               PROVE  Published(pages[q].prev)' /\ \A t \in pages[q].txs : OnChain(t)'
    BY <1>4 DEF PageInv
  <2>1. CASE q \in installed
    BY <1>5, <1>8, <2>1 DEF PageInv
  <2>2. CASE q = r.head.pub
    <3>1. /\ r.tx # NoTx /\ r.tx.id = q
          /\ pages[q].prev = head.tip /\ pages[q].txs \subseteq head.tail \cup {r.tx}
      BY <1>1, <2>2 DEF Succeeds
    <3> QED
      BY <1>5, <1>6, <1>8, <3>1 DEF HeadInv
  <2> QED
    BY <2>1, <2>2
<1>12. RequestInv'
  <2>1. \A x, y \in Requests' : x.head.pub = y.head.pub => x.tx = y.tx
    BY DEF RequestInv
  <2>2. ASSUME NEW x \in Requests'
        PROVE  /\ x.head.pub \in Id
               /\ x.match \in (installed \cup {None})'
               /\ x.match # ETag(head)'
               /\ x.tx # NoTx => x.tx.id = x.head.pub
               /\ x.tx # NoTx /\ x.head.pub \in installed' => OnChain(x.tx)'
    <3>1. /\ x \in Requests /\ x.head.pub \in Id /\ x.match \in installed \cup {None}
          /\ x.tx # NoTx => x.tx.id = x.head.pub
          /\ x.tx # NoTx /\ x.head.pub \in installed => OnChain(x.tx)
          /\ x.head.pub = r.head.pub => x.tx = r.tx
      BY DEF RequestInv
    <3>2. x.match # ETag(head)'
      BY <1>1, <1>4, <3>1, NoneAssumption DEF ETag
    <3>3. x.tx # NoTx /\ x.head.pub \in installed' => OnChain(x.tx)'
      BY <1>4, <1>5, <1>6, <3>1
    <3> QED
      BY <1>4, <3>1, <3>2, <3>3
  <2> QED
    BY <2>1, <2>2 DEF RequestInv
<1>13. Used' \subseteq Used
  BY <1>4 DEF Used
<1>14. head'.pub \notin installed
  BY <1>1, <1>4
<1> QED
  BY <1>1, <1>5, <1>6, <1>7, <1>10, <1>11, <1>12, <1>13, <1>14

(* Used names are names of operations. *)
LEMMA UsedType ==
    ASSUME PublicationInv
    PROVE  Used \subseteq Id
  BY DEF PublicationInv, TypeOK, RequestInv, Used

(* A step of process c after which its record is x. *)
LEMMA ClientStep ==
    ASSUME PublicationInv, NEW c \in Clients, NEW x \in ClientState,
           client' = [client EXCEPT ![c] = x],
           installed \subseteq installed',
           head' = head \/ head'.pub \notin installed \cup {None},
           Used' \subseteq Used \cup {<<c, x.n>>},
           x.n >= client[c].n,
           x.phase = "advertised" =>
             /\ x.pin.pub \in installed \cup {None} /\ (x.pin.pub = head'.pub => x.pin = head')
             /\ <<c, x.n>> \notin Used' /\ x.tx = NoTx,
           x.phase = "idle" => x.tx = NoTx,
           x.tx # NoTx => x.kind \in {"push", "initialize"}
    PROVE  ClientInv'
<1> USE DEF PublicationInv
<1> SUFFICES ASSUME NEW d \in Clients
             PROVE  (/\ client[d].phase = "advertised" =>
                          /\ client[d].pin.pub \in installed \cup {None}
                          /\ client[d].pin.pub = head.pub => client[d].pin = head
                          /\ <<d, client[d].n>> \notin Used
                          /\ client[d].tx = NoTx
                     /\ client[d].phase = "idle" => client[d].tx = NoTx
                     /\ client[d].tx # NoTx => client[d].kind \in {"push", "initialize"}
                     /\ \A u \in Used : u[1] = d => u[2] <= client[d].n)'
  BY DEF ClientInv
<1>1. client \in [Clients -> ClientState] /\ Used \subseteq Id
  BY UsedType DEF TypeOK
<1>2. CASE d = c
  <2>1. client'[d] = x /\ x.n \in Nat /\ client[c].n \in Nat
    BY <1>1, <1>2 DEF ClientState
  <2>2. \A u \in Used : u[1] = c => u[2] <= client[c].n
    BY DEF ClientInv
  <2>3. \A u \in Used' : u[1] = c => u[2] <= x.n
    <3> SUFFICES ASSUME NEW u \in Used', u[1] = c
                 PROVE  u[2] <= x.n
      OBVIOUS
    <3>1. CASE u \in Used
      BY <1>1, <2>1, <2>2, <3>1 DEF Id
    <3>2. CASE u = <<c, x.n>>
      BY <2>1, <3>2
    <3> QED
      BY <3>1, <3>2
  <2> QED
    BY <1>2, <2>1, <2>3
<1>3. CASE d # c
  <2>1. client'[d] = client[d]
    BY <1>1, <1>3
  <2>2. /\ client[d].phase = "advertised" =>
             /\ client[d].pin.pub \in installed \cup {None}
             /\ client[d].pin.pub = head.pub => client[d].pin = head
             /\ <<d, client[d].n>> \notin Used
             /\ client[d].tx = NoTx
        /\ client[d].phase = "idle" => client[d].tx = NoTx
        /\ client[d].tx # NoTx => client[d].kind \in {"push", "initialize"}
        /\ \A u \in Used : u[1] = d => u[2] <= client[d].n
    BY DEF ClientInv
  <2>3. <<d, client[d].n>> # <<c, x.n>> /\ <<c, x.n>>[1] # d
    BY <1>3
  <2> QED
    BY <2>1, <2>2, <2>3
<1> QED
  BY <1>2, <1>3

(* A step that changes no process's record. *)
LEMMA OtherStep ==
    ASSUME PublicationInv, client' = client, installed \subseteq installed',
           head' = head \/ head'.pub \notin installed \cup {None}, Used' \subseteq Used
    PROVE  ClientInv'
  BY DEF PublicationInv, ClientInv

(* Process c sends nothing new: the requests are among those there were. *)
LEMMA RequestsKept ==
    ASSUME TypeOK, NEW c \in Clients, NEW x, client' = [client EXCEPT ![c] = x],
           late' \subseteq late \/ (Active(c) /\ late' \subseteq late \cup {Request(c)}),
           x.phase \in {"waiting", "rereading"} =>
             Active(c) /\ x.pin = client[c].pin /\ x.cand = client[c].cand /\ x.tx = client[c].tx
    PROVE  Requests' \subseteq Requests
<1> SUFFICES ASSUME NEW r \in Requests'
             PROVE  r \in Requests
  OBVIOUS
<1>1. r \in late' \/ \E d \in Clients : Active(d)' /\ r = Request(d)'
  BY DEF Requests, Active
<1>2. CASE r \in late'
  BY <1>2, RequestsAre
<1>3. CASE \E d \in Clients : Active(d)' /\ r = Request(d)'
  <2>1. PICK d \in Clients : Active(d)' /\ r = Request(d)'
    BY <1>3
  <2>2. Active(d) /\ Request(d)' = Request(d)
    BY <2>1 DEF Active, Request, ETag, TypeOK
  <2> QED
    BY <2>1, <2>2, RequestsAre
<1> QED
  BY <1>1, <1>2, <1>3

(* Process c sends its first PUT. *)
LEMMA RequestsSent ==
    ASSUME TypeOK, NEW c \in Clients, NEW x, client' = [client EXCEPT ![c] = x], late' = late
    PROVE  \A r \in Requests' \ Requests :
             r.match = ETag(x.pin) /\ r.head = x.cand /\ r.tx = x.tx
<1> SUFFICES ASSUME NEW r \in Requests', r \notin Requests
             PROVE  r.match = ETag(x.pin) /\ r.head = x.cand /\ r.tx = x.tx
  OBVIOUS
<1>1. PICK d \in Clients : Active(d)' /\ r = Request(d)'
  BY RequestsAre DEF Requests, Active
<1>2. d = c
  <2> SUFFICES ASSUME d # c
               PROVE  FALSE
    OBVIOUS
  <2>1. Active(d) /\ r = Request(d)
    BY <1>1 DEF Active, Request, ETag, TypeOK
  <2> QED
    BY <2>1, RequestsAre
<1> QED
  BY <1>1, <1>2 DEF Request, ETag, TypeOK

(* Readers of HEAD only see what was installed. *)
LEMMA LogIsOnChain ==
    ASSUME PublicationInv
    PROVE  LogOnChain
<1> USE DEF PublicationInv
<1> DEFINE P == DOMAIN pages \cap installed
<1>1. NoPage.last = 0 /\ head.floor \in Nat
  BY HeadFacts DEF NoPage, TypeOK
<1>2. Follows(P, head)
  BY <1>1 DEF Follows, HeadInv, PageInv, Published
<1>3. LivePages(head) \subseteq P
  BY <1>2 DEF LivePages
<1> SUFFICES ASSUME NEW t \in LogOf(head)
             PROVE  OnChain(t)
  BY DEF LogOnChain
<1>4. t \in head.tail \/ \E q \in LivePages(head) : t \in pages[q].txs
  BY DEF LogOf
<1> QED
  BY <1>3, <1>4 DEF HeadInv, PageInv

-----------------------------------------------------------------------------
(* Every action preserves the invariant. *)

(* The fields of a process at rest. *)
LEMMA QuietFacts ==
    ASSUME NEW n
    PROVE  Quiet(n).phase = "idle" /\ Quiet(n).n = n /\ Quiet(n).tx = NoTx
  BY DEF Quiet

(* An operation ends without a report, and without a new object. *)
LEMMA GiveUpInv ==
    ASSUME PublicationInv, NEW c \in Clients, GiveUp(c),
           late' \subseteq late \/ (Active(c) /\ late' \subseteq late \cup {Request(c)}),
           UNCHANGED <<head, chain, installed, pages, snaps, reported>>, faults' \in Nat
    PROVE  PublicationInv'
<1> DEFINE x == Quiet(client[c].n)
<1>1. /\ x \in ClientState /\ x.phase = "idle" /\ x.n = client[c].n /\ x.tx = NoTx
      /\ client' = [client EXCEPT ![c] = x] /\ client[c].n \in Nat
  BY QuietType, QuietFacts, ClientFacts DEF PublicationInv, GiveUp
<1> HIDE DEF x
<1>2. Requests' \subseteq Requests
  BY <1>1, RequestsKept DEF PublicationInv
<1>3. HeadInv' /\ PageInv' /\ ChainInv' /\ RequestInv' /\ Used' \subseteq Used
  BY <1>2, KeepStep
<1>4. ClientInv'
  <2>1. x.n >= client[c].n /\ x.phase # "advertised" /\ installed \subseteq installed'
    BY <1>1
  <2> QED
    BY <1>1, <1>3, <2>1, ClientStep
<1>5. AcknowledgedOnChain'
  BY DEF PublicationInv, AcknowledgedOnChain, OnChain
<1>6. TypeOK'
  <2>1. late' \subseteq PutRequest
    BY RequestType DEF PublicationInv, TypeOK
  <2>2. client' \in [Clients -> ClientState]
    BY GiveUpType DEF PublicationInv
  <2> QED
    BY <2>1, <2>2 DEF PublicationInv, TypeOK
<1> QED
  BY <1>3, <1>4, <1>5, <1>6 DEF PublicationInv

(* An operation ends with a report; HEAD stays. *)
LEMMA FinishInv ==
    ASSUME PublicationInv, NEW c \in Clients, NEW code \in Codes, Finish(c, code),
           code = "ok" /\ client[c].tx # NoTx => OnChain(client[c].tx),
           UNCHANGED <<head, chain, installed, pages, snaps, late, faults>>
    PROVE  PublicationInv'
<1> DEFINE x == Quiet(client[c].n)
<1>1. /\ x \in ClientState /\ x.phase = "idle" /\ x.n = client[c].n /\ x.tx = NoTx
      /\ client' = [client EXCEPT ![c] = x] /\ client[c].n \in Nat
  BY QuietType, QuietFacts, ClientFacts DEF PublicationInv, Finish
<1> HIDE DEF x
<1>2. Requests' \subseteq Requests
  BY <1>1, RequestsKept DEF PublicationInv
<1>3. HeadInv' /\ PageInv' /\ ChainInv' /\ RequestInv' /\ Used' \subseteq Used
  BY <1>2, KeepStep
<1>4. ClientInv'
  <2>1. x.n >= client[c].n /\ x.phase # "advertised" /\ installed \subseteq installed'
    BY <1>1
  <2> QED
    BY <1>1, <1>3, <2>1, ClientStep
<1>5. AcknowledgedOnChain'
  BY DEF PublicationInv, AcknowledgedOnChain, OnChain, Finish
<1>6. TypeOK'
  BY FinishType DEF PublicationInv, TypeOK
<1> QED
  BY <1>3, <1>4, <1>5, <1>6 DEF PublicationInv

(* `list for-push` keeps the invariant: the pinned HEAD is the current one *)
(* and the name of the new operation is not used.                          *)
LEMMA AdvertiseInv ==
    ASSUME PublicationInv, NEW c \in Clients, Advertise(c)
    PROVE  PublicationInv'
<1> DEFINE n == client[c].n + 1
           x == [Quiet(n) EXCEPT !.phase = "advertised", !.pin = head]
<1>1. n \in Nat /\ client[c].n \in Nat /\ head \in HeadObject /\ ETag(head) \in Id \cup {None}
  BY ClientFacts, HeadFacts DEF PublicationInv, TypeOK, ETag
<1>2. Quiet(n) \in ClientState /\ Quiet(n).n = n /\ Quiet(n).tx = NoTx
  BY <1>1, QuietType, QuietFacts
<1>3. client' = [client EXCEPT ![c] = x]
  BY DEF Advertise
<1> HIDE DEF n
<1>4. /\ x \in ClientState /\ x.phase = "advertised" /\ x.n = n /\ x.tx = NoTx /\ x.pin = head
  BY <1>1, <1>2 DEF ClientState, Phases
<1> HIDE DEF x
<1>5. Requests' \subseteq Requests
  BY <1>3, <1>4, RequestsKept DEF PublicationInv, Advertise
<1>6. HeadInv' /\ PageInv' /\ ChainInv' /\ RequestInv' /\ Used' \subseteq Used
  BY <1>5, KeepStep DEF Advertise
<1>7. <<c, n>> \notin Used
  <2>1. \A u \in Used : u[1] = c => u[2] <= client[c].n
    BY DEF PublicationInv, ClientInv
  <2>2. <<c, n>>[1] = c /\ <<c, n>>[2] = n /\ ~(n <= client[c].n)
    BY <1>1 DEF n
  <2> QED
    BY <2>1, <2>2
<1>8. head.pub \in installed \cup {None} /\ UNCHANGED <<head, installed>>
  BY DEF PublicationInv, HeadInv, Advertise
<1>9. ClientInv'
  <2>1. x.n >= client[c].n
    BY <1>1, <1>4 DEF n
  <2> QED
    BY <1>3, <1>4, <1>6, <1>7, <1>8, <2>1, ClientStep
<1>10. AcknowledgedOnChain'
  BY DEF PublicationInv, AcknowledgedOnChain, OnChain, Advertise
<1>11. TypeOK'
  BY <1>3, <1>4 DEF PublicationInv, TypeOK, Advertise
<1> QED
  BY <1>6, <1>9, <1>10, <1>11 DEF PublicationInv

(* The store installs r, and nobody is told. *)
LEMMA ServeLateInv ==
    ASSUME PublicationInv, NEW r \in late, ServeLate(r)
    PROVE  PublicationInv'
<1>1. r \in Requests /\ Requests' \subseteq Requests
  BY DEF Requests, ServeLate, Request, ETag
<1>2. r \in PutRequest /\ r.head.pub \in Id
  BY <1>1 DEF PublicationInv, TypeOK, RequestInv
<1>3. CASE ~ Matches(r)
  <2>1. HeadInv' /\ PageInv' /\ ChainInv' /\ RequestInv' /\ Used' \subseteq Used
    BY <1>1, <1>3, KeepStep DEF ServeLate
  <2>2. ClientInv'
    BY <1>3, <2>1, OtherStep DEF ServeLate
  <2> QED
    BY <1>3, <2>1, <2>2 DEF PublicationInv, TypeOK, ServeLate, AcknowledgedOnChain, OnChain
<1>4. CASE Matches(r)
  <2>1. Install(r) /\ UNCHANGED <<pages, snaps, client, faults, reported>> /\ late' = late \ {r}
    BY <1>4 DEF ServeLate
  <2>2. /\ HeadInv' /\ PageInv' /\ ChainInv' /\ RequestInv' /\ Used' \subseteq Used
        /\ \A t : OnChain(t) => OnChain(t)'
        /\ head'.pub \notin installed
    BY <1>1, <1>4, <2>1, InstallStep
  <2>3. head'.pub \in Id /\ installed \subseteq installed'
    BY <1>2, <2>1 DEF Install
  <2>4. ClientInv'
    BY <2>1, <2>2, <2>3, OtherStep, NoneAssumption
  <2>5. AcknowledgedOnChain'
    BY <2>1, <2>2 DEF PublicationInv, AcknowledgedOnChain
  <2>6. TypeOK'
    BY <1>2, <2>1, InstallType DEF PublicationInv, TypeOK
  <2> QED
    BY <2>2, <2>4, <2>5, <2>6 DEF PublicationInv
<1> QED
  BY <1>3, <1>4

(* A pusher or an administrator stores its objects under its unused id     *)
(* and then sends its PUT (x waits) or finds its candidate invalid (x is   *)
(* idle again).                                                            *)
LEMMA StoreInv ==
    ASSUME PublicationInv, NEW c \in Clients, NEW x \in ClientState,
           client' = [client EXCEPT ![c] = x],
           UNCHANGED <<head, chain, installed, late, faults, reported>>,
           x.n >= client[c].n, <<c, x.n>> \notin Used,
           DOMAIN pages' \subseteq DOMAIN pages \cup {<<c, x.n>>},
           \A q \in DOMAIN pages : q \in DOMAIN pages' /\ pages'[q] = pages[q],
           pages' \in [DOMAIN pages' -> Page],
           DOMAIN snaps' \subseteq Id, snaps' \in [DOMAIN snaps' -> Snapshot],
           \/ x.phase = "idle" /\ x.tx = NoTx
           \/ /\ x.phase = "waiting"
              /\ x.pin.pub \in installed \cup {None}
              /\ x.cand.pub = <<c, x.n>>
              /\ x.tx # NoTx => x.tx.id = <<c, x.n>> /\ x.kind \in {"push", "initialize"}
              /\ x.pin.pub = head.pub => Succeeds([head |-> x.cand, tx |-> x.tx], head)'
    PROVE  PublicationInv'
<1> DEFINE id == <<c, x.n>>
<1>1. id \in Id /\ TypeOK
  BY DEF PublicationInv, ClientState, Id
<1>2. \A r \in Requests' \ Requests :
         /\ r.head.pub = id /\ r.tx = x.tx
         /\ r.match \in installed \cup {None}
         /\ r.match = ETag(head) => Succeeds(r, head)'
         /\ r.tx # NoTx => r.tx.id = id
  <2>1. CASE x.phase = "idle"
    BY <1>1, <2>1, RequestsKept
  <2>2. CASE x.phase = "waiting"
    <3>1. \A r \in Requests' \ Requests :
            r.match = ETag(x.pin) /\ r.head = x.cand /\ r.tx = x.tx
      BY <1>1, RequestsSent
    <3>2. ASSUME NEW r, r.head = x.cand, r.tx = x.tx,
                 Succeeds([head |-> x.cand, tx |-> x.tx], head)'
          PROVE  Succeeds(r, head)'
      <4>1. PICK q : q = [head |-> x.cand, tx |-> x.tx]
        OBVIOUS
      <4>2. q.head = r.head /\ q.tx = r.tx /\ Succeeds(q, head)'
        BY <3>2, <4>1
      <4> QED
        BY <4>2 DEF Succeeds
    <3> QED
      BY <2>2, <3>1, <3>2 DEF ETag
  <2> QED
    BY <2>1, <2>2
<1>3. HeadInv' /\ PageInv' /\ ChainInv' /\ RequestInv' /\ Used' \subseteq Used \cup {id}
  BY <1>1, <1>2, SendStep
<1>4. ClientInv'
  <2>1. x.phase # "advertised" /\ (x.phase = "idle" => x.tx = NoTx) /\ installed \subseteq installed'
    OBVIOUS
  <2>2. x.tx # NoTx => x.kind \in {"push", "initialize"}
    OBVIOUS
  <2> QED
    BY <1>3, <2>1, <2>2, ClientStep
<1>5. AcknowledgedOnChain'
  BY DEF PublicationInv, AcknowledgedOnChain, OnChain
<1>6. TypeOK'
  BY <1>1 DEF TypeOK
<1> QED
  BY <1>3, <1>4, <1>5, <1>6 DEF PublicationInv

(* What a push starts from is an installed HEAD, or none. *)
LEMMA PushStateFacts ==
    ASSUME PublicationInv, NEW c \in Clients, client[c].phase = "advertised"
    PROVE  /\ PushState(c) \in HeadObject
           /\ PushState(c).pub \in installed \cup {None}
           /\ PushState(c).pub = head.pub => PushState(c) = head
           /\ PushState(c).snap.gen <= PushState(c).gen \/ PushState(c) # head
           /\ <<c, client[c].n>> \in Id /\ <<c, client[c].n>> \notin Used
  BY ClientFacts DEF PublicationInv, TypeOK, PushState, ClientInv, HeadInv

(* A push's candidate would succeed the HEAD that it was built from. *)
LEMMA PushInv ==
    ASSUME PublicationInv, NEW c \in Clients, Push(c)
    PROVE  PublicationInv'
<1>s. PICK s : s = PushState(c)
  OBVIOUS
<1>i. PICK id : id = <<c, client[c].n>>
  OBVIOUS
<1>1. /\ client[c].phase = "advertised" /\ Readable(s)
      /\ UNCHANGED <<head, snaps, late, faults, chain, installed, reported>>
  BY <1>s DEF Push
<1>2. /\ s \in HeadObject /\ s.pub \in installed \cup {None}
      /\ s.pub = head.pub => s = head
      /\ id \in Id /\ id \notin Used
  BY <1>s, <1>i, <1>1, PushStateFacts
<1>n. client[c].n \in Nat
  BY ClientFacts DEF PublicationInv
<1>3. PICK b \in Batches :
        LET us == Effective(RefsOf(s), b)
            t == MakeTransaction(s, id, us)
            cand == PushHead(s, t)
        IN  IF us = << >>
            THEN GiveUp(c) /\ pages' = pages
            ELSE /\ pages' = IF Seals(s.tail \cup {t})
                             THEN With(pages, id, SealedPage(s, t)) ELSE pages
                 /\ IF Valid(cand) THEN Send(c, "push", s, t, cand) ELSE GiveUp(c)
  BY <1>s, <1>i DEF Push
<1>u. PICK us : us = Effective(RefsOf(s), b)
  OBVIOUS
<1>t. PICK t : t = MakeTransaction(s, id, us)
  OBVIOUS
<1>c. PICK cand : cand = PushHead(s, t)
  OBVIOUS
<1>4. t \in Transaction /\ t.id = id /\ t.gen = s.gen + 1 /\ t.parent = s.tx
  <2>1. RefsOf(s) \in RefMaps
    BY <1>1 DEF Readable
  <2>2. PICK R \in SUBSET Refs : us \in [R -> Update]
    BY <1>u, <2>1, EffectiveType
  <2>3. t \in Transaction
    BY <1>2, <1>t, <2>2, MakeTransactionType
  <2> QED
    BY <1>t, <2>3 DEF MakeTransaction
<1>5. CASE us = << >>
  <2>1. GiveUp(c) /\ pages' = pages
    BY <1>3, <1>5, <1>u
  <2> QED
    BY <1>1, <2>1, GiveUpInv DEF PublicationInv, TypeOK
<1>6. CASE us # << >>
  <2>1. /\ pages' = IF Seals(s.tail \cup {t}) THEN With(pages, id, SealedPage(s, t)) ELSE pages
        /\ IF Valid(cand) THEN Send(c, "push", s, t, cand) ELSE GiveUp(c)
    BY <1>3, <1>6, <1>u, <1>t, <1>c
  <2>2. /\ SealedPage(s, t) \in Page /\ SealedPage(s, t).prev = s.tip
        /\ SealedPage(s, t).txs = s.tail \cup {t}
    BY <1>2, <1>4, HeadFacts, TransactionFacts DEF SealedPage, Page
  <2>3. /\ DOMAIN pages \subseteq Id /\ pages \in [DOMAIN pages -> Page]
        /\ DOMAIN snaps \subseteq Id /\ snaps \in [DOMAIN snaps -> Snapshot]
        /\ id \notin DOMAIN pages /\ TypeOK
    BY <1>2 DEF PublicationInv, TypeOK, Used
  <2>4. /\ DOMAIN pages' \subseteq DOMAIN pages \cup {id}
        /\ \A q \in DOMAIN pages : q \in DOMAIN pages' /\ pages'[q] = pages[q]
        /\ pages' \in [DOMAIN pages' -> Page]
        /\ Seals(s.tail \cup {t}) => id \in DOMAIN pages' /\ pages'[id] = SealedPage(s, t)
        /\ ~ Seals(s.tail \cup {t}) => pages' = pages
    <3>1. CASE Seals(s.tail \cup {t})
      <4>1. pages' = With(pages, id, SealedPage(s, t))
        BY <2>1, <3>1
      <4> QED
        BY <1>2, <2>2, <2>3, <3>1, <4>1 DEF With
    <3>2. CASE ~ Seals(s.tail \cup {t})
      BY <2>1, <2>3, <3>2
    <3> QED
      BY <3>1, <3>2
  <2>5. /\ cand \in HeadObject /\ cand.pub = id /\ cand.rev = s.rev + 1 /\ cand.gen = t.gen
        /\ cand.tx = id /\ cand.floor = s.floor /\ cand.snap = s.snap
        /\ Seals(s.tail \cup {t}) => cand.tip.id = id /\ cand.tail = {}
        /\ ~ Seals(s.tail \cup {t}) => cand.tip = s.tip /\ cand.tail = s.tail \cup {t}
    <3>1. /\ cand \in HeadObject /\ cand.pub = t.id /\ cand.rev = s.rev + 1 /\ cand.gen = t.gen
          /\ cand.tx = t.id /\ cand.floor = s.floor /\ cand.snap = s.snap
          /\ Seals(s.tail \cup {t}) =>
               cand.tip = [id |-> t.id, last |-> t.gen] /\ cand.tail = {}
          /\ ~ Seals(s.tail \cup {t}) => cand.tip = s.tip /\ cand.tail = s.tail \cup {t}
      BY <1>2, <1>4, <1>c, PushHeadFacts, Zenon
    <3> QED
      BY <1>4, <3>1
  <2>6. s.pub = head.pub => Succeeds([head |-> cand, tx |-> t], head)'
    <3> SUFFICES ASSUME s = head
                 PROVE  Succeeds([head |-> cand, tx |-> t], s)'
      BY <1>1, <1>2 DEF Succeeds
    <3>2. s.snap.gen <= s.gen /\ s.snap.gen \in Nat /\ s.gen \in Nat /\ s.floor \in Nat /\ t # NoTx
      BY <1>2, <1>4, HeadFacts, TransactionFacts DEF PublicationInv, HeadInv
    <3>3. CASE Seals(s.tail \cup {t})
      BY <1>4, <2>2, <2>4, <2>5, <3>2, <3>3 DEF Succeeds
    <3>4. CASE ~ Seals(s.tail \cup {t})
      BY <1>4, <2>3, <2>4, <2>5, <3>2, <3>4 DEF Succeeds
    <3> QED
      BY <3>3, <3>4
  <2>7. CASE Valid(cand)
    <3>1. Send(c, "push", s, t, cand)
      BY <2>1, <2>7
    <3>2. PICK x \in ClientState :
            /\ client' = [client EXCEPT ![c] = x]
            /\ x.phase = "waiting" /\ x.n = client[c].n
            /\ x.kind = "push" /\ x.pin = s /\ x.tx = t /\ x.cand = cand
      BY <1>2, <1>4, <2>3, <2>5, <3>1, SendFacts DEF Kinds
    <3>3. x.n >= client[c].n
      BY <1>n, <3>2
    <3> QED
      BY <1>1, <1>2, <1>i, <1>4, <2>3, <2>4, <2>5, <2>6, <3>2, <3>3, StoreInv, ZenonT(60)
  <2>8. CASE ~ Valid(cand)
    <3> DEFINE x == Quiet(client[c].n)
    <3>1. client' = [client EXCEPT ![c] = x]
      BY <2>1, <2>8 DEF GiveUp
    <3>2. x \in ClientState /\ x.phase = "idle" /\ x.n = client[c].n /\ x.tx = NoTx
      BY <2>3, ClientFacts, QuietType, QuietFacts
    <3>3. x.n >= client[c].n
      BY <1>n, <3>2
    <3> HIDE DEF x
    <3> QED
      BY <1>1, <1>2, <1>i, <2>3, <2>4, <3>1, <3>2, <3>3, StoreInv
  <2> QED
    BY <2>7, <2>8
<1> QED
  BY <1>5, <1>6

(* The first HEAD of a repository would succeed no HEAD at all. *)
LEMMA InitializeInv ==
    ASSUME PublicationInv, NEW c \in Clients, Initialize(c)
    PROVE  PublicationInv'
<1>i. PICK id : id = <<c, client[c].n>>
  OBVIOUS
<1>1. /\ client[c].phase = "advertised"
      /\ UNCHANGED <<head, pages, late, faults, chain, installed, reported>>
  BY DEF Initialize
<1>2. id \in Id /\ id \notin Used /\ client[c].n \in Nat
  BY <1>i, <1>1, PushStateFacts, ClientFacts DEF PublicationInv
<1>3. PICK b \in Batches :
        LET us == Effective(NoRefs, b)
            t == MakeTransaction(Absent, id, us)
        IN  IF us = << >>
            THEN GiveUp(c) /\ snaps' = snaps
            ELSE \E sym \in DOMAIN us :
                   LET cand == InitialHead(t, sym) IN
                   /\ snaps' = With(snaps, id, [gen |-> 0, refs |-> NoRefs])
                   /\ IF Valid(cand) THEN Send(c, "initialize", Absent, t, cand) ELSE GiveUp(c)
  BY <1>i DEF Initialize
<1>u. PICK us : us = Effective(NoRefs, b)
  OBVIOUS
<1>t. PICK t : t = MakeTransaction(Absent, id, us)
  OBVIOUS
<1>4. PICK R \in SUBSET Refs : us \in [R -> Update]
  <2>1. NoRefs \in RefMaps
    BY DEF NoRefs, RefMaps
  <2> QED
    BY <1>u, <2>1, EffectiveType
<1>5. t \in Transaction /\ t.id = id /\ t.gen = 1 /\ t.parent = None
  <2>1. t \in Transaction
    BY <1>2, <1>t, <1>4, AbsentType, MakeTransactionType
  <2> QED
    BY <1>t, <2>1 DEF MakeTransaction, Absent
<1>6. CASE us = << >>
  <2>1. GiveUp(c) /\ snaps' = snaps
    BY <1>3, <1>6, <1>u
  <2> QED
    BY <1>1, <2>1, GiveUpInv DEF PublicationInv, TypeOK
<1>7. CASE us # << >>
  <2>1. PICK sym \in Refs :
          /\ snaps' = With(snaps, id, [gen |-> 0, refs |-> NoRefs])
          /\ IF Valid(InitialHead(t, sym))
             THEN Send(c, "initialize", Absent, t, InitialHead(t, sym)) ELSE GiveUp(c)
    BY <1>3, <1>7, <1>u, <1>t, <1>4
  <2>c. PICK cand : cand = InitialHead(t, sym)
    OBVIOUS
  <2>2. /\ cand \in HeadObject /\ cand.pub = id /\ cand.rev = 1 /\ cand.gen = 1 /\ cand.tx = id
        /\ cand.floor = 0 /\ cand.snap.gen = 0 /\ cand.tip = NoPage /\ cand.tail = {t}
    <3>1. /\ cand \in HeadObject /\ cand.pub = t.id /\ cand.rev = 1 /\ cand.gen = 1
          /\ cand.tx = t.id
          /\ cand.floor = 0 /\ cand.snap.gen = 0 /\ cand.tip = NoPage /\ cand.tail = {t}
      BY <1>5, <2>c, InitialHeadFacts, Zenon
    <3> QED
      BY <1>5, <3>1
  <2>3. /\ DOMAIN pages \subseteq Id /\ pages \in [DOMAIN pages -> Page]
        /\ id \notin DOMAIN pages /\ TypeOK
    BY <1>2 DEF PublicationInv, TypeOK, Used
  <2>4. DOMAIN snaps' \subseteq Id /\ snaps' \in [DOMAIN snaps' -> Snapshot]
    <3>1. DOMAIN snaps \subseteq Id /\ snaps \in [DOMAIN snaps -> Snapshot]
      BY <2>3 DEF TypeOK
    <3>2. [gen |-> 0, refs |-> NoRefs] \in Snapshot
      BY DEF Snapshot, NoRefs, RefMaps
    <3> QED
      BY <1>2, <2>1, <3>1, <3>2 DEF With
  <2>5. Absent.pub = None /\ (Absent.pub = head.pub => Succeeds([head |-> cand, tx |-> t], head)')
    <3>1. Absent.pub = None
      BY DEF Absent
    <3>2. ASSUME head = Absent
          PROVE  Succeeds([head |-> cand, tx |-> t], head)'
      BY <1>1, <1>5, <2>2, <2>3, <3>2, TransactionFacts DEF Succeeds, Absent
    <3> QED
      BY <3>1, <3>2 DEF PublicationInv, HeadInv
  <2>6. CASE Valid(cand)
    <3>1. Send(c, "initialize", Absent, t, cand)
      BY <2>1, <2>6, <2>c
    <3>2. PICK x \in ClientState :
            /\ client' = [client EXCEPT ![c] = x]
            /\ x.phase = "waiting" /\ x.n = client[c].n
            /\ x.kind = "initialize" /\ x.pin = Absent /\ x.tx = t /\ x.cand = cand
      BY <1>5, <2>2, <2>3, <3>1, AbsentType, SendFacts DEF Kinds
    <3>3. x.n >= client[c].n
      BY <1>2, <3>2
    <3> QED
      BY <1>1, <1>2, <1>i, <1>5, <2>2, <2>3, <2>4, <2>5, <3>2, <3>3, StoreInv
  <2>7. CASE ~ Valid(cand)
    <3> DEFINE x == Quiet(client[c].n)
    <3>1. client' = [client EXCEPT ![c] = x]
      BY <2>1, <2>7, <2>c DEF GiveUp
    <3>2. x \in ClientState /\ x.phase = "idle" /\ x.n = client[c].n /\ x.tx = NoTx
      BY <1>2, QuietType, QuietFacts
    <3>3. x.n >= client[c].n
      BY <1>2, <3>2
    <3> HIDE DEF x
    <3> QED
      BY <1>1, <1>2, <1>i, <2>3, <2>4, <3>1, <3>2, <3>3, StoreInv
  <2> QED
    BY <2>6, <2>7
<1> QED
  BY <1>6, <1>7

(* An administrator's next id is unused, and its HEAD is readable. *)
LEMMA MayAdministerFacts ==
    ASSUME PublicationInv, NEW c \in Clients, MayAdminister(c)
    PROVE  /\ client[c].n \in Nat /\ client[c].n + 1 >= client[c].n
           /\ client[c].tx = NoTx /\ head \in HeadObject /\ Readable(head)
           /\ head.pub \in installed \cup {None}
           /\ <<c, client[c].n + 1>> \in Id /\ <<c, client[c].n + 1>> \notin Used
<1>1. client[c].n \in Nat /\ <<c, client[c].n + 1>> \in Id
  BY ClientFacts DEF PublicationInv
<1>2. \A u \in Used : u[1] = c => u[2] <= client[c].n
  BY DEF PublicationInv, ClientInv
<1>3. <<c, client[c].n + 1>> \notin Used
  <2>1. /\ <<c, client[c].n + 1>>[1] = c /\ <<c, client[c].n + 1>>[2] = client[c].n + 1
        /\ ~ (client[c].n + 1 <= client[c].n) /\ client[c].n + 1 >= client[c].n
    BY <1>1
  <2> QED
    BY <1>2, <2>1
<1>4. client[c].tx = NoTx /\ head \in HeadObject /\ Readable(head)
  BY DEF MayAdminister, PublicationInv, ClientInv, TypeOK
<1>5. head.pub \in installed \cup {None}
  BY DEF PublicationInv, HeadInv
<1> QED
  BY <1>1, <1>3, <1>4, <1>5

(* An administrator sends a candidate that has the tip of the pinned HEAD. *)
LEMMA AdministerInv ==
    ASSUME PublicationInv, NEW c \in Clients, MayAdminister(c),
           NEW kind \in Kinds, NEW cand \in HeadObject, Administer(c, kind, cand),
           UNCHANGED <<head, pages, late, faults, chain, installed, reported>>,
           DOMAIN snaps' \subseteq Id, snaps' \in [DOMAIN snaps' -> Snapshot],
           cand.pub = <<c, client[c].n + 1>>, cand.rev = head.rev + 1,
           cand.gen = head.gen, cand.tx = head.tx, cand.floor >= head.floor,
           head.snap.gen <= cand.snap.gen, cand.snap.gen <= cand.gen,
           cand.tip \in {head.tip, NoPage}, cand.tail \subseteq head.tail
    PROVE  PublicationInv'
<1>1. /\ client[c].n \in Nat /\ client[c].n + 1 >= client[c].n
      /\ client[c].tx = NoTx /\ head.pub \in installed \cup {None}
      /\ <<c, client[c].n + 1>> \in Id /\ <<c, client[c].n + 1>> \notin Used
  BY MayAdministerFacts
<1>2. /\ DOMAIN pages \subseteq Id /\ pages \in [DOMAIN pages -> Page]
      /\ <<c, client[c].n + 1>> \notin DOMAIN pages /\ TypeOK
  BY <1>1 DEF PublicationInv, TypeOK, Used
<1>3. PICK x \in ClientState :
        /\ client' = [client EXCEPT ![c] = x]
        /\ x.phase = "waiting" /\ x.n = client[c].n + 1
        /\ x.pin = head /\ x.tx = client[c].tx /\ x.cand = cand
  BY <1>2, AdministerFacts
<1>4. Succeeds([head |-> cand, tx |-> NoTx], head)'
  BY <1>2 DEF Succeeds
<1>5. x.n >= client[c].n /\ x.tx = NoTx
  BY <1>1, <1>3
<1> QED
  BY <1>1, <1>2, <1>3, <1>4, <1>5, StoreInv

(* Maintenance moves the floor below the tip it found. *)
LEMMA MaintenanceInv ==
    ASSUME PublicationInv, NEW c \in Clients, Maintenance(c)
    PROVE  PublicationInv'
<1>i. PICK id : id = <<c, client[c].n + 1>>
  OBVIOUS
<1>1. /\ MayAdminister(c)
      /\ snaps' = With(snaps, id, [gen |-> head.gen, refs |-> RefsOf(head)])
      /\ UNCHANGED <<head, pages, late, faults, chain, installed, reported>>
  BY <1>i DEF Maintenance
<1>2. PICK g \in Targets(head) : Administer(c, "maintenance", MaintenanceHead(head, id, g))
  BY <1>i DEF Maintenance
<1>3. id \in Id /\ head \in HeadObject /\ Readable(head) /\ TypeOK
  BY <1>i, <1>1, MayAdministerFacts DEF PublicationInv
<1>4. PICK cand : cand = MaintenanceHead(head, id, g)
  OBVIOUS
<1>5. /\ cand \in HeadObject /\ cand.pub = id /\ cand.rev = head.rev + 1
      /\ cand.gen = head.gen /\ cand.tx = head.tx /\ cand.floor >= head.floor
      /\ cand.snap.gen = head.gen
      /\ cand.tip \in {head.tip, NoPage} /\ cand.tail \subseteq head.tail
  <2>1. Collects(head) /\ LogOf(head) \subseteq Transaction
    BY <1>3, LogType DEF Readable
  <2> QED
    BY <1>3, <1>4, <2>1, MaintenanceHeadFacts, ZenonT(60)
<1>6. DOMAIN snaps' \subseteq Id /\ snaps' \in [DOMAIN snaps' -> Snapshot]
  <2>1. DOMAIN snaps \subseteq Id /\ snaps \in [DOMAIN snaps -> Snapshot]
    BY <1>3 DEF TypeOK
  <2>2. [gen |-> head.gen, refs |-> RefsOf(head)] \in Snapshot
    BY <1>3, HeadFacts DEF Snapshot, Readable
  <2> QED
    BY <1>1, <1>3, <2>1, <2>2 DEF With
<1>7. head.snap.gen <= cand.snap.gen /\ cand.snap.gen <= cand.gen
  BY <1>3, <1>5, HeadFacts DEF PublicationInv, HeadInv
<1>8. "maintenance" \in Kinds /\ Administer(c, "maintenance", cand)
  BY <1>2, <1>4 DEF Kinds
<1> QED
  BY <1>i, <1>1, <1>5, <1>6, <1>7, <1>8, AdministerInv

(* SetHead changes the symbolic HEAD only. *)
LEMMA SetHeadInv ==
    ASSUME PublicationInv, NEW c \in Clients, SetHead(c)
    PROVE  PublicationInv'
<1>i. PICK id : id = <<c, client[c].n + 1>>
  OBVIOUS
<1>1. /\ MayAdminister(c)
      /\ UNCHANGED <<head, pages, snaps, late, faults, chain, installed, reported>>
  BY DEF SetHead
<1>2. PICK r \in Refs :
        Administer(c, "set-head", [head EXCEPT !.sym = r, !.rev = head.rev + 1, !.pub = id])
  BY <1>i DEF SetHead
<1>3. id \in Id /\ head \in HeadObject /\ TypeOK
  BY <1>i, <1>1, MayAdministerFacts DEF PublicationInv
<1>4. PICK cand : cand = [head EXCEPT !.sym = r, !.rev = head.rev + 1, !.pub = id]
  OBVIOUS
<1>5. /\ cand \in HeadObject /\ cand.pub = id /\ cand.rev = head.rev + 1
      /\ cand.gen = head.gen /\ cand.tx = head.tx /\ cand.floor = head.floor
      /\ cand.snap = head.snap /\ cand.tip = head.tip /\ cand.tail = head.tail
  <2> DEFINE j == [head EXCEPT !.sym = r, !.rev = head.rev + 1]
  <2>1. /\ j \in HeadObject /\ j.rev = head.rev + 1
        /\ j.gen = head.gen /\ j.tx = head.tx /\ j.floor = head.floor
        /\ j.snap = head.snap /\ j.tip = head.tip /\ j.tail = head.tail
    <3>1. head.rev + 1 \in Nat /\ r \in Refs \cup {None}
      BY <1>3, HeadFacts
    <3> QED
      BY <1>3, <3>1 DEF HeadObject
  <2>2. cand = [j EXCEPT !.pub = id]
    BY <1>4
  <2> HIDE DEF j
  <2> QED
    BY <1>3, <2>1, <2>2 DEF HeadObject
<1>6. DOMAIN snaps' \subseteq Id /\ snaps' \in [DOMAIN snaps' -> Snapshot]
  BY <1>1, <1>3 DEF TypeOK
<1>7. cand.floor >= head.floor /\ head.snap.gen <= cand.snap.gen /\ cand.snap.gen <= cand.gen
  BY <1>3, <1>5, HeadFacts DEF PublicationInv, HeadInv
<1>8. "set-head" \in Kinds /\ Administer(c, "set-head", cand)
  BY <1>2, <1>4 DEF Kinds
<1> QED
  BY <1>i, <1>1, <1>5, <1>6, <1>7, <1>8, AdministerInv

(* A request that its sender still answers for. *)
LEMMA OwnRequest ==
    ASSUME NEW c \in Clients, Active(c)
    PROVE  /\ Request(c) \in Requests
           /\ Request(c).match = client[c].pin.pub /\ Request(c).head = client[c].cand
           /\ Request(c).tx = client[c].tx
  BY DEF Requests, Active, Request, ETag

(* The awaited PUT is served: with the answer, Push reports its push. *)
LEMMA PutReturnsInv ==
    ASSUME PublicationInv, NEW c \in Clients, PutReturns(c)
    PROVE  PublicationInv'
<1>1. Active(c) /\ UNCHANGED <<pages, snaps, late, faults>>
  BY DEF PutReturns, Active
<1>2. PICK r \in Requests : r = Request(c) /\ r.tx = client[c].tx
  BY <1>1, OwnRequest
<1>3. CASE ~ Matches(r)
  <2>1. Finish(c, "conflict") /\ UNCHANGED <<head, chain, installed>>
    BY <1>2, <1>3 DEF PutReturns
  <2>2. "conflict" \in Codes /\ "conflict" # "ok"
    BY DEF Codes
  <2> QED
    BY <1>1, <2>1, <2>2, FinishInv
<1>4. CASE Matches(r)
  <2>1. Install(r) /\ Finish(c, "ok")
    BY <1>2, <1>4 DEF PutReturns
  <2>2. PICK x \in ClientState :
          /\ x.phase = "idle" /\ x.n = client[c].n /\ x.tx = NoTx
          /\ client' = [client EXCEPT ![c] = x]
    BY <2>1, QuietType, QuietFacts, ClientFacts DEF PublicationInv, Finish
  <2>3. Requests' \subseteq Requests
    BY <1>1, <2>2, RequestsKept DEF PublicationInv
  <2>4. /\ HeadInv' /\ PageInv' /\ ChainInv' /\ RequestInv' /\ Used' \subseteq Used
        /\ r.tx # NoTx => OnChain(r.tx)'
        /\ \A t : OnChain(t) => OnChain(t)'
        /\ head'.pub \notin installed
    BY <1>1, <1>4, <2>1, <2>3, InstallStep
  <2>5. r \in PutRequest /\ r.head.pub \in Id
    BY RequestsType DEF PublicationInv, RequestInv
  <2>6. head'.pub # None /\ installed \subseteq installed'
    BY <2>1, <2>5, NoneAssumption DEF Install
  <2>7. ClientInv'
    <3>1. client[c].n \in Nat
      BY ClientFacts DEF PublicationInv
    <3>2. x.n >= client[c].n /\ x.phase # "advertised"
      BY <2>2, <3>1
    <3> QED
      BY <2>2, <2>4, <2>6, <3>2, ClientStep
  <2>8. AcknowledgedOnChain'
    BY <1>2, <2>1, <2>4 DEF PublicationInv, AcknowledgedOnChain, Finish
  <2>9. TypeOK'
    <3>1. /\ head' \in HeadObject /\ chain' \in Seq(Transaction) /\ installed' \subseteq Id
      BY <2>1, <2>5, InstallType DEF PublicationInv
    <3>2. client' \in [Clients -> ClientState] /\ reported' \subseteq Report
      BY <2>1, FinishType DEF PublicationInv, Codes
    <3> QED
      BY <1>1, <3>1, <3>2 DEF PublicationInv, TypeOK
  <2> QED
    BY <2>4, <2>7, <2>8, <2>9 DEF PublicationInv
<1> QED
  BY <1>3, <1>4

(* publishHead's conclusions from a HEAD it reads after a transport error. *)
LEMMA ConfirmSound ==
    ASSUME PublicationInv, NEW c \in Clients, client[c].phase = "rereading", client[c].tx # NoTx
    PROVE  /\ head # Absent /\ head.pub = client[c].cand.pub => OnChain(client[c].tx)
           /\ ConfirmPush(c) = "ok" => OnChain(client[c].tx)
           /\ ConfirmInitialize(c) = "ok" => OnChain(client[c].tx)
<1>1. Active(c)
  BY DEF Active
<1>2. PICK r \in Requests : r.head = client[c].cand /\ r.tx = client[c].tx
  BY <1>1, OwnRequest
<1>3. /\ r.tx.id = r.head.pub
      /\ r.head.pub \in installed => OnChain(r.tx)
      /\ r.head.pub \in Id
  BY <1>2 DEF PublicationInv, RequestInv
<1>4. head # Absent /\ head.pub = client[c].cand.pub => OnChain(client[c].tx)
  BY <1>2, <1>3, NoneAssumption DEF PublicationInv, HeadInv
<1>5. ConfirmPush(c) = "ok" => OnChain(client[c].tx)
  <2>1. client[c].tx \in LogOf(head) => OnChain(client[c].tx)
    BY LogIsOnChain DEF LogOnChain
  <2>2. ConfirmPush(c) = "ok" => client[c].tx \in LogOf(head)
    BY DEF ConfirmPush
  <2> QED
    BY <2>1, <2>2
<1>6. ConfirmInitialize(c) = "ok" => OnChain(client[c].tx)
  <2> SUFFICES ASSUME NEW t \in LogOf(head), t.id = client[c].tx.id
               PROVE  OnChain(client[c].tx)
    BY DEF ConfirmInitialize
  <2>1. OnChain(t)
    BY LogIsOnChain DEF LogOnChain
  <2>2. t.id \in installed
    BY <2>1 DEF OnChain, PublicationInv, ChainInv
  <2> QED
    BY <1>2, <1>3, <2>2
<1> QED
  BY <1>4, <1>5, <1>6

(* publishHead's second look at HEAD, whether it succeeds or not. *)
LEMMA RereadInv ==
    ASSUME PublicationInv, NEW c \in Clients, Reread(c) \/ RereadFails(c)
    PROVE  PublicationInv'
<1>1. client[c].phase = "rereading" /\ UNCHANGED <<head, pages, snaps, late, faults, chain, installed>>
  BY DEF Reread, RereadFails
<1>2. CASE RereadFails(c)
  <2>1. Finish(c, "ambiguous") /\ "ambiguous" \in Codes /\ "ambiguous" # "ok"
    BY <1>2 DEF RereadFails, Codes
  <2> QED
    BY <1>1, <2>1, FinishInv
<1>3. CASE Reread(c)
  <2>1. PICK code : /\ code = IF head.pub = client[c].cand.pub THEN "ok" ELSE Confirm(c)
                    /\ Finish(c, code)
    BY <1>3 DEF Reread
  <2>2. /\ ConfirmPush(c) \in Codes /\ ConfirmInitialize(c) \in Codes
        /\ ConfirmMaintenance(c) \in Codes
    <3>1. ConfirmPush(c) \in Codes
      BY DEF ConfirmPush, Codes
    <3>2. ConfirmInitialize(c) \in Codes /\ ConfirmMaintenance(c) \in Codes
      BY DEF ConfirmInitialize, ConfirmMaintenance, Codes
    <3> QED
      BY <3>1, <3>2
  <2>3. Confirm(c) \in Codes
    BY <2>2 DEF Confirm, Codes
  <2>4. code \in Codes
    BY <2>1, <2>3 DEF Codes
  <2>5. client[c].tx # NoTx => client[c].kind \in {"push", "initialize"}
    BY <1>1 DEF PublicationInv, ClientInv
  <2>6. code = "ok" /\ client[c].tx # NoTx => OnChain(client[c].tx)
    <3> SUFFICES ASSUME code = "ok", client[c].tx # NoTx
                 PROVE  OnChain(client[c].tx)
      OBVIOUS
    <3>1. \/ head.pub = client[c].cand.pub
          \/ client[c].kind = "push" /\ ConfirmPush(c) = "ok"
          \/ client[c].kind = "initialize" /\ ConfirmInitialize(c) = "ok"
      BY <2>1, <2>5 DEF Confirm
    <3>2. head # Absent
      BY <1>3 DEF Reread
    <3> QED
      BY <1>1, <3>1, <3>2, ConfirmSound
  <2> QED
    BY <1>1, <2>1, <2>4, <2>6, FinishInv
<1> QED
  BY <1>2, <1>3

(* A PUT is sent again, or given up: it may still be served. *)
LEMMA RetryInv ==
    ASSUME PublicationInv, NEW c \in Clients, Resend(c) \/ TransportError(c)
    PROVE  PublicationInv'
<1>1. /\ client[c].phase = "waiting" /\ Active(c)
      /\ late' = late \cup {Request(c)} /\ faults' = faults + 1
      /\ UNCHANGED <<head, pages, snaps, chain, installed, reported>>
  BY DEF Resend, TransportError, Abandon, Active
<1>2. PICK x \in ClientState :
        /\ client' = [client EXCEPT ![c] = x]
        /\ x.phase \in {"waiting", "rereading"} /\ x.n = client[c].n
        /\ x.pin = client[c].pin /\ x.cand = client[c].cand
        /\ x.tx = client[c].tx /\ x.kind = client[c].kind
  <2>1. client[c] \in ClientState /\ client[c].attempt + 1 \in Nat
    BY ClientFacts DEF PublicationInv
  <2>2. CASE Resend(c)
    <3> DEFINE x == [client[c] EXCEPT !.attempt = client[c].attempt + 1]
    <3>1. /\ x \in ClientState /\ x.phase = client[c].phase /\ x.n = client[c].n
          /\ x.pin = client[c].pin /\ x.cand = client[c].cand
          /\ x.tx = client[c].tx /\ x.kind = client[c].kind
      BY <2>1 DEF ClientState
    <3>2. client' = [client EXCEPT ![c] = x]
      BY <2>2 DEF Resend
    <3> HIDE DEF x
    <3> QED
      BY <1>1, <3>1, <3>2
  <2>3. CASE TransportError(c)
    <3> DEFINE x == [client[c] EXCEPT !.phase = "rereading"]
    <3>1. /\ x \in ClientState /\ x.phase = "rereading" /\ x.n = client[c].n
          /\ x.pin = client[c].pin /\ x.cand = client[c].cand
          /\ x.tx = client[c].tx /\ x.kind = client[c].kind
      BY <2>1 DEF ClientState, Phases
    <3>2. client' = [client EXCEPT ![c] = x]
      BY <2>3 DEF TransportError
    <3> HIDE DEF x
    <3> QED
      BY <3>1, <3>2
  <2> QED
    BY <2>2, <2>3
<1>3. Requests' \subseteq Requests
  BY <1>1, <1>2, RequestsKept DEF PublicationInv
<1>4. HeadInv' /\ PageInv' /\ ChainInv' /\ RequestInv' /\ Used' \subseteq Used
  BY <1>1, <1>3, KeepStep
<1>5. ClientInv'
  <2>1. client[c].n \in Nat
    BY ClientFacts DEF PublicationInv
  <2>2. /\ x.n >= client[c].n /\ x.phase # "advertised" /\ x.phase # "idle"
        /\ installed \subseteq installed' /\ head' = head
    BY <1>1, <1>2, <2>1
  <2>3. x.tx # NoTx => x.kind \in {"push", "initialize"}
    BY <1>2 DEF PublicationInv, ClientInv
  <2> QED
    BY <1>2, <1>4, <2>2, <2>3, ClientStep
<1>6. AcknowledgedOnChain'
  BY <1>1 DEF PublicationInv, AcknowledgedOnChain, OnChain
<1>7. TypeOK'
  <2>1. late' \subseteq PutRequest
    BY <1>1, RequestType DEF PublicationInv, TypeOK
  <2> QED
    BY <1>1, <1>2, <2>1 DEF PublicationInv, TypeOK
<1> QED
  BY <1>4, <1>5, <1>6, <1>7 DEF PublicationInv

(* Nothing is published and nobody has begun. *)
LEMMA InitInv == Init => PublicationInv
<1> SUFFICES ASSUME Init
             PROVE  PublicationInv
  OBVIOUS
<1>1. \A c \in Clients : client[c] \in ClientState /\ client[c].phase = "idle" /\ client[c].tx = NoTx
  BY QuietType, QuietFacts DEF Init
<1>2. client = [c \in Clients |-> Quiet(0)]
  BY DEF Init
<1>3. client \in [Clients -> ClientState]
  BY <1>1, <1>2
<1>4. TypeOK
  BY <1>3, AbsentType DEF Init, TypeOK
<1>5. Requests = {} /\ Used = {}
  BY <1>1 DEF Requests, Used, Init
<1>6. HeadInv /\ PageInv
  BY DEF Init, HeadInv, PageInv, Absent, Published
<1>7. ChainInv
  BY DEF Init, ChainInv, ChainGapFree, Absent
<1>8. RequestInv /\ ClientInv /\ AcknowledgedOnChain
  BY <1>1, <1>5 DEF Init, RequestInv, ClientInv, AcknowledgedOnChain
<1> QED
  BY <1>4, <1>6, <1>7, <1>8 DEF PublicationInv

(* No step of any process or of the store breaks the invariant. *)
LEMMA NextInv == PublicationInv /\ [Next]_vars => PublicationInv'
<1> SUFFICES ASSUME PublicationInv, [Next]_vars
             PROVE  PublicationInv'
  OBVIOUS
<1>1. CASE UNCHANGED vars
  <2>1. Requests' = Requests /\ Used' = Used
    BY <1>1 DEF vars, Requests, Used, Request, ETag
  <2> QED
    BY <1>1, <2>1 DEF vars, PublicationInv, TypeOK, HeadInv, PageInv, ChainInv, ChainGapFree,
          RequestInv, Succeeds, ETag, ClientInv, AcknowledgedOnChain, OnChain, Published
<1>2. ASSUME NEW c \in Clients, Proceed(c)
      PROVE  PublicationInv'
  <2>1. CASE PushStale(c)
    BY <2>1, GiveUpInv DEF PushStale, PublicationInv, TypeOK
  <2>2. CASE PutRefused(c)
    <3>1. "conflict" \in Codes /\ "conflict" # "ok"
      BY DEF Codes
    <3> QED
      BY <2>2, <3>1, FinishInv DEF PutRefused
  <2> QED
    BY <1>2, <2>1, <2>2, PushInv, InitializeInv, PutReturnsInv, RetryInv, RereadInv DEF Proceed
<1>3. ASSUME NEW c \in Clients, Crash(c)
      PROVE  PublicationInv'
  <2>1. late' \subseteq late \/ (Active(c) /\ late' \subseteq late \cup {Request(c)})
    BY <1>3 DEF Crash, Abandon, Active
  <2>2. faults' \in Nat
    BY <1>3 DEF Crash, Abandon, PublicationInv, TypeOK
  <2> QED
    BY <1>3, <2>1, <2>2, GiveUpInv DEF Crash
<1>4. Pushers \subseteq Clients /\ Admins \subseteq Clients
  BY DEF Clients
<1> QED
  BY <1>1, <1>2, <1>3, <1>4, AdvertiseInv, MaintenanceInv, SetHeadInv, ServeLateInv DEF Next

-----------------------------------------------------------------------------
(* The theorems. *)

(* Every reachable state satisfies the inductive invariant: each HEAD PUT  *)
(* that may still be served either has lost its race or is a legal         *)
(* successor of the HEAD in place, and nobody's id is ever used twice.     *)
THEOREM InvariantHolds == Spec => []PublicationInv
<1>1. Init => PublicationInv
  BY InitInv
<1>2. PublicationInv /\ [Next]_vars => PublicationInv'
  BY NextInv
<1> QED
  BY <1>1, <1>2, PTL DEF Spec

(* The state of HEAD, of the stored objects and of every process always    *)
(* has its type.                                                           *)
THEOREM TypeCorrect == Spec => []TypeOK
<1>1. PublicationInv => TypeOK
  BY DEF PublicationInv
<1> QED
  BY <1>1, InvariantHolds, PTL

(* Whatever pushes, administrators, resent, late and lost PUTs and crashes *)
(* do, the installed transactions form one gap-free parent chain that ends *)
(* at HEAD and holds no transaction twice.                                 *)
THEOREM ChainIsGapFree == Spec => []ChainGapFree
<1>1. PublicationInv => ChainGapFree
  BY DEF PublicationInv, ChainInv
<1> QED
  BY <1>1, InvariantHolds, PTL

(* Push never reports success of a transaction that is not in the chain.   *)
THEOREM AcknowledgedIsPublished == Spec => []AcknowledgedOnChain
<1>1. PublicationInv => AcknowledgedOnChain
  BY DEF PublicationInv
<1> QED
  BY <1>1, InvariantHolds, PTL

(* What collectTransactions reaches from HEAD was published, although the  *)
(* tails and pages of pushes that lost their race are stored as well.      *)
THEOREM ReadersSeeOnlyTheChain == Spec => []LogOnChain
<1>1. PublicationInv => LogOnChain
  BY LogIsOnChain
<1> QED
  BY <1>1, InvariantHolds, PTL

(* HEAD changes only when the store serves a matching request. *)
LEMMA HeadStep ==
    ASSUME PublicationInv, Next, head' # head
    PROVE  \E r \in Requests : Matches(r) /\ Install(r)
<1>1. CASE \E c \in Clients : PutReturns(c)
  <2>1. PICK c \in Clients : PutReturns(c)
    BY <1>1
  <2>2. Active(c) /\ Matches(Request(c)) /\ Install(Request(c))
    BY <2>1 DEF PutReturns, Active
  <2> QED
    BY <2>2, OwnRequest
<1>2. CASE \E r \in late : ServeLate(r)
  BY <1>2 DEF ServeLate, Requests
<1>3. CASE ~ (\E c \in Clients : PutReturns(c)) /\ ~ (\E r \in late : ServeLate(r))
  BY <1>3 DEF Next, Proceed, Advertise, Maintenance, SetHead, Crash, PushStale, Push, Initialize,
              PutRefused, Resend, TransportError, Reread, RereadFails
<1> QED
  BY <1>1, <1>2, <1>3

(* Every replacement of HEAD, by whatever copy of whichever PUT, is one    *)
(* that the format allows.                                                 *)
THEOREM ReplacementsAreLegal == Spec => HeadReplacements
<1>1. PublicationInv /\ [Next]_vars => [head' # head => ReplacementStep]_head
  <2> SUFFICES ASSUME PublicationInv, Next, head' # head
               PROVE  ReplacementStep
    BY DEF vars
  <2>1. PICK r \in Requests : Matches(r) /\ Install(r)
    BY HeadStep
  <2>2. /\ head' = r.head /\ r.head.pub \notin installed /\ r.head.pub \in Id
        /\ Succeeds(r, head)
    BY <2>1 DEF PublicationInv, RequestInv, Matches, Install
  <2>3. head.tx \in installed \cup {None}
    BY DEF PublicationInv, ChainInv, ChainGapFree, TypeOK
  <2>4. r.tx # NoTx => head'.tx # head.tx
    BY <2>2, <2>3, NoneAssumption DEF Succeeds
  <2> QED
    BY <2>2, <2>4 DEF Succeeds, ReplacementStep
<1> QED
  BY <1>1, InvariantHolds, PTL DEF Spec, HeadReplacements

-----------------------------------------------------------------------------
(* Replaying the log. *)

(* A non-empty set of numbers has a least one: what an induction over      *)
(* generations comes down to.                                              *)
LEMMA LeastNumber ==
    ASSUME NEW T \in SUBSET Nat, T # {}
    PROVE  \E m \in T : \A n \in T : m <= n
<1>1. PICK m \in T : \A n \in T : ~ (<<n, m>> \in OpToRel(<, Nat))
  BY NatLessThanWellFounded, WFMin, Zenon
<1>2. \A n \in T : ~ (n < m)
  BY <1>1 DEF OpToRel
<1> QED
  BY <1>2

(* The record of generation g that reconstruct applies. *)
Rec(log, g) == CHOOSE t \in log : t.gen = g

(* f is a replay of the log from refs on. *)
ReplayAt(f, refs, log, from, g) == IF g = from THEN refs ELSE Apply(f[g - 1], Rec(log, g))
Replays(f, refs, log, from, to) == \A g \in from..to : f[g] = ReplayAt(f, refs, log, from, g)

(* A replay exists for every log: one more record extends it. *)
LEMMA ReplayExists ==
    ASSUME NEW refs, NEW log, NEW from \in Nat, NEW to \in Nat, from <= to
    PROVE  \E f : Replays(f, refs, log, from, to)
<1> DEFINE T == {n \in from..to : ~ \E f : Replays(f, refs, log, from, n)}
<1> SUFFICES ASSUME T # {} PROVE FALSE
  OBVIOUS
<1>1. PICK n \in T : \A m \in T : n <= m
  <2>1. T \in SUBSET Nat
    OBVIOUS
  <2> HIDE DEF T
  <2> QED
    BY <2>1, LeastNumber
<1>2. n \in Nat /\ from <= n /\ n <= to /\ ~ \E f : Replays(f, refs, log, from, n)
  OBVIOUS
<1>3. CASE n = from
  <2> DEFINE f == [g \in from..from |-> refs]
  <2>1. Replays(f, refs, log, from, n)
    BY <1>3 DEF Replays, ReplayAt
  <2> QED
    BY <1>2, <2>1
<1>4. CASE n # from
  <2>1. n - 1 \in from..to /\ n - 1 \notin T
    BY <1>1, <1>2, <1>4
  <2>2. PICK f : Replays(f, refs, log, from, n - 1)
    BY <2>1
  <2> DEFINE h == [g \in from..n |-> IF g = n THEN Apply(f[n - 1], Rec(log, n)) ELSE f[g]]
  <2>3. ASSUME NEW g \in from..n
        PROVE  h[g] = ReplayAt(h, refs, log, from, g)
    <3>1. CASE g = n
      <4>1. h[n - 1] = f[n - 1]
        BY <1>2, <1>4
      <4>2. h[n] = Apply(f[n - 1], Rec(log, n))
        BY <1>2
      <4> HIDE DEF h
      <4> QED
        BY <1>4, <3>1, <4>1, <4>2 DEF ReplayAt
    <3>2. CASE g # n
      <4>1. g \in from..(n - 1) /\ h[g] = f[g]
        BY <1>2, <3>2
      <4>2. g # from => h[g - 1] = f[g - 1]
        BY <1>2, <3>2
      <4>3. f[g] = ReplayAt(f, refs, log, from, g)
        BY <2>2, <4>1 DEF Replays
      <4> HIDE DEF h
      <4> QED
        BY <4>1, <4>2, <4>3 DEF ReplayAt
    <3> QED
      BY <3>1, <3>2
  <2> HIDE DEF h
  <2>4. Replays(h, refs, log, from, n)
    BY <2>3 DEF Replays
  <2> QED
    BY <1>2, <2>4
<1> QED
  BY <1>3, <1>4

(* Two replays of the same records agree. *)
LEMMA ReplaysAgree ==
    ASSUME NEW refs, NEW log, NEW from \in Nat, NEW to \in Nat, NEW f, NEW h,
           Replays(f, refs, log, from, to), Replays(h, refs, log, from, to)
    PROVE  \A g \in from..to : f[g] = h[g]
<1> DEFINE T == {n \in from..to : f[n] # h[n]}
<1> SUFFICES ASSUME T # {} PROVE FALSE
  OBVIOUS
<1>1. PICK n \in T : \A m \in T : n <= m
  <2>1. T \in SUBSET Nat
    OBVIOUS
  <2> HIDE DEF T
  <2> QED
    BY <2>1, LeastNumber
<1>2. n \in Nat /\ n \in from..to /\ f[n] # h[n]
  OBVIOUS
<1>3. n # from => f[n - 1] = h[n - 1]
  BY <1>1, <1>2
<1>4. f[n] = ReplayAt(f, refs, log, from, n) /\ h[n] = ReplayAt(h, refs, log, from, n)
  BY <1>2 DEF Replays
<1> QED
  BY <1>2, <1>3, <1>4 DEF ReplayAt

(* Whatever satisfies the recursion gives what reconstruct computes. *)
LEMMA ReplayIs ==
    ASSUME NEW refs, NEW log, NEW from \in Nat, NEW to \in Nat, from <= to,
           NEW f, Replays(f, refs, log, from, to)
    PROVE  Replay(refs, log, from, to) = f[to]
<1> DEFINE Step(a, g) == IF g = from THEN refs ELSE Apply(a[g - 1], CHOOSE t \in log : t.gen = g)
           at == CHOOSE a : a = [g \in from..to |-> Step(a, g)]
           b == [g \in from..to |-> f[g]]
<1>1. Replay(refs, log, from, to) = at[to]
  BY DEF Replay
<1>2. b = [g \in from..to |-> Step(b, g)]
  <2>1. ASSUME NEW g \in from..to
        PROVE  b[g] = Step(b, g)
    <3>1. f[g] = ReplayAt(f, refs, log, from, g)
      BY DEF Replays
    <3>2. g # from => b[g - 1] = f[g - 1]
      OBVIOUS
    <3>3. b[g] = f[g]
      OBVIOUS
    <3> HIDE DEF b
    <3> QED
      BY <3>1, <3>2, <3>3 DEF ReplayAt, Rec
  <2> QED
    BY <2>1
<1> HIDE DEF b
<1>3. at = [g \in from..to |-> Step(at, g)]
  <2> HIDE DEF Step
  <2> QED
    BY <1>2
<1> HIDE DEF at
<1>4. Replays(at, refs, log, from, to)
  <2>1. ASSUME NEW g \in from..to
        PROVE  at[g] = Step(at, g)
    BY <1>3
  <2> QED
    BY <2>1 DEF Replays, ReplayAt, Rec
<1>5. at[to] = f[to]
  BY <1>4, ReplaysAgree
<1> QED
  BY <1>1, <1>5

(* The sequence of transactions is numbered by generation. *)
Indexed(ch) == ch \in Seq(Transaction) /\ \A i \in 1..Len(ch) : ch[i].gen = i

(* In a set that has one record of generation g, CHOOSE finds it. *)
LEMMA RecIs ==
    ASSUME NEW log, NEW t \in log, \A u \in log : u.gen = t.gen => u = t
    PROVE  Rec(log, t.gen) = t
  BY DEF Rec

(* The refs of one generation are those of the generation before with one  *)
(* transaction applied.                                                    *)
LEMMA RefsAtIs ==
    ASSUME NEW ch, Indexed(ch)
    PROVE  /\ RefsAt(ch, 0) = NoRefs
           /\ \A g \in 1..Len(ch) : RefsAt(ch, g) = Apply(RefsAt(ch, g - 1), ch[g])
<1> DEFINE log == {ch[i] : i \in 1..Len(ch)}
<1>1. Len(ch) \in Nat /\ 0 \in Nat /\ 0 <= Len(ch)
  BY DEF Indexed
<1>2. PICK f : Replays(f, NoRefs, log, 0, Len(ch))
  <2> HIDE DEF log
  <2> QED
    BY <1>1, ReplayExists, Zenon
<1>3. ASSUME NEW g \in 0..Len(ch)
      PROVE  RefsAt(ch, g) = f[g]
  <2>1. Replays(f, NoRefs, log, 0, g)
    BY <1>1, <1>2 DEF Replays
  <2> QED
    BY <1>1, <2>1, ReplayIs DEF RefsAt
<1>4. \A g \in 1..Len(ch) : Rec(log, g) = ch[g]
  <2> SUFFICES ASSUME NEW g \in 1..Len(ch)
               PROVE  Rec(log, g) = ch[g]
    OBVIOUS
  <2>1. ch[g] \in log /\ ch[g].gen = g /\ \A u \in log : u.gen = g => u = ch[g]
    BY DEF Indexed
  <2> HIDE DEF log
  <2> QED
    BY <2>1, RecIs
<1> HIDE DEF log
<1>5. RefsAt(ch, 0) = NoRefs
  BY <1>1, <1>2, <1>3 DEF Replays, ReplayAt
<1>6. ASSUME NEW g \in 1..Len(ch)
      PROVE  RefsAt(ch, g) = Apply(RefsAt(ch, g - 1), ch[g])
  <2>1. g \in 0..Len(ch) /\ g - 1 \in 0..Len(ch) /\ g # 0
    BY <1>1
  <2>2. f[g] = Apply(f[g - 1], Rec(log, g))
    BY <1>2, <2>1 DEF Replays, ReplayAt
  <2> QED
    BY <1>3, <1>4, <2>1, <2>2
<1> QED
  BY <1>5, <1>6

(* Replaying a log that has the records of ch above s, on top of the refs  *)
(* of generation s, rebuilds the refs of ch.                               *)
LEMMA ReplayOfSuffix ==
    ASSUME NEW ch, Indexed(ch), NEW s \in 0..Len(ch), NEW g \in s..Len(ch), NEW log,
           \A i \in (s + 1)..g : Rec(log, i) = ch[i]
    PROVE  Replay(RefsAt(ch, s), log, s, g) = RefsAt(ch, g)
<1> DEFINE f == [i \in s..g |-> RefsAt(ch, i)]
<1>1. Len(ch) \in Nat /\ s \in Nat /\ g \in Nat /\ s <= g
  BY DEF Indexed
<1>2. ASSUME NEW i \in s..g
      PROVE  f[i] = ReplayAt(f, RefsAt(ch, s), log, s, i)
  <2>1. f[i] = RefsAt(ch, i) /\ (i # s => f[i - 1] = RefsAt(ch, i - 1))
    BY <1>1
  <2> HIDE DEF f
  <2>2. CASE i = s
    BY <2>1, <2>2 DEF ReplayAt
  <2>3. CASE i # s
    <3>1. i \in (s + 1)..g /\ i \in 1..Len(ch)
      BY <1>1, <2>3
    <3> QED
      BY <2>1, <2>3, <3>1, RefsAtIs DEF ReplayAt
  <2> QED
    BY <2>2, <2>3
<1>3. f[g] = RefsAt(ch, g)
  BY <1>1
<1> HIDE DEF f
<1>4. Replays(f, RefsAt(ch, s), log, s, g)
  BY <1>2 DEF Replays
<1> QED
  BY <1>1, <1>3, <1>4, ReplayIs

(* A new transaction on top changes no earlier generation. *)
LEMMA RefsAtAppend ==
    ASSUME NEW ch, Indexed(ch), NEW t \in Transaction, t.gen = Len(ch) + 1
    PROVE  /\ Indexed(Append(ch, t)) /\ Len(Append(ch, t)) = Len(ch) + 1
           /\ Append(ch, t)[Len(ch) + 1] = t
           /\ \A i \in 1..Len(ch) : Append(ch, t)[i] = ch[i]
           /\ \A g \in 0..Len(ch) : RefsAt(Append(ch, t), g) = RefsAt(ch, g)
           /\ RefsAt(Append(ch, t), Len(ch) + 1) = Apply(RefsAt(ch, Len(ch)), t)
<1> DEFINE new == Append(ch, t)
<1>1. /\ new \in Seq(Transaction) /\ Len(new) = Len(ch) + 1 /\ Len(ch) \in Nat
      /\ new[Len(ch) + 1] = t /\ \A i \in 1..Len(ch) : new[i] = ch[i]
  BY DEF Indexed
<1> HIDE DEF new
<1>2. Indexed(new)
  BY <1>1 DEF Indexed
<1>3. ASSUME NEW g \in 0..Len(ch)
      PROVE  RefsAt(new, g) = RefsAt(ch, g)
  <2> DEFINE T == {n \in 0..Len(ch) : RefsAt(new, n) # RefsAt(ch, n)}
  <2> SUFFICES ASSUME T # {} PROVE FALSE
    OBVIOUS
  <2>1. PICK n \in T : \A m \in T : n <= m
    <3>1. T \in SUBSET Nat
      BY <1>1
    <3> HIDE DEF T
    <3> QED
      BY <3>1, LeastNumber
  <2>2. n \in 0..Len(ch) /\ RefsAt(new, n) # RefsAt(ch, n)
    OBVIOUS
  <2>3. n # 0
    BY <1>2, <2>2, RefsAtIs
  <2>4. n - 1 \in 0..Len(ch) /\ n \in 1..Len(ch) /\ n \in 1..Len(new) /\ n - 1 < n
    BY <1>1, <2>2, <2>3
  <2>5. RefsAt(new, n - 1) = RefsAt(ch, n - 1)
    BY <2>1, <2>4
  <2>6. RefsAt(ch, n) = Apply(RefsAt(ch, n - 1), ch[n]) /\ RefsAt(new, n) = Apply(RefsAt(new, n - 1), new[n])
    BY <1>2, <2>4, RefsAtIs
  <2> QED
    BY <1>1, <2>2, <2>4, <2>5, <2>6
<1>4. RefsAt(new, Len(ch) + 1) = Apply(RefsAt(ch, Len(ch)), t)
  <2>1. Len(ch) + 1 \in 1..Len(new) /\ Len(ch) \in 0..Len(ch) /\ Len(ch) + 1 - 1 = Len(ch)
    BY <1>1
  <2>2. RefsAt(new, Len(ch) + 1) = Apply(RefsAt(new, Len(ch) + 1 - 1), new[Len(ch) + 1])
    BY <1>2, <2>1, RefsAtIs
  <2> QED
    BY <1>1, <1>3, <2>1, <2>2
<1> QED
  BY <1>1, <1>2, <1>3, <1>4 DEF new

-----------------------------------------------------------------------------
(* What readers of HEAD find. *)

(* The pages that readers visit are published, and the walk finds each of  *)
(* the pages that it is led to.                                            *)
LEMMA LiveFacts ==
    ASSUME PublicationInv
    PROVE  LivePages(head) \subseteq DOMAIN pages \cap installed /\ Follows(LivePages(head), head)
<1> DEFINE P == DOMAIN pages \cap installed
<1>1. NoPage.last = 0 /\ head.floor \in Nat
  BY HeadFacts DEF PublicationInv, NoPage, TypeOK
<1>2. Follows(P, head)
  BY <1>1 DEF Follows, PublicationInv, HeadInv, PageInv, Published
<1>3. LivePages(head) \subseteq P
  BY <1>2 DEF LivePages
<1>4. head.tip.last > head.floor => head.tip.id \in LivePages(head)
  BY <1>2 DEF Follows, LivePages
<1>5. ASSUME NEW q \in LivePages(head), pages[q].prev.last > head.floor
      PROVE  pages[q].prev.id \in LivePages(head)
  BY <1>2, <1>3, <1>5 DEF Follows, LivePages
<1> QED
  BY <1>3, <1>4, <1>5 DEF Follows

(* The chain as a sequence of transactions numbered by generation. *)
LEMMA ChainFacts ==
    ASSUME PublicationInv
    PROVE  /\ Indexed(chain) /\ Len(chain) \in Nat /\ Len(chain) = head.gen
           /\ \A i \in 1..Len(chain) : chain[i] \in Transaction /\ chain[i].gen = i
  BY DEF PublicationInv, ChainInv, ChainGapFree, TypeOK, Indexed

(* The fields of a stored page. *)
LEMMA PageFacts ==
    ASSUME TypeOK, NEW q \in DOMAIN pages
    PROVE  /\ pages[q].last \in Nat /\ pages[q].prev \in PagePointer
           /\ pages[q].prev.last \in Nat /\ pages[q].txs \subseteq Transaction
  BY DEF TypeOK, Page, PagePointer

(* The tail of a HEAD begins at or above its floor. *)
LEMMA BaseFacts ==
    ASSUME NEW h \in HeadObject
    PROVE  Base(h) \in Nat /\ h.tip.last \in Nat
  BY DEF Base, HeadObject, PagePointer

(* Readers collect exactly the transactions above the floor.  Nothing else *)
(* is on their way; were one missing, the one after it would be in a page  *)
(* that either has it too or leads to the page that ends with it.          *)
LEMMA LogIs ==
    ASSUME PublicationInv, ReadInv, head # Absent
    PROVE  LogOf(head) = Records(chain, head.floor, head.gen)
<1>1. /\ Len(chain) \in Nat /\ Len(chain) = head.gen
      /\ \A i \in 1..Len(chain) : chain[i] \in Transaction /\ chain[i].gen = i
  BY ChainFacts
<1>2. TypeOK /\ head \in HeadObject /\ head.floor \in Nat /\ Base(head) \in Nat
  BY HeadFacts, BaseFacts DEF PublicationInv, TypeOK
<1>3. Sound(head, chain)
  BY DEF ReadInv
<1>4. LogOf(head) \subseteq Records(chain, head.floor, head.gen)
  <2> SUFFICES ASSUME NEW t \in LogOf(head)
               PROVE  t \in Records(chain, head.floor, head.gen)
    OBVIOUS
  <2>1. OnChain(t) /\ t.gen > head.floor
    BY LogIsOnChain DEF LogOnChain, LogOf
  <2>2. t.gen \in (head.floor + 1)..head.gen /\ chain[t.gen] = t
    BY <1>1, <1>2, <2>1 DEF OnChain
  <2> QED
    BY <2>2 DEF Records
<1>5. ASSUME NEW i \in (head.floor + 1)..head.gen
      PROVE  chain[i] \in LogOf(head)
  <2> DEFINE T == {k \in 0..head.gen : head.gen - k > head.floor /\ chain[head.gen - k] \notin LogOf(head)}
  <2> SUFFICES ASSUME chain[i] \notin LogOf(head)
               PROVE  FALSE
    OBVIOUS
  <2>0. T # {}
    <3>1. head.gen \in Nat /\ head.floor \in Nat
      BY <1>1, <1>2
    <3>2. i \in Nat /\ i > head.floor /\ i <= head.gen
      BY <3>1
    <3>3. head.gen - i \in 0..head.gen /\ head.gen - (head.gen - i) = i
      BY <3>1, <3>2
    <3>4. head.gen - i \in T
      BY <3>2, <3>3
    <3> QED
      BY <3>4
  <2>1. PICK k \in T : \A l \in T : k <= l
    <3>1. T \in SUBSET Nat
      BY <1>1
    <3> HIDE DEF T
    <3> QED
      BY <2>0, <3>1, LeastNumber
  <2>2. k \in 0..head.gen /\ head.gen - k > head.floor /\ chain[head.gen - k] \notin LogOf(head)
    OBVIOUS
  <2>3. PICK j : j = head.gen - k
    OBVIOUS
  <2>4. j \in 1..head.gen /\ j \in Nat /\ j > head.floor /\ chain[j] \notin LogOf(head) /\ chain[j].gen = j
    BY <1>1, <1>2, <2>2, <2>3
  <2>5. j # head.gen => chain[j + 1] \in LogOf(head)
    <3> SUFFICES ASSUME j # head.gen PROVE chain[j + 1] \in LogOf(head)
      OBVIOUS
    <3>1. k - 1 \in 0..head.gen /\ ~ (k <= k - 1) /\ head.gen - (k - 1) = j + 1
      BY <1>1, <2>2, <2>3
    <3>2. PICK l : l = k - 1
      OBVIOUS
    <3>3. l \notin T
      BY <2>1, <3>1, <3>2
    <3>4. l \in 0..head.gen /\ head.gen - l > head.floor /\ head.gen - l = j + 1
      BY <1>2, <2>4, <3>1, <3>2
    <3> QED
      BY <3>3, <3>4
  <2> HIDE DEF T
  (* A record that a visited page or the tail has is found. *)
  <2>6. chain[j] \notin head.tail /\ \A q \in LivePages(head) : chain[j] \notin pages[q].txs
    BY <2>4 DEF LogOf
  <2>7. j <= Base(head)
    BY <1>1, <1>2, <1>3, <2>4, <2>6 DEF Sound, Records
  <2>8. \A q \in LivePages(head) : q \in DOMAIN pages /\ PageSound(q, chain, head.floor)
    BY LiveFacts DEF ReadInv
  (* No page that is visited ends at j. *)
  <2>9. \A q \in LivePages(head) : pages[q].last # j
    <3> SUFFICES ASSUME NEW q \in LivePages(head), pages[q].last = j
                 PROVE  FALSE
      OBVIOUS
    <3>1. PICK from \in 0..(pages[q].last - 1) : pages[q].txs = Records(chain, from, pages[q].last)
      BY <2>8 DEF PageSound
    <3>2. j \in (from + 1)..pages[q].last
      BY <2>4, <3>1
    <3> QED
      BY <2>6, <3>1, <3>2 DEF Records
  <2>10. Base(head) # j
    <3> SUFFICES ASSUME Base(head) = j PROVE FALSE
      OBVIOUS
    <3>1. head.tip # NoPage /\ head.tip.last = j
      BY <2>4 DEF Base
    <3>2. head.tip.id \in LivePages(head) /\ pages[head.tip.id].last = j
      BY <1>3, <2>4, <3>1, LiveFacts DEF Follows, Sound, Leads
    <3> QED
      BY <2>9, <3>2
  <2>11. j + 1 \in 1..head.gen /\ chain[j + 1].gen = j + 1 /\ chain[j + 1] \in LogOf(head)
    BY <1>1, <1>2, <1>3, <2>4, <2>5, <2>7, <2>10 DEF Sound
  <2>12. chain[j + 1] \notin head.tail
    <3> SUFFICES ASSUME chain[j + 1] \in head.tail PROVE FALSE
      OBVIOUS
    <3>1. PICK l \in (Base(head) + 1)..head.gen : chain[j + 1] = chain[l]
      BY <1>3 DEF Sound, Records
    <3>2. l \in 1..Len(chain) /\ chain[l].gen = l
      BY <1>1, <1>2, <3>1
    <3> QED
      BY <1>1, <1>2, <2>4, <2>7, <2>10, <2>11, <3>1, <3>2
  <2>13. PICK q \in LivePages(head) : chain[j + 1] \in pages[q].txs
    BY <2>11, <2>12 DEF LogOf
  <2>14. PICK from \in 0..(pages[q].last - 1) :
           /\ pages[q].last <= Len(chain) /\ pages[q].txs = Records(chain, from, pages[q].last)
           /\ IF pages[q].prev = NoPage THEN from <= head.floor
              ELSE from = pages[q].prev.last /\ Leads(pages[q].prev)
    BY <2>8 DEF PageSound
  <2>15. pages[q].last \in Nat /\ from \in Nat
    BY <1>2, <2>8, PageFacts
  <2>16. PICK l \in (from + 1)..pages[q].last : chain[j + 1] = chain[l]
    BY <2>13, <2>14 DEF Records
  <2>17. l = j + 1
    BY <1>1, <2>11, <2>14, <2>15, <2>16
  <2>18. ~ (j \in (from + 1)..pages[q].last)
    BY <2>6, <2>14 DEF Records
  <2>19. from = j
    BY <2>4, <2>15, <2>16, <2>17, <2>18
  <2>20. pages[q].prev # NoPage /\ pages[q].prev.last = j /\ Leads(pages[q].prev)
    BY <1>2, <2>4, <2>14, <2>19
  <2>21. pages[q].prev.id \in LivePages(head) /\ pages[pages[q].prev.id].last = j
    BY <2>4, <2>20, LiveFacts DEF Follows, Leads
  <2> QED
    BY <2>9, <2>21
<1>6. Records(chain, head.floor, head.gen) \subseteq LogOf(head)
  BY <1>5 DEF Records
<1> QED
  BY <1>4, <1>6

(* readObject's ref map is the replay of the whole chain. *)
LEMMA RefsAre ==
    ASSUME PublicationInv, ReadInv
    PROVE  /\ RefsOf(head) = RefsAt(chain, Len(chain))
           /\ RefsOf(head) \in RefMaps
<1>1. Indexed(chain) /\ Len(chain) \in Nat /\ Len(chain) = head.gen
      /\ \A i \in 1..Len(chain) : chain[i].gen = i
  BY ChainFacts
<1>2. RefsAt(chain, Len(chain)) \in RefMaps
  BY <1>1 DEF ReadInv
<1>3. CASE head = Absent
  <2>1. head.rev = 0 /\ head.gen = 0
    BY <1>3 DEF Absent
  <2> QED
    BY <1>1, <1>2, <2>1, RefsAtIs DEF RefsOf
<1>4. CASE head # Absent
  <2>1. head \in HeadObject /\ head.rev \in Nat /\ head.snap.gen \in Nat /\ head.floor \in Nat
    BY HeadFacts DEF PublicationInv, TypeOK
  <2>2. Sound(head, chain) /\ LogOf(head) = Records(chain, head.floor, head.gen)
    BY <1>4, LogIs DEF ReadInv
  <2>3. /\ head.rev # 0 /\ head.floor <= head.snap.gen /\ head.snap.gen <= head.gen
        /\ snaps[head.snap.id] = [gen |-> head.snap.gen, refs |-> RefsAt(chain, head.snap.gen)]
    BY <2>1, <2>2 DEF Sound
  <2>4. ASSUME NEW i \in (head.snap.gen + 1)..head.gen
        PROVE  Rec(LogOf(head), i) = chain[i]
    <3>1. i \in (head.floor + 1)..head.gen /\ i \in 1..Len(chain) /\ chain[i].gen = i
      BY <1>1, <2>1, <2>3
    <3>2. chain[i] \in LogOf(head)
      BY <2>2, <3>1 DEF Records
    <3>3. \A u \in LogOf(head) : u.gen = i => u = chain[i]
      <4>1. \A j \in (head.floor + 1)..head.gen : chain[j].gen = j
        BY <1>1, <2>1
      <4>2. \A u \in LogOf(head) : \E j \in (head.floor + 1)..head.gen : u = chain[j]
        BY <2>2 DEF Records
      <4> QED
        BY <4>1, <4>2
    <3> QED
      BY <3>1, <3>2, <3>3, RecIs
  <2>5. head.snap.gen \in 0..Len(chain) /\ head.gen \in head.snap.gen..Len(chain)
    BY <1>1, <2>1, <2>3
  <2>6. Replay(RefsAt(chain, head.snap.gen), LogOf(head), head.snap.gen, head.gen) = RefsAt(chain, head.gen)
    BY <1>1, <2>4, <2>5, ReplayOfSuffix
  <2>7. RefsOf(head) = RefsAt(chain, head.gen)
    BY <2>3, <2>6 DEF RefsOf
  <2> QED
    BY <1>1, <1>2, <2>7
<1> QED
  BY <1>3, <1>4

-----------------------------------------------------------------------------
(* HEAD is readable. *)

(* The records of a range of generations: one for each. *)
LEMMA RecordsFacts ==
    ASSUME NEW ch, Indexed(ch), NEW from \in Nat, NEW to \in Nat, from <= to, to <= Len(ch)
    PROVE  /\ IsFiniteSet(Records(ch, from, to)) /\ Cardinality(Records(ch, from, to)) = to - from
           /\ {t.gen : t \in Records(ch, from, to)} = (from + 1)..to
           /\ \A t \in Records(ch, from, to) : t.gen \in (from + 1)..to /\ t = ch[t.gen]
           /\ \A i \in (from + 1)..to : ch[i] \in Records(ch, from, to)
<1> DEFINE S == (from + 1)..to
           R == Records(ch, from, to)
           f == [i \in S |-> ch[i]]
<1>1. Len(ch) \in Nat /\ \A i \in S : ch[i].gen = i
  BY DEF Indexed
<1>2. R = {ch[i] : i \in S}
  BY DEF Records
<1>3. \A t \in R : t.gen \in S /\ t = ch[t.gen]
  BY <1>1, <1>2
<1>4. \A i \in S : ch[i] \in R /\ ch[i].gen = i
  BY <1>1, <1>2
<1>5. {t.gen : t \in R} = S
  <2> HIDE DEF S, R
  <2> QED
    BY <1>3, <1>4
<1>6. f \in Bijection(S, R)
  <2>1. f \in [S -> R]
    BY <1>4
  <2>2. \A i, j \in S : f[i] = f[j] => i = j
    BY <1>1
  <2>3. \A t \in R : \E i \in S : f[i] = t
    BY <1>3
  <2> HIDE DEF S, R, f
  <2> QED
    BY <2>1, <2>2, <2>3 DEF Bijection, Injection, Surjection, IsInjective
<1>7. IsFiniteSet(S) /\ Cardinality(S) = to - from
  <2>1. from + 1 \in Int /\ to \in Int /\ (from + 1 > to => to - from = 0) /\ to - (from + 1) + 1 = to - from
    OBVIOUS
  <2>2. IsFiniteSet(S) /\ Cardinality(S) = IF from + 1 > to THEN 0 ELSE to - (from + 1) + 1
    BY <2>1, FS_Interval
  <2> QED
    BY <2>1, <2>2
<1>8. ExistsBijection(S, R)
  BY <1>6 DEF ExistsBijection
<1>9. IsFiniteSet(R) /\ Cardinality(R) = to - from
  <2> HIDE DEF S, R
  <2> QED
    BY <1>7, <1>8, FS_Bijection
<1> QED
  BY <1>3, <1>4, <1>5, <1>9

(* Each transaction names the one before it as its parent. *)
LEMMA ParentIs ==
    ASSUME PublicationInv, NEW i \in 1..Len(chain)
    PROVE  chain[i].parent = TxAt(chain, i - 1)
<1>1. Len(chain) \in Nat /\ chain[i].parent = IF i = 1 THEN None ELSE chain[i - 1].id
  BY ChainFacts DEF PublicationInv, ChainInv, ChainGapFree
<1> QED
  BY <1>1 DEF TxAt

(* A page that readers visit passes readPage's checks if it fits. *)
LEMMA PagePasses ==
    ASSUME PublicationInv, NEW q \in DOMAIN pages, NEW floor, PageSound(q, chain, floor),
           Cardinality(pages[q].txs) <= MaxRecords
    PROVE  /\ Cardinality(pages[q].txs) \in 1..MaxRecords
           /\ pages[q].prev # NoPage =>
                {pages[q].prev.last + 1} = {t.gen : t \in pages[q].txs} \ {t.gen + 1 : t \in pages[q].txs}
<1>1. Indexed(chain) /\ Len(chain) \in Nat
  BY ChainFacts
<1>2. pages[q].last \in Nat
  BY PageFacts DEF PublicationInv
<1>3. PICK from \in 0..(pages[q].last - 1) :
        /\ pages[q].last <= Len(chain) /\ pages[q].txs = Records(chain, from, pages[q].last)
        /\ pages[q].prev # NoPage => from = pages[q].prev.last
  BY DEF PageSound
<1>4. from \in Nat /\ from < pages[q].last /\ from <= pages[q].last
  BY <1>2, <1>3
<1>5. /\ Cardinality(pages[q].txs) = pages[q].last - from
      /\ {t.gen : t \in pages[q].txs} = (from + 1)..pages[q].last
  BY <1>1, <1>2, <1>3, <1>4, RecordsFacts
<1>6. Cardinality(pages[q].txs) \in 1..MaxRecords
  BY <1>2, <1>4, <1>5, BoundAssumption
<1>7. {from + 1} = {t.gen : t \in pages[q].txs} \ {t.gen + 1 : t \in pages[q].txs}
  <2> DEFINE G == {t.gen : t \in pages[q].txs}
             H == {t.gen + 1 : t \in pages[q].txs}
  <2>1. \A k : k \in H <=> \E g \in G : k = g + 1
    OBVIOUS
  <2>2. G = (from + 1)..pages[q].last
    BY <1>5
  <2> HIDE DEF G, H
  <2>3. \A k : k \in H <=> k \in (from + 2)..(pages[q].last + 1)
    <3>1. ASSUME NEW k \in H PROVE k \in (from + 2)..(pages[q].last + 1)
      BY <1>2, <1>4, <2>1, <2>2
    <3>2. ASSUME NEW k \in (from + 2)..(pages[q].last + 1) PROVE k \in H
      <4>1. k - 1 \in G /\ k = (k - 1) + 1
        BY <1>2, <1>4, <2>2
      <4> QED
        BY <2>1, <4>1
    <3> QED
      BY <3>1, <3>2
  <2>4. \A k : k \in G \ H <=> k = from + 1
    BY <1>2, <1>4, <2>2, <2>3
  <2>5. {from + 1} = G \ H
    BY <2>4
  <2> QED
    BY <2>5 DEF G, H
<1> QED
  BY <1>3, <1>6, <1>7

(* collectTransactions accepts HEAD's log. *)
LEMMA HeadCollects ==
    ASSUME PublicationInv, ReadInv, head # Absent, PagesFit
    PROVE  Collects(head)
<1> DEFINE log == LogOf(head)
           IdAt(g) == IF g = head.floor THEN {head.floorTx} ELSE {t.id : t \in {u \in log : u.gen = g}}
<1>1. Indexed(chain) /\ Len(chain) \in Nat /\ Len(chain) = head.gen /\ head.floor \in Nat
  BY ChainFacts, HeadFacts DEF PublicationInv, TypeOK
<1>2. Sound(head, chain) /\ log = Records(chain, head.floor, head.gen)
  BY LogIs DEF ReadInv
<1>3. /\ head.floor <= head.gen /\ head.floorTx = TxAt(chain, head.floor)
      /\ head.tx = TxAt(chain, head.gen)
  <2>1. head.snap.gen \in Nat /\ head.floor <= head.snap.gen /\ head.snap.gen <= head.gen
    BY <1>2, HeadFacts DEF Sound, PublicationInv, TypeOK
  <2> QED
    BY <1>1, <1>2, <2>1 DEF Sound
<1>4. /\ Cardinality(log) = head.gen - head.floor
      /\ {t.gen : t \in log} = (head.floor + 1)..head.gen
      /\ \A t \in log : t.gen \in (head.floor + 1)..head.gen /\ t = chain[t.gen]
      /\ \A i \in (head.floor + 1)..head.gen : chain[i] \in log
  <2>1. head.gen \in Nat /\ head.gen <= Len(chain)
    BY <1>1
  <2> QED
    BY <1>1, <1>2, <1>3, <2>1, RecordsFacts
<1>5. ASSUME NEW q \in LivePages(head)
      PROVE  /\ Cardinality(pages[q].txs) \in 1..MaxRecords
             /\ pages[q].prev # NoPage =>
                  {pages[q].prev.last + 1} = {t.gen : t \in pages[q].txs} \ {t.gen + 1 : t \in pages[q].txs}
  <2>1. q \in DOMAIN pages /\ PageSound(q, chain, head.floor) /\ Cardinality(pages[q].txs) <= MaxRecords
    BY LiveFacts DEF ReadInv, PagesFit
  <2> QED
    BY <2>1, PagePasses
<1> HIDE DEF log
<1>6. ASSUME NEW g \in head.floor..head.gen
      PROVE  IdAt(g) = {TxAt(chain, g)}
  <2>1. CASE g = head.floor
    BY <1>3, <2>1
  <2>2. CASE g # head.floor
    <3>1. g \in (head.floor + 1)..head.gen /\ g \in 1..Len(chain) /\ g # 0
      BY <1>1, <2>2
    <3>2. chain[g] \in log /\ chain[g].gen = g
      BY <1>1, <1>4, <3>1 DEF Indexed
    <3>3. {u \in log : u.gen = g} = {chain[g]}
      BY <1>4, <3>2
    <3> QED
      BY <2>2, <3>1, <3>3 DEF TxAt
  <2> QED
    BY <2>1, <2>2
<1>7. ASSUME NEW t \in log
      PROVE  IdAt(t.gen - 1) = {t.parent}
  <2>1. t.gen \in (head.floor + 1)..head.gen /\ t = chain[t.gen]
    BY <1>4
  <2>2. t.gen \in 1..Len(chain) /\ t.gen - 1 \in head.floor..head.gen
    BY <1>1, <2>1
  <2>3. t.parent = TxAt(chain, t.gen - 1)
    BY <2>1, <2>2, ParentIs
  <2> QED
    BY <1>6, <2>2, <2>3
<1>8. IdAt(head.gen) = {head.tx}
  <2>1. head.gen \in head.floor..head.gen
    BY <1>1, <1>3
  <2> QED
    BY <1>3, <1>6, <2>1
<1>9. Follows(LivePages(head), head)
  BY LiveFacts
<1> QED
  BY <1>4, <1>5, <1>7, <1>8, <1>9 DEF Collects, log

(* readObject succeeds on HEAD unless a page is too long for it. *)
LEMMA HeadReads ==
    ASSUME PublicationInv, ReadInv, head # Absent, PagesFit
    PROVE  Readable(head)
<1>1. /\ Sound(head, chain) /\ RefsOf(head) = RefsAt(chain, Len(chain))
      /\ RefsOf(head) \in RefMaps /\ Len(chain) = head.gen
  BY RefsAre, ChainFacts DEF ReadInv
<1>2. head.snap.id \in DOMAIN snaps /\ snaps[head.snap.id].gen = head.snap.gen
  BY <1>1 DEF Sound
<1>3. head.sym # None => RefsOf(head)[head.sym] # None
  BY <1>1 DEF Sound
<1> QED
  BY <1>1, <1>2, <1>3, HeadCollects DEF Readable

-----------------------------------------------------------------------------
(* ReadInv with the stored objects as parameters, to compare two states. *)

LeadsIn(pg, p) == p = NoPage \/ (p.id \in DOMAIN pg /\ pg[p.id].last = p.last)

PageIn(pg, q, ch, floor) ==
    \E from \in 0..(pg[q].last - 1) :
        /\ pg[q].last <= Len(ch) /\ pg[q].txs = Records(ch, from, pg[q].last)
        /\ IF pg[q].prev = NoPage THEN from <= floor
           ELSE from = pg[q].prev.last /\ LeadsIn(pg, pg[q].prev)

SoundIn(pg, sn, ids, h, ch) ==
    /\ h.rev >= 1 /\ h.gen >= 1 /\ h.gen = Len(ch)
    /\ h.floor <= h.snap.gen /\ h.snap.gen <= h.gen
    /\ h.floorTx = TxAt(ch, h.floor) /\ h.tx = TxAt(ch, h.gen)
    /\ LeadsIn(pg, h.tip) /\ h.floor <= Base(h) /\ Base(h) <= h.gen
    /\ h.tip # NoPage => h.floor < h.tip.last
    /\ h.tail = Records(ch, Base(h), h.gen)
    /\ h.snap.id \in DOMAIN sn \cap (ids \cup {h.pub})
    /\ sn[h.snap.id] = [gen |-> h.snap.gen, refs |-> RefsAt(ch, h.snap.gen)]
    /\ h.sym # None => RefsAt(ch, h.gen)[h.sym] # None

WithTx(ch, tx) == IF tx = NoTx THEN ch ELSE Append(ch, tx)

(* The symbolic HEAD after a push, initialize or an administrator's step. *)
SymAfter(hd, h, tx) ==
    IF tx = NoTx THEN h.sym \in {hd.sym} \cup Refs
    ELSE IF hd = Absent THEN h.sym \in Refs
    ELSE IF hd.sym \in DOMAIN tx.updates /\ tx.updates[hd.sym].new = None
    THEN h.sym = None
    ELSE h.sym = hd.sym

ReadyIn(pg, sn, ids, hd, ch, h, tx) ==
    /\ SoundIn(pg, sn, ids, h, WithTx(ch, tx))
    /\ SymAfter(hd, h, tx)
    /\ tx # NoTx =>
        /\ Apply(RefsAt(ch, Len(ch)), tx) \in RefMaps
        /\ tx.id \in DOMAIN pg => PageIn(pg, tx.id, WithTx(ch, tx), h.floor)

LEMMA ReadyIs ==
    ASSUME NEW r
    PROVE  Ready(r) <=> ReadyIn(pages, snaps, installed, head, chain, r.head, r.tx)
<1>1. Sound(r.head, ChainWith(r)) <=> SoundIn(pages, snaps, installed, r.head, WithTx(chain, r.tx))
  BY DEF Sound, SoundIn, Leads, LeadsIn, ChainWith, WithTx
<1>2. PageSound(r.tx.id, ChainWith(r), r.head.floor) <=> PageIn(pages, r.tx.id, WithTx(chain, r.tx), r.head.floor)
  BY DEF PageSound, PageIn, Leads, LeadsIn, ChainWith, WithTx
<1> QED
  BY <1>1, <1>2 DEF Ready, ReadyIn, SymAfter

(* The parts of ReadInv, in a state and in the next. *)
LEMMA ReadInvIs ==
    ASSUME ReadInv
    PROVE  /\ head # Absent => SoundIn(pages, snaps, installed, head, chain)
           /\ \A i \in 0..Len(chain) : RefsAt(chain, i) \in RefMaps
           /\ \A q \in DOMAIN pages \cap installed : PageIn(pages, q, chain, head.floor)
           /\ \A r \in Requests : r.match = head.pub => ReadyIn(pages, snaps, installed, head, chain, r.head, r.tx)
           /\ OwnInv
<1>1. head # Absent => SoundIn(pages, snaps, installed, head, chain)
  BY DEF ReadInv, Sound, SoundIn, Leads, LeadsIn
<1>2. \A q \in DOMAIN pages \cap installed : PageIn(pages, q, chain, head.floor)
  BY DEF ReadInv, PageSound, PageIn, Leads, LeadsIn
<1>3. \A r \in Requests : r.match = head.pub => ReadyIn(pages, snaps, installed, head, chain, r.head, r.tx)
  BY ReadyIs DEF ReadInv, ETag
<1> QED
  BY <1>1, <1>2, <1>3 DEF ReadInv

LEMMA ReadInvNext ==
    ASSUME head' # Absent => SoundIn(pages', snaps', installed', head', chain'),
           \A i \in 0..Len(chain') : RefsAt(chain', i) \in RefMaps,
           \A q \in DOMAIN pages' \cap installed' : PageIn(pages', q, chain', head'.floor),
           \A r \in Requests' : r.match = head'.pub =>
              ReadyIn(pages', snaps', installed', head', chain', r.head, r.tx),
           OwnInv'
    PROVE  ReadInv'
<1>1. (head # Absent => Sound(head, chain))'
  BY DEF Sound, SoundIn, Leads, LeadsIn
<1>2. (\A q \in DOMAIN pages \cap installed : PageSound(q, chain, head.floor))'
  BY DEF PageSound, PageIn, Leads, LeadsIn
<1>3. (\A r \in Requests : r.match = ETag(head) => Ready(r))'
  <2> SUFFICES ASSUME NEW r \in Requests', r.match = head'.pub
               PROVE  Ready(r)'
    BY DEF ETag
  <2>0. ReadyIn(pages', snaps', installed', head', chain', r.head, r.tx)
    OBVIOUS
  <2>1. Sound(r.head, ChainWith(r))' <=> SoundIn(pages', snaps', installed', r.head, WithTx(chain', r.tx))
    BY DEF Sound, SoundIn, Leads, LeadsIn, ChainWith, WithTx
  <2>2. PageSound(r.tx.id, ChainWith(r), r.head.floor)' <=> PageIn(pages', r.tx.id, WithTx(chain', r.tx), r.head.floor)
    BY DEF PageSound, PageIn, Leads, LeadsIn, ChainWith, WithTx
  <2>3. SymAfter(head', r.head, r.tx) /\ SoundIn(pages', snaps', installed', r.head, WithTx(chain', r.tx))
    BY <2>0 DEF ReadyIn
  <2>4. r.tx # NoTx =>
        /\ Apply(RefsAt(chain', Len(chain')), r.tx) \in RefMaps
        /\ r.tx.id \in DOMAIN pages' => PageIn(pages', r.tx.id, WithTx(chain', r.tx), r.head.floor)
    BY <2>0 DEF ReadyIn
  <2> QED
    BY <2>1, <2>2, <2>3, <2>4 DEF Ready, SymAfter
<1> QED
  BY <1>1, <1>2, <1>3 DEF ReadInv

-----------------------------------------------------------------------------
(* How ReadInv survives the kinds of steps there are. *)

(* ch2 continues ch, and pg2 keeps the pages of pg. *)
Continues(ch2, ch) == Len(ch) <= Len(ch2) /\ \A i \in 1..Len(ch) : ch2[i] = ch[i]
Keeps(pg2, pg) == \A q \in DOMAIN pg : q \in DOMAIN pg2 /\ pg2[q] = pg[q]

LEMMA SameRecords ==
    ASSUME NEW ch, NEW ch2, Continues(ch2, ch), Len(ch) \in Nat,
           NEW from \in Nat, NEW to \in Nat, to <= Len(ch)
    PROVE  Records(ch2, from, to) = Records(ch, from, to)
<1>1. \A i \in (from + 1)..to : ch2[i] = ch[i]
  BY DEF Continues
<1> QED
  BY <1>1 DEF Records

(* A sound page stays sound. *)
LEMMA PageKept ==
    ASSUME NEW pg, NEW pg2, Keeps(pg2, pg), NEW q \in DOMAIN pg, pg[q].last \in Nat,
           NEW ch, NEW ch2, Continues(ch2, ch), Len(ch) \in Nat, Len(ch2) \in Nat,
           NEW floor \in Nat, NEW floor2 \in Nat, floor <= floor2, PageIn(pg, q, ch, floor)
    PROVE  PageIn(pg2, q, ch2, floor2)
<1>1. PICK from \in 0..(pg[q].last - 1) :
        /\ pg[q].last <= Len(ch) /\ pg[q].txs = Records(ch, from, pg[q].last)
        /\ IF pg[q].prev = NoPage THEN from <= floor
           ELSE from = pg[q].prev.last /\ LeadsIn(pg, pg[q].prev)
  BY DEF PageIn
<1>2. pg2[q] = pg[q] /\ from \in Nat
  BY <1>1 DEF Keeps
<1>3. Records(ch2, from, pg[q].last) = Records(ch, from, pg[q].last)
  BY <1>1, <1>2, SameRecords
<1>4. pg[q].last <= Len(ch2)
  BY <1>1 DEF Continues
<1>5. IF pg[q].prev = NoPage THEN from <= floor2
      ELSE from = pg[q].prev.last /\ LeadsIn(pg2, pg[q].prev)
  BY <1>1, <1>2 DEF LeadsIn, Keeps
<1> QED
  BY <1>1, <1>2, <1>3, <1>4, <1>5 DEF PageIn

(* A sound HEAD stays sound while its snapshot is kept. *)
LEMMA SoundKept ==
    ASSUME NEW pg, NEW pg2, Keeps(pg2, pg), NEW sn, NEW sn2, NEW ids, NEW h, NEW ch,
           SoundIn(pg, sn, ids, h, ch),
           h.snap.id \in DOMAIN sn2 /\ sn2[h.snap.id] = sn[h.snap.id]
    PROVE  SoundIn(pg2, sn2, ids, h, ch)
<1>1. LeadsIn(pg2, h.tip)
  BY DEF SoundIn, LeadsIn, Keeps
<1> QED
  BY <1>1 DEF SoundIn

(* HEAD stays; objects are stored and requests sent under unused ids. *)
LEMMA KeepReads ==
    ASSUME PublicationInv, ReadInv, UNCHANGED <<head, chain, installed>>,
           Keeps(pages', pages),
           \A q \in DOMAIN pages' : q \in Used => q \in DOMAIN pages,
           \A s \in DOMAIN snaps : s \in Used => s \in DOMAIN snaps' /\ snaps'[s] = snaps[s],
           \A r \in Requests' \ Requests : r.match = head.pub =>
             ReadyIn(pages', snaps', installed, head, chain, r.head, r.tx),
           OwnInv'
    PROVE  ReadInv'
<1>1. /\ head # Absent => SoundIn(pages, snaps, installed, head, chain)
      /\ \A i \in 0..Len(chain) : RefsAt(chain, i) \in RefMaps
      /\ \A q \in DOMAIN pages \cap installed : PageIn(pages, q, chain, head.floor)
      /\ \A r \in Requests : r.match = head.pub => ReadyIn(pages, snaps, installed, head, chain, r.head, r.tx)
  BY ReadInvIs
<1>2. Len(chain) \in Nat /\ head.floor \in Nat /\ Continues(chain, chain)
  BY ChainFacts, HeadFacts DEF PublicationInv, TypeOK, Continues
<1>3. head # Absent => SoundIn(pages', snaps', installed, head, chain)
  <2> SUFFICES ASSUME head # Absent PROVE SoundIn(pages', snaps', installed, head, chain)
    OBVIOUS
  <2>1. head.snap.id \in DOMAIN snaps /\ head.snap.id \in Used
    BY <1>1 DEF SoundIn, Used, PublicationInv, HeadInv
  <2> QED
    BY <1>1, <2>1, SoundKept
<1>4. ASSUME NEW q \in DOMAIN pages' \cap installed
      PROVE  PageIn(pages', q, chain, head.floor)
  <2>1. q \in DOMAIN pages \cap installed /\ pages[q].last \in Nat
    BY PageFacts DEF Used, PublicationInv
  <2>2. PageIn(pages, q, chain, head.floor) /\ head.floor <= head.floor
    BY <1>1, <1>2, <2>1
  <2> QED
    BY <1>2, <2>1, <2>2, PageKept
<1>5. ASSUME NEW r \in Requests, r.match = head.pub
      PROVE  ReadyIn(pages', snaps', installed, head, chain, r.head, r.tx)
  <2>1. ReadyIn(pages, snaps, installed, head, chain, r.head, r.tx)
    BY <1>1, <1>5
  <2>2. /\ r.head.pub \in Used
        /\ r.tx # NoTx => r.tx.id = r.head.pub /\ r.tx \in Transaction
        /\ r.tx # NoTx => r.tx.gen = Len(chain) + 1
        /\ r.head.floor \in Nat
    <3>1. /\ r.head.pub \in Used
          /\ r.tx # NoTx => r.tx.id = r.head.pub
          /\ r \in PutRequest /\ Succeeds(r, head) /\ Len(chain) = head.gen
      BY <1>5, ChainFacts, RequestsType DEF Used, PublicationInv, RequestInv, ETag
    <3>2. r.head \in HeadObject /\ (r.tx # NoTx => r.tx \in Transaction)
      BY <3>1 DEF PutRequest
    <3>3. r.tx # NoTx => r.tx.gen = Len(chain) + 1
      BY <3>1 DEF Succeeds
    <3> QED
      BY <3>1, <3>2, <3>3, HeadFacts
  <2>3. SoundIn(pages', snaps', installed, r.head, WithTx(chain, r.tx))
    <3>1. SoundIn(pages, snaps, installed, r.head, WithTx(chain, r.tx))
      BY <2>1 DEF ReadyIn
    <3>2. r.head.snap.id \in DOMAIN snaps /\ r.head.snap.id \in Used
      BY <2>2, <3>1 DEF SoundIn, Used
    <3> QED
      BY <3>1, <3>2, SoundKept
  <2>4. ASSUME r.tx # NoTx, r.tx.id \in DOMAIN pages'
        PROVE  PageIn(pages', r.tx.id, WithTx(chain, r.tx), r.head.floor)
    <3>1. r.tx.id \in DOMAIN pages /\ pages[r.tx.id].last \in Nat
      BY <2>2, <2>4, PageFacts DEF PublicationInv
    <3>2. PageIn(pages, r.tx.id, WithTx(chain, r.tx), r.head.floor)
      BY <2>1, <2>4, <3>1 DEF ReadyIn
    <3>3. PICK ch : ch = WithTx(chain, r.tx)
      OBVIOUS
    <3>4. ch = Append(chain, r.tx) /\ Indexed(chain)
      BY <2>4, <3>3, ChainFacts DEF WithTx
    <3>5. Len(ch) \in Nat
      BY <1>2, <2>2, <2>4, <3>4, RefsAtAppend
    <3>6. Continues(ch, ch) /\ r.head.floor <= r.head.floor
      BY <2>2, <3>5 DEF Continues
    <3> QED
      BY <2>2, <3>1, <3>2, <3>3, <3>5, <3>6, PageKept
  <2> QED
    BY <2>1, <2>3, <2>4 DEF ReadyIn
<1>6. \A r \in Requests' : r.match = head.pub => ReadyIn(pages', snaps', installed, head, chain, r.head, r.tx)
  BY <1>5
<1> QED
  BY <1>1, <1>3, <1>4, <1>6, ReadInvNext

(* The store installs r: the next HEAD is r's, and no other request is for it. *)
LEMMA InstallReads ==
    ASSUME PublicationInv, ReadInv, NEW r \in Requests, Matches(r), Install(r),
           UNCHANGED <<pages, snaps>>, Requests' \subseteq Requests, OwnInv'
    PROVE  ReadInv'
<1>1. /\ \A i \in 0..Len(chain) : RefsAt(chain, i) \in RefMaps
      /\ \A q \in DOMAIN pages \cap installed : PageIn(pages, q, chain, head.floor)
      /\ ReadyIn(pages, snaps, installed, head, chain, r.head, r.tx)
  BY ReadInvIs DEF Matches, ETag
<1>2. /\ r \in PutRequest /\ Succeeds(r, head) /\ r.head.pub \notin installed \cup {None}
      /\ r.tx # NoTx => r.tx.id = r.head.pub
      /\ \A x \in Requests : x.match \in installed \cup {None}
  BY RequestsType, NoneAssumption DEF Matches, ETag, PublicationInv, RequestInv
<1>3. /\ head' = r.head /\ installed' = installed \cup {r.head.pub}
      /\ chain' = WithTx(chain, r.tx)
  BY DEF Install, WithTx
<1>4. /\ Indexed(chain) /\ Len(chain) \in Nat /\ Len(chain) = head.gen
      /\ head.floor \in Nat /\ r.head.floor \in Nat /\ head.floor <= r.head.floor
      /\ r.tx # NoTx => r.tx \in Transaction /\ r.tx.gen = Len(chain) + 1
  BY <1>2, ChainFacts, HeadFacts DEF PutRequest, Succeeds, PublicationInv, TypeOK
<1>5. /\ Len(chain') \in Nat /\ Continues(chain', chain)
      /\ \A i \in 0..Len(chain') : RefsAt(chain', i) \in RefMaps
  <2>1. CASE r.tx = NoTx
    BY <1>1, <1>3, <1>4, <2>1 DEF WithTx, Continues
  <2>2. CASE r.tx # NoTx
    <3>1. /\ chain' = Append(chain, r.tx) /\ Apply(RefsAt(chain, Len(chain)), r.tx) \in RefMaps
      BY <1>1, <1>3, <2>2 DEF WithTx, ReadyIn
    <3>2. /\ Len(chain') = Len(chain) + 1 /\ \A i \in 1..Len(chain) : chain'[i] = chain[i]
          /\ \A g \in 0..Len(chain) : RefsAt(chain', g) = RefsAt(chain, g)
          /\ RefsAt(chain', Len(chain) + 1) = Apply(RefsAt(chain, Len(chain)), r.tx)
      BY <1>4, <2>2, <3>1, RefsAtAppend
    <3> QED
      BY <1>1, <1>4, <3>1, <3>2 DEF Continues
  <2> QED
    BY <2>1, <2>2
<1>6. SoundIn(pages', snaps', installed', head', chain')
  BY <1>1, <1>3 DEF ReadyIn, SoundIn
<1>7. ASSUME NEW q \in DOMAIN pages' \cap installed'
      PROVE  PageIn(pages', q, chain', head'.floor)
  <2>1. CASE q \in installed
    <3>1. q \in DOMAIN pages /\ pages[q].last \in Nat /\ Keeps(pages', pages)
      BY PageFacts DEF PublicationInv, Keeps
    <3>2. PageIn(pages, q, chain, head.floor)
      BY <1>1, <2>1, <3>1
    <3> QED
      BY <1>3, <1>4, <1>5, <3>1, <3>2, PageKept
  <2>2. CASE q = r.head.pub
    <3>1. r.tx # NoTx /\ r.tx.id = q /\ q \in DOMAIN pages
      BY <1>2, <2>2 DEF Succeeds
    <3> QED
      BY <1>1, <1>3, <3>1 DEF ReadyIn
  <2> QED
    BY <1>3, <2>1, <2>2
<1>8. \A x \in Requests' : x.match # head'.pub
  BY <1>2, <1>3
<1> QED
  BY <1>5, <1>6, <1>7, <1>8, ReadInvNext

(* The records of the processes: c's is x now. *)
LEMMA OwnKept ==
    ASSUME TypeOK, OwnInv, NEW c \in Clients, NEW x, client' = [client EXCEPT ![c] = x],
           x.tx # NoTx => x.tx.id = <<c, x.n>> /\ x.tx.gen = x.pin.gen + 1
    PROVE  OwnInv'
<1> SUFFICES ASSUME NEW d \in Clients, client'[d].tx # NoTx
             PROVE  client'[d].tx.id = <<d, client'[d].n>> /\ client'[d].tx.gen = client'[d].pin.gen + 1
  BY DEF OwnInv
<1>1. client'[c] = x /\ (d # c => client'[d] = client[d])
  BY DEF TypeOK
<1> QED
  BY <1>1 DEF OwnInv

-----------------------------------------------------------------------------
(* The candidate HEADs, for their readers. *)

(* The rest of Push's candidate: the floor's transaction and the symbolic  *)
(* HEAD.                                                                   *)
LEMMA PushHeadRest ==
    ASSUME NEW h \in HeadObject, NEW t \in Transaction
    PROVE  /\ PushHead(h, t).floorTx = h.floorTx
           /\ PushHead(h, t).sym =
                IF h.sym \in DOMAIN t.updates /\ t.updates[h.sym].new = None THEN None ELSE h.sym
<1> DEFINE k == AppendEnvelope(h, t)
<1>1. k.floorTx = h.floorTx /\ k.sym = h.sym /\ DOMAIN k = DOMAIN h
  <2>1. CASE Seals(h.tail \cup {t})
    BY <2>1 DEF AppendEnvelope, HeadObject
  <2>2. CASE ~ Seals(h.tail \cup {t})
    BY <2>2 DEF AppendEnvelope, HeadObject
  <2> QED
    BY <2>1, <2>2
<1>2. "floorTx" \in DOMAIN k /\ "sym" \in DOMAIN k
  BY <1>1 DEF HeadObject
<1>3. PushHead(h, t) =
        [k EXCEPT !.gen = t.gen, !.tx = t.id, !.rev = k.rev + 1, !.pub = t.id,
                  !.sym = IF k.sym \in DOMAIN t.updates /\ t.updates[k.sym].new = None THEN None ELSE k.sym]
  BY DEF PushHead
<1> HIDE DEF k
<1> QED
  BY <1>1, <1>2, <1>3

LEMMA InitialHeadRest ==
    ASSUME NEW t \in Transaction, NEW sym \in Refs
    PROVE  /\ InitialHead(t, sym).floorTx = None /\ InitialHead(t, sym).sym = sym
           /\ InitialHead(t, sym).snap = [id |-> t.id, gen |-> 0]
  BY DEF InitialHead, Absent

LEMMA MaintenanceHeadRest ==
    ASSUME NEW h \in HeadObject, NEW id, NEW g
    PROVE  /\ MaintenanceHead(h, id, g).snap = [id |-> id, gen |-> h.gen]
           /\ MaintenanceHead(h, id, g).floor = g
           /\ MaintenanceHead(h, id, g).floorTx = Rec(LogOf(h), g).id
           /\ MaintenanceHead(h, id, g).tail = {t \in h.tail : t.gen > g}
           /\ MaintenanceHead(h, id, g).tip = IF h.tip.last <= g THEN NoPage ELSE h.tip
           /\ MaintenanceHead(h, id, g).sym = h.sym
<1> DEFINE tail == {t \in h.tail : t.gen > g}
           tip == IF h.tip.last <= g THEN NoPage ELSE h.tip
           ftx == (CHOOSE t \in LogOf(h) : t.gen = g).id
           snap == [id |-> id, gen |-> h.gen]
<1>1. MaintenanceHead(h, id, g) =
        [h EXCEPT !.rev = h.rev + 1, !.pub = id, !.packset = id, !.snap = snap,
                  !.floor = g, !.floorTx = ftx, !.tail = tail, !.tip = tip]
  BY DEF MaintenanceHead
<1>2. ftx = Rec(LogOf(h), g).id
  BY DEF Rec
<1> HIDE DEF tail, tip, ftx, snap
<1>3. /\ MaintenanceHead(h, id, g).snap = snap /\ MaintenanceHead(h, id, g).floor = g
      /\ MaintenanceHead(h, id, g).floorTx = ftx /\ MaintenanceHead(h, id, g).tail = tail
      /\ MaintenanceHead(h, id, g).tip = tip /\ MaintenanceHead(h, id, g).sym = h.sym
  BY <1>1 DEF HeadObject
<1> QED
  BY <1>2, <1>3 DEF tail, tip, snap

(* What validatePush lets through applies to the refs it was validated for. *)
LEMMA EffectiveApplies ==
    ASSUME NEW refs \in RefMaps, NEW b \in Batches, NEW t, t.updates = Effective(refs, b)
    PROVE  /\ Apply(refs, t) = [r \in Refs |-> IF r \in DOMAIN t.updates THEN t.updates[r].new ELSE refs[r]]
           /\ Apply(refs, t) \in RefMaps
           /\ DOMAIN t.updates \subseteq Refs
           /\ \A r \in DOMAIN t.updates : refs[r] = t.updates[r].old /\ t.updates[r].new # refs[r]
<1>1. PICK D \in SUBSET Refs : b.cmds \in [D -> [new : Oids \cup {None}, force : BOOLEAN]]
  BY BatchAssumption
<1> DEFINE changed == {r \in DOMAIN b.cmds \ Rejected(refs, b) : refs[r] # b.cmds[r].new}
           us == [r \in changed |-> [old |-> refs[r], new |-> b.cmds[r].new]]
<1>2. t.updates = << >> \/ t.updates = us
  BY DEF Effective
<1>3. /\ DOMAIN t.updates \subseteq Refs
      /\ \A r \in DOMAIN t.updates : /\ refs[r] = t.updates[r].old /\ t.updates[r].new # refs[r]
                                     /\ t.updates[r].new \in Oids \cup {None}
  <2>1. CASE t.updates = << >>
    <3>1. DOMAIN t.updates = {}
      BY <2>1
    <3> QED
      BY <3>1
  <2>2. CASE t.updates = us
    <3>1. DOMAIN t.updates = changed /\ \A r \in changed : us[r].old = refs[r] /\ us[r].new = b.cmds[r].new
      BY <2>2
    <3>2. \A r \in changed : r \in D /\ refs[r] # b.cmds[r].new /\ b.cmds[r].new \in Oids \cup {None}
      BY <1>1
    <3> HIDE DEF changed, us
    <3> QED
      BY <2>2, <3>1, <3>2
  <2> QED
    BY <1>2, <2>1, <2>2
<1>4. refs # None
  BY NoneAssumption
<1>5. Apply(refs, t) = [r \in Refs |-> IF r \in DOMAIN t.updates THEN t.updates[r].new ELSE refs[r]]
  BY <1>3, <1>4 DEF Apply
<1>6. Apply(refs, t) \in RefMaps
  BY <1>3, <1>5 DEF RefMaps
<1> QED
  BY <1>3, <1>5, <1>6

(* One more record of the log. *)
LEMMA RecordsAppend ==
    ASSUME NEW ch, Indexed(ch), NEW t \in Transaction, t.gen = Len(ch) + 1,
           NEW from \in Nat, from <= Len(ch)
    PROVE  Records(Append(ch, t), from, Len(ch) + 1) = Records(ch, from, Len(ch)) \cup {t}
<1>1. /\ Len(ch) \in Nat /\ Append(ch, t)[Len(ch) + 1] = t
      /\ \A i \in 1..Len(ch) : Append(ch, t)[i] = ch[i]
  BY RefsAtAppend DEF Indexed
<1> DEFINE new == Append(ch, t)
           n == Len(ch)
<1> HIDE DEF new
<1>2. \A i \in (from + 1)..(n + 1) : i = n + 1 \/ (i \in (from + 1)..n /\ new[i] = ch[i])
  BY <1>1 DEF new
<1>3. n + 1 \in (from + 1)..(n + 1) /\ new[n + 1] = t
  BY <1>1 DEF new
<1>4. \A i \in (from + 1)..n : i \in (from + 1)..(n + 1) /\ new[i] = ch[i]
  BY <1>1 DEF new
<1>5. {new[i] : i \in (from + 1)..(n + 1)} = {ch[i] : i \in (from + 1)..n} \cup {t}
  BY <1>2, <1>3, <1>4
<1> QED
  BY <1>5 DEF Records, new

(* Push's candidate describes the chain with its transaction on top. *)
LEMMA PushReady ==
    ASSUME PublicationInv, ReadInv, head # Absent, NEW id \in Id, id \notin Used,
           NEW b \in Batches, NEW t \in Transaction, t.id = id, t.gen = head.gen + 1,
           t.updates = Effective(RefsOf(head), b),
           NEW pg, Keeps(pg, pages),
           Seals(head.tail \cup {t}) => id \in DOMAIN pg /\ pg[id] = SealedPage(head, t),
           ~ Seals(head.tail \cup {t}) => pg = pages
    PROVE  ReadyIn(pg, snaps, installed, head, chain, PushHead(head, t), t)
<1> DEFINE n == Len(chain)
           ch == Append(chain, t)
           refs == RefsAt(chain, n)
<1>1. /\ Indexed(chain) /\ n \in Nat /\ n = head.gen /\ TypeOK /\ head \in HeadObject
      /\ head.floor \in Nat /\ head.snap.gen \in Nat /\ head.rev \in Nat /\ Base(head) \in Nat
      /\ t # NoTx /\ id \notin DOMAIN pages /\ head.pub \in installed
  BY ChainFacts, HeadFacts, BaseFacts, TransactionFacts DEF PublicationInv, HeadInv, TypeOK, Used
<1>2. SoundIn(pages, snaps, installed, head, chain) /\ RefsOf(head) = refs /\ refs \in RefMaps
  BY ReadInvIs, RefsAre
<1>3. /\ head.rev >= 1 /\ head.floor <= head.snap.gen /\ head.snap.gen <= head.gen
      /\ head.floorTx = TxAt(chain, head.floor) /\ head.tx = TxAt(chain, head.gen)
      /\ LeadsIn(pages, head.tip) /\ head.floor <= Base(head) /\ Base(head) <= head.gen
      /\ head.tip # NoPage => head.floor < head.tip.last
      /\ head.tail = Records(chain, Base(head), head.gen)
      /\ head.snap.id \in DOMAIN snaps \cap installed
      /\ snaps[head.snap.id] = [gen |-> head.snap.gen, refs |-> RefsAt(chain, head.snap.gen)]
      /\ head.sym # None => refs[head.sym] # None
  BY <1>1, <1>2 DEF SoundIn
<1>4. /\ Indexed(ch) /\ Len(ch) = n + 1 /\ ch[n + 1] = t
      /\ \A i \in 1..n : ch[i] = chain[i]
      /\ \A g \in 0..n : RefsAt(ch, g) = RefsAt(chain, g)
      /\ RefsAt(ch, n + 1) = Apply(refs, t)
  BY <1>1, RefsAtAppend
<1>5. /\ Apply(refs, t) = [r \in Refs |-> IF r \in DOMAIN t.updates THEN t.updates[r].new ELSE refs[r]]
      /\ Apply(refs, t) \in RefMaps
  BY <1>2, EffectiveApplies
<1>6. Records(ch, Base(head), n + 1) = head.tail \cup {t}
  <2>1. t.gen = n + 1 /\ Base(head) <= n /\ head.tail = Records(chain, Base(head), n)
    BY <1>1, <1>3
  <2>2. Indexed(chain) /\ t.gen = Len(chain) + 1 /\ Base(head) \in Nat /\ Base(head) <= Len(chain)
    BY <1>1, <2>1
  <2>3. Records(Append(chain, t), Base(head), Len(chain) + 1) = Records(chain, Base(head), Len(chain)) \cup {t}
    BY <2>2, RecordsAppend
  <2> QED
    BY <2>1, <2>3
<1>7. WithTx(chain, t) = ch
  BY <1>1 DEF WithTx
<1>c. PICK cand : cand = PushHead(head, t)
  OBVIOUS
<1>8. /\ cand.pub = id /\ cand.rev = head.rev + 1 /\ cand.gen = n + 1 /\ cand.tx = id
      /\ cand.floor = head.floor /\ cand.snap = head.snap /\ cand.floorTx = head.floorTx
      /\ cand.sym = IF head.sym \in DOMAIN t.updates /\ t.updates[head.sym].new = None
                    THEN None ELSE head.sym
      /\ Seals(head.tail \cup {t}) => cand.tip = [id |-> id, last |-> n + 1] /\ cand.tail = {}
      /\ ~ Seals(head.tail \cup {t}) => cand.tip = head.tip /\ cand.tail = head.tail \cup {t}
  <2>1. /\ cand.pub = t.id /\ cand.rev = head.rev + 1 /\ cand.gen = t.gen /\ cand.tx = t.id
        /\ cand.floor = head.floor /\ cand.snap = head.snap /\ cand.floorTx = head.floorTx
        /\ cand.sym = IF head.sym \in DOMAIN t.updates /\ t.updates[head.sym].new = None
                      THEN None ELSE head.sym
        /\ Seals(head.tail \cup {t}) => cand.tip = [id |-> t.id, last |-> t.gen] /\ cand.tail = {}
        /\ ~ Seals(head.tail \cup {t}) => cand.tip = head.tip /\ cand.tail = head.tail \cup {t}
    BY <1>1, <1>c, PushHeadFacts, PushHeadRest, Zenon
  <2>2. t.id = id /\ t.gen = n + 1
    BY <1>1
  <2> QED
    BY <2>1, <2>2
<1> HIDE DEF n, ch, refs
<1>9. TxAt(ch, n + 1) = id /\ TxAt(ch, head.floor) = TxAt(chain, head.floor)
  <2>1. head.floor <= n
    BY <1>1, <1>3
  <2>2. n + 1 # 0 /\ t.id = id
    BY <1>1
  <2>3. TxAt(ch, n + 1) = id
    BY <1>4, <2>2 DEF TxAt
  <2>4. head.floor # 0 => ch[head.floor] = chain[head.floor]
    <3>1. head.floor # 0 => head.floor \in 1..n
      BY <1>1, <2>1
    <3> QED
      BY <1>4, <3>1
  <2> QED
    BY <2>3, <2>4 DEF TxAt
<1>10. Seals(head.tail \cup {t}) =>
         /\ cand.tip # NoPage /\ Base(cand) = n + 1 /\ LeadsIn(pg, cand.tip)
         /\ cand.tail = Records(ch, n + 1, n + 1)
         /\ PageIn(pg, id, ch, head.floor)
  <2> SUFFICES ASSUME Seals(head.tail \cup {t})
               PROVE  /\ cand.tip # NoPage /\ Base(cand) = n + 1 /\ LeadsIn(pg, cand.tip)
                      /\ cand.tail = Records(ch, n + 1, n + 1)
                      /\ PageIn(pg, id, ch, head.floor)
    OBVIOUS
  <2>1. cand.tip = [id |-> id, last |-> n + 1] /\ cand.tail = {} /\ id # None
    BY <1>8, NoneAssumption
  <2>2. cand.tip # NoPage /\ Base(cand) = n + 1
    BY <2>1 DEF NoPage, Base
  <2>3. /\ id \in DOMAIN pg /\ pg[id].last = n + 1 /\ pg[id].prev = head.tip
        /\ pg[id].txs = head.tail \cup {t}
    BY <1>1 DEF SealedPage
  <2>4. Records(ch, n + 1, n + 1) = {}
    BY <1>1 DEF Records
  <2>5. /\ Base(head) \in 0..(pg[id].last - 1) /\ pg[id].last <= Len(ch)
        /\ pg[id].txs = Records(ch, Base(head), pg[id].last)
    BY <1>1, <1>3, <1>4, <1>6, <2>3
  <2>6. LeadsIn(pg, head.tip)
    BY <1>3 DEF LeadsIn, Keeps
  <2>7. IF head.tip = NoPage THEN Base(head) <= head.floor ELSE Base(head) = head.tip.last
    BY <1>1 DEF Base
  <2>8. PageIn(pg, id, ch, head.floor)
    BY <2>3, <2>5, <2>6, <2>7 DEF PageIn
  <2> QED
    BY <2>1, <2>2, <2>3, <2>4, <2>8 DEF LeadsIn
<1>11. ~ Seals(head.tail \cup {t}) =>
         /\ cand.tip = head.tip /\ Base(cand) = Base(head) /\ LeadsIn(pg, cand.tip)
         /\ cand.tail = Records(ch, Base(head), n + 1)
         /\ id \notin DOMAIN pg
  BY <1>1, <1>3, <1>6, <1>8 DEF Base
<1>12. /\ LeadsIn(pg, cand.tip) /\ cand.floor <= Base(cand) /\ Base(cand) <= cand.gen
       /\ cand.tip # NoPage => cand.floor < cand.tip.last
       /\ cand.tail = Records(ch, Base(cand), cand.gen)
  <2>1. CASE Seals(head.tail \cup {t})
    <3>1. cand.tip.last = n + 1
      BY <1>8, <2>1
    <3>2. cand.floor <= n + 1 /\ n + 1 <= n + 1 /\ cand.floor < n + 1
      BY <1>1, <1>3, <1>8
    <3> QED
      BY <1>8, <1>10, <2>1, <3>1, <3>2
  <2>2. CASE ~ Seals(head.tail \cup {t})
    <3>1. Base(head) <= n + 1
      BY <1>1, <1>3
    <3> QED
      BY <1>3, <1>8, <1>11, <2>2, <3>1
  <2> QED
    BY <2>1, <2>2
<1>13. cand.sym # None => RefsAt(ch, cand.gen)[cand.sym] # None
  <2> SUFFICES ASSUME cand.sym # None PROVE Apply(refs, t)[cand.sym] # None
    BY <1>4, <1>8
  <2>1. cand.sym = head.sym /\ head.sym \in Refs /\ refs[head.sym] # None
    BY <1>1, <1>3, <1>8, HeadFacts
  <2>2. ~ (head.sym \in DOMAIN t.updates /\ t.updates[head.sym].new = None)
    BY <1>8
  <2> QED
    BY <1>5, <2>1, <2>2
<1>14. /\ cand.rev >= 1 /\ cand.gen >= 1 /\ cand.gen = Len(ch)
       /\ cand.floor <= cand.snap.gen /\ cand.snap.gen <= cand.gen
       /\ cand.floorTx = TxAt(ch, cand.floor) /\ cand.tx = TxAt(ch, cand.gen)
  BY <1>1, <1>3, <1>4, <1>8, <1>9
<1>15. /\ cand.snap.id \in DOMAIN snaps \cap (installed \cup {cand.pub})
       /\ snaps[cand.snap.id] = [gen |-> cand.snap.gen, refs |-> RefsAt(ch, cand.snap.gen)]
  <2>1. head.snap.gen \in 0..n
    BY <1>1, <1>3
  <2> QED
    BY <1>3, <1>4, <1>8, <2>1
<1>16. SoundIn(pg, snaps, installed, cand, ch)
  BY <1>12, <1>13, <1>14, <1>15 DEF SoundIn
<1>17. SymAfter(head, cand, t)
  BY <1>1, <1>8 DEF SymAfter
<1>18. t.id \in DOMAIN pg => PageIn(pg, t.id, ch, cand.floor)
  BY <1>8, <1>10, <1>11
<1> QED
  BY <1>5, <1>7, <1>16, <1>17, <1>18, <1>c DEF ReadyIn, refs, n

(* initialize's candidate describes a chain of one transaction. *)
LEMMA InitialReady ==
    ASSUME PublicationInv, ReadInv, head = Absent, NEW id \in Id, id \notin Used,
           NEW b \in Batches, NEW t \in Transaction, t.id = id, t.gen = 1,
           t.updates = Effective(NoRefs, b), NEW sym \in DOMAIN t.updates,
           NEW sn, id \in DOMAIN sn, sn[id] = [gen |-> 0, refs |-> NoRefs]
    PROVE  ReadyIn(pages, sn, installed, head, chain, InitialHead(t, sym), t)
<1> DEFINE ch == Append(chain, t)
<1>1. /\ Indexed(chain) /\ Len(chain) = 0 /\ t # NoTx /\ id \notin DOMAIN pages
  BY ChainFacts, TransactionFacts DEF PublicationInv, Absent, Used
<1>2. /\ Indexed(ch) /\ Len(ch) = 1 /\ ch[1] = t
      /\ RefsAt(ch, 0) = RefsAt(chain, 0) /\ RefsAt(ch, 1) = Apply(RefsAt(chain, 0), t)
  <2>1. t.gen = Len(chain) + 1 /\ Len(chain) + 1 = 1 /\ 0 \in 0..Len(chain)
    BY <1>1
  <2>2. /\ Indexed(ch) /\ Len(ch) = Len(chain) + 1 /\ ch[Len(chain) + 1] = t
        /\ \A i \in 0..Len(chain) : RefsAt(ch, i) = RefsAt(chain, i)
        /\ RefsAt(ch, Len(chain) + 1) = Apply(RefsAt(chain, Len(chain)), t)
    BY <1>1, <2>1, RefsAtAppend
  <2> HIDE DEF ch
  <2>3. Len(ch) = 1 /\ ch[1] = t /\ RefsAt(ch, 1) = Apply(RefsAt(chain, 0), t)
    BY <1>1, <2>1, <2>2
  <2> QED
    BY <2>1, <2>2, <2>3
<1>3. RefsAt(chain, 0) = NoRefs /\ NoRefs \in RefMaps
  BY <1>1, RefsAtIs DEF NoRefs, RefMaps
<1>4. /\ Apply(NoRefs, t) = [r \in Refs |-> IF r \in DOMAIN t.updates THEN t.updates[r].new ELSE NoRefs[r]]
      /\ Apply(NoRefs, t) \in RefMaps /\ DOMAIN t.updates \subseteq Refs
      /\ t.updates[sym].new # NoRefs[sym]
  BY <1>3, EffectiveApplies
<1>5. sym \in Refs /\ Apply(NoRefs, t)[sym] # None
  BY <1>4 DEF NoRefs
<1>c. PICK cand : cand = InitialHead(t, sym)
  OBVIOUS
<1>6. /\ cand.pub = id /\ cand.rev = 1 /\ cand.gen = 1 /\ cand.tx = id /\ cand.floor = 0
      /\ cand.tip = NoPage /\ cand.tail = {t} /\ cand.floorTx = None /\ cand.sym = sym
      /\ cand.snap = [id |-> id, gen |-> 0]
  BY <1>5, <1>c, InitialHeadFacts, InitialHeadRest
<1> HIDE DEF ch
<1>7. Base(cand) = 0 /\ LeadsIn(pages, cand.tip)
  BY <1>6 DEF Base, LeadsIn
<1>8. Records(ch, 0, 1) = {t} /\ TxAt(ch, 0) = None /\ TxAt(ch, 1) = id
  <2>1. (0 + 1)..1 = {1}
    OBVIOUS
  <2> QED
    BY <1>2, <2>1 DEF Records, TxAt
<1>9. WithTx(chain, t) = ch
  BY <1>1 DEF WithTx, ch
<1>10. SoundIn(pages, sn, installed, cand, ch)
  <2>1. /\ cand.rev >= 1 /\ cand.gen >= 1 /\ cand.gen = Len(ch)
        /\ cand.floor <= cand.snap.gen /\ cand.snap.gen <= cand.gen
        /\ cand.floor <= Base(cand) /\ Base(cand) <= cand.gen
    BY <1>2, <1>6, <1>7
  <2>2. /\ cand.floorTx = TxAt(ch, cand.floor) /\ cand.tx = TxAt(ch, cand.gen)
        /\ cand.tail = Records(ch, Base(cand), cand.gen)
    BY <1>6, <1>7, <1>8
  <2>3. /\ cand.snap.id \in DOMAIN sn \cap (installed \cup {cand.pub})
        /\ sn[cand.snap.id] = [gen |-> cand.snap.gen, refs |-> RefsAt(ch, cand.snap.gen)]
    BY <1>2, <1>3, <1>6
  <2>4. RefsAt(ch, cand.gen)[cand.sym] # None
    BY <1>2, <1>3, <1>5, <1>6
  <2> QED
    BY <1>6, <1>7, <2>1, <2>2, <2>3, <2>4 DEF SoundIn
<1>11. SymAfter(head, cand, t)
  BY <1>1, <1>5, <1>6 DEF SymAfter
<1> QED
  BY <1>1, <1>3, <1>4, <1>9, <1>10, <1>11, <1>c DEF ReadyIn

(* Maintenance's candidate describes the same chain, from a higher floor   *)
(* and with a newer snapshot.                                              *)
LEMMA MaintenanceReady ==
    ASSUME PublicationInv, ReadInv, head # Absent, NEW id \in Id, id \notin Used,
           Collects(head), NEW g \in Targets(head),
           NEW sn, id \in DOMAIN sn, sn[id] = [gen |-> head.gen, refs |-> RefsOf(head)]
    PROVE  ReadyIn(pages, sn, installed, head, chain, MaintenanceHead(head, id, g), NoTx)
<1>1. /\ Indexed(chain) /\ Len(chain) \in Nat /\ Len(chain) = head.gen /\ TypeOK /\ head \in HeadObject
      /\ head.floor \in Nat /\ head.snap.gen \in Nat /\ head.rev \in Nat /\ Base(head) \in Nat
      /\ head.tip.last \in Nat
  BY ChainFacts, HeadFacts, BaseFacts DEF PublicationInv, TypeOK
<1>2. SoundIn(pages, snaps, installed, head, chain) /\ RefsOf(head) = RefsAt(chain, Len(chain))
  BY ReadInvIs, RefsAre
<1>3. /\ head.rev >= 1 /\ head.gen >= 1 /\ head.tx = TxAt(chain, head.gen)
      /\ LeadsIn(pages, head.tip) /\ head.floor <= Base(head) /\ Base(head) <= head.gen
      /\ head.tail = Records(chain, Base(head), head.gen)
      /\ head.sym # None => RefsAt(chain, head.gen)[head.sym] # None
  BY <1>2 DEF SoundIn
<1>4. g \in Nat /\ head.floor < g /\ g <= head.gen /\ g \in 1..Len(chain)
  <2>1. g \in (head.floor + 1)..head.gen
    BY DEF Targets
  <2> QED
    BY <1>1, <2>1
<1>c. PICK cand : cand = MaintenanceHead(head, id, g)
  OBVIOUS
<1>5. /\ cand.pub = id /\ cand.rev = head.rev + 1 /\ cand.gen = head.gen /\ cand.tx = head.tx
      /\ cand.snap = [id |-> id, gen |-> head.gen] /\ cand.floor = g
      /\ cand.floorTx = Rec(LogOf(head), g).id
      /\ cand.tail = {t \in head.tail : t.gen > g}
      /\ cand.tip = IF head.tip.last <= g THEN NoPage ELSE head.tip
      /\ cand.sym = head.sym
  <2>1. LogOf(head) \subseteq Transaction
    BY <1>1, LogType
  <2>2. /\ cand.pub = id /\ cand.rev = head.rev + 1 /\ cand.gen = head.gen /\ cand.tx = head.tx
    BY <1>1, <1>c, <2>1, MaintenanceHeadFacts, ZenonT(60)
  <2> QED
    BY <1>1, <1>c, <2>2, MaintenanceHeadRest
<1>6. cand.floorTx = TxAt(chain, g)
  <2>1. LogOf(head) = Records(chain, head.floor, head.gen)
    BY LogIs
  <2>2. head.gen \in Nat /\ head.gen <= Len(chain) /\ head.floor <= head.gen /\ g \in (head.floor + 1)..head.gen
    BY <1>1, <1>4
  <2>3. /\ chain[g] \in LogOf(head) /\ chain[g].gen = g
        /\ \A u \in LogOf(head) : u.gen = g => u = chain[g]
    <3>0. /\ Indexed(chain) /\ head.floor \in Nat /\ head.gen \in Nat
          /\ head.floor <= head.gen /\ head.gen <= Len(chain)
      BY <1>1, <2>2
    <3>1. /\ \A u \in Records(chain, head.floor, head.gen) : u.gen \in (head.floor + 1)..head.gen /\ u = chain[u.gen]
          /\ \A i \in (head.floor + 1)..head.gen : chain[i] \in Records(chain, head.floor, head.gen)
      BY <3>0, RecordsFacts
    <3>2. chain[g].gen = g
      BY <1>1, <1>4 DEF Indexed
    <3> QED
      BY <2>1, <2>2, <3>1, <3>2
  <2>4. Rec(LogOf(head), g) = chain[g]
    BY <2>3, RecIs
  <2> QED
    BY <1>4, <1>5, <2>4 DEF TxAt
<1>7. /\ LeadsIn(pages, cand.tip) /\ Base(cand) \in Nat /\ g <= Base(cand) /\ Base(cand) <= head.gen
      /\ cand.tip # NoPage => g < cand.tip.last
      /\ Base(cand) = g \/ (Base(cand) = Base(head) /\ g < Base(head))
      /\ Base(head) <= Base(cand)
  <2>1. CASE head.tip.last <= g
    <3>1. cand.tip = NoPage /\ Base(cand) = g
      BY <1>5, <2>1 DEF Base
    <3>2. Base(head) <= g
      BY <1>1, <1>4, <2>1 DEF Base
    <3> QED
      BY <1>4, <3>1, <3>2 DEF LeadsIn
  <2>2. CASE ~ (head.tip.last <= g)
    <3>1. head.tip # NoPage /\ cand.tip = head.tip /\ g < head.tip.last
      BY <1>1, <1>4, <1>5, <2>2 DEF NoPage
    <3>2. Base(cand) = Base(head) /\ Base(head) = head.tip.last
      BY <3>1 DEF Base
    <3> QED
      BY <1>1, <1>3, <1>4, <3>1, <3>2
  <2> QED
    BY <2>1, <2>2
<1>8. cand.tail = Records(chain, Base(cand), head.gen)
  <2>1. ASSUME NEW t
        PROVE  t \in cand.tail <=> \E i \in (Base(head) + 1)..head.gen : t = chain[i] /\ i > g
    <3>1. \A i \in (Base(head) + 1)..head.gen : chain[i].gen = i
      BY <1>1 DEF Indexed
    <3> QED
      BY <1>3, <1>5, <3>1 DEF Records
  <2>2. \A i : (i \in (Base(head) + 1)..head.gen /\ i > g) <=> i \in (Base(cand) + 1)..head.gen
    BY <1>1, <1>4, <1>7
  <2>3. \A t : t \in cand.tail <=> t \in Records(chain, Base(cand), head.gen)
    BY <2>1, <2>2 DEF Records
  <2>4. cand.tail = {t \in head.tail : t.gen > g}
    BY <1>5
  <2> QED
    BY <2>3, <2>4, Zenon DEF Records
<1>9. SoundIn(pages, sn, installed, cand, chain)
  <2>1. /\ cand.rev >= 1 /\ cand.gen >= 1 /\ cand.gen = Len(chain)
        /\ cand.floor <= cand.snap.gen /\ cand.snap.gen <= cand.gen
        /\ cand.floor <= Base(cand) /\ Base(cand) <= cand.gen
        /\ cand.tip # NoPage => cand.floor < cand.tip.last
    BY <1>1, <1>3, <1>4, <1>5, <1>7
  <2>2. /\ cand.floorTx = TxAt(chain, cand.floor) /\ cand.tx = TxAt(chain, cand.gen)
        /\ cand.tail = Records(chain, Base(cand), cand.gen)
    BY <1>3, <1>5, <1>6, <1>8
  <2>3. /\ cand.snap.id \in DOMAIN sn \cap (installed \cup {cand.pub})
        /\ sn[cand.snap.id] = [gen |-> cand.snap.gen, refs |-> RefsAt(chain, cand.snap.gen)]
    BY <1>1, <1>2, <1>5
  <2>4. cand.sym # None => RefsAt(chain, cand.gen)[cand.sym] # None
    BY <1>3, <1>5
  <2> QED
    BY <1>7, <2>1, <2>2, <2>3, <2>4 DEF SoundIn
<1>10. SymAfter(head, cand, NoTx) /\ WithTx(chain, NoTx) = chain
  BY <1>5 DEF SymAfter, WithTx
<1> QED
  BY <1>9, <1>10, <1>c DEF ReadyIn

(* SetHead's candidate names a branch that exists. *)
LEMMA SetHeadReady ==
    ASSUME PublicationInv, ReadInv, head # Absent, NEW id \in Id,
           NEW r \in Refs, RefsOf(head)[r] # None, NEW cand,
           cand.rev = head.rev + 1, cand.gen = head.gen, cand.tx = head.tx, cand.floor = head.floor,
           cand.floorTx = head.floorTx, cand.snap = head.snap, cand.tip = head.tip,
           cand.tail = head.tail, cand.sym = r
    PROVE  ReadyIn(pages, snaps, installed, head, chain, cand, NoTx)
<1>1. /\ SoundIn(pages, snaps, installed, head, chain) /\ RefsOf(head) = RefsAt(chain, Len(chain))
      /\ head.rev \in Nat /\ Len(chain) = head.gen /\ head.pub \in installed
  BY ReadInvIs, RefsAre, HeadFacts, ChainFacts DEF PublicationInv, TypeOK, HeadInv
<1>2. Base(cand) = Base(head)
  BY DEF Base
<1>3. cand.rev >= 1
  BY <1>1
<1>4. SoundIn(pages, snaps, installed, cand, chain)
  BY <1>1, <1>2, <1>3 DEF SoundIn
<1>5. SymAfter(head, cand, NoTx) /\ WithTx(chain, NoTx) = chain
  BY DEF SymAfter, WithTx
<1> QED
  BY <1>4, <1>5 DEF ReadyIn

-----------------------------------------------------------------------------
(* Every action preserves ReadInv. *)

(* A step of process c that stores nothing and sends nothing new. *)
LEMMA StillReads ==
    ASSUME PublicationInv, ReadInv, UNCHANGED <<head, chain, installed, pages, snaps>>,
           NEW c \in Clients, NEW x, client' = [client EXCEPT ![c] = x],
           late' \subseteq late \/ (Active(c) /\ late' \subseteq late \cup {Request(c)}),
           x.phase \in {"waiting", "rereading"} =>
             Active(c) /\ x.pin = client[c].pin /\ x.cand = client[c].cand /\ x.tx = client[c].tx,
           x.tx # NoTx => x.tx = client[c].tx /\ x.n = client[c].n /\ x.pin = client[c].pin
    PROVE  ReadInv'
<1>1. TypeOK /\ OwnInv
  BY DEF PublicationInv, ReadInv
<1>2. Requests' \subseteq Requests
  BY <1>1, RequestsKept
<1>3. OwnInv'
  <2>1. x.tx # NoTx => x.tx.id = <<c, x.n>> /\ x.tx.gen = x.pin.gen + 1
    BY <1>1 DEF OwnInv
  <2> QED
    BY <1>1, <2>1, OwnKept
<1>4. Keeps(pages', pages)
  BY DEF Keeps
<1> QED
  BY <1>2, <1>3, <1>4, KeepReads

(* A step of process c that stores objects under the unused id, and then   *)
(* sends a PUT or gives up.                                                *)
LEMMA StoreReads ==
    ASSUME PublicationInv, ReadInv, UNCHANGED <<head, chain, installed, late>>,
           NEW c \in Clients, NEW x, client' = [client EXCEPT ![c] = x],
           NEW id, id \notin Used, Keeps(pages', pages), DOMAIN pages' \subseteq DOMAIN pages \cup {id},
           \A s \in DOMAIN snaps : s # id => s \in DOMAIN snaps' /\ snaps'[s] = snaps[s],
           x.tx # NoTx => x.tx.id = <<c, x.n>> /\ x.tx.gen = x.pin.gen + 1,
           \/ x.phase = "idle"
           \/ x.pin.pub = head.pub => ReadyIn(pages', snaps', installed, head, chain, x.cand, x.tx)
    PROVE  ReadInv'
<1>1. TypeOK /\ OwnInv
  BY DEF PublicationInv, ReadInv
<1>2. OwnInv'
  BY <1>1, OwnKept
<1>3. \A r \in Requests' \ Requests : r.match = head.pub =>
        ReadyIn(pages', snaps', installed, head, chain, r.head, r.tx)
  <2>1. CASE x.phase = "idle"
    <3>1. Requests' \subseteq Requests
      BY <1>1, <2>1, RequestsKept
    <3> QED
      BY <3>1
  <2>2. CASE x.pin.pub = head.pub => ReadyIn(pages', snaps', installed, head, chain, x.cand, x.tx)
    <3>1. \A r \in Requests' \ Requests : r.match = x.pin.pub /\ r.head = x.cand /\ r.tx = x.tx
      BY <1>1, RequestsSent DEF ETag
    <3> QED
      BY <2>2, <3>1
  <2> QED
    BY <2>1, <2>2
<1>4. \A q \in DOMAIN pages' : q \in Used => q \in DOMAIN pages
  OBVIOUS
<1>5. \A s \in DOMAIN snaps : s \in Used => s \in DOMAIN snaps' /\ snaps'[s] = snaps[s]
  OBVIOUS
<1> QED
  BY <1>2, <1>3, <1>4, <1>5, KeepReads

(* An operation ends: nothing of it is left to be installed. *)
LEMMA EndReads ==
    ASSUME PublicationInv, ReadInv, UNCHANGED <<head, chain, installed, pages, snaps>>,
           NEW c \in Clients, client' = [client EXCEPT ![c] = Quiet(client[c].n)],
           late' \subseteq late \/ (Active(c) /\ late' \subseteq late \cup {Request(c)})
    PROVE  ReadInv'
<1>1. PICK x : x = Quiet(client[c].n) /\ x.phase = "idle" /\ x.tx = NoTx
  BY QuietFacts
<1> QED
  BY <1>1, StillReads

(* A push: its candidate is for the HEAD it was built from only. *)
LEMMA PushReads ==
    ASSUME PublicationInv, ReadInv, NEW c \in Clients, Push(c)
    PROVE  ReadInv'
<1>s. PICK s : s = PushState(c)
  OBVIOUS
<1>i. PICK id : id = <<c, client[c].n>>
  OBVIOUS
<1>1. /\ client[c].phase = "advertised" /\ Readable(s) /\ s # Absent
      /\ UNCHANGED <<head, snaps, late, faults, chain, installed, reported>>
  BY <1>s DEF Push
<1>2. /\ s \in HeadObject /\ (s.pub = head.pub => s = head)
      /\ id \in Id /\ id \notin Used /\ TypeOK
  BY <1>s, <1>i, <1>1, PushStateFacts DEF PublicationInv
<1>3. PICK b \in Batches :
        LET us == Effective(RefsOf(s), b)
            t == MakeTransaction(s, id, us)
            cand == PushHead(s, t)
        IN  IF us = << >>
            THEN GiveUp(c) /\ pages' = pages
            ELSE /\ pages' = IF Seals(s.tail \cup {t})
                             THEN With(pages, id, SealedPage(s, t)) ELSE pages
                 /\ IF Valid(cand) THEN Send(c, "push", s, t, cand) ELSE GiveUp(c)
  BY <1>s, <1>i DEF Push
<1>u. PICK us : us = Effective(RefsOf(s), b)
  OBVIOUS
<1>t. PICK t : t = MakeTransaction(s, id, us)
  OBVIOUS
<1>c. PICK cand : cand = PushHead(s, t)
  OBVIOUS
<1>4. t \in Transaction /\ t.id = id /\ t.gen = s.gen + 1 /\ t.updates = us
  <2>1. RefsOf(s) \in RefMaps
    BY <1>1 DEF Readable
  <2>2. PICK R \in SUBSET Refs : us \in [R -> Update]
    BY <1>u, <2>1, EffectiveType
  <2>3. t \in Transaction
    BY <1>2, <1>t, <2>2, MakeTransactionType
  <2> QED
    BY <1>t, <2>3 DEF MakeTransaction
<1>5. CASE us = << >>
  <2>1. GiveUp(c) /\ pages' = pages
    BY <1>3, <1>5, <1>u
  <2> QED
    BY <1>1, <2>1, EndReads DEF GiveUp
<1>6. CASE us # << >>
  <2>1. /\ pages' = IF Seals(s.tail \cup {t}) THEN With(pages, id, SealedPage(s, t)) ELSE pages
        /\ IF Valid(cand) THEN Send(c, "push", s, t, cand) ELSE GiveUp(c)
    BY <1>3, <1>6, <1>u, <1>t, <1>c
  <2>2. id \notin DOMAIN pages
    BY <1>2 DEF Used
  <2>3. /\ DOMAIN pages' \subseteq DOMAIN pages \cup {id} /\ Keeps(pages', pages)
        /\ Seals(s.tail \cup {t}) => id \in DOMAIN pages' /\ pages'[id] = SealedPage(s, t)
        /\ ~ Seals(s.tail \cup {t}) => pages' = pages
    <3>1. CASE Seals(s.tail \cup {t})
      <4>1. pages' = With(pages, id, SealedPage(s, t))
        BY <2>1, <3>1
      <4> QED
        BY <2>2, <3>1, <4>1 DEF With, Keeps
    <3>2. CASE ~ Seals(s.tail \cup {t})
      BY <2>1, <3>2 DEF Keeps
    <3> QED
      BY <3>1, <3>2
  <2>4. CASE Valid(cand)
    <3>1. Send(c, "push", s, t, cand)
      BY <2>1, <2>4
    <3>2. cand \in HeadObject
      BY <1>2, <1>4, <1>c, PushHeadFacts
    <3>3. PICK x \in ClientState :
            /\ client' = [client EXCEPT ![c] = x]
            /\ x.phase = "waiting" /\ x.n = client[c].n
            /\ x.kind = "push" /\ x.pin = s /\ x.tx = t /\ x.cand = cand
      BY <1>2, <1>4, <3>1, <3>2, SendFacts DEF Kinds
    <3>4. s.pub = head.pub => ReadyIn(pages', snaps', installed, head, chain, cand, t)
      <4> SUFFICES ASSUME s = head
                   PROVE  ReadyIn(pages', snaps', installed, head, chain, cand, t)
        BY <1>2
      <4>1. /\ head # Absent /\ t.gen = head.gen + 1 /\ t.updates = Effective(RefsOf(head), b)
            /\ Seals(head.tail \cup {t}) => id \in DOMAIN pages' /\ pages'[id] = SealedPage(head, t)
            /\ ~ Seals(head.tail \cup {t}) => pages' = pages
            /\ cand = PushHead(head, t) /\ snaps' = snaps
        BY <1>1, <1>u, <1>c, <1>4, <2>3
      <4> QED
        BY <1>2, <1>4, <2>3, <4>1, PushReady
    <3> QED
      BY <1>1, <1>2, <1>4, <1>i, <2>3, <3>3, <3>4, StoreReads
  <2>5. CASE ~ Valid(cand)
    <3>1. PICK x : x = Quiet(client[c].n) /\ x.phase = "idle" /\ x.tx = NoTx
      BY QuietFacts
    <3>2. client' = [client EXCEPT ![c] = x]
      BY <2>1, <2>5, <3>1 DEF GiveUp
    <3> QED
      BY <1>1, <1>2, <2>3, <3>1, <3>2, StoreReads
  <2> QED
    BY <2>4, <2>5
<1> QED
  BY <1>5, <1>6

(* initialize: its candidate is for a prefix without HEAD only. *)
LEMMA InitializeReads ==
    ASSUME PublicationInv, ReadInv, NEW c \in Clients, Initialize(c)
    PROVE  ReadInv'
<1>i. PICK id : id = <<c, client[c].n>>
  OBVIOUS
<1>1. /\ client[c].phase = "advertised"
      /\ UNCHANGED <<head, pages, late, faults, chain, installed, reported>>
  BY DEF Initialize
<1>2. id \in Id /\ id \notin Used /\ TypeOK /\ Keeps(pages', pages)
  BY <1>i, <1>1, PushStateFacts DEF PublicationInv, Keeps
<1>3. PICK b \in Batches :
        LET us == Effective(NoRefs, b)
            t == MakeTransaction(Absent, id, us)
        IN  IF us = << >>
            THEN GiveUp(c) /\ snaps' = snaps
            ELSE \E sym \in DOMAIN us :
                   LET cand == InitialHead(t, sym) IN
                   /\ snaps' = With(snaps, id, [gen |-> 0, refs |-> NoRefs])
                   /\ IF Valid(cand) THEN Send(c, "initialize", Absent, t, cand) ELSE GiveUp(c)
  BY <1>i DEF Initialize
<1>u. PICK us : us = Effective(NoRefs, b)
  OBVIOUS
<1>t. PICK t : t = MakeTransaction(Absent, id, us)
  OBVIOUS
<1>4. PICK R \in SUBSET Refs : us \in [R -> Update]
  <2>1. NoRefs \in RefMaps
    BY DEF NoRefs, RefMaps
  <2> QED
    BY <1>u, <2>1, EffectiveType
<1>5. t \in Transaction /\ t.id = id /\ t.gen = 1 /\ t.updates = us
  <2>1. t \in Transaction
    BY <1>2, <1>t, <1>4, AbsentType, MakeTransactionType
  <2> QED
    BY <1>t, <2>1 DEF MakeTransaction, Absent
<1>6. CASE us = << >>
  <2>1. GiveUp(c) /\ snaps' = snaps
    BY <1>3, <1>6, <1>u
  <2> QED
    BY <1>1, <2>1, EndReads DEF GiveUp
<1>7. CASE us # << >>
  <2>1. PICK sym \in DOMAIN us :
          /\ snaps' = With(snaps, id, [gen |-> 0, refs |-> NoRefs])
          /\ IF Valid(InitialHead(t, sym))
             THEN Send(c, "initialize", Absent, t, InitialHead(t, sym)) ELSE GiveUp(c)
    BY <1>3, <1>7, <1>u, <1>t
  <2>c. PICK cand : cand = InitialHead(t, sym)
    OBVIOUS
  <2>2. cand \in HeadObject /\ sym \in Refs
    BY <1>4, <1>5, <2>c, InitialHeadFacts
  <2>3. /\ \A q \in DOMAIN snaps : q # id => q \in DOMAIN snaps' /\ snaps'[q] = snaps[q]
        /\ id \in DOMAIN snaps' /\ snaps'[id] = [gen |-> 0, refs |-> NoRefs]
    BY <2>1 DEF With
  <2>4. CASE Valid(cand)
    <3>1. Send(c, "initialize", Absent, t, cand)
      BY <2>1, <2>4, <2>c
    <3>2. PICK x \in ClientState :
            /\ client' = [client EXCEPT ![c] = x]
            /\ x.phase = "waiting" /\ x.n = client[c].n
            /\ x.kind = "initialize" /\ x.pin = Absent /\ x.tx = t /\ x.cand = cand
      BY <1>2, <1>5, <2>2, <3>1, AbsentType, SendFacts DEF Kinds
    <3>3. Absent.pub = head.pub => ReadyIn(pages', snaps', installed, head, chain, cand, t)
      <4> SUFFICES ASSUME head = Absent
                   PROVE  ReadyIn(pages', snaps', installed, head, chain, cand, t)
        BY DEF PublicationInv, HeadInv, Absent
      <4>1. t.updates = Effective(NoRefs, b) /\ sym \in DOMAIN t.updates /\ pages' = pages
        BY <1>1, <1>5, <1>u
      <4> QED
        BY <1>2, <1>5, <2>3, <2>c, <4>1, InitialReady
    <3>4. x.tx.gen = x.pin.gen + 1
      BY <1>5, <3>2 DEF Absent
    <3> QED
      BY <1>1, <1>2, <1>5, <1>i, <2>3, <3>2, <3>3, <3>4, StoreReads
  <2>5. CASE ~ Valid(cand)
    <3>1. PICK x : x = Quiet(client[c].n) /\ x.phase = "idle" /\ x.tx = NoTx
      BY QuietFacts
    <3>2. client' = [client EXCEPT ![c] = x]
      BY <2>1, <2>5, <2>c, <3>1 DEF GiveUp
    <3> QED
      BY <1>1, <1>2, <2>3, <3>1, <3>2, StoreReads
  <2> QED
    BY <2>4, <2>5
<1> QED
  BY <1>6, <1>7

(* Maintenance: HEAD is pinned and read in the same step. *)
LEMMA MaintenanceReads ==
    ASSUME PublicationInv, ReadInv, NEW c \in Clients, Maintenance(c)
    PROVE  ReadInv'
<1>i. PICK id : id = <<c, client[c].n + 1>>
  OBVIOUS
<1>1. /\ MayAdminister(c) /\ head # Absent
      /\ snaps' = With(snaps, id, [gen |-> head.gen, refs |-> RefsOf(head)])
      /\ UNCHANGED <<head, pages, late, faults, chain, installed, reported>>
  BY <1>i DEF Maintenance, MayAdminister
<1>2. PICK g \in Targets(head) : Administer(c, "maintenance", MaintenanceHead(head, id, g))
  BY <1>i DEF Maintenance
<1>3. /\ id \in Id /\ id \notin Used /\ head \in HeadObject /\ Readable(head) /\ TypeOK
      /\ client[c].tx = NoTx
  BY <1>i, <1>1, MayAdministerFacts DEF PublicationInv
<1>4. PICK cand : cand = MaintenanceHead(head, id, g)
  OBVIOUS
<1>5. Collects(head) /\ LogOf(head) \subseteq Transaction
  BY <1>3, LogType DEF Readable
<1>6. cand \in HeadObject
  BY <1>3, <1>4, <1>5, MaintenanceHeadFacts, ZenonT(60)
<1>7. PICK x \in ClientState :
        /\ client' = [client EXCEPT ![c] = x]
        /\ x.phase = "waiting" /\ x.n = client[c].n + 1
        /\ x.pin = head /\ x.tx = client[c].tx /\ x.cand = cand
  BY <1>2, <1>3, <1>4, <1>6, AdministerFacts DEF Kinds
<1>8. /\ \A q \in DOMAIN snaps : q # id => q \in DOMAIN snaps' /\ snaps'[q] = snaps[q]
      /\ id \in DOMAIN snaps' /\ snaps'[id] = [gen |-> head.gen, refs |-> RefsOf(head)]
  BY <1>1 DEF With
<1>9. ReadyIn(pages', snaps', installed, head, chain, x.cand, x.tx)
  BY <1>1, <1>3, <1>4, <1>5, <1>7, <1>8, MaintenanceReady
<1>10. Keeps(pages', pages) /\ DOMAIN pages' \subseteq DOMAIN pages \cup {id} /\ x.tx = NoTx
  BY <1>1, <1>3, <1>7 DEF Keeps
<1> QED
  BY <1>1, <1>3, <1>7, <1>8, <1>9, <1>10, StoreReads

(* SetHead: only the symbolic HEAD changes. *)
LEMMA SetHeadReads ==
    ASSUME PublicationInv, ReadInv, NEW c \in Clients, SetHead(c)
    PROVE  ReadInv'
<1>i. PICK id : id = <<c, client[c].n + 1>>
  OBVIOUS
<1>1. /\ MayAdminister(c) /\ head # Absent
      /\ UNCHANGED <<head, pages, snaps, late, faults, chain, installed, reported>>
  BY DEF SetHead, MayAdminister
<1>2. PICK r \in Refs :
        /\ RefsOf(head)[r] # None
        /\ Administer(c, "set-head", [head EXCEPT !.sym = r, !.rev = head.rev + 1, !.pub = id])
  BY <1>i DEF SetHead
<1>3. /\ id \in Id /\ id \notin Used /\ head \in HeadObject /\ TypeOK /\ client[c].tx = NoTx
  BY <1>i, <1>1, MayAdministerFacts DEF PublicationInv
<1>4. PICK cand : cand = [head EXCEPT !.sym = r, !.rev = head.rev + 1, !.pub = id]
  OBVIOUS
<1>5. /\ cand \in HeadObject /\ cand.rev = head.rev + 1
      /\ cand.gen = head.gen /\ cand.tx = head.tx /\ cand.floor = head.floor
      /\ cand.floorTx = head.floorTx
      /\ cand.snap = head.snap /\ cand.tip = head.tip /\ cand.tail = head.tail /\ cand.sym = r
  <2> DEFINE j == [head EXCEPT !.sym = r, !.rev = head.rev + 1]
  <2>1. /\ j \in HeadObject /\ j.rev = head.rev + 1
        /\ j.gen = head.gen /\ j.tx = head.tx /\ j.floor = head.floor /\ j.floorTx = head.floorTx
        /\ j.snap = head.snap /\ j.tip = head.tip /\ j.tail = head.tail /\ j.sym = r
    <3>1. head.rev + 1 \in Nat /\ r \in Refs \cup {None}
      BY <1>3, HeadFacts
    <3> QED
      BY <1>3, <3>1 DEF HeadObject
  <2>2. cand = [j EXCEPT !.pub = id]
    BY <1>4
  <2> HIDE DEF j
  <2> QED
    BY <1>3, <2>1, <2>2 DEF HeadObject
<1>6. PICK x \in ClientState :
        /\ client' = [client EXCEPT ![c] = x]
        /\ x.phase = "waiting" /\ x.n = client[c].n + 1
        /\ x.pin = head /\ x.tx = client[c].tx /\ x.cand = cand
  BY <1>2, <1>3, <1>4, <1>5, AdministerFacts DEF Kinds
<1>7. ReadyIn(pages', snaps', installed, head, chain, x.cand, x.tx)
  BY <1>1, <1>2, <1>3, <1>5, <1>6, SetHeadReady
<1>8. Keeps(pages', pages) /\ DOMAIN pages' \subseteq DOMAIN pages \cup {id} /\ x.tx = NoTx
  BY <1>1, <1>3, <1>6 DEF Keeps
<1> QED
  BY <1>1, <1>3, <1>6, <1>7, <1>8, StoreReads

(* The awaited PUT is served. *)
LEMMA PutReturnsReads ==
    ASSUME PublicationInv, ReadInv, NEW c \in Clients, PutReturns(c)
    PROVE  ReadInv'
<1>1. Active(c) /\ UNCHANGED <<pages, snaps, late, faults>>
  BY DEF PutReturns, Active
<1>2. client' = [client EXCEPT ![c] = Quiet(client[c].n)]
  BY DEF PutReturns, Finish
<1>3. CASE ~ Matches(Request(c))
  BY <1>1, <1>2, <1>3, EndReads DEF PutReturns
<1>4. CASE Matches(Request(c))
  <2>1. Request(c) \in Requests /\ Install(Request(c)) /\ TypeOK /\ OwnInv
    BY <1>1, <1>4, OwnRequest DEF PutReturns, PublicationInv, ReadInv
  <2>2. PICK x : x = Quiet(client[c].n) /\ x.phase = "idle" /\ x.tx = NoTx
    BY QuietFacts
  <2>3. Requests' \subseteq Requests
    BY <1>1, <1>2, <2>1, <2>2, RequestsKept
  <2>4. OwnInv'
    BY <1>2, <2>1, <2>2, OwnKept
  <2> QED
    BY <1>1, <1>4, <2>1, <2>3, <2>4, InstallReads
<1> QED
  BY <1>3, <1>4

(* A late PUT is served. *)
LEMMA ServeLateReads ==
    ASSUME PublicationInv, ReadInv, NEW r \in late, ServeLate(r)
    PROVE  ReadInv'
<1>1. r \in Requests /\ Requests' \subseteq Requests
  BY DEF Requests, ServeLate, Request, ETag
<1>2. OwnInv' /\ UNCHANGED <<pages, snaps>> /\ Keeps(pages', pages)
  BY DEF ServeLate, OwnInv, ReadInv, Keeps
<1>3. CASE Matches(r)
  BY <1>1, <1>2, <1>3, InstallReads DEF ServeLate
<1>4. CASE ~ Matches(r)
  <2>1. UNCHANGED <<head, chain, installed>>
    BY <1>4 DEF ServeLate
  <2> QED
    BY <1>1, <1>2, <2>1, KeepReads
<1> QED
  BY <1>3, <1>4

(* A PUT is sent again, or given up. *)
LEMMA RetryReads ==
    ASSUME PublicationInv, ReadInv, NEW c \in Clients, Resend(c) \/ TransportError(c)
    PROVE  ReadInv'
<1>1. /\ client[c].phase = "waiting" /\ Active(c) /\ late' = late \cup {Request(c)}
      /\ UNCHANGED <<head, pages, snaps, chain, installed>>
  BY DEF Resend, TransportError, Abandon, Active
<1>2. client[c] \in ClientState
  BY ClientFacts DEF PublicationInv
<1>3. PICK x :
        /\ client' = [client EXCEPT ![c] = x]
        /\ x.n = client[c].n /\ x.pin = client[c].pin /\ x.cand = client[c].cand /\ x.tx = client[c].tx
  <2>1. CASE Resend(c)
    <3> DEFINE x == [client[c] EXCEPT !.attempt = client[c].attempt + 1]
    <3>1. x.n = client[c].n /\ x.pin = client[c].pin /\ x.cand = client[c].cand /\ x.tx = client[c].tx
      BY <1>2 DEF ClientState
    <3>2. client' = [client EXCEPT ![c] = x]
      BY <2>1 DEF Resend
    <3> HIDE DEF x
    <3> QED
      BY <3>1, <3>2
  <2>2. CASE TransportError(c)
    <3> DEFINE x == [client[c] EXCEPT !.phase = "rereading"]
    <3>1. x.n = client[c].n /\ x.pin = client[c].pin /\ x.cand = client[c].cand /\ x.tx = client[c].tx
      BY <1>2 DEF ClientState
    <3>2. client' = [client EXCEPT ![c] = x]
      BY <2>2 DEF TransportError
    <3> HIDE DEF x
    <3> QED
      BY <3>1, <3>2
  <2> QED
    BY <2>1, <2>2
<1> QED
  BY <1>1, <1>3, StillReads

(* A crash may leave a PUT on its way. *)
LEMMA CrashReads ==
    ASSUME PublicationInv, ReadInv, NEW c \in Clients, Crash(c)
    PROVE  ReadInv'
<1>1. /\ UNCHANGED <<head, pages, snaps, chain, installed>>
      /\ client' = [client EXCEPT ![c] = Quiet(client[c].n)]
      /\ late' = IF client[c].phase = "waiting" THEN late \cup {Request(c)} ELSE late
  BY DEF Crash, Abandon, GiveUp
<1>2. late' \subseteq late \/ (Active(c) /\ late' \subseteq late \cup {Request(c)})
  BY <1>1 DEF Active
<1> QED
  BY <1>1, <1>2, EndReads

(* `list for-push` pins HEAD. *)
LEMMA AdvertiseReads ==
    ASSUME PublicationInv, ReadInv, NEW c \in Clients, Advertise(c)
    PROVE  ReadInv'
<1> DEFINE q == Quiet(client[c].n + 1)
           x == [q EXCEPT !.phase = "advertised", !.pin = head]
<1>1. client' = [client EXCEPT ![c] = x] /\ UNCHANGED <<head, chain, installed, pages, snaps, late>>
  BY DEF Advertise
<1>2. x.tx = NoTx /\ x.phase = "advertised"
  BY DEF Quiet
<1> HIDE DEF x
<1> QED
  BY <1>1, <1>2, StillReads

(* Nothing is published. *)
LEMMA InitRead == Init => ReadInv
<1> SUFFICES ASSUME Init
             PROVE  ReadInv
  OBVIOUS
<1>1. PublicationInv /\ head = Absent /\ Requests = {}
  <2>1. \A c \in Clients : client[c].phase = "idle"
    BY QuietFacts DEF Init
  <2> QED
    BY <2>1, InitInv DEF Init, Requests
<1>2. Len(chain) = 0 /\ Indexed(chain) /\ pages = << >>
  BY <1>1, ChainFacts DEF Init
<1>3. \A i \in 0..Len(chain) : RefsAt(chain, i) \in RefMaps
  <2>1. NoRefs \in RefMaps
    BY DEF NoRefs, RefMaps
  <2> QED
    BY <1>2, <2>1, RefsAtIs
<1>4. OwnInv
  BY QuietFacts DEF Init, OwnInv
<1>5. DOMAIN pages = {}
  BY <1>2
<1> QED
  BY <1>1, <1>3, <1>4, <1>5 DEF ReadInv

(* No step of any process or of the store breaks it. *)
LEMMA NextRead == PublicationInv /\ ReadInv /\ [Next]_vars => ReadInv'
<1> SUFFICES ASSUME PublicationInv, ReadInv, [Next]_vars
             PROVE  ReadInv'
  OBVIOUS
<1>1. CASE UNCHANGED vars
  <2>1. Requests' = Requests /\ OwnInv' /\ Keeps(pages', pages)
    BY <1>1 DEF vars, Requests, Request, ETag, OwnInv, ReadInv, Keeps
  <2>2. UNCHANGED <<head, chain, installed, pages, snaps>>
    BY <1>1 DEF vars
  <2> QED
    BY <2>1, <2>2, KeepReads
<1>2. ASSUME NEW c \in Clients, Proceed(c)
      PROVE  ReadInv'
  <2>1. CASE PushStale(c)
    BY <2>1, EndReads DEF PushStale, GiveUp
  <2>2. CASE PutRefused(c)
    BY <2>2, EndReads DEF PutRefused, Finish
  <2>3. CASE Reread(c) \/ RereadFails(c)
    BY <2>3, EndReads DEF Reread, RereadFails, Finish
  <2> QED
    BY <1>2, <2>1, <2>2, <2>3, PushReads, InitializeReads, PutReturnsReads, RetryReads DEF Proceed
<1>3. ASSUME NEW c \in Clients, Crash(c)
      PROVE  ReadInv'
  BY <1>3, CrashReads
<1>4. ASSUME NEW c \in Pushers, Advertise(c)
      PROVE  ReadInv'
  BY <1>4, AdvertiseReads DEF Clients
<1>5. ASSUME NEW c \in Admins, Maintenance(c) \/ SetHead(c)
      PROVE  ReadInv'
  BY <1>5, MaintenanceReads, SetHeadReads DEF Clients
<1>6. ASSUME NEW r \in late, ServeLate(r)
      PROVE  ReadInv'
  BY <1>6, ServeLateReads
<1> QED
  BY <1>1, <1>2, <1>3, <1>4, <1>5, <1>6 DEF Next

-----------------------------------------------------------------------------
(* What readers get. *)

(* HEAD's floor, pages, tail and snapshot, and those of every HEAD that    *)
(* may still be installed, always describe the whole chain, although they  *)
(* were built from a HEAD that was read before and may have been replaced. *)
THEOREM ReadInvariantHolds == Spec => []ReadInv
<1>1. Init => ReadInv
  BY InitRead
<1>2. PublicationInv /\ ReadInv /\ [Next]_vars => ReadInv'
  BY NextRead
<1> QED
  BY <1>1, <1>2, InvariantHolds, PTL DEF Spec

(* The refs that reconstruct computes from the snapshot, the pages and the *)
(* tail are those of replaying every transaction ever installed, whatever  *)
(* was sealed, compacted, lost or installed late in between.               *)
THEOREM RefsAreRebuilt == Spec => []RefsAreReplayOfChain
<1>1. PublicationInv /\ ReadInv => RefsAreReplayOfChain
  BY RefsAre DEF RefsAreReplayOfChain, RefsAt
<1> QED
  BY <1>1, InvariantHolds, ReadInvariantHolds, PTL

(* HEAD is readable exactly as long as no page on the way from its tip has *)
(* more records than a page may have: the page that a push seals from a    *)
(* full tail is the only way to a HEAD that readers refuse.                *)
THEOREM HeadIsReadable == Spec => [](HeadReadable <=> (head # Absent => PagesFit))
<1>1. PublicationInv /\ ReadInv => (HeadReadable <=> (head # Absent => PagesFit))
  <2> SUFFICES ASSUME PublicationInv, ReadInv, head # Absent
               PROVE  Readable(head) <=> PagesFit
    BY DEF HeadReadable
  <2>1. PagesFit => Readable(head)
    BY HeadReads
  <2>2. Readable(head) => PagesFit
    <3> SUFFICES ASSUME Readable(head), NEW q \in LivePages(head)
                 PROVE  Cardinality(pages[q].txs) <= MaxRecords
      BY DEF PagesFit
    <3>1. Cardinality(pages[q].txs) \in 1..MaxRecords
      BY DEF Readable, Collects
    <3> QED
      BY <3>1, BoundAssumption
  <2> QED
    BY <2>1, <2>2
<1> QED
  BY <1>1, InvariantHolds, ReadInvariantHolds, PTL

(* The steps, as the users of the repository see them: HEAD is replaced,   *)
(* an operation is reported on, or neither.                                *)
LEMMA VisibleStep ==
    ASSUME Next
    PROVE  \/ UNCHANGED <<head, chain, reported>>
           \/ \E c \in Clients : \E code : Finish(c, code) /\ UNCHANGED <<head, chain>>
           \/ \E r \in Requests : /\ Matches(r) /\ Install(r)
                                  /\ \/ reported' = reported
                                     \/ \E c \in Clients : r = Request(c) /\ Finish(c, "ok")
<1>1. ASSUME NEW c \in Clients, PutReturns(c)
      PROVE  \/ Finish(c, "conflict") /\ UNCHANGED <<head, chain>>
             \/ /\ Request(c) \in Requests /\ Matches(Request(c)) /\ Install(Request(c))
                /\ Finish(c, "ok")
  <2>1. Active(c)
    BY <1>1 DEF PutReturns, Active
  <2> QED
    BY <1>1, <2>1, OwnRequest DEF PutReturns
<1>2. ASSUME NEW r \in late, ServeLate(r)
      PROVE  \/ UNCHANGED <<head, chain, reported>>
             \/ r \in Requests /\ Matches(r) /\ Install(r) /\ reported' = reported
  BY <1>2 DEF ServeLate, Requests
<1>3. ASSUME NEW c \in Clients, PutRefused(c) \/ Reread(c) \/ RereadFails(c)
      PROVE  \E code : Finish(c, code) /\ UNCHANGED <<head, chain>>
  BY <1>3 DEF PutRefused, Reread, RereadFails
<1>4. CASE /\ ~ \E c \in Clients : PutReturns(c) \/ PutRefused(c) \/ Reread(c) \/ RereadFails(c)
           /\ ~ \E r \in late : ServeLate(r)
  BY <1>4 DEF Next, Proceed, Advertise, Maintenance, SetHead, Crash, PushStale, Push, Initialize,
              Resend, TransportError
<1> QED
  BY <1>1, <1>2, <1>3, <1>4

(* A push that looks at HEAD again after a transport error is never told   *)
(* that it failed, or lost, when its transaction is in the chain: below    *)
(* HEAD's tip its generation holds another transaction, or HEAD has not    *)
(* got that far.                                                           *)
THEOREM NoPushIsRefusedFalsely == Spec => NoFalseRefusal
<1> DEFINE Fair == \A r \in reported' \ reported : \A c \in Pushers :
                     /\ client[c].phase = "rereading" /\ client[c].kind = "push" /\ client[c].tx = r.tx
                     /\ r.code \in {"error", "conflict"}
                     => ~ OnChain(r.tx)
<1>1. PublicationInv /\ PublicationInv' /\ ReadInv /\ [Next]_vars => [Fair]_vars
  <2> SUFFICES ASSUME PublicationInv, PublicationInv', ReadInv, Next,
                      NEW r \in reported' \ reported, NEW c \in Pushers,
                      client[c].phase = "rereading", client[c].kind = "push", client[c].tx = r.tx,
                      r.code \in {"error", "conflict"}, OnChain(r.tx)
               PROVE  FALSE
    OBVIOUS
  <2>1. c \in Clients /\ r.tx \in Transaction /\ r.tx # NoTx
    <3>1. r \in Report
      BY DEF PublicationInv, TypeOK
    <3>2. r.tx \in Transaction
      BY <3>1 DEF Report
    <3> QED
      BY <3>2, TransactionFacts DEF Clients
  <2>2. PICK d \in Clients : PutReturns(d) \/ PutRefused(d) \/ Reread(d) \/ RereadFails(d)
    <3>1. reported' # reported
      OBVIOUS
    <3> QED
      BY <3>1 DEF Next, Proceed, Advertise, Maintenance, SetHead, Crash, PushStale, Push, Initialize,
                  Resend, TransportError, ServeLate
  <2>3. r.tx = client[d].tx
    BY <2>2 DEF PutReturns, PutRefused, Reread, RereadFails, Finish
  <2>4. d = c
    BY <2>1, <2>3 DEF ReadInv, OwnInv
  <2>5. Reread(c)
    <3>1. RereadFails(c) => r.code = "ambiguous"
      BY DEF RereadFails, Finish
    <3>2. ~ PutReturns(c) /\ ~ PutRefused(c)
      BY DEF PutReturns, PutRefused
    <3> QED
      BY <2>2, <2>4, <3>1, <3>2
  <2>6. r.code = IF head.pub = client[c].cand.pub THEN "ok" ELSE ConfirmPush(c)
    BY <2>5 DEF Reread, Finish, Confirm
  <2>7. ConfirmPush(c) \in {"error", "conflict"}
    BY <2>6
  <2>8. r.tx.gen \in 1..Len(chain) /\ chain[r.tx.gen] = r.tx /\ Len(chain) = head.gen /\ Len(chain) \in Nat
    BY ChainFacts DEF OnChain
  <2>9. \A t \in LogOf(head) : t.gen = r.tx.gen => t = r.tx
    BY <2>8, LogIsOnChain DEF LogOnChain, OnChain
  <2>10. r.tx.gen = client[c].pin.gen + 1 /\ client[c].pin.gen \in Nat
    BY <2>1, ClientFacts, HeadFacts DEF ReadInv, OwnInv, PublicationInv
  <2>11. ~ (head.gen <= client[c].pin.gen)
    BY <2>8, <2>10
  <2>12. PICK same : same = {t \in LogOf(head) : t.gen = client[c].tx.gen}
    OBVIOUS
  <2>13. client[c].tx \in same \/ same = {}
    BY <2>9, <2>12
  <2> QED
    BY <2>7, <2>11, <2>12, <2>13 DEF ConfirmPush
<1> QED
  BY <1>1, InvariantHolds, ReadInvariantHolds, PTL DEF Spec, NoFalseRefusal

-----------------------------------------------------------------------------
(* The refinement: HEAD and what it leads to are a RefLog. *)

(* What RefLog's variables stand for. *)
Rebuilt == RefsOf(head) = RefsAt(chain, Len(chain)) /\ RefsOf(head) \in RefMaps
Committed == {chain[i] : i \in 1..Len(chain)}
Acked == {r.tx : r \in {x \in reported : x.code = "ok"}}

(* An operation that ends changes at most what is acknowledged, and that   *)
(* by a committed transaction.                                             *)
LEMMA FinishRefines ==
    ASSUME PublicationInv', NEW c \in Clients, NEW code, Finish(c, code)
    PROVE  Acked' = Acked \/ \E t \in Committed' : Acked' = Acked \cup {t}
<1>1. CASE client[c].tx = NoTx \/ code # "ok"
  <2>1. {x \in reported' : x.code = "ok"} = {x \in reported : x.code = "ok"}
    BY <1>1 DEF Finish
  <2> QED
    BY <2>1 DEF Acked
<1>2. CASE client[c].tx # NoTx /\ code = "ok"
  <2> DEFINE new == [tx |-> client[c].tx, code |-> "ok"]
  <2>1. reported' = reported \cup {new}
    BY <1>2 DEF Finish
  <2>2. new.code = "ok" /\ new.tx = client[c].tx
    OBVIOUS
  <2> HIDE DEF new
  <2>3. Acked' = Acked \cup {client[c].tx}
    BY <2>1, <2>2 DEF Acked
  <2>4. client[c].tx \in Committed'
    <3>1. \A r \in reported' : r.code = "ok" => (r.tx.gen \in 1..Len(chain') /\ chain'[r.tx.gen] = r.tx)
      BY DEF PublicationInv, AcknowledgedOnChain, OnChain
    <3>2. client[c].tx.gen \in 1..Len(chain') /\ chain'[client[c].tx.gen] = client[c].tx
      BY <2>1, <2>2, <3>1
    <3> QED
      BY <3>2 DEF Committed
  <2> QED
    BY <2>3, <2>4
<1> QED
  BY <1>1, <1>2

(* A HEAD without a transaction keeps the refs, and points at most at      *)
(* another branch that exists.                                             *)
LEMMA AdminRefines ==
    ASSUME PublicationInv, ReadInv, ReadInv', Rebuilt, Rebuilt',
           NEW r \in Requests, Matches(r), Install(r), r.tx = NoTx
    PROVE  /\ chain' = chain /\ head'.gen = head.gen /\ RefsOf(head)' = RefsOf(head)
           /\ head'.sym = head.sym \/ (head'.sym \in Refs /\ RefsOf(head)[head'.sym] # None)
<1>1. ReadyIn(pages, snaps, installed, head, chain, r.head, r.tx)
  BY ReadInvIs DEF Matches, ETag
<1>2. chain' = chain /\ head' = r.head
  BY DEF Install
<1>3. RefsOf(head)' = RefsOf(head)
  BY <1>2 DEF Rebuilt
<1>4. SoundIn(pages, snaps, installed, r.head, chain) /\ r.head.sym \in {head.sym} \cup Refs
  BY <1>1 DEF ReadyIn, WithTx, SymAfter
<1>5. r.head.gen = Len(chain) /\ (r.head.sym # None => RefsAt(chain, r.head.gen)[r.head.sym] # None)
  BY <1>4 DEF SoundIn
<1>6. Len(chain) = head.gen
  BY ChainFacts
<1>7. r.head.sym \in Refs => RefsOf(head)[r.head.sym] # None
  BY <1>5, NoneAssumption DEF Rebuilt
<1> QED
  BY <1>2, <1>3, <1>4, <1>5, <1>6, <1>7

(* The HEAD of a transaction applies it to the refs that readers had. *)
LEMMA TxRefines ==
    ASSUME PublicationInv, ReadInv, Rebuilt, Rebuilt',
           NEW r \in Requests, Matches(r), Install(r), r.tx # NoTx
    PROVE  /\ r.tx \notin Committed /\ Committed' = Committed \cup {r.tx}
           /\ r.tx.gen = head.gen + 1 /\ head'.gen = r.tx.gen
           /\ \A x \in DOMAIN r.tx.updates : RefsOf(head)[x] = r.tx.updates[x].old
           /\ RefsOf(head)' =
                [x \in Refs |-> IF x \in DOMAIN r.tx.updates THEN r.tx.updates[x].new ELSE RefsOf(head)[x]]
           /\ \/ head.gen = 0 /\ head'.sym \in {x \in Refs : RefsOf(head)'[x] # None}
              \/ /\ head.gen > 0
                 /\ head'.sym = IF head.sym # None /\ RefsOf(head)'[head.sym] = None THEN None ELSE head.sym
<1> DEFINE t == r.tx
           n == Len(chain)
           refs == RefsAt(chain, n)
<1>1. ReadyIn(pages, snaps, installed, head, chain, r.head, r.tx)
  BY ReadInvIs DEF Matches, ETag
<1>2. /\ r \in PutRequest /\ Succeeds(r, head) /\ r.head.pub \notin installed /\ t.id = r.head.pub
  BY RequestsType DEF Matches, ETag, PublicationInv, RequestInv
<1>3. chain' = Append(chain, t) /\ head' = r.head
  BY DEF Install
<1>4. Indexed(chain) /\ n \in Nat /\ n = head.gen /\ t \in Transaction /\ t.gen = n + 1 /\ r.head.gen = n + 1
  <2>1. t \in Transaction /\ t.gen = head.gen + 1 /\ r.head.gen = t.gen
    BY <1>2 DEF PutRequest, Succeeds
  <2> QED
    BY <2>1, ChainFacts
<1>5. /\ Len(chain') = n + 1 /\ chain'[n + 1] = t
      /\ \A i \in 1..n : chain'[i] = chain[i]
      /\ RefsAt(chain', n + 1) = Apply(refs, t)
  BY <1>3, <1>4, RefsAtAppend
<1>6. t \notin Committed
  <2>1. \A i \in 1..n : chain[i].id \in installed
    BY DEF PublicationInv, ChainInv
  <2> QED
    BY <1>2, <2>1 DEF Committed
<1>7. Committed' = Committed \cup {t}
  <2>1. Committed' = {chain'[i] : i \in 1..(n + 1)}
    BY <1>5 DEF Committed
  <2>2. \A i \in 1..(n + 1) : i = n + 1 \/ (i \in 1..n /\ chain'[i] = chain[i])
    BY <1>4, <1>5
  <2>3. n + 1 \in 1..(n + 1) /\ \A i \in 1..n : i \in 1..(n + 1)
    BY <1>4
  <2>4. Committed = {chain[i] : i \in 1..n}
    BY DEF Committed
  <2> HIDE DEF t, n
  <2>5. {chain'[i] : i \in 1..(n + 1)} = {chain[i] : i \in 1..n} \cup {t}
    BY <1>5, <2>2, <2>3
  <2> QED
    BY <2>1, <2>4, <2>5
<1>8. refs \in RefMaps /\ Apply(refs, t) \in RefMaps /\ RefsOf(head) = refs /\ RefsOf(head)' = Apply(refs, t)
  BY <1>1, <1>5 DEF ReadyIn, Rebuilt
<1>9. \A x \in DOMAIN t.updates : refs[x] = t.updates[x].old
  BY <1>8, NoneAssumption DEF Apply
<1>10. Apply(refs, t) = [x \in Refs |-> IF x \in DOMAIN t.updates THEN t.updates[x].new ELSE refs[x]]
  BY <1>8, NoneAssumption DEF Apply
<1>11. DOMAIN t.updates \subseteq Refs
  BY <1>4 DEF Transaction
<1>12. SymAfter(head, r.head, t) /\ (r.head.sym # None => RefsAt(chain', r.head.gen)[r.head.sym] # None)
  <2>1. SymAfter(head, r.head, t) /\ SoundIn(pages, snaps, installed, r.head, chain')
    BY <1>1, <1>3 DEF ReadyIn, WithTx
  <2> QED
    BY <2>1 DEF SoundIn
<1>13. CASE head = Absent
  <2>1. head.gen = 0 /\ r.head.sym \in Refs
    BY <1>12, <1>13 DEF Absent, SymAfter
  <2>2. Apply(refs, t)[r.head.sym] # None
    BY <1>4, <1>5, <1>12, <2>1, NoneAssumption
  <2> QED
    BY <1>3, <1>4, <1>6, <1>7, <1>8, <1>9, <1>10, <2>1, <2>2
<1>14. CASE head # Absent
  <2>1. SoundIn(pages, snaps, installed, head, chain) /\ head \in HeadObject
    BY <1>14, ReadInvIs DEF PublicationInv, TypeOK
  <2>2. head.gen >= 1 /\ (head.sym # None => refs[head.sym] # None /\ head.sym \in Refs)
    BY <1>4, <2>1, HeadFacts DEF SoundIn
  <2>3. head.gen > 0
    BY <1>4, <2>2
  <2>4. r.head.sym = IF head.sym # None /\ Apply(refs, t)[head.sym] = None THEN None ELSE head.sym
    <3>1. CASE head.sym \in DOMAIN t.updates /\ t.updates[head.sym].new = None
      BY <1>10, <1>11, <1>12, <1>14, <3>1, NoneAssumption DEF SymAfter
    <3>2. CASE ~ (head.sym \in DOMAIN t.updates /\ t.updates[head.sym].new = None)
      <4>1. r.head.sym = head.sym
        BY <1>12, <1>14, <3>2 DEF SymAfter
      <4>2. head.sym # None => Apply(refs, t)[head.sym] # None
        BY <1>10, <2>2, <3>2
      <4> QED
        BY <4>1, <4>2
    <3> QED
      BY <3>1, <3>2
  <2> QED
    BY <1>3, <1>4, <1>6, <1>7, <1>8, <1>9, <1>10, <2>3, <2>4
<1> QED
  BY <1>13, <1>14

(* What git3 stores implements the contract it has with its users: refs    *)
(* that change only by whole transactions, each committed once and against *)
(* the values it was validated for, a symbolic HEAD that names an existing *)
(* branch or none, and `ok` for committed transactions only.               *)
THEOREM PublicationIsRefLog == Spec => ImplementsRefLog
<1>1. Init => Contract!Init
  <2> SUFFICES ASSUME Init
               PROVE  Contract!Init
    OBVIOUS
  <2>1. head.rev = 0 /\ head.sym = None /\ head.gen = 0 /\ chain = << >> /\ reported = {}
    BY DEF Init, Absent
  <2>2. RefsOf(head) = NoRefs
    BY <2>1 DEF RefsOf
  <2>3. {chain[i] : i \in 1..Len(chain)} = {}
    BY <2>1
  <2> QED
    BY <2>1, <2>2, <2>3 DEF Contract!Init, NoRefs
<1>2. /\ PublicationInv /\ PublicationInv' /\ ReadInv /\ ReadInv' /\ Rebuilt /\ Rebuilt' /\ [Next]_vars
      => [Contract!Next]_(Contract!vars)
  <2> SUFFICES ASSUME PublicationInv, PublicationInv', ReadInv, ReadInv', Rebuilt, Rebuilt', [Next]_vars
               PROVE  [Contract!Next]_(Contract!vars)
    OBVIOUS
  <2>1. CASE UNCHANGED <<head, chain, reported>>
    <3>1. RefsOf(head)' = RefsOf(head)
      BY <2>1 DEF Rebuilt
    <3> QED
      BY <2>1, <3>1 DEF Contract!vars
  <2>2. ASSUME NEW c \in Clients, NEW code, Finish(c, code), UNCHANGED <<head, chain>>
        PROVE  [Contract!Next]_(Contract!vars)
    <3>1. RefsOf(head)' = RefsOf(head) /\ head' = head /\ Committed' = Committed
      BY <2>2 DEF Rebuilt, Committed
    <3>2. CASE Acked' = Acked
      BY <3>1, <3>2 DEF Contract!vars, Acked, Committed
    <3>3. CASE \E t \in Committed' : Acked' = Acked \cup {t}
      <4>1. PICK t \in Committed : Acked' = Acked \cup {t}
        BY <3>1, <3>3
      <4>2. Contract!Acknowledge(t)
        BY <3>1, <4>1 DEF Contract!Acknowledge, Acked, Committed
      <4> QED
        BY <4>1, <4>2 DEF Contract!Next, Committed
    <3> QED
      BY <2>2, <3>2, <3>3, FinishRefines
  <2>3. ASSUME NEW r \in Requests, Matches(r), Install(r),
               reported' = reported \/ \E c \in Clients : r = Request(c) /\ Finish(c, "ok")
        PROVE  [Contract!Next]_(Contract!vars)
    <3>1. CASE r.tx = NoTx
      <4>1. reported' = reported
        BY <2>3, <3>1 DEF Finish, Request
      <4>2. /\ chain' = chain /\ head'.gen = head.gen /\ RefsOf(head)' = RefsOf(head)
            /\ head'.sym = head.sym \/ (head'.sym \in Refs /\ RefsOf(head)[head'.sym] # None)
        BY <2>3, <3>1, AdminRefines
      <4>3. CASE head'.sym = head.sym
        BY <4>1, <4>2, <4>3 DEF Contract!vars
      <4>4. CASE head'.sym \in Refs /\ RefsOf(head)[head'.sym] # None
        <5>1. Contract!Point
          BY <4>1, <4>2, <4>4 DEF Contract!Point
        <5> QED
          BY <5>1 DEF Contract!Next
      <4> QED
        BY <4>2, <4>3, <4>4
    <3>2. CASE r.tx # NoTx
      <4>1. /\ r.tx \notin Committed /\ Committed' = Committed \cup {r.tx}
            /\ r.tx.gen = head.gen + 1 /\ head'.gen = r.tx.gen
            /\ \A x \in DOMAIN r.tx.updates : RefsOf(head)[x] = r.tx.updates[x].old
            /\ RefsOf(head)' =
                 [x \in Refs |-> IF x \in DOMAIN r.tx.updates THEN r.tx.updates[x].new ELSE RefsOf(head)[x]]
            /\ \/ head.gen = 0 /\ head'.sym \in {x \in Refs : RefsOf(head)'[x] # None}
               \/ /\ head.gen > 0
                  /\ head'.sym = IF head.sym # None /\ RefsOf(head)'[head.sym] = None THEN None ELSE head.sym
        BY <2>3, <3>2, TxRefines
      <4>2. Acked' \in {Acked, Acked \cup {r.tx}}
        <5>1. CASE reported' = reported
          BY <5>1 DEF Acked
        <5>2. CASE \E c \in Clients : r = Request(c) /\ Finish(c, "ok")
          <6> DEFINE new == [tx |-> r.tx, code |-> "ok"]
          <6>1. reported' = reported \cup {new}
            BY <3>2, <5>2 DEF Finish, Request
          <6>2. new.code = "ok" /\ new.tx = r.tx
            OBVIOUS
          <6> HIDE DEF new
          <6>3. Acked' = Acked \cup {r.tx}
            BY <6>1, <6>2 DEF Acked
          <6> QED
            BY <6>3
        <5> QED
          BY <2>3, <5>1, <5>2
      <4>3. Contract!Commit(r.tx)
        BY <4>1, <4>2 DEF Contract!Commit, Acked, Committed
      <4>4. r.tx \in Committed' \ Committed
        BY <4>1
      <4> QED
        BY <4>3, <4>4 DEF Contract!Next, Committed
    <3> QED
      BY <3>1, <3>2
  <2>4. CASE UNCHANGED vars
    BY <2>1, <2>4 DEF vars
  <2>5. CASE Next
    BY <2>1, <2>2, <2>3, <2>5, VisibleStep
  <2> QED
    BY <2>4, <2>5
<1>3. PublicationInv /\ ReadInv => Rebuilt
  BY RefsAre DEF Rebuilt
<1> QED
  BY <1>1, <1>2, <1>3, InvariantHolds, ReadInvariantHolds, PTL DEF Spec, ImplementsRefLog, Contract!Spec

=============================================================================
