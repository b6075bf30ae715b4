---------------------------- MODULE Publication ----------------------------
(***************************************************************************)
(* How git3 publishes: one mutable HEAD object per repository, replaced    *)
(* only by a conditional PUT, and immutable objects that HEAD refers to.   *)
(* Pushers run `list for-push` and Push; administrators run Maintenance    *)
(* and SetHead.  All of them end in publishHead, whose PUT may be delayed, *)
(* lost, answered and the answer lost, resent by the SDK, or applied after *)
(* its sender gave up.                                                     *)
(*                                                                         *)
(* The log is what the readers of HEAD replay: the tail embedded in HEAD,  *)
(* the pages HEAD's tip page leads to, and the ref snapshot below them.    *)
(* Packs, WAL bodies and garbage collection are not in this module.        *)
(***************************************************************************)
EXTENDS Integers, FiniteSets, Sequences, FiniteSetsExt

CONSTANTS
    Pushers,       \* processes running git-remote-git3
    Admins,        \* processes running `git3 maintenance` or `git3 set-head`
    Refs,          \* branch names
    Oids,          \* commits
    Ancestors,     \* pairs <<old, new>> for which IsAncestor(old, new) holds
    Batches,       \* the push batches Git may hand to the helper
    None,          \* Go's nil: no ref value, no UUID, no page
    MaxRecords,    \* 32: records of a log tail, and of a log page
    MaxTailBytes,  \* 1 MiB: serialized size of a log tail
    MaxAttempts,   \* git3.maxAttempts: PUTs the SDK sends for one call
    MaxOps,        \* bound: operations of each process
    MaxFaults,     \* bound: lost or slow PUTs and crashes, together
    MaxGeneration  \* bound: transactions of the repository

Clients == Pushers \cup Admins

(* The UUIDs that one operation draws (publication, transaction, page,     *)
(* snapshot, packset) live in different name spaces and are all written    *)
(* here as that operation's own name.                                      *)
Id == Clients \X Nat

RefMaps == [Refs -> Oids \cup {None}]
NoRefs == [r \in Refs |-> None]

ASSUME NoneAssumption == None \notin Id \cup Refs \cup Oids \cup RefMaps
ASSUME BoundAssumption ==
    /\ MaxOps \in [Clients -> Nat] /\ MaxFaults \in Nat /\ MaxGeneration \in Nat /\ MaxAttempts \in Nat \ {0}
    /\ MaxRecords \in Nat \ {0} /\ MaxTailBytes \in Nat
ASSUME ClientAssumption == Pushers \cap Admins = {}
ASSUME BatchAssumption ==
    Batches \subseteq
        [cmds : UNION {[R -> [new : Oids \cup {None}, force : BOOLEAN]] : R \in SUBSET Refs},
         atomic : BOOLEAN]

VARIABLES
    head,       \* the HEAD object
    pages,      \* log-pages/<id>.json, by id
    snaps,      \* refs/<id>.refs, by id
    late,       \* HEAD PUTs whose sender stopped waiting, not yet served
    client,     \* per process: where it is in its operation
    faults,     \* faults so far, for MaxFaults
    chain,      \* history: the transactions of the installed HEADs, in order
    installed,  \* history: publication ids HEAD has ever had
    reported    \* history: what Push told Git about its transaction

vars == <<head, pages, snaps, late, client, faults, chain, installed, reported>>

-----------------------------------------------------------------------------
(* The records of the format. *)

Update == [old : Oids \cup {None}, new : Oids \cup {None}]

(* A transaction: `parent` is its ParentTransactionID, the parent          *)
(* generation is always gen - 1.                                           *)
Transaction == [id : Id, gen : Nat, parent : Id \cup {None},
                updates : UNION {[R -> Update] : R \in SUBSET Refs}]

(* A page pointer: HEAD's tipPage and a page's previous. *)
NoPage == [id |-> None, last |-> 0]
PagePointer == [id : Id \cup {None}, last : Nat]
Page == [last : Nat, prev : PagePointer, txs : SUBSET Transaction]
Snapshot == [gen : Nat, refs : RefMaps]

(* HEAD.  Log records carry their generation, so a tail is a set.  The     *)
(* packset pointer's generation is the log floor (Head.Validate).          *)
HeadObject ==
        [pub : Id \cup {None}, rev : Nat, gen : Nat, tx : Id \cup {None},
         sym : Refs \cup {None}, snap : [id : Id \cup {None}, gen : Nat],
         packset : Id \cup {None}, floor : Nat, floorTx : Id \cup {None},
         tip : PagePointer, tail : SUBSET Transaction]

(* No HEAD object: the pinned state of `list for-push` on a prefix without *)
(* a repository.  Its publication id matches no stored HEAD, so            *)
(* If-None-Match is the conditional PUT against it.                        *)
Absent == [pub |-> None, rev |-> 0, gen |-> 0, tx |-> None, sym |-> None,
           snap |-> [id |-> None, gen |-> 0], packset |-> None, floor |-> 0,
           floorTx |-> None, tip |-> NoPage, tail |-> {}]

(* An ETag is a digest of the body, and every body has its own publication *)
(* id: the two identify each other.                                        *)
ETag(h) == h.pub

-----------------------------------------------------------------------------
(* Reading: collectTransactions and reconstruct. *)

(* P holds every page that the walk from h's tip page visits: the walk     *)
(* stops at the first pointer that does not reach above the log floor.     *)
Follows(P, h) ==
    /\ h.tip.last > h.floor => h.tip.id \in P
    /\ \A q \in P : pages[q].prev.last > h.floor => pages[q].prev.id \in P

LivePages(h) ==
    {q \in DOMAIN pages : \A P \in SUBSET DOMAIN pages : Follows(P, h) => q \in P}

LogOf(h) ==
    {t \in h.tail \cup UNION {pages[q].txs : q \in LivePages(h)} : t.gen > h.floor}

(* Whether collectTransactions accepts what it walked over. *)
Collects(h) ==
    LET log == LogOf(h)
        IdAt(g) == IF g = h.floor THEN {h.floorTx} ELSE {t.id : t \in {u \in log : u.gen = g}}
    IN  /\ Follows(LivePages(h), h)
        /\ \A q \in LivePages(h) :
             /\ Cardinality(pages[q].txs) \in 1..MaxRecords
             /\ pages[q].prev # NoPage =>
                  {pages[q].prev.last + 1} = {t.gen : t \in pages[q].txs} \ {t.gen + 1 : t \in pages[q].txs}
        /\ {t.gen : t \in log} = (h.floor + 1)..h.gen
        /\ Cardinality(log) = h.gen - h.floor
        /\ \A t \in log : IdAt(t.gen - 1) = {t.parent}
        /\ IdAt(h.gen) = {h.tx}

(* model.Apply for one transaction: None when an old value does not match. *)
Apply(refs, t) ==
    IF refs # None /\ \A r \in DOMAIN t.updates : refs[r] = t.updates[r].old
    THEN [r \in Refs |-> IF r \in DOMAIN t.updates THEN t.updates[r].new ELSE refs[r]]
    ELSE None

(* The refs after the records of log with generations in from+1..to. *)
Replay(refs, log, from, to) ==
    LET at[g \in from..to] ==
          IF g = from THEN refs
          ELSE Apply(at[g - 1], CHOOSE t \in log : t.gen = g)
    IN  at[to]

RefsOf(h) ==
    IF h.rev = 0 THEN NoRefs
    ELSE Replay(snaps[h.snap.id].refs, LogOf(h), h.snap.gen, h.gen)

(* readObject succeeds on h. *)
Readable(h) ==
    /\ Collects(h)
    /\ h.snap.id \in DOMAIN snaps
    /\ snaps[h.snap.id].gen = h.snap.gen
    /\ RefsOf(h) \in RefMaps
    /\ h.sym # None => RefsOf(h)[h.sym] # None

-----------------------------------------------------------------------------
(* Writing: validatePush, appendEnvelope and Head.Validate. *)

(* A batch: cmds maps a destination to its new value (None deletes it) and *)
(* its force flag; atomic is the helper's `option atomic`.                 *)
Rejected(refs, b) ==
    {r \in DOMAIN b.cmds :
        LET new == b.cmds[r].new
        IN  /\ new # None /\ refs[r] # None /\ refs[r] # new
            /\ <<refs[r], new>> \notin Ancestors
            /\ ~ b.cmds[r].force}

(* The updates of the batch that take effect; an unchanged pair is none. *)
Effective(refs, b) ==
    LET refused == Rejected(refs, b)
        changed == {r \in DOMAIN b.cmds \ refused : refs[r] # b.cmds[r].new}
    IN  IF b.atomic /\ refused # {} THEN << >>
        ELSE [r \in changed |-> [old |-> refs[r], new |-> b.cmds[r].new]]

MakeTransaction(h, id, us) ==
    [id |-> id, gen |-> h.gen + 1, parent |-> h.tx, updates |-> us]

(* The serialized size of records, in units of one ref update. *)
Bytes(txs) == MapThenSumSet(LAMBDA t : Cardinality(DOMAIN t.updates), txs)

(* Records with these generations go to a page of their own. *)
Seals(txs) == Cardinality(txs) > MaxRecords \/ Bytes(txs) > MaxTailBytes

SealedPageUnlinked(h, t) == [last |-> t.gen, prev |-> NoPage, txs |-> h.tail \cup {t}]
SealedPage(h, t) == [last |-> t.gen, prev |-> h.tip, txs |-> h.tail \cup {t}]

(* appendEnvelope, on the candidate's log. *)
AppendEnvelope(h, t) ==
    IF Seals(h.tail \cup {t})
    THEN [h EXCEPT !.tip = [id |-> t.id, last |-> t.gen], !.tail = {}]
    ELSE [h EXCEPT !.tail = @ \cup {t}]

(* Push's candidate HEAD: the log, the new tip, and no symbolic HEAD when  *)
(* its target is deleted.                                                  *)
PushHead(h, t) ==
    [AppendEnvelope(h, t) EXCEPT
        !.gen = t.gen, !.tx = t.id, !.rev = @ + 1, !.pub = t.id,
        !.sym = IF @ \in DOMAIN t.updates /\ t.updates[@].new = None THEN None ELSE @]

(* initialize's candidate HEAD: an empty snapshot and packset below a tail *)
(* of one record.                                                          *)
InitialHead(t, sym) ==
    [Absent EXCEPT
        !.gen = 1, !.tx = t.id, !.rev = 1, !.pub = t.id, !.sym = sym,
        !.snap = [id |-> t.id, gen |-> 0], !.packset = t.id, !.tail = {t}]

MaintenanceHeadOldSnapshot(h, id, g) ==
    [h EXCEPT
        !.rev = @ + 1, !.pub = id, !.packset = id,
        !.snap = [id |-> id, gen |-> g],
        !.floor = g, !.floorTx = (CHOOSE t \in LogOf(h) : t.gen = g).id,
        !.tail = {t \in @ : t.gen > g},
        !.tip = IF @.last <= g THEN NoPage ELSE @]
MaintenanceHeadSameRevision(h, id, g) ==
    [h EXCEPT
        !.pub = id, !.packset = id,
        !.snap = [id |-> id, gen |-> h.gen],
        !.floor = g, !.floorTx = (CHOOSE t \in LogOf(h) : t.gen = g).id,
        !.tail = {t \in @ : t.gen > g},
        !.tip = IF @.last <= g THEN NoPage ELSE @]

(* Maintenance's candidate HEAD: packset and log floor at generation g,    *)
(* the snapshot at the tip, and only the records above the floor.          *)
MaintenanceHead(h, id, g) ==
    [h EXCEPT
        !.rev = @ + 1, !.pub = id, !.packset = id,
        !.snap = [id |-> id, gen |-> h.gen],
        !.floor = g, !.floorTx = (CHOOSE t \in LogOf(h) : t.gen = g).id,
        !.tail = {t \in @ : t.gen > g},
        !.tip = IF @.last <= g THEN NoPage ELSE @]

(* Head.Validate, which publishHead runs on the candidate. *)
Valid(h) ==
    LET base == IF h.tip = NoPage THEN h.floor ELSE h.tip.last
    IN  /\ h.rev >= 1
        /\ h.floor <= h.snap.gen /\ h.snap.gen <= h.gen
        /\ h.tip.last <= h.gen
        /\ Cardinality(h.tail) <= MaxRecords /\ Bytes(h.tail) <= MaxTailBytes
        /\ {t.gen : t \in h.tail} = (base + 1)..h.gen
        /\ \A t \in h.tail :
             \/ t.gen = base + 1 /\ (h.tip = NoPage => t.parent = h.floorTx)
             \/ \E u \in h.tail : u.gen = t.gen - 1 /\ t.parent = u.id
        /\ \A t \in h.tail : t.gen = h.gen => t.id = h.tx

-----------------------------------------------------------------------------
(* The processes. *)

(* idle        no operation                                                *)
(* advertised  `list for-push` answered; h.advertisement is `pin`          *)
(* waiting     a HEAD PUT is under way                                     *)
(* rereading   the PUT failed in transport; ReadUnconditional comes next   *)
Phases == {"idle", "advertised", "waiting", "rereading"}
Kinds == {"none", "push", "initialize", "maintenance", "set-head"}
NoTx == [id |-> None, gen |-> 0, parent |-> None, updates |-> << >>]

(* n numbers the process's operations, pin is the state the operation is   *)
(* based on, tx its transaction, cand its candidate HEAD, and attempt the  *)
(* number of PUTs sent for cand.                                           *)
Quiet(n) == [phase |-> "idle", kind |-> "none", n |-> n, pin |-> Absent,
             tx |-> NoTx, cand |-> Absent, attempt |-> 0]

Init ==
    /\ head = Absent
    /\ pages = << >>
    /\ snaps = << >>
    /\ late = {}
    /\ client = [c \in Clients |-> Quiet(0)]
    /\ faults = 0
    /\ chain = << >>
    /\ installed = {}
    /\ reported = {}

FinishReportsAll(c, code) ==
    /\ client' = [client EXCEPT ![c] = Quiet(@.n)]
    /\ reported' = reported \cup {[tx |-> client[c].tx, code |-> code]}

(* The operation of c is over; Git learns `code` about its transaction. *)
Finish(c, code) ==
    /\ client' = [client EXCEPT ![c] = Quiet(@.n)]
    /\ reported' = IF client[c].tx = NoTx THEN reported
                   ELSE reported \cup {[tx |-> client[c].tx, code |-> code]}

(* The operation of c is over before it has published anything. *)
GiveUp(c) == client' = [client EXCEPT ![c] = Quiet(@.n)]

(* The operation of c has stored its objects and sends its HEAD. *)
Send(c, kind, pin, tx, cand) ==
    client' = [client EXCEPT ![c] =
        [@ EXCEPT !.phase = "waiting", !.kind = kind, !.pin = pin, !.tx = tx,
                  !.cand = cand, !.attempt = 1]]

(* f with g at key k: immutable objects are only ever added. *)
With(f, k, g) == [x \in DOMAIN f \cup {k} |-> IF x = k THEN g ELSE f[x]]

(* The helper answers `list for-push`, from HEAD or from a local cache     *)
(* whose ETag is still HEAD's; an unreadable repository ends the helper.   *)
Advertise(c) ==
    /\ client[c].phase = "idle"
    /\ client[c].n < MaxOps[c]
    /\ head.gen < MaxGeneration
    /\ head # Absent => Readable(head)
    /\ client' = [client EXCEPT ![c] =
         [Quiet(@.n + 1) EXCEPT !.phase = "advertised", !.pin = head]]
    /\ UNCHANGED <<head, pages, snaps, late, faults, chain, installed, reported>>

(* What Push starts from: the advertised state, or, when none was          *)
(* advertised, a new read of HEAD.                                         *)
PushState(c) == IF client[c].pin = Absent THEN head ELSE client[c].pin

(* An advertisement that came from the cache is compared with HEAD again   *)
(* before it is used.                                                      *)
PushStale(c) ==
    /\ client[c].phase = "advertised"
    /\ client[c].pin # Absent
    /\ ETag(head) # ETag(client[c].pin)
    /\ GiveUp(c)
    /\ UNCHANGED <<head, pages, snaps, late, faults, chain, installed, reported>>

(* Push up to the PUT: validate against the pinned refs, store the WAL     *)
(* pack and the descriptor, seal the tail into a page if it would grow too *)
(* large, build the candidate HEAD.                                        *)
Push(c) ==
    LET s == PushState(c)
        id == <<c, client[c].n>>
    IN  /\ client[c].phase = "advertised"
        /\ s # Absent /\ Readable(s)
        /\ \E b \in Batches :
             LET us == Effective(RefsOf(s), b)
                 t == MakeTransaction(s, id, us)
                 cand == PushHead(s, t)
             IN  IF us = << >>
                 THEN GiveUp(c) /\ pages' = pages
                 ELSE /\ pages' = IF Seals(s.tail \cup {t})
                                  THEN With(pages, id, SealedPage(s, t)) ELSE pages
                      /\ IF Valid(cand) THEN Send(c, "push", s, t, cand) ELSE GiveUp(c)
        /\ UNCHANGED <<head, snaps, late, faults, chain, installed, reported>>

(* Push on a prefix without a repository: initialize up to the PUT.        *)
(* Without a branch to create there is nothing to initialize; with several *)
(* the local HEAD names the default one.                                   *)
Initialize(c) ==
    LET id == <<c, client[c].n>> IN
    /\ client[c].phase = "advertised"
    /\ PushState(c) = Absent
    /\ \E b \in Batches :
         LET us == Effective(NoRefs, b)
             t == MakeTransaction(Absent, id, us)
         IN  IF us = << >>
             THEN GiveUp(c) /\ snaps' = snaps
             ELSE \E sym \in DOMAIN us :
                    LET cand == InitialHead(t, sym) IN
                    /\ snaps' = With(snaps, id, [gen |-> 0, refs |-> NoRefs])
                    /\ IF Valid(cand) THEN Send(c, "initialize", Absent, t, cand) ELSE GiveUp(c)
    /\ UNCHANGED <<head, pages, late, faults, chain, installed, reported>>

(* The generations Maintenance may compact up to.  Without a byte limit it *)
(* is the tip; with one, the end of the longest prefix that fits, which    *)
(* never lies before a transaction that adds no objects.                   *)
Targets(h) ==
    {g \in (h.floor + 1)..h.gen :
        \A t \in LogOf(h) : t.gen = g + 1 =>
            \E r \in DOMAIN t.updates : t.updates[r].new # None}

AdministerSameName(c, kind, cand) ==
    client' = [client EXCEPT ![c] =
        [@ EXCEPT !.phase = "waiting", !.kind = kind, !.pin = head, !.cand = cand, !.attempt = 1]]

(* An administrator's operation pins HEAD and sends cand in its place. *)
Administer(c, kind, cand) ==
    client' = [client EXCEPT ![c] =
        [@ EXCEPT !.phase = "waiting", !.kind = kind, !.n = client[c].n + 1, !.pin = head,
                  !.cand = cand, !.attempt = 1]]

MayAdminister(c) ==
    /\ client[c].phase = "idle"
    /\ client[c].n < MaxOps[c]
    /\ head # Absent /\ Readable(head)

(* Maintenance up to the PUT: store a packset and a snapshot of the pinned *)
(* state, move the log floor.                                              *)
Maintenance(c) ==
    LET id == <<c, client[c].n + 1>> IN
    /\ MayAdminister(c)
    /\ \E g \in Targets(head) :
         LET cand == MaintenanceHead(head, id, g)
         IN  Valid(cand) /\ Administer(c, "maintenance", cand)
    /\ snaps' = With(snaps, id, [gen |-> head.gen, refs |-> RefsOf(head)])
    /\ UNCHANGED <<head, pages, late, faults, chain, installed, reported>>

SetHeadUnchecked(c) ==
    /\ MayAdminister(c)
    /\ \E r \in Refs :
         Administer(c, "set-head",
              [head EXCEPT !.sym = r, !.rev = @ + 1, !.pub = <<c, client[c].n + 1>>])
    /\ UNCHANGED <<head, pages, snaps, late, faults, chain, installed, reported>>

(* SetHead up to the PUT: only an existing branch can become HEAD. *)
SetHead(c) ==
    /\ MayAdminister(c)
    /\ \E r \in Refs :
         /\ RefsOf(head)[r] # None
         /\ Administer(c, "set-head",
              [head EXCEPT !.sym = r, !.rev = @ + 1, !.pub = <<c, client[c].n + 1>>])
    /\ UNCHANGED <<head, pages, snaps, late, faults, chain, installed, reported>>

-----------------------------------------------------------------------------
(* The object store serving conditional PUTs of HEAD. *)

Request(c) == [match |-> ETag(client[c].pin), head |-> client[c].cand, tx |-> client[c].tx]

MatchesAnyHead(r) == head = Absent <=> r.match = None
Matches(r) == ETag(head) = r.match

Install(r) ==
    /\ head' = r.head
    /\ chain' = IF r.tx = NoTx THEN chain ELSE Append(chain, r.tx)
    /\ installed' = installed \cup {r.head.pub}

(* The PUT that c waits for is served and its answer arrives: publishHead  *)
(* returns nil, or CASConflict on 412.                                     *)
PutReturns(c) ==
    /\ client[c].phase = "waiting"
    /\ IF Matches(Request(c))
       THEN Install(Request(c)) /\ Finish(c, "ok")
       ELSE UNCHANGED <<head, chain, installed>> /\ Finish(c, "conflict")
    /\ UNCHANGED <<pages, snaps, late, faults>>

(* 409 ConditionalRequestConflict: refused because another conditional PUT *)
(* of the key is being served; mapS3 makes it CASConflict too.             *)
PutRefused(c) ==
    /\ client[c].phase = "waiting"
    /\ late # {} \/ \E d \in Clients \ {c} : client[d].phase = "waiting"
    /\ Finish(c, "conflict")
    /\ UNCHANGED <<head, pages, snaps, late, faults, chain, installed>>

(* A PUT whose answer is not awaited any more is served.  It may never be. *)
ServeLate(r) ==
    /\ late' = late \ {r}
    /\ IF Matches(r) THEN Install(r) ELSE UNCHANGED <<head, chain, installed>>
    /\ UNCHANGED <<pages, snaps, client, faults, reported>>

(* The PUT, or its answer, is lost or slow; its sender stops waiting. *)
Abandon(c) ==
    /\ faults < MaxFaults
    /\ faults' = faults + 1
    /\ late' = IF client[c].phase = "waiting" THEN late \cup {Request(c)} ELSE late

(* The SDK sends the same PUT again. *)
Resend(c) ==
    /\ client[c].phase = "waiting"
    /\ client[c].attempt < MaxAttempts
    /\ Abandon(c)
    /\ client' = [client EXCEPT ![c].attempt = @ + 1]
    /\ UNCHANGED <<head, pages, snaps, chain, installed, reported>>

(* The SDK gives up: Put returns a transport error. *)
TransportError(c) ==
    /\ client[c].phase = "waiting"
    /\ Abandon(c)
    /\ client' = [client EXCEPT ![c].phase = "rereading"]
    /\ UNCHANGED <<head, pages, snaps, chain, installed, reported>>

-----------------------------------------------------------------------------
(* The rest of publishHead, after a transport error. *)

ConfirmPushByGeneration(c) ==
    IF \E t \in LogOf(head) : t.gen = client[c].tx.gen THEN "ok" ELSE "ambiguous"
ConfirmPushCompacted(c) ==
    IF client[c].tx \in LogOf(head) THEN "ok" ELSE "conflict"

(* The confirm functions: what an operation concludes from an observed     *)
(* HEAD that is not its own publication.                                   *)
ConfirmPush(c) ==
    LET same == {t \in LogOf(head) : t.gen = client[c].tx.gen}
    IN  CASE client[c].tx \in same -> "ok"
          [] client[c].tx \notin same /\ same # {} -> "conflict"
          [] same = {} /\ head.gen <= client[c].pin.gen -> "error"
          [] OTHER -> "ambiguous"

ConfirmInitialize(c) ==
    IF \E t \in LogOf(head) : t.gen = 1 /\ t.id = client[c].tx.id THEN "ok" ELSE "conflict"

ConfirmMaintenance(c) ==
    IF head.packset = client[c].cand.packset THEN "ok" ELSE "ambiguous"

Confirm(c) ==
    CASE client[c].kind = "push" -> ConfirmPush(c)
      [] client[c].kind = "initialize" -> ConfirmInitialize(c)
      [] client[c].kind = "maintenance" -> ConfirmMaintenance(c)
      [] OTHER -> "ambiguous"

Reread(c) ==
    /\ client[c].phase = "rereading"
    /\ head # Absent /\ Readable(head)
    /\ Finish(c, IF head.pub = client[c].cand.pub THEN "ok" ELSE Confirm(c))
    /\ UNCHANGED <<head, pages, snaps, late, faults, chain, installed>>

(* ReadUnconditional fails: HEAD is absent or unreadable, or the network   *)
(* is still down.                                                          *)
RereadFails(c) ==
    /\ client[c].phase = "rereading"
    /\ Finish(c, "ambiguous")
    /\ UNCHANGED <<head, pages, snaps, late, faults, chain, installed>>

(* The process dies; what it sent is still on its way. *)
Crash(c) ==
    /\ client[c].phase # "idle"
    /\ Abandon(c)
    /\ GiveUp(c)
    /\ UNCHANGED <<head, pages, snaps, chain, installed, reported>>

-----------------------------------------------------------------------------
(* The steps of an operation that has begun. *)
Proceed(c) ==
    \/ PushStale(c) \/ Push(c) \/ Initialize(c)
    \/ PutReturns(c) \/ PutRefused(c) \/ Resend(c) \/ TransportError(c)
    \/ Reread(c) \/ RereadFails(c)

Next ==
    \/ \E c \in Pushers : Advertise(c)
    \/ \E c \in Admins : Maintenance(c) \/ SetHead(c)
    \/ \E c \in Clients : Proceed(c) \/ Crash(c)
    \/ \E r \in late : ServeLate(r)

Spec == Init /\ [][Next]_vars

-----------------------------------------------------------------------------
(* Properties. *)

(* The types of the state; `late` and `client` are records of their own. *)
PutRequest == [match : Id \cup {None}, head : HeadObject, tx : Transaction \cup {NoTx}]
ClientState ==
    [phase : Phases, kind : Kinds, n : Nat, pin : HeadObject,
     tx : Transaction \cup {NoTx}, cand : HeadObject, attempt : Nat]
Report == [tx : Transaction, code : {"ok", "conflict", "error", "ambiguous"}]

(* Every variable has its type: HEAD and the objects stay records of the   *)
(* format, and Push reports only on transactions.                          *)
TypeOK ==
    /\ head \in HeadObject
    /\ DOMAIN pages \subseteq Id /\ pages \in [DOMAIN pages -> Page]
    /\ DOMAIN snaps \subseteq Id /\ snaps \in [DOMAIN snaps -> Snapshot]
    /\ late \subseteq PutRequest
    /\ client \in [Clients -> ClientState]
    /\ faults \in Nat
    /\ chain \in Seq(Transaction)
    /\ installed \subseteq Id
    /\ reported \subseteq Report

OnChain(t) == t.gen \in 1..Len(chain) /\ chain[t.gen] = t

(* SPEC 6.3(7): the transactions of the installed HEADs form one gap-free  *)
(* parent chain that ends at HEAD's tip, and none is in it twice, although *)
(* writers race and the SDK and the network duplicate their HEAD PUTs.     *)
ChainGapFree ==
    /\ head.gen = Len(chain)
    /\ head.tx = IF chain = << >> THEN None ELSE chain[Len(chain)].id
    /\ \A i \in 1..Len(chain) :
         /\ chain[i].gen = i
         /\ chain[i].parent = IF i = 1 THEN None ELSE chain[i - 1].id
         /\ \A j \in 1..Len(chain) : chain[i].id = chain[j].id => i = j

(* SPEC 14.3: a push that Push reports as published is in the chain at its *)
(* generation and stays there, also when publishHead only inferred it from *)
(* a later HEAD.                                                           *)
AcknowledgedOnChain ==
    \A r \in reported : r.code = "ok" => OnChain(r.tx)

(* SPEC 6.3(3), (7) and 8 (limits): whatever HEAD is installed, readObject *)
(* accepts it: the pages and the snapshot that it leads to are stored and  *)
(* hold a gap-free log from the floor to the tip.                          *)
HeadReadable == head # Absent => Readable(head)

(* SPEC 6.3(9): the snapshot and the records that readers reach rebuild    *)
(* what replaying every installed transaction from the empty map gives.    *)
RefsAreReplayOfChain ==
    head # Absent =>
        RefsOf(head) = Replay(NoRefs, {chain[i] : i \in 1..Len(chain)}, 0, Len(chain))

(* What readers reach from HEAD was installed: no record of a transaction  *)
(* that lost its race, whose page or tail was built all the same.          *)
LogOnChain == \A t \in LogOf(head) : OnChain(t)

(* SPEC 6.3(4)-(6): every replacement of HEAD advances the revision by one *)
(* under a publication id never used before, and either keeps the logical  *)
(* tip or advances it by one; compaction never goes back.                  *)
ReplacementStep ==
    /\ head'.rev = head.rev + 1
    /\ head'.pub \notin installed
    /\ \/ head'.gen = head.gen /\ head'.tx = head.tx
       \/ head'.gen = head.gen + 1 /\ head'.tx # head.tx
    /\ head'.floor >= head.floor /\ head'.snap.gen >= head.snap.gen
HeadReplacements == [][head' # head => ReplacementStep]_head

(* A push that looks at HEAD again after a transport error is not told     *)
(* that it failed or lost a race when its transaction is in the chain.     *)
NoFalseRefusal ==
    [][\A r \in reported' \ reported : \A c \in Pushers :
          /\ client[c].phase = "rereading" /\ client[c].kind = "push" /\ client[c].tx = r.tx
          /\ r.code \in {"error", "conflict"}
          => ~ OnChain(r.tx)]_vars

Contract == INSTANCE RefLog WITH
    refs <- RefsOf(head), sym <- head.sym, gen <- head.gen,
    committed <- {chain[i] : i \in 1..Len(chain)},
    acked <- {r.tx : r \in {x \in reported : x.code = "ok"}}

(* The stored HEAD, pages and snapshots implement the contract of RefLog. *)
ImplementsRefLog == Contract!Spec

(* The inductive invariant behind the properties above.  A request is a    *)
(* HEAD PUT that is awaited, may have been applied, or is late; an id is   *)
(* used when some HEAD, request or page has it.                            *)
Requests == late \cup {Request(c) : c \in {d \in Clients : client[d].phase \in {"waiting", "rereading"}}}
Used == installed \cup DOMAIN pages \cup {r.head.pub : r \in Requests}

(* r would replace h: it is h with a moved floor or a new symbolic HEAD,   *)
(* or h with r.tx on top of it, in the tail or in a new page.              *)
Succeeds(r, h) ==
    /\ r.head.rev = h.rev + 1
    /\ r.head.floor >= h.floor
    /\ h.snap.gen <= r.head.snap.gen /\ r.head.snap.gen <= r.head.gen
    /\ \/ /\ r.tx = NoTx
          /\ r.head.gen = h.gen /\ r.head.tx = h.tx
          /\ r.head.tail \subseteq h.tail
          /\ r.head.tip \in {h.tip, NoPage}
          /\ r.head.pub \notin DOMAIN pages
       \/ /\ r.tx # NoTx /\ r.tx.gen = h.gen + 1 /\ r.tx.parent = h.tx
          /\ r.tx.id = r.head.pub
          /\ r.head.gen = r.tx.gen /\ r.head.tx = r.tx.id
          /\ \/ /\ r.head.tail \subseteq h.tail \cup {r.tx} /\ r.head.tip = h.tip
                /\ r.head.pub \notin DOMAIN pages
             \/ /\ r.head.tail = {} /\ r.head.tip.id = r.tx.id
                /\ r.tx.id \in DOMAIN pages
                /\ pages[r.tx.id].prev = h.tip
                /\ pages[r.tx.id].txs \subseteq h.tail \cup {r.tx}

(* A page pointer that readers may follow: to a page of an installed HEAD. *)
Published(p) == p = NoPage \/ p.id \in DOMAIN pages \cap installed

HeadInv ==
    /\ IF head.pub = None THEN head = Absent ELSE head.pub \in installed
    /\ head.snap.gen <= head.gen
    /\ Published(head.tip)
    /\ \A t \in head.tail : OnChain(t)

PageInv ==
    \A q \in DOMAIN pages \cap installed :
        Published(pages[q].prev) /\ \A t \in pages[q].txs : OnChain(t)

ChainInv ==
    /\ ChainGapFree
    /\ \A i \in 1..Len(chain) : chain[i].id \in installed

RequestInv ==
    /\ \A r \in Requests :
         /\ r.head.pub \in Id
         /\ r.match \in installed \cup {None}
         /\ r.match = ETag(head) => Succeeds(r, head) /\ r.head.pub \notin installed
         /\ r.tx # NoTx => r.tx.id = r.head.pub
         /\ r.tx # NoTx /\ r.head.pub \in installed => OnChain(r.tx)
    /\ \A r, s \in Requests : r.head.pub = s.head.pub => r.tx = s.tx

ClientInv ==
    \A c \in Clients :
        /\ client[c].phase = "advertised" =>
             /\ client[c].pin.pub \in installed \cup {None}
             /\ client[c].pin.pub = head.pub => client[c].pin = head
             /\ <<c, client[c].n>> \notin Used
             /\ client[c].tx = NoTx
        /\ client[c].phase = "idle" => client[c].tx = NoTx
        /\ client[c].tx # NoTx => client[c].kind \in {"push", "initialize"}
        /\ \A id \in Used : id[1] = c => id[2] <= client[c].n

PublicationInv ==
    TypeOK /\ HeadInv /\ PageInv /\ ChainInv /\ RequestInv /\ ClientInv /\ AcknowledgedOnChain

-----------------------------------------------------------------------------
(* What readers rebuild, as a second inductive invariant.  The records of  *)
(* ch with generations from+1..to, and the refs and the transaction of     *)
(* generation g.                                                           *)
Records(ch, from, to) == {ch[i] : i \in (from + 1)..to}
RefsAt(ch, g) == Replay(NoRefs, {ch[i] : i \in 1..Len(ch)}, 0, g)
TxAt(ch, g) == IF g = 0 THEN None ELSE ch[g].id

(* The page at the end of p is stored and ends where p says. *)
Leads(p) == p = NoPage \/ (p.id \in DOMAIN pages /\ pages[p.id].last = p.last)

(* Page q holds records of ch without a gap, down to its previous page, or *)
(* to a floor below which the readers of a HEAD with this floor never go.  *)
PageSound(q, ch, floor) ==
    \E from \in 0..(pages[q].last - 1) :
        /\ pages[q].last <= Len(ch) /\ pages[q].txs = Records(ch, from, pages[q].last)
        /\ IF pages[q].prev = NoPage THEN from <= floor
           ELSE from = pages[q].prev.last /\ Leads(pages[q].prev)

(* Where the tail begins. *)
Base(h) == IF h.tip = NoPage THEN h.floor ELSE h.tip.last

(* h describes the transactions of ch: readers find all of them above the  *)
(* floor, and a snapshot of the refs at a generation not below it.         *)
Sound(h, ch) ==
    /\ h.rev >= 1 /\ h.gen >= 1 /\ h.gen = Len(ch)
    /\ h.floor <= h.snap.gen /\ h.snap.gen <= h.gen
    /\ h.floorTx = TxAt(ch, h.floor) /\ h.tx = TxAt(ch, h.gen)
    /\ Leads(h.tip) /\ h.floor <= Base(h) /\ Base(h) <= h.gen
    /\ h.tip # NoPage => h.floor < h.tip.last
    /\ h.tail = Records(ch, Base(h), h.gen)
    /\ h.snap.id \in DOMAIN snaps \cap (installed \cup {h.pub})
    /\ snaps[h.snap.id] = [gen |-> h.snap.gen, refs |-> RefsAt(ch, h.snap.gen)]
    /\ h.sym # None => RefsAt(ch, h.gen)[h.sym] # None

ChainWith(r) == IF r.tx = NoTx THEN chain ELSE Append(chain, r.tx)

(* Serving r keeps the readers of HEAD happy: it is for the refs that HEAD *)
(* has, its page fits on top of HEAD's log, and the symbolic HEAD changes  *)
(* as set-head, initialize or Push may change it.                          *)
Ready(r) ==
    /\ Sound(r.head, ChainWith(r))
    /\ r.tx = NoTx => r.head.sym \in {head.sym} \cup Refs
    /\ r.tx # NoTx =>
        /\ Apply(RefsAt(chain, Len(chain)), r.tx) \in RefMaps
        /\ r.tx.id \in DOMAIN pages => PageSound(r.tx.id, ChainWith(r), r.head.floor)
        /\ IF head = Absent THEN r.head.sym \in Refs
           ELSE IF head.sym \in DOMAIN r.tx.updates /\ r.tx.updates[head.sym].new = None
           THEN r.head.sym = None
           ELSE r.head.sym = head.sym

OwnInv ==
    \A c \in Clients : client[c].tx # NoTx =>
        client[c].tx.id = <<c, client[c].n>> /\ client[c].tx.gen = client[c].pin.gen + 1

(* SPEC 6.3(3), (7) and (9) together, for HEAD and for every request that  *)
(* may still replace it: HEAD's floor, pages, tail and snapshot describe   *)
(* the whole chain, whose transactions all applied to the refs they were   *)
(* validated for.                                                          *)
ReadInv ==
    /\ head # Absent => Sound(head, chain)
    /\ \A i \in 0..Len(chain) : RefsAt(chain, i) \in RefMaps
    /\ \A q \in DOMAIN pages \cap installed : PageSound(q, chain, head.floor)
    /\ \A r \in Requests : r.match = ETag(head) => Ready(r)
    /\ OwnInv

(* No page that readers of HEAD walk over has more records than they       *)
(* accept.                                                                 *)
PagesFit == \A q \in LivePages(head) : Cardinality(pages[q].txs) <= MaxRecords

=============================================================================
