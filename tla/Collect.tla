------------------------------ MODULE Collect ------------------------------
(***************************************************************************)
(* Compaction and garbage collection: Maintenance replaces log records by  *)
(* packs whose names are digests of their contents, and `git3 gc` deletes  *)
(* what HEAD does not reach, under a barrier that HEAD carries.  Pushes,   *)
(* maintenance and collections run side by side and meet only in the       *)
(* conditional PUT of HEAD; deletes are not conditional on HEAD.           *)
(*                                                                         *)
(* The repository has one branch on one line of commits 1..Tip, 0 is no    *)
(* branch.  How HEAD encodes its log, and what publishHead concludes from  *)
(* a lost answer, is module Publication's.                                 *)
(***************************************************************************)
EXTENDS Integers, Sequences, FiniteSets

CONSTANTS
    Workers,      \* processes, each running one command after the other
    None,         \* no barrier, no plan
    Genesis,      \* the name of the push that initialized the repository
    Tip,          \* the commits are 1..Tip
    Fanouts,      \* values of `maintenance --fanout`; below 2 it means 4
    MaxLevel,     \* bound: levels of a packset
    MaxOps,       \* bound: names a process draws
    MaxFaults,    \* bound: crashes, and requests nobody waits for
    Overlap       \* may a plan be resumed or aborted while it is executed?

ASSUME TipAssumption == Tip \in Nat \ {0} /\ MaxLevel \in Nat
ASSUME FanoutAssumption == Fanouts \subseteq Nat \ {0, 1}
ASSUME LimitAssumption == MaxOps \in Nat /\ MaxFaults \in Nat /\ Overlap \in BOOLEAN
ASSUME NameAssumption == None \notin (Workers \X Nat) \cup {Genesis} /\ Genesis \notin Workers \X Nat

(* The UUIDs of one publication: its transaction, packset, snapshot, plan. *)
Id == (Workers \X Nat) \cup {Genesis}
Commits == 1..Tip
Packs == SUBSET Commits
Levels == 0..MaxLevel

(* Immutable objects.  A push stores its descriptor, WAL pack and log page *)
(* ("log"), maintenance its packset and snapshot ("state") under UUIDs; a  *)
(* pack and its index are named after what the pack contains.              *)
LogKey(id) == <<"log", id>>
StateKey(id) == <<"state", id>>
PlanKey(id) == <<"plan", id>>
PackKey(p) == <<"pack", p>>
Key == ({"log", "state", "plan"} \X Id) \cup ({"pack"} \X Packs)

(* A log record: the commit its transaction moves the branch to and the    *)
(* objects of its WAL pack.                                                *)
Record == [id : Id, tip : 0..Tip, objs : Packs]

(* HEAD: `floor` is the branch at the log floor.  The tip of the branch is *)
(* that of the last record, or of the floor.                               *)
HeadObject == [pub : Id, state : Id, levels : [Levels -> SUBSET Packs], floor : 0..Tip,
               log : Seq(Record), barrier : Id \cup {None}]

BranchOf(h) == IF h.log = << >> THEN h.floor ELSE h.log[Len(h.log)].tip
Records(h) == {h.log[i] : i \in 1..Len(h.log)}
LivePacks(h) == UNION {h.levels[l] : l \in Levels}

(* liveKeys: what the readers of h and the executors of its plan need. *)
LiveKeys(h) ==
    {StateKey(h.state)} \cup {PackKey(p) : p \in LivePacks(h)}
    \cup {LogKey(t.id) : t \in Records(h)}
    \cup (IF h.barrier = None THEN {} ELSE {PlanKey(h.barrier)})

VARIABLES
    head,    \* the HEAD object
    stored,  \* the immutable objects
    plans,   \* the candidates of every plan written
    worker,  \* per process: where it is in its command
    late,    \* HEAD PUTs whose sender is gone, not yet served
    strays,  \* DELETEs whose sender is gone, not yet served
    faults   \* faults so far, for MaxFaults

vars == <<head, stored, plans, worker, late, strays, faults>>

-----------------------------------------------------------------------------
(* Packs and packsets. *)

(* The objects of commit `new` that a repository at `old` lacks: CreatePack *)
(* with the positive ref `new` and the negative ref `old`.                  *)
CreatePackInclusive(new, old) == old..new
CreatePack(new, old) == (old + 1)..new

(* The packs of a level as a list has them, and the merge loop over the    *)
(* levels: a level of `fanout` packs or more becomes one pack of the next. *)
(* carry[l] is what level l receives: the new pack, or a merged one.       *)
Full(levels, l, carry, fanout) == Cardinality(levels[l]) + Cardinality(carry) >= fanout

CarriesOldOnly(levels, p, fanout) ==
    [l \in Levels |->
        IF l = 0 THEN {p}
        ELSE IF Full(levels, l - 1, {p}, fanout) THEN {UNION levels[l - 1]} ELSE {}]
Carries(levels, p, fanout) ==
    LET carry[l \in Levels] ==
          IF l = 0 THEN {p}
          ELSE IF Full(levels, l - 1, carry[l - 1], fanout)
               THEN {UNION (levels[l - 1] \cup carry[l - 1])} ELSE {}
    IN  carry

(* MaxLevel is never merged. *)
Compacted(levels, p, fanout) ==
    LET carry == Carries(levels, p, fanout)
    IN  [l \in Levels |-> IF l < MaxLevel /\ Full(levels, l, carry[l], fanout) THEN {}
                          ELSE levels[l] \cup carry[l]]

(* Packset.Validate refuses a level that lists one pack twice. *)
ValidPackset(levels, p, fanout) ==
    LET carry == Carries(levels, p, fanout)
    IN  \A l \in Levels : ~ (l < MaxLevel /\ Full(levels, l, carry[l], fanout)) =>
          carry[l] \cap levels[l] = {}

(* The packs that Maintenance uploads: the new one and the merged ones. *)
Uploads(levels, p, fanout) == UNION {Carries(levels, p, fanout)[l] : l \in Levels}

-----------------------------------------------------------------------------
(* The processes. *)

(* idle        no command                                                  *)
(* uploading   push, maintenance: HEAD is pinned, the objects come next    *)
(* listing     gc: HEAD is pinned, Walk comes next                         *)
(* publishing  a HEAD PUT is under way                                     *)
(* rereading   gc: the barrier is published, ReadUnconditional comes next  *)
(* deleting    gc, gc --resume: candidates are being deleted               *)
Phases == {"idle", "uploading", "listing", "publishing", "rereading", "deleting"}

(* n counts the names drawn, pin is the HEAD a command is based on, cand   *)
(* the one it publishes, puts the objects it uploads, plan the plan it     *)
(* executes, todo the candidates it has yet to delete, and lenient whether *)
(* a missing candidate is no error (allowMissing).                         *)
Idle(h, n) == [phase |-> "idle", n |-> n, pin |-> h, cand |-> h, puts |-> {},
               plan |-> None, todo |-> {}, lenient |-> FALSE]

InitialHead == [pub |-> Genesis, state |-> Genesis, levels |-> [l \in Levels |-> {}], floor |-> 0,
             log |-> <<[id |-> Genesis, tip |-> 1, objs |-> {1}]>>, barrier |-> None]

(* The state that initialize leaves. *)
Init ==
    /\ head = InitialHead
    /\ stored = LiveKeys(InitialHead)
    /\ plans = << >>
    /\ worker = [c \in Workers |-> Idle(InitialHead, 0)]
    /\ late = {}
    /\ strays = {}
    /\ faults = 0

(* The record of c that is no longer in a command; it keeps no HEAD. *)
Rest(c) == Idle(InitialHead, worker[c].n)
Becomes(c, w) == worker' = [worker EXCEPT ![c] = w]
NextId(c) == <<c, worker[c].n + 1>>
MayBegin(c) == worker[c].phase = "idle" /\ worker[c].n < MaxOps

(* A command that pins HEAD, uploads puts and then publishes cand, unless  *)
(* cand is HEAD itself: then it ends with the upload.                      *)
Begin(c, puts, cand) ==
    Becomes(c, [Rest(c) EXCEPT !.phase = "uploading", !.n = worker[c].n + 1, !.pin = head,
                               !.puts = puts, !.cand = cand])

(* Push's candidate: a record on top of HEAD, with HEAD's barrier. *)
PushRecord(h, id, v) == [id |-> id, tip |-> v, objs |-> CreatePack(v, BranchOf(h))]
PushHeadNoBarrier(h, id, v) ==
    [h EXCEPT !.pub = id, !.log = Append(@, PushRecord(h, id, v)), !.barrier = None]
PushHead(h, id, v) == [h EXCEPT !.pub = id, !.log = Append(@, PushRecord(h, id, v))]

Push(c) ==
    /\ MayBegin(c)
    /\ \E v \in 0..Tip \ {BranchOf(head)} :
         Begin(c, {LogKey(NextId(c))}, PushHead(head, NextId(c), v))
    /\ UNCHANGED <<head, stored, plans, late, strays, faults>>

(* The records Maintenance may compact: all, or, with --max-bytes, the     *)
(* longest prefix that fits.                                               *)
Targets(h) ==
    {i \in 1..Len(h.log) : i < Len(h.log) => h.log[i + 1].objs # {}}

(* Maintenance and GCExecute fail with GC_BARRIER_ACTIVE otherwise. *)
AnyBarrier == TRUE
NoBarrier == head.barrier = None

(* Maintenance's candidate: i records become the pack p, with fanout. *)
MaintenanceHead(h, id, i, p, fanout) ==
    [h EXCEPT !.pub = id, !.state = id, !.floor = h.log[i].tip,
              !.log = SubSeq(@, i + 1, Len(@)), !.levels = Compacted(@, p, fanout)]

(* Maintenance uploads its packs before it validates the packset; one that *)
(* is refused leaves them behind.                                          *)
Maintenance(c) ==
    /\ MayBegin(c)
    /\ NoBarrier
    /\ \E i \in Targets(head), fanout \in Fanouts :
         LET p == CreatePack(head.log[i].tip, head.floor)
             packs == {PackKey(q) : q \in Uploads(head.levels, p, fanout)}
         IN  IF ValidPackset(head.levels, p, fanout)
             THEN Begin(c, packs \cup {StateKey(NextId(c))},
                        MaintenanceHead(head, NextId(c), i, p, fanout))
             ELSE Begin(c, packs, head)
    /\ UNCHANGED <<head, stored, plans, late, strays, faults>>

(* immutable and uploadFile: an object that is there already is verified   *)
(* and taken as it is.                                                     *)
Upload(c) ==
    /\ worker[c].phase = "uploading"
    /\ stored' = stored \cup worker[c].puts
    /\ Becomes(c, IF worker[c].cand = worker[c].pin THEN Rest(c)
                  ELSE [worker[c] EXCEPT !.phase = "publishing", !.puts = {}])
    /\ UNCHANGED <<head, plans, late, strays, faults>>

(* gc --execute: gcDryRun reads HEAD; another barrier is an error. *)
GCExecute(c) ==
    /\ MayBegin(c)
    /\ NoBarrier
    /\ Becomes(c, [Rest(c) EXCEPT !.phase = "listing", !.n = worker[c].n + 1, !.pin = head])
    /\ UNCHANGED <<head, stored, plans, late, strays, faults>>

(* The rest of gcDryRun and GCExecute up to the PUT of the barrier: of the *)
(* listed objects that the pinned HEAD does not reach, the plan takes      *)
(* those older than the operator's cutoff.                                 *)
GCPlan(c) ==
    LET id == <<c, worker[c].n>> IN
    /\ worker[c].phase = "listing"
    /\ \E old \in SUBSET (stored \ LiveKeys(worker[c].pin)) :
         plans' = [i \in DOMAIN plans \cup {id} |-> IF i = id THEN old ELSE plans[i]]
    /\ stored' = stored \cup {PlanKey(id)}
    /\ Becomes(c, [worker[c] EXCEPT
         !.phase = "publishing", !.plan = id, !.cand = [worker[c].pin EXCEPT !.pub = id, !.barrier = id]])
    /\ UNCHANGED <<head, late, strays, faults>>

(* validateGCCandidates on a HEAD just read, whose barrier is the plan.    *)
(* That a candidate's size, ETag and time are still the plan's is not      *)
(* modelled: times are cut to seconds, and a pack uploaded again has the   *)
(* same ETag.                                                              *)
Deletable(plan, lenient) ==
    /\ head.barrier = plan
    /\ plans[plan] \cap LiveKeys(head) = {}
    /\ lenient \/ plans[plan] \subseteq stored

Deleting(c, plan, lenient) ==
    [Rest(c) EXCEPT !.phase = "deleting", !.pin = head, !.plan = plan,
                    !.todo = plans[plan], !.lenient = lenient]

(* The second read of GCExecute. *)
GCReread(c) ==
    /\ worker[c].phase = "rereading"
    /\ Becomes(c, IF Deletable(worker[c].plan, FALSE)
                  THEN Deleting(c, worker[c].plan, FALSE) ELSE Rest(c))
    /\ UNCHANGED <<head, stored, plans, late, strays, faults>>

(* The operator's discipline: a plan is resumed or aborted only when no    *)
(* process works on it any more and the requests that processes have left  *)
(* behind are served or lost.                                              *)
Abandoned(plan) ==
    Overlap \/ (late = {} /\ strays = {} /\ \A c \in Workers : worker[c].plan # plan)

GCResume(c) ==
    /\ MayBegin(c)
    /\ head.barrier # None /\ Abandoned(head.barrier)
    /\ PlanKey(head.barrier) \in stored
    /\ Deletable(head.barrier, TRUE)
    /\ Becomes(c, Deleting(c, head.barrier, TRUE))
    /\ UNCHANGED <<head, stored, plans, late, strays, faults>>

(* deleteGCCandidates: one candidate; a missing one is an error of a first *)
(* execution.                                                              *)
DeleteCandidate(c) ==
    /\ worker[c].phase = "deleting"
    /\ \E k \in worker[c].todo :
         /\ stored' = stored \ {k}
         /\ Becomes(c, IF k \in stored \/ worker[c].lenient
                       THEN [worker[c] EXCEPT !.todo = @ \ {k}] ELSE Rest(c))
    /\ UNCHANGED <<head, plans, late, strays, faults>>

(* clearGCBarrier, up to its PUT: at the end of GCExecute and GCResume,    *)
(* against the HEAD they have validated, and in GCAbort.                   *)
ClearGCBarrierSameName(c, pin) ==
    Becomes(c, [Rest(c) EXCEPT
        !.phase = "publishing", !.n = worker[c].n + 1, !.pin = pin, !.plan = pin.barrier,
        !.cand = [pin EXCEPT !.barrier = None]])
ClearGCBarrier(c, pin) ==
    Becomes(c, [Rest(c) EXCEPT
        !.phase = "publishing", !.n = worker[c].n + 1, !.pin = pin, !.plan = pin.barrier,
        !.cand = [pin EXCEPT !.pub = NextId(c), !.barrier = None]])

GCFinish(c) ==
    /\ worker[c].phase = "deleting"
    /\ worker[c].todo = {}
    /\ ClearGCBarrier(c, worker[c].pin)
    /\ UNCHANGED <<head, stored, plans, late, strays, faults>>

GCAbort(c) ==
    /\ MayBegin(c)
    /\ head.barrier # None /\ Abandoned(head.barrier)
    /\ ClearGCBarrier(c, head)
    /\ UNCHANGED <<head, stored, plans, late, strays, faults>>

-----------------------------------------------------------------------------
(* The object store serving HEAD PUTs and stray requests. *)

MatchesAnything(r) == TRUE
Matches(r) == head.pub = r.match

Request(c) == [match |-> worker[c].pin.pub, head |-> worker[c].cand]

(* publishHead: a conflict ends the command. *)
Publish(c) ==
    /\ worker[c].phase = "publishing"
    /\ IF Matches(Request(c))
       THEN /\ head' = worker[c].cand
            /\ Becomes(c, IF worker[c].plan # None /\ worker[c].cand.barrier = worker[c].plan
                          THEN [worker[c] EXCEPT !.phase = "rereading"] ELSE Rest(c))
       ELSE head' = head /\ Becomes(c, Rest(c))
    /\ UNCHANGED <<stored, plans, late, strays, faults>>

(* A process dies, or stops on an error: some of its uploads are done, and *)
(* the request it waited for is still on its way.                          *)
Crash(c) ==
    /\ worker[c].phase # "idle"
    /\ faults < MaxFaults
    /\ faults' = faults + 1
    /\ late' = IF worker[c].phase = "publishing" THEN late \cup {Request(c)} ELSE late
    /\ \/ strays' = strays
       \/ worker[c].phase = "deleting" /\ \E k \in worker[c].todo : strays' = strays \cup {k}
    /\ \E done \in SUBSET worker[c].puts : stored' = stored \cup done
    /\ Becomes(c, Rest(c))
    /\ UNCHANGED <<head, plans>>

(* A HEAD PUT that nobody waits for is served, or lost. *)
ServeLate(r) ==
    /\ late' = late \ {r}
    /\ head' = head \/ (Matches(r) /\ head' = r.head)
    /\ UNCHANGED <<stored, plans, worker, strays, faults>>

(* A stray DELETE is conditional on the ETag of its key only, which says   *)
(* no more than that the key exists.  It may also be lost.                 *)
ServeStray(k) ==
    /\ strays' = strays \ {k}
    /\ stored' \in {stored, stored \ {k}}
    /\ UNCHANGED <<head, plans, worker, late, faults>>

Next ==
    \/ \E c \in Workers :
         \/ Push(c) \/ Maintenance(c) \/ Upload(c) \/ Publish(c) \/ Crash(c)
         \/ GCExecute(c) \/ GCPlan(c) \/ GCReread(c) \/ GCResume(c) \/ DeleteCandidate(c)
         \/ GCFinish(c) \/ GCAbort(c)
    \/ \E r \in late : ServeLate(r)
    \/ \E k \in strays : ServeStray(k)

Spec == Init /\ [][Next]_vars

-----------------------------------------------------------------------------
(* Properties. *)

WorkerState ==
    [phase : Phases, n : Nat, pin : HeadObject, cand : HeadObject, puts : SUBSET Key,
     plan : Id \cup {None}, todo : SUBSET Key, lenient : BOOLEAN]

(* Every variable has its type: packs hold commits only, plans and deletes *)
(* name managed keys only.                                                 *)
TypeOK ==
    /\ head \in HeadObject
    /\ stored \subseteq Key
    /\ DOMAIN plans \subseteq Id /\ plans \in [DOMAIN plans -> SUBSET Key]
    /\ worker \in [Workers -> WorkerState]
    /\ late \subseteq [match : Id, head : HeadObject]
    /\ strays \subseteq Key
    /\ faults \in Nat

(* SPEC 6.3(3) and 18.3: whatever is pushed, compacted and collected at    *)
(* the same time, every object that HEAD reaches is in the store.          *)
LiveKeysStored == LiveKeys(head) \subseteq stored

(* SPEC 18.3: while HEAD has a barrier, no publisher makes a candidate of  *)
(* its plan live, although pushes and late PUTs go on.                     *)
BarrierProtects ==
    head.barrier # None => plans[head.barrier] \cap LiveKeys(head) = {}

(* SPEC 16: the packs of HEAD's packset and the WAL packs of its log hold  *)
(* every object of the branch, through merges and bounded compactions.     *)
BranchCovered ==
    1..BranchOf(head) \subseteq
        (UNION LivePacks(head)) \cup UNION {t.objs : t \in Records(head)}

(* Objects disappear only while HEAD announces a collection, and only      *)
(* those that it announces.                                                *)
DeletesAnnounced ==
    [][stored \subseteq stored' \/
       (head.barrier # None /\ stored \ stored' \subseteq plans[head.barrier])]_vars

(* SPEC 16.2: "Transaction data after the current packset generation is    *)
(* compacted into one new level-zero native, non-thin pack."               *)
MaintenanceAccepted ==
    NoBarrier => \A i \in Targets(head), fanout \in Fanouts :
        ValidPackset(head.levels, CreatePack(head.log[i].tip, head.floor), fanout)

-----------------------------------------------------------------------------
(* The inductive invariant, when plans are not worked on twice.            *)

(* The name that c's command has drawn, the names drawn so far, and the    *)
(* keys they may occur in.                                                 *)
Name(c) == <<c, worker[c].n>>
Issued == {Genesis} \cup {id \in Workers \X Nat : id[2] <= worker[id[1]].n}
IssuedKeys == ({"log", "state", "plan"} \X Issued) \cup ({"pack"} \X Packs)

(* The HEADs that commands and requests are based on. *)
Based == {Genesis, head.pub} \cup {worker[c].pin.pub : c \in Workers} \cup {r.match : r \in late}

(* Names are drawn before they occur, and a HEAD that is not yet installed *)
(* has a name that nothing is based on and no other HEAD has.              *)
NameInv ==
    /\ Based \subseteq Issued
    /\ stored \subseteq IssuedKeys
    /\ \A c \in Workers : worker[c].puts \subseteq IssuedKeys
    /\ DOMAIN plans \subseteq Issued /\ \A i \in DOMAIN plans : plans[i] \subseteq IssuedKeys
    /\ \A c \in Workers : worker[c].phase \in {"uploading", "listing", "publishing"} =>
         Name(c) \notin Based \cup {r.head.pub : r \in late}
    /\ \A c \in Workers :
         \/ worker[c].phase \notin {"uploading", "publishing"}
         \/ worker[c].phase = "uploading" /\ worker[c].cand = worker[c].pin
         \/ worker[c].cand.pub = Name(c)
    /\ \A r \in late : r.head.pub \in Issued \ Based
    /\ \A r, s \in late : r.head.pub = s.head.pub => r = s

(* No plan that h announces has a candidate that h reaches. *)
Announces(h) ==
    h.barrier # None => h.barrier \in DOMAIN plans /\ plans[h.barrier] \cap LiveKeys(h) = {}

(* Nobody deletes or is about to delete the candidates that HEAD announces. *)
Unworked ==
    /\ strays = {}
    /\ \A c \in Workers : worker[c].phase \in {"rereading", "deleting"} => worker[c].plan # head.barrier

(* HEAD may become h once puts are stored. *)
Succeeds(h, puts) ==
    /\ LiveKeys(h) \subseteq stored \cup puts
    /\ head.barrier # None =>
         /\ plans[head.barrier] \cap LiveKeys(h) = {}
         /\ h.barrier # head.barrier => Unworked

(* HEAD, and every HEAD that a command or a request would put in its place *)
(* while it still can, is whole and keeps clear of the deletes.            *)
HeadInv ==
    /\ LiveKeys(head) \subseteq stored
    /\ Announces(head)
    /\ \A c \in Workers :
         /\ Announces(worker[c].pin) /\ Announces(worker[c].cand)
         /\ worker[c].phase # "idle" /\ worker[c].pin.pub = head.pub => worker[c].pin = head
         /\ worker[c].phase \in {"uploading", "publishing"} /\ worker[c].pin.pub = head.pub =>
              Succeeds(worker[c].cand, worker[c].puts)
         /\ worker[c].phase # "uploading" => worker[c].puts = {}
    /\ \A r \in late : Announces(r.head) /\ (r.match = head.pub => Succeeds(r.head, {}))

(* A plan has one executor, or its deletes are strays; they are deletes of *)
(* what HEAD announces.                                                    *)
PlanInv ==
    /\ \A k \in stored : k[1] = "plan" => k[2] \in DOMAIN plans
    /\ \A c \in Workers :
         /\ \A k \in worker[c].puts : k[1] # "plan"
         /\ worker[c].plan # None => worker[c].plan \in DOMAIN plans
         /\ worker[c].phase = "listing" => Name(c) \notin DOMAIN plans /\ worker[c].pin.barrier = None
         /\ worker[c].phase = "rereading" => worker[c].plan # None
         /\ worker[c].phase = "deleting" =>
              /\ worker[c].plan # None /\ worker[c].plan = head.barrier
              /\ worker[c].plan = worker[c].pin.barrier /\ worker[c].todo \subseteq plans[head.barrier]
         /\ worker[c].phase = "publishing" =>
              worker[c].pin.barrier \in {None, worker[c].cand.barrier, worker[c].plan}
         /\ worker[c].phase = "uploading" => worker[c].cand.barrier = worker[c].pin.barrier
         /\ \A d \in Workers : worker[c].plan = worker[d].plan => c = d \/ worker[c].plan = None
    /\ strays # {} =>
         /\ head.barrier # None /\ strays \subseteq plans[head.barrier]
         /\ \A c \in Workers : worker[c].plan # head.barrier

(* The packs hold the branch at the log floor, and the log what the branch *)
(* gained since, from whichever record on one reads it.                    *)
TipAt(h, i) == IF i = 0 THEN h.floor ELSE h.log[i].tip
Covered(h) ==
    /\ 1..h.floor \subseteq UNION LivePacks(h)
    /\ \A i, j \in 0..Len(h.log) : i < j =>
         \A x \in (TipAt(h, i) + 1)..TipAt(h, j) : \E k \in (i + 1)..j : x \in h.log[k].objs
CoverInv ==
    /\ Covered(head)
    /\ \A c \in Workers : Covered(worker[c].pin) /\ Covered(worker[c].cand)
    /\ \A r \in late : Covered(r.head)

(* SPEC 6.3(3), 16 and 18.3 together, for every HEAD that is or may still  *)
(* be published, with what keeps gc's deletes, Maintenance's content-named *)
(* packs and late HEAD PUTs apart: the names that publications draw, and   *)
(* one executor per plan.                                                  *)
CollectInv == TypeOK /\ NameInv /\ HeadInv /\ PlanInv /\ CoverInv

=============================================================================
