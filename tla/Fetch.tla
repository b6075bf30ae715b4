------------------------------- MODULE Fetch -------------------------------
(***************************************************************************)
(* Fetching into one local repository: `list` answers from HEAD or, after  *)
(* a 304, from four local files; Fetch brings the object database up to    *)
(* the advertised state by the cheapest path and records what it has       *)
(* verified in a cursor.  Several fetches run at once; the files are read  *)
(* without the lock that their writers hold.  Between any two steps a      *)
(* process may die, the remote may change or be restored to an older HEAD, *)
(* and the user's git may drop objects.                                    *)
(*                                                                         *)
(* The remote has one branch.  How HEAD comes to be replaced and encoded   *)
(* is module Publication's; that what it reaches is stored is module       *)
(* Collect's, and a download that fails covers what was deleted meanwhile. *)
(***************************************************************************)
EXTENDS Integers, Sequences, FiniteSets

CONSTANTS
    Fetchers,  \* git processes with a git3 remote helper
    None,      \* no file, no lock
    Events,    \* what may happen to the remote, see below
    MaxHeads,  \* bound: HEADs that are published
    MaxOps     \* bound: fetches, of all processes together

ASSUME EventAssumption == Events \subseteq {"push", "force", "maintain", "set-head", "restore"}
ASSUME BoundAssumption == MaxHeads \in Nat \ {0} /\ MaxOps \in Nat

VARIABLES
    head,      \* HEAD in the store
    past,      \* every HEAD that was published
    parents,   \* commit graph: the parent of each commit, 0 for a root
    objs,      \* commits in the local object database
    pairs,     \* local packs of the packset with their index
    halves,    \* local packs of the packset without an index
    snapFile,  \* refs.snapshot
    curFile,   \* cursor.json
    headFile,  \* remote-head.json
    mapped,    \* whether remotes/<cache-id> names the repository
    lock,      \* holder of state.lock
    proc,      \* per process: where it is in its fetch
    ops        \* fetches so far, for MaxOps

remote == <<head, past, parents>>
store == <<objs, pairs, halves>>
files == <<snapFile, curFile, headFile, mapped>>
vars == <<remote, store, files, lock, proc, ops>>

(* Transaction t moves the branch to commit t, so log[g] is the            *)
(* transaction of generation g and the tip after it; pub stands for the    *)
(* publication id and the ETag, and packs are the commits of each pack.    *)
Commits == 1..MaxHeads
HeadObject == [pub : 1..MaxHeads, log : Seq(Commits), floor : Nat, packs : SUBSET SUBSET Commits]

Gen(h) == Len(h.log)
At(h, g) == IF g = 0 THEN 0 ELSE h.log[g]
Tip(h) == At(h, Gen(h))

Reach(c) ==
    LET r[i \in 0..Len(parents)] == IF i = 0 THEN {} ELSE {i} \cup r[parents[i]]
    IN  r[c]

(* The WAL pack of generation g, and the pack of a compaction up to g. *)
Wal(h, g) == Reach(At(h, g)) \ Reach(At(h, g - 1))
NewPack(h, g) == Reach(At(h, g)) \ Reach(At(h, h.floor))

(* The files. *)
SnapshotOf(h) == [gen |-> Gen(h), tx |-> Tip(h)]
CursorOf(h) == [gen |-> Gen(h), tx |-> Tip(h), pub |-> h.pub, sum |-> SnapshotOf(h)]
SnapshotFile == [gen : Nat, tx : 0..MaxHeads]
CursorFile == [gen : Nat, tx : 0..MaxHeads, pub : 1..MaxHeads, sum : SnapshotFile]

ASSUME NoneAssumption == None \notin Fetchers \cup CursorFile

(* idle        no fetch                                                    *)
(* mapping..checking  readCached reads the files one by one                *)
(* asking      the conditional GET comes next; getting: the plain one      *)
(* advertised  Git has the refs                                            *)
(* locked      fetchState has the lock                                     *)
(* choosing    it has its remote state                                     *)
(* packs, wal  it installs packs of the packset, or WAL packs              *)
(* writing     it has verified connectivity and writes the files           *)
(* ok, failed  it returns                                                  *)
Phases == {"idle", "mapping", "reading-head", "reading-refs", "checking", "asking", "getting",
           "advertised", "locked", "choosing", "packs", "wal", "writing", "ok", "failed"}

(* c, hb and rb are the files as read; state is the remote state, want the *)
(* tip that Git asks for, seen the HEAD that the store answered with; todo *)
(* holds generations whose WAL, need packs that are to be installed; half  *)
(* is the pack between its two renames, file the next file to write; lost: *)
(* a request failed.                                                       *)
Idle ==
    [phase |-> "idle", c |-> None, hb |-> None, rb |-> None, state |-> None,
     seen |-> None, want |-> 0, cached |-> FALSE, path |-> "none", todo |-> {}, need |-> {},
     half |-> None, file |-> 0, lost |-> FALSE]

Process ==
    [phase : Phases, c : {None} \cup CursorFile, hb : {None} \cup HeadObject,
     rb : {None} \cup SnapshotFile, state : {None} \cup HeadObject, seen : {None} \cup HeadObject,
     want : 0..MaxHeads, cached : BOOLEAN, path : {"none", "incremental", "bootstrap"},
     todo : SUBSET Commits, need : SUBSET SUBSET Commits, half : {None} \cup SUBSET Commits,
     file : 0..4, lost : BOOLEAN]

FirstHead == [pub |-> 1, log |-> <<1>>, floor |-> 0, packs |-> {}]

Init ==
    /\ head = FirstHead /\ past = {FirstHead} /\ parents = <<0>>
    /\ objs = {} /\ pairs = {} /\ halves = {}
    /\ snapFile = None /\ curFile = None /\ headFile = None /\ mapped = FALSE
    /\ lock = None
    /\ proc = [f \in Fetchers |-> Idle]
    /\ ops = 0

Becomes(f, p) == proc' = [proc EXCEPT ![f] = p]
Goes(f, phase) == Becomes(f, [proc[f] EXCEPT !.phase = phase])

-----------------------------------------------------------------------------
(* The remote. *)

Publish(h) ==
    /\ Cardinality(past) < MaxHeads
    /\ head' = [h EXCEPT !.pub = Cardinality(past) + 1]
    /\ past' = past \cup {head'}
    /\ UNCHANGED <<store, files, lock, proc, ops>>

(* A push: a fast-forward, or a forced update to other history. *)
RemotePush ==
    \E p \in {Tip(head) : e \in Events \cap {"push"}} \cup {0 : e \in Events \cap {"force"}} :
        /\ parents' = Append(parents, p)
        /\ Publish([head EXCEPT !.log = Append(@, Len(parents'))])

(* Maintenance up to generation g. *)
RemoteMaintenance ==
    "maintain" \in Events /\
    \E g \in (head.floor + 1)..Gen(head) :
        /\ Publish([head EXCEPT !.floor = g, !.packs = @ \cup {NewPack(head, g)}])
        /\ UNCHANGED parents

(* set-head, or a garbage collection's barrier. *)
RemoteSetHead == "set-head" \in Events /\ Publish(head) /\ UNCHANGED parents

(* An operator restores an older version of HEAD, with its ETag. *)
RemoteRestore ==
    /\ "restore" \in Events
    /\ head' \in past \ {head}
    /\ UNCHANGED <<past, parents, store, files, lock, proc, ops>>

-----------------------------------------------------------------------------
(* Reading: Read and readCached. *)

Begin(f) ==
    /\ proc[f].phase = "idle"
    /\ ops < MaxOps /\ ops' = ops + 1
    /\ Goes(f, "mapping")
    /\ UNCHANGED <<remote, store, files, lock>>

(* The cache is of no use: HEAD is read without a condition. *)
Uncached(f) == Becomes(f, [Idle EXCEPT !.phase = "getting"])

ReadCursor(f) ==
    /\ proc[f].phase = "mapping"
    /\ IF mapped /\ curFile # None
       THEN Becomes(f, [proc[f] EXCEPT !.phase = "reading-head", !.c = curFile])
       ELSE Uncached(f)
    /\ UNCHANGED <<remote, store, files, lock, ops>>

ReadHead(f) ==
    /\ proc[f].phase = "reading-head"
    /\ IF headFile # None
       THEN Becomes(f, [proc[f] EXCEPT !.phase = "reading-refs", !.hb = headFile])
       ELSE Uncached(f)
    /\ UNCHANGED <<remote, store, files, lock, ops>>

ReadRefs(f) ==
    /\ proc[f].phase = "reading-refs"
    /\ Becomes(f, [proc[f] EXCEPT !.phase = "checking", !.rb = snapFile])
    /\ UNCHANGED <<remote, store, files, lock, ops>>

(* CachedRefs reads the cursor again, and it may be another one by now. *)
CheckRefs(f) ==
    /\ proc[f].phase = "checking"
    /\ IF proc[f].rb = curFile.sum THEN Goes(f, "asking") ELSE Uncached(f)
    /\ UNCHANGED <<remote, store, files, lock, ops>>

(* What readCached asks of its files after a 304. *)
CacheMatchesAnyHead(p) == p.rb.gen = Gen(p.hb) /\ p.rb.tx = Tip(p.hb)
CacheMatches(p) ==
    /\ p.hb.pub = p.c.pub /\ Gen(p.hb) = p.c.gen /\ Tip(p.hb) = p.c.tx
    /\ p.rb.gen = Gen(p.hb) /\ p.rb.tx = Tip(p.hb)

(* The advertisement of state h, read when the store had `head`. *)
Advertised(f, h, refs, cached) ==
    [Idle EXCEPT !.phase = "advertised", !.state = h, !.want = refs, !.seen = head, !.cached = cached]

ConditionalGet(f) ==
    /\ proc[f].phase = "asking"
    /\ Becomes(f,
         IF head.pub # proc[f].c.pub THEN Advertised(f, head, Tip(head), FALSE)
         ELSE IF CacheMatches(proc[f]) THEN Advertised(f, proc[f].hb, proc[f].rb.tx, TRUE)
         ELSE [Idle EXCEPT !.phase = "getting"])
    /\ UNCHANGED <<remote, store, files, lock, ops>>

Get(f) ==
    /\ proc[f].phase = "getting"
    /\ Becomes(f, Advertised(f, head, Tip(head), FALSE))
    /\ UNCHANGED <<remote, store, files, lock, ops>>

-----------------------------------------------------------------------------
(* fetchState. *)

Lock(f) ==
    /\ proc[f].phase = "advertised"
    /\ lock = None /\ lock' = f
    /\ Becomes(f, [proc[f] EXCEPT !.phase = "locked", !.seen = None])
    /\ UNCHANGED <<remote, store, files, ops>>

(* Another process has the lock for 30 seconds. *)
LockTimeout(f) ==
    /\ proc[f].phase = "advertised"
    /\ lock \notin {None, f}
    /\ Becomes(f, [proc[f] EXCEPT !.phase = "failed", !.lost = TRUE])
    /\ UNCHANGED <<remote, store, files, lock, ops>>

Connected(h) == Reach(Tip(h)) \subseteq objs

(* The cursor is at the advertised point and the requested objects exist. *)
AtCursor(p) ==
    curFile # None /\ curFile.gen = Gen(p.state) /\ curFile.tx = Tip(p.state) /\ p.want \in objs

NoOp(f) ==
    /\ proc[f].phase = "locked"
    /\ AtCursor(proc[f])
    /\ IF curFile.pub # proc[f].state.pub
       THEN Becomes(f, [proc[f] EXCEPT !.phase = "writing", !.file = 1])
       ELSE Goes(f, "ok")
    /\ UNCHANGED <<remote, store, files, lock, ops>>

(* A cached state has no transactions: HEAD is read again. *)
Pin(f) ==
    /\ proc[f].phase = "locked"
    /\ ~ AtCursor(proc[f])
    /\ Becomes(f, [proc[f] EXCEPT !.phase = "choosing", !.cached = FALSE,
                                  !.state = IF proc[f].cached THEN head ELSE @])
    /\ UNCHANGED <<remote, store, files, lock, ops>>

(* cursorOnChain, for a cursor between the floor and the tip. *)
Incremental(h) ==
    /\ curFile # None
    /\ curFile.gen \in h.floor..(Gen(h) - 1)
    /\ curFile.tx = At(h, curFile.gen)

(* installPackset's scan: a pair that is whole stays, the rest is removed  *)
(* and downloaded again.                                                   *)
PendingKeepsHalves(h) == h.packs \ (pairs \cup halves)
Pending(h) == h.packs \ pairs

Bootstrap(f) ==
    /\ halves' = halves \ proc[f].state.packs
    /\ Becomes(f, [proc[f] EXCEPT !.phase = "packs", !.path = "bootstrap", !.todo = {},
                                  !.need = Pending(proc[f].state)])

(* After connectivity has been verified: writeCursor. *)
WriteNext(f) == Becomes(f, [proc[f] EXCEPT !.phase = "writing", !.file = 1])

Choose(f) ==
    /\ proc[f].phase = "choosing"
    /\ \/ Connected(proc[f].state) /\ WriteNext(f) /\ halves' = halves
       \/ /\ ~ Connected(proc[f].state) /\ Incremental(proc[f].state)
          /\ Becomes(f, [proc[f] EXCEPT !.phase = "wal", !.path = "incremental",
                                        !.todo = (curFile.gen + 1)..Gen(proc[f].state)])
          /\ halves' = halves
       \/ ~ Connected(proc[f].state) /\ ~ Incremental(proc[f].state) /\ Bootstrap(f)
    /\ UNCHANGED <<remote, objs, pairs, files, lock, ops>>

(* installPackPair: verified in a staging directory, then two renames. *)
RenamePack(f) ==
    /\ proc[f].phase = "packs" /\ proc[f].half = None
    /\ \E p \in proc[f].need :
         /\ halves' = halves \cup {p}
         /\ Becomes(f, [proc[f] EXCEPT !.half = p])
    /\ UNCHANGED <<remote, objs, pairs, files, lock, ops>>

RenameIndex(f) ==
    /\ proc[f].phase = "packs" /\ proc[f].half # None
    /\ halves' = halves \ {proc[f].half}
    /\ pairs' = pairs \cup {proc[f].half}
    /\ objs' = objs \cup proc[f].half
    /\ Becomes(f, [proc[f] EXCEPT !.need = @ \ {proc[f].half}, !.half = None])
    /\ UNCHANGED <<remote, files, lock, ops>>

PacksInstalledFromFloor(f) ==
    /\ proc[f].phase = "packs" /\ proc[f].half = None /\ proc[f].need = {}
    /\ Becomes(f, [proc[f] EXCEPT !.phase = "wal",
                                  !.todo = proc[f].state.floor..Gen(proc[f].state)])
    /\ UNCHANGED <<remote, store, files, lock, ops>>
PacksInstalled(f) ==
    /\ proc[f].phase = "packs" /\ proc[f].half = None /\ proc[f].need = {}
    /\ Becomes(f, [proc[f] EXCEPT !.phase = "wal",
                                  !.todo = (proc[f].state.floor + 1)..Gen(proc[f].state)])
    /\ UNCHANGED <<remote, store, files, lock, ops>>

(* A WAL pack, or the last check, was refused: the incremental path falls  *)
(* back to the packset, a bootstrap returns the error.                     *)
FallBackToWal(f) ==
    IF proc[f].path = "incremental"
    THEN Goes(f, "choosing") /\ halves' = halves
    ELSE Goes(f, "failed") /\ halves' = halves
FallBackIgnored(f) ==
    /\ IF proc[f].path = "incremental" THEN WriteNext(f) ELSE Goes(f, "failed")
    /\ halves' = halves
FallBack(f) ==
    IF proc[f].path = "incremental" THEN Bootstrap(f)
    ELSE Goes(f, "failed") /\ halves' = halves

(* installWAL of the next generation.  index-pack --strict refuses a pack  *)
(* whose links lead to missing commits, and --fix-thin may miss a base     *)
(* that the pusher knew the remote to have.                                *)
InstallWAL(f) ==
    /\ proc[f].phase = "wal"
    /\ \E g \in proc[f].todo :
         LET wal == Wal(proc[f].state, g)
             linked == \A c \in wal : parents[c] \in objs \cup wal \cup {0}
             based == Reach(At(proc[f].state, g - 1)) \subseteq objs
         IN  /\ \A i \in proc[f].todo : g <= i
             /\ \/ /\ linked
                   /\ objs' = objs \cup wal /\ halves' = halves
                   /\ Becomes(f, [proc[f] EXCEPT !.todo = @ \ {g}])
                \/ /\ ~ (linked /\ based)
                   /\ FallBack(f) /\ objs' = objs
    /\ UNCHANGED <<remote, pairs, files, lock, ops>>

WALInstalled(f) ==
    /\ proc[f].phase = "wal" /\ proc[f].todo = {}
    /\ IF Connected(proc[f].state) THEN WriteNext(f) /\ halves' = halves ELSE FallBack(f)
    /\ UNCHANGED <<remote, objs, pairs, files, lock, ops>>

(* A download fails: in the incremental path that is no error yet. *)
DownloadFails(f) ==
    LET p == [proc[f] EXCEPT !.lost = TRUE, !.half = None] IN
    /\ proc[f].phase \in {"locked", "packs", "wal"}
    /\ proc[f].phase = "locked" => ~ AtCursor(proc[f]) /\ proc[f].cached
    /\ proc[f].phase = "packs" => proc[f].half = None
    /\ proc[f].phase = "wal" => proc[f].todo # {}
    /\ IF proc[f].phase = "wal" /\ proc[f].path = "incremental"
       THEN /\ halves' = halves \ proc[f].state.packs
            /\ Becomes(f, [p EXCEPT !.phase = "packs", !.path = "bootstrap", !.todo = {},
                                    !.need = Pending(proc[f].state)])
       ELSE Becomes(f, [p EXCEPT !.phase = "failed"]) /\ halves' = halves
    /\ UNCHANGED <<remote, objs, pairs, files, lock, ops>>

(* writeCursor, one file after the other; each is replaced by a rename. *)
WriteSnapshot(f) ==
    /\ proc[f].phase = "writing" /\ proc[f].file = 1
    /\ snapFile' = SnapshotOf(proc[f].state)
    /\ Becomes(f, [proc[f] EXCEPT !.file = 2])
    /\ UNCHANGED <<remote, store, curFile, headFile, mapped, lock, ops>>

WriteCursor(f) ==
    /\ proc[f].phase = "writing" /\ proc[f].file = 2
    /\ curFile' = CursorOf(proc[f].state)
    /\ Becomes(f, [proc[f] EXCEPT !.file = 3])
    /\ UNCHANGED <<remote, store, snapFile, headFile, mapped, lock, ops>>

WriteHead(f) ==
    /\ proc[f].phase = "writing" /\ proc[f].file = 3
    /\ headFile' = proc[f].state
    /\ Becomes(f, [proc[f] EXCEPT !.file = 4])
    /\ UNCHANGED <<remote, store, snapFile, curFile, mapped, lock, ops>>

WriteRemoteMapping(f) ==
    /\ proc[f].phase = "writing" /\ proc[f].file = 4
    /\ mapped' = TRUE
    /\ Goes(f, "ok")
    /\ UNCHANGED <<remote, store, snapFile, curFile, headFile, lock, ops>>

UnlockAnybody(f) == lock' = None
Unlock(f) == lock' = IF lock = f THEN None ELSE lock

(* fetchState returns and the helper answers Git. *)
Return(f) ==
    /\ proc[f].phase \in {"ok", "failed"}
    /\ Unlock(f)
    /\ Becomes(f, Idle)
    /\ UNCHANGED <<remote, store, files, ops>>

(* The process dies; the kernel releases its lock. *)
Crash(f) ==
    /\ proc[f].phase # "idle"
    /\ Unlock(f)
    /\ Becomes(f, Idle)
    /\ UNCHANGED <<remote, store, files, ops>>

(* The user's git drops commits that nothing else needs; it does not run   *)
(* while a fetch holds the lock.                                           *)
Prune ==
    /\ lock = None
    /\ objs' \in SUBSET objs /\ objs' # objs
    /\ \A c \in objs' : parents[c] \in objs => parents[c] \in objs'
    /\ pairs' = {p \in pairs : p \subseteq objs'}
    /\ UNCHANGED <<remote, halves, files, lock, proc, ops>>

Proceed(f) ==
    \/ ReadCursor(f) \/ ReadHead(f) \/ ReadRefs(f) \/ CheckRefs(f) \/ ConditionalGet(f) \/ Get(f)
    \/ Lock(f) \/ LockTimeout(f) \/ NoOp(f) \/ Pin(f) \/ Choose(f)
    \/ RenamePack(f) \/ RenameIndex(f) \/ PacksInstalled(f)
    \/ InstallWAL(f) \/ WALInstalled(f) \/ DownloadFails(f)
    \/ WriteSnapshot(f) \/ WriteCursor(f) \/ WriteHead(f) \/ WriteRemoteMapping(f)
    \/ Return(f)

Next ==
    \/ RemotePush \/ RemoteMaintenance \/ RemoteSetHead \/ RemoteRestore \/ Prune
    \/ \E f \in Fetchers : Begin(f) \/ Proceed(f) \/ Crash(f)

Spec == Init /\ [][Next]_vars

(* A fetch does not stop by itself: downloads have deadlines, and waiting  *)
(* for the lock ends after 30 seconds.                                     *)
FairSpec == Spec /\ \A f \in Fetchers : WF_vars(Proceed(f))

-----------------------------------------------------------------------------
(* Properties. *)

(* Every variable has its type. *)
TypeOK ==
    /\ head \in HeadObject /\ past \subseteq HeadObject
    /\ parents \in Seq(0..MaxHeads)
    /\ objs \subseteq Commits /\ pairs \subseteq SUBSET Commits /\ halves \subseteq SUBSET Commits
    /\ snapFile \in SnapshotFile \cup {None}
    /\ curFile \in CursorFile \cup {None}
    /\ headFile \in HeadObject \cup {None}
    /\ mapped \in BOOLEAN
    /\ lock \in Fetchers \cup {None}
    /\ proc \in [Fetchers -> Process]
    /\ ops \in 0..MaxOps

(* SPEC 11.4: what Git is shown, from HEAD or from the cache, is the HEAD  *)
(* that the store had when it answered, although the cache files are read  *)
(* one by one while others replace them and may be left by a crash.        *)
AdvertisedWasHead ==
    \A f \in Fetchers : proc[f].phase = "advertised" =>
        proc[f].state = proc[f].seen /\ proc[f].want = Tip(proc[f].state)

(* SPEC 12.2, 12.3: the cursor moves only to a point all of whose commits  *)
(* are in the object database, however the fetch got them.                 *)
CursorVerified ==
    [][\/ curFile' = None
       \/ curFile # None /\ curFile'.gen = curFile.gen /\ curFile'.tx = curFile.tx
       \/ Reach(curFile'.tx) \subseteq objs]_curFile

(* SPEC 15.5: nothing local makes a fetch fail: half installed packs,      *)
(* pruned objects, a cursor that is behind, divergent or ahead are all     *)
(* repaired; a fetch fails only when a download or the lock failed it.     *)
OnlyRemoteFailures ==
    \A f \in Fetchers : proc[f].phase = "failed" => proc[f].lost

(* SPEC 11.5: "A batch of `fetch <oid> <ref>` commands MUST make all       *)
(* requested advertised objects and their required closure available in    *)
(* the local object database."                                             *)
RequestedPresent ==
    \A f \in Fetchers : proc[f].phase = "ok" => Reach(proc[f].want) \subseteq objs

(* Every fetch that has begun ends. *)
EveryFetchEnds == \A f \in Fetchers : proc[f].phase # "idle" ~> proc[f].phase = "idle"

-----------------------------------------------------------------------------
(* The inductive invariant. *)

(* A HEAD that was published: every commit of its log exists, and its      *)
(* packs hold the history of its floor.                                    *)
Sound(h) ==
    /\ h.pub \in 1..Cardinality(past) /\ Gen(h) <= h.pub /\ h.floor <= Gen(h)
    /\ \A i \in 1..Gen(h) : h.log[i] \in 1..Len(parents)
    /\ Reach(At(h, h.floor)) \subseteq UNION h.packs

(* Publication ids are never used twice, and commits are never rewritten. *)
RemoteInv ==
    /\ IsFiniteSet(past) /\ Cardinality(past) <= MaxHeads
    /\ head \in past
    /\ \A h \in past : Sound(h)
    /\ \A g, h \in past : g.pub = h.pub => g = h
    /\ Len(parents) <= Cardinality(past)
    /\ \A i \in 1..Len(parents) : parents[i] < i

(* What the files hold, and what a process has read of them, was true of   *)
(* some published HEAD, each file perhaps of another one.                  *)
FileInv ==
    /\ headFile # None => headFile \in past
    /\ snapFile # None => \E h \in past : snapFile = SnapshotOf(h)
    /\ curFile # None => \E h \in past : curFile = CursorOf(h)
    /\ \A f \in Fetchers :
         /\ proc[f].phase \in {"reading-head", "reading-refs", "checking", "asking"} =>
              curFile # None /\ \E h \in past : proc[f].c = CursorOf(h)
         /\ proc[f].phase \in {"reading-refs", "checking", "asking"} => proc[f].hb \in past
         /\ proc[f].phase = "asking" => \E h \in past : proc[f].rb = SnapshotOf(h)
         /\ proc[f].phase \in {"advertised", "locked", "choosing", "packs", "wal", "writing"} =>
              proc[f].state \in past

(* A fetch between Lock and Return has the lock, and what it has verified  *)
(* stays so; a bootstrap has all below the next generation to install.     *)
InstallInv ==
    /\ \A p \in pairs : p \subseteq objs
    /\ \A f \in Fetchers :
         /\ proc[f].phase \in {"locked", "choosing", "packs", "wal", "writing", "ok"} => lock = f
         /\ proc[f].half # None => proc[f].phase = "packs" /\ proc[f].half \in proc[f].need
         /\ proc[f].phase = "packs" =>
              /\ proc[f].path = "bootstrap" /\ proc[f].need \subseteq proc[f].state.packs
              /\ UNION (proc[f].state.packs \ proc[f].need) \subseteq objs
         /\ proc[f].phase = "wal" =>
              /\ proc[f].todo \subseteq 1..Gen(proc[f].state)
              /\ proc[f].path = "incremental" \/
                   \E k \in 1..(Gen(proc[f].state) + 1) :
                     /\ proc[f].todo = k..Gen(proc[f].state)
                     /\ Reach(At(proc[f].state, k - 1)) \subseteq objs
         /\ proc[f].phase = "writing" /\ proc[f].file <= 2 =>
              \/ Connected(proc[f].state)
              \/ curFile # None /\ curFile.gen = Gen(proc[f].state) /\ curFile.tx = Tip(proc[f].state)

(* SPEC 11.4, 12.2, 12.3 and 15.5 together, with what they rest on: ids    *)
(* that name one HEAD, files that are each of a published HEAD, and the    *)
(* lock under which packs are installed and the cursor is written.         *)
FetchInv == TypeOK /\ RemoteInv /\ FileInv /\ InstallInv /\ AdvertisedWasHead /\ OnlyRemoteFailures

=============================================================================
