# git3: models, checks and proofs

git3 keeps a Git repository in an S3 bucket without a server. One mutable object, `HEAD`, names a
set of immutable objects; every change of the repository is one conditional PUT of `HEAD`. This
directory holds TLA+ models of the parts of git3 in which processes, the network and crashes
interact, TLC configurations that check them on small instances, and TLAPS proofs, for every value
of the constants, of the safety properties of every component and of both refinements.

## 1. Inventory

| Component (source) | State it keeps | Operations | Interacts with | What makes it correct |
|---|---|---|---|---|
| HEAD publication and log (`internal/engine/engine.go`, `internal/model/model.go`) | HEAD: revision, publication id, tip generation and transaction, symbolic HEAD, snapshot and packset pointers, log floor, tip page, tail | `Push`, `initialize`, `publishHead`, `Read`, `ReadUnconditional` | object store by conditional PUT/GET; helper by the pinned advertisement | one gap-free parent chain; acknowledged pushes are on it; readers rebuild its refs; revisions advance by one |
| Maintenance, set-head (`internal/engine/admin.go`) | packs by content, packset, ref snapshot | `Maintenance`, `SetHead` | HEAD CAS, local pack directory, local lock | compaction changes no ref; packs cover every reachable object |
| Garbage collection (`internal/engine/admin.go`) | plan object, barrier in HEAD | `GCExecute`, `GCResume`, `GCAbort`, `GCDryRun` | HEAD CAS, unconditional-on-HEAD deletes | nothing reachable is deleted; a candidate never becomes live under its barrier |
| Object store (`internal/store`) | keys with ETags, open multipart uploads | `Put` (single or multipart), `Get`, `OpenRange`, `Head`, `Delete`, `Walk` | everything; SDK retries | CAS is atomic; a resend is not a second publication; an immutable key is created once and whole; failed uploads are aborted |
| Fetch and local cache (`internal/engine/engine.go`, `internal/local/state.go`) | `cursor.json`, `refs.snapshot`, `remote-head.json`, mapping, `state.lock`, pack files | `Read`/`readCached`, `fetchState`, `installPackset`, `installWAL`, `downloadVerified`, `writeCursor` | HEAD GET with ETag, ranged GETs, git subprocesses, other fetches | an advertisement is a HEAD the store held; a cursor is verified; local damage is repaired; only verified bytes are installed; errors name their cause |
| Remote helper (`internal/helper`) | pinned advertisement, options | `list`, `fetch`, `push`, `option` | Git on stdin/stdout, engine | pushes are reported truthfully |
| LFS agent (`internal/lfs`) | one transfer at a time, range workers | `upload`, `download` | object store, git-lfs on stdin/stdout, other agents | a completed upload is stored, a completed download is whole |
| Git wrapper (`internal/git`) | none | pack creation, merging, index-pack, connectivity | subprocesses, pipes | failure and cancellation of a command reach the caller |
| Encodings, locator, config, errors, CLI | none | parsing and printing | | deterministic |

Hard behaviours: writers race for HEAD; PUTs are delayed, applied without an answer, resent by the
SDK or applied after their sender died; success is inferred later from a HEAD that others have
moved on or compacted; the embedded log tail overflows into pages; maintenance reuses
content-named packs that a collection may be deleting; collections are interrupted and resumed by
other processes; cache files are read without the lock and left torn by crashes; objects a cursor
vouches for are pruned; uploads and downloads are split over goroutines that share buffers, channels,
contexts and a pipe, any of which may fail first. `PROJECT.json` lists each of them as a hazard with its line.

## 2. Modules

| Module | Contents |
|---|---|
| `RefLog` | the abstract contract: a ref map that changes by whole transactions, each on the old values it was validated for; `ok` only for committed ones |
| `Publication` | pushers and administrators publishing HEAD through an unreliable store; refines `RefLog` |
| `Collect` | packs, level merging and garbage collection next to pushes |
| `Fetch` | fetches into one clone with its cache files, lock and object database |
| `WriteOnce` | the abstract contract of an immutable key: absent, then one caller's whole content for ever; `ok` only when it holds what the caller meant |
| `Upload` | `S3.Put` with its multipart loop, part goroutines and buffers, and its callers; refines `WriteOnce` |
| `Download` | a ranged download by a pool of workers: `downloadVerified`, and `downloadRanges` of the LFS agent |
| `WalStream` | `installWAL`: download goroutine, pipe, os/exec's copying goroutine and `git index-pack` |
| `Install` | a bootstrap fetch composed of `Download` and `WalStream` |
| `Lfs` | LFS agents that upload, and one that downloads, composed with `Download` |
| `PublicationProofs`, `CollectProofs`, `FetchProofs`, `UploadProofs`, `InstallProofs`, `LfsProofs` | theorems about the modules they are named after |
| `DownloadProofs`, `WalStreamProofs` | the lemmas about the two parts, which `InstallProofs` and `LfsProofs` use through `INSTANCE` |
| `MCPublication`, `MCCollect`, `MCFetch`, `MCUpload`, `MCInstall`, `MCLfs` | instances for TLC |

### Publication

`head` is the HEAD object, `pages` and `snaps` the log pages and ref snapshots by id, `late` the
HEAD PUTs nobody waits for, `client` each process's operation. `chain`, `installed` and `reported`
are history variables that no action's guard reads (`installed` and `chain` grow in `Install`,
`reported` in `Finish`).

| Action | Code |
|---|---|
| `Advertise` | `list for-push`: `Helper.Run`, `Repository.Advertise` |
| `Push`, `PushStale` | `Repository.Push` up to its PUT: choice of state, cached re-check, `validatePush`, `rejectAtomicBatch`, `makeTransaction`, `appendEnvelope` |
| `Initialize` | `initialize` up to its PUT |
| `Maintenance`, `SetHead` | the same in `admin.go` |
| `PutReturns`, `PutRefused` | the store serves the awaited PUT: nil, 412, or 409 |
| `Resend`, `TransportError`, `ServeLate`, `Crash` | SDK retry; transport error; a PUT applied after its sender stopped waiting; death |
| `Reread`, `RereadFails` | the rest of `publishHead`, with the operation's `confirm` function |

Reading is `Readable` (`readObject`), `Collects` (`collectTransactions`), `RefsOf`
(`reconstruct`, `model.Apply`). `Valid` is `Head.Validate`.

Abstractions. The UUIDs of one operation live in separate name spaces and are all written as that
operation's name. A body has its own publication id, so ETag and publication id identify each
other. Records carry their generation, so the ordered tail is a set. An absent HEAD is a record
whose publication id matches no stored one; `If-None-Match: *` is CAS against it. Sizes count ref
updates. A lost answer is `Abandon` followed by `ServeLate`. Whether the advertisement came from
the cache is a nondeterministic `PushStale`. Object formats, storage policy, repository ids and
options that leave before any write are left out.

### Collect

One branch on one line of commits; a pack is the set of its commits and is named by it (pack-objects
is taken as a function of the objects asked for; with none, git writes the empty pack). `stored`
holds the immutable keys, `plans` the candidates of each plan, `strays` DELETEs whose sender is
gone. A collection is `GCExecute` (pin HEAD), `GCPlan` (list, write the plan), `Publish` (barrier),
`GCReread` (validate), `DeleteCandidate` one at a time, `GCFinish` (clear). The operator's cutoff is
any subset of the unreachable listed keys. The comparison of a candidate's size, ETag and
modification time is left out: uploading the same pack again within the same second changes none.
One maintenance uploads in one step, except that a crash leaves any part of it.

`Overlap = FALSE` is the discipline that a plan is resumed or aborted only when its executor is gone
and its outstanding requests are settled. The code neither enforces nor documents it; with
`Overlap = TRUE` the run `collect_overlap` shows what happens without it. In the same way the DELETEs of an
executor that lives are taken to be settled when it clears the barrier: an attempt that the SDK gave up
and sent again, and that the store applies only after that, is left out.

### Fetch

Commit `t` is what transaction `t` moves the branch to; `parents` is the commit graph. The remote
changes by pushes, forced updates, bounded maintenance, set-head and restoration of an older HEAD
version (with its old ETag). Locally, `objs` are the visible commits, `pairs`/`halves` the packs with
and without index. Every file of the cache is read and written in a step of its own; `CachedRefs`
reads the cursor a second time, as in the code. `head.etag` is written and never read, and is left
out. `index-pack --strict` refuses packs whose links are missing. `Prune` removes any set of commits
that leaves the rest closed, while no fetch holds the lock.

### Upload

Callers create one key. A caller has a file (`uploadFile`, `immutable`) or a stream, the output of
`pack-objects` teed into `trailerWriter` (`makeTransaction`); a stream that ends early is a command
that exits with an error. Contents are sequences over `Units`, so parts, buffers and the trailer can be
put together wrongly. `Listed` is the list of the accepted part numbers in increasing order, the sort
of the code. `call[c]` holds the local variables of `Put`: buffers, the stack of free ones,
the part goroutines (`tasks`), the results channel (`sent`), the two contexts. A part goroutine sends
what its buffer holds at that moment.

| Action | Code |
|---|---|
| `Begin` | `Put`: the prefix of a stream, the threshold, the choice |
| `PutServed`, `PutResent`, `RequestFails` | `putSingle`; SDK retry after a lost answer; errors |
| `CreateServed`, `ReadPart`, `ReadFails`, `Receive`, `Polled`, `Collected`, `Drained` | the loop of `putMultipart`, one channel or reader operation each |
| `PartServed`, `PartFails` | `UploadPart` in its goroutine |
| `CompleteServed`, `CompleteConflicts`, `CompleteResent`, `AbortServed`, `AbortFails` | completion and the deferred abort |
| `Report`, `ReportFails` | what the caller makes of `Put`'s result: reading an existing key back, `pr.Wait`, the trailer's length |
| `Interrupt`, `Crash`, `ServeLate` | cancelled context, death, a request applied when nobody waits |

A failed part is left out of the list and so it makes no difference whether the store has it. Encryption
and metadata are left out. A stream is written into the trailer in one or two pieces per read.

### Download, WalStream and Install

A range is the unit: a hole, a part, right or other bytes. `remote` says what each key holds; an
object may become other bytes, change its size or disappear (once per behaviour), which is also what a
collection does to a fetch of an older HEAD. `causes` says what went wrong outside;
the program sees only `cancelled`, the user's interrupt, and `output`, a reader that has gone.
In `Download`, `HandOut` is the rendezvous on the unbuffered channel `jobs`, `GiveUp` the other branch
of the `select`, `WorkerFails` is two steps (send the error, cancel). In `WalStream` a write to the pipe
ends when the copying goroutine has read it; `Wait` is `Cmd.Wait`, which waits for child and copier.
`git index-pack` is external: it succeeds only after as many ranges as the pack has, may refuse other
bytes, and may install them. `Install` runs the two files of a pack pair and then the WAL packs; more
packs repeat the same steps. Its `GitFails` stands for failures of git and of the local file system.

### Lfs

An agent is a session: `init`, requests, `complete` after each. `UpFile` hashes the file, `UpHead` looks
for the object, `UpPut` creates it, `UpVerify` reads an existing one back. `Put` is one request here; the
store compares a single PUT with the digest it carries (`putSingle`), while the parts of a large object
carry only their own checksums (`Accepted`). `Edit` changes a local file at any moment. The download is
`Download` with one slot for errors and the check of `ctx.Err`.

## 3. Runs

| Run | Shows | Bounds |
|---|---|---|
| `publication` | `ChainGapFree`, `AcknowledgedOnChain`, `HeadReadable`, `RefsAreReplayOfChain`, `LogOnChain`, the proofs' invariants `PublicationInv` and `ReadInv`, refinement of `RefLog`, `HeadReplacements`, `NoFalseRefusal` | 2 pushers with 2 operations, 1 administrator, 2 branches, two batches (one of them forced), 3 generations, 1 fault, 2 attempts, a tail of one update: pages form chains and are compacted away. With two faults the result is the same |
| `collect` | `TypeOK`, `LiveKeysStored`, `BarrierProtects`, `BranchCovered`, `DeletesAnnounced`, the proof's `CollectInv` | 2 workers with 2 names each, 2 commits, fan-out 2, 3 levels, 1 crash |
| `fetch` | `TypeOK`, `AdvertisedWasHead`, `CursorVerified`, `OnlyRemoteFailures` | 2 processes, 3 fetches, 3 HEADs, unbounded crashes, failed downloads and prunes |
| `fetch_liveness` | `EveryFetchEnds`, the proof's `FetchInv` | 2 processes, 2 fetches, 3 HEADs by forced updates, maintenance and restoration. `FetchInv` also holds on the instance of `fetch` (1.8 million states, too slow to repeat) |
| `upload` | refinement of `WriteOnce`, `PartsSettled`, `UploadsClosed`, `TrailerIsObjectEnd`, `EveryPutEnds`, the proof's `UploadInv` | one stream of six kinds, or two callers with files; parts of 2 units, at most 3, two buffers, 2 faults |
| `install` | `DownloadVerified`, `WalVerified`, `CauseReported`, `KeepsHandedOver`, `EveryInstallEnds`, the proof's `InstallInv` | a pack of 3 ranges, an index of 1, WAL packs of 2 and 1, two workers, unbounded failures of requests and git, dropped errors of the pack directory, one damaged object. With three workers (1.2 million states) the result is the same |
| `lfs` | `UploadedIsStored`, `UploadsAgree`, `DownloadedIsWhole`, `IntegrityMeansDamage`, the proof's `LfsInv` | 2 uploaders, 1 downloader with two workers, 2 requests, an empty object, a small one and a large one of two ranges, two kinds of trouble per behaviour; symmetric in uploaders and workers (no liveness) |

The type invariants of `Publication`, `Upload`, `Install` and `Lfs` are checked as the first conjunct of
`PublicationInv`, `UploadInv`, `InstallInv` and `LfsInv`. `ReadInv` also holds on the instance of
`full_tail`, where `HeadReadable` does not.

Why these bounds reach the interesting cases: two writers on one base, a third HEAD on top of an
ambiguous one, compaction of the ambiguous transaction, a page behind a page, a late PUT after a
conflict; a candidate pack made again by maintenance while a plan names it; a torn cache (a complete
fetch, one that dies while writing, one that reads); more parts than buffers, a part refused while
others are in flight, a last part that is full, short or one too many; more ranges than workers, a
worker that fails while another holds a range and a third range has not been handed out. Every mutant in `PROJECT.json` is found by its
run. `CHECK_DEADLOCK FALSE` everywhere, because operations are bounded and the system may be idle.

Fairness: in `fetch_liveness` weak fairness of each process's own steps (`Proceed`). A git3 process runs
one command to its end, every SDK attempt has a deadline and the lock is waited for 30 seconds. In `upload` it is weak
fairness of each caller's `Proceed`, in `install` of the fetch's: goroutines run, requests and commands
end. `Publication` states no liveness: `publishHead` is straight-line code with one PUT, one reread and one
confirmation, and the SDK bounds the attempts. Nothing is assumed about new operations, late requests, prunes, or the remote.

### Disagreements found

| Run | Code | What it says elsewhere |
|---|---|---|
| `full_tail` | a push onto a tail of 32 records seals 33 of them; readers reject such a page, and the repository becomes unreadable | SPEC 8 and 16.1 |
| `collect_overlap` | after an abort during execution, a live pack is deleted | SPEC 18.3 |
| `collect_duplicate` | maintenance builds a pack that level 0 has already (e.g. the empty one, twice) and refuses its own packset | SPEC 16.2 |
| `fetch_noop` | an interrupted repair makes later fetches no-ops although parents are missing | SPEC 11.5, 15.5 |
| `install_keeps` | a fetch that fails after `index-pack` has installed a WAL pack, even one of the wrong bytes, leaves the pack's `.keep` for ever | SPEC 12.5 |

Not kept as runs of their own: a push that was shown an empty remote publishes against a HEAD that it
reads later (`engine.go:450`, against SPEC 14.5); an initialization whose record was compacted before
its lost answer is looked into is reported as a conflict (`engine.go:916`); and a fetch advertised
from the cache whose requested commit was forced away and compacted in between also ends without it
(`engine.go:994`), which `RequestedPresent` reports when the remote may be forced.

Also met, and part of the models without a run of their own:

* a resent HEAD PUT that had been applied is answered 412 and reported as `CAS_CONFLICT`
  (`engine.go:162`; SPEC 21.2 says HEAD is "Unchanged by this writer"): `Publication`'s `Resend`;
* a truncated pack of a failed `pack-objects` is completed under its key before the exit status is
  looked at (`engine.go:754-760`; SPEC.md:960-961 asks for a multipart abort). It stays an orphan:
  `ImplementsWriteOnce` has the failed result;
* `mapS3` gives 409 the meaning of 412, also while the key does not exist yet; a concurrent upload of the
  same file or LFS object may then fail although nothing is wrong (`UploadsAgree` excludes the 409), and
  for an empty LFS object `verifyRemote` succeeds without asking the store (an exception in
  `UploadedIsStored`);
* a cancelled `downloadVerified` whose workers are idle reports the holes of its file as
  `INTEGRITY_FAILED` (`engine.go:1408-1424`; the LFS agent looks at `ctx.Err` first): `CauseReported`
  lists both causes;
* a large LFS file edited between hashing and upload is stored under the wrong key and reported as
  complete (`agent.go:213-232`): the exception in `UploadedIsStored`;
* `installWAL` drops the errors of `PackDir` and `os.Stat` (`engine.go:1118-1122`), so a successful fetch
  may leave a `.keep` that it does not report (SPEC.md:761-763 asks for a `lock` line): the exception in
  `KeepsHandedOver`. What Git does with the `lock` lines, of which there is one per keep, is outside the
  model; as far as we know its transport helper takes the first one of a fetch and warns about others;
* when index-pack exits early the downloading goroutine of `installWAL` may wait at the pipe for ever,
  since nobody closes its reading end (`engine.go:1083`): `EveryInstallEnds` is about the fetch, which
  does not wait for it.

The passing runs keep away from the first: they use the real record limit, 32, and overflow the tail
by bytes.

## 4. Proofs

Every theorem holds for every value of the constants that satisfies the assumptions of its module.
Each component follows one plan: an invariant that is kept by every step, checked by TLC in the
component's run and proved by one lemma per action (`InvariantHolds`), and the properties as its
consequences. `PROJECT.json` lists all theorems.

| Module | Proved | Assumed |
|---|---|---|
| `PublicationProofs` | `TypeOK`, `ChainGapFree`, `AcknowledgedOnChain`, `LogOnChain`, `RefsAreReplayOfChain`, `HeadReplacements`, `NoFalseRefusal`, `HeadReadable` exactly while `PagesFit`, and `ImplementsRefLog`: the refinement of `RefLog` | nil is no name, ref, commit or ref map, bounds are numbers, pushers and administrators differ, batches have the shape the helper builds |
| `CollectProofs` | `TypeOK`, `LiveKeysStored`, `BarrierProtects`, `BranchCovered`, `DeletesAnnounced` | `~Overlap`, which is a hypothesis of each theorem; fan-outs are 2 or more; nil and the first HEAD's id are no worker's names |
| `FetchProofs` | `TypeOK`, `AdvertisedWasHead`, `OnlyRemoteFailures`, `CursorVerified` | the remote's events are those of the model, bounds are numbers, nil is neither a process nor a cursor |
| `UploadProofs` | `TypeOK`, `PartsSettled`, `UploadsClosed`, `TrailerIsObjectEnd`, and `ImplementsWriteOnce`: the refinement of `WriteOnce` | sizes are numbers, part size, buffers and parts at least 1; a file yields all of its data; nil is no content |
| `InstallProofs` | `TypeOK`, `DownloadVerified`, `WalVerified`, `CauseReported`, `KeepsHandedOver` | finitely many workers, at least one; files have some number of ranges |
| `LfsProofs` | `TypeOK`, `UploadedIsStored`, `UploadsAgree`, `DownloadedIsWhole`, `IntegrityMeansDamage` | objects have some number of ranges, a large one at least one |

**Publication.** `ChainGapFree` alone is not inductive: it says nothing about PUTs on their way.
`RequestInv` says that a request (awaited, possibly applied, or late) whose `match` is the current
HEAD's id would replace HEAD by a legal successor (`Succeeds`) under a name not installed yet, and
that a transaction whose request's name is installed is on the chain. A request for any other HEAD
stays harmless because ids are never installed twice. `ClientInv` provides the freshness of names
and that an advertised state with HEAD's id is HEAD. `HeadInv` and `PageInv` say that what HEAD, or a
page of an installed HEAD, lists is on the chain; `LogIsOnChain` carries that along the page walk:
the set of published pages satisfies `Follows`, and the live pages are the least such set. Lemmas
`SendStep` (a new request), `InstallStep` (a served one) and `ClientStep` (everything else) reduce
each action to the parts of the invariant it can disturb; `ConfirmSound` shows that a confirmed push
is on the chain.

`PublicationInv` says that what readers reach is on the chain, not that they reach all of it. That is
`ReadInv`, proved on top of it (`ReadInvariantHolds`). `Sound(h, ch)` says that HEAD `h` describes the
chain `ch`: its snapshot is stored and is the replay up to its generation (`RefsAt`), its tail is the
chain above its tip page (`Base`), its tip page leads on (`Leads`), and floor and tip carry the chain's
transaction ids. `PageSound` says the same of a published page: its records continue those of its
predecessor without a gap, down to the floor. `Ready` says that a PUT which can still win would install
a HEAD that is `Sound` for the chain with its transaction on top, that this transaction was validated
against the refs at HEAD, and that the symbolic HEAD it writes is one the contract allows; the candidate
was built from a HEAD read earlier, and the claim is needed only while that HEAD is the current one.
`OwnInv` keeps the transaction of an operation tied to its pinned HEAD.

The operator lemmas are about replay: `RefsAtAppend` (a new record does not change earlier replays),
`ReplayOfSuffix` (replaying from a snapshot what follows it equals replaying everything),
`EffectiveApplies` (the updates that `Push` keeps of a batch apply to the refs it read), `RecordsAppend`
(sealing and appending cut the chain where the page ends). `LogIs` then shows that the page walk
collects exactly the records between floor and tip: the highest generation that it misses would be in the
tail, in the page of its successor, or in that page's predecessor. `RefsAre` combines both, and
`RefsAreReplayOfChain` follows. For `HeadReadable` everything that `Readable` asks for follows from
`ReadInv` except that a page has at most `MaxRecords` records, so `HeadIsReadable` states the
equivalence: the overflow that `full_tail` shows is the only way to an unreadable HEAD.
`NoPushIsRefusedFalsely` uses that the log above the floor is complete: a transaction that is on the
chain is found by `ConfirmPush`, unless its generation was compacted, in which case the code answers
`ambiguous`. The refinement has one case for an installed transaction (`Commit`), one for an
installed HEAD without one (`Point`, or a stutter for maintenance), one for a late acknowledgement
(`Acknowledge`) and stutters for the rest; every other step leaves what is rebuilt as it is.

**Collect.** `LiveKeysStored` is about the current HEAD; what must be kept is that every HEAD which a
command or a late request could still install is whole (`HeadInv`), that its live keys keep clear of
the candidates of the plan that is announced, and that it can end the announcement only when nobody
works on the plan (`Succeeds`, `Unworked`). That needs to know who deletes: `PlanInv` gives each plan
one executor, or only stray deletes of what HEAD announces, which is where `~Overlap` is used.
`NameInv` keeps the ids apart: a HEAD that is not installed has a name on which nothing is based.
`CoverInv` says that packs hold the branch up to the log floor and the log the rest from any record
on. That merging loses nothing, through any number of levels, is proved of the recursive function in
`Carries`.

**Fetch.** `RemoteInv`: a publication id names one HEAD, restored or not. `FileInv`: each file of the
cache, and what a process has read of it, belongs to some HEAD that was published, perhaps each to a
different one; the comparisons of `CachedRefs` and the conditional GET are what makes them agree when
they are used. `InstallInv`: who holds the lock, and what was verified under it stays verified while
others read, crash and prune; a bootstrap has installed the packs it no longer needs and the WAL packs
below the next one, so that index-pack finds every link.

**Upload.** Per caller, `BufferInv`: a buffer is free, with one goroutine or in one result. `NumberInv`:
so is a part number, or it is accepted. `LoopInv`: numbers and position of the reader agree and no part
is lost while the loop can still complete. `PartInv`: what a goroutine sends, and what the store has, is
the part of that number. `TailInv`: `trailerWriter` holds the end of what was read. `OutInv`, `ToldInv`
and `Whole` link these to the object, the report, and requests that nobody waits for. The operator lemmas
are `ChunksJoin`, `ListedIs` and `JoinedIs` (listing the accepted numbers in order and joining their parts
gives the reader's content) and `WritesKeepEnd` (any cutting of a stream into writes leaves its last
bytes). The refinement then has one case per step: creation of the key (`PutServed`, `CompleteServed`,
`ServeLate`), a report, a cancellation that cuts a stream short, or a stutter.
The proof showed that `NumberInv` needs the uniqueness of part numbers among goroutines; the invariant
without it passes TLC but is not inductive.

**Install and Lfs.** The pool's `DownloadInv` says that every range handed out is written, being copied,
or accounted for by an error, and that the error channel is filled before the context is cancelled, so
its first error is nobody's echo. `StreamInv` says that what the goroutine has hashed is what the child
has got, then what the copier holds, then what is in the pipe; hence a child that succeeds before the
digest is known has got what the digest is about. `DownloadProofs` and `WalStreamProofs` prove that their
own steps and changes around them keep these, `InstallProofs` and `LfsProofs` instantiate the lemmas with
their number of error slots. In `InstallInv` a keep that is not reported is that of the WAL at work, or its
loss has a cause: the interrupt, which the connectivity check of the same fetch cannot survive, or a
dropped error of the pack directory (`Unseen`). `LfsInv` adds that everything different from its key is traced to damage or
an edit (`Traced`), and which states read back what (`UpInv`, `DownInv`).

Induction over numbers (levels of a merge, commits, parts) is by a least counterexample
(`LeastNumber`, from the well-foundedness of the naturals), since the library's induction rules cannot be
instantiated by the provers.

Only model-checked: the liveness properties `EveryFetchEnds`, `EveryPutEnds` and
`EveryInstallEnds`, since fairness is out of the prover's reach. `HeadReadable` holds without its
condition on the record limit only for the bounds of the run, where no tail is full.

## 5. Not modelled

`Walk`'s pages (sequential; `Collect` takes a complete listing); `lfs/install.go`, which writes git
configuration; option parsing and progress; `doctor`, `fsck` and probes (read-only); canonical JSON and
the snapshot text (deterministic encodings); configuration, locators, error wrapping and the command
line (stateless); the in-memory store of the tests; errors of `Truncate`, `Sync` and `Close` on local
files, which end a transfer like any other failure; a WAL object whose right pack is followed by other
bytes within the recorded size, where index-pack may end before the digest is known.

## 6. Open

A composition of `Fetch` and `Collect` in which a fetch retries after its objects were collected.
`Install` has the deletion of an object during its download; the retry starts from a new HEAD.
