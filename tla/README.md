# A verification project for webdav-easyaccess

webdav-easyaccess is a file server: an Express application over a metadata store (sqlite or
PostgreSQL) and a store of bytes (an S3 bucket, or a remote WebDAV server), with background jobs
that collect garbage, enrich files and migrate storage. This directory holds TLA+ models of the part
of it where a user's bytes, or the trace of what a user did, can be lost: the life of a blob, the file
tree, the two storage modes and the migration between them, the undo journal of the collections with
its locks, and the queue of AI jobs; TLC configurations that check them on small instances; and proofs
that TLAPS checks.

Paths below are relative to the repository; `services/` is `src/server/service/`.

## 1. Inventory

| Component | State | Operations | Hard behaviour | What makes it correct |
|---|---|---|---|---|
| object_map repository (`store/repositories/*/FileNodeRepository`) | rows: node, blob key, version number, status pending / active / history / orphaned | upsert, evict, activate, reactivate, demote by key, delete, and the reads | numbers are MAX+1 over rows that are deleted; some statements select by key whatever the node | version numbers unique per node, at most one active row per node |
| Upload service (`services/uploadService.js`) | the request in progress: node, new key, previous row | `uploadFile`, `overwriteFile`, rollback of each | metadata and blob store share no transaction; the rollback is best-effort; two writers | acknowledged bytes stay readable; a failed overwrite changes nothing |
| Blob storage service (`services/blobStorageService.js`) | – | `prepareUpload`, `completeUpload`, `duplicateBlob`, `ensureExclusiveBlob`, `linkObject` | the split of a shared blob awaits a copy between reading and writing | copy-on-write isolates files |
| File service (`domains/files/services/fileService.js`) | – | upload onto a name, copy, move, rename, trash | a copy commits three times | a copy holds the source's bytes |
| Versions service (`versionsService.js`) | – | list, restore, download a version | a HEAD between choosing and swapping | restoring a version affects one file |
| Repair (`services/failSafeService.js`) | – | scan, repair: auto / complete / restore-previous / delete; start-up report | races the upload it repairs, and the collector | a stuck overwrite can be undone; what is broken is reported |
| Trash (`services/trashService.js`) | `deleted_at` | trash, restore, purge, empty | purge awaits each blob, then deletes the node | only trashed files are destroyed; all that were listed are |
| Collector (`services/gcService.js`) | selected rows and keys of the cycle | tiers 1 (rows), 2 (bucket), 3 (trash retention) | listing and keep set are read at different times; deletions fail one by one | nothing in use is deleted; everything unused goes eventually |
| File tree (`services/fileNodeService.js`, `_ancestryHelper.js`) | parent pointers, closure table | create, move, delete, paths | closure rebuilt from live children; reads before transactions | closure = transitive closure of parents |
| Executors (`store/storage.js`, `infrastructure/db/*`) | sqlite transaction queue, PostgreSQL pool | query, run, transaction | the PostgreSQL callbacks run statements outside the transaction; nested sqlite transactions | atomicity the services assume |
| Lock manager (`infrastructure/lockManager.js`) | one row per subject: token, time of expiry | attempt (DELETE what has expired, INSERT), wait, release by token; a merge takes two | rows of dead holders; expiry while held; text comparison of times on sqlite | mutual exclusion while a transaction is shorter than the TTL; nobody waits for ever |
| Scheduler (`infrastructure/maintenanceScheduler.js`) | timers | run the collector and other jobs periodically | overlapping cycles | jobs keep running |
| Blob migration (`domains/admin/services/migrationService.js`, `infrastructure/migrationGate.js`) | gate of the process, lock row, job row, snapshot of the run, configured mode | start, resume, force, cancel, copy file by file, cut over at the restart | requests in flight when the gate goes up; a PUT that dies half-way; a second run over a first | what is served after the cut-over is what was acknowledged; a resumed run copies nothing twice |
| AI jobs (`domains/ai/jobService.js`, `pipelines/embed.js`, `nodeContentHook.js`) | one row per node, kind and generation; the pooled row with the hash it was made for; executions in the processes | enqueue by hooks after a commit, reap, claim, execute, time out, mark | executions that have been given up go on; crashed workers; hooks out of order | a job that is done has indexed what the file holds; each job ends |
| Actions journal (`domains/actions/service.js`, `store/actionJournalStore.js`) | rows per subject: inverse payload, place in the chain, status, expiry | act, undo, cascade, expire, purge with the subject | inverses from values read before the lock; undo of what has changed since; merges | undo leads back to the state before the act, or refuses |
| Collections (`domains/collections/*`, `store/collectionsStore.js`) | columns, members, grants | the journaled acts, merge, delete; suggestions and evolution | a merge deletes its loser and can be undone | one active collection per name; acts that can be taken back |
| WebDAV mode (`utils/webdav.js`, `FileStore` and `BlobStore` adapters) | what lies at a file's path and in `/.wea-trash` | upload, overwrite with a snapshot moved back on failure, trash and restore by MOVE | a PUT writes over the only copy; calls that fail after they took effect | the file serves what was acknowledged, or is marked |
| Search, thumbnails, permissions, sharing, auth, setup, usage, client | see PROJECT.json | – | mostly data transformation or I/O | – |

The components interact through the two stores. The services call the repository directly and each
other inside one request; nothing serialises two requests, and no request holds a lock on a file. The
collector and the repair act on rows and blobs that requests are using; the only things that keep
them apart are statuses, keys drawn fresh, and ages. Acts on collections are the exception: the
journal puts a lock row around each transaction. The AI jobs hang off the file services by hooks that
run after the commit and are not part of it. A migration shares no lock with requests; only the gate
keeps new ones out.

## 2. Modules

| Module | Models | Role |
|---|---|---|
| `ObjectMap` | the object_map table: one operator per SQL statement, and the selections the services make over its rows | pure operators |
| `BlobLifecycle` | the services of s3 mode over that table and the blob store | state machine |
| `MCBlobLifecycle` | symmetry for the safety runs | TLC |
| `NodeTree` | parent pointers, closure table and trash marks, and the services that write them | state machine |
| `MCNodeTree` | symmetry | TLC |
| `SubjectMutex` | mutual exclusion per subject | abstract specification |
| `SubjectLocks` | the lock rows and the requests that take them | state machine, implements `SubjectMutex` |
| `UndoLog` | what the journal promises of the acts on a subject | abstract specification |
| `ActionJournal` | collections, their journaled acts, undo, merge, retention | state machine, implements `UndoLog` |
| `MCActionJournal` | three families of scenarios, symmetry | TLC |
| `AiJobs` | the queue of embed jobs, its hooks and workers | state machine |
| `MCAiJobs` | a bound on commits of unreadable contents | TLC |
| `StorageMigration` | both storage modes of a file, and the migration of its bytes between them | state machine |
| `BlobLifecycleProofs` | what each statement of `ObjectMap` preserves; types and version numbers of `BlobLifecycle` | theorems |
| `BlobReadableProofs` | that files serve, and stuck files keep, what was acknowledged | theorems |
| `BlobAloneProofs` | how many versions are active, listed and shared, and what copies serve, when one request runs at a time | theorems |
| `NodeTreeProofs` | that the closure table is exact, the parents acyclic, purges confined | theorems |
| `SubjectLocksProofs` | that the locks exclude, and whom they refuse | theorems |
| `ActionJournalProofs` | that the journal implements its promise, tells how each collection came about, and can be taken back | theorems |
| `StorageMigrationProofs` | that runs resume, and files serve what was acknowledged in either mode | theorems |
| `AiJobsProofs` | that a job that is done has indexed what the file holds | theorems |

`ActionJournal` and `SubjectLocks` meet in the transaction: the one takes it for one step because the
other shows that no two requests are inside one subject's lock at a time. `StorageMigration` and
`BlobLifecycle` meet in the active row of a file on S3; versions, copies and the collector are in the
latter, what lies on the WebDAV server in the former. `AiJobs` takes from the file services only the
order of commits and hooks.

### ObjectMap

The table is a set of rows `[node, key, ver, st]`. `Upsert` is `upsertObjectMap` (demote the active
row, insert at MAX + 1), `Evict` is `evictVersionsBeyondCap`, `Activate`, `Reactivate`,
`DemoteByKey`, `DeleteRows` and `CascadeDelete` the other statements. `LastGood` is the row that the
repair would reactivate, `Evicted` and `StalePending` what tier 1 selects, `KeptKeys` what tier 2
spares. The pair of node and key stands for the row id. Sizes, timestamps and the storage backend
column are left out; the ages that the collector compares are abstract (below).

### BlobLifecycle

`sync` is `file_nodes.sync_status` (`"absent"` when the row does not exist), `trashed` the nodes with
`deleted_at`, `rows` the table, `blobs` the keys in the bucket, `minted` the keys already drawn. `req`
says what each request in progress awaits, `gc` what the collector awaits. `content`, `ack`, `doomed`
and `exposed` are history variables that no guard reads: the bytes under each key, what a caller was
last told a file holds, the files somebody asked to purge, and the files that a step known to be
unsafe has touched.

Granularity. The default backend is sqlite, whose driver is synchronous: all that a handler does
between two awaits on the blob store is one turn of the event loop, transactions included, and a
failed transaction is rolled back. A step of the model is one such turn, or one effect of the blob
store. Where one turn holds several commits, the actions under "Between two commits" let a statement
fail, or the process die, in between (operation `fault`). `Crash` forgets every request and the
collector; start-up repairs nothing, it only reports, and so does the model.

| Code | Actions |
|---|---|
| `uploadFile` | `UploadStart`, `BlobLands`, `Finish`, `UploadFails`, `UploadCleanupFails`, `UploadUnprepared` |
| upload onto an existing file: `ensureExclusiveBlob`, `overwriteFile`, `rollbackOverwrite` | `OverwriteStart`, `OverwriteSplit`, `DupLands`, `DupFails`, `OverwriteSplitDone`, `SplitTorn`, `OverwriteFails`, `OverwriteRollbackFails`, `UndoBlob` |
| `copyFile` | `CopyLink`, `CopyDup`, `CopyDupDone`, `CopyUnlinked`, `CopyDupUnlinked` |
| `restoreVersion` | `RestoreVersionStart`, `HeadFinds`, `RestoreVersionSwap`, `HeadRefused` |
| `repairPendingUploadNode` | `RepairRestore`, `RepairProbe`, `HeadFinds`, `RepairComplete`, `RepairBlobMissing`, `RepairDelete`, `RepairDeleteAtOnce`, `RepairKillBlob`, `RepairKillNode` |
| `deleteNode`, `restoreNode`, `purgeNode`, `emptyTrash`, tier 3 | `Trash`, `Untrash`, `PurgeStart`, `PurgeBlob`, `PurgeNode`, `PurgeNodeFails` |
| `runGcCycle`, tiers 1 and 2 | `GcBegin`, `GcBlob`, `GcRows`, `GcStaleRows`, `GcList`, `GcReconcile`, `GcEnd` |

Abstractions. Files only; folders are in `NodeTree`. Names, permissions, the file
cache, thumbnails, enrichment hooks and content hashes are left out. The two HEAD requests that the
repair may make are one. A PUT that is reported as failed does not land later. One collector cycle
runs at a time. Ages: tier 1 and tier 2 may pick any set of rows and blobs but those that
a request in progress is writing (`InFlight`), because a request lasts minutes and the shortest retention is a day;
the old rows that a repair or a version restore works on may be picked. The answer of a HEAD and the transaction after
it are two steps. Tier 3 is
a purge request with a list, as `emptyTrash` is. `overwriteBlob` is not modelled.

### NodeTree

The other half of a file's metadata: where it is. `nodes` are the rows of `file_nodes`, `parent` and
`trashed` two of its columns, `closure` the rows of `node_ancestors`; `purge` holds the purges that
await blobs, each with the list it was given. Bytes and names are left out: `BlobLifecycle` and
`NodeTree` meet in the node, which one gives blobs and the other a place, and in trash and purge, which
both model from their side.

| Code | Actions |
|---|---|
| `createFile`, `createDirectory`, `buildAncestorsForNode` | `Create` |
| `moveNode`, `rebuildAncestorsAfterMove` | `Move` (`Allowed` is the cycle check, `Rebuilt` the new closure, `Collides` the primary key that makes the transaction fail, `Cyclic` the walk that never ends) |
| `fileService.deleteNode`; `trashService.restoreNode` | `Trash`; `Untrash` |
| `fileNodeService.deleteNode` with the foreign keys' cascades | `HardDelete`, used by `Discard` (failed upload or copy) and `PurgeNode` |
| `purgeTrashedNode`, `emptyTrash`, tier 3 | `PurgeStart`, `PurgeNode` |

`TrashOps` names what clients do with trashed things besides restoring and purging them: create or move
something under a trashed folder (`"under"`: no handler looks at the mark of the destination), and move
a folder that holds trashed items, or a trashed item (`"move"`: no handler looks at those either, and
the first is everyday use).

Every handler but a purge is one turn of the event loop, as above. A rebuild that walks a cycle keeps
that turn for ever, because every read it awaits is answered at once: `hung` is then true and nothing
else happens.

### SubjectMutex and SubjectLocks

`SubjectMutex` says that at most one request works on a subject. `SubjectLocks` has the table of locks:
`lock[s]` is the row of subject `s`, with the request whose token it carries (or `Orphan`, when its
holder has died) and the ticks left until it expires; `req[p]` is how far request `p` is. Requests may
be of any number of processes: nothing but the table is shared.

| Code | Actions |
|---|---|
| `commitChange`, `undoAction`, `deleteCollectionPermanent`, `mergeCollections` ask for a lock | `Ask` |
| an attempt of `acquirePostgresqlLock` / `acquireSqliteLock` that succeeds | `Acquire` (`Takeable`, `Expired`) |
| the deadline, after an attempt that failed | `TimesOut` |
| the transaction ends; the `finally` blocks | `Ends`; `Release`, `ReleaseLoser` (`Without`: DELETE by key and token) |
| a process dies, or a release fails (it is only logged) | `Dies` |
| time | `Tick` |

An attempt is one step although on PostgreSQL it is a DELETE and an INSERT: the DELETE removes only a
row that is expired anyway, and the INSERT is what decides. Two assumptions about speed are guards of
`Tick`: a transaction ends before its row expires (30 s; nothing in the code checks it), and a
request at its deadline makes its last attempt within the tick. The lock that a merge holds on its loser
while it waits for the survivor's may expire: the model does not forbid that.
The time of expiry is counted from the attempt (`RowOf`).

### UndoLog and ActionJournal

`UndoLog` keeps nothing of an act but its status: per subject a chain of acts, taken back from its
end together with all later ones that stand; acts expire from the beginning of each chain; what is
taken back or expired stays so; a subject may be purged with its chain.

`ActionJournal` has the collections themselves (`col[c]` is `Gone` or a function of its aspects: name, pin,
publish mode, status, the state of each possible member, the role of each user) and the rows of
`action_journal` (`journal[c]`, by `chain_seq`). A row holds what its inverse gives back (`back`, and
for a merge `lost` and `dropped`) and, as history, the subject before and after.

| Code | Actions |
|---|---|
| what an act reads before its lock (`renameCollection`, `setPinned`, `setPublishMode`, `archiveCollection`, `restoreCollection`, `addItems`, `removeItems`, `publish`, `grantAccess`, `revokeAccess`, `updateProperties`, `createCollection`, `mergeCollections`, `deleteCollectionPermanent`) | `Rename`, `SetPinned`, `SetPublishMode`, `Archive`, `Restore`, `AddItems`, `RemoveItems`, `Publish`, `GrantAccess`, `RevokeAccess`, `UpdateProperties`, `CreateCollection`, `MergeCollections`, `DeletePermanent` |
| the transaction under the lock (`commitChange` and its callers) | `CommitAct`, `CommitCreate`, `CommitMerge`, `CommitDelete`, `Fails` |
| `undoAction`, `applyCollectionInverse`, `applyInverseTx`, `applyMergeCollectionsInverseTx` | `UndoAction` (`Standing`, `TakenBack`, `Inverted`, `Fits`) |
| `expireRows` | `Ages`, `ExpireRows` (`PastExpiry`) |

The point of the two steps is the gap between them: the previous value that an act journals was read
before the lock. A merge lists its loser's members in between, under the loser's lock and before it waits for the
survivor's; `CommitMerge` reads them at the commit. The two are the same because whoever writes members takes
the loser's lock first and the merge keeps it to the end, but for a lock that expires in the wait, which `ActionJournal`
leaves out. An undo is one step: what it reads before its lock names the lock only. All
collections have one owner and origin `user`; automatic pins, exclusions and derived members, the
settings domain of the journal, and the feeds are left out.

### AiJobs

One file and its embed job. `content` is what the file holds, `hooks` the hooks that have not run yet,
`job` the row of `ai_jobs`, `index` the pooled row (the hash on it, and as history what the vectors were
made from), `exec` the executions in all processes, those that a pass has given up included.

| Code | Actions |
|---|---|
| a commit of content; `onNodeContentCommitted`; its failure | `Commit`; `Enqueue` (`Enqueued` is the upsert); `HookLost` |
| `enqueueSeedEmbeddingJob` | `SeedEnqueue` |
| `runPendingEmbedJobs`: `recoverStaleRunning(0)`, `claimNext`, no job left | `StartPass`, `ClaimNext`, `EndPass` |
| `runEmbedJob`: dedupe, text, vectors, `markDone` / `markSkipped` | `Check`, `ReadText`, `PersistVectors`, `Mark` |
| an exception; `runWithTimeout`; the death of a process; `next_retry_at` | `Throws`; `TimesOut`; `Crash`; `FallsDue` |

Attempts are not counted because the code has no cap on them. Passes drain the other kinds of job too;
for this row they only repeat the reaping. `Slots` bounds the executions at one time. `harm` is a
history variable: it names what has happened that the queue does not make up for, and `DoneIsIndexed`
says which of them it exempts: a content that comes back while work on it is on its way (`"back"`), a hook
that is lost, one that could not tell the hash (`"unstamped"`) or that a later one has overtaken, and
a late answer of an execution that had been given up. `JobsEnd` exempts two processes that reap
each other's rows (`"reaped"`), which they can do for ever.

### StorageMigration

One file in both modes, and the migration of its bytes. `mode` is the storage mode this process
started with, `stored` the one in the settings; `object` the active row on S3, which stands for its blob
too because a blob is never rewritten; `dav` what lies at the file's path and at its path in the trash;
`cache` the size in `filecache`; `req` the request in flight on the file; `gate`, `lock` and `job`
belong to the migration.

The gate is looked at once, as a request comes in (`Arrive`). Before its first change the code buffers the body, checks
permissions and names, or answers 202 and queues a batch job; `req.at = "in"` is all of that, and a migration may start,
copy and end meanwhile. So every action below may happen behind the gate. `UnderWay` is what of this the history counts
as doubtful when the snapshot is taken.

| Code | Actions |
|---|---|
| the gate's middleware; a request that is refused or changes nothing | `Arrive`; `Leave` |
| upload and overwrite on S3 | `S3Begin`, `S3Commit`, `S3Fail` |
| upload and overwrite on WebDAV, with the snapshot in `/.wea-tmp` | `DavBegin`, `DavPut`, `DavPutFails`, `DavAck`, `DavUndo` (what cannot be brought back is marked `orphaned_node`) |
| trash and restore | `S3Trash`; `DavTrash`, `DavRestore`, `DavMark` |
| `dispatchWorker`, `run`, `runCopy`, `processNode`, `persistStorageConfigToDb` | `StartRun`, `TakeLock` (with the snapshot), `RunFails`, `NextFile` (`ShouldSkip`), `Read`, `Write`, `Book`, `Vanished` (the node is gone: a foreign key refuses the row), `MarkCopied`, `StopRun`, `FinishRun`, `Persist`, `EndRun` |
| a crash or a restart; the lock row of a dead run | `Restart`; `LockExpires` |

`StopRun` is a cancelled run or one that cannot go on. Dry runs change nothing and are left out, and so are
failures of local statements during a run (the best-effort update of the cache among them), folders,
moves, copies, versions, stuck uploads, purges and the collector. On S3 the update of the cache that
follows a commit is part of it. Reads and writes of a run may fail, a write before, while or after it is carried out.
`Persist` is one step: the code writes the settings key by key, but the mode is the only one the model knows; the
others are the address of the destination. `risk` and `lost` are history: the files
that somebody wrote or moved where the migration does not look again, and those that have been let
down for that reason, or by a crash in the middle of a write to the only copy.

## 3. Properties

Safety (all exempt, through `Owed`, the files in `exposed`; see below):

* `AcknowledgedReadable`: a healthy file has exactly one active version, which holds the bytes that a
  caller was last told are stored, and whose blob is there.
* `LastGoodKept`: for a stuck file, the row that the repair would reactivate holds those bytes.
* `StuckKeepsAcknowledged`: weaker, and true with version restores too: some row still holds them.
* `VersionsHaveBlobs`: every version that the user sees listed can be downloaded.
* `VersionsUnique`, `AtMostOneActive`, `SharersBounded` (two).
* `VersionsWithinCap`: what the documents say of the cap, which the code breaks (run `VersionCap`);
  `VersionsBounded`: that it breaks it by one version and no more.
* `PurgesTrashed` (action property): only trashed files are purged, which the code does not keep either
  (`RestoredPurged.cfg`).
* `CopiesIsolated` (action property): no step changes the active version of two files.

Of the tree:

* `ClosureExact`: the closure table is the reflexive transitive closure of the parent pointers. This is
  what an abstract specification of the tree would say: the table answers as the pointers would.
* `MovesEnd`: the cycle check keeps every rebuild from walking a cycle.
* `TrashedWhole` (action property): what goes to the trash takes everything below it along.
* `DeletesSubtreeOnly`, `PurgesWhole` (action properties): what a purge deletes lay below a node that it
  listed, and a listed node leaves the list by being deleted only.

Of the locks:

* `MutualExclusion`: `SubjectLocks` implements `SubjectMutex`, whatever rows expire, die or are released late.
* `OnlyOvertakenGiveUp` (action property): a request gives up only if, while it waited, another took the
  lock; a dead holder's row is no reason. This is what fails on sqlite.
* `RequestsEnd`: every request ends, merges in a ring included.

Of the journal:

* `JournalExplains`: a collection is what the last act not taken back made of it, and each such act starts
  from what the one before it left. So undoing, alone or in a cascade, restores the state before the act.
* `UndoPossible`: a row that is not past its expiry stays undoable, and the last act of a subject can
  be taken back unless another active collection has the name by now.
* `LoserComesBack` (action property): undoing a merge brings its loser back as it was, but for its grants.
* `KeepsPromise`: `ActionJournal` implements `UndoLog`.

The first two are about chains whose acts are all `Invertible`: an act that found other values than it had
read, that changed nothing, or that removed a member not yet published is journaled all the same,
and its inverse does not lead back (see the divergences).

Of the AI jobs: `DoneIsIndexed` (a job that is done leaves vectors made from what the file holds, with no hook
on its way), the liveness property `JobsEnd`, and `LateMarksNothing`, what the code says of executions that were
given up and does not keep (`LateAnswer.cfg`).

Of migration:

* `ServesAcknowledged`: in either mode, and after each change of mode, a file that is not `lost` serves what was
  last acknowledged for it. A file is `lost` by a change of mode if a request was under way on it at the snapshot or
  changed it behind the gate, among others.
* `BooksWhatIsServed` (action property): what a run books as copied is what the file serves at that moment. A locked
  application would have it; the gate does not give it (run `MigrationBehindGate`).
* `ResumesWhereItLeft` (action property): a run that resumes does not copy again what an earlier one has
  booked and nobody has touched.

Liveness of blobs: `UntrackedReclaimed` and `CollectableReclaimed` (the collector reclaims unreferenced blobs,
evicted rows and stale pending rows), and `ListedPurged` (every file of an `emptyTrash` list goes; `BlobPurges.cfg`, by hand).

`exposed` holds a file once it has been touched by: an overwrite, or the split before it, that found
the file without an active row (it was stuck, or another overwrite was under way); a split torn
between its two statements; a repair that completes a row which the collector has selected or deleted.
In these cases the code does lose acknowledged bytes. The exemption lasts until the file is deleted.

## 4. Runs

Passing runs. `CHECK_DEADLOCK FALSE` in the blob runs: keys are drawn once and never again, so that a
behaviour ends when the `Key` constants are used up. In `Undo`, `AiJobs` and `StorageMigration` the same
holds of the bounds on acts, commits and faults, uploads and runs, and in `SubjectLocks` it is a system
that may rest: nobody has to ask.

| Run | Bounds | Question |
|---|---|---|
| `BlobSequential` | 1 file, 3 keys, 1 request, cap 1, everything but copies and version restores | do failures, half-done writes, crashes, repairs, purges and the collector keep the last good version? The cap of 1 makes the last good version itself the eviction candidate. |
| `BlobVersions` | 1 file, 4 keys, 1 request, cap 2 | version restore: one active row, bounded history; four keys fill the cap and evict once. |
| `BlobCopies` | 3 files, 4 keys, 1 request | copies of copies, splits, half-done copies: three files are what the bound of two sharers needs to fail. |
| `BlobReclaim` | 1 file, 3 keys, 2 requests, cap 1, fairness | two overwrites interleave while rollbacks, evictions and the collector delete rows: do version numbers stay distinct, and does the collector eventually win? |
| `TreeClosure` | 4 nodes, 2 purges, `TrashOps = {"under"}` | is the closure table exact after any sequence of operations? Four nodes are a subtree with a child moved from one folder to another. |
| `SubjectLocks` | 3 subjects, 2 requests, `Ttl = Wait = 2`, PostgreSQL, fairness | exclusion, giving up, termination. Three subjects are two merges that overlap in one; two ticks let a row expire before, while and after another waits. |
| `Undo` | 3 collections of which 2 exist at first, 3 names, 1 node, 1 user, 2 requests, PostgreSQL | three families: `acts` (every act, two in a row, then undo), `chains` (three acts of few kinds, merging, deletion, retention, cascades), `races` (two requests in each other's gaps). A third act is what a cascade over a merge needs. |
| `AiJobs` | 3 contents, one unreadable, 2 processes, 2 slots, 3 commits, 1 fault, fairness | two slots are one execution given up and its successor; three commits a content that comes back. |
| `StorageMigration` | 1 file, 3 contents of which 1 has a size of its own, 1 fault, 3 runs, 2 restarts | there and back and there again, with a request that arrived before the gate went up. Files share nothing but the order of a run, so one suffices, with one request at a time on it; two contents of one size are the copy that looks right and is not. |

Symmetry is declared on the safety runs only. `Ops` names the operations an instance runs, so that
each run spends its bound on one question; between them the runs take every action.

Runs that find what a document or a comment denies (PROJECT.json quotes the text):

| Run | Property violated | What happens |
|---|---|---|
| `PurgeSharedBlob` | `AcknowledgedReadable` | purging a file deletes the blob of its copy |
| `VersionCap` | `VersionsWithinCap` | `prepareUpload` evicts before the new row is active, so a file at rest holds cap + 1 versions |
| `MigrationBehindGate` | `BooksWhatIsServed` | a request let in earlier overwrites behind the gate; the run copies the old bytes and flips the new row, which later runs skip |

Configurations to run by hand, not in PROJECT.json. TLC finds the property violated in each but the last:

| Configuration | Property | What happens |
|---|---|---|
| `RacingOverwrites` | `AtMostOneActive` | the second of two overwrites finds nothing to demote; both activate |
| `RestoredPurged` | `PurgesTrashed` | a file restored while its purge awaits a blob is destroyed |
| `TrashedMoves` | `MovesEnd` | folder A lies trashed in B; move B; restore A; move B into A: accepted, and the rebuild never ends |
| `SqliteLocks` | `OnlyOvertakenGiveUp` | a dead holder's row of the same day never expires: an ISO string is compared with `CURRENT_TIMESTAMP` as text |
| `SqliteRetention` | `UndoPossible` | the nightly job expires every row that stands (`julianday` against `datetime`) |
| `LateAnswer` | `LateMarksNothing` | an execution that was given up marks done a row that another execution runs by now |
| `BlobPurges` | `ListedPurged` | two purges of lists race each other, uploads and untrashing; each listed file goes (2 files, 2 requests, fairness; it holds) |

What the documents say of these: at most one active version per node (`docs/spec/server/services/blobStorageService.md:293-295`);
only what is trashed is purged (`fileService.md:560`) and no folder is moved below itself (`:350`); stale locks are recovered by
their TTL on both backends (`docs/spec/server/store/locks.md:7`), acts kept for 30 days (`actionJournalStore.md:50`), and late
answers change nothing (`src/server/domains/ai/pipelines/pipelineRunner.js:22-23`). `AtMostOneActive`, `MovesEnd`,
`OnlyOvertakenGiveUp` and `UndoPossible` pass in the first table because those instances leave the cause out: one request, no moves
of trashed things, PostgreSQL.

### Divergences without a run

Met while modelling; where an instance shows one, it is named. Paths are relative to `src/server`.

*Blobs.* A retried overwrite of a stuck file fails, and the rollback marks the file active without a
version: it leaves the list of stuck files (`StuckKeepsAcknowledged` does not see it, the row stays).
Restoring a version of a file demotes the active row of its copy (`CopiesIsolated`, with
version restores and copies in one instance). After restoring version 1 over version 2, an
overwrite that crashes and its repair bring version 2 back: `LastGoodKept` fails once `BlobSequential`
is given the version restores, which is why `BlobVersions` checks the weaker `StuckKeepsAcknowledged`.
The collector can delete the blob of an upload that a repair completed after the selection. Its tier 1
deletes an evicted version's blob although a copy still names it (the cause is that of
`PurgeSharedBlob`). A split that ends after
another overwrite was acknowledged puts the old bytes back, and a delete repair can remove the blob of an
upload that has just finished. The last two need two requests on one shared file or a
repair during an upload, which is why `BlobCopies` runs one request and the runs with two have neither
copies nor repairs; and the collector does not run beside copies.

*Tree.* What makes `TrashedMoves` fail also breaks `ClosureExact` (after the first
move, trashed items of the moved folder have no closure rows) and `PurgesWhole` (a hard delete of such an
item deletes the rows that the closure table names, none: it stays in the trash for ever). With
`"under"`, live items can lie under a trashed folder, where `service/trashService.js:163` says that "every
child of a trashed row is trashed"; a purge of the folder destroys them with it, and
`DeletesSubtreeOnly` accepts that.

*Locks.* Merges in a ring wait for
each other until `LOCK_TIMEOUT`, where `store/collectionsStore.js:396-400` says "deadlock-free".

*Journal.* Acts that change nothing are journaled: archiving what is archived,
pinning what is pinned, and an `addItems` whose member was added meanwhile, whose undo then removes the
other's member. A removed member that was held comes back published. An `addItems` of members
that are all there is journaled and its undo refused. Undoing a merge does not bring the loser's
grants back. What an act gives back was read before the lock, and can be a value that was never there.
A permanent deletion looks at the status before its lock; a merge reads the loser before its lock,
so that undoing it can bring back a collection that somebody else had deleted or merged. On PostgreSQL
the check of the loser's name runs outside the transaction.

*AI jobs.* An execution that has been given up writes its vectors over newer
ones. Every pass reaps the running rows of all processes at once, where the service's document speaks of
the start-up and of 15 minutes; two processes can keep reaping each other. A row enqueued without a hash is never reset
by one with a hash. A content that comes back while vectors of another are being made can be skipped as a
duplicate. A file whose text can no longer be extracted keeps its old vectors. A hook that comes after a
later commit's leaves the older hash on the row. An exception in a pass outside its try blocks ends the
worker's loop.

*Migration and WebDAV mode.* A copy on the other side that is stale is taken for good when the marker matches:
from S3 to WebDAV, an overwrite, and back, the row kept from before is the marker; between two runs
to WebDAV, an overwrite of the same size is not noticed, and neither is an older content of that size at the
path in the trash of a file that is trashed. A row already flipped is never copied again,
even when forced (`domains/admin/services/migrationService.js:173`), so a file trashed or restored after its copy ends at
the wrong path. A run that completes
persists the new mode although files failed. Its settings are written key by key, so that a failure in between leaves the new mode with an old
address (not modelled). What is written between completion and restart stays on the old
side. A forced run before the restart can tear what was already copied. A file marked `orphaned_node` stays so after later
successful overwrites, and is left out on the way to S3. A run that dies between
`upsertObjectMap` and `updateSyncStatus` leaves a pending status that the next run skips. A cancellation that comes
during `persistStorageConfigToDb` is overwritten by "completed". No dry run precedes an apply, though
`migrationService.md` and `blob-migration.md` have one. A dead run leaves its lock row for 24 hours. The gate
is the process's own; a migration from the command line gates nobody. In WebDAV mode, a crash in
a PUT leaves a short file, and the next overwrite's snapshot replaces the good one; files inside a trashed folder are
looked for at a path of their own; MOVE and COPY that are refused fall back to a streamed copy that
overwrites. Of the metadata migration, not modelled: `SERIAL_ID_TABLES` omits the identifiers of
`object_map`, and `COPY_ORDER` names 13 tables only.

## 5. Fairness

`FairSpec` adds to `Spec`: weak fairness of every request (`Succeeds \/ Fails`: each blob-store call
answers or errors out, nothing says which); weak fairness of the collector (the maintenance scheduler
starts it on a timer, and each of its calls answers); strong fairness of the selections with everything
that is old enough (whatever is at rest grows old, and the scheduler never stops); and strong fairness
of a successful deletion (a deletion may fail any number of times, not for ever). The process does
not crash in the liveness runs of the blobs: a crash for ever after would excuse any leftover.

`SubjectLocks`: weak fairness of the clock (timers fire) and of each request's own steps (its statements
answer). Nobody has to ask and nobody has to die. `AiJobs`: weak fairness of the hooks, of retries
falling due, of each process's passes (`scheduleNext` sets the timer of the next pass) and of each
execution's steps; faults are bounded. `Undo` and `StorageMigration` check safety only and assume no fairness.

## 6. Proofs

The first part of `BlobLifecycleProofs` shows of every statement of `ObjectMap` that it keeps the table well formed: rows of the right type,
a bound on the version numbers of each node (without it MAX would not exist: the rows are not known to
be finite in number), and different numbers in different rows of a node. The heart is `NextVersionIsNew`.

Its second part proves, for any sets of files, keys and requests and any cap,

* `TypeCorrect`: `Spec => []TypeOK`,
* `VersionsStayUnique`: `Spec => []VersionsUnique`,

from `Invariance`: `Spec => []IInv`. `TypeOK` is not inductive: a copy inserts its row at version 1
without looking at the table, so uniqueness depends on the new node having no rows. `IInv` adds
`WellFormed(rows)`; `NodesExist` (every row's node exists: deletion cascades); `RequestsNamed` (a
request in progress names a node, and one with a blob to write is of an operation that writes one); and `CopiesReserved` (a node that a running copy will create is
absent and nobody else names it). The proof has a lemma per action, and one per shape of action for
those that write no row. Assumed are only `CapAssumption`, `OpsAssumption` and `NoneAssumption`.

`BlobReadableProofs` proves the properties of `BlobLifecycle` that are about bytes, for any files, keys, requests and
cap:

* `Readable`: `Spec => []AcknowledgedReadable`,
* `StuckKeeps`: `Spec => []StuckKeepsAcknowledged`,
* `LastGoodIsGood`: `Spec => []LastGoodKept` (version restores left out, as in the runs that check it),
* `VersionsThere`: `Spec => []VersionsHaveBlobs`,

all from `KeptAlways`: `Spec => []Kept`, under `Setting`, which `BlobReclaim`, `BlobSequential` and
`BlobVersions` satisfy. `Setting` says: no copies (two files then share a blob, and `PurgeSharedBlob` shows that the
property fails once one is purged; `CopiesReadable` below says when it holds); any number of requests that upload, overwrite, trash and purge, beside the collector, faults and
crashes; and if stuck files are repaired or versions restored, but not both, one request at a time. That last
restriction is the model's, not the code's: nothing in the server keeps a repair from racing another request. What
such a race may do was neither checked nor proved.

None of the four properties is inductive, for each speaks of a file at rest, and what it rests on is done
elsewhere, by a writer half-way, a purge with a list or a collector that has chosen its rows. `Kept` says where the
acknowledged bytes are in between. Of the rows: one row per key (`OneRowPerKey`) and keys drawn before they are used.
Of a request: it owns the pending row of its key (`OwnsRow`, `KeysApart`); what a restore has read still holds
(`Restores`); what a purge deletes belongs to doomed files (`Purges`); after its PUT or a HEAD that found it the blob is there
(`Landed`), unless the collector has selected the row.
Of a file: one writer and one pending row at most (`OneWriter`), which is why a rollback brings back the right row;
when healthy, one active row with the acknowledged key and no writer (`HealthyAt`); when stuck, or while a writer
works on it, a `Good` row: history, newest of its file, and not among those that the collector has selected (`StuckAt`).
The last clause is the guard of `evictVersionsBeyondCap` at work: the rows that the collector is about to delete were
chosen earlier, so the invariant must carry that choice along. Of the store and the collector: no row that must be
readable lacks its blob (`BlobsThere`), and nothing in the collector's hands is one (`Collects`). TLC checked `Kept`
on the constants of those runs (the first with trash, purges and crashes too) before it was proved.

`BlobAloneProofs` proves what holds of versions and copies when one request runs at a time (`Lone`), beside the
collector, faults and crashes, for any files, keys and cap:

* `OneActiveVersion`: `Spec => []AtMostOneActive`, unless copies, faults and repairs come together,
* `VersionsCapped`: `Spec => []VersionsBounded`, unless copies and faults come together,
* `SharersAreTwo`: `Spec => []SharersBounded`, and `CopiesStayApart`: `Spec => CopiesIsolated`, without repairs
  and version restores,
* `CopiesReadable`: `Spec => []AcknowledgedReadable`, without repairs, version restores and purges, and beside
  the collector only where nothing is evicted (`Cap = 0`).

`BlobVersions` and `BlobCopies` satisfy the hypotheses of what they check, and but for one of them each is where the
property would fail. Two overwrites of one file can leave two active rows, hence `Lone`. `copyFile` commits the node, the row and the
bump one after another: torn, it leaves a stuck file that has an active row, which then counts once more than the
eviction has counted, and which a repair brings an older row to stand beside. A version restore demotes by blob
key, whatever the file, and a repair after a torn split gives the file back the blob it shared, which a further copy may have been linked to.
`CopiesReadable` fails with a version restore or a purge in the instance of `BlobCopies`, and with the collector there
(its tier 1 takes the blob of an evicted version, which a copy may share). The exception is the repair: with it, that
instance checks, but `Shared` does not hold, so the theorem leaves repairs out.

Four invariants carry the proofs. `Single` makes a table without duplicates of what a request is
working on: `Tidy` (per file one active row, one row per key; a pending row's key is nobody else's), and for
the request in progress that the key its split or copy will insert is in no row yet (`Splits`), that its upload still has
its pending row and no active one beside it (`Fills`), and that a restore finds active only what it has read
(`Swaps`). `Counted` adds room for the row that will be active: `Fits` says that the shown versions of a file are
finite and few enough, one fewer while an upload is under way, which is what `evictVersionsBeyondCap` has left. The
eviction is counted by way of the oldest version it keeps. `Shared` adds that at most two rows of a key are active,
which is inductive because `copyFile` duplicates a blob that two files share already instead of linking it; that what
an overwrite will go back to is nobody's active blob (`Undoable`), because the split has come first; and that the
rows the collector selected are still what it took them for (`Selections`). `Held` is the counterpart of `Kept` for files with copies, where a blob has no owner and "the acknowledged
key" means nothing: it speaks of bytes. Every version has its blob (`Backed`), every active row of a file that is not exposed
the bytes acknowledged for it (`Truthful`), and a healthy file an active row (`Serving`). A rollback and a split
read rows that were chosen before an await, so `Held` carries what they will find: the row that a rollback reactivates holds
what was acknowledged (`Returns`), a split's source is active still and its copy equal to it (`Duplicates`), and the blob that a
failed overwrite or the collector is about to delete is no version's (`Discards`, `Spare`). TLC checked
all four, on one and on two or three files with and without copies, `Held` also beside the collector, before they were proved.

`NodeTreeProofs` proves, for any nodes and any purges at a time,

* `TypesKept`: `Spec => []TypeOK`, with no hypothesis, and if `"move" \notin TrashOps`:
* `TableExact`: `Spec => []ClosureExact`, and `WalksEnd`: `Spec => []MovesEnd`,
* `TrashTakesAll`, `DeletesNothingElse`, `PurgesAll`: the three action properties.

The hypothesis is that of the run: with `"move"` the table is not exact (`TrashedMoves.cfg`). The invariant `Tree` is
`TypeOK`, `ParentsExist`, `Acyclic`, `ClosureExact` and `MovesEnd`. Exactness needs the others: `moveNode` looks for a cycle
in the table, so it is an exact table that keeps the parents acyclic, and acyclic parents that make
`rebuildAncestorsAfterMove`, which replaces the rows of the moved subtree level by level, arrive at the closure
of the new pointers. `Below` is the least set that holds its root and is closed under "child of"; so the proofs
about reachability argue with closed sets, where an induction along the path would be out of the prover's reach.

`SubjectLocksProofs` proves, for any subjects, requests, times and either backend, `LocksTypeCorrect` and
`LocksExclude`: `Spec => MutualExclusion`. The exclusion is not inductive. `RowHeld` is what makes it so:
whoever is inside holds the row of its subject, and that row has time left; so the row is not
`Takeable`, and a late release, which asks for its own token, does not remove it. Assumed are `TimesAssumption`,
`DialectAssumption` and `LockMarksAssumption`; the speed of transactions is in the guard of `Tick`, where
the proof needs it. `OnlyTheLivingRefuse` is `Spec => OnlyOvertakenGiveUp` on PostgreSQL, when `Ttl <= Wait`
(the two default to the same 30 seconds). Its invariant is `Patience`: the row that a request waits
for runs out no later than its patience does, or another request has taken the lock meanwhile. Both hypotheses
are needed: on sqlite a row never runs out in time (`SqliteLocks.cfg`), and a patience shorter than a row lasts
can end while a dead holder's row has time left.

`ActionJournalProofs` proves `JournalKeepsPromise`: `Spec => KeepsPromise`, for any collections, names,
members, users, requests and number of acts, and either backend. The invariant is `Chain`: each subject's rows are a
sequence in the order of their identifiers. It is needed for one action, `ExpireRows`: rows
pass their expiry in the order of their identifiers, so what expires is the beginning of every chain,
which `UndoLog` demands. For the rest, one lemma per shape of step (a row appended, the end of a chain taken back, a chain
purged) maps the statuses.

Its second part is about what the rows say, for the same constants:

* `JournalTyped`: `Spec => []TypeOK`,
* `JournalTrue`: `Spec => []JournalExplains`,
* `UndoStaysPossible`: `Spec => []UndoPossible` when `Dialect # "sqlite"`,
* `LoserReturns`: `Spec => LoserComesBack`,

from `StoryAlways`: `Spec => []Story`. `JournalExplains` compares a collection with its rows; what keeps it true
is spread over three places, the conjuncts of `Story`. `Requests` (`Asks`): between its two steps a request holds
what it has read and the inverse made from that, and this inverse leads from what the act would write back to what was read
(`LeadsBack`); whether the collection still is what was read shows only under the lock, and then the row is
not `Invertible` if it is not. `History` (`Told`): each row's inverse, if invertible, leads from its `now` to its `was`; what has
expired is the beginning of a chain (`OldestExpired`), so what a cascade takes is everything not yet taken
back from its row on; and `Explained` is the property itself. `Collections`: who has an identifier it was issued (a loser
that comes back gets a new one, whose journal is empty), and no two active collections have one name, which decides whether an inverse succeeds.

A cascade is induction over data, but only as far as its rows go. `TakenBack` is a recursive function on the rows
of one chain: `TakenBackSteps` shows that it exists, and `Descends`, a set of rows that has its
last row, and with each row the one before it, has all (from the library's
`NatLessThanWellFounded`), takes the place of the induction theorems, whose operator parameter the provers cannot
instantiate. Three lemmas go down the chain with it: `WalkGood` (after each inverse the collections are as they can be:
the others untouched but for losers that came back, and no name taken twice), `WalkBack` (after the inverses
of the rows `i` and later the collection is what the rows before `i` left) and `WalkRevives` (a merge among them
has brought its loser back, and the inverses after it leave that be).

`UndoStaysPossible` adds `Aged` (what has expired is past its time). Its hypothesis is needed:
on sqlite a row expires at the first nightly run (`SqliteRetention.cfg`).
Assumed are `BoundAssumption` (`MaxActs` is a number) and `GoneAssumption` (that a collection is gone is not one of
the values a row can have). TLC checked `Story` and `Aged` on the constants of the run `Undo` first.

`StorageMigrationProofs` proves `MigrationTypeCorrect` and `RunsResume`: `Spec => ResumesWhereItLeft`, for any
files, contents and bounds. The property speaks of one step of a run, but what it rests on was
done by an earlier one, so the invariant follows the marker in between: `Booked` (a booked file has a row on
WebDAV, a flipped row on S3, or one that an overwrite in flight has put aside), `Quiet` and `Undisturbed`
(a request that the gate let in is one whose file the snapshot counts as doubtful; behind the gate nobody but the run
touches the others, so each is still what the snapshot saw when it is booked), and `Recognised` (the snapshot of a later run sees the marker). `ShortAssumption`
is not needed.

Its second part proves `ServesWhatWasAcknowledged`: `Spec => []ServesAcknowledged`, on top of that invariant, and
again for any files, contents and bounds. What a file serves in this mode says nothing of what it will serve
in the other one, so `Served` says where the bytes are on both sides. For each file (`Sound`):
`KeptAt`, where they are on this side while a request has them half moved (in the snapshot of an overwrite, in the
row it will bring back, in the trash); `DavAt`, what an overwrite or a move on WebDAV can rely on; `SafeAt`,
for a file not at risk, that what `shouldSkip` would take for a copy is one (`TrueMarker`), that the recorded
size is right, and that, once the other mode is configured, the other side has the bytes. For the run:
`Snapped`, `Carried` (what it holds is what was acknowledged) and `Passed`: what it has passed is ready for the
other mode, unless doubtful or at risk, which `Persist` turns into the last clause of `SafeAt`. `Restart` uses
that clause, and rebuilds the rest for the other mode. A torn copy is not taken for a good one because of its
size; a forced run after the cut-over can tear one, which is why those files are at risk.

`AiJobsProofs` proves `JobsTyped`, and `DoneJobsIndexed`: `Spec => []DoneIsIndexed`, for any contents, processes,
slots, commits and faults, from `ContentAssumption` alone. The property compares the vectors with the file when
all is quiet; the hash that makes them match has gone from a commit to its hook, to the row, to an
execution and to the pooled row, each at its own time. `Inv` says what holds at each stop: `Holds` and `Hooks` (the
file holds the last commit, and each hook the hash of its own), `OneLatest` and `Runs` (at most one execution is
not given up, and while the row is not pending it has the row's hash). Where no harm but `"reaped"` has happened
it adds `Order` (the row has the hash of the newest commit whose hook has come, so when all have come, that of the file),
`TrueStamp` and `Fresh` (a stamp that equals the file's hash is of vectors made from the file, which is what
entitles `Check` to skip the work), and `SettledIndexed`. TLC checked `Inv` on the constants of the run `AiJobs` first.

Every invariant and action property that a passing run checks is thus a theorem, under the hypotheses given above. Only model-checked is
liveness, which is beyond the prover, as is `ENABLED`.

## 7. Not modelled, and the plan

Every component is in PROJECT.json with its status; every hazard found in the survey too, those
without a property with the reason. The map covers a small part of the source: the web client, the
adapters, the configuration, the search and the routes hold most of its lines, and have no state of their own that
a crash or another request could break. What would come next, in order:

1. `NodeTree`, continued: names (unique among live siblings, the free name that a restore picks), a
   forest as its abstract specification, refined by the closure table when no move carries trashed
   items.
2. `ObjectMapPg`: the same statements on PostgreSQL, one at a time, where the services' transactions
   do not hold them together; which properties of `BlobLifecycle` survive.
3. A promise-level specification of `BlobLifecycle` (a file holds the bytes last acknowledged, or is
   stuck and can be undone) with `BlobLifecycle` implementing it; `CopiesReadable` with repairs.
4. `StorageMigration`, continued: folders and moves in WebDAV mode, the collector beside a migration,
   and the proof of `ServesAcknowledged` for them.
5. The settings domain of the journal, derived members and the evolution of collections; permissions
   and share links as policy operators.
6. Overlapping collector cycles; the scheduler.

To check by hand: `tlc -config X.cfg M`, where `M` is `MCBlobLifecycle` for the blob runs (`PurgeSharedBlob`, `VersionCap`,
`RacingOverwrites` and `RestoredPurged` too), `MCNodeTree` for `TreeClosure` and `TrashedMoves`, `MCActionJournal` for `Undo` and
`SqliteRetention`, `MCAiJobs` for the run `AiJobs`, `AiJobs` for `LateAnswer`, `SubjectLocks` for `SubjectLocks` and `SqliteLocks`,
and `StorageMigration` for `StorageMigration` and `MigrationBehindGate`; `tlapm M.tla` for the eight modules of proofs.
