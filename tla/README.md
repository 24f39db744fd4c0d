# A TLA+ model of cbfs

cbfs keeps the contents of files as *blobs*, named by their hash, on the local
disks of several nodes. What the nodes share is in Couchbase: one ownership
record per blob (who has it, since when), one document per user file (which
blob it is), one document per node, a configuration, a list of backups, and
markers for periodic jobs. No lock ties a disk to the records. The nodes keep
both in step by checking, changing and repairing, at any time and in any order.
Clients and command line tools reach the nodes by HTTP. This project models
those steps, checks them with TLC on small instances, and proves the main
results on blobs, task locks, file metadata, uploads, the node registry,
connections, the configuration, file handles and downloads with TLAPS, for any
number of nodes, blobs, files, requests and tasks.

## The system

| Part | State | Operations | What is hard about it | Where |
|---|---|---|---|---|
| Ownership records | `/oid` documents | record, reference, mark garbage, remove self, remove another node | CAS loops against read-then-SET; grace periods | `BlobRecord`, `BlobStore` |
| Local files | files under the root | store, remove, walk, verify, clean up | never changed together with the record; rot | `BlobStore`, `Replication`, `TeeUpload` |
| Uploads | the second copy's stream, temporary files | tee, post, hash, record, collect | stalls, timers, cut streams, resends | `TeeUpload`, `BlobStore` |
| File metadata | revisions | upload, link, delete, metadata, restore, read | closure state kept over a CAS retry; preconditions | `FileMeta`, which implements `FileVersions` |
| Internode queue | a bounded channel, workers, named locks | remove, acquire, fetch | full queue; stale requests | `Replication`; races on one blob: `BlobStore` |
| Replication control | views | ensure minimum, prune, trim, salvage, grab | old counts; convergence | `Replication` |
| Self validation | - | validateLocal, reconcile, quickReconcile | races with stores and removals; a walk over a view it changes | `BlobStore`, `Replication`, `BlobWalk` |
| Garbage collector | view pages, garbage marks | view, mark, queue removals | acts on an old view while files are linked; page borders | `BlobStore`, `GCScan`, `Backup` |
| Nodes | heartbeats, registry documents | beat, size, list, clean up | a node that comes back while it is cleaned up | `NodeRegistry`, `BlobStore` |
| Jobs and task locks | markers with a TTL | run, relock, force, exclude | expiry while running; check then set | `TaskLock`, which implements `Lease` |
| Configuration | a document, a global, tickers | set, reload, broadcast | edits that overlap; told before it is set | `ConfigStore`, `ConfigBroadcast` |
| Frame transport | connections by address | connect, use, check, ping, destroy | concurrent connects; timers nobody can stop | `FrameClients` |
| Backup, restore | list of backups | write, list, restore, remove, load hashes | lost updates, lost errors | `Backup` |
| Walks | channels, fetchers | walk, archive, export, fsck | who is left waiting when one gives up | `PathWalk`, `Fsck` |
| Listing | a view and a bulk read | list, list deep, remove | two reads that disagree | `Listing` |
| Client and tools | channels, workers, handles | recursive upload, download, read, seek | workers that wait for each other; retries; shared inodes | `UploadSync`, `Download`, `FileHandle` |

`PROJECT.json` has the complete list of parts and of the hazards at their lines.

## Modules

- **`BlobRecord`**: the record (`BlobOwnership`) and what each closure does to
  it, as pure operators. An absent document differs from one with no owners.
- **`BlobStore`**: records, disks, file documents and a clock, with one action
  per step of a handler that other handlers can see.
- **`MCBlobStore`**: the instance for TLC (symmetry, the constraint `Unexposed`).
- **`BlobStoreMoves`**: what a step may do to a record, a disk, a handler, the
  clock and the file documents, whichever action takes it. **`BlobStoreSteps`**:
  every step does no more than that. **`BlobStoreInvariants`**: type correctness,
  and what does no more keeps each part of the invariant.
  **`BlobStoreProofs`**: the theorems.
- **`Lease`**: what a job marker promises, as an abstract specification: a task
  has at most one holder, and a lease is granted only while nobody holds it.
- **`TaskLock`**: the periodic jobs, their two documents in Couchbase, crashes
  and the cleanup after them. It implements `Lease`.
- **`MCTaskLock`**, **`MCTaskRuns`**, **`TaskLockProofs`**: instances for TLC on
  two nodes and, under fairness, on one; the theorems.
- **`Replication`**: queues, workers and the jobs that count copies, on several
  nodes that fail. **`MCRepair`**, **`MCReplication`**: its instances.
- **`FileVersions`**: what the document of a file promises, with every request
  as one step. **`FileMeta`**: the requests as the code makes them. It
  implements `FileVersions`. **`MCFileMeta`**: the instance;
  **`FileMetaProofs`**: the theorems.
- **`TeeUpload`**, **`GCScan`**, **`Backup`**, **`BlobWalk`**, **`PathWalk`**,
  **`Fsck`**, **`NodeRegistry`**, **`FrameClients`**, **`ConfigStore`**,
  **`ConfigBroadcast`**, **`Listing`**, **`UploadSync`**, **`FileHandle`**,
  **`Download`**: one part each, as the sections below say.
- **`MCScans`** (`GCScan`, `BlobWalk`, `PathWalk`, `Fsck`, `Backup`), **`MCNode`**
  (`TeeUpload`, `NodeRegistry`, `FrameClients`), **`MCConfig`** (`ConfigStore`,
  `ConfigBroadcast`) and **`MCClient`** (`Listing`, `UploadSync`, `FileHandle`,
  `Download`): instances of modules that share no state. A variable `part`,
  chosen at the start, says which of them runs; the others keep an initial
  state. So a run explores the parts side by side and not their product, and
  the properties of a part are conjuncts of the run's. The fairness of a part is
  restated there for the behaviours in which it runs.
- **`UploadPart`**, **`RegistryPart`**, **`FramesPart`**: the parts of `MCNode`,
  each with its constants, its instance (`T`, `R`, `F`) and its properties.
  **`ConfigPart`**: the parts of `MCConfig` (`S`, `B`). **`ReadPart`**: the file
  handles and downloads of `MCClient` (`H`, `D`). Their constants get their
  values only in `Node.cfg`, `Config.cfg` and `Client.cfg`.
- **`NodeProofs`** (uploads and registry), **`ServerProofs`** (connections and
  configuration) and **`ClientProofs`** (file handles and downloads): theorems
  about the specifications of these parts.

A module writes a definition that has a plausible wrong form as two uses of one
helper (`DestroyFrameClient(k) == Destroy(k, {entry}, Off)`); the other use is
marked as a mutant in its comment and is used by nothing. Variables that are history are named as
such where they are declared and are read by no action.

### How `BlobStore` corresponds to the code

`record[o]` is the document `/o`; `disk[n]` the files under n's root; `meta[f]`
the blobs that the document of f refers to (`oid` and `older`, as the view
`file_blobs` emits them); `downAt[n]` the last heartbeat of a node that stopped.
`op[h]` is a running handler: an HTTP request, a task or a worker. Its `pc`
names what it has done, as the table in the module says. `couchbase.Update` is a
CAS loop and so one step. `referenceBlob` and `markGarbage` read and then SET
with the CAS they read: two steps. `current` holds the handlers whose CAS is
still good.

| Code | Actions |
|---|---|
| `putUserFile`, `altStoreFile`, `doPostRawBlob` | `PutStart`, `PutStore`, `PutRecord`, `PeerStore`, `PeerRecord`, `PeerFail`, `PutLink` |
| `putRawHash` | `PostStore`, `PostRecord` |
| `performFetch`, `openRemote`, `hwFinisher.Close` | `FetchOpen`, `FetchStore`, `FetchFail`, `DropMoved` |
| `reconcileWith` and its workers | `Walk`, `RecordSeen`, `VerifySeen` |
| `doLinkFile`, `doRestoreDocument` | `LinkGet`, `LinkSet`, `LinkStore` |
| `doDeleteUserDoc` | `DeleteFile` |
| `removeObject` | `RemoveChecked` or `RemoveBlind`, then `RemoveFile` |
| `doServeRawBlob`, `doHeadRawBlob`, `validateLocal` on a missing file | `Miss`, `DropSelf` |
| `checkStaleNodes`, `cleanupNode` | `Suspect`, `CleanView`, `DropStale` |
| pruning, trimming, the worker's `IsDead` | `QueueRemoval`, `WorkerIsDead` |
| `garbageCollectBlobs`, `markGarbage` | `GCView`, `GCGet`, `GCSet` |
| an error return; a process that stops and starts | `Abort`; `Crash`, `Restart` |

Two variables are history and are read by no action. `pinned[f]` are the blobs
that were *secured* when f was linked to them: `putUserFile` had recorded its
own copy, or `referenceBlob` succeeded on a record with owners. `exposed` holds
`<<n, o>>` where a store of o at n overlapped a removal of it there, or a
removal ran without having read the record. The code has no protection at such
places, and the properties say exactly what holds outside of them.

### How `TaskLock` corresponds to the code

`lock[k]` is the job marker `/@name`, `mark[k]` the running marker
`/@name/running`; each has the node in it and the time it has left. The name of
a global task is `<<None, t>>`, that of a local one has the node in it. The excl
lists hold plain names, so a local task reads a key that nobody writes. `pc[j]`
is where the goroutine of job j is, `left[j]` the names of its excl list still
to be read. `current` holds the jobs whose CAS in `relockTask` is still good.

| Code | Actions |
|---|---|
| `runPeriodicJob`, `runNamedTask` (Add or Set) | `RunNamedTask`, `AddMarker` |
| `setTaskState`, and the rest of `runNamedTask` | `Prepare`, `Close` |
| `anyTaskRunning`, the wait in `runMarkedTask` | `NotRunning`, `Running`, `Retry` |
| `relockTask`, before the task and by the collector in it | `RelockGet`, `RelockSet` |
| the running marker; `job.f`; the deferred Delete | `SetMark`; `RunTask`, `Finish`; `Unmark` |
| `induceTask` | `InduceTask` |
| `startTasks`; `checkStaleNodes`, `cleanupNode` | `Restart`, `BootClean`; `FoundDead`, `Sweep` |
| a process that stops; time | `Crash`; `Tick` |

Every call to Couchbase may fail, and a write may have been done when it is
reported as failed. History: `lost` are the jobs past `relockTask` whose marker
expired or was overwritten by an induced run; `raced` are the jobs that looked
for another's marker before it was set or could not read it, or that lost their
own running marker. Neither is read by an action.

### How `Replication` corresponds to the code

`disk[n][b]` is "none", "good" or "rotten"; `owners[b]` are the owners in the
record, `recent` the registrations younger than an hour; `state[n]` is "up",
"down", or "stale" once the heartbeat is too old; `chan[n]` is the channel
`internodeTaskQueue` of a node, with the goroutines that wait to send on it;
`work[n][w]` what a worker has in hand; `fetching[n]` the names locked by
`fetchLocks`; `todo[j]` the rows that a running job has still to work through.

| Code | Actions |
|---|---|
| `putUserFile` with `increaseReplicaCount` | `Upload` |
| `ensureMinimumReplicaCount`, `salvageBlob` | `EnsureMin`, then `Item` per row |
| `pruneExcessiveReplicas`, `pruneBlob`; `trimFullNodes`, `moveSomeOffOf` | `Prune`; `Trim` |
| `checkStaleNodes`, `cleanupNode` | `Cleanup` |
| `validateLocal`; `reconcile` and its workers; `grabSomeData` | `Validate` with `CheckRegistered`; `VerifyItem`; `GrabSomeData` |
| `internodeTaskWorker` | `Take`, `WorkRemove`, `WorkAcquire`, `WorkFetch`, `WorkCopy` |
| a damaged file, a node that stops, time | `Rot`, `Die`, `Missed`, `Restart`, `Age` |

`findNode` leaves the name of its result empty, so that `IsDead` on it never
holds: a task has a field `named` for that. Blobs on a node whose space is
"none" are refused there. Races between a store and a removal of one blob are
the subject of `BlobStore`; here a removal of a file and of its entry is one step.

### How the other modules correspond to the code

| Module | State | Code and actions |
|---|---|---|
| `FileMeta` | `doc`, the document; per request `pc`, the captured `fm`, the document it has `seen` | `putUserFile` and `storeMeta`: `PutRead`, `PutWrite`; `doDeleteUserDoc`: `DeleteRead`, `DeleteWrite`; `putMeta`: `SetDataRead`, `SetDataWrite`; `doLinkFile`: `Link`; `doRestoreDocument`: `Restore`; `doGetUserDoc`: `Get` |
| `TeeUpload` | the bytes of each copy, the pipe, the goroutine of the second copy, `bgch`, temporary files | `hashRecord`: `Copy`, `CopyFails`, `Finish`, `Returns`; `closingPipe`: `TeeRead`, `TeeWrite`, `TeeTimeout`; `altStoreFile`: `DoAnswered`, `DoFailed`, `SendAgain`; `doPostRawBlob`: `PostRawBlob`; `putUserFile`: `Record`, `Collect`, `StoreMeta`; `cleanTmpFiles`: `CleanTmpFiles` |
| `GCScan` | the rows of the view `file_blobs`, where the page begins | `garbageCollectBlobs`: `Start`, `ReadPage`, `ViewError`, `NextRow`, `EndOfPage`, `Relock`, `Finished` |
| `Backup` | file documents, backup files, the list | `backupToCBFS`: `Begin`, `Stream`, `StreamEnd`, `StoreMeta`, `GetList`, `SetList`; `loadExistingHashes`: `GCBegin`, `GCLoad`, `GCLoaded`, then `GCRemove`; `rmbak`: `RmBegin`, `RmDelete`, `RmEnd`; `restore`: `Restore` |
| `PathWalk` | the generator, `fetchch`, the fetchers, the taker | `pathGenerator`: `View`, `SendError`, `Row`, `PageEnd`, `Close`, `CloseCh`; `pathDataFetcher`: `Fetch`, `HandOver`; the taker: `Stop`, `TakeEnd` |
| `BlobWalk` | the rows of `node_blobs` of one node | `iterateBlobs`: `View`, `Row`, `PageEnd`; `validateLocal`: `Validate`, `TaskEnd` |
| `Fsck` | the clump, the reports | `keyClumper`: `Clump`, `ClumpLast`, `ClumpEnd`; `dofsck`: `Batch`, `BatchPanics`, `Abort`, `End` |
| `NodeRegistry` | heartbeats, registrations and which of them have too few owners, the registry documents | `oneHeartbeat`: `Beat`; `updateNodeSizes`: `UpdateNodeSizes`, `SetInNodeRegistry`; `checkStaleNodes`, `cleanupNode`: `CheckStaleNodes`, `CleanupNode`, `DeleteRecord`, `RemoveFromNodeRegistry`; `findAllNodes` and `listHosts` are operators |
| `FrameClients` | the entry for one address, open connections, timers, checks | `getFrameClient`: `Use`, `FindExistingFrameClient`, `ConnectNewFramesClient`; `checkFrameClient`: `CheckFind`, `CheckLook`, `Ping`, `Destroy`, `Arm` |
| `ConfigStore` | the document, each node's configuration, each administrator's copy | `updateConfig`: `Reload`, `GetConfig`; `SetConfigParam` with `putConfig`: `SetConfigParam`, `PutUpdate` |
| `ConfigBroadcast` | `globalConfig`, the broadcaster, period and ticker of each job | `updateConfig`: `Retrieve`, `Submit`, `Assign`; `runPeriodicJob`, `heartbeat`: `Register`, `StartJob`, `Run`, `RunEnds`, `ConfigChange` |
| `Listing` | file documents, the view, an answer | `listFiles`: `View`, `Bulk`; `rmDashR`, `uploadRmDir`: `RmDashR`, `UploadRmDir`, `RmFile`, `RmEnd` |
| `UploadSync` | the local and the remote tree, what listings show of it, `ch`, `ech`, workers | `syncUp`, `syncPath`: `SyncPath`, `SyncFails`, `Send`, `Sent`; `uploadWorker`: `Take`, `UploadFileOp`, `RemoveFileOp`, `RemoveRecurseOp`, `SendError`, `Leave`; `uploadCommand`: `Close`, `Collect`, `Exit` |
| `FileHandle` | offset, length, who has the blob, the node list of the client | `Read`, `ReadAt`, `WriteTo`, `Seek` |
| `Download` | local names, inodes and contents | `Blobs`, `Work`: `WorkFails`; `saveDownload`: `SaveDownload`, `Copied`, `CopyFails`; `downloadCommand`: `Ends` |

### Abstractions

- A blob is its hash. In `BlobStore` contents do not rot and disks are not lost
  while a node is down; `Replication` has both, and `forceRemoveObject`.
- `FetchOpen` may read from any node that is up and has the file, since
  `openRemote` read the record earlier. `StoreMeta` of `BlobStore` may keep any
  older revisions; `FileMeta` says which.
- `QueueRemoval` happens at a moment at which its condition holds; the request
  may then stay in the queue for as long as it likes.
- `MaxReplicas >= MinReplicas` is assumed in `WorthRemoving`.
- A blob found in a backup is one that the collector of `BlobStore` skips
  (`Abort`), and one of `Backedup` in `GCScan`; how that set is loaded is in
  `Backup`.
- Access counters, logs, headers and sizes are left out, and so is the task list
  `/@node/tasks`, which no code acts on; errors in writing it are kept.
- In `TaskLock` periods are constants of at least one unit; periods that change
  are in `ConfigBroadcast`. A job that is not launched in a small instance
  (`Launched`) is one that never ticks. Time is what is left of each marker, so
  that the clock needs no bound and runs may be infinite.
- In `BlobStore` a node that is up sends its heartbeats in time; in `TaskLock`,
  `NodeRegistry` and `Replication` it may miss them.
- Paths are numbers in the order of the view (`PathWalk`, `Fsck`) or sequences of
  names (`Listing`, `UploadSync`); the contents of a file are one value, or a
  number of bytes where a cut matters (`TeeUpload`, `FileHandle`).
- When its first rename fails, `hashRecord.Finish` removes the file of that name
  and renames again. That removal checks no record, like a `RemoveBlind` of
  another handler at the same node, which may come just before every `Place` and
  every `Abort`: so `Place` is one step, and a copy that was removed in this way
  is an exposed one.
- A delete of a file that has no document answers 204 or 404, as Couchbase's
  client reports its absence or not (`DeleteRead`).
- A row of a view may show a file that was deleted, or not show one that was
  stored. `Listing` has a view that lags; `UploadSync` picks one for each listing
  and bounds the rows that differ (`MaxLag`).
- Names are quoted where the code does it. `syncPath` quotes both parts of an
  upload's path, but for a removal only the name and not the directory
  (`upload.go:378`), so that the server may read another path (`Address`), and
  `ListDepth` quotes the quoted name again (`Place`). Which names these are, and
  how a URL reads them, is given by the constants `Quoted` and `ReadAs`. The
  destination itself is taken to have a plain name.
- A `FileHandle` belongs to a client that may have used its list of nodes before
  the file was opened (`ListBefore`): the list is never asked for again.
- The status that `net/http` gives to a range over a whole file differs between
  versions of Go: `FileHandle` has it as a choice (`whole`).
- The answer to a call may be lost when its effect is there: uploads and
  removals of `UploadSync`, SETs of `TaskLock`, the second copy of an upload.

## Runs

| Run | Instances | Questions | States |
|---|---|---|---|
| `all` | 2 nodes, 2 handlers, all operations | do records and disks agree outside of exposed copies, and do simultaneous removals keep the minimum? The inductive invariant of the proofs | 168,163 |
| `links` | 2 nodes, 2 handlers, clock to 4 | has every owner the file, and is a secured link safe from a collector with an older view? | 463,337 |
| `cleanup` | 3 nodes, 2 handlers, `MinReplicas` 2 | does `cleanupNode` leave enough copies? It does not. | violation |
| `exclusion` | 2 nodes; 1 task on both, or 2 that exclude each other | do the job markers implement `Lease`, and when can tasks that exclude each other run together? | 191,872 |
| `ends` | 1 node; 2 global tasks, or a global and a local one | does every run end? The inductive invariant of the jobs | 40,976 |
| `repair` | 3 nodes, one lost for good; 2 nodes with 2 workers each, one of which starts again | are there `MinReplicas` good copies again; is a blob fetched by one worker at a time? | 114,858 |
| `copies` | 2 nodes; files that rot or vanish; `MaxReplicas` 1; a full node and a queue of length 1 | are copies restored and brought down to the maximum, can jobs and workers block each other? | 26,775 |
| `filemeta` | 3 requests on one file, expiry | does the document implement `FileVersions`, do preconditions hold at the write, is an acknowledged revision kept and served as such? | 200,643 |
| `scans` | the collector: 2 blobs, pages of 2 rows; the validation: 4 blobs; walks: 4 paths, 2 takers; fsck: 3 files, clumps of 2; 2 backups with a removal or a collection | is everything met that stayed, is nothing else taken, and does it end? | 230,377 |
| `node` | an upload of 3 chunks; 2 nodes in the registry; 2 requests and 2 connections | are acknowledged copies whole; is a dead node forgotten and a live one found; what leaks, and is an idle connection closed? | 58,937 |
| `config` | 2 administrators, 2 nodes, another version; a job, the heartbeat, 2 updaters | whole configurations, which edits are lost, does a configuration reach every job? | 78,327 |
| `client` | listings and trees of depth 3; uploads with failing calls and 2 workers, with a lagging view and 2 workers, with a channel of 1 and 1 worker; files of 3 bytes on 2 nodes; 3 names and 2 blobs, without and with `-L` | does success mean that the listing, the removal, the upload, the download is complete; are the right bytes read, which calls panic or are refused? | 584,986 |

One blob and one file suffice for the races of `BlobStore`: the code never relates
two blobs. Two handlers reach every pair of operations; three and more, and more
than two nodes, are in the theorems. `Started` limits a run to the operations
that its question is about; `all` starts every one. The constraint `Unexposed`
stops a run at its first exposed copy, beyond which most properties promise
nothing about that blob. The times are as small as the assumptions allow: `links`
has the largest, so that a view can be older than a link and both just in time.

Two jobs suffice for the lease (who has it and who wants it) and for the
exclusion (who looks and who is looked for). With periods of one unit every
marker can expire between any two steps. The bound `OneSwept` of `exclusion` lets
only one node be taken for dead.

The other instances follow the same rule: as many actors as a property relates
(two that overlap, and a third where one of them has to be replaced meanwhile),
pages, channels and clumps of the smallest size at which one of them is full and
another is not, and a bounded number of changes and faults. A page needs at least
two rows: with one, `PathWalk` would begin every page with the row it ended with.
In `client` the upload is explored with failing calls and files that cannot be
read (up to two), and with a row that a view does not show as it is (one), but
not with both: an exception of `ExitZeroSynced` belongs to the one or the other.
Its trees and destinations have two names of which one, quoted, is the other,
and each stands for a file and for a directory. A handle reads into buffers of
no byte, of one, and of more bytes than the file has.
The bounds on faults also make plain weak fairness enough for liveness: after the
last fault the code is on its own. `CHECK_DEADLOCK FALSE` is set in the five runs
in which a request, a walk or a command really ends (`filemeta`, `scans`, `node`,
`config`, `client`).

What the runs over several modules check, by the names the modules use. Each safety
property has the type invariant of its module as a conjunct.

| Run | Property | Stands for |
|---|---|---|
| `repair`, `copies` | `FetchedOnce`, `Repaired`, `Pruned`, `JobsEnd` | those of `Replication`, each in the instance that is about it |
| `filemeta` | `RevsKept` | `RevsOrdered`, `NoLostPut` |
| `scans` | `ViewsComplete` | `PassComplete` of `GCScan`, `ValidationComplete` of `BlobWalk` |
| | `WalkRight` | `WalkComplete`, `TwiceAtBorders`, `NoSendOnClosed` of `PathWalk` |
| | `FsckRight`, `BackupRight` | `FsckComplete`, `PanicsOnlyThere`; `BackupWhole`, `BackupListed` |
| | `OnlyGarbage` | `OnlyUnlinked` of `GCScan`, `GCKeepsBackups` of `Backup` |
| | `ScansEnd` | `PassEnds`, `ValidationEnds`, `WalkEnds`, `LeftOnlyThere` |
| `node` | `UploadRight` | `AckedWhole`, `CutOnlyUnhashed` of `TeeUpload` |
| | `RegistryRight` | `UpdateComplete`, `OrphansOnlyThere` of `NodeRegistry` |
| | `ConnectionsRight`, `DestroysChecked` | `LeakOnlyThere`, `OneChain`; `DestroysChecked` of `FrameClients` |
| | `NodeSettles` | `UploadEnds`, `Findable`, `CleanedUp`, `IdleClosed` |
| `config` | `ConfigRight` | `ConfWhole`, `LostOnlyThere` of `ConfigStore` |
| | `ConfigReaches` | `ConfigReaches`, `DiesOnlyStarting` of `ConfigBroadcast` |
| `client` | `ListingRight` | `LevelComplete`, `DeepComplete`, `DirsRight`, `RmComplete` of `Listing` |
| | `ExitZeroSynced`, `KeepsLocal` | those of `UploadSync` |
| | `HandleRight` | `ReadsExact`, `PanicsOnlyThere`, `RefusedOnlyThere` of `FileHandle` |
| | `DownloadRight` | `DownloadWhole`, `OthersKept` of `Download` |
| | `ClientEnds` | `SyncEnds`, `ReadsToEnd` |

### Disagreement

`cleanup` shows where a comment promises more than the code does: "There are
enough copies, just remove this one." (`tasks.go:378`). The count includes the
dead node's own entry and comes from an old view.

### Properties that name their gaps

Many of these have the form "this holds, except there": `OrphansOnlyThere`,
`LeakOnlyThere`, `LeftOnlyThere`, `LostOnlyThere`, `PanicsOnlyThere`,
`RefusedOnlyThere`, `CutOnlyUnhashed`, `DiesOnlyStarting`, and `BackupWhole`,
`BackupListed`, `ExitZeroSynced`, `SyncEnds`, `DownloadWhole`, `ConfigReaches`
with an exception spelled out in them. The code has no protection at those
places. The exception is part of what is shown: it says that nothing else
goes wrong. Those that take several steps to meet:

- `ExitZeroSynced`: a local file is neither uploaded nor reported when the
  listing shows a directory of its name, which a deleted file is as long as the
  view has it; and removals of names that are not quoted, or quoted twice, mean
  other files (`Misread`, the exception of `KeepsLocal` too) or none (`Unread`).
- `PanicsOnlyThere` of `Fsck`: two files of a clump share a blob whose record
  cannot be read. The report of the first one overwrites the error
  (`fsck.go:106`). What was reported before stands (`FsckComplete`).
- `PanicsOnlyThere` of `FileHandle`: besides a blob without a record, a failed
  request for the nodes and nodes that left, a client whose list is from before
  the file was opened and has none of the blob's nodes.
- `CleanedUp`: a dead node is forgotten once all of its blobs have enough
  owners. `cleanupNode` keeps the entry of one that has too few, asks another
  node to get a copy, and comes back.

### Fairness

`RunsEnd`: a run of a task comes to an end. It assumes that a goroutine that can
go on does (`WF` of `JobStep`: calls to Couchbase return, with an error if need
be), that time passes (`WF` of `Tick`), and that `job.f` returns (`SF` of
`Finish`, since the collector relocks between pages and its view has finitely
many rows). A crash ends a run as well. That `runMarkedTask` stops waiting is not
assumed: it follows from its clock. `ends` has one node, since a job waits for
markers only, whoever has set them; markers that a crash left behind are among
them.

| Property | Fairness | Why the code justifies it |
|---|---|---|
| `Repaired`, `Pruned`, `JobsEnd` | WF of workers, of a job's next row and of its next run; SF of a send on a full channel and of a verification | periodic jobs run again and again; Go's channels serve who waits in order |
| `PassEnds` | WF of the collector's steps | calls to Couchbase return |
| `UploadEnds` | WF of every goroutine, of the timers and of the client | `ReadTimeout` of the server, `TimeoutTransport`, the timer of `closingPipe`; `cleanTmpFiles` is periodic |
| `WalkEnds`, `LeftOnlyThere` | WF of generator, fetchers and taker; not of `Stop` | goroutines go on while their channels let them |
| `ValidationEnds` | WF of walk and task | as above |
| `Findable`, `CleanedUp` | WF or SF of heartbeats and of the periodic jobs | tickers; faults are bounded |
| `IdleClosed` | WF of timers and checks | `time.AfterFunc`; a ping has a timeout |
| `ConfigReaches` | WF of updaters and of the broadcaster, SF of a job that is told | `reloadConfig` every minute; a job's `select` takes a ready case again and again |
| `SyncEnds` | WF of the command and of each worker | calls return |
| `ReadsToEnd` | SF of a read from a node that has the blob | `rand.Intn` chooses every node again and again |

## Proofs

### Blobs

The assumptions are those named in the modules: `Node` is finite,
`MinReplicas > 0`, `GCGrace <= RemoveGrace` (15 minutes and an hour in the
code), and `TimingAssumption`. The last one says that the time from a reference
to the stored file document (`LinkDelay`) plus the time from a collector's view
to its mark (`PageTime`) is at most `StaleNodeLimit`, which is below the 15
minutes (10 by default). **The code does not enforce it.** `queueBlobRemoval`
blocks when the queue is full, and a page then takes as long as the queue does.
The results on links hold as far as this is true in operation.

`BlobStoreProofs` proves `Spec => []Inv`, and from it type correctness,
`RegisteredOnDisk`, `GarbageIsOld`, `NoGarbagePinned`, `PinnedSafe` and the
action property `CopyFloor`. The properties are not inductive by themselves.
`Inv` adds:

- *clock*: no stamp is in the future, a node that is down registered nothing
  since, links and collections are in time;
- *runs up*: a handler runs on a node that is up;
- *copies*: who is about to register has the file; who is about to remove is not
  registered; an entry about to be dropped as stale is old;
- *CAS*: a CAS that is still good was read after the last write, so what was
  decided on it still holds;
- *references*: a link in progress shows in the record as a stamp recent enough
  that a collector whose view is older than the link refuses the blob.

A step of `BlobStore` is one of some thirty actions, and the invariant has a
dozen parts. `BlobStoreMoves` stands between the two: it says of each variable
what any step may do to it, so that there is one proof for each action and one
for each part, and not one for each pair.

The argument for links: a collector that saw no link took its view at most
`PageTime` ago, so a link made since was secured at most `LinkDelay` before the
view. Its stamp is younger than the 15 minutes, and `markGarbage` refuses. A
link made after the mark takes the mark off, and makes the collector's CAS bad
if the SET is still to come. For the floor: while a blob is not exposed its
owners have the file, and those about to remove it are no longer owners. So the
count that `maybeRemoveBlobOwnership` makes on the record bounds the copies on
the disks from below.

### Jobs

`TaskAssumption` says that the global excl lists name global tasks, both ways,
and not the task itself, as the recipes in `tasks.go` do; `PeriodAssumption` that
periods are positive. `TaskLockProofs` proves `Spec => []Inv`, and from it type
correctness, `LockedOrLost`, `Exclusion` and `Spec => LeaseSpec`. The invariant
has two halves:

- *locks*: a good CAS was read from a marker with the node's own name (`CasOwn`),
  a run that lost its lock is past `relockTask` (`LostPast`), and past
  `relockTask` a run has its name in the marker or has lost it (`LockedOrLost`);
- *running markers*: a run that is not in `raced` has its marker (`HasMark`), and
  who has passed a task met no such run of it (`PassedUnseen`).

The lease is granted by one step, the SET of `relockTask`. Its CAS is good, so
the marker has the node's name; a holder on another node would have its own name
there. Every other step only ends leases. For the exclusion: of two runs that
are marked, the one that marked later had passed the other's name before. Either
the other was marked by then and lost its marker, or it was not, and set it
after it was looked for.

### File metadata

The assumptions say what headers can be: an oid is not `*`, nor the absence of a
header (`HeaderAssumption`, `CondAssumption`), revision limits are integers, and
requests are of the kinds the handlers know (`AskAssumption`). `FileMetaProofs`
proves `Spec => []Inv`, and from it `RevsKept`, `ServedAsStored`, the action
property `Conditional` and the refinement `Versioned`. `Inv` adds:

- *seen*: a request about to write has checked its precondition on the document
  it has seen. That is the document itself while its CAS is good (this part is in
  `TypeOK`), and otherwise one that has gone (`SeenRight`);
- *captured*: the closure of `storeMeta` changes the `fileMeta` that the next
  round starts from. After any number of rounds that is still what a single
  round makes of a new one, on the document it has seen last or, where there is
  none any more, on one that has gone (`CaptureRight`);
- *history*: the versions in the document were stored, and documents that have
  gone were in order (`HistoryInv`).

The refinement maps every write to the one step of `FileVersions` that the
request stands for. A CAS that is good makes the document seen the one that is
replaced, so that the precondition and the new revision are computed from it; the
rest of the steps change neither the document nor the history and map to
stuttering. `CaptureRight` is what rules out that revisions are counted or kept
twice after a retry.

### Uploads, the registry and connections

The theorems are about the specification of each part (`T!Spec`, `R!Spec`,
`F!Spec`), and state the properties that the run `node` checks. The assumptions:
a body has at least one chunk (`UploadAssumption`), there is at least one
registry key, and "no document" is not a set of nodes (`RegistryAssumption`), the
bounds are natural numbers (`FramesAssumption`).

- `UploadsRight` (`UploadRight`): `Flow` relates the bytes in the temporary file,
  in hand and at the other node at each state of the tee; `Sent` says that a
  `storInfo` with a hash is that of a whole second copy, also for the second one
  that a refusal leaves in the channel; `Kept` says what `putUserFile` knows at
  each of its steps.
- `RegistryKept` (`RegistryRight`): `PassInv` says what a pass of
  `updateNodeSizes` has entered so far, node by node and key by key, unless it
  was taken out since; `RecordInv` that a cleanup about to delete a record found
  no registration, or one came later.
- `ConnectionsKept` (`ConnectionsRight`) and `DestroysOwn` (the action property
  `DestroysChecked`): `ChainInv` counts timers and checks together and allows
  none beyond those of replaced entries once there is no entry; `EntryInv` says
  that the entry is the newest connection; `CheckInv` that a check is about the
  entry as long as none was replaced. The last one is what makes a destruction
  by address safe: the address still leads to the connection that was looked at.

### The configuration

`ConfigAssumption`: the defaults are a configuration, a strange name is not a
parameter, documents of other versions give values to names, and there are
finitely many jobs. `ServerProofs` proves `ConfigKept`:
`S!Spec /\ B!Spec => []ConfigRight`, for the stored configuration and the jobs.
The invariant of `ConfigStore` adds that a document without a strange name is
one of `known` once it is decoded (`DocKnown`), that everything is as at the
start until there is a document (`AtFirst`), and that a copy which is not stale
is the document (`CopyIsDoc`). So a command whose copy is not stale changes the
one parameter and writes the others back as they are.

### File handles and downloads

`ReadAssumption`: lengths and bounds are natural numbers, "none" is not a blob,
and what was there before a download has inodes. `ClientProofs` proves
`HandleReads` (`H!Spec => []HandleRight`) and `DownloadsWhole`
(`D!Spec => []DownloadRight`).

- A handle only moves on between Seeks, nobody gets the blob who did not have it
  when the file was opened, and a list of nodes that could be had since then has
  every node that is still there (`NodesInv`). The last one is what leaves a
  panic to the named cases.
- With `-L` a new name has the inode of the first file of its blob; two of these
  have one inode only if they had it before (`InodeInv`). A worker has the inodes
  of its files open, and shares one with another worker only then (`OpenInv`). So
  what is done stays as it is (`DoneInv`), and success is told when all is done
  (`OkInv`).

### Only model-checked

- All liveness: `RunsEnd`, `Repaired`, `Pruned`, `JobsEnd`, `ScansEnd`,
  `NodeSettles`, `ConfigReaches` (with `DiesOnlyStarting`, a conjunct of it) and
  `ClientEnds`. Liveness under fairness is out of the prover's reach.
- `FetchedOnce` of `Replication`; `ViewsComplete`, `WalkRight`, `FsckRight`,
  `BackupRight` and `OnlyGarbage` of the scans; `ListingRight`, `ExitZeroSynced`
  and `KeepsLocal` of the client. Most are about sequences of rows, pages, clumps
  or paths and what was collected over them, for which an invariant takes
  induction over data, out of the prover's reach too. `FetchedOnce` and
  `KeepsLocal` are within its reach and are not proved.
- `EnoughCopies`, which does not hold.

## Not modelled

- Couchbase, the views' index, the frame protocol, `go-broadcast`, `saturate` and
  `net/http` are external: they are modelled as far as the code relies on them.
- Formats: archives, JSON, headers, content types, gzip, debug and statistics
  pages, the monitor, logs, progress output, `ls`, `find` and `info` of the tools,
  the encryption of uploads. They have no state that other code reads. (`find`
  with `-depth` shows names cut at the front, as `DeepComplete` says of listings
  with a small depth: a name is the last parts of a path, as many as the depth.)
- The CRUD and query proxies of `http_api.go` pass requests on.
- `.backup.json`, the copy of the backup list in a node's root: nothing reads it.
- `shortName`: documents of very long names have a hashed key, in the handlers,
  the walks and the listings alike. In the models a name is its key.
- Free space: `availableSpace` and the bytes that a heartbeat reports. In
  `Replication` a node may have ample, little or no space, and stays so.
- The access counters of blobs.
- The order of backups by time: entries are in the order in which they were
  appended.
