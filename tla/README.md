# A TLA+ model of XyMusic

XyMusic is a self-hosted music server (Go, PostgreSQL, FFmpeg) with a web
administration, a Windows client and an Android client. This directory holds TLA+
modules that model the server: its queues of background work with leases, files that are
replaced while others use them, transactions that lock different rows first, tokens that
are exchanged once, and processes that are replaced while they serve. TLC checks small
instances, TLAPS proves the central results for every value of the constants.

Every definition is read off the code; the comments name the functions. Paths below are
relative to `Server/Backend/internal` unless they say otherwise.

Contents: [1 the system](#1-the-system), [2 what is modelled](#2-what-is-modelled), [3
the runs](#3-the-runs), [4 fairness](#4-fairness), [5 the proofs](#5-the-proofs), [6
findings](#6-findings), [7 observations](#7-observations), [8 not
modelled](#8-not-modelled), [9 what is left](#9-what-is-left).

## 1 The system

### Processes

`cmd/xymusic` runs a supervisor, an HTTP server and a worker process. The worker process
(`app/runtime.go`, `app/background.go`) starts, per configuration, one library scanner,
`WritebackWorkers` tag writeback workers, batch workers (tag scraping, artist artwork,
permanent deletion), asset clean-up and retention. When the configuration changes, the
new set of workers is built and started before the old one is closed, so **two sets of
workers overlap**; workers of a process that died are replaced by the supervisor.
Workers share nothing but PostgreSQL and the file system; worker ids are UUIDs and are
never used again.

### Components

| Component | State | Operations | Talks to |
|---|---|---|---|
| Tag writeback (`modules/adminmetadata`) | `metadata_writeback_jobs` (status, stage, attempt, lease), the managed file, a temporary and a rollback file per attempt | queue, retry, cancel; claim, remux, prepare, swap, commit, clean up; undo, recover, fail, requeue | catalogue (checksum, metadata version), scans (root exclusion), ffmpeg |
| Music sources (`modules/adminsources`, repository) | `library_roots`, `library_scan_runs` (status, lease, cancel) | edit, enable, delete a root; queue, schedule, claim, renew, cancel, end a scan; start-up recovery | trigger in the database, writebacks |
| Library scan (`adminsources/scanner.go`, `production_sync_*.go`) | `local_music_sources`, a snapshot and caches in memory, batch transactions | prepare, store, rename, record a failure, flush, delete missing | files, catalogue, connection pool |
| Probe budget (`shared/resourcebudget`) | tokens in a channel | acquire, release | probes of a scan and of writebacks |
| Tag scraping and artist artwork batches (`modules/admintagscraping`) | jobs, items, counters, leases | start, claim, fetch, apply under a fence, complete, cancel, retry, recover | music platforms, catalogue |
| Permanent deletion and its batches (`modules/adminmutation`) | staged files, job and item rows | hide files, delete rows, remove or restore files; claim, complete, put off | writebacks, scans |
| Metadata and catalogue (`adminmetadata`, `adminmutation`, `admincatalog`, `catalog`) | tracks, albums, artists, lyrics with versions; overrides; lists | edit, match, archive, restore, move, merge, delete; page | scans, writebacks, clean-up |
| Accounts, sign-in, jobs overview (`adminmanagement`, `adminauth`, `adminjobs`) | users with versions | create, edit, suspend, reset; read | identity |
| Media uploads and asset clean-up (`adminmedia`, `localassets`) | uploads with a completion token, assets, files | reserve, write, complete, abandon; delete unreferenced | each other |
| Identity (`modules/identity`) | users, sessions, refresh token families | log in, rotate, revoke | idempotency, clients |
| Idempotency, rate limits (`platform`) | claimed records with encrypted answers; counters per window | begin, finish, replay; count | HTTP handlers |
| Playlists, library, profile, playback (`playlist`, `library`, `profile`, `playback`) | rows with versions, signed tickets | one transaction per change; reads | clients |
| Event streams (`shared/sse`) | topics, clients, counters | subscribe, poll, broadcast, drop | HTTP |
| Runtime manager and processes (`control`, `cmd/xymusic`) | generations of the runtime, requests in flight | initialise, activate, roll back, drain, retire | everything |
| Configuration, settings, setup (`config`, `adminsettings`, `setup`) | a file and its backup; stages of the installation | save; validate and activate; provision with undo | runtime manager |
| Windows client (`Client/XyMusicForWin`) | session revision and generation, persisted refresh key, player queue | refresh, log in/out; play | identity |
| Android client (`Client/XyMusicForAndroid`) | session, one refresh in flight, favourite outbox, cached lists | refresh; queue and replay changes | identity, library |
| Web administration (`Server/AdminWeb`) | a cache of answers | — | administration API |

### What is hard, and what makes each part correct

* **Tag writeback.** A file is replaced by two renames, the database is updated in
  between, and the process may die, lose its lease, lose the answer of the commit or be
  cancelled at any point. *Correct*: the recording is never lost; the file is the one
  the catalogue records whenever no attempt is open; one commit per request, from the
  state it was queued with; one worker at a time on the files; every attempt ends.
* **Scan runs.** A source's status is computed in four places; runs are claimed,
  renewed, taken over, cancelled, handed back and failed by processes that do not see
  each other. *Correct*: the status follows the runs; a scan of old settings never turns
  a source READY; one scanner per directory, none under a writeback; an ended run stays
  ended, a cancelled one is never started again; every run ends.
* **Scanning files.** Files come, go and move while they are scanned; unchanged files
  are only remembered in memory; scans are abandoned half way. *Correct*: a file that
  lay still keeps its source and track; every file ends up with one; a moved file keeps
  its track.
* **Committing a scan.** Several workers, batch transactions with row locks, a limited
  pool. *Correct*: no worker waits for itself, not all wait for each other.
* **Batches.** *Correct*: counters agree with items; one completion per attempt; a
  worker whose lease lapsed changes nothing; every job ends, also behind a cancelled one
  whose process died.
* **Deletion.** *Correct*: files and rows disappear together or not at all, also across
  a crash; no scan sees the state in between.
* **Sessions.** *Correct*: an honest client that lost an answer keeps its session; a
  stolen token ends the family; a late answer never replaces a newer session.
* **Idempotency.** *Correct*: an operation happens at most once per key and its answer
  is the same ever after.
* **Event streams.** *Correct*: counters equal the clients that exist; each channel is
  closed once.
* **Runtime manager.** *Correct*: a runtime is closed after its last request; after a
  failed activation the previous one serves or the state says that none does.
* **Outbox of favourites.** *Correct*: the last change made is the last replayed.
* **Metadata and catalogue.** Scans, administrators and tag matching write the same
  artists, albums and lyrics in transactions that lock different rows first. *Correct*:
  a track shows its tags overlaid with its overrides, whoever commits last; no artist or
  album is made twice by scans; no album is left empty and no cover lost.
* **Lists.** *Correct*: a client that follows the cursors sees every row that lay still,
  once.
* **Uploads and the cleaner.** *Correct*: a completed upload made one asset; what is
  shown has its file; the quota holds.
* **Accounts.** *Correct*: somebody can still administer the server.
* **Playlists and history.** *Correct*: the order is what the edits meant; the history
  shows the latest event.
* **Configuration and setup.** *Correct*: a crash leaves a configuration; what is saved
  is what runs; a setup that fails leaves nothing.

`PROJECT.json` lists the hazards at their lines with the properties that watch them.

## 2 What is modelled

| Module | Lines of the system | Checked by |
|---|---|---|
| `MetadataWriteback` | `adminmetadata/worker.go`, `worker_repository.go`, parts of `repository.go` | `MCMetadataWriteback`, `MCLiveness` |
| `WritebackContract` | abstract specification: what the catalogue may rely on | `MCMetadataWriteback`, proof |
| `WritebackClaims` | what messages and tests say of writebacks and the code does not do | `MCWritebackCancelEnds` |
| `LibraryScan` | `adminsources/repository.go`, `worker.go`, the trigger of `migrations/0000_initial.sql` | `MCLibraryScan`, `MCLiveness` |
| `LibraryFiles` | `scanner.go`, `production_sync_*.go`: rows and files | `MCLibraryFiles` |
| `ScanCommit` | `scanner.go`, `production_sync_batch.go`: locks and connections | `MCLibraryFiles`, `MCScanCommitReoccupied` |
| `BatchQueue` | what the two batches below have in common: constants and leases | with them |
| `TagBatches` | `admintagscraping/batch_*.go`, `repository_batch*.go`, `service.go` | `MCBatches`, `MCLiveness` |
| `ArtworkBatches` | `admintagscraping/artist_artwork_*.go` | `MCBatches`, `MCLiveness` |
| `TrackDeletion` | `adminmutation/delete*.go`, archive and restore | `MCBatches`, `MCLiveness` |
| `MetadataProjection` | `production_sync_catalog.go`, `adminmetadata/service.go`, `repository.go`, `admintagscraping/repository_metadata.go` | `MCCatalogue` |
| `CatalogEdits` | `adminmutation/repository.go`, `batch_archive_*.go`, `batch_restore_*.go`, `service.go` | `MCCatalogue` |
| `CursorPages` | the lists of `admincatalog`, `catalog`, `adminjobs`, `adminmanagement`, `adminmetadata`, `adminsources`, `library`, `playlist`, and `shared/pagination` | `MCCatalogue`, `MCCursorLosesRows` |
| `Sessions` | `identity`, `platform/idempotency` | `MCUsers` |
| `Accounts` | `adminmanagement`, the status route of `adminmutation` | `MCUsers`, `MCLastAdministrator` |
| `Uploads` | `adminmedia`, `profile`, `localassets`, the expiry of `workers/retention` | `MCUsers` |
| `UserLibrary` | `playlist/repository.go`, `library/repository.go` | `MCUsers` |
| `RuntimeManager` | `control/manager.go`, `cmd/xymusic/runtime_retry.go`, `main.go` | `MCServer`, `MCLiveness` |
| `Installation` | `setup/service.go`, `adminsettings/service.go`, `config/store.go`, `cmd/xymusic/worker.go` | `MCServer`, `MCLiveness` |
| `Configuration` | `config/config.go`, `adminsettings/config_merge.go`, the configuration of `setup` | `MCServer` |
| `EventStreams` | `shared/sse/broadcaster.go` | `MCServer` |
| `WorkerLifecycle` | `app/runtime.go`, `background.go`, `lifecycle.go` | `MCServer`, `MCLiveness` |
| `ResourceBudget` | `shared/resourcebudget/budget.go` | `MCServer` |
| `MetadataWritebackProofs`, `LibraryScanProofs` | theorems about the module of that name | proofs |
| `LibraryFilesProofs` | theorems about `LibraryFiles` and `ScanCommit` | proofs |
| `BatchesProofs` | theorems about `TagBatches`, `ArtworkBatches`, `TrackDeletion` | proofs |
| `CatalogueProofs` | theorems about `CatalogEdits` and `CursorPages` | proofs |
| `ProjectionProofs` | theorems about `MetadataProjection` | proofs |
| `UsersProofs` | theorems about `Sessions`, `Accounts`, `Uploads`, `UserLibrary` | proofs |
| `ServerProofs` | theorems about `RuntimeManager`, `EventStreams`, `Installation`, `WorkerLifecycle`, `ResourceBudget`, types of `Configuration` | proofs |
| `MC*` | instances for TLC: model values, bounds and symmetry | — |

An operator whose name extends that of another (`ClaimRecoversUnspent` before
`ClaimRecovers`) and that nothing uses is a broken variant of it, a mistake the code
might have contained. The list in `PROJECT.json` names the property each one violates
when it is put in place of the right one: it shows that the property can fail.

### MetadataWriteback

One source file and the latest row for it: a partial unique index allows one active row
per source, claims skip locked rows, so sources do not interact.

| In the model | In the code |
|---|---|
| `job` | the `metadata_writeback_jobs` row; `lease` is none / live / lapsed, `attempt` is `attempt_id` |
| `catalog`, `metadata` | `local_music_sources.checksum_sha256`, `track_metadata.version` |
| `source`, `temporary[a]`, `rollback[a]` | the contents of the managed path and of the two files named after attempt `a` |
| `worker[w]` | the frame of `process()` or of a recovery: its program counter, what it was claimed with, the error it carries |
| `writable` | root READ_WRITE and enabled, no scan holds it, source READY, track active |
| `overwritten` | history: contents a user's own tool destroyed |

Each database transaction and each file operation is one action, named after its
function: `ClaimStarts`, `RemuxMetadata`, `MarkWritebackPrepared`, `MoveSourceAside`,
`VerifyAside`, `InstallOutput`, `SyncInstalled`, `MarkWritebackFileReplaced`,
`CommitWriteback`, `RemoveReplacementRollback`, `CompleteCommittedRollback` for an
attempt that succeeds; `UnwindAttempt`, `InspectRestore`, `StageOutput`,
`RestoreOriginal`, ... for the deferred undo of one that does not; `ClaimRecovers`,
`RecoveryStep`, `FailWriteback`, `ReleaseTransientRollback`, ... for what the next claim
finds. Faults: any call may fail before or after it took effect (`CallFails`, `Answers`
with a lost reply), a worker may crash at every step, its context may be stopped
(shutdown, cancellation, lost lease), users may rewrite the file, administrators may
edit tags and disable the root.

Abstractions: a checksum identifies a content; ffmpeg yields one output per attempt;
`next_attempt_at` only delays a claim.

`WritebackContract` is what remains for the catalogue: requests that are queued,
started, given back, dropped or committed, *one commit per request, in one step, from
the checksum and version the request was queued with*. `MetadataWriteback` implements it
(`ImplementsContract`), with the phase computed from status and stage.

### LibraryScan

One root and its latest run (the unique index on active runs again; nothing writes an
older run). `root` and `run` are the two rows; `worker[w]` is the scanner of one
process, from start-up (`RecoverExpired`, `ReconcileLatest`, `EnsureDefaultRoot`,
`EnqueueStartupScan`: the statements of `Initialize` in their order) through its loop
(`EnqueueScheduledScan`, `ClaimNothing`/`ClaimCancels`/ `ClaimStarts`, the scan with
`Heartbeat` and `IsCancelled`, `Finalize`). The administrator's actions are
`EnqueueScan`, `CancelPendingScan`, `CancelRunningScan`, `UpdateRoot`, `DeleteRoot`.
`Trigger` is the database trigger and `Reconcile` is `reconcileRootScanState`;
`MovesRun` runs both, as the transactions of the code do. `last_scan_at` is never / due
/ recent with respect to the scan interval.

`LibraryScan` composes with writebacks through the one bit each side reads of the other:
`writeback` is the path a PENDING or PROCESSING writeback froze (`QueueWriteback`,
`SettleWriteback`), and `HoldsRoot(run)` is what the writeback looks at; in
`MetadataWriteback` the scan shows up in `writable` and in `ScanRecordsSource`.

### LibraryFiles

What one scan does to the `local_music_sources` rows while the owner of the directory
writes, removes and moves files. `disk`, `rows` and per scan the snapshot, the files to
visit, the ids marked seen in memory, the renames claimed. Files are visited in any
order. A scan may be abandoned anywhere, and the next one starts from what is there.
`disturbed` is history: the paths touched during the scan; `lost` the files whose
failure could not be recorded.

Abstractions: a content stands for checksum, size and modification time; a row id stands
for the row and the track mapped to it; a visit (prepare and commit) is one step, the
stability check between the two is folded into it; the contents of tracks, albums,
artists, lyrics and artwork are left out; so are writebacks and deletions of tracks
during a scan.

### ScanCommit

The commit workers of one scan: the channel of prepared files, batches in one
transaction (`BeginBatch`, `StoreInBatch`, `CommitBatch`), and the moved file, for which
`syncStandardFileWithOptions` begins a transaction of its own on a second connection
while the batch stays open (`BeginRename`, `EndRename`). `lock` is the worker whose
batch has locked a row, `free` the connections left. Only locks and connections matter
here; advisory locks on artists and albums are left out, because PostgreSQL sees and
breaks their cycles and the file merely fails.

### ResourceBudget

The weighted semaphore: `Acquire` receives its tokens *one at a time*, a cancelled
context gives back what was received, `Release` sends them back one at a time.

### TagBatches and ArtworkBatches

`BatchQueue` has what the two queues share: numbered jobs and items, workers, leases and
the outcomes an item can have. In `TagBatches`, `Create`, `RequestBatchCancel` and
`RetryBatch` are the administrator's; `Work(w)` is the loop of a process (recover, claim
a window, finish), `Execute(w, i)` the execution of an item: search, the fence that
locks job and item (`batch_fence.go`), the write of the tags, the outcome.
`CompleteBatchItem`, `ReleaseBatchItem`, `Heartbeat` and `OutcomeLost` are the ways an
outcome reaches the row or does not. Processes crash (`Crash`) and shut down (`Close`),
leases lapse. `ArtworkBatches` differs where the code does: the item succeeds in the
transaction that attaches the picture, a cancellation takes waiting items out at once,
each claim recovers what lapsed in any job.

*Checked*: `CountersAgree` (in both), `EndedBatchIsQuiet`,
`CancelledBatchWritesNothing`, `PictureIffSucceeded`. *Abstracted*: a search result is
matched, nothing found, failed for good or to be repeated; tags are "as expected", "from
the batch" or "changed by others" against the version the item was created with.

### TrackDeletion

A deletion of a track by an administrator or by a batch worker: the look before the
transaction, `FOR UPDATE` locks, the check of writebacks and scans, the renames that
hide the files, the deletion of the rows, the commit whose answer may be lost, and what
follows it: the files removed or put back. A file may be shared by tracks of a cue sheet
(`TracksOf`). The batch around it claims one item at a time, renews, postpones,
releases, completes and recovers at start-up. *Checked*: `FilesGoWithTheirTracks`,
`NothingStaysHidden`, `ReportedIsDeleted` and the counters.

### MetadataProjection

What a track shows: the tags a scan read, overlaid with the overrides of an edit or of a
match. A scan's transaction stores several files, a savepoint each (`OpenFile`,
`effectiveScanMetadata`, `Projects`, `Fails`, `CommitBatch`, `AbortBatch`); an edit
locks the track, reads the metadata, checks the version and projects. `Projects` finds
or creates artist and album under the advisory locks each side takes, and deletes an
album it emptied. `known` is the scan's cache of committed artists and albums.
*Checked*: `ShownFollowsMetadata`, `ScansMakeOneOfEach`. *Abstracted*: one credit per
track, which is also the album artist; one language of lyrics; locks that one statement
after another takes within a step are taken together; the direct edits of `CatalogEdits`
are left out.

### CatalogEdits

The transactions of `adminmutation` on tracks and albums, lock by lock: archive,
restore, publish, lyrics, move, delete, edit an album, merge albums. Each collects the
rows it needs, locks them in its own order (`LockSong`, `LockReference`, `LockAlbum`),
checks versions, commits, drops emptied albums and schedules covers for the clean-up.
*Checked*: `NoEmptyAlbum`, `NoTrackWithoutAlbum`, `ShownCoverKept`, `NoEditIsLost`,
`OnlyMovesDeadlock`.

### CursorPages

A client walks through one of the lists while rows come, go and change. `row` holds what
the orders look at (time, name, date, number, identifier); each listing is its order and
its seek condition, read off its SQL; a cursor carries the last row's values as the code
encodes them, with the scope it was made for. A track keeps its random key, which only its
insertion sets. Times are counted in half milliseconds: four lists (`Milliseconds`) keep
only whole ones in their cursors. *Checked*: `EveryRowShown`. It excepts the rows in
`CutOff`, which follow from the rows that the pages of the walk ended at (`walk.ends`): the
rows of one millisecond in those lists, and in the administrator's newest albums
(`adminAlbumsNewest`) those with a date after a page ended at one without. Without the
exception it is `EveryMatchingRowReached`, which is finding 3.

### Sessions

Requests of devices: register, log in, refresh, log out, with every statement a step.
The refresh is wrapped in the idempotency record (claim, execute, store the answer,
replay, conflict, take over an expired claim), the record may expire and the process may
crash between the operation and the answer. Devices repeat a request under the same key
or a new one. Other modules revoke sessions (`ChangeAccount`, `RevokeUserSession`: one
step each, since they are one transaction; their inside is `Accounts`). *Checked*:
`SingleLine`, `ReuseIsReal`.

### Accounts

Edits of accounts as transactions that lock the administrators, count them and write
under a version; the status route of `adminmutation`, which does one conditional update;
password resets; PostgreSQL ends one of two transactions that wait for each other
(`Deadlock`). *Checked*: `RemovalLeavesAdministrator` for the route that counts; for
both together it is finding 4.

### Uploads

A `media_uploads` row from reservation to COMPLETED, FAILED, EXPIRED or ABANDONED, for
songs, pictures and avatars; the temporary file, the file in its place, the asset row
and what shows it. Requests put bodies, complete under a token, abandon; `cleaner` is
the round of `localassets` (query, remove file, check again, delete row), retention
expires rows, targets are deleted. *Checked*: `CompletedMadeOneAsset`, `ShownFileKept`,
`QuotaKept`. *Abstracted*: writing and verifying a body is one step, so is normalising
and committing a picture; the name of a request stands for the identifiers it generates.

### UserLibrary

A playlist whose entries have positions under a unique index that PostgreSQL checks row
by row (`ShiftPositions` moves them away and back), edited by devices against the
version they saw, while tracks are deleted; favourites; and the history row, written by
events that arrive in any order. `intended` is the list as the edits meant it.
*Checked*: `PlaylistAsIntended`, `LatestEventShown`.

### RuntimeManager

`call` is the one call that holds the transition lock (initialise, activate, close); its
steps build a candidate, run its hooks, publish it, retire the previous or roll back.
Requests hold a runtime (`ServeHTTP`, `release`), a retirement drains or times out, the
first initialisation is retried. *Checked*: `ServedByOpenRuntime`, `ReadyIsServed`.

### Installation

The configuration file with its successor and backup, renamed step by step (`WriteNext`,
`MoveAside`, `PutInPlace`, `DropBackup`) and recovered by whichever process starts
(`RecoverFrom`); the stages of a setup and their undoing; a change of settings, its
activation and saving; the worker process that follows the file. Server and worker crash
and are restarted. `overlap` records what ran at once; the properties hold while nothing
the code forbids only by convention overlaps (a recovery during a save, two services
saving). *Checked*: `ConfigurationSurvives`, `FileFollowsServer`, `SetupAllOrNothing`.
*Abstracted*: activation is one step (its inside is `RuntimeManager`); writing the
successor is one step and a crash leaves it torn.

### Configuration

`Parse` reads a configuration out of keys, with ranges, defaults and the several names a
setting has; `Setup` makes the first file, `Apply` merges a change and saves it, an
operator edits the file by hand. A key's text stands for the value it spells. *Checked*:
`SavedIsActive`, `ChangeIsApplied`. The second says for every setting what it is after an
accepted change: the value asked for or the one before, with lists rid of spaces and
repetitions and the tools as a directory or two paths decide them (`ToolsAsked`). One
setting it says never changes, the largest upload: see [observations](#7-observations).
Lists that the code refuses (a proxy that is no address, an empty pattern, too many
entries) are refused; how long a text may be is left out.

### EventStreams

Topics with one poller each, clients with a bounded buffer, the limits of subscribers
and topics. A topic leaves the map with its last client while its poller may still run.
A state is a number that only grows; `lastFingerprint` is the last frame. *Checked*:
`ClientsUpToDate`, `SubscribersCounted`.

### WorkerLifecycle

The order in which a worker process opens its database and starts services and pollers,
what a failure at each step closes, and what its end cancels and waits for. Steps of the
wiring that hold nothing to close are left out. *Checked*: `NothingLeftBehind`.

## 3 The runs

TLC explores every state within the bounds. Where a run has several parts, its MC module
composes modules that share no state, and a behaviour explores one of them, chosen in
the initial state: the reachable states are the union, not the product, and each part
runs with the bounds given.

| Run | Distinct states | Checks | Bounds |
|---|---|---|---|
| `MCMetadataWriteback` | 1,977,284 | types, `ContentsAgreeUnlessStalled`, `RollbackKeptUnlessStalled`, `SwapExclusiveUnlessStalled`, `CatalogFollowsJob`, `ImplementsContract` | 2 workers, 2 attempts per request, 3 attempt ids, 2 disturbances, 1 edit of the file; with stalls: 2 ids, no other fault |
| `MCLibraryScan` | 1,242,525 | types, `RootStatusAgrees`, `OneScannerUnlessStalled`, `NoWritebackBesideScanUnlessStalled`, `PathsAgree`, `EndedScanIsFinal` | 2 processes, 2 runs, 3 claims, 2 edits of the root, 1 writeback, 2 disturbances; with stalls: 1 edit, 1 disturbance |
| `MCLibraryFiles` | 207,160 | types, `NeverWaitsForOwnBatch`, `SeenSourcesKept`, `MovedFileKeepsTrack`, deadlock | rows: 3 paths, 2 scans, 4 row ids, 4 changes, 1 failure; commits: 4 files, 2 contents, 2 workers, batches of 2, 3 connections |
| `MCBatches` | 1,481,268 | types, `BatchCountersAgree`, `EndedBatchIsQuiet`, `PictureIffSucceeded`, `DeletionIsWhole`, `CancelledBatchWritesNothing` | 1 job of 2 items, 2 processes, windows of 2, 1 item at a time, 2 claims; tags with 2 attempts and no stop, or 1 attempt and 1 stop; pictures with both; deletions: 2 tracks, 2 files of which one is shared, 1 administrator beside 2 workers, 1 mishap, 2 versions of edits |
| `MCCatalogue` | 1,245,877 | types, `ShownFollowsMetadata`, `ScansMakeOneOfEach`, `EditsKeepCatalogue`, `EveryRowShown` | tags: 3 tracks of which one older than its metadata, 2 scan transactions, 1 editor, 2 sets of tags, 3 changes; edits: 3 songs, 2 albums, 1 cover, 2 editors, 2 commits; pages of 1 over 3 rows with two equal or missing values and four times in two milliseconds, 1 change |
| `MCServer` | 453,562 | types, `TokensConserved`, `RuntimesAreWhole`, `InstallationHolds`, `SettingsHold`, `StreamsAgree` | 3 runtimes, 2 requests, 2 failures; 3 configurations, 2 callers, 2 calls, 1 failure, 1 crash; every number at both edges of its range, every text blank and not, lists accepted and refused, 1 change after setup; 2 topics, 2 clients, 2 pollers, buffers of 1; 2 pollers of a worker, 2 failures; 3 callers of up to 2 of 4 tokens |
| `MCUsers` | 720,783 | types, `RotationHolds`, `UploadsHold`, `PlaylistAsIntended`, `LatestEventShown`, `RemovalLeavesAdministrator` | 1 session, 3 tokens, 2 keys, 2 requests, 1 change, 1 fault; 3 accounts of which 2 administrators, 2 requests, 3 changes; 2 uploads, 2 requests, 2 faults; 2 avatars with a quota of 1, 3 requests, 1 fault; 3 entries of at most 3 tracks, 2 devices, 4 edits, positions shifted by 10; 3 events of 2 sessions |
| `MCLiveness` | 258,630 | `EverythingEnds` | one attempt or runtime life of each kind with 1 or 2 faults, two batches each, 1 retry |
| `MCWritebackCancelEnds` | — | `CancelEnds` is violated | 1 edit of the file, no other fault |
| `MCScanCommitReoccupied` | — | `NeverWaitsForOwnBatch` is violated | 3 paths, a file in the place of a moved one |
| `MCCursorLosesRows` | — | `EveryMatchingRowReached` is violated | as `MCCatalogue` |
| `MCLastAdministrator` | — | `AdministratorRemains` is violated | as `MCUsers` |

**What the composed properties are made of.** `ContentsAgreeUnlessStalled` is
`RecordedContentKept`, `SettledSource` and `CommittedAgreement` while no worker stalls;
`BatchCountersAgree` is `CountersAgree` of three kinds of batch; `DeletionIsWhole`,
`EditsKeepCatalogue`, `RotationHolds`, `UploadsHold`,
`RuntimesAreWhole`, `InstallationHolds`, `SettingsHold` and `StreamsAgree` are the
properties named for their modules in section 2. Each has one broken variant at least
per part that matters.

**Why the bounds are enough.** Interference needs two: two workers, two editors, two
devices. Writebacks: two attempts give a retry after an attempt that failed half way,
three ids a second request after the first, two disturbances a fault within the recovery
of a fault. Scans: the second run can be queued while the worker of the first is late,
three claims let a run be handed back twice, two edits let a root be disabled and
enabled around one run. Files: three paths are a move plus a bystander, two scans are a
broken off one and its successor. Commit workers: four files are two batches of two, and
one connection more than there are workers is the least with which no set of workers can
wait for each other (with as many connections as workers each can hold one and wait for
a second: [observations](#7-observations)). Batches: two items are one under way and one
waiting in a window, two claims give an item a second owner while the first still runs.
Deletion: the shared file needs two tracks; a mishap is a crash, a stop, a lapsed lease
or a failed rename at any step. Catalogue: three tracks on two albums let the last two
leave an album at once, or one leave and one join. Pages: three rows of which two tie,
one row per page, so that every row is the last of a page once; four times are two pairs
that a cursor of milliseconds cannot tell apart. Sessions: three tokens
are a line with one rotation more than a replay needs. Runtimes: three are one that
retires, one that serves and one that is built. Settings: each change is applied alone
to each of the first configurations; the fields a change combines are those the merge
treats together (addresses, database, media tools).

**Bounds are named** (`Max...`) and appear as guards; where one of them stops the system
the configuration says `CHECK_DEADLOCK FALSE`. `ScanCommit` has no such guard: in
`MCLibraryFiles` deadlock is checked of its commit workers. Symmetry is used for
workers, paths, contents, requests and keys, never in a run with a liveness property.

**Stalls.** `MayStall` lets a lease lapse under a worker that is still running, as when
a process is suspended for longer than its lease. The safety of *files* cannot hold
then, since no rename is fenced by the database; the safety of *rows* does, and is
checked and proved with stalls. `MCMetadataWriteback` and `MCLibraryScan` explore both,
and the properties that need workers not to stall say so in their names. In the batches
a lease may always lapse under its worker.

## 4 Fairness

Crashes, failures, edits, cancellations and requests have no fairness: they may or may
not happen. What is fair is what the code keeps doing by itself.

* Writebacks (`MetadataWriteback!Fairness`, and the first part of `MCLiveness`): workers
  poll (`WF` on `Claim`), a worker that runs takes its next step (every call has a
  timeout and `CallFails` is an outcome of it), a lease nobody renews runs out.
  `EverythingEnds` is checked without external edits: `CancelEnds` shows that one edit
  at the wrong moment keeps a row open for ever.
* Scans: a process that starts gets through its start-up, its loop goes on, a scan that
  runs comes to an end, a writeback in the way ends (the first part shows it), leases
  run out. That a scan comes to an end is an assumption: the walk of a directory is
  finite, and `ScanCommit` examines its one place where workers wait for each other. The
  exception it finds (finding 2) is an exception to this assumption.
* Batches: the loop of the process goes on, an execution ends (searches have timeouts),
  a lapsed lease is noticed once nobody holds the item, a delay passes, and for
  deletions a writeback in the way ends. Retries are bounded (`MaxRetries`): the queue
  serves the oldest job, so an administrator who retries it for ever makes the younger
  ones wait for ever.
* Runtimes: the call under way, the start, the retry and each retirement go on, and a
  request returns. Installation: the server is restarted (the supervisor), the worker
  polls the file, and a request goes on. Worker: its start and end, and its goroutines,
  go on.

Only the chosen part of `MCLiveness` moves, so the fair steps with one number share a
condition (`FairStep(k)`): for a given part it is the fairness of that one step.

## 5 The proofs

All proofs are checked by TLAPS (`tlapm`) for any number of workers, requests, files,
tracks, albums, users, runtimes and so on, with no bound on the bounds. Each is an
inductive invariant: it holds initially, every action keeps it, and it implies the
property; TLC checked the invariant on the instance of the run before it was proved.

**What is assumed.** Only the `ASSUME`s on constants, which TLC evaluates on every run:
identifiers are distinct from the values that mean "none", bounds are numbers, sets of
people, rows and files are finite where the code counts them. The modules declare them
(`WritebackAssumption`, `ScanAssumption`, `CommitAssumption`, `QueueAssumption`,
`BudgetAssumption`), or the MC module that fixes which parts a run has
(`DeletionAssumption`, `ManagerAssumption`, `InstallAssumption`, `StreamsAssumption`,
`SessionsAssumption`, `AccountsAssumption`, `UploadsAssumption`, `EditsAssumption`,
`PagesAssumption`, `ProjectionAssumption`, `LibraryAssumption`). The last also says
`MaxEdits <= PositionShift`: positions stay below the shift of 1,000,000, since a list has at
most 100,000 entries (`MaxPlaylistEntries`), an edit numbers them anew, and only tracks that
are deleted for good leave gaps. Some statements are conditional. `~MayStall`
(section 3) is a hypothesis of the two exclusions of scans and of the two of files that
the properties `...UnlessStalled` follow from; those say themselves which behaviours they
are about.
`NeverWaitsForOwnBatch` assumes `~Reoccupied`; the theorems about the rows of files are
about one scanner at a time, as is `LibraryFiles`; `InstallationHolds` says nothing once
something overlapped that the code forbids only by convention.

**`MetadataWritebackProofs`.** `TypeCorrect` proves `IInv`: the types; `OpenRow`, an
open row has an attempt id, and an output from PREPARED on; `OwnerIsCurrent`, a worker
before its commit that still owns the row finds it uncommitted, and a frame past the
remux carries an output. The types alone are not inductive, since what a row records
comes out of the frames. `Shape` lists what any step, of whichever action, may do to the
rows (request, start, work, give back, drop, commit, finish, ...), and every action is
shown to have one of these shapes. On shapes `RowInv` is inductive: `IInv`, a queued row
was never committed, and `CatalogFollowsJob`, which alone is not, because the commit
compares the row with the catalogue and only `OwnerIsCurrent` keeps a second commit
away. From it follow `CatalogAgrees` (`CatalogFollowsJob`), `CommitIsFinal`
(`CommittedIsFinal`) and `ContractIsImplemented` (`ImplementsContract`): each shape is
one step of the contract or a stutter. Files play no part, so stalls are allowed.

The files need more. `FilesInv` says of every program counter of every frame (`Fits`)
what the three names of its attempt may contain and what the row says meanwhile: aside
but not installed, installed but not recorded, committed but not cleaned up, half
undone. A recovery inspects exactly these situations, so the invariant is also the list
of what it may find. Together with `Kept` (the recorded content is at one of the names)
and `RollbackReachable` (every rollback belongs to the attempt of a row the next claim
repairs) it is inductive while no worker stalls: `Owns` then means that nobody else
moves files of the source. `SwapIsExclusiveUnlessStalled`,
`RollbackIsKeptUnlessStalled` and `ContentsAgreeWithoutStalls` follow.

**`LibraryScanProofs`.** `RootFollowsScans` and `EndedScansAreDated` come from one
invariant, `Agrees(root, run)`: whatever the root row was before, the trigger and the
reconciliation establish it for the run they are given. It contains `EndedScanIsDated`
because the start-up reconciliation writes READY without dating the root and relies on
its having been dated. `StaleScansNeverReady`, `EndedScansAreFinal` and
`CancelledScansStayCancelled` are step properties and need the types only.
`ScannersExclude` and `ScansExcludeWritebacks` come from `Exclusion`: a worker that
executes owns the run and its lease is live, and under a live lease no writeback is
open. Neither consequence is inductive: a claim by a second worker, or a new writeback,
is refused by looking at the *row*, so the row must still say what the first worker
believes. This is where `~MayStall` is used; `ScannersExcludeUnlessStalled` and
`ScansExcludeWritebacksUnlessStalled` state the same of the behaviours of the run, which
has both kinds. `DirectoriesAgree` (`PathsAgree`) combines three step facts: only
`UpdateRoot` changes the path and never under a writeback; nobody comes to own a run but
by claiming it in the directory of the moment; a run asked to stop stays so. It needs no
assumption on stalls.

**`LibraryFilesProofs`.** Of the commit workers: `CommitTypeCorrect` includes that
connections are conserved: free ones, batches and second transactions add up
(`ConnectionsCounted`), so none is given back twice. `RowsAreMovedOnce` (`OneRename`)
rests on every rename in progress being in `claimed`. `NoBatchWaitsForItself`: rows
locked by a batch belong to files changed in place, the row a rename wants belongs to a
content found elsewhere; if they are the same row, a file was moved *and* its old path
has other content, which is exactly what `~Reoccupied` excludes. So the theorem is the
precise condition under which the comment in `production_sync_batch.go` is right.

Of the rows: `FilesInv` compares every row with the snapshot the scan took. During the
walk a row is as found or stamped (`AsFound`); a file that was visited and lay still is
accounted for, its row stamped or remembered (`Accounted`); and the row of a moved file
is untouched until the file is visited, and the file's from then on (`Follows`). `ScansKeepWhatTheySaw`
(`SeenSourcesKept`) is that the deletion at the end only takes rows that are neither
stamped nor remembered; `ScansFollowMovedFiles` (`MovedFileKeepsTrack`) that nobody took
the row of a moved file first. Both are step properties of the deletion or the visit in
states of the invariant.

**`BatchesProofs`.** The invariants relate each job to its items: an active item means
an active job (`JobSpans`), the counters are numbers of items with a status (for tags,
unless a cancellation is still to be counted: `JobFits`), who owns an item runs it
(`ItemFits`). Every action moves some items and recounts, and the lemmas on `CountOf`
say what a count becomes. `TagInv` gives `EndedBatchIsQuiet`: an ended job has no active
item, and only active items are owned. `CancelledBatchesWriteNothing` is a step property
of the fence. `ArtInv` adds that a picture is there exactly for items that succeeded,
and that a process remembers no success that was not committed. `DeletionInv` follows
each call (`CallFits`): the files it hides belong to its track or to tracks that are
gone, it hides files only while it can still put them back or remove them, and it
reports as done a track that is gone; a row that is gone never comes back.

**`CatalogueProofs`.** `EditsInv`: what each request has locked, and nobody else has
(`Apart`: of two edits none holds a lock that the other's excludes); what is locked is
there and has the version the administrator saw (`LockedFits`); and how far the plan of
each request has come, the rows still to lock in the order its operation locks them
(`PlanFits`). `NoEditIsLost` is `LockedFits` at the commit. `NoEmptyAlbum` and
`ShownCoverKept` hold since an edit that may empty an album or drop its cover holds the
album. For `OnlyMovesDeadlock`: if every request waits and none moves or merges, then
one that is waited for holds tracks only and waits for a track greater than all it
holds; following who waits for whom the tracks grow, and a finite set has a greatest.
For the pages: the order of each list is that of a key of three numbers (`Key`), and both
its ORDER BY and the condition that seeks past a cursor say the same (`ByColumns`,
`ByDates`, `ByPairs`, `ByIdentifier`); what is read of a set in a total order is a lower
part of it (`Readings`, `Paged`), so each page takes the first of what is unread (`Turn`).
`PagesInv` says where a walk stands: of the rows nobody touched those are shown, once,
that are not beyond the cursor (`Passed`), or they are cut off (`Accounted`, `Cut`); for
random rows, those from the anchor on; for numbered pages, those on the places so far. A
cursor may differ from the row it was made of: what it reaches follows that row, and what
follows that row it reaches or cuts off (`CursorOf`).

**`UsersProofs`.** `AccountsInv`: a request keeps the account it holds, and the one that
is about to remove an administrator holds another active one that nobody else can take
away (`ChangeFits`), so `RemovalsLeaveAdministrator` is a statement about the single
update. `SessionsInv` ties tokens, sessions, requests and idempotency records together:
a token that was used has a successor or belongs to an ended session, the unused one is
the last (`TokensFit`), a request after its conditional update is the only one that
consumed its token (`RefreshFits`, `RequestFits`), a record that is answered holds what
its request gave (`RecordsFit`), and a token used twice shows in the history why
(`UsedFits`, `ReuseFits`). `RotationIsSafe` is `SingleLine` and `ReuseIsReal`.
`UploadsInv`: assets belong to completed uploads (`AssetsFit`, `StatusFits`), shown
assets are ready and have their file, also while the cleaner looks a second time
(`ShownFits`, `CleanerFits`), a request in its last transaction has put its file in
place (`CommittedFits`), and a request that has measured the quota holds its lock and
leaves room for its upload (`QuotaFits`).
`LibInv`: what a device has seen is the list in order for as long as its version is the
current one, although tracks are deleted meanwhile; an edit under the lock has the list
it wants in the order of the places its commit will give; and every position is below
the number of edits, so entries that are moved away by `PositionShift` never meet others.
A finite set has one order by places that differ (`OneOrder`), which `InOrder` returns:
so what is stored is what was meant (`PlaylistKeepsItsOrder`). `InOrder` and `Keep` stand
in the module where `SortSeq` and `SelectSeq` might, which the provers cannot expand.
`HistoryInv`: the row shows one of the latest events heard. `UsersTyped` needs that the
bounds are enough (`UsersBounds`): a request moves a version or an authorization on at
most once after it was counted, so those still pending are counted as sets.

**`ServerProofs`.** `ManagerInv`: a runtime counts the requests that hold it and is open
for them until the drain gave up on them (`RuntimeFits`); per program counter of the
call under way, what it has built, published or still has to retire (`CallFits`); until
a step fails only the published runtime works (`OneWorks`). `WorkerInv`: what runs at
each stage of a start, and what may still run at each of an end. `RuntimesStayWhole` is
both. `StreamsInv`: what an open client will have shown once its buffer is read is the
last frame of its topic (`Ends`, `ClientFits`), a topic that was replaced has been left
by all (`TopicFits`), and the two counters are the numbers of open clients and of
followed topics. `InstallInv`: while nothing overlapped, at most one request works; what
the three file names contain at each step of a save (`FilesOf`), how far the server, the
file and the request agree at each step of a change (`ApplyFits`), what a setup has done
and has to undo (`SetupFits`), and that all agree when nothing works (`RestFits`). `BudgetInv`:
an acquiring caller still misses a token, a releasing one still has one (`LoopBounds`),
and the tokens in the channel and those of every caller sum up to the capacity.
`ServerTyped` adds `ServerBounds`: every generation is a runtime that was built.

**`ProjectionProofs`.** `ProjInv` relates four things: what is committed, what each
transaction has written so far (`work`), what its savepoint would restore (`saved`), and
what the scan remembers.

* Committed rows are right (`Committed`), and so is every row that a transaction has
  written, judged by what it will see if it commits now (`RowWritten`): the row is locked,
  and if more than its album was taken away, so is its metadata, or the track is new.
* An album that a transaction uses for a row, has resolved for the next one or remembers
  is there, and locked by it or its own (`Usable`), so that nobody deletes it meanwhile;
  no transaction uses what another made or deletes what another made (`Beside`).
* What a savepoint keeps is part of what the transaction has done (`SavedWithin`), so going
  back to it gives nothing up that a row still needs.
* An artist is deleted only when no row anybody can see references it (the foreign keys),
  and a row is written only with an artist that is still there (`WriteTrack`'s guard), so a
  stale name in a scan's memory never reaches the catalogue.
* Identifiers are never used twice for different artists or albums, wherever they are
  still remembered (`ArtistClaims`, `AlbumClaims`).

A commit then moves the rows of one transaction into the catalogue (`CommittedKept`) and
takes nothing from any other (`ActorKept`). `TracksShowTheirMetadata` is `Committed`.
`ScansNeverMakeTwins` adds `OnceInv`: a scan holds the lock of the name or title of all it
has made and found nothing alike, nor has what its savepoint keeps; two transactions hold
no lock in common, so a commit cannot bring in what another scan makes. `CatalogueTyped`:
only edits that had begun commit past the bound (`ChangesFit`), the rest is in the invariants.

**Proved, not checked by a run of their own**: `CommittedIsFinal`, `EndedScanIsDated`,
`StaleScanNeverReady`, `CancelledNeverRestarts`, `OneRename`.

**Only model-checked**

* Liveness (`EverythingEnds`; the counterexample to `CancelEnds`) and that some commit
  worker can always go on: beyond the prover.
* `SettingsHold`: it compares concrete tables of keys and values (what is parsed of what
  is saved); there is nothing general to prove. That a saved file has every key is part
  of `ServerTyped`.

## 6 Findings

1. **A cancelled writeback may never end** (`MCWritebackCancelEnds`). Another tool
   rewrites the file after PREPARED and before the first rename; the attempt notices and
   gives up. The recovery finds no rollback and a source that is not the original
   (`adminmetadata/worker.go`, "The temporary source rollback is missing"), reports
   ROLLBACK_FAILED on every claim and keeps the row PROCESSING, although nothing was
   ever moved. Messages tell the administrator to complete or cancel the writeback
   before deleting the source; cancelling does not help.
2. **A scan can wait for itself** (`MCScanCommitReoccupied`). After `mv a b` and a new
   file at `a`, one batch stores `a` and then begins a second transaction that wants the
   same row. The database sees an idle session and a waiting one, and no cycle.
3. **Lists lose rows between two pages** (`MCCursorLosesRows`). The administrator's albums
   by date, newest first, are sorted `DESC`, so those without a date come first
   (`admincatalog/repository_albums.go`); after a page that ends at one of them the cursor
   asks for `IS NULL AND id <` only (`admincatalog/repository.go`), and no album with a
   date is ever shown. And four lists for listeners sort by microseconds while their
   cursors keep milliseconds (`shared/timeformat/time.go`): rows of one millisecond can be
   skipped. `shared/pagination/offset.go` says that cursors "can continue through every
   matching record". Cursors lose none otherwise: `EveryRowIsShown`.
4. **No administrator may be left** (`MCLastAdministrator`). Accounts are edited under a
   lock that counts the administrators, but the status route of `adminmutation` neither
   locks nor counts: two administrators who suspend each other at once both succeed,
   although "the last active administrator cannot be removed".

## 7 Observations

Behaviour met while modelling that contradicts no statement of the repository, or that
no run shows.

**Writebacks and scans**

* A worker that outlives its lease can still rename files after the recovery has
  declared the source restored; the next claim repairs it.
* A METADATA_CHANGED failure after PREPARED is requeued as WORKER_LEASE_EXPIRED,
  although the code is a terminal one: one remux more, no wrong state.
* Between the checksum of the output and its rename to the temporary name a user's
  rewrite is staged and deleted as if it were the output; after a failed fsync the file
  at the managed path is removed unseen. A crash during ffmpeg leaves a temporary file
  nobody removes.
* `UpdateRoot` to a new path keeps READY although the new directory was never scanned,
  until a restart. A failed root whose next scan is cancelled turns READY again when it
  had been scanned before.
* A PENDING scan keeps no writeback out: an unbroken series of writebacks starves scans.
* A mount point without its file system is an empty directory: a scan of it deletes
  every source.
* Catalogue writes of a scan are not fenced. With two scanners in `LibraryFiles` TLC
  finds `SeenSourcesKept` violated: a late worker restamps a row with its older time.
* A copy visited before its original takes the original's row, and with it the track,
  although the original is still in its place; the original has no source until the next
  scan.
* The error of recording a failed file is dropped (`_ = markSourceFailed`); the file
  then counts as missing and loses its source.
* With as many connections as commit workers each can hold one and wait for a second:
  `ScanCommit` deadlocks. `DATABASE_MAX_CONNECTIONS` accepts such values.
* A start-up scan that conflicts with another process fails the whole start-up.
* `cleanupUnreferencedArtwork` asks on another connection, which does not see the open
  batch, whether artwork is referenced; only a cache of the scan protects the file.
* Callers of the probe budget that ask for several units could each sit on a part of
  what they need; production asks for one unit at a time.

**Batches and deletion**

* An item that finishes early in its window gets no heartbeat while the others run.
* `Close` releases items whose tags were already written; their next attempt ends in
  VERSION_CONFLICT, and retrying such items is hopeless.
* After a match the hint that another source failed survives, so an item that was
  written but whose writeback is refused is put off with its old version.
* A cancelled job with live leases at the head of the tag queue blocks the jobs behind
  it; its counters lag until it is finished.
* The deletion looks for scans before its transaction only; a batch started during a
  scan fails all items of that root.
* A lost answer of the commit puts the files back although the rows are gone and reports
  FAILED; two tracks that share a file, deleted at once by different jobs, each see the
  other and leave the file; a rollback releases the row lock before the files are back;
  a crash leaves a hidden file nobody restores.
* Renewing a deletion lease ignores that it had expired; a postponed first item blocks
  the rest of its batch.
* `RestoreTrack` leaves `archived_manually` set, the restoring of a batch resets it.

**Catalogue and metadata**

* Track moves and album merges can wait for each other in a circle; PostgreSQL ends one.
  So can a scan (metadata, then track) and an edit (track, then metadata).
* `deleteArtistsIfEmpty` and the edits' `deleteAlbumIfEmpty` look without a lock before
  they delete: an album another transaction has just moved a track into is deleted, and
  the track loses its album (`ON DELETE SET NULL`).
* Edits lock album titles under the key `title`, scans under `album:title`, and edits
  look up artists with no lock: a scan beside an edit can make the same artist or album
  twice.
* Every edit of any field rewrites the current lyrics as MANUAL or SCRAPED, so that
  scanned lyrics stop following the file. An edit that takes lyrics away leaves those of a
  track that are not the ones its metadata had (`projectLyrics`).
* An artist a scan remembers and somebody deletes fails its files for the rest of the
  scan.
* The scan's `deleteAlbumIfEmpty` ignores playlists and avatars when it retires a cover;
  the others consider them.

**Lists**

* Pages by number shift while rows are inserted or deleted; a row whose sort value
  changes may be shown twice or missed; the total is the first page's.

**Sessions, uploads, library**

* A refresh whose answer cannot be built or recorded after the rotation loses the new
  token; repeating it under the same key then ends the session, or is "still processing"
  until the record expires.
* A log-out everywhere beside a rotation can leave the rotated token's row unrevoked;
  its session is revoked.
* A failed completion is never retryable; its committed file stays, as do temporary
  files of abandoned and crashed uploads. Replaced pictures of artists and albums stay
  READY for ever.
* Two PUTs, or a PUT and a completion, of one upload do not exclude each other.
* A profile's avatar is retired without looking at covers of playlists; the
  administration looks.
* `play_count` counts a start again when two sessions alternate, and misses one that
  arrives after a later event of its session.
* A track deleted for good leaves gaps in playlists and does not advance their versions.

**Processes**

* The production adapter of a runtime sets no activation hooks; if the settings fail and
  the reactivation fails too, the server stays FAILED until it is restarted.
* A request that outlives the drain runs on a closed runtime; the deadline of
  `CloseContext` does not bound the closing of the database pool.
* A recovery of the file during a save, or settings services of two runtimes at once,
  can leave a file that is not what runs. A setup that failed after migrating must be
  repeated with reset.
* A change of the largest upload has no effect: it is written as `MAX_UPLOAD_BYTES`
  (`adminsettings/config_merge.go`), and `MEDIA_MAX_UPLOAD_BYTES` is what is read
  (`config/config.go`). Asked for alone it is refused with "At least one system setting
  must change", beside another setting it is dropped.
* `ffmpegPath` in the same change as a tools directory is ignored silently; unknown keys
  of the file are lost on save; settings accept an upload lifetime from 60 s, the file
  from 30 s.
* A client of an event stream whose buffer of 16 frames is full is dropped and
  reconnects; error and heartbeat frames are never kept for late clients.

## 8 Not modelled

* **Within the modelled components**: cue sheets with several tracks and imported
  artwork in a scan, so also a scan that attaches a picture of the same content while the
  cleaner deletes it; ffprobe parsing; the deletion of tracks or artists that are items
  of a running batch; edits of artists and credits (single conditional updates); edits
  of several tracks in one transaction; formatting of errors; timers (a delay is a step
  that may come later); progress reports; detail queries.
* **Pure functions over external data**: platform clients, response parsers, conversion
  of lyrics and the scoring of candidates (what a failing, empty or matching source does
  is in `TagBatches`).
* **Pure I/O and wiring**: HTTP routing and middleware, ffmpeg and ffprobe wrappers,
  migrations, hashing and encryption, the installer.
* **One atomic statement**: rate limits (an upsert that saturates), profile names, the
  remaining retention policies. Nothing is interleaved that the statement does not
  already serialise.
* **Stateless**: playback tickets and the choice of a source, the jobs overview, sign-in
  checks.
* **The clients.** Their view of the server is in `Sessions` (lost answers, repeated
  requests); their own state (session revisions, the outbox of favourites, the player
  queue, caches) is not modelled.

Abstractions that hold throughout: sources, roots, tracks of different files and jobs of
different kinds do not share rows beyond what the modules name, so one of each is
modelled; identifiers are never used again; a checksum identifies a content;
transactions are READ COMMITTED, a statement is atomic, and PostgreSQL ends one of a
circle of waiting transactions.

## 9 What is left

The components of the server with state of their own are modelled, and the invariants of
the runs are proved but for what section 5 lists. What remains, in order:

1. Cue sheets in `LibraryFiles`; a second scan worker with fenced catalogue writes,
   should the code get them.
2. The outbox of favourites and the session manager of the clients.
