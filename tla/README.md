# Cloud Storage Player: a TLA+ verification project

Cloud Storage Player is a single-user web application (FastAPI, SQLite, a React front end) that
imports video files, cuts them into encrypted segments, uploads the segments to remote storage
(Baidu Pan or a mock directory), and plays the videos back from a local segment cache that is
refilled from the remote. This directory holds TLA+ models of its control logic, TLC
configurations that check them on small instances, and TLAPS proofs about them for every instance.

All paths below are relative to the repository; the Python package is `src/app/`.

## 1. The system's parts

One process runs everything. `main.py` builds the application: the lifespan handler migrates the
database, starts the import worker and the manifest scheduler, and only then are requests served.
Route handlers are synchronous functions, so FastAPI runs them concurrently in a thread pool. Every
repository function opens its own SQLite connection and commits before it returns. A function that
reads a row and then updates it in a second call is therefore two transactions, and other threads may
write in between. This is where most of the program's hard behaviour comes from.

| Part | Code | State | Operations | What makes it correct |
|---|---|---|---|---|
| Background jobs | `repositories/import_jobs.py`, `services/import_worker.py`, `services/background_jobs.py`, `services/job_control.py`, `api/routes/imports.py` | table `import_jobs`; queue, two id sets and one thread of `ImportWorker` | create, cancel, cancel all, retry, clear, enqueue, run, restart | a job runs once and is neither lost nor left half way; a deletion is never cancelled or retried; flags agree with statuses |
| Import pipeline | `services/imports.py`, `media/*`, `services/manifests.py`, `services/video_fingerprint.py` | `videos`, `video_segments`, staged segment files, remote objects | read, encrypt, stage, write manifest, upload, finalise, preserve a failure, resume on retry | a video is visible only when all of its segments and its manifest are stored; a retry resumes instead of starting over |
| Bounded transfers | `services/remote_transfers.py` | tasks, futures in flight, deferred retries | submit, wait, record, defer, cancel, stop | at most N in flight; every task is done once unless the run stops or fails |
| Segment cache | `services/cache.py`, `services/cache_eviction.py`, `services/segment_local_paths.py`, `repositories/video_cache_entries.py` | segment files, `video_cache_entries`, `local_staging_path` | cache job, clear, refresh, evict | the summary row describes the files; the eviction order; protected videos stay |
| Playback and prefetch | `services/streaming.py`, `services/segment_prefetch.py`, `services/playback_cache_flush.py`, `api/routes/stream.py`, `media/range_map.py` | one prefetch session per video with a consumer count and a thread; cached-segment registry | range request, read a segment, acquire, request, release, flush | bytes served are the bytes asked for; a session lives while it has consumers |
| Library edits and manifest sync | `services/video_manifest_sync.py`, `services/manifest_sync_scheduler.py`, `repositories/videos.py`, `services/video_metadata.py`, `services/video_artwork.py`, `services/artwork_storage.py` | `videos.manifest_sync_dirty` and its time stamp, the remote manifest | edit, mark dirty, upload, mark clean | the last edit reaches the remote manifest |
| Catalog sync | `services/catalog_sync.py` | local rows built from remote manifests | list, decrypt, create or update, replace segments | a synchronised video equals its manifest; local files are not lost |
| Watch history | `services/recommendations.py`, `repositories/watching.py` | `watch_sessions`, counters in `videos` | heartbeat, recommend | watched seconds are counted once |
| Settings and keys | `services/settings.py`, `repositories/settings.py`, `services/admin_settings.py`, `core/keys.py`, `core/config.py` | key-value table, key file | get, update, load or create the key | one content key for ever; an update loses no other update |
| Baidu client | `storage/baidu_api.py`, `storage/baidu.py`, `services/baidu_oauth.py` | access and refresh tokens | authorised call, refresh, retry with back-off, chunked upload | a call is repeated only when that is harmless; a token is refreshed once |
| Process control | `services/shutdown_state.py`, `services/runtime_metadata.py`, `api/routes/runtime_control.py`, `cli/runtime_start.py`, `cli/runtime_stop.py` | `shutdown_requested`, the runtime file | start, stop, force | no stop while a job is active unless forced |
| Schema | `db/schema.py`, `db/connection.py` | the database file | create, migrate, rebuild a table | a migration keeps rows and can be repeated |
| Everything else | pages, schemas, authentication, templates, `web/`, `frontend/`, the remaining `cli/` | none of its own, or a cookie | request to call | not modelled: no control beyond what the parts above do |

Interactions: route handlers write job rows and call `ImportWorker.enqueue`. The worker thread calls
`process_background_job`, which runs the import pipeline, a cache job or a deletion; all three report
progress through the job table and look there for cancellations. Imports and cache jobs use bounded
transfers, whose pool threads call the storage back end. A stream request reads the segment files,
acquires the prefetch session of its video, whose thread downloads into the same files through bounded
transfers. The flush registry and the cache routes recompute the cache rows. The scheduler thread
reads dirty videos and uploads manifests. Deleting a video removes the rows and files all of the
others work on.

## 2. Where the difficulty lies

* **Read, then write, in two transactions.** `request_cancel_job`, `retry_import_job`,
  `update_import_job_progress`, the find-or-create of cache and deletion jobs, `create_video` followed
  by `set_video_visibility`, the manifest scheduler, the settings and the watch heartbeat all decide on
  a row that may have changed when they write it.
* **Bookkeeping beside the database.** The worker keeps the ids of waiting and running jobs in memory,
  the prefetch sessions live in a dictionary that is keyed by video and not by session, and the flush
  registry remembers segments. Each of them has to agree with rows or files it does not own.
* **Failure in the middle.** An import is ten steps on four kinds of state (rows, files, remote
  objects, job), any of which may raise; what is left behind must be found by a retry, a deletion or
  the next start.
* **Files that disappear.** Clearing the cache, eviction and deletion remove files that imports and
  responses have just looked at.
* **Ends of threads and generators.** A response releases its session in a `finally` block that never
  runs when the generator is never started; a worker thread that dies is not restarted.

* **Copies of one truth.** A title is in a row, in a file that waits to be uploaded and in a remote
  manifest; the number of cached segments is in a table and on the disk; the analytics of a video are
  made from its sessions and written back by reports on other videos. Each copy is refreshed in steps.
* **Calls whose reply is lost.** The Baidu client repeats a call that may have arrived, and refreshes a
  token that the service accepts once.

`PROJECT.json` lists every hazard of this kind at its line, with the properties that cover it or the
reason why none does.

## 3. The modules

| Module | Role |
|---|---|
| `ImportJobs` | the table `import_jobs` and its statements, used by the two models below |
| `ImportWorker` | queue, worker thread, request handlers and restart, interleaved per transaction |
| `DeleteTasks` | abstract specification of what becomes of deletions |
| `ImportWorkerProofs` | theorems about `ImportWorker` |
| `ImportPipeline` | what imports and deletions do to rows, files and remote objects |
| `Playback` | responses, prefetch sessions, their threads and the cached files of one video |
| `LibrarySync` | edits, the manifests and posters they are uploaded as, and the catalog synchronisation |
| `SegmentCache` | cached files of several videos, their table, eviction, cache jobs and imports |
| `TransferTasks` | abstract specification of what `run_bounded_transfers` promises an import |
| `Transfers` | the pool of upload threads and the calls of the Baidu client, shown to implement it |
| `WatchSessions` | reports of watched seconds, the analytics made of them, likes |
| `ImportPipelineProofs`, `PlaybackProofs`, `LibrarySyncProofs`, `SegmentCacheProofs`, `TransfersProofs`, `WatchSessionsProofs` | theorems about the module each is named after |
| `SumTheorems` | induction over finite sets and numbers, and what `MapThenSumSet` computes; used by the proofs |
| `MC...` | the small instances that TLC checks |

### 3.1 `ImportJobs`: the job table

`jobs[j]` is the row with id `j`: its `kind`, `status`, `cancel` (`cancel_requested`) and `target`
(`target_video_id`). Status `unborn` is an id SQLite has not handed out, `gone` a row that was deleted;
an id is not used twice (`AUTOINCREMENT`). `videos` is the set of ids in the table `videos`; removing
one sets the targets that refer to it to NULL (`ON DELETE SET NULL` in `db/schema.py`). Every operator
is one SQL statement of `repositories/import_jobs.py`; the ones that raise `ImportJobNotFoundError` when
the row is missing do nothing, and the caller's action takes the path of the exception.

### 3.2 `ImportWorker`: one queue, one thread, many handlers

* `queue`, `scheduled` and `processing` are `_queue`, `_queued_job_ids` and `_processing_job_ids` of
  `ImportWorker`. `worker` is the thread: where it is, the job it holds, and what it has read.
* `TakeJob`, `ClaimJob`, `ReleaseJob`, `CatchRead`, `CatchMark` are the lines of `_run`, one per critical
  section or transaction. `ReadJob`, `RejectJob`, `StartJob`, `CheckCancel`, `ReadProgress`,
  `UpdateProgress`, `WorkEnds`, `CompleteJob`, `CancelJob` and `FailJob` are what
  `process_background_job` does to the row for each kind of job; the work itself is any number of
  progress updates and checks up to the bound `Rounds`, and may raise at any of them (`WorkFails`).
  `JobRaises` is an exception outside of the job's own `try`.
* A handler is a record in `client`: what it has read and will do next. Reading and writing are separate
  actions wherever the code uses two connections.
* `Restart` is the end of the process at any point followed by `ensure_started`: interrupted jobs are
  failed, queued ones are enqueued by id.

`DeleteTasks` says what a user may rely on about deletions: each is queued once, at most one runs, a
running one ends completed or failed, none is cancelled or queued again, and only a finished one is
forgotten. `DeletionsAreTasks` maps the deletions among the jobs to it.

### 3.3 `ImportPipeline`: rows, files and objects

A video is one record: `visible`, `path` (its `manifest_path` is set), `print` (its fingerprint), and for
each segment the content of its `row`, its `file` and its `remote` object, and whether the remote
`manifest` exists. The content of a segment is the source file it was cut from, so that the digest, the
fingerprint and the bytes all come down to a content; `Torn` is a file or an object whose writing broke
off. One job runs at a time; `run` says where it is. The steps of `process_import_job` are `Probe`,
`ReuseVideo` or `CreateVideo` and `HideVideo`, `StageSegment`, `InsertSegments`, `SetFingerprint` or
`RefuseDuplicate`, `WriteManifest`, `UploadSegment`, `UploadManifest`, `ExtractCover`, `PublishVideo`,
`ClearTarget`, `Complete`; its `except` blocks are `HideFailed`, `TargetFailed`, `Fail` and, after a
cancellation, the deletion `CollectPaths`, `DeletePath`, `DeleteDirectory`, `DeleteFiles`, `DeleteRow`,
which deletion jobs share. `Raise`, `TearFile`, `TearObject` and `Restart` interrupt it; `Request`,
`ClearJobs`, `ClearCache` and `ReplaceSource` are what users do meanwhile.

Here a request reads and writes its row in one step and any queued job may be the next to run. The races
of requests are the subject of `ImportWorker`, and its order of the queue is one of the orders allowed
here.

### 3.4 `Playback`: responses and prefetch sessions

`files` are the segments whose cache file exists and `writes` the payloads handed to
`_cache_write_executor`. A response (`stream[s]`) is prepared (`Prepare`), acquires the session
(`Acquire`), reads or downloads each segment (`ReadSegment`, `ReadFile`), yields it, asks for prefetching
(`RequestPrefetch`, `StartThread`), and in its `finally` block looks the session up by the video's id
(`LookupSession`) and releases it (`ReleaseSession`). `Discard` is a prepared response that is never
iterated. A session has its consumer count, stop event, window and thread; the thread's steps are those
of `SegmentPrefetchSession._run` and of the pool threads below it. `current` is the video's entry in
`_prefetch_sessions`. `ClearCache` is a clear or an eviction. Whether the imported source file still exists
is decided anew whenever a response falls back to it.

One video is enough: sessions and files of different videos have nothing in common but the dictionary's
lock, which protects single steps here. Which error a failed download raises matters: a `BaiduApiError` is
swallowed by `_read_segment_payload`, and the response goes on without the bytes (`LoseSegment`; `lost` are
the segments left out), any other error leads to the source file or ends the response (`SourceFallback`).
Either may come whenever a download fails. Every segment has a `cloud_path`; a response that is served from
the source file from the beginning does not touch this state.

### 3.5 `LibrarySync`: rows, manifests, posters

`row[i]` is a row of `videos`: which video it is, the numbers of the edits its title and its tags come
from, `custom` and `name` (`has_custom_poster` and the id in the file name of `poster_path`), `dirty` and
`due` (the dirty mark and whether ten minutes have passed), `path` (the directory of `manifest_path`) and
whether it has rows of segments. `file[i]` is the local `manifest.remote.bin`, `picture[i]` the stored
poster, `manifest[d]` and `poster[d]` are the remote objects of directory `d`. A directory is named after
the row id of the import that made it.

* An edit request (`ReceiveEdit`) goes through `SaveMetadata` or `SaveFields`, or for a poster through
  `RemovePicture`, `StorePicture`, `PointToPicture`, `CheckRewrite`, `RequestSync`; then
  `rewrite_local_video_manifests`, which is `ReadForManifest`, `WriteManifest`, `SetPath`. `EditRaises` is
  a picture that cannot be decoded or a file that cannot be written.
* The scheduler (`ListDirty`, `TakeVideo`, `SchedulerReads`, `SchedulerWrites`, `SchedulerSetsPath`,
  `UploadManifest`, `SyncPoster`, `MarkClean`, `UploadFails`) works on the rows as it has listed them.
* The synchronisation (`Discover`, `LoadManifest`, `LookupVideo`, `CreateVideo`, `UpdateVideo`,
  `DeleteSegments`, `InsertSegments`, `RestorePoster`, `PointToRestored`, `FinalUpdate`) writes rows from
  manifests.
* `Restart` breaks all three off, `MoveCacheRoot` takes the local manifests away, `FallDue` is time.

`disturbed` is history: the rows on which two of the three worked at once or whose work was broken off.
The next edit nobody interferes with takes a row out of it.

One edit and one synchronisation run at a time, no video is deleted or imported meanwhile, and a file is
written in one step. What the tests of artwork do with formats is left out; that a restored poster is
encrypted twice, which turns it into the plain picture, is kept (`coded`).

### 3.6 `SegmentCache`: files and what the table says of them

`files[v]` are the segments in the directory of a video, `entry[v]` is `cached_segment_count` of its row in
`video_cache_entries`, `noted` the sessions of `PlaybackCacheFlushRegistry`, `arriving` the segments that
playback has written and not yet noted. A thread is a request or the worker. `refresh_video_cache_entry` is
`Scan` and `Store`; what the thread does next is in `then`. `Flush`, `Clear`, `ClearAll` with `NextClear`,
`Detail` and `QueueCache` with `CreateJob` are the requests; `RemoveFiles` and `RemoveRaises` the removal of
a directory; `Collect`, `Evict`, `EndEviction` are `enforce_cache_limit`. The worker runs a cache job
(`TakeJob`, `CheckSegments`, `Fetch`, `EndFetch`, `EndJob`) or an import as far as it concerns the cache
(`TakeImport`, `Split`, `Upload`, `Reveal`). `Persist` and `Note` are playback.

`stale` is history: videos whose refreshes overlapped or did not happen; `lost` what has been removed since
the worker took a video up; `came` and `gone` of a thread count the segments that others have added to and
removed from the listed videos since its enforcement measured them, and the files that its own evictions
could not remove (`left` in `Evict`: `rmtree` is called with `ignore_errors`, and the code takes the whole
directory off the total all the same). Every segment has size 1, and the eviction order is a number
(`Priority`), then the id.

`Collect` measures all directories in one step, and in `Evict` a directory is measured and removed in one
step; a file that vanishes between being listed and being measured, which raises in the code, is not
modelled. The removal of a directory by a clear is one step too, unless it raises.

### 3.7 `TransferTasks` and `Transfers`: an upload

`Transfers` is one call of `run_bounded_transfers` by an import. The thread of the loop (`pool`) submits
(`SubmitNext`), looks at the job (`Loop`), waits (`Wait`), takes results (`Take`: record, defer, raise),
pauses before it submits deferred tasks again (`Pause`), and leaves the executor, which waits for all that
was submitted (`Leave`). A thread of the executor uploads one object: it looks for it, precreates it,
uploads the parts, creates it and looks again (`Call`); a call may fail on its way or lose its reply and is
repeated (`CallFails`), or be refused for good or as too frequent (`CallRefused`). A back end without an
access token takes the one in the settings (`LoadToken`) or reads the refresh token (`ReadRefreshToken`),
refreshes (`Refresh`, `RefreshFails`) and writes what it got, each commit a step of its own: the refresh token
(`StoreToken`, `storage/baidu.py:163`), the refresh token again (`StoreTokenAgain`,
`services/baidu_oauth.py:105`), then the access token (`PersistAccess`). All threads share the back end, and
refresh tokens are numbered as the service issues them. The access token and its expiry are two rows, written
and read one after the other; `PersistAccess` and `LoadToken` take each pair for one step, because a token
without its expiry is taken for none, and a thread that finds none refreshes, as it does before the pair is
written. `Rapid` are objects whose content Baidu knows, so that precreating stores them.

`TransferTasks` is the promise the import relies on, and that `ImportPipeline` takes for granted: objects
are stored while the call runs and not after it has returned, an object is reported at most once and only
when it is stored, and a normal return means that all are reported. `KeepsPromise` is the refinement.

### 3.8 `WatchSessions`: reports

`session[t]` is the row of `video_watch_sessions` with token `t` (a `SessionRow`, or `None`), `row[v]` the
analytics columns, the score and the like count of a video. A report (`request[r]`) is
`record_watch_heartbeat`: `Begin` reads, `Create` and `Update` write the session, `ListSessions` and
`WriteAnalytics` recompute the analytics, `ListVideos` and `WriteScore` rewrite every video in the order
they are listed, `Reply` reads the answer. `Like`, `Delete`, `Restart` and `Tick` happen beside them.
`Heatmap`, `Highlight` and `Analytics` are the pure functions of `services/recommendations.py`. `sent` and
`pressed` are history.

Times are whole seconds and a bucket is a whole number of them, so that no rounding occurs; of the score
only the class of the play count (`Novelty`) is kept, the one part of it that depends on the sessions in a
way one can state; all videos are visible. A press of a like button that changes nothing is left out, and
the clock moves only when a session is about to be written.

## 4. The runs

Each passing property has a mutant in `PROJECT.json`: a plausible mistake in one definition under which
the same run fails.

### 4.1 Jobs (`MCImportWorker`)

| Run | Shows | Instance |
|---|---|---|
| `jobs_safety` | types; the id sets mirror the queue; only the executed job is `running`; flags and statuses agree; no queued deletion is forgotten; deletions implement `DeleteTasks` | 2 jobs, 1 video, 2 handlers, every request, 1 progress update per job, 1 infrastructure error, 1 restart |
| `jobs_liveness` | every queued deletion is carried out or reported; the worker lets go of every job it was given | 2 jobs, 1 handler, 1 restart, no infrastructure error |

Two jobs are the least with which one waits while another runs, and one is queued behind a deletion of
its target. Two handlers are the least that race with each other and the worker; they do not read each
other's state, so a third adds no new pair. One progress update has both a cancellation check before it
and one after. One video makes every cache job and deletion collide.

### 4.2 Imports and deletions (`MCImportPipeline`)

| Run | Shows | Instance |
|---|---|---|
| `import_safety` | types; a fingerprinted video is listed only when all its segments and its manifest are stored; a remote manifest comes after all its segments; no content twice | 2 jobs, 2 segments, one exception, broken-off upload, restart and cleared cache each, cleared jobs |
| `import_resume` | what is still there of a video whose row is gone is what its last deletion failed to remove; a hidden video is being worked on or can be resumed or deleted by a job, unless the code has lost it | 2 jobs, 1 segment, one exception or torn file, one restart, one replaced source, two removals that fail, cleared jobs |

Two segments distinguish none, some and all; what remains of a deleted video and who can reach it does not
depend on how many there are, so `import_resume` has one. Two contents and two videos are the least with
duplicates and with distinct videos. A retried job is the same job, so two jobs are many executions: there is
no bound on retries. A removal that fails is swallowed by the code (`video_delete.py:130`, `135`, `157`);
`kept` of a video remembers which, for the videos whose row is gone too, and `MaxKept` bounds them. Two are the
least that keep an object, whose own deletion and that of its directory must both fail.

The exceptions in the properties are part of the claim. `GoneLeavesNothing` excepts what the last deletion
failed to remove, and nothing else: neither a file of a segment without a row nor one that an earlier,
interrupted deletion has left. `HiddenIsReachable` excepts the videos in `strayed`, which the code has lost:
by a restart or by an exception in its clean-up or its publication in a first attempt, because
`mark_running_import_jobs_interrupted` does not know the video that the attempt created; and by clearing the
job from the table. `ListedIsStored` is checked without `MayTearFiles`; section 6 says why. All
runs set `CHECK_DEADLOCK FALSE`: when all ids are used and all jobs are finished, nothing has to happen.

### 4.3 Playback (`MCPlayback`)

| Run | Shows | Instance |
|---|---|---|
| `playback_reads` | types; a response leaves out no segment but those whose bytes the Baidu client refused; the server ends one early only after a failure or a clear | 2 responses for the first or both of 2 segments, 2 sessions, one mishap |
| `prefetch_safety` | of the sessions that have not been stopped at most one downloads; no batch is begun after the last consumer left, as long as every prepared response is iterated | 2 responses that read the first of 2 segments, 3 sessions, one mishap, errors of the Baidu client |
| `prefetch_liveness` | the thread of an unused session ends; a running session fetches what lies ahead of its players | 2 responses that read the first of 4 segments, window of 2, 2 sessions, no mishap |

A mishap is a failed download or write, a removal of the cached files, or a response that is prepared and
never iterated. The runs about the prefetch thread use responses that read segment 0 and leave
(`MCProbe`), so that segments stay ahead of the player; two batches of two are in `prefetch_liveness`.
Three sessions are the least with which one that ends late meets a second one that is stopped and a third
that is current: with two, `OneDownloader` holds even when a thread leaves the dictionary unconditionally.
The cache is filled arbitrarily in the initial state. `CHECK_DEADLOCK FALSE` because the bound on sessions
ends the behaviours.

### 4.4 Library (`MCLibrarySync`)

| Run | Shows | Instance |
|---|---|---|
| `library_edits` | types; a clean row is what the remote says, title, tags and poster, unless two at once worked on it or work on it was broken off | 2 videos, one of which has no row at first; 2 edits of any kind, 1 synchronisation, 1 failure, restart or move of the cache |
| `library_sync` | a dirty row becomes clean and its edit arrives, although the manifest of the other video can never be uploaded | 2 videos, 2 edits of titles and tags, 1 synchronisation, 1 mishap |

Two edits are the least with which one overtakes the upload of the other. One restored and one known
video put both paths of the synchronisation beside edits. `CleanIsPublished` and `EditsArrive` except rows on
which two at once have worked (`disturbed`): the code loses an edit that comes between the upload of the row
and its mark as clean, and some others (section 6). `EditsArrive` gives up where a synchronisation took the
edit back, which the code does. No deadlock check: when all edits
are made and uploaded, nothing has to happen.

### 4.5 Segment cache (`MCSegmentCache`)

`segment_cache`: 3 videos of 2 segments, of which one is cached, one is about to be imported and one is
remote; room for one video; 2 requests of any kind beside the worker, 1 segment from a player, 1 exception,
restart or eviction that some files resist. It shows types; that a row which misstates the files will be
refreshed, because the video is noted or being refreshed (`EntryIsTrue`); that each enforcement evicts no
more and no less than it should, counting what others have added and removed since it measured and what
resisted (`EvictsToLimit`); that an import finds what it has to upload and that a completed cache job has
left every segment (`WorkerFindsSegments`). Two requests are the least with which an enforcement, a clear
and a refresh overlap in pairs beside the worker; three videos are the least with one that is protected, one
that is evicted and one that is hidden. The exceptions in the properties are those of section 6.

### 4.6 Uploads (`MCTransfers`)

`transfers`: 4 objects, of which one is stored already and one is known to Baidu, 2 threads, 2 attempts of
each call, 2 failures, one cancellation, with and without a saved access token. It shows types (and that
there are never more futures than threads), the promise of `TransferTasks` (`KeepsPromise`), that the call
returns (`PoolReturns`), and that the refresh token in the table stays the one that the service takes or is
about to be replaced by it (`TokenIsKept`), as long as no reply of the service is lost and no thread reads the
table between the two writes of another (section 6). Four objects are twice what is in flight, so that
a batch is submitted while another is running and a deferred task comes back when the list is empty; two
failures are the least that exhaust the attempts of a call, or that meet in two threads.

### 4.7 Reports (`MCWatchSessions`)

`watch_sessions`: 3 reports served by 2 threads, 2 videos of 40 seconds and 4 buckets, 2 tokens, 1 deletion
or restart, a like count from 0 to 1. One kind of report is four seconds in the middle of the video, a
tenth of it and across the end of a bucket; the other three seconds at the end. It shows types; that a
session counts as a play exactly when the seconds it holds are enough (`PlayIsEarned`); that overlapping,
repeated and broken-off reports may lose seconds and never add any (`NoSecondsInvented`); that a report no
other overlapped leaves the analytics of its video exact (`AloneIsExact`); that the heat map counts every
second of every session in its bucket and the highlight is a stretch around a hottest one
(`HighlightIsPeak`); and that rewriting the rows brings back no older like count (`LikesAreKept`). Three
reports are the least with which two overlap and a third is on its own afterwards.

### 4.8 Bounds

`MaxJobs`, `Rounds`, `MaxErrors`, `MaxRestarts` (ImportWorker); `MaxJobs`, `MaxFailures`, `MaxKept`,
`MaxRestarts`, `MaxClears`, `MaxReplaced` (ImportPipeline); `MaxSessions`, `MaxMishaps` (Playback);
`LastId`, `MaxEdits`, `MaxSyncs`, `MaxMishaps` (LibrarySync); `MaxRequests`, `MaxWrites`, `MaxMishaps`
(SegmentCache); `MaxFaults` (Transfers); `MaxReports`, `MaxTime`, `MaxMishaps`, `Liked` (WatchSessions).
`IdIsLeft` and `SessionIsLeft` keep a request from beginning when no id is left for it, so that a bound
never stops a request half way. Video ids, handlers, responses, request threads and tokens are declared
symmetric where they are interchangeable; liveness runs use no symmetry. Deadlock
is checked in the two runs of jobs; in the others the bounds end the behaviours.

## 5. Fairness

* `WF_vars(WorkerStep)`: the worker thread polls its queue with a time-out of 0.25 s and never waits for
  anything else than SQLite and the storage back end, whose calls have time-outs.
* `WF_vars(Resume(c))`: a handler that has begun runs to its end. Nothing makes a user send requests.
* `WF` for every step of a prefetch thread and its pool threads. Nothing makes a response go on: a client
  may pause for ever, and a session is then used.

* `LibrarySync`: `WF` for `FallDue` (time passes), for the scheduler's thread, for a synchronisation and for
  an edit that has begun. Nothing makes a user edit or synchronise, and one mishap of any kind may come.
* `Transfers`: `WF` for the loop and for every thread; each call of the client has a time-out, and the pauses
  between attempts end. Up to `MaxFaults` calls fail.

The liveness runs of jobs and playback assume no infrastructure errors and no failed downloads; section 6
says what happens with one.

## 6. What the code does not keep

Six properties are defined in the modules and checked by no run, because the code violates them in a way
that a document, a message or a test of the repository speaks against. To see one, take the named
configuration with this property in the place of its own.

| Property | What the code does | How to see it |
|---|---|---|
| `CancelIsNotUndone` | a progress update writes back the cancel flag it read before the cancellation, and the job goes on running (`import_jobs.py:274`; `test_import_job_control.py:124-130` expects `cancelled`) | `jobs_safety` |
| `NoStrandedJob` | a retry that arrives before the worker has released the failed job is not enqueued and stays `queued` until a restart (`import_worker.py:56`; `test_import_api.py:354-359` expects it to run) | `jobs_safety` |
| `DuplicateIsListed` | an import is refused as the duplicate of the hidden remains of a failed import (`videos.py:603`); the message asks the user to open that video (`imports.py:707`) | `import_safety` |
| `ImportedTheSource` | a retry after the source was replaced completes with segments of the old file (`imports.py:414`; `test_import_api.py:338` replaces the source before it retries) | `import_resume` |
| `NothingLeftOut` | a `BaiduApiError` in the middle of a response leaves out the segment's bytes (`streaming.py:356`; `docs/storage-backend-and-remote-fallback.md:111` promises the source file instead) | `playback_reads` |
| `OneRowPerVideo` | a database that is filled from the remote hands out ids anew; an edit of a row whose id is not the one in its `manifest_path` moves the path to another directory (`video_manifest_sync.py:42-45`), and the next synchronisation adds the video again (`test_catalog_sync_api.py:140-152` expects a second synchronisation to add none, there without an edit in between) | `library_edits` with `Stored = {2}`, `Known = {}`, `MaxSyncs = 2` |

The models reach other states that the code hardly intends. The properties above are stated so that they
hold in spite of them:

* `request_cancel_job` decides on a status it read earlier: a job that has finished in between becomes
  `cancelling` and stays so (`WriteCancel` after `CompleteJob`).
* The second of two concurrent retries requeues the job the worker is running (`WriteRetry` after
  `StartJob`).
* The row may vanish between the two calls in the worker's `except` block; the only thread then ends and
  `_started` stays true (`CatchMark`, thread `dead`).
* An exception or a restart between `create_video` and `set_video_visibility` leaves an empty video in
  the list (`Raise` at `hide`); it has no fingerprint, and `ListedIsStored` does not speak of it.
* A segment file whose writing broke off is kept by the retry because it exists, uploaded and published
  (`TearFile`; `ListedIsStored` is violated with `MayTearFiles = TRUE`). The same happens without torn files
  when the source is replaced (`MaxReplaced = 1`): a segment file that was cleared is staged again from the
  new source under a row that describes the old one.
* A removal that fails in a deletion is swallowed, and the row goes all the same: the files or objects stay,
  and nothing refers to them any more (`DeletePath`, `DeleteDirectory`, `DeleteFiles`; `kept`).
* Clearing the cache ends a response whose segments were all cached when it began: `read_bytes` raises
  `FileNotFoundError`, or the response has no storage back end (`ReadFile`, `SourceFallback`).
* A response releases the session it finds under the video's id, which may be another response's
  (`LookupSession`).
* A response that is prepared and never iterated leaves its consumer count behind (`Discard`).
* After a failed batch, its indexes stay in flight and the session has left the dictionary; a thread
  restarted by its viewer polls for ever (`EndTransfer`, then `StartThread`).

Library, synchronisation and posters (`LibrarySync` reaches these unless noted; `disturbed` and the
instances of the runs keep them apart from the properties):

* A synchronisation overwrites a row whose edit has not been uploaded yet and marks it clean: the edit is
  lost (`UpdateVideo`).
* An edit that comes while the scheduler is between `upload_file` and `mark_video_manifest_sync_clean`
  (`video_manifest_sync.py:63-68`) is marked clean although what was uploaded does not hold it; it stays
  local until the next edit of that video (`SaveMetadata` between `UploadManifest` and `MarkClean`). The same
  happens to an edit that comes before the upload and writes its manifest file after it.
* In a restored database, where an edit moves the path of a row (the last line of the table), the upload may
  overwrite the manifest and the poster of another video. `CleanIsPublished` is claimed while ids come back:
  at most one stored video has no row, and its id is the next one the table hands out (`IdReturns`, which the
  instances of the runs satisfy).
* A restored poster is encrypted a second time, which leaves the plain picture where an encrypted one is
  expected (`RestorePoster`).
* `replace_video_artwork` deletes the old poster before it looks at the new one (`RemovePicture`,
  `EditRaises`). A stop between `update_video_metadata` and the rewriting of the manifest lets the
  scheduler upload the old manifest and mark the row clean (`SaveMetadata`, `Restart`).
* A tags request writes back the title it read (`ReceiveEdit`); a title edited meanwhile is lost.
* Not in the model: a synchronisation makes hidden rows visible (`repositories/videos.py:250-298`); a video
  deleted between its upload and `mark_video_manifest_sync_clean` ends the
  scheduler's thread; two synchronisations at once create rows twice; a cache root that is moved back
  brings old manifests with it.

Segment cache:

* Two enforcements at once count the same bytes and evict twice as much (`Evict`; `gone` of the later one
  says how much), and what is written after an enforcement has measured stays over the limit (`came`).
* A directory that could not be emptied is taken off the total with all its bytes (`cache_eviction.py:57-60`
  and `113`): the enforcement stops early, over the limit by what resisted.
* An exception in the removal of a directory, and two refreshes of one video that overlap, leave a row that
  misstates the files until the next refresh (`RemoveRaises`, `Store`; `stale`).
* Two requests may both find no cache job and create one each (`QueueCache`, `CreateJob`).

Uploads:

* Two threads without a token may use one refresh token; the second is refused, and its upload fails the
  import (`ReadRefreshToken`, `Refresh`). A refresh whose reply is lost loses the authorisation
  (`RefreshFails`).
* The refresh token is committed twice (`storage/baidu.py:163`, `services/baidu_oauth.py:105`). A second thread
  that has found no access token, reads the new refresh token between the two, refreshes with it and stores its
  successor is overwritten by the second write of the first: the table holds a token the service has already
  taken, no reply lost, and the authorisation is gone with the next restart or expiry (`ReadRefreshToken` with
  a thread at `again`, then `StoreTokenAgain`). `TokenIsKept` excepts it through `token.crossed`.
* `get_file_size` takes every failure for a missing object (`Give`): an object that is there is uploaded
  again.
* Not in the model: the manifest is uploaded outside the pool, so that a refusal that would defer a segment
  fails the job.

Reports:

* Of two reports on one session that overlap, one is lost (`Update`).
* A report on one video writes the analytics of all others back as it listed them, and undoes what their
  viewers' reports have just written, until the next one (`WriteScore`).
* A report fails when any video it has listed is deleted before its score is written (`ScoreNext`), and when
  two requests create one session (`Create`).

## 7. What is proved

Every safety invariant and every action property that a run checks, and both refinements, are theorems:
they hold for every value of the constants, not only for the instances of section 4. What a theorem assumes
beyond the named assumptions of its module is in the last column; nothing else is taken for granted.

| Module | Theorem | Property | Only if |
|---|---|---|---|
| `ImportWorkerProofs` | `TypeCorrect`, `QueueIsMirrored`, `OneRunningJob`, `FlagsAgree`, `DeletesAreOwned` | `TypeOK`, `QueueMirrorsScheduled`, `RunningIsProcessing`, `CancelFlagAgrees`, `QueuedDeleteIsOwned` | |
| | `DeletionsRefine` | `DeletionsAreTasks` (refinement of `DeleteTasks`) | |
| `ImportPipelineProofs` | `PipelineTypeCorrect`, `PipelineNoCopies`, `PipelineGoneLeavesNothing`, `PipelineHiddenIsReachable` | `TypeOK`, `NoCopies`, `GoneLeavesNothing`, `HiddenIsReachable` | |
| | `PipelineManifestIsLast` | `ManifestIsLast` | `~MayTearFiles` |
| | `PipelineListedIsStored` | `ListedIsStored` | `~MayTearFiles`, `MaxReplaced = 0` |
| `PlaybackProofs` | `PlaybackTypeCorrect`, `PlaybackOneDownloader`, `PlaybackReadsFromRemote`, `PlaybackNoBatchUnused`, `PlaybackNothingSkipped` | `TypeOK`, `OneDownloader`, `ReadsFromRemote`, `NoBatchUnused`, `NothingSkipped` | |
| `LibrarySyncProofs` | `LibraryTypeCorrect` | `TypeOK` | |
| | `LibraryCleanIsPublished` | `CleanIsPublished` | `IdReturns` |
| `SegmentCacheProofs` | `CacheTypeCorrect`, `CacheEntryIsTrue`, `CacheWorkerFindsSegments`, `CacheEvictsToLimit` | `TypeOK`, `EntryIsTrue`, `WorkerFindsSegments`, `EvictsToLimit` | |
| `TransfersProofs` | `TransfersTypeCorrect`, `RefreshTokenIsKept` | `TypeOK`, `TokenIsKept` | |
| | `TransfersKeepPromise` | `KeepsPromise` (refinement of `TransferTasks`) | |
| `WatchSessionsProofs` | `WatchTypeCorrect`, `WatchPlayIsEarned`, `WatchNoSecondsInvented`, `WatchAloneIsExact`, `WatchHighlightIsPeak`, `WatchLikesAreKept` | `TypeOK`, `PlayIsEarned`, `NoSecondsInvented`, `AloneIsExact`, `HighlightIsPeak`, `LikesAreKept` | |

The conditions of the last column are those under which TLC checks the property, and without them the code
violates it: each is a behaviour of section 6 (a file whose writing broke off, a source that was replaced, ids
that a restored database hands out anew). What a property itself excepts (`disturbed`, `strayed`, `kept`,
`lost`, `crossed`, `stale`) is said with it in section 4. The
`...AlwaysInv` and `...AlwaysSound` theorems state the inductive invariants themselves.

The assumptions on constants (`TableAssumption`, `WorkerAssumption`, `PipelineAssumption`,
`PlaybackAssumption`, `LibraryAssumption`, `CacheAssumption`, `TransferAssumption`, `WatchAssumption`) give
their kinds: bounds are naturals, sets of rows are finite where the code counts them, and a marker is not
one of the things it marks. `NoneAssumption` says the last of `None` in `LibrarySync` and `WatchSessions`.

### 7.1 The arguments

Each argument is an inductive invariant, proved action by action; most lemmas say that one action keeps one
part of it.

* **`ImportWorker`**: `QueueMirrorsScheduled`, `RunningIsProcessing`, `CancelFlagAgrees`, and what these need
  to be inductive: ids in memory belong to rows that were inserted (`JobsAreBorn`), handlers that will cancel
  or requeue hold no deletion (`HandlersSpareDeletes`), no deletion is cancelled (`DeletesAreNotCancelled`),
  where the thread is determines the status of the deletion it executes (`DeleteIsFollowed`), a deletion
  about to be enqueued is in no id set (`FreshDeletes`), and `QueuedDeleteIsOwned`. `CancelFlagAgrees` holds
  in spite of the stale writes because each `UPDATE` sets flag and status together, or leaves both to an
  expression of the other. Every step maps to a step of `DeleteTasks` or leaves its phases alone; that two
  deletions never run at once is `RunningIsProcessing`.
* **`ImportPipeline`**: where the job is determines what has been done of its video (`RunInv`, `ThisInv`); a
  video belongs to one import until it is listed (`OwnerInv`), and all that is stored of it was cut from the
  source of that import (`PureInv`, the part that a replaced source breaks). `VideosInv` says what follows
  for videos nobody works on, `EndInv` what a run that ends has done with its video as long as nothing went
  wrong. `NoCopies` and `HiddenIsReachable` are inductive only together with these.
* **`Playback`**: a session that is not the video's any more has been stopped or will never begin another
  batch (`SessionsInv`, `Spent`), because a failed batch stays in flight for ever. `OneDownloader` rests on
  that. `CurrentInv` bounds the consumer count by the responses that use the session. `SentInv` reads off the
  place of a response what it has sent.
* **`SegmentCache`**: a row that misstates the files is remembered (`EntryInv`), a count that has grown old
  while it waits to be stored is remembered by somebody else (`CountInv`), what the worker fetched is there
  or somebody removed it (`WorkerHas`, `Hidden`), and an enforcement knows the size of the cache up to what
  came and went since it measured (`EvictInv`), for which sums over the videos have to change by the size
  of one video.
* **`Transfers`**: a task is in exactly one place: it waits, a thread works on it, it is deferred, it is
  reported, or its error has ended the pool (`EachOnce`, `NoneForgotten`, `ThreadsServe`, `DoneHaveEnded`,
  `EndsWell`). `TokenInv`: while no reply is lost and nobody has read the table
  between two writes, at most one thread is about to write a token, before its first write it has read the
  token in the table and brings its successor, which is the one the service takes, and before its second that
  one is in the table and no thread that refreshes has read it.
* **`LibrarySync`**: processes work on rows that are there (`Sound`). While ids come back, a row, its
  manifest, its picture and its directory have the same number (`Own`). At a row nobody disturbed there is
  at most one process, the file, the manifest and the picture are what that process has left of them so far,
  and at rest the row is clean and published, or dirty with a file to upload that is up to date
  (`KeptInv`). What the synchronisation is about to insert is what the remote says (`PayloadInv`).
* **`WatchSessions`**: tokens have sessions of different ids (`IdsDiffer`); what a request is about to write
  is no more than what was reported (`NoneInvented`) and counts as a play exactly when it is enough
  (`AllEarned`); what it has computed or listed was reported for the sessions the video has
  (`BackedInv`: sums over sessions are compared with sums over their tokens); a report that is alone holds
  what the sessions say (`AloneInv`). For `HighlightIsPeak` the heat of a bucket is shown to be the number
  of pairs of a session and a second it covers, by counting along one session at a time.

`SumTheorems` carries what the last two kinds of argument need. The library's induction theorems take an
operator as a parameter, which the provers cannot instantiate; so induction is stated over a set (of subsets, of
numbers) and derived from the well-foundedness of the order. `MapThenSumSet` is shown to have a solution of
its recursion, the solution to be unique, and the sum to be independent of the order, monotonic in the
summands and the set, and invariant under renaming.

### 7.2 Model-checked only

The liveness properties, for the prover handles neither liveness under fairness nor `ENABLED`:
`DeleteIsFinished` and `QueueDrains` (run `jobs_liveness`), `PrefetchStops` and `WindowIsFetched`
(`prefetch_liveness`), `DirtyIsCleaned` and `EditsArrive` (`library_sync`), `PoolReturns` (`transfers`).

## 8. What is not modelled

* Text, progress figures, transfer statistics, the extraction of covers, the encryption of segments.
* SQLite failing inside the worker's `except` block in addition to the failure that led there.
* The overlap of requests with each other in `ImportPipeline` (they overlap in `ImportWorker`).
* The end of uploads that are in flight when another upload raises: `ImportPipeline` takes them before the
  exception; `Transfers` has them.
* Source files of different lengths in `ImportPipeline`: with another length a remote object of the old
  file would not match and would be uploaded again.
* Deletions and imports beside edits and synchronisations (`LibrarySync`), more than one editor or
  synchronisation at a time: the state of three such actors on two videos is beyond what TLC explores in
  minutes.
* Rounding in the heat map, fractions of seconds, and all weights of the recommendation but the play count.
* Downloads, listing and deleting of the Baidu client and the first authorisation; expiry of an access token.
* Settings, key file, process control, schema migration, data archive, smoke test, pages, schemas and front
  end: marked `not_modelled` in `PROJECT.json`, with their reasons.

## 9. Plan

1. **Proofs**: a weaker condition than `IdReturns` under which `CleanIsPublished` holds video by video; a
   version of `ListedIsStored` for videos whose own source was not replaced.
2. **`RangeMap`**: the arithmetic of ranges and of the chunker as functions, with a proof that the slices of a
   range cover it in order without overlap.
3. **`ShutdownControl`**, **`ContentKey`**, **`SettingsStore`**, **`SchemaMigration`**: small modules for the
   hazards that no property covers yet; each takes the place of a run that a proof makes dispensable.
4. **`Catalog`**: `LibrarySync`'s synchronisation composed with the imports and deletions of
   `ImportPipeline` and a fresh database.
