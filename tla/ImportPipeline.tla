--------------------------- MODULE ImportPipeline ---------------------------
(***************************************************************************)
(* What an import and a deletion do to the library: the rows of videos and *)
(* video_segments, the staged segment files and the objects in remote      *)
(* storage (services/imports.py, services/video_delete.py), over the table *)
(* of ImportJobs.  The jobs run one after the other, as on the thread of   *)
(* ImportWorker; here any queued job may be the next.  A request reads and *)
(* updates its row in one step: the races of doing it in two are the       *)
(* subject of ImportWorker.                                                *)
(*                                                                         *)
(* A step is one SQL transaction or one operation on a file or a remote    *)
(* object.  throw_if_cancel_requested is taken together with the step that *)
(* follows it: a cancellation between the two cannot be told from one      *)
(* after both.  A segment is known by its content, the source file it was  *)
(* cut from.  All source files have the same length, so that remote        *)
(* objects of the same segment always agree in size.                       *)
(***************************************************************************)
EXTENDS ImportJobs, FiniteSetsExt

CONSTANTS NumSegments,  (* segments of a source file                         *)
          Contents,     (* contents of source files                          *)
          NoContent,    (* no file, no object, no row, no fingerprint        *)
          Torn,         (* a file or object whose writing broke off: shorter *)
          MaxFailures,  (* bound: exceptions, of the disk, SQLite or network *)
          MaxKept,      (* bound: removals by deletions that fail            *)
          MaxRestarts,  (* bound: restarts of the server process             *)
          MaxClears,    (* bound: clear_video_cache requests                 *)
          MaxReplaced,  (* bound: source files replaced before a retry       *)
          MayClearJobs, (* finished jobs are cleared from the table          *)
          MayTearFiles  (* writing a segment file breaks off half way        *)

ASSUME PipelineAssumption ==
    /\ NumSegments \in Nat \ {0}
    /\ NoContent \notin Contents /\ Torn \notin Contents \cup {NoContent}
    /\ {MaxFailures, MaxKept, MaxRestarts, MaxClears, MaxReplaced} \subseteq Nat
    /\ {MayClearJobs, MayTearFiles} \subseteq BOOLEAN

VARIABLES lib,          (* the videos, their segments, files and objects     *)
          born,         (* the video ids handed out so far                   *)
          source,       (* the content at the source path of a job           *)
          run,          (* the job that is running                           *)
          doomed,       (* history: videos whose deletion has begun          *)
          strayed,      (* history: hidden videos that lost their job        *)
          failures, restarts, clears, replaced

counters == <<failures, restarts, clears, replaced>>
library == <<lib, born, doomed, strayed>>
vars == <<jobs, videos, lib, born, source, run, doomed, strayed, counters>>

Segments == 1..NumSegments
Manifest == 0       \* the remote manifest, next to the segments
Objects == Segments \cup {Manifest}
Directory == NumSegments + 1    \* the remote directory of a video
Files == NumSegments + 2        \* its local directory
Items == Objects \cup {Directory, Files}
NoJob == 0

Content == Contents \cup {NoContent}
Cut == [Segments -> Content]
Bytes == [Segments -> Content \cup {Torn}]
Nothing == [s \in Segments |-> NoContent]

Video == [visible  : BOOLEAN,   (* is_visible                                *)
          path     : BOOLEAN,   (* manifest_path is set                      *)
          print    : Cut,       (* content_fingerprint                       *)
          row      : Cut,       (* video_segments                            *)
          file     : Bytes,     (* the segment files                         *)
          remote   : Bytes,     (* the segment objects                       *)
          manifest : BOOLEAN,   (* the manifest object exists                *)
          kept     : SUBSET Items]
                    (* history: what its last deletion could not remove      *)

NewVideo == [visible |-> TRUE, path |-> FALSE, print |-> Nothing, row |-> Nothing,
             file |-> Nothing, remote |-> Nothing, manifest |-> FALSE, kept |-> {}]

\* Where a job is.  From "probe" to "cover" an import is inside its try.
Trying == {"probe", "create", "hide", "stage", "insert", "fingerprint",
           "manifest", "upload", "uploadManifest", "cover"}
Finalizing == {"publish", "untarget", "complete"}
Preserving == {"preserve", "target"}
Deleting == {"delete", "paths", "directory", "files", "row"}
Pc == {"idle"} \cup Trying \cup Finalizing \cup Preserving \cup Deleting \cup {"fail", "cancel"}

Run == [pc : Pc, job : JobIds \cup {NoJob}, video : Videos \cup {NoVideo},
        todo : SUBSET Objects]
IdleRun == [pc |-> "idle", job |-> NoJob, video |-> NoVideo, todo |-> {}]

Init ==
    /\ jobs = [j \in JobIds |-> [kind |-> "import", status |-> "unborn",
                                 cancel |-> FALSE, target |-> NoVideo]]
    /\ videos = {}
    /\ lib = [v \in Videos |-> [NewVideo EXCEPT !.visible = FALSE]]
    /\ born = {}
    /\ source = [j \in JobIds |-> NoContent]
    /\ run = IdleRun
    /\ doomed = {} /\ strayed = {}
    /\ failures = 0 /\ restarts = 0 /\ clears = 0 /\ replaced = 0

-----------------------------------------------------------------------------
(* process_import_job.                                                     *)

At(pc) == run.pc = pc
Goto(pc) == run' = [run EXCEPT !.pc = pc]
GotoWith(pc, todo) == run' = [run EXCEPT !.pc = pc, !.todo = todo]

CancelSeen == jobs[run.job].cancel
This == lib[run.video]
SetThis(video) == lib' = [lib EXCEPT ![run.video] = video]

\* The video without the files of some segments.
Without(video, segments) ==
    [video EXCEPT !.file = [s \in Segments |-> IF s \in segments THEN NoContent ELSE @[s]]]

\* Steps that change one part of the state only.
OnlyRun == UNCHANGED <<table, library, source, counters>>
OnlyVideo == UNCHANGED <<table, born, doomed, strayed, source, counters>>
OnlyJob == UNCHANGED <<videos, library, source, counters>>

StartImport(j) ==
    /\ At("idle")
    /\ jobs[j].kind = "import" /\ jobs[j].status = "queued"
    /\ MarkRunning(j)
    /\ run' = [IdleRun EXCEPT !.pc = "probe", !.job = j]
    /\ OnlyJob

\* validate_import_request: the source file is no longer there.
RejectImport(j) ==
    /\ At("idle")
    /\ jobs[j].kind = "import" /\ jobs[j].status = "queued"
    /\ MarkFailed(j)
    /\ OnlyJob /\ UNCHANGED run

\* The points at which throw_if_cancel_requested is called.
CancelPoints == {"probe", "stage", "manifest", "upload", "cover", "publish"}

SeeCancel ==
    /\ run.pc \in CancelPoints
    /\ CancelSeen
    /\ Goto(IF run.video = NoVideo THEN "cancel" ELSE "delete")
    /\ OnlyRun

\* probe_video, which may find that the file is no video.
Probe ==
    /\ At("probe") /\ ~CancelSeen
    /\ \E pc \in {"create", "fail"} : Goto(pc)
    /\ OnlyRun

\* _reuse_or_create_video_from_probe: the video a retried job left behind,
\* or a new one, which create_video inserts as visible.
ReuseVideo ==
    /\ At("create")
    /\ jobs[run.job].target # NoVideo
    /\ run' = [run EXCEPT !.pc = "stage", !.video = jobs[run.job].target, !.todo = Segments]
    /\ lib' = [lib EXCEPT ![jobs[run.job].target].visible = FALSE]
    /\ OnlyVideo

CreateVideo ==
    /\ At("create")
    /\ jobs[run.job].target = NoVideo
    /\ \E v \in Videos \ born :
          /\ videos' = videos \cup {v}
          /\ born' = born \cup {v}
          /\ lib' = [lib EXCEPT ![v] = NewVideo]
          /\ run' = [run EXCEPT !.pc = "hide", !.video = v]
    /\ UNCHANGED <<jobs, doomed, strayed, source, counters>>

HideVideo ==
    /\ At("hide")
    /\ SetThis([This EXCEPT !.visible = FALSE])
    /\ GotoWith("stage", Segments)
    /\ OnlyVideo

\* _materialize_encrypted_segments, one chunk: a segment with a row keeps its
\* file, and a missing file is encrypted again from the source.
KeepsFile(s) == This.row[s] # NoContent /\ This.file[s] # NoContent

StageSegment ==
    /\ At("stage") /\ ~CancelSeen
    /\ LET s == Min(run.todo) IN
       /\ SetThis(IF KeepsFile(s) THEN This
                  ELSE [This EXCEPT !.file[s] = source[run.job]])
       /\ GotoWith(IF run.todo = {s} THEN "insert" ELSE "stage", run.todo \ {s})
    /\ OnlyVideo

\* write_bytes raises when the file is half written.
TearFile ==
    /\ MayTearFiles
    /\ failures < MaxFailures
    /\ failures' = failures + 1
    /\ At("stage") /\ ~CancelSeen
    /\ LET s == Min(run.todo) IN
       ~KeepsFile(s) /\ SetThis([This EXCEPT !.file[s] = Torn])
    /\ Goto("preserve")
    /\ UNCHANGED <<table, born, doomed, strayed, source, restarts, clears, replaced>>

\* create_video_segments: the rows that are missing, in one transaction.
InsertSegments ==
    /\ At("insert")
    /\ SetThis([This EXCEPT !.row = [s \in Segments |->
                   IF @[s] = NoContent THEN source[run.job] ELSE @[s]]])
    /\ Goto("fingerprint")
    /\ OnlyVideo

\* find_video_duplicate_by_fingerprint looks at hidden videos too.
Duplicates == {v \in videos \ {run.video} : lib[v].print = This.row}

\* Mutated form of SetFingerprint: the library is not searched.
SetFingerprintUnchecked ==
    /\ At("fingerprint")
    /\ SetThis([This EXCEPT !.print = This.row])
    /\ Goto("manifest")
    /\ OnlyVideo

SetFingerprint ==
    /\ At("fingerprint")
    /\ Duplicates = {}
    /\ SetThis([This EXCEPT !.print = This.row])
    /\ Goto("manifest")
    /\ OnlyVideo

RefuseDuplicate ==
    /\ At("fingerprint")
    /\ Duplicates # {}
    /\ Goto("preserve")
    /\ OnlyRun

WriteManifest ==
    /\ At("manifest") /\ ~CancelSeen
    /\ SetThis([This EXCEPT !.path = TRUE])
    /\ GotoWith("upload", Segments)
    /\ OnlyVideo

\* _remote_artifact_matches_size, and a mutated form that takes an object of
\* any size for uploaded.
RemoteExists(s) == This.remote[s] # NoContent

RemoteMatches(s) ==
    /\ This.remote[s] # NoContent
    /\ (This.remote[s] = Torn) = (This.file[s] = Torn)

\* _upload_remote_artifacts: the segments in any order, and a cancellation
\* does not stop those in flight.  An object of the right size is not sent
\* again, and a frequency control error puts the segment off.  After an
\* exception the uploads in flight still end; they are taken before it.
UploadSegment ==
    /\ At("upload")
    /\ \E s \in run.todo :
          /\ This.file[s] # NoContent
          /\ SetThis(IF RemoteMatches(s) THEN This
                     ELSE [This EXCEPT !.remote[s] = This.file[s]])
          /\ GotoWith(IF run.todo = {s} THEN "uploadManifest" ELSE "upload",
                      run.todo \ {s})
    /\ OnlyVideo

\* An upload breaks off and leaves a part of the object.
TearObject ==
    /\ failures < MaxFailures
    /\ failures' = failures + 1
    /\ At("upload")
    /\ \E s \in run.todo :
          /\ This.file[s] # NoContent /\ ~RemoteMatches(s)
          /\ SetThis([This EXCEPT !.remote[s] = Torn])
    /\ Goto("preserve")
    /\ UNCHANGED <<table, born, doomed, strayed, source, restarts, clears, replaced>>

\* Mutated form of UploadMissing: a segment without a file is passed over.
UploadMissingSkipped ==
    /\ At("upload")
    /\ \E s \in run.todo :
          /\ This.file[s] = NoContent
          /\ GotoWith(IF run.todo = {s} THEN "uploadManifest" ELSE "upload",
                      run.todo \ {s})
    /\ OnlyRun

\* The segment file has gone: stat() raises.
UploadMissing ==
    /\ At("upload")
    /\ \E s \in run.todo : This.file[s] = NoContent
    /\ Goto("preserve")
    /\ OnlyRun

UploadManifest ==
    /\ At("uploadManifest")
    /\ SetThis([This EXCEPT !.manifest = TRUE])
    /\ Goto("cover")
    /\ OnlyVideo

\* The cover, the cache row, and the eviction of files of other videos that
\* are in the library's list: of some of them, where removing one fails.
ExtractCover ==
    /\ At("cover") /\ ~CancelSeen
    /\ \E evicted \in SUBSET ({v \in videos \ {run.video} : lib[v].visible} \X Segments) :
          lib' = [v \in Videos |-> Without(lib[v], {s \in Segments : <<v, s>> \in evicted})]
    /\ Goto("publish")
    /\ OnlyVideo

\* _finalize_successful_retry: two transactions; then the job is completed.
PublishVideo ==
    /\ At("publish") /\ ~CancelSeen
    /\ SetThis([This EXCEPT !.visible = TRUE])
    /\ Goto("untarget")
    /\ OnlyVideo

ClearTarget ==
    /\ At("untarget")
    /\ jobs' = [jobs EXCEPT ![run.job].target = NoVideo]
    /\ Goto("complete")
    /\ OnlyJob

Complete ==
    /\ At("complete")
    /\ MarkCompleted(run.job)
    /\ run' = IdleRun
    /\ OnlyJob

\* _preserve_failed_import_state: two transactions; then the job is failed.
HideFailed ==
    /\ At("preserve")
    /\ SetThis([This EXCEPT !.visible = FALSE])
    /\ Goto("target")
    /\ OnlyVideo

\* Mutated form of TargetFailed: the job does not remember the video.
TargetFailedForgetting ==
    /\ At("target")
    /\ Goto("fail")
    /\ OnlyRun

TargetFailed ==
    /\ At("target")
    /\ jobs' = [jobs EXCEPT ![run.job].target = run.video]
    /\ Goto("fail")
    /\ OnlyJob

Fail ==
    /\ At("fail")
    /\ MarkFailed(run.job)
    /\ run' = IdleRun
    /\ OnlyJob

Cancelled ==
    /\ At("cancel")
    /\ MarkCancelled(run.job)
    /\ run' = IdleRun
    /\ OnlyJob

-----------------------------------------------------------------------------
(* delete_library_video: the body of a deletion, and what a cancelled      *)
(* import does with its video.                                             *)

StartDelete(j) ==
    /\ At("idle")
    /\ IsDelete(j) /\ jobs[j].status = "queued"
    /\ IF jobs[j].target = NoVideo
       THEN MarkFailed(j) /\ UNCHANGED run
       ELSE /\ MarkRunning(j)
            /\ run' = [IdleRun EXCEPT !.pc = "delete", !.job = j, !.video = jobs[j].target]
    /\ OnlyJob

\* The end of delete_library_video, and where its exceptions lead.
EndDelete == IF IsDelete(run.job) THEN "complete" ELSE "cancel"
DeleteRaises == IF IsDelete(run.job) THEN "fail" ELSE "cancel"

\* _collect_remote_paths: the manifest path and the paths of the rows.
CollectPaths ==
    /\ At("delete")
    /\ LET paths == {s \in Segments : This.row[s] # NoContent}
                    \cup (IF This.path THEN {Manifest} ELSE {}) IN
       GotoWith(IF paths = {} THEN "files" ELSE "paths", paths)
    /\ SetThis([This EXCEPT !.kept = {}])
    /\ doomed' = doomed \cup {run.video}
    /\ UNCHANGED <<table, born, strayed, source, counters>>

Found(video, object) ==
    IF object = Manifest THEN video.manifest ELSE video.remote[object] # NoContent

WithoutObject(video, object) ==
    IF object = Manifest THEN [video EXCEPT !.manifest = FALSE]
    ELSE [video EXCEPT !.remote[object] = NoContent]

\* A removal that fails, and is swallowed.
MayFail == Cardinality({x \in Videos \X Items : x[2] \in lib[x[1]].kept}) < MaxKept
Keep(item) == [This EXCEPT !.kept = @ \cup {item}]

\* _delete_remote_paths_best_effort: each path, then the directory.  An
\* exception leaves the object where it is and is swallowed.
DeletePath ==
    /\ At("paths")
    /\ \E object \in run.todo :
          /\ \/ SetThis(WithoutObject(This, object))
             \/ MayFail /\ SetThis(Keep(object))
          /\ GotoWith(IF run.todo = {object} THEN "directory" ELSE "paths",
                      run.todo \ {object})
    /\ OnlyVideo

DeleteDirectory ==
    /\ At("directory")
    /\ \/ SetThis([This EXCEPT !.remote = Nothing, !.manifest = FALSE])
       \/ MayFail /\ SetThis(Keep(Directory))
    /\ Goto("files")
    /\ OnlyVideo

\* Mutated form of DeleteFiles: only the files of segments that have a row.
DeleteFilesOfRows ==
    /\ At("files")
    /\ SetThis(Without(This, {s \in Segments : This.row[s] # NoContent}))
    /\ Goto("row")
    /\ OnlyVideo

\* _delete_local_artifacts: rmtree goes on where it cannot remove a file.
DeleteFiles ==
    /\ At("files")
    /\ \/ SetThis(Without(This, Segments))
       \/ /\ MayFail
          /\ \E removed \in SUBSET Segments :
                removed # Segments /\ SetThis(Without(Keep(Files), removed))
    /\ Goto("row")
    /\ OnlyVideo

\* delete_video: the segments' rows go with the video's.
DeleteRow ==
    /\ At("row")
    /\ RemoveVideo(run.video)
    /\ SetThis([This EXCEPT !.visible = FALSE, !.path = FALSE,
                            !.print = Nothing, !.row = Nothing])
    /\ strayed' = strayed \ {run.video}
    /\ Goto(EndDelete)
    /\ UNCHANGED <<born, doomed, source, counters>>

-----------------------------------------------------------------------------
(* What goes wrong, and what users do meanwhile.                           *)

\* The hidden video of a job that does not remember it yet.
Untracked == {v \in videos : v = run.video /\ ~lib[v].visible /\ jobs[run.job].target # v}

\* An exception (SQLite, the disk, the network).  While a new video is being
\* hidden the variable video is still None, and the video is not preserved;
\* an exception of the finalisation reaches the worker, which fails the job.
Raise ==
    /\ run.pc \notin {"idle", "fail", "cancel"}
    /\ failures < MaxFailures
    /\ failures' = failures + 1
    /\ LET pc == CASE run.pc \in {"probe", "create", "hide"} -> "fail"
                   [] run.pc \in Deleting -> DeleteRaises
                   [] run.pc \in Preserving \cup Finalizing -> "fail"
                   [] OTHER -> "preserve" IN
       /\ Goto(pc)
       /\ strayed' = IF pc = "preserve" THEN strayed ELSE strayed \cup Untracked
    /\ UNCHANGED <<table, lib, born, doomed, source, restarts, clears, replaced>>

Restart ==
    /\ restarts < MaxRestarts
    /\ restarts' = restarts + 1
    /\ MarkInterrupted
    /\ run' = IdleRun
    /\ strayed' = strayed \cup Untracked
    /\ UNCHANGED <<videos, lib, born, doomed, source, failures, clears, replaced>>

QueueImport(j) ==
    /\ Insert(j, "import", NoVideo)
    /\ \E c \in Contents : source' = [source EXCEPT ![j] = c]
    /\ UNCHANGED <<videos, library, run, counters>>

QueueDelete(j) ==
    /\ \E v \in videos :
          /\ ~ActiveJobFor("delete", v)
          /\ Insert(j, "delete", v)
    /\ OnlyJob /\ UNCHANGED run

\* request_cancel_job.
CancelImport(j) ==
    /\ jobs[j].kind = "import"
    /\ \/ jobs[j].status = "queued" /\ CancelQueued(j)
       \/ jobs[j].status = "running" /\ CancelStarted(j)
    /\ OnlyJob /\ UNCHANGED run

RetryImport(j) ==
    /\ jobs[j].kind = "import"
    /\ jobs[j].status \in Failed
    /\ Requeue(j)
    /\ OnlyJob /\ UNCHANGED run

ClearJobs ==
    /\ MayClearJobs
    /\ \E statuses \in {{"completed"}, Failed} :
          /\ DeleteRows(statuses)
          /\ strayed' = strayed \cup {v \in videos : ~lib[v].visible /\ \E j \in JobIds :
                                          jobs[j].target = v /\ jobs[j].status \in statuses}
    /\ jobs' # jobs
    /\ UNCHANGED <<videos, lib, born, doomed, source, run, counters>>

\* clear_video_cache takes the id of any video, and raises at a file it cannot
\* remove.
ClearCache ==
    /\ clears < MaxClears
    /\ clears' = clears + 1
    /\ \E v \in videos, segments \in SUBSET Segments :
          lib' = [lib EXCEPT ![v] = Without(@, segments)]
    /\ UNCHANGED <<table, born, doomed, strayed, source, run, failures, restarts, replaced>>

\* Another file is put where the source of a failed import was.
ReplaceSource(j) ==
    /\ replaced < MaxReplaced
    /\ replaced' = replaced + 1
    /\ jobs[j].kind = "import" /\ jobs[j].status \in Failed
    /\ \E c \in Contents : source' = [source EXCEPT ![j] = c]
    /\ UNCHANGED <<table, library, run, failures, restarts, clears>>

-----------------------------------------------------------------------------

ImportStep ==
    \/ SeeCancel \/ Probe \/ ReuseVideo \/ CreateVideo \/ HideVideo
    \/ StageSegment \/ TearFile \/ InsertSegments \/ SetFingerprint \/ RefuseDuplicate
    \/ WriteManifest \/ UploadSegment \/ TearObject \/ UploadMissing \/ UploadManifest
    \/ ExtractCover \/ PublishVideo \/ ClearTarget \/ Complete
    \/ HideFailed \/ TargetFailed \/ Fail \/ Cancelled

DeleteStep ==
    \/ CollectPaths \/ DeletePath \/ DeleteDirectory \/ DeleteFiles \/ DeleteRow

Request(j) ==
    \/ QueueImport(j) \/ QueueDelete(j) \/ CancelImport(j)
    \/ RetryImport(j) \/ ReplaceSource(j)

Next ==
    \/ ImportStep
    \/ DeleteStep
    \/ \E j \in JobIds : StartImport(j) \/ RejectImport(j) \/ StartDelete(j) \/ Request(j)
    \/ Raise \/ Restart \/ ClearJobs \/ ClearCache

Spec == Init /\ [][Next]_vars

-----------------------------------------------------------------------------
(* Properties.                                                             *)

\* The types, with what ties the parts together: only videos of the library
\* have rows, a fingerprint or a place in its list, and a deletion that has
\* not begun keeps the target a video of the library.
TypeOK ==
    /\ TableTypeOK
    /\ lib \in [Videos -> Video]
    /\ born \subseteq Videos /\ doomed \subseteq born /\ strayed \subseteq videos
    /\ videos \subseteq born
    /\ source \in [JobIds -> Content]
    /\ run \in Run
    /\ \A v \in Videos \ videos : ~lib[v].visible /\ lib[v].row = Nothing
    /\ failures \in 0..MaxFailures /\ restarts \in 0..MaxRestarts
    /\ clears \in 0..MaxClears /\ replaced \in 0..MaxReplaced

Stored(v) ==
    /\ lib[v].manifest
    /\ \A s \in Segments : lib[v].row[s] # NoContent /\ lib[v].remote[s] = lib[v].row[s]

\* A video whose content has been fingerprinted is listed only when all of
\* its segments and its manifest are in remote storage, whatever failed, was
\* cleared, cancelled, retried or interrupted before (process_import_job
\* publishes after _upload_remote_artifacts).  Not so with MayTearFiles: a
\* retry keeps a segment file whose writing broke off, because it exists.
ListedIsStored ==
    \A v \in videos \ doomed :
        lib[v].visible /\ lib[v].print # Nothing => Stored(v)

\* A manifest in remote storage describes segments that are all there: a
\* catalogue sync may trust it (_upload_remote_artifacts sends it last).
ManifestIsLast ==
    \A v \in born \ doomed :
        lib[v].manifest => \A s \in Segments : lib[v].remote[s] \in Contents

\* Two videos of the library never have the same content
\* (find_video_duplicate_by_fingerprint).
NoCopies ==
    \A v, w \in videos :
        v # w /\ lib[v].print # Nothing => lib[v].print # lib[w].print

\* When the row of a video is gone, what is still there of it is what its last
\* deletion could not remove: an object for which both its own deletion and
\* that of the directory failed, and files in a directory that could not be
\* emptied.  Nothing is forgotten (delete_library_video removes the row last,
\* and an interrupted deletion can be repeated).
GoneLeavesNothing ==
    \A v \in born \ videos :
        /\ \A s \in Segments : lib[v].file[s] # NoContent => Files \in lib[v].kept
        /\ \A o \in Objects : Found(lib[v], o) => {o, Directory} \subseteq lib[v].kept

\* A video that is not listed is being worked on, or a job can resume or
\* delete it (_preserve_failed_import_state, and delete_library_video after a
\* cancellation), whatever was raised or interrupted.  Excepted are the three
\* ways in which the code loses one: during a first attempt an exception in
\* its clean-up or in publishing, or a restart, and at any time the clearing
\* of its job from the table.
HiddenIsReachable ==
    \A v \in videos \ strayed :
        \/ lib[v].visible
        \/ run.video = v
        \/ \E j \in JobIds : jobs[j].target = v /\ jobs[j].status \in Active \cup Failed

\* The existing video that a refused import names is one the user can open
\* from the library.  Not kept by the code and not checked (README, section 6).
DuplicateIsListed == At("fingerprint") => \A v \in Duplicates : lib[v].visible

\* A completed import has imported the file at its source path.  Not kept by
\* the code and not checked (README, section 6).
ImportedTheSource ==
    At("complete") /\ ~IsDelete(run.job) =>
        \A s \in Segments : This.row[s] = source[run.job]

=============================================================================
