----------------------------- MODULE ImportJobs -----------------------------
(***************************************************************************)
(* The import_jobs table and the repository functions that write it        *)
(* (src/src/app/repositories/import_jobs.py).  Every repository function   *)
(* opens its own SQLite connection, so one SQL transaction is one step; a  *)
(* function that first reads the row and then updates it is two steps, and *)
(* the modules that use this one give it two actions.                      *)
(*                                                                         *)
(* A row keeps the columns that decide what happens next: the kind, the    *)
(* status, cancel_requested and target_video_id.  Progress, messages,      *)
(* titles and transfer statistics are display data and are left out.       *)
(***************************************************************************)
EXTENDS Naturals, FiniteSets

CONSTANTS MaxJobs,  (* bound: ids the AUTOINCREMENT column hands out         *)
          Videos,   (* ids of the videos in the library at the start         *)
          NoVideo   (* the NULL of target_video_id                           *)

ASSUME TableAssumption ==
    /\ MaxJobs \in Nat \ {0}
    /\ NoVideo \notin Videos

VARIABLES jobs,     (* the import_jobs table                                 *)
          videos    (* the ids in the videos table                           *)

table == <<jobs, videos>>

JobIds == 1..MaxJobs

Kinds == {"import", "cache", "delete"}

Active   == {"queued", "running", "cancelling"}
Finished == {"completed", "failed", "cancelled"}
Failed   == {"failed", "cancelled"}

\* An id without a row is "unborn" before its INSERT and "gone" after its
\* DELETE: AUTOINCREMENT never hands an id out twice.
Statuses == Active \cup Finished \cup {"unborn", "gone"}

Row == [kind : Kinds, status : Statuses, cancel : BOOLEAN,
        target : Videos \cup {NoVideo}]

\* The foreign key: a target is a video of the library.
TableTypeOK == /\ jobs \in [JobIds -> Row]
               /\ videos \in SUBSET Videos
               /\ \A j \in JobIds : jobs[j].target \in videos \cup {NoVideo}

TableInit ==
    /\ jobs = [j \in JobIds |-> [kind |-> "import", status |-> "unborn",
                                 cancel |-> FALSE, target |-> NoVideo]]
    /\ videos = Videos

-----------------------------------------------------------------------------

Exists(j) == jobs[j].status \in Active \cup Finished

IsDelete(j) == jobs[j].kind = "delete"

\* INSERT: the next id, status queued, nothing cancelled.
Insert(j, kind, video) ==
    /\ jobs[j].status = "unborn"
    /\ \A k \in JobIds : k < j => jobs[k].status # "unborn"
    /\ jobs' = [jobs EXCEPT ![j] = [kind |-> kind, status |-> "queued",
                                    cancel |-> FALSE, target |-> video]]

\* _update_import_job.  An UPDATE of a missing row changes nothing; the
\* function then raises ImportJobNotFoundError, which the caller models by
\* what it does next when ~Exists(j).
UpdateJob(j, status, cancel) ==
    jobs' = IF Exists(j)
            THEN [jobs EXCEPT ![j].status = status, ![j].cancel = cancel]
            ELSE jobs

MarkRunning(j)   == UpdateJob(j, "running", FALSE)
MarkFailed(j)    == UpdateJob(j, "failed", FALSE)
MarkCompleted(j) == UpdateJob(j, "completed", FALSE)
MarkCancelled(j) == UpdateJob(j, "cancelled", TRUE)

\* The UPDATE of update_import_job_progress, with the flag its SELECT saw.
WriteProgress(j, seen) ==
    UpdateJob(j, IF seen THEN "cancelling" ELSE "running", seen)

\* The UPDATE of request_cancel_job for a row its SELECT saw queued, and for
\* a row it saw running or cancelling.
CancelQueued(j) == MarkCancelled(j)
CancelStarted(j) == UpdateJob(j, "cancelling", TRUE)

\* Mutated form of Requeue: cancel_requested is not reset.
RequeueKeepingCancel(j) == UpdateJob(j, "queued", jobs[j].cancel)

\* The UPDATE of retry_import_job.
Requeue(j) == UpdateJob(j, "queued", FALSE)

\* Mutated form of CancelAllActive: job_kind is not looked at.
CancelAllActiveDeletesToo ==
    jobs' = [j \in JobIds |->
        IF jobs[j].status \notin Active THEN jobs[j]
        ELSE [jobs[j] EXCEPT !.status = IF jobs[j].status = "queued"
                                        THEN "cancelled" ELSE "cancelling",
                             !.cancel = TRUE]]

\* request_cancel_all_active_jobs: both statements, one transaction.
CancelAllActive ==
    jobs' = [j \in JobIds |->
        IF IsDelete(j) \/ jobs[j].status \notin Active THEN jobs[j]
        ELSE [jobs[j] EXCEPT !.status = IF jobs[j].status = "queued"
                                        THEN "cancelled" ELSE "cancelling",
                             !.cancel = TRUE]]

\* delete_import_jobs_by_statuses.
DeleteRows(statuses) ==
    jobs' = [j \in JobIds |->
        IF jobs[j].status \in statuses
        THEN [jobs[j] EXCEPT !.status = "gone", !.cancel = FALSE, !.target = NoVideo]
        ELSE jobs[j]]

\* Mutated form of MarkInterrupted: only jobs being cancelled are failed.
MarkInterruptedCancelling ==
    jobs' = [j \in JobIds |->
        IF jobs[j].status = "cancelling"
        THEN [jobs[j] EXCEPT !.status = "failed", !.cancel = FALSE]
        ELSE jobs[j]]

\* mark_running_import_jobs_interrupted.
MarkInterrupted ==
    jobs' = [j \in JobIds |->
        IF jobs[j].status \in {"running", "cancelling"}
        THEN [jobs[j] EXCEPT !.status = "failed", !.cancel = FALSE]
        ELSE jobs[j]]

\* find_active_delete_job and find_active_cache_job found a row.
ActiveJobFor(kind, video) ==
    \E j \in JobIds : /\ jobs[j].kind = kind
                      /\ jobs[j].target = video
                      /\ jobs[j].status \in Active

\* list_import_job_ids_by_status for queued jobs, and a mutated form that
\* lists the queued imports only.
QueuedImportIds == {j \in JobIds : jobs[j].status = "queued" /\ jobs[j].kind = "import"}

QueuedIds == {j \in JobIds : jobs[j].status = "queued"}

\* Mutated form of RemoveVideo: target_video_id without ON DELETE SET NULL.
RemoveVideoOnly(video) ==
    /\ videos' = videos \ {video}
    /\ UNCHANGED jobs

\* DELETE FROM videos: the foreign key sets target_video_id to NULL.
RemoveVideo(video) ==
    /\ videos' = videos \ {video}
    /\ jobs' = [j \in JobIds |->
           IF jobs[j].target = video
           THEN [jobs[j] EXCEPT !.target = NoVideo] ELSE jobs[j]]

=============================================================================
