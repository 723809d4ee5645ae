---------------------------- MODULE ImportWorker ----------------------------
(***************************************************************************)
(* The background job system: the import_jobs table, the single worker     *)
(* thread of ImportWorker (services/import_worker.py) running the body of  *)
(* an import, cache or delete job, the request handlers of                 *)
(* api/routes/imports.py and of the library routes that queue jobs (sync   *)
(* handlers, so they run concurrently in a thread pool), and the restart   *)
(* of the server process.                                                  *)
(*                                                                         *)
(* A step is one SQL transaction, one critical section under the worker's  *)
(* _lock, or one Queue operation.  What a job does to videos, files and    *)
(* remote storage is not in this module; what it does to its row is.       *)
(***************************************************************************)
EXTENDS ImportJobs, Sequences

CONSTANTS Clients,      (* the request handler threads                       *)
          Requests,     (* the requests they are sent                        *)
          Rounds,       (* bound: progress updates of one execution          *)
          MaxErrors,    (* bound: infrastructure errors outside a job's try  *)
          MaxRestarts   (* bound: restarts of the server process             *)

AllRequests == {"import", "cache", "delete", "cancel", "cancelAll", "retry", "clear"}

ASSUME WorkerAssumption ==
    /\ Requests \subseteq AllRequests
    /\ Rounds \in Nat
    /\ MaxErrors \in Nat
    /\ MaxRestarts \in Nat

VARIABLES queue,        (* ImportWorker._queue                               *)
          scheduled,    (* ImportWorker._scheduled_job_ids                   *)
          processing,   (* ImportWorker._processing_job_ids                  *)
          worker,       (* the worker thread                                 *)
          client,       (* the request handlers                              *)
          errors, restarts

counters == <<errors, restarts>>
schedule == <<queue, scheduled, processing>>
vars == <<jobs, videos, queue, scheduled, processing, worker, client, errors, restarts>>

NoJob == 0

\* Where the worker thread is.  The job holds its place in
\* _processing_job_ids from "read" to "done".
Busy == {"read", "start", "check", "work", "write", "finish",
         "cancel", "fail", "except", "mark", "done"}
WorkerPc == Busy \cup {"idle", "taken", "dead"}

Worker == [pc : WorkerPc, job : JobIds \cup {NoJob}, seen : BOOLEAN, left : 0..Rounds]

\* What a request handler does next, with what its earlier reads told it.
ClientOp == {"idle", "enqueue", "cancelQueued", "cancelStarted", "requeue",
             "createCache", "createDelete"}
Client == [op : ClientOp, job : JobIds \cup {NoJob}, video : Videos \cup {NoVideo}]

IdleWorker == [pc |-> "idle", job |-> NoJob, seen |-> FALSE, left |-> 0]
DeadWorker == [pc |-> "dead", job |-> NoJob, seen |-> FALSE, left |-> 0]
IdleClient == [op |-> "idle", job |-> NoJob, video |-> NoVideo]

Init ==
    /\ TableInit
    /\ queue = <<>>
    /\ scheduled = {}
    /\ processing = {}
    /\ worker = IdleWorker
    /\ client = [c \in Clients |-> IdleClient]
    /\ errors = 0
    /\ restarts = 0

-----------------------------------------------------------------------------
(* The worker thread: ImportWorker._run.                                   *)

At(pc) == worker.pc = pc
Goto(pc) == worker' = [worker EXCEPT !.pc = pc]

TakeJob ==
    /\ At("idle")
    /\ queue # <<>>
    /\ queue' = Tail(queue)
    /\ worker' = [worker EXCEPT !.pc = "taken", !.job = Head(queue)]
    /\ UNCHANGED <<jobs, videos, scheduled, processing, client, errors, restarts>>

ClaimJob ==
    /\ At("taken")
    /\ scheduled' = scheduled \ {worker.job}
    /\ processing' = processing \cup {worker.job}
    /\ Goto("read")
    /\ UNCHANGED <<jobs, videos, queue, client, errors, restarts>>

\* Mutated form of ReleaseJob: no finally block.
ReleaseJobKeepingId ==
    /\ At("done")
    /\ worker' = IdleWorker
    /\ UNCHANGED <<jobs, videos, schedule, client, errors, restarts>>

ReleaseJob ==
    /\ At("done")
    /\ processing' = processing \ {worker.job}
    /\ worker' = IdleWorker
    /\ UNCHANGED <<jobs, videos, queue, scheduled, client, errors, restarts>>

\* process_background_job and the job's own process_* function both SELECT
\* the row.  Reading it once allows every outcome of reading it twice: the
\* kind never changes, and a missing or cancelled row stops either read.
ReadJob ==
    /\ At("read")
    /\ LET row == jobs[worker.job] IN
       worker' = [worker EXCEPT
           !.pc = IF row.status \notin Active THEN "done"
                  ELSE IF row.kind # "import" /\ row.target = NoVideo THEN "fail"
                  ELSE "start",
           !.left = Rounds]
    /\ UNCHANGED <<table, schedule, client, counters>>

\* The source file is not valid; the video has no segments; no storage.
RejectJob ==
    /\ At("start")
    /\ ~IsDelete(worker.job)
    /\ Goto("fail")
    /\ UNCHANGED <<table, schedule, client, counters>>

\* An UPDATE of the worker: where it goes when the row is there, and where
\* ImportJobNotFoundError takes it when the row is missing.
Then(pc, pcIfMissing) == Goto(IF Exists(worker.job) THEN pc ELSE pcIfMissing)

StartJob ==
    /\ At("start")
    /\ MarkRunning(worker.job)
    /\ Then(IF IsDelete(worker.job) THEN "work" ELSE "check",
            IF IsDelete(worker.job) THEN "fail" ELSE "except")
    /\ UNCHANGED <<videos, schedule, client, counters>>

\* throw_if_cancel_requested: a missing row counts as a cancelled job.
CheckCancel ==
    /\ At("check")
    /\ Goto(IF Exists(worker.job) /\ ~jobs[worker.job].cancel THEN "work" ELSE "cancel")
    /\ UNCHANGED <<table, schedule, client, counters>>

\* update_import_job_progress: the SELECT, then the UPDATE.
ReadProgress ==
    /\ At("work")
    /\ worker.left > 0
    /\ worker' = [worker EXCEPT !.pc = "write",
                                !.seen = Exists(worker.job) /\ jobs[worker.job].cancel]
    /\ UNCHANGED <<table, schedule, client, counters>>

\* What follows is a cancellation check, or more work when the update came
\* from a finished transfer (on_result) or from a delete job.
UpdateProgress ==
    /\ At("write")
    /\ WriteProgress(worker.job, worker.seen)
    /\ \E next \in IF IsDelete(worker.job) THEN {"work"} ELSE {"check", "work"} :
           worker' = [worker EXCEPT !.pc = IF Exists(worker.job) THEN next ELSE "fail",
                                    !.seen = FALSE, !.left = @ - 1]
    /\ UNCHANGED <<videos, schedule, client, counters>>

\* An exception inside the job's try.
WorkFails ==
    /\ worker.pc \in {"check", "work", "write"}
    /\ Goto("fail")
    /\ UNCHANGED <<table, schedule, client, counters>>

\* The work is over.  An import checks for a cancellation before its last
\* step; a cache job has no check after its last transfer.
WorkEnds ==
    /\ At("work")
    /\ CASE jobs[worker.job].kind = "import" ->
              /\ Goto(IF Exists(worker.job) /\ ~jobs[worker.job].cancel
                      THEN "finish" ELSE "cancel")
              /\ UNCHANGED table
         [] jobs[worker.job].kind = "cache" -> Goto("finish") /\ UNCHANGED table
         [] jobs[worker.job].kind = "delete" ->
              Goto("finish") /\ RemoveVideo(jobs[worker.job].target)
    /\ UNCHANGED <<schedule, client, counters>>

CompleteJob ==
    /\ At("finish")
    /\ MarkCompleted(worker.job)
    /\ Then("done", "except")
    /\ UNCHANGED <<videos, schedule, client, counters>>

CancelJob ==
    /\ At("cancel")
    /\ MarkCancelled(worker.job)
    /\ Then("done", "except")
    /\ UNCHANGED <<videos, schedule, client, counters>>

FailJob ==
    /\ At("fail")
    /\ MarkFailed(worker.job)
    /\ Then("done", "except")
    /\ UNCHANGED <<videos, schedule, client, counters>>

\* An infrastructure error (SQLite gives up, the disk is full) in a call the
\* job makes outside its try.  A deletion is marked running inside it.
JobRaises ==
    /\ worker.pc \in {"read", "start", "finish", "cancel", "fail"}
    /\ errors < MaxErrors
    /\ errors' = errors + 1
    /\ Goto(IF At("start") /\ IsDelete(worker.job) THEN "fail" ELSE "except")
    /\ UNCHANGED <<table, schedule, client, restarts>>

\* The except block of _run: get_import_job, then mark_import_job_failed.
CatchRead ==
    /\ At("except")
    /\ Then("mark", "done")
    /\ UNCHANGED <<table, schedule, client, counters>>

\* The row may be gone by now: then the except block itself raises, the
\* finally block releases the job and the thread ends.
CatchMark ==
    /\ At("mark")
    /\ MarkFailed(worker.job)
    /\ IF Exists(worker.job)
       THEN Goto("done") /\ UNCHANGED processing
       ELSE /\ worker' = DeadWorker
            /\ processing' = processing \ {worker.job}
    /\ UNCHANGED <<videos, queue, scheduled, client, counters>>

WorkerStep ==
    \/ TakeJob \/ ClaimJob \/ ReadJob \/ RejectJob \/ StartJob \/ CheckCancel
    \/ ReadProgress \/ UpdateProgress \/ WorkFails \/ WorkEnds \/ CompleteJob
    \/ CancelJob \/ FailJob \/ JobRaises \/ CatchRead \/ CatchMark \/ ReleaseJob

-----------------------------------------------------------------------------
(* The request handlers.                                                   *)

Sent(c, request) == client[c].op = "idle" /\ request \in Requests

Continue(c, op, j, v) ==
    client' = [client EXCEPT ![c] = [op |-> op, job |-> j, video |-> v]]

Return(c) == client' = [client EXCEPT ![c] = IdleClient]

\* Bound: a handler begins to create a job only while an id is left for it.
IdIsLeft ==
    Cardinality({c \in Clients : client[c].op \in {"createCache", "createDelete"}})
        < Cardinality({j \in JobIds : jobs[j].status = "unborn"})

\* queue_import_job, and each round of queue_folder_import_jobs.
CreateImport(c) ==
    /\ Sent(c, "import") /\ IdIsLeft
    /\ \E j \in JobIds : Insert(j, "import", NoVideo) /\ Continue(c, "enqueue", j, NoVideo)
    /\ UNCHANGED <<videos, schedule, worker, counters>>

\* queue_video_cache_job and queue_video_delete_job: look for the video and
\* for an active job of the same kind ...
FindActiveJob(c, v) ==
    /\ v \in videos /\ IdIsLeft
    /\ \/ /\ Sent(c, "cache")
          /\ ~ActiveJobFor("cache", v)
          /\ Continue(c, "createCache", NoJob, v)
       \/ /\ Sent(c, "delete")
          /\ ~ActiveJobFor("delete", v)
          /\ Continue(c, "createDelete", NoJob, v)
    /\ UNCHANGED <<table, schedule, worker, counters>>

\* ... then INSERT the job, unless the foreign key finds the video deleted.
CreateVideoJob(c) ==
    /\ client[c].op \in {"createCache", "createDelete"}
    /\ IF client[c].video \in videos
       THEN \E j \in JobIds :
               /\ Insert(j, IF client[c].op = "createCache" THEN "cache" ELSE "delete",
                         client[c].video)
               /\ Continue(c, "enqueue", j, NoVideo)
       ELSE Return(c) /\ UNCHANGED jobs
    /\ UNCHANGED <<videos, schedule, worker, counters>>

\* Mutated form of Enqueue: _processing_job_ids is not consulted.
EnqueueWhileProcessing(c) ==
    /\ client[c].op = "enqueue"
    /\ IF client[c].job \in scheduled
       THEN UNCHANGED <<queue, scheduled>>
       ELSE /\ queue' = Append(queue, client[c].job)
            /\ scheduled' = scheduled \cup {client[c].job}
    /\ Return(c)
    /\ UNCHANGED <<table, processing, worker, counters>>

\* ImportWorker.enqueue, under the lock.
Enqueue(c) ==
    /\ client[c].op = "enqueue"
    /\ IF client[c].job \in scheduled \cup processing
       THEN UNCHANGED <<queue, scheduled>>
       ELSE /\ queue' = Append(queue, client[c].job)
            /\ scheduled' = scheduled \cup {client[c].job}
    /\ Return(c)
    /\ UNCHANGED <<table, processing, worker, counters>>

\* request_cancel_job: the SELECT and its early returns ...
ReadForCancel(c, j) ==
    /\ Sent(c, "cancel")
    /\ jobs[j].status \in Active
    /\ ~IsDelete(j)
    /\ Continue(c, IF jobs[j].status = "queued" THEN "cancelQueued" ELSE "cancelStarted",
                j, NoVideo)
    /\ UNCHANGED <<table, schedule, worker, counters>>

\* ... then the UPDATE.
WriteCancel(c) ==
    /\ \/ client[c].op = "cancelQueued" /\ CancelQueued(client[c].job)
       \/ client[c].op = "cancelStarted" /\ CancelStarted(client[c].job)
    /\ Return(c)
    /\ UNCHANGED <<videos, schedule, worker, counters>>

\* retry_import_job: the SELECT and its checks ...
ReadForRetry(c, j) ==
    /\ Sent(c, "retry")
    /\ jobs[j].status \in Failed
    /\ ~IsDelete(j)
    /\ Continue(c, "requeue", j, NoVideo)
    /\ UNCHANGED <<table, schedule, worker, counters>>

\* ... then the UPDATE; the handler enqueues the job next.
WriteRetry(c) ==
    /\ client[c].op = "requeue"
    /\ Requeue(client[c].job)
    /\ IF Exists(client[c].job) THEN Continue(c, "enqueue", client[c].job, NoVideo)
                                ELSE Return(c)
    /\ UNCHANGED <<videos, schedule, worker, counters>>

CancelAll(c) ==
    /\ Sent(c, "cancelAll")
    /\ CancelAllActive
    /\ UNCHANGED <<videos, schedule, worker, client, counters>>

\* clear_finished_import_jobs with either status group.
Clear(c) ==
    /\ Sent(c, "clear")
    /\ DeleteRows({"completed"}) \/ DeleteRows(Failed)
    /\ UNCHANGED <<videos, schedule, worker, client, counters>>

\* What a handler does once it has begun.
Resume(c) == CreateVideoJob(c) \/ Enqueue(c) \/ WriteCancel(c) \/ WriteRetry(c)

ClientStep(c) ==
    \/ CreateImport(c) \/ CancelAll(c) \/ Clear(c) \/ Resume(c)
    \/ \E v \in Videos : FindActiveJob(c, v)
    \/ \E j \in JobIds : ReadForCancel(c, j) \/ ReadForRetry(c, j)

-----------------------------------------------------------------------------
(* The process stops at any point and the server starts again: the         *)
(* lifespan handler runs ensure_started before the first request, which    *)
(* fails the interrupted jobs and enqueues the queued ones by id.          *)

InIdOrder(q, S) == /\ \A j \in S : \E i \in DOMAIN q : q[i] = j
                   /\ \A i, k \in DOMAIN q : i < k => q[i] < q[k]

Restart ==
    /\ restarts < MaxRestarts
    /\ restarts' = restarts + 1
    /\ MarkInterrupted
    /\ scheduled' = QueuedIds
    /\ \E q \in [1..Cardinality(scheduled') -> scheduled'] :
           InIdOrder(q, scheduled') /\ queue' = q
    /\ processing' = {}
    /\ worker' = IdleWorker
    /\ client' = [c \in Clients |-> IdleClient]
    /\ UNCHANGED <<videos, errors>>

Next == WorkerStep \/ (\E c \in Clients : ClientStep(c)) \/ Restart

Spec == Init /\ [][Next]_vars

\* The threads keep running: a handler that has begun finishes, and the
\* worker, which polls its queue four times a second, goes on.
FairSpec == Spec /\ WF_vars(WorkerStep) /\ \A c \in Clients : WF_vars(Resume(c))

-----------------------------------------------------------------------------
(* Properties.                                                             *)

\* Every variable has the type its code has.
TypeOK ==
    /\ TableTypeOK
    /\ queue \in Seq(JobIds)
    /\ scheduled \in SUBSET JobIds
    /\ processing \in SUBSET JobIds
    /\ worker \in Worker
    /\ client \in [Clients -> Client]
    /\ errors \in Nat
    /\ restarts \in Nat

InQueue(j) == \E i \in 1..Len(queue) : queue[i] = j

\* The two id sets that enqueue consults describe the queue and the thread
\* exactly: an id is scheduled while it waits or has just been taken, it is
\* processing while the thread works on it, it never is both, and it never
\* waits twice.  Otherwise a job would run twice, or never.
QueueMirrorsScheduled ==
    /\ \A j \in JobIds :
          j \in scheduled <=> InQueue(j) \/ (At("taken") /\ worker.job = j)
    /\ \A i, k \in 1..Len(queue) : queue[i] = queue[k] => i = k
    /\ At("taken") => ~InQueue(worker.job)
    /\ processing = IF worker.pc \in Busy THEN {worker.job} ELSE {}
    /\ scheduled \cap processing = {}

\* A row says running only while the worker thread is executing that very
\* job: no interleaving of cancels, retries, failures and restarts leaves a
\* job running with nobody working on it, or two jobs running at once.
RunningIsProcessing ==
    \A j \in JobIds : jobs[j].status = "running" =>
        /\ worker.job = j
        /\ worker.pc \in Busy \ {"read", "done"}

\* cancel_requested and the status agree in every row, although three
\* handlers and the worker write them from values read earlier: a retried,
\* failed or interrupted job carries no old cancellation into its next run.
CancelFlagAgrees ==
    \A j \in JobIds :
        jobs[j].cancel <=> jobs[j].status \in {"cancelling", "cancelled"}

\* The steps of a job's execution before its row is marked running.
Unstarted == {"read", "start", "fail", "except", "mark"}

\* A queued deletion is never forgotten: it waits in the queue, or the worker
\* is about to start it, or the handler that created it is about to enqueue
\* it.  (For jobs that can be retried this is false: see NoStrandedJob.)
QueuedDeleteIsOwned ==
    \A j \in JobIds : IsDelete(j) /\ jobs[j].status = "queued" =>
        \/ j \in scheduled
        \/ worker.job = j /\ worker.pc \in Unstarted
        \/ \E c \in Clients : client[c].op = "enqueue" /\ client[c].job = j

\* The same promise for every job, as the retry endpoint's test takes it: a
\* job that is queued again will run.  The code does not keep it, and no run
\* checks it (README, section 6).
NoStrandedJob ==
    \A j \in JobIds : jobs[j].status = "queued" =>
        \/ j \in scheduled
        \/ j \in processing /\ ~At("done")
        \/ \E c \in Clients : client[c].op = "enqueue" /\ client[c].job = j

\* A job being cancelled is not taken back to running.  The code does not keep
\* this, and no run checks it (README, section 6).
CancelIsNotUndone ==
    [][\A j \in JobIds : jobs[j].status = "cancelling" => jobs'[j].status # "running"]_vars

\* Every queued deletion is eventually carried out or reported as failed.
DeleteIsFinished ==
    \A j \in JobIds : IsDelete(j) /\ jobs[j].status = "queued"
                           ~> jobs[j].status \in {"completed", "failed", "gone"}

\* Whatever happened to its row, a job that waits in the queue is taken off it
\* and the worker lets go of it.
QueueDrains == \A j \in JobIds : j \in scheduled ~> j \notin scheduled \cup processing

-----------------------------------------------------------------------------
(* The deletions among the jobs implement DeleteTasks.                     *)

DeletePhase(j) ==
    IF ~IsDelete(j) \/ jobs[j].status = "unborn" THEN "none"
    ELSE IF jobs[j].status = "gone" THEN "cleared"
    ELSE jobs[j].status

Deletions == INSTANCE DeleteTasks WITH Tasks <- JobIds,
                                       phase <- [j \in JobIds |-> DeletePhase(j)]

\* Requests, retries, cancellations, errors and restarts included, what
\* happens to a deletion is what DeleteTasks allows.
DeletionsAreTasks == Deletions!Spec

=============================================================================
