------------------------- MODULE ImportWorkerProofs -------------------------
(***************************************************************************)
(* Proofs about ImportWorker for any number of jobs, videos, handlers,     *)
(* progress updates, errors and restarts.                                  *)
(***************************************************************************)
EXTENDS ImportWorker, SequenceTheorems, FiniteSetTheorems, TLAPS

-----------------------------------------------------------------------------
(* Types.                                                                  *)

\* What keeps worker.left a natural number.
RoundIsLeft == At("write") => worker.left > 0

TypeInv == TypeOK /\ RoundIsLeft

\* An UPDATE of one row keeps the table's type.
LEMMA UpdateType ==
    ASSUME TableTypeOK, NEW j \in JobIds, NEW s \in Active \cup Finished,
           NEW b \in BOOLEAN, UpdateJob(j, s, b), videos' = videos
    PROVE  TableTypeOK'
BY DEF TableTypeOK, UpdateJob, Row, Statuses, Active, Finished, Kinds, Exists

\* The jobs a restart enqueues, in any order that names each once.
LEMMA RequeueType ==
    ASSUME NEW S \in SUBSET JobIds, NEW q \in [1..Cardinality(S) -> S]
    PROVE  q \in Seq(JobIds)
<1>1. IsFiniteSet(JobIds)
  BY FS_Interval, TableAssumption DEF JobIds
<1>2. Cardinality(S) \in Nat
  BY <1>1, FS_Subset, FS_CardinalityType
<1>3. q \in Seq(S)
  BY <1>2
<1> QED BY <1>3

LEMMA TypeInit == Init => TypeInv
BY TableAssumption, WorkerAssumption
   DEF Init, TableInit, TypeInv, TypeOK, TableTypeOK, RoundIsLeft, At, Row, Statuses, Active,
       Finished, Kinds, IdleWorker, IdleClient, Worker, WorkerPc, Client, ClientOp, NoJob, JobIds

\* The worker has a job unless it is idle or dead, and so has a handler that
\* is about to write or enqueue one.
HasJob == worker.job \in JobIds

JobInHand == worker.pc \notin {"idle", "dead"} => HasJob

WithJob == {"enqueue", "cancelQueued", "cancelStarted", "requeue"}

HandlerHasJob == \A c \in Clients : client[c].op \in WithJob => client[c].job \in JobIds

LEMMA MoveType ==
    ASSUME worker \in Worker, NEW pc \in WorkerPc, Goto(pc)
    PROVE  /\ worker' \in Worker
           /\ worker'.pc = pc
           /\ worker'.job = worker.job
           /\ worker'.left = worker.left
           /\ worker'.seen = worker.seen
BY DEF Worker, Goto

LEMMA WorkerType ==
    ASSUME TypeInv, JobInHand, WorkerStep
    PROVE  TypeInv' /\ JobInHand'
<1> USE TableAssumption, WorkerAssumption
      DEF TypeInv, TypeOK, RoundIsLeft, At, JobInHand, HasJob
<1>a. /\ worker \in Worker
      /\ worker.left \in 0..Rounds /\ worker.seen \in BOOLEAN
      /\ worker.job \in JobIds \cup {NoJob}
  BY DEF Worker
<1>b. {"idle", "dead", "taken"} \subseteq WorkerPc /\ Busy \subseteq WorkerPc
  BY DEF WorkerPc
<1>c. ASSUME NEW pc \in WorkerPc, pc # "write", worker.pc \notin {"idle", "dead"}, Goto(pc)
      PROVE  worker' \in Worker /\ RoundIsLeft' /\ JobInHand'
  <2>1. worker' \in Worker /\ worker'.pc = pc /\ worker'.job = worker.job
    BY <1>c, <1>a, MoveType
  <2> QED BY <1>c, <2>1
<1>d. IdleWorker \in Worker /\ DeadWorker \in Worker
  BY <1>b DEF IdleWorker, DeadWorker, Worker
<1>1. CASE TakeJob
  <2>1. Head(queue) \in JobIds /\ Tail(queue) \in Seq(JobIds)
    BY <1>1, HeadTailProperties DEF TakeJob
  <2>2. worker' \in Worker /\ worker'.pc = "taken" /\ worker'.job \in JobIds
    BY <1>1, <2>1, <1>b DEF TakeJob, Worker
  <2> QED BY <1>1, <2>1, <2>2 DEF TakeJob, TableTypeOK
<1>2. CASE ClaimJob
  <2>1. worker' \in Worker /\ RoundIsLeft' /\ JobInHand'
    BY <1>2, <1>b, <1>c DEF ClaimJob, Busy
  <2> QED BY <1>2, <2>1 DEF ClaimJob, TableTypeOK
<1>3. CASE ReadJob
  <2>1. PICK pc \in {"done", "fail", "start"} :
            worker' = [worker EXCEPT !.pc = pc, !.left = Rounds]
    BY <1>3 DEF ReadJob
  <2>2. pc \in WorkerPc /\ Rounds \in 0..Rounds
    BY <1>b DEF Busy
  <2>3. worker' \in Worker /\ worker'.pc = pc /\ worker'.job = worker.job
    BY <2>1, <2>2, <1>a DEF Worker
  <2> QED BY <1>3, <2>3 DEF ReadJob, TableTypeOK, table, schedule, counters
<1>4. CASE RejectJob
  <2>1. worker' \in Worker /\ RoundIsLeft' /\ JobInHand'
    BY <1>4, <1>b, <1>c DEF RejectJob, Busy
  <2> QED BY <1>4, <2>1 DEF RejectJob, TableTypeOK, table, schedule, counters
<1>5. CASE StartJob
  <2>1. worker' \in Worker /\ RoundIsLeft' /\ JobInHand'
    BY <1>5, <1>b, <1>c DEF StartJob, Then, Busy
  <2>2. TableTypeOK'
    BY <1>5, UpdateType DEF StartJob, MarkRunning, Active, Finished
  <2> QED BY <1>5, <2>1, <2>2 DEF StartJob, schedule, counters
<1>6. CASE CheckCancel
  <2>1. worker' \in Worker /\ RoundIsLeft' /\ JobInHand'
    BY <1>6, <1>b, <1>c DEF CheckCancel, Busy
  <2> QED BY <1>6, <2>1 DEF CheckCancel, TableTypeOK, table, schedule, counters
<1>7. CASE ReadProgress
  <2>1. (Exists(worker.job) /\ jobs[worker.job].cancel) \in BOOLEAN
    OBVIOUS
  <2>2. worker' \in Worker /\ RoundIsLeft' /\ JobInHand'
    BY <1>7, <2>1, <1>a, <1>b DEF ReadProgress, Worker, Busy
  <2> QED BY <1>7, <2>2 DEF ReadProgress, TableTypeOK, table, schedule, counters
<1>8. CASE UpdateProgress
  <2>1. worker' \in Worker /\ RoundIsLeft' /\ JobInHand'
    <3>1. PICK pc \in {"work", "check", "fail"} :
              worker' = [worker EXCEPT !.pc = pc, !.seen = FALSE, !.left = worker.left - 1]
      BY <1>8 DEF UpdateProgress
    <3>2. pc \in WorkerPc /\ worker.left - 1 \in 0..Rounds
      BY <1>8, <1>a, <1>b DEF UpdateProgress, Busy
    <3>3. worker' \in Worker /\ worker'.pc = pc /\ worker'.job = worker.job
      BY <3>1, <3>2, <1>a DEF Worker
    <3> QED BY <1>8, <3>3 DEF UpdateProgress
  <2>2. TableTypeOK'
    BY <1>8, <1>a, UpdateType DEF UpdateProgress, WriteProgress, Active, Finished
  <2> QED BY <1>8, <2>1, <2>2 DEF UpdateProgress, schedule, counters
<1>9. CASE WorkFails
  <2>1. worker' \in Worker /\ RoundIsLeft' /\ JobInHand'
    BY <1>9, <1>b, <1>c DEF WorkFails, Busy
  <2> QED BY <1>9, <2>1 DEF WorkFails, TableTypeOK, table, schedule, counters
<1>10. CASE WorkEnds
  <2>1. jobs[worker.job].kind \in Kinds
    BY <1>10 DEF WorkEnds, TableTypeOK, Row
  <2>2. worker' \in Worker /\ RoundIsLeft' /\ JobInHand'
    BY <1>10, <2>1, <1>b, <1>c DEF WorkEnds, Busy, Kinds
  <2>3. TableTypeOK'
    <3>1. CASE UNCHANGED table
      BY <3>1 DEF table, TableTypeOK
    <3>2. CASE RemoveVideo(jobs[worker.job].target)
      BY <3>2 DEF RemoveVideo, TableTypeOK, Row
    <3> QED BY <1>10, <2>1, <3>1, <3>2 DEF WorkEnds, Kinds
  <2> QED BY <1>10, <2>2, <2>3 DEF WorkEnds, schedule, counters
<1>11. CASE CompleteJob
  <2>1. worker' \in Worker /\ RoundIsLeft' /\ JobInHand'
    BY <1>11, <1>b, <1>c DEF CompleteJob, Then, Busy
  <2>2. TableTypeOK'
    BY <1>11, UpdateType DEF CompleteJob, MarkCompleted, Active, Finished
  <2> QED BY <1>11, <2>1, <2>2 DEF CompleteJob, schedule, counters
<1>12. CASE CancelJob
  <2>1. worker' \in Worker /\ RoundIsLeft' /\ JobInHand'
    BY <1>12, <1>b, <1>c DEF CancelJob, Then, Busy
  <2>2. TableTypeOK'
    BY <1>12, UpdateType DEF CancelJob, MarkCancelled, Active, Finished
  <2> QED BY <1>12, <2>1, <2>2 DEF CancelJob, schedule, counters
<1>13. CASE FailJob
  <2>1. worker' \in Worker /\ RoundIsLeft' /\ JobInHand'
    BY <1>13, <1>b, <1>c DEF FailJob, Then, Busy
  <2>2. TableTypeOK'
    BY <1>13, UpdateType DEF FailJob, MarkFailed, Active, Finished
  <2> QED BY <1>13, <2>1, <2>2 DEF FailJob, schedule, counters
<1>14. CASE JobRaises
  <2>1. worker' \in Worker /\ RoundIsLeft' /\ JobInHand'
    BY <1>14, <1>b, <1>c DEF JobRaises, Busy
  <2> QED BY <1>14, <2>1 DEF JobRaises, TableTypeOK, table, schedule
<1>15. CASE CatchRead
  <2>1. worker' \in Worker /\ RoundIsLeft' /\ JobInHand'
    BY <1>15, <1>b, <1>c DEF CatchRead, Then, Busy
  <2> QED BY <1>15, <2>1 DEF CatchRead, TableTypeOK, table, schedule, counters
<1>16. CASE CatchMark
  <2>1. worker' \in Worker /\ RoundIsLeft' /\ JobInHand'
    <3>1. CASE Exists(worker.job)
      BY <1>16, <3>1, <1>b, <1>c DEF CatchMark, Busy
    <3>2. CASE ~Exists(worker.job)
      <4>1. worker' = DeadWorker /\ worker'.pc = "dead"
        BY <1>16, <3>2 DEF CatchMark, DeadWorker
      <4> QED BY <4>1, <1>d
    <3> QED BY <3>1, <3>2
  <2>2. TableTypeOK'
    BY <1>16, UpdateType DEF CatchMark, MarkFailed, Active, Finished
  <2> QED BY <1>16, <2>1, <2>2 DEF CatchMark, counters
<1>17. CASE ReleaseJob
  BY <1>17, <1>d DEF ReleaseJob, TableTypeOK, IdleWorker
<1> QED
  BY <1>1, <1>2, <1>3, <1>4, <1>5, <1>6, <1>7, <1>8, <1>9, <1>10, <1>11, <1>12,
     <1>13, <1>14, <1>15, <1>16, <1>17 DEF WorkerStep

LEMMA ClientType ==
    ASSUME TypeInv, HandlerHasJob, NEW c \in Clients, ClientStep(c)
    PROVE  /\ TableTypeOK' /\ queue' \in Seq(JobIds) /\ scheduled' \in SUBSET JobIds
           /\ client' \in [Clients -> Client]
           /\ HandlerHasJob'
           /\ UNCHANGED <<worker, processing, errors, restarts>>
<1> USE DEF TypeInv, TypeOK, Client, ClientOp, NoJob
<1>a. /\ client[c] \in Client /\ client[c].job \in JobIds \cup {NoJob}
      /\ client[c].video \in Videos \cup {NoVideo}
      /\ client[c].op \in WithJob => client[c].job \in JobIds
  BY DEF HandlerHasJob
<1>b. IdleClient \in Client
  BY DEF IdleClient
<1> DEFINE ClientOK == client \in [Clients -> Client] /\ HandlerHasJob
<1>c. ASSUME Return(c) PROVE ClientOK'
  BY <1>c, <1>b DEF Return, HandlerHasJob, IdleClient, WithJob
<1>d. ASSUME NEW op \in ClientOp, NEW j \in JobIds \cup {NoJob},
             NEW v \in Videos \cup {NoVideo}, Continue(c, op, j, v),
             op \in WithJob => j \in JobIds
      PROVE  ClientOK'
  BY <1>d DEF Continue, HandlerHasJob
<1>e. ASSUME NEW j \in JobIds, NEW k \in Kinds, NEW v \in videos \cup {NoVideo},
             Insert(j, k, v), videos' = videos
      PROVE  TableTypeOK'
  BY <1>e DEF Insert, TableTypeOK, Row, Statuses, Active
<1>1. CASE CreateImport(c)
  <2>1. PICK j \in JobIds : Insert(j, "import", NoVideo) /\ Continue(c, "enqueue", j, NoVideo)
    BY <1>1 DEF CreateImport
  <2>2. TableTypeOK'
    BY <1>1, <2>1, <1>e DEF CreateImport, Kinds
  <2> QED BY <1>1, <2>1, <2>2, <1>d DEF CreateImport, schedule, counters
<1>2. CASE CancelAll(c)
  <2>1. TableTypeOK'
    BY <1>2 DEF CancelAll, CancelAllActive, TableTypeOK, Row, Statuses, Active, Finished
  <2> QED BY <1>2, <2>1 DEF CancelAll, schedule, counters, HandlerHasJob
<1>3. CASE Clear(c)
  <2>1. ASSUME NEW S, DeleteRows(S), videos' = videos
        PROVE  TableTypeOK'
    <3>1. ASSUME NEW j \in JobIds
          PROVE  jobs'[j] \in Row /\ jobs'[j].target \in videos \cup {NoVideo}
      <4>1. jobs[j] \in Row /\ jobs[j].target \in videos \cup {NoVideo}
        BY <3>1 DEF TableTypeOK
      <4>2. CASE jobs[j].status \in S
        <5>1. jobs'[j] = [jobs[j] EXCEPT !.status = "gone", !.cancel = FALSE,
                                         !.target = NoVideo]
          BY <2>1, <4>2 DEF DeleteRows
        <5> QED BY <4>1, <5>1 DEF Row, Statuses
      <4>3. CASE jobs[j].status \notin S
        BY <2>1, <4>1, <4>3 DEF DeleteRows
      <4> QED BY <4>2, <4>3
    <3>2. jobs' = [j \in JobIds |-> jobs'[j]]
      BY <2>1 DEF DeleteRows
    <3> QED BY <2>1, <3>1, <3>2 DEF TableTypeOK
  <2> QED BY <1>3, <2>1 DEF Clear, schedule, counters, HandlerHasJob
<1>4. CASE CreateVideoJob(c)
  <2>1. CASE client[c].video \in videos
    <3>1. PICK j \in JobIds, k \in {"cache", "delete"} :
              Insert(j, k, client[c].video) /\ Continue(c, "enqueue", j, NoVideo)
      BY <1>4, <2>1 DEF CreateVideoJob
    <3>2. TableTypeOK'
      BY <1>4, <3>1, <2>1, <1>e DEF CreateVideoJob, Kinds
    <3> QED BY <1>4, <3>1, <3>2, <1>d DEF CreateVideoJob, schedule, counters
  <2>2. CASE client[c].video \notin videos
    BY <1>4, <2>2, <1>c DEF CreateVideoJob, TableTypeOK, schedule, counters
  <2> QED BY <2>1, <2>2
<1>5. CASE Enqueue(c)
  <2>1. client[c].job \in JobIds
    BY <1>5, <1>a DEF Enqueue, WithJob
  <2>2. Append(queue, client[c].job) \in Seq(JobIds)
    BY <2>1, AppendProperties
  <2> QED BY <1>5, <2>1, <2>2, <1>c DEF Enqueue, TableTypeOK, table, counters
<1>6. CASE WriteCancel(c)
  <2>1. TableTypeOK'
    BY <1>6, <1>a, UpdateType
       DEF WriteCancel, CancelQueued, CancelStarted, MarkCancelled, Active, Finished, WithJob
  <2> QED BY <1>6, <2>1, <1>c DEF WriteCancel, schedule, counters
<1>7. CASE WriteRetry(c)
  <2>1. TableTypeOK'
    BY <1>7, <1>a, UpdateType DEF WriteRetry, Requeue, Active, WithJob
  <2> QED BY <1>7, <2>1, <1>a, <1>c, <1>d DEF WriteRetry, schedule, counters, WithJob
<1>8. ASSUME NEW v \in Videos, FindActiveJob(c, v)
      PROVE  ClientOK'
  BY <1>8, <1>d DEF FindActiveJob, WithJob
<1>9. ASSUME NEW j \in JobIds, ReadForCancel(c, j) \/ ReadForRetry(c, j)
      PROVE  ClientOK'
  BY <1>9, <1>d DEF ReadForCancel, ReadForRetry
<1>10. CASE \E v \in Videos : FindActiveJob(c, v)
  BY <1>10, <1>8 DEF FindActiveJob, TableTypeOK, table, schedule, counters
<1>11. CASE \E j \in JobIds : ReadForCancel(c, j) \/ ReadForRetry(c, j)
  BY <1>11, <1>9 DEF ReadForCancel, ReadForRetry, TableTypeOK, table, schedule, counters
<1> QED
  BY <1>1, <1>2, <1>3, <1>4, <1>5, <1>6, <1>7, <1>10, <1>11 DEF ClientStep, Resume

\* Typing: TypeOK and what makes it inductive.
Typed == TypeInv /\ JobInHand /\ HandlerHasJob

LEMMA RestartType ==
    ASSUME Typed, Restart
    PROVE  Typed'
<1> USE DEF Typed
<1>1. TableTypeOK'
  BY DEF Restart, MarkInterrupted, TypeInv, TypeOK, TableTypeOK, Row, Statuses, Active, Finished
<1>2. scheduled' \in SUBSET JobIds
  BY DEF Restart, QueuedIds
<1>3. queue' \in Seq(JobIds)
  BY <1>2, RequeueType DEF Restart
<1>4. worker' \in Worker /\ worker'.pc = "idle"
  BY WorkerAssumption DEF Restart, IdleWorker, Worker, WorkerPc, NoJob
<1>5. client' \in [Clients -> Client] /\ HandlerHasJob'
  BY DEF Restart, IdleClient, Client, ClientOp, NoJob, HandlerHasJob, WithJob
<1> QED
  BY <1>1, <1>2, <1>3, <1>4, <1>5 DEF Restart, TypeInv, TypeOK, RoundIsLeft, JobInHand, At

LEMMA TypeStep ==
    ASSUME Typed, [Next]_vars
    PROVE  Typed'
<1> USE DEF Typed
<1>1. CASE WorkerStep
  <2>1. UNCHANGED client
    BY <1>1 DEF WorkerStep, TakeJob, ClaimJob, ReadJob, RejectJob, StartJob, CheckCancel,
         ReadProgress, UpdateProgress, WorkFails, WorkEnds, CompleteJob, CancelJob, FailJob,
         JobRaises, CatchRead, CatchMark, ReleaseJob
  <2> QED BY <1>1, <2>1, WorkerType DEF HandlerHasJob
<1>2. ASSUME NEW c \in Clients, ClientStep(c)
      PROVE  Typed'
  BY <1>2, ClientType DEF TypeInv, TypeOK, RoundIsLeft, JobInHand, HasJob, At
<1>3. CASE Restart
  BY <1>3, RestartType
<1>4. CASE UNCHANGED vars
  BY <1>4 DEF vars, TypeInv, TypeOK, TableTypeOK, RoundIsLeft, JobInHand, HasJob, At,
       HandlerHasJob
<1> QED BY <1>1, <1>2, <1>3, <1>4 DEF Next

\* Every variable keeps its type, a target video exists as long as a job row
\* refers to it, and the worker counts its progress updates within bounds.
THEOREM TypeCorrect == Spec => []TypeOK
<1>1. Init => Typed
  BY TypeInit DEF Typed, Init, JobInHand, IdleWorker, HandlerHasJob, IdleClient, WithJob
<1>2. Typed /\ [Next]_vars => Typed'
  BY TypeStep
<1>3. Typed => TypeOK
  BY DEF Typed, TypeInv
<1> QED BY <1>1, <1>2, <1>3, PTL DEF Spec

-----------------------------------------------------------------------------
(* The inductive invariant.                                                *)

Born(j) == jobs[j].status # "unborn"

\* Ids reach the queue, the worker and the handlers from rows that were
\* inserted.
JobsAreBorn ==
    /\ \A j \in scheduled : Born(j)
    /\ HasJob => Born(worker.job)
    /\ \A c \in Clients : client[c].op \in WithJob => Born(client[c].job)

\* The routes refuse to cancel or retry a deletion, so no handler is about to.
HandlersSpareDeletes ==
    \A c \in Clients : client[c].op \in {"cancelQueued", "cancelStarted", "requeue"}
                          => ~IsDelete(client[c].job)

DeletesAreNotCancelled ==
    \A j \in JobIds : IsDelete(j) => jobs[j].status \notin {"cancelling", "cancelled"}

\* How the row of a deletion follows the thread that executes it.
DeleteIsFollowed ==
    HasJob /\ IsDelete(worker.job) =>
        /\ worker.pc \notin {"check", "cancel"}
        /\ At("start") => jobs[worker.job].status = "queued"
        /\ worker.pc \in {"work", "write", "finish"} => jobs[worker.job].status = "running"
        /\ At("write") => ~worker.seen
        /\ worker.pc \in {"fail", "except", "mark"} =>
              jobs[worker.job].status \in {"queued", "running"}
        /\ At("done") => jobs[worker.job].status \notin Active

\* A deletion that has not been started is queued, and has one owner: the
\* handler that will enqueue it, the queue, or the thread.
Waits(c, j) == client[c].op = "enqueue" /\ client[c].job = j

FreshDeletes ==
    /\ \A c \in Clients, j \in JobIds : Waits(c, j) /\ IsDelete(j) =>
          /\ jobs[j].status = "queued"
          /\ j \notin scheduled /\ j \notin processing
          /\ \A d \in Clients \ {c} : ~Waits(d, j)
    /\ \A j \in JobIds : IsDelete(j) /\ j \in scheduled => jobs[j].status = "queued"
    /\ \A j \in JobIds : IsDelete(j) /\ worker.job = j /\ worker.pc \in {"taken", "read"}
                            => jobs[j].status = "queued"

Inv == /\ Typed
       /\ QueueMirrorsScheduled
       /\ RunningIsProcessing
       /\ CancelFlagAgrees
       /\ JobsAreBorn
       /\ HandlersSpareDeletes
       /\ DeletesAreNotCancelled
       /\ DeleteIsFollowed
       /\ FreshDeletes
       /\ QueuedDeleteIsOwned

-----------------------------------------------------------------------------
(* The queue and the two id sets.                                          *)

\* A step of the thread that keeps its job in _processing_job_ids.
Works == /\ worker.pc \in Busy /\ worker'.pc \in Busy
         /\ worker'.job = worker.job
         /\ UNCHANGED schedule

\* Every step of the thread outside the four that touch the queue or the id
\* sets, and the one that kills it, is of that form.
LEMMA WorkerWorks ==
    ASSUME Typed, WorkerStep
    PROVE  Works \/ TakeJob \/ ClaimJob \/ ReleaseJob \/ (CatchMark /\ ~Exists(worker.job))
<1> USE DEF Typed, TypeInv, TypeOK, At, Works, schedule
<1>a. ASSUME NEW pc \in Busy, Goto(pc)
      PROVE  worker'.pc \in Busy /\ worker'.job = worker.job
  BY <1>a, MoveType DEF WorkerPc
<1>b. ASSUME NEW pc \in Busy, NEW l, worker' = [worker EXCEPT !.pc = pc, !.left = l]
      PROVE  worker'.pc \in Busy /\ worker'.job = worker.job
  BY <1>b DEF Worker
<1>c. ASSUME NEW pc \in Busy, NEW b, worker' = [worker EXCEPT !.pc = pc, !.seen = b]
      PROVE  worker'.pc \in Busy /\ worker'.job = worker.job
  BY <1>c DEF Worker
<1>d. ASSUME NEW pc \in Busy, NEW b, NEW l,
             worker' = [worker EXCEPT !.pc = pc, !.seen = b, !.left = l]
      PROVE  worker'.pc \in Busy /\ worker'.job = worker.job
  BY <1>d DEF Worker
<1>1. CASE ReadJob
  BY <1>1, <1>b DEF ReadJob, Busy
<1>2. CASE RejectJob
  BY <1>2, <1>a DEF RejectJob, Busy
<1>3. CASE StartJob
  BY <1>3, <1>a DEF StartJob, Then, Busy
<1>4. CASE CheckCancel
  BY <1>4, <1>a DEF CheckCancel, Busy
<1>5. CASE ReadProgress
  BY <1>5, <1>c DEF ReadProgress, Busy
<1>6. CASE UpdateProgress
  BY <1>6, <1>d DEF UpdateProgress, Busy
<1>7. CASE WorkFails
  BY <1>7, <1>a DEF WorkFails, Busy
<1>8. CASE WorkEnds
  BY <1>8, <1>a DEF WorkEnds, Busy, TableTypeOK, Row, Kinds, JobInHand, HasJob
<1>9. CASE CompleteJob
  BY <1>9, <1>a DEF CompleteJob, Then, Busy
<1>10. CASE CancelJob
  BY <1>10, <1>a DEF CancelJob, Then, Busy
<1>11. CASE FailJob
  BY <1>11, <1>a DEF FailJob, Then, Busy
<1>12. CASE JobRaises
  BY <1>12, <1>a DEF JobRaises, Busy
<1>13. CASE CatchRead
  BY <1>13, <1>a DEF CatchRead, Then, Busy
<1>14. CASE CatchMark /\ Exists(worker.job)
  BY <1>14, <1>a DEF CatchMark, Busy
<1> QED
  BY <1>1, <1>2, <1>3, <1>4, <1>5, <1>6, <1>7, <1>8, <1>9, <1>10, <1>11, <1>12, <1>13,
     <1>14 DEF WorkerStep

LEMMA MirrorWorks ==
    ASSUME QueueMirrorsScheduled, Works
    PROVE  QueueMirrorsScheduled'
BY DEF QueueMirrorsScheduled, Works, schedule, InQueue, At, Busy

LEMMA MirrorTake ==
    ASSUME Typed, QueueMirrorsScheduled, TakeJob
    PROVE  QueueMirrorsScheduled'
<1> USE DEF Typed, TypeInv, TypeOK, TakeJob, At
<1>1. /\ Head(queue) = queue[1] /\ Len(queue) \in Nat /\ Len(queue) # 0
      /\ queue' \in Seq(JobIds) /\ Len(queue') = Len(queue) - 1
      /\ \A i \in 1..Len(queue') : queue'[i] = queue[i + 1]
  BY HeadTailProperties, LenProperties, EmptySeq
<1>2. worker'.pc = "taken" /\ worker'.job = queue[1]
  BY <1>1 DEF Worker
<1>3. \A j \in JobIds : InQueue(j) <=> InQueue(j)' \/ j = queue[1]
  <2> SUFFICES ASSUME NEW j \in JobIds
               PROVE  InQueue(j) <=> InQueue(j)' \/ j = queue[1]
    OBVIOUS
  <2>1. ASSUME NEW i \in 1..Len(queue), queue[i] = j, i # 1
        PROVE  InQueue(j)'
    <3>1. i - 1 \in 1..Len(queue') /\ queue'[i - 1] = queue[i]
      BY <1>1, <2>1
    <3> QED BY <2>1, <3>1 DEF InQueue
  <2>2. ASSUME NEW i \in 1..Len(queue'), queue'[i] = j
        PROVE  InQueue(j)
    <3>1. i + 1 \in 1..Len(queue)
      BY <1>1, <2>2
    <3> QED BY <1>1, <2>2, <3>1 DEF InQueue
  <2>3. 1 \in 1..Len(queue)
    BY <1>1
  <2> QED BY <2>1, <2>2, <2>3 DEF InQueue
<1>4. \A i, k \in 1..Len(queue') : queue'[i] = queue'[k] => i = k
  BY <1>1 DEF QueueMirrorsScheduled
<1>5. ~InQueue(worker.job)'
  BY <1>1, <1>2 DEF QueueMirrorsScheduled, InQueue
<1>6. "idle" \notin Busy /\ "taken" \notin Busy
  BY DEF Busy
<1> QED BY <1>2, <1>3, <1>4, <1>5, <1>6 DEF QueueMirrorsScheduled

LEMMA MirrorEnqueue ==
    ASSUME Typed, QueueMirrorsScheduled, NEW c \in Clients, Enqueue(c)
    PROVE  QueueMirrorsScheduled'
<1> USE DEF Typed, TypeInv, TypeOK, At
<1>1. UNCHANGED worker /\ UNCHANGED processing
  BY DEF Enqueue
<1>2. CASE client[c].job \in scheduled \cup processing
  BY <1>1, <1>2 DEF Enqueue, QueueMirrorsScheduled, InQueue
<1>3. CASE client[c].job \notin scheduled \cup processing
  <2> DEFINE j == client[c].job
  <2>1. j \in JobIds
    BY DEF Enqueue, HandlerHasJob, WithJob
  <2>2. /\ queue' = Append(queue, j) /\ Len(queue) \in Nat /\ Len(queue') = Len(queue) + 1
        /\ \A i \in 1..Len(queue) : queue'[i] = queue[i]
        /\ queue'[Len(queue) + 1] = j
        /\ scheduled' = scheduled \cup {j}
    BY <1>3, <2>1, AppendProperties, LenProperties DEF Enqueue
  <2> HIDE DEF j
  <2>3. \A k \in JobIds : InQueue(k)' <=> InQueue(k) \/ k = j
    BY <2>2 DEF InQueue
  <2>4. ~InQueue(j) /\ ~(At("taken") /\ worker.job = j)
    BY <1>3, <2>1 DEF QueueMirrorsScheduled, j
  <2>5. \A i, k \in 1..Len(queue') : queue'[i] = queue'[k] => i = k
    BY <2>2, <2>4 DEF QueueMirrorsScheduled, InQueue
  <2>6. At("taken")' => ~InQueue(worker.job)'
    BY <1>1, <2>3, <2>4 DEF QueueMirrorsScheduled, JobInHand, HasJob
  <2>7. scheduled' \cap processing' = {}
    BY <1>1, <1>3, <2>2 DEF QueueMirrorsScheduled, j
  <2> QED BY <1>1, <2>2, <2>3, <2>5, <2>6, <2>7 DEF QueueMirrorsScheduled
<1> QED BY <1>2, <1>3

\* A handler changes the queue and the id sets in Enqueue only.
LEMMA ClientSchedule ==
    ASSUME NEW c \in Clients, ClientStep(c)
    PROVE  /\ UNCHANGED worker /\ UNCHANGED processing
           /\ UNCHANGED schedule \/ Enqueue(c)
BY DEF ClientStep, Resume, CreateImport, CancelAll, Clear, CreateVideoJob, Enqueue, WriteCancel,
       WriteRetry, FindActiveJob, ReadForCancel, ReadForRetry, schedule

LEMMA MirrorRestart ==
    ASSUME Restart
    PROVE  QueueMirrorsScheduled'
<1>1. /\ worker'.pc = "idle" /\ processing' = {}
      /\ scheduled' \subseteq JobIds
  BY DEF Restart, IdleWorker, QueuedIds
<1>2. Cardinality(scheduled') \in Nat
  <2>1. IsFiniteSet(JobIds)
    BY FS_Interval, TableAssumption DEF JobIds
  <2> QED BY <1>1, <2>1, FS_Subset, FS_CardinalityType
<1>3. PICK q \in [1..Cardinality(scheduled') -> scheduled'] :
          InIdOrder(q, scheduled') /\ queue' = q
  BY DEF Restart
<1>4. Len(queue') = Cardinality(scheduled') /\ DOMAIN queue' = 1..Len(queue')
  BY <1>2, <1>3
<1>5. /\ \A j \in scheduled' : \E i \in 1..Len(queue') : queue'[i] = j
      /\ \A i, k \in 1..Len(queue') : i < k => queue'[i] < queue'[k]
      /\ \A i \in 1..Len(queue') : queue'[i] \in scheduled'
  BY <1>3, <1>4 DEF InIdOrder
<1>6. \A i, k \in 1..Len(queue') : queue'[i] = queue'[k] => i = k
  <2>1. \A i \in 1..Len(queue') : queue'[i] \in Nat
    <3>1. JobIds \subseteq Nat
      BY TableAssumption DEF JobIds
    <3> QED BY <1>1, <1>5, <3>1
  <2>2. ASSUME NEW i \in 1..Len(queue'), NEW k \in 1..Len(queue'), i # k
        PROVE  queue'[i] # queue'[k]
    <3>1. i < k \/ k < i
      BY <1>2, <1>4, <2>2
    <3>2. queue'[i] \in Nat /\ queue'[k] \in Nat
      BY <2>1
    <3>3. queue'[i] < queue'[k] \/ queue'[k] < queue'[i]
      BY <1>5, <3>1
    <3> QED BY <3>2, <3>3
  <2> QED BY <2>2
<1>7. \A j \in JobIds : j \in scheduled' <=> InQueue(j)'
  BY <1>5 DEF InQueue
<1>8. "idle" \notin Busy
  BY DEF Busy
<1> QED BY <1>1, <1>6, <1>7, <1>8 DEF QueueMirrorsScheduled, At

LEMMA MirrorStep ==
    ASSUME Typed, QueueMirrorsScheduled, [Next]_vars
    PROVE  QueueMirrorsScheduled'
<1>1. CASE Works
  BY <1>1, MirrorWorks
<1>2. CASE TakeJob
  BY <1>2, MirrorTake
<1>3. CASE ClaimJob
  <2>1. worker'.pc = "read" /\ worker'.job = worker.job /\ worker.job \in JobIds
    BY <1>3 DEF ClaimJob, Goto, Typed, TypeInv, TypeOK, Worker, At, JobInHand, HasJob
  <2> QED BY <1>3, <2>1 DEF ClaimJob, QueueMirrorsScheduled, InQueue, At, Busy
<1>4. CASE ReleaseJob
  BY <1>4 DEF ReleaseJob, QueueMirrorsScheduled, InQueue, At, Busy, IdleWorker
<1>5. CASE CatchMark /\ ~Exists(worker.job)
  BY <1>5 DEF CatchMark, QueueMirrorsScheduled, InQueue, At, Busy, DeadWorker
<1>6. CASE WorkerStep
  BY <1>1, <1>2, <1>3, <1>4, <1>5, <1>6, WorkerWorks
<1>7. ASSUME NEW c \in Clients, ClientStep(c)
      PROVE  QueueMirrorsScheduled'
  <2>1. CASE Enqueue(c)
    BY <2>1, MirrorEnqueue
  <2>2. CASE UNCHANGED <<worker, schedule>>
    BY <2>2 DEF QueueMirrorsScheduled, InQueue, At, schedule
  <2> QED BY <1>7, <2>1, <2>2, ClientSchedule
<1>8. CASE Restart
  BY <1>8, MirrorRestart
<1>9. CASE UNCHANGED vars
  BY <1>9 DEF vars, QueueMirrorsScheduled, InQueue, At
<1> QED BY <1>6, <1>7, <1>8, <1>9 DEF Next

-----------------------------------------------------------------------------
(* The table.                                                              *)

\* Every step that writes the table is one of the repository's statements,
\* and an UPDATE of one row sets cancel_requested as its new status says.
Agreeing(j, s) == UpdateJob(j, s, s \in {"cancelling", "cancelled"})

LEMMA MarkAgrees ==
    ASSUME NEW j \in JobIds
    PROVE  /\ MarkRunning(j) => Agreeing(j, "running")
           /\ MarkFailed(j) => Agreeing(j, "failed")
           /\ MarkCompleted(j) => Agreeing(j, "completed")
           /\ MarkCancelled(j) => Agreeing(j, "cancelled")
           /\ CancelStarted(j) => Agreeing(j, "cancelling")
           /\ Requeue(j) => Agreeing(j, "queued")
           /\ \A seen \in BOOLEAN :
                 WriteProgress(j, seen) => Agreeing(j, IF seen THEN "cancelling" ELSE "running")
<1>1. ASSUME NEW s, s \notin {"cancelling", "cancelled"}, UpdateJob(j, s, FALSE)
      PROVE  Agreeing(j, s)
  <2>1. (s \in {"cancelling", "cancelled"}) = FALSE
    BY <1>1
  <2> QED BY <1>1, <2>1 DEF Agreeing
<1>2. ASSUME NEW s, s \in {"cancelling", "cancelled"}, UpdateJob(j, s, TRUE)
      PROVE  Agreeing(j, s)
  <2>1. (s \in {"cancelling", "cancelled"}) = TRUE
    BY <1>2
  <2> QED BY <1>2, <2>1 DEF Agreeing
<1>3. ASSUME NEW seen \in BOOLEAN, WriteProgress(j, seen)
      PROVE  Agreeing(j, IF seen THEN "cancelling" ELSE "running")
  <2>1. CASE seen = TRUE
    BY <1>2, <1>3, <2>1 DEF WriteProgress
  <2>2. CASE seen = FALSE
    BY <1>1, <1>3, <2>2 DEF WriteProgress
  <2> QED BY <2>1, <2>2
<1> QED
  BY <1>1, <1>2, <1>3
     DEF MarkRunning, MarkFailed, MarkCompleted, MarkCancelled, CancelStarted, Requeue

\* What the worker writes, at each place it writes.
LEMMA WorkerTable ==
    ASSUME Typed, WorkerStep
    PROVE  \/ UNCHANGED jobs
           \/ /\ HasJob
              /\ \/ At("start") /\ Agreeing(worker.job, "running")
                 \/ At("write") /\ Agreeing(worker.job, IF worker.seen THEN "cancelling"
                                                        ELSE "running")
                 \/ At("finish") /\ Agreeing(worker.job, "completed")
                 \/ At("cancel") /\ Agreeing(worker.job, "cancelled")
                 \/ worker.pc \in {"fail", "mark"} /\ Agreeing(worker.job, "failed")
                 \/ At("work") /\ RemoveVideo(jobs[worker.job].target)
<1>1. \/ UNCHANGED jobs
      \/ At("start") /\ MarkRunning(worker.job)
      \/ At("write") /\ WriteProgress(worker.job, worker.seen)
      \/ At("finish") /\ MarkCompleted(worker.job)
      \/ At("cancel") /\ MarkCancelled(worker.job)
      \/ worker.pc \in {"fail", "mark"} /\ MarkFailed(worker.job)
      \/ At("work") /\ RemoveVideo(jobs[worker.job].target)
  BY DEF WorkerStep, TakeJob, ClaimJob, ReadJob, RejectJob, StartJob, CheckCancel,
         ReadProgress, UpdateProgress, WorkFails, WorkEnds, CompleteJob, CancelJob, FailJob,
         JobRaises, CatchRead, CatchMark, ReleaseJob, table, At, Typed, TypeInv, TypeOK,
         TableTypeOK, Row, Kinds, JobInHand, HasJob
<1>2. worker.seen \in BOOLEAN
  BY DEF Typed, TypeInv, TypeOK, Worker
<1> QED BY <1>1, <1>2, MarkAgrees DEF At, Typed, JobInHand, HasJob

\* What a handler writes, and what it has to have read before.
LEMMA ClientTable ==
    ASSUME Typed, NEW c \in Clients, ClientStep(c)
    PROVE  \/ UNCHANGED jobs
           \/ \E j \in JobIds, kind \in Kinds, v \in Videos \cup {NoVideo} :
                 Insert(j, kind, v) /\ Continue(c, "enqueue", j, NoVideo)
           \/ /\ client[c].job \in JobIds
              /\ \/ client[c].op = "cancelQueued" /\ Agreeing(client[c].job, "cancelled")
                 \/ client[c].op = "cancelStarted" /\ Agreeing(client[c].job, "cancelling")
                 \/ client[c].op = "requeue" /\ Agreeing(client[c].job, "queued")
           \/ CancelAllActive
           \/ DeleteRows({"completed"})
           \/ DeleteRows(Failed)
<1>0. client[c] \in Client /\ (client[c].op \in WithJob => client[c].job \in JobIds)
  BY DEF Typed, TypeInv, TypeOK, HandlerHasJob
<1>1. CASE CreateImport(c)
  BY <1>1 DEF CreateImport, Kinds
<1>2. CASE CreateVideoJob(c)
  <2>1. client[c].video \in Videos \cup {NoVideo}
    BY <1>0 DEF Client
  <2> QED BY <1>2, <2>1 DEF CreateVideoJob, Kinds
<1>3. CASE WriteCancel(c)
  BY <1>0, <1>3, MarkAgrees DEF WriteCancel, CancelQueued, WithJob
<1>4. CASE WriteRetry(c)
  BY <1>0, <1>4, MarkAgrees DEF WriteRetry, WithJob
<1> QED
  BY <1>1, <1>2, <1>3, <1>4 DEF ClientStep, Resume, CancelAll, Clear, Enqueue, FindActiveJob,
     ReadForCancel, ReadForRetry, table

\* A row keeps its kind, once it is there, and never becomes unborn again.
Persists(j) == Born(j) => Born(j)' /\ jobs'[j].kind = jobs[j].kind

LEMMA AgreeingRows ==
    ASSUME TableTypeOK, NEW i \in JobIds, NEW s \in Active \cup Finished, Agreeing(i, s)
    PROVE  /\ \A j \in JobIds : Persists(j)
           /\ \A j \in JobIds \ {i} : jobs'[j] = jobs[j]
           /\ Exists(i) => /\ jobs'[i].status = s
                           /\ jobs'[i].cancel <=> s \in {"cancelling", "cancelled"}
           /\ ~Exists(i) => jobs' = jobs
BY DEF Agreeing, UpdateJob, TableTypeOK, Row, Persists, Born, Exists, Active, Finished

LEMMA RowsPersist ==
    ASSUME Typed, [Next]_vars
    PROVE  \A j \in JobIds : Persists(j)
<1> USE DEF Typed, TypeInv, TypeOK
<1>1. CASE UNCHANGED jobs
  BY <1>1 DEF Persists, Born
<1>2. CASE \E i \in JobIds, s \in Active \cup Finished : Agreeing(i, s)
  BY <1>2, AgreeingRows
<1>3. CASE \E i \in JobIds, kind \in Kinds, v \in Videos \cup {NoVideo} : Insert(i, kind, v)
  BY <1>3 DEF Insert, Persists, Born, TableTypeOK, Row
<1>4. ASSUME NEW S, DeleteRows(S)
      PROVE  \A j \in JobIds : Persists(j)
  BY <1>4 DEF DeleteRows, Persists, Born, TableTypeOK, Row
<1>5. ASSUME NEW v, RemoveVideo(v)
      PROVE  \A j \in JobIds : Persists(j)
  BY <1>5 DEF RemoveVideo, Persists, Born, TableTypeOK, Row
<1>6. CASE CancelAllActive
  BY <1>6 DEF CancelAllActive, Persists, Born, TableTypeOK, Row
<1>7. CASE MarkInterrupted
  BY <1>7 DEF MarkInterrupted, Persists, Born, TableTypeOK, Row
<1>8. CASE WorkerStep
  BY <1>1, <1>2, <1>5, <1>8, WorkerTable DEF HasJob, Active, Finished
<1>9. ASSUME NEW c \in Clients, ClientStep(c)
      PROVE  \A j \in JobIds : Persists(j)
  BY <1>1, <1>2, <1>3, <1>4, <1>6, <1>9, ClientTable DEF Active, Finished
<1> QED BY <1>1, <1>7, <1>8, <1>9 DEF Next, Restart, vars

\* The thread writes no row but its own job's.
LEMMA WorkerRows ==
    ASSUME Typed, WorkerStep
    PROVE  \A j \in JobIds \ {worker.job} :
              /\ jobs'[j].status = jobs[j].status
              /\ jobs'[j].kind = jobs[j].kind
              /\ jobs'[j].cancel = jobs[j].cancel
<1> USE DEF Typed, TypeInv, TypeOK
<1>1. CASE HasJob /\ \E s \in Active \cup Finished : Agreeing(worker.job, s)
  BY <1>1, AgreeingRows DEF HasJob
<1>2. ASSUME NEW v, RemoveVideo(v)
      PROVE  \A j \in JobIds : /\ jobs'[j].status = jobs[j].status
                               /\ jobs'[j].kind = jobs[j].kind
                               /\ jobs'[j].cancel = jobs[j].cancel
  BY <1>2 DEF RemoveVideo, TableTypeOK, Row
<1> QED BY <1>1, <1>2, WorkerTable DEF Active, Finished

-----------------------------------------------------------------------------
(* Rows and flags.                                                         *)

LEMMA FlagStep ==
    ASSUME Typed, CancelFlagAgrees, [Next]_vars
    PROVE  CancelFlagAgrees'
<1> USE DEF Typed, TypeInv, TypeOK, CancelFlagAgrees
<1>1. CASE UNCHANGED jobs
  BY <1>1
<1>2. CASE \E i \in JobIds, s \in Active \cup Finished : Agreeing(i, s)
  BY <1>2, AgreeingRows
<1>3. CASE \E i \in JobIds, kind \in Kinds, v \in Videos \cup {NoVideo} : Insert(i, kind, v)
  BY <1>3 DEF Insert, TableTypeOK, Row
<1>4. ASSUME NEW S, DeleteRows(S)
      PROVE  CancelFlagAgrees'
  BY <1>4 DEF DeleteRows, TableTypeOK, Row
<1>5. ASSUME NEW v, RemoveVideo(v)
      PROVE  CancelFlagAgrees'
  BY <1>5 DEF RemoveVideo, TableTypeOK, Row
<1>6. CASE CancelAllActive
  BY <1>6 DEF CancelAllActive, TableTypeOK, Row
<1>7. CASE MarkInterrupted
  BY <1>7 DEF MarkInterrupted, TableTypeOK, Row
<1>8. CASE WorkerStep
  BY <1>1, <1>2, <1>5, <1>8, WorkerTable DEF HasJob, Active, Finished
<1>9. ASSUME NEW c \in Clients, ClientStep(c)
      PROVE  CancelFlagAgrees'
  BY <1>1, <1>2, <1>3, <1>4, <1>6, <1>9, ClientTable DEF Active, Finished
<1> QED BY <1>1, <1>7, <1>8, <1>9 DEF Next, Restart, vars

\* The thread gives up its job only when the row is settled or missing, and
\* reads a job only after it claimed it.
LEMMA DoneIsSettled ==
    ASSUME Typed, WorkerStep
    PROVE  /\ worker'.pc = "done" => HasJob /\ jobs'[worker.job].status \notin Active
           /\ worker'.pc = "read" => ClaimJob
<1> USE DEF Typed, TypeInv, TypeOK, At, JobInHand
<1>a. ASSUME NEW pc \in WorkerPc, Goto(pc)
      PROVE  worker'.pc = pc
  BY <1>a, MoveType
<1>b. {"taken", "idle", "dead"} \subseteq WorkerPc /\ Busy \subseteq WorkerPc
  BY DEF WorkerPc
<1>c. ASSUME HasJob, NEW s \in Finished, Agreeing(worker.job, s)
      PROVE  jobs'[worker.job].status \notin Active
  BY <1>c, AgreeingRows DEF HasJob, Exists, Active, Finished
<1>1. CASE TakeJob
  BY <1>1 DEF TakeJob, Worker
<1>2. CASE ReadJob
  BY <1>2 DEF ReadJob, Worker, table
<1>3. CASE RejectJob
  BY <1>3, <1>a, <1>b DEF RejectJob, Busy
<1>4. CASE StartJob
  BY <1>4, <1>a, <1>b DEF StartJob, Then, Busy
<1>5. CASE CheckCancel
  BY <1>5, <1>a, <1>b DEF CheckCancel, Busy
<1>6. CASE ReadProgress
  BY <1>6 DEF ReadProgress, Worker
<1>7. CASE UpdateProgress
  BY <1>7 DEF UpdateProgress, Worker
<1>8. CASE WorkFails
  BY <1>8, <1>a, <1>b DEF WorkFails, Busy
<1>9. CASE WorkEnds
  BY <1>9, <1>a, <1>b DEF WorkEnds, Busy, TableTypeOK, Row, Kinds, HasJob
<1>10. CASE CompleteJob
  BY <1>10, <1>a, <1>b, <1>c, MarkAgrees DEF CompleteJob, Then, Busy, Finished, HasJob
<1>11. CASE CancelJob
  BY <1>11, <1>a, <1>b, <1>c, MarkAgrees DEF CancelJob, Then, Busy, Finished, HasJob
<1>12. CASE FailJob
  BY <1>12, <1>a, <1>b, <1>c, MarkAgrees DEF FailJob, Then, Busy, Finished, HasJob
<1>13. CASE JobRaises
  BY <1>13, <1>a, <1>b DEF JobRaises, Busy
<1>14. CASE CatchRead
  BY <1>14, <1>a, <1>b DEF CatchRead, Then, Busy, Exists, table
<1>15. CASE CatchMark
  <2>1. CASE Exists(worker.job)
    BY <1>15, <2>1, <1>a, <1>b, <1>c, MarkAgrees DEF CatchMark, Busy, Finished, HasJob
  <2>2. CASE ~Exists(worker.job)
    BY <1>15, <2>2 DEF CatchMark, DeadWorker
  <2> QED BY <2>1, <2>2
<1>16. CASE ReleaseJob
  BY <1>16 DEF ReleaseJob, IdleWorker
<1>17. CASE ClaimJob
  BY <1>17, <1>a, <1>b DEF ClaimJob, Busy
<1> QED
  BY <1>1, <1>2, <1>3, <1>4, <1>5, <1>6, <1>7, <1>8, <1>9, <1>10, <1>11, <1>12, <1>13,
     <1>14, <1>15, <1>16, <1>17 DEF WorkerStep

\* Nothing but the thread marks a row running.
LEMMA ClientsRunNothing ==
    ASSUME Typed, NEW c \in Clients, ClientStep(c), NEW j \in JobIds,
           jobs'[j].status = "running"
    PROVE  jobs[j].status = "running"
<1> USE DEF Typed, TypeInv, TypeOK
<1>1. CASE \E i \in JobIds, s \in {"cancelled", "cancelling", "queued"} : Agreeing(i, s)
  BY <1>1, AgreeingRows DEF Active, Finished
<1>2. CASE \E i \in JobIds, kind \in Kinds, v \in Videos \cup {NoVideo} : Insert(i, kind, v)
  BY <1>2 DEF Insert, TableTypeOK, Row
<1>3. ASSUME NEW S, DeleteRows(S)
      PROVE  jobs[j].status = "running"
  BY <1>3 DEF DeleteRows, TableTypeOK, Row
<1>4. CASE CancelAllActive
  BY <1>4 DEF CancelAllActive, TableTypeOK, Row
<1> QED BY <1>1, <1>2, <1>3, <1>4, ClientTable

LEMMA RunningStep ==
    ASSUME Typed, RunningIsProcessing, [Next]_vars
    PROVE  RunningIsProcessing'
<1> USE DEF Typed, TypeInv, TypeOK
<1>1. CASE WorkerStep
  <2> SUFFICES ASSUME NEW j \in JobIds, jobs'[j].status = "running"
               PROVE  worker'.job = j /\ worker'.pc \in Busy \ {"read", "done"}
    BY DEF RunningIsProcessing
  <2>1. worker.job = j
    <3>1. CASE worker.job # j
      BY <1>1, <3>1, WorkerRows DEF RunningIsProcessing
    <3> QED BY <3>1
  <2>2. CASE Works
    BY <1>1, <2>1, <2>2, DoneIsSettled DEF Works, ClaimJob, At, Busy, Active
  <2>3. CASE TakeJob \/ ClaimJob \/ ReleaseJob
    BY <2>3 DEF TakeJob, ClaimJob, ReleaseJob, At, RunningIsProcessing, Busy
  <2>4. CASE CatchMark /\ ~Exists(worker.job)
    BY <2>1, <2>4 DEF CatchMark, MarkFailed, UpdateJob, Exists, Active
  <2> QED BY <1>1, <2>2, <2>3, <2>4, WorkerWorks
<1>2. ASSUME NEW c \in Clients, ClientStep(c)
      PROVE  RunningIsProcessing'
  BY <1>2, ClientsRunNothing, ClientSchedule DEF RunningIsProcessing
<1>3. CASE Restart
  BY <1>3 DEF Restart, MarkInterrupted, RunningIsProcessing, TableTypeOK, Row
<1>4. CASE UNCHANGED vars
  BY <1>4 DEF vars, RunningIsProcessing
<1> QED BY <1>1, <1>2, <1>3, <1>4 DEF Next

\* How a handler goes on, and what its reads have told it.
LEMMA ClientMoves ==
    ASSUME Typed, NEW c \in Clients, ClientStep(c)
    PROVE  \/ client' = client
           \/ Return(c)
           \/ \E op \in {"createCache", "createDelete"}, v \in Videos :
                 Continue(c, op, NoJob, v)
           \/ \E j \in JobIds : Continue(c, "enqueue", j, NoVideo) /\ Born(j)'
           \/ \E j \in JobIds, op \in {"cancelQueued", "cancelStarted", "requeue"} :
                 Continue(c, op, j, NoVideo) /\ Born(j) /\ ~IsDelete(j)
<1> USE DEF Typed, TypeInv, TypeOK
<1>0. [Next]_vars
  BY DEF Next
<1>1. ASSUME NEW j \in JobIds, NEW kind, NEW v, Insert(j, kind, v)
      PROVE  Born(j)'
  BY <1>1 DEF Insert, TableTypeOK, Born
<1>2. CASE CreateImport(c)
  BY <1>1, <1>2 DEF CreateImport
<1>3. CASE CreateVideoJob(c)
  BY <1>1, <1>3 DEF CreateVideoJob
<1>4. CASE WriteRetry(c)
  <2>1. PICK j \in JobIds : j = client[c].job
    BY <1>4 DEF WriteRetry, WithJob, HandlerHasJob
  <2>2. CASE Exists(j)
    <3>1. Born(j)'
      BY <1>0, <2>2, RowsPersist DEF Persists, Born, Exists, Active, Finished
    <3> QED BY <1>4, <2>1, <2>2, <3>1 DEF WriteRetry
  <2>3. CASE ~Exists(j)
    BY <1>4, <2>1, <2>3 DEF WriteRetry
  <2> QED BY <2>2, <2>3
<1>5. ASSUME NEW j \in JobIds, ReadForCancel(c, j) \/ ReadForRetry(c, j)
      PROVE  \E op \in {"cancelQueued", "cancelStarted", "requeue"} :
                Continue(c, op, j, NoVideo) /\ Born(j) /\ ~IsDelete(j)
  BY <1>5 DEF ReadForCancel, ReadForRetry, Born, Active, Failed
<1>6. CASE \E v \in Videos : FindActiveJob(c, v)
  BY <1>6 DEF FindActiveJob
<1>7. CASE CancelAll(c) \/ Clear(c)
  BY <1>7 DEF CancelAll, Clear
<1>8. CASE Enqueue(c) \/ WriteCancel(c)
  BY <1>8 DEF Enqueue, WriteCancel
<1> QED
  BY <1>2, <1>3, <1>4, <1>5, <1>6, <1>7, <1>8 DEF ClientStep, Resume

LEMMA BornStep ==
    ASSUME Typed, QueueMirrorsScheduled, JobsAreBorn, [Next]_vars
    PROVE  JobsAreBorn'
<1> USE DEF Typed, TypeInv, TypeOK
<1>0. \A j \in JobIds : Born(j) => Born(j)'
  BY RowsPersist DEF Persists
<1>1. CASE WorkerStep
  <2>1. UNCHANGED client
    BY <1>1 DEF WorkerStep, TakeJob, ClaimJob, ReadJob, RejectJob, StartJob, CheckCancel,
         ReadProgress, UpdateProgress, WorkFails, WorkEnds, CompleteJob, CancelJob, FailJob,
         JobRaises, CatchRead, CatchMark, ReleaseJob
  <2>2. /\ scheduled' \subseteq scheduled
        /\ HasJob' => worker'.job = worker.job \/ worker'.job \in scheduled
    <3>1. CASE Works
      BY <3>1 DEF Works, schedule
    <3>2. CASE TakeJob
      <4>1. queue # <<>> /\ Head(queue) = queue[1] /\ 1 \in 1..Len(queue)
        BY <3>2, HeadTailProperties, LenProperties, EmptySeq DEF TakeJob
      <4>2. Head(queue) \in JobIds
        BY <4>1
      <4>3. Head(queue) \in scheduled
        BY <4>1, <4>2 DEF QueueMirrorsScheduled, InQueue
      <4> QED BY <3>2, <4>3 DEF TakeJob, Worker
    <3>3. CASE ClaimJob
      BY <3>3, MoveType DEF ClaimJob, WorkerPc, Busy
    <3>4. CASE ReleaseJob
      BY <3>4 DEF ReleaseJob, IdleWorker, HasJob, NoJob, JobIds
    <3>5. CASE CatchMark /\ ~Exists(worker.job)
      BY <3>5 DEF CatchMark, DeadWorker, HasJob, NoJob, JobIds
    <3> QED BY <1>1, <3>1, <3>2, <3>3, <3>4, <3>5, WorkerWorks
  <2> QED BY <1>0, <2>1, <2>2 DEF JobsAreBorn, HasJob, HandlerHasJob
<1>2. ASSUME NEW c \in Clients, ClientStep(c)
      PROVE  JobsAreBorn'
  <2>1. UNCHANGED worker /\ \A j \in scheduled' : Born(j)
    <3>1. CASE UNCHANGED schedule
      BY <1>2, <3>1, ClientSchedule DEF schedule, JobsAreBorn
    <3>2. CASE Enqueue(c)
      BY <3>2 DEF Enqueue, JobsAreBorn, WithJob
    <3> QED BY <1>2, <3>1, <3>2, ClientSchedule
  <2>2. ASSUME NEW d \in Clients, client'[d].op \in WithJob
        PROVE  client'[d].job \in JobIds /\ jobs'[client'[d].job].status # "unborn"
    <3>1. CASE client'[d] = client[d]
      BY <1>0, <2>2, <3>1 DEF JobsAreBorn, HandlerHasJob, Born
    <3>2. CASE client'[d] # client[d]
      BY <1>0, <1>2, <2>2, <3>2, ClientMoves
         DEF Continue, Return, IdleClient, WithJob, Born
    <3> QED BY <3>1, <3>2
  <2>3. \A j \in scheduled' : j \in JobIds
    BY <1>2, ClientType DEF Typed
  <2>4. HasJob' => Born(worker.job)'
    BY <1>0, <2>1 DEF JobsAreBorn, HasJob, Born
  <2> QED BY <1>0, <2>1, <2>2, <2>3, <2>4 DEF JobsAreBorn, Born
<1>3. CASE Restart
  <2>1. \A j \in scheduled' : j \in JobIds /\ Born(j)
    BY <1>3 DEF Restart, QueuedIds, Born
  <2>2. ~HasJob' /\ \A c \in Clients : client'[c].op \notin WithJob
    BY <1>3 DEF Restart, IdleWorker, IdleClient, HasJob, NoJob, JobIds, WithJob
  <2> QED BY <1>0, <2>1, <2>2 DEF JobsAreBorn
<1>4. CASE UNCHANGED vars
  BY <1>4 DEF vars, JobsAreBorn, HasJob, Born
<1> QED BY <1>1, <1>2, <1>3, <1>4 DEF Next

-----------------------------------------------------------------------------
(* Deletions.                                                              *)

LEMMA WorkerKeepsClients ==
    ASSUME WorkerStep
    PROVE  UNCHANGED client
BY DEF WorkerStep, TakeJob, ClaimJob, ReadJob, RejectJob, StartJob, CheckCancel, ReadProgress,
       UpdateProgress, WorkFails, WorkEnds, CompleteJob, CancelJob, FailJob, JobRaises,
       CatchRead, CatchMark, ReleaseJob

LEMMA SpareStep ==
    ASSUME Typed, JobsAreBorn, HandlersSpareDeletes, [Next]_vars
    PROVE  HandlersSpareDeletes'
<1>0. \A j \in JobIds : Persists(j)
  BY RowsPersist
<1>1. ASSUME NEW d \in Clients, client'[d] = client[d],
             client'[d].op \in {"cancelQueued", "cancelStarted", "requeue"}
      PROVE  jobs'[client'[d].job].kind # "delete"
  BY <1>0, <1>1 DEF HandlersSpareDeletes, JobsAreBorn, WithJob, Persists, IsDelete, Typed,
       HandlerHasJob
<1>2. CASE UNCHANGED client
  BY <1>1, <1>2 DEF HandlersSpareDeletes, IsDelete
<1>3. ASSUME NEW c \in Clients, ClientStep(c)
      PROVE  HandlersSpareDeletes'
  <2> SUFFICES ASSUME NEW d \in Clients, client'[d] # client[d],
                      client'[d].op \in {"cancelQueued", "cancelStarted", "requeue"}
               PROVE  jobs'[client'[d].job].kind # "delete"
    BY <1>1 DEF HandlersSpareDeletes, IsDelete
  <2> QED
    BY <1>0, <1>3, ClientMoves
       DEF Continue, Return, IdleClient, Persists, IsDelete, Typed, TypeInv, TypeOK
<1>4. CASE Restart
  BY <1>4 DEF Restart, IdleClient, HandlersSpareDeletes
<1> QED BY <1>2, <1>3, <1>4, WorkerKeepsClients DEF Next, vars

\* A handler leaves the row of a deletion alone, unless it clears it.
LEMMA ClientSparesDeletes ==
    ASSUME Typed, HandlersSpareDeletes, NEW c \in Clients, ClientStep(c),
           NEW j \in JobIds, IsDelete(j), Born(j)
    PROVE  \/ jobs'[j].status = jobs[j].status
           \/ jobs[j].status \in Finished /\ jobs'[j].status = "gone"
<1> USE DEF Typed, TypeInv, TypeOK
<1>1. ASSUME NEW i \in JobIds, NEW s \in Active \cup Finished, ~IsDelete(i), Agreeing(i, s)
      PROVE  jobs'[j].status = jobs[j].status
  BY <1>1, AgreeingRows
<1>2. ASSUME NEW i \in JobIds, NEW kind \in Kinds, NEW v, Insert(i, kind, v)
      PROVE  jobs'[j].status = jobs[j].status
  BY <1>2 DEF Insert, TableTypeOK, Row, Born
<1>3. CASE DeleteRows({"completed"}) \/ DeleteRows(Failed)
  BY <1>3 DEF DeleteRows, TableTypeOK, Row, Failed, Finished
<1>4. CASE CancelAllActive
  BY <1>4 DEF CancelAllActive
<1> QED
  BY <1>1, <1>2, <1>3, <1>4, ClientTable DEF HandlersSpareDeletes, Active, Finished

\* The only deletions a step of a handler adds are queued ones.
LEMMA NewDeletesAreQueued ==
    ASSUME Typed, NEW c \in Clients, ClientStep(c), NEW j \in JobIds, ~Born(j), Born(j)'
    PROVE  jobs'[j].status = "queued" /\ client'[c].op = "enqueue" /\ client'[c].job = j
<1> USE DEF Typed, TypeInv, TypeOK
<1>1. ASSUME NEW i \in JobIds, NEW s \in Active \cup Finished, Agreeing(i, s)
      PROVE  FALSE
  BY <1>1 DEF Agreeing, UpdateJob, TableTypeOK, Row, Born, Exists, Active, Finished
<1>2. ASSUME NEW i \in JobIds, NEW kind \in Kinds, NEW v, Insert(i, kind, v)
      PROVE  i = j /\ jobs'[j].status = "queued"
  BY <1>2 DEF Insert, TableTypeOK, Row, Born
<1>3. ~DeleteRows({"completed"}) /\ ~DeleteRows(Failed)
  BY DEF DeleteRows, TableTypeOK, Row, Failed, Born
<1>4. ~CancelAllActive
  BY DEF CancelAllActive, TableTypeOK, Row, Active, Born
<1>5. jobs' # jobs
  BY DEF Born
<1> QED
  BY <1>1, <1>2, <1>3, <1>4, <1>5, ClientTable DEF Active, Finished, Continue

LEMMA NotCancelledStep ==
    ASSUME Inv, [Next]_vars
    PROVE  DeletesAreNotCancelled'
<1> USE DEF Inv, DeletesAreNotCancelled
<1>0. \A j \in JobIds : Persists(j)
  BY RowsPersist
<1>1. CASE WorkerStep
  <2> SUFFICES ASSUME NEW j \in JobIds, IsDelete(j)'
               PROVE  jobs'[j].status \notin {"cancelling", "cancelled"}
    OBVIOUS
  <2>1. CASE j # worker.job
    BY <1>1, <2>1, WorkerRows DEF IsDelete
  <2>2. CASE j = worker.job
    <3>1. HasJob /\ IsDelete(worker.job)
      BY <1>0, <2>2 DEF HasJob, JobsAreBorn, IsDelete, Persists
    <3>2. ~At("cancel") /\ (At("write") => ~worker.seen)
      BY <3>1 DEF DeleteIsFollowed, At
    <3>3. CASE \E s \in {"running", "completed", "failed"} : Agreeing(j, s)
      BY <2>2, <3>1, <3>3, AgreeingRows DEF Typed, TypeInv, TypeOK, Active, Finished
    <3>4. CASE RemoveVideo(jobs[worker.job].target)
      BY <2>2, <3>1, <3>4 DEF RemoveVideo, Typed, TypeInv, TypeOK, TableTypeOK, Row
    <3>5. CASE UNCHANGED jobs
      BY <2>2, <3>1, <3>5
    <3> QED BY <1>1, <2>2, <3>2, <3>3, <3>4, <3>5, WorkerTable
  <2> QED BY <2>1, <2>2
<1>2. ASSUME NEW c \in Clients, ClientStep(c), NEW j \in JobIds, IsDelete(j)'
      PROVE  jobs'[j].status \notin {"cancelling", "cancelled"}
  <2>1. CASE Born(j)
    BY <1>0, <1>2, <2>1, ClientSparesDeletes DEF Persists, IsDelete
  <2>2. CASE ~Born(j) /\ Born(j)'
    BY <1>2, <2>2, NewDeletesAreQueued
  <2> QED BY <2>1, <2>2 DEF Born
<1>3. CASE Restart
  BY <1>3 DEF Restart, MarkInterrupted, IsDelete, Typed, TypeInv, TypeOK, TableTypeOK, Row
<1>4. CASE UNCHANGED vars
  BY <1>4 DEF vars, IsDelete
<1> QED BY <1>1, <1>2, <1>3, <1>4 DEF Next

\* What the thread does with a deletion, from the row it finds at each place.
LEMMA FollowWorks ==
    ASSUME Inv, WorkerStep, Works, HasJob, IsDelete(worker.job)
    PROVE  DeleteIsFollowed'
<1> USE DEF Inv, Typed, TypeInv, TypeOK, At
<1> DEFINE k == worker.job
           s == jobs[k].status
<1>a. k \in JobIds /\ worker'.job = k /\ worker.pc \in Busy
  BY DEF HasJob, Works
<1>b. /\ worker.pc \notin {"check", "cancel"}
      /\ At("start") => s = "queued"
      /\ worker.pc \in {"work", "write", "finish"} => s = "running"
      /\ At("write") => ~worker.seen
      /\ worker.pc \in {"fail", "except", "mark"} => s \in {"queued", "running"}
  BY DEF DeleteIsFollowed
<1>c. ASSUME NEW pc \in WorkerPc, Goto(pc)
      PROVE  worker'.pc = pc
  BY <1>c, MoveType
<1>d. Busy \subseteq WorkerPc
  BY DEF WorkerPc
<1>e. ASSUME NEW t \in Active \cup Finished, Agreeing(k, t), s \in {"queued", "running"}
      PROVE  jobs'[k].status = t
  BY <1>a, <1>e, AgreeingRows DEF Exists, Active
<1>f. SUFFICES /\ worker'.pc \notin {"check", "cancel"}
               /\ worker'.pc = "start" => jobs'[k].status = "queued"
               /\ worker'.pc \in {"work", "write", "finish"} => jobs'[k].status = "running"
               /\ worker'.pc = "write" => ~worker'.seen
               /\ worker'.pc \in {"fail", "except", "mark"} =>
                     jobs'[k].status \in {"queued", "running"}
               /\ worker'.pc = "done" => jobs'[k].status \notin Active
  BY <1>a DEF DeleteIsFollowed
<1>g. s \in {"queued", "running"} => Exists(k)
  BY DEF Exists, Active
<1> HIDE DEF k, s
<1>1. CASE ReadJob
  <2>1. s \in Active => s = "queued"
    BY <1>1, <1>a DEF ReadJob, DeletesAreNotCancelled, RunningIsProcessing, Active, s, k
  <2>2. IF s \in Active THEN worker'.pc \in {"fail", "start"} ELSE worker'.pc = "done"
    BY <1>1 DEF ReadJob, Worker, s, k
  <2>3. jobs'[k].status = s
    BY <1>1 DEF ReadJob, table, s
  <2> QED BY <2>1, <2>2, <2>3
<1>2. CASE StartJob
  <2>1. jobs'[k].status = "running"
    BY <1>2, <1>a, <1>b, <1>e, MarkAgrees DEF StartJob, Active, k
  <2>2. worker'.pc = "work"
    BY <1>2, <1>b, <1>c, <1>d, <1>g DEF StartJob, Then, k, Busy
  <2> QED BY <2>1, <2>2
<1>3. CASE ReadProgress
  <2>1. jobs[k].cancel = FALSE
    BY <1>3, <1>a, <1>b DEF ReadProgress, CancelFlagAgrees, TableTypeOK, Row, s
  <2>2. worker'.pc = "write" /\ worker'.seen = FALSE
    BY <1>3, <2>1 DEF ReadProgress, Worker, k
  <2> QED BY <1>3, <1>b, <2>2 DEF ReadProgress, table, s
<1>4. CASE UpdateProgress
  <2>1. worker.seen = FALSE
    BY <1>4, <1>b DEF UpdateProgress, Worker
  <2>2. Agreeing(k, "running")
    BY <1>4, <1>a, <2>1, MarkAgrees DEF UpdateProgress, k
  <2>3. worker'.pc = "work"
    BY <1>4, <1>b, <1>g DEF UpdateProgress, Worker, k
  <2> QED BY <1>4, <1>b, <1>e, <2>2, <2>3 DEF UpdateProgress, Active
<1>5. CASE WorkFails
  BY <1>5, <1>b, <1>c, <1>d DEF WorkFails, table, Busy, s
<1>6. CASE WorkEnds
  <2>1. jobs[worker.job].kind = "delete"
    BY DEF IsDelete
  <2>2. worker'.pc = "finish" /\ RemoveVideo(jobs[worker.job].target)
    BY <1>6, <2>1, <1>c, <1>d DEF WorkEnds, Busy
  <2>3. jobs'[k].status = s
    BY <1>a, <2>2 DEF RemoveVideo, TableTypeOK, Row, s
  <2> QED BY <1>6, <1>b, <2>2, <2>3 DEF WorkEnds
<1>7. CASE CompleteJob
  <2>1. jobs'[k].status = "completed" /\ worker'.pc = "done"
    BY <1>7, <1>a, <1>b, <1>c, <1>d, <1>e, <1>g, MarkAgrees
       DEF CompleteJob, Then, Busy, Finished, k
  <2> QED BY <2>1 DEF Active
<1>8. CASE FailJob
  <2>1. jobs'[k].status = "failed" /\ worker'.pc = "done"
    BY <1>8, <1>a, <1>b, <1>c, <1>d, <1>e, <1>g, MarkAgrees
       DEF FailJob, Then, Busy, Finished, k
  <2> QED BY <2>1 DEF Active
<1>9. CASE JobRaises
  <2>1. s \in {"queued", "running"} /\ jobs'[k].status = s
    BY <1>9, <1>a, <1>b DEF JobRaises, table, FreshDeletes, s, k
  <2>2. worker'.pc \in {"except", "fail"}
    BY <1>9, <1>c, <1>d DEF JobRaises, Busy
  <2> QED BY <2>1, <2>2
<1>10. CASE CatchRead
  BY <1>10, <1>b, <1>c, <1>d, <1>g DEF CatchRead, Then, table, Busy, s, k
<1>11. CASE CatchMark
  <2>1. jobs'[k].status = "failed" /\ worker'.pc = "done"
    BY <1>11, <1>a, <1>b, <1>c, <1>d, <1>e, <1>g, MarkAgrees
       DEF CatchMark, Busy, Finished, k
  <2> QED BY <2>1 DEF Active
<1>12. ~RejectJob /\ ~CheckCancel /\ ~CancelJob
  BY <1>b DEF RejectJob, CheckCancel, CancelJob
<1>13. ~TakeJob /\ ~ClaimJob /\ ~ReleaseJob
  BY DEF Works, TakeJob, ClaimJob, ReleaseJob, IdleWorker, Busy
<1> QED
  BY <1>1, <1>2, <1>3, <1>4, <1>5, <1>6, <1>7, <1>8, <1>9, <1>10, <1>11, <1>12, <1>13
     DEF WorkerStep

LEMMA FollowStep ==
    ASSUME Inv, [Next]_vars
    PROVE  DeleteIsFollowed'
<1> USE DEF Inv
<1>0. \A j \in JobIds : Persists(j)
  BY RowsPersist
<1>1. CASE WorkerStep
  <2>1. CASE Works
    <3>1. CASE HasJob /\ IsDelete(worker.job)
      BY <1>1, <2>1, <3>1, FollowWorks
    <3>2. CASE HasJob /\ ~IsDelete(worker.job)
      BY <1>0, <2>1, <3>2 DEF Works, HasJob, JobsAreBorn, Persists, IsDelete, DeleteIsFollowed
    <3>3. CASE ~HasJob
      BY <2>1, <3>3 DEF Works, HasJob, DeleteIsFollowed
    <3> QED BY <3>1, <3>2, <3>3
  <2>2. CASE TakeJob
    <3>1. worker'.pc = "taken"
      BY <2>2 DEF TakeJob, Typed, TypeInv, TypeOK, Worker
    <3> QED BY <3>1 DEF DeleteIsFollowed, At
  <2>3. CASE ClaimJob
    <3>1. worker'.pc = "read"
      BY <2>3, MoveType DEF ClaimJob, Typed, TypeInv, TypeOK, WorkerPc, Busy
    <3> QED BY <3>1 DEF DeleteIsFollowed, At
  <2>4. CASE ReleaseJob \/ (CatchMark /\ ~Exists(worker.job))
    BY <2>4 DEF ReleaseJob, CatchMark, IdleWorker, DeadWorker, DeleteIsFollowed, HasJob, NoJob,
         JobIds
  <2> QED BY <1>1, <2>1, <2>2, <2>3, <2>4, WorkerWorks
<1>2. ASSUME NEW c \in Clients, ClientStep(c)
      PROVE  DeleteIsFollowed'
  <2>1. UNCHANGED worker
    BY <1>2, ClientSchedule
  <2>2. CASE HasJob /\ IsDelete(worker.job)
    BY <1>2, <2>1, <2>2, ClientSparesDeletes
       DEF DeleteIsFollowed, JobsAreBorn, HasJob, IsDelete, At, Active, Finished
  <2>3. CASE HasJob /\ ~IsDelete(worker.job)
    BY <1>0, <2>1, <2>3 DEF HasJob, JobsAreBorn, Persists, IsDelete, DeleteIsFollowed
  <2>4. CASE ~HasJob
    BY <2>1, <2>4 DEF HasJob, DeleteIsFollowed
  <2> QED BY <2>2, <2>3, <2>4
<1>3. CASE Restart
  BY <1>3 DEF Restart, IdleWorker, DeleteIsFollowed, HasJob, NoJob, JobIds
<1>4. CASE UNCHANGED vars
  BY <1>4 DEF vars, DeleteIsFollowed, HasJob, IsDelete, At
<1> QED BY <1>1, <1>2, <1>3, <1>4 DEF Next

\* Only the handler that inserted a deletion is about to enqueue it.
LEMMA NewWaiters ==
    ASSUME Inv, NEW c \in Clients, ClientStep(c), NEW d \in Clients, NEW j \in JobIds,
           Waits(d, j)', IsDelete(j)'
    PROVE  Waits(d, j) \/ (d = c /\ ~Born(j))
<1> USE DEF Inv, Typed, TypeInv, TypeOK
<1>0. \A i \in JobIds : Persists(i)
  BY RowsPersist DEF Next
<1>1. ASSUME NEW i \in JobIds, NEW kind, NEW v, Insert(i, kind, v)
      PROVE  ~Born(i)
  BY <1>1 DEF Insert, Born
<1>2. CASE client'[d] = client[d]
  BY <1>2 DEF Waits
<1>3. CASE CreateImport(c) \/ CreateVideoJob(c)
  BY <1>1, <1>3 DEF CreateImport, CreateVideoJob, Continue, Return, Waits, IdleClient
<1>4. CASE WriteRetry(c)
  <2>1. client[c].job \in JobIds /\ ~IsDelete(client[c].job) /\ Born(client[c].job)
    BY <1>4 DEF WriteRetry, HandlerHasJob, WithJob, HandlersSpareDeletes, JobsAreBorn
  <2>2. \A i \in JobIds : i = client[c].job => jobs'[i].kind # "delete"
    BY <1>0, <2>1 DEF Persists, IsDelete
  <2> QED BY <1>4, <2>1, <2>2 DEF WriteRetry, Continue, Return, Waits, IdleClient, IsDelete
<1>5. CASE client'[d] # client[d] /\ d = c /\ client'[d].op # "enqueue"
  BY <1>5 DEF Waits
<1> QED
  BY <1>2, <1>3, <1>4, <1>5 DEF ClientStep, Resume, CancelAll, Clear, Enqueue, WriteCancel,
     FindActiveJob, ReadForCancel, ReadForRetry, Continue, Return, IdleClient

LEMMA FreshStep ==
    ASSUME Inv, [Next]_vars
    PROVE  FreshDeletes'
<1> USE DEF Inv, Typed, TypeInv, TypeOK, At
<1>0. \A j \in JobIds : Persists(j)
  BY RowsPersist
<1>1. CASE WorkerStep
  <2>1. UNCHANGED client
    BY <1>1, WorkerKeepsClients
  <2>2. /\ scheduled' \subseteq scheduled
        /\ processing' \subseteq processing \cup {worker.job}
        /\ processing' \subseteq processing \/ At("taken")
    BY <1>1, WorkerWorks DEF Works, schedule, TakeJob, ClaimJob, ReleaseJob, CatchMark
  <2>3. ASSUME NEW j \in JobIds, j \notin processing
        PROVE  jobs'[j].status = jobs[j].status /\ jobs'[j].kind = jobs[j].kind
    <3>1. CASE worker.job # j
      BY <1>1, <3>1, WorkerRows
    <3>2. CASE worker.job = j
      <4>1. worker.pc \notin Busy
        BY <2>3, <3>2 DEF QueueMirrorsScheduled
      <4>2. UNCHANGED jobs
        BY <1>1, <4>1, WorkerTable DEF Busy
      <4> QED BY <4>2
    <3> QED BY <3>1, <3>2
  <2>4. ASSUME NEW c \in Clients, NEW j \in JobIds, Waits(c, j)', IsDelete(j)'
        PROVE  /\ jobs'[j].status = "queued"
               /\ j \notin scheduled' /\ j \notin processing'
               /\ \A d \in Clients \ {c} : ~Waits(d, j)'
    <3>1. Waits(c, j) /\ Born(j)
      BY <2>1, <2>4 DEF Waits, JobsAreBorn, WithJob
    <3>2. IsDelete(j)
      BY <1>0, <2>4, <3>1 DEF Persists, IsDelete
    <3>3. /\ jobs[j].status = "queued" /\ j \notin scheduled /\ j \notin processing
          /\ \A d \in Clients \ {c} : ~Waits(d, j)
      BY <3>1, <3>2 DEF FreshDeletes
    <3>4. At("taken") => worker.job \in scheduled
      BY DEF QueueMirrorsScheduled, JobInHand, HasJob
    <3> QED BY <2>1, <2>2, <2>3, <3>3, <3>4 DEF Waits
  <2>5. ASSUME NEW j \in JobIds, IsDelete(j)', j \in scheduled
        PROVE  jobs'[j].status = "queued"
    <3>1. j \notin processing
      BY <2>5 DEF QueueMirrorsScheduled
    <3> QED BY <2>3, <2>5, <3>1 DEF FreshDeletes, IsDelete
  <2>6. ASSUME NEW j \in JobIds, IsDelete(j)', worker'.job = j, worker'.pc \in {"taken", "read"}
        PROVE  jobs'[j].status = "queued"
    <3>1. CASE TakeJob
      <4>1. queue # <<>> /\ Head(queue) = queue[1] /\ 1 \in 1..Len(queue)
        BY <3>1, HeadTailProperties, LenProperties, EmptySeq DEF TakeJob
      <4>2. j = queue[1]
        BY <2>6, <3>1, <4>1 DEF TakeJob, Worker
      <4>3. j \in scheduled
        BY <4>1, <4>2 DEF QueueMirrorsScheduled, InQueue
      <4> QED BY <2>5, <2>6, <4>3
    <3>2. CASE ClaimJob
      <4>1. worker.job = j
        BY <2>6, <3>2 DEF ClaimJob, Goto, Worker
      <4> QED BY <2>6, <3>2, <4>1 DEF ClaimJob, FreshDeletes, IsDelete
    <3>3. ~Works
      BY <1>1, <2>6, DoneIsSettled DEF Works, Busy, ClaimJob
    <3>4. ~ReleaseJob /\ ~(CatchMark /\ ~Exists(worker.job))
      BY <2>6 DEF ReleaseJob, CatchMark, IdleWorker, DeadWorker
    <3> QED BY <1>1, <3>1, <3>2, <3>3, <3>4, WorkerWorks
  <2> QED BY <2>2, <2>4, <2>5, <2>6 DEF FreshDeletes
<1>2. ASSUME NEW c \in Clients, ClientStep(c)
      PROVE  FreshDeletes'
  <2>1. UNCHANGED worker /\ UNCHANGED processing
    BY <1>2, ClientSchedule
  <2>2. ASSUME NEW j \in JobIds, Born(j), IsDelete(j)', jobs[j].status = "queued"
        PROVE  jobs'[j].status = "queued"
    <3>1. IsDelete(j)
      BY <1>0, <2>2 DEF Persists, IsDelete
    <3> QED BY <1>2, <2>2, <3>1, ClientSparesDeletes DEF Finished
  <2>3. \A j \in scheduled' : j \in scheduled \/ Waits(c, j)
    BY <1>2, ClientSchedule DEF schedule, Enqueue, Waits
  <2>4. ASSUME NEW d \in Clients, NEW j \in JobIds, Waits(d, j)', IsDelete(j)'
        PROVE  /\ jobs'[j].status = "queued"
               /\ j \notin scheduled' /\ j \notin processing'
               /\ \A e \in Clients \ {d} : ~Waits(e, j)'
    <3>1. CASE ~Born(j)
      <4>1. Born(j)'
        BY <1>2, <2>4, ClientMoves, NewWaiters, <3>1
           DEF Continue, Return, IdleClient, Waits, JobsAreBorn, WithJob, Born
      <4>2. jobs'[j].status = "queued"
        BY <1>2, <3>1, <4>1, NewDeletesAreQueued
      <4>3. j \notin scheduled /\ ~Waits(c, j) /\ \A e \in Clients : ~Waits(e, j)
        BY <3>1 DEF JobsAreBorn, Waits, WithJob
      <4>4. j \notin processing
        BY <3>1 DEF JobsAreBorn, HasJob, QueueMirrorsScheduled
      <4>5. \A e \in Clients : Waits(e, j)' => e = c
        BY <1>2, <2>4, <4>3, NewWaiters
      <4> QED BY <2>1, <2>3, <2>4, <4>2, <4>3, <4>4, <4>5
    <3>2. CASE Born(j)
      <4>1. Waits(d, j) /\ IsDelete(j)
        BY <1>0, <1>2, <2>4, <3>2, NewWaiters DEF Persists, IsDelete
      <4>2. /\ jobs[j].status = "queued" /\ j \notin scheduled /\ j \notin processing
            /\ \A e \in Clients \ {d} : ~Waits(e, j)
        BY <4>1 DEF FreshDeletes
      <4>3. \A e \in Clients : Waits(e, j)' => Waits(e, j)
        BY <1>2, <2>4, <3>2, NewWaiters
      <4>4. j \notin scheduled'
        <5>1. CASE Enqueue(c)
          <6>1. ~Waits(c, j)'
            BY <5>1 DEF Enqueue, Return, IdleClient, Waits
          <6>2. c # d
            BY <2>4, <6>1
          <6> QED BY <2>3, <4>2, <6>2
        <5>2. CASE UNCHANGED schedule
          BY <4>2, <5>2 DEF schedule
        <5> QED BY <1>2, <5>1, <5>2, ClientSchedule
      <4> QED BY <2>1, <2>2, <2>4, <3>2, <4>2, <4>3, <4>4
    <3> QED BY <3>1, <3>2
  <2>5. ASSUME NEW j \in JobIds, IsDelete(j)', j \in scheduled'
        PROVE  jobs'[j].status = "queued"
    <3>1. Born(j)
      BY <2>3, <2>5 DEF JobsAreBorn, Waits, WithJob
    <3>2. IsDelete(j)
      BY <1>0, <2>5, <3>1 DEF Persists, IsDelete
    <3> QED BY <2>2, <2>3, <2>5, <3>1, <3>2 DEF FreshDeletes
  <2>6. ASSUME NEW j \in JobIds, IsDelete(j)', worker'.job = j, worker'.pc \in {"taken", "read"}
        PROVE  jobs'[j].status = "queued"
    <3>1. Born(j)
      BY <2>1, <2>6 DEF JobsAreBorn, HasJob
    <3>2. IsDelete(j)
      BY <1>0, <2>6, <3>1 DEF Persists, IsDelete
    <3> QED BY <2>1, <2>2, <2>6, <3>1, <3>2 DEF FreshDeletes
  <2> QED BY <2>4, <2>5, <2>6 DEF FreshDeletes
<1>3. CASE Restart
  <2>1. \A j \in JobIds : jobs[j].status = "queued" => jobs'[j].status = "queued"
    BY <1>3 DEF Restart, MarkInterrupted, TableTypeOK, Row
  <2>2. \A j \in scheduled' : jobs[j].status = "queued"
    BY <1>3 DEF Restart, QueuedIds
  <2>3. worker'.pc = "idle" /\ \A c \in Clients : client'[c].op = "idle"
    BY <1>3 DEF Restart, IdleWorker, IdleClient
  <2> QED BY <2>1, <2>2, <2>3 DEF FreshDeletes, Waits
<1>4. CASE UNCHANGED vars
  BY <1>4 DEF vars, FreshDeletes, Waits, IsDelete
<1> QED BY <1>1, <1>2, <1>3, <1>4 DEF Next

LEMMA OwnedStep ==
    ASSUME Inv, [Next]_vars
    PROVE  QueuedDeleteIsOwned'
<1> USE DEF Inv, At
<1>0. \A j \in JobIds : Persists(j)
  BY RowsPersist
<1>1. CASE WorkerStep
  <2> SUFFICES ASSUME NEW j \in JobIds, IsDelete(j)', jobs'[j].status = "queued"
               PROVE  \/ j \in scheduled'
                      \/ worker'.job = j /\ worker'.pc \in Unstarted
                      \/ \E c \in Clients : client'[c].op = "enqueue" /\ client'[c].job = j
    BY DEF QueuedDeleteIsOwned
  <2>1. UNCHANGED client
    BY <1>1, WorkerKeepsClients
  <2>2. IsDelete(j) /\ jobs[j].status = "queued"
    <3>1. CASE j # worker.job
      BY <1>1, <3>1, WorkerRows DEF IsDelete
    <3>2. CASE j = worker.job
      <4>1. \/ UNCHANGED jobs
            \/ \E s \in {"running", "cancelling", "completed", "cancelled", "failed"} :
                  Agreeing(j, s)
            \/ RemoveVideo(jobs[worker.job].target)
        BY <1>1, <3>2, WorkerTable
      <4>2. CASE UNCHANGED jobs
        BY <4>2 DEF IsDelete
      <4>3. ASSUME NEW s \in {"running", "cancelling", "completed", "cancelled", "failed"},
                   Agreeing(j, s)
            PROVE  FALSE
        BY <4>3 DEF Agreeing, UpdateJob, Typed, TypeInv, TypeOK, TableTypeOK, Row, Exists, Active
      <4>4. CASE RemoveVideo(jobs[worker.job].target)
        BY <4>4 DEF RemoveVideo, Typed, TypeInv, TypeOK, TableTypeOK, Row, IsDelete
      <4> QED BY <4>1, <4>2, <4>3, <4>4
    <3> QED BY <3>1, <3>2
  <2>3. CASE worker.job = j /\ worker.pc \in Unstarted
    <3>1. Works
      BY <1>1, <2>2, <2>3, WorkerWorks
         DEF TakeJob, ClaimJob, ReleaseJob, CatchMark, Exists, Active, Unstarted
    <3>2. DeleteIsFollowed' /\ worker'.job = j /\ worker'.pc \in Busy
      BY <2>3, <3>1, FollowStep DEF Works
    <3>3. worker'.pc \notin {"check", "cancel", "work", "write", "finish", "done"}
      BY <3>2 DEF DeleteIsFollowed, HasJob, Active
    <3> QED BY <3>2, <3>3 DEF Busy, Unstarted
  <2>4. CASE j \in scheduled
    <3>1. CASE ClaimJob
      <4>1. worker'.pc = "read" /\ worker'.job = worker.job
        BY <3>1, MoveType DEF ClaimJob, Typed, TypeInv, TypeOK, WorkerPc, Busy
      <4> QED BY <2>4, <3>1, <4>1 DEF ClaimJob, Unstarted
    <3>2. CASE ~ClaimJob
      BY <1>1, <2>4, <3>2, WorkerWorks DEF Works, schedule, TakeJob, ReleaseJob, CatchMark
    <3> QED BY <3>1, <3>2
  <2>5. CASE \E c \in Clients : client[c].op = "enqueue" /\ client[c].job = j
    BY <2>1, <2>5
  <2> QED BY <2>2, <2>3, <2>4, <2>5 DEF QueuedDeleteIsOwned
<1>2. ASSUME NEW c \in Clients, ClientStep(c), NEW j \in JobIds, IsDelete(j)',
             jobs'[j].status = "queued"
      PROVE  \/ j \in scheduled'
             \/ worker'.job = j /\ worker'.pc \in Unstarted
             \/ \E d \in Clients : client'[d].op = "enqueue" /\ client'[d].job = j
  <2>1. UNCHANGED worker /\ UNCHANGED processing
    BY <1>2, ClientSchedule
  <2>2. CASE ~Born(j)
    BY <1>2, <2>2, NewDeletesAreQueued DEF Born
  <2>3. CASE Born(j)
    <3>1. IsDelete(j) /\ jobs[j].status = "queued"
      <4>1. IsDelete(j)
        BY <1>0, <1>2, <2>3 DEF Persists, IsDelete
      <4> QED BY <1>2, <2>3, <4>1, ClientSparesDeletes
    <3>2. CASE j \in scheduled
      BY <1>2, <3>2, ClientSchedule DEF schedule, Enqueue
    <3>3. CASE worker.job = j /\ worker.pc \in Unstarted
      BY <2>1, <3>3
    <3>4. ASSUME NEW d \in Clients, client[d].op = "enqueue", client[d].job = j,
                 client'[d] # client[d], j \notin scheduled,
                 ~(worker.job = j /\ worker.pc \in Unstarted)
          PROVE  j \in scheduled'
      <4>1. d = c
        BY <1>2, <3>4, ClientMoves DEF Continue, Return, Typed, TypeInv, TypeOK
      <4>2. Enqueue(c)
        BY <1>2, <3>4, <4>1 DEF ClientStep, Resume, CreateImport, FindActiveJob, CreateVideoJob,
             WriteCancel, WriteRetry, ReadForCancel, ReadForRetry, CancelAll, Clear, Sent
      <4>3. j \notin processing
        <5> SUFFICES ASSUME worker.job = j, worker.pc \in Busy
                     PROVE  worker.pc \in Unstarted
          BY <3>4 DEF QueueMirrorsScheduled
        <5> QED BY <3>1 DEF DeleteIsFollowed, HasJob, Busy, Unstarted, Active
      <4> QED BY <3>4, <4>1, <4>2, <4>3 DEF Enqueue
    <3> QED BY <3>1, <3>2, <3>3, <3>4 DEF QueuedDeleteIsOwned
  <2> QED BY <2>2, <2>3
<1>3. CASE Restart
  <2>1. ASSUME NEW j \in JobIds, jobs'[j].status = "queued"
        PROVE  jobs[j].status = "queued"
    BY <1>3, <2>1 DEF Restart, MarkInterrupted, Typed, TypeInv, TypeOK, TableTypeOK, Row
  <2>2. \A j \in JobIds : jobs[j].status = "queued" => j \in scheduled'
    BY <1>3 DEF Restart, QueuedIds
  <2> QED BY <2>1, <2>2 DEF QueuedDeleteIsOwned
<1>4. CASE UNCHANGED vars
  BY <1>4 DEF vars, QueuedDeleteIsOwned, IsDelete
<1>5. ASSUME NEW c \in Clients, ClientStep(c)
      PROVE  QueuedDeleteIsOwned'
  BY <1>2, <1>5 DEF QueuedDeleteIsOwned
<1> QED BY <1>1, <1>3, <1>4, <1>5 DEF Next

LEMMA InvStep == Inv /\ [Next]_vars => Inv'
BY TypeStep, MirrorStep, RunningStep, FlagStep, BornStep, SpareStep, NotCancelledStep,
   FollowStep, FreshStep, OwnedStep DEF Inv

LEMMA InvInit == Init => Inv
<1> SUFFICES ASSUME Init PROVE Inv
  OBVIOUS
<1>1. Typed
  BY TypeInit DEF Typed, Init, JobInHand, IdleWorker, HandlerHasJob, IdleClient, WithJob
<1>2. ~HasJob /\ \A c \in Clients : client[c].op = "idle"
  BY DEF Init, IdleWorker, IdleClient, HasJob, NoJob, JobIds
<1>3. \A j \in JobIds : jobs[j].status = "unborn" /\ jobs[j].cancel = FALSE /\ ~IsDelete(j)
  BY DEF Init, TableInit, IsDelete
<1>4. QueueMirrorsScheduled
  BY DEF Init, QueueMirrorsScheduled, IdleWorker, InQueue, At, Busy
<1>5. JobsAreBorn /\ HandlersSpareDeletes /\ DeleteIsFollowed
  BY <1>2 DEF JobsAreBorn, HandlersSpareDeletes, DeleteIsFollowed, WithJob, Init
<1>6. RunningIsProcessing /\ CancelFlagAgrees /\ DeletesAreNotCancelled /\ QueuedDeleteIsOwned
  BY <1>3 DEF RunningIsProcessing, CancelFlagAgrees, DeletesAreNotCancelled, QueuedDeleteIsOwned
<1>7. FreshDeletes
  BY <1>3 DEF FreshDeletes
<1> QED BY <1>1, <1>4, <1>5, <1>6, <1>7 DEF Inv

LEMMA InvAlways == Spec => []Inv
BY InvInit, InvStep, PTL DEF Spec

-----------------------------------------------------------------------------
(* The theorems.                                                           *)

\* The id sets that ImportWorker.enqueue consults describe the queue and the
\* thread exactly, under any interleaving of handlers, thread and restarts:
\* no id waits twice, and none waits while the thread works on it.
THEOREM QueueIsMirrored == Spec => []QueueMirrorsScheduled
BY InvAlways, PTL DEF Inv

\* A row says running only while the worker thread executes that very job.
THEOREM OneRunningJob == Spec => []RunningIsProcessing
BY InvAlways, PTL DEF Inv

\* cancel_requested is set exactly in the rows being or having been cancelled.
THEOREM FlagsAgree == Spec => []CancelFlagAgrees
BY InvAlways, PTL DEF Inv

\* No queued deletion is forgotten: it is in the queue, or about to be put
\* there, or about to be started.
THEOREM DeletesAreOwned == Spec => []QueuedDeleteIsOwned
BY InvAlways, PTL DEF Inv

-----------------------------------------------------------------------------
(* Refinement: the deletions implement DeleteTasks.                        *)

LEMMA PhaseMoves ==
    ASSUME NEW k \in JobIds, \A j \in JobIds \ {k} : DeletePhase(j)' = DeletePhase(j)
    PROVE  Deletions!Move(k, DeletePhase(k), DeletePhase(k)')
<1> DEFINE phase == [j \in JobIds |-> DeletePhase(j)]
<1>1. phase' = [j \in JobIds |-> DeletePhase(j)']
  OBVIOUS
<1>2. phase' = [phase EXCEPT ![k] = DeletePhase(k)']
  BY <1>1
<1> QED BY <1>2 DEF Deletions!Move

LEMMA PhasesStay ==
    ASSUME \A j \in JobIds : DeletePhase(j)' = DeletePhase(j)
    PROVE  UNCHANGED [j \in JobIds |-> DeletePhase(j)]
OBVIOUS

\* What the abstract specification allows in one step.
Allowed == Deletions!Next \/ UNCHANGED [j \in JobIds |-> DeletePhase(j)]

\* A row that is no deletion, before and after.
LEMMA OtherPhase ==
    ASSUME NEW j \in JobIds, Persists(j), Born(j), ~IsDelete(j)
    PROVE  DeletePhase(j)' = DeletePhase(j)
BY DEF Persists, IsDelete, DeletePhase

LEMMA RefineWorker ==
    ASSUME Inv, WorkerStep
    PROVE  Allowed
<1> USE DEF Inv, Typed, TypeInv, TypeOK, At
<1>0. \A j \in JobIds : Persists(j)
  BY RowsPersist DEF Next
<1>1. \A j \in JobIds \ {worker.job} : DeletePhase(j)' = DeletePhase(j)
  BY WorkerRows DEF DeletePhase, IsDelete
<1>2. CASE ~HasJob
  BY <1>1, <1>2, PhasesStay DEF Allowed, HasJob
<1>3. CASE HasJob /\ ~IsDelete(worker.job)
  <2>1. PICK k \in JobIds : k = worker.job
    BY <1>3 DEF IsDelete, HasJob
  <2>2. DeletePhase(k)' = DeletePhase(k)
    BY <1>0, <1>3, <2>1, OtherPhase DEF JobsAreBorn
  <2> QED BY <1>1, <2>1, <2>2, PhasesStay DEF Allowed
<1>4. CASE HasJob /\ IsDelete(worker.job)
  <2>1. PICK k \in JobIds : k = worker.job
    BY <1>4 DEF HasJob
  <2>2. IsDelete(k) /\ jobs'[k].kind = "delete" /\ Born(k) /\ Born(k)'
    BY <1>0, <1>4, <2>1 DEF JobsAreBorn, Persists, IsDelete
  <2>3. Deletions!Move(k, DeletePhase(k), DeletePhase(k)')
    BY <1>1, <2>1, PhaseMoves
  <2>4. DeletePhase(k) = IF jobs[k].status = "gone" THEN "cleared" ELSE jobs[k].status
    BY <2>2 DEF DeletePhase, IsDelete, Born
  <2>5. DeletePhase(k)' = IF jobs'[k].status = "gone" THEN "cleared" ELSE jobs'[k].status
    BY <2>2 DEF DeletePhase, Born, IsDelete
  <2>6. ASSUME NEW s \in Active \cup Finished, Agreeing(k, s),
               jobs[k].status \in {"queued", "running"}
        PROVE  Deletions!Move(k, jobs[k].status, s)
    <3>1. jobs'[k].status = s
      BY <2>6, AgreeingRows DEF Exists, Active
    <3> QED BY <2>3, <2>4, <2>5, <2>6, <3>1 DEF Active, Finished
  <2>7. CASE At("start") /\ Agreeing(k, "running")
    <3>1. jobs[k].status = "queued"
      BY <1>4, <2>1, <2>7 DEF DeleteIsFollowed
    <3>2. \A u \in JobIds : DeletePhase(u) # "running"
      BY <2>1, <3>1 DEF RunningIsProcessing, DeletePhase, IsDelete
    <3>3. Deletions!Start(k)
      BY <2>6, <2>7, <3>1, <3>2 DEF Deletions!Start, Active
    <3> QED BY <3>3 DEF Deletions!Next, Allowed
  <2>8. CASE At("write") /\ Agreeing(k, IF worker.seen THEN "cancelling" ELSE "running")
    <3>1. jobs[k].status = "running" /\ Agreeing(k, "running")
      BY <1>4, <2>1, <2>8 DEF DeleteIsFollowed
    <3>2. jobs'[k].status = "running"
      BY <3>1, AgreeingRows DEF Exists, Active
    <3> QED BY <1>1, <2>1, <2>4, <2>5, <3>1, <3>2, PhasesStay DEF Allowed
  <2>9. CASE At("finish") /\ Agreeing(k, "completed")
    <3>1. jobs[k].status = "running"
      BY <1>4, <2>1, <2>9 DEF DeleteIsFollowed
    <3>2. Deletions!Complete(k)
      BY <2>6, <2>9, <3>1 DEF Deletions!Complete, Finished
    <3> QED BY <3>2 DEF Deletions!Next, Allowed
  <2>10. CASE worker.pc \in {"fail", "mark"} /\ Agreeing(k, "failed")
    <3>1. jobs[k].status \in {"queued", "running"}
      BY <1>4, <2>1, <2>10 DEF DeleteIsFollowed
    <3>2. Deletions!Fail(k)
      BY <2>6, <2>10, <3>1 DEF Deletions!Fail, Finished
    <3> QED BY <3>2 DEF Deletions!Next, Allowed
  <2>11. CASE UNCHANGED jobs
    BY <2>11, PhasesStay DEF Allowed, DeletePhase, IsDelete
  <2>12. CASE RemoveVideo(jobs[k].target)
    <3>1. jobs'[k].status = jobs[k].status
      BY <2>12 DEF RemoveVideo, TableTypeOK, Row
    <3> QED BY <1>1, <2>1, <2>4, <2>5, <3>1, PhasesStay DEF Allowed
  <2>13. ~At("cancel")
    BY <1>4 DEF DeleteIsFollowed
  <2> QED BY <2>1, <2>7, <2>8, <2>9, <2>10, <2>11, <2>12, <2>13, WorkerTable
<1> QED BY <1>2, <1>3, <1>4

LEMMA RefineClient ==
    ASSUME Inv, NEW c \in Clients, ClientStep(c)
    PROVE  Allowed
<1> USE DEF Inv, Typed, TypeInv, TypeOK
<1>0. \A j \in JobIds : Persists(j)
  BY RowsPersist DEF Next
<1>1. CASE UNCHANGED jobs
  BY <1>1, PhasesStay DEF Allowed, DeletePhase, IsDelete
<1>2. ASSUME NEW k \in JobIds, NEW kind \in Kinds, NEW v, Insert(k, kind, v)
      PROVE  Allowed
  <2>1. \A j \in JobIds \ {k} : DeletePhase(j)' = DeletePhase(j)
    BY <1>2 DEF Insert, TableTypeOK, DeletePhase, IsDelete
  <2>2. Deletions!Move(k, DeletePhase(k), DeletePhase(k)')
    BY <2>1, PhaseMoves
  <2>3. DeletePhase(k) = "none" /\ jobs'[k].status = "queued"
    BY <1>2 DEF Insert, TableTypeOK, Row, DeletePhase, IsDelete
  <2>4. DeletePhase(k)' \in {"none", "queued"}
    BY <2>3 DEF DeletePhase, IsDelete
  <2>5. CASE DeletePhase(k)' = "none"
    BY <2>1, <2>3, <2>5, PhasesStay DEF Allowed
  <2>6. CASE DeletePhase(k)' = "queued"
    BY <2>2, <2>3, <2>6 DEF Allowed, Deletions!Next, Deletions!Request
  <2> QED BY <2>4, <2>5, <2>6
<1>3. ASSUME NEW i \in JobIds, NEW s \in Active \cup Finished, Agreeing(i, s),
             ~IsDelete(i), Born(i)
      PROVE  Allowed
  <2>1. \A j \in JobIds \ {i} : DeletePhase(j)' = DeletePhase(j)
    BY <1>3, AgreeingRows DEF DeletePhase, IsDelete
  <2>2. DeletePhase(i)' = DeletePhase(i)
    BY <1>0, <1>3, OtherPhase
  <2> QED BY <2>1, <2>2, PhasesStay DEF Allowed
<1>4. CASE CancelAllActive
  <2>1. \A j \in JobIds : DeletePhase(j)' = DeletePhase(j)
    BY <1>4 DEF CancelAllActive, DeletePhase, IsDelete, TableTypeOK, Row, Active
  <2> QED BY <2>1, PhasesStay DEF Allowed
<1>5. ASSUME NEW S \in SUBSET Finished, DeleteRows(S)
      PROVE  Allowed
  <2> DEFINE phase == [j \in JobIds |-> DeletePhase(j)]
             T == {j \in JobIds : IsDelete(j) /\ jobs[j].status \in S}
  <2>1. \A j \in T : phase[j] \in {"completed", "failed"}
    BY <1>5 DEF DeletePhase, IsDelete, DeletesAreNotCancelled, Finished
  <2>2. \A j \in JobIds : DeletePhase(j)' = IF j \in T THEN "cleared" ELSE phase[j]
    BY <1>5 DEF DeletePhase, DeleteRows, IsDelete, TableTypeOK, Row, Finished
  <2>3. phase' = [j \in JobIds |-> DeletePhase(j)']
    OBVIOUS
  <2>4. T \in SUBSET {t \in JobIds : phase[t] \in {"completed", "failed"}}
    BY <2>1
  <2>5. phase' = [j \in JobIds |-> IF j \in T THEN "cleared" ELSE phase[j]]
    BY <2>2, <2>3
  <2>6. Deletions!Forget
    BY <2>4, <2>5 DEF Deletions!Forget
  <2> QED BY <2>6 DEF Allowed, Deletions!Next
<1>6. {"completed"} \in SUBSET Finished /\ Failed \in SUBSET Finished
  BY DEF Finished, Failed
<1> QED
  BY <1>1, <1>2, <1>3, <1>4, <1>5, <1>6, ClientTable
     DEF HandlersSpareDeletes, JobsAreBorn, WithJob, Active, Finished

LEMMA RefineRestart ==
    ASSUME Inv, Restart
    PROVE  Allowed
<1> USE DEF Inv, Typed, TypeInv, TypeOK
<1>0. MarkInterrupted
  BY DEF Restart
<1>1. \A j \in JobIds : DeletePhase(j)' = IF DeletePhase(j) = "running" THEN "failed"
                                          ELSE DeletePhase(j)
  BY <1>0 DEF MarkInterrupted, DeletePhase, IsDelete, DeletesAreNotCancelled, TableTypeOK, Row
<1>2. CASE \E k \in JobIds : DeletePhase(k) = "running"
  <2>1. PICK k \in JobIds : DeletePhase(k) = "running"
    BY <1>2
  <2>2. \A j \in JobIds : DeletePhase(j) = "running" => jobs[j].status = "running"
    BY DEF IsDelete, DeletePhase
  <2>3. \A j \in JobIds \ {k} : DeletePhase(j)' = DeletePhase(j)
    BY <1>1, <2>1, <2>2 DEF RunningIsProcessing
  <2>4. Deletions!Move(k, "running", "failed")
    BY <1>1, <2>1, <2>3, PhaseMoves
  <2> QED BY <2>4 DEF Allowed, Deletions!Next, Deletions!Fail
<1>3. CASE \A k \in JobIds : DeletePhase(k) # "running"
  BY <1>1, <1>3, PhasesStay DEF Allowed
<1> QED BY <1>2, <1>3

\* Whatever handlers, thread, errors and restarts do, a deletion is queued
\* once, runs alone and at most once, is never cancelled nor run again, and is
\* forgotten only when it has finished.
THEOREM DeletionsRefine == Spec => DeletionsAreTasks
<1>1. Init => Deletions!Init
  BY DEF Init, TableInit, Deletions!Init, DeletePhase, IsDelete
<1>2. Inv /\ [Next]_vars => [Deletions!Next]_([j \in JobIds |-> DeletePhase(j)])
  <2> SUFFICES ASSUME Inv, [Next]_vars PROVE Allowed
    BY DEF Allowed
  <2>1. CASE UNCHANGED vars
    BY <2>1, PhasesStay DEF vars, Allowed, DeletePhase, IsDelete
  <2> QED BY <2>1, RefineWorker, RefineClient, RefineRestart DEF Next
<1> QED BY <1>1, <1>2, InvAlways, PTL DEF Spec, DeletionsAreTasks, Deletions!Spec

=============================================================================
