---------------------------- MODULE SegmentCache ----------------------------
(***************************************************************************)
(* The segments kept on the local disk, and what the table                 *)
(* video_cache_entries says of them (services/cache.py,                    *)
(* services/cache_eviction.py, services/playback_cache_flush.py,           *)
(* repositories/video_cache_entries.py).  Responses and prefetch threads   *)
(* write segments and note them in a registry; requests flush the          *)
(* registry, clear the cache, look at a video and queue cache jobs; the    *)
(* worker runs cache jobs and imports.                                     *)
(*                                                                         *)
(* A step is one SQLite transaction or one pass over the directory of a    *)
(* video.  Every segment has the size 1.                                   *)
(***************************************************************************)
EXTENDS Integers, FiniteSets, Sequences, FiniteSetsExt, SequencesExt

CONSTANTS Videos,      (* ids                                               *)
          Priority,    (* cache_priority of each                            *)
          SegmentCount,(* segments of each                                  *)
          Cached,      (* videos all of whose segments are there at first   *)
          Importing,   (* videos that are still to be imported              *)
          Limit,       (* cache_limit_bytes                                 *)
          Requests,    (* threads that serve requests                       *)
          Kinds,       (* the requests they get                             *)
          MaxRequests, (* bound: requests                                   *)
          MaxWrites,   (* bound: segments written by playback               *)
          MaxMishaps,  (* bound: exceptions, files that resist, restarts    *)
          Worker, None

ASSUME CacheAssumption ==
    /\ Videos \subseteq Nat \ {0} /\ IsFiniteSet(Videos)
    /\ Cached \subseteq Videos /\ Importing \subseteq Videos \ Cached
    /\ Priority \in [Videos -> Nat]
    /\ SegmentCount \in Nat \ {0} /\ Limit \in Nat \ {0}
    /\ Kinds \subseteq {"flush", "clear", "clear all", "detail", "cache"}
    /\ Worker \notin Requests /\ None \notin Requests \cup {Worker}

VARIABLES files,     (* the segments in the directory of a video            *)
          entry,     (* cached_segment_count of its row; None: no row       *)
          visible,   (* is_visible                                          *)
          arriving,  (* segments that are written and not yet noted         *)
          noted,     (* videos with a session in the registry               *)
          queue,     (* queued cache jobs                                   *)
          thread,    (* the requests and the worker                         *)
          requests, writes, mishaps,
          stale,     (* history: videos whose refreshes overlapped, or      *)
                     (* whose refresh did not happen                        *)
          lost       (* history: what has been removed, and how, since the  *)
                     (* worker took the video up                            *)

bounds == <<requests, writes, mishaps>>
vars == <<files, entry, visible, arriving, noted, queue, thread, requests, writes,
          mishaps, stale, lost>>

Segments == 1..SegmentCount
Threads == Requests \cup {Worker}

\* video is what a thread was asked for, at the video whose entry it refreshes,
\* count what it has counted there, alone whether no other refresh of at overlaps,
\* then where it goes after the refresh; todo are the videos still to be cleared
\* or to be considered for eviction, total the size that enforce_cache_limit works
\* with; pending are the segments a cache job has to fetch.  History, since the cache was
\* measured: came counts the segments that it has got and those that an eviction failed
\* to remove, gone those that others have removed.
Pc == {"idle", "remove", "next", "scan", "store", "collect", "evict", "create", "check",
       "fetch", "finish", "fail", "split", "upload", "reveal"}
Thread == [pc : Pc, video : Videos \cup {0}, at : Videos \cup {0}, count : 0..SegmentCount,
           alone : BOOLEAN, then : Pc, todo : SUBSET Videos, total : Int,
           came : Nat, gone : Nat, pending : SUBSET Segments]
Idle == [pc |-> "idle", video |-> 0, at |-> 0, count |-> 0, alone |-> TRUE, then |-> "idle",
         todo |-> {}, total |-> 0, came |-> 0, gone |-> 0, pending |-> {}]

Size(v) == Cardinality(files[v])
TotalSize(V) == MapThenSumSet(Size, V)

\* Mutated form of Listed: hidden videos are listed too.
ListedAll == {v \in Videos : Size(v) > 0}

\* list_videos leaves out videos that are hidden, those being imported among them.
Listed == {v \in visible : Size(v) > 0}

\* The order of _iter_eviction_candidates.
Before(u, v) == Priority[u] < Priority[v] \/ (Priority[u] = Priority[v] /\ u < v)
First(V) == CHOOSE v \in V : \A u \in V \ {v} : Before(v, u)

Init ==
    /\ files = [v \in Videos |-> IF v \in Cached THEN Segments ELSE {}]
    /\ entry = [v \in Videos |-> IF v \in Cached THEN SegmentCount ELSE None]
    /\ visible = Videos \ Importing
    /\ arriving = {} /\ noted = {} /\ queue = <<>>
    /\ thread = [t \in Threads |-> Idle]
    /\ requests = 0 /\ writes = 0 /\ mishaps = 0
    /\ stale = {} /\ lost = {}

-----------------------------------------------------------------------------
(* Threads.                                                                *)

Counting(t, v) == thread[t].pc = "store" /\ thread[t].at = v
Measured(t) == thread[t].pc = "evict" \/ thread[t].then = "evict"

\* What is listed has got and lost as many segments: enforcements that have measured it
\* work with old sizes.
Moved(except, came, gone) ==
    [t \in Threads |-> IF t # except /\ Measured(t)
                       THEN [thread[t] EXCEPT !.came = @ + came, !.gone = @ + gone]
                       ELSE thread[t]]
Changed(except, v, segments) ==
    IF v \in visible
    THEN Moved(except, Cardinality(segments \ files[v]), Cardinality(files[v] \ segments))
    ELSE thread

Refresh(th, v, then) == [th EXCEPT !.pc = "scan", !.at = v, !.then = then]

NoMishap == UNCHANGED <<requests, writes, mishaps>>
Mishap == mishaps < MaxMishaps /\ mishaps' = mishaps + 1 /\ UNCHANGED <<requests, writes>>

Receive(t, kind) ==
    /\ kind \in Kinds /\ thread[t].pc = "idle" /\ requests < MaxRequests
    /\ requests' = requests + 1
    /\ UNCHANGED <<writes, mishaps>>

-----------------------------------------------------------------------------
(* refresh_video_cache_entry.                                              *)

\* Mutated form of Scan: files that are still being written are counted too.
ScanEveryFile(t) ==
    LET v == thread[t].at
        others == {u \in Threads \ {t} : Counting(u, v)} IN
    /\ thread[t].pc = "scan"
    /\ thread' = [u \in Threads |->
                     CASE u = t -> [thread[t] EXCEPT !.pc = "store", !.alone = others = {},
                                       !.count = Size(v) + Cardinality({a \in arriving : a[1] = v})]
                       [] u \in others -> [thread[u] EXCEPT !.alone = FALSE]
                       [] OTHER -> thread[u]]
    /\ UNCHANGED <<files, entry, visible, arriving, noted, queue, stale, lost>> /\ NoMishap

\* _build_video_cache_status.
Scan(t) ==
    LET v == thread[t].at
        others == {u \in Threads \ {t} : Counting(u, v)} IN
    /\ thread[t].pc = "scan"
    /\ thread' = [u \in Threads |->
                     CASE u = t -> [thread[t] EXCEPT !.pc = "store", !.count = Size(v),
                                                     !.alone = others = {}]
                       [] u \in others -> [thread[u] EXCEPT !.alone = FALSE]
                       [] OTHER -> thread[u]]
    /\ UNCHANGED <<files, entry, visible, arriving, noted, queue, stale, lost>> /\ NoMishap

\* Mutated form of Store: the session of a flush is taken out when the refresh is done.
StoreForgetting(t) ==
    LET th == thread[t] IN
    /\ th.pc = "store"
    /\ entry' = [entry EXCEPT ![th.at] = th.count]
    /\ stale' = IF th.alone THEN stale \ {th.at} ELSE stale \cup {th.at}
    /\ thread' = [thread EXCEPT ![t] = IF th.then = "idle" THEN Idle
                                       ELSE [th EXCEPT !.pc = th.then, !.then = "idle"]]
    /\ noted' = IF th.then = "collect" THEN noted \ {th.at} ELSE noted
    /\ UNCHANGED <<files, visible, arriving, queue, lost>> /\ NoMishap

\* upsert_video_cache_entry.  A refresh that no other one overlaps puts right
\* what earlier ones left.
Store(t) ==
    LET th == thread[t] IN
    /\ th.pc = "store"
    /\ entry' = [entry EXCEPT ![th.at] = th.count]
    /\ stale' = IF th.alone THEN stale \ {th.at} ELSE stale \cup {th.at}
    /\ thread' = [thread EXCEPT ![t] = IF th.then = "idle" THEN Idle
                                       ELSE [th EXCEPT !.pc = th.then, !.then = "idle"]]
    /\ UNCHANGED <<files, visible, arriving, noted, queue, lost>> /\ NoMishap

-----------------------------------------------------------------------------
(* Playback.                                                               *)

\* persist_segment_payload; a segment that is there is only noted.
Persist(v, s) ==
    /\ v \in visible /\ s \notin files[v] /\ writes < MaxWrites
    /\ files' = [files EXCEPT ![v] = @ \cup {s}]
    /\ arriving' = arriving \cup {<<v, s>>}
    /\ thread' = Changed(None, v, files[v] \cup {s})
    /\ writes' = writes + 1
    /\ UNCHANGED <<entry, visible, noted, queue, requests, mishaps, stale, lost>>

\* note_cached_segment.
Note(v, s) ==
    /\ <<v, s>> \in arriving
    /\ arriving' = arriving \ {<<v, s>>}
    /\ noted' = noted \cup {v}
    /\ UNCHANGED <<files, entry, visible, queue, thread, stale, lost>> /\ NoMishap

\* flush_video: takes the session out, refreshes, enforces the limit.  A request
\* that names segments does so without a session too.
Flush(t, v) ==
    /\ Receive(t, "flush") /\ v \in visible
    /\ noted' = noted \ {v}
    /\ thread' = [thread EXCEPT ![t] = Refresh([Idle EXCEPT !.video = v], v, "collect")]
    /\ UNCHANGED <<files, entry, visible, arriving, queue, stale, lost>>

-----------------------------------------------------------------------------
(* enforce_cache_limit.                                                    *)

EndPass(t) ==
    thread' = [thread EXCEPT ![t] = IF t = Worker
                  THEN [Idle EXCEPT !.video = thread[t].video, !.pc = "reveal"] ELSE Idle]

\* _collect_cache_entries; the video the thread was asked for is protected.
Collect(t) ==
    LET total == TotalSize(Listed) IN
    /\ thread[t].pc = "collect"
    /\ IF total <= Limit THEN EndPass(t)
       ELSE thread' = [thread EXCEPT ![t].pc = "evict", ![t].total = total,
                           ![t].todo = Listed \ {thread[t].video}, ![t].came = 0, ![t].gone = 0]
    /\ UNCHANGED <<files, entry, visible, arriving, noted, queue, stale, lost>> /\ NoMishap

\* Mutated form of Evict: every candidate is evicted.
EvictAll(t) ==
    LET th == thread[t]  v == First(th.todo) IN
    /\ th.pc = "evict" /\ th.todo # {}
    /\ IF files[v] = {}
       THEN thread' = [thread EXCEPT ![t].todo = @ \ {v}] /\ UNCHANGED <<files, lost>>
       ELSE /\ files' = [files EXCEPT ![v] = {}]
            /\ thread' = [Changed(t, v, {}) EXCEPT ![t] =
                   Refresh([th EXCEPT !.todo = @ \ {v}, !.total = @ - Size(v)], v, "evict")]
            /\ lost' = lost \cup {<<v, "evicted">>}
    /\ UNCHANGED <<entry, visible, arriving, noted, queue, stale>> /\ NoMishap

\* The next candidate; one whose directory is empty by now is passed over.  rmtree is
\* called with ignore_errors: files that resist stay and are taken off all the same.
Evict(t) ==
    LET th == thread[t]  v == First(th.todo) IN
    /\ th.pc = "evict" /\ th.todo # {} /\ th.total > Limit
    /\ \/ /\ files[v] = {} /\ NoMishap
          /\ thread' = [thread EXCEPT ![t].todo = @ \ {v}]
          /\ UNCHANGED <<files, lost>>
       \/ \E left \in SUBSET files[v] :
          /\ files[v] # {}
          /\ IF left = {} THEN NoMishap ELSE Mishap
          /\ files' = [files EXCEPT ![v] = left]
          /\ thread' = [Changed(t, v, left) EXCEPT ![t] =
                 Refresh([th EXCEPT !.todo = @ \ {v}, !.total = @ - Size(v),
                                    !.came = @ + Cardinality(left)], v, "evict")]
          /\ lost' = lost \cup {<<v, "evicted">>}
    /\ UNCHANGED <<entry, visible, arriving, noted, queue, stale>>

EndEviction(t) ==
    /\ thread[t].pc = "evict" /\ (thread[t].todo = {} \/ thread[t].total <= Limit)
    /\ EndPass(t)
    /\ UNCHANGED <<files, entry, visible, arriving, noted, queue, stale, lost>> /\ NoMishap

-----------------------------------------------------------------------------
(* Requests.                                                               *)

\* clear_video_cache; a hidden video can be cleared too.
Clear(t, v) ==
    /\ Receive(t, "clear")
    /\ thread' = [thread EXCEPT ![t] = [Idle EXCEPT !.pc = "remove", !.at = v]]
    /\ UNCHANGED <<files, entry, visible, arriving, noted, queue, stale, lost>>

\* clear_all_cache clears what the table lists.
ClearAll(t) ==
    /\ Receive(t, "clear all")
    /\ thread' = [thread EXCEPT ![t] = [Idle EXCEPT !.pc = "next",
                     !.todo = {v \in visible : entry[v] \notin {None, 0}}]]
    /\ UNCHANGED <<files, entry, visible, arriving, noted, queue, stale, lost>>

\* The order is that of the titles.
NextClear(t) ==
    /\ thread[t].pc = "next"
    /\ \/ thread[t].todo = {} /\ thread' = [thread EXCEPT ![t] = Idle]
       \/ \E v \in thread[t].todo :
             thread' = [thread EXCEPT ![t].pc = "remove", ![t].at = v, ![t].then = "next",
                                      ![t].todo = @ \ {v}]
    /\ UNCHANGED <<files, entry, visible, arriving, noted, queue, stale, lost>> /\ NoMishap

RemoveFiles(t) ==
    LET v == thread[t].at IN
    /\ thread[t].pc = "remove"
    /\ files' = [files EXCEPT ![v] = {}]
    /\ thread' = [Changed(t, v, {}) EXCEPT ![t].pc = "scan"]
    /\ lost' = lost \cup {<<v, "cleared">>}
    /\ UNCHANGED <<entry, visible, arriving, noted, queue, stale>> /\ NoMishap

\* rmtree may stop half-way: somebody else writes to the directory or removes it.
RemoveRaises(t) ==
    LET v == thread[t].at IN
    /\ thread[t].pc = "remove" /\ Mishap
    /\ \E left \in SUBSET files[v] :
          /\ files' = [files EXCEPT ![v] = left]
          /\ thread' = [u \in Threads |->
                 CASE u = t -> Idle
                   [] u # t /\ Counting(u, v) -> [Changed(t, v, left)[u] EXCEPT !.alone = FALSE]
                   [] OTHER -> Changed(t, v, left)[u]]
    /\ stale' = stale \cup {v}
    /\ lost' = lost \cup {<<v, "cleared">>}
    /\ UNCHANGED <<entry, visible, arriving, noted, queue>>

\* get_video_cache_status computes what the table lacks.
Detail(t, v) ==
    /\ Receive(t, "detail") /\ entry[v] = None
    /\ thread' = [thread EXCEPT ![t] = Refresh(Idle, v, "idle")]
    /\ UNCHANGED <<files, entry, visible, arriving, noted, queue, stale, lost>>

\* queue_video_cache_job: find_active_cache_job, then a refresh.
ActiveJob(v) ==
    \/ v \in ToSet(queue)
    \/ thread[Worker].video = v /\ v \notin Importing
QueueCache(t, v) ==
    /\ Receive(t, "cache") /\ v \notin Importing /\ ~ActiveJob(v)
    /\ thread' = [thread EXCEPT ![t] = Refresh([Idle EXCEPT !.video = v], v, "create")]
    /\ UNCHANGED <<files, entry, visible, arriving, noted, queue, stale, lost>>

\* create_cache_job, unless every segment was counted; two requests may both
\* have found no active job.
CreateJob(t) ==
    /\ thread[t].pc = "create"
    /\ queue' = IF thread[t].count = SegmentCount THEN queue ELSE Append(queue, thread[t].video)
    /\ thread' = [thread EXCEPT ![t] = Idle]
    /\ UNCHANGED <<files, entry, visible, arriving, noted, stale, lost>> /\ NoMishap

-----------------------------------------------------------------------------
(* The worker: process_cache_job and the end of an import.                 *)

TakeUp(v, pc) ==
    /\ thread[Worker].pc = "idle"
    /\ thread' = [thread EXCEPT ![Worker] = [Idle EXCEPT !.pc = pc, !.video = v]]
    /\ lost' = {l \in lost : l[1] # v}

TakeJob ==
    /\ queue # <<>>
    /\ TakeUp(Head(queue), "check")
    /\ queue' = Tail(queue)
    /\ UNCHANGED <<files, entry, visible, arriving, noted, stale>> /\ NoMishap

CheckSegments ==
    LET w == thread[Worker] IN
    /\ w.pc = "check"
    /\ thread' = [thread EXCEPT ![Worker] =
           Refresh([w EXCEPT !.pending = Segments \ files[w.video]], w.video, "fetch")]
    /\ UNCHANGED <<files, entry, visible, arriving, noted, queue, stale, lost>> /\ NoMishap

\* cache_remote_segment, in any order; the registry learns of it as in playback.
Fetch ==
    LET w == thread[Worker] IN
    /\ w.pc = "fetch"
    /\ \E s \in w.pending :
          /\ files' = [files EXCEPT ![w.video] = @ \cup {s}]
          /\ arriving' = arriving \cup {<<w.video, s>>}
          /\ thread' = [Changed(None, w.video, files[w.video] \cup {s})
                            EXCEPT ![Worker].pending = @ \ {s}]
    /\ UNCHANGED <<entry, visible, noted, queue, stale, lost>> /\ NoMishap

\* All are fetched, or one failed or the job was cancelled: a last refresh.
EndFetch ==
    LET w == thread[Worker] IN
    /\ w.pc = "fetch"
    /\ \/ w.pending = {} /\ NoMishap
          /\ thread' = [thread EXCEPT ![Worker] = Refresh(w, w.video, "finish")]
       \/ w.pending # {} /\ Mishap
          /\ thread' = [thread EXCEPT ![Worker] = Refresh(w, w.video, "fail")]
    /\ UNCHANGED <<files, entry, visible, arriving, noted, queue, stale, lost>>

\* mark_import_job_completed, or _failed, or _cancelled.
EndJob ==
    /\ thread[Worker].pc \in {"finish", "fail"}
    /\ thread' = [thread EXCEPT ![Worker] = Idle]
    /\ UNCHANGED <<files, entry, visible, arriving, noted, queue, stale, lost>> /\ NoMishap

TakeImport(v) ==
    /\ v \in Importing \ visible /\ TakeUp(v, "split")
    /\ UNCHANGED <<files, entry, visible, arriving, noted, queue, stale>> /\ NoMishap

\* The import writes its segments, uploads what it has written, and enforces the
\* limit; the files it does not find make it fail.
Split ==
    LET w == thread[Worker] IN
    /\ w.pc = "split"
    /\ files' = [files EXCEPT ![w.video] = Segments]
    /\ thread' = [Changed(None, w.video, Segments) EXCEPT ![Worker].pc = "upload"]
    /\ UNCHANGED <<entry, visible, arriving, noted, queue, stale, lost>> /\ NoMishap

Upload ==
    LET w == thread[Worker] IN
    /\ w.pc = "upload"
    /\ thread' = [thread EXCEPT ![Worker] =
                     IF files[w.video] = Segments THEN Refresh(w, w.video, "collect") ELSE Idle]
    /\ stale' = IF files[w.video] = Segments THEN stale ELSE stale \cup {w.video}
    /\ UNCHANGED <<files, entry, visible, arriving, noted, queue, lost>> /\ NoMishap

\* _finalize_successful_retry.
Reveal ==
    LET w == thread[Worker] IN
    /\ w.pc = "reveal"
    /\ visible' = visible \cup {w.video}
    /\ thread' = [Moved(None, TotalSize({w.video} \ visible), 0) EXCEPT ![Worker] = Idle]
    /\ UNCHANGED <<files, entry, arriving, noted, queue, stale, lost>> /\ NoMishap

-----------------------------------------------------------------------------

\* The process ends and is started again; the registry was in memory.
Restart ==
    /\ Mishap
    /\ \E t \in Threads : thread[t].pc # "idle"
    /\ thread' = [t \in Threads |-> Idle]
    /\ arriving' = {} /\ noted' = {}
    /\ stale' = stale \cup noted \cup {a[1] : a \in arriving}
                      \cup ({thread[t].at : t \in Threads} \ {0})
                      \cup ({thread[Worker].video} \ {0})
    /\ UNCHANGED <<files, entry, visible, queue, lost>>

RequestStep(t) ==
    \/ \E v \in Videos : Flush(t, v) \/ Clear(t, v) \/ Detail(t, v) \/ QueueCache(t, v)
    \/ ClearAll(t) \/ NextClear(t) \/ RemoveFiles(t) \/ RemoveRaises(t) \/ CreateJob(t)

WorkerStep ==
    \/ TakeJob \/ CheckSegments \/ Fetch \/ EndFetch \/ EndJob
    \/ \E v \in Importing : TakeImport(v)
    \/ Split \/ Upload \/ Reveal

Next ==
    \/ \E v \in Videos, s \in Segments : Persist(v, s) \/ Note(v, s)
    \/ \E t \in Threads : Scan(t) \/ Store(t) \/ Collect(t) \/ Evict(t) \/ EndEviction(t)
    \/ \E t \in Requests : RequestStep(t)
    \/ WorkerStep
    \/ Restart

Spec == Init /\ [][Next]_vars

-----------------------------------------------------------------------------
(* Properties.                                                             *)

\* Every variable has the type its code has.
TypeOK ==
    /\ files \in [Videos -> SUBSET Segments]
    /\ entry \in [Videos -> 0..SegmentCount \cup {None}]
    /\ visible \subseteq Videos /\ noted \subseteq Videos /\ stale \subseteq Videos
    /\ arriving \subseteq Videos \X Segments
    /\ queue \in Seq(Videos)
    /\ thread \in [Threads -> Thread]
    /\ lost \subseteq Videos \X {"evicted", "cleared"}

\* Somebody is about to refresh the entry of v.
Refreshing(v) ==
    \/ \E t \in Threads : thread[t].at = v /\ thread[t].pc \in {"scan", "store"}
    \/ thread[Worker].video = v

\* A row that does not say how many segments are there is remembered: the video is
\* noted in the registry, or about to be, or somebody is refreshing it.  However
\* players write while their notes are flushed, no note is lost; only two
\* refreshes of one video that overlap, an exception and a restart lose one.
EntryIsTrue ==
    \A v \in Videos \ stale :
        entry[v] \notin {None, Size(v)} =>
            v \in noted \/ (\E s \in Segments : <<v, s>> \in arriving) \/ Refreshing(v)

\* The limit is enforced to the point, by each of the enforcements that overlap and for
\* each: one evicts only while what it found in the cache would exceed the limit without
\* what others have removed since; and when it ends, what is listed exceeds the limit by no
\* more than what has come meanwhile or would not go, or only that is left beside the
\* video it protects.
EvictsToLimit ==
    [][\A t \in Threads : thread[t].pc = "evict" =>
          /\ thread'[t].pc = "scan" =>
                TotalSize(Listed) + thread[t].gone > Limit + thread[t].came
          /\ thread'[t].pc \notin {"evict", "scan", "store"} /\ mishaps' = mishaps =>
                \/ TotalSize(Listed) + thread[t].gone <= Limit + thread[t].came
                \/ TotalSize(Listed \ {thread[t].video}) <= thread[t].came]_vars

\* The worker finds what it has written: no enforcement of the limit evicts a video
\* between the splitting and the uploading of its import, however little the video is
\* worth (Rule 1 of _iter_eviction_candidates); and a cache job that ends as completed
\* leaves every segment, unless somebody has removed some since it began.
WorkerFindsSegments ==
    LET w == thread[Worker] IN
    /\ w.pc = "upload" /\ <<w.video, "cleared">> \notin lost => files[w.video] = Segments
    /\ w.pc = "finish" /\ w.video \notin {l[1] : l \in lost} => files[w.video] = Segments

=============================================================================
