------------------------------ MODULE Playback ------------------------------
(***************************************************************************)
(* Playing one video from its segment cache: the stream responses          *)
(* (services/streaming.py, api/routes/stream.py), the prefetch sessions    *)
(* they share (services/segment_prefetch.py) and the removal of cached     *)
(* segments by the cache routes and the eviction.  Sessions of different   *)
(* videos share nothing but the lock of the dictionary, so one video is    *)
(* enough; every segment of it has a cloud_path.                           *)
(*                                                                         *)
(* A step is one critical section of a lock, one file operation with the   *)
(* download that precedes it, or one read of the dictionary.               *)
(***************************************************************************)
EXTENDS Integers, FiniteSets, FiniteSetsExt

CONSTANTS Streams,      (* concurrent stream requests                        *)
          LastSegment,  (* segments are 0..LastSegment                       *)
          Ranges,       (* the segment ranges that are asked for             *)
          WindowSize,   (* _PREFETCH_WINDOW_SIZE                             *)
          MaxSessions,  (* bound: sessions ever created                      *)
          MaxMishaps    (* bound: failed downloads and file writes, removals *)
                        (* of the cached segments, and prepared streams that *)
                        (* are never iterated, together                      *)

ASSUME PlaybackAssumption ==
    /\ IsFiniteSet(Streams)
    /\ LastSegment \in Nat
    /\ Ranges \subseteq (0..LastSegment) \X (0..LastSegment)
    /\ \A r \in Ranges : r[1] <= r[2]
    /\ WindowSize \in Nat \ {0}
    /\ MaxSessions \in Nat \ {0}
    /\ MaxMishaps \in Nat

VARIABLES files,     (* segments whose cache file exists                     *)
          writes,    (* payloads handed to _cache_write_executor             *)
          stream,    (* the responses                                        *)
          session,   (* every SegmentPrefetchSession created so far          *)
          current,   (* the video's entry in _prefetch_sessions              *)
          failures, clears, discards

counters == <<failures, clears, discards>>
vars == <<files, writes, stream, session, current, failures, clears, discards>>

Segments == 0..LastSegment
SessionIds == 1..MaxSessions
NoSession == 0

StreamPc == {"idle", "acquire", "opened", "next", "file", "yielded", "request",
             "start", "lookup", "release"}
Stream == [pc : StreamPc, session : SessionIds \cup {NoSession},
           from : Segments, pos : Segments, to : Segments,
           held : BOOLEAN,    (* prefetched_remote_payloads holds the first  *)
           remote : BOOLEAN,  (* the payload has a storage_backend           *)
           sent : SUBSET Segments,
           lost : SUBSET Segments]
                    (* history: refused to the response with a BaiduApiError *)

IdleStream == [pc |-> "idle", session |-> NoSession, from |-> 0, pos |-> 0, to |-> 0,
               held |-> FALSE, remote |-> FALSE, sent |-> {}, lost |-> {}]

ThreadPc == {"none", "build", "loop", "check", "transfer", "drain", "fail", "exit", "ending"}

\* next is next_segment_index; ahead is active_segment_index + 1.
Session == [born : BOOLEAN, consumers : Nat, stopped : BOOLEAN, thread : ThreadPc,
            ahead : 0..(LastSegment + 1), next : 0..(LastSegment + 1),
            completed : SUBSET Segments, inflight : SUBSET Segments,
            fetched : SUBSET Segments]

UnbornSession == [born |-> FALSE, consumers |-> 0, stopped |-> FALSE, thread |-> "none",
                  ahead |-> 0, next |-> 0, completed |-> {}, inflight |-> {}, fetched |-> {}]

Init ==
    /\ files \in SUBSET Segments
    /\ writes = {}
    /\ stream = [s \in Streams |-> IdleStream]
    /\ session = [i \in SessionIds |-> UnbornSession]
    /\ current = NoSession
    /\ failures = 0 /\ clears = 0 /\ discards = 0

-----------------------------------------------------------------------------
(* A download from remote storage, or a write of a file, that fails.       *)

MishapIsLeft == failures + clears + discards < MaxMishaps

Fails == /\ MishapIsLeft
         /\ failures' = failures + 1
         /\ UNCHANGED <<clears, discards>>

Works == UNCHANGED counters

(* The responses.                                                          *)

Goto(s, pc) == stream' = [stream EXCEPT ![s].pc = pc]

\* The finally block of iter_video_stream comes next.
Leave(s) == stream' = [stream EXCEPT
    ![s] = [IdleStream EXCEPT !.pc = "lookup", !.session = stream[s].session]]

\* Bound: a request is prepared only while a session is left for it.
SessionIsLeft ==
    Cardinality({s \in Streams : stream[s].pc = "acquire"})
        < Cardinality({i \in SessionIds : ~session[i].born})

\* Mutated form of Prepare: the storage back end is built only when the first
\* segment is missing.
PrepareForFirst(s) ==
    /\ stream[s].pc = "idle" /\ SessionIsLeft
    /\ \E r \in Ranges :
          \/ /\ Works
             /\ files' = files \cup {r[1]}
             /\ stream' = [stream EXCEPT ![s] =
                    [IdleStream EXCEPT !.pc = "acquire", !.from = r[1], !.pos = r[1], !.to = r[2],
                                       !.held = r[1] \notin files, !.remote = r[1] \notin files]]
          \/ r[1] \notin files /\ Fails /\ UNCHANGED <<files, stream>>
    /\ UNCHANGED <<writes, session, current>>

\* _prepare_segment_stream: the storage back end is built only when a segment
\* of the range is missing now; a missing first segment is downloaded and
\* cached before the response begins.  When that fails the answer is 404.
Prepare(s) ==
    /\ stream[s].pc = "idle" /\ SessionIsLeft
    /\ \E r \in Ranges :
          LET from == r[1]
              to == r[2]
              remote == ~(from..to \subseteq files) IN
          \/ /\ Works
             /\ files' = files \cup {from}
             /\ stream' = [stream EXCEPT ![s] =
                    [IdleStream EXCEPT !.pc = "acquire", !.from = from, !.pos = from, !.to = to,
                                       !.held = from \notin files, !.remote = remote]]
          \/ from \notin files /\ Fails /\ UNCHANGED <<files, stream>>
    /\ UNCHANGED <<writes, session, current>>

\* acquire_prefetch_session, under _sessions_lock.
Acquire(s) ==
    /\ stream[s].pc = "acquire"
    /\ IF current # NoSession /\ ~session[current].stopped
       THEN /\ session' = [session EXCEPT ![current].consumers = @ + 1]
            /\ stream' = [stream EXCEPT ![s].pc = "opened", ![s].session = current]
            /\ UNCHANGED current
       ELSE \E i \in SessionIds :
            /\ ~session[i].born
            /\ \A k \in SessionIds : k < i => session[k].born
            /\ session' = [session EXCEPT ![i] =
                   [UnbornSession EXCEPT !.born = TRUE, !.consumers = 1]]
            /\ stream' = [stream EXCEPT ![s].pc = "opened", ![s].session = i]
            /\ current' = i
    /\ UNCHANGED <<files, writes, counters>>

\* payload_size_from_request wants only the size, for the answer 416; and a
\* client may be gone before the first chunk, so that iter_video_stream
\* never starts and its finally block never runs.
Discard(s) ==
    /\ stream[s].pc = "opened"
    /\ MishapIsLeft
    /\ discards' = discards + 1
    /\ stream' = [stream EXCEPT ![s] = IdleStream]
    /\ UNCHANGED <<files, writes, session, current, failures, clears>>

\* iter_segment_slice yields the segment.
Yield(s) == stream' = [stream EXCEPT ![s].pc = "yielded", ![s].held = FALSE,
                                     ![s].sent = @ \cup {stream[s].pos}]

\* Mutated form of SourceFallback: the segment is left out.
SkipSegment(s) == Goto(s, "request")

\* VideoStreamNotFoundError: the bytes of the source file when it still
\* exists, or the end.
SourceFallback(s) == Yield(s) \/ Leave(s)

\* A BaiduApiError is swallowed: iter_segment_slice yields nothing.
LoseSegment(s) == stream' = [stream EXCEPT ![s].pc = "request",
                                           ![s].lost = @ \cup {stream[s].pos}]

\* _read_segment_payload: the file, else the payload of the preparation,
\* else a download.
ReadSegment(s) ==
    /\ stream[s].pc \in {"opened", "next"}
    /\ LET g == stream[s].pos IN
       \/ /\ g \in files
          /\ Goto(s, "file")
          /\ Works /\ UNCHANGED writes
       \/ /\ g \notin files
          /\ stream[s].held \/ stream[s].remote
          /\ Yield(s)
          /\ writes' = writes \cup {g}
          /\ Works
       \/ /\ g \notin files /\ ~stream[s].held /\ stream[s].remote
          /\ Fails
          /\ LoseSegment(s) \/ SourceFallback(s)
          /\ UNCHANGED writes
       \/ /\ g \notin files /\ ~stream[s].held /\ ~stream[s].remote
          /\ SourceFallback(s)
          /\ Works /\ UNCHANGED writes
    /\ UNCHANGED <<files, session, current>>

\* The file existed a moment ago.  A FileNotFoundError of read_bytes is not a
\* VideoStreamNotFoundError: the response ends.
ReadFile(s) ==
    /\ stream[s].pc = "file"
    /\ IF stream[s].pos \in files THEN Yield(s) ELSE Leave(s)
    /\ UNCHANGED <<files, writes, session, current, counters>>

\* The client takes the chunk, or closes the connection.
Resume(s) ==
    /\ stream[s].pc = "yielded"
    /\ Goto(s, "request") \/ Leave(s)
    /\ UNCHANGED <<files, writes, session, current, counters>>

\* request_prefetch, under the session's lock ...
RequestPrefetch(s) ==
    /\ stream[s].pc = "request"
    /\ LET i == stream[s].session
           ahead == Max({session[i].ahead, stream[s].pos + 1}) IN
       session' = [session EXCEPT ![i].ahead = ahead, ![i].next = Max({@, ahead})]
    /\ Goto(s, "start")
    /\ UNCHANGED <<files, writes, current, counters>>

\* ... then start(), under the lock again.
StartThread(s) ==
    /\ stream[s].pc = "start"
    /\ session' = [session EXCEPT ![stream[s].session].thread =
                      IF @ = "none" THEN "build" ELSE @]
    /\ IF stream[s].pos = stream[s].to
       THEN Leave(s)
       ELSE stream' = [stream EXCEPT ![s].pc = "next", ![s].pos = @ + 1]
    /\ UNCHANGED <<files, writes, current, counters>>

\* release_prefetch_session looks the session up by the video's id ...
LookupSession(s) ==
    /\ stream[s].pc = "lookup"
    /\ stream' = [stream EXCEPT ![s] =
           IF current = NoSession THEN IdleStream
           ELSE [@ EXCEPT !.pc = "release", !.session = current]]
    /\ UNCHANGED <<files, writes, session, current, counters>>

\* Mutated forms of ReleaseSession: without max(0, ...), and without the stop
\* event.
ReleaseSessionUnguarded(s) ==
    /\ stream[s].pc = "release"
    /\ session' = [session EXCEPT ![stream[s].session].consumers = @ - 1,
                                  ![stream[s].session].stopped =
                                      @ \/ session[stream[s].session].consumers = 1]
    /\ stream' = [stream EXCEPT ![s] = IdleStream]
    /\ UNCHANGED <<files, writes, current, counters>>

ReleaseSessionKeepingOn(s) ==
    /\ stream[s].pc = "release"
    /\ session' = [session EXCEPT ![stream[s].session].consumers = IF @ = 0 THEN 0 ELSE @ - 1]
    /\ stream' = [stream EXCEPT ![s] = IdleStream]
    /\ UNCHANGED <<files, writes, current, counters>>

\* ... and releases it after it has let go of _sessions_lock.
ReleaseSession(s) ==
    /\ stream[s].pc = "release"
    /\ LET i == stream[s].session
           left == IF session[i].consumers = 0 THEN 0 ELSE session[i].consumers - 1 IN
       session' = [session EXCEPT ![i].consumers = left, ![i].stopped = @ \/ left = 0]
    /\ stream' = [stream EXCEPT ![s] = IdleStream]
    /\ UNCHANGED <<files, writes, current, counters>>

-----------------------------------------------------------------------------
(* The thread of a prefetch session: SegmentPrefetchSession._run.          *)

At(i, pc) == session[i].thread = pc
Enter(i, pc) == session' = [session EXCEPT ![i].thread = pc]

\* The storage back end is built outside the try: when that fails the thread
\* ends and the session stays in the dictionary.
BuildStorage(i) ==
    /\ At(i, "build")
    /\ (Works /\ Enter(i, "loop")) \/ (Fails /\ Enter(i, "none"))
    /\ UNCHANGED <<files, writes, stream, current>>

\* Mutated form of SeeStop: the thread waits for its batch to be recorded.
SeeStopBetweenBatches(i) ==
    /\ At(i, "loop") /\ session[i].stopped /\ session[i].inflight = {}
    /\ Enter(i, "exit")
    /\ UNCHANGED <<files, writes, stream, current, counters>>

SeeStop(i) ==
    /\ At(i, "loop") /\ session[i].stopped
    /\ Enter(i, "exit")
    /\ UNCHANGED <<files, writes, stream, current, counters>>

\* The segments ahead of the player and of the earlier batches that are not
\* known to be cached.
WindowStart(i) == Max({session[i].next, session[i].ahead})
Unknown(i) == (WindowStart(i)..LastSegment) \ session[i].completed
Missing(i) == Unknown(i) \ files

\* The first WindowSize of the missing segments.
Batch(i) == IF session[i].inflight # {} THEN {}
            ELSE {g \in Missing(i) : Cardinality({h \in Missing(i) : h <= g}) <= WindowSize}

\* Mutated form of NextBatch: the window begins after next_segment_index.
NextBatchSkipping(i) ==
    /\ At(i, "loop") /\ ~session[i].stopped
    /\ LET batch == Batch(i) \ {WindowStart(i)} IN
       session' = [session EXCEPT
           ![i].thread = IF batch = {} THEN "check" ELSE "transfer",
           ![i].next = IF batch = {} THEN @ ELSE Max(batch) + 1,
           ![i].inflight = @ \cup batch]
    /\ UNCHANGED <<files, writes, stream, current, counters>>

\* _next_batch: the scan also notes the cached segments it passes, and stops
\* when the batch is full.
NextBatch(i) ==
    /\ At(i, "loop") /\ ~session[i].stopped
    /\ LET batch == Batch(i)
           passed == {g \in Unknown(i) \cap files :
                         Cardinality(batch) = WindowSize => g < Max(batch)} IN
       session' = [session EXCEPT
           ![i].thread = IF batch = {} THEN "check" ELSE "transfer",
           ![i].next = IF batch = {} THEN @ ELSE Max(batch) + 1,
           ![i].inflight = @ \cup batch,
           ![i].completed = IF session[i].inflight # {} THEN @ ELSE @ \cup passed]
    /\ UNCHANGED <<files, writes, stream, current, counters>>

\* _is_finished, and another round (after 0.1 s) when it is not.
CheckFinished(i) ==
    /\ At(i, "check")
    /\ LET finished == session[i].inflight = {} /\ Missing(i) = {}
           passed == {g \in Unknown(i) \cap files : \A h \in Missing(i) : g < h} IN
       session' = [session EXCEPT
           ![i].thread = IF finished THEN "exit" ELSE "loop",
           ![i].completed = IF session[i].inflight # {} THEN @ ELSE @ \cup passed]
    /\ UNCHANGED <<files, writes, stream, current, counters>>

\* A pool thread of run_bounded_transfers runs cache_remote_segment.
FetchSegment(i, g) ==
    /\ session[i].thread \in {"transfer", "drain", "fail"}
    /\ g \in session[i].inflight \ session[i].fetched
    /\ files' = files \cup {g}
    /\ session' = [session EXCEPT ![i].fetched = @ \cup {g}]
    /\ UNCHANGED <<writes, stream, current, counters>>

\* _mark_completed, on_result of the transfers.
MarkCompleted(i, g) ==
    /\ At(i, "transfer")
    /\ g \in session[i].inflight \cap session[i].fetched
    /\ session' = [session EXCEPT ![i].inflight = @ \ {g}, ![i].fetched = @ \ {g},
                                  ![i].completed = @ \cup {g}]
    /\ UNCHANGED <<files, writes, stream, current, counters>>

\* run_bounded_transfers returns: all is done, or it has seen the stop event;
\* or it raises the first error.  In the last two cases it first waits for
\* the transfers that run, whose results nobody records.
EndTransfer(i) ==
    /\ At(i, "transfer")
    /\ \/ session[i].inflight = {} /\ Enter(i, "loop") /\ Works
       \/ session[i].stopped /\ session[i].inflight # {} /\ Enter(i, "drain") /\ Works
       \/ session[i].inflight \ session[i].fetched # {} /\ Enter(i, "fail") /\ Fails
    /\ UNCHANGED <<files, writes, stream, current>>

Drained(i) ==
    /\ session[i].thread \in {"drain", "fail"}
    /\ Enter(i, IF At(i, "drain") THEN "loop" ELSE "exit")
    /\ UNCHANGED <<files, writes, stream, current, counters>>

\* Mutated form of LeaveDictionary: `if current is self` is left out.
LeaveDictionaryAlways(i) ==
    /\ At(i, "exit")
    /\ current' = NoSession
    /\ Enter(i, "ending")
    /\ UNCHANGED <<files, writes, stream, counters>>

\* The finally block, under _sessions_lock.
LeaveDictionary(i) ==
    /\ At(i, "exit")
    /\ current' = IF current = i THEN NoSession ELSE current
    /\ Enter(i, "ending")
    /\ UNCHANGED <<files, writes, stream, counters>>

\* The thread is alive until here.
EndThread(i) ==
    /\ At(i, "ending")
    /\ Enter(i, "none")
    /\ UNCHANGED <<files, writes, stream, current, counters>>

ThreadStep(i) ==
    \/ BuildStorage(i) \/ SeeStop(i) \/ NextBatch(i) \/ CheckFinished(i)
    \/ EndTransfer(i) \/ Drained(i) \/ LeaveDictionary(i) \/ EndThread(i)
    \/ \E g \in Segments : FetchSegment(i, g) \/ MarkCompleted(i, g)

-----------------------------------------------------------------------------
(* The segment files.                                                      *)

\* _persist_segment_payload_background on a thread of the executor; it logs
\* an error and goes on.
PersistSegment(g) ==
    /\ g \in writes
    /\ writes' = writes \ {g}
    /\ (Works /\ files' = files \cup {g}) \/ (Fails /\ UNCHANGED files)
    /\ UNCHANGED <<stream, session, current>>

\* clear_video_cache, or the eviction of this video.
ClearCache ==
    /\ MishapIsLeft
    /\ clears' = clears + 1
    /\ files' = {}
    /\ UNCHANGED <<writes, stream, session, current, failures, discards>>

StreamStep(s) ==
    \/ Prepare(s) \/ Acquire(s) \/ Discard(s) \/ ReadSegment(s) \/ ReadFile(s) \/ Resume(s)
    \/ RequestPrefetch(s) \/ StartThread(s) \/ LookupSession(s) \/ ReleaseSession(s)

Next ==
    \/ \E s \in Streams : StreamStep(s)
    \/ \E i \in SessionIds : ThreadStep(i)
    \/ \E g \in Segments : PersistSegment(g)
    \/ ClearCache

Spec == Init /\ [][Next]_vars

\* The prefetch threads keep running.
FairSpec == Spec /\ \A i \in SessionIds : WF_vars(ThreadStep(i))

-----------------------------------------------------------------------------
(* Properties.                                                             *)

\* Every variable has the type its code has.
TypeOK ==
    /\ files \in SUBSET Segments
    /\ writes \in SUBSET Segments
    /\ stream \in [Streams -> Stream]
    /\ session \in [SessionIds -> Session]
    /\ current \in SessionIds \cup {NoSession}

\* A response that goes on has sent every segment up to where it is, but for
\* those that the Baidu client refused it, of which the code leaves out the
\* bytes (README, section 6): whatever else cannot be read, because a file has
\* gone, no back end was built or the storage raised another error, ends the
\* response or is replaced by the bytes of the source file.
NothingSkipped ==
    \A s \in Streams : stream[s].pc \in {"request", "start"}
        => stream[s].sent \cup stream[s].lost = stream[s].from .. stream[s].pos

\* A response leaves out nothing.  Not kept by the code and not checked: the
\* bytes that the Baidu client refuses are left out (README, section 6).
NothingLeftOut == \A s \in Streams : stream[s].lost = {}

\* A response is cut short by the server only after a download has failed or
\* the cache was cleared underneath: what is not in the cache when it begins
\* is read from remote storage.
ReadsFromRemote ==
    [][\A s \in Streams :
          stream[s].pc \in {"opened", "next", "file"} /\ stream'[s].pc = "lookup"
              => failures' > 0 \/ clears > 0]_vars

\* However sessions are replaced, stopped and restarted, at most one of those
\* that have not been told to stop downloads segments.
OneDownloader ==
    \A i, k \in SessionIds :
        At(i, "transfer") /\ At(k, "transfer") /\ i # k
            => session[i].stopped \/ session[k].stopped

Uses(s, i) == stream[s].session = i /\ stream[s].pc \notin {"idle", "acquire"}

\* "It should not keep draining the full list": no session begins a batch
\* after its last consumer has released it, as long as every response that is
\* prepared is also iterated.
NoBatchUnused ==
    [][\A i \in SessionIds :
          discards = 0 /\ ~At(i, "transfer") /\ session'[i].thread = "transfer"
              => \E s \in Streams : Uses(s, i)]_vars

\* A stream that ends does not stop the prefetching for another stream.  Not
\* kept by the code and not checked (README, section 6).
StopsOnlyUnused ==
    \A i \in SessionIds, s \in Streams :
        session[i].stopped /\ stream[s].session = i
            => stream[s].pc \in {"idle", "lookup", "release"}

\* The thread of a session nobody uses any more ends, unless a download failed.
PrefetchStops ==
    \A i \in SessionIds :
        (\A s \in Streams : ~Uses(s, i))
            ~> (At(i, "none") \/ failures > 0 \/ \E s \in Streams : Uses(s, i))

\* While a session runs, every segment ahead of its players is fetched, unless
\* a download fails.
WindowIsFetched ==
    \A i \in SessionIds, g \in Segments :
        session[i].thread # "none" /\ g >= session[i].ahead
            ~> \/ g \in session[i].completed \/ g < session[i].ahead
               \/ session[i].stopped \/ failures > 0

=============================================================================
