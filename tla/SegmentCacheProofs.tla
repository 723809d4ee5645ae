------------------------ MODULE SegmentCacheProofs ------------------------
(***************************************************************************)
(* Proofs about SegmentCache for any number of videos, segments, threads,  *)
(* requests, writes, exceptions and restarts, whatever the priorities and  *)
(* the limit are.                                                          *)
(***************************************************************************)
EXTENDS SegmentCache, SumTheorems

-----------------------------------------------------------------------------
(* The inductive invariant.                                                *)

RequestPc == {"idle", "remove", "next", "scan", "store", "collect", "evict", "create"}
WorkerPc == {"idle", "check", "scan", "store", "fetch", "finish", "fail", "split", "upload",
             "collect", "evict", "reveal"}
RequestThen == {"idle", "next", "collect", "evict", "create"}
WorkerThen == {"fetch", "finish", "fail", "collect", "evict"}

\* A thread is at p, or goes there after the refresh it is in.
Going(t, p) ==
    \/ thread[t].pc = p
    \/ thread[t].pc \in {"scan", "store"} /\ thread[t].then = p

Control(t) ==
    /\ thread[t].pc \in IF t = Worker THEN WorkerPc ELSE RequestPc
    /\ thread[t].pc \in {"scan", "store"} =>
          thread[t].then \in IF t = Worker THEN WorkerThen ELSE RequestThen
    /\ thread[t].pc = "remove" => thread[t].then \in {"idle", "next"}
    /\ thread[t].pc \in {"remove", "scan", "store"} => thread[t].at \in Videos
    /\ t = Worker /\ thread[t].pc # "idle" => thread[t].video \in Videos
    /\ Going(t, "create") => thread[t].video \in Videos
    /\ thread[t].todo \subseteq visible
ControlInv == \A t \in Threads : Control(t)

\* The video of an import is hidden until it is revealed.
Hidden == thread[Worker].pc \in {"split", "upload"} => thread[Worker].video \notin visible

\* What the worker has fetched or written is there, or somebody has removed it.
Gone == {l[1] : l \in lost}
WorkerHas ==
    /\ Going(Worker, "fetch") /\ thread[Worker].video \notin Gone =>
          Segments \ files[thread[Worker].video] \subseteq thread[Worker].pending
    /\ Going(Worker, "finish") /\ thread[Worker].video \notin Gone =>
          files[thread[Worker].video] = Segments
    /\ thread[Worker].pc = "upload" /\ <<thread[Worker].video, "cleared">> \notin lost =>
          files[thread[Worker].video] = Segments

\* A wrong row is remembered.  The worker's video counts only while its segments are
\* being uploaded: before and after that nothing it does leaves a row wrong.
Arrives(v) == \E s \in Segments : <<v, s>> \in arriving
Covers(t, v) == thread[t].at = v /\ thread[t].pc \in {"scan", "store"}
Uploads(v) == thread[Worker].pc = "upload" /\ thread[Worker].video = v
Remembered(v) ==
    v \in noted \/ Arrives(v) \/ (\E t \in Threads : Covers(t, v)) \/ Uploads(v)
EntryInv == \A v \in Videos \ stale : entry[v] \notin {None, Size(v)} => Remembered(v)

\* A count that has grown old while it waits to be stored is remembered by somebody else.
Recounted(t, v) ==
    \/ v \in noted \/ Arrives(v)
    \/ \E u \in Threads \ {t} : thread[u].at = v /\ thread[u].pc = "scan"
    \/ Uploads(v) /\ files[v] = Segments
CountInv ==
    \A t \in Threads, v \in Videos :
        /\ thread[t].pc = "store" /\ thread[t].alone /\ thread[t].at = v
        /\ thread[t].count # Size(v)
        => Recounted(t, v)

\* An enforcement knows the size of the cache, but for what has come and gone since it was
\* measured, and so much only has come that is neither still to be considered nor of the
\* protected video.
Past(t) == visible \ (thread[t].todo \cup {thread[t].video})
Knows(t) ==
    /\ thread[t].total + thread[t].came = TotalSize(visible) + thread[t].gone
    /\ TotalSize(Past(t)) <= thread[t].came
EvictInv == \A t \in Threads : Going(t, "evict") => Knows(t)

Inv == /\ TypeOK /\ mishaps \in Nat
       /\ ControlInv /\ Hidden /\ WorkerHas /\ EntryInv /\ CountInv /\ EvictInv

-----------------------------------------------------------------------------
(* What a step leaves of a thread.                                         *)

\* Nothing but the marks that others set may have changed.
Same(u) ==
    /\ thread'[u].pc = thread[u].pc /\ thread'[u].video = thread[u].video
    /\ thread'[u].at = thread[u].at /\ thread'[u].count = thread[u].count
    /\ thread'[u].then = thread[u].then /\ thread'[u].todo = thread[u].todo
    /\ thread'[u].total = thread[u].total /\ thread'[u].pending = thread[u].pending
    /\ thread'[u].alone => thread[u].alone

CoverKeeps(u) ==
    thread[u].pc \in {"scan", "store"} =>
        thread'[u].pc \in {"scan", "store"} /\ thread'[u].at = thread[u].at
ScanKeeps(u) ==
    thread[u].pc = "scan" => thread'[u].pc = "scan" /\ thread'[u].at = thread[u].at
CountKeeps(u) ==
    thread'[u].pc = "store" /\ thread'[u].alone =>
        /\ thread[u].pc = "store" /\ thread[u].alone
        /\ thread'[u].at = thread[u].at /\ thread'[u].count = thread[u].count
Held(u) == thread'[u].came = thread[u].came /\ thread'[u].gone = thread[u].gone
EvictKeeps(u) ==
    Going(u, "evict")' =>
        /\ Going(u, "evict") /\ Held(u)
        /\ thread'[u].total = thread[u].total /\ thread'[u].todo = thread[u].todo
        /\ thread'[u].video = thread[u].video
UploadKeeps ==
    thread[Worker].pc = "upload" =>
        thread'[Worker].pc = "upload" /\ thread'[Worker].video = thread[Worker].video
WorkerKeeps ==
    /\ Going(Worker, "fetch")' =>
          /\ Going(Worker, "fetch") /\ thread'[Worker].video = thread[Worker].video
          /\ thread'[Worker].pending = thread[Worker].pending
    /\ Going(Worker, "finish")' =>
          Going(Worker, "finish") /\ thread'[Worker].video = thread[Worker].video
    /\ thread'[Worker].pc = "upload" =>
          thread[Worker].pc = "upload" /\ thread'[Worker].video = thread[Worker].video

LEMMA WorkerIn == Worker \in Threads
BY DEF Threads

LEMMA SameKeeps ==
    ASSUME NEW u, Same(u)
    PROVE  CoverKeeps(u) /\ ScanKeeps(u) /\ CountKeeps(u) /\ (Held(u) => EvictKeeps(u))
BY DEF Same, CoverKeeps, ScanKeeps, CountKeeps, EvictKeeps, Going

LEMMA SameWorker == Same(Worker) => UploadKeeps /\ WorkerKeeps
BY DEF Same, UploadKeeps, WorkerKeeps, Going

LEMMA SameControl ==
    ASSUME NEW u, Same(u), Control(u), visible \subseteq visible'
    PROVE  Control(u)'
BY DEF Same, Control, Going

LEMMA SameIfEqual == ASSUME NEW u, thread'[u] = thread[u] PROVE Same(u) /\ Held(u)
BY DEF Same, Held

\* One thread steps.
LEMMA ControlFrame ==
    ASSUME ControlInv, visible \subseteq visible', NEW t \in Threads, Control(t)',
           \A u \in Threads \ {t} : Same(u)
    PROVE  ControlInv'
<1> SUFFICES ASSUME NEW u \in Threads PROVE Control(u)'
  BY DEF ControlInv, Threads
<1> QED BY SameControl DEF ControlInv

LEMMA HiddenFrame ==
    ASSUME Hidden, visible' = visible,
           thread'[Worker].pc \in {"split", "upload"} =>
               /\ thread[Worker].pc \in {"split", "upload"}
               /\ thread'[Worker].video = thread[Worker].video
    PROVE  Hidden'
BY DEF Hidden

LEMMA WorkerFrame ==
    ASSUME WorkerHas, WorkerKeeps, files' = files, lost' = lost
    PROVE  WorkerHas'
BY DEF WorkerHas, WorkerKeeps, Gone

LEMMA EntryFrame ==
    ASSUME EntryInv, UploadKeeps, \A u \in Threads : CoverKeeps(u),
           files' = files, entry' = entry, stale' = stale, noted' = noted,
           arriving' = arriving
    PROVE  EntryInv'
<1> SUFFICES ASSUME NEW v \in Videos, v \notin stale, entry[v] \notin {None, Size(v)}
             PROVE  Remembered(v)'
  BY DEF EntryInv, Size
<1>1. Remembered(v)
  BY DEF EntryInv
<1>2. CASE v \in noted \/ Arrives(v)
  BY <1>2 DEF Remembered, Arrives
<1>3. ASSUME NEW t \in Threads, Covers(t, v) PROVE Covers(t, v)'
  BY <1>3 DEF CoverKeeps, Covers
<1>4. CASE Uploads(v)
  BY <1>4 DEF Uploads, UploadKeeps, Remembered
<1> QED BY <1>1, <1>2, <1>3, <1>4 DEF Remembered, Threads

LEMMA CountFrame ==
    ASSUME CountInv, UploadKeeps, \A u \in Threads : ScanKeeps(u) /\ CountKeeps(u),
           files' = files, noted' = noted, arriving' = arriving
    PROVE  CountInv'
<1> SUFFICES ASSUME NEW t \in Threads, NEW v \in Videos, thread'[t].pc = "store",
                    thread'[t].alone, thread'[t].at = v, thread'[t].count # Size(v)'
             PROVE  Recounted(t, v)'
  BY DEF CountInv, Threads
<1>1. thread[t].pc = "store" /\ thread[t].alone /\ thread[t].at = v
      /\ thread[t].count # Size(v)
  BY DEF CountKeeps, Size
<1>2. Recounted(t, v)
  BY <1>1 DEF CountInv
<1>3. CASE v \in noted \/ Arrives(v)
  BY <1>3 DEF Recounted, Arrives
<1>4. CASE \E u \in Threads \ {t} : thread[u].at = v /\ thread[u].pc = "scan"
  <2>1. PICK u \in Threads \ {t} : thread[u].at = v /\ thread[u].pc = "scan"
    BY <1>4
  <2>2. thread'[u].at = v /\ thread'[u].pc = "scan"
    BY <2>1 DEF ScanKeeps
  <2> QED BY <2>2 DEF Recounted, Threads
<1>5. CASE Uploads(v) /\ files[v] = Segments
  BY <1>5 DEF Uploads, UploadKeeps, Recounted
<1> QED BY <1>2, <1>3, <1>4, <1>5 DEF Recounted

-----------------------------------------------------------------------------
(* Threads and sizes.                                                      *)

LEMMA CountIsPositive == SegmentCount \in Nat /\ SegmentCount > 0
<1>1. SegmentCount \in Nat /\ SegmentCount # 0
  BY CacheAssumption
<1> QED BY <1>1

LEMMA IdleThread == Idle \in Thread
<1>1. 0 \in 0..SegmentCount
  BY CountIsPositive
<1> QED BY <1>1 DEF Idle, Thread, Pc

LEMMA RefreshThread ==
    ASSUME NEW th \in Thread, NEW v \in Videos, NEW then \in Pc
    PROVE  /\ Refresh(th, v, then) \in Thread
           /\ Refresh(th, v, then).pc = "scan" /\ Refresh(th, v, then).at = v
           /\ Refresh(th, v, then).then = then
           /\ Refresh(th, v, then).video = th.video /\ Refresh(th, v, then).todo = th.todo
           /\ Refresh(th, v, then).total = th.total
           /\ Refresh(th, v, then).came = th.came /\ Refresh(th, v, then).gone = th.gone
           /\ Refresh(th, v, then).pending = th.pending
BY DEF Refresh, Thread, Pc

\* Nothing of a thread changes but what it is told of the cache.
Alike(th, new) ==
    /\ th.pc = new.pc /\ th.video = new.video /\ th.at = new.at /\ th.count = new.count
    /\ th.then = new.then /\ th.todo = new.todo /\ th.total = new.total
    /\ th.pending = new.pending /\ th.alone = new.alone

\* A thread is told that so many segments have come and gone.
Told(th, new, came, gone) == new.came = th.came + came /\ new.gone = th.gone + gone

LEMMA MovedThread ==
    ASSUME TypeOK, NEW x, NEW came \in Nat, NEW gone \in Nat
    PROVE  /\ Moved(x, came, gone) \in [Threads -> Thread]
           /\ \A u \in Threads :
                 /\ Alike(thread[u], Moved(x, came, gone)[u])
                 /\ u # x /\ Measured(u) => Told(thread[u], Moved(x, came, gone)[u], came, gone)
                 /\ ~(u # x /\ Measured(u)) => Told(thread[u], Moved(x, came, gone)[u], 0, 0)
<1>1. \A u \in Threads : thread[u] \in Thread
  BY DEF TypeOK
<1>2. ASSUME NEW u \in Threads
      PROVE  /\ Moved(x, came, gone)[u] \in Thread /\ Alike(thread[u], Moved(x, came, gone)[u])
             /\ u # x /\ Measured(u) => Told(thread[u], Moved(x, came, gone)[u], came, gone)
             /\ ~(u # x /\ Measured(u)) => Told(thread[u], Moved(x, came, gone)[u], 0, 0)
  <2>1. CASE u # x /\ Measured(u)
    <3> DEFINE c == thread[u].came + came
               g == thread[u].gone + gone
               told == [thread[u] EXCEPT !.came = c, !.gone = g]
    <3>1. Moved(x, came, gone)[u] = told
      BY <2>1 DEF Moved
    <3>2. thread[u] \in Thread /\ c \in Nat /\ g \in Nat
      BY <1>1 DEF Thread
    <3>3. told \in Thread /\ Alike(thread[u], told) /\ told.came = c /\ told.gone = g
      <4> HIDE DEF c, g
      <4> QED BY <3>2 DEF Thread, Alike
    <3> HIDE DEF told
    <3> QED BY <2>1, <3>1, <3>3 DEF Told
  <2>2. CASE ~(u # x /\ Measured(u))
    <3>1. Moved(x, came, gone)[u] = thread[u]
      BY <2>2 DEF Moved
    <3>2. thread[u].came + 0 = thread[u].came /\ thread[u].gone + 0 = thread[u].gone
      BY <1>1 DEF Thread
    <3> QED BY <1>1, <2>2, <3>1, <3>2 DEF Alike, Told
  <2> QED BY <2>1, <2>2
<1>3. Moved(x, came, gone) \in [Threads -> Thread]
  <2>1. Moved(x, came, gone) = [u \in Threads |-> Moved(x, came, gone)[u]]
    BY DEF Moved
  <2> QED BY <1>2, <2>1
<1> QED BY <1>2, <1>3

LEMMA SegmentsFinite == IsFiniteSet(Segments) /\ Cardinality(Segments) = SegmentCount
<1>1. SegmentCount \in Int /\ 1 \in Int /\ ~(1 > SegmentCount)
  BY CountIsPositive
<1>2. IsFiniteSet(1..SegmentCount)
      /\ Cardinality(1..SegmentCount) = IF 1 > SegmentCount THEN 0 ELSE SegmentCount - 1 + 1
  BY <1>1, FS_Interval
<1> QED BY <1>1, <1>2 DEF Segments

LEMMA SizeType ==
    ASSUME TypeOK, NEW v \in Videos
    PROVE  Size(v) \in 0..SegmentCount /\ (Size(v) = 0 <=> files[v] = {})
<1>1. files[v] \in SUBSET Segments
  BY DEF TypeOK
<1>2. IsFiniteSet(files[v]) /\ Cardinality(files[v]) <= SegmentCount
  BY <1>1, SegmentsFinite, FS_Subset
<1>3. Cardinality(files[v]) \in Nat /\ (Cardinality(files[v]) = 0 <=> files[v] = {})
  BY <1>2, FS_CardinalityType, FS_EmptySet
<1> QED BY <1>2, <1>3, CountIsPositive DEF Size

-----------------------------------------------------------------------------
(* The size of the cache.                                                  *)

Sizes == [v \in Videos |-> Size(v)]

LEMMA TotalIsSum == \A V \in SUBSET Videos : TotalSize(V) = Total(Sizes, V)
<1> SUFFICES ASSUME NEW V \in SUBSET Videos PROVE TotalSize(V) = Total(Sizes, V)
  OBVIOUS
<1>1. IsFiniteSet(V)
  BY CacheAssumption, FS_Subset
<1>2. PICK h : IsSum(h, Sizes, V)
  BY <1>1, SumExists
<1>3. \A s \in SUBSET V : s # {} => Sizes[Pick(s)] = Size(Pick(s))
  BY PickIn DEF Sizes
<1>4. h = [s \in SUBSET V |-> IF s = {} THEN 0 ELSE Size(Pick(s)) + h[s \ {Pick(s)}]]
  BY <1>2, <1>3 DEF IsSum
<1>5. PICK k : /\ k = [s \in SUBSET V |-> IF s = {} THEN 0 ELSE Size(Pick(s)) + k[s \ {Pick(s)}]]
               /\ TotalSize(V) = k[V]
  BY <1>4 DEF TotalSize, MapThenSumSet, MapThenFoldSet, Pick
<1>6. IsSum(k, Sizes, V)
  BY <1>3, <1>5 DEF IsSum
<1> QED BY <1>1, <1>5, <1>6, TotalOfAny

LEMMA TotalIsSumAfter == \A V \in SUBSET Videos : TotalSize(V)' = Total(Sizes', V)
<1> SUFFICES ASSUME NEW V \in SUBSET Videos PROVE TotalSize(V)' = Total(Sizes', V)
  OBVIOUS
<1>1. IsFiniteSet(V)
  BY CacheAssumption, FS_Subset
<1>2. PICK h : IsSum(h, Sizes', V)
  BY <1>1, SumExists
<1>3. \A s \in SUBSET V : s # {} => Sizes'[Pick(s)] = Size(Pick(s))'
  BY PickIn DEF Sizes
<1>4. h = [s \in SUBSET V |-> IF s = {} THEN 0 ELSE Size(Pick(s))' + h[s \ {Pick(s)}]]
  BY <1>2, <1>3 DEF IsSum
<1>5. PICK k : /\ k = [s \in SUBSET V |-> IF s = {} THEN 0 ELSE Size(Pick(s))' + k[s \ {Pick(s)}]]
               /\ TotalSize(V)' = k[V]
  BY <1>4 DEF TotalSize, MapThenSumSet, MapThenFoldSet, Pick
<1>6. IsSum(k, Sizes', V)
  BY <1>3, <1>5 DEF IsSum
<1> QED BY <1>1, <1>5, <1>6, TotalOfAny

LEMMA SizesType == TypeOK => Sizes \in [Videos -> Nat]
BY SizeType DEF Sizes

\* The size of the cache is a sum over its videos.
LEMMA SumFacts ==
    ASSUME NEW g \in [Videos -> Nat], NEW W \in SUBSET Videos
    PROVE  /\ Total(g, W) \in Nat
           /\ \A X \in SUBSET W : Total(g, X) <= Total(g, W)
           /\ \A v \in Videos \ W : Total(g, W \cup {v}) = Total(g, W) + g[v]
<1>1. IsFiniteSet(W) /\ \A w \in W : g[w] \in Nat
  BY CacheAssumption, FS_Subset
<1>2. Total(g, W) \in Nat /\ \A X \in SUBSET W : Total(g, X) <= Total(g, W)
  BY <1>1, TotalType, TotalGrows
<1>3. ASSUME NEW v \in Videos \ W PROVE Total(g, W \cup {v}) = Total(g, W) + g[v]
  <2>1. IsFiniteSet(W \cup {v}) /\ (\A w \in W \cup {v} : g[w] \in Nat) /\ g[v] \in Nat
    <3>1. W \cup {v} \in SUBSET Videos
      OBVIOUS
    <3> QED BY <3>1, CacheAssumption, FS_Subset
  <2>2. Total(g, W \cup {v}) = g[v] + Total(g, (W \cup {v}) \ {v})
    BY <2>1, TotalWithout
  <2>3. (W \cup {v}) \ {v} = W
    OBVIOUS
  <2> QED BY <1>2, <2>1, <2>2, <2>3
<1> QED BY <1>2, <1>3

\* Videos without segments add nothing to it.
LEMMA ListedSum ==
    ASSUME TypeOK, NEW X PROVE TotalSize(Listed \ X) = TotalSize(visible \ X)
<1>1. visible \ X \in SUBSET Videos /\ Listed \ X \in SUBSET Videos /\ IsFiniteSet(visible \ X)
  BY CacheAssumption, FS_Subset DEF TypeOK, Listed
<1>2. \A v \in visible \ X : Sizes[v] \in Nat /\ Sizes[v] = Size(v)
  BY <1>1, SizeType DEF Sizes
<1>3. Listed \ X = {v \in visible \ X : Sizes[v] > 0}
  BY <1>2 DEF Listed
<1>4. Total(Sizes, visible \ X) = Total(Sizes, {v \in visible \ X : Sizes[v] > 0})
  BY <1>1, <1>2, TotalPositive
<1> QED BY <1>1, <1>3, <1>4, TotalIsSum

LEMMA EvictKept ==
    ASSUME TypeOK, EvictInv, NEW t \in Threads, EvictKeeps(t), Going(t, "evict")',
           files' = files, visible' = visible
    PROVE  Knows(t)'
<1>1. /\ Knows(t) /\ Held(t) /\ thread'[t].total = thread[t].total
      /\ thread'[t].todo = thread[t].todo /\ thread'[t].video = thread[t].video
  BY DEF EvictKeeps, EvictInv
<1>2. Past(t)' = Past(t) /\ Sizes' = Sizes
  BY <1>1 DEF Past, Sizes, Size
<1>3. Past(t) \in SUBSET Videos /\ visible \in SUBSET Videos
  BY DEF TypeOK, Past
<1>4. TotalSize(visible)' = TotalSize(visible) /\ TotalSize(Past(t))' = TotalSize(Past(t))
  BY <1>2, <1>3, TotalIsSum, TotalIsSumAfter
<1> QED BY <1>1, <1>4 DEF Knows, Held

LEMMA EvictFrame ==
    ASSUME TypeOK, EvictInv, \A u \in Threads : EvictKeeps(u), files' = files, visible' = visible
    PROVE  EvictInv'
BY EvictKept DEF EvictInv, Threads

\* The segments of one video change, and the enforcements are told.
LEMMA SegmentsChange ==
    ASSUME TypeOK, NEW v \in Videos, NEW new \in SUBSET Segments,
           files' = [files EXCEPT ![v] = new], NEW W \in SUBSET Videos
    PROVE  /\ Cardinality(new \ files[v]) \in Nat /\ Cardinality(files[v] \ new) \in Nat
           /\ TotalSize(W) \in Nat /\ Total(Sizes', W) \in Nat
           /\ v \notin W => Total(Sizes', W) = TotalSize(W)
           /\ v \in W => Total(Sizes', W) + Cardinality(files[v] \ new)
                           = TotalSize(W) + Cardinality(new \ files[v])
<1> DEFINE old == files[v]
           rest == W \ {v}
<1>1. old \in SUBSET Segments /\ files'[v] = new /\ \A w \in Videos \ {v} : files'[w] = files[w]
  BY DEF TypeOK
<1>2. /\ IsFiniteSet(old) /\ IsFiniteSet(new) /\ IsFiniteSet(old \ new)
      /\ IsFiniteSet(new \ old) /\ IsFiniteSet(old \cap new)
  BY <1>1, SegmentsFinite, FS_Subset
<1>3. /\ Cardinality(old) \in Nat /\ Cardinality(new) \in Nat /\ Cardinality(old \ new) \in Nat
      /\ Cardinality(new \ old) \in Nat /\ Cardinality(old \cap new) \in Nat
  BY <1>2, FS_CardinalityType
<1> HIDE DEF old
<1>4. /\ Cardinality(old \ new) = Cardinality(old) - Cardinality(old \cap new)
      /\ Cardinality(new \ old) = Cardinality(new) - Cardinality(new \cap old)
      /\ new \cap old = old \cap new
  BY <1>2, FS_Difference
<1>5. /\ Sizes[v] = Cardinality(old) /\ Sizes'[v] = Cardinality(new)
      /\ \A w \in Videos \ {v} : Sizes'[w] = Sizes[w]
  BY <1>1 DEF Sizes, Size, old
<1>6. Sizes \in [Videos -> Nat] /\ Sizes' \in [Videos -> Nat]
  <2>1. Sizes \in [Videos -> Nat]
    BY SizesType
  <2>2. \A w \in Videos : Sizes'[w] \in Nat
    BY <1>3, <1>5, <2>1
  <2> QED BY <2>1, <2>2 DEF Sizes
<1>7. Total(Sizes, W) = TotalSize(W) /\ Total(Sizes, W) \in Nat /\ Total(Sizes', W) \in Nat
  BY <1>6, SumFacts, TotalIsSum
<1>8. CASE v \notin W
  <2>1. IsFiniteSet(W) /\ \A w \in W : Sizes'[w] = Sizes[w]
    BY <1>5, <1>8, CacheAssumption, FS_Subset
  <2>2. Total(Sizes', W) = Total(Sizes, W)
    BY <2>1, TotalAgrees
  <2> QED BY <1>3, <1>7, <1>8, <2>2 DEF old
<1>9. CASE v \in W
  <2>1. rest \in SUBSET Videos /\ IsFiniteSet(rest) /\ v \in Videos \ rest
        /\ rest \cup {v} = W /\ \A w \in rest : Sizes'[w] = Sizes[w]
    BY <1>5, <1>9, CacheAssumption, FS_Subset
  <2>2. Total(Sizes', rest) = Total(Sizes, rest)
    BY <2>1, TotalAgrees
  <2>3. /\ Total(Sizes, W) = Total(Sizes, rest) + Sizes[v]
        /\ Total(Sizes', W) = Total(Sizes', rest) + Sizes'[v]
        /\ Total(Sizes, rest) \in Nat
    BY <1>6, <2>1, SumFacts
  <2> DEFINE a == Cardinality(old)
             b == Cardinality(new)
             both == Cardinality(old \cap new)
             r == Total(Sizes, rest)
  <2>4. /\ a \in Nat /\ b \in Nat /\ both \in Nat /\ r \in Nat
        /\ Cardinality(old \ new) = a - both /\ Cardinality(new \ old) = b - both
        /\ Total(Sizes, W) = r + a /\ Total(Sizes', W) = r + b
    BY <1>3, <1>4, <1>5, <2>2, <2>3
  <2> HIDE DEF a, b, both, r
  <2>5. Total(Sizes', W) + Cardinality(old \ new) = Total(Sizes, W) + Cardinality(new \ old)
    BY <2>4
  <2> QED BY <1>3, <1>7, <1>9, <2>5 DEF old
<1> QED BY <1>8, <1>9

LEMMA ChangedThread ==
    ASSUME TypeOK, NEW x, NEW v \in Videos, NEW new \in SUBSET Segments
    PROVE  /\ Changed(x, v, new) \in [Threads -> Thread]
           /\ \A u \in Threads :
                 /\ Alike(thread[u], Changed(x, v, new)[u])
                 /\ u # x /\ Measured(u) /\ v \in visible =>
                       Told(thread[u], Changed(x, v, new)[u],
                            Cardinality(new \ files[v]), Cardinality(files[v] \ new))
                 /\ ~(u # x /\ Measured(u) /\ v \in visible) =>
                       Told(thread[u], Changed(x, v, new)[u], 0, 0)
<1>1. CASE v \in visible
  <2> DEFINE in == Cardinality(new \ files[v])
             out == Cardinality(files[v] \ new)
  <2>1. in \in Nat /\ out \in Nat
    <3>1. IsFiniteSet(new \ files[v]) /\ IsFiniteSet(files[v] \ new)
      BY SegmentsFinite, FS_Subset DEF TypeOK
    <3> QED BY <3>1, FS_CardinalityType
  <2>2. Changed(x, v, new) = Moved(x, in, out)
    BY <1>1 DEF Changed
  <2> HIDE DEF in, out
  <2>3. /\ Moved(x, in, out) \in [Threads -> Thread]
        /\ \A u \in Threads :
              /\ Alike(thread[u], Moved(x, in, out)[u])
              /\ u # x /\ Measured(u) => Told(thread[u], Moved(x, in, out)[u], in, out)
              /\ ~(u # x /\ Measured(u)) => Told(thread[u], Moved(x, in, out)[u], 0, 0)
    BY <2>1, MovedThread
  <2> QED BY <1>1, <2>2, <2>3 DEF in, out
<1>2. CASE v \notin visible
  <2>1. Changed(x, v, new) = thread
    BY <1>2 DEF Changed
  <2>2. \A u \in Threads : Told(thread[u], thread[u], 0, 0)
    BY DEF Told, TypeOK, Thread
  <2> QED BY <1>2, <2>1, <2>2 DEF TypeOK, Alike
<1> QED BY <1>1, <1>2

\* So they know as much as before.
LEMMA ChangedKnows ==
    ASSUME TypeOK, EvictInv, NEW v \in Videos, NEW new \in SUBSET Segments,
           files' = [files EXCEPT ![v] = new], visible' = visible,
           NEW x, NEW u \in Threads, u # x, Same(u), Going(u, "evict")',
           thread'[u].came = Changed(x, v, new)[u].came,
           thread'[u].gone = Changed(x, v, new)[u].gone
    PROVE  Knows(u)'
<1>1. Knows(u) /\ Measured(u) /\ Past(u)' = Past(u) /\ thread'[u].total = thread[u].total
  BY DEF EvictInv, Same, Going, Measured, Past
<1>2. Past(u) \in SUBSET Videos /\ visible \in SUBSET Videos /\ Past(u) \subseteq visible
  BY DEF TypeOK, Past
<1>3. TotalSize(visible)' = Total(Sizes', visible) /\ TotalSize(Past(u))' = Total(Sizes', Past(u))
  BY <1>1, <1>2, TotalIsSumAfter
<1>4. /\ thread[u].came \in Nat /\ thread[u].gone \in Nat /\ thread[u].total \in Int
  BY DEF TypeOK, Thread
<1>5. CASE v \in visible
  <2>1. Told(thread[u], Changed(x, v, new)[u],
             Cardinality(new \ files[v]), Cardinality(files[v] \ new))
    BY <1>1, <1>5, ChangedThread
  <2> DEFINE in == Cardinality(new \ files[v])
             out == Cardinality(files[v] \ new)
             all == Total(Sizes', visible)
             past == Total(Sizes', Past(u))
  <2>2. /\ in \in Nat /\ out \in Nat /\ TotalSize(visible) \in Nat /\ all \in Nat
        /\ all + out = TotalSize(visible) + in
    BY <1>2, <1>5, SegmentsChange
  <2>3. /\ past \in Nat /\ TotalSize(Past(u)) \in Nat
        /\ past = TotalSize(Past(u)) \/ past + out = TotalSize(Past(u)) + in
    BY <1>2, SegmentsChange
  <2>4. /\ thread[u].total + thread[u].came = TotalSize(visible) + thread[u].gone
        /\ TotalSize(Past(u)) <= thread[u].came
    BY <1>1 DEF Knows
  <2>5. thread'[u].came = thread[u].came + in /\ thread'[u].gone = thread[u].gone + out
    BY <2>1 DEF Told
  <2>6. TotalSize(visible)' = all /\ TotalSize(Past(u))' = past
    BY <1>3
  <2> HIDE DEF in, out, all, past
  <2>7. thread[u].total + (thread[u].came + in) = all + (thread[u].gone + out)
    BY <1>4, <2>2, <2>4
  <2>8. past <= thread[u].came + in
    BY <1>4, <2>2, <2>3, <2>4
  <2> QED BY <1>1, <2>5, <2>6, <2>7, <2>8 DEF Knows
<1>6. CASE v \notin visible
  <2>1. thread'[u].came = thread[u].came /\ thread'[u].gone = thread[u].gone
    <3>1. Told(thread[u], Changed(x, v, new)[u], 0, 0)
      BY <1>6, ChangedThread
    <3> QED BY <1>4, <3>1 DEF Told
  <2>2. /\ Total(Sizes', visible) = TotalSize(visible)
        /\ Total(Sizes', Past(u)) = TotalSize(Past(u))
    BY <1>2, <1>6, SegmentsChange
  <2> QED BY <1>1, <1>3, <2>1, <2>2 DEF Knows
<1> QED BY <1>5, <1>6

LEMMA ChangedOne ==
    ASSUME TypeOK, EvictInv, NEW v \in Videos, NEW new \in SUBSET Segments,
           files' = [files EXCEPT ![v] = new], visible' = visible,
           NEW x, NEW u \in Threads, u # x, thread'[u] = Changed(x, v, new)[u]
    PROVE  Same(u) /\ (Going(u, "evict")' => Knows(u)')
<1>1. Same(u)
  <2>1. Alike(thread[u], Changed(x, v, new)[u])
    BY ChangedThread
  <2> QED BY <2>1 DEF Same, Alike
<1> QED BY <1>1, ChangedKnows

LEMMA ChangedAll ==
    ASSUME TypeOK, EvictInv, NEW v \in Videos, NEW new \in SUBSET Segments,
           files' = [files EXCEPT ![v] = new], visible' = visible,
           NEW x, NEW T \in SUBSET Threads, x \notin T,
           \A u \in T : thread'[u] = Changed(x, v, new)[u]
    PROVE  \A u \in T : Same(u) /\ (Going(u, "evict")' => Knows(u)')
<1> SUFFICES ASSUME NEW u \in T PROVE Same(u) /\ (Going(u, "evict")' => Knows(u)')
  OBVIOUS
<1>1. u \in Threads /\ u # x /\ thread'[u] = Changed(x, v, new)[u]
  OBVIOUS
<1> QED BY <1>1, ChangedOne

LEMMA ListedType == TypeOK => Listed \in SUBSET Videos /\ IsFiniteSet(Listed)
<1> SUFFICES ASSUME TypeOK PROVE Listed \in SUBSET Videos /\ IsFiniteSet(Listed)
  OBVIOUS
<1>1. Listed \in SUBSET Videos
  BY DEF TypeOK, Listed
<1> QED BY <1>1, CacheAssumption, FS_Subset

LEMMA TotalSizeType == TypeOK => TotalSize(Listed) \in Nat
<1> SUFFICES ASSUME TypeOK PROVE TotalSize(Listed) \in Nat
  OBVIOUS
<1>1. Listed \in SUBSET Videos /\ IsFiniteSet(Listed)
  BY ListedType
<1>2. \A v \in Listed : Sizes[v] \in Nat
  BY <1>1, SizeType DEF Sizes
<1>3. Total(Sizes, Listed) \in Nat
  BY <1>1, <1>2, TotalType
<1> QED BY <1>1, <1>3, TotalIsSum

\* The candidates are in a total order, so there is a first one.
LEMMA FirstIn ==
    ASSUME NEW V \in SUBSET Videos, V # {}
    PROVE  First(V) \in V
<1> DEFINE Ordered(T) == \E v \in T : \A u \in T \ {v} : Before(v, u)
           A == {T \in SUBSET V : T = {} \/ Ordered(T)}
<1>1. IsFiniteSet(V)
  BY CacheAssumption, FS_Subset
<1>2. \A v \in V : v \in Nat /\ Priority[v] \in Nat
  BY CacheAssumption
<1>3. ASSUME NEW T \in SUBSET V, \A U \in SUBSET T : U # T => U \in A
      PROVE  T \in A
  <2> SUFFICES ASSUME T # {} PROVE Ordered(T)
    OBVIOUS
  <2>1. PICK x \in T : TRUE
    OBVIOUS
  <2>2. CASE T \ {x} = {}
    BY <2>2
  <2>3. CASE T \ {x} # {}
    <3>1. T \ {x} \in A
      BY <1>3, <2>1
    <3>2. PICK m \in T \ {x} : \A u \in (T \ {x}) \ {m} : Before(m, u)
      BY <3>1, <2>3
    <3>3. CASE Before(m, x)
      BY <3>2, <3>3
    <3>4. CASE ~Before(m, x)
      <4>1. m \in Nat /\ x \in Nat /\ Priority[m] \in Nat /\ Priority[x] \in Nat /\ m # x
        BY <1>2, <3>2
      <4>2. Before(x, m)
        BY <3>4, <4>1 DEF Before
      <4>3. ASSUME NEW u \in T \ {x}, u # m PROVE Before(x, u)
        <5>1. Before(m, u)
          BY <3>2, <4>3
        <5>2. u \in Nat /\ Priority[u] \in Nat
          BY <1>2
        <5> QED BY <5>1, <5>2, <4>1, <4>2 DEF Before
      <4> QED BY <4>2, <4>3
    <3> QED BY <3>3, <3>4
  <2> QED BY <2>2, <2>3
<1>4. V \in A
  <2>1. SUBSET V \subseteq A
    <3> HIDE DEF A
    <3> QED BY <1>1, <1>3, SubsetInduction
  <2> QED BY <2>1
<1> QED BY <1>4 DEF First

-----------------------------------------------------------------------------
(* Steps of one thread that leave the cache alone.                         *)

Quiet == UNCHANGED <<files, entry, visible, arriving, noted, stale, lost>>

LEMMA OneThread ==
    ASSUME TypeOK, NEW t \in Threads, NEW new \in Thread,
           thread' = [thread EXCEPT ![t] = new]
    PROVE  /\ thread' \in [Threads -> Thread] /\ thread'[t] = new
           /\ \A u \in Threads \ {t} : thread'[u] = thread[u] /\ Same(u) /\ Held(u)
BY SameIfEqual DEF TypeOK

LEMMA ThreadCore ==
    ASSUME Inv, NEW t \in Threads, NEW new \in Thread, thread' = [thread EXCEPT ![t] = new],
           UNCHANGED <<files, entry, visible, arriving, noted, stale>>, lost' \subseteq lost,
           queue' \in Seq(Videos), mishaps' \in Nat, Control(t)',
           thread[t].pc \notin {"scan", "store"}, new.pc # "store",
           t = Worker => thread[t].pc # "upload",
           EvictKeeps(t) \/ EvictInv', Hidden', WorkerHas'
    PROVE  Inv'
<1>1. /\ thread' \in [Threads -> Thread] /\ thread'[t] = new
      /\ \A u \in Threads \ {t} : thread'[u] = thread[u] /\ Same(u) /\ Held(u)
  BY OneThread DEF Inv
<1>2. TypeOK'
  BY <1>1 DEF Inv, TypeOK
<1>3. ControlInv'
  BY <1>1, ControlFrame DEF Inv
<1>4. UploadKeeps
  <2>1. CASE t = Worker
    BY <2>1 DEF UploadKeeps
  <2>2. CASE t # Worker
    BY <2>2, <1>1, WorkerIn, SameWorker
  <2> QED BY <2>1, <2>2
<1>5. \A u \in Threads : CoverKeeps(u) /\ ScanKeeps(u) /\ CountKeeps(u)
                         /\ (EvictKeeps(t) => EvictKeeps(u))
  <2>1. CoverKeeps(t) /\ ScanKeeps(t) /\ CountKeeps(t)
    BY <1>1 DEF CoverKeeps, ScanKeeps, CountKeeps
  <2> QED BY <2>1, <1>1, SameKeeps
<1>6. EntryInv'
  BY <1>4, <1>5, EntryFrame DEF Inv
<1>7. CountInv'
  BY <1>4, <1>5, CountFrame DEF Inv
<1>8. EvictInv'
  BY <1>5, EvictFrame DEF Inv
<1> QED BY <1>2, <1>3, <1>6, <1>7, <1>8 DEF Inv

LEMMA ThreadStep ==
    ASSUME Inv, NEW t \in Threads, NEW new \in Thread, thread' = [thread EXCEPT ![t] = new],
           Quiet, queue' \in Seq(Videos), mishaps' \in Nat, Control(t)',
           thread[t].pc \notin {"scan", "store"}, new.pc # "store",
           EvictKeeps(t) \/ EvictInv',
           t = Worker => /\ WorkerKeeps /\ thread[t].pc # "upload"
                         /\ new.pc \notin {"split", "upload"}
    PROVE  Inv'
<1>1. /\ thread'[t] = new
      /\ \A u \in Threads \ {t} : thread'[u] = thread[u] /\ Same(u) /\ Held(u)
  BY OneThread DEF Inv
<1>2. Worker \in Threads /\ (t # Worker => Same(Worker) /\ thread'[Worker] = thread[Worker])
  BY <1>1, WorkerIn
<1>3. WorkerKeeps
  BY <1>2, SameWorker
<1>4. Hidden'
  BY <1>1, <1>2, HiddenFrame DEF Inv, Quiet
<1>5. WorkerHas'
  BY <1>3, WorkerFrame DEF Inv, Quiet
<1> QED BY <1>4, <1>5, ThreadCore DEF Quiet

-----------------------------------------------------------------------------
(* Requests.                                                               *)

LEMMA ClearStep ==
    ASSUME Inv, NEW t \in Requests, NEW v \in Videos, Clear(t, v) PROVE Inv'
<1> DEFINE new == [Idle EXCEPT !.pc = "remove", !.at = v]
<1>1. new \in Thread /\ new.pc = "remove" /\ new.at = v /\ new.then = "idle" /\ new.todo = {}
  BY IdleThread DEF Idle, Thread, Pc
<1> HIDE DEF new
<1>2. /\ thread' = [thread EXCEPT ![t] = new] /\ thread[t].pc = "idle" /\ Quiet
      /\ queue' = queue /\ mishaps' = mishaps
  BY Zenon DEF Clear, Receive, Quiet, new
<1>3. t \in Threads /\ t # Worker /\ thread'[t] = new
  BY <1>1, <1>2, OneThread, CacheAssumption DEF Threads, Inv
<1>4. Control(t)' /\ EvictKeeps(t)
  BY <1>1, <1>3 DEF Control, EvictKeeps, Going, RequestPc
<1> QED BY <1>1, <1>2, <1>3, <1>4, ThreadStep DEF Inv, TypeOK

LEMMA ClearAllStep ==
    ASSUME Inv, NEW t \in Requests, ClearAll(t) PROVE Inv'
<1> DEFINE V == {v \in visible : entry[v] \notin {None, 0}}
           new == [Idle EXCEPT !.pc = "next", !.todo = V]
<1>1. new \in Thread /\ new.pc = "next" /\ new.todo = V
  <2>1. V \in SUBSET Videos
    BY DEF Inv, TypeOK
  <2> HIDE DEF V
  <2> QED BY <2>1, IdleThread DEF Idle, Thread, Pc
<1>2. /\ thread' = [thread EXCEPT ![t] = new] /\ thread[t].pc = "idle" /\ Quiet
      /\ queue' = queue /\ mishaps' = mishaps
  BY Zenon DEF ClearAll, Receive, Quiet
<1>3. V \subseteq visible'
  BY <1>2 DEF Quiet
<1> HIDE DEF new, V
<1>4. t \in Threads /\ t # Worker /\ thread'[t] = new
  BY <1>1, <1>2, OneThread, CacheAssumption DEF Threads, Inv
<1>5. Control(t)' /\ EvictKeeps(t)
  BY <1>1, <1>3, <1>4 DEF Control, EvictKeeps, Going, RequestPc
<1> QED BY <1>1, <1>2, <1>4, <1>5, ThreadStep DEF Inv, TypeOK

LEMMA NextClearStep ==
    ASSUME Inv, NEW t \in Requests, NextClear(t) PROVE Inv'
<1>1. t \in Threads /\ t # Worker /\ thread[t] \in Thread /\ thread[t].pc = "next"
      /\ Quiet /\ queue' = queue /\ mishaps' = mishaps
  BY CacheAssumption DEF NextClear, NoMishap, Quiet, Threads, Inv, TypeOK
<1>2. \E new \in Thread :
         /\ thread' = [thread EXCEPT ![t] = new]
         /\ \/ new.pc = "idle" /\ new.todo = {}
            \/ /\ new.pc = "remove" /\ new.at \in Videos /\ new.then = "next"
               /\ new.todo \subseteq thread[t].todo
  <2>1. CASE thread' = [thread EXCEPT ![t] = Idle]
    BY <2>1, IdleThread DEF Idle
  <2>2. CASE \E v \in thread[t].todo :
                thread' = [thread EXCEPT ![t].pc = "remove", ![t].at = v, ![t].then = "next",
                                         ![t].todo = @ \ {v}]
    <3>1. PICK v \in thread[t].todo :
                thread' = [thread EXCEPT ![t].pc = "remove", ![t].at = v, ![t].then = "next",
                                         ![t].todo = @ \ {v}]
      BY <2>2
    <3> DEFINE new == [thread[t] EXCEPT !.pc = "remove", !.at = v, !.then = "next",
                                        !.todo = @ \ {v}]
    <3>2. v \in Videos
      BY <1>1 DEF Thread
    <3>3. /\ new \in Thread /\ new.pc = "remove" /\ new.at \in Videos /\ new.then = "next"
          /\ new.todo \subseteq thread[t].todo
      BY <1>1, <3>2 DEF Thread, Pc
    <3>4. thread' = [thread EXCEPT ![t] = new]
      BY <3>1, <1>1 DEF Inv, TypeOK
    <3> HIDE DEF new
    <3> QED BY <3>3, <3>4
  <2> QED BY <2>1, <2>2 DEF NextClear
<1>3. PICK new \in Thread :
         /\ thread' = [thread EXCEPT ![t] = new]
         /\ \/ new.pc = "idle" /\ new.todo = {}
            \/ /\ new.pc = "remove" /\ new.at \in Videos /\ new.then = "next"
               /\ new.todo \subseteq thread[t].todo
  BY <1>2
<1>4. thread'[t] = new
  BY <1>1, <1>3, OneThread DEF Inv
<1>5. thread[t].todo \subseteq visible'
  BY <1>1 DEF Inv, ControlInv, Control, Quiet
<1>6. Control(t)' /\ EvictKeeps(t)
  BY <1>1, <1>3, <1>4, <1>5 DEF Control, EvictKeeps, Going, RequestPc
<1> QED BY <1>1, <1>3, <1>4, <1>6, ThreadStep DEF Inv, TypeOK

LEMMA DetailStep ==
    ASSUME Inv, NEW t \in Requests, NEW v \in Videos, Detail(t, v) PROVE Inv'
<1> DEFINE new == Refresh(Idle, v, "idle")
<1>1. /\ new \in Thread /\ new.pc = "scan" /\ new.at = v /\ new.then = "idle"
      /\ new.todo = {}
  <2>1. Idle.todo = {}
    BY DEF Idle
  <2>2. "idle" \in Pc
    BY DEF Pc
  <2> QED BY <2>1, <2>2, IdleThread, RefreshThread
<1> HIDE DEF new
<1>2. /\ thread' = [thread EXCEPT ![t] = new] /\ thread[t].pc = "idle" /\ Quiet
      /\ queue' = queue /\ mishaps' = mishaps
  BY Zenon DEF Detail, Receive, Quiet, new
<1>3. t \in Threads /\ t # Worker /\ thread'[t] = new
  BY <1>1, <1>2, OneThread, CacheAssumption DEF Threads, Inv
<1>4. Control(t)' /\ EvictKeeps(t)
  BY <1>1, <1>3 DEF Control, EvictKeeps, Going, RequestPc, RequestThen
<1> QED BY <1>1, <1>2, <1>3, <1>4, ThreadStep DEF Inv, TypeOK

\* What Flush and QueueCache start with.
LEMMA RefreshRequest ==
    ASSUME NEW v \in Videos, NEW then \in Pc
    PROVE  LET new == Refresh([Idle EXCEPT !.video = v], v, then) IN
           /\ new \in Thread /\ new.pc = "scan" /\ new.at = v /\ new.then = then
           /\ new.todo = {} /\ new.video = v
<1> DEFINE th == [Idle EXCEPT !.video = v]
<1>1. th \in Thread /\ th.video = v /\ th.todo = {}
  BY IdleThread DEF Idle, Thread, Pc
<1> HIDE DEF th
<1>2. /\ Refresh(th, v, then) \in Thread /\ Refresh(th, v, then).pc = "scan"
      /\ Refresh(th, v, then).at = v /\ Refresh(th, v, then).then = then
      /\ Refresh(th, v, then).todo = {} /\ Refresh(th, v, then).video = v
  BY <1>1, RefreshThread
<1> QED BY <1>2 DEF th

LEMMA QueueCacheStep ==
    ASSUME Inv, NEW t \in Requests, NEW v \in Videos, QueueCache(t, v) PROVE Inv'
<1> DEFINE new == Refresh([Idle EXCEPT !.video = v], v, "create")
<1>1. /\ new \in Thread /\ new.pc = "scan" /\ new.at = v /\ new.then = "create"
      /\ new.todo = {} /\ new.video = v
  <2>1. "create" \in Pc
    BY DEF Pc
  <2> QED BY <2>1, RefreshRequest
<1> HIDE DEF new
<1>2. /\ thread' = [thread EXCEPT ![t] = new] /\ thread[t].pc = "idle" /\ Quiet
      /\ queue' = queue /\ mishaps' = mishaps
  BY Zenon DEF QueueCache, Receive, Quiet, new
<1>3. t \in Threads /\ t # Worker /\ thread'[t] = new
  BY <1>1, <1>2, OneThread, CacheAssumption DEF Threads, Inv
<1>4. Control(t)' /\ EvictKeeps(t)
  BY <1>1, <1>3 DEF Control, EvictKeeps, Going, RequestPc, RequestThen
<1> QED BY <1>1, <1>2, <1>3, <1>4, ThreadStep DEF Inv, TypeOK

LEMMA CreateJobStep ==
    ASSUME Inv, NEW t \in Requests, CreateJob(t) PROVE Inv'
<1>1. /\ t \in Threads /\ t # Worker /\ thread[t].pc = "create" /\ Quiet /\ mishaps' = mishaps
      /\ thread' = [thread EXCEPT ![t] = Idle]
      /\ queue' = IF thread[t].count = SegmentCount THEN queue
                  ELSE Append(queue, thread[t].video)
  BY CacheAssumption DEF CreateJob, NoMishap, Quiet, Threads
<1>2. thread[t].video \in Videos /\ queue \in Seq(Videos)
  BY <1>1 DEF Inv, ControlInv, Control, Going, TypeOK
<1>3. queue' \in Seq(Videos)
  BY <1>1, <1>2
<1>4. thread'[t] = Idle /\ Idle.pc = "idle" /\ Idle.todo = {}
  BY <1>1, OneThread, IdleThread DEF Idle, Inv
<1>5. Control(t)' /\ EvictKeeps(t)
  BY <1>1, <1>4 DEF Control, EvictKeeps, Going, RequestPc
<1> QED BY <1>1, <1>3, <1>4, <1>5, ThreadStep, IdleThread DEF Inv

-----------------------------------------------------------------------------
(* Enforcements.                                                           *)

LEMMA EndPassStep ==
    ASSUME Inv, NEW t \in Threads, EndPass(t), thread[t].pc \in {"collect", "evict"}, Quiet,
           queue' = queue, mishaps' = mishaps
    PROVE  Inv'
<1> DEFINE new == IF t = Worker
                  THEN [Idle EXCEPT !.video = thread[t].video, !.pc = "reveal"] ELSE Idle
<1>1. thread[t] \in Thread
  BY DEF Inv, TypeOK
<1>2. /\ new \in Thread /\ new.todo = {}
      /\ \/ t # Worker /\ new.pc = "idle"
         \/ t = Worker /\ new.pc = "reveal" /\ new.video = thread[t].video
  BY <1>1, IdleThread DEF Idle, Thread, Pc
<1>3. thread' = [thread EXCEPT ![t] = new]
  BY Zenon DEF EndPass
<1> HIDE DEF new
<1>4. thread'[t] = new
  BY <1>2, <1>3, OneThread DEF Inv
<1>5. t = Worker => thread[t].video \in Videos
  BY DEF Inv, ControlInv, Control
<1>6. Control(t)'
  BY <1>2, <1>4, <1>5 DEF Control, Going, RequestPc, WorkerPc
<1>7. EvictKeeps(t) /\ (t = Worker => WorkerKeeps)
  BY <1>2, <1>4 DEF EvictKeeps, WorkerKeeps, Going
<1> QED BY <1>2, <1>3, <1>6, <1>7, ThreadStep DEF Inv, TypeOK

LEMMA CollectStep ==
    ASSUME Inv, NEW t \in Threads, Collect(t) PROVE Inv'
<1>1. thread[t] \in Thread /\ thread[t].pc = "collect" /\ Quiet /\ queue' = queue
      /\ mishaps' = mishaps
  BY DEF Collect, NoMishap, Quiet, Inv, TypeOK
<1>2. CASE TotalSize(Listed) <= Limit
  BY <1>1, <1>2, EndPassStep DEF Collect
<1>3. CASE ~(TotalSize(Listed) <= Limit)
  <2> DEFINE total == TotalSize(Listed)
             todo == Listed \ {thread[t].video}
             new == [thread[t] EXCEPT !.pc = "evict", !.total = total, !.todo = todo,
                                      !.came = 0, !.gone = 0]
  <2>1. thread' = [thread EXCEPT ![t] = new]
    BY <1>1, <1>3 DEF Collect, Inv, TypeOK
  <2>2. total \in Nat /\ Listed \in SUBSET Videos /\ Listed \subseteq visible
    BY TotalSizeType, ListedType DEF Inv, Listed
  <2>3. todo \in SUBSET Videos /\ todo \subseteq visible'
    BY <2>2, <1>1 DEF Quiet
  <2>4. visible \in SUBSET Videos /\ TotalSize(visible) = total
    <3>1. Listed \ {} = Listed /\ visible \ {} = visible
      OBVIOUS
    <3> QED BY <3>1, ListedSum DEF Inv, TypeOK
  <2>5. TotalSize(visible \ Listed) = 0
    <3>1. TotalSize(Listed \ Listed) = TotalSize(visible \ Listed)
      BY ListedSum DEF Inv
    <3>2. Listed \ Listed = {} /\ {} \in SUBSET Videos
      OBVIOUS
    <3> QED BY <3>1, <3>2, TotalIsSum, TotalEmpty
  <2>11. todo \cup {thread[t].video} = Listed \cup {thread[t].video}
    OBVIOUS
  <2> HIDE DEF total, todo
  <2>6. new \in Thread /\ new.pc = "evict" /\ new.total = total /\ new.todo = todo
        /\ new.video = thread[t].video /\ new.came = 0 /\ new.gone = 0
    <3>1. total \in Int /\ todo \in SUBSET Videos /\ 0 \in Nat
      BY <2>2, <2>3
    <3> QED BY <1>1, <3>1 DEF Thread, Pc
  <2> HIDE DEF new
  <2>7. thread'[t] = new /\ (\A u \in Threads \ {t} : Same(u) /\ Held(u))
    BY <2>1, <2>6, OneThread DEF Inv
  <2>8. Control(t)'
    <3>1. t = Worker => thread[t].video \in Videos
      BY <1>1 DEF Inv, ControlInv, Control
    <3> QED BY <2>3, <2>6, <2>7, <3>1 DEF Control, Going, RequestPc, WorkerPc
  <2>9. EvictInv'
    <3>1. files' = files /\ visible' = visible /\ Sizes' = Sizes
      BY <1>1 DEF Quiet, Sizes, Size
    <3>2. Knows(t)'
      <4>1. TotalSize(visible)' = total
        BY <2>4, <3>1, TotalIsSum, TotalIsSumAfter
      <4>2. Past(t)' = visible \ (Listed \cup {thread[t].video})
        BY <2>6, <2>7, <2>11, <3>1 DEF Past
      <4>3. TotalSize(Past(t))' = 0
        <5> DEFINE P == visible \ (Listed \cup {thread[t].video})
                   Q == visible \ Listed
        <5>1. P \in SUBSET Q /\ P \in SUBSET Videos /\ Q \in SUBSET Videos
          BY <2>4
        <5>2. Sizes \in [Videos -> Nat]
          BY SizesType DEF Inv
        <5>3. Total(Sizes, P) <= Total(Sizes, Q) /\ Total(Sizes, P) \in Nat
          BY <5>1, <5>2, SumFacts
        <5>4. Total(Sizes, Q) = 0
          BY <2>5, <5>1, TotalIsSum
        <5>5. TotalSize(Past(t))' = Total(Sizes', P)
          BY <4>2, <5>1, TotalIsSumAfter
        <5> QED BY <3>1, <5>3, <5>4, <5>5
      <4>4. thread'[t].total = total /\ thread'[t].came = 0 /\ thread'[t].gone = 0
        BY <2>6, <2>7
      <4>5. total + 0 = total + 0 /\ 0 <= 0
        OBVIOUS
      <4> QED BY <4>1, <4>3, <4>4, <4>5 DEF Knows
    <3> SUFFICES ASSUME NEW u \in Threads \ {t}, Going(u, "evict")' PROVE Knows(u)'
      BY <3>2 DEF EvictInv, Threads
    <3>3. EvictKeeps(u)
      BY <2>7, SameKeeps
    <3> QED BY <3>1, <3>3, EvictKept DEF Inv
  <2>10. t = Worker => WorkerKeeps
    BY <2>6, <2>7 DEF WorkerKeeps, Going
  <2> QED BY <1>1, <2>1, <2>6, <2>8, <2>9, <2>10, ThreadStep DEF Inv, TypeOK
<1> QED BY <1>2, <1>3

LEMMA EndEvictionStep ==
    ASSUME Inv, NEW t \in Threads, EndEviction(t) PROVE Inv'
BY EndPassStep DEF EndEviction, NoMishap, Quiet

-----------------------------------------------------------------------------
(* Refreshes.                                                              *)

LEMMA ScanStep ==
    ASSUME Inv, NEW t \in Threads, Scan(t) PROVE Inv'
<1> DEFINE v == thread[t].at
           others == {u \in Threads \ {t} : Counting(u, v)}
           new == [thread[t] EXCEPT !.pc = "store", !.count = Size(v), !.alone = others = {}]
<1>1. /\ thread[t] \in Thread /\ thread[t].pc = "scan" /\ v \in Videos /\ Quiet
      /\ queue' = queue /\ mishaps' = mishaps
      /\ thread' = [u \in Threads |->
                     CASE u = t -> new
                       [] u \in others -> [thread[u] EXCEPT !.alone = FALSE]
                       [] OTHER -> thread[u]]
  BY DEF Scan, NoMishap, Quiet, Inv, TypeOK, ControlInv, Control
<1>2. /\ new \in Thread /\ new.pc = "store" /\ new.at = v /\ new.count = Size(v)
      /\ new.then = thread[t].then /\ new.video = thread[t].video
      /\ new.todo = thread[t].todo /\ new.total = thread[t].total
      /\ new.came = thread[t].came /\ new.gone = thread[t].gone
      /\ new.pending = thread[t].pending
  <2>1. Size(v) \in 0..SegmentCount /\ (others = {}) \in BOOLEAN
    BY <1>1, SizeType DEF Inv
  <2> HIDE DEF others
  <2> QED BY <1>1, <2>1 DEF Thread, Pc
<1> HIDE DEF new
<1>3. /\ thread' \in [Threads -> Thread] /\ thread'[t] = new
      /\ \A u \in Threads \ {t} :
            /\ Same(u) /\ Held(u)
            /\ thread'[u].pc = thread[u].pc /\ thread'[u].at = thread[u].at
            /\ thread'[u].count = thread[u].count
            /\ Counting(u, v) => ~thread'[u].alone
            /\ thread'[u].alone => thread[u].alone
  <2>1. \A u \in Threads : thread[u] \in Thread
    BY DEF Inv, TypeOK
  <2>2. \A u \in Threads : /\ [thread[u] EXCEPT !.alone = FALSE] \in Thread
                            /\ ~[thread[u] EXCEPT !.alone = FALSE].alone
    BY <2>1 DEF Thread
  <2>3. thread' \in [Threads -> Thread] /\ thread'[t] = new
    BY <1>1, <1>2, <2>1, <2>2
  <2>4. ASSUME NEW u \in Threads \ {t}
        PROVE  /\ Same(u) /\ Held(u)
               /\ thread'[u].pc = thread[u].pc /\ thread'[u].at = thread[u].at
               /\ thread'[u].count = thread[u].count
               /\ Counting(u, v) => ~thread'[u].alone
               /\ thread'[u].alone => thread[u].alone
    <3>1. CASE u \in others
      <4>1. thread'[u] = [thread[u] EXCEPT !.alone = FALSE]
        BY <1>1, <3>1
      <4> QED BY <4>1, <2>1 DEF Same, Held, Thread
    <3>2. CASE u \notin others
      <4>1. thread'[u] = thread[u]
        BY <1>1, <3>2
      <4> QED BY <4>1, <3>2 DEF Same, Held
    <3> QED BY <3>1, <3>2
  <2> QED BY <2>3, <2>4
<1> HIDE DEF v, others
<1>4. Worker \in Threads /\ (t # Worker => Same(Worker))
  BY <1>3, WorkerIn
<1>5. Control(t) /\ thread[t].todo \subseteq visible'
  BY <1>1 DEF Inv, ControlInv, Control, Quiet
<1>6. ControlInv'
  <2>1. Control(t)'
    BY <1>1, <1>2, <1>3, <1>5 DEF Control, Going, RequestPc, WorkerPc
  <2> QED BY <1>1, <1>3, <2>1, ControlFrame DEF Inv, Quiet
<1>7. UploadKeeps /\ WorkerKeeps
  <2>1. CASE t = Worker
    BY <2>1, <1>1, <1>2, <1>3 DEF UploadKeeps, WorkerKeeps, Going
  <2> QED BY <2>1, <1>4, SameWorker
<1>8. \A u \in Threads : CoverKeeps(u) /\ EvictKeeps(u)
  <2>1. CoverKeeps(t) /\ EvictKeeps(t)
    BY <1>1, <1>2, <1>3 DEF CoverKeeps, EvictKeeps, Held, Going, v
  <2> QED BY <2>1, <1>3, SameKeeps
<1>9. CountInv'
  <2> SUFFICES ASSUME NEW u \in Threads, NEW w \in Videos, thread'[u].pc = "store",
                      thread'[u].alone, thread'[u].at = w, thread'[u].count # Size(w)'
               PROVE  Recounted(u, w)'
    BY DEF CountInv, Threads
  <2>1. Size(w)' = Size(w)
    BY <1>1 DEF Size, Quiet
  <2>2. u # t
    BY <1>2, <1>3, <2>1
  <2>3. thread[u].pc = "store" /\ thread[u].at = w /\ thread[u].count # Size(w)
        /\ thread[u].alone /\ w # v
    BY <1>3, <2>1, <2>2 DEF Counting
  <2>4. Recounted(u, w)
    BY <2>3 DEF Inv, CountInv
  <2>5. CASE w \in noted \/ Arrives(w)
    BY <2>5, <1>1 DEF Quiet, Recounted, Arrives
  <2>6. CASE \E x \in Threads \ {u} : thread[x].at = w /\ thread[x].pc = "scan"
    <3>1. PICK x \in Threads \ {u} : thread[x].at = w /\ thread[x].pc = "scan"
      BY <2>6
    <3>2. x # t
      BY <3>1, <2>3 DEF v
    <3>3. thread'[x].at = w /\ thread'[x].pc = "scan"
      BY <3>1, <3>2, <1>3
    <3> QED BY <3>1, <3>3 DEF Recounted, Threads
  <2>7. CASE Uploads(w) /\ files[w] = Segments
    BY <2>7, <1>1, <1>7 DEF Uploads, UploadKeeps, Recounted, Quiet
  <2> QED BY <2>4, <2>5, <2>6, <2>7 DEF Recounted
<1>10. TypeOK'
  BY <1>1, <1>3 DEF Inv, TypeOK, Quiet
<1>11. Hidden'
  BY <1>1, <1>2, <1>3, <1>4, HiddenFrame DEF Inv, Quiet, Same
<1>12. WorkerHas'
  BY <1>1, <1>7, WorkerFrame DEF Inv, Quiet
<1>13. EntryInv'
  BY <1>1, <1>7, <1>8, EntryFrame DEF Inv, Quiet
<1>14. EvictInv'
  BY <1>1, <1>8, EvictFrame DEF Inv, Quiet
<1> QED BY <1>1, <1>6, <1>9, <1>10, <1>11, <1>12, <1>13, <1>14 DEF Inv

LEMMA StoreStep ==
    ASSUME Inv, NEW t \in Threads, Store(t) PROVE Inv'
<1> DEFINE v == thread[t].at
           new == IF thread[t].then = "idle" THEN Idle
                  ELSE [thread[t] EXCEPT !.pc = thread[t].then, !.then = "idle"]
<1>1. /\ thread[t] \in Thread /\ thread[t].pc = "store" /\ v \in Videos
      /\ thread' = [thread EXCEPT ![t] = new]
      /\ entry' = [entry EXCEPT ![v] = thread[t].count]
      /\ stale' = IF thread[t].alone THEN stale \ {v} ELSE stale \cup {v}
      /\ UNCHANGED <<files, visible, arriving, noted, queue, lost>> /\ mishaps' = mishaps
  BY DEF Store, NoMishap, Inv, TypeOK, ControlInv, Control
<1>2. Control(t) /\ thread[t].then \in IF t = Worker THEN WorkerThen ELSE RequestThen
  BY <1>1 DEF Inv, ControlInv, Control
<1>3. /\ new \in Thread /\ new.pc = thread[t].then
      /\ new.pc \notin {"scan", "store", "upload", "split", "remove", "check"}
      /\ \/ /\ new.video = thread[t].video /\ new.todo = thread[t].todo
            /\ new.total = thread[t].total
            /\ new.came = thread[t].came /\ new.gone = thread[t].gone
            /\ new.pending = thread[t].pending
         \/ new.pc = "idle" /\ new.todo = {}
  <2>1. CASE thread[t].then = "idle"
    BY <2>1, IdleThread DEF Idle
  <2>2. CASE thread[t].then # "idle"
    BY <2>2, <1>1, <1>2 DEF Thread, Pc, WorkerThen, RequestThen
  <2> QED BY <2>1, <2>2
<1> HIDE DEF new
<1>4. /\ thread' \in [Threads -> Thread] /\ thread'[t] = new
      /\ \A u \in Threads \ {t} : thread'[u] = thread[u] /\ Same(u) /\ Held(u)
  BY <1>1, <1>3, OneThread DEF Inv
<1>5. Worker \in Threads /\ (t # Worker => Same(Worker))
  BY <1>4, WorkerIn
<1>6. TypeOK'
  <2>1. thread[t].count \in 0..SegmentCount
    BY <1>1 DEF Thread
  <2>2. entry' \in [Videos -> 0..SegmentCount \cup {None}]
    BY <1>1, <2>1 DEF Inv, TypeOK
  <2> QED BY <1>1, <1>4, <2>2 DEF Inv, TypeOK
<1>7. ControlInv'
  <2>1. thread[t].todo \subseteq visible'
    BY <1>1, <1>2 DEF Control
  <2>2. Control(t)'
    BY <1>1, <1>2, <1>3, <1>4, <2>1 DEF Control, Going, RequestPc, WorkerPc, RequestThen,
                                        WorkerThen
  <2> QED BY <1>1, <1>4, <2>2, ControlFrame DEF Inv
<1>8. UploadKeeps /\ WorkerKeeps
  <2>1. CASE t = Worker
    <3>1. thread[t].then # "idle"
      BY <2>1, <1>2 DEF WorkerThen
    <3> QED BY <2>1, <3>1, <1>1, <1>3, <1>4 DEF UploadKeeps, WorkerKeeps, Going
  <2> QED BY <2>1, <1>5, SameWorker
<1>9. \A u \in Threads : ScanKeeps(u) /\ CountKeeps(u) /\ EvictKeeps(u)
  <2>1. ScanKeeps(t) /\ CountKeeps(t) /\ EvictKeeps(t)
    BY <1>1, <1>3, <1>4 DEF ScanKeeps, CountKeeps, EvictKeeps, Held, Going
  <2> QED BY <2>1, <1>4, SameKeeps
<1>10. EntryInv'
  <2> SUFFICES ASSUME NEW w \in Videos, w \notin stale', entry'[w] \notin {None, Size(w)'}
               PROVE  Remembered(w)'
    BY DEF EntryInv
  <2>1. Size(w)' = Size(w)
    BY <1>1 DEF Size
  <2>2. CASE w # v
    <3>1. w \notin stale /\ entry'[w] = entry[w]
      BY <2>2, <1>1 DEF Inv, TypeOK
    <3>2. Remembered(w)
      BY <3>1, <2>1 DEF Inv, EntryInv
    <3>3. CASE w \in noted \/ Arrives(w)
      BY <3>3, <1>1 DEF Remembered, Arrives
    <3>4. CASE \E u \in Threads : Covers(u, w)
      <4>1. PICK u \in Threads : Covers(u, w)
        BY <3>4
      <4>2. u # t
        BY <4>1, <2>2 DEF Covers
      <4>3. Covers(u, w)'
        BY <4>1, <4>2, <1>4 DEF Covers
      <4> QED BY <4>3 DEF Remembered, Threads
    <3>5. CASE Uploads(w)
      BY <3>5, <1>8 DEF Uploads, UploadKeeps, Remembered
    <3> QED BY <3>2, <3>3, <3>4, <3>5 DEF Remembered
  <2>3. CASE w = v
    <3>1. thread[t].alone /\ entry'[w] = thread[t].count
      BY <2>3, <1>1 DEF Inv, TypeOK
    <3>2. Recounted(t, w)
      BY <2>1, <2>3, <3>1, <1>1 DEF Inv, CountInv
    <3>3. CASE w \in noted \/ Arrives(w)
      BY <3>3, <1>1 DEF Remembered, Arrives
    <3>4. CASE \E u \in Threads \ {t} : thread[u].at = w /\ thread[u].pc = "scan"
      <4>1. PICK u \in Threads \ {t} : thread[u].at = w /\ thread[u].pc = "scan"
        BY <3>4
      <4>2. Covers(u, w)'
        BY <4>1, <1>4 DEF Covers
      <4> QED BY <4>2 DEF Remembered, Threads
    <3>5. CASE Uploads(w)
      BY <3>5, <1>8 DEF Uploads, UploadKeeps, Remembered
    <3> QED BY <3>2, <3>3, <3>4, <3>5 DEF Recounted
  <2> QED BY <2>2, <2>3
<1>11. CountInv'
  BY <1>1, <1>8, <1>9, CountFrame DEF Inv
<1>12. Hidden'
  BY <1>1, <1>3, <1>4, <1>5, HiddenFrame DEF Inv, Same
<1>13. WorkerHas'
  BY <1>1, <1>8, WorkerFrame DEF Inv
<1>14. EvictInv'
  BY <1>1, <1>9, EvictFrame DEF Inv
<1> QED BY <1>1, <1>6, <1>7, <1>10, <1>11, <1>12, <1>13, <1>14 DEF Inv

-----------------------------------------------------------------------------
(* Steps that change the directory of a video.                             *)

\* A thread that refreshes v next covers whatever happens to v.
LEMMA ScanCovers ==
    ASSUME Inv, NEW t \in Threads, NEW v \in Videos, \A u \in Threads \ {t} : Same(u),
           thread'[t].pc = "scan", thread'[t].at = v,
           thread[t].pc \notin {"scan", "store"},
           t = Worker /\ thread[t].pc = "upload" => thread[t].video = v,
           \A w \in Videos \ {v} : files'[w] = files[w] /\ (w \in noted => w \in noted'),
           entry' = entry, stale' = stale, arriving' = arriving
    PROVE  EntryInv' /\ CountInv'
<1>1. \A w \in Videos \ {v} : Size(w)' = Size(w)
  BY DEF Size
<1>2. \A w \in Videos \ {v} : Uploads(w) => Uploads(w)'
  <2>1. CASE t = Worker
    BY <2>1 DEF Uploads
  <2>2. CASE t # Worker
    <3>1. Same(Worker)
      BY <2>2, WorkerIn
    <3> QED BY <3>1 DEF Uploads, Same
  <2> QED BY <2>1, <2>2
<1>3. EntryInv'
  <2> SUFFICES ASSUME NEW w \in Videos, w \notin stale, entry[w] \notin {None, Size(w)'}
               PROVE  Remembered(w)'
    BY DEF EntryInv
  <2>1. CASE w = v
    BY <2>1 DEF Remembered, Covers, Threads
  <2>2. CASE w # v
    <3>1. Remembered(w)
      BY <2>2, <1>1 DEF Inv, EntryInv
    <3>2. CASE w \in noted \/ Arrives(w)
      BY <3>2, <2>2 DEF Remembered, Arrives
    <3>3. CASE \E u \in Threads : Covers(u, w)
      <4>1. PICK u \in Threads : Covers(u, w)
        BY <3>3
      <4>2. u \in Threads \ {t}
        BY <4>1 DEF Covers
      <4>3. Covers(u, w)'
        BY <4>1, <4>2 DEF Covers, Same
      <4> QED BY <4>3 DEF Remembered, Threads
    <3>4. CASE Uploads(w)
      BY <3>4, <2>2, <1>2 DEF Remembered
    <3> QED BY <3>1, <3>2, <3>3, <3>4 DEF Remembered
  <2> QED BY <2>1, <2>2
<1>4. CountInv'
  <2> SUFFICES ASSUME NEW u \in Threads, NEW w \in Videos, thread'[u].pc = "store",
                      thread'[u].alone, thread'[u].at = w, thread'[u].count # Size(w)'
               PROVE  Recounted(u, w)'
    BY DEF CountInv, Threads
  <2>1. u # t
    OBVIOUS
  <2>2. CASE w = v
    BY <2>1, <2>2 DEF Recounted, Threads
  <2>3. CASE w # v
    <3>1. thread[u].pc = "store" /\ thread[u].at = w /\ thread[u].count # Size(w)
          /\ thread[u].alone
      BY <2>1, <2>3, <1>1 DEF Same
    <3>2. Recounted(u, w)
      BY <3>1 DEF Inv, CountInv
    <3>3. CASE w \in noted \/ Arrives(w)
      BY <3>3, <2>3 DEF Recounted, Arrives
    <3>4. CASE \E x \in Threads \ {u} : thread[x].at = w /\ thread[x].pc = "scan"
      <4>1. PICK x \in Threads \ {u} : thread[x].at = w /\ thread[x].pc = "scan"
        BY <3>4
      <4>2. x \in Threads \ {t}
        BY <4>1
      <4>3. thread'[x].at = w /\ thread'[x].pc = "scan"
        BY <4>1, <4>2 DEF Same
      <4> QED BY <4>1, <4>3 DEF Recounted, Threads
    <3>5. CASE Uploads(w) /\ files[w] = Segments
      BY <3>5, <2>3, <1>2 DEF Recounted
    <3> QED BY <3>2, <3>3, <3>4, <3>5 DEF Recounted
  <2> QED BY <2>2, <2>3
<1> QED BY <1>3, <1>4

\* What is removed is in lost, so the worker is not promised it.
LEMMA LostCovers ==
    ASSUME Inv, WorkerKeeps, NEW v \in Videos, NEW kind, lost' = lost \cup {<<v, kind>>},
           \A w \in Videos \ {v} : files'[w] = files[w],
           kind = "cleared" \/ ~Uploads(v)
    PROVE  WorkerHas'
<1> DEFINE w == thread'[Worker].video
<1>1. v \in Gone' /\ Gone \subseteq Gone' /\ lost \subseteq lost'
  <2>1. <<v, kind>> \in lost' /\ <<v, kind>>[1] = v
    OBVIOUS
  <2> QED BY <2>1 DEF Gone
<1>2. Going(Worker, "fetch") \/ Going(Worker, "finish") \/ thread[Worker].pc = "upload" =>
         thread[Worker].video \in Videos
  BY WorkerIn DEF Inv, ControlInv, Control, Going
<1>3. CASE w = v
  BY <1>1, <1>3 DEF WorkerHas, WorkerKeeps, Uploads
<1>4. CASE w # v
  BY <1>1, <1>2, <1>4 DEF WorkerHas, WorkerKeeps, Inv
<1> QED BY <1>3, <1>4

LEMMA FlushStep ==
    ASSUME Inv, NEW t \in Requests, NEW v \in Videos, Flush(t, v) PROVE Inv'
<1> DEFINE new == Refresh([Idle EXCEPT !.video = v], v, "collect")
<1>1. /\ new \in Thread /\ new.pc = "scan" /\ new.at = v /\ new.then = "collect"
      /\ new.todo = {} /\ new.video = v
  <2>1. "collect" \in Pc
    BY DEF Pc
  <2> QED BY <2>1, RefreshRequest
<1> HIDE DEF new
<1>2. /\ thread' = [thread EXCEPT ![t] = new] /\ thread[t].pc = "idle"
      /\ UNCHANGED <<files, entry, visible, arriving, queue, stale, lost>>
      /\ noted' = noted \ {v} /\ mishaps' = mishaps
  BY Zenon DEF Flush, Receive, new
<1>3. /\ t \in Threads /\ t # Worker /\ thread'[t] = new
      /\ thread' \in [Threads -> Thread]
      /\ \A u \in Threads \ {t} : thread'[u] = thread[u] /\ Same(u) /\ Held(u)
  BY <1>1, <1>2, OneThread, CacheAssumption DEF Threads, Inv
<1>4. Same(Worker) /\ WorkerKeeps
  BY <1>3, WorkerIn, SameWorker
<1>5. TypeOK'
  BY <1>2, <1>3 DEF Inv, TypeOK
<1>6. ControlInv'
  <2>1. Control(t)'
    BY <1>1, <1>3 DEF Control, Going, RequestPc, RequestThen
  <2> QED BY <1>2, <1>3, <2>1, ControlFrame DEF Inv
<1>7. EntryInv' /\ CountInv'
  BY <1>1, <1>2, <1>3, ScanCovers
<1>8. EvictInv'
  <2>1. EvictKeeps(t)
    BY <1>1, <1>3 DEF EvictKeeps, Going
  <2>2. \A u \in Threads : EvictKeeps(u)
    BY <2>1, <1>3, SameKeeps
  <2> QED BY <2>2, <1>2, EvictFrame DEF Inv
<1>9. Hidden'
  BY <1>2, <1>4, HiddenFrame DEF Inv, Same
<1>10. WorkerHas'
  BY <1>2, <1>4, WorkerFrame DEF Inv
<1> QED BY <1>2, <1>5, <1>6, <1>7, <1>8, <1>9, <1>10 DEF Inv

LEMMA RemoveFilesStep ==
    ASSUME Inv, NEW t \in Requests, RemoveFiles(t) PROVE Inv'
<1> DEFINE v == thread[t].at
           new == [Changed(t, v, {})[t] EXCEPT !.pc = "scan"]
<1>1. /\ t \in Threads /\ t # Worker /\ thread[t].pc = "remove"
      /\ files' = [files EXCEPT ![v] = {}]
      /\ thread' = [Changed(t, v, {}) EXCEPT ![t].pc = "scan"]
      /\ lost' = lost \cup {<<v, "cleared">>}
      /\ UNCHANGED <<entry, visible, arriving, noted, queue, stale>> /\ mishaps' = mishaps
  BY CacheAssumption DEF RemoveFiles, NoMishap, Threads
<1>2. Control(t) /\ v \in Videos /\ thread[t].then \in {"idle", "next"}
  BY <1>1 DEF Inv, ControlInv, Control
<1>3. new \in Thread /\ new.pc = "scan" /\ new.at = v /\ new.then = thread[t].then
      /\ new.todo = thread[t].todo /\ new.video = thread[t].video
  <2>1. Changed(t, v, {})[t] \in Thread /\ Alike(thread[t], Changed(t, v, {})[t])
    BY <1>1, <1>2, ChangedThread DEF Inv
  <2> QED BY <1>1, <2>1 DEF Alike, Thread, Pc
<1>4. /\ thread' \in [Threads -> Thread] /\ thread'[t] = new
      /\ \A u \in Threads \ {t} : thread'[u] = Changed(t, v, {})[u]
  BY <1>1, <1>2, <1>3, ChangedThread DEF Inv
<1> HIDE DEF v, new
<1>5. \A u \in Threads \ {t} : Same(u) /\ (Going(u, "evict")' => Knows(u)')
  <2>1. {} \in SUBSET Segments
    OBVIOUS
  <2> QED BY <1>1, <1>2, <1>4, <2>1, ChangedAll DEF Inv
<1>6. Same(Worker) /\ WorkerKeeps
  BY <1>1, <1>5, WorkerIn, SameWorker
<1>7. TypeOK'
  BY <1>1, <1>2, <1>4 DEF Inv, TypeOK
<1>8. ControlInv'
  <2>1. thread[t].todo \subseteq visible'
    BY <1>1, <1>2 DEF Control
  <2>2. /\ t # Worker /\ thread'[t].pc = "scan" /\ thread'[t].at \in Videos
        /\ thread'[t].then \in {"idle", "next"} /\ thread'[t].todo \subseteq visible'
    BY <1>1, <1>2, <1>3, <1>4, <2>1
  <2>3. Control(t)'
    BY <2>2 DEF Control, Going, RequestPc, RequestThen
  <2> QED BY <1>1, <1>5, <2>3, ControlFrame DEF Inv
<1>9. \A w \in Videos \ {v} : files'[w] = files[w]
  BY <1>1 DEF Inv, TypeOK
<1>10. EntryInv' /\ CountInv'
  BY <1>1, <1>2, <1>3, <1>4, <1>5, <1>9, ScanCovers
<1>11. EvictInv'
  <2>1. ~Going(t, "evict")'
    BY <1>2, <1>3, <1>4 DEF Going
  <2> QED BY <2>1, <1>5 DEF EvictInv, Threads
<1>12. Hidden'
  BY <1>1, <1>6, HiddenFrame DEF Inv, Same
<1>13. WorkerHas'
  BY <1>1, <1>2, <1>6, <1>9, LostCovers
<1> QED BY <1>1, <1>7, <1>8, <1>10, <1>11, <1>12, <1>13 DEF Inv

LEMMA RemoveRaisesStep ==
    ASSUME Inv, NEW t \in Requests, RemoveRaises(t) PROVE Inv'
<1> DEFINE v == thread[t].at
<1>1. /\ t \in Threads /\ t # Worker /\ thread[t].pc = "remove" /\ v \in Videos
      /\ stale' = stale \cup {v} /\ lost' = lost \cup {<<v, "cleared">>}
      /\ UNCHANGED <<entry, visible, arriving, noted, queue>> /\ mishaps' = mishaps + 1
  BY CacheAssumption DEF RemoveRaises, Mishap, Threads, Inv, ControlInv, Control
<1>2. PICK left \in SUBSET files[v] :
         /\ files' = [files EXCEPT ![v] = left]
         /\ thread' = [u \in Threads |->
                CASE u = t -> Idle
                  [] u # t /\ Counting(u, v) -> [Changed(t, v, left)[u] EXCEPT !.alone = FALSE]
                  [] OTHER -> Changed(t, v, left)[u]]
  BY DEF RemoveRaises
<1>17. left \in SUBSET Segments
  BY <1>1 DEF Inv, TypeOK
<1>3. \A u \in Threads : /\ Changed(t, v, left)[u] \in Thread
                          /\ Alike(thread[u], Changed(t, v, left)[u])
  BY <1>1, <1>17, ChangedThread DEF Inv
<1>4. /\ thread' \in [Threads -> Thread] /\ thread'[t] = Idle
      /\ \A u \in Threads \ {t} :
            /\ Same(u) /\ (Going(u, "evict")' => Knows(u)')
            /\ Counting(u, v) => ~thread'[u].alone
  <2> DEFINE told == Changed(t, v, left)
  <2>1. \A u \in Threads : [told[u] EXCEPT !.alone = FALSE] \in Thread
    BY <1>3 DEF Thread
  <2>2. thread' \in [Threads -> Thread] /\ thread'[t] = Idle
    BY <1>1, <1>2, <1>3, <2>1, IdleThread
  <2>3. ASSUME NEW u \in Threads \ {t}
        PROVE  /\ Same(u) /\ (Going(u, "evict")' => Knows(u)')
               /\ Counting(u, v) => ~thread'[u].alone
    <3>1. /\ thread'[u].pc = told[u].pc /\ thread'[u].video = told[u].video
          /\ thread'[u].at = told[u].at /\ thread'[u].count = told[u].count
          /\ thread'[u].then = told[u].then /\ thread'[u].todo = told[u].todo
          /\ thread'[u].total = told[u].total /\ thread'[u].pending = told[u].pending
          /\ thread'[u].came = told[u].came /\ thread'[u].gone = told[u].gone
          /\ thread'[u].alone => told[u].alone
          /\ Counting(u, v) => ~thread'[u].alone
      <4>1. CASE Counting(u, v)
        <5>1. thread'[u] = [told[u] EXCEPT !.alone = FALSE]
          BY <1>2, <4>1
        <5> QED BY <5>1, <1>3 DEF Thread
      <4>2. CASE ~Counting(u, v)
        <5>1. thread'[u] = told[u]
          BY <1>2, <4>2
        <5> QED BY <5>1, <4>2
      <4> QED BY <4>1, <4>2
    <3>2. Alike(thread[u], told[u])
      BY <1>3
    <3> HIDE DEF told
    <3>3. Same(u)
      BY <3>1, <3>2 DEF Same, Alike
    <3>4. Going(u, "evict")' => Knows(u)'
      BY <1>1, <1>2, <1>17, <3>1, <3>3, ChangedKnows DEF Inv, told
    <3> QED BY <3>1, <3>3, <3>4
  <2> QED BY <2>2, <2>3
<1> HIDE DEF v
<1>5. Same(Worker) /\ WorkerKeeps /\ UploadKeeps
  BY <1>1, <1>4, WorkerIn, SameWorker
<1>6. files' \in [Videos -> SUBSET Segments] /\ (\A w \in Videos \ {v} : files'[w] = files[w])
  BY <1>1, <1>2, <1>17 DEF Inv, TypeOK
<1>7. TypeOK'
  BY <1>1, <1>4, <1>6 DEF Inv, TypeOK
<1>8. Idle.pc = "idle" /\ Idle.todo = {}
  BY DEF Idle
<1>9. ControlInv'
  <2>1. t # Worker /\ visible' = visible
    BY <1>1
  <2>2. thread'[t].pc = "idle" /\ thread'[t].todo = {}
    BY <1>4, <1>8
  <2>3. Control(t)'
    BY <2>1, <2>2 DEF Control, Going, RequestPc
  <2> QED BY <1>1, <2>1, <1>4, <2>3, ControlFrame DEF Inv
<1>10. \A w \in Videos \ {v} : Size(w)' = Size(w)
  BY <1>6 DEF Size
<1>11. EntryInv'
  <2> SUFFICES ASSUME NEW w \in Videos, w \notin stale', entry[w] \notin {None, Size(w)'}
               PROVE  Remembered(w)'
    BY <1>1 DEF EntryInv
  <2>1. w # v /\ w \notin stale
    BY <1>1
  <2>2. Remembered(w)
    BY <2>1, <1>10 DEF Inv, EntryInv
  <2>3. CASE w \in noted \/ Arrives(w)
    BY <2>3, <1>1 DEF Remembered, Arrives
  <2>4. CASE \E u \in Threads : Covers(u, w)
    <3>1. PICK u \in Threads : Covers(u, w)
      BY <2>4
    <3>2. u \in Threads \ {t}
      BY <3>1, <1>1 DEF Covers
    <3>3. Covers(u, w)'
      BY <3>1, <3>2, <1>4 DEF Covers, Same
    <3> QED BY <3>3 DEF Remembered, Threads
  <2>5. CASE Uploads(w)
    BY <2>5, <1>5 DEF Uploads, UploadKeeps, Remembered
  <2> QED BY <2>2, <2>3, <2>4, <2>5 DEF Remembered
<1>12. CountInv'
  <2> SUFFICES ASSUME NEW u \in Threads, NEW w \in Videos, thread'[u].pc = "store",
                      thread'[u].alone, thread'[u].at = w, thread'[u].count # Size(w)'
               PROVE  Recounted(u, w)'
    BY DEF CountInv, Threads
  <2>1. u # t
    BY <1>4, <1>8
  <2>2. thread[u].pc = "store" /\ thread[u].at = w /\ thread[u].alone /\ w # v
        /\ thread'[u].count = thread[u].count
    BY <2>1, <1>4 DEF Same, Counting
  <2>3. Recounted(u, w)
    BY <2>2, <1>10 DEF Inv, CountInv
  <2>4. CASE w \in noted \/ Arrives(w)
    BY <2>4, <1>1 DEF Recounted, Arrives
  <2>5. CASE \E x \in Threads \ {u} : thread[x].at = w /\ thread[x].pc = "scan"
    <3>1. PICK x \in Threads \ {u} : thread[x].at = w /\ thread[x].pc = "scan"
      BY <2>5
    <3>2. x \in Threads \ {t}
      BY <3>1, <1>1
    <3>3. thread'[x].at = w /\ thread'[x].pc = "scan"
      BY <3>1, <3>2, <1>4 DEF Same
    <3> QED BY <3>1, <3>3 DEF Recounted, Threads
  <2>6. CASE Uploads(w) /\ files[w] = Segments
    BY <2>6, <2>2, <1>5, <1>6 DEF Uploads, UploadKeeps, Recounted
  <2> QED BY <2>3, <2>4, <2>5, <2>6 DEF Recounted
<1>13. EvictInv'
  <2>1. ~Going(t, "evict")'
    BY <1>4, <1>8 DEF Going
  <2> QED BY <2>1, <1>4 DEF EvictInv, Threads
<1>14. Hidden'
  BY <1>1, <1>5, HiddenFrame DEF Inv, Same
<1>15. WorkerHas'
  BY <1>1, <1>5, <1>6, LostCovers
<1>16. mishaps' \in Nat
  BY <1>1 DEF Inv
<1> QED BY <1>7, <1>9, <1>11, <1>12, <1>13, <1>14, <1>15, <1>16 DEF Inv

\* An eviction counts the whole video as gone, and what would not go as come.
LEMMA EvictKnows ==
    ASSUME Inv, NEW t \in Threads, Going(t, "evict"), NEW v \in thread[t].todo,
           NEW left \in SUBSET files[v], files' = [files EXCEPT ![v] = left], visible' = visible,
           thread'[t].total = thread[t].total - Size(v),
           thread'[t].came = thread[t].came + Cardinality(left),
           thread'[t].gone = thread[t].gone,
           thread'[t].todo = thread[t].todo \ {v}, thread'[t].video = thread[t].video
    PROVE  Knows(t)'
<1>1. /\ thread[t] \in Thread /\ v \in Videos /\ v \in visible /\ visible \in SUBSET Videos
      /\ files[v] \in SUBSET Segments /\ Knows(t)
  BY DEF Inv, TypeOK, ControlInv, Control, Thread, EvictInv
<1>2. thread[t].came \in Nat /\ thread[t].gone \in Nat /\ thread[t].total \in Int
  BY <1>1 DEF Thread
<1> DEFINE n == Cardinality(left)
           past == Past(t)
<1>3. /\ n \in Nat /\ Size(v) \in Nat /\ Cardinality(left \ files[v]) = 0
      /\ Cardinality(files[v] \ left) = Size(v) - n
  <2>1. IsFiniteSet(files[v]) /\ IsFiniteSet(left) /\ files[v] \cap left = left
        /\ left \ files[v] = {}
    BY <1>1, SegmentsFinite, FS_Subset
  <2>2. Cardinality(files[v] \ left) = Cardinality(files[v]) - Cardinality(files[v] \cap left)
    BY <2>1, FS_Difference
  <2> QED BY <2>1, <2>2, FS_CardinalityType, FS_EmptySet DEF Size
<1>4. /\ past \in SUBSET Videos /\ v \notin past /\ past \cup {v} \in SUBSET Videos
      /\ Past(t)' \in SUBSET (past \cup {v})
  BY <1>1 DEF Past
<1> HIDE DEF n, past
<1>5. left \in SUBSET Segments /\ files'[v] = left
  BY <1>1 DEF Inv, TypeOK
<1>6. /\ Total(Sizes', visible) + (Size(v) - n) = TotalSize(visible) + 0
      /\ TotalSize(visible) \in Nat /\ Total(Sizes', visible) \in Nat
  BY <1>1, <1>3, <1>5, SegmentsChange DEF Inv
<1>7. Total(Sizes', past) = TotalSize(past) /\ TotalSize(past) \in Nat
  BY <1>1, <1>4, <1>5, SegmentsChange DEF Inv
<1>8. Sizes' \in [Videos -> Nat] /\ Sizes'[v] = n
  <2>1. \A w \in Videos : Size(w)' = IF w = v THEN n ELSE Size(w)
    BY <1>1, <1>5 DEF Size, n, Inv, TypeOK
  <2>2. \A w \in Videos : Size(w) \in Nat
    BY SizeType DEF Inv
  <2> QED BY <1>1, <1>3, <2>1, <2>2 DEF Sizes
<1>9. /\ Total(Sizes', past \cup {v}) = Total(Sizes', past) + n
      /\ Total(Sizes', Past(t)') <= Total(Sizes', past \cup {v})
      /\ Total(Sizes', Past(t)') \in Nat
  <2>1. Past(t)' \in SUBSET Videos /\ v \in Videos \ past
    BY <1>1, <1>4
  <2> QED BY <1>4, <1>8, <2>1, SumFacts
<1>10. TotalSize(visible)' = Total(Sizes', visible) /\ TotalSize(Past(t))' = Total(Sizes', Past(t)')
  <2>1. Past(t)' \in SUBSET Videos
    BY <1>4
  <2> QED BY <1>1, <2>1, TotalIsSumAfter
<1>11. /\ thread[t].total + thread[t].came = TotalSize(visible) + thread[t].gone
       /\ TotalSize(past) <= thread[t].came
  BY <1>1 DEF Knows, past
<1>12. (thread[t].total - Size(v)) + (thread[t].came + n) = TotalSize(visible)' + thread[t].gone
  BY <1>2, <1>3, <1>6, <1>10, <1>11
<1>13. TotalSize(Past(t))' <= thread[t].came + n
  BY <1>2, <1>3, <1>7, <1>9, <1>10, <1>11
<1> QED BY <1>12, <1>13 DEF Knows, n

LEMMA EvictStep ==
    ASSUME Inv, NEW t \in Threads, Evict(t) PROVE Inv'
<1> DEFINE v == First(thread[t].todo)
<1>1. /\ thread[t] \in Thread /\ thread[t].pc = "evict" /\ thread[t].todo # {}
      /\ UNCHANGED <<entry, visible, arriving, noted, queue, stale>>
  BY DEF Evict, Inv, TypeOK
<1>2. thread[t].todo \in SUBSET Videos /\ thread[t].todo \subseteq visible /\ Control(t)
  BY DEF Inv, TypeOK, Thread, ControlInv, Control
<1>3. v \in thread[t].todo /\ v \in Videos /\ v \in visible /\ files[v] \in SUBSET Segments
  BY <1>1, <1>2, FirstIn DEF Inv, TypeOK
<1>4. (t = Worker => thread[t].video \in Videos) /\ Going(t, "evict")
  BY <1>1, <1>2 DEF Control, Going
<1>5. CASE /\ files[v] = {} /\ NoMishap
           /\ thread' = [thread EXCEPT ![t].todo = @ \ {v}]
           /\ UNCHANGED <<files, lost>>
  <2> DEFINE new == [thread[t] EXCEPT !.todo = @ \ {v}]
  <2>1. thread' = [thread EXCEPT ![t] = new]
    BY <1>1, <1>5 DEF Inv, TypeOK
  <2>2. new \in Thread /\ new.pc = "evict" /\ new.total = thread[t].total
        /\ new.todo = thread[t].todo \ {v} /\ new.video = thread[t].video
        /\ new.came = thread[t].came /\ new.gone = thread[t].gone
    BY <1>1, <1>2 DEF Thread
  <2> HIDE DEF new
  <2>3. thread'[t] = new /\ (\A u \in Threads \ {t} : Same(u) /\ Held(u))
    BY <2>1, <2>2, OneThread DEF Inv
  <2>4. Quiet /\ mishaps' = mishaps
    BY <1>1, <1>5 DEF Quiet, NoMishap
  <2>5. Control(t)'
    <3>1. thread[t].todo \subseteq visible'
      BY <1>1, <1>2
    <3> QED BY <1>4, <2>2, <2>3, <3>1 DEF Control, Going, RequestPc, WorkerPc
  <2>6. EvictInv'
    <3>1. /\ thread'[t].total = thread[t].total - Size(v)
          /\ thread'[t].came = thread[t].came + Cardinality({})
      <4>1. Cardinality({}) = 0 /\ Size(v) = 0
        BY <1>5, FS_EmptySet DEF Size
      <4>2. thread[t].total \in Int /\ thread[t].came \in Nat
        BY <1>1 DEF Thread
      <4> QED BY <2>2, <2>3, <4>1, <4>2
    <3>2. files' = [files EXCEPT ![v] = {}] /\ {} \in SUBSET files[v]
      BY <1>3, <1>5 DEF Inv, TypeOK
    <3>3. Knows(t)'
      BY <1>1, <1>3, <1>4, <2>2, <2>3, <3>1, <3>2, EvictKnows
    <3>4. ASSUME NEW u \in Threads \ {t}, Going(u, "evict")' PROVE Knows(u)'
      <4>1. EvictKeeps(u)
        BY <2>3, SameKeeps
      <4> QED BY <1>1, <1>5, <3>4, <4>1, EvictKept DEF Inv
    <3> QED BY <3>3, <3>4 DEF EvictInv, Threads
  <2>7. t = Worker => WorkerKeeps
    BY <2>2, <2>3 DEF WorkerKeeps, Going
  <2> QED BY <1>1, <2>1, <2>2, <2>4, <2>5, <2>6, <2>7, ThreadStep DEF Inv, TypeOK
<1> HIDE DEF v
<1>6. ASSUME NEW left \in SUBSET files[v], mishaps' \in Nat,
             files' = [files EXCEPT ![v] = left],
             thread' = [Changed(t, v, left) EXCEPT ![t] =
                 Refresh([thread[t] EXCEPT !.todo = @ \ {v}, !.total = @ - Size(v),
                                           !.came = @ + Cardinality(left)], v, "evict")],
             lost' = lost \cup {<<v, "evicted">>}
      PROVE  Inv'
  <2> DEFINE th == [thread[t] EXCEPT !.todo = @ \ {v}, !.total = @ - Size(v),
                                     !.came = @ + Cardinality(left)]
             new == Refresh(th, v, "evict")
  <2>1. thread' = [Changed(t, v, left) EXCEPT ![t] = new] /\ left \in SUBSET Segments
    BY <1>3, <1>6
  <2>2. /\ th \in Thread /\ th.todo = thread[t].todo \ {v}
        /\ th.total = thread[t].total - Size(v) /\ th.video = thread[t].video
        /\ th.came = thread[t].came + Cardinality(left) /\ th.gone = thread[t].gone
    <3>1. Size(v) \in Int /\ thread[t].total \in Int /\ thread[t].came \in Nat
      BY <1>1, <1>3, SizeType DEF Inv, Thread
    <3>2. Cardinality(left) \in Nat
      BY <2>1, SegmentsFinite, FS_Subset, FS_CardinalityType
    <3> DEFINE n == Cardinality(left)
               size == Size(v)
    <3> HIDE DEF n, size
    <3>3. /\ thread[t].total - size \in Int /\ thread[t].todo \ {v} \in SUBSET Videos
          /\ thread[t].came + n \in Nat
      BY <3>1, <3>2, <1>2 DEF n, size
    <3>4. th = [thread[t] EXCEPT !.todo = @ \ {v}, !.total = @ - size, !.came = @ + n]
      BY DEF n, size
    <3> QED BY <1>1, <3>3, <3>4 DEF Thread, n, size
  <2> HIDE DEF th
  <2>3. /\ new \in Thread /\ new.pc = "scan" /\ new.at = v /\ new.then = "evict"
        /\ new.video = thread[t].video /\ new.todo = thread[t].todo \ {v}
        /\ new.total = thread[t].total - Size(v)
        /\ new.came = thread[t].came + Cardinality(left) /\ new.gone = thread[t].gone
    <3>1. "evict" \in Pc
      BY DEF Pc
    <3> QED BY <1>3, <2>2, <3>1, RefreshThread
  <2> HIDE DEF new
  <2>4. /\ thread' \in [Threads -> Thread] /\ thread'[t] = new
        /\ \A u \in Threads \ {t} : thread'[u] = Changed(t, v, left)[u]
    BY <1>3, <2>1, <2>3, ChangedThread DEF Inv
  <2>5. \A u \in Threads \ {t} : Same(u) /\ (Going(u, "evict")' => Knows(u)')
    <3> SUFFICES ASSUME NEW u \in Threads \ {t}
                 PROVE  Same(u) /\ (Going(u, "evict")' => Knows(u)')
      OBVIOUS
    <3>1. /\ u \in Threads /\ u # t /\ thread'[u] = Changed(t, v, left)[u]
          /\ files' = [files EXCEPT ![v] = left] /\ visible' = visible
      BY <1>1, <1>6, <2>4
    <3> QED BY <1>3, <2>1, <3>1, ChangedOne DEF Inv
  <2>6. TypeOK'
    <3>1. files' \in [Videos -> SUBSET Segments]
      BY <1>3, <1>6, <2>1 DEF Inv, TypeOK
    <3>2. lost' \subseteq Videos \X {"evicted", "cleared"}
      BY <1>3, <1>6 DEF Inv, TypeOK
    <3> QED BY <1>1, <2>4, <3>1, <3>2 DEF Inv, TypeOK
  <2>7. ControlInv'
    <3>1. thread[t].todo \subseteq visible'
      BY <1>1, <1>2
    <3>2. Control(t)'
      BY <1>3, <1>4, <2>3, <2>4, <3>1
         DEF Control, Going, RequestPc, WorkerPc, RequestThen, WorkerThen
    <3> QED BY <1>1, <2>5, <3>2, ControlFrame DEF Inv
  <2>8. \A w \in Videos \ {v} : files'[w] = files[w]
    BY <1>6 DEF Inv, TypeOK
  <2>9. EntryInv' /\ CountInv'
    BY <1>1, <1>3, <2>3, <2>4, <2>5, <2>8, ScanCovers
  <2>10. EvictInv'
    <3>1. Knows(t)'
      BY <1>1, <1>3, <1>4, <1>6, <2>3, <2>4, EvictKnows
    <3> QED BY <2>5, <3>1 DEF EvictInv, Threads
  <2>11. t = Worker => UploadKeeps /\ WorkerKeeps
    BY <1>1, <2>3, <2>4 DEF UploadKeeps, WorkerKeeps, Going
  <2>12. WorkerKeeps /\ (t # Worker => Same(Worker))
    BY <2>5, <2>11, WorkerIn, SameWorker
  <2>13. Hidden'
    BY <1>1, <2>3, <2>4, <2>12, HiddenFrame DEF Inv, Same
  <2>14. ~Uploads(v)
    BY <1>3 DEF Uploads, Inv, Hidden
  <2>15. WorkerHas'
    BY <1>3, <1>6, <2>8, <2>12, <2>14, LostCovers
  <2> QED BY <1>6, <2>6, <2>7, <2>9, <2>10, <2>13, <2>15 DEF Inv
<1>7. CASE \E left \in SUBSET files[v] :
          /\ files[v] # {}
          /\ IF left = {} THEN NoMishap ELSE Mishap
          /\ files' = [files EXCEPT ![v] = left]
          /\ thread' = [Changed(t, v, left) EXCEPT ![t] =
                 Refresh([thread[t] EXCEPT !.todo = @ \ {v}, !.total = @ - Size(v),
                                           !.came = @ + Cardinality(left)], v, "evict")]
          /\ lost' = lost \cup {<<v, "evicted">>}
  <2>1. mishaps' \in Nat
    BY <1>7 DEF NoMishap, Mishap, Inv
  <2> QED BY <1>6, <1>7, <2>1
<1> QED BY <1>5, <1>7 DEF Evict, v

-----------------------------------------------------------------------------
(* Writes.                                                                 *)

\* A video that somebody writes to is remembered by what arrives, by the registry or
\* by the import that uploads it.
LEMMA WriteCovers ==
    ASSUME Inv, NEW v \in Videos, entry' = entry, stale' = stale,
           \A u \in Threads : CoverKeeps(u) /\ ScanKeeps(u) /\ CountKeeps(u),
           \A w \in Videos \ {v} :
               /\ files'[w] = files[w] /\ (w \in noted => w \in noted')
               /\ Arrives(w) => Arrives(w)'
               /\ Uploads(w) => Uploads(w)',
           v \in noted' \/ Arrives(v)' \/ (Uploads(v)' /\ files'[v] = Segments)
    PROVE  EntryInv' /\ CountInv'
<1>1. \A w \in Videos \ {v} : Size(w)' = Size(w)
  BY DEF Size
<1>2. EntryInv'
  <2> SUFFICES ASSUME NEW w \in Videos, w \notin stale, entry[w] \notin {None, Size(w)'}
               PROVE  Remembered(w)'
    BY DEF EntryInv
  <2>1. CASE w = v
    BY <2>1 DEF Remembered
  <2>2. CASE w # v
    <3>1. Remembered(w)
      BY <2>2, <1>1 DEF Inv, EntryInv
    <3>2. CASE w \in noted \/ Arrives(w) \/ Uploads(w)
      BY <3>2, <2>2 DEF Remembered
    <3>3. CASE \E u \in Threads : Covers(u, w)
      <4>1. PICK u \in Threads : Covers(u, w)
        BY <3>3
      <4>2. Covers(u, w)'
        BY <4>1 DEF Covers, CoverKeeps
      <4> QED BY <4>2 DEF Remembered, Threads
    <3> QED BY <3>1, <3>2, <3>3 DEF Remembered
  <2> QED BY <2>1, <2>2
<1>3. CountInv'
  <2> SUFFICES ASSUME NEW u \in Threads, NEW w \in Videos, thread'[u].pc = "store",
                      thread'[u].alone, thread'[u].at = w, thread'[u].count # Size(w)'
               PROVE  Recounted(u, w)'
    BY DEF CountInv, Threads
  <2>1. CASE w = v
    BY <2>1 DEF Recounted
  <2>2. CASE w # v
    <3>1. thread[u].pc = "store" /\ thread[u].at = w /\ thread[u].count # Size(w)
          /\ thread[u].alone
      BY <2>2, <1>1 DEF CountKeeps
    <3>2. Recounted(u, w)
      BY <3>1 DEF Inv, CountInv
    <3>3. CASE w \in noted \/ Arrives(w) \/ (Uploads(w) /\ files[w] = Segments)
      BY <3>3, <2>2 DEF Recounted
    <3>4. CASE \E x \in Threads \ {u} : thread[x].at = w /\ thread[x].pc = "scan"
      <4>1. PICK x \in Threads \ {u} : thread[x].at = w /\ thread[x].pc = "scan"
        BY <3>4
      <4>2. thread'[x].at = w /\ thread'[x].pc = "scan"
        BY <4>1 DEF ScanKeeps
      <4> QED BY <4>1, <4>2 DEF Recounted, Threads
    <3> QED BY <3>2, <3>3, <3>4 DEF Recounted
  <2> QED BY <2>1, <2>2
<1> QED BY <1>2, <1>3

\* A write is told to every enforcement.
LEMMA NoneIsNoThread == None \notin Threads
BY CacheAssumption DEF Threads

LEMMA PersistStep ==
    ASSUME Inv, NEW v \in Videos, NEW s \in Segments, Persist(v, s) PROVE Inv'
<1>1. /\ v \in visible /\ files' = [files EXCEPT ![v] = @ \cup {s}]
      /\ arriving' = arriving \cup {<<v, s>>} /\ thread' = Changed(None, v, files[v] \cup {s})
      /\ UNCHANGED <<entry, visible, noted, queue, mishaps, stale, lost>>
  BY DEF Persist
<1>2. thread' \in [Threads -> Thread]
      /\ (\A u \in Threads : Same(u) /\ (Going(u, "evict")' => Knows(u)'))
  <2>1. files[v] \cup {s} \in SUBSET Segments
        /\ files' = [files EXCEPT ![v] = files[v] \cup {s}]
    BY <1>1 DEF Inv, TypeOK
  <2> QED BY <1>1, <2>1, NoneIsNoThread, ChangedThread, ChangedAll DEF Inv
<1>3. Same(Worker) /\ UploadKeeps /\ WorkerKeeps
  BY <1>2, WorkerIn, SameWorker
<1>4. \A u \in Threads : CoverKeeps(u) /\ ScanKeeps(u) /\ CountKeeps(u)
  BY <1>2, SameKeeps
<1>5. TypeOK'
  <2>1. thread' \in [Threads -> Thread]
    BY <1>2
  <2>2. files' \in [Videos -> SUBSET Segments] /\ arriving' \subseteq Videos \X Segments
    BY <1>1 DEF Inv, TypeOK
  <2>3. UNCHANGED <<entry, visible, noted, queue, stale, lost>>
    BY <1>1
  <2> QED BY <2>1, <2>2, <2>3 DEF Inv, TypeOK
<1>6. ControlInv'
  BY <1>1, <1>2, SameControl DEF Inv, ControlInv, Threads
<1>7. Hidden'
  BY <1>1, <1>3, HiddenFrame DEF Inv, Same
<1>8. /\ \A w \in Videos \ {v} : files'[w] = files[w]
      /\ files[v] \subseteq files'[v] /\ files'[v] \subseteq Segments
  BY <1>1, <1>5 DEF Inv, TypeOK
<1>9. WorkerHas'
  <2>1. Going(Worker, "fetch") \/ Going(Worker, "finish") \/ thread[Worker].pc = "upload" =>
           thread[Worker].video \in Videos
    BY WorkerIn DEF Inv, ControlInv, Control, Going
  <2>2. Gone' = Gone
    BY <1>1 DEF Gone
  <2> QED BY <1>1, <1>3, <1>8, <2>1, <2>2 DEF WorkerHas, WorkerKeeps, Inv
<1>10. EntryInv' /\ CountInv'
  <2>1. \A w \in Videos : (Uploads(w) => Uploads(w)') /\ (Arrives(w) => Arrives(w)')
    BY <1>1, <1>3 DEF Uploads, UploadKeeps, Arrives
  <2>2. Arrives(v)'
    BY <1>1 DEF Arrives
  <2> QED BY <1>1, <1>4, <1>8, <2>1, <2>2, WriteCovers
<1>11. EvictInv'
  BY <1>2 DEF EvictInv, Threads
<1> QED BY <1>1, <1>5, <1>6, <1>7, <1>9, <1>10, <1>11 DEF Inv

LEMMA NoteStep ==
    ASSUME Inv, NEW v \in Videos, NEW s \in Segments, Note(v, s) PROVE Inv'
<1>1. /\ arriving' = arriving \ {<<v, s>>} /\ noted' = noted \cup {v}
      /\ UNCHANGED <<files, entry, visible, queue, thread, mishaps, stale, lost>>
  BY DEF Note, NoMishap
<1>2. \A u \in Threads : Same(u) /\ Held(u)
  BY <1>1, SameIfEqual
<1>3. UploadKeeps /\ WorkerKeeps
  BY <1>2, WorkerIn, SameWorker
<1>4. \A u \in Threads : CoverKeeps(u) /\ ScanKeeps(u) /\ CountKeeps(u) /\ EvictKeeps(u)
  BY <1>2, SameKeeps
<1>5. TypeOK'
  BY <1>1 DEF Inv, TypeOK
<1>6. ControlInv'
  BY <1>1, <1>2, SameControl DEF Inv, ControlInv, Threads
<1>7. EntryInv' /\ CountInv'
  <2>1. \A w \in Videos \ {v} : (Uploads(w) => Uploads(w)') /\ (Arrives(w) => Arrives(w)')
    BY <1>1 DEF Uploads, Arrives
  <2> QED BY <1>1, <1>4, <2>1, WriteCovers
<1>8. Hidden' /\ WorkerHas' /\ EvictInv'
  BY <1>1, <1>3, <1>4, HiddenFrame, WorkerFrame, EvictFrame DEF Inv
<1> QED BY <1>1, <1>5, <1>6, <1>7, <1>8 DEF Inv

-----------------------------------------------------------------------------
(* The worker.                                                             *)

LEMMA WorkerThread ==
    ASSUME Inv
    PROVE  /\ Worker \in Threads /\ thread[Worker] \in Thread /\ Control(Worker)
           /\ thread[Worker].pc # "idle" => thread[Worker].video \in Videos
           /\ thread[Worker].todo \subseteq visible
BY WorkerIn DEF Inv, TypeOK, ControlInv, Control

LEMMA TakeUpStep ==
    ASSUME Inv, NEW v \in Videos, NEW pc \in {"check", "split"}, TakeUp(v, pc),
           pc = "split" => v \notin visible,
           UNCHANGED <<files, entry, visible, arriving, noted, stale>>,
           queue' \in Seq(Videos), mishaps' = mishaps
    PROVE  Inv'
<1> DEFINE new == [Idle EXCEPT !.pc = pc, !.video = v]
<1>1. new \in Thread /\ new.pc = pc /\ new.video = v /\ new.todo = {}
  BY IdleThread DEF Idle, Thread, Pc
<1>2. thread[Worker].pc = "idle" /\ thread' = [thread EXCEPT ![Worker] = new]
      /\ lost' \subseteq lost
  BY DEF TakeUp
<1> HIDE DEF new
<1>3. Worker \in Threads /\ thread'[Worker] = new
  BY <1>1, <1>2, WorkerIn, OneThread DEF Inv
<1>4. Control(Worker)'
  BY <1>1, <1>3 DEF Control, Going, WorkerPc
<1>5. EvictKeeps(Worker)
  BY <1>1, <1>3 DEF EvictKeeps, Going
<1>6. Hidden'
  BY <1>1, <1>3 DEF Hidden
<1>7. WorkerHas'
  BY <1>1, <1>3 DEF WorkerHas, Going
<1> QED BY <1>1, <1>2, <1>3, <1>4, <1>5, <1>6, <1>7, ThreadCore DEF Inv

LEMMA TakeJobStep == ASSUME Inv, TakeJob PROVE Inv'
<1>1. queue \in Seq(Videos) /\ queue # <<>>
  BY DEF Inv, TypeOK, TakeJob
<1>2. Head(queue) \in Videos /\ Tail(queue) \in Seq(Videos)
  BY <1>1
<1>3. /\ TakeUp(Head(queue), "check") /\ queue' = Tail(queue) /\ mishaps' = mishaps
      /\ UNCHANGED <<files, entry, visible, arriving, noted, stale>>
  BY DEF TakeJob, NoMishap
<1> QED BY <1>2, <1>3, TakeUpStep

LEMMA TakeImportStep == ASSUME Inv, NEW v \in Importing, TakeImport(v) PROVE Inv'
<1>1. v \in Videos /\ v \notin visible /\ queue \in Seq(Videos)
  BY CacheAssumption DEF TakeImport, Inv, TypeOK
<1>2. /\ TakeUp(v, "split") /\ queue' = queue /\ mishaps' = mishaps
      /\ UNCHANGED <<files, entry, visible, arriving, noted, stale>>
  BY DEF TakeImport, NoMishap
<1> QED BY <1>1, <1>2, TakeUpStep

\* A refresh of the video that the worker is at.
LEMMA WorkerRefresh ==
    ASSUME Inv, NEW th \in Thread, NEW then \in {"fetch", "finish", "fail"},
           thread' = [thread EXCEPT ![Worker] = Refresh(th, thread[Worker].video, then)],
           th.video = thread[Worker].video, th.todo = thread[Worker].todo,
           thread[Worker].pc \in {"check", "fetch"},
           then = "fetch" => th.pending = Segments \ files[thread[Worker].video],
           then = "finish" => thread[Worker].pc = "fetch" /\ thread[Worker].pending = {},
           UNCHANGED <<files, entry, visible, arriving, noted, queue, stale, lost>>,
           mishaps' \in Nat
    PROVE  Inv'
<1> DEFINE v == thread[Worker].video
           new == Refresh(th, v, then)
<1>1. Worker \in Threads /\ v \in Videos /\ then \in Pc /\ thread[Worker].todo \subseteq visible'
  BY WorkerThread DEF Pc
<1>2. /\ new \in Thread /\ new.pc = "scan" /\ new.at = v /\ new.then = then
      /\ new.video = v /\ new.todo = thread[Worker].todo /\ new.pending = th.pending
  BY <1>1, RefreshThread
<1> HIDE DEF new
<1>3. thread'[Worker] = new
  BY <1>1, <1>2, OneThread DEF Inv, new
<1>4. Control(Worker)'
  <2>1. /\ thread'[Worker].pc = "scan" /\ thread'[Worker].at \in Videos
        /\ thread'[Worker].video \in Videos /\ thread'[Worker].todo \subseteq visible'
        /\ thread'[Worker].then \in {"fetch", "finish", "fail"}
    BY <1>1, <1>2, <1>3
  <2> QED BY <2>1 DEF Control, Going, WorkerPc, WorkerThen
<1>5. EvictKeeps(Worker)
  BY <1>2, <1>3 DEF EvictKeeps, Going
<1>6. Hidden'
  BY <1>2, <1>3 DEF Hidden
<1>7. WorkerHas'
  <2>1. thread'[Worker].pc = "scan" /\ thread'[Worker].then = then
        /\ thread'[Worker].video = v /\ thread'[Worker].pending = th.pending
    BY <1>2, <1>3
  <2>2. Gone' = Gone
    BY DEF Gone
  <2>3. CASE then = "fetch"
    BY <2>1, <2>3 DEF WorkerHas, Going
  <2>4. CASE then = "finish"
    <3>1. files[v] \subseteq Segments
      BY <1>1 DEF Inv, TypeOK
    <3>2. v \notin Gone => files[v] = Segments
      BY <2>4, <3>1 DEF Inv, WorkerHas, Going
    <3> QED BY <2>1, <2>2, <2>4, <3>2 DEF WorkerHas, Going
  <2>5. CASE then = "fail"
    BY <2>1, <2>5 DEF WorkerHas, Going
  <2> QED BY <2>3, <2>4, <2>5
<1>8. thread' = [thread EXCEPT ![Worker] = new]
  BY DEF new
<1>9. queue' \in Seq(Videos)
  BY DEF Inv, TypeOK
<1> QED BY <1>1, <1>2, <1>4, <1>5, <1>6, <1>7, <1>8, <1>9, ThreadCore

LEMMA CheckSegmentsStep == ASSUME Inv, CheckSegments PROVE Inv'
<1> DEFINE th == [thread[Worker] EXCEPT !.pending = Segments \ files[thread[Worker].video]]
<1>1. /\ thread[Worker].pc = "check" /\ mishaps' = mishaps
      /\ thread' = [thread EXCEPT ![Worker] = Refresh(th, thread[Worker].video, "fetch")]
      /\ UNCHANGED <<files, entry, visible, arriving, noted, queue, stale, lost>>
  BY DEF CheckSegments, NoMishap
<1>2. /\ th \in Thread /\ th.video = thread[Worker].video /\ th.todo = thread[Worker].todo
      /\ th.pending = Segments \ files[thread[Worker].video]
  BY WorkerThread DEF Thread
<1> HIDE DEF th
<1> QED BY <1>1, <1>2, WorkerRefresh DEF Inv

LEMMA EndFetchStep == ASSUME Inv, EndFetch PROVE Inv'
<1>1. /\ thread[Worker].pc = "fetch" /\ thread[Worker] \in Thread
      /\ UNCHANGED <<files, entry, visible, arriving, noted, queue, stale, lost>>
  BY WorkerThread DEF EndFetch
<1>2. CASE /\ thread[Worker].pending = {} /\ NoMishap
           /\ thread' = [thread EXCEPT ![Worker] =
                            Refresh(thread[Worker], thread[Worker].video, "finish")]
  BY <1>1, <1>2, WorkerRefresh DEF Inv, NoMishap
<1>3. CASE /\ thread[Worker].pending # {} /\ Mishap
           /\ thread' = [thread EXCEPT ![Worker] =
                            Refresh(thread[Worker], thread[Worker].video, "fail")]
  <2>1. mishaps' \in Nat
    BY <1>3 DEF Mishap, Inv
  <2> QED BY <1>1, <1>3, <2>1, WorkerRefresh
<1> QED BY <1>2, <1>3 DEF EndFetch

LEMMA FetchStep == ASSUME Inv, Fetch PROVE Inv'
<1>0. PICK v \in Videos : v = thread[Worker].video
  BY WorkerThread DEF Fetch
<1>1. /\ Worker \in Threads /\ thread[Worker].pc = "fetch" /\ v \in Videos
      /\ UNCHANGED <<entry, visible, noted, queue, stale, lost>> /\ mishaps' = mishaps
  BY <1>0, WorkerThread DEF Fetch, NoMishap
<1>2. PICK s \in thread[Worker].pending :
         /\ files' = [files EXCEPT ![v] = @ \cup {s}]
         /\ arriving' = arriving \cup {<<v, s>>}
         /\ thread' = [Changed(None, v, files[v] \cup {s}) EXCEPT ![Worker].pending = @ \ {s}]
  BY <1>0 DEF Fetch
<1> DEFINE told == Changed(None, v, files[v] \cup {s})
           new == [told[Worker] EXCEPT !.pending = @ \ {s}]
<1>3. /\ s \in Segments /\ files[v] \cup {s} \in SUBSET Segments
      /\ files' = [files EXCEPT ![v] = files[v] \cup {s}]
  BY <1>2, WorkerThread DEF Thread, Inv, TypeOK
<1>4. /\ new \in Thread /\ new.pc = "fetch" /\ new.video = v /\ new.todo = thread[Worker].todo
      /\ new.pending = thread[Worker].pending \ {s}
  <2> DEFINE segments == files[v] \cup {s}
  <2>1. told[Worker] \in Thread /\ Alike(thread[Worker], told[Worker])
    <3>1. segments \in SUBSET Segments /\ told = Changed(None, v, segments)
      BY <1>3
    <3> HIDE DEF segments, told
    <3> QED BY <1>1, <3>1, ChangedThread DEF Inv
  <2> HIDE DEF told
  <2> QED BY <1>0, <1>1, <2>1 DEF Alike, Thread
<1>5. /\ thread' \in [Threads -> Thread] /\ thread'[Worker] = new
      /\ \A u \in Threads \ {Worker} : thread'[u] = told[u]
  BY <1>1, <1>2, <1>3, <1>4, ChangedThread DEF Inv
<1> HIDE DEF new
<1>6. \A u \in Threads \ {Worker} : Same(u) /\ (Going(u, "evict")' => Knows(u)')
  BY <1>1, <1>3, <1>5, NoneIsNoThread, ChangedAll DEF Inv
<1>7. TypeOK'
  <2>1. thread' \in [Threads -> Thread]
    BY <1>5
  <2>2. files' \in [Videos -> SUBSET Segments]
    BY <1>1, <1>3 DEF Inv, TypeOK
  <2>3. arriving' \subseteq Videos \X Segments
    BY <1>1, <1>2, <1>3 DEF Inv, TypeOK
  <2> QED BY <1>1, <2>1, <2>2, <2>3 DEF Inv, TypeOK
<1>8. ControlInv'
  <2>1. thread[Worker].todo \subseteq visible'
    BY <1>1, WorkerThread
  <2>2. Control(Worker)'
    BY <1>1, <1>4, <1>5, <2>1 DEF Control, Going, WorkerPc
  <2> QED BY <1>1, <1>6, <2>2, ControlFrame DEF Inv
<1>9. \A u \in Threads : CoverKeeps(u) /\ ScanKeeps(u) /\ CountKeeps(u)
  <2>1. CoverKeeps(Worker) /\ ScanKeeps(Worker) /\ CountKeeps(Worker)
    BY <1>1, <1>4, <1>5 DEF CoverKeeps, ScanKeeps, CountKeeps
  <2> QED BY <2>1, <1>6, SameKeeps
<1>10. /\ \A w \in Videos \ {v} : files'[w] = files[w]
       /\ files'[v] = files[v] \cup {s}
  BY <1>1, <1>2 DEF Inv, TypeOK
<1>11. EntryInv' /\ CountInv'
  <2>1. \A w \in Videos : (Uploads(w) => Uploads(w)') /\ (Arrives(w) => Arrives(w)')
    BY <1>1, <1>2 DEF Uploads, Arrives
  <2>2. Arrives(v)'
    BY <1>2, <1>3 DEF Arrives
  <2> QED BY <1>1, <1>9, <1>10, <2>1, <2>2, WriteCovers
<1>12. EvictInv'
  <2>1. ~Going(Worker, "evict")'
    BY <1>4, <1>5 DEF Going
  <2> QED BY <2>1, <1>6 DEF EvictInv, Threads
<1>13. Hidden'
  BY <1>4, <1>5 DEF Hidden
<1>14. WorkerHas'
  <2>1. v \notin Gone => Segments \ files[v] \subseteq thread[Worker].pending
    BY <1>0, <1>1 DEF Inv, WorkerHas, Going
  <2>2. Gone' = Gone
    BY <1>1 DEF Gone
  <2> QED BY <1>4, <1>5, <1>10, <2>1, <2>2 DEF WorkerHas, Going
<1> QED BY <1>1, <1>7, <1>8, <1>11, <1>12, <1>13, <1>14 DEF Inv

LEMMA EndJobStep == ASSUME Inv, EndJob PROVE Inv'
<1>1. /\ thread[Worker].pc \in {"finish", "fail"} /\ Worker \in Threads
      /\ thread' = [thread EXCEPT ![Worker] = Idle] /\ Quiet /\ queue' = queue
      /\ mishaps' = mishaps
  BY WorkerIn DEF EndJob, Quiet, NoMishap
<1>2. thread'[Worker] = Idle /\ Idle.pc = "idle" /\ Idle.todo = {}
  BY <1>1, OneThread, IdleThread DEF Idle, Inv
<1>3. thread'[Worker].pc = "idle" /\ thread'[Worker].todo = {}
  BY <1>2
<1>4. Control(Worker)' /\ EvictKeeps(Worker) /\ WorkerKeeps
  BY <1>3 DEF Control, EvictKeeps, WorkerKeeps, Going, WorkerPc
<1> QED BY <1>1, <1>2, <1>4, ThreadStep, IdleThread DEF Inv, TypeOK

LEMMA SplitStep == ASSUME Inv, Split PROVE Inv'
<1>0. PICK v \in Videos : v = thread[Worker].video
  BY WorkerThread DEF Split
<1>1. /\ Worker \in Threads /\ thread[Worker].pc = "split" /\ v \notin visible
      /\ files' = [files EXCEPT ![v] = Segments]
      /\ thread' = [Changed(None, v, Segments) EXCEPT ![Worker].pc = "upload"]
      /\ UNCHANGED <<entry, visible, arriving, noted, queue, stale, lost>>
      /\ mishaps' = mishaps
  BY <1>0, WorkerThread DEF Split, NoMishap, Inv, Hidden
<1> DEFINE told == Changed(None, v, Segments)
           new == [told[Worker] EXCEPT !.pc = "upload"]
<1>2. /\ new \in Thread /\ new.pc = "upload" /\ new.video = v
      /\ new.todo = thread[Worker].todo
  <2>1. told[Worker] \in Thread /\ Alike(thread[Worker], told[Worker])
    BY <1>1, ChangedThread DEF Inv
  <2> HIDE DEF told
  <2> QED BY <1>0, <1>1, <2>1 DEF Alike, Thread, Pc
<1>3. /\ thread' \in [Threads -> Thread] /\ thread'[Worker] = new
      /\ \A u \in Threads \ {Worker} : thread'[u] = told[u]
  BY <1>1, <1>2, ChangedThread DEF Inv
<1> HIDE DEF new, told
<1>4. \A u \in Threads \ {Worker} : Same(u) /\ (Going(u, "evict")' => Knows(u)')
  BY <1>1, <1>3, NoneIsNoThread, ChangedAll DEF Inv, told
<1>5. TypeOK'
  BY <1>1, <1>3 DEF Inv, TypeOK
<1>6. ControlInv'
  <2>1. thread[Worker].todo \subseteq visible'
    BY <1>1, WorkerThread
  <2>2. Control(Worker)'
    BY <1>2, <1>3, <2>1 DEF Control, Going, WorkerPc
  <2> QED BY <1>1, <1>4, <2>2, ControlFrame DEF Inv
<1>7. \A u \in Threads : CoverKeeps(u) /\ ScanKeeps(u) /\ CountKeeps(u)
  <2>1. CoverKeeps(Worker) /\ ScanKeeps(Worker) /\ CountKeeps(Worker)
    BY <1>1, <1>2, <1>3 DEF CoverKeeps, ScanKeeps, CountKeeps
  <2> QED BY <2>1, <1>4, SameKeeps
<1>8. /\ \A w \in Videos \ {v} : files'[w] = files[w]
      /\ files'[v] = Segments
  BY <1>1 DEF Inv, TypeOK
<1>9. EntryInv' /\ CountInv'
  <2>1. \A w \in Videos : (Uploads(w) => Uploads(w)') /\ (Arrives(w) => Arrives(w)')
    BY <1>1 DEF Uploads, Arrives
  <2>2. Uploads(v)'
    BY <1>2, <1>3 DEF Uploads
  <2> QED BY <1>1, <1>7, <1>8, <2>1, <2>2, WriteCovers
<1>10. EvictInv'
  <2>1. ~Going(Worker, "evict")'
    BY <1>2, <1>3 DEF Going
  <2> QED BY <2>1, <1>4 DEF EvictInv, Threads
<1>11. Hidden'
  <2>1. thread'[Worker].video = v
    BY <1>2, <1>3
  <2> QED BY <1>1, <2>1 DEF Hidden
<1>12. WorkerHas'
  <2>1. thread'[Worker].pc = "upload" /\ thread'[Worker].video = v
    BY <1>2, <1>3
  <2> QED BY <1>8, <2>1 DEF WorkerHas, Going
<1> QED BY <1>1, <1>5, <1>6, <1>9, <1>10, <1>11, <1>12 DEF Inv

LEMMA UploadStep == ASSUME Inv, Upload PROVE Inv'
<1>0. PICK v \in Videos : v = thread[Worker].video
  BY WorkerThread DEF Upload
<1> DEFINE new == IF files[v] = Segments THEN Refresh(thread[Worker], v, "collect") ELSE Idle
<1>1. /\ Worker \in Threads /\ thread[Worker] \in Thread /\ thread[Worker].pc = "upload"
      /\ thread' = [thread EXCEPT ![Worker] = new]
      /\ stale' = IF files[v] = Segments THEN stale ELSE stale \cup {v}
      /\ UNCHANGED <<files, entry, visible, arriving, noted, queue, lost>>
      /\ mishaps' = mishaps
  BY <1>0, WorkerThread DEF Upload, NoMishap
<1>2. /\ new \in Thread
      /\ \/ /\ files[v] = Segments /\ new.pc = "scan" /\ new.at = v /\ new.then = "collect"
            /\ new.video = v /\ new.todo = thread[Worker].todo
         \/ files[v] # Segments /\ new.pc = "idle" /\ new.todo = {}
  <2>1. "collect" \in Pc
    BY DEF Pc
  <2>2. CASE files[v] = Segments
    BY <1>0, <1>1, <2>1, <2>2, RefreshThread
  <2>3. CASE files[v] # Segments
    BY <2>3, IdleThread DEF Idle
  <2> QED BY <2>2, <2>3
<1> HIDE DEF new
<1>3. /\ thread' \in [Threads -> Thread] /\ thread'[Worker] = new
      /\ \A u \in Threads \ {Worker} : thread'[u] = thread[u] /\ Same(u) /\ Held(u)
  BY <1>1, <1>2, OneThread DEF Inv
<1>4. TypeOK'
  BY <1>1, <1>3 DEF Inv, TypeOK
<1>5. ControlInv'
  <2>1. thread[Worker].todo \subseteq visible'
    BY <1>1, WorkerThread
  <2>2. Control(Worker)'
    BY <1>2, <1>3, <2>1 DEF Control, Going, WorkerPc, WorkerThen
  <2> QED BY <1>1, <1>3, <2>2, ControlFrame DEF Inv
<1>6. EntryInv' /\ CountInv'
  <2>1. CASE files[v] = Segments
    <3>1. \A w \in Videos \ {v} : files'[w] = files[w] /\ (w \in noted => w \in noted')
      BY <1>1
    <3> QED BY <1>0, <1>1, <1>2, <1>3, <2>1, <3>1, ScanCovers
  <2>2. CASE files[v] # Segments
    <3>1. \A w \in Videos : Size(w)' = Size(w) /\ (Arrives(w) => Arrives(w)')
      BY <1>1 DEF Size, Arrives
    <3>2. \A w \in Videos \ {v} : ~Uploads(w)
      BY <1>0 DEF Uploads
    <3>3. EntryInv'
      <4> SUFFICES ASSUME NEW w \in Videos, w \notin stale', entry[w] \notin {None, Size(w)'}
                   PROVE  Remembered(w)'
        BY <1>1 DEF EntryInv
      <4>1. w # v /\ w \notin stale
        BY <1>1, <2>2
      <4>2. Remembered(w) /\ ~Uploads(w)
        BY <3>1, <3>2, <4>1 DEF Inv, EntryInv
      <4>3. CASE w \in noted \/ Arrives(w)
        BY <1>1, <3>1, <4>3 DEF Remembered
      <4>4. CASE \E u \in Threads : Covers(u, w)
        <5>1. PICK u \in Threads : Covers(u, w)
          BY <4>4
        <5>2. u \in Threads \ {Worker}
          BY <1>1, <5>1 DEF Covers
        <5>3. Covers(u, w)'
          BY <1>3, <5>1, <5>2 DEF Covers
        <5> QED BY <5>3 DEF Remembered, Threads
      <4> QED BY <4>2, <4>3, <4>4 DEF Remembered
    <3>4. CountInv'
      <4> SUFFICES ASSUME NEW u \in Threads, NEW w \in Videos, thread'[u].pc = "store",
                          thread'[u].alone, thread'[u].at = w, thread'[u].count # Size(w)'
                   PROVE  Recounted(u, w)'
        BY DEF CountInv, Threads
      <4>1. u # Worker
        BY <1>2, <1>3, <2>2
      <4>2. thread[u].pc = "store" /\ thread[u].at = w /\ thread[u].count # Size(w)
            /\ thread[u].alone
        BY <4>1, <1>3, <3>1
      <4>3. Recounted(u, w) /\ ~(Uploads(w) /\ files[w] = Segments)
        BY <2>2, <3>2, <4>2 DEF Inv, CountInv
      <4>4. CASE w \in noted \/ Arrives(w)
        BY <1>1, <3>1, <4>4 DEF Recounted
      <4>5. CASE \E x \in Threads \ {u} : thread[x].at = w /\ thread[x].pc = "scan"
        <5>1. PICK x \in Threads \ {u} : thread[x].at = w /\ thread[x].pc = "scan"
          BY <4>5
        <5>2. x \in Threads \ {Worker}
          BY <1>1, <5>1
        <5>3. thread'[x].at = w /\ thread'[x].pc = "scan"
          BY <1>3, <5>1, <5>2
        <5> QED BY <5>1, <5>3 DEF Recounted, Threads
      <4> QED BY <4>3, <4>4, <4>5 DEF Recounted
    <3> QED BY <3>3, <3>4
  <2> QED BY <2>1, <2>2
<1>7. EvictInv'
  <2>1. EvictKeeps(Worker)
    BY <1>2, <1>3 DEF EvictKeeps, Going
  <2>2. \A u \in Threads : EvictKeeps(u)
    BY <2>1, <1>3, SameKeeps
  <2> QED BY <2>2, <1>1, EvictFrame DEF Inv
<1>8. Hidden'
  BY <1>2, <1>3 DEF Hidden
<1>9. WorkerHas'
  BY <1>2, <1>3 DEF WorkerHas, Going
<1> QED BY <1>1, <1>4, <1>5, <1>6, <1>7, <1>8, <1>9 DEF Inv

LEMMA RevealStep == ASSUME Inv, Reveal PROVE Inv'
<1>1. /\ Worker \in Threads /\ thread[Worker].pc = "reveal" /\ thread[Worker].video \in Videos
      /\ visible' = visible \cup {thread[Worker].video}
      /\ thread' = [Moved(None, TotalSize({thread[Worker].video} \ visible), 0)
                       EXCEPT ![Worker] = Idle]
      /\ UNCHANGED <<files, entry, arriving, noted, queue, stale, lost>> /\ mishaps' = mishaps
  BY WorkerThread DEF Reveal, NoMishap
<1> DEFINE w == thread[Worker].video
           more == {w} \ visible
           n == TotalSize(more)
<1>12. Sizes \in [Videos -> Nat] /\ visible \in SUBSET Videos
  BY SizesType DEF Inv, TypeOK
<1>13. n = Total(Sizes, more) /\ n \in Nat /\ more \in SUBSET Videos
  <2>1. more \in SUBSET Videos
    BY <1>1
  <2> QED BY <2>1, <1>12, TotalIsSum, SumFacts
<1>15. /\ thread' = [Moved(None, n, 0) EXCEPT ![Worker] = Idle]
       /\ visible' = visible \cup more /\ 0 \in Nat
  BY <1>1
<1> HIDE DEF w, more, n
<1>16. w \in Videos
  BY <1>1 DEF w
<1>14. ASSUME NEW W \in SUBSET visible
       PROVE  Total(Sizes, W \cup more) = Total(Sizes, W) + n
  <2>1. W \in SUBSET Videos /\ Total(Sizes, W) \in Nat
    BY <1>12, SumFacts
  <2>2. CASE w \in visible
    <3>1. more = {} /\ W \cup more = W
      BY <2>2 DEF more
    <3> QED BY <1>13, <2>1, <3>1, TotalEmpty
  <2>3. CASE w \notin visible
    <3>1. more = {} \cup {w} /\ w \in Videos \ W /\ w \in Videos \ {} /\ {} \in SUBSET Videos
          /\ W \cup more = W \cup {w}
      BY <1>16, <2>3 DEF more
    <3>2. Total(Sizes, W \cup {w}) = Total(Sizes, W) + Sizes[w]
      BY <1>12, <2>1, <3>1, SumFacts
    <3>3. Total(Sizes, {} \cup {w}) = Total(Sizes, {}) + Sizes[w]
      BY <1>12, <3>1, SumFacts
    <3>4. Sizes[w] \in Nat
      BY <1>16, <1>12
    <3> QED BY <1>13, <3>1, <3>2, <3>3, <3>4, TotalEmpty
  <2> QED BY <2>2, <2>3
<1>2. /\ thread' \in [Threads -> Thread] /\ thread'[Worker] = Idle
      /\ \A u \in Threads \ {Worker} : thread'[u] = Moved(None, n, 0)[u]
  <2>1. Moved(None, n, 0) \in [Threads -> Thread]
    BY <1>13, <1>15, MovedThread DEF Inv
  <2> QED BY <1>1, <1>15, <2>1, IdleThread
<1>3. \A u \in Threads \ {Worker} : Same(u) /\ (Going(u, "evict")' => Knows(u)')
  <2> SUFFICES ASSUME NEW u \in Threads \ {Worker}
               PROVE  Same(u) /\ (Going(u, "evict")' => Knows(u)')
    OBVIOUS
  <2>1. /\ Alike(thread[u], thread'[u])
        /\ thread[u].came \in Nat /\ thread[u].gone \in Nat /\ thread[u].total \in Int
        /\ Measured(u) => /\ thread'[u].came = thread[u].came + n
                          /\ thread'[u].gone = thread[u].gone + 0
    <3>1. u # None /\ thread'[u] = Moved(None, n, 0)[u]
      BY <1>2, NoneIsNoThread
    <3>2. /\ Alike(thread[u], Moved(None, n, 0)[u])
          /\ Measured(u) => Told(thread[u], Moved(None, n, 0)[u], n, 0)
      BY <1>13, <1>15, <3>1, MovedThread DEF Inv
    <3>3. thread[u].came \in Nat /\ thread[u].gone \in Nat /\ thread[u].total \in Int
      BY DEF Inv, TypeOK, Thread
    <3> QED BY <3>1, <3>2, <3>3 DEF Told
  <2>2. Same(u)
    BY <2>1 DEF Alike, Same
  <2>3. ASSUME Going(u, "evict")' PROVE Knows(u)'
    <3>1. /\ Going(u, "evict") /\ Measured(u) /\ Knows(u)
          /\ thread'[u].total = thread[u].total
      BY <2>2, <2>3 DEF Same, Going, Measured, Inv, EvictInv
    <3>2. Past(u) \in SUBSET visible /\ Past(u)' \in SUBSET (Past(u) \cup more)
          /\ Past(u) \cup more \in SUBSET Videos /\ Past(u)' \in SUBSET Videos
          /\ visible' \in SUBSET Videos /\ visible \in SUBSET visible
          /\ Past(u) \in SUBSET Videos
      BY <1>12, <1>13, <1>15, <2>1 DEF Past, Alike
    <3>3. Sizes' = Sizes
      BY <1>1 DEF Sizes, Size
    <3>4. TotalSize(visible)' = Total(Sizes, visible) + n
      BY <1>14, <1>15, <3>2, <3>3, TotalIsSumAfter
    <3>5. TotalSize(Past(u))' <= Total(Sizes, Past(u)) + n
      <4>1. TotalSize(Past(u))' = Total(Sizes, Past(u)')
        BY <3>2, <3>3, TotalIsSumAfter
      <4>2. Total(Sizes, Past(u)') <= Total(Sizes, Past(u) \cup more)
        BY <1>12, <3>2, SumFacts
      <4> QED BY <1>14, <3>2, <4>1, <4>2
    <3>6. /\ thread[u].total + thread[u].came = Total(Sizes, visible) + thread[u].gone
          /\ Total(Sizes, Past(u)) <= thread[u].came
      BY <1>12, <3>1, <3>2, TotalIsSum DEF Knows
    <3>7. /\ Total(Sizes, visible) \in Nat /\ Total(Sizes, Past(u)) \in Nat
          /\ TotalSize(Past(u))' \in Nat
      <4>1. TotalSize(Past(u))' = Total(Sizes, Past(u)')
        BY <3>2, <3>3, TotalIsSumAfter
      <4> QED BY <1>12, <3>2, <4>1, SumFacts
    <3>8. /\ thread[u].total + (thread[u].came + n) = TotalSize(visible)' + (thread[u].gone + 0)
          /\ TotalSize(Past(u))' <= thread[u].came + n
      BY <1>13, <2>1, <3>4, <3>5, <3>6, <3>7
    <3> QED BY <2>1, <3>1, <3>8 DEF Knows
  <2> QED BY <2>2, <2>3
<1>4. thread'[Worker].pc = "idle" /\ thread'[Worker].todo = {}
  BY <1>2 DEF Idle
<1>5. TypeOK'
  BY <1>1, <1>2 DEF Inv, TypeOK
<1>6. ControlInv'
  <2>1. Control(Worker)'
    BY <1>4 DEF Control, Going, WorkerPc
  <2>2. visible \subseteq visible'
    BY <1>1
  <2> QED BY <1>1, <1>3, <2>1, <2>2, ControlFrame DEF Inv
<1>7. UploadKeeps
  BY <1>1 DEF UploadKeeps
<1>8. \A u \in Threads : CoverKeeps(u) /\ ScanKeeps(u) /\ CountKeeps(u)
  <2>1. CoverKeeps(Worker) /\ ScanKeeps(Worker) /\ CountKeeps(Worker)
    BY <1>1, <1>4 DEF CoverKeeps, ScanKeeps, CountKeeps
  <2> QED BY <2>1, <1>3, SameKeeps
<1>9. EntryInv' /\ CountInv'
  BY <1>1, <1>7, <1>8, EntryFrame, CountFrame DEF Inv
<1>10. EvictInv'
  <2>1. ~Going(Worker, "evict")'
    BY <1>4 DEF Going
  <2> QED BY <2>1, <1>3 DEF EvictInv, Threads
<1>11. Hidden' /\ WorkerHas'
  BY <1>4 DEF Hidden, WorkerHas, Going
<1> QED BY <1>1, <1>5, <1>6, <1>9, <1>10, <1>11 DEF Inv

LEMMA RestartStep == ASSUME Inv, Restart PROVE Inv'
<1>1. /\ thread' = [t \in Threads |-> Idle] /\ arriving' = {} /\ noted' = {}
      /\ stale' = stale \cup noted \cup {a[1] : a \in arriving}
                      \cup ({thread[t].at : t \in Threads} \ {0})
                      \cup ({thread[Worker].video} \ {0})
      /\ UNCHANGED <<files, entry, visible, queue, lost>> /\ mishaps' = mishaps + 1
  BY DEF Restart, Mishap
<1>2. \A t \in Threads : thread'[t] = Idle /\ thread'[t].pc = "idle" /\ thread'[t].todo = {}
  BY <1>1 DEF Idle
<1>3. \A t \in Threads : thread[t] \in Thread
  BY DEF Inv, TypeOK
<1>4. TypeOK'
  <2>1. thread' \in [Threads -> Thread]
    BY <1>1, IdleThread
  <2>2. {a[1] : a \in arriving} \subseteq Videos
    BY DEF Inv, TypeOK
  <2>3. {thread[t].at : t \in Threads} \ {0} \subseteq Videos
    BY <1>3 DEF Thread
  <2>4. {thread[Worker].video} \ {0} \subseteq Videos
    BY <1>3, WorkerIn DEF Thread
  <2>5. stale' \subseteq Videos
    BY <1>1, <2>2, <2>3, <2>4 DEF Inv, TypeOK
  <2> QED BY <1>1, <2>1, <2>5 DEF Inv, TypeOK
<1>5. ControlInv'
  <2> SUFFICES ASSUME NEW t \in Threads PROVE Control(t)'
    BY DEF ControlInv, Threads
  <2>1. thread'[t].pc = "idle" /\ thread'[t].todo = {}
    BY <1>2
  <2> QED BY <2>1 DEF Control, Going, RequestPc, WorkerPc
<1>6. Hidden' /\ WorkerHas'
  BY <1>2, WorkerIn DEF Hidden, WorkerHas, Going
<1>7. EntryInv'
  <2> SUFFICES ASSUME NEW w \in Videos, w \notin stale', entry[w] \notin {None, Size(w)}
               PROVE  FALSE
    BY <1>1 DEF EntryInv, Size
  <2>1. Remembered(w)
    BY <1>1 DEF Inv, EntryInv
  <2>2. w # 0
    BY CacheAssumption
  <2>3. ~Arrives(w)
    <3> SUFFICES ASSUME NEW s \in Segments, <<w, s>> \in arriving PROVE FALSE
      BY DEF Arrives
    <3>1. <<w, s>>[1] = w
      OBVIOUS
    <3> QED BY <1>1, <3>1
  <2>4. \A t \in Threads : ~Covers(t, w)
    BY <1>1, <2>2 DEF Covers
  <2>5. ~Uploads(w)
    BY <1>1, <2>2 DEF Uploads
  <2> QED BY <1>1, <2>1, <2>3, <2>4, <2>5 DEF Remembered
<1>8. CountInv' /\ EvictInv'
  BY <1>2 DEF CountInv, EvictInv, Going, Threads
<1>9. mishaps' \in Nat
  BY <1>1 DEF Inv
<1> QED BY <1>4, <1>5, <1>6, <1>7, <1>8, <1>9 DEF Inv

-----------------------------------------------------------------------------
(* The theorems.                                                           *)

LEMMA InitInv == Init => Inv
<1> SUFFICES ASSUME Init PROVE Inv
  OBVIOUS
<1>1. \A t \in Threads : thread[t] = Idle /\ thread[t].pc = "idle" /\ thread[t].todo = {}
  BY DEF Init, Idle
<1>2. TypeOK
  <2>1. thread \in [Threads -> Thread]
    BY IdleThread DEF Init
  <2>2. entry \in [Videos -> 0..SegmentCount \cup {None}]
    BY CountIsPositive DEF Init
  <2>3. files \in [Videos -> SUBSET Segments] /\ visible \subseteq Videos
    BY DEF Init
  <2>4. queue \in Seq(Videos)
    BY DEF Init
  <2> QED BY <2>1, <2>2, <2>3, <2>4 DEF Init, TypeOK
<1>3. ControlInv
  <2> SUFFICES ASSUME NEW t \in Threads PROVE Control(t)
    BY DEF ControlInv
  <2>1. thread[t].pc = "idle" /\ thread[t].todo = {}
    BY <1>1
  <2> QED BY <2>1 DEF Control, Going, RequestPc, WorkerPc
<1>4. Hidden /\ WorkerHas
  BY <1>1, WorkerIn DEF Hidden, WorkerHas, Going
<1>5. EntryInv
  <2> SUFFICES ASSUME NEW v \in Videos, entry[v] # None PROVE entry[v] = Size(v)
    BY DEF EntryInv
  <2>1. v \in Cached /\ entry[v] = SegmentCount /\ files[v] = Segments
    BY DEF Init
  <2> QED BY <2>1, SegmentsFinite DEF Size
<1>6. CountInv /\ EvictInv
  BY <1>1 DEF CountInv, EvictInv, Going
<1> QED BY <1>2, <1>3, <1>4, <1>5, <1>6 DEF Inv, Init

LEMMA NextInv == Inv /\ [Next]_vars => Inv'
<1> SUFFICES ASSUME Inv, [Next]_vars PROVE Inv'
  OBVIOUS
<1>1. CASE \E v \in Videos, s \in Segments : Persist(v, s) \/ Note(v, s)
  BY <1>1, PersistStep, NoteStep
<1>2. CASE \E t \in Threads : Scan(t) \/ Store(t) \/ Collect(t) \/ Evict(t) \/ EndEviction(t)
  BY <1>2, ScanStep, StoreStep, CollectStep, EvictStep, EndEvictionStep
<1>3. CASE \E t \in Requests : RequestStep(t)
  <2>1. PICK t \in Requests : RequestStep(t)
    BY <1>3
  <2>2. CASE \E v \in Videos : Flush(t, v) \/ Clear(t, v) \/ Detail(t, v) \/ QueueCache(t, v)
    BY <2>2, FlushStep, ClearStep, DetailStep, QueueCacheStep
  <2>3. CASE ClearAll(t) \/ NextClear(t) \/ RemoveFiles(t) \/ RemoveRaises(t) \/ CreateJob(t)
    BY <2>3, ClearAllStep, NextClearStep, RemoveFilesStep, RemoveRaisesStep, CreateJobStep
  <2> QED BY <2>1, <2>2, <2>3 DEF RequestStep
<1>4. CASE WorkerStep
  BY <1>4, TakeJobStep, CheckSegmentsStep, FetchStep, EndFetchStep, EndJobStep,
     TakeImportStep, SplitStep, UploadStep, RevealStep DEF WorkerStep
<1>5. CASE Restart
  BY <1>5, RestartStep
<1>6. CASE UNCHANGED vars
  <2>1. UNCHANGED <<files, entry, visible, arriving, noted, queue, thread, requests, writes,
                    mishaps, stale, lost>>
    BY <1>6 DEF vars
  <2>2. TypeOK' /\ ControlInv' /\ Hidden' /\ WorkerHas'
    BY <2>1 DEF Inv, TypeOK, ControlInv, Control, Going, Hidden, WorkerHas, Gone
  <2>3. \A u \in Threads : Same(u) /\ Held(u)
    BY <2>1, SameIfEqual
  <2>4. UploadKeeps
    BY <2>3, WorkerIn, SameWorker
  <2>5. \A u \in Threads : CoverKeeps(u) /\ ScanKeeps(u) /\ CountKeeps(u) /\ EvictKeeps(u)
    BY <2>3, SameKeeps
  <2>6. EntryInv' /\ CountInv' /\ EvictInv'
    BY <2>1, <2>4, <2>5, EntryFrame, CountFrame, EvictFrame DEF Inv
  <2> QED BY <2>1, <2>2, <2>6 DEF Inv
<1> QED BY <1>1, <1>2, <1>3, <1>4, <1>5, <1>6 DEF Next

\* In every reachable state the inductive invariant holds: whatever requests, players,
\* prefetch threads, the worker, exceptions and restarts do to the cache.
THEOREM CacheAlwaysInv == Spec => []Inv
<1>1. Init => Inv
  BY InitInv
<1>2. Inv /\ [Next]_vars => Inv'
  BY NextInv
<1> QED BY <1>1, <1>2, PTL DEF Spec

\* Every variable keeps its type: a count never exceeds the number of segments, only
\* ids of videos are queued, and a cleared or evicted directory is one of a video.
THEOREM CacheTypeCorrect == Spec => []TypeOK
<1>1. Inv => TypeOK
  BY DEF Inv
<1> QED BY <1>1, CacheAlwaysInv, PTL

\* refresh_video_cache_entry is not lost: a row of video_cache_entries that does not
\* say how many segments are there is going to be put right, unless two refreshes of
\* the video overlapped, one raised or the process was restarted.
THEOREM CacheEntryIsTrue == Spec => []EntryIsTrue
<1>1. Inv => EntryIsTrue
  BY DEF Inv, EntryInv, EntryIsTrue, Remembered, Arrives, Covers, Uploads, Refreshing
<1> QED BY <1>1, CacheAlwaysInv, PTL

\* No enforcement of the limit, by whatever request, takes away what the worker has
\* written or fetched: an import uploads what it has split, and a cache job that ends
\* as completed leaves every segment.
THEOREM CacheWorkerFindsSegments == Spec => []WorkerFindsSegments
<1>1. Inv => WorkerFindsSegments
  BY DEF Inv, WorkerHas, WorkerFindsSegments, Going, Gone
<1> QED BY <1>1, CacheAlwaysInv, PTL

\* Only its own steps take a thread out of an enforcement, and exceptions.
LEMMA EvictEnds ==
    ASSUME Inv, [Next]_vars, NEW t \in Threads, thread[t].pc = "evict"
    PROVE  \/ thread'[t].pc = "evict" \/ Evict(t) \/ EndEviction(t)
           \/ thread'[t].pc = "idle" /\ mishaps' # mishaps
<1> SUFFICES ASSUME ~Evict(t), ~EndEviction(t),
                    ~(thread'[t].pc = "idle" /\ mishaps' # mishaps)
             PROVE  thread'[t].pc = "evict"
  OBVIOUS
<1>1. thread \in [Threads -> Thread] /\ Worker \in Threads
      /\ (\A u \in Requests : u \in Threads /\ u # Worker)
  BY WorkerIn, CacheAssumption DEF Inv, TypeOK, Threads
<1>2. \A x, c, g : DOMAIN Moved(x, c, g) = Threads /\ Moved(x, c, g)[t].pc = "evict"
  <2>1. thread[t] \in Thread
    BY <1>1
  <2> QED BY <2>1 DEF Moved, Thread
<1>12. \A x, v, new : DOMAIN Changed(x, v, new) = Threads /\ Changed(x, v, new)[t].pc = "evict"
  BY <1>1, <1>2 DEF Changed
<1>3. CASE \E v \in Videos, s \in Segments : Persist(v, s) \/ Note(v, s)
  BY <1>12, <1>3 DEF Persist, Note
<1>4. ASSUME NEW u \in Threads, Scan(u) PROVE thread'[t].pc = "evict"
  <2>1. u # t
    BY <1>4 DEF Scan
  <2>2. CASE t \in {x \in Threads \ {u} : Counting(x, thread[u].at)}
    BY <2>2 DEF Counting
  <2>3. CASE t \notin {x \in Threads \ {u} : Counting(x, thread[u].at)}
    <3>1. thread'[t] = thread[t]
      BY <1>4, <2>1, <2>3 DEF Scan
    <3> QED BY <3>1
  <2> QED BY <2>2, <2>3
<1>5. ASSUME NEW u \in Threads, Store(u) PROVE thread'[t].pc = "evict"
  BY <1>1, <1>5 DEF Store
<1>6. ASSUME NEW u \in Threads, Collect(u) \/ EndEviction(u) PROVE thread'[t].pc = "evict"
  <2>1. u # t
    BY <1>6 DEF Collect
  <2>2. thread'[t] = thread[t]
    BY <1>1, <1>6, <2>1 DEF Collect, EndEviction, EndPass
  <2> QED BY <2>2
<1>7. ASSUME NEW u \in Threads, Evict(u) PROVE thread'[t].pc = "evict"
  <2>1. u # t
    BY <1>7
  <2>2. thread'[t] = thread[t] \/ \E left : thread'[t] = Changed(u, First(thread[u].todo), left)[t]
    BY <1>1, <1>12, <1>7, <2>1 DEF Evict
  <2> QED BY <2>2, <1>12
<1>8. ASSUME NEW u \in Requests, RequestStep(u) PROVE thread'[t].pc = "evict"
  <2>1. CASE \E v \in Videos : Flush(u, v) \/ Clear(u, v) \/ Detail(u, v) \/ QueueCache(u, v)
    BY <1>1, <2>1 DEF Flush, Clear, Detail, QueueCache, Receive
  <2>2. CASE ClearAll(u)
    BY <1>1, <2>2 DEF ClearAll, Receive
  <2>3. CASE NextClear(u)
    BY <1>1, <2>3 DEF NextClear
  <2>4. CASE RemoveFiles(u)
    BY <1>1, <1>12, <2>4 DEF RemoveFiles
  <2>5. CASE RemoveRaises(u)
    <3>1. t # u /\ ~Counting(t, thread[u].at)
      BY <2>5 DEF RemoveRaises, Counting
    <3>2. \E left : thread'[t] = Changed(u, thread[u].at, left)[t]
      BY <2>5, <3>1 DEF RemoveRaises
    <3> QED BY <3>2, <1>12
  <2>6. CASE CreateJob(u)
    BY <1>1, <2>6 DEF CreateJob
  <2> QED BY <1>8, <2>1, <2>2, <2>3, <2>4, <2>5, <2>6 DEF RequestStep
<1>9. CASE WorkerStep
  <2>1. CASE TakeJob
    BY <1>1, <2>1 DEF TakeJob, TakeUp
  <2>2. CASE \E v \in Importing : TakeImport(v)
    BY <1>1, <2>2 DEF TakeImport, TakeUp
  <2>3. CASE CheckSegments \/ EndFetch \/ EndJob \/ Upload
    BY <1>1, <2>3 DEF CheckSegments, EndFetch, EndJob, Upload
  <2>4. CASE Fetch \/ Split \/ Reveal
    <3>1. t # Worker
      BY <2>4 DEF Fetch, Split, Reveal
    <3>2. CASE Fetch
      <4>1. \E v, new : thread'[t] = Changed(None, v, new)[t]
        BY <1>1, <1>12, <3>1, <3>2 DEF Fetch
      <4> QED BY <4>1, <1>12
    <3>3. CASE Split
      <4>1. \E v, new : thread'[t] = Changed(None, v, new)[t]
        BY <1>1, <1>12, <3>1, <3>3 DEF Split
      <4> QED BY <4>1, <1>12
    <3>4. CASE Reveal
      <4>1. \E n : thread'[t] = Moved(None, n, 0)[t]
        BY <1>1, <1>2, <3>1, <3>4 DEF Reveal
      <4> QED BY <4>1, <1>2
    <3> QED BY <2>4, <3>2, <3>3, <3>4
  <2> QED BY <1>9, <2>1, <2>2, <2>3, <2>4 DEF WorkerStep
<1>10. CASE Restart
  <2>1. thread'[t].pc = "idle"
    BY <1>10 DEF Restart, Idle
  <2>2. mishaps' # mishaps
    BY <1>10 DEF Restart, Mishap, Inv
  <2> QED BY <2>1, <2>2
<1>11. CASE UNCHANGED vars
  BY <1>11 DEF vars
<1> QED BY <1>3, <1>4, <1>5, <1>6, <1>7, <1>8, <1>9, <1>10, <1>11 DEF Next

\* enforce_cache_limit evicts to the point, whatever other enforcements, writes and
\* clears it overlaps and whichever files resist: it evicts only while what it found would
\* exceed the limit without what others have removed since, and it ends with the cache over
\* the limit by no more than what has come meanwhile or would not go, or with no more than
\* that beside the video it protects.
THEOREM CacheEvictsToLimit == Spec => EvictsToLimit
<1> DEFINE ToLimit(t) ==
        thread[t].pc = "evict" =>
          /\ thread'[t].pc = "scan" =>
                TotalSize(Listed) + thread[t].gone > Limit + thread[t].came
          /\ thread'[t].pc \notin {"evict", "scan", "store"} /\ mishaps' = mishaps =>
                \/ TotalSize(Listed) + thread[t].gone <= Limit + thread[t].came
                \/ TotalSize(Listed \ {thread[t].video}) <= thread[t].came
<1>1. ASSUME Inv, [Next]_vars, NEW t \in Threads PROVE ToLimit(t)
  <2> SUFFICES ASSUME thread[t].pc = "evict" PROVE ToLimit(t)
    OBVIOUS
  <2>1. /\ thread[t].total + thread[t].came = TotalSize(Listed) + thread[t].gone
        /\ TotalSize(Past(t)) <= thread[t].came
        /\ thread[t].came \in Nat /\ thread[t].gone \in Nat /\ thread[t].total \in Int
        /\ TotalSize(Listed) \in Nat /\ Limit \in Nat
    <3>1. Knows(t)
      BY <1>1 DEF Inv, EvictInv, Going
    <3>2. TotalSize(Listed) = TotalSize(visible)
      <4>1. Listed \ {} = Listed /\ visible \ {} = visible
        OBVIOUS
      <4> QED BY <1>1, <4>1, ListedSum DEF Inv
    <3>3. thread[t] \in Thread /\ TotalSize(Listed) \in Nat
      BY <1>1, TotalSizeType DEF Inv, TypeOK
    <3> QED BY <3>1, <3>2, <3>3, CacheAssumption DEF Knows, Thread
  <2>2. CASE Evict(t)
    <3> DEFINE v == First(thread[t].todo)
    <3>1. thread[t].total > Limit
      BY <2>2 DEF Evict
    <3>2. thread'[t].pc \in {"evict", "scan"}
      <4>1. thread[t] \in Thread /\ Threads = DOMAIN thread
            /\ \A left : DOMAIN Changed(t, v, left) = Threads
        BY <1>1 DEF Inv, TypeOK, Changed, Moved
      <4>2. CASE thread' = [thread EXCEPT ![t].todo = @ \ {v}]
        BY <4>1, <4>2 DEF Thread
      <4>3. CASE \E left : thread' = [Changed(t, v, left) EXCEPT ![t] =
                 Refresh([thread[t] EXCEPT !.todo = @ \ {v}, !.total = @ - Size(v),
                                           !.came = @ + Cardinality(left)], v, "evict")]
        <5> DEFINE th(left) == [thread[t] EXCEPT !.todo = @ \ {v}, !.total = @ - Size(v),
                                                 !.came = @ + Cardinality(left)]
        <5>1. PICK left : thread'[t] = Refresh(th(left), v, "evict")
          BY <4>1, <4>3
        <5>2. Refresh(th(left), v, "evict").pc = "scan"
          BY <4>1 DEF Thread, Refresh
        <5> QED BY <5>1, <5>2
      <4> QED BY <2>2, <4>2, <4>3 DEF Evict
    <3>3. TotalSize(Listed) + thread[t].gone > Limit + thread[t].came
      BY <2>1, <3>1
    <3> QED BY <3>2, <3>3
  <2>3. CASE EndEviction(t)
    <3>1. thread[t].todo = {} \/ thread[t].total <= Limit
      BY <2>3 DEF EndEviction
    <3>2. thread'[t].pc # "scan"
      <4>1. thread'[t] = IF t = Worker
                  THEN [Idle EXCEPT !.video = thread[t].video, !.pc = "reveal"] ELSE Idle
        BY <1>1, <2>3 DEF EndEviction, EndPass, Inv, TypeOK
      <4> QED BY <4>1 DEF Idle
    <3>3. CASE thread[t].total <= Limit
      <4>1. TotalSize(Listed) + thread[t].gone <= Limit + thread[t].came
        BY <2>1, <3>3
      <4> QED BY <3>2, <4>1
    <3>4. CASE thread[t].todo = {}
      <4>1. Past(t) = visible \ {thread[t].video}
        BY <3>4 DEF Past
      <4>2. TotalSize(Listed \ {thread[t].video}) = TotalSize(Past(t))
        BY <1>1, <4>1, ListedSum DEF Inv
      <4> QED BY <2>1, <3>2, <4>2
    <3> QED BY <3>1, <3>3, <3>4
  <2>4. CASE thread'[t].pc = "evict" \/ (thread'[t].pc = "idle" /\ mishaps' # mishaps)
    BY <2>4
  <2> QED BY <1>1, <2>2, <2>3, <2>4, EvictEnds
<1>2. Inv /\ [Next]_vars => [\A t \in Threads : ToLimit(t)]_vars
  BY <1>1
<1> QED BY <1>2, CacheAlwaysInv, PTL DEF Spec, EvictsToLimit

=============================================================================
