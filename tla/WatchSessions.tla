--------------------------- MODULE WatchSessions ---------------------------
(***************************************************************************)
(* What the library knows of how its videos are watched: sessions          *)
(* (repositories/watching.py), the analytics computed from them            *)
(* (services/recommendations.py) and the likes (repositories/videos.py).   *)
(*                                                                         *)
(* A report of watched seconds is a request that reads and writes the data *)
(* base in several steps; reports run beside each other, beside likes and  *)
(* beside the deletion of a video, and the process may stop between two    *)
(* steps.  Times are whole seconds, and a bucket of the heat map is a      *)
(* whole number of them.                                                   *)
(***************************************************************************)
EXTENDS Integers, FiniteSets, FiniteSetsExt, Sequences

CONSTANTS Videos,      (* ids                                               *)
          Tokens,      (* session tokens                                    *)
          Requests,    (* threads that serve reports                        *)
          Reports,     (* what a player may report                          *)
          Duration,    (* duration_seconds                                  *)
          Buckets,     (* highlight_bucket_count                            *)
          LikeBound,   (* upper_bound of increment_video_like_count         *)
          MaxReports,  (* bound: reports                                    *)
          Liked,       (* bound: videos whose like buttons are pressed      *)
          MaxTime,     (* bound: the clock                                  *)
          MaxMishaps,  (* bound: deletions and stops                        *)
          None

ASSUME WatchAssumption ==
    /\ Videos \subseteq Nat /\ Liked \subseteq Videos /\ None \notin Tokens
    /\ Duration \in Nat \ {0} /\ Buckets \in Nat \ {0} /\ Duration % Buckets = 0
    /\ Reports \subseteq [delta : Nat, position : Nat, completed : BOOLEAN]
    /\ {LikeBound, MaxReports, MaxTime, MaxMishaps} \subseteq Nat

VARIABLES stored,    (* the ids of the rows of videos                       *)
          row,       (* their analytics columns and like_count              *)
          session,   (* video_watch_sessions                                *)
          nextId,    (* AUTOINCREMENT of that table                         *)
          request,   (* the report each thread serves                       *)
          now,       (* CURRENT_TIMESTAMP                                   *)
          sent,      (* history: seconds reported for each token            *)
          pressed,   (* history: the likes as they were pressed             *)
          bounds

table == <<stored, row, session, nextId>>
vars == <<stored, row, session, nextId, request, now, sent, pressed, bounds>>

-----------------------------------------------------------------------------
(* _build_highlight_heatmap and _derive_highlight_range.                   *)

Lesser(a, b) == IF a < b THEN a ELSE b
Greater(a, b) == IF a > b THEN a ELSE b
Width == Duration \div Buckets
Until(s) == Lesser(s.maxPosition, Duration)
From(s) == Greater(Until(s) - Lesser(s.seconds, Duration), 0)

BucketOf(x) == Lesser(x \div Width, Buckets - 1)

\* The seconds of bucket b that a session has covered.
Overlap(s, b) ==
    IF b \in BucketOf(From(s))..BucketOf(Until(s))
    THEN Greater(Lesser(Until(s), (b + 1) * Width) - Greater(From(s), b * Width), 0)
    ELSE 0

Heatmap(sessions) ==
    [b \in 0..Buckets - 1 |-> MapThenSumSet(LAMBDA s : Overlap(s, b), sessions)]

Hot(heat, peak, b) == 10 * heat[b] >= 6 * heat[peak]

\* Mutated form of Highlight: the range grows over every hot bucket.
HighlightScattered(heat) ==
    LET peak == Min({b \in DOMAIN heat : \A c \in DOMAIN heat : heat[c] <= heat[b]})
        hot == {b \in DOMAIN heat : Hot(heat, peak, b)} IN
    IF heat[peak] = 0 THEN None ELSE [first |-> Min(hot), last |-> Max(hot)]

\* From the first of the hottest buckets to either side, while the next is hot.
Highlight(heat) ==
    LET peak == Min({b \in DOMAIN heat : \A c \in DOMAIN heat : heat[c] <= heat[b]})
        first == {b \in 0..peak : \A c \in b..peak : Hot(heat, peak, c)}
        last == {b \in peak..Buckets - 1 : \A c \in peak..b : Hot(heat, peak, c)} IN
    IF heat[peak] = 0 THEN None ELSE [first |-> Min(first), last |-> Max(last)]

-----------------------------------------------------------------------------
(* recalculate_video_analytics.                                            *)

\* _compute_resume_score is positive from 2 to 95 percent of the video.
Resumable(position) ==
    position > 0 /\ 100 * position >= 2 * Duration /\ 100 * position < 95 * Duration

\* _novelty_factor tells no play, one play and more apart.
Novelty(plays) == Lesser(plays, 2)

\* The session of the last activity; among those of one second, the newest.
LastOf(sessions) ==
    CHOOSE s \in sessions : \A t \in sessions : s.at > t.at \/ (s.at = t.at /\ s.id >= t.id)

Analytics(sessions) ==
    LET position == IF sessions = {} THEN 0 ELSE LastOf(sessions).position
        heat == Heatmap(sessions) IN
    [plays |-> Cardinality({s \in sessions : s.valid}),
     sessions |-> Cardinality(sessions),
     seconds |-> MapThenSumSet(LAMBDA s : s.seconds, sessions),
     bounces |-> Cardinality({s \in sessions : s.bounce}),
     watchedAt |-> IF sessions = {} THEN None ELSE LastOf(sessions).at,
     position |-> position, resume |-> Resumable(position),
     heat |-> heat, highlight |-> Highlight(heat)]

\* A row: the analytics, the play count its recommendation score was made of, the
\* likes.
NewRow == [analytics |-> Analytics({}), score |-> 0, likes |-> 0]

-----------------------------------------------------------------------------
\* A row of video_watch_sessions.
SessionRow == [id : Nat \ {0}, video : Videos, at : Nat, seconds : Nat, position : Nat,
               maxPosition : Nat, valid : BOOLEAN, bounce : BOOLEAN]

\* No session and no highlight is Python's None.
ASSUME NoneAssumption == None \notin SessionRow \cup [first : Nat, last : Nat]

Idle == [pc |-> "idle", video |-> None, token |-> None, report |-> None, read |-> None,
         computed |-> None, listed |-> None, left |-> {}, alone |-> TRUE]

Init ==
    /\ stored = Videos
    /\ row = [v \in Videos |-> NewRow]
    /\ session = [t \in Tokens |-> None]
    /\ nextId = 1
    /\ request = [r \in Requests |-> Idle]
    /\ now = 0
    /\ sent = [t \in Tokens |-> 0]
    /\ pressed = [v \in Videos |-> 0]
    /\ bounds = [reports |-> 0, mishaps |-> 0]

SessionsOf(v) == {session[t] : t \in {u \in Tokens : session[u] # None /\ session[u].video = v}}

Serving(r) == request[r].pc \notin {"idle", "done"}
Go(r, pc) == request' = [request EXCEPT ![r].pc = pc]
\* What is not used any more is dropped.
Forget(r, pc) == request' = [request EXCEPT ![r].pc = pc, ![r].token = None,
                                            ![r].report = None, ![r].read = None]
\* The request ends with an error, which the player does not see.
Fail(r) == request' = [request EXCEPT ![r] = Idle]
Count(kind, bound) == bounds[kind] < bound /\ bounds' = [bounds EXCEPT ![kind] = @ + 1]
RequestFrame == UNCHANGED <<now, sent, pressed, bounds>>

-----------------------------------------------------------------------------
(* record_watch_heartbeat, step by step.                                   *)

\* get_video and get_watch_session.  A player that names no token is given one
\* that is not in use yet.
Begin(r) ==
    \E v \in Videos, t \in Tokens, report \in Reports :
        /\ ~Serving(r) /\ Count("reports", MaxReports)
        /\ v \in stored
        /\ session[t] # None => session[t].video = v
        /\ LET others == {q \in Requests \ {r} : Serving(q)} IN
           request' = [q \in Requests |->
             CASE q = r -> [Idle EXCEPT !.pc = IF session[t] = None THEN "create" ELSE "update",
                                        !.video = v, !.token = t, !.report = report,
                                        !.read = session[t], !.alone = others = {}]
               [] q \in others -> [request[q] EXCEPT !.alone = FALSE]
               [] OTHER -> Idle]
        /\ sent' = [sent EXCEPT ![t] = @ + report.delta]
        /\ UNCHANGED <<table, now, pressed>>

\* create_watch_session: the token is unique and the video must exist.
Create(r) ==
    LET t == request[r].token
        new == [id |-> nextId, video |-> request[r].video, at |-> now, seconds |-> 0,
                position |-> 0, maxPosition |-> 0, valid |-> FALSE, bounce |-> FALSE] IN
    /\ request[r].pc = "create"
    /\ IF session[t] = None /\ request[r].video \in stored
       THEN /\ session' = [session EXCEPT ![t] = new] /\ nextId' = nextId + 1
            /\ request' = [request EXCEPT ![r].pc = "update", ![r].read = new]
       ELSE Fail(r) /\ UNCHANGED <<session, nextId>>
    /\ UNCHANGED <<stored, row>> /\ RequestFrame

\* The row after a report: what it sets is computed from the session as it was read.
Updated(r) ==
    LET s == request[r].read
        report == request[r].report
        seconds == s.seconds + report.delta
        enough == 10 * seconds >= Duration IN
    [session[request[r].token] EXCEPT !.at = now, !.seconds = seconds,
        !.position = report.position,
        !.maxPosition = Greater(s.maxPosition, report.position),
        !.valid = s.valid \/ enough, !.bounce = s.bounce \/ (report.completed /\ ~enough)]

\* Mutated form of Update: the seconds are added to those of the row, the play is
\* still decided from what was read.
UpdateInPlace(r) ==
    LET t == request[r].token
        new == Updated(r) IN
    /\ request[r].pc = "update"
    /\ IF session[t] # None
       THEN /\ session' = [session EXCEPT ![t] =
                 [new EXCEPT !.seconds = session[t].seconds + request[r].report.delta]]
            /\ Forget(r, "list")
       ELSE Fail(r) /\ UNCHANGED session
    /\ UNCHANGED <<stored, row, nextId>> /\ RequestFrame

\* Mutated form of Update: analytics are computed at the end of a video only.
UpdateQuietly(r) ==
    LET t == request[r].token
        new == Updated(r) IN
    /\ request[r].pc = "update"
    /\ IF session[t] # None
       THEN /\ session' = [session EXCEPT ![t] = new]
            /\ Forget(r, IF request[r].report.completed THEN "list" ELSE "done")
       ELSE Fail(r) /\ UNCHANGED session
    /\ UNCHANGED <<stored, row, nextId>> /\ RequestFrame

\* update_watch_session finds the row by its token; when it is gone, the row it reads
\* back is None.
Update(r) ==
    LET t == request[r].token IN
    /\ request[r].pc = "update"
    /\ IF session[t] # None
       THEN /\ session' = [session EXCEPT ![t] = Updated(r)]
            /\ Forget(r, "list")
       ELSE Fail(r) /\ UNCHANGED session
    /\ UNCHANGED <<stored, row, nextId>> /\ RequestFrame

\* Mutated form of ListSessions: list_all_watch_sessions.
ListAllSessions(r) ==
    /\ request[r].pc = "list"
    /\ IF request[r].video \in stored
       THEN request' = [request EXCEPT ![r].pc = "write", ![r].computed =
                          Analytics(UNION {SessionsOf(v) : v \in Videos})]
       ELSE Fail(r)
    /\ UNCHANGED table /\ RequestFrame

\* list_video_watch_sessions, and what is computed of them.
ListSessions(r) ==
    /\ request[r].pc = "list"
    /\ IF request[r].video \in stored
       THEN request' = [request EXCEPT ![r].pc = "write",
                          ![r].computed = Analytics(SessionsOf(request[r].video))]
       ELSE Fail(r)
    /\ UNCHANGED table /\ RequestFrame

\* update_video_analytics leaves like_count alone.
WriteAnalytics(r) ==
    LET v == request[r].video IN
    /\ request[r].pc = "write"
    /\ IF v \in stored
       THEN /\ row' = [row EXCEPT ![v].analytics = request[r].computed]
            /\ request' = [request EXCEPT ![r].pc = "refresh", ![r].computed = None]
       ELSE Fail(r) /\ UNCHANGED row
    /\ UNCHANGED <<stored, session, nextId>> /\ RequestFrame

\* _refresh_all_recommendation_scores lists the videos once ...
ListVideos(r) ==
    /\ request[r].pc = "refresh"
    /\ request' = [request EXCEPT ![r].pc = IF stored = {} THEN "reply" ELSE "scores",
                                  ![r].listed = row, ![r].left = stored]
    /\ UNCHANGED table /\ RequestFrame

ScoreNext(r, new) ==
    LET v == Max(request[r].left)
        left == request[r].left \ {v} IN
    /\ request[r].pc = "scores"
    /\ IF v \in stored
       THEN /\ row' = [row EXCEPT ![v] = new[v]]
            /\ request' = [request EXCEPT ![r].left = left,
                 ![r].pc = IF left = {} THEN "reply" ELSE @,
                 ![r].listed = IF left = {} THEN None ELSE @]
       ELSE Fail(r) /\ UNCHANGED row
    /\ UNCHANGED <<stored, session, nextId>> /\ RequestFrame

Scored(r, v) ==
    LET listed == request[r].listed[v] IN
    [listed EXCEPT !.score = Novelty(listed.analytics.plays)]

\* Mutated form of WriteScore: the like count is written, too.
WriteScoreAndLikes(r) == ScoreNext(r, [v \in stored |-> Scored(r, v)])

\* ... and writes each of them with its new score and the rest as it was listed.
WriteScore(r) ==
    ScoreNext(r, [v \in stored |-> [Scored(r, v) EXCEPT !.likes = row[v].likes]])

\* The last get_video.
Reply(r) ==
    /\ request[r].pc = "reply"
    /\ IF request[r].video \in stored THEN Go(r, "done") ELSE Fail(r)
    /\ UNCHANGED table /\ RequestFrame

Serve(r) ==
    \/ Begin(r) \/ Create(r) \/ Update(r) \/ ListSessions(r) \/ WriteAnalytics(r)
    \/ ListVideos(r) \/ WriteScore(r) \/ Reply(r)

-----------------------------------------------------------------------------
(* What happens beside them.                                               *)

Clamped(n) == Greater(Lesser(n, LikeBound), 0)

\* increment_video_like_count is one statement; a press that changes nothing is left
\* out.
Like(v) ==
    /\ v \in stored
    /\ \E d \in {-1, 1} :
        /\ Clamped(row[v].likes + d) # row[v].likes
        /\ row' = [row EXCEPT ![v].likes = Clamped(@ + d)]
        /\ pressed' = [pressed EXCEPT ![v] = Clamped(@ + d)]
    /\ UNCHANGED <<stored, session, nextId, request, now, sent, bounds>>

\* Mutated form of Delete: the foreign keys are not enforced.
DeleteRowOnly(v) ==
    /\ v \in stored /\ Count("mishaps", MaxMishaps)
    /\ stored' = stored \ {v}
    /\ row' = [row EXCEPT ![v] = NewRow]
    /\ pressed' = [pressed EXCEPT ![v] = 0]
    /\ UNCHANGED <<session, nextId, request, now, sent>>

\* delete_video: the sessions go with the row.
Delete(v) ==
    /\ v \in stored /\ Count("mishaps", MaxMishaps)
    /\ stored' = stored \ {v}
    /\ row' = [row EXCEPT ![v] = NewRow]
    /\ session' = [t \in Tokens |-> IF session[t] \in SessionsOf(v) THEN None ELSE session[t]]
    /\ pressed' = [pressed EXCEPT ![v] = 0]
    /\ UNCHANGED <<nextId, request, now, sent>>

\* The process stops and is started again.
Restart ==
    /\ \E r \in Requests : Serving(r)
    /\ Count("mishaps", MaxMishaps)
    /\ request' = [r \in Requests |-> Idle]
    /\ UNCHANGED <<table, now, sent, pressed>>

\* The next second; it matters only when a session is about to be written.
Tick ==
    /\ now < MaxTime /\ now' = now + 1
    /\ \E r \in Requests : request[r].pc = "update"
    /\ UNCHANGED <<table, request, sent, pressed, bounds>>

Next ==
    \/ \E r \in Requests : Serve(r)
    \/ \E v \in Liked : Like(v)
    \/ \E v \in Videos : Delete(v)
    \/ Restart \/ Tick

Spec == Init /\ [][Next]_vars

-----------------------------------------------------------------------------
(* Properties.                                                             *)

TokensOf(v) == {t \in Tokens : session[t] # None /\ session[t].video = v}
Rows == {row[v].analytics : v \in stored}

\* Every variable has the type its code has: the like count keeps its bounds, and no
\* row counts more plays or bounces than it has sessions.
TypeOK ==
    /\ stored \subseteq Videos
    /\ \A v \in Videos : row[v].likes \in 0..LikeBound /\ row[v].score \in 0..2
    /\ \A a \in Rows : {a.plays, a.bounces} \subseteq 0..a.sessions
    /\ \A t \in Tokens : session[t] # None =>
        /\ session[t].video \in stored /\ session[t].id \in 1..nextId - 1
        /\ session[t].position <= session[t].maxPosition
    /\ \A t, u \in Tokens : session[t] # None /\ session[t] = session[u] => t = u
    /\ \A r \in Requests : request[r].pc \in
        {"idle", "create", "update", "list", "write", "refresh", "scores", "reply", "done"}

\* However reports of one session overwrite each other, the session counts as a play
\* exactly when the seconds it holds are a tenth of the video.
PlayIsEarned ==
    \A t \in Tokens : session[t] # None =>
        (session[t].valid <=> 10 * session[t].seconds >= Duration)

\* Reports that overlap may lose seconds; neither they nor repeated reports, stops and
\* stale writes ever add any: a session never holds more than was reported for it, and
\* a video no more than was reported for the sessions it has had.
NoSecondsInvented ==
    /\ \A t \in Tokens : session[t] # None => session[t].seconds <= sent[t]
    /\ \A v \in stored : row[v].analytics.seconds <=
          MapThenSumSet(LAMBDA t : sent[t], TokensOf(v))

\* A report that no other overlapped leaves the analytics of its video, and the score
\* made of them, exactly as its sessions say, whatever overlapping reports, stops and
\* deletions before it had left behind.
AloneIsExact ==
    \A r \in Requests :
        request[r].pc = "done" /\ request[r].alone /\ request[r].video \in stored =>
            LET a == row[request[r].video].analytics IN
            /\ a = Analytics(SessionsOf(request[r].video))
            /\ row[request[r].video].score = Novelty(a.plays)

\* The seconds of bucket b the sessions have covered, one by one.
SecondsIn(sessions, b) ==
    Cardinality({p \in sessions \X (b * Width..(b + 1) * Width - 1) :
        From(p[1]) <= p[2] /\ p[2] < Until(p[1])})

\* A heat map counts, bucket by bucket, each second that each session has covered (the
\* definition that the loop over buckets stands for), and the highlight made of it is a
\* stretch of buckets none of which is cold, that holds a hottest one and cannot be
\* extended; there is one as soon as a second was covered.
HighlightIsPeak ==
    /\ \A r \in Requests : request[r].pc = "list" =>
          LET sessions == SessionsOf(request[r].video) heat == Heatmap(sessions) IN
          \A b \in DOMAIN heat : heat[b] = SecondsIn(sessions, b)
    /\ \A a \in Rows :
          IF a.highlight = None THEN \A b \in DOMAIN a.heat : a.heat[b] = 0
          ELSE LET h == a.highlight.first..a.highlight.last
                   peak == Max({a.heat[b] : b \in DOMAIN a.heat})
                   edge == {a.highlight.first - 1, a.highlight.last + 1} \cap DOMAIN a.heat IN
               /\ \E b \in h : a.heat[b] = peak
               /\ \A b \in h : 10 * a.heat[b] >= 6 * peak
               /\ \A b \in edge : 10 * a.heat[b] < 6 * peak

\* A report that is computed while the like buttons are pressed brings back no older
\* count (tests/test_catalog_api.py, does_not_restore_stale_like_count).
LikesAreKept == \A v \in stored : row[v].likes = pressed[v]

=============================================================================
