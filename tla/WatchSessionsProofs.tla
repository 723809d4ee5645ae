------------------------ MODULE WatchSessionsProofs ------------------------
(***************************************************************************)
(* Proofs about WatchSessions for any number of videos, sessions, threads  *)
(* and reports, any length of the video and any number of buckets.         *)
(***************************************************************************)
EXTENDS WatchSessions, FiniteSetTheorems, SumTheorems, TLAPS

-----------------------------------------------------------------------------
(* Types.                                                                  *)

\* The analytics of a row are always those of some sessions.
AnalyticsOfSome == {Analytics(S) : S \in {U \in SUBSET SessionRow : IsFiniteSet(U)}}
VideoRow == [analytics : AnalyticsOfSome, score : 0..2, likes : 0..LikeBound]

RequestPc == {"idle", "create", "update", "list", "write", "refresh", "scores", "reply", "done"}
Request == [pc : RequestPc, video : Videos \cup {None}, token : Tokens \cup {None},
            report : Reports \cup {None}, read : SessionRow \cup {None},
            computed : AnalyticsOfSome \cup {None}, listed : [Videos -> VideoRow] \cup {None},
            left : SUBSET Videos, alone : BOOLEAN]

Present == {t \in Tokens : session[t] # None}

TableType ==
    /\ stored \subseteq Videos
    /\ row \in [Videos -> VideoRow]
    /\ session \in [Tokens -> SessionRow \cup {None}]
    /\ IsFiniteSet(Present)
    /\ nextId \in Nat \ {0}

\* What a thread holds at each step of the report it serves.
Holds(q) ==
    /\ q.pc \notin {"idle", "done"} => q.video \in Videos
    /\ q.pc \in {"create", "update"} => q.token \in Tokens /\ q.report \in Reports
    /\ q.pc = "update" => q.read \in SessionRow
    /\ q.pc = "write" => q.computed \in AnalyticsOfSome
    /\ q.pc = "scores" => q.listed \in [Videos -> VideoRow]

RequestType == request \in [Requests -> Request] /\ \A r \in Requests : Holds(request[r])

TypeInv ==
    TableType /\ RequestType /\ now \in Nat /\ sent \in [Tokens -> Nat]

-----------------------------------------------------------------------------
(* What the analytics of finitely many sessions say.                       *)

LEMMA SessionsFinite ==
    ASSUME TableType, NEW v
    PROVE  SessionsOf(v) \in SUBSET SessionRow /\ IsFiniteSet(SessionsOf(v))
<1> DEFINE T == {u \in Tokens : session[u] # None /\ session[u].video = v}
           f == [t \in T |-> session[t]]
<1>1. IsFiniteSet(T)
  BY FS_Subset DEF TableType, Present
<1>2. f \in Surjection(T, SessionsOf(v))
  BY DEF Surjection, SessionsOf
<1>3. IsFiniteSet(SessionsOf(v))
  BY <1>1, <1>2, FS_Surjection
<1>4. SessionsOf(v) \in SUBSET SessionRow
  BY DEF SessionsOf, TableType
<1> QED BY <1>3, <1>4

LEMMA ComputedType ==
    ASSUME TableType, NEW v
    PROVE  Analytics(SessionsOf(v)) \in AnalyticsOfSome
BY SessionsFinite DEF AnalyticsOfSome

\* No play and no bounce without a session.
LEMMA AnalyticsCount ==
    ASSUME NEW a \in AnalyticsOfSome
    PROVE  a.sessions \in Nat /\ a.plays \in 0..a.sessions /\ a.bounces \in 0..a.sessions
<1>1. PICK S \in SUBSET SessionRow : IsFiniteSet(S) /\ a = Analytics(S)
  BY DEF AnalyticsOfSome
<1>2. /\ a.plays = Cardinality({s \in S : s.valid})
      /\ a.bounces = Cardinality({s \in S : s.bounce})
      /\ a.sessions = Cardinality(S)
  BY <1>1 DEF Analytics
<1>3. ASSUME NEW T \in SUBSET S
      PROVE  Cardinality(S) \in Nat /\ Cardinality(T) \in 0..Cardinality(S)
  BY <1>1, FS_Subset, FS_CardinalityType
<1> QED BY <1>2, <1>3

LEMMA NewRowType == NewRow \in VideoRow
<1>1. Analytics({}) \in AnalyticsOfSome
  BY FS_EmptySet DEF AnalyticsOfSome
<1>2. 0 \in 0..2 /\ 0 \in 0..LikeBound
  BY WatchAssumption
<1> QED BY <1>1, <1>2 DEF NewRow, VideoRow

LEMMA NoveltyType ==
    ASSUME NEW a \in AnalyticsOfSome
    PROVE  Novelty(a.plays) \in 0..2
<1>1. a.plays \in Nat
  BY AnalyticsCount
<1> QED BY <1>1 DEF Novelty, Lesser

LEMMA ClampedType ==
    ASSUME NEW n \in Int
    PROVE  Clamped(n) \in 0..LikeBound
<1>1. LikeBound \in Nat
  BY WatchAssumption
<1> QED BY <1>1 DEF Clamped, Greater, Lesser

LEMMA UpdatedType ==
    ASSUME TypeInv, NEW r \in Requests, request[r].pc = "update",
           session[request[r].token] # None
    PROVE  /\ Updated(r) \in SessionRow
           /\ Updated(r).id = session[request[r].token].id
           /\ Updated(r).video = session[request[r].token].video
           /\ Updated(r).position <= Updated(r).maxPosition
           /\ Updated(r).seconds = request[r].read.seconds + request[r].report.delta
           /\ Updated(r).valid = (request[r].read.valid \/ 10 * Updated(r).seconds >= Duration)
<1> USE DEF TypeInv
<1>1. /\ request[r].token \in Tokens /\ request[r].report \in Reports
      /\ request[r].read \in SessionRow
  BY DEF RequestType, Holds
<1>2. /\ request[r].report.delta \in Nat /\ request[r].report.position \in Nat
      /\ request[r].report.completed \in BOOLEAN
  BY <1>1, WatchAssumption
<1>3. session[request[r].token] \in SessionRow
  BY <1>1 DEF TableType
<1> DEFINE s == request[r].read
           old == session[request[r].token]
           seconds == s.seconds + request[r].report.delta
           high == Greater(s.maxPosition, request[r].report.position)
           valid == s.valid \/ 10 * seconds >= Duration
           bounce == s.bounce \/ (request[r].report.completed /\ ~(10 * seconds >= Duration))
<1>4. /\ seconds \in Nat /\ high \in Nat /\ request[r].report.position <= high
      /\ valid \in BOOLEAN /\ bounce \in BOOLEAN
  BY <1>1, <1>2 DEF SessionRow, Greater
<1>5. Updated(r) = [old EXCEPT !.at = now, !.seconds = seconds,
                      !.position = request[r].report.position, !.maxPosition = high,
                      !.valid = valid, !.bounce = bounce]
  BY DEF Updated
<1> HIDE DEF seconds, high, valid, bounce
<1>6. /\ Updated(r) \in SessionRow
      /\ Updated(r).id = old.id /\ Updated(r).video = old.video
      /\ Updated(r).position = request[r].report.position
      /\ Updated(r).maxPosition = high
      /\ Updated(r).seconds = seconds /\ Updated(r).valid = valid
  BY <1>2, <1>3, <1>4, <1>5 DEF SessionRow
<1> QED BY <1>4, <1>6 DEF seconds, valid

\* A step of one thread changes its own request only.
LEMMA RequestStep ==
    ASSUME RequestType, NEW r \in Requests, NEW q \in Request, Holds(q),
           request' = [request EXCEPT ![r] = q]
    PROVE  RequestType'
BY DEF RequestType

LEMMA IdleType == Idle \in Request /\ Holds(Idle)
BY DEF Idle, Request, RequestPc, Holds

LEMMA FailType ==
    ASSUME RequestType, NEW r \in Requests, Fail(r)
    PROVE  RequestType'
BY RequestStep, IdleType DEF Fail

LEMMA ServeType ==
    ASSUME TypeInv, NEW r \in Requests, Serve(r)
    PROVE  TypeInv'
<1> USE DEF TypeInv
<1>a. request[r] \in Request /\ Holds(request[r])
  BY DEF RequestType
<1>1. CASE Begin(r)
  <2>1. PICK v \in Videos, t \in Tokens, report \in Reports :
          /\ ~Serving(r) /\ Count("reports", MaxReports)
          /\ v \in stored
          /\ session[t] # None => session[t].video = v
          /\ LET others == {q \in Requests \ {r} : Serving(q)} IN
             request' = [q \in Requests |->
                CASE q = r -> [Idle EXCEPT !.pc = IF session[t] = None THEN "create" ELSE "update",
                                          !.video = v, !.token = t, !.report = report,
                                          !.read = session[t], !.alone = others = {}]
                  [] q \in others -> [request[q] EXCEPT !.alone = FALSE]
                  [] OTHER -> Idle]
          /\ sent' = [sent EXCEPT ![t] = @ + report.delta]
          /\ UNCHANGED <<table, now, pressed>>
    BY <1>1, Zenon DEF Begin
  <2> DEFINE new == [Idle EXCEPT !.pc = IF session[t] = None THEN "create" ELSE "update",
                                 !.video = v, !.token = t, !.report = report,
                                 !.read = session[t],
                                 !.alone = {q \in Requests \ {r} : Serving(q)} = {}]
  <2>2. new \in Request /\ Holds(new)
    <3>1. session[t] \in SessionRow \cup {None}
      BY DEF TableType
    <3>2. new \in Request
      BY <3>1, IdleType DEF Request, RequestPc
    <3>3. Holds(new)
      BY <3>1 DEF Holds, Idle
    <3> QED BY <3>2, <3>3
  <2>3. ASSUME NEW q \in Requests
        PROVE  /\ [request[q] EXCEPT !.alone = FALSE] \in Request
               /\ Holds([request[q] EXCEPT !.alone = FALSE])
    <3>1. request[q] \in Request /\ Holds(request[q])
      BY DEF RequestType
    <3> QED BY <3>1 DEF Request, Holds
  <2>4. RequestType'
    <3> HIDE DEF new
    <3>1. \A q \in Requests :
            request'[q] \in {new, [request[q] EXCEPT !.alone = FALSE], Idle}
      BY <2>1 DEF new
    <3>2. request' \in [Requests -> Request]
      BY <2>1, <3>1, <2>2, <2>3, IdleType
    <3> QED BY <3>1, <3>2, <2>2, <2>3, IdleType DEF RequestType
  <2>5. sent' \in [Tokens -> Nat]
    <3>1. report.delta \in Nat
      BY WatchAssumption
    <3>2. sent[t] + report.delta \in Nat
      BY <3>1
    <3> HIDE DEF new
    <3> QED BY <2>1, <3>2
  <2> QED BY <2>1, <2>4, <2>5 DEF table, TableType, Present
<1>2. CASE Create(r)
  <2> DEFINE t == request[r].token
             new == [id |-> nextId, video |-> request[r].video, at |-> now, seconds |-> 0,
                     position |-> 0, maxPosition |-> 0, valid |-> FALSE, bounce |-> FALSE]
  <2>1. UNCHANGED <<stored, row, now, sent>> /\ request[r].pc = "create"
    BY <1>2 DEF Create, RequestFrame
  <2>2. CASE Fail(r) /\ UNCHANGED <<session, nextId>>
    BY <2>1, <2>2, FailType DEF TableType, Present
  <2>3. CASE /\ session' = [session EXCEPT ![t] = new] /\ nextId' = nextId + 1
             /\ request' = [request EXCEPT ![r].pc = "update", ![r].read = new]
    <3>1. new \in SessionRow /\ t \in Tokens
      BY <2>1, <1>a DEF SessionRow, Holds, TableType
    <3> HIDE DEF new
    <3>2. request' = [request EXCEPT ![r] = [request[r] EXCEPT !.pc = "update", !.read = new]]
      BY <2>3
    <3>3. /\ [request[r] EXCEPT !.pc = "update", !.read = new] \in Request
          /\ Holds([request[r] EXCEPT !.pc = "update", !.read = new])
      BY <2>1, <3>1, <1>a DEF Request, RequestPc, Holds
    <3>4. RequestType'
      BY <3>2, <3>3, RequestStep
    <3>5. IsFiniteSet(Present')
      <4>1. Present' \subseteq Present \cup {t}
        <5>1. \A u \in Tokens : u # t => session'[u] = session[u]
          BY <2>3 DEF TableType
        <5> QED BY <5>1 DEF Present
      <4>2. IsFiniteSet(Present \cup {t})
        BY FS_AddElement DEF TableType
      <4> QED BY <4>1, <4>2, FS_Subset
    <3> QED BY <2>1, <2>3, <3>1, <3>4, <3>5 DEF TableType
  <2> QED BY <1>2, <2>2, <2>3 DEF Create
<1>3. CASE Update(r)
  <2> DEFINE t == request[r].token
  <2>1. UNCHANGED <<stored, row, nextId, now, sent>> /\ request[r].pc = "update"
    BY <1>3 DEF Update, RequestFrame
  <2>2. CASE Fail(r) /\ UNCHANGED session
    BY <2>1, <2>2, FailType DEF TableType, Present
  <2>3. CASE /\ session[t] # None /\ session' = [session EXCEPT ![t] = Updated(r)]
             /\ Forget(r, "list")
    <3>1. Updated(r) \in SessionRow /\ t \in Tokens
      BY <2>1, <2>3, <1>a, UpdatedType DEF Holds
    <3>2. request' = [request EXCEPT ![r] = [request[r] EXCEPT !.pc = "list", !.token = None,
                                                              !.report = None, !.read = None]]
      BY <2>3 DEF Forget
    <3>3. /\ [request[r] EXCEPT !.pc = "list", !.token = None,
                                !.report = None, !.read = None] \in Request
          /\ Holds([request[r] EXCEPT !.pc = "list", !.token = None,
                                      !.report = None, !.read = None])
      BY <2>1, <1>a DEF Request, RequestPc, Holds
    <3>4. RequestType'
      BY <3>2, <3>3, RequestStep
    <3>5. IsFiniteSet(Present')
      <4>1. Present' \subseteq Present
        BY <2>3, <3>1 DEF TableType, Present
      <4> QED BY <4>1, FS_Subset DEF TableType
    <3> QED BY <2>1, <2>3, <3>1, <3>4, <3>5 DEF TableType
  <2> QED BY <1>3, <2>2, <2>3 DEF Update
<1>b. ASSUME UNCHANGED <<stored, session, nextId, now, sent>>, row' \in [Videos -> VideoRow],
             NEW q \in Request, Holds(q), request' = [request EXCEPT ![r] = q]
      PROVE  TypeInv'
  BY <1>b, RequestStep DEF TableType, Present
<1>c. ASSUME UNCHANGED <<stored, row, session, nextId, now, sent>>, Fail(r)
      PROVE  TypeInv'
  BY <1>c, FailType DEF TableType, Present
<1>4. CASE ListSessions(r)
  <2> DEFINE new == [request[r] EXCEPT !.pc = "write",
                                       !.computed = Analytics(SessionsOf(request[r].video))]
  <2>1. UNCHANGED <<stored, row, session, nextId, now, sent>> /\ request[r].pc = "list"
    BY <1>4 DEF ListSessions, RequestFrame, table
  <2>2. CASE request' = [request EXCEPT ![r].pc = "write",
                           ![r].computed = Analytics(SessionsOf(request[r].video))]
    <3>1. Analytics(SessionsOf(request[r].video)) \in AnalyticsOfSome
      BY ComputedType
    <3>2. request' = [request EXCEPT ![r] = new]
      BY <2>2
    <3>3. new \in Request /\ Holds(new)
      BY <2>1, <3>1, <1>a DEF Request, RequestPc, Holds
    <3> QED BY <2>1, <3>2, <3>3, <1>b DEF TableType
  <2> QED BY <1>4, <2>1, <2>2, <1>c DEF ListSessions
<1>5. CASE WriteAnalytics(r)
  <2> DEFINE v == request[r].video
             new == [request[r] EXCEPT !.pc = "refresh", !.computed = None]
  <2>1. UNCHANGED <<stored, session, nextId, now, sent>> /\ request[r].pc = "write"
    BY <1>5 DEF WriteAnalytics, RequestFrame
  <2>2. CASE /\ row' = [row EXCEPT ![v].analytics = request[r].computed]
             /\ request' = [request EXCEPT ![r].pc = "refresh", ![r].computed = None]
    <3>1. request[r].computed \in AnalyticsOfSome
      BY <2>1, <1>a DEF Holds
    <3>2. row' \in [Videos -> VideoRow]
      BY <2>2, <3>1 DEF TableType, VideoRow
    <3>3. request' = [request EXCEPT ![r] = new]
      BY <2>2
    <3>4. new \in Request /\ Holds(new)
      BY <2>1, <1>a DEF Request, RequestPc, Holds
    <3> QED BY <2>1, <3>2, <3>3, <3>4, <1>b
  <2> QED BY <1>5, <2>1, <2>2, <1>c DEF WriteAnalytics
<1>6. CASE ListVideos(r)
  <2> DEFINE new == [request[r] EXCEPT !.pc = IF stored = {} THEN "reply" ELSE "scores",
                                       !.listed = row, !.left = stored]
  <2>1. UNCHANGED <<stored, row, session, nextId, now, sent>> /\ request[r].pc = "refresh"
    BY <1>6 DEF ListVideos, RequestFrame, table
  <2>2. request' = [request EXCEPT ![r] = new]
    BY <1>6 DEF ListVideos
  <2>3. new \in Request /\ Holds(new)
    BY <2>1, <1>a DEF Request, RequestPc, Holds, TableType
  <2> QED BY <2>1, <2>2, <2>3, <1>b DEF TableType
<1>7. CASE WriteScore(r)
  <2> DEFINE m == Max(request[r].left)
             left == request[r].left \ {m}
             score == [Scored(r, m) EXCEPT !.likes = row[m].likes]
             new == [request[r] EXCEPT !.left = left, !.pc = IF left = {} THEN "reply" ELSE @,
                                       !.listed = IF left = {} THEN None ELSE @]
  <2>1. UNCHANGED <<stored, session, nextId, now, sent>> /\ request[r].pc = "scores"
    BY <1>7 DEF WriteScore, ScoreNext, RequestFrame
  <2>2. CASE /\ m \in stored /\ row' = [row EXCEPT ![m] = score]
             /\ request' = [request EXCEPT ![r].left = left,
                  ![r].pc = IF left = {} THEN "reply" ELSE @,
                  ![r].listed = IF left = {} THEN None ELSE @]
    <3>1. request[r].listed \in [Videos -> VideoRow] /\ m \in Videos
      BY <2>1, <2>2, <1>a DEF Holds, TableType
    <3>2. request[r].listed[m] \in VideoRow /\ request[r].listed[m].analytics \in AnalyticsOfSome
      BY <3>1 DEF VideoRow
    <3>3. score \in VideoRow
      BY <3>1, <3>2, NoveltyType DEF Scored, VideoRow, TableType
    <3>4. row' \in [Videos -> VideoRow]
      BY <2>2, <3>3 DEF TableType
    <3>5. request' = [request EXCEPT ![r] = new]
      BY <2>2
    <3>6. new \in Request /\ Holds(new)
      BY <2>1, <3>1, <1>a DEF Request, RequestPc, Holds
    <3> QED BY <2>1, <3>4, <3>5, <3>6, <1>b
  <2>3. CASE Fail(r) /\ UNCHANGED row
    BY <2>1, <2>3, <1>c
  <2> QED BY <1>7, <2>2, <2>3 DEF WriteScore, ScoreNext
<1>8. CASE Reply(r)
  <2> DEFINE new == [request[r] EXCEPT !.pc = "done"]
  <2>1. UNCHANGED <<stored, row, session, nextId, now, sent>>
    BY <1>8 DEF Reply, RequestFrame, table
  <2>2. CASE Go(r, "done")
    <3>1. request' = [request EXCEPT ![r] = new]
      BY <2>2 DEF Go
    <3>2. new \in Request /\ Holds(new)
      BY <1>a DEF Request, RequestPc, Holds
    <3> QED BY <2>1, <3>1, <3>2, <1>b DEF TableType
  <2> QED BY <1>8, <2>1, <2>2, <1>c DEF Reply
<1> QED BY <1>1, <1>2, <1>3, <1>4, <1>5, <1>6, <1>7, <1>8 DEF Serve

\* The sessions that are left when those of a video go with its row.
LEMMA DeleteLeaves ==
    ASSUME TableType, NEW v,
           session' = [t \in Tokens |-> IF session[t] \in SessionsOf(v) THEN None ELSE session[t]]
    PROVE  /\ session' \in [Tokens -> SessionRow \cup {None}]
           /\ \A t \in Tokens : session'[t] # None =>
                session'[t] = session[t] /\ session[t] # None /\ session[t].video # v
           /\ \A t \in Tokens : session[t] # None /\ session[t].video # v =>
                session'[t] = session[t]
<1>1. \A t \in Tokens : session[t] # None =>
        (session[t] \in SessionsOf(v) <=> session[t].video = v)
  BY DEF SessionsOf
<1>2. \A s \in SessionsOf(v) : s # None /\ s.video = v
  BY DEF SessionsOf
<1> QED BY <1>1, <1>2 DEF TableType

LEMMA OtherType ==
    ASSUME TypeInv,
           (\E v \in Liked : Like(v)) \/ (\E v \in Videos : Delete(v)) \/ Restart \/ Tick
           \/ UNCHANGED vars
    PROVE  TypeInv'
<1> USE DEF TypeInv, table
<1>1. ASSUME NEW v \in Liked, Like(v) PROVE TypeInv'
  <2>1. PICK d \in {-1, 1} : row' = [row EXCEPT ![v].likes = Clamped(@ + d)]
    BY <1>1 DEF Like
  <2>2. v \in Videos
    BY WatchAssumption
  <2>3. row[v].likes + d \in Int
    BY <2>2 DEF TableType, VideoRow
  <2>4. row' \in [Videos -> VideoRow]
    BY <2>1, <2>2, <2>3, ClampedType DEF TableType, VideoRow
  <2>5. UNCHANGED <<stored, session, nextId, request, now, sent>>
    BY <1>1 DEF Like
  <2> QED BY <2>4, <2>5 DEF TableType, RequestType, Present
<1>2. ASSUME NEW v \in Videos, Delete(v) PROVE TypeInv'
  <2>1. /\ UNCHANGED <<nextId, request, now, sent>>
        /\ stored' = stored \ {v} /\ row' = [row EXCEPT ![v] = NewRow]
        /\ session' = [t \in Tokens |-> IF session[t] \in SessionsOf(v) THEN None ELSE session[t]]
    BY <1>2 DEF Delete
  <2>2. row' \in [Videos -> VideoRow] /\ stored' \subseteq Videos
    BY <2>1, NewRowType DEF TableType
  <2>3. session' \in [Tokens -> SessionRow \cup {None}] /\ Present' \subseteq Present
    BY <2>1, DeleteLeaves DEF Present
  <2>4. IsFiniteSet(Present')
    BY <2>3, FS_Subset DEF TableType
  <2> QED BY <2>1, <2>2, <2>3, <2>4 DEF TableType, RequestType
<1>3. CASE Restart
  <2>1. UNCHANGED <<stored, row, session, nextId, now, sent>> /\ request' = [r \in Requests |-> Idle]
    BY <1>3 DEF Restart
  <2>2. RequestType'
    BY <2>1, IdleType DEF RequestType
  <2> QED BY <2>1, <2>2 DEF TableType, Present
<1>4. CASE Tick
  <2>1. UNCHANGED <<stored, row, session, nextId, request, sent>> /\ now' = now + 1
    BY <1>4 DEF Tick
  <2> QED BY <2>1 DEF TableType, RequestType, Present
<1>5. CASE UNCHANGED vars
  BY <1>5 DEF vars, TableType, RequestType, Present
<1> QED BY <1>1, <1>2, <1>3, <1>4, <1>5

LEMMA TypeInit == Init => TypeInv
<1> SUFFICES ASSUME Init PROVE TypeInv
  OBVIOUS
<1>1. Present = {}
  BY DEF Init, Present
<1>2. TableType
  BY <1>1, FS_EmptySet, NewRowType DEF Init, TableType
<1>3. RequestType
  BY IdleType DEF Init, RequestType
<1> QED BY <1>2, <1>3 DEF Init, TypeInv

LEMMA TypeStep ==
    ASSUME TypeInv, [Next]_vars
    PROVE  TypeInv'
BY ServeType, OtherType DEF Next

-----------------------------------------------------------------------------
(* What a step does to the sessions.                                       *)

NewSession(r) == [id |-> nextId, video |-> request[r].video, at |-> now, seconds |-> 0,
                  position |-> 0, maxPosition |-> 0, valid |-> FALSE, bounce |-> FALSE]

\* A report is begun; the requests that are being served learn that they are not alone.
Begins(r) ==
    \E v \in stored, t \in Tokens, report \in Reports :
        /\ session[t] # None => session[t].video = v
        /\ request'[r].pc \in {"create", "update"}
        /\ request'[r].pc = "create" => session[t] = None
        /\ request'[r].pc = "update" => session[t] # None
        /\ request'[r].video = v /\ request'[r].token = t
        /\ request'[r].report = report /\ request'[r].read = session[t]
        /\ request'[r].alone => \A q \in Requests \ {r} : ~Serving(q)
        /\ \A q \in Requests \ {r} :
            \/ request'[q] = [request[q] EXCEPT !.alone = FALSE] /\ Serving(q)
            \/ request'[q] = Idle /\ ~Serving(q)
        /\ sent' = [sent EXCEPT ![t] = @ + report.delta]
        /\ UNCHANGED <<stored, row, session, nextId, pressed>>

Creates(r) ==
    LET t == request[r].token IN
    /\ request[r].pc = "create" /\ t \in Tokens
    /\ session[t] = None /\ request[r].video \in stored
    /\ session' = [session EXCEPT ![t] = NewSession(r)] /\ nextId' = nextId + 1
    /\ request' = [request EXCEPT ![r] = [request[r] EXCEPT !.pc = "update",
                                                           !.read = NewSession(r)]]
    /\ UNCHANGED <<stored, row, sent, pressed>>

Updates(r) ==
    LET t == request[r].token IN
    /\ request[r].pc = "update" /\ t \in Tokens /\ session[t] # None
    /\ session' = [session EXCEPT ![t] = Updated(r)]
    /\ request' = [request EXCEPT ![r] = [request[r] EXCEPT !.pc = "list", !.token = None,
                                                           !.report = None, !.read = None]]
    /\ UNCHANGED <<stored, row, nextId, sent, pressed>>

\* The other steps of a report neither touch a session nor are about to.
Passes(r) ==
    /\ \E q \in Request :
        q.pc \notin {"create", "update"} /\ request' = [request EXCEPT ![r] = q]
    /\ UNCHANGED <<stored, session, nextId, sent, pressed>>

LEMMA BeginBegins ==
    ASSUME TypeInv, NEW r \in Requests, Begin(r)
    PROVE  Begins(r)
<1>1. PICK v \in Videos, t \in Tokens, report \in Reports :
        /\ ~Serving(r) /\ Count("reports", MaxReports)
        /\ v \in stored
        /\ session[t] # None => session[t].video = v
        /\ LET others == {q \in Requests \ {r} : Serving(q)} IN
           request' = [q \in Requests |->
              CASE q = r -> [Idle EXCEPT !.pc = IF session[t] = None THEN "create" ELSE "update",
                                        !.video = v, !.token = t, !.report = report,
                                        !.read = session[t], !.alone = others = {}]
                [] q \in others -> [request[q] EXCEPT !.alone = FALSE]
                [] OTHER -> Idle]
        /\ sent' = [sent EXCEPT ![t] = @ + report.delta]
        /\ UNCHANGED <<table, now, pressed>>
  BY Zenon DEF Begin
<1> DEFINE others == {q \in Requests \ {r} : Serving(q)}
           new == [Idle EXCEPT !.pc = IF session[t] = None THEN "create" ELSE "update",
                               !.video = v, !.token = t, !.report = report,
                               !.read = session[t], !.alone = others = {}]
<1>2. /\ new.pc = IF session[t] = None THEN "create" ELSE "update"
      /\ new.video = v /\ new.token = t /\ new.report = report /\ new.read = session[t]
      /\ new.alone = (others = {})
  BY DEF Idle
<1> HIDE DEF new
<1>3. request'[r] = new
  BY <1>1 DEF new
<1>4. ASSUME NEW q \in Requests \ {r}
      PROVE  \/ request'[q] = [request[q] EXCEPT !.alone = FALSE] /\ Serving(q)
             \/ request'[q] = Idle /\ ~Serving(q)
  BY <1>1, <1>4
<1>5. request'[r].alone => \A q \in Requests \ {r} : ~Serving(q)
  BY <1>2, <1>3
<1>6. /\ request'[r].pc \in {"create", "update"}
      /\ request'[r].pc = "create" => session[t] = None
      /\ request'[r].pc = "update" => session[t] # None
      /\ request'[r].video = v /\ request'[r].token = t
      /\ request'[r].report = report /\ request'[r].read = session[t]
  BY <1>2, <1>3
<1>7. /\ v \in stored /\ (session[t] # None => session[t].video = v)
      /\ sent' = [sent EXCEPT ![t] = @ + report.delta]
      /\ UNCHANGED <<stored, row, session, nextId, pressed>>
  BY <1>1 DEF table
<1> HIDE DEF others
<1> QED BY <1>4, <1>5, <1>6, <1>7 DEF Begins

LEMMA ServeDoes ==
    ASSUME TypeInv, NEW r \in Requests, Serve(r)
    PROVE  Begins(r) \/ Creates(r) \/ Updates(r) \/ Passes(r)
<1>a. request[r] \in Request /\ Holds(request[r])
  BY DEF TypeInv, RequestType
<1>b. ASSUME Fail(r), UNCHANGED <<stored, session, nextId, sent, pressed>> PROVE Passes(r)
  BY <1>b, IdleType DEF Fail, Passes, Idle
<1>1. CASE Begin(r)
  BY <1>1, BeginBegins
<1>2. CASE Create(r)
  BY <1>2, <1>a, <1>b DEF Create, Creates, NewSession, RequestFrame, Holds
<1>3. CASE Update(r)
  BY <1>3, <1>a, <1>b DEF Update, Updates, Forget, RequestFrame, Holds
<1>c. ASSUME Serve(r), UNCHANGED <<stored, session, nextId, sent, pressed>>,
             \E q : q.pc \notin {"create", "update"} /\ request' = [request EXCEPT ![r] = q]
      PROVE  Passes(r)
  <2>1. PICK q : q.pc \notin {"create", "update"} /\ request' = [request EXCEPT ![r] = q]
    BY <1>c
  <2>2. request' \in [Requests -> Request]
    BY <1>c, ServeType DEF TypeInv, RequestType
  <2>3. request'[r] = q
    BY <2>1 DEF TypeInv, RequestType
  <2> QED BY <1>c, <2>1, <2>2, <2>3 DEF Passes
<1>4. CASE ListSessions(r)
  <2> DEFINE q == [request[r] EXCEPT !.pc = "write",
                                     !.computed = Analytics(SessionsOf(request[r].video))]
  <2>1. q.pc = "write"
    BY <1>a DEF Request
  <2>2. UNCHANGED <<stored, session, nextId, sent, pressed>>
    BY <1>4 DEF ListSessions, RequestFrame, table
  <2>3. Fail(r) \/ request' = [request EXCEPT ![r] = q]
    BY <1>4 DEF ListSessions
  <2> HIDE DEF q
  <2> QED BY <2>1, <2>2, <2>3, <1>b, <1>c
<1>5. CASE WriteAnalytics(r)
  <2> DEFINE q == [request[r] EXCEPT !.pc = "refresh", !.computed = None]
  <2>1. q.pc = "refresh"
    BY <1>a DEF Request
  <2>2. UNCHANGED <<stored, session, nextId, sent, pressed>>
    BY <1>5 DEF WriteAnalytics, RequestFrame
  <2>3. Fail(r) \/ request' = [request EXCEPT ![r] = q]
    BY <1>5 DEF WriteAnalytics
  <2> HIDE DEF q
  <2> QED BY <2>1, <2>2, <2>3, <1>b, <1>c
<1>6. CASE ListVideos(r)
  <2> DEFINE q == [request[r] EXCEPT !.pc = IF stored = {} THEN "reply" ELSE "scores",
                                     !.listed = row, !.left = stored]
  <2>1. q.pc \in {"reply", "scores"}
    BY <1>a DEF Request
  <2>2. UNCHANGED <<stored, session, nextId, sent, pressed>>
    BY <1>6 DEF ListVideos, RequestFrame, table
  <2>3. request' = [request EXCEPT ![r] = q]
    BY <1>6 DEF ListVideos
  <2> HIDE DEF q
  <2> QED BY <2>1, <2>2, <2>3, <1>c
<1>7. CASE WriteScore(r)
  <2> DEFINE left == request[r].left \ {Max(request[r].left)}
             q == [request[r] EXCEPT !.left = left, !.pc = IF left = {} THEN "reply" ELSE @,
                                     !.listed = IF left = {} THEN None ELSE @]
  <2>1. q.pc \in {"reply", request[r].pc} /\ request[r].pc = "scores"
    BY <1>7, <1>a DEF Request, WriteScore, ScoreNext
  <2>2. UNCHANGED <<stored, session, nextId, sent, pressed>>
    BY <1>7 DEF WriteScore, ScoreNext, RequestFrame
  <2>3. Fail(r) \/ request' = [request EXCEPT ![r] = q]
    BY <1>7 DEF WriteScore, ScoreNext
  <2> HIDE DEF q
  <2> QED BY <2>1, <2>2, <2>3, <1>b, <1>c
<1>8. CASE Reply(r)
  <2> DEFINE q == [request[r] EXCEPT !.pc = "done"]
  <2>1. q.pc = "done"
    BY <1>a DEF Request
  <2>2. UNCHANGED <<stored, session, nextId, sent, pressed>>
    BY <1>8 DEF Reply, RequestFrame, table
  <2>3. Fail(r) \/ request' = [request EXCEPT ![r] = q]
    BY <1>8 DEF Reply, Go
  <2> HIDE DEF q
  <2> QED BY <2>1, <2>2, <2>3, <1>b, <1>c
<1> QED BY <1>1, <1>2, <1>3, <1>4, <1>5, <1>6, <1>7, <1>8 DEF Serve

-----------------------------------------------------------------------------
(* Sessions: what a row holds, and what a report is about to write there.  *)

IdsDiffer ==
    /\ \A t \in Tokens : session[t] # None =>
        /\ session[t].video \in stored /\ session[t].id \in 1..nextId - 1
        /\ session[t].position <= session[t].maxPosition
    /\ \A t, u \in Tokens :
        session[t] # None /\ session[u] # None /\ session[t].id = session[u].id => t = u

Earned(s) == s.valid <=> 10 * s.seconds >= Duration
AllEarned ==
    /\ \A t \in Tokens : session[t] # None => Earned(session[t])
    /\ \A r \in Requests : request[r].pc = "update" => Earned(request[r].read)

\* Seconds are counted as reported before the request reads or writes anything.
Covered(q) ==
    /\ q.pc = "create" => q.report.delta <= sent[q.token]
    /\ q.pc = "update" => q.read.seconds + q.report.delta <= sent[q.token]
NoneInvented ==
    /\ \A t \in Tokens : session[t] # None => session[t].seconds <= sent[t]
    /\ \A r \in Requests : Covered(request[r])

SessionInv == IdsDiffer /\ AllEarned /\ NoneInvented

LEMMA SessionServe ==
    ASSUME TypeInv, SessionInv, NEW r \in Requests, Serve(r)
    PROVE  SessionInv'
<1> USE DEF SessionInv
<1>a. /\ session \in [Tokens -> SessionRow \cup {None}] /\ nextId \in Nat \ {0}
      /\ sent \in [Tokens -> Nat] /\ request \in [Requests -> Request]
      /\ stored \subseteq Videos
  BY DEF TypeInv, TableType, RequestType
<1>b. \A q \in Requests : Holds(request[q])
  BY DEF TypeInv, RequestType
<1>1. CASE Begins(r)
  <2>1. PICK v \in stored, t \in Tokens, report \in Reports :
          /\ request'[r].pc = "create" => session[t] = None
          /\ request'[r].pc = "update" => session[t] # None
          /\ request'[r].token = t
          /\ request'[r].report = report /\ request'[r].read = session[t]
          /\ \A q \in Requests \ {r} :
              \/ request'[q] = [request[q] EXCEPT !.alone = FALSE]
              \/ request'[q] = Idle
          /\ sent' = [sent EXCEPT ![t] = @ + report.delta]
          /\ UNCHANGED <<stored, session, nextId>>
    BY <1>1 DEF Begins
  <2>2. IdsDiffer'
    BY <2>1 DEF IdsDiffer
  <2>3. report.delta \in Nat
    BY WatchAssumption
  <2>4. \A u \in Tokens : sent'[u] \in Nat /\ sent[u] <= sent'[u]
    BY <1>a, <2>1, <2>3
  <2>5. sent'[t] = sent[t] + report.delta
    BY <1>a, <2>1
  <2>6. ASSUME NEW q \in Requests \ {r}
        PROVE  /\ request'[q].pc \in {"create", "update"} =>
                    /\ request'[q].pc = request[q].pc /\ request'[q].token = request[q].token
                    /\ request'[q].report = request[q].report /\ request'[q].read = request[q].read
    <3>1. CASE request'[q] = [request[q] EXCEPT !.alone = FALSE]
      <4>1. request[q] \in Request
        BY <1>a
      <4> QED BY <3>1, <4>1 DEF Request
    <3>2. CASE request'[q] = Idle
      BY <3>2 DEF Idle
    <3> QED BY <2>1, <3>1, <3>2
  <2>7. AllEarned'
    BY <2>1, <2>6 DEF AllEarned
  <2>8. \A u \in Tokens : session[u] # None => session[u].seconds \in Nat
    BY <1>a DEF SessionRow
  <2>9. NoneInvented'
    <3>1. \A u \in Tokens : session'[u] # None => session'[u].seconds <= sent'[u]
      BY <1>a, <2>1, <2>4, <2>8 DEF NoneInvented
    <3>2. Covered(request[r])'
      <4>1. CASE request'[r].pc = "create"
        BY <1>a, <2>1, <2>3, <2>5, <4>1 DEF Covered
      <4>2. CASE request'[r].pc = "update"
        BY <1>a, <2>1, <2>3, <2>5, <2>8, <4>2 DEF Covered, NoneInvented
      <4> QED BY <4>1, <4>2 DEF Covered
    <3>3. ASSUME NEW q \in Requests \ {r} PROVE Covered(request[q])'
      <4>1. CASE request'[q].pc = "create"
        <5>1. /\ request[q].token \in Tokens /\ request[q].report.delta \in Nat
              /\ request[q].report.delta <= sent[request[q].token]
          BY <1>b, <2>6, <4>1, WatchAssumption DEF Holds, NoneInvented, Covered
        <5> QED BY <1>a, <2>4, <2>6, <4>1, <5>1 DEF Covered
      <4>2. CASE request'[q].pc = "update"
        <5>1. /\ request[q].token \in Tokens /\ request[q].report.delta \in Nat
              /\ request[q].read.seconds \in Nat
              /\ request[q].read.seconds + request[q].report.delta <= sent[request[q].token]
          BY <1>b, <2>6, <4>2, WatchAssumption DEF Holds, NoneInvented, Covered, SessionRow
        <5> QED BY <1>a, <2>4, <2>6, <4>2, <5>1 DEF Covered
      <4> QED BY <4>1, <4>2 DEF Covered
    <3> QED BY <3>1, <3>2, <3>3 DEF NoneInvented
  <2> QED BY <2>2, <2>7, <2>9
<1>2. CASE Creates(r)
  <2> DEFINE t == request[r].token
             new == NewSession(r)
  <2>1. /\ t \in Tokens /\ session[t] = None /\ request[r].video \in stored
        /\ session' = [session EXCEPT ![t] = new] /\ nextId' = nextId + 1
        /\ request' = [request EXCEPT ![r] = [request[r] EXCEPT !.pc = "update", !.read = new]]
        /\ UNCHANGED <<stored, sent>> /\ request[r].pc = "create"
    BY <1>2 DEF Creates
  <2>2. /\ new.id = nextId /\ new.video = request[r].video /\ new.seconds = 0
        /\ new.position = 0 /\ new.maxPosition = 0 /\ new.valid = FALSE
    BY DEF NewSession
  <2> HIDE DEF new
  <2>3. /\ request'[r].pc = "update" /\ request'[r].read = new
        /\ request'[r].token = t /\ request'[r].report = request[r].report
        /\ \A q \in Requests \ {r} : request'[q] = request[q]
    BY <1>a, <2>1 DEF Request
  <2>4. \A u \in Tokens : session'[u] = IF u = t THEN new ELSE session[u]
    BY <1>a, <2>1
  <2>5. Earned(new)
    BY <2>2, WatchAssumption DEF Earned
  <2>6. IdsDiffer'
    BY <1>a, <2>1, <2>2, <2>4 DEF IdsDiffer
  <2>7. AllEarned'
    BY <2>3, <2>4, <2>5 DEF AllEarned
  <2>8. NoneInvented'
    <3>1. /\ request[r].report.delta \in Nat /\ sent[t] \in Nat
          /\ request[r].report.delta <= sent[t]
      BY <1>a, <1>b, <2>1, WatchAssumption DEF Holds, NoneInvented, Covered
    <3>2. Covered(request[r])'
      BY <2>1, <2>2, <2>3, <3>1 DEF Covered
    <3>3. \A q \in Requests \ {r} : Covered(request[q])'
      BY <2>1, <2>3 DEF NoneInvented, Covered
    <3>4. ASSUME NEW u \in Tokens, session'[u] # None PROVE session'[u].seconds <= sent[u]
      <4>1. CASE u = t
        BY <2>2, <2>4, <3>1, <4>1
      <4>2. CASE u # t
        BY <2>4, <3>4, <4>2 DEF NoneInvented
      <4> QED BY <4>1, <4>2
    <3> QED BY <2>1, <3>2, <3>3, <3>4 DEF NoneInvented
  <2> QED BY <2>6, <2>7, <2>8
<1>3. CASE Updates(r)
  <2> DEFINE t == request[r].token
             new == Updated(r)
  <2>1. /\ t \in Tokens /\ session[t] # None /\ request[r].pc = "update"
        /\ session' = [session EXCEPT ![t] = new]
        /\ request' = [request EXCEPT ![r] = [request[r] EXCEPT !.pc = "list", !.token = None,
                                                               !.report = None, !.read = None]]
        /\ UNCHANGED <<stored, nextId, sent>>
    BY <1>3 DEF Updates
  <2>2. /\ new \in SessionRow /\ new.id = session[t].id /\ new.video = session[t].video
        /\ new.position <= new.maxPosition
        /\ new.seconds = request[r].read.seconds + request[r].report.delta
        /\ new.valid = (request[r].read.valid \/ 10 * new.seconds >= Duration)
    BY <2>1, UpdatedType
  <2> HIDE DEF new
  <2>3. request'[r].pc = "list" /\ \A q \in Requests \ {r} : request'[q] = request[q]
    BY <1>a, <2>1 DEF Request
  <2>4. \A u \in Tokens : session'[u] = IF u = t THEN new ELSE session[u]
    BY <1>a, <2>1
  <2>5. Earned(new)
    <3>1. Earned(request[r].read)
      BY <2>1 DEF AllEarned
    <3>2. /\ request[r].read.seconds \in Nat /\ request[r].report.delta \in Nat
          /\ Duration \in Nat /\ request[r].read.valid \in BOOLEAN
      BY <1>b, <2>1, WatchAssumption DEF Holds, SessionRow
    <3>3. 10 * request[r].read.seconds >= Duration => 10 * new.seconds >= Duration
      BY <2>2, <3>2
    <3>4. new.valid <=> (request[r].read.valid \/ 10 * new.seconds >= Duration)
      BY <2>2, Zenon
    <3> QED BY <3>1, <3>3, <3>4, Zenon DEF Earned
  <2>6. IdsDiffer'
    BY <2>1, <2>2, <2>4 DEF IdsDiffer
  <2>7. AllEarned'
    BY <2>3, <2>4, <2>5 DEF AllEarned
  <2>8. NoneInvented'
    <3>1. new.seconds <= sent[t]
      BY <2>1, <2>2 DEF NoneInvented, Covered
    <3>2. Covered(request[r])'
      BY <2>3 DEF Covered
    <3>3. \A q \in Requests \ {r} : Covered(request[q])'
      BY <2>1, <2>3 DEF NoneInvented, Covered
    <3> QED BY <2>1, <2>4, <3>1, <3>2, <3>3 DEF NoneInvented
  <2> QED BY <2>6, <2>7, <2>8
<1>4. CASE Passes(r)
  <2>1. PICK q \in Request : /\ q.pc \notin {"create", "update"}
                            /\ request' = [request EXCEPT ![r] = q]
    BY <1>4 DEF Passes
  <2>2. UNCHANGED <<stored, session, nextId, sent>>
    BY <1>4 DEF Passes
  <2>3. \A u \in Requests : request'[u] = IF u = r THEN q ELSE request[u]
    BY <1>a, <2>1
  <2> QED BY <2>1, <2>2, <2>3 DEF IdsDiffer, AllEarned, NoneInvented, Covered
<1> QED BY <1>1, <1>2, <1>3, <1>4, ServeDoes

LEMMA SessionStep ==
    ASSUME TypeInv, SessionInv, [Next]_vars
    PROVE  SessionInv'
<1> USE DEF SessionInv
<1>1. ASSUME NEW r \in Requests, Serve(r) PROVE SessionInv'
  BY <1>1, SessionServe
<1>2. CASE (\E v \in Liked : Like(v)) \/ Tick \/ UNCHANGED vars
  <2>1. UNCHANGED <<stored, session, nextId, request, sent>>
    BY <1>2 DEF Like, Tick, table, vars
  <2> QED BY <2>1 DEF IdsDiffer, AllEarned, NoneInvented, Covered
<1>3. ASSUME NEW v \in Videos, Delete(v) PROVE SessionInv'
  <2>1. /\ UNCHANGED <<nextId, request, sent>> /\ stored' = stored \ {v}
        /\ session' = [t \in Tokens |-> IF session[t] \in SessionsOf(v) THEN None ELSE session[t]]
    BY <1>3 DEF Delete
  <2>2. \A t \in Tokens : session'[t] # None =>
          session'[t] = session[t] /\ session[t] # None /\ session[t].video # v
    BY <2>1, DeleteLeaves DEF TypeInv
  <2> QED BY <2>1, <2>2 DEF IdsDiffer, AllEarned, NoneInvented, Covered
<1>4. CASE Restart
  <2>1. UNCHANGED <<stored, session, nextId, sent>> /\ \A r \in Requests : request'[r] = Idle
    BY <1>4 DEF Restart, table
  <2>2. Idle.pc = "idle"
    BY DEF Idle
  <2> QED BY <2>1, <2>2 DEF IdsDiffer, AllEarned, NoneInvented, Covered
<1> QED BY <1>1, <1>2, <1>3, <1>4 DEF Next

LEMMA SessionInit == Init => SessionInv
BY DEF Init, SessionInv, IdsDiffer, AllEarned, NoneInvented, Covered, Idle

\* Whatever requests overlap and whenever the process stops, the rows and the requests
\* keep their types.
THEOREM WatchAlwaysInv == Spec => [](TypeInv /\ SessionInv)
<1>1. TypeInv /\ SessionInv /\ [Next]_vars => (TypeInv /\ SessionInv)'
  BY TypeStep, SessionStep
<1> QED BY <1>1, TypeInit, SessionInit, PTL DEF Spec

\* The like count keeps its bounds, sessions are told apart by their ids and belong to
\* stored videos, and no row counts more plays or bounces than sessions
\* (recalculate_video_analytics), for any number of videos, sessions and requests.
THEOREM WatchTypeCorrect == Spec => []TypeOK
<1>1. TypeInv /\ SessionInv => TypeOK
  <2> SUFFICES ASSUME TypeInv, SessionInv PROVE TypeOK
    OBVIOUS
  <2>1. stored \subseteq Videos /\ \A v \in Videos : row[v] \in VideoRow
    BY DEF TypeInv, TableType
  <2>2. \A v \in Videos : row[v].likes \in 0..LikeBound /\ row[v].score \in 0..2
    BY <2>1 DEF VideoRow
  <2>3. \A a \in Rows : {a.plays, a.bounces} \subseteq 0..a.sessions
    BY <2>1, AnalyticsCount DEF Rows, VideoRow
  <2>4. \A t, u \in Tokens : session[t] # None /\ session[t] = session[u] => t = u
    BY DEF SessionInv, IdsDiffer
  <2>5. \A r \in Requests : request[r].pc \in RequestPc
    BY DEF TypeInv, RequestType, Request
  <2> QED BY <2>1, <2>2, <2>3, <2>4, <2>5 DEF TypeOK, SessionInv, IdsDiffer, RequestPc
<1> QED BY <1>1, WatchAlwaysInv, PTL

\* However reports of one session overwrite each other (record_watch_heartbeat), the
\* session counts as a play exactly when the seconds it holds are a tenth of the video.
THEOREM WatchPlayIsEarned == Spec => []PlayIsEarned
<1>1. SessionInv => PlayIsEarned
  BY DEF SessionInv, AllEarned, Earned, PlayIsEarned
<1> QED BY <1>1, WatchAlwaysInv, PTL

-----------------------------------------------------------------------------
(* Likes.                                                                  *)

LikesInv == pressed \in [Videos -> Int] /\ \A v \in Videos : row[v].likes = pressed[v]

\* No step of a report changes the like count of a row.
LEMMA ServeKeepsLikes ==
    ASSUME TypeInv, NEW r \in Requests, Serve(r)
    PROVE  UNCHANGED pressed /\ \A v \in Videos : row'[v].likes = row[v].likes
<1>a. row \in [Videos -> VideoRow] /\ stored \subseteq Videos
  BY DEF TypeInv, TableType
<1>1. UNCHANGED pressed
  BY ServeDoes DEF Begins, Creates, Updates, Passes
<1>2. CASE WriteAnalytics(r)
  <2>1. CASE UNCHANGED row
    BY <1>1, <2>1
  <2>2. CASE row' = [row EXCEPT ![request[r].video].analytics = request[r].computed]
    BY <1>a, <1>1, <2>2 DEF VideoRow
  <2> QED BY <1>1, <1>2, <2>1, <2>2 DEF WriteAnalytics
<1>3. CASE WriteScore(r)
  <2> DEFINE m == Max(request[r].left)
             new == [Scored(r, m) EXCEPT !.likes = row[m].likes]
  <2>1. CASE UNCHANGED row
    BY <1>1, <2>1
  <2>2. CASE m \in stored /\ row' = [row EXCEPT ![m] = new] /\ request[r].pc = "scores"
    <3>1. request[r].listed \in [Videos -> VideoRow] /\ m \in Videos
      BY <1>a, <2>2 DEF TypeInv, RequestType, Holds
    <3>2. new.likes = row[m].likes
      BY <3>1 DEF Scored, VideoRow
    <3> HIDE DEF new, m
    <3>3. \A v \in Videos : row'[v] = IF v = m THEN new ELSE row[v]
      BY <1>a, <2>2, <3>1
    <3> QED BY <1>1, <3>2, <3>3
  <2> QED BY <1>3, <2>1, <2>2 DEF WriteScore, ScoreNext
<1>4. CASE Begin(r) \/ Create(r) \/ Update(r) \/ ListSessions(r) \/ ListVideos(r) \/ Reply(r)
  <2>1. UNCHANGED row
    BY <1>4, BeginBegins DEF Begins, Create, Update, ListSessions, ListVideos, Reply, table
  <2> QED BY <1>1, <2>1
<1> QED BY <1>2, <1>3, <1>4 DEF Serve

LEMMA LikesStep ==
    ASSUME TypeInv, LikesInv, [Next]_vars
    PROVE  LikesInv'
<1> USE DEF LikesInv
<1>a. row \in [Videos -> VideoRow]
  BY DEF TypeInv, TableType
<1>1. ASSUME NEW r \in Requests, Serve(r) PROVE LikesInv'
  BY <1>1, ServeKeepsLikes
<1>2. ASSUME NEW v \in Liked, Like(v) PROVE LikesInv'
  <2>1. PICK d \in {-1, 1} : /\ row' = [row EXCEPT ![v].likes = Clamped(@ + d)]
                            /\ pressed' = [pressed EXCEPT ![v] = Clamped(@ + d)]
    BY <1>2 DEF Like
  <2>2. v \in Videos
    BY WatchAssumption
  <2>3. row'[v].likes = Clamped(row[v].likes + d)
    BY <1>a, <2>1, <2>2 DEF VideoRow
  <2>4. \A u \in Videos \ {v} : row'[u] = row[u] /\ pressed'[u] = pressed[u]
    BY <1>a, <2>1, <2>2
  <2>5. pressed'[v] = Clamped(pressed[v] + d) /\ Clamped(pressed[v] + d) \in Int
    <3>1. pressed[v] + d \in Int /\ LikeBound \in Nat
      BY <2>2, WatchAssumption
    <3>2. Clamped(pressed[v] + d) \in 0..LikeBound
      BY <3>1, ClampedType
    <3> QED BY <2>1, <2>2, <3>1, <3>2
  <2>6. pressed' \in [Videos -> Int]
    BY <2>1, <2>5
  <2> QED BY <2>2, <2>3, <2>4, <2>5, <2>6
<1>3. ASSUME NEW v \in Videos, Delete(v) PROVE LikesInv'
  <2>1. row' = [row EXCEPT ![v] = NewRow] /\ pressed' = [pressed EXCEPT ![v] = 0]
    BY <1>3 DEF Delete
  <2>2. NewRow.likes = 0
    BY DEF NewRow
  <2>3. \A u \in Videos : row'[u] = IF u = v THEN NewRow ELSE row[u]
    BY <1>a, <2>1
  <2> QED BY <2>1, <2>2, <2>3
<1>4. CASE Restart \/ Tick \/ UNCHANGED vars
  <2>1. UNCHANGED <<row, pressed>>
    BY <1>4 DEF Restart, Tick, table, vars
  <2> QED BY <2>1
<1> QED BY <1>1, <1>2, <1>3, <1>4 DEF Next

\* A report that is computed while the like buttons are pressed brings back no older
\* count, however many reports are computed at once (update_video_analytics,
\* increment_video_like_count).
THEOREM WatchLikesAreKept == Spec => []LikesAreKept
<1>1. Init => LikesInv
  BY DEF Init, LikesInv, NewRow
<1>2. TypeInv /\ LikesInv /\ [Next]_vars => LikesInv'
  BY LikesStep
<1>3. TypeInv /\ LikesInv => LikesAreKept
  BY DEF TypeInv, TableType, LikesInv, LikesAreKept
<1>4. Spec => []TypeInv
  BY TypeInit, TypeStep, PTL DEF Spec
<1> QED BY <1>1, <1>2, <1>3, <1>4, PTL DEF Spec

-----------------------------------------------------------------------------
(* A report that no other overlapped.                                      *)

\* What is computed and written at each step of such a report for its video.
ExactAt(q, v) ==
    LET a == Analytics(SessionsOf(v)) IN
    /\ q.pc = "write" => q.computed = a
    /\ q.pc \in {"refresh", "scores", "reply", "done"} => row[v].analytics = a
    /\ q.pc = "scores" => /\ q.listed[v].analytics = a
                          /\ v \in q.left \/ row[v].score = Novelty(a.plays)
    /\ q.pc \in {"reply", "done"} => row[v].score = Novelty(a.plays)

AloneOK(r) ==
    /\ \A q \in Requests \ {r} : ~Serving(q)
    /\ \A v \in stored : v = request[r].video => ExactAt(request[r], v)

AloneInv == \A r \in Requests : request[r].alone /\ request[r].pc # "idle" => AloneOK(r)

LEMMA SameSessions ==
    ASSUME NEW v, UNCHANGED session
    PROVE  SessionsOf(v)' = SessionsOf(v)
BY DEF SessionsOf

\* Only the thread itself can disturb a report that is alone.
LEMMA AloneSelf ==
    ASSUME TypeInv, AloneInv, NEW r \in Requests, Serving(r), stored' = stored, NEW new \in Request,
           request' = [request EXCEPT ![r] = new], new.alone => request[r].alone \/ new.pc = "idle",
           new.pc # "idle" => new.video = request[r].video,
           \A v \in stored : v = request[r].video /\ request[r].alone /\ new.pc # "idle" =>
             (ExactAt(request[r], v) => ExactAt(request[r], v)')
    PROVE  AloneInv'
<1>a. request \in [Requests -> Request]
  BY DEF TypeInv, RequestType
<1>1. \A u \in Requests : request'[u] = IF u = r THEN new ELSE request[u]
  BY <1>a
<1> SUFFICES ASSUME NEW u \in Requests, request'[u].alone, request'[u].pc # "idle"
             PROVE  AloneOK(u)'
  BY DEF AloneInv
<1>2. CASE u # r
  <2>1. ~Serving(r)
    BY <1>1, <1>2 DEF AloneInv, AloneOK
  <2> QED BY <2>1
<1>3. CASE u = r
  <2>1. request[r].alone /\ request[r].pc # "idle" /\ new.pc # "idle"
    BY <1>1, <1>3 DEF Serving
  <2>2. AloneOK(r)
    BY <2>1 DEF AloneInv
  <2>3. \A q \in Requests \ {r} : ~Serving(q)'
    BY <1>1, <2>2 DEF AloneOK, Serving
  <2>4. \A v \in stored : v = new.video => ExactAt(request[r], v)'
    BY <2>1, <2>2 DEF AloneOK
  <2>5. AloneOK(r)'
    BY <1>1, <2>3, <2>4 DEF AloneOK
  <2> QED BY <1>3, <2>5
<1> QED BY <1>2, <1>3

LEMMA AloneServe ==
    ASSUME TypeInv, AloneInv, NEW r \in Requests, Serve(r)
    PROVE  AloneInv'
<1>a. /\ request \in [Requests -> Request] /\ Holds(request[r])
      /\ row \in [Videos -> VideoRow] /\ stored \subseteq Videos
  BY DEF TypeInv, RequestType, TableType
<1>b. request[r] \in Request
  BY <1>a
<1>c. ASSUME Serving(r), Fail(r), UNCHANGED stored PROVE AloneInv'
  BY <1>c, AloneSelf, IdleType DEF Fail, Idle
<1>1. CASE Begin(r)
  <2>1. /\ request'[r].alone => \A q \in Requests \ {r} : ~Serving(q)
        /\ request'[r].pc \in {"create", "update"}
        /\ \A q \in Requests \ {r} :
            \/ request'[q] = [request[q] EXCEPT !.alone = FALSE] /\ Serving(q)
            \/ request'[q] = Idle /\ ~Serving(q)
    BY <1>1, BeginBegins DEF Begins
  <2>2. ASSUME NEW u \in Requests \ {r}
        PROVE  /\ ~(request'[u].alone /\ request'[u].pc # "idle")
               /\ ~Serving(u) => ~Serving(u)'
    <3>1. request[u] \in Request
      BY <1>a
    <3>2. [request[u] EXCEPT !.alone = FALSE].alone = FALSE
      BY <3>1 DEF Request
    <3>3. CASE Serving(u)
      <4>1. request'[u].alone = FALSE
        BY <2>1, <3>2, <3>3
      <4> QED BY <3>3, <4>1
    <3>4. CASE ~Serving(u)
      <4>1. request'[u] = Idle
        BY <2>1, <3>4
      <4>2. request'[u].pc = "idle"
        BY <4>1 DEF Idle
      <4> QED BY <4>2 DEF Serving
    <3> QED BY <3>3, <3>4
  <2>3. request'[r].alone => AloneOK(r)'
    BY <2>1, <2>2 DEF AloneOK, ExactAt
  <2> QED BY <2>2, <2>3 DEF AloneInv
<1>2. CASE Create(r)
  <2>1. Serving(r) /\ UNCHANGED stored
    BY <1>2 DEF Create, Serving
  <2>2. CASE Fail(r)
    BY <2>1, <2>2, <1>c
  <2>3. CASE Creates(r)
    <3> DEFINE new == [request[r] EXCEPT !.pc = "update", !.read = NewSession(r)]
    <3>1. /\ request' = [request EXCEPT ![r] = new] /\ new.pc = "update"
          /\ new.alone = request[r].alone /\ new.video = request[r].video
      BY <2>3, <1>b DEF Creates, Request
    <3>2. request'[r] = new
      BY <1>a, <3>1
    <3>3. new \in Request
      BY <3>2, <1>2, ServeType DEF TypeInv, RequestType, Serve
    <3> HIDE DEF new
    <3>4. \A v : ExactAt(request[r], v)'
      BY <3>1, <3>2 DEF ExactAt
    <3> QED BY <2>1, <3>1, <3>3, <3>4, AloneSelf
  <2> QED BY <1>2, <2>2, <2>3, <1>a DEF Create, Creates, NewSession, Holds, RequestFrame
<1>3. CASE Update(r)
  <2>1. Serving(r) /\ UNCHANGED stored
    BY <1>3 DEF Update, Serving
  <2>2. CASE Fail(r)
    BY <2>1, <2>2, <1>c
  <2>3. CASE Forget(r, "list")
    <3> DEFINE new == [request[r] EXCEPT !.pc = "list", !.token = None, !.report = None,
                                         !.read = None]
    <3>1. /\ request' = [request EXCEPT ![r] = new] /\ new.pc = "list"
          /\ new.alone = request[r].alone /\ new.video = request[r].video
      BY <2>3, <1>b DEF Forget, Request
    <3>2. request'[r] = new
      BY <1>a, <3>1
    <3>3. new \in Request
      BY <3>2, <1>3, ServeType DEF TypeInv, RequestType, Serve
    <3> HIDE DEF new
    <3>4. \A v : ExactAt(request[r], v)'
      BY <3>1, <3>2 DEF ExactAt
    <3> QED BY <2>1, <3>1, <3>3, <3>4, AloneSelf
  <2> QED BY <1>3, <2>2, <2>3 DEF Update
<1>4. CASE ListSessions(r)
  <2>1. Serving(r) /\ UNCHANGED <<stored, session, row>>
    BY <1>4 DEF ListSessions, Serving, table
  <2>2. CASE Fail(r)
    BY <2>1, <2>2, <1>c
  <2>3. CASE ~Fail(r)
    <3> DEFINE new == [request[r] EXCEPT !.pc = "write",
                                         !.computed = Analytics(SessionsOf(request[r].video))]
    <3>1. /\ request' = [request EXCEPT ![r] = new] /\ new.pc = "write"
          /\ new.alone = request[r].alone /\ new.video = request[r].video
          /\ new.computed = Analytics(SessionsOf(request[r].video))
      BY <1>4, <2>3, <1>b DEF ListSessions, Request
    <3>2. request'[r] = new
      BY <1>a, <3>1
    <3>3. new \in Request
      BY <3>2, <1>4, ServeType DEF TypeInv, RequestType, Serve
    <3> HIDE DEF new
    <3>4. ASSUME NEW v \in stored, v = request[r].video PROVE ExactAt(request[r], v)'
      BY <2>1, <3>1, <3>2, <3>4, SameSessions DEF ExactAt
    <3> QED BY <2>1, <3>1, <3>3, <3>4, AloneSelf
  <2> QED BY <2>2, <2>3
<1>5. CASE WriteAnalytics(r)
  <2>1. Serving(r) /\ UNCHANGED <<stored, session>> /\ request[r].pc = "write"
    BY <1>5 DEF WriteAnalytics, Serving
  <2>2. CASE Fail(r)
    BY <2>1, <2>2, <1>c
  <2>3. CASE ~Fail(r)
    <3> DEFINE new == [request[r] EXCEPT !.pc = "refresh", !.computed = None]
    <3>1. /\ request' = [request EXCEPT ![r] = new] /\ new.pc = "refresh"
          /\ new.alone = request[r].alone /\ new.video = request[r].video
      BY <1>5, <2>3, <1>b DEF WriteAnalytics, Request
    <3>2. request'[r] = new
      BY <1>a, <3>1
    <3>3. new \in Request
      BY <3>2, <1>5, ServeType DEF TypeInv, RequestType, Serve
    <3> HIDE DEF new
    <3>4. ASSUME NEW v \in stored, v = request[r].video, ExactAt(request[r], v)
          PROVE  ExactAt(request[r], v)'
      <4>1. row'[v].analytics = request[r].computed
        BY <1>5, <2>3, <3>4, <1>a DEF WriteAnalytics, VideoRow
      <4>2. request[r].computed = Analytics(SessionsOf(v))
        BY <2>1, <3>4 DEF ExactAt
      <4> QED BY <2>1, <3>1, <3>2, <4>1, <4>2, SameSessions DEF ExactAt
    <3> QED BY <2>1, <3>1, <3>3, <3>4, AloneSelf
  <2> QED BY <2>2, <2>3
<1>6. CASE ListVideos(r)
  <2>1. Serving(r) /\ UNCHANGED <<stored, session, row>> /\ request[r].pc = "refresh"
    BY <1>6 DEF ListVideos, Serving, table
  <2> DEFINE new == [request[r] EXCEPT !.pc = IF stored = {} THEN "reply" ELSE "scores",
                                       !.listed = row, !.left = stored]
  <2>2. /\ request' = [request EXCEPT ![r] = new]
        /\ new.pc = IF stored = {} THEN "reply" ELSE "scores"
        /\ new.alone = request[r].alone /\ new.video = request[r].video
        /\ new.listed = row /\ new.left = stored
    BY <1>6, <1>b DEF ListVideos, Request
  <2>3. request'[r] = new
    BY <1>a, <2>2
  <2>4. new \in Request
    BY <2>3, <1>6, ServeType DEF TypeInv, RequestType, Serve
  <2> HIDE DEF new
  <2>5. ASSUME NEW v \in stored, v = request[r].video, ExactAt(request[r], v)
        PROVE  ExactAt(request[r], v)'
    BY <2>1, <2>2, <2>3, <2>5, SameSessions DEF ExactAt
  <2> QED BY <2>1, <2>2, <2>4, <2>5, AloneSelf
<1>7. CASE WriteScore(r)
  <2>1. Serving(r) /\ UNCHANGED <<stored, session>> /\ request[r].pc = "scores"
    BY <1>7 DEF WriteScore, ScoreNext, Serving
  <2>2. CASE Fail(r)
    BY <2>1, <2>2, <1>c
  <2>3. CASE ~Fail(r)
    <3> DEFINE m == Max(request[r].left)
               left == request[r].left \ {m}
               score == [Scored(r, m) EXCEPT !.likes = row[m].likes]
               new == [request[r] EXCEPT !.left = left, !.pc = IF left = {} THEN "reply" ELSE @,
                                         !.listed = IF left = {} THEN None ELSE @]
    <3>1. /\ request' = [request EXCEPT ![r] = new] /\ m \in stored
          /\ row' = [row EXCEPT ![m] = score]
      BY <1>7, <2>3 DEF WriteScore, ScoreNext
    <3>2. /\ new.pc = IF left = {} THEN "reply" ELSE "scores"
          /\ new.alone = request[r].alone /\ new.video = request[r].video
          /\ new.listed = (IF left = {} THEN None ELSE request[r].listed) /\ new.left = left
      BY <2>1, <1>b DEF Request
    <3>3. request'[r] = new
      BY <1>a, <3>1
    <3>4. new \in Request
      BY <3>3, <1>7, ServeType DEF TypeInv, RequestType, Serve
    <3>5. /\ score.analytics = request[r].listed[m].analytics
          /\ score.score = Novelty(request[r].listed[m].analytics.plays)
      <4>1. request[r].listed[m] \in VideoRow
        BY <2>1, <3>1, <1>a DEF Holds
      <4> QED BY <4>1 DEF Scored, VideoRow
    <3> HIDE DEF new, m, score
    <3>6. \A v \in Videos : row'[v] = IF v = m THEN score ELSE row[v]
      BY <1>a, <3>1
    <3>7. ASSUME NEW v \in stored, v = request[r].video, ExactAt(request[r], v)
          PROVE  ExactAt(request[r], v)'
      <4> DEFINE a == Analytics(SessionsOf(v))
      <4>1. /\ row[v].analytics = a /\ request[r].listed[v].analytics = a
            /\ v \in request[r].left \/ row[v].score = Novelty(a.plays)
        BY <2>1, <3>7 DEF ExactAt
      <4> HIDE DEF a
      <4>2. row'[v].analytics = a
        BY <3>5, <3>6, <4>1, <1>a
      <4>3. v \in left \/ row'[v].score = Novelty(a.plays)
        BY <3>5, <3>6, <4>1, <1>a
      <4>4. a' = a
        BY <2>1, SameSessions DEF a
      <4> QED BY <3>2, <3>3, <4>1, <4>2, <4>3, <4>4 DEF ExactAt, a
    <3> QED BY <2>1, <3>1, <3>2, <3>4, <3>7, AloneSelf
  <2> QED BY <2>2, <2>3
<1>8. CASE Reply(r)
  <2>1. Serving(r) /\ UNCHANGED <<stored, session, row>> /\ request[r].pc = "reply"
    BY <1>8 DEF Reply, Serving, table
  <2>2. CASE Fail(r)
    BY <2>1, <2>2, <1>c
  <2>3. CASE Go(r, "done")
    <3> DEFINE new == [request[r] EXCEPT !.pc = "done"]
    <3>1. /\ request' = [request EXCEPT ![r] = new] /\ new.pc = "done"
          /\ new.alone = request[r].alone /\ new.video = request[r].video
      BY <2>3, <1>b DEF Go, Request
    <3>2. request'[r] = new
      BY <1>a, <3>1
    <3>3. new \in Request
      BY <3>2, <1>8, ServeType DEF TypeInv, RequestType, Serve
    <3> HIDE DEF new
    <3>4. ASSUME NEW v \in stored, ExactAt(request[r], v) PROVE ExactAt(request[r], v)'
      BY <2>1, <3>1, <3>2, <3>4, SameSessions DEF ExactAt
    <3> QED BY <2>1, <3>1, <3>3, <3>4, AloneSelf
  <2> QED BY <1>8, <2>2, <2>3 DEF Reply
<1> QED BY <1>1, <1>2, <1>3, <1>4, <1>5, <1>6, <1>7, <1>8 DEF Serve

LEMMA AloneStep ==
    ASSUME TypeInv, AloneInv, [Next]_vars
    PROVE  AloneInv'
<1>a. row \in [Videos -> VideoRow]
  BY DEF TypeInv, TableType
<1>1. ASSUME NEW r \in Requests, Serve(r) PROVE AloneInv'
  BY <1>1, AloneServe
<1>2. ASSUME UNCHANGED <<session, request>>, stored' \subseteq stored,
             \A v \in stored' : /\ row'[v].analytics = row[v].analytics
                                /\ row'[v].score = row[v].score
      PROVE  AloneInv'
  <2>1. ASSUME NEW r \in Requests, NEW v \in stored', ExactAt(request[r], v)
        PROVE  ExactAt(request[r], v)'
    BY <1>2, <2>1, SameSessions DEF ExactAt
  <2> QED BY <1>2, <2>1 DEF AloneInv, AloneOK, Serving
<1>3. ASSUME NEW v \in Liked, Like(v) PROVE AloneInv'
  <2>1. PICK d \in {-1, 1} : row' = [row EXCEPT ![v].likes = Clamped(@ + d)]
    BY <1>3 DEF Like
  <2>2. \A u \in Videos : row'[u].analytics = row[u].analytics /\ row'[u].score = row[u].score
    BY <2>1, <1>a DEF VideoRow
  <2>3. UNCHANGED <<stored, session, request>> /\ stored \subseteq Videos
    BY <1>3 DEF Like, TypeInv, TableType
  <2> QED BY <2>2, <2>3, <1>2
<1>4. ASSUME NEW v \in Videos, Delete(v) PROVE AloneInv'
  <2>1. /\ UNCHANGED request /\ stored' = stored \ {v} /\ row' = [row EXCEPT ![v] = NewRow]
        /\ session' = [t \in Tokens |-> IF session[t] \in SessionsOf(v) THEN None ELSE session[t]]
    BY <1>4 DEF Delete
  <2>2. ASSUME NEW u \in stored' PROVE SessionsOf(u)' = SessionsOf(u)
    <3> DEFINE of == {t \in Tokens : session[t] # None /\ session[t].video = u}
               left == {t \in Tokens : session'[t] # None /\ session'[t].video = u}
    <3>1. u # v
      BY <2>1
    <3>2. left = of /\ \A t \in of : session'[t] = session[t]
      BY <2>1, <3>1, DeleteLeaves DEF TypeInv
    <3>3. {session'[t] : t \in left} = {session[t] : t \in of}
      BY <3>2
    <3> QED BY <3>3 DEF SessionsOf
  <2>3. \A u \in stored' : row'[u] = row[u]
    BY <2>1, <1>a DEF TypeInv, TableType
  <2>4. ASSUME NEW r \in Requests, NEW u \in stored', ExactAt(request[r], u)
        PROVE  ExactAt(request[r], u)'
    BY <2>1, <2>2, <2>3, <2>4 DEF ExactAt
  <2> QED BY <2>1, <2>4 DEF AloneInv, AloneOK, Serving
<1>5. CASE Restart
  <2>1. \A r \in Requests : request'[r] = Idle
    BY <1>5 DEF Restart
  <2> QED BY <2>1 DEF AloneInv, Idle
<1>6. CASE Tick \/ UNCHANGED vars
  <2>1. UNCHANGED <<stored, row, session, request>>
    BY <1>6 DEF Tick, table, vars
  <2> QED BY <2>1, <1>2
<1> QED BY <1>1, <1>3, <1>4, <1>5, <1>6 DEF Next

\* A report that no other overlapped leaves the analytics of its video, and the score
\* made of them, exactly as its sessions say, whatever overlapping reports, stops and
\* deletions before it had left behind (recalculate_video_analytics).
THEOREM WatchAloneIsExact == Spec => []AloneIsExact
<1>1. Init => AloneInv
  BY DEF Init, AloneInv, Idle
<1>2. TypeInv /\ AloneInv /\ [Next]_vars => AloneInv'
  BY AloneStep
<1>3. AloneInv => AloneIsExact
  <2> SUFFICES ASSUME AloneInv, NEW r \in Requests, request[r].pc = "done", request[r].alone,
                      request[r].video \in stored
               PROVE  LET a == row[request[r].video].analytics IN
                      /\ a = Analytics(SessionsOf(request[r].video))
                      /\ row[request[r].video].score = Novelty(a.plays)
    BY DEF AloneIsExact
  <2>1. ExactAt(request[r], request[r].video)
    BY DEF AloneInv, AloneOK
  <2> QED BY <2>1 DEF ExactAt
<1>4. Spec => []TypeInv
  BY TypeInit, TypeStep, PTL DEF Spec
<1> QED BY <1>1, <1>2, <1>3, <1>4, PTL DEF Spec

-----------------------------------------------------------------------------
(* Seconds: the analytics of a video and what was reported for it.         *)

SecondsOf == [s \in SessionRow |-> s.seconds]
Reported(v) == Total(sent, TokensOf(v))

LEMMA SecondsIsTotal ==
    ASSUME NEW S \in SUBSET SessionRow, IsFiniteSet(S)
    PROVE  Analytics(S).seconds = Total(SecondsOf, S)
<1>1. PICK h : IsSum(h, SecondsOf, S)
  BY SumExists
<1>2. \A s \in SUBSET S : s # {} => SecondsOf[Pick(s)] = Pick(s).seconds
  BY PickIn DEF SecondsOf
<1>3. h = [s \in SUBSET S |-> IF s = {} THEN 0 ELSE Pick(s).seconds + h[s \ {Pick(s)}]]
  BY <1>1, <1>2 DEF IsSum
<1>4. Analytics(S).seconds = MapThenSumSet(LAMBDA s : s.seconds, S)
  BY DEF Analytics
<1>5. PICK k : /\ k = [s \in SUBSET S |->
                         IF s = {} THEN 0 ELSE Pick(s).seconds + k[s \ {Pick(s)}]]
               /\ Analytics(S).seconds = k[S]
  BY <1>3, <1>4 DEF MapThenSumSet, MapThenFoldSet, Pick
<1>6. IsSum(k, SecondsOf, S)
  BY <1>2, <1>5 DEF IsSum
<1> QED BY <1>5, <1>6, TotalOfAny

LEMMA ReportedIsSum ==
    ASSUME TypeInv, NEW v
    PROVE  MapThenSumSet(LAMBDA t : sent[t], TokensOf(v)) = Reported(v)
<1> DEFINE T == TokensOf(v)
<1>1. IsFiniteSet(T)
  BY FS_Subset DEF TypeInv, TableType, Present, TokensOf
<1>2. PICK h : IsSum(h, sent, T)
  BY <1>1, SumExists
<1>3. h = [s \in SUBSET T |-> IF s = {} THEN 0 ELSE sent[Pick(s)] + h[s \ {Pick(s)}]]
  BY <1>2 DEF IsSum
<1> HIDE DEF T
<1>4. PICK k : /\ k = [s \in SUBSET T |-> IF s = {} THEN 0 ELSE sent[Pick(s)] + k[s \ {Pick(s)}]]
               /\ MapThenSumSet(LAMBDA t : sent[t], T) = k[T]
  BY <1>3 DEF MapThenSumSet, MapThenFoldSet, Pick
<1>5. IsSum(k, sent, T)
  BY <1>4 DEF IsSum
<1> QED BY <1>1, <1>4, <1>5, TotalOfAny DEF T, Reported

LEMMA ReportedType ==
    ASSUME TypeInv, NEW v
    PROVE  IsFiniteSet(TokensOf(v)) /\ TokensOf(v) \subseteq Tokens /\ Reported(v) \in Nat
<1>1. IsFiniteSet(TokensOf(v)) /\ TokensOf(v) \subseteq Tokens
  BY FS_Subset DEF TypeInv, TableType, Present, TokensOf
<1>2. \A t \in TokensOf(v) : sent[t] \in Nat
  BY <1>1 DEF TypeInv
<1> QED BY <1>1, <1>2, TotalType DEF Reported

\* What is computed of the sessions of a video was reported for them.
LEMMA ComputedIsReported ==
    ASSUME TypeInv, SessionInv, NEW v
    PROVE  /\ Analytics(SessionsOf(v)).seconds \in Nat
           /\ Analytics(SessionsOf(v)).seconds <= Reported(v)
<1> DEFINE T == TokensOf(v)
           f == [t \in T |-> session[t].seconds]
<1>1. IsFiniteSet(T) /\ T \subseteq Tokens
  BY ReportedType
<1>2. SessionsOf(v) = {session[t] : t \in T}
  BY DEF SessionsOf, TokensOf
<1>3. \A t \in T : session[t] \in SessionRow /\ session[t] # None /\ session[t].seconds \in Nat
  <2>1. \A t \in T : session[t] \in SessionRow /\ session[t] # None
    BY DEF TypeInv, TableType, TokensOf
  <2> QED BY <2>1 DEF SessionRow
<1>4. \A t, u \in T : session[t] = session[u] => t = u
  BY <1>1, <1>3 DEF SessionInv, IdsDiffer
<1>5. \A t \in T : SecondsOf[session[t]] \in Nat /\ f[t] = SecondsOf[session[t]]
  BY <1>3 DEF SecondsOf
<1>6. \A t \in T : f[t] \in Nat /\ sent[t] \in Nat /\ f[t] <= sent[t]
  BY <1>1, <1>3 DEF TypeInv, SessionInv, NoneInvented
<1> HIDE DEF T, f
<1>7. Total(SecondsOf, SessionsOf(v)) = Total(f, T)
  BY <1>1, <1>2, <1>4, <1>5, TotalImage
<1>8. Total(f, T) \in Nat /\ Total(f, T) <= Total(sent, T)
  BY <1>1, <1>6, TotalType, TotalLe
<1>9. Analytics(SessionsOf(v)).seconds = Total(SecondsOf, SessionsOf(v))
  BY SessionsFinite, SecondsIsTotal DEF TypeInv
<1> QED BY <1>7, <1>8, <1>9 DEF T, Reported

\* A stored video keeps its tokens, and what was reported is never taken back.
LEMMA ReportsStay ==
    ASSUME TypeInv, [Next]_vars
    PROVE  /\ stored' \subseteq stored
           /\ \A v \in stored' : TokensOf(v) \subseteq TokensOf(v)'
           /\ \A t \in Tokens : sent[t] \in Nat /\ sent'[t] \in Nat /\ sent[t] <= sent'[t]
<1>a. /\ session \in [Tokens -> SessionRow \cup {None}] /\ sent \in [Tokens -> Nat]
  BY DEF TypeInv, TableType
<1>b. ASSUME UNCHANGED sent
      PROVE  \A t \in Tokens : sent[t] \in Nat /\ sent'[t] \in Nat /\ sent[t] <= sent'[t]
  BY <1>a, <1>b
<1>1. ASSUME NEW r \in Requests, Begins(r)
      PROVE  /\ UNCHANGED <<stored, session>>
             /\ \A t \in Tokens : sent[t] \in Nat /\ sent'[t] \in Nat /\ sent[t] <= sent'[t]
  <2>1. PICK t \in Tokens, report \in Reports :
          /\ sent' = [sent EXCEPT ![t] = @ + report.delta] /\ UNCHANGED <<stored, session>>
    BY <1>1 DEF Begins
  <2>2. report.delta \in Nat
    BY WatchAssumption
  <2> QED BY <1>a, <2>1, <2>2
<1>2. ASSUME NEW r \in Requests, Creates(r)
      PROVE  UNCHANGED <<stored, sent>> /\ \A v \in stored' : TokensOf(v) \subseteq TokensOf(v)'
  <2>1. \A t \in Tokens : session[t] # None => session'[t] = session[t]
    BY <1>2, <1>a DEF Creates
  <2> QED BY <1>2, <2>1 DEF Creates, TokensOf
<1>3. ASSUME NEW r \in Requests, Updates(r)
      PROVE  UNCHANGED <<stored, sent>> /\ \A v \in stored' : TokensOf(v) \subseteq TokensOf(v)'
  <2> DEFINE t == request[r].token
  <2>1. /\ t \in Tokens /\ session[t] # None /\ request[r].pc = "update"
        /\ session' = [session EXCEPT ![t] = Updated(r)] /\ UNCHANGED <<stored, sent>>
    BY <1>3 DEF Updates
  <2>2. Updated(r) \in SessionRow /\ Updated(r).video = session[t].video
    BY <2>1, UpdatedType
  <2>3. Updated(r) # None
    BY <2>2, NoneAssumption
  <2>4. \A u \in Tokens : session[u] # None =>
          session'[u] # None /\ session'[u].video = session[u].video
    BY <1>a, <2>1, <2>2, <2>3
  <2> QED BY <2>1, <2>4 DEF TokensOf
<1>4. ASSUME NEW v \in Videos, Delete(v)
      PROVE  /\ stored' \subseteq stored /\ UNCHANGED sent
             /\ \A u \in stored' : TokensOf(u) \subseteq TokensOf(u)'
  <2>1. /\ UNCHANGED sent /\ stored' = stored \ {v}
        /\ session' = [t \in Tokens |-> IF session[t] \in SessionsOf(v) THEN None ELSE session[t]]
    BY <1>4 DEF Delete
  <2>2. \A t \in Tokens : session[t] # None /\ session[t].video # v => session'[t] = session[t]
    BY <2>1, DeleteLeaves DEF TypeInv
  <2> QED BY <2>1, <2>2 DEF TokensOf
<1>5. CASE UNCHANGED <<stored, session, sent>>
  BY <1>5, <1>b DEF TokensOf
<1>6. CASE \E r \in Requests : Serve(r)
  <2>1. PICK r \in Requests : Begins(r) \/ Creates(r) \/ Updates(r) \/ Passes(r)
    BY <1>6, ServeDoes
  <2>2. CASE Begins(r)
    BY <1>1, <2>2 DEF TokensOf
  <2>3. CASE Passes(r)
    BY <1>5, <2>3 DEF Passes
  <2> QED BY <2>1, <2>2, <2>3, <1>2, <1>3, <1>b
<1>7. CASE \E v \in Videos : Delete(v)
  BY <1>4, <1>7, <1>b
<1>8. CASE (\E v \in Liked : Like(v)) \/ Restart \/ Tick \/ UNCHANGED vars
  <2>1. UNCHANGED <<stored, session, sent>>
    BY <1>8 DEF Like, Restart, Tick, table, vars
  <2> QED BY <2>1, <1>5
<1> QED BY <1>6, <1>7, <1>8 DEF Next

LEMMA ReportedGrows ==
    ASSUME TypeInv, [Next]_vars, NEW v \in stored'
    PROVE  v \in stored /\ Reported(v) \in Nat /\ Reported(v)' \in Nat /\ Reported(v) <= Reported(v)'
<1> DEFINE T == TokensOf(v)
           U == TokensOf(v)'
<1>1. TypeInv' /\ Reported(v) \in Nat /\ IsFiniteSet(T) /\ T \subseteq Tokens
  BY TypeStep, ReportedType
<1>2. Reported(v)' \in Nat /\ IsFiniteSet(U) /\ U \subseteq Tokens
  <2>1. IsFiniteSet(U) /\ U \subseteq Tokens
    BY <1>1, FS_Subset DEF TypeInv, TableType, Present, TokensOf
  <2>2. \A t \in U : sent'[t] \in Nat
    BY <1>1, <2>1 DEF TypeInv
  <2> HIDE DEF U
  <2>3. Total(sent', U) \in Nat
    BY <2>1, <2>2, TotalType
  <2> QED BY <2>1, <2>3 DEF Reported, U
<1>3. v \in stored /\ T \subseteq U /\ \A t \in Tokens : sent[t] <= sent'[t]
  BY ReportsStay
<1>4. \A t \in Tokens : sent[t] \in Nat /\ sent'[t] \in Nat
  BY ReportsStay
<1> HIDE DEF T, U
<1>5. Total(sent, T) <= Total(sent', T)
  BY <1>1, <1>3, <1>4, TotalLe
<1>6. Total(sent', T) <= Total(sent', U)
  BY <1>2, <1>3, <1>4, TotalGrows
<1>7. Total(sent', T) \in Nat
  BY <1>1, <1>4, TotalType
<1>8. Reported(v) = Total(sent, T) /\ Reported(v)' = Total(sent', U)
  BY DEF Reported, T, U
<1> QED BY <1>1, <1>2, <1>3, <1>5, <1>6, <1>7, <1>8

Backed(a, v) == a.seconds \in Nat /\ a.seconds <= Reported(v)

\* The same of what a request has computed and of the rows it has listed.
BackedRequest(q) ==
    /\ q.pc = "write" => \A v \in stored : v = q.video => Backed(q.computed, v)
    /\ q.pc = "scores" => \A v \in stored : Backed(q.listed[v].analytics, v)

BackedInv ==
    /\ \A v \in stored : Backed(row[v].analytics, v)
    /\ \A r \in Requests : BackedRequest(request[r])

\* What was backed before a step is backed after it.
LEMMA BackedCore ==
    ASSUME TypeInv, [Next]_vars, \A v \in stored' : Backed(row'[v].analytics, v),
           \A r \in Requests : BackedRequest(request'[r])
    PROVE  BackedInv'
<1>1. ASSUME NEW a, NEW v \in stored', Backed(a, v) PROVE v \in stored /\ Backed(a, v)'
  BY <1>1, ReportedGrows DEF Backed
<1>2. \A v \in stored' : Backed(row[v].analytics, v)'
  <2> SUFFICES ASSUME NEW v \in stored' PROVE Backed(row[v].analytics, v)'
    OBVIOUS
  <2>1. Reported(v) \in Nat /\ Reported(v)' \in Nat /\ Reported(v) <= Reported(v)'
    BY ReportedGrows
  <2> QED BY <2>1 DEF Backed
<1>3. ASSUME NEW r \in Requests PROVE BackedRequest(request[r])'
  <2>1. ASSUME NEW v \in stored'
        PROVE  /\ v \in stored /\ Reported(v) \in Nat /\ Reported(v)' \in Nat
               /\ Reported(v) <= Reported(v)'
    BY <2>1, ReportedGrows
  <2>2. ASSUME request'[r].pc = "write", NEW v \in stored', v = request'[r].video
        PROVE  Backed(request[r].computed, v)'
    <3>1. Backed(request'[r].computed, v)
      BY <2>1, <2>2 DEF BackedRequest
    <3> QED BY <2>1, <3>1 DEF Backed
  <2>3. ASSUME request'[r].pc = "scores", NEW v \in stored'
        PROVE  Backed(request[r].listed[v].analytics, v)'
    <3>1. Backed(request'[r].listed[v].analytics, v)
      BY <2>1, <2>3 DEF BackedRequest
    <3> QED BY <2>1, <3>1 DEF Backed
  <2> QED BY <2>2, <2>3 DEF BackedRequest
<1> QED BY <1>2, <1>3 DEF BackedInv

LEMMA BackedServe ==
    ASSUME TypeInv, SessionInv, BackedInv, NEW r \in Requests, Serve(r)
    PROVE  BackedInv'
<1>a. /\ request \in [Requests -> Request] /\ row \in [Videos -> VideoRow]
      /\ stored \subseteq Videos /\ Holds(request[r]) /\ request[r] \in Request
  BY DEF TypeInv, RequestType, TableType
<1>b. [Next]_vars
  BY DEF Next
<1>c. ASSUME \A v \in stored' : Backed(row'[v].analytics, v),
             NEW q, request' = [request EXCEPT ![r] = q], BackedRequest(q)
      PROVE  BackedInv'
  <2>1. \A u \in Requests : request'[u] = IF u = r THEN q ELSE request[u]
    BY <1>a, <1>c
  <2>2. \A u \in Requests : BackedRequest(request'[u])
    BY <1>c, <2>1 DEF BackedInv
  <2> QED BY <1>b, <1>c, <2>2, BackedCore
<1>d. ASSUME UNCHANGED <<stored, row>> PROVE \A v \in stored' : Backed(row'[v].analytics, v)
  BY <1>d DEF BackedInv
<1>e. ASSUME UNCHANGED <<stored, row>>, Fail(r) PROVE BackedInv'
  <2>1. BackedRequest(Idle)
    BY DEF BackedRequest, Idle
  <2> QED BY <1>c, <1>d, <1>e, <2>1 DEF Fail
<1>1. CASE Begin(r)
  <2>1. /\ request'[r].pc \in {"create", "update"} /\ UNCHANGED <<stored, row>>
        /\ \A q \in Requests \ {r} :
            \/ request'[q] = [request[q] EXCEPT !.alone = FALSE]
            \/ request'[q] = Idle
    BY <1>1, BeginBegins DEF Begins
  <2>2. ASSUME NEW q \in Requests PROVE BackedRequest(request'[q])
    <3>1. CASE q = r
      BY <2>1, <3>1 DEF BackedRequest
    <3>2. CASE request'[q] = Idle
      BY <3>2 DEF BackedRequest, Idle
    <3>3. CASE request'[q] = [request[q] EXCEPT !.alone = FALSE]
      <4>1. /\ request'[q].pc = request[q].pc /\ request'[q].video = request[q].video
            /\ request'[q].computed = request[q].computed
            /\ request'[q].listed = request[q].listed
        BY <1>a, <3>3 DEF Request
      <4>2. BackedRequest(request[q])
        BY DEF BackedInv
      <4> QED BY <4>1, <4>2 DEF BackedRequest
    <3> QED BY <2>1, <3>1, <3>2, <3>3
  <2> QED BY <1>b, <1>d, <2>1, <2>2, BackedCore
<1>2. CASE Create(r)
  <2>1. CASE Creates(r)
    <3> DEFINE q == [request[r] EXCEPT !.pc = "update", !.read = NewSession(r)]
    <3>1. q.pc = "update"
      BY <1>a DEF Request
    <3>2. request' = [request EXCEPT ![r] = q] /\ UNCHANGED <<stored, row>>
      BY <2>1 DEF Creates
    <3> HIDE DEF q
    <3>3. BackedRequest(q)
      BY <3>1 DEF BackedRequest
    <3> QED BY <1>c, <1>d, <3>2, <3>3
  <2>2. CASE Fail(r)
    BY <1>2, <1>e, <2>2 DEF Create
  <2> QED BY <1>2, <2>1, <2>2, <1>a DEF Create, Creates, NewSession, Holds, RequestFrame
<1>3. CASE Update(r)
  <2>1. CASE Forget(r, "list")
    <3> DEFINE q == [request[r] EXCEPT !.pc = "list", !.token = None, !.report = None,
                                       !.read = None]
    <3>1. q.pc = "list"
      BY <1>a DEF Request
    <3>2. request' = [request EXCEPT ![r] = q] /\ UNCHANGED <<stored, row>>
      BY <1>3, <2>1 DEF Update, Forget
    <3> HIDE DEF q
    <3>3. BackedRequest(q)
      BY <3>1 DEF BackedRequest
    <3> QED BY <1>c, <1>d, <3>2, <3>3
  <2>2. CASE Fail(r)
    BY <1>3, <1>e, <2>2 DEF Update
  <2> QED BY <1>3, <2>1, <2>2 DEF Update
<1>4. CASE ListSessions(r)
  <2>1. UNCHANGED <<stored, row>>
    BY <1>4 DEF ListSessions, table
  <2>2. CASE ~Fail(r)
    <3> DEFINE q == [request[r] EXCEPT !.pc = "write",
                                       !.computed = Analytics(SessionsOf(request[r].video))]
    <3>1. /\ request' = [request EXCEPT ![r] = q]
          /\ q.pc = "write" /\ q.video = request[r].video
          /\ q.computed = Analytics(SessionsOf(request[r].video))
      BY <1>4, <2>2, <1>a DEF ListSessions, Request
    <3> HIDE DEF q
    <3>2. \A v : Backed(Analytics(SessionsOf(v)), v)
      BY ComputedIsReported DEF Backed
    <3>3. BackedRequest(q)
      BY <3>1, <3>2 DEF BackedRequest
    <3> QED BY <1>c, <1>d, <2>1, <3>1, <3>3
  <2> QED BY <1>e, <2>1, <2>2
<1>5. CASE WriteAnalytics(r)
  <2> DEFINE v == request[r].video
             q == [request[r] EXCEPT !.pc = "refresh", !.computed = None]
  <2>1. UNCHANGED stored /\ request[r].pc = "write"
    BY <1>5 DEF WriteAnalytics
  <2>2. CASE /\ v \in stored /\ row' = [row EXCEPT ![v].analytics = request[r].computed]
             /\ request' = [request EXCEPT ![r] = q]
    <3>1. q.pc = "refresh"
      BY <1>a DEF Request
    <3>2. Backed(request[r].computed, v)
      BY <2>1, <2>2 DEF BackedInv, BackedRequest
    <3>3. /\ row'[v].analytics = request[r].computed
          /\ \A u \in stored : u # v => row'[u] = row[u]
      BY <2>2, <1>a DEF VideoRow
    <3> HIDE DEF q, v
    <3>4. \A u \in stored' : Backed(row'[u].analytics, u)
      BY <2>1, <3>2, <3>3 DEF BackedInv
    <3>5. BackedRequest(q)
      BY <3>1 DEF BackedRequest
    <3> QED BY <1>c, <2>2, <3>4, <3>5
  <2>3. CASE Fail(r) /\ UNCHANGED row
    BY <1>e, <2>1, <2>3
  <2> QED BY <1>5, <2>2, <2>3 DEF WriteAnalytics
<1>6. CASE ListVideos(r)
  <2> DEFINE q == [request[r] EXCEPT !.pc = IF stored = {} THEN "reply" ELSE "scores",
                                     !.listed = row, !.left = stored]
  <2>1. UNCHANGED <<stored, row>> /\ request' = [request EXCEPT ![r] = q]
    BY <1>6 DEF ListVideos, table
  <2>3. q.pc \in {"reply", "scores"} /\ q.listed = row
    BY <1>a DEF Request
  <2> HIDE DEF q
  <2>2. BackedRequest(q)
    BY <2>3 DEF BackedRequest, BackedInv
  <2> QED BY <1>c, <1>d, <2>1, <2>2
<1>7. CASE WriteScore(r)
  <2>1. UNCHANGED stored /\ request[r].pc = "scores"
    BY <1>7 DEF WriteScore, ScoreNext
  <2>2. CASE Fail(r) /\ UNCHANGED row
    BY <1>e, <2>1, <2>2
  <2>3. CASE ~(Fail(r) /\ UNCHANGED row)
    <3> DEFINE m == Max(request[r].left)
               left == request[r].left \ {m}
               score == [Scored(r, m) EXCEPT !.likes = row[m].likes]
               q == [request[r] EXCEPT !.left = left, !.pc = IF left = {} THEN "reply" ELSE @,
                                       !.listed = IF left = {} THEN None ELSE @]
    <3>0. m \in stored /\ row' = [row EXCEPT ![m] = score]
          /\ request' = [request EXCEPT ![r] = q]
      BY <1>7, <2>3 DEF WriteScore, ScoreNext
    <3>1. score.analytics = request[r].listed[m].analytics
      <4>1. request[r].listed[m] \in VideoRow
        BY <2>1, <3>0, <1>a DEF Holds
      <4> QED BY <4>1 DEF Scored, VideoRow
    <3>2. q.pc = (IF left = {} THEN "reply" ELSE "scores")
          /\ q.listed = (IF left = {} THEN None ELSE request[r].listed)
      BY <2>1, <1>a DEF Request
    <3> HIDE DEF q, m, score, left
    <3>3. \A v \in stored : row'[v] = IF v = m THEN score ELSE row[v]
      BY <1>a, <3>0
    <3>4. \A v \in stored : Backed(request[r].listed[v].analytics, v)
      BY <2>1 DEF BackedInv, BackedRequest
    <3>5. \A v \in stored' : Backed(row'[v].analytics, v)
      <4> SUFFICES ASSUME NEW v \in stored PROVE Backed(row'[v].analytics, v)
        BY <2>1
      <4>1. row'[v].analytics \in {request[r].listed[v].analytics, row[v].analytics}
        BY <3>1, <3>3
      <4> QED BY <3>4, <4>1 DEF BackedInv
    <3>6. BackedRequest(q)
      BY <3>2, <3>4 DEF BackedRequest
    <3> QED BY <1>c, <3>0, <3>5, <3>6
  <2> QED BY <2>2, <2>3
<1>8. CASE Reply(r)
  <2>1. UNCHANGED <<stored, row>>
    BY <1>8 DEF Reply, table
  <2>2. CASE Go(r, "done")
    <3> DEFINE q == [request[r] EXCEPT !.pc = "done"]
    <3>1. q.pc = "done"
      BY <1>a DEF Request
    <3>2. request' = [request EXCEPT ![r] = q]
      BY <2>2 DEF Go
    <3> HIDE DEF q
    <3>3. BackedRequest(q)
      BY <3>1 DEF BackedRequest
    <3> QED BY <1>c, <1>d, <2>1, <3>2, <3>3
  <2> QED BY <1>8, <1>e, <2>1, <2>2 DEF Reply
<1> QED BY <1>1, <1>2, <1>3, <1>4, <1>5, <1>6, <1>7, <1>8 DEF Serve

LEMMA BackedStep ==
    ASSUME TypeInv, SessionInv, BackedInv, [Next]_vars
    PROVE  BackedInv'
<1>a. row \in [Videos -> VideoRow] /\ stored \subseteq Videos
  BY DEF TypeInv, TableType
<1>1. ASSUME NEW r \in Requests, Serve(r) PROVE BackedInv'
  BY <1>1, BackedServe
<1>2. ASSUME UNCHANGED request, stored' \subseteq stored,
             \A v \in stored' : row'[v].analytics = row[v].analytics
      PROVE  BackedInv'
  BY <1>2, BackedCore DEF BackedInv
<1>3. ASSUME NEW v \in Liked, Like(v) PROVE BackedInv'
  <2>1. PICK d \in {-1, 1} : row' = [row EXCEPT ![v].likes = Clamped(@ + d)]
    BY <1>3 DEF Like
  <2>2. \A u \in Videos : row'[u].analytics = row[u].analytics
    BY <2>1, <1>a DEF VideoRow
  <2> QED BY <1>2, <1>3, <1>a, <2>2 DEF Like
<1>4. ASSUME NEW v \in Videos, Delete(v) PROVE BackedInv'
  <2>1. UNCHANGED request /\ stored' = stored \ {v} /\ row' = [row EXCEPT ![v] = NewRow]
    BY <1>4 DEF Delete
  <2>2. \A u \in stored' : row'[u] = row[u]
    BY <1>a, <2>1
  <2> QED BY <1>2, <2>1, <2>2
<1>5. CASE Restart
  <2>1. UNCHANGED <<stored, row>> /\ \A r \in Requests : request'[r] = Idle
    BY <1>5 DEF Restart, table
  <2>2. BackedRequest(Idle)
    BY DEF BackedRequest, Idle
  <2> QED BY <2>1, <2>2, BackedCore DEF BackedInv
<1>6. CASE Tick \/ UNCHANGED vars
  <2>1. UNCHANGED <<stored, row, request>>
    BY <1>6 DEF Tick, table, vars
  <2> QED BY <1>2, <2>1
<1> QED BY <1>1, <1>3, <1>4, <1>5, <1>6 DEF Next

LEMMA BackedInit == Init => BackedInv
<1> SUFFICES ASSUME Init PROVE BackedInv
  OBVIOUS
<1>1. TypeInv
  BY TypeInit
<1>2. NewRow.analytics.seconds = 0
  <2>1. Analytics({}).seconds = Total(SecondsOf, {})
    BY FS_EmptySet, SecondsIsTotal
  <2>2. NewRow.analytics = Analytics({})
    BY DEF NewRow
  <2> QED BY <2>1, <2>2, TotalEmpty
<1>3. \A v : Reported(v) \in Nat
  BY <1>1, ReportedType
<1>4. \A v \in stored : row[v] = NewRow
  BY DEF Init
<1>5. \A v \in stored : Backed(row[v].analytics, v)
  BY <1>2, <1>3, <1>4 DEF Backed
<1> QED BY <1>5 DEF Init, BackedInv, BackedRequest, Idle

\* However reports overlap, repeat and break off (record_watch_heartbeat), a session
\* never holds more seconds than were reported for it, and the analytics of a video
\* never more than were reported for its sessions, for any number of them.
THEOREM WatchNoSecondsInvented == Spec => []NoSecondsInvented
<1>1. TypeInv /\ SessionInv /\ BackedInv /\ [Next]_vars => BackedInv'
  BY BackedStep
<1>2. TypeInv /\ SessionInv /\ BackedInv => NoSecondsInvented
  <2> SUFFICES ASSUME TypeInv, SessionInv, BackedInv PROVE NoSecondsInvented
    OBVIOUS
  <2>1. \A t \in Tokens : session[t] # None => session[t].seconds <= sent[t]
    BY DEF SessionInv, NoneInvented
  <2>2. ASSUME NEW v \in stored
        PROVE  row[v].analytics.seconds <= MapThenSumSet(LAMBDA t : sent[t], TokensOf(v))
    <3>1. row[v].analytics.seconds <= Reported(v)
      BY DEF BackedInv, Backed
    <3>2. MapThenSumSet(LAMBDA t : sent[t], TokensOf(v)) = Reported(v)
      BY ReportedIsSum
    <3> QED BY <3>1, <3>2
  <2> QED BY <2>1, <2>2 DEF NoSecondsInvented
<1> QED BY <1>1, <1>2, BackedInit, WatchAlwaysInv, PTL DEF Spec

-----------------------------------------------------------------------------
(* The heat map and the highlight.                                         *)

BucketIds == 0..Buckets - 1

LEMMA WidthType == Width \in Nat \ {0} /\ Duration \in Nat \ {0} /\ Buckets \in Nat \ {0}
<1>1. Duration \in Nat \ {0} /\ Buckets \in Nat \ {0} /\ Duration % Buckets = 0
  BY WatchAssumption
<1>2. Duration \div Buckets \in Nat \ {0}
  BY <1>1
<1> QED BY <1>1, <1>2 DEF Width

LEMMA DivBounds ==
    ASSUME NEW x \in Nat, NEW w \in Nat \ {0}
    PROVE  x \div w \in Nat /\ (x \div w) * w <= x /\ x < (x \div w + 1) * w
OBVIOUS

LEMMA TimesGrows ==
    ASSUME NEW a \in Nat, NEW b \in Nat, NEW w \in Nat, a <= b
    PROVE  a * w \in Nat /\ b * w \in Nat /\ a * w <= b * w
OBVIOUS

LEMMA CoverType ==
    ASSUME NEW s \in SessionRow
    PROVE  From(s) \in Nat /\ Until(s) \in Nat /\ From(s) <= Until(s)
<1>1. s.maxPosition \in Nat /\ s.seconds \in Nat /\ Duration \in Nat
  BY WidthType DEF SessionRow
<1>2. Until(s) \in Nat /\ Lesser(s.seconds, Duration) \in Nat
  BY <1>1 DEF Until, Lesser
<1>3. From(s) = Greater(Until(s) - Lesser(s.seconds, Duration), 0)
  BY DEF From
<1> QED BY <1>2, <1>3 DEF Greater

\* The seconds of bucket b that a session has covered.
Seconds(b) == b * Width..(b + 1) * Width - 1
CoveredIn(s, b) == {x \in Seconds(b) : From(s) <= x /\ x < Until(s)}

\* The difference of two bounds counts them.
LEMMA OverlapCounts ==
    ASSUME NEW s \in SessionRow, NEW b \in BucketIds
    PROVE  Overlap(s, b) \in Nat /\ Overlap(s, b) = Cardinality(CoveredIn(s, b))
<1> DEFINE low == b * Width
           high == (b + 1) * Width
           lo == Greater(From(s), low)
           hi == Lesser(Until(s), high)
<1>1. /\ Width \in Nat \ {0} /\ Buckets \in Nat \ {0}
      /\ From(s) \in Nat /\ Until(s) \in Nat /\ From(s) <= Until(s)
      /\ b \in Nat /\ b <= Buckets - 1
  BY WidthType, CoverType DEF BucketIds
<1>2. low \in Nat /\ high \in Nat /\ low <= high
  BY <1>1, TimesGrows
<1> HIDE DEF low, high
<1>3. lo \in Nat /\ hi \in Nat
  BY <1>1, <1>2 DEF Greater, Lesser
<1>4. CoveredIn(s, b) = lo..hi - 1
  <2>1. CoveredIn(s, b) = {x \in low..high - 1 : From(s) <= x /\ x < Until(s)}
    BY DEF CoveredIn, Seconds, low, high
  <2>2. \A x \in Int : x >= lo <=> x >= From(s) /\ x >= low
    BY <1>1, <1>2 DEF Greater
  <2>3. \A x \in Int : x < hi <=> x < Until(s) /\ x < high
    BY <1>1, <1>2 DEF Lesser
  <2> HIDE DEF lo, hi
  <2> QED BY <1>1, <1>2, <1>3, <2>1, <2>2, <2>3
<1>5. Cardinality(CoveredIn(s, b)) = Greater(hi - lo, 0)
  <2> HIDE DEF lo, hi
  <2>1. Cardinality(lo..hi - 1) = IF lo > hi - 1 THEN 0 ELSE (hi - 1) - lo + 1
    BY <1>3, FS_Interval
  <2> QED BY <1>3, <1>4, <2>1 DEF Greater
<1>6. CASE b \in BucketOf(From(s))..BucketOf(Until(s))
  <2>1. Overlap(s, b) = Greater(hi - lo, 0)
    BY <1>6 DEF Overlap, low, high
  <2> HIDE DEF lo, hi
  <2> QED BY <1>3, <1>5, <2>1 DEF Greater
<1>7. CASE b \notin BucketOf(From(s))..BucketOf(Until(s))
  <2> DEFINE f == From(s) \div Width
             u == Until(s) \div Width
  <2>1. /\ f \in Nat /\ f * Width <= From(s)
        /\ u \in Nat /\ Until(s) < (u + 1) * Width
    BY <1>1, DivBounds
  <2>2. BucketOf(From(s)) = Lesser(f, Buckets - 1) /\ BucketOf(Until(s)) = Lesser(u, Buckets - 1)
    BY DEF BucketOf
  <2> HIDE DEF f, u
  <2>3. b < f \/ b > u
    BY <1>1, <1>7, <2>1, <2>2 DEF Lesser
  <2>4. ASSUME b < f PROVE hi - lo <= 0
    <3>1. high <= f * Width
      BY <1>1, <2>1, <2>4, TimesGrows DEF high
    <3>2. f * Width \in Nat
      BY <1>1, <2>1
    <3>3. high <= From(s)
      BY <1>1, <1>2, <2>1, <3>1, <3>2
    <3> QED BY <1>1, <1>2, <3>3 DEF Lesser, Greater
  <2>5. ASSUME b > u PROVE hi - lo <= 0
    <3>1. (u + 1) * Width <= low /\ (u + 1) * Width \in Nat
      BY <1>1, <2>1, <2>5, TimesGrows DEF low
    <3>2. Until(s) <= low
      BY <1>1, <1>2, <2>1, <3>1
    <3> QED BY <1>1, <1>2, <3>2 DEF Lesser, Greater
  <2>6. hi - lo <= 0
    BY <2>3, <2>4, <2>5
  <2>7. Overlap(s, b) = 0
    BY <1>7 DEF Overlap
  <2> HIDE DEF lo, hi
  <2> QED BY <1>3, <1>5, <2>6, <2>7 DEF Greater
<1> QED BY <1>6, <1>7

OverlapIn(b) == [s \in SessionRow |-> Overlap(s, b)]

LEMMA HeatIsTotal ==
    ASSUME NEW S \in SUBSET SessionRow, IsFiniteSet(S), NEW b \in BucketIds
    PROVE  Heatmap(S)[b] = Total(OverlapIn(b), S)
<1>1. PICK h : IsSum(h, OverlapIn(b), S)
  BY SumExists
<1>2. \A s \in SUBSET S : s # {} => OverlapIn(b)[Pick(s)] = Overlap(Pick(s), b)
  BY PickIn DEF OverlapIn
<1>3. h = [s \in SUBSET S |-> IF s = {} THEN 0 ELSE Overlap(Pick(s), b) + h[s \ {Pick(s)}]]
  BY <1>1, <1>2 DEF IsSum
<1>4. Heatmap(S)[b] = MapThenSumSet(LAMBDA s : Overlap(s, b), S)
  BY DEF Heatmap, BucketIds
<1>5. PICK k : /\ k = [s \in SUBSET S |->
                         IF s = {} THEN 0 ELSE Overlap(Pick(s), b) + k[s \ {Pick(s)}]]
               /\ Heatmap(S)[b] = k[S]
  BY <1>3, <1>4 DEF MapThenSumSet, MapThenFoldSet, Pick
<1>6. IsSum(k, OverlapIn(b), S)
  BY <1>2, <1>5 DEF IsSum
<1> QED BY <1>5, <1>6, TotalOfAny

\* The heat of a bucket is the number of its seconds that the sessions have covered.
LEMMA HeatCounts ==
    ASSUME NEW S \in SUBSET SessionRow, IsFiniteSet(S), NEW b \in BucketIds
    PROVE  Heatmap(S)[b] \in Nat /\ Heatmap(S)[b] = SecondsIn(S, b)
<1> DEFINE I == Seconds(b)
           R == {p \in S \X I : From(p[1]) <= p[2] /\ p[2] < Until(p[1])}
<1>1. IsFiniteSet(I)
  <2>1. b \in Nat /\ Width \in Nat
    BY WidthType DEF BucketIds
  <2>2. b * Width \in Int /\ (b + 1) * Width - 1 \in Int
    BY <2>1, TimesGrows
  <2> QED BY <2>2, FS_Interval DEF Seconds
<1>2. SecondsIn(S, b) = Cardinality(PairsOf(S, I, R))
  <2>1. PairsOf(S, I, R) = R
    BY DEF PairsOf
  <2> QED BY <2>1 DEF SecondsIn, Seconds
<1>3. \A s \in S : Partners(s, I, R) = CoveredIn(s, b)
  BY DEF CoveredIn, Partners
<1>4. \A s \in S : OverlapIn(b)[s] \in Nat
                   /\ OverlapIn(b)[s] = Cardinality(Partners(s, I, R))
  BY <1>3, OverlapCounts DEF OverlapIn
<1> HIDE DEF I, R
<1>5. Cardinality(PairsOf(S, I, R)) = Total(OverlapIn(b), S)
  BY <1>1, <1>4, CountPairs
<1>6. Total(OverlapIn(b), S) \in Nat
  BY <1>4, TotalType
<1> QED BY <1>2, <1>5, <1>6, HeatIsTotal

LEMMA HeatType ==
    ASSUME NEW S \in SUBSET SessionRow, IsFiniteSet(S)
    PROVE  Heatmap(S) \in [BucketIds -> Nat]
<1>1. Heatmap(S) = [b \in BucketIds |-> Heatmap(S)[b]]
  BY DEF Heatmap, BucketIds
<1> QED BY <1>1, HeatCounts

LEMMA MinOf ==
    ASSUME NEW S \in SUBSET Nat, S # {}
    PROVE  Min(S) \in S /\ \A x \in S : Min(S) <= x
BY LeastElement DEF Min

LEMMA MaxOf ==
    ASSUME NEW n \in Nat, NEW S \in SUBSET (0..n), S # {}
    PROVE  Max(S) \in S /\ \A x \in S : Max(S) >= x
BY GreatestElement DEF Max

LEMMA HottestExists ==
    ASSUME NEW heat \in [BucketIds -> Nat]
    PROVE  \E b \in BucketIds : \A c \in BucketIds : heat[c] <= heat[b]
<1> DEFINE A == {n \in Nat : n \in BucketIds => \E b \in 0..n : \A c \in 0..n : heat[c] <= heat[b]}
<1>a. Buckets \in Nat \ {0} /\ BucketIds = 0..Buckets - 1
  BY WidthType DEF BucketIds
<1>1. 0 \in A
  BY <1>a
<1>2. ASSUME NEW n \in Nat, n \in A PROVE n + 1 \in A
  <2> SUFFICES ASSUME n + 1 \in BucketIds
               PROVE  \E b \in 0..n + 1 : \A c \in 0..n + 1 : heat[c] <= heat[b]
    OBVIOUS
  <2>1. n \in BucketIds /\ \A c \in 0..n + 1 : heat[c] \in Nat
    BY <1>a
  <2>2. PICK b \in 0..n : \A c \in 0..n : heat[c] <= heat[b]
    BY <1>2, <2>1
  <2>3. \A c \in 0..n + 1 : c \in 0..n \/ c = n + 1
    OBVIOUS
  <2>4. b \in 0..n + 1 /\ n + 1 \in 0..n + 1
    OBVIOUS
  <2>5. CASE heat[n + 1] <= heat[b]
    BY <2>2, <2>3, <2>4, <2>5
  <2>6. CASE ~(heat[n + 1] <= heat[b])
    <3>1. \A c \in 0..n + 1 : heat[c] <= heat[n + 1]
      <4> SUFFICES ASSUME NEW c \in 0..n + 1 PROVE heat[c] <= heat[n + 1]
        OBVIOUS
      <4>1. heat[c] \in Nat /\ heat[b] \in Nat /\ heat[n + 1] \in Nat
        BY <2>1, <2>4
      <4> QED BY <2>2, <2>3, <2>6, <4>1
    <3> QED BY <2>4, <3>1
  <2> QED BY <2>5, <2>6
<1>3. Nat \subseteq A
  <2> HIDE DEF A
  <2> QED BY <1>1, <1>2, NaturalInduction
<1>4. Buckets - 1 \in A /\ Buckets - 1 \in BucketIds
  <2> HIDE DEF A
  <2> QED BY <1>a, <1>3
<1> QED BY <1>a, <1>4

\* What a highlight says of a heat map.
Shows(heat, highlight) ==
    IF highlight = None THEN \A b \in DOMAIN heat : heat[b] = 0
    ELSE LET h == highlight.first..highlight.last
             peak == Max({heat[b] : b \in DOMAIN heat})
             edge == {highlight.first - 1, highlight.last + 1} \cap DOMAIN heat IN
         /\ \E b \in h : heat[b] = peak
         /\ \A b \in h : 10 * heat[b] >= 6 * peak
         /\ \A b \in edge : 10 * heat[b] < 6 * peak

LEMMA HighlightShows ==
    ASSUME NEW heat \in [BucketIds -> Nat]
    PROVE  Shows(heat, Highlight(heat))
<1> DEFINE Hottest == {b \in BucketIds : \A c \in BucketIds : heat[c] <= heat[b]}
           peak == Min(Hottest)
           left == {b \in 0..peak : \A c \in b..peak : Hot(heat, peak, c)}
           right == {b \in peak..Buckets - 1 : \A c \in peak..b : Hot(heat, peak, c)}
<1>a. Buckets \in Nat \ {0} /\ BucketIds = 0..Buckets - 1 /\ DOMAIN heat = BucketIds
  BY WidthType DEF BucketIds
<1>1. peak \in BucketIds /\ \A c \in BucketIds : heat[c] <= heat[peak]
  <2>0. \E b \in BucketIds : \A c \in BucketIds : heat[c] <= heat[b]
    BY HottestExists
  <2>1. Hottest \in SUBSET Nat /\ Hottest # {}
    BY <1>a, <2>0
  <2>2. Min(Hottest) \in Hottest
    BY <2>1, MinOf
  <2> QED BY <2>2
<1>2. Highlight(heat) =
        IF heat[peak] = 0 THEN None ELSE [first |-> Min(left), last |-> Max(right)]
  BY <1>a DEF Highlight
<1> HIDE DEF peak
<1>3. \A c \in BucketIds : heat[c] \in Nat
  OBVIOUS
<1>4. peak \in left /\ left \in SUBSET Nat /\ peak \in right /\ right \in SUBSET (0..Buckets - 1)
  <2>1. peak \in 0..Buckets - 1 /\ heat[peak] \in Nat
    BY <1>a, <1>1, <1>3
  <2>2. Hot(heat, peak, peak)
    BY <2>1 DEF Hot
  <2>3. peak..peak = {peak}
    BY <2>1
  <2> QED BY <2>1, <2>2, <2>3
<1> DEFINE f == Min(left)
           l == Max(right)
<1>5. f \in left /\ \A b \in left : f <= b
  BY <1>4, MinOf
<1>6. l \in right /\ \A b \in right : l >= b
  <2>1. Buckets - 1 \in Nat /\ right # {}
    BY <1>a, <1>4
  <2> HIDE DEF right
  <2> QED BY <1>4, <2>1, MaxOf
<1>7. CASE heat[peak] = 0
  <2>1. \A b \in BucketIds : heat[b] = 0
    BY <1>1, <1>3, <1>7
  <2> QED BY <1>a, <1>2, <1>7, <2>1 DEF Shows
<1>8. CASE heat[peak] # 0
  <2> HIDE DEF f, l
  <2>1. /\ f \in 0..peak /\ \A c \in f..peak : Hot(heat, peak, c)
        /\ l \in peak..Buckets - 1 /\ \A c \in peak..l : Hot(heat, peak, c)
    BY <1>5, <1>6
  <2>2. peak \in Nat /\ peak \in 0..Buckets - 1 /\ f \in Nat /\ l \in Nat /\ heat[peak] \in Nat
    BY <1>a, <1>1, <1>3, <2>1
  <2>3. Max({heat[b] : b \in DOMAIN heat}) = heat[peak]
    <3> DEFINE H == {heat[b] : b \in BucketIds}
    <3>1. heat[peak] \in H /\ \A y \in H : y \in Nat /\ heat[peak] >= y
      BY <1>1, <1>3
    <3>2. Max(H) \in H /\ \A y \in H : Max(H) >= y
      <4> HIDE DEF H
      <4> QED BY <3>1 DEF Max
    <3>3. Max(H) = heat[peak]
      <4> HIDE DEF H
      <4> QED BY <3>1, <3>2
    <3> QED BY <1>a, <3>3
  <2>4. \A c \in BucketIds : Hot(heat, peak, c) <=> 10 * heat[c] >= 6 * heat[peak]
    BY DEF Hot
  <2>5. \A c \in f..l : c \in BucketIds /\ Hot(heat, peak, c)
    <3> SUFFICES ASSUME NEW c \in f..l PROVE c \in BucketIds /\ Hot(heat, peak, c)
      OBVIOUS
    <3>1. c \in f..peak \/ c \in peak..l
      BY <2>1, <2>2
    <3>2. c \in 0..Buckets - 1
      BY <2>1, <2>2, <1>a
    <3> QED BY <1>a, <2>1, <3>1, <3>2
  <2>6. ASSUME f - 1 \in BucketIds PROVE ~Hot(heat, peak, f - 1)
    <3> SUFFICES ASSUME Hot(heat, peak, f - 1) PROVE FALSE
      OBVIOUS
    <3>1. f - 1 \in 0..peak
      BY <1>a, <2>1, <2>2, <2>6
    <3>2. \A c \in f - 1..peak : c = f - 1 \/ c \in f..peak
      BY <2>2
    <3>3. f - 1 \in left
      BY <2>1, <3>1, <3>2
    <3> HIDE DEF left
    <3> QED BY <1>5, <2>2, <3>3 DEF f
  <2>7. ASSUME l + 1 \in BucketIds PROVE ~Hot(heat, peak, l + 1)
    <3> SUFFICES ASSUME Hot(heat, peak, l + 1) PROVE FALSE
      OBVIOUS
    <3>1. l + 1 \in peak..Buckets - 1
      BY <1>a, <2>1, <2>2, <2>7
    <3>2. \A c \in peak..l + 1 : c = l + 1 \/ c \in peak..l
      BY <2>2
    <3>3. l + 1 \in right
      BY <2>1, <3>1, <3>2
    <3> HIDE DEF right
    <3> QED BY <1>6, <2>2, <3>3 DEF l
  <2> DEFINE h == [first |-> f, last |-> l]
  <2>8. Highlight(heat) = h /\ h # None /\ h.first = f /\ h.last = l
    <3>1. h \in [first : Nat, last : Nat]
      BY <2>2
    <3>2. h # None
      BY <3>1, NoneAssumption
    <3> QED BY <1>2, <1>8, <3>2 DEF f, l
  <2>9. peak \in f..l
    BY <2>1, <2>2
  <2>10. /\ \E b \in f..l : heat[b] = heat[peak]
         /\ \A b \in f..l : 10 * heat[b] >= 6 * heat[peak]
    BY <2>4, <2>5, <2>9
  <2>11. \A b \in {f - 1, l + 1} \cap BucketIds : 10 * heat[b] < 6 * heat[peak]
    <3> SUFFICES ASSUME NEW b \in {f - 1, l + 1} \cap BucketIds
                 PROVE  10 * heat[b] < 6 * heat[peak]
      OBVIOUS
    <3>1. ~Hot(heat, peak, b)
      BY <2>6, <2>7
    <3>2. heat[b] \in Nat /\ ~(10 * heat[b] >= 6 * heat[peak])
      BY <1>3, <2>4, <3>1
    <3> QED BY <2>2, <3>2
  <2> HIDE DEF h
  <2> QED BY <1>a, <2>3, <2>8, <2>10, <2>11 DEF Shows
<1> QED BY <1>7, <1>8

\* A heat map counts each second of a bucket that each session has covered, and the
\* highlight made of it is a stretch of hot buckets around a hottest one that cannot be
\* extended (_build_highlight_heatmap, _derive_highlight_range), for any sessions and any
\* number of buckets.
THEOREM WatchHighlightIsPeak == Spec => []HighlightIsPeak
<1>1. TypeInv => HighlightIsPeak
  <2> SUFFICES ASSUME TypeInv PROVE HighlightIsPeak
    OBVIOUS
  <2>1. ASSUME NEW v
        PROVE  LET sessions == SessionsOf(v) heat == Heatmap(sessions) IN
               \A b \in DOMAIN heat : heat[b] = SecondsIn(sessions, b)
    <3>1. SessionsOf(v) \in SUBSET SessionRow /\ IsFiniteSet(SessionsOf(v))
      BY SessionsFinite DEF TypeInv
    <3>2. DOMAIN Heatmap(SessionsOf(v)) = BucketIds
      BY DEF Heatmap, BucketIds
    <3> QED BY <3>1, <3>2, HeatCounts
  <2>2. ASSUME NEW a \in Rows PROVE Shows(a.heat, a.highlight)
    <3>1. a \in AnalyticsOfSome
      BY DEF Rows, TypeInv, TableType, VideoRow
    <3>2. PICK S \in SUBSET SessionRow : IsFiniteSet(S) /\ a = Analytics(S)
      BY <3>1 DEF AnalyticsOfSome
    <3>3. a.heat = Heatmap(S) /\ a.highlight = Highlight(Heatmap(S))
      BY <3>2 DEF Analytics
    <3>4. Heatmap(S) \in [BucketIds -> Nat]
      BY <3>2, HeatType
    <3> HIDE DEF Heatmap
    <3> QED BY <3>3, <3>4, HighlightShows
  <2>3. \A r \in Requests : request[r].pc = "list" =>
          LET sessions == SessionsOf(request[r].video) heat == Heatmap(sessions) IN
          \A b \in DOMAIN heat : heat[b] = SecondsIn(sessions, b)
    BY <2>1
  <2> QED BY <2>2, <2>3 DEF HighlightIsPeak, Shows
<1>2. Spec => []TypeInv
  BY TypeInit, TypeStep, PTL DEF Spec
<1> QED BY <1>1, <1>2, PTL

=============================================================================
