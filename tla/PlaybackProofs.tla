--------------------------- MODULE PlaybackProofs ---------------------------
(***************************************************************************)
(* Proofs about Playback for any number of responses, segments, sessions   *)
(* and failures, whatever ranges are asked for.                            *)
(***************************************************************************)
EXTENDS Playback, SumTheorems

-----------------------------------------------------------------------------
(* The inductive invariant.                                                *)

\* The response still has segments to read or to account for.
Reading(s) == stream[s].pc \notin {"idle", "lookup", "release"}

\* A response that has a session holds one that exists, and as long as nobody clears
\* the cache, a response without a storage back end finds its whole range there.
StreamInv(s) ==
    /\ stream[s].from <= stream[s].pos /\ stream[s].pos <= stream[s].to
    /\ stream[s].pc \notin {"idle", "acquire"} =>
          stream[s].session \in SessionIds /\ session[stream[s].session].born
    /\ Reading(s) /\ ~stream[s].remote /\ clears = 0 =>
          stream[s].from .. stream[s].to \subseteq files
    /\ stream[s].pc = "file" /\ clears = 0 => stream[s].pos \in files
StreamsInv == \A s \in Streams : StreamInv(s)

\* A session that will never begin a batch again, however often its thread is
\* restarted: its window is done, or a failed batch is in flight for ever.
Spent(i) == session[i].inflight # {} \/ Unknown(i) = {}

\* A session that is not the video's any more has been stopped or is spent.
SessionInv(i) ==
    /\ ~session[i].born => At(i, "none")
    /\ At(i, "fail") => session[i].inflight # {}
    /\ At(i, "drain") => session[i].stopped
    /\ At(i, "exit") => session[i].stopped \/ Spent(i)
    /\ session[i].born /\ ~session[i].stopped /\ current # i =>
          Spent(i) /\ ~At(i, "transfer")
SessionsInv == \A i \in SessionIds : SessionInv(i)

\* The video's session counts no more consumers than it has.
Users(i) == {s \in Streams : Uses(s, i)}
CurrentInv ==
    current # NoSession =>
        /\ session[current].born
        /\ discards = 0 /\ ~session[current].stopped =>
              /\ session[current].consumers >= 1
              /\ session[current].consumers <= Cardinality(Users(current))

CountersInv == failures \in Nat /\ clears \in Nat /\ discards \in Nat

Inv == TypeOK /\ CountersInv /\ StreamsInv /\ SessionsInv /\ CurrentInv

\* What a response has sent, with what it was refused, follows from where it is.
Past(r) == r.sent \cup r.lost
Sent(s) ==
    /\ stream[s].pc \in {"acquire", "opened", "next", "file"} =>
          Past(stream[s]) = stream[s].from .. (stream[s].pos - 1)
    /\ stream[s].pc \in {"yielded", "request", "start"} =>
          Past(stream[s]) = stream[s].from .. stream[s].pos
SentInv == \A s \in Streams : Sent(s)

-----------------------------------------------------------------------------
(* Numbers and sets.                                                       *)

LEMMA Last == LastSegment \in Nat /\ 0 \in Segments
BY PlaybackAssumption DEF Segments

LEMMA RangeIn ==
    ASSUME NEW r \in Ranges
    PROVE  r[1] \in Segments /\ r[2] \in Segments /\ r[1] <= r[2]
BY PlaybackAssumption DEF Segments

LEMMA NoneIsNoId == NoSession \notin SessionIds
BY DEF NoSession, SessionIds

LEMMA MaxOfTwo ==
    ASSUME NEW a \in Int, NEW b \in Int
    PROVE  Max({a, b}) \in {a, b} /\ Max({a, b}) >= a /\ Max({a, b}) >= b
<1>1. \E x \in {a, b} : \A y \in {a, b} : x >= y
  <2>1. CASE a >= b
    BY <2>1
  <2>2. CASE ~(a >= b)
    BY <2>2
  <2> QED BY <2>1, <2>2
<1> QED BY <1>1 DEF Max

\* The largest of some segments is one of them.
LEMMA MaxIn ==
    ASSUME NEW S \in SUBSET Segments, S # {}
    PROVE  Max(S) \in S
<1> DEFINE Has(T) == \E x \in T : \A y \in T : x >= y
           A == {n \in Nat : \A T \in SUBSET (0..n) : T # {} => Has(T)}
<1>1. 0 \in A
  <2> SUFFICES ASSUME NEW T \in SUBSET (0..0), T # {} PROVE Has(T)
    OBVIOUS
  <2>1. 0..0 = {0}
    OBVIOUS
  <2>2. PICK x \in T : TRUE
    OBVIOUS
  <2>3. \A y \in T : y = 0
    BY <2>1
  <2> QED BY <2>2, <2>3
<1>2. ASSUME NEW n \in Nat, n \in A PROVE n + 1 \in A
  <2> SUFFICES ASSUME NEW T \in SUBSET (0..(n + 1)), T # {} PROVE Has(T)
    OBVIOUS
  <2>1. CASE n + 1 \in T
    BY <2>1
  <2>2. CASE n + 1 \notin T
    <3>1. T \in SUBSET (0..n)
      BY <2>2
    <3> QED BY <3>1, <1>2
  <2> QED BY <2>1, <2>2
<1>3. Nat \subseteq A
  <2> HIDE DEF A
  <2> QED BY <1>1, <1>2, NaturalInduction
<1>4. Has(S)
  BY <1>3, Last DEF Segments
<1> QED BY <1>4 DEF Max

-----------------------------------------------------------------------------
(* What a step leaves alone.                                               *)

LEMMA StreamFrame ==
    ASSUME NEW s \in Streams, StreamInv(s), stream'[s] = stream[s],
           clears' = 0 => clears = 0 /\ files \subseteq files',
           \A i \in SessionIds : session[i].born => session'[i].born
    PROVE  StreamInv(s)'
BY DEF StreamInv, Reading

LEMMA SessionFrame ==
    ASSUME NEW i \in SessionIds, SessionInv(i), session'[i] = session[i],
           current = i /\ ~session[i].stopped => current' = i
    PROVE  SessionInv(i)'
BY DEF SessionInv, Spent, Unknown, WindowStart, At

LEMMA SessionsFrame ==
    ASSUME SessionsInv, session' = session, current' = current
    PROVE  SessionsInv'
BY SessionFrame DEF SessionsInv

LEMMA UsersGrow ==
    ASSUME NEW i, \A s \in Streams : Uses(s, i) => Uses(s, i)'
    PROVE  /\ IsFiniteSet(Users(i)) /\ Cardinality(Users(i)) \in Nat
           /\ Cardinality(Users(i)') \in Nat
           /\ Cardinality(Users(i)) <= Cardinality(Users(i)')
<1>1. Users(i) \subseteq Users(i)' /\ Users(i)' \subseteq Streams
  BY DEF Users
<1>2. IsFiniteSet(Users(i)')
  BY <1>1, PlaybackAssumption, FS_Subset
<1> QED BY <1>1, <1>2, FS_Subset, FS_CardinalityType

LEMMA CurrentFrame ==
    ASSUME Inv, current' = current,
           \A i \in SessionIds : /\ session'[i].born = session[i].born
                                 /\ session'[i].stopped = session[i].stopped
                                 /\ session'[i].consumers = session[i].consumers,
           discards' = 0 =>
               /\ discards = 0
               /\ current # NoSession =>
                     \A s \in Streams : Uses(s, current) => Uses(s, current)'
    PROVE  CurrentInv'
<1> SUFFICES ASSUME current # NoSession
             PROVE  /\ session'[current].born
                    /\ discards' = 0 /\ ~session'[current].stopped =>
                          /\ session'[current].consumers >= 1
                          /\ session'[current].consumers <= Cardinality(Users(current)')
  BY DEF CurrentInv, Users, Uses
<1>1. current \in SessionIds
  BY DEF Inv, TypeOK
<1>2. session'[current].born
  BY <1>1 DEF Inv, CurrentInv
<1>3. ASSUME discards' = 0, ~session'[current].stopped
      PROVE  /\ session'[current].consumers >= 1
             /\ session'[current].consumers <= Cardinality(Users(current)')
  <2>1. session[current].consumers >= 1 /\ session[current].consumers <= Cardinality(Users(current))
    BY <1>1, <1>3 DEF Inv, CurrentInv
  <2>2. Cardinality(Users(current)) \in Nat /\ Cardinality(Users(current)') \in Nat
        /\ Cardinality(Users(current)) <= Cardinality(Users(current)')
    BY <1>3, UsersGrow
  <2>3. session[current].consumers \in Nat /\ session'[current].consumers = session[current].consumers
    BY <1>1 DEF Inv, TypeOK, Session
  <2> QED BY <2>1, <2>2, <2>3
<1> QED BY <1>2, <1>3

\* One response steps; the sessions stay as they are.
LEMMA StreamCore ==
    ASSUME Inv, NEW s \in Streams, NEW new \in Stream,
           stream' = [stream EXCEPT ![s] = new],
           UNCHANGED <<session, current, clears>>, files \subseteq files',
           files' \in SUBSET Segments, writes' \in SUBSET Segments,
           failures' \in Nat, discards' \in Nat, StreamInv(s)',
           discards' = 0 =>
               discards = 0 /\ (current # NoSession /\ Uses(s, current) => Uses(s, current)')
    PROVE  Inv'
<1>1. /\ stream' \in [Streams -> Stream] /\ stream'[s] = new
      /\ \A u \in Streams \ {s} : stream'[u] = stream[u]
  BY DEF Inv, TypeOK
<1>2. TypeOK' /\ CountersInv'
  BY <1>1 DEF Inv, TypeOK, CountersInv
<1>3. ASSUME NEW u \in Streams PROVE StreamInv(u)'
  <2>1. CASE u # s
    BY <2>1, <1>1, StreamFrame DEF Inv, StreamsInv
  <2> QED BY <2>1
<1>4. SessionsInv'
  BY SessionsFrame DEF Inv
<1>5. ASSUME discards' = 0, current # NoSession, NEW u \in Streams, Uses(u, current)
      PROVE  Uses(u, current)'
  <2>1. CASE u # s
    BY <2>1, <1>1, <1>5 DEF Uses
  <2> QED BY <2>1, <1>5
<1>6. CurrentInv'
  BY <1>5, CurrentFrame
<1> QED BY <1>2, <1>3, <1>4, <1>6 DEF Inv, StreamsInv

\* The thread of a session steps; the responses stay as they are.
LEMMA ThreadCore ==
    ASSUME Inv, NEW i \in SessionIds, NEW new \in Session,
           session' = [session EXCEPT ![i] = new],
           new.born = session[i].born, new.stopped = session[i].stopped,
           new.consumers = session[i].consumers,
           UNCHANGED <<writes, stream, current, clears, discards>>, files \subseteq files',
           files' \in SUBSET Segments, failures' \in Nat, SessionInv(i)'
    PROVE  Inv'
<1>1. /\ session' \in [SessionIds -> Session] /\ session'[i] = new
      /\ \A k \in SessionIds \ {i} : session'[k] = session[k]
  BY DEF Inv, TypeOK
<1>2. TypeOK' /\ CountersInv'
  BY <1>1 DEF Inv, TypeOK, CountersInv
<1>3. StreamsInv'
  <2>1. \A k \in SessionIds : session[k].born => session'[k].born
    BY <1>1
  <2> QED BY <2>1, StreamFrame DEF Inv, StreamsInv
<1>4. ASSUME NEW k \in SessionIds PROVE SessionInv(k)'
  <2>1. CASE k # i
    BY <2>1, <1>1, SessionFrame DEF Inv, SessionsInv
  <2> QED BY <2>1
<1>5. CurrentInv'
  <2>1. \A k \in SessionIds : /\ session'[k].born = session[k].born
                              /\ session'[k].stopped = session[k].stopped
                              /\ session'[k].consumers = session[k].consumers
    BY <1>1
  <2> QED BY <2>1, CurrentFrame DEF Uses
<1> QED BY <1>2, <1>3, <1>4, <1>5 DEF Inv, SessionsInv

-----------------------------------------------------------------------------
(* The steps of a response.                                                *)

LEMMA IdleIn == IdleStream \in Stream
BY Last DEF IdleStream, Stream, StreamPc

LEMMA StreamType ==
    ASSUME Inv, NEW s \in Streams
    PROVE  /\ stream[s] \in Stream /\ StreamInv(s)
           /\ stream[s].session \in SessionIds \cup {NoSession}
           /\ stream[s].from \in Segments /\ stream[s].pos \in Segments
           /\ stream[s].to \in Segments /\ stream[s].sent \in SUBSET Segments
           /\ stream[s].lost \in SUBSET Segments
           /\ stream[s].held \in BOOLEAN /\ stream[s].remote \in BOOLEAN
           /\ files \in SUBSET Segments /\ writes \in SUBSET Segments
           /\ failures \in Nat /\ clears \in Nat /\ discards \in Nat
BY DEF Inv, TypeOK, CountersInv, StreamsInv, Stream

\* A response that ends keeps its session until it has looked up another.
LEMMA LeaveType ==
    ASSUME Inv, NEW s \in Streams, NEW new, stream[s].pc \notin {"idle", "acquire"},
           new = [IdleStream EXCEPT !.pc = "lookup", !.session = stream[s].session]
    PROVE  /\ new \in Stream /\ new.pc = "lookup" /\ new.session = stream[s].session
           /\ new.from = 0 /\ new.pos = 0 /\ new.to = 0
BY StreamType, IdleIn DEF Stream, StreamPc, IdleStream

LEMMA LeaveStep ==
    ASSUME Inv, NEW s \in Streams, Leave(s), stream[s].pc \notin {"idle", "acquire"},
           UNCHANGED <<session, current, clears, discards>>, files' = files,
           writes' \in SUBSET Segments, failures' \in Nat
    PROVE  Inv'
<1> DEFINE new == [IdleStream EXCEPT !.pc = "lookup", !.session = stream[s].session]
<1>1. new \in Stream /\ new.pc = "lookup" /\ new.session = stream[s].session
      /\ new.from = 0 /\ new.pos = 0 /\ new.to = 0
  BY LeaveType
<1>2. stream' = [stream EXCEPT ![s] = new]
  BY Zenon DEF Leave
<1> HIDE DEF new
<1>3. stream'[s] = new
  BY <1>2 DEF Inv, TypeOK
<1>4. StreamInv(s)'
  BY <1>1, <1>3, StreamType DEF StreamInv, Reading
<1>5. Uses(s, current) => Uses(s, current)'
  BY <1>1, <1>3 DEF Uses
<1> QED BY <1>1, <1>2, <1>4, <1>5, StreamType, StreamCore

\* A step that moves a response on, within its range and with its session.
LEMMA MoveStep ==
    ASSUME Inv, NEW s \in Streams, NEW new \in Stream, stream' = [stream EXCEPT ![s] = new],
           stream[s].pc \notin {"idle", "acquire", "lookup", "release"},
           new.pc \notin {"idle", "acquire", "lookup", "release"},
           new.pc = "file" => new.pos \in files,
           new.session = stream[s].session, new.from = stream[s].from,
           new.pos = stream[s].pos, new.to = stream[s].to, new.remote = stream[s].remote,
           UNCHANGED <<session, current, clears, discards>>, files' = files,
           writes' \in SUBSET Segments, failures' \in Nat
    PROVE  Inv'
<1>1. stream'[s] = new
  BY DEF Inv, TypeOK
<1>2. StreamInv(s)'
  BY <1>1, StreamType DEF StreamInv, Reading
<1>3. Uses(s, current) => Uses(s, current)'
  BY <1>1 DEF Uses
<1> QED BY <1>2, <1>3, StreamType, StreamCore

LEMMA GotoStep ==
    ASSUME Inv, NEW s \in Streams, NEW pc \in {"file", "request"}, Goto(s, pc),
           stream[s].pc \notin {"idle", "acquire", "lookup", "release"},
           pc = "file" => stream[s].pos \in files,
           UNCHANGED <<session, current, clears, discards>>, files' = files,
           writes' \in SUBSET Segments, failures' \in Nat
    PROVE  Inv'
<1> DEFINE new == [stream[s] EXCEPT !.pc = pc]
<1>1. stream' = [stream EXCEPT ![s] = new]
  BY Zenon DEF Goto
<1>2. new \in Stream /\ new.pc = pc
      /\ new.session = stream[s].session /\ new.from = stream[s].from
      /\ new.pos = stream[s].pos /\ new.to = stream[s].to /\ new.remote = stream[s].remote
  BY StreamType DEF Stream, StreamPc
<1> HIDE DEF new
<1> QED BY <1>1, <1>2, MoveStep

LEMMA YieldType ==
    ASSUME Inv, NEW s \in Streams, Yield(s)
    PROVE  \E new \in Stream :
              /\ stream' = [stream EXCEPT ![s] = new]
              /\ new.pc = "yielded" /\ Past(new) = Past(stream[s]) \cup {stream[s].pos}
              /\ new.session = stream[s].session /\ new.from = stream[s].from
              /\ new.pos = stream[s].pos /\ new.to = stream[s].to /\ new.remote = stream[s].remote
<1> DEFINE new == [stream[s] EXCEPT !.pc = "yielded", !.held = FALSE, !.sent = @ \cup {stream[s].pos}]
<1>1. stream' = [stream EXCEPT ![s] = new]
  BY Zenon DEF Yield
<1>2. /\ new \in Stream
      /\ new.pc = "yielded" /\ Past(new) = Past(stream[s]) \cup {stream[s].pos}
      /\ new.session = stream[s].session /\ new.from = stream[s].from
      /\ new.pos = stream[s].pos /\ new.to = stream[s].to /\ new.remote = stream[s].remote
  BY StreamType DEF Stream, StreamPc, Past
<1> HIDE DEF new
<1> QED BY <1>1, <1>2

\* A response whose download is refused, and swallowed, moves on.
LEMMA LoseType ==
    ASSUME Inv, NEW s \in Streams, LoseSegment(s)
    PROVE  \E new \in Stream :
              /\ stream' = [stream EXCEPT ![s] = new]
              /\ new.pc = "request" /\ Past(new) = Past(stream[s]) \cup {stream[s].pos}
              /\ new.session = stream[s].session /\ new.from = stream[s].from
              /\ new.pos = stream[s].pos /\ new.to = stream[s].to /\ new.remote = stream[s].remote
<1> DEFINE new == [stream[s] EXCEPT !.pc = "request", !.lost = @ \cup {stream[s].pos}]
<1>1. stream' = [stream EXCEPT ![s] = new]
  BY Zenon DEF LoseSegment
<1>2. /\ new \in Stream
      /\ new.pc = "request" /\ Past(new) = Past(stream[s]) \cup {stream[s].pos}
      /\ new.session = stream[s].session /\ new.from = stream[s].from
      /\ new.pos = stream[s].pos /\ new.to = stream[s].to /\ new.remote = stream[s].remote
  BY StreamType DEF Stream, StreamPc, Past
<1> HIDE DEF new
<1> QED BY <1>1, <1>2

LEMMA LoseStep ==
    ASSUME Inv, NEW s \in Streams, LoseSegment(s),
           stream[s].pc \notin {"idle", "acquire", "lookup", "release"},
           UNCHANGED <<session, current, clears, discards>>, files' = files,
           writes' \in SUBSET Segments, failures' \in Nat
    PROVE  Inv'
<1>1. PICK new \in Stream :
          /\ stream' = [stream EXCEPT ![s] = new] /\ new.pc = "request"
          /\ new.session = stream[s].session /\ new.from = stream[s].from
          /\ new.pos = stream[s].pos /\ new.to = stream[s].to /\ new.remote = stream[s].remote
  BY LoseType
<1> QED BY <1>1, MoveStep

LEMMA YieldStep ==
    ASSUME Inv, NEW s \in Streams, Yield(s),
           stream[s].pc \notin {"idle", "acquire", "lookup", "release"},
           UNCHANGED <<session, current, clears, discards>>, files' = files,
           writes' \in SUBSET Segments, failures' \in Nat
    PROVE  Inv'
BY YieldType, MoveStep

LEMMA PrepareStep ==
    ASSUME Inv, NEW s \in Streams, Prepare(s)
    PROVE  Inv'
<1>1. stream[s].pc = "idle" /\ UNCHANGED <<writes, session, current>>
  BY DEF Prepare
<1>2. PICK r \in Ranges :
          \/ /\ Works
             /\ files' = files \cup {r[1]}
             /\ stream' = [stream EXCEPT ![s] =
                    [IdleStream EXCEPT !.pc = "acquire", !.from = r[1], !.pos = r[1], !.to = r[2],
                                       !.held = r[1] \notin files,
                                       !.remote = ~(r[1]..r[2] \subseteq files)]]
          \/ r[1] \notin files /\ Fails /\ UNCHANGED <<files, stream>>
  BY Zenon DEF Prepare
<1>3. r[1] \in Segments /\ r[2] \in Segments /\ r[1] <= r[2]
  BY RangeIn
<1>4. CASE Fails /\ UNCHANGED <<files, stream>>
  <2> DEFINE new == stream[s]
  <2>1. stream' = [stream EXCEPT ![s] = new]
    BY <1>4 DEF Inv, TypeOK
  <2>2. StreamInv(s)'
    BY <1>1, <1>4, StreamType, StreamFrame DEF Fails
  <2>3. failures' \in Nat /\ UNCHANGED <<clears, discards>>
    BY <1>4, StreamType DEF Fails
  <2>4. ~Uses(s, current)
    BY <1>1 DEF Uses
  <2>5. new \in Stream
    BY StreamType
  <2> HIDE DEF new
  <2> QED BY <1>1, <1>4, <2>1, <2>2, <2>3, <2>4, <2>5, StreamType, StreamCore
<1>5. CASE /\ Works
           /\ files' = files \cup {r[1]}
           /\ stream' = [stream EXCEPT ![s] =
                  [IdleStream EXCEPT !.pc = "acquire", !.from = r[1], !.pos = r[1], !.to = r[2],
                                     !.held = r[1] \notin files,
                                     !.remote = ~(r[1]..r[2] \subseteq files)]]
  <2> DEFINE new == [IdleStream EXCEPT !.pc = "acquire", !.from = r[1], !.pos = r[1], !.to = r[2],
                                       !.held = r[1] \notin files,
                                       !.remote = ~(r[1]..r[2] \subseteq files)]
  <2>1. stream' = [stream EXCEPT ![s] = new]
    BY <1>5, Zenon
  <2>2. new \in Stream /\ new.pc = "acquire" /\ new.from = r[1] /\ new.pos = r[1]
        /\ new.to = r[2] /\ new.remote = ~(r[1]..r[2] \subseteq files)
    BY <1>3, IdleIn DEF Stream, StreamPc, IdleStream
  <2> HIDE DEF new
  <2>3. stream'[s] = new
    BY <2>1 DEF Inv, TypeOK
  <2>4. StreamInv(s)'
    <3>1. ~new.remote => r[1]..r[2] \subseteq files'
      BY <1>5, <2>2
    <3>2. r[1] <= r[1]
      BY <1>3 DEF Segments
    <3> QED BY <1>3, <2>2, <2>3, <3>1, <3>2 DEF StreamInv, Reading
  <2>5. files \subseteq files' /\ files' \in SUBSET Segments
    BY <1>3, <1>5, StreamType
  <2>6. Uses(s, current) => Uses(s, current)'
    BY <1>1 DEF Uses
  <2> QED BY <1>1, <1>5, <2>1, <2>2, <2>4, <2>5, <2>6, StreamType, StreamCore
          DEF Works, counters
<1> QED BY <1>2, <1>4, <1>5

LEMMA DiscardStep ==
    ASSUME Inv, NEW s \in Streams, Discard(s)
    PROVE  Inv'
<1>1. stream' = [stream EXCEPT ![s] = IdleStream] /\ discards' = discards + 1
      /\ UNCHANGED <<files, writes, session, current, failures, clears>>
  BY DEF Discard
<1>2. stream'[s] = IdleStream
  BY <1>1 DEF Inv, TypeOK
<1>3. StreamInv(s)'
  BY <1>2 DEF StreamInv, Reading, IdleStream
<1>4. discards' \in Nat /\ discards' # 0
  BY <1>1, StreamType
<1> QED BY <1>1, <1>3, <1>4, IdleIn, StreamType, StreamCore

LEMMA ReadSegmentStep ==
    ASSUME Inv, NEW s \in Streams, ReadSegment(s)
    PROVE  Inv'
<1>1. stream[s].pc \in {"opened", "next"} /\ UNCHANGED <<files, session, current>>
  BY DEF ReadSegment
<1>2. writes' \in SUBSET Segments /\ failures' \in Nat /\ UNCHANGED <<clears, discards>>
  BY StreamType DEF ReadSegment, Works, Fails, counters
<1>3. Leave(s) \/ Yield(s) \/ LoseSegment(s) \/ (Goto(s, "file") /\ stream[s].pos \in files)
  BY DEF ReadSegment, SourceFallback
<1> QED BY <1>1, <1>2, <1>3, LeaveStep, YieldStep, LoseStep, GotoStep

LEMMA ReadFileStep ==
    ASSUME Inv, NEW s \in Streams, ReadFile(s)
    PROVE  Inv'
BY LeaveStep, YieldStep, StreamType DEF ReadFile, counters

LEMMA ResumeStep ==
    ASSUME Inv, NEW s \in Streams, Resume(s)
    PROVE  Inv'
BY LeaveStep, GotoStep, StreamType DEF Resume, counters

LEMMA LookupStep ==
    ASSUME Inv, NEW s \in Streams, LookupSession(s)
    PROVE  Inv'
<1>1. stream[s].pc = "lookup" /\ UNCHANGED <<files, writes, session, current, counters>>
  BY DEF LookupSession
<1>2. stream' = [stream EXCEPT ![s] = IF current = NoSession THEN IdleStream
                                      ELSE [stream[s] EXCEPT !.pc = "release", !.session = current]]
  BY Zenon DEF LookupSession
<1>3. current \in SessionIds \cup {NoSession} /\ (current # NoSession => session[current].born)
  BY DEF Inv, TypeOK, CurrentInv
<1>4. CASE current = NoSession
  <2>1. stream' = [stream EXCEPT ![s] = IdleStream]
    BY <1>2, <1>4
  <2>2. stream'[s] = IdleStream
    BY <2>1 DEF Inv, TypeOK
  <2>3. StreamInv(s)'
    BY <2>2 DEF StreamInv, Reading, IdleStream
  <2> QED BY <1>1, <1>4, <2>1, <2>3, IdleIn, StreamType, StreamCore DEF counters
<1>5. CASE current # NoSession
  <2> DEFINE new == [stream[s] EXCEPT !.pc = "release", !.session = current]
  <2>1. stream' = [stream EXCEPT ![s] = new]
    BY <1>2, <1>5
  <2>2. new \in Stream /\ new.pc = "release" /\ new.session = current
        /\ new.from = stream[s].from /\ new.pos = stream[s].pos /\ new.to = stream[s].to
    BY <1>3, StreamType DEF Stream, StreamPc
  <2> HIDE DEF new
  <2>3. stream'[s] = new
    BY <2>1 DEF Inv, TypeOK
  <2>4. StreamInv(s)'
    BY <1>1, <1>3, <1>5, <2>2, <2>3, StreamType DEF StreamInv, Reading
  <2>5. Uses(s, current)'
    BY <1>1, <2>2, <2>3 DEF Uses
  <2> QED BY <1>1, <2>1, <2>2, <2>4, <2>5, StreamType, StreamCore DEF counters, Uses
<1> QED BY <1>4, <1>5

-----------------------------------------------------------------------------
(* The steps that a response takes together with a session.                *)

LEMMA SessionType ==
    ASSUME Inv, NEW i \in SessionIds
    PROVE  /\ session[i] \in Session /\ SessionInv(i)
           /\ session[i].consumers \in Nat
           /\ session[i].ahead \in 0..(LastSegment + 1) /\ session[i].next \in 0..(LastSegment + 1)
           /\ session[i].completed \in SUBSET Segments /\ session[i].inflight \in SUBSET Segments
           /\ session[i].fetched \in SUBSET Segments
           /\ session[i].born \in BOOLEAN /\ session[i].stopped \in BOOLEAN
BY DEF Inv, TypeOK, SessionsInv, Session

LEMMA UsersAreFew ==
    /\ \A i : IsFiniteSet(Users(i)) /\ Cardinality(Users(i)) \in Nat
    /\ \A i : IsFiniteSet(Users(i)') /\ Cardinality(Users(i)') \in Nat
<1>1. \A i : Users(i) \subseteq Streams /\ Users(i)' \subseteq Streams
  BY DEF Users
<1> QED BY <1>1, PlaybackAssumption, FS_Subset, FS_CardinalityType

\* One response and one session step.
LEMMA BothCore ==
    ASSUME Inv, NEW s \in Streams, NEW i \in SessionIds, NEW new \in Stream, NEW other \in Session,
           stream' = [stream EXCEPT ![s] = new], session' = [session EXCEPT ![i] = other],
           other.born, current' \in SessionIds \cup {NoSession},
           UNCHANGED <<files, writes, counters>>, StreamInv(s)', SessionInv(i)', CurrentInv',
           \A k \in SessionIds \ {i} : current = k /\ ~session[k].stopped => current' = k
    PROVE  Inv'
<1>1. /\ stream' \in [Streams -> Stream] /\ \A u \in Streams \ {s} : stream'[u] = stream[u]
      /\ session' \in [SessionIds -> Session] /\ session'[i] = other
      /\ \A k \in SessionIds \ {i} : session'[k] = session[k]
  BY DEF Inv, TypeOK
<1>2. TypeOK' /\ CountersInv'
  BY <1>1 DEF Inv, TypeOK, CountersInv, counters
<1>3. ASSUME NEW u \in Streams PROVE StreamInv(u)'
  <2>1. \A k \in SessionIds : session[k].born => session'[k].born
    BY <1>1
  <2>2. CASE u # s
    BY <2>1, <2>2, <1>1, StreamFrame DEF Inv, StreamsInv, counters
  <2> QED BY <2>2
<1>4. ASSUME NEW k \in SessionIds PROVE SessionInv(k)'
  <2>1. CASE k # i
    BY <2>1, <1>1, SessionFrame DEF Inv, SessionsInv
  <2> QED BY <2>1
<1> QED BY <1>2, <1>3, <1>4 DEF Inv, StreamsInv, SessionsInv

LEMMA OpenedType ==
    ASSUME Inv, NEW s \in Streams, NEW i \in SessionIds
    PROVE  LET new == [stream[s] EXCEPT !.pc = "opened", !.session = i] IN
           /\ new \in Stream /\ new.pc = "opened" /\ new.session = i
           /\ new.from = stream[s].from /\ new.pos = stream[s].pos /\ new.to = stream[s].to
           /\ new.remote = stream[s].remote /\ Past(new) = Past(stream[s])
BY StreamType DEF Stream, StreamPc, Past

LEMMA AcquireOldStep ==
    ASSUME Inv, NEW s \in Streams, Acquire(s), current # NoSession, ~session[current].stopped
    PROVE  Inv'
<1>1. stream[s].pc = "acquire" /\ UNCHANGED <<files, writes, counters, current>>
      /\ session' = [session EXCEPT ![current].consumers = @ + 1]
      /\ stream' = [stream EXCEPT ![s].pc = "opened", ![s].session = current]
  BY Zenon DEF Acquire
<1>2. PICK i \in SessionIds : i = current
  BY DEF Inv, TypeOK
<1> DEFINE new == [stream[s] EXCEPT !.pc = "opened", !.session = i]
           other == [session[i] EXCEPT !.consumers = session[i].consumers + 1]
<1>3. stream' = [stream EXCEPT ![s] = new]
  BY <1>1, <1>2 DEF Inv, TypeOK
<1>4. session' = [session EXCEPT ![i] = other]
  BY <1>1, <1>2
<1>5. new \in Stream /\ new.pc = "opened" /\ new.session = i /\ new.from = stream[s].from
      /\ new.pos = stream[s].pos /\ new.to = stream[s].to /\ new.remote = stream[s].remote
  BY OpenedType
<1>6. session[i].consumers + 1 \in Nat
  BY SessionType
<1>7. /\ other \in Session /\ other.born = session[i].born /\ other.stopped = session[i].stopped
      /\ other.thread = session[i].thread /\ other.ahead = session[i].ahead
      /\ other.next = session[i].next /\ other.completed = session[i].completed
      /\ other.inflight = session[i].inflight /\ other.consumers = session[i].consumers + 1
  BY <1>6, SessionType DEF Session
<1> HIDE DEF new, other
<1>8. stream'[s] = new /\ session'[i] = other /\ \A u \in Streams \ {s} : stream'[u] = stream[u]
  BY <1>3, <1>4 DEF Inv, TypeOK
<1>9. session[i].born
  BY <1>2 DEF Inv, CurrentInv
<1>10. StreamInv(s)'
  BY <1>1, <1>5, <1>7, <1>8, <1>9, StreamType DEF StreamInv, Reading, counters
<1>11. SessionInv(i)'
  BY <1>1, <1>2, <1>7, <1>8, SessionType DEF SessionInv, At, Spent, Unknown, WindowStart
<1>12. CurrentInv'
  <2>1. Users(i)' = Users(i) \cup {s} /\ s \notin Users(i)
    BY <1>1, <1>5, <1>8 DEF Users, Uses
  <2>2. Cardinality(Users(i)') = Cardinality(Users(i)) + 1
    BY <2>1, UsersAreFew, FS_AddElement
  <2>3. discards = 0 => session[i].consumers >= 1
                        /\ session[i].consumers <= Cardinality(Users(i))
    BY <1>2 DEF Inv, CurrentInv
  <2>4. discards = 0 => session'[i].consumers >= 1
                        /\ session'[i].consumers <= Cardinality(Users(i)')
    BY <2>2, <2>3, <1>7, <1>8, SessionType, UsersAreFew
  <2> QED BY <2>4, <1>1, <1>2, <1>7, <1>8, <1>9 DEF CurrentInv, counters
<1> QED BY <1>1, <1>2, <1>3, <1>4, <1>5, <1>7, <1>9, <1>10, <1>11, <1>12, BothCore

LEMMA AcquireNewStep ==
    ASSUME Inv, NEW s \in Streams, Acquire(s), current = NoSession \/ session[current].stopped
    PROVE  Inv'
<1>1. stream[s].pc = "acquire" /\ UNCHANGED <<files, writes, counters>>
  BY DEF Acquire
<1>2. PICK i \in SessionIds :
          /\ ~session[i].born
          /\ session' = [session EXCEPT ![i] =
                 [UnbornSession EXCEPT !.born = TRUE, !.consumers = 1]]
          /\ stream' = [stream EXCEPT ![s].pc = "opened", ![s].session = i]
          /\ current' = i
  BY Zenon DEF Acquire
<1> DEFINE new == [stream[s] EXCEPT !.pc = "opened", !.session = i]
           other == [UnbornSession EXCEPT !.born = TRUE, !.consumers = 1]
<1>3. stream' = [stream EXCEPT ![s] = new]
  BY <1>2 DEF Inv, TypeOK
<1>4. session' = [session EXCEPT ![i] = other]
  BY <1>2
<1>5. new \in Stream /\ new.pc = "opened" /\ new.session = i /\ new.from = stream[s].from
      /\ new.pos = stream[s].pos /\ new.to = stream[s].to /\ new.remote = stream[s].remote
  BY OpenedType
<1>6. /\ other \in Session /\ other.born /\ other.thread = "none" /\ other.consumers = 1
  <2>1. 0 \in 0..(LastSegment + 1)
    BY Last
  <2> QED BY <2>1 DEF Session, UnbornSession, ThreadPc
<1> HIDE DEF new, other
<1>7. stream'[s] = new /\ session'[i] = other
  BY <1>3, <1>4 DEF Inv, TypeOK
<1>8. StreamInv(s)'
  BY <1>1, <1>5, <1>6, <1>7, StreamType DEF StreamInv, Reading, counters
<1>9. SessionInv(i)'
  BY <1>2, <1>6, <1>7 DEF SessionInv, At
<1>10. CurrentInv'
  <2>1. s \in Users(i)'
    BY <1>5, <1>7 DEF Users, Uses
  <2>2. Cardinality(Users(i)') >= 1
    BY <2>1, UsersAreFew, FS_EmptySet
  <2> QED BY <2>2, <1>2, <1>6, <1>7 DEF CurrentInv
<1>11. \A k \in SessionIds \ {i} : current = k /\ ~session[k].stopped => current' = k
  BY NoneIsNoId
<1> QED BY <1>1, <1>2, <1>3, <1>4, <1>5, <1>6, <1>8, <1>9, <1>10, <1>11, BothCore

LEMMA RequestPrefetchStep ==
    ASSUME Inv, NEW s \in Streams, RequestPrefetch(s)
    PROVE  Inv'
<1>1. PICK i \in SessionIds : i = stream[s].session /\ session[i].born
  BY StreamType DEF StreamInv, RequestPrefetch
<1> DEFINE ahead == Max({session[i].ahead, stream[s].pos + 1})
           next == Max({session[i].next, ahead})
           new == [stream[s] EXCEPT !.pc = "start"]
           other == [session[i] EXCEPT !.ahead = ahead, !.next = next]
<1>2. stream[s].pc = "request" /\ UNCHANGED <<files, writes, current, counters>>
  BY DEF RequestPrefetch
<1>3. stream' = [stream EXCEPT ![s] = new]
  BY Zenon DEF RequestPrefetch, Goto
<1>4. session' = [session EXCEPT ![i].ahead = ahead, ![i].next = next]
  BY <1>1, Zenon DEF RequestPrefetch
<1>5. session' = [session EXCEPT ![i] = other]
  BY <1>4 DEF Inv, TypeOK, Session
<1>6. new \in Stream /\ new.pc = "start" /\ new.session = stream[s].session
      /\ new.from = stream[s].from
      /\ new.pos = stream[s].pos /\ new.to = stream[s].to /\ new.remote = stream[s].remote
  BY StreamType DEF Stream, StreamPc
<1>7. /\ ahead \in 0..(LastSegment + 1) /\ next \in 0..(LastSegment + 1)
      /\ session[i].ahead <= ahead /\ session[i].next <= next
  <2> DEFINE a == session[i].ahead
             b == session[i].next
             c == stream[s].pos + 1
  <2>1. a \in 0..(LastSegment + 1) /\ b \in 0..(LastSegment + 1) /\ c \in 0..(LastSegment + 1)
        /\ a \in Int /\ b \in Int /\ c \in Int
    BY SessionType, StreamType, Last DEF Segments
  <2> HIDE DEF a, b, c
  <2>2. ahead \in {a, c} /\ ahead >= a
    BY <2>1, MaxOfTwo DEF a, c
  <2>3. ahead \in Int /\ ahead \in 0..(LastSegment + 1)
    BY <2>1, <2>2
  <2> HIDE DEF ahead
  <2>4. next \in {b, ahead} /\ next >= b
    BY <2>1, <2>3, MaxOfTwo DEF b
  <2>5. next \in 0..(LastSegment + 1) /\ next \in Int
    BY <2>1, <2>3, <2>4
  <2> HIDE DEF next
  <2> QED BY <2>1, <2>2, <2>3, <2>4, <2>5 DEF a, b
<1> HIDE DEF ahead, next
<1>8. /\ other \in Session /\ other.born = session[i].born /\ other.stopped = session[i].stopped
      /\ other.thread = session[i].thread /\ other.ahead = ahead /\ other.next = next
      /\ other.completed = session[i].completed /\ other.inflight = session[i].inflight
      /\ other.consumers = session[i].consumers
  BY <1>7, SessionType DEF Session
<1> HIDE DEF new, other
<1>9. /\ stream'[s] = new /\ session'[i] = other
      /\ \A u \in Streams \ {s} : stream'[u] = stream[u]
      /\ \A k \in SessionIds \ {i} : session'[k] = session[k]
  BY <1>3, <1>5 DEF Inv, TypeOK
<1>10. StreamInv(s)'
  BY <1>1, <1>2, <1>6, <1>8, <1>9, StreamType DEF StreamInv, Reading, counters
<1>11. Unknown(i)' \subseteq Unknown(i)
  <2> DEFINE low == WindowStart(i)
             high == WindowStart(i)'
  <2>1. session[i].ahead \in Int /\ session[i].next \in Int /\ ahead \in Int /\ next \in Int
        /\ session'[i].ahead = ahead /\ session'[i].next = next
    BY <1>7, <1>8, <1>9, SessionType
  <2>2. low \in {session[i].next, session[i].ahead}
    BY <2>1, MaxOfTwo DEF WindowStart
  <2>3. high \in {next, ahead} /\ high >= next /\ high >= ahead
    BY <2>1, MaxOfTwo DEF WindowStart
  <2>4. low \in Int /\ high \in Int /\ low <= high
    <3> HIDE DEF low, high
    <3> QED BY <2>1, <2>2, <2>3, <1>7
  <2>5. high..LastSegment \subseteq low..LastSegment
    <3> HIDE DEF low, high
    <3> QED BY <2>4, Last
  <2> QED BY <2>5, <1>8, <1>9 DEF Unknown
<1>12. SessionInv(i)'
  BY <1>1, <1>2, <1>8, <1>9, <1>11, SessionType DEF SessionInv, At, Spent
<1>13. CurrentInv'
  <2>1. \A k \in SessionIds : /\ session'[k].born = session[k].born
                              /\ session'[k].stopped = session[k].stopped
                              /\ session'[k].consumers = session[k].consumers
    <3>1. ASSUME NEW k \in SessionIds, k # i PROVE session'[k] = session[k]
      BY <3>1, <1>9
    <3> QED BY <3>1, <1>8, <1>9
  <2>2. \A u \in Streams : Uses(u, current) => Uses(u, current)'
    BY <1>2, <1>6, <1>9 DEF Uses
  <2> QED BY <1>2, <2>1, <2>2, CurrentFrame DEF counters
<1>14. current' \in SessionIds \cup {NoSession}
  BY <1>2 DEF Inv, TypeOK
<1>15. \A k \in SessionIds \ {i} : current = k /\ ~session[k].stopped => current' = k
  BY <1>2
<1> QED BY <1>1, <1>2, <1>3, <1>5, <1>6, <1>8, <1>10, <1>12, <1>13, <1>14, <1>15, BothCore

LEMMA StartThreadStep ==
    ASSUME Inv, NEW s \in Streams, StartThread(s)
    PROVE  Inv'
<1>1. PICK i \in SessionIds : i = stream[s].session /\ session[i].born
  BY StreamType DEF StreamInv, StartThread
<1>2. stream[s].pc = "start" /\ UNCHANGED <<files, writes, current, counters>>
  BY DEF StartThread
<1>3. PICK new \in Stream :
          /\ stream' = [stream EXCEPT ![s] = new]
          /\ new.session = stream[s].session /\ new.pc \in {"lookup", "next"}
          /\ new.from <= new.pos /\ new.pos <= new.to
          /\ new.pc = "next" => /\ new.from = stream[s].from /\ new.to = stream[s].to
                                /\ new.remote = stream[s].remote
  <2>1. CASE stream[s].pos = stream[s].to
    <3> DEFINE new == [IdleStream EXCEPT !.pc = "lookup", !.session = stream[s].session]
    <3>1. stream' = [stream EXCEPT ![s] = new]
      BY <2>1, Zenon DEF StartThread, Leave
    <3>2. new \in Stream /\ new.pc = "lookup" /\ new.session = stream[s].session
          /\ new.from = 0 /\ new.pos = 0 /\ new.to = 0
      BY <1>2, LeaveType
    <3> HIDE DEF new
    <3>3. new.from <= new.pos /\ new.pos <= new.to /\ new.pc # "next"
      BY <3>2
    <3> QED BY <3>1, <3>2, <3>3
  <2>2. CASE stream[s].pos # stream[s].to
    <3> DEFINE pos == stream[s].pos + 1
               new == [stream[s] EXCEPT !.pc = "next", !.pos = pos]
    <3>1. stream' = [stream EXCEPT ![s].pc = "next", ![s].pos = pos]
      BY <2>2, Zenon DEF StartThread
    <3>2. pos \in Segments /\ stream[s].from <= pos /\ pos <= stream[s].to
      BY <2>2, StreamType, Last DEF StreamInv, Segments
    <3> HIDE DEF pos
    <3>3. stream' = [stream EXCEPT ![s] = new]
      BY <3>1 DEF Inv, TypeOK
    <3>4. /\ new \in Stream /\ new.session = stream[s].session /\ new.pc = "next"
          /\ new.from = stream[s].from /\ new.to = stream[s].to
          /\ new.remote = stream[s].remote /\ new.pos = pos
      BY <3>2, StreamType DEF Stream, StreamPc
    <3> HIDE DEF new
    <3> QED BY <3>2, <3>3, <3>4
  <2> QED BY <2>1, <2>2
<1> DEFINE thread == IF session[i].thread = "none" THEN "build" ELSE session[i].thread
           other == [session[i] EXCEPT !.thread = thread]
<1>4. session' = [session EXCEPT ![i] = other]
  BY <1>1, Zenon DEF StartThread
<1>5. thread \in ThreadPc
  BY SessionType DEF Session, ThreadPc
<1>6. thread = session[i].thread \/ (thread = "build" /\ session[i].thread = "none")
  OBVIOUS
<1> HIDE DEF thread
<1>7. /\ other \in Session /\ other.born = session[i].born /\ other.stopped = session[i].stopped
      /\ other.thread = thread /\ other.ahead = session[i].ahead
      /\ other.next = session[i].next /\ other.completed = session[i].completed
      /\ other.inflight = session[i].inflight /\ other.consumers = session[i].consumers
  BY <1>5, SessionType DEF Session
<1> HIDE DEF other
<1>8. /\ stream'[s] = new /\ session'[i] = other
      /\ \A u \in Streams \ {s} : stream'[u] = stream[u]
      /\ \A k \in SessionIds \ {i} : session'[k] = session[k]
  BY <1>3, <1>4 DEF Inv, TypeOK
<1>9. StreamInv(s)'
  BY <1>1, <1>2, <1>3, <1>7, <1>8, StreamType DEF StreamInv, Reading, counters
<1>10. SessionInv(i)'
  <2>1. Unknown(i)' = Unknown(i)
    BY <1>7, <1>8 DEF Unknown, WindowStart
  <2>2. SessionInv(i)
    BY SessionType
  <2>3. current' = current /\ session'[i].thread = thread
        /\ session[i].born /\ session'[i].born /\ session'[i].stopped = session[i].stopped
        /\ session'[i].inflight = session[i].inflight
    BY <1>1, <1>2, <1>7, <1>8
  <2> QED BY <1>6, <2>1, <2>2, <2>3 DEF SessionInv, At, Spent
<1>11. CurrentInv'
  <2>1. \A k \in SessionIds : /\ session'[k].born = session[k].born
                              /\ session'[k].stopped = session[k].stopped
                              /\ session'[k].consumers = session[k].consumers
    <3>1. ASSUME NEW k \in SessionIds, k # i PROVE session'[k] = session[k]
      BY <3>1, <1>8
    <3> QED BY <3>1, <1>7, <1>8
  <2>2. \A u \in Streams : Uses(u, current) => Uses(u, current)'
    BY <1>2, <1>3, <1>8 DEF Uses
  <2> QED BY <1>2, <2>1, <2>2, CurrentFrame DEF counters
<1>12. current' \in SessionIds \cup {NoSession}
       /\ \A k \in SessionIds \ {i} : current = k /\ ~session[k].stopped => current' = k
  BY <1>2 DEF Inv, TypeOK
<1> QED BY <1>1, <1>2, <1>3, <1>4, <1>7, <1>9, <1>10, <1>11, <1>12, BothCore

LEMMA ReleaseStep ==
    ASSUME Inv, NEW s \in Streams, ReleaseSession(s)
    PROVE  Inv'
<1>1. PICK i \in SessionIds : i = stream[s].session /\ session[i].born
  BY StreamType DEF StreamInv, ReleaseSession
<1> DEFINE left == IF session[i].consumers = 0 THEN 0 ELSE session[i].consumers - 1
           stopped == session[i].stopped \/ left = 0
           other == [session[i] EXCEPT !.consumers = left, !.stopped = stopped]
<1>2. stream[s].pc = "release" /\ UNCHANGED <<files, writes, current, counters>>
      /\ stream' = [stream EXCEPT ![s] = IdleStream]
  BY DEF ReleaseSession
<1>3. session' = [session EXCEPT ![i].consumers = left, ![i].stopped = stopped]
  BY <1>1, Zenon DEF ReleaseSession
<1>4. left \in Nat /\ stopped \in BOOLEAN /\ (session[i].stopped => stopped)
      /\ (~stopped => left = session[i].consumers - 1 /\ left >= 1)
  BY SessionType
<1> HIDE DEF left, stopped
<1>5. session' = [session EXCEPT ![i] = other]
  BY <1>3 DEF Inv, TypeOK, Session
<1>6. /\ other \in Session /\ other.born = session[i].born /\ other.stopped = stopped
      /\ other.thread = session[i].thread /\ other.ahead = session[i].ahead
      /\ other.next = session[i].next /\ other.completed = session[i].completed
      /\ other.inflight = session[i].inflight /\ other.consumers = left
  BY <1>4, SessionType DEF Session
<1> HIDE DEF other
<1>7. /\ stream'[s] = IdleStream /\ session'[i] = other
      /\ \A u \in Streams \ {s} : stream'[u] = stream[u]
      /\ \A k \in SessionIds \ {i} : session'[k] = session[k]
  BY <1>2, <1>5 DEF Inv, TypeOK
<1>8. StreamInv(s)'
  BY <1>7 DEF StreamInv, Reading, IdleStream
<1>9. SessionInv(i)'
  <2>1. Unknown(i)' = Unknown(i)
    BY <1>6, <1>7 DEF Unknown, WindowStart
  <2>2. SessionInv(i)
    BY SessionType
  <2>3. current' = current /\ session'[i].thread = session[i].thread
        /\ session[i].born /\ session'[i].born /\ (session[i].stopped => session'[i].stopped)
        /\ session'[i].inflight = session[i].inflight
    BY <1>1, <1>2, <1>4, <1>6, <1>7
  <2> QED BY <2>1, <2>2, <2>3 DEF SessionInv, At, Spent
<1>10. CurrentInv'
  <2>1. CASE current = i
    <3>1. Users(i)' = Users(i) \ {s} /\ s \in Users(i)
      BY <1>1, <1>2, <1>7 DEF Users, Uses, IdleStream
    <3>2. Cardinality(Users(i)') = Cardinality(Users(i)) - 1
      BY <3>1, UsersAreFew, FS_RemoveElement
    <3>3. discards = 0 /\ ~session[i].stopped =>
             session[i].consumers <= Cardinality(Users(i))
      BY <2>1, NoneIsNoId DEF Inv, CurrentInv
    <3>4. discards = 0 /\ ~session'[i].stopped =>
             session'[i].consumers >= 1 /\ session'[i].consumers <= Cardinality(Users(i)')
      BY <3>2, <3>3, <1>4, <1>6, <1>7, SessionType, UsersAreFew
    <3> QED BY <3>4, <2>1, <1>1, <1>2, <1>6, <1>7 DEF CurrentInv, counters
  <2>2. CASE current # i /\ current # NoSession
    <3>1. current \in SessionIds
      BY <2>2 DEF Inv, TypeOK
    <3>2. session'[current] = session[current]
      BY <2>2, <3>1, <1>7
    <3>3. Users(current)' = Users(current)
      BY <2>2, <1>1, <1>2, <1>7 DEF Users, Uses, IdleStream
    <3> QED BY <3>2, <3>3, <1>2 DEF Inv, CurrentInv, counters
  <2>3. CASE current = NoSession
    BY <2>3, <1>2 DEF CurrentInv
  <2> QED BY <2>1, <2>2, <2>3
<1>11. current' \in SessionIds \cup {NoSession}
       /\ \A k \in SessionIds \ {i} : current = k /\ ~session[k].stopped => current' = k
  BY <1>2 DEF Inv, TypeOK
<1> QED BY <1>1, <1>2, <1>5, <1>6, <1>8, <1>9, <1>10, <1>11, IdleIn, BothCore

-----------------------------------------------------------------------------
(* The steps of a session's thread.                                        *)

\* The thread enters another place and leaves its session alone.
LEMMA EnterStep ==
    ASSUME Inv, NEW i \in SessionIds, NEW pc \in ThreadPc, Enter(i, pc),
           UNCHANGED <<files, writes, stream, current, clears, discards>>, failures' \in Nat,
           session[i].born,
           pc = "fail" => session[i].inflight # {},
           pc = "drain" => session[i].stopped,
           pc = "exit" => session[i].stopped \/ Spent(i),
           pc # "transfer"
    PROVE  Inv'
<1> DEFINE other == [session[i] EXCEPT !.thread = pc]
<1>1. session' = [session EXCEPT ![i] = other]
  BY Zenon DEF Enter
<1>2. /\ other \in Session /\ other.born = session[i].born /\ other.stopped = session[i].stopped
      /\ other.thread = pc /\ other.ahead = session[i].ahead
      /\ other.next = session[i].next /\ other.completed = session[i].completed
      /\ other.inflight = session[i].inflight /\ other.consumers = session[i].consumers
  BY SessionType DEF Session
<1> HIDE DEF other
<1>3. session'[i] = other
  BY <1>1 DEF Inv, TypeOK
<1>4. SessionInv(i)'
  BY <1>2, <1>3, SessionType DEF SessionInv, At, Spent, Unknown, WindowStart
<1>5. files' \in SUBSET Segments /\ files \subseteq files'
  BY DEF Inv, TypeOK
<1> QED BY <1>1, <1>2, <1>4, <1>5, ThreadCore

LEMMA RunningIsBorn ==
    ASSUME Inv, NEW i \in SessionIds, ~At(i, "none")
    PROVE  session[i].born
BY SessionType DEF SessionInv

LEMMA BuildStorageStep ==
    ASSUME Inv, NEW i \in SessionIds, BuildStorage(i)
    PROVE  Inv'
<1>1. session[i].born
  BY RunningIsBorn DEF BuildStorage, At
<1>2. failures + 1 \in Nat /\ failures \in Nat
  BY DEF Inv, CountersInv
<1> QED BY <1>1, <1>2, EnterStep DEF BuildStorage, Works, Fails, counters, ThreadPc

LEMMA SeeStopStep ==
    ASSUME Inv, NEW i \in SessionIds, SeeStop(i)
    PROVE  Inv'
<1>1. session[i].born
  BY RunningIsBorn DEF SeeStop, At
<1> QED BY <1>1, EnterStep DEF SeeStop, counters, ThreadPc, Inv, CountersInv

LEMMA DrainedStep ==
    ASSUME Inv, NEW i \in SessionIds, Drained(i)
    PROVE  Inv'
<1>1. session[i].born
  BY RunningIsBorn DEF Drained, At
<1>2. At(i, "fail") => Spent(i)
  BY SessionType DEF SessionInv, Spent
<1> QED BY <1>1, <1>2, EnterStep DEF Drained, At, counters, ThreadPc, Inv, CountersInv

LEMMA EndThreadStep ==
    ASSUME Inv, NEW i \in SessionIds, EndThread(i)
    PROVE  Inv'
<1>1. session[i].born
  BY RunningIsBorn DEF EndThread, At
<1> QED BY <1>1, EnterStep DEF EndThread, counters, ThreadPc, Inv, CountersInv

LEMMA EndTransferStep ==
    ASSUME Inv, NEW i \in SessionIds, EndTransfer(i)
    PROVE  Inv'
<1>1. session[i].born
  BY RunningIsBorn DEF EndTransfer, At
<1>2. failures + 1 \in Nat /\ failures \in Nat
  BY DEF Inv, CountersInv
<1>3. UNCHANGED <<files, writes, stream, current, clears, discards>> /\ failures' \in Nat
  BY <1>2 DEF EndTransfer, Works, Fails, counters
<1>4. \/ Enter(i, "loop")
      \/ session[i].stopped /\ Enter(i, "drain")
      \/ session[i].inflight # {} /\ Enter(i, "fail")
  BY DEF EndTransfer
<1> QED BY <1>1, <1>3, <1>4, EnterStep DEF ThreadPc

\* The window of a session lies in the video.
LEMMA WindowType ==
    ASSUME Inv, NEW i \in SessionIds
    PROVE  Unknown(i) \in SUBSET Segments /\ Batch(i) \subseteq Unknown(i)
<1>1. session[i].next \in Nat /\ session[i].ahead \in Nat
  BY SessionType, Last
<1>2. WindowStart(i) \in Nat
  <2>1. session[i].next \in Int /\ session[i].ahead \in Int
    BY <1>1
  <2>2. WindowStart(i) \in {session[i].next, session[i].ahead}
    BY <2>1, MaxOfTwo DEF WindowStart
  <2> QED BY <1>1, <2>2
<1>3. WindowStart(i)..LastSegment \subseteq Segments
  BY <1>2, Last DEF Segments
<1> QED BY <1>3 DEF Unknown, Batch, Missing

LEMMA NextBatchStep ==
    ASSUME Inv, NEW i \in SessionIds, NextBatch(i)
    PROVE  Inv'
<1> DEFINE batch == Batch(i)
           passed == {g \in Unknown(i) \cap files :
                         Cardinality(batch) = WindowSize => g < Max(batch)}
           pc == IF batch = {} THEN "check" ELSE "transfer"
           next == IF batch = {} THEN session[i].next ELSE Max(batch) + 1
           inflight == session[i].inflight \cup batch
           completed == IF session[i].inflight # {} THEN session[i].completed
                        ELSE session[i].completed \cup passed
           other == [session[i] EXCEPT !.thread = pc, !.next = next, !.inflight = inflight,
                                       !.completed = completed]
<1>1. At(i, "loop") /\ ~session[i].stopped
      /\ UNCHANGED <<files, writes, stream, current, counters>>
  BY DEF NextBatch
<1>2. session' = [session EXCEPT ![i].thread = pc, ![i].next = next, ![i].inflight = inflight,
                                 ![i].completed = completed]
  BY Zenon DEF NextBatch
<1>3. Unknown(i) \in SUBSET Segments /\ batch \subseteq Unknown(i) /\ passed \subseteq Unknown(i)
  BY WindowType
<1>4. inflight \in SUBSET Segments /\ completed \in SUBSET Segments
      /\ session[i].completed \subseteq completed /\ pc \in ThreadPc
  BY <1>3, SessionType DEF ThreadPc
<1>5. next \in 0..(LastSegment + 1)
  <2>1. CASE batch = {}
    BY <2>1, SessionType
  <2>2. CASE batch # {}
    <3> HIDE DEF batch
    <3>1. Max(batch) \in Segments
      BY <1>3, <2>2, MaxIn
    <3> QED BY <2>2, <3>1, Last DEF Segments
  <2> QED BY <2>1, <2>2
<1>6. Spent(i) => batch = {}
  BY <1>3 DEF Spent, Batch
<1>7. batch = {} => pc = "check" /\ next = session[i].next /\ inflight = session[i].inflight
  OBVIOUS
<1>8. pc \in {"check", "transfer"} /\ (pc = "transfer" => batch # {})
  OBVIOUS
<1> HIDE DEF batch, passed, pc, next, inflight, completed
<1>9. session' = [session EXCEPT ![i] = other]
  BY <1>2 DEF Inv, TypeOK, Session
<1>10. /\ other \in Session /\ other.born = session[i].born /\ other.stopped = session[i].stopped
       /\ other.consumers = session[i].consumers /\ other.ahead = session[i].ahead
       /\ other.thread = pc /\ other.next = next /\ other.inflight = inflight
       /\ other.completed = completed
  BY <1>4, <1>5, SessionType DEF Session
<1> HIDE DEF other
<1>11. session'[i] = other
  BY <1>9 DEF Inv, TypeOK
<1>12. batch = {} => Unknown(i)' \subseteq Unknown(i)
  BY <1>4, <1>7, <1>10, <1>11 DEF Unknown, WindowStart
<1>13. session[i].born
  BY <1>1, RunningIsBorn DEF At
<1>14. SessionInv(i)'
  <2>1. session'[i].thread = pc /\ session'[i].born /\ session'[i].inflight = inflight
    BY <1>10, <1>11, <1>13
  <2>2. current # i => Spent(i)
    BY <1>1, <1>13, SessionType DEF SessionInv
  <2>3. current # i => Spent(i)' /\ pc = "check"
    BY <2>1, <2>2, <1>6, <1>7, <1>12 DEF Spent
  <2> QED BY <1>1, <1>8, <2>1, <2>3 DEF SessionInv, At
<1>15. files \subseteq files' /\ files' \in SUBSET Segments /\ failures' \in Nat
  BY <1>1 DEF Inv, TypeOK, CountersInv, counters
<1> QED BY <1>1, <1>9, <1>10, <1>14, <1>15, ThreadCore DEF counters

LEMMA CheckFinishedStep ==
    ASSUME Inv, NEW i \in SessionIds, CheckFinished(i)
    PROVE  Inv'
<1> DEFINE finished == session[i].inflight = {} /\ Missing(i) = {}
           passed == {g \in Unknown(i) \cap files : \A h \in Missing(i) : g < h}
           pc == IF finished THEN "exit" ELSE "loop"
           completed == IF session[i].inflight # {} THEN session[i].completed
                        ELSE session[i].completed \cup passed
           other == [session[i] EXCEPT !.thread = pc, !.completed = completed]
<1>1. At(i, "check") /\ UNCHANGED <<files, writes, stream, current, counters>>
  BY DEF CheckFinished
<1>2. session' = [session EXCEPT ![i].thread = pc, ![i].completed = completed]
  BY Zenon DEF CheckFinished
<1>3. Unknown(i) \in SUBSET Segments /\ passed \subseteq Unknown(i)
  BY WindowType
<1>4. completed \in SUBSET Segments /\ session[i].completed \subseteq completed
      /\ pc \in ThreadPc
  BY <1>3, SessionType DEF ThreadPc
<1>5. finished => Unknown(i) \subseteq completed
  BY DEF Missing
<1>6. pc \in {"exit", "loop"} /\ (pc = "exit" => finished)
  OBVIOUS
<1> HIDE DEF finished, passed, pc, completed
<1>7. session' = [session EXCEPT ![i] = other]
  BY <1>2 DEF Inv, TypeOK, Session
<1>8. /\ other \in Session /\ other.born = session[i].born /\ other.stopped = session[i].stopped
      /\ other.consumers = session[i].consumers /\ other.ahead = session[i].ahead
      /\ other.thread = pc /\ other.next = session[i].next
      /\ other.inflight = session[i].inflight /\ other.completed = completed
  BY <1>4, SessionType DEF Session
<1> HIDE DEF other
<1>9. session'[i] = other
  BY <1>7 DEF Inv, TypeOK
<1>10. Unknown(i)' = Unknown(i) \ completed
  <2>1. WindowStart(i)' = WindowStart(i)
    BY <1>8, <1>9 DEF WindowStart
  <2> QED BY <2>1, <1>4, <1>8, <1>9 DEF Unknown
<1>11. session[i].born
  BY <1>1, RunningIsBorn DEF At
<1>12. SessionInv(i)'
  <2>1. session'[i].thread = pc /\ session'[i].born /\ session'[i].stopped = session[i].stopped
        /\ session'[i].inflight = session[i].inflight
    BY <1>8, <1>9, <1>11
  <2>2. Spent(i) => Spent(i)'
    BY <2>1, <1>10 DEF Spent
  <2>3. pc = "exit" => Spent(i)'
    BY <1>5, <1>6, <1>10 DEF Spent
  <2>4. ~session[i].stopped /\ current # i => Spent(i)
    BY <1>11, SessionType DEF SessionInv
  <2> QED BY <1>1, <1>6, <2>1, <2>2, <2>3, <2>4 DEF SessionInv, At
<1>13. files \subseteq files' /\ files' \in SUBSET Segments /\ failures' \in Nat
  BY <1>1 DEF Inv, TypeOK, CountersInv, counters
<1> QED BY <1>1, <1>7, <1>8, <1>12, <1>13, ThreadCore DEF counters

LEMMA FetchSegmentStep ==
    ASSUME Inv, NEW i \in SessionIds, NEW g \in Segments, FetchSegment(i, g)
    PROVE  Inv'
<1> DEFINE fetched == session[i].fetched \cup {g}
           other == [session[i] EXCEPT !.fetched = fetched]
<1>1. files' = files \cup {g} /\ UNCHANGED <<writes, stream, current, counters>>
  BY DEF FetchSegment
<1>2. session' = [session EXCEPT ![i] = other]
  BY Zenon DEF FetchSegment
<1>3. fetched \in SUBSET Segments
  BY SessionType
<1> HIDE DEF fetched
<1>4. /\ other \in Session /\ other.born = session[i].born /\ other.stopped = session[i].stopped
      /\ other.consumers = session[i].consumers /\ other.ahead = session[i].ahead
      /\ other.thread = session[i].thread /\ other.next = session[i].next
      /\ other.inflight = session[i].inflight /\ other.completed = session[i].completed
  BY <1>3, SessionType DEF Session
<1> HIDE DEF other
<1>5. session'[i] = other
  BY <1>2 DEF Inv, TypeOK
<1>6. SessionInv(i)'
  BY <1>1, <1>4, <1>5, SessionType DEF SessionInv, At, Spent, Unknown, WindowStart
<1>7. files \subseteq files' /\ files' \in SUBSET Segments /\ failures' \in Nat
  BY <1>1 DEF Inv, TypeOK, CountersInv, counters
<1> QED BY <1>1, <1>2, <1>4, <1>6, <1>7, ThreadCore DEF counters

LEMMA MarkCompletedStep ==
    ASSUME Inv, NEW i \in SessionIds, NEW g \in Segments, MarkCompleted(i, g)
    PROVE  Inv'
<1> DEFINE inflight == session[i].inflight \ {g}
           fetched == session[i].fetched \ {g}
           completed == session[i].completed \cup {g}
           other == [session[i] EXCEPT !.inflight = inflight, !.fetched = fetched,
                                       !.completed = completed]
<1>1. At(i, "transfer") /\ UNCHANGED <<files, writes, stream, current, counters>>
  BY DEF MarkCompleted
<1>2. session' = [session EXCEPT ![i].inflight = inflight, ![i].fetched = fetched,
                                 ![i].completed = completed]
  BY Zenon DEF MarkCompleted
<1>3. inflight \in SUBSET Segments /\ fetched \in SUBSET Segments /\ completed \in SUBSET Segments
  BY SessionType
<1> HIDE DEF inflight, fetched, completed
<1>4. session' = [session EXCEPT ![i] = other]
  BY <1>2 DEF Inv, TypeOK, Session
<1>5. /\ other \in Session /\ other.born = session[i].born /\ other.stopped = session[i].stopped
      /\ other.consumers = session[i].consumers /\ other.thread = session[i].thread
  BY <1>3, SessionType DEF Session
<1> HIDE DEF other
<1>6. session'[i] = other
  BY <1>4 DEF Inv, TypeOK
<1>7. session[i].born /\ (session[i].stopped \/ current = i)
  BY <1>1, RunningIsBorn, SessionType DEF SessionInv, At
<1>8. SessionInv(i)'
  BY <1>1, <1>5, <1>6, <1>7 DEF SessionInv, At
<1>9. files \subseteq files' /\ files' \in SUBSET Segments /\ failures' \in Nat
  BY <1>1 DEF Inv, TypeOK, CountersInv, counters
<1> QED BY <1>1, <1>4, <1>5, <1>8, <1>9, ThreadCore DEF counters

LEMMA LeaveDictionaryStep ==
    ASSUME Inv, NEW i \in SessionIds, LeaveDictionary(i)
    PROVE  Inv'
<1> DEFINE other == [session[i] EXCEPT !.thread = "ending"]
<1>1. At(i, "exit") /\ UNCHANGED <<files, writes, stream, counters>>
      /\ current' = IF current = i THEN NoSession ELSE current
  BY DEF LeaveDictionary
<1>2. session' = [session EXCEPT ![i] = other]
  BY Zenon DEF LeaveDictionary, Enter
<1>3. /\ other \in Session /\ other.born = session[i].born /\ other.stopped = session[i].stopped
      /\ other.thread = "ending" /\ other.ahead = session[i].ahead
      /\ other.next = session[i].next /\ other.completed = session[i].completed
      /\ other.inflight = session[i].inflight /\ other.consumers = session[i].consumers
  BY SessionType DEF Session, ThreadPc
<1> HIDE DEF other
<1>4. /\ session' \in [SessionIds -> Session] /\ session'[i] = other
      /\ \A k \in SessionIds \ {i} : session'[k] = session[k]
  BY <1>2, <1>3 DEF Inv, TypeOK
<1>5. TypeOK' /\ CountersInv'
  BY <1>1, <1>4 DEF Inv, TypeOK, CountersInv, counters
<1>6. StreamsInv'
  <2>1. \A k \in SessionIds : session[k].born => session'[k].born
    BY <1>3, <1>4
  <2> QED BY <1>1, <2>1, StreamFrame DEF Inv, StreamsInv, counters
<1>7. SessionInv(i)'
  <2>1. session[i].born /\ (session[i].stopped \/ Spent(i))
    BY <1>1, RunningIsBorn, SessionType DEF SessionInv, At
  <2>2. Spent(i) => Spent(i)'
    BY <1>3, <1>4 DEF Spent, Unknown, WindowStart
  <2> QED BY <1>3, <1>4, <2>1, <2>2 DEF SessionInv, At
<1>8. ASSUME NEW k \in SessionIds PROVE SessionInv(k)'
  <2>1. CASE k # i
    BY <2>1, <1>1, <1>4, SessionFrame DEF Inv, SessionsInv
  <2> QED BY <2>1, <1>7
<1>9. CurrentInv'
  <2>1. CASE current' = NoSession
    BY <2>1 DEF CurrentInv
  <2>2. CASE current' = current /\ current # i /\ current # NoSession
    <3>1. session'[current] = session[current]
      BY <2>2, <1>4 DEF Inv, TypeOK
    <3>2. Users(current)' = Users(current)
      BY <2>2, <1>1 DEF Users, Uses
    <3> QED BY <2>2, <3>1, <3>2, <1>1 DEF Inv, CurrentInv, counters
  <2> QED BY <1>1, <2>1, <2>2
<1> QED BY <1>5, <1>6, <1>8, <1>9 DEF Inv, SessionsInv

-----------------------------------------------------------------------------
(* The segment files.                                                      *)

\* The responses and the sessions stay as they are.
LEMMA FilesCore ==
    ASSUME Inv, UNCHANGED <<stream, session, current, discards>>,
           files' \in SUBSET Segments, writes' \in SUBSET Segments,
           failures' \in Nat, clears' \in Nat, clears' = 0 => clears = 0 /\ files \subseteq files'
    PROVE  Inv'
<1>1. TypeOK' /\ CountersInv'
  BY DEF Inv, TypeOK, CountersInv
<1>2. StreamsInv'
  BY StreamFrame DEF Inv, StreamsInv
<1>3. SessionsInv'
  BY SessionsFrame DEF Inv
<1>4. CurrentInv'
  BY CurrentFrame DEF Uses
<1> QED BY <1>1, <1>2, <1>3, <1>4 DEF Inv

LEMMA PersistStep ==
    ASSUME Inv, NEW g \in Segments, PersistSegment(g)
    PROVE  Inv'
<1>1. /\ files \in SUBSET Segments /\ writes \in SUBSET Segments
      /\ failures \in Nat /\ clears \in Nat
  BY DEF Inv, TypeOK, CountersInv
<1> QED BY <1>1, FilesCore DEF PersistSegment, Works, Fails, counters

LEMMA ClearStep ==
    ASSUME Inv, ClearCache
    PROVE  Inv'
<1>1. writes \in SUBSET Segments /\ failures \in Nat /\ clears + 1 \in Nat /\ clears + 1 # 0
  BY DEF Inv, TypeOK, CountersInv
<1> QED BY <1>1, FilesCore DEF ClearCache

-----------------------------------------------------------------------------
(* The theorems.                                                           *)

LEMMA InitInv == Init => Inv
<1> SUFFICES ASSUME Init PROVE Inv
  OBVIOUS
<1>1. UnbornSession \in Session
  <2>1. 0 \in 0..(LastSegment + 1)
    BY Last
  <2> QED BY <2>1 DEF Session, UnbornSession, ThreadPc
<1>2. TypeOK
  BY <1>1, IdleIn DEF Init, TypeOK
<1>3. CountersInv
  BY DEF Init, CountersInv
<1>4. StreamsInv
  BY DEF Init, StreamsInv, StreamInv, Reading, IdleStream
<1>5. SessionsInv
  BY DEF Init, SessionsInv, SessionInv, UnbornSession, At
<1>6. CurrentInv
  BY DEF Init, CurrentInv
<1> QED BY <1>2, <1>3, <1>4, <1>5, <1>6 DEF Inv

LEMMA NextInv == Inv /\ [Next]_vars => Inv'
<1> SUFFICES ASSUME Inv, [Next]_vars PROVE Inv'
  OBVIOUS
<1>1. CASE UNCHANGED vars
  <2>1. /\ files \in SUBSET Segments /\ writes \in SUBSET Segments
        /\ failures \in Nat /\ clears \in Nat
    BY DEF Inv, TypeOK, CountersInv
  <2> QED BY <1>1, <2>1, FilesCore DEF vars
<1>2. ASSUME NEW s \in Streams, StreamStep(s) PROVE Inv'
  BY <1>2, PrepareStep, AcquireOldStep, AcquireNewStep, DiscardStep, ReadSegmentStep, ReadFileStep,
     ResumeStep, RequestPrefetchStep, StartThreadStep, LookupStep, ReleaseStep DEF StreamStep
<1>3. ASSUME NEW i \in SessionIds, ThreadStep(i) PROVE Inv'
  BY <1>3, BuildStorageStep, SeeStopStep, NextBatchStep, CheckFinishedStep, EndTransferStep,
     DrainedStep, LeaveDictionaryStep, EndThreadStep, FetchSegmentStep, MarkCompletedStep
     DEF ThreadStep
<1> QED BY <1>1, <1>2, <1>3, PersistStep, ClearStep DEF Next

\* However responses, sessions, threads, failures and clears interleave, the invariant
\* of this module holds.
THEOREM PlaybackAlwaysInv == Spec => []Inv
BY InitInv, NextInv, PTL DEF Spec

\* Every variable keeps the type its code has: a response holds a session that exists
\* and reads within its range, and the window of a session stays within the video.
THEOREM PlaybackTypeCorrect == Spec => []TypeOK
<1>1. Inv => TypeOK
  BY DEF Inv
<1> QED BY <1>1, PlaybackAlwaysInv, PTL

\* Two prefetch threads of one video download at the same time only when one of their
\* sessions has been told to stop: a session that has left the dictionary while it was
\* not stopped is spent, and a thread its viewer restarts finds nothing to do.
THEOREM PlaybackOneDownloader == Spec => []OneDownloader
<1>1. Inv => OneDownloader
  <2> SUFFICES ASSUME Inv, NEW i \in SessionIds, NEW k \in SessionIds, At(i, "transfer"),
                      At(k, "transfer"), ~session[i].stopped, ~session[k].stopped
               PROVE  i = k
    BY DEF OneDownloader
  <2>1. session[i].born /\ session[k].born
    BY RunningIsBorn DEF At
  <2> QED BY <2>1, SessionType DEF SessionInv
<1> QED BY <1>1, PlaybackAlwaysInv, PTL

-----------------------------------------------------------------------------
(* What a response has sent.                                               *)

LEMMA SentFrame ==
    ASSUME NEW s \in Streams, Sent(s), stream'[s] = stream[s]
    PROVE  Sent(s)'
BY DEF Sent

\* A response that leaves, or goes nowhere near its segments, owes nothing.
LEMMA SentNothing ==
    ASSUME NEW s \in Streams, stream'[s].pc \in {"idle", "lookup", "release"}
    PROVE  Sent(s)'
BY DEF Sent

LEMMA SentLeave ==
    ASSUME Inv, NEW s \in Streams, Leave(s)
    PROVE  Sent(s)'
<1> DEFINE new == [IdleStream EXCEPT !.pc = "lookup", !.session = stream[s].session]
<1>1. stream' = [stream EXCEPT ![s] = new]
  BY Zenon DEF Leave
<1>2. new.pc = "lookup"
  BY DEF IdleStream
<1> HIDE DEF new
<1>3. stream'[s] = new
  BY <1>1 DEF Inv, TypeOK
<1> QED BY <1>2, <1>3, SentNothing

\* A response that moves on without sending is where its sent segments say.
LEMMA SentGoto ==
    ASSUME Inv, NEW s \in Streams, Sent(s), NEW pc \in {"file", "request", "start"}, Goto(s, pc),
           IF pc = "file" THEN stream[s].pc \in {"opened", "next"}
                          ELSE stream[s].pc \in {"yielded", "request"}
    PROVE  Sent(s)'
<1> DEFINE new == [stream[s] EXCEPT !.pc = pc]
<1>1. stream' = [stream EXCEPT ![s] = new]
  BY Zenon DEF Goto
<1>2. /\ new.pc = pc /\ new.from = stream[s].from /\ new.pos = stream[s].pos
      /\ Past(new) = Past(stream[s])
  BY StreamType DEF Stream, Past
<1> HIDE DEF new
<1>3. stream'[s] = new
  BY <1>1 DEF Inv, TypeOK
<1> QED BY <1>2, <1>3 DEF Sent

\* The segments up to one, and that one.
LEMMA OneMore ==
    ASSUME NEW a \in Segments, NEW b \in Segments, a <= b
    PROVE  (a .. (b - 1)) \cup {b} = a .. b
<1>1. a \in Int /\ b \in Int
  BY Last DEF Segments
<1> QED BY <1>1

LEMMA SentMore ==
    ASSUME Inv, NEW s \in Streams, Sent(s), stream[s].pc \in {"opened", "next", "file"},
           NEW new \in Stream, stream' = [stream EXCEPT ![s] = new],
           new.pc \in {"yielded", "request"}, new.from = stream[s].from,
           new.pos = stream[s].pos, Past(new) = Past(stream[s]) \cup {stream[s].pos}
    PROVE  Sent(s)'
<1>1. stream'[s] = new
  BY DEF Inv, TypeOK
<1>2. Past(stream[s]) = stream[s].from .. (stream[s].pos - 1)
  BY DEF Sent
<1>3. Past(stream[s]) \cup {stream[s].pos} = stream[s].from .. stream[s].pos
  BY <1>2, StreamType, OneMore DEF StreamInv
<1> QED BY <1>1, <1>3 DEF Sent

LEMMA SentYield ==
    ASSUME Inv, NEW s \in Streams, Sent(s), Yield(s) \/ LoseSegment(s),
           stream[s].pc \in {"opened", "next", "file"}
    PROVE  Sent(s)'
BY YieldType, LoseType, SentMore

LEMMA SentPrepare ==
    ASSUME Inv, NEW s \in Streams, Prepare(s), Sent(s)
    PROVE  Sent(s)'
<1>1. PICK r \in Ranges :
          \/ stream' = [stream EXCEPT ![s] =
                    [IdleStream EXCEPT !.pc = "acquire", !.from = r[1], !.pos = r[1], !.to = r[2],
                                       !.held = r[1] \notin files,
                                       !.remote = ~(r[1]..r[2] \subseteq files)]]
          \/ UNCHANGED stream
  BY Zenon DEF Prepare
<1>2. CASE UNCHANGED stream
  BY <1>2, SentFrame
<1>3. CASE stream' = [stream EXCEPT ![s] =
                    [IdleStream EXCEPT !.pc = "acquire", !.from = r[1], !.pos = r[1], !.to = r[2],
                                       !.held = r[1] \notin files,
                                       !.remote = ~(r[1]..r[2] \subseteq files)]]
  <2> DEFINE new == [IdleStream EXCEPT !.pc = "acquire", !.from = r[1], !.pos = r[1], !.to = r[2],
                                       !.held = r[1] \notin files,
                                       !.remote = ~(r[1]..r[2] \subseteq files)]
  <2>1. stream' = [stream EXCEPT ![s] = new]
    BY <1>3, Zenon
  <2>2. new.pc = "acquire" /\ new.from = r[1] /\ new.pos = r[1] /\ Past(new) = {}
    BY DEF IdleStream, Past
  <2> HIDE DEF new
  <2>3. stream'[s] = new
    BY <2>1 DEF Inv, TypeOK
  <2>4. r[1] .. (r[1] - 1) = {}
    <3>1. r[1] \in Int
      BY RangeIn, Last DEF Segments
    <3> QED BY <3>1
  <2> QED BY <2>2, <2>3, <2>4 DEF Sent
<1> QED BY <1>1, <1>2, <1>3

LEMMA SentAcquire ==
    ASSUME Inv, NEW s \in Streams, Acquire(s), Sent(s)
    PROVE  Sent(s)'
<1>1. PICK i \in SessionIds : stream' = [stream EXCEPT ![s].pc = "opened", ![s].session = i]
  <2>1. current # NoSession => current \in SessionIds
    BY DEF Inv, TypeOK
  <2> QED BY <2>1, Zenon DEF Acquire
<1> DEFINE new == [stream[s] EXCEPT !.pc = "opened", !.session = i]
<1>2. stream' = [stream EXCEPT ![s] = new]
  BY <1>1 DEF Inv, TypeOK
<1>3. new.pc = "opened" /\ new.from = stream[s].from /\ new.pos = stream[s].pos
      /\ Past(new) = Past(stream[s])
  BY OpenedType
<1> HIDE DEF new
<1>4. stream'[s] = new
  BY <1>2 DEF Inv, TypeOK
<1> QED BY <1>3, <1>4 DEF Sent, Acquire

LEMMA SentStart ==
    ASSUME Inv, NEW s \in Streams, StartThread(s), Sent(s)
    PROVE  Sent(s)'
<1>1. CASE stream[s].pos = stream[s].to
  BY <1>1, SentLeave DEF StartThread
<1>2. CASE stream[s].pos # stream[s].to
  <2> DEFINE pos == stream[s].pos + 1
             new == [stream[s] EXCEPT !.pc = "next", !.pos = pos]
  <2>1. stream' = [stream EXCEPT ![s].pc = "next", ![s].pos = pos]
    BY <1>2, Zenon DEF StartThread
  <2>2. pos - 1 = stream[s].pos
    BY StreamType, Last DEF Segments
  <2> HIDE DEF pos
  <2>3. stream' = [stream EXCEPT ![s] = new]
    BY <2>1 DEF Inv, TypeOK
  <2>4. new.pc = "next" /\ new.from = stream[s].from /\ new.pos = pos
        /\ Past(new) = Past(stream[s])
    BY StreamType DEF Stream, Past
  <2> HIDE DEF new
  <2>5. stream'[s] = new
    BY <2>3 DEF Inv, TypeOK
  <2> QED BY <2>2, <2>4, <2>5 DEF Sent, StartThread
<1> QED BY <1>1, <1>2

LEMMA SentStep ==
    ASSUME Inv, NEW s \in Streams, StreamStep(s), Sent(s)
    PROVE  Sent(s)'
<1>1. CASE Prepare(s)
  BY <1>1, SentPrepare
<1>2. CASE Acquire(s)
  BY <1>2, SentAcquire
<1>3. CASE Discard(s)
  <2>1. stream'[s] = IdleStream
    BY <1>3 DEF Discard, Inv, TypeOK
  <2> QED BY <2>1, SentNothing DEF IdleStream
<1>4. CASE ReadSegment(s)
  <2>1. Leave(s) \/ Yield(s) \/ LoseSegment(s) \/ Goto(s, "file")
    BY <1>4 DEF ReadSegment, SourceFallback
  <2> QED BY <1>4, <2>1, SentLeave, SentYield, SentGoto DEF ReadSegment
<1>5. CASE ReadFile(s)
  BY <1>5, SentLeave, SentYield DEF ReadFile
<1>6. CASE Resume(s)
  BY <1>6, SentLeave, SentGoto DEF Resume
<1>7. CASE RequestPrefetch(s)
  BY <1>7, SentGoto DEF RequestPrefetch
<1>8. CASE StartThread(s)
  BY <1>8, SentStart
<1>9. CASE LookupSession(s)
  <2>1. CASE current = NoSession
    <3>1. stream'[s] = IdleStream
      BY <1>9, <2>1 DEF LookupSession, Inv, TypeOK
    <3> QED BY <3>1, SentNothing DEF IdleStream
  <2>2. CASE current # NoSession
    <3>1. stream'[s] = [stream[s] EXCEPT !.pc = "release", !.session = current]
      BY <1>9, <2>2 DEF LookupSession, Inv, TypeOK
    <3>2. stream'[s].pc = "release"
      BY <3>1, StreamType DEF Stream
    <3> QED BY <3>2, SentNothing
  <2> QED BY <2>1, <2>2
<1>10. CASE ReleaseSession(s)
  <2>1. stream'[s] = IdleStream
    BY <1>10 DEF ReleaseSession, Inv, TypeOK
  <2> QED BY <2>1, SentNothing DEF IdleStream
<1> QED BY <1>1, <1>2, <1>3, <1>4, <1>5, <1>6, <1>7, <1>8, <1>9, <1>10 DEF StreamStep

\* A response's step is its own.
LEMMA OthersStay ==
    ASSUME Inv, NEW s \in Streams, StreamStep(s), NEW u \in Streams, u # s
    PROVE  stream'[u] = stream[u]
<1>1. stream \in [Streams -> Stream]
  BY DEF Inv, TypeOK
<1>2. ASSUME NEW pc, Goto(s, pc) PROVE stream'[u] = stream[u]
  BY <1>1, <1>2 DEF Goto
<1>3. Leave(s) \/ Yield(s) \/ LoseSegment(s) => stream'[u] = stream[u]
  BY <1>1 DEF Leave, Yield, LoseSegment
<1>4. CASE ReadSegment(s)
  BY <1>2, <1>3, <1>4 DEF ReadSegment, SourceFallback
<1>5. CASE ReadFile(s) \/ Resume(s) \/ RequestPrefetch(s)
  BY <1>2, <1>3, <1>5 DEF ReadFile, Resume, RequestPrefetch
<1>6. CASE Prepare(s)
  BY <1>1, <1>6 DEF Prepare
<1>7. CASE Acquire(s)
  BY <1>1, <1>7 DEF Acquire
<1>8. CASE StartThread(s)
  BY <1>1, <1>3, <1>8 DEF StartThread
<1>9. CASE Discard(s) \/ LookupSession(s) \/ ReleaseSession(s)
  BY <1>1, <1>9 DEF Discard, LookupSession, ReleaseSession
<1> QED BY <1>4, <1>5, <1>6, <1>7, <1>8, <1>9 DEF StreamStep

LEMMA ThreadsLeaveStreams ==
    ASSUME NEW i \in SessionIds, ThreadStep(i)
    PROVE  UNCHANGED stream
BY DEF ThreadStep, BuildStorage, SeeStop, NextBatch, CheckFinished, EndTransfer, Drained,
       LeaveDictionary, EndThread, FetchSegment, MarkCompleted

LEMMA SentNext == Inv /\ SentInv /\ [Next]_vars => SentInv'
<1> SUFFICES ASSUME Inv, SentInv, [Next]_vars, NEW u \in Streams
             PROVE  Sent(u)'
  BY DEF SentInv
<1>1. Sent(u)
  BY DEF SentInv
<1>2. CASE UNCHANGED stream
  BY <1>1, <1>2, SentFrame
<1>3. ASSUME NEW s \in Streams, StreamStep(s) PROVE Sent(u)'
  <2>1. CASE u = s
    BY <1>1, <1>3, <2>1, SentStep
  <2>2. CASE u # s
    BY <1>1, <1>3, <2>2, OthersStay, SentFrame
  <2> QED BY <2>1, <2>2
<1> QED BY <1>2, <1>3, ThreadsLeaveStreams DEF Next, vars, PersistSegment, ClearCache

\* A response that goes on has sent every segment up to where it is, but for those that
\* the Baidu client refused it, whatever is cleared, fetched or failed meanwhile.
THEOREM PlaybackNothingSkipped == Spec => []NothingSkipped
<1>1. Init => SentInv
  BY DEF Init, SentInv, Sent, IdleStream
<1>2. Inv /\ SentInv /\ [Next]_vars => SentInv'
  BY SentNext
<1>3. SentInv => NothingSkipped
  BY DEF SentInv, Sent, NothingSkipped, Past
<1> QED BY <1>1, <1>2, <1>3, PlaybackAlwaysInv, PTL DEF Spec

-----------------------------------------------------------------------------
(* What a step may never do.                                               *)

\* A read that ends the response has failed, or somebody has cleared the cache.
LEMMA LeaveHasReason ==
    ASSUME Inv, NEW s \in Streams, StreamStep(s),
           stream[s].pc \in {"opened", "next", "file"}, stream'[s].pc = "lookup"
    PROVE  failures' > 0 \/ clears > 0
<1>1. failures \in Nat /\ clears \in Nat /\ stream \in [Streams -> Stream]
  BY DEF Inv, TypeOK, CountersInv
<1>2. CASE ReadSegment(s)
  <2>1. CASE Fails
    BY <1>1, <2>1 DEF Fails
  <2>2. CASE stream[s].pos \notin files /\ ~stream[s].remote
    <3>1. SUFFICES ASSUME clears = 0 PROVE FALSE
      BY <1>1
    <3>2. stream[s].pc # "idle" /\ stream[s].pc # "lookup" /\ stream[s].pc # "release"
      OBVIOUS
    <3>3. stream[s].from .. stream[s].to \subseteq files
      BY <2>2, <3>1, <3>2, StreamType DEF StreamInv, Reading
    <3>4. stream[s].pos \in stream[s].from .. stream[s].to
      BY StreamType, Last DEF StreamInv, Segments
    <3> QED BY <2>2, <3>3, <3>4
  <2>3. CASE Goto(s, "file")
    BY <1>1, <2>3, StreamType DEF Goto, Stream
  <2>4. CASE Yield(s)
    <3>1. stream'[s].pc = "yielded"
      BY <1>1, <2>4, YieldType
    <3> QED BY <3>1
  <2> QED BY <1>2, <2>1, <2>2, <2>3, <2>4 DEF ReadSegment
<1>3. CASE ReadFile(s)
  <2>1. stream[s].pc = "file"
    BY <1>3 DEF ReadFile
  <2>2. CASE stream[s].pos \notin files
    BY <1>1, <2>1, <2>2, StreamType DEF StreamInv
  <2>3. CASE Yield(s)
    <3>1. stream'[s].pc = "yielded"
      BY <1>1, <2>3, YieldType
    <3> QED BY <3>1
  <2> QED BY <1>3, <2>2, <2>3 DEF ReadFile
<1>4. CASE Discard(s)
  BY <1>1, <1>4 DEF Discard, IdleStream
<1> QED BY <1>2, <1>3, <1>4 DEF StreamStep, Prepare, Acquire, Resume, RequestPrefetch, StartThread,
        LookupSession, ReleaseSession

\* The server cuts a response short only after a download has failed or the cache was
\* cleared: what was missing when it was prepared is read from remote storage, and what
\* was there stays.
THEOREM PlaybackReadsFromRemote == Spec => ReadsFromRemote
<1>1. Inv /\ [Next]_vars =>
        [\A s \in Streams :
            stream[s].pc \in {"opened", "next", "file"} /\ stream'[s].pc = "lookup"
                => failures' > 0 \/ clears > 0]_vars
  <2> SUFFICES ASSUME Inv, Next, NEW s \in Streams,
                      stream[s].pc \in {"opened", "next", "file"}, stream'[s].pc = "lookup"
               PROVE  failures' > 0 \/ clears > 0
    OBVIOUS
  <2>1. ~ UNCHANGED stream
    OBVIOUS
  <2>2. PICK u \in Streams : StreamStep(u)
    BY <2>1, ThreadsLeaveStreams DEF Next, PersistSegment, ClearCache
  <2>3. u = s
    BY <2>2, OthersStay
  <2> QED BY <2>2, <2>3, LeaveHasReason
<1> QED BY <1>1, PlaybackAlwaysInv, PTL DEF Spec, ReadsFromRemote

\* Only its own thread lets a session transfer.
LEMMA BatchBegins ==
    ASSUME Inv, Next, NEW i \in SessionIds, ~At(i, "transfer"), session'[i].thread = "transfer"
    PROVE  NextBatch(i)
<1>1. session \in [SessionIds -> Session]
  BY DEF Inv, TypeOK
<1>2. ~ UNCHANGED session
  BY DEF At
<1>3. ASSUME NEW s \in Streams, StreamStep(s) PROVE FALSE
  <2>1. CASE Acquire(s)
    <3>1. CASE current # NoSession /\ ~session[current].stopped
      BY <1>1, <2>1, <3>1 DEF Acquire, At, Session
    <3>2. CASE ~(current # NoSession /\ ~session[current].stopped)
      <4>1. PICK k \in SessionIds : session' = [session EXCEPT ![k] =
                   [UnbornSession EXCEPT !.born = TRUE, !.consumers = 1]]
        BY <2>1, <3>2 DEF Acquire
      <4> QED BY <1>1, <4>1 DEF At, UnbornSession
    <3> QED BY <3>1, <3>2
  <2>2. CASE RequestPrefetch(s)
    BY <1>1, <2>2 DEF RequestPrefetch, At, Session
  <2>3. CASE StartThread(s)
    BY <1>1, <2>3 DEF StartThread, At, Session
  <2>4. CASE ReleaseSession(s)
    BY <1>1, <2>4 DEF ReleaseSession, At, Session
  <2> QED BY <1>2, <1>3, <2>1, <2>2, <2>3, <2>4
          DEF StreamStep, Prepare, Discard, ReadSegment, ReadFile, Resume, LookupSession
<1>4. ASSUME NEW k \in SessionIds, ThreadStep(k), ~NextBatch(k) PROVE FALSE
  <2>1. ASSUME NEW pc, Enter(k, pc), pc # "transfer" PROVE FALSE
    BY <1>1, <2>1 DEF Enter, At, Session
  <2>2. CASE BuildStorage(k) \/ SeeStop(k) \/ EndTransfer(k) \/ Drained(k) \/ LeaveDictionary(k)
             \/ EndThread(k)
    BY <2>1, <2>2 DEF BuildStorage, SeeStop, EndTransfer, Drained, LeaveDictionary, EndThread
  <2>3. CASE CheckFinished(k)
    BY <1>1, <2>3 DEF CheckFinished, At, Session
  <2>4. CASE \E g \in Segments : FetchSegment(k, g) \/ MarkCompleted(k, g)
    BY <1>1, <2>4 DEF FetchSegment, MarkCompleted, At, Session
  <2> QED BY <1>4, <2>2, <2>3, <2>4 DEF ThreadStep
<1>5. PICK k \in SessionIds : NextBatch(k)
  BY <1>2, <1>3, <1>4 DEF Next, PersistSegment, ClearCache
<1>6. k = i
  BY <1>1, <1>5 DEF NextBatch, At
<1> QED BY <1>5, <1>6

\* No session begins a batch that no response waits for, as long as every response that
\* was prepared is iterated: the counts of the video's session never exceed its users.
THEOREM PlaybackNoBatchUnused == Spec => NoBatchUnused
<1>1. Inv /\ [Next]_vars =>
        [\A i \in SessionIds :
            discards = 0 /\ ~At(i, "transfer") /\ session'[i].thread = "transfer"
                => \E s \in Streams : Uses(s, i)]_vars
  <2> SUFFICES ASSUME Inv, Next, NEW i \in SessionIds, discards = 0, ~At(i, "transfer"),
                      session'[i].thread = "transfer"
               PROVE  \E s \in Streams : Uses(s, i)
    OBVIOUS
  <2>1. NextBatch(i)
    BY BatchBegins
  <2>2. At(i, "loop") /\ ~session[i].stopped
    BY <2>1 DEF NextBatch
  <2>3. Batch(i) # {}
    BY <2>1 DEF NextBatch, Inv, TypeOK, Session
  <2>4. ~Spent(i)
    BY <2>3, WindowType DEF Spent, Batch
  <2>5. current = i
    BY <2>2, <2>4, RunningIsBorn, SessionType DEF SessionInv, At
  <2>6. session[i].consumers >= 1 /\ session[i].consumers <= Cardinality(Users(i))
    BY <2>2, <2>5, NoneIsNoId DEF Inv, CurrentInv
  <2>7. Cardinality(Users(i)) # 0
    BY <2>6, SessionType, UsersAreFew
  <2>8. Users(i) # {}
    BY <2>7, FS_EmptySet
  <2> QED BY <2>8 DEF Users
<1> QED BY <1>1, PlaybackAlwaysInv, PTL DEF Spec, NoBatchUnused

=============================================================================
