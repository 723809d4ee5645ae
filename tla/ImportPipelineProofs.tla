------------------------ MODULE ImportPipelineProofs ------------------------
(***************************************************************************)
(* Proofs about ImportPipeline for any number of jobs, videos, segments,   *)
(* contents, failures, restarts and requests.                              *)
(***************************************************************************)
EXTENDS ImportPipeline, SumTheorems

-----------------------------------------------------------------------------
(* The inductive invariant.                                                *)

\* Where the job has a video, and where that video is one the import works on.
Working == {"stage", "insert", "fingerprint", "manifest", "upload", "uploadManifest", "cover",
            "publish"}
Removing == {"paths", "directory", "files", "row"}
Holding == Working \cup Removing \cup Preserving \cup {"hide", "untarget", "delete"}
Importing == Trying \cup Preserving \cup {"publish", "untarget"}

\* What is done by the time the import gets there.
HasRows == {"fingerprint", "manifest", "upload", "uploadManifest", "cover", "publish"}
HasPath == {"upload", "uploadManifest", "cover", "publish"}
HasObjects == {"uploadManifest", "cover", "publish"}

RunInv ==
    /\ run.pc = "idle" => run.video = NoVideo
    /\ run.pc # "idle" =>
          run.job \in JobIds /\ jobs[run.job].status \in {"running", "cancelling"}
    /\ run.pc \in {"probe", "create"} => run.video = NoVideo
    /\ run.pc \in Holding => run.video \in videos
    /\ run.pc \in Importing => jobs[run.job].kind = "import"
    /\ run.pc # "idle" /\ run.video # NoVideo =>
          jobs[run.job].target \in {NoVideo, run.video}
    /\ run.pc \in {"stage", "upload"} => run.todo # {} /\ run.todo \subseteq Segments
    /\ run.pc \in Removing => run.video \in doomed

\* What a deletion could not remove it has recorded.
ObjectsKept(video) ==
    \A o \in Objects : Found(video, o) => {o, Directory} \subseteq video.kept
FilesKept(video) == \A s \in Segments : video.file[s] # NoContent => Files \in video.kept

\* The library knows every object that is there.
Named(video, o) == IF o = Manifest THEN video.path ELSE video.row[o] # NoContent
AllNamed(video) == \A o \in Objects : Found(video, o) => Named(video, o)

\* What holds of the video the job works on.
ThisInv ==
    /\ run.pc \in Working \cup {"preserve"} => ~This.visible
    /\ run.pc \in HasRows => \A s \in Segments : This.row[s] # NoContent
    /\ run.pc \in HasPath => This.path
    /\ ~MayTearFiles /\ run.pc = "upload" =>
          \A s \in Segments \ run.todo : This.remote[s] \in Contents
    /\ ~MayTearFiles /\ run.pc \in HasObjects => \A s \in Segments : This.remote[s] \in Contents
    /\ run.pc \in {"cover", "publish"} => This.manifest
    /\ run.pc = "paths" => \A o \in Objects \ run.todo : Found(This, o) => o \in This.kept
    /\ run.pc = "directory" => \A o \in Objects : Found(This, o) => o \in This.kept
    /\ run.pc \in {"files", "row"} => ObjectsKept(This)
    /\ run.pc = "row" => FilesKept(This)

\* No source file is replaced and no segment file breaks off.
Steady == ~MayTearFiles /\ MaxReplaced = 0

VideoInv(v) ==
    /\ v \in videos => AllNamed(lib[v])
    /\ v \in born \ videos => ObjectsKept(lib[v]) /\ FilesKept(lib[v])
    /\ ~MayTearFiles =>
          /\ \A s \in Segments : lib[v].file[s] # Torn
          /\ v \in born \ doomed /\ lib[v].manifest =>
                \A s \in Segments : lib[v].remote[s] \in Contents
    /\ Steady /\ v \in videos \ doomed /\ lib[v].visible /\ lib[v].print # Nothing => Stored(v)
VideosInv == \A v \in Videos : VideoInv(v)

JobsInv ==
    \A j \in JobIds :
        /\ jobs[j].status = "unborn" => jobs[j].target = NoVideo
        /\ jobs[j].status # "unborn" /\ jobs[j].kind = "import" => source[j] \in Contents

\* A video belongs to the import that made it, until that has listed it or its row has
\* gone; all that is stored of it was cut from the source of that import.
Belongs(v, j) ==
    /\ jobs[j].kind = "import"
    /\ \/ jobs[j].target = v
       \/ run.pc # "idle" /\ run.job = j /\ run.video = v
OwnerInv == \A v \in Videos, j, k \in JobIds : Belongs(v, j) /\ Belongs(v, k) => j = k

Pure(video, c) ==
    \A s \in Segments : /\ video.row[s] \in {NoContent, c}
                        /\ video.file[s] \in {NoContent, c}
                        /\ video.remote[s] \in {NoContent, Torn, c}
PureInv ==
    Steady => \A v \in Videos, j \in JobIds : Belongs(v, j) => Pure(lib[v], source[j])

\* A run that is about to end has listed its video, has removed it, or leaves it to its
\* job; or the video has strayed.
EndInv ==
    /\ run.pc \in {"fail", "cancel"} /\ run.video \in videos \ strayed =>
          This.visible \/ jobs[run.job].target = run.video
    /\ run.pc \in {"untarget", "complete"} /\ run.video \in videos => This.visible
    /\ run.pc = "complete" => jobs[run.job].target = NoVideo

Inv == /\ TypeOK /\ RunInv /\ ThisInv /\ VideosInv /\ JobsInv /\ OwnerInv /\ PureInv
       /\ NoCopies /\ EndInv /\ HiddenIsReachable

-----------------------------------------------------------------------------
(* Types.                                                                  *)

LEMMA NumbersIn == NumSegments \in Nat /\ NumSegments # 0 /\ NoVideo \notin Videos
                   /\ NoContent \notin Contents /\ Torn \notin Contents /\ Torn # NoContent
                   /\ Manifest \notin Segments /\ MaxReplaced \in Nat
BY PipelineAssumption, TableAssumption DEF Manifest, Segments

LEMMA RunType ==
    ASSUME Inv
    PROVE  /\ run \in Run /\ run.pc \in Pc /\ run.job \in JobIds \cup {NoJob}
           /\ run.video \in Videos \cup {NoVideo} /\ run.todo \in SUBSET Objects
BY DEF Inv, TypeOK, Run

LEMMA TableType ==
    ASSUME Inv
    PROVE  /\ jobs \in [JobIds -> Row] /\ videos \in SUBSET Videos
           /\ videos \subseteq born /\ born \subseteq Videos /\ doomed \subseteq born
           /\ strayed \subseteq videos
           /\ lib \in [Videos -> Video] /\ source \in [JobIds -> Content]
           /\ \A j \in JobIds : jobs[j].target \in videos \cup {NoVideo}
           /\ \A v \in Videos \ videos : ~lib[v].visible /\ lib[v].row = Nothing
BY DEF Inv, TypeOK, TableTypeOK

LEMMA VideoType ==
    ASSUME Inv, NEW v \in Videos
    PROVE  /\ lib[v] \in Video
           /\ lib[v].visible \in BOOLEAN /\ lib[v].path \in BOOLEAN /\ lib[v].manifest \in BOOLEAN
           /\ lib[v].print \in Cut /\ lib[v].row \in Cut
           /\ lib[v].file \in Bytes /\ lib[v].remote \in Bytes /\ lib[v].kept \in SUBSET Items
BY TableType DEF Video

LEMMA CounterType ==
    ASSUME Inv
    PROVE  /\ failures \in 0..MaxFailures /\ restarts \in 0..MaxRestarts
           /\ clears \in 0..MaxClears /\ replaced \in 0..MaxReplaced
           /\ MaxFailures \in Nat /\ MaxRestarts \in Nat
           /\ MaxClears \in Nat /\ MaxReplaced \in Nat
BY PipelineAssumption DEF Inv, TypeOK

LEMMA CutIn == Nothing \in Cut /\ Nothing \in Bytes /\ Cut \subseteq Bytes
               /\ \A s \in Segments : Nothing[s] = NoContent
BY DEF Nothing, Cut, Bytes, Content

LEMMA NewVideoIn == NewVideo \in Video
BY CutIn DEF NewVideo, Video

LEMMA IdleIn == IdleRun \in Run
BY DEF IdleRun, Run, Pc

\* The job that runs has a row, and holds a video of the library where it needs one.
LEMMA HolderIn ==
    ASSUME Inv, run.pc # "idle"
    PROVE  /\ run.job \in JobIds /\ jobs[run.job] \in Row /\ Exists(run.job)
           /\ jobs[run.job].status \in {"running", "cancelling"}
           /\ run.pc \in Holding => run.video \in videos /\ run.video \in Videos
                                    /\ run.video # NoVideo
BY TableType, NumbersIn DEF Inv, RunInv, Exists, Active

\* The job and the video stay; the run goes on.
LEMMA GoneTo ==
    ASSUME Inv, NEW pc \in Pc, NEW todo \in SUBSET Objects,
           run' = [run EXCEPT !.pc = pc, !.todo = todo]
    PROVE  run' \in Run /\ run'.pc = pc /\ run'.todo = todo /\ run'.job = run.job
           /\ run'.video = run.video
BY RunType DEF Run

LEMMA GotoIs ==
    ASSUME Inv, NEW pc, Goto(pc)
    PROVE  run' = [run EXCEPT !.pc = pc, !.todo = run.todo]
BY RunType DEF Goto, Run

\* A segment that comes first.
LEMMA MinIn ==
    ASSUME NEW S \in SUBSET Segments, S # {}
    PROVE  Min(S) \in S
<1>1. S \subseteq Nat
  BY NumbersIn DEF Segments
<1>2. IsWellFoundedOn(OpToRel(<, Nat), Nat)
  BY NatLessThanWellFounded
<1>3. PICK m \in S : \A y \in S : <<y, m>> \notin OpToRel(<, Nat)
  BY <1>1, <1>2, WFMin
<1>4. ASSUME NEW y \in S PROVE m <= y
  <2>1. y \in Nat /\ m \in Nat
    BY <1>1
  <2>2. ~(y < m)
    BY <1>3, <2>1 DEF OpToRel
  <2> QED BY <2>1, <2>2
<1> QED BY <1>4 DEF Min

-----------------------------------------------------------------------------
(* What a step leaves alone.                                               *)

\* Nothing of the video has changed, but its files may have been cleared.
Agrees(new, old) ==
    /\ new.visible = old.visible /\ new.path = old.path /\ new.print = old.print
    /\ new.row = old.row /\ new.remote = old.remote /\ new.manifest = old.manifest
    /\ new.kept = old.kept
    /\ \A s \in Segments : new.file[s] = old.file[s] \/ new.file[s] = NoContent

LEMMA VideoFrame ==
    ASSUME NEW v \in Videos, VideoInv(v), Agrees(lib'[v], lib[v]),
           v \in videos' <=> v \in videos, v \in born' <=> v \in born,
           v \in doomed => v \in doomed'
    PROVE  VideoInv(v)'
<1>1. /\ ObjectsKept(lib[v]) => ObjectsKept(lib'[v])
      /\ FilesKept(lib[v]) => FilesKept(lib'[v])
      /\ AllNamed(lib[v]) => AllNamed(lib'[v])
  BY DEF Agrees, ObjectsKept, FilesKept, AllNamed, Named, Found
<1> QED BY <1>1, NumbersIn DEF VideoInv, Stored, Agrees, Steady

\* The videos, but perhaps for one.
LEMMA VideosFrame ==
    ASSUME Inv, NEW x, x \in Videos => VideoInv(x)',
           \A v \in Videos \ {x} : /\ Agrees(lib'[v], lib[v])
                                   /\ v \in videos' <=> v \in videos
                                   /\ v \in born' <=> v \in born
                                   /\ v \in doomed => v \in doomed'
    PROVE  VideosInv'
BY VideoFrame DEF Inv, VideosInv

LEMMA OwnerFrame ==
    ASSUME Inv, \A v \in Videos, j \in JobIds : Belongs(v, j)' => Belongs(v, j)
    PROVE  OwnerInv'
<1> SUFFICES ASSUME NEW v \in Videos, NEW j \in JobIds, NEW k \in JobIds, Belongs(v, j)',
                    Belongs(v, k)'
             PROVE  j = k
  BY DEF OwnerInv
<1> QED BY DEF Inv, OwnerInv

LEMMA PureFrame ==
    ASSUME Inv, NEW x,
           \A v \in Videos, j \in JobIds : Belongs(v, j)' => Belongs(v, j),
           \A v \in Videos \ {x} : Agrees(lib'[v], lib[v]),
           Steady => \A j \in JobIds : /\ x \in Videos /\ Belongs(x, j) => Pure(lib'[x], source[j])
                                       /\ source'[j] = source[j] \/ \A v \in Videos : ~Belongs(v, j)
    PROVE  PureInv'
<1> SUFFICES ASSUME Steady, NEW v \in Videos, NEW j \in JobIds, Belongs(v, j)'
             PROVE  Pure(lib'[v], source'[j])
  BY DEF PureInv, Pure, Steady
<1>1. Belongs(v, j) /\ source'[j] = source[j]
  OBVIOUS
<1>2. CASE v = x
  BY <1>1, <1>2
<1>3. CASE v # x
  <2>1. Pure(lib[v], source[j]) /\ Agrees(lib'[v], lib[v])
    BY <1>1, <1>3 DEF Inv, PureInv
  <2>2. \A s \in Segments : lib'[v].file[s] = lib[v].file[s] \/ lib'[v].file[s] = NoContent
    BY <2>1, CutIn DEF Agrees
  <2>3. Pure(lib'[v], source[j])
    BY <2>1, <2>2 DEF Pure, Agrees
  <2> QED BY <1>1, <2>3
<1> QED BY <1>2, <1>3

LEMMA CopiesFrame ==
    ASSUME Inv, videos' \subseteq videos, \A v \in videos' : lib'[v].print = lib[v].print
    PROVE  NoCopies'
BY DEF Inv, NoCopies

LEMMA ReachFrame ==
    ASSUME Inv, videos' \subseteq videos, strayed \cap videos' \subseteq strayed',
           \A v \in videos' : lib'[v].visible = lib[v].visible \/ run'.video = v,
           run.video \in videos' \ strayed' =>
               \/ run'.video = run.video \/ lib'[run.video].visible
               \/ \E j \in JobIds : jobs'[j].target = run.video
                                    /\ jobs'[j].status \in Active \cup Failed,
           \A j \in JobIds :
               jobs[j].status \in Active \cup Failed /\ jobs[j].target \in videos' \ strayed'
               /\ ~lib[jobs[j].target].visible =>
                   /\ jobs'[j].target = jobs[j].target
                   /\ jobs'[j].status \in Active \cup Failed
    PROVE  HiddenIsReachable'
<1> SUFFICES ASSUME NEW v \in videos' \ strayed'
             PROVE  \/ lib'[v].visible \/ run'.video = v
                    \/ \E j \in JobIds : jobs'[j].target = v /\ jobs'[j].status \in Active \cup Failed
  BY DEF HiddenIsReachable
<1>1. \/ lib[v].visible \/ run.video = v
      \/ ~lib[v].visible /\ \E j \in JobIds : /\ jobs[j].target = v
                                               /\ jobs[j].status \in Active \cup Failed
  BY DEF Inv, HiddenIsReachable
<1>2. CASE lib[v].visible
  BY <1>2
<1>3. CASE run.video = v
  BY <1>3
<1>4. CASE ~lib[v].visible /\ \E j \in JobIds : /\ jobs[j].target = v
                                               /\ jobs[j].status \in Active \cup Failed
  BY <1>4
<1> QED BY <1>1, <1>2, <1>3, <1>4

LEMMA JobsFrame ==
    ASSUME Inv, \A j \in JobIds : /\ jobs'[j].status = "unborn" => jobs[j].status = "unborn"
                                  /\ jobs'[j].kind = jobs[j].kind
                                  /\ jobs'[j].status = "unborn" => jobs'[j].target = jobs[j].target
                                  /\ jobs[j].status = "unborn" => jobs'[j].status = "unborn"
                                  /\ source'[j] = source[j]
    PROVE  JobsInv'
BY DEF Inv, JobsInv

-----------------------------------------------------------------------------
(* Steps in which the job goes on with its video.                          *)

CountersKeep ==
    /\ failures' \in 0..MaxFailures /\ restarts' \in 0..MaxRestarts
    /\ clears' \in 0..MaxClears /\ replaced' \in 0..MaxReplaced

LEMMA CountersSame == Inv /\ UNCHANGED counters => CountersKeep
BY CounterType DEF CountersKeep, counters

LEMMA FailureCounts ==
    ASSUME Inv, failures < MaxFailures, failures' = failures + 1,
           UNCHANGED <<restarts, clears, replaced>>
    PROVE  CountersKeep
BY CounterType DEF CountersKeep

\* The job may go there.
Fits(pc, todo) ==
    /\ pc # "idle"
    /\ pc \in {"probe", "create"} => run.video = NoVideo
    /\ pc \in Holding => run.video \in videos
    /\ pc \in Importing => jobs[run.job].kind = "import"
    /\ pc \in {"stage", "upload"} => todo # {} /\ todo \subseteq Segments
    /\ pc \in Removing => run.video \in doomed'

\* The video has what it must have there.
Suits(pc, todo, new) ==
    /\ pc \in Working \cup {"preserve"} => ~new.visible
    /\ pc \in HasRows => \A s \in Segments : new.row[s] # NoContent
    /\ pc \in HasPath => new.path
    /\ ~MayTearFiles /\ pc = "upload" => \A s \in Segments \ todo : new.remote[s] \in Contents
    /\ ~MayTearFiles /\ pc \in HasObjects => \A s \in Segments : new.remote[s] \in Contents
    /\ pc \in {"cover", "publish"} => new.manifest
    /\ pc = "paths" => \A o \in Objects \ todo : Found(new, o) => o \in new.kept
    /\ pc = "directory" => \A o \in Objects : Found(new, o) => o \in new.kept
    /\ pc \in {"files", "row"} => ObjectsKept(new)
    /\ pc = "row" => FilesKept(new)

\* Where a run ends.
Ends(pc, new) ==
    /\ pc \in {"fail", "cancel"} /\ run.video \in videos \ strayed' =>
          new.visible \/ jobs[run.job].target = run.video
    /\ pc \in {"untarget", "complete"} /\ run.video \in videos => new.visible
    /\ pc = "complete" => jobs[run.job].target = NoVideo

\* What every video of the library must have.
Whole(new) ==
    /\ AllNamed(new)
    /\ ~MayTearFiles =>
          /\ \A s \in Segments : new.file[s] # Torn
          /\ run.video \notin doomed' /\ new.manifest =>
                \A s \in Segments : new.remote[s] \in Contents
    /\ Steady /\ run.video \notin doomed' /\ new.visible /\ new.print # Nothing =>
          /\ new.manifest
          /\ \A s \in Segments : new.row[s] # NoContent /\ new.remote[s] = new.row[s]

LEMMA StepCore ==
    ASSUME Inv, run.pc # "idle", NEW pc \in Pc, NEW todo \in SUBSET Objects,
           run' = [run EXCEPT !.pc = pc, !.todo = todo], Fits(pc, todo),
           UNCHANGED <<jobs, videos, born, source>>, CountersKeep,
           doomed' = doomed \/ (doomed' = doomed \cup {run.video} /\ run.video \in videos),
           strayed' = strayed \/ strayed' = strayed \cup Untracked,
           lib' \in [Videos -> Video], \A v \in Videos \ {run.video} : Agrees(lib'[v], lib[v]),
           IF run.video \in videos THEN Whole(lib'[run.video]) ELSE lib' = lib,
           Suits(pc, todo, lib'[run.video]), Ends(pc, lib'[run.video]), NoCopies',
           Steady => \A j \in JobIds : run.video \in Videos /\ Belongs(run.video, j) =>
                                           Pure(lib'[run.video], source[j])
    PROVE  Inv'
<1>1. /\ run' \in Run /\ run'.pc = pc /\ run'.todo = todo /\ run'.job = run.job
      /\ run'.video = run.video
  BY GoneTo
<1>2. /\ doomed' \subseteq born /\ doomed \subseteq doomed'
      /\ strayed' \subseteq videos /\ strayed \subseteq strayed'
  BY TableType DEF Untracked
<1>3. TypeOK'
  <2>1. \A v \in Videos \ videos : ~lib'[v].visible /\ lib'[v].row = Nothing
    BY TableType DEF Agrees
  <2> QED BY <1>1, <1>2, <2>1, TableType DEF Inv, TypeOK, TableTypeOK, CountersKeep
<1>4. RunInv'
  <2>1. /\ run.job \in JobIds /\ jobs[run.job].status \in {"running", "cancelling"}
        /\ run.video # NoVideo => jobs[run.job].target \in {NoVideo, run.video}
    BY DEF Inv, RunInv
  <2> QED BY <1>1, <2>1 DEF RunInv, Fits
<1>5. ThisInv'
  BY <1>1 DEF ThisInv, Suits, This
<1>6. VideosInv'
  <2>1. run.video \in Videos => VideoInv(run.video)'
    <3>1. CASE run.video \in videos
      BY <3>1 DEF VideoInv, Whole, Stored, Steady
    <3>2. CASE run.video \in Videos /\ lib' = lib
      <4>1. Agrees(lib'[run.video], lib[run.video])
        BY <3>2 DEF Agrees
      <4> QED BY <3>2, <4>1, <1>2, VideoFrame DEF Inv, VideosInv, CountersKeep
    <3> QED BY <3>1, <3>2
  <2> QED BY <2>1, <1>2, VideosFrame DEF CountersKeep
<1>7. JobsInv'
  BY JobsFrame
<1>8. \A v \in Videos, j \in JobIds : Belongs(v, j)' => Belongs(v, j)
  BY <1>1 DEF Belongs
<1>9. OwnerInv'
  BY <1>8, OwnerFrame
<1>10. PureInv'
  BY <1>8, PureFrame
<1>11. EndInv'
  BY <1>1 DEF EndInv, Ends, This
<1>12. HiddenIsReachable'
  <2>1. \A v \in videos' : lib'[v].visible = lib[v].visible \/ run'.video = v
    BY <1>1, TableType DEF Agrees
  <2> QED BY <1>1, <1>2, <2>1, ReachFrame
<1> QED BY <1>3, <1>4, <1>5, <1>6, <1>7, <1>9, <1>10, <1>11, <1>12 DEF Inv

\* Nothing but the run changes.
LEMMA RunCore ==
    ASSUME Inv, run.pc # "idle", NEW pc \in Pc, NEW todo \in SUBSET Objects,
           run' = [run EXCEPT !.pc = pc, !.todo = todo], Fits(pc, todo),
           UNCHANGED <<jobs, videos, lib, born, source>>, CountersKeep,
           doomed' = doomed \/ (doomed' = doomed \cup {run.video} /\ run.video \in videos),
           strayed' = strayed \/ strayed' = strayed \cup Untracked,
           Suits(pc, todo, This), Ends(pc, This)
    PROVE  Inv'
<1>1. doomed \subseteq doomed'
  OBVIOUS
<1>2. run.video \in videos => Whole(lib'[run.video])
  <2> SUFFICES ASSUME run.video \in videos PROVE Whole(lib'[run.video])
    OBVIOUS
  <2>1. VideoInv(run.video)
    BY TableType DEF Inv, VideosInv
  <2> QED BY <1>1, <2>1, TableType DEF VideoInv, Whole, Stored
<1>3. \A v \in Videos : Agrees(lib'[v], lib[v])
  BY DEF Agrees
<1>4. NoCopies'
  BY CopiesFrame
<1>5. Steady => \A j \in JobIds : run.video \in Videos /\ Belongs(run.video, j) =>
                                     Pure(lib'[run.video], source[j])
  BY DEF Inv, PureInv
<1>6. lib' \in [Videos -> Video] /\ lib'[run.video] = This
  BY TableType DEF This
<1> QED BY <1>2, <1>3, <1>4, <1>5, <1>6, StepCore

\* The run and its video change.
LEMMA VideoCore ==
    ASSUME Inv, run.pc # "idle", NEW pc \in Pc, NEW todo \in SUBSET Objects, NEW new \in Video,
           run' = [run EXCEPT !.pc = pc, !.todo = todo], Fits(pc, todo), SetThis(new),
           UNCHANGED <<jobs, videos, born, strayed, source>>, CountersKeep, run.video \in videos,
           doomed' = doomed \/ doomed' = doomed \cup {run.video}, Whole(new), Suits(pc, todo, new), Ends(pc, new),
           \A w \in videos \ {run.video} :
               new.print # Nothing /\ new.print # This.print => lib[w].print # new.print,
           Steady => \A j \in JobIds : Belongs(run.video, j) /\ Pure(This, source[j]) =>
                                           Pure(new, source[j])
    PROVE  Inv'
<1>1. run.video \in Videos
  BY TableType
<1>2. /\ lib' \in [Videos -> Video] /\ lib'[run.video] = new
      /\ \A v \in Videos \ {run.video} : lib'[v] = lib[v]
  BY <1>1, TableType DEF SetThis
<1>3. \A v \in Videos \ {run.video} : Agrees(lib'[v], lib[v])
  BY <1>2 DEF Agrees
<1>4. NoCopies'
  <2> SUFFICES ASSUME NEW v \in videos, NEW w \in videos, v # w, lib'[v].print # Nothing
               PROVE  lib'[v].print # lib'[w].print
    BY DEF NoCopies
  <2>1. \A u \in videos : u # run.video => lib'[u] = lib[u]
    BY <1>2, TableType
  <2>2. lib[v].print # Nothing => lib[v].print # lib[w].print
    BY DEF Inv, NoCopies
  <2>3. lib[w].print # Nothing => lib[v].print # lib[w].print
    BY DEF Inv, NoCopies
  <2>4. CASE v # run.video /\ w # run.video
    BY <2>1, <2>2, <2>4
  <2>5. CASE v = run.video
    <3>1. lib'[w] = lib[w] /\ lib'[v] = new
      BY <1>2, <2>1, <2>5
    <3> QED BY <2>2, <2>5, <3>1 DEF This
  <2>6. CASE w = run.video
    <3>1. lib'[v] = lib[v] /\ lib'[w] = new
      BY <1>2, <2>1, <2>6
    <3> QED BY <2>2, <2>6, <3>1 DEF This
  <2> QED BY <2>4, <2>5, <2>6
<1>5. Steady => \A j \in JobIds : run.video \in Videos /\ Belongs(run.video, j) =>
                                     Pure(lib'[run.video], source[j])
  BY <1>1, <1>2 DEF Inv, PureInv, This
<1> QED BY <1>2, <1>3, <1>4, <1>5, StepCore

-----------------------------------------------------------------------------
(* Steps that move the run only.                                           *)

LEMMA SeeCancelKeeps == Inv /\ SeeCancel => Inv'
<1> SUFFICES ASSUME Inv, SeeCancel PROVE Inv'
  OBVIOUS
<1> USE DEF Pc, Working, Removing, Holding, Importing, HasRows, HasPath, HasObjects, Trying,
            Finalizing, Preserving, Deleting
<1> DEFINE pc == IF run.video = NoVideo THEN "cancel" ELSE "delete"
<1>1. /\ run.pc \in CancelPoints /\ run' = [run EXCEPT !.pc = pc, !.todo = run.todo]
      /\ UNCHANGED <<jobs, videos, lib, born, doomed, strayed, source, counters>>
  BY GotoIs DEF SeeCancel, OnlyRun, table, library
<1>2. run.pc # "idle" /\ pc \in Pc /\ run.todo \in SUBSET Objects
  BY <1>1, RunType DEF CancelPoints
<1>3. run.video # NoVideo => run.video \in videos
  BY <1>1 DEF CancelPoints, Inv, RunInv
<1>4. NoVideo \notin videos
  BY NumbersIn, TableType
<1>5. Fits(pc, run.todo) /\ Suits(pc, run.todo, This) /\ Ends(pc, This)
  BY <1>1, <1>3, <1>4 DEF Fits, Suits, Ends
<1> QED BY <1>1, <1>2, <1>5, CountersSame, RunCore

LEMMA ProbeKeeps == Inv /\ Probe => Inv'
<1> SUFFICES ASSUME Inv, Probe PROVE Inv'
  OBVIOUS
<1> USE DEF Pc, Working, Removing, Holding, Importing, HasRows, HasPath, HasObjects, Trying,
            Finalizing, Preserving, Deleting
<1>1. PICK pc \in {"create", "fail"} : Goto(pc)
  BY DEF Probe
<1>2. /\ run.pc = "probe" /\ run' = [run EXCEPT !.pc = pc, !.todo = run.todo]
      /\ UNCHANGED <<jobs, videos, lib, born, doomed, strayed, source, counters>>
  BY <1>1, GotoIs DEF Probe, At, OnlyRun, table, library
<1>3. run.pc # "idle" /\ pc \in Pc /\ run.todo \in SUBSET Objects
  BY <1>2, RunType
<1>4. run.video = NoVideo /\ jobs[run.job].kind = "import"
  BY <1>2 DEF Inv, RunInv
<1>5. Fits(pc, run.todo) /\ Suits(pc, run.todo, This) /\ Ends(pc, This)
  <2>1. NoVideo \notin videos
    BY NumbersIn, TableType
  <2> QED BY <1>1, <1>4, <2>1 DEF Fits, Suits, Ends
<1> QED BY <1>2, <1>3, <1>5, CountersSame, RunCore

LEMMA RefuseDuplicateKeeps == Inv /\ RefuseDuplicate => Inv'
<1> SUFFICES ASSUME Inv, RefuseDuplicate PROVE Inv'
  OBVIOUS
<1> USE DEF Pc, Working, Removing, Holding, Importing, HasRows, HasPath, HasObjects, Trying,
            Finalizing, Preserving, Deleting
<1>1. /\ run.pc = "fingerprint" /\ run' = [run EXCEPT !.pc = "preserve", !.todo = run.todo]
      /\ UNCHANGED <<jobs, videos, lib, born, doomed, strayed, source, counters>>
  BY GotoIs DEF RefuseDuplicate, At, OnlyRun, table, library
<1>2. run.pc # "idle" /\ run.todo \in SUBSET Objects
  BY <1>1, RunType
<1>3. run.video \in videos /\ jobs[run.job].kind = "import" /\ ~This.visible
  BY <1>1 DEF Inv, RunInv, ThisInv
<1>4. /\ Fits("preserve", run.todo) /\ Suits("preserve", run.todo, This)
      /\ Ends("preserve", This)
  BY <1>3 DEF Fits, Suits, Ends
<1> QED BY <1>1, <1>2, <1>4, CountersSame, RunCore

LEMMA UploadMissingKeeps == Inv /\ UploadMissing => Inv'
<1> SUFFICES ASSUME Inv, UploadMissing PROVE Inv'
  OBVIOUS
<1> USE DEF Pc, Working, Removing, Holding, Importing, HasRows, HasPath, HasObjects, Trying,
            Finalizing, Preserving, Deleting
<1>1. /\ run.pc = "upload" /\ run' = [run EXCEPT !.pc = "preserve", !.todo = run.todo]
      /\ UNCHANGED <<jobs, videos, lib, born, doomed, strayed, source, counters>>
  BY GotoIs DEF UploadMissing, At, OnlyRun, table, library
<1>2. run.pc # "idle" /\ run.todo \in SUBSET Objects
  BY <1>1, RunType
<1>3. run.video \in videos /\ jobs[run.job].kind = "import" /\ ~This.visible
  BY <1>1 DEF Inv, RunInv, ThisInv
<1>4. /\ Fits("preserve", run.todo) /\ Suits("preserve", run.todo, This)
      /\ Ends("preserve", This)
  BY <1>3 DEF Fits, Suits, Ends
<1> QED BY <1>1, <1>2, <1>4, CountersSame, RunCore

LEMMA RaiseKeeps == Inv /\ Raise => Inv'
<1> SUFFICES ASSUME Inv, Raise PROVE Inv'
  OBVIOUS
<1> USE DEF Pc, Working, Removing, Holding, Importing, HasRows, HasPath, HasObjects, Trying,
            Finalizing, Preserving, Deleting
<1> DEFINE pc == CASE run.pc \in {"probe", "create", "hide"} -> "fail"
                  [] run.pc \in Deleting -> DeleteRaises
                  [] run.pc \in Preserving \cup Finalizing -> "fail"
                  [] OTHER -> "preserve"
<1>1. /\ run.pc \notin {"idle", "fail", "cancel"}
      /\ failures < MaxFailures /\ failures' = failures + 1 /\ Goto(pc)
      /\ strayed' = IF pc = "preserve" THEN strayed ELSE strayed \cup Untracked
      /\ UNCHANGED <<jobs, videos, lib, born, doomed, source, restarts, clears, replaced>>
  BY Zenon DEF Raise, table
<1>2. run' = [run EXCEPT !.pc = pc, !.todo = run.todo]
  BY <1>1, GotoIs
<1>3. run.pc \in Pc /\ run.todo \in SUBSET Objects
  BY RunType
<1>4. pc \in {"fail", "cancel"} \/ (pc = "preserve" /\ run.pc \in Working \ {"publish"})
  BY <1>1, <1>3 DEF DeleteRaises
<1>5. pc \in Pc
  BY <1>4
<1>6. CountersKeep
  BY <1>1, FailureCounts
<1>7. /\ run.pc \in Working => run.video \in videos /\ ~This.visible
      /\ run.pc \in Working => jobs[run.job].kind = "import"
  BY DEF Inv, RunInv, ThisInv
<1> HIDE DEF pc
<1>8. Fits(pc, run.todo) /\ Suits(pc, run.todo, This)
  BY <1>4, <1>7 DEF Fits, Suits
<1>9. Ends(pc, This)
  BY <1>1, <1>4 DEF Ends, Untracked, This
<1> QED BY <1>1, <1>2, <1>3, <1>5, <1>6, <1>8, <1>9, RunCore

-----------------------------------------------------------------------------
(* Steps that change the video the job works on.                           *)

LEMMA ThisIn ==
    ASSUME Inv, run.video \in videos
    PROVE  /\ This \in Video /\ run.video \in Videos
           /\ This.visible \in BOOLEAN /\ This.path \in BOOLEAN /\ This.manifest \in BOOLEAN
           /\ This.print \in Cut /\ This.row \in Cut
           /\ This.file \in Bytes /\ This.remote \in Bytes /\ This.kept \in SUBSET Items
<1>1. run.video \in Videos
  BY TableType
<1> QED BY <1>1, VideoType DEF This

\* What the invariant says of it.
LEMMA ThisIs ==
    ASSUME Inv, run.video \in videos
    PROVE  /\ AllNamed(This)
           /\ ~MayTearFiles =>
                 /\ \A s \in Segments : This.file[s] # Torn
                 /\ run.video \notin doomed /\ This.manifest =>
                       \A s \in Segments : This.remote[s] \in Contents
           /\ Steady /\ run.video \notin doomed /\ This.visible /\ This.print # Nothing =>
                 /\ This.manifest
                 /\ \A s \in Segments : This.row[s] # NoContent /\ This.remote[s] = This.row[s]
<1>1. VideoInv(run.video)
  BY TableType DEF Inv, VideosInv
<1> QED BY <1>1, TableType DEF VideoInv, Stored, This

\* The content that the import cuts its segments from.
LEMMA SourceIn ==
    ASSUME Inv, run.pc \in Importing
    PROVE  /\ source[run.job] \in Contents /\ source[run.job] # NoContent
           /\ source[run.job] # Torn /\ run.job \in JobIds
<1>1. run.pc # "idle"
  BY DEF Importing, Trying, Preserving
<1>2. run.job \in JobIds /\ jobs[run.job].kind = "import" /\ jobs[run.job].status # "unborn"
  BY <1>1, HolderIn DEF Inv, RunInv
<1> QED BY <1>2, NumbersIn DEF Inv, JobsInv

\* The video is that of this import only.
LEMMA OwnerIs ==
    ASSUME Inv, run.pc \in Importing, run.video \in videos, NEW j \in JobIds,
           Belongs(run.video, j)
    PROVE  j = run.job
<1>1. run.pc # "idle"
  BY DEF Importing, Trying, Preserving
<1>2. run.job \in JobIds /\ Belongs(run.video, run.job) /\ run.video \in Videos
  BY <1>1, HolderIn, TableType DEF Inv, RunInv, Belongs
<1> QED BY <1>2 DEF Inv, OwnerInv

LEMMA SegmentsIn == Segments # {} /\ Segments \subseteq Objects /\ Manifest \notin Segments
<1>1. 1 \in Segments
  BY NumbersIn DEF Segments
<1> QED BY <1>1, NumbersIn DEF Objects

LEMMA CollectPathsKeeps == Inv /\ CollectPaths => Inv'
<1> SUFFICES ASSUME Inv, CollectPaths PROVE Inv'
  OBVIOUS
<1> USE DEF Pc, Working, Removing, Holding, Importing, HasRows, HasPath, HasObjects, Trying,
            Finalizing, Preserving, Deleting
<1> DEFINE paths == {s \in Segments : This.row[s] # NoContent}
                   \cup (IF This.path THEN {Manifest} ELSE {})
           pc == IF paths = {} THEN "files" ELSE "paths"
           new == [This EXCEPT !.kept = {}]
<1>1. /\ run.pc = "delete" /\ run' = [run EXCEPT !.pc = pc, !.todo = paths]
      /\ doomed' = doomed \cup {run.video} /\ SetThis(new)
      /\ UNCHANGED <<jobs, videos, born, strayed, source, counters>>
  BY DEF CollectPaths, At, GotoWith, table
<1>2. run.pc # "idle" /\ pc \in Pc /\ paths \in SUBSET Objects
  BY <1>1 DEF Objects
<1>3. run.video \in videos /\ run.video \in Videos
  BY <1>1, HolderIn
<1>4. /\ new \in Video /\ new.visible = This.visible /\ new.path = This.path
      /\ new.print = This.print /\ new.row = This.row /\ new.file = This.file
      /\ new.remote = This.remote /\ new.manifest = This.manifest
  BY <1>3, ThisIn DEF Video
<1>5. \A o \in Objects : Found(new, o) => o \in paths
  BY <1>3, <1>4, ThisIs DEF AllNamed, Found, Named, Objects
<1> HIDE DEF new, paths
<1>6. Suits(pc, paths, new)
  BY <1>5 DEF Suits, ObjectsKept
<1>7. Fits(pc, paths) /\ Ends(pc, new)
  BY <1>1, <1>3 DEF Fits, Ends
<1>8. Whole(new)
  BY <1>1, <1>3, <1>4, ThisIs DEF Whole, AllNamed, Found, Named
<1>9. \A c : Pure(This, c) => Pure(new, c)
  BY <1>4 DEF Pure
<1> QED BY <1>1, <1>2, <1>3, <1>4, <1>6, <1>7, <1>8, <1>9, CountersSame, VideoCore

LEMMA HideVideoKeeps == Inv /\ HideVideo => Inv'
<1> SUFFICES ASSUME Inv, HideVideo PROVE Inv'
  OBVIOUS
<1> USE DEF Pc, Working, Removing, Holding, Importing, HasRows, HasPath, HasObjects, Trying,
            Finalizing, Preserving, Deleting
<1> DEFINE new == [This EXCEPT !.visible = FALSE]
<1>1. /\ run.pc = "hide" /\ run' = [run EXCEPT !.pc = "stage", !.todo = Segments]
      /\ SetThis(new) /\ UNCHANGED <<jobs, videos, born, doomed, strayed, source, counters>>
  BY DEF HideVideo, At, GotoWith, OnlyVideo, table
<1>2. run.video \in videos /\ jobs[run.job].kind = "import"
  BY <1>1 DEF Inv, RunInv
<1>3. /\ new \in Video /\ new.visible = FALSE /\ new.path = This.path /\ new.print = This.print
      /\ new.row = This.row /\ new.file = This.file /\ new.remote = This.remote
      /\ new.manifest = This.manifest
  BY <1>2, ThisIn DEF Video
<1> HIDE DEF new
<1>4. Whole(new)
  BY <1>1, <1>2, <1>3, ThisIs DEF Whole, AllNamed, Found, Named
<1>5. Fits("stage", Segments) /\ Suits("stage", Segments, new) /\ Ends("stage", new)
  BY <1>2, <1>3, SegmentsIn DEF Fits, Suits, Ends
<1>6. \A c : Pure(This, c) => Pure(new, c)
  BY <1>3 DEF Pure
<1> QED BY <1>1, <1>2, <1>3, <1>4, <1>5, <1>6, SegmentsIn, CountersSame, VideoCore

LEMMA StageSegmentKeeps == Inv /\ StageSegment => Inv'
<1> SUFFICES ASSUME Inv, StageSegment PROVE Inv'
  OBVIOUS
<1> USE DEF Pc, Working, Removing, Holding, Importing, HasRows, HasPath, HasObjects, Trying,
            Finalizing, Preserving, Deleting
<1> DEFINE s == Min(run.todo)
           c == source[run.job]
           new == IF KeepsFile(s) THEN This ELSE [This EXCEPT !.file[s] = c]
           pc == IF run.todo = {s} THEN "insert" ELSE "stage"
           todo == run.todo \ {s}
<1>1. /\ run.pc = "stage" /\ run' = [run EXCEPT !.pc = pc, !.todo = todo]
      /\ SetThis(new) /\ UNCHANGED <<jobs, videos, born, doomed, strayed, source, counters>>
  BY DEF StageSegment, At, GotoWith, OnlyVideo, table
<1>2. /\ run.video \in videos /\ jobs[run.job].kind = "import" /\ ~This.visible
      /\ run.todo # {} /\ run.todo \subseteq Segments
  BY <1>1 DEF Inv, RunInv, ThisInv
<1>3. s \in run.todo /\ s \in Segments
  BY <1>2, MinIn
<1>4. c \in Contents /\ c # NoContent /\ c # Torn
  BY <1>1, SourceIn
<1>5. /\ new \in Video /\ new.visible = This.visible /\ new.path = This.path
      /\ new.print = This.print /\ new.row = This.row /\ new.remote = This.remote
      /\ new.manifest = This.manifest
      /\ \A t \in Segments : new.file[t] = This.file[t] \/ new.file[t] = c
  <2>1. CASE KeepsFile(s)
    BY <1>2, <2>1, ThisIn
  <2>2. CASE ~KeepsFile(s)
    <3>1. /\ This \in [visible : BOOLEAN, path : BOOLEAN, print : Cut, row : Cut, file : Bytes,
                       remote : Bytes, manifest : BOOLEAN, kept : SUBSET Items]
          /\ This.file \in [Segments -> Content \cup {Torn}]
      BY <1>2, ThisIn DEF Video, Bytes
    <3>2. new = [This EXCEPT !.file = [This.file EXCEPT ![s] = c]]
      BY <2>2, <3>1
    <3>3. [This.file EXCEPT ![s] = c] \in Bytes
      BY <1>3, <1>4, <3>1 DEF Bytes, Content
    <3>4. \A t \in Segments : [This.file EXCEPT ![s] = c][t] \in {This.file[t], c}
      BY <3>1
    <3> HIDE DEF new
    <3>5. new.file = [This.file EXCEPT ![s] = c]
      BY <3>1, <3>2
    <3> QED BY <3>1, <3>2, <3>3, <3>4, <3>5 DEF Video
  <2> QED BY <2>1, <2>2
<1>6. pc \in {"insert", "stage"} /\ (pc = "stage" => todo # {}) /\ todo \subseteq Segments
  BY <1>2, <1>3
<1> HIDE DEF new, pc, todo, s, c
<1>7. Whole(new)
  BY <1>1, <1>2, <1>4, <1>5, ThisIs DEF Whole, AllNamed, Found, Named
<1>8. Fits(pc, todo) /\ Suits(pc, todo, new) /\ Ends(pc, new)
  BY <1>2, <1>5, <1>6 DEF Fits, Suits, Ends
<1>9. \A j \in JobIds : Belongs(run.video, j) /\ Pure(This, source[j]) => Pure(new, source[j])
  <2> SUFFICES ASSUME NEW j \in JobIds, Belongs(run.video, j), Pure(This, source[j])
               PROVE  Pure(new, source[j])
    OBVIOUS
  <2>1. source[j] = c
    BY <1>1, <1>2, OwnerIs DEF c
  <2> QED BY <1>5, <2>1 DEF Pure
<1>10. pc \in Pc /\ todo \in SUBSET Objects
  BY <1>6, SegmentsIn
<1> QED BY <1>1, <1>2, <1>5, <1>7, <1>8, <1>9, <1>10, CountersSame, VideoCore

LEMMA TearFileKeeps == Inv /\ TearFile => Inv'
<1> SUFFICES ASSUME Inv, TearFile PROVE Inv'
  OBVIOUS
<1> USE DEF Pc, Working, Removing, Holding, Importing, HasRows, HasPath, HasObjects, Trying,
            Finalizing, Preserving, Deleting
<1> DEFINE s == Min(run.todo)
           new == [This EXCEPT !.file[s] = Torn]
<1>1. /\ MayTearFiles /\ failures < MaxFailures /\ failures' = failures + 1
      /\ run.pc = "stage" /\ SetThis(new) /\ Goto("preserve")
      /\ UNCHANGED <<jobs, videos, born, doomed, strayed, source, restarts, clears, replaced>>
  BY DEF TearFile, At, table
<1>2. /\ run' = [run EXCEPT !.pc = "preserve", !.todo = run.todo]
      /\ run.todo \in SUBSET Objects
  BY <1>1, GotoIs, RunType
<1>3. /\ run.video \in videos /\ jobs[run.job].kind = "import" /\ ~This.visible
      /\ run.todo # {} /\ run.todo \subseteq Segments
  BY <1>1 DEF Inv, RunInv, ThisInv
<1>4. s \in Segments
  BY <1>3, MinIn
<1>5. /\ new \in Video /\ new.visible = This.visible /\ new.path = This.path
      /\ new.print = This.print /\ new.row = This.row /\ new.remote = This.remote
      /\ new.manifest = This.manifest
  <2>1. /\ This \in [visible : BOOLEAN, path : BOOLEAN, print : Cut, row : Cut, file : Bytes,
                     remote : Bytes, manifest : BOOLEAN, kept : SUBSET Items]
        /\ This.file \in [Segments -> Content \cup {Torn}]
    BY <1>3, ThisIn DEF Video, Bytes
  <2>2. new = [This EXCEPT !.file = [This.file EXCEPT ![s] = Torn]]
    BY <2>1
  <2>3. [This.file EXCEPT ![s] = Torn] \in Bytes
    BY <1>4, <2>1 DEF Bytes
  <2> HIDE DEF new
  <2> QED BY <2>1, <2>2, <2>3 DEF Video
<1> HIDE DEF new, s
<1>6. Whole(new)
  <2>1. AllNamed(new)
    BY <1>3, <1>5, ThisIs DEF AllNamed, Found, Named
  <2> QED BY <1>1, <1>3, <1>5, <2>1, ThisIs DEF Whole, Steady
<1>7. /\ Fits("preserve", run.todo) /\ Suits("preserve", run.todo, new)
      /\ Ends("preserve", new)
  BY <1>3, <1>5 DEF Fits, Suits, Ends
<1>8. ~Steady
  BY <1>1 DEF Steady
<1>9. run.pc # "idle" /\ "preserve" \in Pc
  BY <1>1
<1> QED BY <1>1, <1>2, <1>3, <1>5, <1>6, <1>7, <1>8, <1>9, FailureCounts, VideoCore

LEMMA InsertSegmentsKeeps == Inv /\ InsertSegments => Inv'
<1> SUFFICES ASSUME Inv, InsertSegments PROVE Inv'
  OBVIOUS
<1> USE DEF Pc, Working, Removing, Holding, Importing, HasRows, HasPath, HasObjects, Trying,
            Finalizing, Preserving, Deleting
<1> DEFINE c == source[run.job]
           row == [s \in Segments |-> IF This.row[s] = NoContent THEN c ELSE This.row[s]]
           new == [This EXCEPT !.row = row]
<1>1. /\ run.pc = "insert" /\ Goto("fingerprint") /\ SetThis(new)
      /\ UNCHANGED <<jobs, videos, born, doomed, strayed, source, counters>>
  BY DEF InsertSegments, At, OnlyVideo, table
<1>2. /\ run' = [run EXCEPT !.pc = "fingerprint", !.todo = run.todo]
      /\ run.todo \in SUBSET Objects
  BY <1>1, GotoIs, RunType
<1>3. run.video \in videos /\ jobs[run.job].kind = "import" /\ ~This.visible
  BY <1>1 DEF Inv, RunInv, ThisInv
<1>4. c \in Contents /\ c # NoContent
  BY <1>1, SourceIn
<1>5. row \in Cut /\ \A s \in Segments : row[s] # NoContent /\ row[s] \in {This.row[s], c}
  <2>1. This.row \in [Segments -> Content]
    BY <1>3, ThisIn DEF Cut
  <2> QED BY <1>4, <2>1 DEF Cut, Content
<1>6. /\ new \in Video /\ new.visible = This.visible /\ new.path = This.path
      /\ new.print = This.print /\ new.file = This.file /\ new.remote = This.remote
      /\ new.manifest = This.manifest /\ new.row = row
  BY <1>3, <1>5, ThisIn DEF Video
<1> HIDE DEF new, row
<1>7. Whole(new)
  <2>1. AllNamed(new)
    BY <1>3, <1>5, <1>6, ThisIs DEF AllNamed, Found, Named, Objects
  <2> QED BY <1>1, <1>3, <1>6, <2>1, ThisIs DEF Whole
<1>8. /\ Fits("fingerprint", run.todo) /\ Suits("fingerprint", run.todo, new)
      /\ Ends("fingerprint", new)
  BY <1>3, <1>5, <1>6 DEF Fits, Suits, Ends
<1>9. \A j \in JobIds : Belongs(run.video, j) /\ Pure(This, source[j]) => Pure(new, source[j])
  <2> SUFFICES ASSUME NEW j \in JobIds, Belongs(run.video, j), Pure(This, source[j])
               PROVE  Pure(new, source[j])
    OBVIOUS
  <2>1. source[j] = c
    BY <1>1, <1>3, OwnerIs
  <2> QED BY <1>5, <1>6, <2>1 DEF Pure
<1> QED BY <1>1, <1>2, <1>3, <1>6, <1>7, <1>8, <1>9, CountersSame, VideoCore

LEMMA SetFingerprintKeeps == Inv /\ SetFingerprint => Inv'
<1> SUFFICES ASSUME Inv, SetFingerprint PROVE Inv'
  OBVIOUS
<1> USE DEF Pc, Working, Removing, Holding, Importing, HasRows, HasPath, HasObjects, Trying,
            Finalizing, Preserving, Deleting
<1> DEFINE new == [This EXCEPT !.print = This.row]
<1>1. /\ run.pc = "fingerprint" /\ Goto("manifest") /\ SetThis(new) /\ Duplicates = {}
      /\ UNCHANGED <<jobs, videos, born, doomed, strayed, source, counters>>
  BY DEF SetFingerprint, At, OnlyVideo, table
<1>2. /\ run' = [run EXCEPT !.pc = "manifest", !.todo = run.todo]
      /\ run.todo \in SUBSET Objects
  BY <1>1, GotoIs, RunType
<1>3. /\ run.video \in videos /\ jobs[run.job].kind = "import" /\ ~This.visible
      /\ \A s \in Segments : This.row[s] # NoContent
  BY <1>1 DEF Inv, RunInv, ThisInv
<1>4. /\ new \in Video /\ new.visible = This.visible /\ new.path = This.path
      /\ new.print = This.row /\ new.row = This.row /\ new.file = This.file
      /\ new.remote = This.remote /\ new.manifest = This.manifest
  BY <1>3, ThisIn DEF Video
<1>5. \A w \in videos \ {run.video} : lib[w].print # This.row
  BY <1>1 DEF Duplicates
<1> HIDE DEF new
<1>6. Whole(new)
  BY <1>1, <1>3, <1>4, ThisIs DEF Whole, AllNamed, Found, Named
<1>7. /\ Fits("manifest", run.todo) /\ Suits("manifest", run.todo, new)
      /\ Ends("manifest", new)
  BY <1>3, <1>4 DEF Fits, Suits, Ends
<1>8. \A c : Pure(This, c) => Pure(new, c)
  BY <1>4 DEF Pure
<1> QED BY <1>1, <1>2, <1>3, <1>4, <1>5, <1>6, <1>7, <1>8, CountersSame, VideoCore

LEMMA WriteManifestKeeps == Inv /\ WriteManifest => Inv'
<1> SUFFICES ASSUME Inv, WriteManifest PROVE Inv'
  OBVIOUS
<1> USE DEF Pc, Working, Removing, Holding, Importing, HasRows, HasPath, HasObjects, Trying,
            Finalizing, Preserving, Deleting
<1> DEFINE new == [This EXCEPT !.path = TRUE]
<1>1. /\ run.pc = "manifest" /\ run' = [run EXCEPT !.pc = "upload", !.todo = Segments]
      /\ SetThis(new) /\ UNCHANGED <<jobs, videos, born, doomed, strayed, source, counters>>
  BY DEF WriteManifest, At, GotoWith, OnlyVideo, table
<1>2. /\ run.video \in videos /\ jobs[run.job].kind = "import" /\ ~This.visible
      /\ \A s \in Segments : This.row[s] # NoContent
  BY <1>1 DEF Inv, RunInv, ThisInv
<1>3. /\ new \in Video /\ new.visible = This.visible /\ new.path = TRUE
      /\ new.print = This.print /\ new.row = This.row /\ new.file = This.file
      /\ new.remote = This.remote /\ new.manifest = This.manifest
  BY <1>2, ThisIn DEF Video
<1> HIDE DEF new
<1>4. Whole(new)
  BY <1>1, <1>2, <1>3, ThisIs DEF Whole, AllNamed, Found, Named
<1>5. Fits("upload", Segments) /\ Suits("upload", Segments, new) /\ Ends("upload", new)
  BY <1>2, <1>3, SegmentsIn DEF Fits, Suits, Ends
<1>6. \A c : Pure(This, c) => Pure(new, c)
  BY <1>3 DEF Pure
<1> QED BY <1>1, <1>2, <1>3, <1>4, <1>5, <1>6, SegmentsIn, CountersSame, VideoCore

\* An object put in the place of another.
WithObject(s, c) == [This EXCEPT !.remote = [This.remote EXCEPT ![s] = c]]

LEMMA RemoteSet ==
    ASSUME Inv, run.video \in videos, NEW s \in Segments, NEW c \in Content \cup {Torn}
    PROVE  /\ WithObject(s, c) \in Video /\ WithObject(s, c).visible = This.visible
           /\ WithObject(s, c).path = This.path /\ WithObject(s, c).print = This.print
           /\ WithObject(s, c).row = This.row /\ WithObject(s, c).file = This.file
           /\ WithObject(s, c).manifest = This.manifest /\ WithObject(s, c).remote[s] = c
           /\ WithObject(s, c).kept = This.kept
           /\ \A t \in Segments \ {s} : WithObject(s, c).remote[t] = This.remote[t]
<1> DEFINE new == WithObject(s, c)
           remote == [This.remote EXCEPT ![s] = c]
<1>1. /\ This \in [visible : BOOLEAN, path : BOOLEAN, print : Cut, row : Cut, file : Bytes,
                   remote : Bytes, manifest : BOOLEAN, kept : SUBSET Items]
      /\ This.remote \in [Segments -> Content \cup {Torn}]
  BY ThisIn DEF Video, Bytes
<1>2. new = [This EXCEPT !.remote = remote]
  BY DEF WithObject
<1>3. /\ remote \in [Segments -> Content \cup {Torn}] /\ remote[s] = c
      /\ \A t \in Segments \ {s} : remote[t] = This.remote[t]
  BY <1>1
<1> HIDE DEF new, remote
<1>4. /\ new.visible = This.visible /\ new.path = This.path /\ new.print = This.print
      /\ new.row = This.row /\ new.file = This.file /\ new.manifest = This.manifest
      /\ new.kept = This.kept /\ new.remote = remote
  BY <1>1, <1>2
<1>5. new \in Video
  BY <1>1, <1>2, <1>3 DEF Video, Bytes
<1>6. /\ new \in Video /\ new.visible = This.visible /\ new.path = This.path
      /\ new.print = This.print /\ new.row = This.row /\ new.file = This.file
      /\ new.manifest = This.manifest /\ new.kept = This.kept /\ new.remote[s] = c
      /\ \A t \in Segments \ {s} : new.remote[t] = This.remote[t]
  BY <1>3, <1>4, <1>5
<1> QED BY <1>6 DEF new

LEMMA RemoteKept ==
    ASSUME Inv, run.video \in videos, NEW s \in Segments, NEW c, NEW t \in Segments, t # s
    PROVE  WithObject(s, c).remote[t] = This.remote[t]
<1> DEFINE remote == [This.remote EXCEPT ![s] = c]
<1>1. This \in [visible : BOOLEAN, path : BOOLEAN, print : Cut, row : Cut, file : Bytes,
                remote : Bytes, manifest : BOOLEAN, kept : SUBSET Items]
      /\ This.remote \in [Segments -> Content \cup {Torn}]
  BY ThisIn DEF Video, Bytes
<1>2. remote[t] = This.remote[t]
  BY <1>1
<1>3. WithObject(s, c) = [This EXCEPT !.remote = remote]
  BY DEF WithObject
<1> HIDE DEF remote
<1>4. [This EXCEPT !.remote = remote].remote = remote
  BY <1>1
<1> QED BY <1>2, <1>3, <1>4

LEMMA UploadSegmentKeeps == Inv /\ UploadSegment => Inv'
<1> SUFFICES ASSUME Inv, UploadSegment PROVE Inv'
  OBVIOUS
<1> USE DEF Pc, Working, Removing, Holding, Importing, HasRows, HasPath, HasObjects, Trying,
            Finalizing, Preserving, Deleting
<1>1. PICK s \in run.todo :
          /\ This.file[s] # NoContent
          /\ SetThis(IF RemoteMatches(s) THEN This
                     ELSE [This EXCEPT !.remote[s] = This.file[s]])
          /\ GotoWith(IF run.todo = {s} THEN "uploadManifest" ELSE "upload",
                      run.todo \ {s})
  BY DEF UploadSegment
<1> DEFINE new == IF RemoteMatches(s) THEN This ELSE [This EXCEPT !.remote[s] = This.file[s]]
           pc == IF run.todo = {s} THEN "uploadManifest" ELSE "upload"
           todo == run.todo \ {s}
<1>2. /\ run.pc = "upload" /\ run' = [run EXCEPT !.pc = pc, !.todo = todo]
      /\ SetThis(new) /\ UNCHANGED <<jobs, videos, born, doomed, strayed, source, counters>>
  BY <1>1 DEF UploadSegment, At, GotoWith, OnlyVideo, table
<1>3. /\ run.video \in videos /\ jobs[run.job].kind = "import" /\ ~This.visible /\ This.path
      /\ run.todo # {} /\ run.todo \subseteq Segments
      /\ \A t \in Segments : This.row[t] # NoContent
      /\ ~MayTearFiles => \A t \in Segments \ run.todo : This.remote[t] \in Contents
  BY <1>2 DEF Inv, RunInv, ThisInv
<1>4. s \in Segments
  BY <1>3
<1>5. /\ This.file[s] \in Content \cup {Torn} /\ This.remote[s] \in Content \cup {Torn}
      /\ ~MayTearFiles => This.file[s] \in Contents
  <2>1. This.file \in [Segments -> Content \cup {Torn}]
        /\ This.remote \in [Segments -> Content \cup {Torn}]
    BY <1>3, ThisIn DEF Bytes
  <2>2. ~MayTearFiles => This.file[s] # Torn
    BY <1>3, <1>4, ThisIs
  <2> QED BY <1>1, <1>4, <2>1, <2>2 DEF Content
<1>6. /\ new \in Video /\ new.visible = This.visible /\ new.path = This.path
      /\ new.print = This.print /\ new.row = This.row /\ new.file = This.file
      /\ new.manifest = This.manifest
      /\ \A t \in Segments \ {s} : new.remote[t] = This.remote[t]
      /\ new.remote[s] \in {This.remote[s], This.file[s]}
      /\ ~MayTearFiles => new.remote[s] \in Contents
  <2>1. CASE RemoteMatches(s)
    <3>1. ~MayTearFiles => This.remote[s] \in Contents
      BY <1>5, <2>1, NumbersIn DEF RemoteMatches, Content
    <3> QED BY <1>3, <2>1, <3>1, ThisIn
  <2>2. CASE ~RemoteMatches(s)
    <3>1. new = WithObject(s, This.file[s])
      BY <1>3, <2>2, ThisIn DEF Video, WithObject
    <3>0. run.video \in videos /\ This.file[s] \in Content \cup {Torn}
      BY <1>3, <1>5
    <3> HIDE DEF new
    <3>2. new \in Video
      BY <1>4, <3>0, <3>1, RemoteSet
    <3>3. new.remote[s] = This.file[s]
      BY <1>4, <3>0, <3>1, RemoteSet
    <3>4. ASSUME NEW t \in Segments \ {s} PROVE new.remote[t] = This.remote[t]
      <4>1. run.video \in videos /\ t \in Segments /\ t # s
        BY <1>3
      <4>2. WithObject(s, This.file[s]).remote[t] = This.remote[t]
        BY <1>4, <4>1, RemoteKept
      <4> QED BY <3>1, <4>2
    <3>5. new.visible = This.visible /\ new.path = This.path /\ new.manifest = This.manifest
      BY <1>4, <3>0, <3>1, RemoteSet
    <3>6. new.print = This.print /\ new.row = This.row /\ new.file = This.file
      BY <1>4, <3>0, <3>1, RemoteSet
    <3> QED BY <1>5, <3>2, <3>3, <3>4, <3>5, <3>6
  <2> QED BY <2>1, <2>2
<1>7. /\ pc \in {"uploadManifest", "upload"} /\ (pc = "upload" => todo # {})
      /\ todo \subseteq Segments /\ (pc = "uploadManifest" => todo = {})
      /\ \A t \in Segments : t \notin todo => t = s \/ t \notin run.todo
  BY <1>3, <1>4
<1> HIDE DEF new, pc, todo
<1>8. Whole(new)
  <2>1. ~MayTearFiles /\ run.video \notin doomed /\ This.manifest =>
            \A t \in Segments : new.remote[t] \in Contents
    BY <1>3, <1>6, ThisIs
  <2>2. \A t \in Segments : This.row[t] # NoContent
    BY <1>2 DEF Inv, RunInv, ThisInv
  <2>3. AllNamed(new)
    BY <1>3, <1>6, <2>2, ThisIs DEF AllNamed, Found, Named, Objects
  <2> QED BY <1>2, <1>3, <1>6, <2>1, <2>3, ThisIs DEF Whole
<1>9. ~MayTearFiles => \A t \in Segments : t \notin todo => new.remote[t] \in Contents
  BY <1>3, <1>6, <1>7
<1>10. Fits(pc, todo) /\ Suits(pc, todo, new) /\ Ends(pc, new)
  BY <1>3, <1>6, <1>7, <1>9 DEF Fits, Suits, Ends
<1>11. \A c : Pure(This, c) => Pure(new, c)
  BY <1>1, <1>4, <1>6 DEF Pure
<1>12. pc \in Pc /\ todo \in SUBSET Objects
  BY <1>7, SegmentsIn
<1> QED BY <1>2, <1>3, <1>6, <1>8, <1>10, <1>11, <1>12, CountersSame, VideoCore

LEMMA TearObjectKeeps == Inv /\ TearObject => Inv'
<1> SUFFICES ASSUME Inv, TearObject PROVE Inv'
  OBVIOUS
<1> USE DEF Pc, Working, Removing, Holding, Importing, HasRows, HasPath, HasObjects, Trying,
            Finalizing, Preserving, Deleting
<1>1. PICK s \in run.todo : /\ This.file[s] # NoContent /\ ~RemoteMatches(s)
                           /\ SetThis([This EXCEPT !.remote[s] = Torn])
  BY DEF TearObject
<1> DEFINE new == [This EXCEPT !.remote[s] = Torn]
<1>2. /\ failures < MaxFailures /\ failures' = failures + 1
      /\ run.pc = "upload" /\ SetThis(new) /\ Goto("preserve")
      /\ UNCHANGED <<jobs, videos, born, doomed, strayed, source, restarts, clears, replaced>>
  BY <1>1 DEF TearObject, At, table
<1>3. /\ run' = [run EXCEPT !.pc = "preserve", !.todo = run.todo]
      /\ run.todo \in SUBSET Objects
  BY <1>2, GotoIs, RunType
<1>4. /\ run.video \in videos /\ jobs[run.job].kind = "import" /\ ~This.visible
      /\ This.path /\ run.todo \subseteq Segments
  BY <1>2 DEF Inv, RunInv, ThisInv
<1>5. s \in Segments
  BY <1>4
<1>6. /\ new \in Video /\ new.visible = This.visible /\ new.path = This.path
      /\ new.print = This.print /\ new.row = This.row /\ new.file = This.file
      /\ new.manifest = This.manifest /\ new.remote[s] = Torn
      /\ \A t \in Segments \ {s} : new.remote[t] = This.remote[t]
  <2>1. new = WithObject(s, Torn) /\ Torn \in Content \cup {Torn}
    BY <1>4, ThisIn DEF Video, WithObject
  <2> HIDE DEF new
  <2>2. new \in Video
    BY <1>4, <1>5, <2>1, RemoteSet
  <2>3. new.remote[s] = Torn
    BY <1>4, <1>5, <2>1, RemoteSet
  <2>4. ASSUME NEW t \in Segments \ {s} PROVE new.remote[t] = This.remote[t]
    BY <1>4, <1>5, <2>1, RemoteKept
  <2>5. new.visible = This.visible /\ new.path = This.path /\ new.manifest = This.manifest
    BY <1>4, <1>5, <2>1, RemoteSet
  <2>6. new.print = This.print /\ new.row = This.row /\ new.file = This.file
    BY <1>4, <1>5, <2>1, RemoteSet
  <2> QED BY <2>2, <2>3, <2>4, <2>5, <2>6
<1>7. ~(~MayTearFiles /\ run.video \notin doomed /\ This.manifest)
  <2> SUFFICES ASSUME ~MayTearFiles, run.video \notin doomed, This.manifest PROVE FALSE
    OBVIOUS
  <2>1. This.remote[s] \in Contents /\ This.file[s] # Torn
    BY <1>4, <1>5, ThisIs
  <2> QED BY <1>1, <2>1, NumbersIn DEF RemoteMatches
<1> HIDE DEF new
<1>8. Whole(new)
  <2>1. \A t \in Segments : This.row[t] # NoContent
    BY <1>2 DEF Inv, RunInv, ThisInv
  <2>2. AllNamed(new)
    BY <1>4, <1>6, <2>1, ThisIs DEF AllNamed, Found, Named, Objects
  <2> QED BY <1>2, <1>4, <1>6, <1>7, <2>2, ThisIs DEF Whole
<1>9. /\ Fits("preserve", run.todo) /\ Suits("preserve", run.todo, new)
      /\ Ends("preserve", new)
  BY <1>4, <1>6 DEF Fits, Suits, Ends
<1>10. \A c : Pure(This, c) => Pure(new, c)
  BY <1>6 DEF Pure
<1>11. run.pc # "idle" /\ "preserve" \in Pc
  BY <1>2
<1> QED BY <1>2, <1>3, <1>4, <1>6, <1>8, <1>9, <1>10, <1>11, FailureCounts, VideoCore

LEMMA UploadManifestKeeps == Inv /\ UploadManifest => Inv'
<1> SUFFICES ASSUME Inv, UploadManifest PROVE Inv'
  OBVIOUS
<1> USE DEF Pc, Working, Removing, Holding, Importing, HasRows, HasPath, HasObjects, Trying,
            Finalizing, Preserving, Deleting
<1> DEFINE new == [This EXCEPT !.manifest = TRUE]
<1>1. /\ run.pc = "uploadManifest" /\ Goto("cover") /\ SetThis(new)
      /\ UNCHANGED <<jobs, videos, born, doomed, strayed, source, counters>>
  BY DEF UploadManifest, At, OnlyVideo, table
<1>2. /\ run' = [run EXCEPT !.pc = "cover", !.todo = run.todo]
      /\ run.todo \in SUBSET Objects
  BY <1>1, GotoIs, RunType
<1>3. /\ run.video \in videos /\ jobs[run.job].kind = "import" /\ ~This.visible /\ This.path
      /\ \A s \in Segments : This.row[s] # NoContent
      /\ ~MayTearFiles => \A s \in Segments : This.remote[s] \in Contents
  BY <1>1 DEF Inv, RunInv, ThisInv
<1>4. /\ new \in Video /\ new.visible = This.visible /\ new.path = This.path
      /\ new.print = This.print /\ new.row = This.row /\ new.file = This.file
      /\ new.remote = This.remote /\ new.manifest = TRUE
  BY <1>3, ThisIn DEF Video
<1> HIDE DEF new
<1>5. Whole(new)
  BY <1>1, <1>3, <1>4, ThisIs DEF Whole, AllNamed, Found, Named
<1>6. Fits("cover", run.todo) /\ Suits("cover", run.todo, new) /\ Ends("cover", new)
  BY <1>3, <1>4 DEF Fits, Suits, Ends
<1>7. \A c : Pure(This, c) => Pure(new, c)
  BY <1>4 DEF Pure
<1> QED BY <1>1, <1>2, <1>3, <1>4, <1>5, <1>6, <1>7, CountersSame, VideoCore

LEMMA PublishVideoKeeps == Inv /\ PublishVideo => Inv'
<1> SUFFICES ASSUME Inv, PublishVideo PROVE Inv'
  OBVIOUS
<1> USE DEF Pc, Working, Removing, Holding, Importing, HasRows, HasPath, HasObjects, Trying,
            Finalizing, Preserving, Deleting
<1> DEFINE new == [This EXCEPT !.visible = TRUE]
<1>1. /\ run.pc = "publish" /\ Goto("untarget") /\ SetThis(new)
      /\ UNCHANGED <<jobs, videos, born, doomed, strayed, source, counters>>
  BY DEF PublishVideo, At, OnlyVideo, table
<1>2. /\ run' = [run EXCEPT !.pc = "untarget", !.todo = run.todo]
      /\ run.todo \in SUBSET Objects
  BY <1>1, GotoIs, RunType
<1>3. /\ run.video \in videos /\ jobs[run.job].kind = "import" /\ This.path /\ This.manifest
      /\ \A s \in Segments : This.row[s] # NoContent
      /\ ~MayTearFiles => \A s \in Segments : This.remote[s] \in Contents
  BY <1>1 DEF Inv, RunInv, ThisInv
<1>4. /\ new \in Video /\ new.visible = TRUE /\ new.path = This.path
      /\ new.print = This.print /\ new.row = This.row /\ new.file = This.file
      /\ new.remote = This.remote /\ new.manifest = This.manifest
  BY <1>3, ThisIn DEF Video
<1>5. Steady => \A s \in Segments : This.remote[s] = This.row[s]
  <2> SUFFICES ASSUME Steady, NEW s \in Segments PROVE This.remote[s] = This.row[s]
    OBVIOUS
  <2>1. run.job \in JobIds /\ run.video \in Videos /\ Belongs(run.video, run.job)
    BY <1>1, <1>3, HolderIn DEF Belongs
  <2>2. Pure(This, source[run.job])
    BY <2>1 DEF Inv, PureInv, This
  <2>3. This.remote[s] # NoContent /\ This.remote[s] # Torn /\ This.row[s] # NoContent
    BY <1>3, NumbersIn DEF Steady
  <2> QED BY <2>2, <2>3 DEF Pure
<1> HIDE DEF new
<1>6. Whole(new)
  BY <1>1, <1>3, <1>4, <1>5, ThisIs DEF Whole, AllNamed, Found, Named
<1>7. /\ Fits("untarget", run.todo) /\ Suits("untarget", run.todo, new)
      /\ Ends("untarget", new)
  BY <1>3, <1>4 DEF Fits, Suits, Ends
<1>8. \A c : Pure(This, c) => Pure(new, c)
  BY <1>4 DEF Pure
<1> QED BY <1>1, <1>2, <1>3, <1>4, <1>6, <1>7, <1>8, CountersSame, VideoCore

LEMMA HideFailedKeeps == Inv /\ HideFailed => Inv'
<1> SUFFICES ASSUME Inv, HideFailed PROVE Inv'
  OBVIOUS
<1> USE DEF Pc, Working, Removing, Holding, Importing, HasRows, HasPath, HasObjects, Trying,
            Finalizing, Preserving, Deleting
<1> DEFINE new == [This EXCEPT !.visible = FALSE]
<1>1. /\ run.pc = "preserve" /\ Goto("target") /\ SetThis(new)
      /\ UNCHANGED <<jobs, videos, born, doomed, strayed, source, counters>>
  BY DEF HideFailed, At, OnlyVideo, table
<1>2. /\ run' = [run EXCEPT !.pc = "target", !.todo = run.todo]
      /\ run.todo \in SUBSET Objects
  BY <1>1, GotoIs, RunType
<1>3. run.video \in videos /\ jobs[run.job].kind = "import"
  BY <1>1 DEF Inv, RunInv
<1>4. /\ new \in Video /\ new.visible = FALSE /\ new.path = This.path
      /\ new.print = This.print /\ new.row = This.row /\ new.file = This.file
      /\ new.remote = This.remote /\ new.manifest = This.manifest
  BY <1>3, ThisIn DEF Video
<1> HIDE DEF new
<1>5. Whole(new)
  BY <1>1, <1>3, <1>4, ThisIs DEF Whole, AllNamed, Found, Named
<1>6. Fits("target", run.todo) /\ Suits("target", run.todo, new) /\ Ends("target", new)
  BY <1>3, <1>4 DEF Fits, Suits, Ends
<1>7. \A c : Pure(This, c) => Pure(new, c)
  BY <1>4 DEF Pure
<1> QED BY <1>1, <1>2, <1>3, <1>4, <1>5, <1>6, <1>7, CountersSame, VideoCore

\* Without one of its objects the video has no object that it had not before.
LEMMA WithoutObjectIs ==
    ASSUME Inv, run.video \in videos, NEW object \in Objects, NEW new,
           new = WithoutObject(This, object)
    PROVE  /\ new \in Video /\ new.visible = This.visible /\ new.path = This.path
           /\ new.print = This.print /\ new.row = This.row /\ new.file = This.file
           /\ new.manifest => This.manifest
           /\ new.kept = This.kept /\ ~Found(new, object)
           /\ \A s \in Segments : new.remote[s] \in {This.remote[s], NoContent}
<1>1. CASE object = Manifest
  <2>1. new = [This EXCEPT !.manifest = FALSE]
    BY <1>1 DEF WithoutObject
  <2>2. /\ new \in Video /\ new.visible = This.visible /\ new.path = This.path
        /\ new.print = This.print /\ new.row = This.row /\ new.file = This.file
        /\ new.manifest = FALSE /\ new.remote = This.remote /\ new.kept = This.kept
    BY <2>1, ThisIn DEF Video
  <2> QED BY <1>1, <2>2 DEF Found
<1>2. CASE object \in Segments
  <2>1. object # Manifest
    BY <1>2, SegmentsIn
  <2>2. new = WithObject(object, NoContent) /\ NoContent \in Content \cup {Torn}
    BY <2>1, ThisIn DEF WithoutObject, WithObject, Content, Video
  <2>3. new \in Video
    BY <1>2, <2>2, RemoteSet
  <2>4. new.visible = This.visible /\ new.path = This.path /\ new.manifest = This.manifest
    BY <1>2, <2>2, RemoteSet
  <2>5. new.print = This.print /\ new.row = This.row /\ new.file = This.file
    BY <1>2, <2>2, RemoteSet
  <2>6. new.remote[object] = NoContent /\ new.kept = This.kept
    BY <1>2, <2>2, RemoteSet
  <2>7. ASSUME NEW s \in Segments PROVE new.remote[s] \in {This.remote[s], NoContent}
    <3>1. CASE s = object
      BY <2>6, <3>1
    <3>2. CASE s # object
      <4>1. WithObject(object, NoContent).remote[s] = This.remote[s]
        BY <1>2, <3>2, RemoteKept
      <4> QED BY <2>2, <4>1
    <3> QED BY <3>1, <3>2
  <2>8. ~Found(new, object)
    BY <2>1, <2>6 DEF Found
  <2> QED BY <2>3, <2>4, <2>5, <2>6, <2>7, <2>8
<1> QED BY <1>1, <1>2 DEF Objects

\* What could not be removed is recorded.
LEMMA KeepIs ==
    ASSUME Inv, run.video \in videos, NEW item \in Items, NEW new, new = Keep(item)
    PROVE  /\ new \in Video /\ new.visible = This.visible /\ new.path = This.path
           /\ new.print = This.print /\ new.row = This.row /\ new.file = This.file
           /\ new.remote = This.remote /\ new.manifest = This.manifest
           /\ new.kept = This.kept \cup {item}
BY ThisIn DEF Keep, Video

\* Without the files of some segments.
LEMMA WithoutIs ==
    ASSUME NEW video \in Video, NEW segments, NEW new, new = Without(video, segments)
    PROVE  /\ new \in Video /\ Agrees(new, video)
           /\ \A s \in Segments : s \in segments => new.file[s] = NoContent
<1> DEFINE file == [s \in Segments |-> IF s \in segments THEN NoContent ELSE video.file[s]]
<1>1. new = [video EXCEPT !.file = file]
  BY DEF Without
<1>2. video.file \in [Segments -> Content \cup {Torn}]
  BY DEF Video, Bytes
<1>3. file \in Bytes
  BY <1>2 DEF Bytes, Content
<1>4. /\ \A s \in Segments : file[s] = video.file[s] \/ file[s] = NoContent
      /\ \A s \in Segments : s \in segments => file[s] = NoContent
  OBVIOUS
<1> HIDE DEF file
<1>5. /\ new \in Video /\ new.visible = video.visible /\ new.path = video.path
      /\ new.print = video.print /\ new.row = video.row /\ new.file = file
      /\ new.remote = video.remote /\ new.manifest = video.manifest
      /\ new.kept = video.kept
  BY <1>1, <1>3 DEF Video
<1> QED BY <1>4, <1>5 DEF Agrees

LEMMA DeletePathKeeps == Inv /\ DeletePath => Inv'
<1> SUFFICES ASSUME Inv, DeletePath PROVE Inv'
  OBVIOUS
<1> USE DEF Pc, Working, Removing, Holding, Importing, HasRows, HasPath, HasObjects, Trying,
            Finalizing, Preserving, Deleting
<1>1. PICK object \in run.todo :
          /\ SetThis(WithoutObject(This, object)) \/ SetThis(Keep(object))
          /\ GotoWith(IF run.todo = {object} THEN "directory" ELSE "paths",
                      run.todo \ {object})
  BY DEF DeletePath
<1> DEFINE pc == IF run.todo = {object} THEN "directory" ELSE "paths"
           todo == run.todo \ {object}
<1>2. /\ run.pc = "paths" /\ run' = [run EXCEPT !.pc = pc, !.todo = todo]
      /\ UNCHANGED <<jobs, videos, born, doomed, strayed, source, counters>>
  BY <1>1 DEF DeletePath, At, GotoWith, OnlyVideo, table
<1>3. /\ run.video \in videos /\ run.video \in doomed
      /\ \A o \in Objects \ run.todo : Found(This, o) => o \in This.kept
  BY <1>2 DEF Inv, RunInv, ThisInv
<1>4. object \in Objects /\ object \in Items /\ todo \in SUBSET Objects
  BY RunType DEF Items
<1>5. /\ pc \in {"directory", "paths"} /\ pc \in Pc
      /\ pc = "directory" => run.todo = {object}
      /\ \A o \in Objects : o \notin todo => o = object \/ o \notin run.todo
  OBVIOUS
<1>6. PICK new : SetThis(new) /\ new \in {WithoutObject(This, object), Keep(object)}
  BY <1>1
<1>7. /\ new \in Video /\ new.visible = This.visible /\ new.path = This.path
      /\ new.print = This.print /\ new.row = This.row /\ new.file = This.file
      /\ new.manifest => This.manifest
      /\ \A s \in Segments : new.remote[s] \in {This.remote[s], NoContent}
      /\ This.kept \subseteq new.kept
      /\ Found(new, object) => object \in new.kept
  <2>1. CASE new = WithoutObject(This, object)
    BY <1>3, <1>4, <2>1, WithoutObjectIs
  <2>2. CASE new = Keep(object)
    BY <1>3, <1>4, <2>2, KeepIs
  <2> QED BY <1>6, <2>1, <2>2
<1> HIDE DEF pc, todo
<1>8. \A o \in Objects : Found(new, o) => Found(This, o)
  BY <1>7 DEF Found, Objects
<1>9. Suits(pc, todo, new)
  <2>1. \A o \in Objects : o \notin todo /\ Found(new, o) => o \in new.kept
    BY <1>3, <1>5, <1>7, <1>8
  <2>2. pc = "directory" => todo = {}
    BY <1>5 DEF todo
  <2> QED BY <1>5, <2>1, <2>2 DEF Suits
<1>10. Fits(pc, todo) /\ Ends(pc, new)
  BY <1>2, <1>3, <1>5 DEF Fits, Ends
<1>11. Whole(new)
  <2>1. AllNamed(new)
    BY <1>3, <1>7, <1>8, ThisIs DEF AllNamed, Named
  <2> QED BY <1>2, <1>3, <1>7, <2>1, ThisIs DEF Whole
<1>12. \A c : Pure(This, c) => Pure(new, c)
  BY <1>7 DEF Pure
<1> QED BY <1>2, <1>3, <1>4, <1>5, <1>6, <1>7, <1>9, <1>10, <1>11, <1>12, CountersSame, VideoCore

LEMMA DeleteDirectoryKeeps == Inv /\ DeleteDirectory => Inv'
<1> SUFFICES ASSUME Inv, DeleteDirectory PROVE Inv'
  OBVIOUS
<1> USE DEF Pc, Working, Removing, Holding, Importing, HasRows, HasPath, HasObjects, Trying,
            Finalizing, Preserving, Deleting
<1> DEFINE none == [This EXCEPT !.remote = Nothing, !.manifest = FALSE]
<1>1. /\ run.pc = "directory" /\ Goto("files")
      /\ SetThis(none) \/ SetThis(Keep(Directory))
      /\ UNCHANGED <<jobs, videos, born, doomed, strayed, source, counters>>
  BY DEF DeleteDirectory, At, OnlyVideo, table
<1>2. /\ run' = [run EXCEPT !.pc = "files", !.todo = run.todo]
      /\ run.todo \in SUBSET Objects
  BY <1>1, GotoIs, RunType
<1>3. /\ run.video \in videos /\ run.video \in doomed
      /\ \A o \in Objects : Found(This, o) => o \in This.kept
  BY <1>1 DEF Inv, RunInv, ThisInv
<1>4. PICK new : SetThis(new) /\ new \in {none, Keep(Directory)}
  BY <1>1
<1>5. /\ new \in Video /\ new.visible = This.visible /\ new.path = This.path
      /\ new.print = This.print /\ new.row = This.row /\ new.file = This.file
      /\ new.manifest => This.manifest
      /\ \A s \in Segments : new.remote[s] \in {This.remote[s], NoContent}
      /\ This.kept \subseteq new.kept
      /\ \A o \in Objects : Found(new, o) => Directory \in new.kept
  <2>1. CASE new = none
    <3>1. /\ new \in Video /\ new.visible = This.visible /\ new.path = This.path
          /\ new.print = This.print /\ new.row = This.row /\ new.file = This.file
          /\ new.remote = Nothing /\ new.manifest = FALSE /\ new.kept = This.kept
      BY <1>3, <2>1, ThisIn, CutIn DEF Video
    <3> QED BY <3>1, CutIn DEF Found, Objects
  <2>2. CASE new = Keep(Directory)
    <3>1. Directory \in Items
      BY DEF Items
    <3> QED BY <1>3, <2>2, <3>1, KeepIs
  <2> QED BY <1>4, <2>1, <2>2
<1> HIDE DEF none
<1>6. \A o \in Objects : Found(new, o) => Found(This, o)
  BY <1>5 DEF Found, Objects
<1>7. Suits("files", run.todo, new)
  BY <1>3, <1>5, <1>6 DEF Suits, ObjectsKept
<1>8. Fits("files", run.todo) /\ Ends("files", new)
  BY <1>1, <1>3 DEF Fits, Ends
<1>9. Whole(new)
  <2>1. AllNamed(new)
    BY <1>3, <1>5, <1>6, ThisIs DEF AllNamed, Named
  <2> QED BY <1>1, <1>3, <1>5, <2>1, ThisIs DEF Whole
<1>10. \A c : Pure(This, c) => Pure(new, c)
  BY <1>5 DEF Pure
<1> QED BY <1>1, <1>2, <1>3, <1>4, <1>5, <1>7, <1>8, <1>9, <1>10, CountersSame, VideoCore

LEMMA DeleteFilesKeeps == Inv /\ DeleteFiles => Inv'
<1> SUFFICES ASSUME Inv, DeleteFiles PROVE Inv'
  OBVIOUS
<1> USE DEF Pc, Working, Removing, Holding, Importing, HasRows, HasPath, HasObjects, Trying,
            Finalizing, Preserving, Deleting
<1>1. /\ run.pc = "files" /\ Goto("row")
      /\ UNCHANGED <<jobs, videos, born, doomed, strayed, source, counters>>
  BY DEF DeleteFiles, At, OnlyVideo, table
<1>2. PICK new : /\ SetThis(new)
                 /\ \/ new = Without(This, Segments)
                    \/ \E removed \in SUBSET Segments : new = Without(Keep(Files), removed)
  BY DEF DeleteFiles
<1>3. /\ run' = [run EXCEPT !.pc = "row", !.todo = run.todo]
      /\ run.todo \in SUBSET Objects
  BY <1>1, GotoIs, RunType
<1>4. run.video \in videos /\ run.video \in doomed /\ ObjectsKept(This)
  BY <1>1 DEF Inv, RunInv, ThisInv
<1>5. /\ new \in Video /\ new.visible = This.visible /\ new.path = This.path
      /\ new.print = This.print /\ new.row = This.row
      /\ \A s \in Segments : new.file[s] = This.file[s] \/ new.file[s] = NoContent
      /\ new.remote = This.remote /\ new.manifest = This.manifest
      /\ This.kept \subseteq new.kept /\ FilesKept(new)
  <2>1. CASE new = Without(This, Segments)
    BY <1>4, <2>1, ThisIn, WithoutIs DEF Agrees, FilesKept
  <2>2. ASSUME NEW removed \in SUBSET Segments, new = Without(Keep(Files), removed)
        PROVE  /\ new \in Video /\ new.visible = This.visible /\ new.path = This.path
               /\ new.print = This.print /\ new.row = This.row
               /\ new.remote = This.remote /\ new.manifest = This.manifest
               /\ \A s \in Segments : new.file[s] = This.file[s] \/ new.file[s] = NoContent
               /\ This.kept \subseteq new.kept /\ FilesKept(new)
    <3>1. PICK kept : kept = Keep(Files)
      OBVIOUS
    <3>2. /\ kept \in Video /\ kept.visible = This.visible /\ kept.path = This.path
          /\ kept.print = This.print /\ kept.row = This.row /\ kept.file = This.file
          /\ kept.remote = This.remote /\ kept.manifest = This.manifest
          /\ kept.kept = This.kept \cup {Files}
      BY <1>4, <3>1, KeepIs DEF Items
    <3>3. new \in Video /\ Agrees(new, kept)
      BY <2>2, <3>1, <3>2, WithoutIs
    <3> QED BY <3>2, <3>3 DEF Agrees, FilesKept
  <2> QED BY <1>2, <2>1, <2>2
<1>6. ObjectsKept(new)
  BY <1>4, <1>5 DEF ObjectsKept, Found
<1>7. Whole(new)
  BY <1>1, <1>4, <1>5, ThisIs, NumbersIn DEF Whole, AllNamed, Found, Named
<1>8. Fits("row", run.todo) /\ Suits("row", run.todo, new) /\ Ends("row", new)
  BY <1>1, <1>4, <1>5, <1>6 DEF Fits, Suits, Ends
<1>9. \A c : Pure(This, c) => Pure(new, c)
  BY <1>5 DEF Pure
<1> QED BY <1>1, <1>2, <1>3, <1>4, <1>5, <1>7, <1>8, <1>9, CountersSame, VideoCore

\* The cover, and the files of other videos that are evicted.
LEMMA ExtractCoverKeeps == Inv /\ ExtractCover => Inv'
<1> SUFFICES ASSUME Inv, ExtractCover PROVE Inv'
  OBVIOUS
<1> USE DEF Pc, Working, Removing, Holding, Importing, HasRows, HasPath, HasObjects, Trying,
            Finalizing, Preserving, Deleting
<1>1. PICK evicted \in SUBSET ({v \in videos \ {run.video} : lib[v].visible} \X Segments) :
          lib' = [v \in Videos |-> Without(lib[v], {s \in Segments : <<v, s>> \in evicted})]
  BY DEF ExtractCover
<1>2. /\ run.pc = "cover" /\ Goto("publish")
      /\ UNCHANGED <<jobs, videos, born, doomed, strayed, source, counters>>
  BY DEF ExtractCover, At, OnlyVideo, table
<1>3. /\ run' = [run EXCEPT !.pc = "publish", !.todo = run.todo]
      /\ run.todo \in SUBSET Objects
  BY <1>2, GotoIs, RunType
<1>4. ASSUME NEW v \in Videos
      PROVE  lib'[v] \in Video /\ Agrees(lib'[v], lib[v])
  <2>1. lib'[v] = Without(lib[v], {s \in Segments : <<v, s>> \in evicted})
    BY <1>1
  <2> QED BY <2>1, VideoType, WithoutIs
<1>5. lib' \in [Videos -> Video]
  BY <1>1, <1>4
<1>6. run.video \in videos /\ run.video \in Videos /\ lib'[run.video] = This
  <2>1. run.video \in videos /\ run.video \in Videos
    BY <1>2, HolderIn
  <2>2. \A s \in Segments : <<run.video, s>> \notin evicted
    BY <1>1
  <2>3. lib'[run.video] = Without(This, {s \in Segments : <<run.video, s>> \in evicted})
    BY <1>1, <2>1 DEF This
  <2>4. Without(This, {s \in Segments : <<run.video, s>> \in evicted}) = Without(This, {})
    BY <2>2
  <2>5. This \in Video /\ This.file \in [Segments -> Content \cup {Torn}]
    BY <2>1, ThisIn DEF Bytes
  <2>6. Without(This, {}) = This
    BY <2>5 DEF Without, Video
  <2> QED BY <2>1, <2>3, <2>4, <2>6
<1>7. /\ jobs[run.job].kind = "import" /\ ~This.visible /\ This.path /\ This.manifest
      /\ \A s \in Segments : This.row[s] # NoContent
      /\ ~MayTearFiles => \A s \in Segments : This.remote[s] \in Contents
  BY <1>2 DEF Inv, RunInv, ThisInv
<1>8. /\ Fits("publish", run.todo) /\ Suits("publish", run.todo, This)
      /\ Ends("publish", This)
  BY <1>6, <1>7 DEF Fits, Suits, Ends
<1>9. Whole(This)
  BY <1>2, <1>6, ThisIs DEF Whole, AllNamed, Found, Named
<1>10. NoCopies'
  <2>1. \A v \in videos' : lib'[v].print = lib[v].print
    BY <1>2, <1>4, TableType DEF Agrees
  <2> QED BY <1>2, <2>1, CopiesFrame
<1>11. Steady => \A j \in JobIds : run.video \in Videos /\ Belongs(run.video, j) =>
                                      Pure(lib'[run.video], source[j])
  BY <1>6 DEF Inv, PureInv, This
<1>12. \A v \in Videos \ {run.video} : Agrees(lib'[v], lib[v])
  BY <1>4
<1> QED BY <1>2, <1>3, <1>5, <1>6, <1>8, <1>9, <1>10, <1>11, <1>12, CountersSame, StepCore

-----------------------------------------------------------------------------
(* Steps that change a row of the jobs table.                              *)

LEMMA UpdateIs ==
    ASSUME Inv, NEW j \in JobIds, NEW status \in Active \cup Finished, NEW cancel \in BOOLEAN,
           Exists(j), UpdateJob(j, status, cancel)
    PROVE  /\ jobs' \in [JobIds -> Row] /\ jobs'[j].status = status
           /\ \A k \in JobIds : jobs'[k].kind = jobs[k].kind /\ jobs'[k].target = jobs[k].target
           /\ \A k \in JobIds \ {j} : jobs'[k] = jobs[k]
<1> DEFINE row == [jobs[j] EXCEPT !.status = status, !.cancel = cancel]
<1>1. jobs \in [JobIds -> Row] /\ jobs[j] \in Row
  BY TableType
<1>2. jobs' = [jobs EXCEPT ![j].status = status, ![j].cancel = cancel]
  BY Zenon DEF UpdateJob
<1>3. jobs' = [jobs EXCEPT ![j] = row]
  BY <1>1, <1>2 DEF Row
<1>4. /\ row \in Row /\ row.status = status /\ row.kind = jobs[j].kind
      /\ row.target = jobs[j].target
  BY <1>1 DEF Row, Statuses
<1> HIDE DEF row
<1>5. jobs'[j] = row /\ \A k \in JobIds \ {j} : jobs'[k] = jobs[k]
  BY <1>1, <1>3
<1>6. jobs' \in [JobIds -> Row]
  BY <1>1, <1>3, <1>4
<1>7. \A k \in JobIds : jobs'[k].kind = jobs[k].kind /\ jobs'[k].target = jobs[k].target
  BY <1>4, <1>5
<1> QED BY <1>4, <1>5, <1>6, <1>7

\* The run is over.
LEMMA IdleKeeps ==
    ASSUME run' = IdleRun
    PROVE  RunInv' /\ ThisInv' /\ EndInv'
<1>1. run'.pc = "idle" /\ run'.video = NoVideo
  BY DEF IdleRun
<1> QED BY <1>1 DEF RunInv, ThisInv, EndInv, Working, Removing, Holding, Importing, HasRows,
           HasPath, HasObjects, Trying, Preserving

\* The run goes on, with the same video.
LEMMA RunKeeps ==
    ASSUME Inv, UNCHANGED <<videos, lib, born, doomed, strayed, source, counters, run>>,
           jobs' \in [JobIds -> Row],
           \A k \in JobIds : jobs'[k].kind = jobs[k].kind /\ jobs'[k].target = jobs[k].target,
           run.pc # "idle" => jobs'[run.job].status \in {"running", "cancelling"}
    PROVE  RunInv' /\ ThisInv' /\ EndInv'
<1>1. run.pc # "idle" => run.job \in JobIds
  BY HolderIn
<1>2. RunInv'
  BY <1>1 DEF Inv, RunInv, Holding, Importing, Working, Removing, Trying, Preserving
<1>3. ThisInv'
  BY DEF Inv, ThisInv, This, counters
<1>4. EndInv'
  BY <1>1 DEF Inv, EndInv, This
<1> QED BY <1>2, <1>3, <1>4

LEMMA JobCore ==
    ASSUME Inv, NEW j \in JobIds, NEW status \in Active \cup Finished, NEW cancel \in BOOLEAN,
           Exists(j), UpdateJob(j, status, cancel),
           UNCHANGED <<videos, lib, born, doomed, strayed, source, counters>>,
           run' \in Run, RunInv', ThisInv', EndInv',
           \A v \in Videos, k \in JobIds :
               jobs[k].kind = "import" /\ run'.pc # "idle" /\ run'.job = k /\ run'.video = v =>
                   Belongs(v, k),
           run.video \in videos \ strayed =>
               \/ run'.video = run.video \/ lib[run.video].visible
               \/ \E k \in JobIds : jobs'[k].target = run.video
                                    /\ jobs'[k].status \in Active \cup Failed,
           jobs[j].target # NoVideo => status \in Active \cup Failed
    PROVE  Inv'
<1>1. /\ jobs' \in [JobIds -> Row] /\ jobs'[j].status = status
      /\ \A k \in JobIds : jobs'[k].kind = jobs[k].kind /\ jobs'[k].target = jobs[k].target
      /\ \A k \in JobIds \ {j} : jobs'[k] = jobs[k]
  BY UpdateIs
<1>2. jobs[j].status \in Active \cup Finished
  BY DEF Exists
<1>3. TypeOK'
  <2>1. TableTypeOK'
    BY <1>1, TableType DEF TableTypeOK
  <2> QED BY <2>1 DEF Inv, TypeOK, counters
<1>4. \A v \in Videos : Agrees(lib'[v], lib[v])
  BY DEF Agrees
<1>5. VideosInv'
  <2>1. \A v \in Videos : VideoInv(v)'
    <3> TAKE v \in Videos
    <3>1. VideoInv(v)
      BY DEF Inv, VideosInv
    <3> QED BY <3>1, <1>4, VideoFrame DEF counters
  <2> QED BY <2>1 DEF VideosInv
<1>6. \A k \in JobIds : jobs'[k].status = "unborn" <=> jobs[k].status = "unborn"
  <2> TAKE k \in JobIds
  <2>1. CASE k = j
    BY <1>1, <1>2, <2>1 DEF Active, Finished
  <2>2. CASE k # j
    BY <1>1, <2>2
  <2> QED BY <2>1, <2>2
<1>7. JobsInv'
  BY <1>1, <1>6, JobsFrame
<1>8. \A v \in Videos, k \in JobIds : Belongs(v, k)' => Belongs(v, k)
  BY <1>1 DEF Belongs
<1>9. OwnerInv'
  BY <1>8, OwnerFrame
<1>10. PureInv'
  <2>1. NoVideo \notin Videos
    BY NumbersIn
  <2>2. \A v \in Videos \ {NoVideo} : Agrees(lib'[v], lib[v])
    BY <1>4
  <2> QED BY <1>8, <2>1, <2>2, PureFrame
<1>11. NoCopies'
  BY CopiesFrame
<1>12. HiddenIsReachable'
  <2>1. ASSUME NEW k \in JobIds, jobs[k].status \in Active \cup Failed, jobs[k].target \in videos
        PROVE  jobs'[k].target = jobs[k].target /\ jobs'[k].status \in Active \cup Failed
    <3>1. CASE k = j
      BY <1>1, <2>1, <3>1, NumbersIn, TableType
    <3>2. CASE k # j
      BY <1>1, <2>1, <3>2
    <3> QED BY <3>1, <3>2
  <2> QED BY <2>1, ReachFrame
<1> QED BY <1>3, <1>5, <1>7, <1>9, <1>10, <1>11, <1>12 DEF Inv

LEMMA StartImportKeeps == ASSUME Inv, NEW j \in JobIds, StartImport(j) PROVE Inv'
<1> USE DEF Pc, Working, Removing, Holding, Importing, HasRows, HasPath, HasObjects, Trying,
            Finalizing, Preserving, Deleting
<1>1. /\ run.pc = "idle" /\ jobs[j].kind = "import" /\ jobs[j].status = "queued"
      /\ UpdateJob(j, "running", FALSE) /\ run' = [IdleRun EXCEPT !.pc = "probe", !.job = j]
      /\ UNCHANGED <<videos, lib, born, doomed, strayed, source, counters>>
  BY DEF StartImport, At, MarkRunning, OnlyJob, library
<1>2. Exists(j) /\ "running" \in Active \cup Finished
  BY <1>1 DEF Exists, Active, Finished
<1>3. /\ run' \in Run /\ run'.pc = "probe" /\ run'.job = j /\ run'.video = NoVideo
  BY <1>1, IdleIn DEF IdleRun, Run
<1>4. jobs'[j].status = "running" /\ jobs'[j].kind = "import"
  BY <1>1, <1>2, UpdateIs
<1>5. RunInv' /\ ThisInv' /\ EndInv'
  BY <1>3, <1>4 DEF RunInv, ThisInv, EndInv
<1>6. NoVideo \notin Videos /\ run.video = NoVideo /\ videos \subseteq Videos
  BY <1>1, NumbersIn, TableType DEF Inv, RunInv
<1>7. "running" \in Active \cup Failed
  BY DEF Active
<1> QED BY <1>1, <1>2, <1>3, <1>5, <1>6, <1>7, JobCore

LEMMA RejectImportKeeps == ASSUME Inv, NEW j \in JobIds, RejectImport(j) PROVE Inv'
<1>1. /\ run.pc = "idle" /\ jobs[j].status = "queued"
      /\ UpdateJob(j, "failed", FALSE) /\ run' = run
      /\ UNCHANGED <<videos, lib, born, doomed, strayed, source, counters>>
  BY DEF RejectImport, At, MarkFailed, OnlyJob, library
<1>2. Exists(j) /\ "failed" \in Active \cup Finished /\ "failed" \in Active \cup Failed
  BY <1>1 DEF Exists, Active, Finished, Failed
<1>3. /\ jobs' \in [JobIds -> Row]
      /\ \A k \in JobIds : jobs'[k].kind = jobs[k].kind /\ jobs'[k].target = jobs[k].target
  BY <1>1, <1>2, UpdateIs
<1>4. RunInv' /\ ThisInv' /\ EndInv'
  BY <1>1, <1>3, RunKeeps
<1> QED BY <1>1, <1>2, <1>4, RunType, JobCore

LEMMA StartDeleteKeeps == ASSUME Inv, NEW j \in JobIds, StartDelete(j) PROVE Inv'
<1> USE DEF Pc, Working, Removing, Holding, Importing, HasRows, HasPath, HasObjects, Trying,
            Finalizing, Preserving, Deleting
<1>1. /\ run.pc = "idle" /\ jobs[j].kind = "delete" /\ jobs[j].status = "queued"
      /\ IF jobs[j].target = NoVideo
         THEN UpdateJob(j, "failed", FALSE) /\ run' = run
         ELSE /\ UpdateJob(j, "running", FALSE)
              /\ run' = [IdleRun EXCEPT !.pc = "delete", !.job = j, !.video = jobs[j].target]
      /\ UNCHANGED <<videos, lib, born, doomed, strayed, source, counters>>
  BY DEF StartDelete, IsDelete, At, MarkRunning, MarkFailed, OnlyJob, library
<1>2. Exists(j) /\ {"failed", "running"} \subseteq Active \cup Finished
      /\ {"failed", "running"} \subseteq Active \cup Failed
  BY <1>1 DEF Exists, Active, Finished, Failed
<1>3. CASE jobs[j].target = NoVideo
  <2>1. /\ jobs' \in [JobIds -> Row]
        /\ \A k \in JobIds : jobs'[k].kind = jobs[k].kind /\ jobs'[k].target = jobs[k].target
      BY <1>1, <1>2, <1>3, UpdateIs
  <2>2. RunInv' /\ ThisInv' /\ EndInv'
    BY <1>1, <1>3, <2>1, RunKeeps
  <2> QED BY <1>1, <1>2, <1>3, <2>2, RunType, JobCore
<1>4. CASE jobs[j].target # NoVideo
  <2>1. jobs[j].target \in videos /\ jobs[j].target \in Videos
    BY <1>4, TableType
  <2>2. /\ run' = [IdleRun EXCEPT !.pc = "delete", !.job = j, !.video = jobs[j].target]
        /\ UpdateJob(j, "running", FALSE)
    BY <1>1, <1>4
  <2>3. /\ run' \in Run /\ run'.pc = "delete" /\ run'.job = j /\ run'.video = jobs[j].target
    BY <2>1, <2>2, IdleIn DEF IdleRun, Run
  <2>4. /\ jobs'[j].status = "running" /\ jobs'[j].kind = "delete"
        /\ jobs'[j].target = jobs[j].target
    BY <1>1, <1>2, <2>2, UpdateIs
  <2>5. RunInv' /\ ThisInv' /\ EndInv'
    BY <1>1, <2>1, <2>3, <2>4 DEF RunInv, ThisInv, EndInv
  <2>6. NoVideo \notin Videos /\ run.video = NoVideo /\ videos \subseteq Videos
    BY <1>1, NumbersIn, TableType DEF Inv, RunInv
  <2>7. \A v \in Videos, k \in JobIds :
            jobs[k].kind = "import" /\ run'.pc # "idle" /\ run'.job = k /\ run'.video = v =>
                Belongs(v, k)
    BY <1>1, <2>3
  <2> QED BY <1>1, <1>2, <2>2, <2>3, <2>5, <2>6, <2>7, JobCore
<1> QED BY <1>3, <1>4

LEMMA CancelImportKeeps == ASSUME Inv, NEW j \in JobIds, CancelImport(j) PROVE Inv'
<1>1. /\ \/ jobs[j].status = "queued" /\ UpdateJob(j, "cancelled", TRUE)
         \/ jobs[j].status = "running" /\ UpdateJob(j, "cancelling", TRUE)
      /\ run' = run /\ UNCHANGED <<videos, lib, born, doomed, strayed, source, counters>>
  BY DEF CancelImport, CancelQueued, CancelStarted, MarkCancelled, OnlyJob, library
<1>2. PICK status \in {"cancelled", "cancelling"} :
          /\ UpdateJob(j, status, TRUE)
          /\ IF status = "cancelled" THEN jobs[j].status = "queued" ELSE jobs[j].status = "running"
  BY <1>1
<1>3. /\ Exists(j) /\ status \in Active \cup Finished /\ status \in Active \cup Failed
      /\ status # "gone" /\ jobs[j].status # "gone"
  BY <1>2 DEF Exists, Active, Finished, Failed
<1>4. /\ jobs' \in [JobIds -> Row] /\ jobs'[j].status = status
      /\ \A k \in JobIds : jobs'[k].kind = jobs[k].kind /\ jobs'[k].target = jobs[k].target
      /\ \A k \in JobIds \ {j} : jobs'[k] = jobs[k]
  BY <1>2, <1>3, UpdateIs
<1>6. run.pc # "idle" => jobs'[run.job].status \in {"running", "cancelling"}
  <2> SUFFICES ASSUME run.pc # "idle" PROVE jobs'[run.job].status \in {"running", "cancelling"}
    OBVIOUS
  <2>1. run.job \in JobIds /\ jobs[run.job].status \in {"running", "cancelling"}
    BY HolderIn
  <2> QED BY <1>2, <1>4, <2>1
<1>7. RunInv' /\ ThisInv' /\ EndInv'
  BY <1>1, <1>4, <1>6, RunKeeps
<1> QED BY <1>1, <1>2, <1>3, <1>7, RunType, JobCore DEF Belongs

LEMMA RetryImportKeeps == ASSUME Inv, NEW j \in JobIds, RetryImport(j) PROVE Inv'
<1>1. /\ jobs[j].status \in Failed /\ UpdateJob(j, "queued", FALSE)
      /\ run' = run /\ UNCHANGED <<videos, lib, born, doomed, strayed, source, counters>>
  BY DEF RetryImport, Requeue, OnlyJob, library
<1>2. /\ Exists(j) /\ "queued" \in Active \cup Finished /\ "queued" \in Active \cup Failed
      /\ jobs[j].status \notin {"gone", "running", "cancelling"}
  BY <1>1 DEF Exists, Active, Finished, Failed
<1>3. /\ jobs' \in [JobIds -> Row] /\ jobs'[j].status = "queued"
      /\ \A k \in JobIds : jobs'[k].kind = jobs[k].kind /\ jobs'[k].target = jobs[k].target
      /\ \A k \in JobIds \ {j} : jobs'[k] = jobs[k]
  BY <1>1, <1>2, UpdateIs
<1>5. run.pc # "idle" => jobs'[run.job].status \in {"running", "cancelling"}
  <2> SUFFICES ASSUME run.pc # "idle" PROVE jobs'[run.job].status \in {"running", "cancelling"}
    OBVIOUS
  <2>1. run.job \in JobIds /\ jobs[run.job].status \in {"running", "cancelling"}
    BY HolderIn
  <2> QED BY <1>2, <1>3, <2>1
<1>6. RunInv' /\ ThisInv' /\ EndInv'
  BY <1>1, <1>3, <1>5, RunKeeps
<1> QED BY <1>1, <1>2, <1>6, RunType, JobCore DEF Belongs

LEMMA CompleteKeeps == Inv /\ Complete => Inv'
<1> SUFFICES ASSUME Inv, Complete PROVE Inv'
  OBVIOUS
<1>1. /\ run.pc = "complete" /\ UpdateJob(run.job, "completed", FALSE) /\ run' = IdleRun
      /\ UNCHANGED <<videos, lib, born, doomed, strayed, source, counters>>
  BY DEF Complete, At, MarkCompleted, OnlyJob, library
<1>2. /\ run.job \in JobIds /\ Exists(run.job) /\ run.pc # "idle"
      /\ "completed" \in Active \cup Finished
  BY <1>1, HolderIn DEF Active, Finished
<1>3. run' \in Run /\ run'.pc = "idle" /\ RunInv' /\ ThisInv' /\ EndInv'
  BY <1>1, IdleIn, IdleKeeps DEF IdleRun
<1>5. run.video \in videos \ strayed =>
          \/ run'.video = run.video \/ lib[run.video].visible
          \/ \E k \in JobIds : jobs'[k].target = run.video
                               /\ jobs'[k].status \in Active \cup Failed
  BY <1>1 DEF Inv, EndInv, This
<1>6. jobs[run.job].target # NoVideo => "completed" \in Active \cup Failed
  BY <1>1 DEF Inv, EndInv
<1> QED BY <1>1, <1>2, <1>3, <1>5, <1>6, JobCore

LEMMA FailKeeps == Inv /\ Fail => Inv'
<1> SUFFICES ASSUME Inv, Fail PROVE Inv'
  OBVIOUS
<1>1. /\ run.pc = "fail" /\ UpdateJob(run.job, "failed", FALSE) /\ run' = IdleRun
      /\ UNCHANGED <<videos, lib, born, doomed, strayed, source, counters>>
  BY DEF Fail, At, MarkFailed, OnlyJob, library
<1>2. /\ run.job \in JobIds /\ Exists(run.job) /\ run.pc # "idle"
      /\ "failed" \in Active \cup Finished
  BY <1>1, HolderIn DEF Active, Finished
<1>3. run' \in Run /\ run'.pc = "idle" /\ RunInv' /\ ThisInv' /\ EndInv'
  BY <1>1, IdleIn, IdleKeeps DEF IdleRun
<1>5. run.video \in videos \ strayed =>
          \/ run'.video = run.video \/ lib[run.video].visible
          \/ \E k \in JobIds : jobs'[k].target = run.video
                               /\ jobs'[k].status \in Active \cup Failed
  <2> SUFFICES ASSUME run.video \in videos \ strayed, ~lib[run.video].visible
               PROVE  jobs'[run.job].target = run.video /\ jobs'[run.job].status \in Failed
    BY <1>2
  <2>1. jobs[run.job].target = run.video
    BY <1>1 DEF Inv, EndInv, This
  <2> QED BY <1>1, <1>2, <2>1, UpdateIs DEF Failed
<1>6. jobs[run.job].target # NoVideo => "failed" \in Active \cup Failed
  BY DEF Failed
<1> QED BY <1>1, <1>2, <1>3, <1>5, <1>6, JobCore

LEMMA CancelledKeeps == Inv /\ Cancelled => Inv'
<1> SUFFICES ASSUME Inv, Cancelled PROVE Inv'
  OBVIOUS
<1>1. /\ run.pc = "cancel" /\ UpdateJob(run.job, "cancelled", TRUE) /\ run' = IdleRun
      /\ UNCHANGED <<videos, lib, born, doomed, strayed, source, counters>>
  BY DEF Cancelled, At, MarkCancelled, OnlyJob, library
<1>2. /\ run.job \in JobIds /\ Exists(run.job) /\ run.pc # "idle"
      /\ "cancelled" \in Active \cup Finished
  BY <1>1, HolderIn DEF Active, Finished
<1>3. run' \in Run /\ run'.pc = "idle" /\ RunInv' /\ ThisInv' /\ EndInv'
  BY <1>1, IdleIn, IdleKeeps DEF IdleRun
<1>5. run.video \in videos \ strayed =>
          \/ run'.video = run.video \/ lib[run.video].visible
          \/ \E k \in JobIds : jobs'[k].target = run.video
                               /\ jobs'[k].status \in Active \cup Failed
  <2> SUFFICES ASSUME run.video \in videos \ strayed, ~lib[run.video].visible
               PROVE  jobs'[run.job].target = run.video /\ jobs'[run.job].status \in Failed
    BY <1>2
  <2>1. jobs[run.job].target = run.video
    BY <1>1 DEF Inv, EndInv, This
  <2> QED BY <1>1, <1>2, <2>1, UpdateIs DEF Failed
<1>6. jobs[run.job].target # NoVideo => "cancelled" \in Active \cup Failed
  BY DEF Failed
<1> QED BY <1>1, <1>2, <1>3, <1>5, <1>6, JobCore

\* The video that the job remembers.
LEMMA TargetCore ==
    ASSUME Inv, run.pc # "idle", NEW pc \in Pc, NEW target \in {NoVideo, run.video},
           run.video \in videos, run' = [run EXCEPT !.pc = pc, !.todo = run.todo],
           jobs' = [jobs EXCEPT ![run.job].target = target],
           jobs[run.job].kind = "import",
           UNCHANGED <<videos, lib, born, doomed, strayed, source, counters>>,
           RunInv', ThisInv', EndInv'
    PROVE  Inv'
<1> DEFINE row == [jobs[run.job] EXCEPT !.target = target]
<1>1. run.job \in JobIds /\ jobs \in [JobIds -> Row] /\ jobs[run.job] \in Row
  BY HolderIn, TableType
<1>2. jobs' = [jobs EXCEPT ![run.job] = row]
  BY <1>1 DEF Row
<1>3. /\ row \in Row /\ row.status = jobs[run.job].status /\ row.kind = "import"
      /\ row.target = target
  BY <1>1, TableType DEF Row
<1> HIDE DEF row
<1>4. /\ jobs' \in [JobIds -> Row] /\ jobs'[run.job] = row
      /\ \A k \in JobIds \ {run.job} : jobs'[k] = jobs[k]
  BY <1>1, <1>2, <1>3
<1>5. /\ \A k \in JobIds : jobs'[k].kind = jobs[k].kind /\ jobs'[k].status = jobs[k].status
      /\ jobs'[run.job].target = target
      /\ \A k \in JobIds \ {run.job} : jobs'[k].target = jobs[k].target
  BY <1>3, <1>4
<1>6. /\ run' \in Run /\ run'.pc = pc /\ run'.job = run.job /\ run'.video = run.video
  BY GoneTo, RunType
<1>7. TypeOK'
  <2>1. TableTypeOK'
    BY <1>4, <1>5, TableType DEF TableTypeOK
  <2> QED BY <1>6, <2>1 DEF Inv, TypeOK, counters
<1>8. VideosInv'
  <2>1. \A v \in Videos : VideoInv(v)'
    <3> TAKE v \in Videos
    <3>1. VideoInv(v) /\ Agrees(lib'[v], lib[v])
      BY DEF Inv, VideosInv, Agrees
    <3> QED BY <3>1, VideoFrame DEF counters
  <2> QED BY <2>1 DEF VideosInv
<1>9. JobsInv'
  <2>1. jobs[run.job].status # "unborn"
    BY HolderIn
  <2> QED BY <1>5, <2>1 DEF Inv, JobsInv
<1>10. \A v \in Videos, k \in JobIds : Belongs(v, k)' => Belongs(v, k)
  <2> SUFFICES ASSUME NEW v \in Videos, NEW k \in JobIds, Belongs(v, k)' PROVE Belongs(v, k)
    OBVIOUS
  <2>1. CASE k = run.job
    <3>1. v = run.video
      BY <1>5, <1>6, <2>1, NumbersIn DEF Belongs
    <3> QED BY <1>5, <2>1, <3>1 DEF Belongs
  <2>2. CASE k # run.job
    BY <1>5, <1>6, <2>2 DEF Belongs
  <2> QED BY <2>1, <2>2
<1>11. OwnerInv'
  BY <1>10, OwnerFrame
<1>12. PureInv'
  <2>1. NoVideo \notin Videos /\ \A v \in Videos \ {NoVideo} : Agrees(lib'[v], lib[v])
    BY NumbersIn DEF Agrees
  <2> QED BY <1>10, <2>1, PureFrame
<1>13. NoCopies'
  BY CopiesFrame
<1>14. HiddenIsReachable'
  <2> SUFFICES ASSUME NEW v \in videos \ strayed, ~lib[v].visible, run.video # v
               PROVE  \E k \in JobIds : jobs'[k].target = v /\ jobs'[k].status \in Active \cup Failed
    BY <1>6 DEF HiddenIsReachable
  <2>2. PICK k \in JobIds : jobs[k].target = v /\ jobs[k].status \in Active \cup Failed
    BY DEF Inv, HiddenIsReachable
  <2>3. v # NoVideo
    BY NumbersIn, TableType
  <2>4. run.video # NoVideo
    BY NumbersIn, TableType
  <2>5. jobs[run.job].target \in {NoVideo, run.video}
    BY <2>4 DEF Inv, RunInv
  <2>6. k # run.job
    BY <2>2, <2>3, <2>5
  <2> QED BY <1>5, <2>2, <2>6
<1> QED BY <1>7, <1>8, <1>9, <1>11, <1>12, <1>13, <1>14 DEF Inv

LEMMA ClearTargetKeeps == Inv /\ ClearTarget => Inv'
<1> SUFFICES ASSUME Inv, ClearTarget PROVE Inv'
  OBVIOUS
<1> USE DEF Pc, Working, Removing, Holding, Importing, HasRows, HasPath, HasObjects, Trying,
            Finalizing, Preserving, Deleting
<1>1. /\ run.pc = "untarget" /\ Goto("complete")
      /\ jobs' = [jobs EXCEPT ![run.job].target = NoVideo]
      /\ UNCHANGED <<videos, lib, born, doomed, strayed, source, counters>>
  BY DEF ClearTarget, At, OnlyJob, library
<1>2. run' = [run EXCEPT !.pc = "complete", !.todo = run.todo]
  BY <1>1, GotoIs
<1>3. /\ run'.pc = "complete" /\ run'.job = run.job /\ run'.video = run.video
  BY <1>2, GoneTo, RunType
<1>4. /\ run.job \in JobIds /\ jobs[run.job].kind = "import" /\ run.video \in videos
      /\ jobs[run.job].status \in {"running", "cancelling"} /\ jobs[run.job] \in Row
  BY <1>1, HolderIn DEF Inv, RunInv
<1>5. /\ jobs'[run.job].target = NoVideo /\ jobs'[run.job].status = jobs[run.job].status
      /\ \A k \in JobIds : jobs'[k].status = jobs[k].status
  BY <1>1, <1>4, TableType DEF Row
<1>6. RunInv' /\ ThisInv'
  BY <1>3, <1>4, <1>5 DEF RunInv, ThisInv
<1>7. EndInv'
  BY <1>1, <1>3, <1>5 DEF Inv, EndInv, This
<1> QED BY <1>1, <1>2, <1>4, <1>6, <1>7, TargetCore

LEMMA TargetFailedKeeps == Inv /\ TargetFailed => Inv'
<1> SUFFICES ASSUME Inv, TargetFailed PROVE Inv'
  OBVIOUS
<1> USE DEF Pc, Working, Removing, Holding, Importing, HasRows, HasPath, HasObjects, Trying,
            Finalizing, Preserving, Deleting
<1>1. /\ run.pc = "target" /\ Goto("fail")
      /\ jobs' = [jobs EXCEPT ![run.job].target = run.video]
      /\ UNCHANGED <<videos, lib, born, doomed, strayed, source, counters>>
  BY DEF TargetFailed, At, OnlyJob, library
<1>2. run' = [run EXCEPT !.pc = "fail", !.todo = run.todo]
  BY <1>1, GotoIs
<1>3. /\ run'.pc = "fail" /\ run'.job = run.job /\ run'.video = run.video
  BY <1>2, GoneTo, RunType
<1>4. /\ run.job \in JobIds /\ jobs[run.job].kind = "import" /\ run.video \in videos
      /\ jobs[run.job].status \in {"running", "cancelling"} /\ jobs[run.job] \in Row
  BY <1>1, HolderIn DEF Inv, RunInv
<1>5. /\ jobs'[run.job].target = run.video /\ jobs'[run.job].status = jobs[run.job].status
  BY <1>1, <1>4, TableType DEF Row
<1>6. RunInv' /\ ThisInv' /\ EndInv'
  BY <1>3, <1>4, <1>5 DEF RunInv, ThisInv, EndInv
<1> QED BY <1>1, <1>2, <1>4, <1>6, TargetCore

-----------------------------------------------------------------------------
(* Steps that leave the run alone.                                         *)

LEMMA RunFrame ==
    ASSUME Inv, run' = run, videos' = videos, doomed' = doomed, strayed \subseteq strayed',
           run.video \in videos => Agrees(lib'[run.video], lib[run.video]),
           run.pc # "idle" => /\ jobs'[run.job].kind = jobs[run.job].kind
                              /\ jobs'[run.job].status = jobs[run.job].status
                              /\ jobs'[run.job].target = jobs[run.job].target
    PROVE  RunInv' /\ ThisInv' /\ EndInv'
<1> USE DEF Pc, Working, Removing, Holding, Importing, HasRows, HasPath, HasObjects, Trying,
            Finalizing, Preserving, Deleting
<1>1. RunInv'
  BY DEF Inv, RunInv
<1>2. ThisInv'
  <2>1. run.pc \in Holding => run.video \in videos
    BY DEF Inv, RunInv
  <2>2. CASE run.video \in videos
    <3>1. /\ ThisInv /\ Agrees(lib'[run.video], This) /\ This' = lib'[run.video]
      BY <2>2 DEF Inv, This
    <3>2. /\ ObjectsKept(This) => ObjectsKept(This)'
          /\ FilesKept(This) => FilesKept(This)'
          /\ (This').kept = This.kept /\ \A o \in Objects : Found(This, o)' = Found(This, o)
      BY <3>1 DEF Agrees, ObjectsKept, FilesKept, Found
    <3> QED BY <3>1, <3>2 DEF ThisInv, Agrees
  <2>3. CASE run.pc \notin Holding
    BY <2>3 DEF ThisInv
  <2> QED BY <2>1, <2>2, <2>3
<1>3. EndInv'
  <2>1. \/ run.pc \notin {"fail", "cancel", "untarget", "complete"}
        \/ jobs'[run.job].target = jobs[run.job].target
    OBVIOUS
  <2>2. run.video \in videos => lib'[run.video].visible = lib[run.video].visible
    BY DEF Agrees
  <2> QED BY <2>1, <2>2 DEF Inv, EndInv, This
<1> QED BY <1>1, <1>2, <1>3

LEMMA ClearCacheKeeps == Inv /\ ClearCache => Inv'
<1> SUFFICES ASSUME Inv, ClearCache PROVE Inv'
  OBVIOUS
<1>1. PICK v \in videos, segments \in SUBSET Segments :
          lib' = [lib EXCEPT ![v] = Without(lib[v], segments)]
  BY DEF ClearCache
<1>2. /\ clears < MaxClears /\ clears' = clears + 1
      /\ UNCHANGED <<jobs, videos, born, doomed, strayed, source, run, failures, restarts, replaced>>
  BY DEF ClearCache, table
<1>3. v \in Videos /\ lib[v] \in Video
  BY TableType, VideoType
<1>4. PICK new : new = Without(lib[v], segments)
  OBVIOUS
<1>5. new \in Video /\ Agrees(new, lib[v])
  BY <1>3, <1>4, WithoutIs
<1>6. /\ lib' \in [Videos -> Video] /\ lib'[v] = new
      /\ \A w \in Videos \ {v} : lib'[w] = lib[w]
  BY <1>1, <1>3, <1>4, <1>5, TableType
<1>7. \A w \in Videos : Agrees(lib'[w], lib[w])
  <2> TAKE w \in Videos
  <2>1. CASE w = v
    BY <1>5, <1>6, <2>1 DEF Agrees
  <2>2. CASE w # v
    BY <1>6, <2>2 DEF Agrees
  <2> QED BY <2>1, <2>2
<1>8. TypeOK'
  <2>1. clears' \in 0..MaxClears
    BY <1>2, CounterType
  <2>2. \A w \in Videos \ videos : ~lib'[w].visible /\ lib'[w].row = Nothing
    BY <1>7, TableType DEF Agrees
  <2> QED BY <1>2, <1>6, <2>1, <2>2 DEF Inv, TypeOK, TableTypeOK
<1>10. RunInv' /\ ThisInv' /\ EndInv'
  BY <1>2, <1>7, RunFrame, TableType
<1>11. VideosInv'
  <2>1. \A w \in Videos : VideoInv(w)'
    <3> TAKE w \in Videos
    <3>1. VideoInv(w) /\ Agrees(lib'[w], lib[w])
      BY <1>7 DEF Inv, VideosInv
    <3> QED BY <1>2, <3>1, VideoFrame
  <2> QED BY <2>1 DEF VideosInv
<1>12. JobsInv'
  BY <1>2, JobsFrame
<1>13. \A w \in Videos, k \in JobIds : Belongs(w, k)' => Belongs(w, k)
  BY <1>2 DEF Belongs
<1>14. OwnerInv'
  BY <1>13, OwnerFrame
<1>15. PureInv'
  <2>1. NoVideo \notin Videos /\ \A w \in Videos \ {NoVideo} : Agrees(lib'[w], lib[w])
    BY <1>7, NumbersIn
  <2> QED BY <1>2, <1>13, <2>1, PureFrame
<1>16. NoCopies'
  <2>1. \A w \in videos' : lib'[w].print = lib[w].print
    BY <1>2, <1>7, TableType DEF Agrees
  <2> QED BY <1>2, <2>1, CopiesFrame
<1>17. HiddenIsReachable'
  <2>1. \A w \in videos' : lib'[w].visible = lib[w].visible \/ run'.video = w
    BY <1>2, <1>7, TableType DEF Agrees
  <2> QED BY <1>2, <2>1, ReachFrame
<1> QED BY <1>8, <1>10, <1>11, <1>12, <1>14, <1>15, <1>16, <1>17 DEF Inv

LEMMA ReplaceSourceKeeps == ASSUME Inv, NEW j \in JobIds, ReplaceSource(j) PROVE Inv'
<1>1. PICK c \in Contents : source' = [source EXCEPT ![j] = c]
  BY DEF ReplaceSource
<1>2. /\ replaced < MaxReplaced /\ replaced' = replaced + 1
      /\ UNCHANGED <<jobs, videos, lib, born, doomed, strayed, run, failures, restarts, clears>>
  BY DEF ReplaceSource, table, library
<1>3. /\ source' \in [JobIds -> Content] /\ source'[j] = c
      /\ \A k \in JobIds \ {j} : source'[k] = source[k]
  BY <1>1, TableType DEF Content
<1>4. replaced' \in 0..MaxReplaced /\ MaxReplaced # 0
  BY <1>2, CounterType
<1>5. ~Steady
  BY <1>4 DEF Steady
<1>6. TypeOK'
  BY <1>2, <1>3, <1>4 DEF Inv, TypeOK, TableTypeOK
<1>7. \A v : Agrees(lib'[v], lib[v])
  BY <1>2 DEF Agrees
<1>9. RunInv' /\ ThisInv' /\ EndInv'
  BY <1>2, <1>7, RunFrame
<1>10. VideosInv'
  <2>1. \A v \in Videos : VideoInv(v)'
    <3> TAKE v \in Videos
    <3>1. VideoInv(v)
      BY DEF Inv, VideosInv
    <3> QED BY <1>2, <1>7, <3>1, VideoFrame
  <2> QED BY <2>1 DEF VideosInv
<1>11. JobsInv'
  BY <1>2, <1>3 DEF Inv, JobsInv
<1>12. OwnerInv'
  BY <1>2 DEF Inv, OwnerInv, Belongs
<1>13. PureInv'
  BY <1>5 DEF PureInv, Steady
<1>14. NoCopies'
  BY <1>2 DEF Inv, NoCopies
<1>15. HiddenIsReachable'
  BY <1>2 DEF Inv, HiddenIsReachable
<1> QED BY <1>6, <1>9, <1>10, <1>11, <1>12, <1>13, <1>14, <1>15 DEF Inv

\* A new row of the jobs table.
LEMMA InsertIs ==
    ASSUME Inv, NEW j \in JobIds, NEW kind \in Kinds, NEW target \in videos \cup {NoVideo},
           Insert(j, kind, target)
    PROVE  /\ jobs[j].status = "unborn" /\ jobs[j].target = NoVideo
           /\ jobs' \in [JobIds -> Row] /\ jobs'[j].kind = kind /\ jobs'[j].status = "queued"
           /\ jobs'[j].target = target /\ \A k \in JobIds \ {j} : jobs'[k] = jobs[k]
<1> DEFINE row == [kind |-> kind, status |-> "queued", cancel |-> FALSE, target |-> target]
<1>1. jobs[j].status = "unborn" /\ jobs' = [jobs EXCEPT ![j] = row]
  BY DEF Insert
<1>2. row \in Row /\ row.kind = kind /\ row.status = "queued" /\ row.target = target
  BY TableType DEF Row, Statuses, Active
<1> HIDE DEF row
<1>3. jobs[j].target = NoVideo
  BY <1>1 DEF Inv, JobsInv
<1> QED BY <1>1, <1>2, <1>3, TableType

LEMMA InsertCore ==
    ASSUME Inv, NEW j \in JobIds, NEW kind \in Kinds, NEW target \in videos \cup {NoVideo},
           Insert(j, kind, target), kind = "import" => target = NoVideo,
           UNCHANGED <<videos, lib, born, doomed, strayed, run, counters>>,
           source' \in [JobIds -> Content], \A k \in JobIds \ {j} : source'[k] = source[k],
           kind = "import" => source'[j] \in Contents
    PROVE  Inv'
<1>1. /\ jobs[j].status = "unborn" /\ jobs[j].target = NoVideo
      /\ jobs' \in [JobIds -> Row] /\ jobs'[j].kind = kind /\ jobs'[j].status = "queued"
      /\ jobs'[j].target = target /\ \A k \in JobIds \ {j} : jobs'[k] = jobs[k]
  BY InsertIs
<1>2. run.pc # "idle" => run.job # j /\ run.job \in JobIds
  BY <1>1, HolderIn
<1>3. TypeOK'
  <2>1. \A k \in JobIds : jobs'[k].target \in videos \cup {NoVideo}
    <3> TAKE k \in JobIds
    <3>1. CASE k = j
      BY <1>1, <3>1
    <3>2. CASE k # j
      BY <1>1, <3>2, TableType
    <3> QED BY <3>1, <3>2
  <2>2. TableTypeOK'
    BY <1>1, <2>1, TableType DEF TableTypeOK
  <2> QED BY <2>2 DEF Inv, TypeOK, counters
<1>4. \A v : Agrees(lib'[v], lib[v])
  BY DEF Agrees
<1>6. RunInv' /\ ThisInv' /\ EndInv'
  BY <1>1, <1>2, <1>4, RunFrame DEF counters
<1>7. VideosInv'
  <2>1. \A v \in Videos : VideoInv(v)'
    <3> TAKE v \in Videos
    <3>1. VideoInv(v)
      BY DEF Inv, VideosInv
    <3> QED BY <1>4, <3>1, VideoFrame DEF counters
  <2> QED BY <2>1 DEF VideosInv
<1>8. JobsInv'
  <2> SUFFICES ASSUME NEW k \in JobIds
               PROVE  /\ jobs'[k].status = "unborn" => jobs'[k].target = NoVideo
                      /\ jobs'[k].status # "unborn" /\ jobs'[k].kind = "import" =>
                            source'[k] \in Contents
    BY DEF JobsInv
  <2>1. CASE k = j
    BY <1>1, <2>1
  <2>2. CASE k # j
    BY <1>1, <2>2 DEF Inv, JobsInv
  <2> QED BY <2>1, <2>2
<1>9. \A v \in Videos : ~Belongs(v, j)'
  BY <1>1, <1>2, NumbersIn DEF Belongs
<1>10. \A v \in Videos, k \in JobIds : Belongs(v, k)' => Belongs(v, k) /\ k # j
  <2> SUFFICES ASSUME NEW v \in Videos, NEW k \in JobIds, Belongs(v, k)'
               PROVE  Belongs(v, k) /\ k # j
    OBVIOUS
  <2>1. k # j
    BY <1>9
  <2> QED BY <1>1, <2>1 DEF Belongs
<1>11. OwnerInv'
  BY <1>10, OwnerFrame
<1>12. PureInv'
  <2> SUFFICES ASSUME Steady, NEW v \in Videos, NEW k \in JobIds, Belongs(v, k)'
               PROVE  Pure(lib'[v], source'[k])
    BY DEF PureInv, Pure, Steady
  <2>1. Pure(lib[v], source[k]) /\ source'[k] = source[k]
    BY <1>10 DEF Inv, PureInv
  <2> QED BY <2>1
<1>13. NoCopies'
  BY CopiesFrame
<1>14. HiddenIsReachable'
  <2>1. \A k \in JobIds : jobs[k].status \in Active \cup Failed => jobs'[k] = jobs[k]
    BY <1>1 DEF Active, Failed
  <2> QED BY <2>1, ReachFrame
<1> QED BY <1>3, <1>6, <1>7, <1>8, <1>11, <1>12, <1>13, <1>14 DEF Inv

LEMMA QueueImportKeeps == ASSUME Inv, NEW j \in JobIds, QueueImport(j) PROVE Inv'
<1>1. PICK c \in Contents : source' = [source EXCEPT ![j] = c]
  BY DEF QueueImport
<1>2. /\ Insert(j, "import", NoVideo)
      /\ UNCHANGED <<videos, lib, born, doomed, strayed, run, counters>>
  BY DEF QueueImport, library
<1>3. /\ source' \in [JobIds -> Content] /\ source'[j] \in Contents
      /\ \A k \in JobIds \ {j} : source'[k] = source[k]
  BY <1>1, TableType DEF Content
<1>4. "import" \in Kinds /\ NoVideo \in videos \cup {NoVideo}
  BY DEF Kinds
<1> QED BY <1>2, <1>3, <1>4, InsertCore

LEMMA QueueDeleteKeeps == ASSUME Inv, NEW j \in JobIds, QueueDelete(j) PROVE Inv'
<1>1. PICK v \in videos : Insert(j, "delete", v)
  BY DEF QueueDelete
<1>2. UNCHANGED <<videos, lib, born, doomed, strayed, source, run, counters>>
  BY DEF QueueDelete, OnlyJob, library
<1>3. "delete" \in Kinds /\ "delete" # "import"
  BY DEF Kinds
<1> QED BY <1>1, <1>2, <1>3, TableType, InsertCore

\* Rows that change, of jobs that have lost their video.
LEMMA TableCore ==
    ASSUME Inv, jobs' \in [JobIds -> Row],
           \A k \in JobIds : /\ jobs'[k].kind = jobs[k].kind
                             /\ jobs'[k].target \in {jobs[k].target, NoVideo}
                             /\ jobs'[k].status = "unborn" <=> jobs[k].status = "unborn",
           UNCHANGED <<videos, lib, born, doomed, source>>, strayed' \subseteq videos,
           run' \in Run, RunInv', ThisInv', EndInv', HiddenIsReachable', run' = run \/ run' = IdleRun,
           restarts' \in 0..MaxRestarts, UNCHANGED <<failures, clears, replaced>>
    PROVE  Inv'
<1>1. TypeOK'
  <2>1. TableTypeOK'
    BY TableType DEF TableTypeOK
  <2> QED BY <2>1 DEF Inv, TypeOK
<1>2. \A v : Agrees(lib'[v], lib[v])
  BY DEF Agrees
<1>3. VideosInv'
  <2>1. \A v \in Videos : VideoInv(v)'
    <3> TAKE v \in Videos
    <3>1. VideoInv(v)
      BY DEF Inv, VideosInv
    <3> QED BY <1>2, <3>1, VideoFrame
  <2> QED BY <2>1 DEF VideosInv
<1>4. JobsInv'
  BY DEF Inv, JobsInv
<1>5. \A v \in Videos, k \in JobIds : Belongs(v, k)' => Belongs(v, k)
  <2> SUFFICES ASSUME NEW v \in Videos, NEW k \in JobIds, Belongs(v, k)' PROVE Belongs(v, k)
    OBVIOUS
  <2>1. IdleRun.pc = "idle"
    BY DEF IdleRun
  <2> QED BY <2>1, NumbersIn DEF Belongs
<1>6. OwnerInv'
  BY <1>5, OwnerFrame
<1>7. PureInv'
  <2>1. NoVideo \notin Videos
    BY NumbersIn
  <2> QED BY <1>2, <1>5, <2>1, PureFrame
<1>8. NoCopies'
  BY CopiesFrame
<1> QED BY <1>1, <1>3, <1>4, <1>6, <1>7, <1>8 DEF Inv

LEMMA ClearJobsKeeps == Inv /\ ClearJobs => Inv'
<1> SUFFICES ASSUME Inv, ClearJobs PROVE Inv'
  OBVIOUS
<1> USE DEF Pc, Working, Removing, Holding, Importing, HasRows, HasPath, HasObjects, Trying,
            Finalizing, Preserving, Deleting
<1> DEFINE lost(statuses) == {v \in videos : ~lib[v].visible /\ \E j \in JobIds :
                                  jobs[j].target = v /\ jobs[j].status \in statuses}
<1>1. PICK statuses \in {{"completed"}, Failed} :
          DeleteRows(statuses) /\ strayed' = strayed \cup lost(statuses)
  BY DEF ClearJobs
<1>2. UNCHANGED <<videos, lib, born, doomed, source, run, counters>>
  BY DEF ClearJobs
<1>3. /\ {"running", "cancelling", "unborn"} \cap statuses = {}
  BY <1>1 DEF Failed
<1>4. ASSUME NEW k \in JobIds
      PROVE  /\ jobs'[k] \in Row /\ jobs'[k].kind = jobs[k].kind
             /\ jobs'[k].target \in {jobs[k].target, NoVideo}
             /\ jobs[k].status \in statuses => jobs'[k].status = "gone"
             /\ jobs[k].status \notin statuses => jobs'[k] = jobs[k]
  <2>1. jobs[k] \in Row
    BY TableType
  <2>2. CASE jobs[k].status \in statuses
    <3> DEFINE row == [jobs[k] EXCEPT !.status = "gone", !.cancel = FALSE, !.target = NoVideo]
    <3>1. jobs'[k] = row
      BY <1>1, <2>2 DEF DeleteRows
    <3>2. /\ row \in Row /\ row.kind = jobs[k].kind /\ row.target = NoVideo
          /\ row.status = "gone"
      BY <2>1 DEF Row, Statuses
    <3> HIDE DEF row
    <3> QED BY <2>2, <3>1, <3>2
  <2>3. CASE jobs[k].status \notin statuses
    BY <1>1, <2>1, <2>3 DEF DeleteRows
  <2> QED BY <2>2, <2>3
<1>5. jobs' \in [JobIds -> Row]
  BY <1>1, <1>4 DEF DeleteRows
<1>7. run.pc # "idle" => run.job \in JobIds /\ jobs'[run.job] = jobs[run.job]
  BY <1>3, <1>4, HolderIn
<1>8. RunInv' /\ ThisInv' /\ EndInv'
  <2>1. run.video \in videos => Agrees(lib'[run.video], lib[run.video])
    BY <1>2 DEF Agrees
  <2> QED BY <1>1, <1>2, <1>7, <2>1, RunFrame DEF counters
<1>9. \A k \in JobIds : jobs'[k].status = "unborn" <=> jobs[k].status = "unborn"
  BY <1>3, <1>4
<1>10. HiddenIsReachable'
  <2>1. ASSUME NEW j \in JobIds, jobs[j].target \in videos \ strayed',
               ~lib[jobs[j].target].visible
        PROVE  jobs'[j] = jobs[j]
    <3>1. jobs[j].target \in videos /\ jobs[j].target \notin lost(statuses)
      BY <1>1, <2>1
    <3>2. jobs[j].status \notin statuses
      BY <2>1, <3>1
    <3> QED BY <1>4, <3>2
  <2>2. strayed \subseteq strayed'
    BY <1>1
  <2>3. \A v \in videos' : lib'[v].visible = lib[v].visible
    BY <1>2
  <2> QED BY <1>2, <2>1, <2>2, <2>3, ReachFrame
<1>11. strayed' \subseteq videos
  BY <1>1, TableType
<1> QED BY <1>2, <1>4, <1>5, <1>8, <1>9, <1>10, <1>11, RunType, CounterType, TableCore DEF counters

LEMMA RestartKeeps == Inv /\ Restart => Inv'
<1> SUFFICES ASSUME Inv, Restart PROVE Inv'
  OBVIOUS
<1>1. /\ restarts < MaxRestarts /\ restarts' = restarts + 1 /\ MarkInterrupted /\ run' = IdleRun
      /\ strayed' = strayed \cup Untracked
      /\ UNCHANGED <<videos, lib, born, doomed, source, failures, clears, replaced>>
  BY DEF Restart
<1>2. ASSUME NEW k \in JobIds
      PROVE  /\ jobs'[k] \in Row /\ jobs'[k].kind = jobs[k].kind
             /\ jobs'[k].target = jobs[k].target
             /\ jobs'[k].status = "unborn" <=> jobs[k].status = "unborn"
             /\ jobs'[k].status = IF jobs[k].status \in {"running", "cancelling"}
                                  THEN "failed" ELSE jobs[k].status
  <2>1. jobs[k] \in Row
    BY TableType
  <2>2. CASE jobs[k].status \in {"running", "cancelling"}
    <3> DEFINE row == [jobs[k] EXCEPT !.status = "failed", !.cancel = FALSE]
    <3>1. jobs'[k] = row
      BY <1>1, <2>2 DEF MarkInterrupted
    <3>2. /\ row \in Row /\ row.kind = jobs[k].kind /\ row.target = jobs[k].target
          /\ row.status = "failed"
      BY <2>1 DEF Row, Statuses, Finished
    <3> HIDE DEF row
    <3> QED BY <2>2, <3>1, <3>2
  <2>3. CASE jobs[k].status \notin {"running", "cancelling"}
    BY <1>1, <2>1, <2>3 DEF MarkInterrupted
  <2> QED BY <2>2, <2>3
<1>3. jobs' \in [JobIds -> Row]
  BY <1>1, <1>2 DEF MarkInterrupted
<1>4. restarts' \in 0..MaxRestarts
  BY <1>1, CounterType
<1>5. strayed \subseteq strayed' /\ strayed' \subseteq videos
  BY <1>1, TableType DEF Untracked
<1>6. run' \in Run /\ RunInv' /\ ThisInv' /\ EndInv'
  BY <1>1, IdleIn, IdleKeeps
<1>7. HiddenIsReachable'
  <2>1. ASSUME run.video \in videos \ strayed', ~lib[run.video].visible
        PROVE  /\ run.job \in JobIds /\ jobs'[run.job].target = run.video
               /\ jobs'[run.job].status \in Active \cup Failed
    <3>1. jobs[run.job].target = run.video
      BY <1>1, <2>1 DEF Untracked
    <3>2. run.pc # "idle"
      BY <2>1, NumbersIn, TableType DEF Inv, RunInv
    <3>3. run.job \in JobIds /\ jobs[run.job].status \in {"running", "cancelling"}
      BY <3>2, HolderIn
    <3> QED BY <1>2, <3>1, <3>3 DEF Failed
  <2>2. \A j \in JobIds : jobs[j].status \in Active \cup Failed =>
            jobs'[j].target = jobs[j].target /\ jobs'[j].status \in Active \cup Failed
    BY <1>2 DEF Failed
  <2>3. lib' = lib /\ videos' = videos
    BY <1>1
  <2> QED BY <1>5, <2>1, <2>2, <2>3, ReachFrame
<1> QED BY <1>1, <1>2, <1>3, <1>4, <1>5, <1>6, <1>7, TableCore

-----------------------------------------------------------------------------
(* Steps that take up a video, or take it out of the library.              *)

LEMMA ReuseVideoKeeps == Inv /\ ReuseVideo => Inv'
<1> SUFFICES ASSUME Inv, ReuseVideo PROVE Inv'
  OBVIOUS
<1> USE DEF Pc, Working, Removing, Holding, Importing, HasRows, HasPath, HasObjects, Trying,
            Finalizing, Preserving, Deleting
<1> DEFINE v == jobs[run.job].target
           new == [lib[v] EXCEPT !.visible = FALSE]
<1>1. /\ run.pc = "create" /\ v # NoVideo
      /\ run' = [run EXCEPT !.pc = "stage", !.video = v, !.todo = Segments]
      /\ lib' = [lib EXCEPT ![v].visible = FALSE]
      /\ UNCHANGED <<jobs, videos, born, doomed, strayed, source, counters>>
  BY DEF ReuseVideo, At, OnlyVideo, table
<1>2. /\ run.job \in JobIds /\ jobs[run.job].kind = "import" /\ run.video = NoVideo
      /\ jobs[run.job].status \in {"running", "cancelling"}
  BY <1>1, HolderIn DEF Inv, RunInv
<1>3. v \in videos /\ v \in Videos
  BY <1>1, <1>2, TableType
<1>4. /\ run' \in Run /\ run'.pc = "stage" /\ run'.job = run.job /\ run'.video = v
      /\ run'.todo = Segments
  BY <1>1, <1>3, RunType, SegmentsIn DEF Run
<1>5. lib' = [lib EXCEPT ![v] = new]
  BY <1>1, <1>3, VideoType, TableType DEF Video
<1>6. /\ new \in Video /\ new.visible = FALSE /\ new.path = lib[v].path
      /\ new.print = lib[v].print /\ new.row = lib[v].row /\ new.file = lib[v].file
      /\ new.remote = lib[v].remote /\ new.manifest = lib[v].manifest
  BY <1>3, VideoType DEF Video
<1> HIDE DEF new
<1>7. /\ lib' \in [Videos -> Video] /\ lib'[v] = new
      /\ \A w \in Videos \ {v} : lib'[w] = lib[w]
  BY <1>3, <1>5, <1>6, TableType
<1>8. \A w \in Videos \ {v} : Agrees(lib'[w], lib[w])
  BY <1>7 DEF Agrees
<1>9. PICK video : video = v
  OBVIOUS
<1> HIDE DEF v
<1>10. TypeOK'
  <2>1. \A w \in Videos \ videos : ~lib'[w].visible /\ lib'[w].row = Nothing
    BY <1>3, <1>7, TableType
  <2> QED BY <1>1, <1>4, <1>7, <2>1 DEF Inv, TypeOK, TableTypeOK, counters
<1>11. RunInv'
  <2>1. jobs[run.job].target = v
    BY DEF v
  <2> QED BY <1>1, <1>2, <1>3, <1>4, <2>1, SegmentsIn DEF RunInv
<1>12. ThisInv'
  <2>1. This' = new
    BY <1>4, <1>7 DEF This
  <2> QED BY <1>4, <1>6, <2>1 DEF ThisInv
<1>13. VideosInv'
  <2>1. VideoInv(v)
    BY <1>3 DEF Inv, VideosInv
  <2>2. VideoInv(video)'
    BY <1>1, <1>3, <1>6, <1>7, <1>9, <2>1
       DEF VideoInv, counters, Stored, AllNamed, Found, Named
  <2> QED BY <1>1, <1>8, <1>9, <2>2, VideosFrame DEF counters
<1>14. JobsInv'
  BY <1>1, JobsFrame
<1>15. \A w \in Videos, k \in JobIds : Belongs(w, k)' => Belongs(w, k)
  <2>1. jobs[run.job].target = v
    BY DEF v
  <2> QED BY <1>1, <1>4, <2>1 DEF Belongs
<1>16. OwnerInv'
  BY <1>15, OwnerFrame
<1>17. PureInv'
  <2>1. Steady => \A k \in JobIds : Belongs(v, k) => Pure(lib'[v], source[k])
    BY <1>3, <1>6, <1>7 DEF Inv, PureInv, Pure
  <2> QED BY <1>1, <1>8, <1>9, <1>15, <2>1, PureFrame
<1>18. NoCopies'
  <2>1. \A w \in videos' : lib'[w].print = lib[w].print
    BY <1>1, <1>6, <1>7, TableType
  <2> QED BY <1>1, <2>1, CopiesFrame
<1>19. EndInv'
  BY <1>4 DEF EndInv
<1>20. HiddenIsReachable'
  <2>1. \A w \in videos' : lib'[w].visible = lib[w].visible \/ run'.video = w
    BY <1>1, <1>4, <1>7, TableType
  <2>2. run.video \notin videos
    BY <1>2, NumbersIn, TableType
  <2> QED BY <1>1, <2>1, <2>2, ReachFrame
<1> QED BY <1>10, <1>11, <1>12, <1>13, <1>14, <1>16, <1>17, <1>18, <1>19, <1>20 DEF Inv

LEMMA CreateVideoKeeps == Inv /\ CreateVideo => Inv'
<1> SUFFICES ASSUME Inv, CreateVideo PROVE Inv'
  OBVIOUS
<1> USE DEF Pc, Working, Removing, Holding, Importing, HasRows, HasPath, HasObjects, Trying,
            Finalizing, Preserving, Deleting
<1>1. PICK v \in Videos \ born :
          /\ videos' = videos \cup {v}
          /\ born' = born \cup {v}
          /\ lib' = [lib EXCEPT ![v] = NewVideo]
          /\ run' = [run EXCEPT !.pc = "hide", !.video = v]
  BY DEF CreateVideo
<1>2. /\ run.pc = "create" /\ jobs[run.job].target = NoVideo
      /\ UNCHANGED <<jobs, doomed, strayed, source, counters>>
  BY DEF CreateVideo, At
<1>3. /\ run.job \in JobIds /\ jobs[run.job].kind = "import" /\ run.video = NoVideo
      /\ jobs[run.job].status \in {"running", "cancelling"}
  BY <1>2, HolderIn DEF Inv, RunInv
<1>4. /\ run' \in Run /\ run'.pc = "hide" /\ run'.job = run.job /\ run'.video = v
  BY <1>1, RunType DEF Run
<1>5. /\ lib' \in [Videos -> Video] /\ lib'[v] = NewVideo
      /\ \A w \in Videos \ {v} : lib'[w] = lib[w]
  BY <1>1, NewVideoIn, TableType
<1>6. \A w \in Videos \ {v} : Agrees(lib'[w], lib[w])
  BY <1>5 DEF Agrees
<1>7. v \notin videos /\ v \notin doomed /\ videos \subseteq Videos /\ born \subseteq Videos
  BY TableType
<1>8. /\ NewVideo.visible = TRUE /\ NewVideo.print = Nothing /\ NewVideo.row = Nothing
      /\ NewVideo.file = Nothing /\ NewVideo.remote = Nothing /\ NewVideo.manifest = FALSE
  BY DEF NewVideo
<1>9. \A j \in JobIds : jobs[j].target # v
  BY <1>7, NumbersIn, TableType
<1>10. TypeOK'
  <2>1. \A w \in Videos \ videos' : ~lib'[w].visible /\ lib'[w].row = Nothing
    BY <1>1, <1>5, TableType
  <2>2. TableTypeOK'
    BY <1>1, <1>2, <1>7, TableType DEF TableTypeOK
  <2>3. /\ born' \subseteq Videos /\ doomed' \subseteq born' /\ videos' \subseteq born'
        /\ strayed' \subseteq videos'
    BY <1>1, <1>2, TableType
  <2> QED BY <1>2, <1>4, <1>5, <2>1, <2>2, <2>3 DEF Inv, TypeOK, counters
<1>11. RunInv'
  BY <1>1, <1>2, <1>3, <1>4 DEF RunInv
<1>12. ThisInv' /\ EndInv'
  BY <1>4 DEF ThisInv, EndInv
<1>13. VideosInv'
  <2>1. VideoInv(v)'
    BY <1>1, <1>5, <1>8, CutIn, NumbersIn DEF VideoInv, AllNamed, Found, Named, Objects
  <2> QED BY <1>1, <1>2, <1>6, <2>1, VideosFrame DEF counters
<1>14. JobsInv'
  BY <1>2, JobsFrame
<1>15. \A w \in Videos, k \in JobIds :
           Belongs(w, k)' => IF w = v THEN k = run.job ELSE Belongs(w, k)
  BY <1>2, <1>4, <1>9 DEF Belongs
<1>16. OwnerInv'
  <2> SUFFICES ASSUME NEW w \in Videos, NEW j \in JobIds, NEW k \in JobIds, Belongs(w, j)',
                      Belongs(w, k)'
               PROVE  j = k
    BY DEF OwnerInv
  <2> QED BY <1>15 DEF Inv, OwnerInv
<1>17. PureInv'
  <2> SUFFICES ASSUME Steady, NEW w \in Videos, NEW k \in JobIds, Belongs(w, k)'
               PROVE  Pure(lib'[w], source'[k])
    BY DEF PureInv, Pure, Steady
  <2>1. CASE w = v
    BY <1>5, <1>8, <2>1, CutIn DEF Pure
  <2>2. CASE w # v
    <3>1. Belongs(w, k) /\ lib'[w] = lib[w] /\ source' = source
      BY <1>2, <1>5, <1>15, <2>2
    <3>2. Pure(lib[w], source[k])
      BY <3>1 DEF Inv, PureInv
    <3> QED BY <3>1, <3>2
  <2> QED BY <2>1, <2>2
<1>18. NoCopies'
  <2> SUFFICES ASSUME NEW x \in videos', NEW y \in videos', x # y, lib'[x].print # Nothing
               PROVE  lib'[x].print # lib'[y].print
    BY DEF NoCopies
  <2>1. x # v
    BY <1>5, <1>8
  <2>2. x \in videos /\ lib'[x] = lib[x]
    BY <1>1, <1>5, <1>7, <2>1
  <2>3. CASE y = v
    BY <1>5, <1>8, <2>3
  <2>4. CASE y # v
    <3>1. y \in videos /\ lib'[y] = lib[y]
      BY <1>1, <1>5, <1>7, <2>4
    <3> QED BY <2>2, <3>1 DEF Inv, NoCopies
  <2> QED BY <2>3, <2>4
<1>19. HiddenIsReachable'
  <2> SUFFICES ASSUME NEW w \in videos' \ strayed', ~lib'[w].visible
               PROVE  \E k \in JobIds : jobs'[k].target = w /\ jobs'[k].status \in Active \cup Failed
    BY DEF HiddenIsReachable
  <2>2. w # v
    BY <1>5, <1>8
  <2>3. w \in videos /\ lib'[w] = lib[w] /\ run.video # w
    BY <1>1, <1>3, <1>5, <1>7, <2>2, NumbersIn
  <2> QED BY <1>2, <2>3 DEF Inv, HiddenIsReachable
<1> QED BY <1>10, <1>11, <1>12, <1>13, <1>14, <1>16, <1>17, <1>18, <1>19 DEF Inv

LEMMA DeleteRowKeeps == Inv /\ DeleteRow => Inv'
<1> SUFFICES ASSUME Inv, DeleteRow PROVE Inv'
  OBVIOUS
<1> USE DEF Pc, Working, Removing, Holding, Importing, HasRows, HasPath, HasObjects, Trying,
            Finalizing, Preserving, Deleting
<1> DEFINE v == run.video
           new == [This EXCEPT !.visible = FALSE, !.path = FALSE, !.print = Nothing,
                               !.row = Nothing]
<1>1. /\ run.pc = "row" /\ RemoveVideo(v) /\ SetThis(new) /\ Goto(EndDelete)
      /\ strayed' = strayed \ {v}
      /\ UNCHANGED <<born, doomed, source, counters>>
  BY DEF DeleteRow, At
<1>2. PICK pc \in {"complete", "cancel"} : run' = [run EXCEPT !.pc = pc, !.todo = run.todo]
  BY <1>1, GotoIs DEF EndDelete
<1>3. /\ v \in videos /\ v \in Videos /\ v \in doomed /\ v # NoVideo
      /\ ObjectsKept(This) /\ FilesKept(This)
  BY <1>1, HolderIn DEF Inv, RunInv, ThisInv
<1>4. /\ run' \in Run /\ run'.pc = pc /\ run'.job = run.job /\ run'.video = v
  BY <1>2, GoneTo, RunType
<1>5. /\ new \in Video /\ new.visible = FALSE /\ new.path = FALSE /\ new.print = Nothing
      /\ new.row = Nothing /\ new.file = This.file /\ new.remote = This.remote
      /\ new.manifest = This.manifest /\ new.kept = This.kept
  BY <1>3, ThisIn, CutIn DEF Video
<1> HIDE DEF new
<1>6. /\ lib' \in [Videos -> Video] /\ lib'[v] = new
      /\ \A w \in Videos \ {v} : lib'[w] = lib[w]
  BY <1>1, <1>3, <1>5, TableType DEF SetThis
<1>7. PICK video : video = v
  OBVIOUS
<1>8. videos' = videos \ {video}
  BY <1>1, <1>7 DEF RemoveVideo
<1>9. ASSUME NEW k \in JobIds
      PROVE  /\ jobs'[k] \in Row /\ jobs'[k].kind = jobs[k].kind
             /\ jobs'[k].status = jobs[k].status
             /\ jobs'[k].target = IF jobs[k].target = video THEN NoVideo ELSE jobs[k].target
  <2>1. jobs[k] \in Row
    BY TableType
  <2>2. CASE jobs[k].target = v
    <3> DEFINE row == [jobs[k] EXCEPT !.target = NoVideo]
    <3>1. jobs'[k] = row
      BY <1>1, <2>2 DEF RemoveVideo
    <3>2. /\ row \in Row /\ row.kind = jobs[k].kind /\ row.target = NoVideo
          /\ row.status = jobs[k].status
      BY <2>1 DEF Row
    <3> HIDE DEF row
    <3> QED BY <1>7, <2>2, <3>1, <3>2
  <2>3. CASE jobs[k].target # v
    BY <1>1, <1>7, <2>1, <2>3 DEF RemoveVideo
  <2> QED BY <2>2, <2>3
<1>10. jobs' \in [JobIds -> Row]
  BY <1>1, <1>9 DEF RemoveVideo
<1>11. /\ run.job \in JobIds /\ jobs[run.job].status \in {"running", "cancelling"}
       /\ jobs[run.job].target \in {NoVideo, video}
  BY <1>1, <1>3, <1>7, HolderIn DEF Inv, RunInv
<1>12. TypeOK'
  <2>1. \A w \in Videos \ videos' : ~lib'[w].visible /\ lib'[w].row = Nothing
    BY <1>5, <1>6, <1>7, <1>8, TableType
  <2>2. TableTypeOK'
    BY <1>8, <1>9, <1>10, TableType DEF TableTypeOK
  <2>3. /\ born' \subseteq Videos /\ doomed' \subseteq born' /\ videos' \subseteq born'
        /\ strayed' \subseteq videos'
    BY <1>1, <1>7, <1>8, TableType
  <2> QED BY <1>1, <1>4, <1>6, <2>1, <2>2, <2>3 DEF Inv, TypeOK, counters
<1>13. RunInv'
  BY <1>4, <1>9, <1>11 DEF RunInv
<1>14. ThisInv'
  BY <1>4 DEF ThisInv
<1>15. EndInv'
  <2>1. run'.video \notin videos' /\ jobs'[run.job].target = NoVideo
    BY <1>4, <1>7, <1>8, <1>9, <1>11
  <2> QED BY <1>4, <2>1 DEF EndInv
<1>16. \A w \in Videos \ {video} : Agrees(lib'[w], lib[w])
  BY <1>6, <1>7 DEF Agrees
<1>17. VideosInv'
  <2>1. VideoInv(video)'
    <3>1. ObjectsKept(new) /\ FilesKept(new)
      BY <1>3, <1>5 DEF ObjectsKept, FilesKept, Found
    <3>2. ~MayTearFiles => \A s \in Segments : new.file[s] # Torn
      BY <1>3, <1>5, ThisIs
    <3> QED BY <1>1, <1>3, <1>6, <1>7, <1>8, <3>1, <3>2 DEF VideoInv
  <2> QED BY <1>1, <1>8, <1>16, <2>1, VideosFrame DEF counters
<1>18. JobsInv'
  BY <1>1, <1>9 DEF Inv, JobsInv
<1>19. \A w \in Videos, k \in JobIds : Belongs(w, k)' => Belongs(w, k)
  <2>1. run'.pc # "idle" /\ run.pc # "idle"
    BY <1>1, <1>4
  <2> QED BY <1>4, <1>9, <2>1, NumbersIn DEF Belongs
<1>20. OwnerInv'
  BY <1>19, OwnerFrame
<1>21. PureInv'
  <2>1. Steady => \A k \in JobIds : Belongs(v, k) => Pure(lib'[v], source[k])
    BY <1>3, <1>5, <1>6, CutIn DEF Inv, PureInv, Pure, This
  <2> QED BY <1>1, <1>7, <1>16, <1>19, <2>1, PureFrame
<1>22. NoCopies'
  <2>1. \A w \in videos' : lib'[w].print = lib[w].print
    BY <1>6, <1>7, <1>8, TableType
  <2> QED BY <1>8, <2>1, CopiesFrame
<1>23. HiddenIsReachable'
  <2>1. strayed \cap videos' \subseteq strayed'
    BY <1>1, <1>7, <1>8
  <2>2. \A w \in videos' : lib'[w].visible = lib[w].visible \/ run'.video = w
    BY <1>6, <1>7, <1>8, TableType
  <2>3. run.video \notin videos'
    BY <1>7, <1>8
  <2>4. \A k \in JobIds : jobs[k].target \in videos' => jobs'[k].target = jobs[k].target
    BY <1>8, <1>9
  <2> QED BY <1>8, <1>9, <2>1, <2>2, <2>3, <2>4, ReachFrame
<1> QED BY <1>12, <1>13, <1>14, <1>15, <1>17, <1>18, <1>20, <1>21, <1>22, <1>23 DEF Inv

-----------------------------------------------------------------------------
(* The theorems.                                                           *)

LEMMA InitHolds == Init => Inv
<1> SUFFICES ASSUME Init PROVE Inv
  OBVIOUS
<1> USE DEF Init
<1>1. run.pc = "idle" /\ run.video = NoVideo /\ run \in Run
  BY IdleIn DEF IdleRun
<1>2. jobs \in [JobIds -> Row] /\ \A j \in JobIds :
          jobs[j].kind = "import" /\ jobs[j].status = "unborn" /\ jobs[j].target = NoVideo
  BY DEF Row, Kinds, Statuses
<1> DEFINE new == [NewVideo EXCEPT !.visible = FALSE]
<1>3. /\ new \in Video /\ new.visible = FALSE /\ new.row = Nothing /\ new.file = Nothing
      /\ new.remote = Nothing /\ new.manifest = FALSE
  BY CutIn DEF NewVideo, Video
<1>4. lib = [v \in Videos |-> new]
  OBVIOUS
<1> HIDE DEF new
<1>5. TypeOK
  <2>1. TableTypeOK
    BY <1>2 DEF TableTypeOK
  <2>2. /\ failures \in 0..MaxFailures /\ restarts \in 0..MaxRestarts
        /\ clears \in 0..MaxClears /\ replaced \in 0..MaxReplaced
    BY PipelineAssumption
  <2>3. source \in [JobIds -> Content]
    BY DEF Content
  <2>4. lib \in [Videos -> Video] /\ \A v \in Videos : ~lib[v].visible /\ lib[v].row = Nothing
    BY <1>3, <1>4
  <2> QED BY <1>1, <2>1, <2>2, <2>3, <2>4 DEF TypeOK
<1>6. RunInv /\ ThisInv /\ EndInv
  BY <1>1 DEF RunInv, ThisInv, EndInv, Working, Removing, Holding, Importing, HasRows, HasPath,
              HasObjects, Trying, Preserving
<1>7. VideosInv
  BY <1>3, <1>4, CutIn, NumbersIn DEF VideosInv, VideoInv
<1>8. JobsInv
  BY <1>2 DEF JobsInv
<1>9. \A v \in Videos, j \in JobIds : ~Belongs(v, j)
  BY <1>1, <1>2, NumbersIn DEF Belongs
<1>10. OwnerInv /\ PureInv
  BY <1>9 DEF OwnerInv, PureInv
<1>11. NoCopies /\ HiddenIsReachable
  BY DEF NoCopies, HiddenIsReachable
<1> QED BY <1>5, <1>6, <1>7, <1>8, <1>10, <1>11 DEF Inv

LEMMA ImportStepKeeps == Inv /\ ImportStep => Inv'
BY SeeCancelKeeps, ProbeKeeps, ReuseVideoKeeps, CreateVideoKeeps, HideVideoKeeps,
   StageSegmentKeeps, TearFileKeeps, InsertSegmentsKeeps, SetFingerprintKeeps,
   RefuseDuplicateKeeps, WriteManifestKeeps, UploadSegmentKeeps, TearObjectKeeps,
   UploadMissingKeeps, UploadManifestKeeps, ExtractCoverKeeps, PublishVideoKeeps,
   ClearTargetKeeps, CompleteKeeps, HideFailedKeeps, TargetFailedKeeps, FailKeeps,
   CancelledKeeps DEF ImportStep

LEMMA DeleteStepKeeps == Inv /\ DeleteStep => Inv'
BY CollectPathsKeeps, DeletePathKeeps, DeleteDirectoryKeeps, DeleteFilesKeeps, DeleteRowKeeps
   DEF DeleteStep

LEMMA RequestKeeps == ASSUME Inv, NEW j \in JobIds, Request(j) PROVE Inv'
BY QueueImportKeeps, QueueDeleteKeeps, CancelImportKeeps, RetryImportKeeps, ReplaceSourceKeeps
   DEF Request

LEMMA StutterKeeps == Inv /\ UNCHANGED vars => Inv'
<1> SUFFICES ASSUME Inv, UNCHANGED vars PROVE Inv'
  OBVIOUS
<1>1. /\ UNCHANGED <<jobs, videos, lib, born, source, run, doomed, strayed>>
      /\ UNCHANGED <<failures, restarts, clears, replaced>>
  BY DEF vars, counters
<1>2. TypeOK' /\ NoCopies' /\ HiddenIsReachable'
  BY <1>1 DEF Inv, TypeOK, TableTypeOK, NoCopies, HiddenIsReachable
<1>3. \A v : Agrees(lib'[v], lib[v])
  BY <1>1 DEF Agrees
<1>4. RunInv' /\ ThisInv' /\ EndInv'
  BY <1>1, <1>3, RunFrame
<1>5. VideosInv'
  <2>1. \A v \in Videos : VideoInv(v)'
    <3> TAKE v \in Videos
    <3>1. VideoInv(v)
      BY DEF Inv, VideosInv
    <3> QED BY <1>1, <1>3, <3>1, VideoFrame
  <2> QED BY <2>1 DEF VideosInv
<1>6. JobsInv'
  BY <1>1, JobsFrame
<1>7. \A v \in Videos, j \in JobIds : Belongs(v, j)' => Belongs(v, j)
  BY <1>1 DEF Belongs
<1>8. OwnerInv'
  BY <1>7, OwnerFrame
<1>9. PureInv'
  BY <1>1, <1>3, <1>7, NumbersIn, PureFrame
<1> QED BY <1>2, <1>4, <1>5, <1>6, <1>8, <1>9 DEF Inv

LEMMA StepKeeps == Inv /\ [Next]_vars => Inv'
<1> SUFFICES ASSUME Inv, Next PROVE Inv'
  BY StutterKeeps
<1>1. CASE ImportStep
  BY <1>1, ImportStepKeeps
<1>2. CASE DeleteStep
  BY <1>2, DeleteStepKeeps
<1>3. ASSUME NEW j \in JobIds,
             StartImport(j) \/ RejectImport(j) \/ StartDelete(j) \/ Request(j)
      PROVE  Inv'
  BY <1>3, StartImportKeeps, RejectImportKeeps, StartDeleteKeeps, RequestKeeps
<1>4. CASE Raise \/ Restart \/ ClearJobs \/ ClearCache
  BY <1>4, RaiseKeeps, RestartKeeps, ClearJobsKeeps, ClearCacheKeeps
<1> QED BY <1>1, <1>2, <1>3, <1>4 DEF Next

\* The inductive invariant holds in every state that imports, deletions, exceptions,
\* restarts and the requests of users can reach.
THEOREM PipelineAlwaysInv == Spec => []Inv
<1>1. Init => Inv
  BY InitHolds
<1>2. Inv /\ [Next]_vars => Inv'
  BY StepKeeps
<1> QED BY <1>1, <1>2, PTL DEF Spec

\* Every row, file and object is one that the program can have written, and only videos of
\* the library have rows or a place in its list (TypeOK).
THEOREM PipelineTypeCorrect == Spec => []TypeOK
<1>1. Inv => TypeOK
  BY DEF Inv
<1> QED BY <1>1, PipelineAlwaysInv, PTL

\* Two videos of the library never have the same content: find_video_duplicate_by_fingerprint
\* and the write of the fingerprint are one step of the one job thread, and no other step
\* writes a fingerprint.
THEOREM PipelineNoCopies == Spec => []NoCopies
<1>1. Inv => NoCopies
  BY DEF Inv
<1> QED BY <1>1, PipelineAlwaysInv, PTL

\* When the row of a video has gone, by a deletion that was interrupted and repeated any
\* number of times or by a cancelled import, what is still there of it is what its last
\* deletion could not remove (delete_library_video removes the row last): no file or
\* object is forgotten.
THEOREM PipelineGoneLeavesNothing == Spec => []GoneLeavesNothing
<1>1. Inv => GoneLeavesNothing
  BY TableType DEF Inv, VideosInv, VideoInv, GoneLeavesNothing, ObjectsKept, FilesKept
<1> QED BY <1>1, PipelineAlwaysInv, PTL

\* A video that is not listed is worked on, or a job can resume or delete it
\* (_preserve_failed_import_state, and delete_library_video after a cancellation), unless
\* it has strayed: it was hidden in a first attempt, which no job remembers, when a restart
\* came, when publishing it raised, or when the clean-up after an error or a cancellation
\* raised; or the job that remembered it was cleared from the table.
THEOREM PipelineHiddenIsReachable == Spec => []HiddenIsReachable
<1>1. Inv => HiddenIsReachable
  BY DEF Inv
<1> QED BY <1>1, PipelineAlwaysInv, PTL

\* A manifest in remote storage describes segments that are all there, whatever broke off,
\* was retried or interrupted before (_upload_remote_artifacts sends it last), as long as
\* no segment file was left half written.
THEOREM PipelineManifestIsLast == ASSUME ~MayTearFiles PROVE Spec => []ManifestIsLast
<1>1. Inv => ManifestIsLast
  BY TableType DEF Inv, VideosInv, VideoInv, ManifestIsLast
<1> QED BY <1>1, PipelineAlwaysInv, PTL

\* A fingerprinted video that is listed has all of its segments and its manifest in remote
\* storage, whatever failed, was cleared, cancelled, retried or interrupted before, as long
\* as no segment file was left half written and no source file was replaced before a retry
\* (process_import_job publishes after _upload_remote_artifacts).
THEOREM PipelineListedIsStored ==
    ASSUME ~MayTearFiles, MaxReplaced = 0 PROVE Spec => []ListedIsStored
<1>1. Inv => ListedIsStored
  <2> SUFFICES ASSUME Inv, NEW v \in videos \ doomed, lib[v].visible, lib[v].print # Nothing
               PROVE  Stored(v)
    BY DEF ListedIsStored
  <2>1. VideoInv(v) /\ Steady
    BY TableType DEF Inv, VideosInv, Steady
  <2> QED BY <2>1 DEF VideoInv
<1> QED BY <1>1, PipelineAlwaysInv, PTL

=============================================================================
