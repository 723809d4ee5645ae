------------------------- MODULE LibrarySyncProofs -------------------------
(***************************************************************************)
(* Proofs about LibrarySync for any number of videos, editors, edits,      *)
(* synchronisations and mishaps.  Types hold for all constants; that a     *)
(* clean row is what the remote says holds while ids come back, as in the  *)
(* instances of the runs (README, section 6).                              *)
(***************************************************************************)
EXTENDS LibrarySync, FiniteSetTheorems, WellFoundedInduction, TLAPS

-----------------------------------------------------------------------------
(* The part of the invariant that holds for all constants.                 *)

SchedulerType == [pc : SchedulerPc, todo : SUBSET Ids, now : Ids \cup {0}, seen : Row,
                  payload : Manifest \cup {None}, list : [Ids -> Row]]
SyncerType == [pc : SyncerPc, todo : SUBSET Ids, dir : Ids \cup {0}, id : Ids \cup {0},
               custom : BOOLEAN, payload : Manifest \cup {None}, seen : Row]

Types ==
    /\ row \in [Ids -> Row]
    /\ file \in [Ids -> Manifest \cup {None}]
    /\ picture \in [Ids -> Picture \cup {None}]
    /\ manifest \in [Ids -> Manifest \cup {None}]
    /\ poster \in [Ids -> Picture \cup {None}]
    /\ editor \in [Editors -> Editor]
    /\ scheduler \in SchedulerType
    /\ syncer \in SyncerType
    /\ edits \in Edits
    /\ disturbed \subseteq Ids

\* Rows are never deleted, and only rows have segments.
RowOk(r) == (r.there => r.video \in Ids) /\ (r.segments => r.there)
RowInv == \A i \in Ids : RowOk(row[i])

\* A process works on rows that are there, and writes what it has read.
EditorOk(d) ==
    /\ d.pc # "idle" => d.id \in Ids /\ row[d.id].there
    /\ d.pc = "write" => d.payload \in Manifest
EditorInv == \A e \in Editors : EditorOk(editor[e])

SchedulerInv ==
    /\ scheduler.pc \in {"idle", "next"} => scheduler.now = 0
    /\ scheduler.pc \notin {"idle", "next"} => scheduler.now \in Ids
    /\ scheduler.pc = "idle" => scheduler.todo = {}
    /\ scheduler.pc = "write" => scheduler.payload \in Manifest
    /\ scheduler.now \notin scheduler.todo
    /\ \A i \in Ids : SchedulerAt(i) => row[i].there

SyncerInv ==
    /\ \A d \in syncer.todo : manifest[d] # None
    /\ syncer.pc \in {"idle", "load"} => syncer.dir = 0
    /\ syncer.pc \in {"idle", "load", "lookup", "create"} => syncer.id = 0
    /\ syncer.pc \notin {"idle", "load"} => syncer.dir \in Ids /\ syncer.payload \in Manifest
    /\ syncer.pc \notin {"idle", "load", "lookup", "create"} =>
          syncer.id \in Ids /\ row[syncer.id].there

Sound == Types /\ RowInv /\ EditorInv /\ SchedulerInv /\ SyncerInv

-----------------------------------------------------------------------------
(* What a step leaves of the others.                                       *)

RowsStay == \A i \in Ids : row[i].there => row'[i].there
ManifestsStay == \A d \in Ids : manifest[d] # None => manifest'[d] # None

LEMMA NumbersIn == /\ LastId \in Nat /\ MaxEdits \in Nat /\ 0 \in Edits /\ 0 \notin Ids
                   /\ Ids \subseteq Nat
BY LibraryAssumption DEF Edits, Ids

LEMMA NoRowIn == NoRow \in Row /\ RowOk(NoRow) /\ ~NoRow.there
BY NumbersIn DEF NoRow, Row, RowOk

LEMMA EditorFrame == ASSUME EditorInv, RowsStay, editor' = editor PROVE EditorInv'
BY DEF EditorInv, EditorOk, RowsStay

LEMMA SchedulerFrames == ASSUME SchedulerInv, RowsStay, scheduler' = scheduler PROVE SchedulerInv'
BY DEF SchedulerInv, SchedulerAt, RowsStay

LEMMA SyncerFrame ==
    ASSUME Types, SyncerInv, RowsStay, ManifestsStay, syncer' = syncer PROVE SyncerInv'
BY DEF SyncerInv, RowsStay, ManifestsStay, Types, SyncerType

LEMMA RowsSame == ASSUME Types, RowInv, row' = row PROVE row' \in [Ids -> Row] /\ RowInv' /\ RowsStay
BY DEF Types, RowInv, RowsStay

\* One row is written.
LEMMA RowCore ==
    ASSUME Types, RowInv, NEW i \in Ids, NEW new \in Row, row' = [row EXCEPT ![i] = new],
           RowOk(new), row[i].there => new.there
    PROVE  /\ row' \in [Ids -> Row] /\ RowInv' /\ RowsStay
           /\ row'[i] = new /\ \A k \in Ids \ {i} : row'[k] = row[k]
BY DEF Types, RowInv, RowsStay

\* An editor goes on.
LEMMA EditorCore ==
    ASSUME Types, EditorInv, RowsStay, NEW e \in Editors, NEW new \in Editor,
           editor' = [editor EXCEPT ![e] = new],
           new.pc # "idle" => new.id \in Ids /\ row'[new.id].there,
           new.pc = "write" => new.payload \in Manifest
    PROVE  editor' \in [Editors -> Editor] /\ EditorInv'
<1>1. editor' \in [Editors -> Editor] /\ editor'[e] = new
      /\ \A f \in Editors \ {e} : editor'[f] = editor[f]
  BY DEF Types
<1>2. EditorOk(editor[e])' 
  BY <1>1 DEF EditorOk
<1>3. ASSUME NEW f \in Editors \ {e} PROVE EditorOk(editor[f])'
  <2>1. EditorOk(editor[f])
    BY DEF EditorInv
  <2> QED BY <1>1, <2>1 DEF EditorOk, RowsStay
<1> QED BY <1>1, <1>2, <1>3 DEF EditorInv

LEMMA BuildIn ==
    ASSUME Types, RowInv, NEW i \in Ids, row[i].segments PROVE BuildPayload(i) \in Manifest
<1>1. row[i] \in Row /\ row[i].video \in Ids
  BY DEF Types, RowInv, RowOk
<1> QED BY <1>1, NumbersIn DEF BuildPayload, Manifest, Row

LEMMA IdleIn ==
    /\ IdleEditor \in Editor /\ IdleEditor.pc = "idle"
    /\ IdleScheduler \in SchedulerType /\ IdleSyncer \in SyncerType
BY NumbersIn, NoRowIn DEF IdleEditor, Editor, EditorPc, IdleScheduler, SchedulerType, SchedulerPc,
   IdleSyncer, SyncerType, SyncerPc

-----------------------------------------------------------------------------
(* Edits.                                                                  *)

\* The rest of Sound after a step of an editor.
LEMMA EditRest ==
    ASSUME Sound, EditFrame, RowsStay
    PROVE  /\ SchedulerInv' /\ SyncerInv'
           /\ manifest' = manifest /\ poster' = poster /\ scheduler' = scheduler /\ syncer' = syncer
<1>1. ManifestsStay
  BY DEF EditFrame, ManifestsStay
<1> QED BY <1>1, SchedulerFrames, SyncerFrame DEF Sound, EditFrame

\* An editor goes to pc, nothing else of it changes.
LEMMA GotoShape ==
    ASSUME Types, NEW e \in Editors, NEW pc \in EditorPc, Goto(e, pc)
    PROVE  \E new \in Editor : /\ editor' = [editor EXCEPT ![e] = new]
                               /\ new.pc = pc /\ new.id = editor[e].id /\ new.n = editor[e].n
                               /\ new.title = editor[e].title /\ new.payload = editor[e].payload
<1> DEFINE new == [editor[e] EXCEPT !.pc = pc]
<1>1. editor[e] \in Editor
  BY DEF Types
<1>2. new \in Editor /\ new.pc = pc /\ new.id = editor[e].id /\ new.n = editor[e].n
      /\ new.title = editor[e].title /\ new.payload = editor[e].payload
  BY <1>1 DEF Editor
<1>3. editor' = [editor EXCEPT ![e] = new]
  BY <1>1 DEF Goto
<1> HIDE DEF new
<1> QED BY <1>2, <1>3

LEMMA GotoSound ==
    ASSUME Types, EditorInv, RowsStay, NEW e \in Editors, NEW pc \in EditorPc, Goto(e, pc),
           pc # "write", editor[e].pc # "idle"
    PROVE  editor' \in [Editors -> Editor] /\ EditorInv'
<1>1. PICK new \in Editor : /\ editor' = [editor EXCEPT ![e] = new]
                            /\ new.pc = pc /\ new.id = editor[e].id
  BY GotoShape
<1>2. EditorOk(editor[e])
  BY DEF EditorInv
<1>3. new.id \in Ids /\ row'[new.id].there
  BY <1>1, <1>2 DEF EditorOk, RowsStay
<1> QED BY <1>1, <1>3, EditorCore

LEMMA EndSound ==
    ASSUME Types, EditorInv, RowsStay, NEW e \in Editors, EndEdit(e)
    PROVE  editor' \in [Editors -> Editor] /\ EditorInv'
<1>1. IdleEditor \in Editor /\ IdleEditor.pc = "idle"
  BY IdleIn
<1>2. editor' = [editor EXCEPT ![e] = IdleEditor]
  BY DEF EndEdit
<1> QED BY <1>1, <1>2, EditorCore

-----------------------------------------------------------------------------
(* How each step writes a row.                                             *)

SameVideo(n, o) == n.there = o.there /\ n.video = o.video /\ n.segments = o.segments
SameText(n, o) == n.title = o.title /\ n.tags = o.tags
SamePoster(n, o) == n.custom = o.custom /\ n.name = o.name
Writes(i, new) == new \in Row /\ row' = [row EXCEPT ![i] = new]

LEMMA SaveMetadataShape ==
    ASSUME Types, NEW e \in Editors, NEW i \in Ids, i = editor[e].id, SaveMetadata(e)
    PROVE  \E new : /\ Writes(i, new) /\ SameVideo(new, row[i]) /\ SamePoster(new, row[i])
                    /\ new.path = row[i].path /\ new.dirty
                    /\ new.title = editor[e].title /\ new.tags = editor[e].n
<1> DEFINE new == [row[i] EXCEPT !.title = editor[e].title, !.tags = editor[e].n,
                                 !.dirty = TRUE, !.due = FALSE]
<1>1. row[i] \in Row /\ editor[e] \in Editor /\ row \in [Ids -> Row]
  BY DEF Types
<1>2. /\ new \in Row /\ SameVideo(new, row[i]) /\ SamePoster(new, row[i])
      /\ new.path = row[i].path /\ new.dirty
      /\ new.title = editor[e].title /\ new.tags = editor[e].n
  BY <1>1 DEF Row, Editor, SameVideo, SamePoster
<1>3. row' = [row EXCEPT ![i] = new]
  BY <1>1 DEF SaveMetadata
<1> HIDE DEF new
<1> QED BY <1>2, <1>3 DEF Writes

LEMMA SaveFieldsShape ==
    ASSUME Types, NEW e \in Editors, NEW i \in Ids, i = editor[e].id, SaveFields(e)
    PROVE  \E new : /\ Writes(i, new) /\ SameVideo(new, row[i]) /\ SamePoster(new, row[i])
                    /\ new.path = row[i].path /\ new.dirty = row[i].dirty
<1> DEFINE new == [row[i] EXCEPT !.title = editor[e].title, !.tags = editor[e].n]
<1>1. row[i] \in Row /\ editor[e] \in Editor /\ row \in [Ids -> Row]
  BY DEF Types
<1>2. /\ new \in Row /\ SameVideo(new, row[i]) /\ SamePoster(new, row[i])
      /\ new.path = row[i].path /\ new.dirty = row[i].dirty
  BY <1>1 DEF Row, Editor, SameVideo, SamePoster
<1>3. row' = [row EXCEPT ![i] = new]
  BY <1>1 DEF SaveFields
<1> HIDE DEF new
<1> QED BY <1>2, <1>3 DEF Writes

LEMMA PointToPictureShape ==
    ASSUME Types, NEW e \in Editors, NEW i \in Ids, i = editor[e].id, PointToPicture(e)
    PROVE  \E new : /\ Writes(i, new) /\ SameVideo(new, row[i]) /\ SameText(new, row[i])
                    /\ new.path = row[i].path /\ new.dirty = row[i].dirty
                    /\ new.custom /\ new.name = i
<1> DEFINE new == [row[i] EXCEPT !.custom = TRUE, !.name = i]
<1>1. row[i] \in Row /\ row \in [Ids -> Row]
  BY DEF Types
<1>2. /\ new \in Row /\ SameVideo(new, row[i]) /\ SameText(new, row[i])
      /\ new.path = row[i].path /\ new.dirty = row[i].dirty /\ new.custom /\ new.name = i
  BY <1>1 DEF Row, SameVideo, SameText
<1>3. row' = [row EXCEPT ![i] = new]
  BY <1>1 DEF PointToPicture
<1> HIDE DEF new
<1> QED BY <1>2, <1>3 DEF Writes

LEMMA RequestSyncShape ==
    ASSUME Types, NEW e \in Editors, NEW i \in Ids, i = editor[e].id, RequestSync(e)
    PROVE  \E new : /\ Writes(i, new) /\ SameVideo(new, row[i]) /\ SameText(new, row[i])
                    /\ SamePoster(new, row[i]) /\ new.path = row[i].path /\ new.dirty
<1> DEFINE new == [row[i] EXCEPT !.dirty = TRUE, !.due = FALSE]
<1>1. row[i] \in Row /\ row \in [Ids -> Row]
  BY DEF Types
<1>2. /\ new \in Row /\ SameVideo(new, row[i]) /\ SameText(new, row[i])
      /\ SamePoster(new, row[i]) /\ new.path = row[i].path /\ new.dirty
  BY <1>1 DEF Row, SameVideo, SameText, SamePoster
<1>3. row' = [row EXCEPT ![i] = new]
  BY <1>1 DEF RequestSync
<1> HIDE DEF new
<1> QED BY <1>2, <1>3 DEF Writes

\* The path is set to the directory of the row's id.
LEMMA PathShape ==
    ASSUME Types, NEW i \in Ids, row' = [row EXCEPT ![i].path = i]
    PROVE  \E new : /\ Writes(i, new) /\ SameVideo(new, row[i]) /\ SameText(new, row[i])
                    /\ SamePoster(new, row[i]) /\ new.path = i /\ new.dirty = row[i].dirty
<1> DEFINE new == [row[i] EXCEPT !.path = i]
<1>1. row[i] \in Row /\ row \in [Ids -> Row]
  BY DEF Types
<1>2. /\ new \in Row /\ SameVideo(new, row[i]) /\ SameText(new, row[i])
      /\ SamePoster(new, row[i]) /\ new.path = i /\ new.dirty = row[i].dirty
  BY <1>1 DEF Row, SameVideo, SameText, SamePoster
<1>3. row' = [row EXCEPT ![i] = new]
  BY <1>1
<1> HIDE DEF new
<1> QED BY <1>2, <1>3 DEF Writes

LEMMA FallDueShape ==
    ASSUME Types, NEW i \in Ids, FallDue(i)
    PROVE  \E new : /\ Writes(i, new) /\ SameVideo(new, row[i]) /\ SameText(new, row[i])
                    /\ SamePoster(new, row[i]) /\ new.path = row[i].path
                    /\ new.dirty = row[i].dirty
<1> DEFINE new == [row[i] EXCEPT !.due = TRUE]
<1>1. row[i] \in Row /\ row \in [Ids -> Row]
  BY DEF Types
<1>2. /\ new \in Row /\ SameVideo(new, row[i]) /\ SameText(new, row[i])
      /\ SamePoster(new, row[i]) /\ new.path = row[i].path /\ new.dirty = row[i].dirty
  BY <1>1 DEF Row, SameVideo, SameText, SamePoster
<1>3. row' = [row EXCEPT ![i] = new]
  BY <1>1 DEF FallDue
<1> HIDE DEF new
<1> QED BY <1>2, <1>3 DEF Writes

LEMMA MarkCleanShape ==
    ASSUME Types, NEW i \in Ids, i = scheduler.now, MarkClean
    PROVE  \E new : /\ Writes(i, new) /\ SameVideo(new, row[i]) /\ SameText(new, row[i])
                    /\ SamePoster(new, row[i]) /\ new.path = row[i].path /\ ~new.dirty
<1> DEFINE new == [row[i] EXCEPT !.dirty = FALSE]
<1>1. row[i] \in Row /\ row \in [Ids -> Row]
  BY DEF Types
<1>2. /\ new \in Row /\ SameVideo(new, row[i]) /\ SameText(new, row[i])
      /\ SamePoster(new, row[i]) /\ new.path = row[i].path /\ ~new.dirty
  BY <1>1 DEF Row, SameVideo, SameText, SamePoster
<1>3. row' = [row EXCEPT ![i] = new]
  BY <1>1 DEF MarkClean
<1> HIDE DEF new
<1> QED BY <1>2, <1>3 DEF Writes

LEMMA CreateVideoShape ==
    ASSUME Types, CreateVideo, NEW m \in Manifest, m = syncer.payload
    PROVE  \E i \in Ids, new \in Row :
              /\ i = Max({0} \cup {k \in Ids : row[k].there}) + 1
              /\ Writes(i, new) /\ new.there /\ new.video = m.video /\ ~new.segments
              /\ SameText(new, m) /\ ~new.custom /\ new.name = 0 /\ ~new.dirty
              /\ new.path = syncer.dir
              /\ syncer' = [syncer EXCEPT !.pc = "insert", !.id = i]
<1> DEFINE i == Max({0} \cup {k \in Ids : row[k].there}) + 1
           new == [NoRow EXCEPT !.there = TRUE, !.video = m.video, !.title = m.title,
                                !.tags = m.tags, !.path = syncer.dir]
<1>1. NoRow \in Row /\ syncer \in SyncerType
  BY NoRowIn DEF Types
<1>2. /\ new \in Row /\ new.there /\ new.video = m.video /\ ~new.segments
      /\ SameText(new, m) /\ ~new.custom /\ new.name = 0 /\ ~new.dirty
      /\ new.path = syncer.dir
  BY <1>1, NumbersIn DEF Row, NoRow, Manifest, SyncerType, SameText
<1>3. /\ i \in Ids /\ row' = [row EXCEPT ![i] = new]
      /\ syncer' = [syncer EXCEPT !.pc = "insert", !.id = i]
  BY DEF CreateVideo
<1> HIDE DEF new, i
<1>4. i = Max({0} \cup {k \in Ids : row[k].there}) + 1
  BY DEF i
<1> QED BY <1>2, <1>3, <1>4 DEF Writes

LEMMA UpdateVideoShape ==
    ASSUME Types, UpdateVideo, NEW i \in Ids, i = syncer.id, NEW m \in Manifest, m = syncer.payload
    PROVE  \E new : /\ Writes(i, new) /\ new.there = row[i].there
                    /\ new.segments = row[i].segments /\ new.video = m.video /\ SameText(new, m)
                    /\ new.path = syncer.dir /\ new.custom = syncer.custom
                    /\ new.name = row[i].name /\ ~new.dirty
<1> DEFINE new == [row[i] EXCEPT !.video = m.video, !.title = m.title, !.tags = m.tags,
                     !.path = syncer.dir, !.custom = syncer.custom, !.dirty = FALSE]
<1>1. row[i] \in Row /\ row \in [Ids -> Row] /\ syncer \in SyncerType
  BY DEF Types
<1>2. /\ new \in Row /\ new.there = row[i].there
      /\ new.segments = row[i].segments /\ new.video = m.video /\ SameText(new, m)
      /\ new.path = syncer.dir /\ new.custom = syncer.custom
      /\ new.name = row[i].name /\ ~new.dirty
  BY <1>1 DEF Row, SameText, Manifest, SyncerType
<1>3. row' = [row EXCEPT ![i] = new]
  BY <1>1 DEF UpdateVideo
<1> HIDE DEF new
<1> QED BY <1>2, <1>3 DEF Writes

\* DeleteSegments and InsertSegments.
LEMMA SegmentsShape ==
    ASSUME Types, NEW i \in Ids, NEW b \in BOOLEAN, row' = [row EXCEPT ![i].segments = b]
    PROVE  \E new : /\ Writes(i, new) /\ new.there = row[i].there /\ new.video = row[i].video
                    /\ new.segments = b /\ SameText(new, row[i]) /\ SamePoster(new, row[i])
                    /\ new.path = row[i].path /\ new.dirty = row[i].dirty
<1> DEFINE new == [row[i] EXCEPT !.segments = b]
<1>1. row[i] \in Row /\ row \in [Ids -> Row]
  BY DEF Types
<1>2. /\ new \in Row /\ new.there = row[i].there /\ new.video = row[i].video
      /\ new.segments = b /\ SameText(new, row[i]) /\ SamePoster(new, row[i])
      /\ new.path = row[i].path /\ new.dirty = row[i].dirty
  BY <1>1 DEF Row, SameText, SamePoster
<1>3. row' = [row EXCEPT ![i] = new]
  BY <1>1
<1> HIDE DEF new
<1> QED BY <1>2, <1>3 DEF Writes

Restored(n, o, m) ==
    /\ SameVideo(n, o) /\ SameText(n, o) /\ n.path = o.path /\ n.dirty = o.dirty
    /\ n.custom <=> m.name # 0
    /\ n.name = IF m.name # 0 THEN m.name ELSE o.name

LEMMA PointToRestoredShape ==
    ASSUME Types, PointToRestored, NEW i \in Ids, i = syncer.id,
           NEW m \in Manifest, m = syncer.payload
    PROVE  \E new : /\ Writes(i, new) /\ Restored(new, row[i], m)
                    /\ syncer' = [syncer EXCEPT !.pc = "final", !.seen = new]
<1> DEFINE new == [row[i] EXCEPT !.custom = m.name # 0,
                                 !.name = IF m.name # 0 THEN m.name ELSE row[i].name]
<1>1. row[i] \in Row /\ row \in [Ids -> Row]
  BY DEF Types
<1>2. new \in Row /\ Restored(new, row[i], m)
  BY <1>1 DEF Row, Restored, SameVideo, SameText, Manifest
<1>3. row' = [row EXCEPT ![i] = new]
  BY <1>1 DEF PointToRestored
<1> HIDE DEF new
<1>4. row'[i] = new
  BY <1>1, <1>3
<1>5. syncer' = [syncer EXCEPT !.pc = "final", !.seen = new]
  BY <1>4 DEF PointToRestored
<1> QED BY <1>2, <1>3, <1>5 DEF Writes

LEMMA FinalUpdateShape ==
    ASSUME Types, FinalUpdate, NEW i \in Ids, i = syncer.id, NEW r \in Row, r = syncer.seen,
           syncer.dir \in Ids
    PROVE  \E new : /\ Writes(i, new) /\ SameVideo(new, row[i]) /\ SameText(new, r)
                    /\ new.path = (IF r.path # 0 THEN r.path ELSE syncer.dir)
                    /\ new.custom = r.custom /\ new.name = row[i].name /\ ~new.dirty
<1> DEFINE p == IF r.path # 0 THEN r.path ELSE syncer.dir
           new == [row[i] EXCEPT !.title = r.title, !.tags = r.tags, !.path = p,
                                 !.custom = r.custom, !.dirty = FALSE]
<1>1. row[i] \in Row /\ row \in [Ids -> Row]
  BY DEF Types
<1>a. p \in Ids
  BY DEF Row
<1> HIDE DEF p
<1>2. /\ new \in Row /\ SameVideo(new, row[i]) /\ SameText(new, r)
      /\ new.path = p
      /\ new.custom = r.custom /\ new.name = row[i].name /\ ~new.dirty
  BY <1>1, <1>a DEF Row, SameVideo, SameText
<1>3. row' = [row EXCEPT ![i] = new]
  <2>1. row' = [row EXCEPT ![syncer.id] = [@ EXCEPT !.title = syncer.seen.title,
                   !.tags = syncer.seen.tags,
                   !.path = IF syncer.seen.path # 0 THEN syncer.seen.path ELSE syncer.dir,
                   !.custom = syncer.seen.custom, !.dirty = FALSE]]
    BY DEF FinalUpdate
  <2> QED BY <1>1, <2>1 DEF p
<1> HIDE DEF new
<1> QED BY <1>2, <1>3 DEF Writes, p

-----------------------------------------------------------------------------
(* Every step keeps Sound.                                                 *)

LEMMA JoinIn == ASSUME Types, NEW I \in SUBSET Ids, Join(I) \/ BrokenOff(I) PROVE disturbed' \subseteq Ids
BY DEF Types, Join, BrokenOff

LEMMA EditSound ==
    ASSUME Sound, EditFrame, row' \in [Ids -> Row], RowInv', RowsStay,
           editor' \in [Editors -> Editor], EditorInv',
           file' \in [Ids -> Manifest \cup {None}], picture' \in [Ids -> Picture \cup {None}],
           edits' \in Edits, disturbed' \subseteq Ids
    PROVE  Sound'
<1>1. /\ SchedulerInv' /\ SyncerInv'
      /\ manifest' = manifest /\ poster' = poster /\ scheduler' = scheduler /\ syncer' = syncer
  BY EditRest
<1>2. Types'
  BY <1>1 DEF Types, Sound
<1> QED BY <1>1, <1>2 DEF Sound

LEMMA EditorAtWork ==
    ASSUME Sound, NEW e \in Editors, editor[e].pc # "idle"
    PROVE  /\ editor[e] \in Editor /\ editor[e].id \in Ids
           /\ row[editor[e].id].there /\ RowOk(row[editor[e].id])
BY DEF Sound, Types, EditorInv, EditorOk, RowInv

LEMMA WriteSound ==
    ASSUME Sound, NEW i \in Ids, NEW new, Writes(i, new), SameVideo(new, row[i])
    PROVE  /\ row' \in [Ids -> Row] /\ RowInv' /\ RowsStay
           /\ row'[i] = new /\ \A k \in Ids \ {i} : row'[k] = row[k]
<1>1. RowOk(new) /\ (row[i].there => new.there)
  BY DEF Sound, RowInv, RowOk, SameVideo
<1> QED BY <1>1, RowCore DEF Writes, Sound

\* The fields of a new row, whatever the step that wrote it.
LEMMA ReceiveSound ==
    ASSUME Sound, NEW e \in Editors, NEW i \in Ids, NEW kind \in EditKinds, ReceiveEdit(e, i, kind)
    PROVE  /\ Sound' /\ editor[e].pc = "idle" /\ UNCHANGED <<local, manifest, poster, scheduler, syncer>>
           /\ \E new \in Editor :
                 /\ editor' = [editor EXCEPT ![e] = new] /\ new.id = i
                 /\ new.pc \in {"remove", "save", "fields"}
                 /\ new.pc = "fields" => ~CanRewrite(i)
<1> DEFINE title == IF kind = "tags" THEN row[i].title ELSE edits + 1
           pc == CASE kind = "artwork" -> "remove"
                   [] kind # "artwork" /\ CanRewrite(i) -> "save"
                   [] OTHER -> "fields"
           new == [IdleEditor EXCEPT !.id = i, !.n = edits + 1, !.title = title, !.pc = pc]
<1>1. edits + 1 \in Edits /\ row[i] \in Row /\ row[i].there
  BY NumbersIn DEF ReceiveEdit, Sound, Types, Edits
<1>2. title \in Edits
  BY <1>1 DEF Row
<1>3. pc \in {"remove", "save", "fields"} /\ (pc = "fields" => ~CanRewrite(i))
  OBVIOUS
<1>4. editor' = [editor EXCEPT ![e] = new]
  BY DEF ReceiveEdit
<1> HIDE DEF title, pc
<1>5. new \in Editor /\ new.id = i /\ new.pc = pc
  BY <1>1, <1>2, <1>3, IdleIn DEF IdleEditor, Editor, EditorPc
<1> HIDE DEF new
<1>6. row' = row /\ file' = file /\ picture' = picture /\ EditFrame /\ edits' = edits + 1
  BY DEF ReceiveEdit, local
<1>7. row' \in [Ids -> Row] /\ RowInv' /\ RowsStay
  BY <1>6, RowsSame DEF Sound
<1>8. editor' \in [Editors -> Editor] /\ EditorInv'
  BY <1>1, <1>3, <1>4, <1>5, <1>6, <1>7, EditorCore DEF Sound
<1>9. disturbed' \subseteq Ids
  <2>1. Join({i}) => disturbed' \subseteq Ids
    BY JoinIn DEF Sound
  <2> QED BY <2>1 DEF ReceiveEdit, Sound, Types
<1>10. Sound'
  BY <1>1, <1>6, <1>7, <1>8, <1>9, EditSound DEF Sound, Types
<1>11. editor[e].pc = "idle" /\ UNCHANGED <<local, manifest, poster, scheduler, syncer>>
  BY DEF ReceiveEdit, EditFrame
<1> QED BY <1>3, <1>4, <1>5, <1>10, <1>11

LEMMA EditStepSound ==
    ASSUME Sound, NEW e \in Editors, EditStep(e) PROVE Sound'
<1> DEFINE i == editor[e].id
<1>1. editor[e].pc # "idle" /\ EditFrame /\ edits' = edits
  BY DEF EditStep, SaveMetadata, SaveFields, RemovePicture, StorePicture, PointToPicture,
     CheckRewrite, RequestSync, ReadForManifest, WriteManifest, SetPath, EditRaises, NoMishap,
     bounds, Mishap
<1>2. i \in Ids /\ editor[e] \in Editor /\ row[i].there
  BY <1>1, EditorAtWork
<1>3. edits' \in Edits /\ Types /\ EditorInv /\ RowInv
  BY <1>1 DEF Sound, Types
<1>4. row' = row => row' \in [Ids -> Row] /\ RowInv' /\ RowsStay
  BY <1>3, RowsSame
<1>5. ASSUME NEW new, Writes(i, new), SameVideo(new, row[i])
      PROVE  row' \in [Ids -> Row] /\ RowInv' /\ RowsStay
  BY <1>2, <1>5, WriteSound
<1>6. ASSUME NEW pc \in EditorPc, Goto(e, pc), pc # "write", RowsStay
      PROVE  editor' \in [Editors -> Editor] /\ EditorInv'
  BY <1>1, <1>3, <1>6, GotoSound
<1>7. ASSUME EndEdit(e), RowsStay
      PROVE  editor' \in [Editors -> Editor] /\ EditorInv'
  BY <1>3, <1>7, EndSound
<1>8. /\ file' = file => file' \in [Ids -> Manifest \cup {None}]
      /\ picture' = picture => picture' \in [Ids -> Picture \cup {None}]
      /\ disturbed' = disturbed \/ BrokenOff({i}) => disturbed' \subseteq Ids
  BY <1>2, <1>3, JoinIn DEF Types
<1> SUFFICES /\ row' \in [Ids -> Row] /\ RowInv' /\ RowsStay
             /\ editor' \in [Editors -> Editor] /\ EditorInv'
             /\ file' \in [Ids -> Manifest \cup {None}]
             /\ picture' \in [Ids -> Picture \cup {None}] /\ disturbed' \subseteq Ids
  BY <1>1, <1>3, EditSound
<1>11. CASE SaveMetadata(e)
  <2>1. row' \in [Ids -> Row] /\ RowInv' /\ RowsStay
    BY <1>2, <1>3, <1>5, <1>11, SaveMetadataShape
  <2>2. Goto(e, "read") /\ file' = file /\ picture' = picture /\ disturbed' = disturbed
    BY <1>11 DEF SaveMetadata
  <2> QED BY <2>1, <2>2, <1>6, <1>8 DEF EditorPc
<1>12. CASE SaveFields(e)
  <2>1. row' \in [Ids -> Row] /\ RowInv' /\ RowsStay
    BY <1>2, <1>3, <1>5, <1>12, SaveFieldsShape
  <2>2. EndEdit(e) /\ file' = file /\ picture' = picture /\ disturbed' = disturbed
    BY <1>12 DEF SaveFields
  <2> QED BY <2>1, <2>2, <1>7, <1>8
<1>13. CASE RemovePicture(e)
  <2>1. row' = row /\ Goto(e, "store") /\ file' = file /\ disturbed' = disturbed
    BY <1>13 DEF RemovePicture
  <2>2. picture' \in [Ids -> Picture \cup {None}]
    BY <1>2, <1>3, <1>13 DEF RemovePicture, Types
  <2> QED BY <2>1, <2>2, <1>4, <1>6, <1>8 DEF EditorPc
<1>14. CASE StorePicture(e)
  <2>1. row' = row /\ Goto(e, "point") /\ file' = file /\ disturbed' = disturbed
    BY <1>14 DEF StorePicture
  <2>2. [n |-> editor[e].n, coded |-> TRUE] \in Picture
    BY <1>2 DEF Editor, Picture
  <2>3. picture' \in [Ids -> Picture \cup {None}]
    BY <1>2, <1>3, <1>14, <2>2 DEF StorePicture, Types
  <2> QED BY <2>1, <2>3, <1>4, <1>6, <1>8 DEF EditorPc
<1>15. CASE PointToPicture(e)
  <2>1. row' \in [Ids -> Row] /\ RowInv' /\ RowsStay
    BY <1>2, <1>3, <1>5, <1>15, PointToPictureShape
  <2>2. Goto(e, "check") /\ file' = file /\ picture' = picture /\ disturbed' = disturbed
    BY <1>15 DEF PointToPicture
  <2> QED BY <2>1, <2>2, <1>6, <1>8 DEF EditorPc
<1>16. CASE CheckRewrite(e)
  <2>1. row' = row /\ (Goto(e, "request") \/ EndEdit(e)) /\ file' = file
        /\ picture' = picture /\ disturbed' = disturbed
    BY <1>16 DEF CheckRewrite, local
  <2> QED BY <2>1, <1>4, <1>6, <1>7, <1>8 DEF EditorPc
<1>17. CASE RequestSync(e)
  <2>1. row' \in [Ids -> Row] /\ RowInv' /\ RowsStay
    BY <1>2, <1>3, <1>5, <1>17, RequestSyncShape
  <2>2. Goto(e, "read") /\ file' = file /\ picture' = picture /\ disturbed' = disturbed
    BY <1>17 DEF RequestSync
  <2> QED BY <2>1, <2>2, <1>6, <1>8 DEF EditorPc
<1>18. CASE ReadForManifest(e)
  <2>1. row' = row /\ file' = file /\ picture' = picture
    BY <1>18 DEF ReadForManifest, local
  <2>2. CASE row[i].segments /\ disturbed' = disturbed
             /\ editor' = [editor EXCEPT ![e].pc = "write", ![e].payload = BuildPayload(i)]
    <3> DEFINE new == [editor[e] EXCEPT !.pc = "write", !.payload = BuildPayload(i)]
    <3>1. BuildPayload(i) \in Manifest
      BY <1>2, <1>3, <2>2, BuildIn
    <3>2. new \in Editor /\ new.pc = "write" /\ new.payload \in Manifest /\ new.id = i
      BY <1>2, <3>1 DEF Editor, EditorPc
    <3>3. editor' = [editor EXCEPT ![e] = new]
      BY <1>3, <2>2 DEF Types
    <3> HIDE DEF new
    <3>4. row'[i].there
      BY <1>2, <2>1
    <3>5. editor' \in [Editors -> Editor] /\ EditorInv'
      BY <1>2, <1>3, <1>4, <2>1, <3>2, <3>3, <3>4, EditorCore
    <3> QED BY <1>4, <1>8, <2>1, <2>2, <3>5
  <2>3. CASE EndEdit(e) /\ BrokenOff({i})
    BY <1>4, <1>7, <1>8, <2>1, <2>3
  <2> QED BY <1>18, <2>2, <2>3 DEF ReadForManifest
<1>19. CASE WriteManifest(e)
  <2>1. row' = row /\ Goto(e, "path") /\ picture' = picture /\ disturbed' = disturbed
    BY <1>19 DEF WriteManifest
  <2>2. editor[e].payload \in Manifest
    BY <1>3, <1>19 DEF EditorInv, EditorOk, WriteManifest
  <2>3. file' \in [Ids -> Manifest \cup {None}]
    BY <1>2, <1>3, <1>19, <2>2 DEF WriteManifest, Types
  <2> QED BY <2>1, <2>3, <1>4, <1>6, <1>8 DEF EditorPc
<1>20. CASE SetPath(e)
  <2>1. row' = [row EXCEPT ![i].path = i]
    BY <1>20 DEF SetPath
  <2>2. row' \in [Ids -> Row] /\ RowInv' /\ RowsStay
    BY <1>2, <1>3, <1>5, <2>1, PathShape
  <2>3. EndEdit(e) /\ file' = file /\ picture' = picture /\ disturbed' = disturbed
    BY <1>20 DEF SetPath
  <2> QED BY <2>2, <2>3, <1>7, <1>8
<1>21. CASE EditRaises(e)
  <2>1. row' = row /\ EndEdit(e) /\ file' = file /\ picture' = picture /\ BrokenOff({i})
    BY <1>21 DEF EditRaises, local
  <2> QED BY <2>1, <1>4, <1>7, <1>8
<1> QED BY <1>11, <1>12, <1>13, <1>14, <1>15, <1>16, <1>17, <1>18, <1>19, <1>20, <1>21
        DEF EditStep

LEMMA MinIn == ASSUME NEW S \in SUBSET Ids, S # {} PROVE Min(S) \in S
<1>1. S \subseteq Nat
  BY NumbersIn
<1>2. IsWellFoundedOn(OpToRel(<, Nat), Nat)
  BY NatLessThanWellFounded
<1>3. PICK m \in S : \A y \in S : <<y, m>> \notin OpToRel(<, Nat)
  BY <1>1, <1>2, WFMin
<1>4. ASSUME NEW y \in S PROVE m <= y
  <2>1. y \in Nat /\ m \in Nat
    BY <1>1
  <2>2. ~(y < m)
    BY <1>3, <2>1 DEF OpToRel
  <2> QED BY <2>1, <2>2
<1> QED BY <1>4 DEF Min

\* The rest of Sound after a step of the scheduler.
LEMMA SchedulerSound ==
    ASSUME Sound, SchedulerFrame, NoMishap \/ Mishap, RowsStay, ManifestsStay,
           row' \in [Ids -> Row], RowInv', scheduler' \in SchedulerType, SchedulerInv',
           file' \in [Ids -> Manifest \cup {None}], manifest' \in [Ids -> Manifest \cup {None}],
           poster' \in [Ids -> Picture \cup {None}], disturbed' \subseteq Ids
    PROVE  Sound'
<1>1. picture' = picture /\ editor' = editor /\ syncer' = syncer /\ edits' = edits
  BY DEF SchedulerFrame, NoMishap, Mishap, bounds
<1>2. EditorInv' /\ SyncerInv'
  BY <1>1, EditorFrame, SyncerFrame DEF Sound
<1>3. Types'
  BY <1>1 DEF Types, Sound
<1> QED BY <1>2, <1>3 DEF Sound

LEMMA FallDueSound == ASSUME Sound, NEW i \in Ids, FallDue(i) PROVE Sound'
<1>1. row' \in [Ids -> Row] /\ RowInv' /\ RowsStay
  BY FallDueShape, WriteSound DEF Sound
<1>2. /\ scheduler' = scheduler /\ file' = file /\ manifest' = manifest /\ poster' = poster
      /\ disturbed' = disturbed /\ NoMishap /\ SchedulerFrame
  BY DEF FallDue, remote
<1>3. SchedulerInv' /\ ManifestsStay
  BY <1>1, <1>2, SchedulerFrames DEF Sound, ManifestsStay
<1> QED BY <1>1, <1>2, <1>3, SchedulerSound DEF Sound, Types

LEMMA ListDirtyShape ==
    ASSUME Types, ListDirty
    PROVE  \E due \in SUBSET Ids :
              /\ due = {i \in Ids : row[i].there /\ row[i].dirty /\ row[i].due}
              /\ scheduler.pc = "idle" /\ scheduler' \in SchedulerType /\ scheduler'.pc = "next"
              /\ scheduler'.todo = due /\ scheduler'.now = scheduler.now
              /\ scheduler'.seen = scheduler.seen /\ scheduler'.payload = scheduler.payload
              /\ \A i \in due : scheduler'.list[i] = row[i]
              /\ Join(due)
<1> DEFINE due == {i \in Ids : row[i].there /\ row[i].dirty /\ row[i].due}
           list == [i \in Ids |-> IF i \in due THEN row[i] ELSE NoRow]
<1>1. /\ scheduler' = [scheduler EXCEPT !.pc = "next", !.todo = due, !.list = list]
      /\ scheduler.pc = "idle" /\ Join(due) /\ due \in SUBSET Ids
  BY DEF ListDirty
<1>2. list \in [Ids -> Row] /\ \A i \in due : list[i] = row[i]
  BY NoRowIn DEF Types
<1> HIDE DEF list
<1>3. scheduler \in SchedulerType
  BY DEF Types
<1>4. /\ scheduler' \in SchedulerType /\ scheduler'.pc = "next" /\ scheduler'.todo = due
      /\ scheduler'.now = scheduler.now /\ scheduler'.seen = scheduler.seen
      /\ scheduler'.payload = scheduler.payload /\ scheduler'.list = list
  <2> HIDE DEF due
  <2> QED BY <1>1, <1>2, <1>3 DEF SchedulerType, SchedulerPc
<1> QED BY <1>1, <1>2, <1>4

\* Either the pass ends, or one video of it is next.
LEMMA TakeVideoShape ==
    ASSUME Types, TakeVideo
    PROVE  \/ scheduler.todo = {} /\ scheduler' = IdleScheduler
           \/ \E i \in scheduler.todo :
                 /\ scheduler' \in SchedulerType
                 /\ scheduler'.pc = IF file[i] = None THEN "read" ELSE "upload"
                 /\ scheduler'.todo = scheduler.todo \ {i} /\ scheduler'.now = i
                 /\ scheduler'.seen = scheduler.list[i]
                 /\ scheduler'.payload = scheduler.payload
                 /\ \A k \in Ids \ {i} : scheduler'.list[k] = scheduler.list[k]
<1>1. CASE scheduler.todo = {}
  BY <1>1 DEF TakeVideo
<1>2. CASE scheduler.todo # {}
  <2> DEFINE i == Min(scheduler.todo)
             pc == IF file[i] = None THEN "read" ELSE "upload"
             list == [scheduler.list EXCEPT ![i] = NoRow]
  <2>1. scheduler \in SchedulerType /\ scheduler.todo \in SUBSET Ids
        /\ scheduler.list \in [Ids -> Row]
    BY DEF Types, SchedulerType
  <2>2. i \in scheduler.todo /\ i \in Ids
    BY <1>2, <2>1, MinIn
  <2>3. scheduler' = [scheduler EXCEPT !.todo = scheduler.todo \ {i}, !.now = i,
                         !.seen = scheduler.list[i], !.list[i] = NoRow, !.pc = pc]
    BY <1>2 DEF TakeVideo
  <2> HIDE DEF i
  <2>4. /\ list \in [Ids -> Row] /\ scheduler.list[i] \in Row
        /\ \A k \in Ids \ {i} : list[k] = scheduler.list[k]
    BY <2>1, <2>2, NoRowIn
  <2>5. scheduler' = [scheduler EXCEPT !.todo = scheduler.todo \ {i}, !.now = i,
                         !.seen = scheduler.list[i], !.list = list, !.pc = pc]
    BY <2>1, <2>3 DEF SchedulerType
  <2>6. pc \in SchedulerPc
    BY DEF SchedulerPc
  <2> HIDE DEF list, pc
  <2>7. /\ scheduler' \in SchedulerType /\ scheduler'.pc = pc
        /\ scheduler'.todo = scheduler.todo \ {i} /\ scheduler'.now = i
        /\ scheduler'.seen = scheduler.list[i] /\ scheduler'.payload = scheduler.payload
        /\ scheduler'.list = list
    BY <2>1, <2>2, <2>4, <2>5, <2>6 DEF SchedulerType
  <2> QED BY <2>2, <2>4, <2>7 DEF pc
<1> QED BY <1>1, <1>2

LEMMA NextVideoShape ==
    ASSUME Types, NextVideo
    PROVE  /\ scheduler' \in SchedulerType /\ scheduler'.pc = "next" /\ scheduler'.now = 0
           /\ scheduler'.todo = scheduler.todo /\ scheduler'.list = scheduler.list
BY NumbersIn, NoRowIn DEF Types, SchedulerType, SchedulerPc, NextVideo

\* The scheduler goes to pc with a payload.
LEMMA PcShape ==
    ASSUME Types, NEW pc \in SchedulerPc, NEW m \in Manifest \cup {None},
           \/ scheduler' = [scheduler EXCEPT !.pc = pc, !.payload = m]
           \/ scheduler' = [scheduler EXCEPT !.pc = pc] /\ m = scheduler.payload
    PROVE  /\ scheduler' \in SchedulerType /\ scheduler'.pc = pc /\ scheduler'.payload = m
           /\ scheduler'.todo = scheduler.todo /\ scheduler'.now = scheduler.now
           /\ scheduler'.seen = scheduler.seen /\ scheduler'.list = scheduler.list
BY DEF Types, SchedulerType

LEMMA SchedulerCore ==
    ASSUME Sound, RowsStay, scheduler'.todo \subseteq scheduler.todo,
           \/ scheduler'.now = scheduler.now /\ scheduler.now \in Ids
              /\ scheduler'.pc \notin {"idle", "next"}
           \/ scheduler'.now \in scheduler.todo \ scheduler'.todo
              /\ scheduler'.pc \notin {"idle", "next"}
           \/ scheduler'.now = 0 /\ scheduler'.pc = "next",
           scheduler'.pc = "write" => scheduler'.payload \in Manifest
    PROVE  SchedulerInv'
<1>1. scheduler.todo \subseteq Ids /\ 0 \notin Ids
  BY NumbersIn DEF Sound, Types, SchedulerType
<1>2. scheduler'.now \notin scheduler'.todo
  BY <1>1 DEF Sound, SchedulerInv
<1>3. ASSUME NEW i \in Ids, SchedulerAt(i)' PROVE row'[i].there
  <2>1. SchedulerAt(i)
    BY <1>1, <1>3 DEF SchedulerAt
  <2> QED BY <2>1 DEF Sound, SchedulerInv, RowsStay
<1> QED BY <1>1, <1>2, <1>3 DEF SchedulerInv

LEMMA SchedulerNow ==
    ASSUME Sound, scheduler.pc \notin {"idle", "next"}
    PROVE  /\ scheduler.now \in Ids /\ row[scheduler.now].there
           /\ scheduler.seen \in Row /\ scheduler.payload \in Manifest \cup {None}
BY DEF Sound, Types, SchedulerType, SchedulerInv, SchedulerAt

LEMMA SchedulerStepSound == ASSUME Sound, SchedulerStep PROVE Sound'
<1> DEFINE i == scheduler.now
<1>1. SchedulerFrame /\ (NoMishap \/ Mishap)
  BY DEF SchedulerStep, ListDirty, TakeVideo, SchedulerReads, SchedulerWrites,
     SchedulerSetsPath, UploadManifest, SyncPoster, MarkClean, UploadFails
<1>2. Types /\ RowInv /\ SchedulerInv
  BY DEF Sound
<1>3. row' = row => row' \in [Ids -> Row] /\ RowInv' /\ RowsStay
  BY <1>2, RowsSame
<1>4. ASSUME scheduler.pc \notin {"idle", "next"}, NEW new, Writes(i, new), SameVideo(new, row[i])
      PROVE  row' \in [Ids -> Row] /\ RowInv' /\ RowsStay
  BY <1>4, SchedulerNow, WriteSound
<1>5. /\ file' = file => file' \in [Ids -> Manifest \cup {None}]
      /\ manifest' = manifest => manifest' \in [Ids -> Manifest \cup {None}] /\ ManifestsStay
      /\ poster' = poster => poster' \in [Ids -> Picture \cup {None}]
      /\ disturbed' = disturbed => disturbed' \subseteq Ids
  BY <1>2 DEF Types, ManifestsStay
<1> SUFFICES /\ row' \in [Ids -> Row] /\ RowInv' /\ RowsStay /\ ManifestsStay
             /\ scheduler' \in SchedulerType /\ SchedulerInv'
             /\ file' \in [Ids -> Manifest \cup {None}]
             /\ manifest' \in [Ids -> Manifest \cup {None}]
             /\ poster' \in [Ids -> Picture \cup {None}] /\ disturbed' \subseteq Ids
  BY <1>1, SchedulerSound
<1>11. CASE ListDirty
  <2>1. row' = row /\ file' = file /\ manifest' = manifest /\ poster' = poster
    BY <1>11 DEF ListDirty, remote
  <2>2. PICK due \in SUBSET Ids :
           /\ due = {k \in Ids : row[k].there /\ row[k].dirty /\ row[k].due}
           /\ scheduler.pc = "idle" /\ scheduler' \in SchedulerType /\ scheduler'.pc = "next"
           /\ scheduler'.todo = due /\ scheduler'.now = scheduler.now /\ Join(due)
    BY <1>2, <1>11, ListDirtyShape
  <2>3. scheduler'.now = 0 /\ 0 \notin Ids
    BY <1>2, <2>2, NumbersIn DEF SchedulerInv
  <2>4. SchedulerInv'
    BY <2>1, <2>2, <2>3 DEF SchedulerInv, SchedulerAt
  <2>5. disturbed' \subseteq Ids
    BY <1>2, <2>2, JoinIn
  <2> QED BY <1>3, <1>5, <2>1, <2>2, <2>4, <2>5
<1>12. CASE TakeVideo
  <2>1. /\ row' = row /\ file' = file /\ manifest' = manifest /\ poster' = poster
        /\ disturbed' = disturbed
    BY <1>12 DEF TakeVideo, remote
  <2>2. CASE scheduler' = IdleScheduler
    <3>1. /\ scheduler' \in SchedulerType /\ scheduler'.pc = "idle" /\ scheduler'.now = 0
          /\ scheduler'.todo = {}
      BY <2>2, IdleIn DEF IdleScheduler
    <3>2. SchedulerInv'
      BY <3>1, NumbersIn DEF SchedulerInv, SchedulerAt
    <3> QED BY <1>3, <1>5, <2>1, <3>1, <3>2
  <2>3. CASE scheduler' # IdleScheduler
    <3>1. PICK k \in scheduler.todo :
             /\ scheduler' \in SchedulerType
             /\ scheduler'.pc = IF file[k] = None THEN "read" ELSE "upload"
             /\ scheduler'.todo = scheduler.todo \ {k} /\ scheduler'.now = k
      BY <1>2, <1>12, <2>3, TakeVideoShape
    <3>2. SchedulerInv'
      BY <1>3, <2>1, <3>1, SchedulerCore
    <3> QED BY <1>3, <1>5, <2>1, <3>1, <3>2
  <2> QED BY <2>2, <2>3
<1>13. CASE SchedulerReads
  <2>1. /\ row' = row /\ file' = file /\ manifest' = manifest /\ poster' = poster
        /\ disturbed' = disturbed /\ scheduler.pc = "read"
    BY <1>13 DEF SchedulerReads, remote
  <2>2. i \in Ids
    BY <2>1, SchedulerNow
  <2>3. CASE row[i].segments
    <3>1. BuildPayload(i) \in Manifest
      BY <1>2, <2>2, <2>3, BuildIn
    <3>2. scheduler' = [scheduler EXCEPT !.pc = "write", !.payload = BuildPayload(i)]
      BY <1>13, <2>3 DEF SchedulerReads
    <3>3. "write" \in SchedulerPc /\ BuildPayload(i) \in Manifest \cup {None}
      BY <3>1 DEF SchedulerPc
    <3>4. /\ scheduler' \in SchedulerType /\ scheduler'.pc = "write"
          /\ scheduler'.payload = BuildPayload(i)
          /\ scheduler'.todo = scheduler.todo /\ scheduler'.now = scheduler.now
      BY <1>2, <3>2, <3>3, PcShape
    <3>5. SchedulerInv'
      BY <1>3, <2>1, <2>2, <3>1, <3>4, SchedulerCore
    <3> QED BY <1>3, <1>5, <2>1, <3>4, <3>5
  <2>4. CASE NextVideo
    <3>1. /\ scheduler' \in SchedulerType /\ scheduler'.pc = "next" /\ scheduler'.now = 0
          /\ scheduler'.todo = scheduler.todo
      BY <1>2, <2>4, NextVideoShape
    <3>2. SchedulerInv'
      BY <1>3, <2>1, <3>1, SchedulerCore
    <3> QED BY <1>3, <1>5, <2>1, <3>1, <3>2
  <2> QED BY <1>13, <2>3, <2>4 DEF SchedulerReads
<1>14. CASE SchedulerWrites
  <2>1. /\ row' = row /\ manifest' = manifest /\ poster' = poster
        /\ disturbed' = disturbed /\ scheduler.pc = "write"
        /\ file' = [file EXCEPT ![i] = scheduler.payload]
        /\ scheduler' = [scheduler EXCEPT !.pc = "path", !.payload = None]
    BY <1>14 DEF SchedulerWrites, remote
  <2>2. i \in Ids /\ scheduler.payload \in Manifest \cup {None}
    BY <2>1, SchedulerNow
  <2>3. /\ scheduler' \in SchedulerType /\ scheduler'.pc = "path"
        /\ scheduler'.todo = scheduler.todo /\ scheduler'.now = scheduler.now
    BY <1>2, <2>1, PcShape DEF SchedulerPc
  <2>4. SchedulerInv'
    BY <1>3, <2>1, <2>2, <2>3, SchedulerCore
  <2>5. file' \in [Ids -> Manifest \cup {None}]
    BY <1>2, <2>1, <2>2 DEF Types
  <2> QED BY <1>3, <1>5, <2>1, <2>3, <2>4, <2>5
<1>15. CASE SchedulerSetsPath
  <2>1. /\ file' = file /\ manifest' = manifest /\ poster' = poster
        /\ disturbed' = disturbed /\ scheduler.pc = "path"
        /\ row' = [row EXCEPT ![i].path = i]
        /\ scheduler' = [scheduler EXCEPT !.pc = "upload"]
    BY <1>15 DEF SchedulerSetsPath, remote
  <2>2. i \in Ids /\ scheduler.payload \in Manifest \cup {None}
    BY <2>1, SchedulerNow
  <2>3. /\ scheduler' \in SchedulerType /\ scheduler'.pc = "upload"
        /\ scheduler'.todo = scheduler.todo /\ scheduler'.now = scheduler.now
    BY <1>2, <2>1, <2>2, PcShape DEF SchedulerPc
  <2>4. row' \in [Ids -> Row] /\ RowInv' /\ RowsStay
    BY <1>2, <1>4, <2>1, <2>2, PathShape
  <2>5. SchedulerInv'
    BY <2>2, <2>3, <2>4, SchedulerCore
  <2> QED BY <1>5, <2>1, <2>3, <2>4, <2>5
<1>16. CASE UploadManifest
  <2>1. /\ row' = row /\ file' = file /\ poster' = poster
        /\ disturbed' = disturbed /\ scheduler.pc = "upload" /\ file[i] # None
        /\ manifest' = [manifest EXCEPT ![scheduler.seen.path] = file[i]]
        /\ scheduler' = [scheduler EXCEPT !.pc = "poster"]
    BY <1>16 DEF UploadManifest
  <2>2. i \in Ids /\ scheduler.payload \in Manifest \cup {None}
    BY <2>1, SchedulerNow
  <2>3. /\ scheduler' \in SchedulerType /\ scheduler'.pc = "poster"
        /\ scheduler'.todo = scheduler.todo /\ scheduler'.now = scheduler.now
    BY <1>2, <2>1, <2>2, PcShape DEF SchedulerPc
  <2>4. SchedulerInv'
    BY <1>3, <2>1, <2>2, <2>3, SchedulerCore
  <2>5. manifest' \in [Ids -> Manifest \cup {None}] /\ ManifestsStay
    BY <1>2, <2>1, <2>2 DEF Types, ManifestsStay
  <2> QED BY <1>3, <1>5, <2>1, <2>3, <2>4, <2>5
<1>17. CASE SyncPoster
  <2>1. /\ row' = row /\ file' = file /\ manifest' = manifest
        /\ disturbed' = disturbed /\ scheduler.pc = "poster"
        /\ poster' = [poster EXCEPT ![i] =
                         IF scheduler.seen.custom /\ scheduler.seen.name # 0
                         THEN picture[scheduler.seen.name] ELSE None]
        /\ scheduler' = [scheduler EXCEPT !.pc = "clean"]
    BY <1>17 DEF SyncPoster
  <2>2. i \in Ids /\ scheduler.payload \in Manifest \cup {None} /\ scheduler.seen \in Row
    BY <2>1, SchedulerNow
  <2>3. /\ scheduler' \in SchedulerType /\ scheduler'.pc = "clean"
        /\ scheduler'.todo = scheduler.todo /\ scheduler'.now = scheduler.now
    BY <1>2, <2>1, <2>2, PcShape DEF SchedulerPc
  <2>4. SchedulerInv'
    BY <1>3, <2>1, <2>2, <2>3, SchedulerCore
  <2>5. scheduler.seen.name # 0 => picture[scheduler.seen.name] \in Picture \cup {None}
    BY <1>2, <2>2 DEF Types, Row
  <2>6. poster' \in [Ids -> Picture \cup {None}]
    BY <1>2, <2>1, <2>2, <2>5 DEF Types
  <2> QED BY <1>3, <1>5, <2>1, <2>3, <2>4, <2>6
<1>18. CASE MarkClean
  <2>1. /\ file' = file /\ manifest' = manifest /\ poster' = poster
        /\ disturbed' = disturbed /\ scheduler.pc = "clean" /\ NextVideo
    BY <1>18 DEF MarkClean, remote
  <2>2. i \in Ids
    BY <2>1, SchedulerNow
  <2>3. row' \in [Ids -> Row] /\ RowInv' /\ RowsStay
    BY <1>2, <1>4, <1>18, <2>1, <2>2, MarkCleanShape
  <2>4. /\ scheduler' \in SchedulerType /\ scheduler'.pc = "next" /\ scheduler'.now = 0
        /\ scheduler'.todo = scheduler.todo
    BY <1>2, <2>1, NextVideoShape
  <2>5. SchedulerInv'
    BY <2>3, <2>4, SchedulerCore
  <2> QED BY <1>5, <2>1, <2>3, <2>4, <2>5
<1>19. CASE UploadFails
  <2>1. /\ row' = row /\ file' = file /\ manifest' = manifest /\ poster' = poster
        /\ disturbed' = disturbed /\ NextVideo
    BY <1>19 DEF UploadFails, remote
  <2>2. /\ scheduler' \in SchedulerType /\ scheduler'.pc = "next" /\ scheduler'.now = 0
        /\ scheduler'.todo = scheduler.todo
    BY <1>2, <2>1, NextVideoShape
  <2>3. SchedulerInv'
    BY <1>3, <2>1, <2>2, SchedulerCore
  <2> QED BY <1>3, <1>5, <2>1, <2>2, <2>3
<1> QED BY <1>11, <1>12, <1>13, <1>14, <1>15, <1>16, <1>17, <1>18, <1>19 DEF SchedulerStep

LEMMA SyncSound ==
    ASSUME Sound, SyncFrame, edits' = edits, RowsStay,
           row' \in [Ids -> Row], RowInv', syncer' \in SyncerType, SyncerInv',
           picture' \in [Ids -> Picture \cup {None}], disturbed' \subseteq Ids
    PROVE  Sound'
<1>1. /\ file' = file /\ manifest' = manifest /\ poster' = poster /\ editor' = editor
      /\ scheduler' = scheduler
  BY DEF SyncFrame
<1>2. EditorInv' /\ SchedulerInv'
  BY <1>1, EditorFrame, SchedulerFrames DEF Sound
<1>3. Types'
  BY <1>1 DEF Types, Sound
<1> QED BY <1>2, <1>3 DEF Sound

LEMMA DiscoverShape ==
    ASSUME Types, Discover
    PROVE  /\ syncer' \in SyncerType /\ syncer'.pc = "load" /\ syncer'.dir = 0 /\ syncer'.id = 0
           /\ \A d \in syncer'.todo : manifest[d] # None
<1> DEFINE found == {d \in Ids : manifest[d] # None}
<1>1. syncer' = [IdleSyncer EXCEPT !.pc = "load", !.todo = found]
  BY DEF Discover
<1>2. found \in SUBSET Ids /\ \A d \in found : manifest[d] # None
  OBVIOUS
<1> HIDE DEF found
<1>3. /\ syncer' \in SyncerType /\ syncer'.pc = "load" /\ syncer'.dir = 0 /\ syncer'.id = 0
      /\ syncer'.todo = found
  BY <1>1, <1>2, NumbersIn, NoRowIn DEF IdleSyncer, SyncerType, SyncerPc
<1> QED BY <1>2, <1>3

LEMMA NextManifestShape ==
    ASSUME Types, NextManifest
    PROVE  /\ syncer' \in SyncerType /\ syncer'.pc = "load" /\ syncer'.dir = 0 /\ syncer'.id = 0
           /\ syncer'.todo = syncer.todo /\ ~syncer'.custom
<1>1. syncer.todo \in SUBSET Ids
  BY DEF Types, SyncerType
<1> QED BY <1>1, NumbersIn, NoRowIn DEF NextManifest, IdleSyncer, SyncerType, SyncerPc

\* Loading ends, begins with a directory, or passes one over.
LEMMA LoadManifestShape ==
    ASSUME Types, LoadManifest
    PROVE  /\ syncer.pc = "load" /\ row' = row /\ picture' = picture /\ edits' = edits
           /\ \/ syncer' = IdleSyncer /\ disturbed' = disturbed
              \/ \E d \in syncer.todo :
                    /\ syncer' \in SyncerType /\ syncer'.pc = "lookup" /\ syncer'.dir = d
                    /\ syncer'.todo = syncer.todo \ {d} /\ syncer'.payload = manifest[d]
                    /\ syncer'.id = syncer.id
                    /\ Join({i \in Ids : row[i].path = d})
              \/ \E d \in syncer.todo :
                    /\ syncer' \in SyncerType /\ syncer'.pc = "load"
                    /\ syncer'.dir = syncer.dir /\ syncer'.id = syncer.id
                    /\ syncer'.todo = syncer.todo \ {d} /\ disturbed' = disturbed
<1>1. syncer \in SyncerType /\ syncer.todo \in SUBSET Ids
      /\ \A d \in Ids : manifest[d] \in Manifest \cup {None}
  BY DEF Types, SyncerType
<1>2. syncer.pc = "load" /\ row' = row /\ picture' = picture /\ edits' = edits
  BY DEF LoadManifest, NoMishap, Mishap, bounds
<1>3. CASE syncer' = IdleSyncer /\ disturbed' = disturbed
  BY <1>2, <1>3
<1>4. ASSUME NEW d \in syncer.todo,
             syncer' = [syncer EXCEPT !.pc = "lookup", !.todo = @ \ {d}, !.dir = d,
                                      !.payload = manifest[d]],
             Join({i \in Ids : row[i].path = d})
      PROVE  /\ syncer' \in SyncerType /\ syncer'.pc = "lookup" /\ syncer'.dir = d
             /\ syncer'.todo = syncer.todo \ {d} /\ syncer'.payload = manifest[d]
             /\ syncer'.id = syncer.id
  BY <1>1, <1>4 DEF SyncerType, SyncerPc
<1>5. ASSUME NEW d \in syncer.todo, syncer' = [syncer EXCEPT !.todo = @ \ {d}]
      PROVE  /\ syncer' \in SyncerType /\ syncer'.pc = "load"
             /\ syncer'.dir = syncer.dir /\ syncer'.id = syncer.id
             /\ syncer'.todo = syncer.todo \ {d}
  BY <1>1, <1>2, <1>5 DEF SyncerType, SyncerPc
<1> QED BY <1>2, <1>3, <1>4, <1>5 DEF LoadManifest

\* The row that has the directory, or a new one.
LEMMA LookupVideoShape ==
    ASSUME Types, LookupVideo
    PROVE  /\ syncer.pc = "lookup" /\ syncer' \in SyncerType
           /\ syncer'.todo = syncer.todo /\ syncer'.dir = syncer.dir
           /\ syncer'.payload = syncer.payload
           /\ \/ /\ \A i \in Ids : row[i].there => row[i].path # syncer.dir
                 /\ syncer'.pc = "create" /\ syncer'.id = syncer.id
              \/ /\ syncer'.pc = "update" /\ syncer'.id \in Ids
                 /\ row[syncer'.id].there /\ row[syncer'.id].path = syncer.dir
                 /\ syncer'.custom = row[syncer'.id].custom
<1> DEFINE found == {i \in Ids : row[i].there /\ row[i].path = syncer.dir}
<1>1. syncer \in SyncerType /\ row \in [Ids -> Row] /\ syncer.pc = "lookup"
  BY DEF Types, LookupVideo
<1>2. CASE found = {}
  <2>1. syncer' = [syncer EXCEPT !.pc = "create"]
    BY <1>2 DEF LookupVideo
  <2>2. \A i \in Ids : row[i].there => row[i].path # syncer.dir
    BY <1>2
  <2> QED BY <1>1, <2>1, <2>2 DEF SyncerType, SyncerPc
<1>3. CASE found # {}
  <2> DEFINE i == Min(found)
  <2>1. syncer' = [syncer EXCEPT !.pc = "update", !.id = i, !.custom = row[i].custom]
    BY <1>3 DEF LookupVideo
  <2>2. i \in found
    BY <1>3, MinIn
  <2>3. i \in Ids /\ row[i].there /\ row[i].path = syncer.dir
    BY <2>2
  <2> HIDE DEF i, found
  <2>4. row[i].custom \in BOOLEAN
    BY <1>1, <2>3 DEF Row
  <2>5. /\ syncer' \in SyncerType /\ syncer'.pc = "update" /\ syncer'.id = i
        /\ syncer'.custom = row[i].custom
        /\ syncer'.todo = syncer.todo /\ syncer'.dir = syncer.dir
        /\ syncer'.payload = syncer.payload
    BY <1>1, <2>1, <2>3, <2>4 DEF SyncerType, SyncerPc
  <2> QED BY <1>1, <2>3, <2>5
<1> QED BY <1>2, <1>3

\* The synchronisation goes to pc with the same video.
LEMMA SyncPcShape ==
    ASSUME Types, NEW pc \in SyncerPc, NEW i \in Ids \cup {0}, NEW r \in Row,
           \/ syncer' = [syncer EXCEPT !.pc = pc] /\ i = syncer.id /\ r = syncer.seen
           \/ syncer' = [syncer EXCEPT !.pc = pc, !.id = i] /\ r = syncer.seen
           \/ syncer' = [syncer EXCEPT !.pc = pc, !.seen = r] /\ i = syncer.id
    PROVE  /\ syncer' \in SyncerType /\ syncer'.pc = pc /\ syncer'.id = i /\ syncer'.seen = r
           /\ syncer'.todo = syncer.todo /\ syncer'.dir = syncer.dir
           /\ syncer'.payload = syncer.payload /\ syncer'.custom = syncer.custom
BY DEF Types, SyncerType

LEMMA SyncerCore ==
    ASSUME Sound, syncer' \in SyncerType, manifest' = manifest, RowsStay,
           syncer'.todo \subseteq syncer.todo,
           \/ syncer'.pc = "load" /\ syncer'.dir = 0 /\ syncer'.id = 0
           \/ /\ syncer'.pc \in {"lookup", "create"} /\ syncer'.id = 0
              /\ syncer'.dir \in Ids /\ syncer'.payload \in Manifest
           \/ /\ syncer'.pc \notin {"idle", "load", "lookup", "create"}
              /\ syncer'.dir \in Ids /\ syncer'.payload \in Manifest
              /\ syncer'.id \in Ids /\ row'[syncer'.id].there
    PROVE  SyncerInv'
BY DEF Sound, SyncerInv

LEMMA SyncerNow ==
    ASSUME Sound, syncer.pc \notin {"idle", "load"}
    PROVE  /\ syncer.dir \in Ids /\ syncer.payload \in Manifest /\ syncer.seen \in Row
           /\ syncer.custom \in BOOLEAN
           /\ syncer.pc \in {"lookup", "create"} => syncer.id = 0
           /\ syncer.pc \notin {"lookup", "create"} =>
                 syncer.id \in Ids /\ row[syncer.id].there /\ RowOk(row[syncer.id])
BY DEF Sound, Types, SyncerType, SyncerInv, RowInv

LEMMA RestorePictureIn ==
    ASSUME Types, NEW m \in Manifest, m.name # 0, poster[m.home] # None
    PROVE  /\ [n |-> poster[m.home].n, coded |-> ~poster[m.home].coded] \in Picture
           /\ m.name \in Ids
<1>1. m.home \in Ids /\ m.name \in Ids
  BY DEF Manifest
<1>2. poster[m.home] \in Picture
  BY <1>1 DEF Types
<1> QED BY <1>1, <1>2 DEF Picture

LEMMA SyncStepSound == ASSUME Sound, Discover \/ SyncStep PROVE Sound'
<1> DEFINE i == syncer.id
           m == syncer.payload
<1>1. SyncFrame /\ edits' = edits
  BY DEF SyncStep, Discover, LoadManifest, LookupVideo, CreateVideo, UpdateVideo, DeleteSegments,
     InsertSegments, RestorePoster, PointToRestored, FinalUpdate, NoMishap, Mishap, bounds
<1>2. Types /\ RowInv /\ SyncerInv /\ manifest' = manifest
  BY <1>1 DEF Sound, SyncFrame
<1>3. row' = row => row' \in [Ids -> Row] /\ RowInv' /\ RowsStay
  BY <1>2, RowsSame
<1>4. /\ picture' = picture => picture' \in [Ids -> Picture \cup {None}]
      /\ disturbed' = disturbed => disturbed' \subseteq Ids
  BY <1>2 DEF Types
<1> SUFFICES /\ row' \in [Ids -> Row] /\ RowInv' /\ RowsStay
             /\ syncer' \in SyncerType /\ SyncerInv'
             /\ picture' \in [Ids -> Picture \cup {None}] /\ disturbed' \subseteq Ids
  BY <1>1, SyncSound
<1>10. CASE Discover
  <2>1. row' = row /\ picture' = picture /\ disturbed' = disturbed
    BY <1>10 DEF Discover
  <2>2. /\ syncer' \in SyncerType /\ syncer'.pc = "load" /\ syncer'.dir = 0 /\ syncer'.id = 0
        /\ \A d \in syncer'.todo : manifest[d] # None
    BY <1>2, <1>10, DiscoverShape
  <2>3. SyncerInv'
    BY <1>2, <2>2 DEF SyncerInv
  <2> QED BY <1>3, <1>4, <2>1, <2>2, <2>3
<1>11. CASE LoadManifest
  <2>1. syncer.pc = "load" /\ row' = row /\ picture' = picture
    BY <1>2, <1>11, LoadManifestShape
  <2>2. syncer.dir = 0 /\ syncer.id = 0
    BY <1>2, <2>1 DEF SyncerInv
  <2>3. CASE syncer' = IdleSyncer /\ disturbed' = disturbed
    <3>1. /\ syncer' \in SyncerType /\ syncer'.pc = "idle" /\ syncer'.dir = 0 /\ syncer'.id = 0
          /\ syncer'.todo = {}
      BY <2>3, IdleIn DEF IdleSyncer
    <3>2. SyncerInv'
      BY <3>1 DEF SyncerInv
    <3> QED BY <1>3, <1>4, <2>1, <2>3, <3>1, <3>2
  <2>4. ASSUME NEW d \in syncer.todo,
               /\ syncer' \in SyncerType /\ syncer'.pc = "lookup" /\ syncer'.dir = d
               /\ syncer'.todo = syncer.todo \ {d} /\ syncer'.payload = manifest[d]
               /\ syncer'.id = syncer.id,
               Join({k \in Ids : row[k].path = d})
        PROVE  SyncerInv' /\ disturbed' \subseteq Ids
    <3>1. d \in Ids /\ manifest[d] \in Manifest
      BY <1>2 DEF Types, SyncerType, SyncerInv
    <3>2. SyncerInv'
      BY <1>2, <1>3, <2>1, <2>2, <2>4, <3>1, SyncerCore
    <3> QED BY <1>2, <2>4, <3>2, JoinIn
  <2>5. ASSUME NEW d \in syncer.todo,
               /\ syncer' \in SyncerType /\ syncer'.pc = "load"
               /\ syncer'.dir = syncer.dir /\ syncer'.id = syncer.id
               /\ syncer'.todo = syncer.todo \ {d}
        PROVE  SyncerInv'
    BY <1>2, <1>3, <2>1, <2>2, <2>5, SyncerCore
  <2>6. \/ syncer' = IdleSyncer /\ disturbed' = disturbed
        \/ \E d \in syncer.todo :
              /\ syncer' \in SyncerType /\ syncer'.pc = "lookup" /\ syncer'.dir = d
              /\ syncer'.todo = syncer.todo \ {d} /\ syncer'.payload = manifest[d]
              /\ syncer'.id = syncer.id
              /\ Join({k \in Ids : row[k].path = d})
        \/ \E d \in syncer.todo :
              /\ syncer' \in SyncerType /\ syncer'.pc = "load"
              /\ syncer'.dir = syncer.dir /\ syncer'.id = syncer.id
              /\ syncer'.todo = syncer.todo \ {d} /\ disturbed' = disturbed
    BY <1>2, <1>11, LoadManifestShape
  <2> QED BY <1>3, <1>4, <2>1, <2>3, <2>4, <2>5, <2>6
<1>12. CASE LookupVideo
  <2>1. row' = row /\ picture' = picture /\ disturbed' = disturbed
    BY <1>12 DEF LookupVideo
  <2>2. /\ syncer.pc = "lookup" /\ syncer' \in SyncerType
        /\ syncer'.todo = syncer.todo /\ syncer'.dir = syncer.dir
        /\ syncer'.payload = syncer.payload
        /\ \/ syncer'.pc = "create" /\ syncer'.id = syncer.id
           \/ /\ syncer'.pc = "update" /\ syncer'.id \in Ids
              /\ row[syncer'.id].there
    BY <1>2, <1>12, LookupVideoShape
  <2>3. syncer.dir \in Ids /\ syncer.payload \in Manifest /\ syncer.id = 0
    BY <2>2, SyncerNow
  <2>4. SyncerInv'
    BY <1>2, <1>3, <2>1, <2>2, <2>3, SyncerCore
  <2> QED BY <1>3, <1>4, <2>1, <2>2, <2>4
<1>13. CASE CreateVideo
  <2>1. picture' = picture /\ disturbed' = disturbed /\ syncer.pc = "create"
    BY <1>13 DEF CreateVideo
  <2>2. syncer.dir \in Ids /\ m \in Manifest /\ syncer.seen \in Row
    BY <2>1, SyncerNow
  <2>3. PICK k \in Ids, new \in Row :
           /\ Writes(k, new) /\ new.there /\ new.video = m.video /\ ~new.segments
           /\ syncer' = [syncer EXCEPT !.pc = "insert", !.id = k]
    BY <1>2, <1>13, <2>2, CreateVideoShape
  <2>4. RowOk(new)
    BY <2>2, <2>3 DEF RowOk, Manifest
  <2>5. row' \in [Ids -> Row] /\ RowInv' /\ RowsStay /\ row'[k] = new
    BY <1>2, <2>3, <2>4, RowCore DEF Writes
  <2>6. /\ syncer' \in SyncerType /\ syncer'.pc = "insert" /\ syncer'.id = k
        /\ syncer'.todo = syncer.todo /\ syncer'.dir = syncer.dir
        /\ syncer'.payload = syncer.payload
    BY <1>2, <2>2, <2>3, SyncPcShape DEF SyncerPc
  <2>7. SyncerInv'
    BY <1>2, <2>2, <2>3, <2>5, <2>6, SyncerCore
  <2> QED BY <1>4, <2>1, <2>5, <2>6, <2>7
<1>14. ASSUME NEW pc \in SyncerPc \ {"idle", "load", "lookup", "create"},
              syncer.pc \notin {"idle", "load", "lookup", "create"}, RowsStay,
              \/ syncer' = [syncer EXCEPT !.pc = pc]
              \/ \E r \in Row : syncer' = [syncer EXCEPT !.pc = pc, !.seen = r]
       PROVE  syncer' \in SyncerType /\ SyncerInv'
  <2>1. /\ syncer.dir \in Ids /\ m \in Manifest /\ syncer.seen \in Row
        /\ i \in Ids /\ row[i].there
    BY <1>14, SyncerNow
  <2>2. /\ syncer' \in SyncerType /\ syncer'.pc = pc /\ syncer'.id = i
        /\ syncer'.todo = syncer.todo /\ syncer'.dir = syncer.dir
        /\ syncer'.payload = syncer.payload
    BY <1>2, <1>14, <2>1, SyncPcShape
  <2>3. row'[i].there
    BY <1>14, <2>1 DEF RowsStay
  <2>4. pc \notin {"idle", "load", "lookup", "create"}
    BY <1>14
  <2> HIDE DEF m
  <2>5. syncer'.payload \in Manifest
    BY <2>1, <2>2 DEF m
  <2> QED BY <1>2, <1>14, <2>1, <2>2, <2>3, <2>4, <2>5, SyncerCore
<1>15. CASE UpdateVideo
  <2>1. /\ picture' = picture /\ disturbed' = disturbed /\ syncer.pc = "update"
        /\ syncer' = [syncer EXCEPT !.pc = "delete"]
    BY <1>15 DEF UpdateVideo
  <2>2. i \in Ids /\ m \in Manifest /\ row[i].there /\ RowOk(row[i])
    BY <2>1, SyncerNow
  <2>3. PICK new : /\ Writes(i, new) /\ new.there = row[i].there
                   /\ new.segments = row[i].segments /\ new.video = m.video
    BY <1>2, <1>15, <2>2, UpdateVideoShape
  <2>4. RowOk(new) /\ new.there
    BY <2>2, <2>3 DEF RowOk, Manifest
  <2>5. row' \in [Ids -> Row] /\ RowInv' /\ RowsStay
    BY <1>2, <2>2, <2>3, <2>4, RowCore DEF Writes
  <2> QED BY <1>4, <1>14, <2>1, <2>5 DEF SyncerPc
<1>16. CASE DeleteSegments \/ InsertSegments
  <2>1. /\ picture' = picture /\ disturbed' = disturbed
        /\ syncer.pc \in {"delete", "insert"}
        /\ \/ syncer' = [syncer EXCEPT !.pc = "insert"]
           \/ syncer' = [syncer EXCEPT !.pc = "restore"]
        /\ \E b \in BOOLEAN : row' = [row EXCEPT ![i].segments = b]
    BY <1>16 DEF DeleteSegments, InsertSegments
  <2>2. i \in Ids /\ row[i].there /\ RowOk(row[i])
    BY <2>1, SyncerNow
  <2>3. PICK new : /\ Writes(i, new) /\ new.there = row[i].there /\ new.video = row[i].video
    BY <1>2, <2>1, <2>2, SegmentsShape
  <2>4. RowOk(new) /\ new.there
    BY <2>2, <2>3 DEF RowOk
  <2>5. row' \in [Ids -> Row] /\ RowInv' /\ RowsStay
    BY <1>2, <2>2, <2>3, <2>4, RowCore DEF Writes
  <2> QED BY <1>4, <1>14, <2>1, <2>5 DEF SyncerPc
<1>17. CASE RestorePoster
  <2>1. row' = row /\ syncer.pc = "restore"
    BY <1>17 DEF RestorePoster
  <2>2. i \in Ids /\ m \in Manifest
    BY <2>1, SyncerNow
  <2>3. CASE /\ m.name # 0 => poster[m.home] # None
             /\ picture' = IF m.name = 0 THEN picture
                           ELSE [picture EXCEPT ![m.name] =
                                    [n |-> poster[m.home].n, coded |-> ~poster[m.home].coded]]
             /\ syncer' = [syncer EXCEPT !.pc = "point"] /\ disturbed' = disturbed
    <3>1. picture' \in [Ids -> Picture \cup {None}]
      <4>1. CASE m.name = 0
        BY <1>4, <2>3, <4>1
      <4>2. CASE m.name # 0
        <5>1. /\ [n |-> poster[m.home].n, coded |-> ~poster[m.home].coded] \in Picture
              /\ m.name \in Ids
          BY <1>2, <2>2, <2>3, <4>2, RestorePictureIn
        <5> QED BY <1>2, <2>3, <4>2, <5>1 DEF Types
      <4> QED BY <4>1, <4>2
    <3>2. row' \in [Ids -> Row] /\ RowInv' /\ RowsStay
      BY <1>3, <2>1
    <3>3. syncer' \in SyncerType /\ SyncerInv'
      BY <1>14, <2>1, <2>3, <3>2 DEF SyncerPc
    <3> QED BY <1>4, <2>3, <3>1, <3>2, <3>3
  <2>4. CASE NextManifest /\ BrokenOff({i}) /\ picture' = picture
    <3>1. /\ syncer' \in SyncerType /\ syncer'.pc = "load" /\ syncer'.dir = 0
          /\ syncer'.id = 0 /\ syncer'.todo = syncer.todo
      BY <1>2, <2>4, NextManifestShape
    <3>2. SyncerInv'
      BY <1>2, <1>3, <2>1, <3>1, SyncerCore
    <3>3. disturbed' \subseteq Ids
      BY <1>2, <2>2, <2>4, JoinIn
    <3> QED BY <1>3, <1>4, <2>1, <2>4, <3>1, <3>2, <3>3
  <2> QED BY <1>17, <2>3, <2>4 DEF RestorePoster
<1>18. CASE PointToRestored
  <2>1. picture' = picture /\ disturbed' = disturbed /\ syncer.pc = "point"
    BY <1>18 DEF PointToRestored
  <2>2. i \in Ids /\ m \in Manifest
    BY <2>1, SyncerNow
  <2>3. PICK new : /\ Writes(i, new) /\ Restored(new, row[i], m)
                   /\ syncer' = [syncer EXCEPT !.pc = "final", !.seen = new]
    BY <1>2, <1>18, <2>2, PointToRestoredShape
  <2>4. row' \in [Ids -> Row] /\ RowInv' /\ RowsStay
    BY <2>2, <2>3, WriteSound DEF Restored
  <2>5. \E r \in Row : syncer' = [syncer EXCEPT !.pc = "final", !.seen = r]
    BY <2>3 DEF Writes
  <2> QED BY <1>4, <1>14, <2>1, <2>4, <2>5 DEF SyncerPc
<1>19. CASE FinalUpdate
  <2>1. picture' = picture /\ disturbed' = disturbed /\ syncer.pc = "final" /\ NextManifest
    BY <1>19 DEF FinalUpdate
  <2>2. i \in Ids /\ syncer.seen \in Row /\ syncer.dir \in Ids
    BY <2>1, SyncerNow
  <2>3. PICK new : Writes(i, new) /\ SameVideo(new, row[i])
    BY <1>2, <1>19, <2>2, FinalUpdateShape
  <2>4. row' \in [Ids -> Row] /\ RowInv' /\ RowsStay
    BY <2>2, <2>3, WriteSound
  <2>5. /\ syncer' \in SyncerType /\ syncer'.pc = "load" /\ syncer'.dir = 0
        /\ syncer'.id = 0 /\ syncer'.todo = syncer.todo
    BY <1>2, <2>1, NextManifestShape
  <2>6. SyncerInv'
    BY <1>2, <2>4, <2>5, SyncerCore
  <2> QED BY <1>4, <2>1, <2>4, <2>5, <2>6
<1> QED BY <1>10, <1>11, <1>12, <1>13, <1>15, <1>16, <1>17, <1>18, <1>19 DEF SyncStep

LEMMA MoveSound == ASSUME Sound, MoveCacheRoot PROVE Sound'
<1>1. /\ UNCHANGED <<row, picture, manifest, poster, editor, scheduler, syncer, disturbed, edits>>
      /\ file' = [i \in Ids |-> None]
  BY DEF MoveCacheRoot, Mishap
<1>2. Types'
  BY <1>1 DEF Sound, Types
<1>3. RowInv' /\ RowsStay /\ ManifestsStay
  BY <1>1 DEF Sound, RowInv, RowsStay, ManifestsStay
<1>4. EditorInv' /\ SchedulerInv' /\ SyncerInv'
  BY <1>1, <1>3, EditorFrame, SchedulerFrames, SyncerFrame DEF Sound
<1> QED BY <1>2, <1>3, <1>4 DEF Sound

\* A process that has just been started works on nothing.
LEMMA IdleSound ==
    ASSUME Types', RowInv', editor' = [e \in Editors |-> IdleEditor], scheduler' = IdleScheduler,
           syncer' = IdleSyncer
    PROVE  Sound'
<1>1. EditorInv'
  BY DEF EditorInv, EditorOk, IdleEditor
<1>2. SchedulerInv'
  BY NumbersIn DEF SchedulerInv, SchedulerAt, IdleScheduler
<1>3. SyncerInv'
  BY DEF SyncerInv, IdleSyncer
<1> QED BY <1>1, <1>2, <1>3 DEF Sound

LEMMA RestartSound == ASSUME Sound, Restart PROVE Sound'
<1>1. /\ UNCHANGED <<row, file, picture, manifest, poster, edits>>
      /\ editor' = [e \in Editors |-> IdleEditor] /\ scheduler' = IdleScheduler
      /\ syncer' = IdleSyncer
      /\ BrokenOff({i \in Ids : EditorAt(i) \/ SyncerAt(i)})
  BY DEF Restart, Mishap, local, remote
<1>2. disturbed' \subseteq Ids
  BY <1>1, JoinIn DEF Sound
<1>3. Types'
  BY <1>1, <1>2, IdleIn DEF Sound, Types
<1>4. RowInv'
  BY <1>1 DEF Sound, RowInv
<1> QED BY <1>1, <1>3, <1>4, IdleSound

LEMMA KnownRow ==
    ASSUME NEW i \in Ids
    PROVE  LET r == [NoRow EXCEPT !.there = TRUE, !.video = i, !.name = i, !.path = i,
                                  !.segments = TRUE]
           IN  /\ r \in Row /\ r.there /\ r.video = i /\ r.name = i /\ r.path = i /\ r.segments
               /\ ~r.custom /\ ~r.dirty /\ r.title = 0 /\ r.tags = 0
BY NumbersIn DEF NoRow, Row

\* The state before the first step, field by field.
LEMMA InitShape ==
    ASSUME Init
    PROVE  /\ Types /\ manifest \in [Ids -> Manifest \cup {None}]
           /\ \A i \in Ids : i \in Known =>
                 /\ row[i].there /\ row[i].video = i /\ row[i].name = i /\ row[i].path = i
                 /\ row[i].segments /\ ~row[i].custom /\ ~row[i].dirty
                 /\ row[i].title = 0 /\ row[i].tags = 0 /\ file[i] = manifest[i]
           /\ \A i \in Ids : i \notin Known => row[i] = NoRow /\ file[i] = None
           /\ \A i \in Ids : i \in Stored =>
                 manifest[i] = [video |-> i, title |-> 0, tags |-> 0, name |-> 0, home |-> i]
           /\ \A i \in Ids : i \notin Stored => manifest[i] = None
<1>1. \A i \in Ids : [video |-> i, title |-> 0, tags |-> 0, name |-> 0, home |-> i] \in Manifest
  BY NumbersIn DEF Manifest
<1>2. manifest = [d \in Ids |-> IF d \in Stored
                    THEN [video |-> d, title |-> 0, tags |-> 0, name |-> 0, home |-> d] ELSE None]
  BY DEF Init
<1>3. /\ manifest \in [Ids -> Manifest \cup {None}]
      /\ \A i \in Ids : i \in Stored =>
            manifest[i] = [video |-> i, title |-> 0, tags |-> 0, name |-> 0, home |-> i]
      /\ \A i \in Ids : i \notin Stored => manifest[i] = None
  BY <1>1, <1>2
<1>4. /\ file \in [Ids -> Manifest \cup {None}]
      /\ \A i \in Ids : (i \in Known => file[i] = manifest[i]) /\ (i \notin Known => file[i] = None)
  BY <1>3 DEF Init
<1>5. /\ row \in [Ids -> Row]
      /\ \A i \in Ids : i \in Known =>
                 /\ row[i].there /\ row[i].video = i /\ row[i].name = i /\ row[i].path = i
                 /\ row[i].segments /\ ~row[i].custom /\ ~row[i].dirty
                 /\ row[i].title = 0 /\ row[i].tags = 0
      /\ \A i \in Ids : i \notin Known => row[i] = NoRow
  <2> DEFINE r(i) == [NoRow EXCEPT !.there = TRUE, !.video = i, !.name = i, !.path = i,
                                   !.segments = TRUE]
  <2>1. row = [i \in Ids |-> IF i \in Known THEN r(i) ELSE NoRow]
    BY DEF Init
  <2>2. \A i \in Ids :
           /\ r(i) \in Row /\ r(i).there /\ r(i).video = i /\ r(i).name = i /\ r(i).path = i
           /\ r(i).segments /\ ~r(i).custom /\ ~r(i).dirty /\ r(i).title = 0 /\ r(i).tags = 0
    BY KnownRow
  <2> HIDE DEF r
  <2> QED BY <2>1, <2>2, NoRowIn
<1>6. picture \in [Ids -> Picture \cup {None}]
  <2>1. [n |-> 0, coded |-> TRUE] \in Picture
    BY NumbersIn DEF Picture
  <2> QED BY <2>1 DEF Init
<1>7. poster \in [Ids -> Picture \cup {None}]
  BY DEF Init
<1>8. /\ editor \in [Editors -> Editor] /\ scheduler \in SchedulerType /\ syncer \in SyncerType
      /\ edits \in Edits /\ disturbed \subseteq Ids
  BY IdleIn, NumbersIn DEF Init
<1> QED BY <1>3, <1>4, <1>5, <1>6, <1>7, <1>8 DEF Types

LEMMA InitSound == Init => Sound
<1> SUFFICES ASSUME Init PROVE Sound
  OBVIOUS
<1>1. RowInv
  <2> SUFFICES ASSUME NEW i \in Ids PROVE RowOk(row[i])
    BY DEF RowInv
  <2> QED BY InitShape, NoRowIn DEF RowOk
<1>2. EditorInv
  BY DEF Init, EditorInv, EditorOk, IdleEditor
<1>3. SchedulerInv
  BY NumbersIn DEF Init, SchedulerInv, SchedulerAt, IdleScheduler
<1>4. SyncerInv
  BY DEF Init, SyncerInv, IdleSyncer
<1> QED BY <1>1, <1>2, <1>3, <1>4, InitShape DEF Sound

LEMMA StepSound == Sound /\ [Next]_vars => Sound'
<1> SUFFICES ASSUME Sound, [Next]_vars PROVE Sound'
  OBVIOUS
<1>1. CASE \E e \in Editors, i \in Ids, kind \in EditKinds : ReceiveEdit(e, i, kind)
  BY <1>1, ReceiveSound
<1>2. CASE \E e \in Editors : EditStep(e)
  BY <1>2, EditStepSound
<1>3. CASE \E i \in Ids : FallDue(i)
  BY <1>3, FallDueSound
<1>4. CASE SchedulerStep
  BY <1>4, SchedulerStepSound
<1>5. CASE Discover \/ SyncStep
  BY <1>5, SyncStepSound
<1>6. CASE MoveCacheRoot
  BY <1>6, MoveSound
<1>7. CASE Restart
  BY <1>7, RestartSound
<1>8. CASE UNCHANGED vars
  BY <1>8 DEF vars, Sound, Types, RowInv, EditorInv, EditorOk, SchedulerInv, SchedulerAt, SyncerInv
<1> QED BY <1>1, <1>2, <1>3, <1>4, <1>5, <1>6, <1>7, <1>8 DEF Next

\* Editors, scheduler and synchronisation work on rows that are there, the manifests
\* they are about to write are manifests, and rows and manifests are never deleted.
THEOREM LibraryAlwaysSound == Spec => []Sound
BY InitSound, StepSound, PTL DEF Spec

\* Every variable has the type its code has (TypeOK), for all constants.
THEOREM LibraryTypeCorrect == Spec => []TypeOK
<1>1. Sound => TypeOK
  BY DEF Sound, Types, TypeOK, SchedulerType, SyncerType
<1> QED BY <1>1, LibraryAlwaysSound, PTL

-----------------------------------------------------------------------------
(* While ids come back: at most one stored video has no row, and the id    *)
(* that it gets is the one that its directory is named after.              *)

IdReturns == \A d \in Stored \ Known : d = Max({0} \cup Known) + 1

\* Then a row, its manifest, its picture and its directory have the same number.
Names(m, i) == m.video = i /\ m.home = i /\ m.name \in {0, i}
Owned(r, i) == r.path = i /\ r.name \in {0, i} /\ (r.custom => r.name = i)
OwnRow(i) ==
    /\ row[i].there => i \in Stored /\ row[i].video = i /\ Owned(row[i], i)
    /\ ~row[i].there => row[i].path = 0 /\ i \notin Known
OwnRows == \A i \in Ids : OwnRow(i)
OwnFiles == \A i \in Ids :
    /\ manifest[i] # None => i \in Stored /\ Names(manifest[i], i)
    /\ file[i] # None => row[i].there /\ Names(file[i], i)
OwnEditor ==
    \A e \in Editors : editor[e].pc = "write" => Names(editor[e].payload, editor[e].id)
OwnScheduler ==
    /\ scheduler.pc = "write" => Names(scheduler.payload, scheduler.now)
    /\ \A i \in scheduler.todo : Owned(scheduler.list[i], i)
    /\ scheduler.now # 0 => Owned(scheduler.seen, scheduler.now)
OwnSyncer ==
    /\ syncer.dir # 0 => syncer.dir \in Stored /\ Names(syncer.payload, syncer.dir)
    /\ syncer.pc = "create" => ~row[syncer.dir].there
    /\ syncer.id # 0 => syncer.id = syncer.dir
    /\ syncer.pc = "update" /\ syncer.custom => row[syncer.id].name = syncer.id
    /\ syncer.pc = "final" =>
          /\ syncer.seen.path = syncer.dir
          /\ syncer.seen.custom => row[syncer.id].name = syncer.id
Own == OwnRows /\ OwnFiles /\ OwnEditor /\ OwnScheduler /\ OwnSyncer

\* No row is inserted, and a row keeps the name of its own picture.
Steady == \A i \in Ids :
    /\ row'[i].there <=> row[i].there
    /\ row[i].there /\ row[i].name = i => row'[i].name = i

LEMMA OwnInsert ==
    ASSUME Types, OwnRows, NEW i \in Ids, NEW new, Writes(i, new), i \in Stored,
           new.there, new.video = i, Owned(new, i),
           row[i].there /\ row[i].name = i => new.name = i
    PROVE  OwnRows' /\ (row[i].there => Steady)
<1>1. row'[i] = new /\ \A k \in Ids \ {i} : row'[k] = row[k]
  BY DEF Types, Writes
<1>2. \A k \in Ids \ {i} : OwnRow(k)
  BY DEF OwnRows
<1>3. OwnRow(i)'
  BY <1>1 DEF OwnRow
<1>4. ASSUME NEW k \in Ids \ {i} PROVE OwnRow(k)'
  BY <1>1, <1>2, <1>4 DEF OwnRow, Owned
<1>5. row[i].there => Steady
  BY <1>1 DEF Steady
<1> QED BY <1>3, <1>4, <1>5 DEF OwnRows

LEMMA OwnWrite ==
    ASSUME Sound, OwnRows, NEW i \in Ids, NEW new, Writes(i, new), row[i].there,
           SameVideo(new, row[i]), Owned(new, i), row[i].name = i => new.name = i
    PROVE  OwnRows' /\ Steady
<1>1. /\ row'[i] = new /\ \A k \in Ids \ {i} : row'[k] = row[k]
      /\ new.there /\ new.video = row[i].video
  BY WriteSound DEF SameVideo
<1>2. OwnRow(i) /\ \A k \in Ids \ {i} : OwnRow(k)
  BY DEF OwnRows
<1>3. OwnRow(i)'
  BY <1>1, <1>2 DEF OwnRow
<1>4. ASSUME NEW k \in Ids \ {i} PROVE OwnRow(k)'
  BY <1>1, <1>2, <1>4 DEF OwnRow, Owned
<1>5. Steady
  BY <1>1 DEF Steady
<1> QED BY <1>3, <1>4, <1>5 DEF OwnRows

LEMMA OwnSame == ASSUME OwnRows, row' = row PROVE OwnRows' /\ Steady
BY DEF OwnRows, OwnRow, Owned, Steady

LEMMA OwnFilesSame ==
    ASSUME Steady, OwnFiles, manifest' = manifest, file' = file PROVE OwnFiles'
BY DEF Steady, OwnFiles, Names

LEMMA OwnFileWrite ==
    ASSUME Types, Steady, OwnFiles, manifest' = manifest, NEW i \in Ids, NEW m \in Manifest,
           file' = [file EXCEPT ![i] = m], row[i].there, Names(m, i)
    PROVE  OwnFiles'
<1>1. file'[i] = m /\ \A k \in Ids \ {i} : file'[k] = file[k]
  BY DEF Types
<1> QED BY <1>1 DEF Steady, OwnFiles, Names

LEMMA OwnEditorSame == ASSUME OwnEditor, editor' = editor PROVE OwnEditor'
BY DEF OwnEditor, Names

LEMMA OwnEditorCore ==
    ASSUME Types, OwnEditor, NEW e \in Editors, NEW new, editor' = [editor EXCEPT ![e] = new],
           new.pc = "write" => Names(new.payload, new.id)
    PROVE  OwnEditor'
<1>1. editor'[e] = new /\ \A f \in Editors \ {e} : editor'[f] = editor[f]
  BY DEF Types
<1> QED BY <1>1 DEF OwnEditor, Names

LEMMA OwnSchedulerSame == ASSUME OwnScheduler, scheduler' = scheduler PROVE OwnScheduler'
BY DEF OwnScheduler, Names, Owned

LEMMA OwnSyncerSame ==
    ASSUME Sound, Steady, OwnSyncer, syncer' = syncer PROVE OwnSyncer'
<1>1. syncer.dir \in Ids \cup {0} /\ syncer.id \in Ids \cup {0}
  BY DEF Sound, Types, SyncerType
<1>2. syncer.id # 0 => row[syncer.id].there
  BY DEF Sound, SyncerInv
<1>3. syncer.pc = "create" => syncer.dir \in Ids
  BY DEF Sound, SyncerInv
<1>4. syncer.pc \in {"update", "final"} => syncer.id \in Ids /\ row[syncer.id].there
  BY DEF Sound, SyncerInv
<1> QED BY <1>1, <1>2, <1>3, <1>4 DEF Steady, OwnSyncer, Names

LEMMA BuildNames ==
    ASSUME NEW i \in Ids, OwnRow(i), row[i].there PROVE Names(BuildPayload(i), i)
BY DEF OwnRow, Owned, Names, BuildPayload

\* No editor at pc "write" but the one that has read.
LEMMA OwnGoto ==
    ASSUME Types, OwnEditor, NEW e \in Editors,
           EndEdit(e) \/ \E pc \in EditorPc \ {"write"} : Goto(e, pc)
    PROVE  OwnEditor'
<1>1. CASE EndEdit(e)
  <2>1. editor' = [editor EXCEPT ![e] = IdleEditor]
    BY <1>1 DEF EndEdit
  <2> QED BY <2>1, IdleIn, OwnEditorCore
<1>2. ASSUME NEW pc \in EditorPc \ {"write"}, Goto(e, pc) PROVE OwnEditor'
  <2>1. pc \in EditorPc /\ pc # "write"
    OBVIOUS
  <2>2. PICK new \in Editor : /\ editor' = [editor EXCEPT ![e] = new] /\ new.pc = pc
    BY <1>2, <2>1, GotoShape
  <2> QED BY <2>1, <2>2, OwnEditorCore
<1> QED BY <1>1, <1>2

LEMMA EditOwn ==
    ASSUME Sound, Own, NEW e \in Editors,
           EditStep(e) \/ \E i \in Ids, kind \in EditKinds : ReceiveEdit(e, i, kind)
    PROVE  Own'
<1> DEFINE i == editor[e].id
<1>1. /\ manifest' = manifest /\ scheduler' = scheduler /\ syncer' = syncer
  BY DEF EditStep, SaveMetadata, SaveFields, RemovePicture, StorePicture, PointToPicture,
     CheckRewrite, RequestSync, ReadForManifest, WriteManifest, SetPath, EditRaises, EditFrame,
     ReceiveEdit
<1>2. Types /\ OwnRows /\ OwnFiles /\ OwnEditor /\ OwnScheduler /\ OwnSyncer
  BY DEF Sound, Own
<1>3. row' = row => OwnRows' /\ Steady
  BY <1>2, OwnSame
<1>4. SUFFICES OwnRows' /\ Steady /\ OwnEditor' /\ (file' = file \/ OwnFiles')
  BY <1>1, <1>2, OwnFilesSame, OwnSchedulerSame, OwnSyncerSame DEF Own
<1>5. EndEdit(e) \/ (\E pc \in EditorPc \ {"write"} : Goto(e, pc)) => OwnEditor'
  BY <1>2, OwnGoto
<1>6. editor[e].pc # "idle" => /\ i \in Ids /\ row[i].there /\ OwnRow(i)
                               /\ Owned(row[i], i)
  BY <1>2, EditorAtWork DEF OwnRows, OwnRow
<1>7. ASSUME editor[e].pc # "idle", NEW new, Writes(i, new), SameVideo(new, row[i]),
             new.path \in {row[i].path, i}, SamePoster(new, row[i]) \/ new.name = i
      PROVE  OwnRows' /\ Steady
  <2>1. Owned(new, i) /\ (row[i].name = i => new.name = i)
    BY <1>6, <1>7 DEF Owned, SamePoster
  <2> QED BY <1>2, <1>6, <1>7, <2>1, OwnWrite
<1>10. CASE \E k \in Ids, kind \in EditKinds : ReceiveEdit(e, k, kind)
  <2>1. PICK k \in Ids, kind \in EditKinds : ReceiveEdit(e, k, kind)
    BY <1>10
  <2>2. UNCHANGED local
    BY <2>1, ReceiveSound
  <2>3. PICK new \in Editor : /\ editor' = [editor EXCEPT ![e] = new]
                              /\ new.pc \in {"remove", "save", "fields"}
    BY <2>1, ReceiveSound
  <2>4. OwnEditor'
    BY <1>2, <2>3, OwnEditorCore
  <2> QED BY <1>3, <2>2, <2>4 DEF local
<1>11. CASE SaveMetadata(e)
  <2>1. Goto(e, "read") /\ file' = file /\ editor[e].pc # "idle"
    BY <1>11 DEF SaveMetadata
  <2>2. OwnRows' /\ Steady
    BY <1>2, <1>6, <1>7, <1>11, <2>1, SaveMetadataShape
  <2> QED BY <1>5, <2>1, <2>2 DEF EditorPc
<1>12. CASE SaveFields(e)
  <2>1. EndEdit(e) /\ file' = file /\ editor[e].pc # "idle"
    BY <1>12 DEF SaveFields
  <2>2. OwnRows' /\ Steady
    BY <1>2, <1>6, <1>7, <1>12, <2>1, SaveFieldsShape
  <2> QED BY <1>5, <2>1, <2>2
<1>13. CASE RemovePicture(e) \/ StorePicture(e) \/ EditRaises(e)
  <2>1. row' = row /\ file' = file /\ (Goto(e, "store") \/ Goto(e, "point") \/ EndEdit(e))
    BY <1>13 DEF RemovePicture, StorePicture, EditRaises, local
  <2> QED BY <1>3, <1>5, <2>1 DEF EditorPc
<1>14. CASE PointToPicture(e)
  <2>1. Goto(e, "check") /\ file' = file /\ editor[e].pc # "idle"
    BY <1>14 DEF PointToPicture
  <2>2. OwnRows' /\ Steady
    BY <1>2, <1>6, <1>7, <1>14, <2>1, PointToPictureShape
  <2> QED BY <1>5, <2>1, <2>2 DEF EditorPc
<1>15. CASE CheckRewrite(e)
  <2>1. row' = row /\ file' = file /\ (Goto(e, "request") \/ EndEdit(e))
    BY <1>15 DEF CheckRewrite, local
  <2> QED BY <1>3, <1>5, <2>1 DEF EditorPc
<1>16. CASE RequestSync(e)
  <2>1. Goto(e, "read") /\ file' = file /\ editor[e].pc # "idle"
    BY <1>16 DEF RequestSync
  <2>2. OwnRows' /\ Steady
    BY <1>2, <1>6, <1>7, <1>16, <2>1, RequestSyncShape
  <2> QED BY <1>5, <2>1, <2>2 DEF EditorPc
<1>17. CASE ReadForManifest(e)
  <2>1. row' = row /\ file' = file /\ editor[e].pc # "idle"
    BY <1>17 DEF ReadForManifest, local
  <2>2. CASE EndEdit(e)
    BY <1>3, <1>5, <2>1, <2>2
  <2>3. CASE editor' = [editor EXCEPT ![e].pc = "write", ![e].payload = BuildPayload(i)]
    <3> DEFINE new == [editor[e] EXCEPT !.pc = "write", !.payload = BuildPayload(i)]
    <3>1. editor[e] \in Editor
      BY <1>2 DEF Types
    <3>2. new.payload = BuildPayload(i) /\ new.id = i
      BY <3>1 DEF Editor
    <3>3. editor' = [editor EXCEPT ![e] = new]
      BY <1>2, <2>3 DEF Types
    <3> HIDE DEF new
    <3>4. Names(BuildPayload(i), i)
      BY <1>6, <2>1, BuildNames
    <3>5. OwnEditor'
      BY <1>2, <3>2, <3>3, <3>4, OwnEditorCore
    <3> QED BY <1>3, <2>1, <3>5
  <2> QED BY <1>17, <2>2, <2>3 DEF ReadForManifest
<1>18. CASE WriteManifest(e)
  <2>1. /\ row' = row /\ Goto(e, "path") /\ editor[e].pc = "write"
        /\ file' = [file EXCEPT ![i] = editor[e].payload]
    BY <1>18 DEF WriteManifest
  <2>2. Names(editor[e].payload, i) /\ editor[e].payload \in Manifest
    BY <1>2, <2>1 DEF OwnEditor, Sound, EditorInv, EditorOk
  <2>3. OwnFiles'
    BY <1>1, <1>2, <1>3, <1>6, <2>1, <2>2, OwnFileWrite
  <2> QED BY <1>3, <1>5, <2>1, <2>3 DEF EditorPc
<1>19. CASE SetPath(e)
  <2>1. EndEdit(e) /\ file' = file /\ editor[e].pc # "idle" /\ row' = [row EXCEPT ![i].path = i]
    BY <1>19 DEF SetPath
  <2>2. OwnRows' /\ Steady
    BY <1>2, <1>6, <1>7, <2>1, PathShape
  <2> QED BY <1>5, <2>1, <2>2
<1> QED BY <1>10, <1>11, <1>12, <1>13, <1>14, <1>15, <1>16, <1>17, <1>18, <1>19 DEF EditStep

LEMMA FallDueOwn == ASSUME Sound, Own, NEW i \in Ids, FallDue(i) PROVE Own'
<1>1. PICK new : /\ Writes(i, new) /\ SameVideo(new, row[i]) /\ SamePoster(new, row[i])
                 /\ new.path = row[i].path
  BY FallDueShape DEF Sound
<1>2. row[i].there \/ (~row[i].there /\ OwnRow(i))
  BY DEF Own, OwnRows
<1>3. OwnRows' /\ Steady
  <2>1. CASE row[i].there
    <3>1. Owned(new, i) /\ (row[i].name = i => new.name = i)
      BY <1>1, <2>1 DEF Own, OwnRows, OwnRow, Owned, SamePoster
    <3> QED BY <1>1, <2>1, <3>1, OwnWrite DEF Own
  <2>2. CASE ~row[i].there
    <3>1. /\ row'[i] = new /\ \A k \in Ids \ {i} : row'[k] = row[k]
          /\ ~new.there /\ new.path = row[i].path
      BY <1>1, <2>2, WriteSound DEF SameVideo
    <3>2. OwnRow(i) /\ \A k \in Ids \ {i} : OwnRow(k)
      BY DEF Own, OwnRows
    <3>3. OwnRow(i)'
      BY <2>2, <3>1, <3>2 DEF OwnRow
    <3>4. ASSUME NEW k \in Ids \ {i} PROVE OwnRow(k)'
      BY <3>1, <3>2, <3>4 DEF OwnRow, Owned
    <3> QED BY <2>2, <3>1, <3>3, <3>4 DEF OwnRows, Steady
  <2> QED BY <2>1, <2>2
<1>4. UNCHANGED <<file, manifest, editor, scheduler, syncer>>
  BY DEF FallDue, remote, SchedulerFrame
<1> QED BY <1>3, <1>4, OwnFilesSame, OwnEditorSame, OwnSchedulerSame, OwnSyncerSame DEF Own

\* The scheduler keeps the rows that it has listed.
LEMMA OwnSchedulerCore ==
    ASSUME Sound, OwnScheduler, scheduler'.todo \subseteq scheduler.todo,
           \A i \in scheduler'.todo : scheduler'.list[i] = scheduler.list[i],
           \/ scheduler'.now = 0
           \/ scheduler'.now = scheduler.now /\ scheduler'.seen = scheduler.seen
           \/ scheduler'.now \in scheduler.todo /\ scheduler'.seen = scheduler.list[scheduler'.now],
           scheduler'.pc = "write" => Names(scheduler'.payload, scheduler'.now)
    PROVE  OwnScheduler'
BY DEF OwnScheduler, Owned, Names

LEMMA SchedulerOwn == ASSUME Sound, Own, SchedulerStep PROVE Own'
<1> DEFINE i == scheduler.now
<1>1. editor' = editor /\ syncer' = syncer
  BY DEF SchedulerStep, ListDirty, TakeVideo, SchedulerReads, SchedulerWrites,
     SchedulerSetsPath, UploadManifest, SyncPoster, MarkClean, UploadFails, SchedulerFrame
<1>2. Types /\ OwnRows /\ OwnFiles /\ OwnEditor /\ OwnScheduler /\ OwnSyncer
  BY DEF Sound, Own
<1>3. row' = row => OwnRows' /\ Steady
  BY <1>2, OwnSame
<1>4. SUFFICES /\ OwnRows' /\ Steady /\ OwnScheduler'
               /\ (file' = file /\ manifest' = manifest) \/ OwnFiles'
  BY <1>1, <1>2, OwnFilesSame, OwnEditorSame, OwnSyncerSame DEF Own
<1>5. scheduler.pc \notin {"idle", "next"} => /\ i \in Ids /\ i # 0 /\ row[i].there /\ OwnRow(i)
                                              /\ Owned(row[i], i) /\ Owned(scheduler.seen, i)
  BY <1>2, SchedulerNow, NumbersIn DEF OwnRows, OwnRow, OwnScheduler
<1>6. ASSUME scheduler.pc \notin {"idle", "next"}, NEW new, Writes(i, new),
             SameVideo(new, row[i]), new.path \in {row[i].path, i}, SamePoster(new, row[i])
      PROVE  OwnRows' /\ Steady
  <2>1. Owned(new, i) /\ (row[i].name = i => new.name = i)
    BY <1>5, <1>6 DEF Owned, SamePoster
  <2> QED BY <1>2, <1>5, <1>6, <2>1, OwnWrite
<1>7. ASSUME NextVideo PROVE OwnScheduler'
  <2>1. /\ scheduler'.pc = "next" /\ scheduler'.now = 0
        /\ scheduler'.todo = scheduler.todo /\ scheduler'.list = scheduler.list
    BY <1>2, <1>7, NextVideoShape
  <2> QED BY <1>2, <2>1, OwnSchedulerCore
<1>8. ASSUME scheduler'.todo = scheduler.todo, scheduler'.now = scheduler.now,
             scheduler'.seen = scheduler.seen, scheduler'.list = scheduler.list,
             scheduler'.pc = "write" => Names(scheduler'.payload, scheduler'.now)
      PROVE  OwnScheduler'
  BY <1>2, <1>8, OwnSchedulerCore
<1>11. CASE ListDirty
  <2>1. row' = row /\ file' = file /\ manifest' = manifest
    BY <1>11 DEF ListDirty, remote
  <2>2. PICK due \in SUBSET Ids :
           /\ due = {k \in Ids : row[k].there /\ row[k].dirty /\ row[k].due}
           /\ scheduler.pc = "idle" /\ scheduler'.pc = "next" /\ scheduler'.todo = due
           /\ scheduler'.now = scheduler.now /\ \A k \in due : scheduler'.list[k] = row[k]
    BY <1>2, <1>11, ListDirtyShape
  <2>3. scheduler'.now = 0
    BY <2>2 DEF Sound, SchedulerInv
  <2>4. \A k \in due : Owned(row[k], k)
    BY <1>2, <2>2 DEF OwnRows, OwnRow
  <2>5. OwnScheduler'
    BY <2>2, <2>3, <2>4 DEF OwnScheduler, Owned
  <2> QED BY <1>3, <2>1, <2>5
<1>12. CASE TakeVideo
  <2>1. row' = row /\ file' = file /\ manifest' = manifest
    BY <1>12 DEF TakeVideo, remote
  <2>2. CASE scheduler' = IdleScheduler
    <3>1. scheduler'.pc = "idle" /\ scheduler'.now = 0 /\ scheduler'.todo = {}
      BY <2>2 DEF IdleScheduler
    <3>2. OwnScheduler'
      BY <3>1 DEF OwnScheduler
    <3> QED BY <1>3, <2>1, <3>2
  <2>3. CASE scheduler' # IdleScheduler
    <3>1. PICK k \in scheduler.todo :
             /\ scheduler'.pc = IF file[k] = None THEN "read" ELSE "upload"
             /\ scheduler'.todo = scheduler.todo \ {k} /\ scheduler'.now = k
             /\ scheduler'.seen = scheduler.list[k]
             /\ \A l \in Ids \ {k} : scheduler'.list[l] = scheduler.list[l]
      BY <1>2, <1>12, <2>3, TakeVideoShape
    <3>2. scheduler.todo \subseteq Ids
      BY <1>2 DEF Types, SchedulerType
    <3>3. OwnScheduler'
      BY <1>2, <3>1, <3>2, OwnSchedulerCore
    <3> QED BY <1>3, <2>1, <3>3
  <2> QED BY <2>2, <2>3
<1>13. CASE SchedulerReads
  <2>1. row' = row /\ file' = file /\ manifest' = manifest /\ scheduler.pc = "read"
    BY <1>13 DEF SchedulerReads, remote
  <2>2. CASE row[i].segments
    <3>1. BuildPayload(i) \in Manifest \cup {None}
      BY <1>5, <2>1, <2>2, BuildIn DEF Sound
    <3>2. scheduler' = [scheduler EXCEPT !.pc = "write", !.payload = BuildPayload(i)]
      BY <1>13, <2>2 DEF SchedulerReads
    <3>3. /\ scheduler'.payload = BuildPayload(i) /\ scheduler'.todo = scheduler.todo
          /\ scheduler'.now = scheduler.now /\ scheduler'.seen = scheduler.seen
          /\ scheduler'.list = scheduler.list
      BY <1>2, <3>1, <3>2, PcShape DEF SchedulerPc
    <3>4. Names(BuildPayload(i), i)
      BY <1>5, <2>1, BuildNames
    <3>5. OwnScheduler'
      BY <1>8, <3>3, <3>4
    <3> QED BY <1>3, <2>1, <3>5
  <2>3. CASE NextVideo
    BY <1>3, <1>7, <2>1, <2>3
  <2> QED BY <1>13, <2>2, <2>3 DEF SchedulerReads
<1>14. CASE SchedulerWrites
  <2>1. /\ row' = row /\ manifest' = manifest /\ scheduler.pc = "write"
        /\ file' = [file EXCEPT ![i] = scheduler.payload]
        /\ scheduler' = [scheduler EXCEPT !.pc = "path", !.payload = None]
    BY <1>14 DEF SchedulerWrites, remote
  <2>2. scheduler.payload \in Manifest /\ Names(scheduler.payload, i)
    BY <1>2, <2>1 DEF OwnScheduler, Sound, SchedulerInv
  <2>3. /\ scheduler'.pc = "path" /\ scheduler'.todo = scheduler.todo
        /\ scheduler'.now = scheduler.now /\ scheduler'.seen = scheduler.seen
        /\ scheduler'.list = scheduler.list
    BY <1>2, <2>1, PcShape DEF SchedulerPc
  <2>4. OwnScheduler'
    BY <1>8, <2>3
  <2>5. OwnFiles'
    BY <1>2, <1>3, <1>5, <2>1, <2>2, OwnFileWrite
  <2> QED BY <1>3, <2>1, <2>4, <2>5
<1>15. CASE SchedulerSetsPath
  <2>1. /\ file' = file /\ manifest' = manifest /\ scheduler.pc = "path"
        /\ row' = [row EXCEPT ![i].path = i] /\ scheduler' = [scheduler EXCEPT !.pc = "upload"]
    BY <1>15 DEF SchedulerSetsPath, remote
  <2>2. scheduler.payload \in Manifest \cup {None}
    BY <2>1, SchedulerNow
  <2>3. /\ scheduler'.pc = "upload" /\ scheduler'.todo = scheduler.todo
        /\ scheduler'.now = scheduler.now /\ scheduler'.seen = scheduler.seen
        /\ scheduler'.list = scheduler.list
    BY <1>2, <2>1, <2>2, PcShape DEF SchedulerPc
  <2>4. OwnRows' /\ Steady
    BY <1>2, <1>5, <1>6, <2>1, PathShape
  <2>5. OwnScheduler'
    BY <1>8, <2>3
  <2> QED BY <2>1, <2>4, <2>5
<1>16. CASE UploadManifest
  <2>1. /\ row' = row /\ file' = file /\ scheduler.pc = "upload" /\ file[i] # None
        /\ manifest' = [manifest EXCEPT ![scheduler.seen.path] = file[i]]
        /\ scheduler' = [scheduler EXCEPT !.pc = "poster"]
    BY <1>16 DEF UploadManifest
  <2>2. scheduler.payload \in Manifest \cup {None} /\ scheduler.seen.path = i
    BY <1>5, <2>1, SchedulerNow DEF Owned
  <2>3. /\ scheduler'.pc = "poster" /\ scheduler'.todo = scheduler.todo
        /\ scheduler'.now = scheduler.now /\ scheduler'.seen = scheduler.seen
        /\ scheduler'.list = scheduler.list
    BY <1>2, <2>1, <2>2, PcShape DEF SchedulerPc
  <2>4. OwnScheduler'
    BY <1>8, <2>3
  <2>5. manifest'[i] = file[i] /\ \A k \in Ids \ {i} : manifest'[k] = manifest[k]
    BY <1>2, <1>5, <2>1, <2>2 DEF Types
  <2>6. i \in Stored /\ Names(file[i], i)
    BY <1>2, <1>5, <2>1 DEF OwnRow, OwnFiles
  <2>7. OwnFiles'
    BY <1>2, <1>3, <2>1, <2>5, <2>6 DEF OwnFiles, Names, Steady
  <2> QED BY <1>3, <2>1, <2>4, <2>7
<1>17. CASE SyncPoster
  <2>1. /\ row' = row /\ file' = file /\ manifest' = manifest /\ scheduler.pc = "poster"
        /\ scheduler' = [scheduler EXCEPT !.pc = "clean"]
    BY <1>17 DEF SyncPoster
  <2>2. scheduler.payload \in Manifest \cup {None}
    BY <2>1, SchedulerNow
  <2>3. /\ scheduler'.pc = "clean" /\ scheduler'.todo = scheduler.todo
        /\ scheduler'.now = scheduler.now /\ scheduler'.seen = scheduler.seen
        /\ scheduler'.list = scheduler.list
    BY <1>2, <2>1, <2>2, PcShape DEF SchedulerPc
  <2>4. OwnScheduler'
    BY <1>8, <2>3
  <2> QED BY <1>3, <2>1, <2>4
<1>18. CASE MarkClean
  <2>1. file' = file /\ manifest' = manifest /\ scheduler.pc = "clean" /\ NextVideo
    BY <1>18 DEF MarkClean, remote
  <2>2. OwnRows' /\ Steady
    BY <1>2, <1>5, <1>6, <1>18, <2>1, MarkCleanShape
  <2> QED BY <1>7, <2>1, <2>2
<1>19. CASE UploadFails
  <2>1. row' = row /\ file' = file /\ manifest' = manifest /\ NextVideo
    BY <1>19 DEF UploadFails, remote
  <2> QED BY <1>3, <1>7, <2>1
<1> QED BY <1>11, <1>12, <1>13, <1>14, <1>15, <1>16, <1>17, <1>18, <1>19 DEF SchedulerStep

\* The id that CreateVideo hands out is the one of the directory.
LEMMA NewId ==
    ASSUME IdReturns, Sound, OwnRows, OwnSyncer, syncer.pc = "create"
    PROVE  Max({0} \cup {k \in Ids : row[k].there}) + 1 = syncer.dir
<1>1. syncer.dir \in Ids /\ syncer.dir \in Stored /\ ~row[syncer.dir].there
  BY NumbersIn DEF Sound, SyncerInv, OwnSyncer
<1>2. syncer.dir \in Stored \ Known
  BY <1>1 DEF OwnRows, OwnRow
<1>3. \A k \in Stored \ Known : k = syncer.dir
  BY <1>2 DEF IdReturns
<1>4. \A k \in Ids : row[k].there => k \in Known
  BY <1>1, <1>3 DEF OwnRows, OwnRow
<1>5. \A k \in Known : k \in Ids /\ row[k].there
  BY LibraryAssumption DEF OwnRows, OwnRow, Ids
<1>6. {k \in Ids : row[k].there} = Known
  BY <1>4, <1>5
<1> QED BY <1>2, <1>6 DEF IdReturns

LEMMA SyncOwn == ASSUME IdReturns, Sound, Own, Discover \/ SyncStep PROVE Own'
<1> DEFINE i == syncer.id
           m == syncer.payload
<1>1. UNCHANGED <<file, manifest, editor, scheduler>>
  BY DEF SyncStep, Discover, LoadManifest, LookupVideo, CreateVideo, UpdateVideo, DeleteSegments,
     InsertSegments, RestorePoster, PointToRestored, FinalUpdate, SyncFrame
<1>2. Types /\ OwnRows /\ OwnFiles /\ OwnEditor /\ OwnScheduler /\ OwnSyncer
  BY DEF Sound, Own
<1>3. row' = row => OwnRows' /\ Steady
  BY <1>2, OwnSame
<1>4. Steady => OwnFiles'
  BY <1>1, <1>2, OwnFilesSame
<1> SUFFICES OwnRows' /\ OwnFiles' /\ OwnSyncer'
  BY <1>1, <1>2, OwnEditorSame, OwnSchedulerSame DEF Own
<1>5. syncer'.pc \in {"idle", "load"} /\ syncer'.dir = 0 /\ syncer'.id = 0 => OwnSyncer'
  BY DEF OwnSyncer
<1>6. syncer.pc \notin {"idle", "load"} =>
         /\ syncer.dir \in Ids /\ syncer.dir # 0 /\ syncer.dir \in Stored
         /\ m \in Manifest /\ Names(m, syncer.dir)
  BY <1>2, SyncerNow, NumbersIn DEF OwnSyncer
<1>7. syncer.pc \notin {"idle", "load", "lookup", "create"} =>
         /\ i \in Ids /\ i = syncer.dir /\ row[i].there /\ OwnRow(i)
         /\ row[i].video = i /\ Owned(row[i], i)
  BY <1>2, SyncerNow, NumbersIn DEF OwnSyncer, OwnRows, OwnRow
\* Writing the row of the video.
<1>8. ASSUME syncer.pc \notin {"idle", "load", "lookup", "create"}, NEW new, Writes(i, new),
             new.there, new.video = i, Owned(new, i), row[i].name = i => new.name = i
      PROVE  OwnRows' /\ Steady /\ row'[i] = new
  <2>1. i \in Stored
    BY <1>6, <1>7, <1>8
  <2>2. OwnRows' /\ Steady
    BY <1>2, <1>7, <1>8, <2>1, OwnInsert
  <2>3. row'[i] = new
    BY <1>2, <1>7, <1>8 DEF Types, Writes
  <2> QED BY <2>2, <2>3
\* Going on with the same video.
<1>9. ASSUME syncer.pc \notin {"idle", "load", "lookup", "create"},
             NEW pc \in SyncerPc \ {"create", "update", "final"},
             syncer' = [syncer EXCEPT !.pc = pc]
      PROVE  OwnSyncer'
  <2>1. syncer.seen \in Row /\ pc \in SyncerPc /\ pc \notin {"create", "update", "final"}
        /\ i \in Ids \cup {0}
    BY <1>7, <1>9, SyncerNow
  <2>2. /\ syncer'.pc = pc /\ syncer'.id = i /\ syncer'.dir = syncer.dir
        /\ syncer'.payload = syncer.payload
    BY <1>2, <1>9, <2>1, SyncPcShape
  <2> QED BY <1>2, <2>1, <2>2 DEF OwnSyncer, Names
<1>10. CASE Discover
  <2>1. row' = row
    BY <1>10 DEF Discover
  <2>2. syncer'.pc = "load" /\ syncer'.dir = 0 /\ syncer'.id = 0
    BY <1>2, <1>10, DiscoverShape
  <2> QED BY <1>3, <1>4, <1>5, <2>1, <2>2
<1>11. CASE LoadManifest
  <2>1. /\ syncer.pc = "load" /\ row' = row
        /\ \/ syncer' = IdleSyncer
           \/ \E d \in syncer.todo :
                 /\ syncer'.pc = "lookup" /\ syncer'.dir = d /\ syncer'.payload = manifest[d]
                 /\ syncer'.id = syncer.id
           \/ syncer'.pc = "load" /\ syncer'.dir = syncer.dir /\ syncer'.id = syncer.id
    BY <1>2, <1>11, LoadManifestShape
  <2>2. syncer.dir = 0 /\ syncer.id = 0
    BY <2>1 DEF Sound, SyncerInv
  <2>3. CASE syncer' = IdleSyncer
    BY <1>3, <1>4, <1>5, <2>1, <2>3 DEF IdleSyncer
  <2>4. CASE syncer'.pc = "load" /\ syncer'.dir = syncer.dir /\ syncer'.id = syncer.id
    BY <1>3, <1>4, <1>5, <2>1, <2>2, <2>4
  <2>5. ASSUME NEW d \in syncer.todo, syncer'.pc = "lookup", syncer'.dir = d,
               syncer'.payload = manifest[d], syncer'.id = syncer.id
        PROVE  OwnSyncer'
    <3>1. d \in Ids /\ manifest[d] # None
      BY DEF Sound, Types, SyncerType, SyncerInv
    <3>2. d \in Stored /\ Names(manifest[d], d)
      BY <1>2, <3>1 DEF OwnFiles
    <3> QED BY <2>2, <2>5, <3>2 DEF OwnSyncer, Names
  <2> QED BY <1>3, <1>4, <2>1, <2>3, <2>4, <2>5
<1>12. CASE LookupVideo
  <2>1. row' = row
    BY <1>12 DEF LookupVideo
  <2>2. /\ syncer.pc = "lookup"
        /\ syncer'.dir = syncer.dir /\ syncer'.payload = syncer.payload
        /\ \/ /\ \A k \in Ids : row[k].there => row[k].path # syncer.dir
              /\ syncer'.pc = "create" /\ syncer'.id = syncer.id
           \/ /\ syncer'.pc = "update" /\ syncer'.id \in Ids
              /\ row[syncer'.id].there /\ row[syncer'.id].path = syncer.dir
              /\ syncer'.custom = row[syncer'.id].custom
    BY <1>2, <1>12, LookupVideoShape
  <2>3. syncer.id = 0
    BY <2>2 DEF Sound, SyncerInv
  <2>4. CASE /\ \A k \in Ids : row[k].there => row[k].path # syncer.dir
             /\ syncer'.pc = "create" /\ syncer'.id = syncer.id
    <3>1. ~row[syncer.dir].there
      BY <1>2, <1>6, <2>2, <2>4 DEF OwnRows, OwnRow, Owned
    <3> QED BY <1>3, <1>4, <1>6, <2>1, <2>2, <2>3, <2>4, <3>1 DEF OwnSyncer, Names
  <2>5. CASE /\ syncer'.pc = "update" /\ syncer'.id \in Ids
             /\ row[syncer'.id].there /\ row[syncer'.id].path = syncer.dir
             /\ syncer'.custom = row[syncer'.id].custom
    <3>1. PICK k \in Ids : k = syncer'.id
      BY <2>5
    <3>2. Owned(row[k], k)
      BY <1>2, <2>5, <3>1 DEF OwnRows, OwnRow
    <3>3. k = syncer.dir /\ (syncer'.custom => row'[k].name = k)
      BY <2>1, <2>5, <3>1, <3>2 DEF Owned
    <3>4. OwnSyncer'
      BY <1>6, <2>2, <2>5, <3>1, <3>3 DEF OwnSyncer, Names
    <3> QED BY <1>3, <1>4, <2>1, <3>4
  <2> QED BY <2>2, <2>4, <2>5
<1>13. CASE CreateVideo
  <2>1. syncer.pc = "create"
    BY <1>13 DEF CreateVideo
  <2>2. PICK k \in Ids, new \in Row :
           /\ k = Max({0} \cup {l \in Ids : row[l].there}) + 1
           /\ Writes(k, new) /\ new.there /\ new.video = m.video /\ ~new.segments
           /\ ~new.custom /\ new.name = 0 /\ new.path = syncer.dir
           /\ syncer' = [syncer EXCEPT !.pc = "insert", !.id = k]
    BY <1>2, <1>6, <1>13, <2>1, CreateVideoShape
  <2>3. k = syncer.dir /\ ~row[k].there
    BY <1>2, <2>1, <2>2, NewId DEF OwnSyncer
  <2>4. new.video = k /\ Owned(new, k) /\ k \in Stored
    BY <1>6, <2>1, <2>2, <2>3 DEF Owned, Names
  <2>5. OwnRows'
    BY <1>2, <2>2, <2>3, <2>4, OwnInsert
  <2>6. OwnFiles'
    <3>1. row'[k] = new /\ \A l \in Ids \ {k} : row'[l] = row[l]
      BY <1>2, <2>2 DEF Types, Writes
    <3>2. \A l \in Ids : row[l].there => row'[l].there
      BY <2>2, <3>1
    <3>3. \A l \in Ids : manifest'[l] = manifest[l] /\ file'[l] = file[l]
      BY <1>1
    <3> QED BY <1>2, <3>2, <3>3 DEF OwnFiles, Names
  <2>60. k \in Ids \cup {0} /\ syncer.seen \in Row /\ "insert" \in SyncerPc
    BY <2>1, SyncerNow DEF SyncerPc
  <2>7. /\ syncer'.pc = "insert" /\ syncer'.id = k /\ syncer'.dir = syncer.dir
        /\ syncer'.payload = syncer.payload
    BY <1>2, <2>2, <2>60, SyncPcShape
  <2>8. OwnSyncer'
    BY <1>6, <2>1, <2>3, <2>7 DEF OwnSyncer, Names
  <2> QED BY <2>5, <2>6, <2>8
<1>14. CASE UpdateVideo
  <2>1. syncer.pc = "update" /\ syncer' = [syncer EXCEPT !.pc = "delete"]
    BY <1>14 DEF UpdateVideo
  <2>2. PICK new : /\ Writes(i, new) /\ new.there = row[i].there /\ new.video = m.video
                   /\ new.path = syncer.dir /\ new.custom = syncer.custom
                   /\ new.name = row[i].name
    BY <1>2, <1>6, <1>7, <1>14, <2>1, UpdateVideoShape
  <2>3. syncer.custom => row[i].name = i
    BY <1>2, <2>1 DEF OwnSyncer
  <2>4. new.there /\ new.video = i /\ Owned(new, i)
    BY <1>6, <1>7, <2>1, <2>2, <2>3 DEF Owned, Names
  <2>5. OwnRows' /\ Steady
    BY <1>8, <2>1, <2>2, <2>4
  <2>6. OwnSyncer'
    BY <1>9, <2>1 DEF SyncerPc
  <2> QED BY <1>4, <2>5, <2>6
<1>15. CASE DeleteSegments \/ InsertSegments
  <2>1. /\ syncer.pc \in {"delete", "insert"}
        /\ \/ syncer' = [syncer EXCEPT !.pc = "insert"]
           \/ syncer' = [syncer EXCEPT !.pc = "restore"]
        /\ \E b \in BOOLEAN : row' = [row EXCEPT ![i].segments = b]
    BY <1>15 DEF DeleteSegments, InsertSegments
  <2>2. PICK new : /\ Writes(i, new) /\ new.there = row[i].there /\ new.video = row[i].video
                   /\ SamePoster(new, row[i]) /\ new.path = row[i].path
    BY <1>2, <1>7, <2>1, SegmentsShape
  <2>3. new.there /\ new.video = i /\ Owned(new, i) /\ (row[i].name = i => new.name = i)
    BY <1>7, <2>1, <2>2 DEF Owned, SamePoster
  <2>4. OwnRows' /\ Steady
    BY <1>8, <2>1, <2>2, <2>3
  <2>5. OwnSyncer'
    BY <1>9, <2>1 DEF SyncerPc
  <2> QED BY <1>4, <2>4, <2>5
<1>16. CASE RestorePoster
  <2>1. row' = row /\ syncer.pc = "restore"
        /\ (NextManifest \/ syncer' = [syncer EXCEPT !.pc = "point"])
    BY <1>16 DEF RestorePoster
  <2>2. NextManifest => syncer'.pc = "load" /\ syncer'.dir = 0 /\ syncer'.id = 0
    BY <1>2, NextManifestShape
  <2>3. OwnSyncer'
    <3>1. CASE NextManifest
      BY <1>5, <2>2, <3>1
    <3>2. CASE syncer' = [syncer EXCEPT !.pc = "point"]
      BY <1>9, <2>1, <3>2 DEF SyncerPc
    <3> QED BY <2>1, <3>1, <3>2
  <2> QED BY <1>3, <1>4, <2>1, <2>3
<1>17. CASE PointToRestored
  <2>1. syncer.pc = "point"
    BY <1>17 DEF PointToRestored
  <2>2. PICK new : /\ Writes(i, new) /\ Restored(new, row[i], m)
                   /\ syncer' = [syncer EXCEPT !.pc = "final", !.seen = new]
    BY <1>2, <1>6, <1>7, <1>17, <2>1, PointToRestoredShape
  <2>3. m.name \in {0, i}
    BY <1>6, <1>7, <2>1 DEF Names
  <2>4. /\ new.there /\ new.video = i /\ Owned(new, i) /\ (row[i].name = i => new.name = i)
        /\ new \in Row
    BY <1>7, <2>1, <2>2, <2>3 DEF Owned, Restored, SameVideo, Writes
  <2>5. OwnRows' /\ Steady /\ row'[i] = new
    BY <1>8, <2>1, <2>2, <2>4
  <2>6. /\ syncer'.pc = "final" /\ syncer'.id = i /\ syncer'.dir = syncer.dir
        /\ syncer'.payload = m /\ syncer'.seen = new
    BY <1>2, <1>7, <2>1, <2>2, <2>4, SyncPcShape DEF SyncerPc
  <2>7. OwnSyncer'
    BY <1>6, <1>7, <2>1, <2>4, <2>5, <2>6 DEF OwnSyncer, Names, Owned
  <2> QED BY <1>4, <2>5, <2>7
<1>18. CASE FinalUpdate
  <2>1. syncer.pc = "final" /\ NextManifest
    BY <1>18 DEF FinalUpdate
  <2>2. syncer.seen \in Row /\ syncer.seen.path = syncer.dir
        /\ (syncer.seen.custom => row[i].name = i)
    BY <1>2, <2>1, SyncerNow DEF OwnSyncer
  <2>3. PICK new : /\ Writes(i, new) /\ SameVideo(new, row[i])
                   /\ new.path = (IF syncer.seen.path # 0 THEN syncer.seen.path ELSE syncer.dir)
                   /\ new.custom = syncer.seen.custom /\ new.name = row[i].name
    BY <1>2, <1>6, <1>7, <1>18, <2>1, <2>2, FinalUpdateShape
  <2>4. new.there /\ new.video = i /\ Owned(new, i)
    BY <1>7, <2>1, <2>2, <2>3 DEF Owned, SameVideo
  <2>5. OwnRows' /\ Steady
    BY <1>8, <2>1, <2>3, <2>4
  <2>6. syncer'.pc = "load" /\ syncer'.dir = 0 /\ syncer'.id = 0
    BY <1>2, <2>1, NextManifestShape
  <2> QED BY <1>4, <1>5, <2>5, <2>6
<1> QED BY <1>10, <1>11, <1>12, <1>13, <1>14, <1>15, <1>16, <1>17, <1>18 DEF SyncStep

LEMMA OthersOwn == ASSUME Sound, Own, MoveCacheRoot \/ Restart \/ UNCHANGED vars PROVE Own'
<1>1. row' = row /\ manifest' = manifest
  BY DEF MoveCacheRoot, Restart, vars, local, remote
<1>2. OwnRows' /\ Steady
  BY <1>1, OwnSame DEF Own
<1>3. OwnFiles'
  <2>1. \A i \in Ids : file'[i] = file[i] \/ file'[i] = None
    BY DEF MoveCacheRoot, Restart, vars, local
  <2> QED BY <1>1, <2>1 DEF Own, OwnFiles, Names
<1>4. CASE UNCHANGED <<editor, scheduler, syncer>>
  BY <1>2, <1>3, <1>4, OwnEditorSame, OwnSchedulerSame, OwnSyncerSame DEF Own
<1>5. CASE Restart
  <2>1. /\ editor' = [e \in Editors |-> IdleEditor] /\ scheduler' = IdleScheduler
        /\ syncer' = IdleSyncer
    BY <1>5 DEF Restart
  <2>2. OwnEditor'
    BY <2>1 DEF OwnEditor, IdleEditor
  <2>3. OwnScheduler'
    BY <2>1 DEF OwnScheduler, IdleScheduler
  <2>4. OwnSyncer'
    BY <2>1 DEF OwnSyncer, IdleSyncer
  <2> QED BY <1>2, <1>3, <2>2, <2>3, <2>4 DEF Own
<1> QED BY <1>4, <1>5 DEF MoveCacheRoot, vars

LEMMA InitOwn == ASSUME Init PROVE Own
<1>1. OwnRows
  <2> SUFFICES ASSUME NEW i \in Ids PROVE OwnRow(i)
    BY DEF OwnRows
  <2>1. NoRow.path = 0 /\ ~NoRow.there
    BY DEF NoRow
  <2>2. Known \subseteq Stored
    BY LibraryAssumption
  <2> QED BY <2>1, <2>2, InitShape DEF OwnRow, Owned
<1>2. OwnFiles
  <2> SUFFICES ASSUME NEW i \in Ids
               PROVE  /\ manifest[i] # None => i \in Stored /\ Names(manifest[i], i)
                      /\ file[i] # None => row[i].there /\ Names(file[i], i)
    BY DEF OwnFiles
  <2>1. i \in Stored => Names(manifest[i], i)
    BY InitShape DEF Names
  <2>2. i \in Known => i \in Stored
    BY LibraryAssumption
  <2> QED BY <2>1, <2>2, InitShape
<1>3. OwnEditor
  BY DEF Init, OwnEditor, IdleEditor
<1>4. OwnScheduler
  BY DEF Init, OwnScheduler, IdleScheduler
<1>5. OwnSyncer
  BY DEF Init, OwnSyncer, IdleSyncer
<1> QED BY <1>1, <1>2, <1>3, <1>4, <1>5 DEF Own

LEMMA StepOwn == ASSUME IdReturns, Sound, Own, [Next]_vars PROVE Own'
<1>1. CASE \E e \in Editors : \/ \E i \in Ids, kind \in EditKinds : ReceiveEdit(e, i, kind)
                              \/ EditStep(e)
  BY <1>1, EditOwn
<1>2. CASE \E i \in Ids : FallDue(i)
  BY <1>2, FallDueOwn
<1>3. CASE SchedulerStep
  BY <1>3, SchedulerOwn
<1>4. CASE Discover \/ SyncStep
  BY <1>4, SyncOwn
<1>5. CASE MoveCacheRoot \/ Restart \/ UNCHANGED vars
  BY <1>5, OthersOwn
<1> QED BY <1>1, <1>2, <1>3, <1>4, <1>5 DEF Next

-----------------------------------------------------------------------------
(* What holds of a row that nobody has disturbed.                          *)

At(e, i) == editor[e].pc # "idle" /\ editor[e].id = i

\* At most one editor, the scheduler or the synchronisation works on it.
Alone(i) ==
    /\ \A e, f \in Editors : At(e, i) /\ At(f, i) => e = f
    /\ \A e \in Editors : At(e, i) => ~SchedulerAt(i) /\ syncer.dir # i
    /\ SchedulerAt(i) => syncer.dir # i
Working(i) == (\E e \in Editors : At(e, i)) \/ SchedulerAt(i) \/ syncer.dir = i

\* Its segments are there, unless the synchronisation is about to insert them.
Whole(i) == row[i].segments \/ syncer.dir = i

\* The file to upload, the remote manifest and the remote poster say what the row says.
FileOk(i) == file[i] = None \/ file[i] = BuildPayload(i)
ManifestOk(i) ==
    /\ manifest[i] # None
    /\ manifest[i].title = row[i].title /\ manifest[i].tags = row[i].tags
    /\ (manifest[i].name # 0) <=> row[i].custom
PosterOk(i) == row[i].custom => Number(poster[i]) = Number(picture[i])

\* How far the one that works on it has got.
Fits(d, i) ==
    /\ d.pc # "fields"
    /\ d.pc \in {"read", "write", "path"} => row[i].dirty
    /\ d.pc = "write" => d.payload = BuildPayload(i)
    /\ d.pc = "path" => FileOk(i)
EditorFits(i) == \A e \in Editors : At(e, i) => Fits(editor[e], i)
NowFits(i) ==
    /\ scheduler.seen.custom = row[i].custom
    /\ scheduler.pc = "write" => scheduler.payload = BuildPayload(i)
    /\ scheduler.pc \in {"poster", "clean"} => ManifestOk(i)
    /\ scheduler.pc = "clean" => PosterOk(i)
SchedulerFits(i) ==
    /\ SchedulerAt(i) => row[i].dirty /\ FileOk(i)
    /\ i \in scheduler.todo => scheduler.list[i].custom = row[i].custom
    /\ scheduler.now = i => NowFits(i)
SyncerFits(i) ==
    /\ syncer.payload = manifest[i]
    /\ syncer.pc \in {"delete", "insert", "restore", "point", "final"} =>
          SameText(row[i], syncer.payload)
    /\ syncer.pc \in {"restore", "point", "final"} => row[i].segments
    /\ syncer.pc \in {"point", "final"} /\ syncer.payload.name # 0 =>
          Number(poster[i]) = Number(picture[i])
    /\ syncer.pc = "final" =>
          /\ SameText(syncer.seen, syncer.payload)
          /\ syncer.seen.custom <=> syncer.payload.name # 0

\* When nobody works on it, it is clean and published, or it is dirty and the file to
\* upload is missing or up to date.
RestState(i) == IF row[i].dirty THEN FileOk(i) ELSE ManifestOk(i) /\ PosterOk(i)

Kept(i) ==
    /\ Alone(i) /\ Whole(i) /\ EditorFits(i) /\ SchedulerFits(i)
    /\ syncer.dir = i => SyncerFits(i)
    /\ ~Working(i) => RestState(i)
KeptInv == \A i \in Ids : row[i].there /\ i \notin disturbed => Kept(i)

\* What the synchronisation is about to insert is what the remote says.
PayloadInv ==
    syncer.pc \in {"lookup", "create"} /\ ~row[syncer.dir].there =>
        syncer.payload = manifest[syncer.dir]

Inv == Sound /\ Own /\ KeptInv /\ PayloadInv

LEMMA WorkingIs ==
    ASSUME Sound, Own, NEW i \in Ids, row[i].there
    PROVE  /\ AtWork(i) <=> Working(i)
           /\ EditorAt(i) <=> \E e \in Editors : At(e, i)
           /\ SyncerAt(i) <=> syncer.dir = i
<1>1. row[i].path = i /\ i # 0
  BY NumbersIn DEF Own, OwnRows, OwnRow, Owned
<1>2. syncer.id = i => syncer.dir = i
  BY <1>1 DEF Own, OwnSyncer
<1>3. SyncerAt(i) <=> syncer.dir = i
  BY <1>1, <1>2 DEF SyncerAt
<1>4. EditorAt(i) <=> \E e \in Editors : At(e, i)
  BY DEF EditorAt, At
<1> QED BY <1>3, <1>4 DEF AtWork, Working

-----------------------------------------------------------------------------
(* What a step leaves of a row that it does not work on.                   *)

RowSame(i) ==
    /\ SameVideo(row'[i], row[i]) /\ SameText(row'[i], row[i]) /\ SamePoster(row'[i], row[i])
    /\ row'[i].dirty = row[i].dirty
StoreSame(i) ==
    /\ manifest'[i] = manifest[i] /\ poster'[i] = poster[i] /\ picture'[i] = picture[i]
    /\ file'[i] = file[i] \/ file'[i] = None
EditorsSame(i) == \A e \in Editors :
    /\ At(e, i)' <=> At(e, i)
    /\ At(e, i) => editor'[e] = editor[e]
SchedulerSame(i) ==
    /\ i \in scheduler'.todo <=> i \in scheduler.todo
    /\ scheduler'.now = i <=> scheduler.now = i
    /\ i \in scheduler.todo => scheduler'.list[i] = scheduler.list[i]
    /\ scheduler.now = i => /\ scheduler'.pc = scheduler.pc /\ scheduler'.seen = scheduler.seen
                            /\ scheduler'.payload = scheduler.payload
SyncerSame(i) ==
    /\ syncer'.dir = i <=> syncer.dir = i
    /\ syncer.dir = i => syncer' = syncer

LEMMA StateSame ==
    ASSUME NEW i, RowSame(i), StoreSame(i)
    PROVE  /\ BuildPayload(i)' = BuildPayload(i) /\ (FileOk(i) => FileOk(i)')
           /\ ManifestOk(i)' <=> ManifestOk(i)
           /\ PosterOk(i)' <=> PosterOk(i)
           /\ RestState(i) => RestState(i)'
<1>1. BuildPayload(i)' = BuildPayload(i)
  BY DEF RowSame, SameVideo, SameText, SamePoster, BuildPayload
<1>2. FileOk(i) => FileOk(i)'
  BY <1>1 DEF FileOk, StoreSame
<1>3. ManifestOk(i)' <=> ManifestOk(i)
  BY DEF ManifestOk, StoreSame, RowSame, SameText, SamePoster
<1>4. PosterOk(i)' <=> PosterOk(i)
  BY DEF PosterOk, StoreSame, RowSame, SamePoster, Number
<1> QED BY <1>1, <1>2, <1>3, <1>4 DEF RestState, RowSame

LEMMA KeptFrame ==
    ASSUME NEW i, Kept(i), RowSame(i), StoreSame(i), EditorsSame(i), SchedulerSame(i), SyncerSame(i)
    PROVE  Kept(i)'
<1>1. /\ BuildPayload(i)' = BuildPayload(i) /\ (FileOk(i) => FileOk(i)')
      /\ ManifestOk(i)' <=> ManifestOk(i)
      /\ PosterOk(i)' <=> PosterOk(i)
      /\ RestState(i) => RestState(i)'
  BY StateSame
<1>2. /\ SchedulerAt(i)' <=> SchedulerAt(i)
      /\ Working(i)' <=> Working(i)
  BY DEF SchedulerAt, Working, EditorsSame, SchedulerSame, SyncerSame
<1>3. Alone(i)' /\ Whole(i)'
  BY <1>2 DEF Kept, Alone, Whole, EditorsSame, SyncerSame, RowSame, SameVideo
<1>4. EditorFits(i)'
  BY <1>1 DEF Kept, EditorFits, Fits, EditorsSame, RowSame
<1>5. NowFits(i) /\ scheduler.now = i => NowFits(i)'
  BY <1>1 DEF NowFits, SchedulerSame, RowSame, SamePoster
<1>6. SchedulerFits(i)'
  BY <1>1, <1>2, <1>5 DEF Kept, SchedulerFits, SchedulerSame, RowSame, SamePoster
<1>7. syncer'.dir = i => SyncerFits(i)'
  BY DEF Kept, SyncerFits, SyncerSame, RowSame, StoreSame, SameText, SameVideo, Number
<1> QED BY <1>1, <1>2, <1>3, <1>4, <1>6, <1>7 DEF Kept

\* A step that works on row k only.
LEMMA KeptOthers ==
    ASSUME KeptInv, NEW k, disturbed \ {k} \subseteq disturbed',
           \A i \in Ids \ {k} : row[i].there =>
               RowSame(i) /\ StoreSame(i) /\ EditorsSame(i) /\ SchedulerSame(i) /\ SyncerSame(i),
           \A i \in Ids \ {k} : row'[i].there => row[i].there,
           k \in Ids /\ row'[k].there /\ k \notin disturbed' => Kept(k)'
    PROVE  KeptInv'
<1> SUFFICES ASSUME NEW i \in Ids, row'[i].there, i \notin disturbed' PROVE Kept(i)'
  BY DEF KeptInv
<1>1. CASE i = k
  BY <1>1
<1>2. CASE i # k
  <2>1. row[i].there /\ i \notin disturbed
    BY <1>2
  <2>2. Kept(i)
    BY <2>1 DEF KeptInv
  <2>3. RowSame(i) /\ StoreSame(i) /\ EditorsSame(i) /\ SchedulerSame(i) /\ SyncerSame(i)
    BY <1>2, <2>1
  <2> QED BY <2>2, <2>3, KeptFrame
<1> QED BY <1>1, <1>2

LEMMA ActorsSame ==
    ASSUME NEW i
    PROVE  /\ row' = row => RowSame(i)
           /\ UNCHANGED <<manifest, poster, picture, file>> => StoreSame(i)
           /\ editor' = editor => EditorsSame(i)
           /\ scheduler' = scheduler => SchedulerSame(i)
           /\ syncer' = syncer => SyncerSame(i)
BY DEF RowSame, SameVideo, SameText, SamePoster, StoreSame, EditorsSame, At, SchedulerSame, SyncerSame

-----------------------------------------------------------------------------
(* Editors.                                                                *)

\* Only row k, its file and its picture are written.
OnlyRow(k) == \A i \in Ids \ {k} :
    row'[i] = row[i] /\ file'[i] = file[i] /\ picture'[i] = picture[i]

LEMMA PayloadSame ==
    ASSUME Sound, PayloadInv, RowsStay, manifest' = manifest, syncer' = syncer PROVE PayloadInv'
<1>1. syncer.pc \in {"lookup", "create"} => syncer.dir \in Ids
  BY DEF Sound, SyncerInv
<1> QED BY <1>1 DEF PayloadInv, RowsStay

\* The editor that works on row i goes on, or it ends.
LEMMA EditCore ==
    ASSUME Types, KeptInv, NEW e \in Editors, NEW i \in Ids, At(e, i), row[i].there,
           NEW new, editor' = [editor EXCEPT ![e] = new], new.pc # "idle" => new.id = i,
           scheduler' = scheduler, syncer' = syncer, manifest' = manifest, poster' = poster,
           OnlyRow(i), disturbed \subseteq disturbed',
           i \notin disturbed' => /\ row'[i].segments = row[i].segments
                                  /\ new.pc = "idle" => RestState(i)'
                                  /\ new.pc # "idle" => Fits(new, i)'
    PROVE  KeptInv'
<1>1. editor'[e] = new /\ \A f \in Editors \ {e} : editor'[f] = editor[f]
  BY DEF Types
<1>2. ASSUME NEW k \in Ids \ {i}, row[k].there
      PROVE  RowSame(k) /\ StoreSame(k) /\ EditorsSame(k) /\ SchedulerSame(k) /\ SyncerSame(k)
  <2>1. RowSame(k) /\ StoreSame(k)
    BY DEF OnlyRow, RowSame, StoreSame, SameVideo, SameText, SamePoster
  <2>2. EditorsSame(k)
    BY <1>1 DEF EditorsSame, At
  <2> QED BY <2>1, <2>2, ActorsSame
<1>3. ASSUME i \notin disturbed' PROVE Kept(i)'
  <2>1. Kept(i)
    BY <1>3 DEF KeptInv
  <2>2. /\ \A f \in Editors \ {e} : ~At(f, i)
        /\ ~SchedulerAt(i) /\ syncer.dir # i
    BY <2>1 DEF Kept, Alone
  <2>3. /\ \A f \in Editors \ {e} : ~At(f, i)'
        /\ ~SchedulerAt(i)' /\ syncer'.dir # i
    BY <1>1, <2>2 DEF At, SchedulerAt
  <2>4. Alone(i)'
    BY <2>3 DEF Alone
  <2>5. Whole(i)'
    BY <1>3, <2>1, <2>2 DEF Kept, Whole
  <2>6. EditorFits(i)'
    <3>1. ASSUME NEW f \in Editors, At(f, i)' PROVE Fits(editor[f], i)'
      <4>1. f = e /\ new.pc # "idle"
        BY <1>1, <2>3, <3>1 DEF At
      <4> QED BY <1>1, <1>3, <4>1 DEF Fits
    <3> QED BY <3>1 DEF EditorFits
  <2>7. SchedulerFits(i)'
    BY <2>3 DEF SchedulerFits, SchedulerAt
  <2>8. ~Working(i)' => RestState(i)'
    <3>1. At(e, i)' <=> new.pc # "idle"
      BY <1>1 DEF At
    <3> QED BY <1>3, <3>1 DEF Working
  <2> QED BY <2>3, <2>4, <2>5, <2>6, <2>7, <2>8 DEF Kept
<1>4. \A k \in Ids \ {i} : row'[k].there => row[k].there
  BY DEF OnlyRow
<1> QED BY <1>2, <1>3, <1>4, KeptOthers

LEMMA EditStepKept ==
    ASSUME Inv, NEW e \in Editors, EditStep(e), NEW i, i = editor[e].id
    PROVE  KeptInv' /\ PayloadInv'
<1>1. /\ editor[e].pc # "idle" /\ manifest' = manifest /\ poster' = poster
      /\ scheduler' = scheduler /\ syncer' = syncer
  BY DEF EditStep, SaveMetadata, SaveFields, RemovePicture, StorePicture, PointToPicture,
     CheckRewrite, RequestSync, ReadForManifest, WriteManifest, SetPath, EditRaises, EditFrame
<1>2. /\ Sound /\ Types /\ KeptInv /\ PayloadInv
      /\ i \in Ids /\ editor[e] \in Editor /\ row[i].there /\ At(e, i)
  BY <1>1, EditorAtWork DEF Inv, Sound, At
<1>3. i \notin disturbed => Kept(i) /\ Fits(editor[e], i) /\ row[i].segments
  BY <1>2 DEF KeptInv, Kept, EditorFits, Whole, Alone
<1>4. row[i].path = i /\ i # 0
  BY <1>2, NumbersIn DEF Inv, Own, OwnRows, OwnRow, Owned
<1>5. ASSUME OnlyRow(i), row'[i].there, disturbed \subseteq disturbed',
             NEW new, editor' = [editor EXCEPT ![e] = new], new.pc # "idle" => new.id = i,
             i \notin disturbed' => /\ row'[i].segments = row[i].segments
                                    /\ new.pc = "idle" => RestState(i)'
                                    /\ new.pc # "idle" => Fits(new, i)'
      PROVE  KeptInv' /\ PayloadInv'
  <2>1. RowsStay
    BY <1>5 DEF OnlyRow, RowsStay
  <2>2. KeptInv'
    BY <1>1, <1>2, <1>5, EditCore
  <2> QED BY <1>1, <1>2, <2>1, <2>2, PayloadSame
<1>6. ASSUME NEW new, Writes(i, new), SameVideo(new, row[i]), file' = file, picture' = picture
      PROVE  /\ OnlyRow(i) /\ row'[i] = new /\ row'[i].there
             /\ row'[i].segments = row[i].segments
  BY <1>2, <1>6 DEF Types, Writes, OnlyRow, SameVideo
<1>7. ASSUME EndEdit(e) PROVE editor' = [editor EXCEPT ![e] = IdleEditor] /\ IdleEditor.pc = "idle"
  BY <1>7, IdleIn DEF EndEdit
<1>8. ASSUME EndEdit(e), OnlyRow(i), row'[i].there, disturbed \subseteq disturbed',
             i \notin disturbed' => row'[i].segments = row[i].segments /\ RestState(i)'
      PROVE  KeptInv' /\ PayloadInv'
  BY <1>5, <1>7, <1>8
<1>9. ASSUME NEW pc \in EditorPc \ {"idle", "fields", "write"}, Goto(e, pc),
             OnlyRow(i), row'[i].there, disturbed' = disturbed,
             row'[i].segments = row[i].segments,
             i \notin disturbed => /\ pc \in {"read", "path"} => row'[i].dirty
                                   /\ pc = "path" => FileOk(i)'
      PROVE  KeptInv' /\ PayloadInv'
  <2>1. PICK new \in Editor : /\ editor' = [editor EXCEPT ![e] = new]
                              /\ new.pc = pc /\ new.id = i
    BY <1>2, <1>9, GotoShape
  <2>2. i \notin disturbed' => Fits(new, i)'
    BY <1>9, <2>1 DEF Fits, FileOk, BuildPayload
  <2> QED BY <1>5, <1>9, <2>1, <2>2
<1>11. CASE SaveMetadata(e)
  <2>1. PICK new : Writes(i, new) /\ SameVideo(new, row[i]) /\ new.dirty
    BY <1>2, <1>11, SaveMetadataShape
  <2>2. Goto(e, "read") /\ file' = file /\ picture' = picture /\ disturbed' = disturbed
    BY <1>11 DEF SaveMetadata
  <2>3. OnlyRow(i) /\ row'[i].there /\ row'[i].segments = row[i].segments /\ row'[i].dirty
    BY <1>6, <2>1, <2>2
  <2> QED BY <1>9, <2>2, <2>3 DEF EditorPc
<1>12. CASE SaveFields(e)
  <2>1. PICK new : Writes(i, new) /\ SameVideo(new, row[i])
    BY <1>2, <1>12, SaveFieldsShape
  <2>2. EndEdit(e) /\ file' = file /\ picture' = picture /\ disturbed' = disturbed
    BY <1>12 DEF SaveFields
  <2>3. OnlyRow(i) /\ row'[i].there
    BY <1>6, <2>1, <2>2
  <2>4. i \in disturbed
    BY <1>3, <1>12 DEF Fits, SaveFields
  <2> QED BY <1>8, <2>2, <2>3, <2>4
<1>13. CASE RemovePicture(e)
  <2>1. Goto(e, "store") /\ row' = row /\ file' = file /\ disturbed' = disturbed
    BY <1>13 DEF RemovePicture
  <2>2. OnlyRow(i)
    BY <1>2, <1>13 DEF RemovePicture, OnlyRow, Types
  <2> QED BY <1>2, <1>9, <2>1, <2>2 DEF EditorPc
<1>14. CASE StorePicture(e)
  <2>1. Goto(e, "point") /\ row' = row /\ file' = file /\ disturbed' = disturbed
    BY <1>14 DEF StorePicture
  <2>2. OnlyRow(i)
    BY <1>2, <1>14 DEF StorePicture, OnlyRow, Types
  <2> QED BY <1>2, <1>9, <2>1, <2>2 DEF EditorPc
<1>15. CASE PointToPicture(e)
  <2>1. PICK new : Writes(i, new) /\ SameVideo(new, row[i])
    BY <1>2, <1>15, PointToPictureShape
  <2>2. Goto(e, "check") /\ file' = file /\ picture' = picture /\ disturbed' = disturbed
    BY <1>15 DEF PointToPicture
  <2>3. OnlyRow(i) /\ row'[i].there /\ row'[i].segments = row[i].segments
    BY <1>6, <2>1, <2>2
  <2> QED BY <1>9, <2>2, <2>3 DEF EditorPc
<1>16. CASE CheckRewrite(e)
  <2>1. row' = row /\ file' = file /\ picture' = picture /\ disturbed' = disturbed
    BY <1>16 DEF CheckRewrite, local
  <2>2. OnlyRow(i)
    BY <2>1 DEF OnlyRow
  <2>3. CASE CanRewrite(i)
    <3>1. Goto(e, "request")
      BY <1>16, <2>3 DEF CheckRewrite
    <3> QED BY <1>2, <1>9, <2>1, <2>2, <3>1 DEF EditorPc
  <2>4. CASE ~CanRewrite(i)
    <3>1. EndEdit(e) /\ i \in disturbed
      BY <1>2, <1>3, <1>4, <1>16, <2>4 DEF CheckRewrite, CanRewrite
    <3> QED BY <1>2, <1>8, <2>1, <2>2, <3>1
  <2> QED BY <2>3, <2>4
<1>17. CASE RequestSync(e)
  <2>1. PICK new : Writes(i, new) /\ SameVideo(new, row[i]) /\ new.dirty
    BY <1>2, <1>17, RequestSyncShape
  <2>2. Goto(e, "read") /\ file' = file /\ picture' = picture /\ disturbed' = disturbed
    BY <1>17 DEF RequestSync
  <2>3. OnlyRow(i) /\ row'[i].there /\ row'[i].segments = row[i].segments /\ row'[i].dirty
    BY <1>6, <2>1, <2>2
  <2> QED BY <1>9, <2>2, <2>3 DEF EditorPc
<1>18. CASE ReadForManifest(e)
  <2>1. row' = row /\ file' = file /\ picture' = picture
    BY <1>18 DEF ReadForManifest, local
  <2>2. OnlyRow(i)
    BY <2>1 DEF OnlyRow
  <2>3. CASE row[i].segments /\ disturbed' = disturbed
             /\ editor' = [editor EXCEPT ![e].pc = "write", ![e].payload = BuildPayload(i)]
    <3> DEFINE new == [editor[e] EXCEPT !.pc = "write", !.payload = BuildPayload(i)]
    <3>1. new.pc = "write" /\ new.payload = BuildPayload(i) /\ new.id = i
      BY <1>2 DEF Editor
    <3>2. editor' = [editor EXCEPT ![e] = new]
      BY <1>2, <2>3 DEF Types
    <3> HIDE DEF new
    <3>3. PICK d : d = new
      OBVIOUS
    <3>4. i \notin disturbed => row[i].dirty
      BY <1>3, <1>18 DEF Fits, ReadForManifest
    <3>5. BuildPayload(i)' = BuildPayload(i)
      BY <2>1 DEF BuildPayload
    <3>6. i \notin disturbed' => Fits(d, i)'
      BY <2>1, <2>3, <3>1, <3>3, <3>4, <3>5 DEF Fits
    <3> QED BY <1>2, <1>5, <2>1, <2>2, <2>3, <3>1, <3>2, <3>3, <3>6
  <2>4. CASE EndEdit(e) /\ BrokenOff({i})
    <3>1. disturbed \subseteq disturbed' /\ i \in disturbed'
      BY <2>4 DEF BrokenOff
    <3> QED BY <1>2, <1>8, <2>1, <2>2, <2>4, <3>1
  <2> QED BY <1>18, <2>3, <2>4 DEF ReadForManifest
<1>19. CASE WriteManifest(e)
  <2>1. row' = row /\ Goto(e, "path") /\ picture' = picture /\ disturbed' = disturbed
    BY <1>19 DEF WriteManifest
  <2>2. OnlyRow(i) /\ file'[i] = editor[e].payload
    BY <1>2, <1>19 DEF WriteManifest, OnlyRow, Types
  <2>3. i \notin disturbed => row[i].dirty /\ file'[i] = BuildPayload(i)
    BY <1>3, <1>19, <2>2 DEF Fits, WriteManifest
  <2>4. i \notin disturbed => row'[i].dirty /\ FileOk(i)'
    BY <2>1, <2>3 DEF FileOk, BuildPayload
  <2> QED BY <1>2, <1>9, <2>1, <2>2, <2>4 DEF EditorPc
<1>20. CASE SetPath(e)
  <2>1. row' = [row EXCEPT ![i].path = i]
    BY <1>20 DEF SetPath
  <2>2. PICK new : /\ Writes(i, new) /\ SameVideo(new, row[i]) /\ SameText(new, row[i])
                   /\ SamePoster(new, row[i]) /\ new.dirty = row[i].dirty
    BY <1>2, <2>1, PathShape
  <2>3. EndEdit(e) /\ file' = file /\ picture' = picture /\ disturbed' = disturbed
    BY <1>20 DEF SetPath
  <2>4. OnlyRow(i) /\ row'[i] = new /\ row'[i].there /\ row'[i].segments = row[i].segments
    BY <1>6, <2>2, <2>3
  <2>5. RowSame(i) /\ StoreSame(i)
    BY <1>1, <2>2, <2>3, <2>4 DEF RowSame, StoreSame
  <2>6. i \notin disturbed => RestState(i)'
    <3>1. i \notin disturbed => row[i].dirty /\ FileOk(i)
      BY <1>3, <1>20 DEF Fits, SetPath
    <3>2. FileOk(i) => FileOk(i)'
      BY <2>5, StateSame
    <3> QED BY <3>1, <3>2, <2>2, <2>4 DEF RestState
  <2> QED BY <1>8, <2>3, <2>4, <2>6
<1>21. CASE EditRaises(e)
  <2>1. row' = row /\ EndEdit(e) /\ file' = file /\ picture' = picture /\ BrokenOff({i})
    BY <1>21 DEF EditRaises, local
  <2>2. OnlyRow(i) /\ disturbed \subseteq disturbed' /\ i \in disturbed'
    BY <2>1 DEF OnlyRow, BrokenOff
  <2> QED BY <1>2, <1>8, <2>1, <2>2
<1> QED BY <1>11, <1>12, <1>13, <1>14, <1>15, <1>16, <1>17, <1>18, <1>19, <1>20, <1>21
        DEF EditStep

\* An edit that nobody interferes with puts right what an earlier disturbance has left.
LEMMA ReceiveKept ==
    ASSUME Inv, NEW e \in Editors, NEW i \in Ids, NEW kind \in EditKinds, ReceiveEdit(e, i, kind)
    PROVE  KeptInv' /\ PayloadInv'
<1>1. /\ Sound /\ Types /\ KeptInv /\ PayloadInv
      /\ editor[e].pc = "idle" /\ row[i].there
  BY DEF Inv, Sound, ReceiveEdit
<1>2. /\ row' = row /\ file' = file /\ picture' = picture /\ manifest' = manifest
      /\ poster' = poster /\ scheduler' = scheduler /\ syncer' = syncer
  BY <1>1, ReceiveSound DEF local
<1>3. PICK new : /\ editor' = [editor EXCEPT ![e] = new] /\ new.id = i
                 /\ new.pc \in {"remove", "save", "fields"}
                 /\ new.pc = "fields" => ~CanRewrite(i)
  BY <1>1, ReceiveSound
<1>4. editor'[e] = new /\ \A f \in Editors \ {e} : editor'[f] = editor[f]
  BY <1>1, <1>3 DEF Types
<1>5. PayloadInv'
  <2>1. RowsStay
    BY <1>2 DEF RowsStay
  <2> QED BY <1>1, <1>2, <2>1, PayloadSame
<1>6. ASSUME NEW k \in Ids \ {i}, row[k].there
      PROVE  RowSame(k) /\ StoreSame(k) /\ EditorsSame(k) /\ SchedulerSame(k) /\ SyncerSame(k)
  <2>1. EditorsSame(k)
    BY <1>1, <1>3, <1>4 DEF EditorsSame, At
  <2> QED BY <1>2, <2>1, ActorsSame
<1>7. disturbed \ {i} \subseteq disturbed'
  BY DEF ReceiveEdit, Join
<1>8. ASSUME i \notin disturbed' PROVE Kept(i)'
  <2>1. AtWork(i) <=> Working(i)
    BY <1>1, WorkingIs DEF Inv
  <2>2. ~AtWork(i)
    BY <1>8 DEF ReceiveEdit, Join
  <2>3. CanRewrite(i)
    <3>1. CASE i \in disturbed
      BY <1>8, <2>2, <3>1 DEF ReceiveEdit, Join
    <3>2. CASE i \notin disturbed
      <4>1. row[i].segments
        BY <1>1, <2>1, <2>2, <3>2 DEF KeptInv, Kept, Whole, Working
      <4>2. row[i].path = i /\ i # 0
        BY <1>1, NumbersIn DEF Inv, Own, OwnRows, OwnRow, Owned
      <4> QED BY <1>1, <4>1, <4>2 DEF CanRewrite
    <3> QED BY <3>1, <3>2
  <2>4. new.pc \in {"remove", "save"} /\ row[i].segments
    BY <1>3, <2>3 DEF CanRewrite
  <2>5. \A f \in Editors : At(f, i)' <=> f = e
    BY <1>3, <1>4, <2>1, <2>2 DEF At, Working
  <2>6. ~SchedulerAt(i)' /\ syncer'.dir # i
    BY <1>2, <2>1, <2>2 DEF SchedulerAt, Working
  <2>7. Alone(i)' /\ Whole(i)' /\ Working(i)'
    BY <1>2, <2>4, <2>5, <2>6 DEF Alone, Whole, Working
  <2>8. EditorFits(i)'
    BY <1>4, <2>4, <2>5 DEF EditorFits, Fits
  <2>9. SchedulerFits(i)'
    BY <2>6 DEF SchedulerFits, SchedulerAt
  <2> QED BY <2>6, <2>7, <2>8, <2>9 DEF Kept
<1>9. \A k \in Ids \ {i} : row'[k].there => row[k].there
  BY <1>2
<1> QED BY <1>1, <1>5, <1>6, <1>7, <1>8, <1>9, KeptOthers

-----------------------------------------------------------------------------
(* The scheduler.                                                          *)

\* Only row k, its file, its picture, and what is stored of it in the remote are written.
OnlyVideo(k) ==
    /\ OnlyRow(k) /\ row'[k].there /\ row'[k].segments = row[k].segments
    /\ \A i \in Ids \ {k} : manifest'[i] = manifest[i] /\ poster'[i] = poster[i]

LEMMA OnlyVideoSame ==
    ASSUME NEW k \in Ids, OnlyVideo(k)
    PROVE  /\ RowsStay
           /\ \A i \in Ids \ {k} : RowSame(i) /\ StoreSame(i) /\ (row'[i].there => row[i].there)
BY DEF OnlyVideo, OnlyRow, RowsStay, RowSame, StoreSame, SameVideo, SameText, SamePoster

LEMMA PayloadOnly ==
    ASSUME Sound, PayloadInv, NEW k \in Ids, OnlyVideo(k), syncer' = syncer PROVE PayloadInv'
<1>1. syncer.pc \in {"lookup", "create"} => syncer.dir \in Ids
  BY DEF Sound, SyncerInv
<1> QED BY <1>1 DEF PayloadInv, OnlyVideo, OnlyRow

\* The scheduler goes on with row i, or leaves it.
LEMMA SchedulerKeptCore ==
    ASSUME Sound, KeptInv, NEW i \in Ids, SchedulerAt(i), OnlyVideo(i),
           editor' = editor, syncer' = syncer, disturbed' = disturbed,
           scheduler.now \in {0, i}, scheduler'.now \in {0, i},
           scheduler'.todo = scheduler.todo \ {i},
           \A k \in scheduler'.todo : scheduler'.list[k] = scheduler.list[k],
           i \notin disturbed => /\ scheduler'.now = 0 => RestState(i)'
                                 /\ scheduler'.now = i =>
                                       row'[i].dirty /\ FileOk(i)' /\ NowFits(i)'
    PROVE  KeptInv'
<1>1. 0 \notin Ids /\ row[i].there
  BY NumbersIn DEF Sound, SchedulerInv
<1>2. ASSUME NEW k \in Ids \ {i}, row[k].there
      PROVE  RowSame(k) /\ StoreSame(k) /\ EditorsSame(k) /\ SchedulerSame(k) /\ SyncerSame(k)
  <2>1. SchedulerSame(k)
    BY <1>1 DEF SchedulerSame
  <2> QED BY <2>1, OnlyVideoSame, ActorsSame
<1>3. ASSUME i \notin disturbed PROVE Kept(i)'
  <2>1. Kept(i)
    BY <1>1, <1>3 DEF KeptInv
  <2>2. syncer.dir # i /\ \A e \in Editors : ~At(e, i)
    BY <2>1 DEF Kept, Alone
  <2>3. /\ syncer'.dir # i /\ \A e \in Editors : ~At(e, i)'
        /\ SchedulerAt(i)' <=> scheduler'.now = i
        /\ i \notin scheduler'.todo
    BY <2>2 DEF At, SchedulerAt
  <2>4. Alone(i)' /\ Whole(i)' /\ EditorFits(i)'
    BY <2>1, <2>2, <2>3 DEF Kept, Alone, Whole, EditorFits, OnlyVideo
  <2>5. SchedulerFits(i)'
    BY <1>3, <2>3 DEF SchedulerFits
  <2>6. ~Working(i)' => RestState(i)'
    BY <1>3, <2>3 DEF Working
  <2> QED BY <2>3, <2>4, <2>5, <2>6 DEF Kept
<1> QED BY <1>2, <1>3, OnlyVideoSame, KeptOthers

\* Only row i is written, and only its text, path, poster and marks.
LEMMA WritesVideo ==
    ASSUME Sound, NEW i \in Ids, NEW new, Writes(i, new), SameVideo(new, row[i]), row[i].there,
           file' = file, picture' = picture, manifest' = manifest, poster' = poster
    PROVE  OnlyVideo(i) /\ row'[i] = new
BY DEF Sound, Types, Writes, OnlyVideo, OnlyRow, SameVideo

\* The pass begins, with rows that nobody works on or that are disturbed from now on.
LEMMA ListDirtyKept ==
    ASSUME Inv, ListDirty PROVE KeptInv' /\ PayloadInv'
<1>1. /\ row' = row /\ file' = file /\ manifest' = manifest /\ poster' = poster
      /\ picture' = picture /\ editor' = editor /\ syncer' = syncer
  BY DEF ListDirty, remote, SchedulerFrame
<1>2. Sound /\ Types /\ KeptInv /\ PayloadInv
  BY DEF Inv, Sound
<1>3. PICK due \in SUBSET Ids :
         /\ due = {i \in Ids : row[i].there /\ row[i].dirty /\ row[i].due}
         /\ scheduler.pc = "idle" /\ scheduler'.todo = due /\ scheduler'.now = scheduler.now
         /\ \A i \in due : scheduler'.list[i] = row[i]
         /\ Join(due)
  BY <1>2, ListDirtyShape
<1>4. scheduler.now = 0 /\ scheduler.todo = {} /\ 0 \notin Ids
  BY <1>2, <1>3, NumbersIn DEF Sound, SchedulerInv
<1>5. PayloadInv'
  <2>1. RowsStay
    BY <1>1 DEF RowsStay
  <2> QED BY <1>1, <1>2, <2>1, PayloadSame
<1>6. ASSUME NEW i \in Ids, row'[i].there, i \notin disturbed' PROVE Kept(i)'
  <2>1. row[i].there /\ i \notin disturbed /\ Kept(i)
    BY <1>1, <1>2, <1>3, <1>6 DEF Join, KeptInv
  <2>2. RowSame(i) /\ StoreSame(i) /\ EditorsSame(i) /\ SyncerSame(i)
    BY <1>1, ActorsSame
  <2>3. CASE i \notin due
    <3>1. SchedulerSame(i)
      BY <1>3, <1>4, <2>3 DEF SchedulerSame
    <3> QED BY <2>1, <2>2, <3>1, KeptFrame
  <2>4. CASE i \in due
    <3>1. ~Working(i)
      BY <1>2, <1>3, <1>6, <2>1, <2>4, WorkingIs DEF Join, Inv
    <3>2. /\ syncer'.dir # i /\ \A e \in Editors : ~At(e, i)'
          /\ SchedulerAt(i)' /\ scheduler'.now # i
      BY <1>1, <1>3, <1>4, <2>4, <3>1 DEF Working, At, SchedulerAt
    <3>3. row[i].dirty /\ FileOk(i)
      BY <1>3, <2>1, <2>4, <3>1 DEF Kept, RestState
    <3>4. row'[i].dirty /\ FileOk(i)'
      BY <1>1, <3>3 DEF FileOk, BuildPayload
    <3>5. SchedulerFits(i)'
      BY <1>1, <1>3, <2>4, <3>2, <3>4 DEF SchedulerFits
    <3>6. Alone(i)' /\ Whole(i)' /\ EditorFits(i)' /\ Working(i)'
      BY <1>1, <2>1, <3>1, <3>2 DEF Kept, Alone, Whole, EditorFits, Working
    <3> QED BY <3>2, <3>5, <3>6 DEF Kept
  <2> QED BY <2>3, <2>4
<1> QED BY <1>5, <1>6 DEF KeptInv

LEMMA TakeVideoKept ==
    ASSUME Inv, TakeVideo PROVE KeptInv' /\ PayloadInv'
<1>1. /\ row' = row /\ file' = file /\ manifest' = manifest /\ poster' = poster
      /\ picture' = picture /\ editor' = editor /\ syncer' = syncer /\ disturbed' = disturbed
      /\ scheduler.pc = "next"
  BY DEF TakeVideo, remote, SchedulerFrame
<1>2. Sound /\ Types /\ KeptInv /\ PayloadInv /\ scheduler.now = 0 /\ 0 \notin Ids
  BY <1>1, NumbersIn DEF Inv, Sound, SchedulerInv
<1>3. PayloadInv'
  <2>1. RowsStay
    BY <1>1 DEF RowsStay
  <2> QED BY <1>1, <1>2, <2>1, PayloadSame
<1>4. CASE scheduler.todo = {} /\ scheduler' = IdleScheduler
  <2>1. ASSUME NEW i \in Ids, row'[i].there, i \notin disturbed' PROVE Kept(i)'
    <3>1. Kept(i)
      BY <1>1, <1>2, <2>1 DEF KeptInv
    <3>2. scheduler'.todo = {} /\ scheduler'.now = 0
      BY <1>4 DEF IdleScheduler
    <3>3. SchedulerSame(i)
      BY <1>2, <1>4, <3>2 DEF SchedulerSame
    <3> QED BY <1>1, <3>1, <3>3, ActorsSame, KeptFrame
  <2> QED BY <1>3, <2>1 DEF KeptInv
<1>5. CASE ~(scheduler.todo = {} /\ scheduler' = IdleScheduler)
  <2>1. PICK i \in scheduler.todo :
           /\ scheduler'.pc = IF file[i] = None THEN "read" ELSE "upload"
           /\ scheduler'.todo = scheduler.todo \ {i} /\ scheduler'.now = i
           /\ scheduler'.seen = scheduler.list[i]
           /\ \A k \in Ids \ {i} : scheduler'.list[k] = scheduler.list[k]
    BY <1>2, <1>5, TakeVideoShape
  <2>2. i \in Ids /\ scheduler.todo \subseteq Ids
    BY <1>2 DEF Types, SchedulerType
  <2>3. SchedulerAt(i) /\ row[i].there
    BY <1>2, <2>2 DEF SchedulerAt, Sound, SchedulerInv
  <2>4. OnlyVideo(i)
    BY <1>1, <2>3 DEF OnlyVideo, OnlyRow
  <2>5. ASSUME i \notin disturbed PROVE row'[i].dirty /\ FileOk(i)' /\ NowFits(i)'
    <3>1. Kept(i)
      BY <1>2, <2>2, <2>3, <2>5 DEF KeptInv
    <3>2. row[i].dirty /\ FileOk(i) /\ scheduler.list[i].custom = row[i].custom
      BY <2>3, <3>1 DEF Kept, SchedulerFits
    <3>3. FileOk(i)'
      BY <1>1, <3>2 DEF FileOk, BuildPayload
    <3>4. NowFits(i)'
      BY <1>1, <2>1, <3>2 DEF NowFits
    <3> QED BY <1>1, <3>2, <3>3, <3>4
  <2>6. i # 0 /\ \A k \in scheduler'.todo : scheduler'.list[k] = scheduler.list[k]
    BY <1>2, <2>1, <2>2
  <2>7. scheduler.now \in {0, i} /\ scheduler'.now \in {0, i} /\ scheduler'.now # 0
    BY <1>2, <2>1, <2>6
  <2>8. KeptInv'
    BY <1>1, <1>2, <2>1, <2>2, <2>3, <2>4, <2>5, <2>6, <2>7, SchedulerKeptCore
  <2> QED BY <1>3, <2>8
<1> QED BY <1>4, <1>5

LEMMA SchedulerStepKept ==
    ASSUME Inv, SchedulerStep, NEW i, i = scheduler.now PROVE KeptInv' /\ PayloadInv'
<1>1. editor' = editor /\ syncer' = syncer /\ picture' = picture
  BY DEF SchedulerStep, ListDirty, TakeVideo, SchedulerReads, SchedulerWrites,
     SchedulerSetsPath, UploadManifest, SyncPoster, MarkClean, UploadFails, SchedulerFrame
<1>2. Sound /\ Types /\ KeptInv /\ PayloadInv
  BY DEF Inv, Sound
<1>3. scheduler.pc \notin {"idle", "next"} =>
          /\ i \in Ids /\ i # 0 /\ row[i].there /\ Owned(row[i], i) /\ Owned(scheduler.seen, i)
          /\ SchedulerAt(i) /\ i \notin scheduler.todo
          /\ scheduler.payload \in Manifest \cup {None}
  BY <1>2, SchedulerNow, NumbersIn
     DEF Inv, Own, OwnRows, OwnRow, OwnScheduler, SchedulerAt, Sound, SchedulerInv
<1>4. scheduler.pc \notin {"idle", "next"} /\ i \notin disturbed =>
          /\ row[i].segments /\ row[i].dirty /\ FileOk(i) /\ NowFits(i)
  BY <1>2, <1>3 DEF KeptInv, Kept, Whole, Alone, SchedulerFits
<1>5. ASSUME scheduler.pc \notin {"idle", "next"}, OnlyVideo(i), disturbed' = disturbed,
             scheduler'.now \in {0, i}, scheduler'.todo = scheduler.todo,
             scheduler'.list = scheduler.list,
             i \notin disturbed => /\ scheduler'.now = 0 => RestState(i)'
                                   /\ scheduler'.now = i =>
                                         row'[i].dirty /\ FileOk(i)' /\ NowFits(i)'
      PROVE  KeptInv' /\ PayloadInv'
  <2>1. scheduler'.todo = scheduler.todo \ {i}
    BY <1>3, <1>5
  <2>2. KeptInv'
    BY <1>1, <1>2, <1>3, <1>5, <2>1, SchedulerKeptCore
  <2> QED BY <1>1, <1>2, <1>3, <1>5, <2>2, PayloadOnly
<1>6. ASSUME NextVideo
      PROVE  scheduler'.now = 0 /\ scheduler'.todo = scheduler.todo /\ scheduler'.list = scheduler.list
  BY <1>2, <1>6, NextVideoShape
<1>7. ASSUME scheduler.pc \notin {"idle", "next"}, UNCHANGED <<row, file, manifest, poster>>
      PROVE  OnlyVideo(i)
  BY <1>1, <1>3, <1>7 DEF OnlyVideo, OnlyRow
<1>8. ASSUME row' = row, file' = file PROVE FileOk(i) => FileOk(i)'
  BY <1>8 DEF FileOk, BuildPayload
<1>9. ASSUME row' = row, manifest' = manifest PROVE ManifestOk(i) => ManifestOk(i)'
  BY <1>9 DEF ManifestOk
<1>11. CASE ListDirty
  BY <1>11, ListDirtyKept
<1>12. CASE TakeVideo
  BY <1>12, TakeVideoKept
<1>13. CASE SchedulerReads
  <2>1. /\ row' = row /\ file' = file /\ manifest' = manifest /\ poster' = poster
        /\ disturbed' = disturbed /\ scheduler.pc = "read"
    BY <1>13 DEF SchedulerReads, remote
  <2>2. OnlyVideo(i)
    BY <1>7, <2>1
  <2>3. CASE row[i].segments
    <3>1. BuildPayload(i) \in Manifest \cup {None}
      BY <1>2, <1>3, <2>1, <2>3, BuildIn DEF Sound
    <3>2. scheduler' = [scheduler EXCEPT !.pc = "write", !.payload = BuildPayload(i)]
      BY <1>13, <2>3 DEF SchedulerReads
    <3>3. /\ scheduler'.pc = "write" /\ scheduler'.payload = BuildPayload(i)
          /\ scheduler'.todo = scheduler.todo /\ scheduler'.now = scheduler.now
          /\ scheduler'.seen = scheduler.seen /\ scheduler'.list = scheduler.list
      BY <1>2, <3>1, <3>2, PcShape DEF SchedulerPc
    <3>4. BuildPayload(i)' = BuildPayload(i)
      BY <2>1 DEF BuildPayload
    <3>5. NowFits(i) => NowFits(i)'
      BY <2>1, <3>3, <3>4 DEF NowFits
    <3> QED BY <1>3, <1>4, <1>5, <1>8, <2>1, <2>2, <3>3, <3>5
  <2>4. CASE ~row[i].segments /\ NextVideo
    BY <1>3, <1>4, <1>5, <1>6, <2>1, <2>2, <2>4
  <2> QED BY <1>13, <2>3, <2>4 DEF SchedulerReads
<1>14. CASE SchedulerWrites
  <2>1. /\ row' = row /\ manifest' = manifest /\ poster' = poster
        /\ disturbed' = disturbed /\ scheduler.pc = "write"
        /\ file' = [file EXCEPT ![i] = scheduler.payload]
        /\ scheduler' = [scheduler EXCEPT !.pc = "path", !.payload = None]
    BY <1>14 DEF SchedulerWrites, remote
  <2>2. /\ scheduler'.pc = "path" /\ scheduler'.todo = scheduler.todo
        /\ scheduler'.now = scheduler.now /\ scheduler'.seen = scheduler.seen
        /\ scheduler'.list = scheduler.list
    BY <1>2, <2>1, PcShape DEF SchedulerPc
  <2>3. file'[i] = scheduler.payload /\ \A k \in Ids \ {i} : file'[k] = file[k]
    BY <1>2, <1>3, <2>1 DEF Types
  <2>4. OnlyVideo(i)
    BY <1>1, <1>3, <2>1, <2>3 DEF OnlyVideo, OnlyRow
  <2>5. NowFits(i) => NowFits(i)'
    BY <2>1, <2>2 DEF NowFits
  <2>6. NowFits(i) => FileOk(i)'
    BY <2>1, <2>3 DEF NowFits, FileOk, BuildPayload
  <2> QED BY <1>3, <1>4, <1>5, <2>1, <2>2, <2>4, <2>5, <2>6
<1>15. CASE SchedulerSetsPath
  <2>1. /\ file' = file /\ manifest' = manifest /\ poster' = poster
        /\ disturbed' = disturbed /\ scheduler.pc = "path"
        /\ row' = [row EXCEPT ![i].path = i] /\ scheduler' = [scheduler EXCEPT !.pc = "upload"]
    BY <1>15 DEF SchedulerSetsPath, remote
  <2>2. /\ scheduler'.pc = "upload" /\ scheduler'.todo = scheduler.todo
        /\ scheduler'.now = scheduler.now /\ scheduler'.seen = scheduler.seen
        /\ scheduler'.list = scheduler.list
    BY <1>2, <1>3, <2>1, PcShape DEF SchedulerPc
  <2>3. PICK new : /\ Writes(i, new) /\ SameVideo(new, row[i]) /\ SameText(new, row[i])
                   /\ SamePoster(new, row[i]) /\ new.dirty = row[i].dirty
    BY <1>2, <1>3, <2>1, PathShape
  <2>4. OnlyVideo(i) /\ row'[i] = new
    BY <1>1, <1>2, <1>3, <2>1, <2>3, WritesVideo
  <2>5. RowSame(i) /\ StoreSame(i)
    BY <1>1, <2>1, <2>3, <2>4 DEF RowSame, StoreSame
  <2>6. FileOk(i) => FileOk(i)'
    BY <2>5, StateSame
  <2>7. NowFits(i) => NowFits(i)'
    BY <2>2, <2>3, <2>4 DEF NowFits, SamePoster
  <2> QED BY <1>3, <1>4, <1>5, <2>1, <2>2, <2>3, <2>4, <2>6, <2>7
<1>16. CASE UploadManifest
  <2>1. /\ row' = row /\ file' = file /\ poster' = poster /\ disturbed' = disturbed
        /\ scheduler.pc = "upload" /\ file[i] # None
        /\ manifest' = [manifest EXCEPT ![scheduler.seen.path] = file[i]]
        /\ scheduler' = [scheduler EXCEPT !.pc = "poster"]
    BY <1>16 DEF UploadManifest
  <2>2. /\ scheduler'.pc = "poster" /\ scheduler'.todo = scheduler.todo
        /\ scheduler'.now = scheduler.now /\ scheduler'.seen = scheduler.seen
        /\ scheduler'.list = scheduler.list
    BY <1>2, <1>3, <2>1, PcShape DEF SchedulerPc
  <2>3. manifest'[i] = file[i] /\ \A k \in Ids \ {i} : manifest'[k] = manifest[k]
    BY <1>2, <1>3, <2>1 DEF Types, Owned
  <2>4. OnlyVideo(i)
    BY <1>1, <1>3, <2>1, <2>3 DEF OnlyVideo, OnlyRow
  <2>5. FileOk(i) => ManifestOk(i)'
    <3>1. FileOk(i) => manifest'[i] = BuildPayload(i)
      BY <2>1, <2>3 DEF FileOk
    <3>2. row[i].custom => row[i].name # 0
      BY <1>3, <2>1 DEF Owned
    <3> QED BY <2>1, <2>3, <3>1, <3>2 DEF ManifestOk, BuildPayload
  <2>6. FileOk(i) /\ NowFits(i) => NowFits(i)'
    BY <2>1, <2>2, <2>5 DEF NowFits
  <2> QED BY <1>3, <1>4, <1>5, <1>8, <2>1, <2>2, <2>4, <2>6
<1>17. CASE SyncPoster
  <2> DEFINE r == scheduler.seen
             p == IF r.custom /\ r.name # 0 THEN picture[r.name] ELSE None
  <2>1. /\ row' = row /\ file' = file /\ manifest' = manifest
        /\ disturbed' = disturbed /\ scheduler.pc = "poster"
        /\ poster' = [poster EXCEPT ![i] = p]
        /\ scheduler' = [scheduler EXCEPT !.pc = "clean"]
    BY <1>17 DEF SyncPoster
  <2>2. /\ scheduler'.pc = "clean" /\ scheduler'.todo = scheduler.todo
        /\ scheduler'.now = scheduler.now /\ scheduler'.seen = scheduler.seen
        /\ scheduler'.list = scheduler.list
    BY <1>2, <1>3, <2>1, PcShape DEF SchedulerPc
  <2>3. r.custom => p = picture[i]
    BY <1>3, <2>1 DEF Owned
  <2> HIDE DEF p
  <2>4. poster'[i] = p /\ \A k \in Ids \ {i} : poster'[k] = poster[k]
    BY <1>2, <1>3, <2>1 DEF Types
  <2>5. OnlyVideo(i)
    BY <1>1, <1>3, <2>1, <2>4 DEF OnlyVideo, OnlyRow
  <2>6. NowFits(i) => PosterOk(i)'
    BY <1>1, <2>1, <2>3, <2>4 DEF NowFits, PosterOk, Number
  <2>7. NowFits(i) => NowFits(i)'
    BY <1>9, <2>1, <2>2, <2>6 DEF NowFits
  <2> QED BY <1>3, <1>4, <1>5, <1>8, <2>1, <2>2, <2>5, <2>7
<1>18. CASE MarkClean
  <2>1. /\ file' = file /\ manifest' = manifest /\ poster' = poster
        /\ disturbed' = disturbed /\ scheduler.pc = "clean" /\ NextVideo
    BY <1>18 DEF MarkClean, remote
  <2>2. PICK new : /\ Writes(i, new) /\ SameVideo(new, row[i]) /\ SameText(new, row[i])
                   /\ SamePoster(new, row[i]) /\ ~new.dirty
    BY <1>2, <1>3, <1>18, <2>1, MarkCleanShape
  <2>3. OnlyVideo(i) /\ row'[i] = new
    BY <1>1, <1>2, <1>3, <2>1, <2>2, WritesVideo
  <2>4. NowFits(i) => RestState(i)'
    BY <1>1, <2>1, <2>2, <2>3
       DEF NowFits, RestState, ManifestOk, PosterOk, SameText, SamePoster, Number
  <2> QED BY <1>3, <1>4, <1>5, <1>6, <2>1, <2>3, <2>4
<1>19. CASE UploadFails
  <2>1. /\ row' = row /\ file' = file /\ manifest' = manifest /\ poster' = poster
        /\ disturbed' = disturbed /\ NextVideo /\ scheduler.pc \notin {"idle", "next"}
    BY <1>19 DEF UploadFails, remote
  <2>2. row[i].dirty /\ FileOk(i) => RestState(i)'
    BY <1>8, <2>1 DEF RestState
  <2> QED BY <1>3, <1>4, <1>5, <1>6, <1>7, <2>1, <2>2
<1> QED BY <1>11, <1>12, <1>13, <1>14, <1>15, <1>16, <1>17, <1>18, <1>19 DEF SchedulerStep

-----------------------------------------------------------------------------
(* The catalog synchronisation.                                            *)

\* The synchronisation goes on with row i, or leaves it.
LEMMA SyncKeptCore ==
    ASSUME Sound, KeptInv, NEW i \in Ids, syncer.dir = i, OnlyRow(i),
           editor' = editor, scheduler' = scheduler, file' = file,
           manifest' = manifest, poster' = poster,
           disturbed \subseteq disturbed', syncer'.dir \in {0, i},
           row'[i].there /\ i \notin disturbed' =>
               /\ syncer'.dir = i => SyncerFits(i)'
               /\ syncer'.dir # i => row'[i].segments /\ RestState(i)'
    PROVE  KeptInv'
<1>1. 0 \notin Ids
  BY NumbersIn
<1>2. ASSUME NEW k \in Ids \ {i}, row[k].there
      PROVE  RowSame(k) /\ StoreSame(k) /\ EditorsSame(k) /\ SchedulerSame(k) /\ SyncerSame(k)
  <2>1. SyncerSame(k)
    BY <1>1 DEF SyncerSame
  <2>2. RowSame(k) /\ StoreSame(k)
    BY DEF OnlyRow, RowSame, StoreSame, SameVideo, SameText, SamePoster
  <2> QED BY <2>1, <2>2, ActorsSame
<1>3. ASSUME row'[i].there, i \notin disturbed' PROVE Kept(i)'
  <2>1. ~SchedulerAt(i) /\ \A e \in Editors : ~At(e, i)
    <3>1. CASE row[i].there
      BY <1>3, <3>1 DEF KeptInv, Kept, Alone
    <3>2. CASE ~row[i].there
      BY <3>2 DEF Sound, EditorInv, EditorOk, SchedulerInv, At
    <3> QED BY <3>1, <3>2
  <2>2. ~SchedulerAt(i)' /\ \A e \in Editors : ~At(e, i)'
    BY <2>1 DEF SchedulerAt, At
  <2>3. Alone(i)' /\ EditorFits(i)'
    BY <2>2 DEF Alone, EditorFits
  <2>4. SchedulerFits(i)'
    BY <2>2 DEF SchedulerFits, SchedulerAt
  <2>5. Whole(i)' /\ (~Working(i)' => RestState(i)')
    BY <1>3, <2>2 DEF Whole, Working
  <2> QED BY <1>3, <2>3, <2>4, <2>5 DEF Kept
<1>4. \A k \in Ids \ {i} : row'[k].there => row[k].there
  BY DEF OnlyRow
<1> QED BY <1>2, <1>3, <1>4, KeptOthers

\* The synchronisation is between two manifests before and after the step.
LEMMA BetweenKept ==
    ASSUME Sound, KeptInv, UNCHANGED <<row, file, picture, manifest, poster, editor, scheduler>>,
           disturbed \subseteq disturbed', syncer.dir = 0, syncer'.dir = 0
    PROVE  KeptInv'
<1> SUFFICES ASSUME NEW i \in Ids, row'[i].there, i \notin disturbed' PROVE Kept(i)'
  BY DEF KeptInv
<1>1. Kept(i)
  BY DEF KeptInv
<1>2. SyncerSame(i)
  BY NumbersIn DEF SyncerSame
<1>3. UNCHANGED <<manifest, poster, picture, file>> /\ row' = row /\ editor' = editor
      /\ scheduler' = scheduler
  OBVIOUS
<1>4. RowSame(i) /\ StoreSame(i) /\ EditorsSame(i) /\ SchedulerSame(i)
  BY <1>3, ActorsSame
<1> QED BY <1>1, <1>2, <1>4, KeptFrame

\* The synchronisation begins with a manifest, whose row nobody works on or is disturbed
\* from now on.
LEMMA LoadManifestKept ==
    ASSUME Inv, LoadManifest PROVE KeptInv' /\ PayloadInv'
<1>1. UNCHANGED <<row, file, picture, manifest, poster, editor, scheduler>>
  BY DEF LoadManifest, SyncFrame
<1>2. Sound /\ Types /\ KeptInv /\ PayloadInv
  BY DEF Inv, Sound
<1>3. syncer.pc = "load" /\ syncer.dir = 0
  BY <1>2 DEF LoadManifest, Sound, SyncerInv
<1>4. CASE syncer' = IdleSyncer /\ disturbed' = disturbed
  <2>1. syncer'.pc = "idle" /\ syncer'.dir = 0
    BY <1>4 DEF IdleSyncer
  <2> QED BY <1>1, <1>2, <1>3, <1>4, <2>1, BetweenKept DEF PayloadInv
<1>5. CASE syncer'.pc = "load" /\ syncer'.dir = syncer.dir /\ disturbed' = disturbed
  <2>1. syncer'.dir = 0 /\ disturbed \subseteq disturbed'
    BY <1>3, <1>5
  <2>2. KeptInv'
    BY <1>1, <1>2, <1>3, <2>1, BetweenKept
  <2> QED BY <1>5, <2>2 DEF PayloadInv
<1>6. ASSUME NEW d \in syncer.todo, syncer'.pc = "lookup", syncer'.dir = d,
             syncer'.payload = manifest[d], Join({i \in Ids : row[i].path = d})
      PROVE  KeptInv' /\ PayloadInv'
  <2>1. PayloadInv'
    BY <1>1, <1>6 DEF PayloadInv
  <2>2. ASSUME NEW i \in Ids, row'[i].there, i \notin disturbed' PROVE Kept(i)'
    <3>1. row[i].there /\ i \notin disturbed /\ Kept(i) /\ i # 0
      BY <1>1, <1>2, <1>6, <2>2, NumbersIn DEF Join, KeptInv
    <3>2. UNCHANGED <<manifest, poster, picture, file>> /\ row' = row /\ editor' = editor
          /\ scheduler' = scheduler
      BY <1>1
    <3>3. RowSame(i) /\ StoreSame(i) /\ EditorsSame(i) /\ SchedulerSame(i)
      BY <3>2, ActorsSame
    <3>4. CASE i # d
      <4>1. SyncerSame(i)
        BY <1>3, <1>6, <3>1, <3>4 DEF SyncerSame
      <4> QED BY <3>1, <3>3, <4>1, KeptFrame
    <3>5. CASE i = d
      <4>1. row[i].path = i
        BY <3>1 DEF Inv, Own, OwnRows, OwnRow, Owned
      <4>2. ~Working(i)
        BY <1>2, <1>6, <2>2, <3>1, <3>5, <4>1, WorkingIs DEF Join, Inv
      <4>3. ~SchedulerAt(i)' /\ \A e \in Editors : ~At(e, i)'
        BY <3>2, <4>2 DEF SchedulerAt, At, Working
      <4>4. Alone(i)' /\ EditorFits(i)' /\ Whole(i)' /\ Working(i)'
        BY <1>6, <3>5, <4>3 DEF Alone, EditorFits, Whole, Working
      <4>5. SchedulerFits(i)'
        BY <4>3 DEF SchedulerFits, SchedulerAt
      <4>6. SyncerFits(i)'
        BY <1>6, <3>2, <3>5 DEF SyncerFits
      <4> QED BY <4>4, <4>5, <4>6 DEF Kept
    <3> QED BY <3>4, <3>5
  <2> QED BY <2>1, <2>2 DEF KeptInv
<1>7. \/ syncer' = IdleSyncer /\ disturbed' = disturbed
      \/ \E d \in syncer.todo :
            /\ syncer'.pc = "lookup" /\ syncer'.dir = d /\ syncer'.payload = manifest[d]
            /\ Join({i \in Ids : row[i].path = d})
      \/ syncer'.pc = "load" /\ syncer'.dir = syncer.dir /\ disturbed' = disturbed
  BY <1>2, LoadManifestShape
<1> QED BY <1>4, <1>5, <1>6, <1>7

LEMMA SyncStepKept ==
    ASSUME IdReturns, Inv, Discover \/ SyncStep,
           NEW i, i = syncer.dir, NEW m, m = syncer.payload
    PROVE  KeptInv' /\ PayloadInv'
<1>1. UNCHANGED <<file, manifest, poster, editor, scheduler>>
  BY DEF SyncStep, Discover, LoadManifest, LookupVideo, CreateVideo, UpdateVideo, DeleteSegments,
     InsertSegments, RestorePoster, PointToRestored, FinalUpdate, SyncFrame
<1>2. Sound /\ Types /\ KeptInv /\ PayloadInv
  BY DEF Inv, Sound
<1>3. syncer.pc \notin {"idle", "load"} => i \in Ids /\ i # 0 /\ m \in Manifest /\ Names(m, i)
  BY <1>2, SyncerNow, NumbersIn DEF Inv, Own, OwnSyncer
<1>4. syncer.pc \notin {"idle", "load", "lookup", "create"} =>
          /\ syncer.id = i /\ row[i].there /\ Owned(row[i], i) /\ RowOk(row[i])
  BY <1>2, <1>3, SyncerNow, NumbersIn DEF Inv, Own, OwnSyncer, OwnRows, OwnRow
<1>5. syncer.pc \notin {"idle", "load"} /\ row[i].there /\ i \notin disturbed => SyncerFits(i)
  BY <1>2, <1>3 DEF KeptInv, Kept
<1>6. ASSUME syncer.pc \notin {"idle", "load"}, OnlyRow(i), disturbed \subseteq disturbed',
             syncer'.dir \in {0, i},
             row'[i].there /\ i \notin disturbed' =>
                 /\ syncer'.dir = i => SyncerFits(i)'
                 /\ syncer'.dir # i => row'[i].segments /\ RestState(i)'
      PROVE  KeptInv'
  BY <1>1, <1>2, <1>3, <1>6, SyncKeptCore
<1>7. syncer'.pc \notin {"lookup", "create"} => PayloadInv'
  BY DEF PayloadInv
<1>8. ASSUME syncer.pc \notin {"idle", "load"}, NEW new, Writes(i, new), picture' = picture
      PROVE  OnlyRow(i) /\ row'[i] = new
  BY <1>1, <1>2, <1>3, <1>8 DEF Types, Writes, OnlyRow
\* The synchronisation goes to pc with the same video.
<1>9. ASSUME syncer.pc \notin {"idle", "load"}, NEW pc \in SyncerPc,
             \/ syncer' = [syncer EXCEPT !.pc = pc]
             \/ \E k \in Ids : syncer' = [syncer EXCEPT !.pc = pc, !.id = k]
      PROVE  /\ syncer'.pc = pc /\ syncer'.dir = i /\ syncer'.payload = m
             /\ syncer'.seen = syncer.seen
  BY <1>2, <1>9 DEF Types, SyncerType
<1>10. CASE Discover
  <2>1. /\ UNCHANGED <<row, file, picture, manifest, poster, editor, scheduler>>
        /\ disturbed' = disturbed /\ syncer.pc = "idle"
    BY <1>1, <1>10 DEF Discover
  <2>2. syncer'.pc = "load" /\ syncer'.dir = 0
    BY <1>2, <1>10, DiscoverShape
  <2>3. syncer.dir = 0
    BY <1>2, <2>1 DEF Sound, SyncerInv
  <2> QED BY <1>2, <1>7, <2>1, <2>2, <2>3, BetweenKept
<1>11. CASE LoadManifest
  BY <1>11, LoadManifestKept
<1>12. CASE LookupVideo
  <2>1. row' = row /\ picture' = picture /\ disturbed' = disturbed
    BY <1>12 DEF LookupVideo
  <2>2. /\ syncer.pc = "lookup" /\ syncer'.dir = i /\ syncer'.payload = m
        /\ syncer'.pc \in {"create", "update"}
    BY <1>2, <1>12, LookupVideoShape
  <2>3. OnlyRow(i)
    BY <1>1, <2>1 DEF OnlyRow
  <2>4. row[i].there /\ i \notin disturbed => SyncerFits(i)'
    BY <1>1, <1>5, <2>1, <2>2 DEF SyncerFits
  <2>5. KeptInv'
    BY <1>6, <2>1, <2>2, <2>3, <2>4
  <2>6. PayloadInv'
    BY <1>1, <1>2, <2>1, <2>2 DEF PayloadInv
  <2> QED BY <2>5, <2>6
<1>13. CASE CreateVideo
  <2>1. picture' = picture /\ disturbed' = disturbed /\ syncer.pc = "create"
    BY <1>13 DEF CreateVideo
  <2>2. PICK k \in Ids, new \in Row :
           /\ k = Max({0} \cup {l \in Ids : row[l].there}) + 1
           /\ Writes(k, new) /\ SameText(new, m)
           /\ syncer' = [syncer EXCEPT !.pc = "insert", !.id = k]
    BY <1>2, <1>3, <1>13, <2>1, CreateVideoShape
  <2>3. k = i /\ ~row[i].there
    BY <1>2, <2>1, <2>2, NewId DEF Inv, Own, OwnSyncer
  <2>4. m = manifest[i]
    BY <1>2, <2>1, <2>3 DEF PayloadInv
  <2>5. syncer'.pc = "insert" /\ syncer'.dir = i /\ syncer'.payload = m
    BY <1>9, <2>1, <2>2 DEF SyncerPc
  <2>6. OnlyRow(i) /\ row'[i] = new
    BY <1>8, <2>1, <2>2, <2>3
  <2>7. SyncerFits(i)'
    BY <1>1, <2>2, <2>4, <2>5, <2>6 DEF SyncerFits, SameText
  <2> QED BY <1>6, <1>7, <2>1, <2>5, <2>6, <2>7
<1>14. CASE UpdateVideo
  <2>1. /\ picture' = picture /\ disturbed' = disturbed /\ syncer.pc = "update"
        /\ syncer' = [syncer EXCEPT !.pc = "delete"]
    BY <1>14 DEF UpdateVideo
  <2>2. PICK new : Writes(i, new) /\ SameText(new, m)
    BY <1>2, <1>3, <1>4, <1>14, <2>1, UpdateVideoShape
  <2>3. syncer'.pc = "delete" /\ syncer'.dir = i /\ syncer'.payload = m
    BY <1>9, <2>1 DEF SyncerPc
  <2>4. OnlyRow(i) /\ row'[i] = new
    BY <1>8, <2>1, <2>2
  <2>5. SyncerFits(i) => SyncerFits(i)'
    BY <1>1, <2>2, <2>3, <2>4 DEF SyncerFits, SameText
  <2> QED BY <1>4, <1>5, <1>6, <1>7, <2>1, <2>3, <2>4, <2>5
<1>15. CASE DeleteSegments \/ InsertSegments
  <2>1. PICK pc \in {"insert", "restore"}, b \in BOOLEAN :
           /\ syncer.pc \in {"delete", "insert"} /\ (pc = "restore" => b)
           /\ syncer' = [syncer EXCEPT !.pc = pc]
           /\ row' = [row EXCEPT ![i].segments = b]
    BY <1>4, <1>15 DEF DeleteSegments, InsertSegments
  <2>2. picture' = picture /\ disturbed' = disturbed
    BY <1>15 DEF DeleteSegments, InsertSegments
  <2>3. PICK new : /\ Writes(i, new) /\ new.segments = b /\ SameText(new, row[i])
    BY <1>2, <1>3, <2>1, SegmentsShape
  <2>4. syncer'.pc = pc /\ syncer'.dir = i /\ syncer'.payload = m
    BY <1>9, <2>1 DEF SyncerPc
  <2>5. OnlyRow(i) /\ row'[i] = new
    BY <1>8, <2>1, <2>2, <2>3
  <2>6. SyncerFits(i) => SyncerFits(i)'
    BY <1>1, <2>1, <2>3, <2>4, <2>5 DEF SyncerFits, SameText
  <2> QED BY <1>4, <1>5, <1>6, <1>7, <2>1, <2>2, <2>4, <2>5, <2>6
<1>16. CASE RestorePoster
  <2>1. row' = row /\ syncer.pc = "restore"
    BY <1>16 DEF RestorePoster
  <2>2. CASE NextManifest /\ BrokenOff({i}) /\ picture' = picture
    <3>1. syncer'.pc = "load" /\ syncer'.dir = 0
      BY <1>2, <2>2, NextManifestShape
    <3>2. disturbed \subseteq disturbed' /\ i \in disturbed'
      BY <2>2 DEF BrokenOff
    <3>3. OnlyRow(i)
      BY <1>1, <2>1, <2>2 DEF OnlyRow
    <3> QED BY <1>6, <1>7, <2>1, <3>1, <3>2, <3>3
  <2>3. CASE /\ m.name # 0 => poster[m.home] # None
             /\ picture' = IF m.name = 0 THEN picture
                           ELSE [picture EXCEPT ![m.name] =
                                    [n |-> poster[m.home].n, coded |-> ~poster[m.home].coded]]
             /\ syncer' = [syncer EXCEPT !.pc = "point"] /\ disturbed' = disturbed
    <3>1. syncer'.pc = "point" /\ syncer'.dir = i /\ syncer'.payload = m
      BY <1>9, <2>1, <2>3 DEF SyncerPc
    <3>2. OnlyRow(i) /\ (m.name # 0 => Number(poster[i])' = Number(picture[i])')
      <4>1. CASE m.name = 0
        BY <1>1, <2>1, <2>3, <4>1 DEF OnlyRow
      <4>2. CASE m.name # 0
        <5> DEFINE p == [n |-> poster[i].n, coded |-> ~poster[i].coded]
        <5>1. m.name = i /\ m.home = i
          BY <1>3, <2>1, <4>2 DEF Names
        <5>2. p \in Picture /\ p.n = poster[i].n
          BY <1>2, <1>3, <2>1, <2>3, <4>2, <5>1, RestorePictureIn
        <5>3. picture' = [picture EXCEPT ![i] = p] /\ poster[i] # None
          BY <2>3, <4>2, <5>1
        <5> HIDE DEF p
        <5>4. picture'[i] = p /\ \A k \in Ids \ {i} : picture'[k] = picture[k]
          BY <1>2, <1>3, <2>1, <5>3 DEF Types
        <5>5. p # None
          BY <5>2, NoneAssumption
        <5>6. Number(poster[i])' = Number(picture[i])'
          BY <1>1, <5>2, <5>3, <5>4, <5>5 DEF Number
        <5> QED BY <1>1, <2>1, <5>4, <5>6 DEF OnlyRow
      <4> QED BY <4>1, <4>2
    <3>3. SyncerFits(i) => SyncerFits(i)'
      BY <1>1, <2>1, <3>1, <3>2 DEF SyncerFits, SameText, Number
    <3> QED BY <1>4, <1>5, <1>6, <1>7, <2>1, <2>3, <3>1, <3>2, <3>3
  <2> QED BY <1>4, <1>16, <2>1, <2>2, <2>3 DEF RestorePoster
<1>17. CASE PointToRestored
  <2>1. picture' = picture /\ disturbed' = disturbed /\ syncer.pc = "point"
    BY <1>17 DEF PointToRestored
  <2>2. PICK new : /\ Writes(i, new) /\ Restored(new, row[i], m)
                   /\ syncer' = [syncer EXCEPT !.pc = "final", !.seen = new]
    BY <1>2, <1>3, <1>4, <1>17, <2>1, PointToRestoredShape
  <2>3. /\ syncer'.pc = "final" /\ syncer'.dir = i /\ syncer'.payload = m
        /\ syncer'.seen = new
    BY <1>2, <2>2 DEF Types, SyncerType
  <2>4. OnlyRow(i) /\ row'[i] = new
    BY <1>8, <2>1, <2>2
  <2>5. SyncerFits(i) => SyncerFits(i)'
    BY <1>1, <2>1, <2>2, <2>3, <2>4
       DEF SyncerFits, SameText, Restored, SameVideo, Number
  <2> QED BY <1>4, <1>5, <1>6, <1>7, <2>1, <2>3, <2>4, <2>5
<1>18. CASE FinalUpdate
  <2>1. picture' = picture /\ disturbed' = disturbed /\ syncer.pc = "final" /\ NextManifest
    BY <1>18 DEF FinalUpdate
  <2>2. syncer.seen \in Row /\ syncer.dir \in Ids
    BY <1>2, <2>1, SyncerNow
  <2>3. PICK new : /\ Writes(i, new) /\ SameVideo(new, row[i]) /\ SameText(new, syncer.seen)
                   /\ new.custom = syncer.seen.custom /\ ~new.dirty
    BY <1>2, <1>3, <1>4, <1>18, <2>1, <2>2, FinalUpdateShape
  <2>4. syncer'.pc = "load" /\ syncer'.dir = 0
    BY <1>2, <2>1, NextManifestShape
  <2>5. OnlyRow(i) /\ row'[i] = new
    BY <1>8, <2>1, <2>3
  <2>6. m # None
    BY <1>3, <2>1, NoneAssumption
  <2>7. SyncerFits(i) => row'[i].segments /\ ManifestOk(i)'
    BY <1>1, <2>1, <2>3, <2>5, <2>6 DEF SyncerFits, ManifestOk, SameText, SameVideo
  <2>8. SyncerFits(i) => PosterOk(i)'
    BY <1>1, <2>1, <2>3, <2>5 DEF SyncerFits, PosterOk, Number
  <2>9. SyncerFits(i) => row'[i].segments /\ RestState(i)'
    BY <2>3, <2>5, <2>7, <2>8 DEF RestState
  <2> QED BY <1>3, <1>4, <1>5, <1>6, <1>7, <2>1, <2>4, <2>5, <2>9
<1> QED BY <1>10, <1>11, <1>12, <1>13, <1>14, <1>15, <1>16, <1>17, <1>18 DEF SyncStep

-----------------------------------------------------------------------------
(* The other steps.                                                        *)

LEMMA FallDueKept == ASSUME Inv, NEW k \in Ids, FallDue(k) PROVE KeptInv' /\ PayloadInv'
<1>1. /\ UNCHANGED <<file, picture, manifest, poster>> /\ editor' = editor
      /\ scheduler' = scheduler /\ syncer' = syncer /\ disturbed' = disturbed
  BY DEF FallDue, SchedulerFrame, remote
<1>2. Sound /\ Types /\ KeptInv /\ PayloadInv
  BY DEF Inv, Sound
<1>3. PICK new : /\ Writes(k, new) /\ SameVideo(new, row[k]) /\ SameText(new, row[k])
                 /\ SamePoster(new, row[k]) /\ new.dirty = row[k].dirty
  BY <1>2, FallDueShape
<1>4. row'[k] = new /\ \A i \in Ids \ {k} : row'[i] = row[i]
  BY <1>2, <1>3, WriteSound
<1>5. \A i \in Ids : RowSame(i)
  BY <1>3, <1>4 DEF RowSame, SameVideo, SameText, SamePoster
<1>6. RowsStay
  BY <1>5 DEF RowsStay, RowSame, SameVideo
<1>7. ASSUME NEW i \in Ids, row'[i].there, i \notin disturbed' PROVE Kept(i)'
  <2>1. row[i].there
    BY <1>5, <1>7 DEF RowSame, SameVideo
  <2>2. Kept(i)
    BY <1>1, <1>2, <1>7, <2>1 DEF KeptInv
  <2>3. StoreSame(i) /\ EditorsSame(i) /\ SchedulerSame(i) /\ SyncerSame(i)
    BY <1>1, ActorsSame DEF StoreSame
  <2> QED BY <1>5, <2>2, <2>3, KeptFrame
<1> QED BY <1>1, <1>2, <1>6, <1>7, PayloadSame DEF KeptInv

\* The files to upload may go, the process may stop, or nothing happens.
LEMMA OthersKept ==
    ASSUME Inv, MoveCacheRoot \/ Restart \/ UNCHANGED vars PROVE KeptInv' /\ PayloadInv'
<1>1. UNCHANGED <<row, picture, manifest, poster>>
  BY DEF MoveCacheRoot, Restart, vars, local, remote
<1>2. Sound /\ Types /\ KeptInv /\ PayloadInv
  BY DEF Inv, Sound
<1>3. ASSUME NEW i \in Ids PROVE StoreSame(i) /\ RowSame(i)
  <2>1. file'[i] = file[i] \/ file'[i] = None
    BY DEF MoveCacheRoot, Restart, vars, local
  <2> QED BY <1>1, <2>1, ActorsSame DEF StoreSame
<1>4. RowsStay
  BY <1>1 DEF RowsStay
<1>5. CASE UNCHANGED <<editor, scheduler, syncer, disturbed>>
  <2>1. ASSUME NEW i \in Ids, row'[i].there, i \notin disturbed' PROVE Kept(i)'
    <3>1. Kept(i)
      BY <1>1, <1>2, <1>5, <2>1 DEF KeptInv
    <3>2. EditorsSame(i) /\ SchedulerSame(i) /\ SyncerSame(i)
      BY <1>5, ActorsSame
    <3> QED BY <1>3, <3>1, <3>2, KeptFrame
  <2> QED BY <1>1, <1>2, <1>4, <1>5, <2>1, PayloadSame DEF KeptInv
<1>6. CASE Restart
  <2>1. /\ editor' = [e \in Editors |-> IdleEditor] /\ scheduler' = IdleScheduler
        /\ syncer' = IdleSyncer
        /\ BrokenOff({i \in Ids : EditorAt(i) \/ SyncerAt(i)})
    BY <1>6 DEF Restart
  <2>2. /\ \A e \in Editors : editor'[e].pc = "idle"
        /\ scheduler'.todo = {} /\ scheduler'.now = 0
        /\ syncer'.pc = "idle" /\ syncer'.dir = 0
    BY <2>1 DEF IdleEditor, IdleScheduler, IdleSyncer
  <2>3. PayloadInv'
    BY <2>2 DEF PayloadInv
  <2>4. ASSUME NEW i \in Ids, row'[i].there, i \notin disturbed' PROVE Kept(i)'
    <3>1. row[i].there /\ i \notin disturbed /\ i # 0
      BY <1>1, <2>1, <2>4, NumbersIn DEF BrokenOff
    <3>2. Kept(i)
      BY <1>2, <3>1 DEF KeptInv
    <3>3. syncer.dir # i /\ \A e \in Editors : ~At(e, i)
      BY <1>2, <2>1, <2>4, <3>1, WorkingIs DEF BrokenOff, Inv
    <3>4. RestState(i)
      <4>1. CASE SchedulerAt(i)
        BY <3>2, <4>1 DEF Kept, SchedulerFits, RestState
      <4>2. CASE ~SchedulerAt(i)
        BY <3>2, <3>3, <4>2 DEF Kept, Working
      <4> QED BY <4>1, <4>2
    <3>5. RestState(i)'
      BY <1>3, <3>4, StateSame
    <3>6. row[i].segments
      BY <3>2, <3>3 DEF Kept, Whole
    <3>7. ~SchedulerAt(i)' /\ syncer'.dir # i /\ \A e \in Editors : ~At(e, i)'
      BY <2>2, <3>1 DEF SchedulerAt, At
    <3>8. Alone(i)' /\ Whole(i)' /\ EditorFits(i)' /\ SchedulerFits(i)'
      BY <1>1, <3>6, <3>7 DEF Alone, Whole, EditorFits, SchedulerFits, SchedulerAt
    <3> QED BY <3>5, <3>7, <3>8 DEF Kept
  <2> QED BY <2>3, <2>4 DEF KeptInv
<1> QED BY <1>5, <1>6 DEF MoveCacheRoot, vars

LEMMA InitKept == ASSUME Init PROVE KeptInv /\ PayloadInv
<1>1. /\ \A e \in Editors : editor[e].pc = "idle"
      /\ scheduler.todo = {} /\ scheduler.now = 0 /\ syncer.pc = "idle" /\ syncer.dir = 0
  BY DEF Init, IdleEditor, IdleScheduler, IdleSyncer
<1>2. ASSUME NEW i \in Ids, row[i].there PROVE Kept(i)
  <2>1. i \in Known /\ i # 0
    BY <1>2, InitShape, NumbersIn DEF NoRow
  <2>2. i \in Stored
    BY <2>1, LibraryAssumption
  <2>3. ~SchedulerAt(i) /\ syncer.dir # i /\ \A e \in Editors : ~At(e, i)
    BY <1>1, <2>1 DEF SchedulerAt, At
  <2>4. row[i].segments /\ ~row[i].custom /\ ~row[i].dirty /\ row[i].title = 0 /\ row[i].tags = 0
    BY <2>1, InitShape
  <2>5. manifest[i] = [video |-> i, title |-> 0, tags |-> 0, name |-> 0, home |-> i]
    BY <2>2, InitShape
  <2>6. manifest[i] # None
    <3>1. manifest[i] \in Manifest
      BY <2>5, NumbersIn DEF Manifest
    <3> QED BY <3>1, NoneAssumption
  <2>7. RestState(i)
    BY <2>4, <2>5, <2>6 DEF RestState, ManifestOk, PosterOk
  <2>8. Alone(i) /\ Whole(i) /\ EditorFits(i) /\ SchedulerFits(i)
    BY <2>3, <2>4 DEF Alone, Whole, EditorFits, SchedulerFits, SchedulerAt
  <2> QED BY <2>3, <2>7, <2>8 DEF Kept
<1>3. PayloadInv
  BY <1>1 DEF PayloadInv
<1> QED BY <1>2, <1>3 DEF KeptInv

LEMMA StepKept == ASSUME IdReturns, Inv, [Next]_vars PROVE Inv'
<1>1. Sound' /\ Own'
  BY StepSound, StepOwn DEF Inv
<1>2. CASE \E e \in Editors, i \in Ids, kind \in EditKinds : ReceiveEdit(e, i, kind)
  BY <1>1, <1>2, ReceiveKept DEF Inv
<1>3. CASE \E e \in Editors : EditStep(e)
  <2>1. PICK e \in Editors : EditStep(e)
    BY <1>3
  <2>2. PICK i : i = editor[e].id
    OBVIOUS
  <2> QED BY <1>1, <2>1, <2>2, EditStepKept DEF Inv
<1>4. CASE \E i \in Ids : FallDue(i)
  BY <1>1, <1>4, FallDueKept DEF Inv
<1>5. CASE SchedulerStep
  <2>1. PICK i : i = scheduler.now
    OBVIOUS
  <2> QED BY <1>1, <1>5, <2>1, SchedulerStepKept DEF Inv
<1>6. CASE Discover \/ SyncStep
  <2>1. PICK i, m : i = syncer.dir /\ m = syncer.payload
    OBVIOUS
  <2> QED BY <1>1, <1>6, <2>1, SyncStepKept DEF Inv
<1>7. CASE MoveCacheRoot \/ Restart \/ UNCHANGED vars
  BY <1>1, <1>7, OthersKept DEF Inv
<1> QED BY <1>2, <1>3, <1>4, <1>5, <1>6, <1>7 DEF Next

\* A clean row that nobody works on is what the remote says, title, tags and poster
\* (CleanIsPublished), unless since its last edit two at once worked on it or work on it
\* was broken off: for any number of editors and videos, with any work on other rows at
\* the same time, failed uploads, and catalog synchronisations that take pending edits
\* back.  It needs IdReturns: where restored rows get other ids, the code violates it.
THEOREM LibraryCleanIsPublished == ASSUME IdReturns PROVE Spec => []CleanIsPublished
<1>1. Init => Inv
  BY InitSound, InitOwn, InitKept DEF Inv
<1>2. Inv /\ [Next]_vars => Inv'
  BY StepKept
<1>3. Inv => CleanIsPublished
  <2> SUFFICES ASSUME Inv, NEW i \in Ids, Settled(i)
               PROVE  LET m == manifest[row[i].path] IN
                      /\ m # None /\ m.video = row[i].video
                      /\ m.title = row[i].title /\ m.tags = row[i].tags
                      /\ (m.name # 0) <=> row[i].custom
                      /\ row[i].custom =>
                            Number(poster[m.home]) = Number(picture[row[i].name])
    BY DEF CleanIsPublished
  <2>1. row[i].there /\ ~row[i].dirty /\ ~AtWork(i) /\ i \notin disturbed
    BY DEF Settled
  <2>2. row[i].path = i /\ row[i].video = i /\ (row[i].custom => row[i].name = i)
    BY <2>1 DEF Inv, Own, OwnRows, OwnRow, Owned
  <2>3. ~Working(i)
    BY <2>1, WorkingIs DEF Inv
  <2>4. ManifestOk(i) /\ PosterOk(i)
    BY <2>1, <2>3 DEF Inv, KeptInv, Kept, RestState
  <2>5. manifest[i].video = i /\ manifest[i].home = i
    BY <2>4 DEF Inv, Own, OwnFiles, Names, ManifestOk
  <2> QED BY <2>2, <2>4, <2>5 DEF ManifestOk, PosterOk
<1> QED BY <1>1, <1>2, <1>3, PTL DEF Spec

=============================================================================
