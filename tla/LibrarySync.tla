---------------------------- MODULE LibrarySync ----------------------------
(***************************************************************************)
(* Titles, tags and posters on their way between the table videos and the  *)
(* remote manifests: the requests that edit a video (services/             *)
(* video_metadata.py, services/video_artwork.py), the scheduler thread     *)
(* that uploads what was edited ten minutes earlier (services/             *)
(* manifest_sync_scheduler.py, services/video_manifest_sync.py), and the   *)
(* catalog synchronisation that reads it back (services/catalog_sync.py).  *)
(*                                                                         *)
(* A step is one SQLite transaction, one file operation or one call of the *)
(* storage back end.  A title, a tag list or a picture is the number of    *)
(* the edit it comes from.                                                 *)
(***************************************************************************)
EXTENDS Integers, FiniteSets, FiniteSetsExt

CONSTANTS LastId,     (* row ids are 1..LastId; directory d of the remote is *)
                      (* the one whose name is derived from row id d         *)
          Stored,     (* videos whose manifest is in the remote at the start *)
          Known,      (* those of them that have a row at the start          *)
          Editors,    (* threads that serve edit requests                    *)
          EditKinds,  (* the requests: "metadata", "tags", "artwork"         *)
          Blocked,    (* videos whose manifest can never be uploaded         *)
          MaxEdits,   (* bound: edits                                        *)
          MaxSyncs,   (* bound: catalog synchronisations                     *)
          MaxMishaps, (* bound: failed calls, restarts and cache moves       *)
          None

ASSUME LibraryAssumption ==
    /\ LastId \in Nat /\ MaxEdits \in Nat /\ MaxSyncs \in Nat /\ MaxMishaps \in Nat
    /\ Known \subseteq Stored /\ Stored \subseteq 1..LastId
    /\ EditKinds \subseteq {"metadata", "tags", "artwork"}

VARIABLES row,       (* table videos                                         *)
          file,      (* manifest.remote.bin of a row: the manifest to upload *)
          picture,   (* stored posters, by the row id in their file name     *)
          manifest,  (* remote manifests, by directory                       *)
          poster,    (* remote posters, by directory                         *)
          editor, scheduler, syncer,
          edits, syncs, mishaps,
          disturbed  (* history: rows on which two of them worked at once,   *)
                     (* or whose work was broken off                         *)

local == <<row, file, picture>>
remote == <<manifest, poster>>
bounds == <<edits, syncs, mishaps>>
vars == <<row, file, picture, manifest, poster, editor, scheduler, syncer,
          edits, syncs, mishaps, disturbed>>

Ids == 1..LastId
Edits == 0..MaxEdits

\* custom is has_custom_poster, name the row id in the file name of
\* poster_path (0: NULL), due whether ten minutes have passed since
\* manifest_sync_requested_at, segments whether there are rows of segments.
Row == [there : BOOLEAN, video : Ids \cup {0}, title : Edits, tags : Edits,
        custom : BOOLEAN, name : Ids \cup {0}, dirty : BOOLEAN, due : BOOLEAN,
        path : Ids \cup {0}, segments : BOOLEAN]
NoRow == [there |-> FALSE, video |-> 0, title |-> 0, tags |-> 0, custom |-> FALSE,
          name |-> 0, dirty |-> FALSE, due |-> FALSE, path |-> 0, segments |-> FALSE]

\* What a manifest says; name is custom_poster.file_name (0: not enabled), and
\* home the row id that custom_poster.remote_path is derived from.
Manifest == [video : Ids, title : Edits, tags : Edits, name : Ids \cup {0}, home : Ids]

\* A picture, and whether it is encrypted as read_artwork_bytes expects it.
Picture == [n : Edits, coded : BOOLEAN]

ASSUME NoneAssumption == None \notin Manifest \cup Picture

EditorPc == {"idle", "save", "fields", "remove", "store", "point", "check", "request",
             "read", "write", "path"}
Editor == [pc : EditorPc, id : Ids \cup {0}, title : Edits, n : Edits,
           payload : Manifest \cup {None}]
IdleEditor == [pc |-> "idle", id |-> 0, title |-> 0, n |-> 0, payload |-> None]

SchedulerPc == {"idle", "next", "read", "write", "path", "upload", "poster", "clean"}
IdleScheduler == [pc |-> "idle", todo |-> {}, now |-> 0, seen |-> NoRow, payload |-> None,
                  list |-> [i \in Ids |-> NoRow]]

SyncerPc == {"idle", "load", "lookup", "create", "update", "delete", "insert", "restore",
             "point", "final"}
IdleSyncer == [pc |-> "idle", todo |-> {}, dir |-> 0, id |-> 0, custom |-> FALSE,
               payload |-> None, seen |-> NoRow]

\* Mutated form of BuildPayload: no poster is written as it is found.
BuildPayloadRaw(i) ==
    [video |-> row[i].video, title |-> row[i].title, tags |-> row[i].tags,
     name |-> IF row[i].custom THEN row[i].name ELSE None, home |-> i]

\* build_manifest_payload for row i.
BuildPayload(i) ==
    [video |-> row[i].video, title |-> row[i].title, tags |-> row[i].tags,
     name |-> IF row[i].custom THEN row[i].name ELSE 0, home |-> i]

\* Every stored video was imported under its own id, with an extracted poster.
Init ==
    /\ row = [i \in Ids |-> IF i \in Known
                 THEN [NoRow EXCEPT !.there = TRUE, !.video = i, !.name = i, !.path = i,
                                    !.segments = TRUE]
                 ELSE NoRow]
    /\ manifest = [d \in Ids |-> IF d \in Stored
                 THEN [video |-> d, title |-> 0, tags |-> 0, name |-> 0, home |-> d]
                 ELSE None]
    /\ file = [i \in Ids |-> IF i \in Known THEN manifest[i] ELSE None]
    /\ picture = [i \in Ids |-> IF i \in Known THEN [n |-> 0, coded |-> TRUE] ELSE None]
    /\ poster = [d \in Ids |-> None]
    /\ editor = [e \in Editors |-> IdleEditor]
    /\ scheduler = IdleScheduler
    /\ syncer = IdleSyncer
    /\ edits = 0 /\ syncs = 0 /\ mishaps = 0
    /\ disturbed = {}

-----------------------------------------------------------------------------
(* Who works on what.                                                      *)

EditorAt(i) == \E e \in Editors : editor[e].pc # "idle" /\ editor[e].id = i
SchedulerAt(i) == i \in scheduler.todo \/ scheduler.now = i
SyncerAt(i) == syncer.dir # 0 /\ (syncer.id = i \/ row[i].path = syncer.dir)
AtWork(i) == EditorAt(i) \/ SchedulerAt(i) \/ SyncerAt(i)

\* Beginning to work on the rows I.
Join(I) == disturbed' = disturbed \cup {i \in I : AtWork(i)}
BrokenOff(I) == disturbed' = disturbed \cup I

Mishap == mishaps < MaxMishaps /\ mishaps' = mishaps + 1 /\ UNCHANGED <<edits, syncs>>
NoMishap == UNCHANGED bounds

\* can_rewrite_video_manifests.
CanRewrite(i) == row[i].there /\ row[i].path # 0 /\ row[i].segments

-----------------------------------------------------------------------------
(* Requests that edit a video.                                             *)

Goto(e, pc) == editor' = [editor EXCEPT ![e].pc = pc]
EndEdit(e) == editor' = [editor EXCEPT ![e] = IdleEditor]

EditFrame == UNCHANGED <<manifest, poster, scheduler, syncer>>

\* A request arrives and reads the video.  patch_video_tags passes on the title
\* it has read.  An edit that nobody interferes with writes everything anew, so
\* it puts right what an earlier disturbance has left.
ReceiveEdit(e, i, kind) ==
    /\ editor[e].pc = "idle" /\ edits < MaxEdits /\ row[i].there
    /\ edits' = edits + 1
    /\ editor' = [editor EXCEPT ![e] = [IdleEditor EXCEPT
           !.id = i, !.n = edits + 1,
           !.title = IF kind = "tags" THEN row[i].title ELSE edits + 1,
           !.pc = CASE kind = "artwork" -> "remove"
                    [] kind # "artwork" /\ CanRewrite(i) -> "save"
                    [] OTHER -> "fields"]]
    /\ IF AtWork(i) \/ ~CanRewrite(i) THEN Join({i}) ELSE disturbed' = disturbed \ {i}
    /\ UNCHANGED <<local, syncs, mishaps>> /\ EditFrame

\* update_video_metadata.
SaveMetadata(e) ==
    LET d == editor[e] IN
    /\ d.pc = "save"
    /\ row' = [row EXCEPT ![d.id].title = d.title, ![d.id].tags = d.n,
                          ![d.id].dirty = TRUE, ![d.id].due = FALSE]
    /\ Goto(e, "read")
    /\ UNCHANGED <<file, picture, disturbed>> /\ NoMishap /\ EditFrame

\* update_video_fields, when there is no manifest to rewrite: not marked dirty.
SaveFields(e) ==
    LET d == editor[e] IN
    /\ d.pc = "fields"
    /\ row' = [row EXCEPT ![d.id].title = d.title, ![d.id].tags = d.n]
    /\ EndEdit(e)
    /\ UNCHANGED <<file, picture, disturbed>> /\ NoMishap /\ EditFrame

\* delete_video_artwork_files, before the new picture has been looked at.
RemovePicture(e) ==
    /\ editor[e].pc = "remove"
    /\ picture' = [picture EXCEPT ![editor[e].id] = None]
    /\ Goto(e, "store")
    /\ UNCHANGED <<row, file, disturbed>> /\ NoMishap /\ EditFrame

StorePicture(e) ==
    /\ editor[e].pc = "store"
    /\ picture' = [picture EXCEPT ![editor[e].id] = [n |-> editor[e].n, coded |-> TRUE]]
    /\ Goto(e, "point")
    /\ UNCHANGED <<row, file, disturbed>> /\ NoMishap /\ EditFrame

\* update_video_artwork_paths.
PointToPicture(e) ==
    LET i == editor[e].id IN
    /\ editor[e].pc = "point"
    /\ row' = [row EXCEPT ![i].custom = TRUE, ![i].name = i]
    /\ Goto(e, "check")
    /\ UNCHANGED <<file, picture, disturbed>> /\ NoMishap /\ EditFrame

CheckRewrite(e) ==
    /\ editor[e].pc = "check"
    /\ IF CanRewrite(editor[e].id) THEN Goto(e, "request") ELSE EndEdit(e)
    /\ UNCHANGED <<local, disturbed>> /\ NoMishap /\ EditFrame

\* request_video_manifest_sync.
RequestSync(e) ==
    /\ editor[e].pc = "request"
    /\ row' = [row EXCEPT ![editor[e].id].dirty = TRUE, ![editor[e].id].due = FALSE]
    /\ Goto(e, "read")
    /\ UNCHANGED <<file, picture, disturbed>> /\ NoMishap /\ EditFrame

\* rewrite_local_video_manifests: read the row, write the file, set the path.
ReadForManifest(e) ==
    LET i == editor[e].id IN
    /\ editor[e].pc = "read"
    /\ \/ /\ row[i].segments
          /\ editor' = [editor EXCEPT ![e].pc = "write", ![e].payload = BuildPayload(i)]
          /\ UNCHANGED disturbed
       \/ ~row[i].segments /\ EndEdit(e) /\ BrokenOff({i})
    /\ UNCHANGED local /\ NoMishap /\ EditFrame

WriteManifest(e) ==
    /\ editor[e].pc = "write"
    /\ file' = [file EXCEPT ![editor[e].id] = editor[e].payload]
    /\ Goto(e, "path")
    /\ UNCHANGED <<row, picture, disturbed>> /\ NoMishap /\ EditFrame

SetPath(e) ==
    LET i == editor[e].id IN
    /\ editor[e].pc = "path"
    /\ row' = [row EXCEPT ![i].path = i]
    /\ EndEdit(e)
    /\ UNCHANGED <<file, picture, disturbed>> /\ NoMishap /\ EditFrame

\* A picture that cannot be decoded, or a file that cannot be written.
EditRaises(e) ==
    /\ editor[e].pc \in {"store", "write"} /\ Mishap
    /\ EndEdit(e) /\ BrokenOff({editor[e].id})
    /\ UNCHANGED local /\ EditFrame

EditStep(e) ==
    \/ SaveMetadata(e) \/ SaveFields(e) \/ RemovePicture(e) \/ StorePicture(e)
    \/ PointToPicture(e) \/ CheckRewrite(e) \/ RequestSync(e)
    \/ ReadForManifest(e) \/ WriteManifest(e) \/ SetPath(e) \/ EditRaises(e)

-----------------------------------------------------------------------------
(* The scheduler.                                                          *)

SchedulerFrame == UNCHANGED <<picture, editor, syncer>>

\* Ten minutes pass.
FallDue(i) ==
    /\ row[i].dirty /\ ~row[i].due
    /\ row' = [row EXCEPT ![i].due = TRUE]
    /\ UNCHANGED <<file, remote, scheduler, disturbed>> /\ NoMishap /\ SchedulerFrame

\* list_dirty_manifest_videos; rows that are not due are passed over.
ListDirty ==
    LET due == {i \in Ids : row[i].there /\ row[i].dirty /\ row[i].due} IN
    /\ scheduler.pc = "idle" /\ due # {}
    /\ scheduler' = [scheduler EXCEPT !.pc = "next", !.todo = due,
                         !.list = [i \in Ids |-> IF i \in due THEN row[i] ELSE NoRow]]
    /\ Join(due)
    /\ UNCHANGED <<row, file, remote>> /\ NoMishap /\ SchedulerFrame

\* The next video of the list, by id; its manifest is rewritten only when the
\* file to upload is missing.
TakeVideo ==
    /\ scheduler.pc = "next"
    /\ scheduler' =
          IF scheduler.todo = {} THEN IdleScheduler
          ELSE LET i == Min(scheduler.todo) IN
               [scheduler EXCEPT !.todo = @ \ {i}, !.now = i, !.seen = scheduler.list[i],
                   !.list[i] = NoRow, !.pc = IF file[i] = None THEN "read" ELSE "upload"]
    /\ UNCHANGED <<row, file, remote, disturbed>> /\ NoMishap /\ SchedulerFrame

NextVideo == scheduler' = [scheduler EXCEPT !.pc = "next", !.now = 0, !.seen = NoRow,
                                            !.payload = None]

SchedulerReads ==
    LET i == scheduler.now IN
    /\ scheduler.pc = "read"
    /\ IF row[i].segments
       THEN scheduler' = [scheduler EXCEPT !.pc = "write", !.payload = BuildPayload(i)]
       ELSE NextVideo
    /\ UNCHANGED <<row, file, remote, disturbed>> /\ NoMishap /\ SchedulerFrame

SchedulerWrites ==
    /\ scheduler.pc = "write"
    /\ file' = [file EXCEPT ![scheduler.now] = scheduler.payload]
    /\ scheduler' = [scheduler EXCEPT !.pc = "path", !.payload = None]
    /\ UNCHANGED <<row, remote, disturbed>> /\ NoMishap /\ SchedulerFrame

SchedulerSetsPath ==
    /\ scheduler.pc = "path"
    /\ row' = [row EXCEPT ![scheduler.now].path = scheduler.now]
    /\ scheduler' = [scheduler EXCEPT !.pc = "upload"]
    /\ UNCHANGED <<file, remote, disturbed>> /\ NoMishap /\ SchedulerFrame

\* _upload_remote_manifest, to the path of the row as it was listed.
UploadManifest ==
    /\ scheduler.pc = "upload" /\ scheduler.now \notin Blocked
    /\ file[scheduler.now] # None
    /\ manifest' = [manifest EXCEPT ![scheduler.seen.path] = file[scheduler.now]]
    /\ scheduler' = [scheduler EXCEPT !.pc = "poster"]
    /\ UNCHANGED <<row, file, poster, disturbed>> /\ NoMishap /\ SchedulerFrame

\* _sync_remote_custom_poster, from the row as it was listed.
SyncPoster ==
    LET r == scheduler.seen IN
    /\ scheduler.pc = "poster"
    /\ poster' = [poster EXCEPT ![scheduler.now] =
                     IF r.custom /\ r.name # 0 THEN picture[r.name] ELSE None]
    /\ scheduler' = [scheduler EXCEPT !.pc = "clean"]
    /\ UNCHANGED <<row, file, manifest, disturbed>> /\ NoMishap /\ SchedulerFrame

\* Mutated form of MarkClean: a failed upload is reported as done.
MarkCleanAlways ==
    /\ scheduler.pc \in {"upload", "clean"}
    /\ row' = [row EXCEPT ![scheduler.now].dirty = FALSE]
    /\ NextVideo
    /\ UNCHANGED <<file, remote, disturbed>> /\ NoMishap /\ SchedulerFrame

\* mark_video_manifest_sync_clean, whatever has happened to the row since.
MarkClean ==
    /\ scheduler.pc = "clean"
    /\ row' = [row EXCEPT ![scheduler.now].dirty = FALSE]
    /\ NextVideo
    /\ UNCHANGED <<file, remote, disturbed>> /\ NoMishap /\ SchedulerFrame

\* Mutated form of UploadFails: the exception ends the pass.
UploadFailsPass ==
    /\ scheduler.pc \in {"upload", "poster"}
    /\ \/ /\ scheduler.pc = "upload" /\ NoMishap
          /\ scheduler.now \in Blocked \/ file[scheduler.now] = None
       \/ scheduler.now \notin Blocked /\ Mishap
    /\ scheduler' = IdleScheduler
    /\ UNCHANGED <<row, file, remote, disturbed>> /\ SchedulerFrame

\* A call of the storage fails, or the file has gone since TakeVideo looked for
\* it: the row stays dirty, and the next one is tried.
UploadFails ==
    /\ scheduler.pc \in {"upload", "poster"}
    /\ \/ /\ scheduler.pc = "upload" /\ NoMishap
          /\ scheduler.now \in Blocked \/ file[scheduler.now] = None
       \/ scheduler.now \notin Blocked /\ Mishap
    /\ NextVideo
    /\ UNCHANGED <<row, file, remote, disturbed>> /\ SchedulerFrame

SchedulerStep ==
    \/ ListDirty \/ TakeVideo \/ SchedulerReads \/ SchedulerWrites \/ SchedulerSetsPath
    \/ UploadManifest \/ SyncPoster \/ MarkClean \/ UploadFails

-----------------------------------------------------------------------------
(* The catalog synchronisation.                                            *)

SyncFrame == UNCHANGED <<file, manifest, poster, editor, scheduler>>

NextManifest == syncer' = [IdleSyncer EXCEPT !.pc = "load", !.todo = syncer.todo]

\* _discover_manifest_paths.
Discover ==
    LET found == {d \in Ids : manifest[d] # None} IN
    /\ syncer.pc = "idle" /\ syncs < MaxSyncs
    /\ syncs' = syncs + 1
    /\ syncer' = [IdleSyncer EXCEPT !.pc = "load", !.todo = found]
    /\ UNCHANGED <<row, picture, edits, mishaps, disturbed>> /\ SyncFrame

\* _load_manifest; the order of the paths is that of encrypted names.
LoadManifest ==
    /\ syncer.pc = "load"
    /\ \/ /\ syncer.todo = {} /\ NoMishap
          /\ syncer' = IdleSyncer
          /\ UNCHANGED disturbed
       \/ \E d \in syncer.todo :
             /\ NoMishap
             /\ syncer' = [syncer EXCEPT !.pc = "lookup", !.todo = @ \ {d}, !.dir = d,
                                         !.payload = manifest[d]]
             /\ Join({i \in Ids : row[i].path = d})
       \/ \E d \in syncer.todo :      (* OSError, or an error of the back end *)
             /\ Mishap
             /\ syncer' \in {IdleSyncer, [syncer EXCEPT !.todo = @ \ {d}]}
             /\ UNCHANGED disturbed
    /\ UNCHANGED <<row, picture>> /\ SyncFrame

\* get_video_by_manifest_path.
LookupVideo ==
    LET found == {i \in Ids : row[i].there /\ row[i].path = syncer.dir} IN
    /\ syncer.pc = "lookup"
    /\ IF found = {}
       THEN syncer' = [syncer EXCEPT !.pc = "create"]
       ELSE syncer' = [syncer EXCEPT !.pc = "update", !.id = Min(found),
                                     !.custom = row[Min(found)].custom]
    /\ UNCHANGED <<row, picture, disturbed>> /\ NoMishap /\ SyncFrame

\* Bound: LastId rows.
CreateVideo ==
    LET m == syncer.payload
        i == Max({0} \cup {k \in Ids : row[k].there}) + 1 IN
    /\ syncer.pc = "create" /\ i \in Ids
    /\ row' = [row EXCEPT ![i] = [NoRow EXCEPT !.there = TRUE, !.video = m.video,
                  !.title = m.title, !.tags = m.tags, !.path = syncer.dir]]
    /\ syncer' = [syncer EXCEPT !.pc = "insert", !.id = i]
    /\ UNCHANGED <<picture, disturbed>> /\ NoMishap /\ SyncFrame

\* update_video_sync_metadata also forgets that the row was dirty.
UpdateVideo ==
    LET m == syncer.payload IN
    /\ syncer.pc = "update"
    /\ row' = [row EXCEPT ![syncer.id] = [@ EXCEPT !.video = m.video, !.title = m.title,
                  !.tags = m.tags, !.path = syncer.dir, !.custom = syncer.custom,
                  !.dirty = FALSE]]
    /\ syncer' = [syncer EXCEPT !.pc = "delete"]
    /\ UNCHANGED <<picture, disturbed>> /\ NoMishap /\ SyncFrame

DeleteSegments ==
    /\ syncer.pc = "delete"
    /\ row' = [row EXCEPT ![syncer.id].segments = FALSE]
    /\ syncer' = [syncer EXCEPT !.pc = "insert"]
    /\ UNCHANGED <<picture, disturbed>> /\ NoMishap /\ SyncFrame

InsertSegments ==
    /\ syncer.pc = "insert"
    /\ row' = [row EXCEPT ![syncer.id].segments = TRUE]
    /\ syncer' = [syncer EXCEPT !.pc = "restore"]
    /\ UNCHANGED <<picture, disturbed>> /\ NoMishap /\ SyncFrame

\* _restore_custom_poster downloads what the scheduler uploaded, which is
\* encrypted already, and encrypts it once more when it stores it; encrypting
\* twice under the same name gives the plain picture.  A missing poster is an
\* OSError: the rest of this manifest is left out.
RestorePoster ==
    LET m == syncer.payload IN
    /\ syncer.pc = "restore"
    /\ \/ /\ m.name # 0 => poster[m.home] # None
          /\ picture' = IF m.name = 0 THEN picture
                        ELSE [picture EXCEPT ![m.name] =
                                 [n |-> poster[m.home].n, coded |-> ~poster[m.home].coded]]
          /\ syncer' = [syncer EXCEPT !.pc = "point"]
          /\ UNCHANGED disturbed
       \/ /\ m.name # 0 /\ poster[m.home] = None
          /\ NextManifest /\ BrokenOff({syncer.id})
          /\ UNCHANGED picture
    /\ UNCHANGED row /\ NoMishap /\ SyncFrame

\* update_video_artwork_paths; the row it returns is what the last update
\* writes.
PointToRestored ==
    LET i == syncer.id  m == syncer.payload IN
    /\ syncer.pc = "point"
    /\ row' = [row EXCEPT ![i].custom = m.name # 0,
                          ![i].name = IF m.name # 0 THEN m.name ELSE @]
    /\ syncer' = [syncer EXCEPT !.pc = "final", !.seen = row'[i]]
    /\ UNCHANGED <<picture, disturbed>> /\ NoMishap /\ SyncFrame

FinalUpdate ==
    LET i == syncer.id  r == syncer.seen IN
    /\ syncer.pc = "final"
    /\ row' = [row EXCEPT ![i] = [@ EXCEPT !.title = r.title, !.tags = r.tags,
                  !.path = IF r.path # 0 THEN r.path ELSE syncer.dir,
                  !.custom = r.custom, !.dirty = FALSE]]
    /\ NextManifest
    /\ UNCHANGED <<picture, disturbed>> /\ NoMishap /\ SyncFrame

SyncStep ==
    \/ LoadManifest \/ LookupVideo \/ CreateVideo \/ UpdateVideo \/ DeleteSegments
    \/ InsertSegments \/ RestorePoster \/ PointToRestored \/ FinalUpdate

-----------------------------------------------------------------------------

\* update_public_settings moves the segment cache to a directory that was not
\* used before; the manifests to upload are not taken along.
MoveCacheRoot ==
    /\ \E i \in Ids : file[i] # None
    /\ Mishap
    /\ file' = [i \in Ids |-> None]
    /\ UNCHANGED <<row, picture, manifest, poster, editor, scheduler, syncer, disturbed>>

\* The process ends and is started again.
Restart ==
    /\ \/ scheduler.pc # "idle" \/ syncer.pc # "idle"
       \/ \E e \in Editors : editor[e].pc # "idle"
    /\ Mishap
    /\ editor' = [e \in Editors |-> IdleEditor]
    /\ scheduler' = IdleScheduler
    /\ syncer' = IdleSyncer
    /\ BrokenOff({i \in Ids : EditorAt(i) \/ SyncerAt(i)})
    /\ UNCHANGED <<local, remote>>

Next ==
    \/ \E e \in Editors : \/ \E i \in Ids, kind \in EditKinds : ReceiveEdit(e, i, kind)
                          \/ EditStep(e)
    \/ \E i \in Ids : FallDue(i)
    \/ SchedulerStep
    \/ Discover \/ SyncStep
    \/ MoveCacheRoot
    \/ Restart

Spec == Init /\ [][Next]_vars

\* Time passes, and the threads of the scheduler and of requests that have
\* begun keep running.
FairSpec ==
    /\ Spec
    /\ \A i \in Ids : WF_vars(FallDue(i))
    /\ WF_vars(SchedulerStep)
    /\ WF_vars(SyncStep)
    /\ \A e \in Editors : WF_vars(EditStep(e))

-----------------------------------------------------------------------------
(* Properties.                                                             *)

\* Every variable has the type its code has.
TypeOK ==
    /\ row \in [Ids -> Row]
    /\ file \in [Ids -> Manifest \cup {None}]
    /\ picture \in [Ids -> Picture \cup {None}]
    /\ manifest \in [Ids -> Manifest \cup {None}]
    /\ poster \in [Ids -> Picture \cup {None}]
    /\ editor \in [Editors -> Editor]
    /\ scheduler.pc \in SchedulerPc /\ scheduler.todo \subseteq Ids
    /\ scheduler.now \in Ids \cup {0} /\ scheduler.seen \in Row
    /\ scheduler.payload \in Manifest \cup {None}
    /\ syncer.pc \in SyncerPc /\ syncer.todo \subseteq Ids
    /\ syncer.dir \in Ids \cup {0} /\ syncer.id \in Ids \cup {0}
    /\ disturbed \subseteq Ids

\* Nobody works on the row, and nobody has disturbed the last one who did.
Settled(i) == row[i].there /\ ~row[i].dirty /\ ~AtWork(i) /\ i \notin disturbed

Number(p) == IF p = None THEN None ELSE p.n

\* A clean row is what the remote says, title, tags and poster, however uploads
\* fail and synchronisations take older edits back, while work on one row does
\* not overlap.  Two at once on one row, such as an edit between UploadManifest
\* and MarkClean, which is marked clean and never uploaded, or work broken off
\* may leave a clean row that differs; the next edit heals it.
CleanIsPublished ==
    \A i \in Ids : Settled(i) =>
        LET m == manifest[row[i].path] IN
        /\ m # None /\ m.video = row[i].video
        /\ m.title = row[i].title /\ m.tags = row[i].tags
        /\ (m.name # 0) <=> row[i].custom
        /\ row[i].custom => Number(poster[m.home]) = Number(picture[row[i].name])

\* However often the catalog is synchronised, a stored video has one row.  Not
\* kept by the code where restored rows get other ids than they had, and not
\* checked (README, section 6).
OneRowPerVideo ==
    \A i, k \in Ids : row[i].there /\ row[k].there /\ row[i].video = row[k].video => i = k

\* A row that is marked dirty becomes clean, even when the manifest of another
\* video can never be uploaded.
DirtyIsCleaned == \A i \in Ids \ Blocked : row[i].dirty ~> ~row[i].dirty

\* What an edit writes reaches the remote manifest, unless another edit came
\* after it, a catalog synchronisation took it back, or two at once worked on
\* the row: an edit during the upload of an earlier one is never uploaded.
EditsArrive ==
    \A i \in Ids \ Blocked, n \in 1..MaxEdits :
        row[i].there /\ row[i].dirty /\ row[i].tags = n
            ~> \/ \E d \in Ids : d = row[i].path /\ manifest[d] # None /\ manifest[d].tags = n
               \/ row[i].tags # n \/ i \in disturbed

=============================================================================
