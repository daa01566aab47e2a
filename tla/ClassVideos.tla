---------------------------- MODULE ClassVideos -----------------------------
(***************************************************************************)
(* The private videos of a class: their rows in the class database, their  *)
(* objects in the SFTP store, the worker that converts an uploaded file to *)
(* an encrypted HLS bundle, and the durable queue of objects to delete.    *)
(*                                                                         *)
(* Database and store have no common transaction.  An upload stores, then  *)
(* inserts; the worker stores, then commits under the lock of its row; a   *)
(* deletion deletes the object, then the row; rows that go queue what they *)
(* name.  Any of them can stop between two steps.  Titles, contents and    *)
(* tickets' signatures are left out.                                       *)
(***************************************************************************)
EXTENDS Classroom

CONSTANTS
    Videos,     \* ids of videos; an upload draws a fresh one and its keys
    Workers,    \* replicas that convert
    Batch       \* deletions read in a round (25 in the code)

ASSUME VideoConstants == Batch \in Nat \ {0}

VARIABLES
    video,      \* rows of class_videos
    drawn,      \* ids that have been drawn
    objects,    \* complete files in the store
    parts,      \* ".part" files in the store
    upload,     \* uploads under way
    job,        \* what a worker converts, with its transaction
    deletions,  \* class_video_deletions, oldest first
    cleaning,   \* the round of deletions under way
    strayed     \* keys whose writer died, or lost its lock or its connection

videoVars == <<video, drawn, objects, parts, upload, job, deletions, cleaning, strayed>>
allVars == <<classroomVars, videoVars>>

(* The random name of an upload, with one extension and with the other.    *)
Source(v) == [video |-> v, part |-> "source"]
Output(v) == [video |-> v, part |-> "hls"]
StoreKeys == {Source(v) : v \in Videos} \cup {Output(v) : v \in Videos}

\* None is no key, no row, no upload and no conversion.
ASSUME VideoNulls ==
    /\ None \notin StoreKeys
    /\ None \notin [class : Classes, audience : {"all", "selected"}, viewers : SUBSET Users,
                    state : {"processing", "ready", "failed"},
                    key : StoreKeys \cup {None}, output : StoreKeys \cup {None}]
    /\ None \notin [class : Classes, user : Users, audience : {"all", "selected"},
                    viewers : SUBSET Users, step : {"put", "check", "insert", "undo"}]
    /\ None \notin [video : Videos, locked : BOOLEAN, step : {"open", "put", "done", "failed"}]

VideosInit ==
    /\ video = [v \in Videos |-> None]
    /\ drawn = {} /\ objects = {} /\ parts = {} /\ strayed = {}
    /\ upload = [v \in Videos |-> None]
    /\ job = [w \in Workers |-> None]
    /\ deletions = <<>> /\ cleaning = <<>>

-----------------------------------------------------------------------------
(* Who may do what.                                                        *)

Row(v) == video[v] # None
RowOf(c, v) == Row(v) /\ video[v].class = c
Draw(v) == v \notin drawn /\ drawn' = drawn \cup {v}

Staff(c, u) == class[c].owner = u \/ member[c][u] \in {"owner", "teacher"}

(* videoViewers: those selected belong to the class.                       *)
ViewersOK(c, audience, viewers) ==
    \/ audience = "all" /\ viewers = {}
    \/ /\ audience = "selected"
       /\ \A u \in viewers : member[c][u] # None \/ class[c].owner = u

(* authorizedPrivateVideo.                                                 *)
Authorized(c, v, u) ==
    /\ RowOf(c, v) /\ video[v].key # None /\ video[v].state = "ready"
    /\ Staff(c, u) \/ video[v].audience = "all" \/ u \in video[v].viewers

(* privateVideoPlayback issues a ticket, streamPrivateVideo and serveHLS   *)
(* honour it: each looks at the role and the row again.                    *)
Playable(c, v, u) ==
    /\ Exists(c) /\ (Staff(c, u) \/ member[c][u] # None)
    /\ Authorized(c, v, u) /\ video[v].key \in objects

(* The keys a row names, and whose row it is that names a key.             *)
KeysOf(v) == {k \in StoreKeys : Row(v) /\ (video[v].key = k \/ video[v].output = k)}
Referenced(k) == k \in KeysOf(k.video)

(* queue_class_video_deletion as of migration 007. *)
QueuedSourceOnly(q, ks) ==
    LET new == {k \in ks : k.part = "source" /\ k \notin ToSet(q)}
    IN  q \o SetToSeq(new)

(* queue_class_video_deletion: ON CONFLICT DO NOTHING.                     *)
Queued(q, ks) == q \o SetToSeq(ks \ ToSet(q))

Locked(v) == \E w \in Workers : job[w] # None /\ job[w].video = v /\ job[w].locked

-----------------------------------------------------------------------------
(* Uploads.  A crash leaves what is stored where it is.                    *)

Uploading(v, step) == upload[v] # None /\ upload[v].step = step

(* uploadPrivateVideo, as far as the ".part" file of Put.                  *)
StartUpload(v, c, u, audience, viewers) ==
    /\ Draw(v) /\ Exists(c) /\ Staff(c, u) /\ ViewersOK(c, audience, viewers)
    /\ upload' = [upload EXCEPT ![v] =
           [class |-> c, user |-> u, audience |-> audience, viewers |-> viewers, step |-> "put"]]
    /\ parts' = parts \cup {Source(v)}
    /\ UNCHANGED <<classroomVars, video, objects, job, deletions, cleaning, strayed>>

EndUpload(v) == upload' = [upload EXCEPT ![v] = None]

(* Put renames the complete file.                                          *)
StoreUpload(v) ==
    /\ Uploading(v, "put")
    /\ objects' = objects \cup {Source(v)} /\ parts' = parts \ {Source(v)}
    /\ upload' = [upload EXCEPT ![v].step = "check"]
    /\ UNCHANGED <<classroomVars, video, drawn, job, deletions, cleaning, strayed>>

(* Put fails: the ".part" is removed, or the connection that would do it   *)
(* is gone, and the rename may have happened all the same.                 *)
StoreUploadFails(v) ==
    /\ Uploading(v, "put")
    /\ \/ parts' = parts \ {Source(v)} /\ UNCHANGED <<objects, strayed>>
       \/ UNCHANGED <<parts, objects, strayed>>
       \/ /\ parts' = parts \ {Source(v)}
          /\ objects' = objects \cup {Source(v)} /\ strayed' = strayed \cup {Source(v)}
    /\ EndUpload(v)
    /\ UNCHANGED <<classroomVars, video, drawn, job, deletions, cleaning>>

(* The role is checked again after the transfer.                           *)
RecheckUpload(v) ==
    LET c == upload[v].class IN
    /\ Uploading(v, "check")
    /\ \/ /\ Exists(c) /\ Staff(c, upload[v].user)
          /\ upload' = [upload EXCEPT ![v].step = "insert"]
       \/ upload' = [upload EXCEPT ![v].step = "undo"]
    /\ UNCHANGED <<classroomVars, video, drawn, objects, parts, job, deletions, cleaning, strayed>>

(* INSERT INTO class_videos, which needs the class; the error of a commit  *)
(* may come after the commit.                                              *)
InsertVideo(v) ==
    LET up == upload[v] IN
    /\ Uploading(v, "insert")
    /\ \/ /\ Exists(up.class)
          /\ video' = [video EXCEPT ![v] =
                [class |-> up.class, audience |-> up.audience, viewers |-> up.viewers,
                 state |-> "processing", key |-> Source(v), output |-> Output(v)]]
          /\ \/ upload' = [upload EXCEPT ![v] = None]
             \/ upload' = [upload EXCEPT ![v].step = "undo"]
       \/ upload' = [upload EXCEPT ![v].step = "undo"] /\ UNCHANGED video
    /\ UNCHANGED <<classroomVars, drawn, objects, parts, job, deletions, cleaning, strayed>>

(* The deferred Delete of an upload that did not commit.                   *)
UndoUpload(v) ==
    /\ Uploading(v, "undo")
    /\ \/ objects' = objects \ {Source(v)} /\ UNCHANGED strayed
       \/ strayed' = strayed \cup {Source(v)} /\ UNCHANGED objects
    /\ EndUpload(v)
    /\ UNCHANGED <<classroomVars, video, drawn, parts, job, deletions, cleaning>>

CrashUpload(v) ==
    /\ upload[v] # None
    /\ strayed' = strayed \cup {Source(v)}
    /\ EndUpload(v)
    /\ UNCHANGED <<classroomVars, video, drawn, objects, parts, job, deletions, cleaning>>

(* A video that is a link to YouTube: no object.                           *)
AddLink(v, c, u, audience, viewers) ==
    /\ Draw(v) /\ Exists(c) /\ Staff(c, u) /\ ViewersOK(c, audience, viewers)
    /\ video' = [video EXCEPT ![v] =
           [class |-> c, audience |-> audience, viewers |-> viewers,
            state |-> "ready", key |-> None, output |-> None]]
    /\ UNCHANGED <<classroomVars, objects, parts, upload, job, deletions, cleaning, strayed>>

(* PUT of a video, link or file: an UPDATE waits for the lock of the row.  *)
UpdateVideo(v, c, u, audience, viewers) ==
    /\ RowOf(c, v) /\ Exists(c) /\ Staff(c, u) /\ ViewersOK(c, audience, viewers)
    /\ ~Locked(v)
    /\ video' = [video EXCEPT ![v] = [@ EXCEPT !.audience = audience, !.viewers = viewers]]
    /\ UNCHANGED <<classroomVars, drawn, objects, parts, upload, job, deletions, cleaning, strayed>>

-----------------------------------------------------------------------------
(* processNextVideo, in a transaction that holds the row.                  *)

Working(w, step) == job[w] # None /\ job[w].step = step

(* FOR UPDATE SKIP LOCKED.                                                 *)
TakeVideo(w) ==
    /\ job[w] = None
    /\ \E v \in Videos :
          /\ Row(v) /\ video[v].state = "processing" /\ ~Locked(v)
          /\ job' = [job EXCEPT ![w] = [video |-> v, locked |-> TRUE, step |-> "open"]]
    /\ UNCHANGED <<classroomVars, video, drawn, objects, parts, upload, deletions, cleaning, strayed>>

(* Open, putHLS: the source is read and converted, and the ".part" of the  *)
(* bundle is created, unless a run that crashed has left one.              *)
Convert(w) ==
    LET v == job[w].video IN
    /\ Working(w, "open")
    /\ \/ /\ Source(v) \in objects /\ Output(v) \notin parts
          /\ parts' = parts \cup {Output(v)}
          /\ job' = [job EXCEPT ![w].step = "put"]
       \/ job' = [job EXCEPT ![w].step = "failed"] /\ UNCHANGED parts
    /\ UNCHANGED <<classroomVars, video, drawn, objects, upload, deletions, cleaning, strayed>>

(* The rename that ends Put fails on a name that exists.  Without its lock *)
(* a worker goes on all the same.                                          *)
PutOutput(w) ==
    LET k == Output(job[w].video) IN
    /\ Working(w, "put")
    /\ \/ /\ k \notin objects
          /\ objects' = objects \cup {k} /\ parts' = parts \ {k}
          /\ job' = [job EXCEPT ![w].step = "done"]
       \/ /\ parts' \in {parts, parts \ {k}}
          /\ objects' = objects
          /\ job' = [job EXCEPT ![w].step = "failed"]
    /\ strayed' = IF job[w].locked THEN strayed ELSE strayed \cup {k}
    /\ UNCHANGED <<classroomVars, video, drawn, upload, deletions, cleaning>>

EndJob(w) == job' = [job EXCEPT ![w] = None]

(* Mutant of PublishVideo: the bundle is queued in place of the source. *)
PublishVideoQueueOutput(w) ==
    LET v == job[w].video IN
    /\ Working(w, "done") /\ job[w].locked
    /\ video' = [video EXCEPT ![v] =
           [@ EXCEPT !.key = Output(v), !.output = None, !.state = "ready"]]
    /\ deletions' = Queued(deletions, {Output(v)})
    /\ EndJob(w)
    /\ UNCHANGED <<classroomVars, drawn, objects, parts, upload, cleaning, strayed>>

(* The row names the bundle and the source is queued, in one commit.       *)
PublishVideo(w) ==
    LET v == job[w].video IN
    /\ Working(w, "done") /\ job[w].locked
    /\ video' = [video EXCEPT ![v] =
           [@ EXCEPT !.key = Output(v), !.output = None, !.state = "ready"]]
    /\ deletions' = Queued(deletions, {Source(v)})
    /\ EndJob(w)
    /\ UNCHANGED <<classroomVars, drawn, objects, parts, upload, cleaning, strayed>>

FailVideo(w) ==
    /\ Working(w, "failed") /\ job[w].locked
    /\ video' = [video EXCEPT ![job[w].video] = [@ EXCEPT !.state = "failed"]]
    /\ EndJob(w)
    /\ UNCHANGED <<classroomVars, drawn, objects, parts, upload, deletions, cleaning, strayed>>

(* The process dies, or the statement or the commit fails: rolled back.    *)
CrashWorker(w) ==
    /\ job[w] # None /\ EndJob(w)
    /\ UNCHANGED <<classroomVars, video, drawn, objects, parts, upload, deletions, cleaning, strayed>>

(* The database connection of the transaction breaks, and the lock goes.   *)
LoseTransaction(w) ==
    /\ job[w] # None /\ job[w].locked
    /\ job' = [job EXCEPT ![w].locked = FALSE]
    /\ UNCHANGED <<classroomVars, video, drawn, objects, parts, upload, deletions, cleaning, strayed>>

-----------------------------------------------------------------------------
(* Deletion of a video.                                                    *)

AskDeleteVideo(r, u, c, v) ==
    /\ call[r] = None /\ Exists(c) /\ Staff(c, u) /\ RowOf(c, v)
    /\ Admit(r, IF video[v].key = None THEN "unlist" ELSE "unstore", c, v, video[v].key)
    /\ UNCHANGED videoVars

(* The object whose key was read goes first; a failure ends the request.   *)
Unstore(r) ==
    /\ Running(r, "unstore")
    /\ \/ objects' = objects \ {call[r].role} /\ Next_op(r, "unlist")
       \/ Done(r) /\ objects' \in {objects, objects \ {call[r].role}}
    /\ UNCHANGED <<class, member, assigned, unowned, studyVars>>
    /\ UNCHANGED <<video, drawn, parts, upload, job, deletions, cleaning, strayed>>

(* DELETE waits for the worker; the trigger queues what the row names by   *)
(* then.                                                                   *)
Unlist(r) ==
    LET v == call[r].target IN
    /\ Running(r, "unlist") /\ ~Locked(v)
    /\ IF Row(v)
       THEN /\ video' = [video EXCEPT ![v] = None]
            /\ deletions' = Queued(deletions, KeysOf(v))
       ELSE UNCHANGED <<video, deletions>>
    /\ Done(r)
    /\ UNCHANGED <<class, member, assigned, unowned, studyVars>>
    /\ UNCHANGED <<drawn, objects, parts, upload, job, cleaning, strayed>>

(* DELETE FROM classes cascades to the videos, and fires their trigger.    *)
DeleteClassWithVideos(r) ==
    LET vs == {v \in Videos : RowOf(call[r].class, v)} IN
    /\ DeleteClass(r)
    /\ \A v \in vs : ~Locked(v)
    /\ video' = [v \in Videos |-> IF v \in vs THEN None ELSE video[v]]
    /\ deletions' = Queued(deletions, UNION {KeysOf(v) : v \in vs})
    /\ UNCHANGED <<drawn, objects, parts, upload, job, cleaning, strayed>>

(* cleanupVideos reads a round of the queue ...                            *)
StartCleanup ==
    /\ cleaning = <<>> /\ deletions # <<>>
    /\ cleaning' = SubSeq(deletions, 1, Min({Batch, Len(deletions)}))
    /\ UNCHANGED <<classroomVars, video, drawn, objects, parts, upload, job, deletions, strayed>>

(* Mutant of CleanOne: out of the queue before it is out of the store. *)
CleanOneDequeuedFirst(done) ==
    LET k == Head(cleaning) IN
    /\ cleaning # <<>>
    /\ deletions' = RemoveFirst(deletions, k)
    /\ \/ done /\ objects' = objects \ {k} /\ cleaning' = Tail(cleaning)
       \/ ~done /\ UNCHANGED objects /\ cleaning' = <<>>
    /\ UNCHANGED <<classroomVars, video, drawn, parts, upload, job, strayed>>

(* ... and deletes each key from the store, then from the queue; the first *)
(* error, like a crash, leaves the rest for the next round.                *)
CleanOne(done) ==
    LET k == Head(cleaning) IN
    /\ cleaning # <<>>
    /\ \/ /\ done
          /\ objects' = objects \ {k} /\ cleaning' = Tail(cleaning)
          /\ deletions' = RemoveFirst(deletions, k)
       \/ /\ ~done
          /\ objects' \in {objects, objects \ {k}}
          /\ cleaning' = <<>> /\ UNCHANGED deletions
    /\ UNCHANGED <<classroomVars, video, drawn, parts, upload, job, strayed>>

-----------------------------------------------------------------------------
VideoRequests(r) ==
    \/ \E u \in Users, c \in Classes, v \in Videos : AskDeleteVideo(r, u, c, v)
    \/ Unstore(r) \/ Unlist(r) \/ DeleteClassWithVideos(r)

VideoWrites ==
    \E v \in Videos, c \in Classes, u \in Users, viewers \in SUBSET Users :
        \E audience \in {"all", "selected"} :
            \/ StartUpload(v, c, u, audience, viewers)
            \/ AddLink(v, c, u, audience, viewers)
            \/ UpdateVideo(v, c, u, audience, viewers)

VideoBackground ==
    \/ \E v \in Videos :
          \/ StoreUpload(v) \/ StoreUploadFails(v) \/ RecheckUpload(v)
          \/ InsertVideo(v) \/ UndoUpload(v) \/ CrashUpload(v)
    \/ \E w \in Workers :
          \/ TakeVideo(w) \/ Convert(w) \/ PutOutput(w) \/ PublishVideo(w)
          \/ FailVideo(w) \/ CrashWorker(w) \/ LoseTransaction(w)
    \/ StartCleanup
    \/ \E done \in BOOLEAN : CleanOne(done)

VideosNext ==
    \/ (ClassNext \/ StudyNext) /\ UNCHANGED videoVars
    \/ \E r \in Requests : VideoRequests(r)
    \/ VideoWrites \/ VideoBackground

(* The cleaner runs every minute, and a store that keeps answering some    *)
(* day deletes.                                                            *)
CleanupFairness == WF_allVars(StartCleanup) /\ SF_allVars(CleanOne(TRUE))

VideosSpec ==
    /\ ClassroomInit /\ VideosInit /\ [][VideosNext]_allVars
    /\ DeliveryFairness /\ CleanupFairness

-----------------------------------------------------------------------------
(* Properties.                                                             *)

(* video_cleanup.go, "doesn't leak disk space": an object in the store is  *)
(* named by a row or by the queue, or being uploaded, unless its writer    *)
(* died or lost its lock or connection.                                    *)
NothingLeaked ==
    \A k \in objects :
        Referenced(k) \/ k \in ToSet(deletions) \/ upload[k.video] # None \/ k \in strayed

(* A video somebody can watch stays so while the class, the members and    *)
(* its row stay: no late commit of the worker, undone upload or round of   *)
(* the cleaner takes its object, only a request to delete it.              *)
PlayableKept ==
    [][\A c \in Classes, v \in Videos, u \in Users :
          Playable(c, v, u) /\ class' = class /\ member' = member /\ video'[v] = video[v]
          => \/ Playable(c, v, u)'
             \/ \E r \in Requests : Running(r, "unstore") /\ call[r].target = v]_allVars

(* A queued key leaves the queue, with its object deleted, whatever round  *)
(* fails before.                                                           *)
QueueDrains ==
    \A v \in Videos : \A k \in {Source(v), Output(v)} :
        k \in ToSet(deletions) ~> (k \notin ToSet(deletions) /\ k \notin objects)
=============================================================================
