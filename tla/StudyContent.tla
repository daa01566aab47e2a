---------------------------- MODULE StudyContent ----------------------------
(***************************************************************************)
(* The content of study sets in the study service: flashcards, quiz        *)
(* questions, and the imports that replace or append them, inside the      *)
(* request (import.go) or in a goroutine that a row of import_jobs reports *)
(* on (import_job.go).  A transaction is a step; the replacement of the    *)
(* questions is two, its DELETE and its INSERTs, because under READ        *)
(* COMMITTED the DELETE sees only what was committed when it started.      *)
(*                                                                         *)
(* Texts, media and the rows of a spreadsheet are left out: a file has     *)
(* Rows rows that can be imported, or is broken.  The questions of one     *)
(* save stand together for that save.                                      *)
(***************************************************************************)
EXTENDS Authz, Naturals, FiniteSetsExt

CONSTANTS
    Sets,           \* study sets
    SetOwner,       \* study_sets.user_id
    Users, Roles,   \* who edits, and their platform roles
    Requests,       \* saves and imports inside a request
    Jobs,           \* rows of import_jobs
    Rows, Chunk,    \* rows of a file, importChunkSize
    MaxCards,       \* bound on the ids of flashcards
    MaxEdits        \* bound on the edits by hand and the restarts

ASSUME ContentConstants ==
    /\ SetOwner \in [Sets -> Users]
    /\ Roles \in [Users -> SUBSET PlatformRoles]
    /\ Requests \cap Jobs = {}
    /\ Rows \in Nat \ {0} /\ Chunk \in Nat \ {0} /\ MaxCards \in Nat /\ MaxEdits \in Nat

(* None is no task and no row of import_jobs.                              *)
ASSUME ContentNulls ==
    /\ None \notin Requests \cup Jobs
    /\ None \notin [set : Sets, imported : Nat, recorded : BOOLEAN,
                    status : {"pending", "running", "done", "failed", "gone"}]

Tasks == Requests \cup Jobs

VARIABLES
    shelf,          \* every set: shown, hidden by a moderator, or deleted
    cards,          \* flashcards: id, set, position, and the task that made it
    nextId,         \* next id of a flashcard
    questions,      \* saves whose questions the set holds
    job,            \* import_jobs; recorded says that minio_key is set
    files,          \* uploads in the blob store, by job
    task,           \* requests and workers under way
    made,           \* rows each job has committed so far
    lost,           \* jobs whose goroutine, or its update of the status, was lost
    edits           \* edits by hand and restarts so far

contentVars == <<shelf, cards, nextId, questions, job, files, task, made, lost, edits>>
tables == <<shelf, cards, nextId, questions>>

Idle == [pc |-> "idle"]
Active(t) == task[t] # Idle
CardsOf(s) == {c \in cards : c.set = s}
Live(s) == shelf[s] # "deleted"

ContentInit ==
    /\ shelf = [s \in Sets |-> "shown"]
    /\ cards = {} /\ nextId = 1
    /\ questions = [s \in Sets |-> {}]
    /\ job = [j \in Jobs |-> None]
    /\ files = {}
    /\ task = [t \in Tasks |-> Idle]
    /\ made = [j \in Jobs |-> 0]
    /\ lost = {} /\ edits = 0

-----------------------------------------------------------------------------
(* Permission and bookkeeping.                                             *)

(* StudyWritePolicy.                                                       *)
WritePolicy(u, s, action) ==
    /\ shelf[s] = "shown"
    /\ Can(PlatformPrincipal(u, "user", Roles[u]), action,
           Resource("study-set", SetOwner[s], None, None))

(* checkOwner of the services: the owner, or whoever passed the policy.    *)
MayWrite(s, action) == \E u \in Users : WritePolicy(u, s, action)

New(t, pc, kind, s) ==
    [pc |-> pc, kind |-> kind, set |-> s, seen |-> {}, pos |-> 0, left |-> Rows,
     alone |-> \A x \in Tasks \ {t} : Active(x) => task[x].set # s]

(* Everybody else at work on the set is no longer alone.                   *)
Others(s, t) ==
    [x \in Tasks |-> IF x # t /\ Active(x) /\ task[x].set = s
                     THEN [task[x] EXCEPT !.alone = FALSE] ELSE task[x]]

Becomes(t, value) == task' = [task EXCEPT ![t] = value]
Goto(t, pc) == task' = [task EXCEPT ![t].pc = pc]
At(t, pc) == task[t].pc = pc

NewCards(t, s, n, pos) ==
    {[id |-> nextId + i, set |-> s, pos |-> pos + i, by |-> t] : i \in 0..(n - 1)}
Room(n) == nextId + n <= MaxCards + 1

(* MAX(position) + 1.                                                      *)
NextPosition(s) == IF CardsOf(s) = {} THEN 0 ELSE Max({c.pos : c \in CardsOf(s)}) + 1

-----------------------------------------------------------------------------
(* Handlers that are one transaction.                                      *)

(* An edit of the set by hand disturbs the imports under way.              *)
Editing(s, action) == edits < MaxEdits /\ MayWrite(s, action)
Edited(s) == edits' = edits + 1 /\ task' = Others(s, None)

CreateCard(s) ==
    /\ Editing(s, "study-set:Update") /\ Room(1)
    /\ cards' = cards \cup NewCards(None, s, 1, NextPosition(s))
    /\ nextId' = nextId + 1
    /\ Edited(s)
    /\ UNCHANGED <<shelf, questions, job, files, made, lost>>

DeleteCard(c) ==
    /\ Editing(c.set, "study-set:Update")
    /\ cards' = cards \ {c}
    /\ Edited(c.set)
    /\ UNCHANGED <<shelf, nextId, questions, job, files, made, lost>>

(* BulkSave by hand: cards of the set are moved, which rewrites them, or   *)
(* deleted; ids of other sets are skipped.                                 *)
BulkSaveCards(s, moved, gone, pos) ==
    /\ Editing(s, "study-set:Update")
    /\ moved \cap gone = {}
    /\ cards' = (cards \ (moved \cup gone))
                    \cup {[c EXCEPT !.pos = pos, !.by = None] : c \in moved}
    /\ Edited(s)
    /\ UNCHANGED <<shelf, nextId, questions, job, files, made, lost>>

DeleteQuestions(s) ==
    /\ Editing(s, "study-set:Update")
    /\ questions' = [questions EXCEPT ![s] = {}]
    /\ Edited(s)
    /\ UNCHANGED <<shelf, cards, nextId, job, files, made, lost>>

(* DELETE FROM study_sets cascades to everything that refers to the set.   *)
DeleteSet(s) ==
    /\ Editing(s, "study-set:Delete")
    /\ shelf' = [shelf EXCEPT ![s] = "deleted"]
    /\ cards' = cards \ CardsOf(s)
    /\ questions' = [questions EXCEPT ![s] = {}]
    /\ job' = [j \in Jobs |-> IF job[j] # None /\ job[j].set = s
                              THEN [job[j] EXCEPT !.status = "gone"] ELSE job[j]]
    /\ Edited(s)
    /\ UNCHANGED <<nextId, files, made, lost>>

(* adminModeration, by whoever may see the administrators' dashboard.      *)
Moderate(s) ==
    /\ edits < MaxEdits /\ Live(s)
    /\ \E u \in Users : Can(PlatformPrincipal(u, "user", Roles[u]),
                            "dashboard:ViewAdmin", PlatformResource)
    /\ edits' = edits + 1
    /\ shelf' = [shelf EXCEPT ![s] = IF @ = "hidden" THEN "shown" ELSE "hidden"]
    /\ UNCHANGED <<cards, nextId, questions, job, files, task, made, lost>>

-----------------------------------------------------------------------------
(* Jobs.                                                                   *)

(* Update of import_jobs: it finds no row once the set is deleted.         *)
Updated(j, status, imported) ==
    job' = [job EXCEPT ![j] = IF @.status = "gone" THEN @
                              ELSE [@ EXCEPT !.status = status, !.imported = imported]]

(* EnqueueFlashcards and EnqueueQuiz create the row and store the file.    *)
Enqueue(j, s, kind) ==
    /\ job[j] = None /\ MayWrite(s, "study-set:Import")
    /\ job' = [job EXCEPT ![j] = [set |-> s, status |-> "pending", imported |-> 0,
                                 recorded |-> FALSE]]
    /\ Becomes(j, New(j, "put", kind, s))
    /\ UNCHANGED <<tables, files, made, lost, edits>>

(* The upload fails, and may have been stored all the same: nobody deletes *)
(* it.  failJob uses the context of the request, so that a client that     *)
(* went away leaves the row as it is.                                      *)
PutFails(j) ==
    /\ At(j, "put")
    /\ files' \in {files, files \cup {j}}
    /\ \/ Updated(j, "failed", 0) /\ UNCHANGED lost
       \/ lost' = lost \cup {j} /\ UNCHANGED job
    /\ Becomes(j, Idle)
    /\ UNCHANGED <<tables, made, edits>>

Put(j) ==
    /\ At(j, "put")
    /\ files' = files \cup {j}
    /\ Goto(j, "record")
    /\ UNCHANGED <<tables, job, made, lost, edits>>

Recorded(j) ==
    /\ job[j].status # "gone"
    /\ job' = [job EXCEPT ![j].recorded = TRUE]

(* SetImportFile, and the goroutine starts.                                *)
SetImportFile(j) ==
    /\ At(j, "record")
    /\ Recorded(j) /\ Goto(j, "mark")
    /\ UNCHANGED <<tables, files, made, lost, edits>>

(* It fails, or its reply is lost: the error of the Delete is ignored, and *)
(* nobody calls failJob, so that the row stays pending.                    *)
SetImportFileFails(j) ==
    /\ At(j, "record")
    /\ files' \in {files, files \ {j}}
    /\ \/ UNCHANGED <<job, lost>>
       \/ Recorded(j) /\ lost' = lost \cup {j}
    /\ Becomes(j, Idle)
    /\ UNCHANGED <<tables, made, edits>>

MarkRunning(j) ==
    /\ At(j, "mark")
    /\ \/ /\ job[j].status # "gone" /\ Updated(j, "running", 0)
          /\ Goto(j, "open") /\ UNCHANGED lost
       \/ /\ UNCHANGED job \/ Updated(j, "running", 0)
          /\ lost' = lost \cup {j} /\ Goto(j, "cleanup")
    /\ UNCHANGED <<tables, files, made, edits>>

(* A readable spreadsheet is imported; one with row errors ends a quiz     *)
(* import with nothing imported.                                           *)
OpenFile(j) ==
    /\ At(j, "open")
    /\ \/ task[j].kind = "flashcard" /\ Goto(j, "position")
       \/ task[j].kind = "quiz" /\ Goto(j, "replace")
       \/ task[j].kind = "quiz" /\ Goto(j, "done")
    /\ UNCHANGED <<tables, job, files, made, lost, edits>>

(* Mutant of FailJob: the row is left alone. *)
FailJobSilently(j) ==
    /\ j \in Jobs /\ task[j].pc \in {"open", "position", "flush", "replace", "insert", "list", "mirror"}
    /\ Goto(j, "cleanup")
    /\ UNCHANGED <<tables, job, files, made, lost, edits>>

(* Any error of the worker: failJob, whose own failure is ignored, clears  *)
(* the counters whatever was committed.                                    *)
FailJob(j) ==
    /\ j \in Jobs /\ task[j].pc \in {"open", "position", "flush", "replace", "insert", "list", "mirror"}
    /\ \/ Updated(j, "failed", 0) /\ UNCHANGED lost
       \/ lost' = lost \cup {j} /\ UNCHANGED job
    /\ Goto(j, "cleanup")
    /\ UNCHANGED <<tables, files, made, edits>>

NextFlashcardPosition(j) ==
    /\ At(j, "position")
    /\ task' = [task EXCEPT ![j].pc = "flush", ![j].pos = NextPosition(task[j].set)]
    /\ UNCHANGED <<tables, job, files, made, lost, edits>>

(* Mutant of Flush: every chunk starts at the first position again. *)
FlushFromStart(j) ==
    LET n == Min({Chunk, task[j].left}) IN
    /\ At(j, "flush") /\ task[j].left > 0 /\ Live(task[j].set) /\ Room(n)
    /\ cards' = cards \cup NewCards(j, task[j].set, n, task[j].pos)
    /\ nextId' = nextId + n
    /\ made' = [made EXCEPT ![j] = @ + n]
    /\ task' = [Others(task[j].set, j) EXCEPT ![j].pc = "progress", ![j].left = @ - n]
    /\ UNCHANGED <<shelf, questions, job, files, lost, edits>>

(* One chunk of cards, in a transaction of its own.                        *)
Flush(j) ==
    LET n == Min({Chunk, task[j].left}) IN
    /\ At(j, "flush") /\ task[j].left > 0 /\ Live(task[j].set) /\ Room(n)
    /\ cards' = cards \cup NewCards(j, task[j].set, n, task[j].pos)
    /\ nextId' = nextId + n
    /\ made' = [made EXCEPT ![j] = @ + n]
    /\ task' = [Others(task[j].set, j) EXCEPT
                    ![j].pc = "progress", ![j].left = @ - n, ![j].pos = @ + n]
    /\ UNCHANGED <<shelf, questions, job, files, lost, edits>>

(* The counters are brought up to date after the chunk; an error is only   *)
(* logged.                                                                 *)
ReportProgress(j) ==
    /\ At(j, "progress")
    /\ \/ Updated(j, "running", Rows - task[j].left)
       \/ UNCHANGED job
    /\ Goto(j, IF task[j].left = 0 THEN "done" ELSE "flush")
    /\ UNCHANGED <<tables, files, made, lost, edits>>

(* Mutant of Imported: the rows of the file are reported. *)
ImportedRows(j) == Rows

(* What the import reports: cards created, or questions saved.             *)
Imported(j) == Rows - task[j].left

Finish(j) ==
    /\ At(j, "done") /\ j \in Jobs
    /\ \/ Updated(j, "done", Imported(j)) /\ UNCHANGED lost
       \/ lost' = lost \cup {j} /\ UNCHANGED job
    /\ Goto(j, "cleanup")
    /\ UNCHANGED <<tables, files, made, edits>>

(* The deferred Delete of the upload, whose error is ignored.              *)
Cleanup(j) ==
    /\ At(j, "cleanup")
    /\ files' \in {files, files \ {j}}
    /\ Becomes(j, Idle)
    /\ UNCHANGED <<tables, job, made, lost, edits>>

-----------------------------------------------------------------------------
(* Saves and imports inside a request, and the steps both kinds share.     *)

(* BulkSave of the questions by hand, ImportQuiz and ImportFlashcards.     *)
Begin(r, kind, s) ==
    /\ task[r] = Idle
    /\ MayWrite(s, IF kind = "save" THEN "study-set:Update" ELSE "study-set:Import")
    /\ Becomes(r, New(r, IF kind = "flashcard" THEN "count" ELSE "replace", kind, s))
    /\ UNCHANGED <<tables, job, files, made, lost, edits>>

(* startPos of ImportFlashcards is the number of cards.                    *)
CountCards(r) ==
    /\ At(r, "count")
    /\ task' = [task EXCEPT ![r].pc = "append", ![r].pos = Cardinality(CardsOf(task[r].set))]
    /\ UNCHANGED <<tables, job, files, made, lost, edits>>

AppendAll(r) ==
    /\ At(r, "append") /\ Live(task[r].set) /\ Room(Rows)
    /\ cards' = cards \cup NewCards(r, task[r].set, Rows, task[r].pos)
    /\ nextId' = nextId + Rows
    /\ task' = [Others(task[r].set, r) EXCEPT ![r].pc = "done"]
    /\ UNCHANGED <<shelf, questions, job, files, made, lost, edits>>

(* DELETE FROM quiz_question: the rows committed by now.                   *)
ReplaceDelete(t) ==
    /\ At(t, "replace")
    /\ task' = [task EXCEPT ![t].pc = "insert", ![t].seen = questions[task[t].set]]
    /\ UNCHANGED <<tables, job, files, made, lost, edits>>

(* The INSERTs and COMMIT.                                                 *)
ReplaceInsert(t) ==
    LET s == task[t].set IN
    /\ At(t, "insert") /\ Live(s)
    /\ questions' = [questions EXCEPT ![s] = (@ \ task[t].seen) \cup {t}]
    /\ made' = IF t \in Jobs THEN [made EXCEPT ![t] = Rows] ELSE made
    /\ task' = [Others(s, t) EXCEPT ![t].left = 0,
                    ![t].pc = IF task[t].kind = "save" THEN "done" ELSE "list"]
    /\ UNCHANGED <<shelf, cards, nextId, job, files, lost, edits>>

(* A quiz import then lists the flashcards and replaces them by mirrors of *)
(* its questions.                                                          *)
ListCards(t) ==
    /\ At(t, "list")
    /\ task' = [task EXCEPT ![t].pc = "mirror", ![t].seen = CardsOf(task[t].set)]
    /\ UNCHANGED <<tables, job, files, made, lost, edits>>

(* Mutant of MirrorCards: the cards that were there stay. *)
MirrorCardsAppended(t) ==
    LET s == task[t].set IN
    /\ At(t, "mirror") /\ Live(s) /\ Room(Rows)
    /\ cards' = cards \cup NewCards(t, s, Rows, 0)
    /\ nextId' = nextId + Rows
    /\ task' = [Others(s, t) EXCEPT ![t].pc = "done"]
    /\ UNCHANGED <<shelf, questions, job, files, made, lost, edits>>

MirrorCards(t) ==
    LET s == task[t].set IN
    /\ At(t, "mirror") /\ Live(s) /\ Room(Rows)
    /\ cards' = {c \in cards : c.set # s \/ c.id \notin {d.id : d \in task[t].seen}}
                    \cup NewCards(t, s, Rows, 0)
    /\ nextId' = nextId + Rows
    /\ task' = [Others(s, t) EXCEPT ![t].pc = "done"]
    /\ UNCHANGED <<shelf, questions, job, files, made, lost, edits>>

(* A request is answered, or fails at any of its statements.               *)
Answered(r) ==
    /\ Active(r)
    /\ Becomes(r, Idle)
    /\ UNCHANGED <<tables, job, files, made, lost, edits>>

(* The process is replaced: no goroutine is resumed.                       *)
Restart ==
    /\ edits < MaxEdits /\ edits' = edits + 1
    /\ task' = [t \in Tasks |-> Idle]
    /\ lost' = lost \cup {j \in Jobs : Active(j)}
    /\ UNCHANGED <<tables, job, files, made>>

-----------------------------------------------------------------------------
EditNext ==
    \/ \E s \in Sets :
          \/ CreateCard(s) \/ DeleteQuestions(s) \/ DeleteSet(s) \/ Moderate(s)
          \/ \E c \in CardsOf(s), pos \in 0..1 : BulkSaveCards(s, {c}, {}, pos)
    \/ \E c \in cards : DeleteCard(c)

JobNext ==
    \/ \E j \in Jobs, s \in Sets, kind \in {"flashcard", "quiz"} : Enqueue(j, s, kind)
    \/ \E j \in Jobs :
          \/ Put(j) \/ PutFails(j) \/ SetImportFile(j) \/ SetImportFileFails(j)
          \/ MarkRunning(j) \/ OpenFile(j)
          \/ NextFlashcardPosition(j) \/ Flush(j) \/ ReportProgress(j)
          \/ FailJob(j) \/ Finish(j) \/ Cleanup(j)

SaveNext ==
    \/ \E r \in Requests, s \in Sets, kind \in {"save", "quiz", "flashcard"} : Begin(r, kind, s)
    \/ \E r \in Requests : CountCards(r) \/ AppendAll(r) \/ Answered(r)
    \/ \E t \in Tasks :
          ReplaceDelete(t) \/ ReplaceInsert(t) \/ ListCards(t) \/ MirrorCards(t)

ContentNext == EditNext \/ JobNext \/ SaveNext \/ Restart

ContentSpec == ContentInit /\ [][ContentNext]_contentVars

-----------------------------------------------------------------------------
(* Properties.                                                             *)

(* Every row refers to a set that exists, ids are unique, and jobs and     *)
(* tasks are in states the service gives them.                             *)
ContentTypeOK ==
    /\ shelf \in [Sets -> {"shown", "hidden", "deleted"}]
    /\ nextId \in 1..(MaxCards + 1)
    /\ cards \subseteq [id : 1..(nextId - 1), set : {s \in Sets : Live(s)},
                        pos : 0..(2 * MaxCards), by : Tasks \cup {None}]
    /\ Cardinality({c.id : c \in cards}) = Cardinality(cards)
    /\ \A s \in Sets : questions[s] \subseteq Tasks /\ (~Live(s) => questions[s] = {})
    /\ \A j \in Jobs : job[j] # None =>
          job[j].status \in {"pending", "running", "done", "failed", "gone"}
    /\ files \subseteq Jobs /\ lost \subseteq Jobs
    /\ made \in [Jobs -> 0..Rows]
    /\ \A t \in Tasks : Active(t) => task[t].left \in 0..Rows

(* A row of import_jobs that is pending or running has somebody at work on *)
(* it, and a worker that has not opened its upload yet still finds it.     *)
(* The rows left behind are those whose goroutine, or its last update, was *)
(* lost, and those of a request that could not record its upload, which    *)
(* stay pending without a minio_key.  Uploads may stay: every Delete may   *)
(* fail unnoticed, and a failed Put is not followed by one.                *)
UnfinishedHasWorker ==
    /\ ContentTypeOK
    /\ \A j \in Jobs : job[j] # None /\ ~Active(j) /\ j \notin lost =>
        \/ job[j].status \in {"done", "failed", "gone"}
        \/ job[j].status = "pending" /\ ~job[j].recorded
    /\ \A j \in Jobs : Active(j) /\ task[j].pc \in {"mark", "open"} => j \in files

(* The count of a job is never ahead of what is committed, and is exact    *)
(* once the job is done, however chunks, edits, failures and lost updates  *)
(* interleave.  It may lag: a running job whose updates were lost shows an *)
(* older count, and failJob sets it to 0 whatever was committed.           *)
ImportReported ==
    \A j \in Jobs : job[j] # None =>
        /\ job[j].imported <= made[j]
        /\ job[j].status = "done" => job[j].imported = made[j]
        /\ job[j].status \in {"pending", "failed"} => job[j].imported = 0

(* The cards an import made and nobody has moved since are in the order of *)
(* the rows of its file, over all its chunks.                              *)
RowOrderKept ==
    \A c, d \in cards :
        c.by # None /\ c.by = d.by /\ c.set = d.set /\ c.id < d.id =>
            c.pos < d.pos \/ c.by \in Requests

(* When a quiz import whose set nobody else has written to since it began  *)
(* has made both of its replacements, the set holds exactly its questions  *)
(* and only cards that mirror them.  Nothing is said of an import that     *)
(* fails between the two, or of what is written to the set afterwards.     *)
QuizMirrored ==
    \A t \in Tasks : At(t, "done") /\ task[t].kind = "quiz" /\ task[t].alone =>
        \/ /\ questions[task[t].set] = {t}
           /\ \A c \in CardsOf(task[t].set) : c.by = t
        \/ task[t].left = Rows

(* quiz_question.go: "BulkSave replaces all quiz questions for a study set *)
(* within a transaction. It deletes existing questions and inserts new     *)
(* ones."                                                                  *)
QuestionsFromOneSave == \A s \in Sets : Cardinality(questions[s]) <= 1

(* import.go: the sync import reads the highest position so that it        *)
(* appends in the right order.                                             *)
ImportAppends ==
    [][\A r \in Requests : \A c \in cards' \ cards : \A d \in cards :
        c.by = r /\ d.set = c.set /\ task[r].alone => d.pos < c.pos]_contentVars
=============================================================================
