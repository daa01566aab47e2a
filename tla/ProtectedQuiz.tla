--------------------------- MODULE ProtectedQuiz ----------------------------
(***************************************************************************)
(* The protected quiz player of the study service, for the learners of one *)
(* quiz.  Start freezes the questions in a content-addressed snapshot and  *)
(* then creates the session; every later request locks the session row,    *)
(* reads the snapshot through the cache of its replica, and enforces the   *)
(* deadline.  The owner edits the questions meanwhile, and hourly jobs     *)
(* delete expired sessions and snapshots nobody refers to.                 *)
(*                                                                         *)
(* Access checks and rate limits only refuse requests and are left out, as *)
(* is the window of Peek, which only narrows what Peek may show.           *)
(***************************************************************************)
EXTENDS Naturals, FiniteSets

CONSTANTS
    Users,          \* learners
    Sessions,       \* session tokens Start may draw
    Versions,       \* contents the owner gives the quiz
    ItemCount,      \* questions of the quiz
    Choices,        \* answers validQuizAnswer admits
    Solution,       \* Solution[v][i]: correct answer to item i in version v
    Group,          \* Group[i]: passage the item belongs to
    Kinds,          \* combinations of instant, layout and deadline learners start
    Starters,       \* concurrent POST .../play requests
    Replicas,       \* processes of the service
    MaxSessions,    \* MaxSessionsPerQuiz
    NoSession, Purged, NoAnswer, NoScore, NoStarter

Items == 0..(ItemCount - 1)

ASSUME QuizConstants ==
    /\ ItemCount \in Nat \ {0}
    /\ Solution \in [Versions -> [Items -> Choices]]
    /\ Kinds \subseteq [instant : BOOLEAN, layout : {"default", "toeic"}, timed : BOOLEAN]
    /\ IsFiniteSet(Sessions)
    /\ MaxSessions \in Nat \ {0}
    /\ NoAnswer \notin Choices
    /\ NoStarter \notin Starters
    /\ NoScore \notin Nat

\* protected_quiz_sessions.  phase is where the clock stands: before the
\* deadline, past it, past expires_at.  stored is history: the snapshot was in
\* the table when the row was inserted, and no cleanup had picked it.
SessionRow ==
    [user : Users, snapshot : Versions, kind : Kinds,
     phase : {"running", "late", "expired"}, submitted : BOOLEAN, deleted : BOOLEAN,
     answers : [Items -> Choices \cup {NoAnswer}], seen : SUBSET Items, stored : BOOLEAN]

\* A row of protected_quiz_snapshots: younger than 48 hours, older, or picked by
\* a cleanup that is running.
SnapshotState == {"absent", "recent", "old", "picked"}

StarterState ==
    [pc : {"idle"}] \cup
    [pc : {"put", "counted"}, user : Users, kind : Kinds, version : Versions]

ASSUME QuizNulls ==
    /\ NoSession \notin SessionRow
    /\ Purged \notin SessionRow
    /\ NoSession # Purged

VARIABLES
    version,        \* the questions the quiz has now
    snapshots,      \* protected_quiz_snapshots by content
    cache,          \* snapshots in the memory of every replica
    session,        \* protected_quiz_sessions by token
    recorded,       \* score in learning_sessions under the key of the session
    starter,        \* state of every start request
    creating        \* holder of pg_advisory_xact_lock(user)

quizVars == <<version, snapshots, cache, session, recorded, starter, creating>>

Idle == [pc |-> "idle"]
IsRow(s) == session[s] \notin {NoSession, Purged}

QuizInit ==
    /\ version \in Versions
    /\ snapshots = [v \in Versions |-> "absent"]
    /\ cache = [rep \in Replicas |-> {}]
    /\ session = [s \in Sessions |-> NoSession]
    /\ recorded = [s \in Sessions |-> NoScore]
    /\ starter = [b \in Starters |-> Idle]
    /\ creating = [u \in Users |-> NoStarter]

-----------------------------------------------------------------------------
(* The view of a session.                                                  *)

\* quizContent.page: one item, or the whole passage.
Page(kind, i) == IF kind.layout = "toeic" THEN {j \in Items : Group[j] = Group[i]} ELSE {i}

Answered(row) == {i \in Items : row.answers[i] # NoAnswer}

\* Items whose solution or result a view of the page at i carries: every
\* answered item of a submitted session, the answered ones of the page in
\* instant mode.
Shown(row, i) ==
    IF row.submitted THEN Answered(row)
    ELSE IF row.kind.instant THEN Page(row.kind, i) \cap Answered(row) ELSE {}

\* The score buildView computes, with the snapshot of the session.
Score(row) == Cardinality({i \in Items : row.answers[i] = Solution[row.snapshot][i]})

-----------------------------------------------------------------------------
(* The snapshot cache.                                                     *)

\* Get and Put leave the snapshot in the cache; whatever exceeds the byte
\* budget is evicted, never the entry just stored.
CacheStore(rep, v) ==
    \E kept \in SUBSET cache[rep] :
        /\ v \in cache[rep] => kept = cache[rep]
        /\ cache' = [cache EXCEPT ![rep] = kept \cup {v}]

\* Get: from memory, or from the table.
Readable(rep, v) == v \in cache[rep] \/ snapshots[v] # "absent"

-----------------------------------------------------------------------------
(* Start.                                                                  *)

\* ListByStudySet, after the input was checked, and Put, whose ON CONFLICT DO
\* NOTHING leaves an old snapshot as old as it was.  They are one step: between
\* the two, only an edit matters, and it might as well come after both.  A row
\* whose deletion is under way may still be found there.
StartSnapshot(b, u, kind, rep) ==
    /\ starter[b] = Idle
    /\ snapshots' = [snapshots EXCEPT ![version] = IF @ = "absent" THEN "recent" ELSE @]
    /\ CacheStore(rep, version)
    /\ starter' = [starter EXCEPT ![b] = [pc |-> "put", user |-> u, kind |-> kind,
                                          version |-> version]]
    /\ UNCHANGED <<version, session, recorded, creating>>

\* Sessions Create counts: active_until lies in the future.
Active(u) == {s \in Sessions : /\ IsRow(s)
                               /\ session[s].user = u
                               /\ session[s].phase = "running"
                               /\ ~session[s].submitted
                               /\ ~session[s].deleted}

\* The expired sessions of some users are deleted.
WithoutExpired(who) ==
    [s \in Sessions |-> IF IsRow(s) /\ session[s].phase = "expired" /\ session[s].user \in who
                          THEN Purged ELSE session[s]]

\* Mutant of CreateCount: without the advisory lock.
CreateCountUnlocked(b) ==
    LET u == starter[b].user
    IN  /\ starter[b].pc = "put"
        /\ Cardinality(Active(u)) < MaxSessions
        /\ starter' = [starter EXCEPT ![b].pc = "counted"]
        /\ UNCHANGED <<version, snapshots, cache, session, recorded, creating>>

\* Create: BEGIN, the advisory lock of the user and the count, which refuses
\* with ErrQuizSessionLimit.
CreateCount(b) ==
    LET u == starter[b].user
    IN  /\ starter[b].pc = "put"
        /\ creating[u] = NoStarter
        /\ IF Cardinality(Active(u)) < MaxSessions
             THEN /\ creating' = [creating EXCEPT ![u] = b]
                  /\ starter' = [starter EXCEPT ![b].pc = "counted"]
             ELSE /\ starter' = [starter EXCEPT ![b] = Idle]
                  /\ UNCHANGED creating
        /\ UNCHANGED <<version, snapshots, cache, session, recorded>>

\* The lock of a starter goes with its transaction.
Released(b) == [u \in Users |-> IF creating[u] = b THEN NoStarter ELSE creating[u]]

\* The row Start creates; its first page counts as seen.
Created(b) ==
    [user |-> starter[b].user, snapshot |-> starter[b].version, kind |-> starter[b].kind,
     phase |-> "running", submitted |-> FALSE, deleted |-> FALSE,
     answers |-> [i \in Items |-> NoAnswer], seen |-> Page(starter[b].kind, 0),
     stored |-> snapshots[starter[b].version] \in {"recent", "old"}]

\* INSERT and COMMIT; the expired sessions of the user are deleted with it.
\* Tokens are random and never drawn twice.
CreateInsert(b, s) ==
    /\ starter[b].pc = "counted"
    /\ session[s] = NoSession
    /\ session' = [WithoutExpired({starter[b].user}) EXCEPT ![s] = Created(b)]
    /\ creating' = Released(b)
    /\ starter' = [starter EXCEPT ![b] = Idle]
    /\ UNCHANGED <<version, snapshots, cache, recorded>>

\* A database error or a client that goes away; what Put inserted stays.
StartFail(b) ==
    /\ starter[b] # Idle
    /\ creating' = Released(b)
    /\ starter' = [starter EXCEPT ![b] = Idle]
    /\ UNCHANGED <<version, snapshots, cache, session, recorded>>

-----------------------------------------------------------------------------
(* ActWith: one transaction under the lock of the session row.             *)

\* Update and View find only these.
Playable(s) == IsRow(s) /\ session[s].phase # "expired" /\ ~session[s].deleted

\* Mutant of AutoSubmitted: the deadline is left to the browser.
AutoSubmittedNever(row) == row

\* A session whose deadline has passed is submitted by the first request that
\* finds it, whatever the request is.
AutoSubmitted(row) == [row EXCEPT !.submitted = @ \/ row.phase = "late"]

\* The end of every action: the page at i is served and counts as seen, a first
\* submission is recorded, the row is written back.
Serve(s, rep, row, i) ==
    LET after == [row EXCEPT !.seen = @ \cup Page(row.kind, i)]
    IN  /\ Playable(s)
        /\ Readable(rep, row.snapshot)
        /\ CacheStore(rep, row.snapshot)
        /\ session' = [session EXCEPT ![s] = after]
        /\ recorded' = IF after.submitted /\ ~session[s].submitted /\ recorded[s] = NoScore
                         THEN [recorded EXCEPT ![s] = Score(after)] ELSE recorded
        /\ UNCHANGED <<version, snapshots, starter, creating>>

ActPage(s, rep, i) == IsRow(s) /\ Serve(s, rep, AutoSubmitted(session[s]), i)

\* Mutant of MayAnswer: answers stay open after the submission.
MayAnswerLate(row, i) == i \in row.seen

\* Mutant of MayAnswer: instant answers can be changed.
MayAnswerAgain(row, i) == ~row.submitted /\ i \in row.seen

\* An answer is taken for an item that was served before the submission; it is
\* final in instant mode.
MayAnswer(row, i) ==
    /\ ~row.submitted
    /\ i \in row.seen
    /\ row.kind.instant => row.answers[i] = NoAnswer

\* An answer to an item that was never served is refused with ErrValidation.
ActAnswer(s, rep, i, a) ==
    /\ IsRow(s)
    /\ LET row == AutoSubmitted(session[s])
       IN  /\ row.submitted \/ i \in row.seen
           /\ Serve(s, rep, IF MayAnswer(row, i) THEN [row EXCEPT !.answers[i] = a] ELSE row, i)

ActSubmit(s, rep, i) ==
    IsRow(s) /\ Serve(s, rep, [AutoSubmitted(session[s]) EXCEPT !.submitted = TRUE], i)

\* Peek and Audio read the row without a lock and write nothing but the cache.
Peek(s, rep) ==
    /\ Playable(s)
    /\ Readable(rep, session[s].snapshot)
    /\ CacheStore(rep, session[s].snapshot)
    /\ UNCHANGED <<version, snapshots, session, recorded, starter, creating>>

\* Mutant of DeleteSession: the deletion is written as a state of its own.
DeleteAsPhase(s) ==
    /\ IsRow(s)
    /\ session' = [session EXCEPT ![s].phase = "deleted"]
    /\ UNCHANGED <<version, snapshots, cache, recorded, starter, creating>>

\* Delete: the row stays until it expires, and keeps its snapshot.
DeleteSession(s) ==
    /\ IsRow(s)
    /\ session' = [session EXCEPT ![s].deleted = TRUE]
    /\ UNCHANGED <<version, snapshots, cache, recorded, starter, creating>>

-----------------------------------------------------------------------------
(* The owner, the clock and the hourly jobs.                               *)

EditQuestions(v) ==
    /\ version' = v
    /\ UNCHANGED <<snapshots, cache, session, recorded, starter, creating>>

\* The deadline of a session passes, or its 24 hours are over, which a deadline
\* never exceeds.
ClockPasses(s, phase) ==
    /\ IsRow(s)
    /\ \/ phase = "late" /\ session[s].phase = "running" /\ session[s].kind.timed
       \/ phase = "expired" /\ session[s].phase = IF session[s].kind.timed THEN "late" ELSE "running"
    /\ session' = [session EXCEPT ![s].phase = phase]
    /\ UNCHANGED <<version, snapshots, cache, recorded, starter, creating>>

\* A snapshot gets older than 48 hours; no request lasts that long.
SnapshotAges(v) ==
    /\ snapshots[v] = "recent"
    /\ \A b \in Starters : starter[b] = Idle
    /\ snapshots' = [snapshots EXCEPT ![v] = "old"]
    /\ UNCHANGED <<version, cache, session, recorded, starter, creating>>

\* DELETE FROM protected_quiz_sessions WHERE expires_at < now().
PurgeSessions ==
    /\ session' = WithoutExpired(Users)
    /\ UNCHANGED <<version, snapshots, cache, recorded, starter, creating>>

\* Mutant of Unreferenced: soft-deleted sessions do not count, and neither do
\* those past their deadline.
UnreferencedByActive(v) ==
    \A s \in Sessions : IsRow(s) /\ session[s].snapshot = v => s \notin Active(session[s].user)

Unreferenced(v) == \A s \in Sessions : IsRow(s) => session[s].snapshot # v

\* DeleteUnreferenced is one DELETE ... WHERE NOT EXISTS: it picks the rows on the
\* sessions committed when it begins, and without a foreign key nobody looks
\* again when they go.
PickUnreferenced ==
    /\ snapshots' = [v \in Versions |->
          IF snapshots[v] = "old" /\ Unreferenced(v) THEN "picked" ELSE snapshots[v]]
    /\ UNCHANGED <<version, cache, session, recorded, starter, creating>>

\* The deletion commits, or fails; statements of several replicas may overlap.
\* The caches keep what they hold.
DeletePicked(v) ==
    /\ snapshots[v] = "picked"
    /\ \E left \in {"absent", "old"} : snapshots' = [snapshots EXCEPT ![v] = left]
    /\ UNCHANGED <<version, cache, session, recorded, starter, creating>>

\* A replica is replaced; its memory is gone.
ReplicaRestart(rep) ==
    /\ cache' = [cache EXCEPT ![rep] = {}]
    /\ UNCHANGED <<version, snapshots, session, recorded, starter, creating>>

-----------------------------------------------------------------------------
StartNext ==
    \/ \E b \in Starters, u \in Users, kind \in Kinds, rep \in Replicas :
         StartSnapshot(b, u, kind, rep)
    \/ \E b \in Starters : CreateCount(b)
    \/ \E b \in Starters, s \in Sessions : CreateInsert(b, s)
    \/ \E b \in Starters : StartFail(b)

PlayNext ==
    \/ \E s \in Sessions, rep \in Replicas, i \in Items : ActPage(s, rep, i)
    \/ \E s \in Sessions, rep \in Replicas, i \in Items, a \in Choices : ActAnswer(s, rep, i, a)
    \/ \E s \in Sessions, rep \in Replicas, i \in Items : ActSubmit(s, rep, i)
    \/ \E s \in Sessions, rep \in Replicas : Peek(s, rep)
    \/ \E s \in Sessions : DeleteSession(s)

BackgroundNext ==
    \/ \E v \in Versions : EditQuestions(v)
    \/ \E s \in Sessions, phase \in {"late", "expired"} : ClockPasses(s, phase)
    \/ \E v \in Versions : SnapshotAges(v)
    \/ PurgeSessions
    \/ PickUnreferenced
    \/ \E v \in Versions : DeletePicked(v)
    \/ \E rep \in Replicas : ReplicaRestart(rep)

QuizNext == StartNext \/ PlayNext \/ BackgroundNext

QuizSpec == QuizInit /\ [][QuizNext]_quizVars

-----------------------------------------------------------------------------
(* Properties.                                                             *)

\* Every variable holds a value the tables, caches and handlers can hold.
QuizTypeOK ==
    /\ version \in Versions
    /\ snapshots \in [Versions -> SnapshotState]
    /\ cache \in [Replicas -> SUBSET Versions]
    /\ session \in [Sessions -> SessionRow \cup {NoSession, Purged}]
    /\ recorded \in [Sessions -> Nat \cup {NoScore}]
    /\ starter \in [Starters -> StarterState]
    /\ creating \in [Users -> Starters \cup {NoStarter}]

\* A learner never has more active sessions of the quiz than the limit, though
\* the count and the insert are two statements and starts run on any replica.
SessionCap == \A u \in Users : Cardinality(Active(u)) <= MaxSessions

\* The score that reaches learning_sessions is recorded with the submission,
\* once, and stays the score of the session's answers under the questions it
\* was started with, whatever requests, edits and cleanups follow.
RecordedScoreFinal ==
    /\ QuizTypeOK
    /\ \A s \in Sessions :
        IsRow(s) => recorded[s] = IF session[s].submitted THEN Score(session[s]) ELSE NoScore

\* Whoever can see the solution or the result of an item, on a page, on the
\* result screen or in a prefetch that runs beside an answer, has answered it,
\* and that answer never changes again.
ShownAnswersFinal ==
    [][\A s \in Sessions : IsRow(s) =>
        \A i \in Items : \A j \in Shown(session[s], i) :
            /\ session[s].answers[j] # NoAnswer
            /\ session'[s] = Purged \/ session'[s].answers[j] = session[s].answers[j]]_quizVars

\* No answer is stored once the deadline has passed or the session is
\* submitted, deleted or expired.
AnswersFrozen ==
    [][\A s \in Sessions :
        IsRow(s) /\ s \notin Active(session[s].user) =>
            session'[s] = Purged \/ session'[s].answers = session[s].answers]_quizVars

\* A session inserted while its snapshot was in the table, with no cleanup about
\* to take it, finds it there for as long as it can be played: no later cleanup,
\* edit or end of other sessions takes it away.  A session inserted between the
\* picking and the deletion, or after it, is the exception.
QuestionsKept ==
    \A s \in Sessions :
        Playable(s) /\ session[s].stored => snapshots[session[s].snapshot] # "absent"

\* What a token stands for: an attempt that can still be played, or shown, as
\* long as it has neither expired nor been deleted.
AttemptOf(row) ==
    IF row = NoSession THEN [state |-> "absent"]
    ELSE IF row = Purged \/ row.phase = "expired" \/ row.deleted THEN [state |-> "gone"]
    ELSE [state |-> IF row.submitted THEN "submitted"
                    ELSE IF row.phase = "late" THEN "over" ELSE "open",
          user |-> row.user, questions |-> row.snapshot, kind |-> row.kind,
          answers |-> row.answers]

Attempts == INSTANCE QuizAttempts WITH
    attempt <- [s \in Sessions |-> AttemptOf(session[s])],
    score <- recorded

\* Snapshot, count, insert, automatic submission, soft deletion, caches and
\* cleanups together are what QuizAttempts promises: every learner's attempts
\* begin whole and within the limit, are answered while they are open,
\* submitted once with their score, and never come back.
ImplementsAttempts == Attempts!AttemptsSpec

\* docs/plans/quiz-ui-redesign-and-performance.md: a session goes on pointing
\* at its snapshot, and only snapshots no session refers to are cleaned up.
SessionHasSnapshot ==
    \A s \in Sessions : Playable(s) => snapshots[session[s].snapshot] # "absent"
=============================================================================
